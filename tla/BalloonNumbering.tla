------------------------- MODULE BalloonNumbering --------------------------
(***************************************************************************)
(* The numbers of a drawing's balloons.  Top-level balloons are numbered   *)
(* through all pages or from 1 on each page; a balloon with a sub-number   *)
(* carries the number of its parent (5-1 hangs off 5).  Drawing, deleting, *)
(* moving, sub-numbering and renumbering mean to keep the numbers in       *)
(* order; a typed sub-number, the filters and Clear page change the sheet  *)
(* and leave the other numbers alone.  An operator's script numbers a      *)
(* per-page drawing through, from a read it made earlier.                  *)
(*                                                                         *)
(* A balloon's ID is its place in the editor's array.  Where a balloon     *)
(* lies on the sheet matters only to the order a renumbering visits, which *)
(* is any order here.  Undo, redo and the live reload put an earlier or a  *)
(* stored sheet back; they are in BallooningEditor.                        *)
(***************************************************************************)
EXTENDS Integers, FiniteSets, FiniteSetsExt, Functions, Folds

CONSTANTS
    Pages,       \* page indexes
    Categories,  \* ranks of the number categories in use
    Starts,      \* how a recognised drawing is numbered: "through", "pages"
    HandEdits,   \* the edits that renumber nothing; see AllHandEdits
    EditsDuringScript, \* whether the drawing is edited while the script runs
    Recognised,  \* bound: balloons found by recognition
    MaxBalloons, \* bound: balloons ever on the drawing
    MaxNumber,   \* bound: the next number to give out
    MaxSub       \* bound: the next sub-number to give out, or one that is typed

\* sub: the Sub-number field; filter: Remove in the filter dialog; clear: Clear
\* page; category: the Category field of a balloon.
AllHandEdits == {"sub", "filter", "clear", "category"}

ASSUME NumberingAssumption ==
    /\ Pages \subseteq Nat /\ IsFiniteSet(Pages)
    /\ Categories \subseteq Nat /\ Categories # {} /\ IsFiniteSet(Categories)
    /\ Starts \subseteq {"through", "pages"}
    /\ Recognised \in Nat /\ MaxBalloons \in Nat /\ Recognised <= MaxBalloons
    /\ HandEdits \subseteq AllHandEdits /\ EditsDuringScript \in BOOLEAN
    /\ MaxNumber \in Nat /\ MaxSub \in Nat

VARIABLES
    sheet,   \* the balloons that are left, by ID
    drawn,   \* balloons there ever were
    script   \* what the numbering script has read, or nothing

vars == <<sheet, drawn, script>>

Ids == 1..MaxBalloons
Balloon == [page: Pages, number: Nat \ {0}, sub: Nat, category: Categories]

IsSheet(s) == DOMAIN s \subseteq 1..drawn /\ \A i \in DOMAIN s : s[i] \in Balloon
NotRunning == [read |-> FALSE]

Tops(s) == {i \in DOMAIN s : s[i].sub = 0}
Subs(s) == {i \in DOMAIN s : s[i].sub # 0}

\* isContinuousNumbering: no top-level number appears on two pages.
Continuous(s) == \A i, j \in Tops(s) : s[i].number = s[j].number => s[i].page = s[j].page

\* The balloons a change made on a page may renumber.
Scope(s, page) == {i \in DOMAIN s : Continuous(s) \/ s[i].page = page}

\* Sub-numbered balloons of a set, in the order of their sub-numbers.
Earlier(s, i, j) == s[i].sub < s[j].sub \/ (s[i].sub = s[j].sub /\ i < j)
Rank(s, i, family) == Cardinality({j \in family : Earlier(s, j, i)})

Children(s, number, scope) == {i \in Subs(s) \cap scope : s[i].number = number}

\* Children numbered 1, 2, ... in their order.
CloseUp(s, family) ==
    [i \in DOMAIN s |-> IF i \in family THEN [s[i] EXCEPT !.sub = Rank(s, i, family) + 1]
                        ELSE s[i]]

ShiftAbove(s, number, scope) ==
    [i \in DOMAIN s |-> IF i \in scope /\ s[i].number > number
                        THEN [s[i] EXCEPT !.number = @ - 1] ELSE s[i]]
-----------------------------------------------------------------------------
(* Drawing a balloon. *)

NextNumber(s) == Max({0} \cup {s[i].number : i \in DOMAIN s}) + 1

Add(page, category) ==
    /\ drawn < MaxBalloons /\ NextNumber(sheet) <= MaxNumber
    /\ drawn' = drawn + 1
    /\ sheet' = [i \in DOMAIN sheet \cup {drawn + 1} |->
                    IF i \in DOMAIN sheet THEN sheet[i]
                    ELSE [page |-> page, number |-> NextNumber(sheet), sub |-> 0,
                          category |-> category]]
    /\ UNCHANGED script
-----------------------------------------------------------------------------
(* Deleting the selected balloons. *)

\* 1. The first child of a deleted parent takes its number, the others close up.
Promote(s, kept, removed) ==
    LET orphaned(i) == \E p \in removed \cap Tops(s) :
            /\ i \in Children(kept, s[p].number, Scope(s, s[p].page))
            /\ \A k \in Tops(kept) \cap Scope(s, s[p].page) : s[k].number # s[p].number
    IN  [i \in DOMAIN kept |->
            IF orphaned(i)
            THEN [kept[i] EXCEPT !.sub =
                    Rank(kept, i, Children(kept, s[i].number, Scope(s, s[i].page)))]
            ELSE kept[i]]

\* Variant: siblings of a deleted child keep their numbers.
LeaveSiblings(s, kept, removed) == kept

\* 2. The siblings of a deleted child close up.
CloseSiblings(s, kept, removed) ==
    LET bereaved(i) == \E c \in removed \cap Subs(s) :
            i \in Children(kept, s[c].number, Scope(s, s[c].page))
    IN  [i \in DOMAIN kept |->
            IF bereaved(i)
            THEN [kept[i] EXCEPT !.sub =
                    Rank(kept, i, Children(kept, s[i].number, Scope(s, s[i].page))) + 1]
            ELSE kept[i]]

\* Variant: gaps are closed from the lowest.
Highest(gaps) == CHOOSE g \in gaps : \A h \in gaps : h.number <= g.number

\* Gaps are closed from the highest: the last of some is the lowest.
LastGap(gaps) == CHOOSE g \in gaps : \A h \in gaps : g.number <= h.number

\* 3. Top-level numbers that nothing carries any more are closed.
CloseGaps(s, kept, removed) ==
    LET gaps == {[number |-> s[r].number, page |-> s[r].page] : r \in removed \cap Tops(s)}
        close(g, t) == IF \E k \in DOMAIN t \cap Scope(s, g.page) : t[k].number = g.number
                       THEN t ELSE ShiftAbove(t, g.number, Scope(s, g.page))
    IN  MapThenFoldSet(close, kept, LAMBDA g : g, LastGap, gaps)

\* deleteBalloons.
Delete(removed) ==
    /\ removed # {}
    /\ LET kept == Promote(sheet, Restrict(sheet, DOMAIN sheet \ removed), removed)
       IN  sheet' = CloseGaps(sheet, CloseSiblings(sheet, kept, removed), removed)
    /\ UNCHANGED <<drawn, script>>
-----------------------------------------------------------------------------
(* Moving a balloon to a number. *)

\* Variant: a number below 1 is taken as it is.
AtMostLast(target, last) == Min({last, target})

\* The number asked for, pulled into 1..last.
Clamp(target, last) == Max({1, Min({last, target})})

\* Variant: only the balloon is moved, its children stay behind.
BalloonAlone(s, i, scope) == {i}

Family(s, i, scope) == {i} \cup Children(s, s[i].number, scope)

\* Variant: the number is only set.
StayPut(number, from, to) == number

\* The balloons passed on the way step aside.
StepAside(number, from, to) ==
    IF to <= number /\ number < from THEN number + 1
    ELSE IF from < number /\ number <= to THEN number - 1
    ELSE number

\* moveBalloonNumber.
Move(i, target) ==
    LET scope  == Scope(sheet, sheet[i].page)
        from   == sheet[i].number
        to     == Clamp(target, Max({sheet[j].number : j \in Tops(sheet) \cap scope}))
        family == Family(sheet, i, scope)
    IN  /\ i \in Tops(sheet)
        /\ to # from
        /\ sheet' = [k \in DOMAIN sheet |->
                        [sheet[k] EXCEPT !.number = IF k \in family THEN to
                                                    ELSE IF k \in scope THEN StepAside(@, from, to)
                                                    ELSE @]]
        /\ UNCHANGED <<drawn, script>>
-----------------------------------------------------------------------------
(* Sub-numbers. *)

SamePage(s, i) == {j \in DOMAIN s : s[j].page = s[i].page}

\* closeNumberGap, in the scope the drawing had before the change.
CloseNumberGap(s, number, scope) ==
    IF \E k \in Tops(s) \cap scope : s[k].number = number THEN s ELSE ShiftAbove(s, number, scope)

\* completeSubNumber: a balloon, with its children, goes under another one.
SubNumber(child, parent) ==
    LET page     == SamePage(sheet, child)
        wasTop   == child \in Tops(sheet)
        old      == sheet[child].number
        target   == sheet[parent].number
        ownKids  == IF wasTop THEN Children(sheet, old, page) ELSE {}
        siblings == Children(sheet, target, page) \ {child}
        first    == Max({0} \cup {sheet[s].sub : s \in siblings}) + 1
        hung     == [i \in DOMAIN sheet |->
                        IF i = child THEN [sheet[i] EXCEPT !.number = target, !.sub = first]
                        ELSE IF i \in ownKids
                        THEN [sheet[i] EXCEPT !.number = target,
                                              !.sub = first + 1 + Rank(sheet, i, ownKids)]
                        ELSE sheet[i]]
    IN  /\ parent \in page
        /\ first + Cardinality(ownKids) <= MaxSub
        /\ ~(wasTop /\ target = old)
        /\ sheet' = IF wasTop THEN CloseNumberGap(hung, old, Scope(sheet, sheet[child].page))
                    ELSE CloseUp(hung, Children(hung, old, page))
        /\ UNCHANGED <<drawn, script>>

\* restoreNormalNumber: a child gets a number of its own, at the end.
RestoreNormalNumber(i) ==
    LET restored == [sheet EXCEPT ![i].sub = 0, ![i].number = NextNumber(sheet)]
    IN  /\ i \in Subs(sheet)
        /\ NextNumber(sheet) <= MaxNumber
        /\ sheet' = CloseUp(restored, Children(restored, sheet[i].number, SamePage(sheet, i)))
        /\ UNCHANGED <<drawn, script>>
-----------------------------------------------------------------------------
(* Renumbering: category by category, page by page. *)

\* The category of a child is that of the balloon which carried, before the
\* renumbering, the number the child carries now.
GroupOf(before, s, i) ==
    LET parents == {p \in Tops(before) : before[p].page = s[i].page
                                         /\ before[p].number = s[i].number}
    IN  IF i \in Tops(s) \/ parents = {} THEN s[i].category
        ELSE before[Max(parents)].category

\* applyNumbering on one page's balloons of one category.
ApplyNumbering(s, on, order, next) ==
    LET tops == on \cap Tops(s)
        place(i) == next + Cardinality({j \in tops : order[j] < order[i]})
        parents(i) == {p \in tops : s[p].number = s[i].number}
        last(i) == CHOOSE p \in parents(i) : \A q \in parents(i) : order[q] <= order[p]
    IN  [i \in DOMAIN s |->
            IF i \in tops THEN [s[i] EXCEPT !.number = place(i)]
            ELSE IF i \in on /\ parents(i) # {} THEN [s[i] EXCEPT !.number = place(last(i))]
            ELSE s[i]]

\* The visits go group by group, and in a group page by page.
LastVisit(visits) ==
    CHOOSE v \in visits : \A u \in visits :
        u.group < v.group \/ (u.group = v.group /\ u.page <= v.page)

\* renumberAcrossPages.
Renumber(order) ==
    LET number(v, done) ==
            LET on == {i \in DOMAIN sheet : sheet[i].page = v.page
                                            /\ GroupOf(sheet, done.sheet, i) = v.group}
            IN  [sheet |-> ApplyNumbering(done.sheet, on, order, done.next),
                 next  |-> done.next + Cardinality(on \cap Tops(done.sheet))]
    IN  /\ DOMAIN sheet # {}
        /\ sheet' = MapThenFoldSet(number, [sheet |-> sheet, next |-> 1], LAMBDA v : v,
                                   LastVisit, [group: Categories, page: Pages]).sheet
        /\ UNCHANGED <<drawn, script>>
-----------------------------------------------------------------------------
(* Edits that leave the other balloons' numbers alone. *)

\* The Sub-number field writes what is typed; 0 stands for blank.
TypeSubNumber(i, n) ==
    /\ "sub" \in HandEdits
    /\ sheet' = [sheet EXCEPT ![i].sub = n]
    /\ UNCHANGED <<drawn, script>>

\* Remove in the filter dialog takes the balloons that the filters match.
FilterRemove(doomed) ==
    /\ "filter" \in HandEdits
    /\ doomed # {}
    /\ sheet' = Restrict(sheet, DOMAIN sheet \ doomed)
    /\ UNCHANGED <<drawn, script>>

\* Clear page, for the page on the screen or for all.
ClearPage(cleared) ==
    /\ "clear" \in HandEdits
    /\ sheet' = Restrict(sheet, {i \in DOMAIN sheet : sheet[i].page \notin cleared})
    /\ UNCHANGED <<drawn, script>>

\* The Category field, or Treat as a note.
SetCategory(i, category) ==
    /\ "category" \in HandEdits
    /\ sheet' = [sheet EXCEPT ![i].category = category]
    /\ UNCHANGED <<drawn, script>>
-----------------------------------------------------------------------------
(* The script that numbers drawings through. *)

HighestOn(s, page) == Max({0} \cup {s[i].number : i \in {j \in DOMAIN s : s[j].page = page}})

Offset(s, page) == MapThenSumSet(LAMBDA q : HighestOn(s, q), {q \in Pages : q < page})

\* It reads, and goes on only if a number is on two pages.
ScriptRead ==
    /\ script = NotRunning
    /\ \E i, j \in DOMAIN sheet : sheet[i].number = sheet[j].number
                                  /\ sheet[i].page # sheet[j].page
    /\ MapThenSumSet(LAMBDA q : HighestOn(sheet, q), Pages) <= MaxNumber
    /\ script' = [read |-> TRUE, sheet |-> sheet]
    /\ UNCHANGED <<sheet, drawn>>

BalloonNo(b) == <<b.number, b.sub>>

\* It writes in one transaction, skipping rows whose number is no longer what it read.
ScriptWrite ==
    /\ script # NotRunning
    /\ sheet' = [i \in DOMAIN sheet |->
                    IF /\ i \in DOMAIN script.sheet
                       /\ BalloonNo(sheet[i]) = BalloonNo(script.sheet[i])
                    THEN [sheet[i] EXCEPT !.number =
                            @ + Offset(script.sheet, script.sheet[i].page)]
                    ELSE sheet[i]]
    /\ script' = NotRunning
    /\ UNCHANGED drawn
-----------------------------------------------------------------------------
(* Recognition numbers what it finds through the pages, as the engine used *)
(* to, page by page, or not at all when nothing was found.                 *)
Recognition(k, pageOf, categoryOf, start) ==
    [i \in 1..k |->
        [page |-> pageOf[i], sub |-> 0, category |-> categoryOf[i],
         number |-> Cardinality({j \in 1..k :
             \/ pageOf[j] = pageOf[i] /\ j <= i
             \/ start = "through" /\ pageOf[j] < pageOf[i]})]]

Init ==
    /\ \E k \in 0..Recognised, start \in Starts :
          \E pageOf \in [1..k -> Pages], categoryOf \in [1..k -> Categories] :
              /\ sheet = Recognition(k, pageOf, categoryOf, start)
              /\ drawn = k
    /\ script = NotRunning

\* Several balloons read in a box are added one after the other.
Placing ==
    \/ \E page \in Pages, category \in Categories : Add(page, category)
    \/ \E removed \in SUBSET DOMAIN sheet : Delete(removed)
    \/ \E i \in DOMAIN sheet, target \in 0..(MaxNumber + 1) : Move(i, target)
    \/ \E i \in DOMAIN sheet : RestoreNormalNumber(i)

Hanging == \E child, parent \in DOMAIN sheet : SubNumber(child, parent)

Renumbering == \E order \in Bijection(Tops(sheet), 1..Cardinality(Tops(sheet))) : Renumber(order)

Typing == \E i \in DOMAIN sheet, n \in 0..MaxSub : TypeSubNumber(i, n)

ByHand ==
    \/ Typing
    \/ \E doomed \in SUBSET DOMAIN sheet : FilterRemove(doomed)
    \/ \E cleared \in {{page} : page \in Pages} \cup {Pages} : ClearPage(cleared)
    \/ \E i \in DOMAIN sheet, category \in Categories : SetCategory(i, category)

Edit == Placing \/ Hanging \/ Renumbering \/ ByHand

Scripted == ScriptRead \/ ScriptWrite

Next ==
    \/ (EditsDuringScript \/ script = NotRunning) /\ Edit
    \/ Scripted

Spec == Init /\ [][Next]_vars
-----------------------------------------------------------------------------
(* Properties. *)

TypeOK ==
    /\ drawn \in 0..MaxBalloons
    /\ IsSheet(sheet)
    /\ script = NotRunning \/ IsSheet(script.sheet)

Distinct(s) ==
    \A i, j \in Tops(s) : i # j /\ s[i].page = s[j].page => s[i].number # s[j].number

Parents(s, i) == {p \in Tops(s) : s[p].page = s[i].page /\ s[p].number = s[i].number}

\* Every child hangs off a balloon of its page, and families count 1, 2, ...
Whole(s) ==
    /\ \A i \in Subs(s) : Parents(s, i) # {}
    /\ \A p \in Tops(s) :
          LET family == Children(s, s[p].number, SamePage(s, p))
          IN  {s[i].sub : i \in family} = 1..Cardinality(family)

InOrder(s) == Distinct(s) /\ Whole(s)

\* Renumbered by one category only: the lookup of a child's parent is not used.
OfOneCategory(s) == \A i, j \in DOMAIN s : s[i].category = s[j].category

\* The changes that renumber, a renumbering by several categories left out.
Numbering ==
    \/ Placing \/ Hanging \/ Scripted
    \/ OfOneCategory(sheet) /\ Renumbering

(***************************************************************************)
(* Only a typed sub-number can give two balloons of a page one number:     *)
(* deletes, moves, renumberings by any categories and the script never do, *)
(* whatever gaps, orphans and holes the sheet has.                         *)
(***************************************************************************)
NumbersDistinct ==
    [][Distinct(sheet) /\ ~Distinct(sheet') => Typing]_vars

(***************************************************************************)
(* Where numbers are distinct and families whole, none of the changes that *)
(* renumber leaves a child without its parent or a hole in a family,       *)
(* whatever mixture of parents and children is deleted or hung elsewhere,  *)
(* and however the sheet came to be.                                       *)
(***************************************************************************)
FamiliesWhole ==
    [][InOrder(sheet) /\ ~Whole(sheet') => ~Numbering]_vars

Numbered(s, tops) == {s[i].number : i \in tops} = 1..Cardinality(tops)

Through(s) == Numbered(s, Tops(s))
EachPage(s) == \A page \in Pages : Numbered(s, {i \in Tops(s) : s[i].page = page})

(***************************************************************************)
(* A drawing numbered 1, 2, ... through or on each page stays so in every  *)
(* change that renumbers, except that a new number on a per-page drawing   *)
(* comes after all the others: "a missing one reads as a lost              *)
(* characteristic" (BallooningEditing.ts:92-93).                           *)
(***************************************************************************)
StaysNumbered ==
    [][/\ InOrder(sheet)
       /\ \/ Through(sheet)
          \/ EachPage(sheet) /\ Cardinality(Tops(sheet')) <= Cardinality(Tops(sheet))
       /\ ~Through(sheet') /\ ~EachPage(sheet')
       => ~Numbering]_vars

PulledAway(i) ==
    /\ i \in Subs(sheet) \cap Subs(sheet') /\ Parents(sheet, i) \subseteq DOMAIN sheet'
    /\ Parents(sheet', i) # Parents(sheet, i)

(***************************************************************************)
(* Deleting others, moving, numbering through and renumbering in one       *)
(* category leave a child with its parent: "Children move with their       *)
(* parent" (BallooningEditing.ts:216).                                     *)
(***************************************************************************)
FamiliesStay ==
    [][InOrder(sheet) /\ (\E i \in DOMAIN sheet : PulledAway(i))
       => Hanging \/ ~Numbering]_vars

(***************************************************************************)
(* A renumbering by categories leaves a child with its parent: "a          *)
(* sub-number is never pulled away from the balloon it hangs off"          *)
(* (BallooningWidget.ts:3106-3107).                                        *)
(***************************************************************************)
NeverPulledAway ==
    [][InOrder(sheet) /\ (\E i \in DOMAIN sheet : PulledAway(i)) => ~Renumbering]_vars

(***************************************************************************)
(* A child whose sub-number is cleared is a balloon of its own: "clear the *)
(* sub-number to make it a balloon of its own first"                       *)
(* (BallooningEditing.ts:222-223).                                         *)
(***************************************************************************)
ClearedIsItsOwn ==
    [][\A i \in DOMAIN sheet : Distinct(sheet) /\ TypeSubNumber(i, 0) => Distinct(sheet')]_vars
=============================================================================
