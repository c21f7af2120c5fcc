----------------------- MODULE BallooningEditorProofs -----------------------
(***************************************************************************)
(* For every drawing, history limit and bound: the undo history stays      *)
(* within its limit, no edit, undo, redo or reload loses track of a stored *)
(* balloon, and, with no recognition at work, a save that reports success  *)
(* has made the database equal to the sheet, whatever sequence of edits    *)
(* came before and whatever earlier saves broke off half way.              *)
(***************************************************************************)
EXTENDS BallooningEditor, SequenceTheorems, FiniteSetTheorems,
        FunctionTheorems, TLAPS

USE DEF reloadVars

(* The operators. *)

\* A sheet built from the parts of one is a sheet.
LEMMA SheetParts ==
    ASSUME NEW a \in SUBSET Balloon, NEW r \in SUBSET Balloon,
           NEW m \in SUBSET Pages, NEW z \in SUBSET Pages
    PROVE  [annotations |-> a, removed |-> r, masks |-> m, areas |-> z] \in Sheet
BY DEF Sheet

\* A sheet is the record of its parts.
LEMMA SheetFields ==
    ASSUME NEW s \in Sheet
    PROVE  /\ s.annotations \subseteq Balloon /\ s.removed \subseteq Balloon
           /\ s.masks \subseteq Pages /\ s.areas \subseteq Pages
           /\ s = [annotations |-> s.annotations, removed |-> s.removed,
                   masks |-> s.masks, areas |-> s.areas]
BY DEF Sheet

\* Taking the top off a non-empty stack.
LEMMA PopTop ==
    ASSUME NEW S, NEW q \in Seq(S), q # <<>>
    PROVE  /\ Pop(q) \in Seq(S) /\ Top(q) \in S
           /\ Len(Pop(q)) = Len(q) - 1
           /\ \A i \in DOMAIN Pop(q) : Pop(q)[i] \in {q[j] : j \in DOMAIN q}
           /\ Top(q) \in {q[j] : j \in DOMAIN q}
<1>1. Len(q) \in Nat \ {0}
  OBVIOUS
<1> DEFINE n == Len(q) - 1
<1>a. n \in Int /\ \A i \in 1..n : q[i] \in S
  BY <1>1
<1>b. /\ SubSeq(q, 1, n) \in Seq(S)
      /\ Len(SubSeq(q, 1, n)) = IF 1 <= n THEN n - 1 + 1 ELSE 0
      /\ \A i \in 1..(n - 1 + 1) : SubSeq(q, 1, n)[i] = q[1 + i - 1]
  BY <1>a, SubSeqProperties
<1>c. /\ Pop(q) \in Seq(S)
      /\ Len(Pop(q)) = IF 1 <= n THEN n - 1 + 1 ELSE 0
      /\ \A i \in 1..(n - 1 + 1) : Pop(q)[i] = q[1 + i - 1]
  BY <1>b, Zenon DEF Pop
<1>d. n \in Nat /\ n = Len(q) - 1
  BY <1>1
<1> HIDE DEF n
<1>2. Pop(q) \in Seq(S) /\ Len(Pop(q)) = Len(q) - 1
  BY <1>c, <1>d
<1>3. \A i \in DOMAIN Pop(q) : i \in DOMAIN q /\ Pop(q)[i] = q[i]
  BY <1>1, <1>2, <1>c, <1>d
<1>4. Len(q) \in DOMAIN q /\ Top(q) = q[Len(q)] /\ q[Len(q)] \in S
  BY <1>1 DEF Top
<1> QED
  BY <1>2, <1>3, <1>4

\* Pushing on a stack.
LEMMA Push ==
    ASSUME NEW S, NEW q \in Seq(S), NEW x \in S
    PROVE  /\ Append(q, x) \in Seq(S) /\ Len(Append(q, x)) = Len(q) + 1
           /\ \A i \in DOMAIN Append(q, x) :
                Append(q, x)[i] \in {q[j] : j \in DOMAIN q} \cup {x}
<1>1. Append(q, x) \in Seq(S) /\ Len(Append(q, x)) = Len(q) + 1
  OBVIOUS
<1>2. ASSUME NEW i \in DOMAIN Append(q, x)
      PROVE  Append(q, x)[i] \in {q[j] : j \in DOMAIN q} \cup {x}
  <2>1. CASE i = Len(q) + 1
    BY <2>1
  <2>2. CASE i # Len(q) + 1
    <3>1. i \in DOMAIN q
      BY <1>1, <2>2
    <3>2. Append(q, x)[i] = q[i]
      BY <3>1
    <3> QED BY <3>1, <3>2
  <2> QED BY <2>1, <2>2
<1> QED BY <1>1, <1>2

\* A trimmed stack holds what the stack held and at most HistoryLimit steps.
LEMMA Trimmed ==
    ASSUME NEW S, NEW q \in Seq(S), Len(q) <= HistoryLimit + 1
    PROVE  /\ Shift(q) \in Seq(S) /\ Len(Shift(q)) <= HistoryLimit
           /\ \A i \in DOMAIN Shift(q) : Shift(q)[i] \in {q[j] : j \in DOMAIN q}
<1> USE EditorAssumption
<1>1. CASE Len(q) <= HistoryLimit
  <2>1. Shift(q) = q
    BY <1>1 DEF Shift
  <2> QED BY <1>1, <2>1
<1>2. CASE ~(Len(q) <= HistoryLimit)
  <2>1. Shift(q) = Tail(q) /\ Len(q) = HistoryLimit + 1 /\ q # <<>>
    BY <1>2 DEF Shift
  <2>2. Tail(q) \in Seq(S) /\ Len(Tail(q)) = HistoryLimit
    BY <2>1
  <2>3. ASSUME NEW i \in DOMAIN Tail(q)
        PROVE  Tail(q)[i] \in {q[j] : j \in DOMAIN q}
    <3>1. i + 1 \in DOMAIN q /\ Tail(q)[i] = q[i + 1]
      BY <2>1, <2>2
    <3> QED BY <3>1
  <2> QED BY <2>1, <2>2, <2>3
<1> QED BY <1>1, <1>2

\* What stays within a limit when a step moves from one stack to the other.
LEMMA Moved ==
    ASSUME NEW limit \in Nat, NEW u \in Nat, NEW r \in Nat, u + r <= limit
    PROVE  /\ u + 1 <= limit + 1
           /\ (u - 1) + (r + 1) <= limit /\ (u + 1) + (r - 1) <= limit
OBVIOUS
-----------------------------------------------------------------------------
(* The histories a step can lead to. *)

\* The snapshots of a history, for any history.
SnapshotsOf(h) == {h.current} \cup {h.undo[i] : i \in DOMAIN h.undo}
                              \cup {h.redo[i] : i \in DOMAIN h.redo}

Within(h) == Len(h.undo) + Len(h.redo) <= HistoryLimit

LEMMA HistoryFields ==
    ASSUME NEW h \in History
    PROVE  h.undo \in Seq(Sheet) /\ h.redo \in Seq(Sheet) /\ h.current \in Sheet
BY DEF History

\* A recorded step adds the new sheet and keeps the limit.
LEMMA RecordStep ==
    ASSUME NEW h \in History, NEW s \in Sheet, Within(h)
    PROVE  /\ record(h, s) \in History /\ Within(record(h, s))
           /\ SnapshotsOf(record(h, s)) \subseteq SnapshotsOf(h) \cup {s}
           /\ record(h, s).current = s
<1>0. /\ h.undo \in Seq(Sheet) /\ h.redo \in Seq(Sheet) /\ h.current \in Sheet
      /\ Len(h.undo) \in Nat /\ Len(h.redo) \in Nat /\ HistoryLimit \in Nat
      /\ Len(h.undo) + Len(h.redo) <= HistoryLimit
  <2>1. h.undo \in Seq(Sheet) /\ h.redo \in Seq(Sheet) /\ h.current \in Sheet
    BY HistoryFields
  <2>2. Len(h.undo) \in Nat /\ Len(h.redo) \in Nat
    BY <2>1
  <2>3. Len(h.undo) + Len(h.redo) <= HistoryLimit
    BY Zenon DEF Within
  <2> QED
    BY <2>1, <2>2, <2>3, EditorAssumption
<1>1. CASE s = h.current
  BY <1>1, <1>0 DEF record
<1>2. CASE s # h.current
  <2> DEFINE q == Append(h.undo, h.current)
  <2>1. record(h, s) = [undo |-> Shift(q), redo |-> <<>>, current |-> s]
    BY <1>2 DEF record
  <2>2. /\ q \in Seq(Sheet) /\ Len(q) = Len(h.undo) + 1
        /\ \A i \in DOMAIN q : q[i] \in {h.undo[j] : j \in DOMAIN h.undo} \cup {h.current}
    BY <1>0, Push
  <2>3. Len(q) <= HistoryLimit + 1
    <3>1. Len(h.undo) + 1 <= HistoryLimit + 1
      BY <1>0, Moved
    <3> QED BY <2>2, <3>1
  <2> HIDE DEF q
  <2>4. /\ Shift(q) \in Seq(Sheet) /\ Len(Shift(q)) <= HistoryLimit
        /\ \A i \in DOMAIN Shift(q) : Shift(q)[i] \in {q[j] : j \in DOMAIN q}
    BY <2>2, <2>3, Trimmed
  <2>5. record(h, s) \in History
    BY <1>0, <2>1, <2>4 DEF History
  <2>6. Within(record(h, s))
    BY <1>0, <2>1, <2>4 DEF Within
  <2>7. SnapshotsOf(record(h, s)) \subseteq SnapshotsOf(h) \cup {s}
    BY <2>1, <2>2, <2>4 DEF SnapshotsOf
  <2> QED BY <2>1, <2>5, <2>6, <2>7
<1> QED BY <1>1, <1>2

\* Undoing moves a step over to the other stack.
LEMMA UndoStep ==
    ASSUME NEW h \in History, Within(h), h.undo # <<>>
    PROVE  /\ undo(h) \in History /\ Within(undo(h))
           /\ SnapshotsOf(undo(h)) \subseteq SnapshotsOf(h)
           /\ undo(h).current \in SnapshotsOf(h)
<1>0. /\ h.undo \in Seq(Sheet) /\ h.redo \in Seq(Sheet) /\ h.current \in Sheet
      /\ Len(h.undo) \in Nat /\ Len(h.redo) \in Nat /\ HistoryLimit \in Nat
      /\ Len(h.undo) + Len(h.redo) <= HistoryLimit
  <2>1. h.undo \in Seq(Sheet) /\ h.redo \in Seq(Sheet) /\ h.current \in Sheet
    BY HistoryFields
  <2>2. Len(h.undo) \in Nat /\ Len(h.redo) \in Nat
    BY <2>1
  <2>3. Len(h.undo) + Len(h.redo) <= HistoryLimit
    BY Zenon DEF Within
  <2> QED
    BY <2>1, <2>2, <2>3, EditorAssumption
<1> DEFINE p == Pop(h.undo)  t == Top(h.undo)  q == Append(h.redo, h.current)
<1>1. undo(h) = [undo |-> p, redo |-> q, current |-> t]
  BY DEF undo
<1>2. /\ p \in Seq(Sheet) /\ t \in Sheet /\ Len(p) = Len(h.undo) - 1
      /\ \A i \in DOMAIN p : p[i] \in {h.undo[j] : j \in DOMAIN h.undo}
      /\ t \in {h.undo[j] : j \in DOMAIN h.undo}
  BY <1>0, PopTop
<1>3. /\ q \in Seq(Sheet) /\ Len(q) = Len(h.redo) + 1
      /\ \A i \in DOMAIN q : q[i] \in {h.redo[j] : j \in DOMAIN h.redo} \cup {h.current}
  BY <1>0, Push
<1> HIDE DEF p, t, q
<1>5. undo(h) \in History
  BY <1>0, <1>1, <1>2, <1>3 DEF History
<1>6. Within(undo(h))
  <2>1. (Len(h.undo) - 1) + (Len(h.redo) + 1) <= HistoryLimit
    BY <1>0, Moved
  <2>2. undo(h).undo = p /\ undo(h).redo = q
    BY <1>1
  <2> QED BY <2>1, <2>2, <1>2, <1>3, Zenon DEF Within
<1>7. SnapshotsOf(undo(h)) \subseteq SnapshotsOf(h) /\ undo(h).current \in SnapshotsOf(h)
  BY <1>1, <1>2, <1>3 DEF SnapshotsOf
<1> QED BY <1>5, <1>6, <1>7

\* Redoing moves it back.
LEMMA RedoStep ==
    ASSUME NEW h \in History, Within(h), h.redo # <<>>
    PROVE  /\ redo(h) \in History /\ Within(redo(h))
           /\ SnapshotsOf(redo(h)) \subseteq SnapshotsOf(h)
           /\ redo(h).current \in SnapshotsOf(h)
<1>0. /\ h.undo \in Seq(Sheet) /\ h.redo \in Seq(Sheet) /\ h.current \in Sheet
      /\ Len(h.undo) \in Nat /\ Len(h.redo) \in Nat /\ HistoryLimit \in Nat
      /\ Len(h.undo) + Len(h.redo) <= HistoryLimit
  <2>1. h.undo \in Seq(Sheet) /\ h.redo \in Seq(Sheet) /\ h.current \in Sheet
    BY HistoryFields
  <2>2. Len(h.undo) \in Nat /\ Len(h.redo) \in Nat
    BY <2>1
  <2>3. Len(h.undo) + Len(h.redo) <= HistoryLimit
    BY Zenon DEF Within
  <2> QED
    BY <2>1, <2>2, <2>3, EditorAssumption
<1> DEFINE p == Pop(h.redo)  t == Top(h.redo)  q == Append(h.undo, h.current)
<1>1. redo(h) = [undo |-> q, redo |-> p, current |-> t]
  BY DEF redo
<1>2. /\ p \in Seq(Sheet) /\ t \in Sheet /\ Len(p) = Len(h.redo) - 1
      /\ \A i \in DOMAIN p : p[i] \in {h.redo[j] : j \in DOMAIN h.redo}
      /\ t \in {h.redo[j] : j \in DOMAIN h.redo}
  BY <1>0, PopTop
<1>3. /\ q \in Seq(Sheet) /\ Len(q) = Len(h.undo) + 1
      /\ \A i \in DOMAIN q : q[i] \in {h.undo[j] : j \in DOMAIN h.undo} \cup {h.current}
  BY <1>0, Push
<1> HIDE DEF p, t, q
<1>5. redo(h) \in History
  BY <1>0, <1>1, <1>2, <1>3 DEF History
<1>6. Within(redo(h))
  <2>1. (Len(h.undo) + 1) + (Len(h.redo) - 1) <= HistoryLimit
    BY <1>0, Moved
  <2>2. redo(h).undo = q /\ redo(h).redo = p
    BY <1>1
  <2> QED BY <2>1, <2>2, <1>2, <1>3, Zenon DEF Within
<1>7. SnapshotsOf(redo(h)) \subseteq SnapshotsOf(h) /\ redo(h).current \in SnapshotsOf(h)
  BY <1>1, <1>2, <1>3 DEF SnapshotsOf
<1> QED BY <1>5, <1>6, <1>7
-----------------------------------------------------------------------------
(* The inductive invariant. *)

IInv == TypeOK /\ HistoryBounded /\ NothingDropped

\* What the two invariants say, in the terms of the lemmas above.
LEMMA InvTerms ==
    /\ HistoryBounded <=> Within(history)
    /\ Snapshots = SnapshotsOf(history)
BY DEF HistoryBounded, Within, Snapshots, SnapshotsOf

\* A balloon row reads as a balloon.
LEMMA BalloonRead ==
    ASSUME rows \in Seq(Row), NEW i \in DOMAIN rows
    PROVE  AsBalloon(i) \in Balloon /\ Live(i) \in BOOLEAN
<1>1. rows[i] \in Row /\ i \in Int \ {0}
  OBVIOUS
<1> QED BY <1>1 DEF AsBalloon, Balloon, Row, Live

\* What a reload reads is a sheet.
LEMMA LoadedSheet ==
    ASSUME rows \in Seq(Row), stored \in [masks: SUBSET Pages, areas: SUBSET Pages],
           NEW z \in SUBSET Pages
    PROVE  loadBalloons(z) \in Sheet
<1>1. \A removed : {AsBalloon(i) : i \in LiveRows(removed)} \subseteq Balloon
  BY BalloonRead DEF LiveRows
<1>2. stored.masks \subseteq Pages
  OBVIOUS
<1> QED BY <1>1, <1>2, SheetParts DEF loadBalloons

\* A fresh history holds its one sheet.
LEMMA FreshHistory ==
    ASSUME NEW s \in Sheet
    PROVE  /\ NewHistory(s) \in History /\ Within(NewHistory(s))
           /\ SnapshotsOf(NewHistory(s)) = {s}
BY EditorAssumption DEF NewHistory, History, Within, SnapshotsOf

\* A step that leaves sheet and history alone keeps the two invariants.
LEMMA SheetUntouched ==
    ASSUME IInv, sheet' = sheet, history' = history, TypeOK'
    PROVE  IInv'
BY DEF IInv, HistoryBounded, NothingDropped, Snapshots, PersistedIds, isPersistedId
-----------------------------------------------------------------------------
(* Edits. *)

\* An edit that keeps the persisted ids of the sheet keeps the invariant.
LEMMA EditKeeps ==
    ASSUME IInv, NEW s \in Sheet, PersistedIds(s) = PersistedIds(sheet), Edit(s)
    PROVE  IInv'
<1>1. /\ history \in History /\ Within(history)
      /\ \A t \in SnapshotsOf(history) : PersistedIds(t) = PersistedIds(sheet)
  BY InvTerms DEF IInv, TypeOK, NothingDropped
<1>2. /\ sheet' = s /\ history' = record(history, s) /\ dirty' = TRUE
      /\ edits' = edits + 1
      /\ UNCHANGED <<databaseVars, reloadVars, saving, asked, runVars, settled>>
  BY DEF Edit
<1>3. /\ history' \in History /\ Within(history')
      /\ SnapshotsOf(history') \subseteq SnapshotsOf(history) \cup {s}
  BY <1>1, <1>2, RecordStep
<1>4. TypeOK'
  BY <1>2, <1>3 DEF IInv, TypeOK, databaseVars, runVars
<1>5. HistoryBounded'
  BY <1>3 DEF HistoryBounded, Within
<1>6. Snapshots' = SnapshotsOf(history')
  BY DEF Snapshots, SnapshotsOf
<1>7. \A t \in SnapshotsOf(history') : PersistedIds(t) = PersistedIds(s)
  BY <1>1, <1>3
<1>8. NothingDropped'
  BY <1>2, <1>6, <1>7 DEF NothingDropped, PersistedIds, isPersistedId
<1> QED BY <1>4, <1>5, <1>8 DEF IInv

\* Going back or forth a step leads to a sheet of the history.
LEMMA RestoreKeeps ==
    ASSUME IInv, NEW h \in History, Within(h),
           SnapshotsOf(h) \subseteq SnapshotsOf(history) \cup {sheet},
           h.current \in SnapshotsOf(h), restoreSnapshot(h)
    PROVE  IInv'
<1>1. \A t \in SnapshotsOf(history) : PersistedIds(t) = PersistedIds(sheet)
  BY InvTerms DEF IInv, NothingDropped
<1>2. /\ sheet' = h.current /\ history' = h /\ dirty' = TRUE /\ edits' = edits + 1
      /\ UNCHANGED <<databaseVars, reloadVars, saving, asked, runVars, settled>>
  BY DEF restoreSnapshot
<1>3. h.current \in Sheet
  BY HistoryFields
<1>4. TypeOK'
  BY <1>2, <1>3 DEF IInv, TypeOK, databaseVars, runVars
<1>5. HistoryBounded'
  BY <1>2 DEF HistoryBounded, Within
<1>6. Snapshots' = SnapshotsOf(h)
  BY <1>2 DEF Snapshots, SnapshotsOf
<1>7. \A t \in SnapshotsOf(h) : PersistedIds(t) = PersistedIds(h.current)
  BY <1>1
<1>8. NothingDropped'
  BY <1>2, <1>6, <1>7 DEF NothingDropped, PersistedIds, isPersistedId
<1> QED BY <1>4, <1>5, <1>8 DEF IInv

LEMMA UndoKeeps == ASSUME IInv, Undo PROVE IInv'
<1> DEFINE g == record(history, sheet)
<1>1. history \in History /\ Within(history) /\ sheet \in Sheet
  BY InvTerms DEF IInv, TypeOK
<1>2. /\ g \in History /\ Within(g)
      /\ SnapshotsOf(g) \subseteq SnapshotsOf(history) \cup {sheet}
  BY <1>1, RecordStep
<1>3. g.undo # <<>> /\ restoreSnapshot(undo(g))
  BY DEF Undo
<1> HIDE DEF g
<1>4. /\ undo(g) \in History /\ Within(undo(g))
      /\ SnapshotsOf(undo(g)) \subseteq SnapshotsOf(g)
      /\ undo(g).current \in SnapshotsOf(undo(g))
  BY <1>2, <1>3, UndoStep DEF SnapshotsOf
<1> QED BY <1>2, <1>3, <1>4, RestoreKeeps

LEMMA RedoKeeps == ASSUME IInv, Redo PROVE IInv'
<1>1. history \in History /\ Within(history)
  BY InvTerms DEF IInv, TypeOK
<1>2. history.redo # <<>> /\ restoreSnapshot(redo(history))
  BY DEF Redo
<1>3. /\ redo(history) \in History /\ Within(redo(history))
      /\ SnapshotsOf(redo(history)) \subseteq SnapshotsOf(history)
      /\ redo(history).current \in SnapshotsOf(redo(history))
  BY <1>1, <1>2, RedoStep DEF SnapshotsOf
<1> QED BY <1>2, <1>3, RestoreKeeps

LEMMA DrawKeeps ==
    ASSUME IInv, NEW page \in Pages, Draw(page)
    PROVE  IInv'
<1> DEFINE b == [id |-> -(edits + 1), page |-> page, manual |-> TRUE, text |-> "typed"]
           s == [sheet EXCEPT !.annotations = @ \cup {b}]
<1>1. sheet \in Sheet /\ edits \in Nat
  BY DEF IInv, TypeOK
<1>2. b \in Balloon /\ ~isPersistedId(b)
  BY <1>1 DEF Balloon, Texts, isPersistedId
<1>3. Edit(s)
  BY DEF Draw
<1> HIDE DEF b
<1>4. s \in Sheet
  BY <1>1, <1>2 DEF Sheet
<1>5. s.annotations = sheet.annotations \cup {b} /\ s.removed = sheet.removed
  BY <1>1 DEF Sheet
<1> HIDE DEF s
<1>6. PersistedIds(s) = PersistedIds(sheet)
  BY <1>2, <1>5 DEF PersistedIds
<1> QED BY <1>3, <1>4, <1>6, EditKeeps

LEMMA RetypeKeeps ==
    ASSUME IInv, NEW b \in sheet.annotations, Retype(b)
    PROVE  IInv'
<1> DEFINE c == [b EXCEPT !.text = "typed"]
           s == [sheet EXCEPT !.annotations = (@ \ {b}) \cup {c}]
<1>1. sheet \in Sheet /\ b \in Balloon
  BY DEF IInv, TypeOK, Sheet
<1>2. c \in Balloon /\ c.id = b.id
  BY <1>1 DEF Balloon, Texts
<1>3. Edit(s)
  BY DEF Retype
<1> HIDE DEF c
<1>4. s \in Sheet
  BY <1>1, <1>2 DEF Sheet
<1>5. s.annotations = (sheet.annotations \ {b}) \cup {c} /\ s.removed = sheet.removed
  BY <1>1 DEF Sheet
<1> HIDE DEF s
<1>6. PersistedIds(s) = PersistedIds(sheet)
  BY <1>2, <1>5 DEF PersistedIds, isPersistedId
<1> QED BY <1>3, <1>4, <1>6, EditKeeps

LEMMA DeleteKeeps ==
    ASSUME IInv, NEW chosen \in SUBSET sheet.annotations, NEW masks,
           deleteSelected(chosen, masks)
    PROVE  IInv'
<1> DEFINE s == [sheet EXCEPT !.annotations = @ \ chosen, !.removed = @ \cup chosen,
                              !.masks = @ \ masks]
<1>1. sheet \in Sheet
  BY DEF IInv, TypeOK
<1>2. Edit(s)
  BY DEF deleteSelected
<1>3. s \in Sheet
  BY <1>1 DEF Sheet
<1>4. /\ s.annotations = sheet.annotations \ chosen
      /\ s.removed = sheet.removed \cup chosen
  BY <1>1 DEF Sheet
<1> HIDE DEF s
<1>5. s.annotations \cup s.removed = sheet.annotations \cup sheet.removed
  BY <1>4
<1>6. PersistedIds(s) = PersistedIds(sheet)
  BY <1>5 DEF PersistedIds
<1> QED BY <1>2, <1>3, <1>6, EditKeeps

\* Masks and areas carry no balloon.
LEMMA ZonesKeep ==
    ASSUME IInv, NEW page \in Pages,
           DrawMask(page) \/ DrawArea(page) \/ ClearArea(page)
    PROVE  IInv'
<1>1. sheet \in Sheet
  BY DEF IInv, TypeOK
<1>2. PICK s \in Sheet : /\ Edit(s)
                         /\ s.annotations = sheet.annotations
                         /\ s.removed = sheet.removed
  <2>1. CASE DrawMask(page)
    BY <1>1, <2>1 DEF DrawMask, Sheet
  <2>2. CASE DrawArea(page)
    BY <1>1, <2>2 DEF DrawArea, Sheet
  <2>3. CASE ClearArea(page)
    BY <1>1, <2>3 DEF ClearArea, Sheet
  <2> QED BY <2>1, <2>2, <2>3
<1>3. PersistedIds(s) = PersistedIds(sheet)
  BY <1>2 DEF PersistedIds
<1> QED BY <1>2, <1>3, EditKeeps

LEMMA EditingKeeps == ASSUME IInv, Editing PROVE IInv'
<1>1. CASE \E page \in Pages : Draw(page)
  BY <1>1, DrawKeeps
<1>2. CASE \E b \in sheet.annotations : Retype(b)
  BY <1>2, RetypeKeeps
<1>3. CASE \E b \in sheet.annotations : deleteSelected({b}, {})
  BY <1>3, DeleteKeeps
<1>4. CASE \E pages \in {{p} : p \in Pages} \cup {Pages} : handleClearPage(pages)
  <2>1. PICK pages : handleClearPage(pages)
    BY <1>4
  <2> QED BY <2>1, DeleteKeeps DEF handleClearPage
<1>5. CASE \E page \in Pages : DrawMask(page) \/ deleteSelected({}, {page})
  BY <1>5, ZonesKeep, DeleteKeeps
<1>6. CASE \E page \in Pages : DrawArea(page) \/ ClearArea(page)
  BY <1>6, ZonesKeep
<1>7. CASE Undo \/ Redo
  BY <1>7, UndoKeeps, RedoKeeps
<1> QED BY <1>1, <1>2, <1>3, <1>4, <1>5, <1>6, <1>7 DEF Editing
-----------------------------------------------------------------------------
(* Saves. *)

\* What a save holds when it is under way.
LEMMA SavingFields ==
    ASSUME TypeOK, saving # NotSaving
    PROVE  /\ saving \in Saving
           /\ saving.todo \subseteq Item /\ saving.existing \subseteq Nat
           /\ saving.of \in Sheet /\ saving.upto \in Nat /\ saving.stage \in Stages
BY DEF TypeOK, Saving

\* A save that moves on with what it has left is a save.
LEMMA SavingMoves ==
    ASSUME NEW v \in Saving, NEW stage \in Stages,
           NEW todo \in SUBSET Item, NEW existing \in SUBSET Nat
    PROVE  /\ [v EXCEPT !.stage = stage] \in Saving
           /\ [v EXCEPT !.todo = todo] \in Saving
           /\ [v EXCEPT !.existing = existing] \in Saving
           /\ [v EXCEPT !.stage = stage, !.existing = existing] \in Saving
BY DEF Saving

LEMMA SaveStartKeeps == ASSUME IInv, SaveStart PROVE IInv'
<1> USE DEF IInv
<1>1. sheet \in Sheet /\ edits \in Nat /\ rows \in Seq(Row)
  BY DEF TypeOK
<1>2. /\ [balloon: sheet.annotations, removed: {FALSE}] \subseteq Item
      /\ [balloon: sheet.removed, removed: {TRUE}] \subseteq Item
  BY <1>1, SheetFields DEF Item
<1>3. {i \in DOMAIN rows : Live(i)} \subseteq Nat
  BY <1>1
<1>4. saving' \in Saving
  BY <1>1, <1>2, <1>3 DEF SaveStart, Saving, Stages
<1>5. UNCHANGED <<databaseVars, sheetVars, reloadVars, asked, runVars>>
  BY DEF SaveStart
<1>6. TypeOK'
  BY <1>4, <1>5 DEF TypeOK, databaseVars, sheetVars, runVars
<1> QED BY <1>5, <1>6, SheetUntouched DEF sheetVars

LEMMA SaveBalloonKeeps ==
    ASSUME IInv, saving # NotSaving, NEW item \in saving.todo, SaveBalloon(item)
    PROVE  IInv'
<1> USE DEF IInv
<1>1. item \in Item /\ rows \in Seq(Row) /\ sheet \in Sheet
  BY SavingFields DEF TypeOK
<1>2. item.balloon \in Balloon /\ item.removed \in BOOLEAN
  BY <1>1 DEF Item
<1>3. SentText(item.balloon) \subseteq Texts
  BY <1>1, <1>2, SheetFields DEF SentText, Balloon
<1>4. rows' \in Seq(Row)
  <2>1. PICK text \in Texts :
           IF isPersistedId(item.balloon) THEN Update(item.balloon.id, item, text)
                                          ELSE Create(item, text)
    BY <1>3 DEF SaveBalloon
  <2>2. ASSUME NEW i \in Int, Update(i, item, text) PROVE rows' \in Seq(Row)
    <3>1. \A j \in DOMAIN rows :
             [rows[j] EXCEPT !.removed = item.removed, !.text = text] \in Row
      <4>1. \A j \in DOMAIN rows : rows[j] \in Row
        BY <1>1
      <4>2. \A r \in Row : [r EXCEPT !.removed = item.removed, !.text = text] \in Row
        BY <1>2 DEF Row
      <4> QED BY <4>1, <4>2
    <3> DEFINE new(j) == [rows[j] EXCEPT !.removed = item.removed, !.text = text]
    <3>2. rows' = [j \in DOMAIN rows |-> IF j = i THEN new(j) ELSE rows[j]]
      BY <1>1, <2>2 DEF Update
    <3>3. \A j \in DOMAIN rows : new(j) \in Row
      BY <3>1
    <3> HIDE DEF new
    <3> QED BY <1>1, <3>2, <3>3
  <2>3. ASSUME Create(item, text) PROVE rows' \in Seq(Row)
    <3>1. [page |-> item.balloon.page, manual |-> item.balloon.manual,
           removed |-> item.removed, text |-> text,
           state |-> "live", made |-> item.balloon.id] \in Row
      BY <1>2 DEF Row, RowStates, Balloon
    <3> QED BY <1>1, <2>3, <3>1 DEF Create
  <2>4. item.balloon.id \in Int
    BY <1>2 DEF Balloon
  <2> QED BY <2>1, <2>2, <2>3, <2>4
<1>5. saving' \in Saving
  BY SavingFields, SavingMoves DEF SaveBalloon
<1>6. UNCHANGED <<stored, sheetVars, reloadVars, asked, runVars>>
  BY DEF SaveBalloon
<1>7. TypeOK'
  BY <1>4, <1>5, <1>6 DEF TypeOK, sheetVars, runVars
<1> QED BY <1>6, <1>7, SheetUntouched DEF sheetVars

LEMMA DeleteUnseenKeeps ==
    ASSUME IInv, saving # NotSaving, NEW i \in saving.existing, DeleteUnseen(i)
    PROVE  IInv'
<1> USE DEF IInv
<1>1. rows \in Seq(Row)
  BY DEF TypeOK
<1>2. rows' \in Seq(Row)
  <2>1. \A j \in DOMAIN rows : [rows[j] EXCEPT !.state = "deleted"] \in Row
    <3>1. "deleted" \in RowStates /\ \A j \in DOMAIN rows : rows[j] \in Row
      BY <1>1 DEF RowStates
    <3>2. \A r \in Row : [r EXCEPT !.state = "deleted"] \in Row
      BY <3>1 DEF Row
    <3> QED BY <3>1, <3>2
  <2>2. rows' = [j \in DOMAIN rows |->
                   IF j = i THEN [rows[j] EXCEPT !.state = "deleted"] ELSE rows[j]]
    BY <1>1 DEF DeleteUnseen
  <2> QED BY <1>1, <2>1, <2>2
<1>3. saving' \in Saving
  BY SavingFields, SavingMoves DEF DeleteUnseen
<1>4. UNCHANGED <<stored, sheetVars, reloadVars, asked, runVars>>
  BY DEF DeleteUnseen
<1>5. TypeOK'
  BY <1>2, <1>3, <1>4 DEF TypeOK, sheetVars, runVars
<1> QED BY <1>4, <1>5, SheetUntouched DEF sheetVars

\* The steps between: what is written is written, the stage moves on.
LEMMA StageMoves ==
    ASSUME IInv, saving # NotSaving, SaveBalloonsDone \/ DeleteUnseenDone \/ SaveFail
    PROVE  IInv'
<1> USE DEF IInv
<1>1. UNCHANGED <<databaseVars, sheetVars, reloadVars, asked, runVars>>
  BY DEF SaveBalloonsDone, DeleteUnseenDone, SaveFail
<1>2. saving' \in {NotSaving} \cup Saving
  <2>1. Unseen \subseteq Nat
    BY SavingFields DEF Unseen
  <2>2. "unseen" \in Stages /\ "masks" \in Stages
    BY DEF Stages
  <2>3. CASE SaveBalloonsDone
    BY <2>1, <2>2, <2>3, SavingFields, SavingMoves DEF SaveBalloonsDone
  <2>4. CASE DeleteUnseenDone
    BY <2>2, <2>4, SavingFields, SavingMoves DEF DeleteUnseenDone
  <2>5. CASE SaveFail
    BY <2>5 DEF SaveFail
  <2> QED BY <2>3, <2>4, <2>5
<1>3. TypeOK'
  BY <1>1, <1>2 DEF TypeOK, databaseVars, sheetVars, runVars
<1> QED BY <1>1, <1>3, SheetUntouched DEF sheetVars

LEMMA ZonesSaved ==
    ASSUME IInv, saving # NotSaving, SaveMasksAndAreas
    PROVE  IInv'
<1> USE DEF IInv
<1> DEFINE Zones == [masks: SUBSET Pages, areas: SUBSET Pages]
<1>1. stored \in Zones /\ sheet \in Sheet /\ saving.of \in Sheet
  BY SavingFields DEF TypeOK
<1>2. \A s \in {saving.of, sheet} : s.masks \subseteq Pages
  BY <1>1, SheetFields
<1>3. /\ [stored EXCEPT !.masks = {}] \in Zones /\ [stored EXCEPT !.areas = {}] \in Zones
      /\ \A s \in {saving.of, sheet} : [stored EXCEPT !.masks = s.masks] \in Zones
  BY <1>1, <1>2
<1> HIDE DEF Zones
<1>4. PICK stage, next \in Stages, z \in Zones : SaveZones(stage, next, z)
  BY <1>3 DEF SaveMasksAndAreas, Stages
<1>5. /\ stored' = z /\ saving' = [saving EXCEPT !.stage = next]
      /\ UNCHANGED <<rows, sheetVars, reloadVars, asked, runVars>>
  BY <1>4 DEF SaveZones
<1>6. saving' \in Saving
  BY <1>5, SavingFields, SavingMoves
<1>7. TypeOK'
  BY <1>5, <1>6 DEF TypeOK, sheetVars, runVars, Zones
<1> QED BY <1>5, <1>7, SheetUntouched DEF sheetVars

LEMMA SaveFinishKeeps ==
    ASSUME IInv, saving # NotSaving, SaveFinish
    PROVE  IInv'
<1> USE DEF IInv
<1>1. /\ sheet \in Sheet /\ saving.of \in Sheet /\ saving.upto \in Nat
      /\ stored \in [masks: SUBSET Pages, areas: SUBSET Pages]
  BY SavingFields DEF TypeOK
<1>2. \A s \in {saving.of, sheet} :
         [stored EXCEPT !.areas = s.areas] \in [masks: SUBSET Pages, areas: SUBSET Pages]
  BY <1>1, SheetFields
<1>3. stored' \in [masks: SUBSET Pages, areas: SUBSET Pages]
  BY <1>2 DEF SaveFinish
<1>4. /\ dirty' = FALSE /\ saving' = NotSaving /\ settled' \in {settled, saving.upto}
      /\ UNCHANGED <<rows, sheet, history, edits, reloadVars, asked, runVars>>
  BY DEF SaveFinish
<1>5. TypeOK'
  BY <1>1, <1>3, <1>4 DEF TypeOK, runVars
<1> QED BY <1>4, <1>5, SheetUntouched

LEMMA SaveStepKeeps == ASSUME IInv, SaveStep PROVE IInv'
<1>1. saving # NotSaving /\ Saves
  BY DEF SaveStep
<1> QED
  BY <1>1, SaveBalloonKeeps, DeleteUnseenKeeps, StageMoves, ZonesSaved, SaveFinishKeeps
  DEF Saves
-----------------------------------------------------------------------------
(* Recognition and the live reload. *)

LEMMA RerunRows ==
    ASSUME TypeOK, NEW scope \in Scopes, Rerun(scope)
    PROVE  /\ rows' \in Seq(Row) /\ started' \in Nat
           /\ run' \in [state: {"queued"}, scope: Pages \cup {Whole, SkipDone}]
<1>1. rows \in Seq(Row) /\ started \in Nat /\ scope \in Pages \cup {Whole, SkipDone}
  BY EditorAssumption DEF TypeOK
<1>2. \A i \in DOMAIN rows : [rows[i] EXCEPT !.state = "cleared"] \in Row
  <2>1. "cleared" \in RowStates /\ \A i \in DOMAIN rows : rows[i] \in Row
    BY <1>1 DEF RowStates
  <2>2. \A r \in Row : [r EXCEPT !.state = "cleared"] \in Row
    BY <2>1 DEF Row
  <2> QED BY <2>1, <2>2
<1>3. rows' \in Seq(Row)
  <2> DEFINE hit(i) == Live(i) /\ rows[i].page \in InScope(scope)
  <2>1. rows' = [i \in DOMAIN rows |-> IF hit(i) THEN [rows[i] EXCEPT !.state = "cleared"]
                                                ELSE rows[i]]
    BY DEF Rerun, ClearPreviousOutput
  <2> HIDE DEF hit
  <2> QED BY <1>1, <1>2, <2>1
<1> QED BY <1>1, <1>3 DEF Rerun

LEMMA AutoBalloonKeeps == ASSUME IInv, AutoBalloon PROVE IInv'
<1> USE DEF IInv
<1>1. ASSUME NEW scope \in Scopes, handleAutoBalloon(scope) PROVE IInv'
  <2>1. /\ Rerun(scope) /\ asked' = edits
        /\ UNCHANGED <<stored, sheetVars, reloadVars, saving>>
    BY <1>1 DEF handleAutoBalloon
  <2>2. TypeOK'
    BY <2>1, RerunRows DEF TypeOK, sheetVars
  <2> QED BY <2>1, <2>2, SheetUntouched DEF sheetVars
<1>2. ASSUME NEW scope \in Scopes, RerunElsewhere(scope) PROVE IInv'
  <2>1. Rerun(scope) /\ UNCHANGED <<stored, sheetVars, reloadVars, saving, asked>>
    BY <1>2 DEF RerunElsewhere
  <2>2. TypeOK'
    BY <2>1, RerunRows DEF TypeOK, sheetVars
  <2> QED BY <2>1, <2>2, SheetUntouched DEF sheetVars
<1>3. CASE AutoBalloonAnswered
  <2>1. /\ asked \in Nat /\ dirty' = FALSE /\ settled' \in {settled, asked}
        /\ asked' = NotAsking
        /\ UNCHANGED <<databaseVars, sheet, history, edits, reloadVars, saving, runVars>>
    BY <1>3 DEF AutoBalloonAnswered, TypeOK
  <2>2. TypeOK'
    BY <2>1 DEF TypeOK, databaseVars, runVars
  <2> QED BY <2>1, <2>2, SheetUntouched
<1> QED BY <1>1, <1>2, <1>3 DEF AutoBalloon

\* What recognition leaves of the rows, and adds, are rows.
LEMMA RecognisedRows ==
    ASSUME rows \in Seq(Row), NEW page \in Pages
    PROVE  Recognised(page) \in Seq(Row)
<1> DEFINE hit(i) == rows[i].page = page /\ ~rows[i].manual /\ ~rows[i].removed
           left == [i \in DOMAIN rows |->
                      IF hit(i) THEN [rows[i] EXCEPT !.state = "gone"] ELSE rows[i]]
<1>1. \A i \in DOMAIN rows : [rows[i] EXCEPT !.state = "gone"] \in Row
  <2>1. "gone" \in RowStates /\ \A i \in DOMAIN rows : rows[i] \in Row
    BY DEF RowStates
  <2>2. \A r \in Row : [r EXCEPT !.state = "gone"] \in Row
    BY <2>1 DEF Row
  <2> QED BY <2>1, <2>2
<1>2. left \in Seq(Row)
  <2> HIDE DEF hit
  <2> QED BY <1>1
<1>3. Detection(page) \in Row
  BY DEF Detection, Row, RowStates, Texts
<1>4. Recognised(page) = left \/ Recognised(page) = Append(left, Detection(page))
  BY DEF Recognised
<1> HIDE DEF left
<1> QED BY <1>2, <1>3, <1>4

\* A message that arrives, or does not, leaves the reloads under way alone.
LEMMA ReportTypes ==
    ASSUME TypeOK, Report
    PROVE  timer' \in BOOLEAN /\ missed' \in BOOLEAN /\ loading' \in Seq(Answer)
BY DEF TypeOK, Report

LEMMA ConsumerKeeps == ASSUME IInv, Consumer PROVE IInv'
<1> USE DEF IInv
<1>1. CASE RunStart
  <2>1. /\ run.scope \in Pages \cup {Whole, SkipDone}
        /\ UNCHANGED <<databaseVars, sheetVars, reloadVars, saving, asked, started>>
    BY <1>1 DEF RunStart, TypeOK, NoRun
  <2>2. EmptyPages \subseteq Pages /\ InScope(run.scope) \subseteq Pages \cup {Whole}
    BY <2>1 DEF EmptyPages, InScope
  <2>3. run' \in [state: {"running"}, todo: SUBSET Pages]
    BY <1>1, <2>1, <2>2 DEF RunStart, InScope
  <2>4. TypeOK'
    BY <2>1, <2>3 DEF TypeOK, databaseVars, sheetVars
  <2> QED BY <2>1, <2>4, SheetUntouched DEF sheetVars
<1>2. ASSUME NEW page \in Pages, RunPage(page) PROVE IInv'
  <2>1. rows' \in Seq(Row)
    BY <1>2, RecognisedRows DEF RunPage, TypeOK
  <2>2. run' \in [state: {"running"}, todo: SUBSET Pages]
    BY <1>2 DEF RunPage, TypeOK, NoRun
  <2>3. /\ Report
        /\ UNCHANGED <<stored, sheetVars, saving, asked, started>>
    BY <1>2 DEF RunPage
  <2>4. TypeOK'
    BY <2>1, <2>2, <2>3, ReportTypes DEF TypeOK, sheetVars
  <2> QED BY <2>3, <2>4, SheetUntouched DEF sheetVars
<1>3. CASE RunFinish
  <2>1. /\ run' = NoRun /\ Report
        /\ UNCHANGED <<databaseVars, sheetVars, saving, asked, started>>
    BY <1>3 DEF RunFinish
  <2>2. TypeOK'
    BY <2>1, ReportTypes DEF TypeOK, databaseVars, sheetVars
  <2> QED BY <2>1, <2>2, SheetUntouched DEF sheetVars
<1> QED BY <1>1, <1>2, <1>3 DEF Consumer

\* The reloads under way without one of them.
LEMMA WithoutTypes ==
    ASSUME loading \in Seq(Answer), NEW i \in DOMAIN loading, NEW late \in BOOLEAN
    PROVE  Without(i, late) \in Seq(Answer)
<1> DEFINE n == Len(loading) - 1
           kept(k) == IF k < i THEN [loading[k] EXCEPT !.late = @ \/ late] ELSE loading[k + 1]
<1>1. n \in Nat /\ i \in 1..(n + 1) /\ \A k \in 1..(n + 1) : loading[k] \in Answer
  OBVIOUS
<1>2. ASSUME NEW k \in 1..n PROVE kept(k) \in Answer
  <2>1. k \in 1..(n + 1) /\ k + 1 \in 1..(n + 1)
    BY <1>1
  <2>2. [loading[k] EXCEPT !.late = @ \/ late] \in Answer /\ loading[k + 1] \in Answer
    BY <1>1, <2>1 DEF Answer
  <2> QED BY <2>2
<1>3. Without(i, late) = [k \in 1..n |-> kept(k)]
  BY DEF Without
<1> HIDE DEF n, kept
<1> QED BY <1>1, <1>2, <1>3

LEMMA ReloadKeeps == ASSUME IInv, Reload PROVE IInv'
<1> USE DEF IInv
<1>1. CASE ReloadRefused
  <2>1. /\ timer' = FALSE
        /\ UNCHANGED <<databaseVars, sheetVars, loading, missed, saving, asked, runVars>>
    BY <1>1 DEF ReloadRefused
  <2>2. TypeOK'
    BY <2>1 DEF TypeOK, databaseVars, sheetVars, runVars
  <2> QED BY <2>1, <2>2, SheetUntouched DEF sheetVars
<1>2. CASE ReloadStart
  <2>1. [found |-> loadBalloons({}), late |-> FALSE] \in Answer
    BY LoadedSheet DEF TypeOK, Answer
  <2>2. /\ timer' = FALSE /\ missed' = FALSE
        /\ loading' = Append(loading, [found |-> loadBalloons({}), late |-> FALSE])
        /\ UNCHANGED <<databaseVars, sheetVars, saving, asked, runVars>>
    BY <1>2 DEF ReloadStart
  <2>3. loading' \in Seq(Answer)
    BY <2>1, <2>2 DEF TypeOK
  <2>4. TypeOK'
    BY <2>2, <2>3 DEF TypeOK, databaseVars, sheetVars, runVars
  <2> QED BY <2>2, <2>4, SheetUntouched DEF sheetVars
<1>3. ASSUME NEW i \in DOMAIN loading, ReloadFinish(i) PROVE IInv'
  <2>b. loading \in Seq(Answer) /\ sheet \in Sheet
    BY DEF TypeOK
  <2>c. loading[i] \in Answer
    BY <2>b
  <2>1. loading[i].found \in Sheet /\ loading[i].late \in BOOLEAN /\ sheet \in Sheet
    BY <2>b, <2>c DEF Answer
  <2>2. /\ sheet' = [loading[i].found EXCEPT !.areas = sheet.areas] /\ dirty' = FALSE
        /\ history' = NewHistory(sheet') /\ settled' = edits
        /\ loading' = Without(i, TRUE) /\ missed' = (missed \/ loading[i].late)
        /\ UNCHANGED <<databaseVars, edits, timer, saving, asked, runVars>>
    BY <1>3 DEF ReloadFinish
  <2>3. sheet' \in Sheet
    BY <2>1, <2>2, SheetFields DEF Sheet
  <2>4. /\ history' \in History /\ Within(history')
        /\ SnapshotsOf(history') = {sheet'}
    BY <2>2, <2>3, FreshHistory
  <2>a. loading' \in Seq(Answer) /\ missed' \in BOOLEAN
    BY <2>2, WithoutTypes DEF TypeOK
  <2>5. TypeOK'
    BY <2>2, <2>3, <2>4, <2>a DEF TypeOK, databaseVars, runVars
  <2>6. HistoryBounded'
    BY <2>4 DEF HistoryBounded, Within
  <2>7. Snapshots' = SnapshotsOf(history')
    BY DEF Snapshots, SnapshotsOf
  <2>8. NothingDropped'
    BY <2>4, <2>7 DEF NothingDropped
  <2> QED BY <2>5, <2>6, <2>8
<1>4. ASSUME NEW i \in DOMAIN loading, ReloadFailed(i) PROVE IInv'
  <2>1. /\ loading' = Without(i, FALSE) /\ missed' \in BOOLEAN
        /\ UNCHANGED <<databaseVars, sheetVars, timer, saving, asked, runVars>>
    BY <1>4 DEF ReloadFailed, TypeOK
  <2>2. loading' \in Seq(Answer)
    BY <2>1, WithoutTypes DEF TypeOK
  <2>3. TypeOK'
    BY <2>1, <2>2 DEF TypeOK, databaseVars, sheetVars, runVars
  <2> QED BY <2>1, <2>3, SheetUntouched DEF sheetVars
<1> QED BY <1>1, <1>2, <1>3, <1>4 DEF Reload
-----------------------------------------------------------------------------
(* The theorems. *)

LEMMA InitIInv == ASSUME Init PROVE IInv
<1>1. PICK n \in 0..NumPages : rows = [i \in 1..n |-> Detection(i)]
  BY DEF Init
<1>2. n \in Nat /\ \A i \in 1..n : Detection(i) \in Row
  BY EditorAssumption DEF Detection, Row, RowStates, Texts, Pages
<1>3. rows \in Seq(Row)
  BY <1>1, <1>2
<1>4. stored \in [masks: SUBSET Pages, areas: SUBSET Pages]
  BY DEF Init
<1>5. sheet \in Sheet
  BY <1>3, <1>4, LoadedSheet DEF Init
<1>6. history \in History /\ Within(history) /\ SnapshotsOf(history) = {sheet}
  BY <1>5, FreshHistory DEF Init
<1>a. << >> \in Seq(Answer)
  OBVIOUS
<1>7. TypeOK
  BY <1>3, <1>4, <1>5, <1>6, <1>a DEF Init, TypeOK
<1>8. HistoryBounded /\ NothingDropped
  BY <1>6, InvTerms DEF NothingDropped
<1> QED BY <1>7, <1>8 DEF IInv

\* Every step keeps the invariant: edits, saves, recognition and reloads.
THEOREM EditorInvariance == Spec => []IInv
<1>1. Init => IInv
  BY InitIInv
<1>2. IInv /\ [Next]_vars => IInv'
  <2> SUFFICES ASSUME IInv, [Next]_vars PROVE IInv'
    OBVIOUS
  <2>1. CASE Next
    BY <2>1, EditingKeeps, SaveStartKeeps, SaveStepKeeps, AutoBalloonKeeps,
       ConsumerKeeps, ReloadKeeps DEF Next
  <2>2. CASE UNCHANGED vars
    <3>1. TypeOK'
      BY <2>2 DEF IInv, TypeOK, vars
    <3> QED BY <2>2, <3>1, SheetUntouched DEF vars
  <2> QED BY <2>1, <2>2
<1> QED BY <1>1, <1>2, PTL DEF Spec

\* Rows, sheet, history, saves and runs keep their types.
THEOREM EditorTypeCorrect == Spec => []TypeOK
BY EditorInvariance, PTL DEF IInv

\* Undo and redo together never hold more steps than the limit, although
\* only recording an edit trims.
THEOREM HistoryStaysBounded == Spec => []HistoryBounded
BY EditorInvariance, PTL DEF IInv

\* No edit, undo, redo or reload loses track of a stored balloon, however
\* saves and recognition runs interleave with them.
THEOREM NothingIsDropped == Spec => []NothingDropped
BY EditorInvariance, PTL DEF IInv
-----------------------------------------------------------------------------
(* Saving. *)

\* Recognition writes rows behind the sheet, which no save accounts for: the
\* property is about drawings nobody sends there.
NoRecognition == Scopes = {} \/ MaxRuns = 0

\* What a save sends for a sheet.
Items(s) == [balloon: s.annotations, removed: {FALSE}]
            \cup [balloon: s.removed, removed: {TRUE}]

\* A sheet accounts for the rows the drawing was opened with, as they are,
\* and gives every balloon, those drawn in e edits included, an id of its own.
SoundIn(s, r, e) ==
    /\ PersistedIds(s) = {i \in DOMAIN r : r[i].made = 0}
    /\ s.annotations \cap s.removed = {}
    /\ \A b, c \in s.annotations \cup s.removed : b.id = c.id => b = c
    /\ \A b \in s.annotations \cup s.removed :
          /\ -e <= b.id
          /\ isPersistedId(b) => r[b.id].page = b.page /\ r[b.id].manual = b.manual

SheetsSound == \A s \in Snapshots \cup {sheet} : SoundIn(s, rows, edits)

\* The rows a save has created: a live row that no reload has shown, and that
\* is not one of those the save found and has yet to delete.
Fresh(v, r) == {i \in DOMAIN r : /\ r[i].state = "live" /\ r[i].made # 0
                                 /\ i \notin v.existing}

\* A row holds what the save sent; its text too, if nothing was edited since.
Agrees(row, item, exact) ==
    /\ row.page = item.balloon.page /\ row.manual = item.balloon.manual
    /\ row.removed = item.removed
    /\ exact => row.text = item.balloon.text

Written(v, r, e, item) ==
    IF isPersistedId(item.balloon)
    THEN Agrees(r[item.balloon.id], item, v.upto = e)
    ELSE \E i \in Fresh(v, r) : r[i].made = item.balloon.id
                                /\ Agrees(r[i], item, v.upto = e)

\* How far the save v has come: each balloon sent is in one row, each row it
\* created is of one balloon sent, and of the rows it found it deletes none
\* the drawing was opened with.
Progress(v, r, e) ==
    /\ SoundIn(v.of, r, e)
    /\ v.upto <= e
    /\ v.existing \subseteq DOMAIN r
    /\ v.todo \subseteq Items(v.of)
    /\ v.stage # "balloons" => v.todo = {} /\ \A i \in v.existing : r[i].made # 0
    /\ v.stage \notin {"balloons", "unseen"} => v.existing = {}
    /\ \A i \in Fresh(v, r) :
          \E item \in Items(v.of) \ v.todo : item.balloon.id = r[i].made
    /\ \A i, j \in Fresh(v, r) : r[i].made = r[j].made => i = j
    /\ \A item \in Items(v.of) \ v.todo : Written(v, r, e, item)

ZonesSent ==
    saving.upto = edits =>
       /\ sheet = saving.of
       /\ saving.stage \in {"areas", "newAreas"} => stored.masks = saving.of.masks

SavingSound == saving # NotSaving => Progress(saving, rows, edits) /\ ZonesSent

Quiet == run = NoRun /\ timer = FALSE /\ loading = <<>>

\* A row that no save created was there from the start, and stays.
RowsSound == \A i \in DOMAIN rows : rows[i].made <= 0 /\ (rows[i].made = 0 => Live(i))

SInv == Quiet /\ RowsSound /\ SheetsSound /\ SavingSound
-----------------------------------------------------------------------------
(* Lemmas about sheets and rows. *)

\* What a step leaves of the rows: their makers and places, and new rows are
\* made by saves.
RowsKept ==
    /\ DOMAIN rows \subseteq DOMAIN rows'
    /\ \A i \in DOMAIN rows : /\ rows'[i].made = rows[i].made
                              /\ rows'[i].page = rows[i].page
                              /\ rows'[i].manual = rows[i].manual
    /\ \A i \in DOMAIN rows' \ DOMAIN rows : rows'[i].made # 0

\* A sheet that is sound stays sound when a save writes.
LEMMA SoundStays ==
    ASSUME RowsKept, NEW s \in Sheet, SoundIn(s, rows, edits)
    PROVE  SoundIn(s, rows', edits)
<1>1. {i \in DOMAIN rows' : rows'[i].made = 0} = {i \in DOMAIN rows : rows[i].made = 0}
  BY DEF RowsKept
<1>2. ASSUME NEW b \in s.annotations \cup s.removed, isPersistedId(b)
      PROVE  rows'[b.id].page = b.page /\ rows'[b.id].manual = b.manual
  <2>1. b.id \in PersistedIds(s)
    BY <1>2 DEF PersistedIds
  <2>2. b.id \in DOMAIN rows
    BY <2>1 DEF SoundIn
  <2>3. rows[b.id].page = b.page /\ rows[b.id].manual = b.manual
    BY <1>2 DEF SoundIn
  <2> QED
    BY <2>2, <2>3 DEF RowsKept
<1> QED
  BY <1>1, <1>2 DEF SoundIn

\* A sound sheet stays sound when time passes.
LEMMA SoundAges ==
    ASSUME NEW s \in Sheet, NEW r, NEW e \in Nat, SoundIn(s, r, e)
    PROVE  SoundIn(s, r, e + 1)
<1>1. \A b \in s.annotations \cup s.removed : b.id \in Int
  BY SheetFields DEF Balloon
<1>2. \A b \in s.annotations \cup s.removed : -(e + 1) <= b.id
  BY <1>1 DEF SoundIn
<1> QED
  BY <1>2 DEF SoundIn

\* A save that was on its way when something was edited is exact no more.
LEMMA ProgressAges ==
    ASSUME NEW v \in Saving, NEW r, NEW e \in Nat, Progress(v, r, e)
    PROVE  Progress(v, r, e + 1) /\ v.upto # e + 1
<1>1. v.of \in Sheet /\ v.upto \in Nat /\ v.upto <= e
  BY DEF Saving, Progress
<1>2. SoundIn(v.of, r, e + 1)
  BY <1>1, SoundAges DEF Progress
<1>3. v.upto <= e + 1 /\ v.upto # e + 1
  BY <1>1
<1>4. ASSUME NEW item \in Items(v.of) \ v.todo
      PROVE  Written(v, r, e + 1, item)
  <2>1. Written(v, r, e, item)
    BY DEF Progress
  <2>2. \A row : Agrees(row, item, v.upto = e) => Agrees(row, item, v.upto = e + 1)
    BY <1>3 DEF Agrees
  <2> QED
    BY <2>1, <2>2 DEF Written
<1> QED
  BY <1>2, <1>3, <1>4 DEF Progress

\* Of two items of a sound sheet with one id there is one.
LEMMA OneItem ==
    ASSUME NEW s, NEW r, NEW e, SoundIn(s, r, e),
           NEW x \in Items(s), NEW y \in Items(s), x.balloon.id = y.balloon.id
    PROVE  x = y
<1>1. /\ x.balloon \in s.annotations \cup s.removed
      /\ y.balloon \in s.annotations \cup s.removed
  BY DEF Items
<1>2. x.balloon = y.balloon
  BY <1>1 DEF SoundIn
<1>3. x.removed = y.removed
  BY <1>2 DEF Items, SoundIn
<1>4. ASSUME NEW z \in Items(s)
      PROVE  z = [balloon |-> z.balloon, removed |-> z.removed]
  <2>1. CASE z \in [balloon: s.annotations, removed: {FALSE}]
    BY <2>1
  <2>2. CASE z \in [balloon: s.removed, removed: {TRUE}]
    BY <2>2
  <2> QED
    BY <2>1, <2>2 DEF Items
<1>5. /\ x = [balloon |-> x.balloon, removed |-> x.removed]
      /\ y = [balloon |-> y.balloon, removed |-> y.removed]
  BY <1>4
<1> QED
  BY <1>2, <1>3, <1>5, Zenon

LEMMA ItemFields ==
    ASSUME NEW s \in Sheet, NEW x \in Items(s)
    PROVE  /\ x \in Item /\ x.balloon \in Balloon /\ x.balloon.id \in Int \ {0}
           /\ x.balloon \in s.annotations \cup s.removed
BY SheetFields DEF Items, Item, Balloon
-----------------------------------------------------------------------------
(* Edits. *)

\* Whatever is edited: the rows and the save under way are as they were.
LEMMA SheetStep ==
    ASSUME IInv, SInv, edits' = edits + 1,
           UNCHANGED <<rows, stored, saving, run, timer, loading>>,
           \A s \in Snapshots' \cup {sheet'} : SoundIn(s, rows, edits + 1)
    PROVE  SInv'
<1>1. Quiet' /\ RowsSound'
  BY DEF SInv, Quiet, RowsSound, Live
<1>2. SheetsSound'
  BY DEF SheetsSound
<1>3. SavingSound'
  <2>1. CASE saving = NotSaving
    BY <2>1 DEF SavingSound
  <2>2. CASE saving # NotSaving
    <3>1. saving \in Saving /\ edits \in Nat
      BY <2>2, SavingFields DEF IInv, TypeOK
    <3>2. Progress(saving, rows, edits)
      BY <2>2 DEF SInv, SavingSound
    <3>3. Progress(saving, rows, edits + 1) /\ saving.upto # edits + 1
      BY <3>1, <3>2, ProgressAges
    <3> QED
      BY <3>3 DEF SavingSound, ZonesSent
  <2> QED
    BY <2>1, <2>2
<1> QED
  BY <1>1, <1>2, <1>3 DEF SInv

LEMMA EditSound ==
    ASSUME IInv, SInv, NEW s \in Sheet, Edit(s), SoundIn(s, rows, edits + 1)
    PROVE  SInv'
<1>1. /\ history \in History /\ Within(history) /\ sheet \in Sheet /\ edits \in Nat
      /\ \A t \in SnapshotsOf(history) : SoundIn(t, rows, edits)
  BY InvTerms DEF IInv, TypeOK, SInv, SheetsSound
<1>2. /\ sheet' = s /\ history' = record(history, s) /\ edits' = edits + 1
      /\ UNCHANGED <<rows, stored, saving, run, timer, loading>>
  BY DEF Edit, databaseVars, runVars
<1>3. SnapshotsOf(history') \subseteq SnapshotsOf(history) \cup {s}
  BY <1>1, <1>2, RecordStep
<1>4. Snapshots' = SnapshotsOf(history')
  BY DEF Snapshots, SnapshotsOf
<1>5. SnapshotsOf(history) \subseteq Sheet
  BY <1>1, HistoryFields DEF SnapshotsOf
<1>6. \A t \in SnapshotsOf(history) : SoundIn(t, rows, edits + 1)
  BY <1>1, <1>5, SoundAges
<1> QED
  BY <1>2, <1>3, <1>4, <1>6, SheetStep

LEMMA RestoreSound ==
    ASSUME IInv, SInv, NEW h,
           SnapshotsOf(h) \subseteq SnapshotsOf(history) \cup {sheet},
           h.current \in SnapshotsOf(h), restoreSnapshot(h)
    PROVE  SInv'
<1>1. /\ history \in History /\ sheet \in Sheet /\ edits \in Nat
      /\ \A t \in SnapshotsOf(history) \cup {sheet} : SoundIn(t, rows, edits)
  BY InvTerms DEF IInv, TypeOK, SInv, SheetsSound
<1>2. /\ sheet' = h.current /\ history' = h /\ edits' = edits + 1
      /\ UNCHANGED <<rows, stored, saving, run, timer, loading>>
  BY DEF restoreSnapshot, databaseVars, runVars
<1>3. Snapshots' = SnapshotsOf(h)
  BY <1>2 DEF Snapshots, SnapshotsOf
<1>4. SnapshotsOf(history) \cup {sheet} \subseteq Sheet
  BY <1>1, HistoryFields DEF SnapshotsOf
<1>5. \A t \in SnapshotsOf(history) \cup {sheet} : SoundIn(t, rows, edits + 1)
  BY <1>1, <1>4, SoundAges
<1> QED
  BY <1>2, <1>3, <1>5, SheetStep

LEMMA UndoSound == ASSUME IInv, SInv, Undo PROVE SInv'
<1> DEFINE g == record(history, sheet)
<1>1. history \in History /\ Within(history) /\ sheet \in Sheet
  BY InvTerms DEF IInv, TypeOK
<1>2. /\ g \in History /\ Within(g)
      /\ SnapshotsOf(g) \subseteq SnapshotsOf(history) \cup {sheet}
  BY <1>1, RecordStep
<1>3. g.undo # <<>> /\ restoreSnapshot(undo(g))
  BY DEF Undo
<1> HIDE DEF g
<1>4. /\ SnapshotsOf(undo(g)) \subseteq SnapshotsOf(g)
      /\ undo(g).current \in SnapshotsOf(undo(g))
  BY <1>2, <1>3, UndoStep DEF SnapshotsOf
<1> QED BY <1>2, <1>3, <1>4, RestoreSound

LEMMA RedoSound == ASSUME IInv, SInv, Redo PROVE SInv'
<1>1. history \in History /\ Within(history)
  BY InvTerms DEF IInv, TypeOK
<1>2. history.redo # <<>> /\ restoreSnapshot(redo(history))
  BY DEF Redo
<1>3. /\ SnapshotsOf(redo(history)) \subseteq SnapshotsOf(history)
      /\ redo(history).current \in SnapshotsOf(redo(history))
  BY <1>1, <1>2, RedoStep DEF SnapshotsOf
<1> QED BY <1>2, <1>3, RestoreSound

\* What is known of the sheet before an edit.
LEMMA SheetBefore ==
    ASSUME IInv, SInv
    PROVE  /\ sheet \in Sheet /\ edits \in Nat
           /\ SoundIn(sheet, rows, edits) /\ SoundIn(sheet, rows, edits + 1)
<1>1. sheet \in Sheet /\ edits \in Nat /\ SoundIn(sheet, rows, edits)
  BY DEF IInv, TypeOK, SInv, SheetsSound
<1> QED
  BY <1>1, SoundAges

\* A balloon drawn by hand gets an id that none has had.
LEMMA DrawSound ==
    ASSUME IInv, SInv, NEW page \in Pages, Draw(page)
    PROVE  SInv'
<1> DEFINE b == [id |-> -(edits + 1), page |-> page, manual |-> TRUE, text |-> "typed"]
           s == [sheet EXCEPT !.annotations = @ \cup {b}]
<1>1. /\ sheet \in Sheet /\ edits \in Nat
      /\ SoundIn(sheet, rows, edits) /\ SoundIn(sheet, rows, edits + 1)
  BY SheetBefore
<1>2. b \in Balloon /\ ~isPersistedId(b) /\ b.id = -(edits + 1)
  BY <1>1 DEF Balloon, Texts, isPersistedId
<1>3. Edit(s)
  BY DEF Draw
<1> HIDE DEF b
<1>4. s \in Sheet
  BY <1>1, <1>2 DEF Sheet
<1>5. s.annotations = sheet.annotations \cup {b} /\ s.removed = sheet.removed
  BY <1>1 DEF Sheet
<1> HIDE DEF s
<1>6. \A c \in sheet.annotations \cup sheet.removed : c.id \in Int /\ c.id # b.id
  <2>1. \A c \in sheet.annotations \cup sheet.removed : c.id \in Int /\ -edits <= c.id
    BY <1>1, SheetFields DEF Balloon, SoundIn
  <2> QED
    BY <1>1, <1>2, <2>1
<1>7. PersistedIds(s) = PersistedIds(sheet)
  BY <1>2, <1>5 DEF PersistedIds
<1>8. b \notin sheet.annotations \cup sheet.removed
  BY <1>6
<1>9. -(edits + 1) <= b.id
  BY <1>1, <1>2
<1>10. SoundIn(s, rows, edits + 1)
  BY <1>1, <1>2, <1>5, <1>6, <1>7, <1>8, <1>9 DEF SoundIn
<1> QED BY <1>3, <1>4, <1>10, EditSound

LEMMA RetypeSound ==
    ASSUME IInv, SInv, NEW b \in sheet.annotations, Retype(b)
    PROVE  SInv'
<1> DEFINE c == [b EXCEPT !.text = "typed"]
           s == [sheet EXCEPT !.annotations = (@ \ {b}) \cup {c}]
<1>1. /\ sheet \in Sheet /\ edits \in Nat /\ b \in Balloon
      /\ SoundIn(sheet, rows, edits + 1)
  BY SheetBefore, SheetFields
<1>2. c \in Balloon /\ c.id = b.id /\ c.page = b.page /\ c.manual = b.manual
  BY <1>1 DEF Balloon, Texts
<1>3. Edit(s)
  BY DEF Retype
<1> HIDE DEF c
<1>4. s \in Sheet
  BY <1>1, <1>2 DEF Sheet
<1>5. s.annotations = (sheet.annotations \ {b}) \cup {c} /\ s.removed = sheet.removed
  BY <1>1 DEF Sheet
<1> HIDE DEF s
<1>6. PersistedIds(s) = PersistedIds(sheet)
  BY <1>2, <1>5 DEF PersistedIds, isPersistedId
<1>7. \A d \in sheet.annotations \cup sheet.removed : d.id = b.id => d = b
  BY <1>1 DEF SoundIn
<1>8. b \notin sheet.removed
  BY <1>1 DEF SoundIn
<1>9. c \notin sheet.removed
  BY <1>2, <1>7, <1>8
<1>10. SoundIn(s, rows, edits + 1)
  <2>1. s.annotations \cap s.removed = {}
    BY <1>1, <1>5, <1>9 DEF SoundIn
  <2>2. \A d, f \in s.annotations \cup s.removed : d.id = f.id => d = f
    BY <1>1, <1>2, <1>5, <1>7, <1>8 DEF SoundIn
  <2>3. \A d \in s.annotations \cup s.removed :
           /\ -(edits + 1) <= d.id
           /\ isPersistedId(d) => rows[d.id].page = d.page /\ rows[d.id].manual = d.manual
    BY <1>1, <1>2, <1>5 DEF SoundIn, isPersistedId
  <2> QED
    BY <1>1, <1>6, <2>1, <2>2, <2>3 DEF SoundIn
<1> QED BY <1>3, <1>4, <1>10, EditSound

LEMMA DeleteSound ==
    ASSUME IInv, SInv, NEW chosen \in SUBSET sheet.annotations, NEW masks,
           deleteSelected(chosen, masks)
    PROVE  SInv'
<1> DEFINE s == [sheet EXCEPT !.annotations = @ \ chosen, !.removed = @ \cup chosen,
                              !.masks = @ \ masks]
<1>1. sheet \in Sheet /\ SoundIn(sheet, rows, edits + 1)
  BY SheetBefore
<1>2. Edit(s)
  BY DEF deleteSelected
<1>3. s \in Sheet
  BY <1>1 DEF Sheet
<1>4. /\ s.annotations = sheet.annotations \ chosen
      /\ s.removed = sheet.removed \cup chosen
  BY <1>1 DEF Sheet
<1> HIDE DEF s
<1>5. s.annotations \cup s.removed = sheet.annotations \cup sheet.removed
  BY <1>4
<1>6. s.annotations \cap s.removed = {}
  BY <1>1, <1>4 DEF SoundIn
<1>7. PersistedIds(s) = PersistedIds(sheet)
  BY <1>5 DEF PersistedIds
<1>8. SoundIn(s, rows, edits + 1)
  BY <1>1, <1>5, <1>6, <1>7 DEF SoundIn
<1> QED BY <1>2, <1>3, <1>8, EditSound

LEMMA ZonesSound ==
    ASSUME IInv, SInv, NEW page \in Pages,
           DrawMask(page) \/ DrawArea(page) \/ ClearArea(page)
    PROVE  SInv'
<1>1. sheet \in Sheet /\ SoundIn(sheet, rows, edits + 1)
  BY SheetBefore
<1>2. PICK s \in Sheet : /\ Edit(s)
                         /\ s.annotations = sheet.annotations
                         /\ s.removed = sheet.removed
  <2>1. CASE DrawMask(page)
    BY <1>1, <2>1 DEF DrawMask, Sheet
  <2>2. CASE DrawArea(page)
    BY <1>1, <2>2 DEF DrawArea, Sheet
  <2>3. CASE ClearArea(page)
    BY <1>1, <2>3 DEF ClearArea, Sheet
  <2> QED BY <2>1, <2>2, <2>3
<1>3. SoundIn(s, rows, edits + 1)
  BY <1>1, <1>2 DEF SoundIn, PersistedIds
<1> QED BY <1>2, <1>3, EditSound

LEMMA EditingSound == ASSUME IInv, SInv, Editing PROVE SInv'
<1>1. CASE \E page \in Pages : Draw(page)
  BY <1>1, DrawSound
<1>2. CASE \E b \in sheet.annotations : Retype(b)
  BY <1>2, RetypeSound
<1>3. CASE \E b \in sheet.annotations : deleteSelected({b}, {})
  BY <1>3, DeleteSound
<1>4. CASE \E pages \in {{p} : p \in Pages} \cup {Pages} : handleClearPage(pages)
  <2>1. PICK pages : handleClearPage(pages)
    BY <1>4
  <2> QED BY <2>1, DeleteSound DEF handleClearPage
<1>5. CASE \E page \in Pages : DrawMask(page) \/ deleteSelected({}, {page})
  BY <1>5, ZonesSound, DeleteSound
<1>6. CASE \E page \in Pages : DrawArea(page) \/ ClearArea(page)
  BY <1>6, ZonesSound
<1>7. CASE Undo \/ Redo
  BY <1>7, UndoSound, RedoSound
<1> QED BY <1>1, <1>2, <1>3, <1>4, <1>5, <1>6, <1>7 DEF Editing

-----------------------------------------------------------------------------
(* Saves. *)

\* Where a save stands when the invariant holds.
LEMMA SaveBefore ==
    ASSUME IInv, SInv, saving # NotSaving
    PROVE  /\ saving \in Saving /\ saving.of \in Sheet /\ saving.stage \in Stages
           /\ saving.todo \subseteq Item
           /\ Progress(saving, rows, edits) /\ ZonesSent
           /\ rows \in Seq(Row) /\ sheet \in Sheet /\ edits \in Nat
           /\ \A i \in DOMAIN rows : i \in Nat \ {0} /\ rows[i] \in Row
<1>1. /\ saving \in Saving /\ saving.of \in Sheet /\ saving.stage \in Stages
      /\ saving.todo \subseteq Item
  BY SavingFields DEF IInv
<1>2. Progress(saving, rows, edits) /\ ZonesSent
  BY DEF SInv, SavingSound
<1>3. rows \in Seq(Row) /\ sheet \in Sheet /\ edits \in Nat
  BY DEF IInv, TypeOK
<1>4. \A i \in DOMAIN rows : i \in Nat \ {0} /\ rows[i] \in Row
  BY <1>3
<1> QED
  BY <1>1, <1>2, <1>3, <1>4

\* What a step of a save has to show for the invariant.
LEMMA SaveGoesOn ==
    ASSUME IInv, SInv, saving # NotSaving,
           sheet' = sheet, history' = history, edits' = edits,
           timer' = timer, loading' = loading, run' = run,
           RowsKept, RowsSound',
           saving'.of = saving.of, saving'.upto = saving.upto,
           Progress(saving', rows', edits),
           \/ saving'.stage \notin {"areas", "newAreas"}
           \/ saving.upto = edits => stored'.masks = saving.of.masks
    PROVE  SInv'
<1>1. Quiet'
  BY DEF SInv, Quiet
<1>2. SheetsSound'
  <2>1. Snapshots' = Snapshots
    BY DEF Snapshots
  <2>2. history \in History /\ sheet \in Sheet /\ Snapshots = SnapshotsOf(history)
    BY InvTerms DEF IInv, TypeOK
  <2>3. Snapshots \cup {sheet} \subseteq Sheet
    BY <2>2, HistoryFields DEF SnapshotsOf
  <2>4. \A s \in Snapshots \cup {sheet} : SoundIn(s, rows', edits)
    BY <2>3, SoundStays DEF SInv, SheetsSound
  <2> QED
    BY <2>1, <2>4 DEF SheetsSound
<1>3. ZonesSent'
  BY SaveBefore DEF ZonesSent
<1> QED
  BY <1>1, <1>2, <1>3 DEF SInv, SavingSound

\* The click: everything is to be sent, nothing is.
LEMMA SaveStartSound == ASSUME IInv, SInv, SaveStart PROVE SInv'
<1>1. /\ saving' = [stage    |-> "balloons",
                    todo     |-> [balloon: sheet.annotations, removed: {FALSE}]
                                 \cup [balloon: sheet.removed, removed: {TRUE}],
                    existing |-> {i \in DOMAIN rows : Live(i)},
                    of       |-> sheet,
                    upto     |-> edits]
      /\ UNCHANGED <<rows, stored, sheet, history, edits, timer, loading, run>>
  BY DEF SaveStart, databaseVars, sheetVars, runVars
<1>2. sheet \in Sheet /\ edits \in Nat /\ SoundIn(sheet, rows, edits)
  BY SheetBefore
<1>3. Quiet' /\ RowsSound' /\ SheetsSound'
  BY <1>1 DEF SInv, Quiet, RowsSound, SheetsSound, Live, Snapshots
<1>4. /\ saving'.of = sheet /\ saving'.upto = edits /\ saving'.stage = "balloons"
      /\ saving'.todo = Items(sheet) /\ saving'.existing = {i \in DOMAIN rows : Live(i)}
  BY <1>1 DEF Items
<1>5. Fresh(saving', rows) = {}
  BY <1>4 DEF Fresh, Live
<1>6. Progress(saving', rows, edits)
  BY <1>2, <1>4, <1>5 DEF Progress
<1>7. ZonesSent'
  BY <1>1, <1>4 DEF ZonesSent
<1> QED
  BY <1>1, <1>3, <1>6, <1>7 DEF SInv, SavingSound

\* A balloon not edited since the click is sent as it was.
LEMMA SentExactly ==
    ASSUME IInv, SInv, saving # NotSaving, NEW item \in saving.todo,
           NEW text \in SentText(item.balloon)
    PROVE  saving.upto = edits => text = item.balloon.text
<1> SUFFICES ASSUME saving.upto = edits PROVE text = item.balloon.text
  OBVIOUS
<1>1. sheet = saving.of /\ SoundIn(saving.of, rows, edits) /\ item \in Items(saving.of)
  BY SaveBefore DEF ZonesSent, Progress
<1>2. item.balloon \in sheet.annotations \cup sheet.removed
  BY <1>1, SaveBefore, ItemFields
<1>3. \A d \in sheet.annotations : d.id = item.balloon.id => d = item.balloon
  BY <1>1, <1>2 DEF SoundIn
<1> QED
  BY <1>3 DEF SentText

\* A save that has sent one more item.
LEMMA OneSent ==
    ASSUME NEW v \in Saving, NEW item
    PROVE  LET w == [v EXCEPT !.todo = @ \ {item}]
           IN  /\ w.of = v.of /\ w.upto = v.upto /\ w.stage = v.stage
               /\ w.existing = v.existing /\ w.todo = v.todo \ {item}
               /\ \A r : Fresh(w, r) = Fresh(v, r)
BY DEF Saving, Fresh

LEMMA ChangedRow ==
    ASSUME NEW row \in Row, NEW removed, NEW text
    PROVE  LET new == [row EXCEPT !.removed = removed, !.text = text]
           IN  /\ new.page = row.page /\ new.manual = row.manual
               /\ new.state = row.state /\ new.made = row.made
               /\ new.removed = removed /\ new.text = text
BY DEF Row

\* A balloon that has a row: the row is written, nothing else.
LEMMA UpdateSound ==
    ASSUME IInv, SInv, saving # NotSaving, NEW item \in saving.todo,
           isPersistedId(item.balloon), SaveBalloon(item)
    PROVE  SInv'
<1> DEFINE i == item.balloon.id
<1>1. PICK text \in SentText(item.balloon) : Update(i, item, text)
  BY DEF SaveBalloon
<1>2. /\ saving.stage = "balloons" /\ saving' = [saving EXCEPT !.todo = @ \ {item}]
      /\ UNCHANGED <<stored, sheet, history, edits, timer, loading, run>>
  BY DEF SaveBalloon, sheetVars, runVars
<1>3. /\ saving \in Saving /\ saving.of \in Sheet /\ Progress(saving, rows, edits)
      /\ rows \in Seq(Row) /\ \A j \in DOMAIN rows : j \in Nat \ {0} /\ rows[j] \in Row
  BY SaveBefore
<1>4. SoundIn(saving.of, rows, edits) /\ item \in Items(saving.of)
  BY <1>3 DEF Progress
<1>5. item.balloon \in saving.of.annotations \cup saving.of.removed
  BY <1>3, <1>4, ItemFields
<1>6. i \in DOMAIN rows /\ rows[i].made = 0
  <2>1. i \in PersistedIds(saving.of)
    BY <1>5 DEF PersistedIds
  <2> QED
    BY <2>1, <1>4 DEF SoundIn
<1>7. /\ DOMAIN rows' = DOMAIN rows
      /\ rows'[i] = [rows[i] EXCEPT !.removed = item.removed, !.text = text]
      /\ \A j \in DOMAIN rows : j # i => rows'[j] = rows[j]
  BY <1>1, <1>3, <1>6 DEF Update
<1>8. /\ rows'[i].page = rows[i].page /\ rows'[i].manual = rows[i].manual
      /\ rows'[i].state = rows[i].state /\ rows'[i].made = rows[i].made
      /\ rows'[i].removed = item.removed /\ rows'[i].text = text
  BY <1>3, <1>6, <1>7, ChangedRow
<1>9. rows[i].page = item.balloon.page /\ rows[i].manual = item.balloon.manual
  BY <1>4, <1>5 DEF SoundIn
<1>10. /\ saving'.of = saving.of /\ saving'.upto = saving.upto
       /\ saving'.stage = "balloons" /\ saving'.existing = saving.existing
       /\ saving'.todo = saving.todo \ {item}
       /\ \A r : Fresh(saving', r) = Fresh(saving, r)
  BY <1>2, <1>3, OneSent
<1> HIDE DEF i
<1>11. RowsKept
  BY <1>7, <1>8 DEF RowsKept
<1>12. RowsSound'
  BY <1>6, <1>7, <1>8 DEF SInv, RowsSound, Live
<1>13. Fresh(saving', rows') = Fresh(saving, rows) /\ i \notin Fresh(saving, rows)
  <2>1. \A j \in DOMAIN rows : rows'[j].state = rows[j].state /\ rows'[j].made = rows[j].made
    BY <1>7, <1>8
  <2>2. Fresh(saving, rows') = Fresh(saving, rows)
    BY <1>7, <2>1 DEF Fresh
  <2>3. Fresh(saving', rows') = Fresh(saving, rows')
    BY <1>10, Zenon
  <2> QED
    BY <1>6, <2>2, <2>3 DEF Fresh
<1>14. \A j \in Fresh(saving, rows) : rows'[j] = rows[j]
  BY <1>7, <1>13 DEF Fresh
<1>15. ASSUME NEW x \in Items(saving.of) \ saving'.todo
       PROVE  Written(saving', rows', edits, x)
  <2>1. CASE x = item
    <3>1. saving.upto = edits => text = item.balloon.text
      BY SentExactly
    <3>2. Agrees(rows'[i], item, saving'.upto = edits)
      BY <1>8, <1>9, <1>10, <3>1 DEF Agrees
    <3> QED
      BY <2>1, <3>2 DEF Written, i
  <2>2. CASE x # item
    <3>1. x \in Items(saving.of) \ saving.todo
      BY <1>10, <2>2
    <3>2. Written(saving, rows, edits, x)
      BY <1>3, <3>1 DEF Progress
    <3>3. CASE isPersistedId(x.balloon)
      <4>1. x.balloon.id # i
        BY <1>4, <2>2, OneItem DEF i
      <4>2. x.balloon.id \in DOMAIN rows
        <5>1. x.balloon \in saving.of.annotations \cup saving.of.removed
          BY <1>3, <3>1, ItemFields
        <5>2. x.balloon.id \in PersistedIds(saving.of)
          BY <3>3, <5>1 DEF PersistedIds
        <5> QED
          BY <5>2, <1>4 DEF SoundIn
      <4> QED
        BY <3>2, <3>3, <4>1, <4>2, <1>7, <1>10 DEF Written
    <3>4. CASE ~isPersistedId(x.balloon)
      BY <3>2, <3>4, <1>10, <1>13, <1>14 DEF Written
    <3> QED
      BY <3>3, <3>4
  <2> QED
    BY <2>1, <2>2
<1>16. Progress(saving', rows', edits)
  <2>1. SoundIn(saving.of, rows', edits)
    BY <1>3, <1>4, <1>11, SoundStays
  <2>2. \A j \in Fresh(saving, rows) :
           \E x \in Items(saving.of) \ saving'.todo : x.balloon.id = rows'[j].made
    BY <1>3, <1>10, <1>14 DEF Progress
  <2>3. \A j, k \in Fresh(saving, rows) : rows'[j].made = rows'[k].made => j = k
    BY <1>3, <1>14 DEF Progress
  <2>4. saving'.todo \subseteq Items(saving.of) /\ saving'.existing \subseteq DOMAIN rows'
    BY <1>3, <1>7, <1>10 DEF Progress
  <2>5. saving'.upto <= edits
    BY <1>3, <1>10 DEF Progress
  <2> QED
    BY <1>10, <1>13, <1>15, <2>1, <2>2, <2>3, <2>4, <2>5 DEF Progress
<1> QED
  BY <1>2, <1>10, <1>11, <1>12, <1>16, SaveGoesOn

\* A balloon that has none gets one, and one only: no row of this save is of
\* an item that was still to be sent.
LEMMA CreateSound ==
    ASSUME IInv, SInv, saving # NotSaving, NEW item \in saving.todo,
           ~isPersistedId(item.balloon), SaveBalloon(item)
    PROVE  SInv'
<1> DEFINE n == Len(rows) + 1
<1>1. PICK text \in SentText(item.balloon) : Create(item, text)
  BY DEF SaveBalloon
<1> DEFINE new == [page |-> item.balloon.page, manual |-> item.balloon.manual,
                   removed |-> item.removed, text |-> text,
                   state |-> "live", made |-> item.balloon.id]
<1>2. /\ saving.stage = "balloons" /\ saving' = [saving EXCEPT !.todo = @ \ {item}]
      /\ UNCHANGED <<stored, sheet, history, edits, timer, loading, run>>
  BY DEF SaveBalloon, sheetVars, runVars
<1>3. /\ saving \in Saving /\ saving.of \in Sheet /\ Progress(saving, rows, edits)
      /\ rows \in Seq(Row) /\ \A j \in DOMAIN rows : j \in Nat \ {0} /\ rows[j] \in Row
  BY SaveBefore
<1>4. SoundIn(saving.of, rows, edits) /\ item \in Items(saving.of)
  BY <1>3 DEF Progress
<1>5. item.balloon.id \in Int /\ item.balloon.id < 0
  <2>1. item.balloon.id \in Int \ {0}
    BY <1>3, <1>4, ItemFields
  <2> QED
    BY <2>1 DEF isPersistedId
<1>6. /\ DOMAIN rows' = DOMAIN rows \cup {n} /\ n \notin DOMAIN rows
      /\ rows'[n] = new
      /\ \A j \in DOMAIN rows : rows'[j] = rows[j]
  <2>1. rows' = Append(rows, new)
    BY <1>1 DEF Create
  <2> HIDE DEF new
  <2> QED
    BY <2>1, <1>3
<1>7. /\ new.page = item.balloon.page /\ new.manual = item.balloon.manual
      /\ new.removed = item.removed /\ new.text = text
      /\ new.state = "live" /\ new.made = item.balloon.id
  OBVIOUS
<1> HIDE DEF n, new
<1>8. /\ saving'.of = saving.of /\ saving'.upto = saving.upto
      /\ saving'.stage = "balloons" /\ saving'.existing = saving.existing
      /\ saving'.todo = saving.todo \ {item}
      /\ \A r : Fresh(saving', r) = Fresh(saving, r)
  BY <1>2, <1>3, OneSent
<1>9. RowsKept
  BY <1>5, <1>6, <1>7 DEF RowsKept
<1>10. RowsSound'
  BY <1>5, <1>6, <1>7 DEF SInv, RowsSound, Live
<1>11. Fresh(saving', rows') = Fresh(saving, rows) \cup {n}
  <2>1. n \notin saving.existing
    BY <1>3, <1>6 DEF Progress
  <2> QED
    BY <2>1, <1>5, <1>6, <1>7, <1>8 DEF Fresh
<1>12. Fresh(saving, rows) \subseteq DOMAIN rows
  BY DEF Fresh
<1>13. \A j \in Fresh(saving, rows) : rows[j].made # item.balloon.id
  <2> SUFFICES ASSUME NEW j \in Fresh(saving, rows), rows[j].made = item.balloon.id
               PROVE  FALSE
    OBVIOUS
  <2>1. PICK x \in Items(saving.of) \ saving.todo : x.balloon.id = rows[j].made
    BY <1>3 DEF Progress
  <2>2. x = item
    BY <2>1, <1>4, OneItem
  <2> QED
    BY <2>1, <2>2
<1>14. ASSUME NEW x \in Items(saving.of) \ saving'.todo
       PROVE  Written(saving', rows', edits, x)
  <2>1. CASE x = item
    <3>1. saving.upto = edits => text = item.balloon.text
      BY SentExactly
    <3>2. Agrees(rows'[n], item, saving'.upto = edits)
      BY <1>6, <1>7, <1>8, <3>1 DEF Agrees
    <3> QED
      BY <2>1, <3>2, <1>6, <1>7, <1>11 DEF Written
  <2>2. CASE x # item
    <3>1. x \in Items(saving.of) \ saving.todo
      BY <1>8, <2>2
    <3>2. Written(saving, rows, edits, x)
      BY <1>3, <3>1 DEF Progress
    <3>3. CASE isPersistedId(x.balloon)
      <4>1. x.balloon.id \in DOMAIN rows
        <5>1. x.balloon \in saving.of.annotations \cup saving.of.removed
          BY <1>3, <3>1, ItemFields
        <5>2. x.balloon.id \in PersistedIds(saving.of)
          BY <3>3, <5>1 DEF PersistedIds
        <5> QED
          BY <5>2, <1>4 DEF SoundIn
      <4> QED
        BY <3>2, <3>3, <4>1, <1>6, <1>8 DEF Written
    <3>4. CASE ~isPersistedId(x.balloon)
      BY <3>2, <3>4, <1>6, <1>8, <1>11, <1>12 DEF Written
    <3> QED
      BY <3>3, <3>4
  <2> QED
    BY <2>1, <2>2
<1>15. Progress(saving', rows', edits)
  <2>1. SoundIn(saving.of, rows', edits)
    BY <1>3, <1>4, <1>9, SoundStays
  <2>2. ASSUME NEW j \in Fresh(saving, rows) \cup {n}
        PROVE  \E x \in Items(saving.of) \ saving'.todo : x.balloon.id = rows'[j].made
    <3>1. CASE j = n
      BY <3>1, <1>4, <1>6, <1>7, <1>8
    <3>2. CASE j # n
      BY <3>2, <1>3, <1>6, <1>8, <1>12 DEF Progress
    <3> QED
      BY <3>1, <3>2
  <2>3. \A j, k \in Fresh(saving, rows) \cup {n} : rows'[j].made = rows'[k].made => j = k
    BY <1>3, <1>6, <1>7, <1>12, <1>13 DEF Progress
  <2>4. saving'.todo \subseteq Items(saving.of) /\ saving'.existing \subseteq DOMAIN rows'
    BY <1>3, <1>6, <1>8 DEF Progress
  <2>5. saving'.upto <= edits
    BY <1>3, <1>8 DEF Progress
  <2> QED
    BY <1>8, <1>11, <1>14, <2>1, <2>2, <2>3, <2>4, <2>5 DEF Progress
<1> QED
  BY <1>2, <1>8, <1>9, <1>10, <1>15, SaveGoesOn

\* All balloons are sent: what is left of the rows found is to be deleted.
LEMMA BalloonsDoneSound ==
    ASSUME IInv, SInv, saving # NotSaving, SaveBalloonsDone
    PROVE  SInv'
<1>1. /\ saving.stage = "balloons" /\ saving.todo = {}
      /\ saving' = [saving EXCEPT !.stage = "unseen", !.existing = Unseen]
      /\ UNCHANGED <<rows, stored, sheet, history, edits, timer, loading, run>>
  BY DEF SaveBalloonsDone, databaseVars, sheetVars, runVars
<1>2. saving \in Saving /\ Progress(saving, rows, edits)
  BY SaveBefore
<1>3. /\ saving'.of = saving.of /\ saving'.upto = saving.upto
      /\ saving'.stage = "unseen" /\ saving'.todo = {}
      /\ saving'.existing = saving.existing \ PersistedIds(saving.of)
  BY <1>1, <1>2 DEF Saving, Unseen
<1>4. PersistedIds(saving.of) = {i \in DOMAIN rows : rows[i].made = 0}
  BY <1>2 DEF Progress, SoundIn
<1>5. Fresh(saving', rows) = Fresh(saving, rows)
  BY <1>3, <1>4 DEF Fresh
<1>6. Progress(saving', rows, edits)
  <2>1. /\ saving'.existing \subseteq DOMAIN rows
        /\ \A i \in saving'.existing : rows[i].made # 0
    BY <1>2, <1>3, <1>4 DEF Progress
  <2>2. ASSUME NEW x \in Items(saving.of) PROVE Written(saving', rows, edits, x)
    <3>1. Written(saving, rows, edits, x)
      BY <1>1, <1>2 DEF Progress
    <3> QED
      BY <3>1, <1>3, <1>5 DEF Written
  <2> QED
    BY <1>1, <1>2, <1>3, <1>5, <2>1, <2>2 DEF Progress
<1>7. RowsKept /\ RowsSound'
  BY <1>1 DEF RowsKept, SInv, RowsSound, Live
<1> QED
  BY <1>1, <1>3, <1>6, <1>7, SaveGoesOn

\* What was found and not accounted for goes: a row of an earlier save that
\* broke off, never one the drawing was opened with.
LEMMA DeleteUnseenSound ==
    ASSUME IInv, SInv, saving # NotSaving, NEW i \in saving.existing, DeleteUnseen(i)
    PROVE  SInv'
<1>1. /\ saving.stage = "unseen"
      /\ rows' = [rows EXCEPT ![i].state = "deleted"]
      /\ saving' = [saving EXCEPT !.existing = @ \ {i}]
      /\ UNCHANGED <<stored, sheet, history, edits, timer, loading, run>>
  BY DEF DeleteUnseen, sheetVars, runVars
<1>2. /\ saving \in Saving /\ saving.of \in Sheet /\ Progress(saving, rows, edits)
      /\ rows \in Seq(Row) /\ \A j \in DOMAIN rows : rows[j] \in Row
  BY SaveBefore
<1>3. /\ saving'.of = saving.of /\ saving'.upto = saving.upto
      /\ saving'.stage = "unseen" /\ saving'.todo = saving.todo
      /\ saving'.existing = saving.existing \ {i}
  BY <1>1, <1>2 DEF Saving
<1>4. i \in DOMAIN rows /\ rows[i].made # 0
  BY <1>1, <1>2 DEF Progress
<1>5. /\ DOMAIN rows' = DOMAIN rows
      /\ rows'[i] = [rows[i] EXCEPT !.state = "deleted"]
      /\ \A j \in DOMAIN rows : j # i => rows'[j] = rows[j]
  BY <1>1, <1>2, <1>4
<1>6. /\ rows'[i].made = rows[i].made /\ rows'[i].page = rows[i].page
      /\ rows'[i].manual = rows[i].manual /\ rows'[i].state = "deleted"
  BY <1>2, <1>4, <1>5 DEF Row
<1>7. Fresh(saving', rows') = Fresh(saving, rows)
  <2>1. i \notin Fresh(saving, rows) /\ i \notin Fresh(saving', rows')
    BY <1>6 DEF Fresh
  <2>2. ASSUME NEW j \in DOMAIN rows, j # i
        PROVE  j \in Fresh(saving', rows') <=> j \in Fresh(saving, rows)
    <3>1. rows'[j] = rows[j] /\ (j \in saving'.existing <=> j \in saving.existing)
      BY <2>2, <1>3, <1>5
    <3> QED
      BY <3>1, <1>5 DEF Fresh
  <2>3. Fresh(saving', rows') \subseteq DOMAIN rows /\ Fresh(saving, rows) \subseteq DOMAIN rows
    BY <1>5 DEF Fresh
  <2> QED
    BY <2>1, <2>2, <2>3
<1>8. \A j \in Fresh(saving, rows) : rows'[j] = rows[j]
  BY <1>5 DEF Fresh
<1>9. RowsKept
  BY <1>5, <1>6 DEF RowsKept
<1>10. RowsSound'
  BY <1>4, <1>5, <1>6 DEF SInv, RowsSound, Live
<1>11. ASSUME NEW x \in Items(saving.of)
       PROVE  Written(saving', rows', edits, x)
  <2>1. Written(saving, rows, edits, x)
    BY <1>1, <1>2 DEF Progress
  <2>2. CASE isPersistedId(x.balloon)
    <3>1. x.balloon \in saving.of.annotations \cup saving.of.removed
      BY <1>2, ItemFields
    <3>2. x.balloon.id \in PersistedIds(saving.of)
      BY <2>2, <3>1 DEF PersistedIds
    <3>3. x.balloon.id \in DOMAIN rows /\ x.balloon.id # i
      BY <3>2, <1>2, <1>4 DEF Progress, SoundIn
    <3> QED
      BY <2>1, <2>2, <3>3, <1>3, <1>5 DEF Written
  <2>3. CASE ~isPersistedId(x.balloon)
    BY <2>1, <2>3, <1>3, <1>7, <1>8 DEF Written
  <2> QED
    BY <2>2, <2>3
<1>12. Progress(saving', rows', edits)
  <2>1. SoundIn(saving.of, rows', edits)
    BY <1>2, <1>9, SoundStays DEF Progress
  <2>2. /\ \A j \in Fresh(saving, rows) :
             \E x \in Items(saving.of) \ saving.todo : x.balloon.id = rows'[j].made
        /\ \A j, k \in Fresh(saving, rows) : rows'[j].made = rows'[k].made => j = k
    BY <1>2, <1>8 DEF Progress
  <2>3. /\ saving'.existing \subseteq DOMAIN rows' /\ saving'.upto <= edits
        /\ saving'.todo = {} /\ \A j \in saving'.existing : rows'[j].made # 0
    BY <1>1, <1>2, <1>3, <1>5 DEF Progress
  <2> QED
    BY <1>3, <1>7, <1>11, <2>1, <2>2, <2>3 DEF Progress
<1> QED
  BY <1>1, <1>3, <1>9, <1>10, <1>12, SaveGoesOn

\* A save moves on to a later stage, with nothing left to delete.
LEMMA StageOn ==
    ASSUME IInv, SInv, saving # NotSaving, saving.existing = {},
           saving.stage # "balloons",
           NEW stage \in Stages \ {"balloons"},
           saving' = [saving EXCEPT !.stage = stage],
           UNCHANGED <<rows, sheet, history, edits, timer, loading, run>>,
           \/ stage \notin {"areas", "newAreas"}
           \/ saving.upto = edits => stored'.masks = saving.of.masks
    PROVE  SInv'
<1>1. saving \in Saving /\ Progress(saving, rows, edits)
  BY SaveBefore
<1>2. /\ saving'.of = saving.of /\ saving'.upto = saving.upto
      /\ saving'.stage = stage /\ saving'.todo = saving.todo
      /\ saving'.existing = saving.existing
  BY <1>1 DEF Saving
<1>3. Fresh(saving', rows) = Fresh(saving, rows)
  BY <1>2 DEF Fresh
<1>4. \A x : Written(saving, rows, edits, x) => Written(saving', rows, edits, x)
  BY <1>2, <1>3 DEF Written
<1>5. Progress(saving', rows, edits)
  BY <1>1, <1>2, <1>3, <1>4 DEF Progress
<1>6. RowsKept /\ RowsSound'
  BY DEF RowsKept, SInv, RowsSound, Live
<1> QED
  BY <1>2, <1>5, <1>6, SaveGoesOn

LEMMA UnseenDoneSound ==
    ASSUME IInv, SInv, saving # NotSaving, DeleteUnseenDone
    PROVE  SInv'
<1>1. /\ saving.stage = "unseen" /\ saving.existing = {}
      /\ saving' = [saving EXCEPT !.stage = "masks"]
      /\ UNCHANGED <<rows, sheet, history, edits, timer, loading, run>>
  BY DEF DeleteUnseenDone, databaseVars, sheetVars, runVars
<1>2. "masks" \in Stages \ {"balloons"}
  BY DEF Stages
<1> QED
  BY <1>1, <1>2, StageOn

\* Masks and areas, anew: as long as nothing is edited, those of the sheet.
LEMMA ZonesSavedSound ==
    ASSUME IInv, SInv, saving # NotSaving, SaveMasksAndAreas
    PROVE  SInv'
<1>1. /\ saving.of \in Sheet /\ Progress(saving, rows, edits) /\ ZonesSent
      /\ stored \in [masks: SUBSET Pages, areas: SUBSET Pages]
  BY SaveBefore DEF IInv, TypeOK
<1>2. /\ "newMasks" \in Stages \ {"balloons"} /\ "areas" \in Stages \ {"balloons"}
      /\ "newAreas" \in Stages \ {"balloons"}
  BY DEF Stages
<1>3. CASE SaveZones("masks", "newMasks", [stored EXCEPT !.masks = {}])
  <2>1. /\ saving.stage = "masks" /\ saving' = [saving EXCEPT !.stage = "newMasks"]
        /\ UNCHANGED <<rows, sheet, history, edits, timer, loading, run>>
    BY <1>3 DEF SaveZones, sheetVars, runVars
  <2>2. saving.existing = {}
    BY <1>1, <2>1 DEF Progress
  <2> QED
    BY <1>2, <2>1, <2>2, StageOn
<1>4. ASSUME NEW s \in {saving.of, sheet},
             SaveZones("newMasks", "areas", [stored EXCEPT !.masks = s.masks])
      PROVE  SInv'
  <2>1. /\ saving.stage = "newMasks" /\ saving' = [saving EXCEPT !.stage = "areas"]
        /\ stored' = [stored EXCEPT !.masks = s.masks]
        /\ UNCHANGED <<rows, sheet, history, edits, timer, loading, run>>
    BY <1>4 DEF SaveZones, sheetVars, runVars
  <2>2. saving.existing = {}
    BY <1>1, <2>1 DEF Progress
  <2>3. saving.upto = edits => stored'.masks = saving.of.masks
    BY <1>1, <2>1 DEF ZonesSent
  <2> QED
    BY <1>2, <2>1, <2>2, <2>3, StageOn
<1>5. CASE SaveZones("areas", "newAreas", [stored EXCEPT !.areas = {}])
  <2>1. /\ saving.stage = "areas" /\ saving' = [saving EXCEPT !.stage = "newAreas"]
        /\ stored' = [stored EXCEPT !.areas = {}]
        /\ UNCHANGED <<rows, sheet, history, edits, timer, loading, run>>
    BY <1>5 DEF SaveZones, sheetVars, runVars
  <2>2. saving.existing = {}
    BY <1>1, <2>1 DEF Progress
  <2>3. saving.upto = edits => stored'.masks = saving.of.masks
    BY <1>1, <2>1 DEF ZonesSent
  <2> QED
    BY <1>2, <2>1, <2>2, <2>3, StageOn
<1> QED
  BY <1>3, <1>4, <1>5 DEF SaveMasksAndAreas

\* A save ends, done or failed, and leaves rows that are sound.
LEMMA SaveEnds ==
    ASSUME SInv, saving' = NotSaving,
           UNCHANGED <<rows, sheet, history, edits, timer, loading, run>>
    PROVE  SInv'
BY DEF SInv, Quiet, RowsSound, Live, SheetsSound, Snapshots, SavingSound

LEMMA SaveStepSound == ASSUME IInv, SInv, SaveStep PROVE SInv'
<1>1. saving # NotSaving /\ Saves
  BY DEF SaveStep
<1>2. ASSUME NEW item \in saving.todo, SaveBalloon(item) PROVE SInv'
  BY <1>1, <1>2, UpdateSound, CreateSound
<1>3. ASSUME SaveFinish \/ SaveFail PROVE SInv'
  BY <1>3, SaveEnds DEF SaveFinish, SaveFail, databaseVars, sheetVars, runVars
<1> QED
  BY <1>1, <1>2, <1>3, BalloonsDoneSound, DeleteUnseenSound, UnseenDoneSound,
     ZonesSavedSound
  DEF Saves
-----------------------------------------------------------------------------
(* The drawing is opened; nobody asks for recognition. *)

LEMMA InitSound == ASSUME Init PROVE SInv
<1>1. PICK n \in 0..NumPages : rows = [i \in 1..n |-> Detection(i)]
  BY DEF Init
<1>2. /\ n \in Nat /\ DOMAIN rows = 1..n /\ rows \in Seq(Row)
      /\ \A i \in 1..n : rows[i] = Detection(i) /\ i \in Nat \ {0}
  BY <1>1, InitIInv, EditorAssumption DEF IInv, TypeOK
<1>3. \A i \in 1..n : Live(i) /\ rows[i].made = 0 /\ rows[i].removed = FALSE
  BY <1>2 DEF Detection, Live
<1>4. LiveRows(FALSE) = 1..n /\ LiveRows(TRUE) = {}
  BY <1>2, <1>3 DEF LiveRows
<1>5. sheet.annotations = {AsBalloon(i) : i \in 1..n} /\ sheet.removed = {}
  BY <1>4 DEF Init, loadBalloons
<1>6. \A i \in 1..n : /\ AsBalloon(i).id = i /\ AsBalloon(i).page = rows[i].page
                      /\ AsBalloon(i).manual = rows[i].manual
  BY DEF AsBalloon
<1>7. PersistedIds(sheet) = 1..n
  BY <1>2, <1>5, <1>6 DEF PersistedIds, isPersistedId
<1>8. edits = 0
  BY DEF Init
<1>9. SoundIn(sheet, rows, edits)
  <2>1. PersistedIds(sheet) = {i \in DOMAIN rows : rows[i].made = 0}
    BY <1>2, <1>3, <1>7
  <2>2. \A b, c \in sheet.annotations : b.id = c.id => b = c
    BY <1>5, <1>6
  <2>3. \A b \in sheet.annotations : b.id \in Nat /\ rows[b.id].page = b.page
                                     /\ rows[b.id].manual = b.manual
    BY <1>2, <1>5, <1>6
  <2> QED
    BY <1>5, <1>8, <2>1, <2>2, <2>3 DEF SoundIn
<1>10. Snapshots = {sheet}
  <2>1. sheet \in Sheet
    BY InitIInv DEF IInv, TypeOK
  <2> QED
    BY <2>1, FreshHistory, InvTerms DEF Init
<1>11. RowsSound
  BY <1>2, <1>3 DEF RowsSound
<1>12. Quiet /\ SavingSound
  BY DEF Init, Quiet, SavingSound
<1> QED
  BY <1>9, <1>10, <1>11, <1>12 DEF SInv, SheetsSound

\* Nobody asks for recognition, so nothing runs and no reload is due.
LEMMA NobodyAsks ==
    ASSUME NoRecognition, IInv, SInv, AutoBalloon \/ Consumer \/ Reload
    PROVE  SInv'
<1>1. run = NoRun /\ timer = FALSE /\ loading = <<>> /\ started \in Nat
  BY DEF SInv, Quiet, IInv, TypeOK
<1>2. CASE AutoBalloonAnswered
  BY <1>2
  DEF AutoBalloonAnswered, SInv, Quiet, RowsSound, Live, SheetsSound, Snapshots,
      SavingSound, ZonesSent, databaseVars, runVars
<1>3. ASSUME NEW scope \in Scopes, handleAutoBalloon(scope) \/ RerunElsewhere(scope)
      PROVE  FALSE
  BY <1>1, <1>3, EditorAssumption
  DEF NoRecognition, handleAutoBalloon, RerunElsewhere, Rerun
<1>4. ~Consumer
  BY <1>1 DEF Consumer, RunStart, RunPage, RunFinish, NoRun
<1>5. ~Reload
  BY <1>1 DEF Reload, ReloadRefused, ReloadStart
<1> QED
  BY <1>2, <1>3, <1>4, <1>5 DEF AutoBalloon

-----------------------------------------------------------------------------
(* The end of a save. *)

\* The live rows, one for each balloon of the sheet and no other: a row from
\* the start for the balloon with its id, a row of this save for the balloon
\* it was created for.
LEMMA RowPerBalloon ==
    ASSUME IInv, SInv, saving # NotSaving, saving.stage = "newAreas",
           saving.upto = edits
    PROVE  /\ \A b \in sheet.annotations : Stored(b, FALSE)
           /\ \A b \in sheet.removed : Stored(b, TRUE)
           /\ Cardinality(LiveRows(FALSE) \cup LiveRows(TRUE)) = Cardinality(Ids(sheet))
<1>1. /\ Progress(saving, rows, edits) /\ rows \in Seq(Row) /\ sheet \in Sheet
      /\ \A i \in DOMAIN rows : i \in Nat \ {0} /\ rows[i] \in Row
      /\ RowsSound /\ sheet = saving.of
  BY SaveBefore DEF SInv, ZonesSent
<1>2. /\ saving.todo = {} /\ saving.existing = {} /\ SoundIn(sheet, rows, edits)
  BY <1>1 DEF Progress
<1> DEFINE L  == {i \in DOMAIN rows : Live(i)}
           F  == {i \in DOMAIN rows : Live(i) /\ rows[i].made # 0}
           id == [i \in L |-> IF rows[i].made = 0 THEN i ELSE rows[i].made]
<1>3. Fresh(saving, rows) = F
  BY <1>2 DEF Fresh, Live
<1>4. /\ \A i \in F : \E x \in Items(sheet) : x.balloon.id = rows[i].made
      /\ \A i, j \in F : rows[i].made = rows[j].made => i = j
      /\ \A x \in Items(sheet) : Written(saving, rows, edits, x)
  BY <1>1, <1>2, <1>3 DEF Progress
<1>5. /\ \A i \in DOMAIN rows : rows[i].made \in Int /\ rows[i].made <= 0
      /\ \A i \in DOMAIN rows : rows[i].made = 0 => i \in L
      /\ \A i \in DOMAIN rows : rows[i].removed \in BOOLEAN
  BY <1>1 DEF RowsSound, Row
<1>6. PersistedIds(sheet) = {i \in DOMAIN rows : rows[i].made = 0}
  BY <1>2 DEF SoundIn
\* Each item is in one row.
<1>7. ASSUME NEW x \in Items(sheet)
      PROVE  \E i \in L : /\ id[i] = x.balloon.id /\ rows[i].removed = x.removed
                          /\ rows[i].page = x.balloon.page
                          /\ rows[i].manual = x.balloon.manual
                          /\ rows[i].text = x.balloon.text
  <2>1. x.balloon \in sheet.annotations \cup sheet.removed /\ x.balloon.id \in Int \ {0}
    BY <1>1, ItemFields
  <2>2. Written(saving, rows, edits, x)
    BY <1>4
  <2>3. CASE isPersistedId(x.balloon)
    <3>1. x.balloon.id \in DOMAIN rows /\ rows[x.balloon.id].made = 0
      BY <2>1, <2>3, <1>6 DEF PersistedIds
    <3>2. x.balloon.id \in L /\ id[x.balloon.id] = x.balloon.id
      BY <3>1, <1>5
    <3>3. Agrees(rows[x.balloon.id], x, saving.upto = edits)
      BY <2>2, <2>3 DEF Written
    <3> QED
      BY <3>2, <3>3 DEF Agrees
  <2>4. CASE ~isPersistedId(x.balloon)
    <3>1. PICK i \in F : rows[i].made = x.balloon.id /\ Agrees(rows[i], x, saving.upto = edits)
      BY <2>2, <2>4, <1>3 DEF Written
    <3>2. i \in L /\ id[i] = x.balloon.id
      BY <3>1
    <3> QED
      BY <3>1, <3>2 DEF Agrees
  <2> QED
    BY <2>3, <2>4
<1>8. \A i, j \in L : id[i] = id[j] => i = j
  <2> SUFFICES ASSUME NEW i \in L, NEW j \in L, id[i] = id[j] PROVE i = j
    OBVIOUS
  <2>1. i \in Nat \ {0} /\ j \in Nat \ {0}
    BY <1>1
  <2>2. CASE rows[i].made = 0 /\ rows[j].made = 0
    BY <2>2
  <2>3. CASE rows[i].made = 0 /\ rows[j].made # 0
    BY <2>1, <2>3, <1>5
  <2>4. CASE rows[i].made # 0 /\ rows[j].made = 0
    BY <2>1, <2>4, <1>5
  <2>5. CASE rows[i].made # 0 /\ rows[j].made # 0
    BY <2>5, <1>4
  <2> QED
    BY <2>2, <2>3, <2>4, <2>5
<1>9. Ids(sheet) = {x.balloon.id : x \in Items(sheet)}
  <2>1. \A b \in sheet.annotations : [balloon |-> b, removed |-> FALSE] \in Items(sheet)
    BY DEF Items
  <2>2. \A b \in sheet.removed : [balloon |-> b, removed |-> TRUE] \in Items(sheet)
    BY DEF Items
  <2>3. \A x \in Items(sheet) : x.balloon \in sheet.annotations \cup sheet.removed
    BY <1>1, ItemFields
  <2>4. ASSUME NEW b \in sheet.annotations \cup sheet.removed
        PROVE  \E x \in Items(sheet) : x.balloon = b
    BY <2>1, <2>2
  <2> QED
    BY <2>3, <2>4 DEF Ids
<1>10. \A i \in L : id[i] \in Ids(sheet)
  <2> SUFFICES ASSUME NEW i \in L PROVE id[i] \in Ids(sheet)
    OBVIOUS
  <2>1. CASE rows[i].made = 0
    <3>1. i \in PersistedIds(sheet)
      BY <2>1, <1>6
    <3> QED
      BY <2>1, <3>1 DEF PersistedIds, Ids
  <2>2. CASE rows[i].made # 0
    BY <2>2, <1>4, <1>9
  <2> QED
    BY <2>1, <2>2
\* So the rows and the ids are as many.
<1>11. Cardinality(L) = Cardinality(Ids(sheet))
  <2>1. id \in [L -> Ids(sheet)]
    BY <1>10
  <2>2. \A k \in Ids(sheet) : \E i \in L : id[i] = k
    BY <1>7, <1>9
  <2>3. IsFiniteSet(L)
    <3>1. Len(rows) \in Nat /\ DOMAIN rows = 1..Len(rows)
      BY <1>1
    <3>2. IsFiniteSet(1..Len(rows)) /\ L \subseteq 1..Len(rows)
      BY <3>1, FS_Interval
    <3> QED
      BY <3>2, FS_Subset
  <2> HIDE DEF id, L
  <2>4. id \in Bijection(L, Ids(sheet))
    BY <2>1, <2>2, <1>8, Fun_IsBij
  <2>5. ExistsBijection(L, Ids(sheet))
    BY <2>4, Fun_ExistsBij
  <2> QED
    BY <2>3, <2>5, FS_Bijection
<1>12. LiveRows(FALSE) \cup LiveRows(TRUE) = L
  BY <1>5 DEF LiveRows
<1>13. ASSUME NEW x \in Items(sheet) PROVE Stored(x.balloon, x.removed)
  <2>1. x.balloon \in Balloon /\ x.balloon.id \in Int \ {0}
    BY <1>1, ItemFields
  <2>2. PICK i \in L : /\ id[i] = x.balloon.id /\ rows[i].removed = x.removed
                       /\ rows[i].page = x.balloon.page
                       /\ rows[i].manual = x.balloon.manual
                       /\ rows[i].text = x.balloon.text
    BY <1>7
  <2>3. i \in LiveRows(x.removed)
    BY <2>2 DEF LiveRows
  <2>4. AsBalloon(i) = [x.balloon EXCEPT !.id = i]
    BY <2>1, <2>2 DEF AsBalloon, Balloon
  <2>5. RowsOf(x.balloon) = {i}
    <3>1. \A j \in L : (j = x.balloon.id \/ rows[j].made = x.balloon.id) => id[j] = x.balloon.id
      <4> SUFFICES ASSUME NEW j \in L, j = x.balloon.id \/ rows[j].made = x.balloon.id
                   PROVE  id[j] = x.balloon.id
        OBVIOUS
      <4>1. CASE j = x.balloon.id
        <5>1. isPersistedId(x.balloon)
          BY <4>1, <1>1 DEF isPersistedId
        <5>2. x.balloon \in sheet.annotations \cup sheet.removed
          BY <1>1, ItemFields
        <5>3. j \in PersistedIds(sheet)
          BY <4>1, <5>1, <5>2 DEF PersistedIds
        <5> QED
          BY <4>1, <5>3, <1>6
      <4>2. CASE rows[j].made = x.balloon.id
        BY <4>2, <2>1
      <4> QED
        BY <4>1, <4>2
    <3>2. i = x.balloon.id \/ rows[i].made = x.balloon.id
      BY <2>2
    <3>3. \A j \in L : id[j] = x.balloon.id => j = i
      BY <2>2, <1>8
    <3>4. RowsOf(x.balloon) = {j \in L : j = x.balloon.id \/ rows[j].made = x.balloon.id}
      BY DEF RowsOf
    <3> QED
      BY <2>2, <3>1, <3>2, <3>3, <3>4
  <2> QED
    BY <2>3, <2>4, <2>5 DEF Stored
<1>14. ASSUME NEW b \in sheet.annotations PROVE Stored(b, FALSE)
  <2>1. [balloon |-> b, removed |-> FALSE] \in Items(sheet)
    BY DEF Items
  <2> QED
    BY <2>1, <1>13
<1>15. ASSUME NEW b \in sheet.removed PROVE Stored(b, TRUE)
  <2>1. [balloon |-> b, removed |-> TRUE] \in Items(sheet)
    BY DEF Items
  <2> QED
    BY <2>1, <1>13
<1> QED
  BY <1>11, <1>12, <1>14, <1>15

LEMMA FinishReconciles ==
    ASSUME IInv, SInv, SaveFinish, edits = saving.upto
    PROVE  Reconciled'
<1>1. /\ saving.stage = "newAreas" /\ UNCHANGED <<rows, sheet>>
      /\ \E s \in {saving.of, sheet} : stored' = [stored EXCEPT !.areas = s.areas]
  BY DEF SaveFinish
<1>2. saving # NotSaving
  BY <1>1 DEF NotSaving
<1>3. sheet = saving.of /\ stored.masks = sheet.masks
  BY <1>1, <1>2, SaveBefore DEF ZonesSent
<1>4. stored \in [masks: SUBSET Pages, areas: SUBSET Pages]
  BY DEF IInv, TypeOK
<1>5. stored' = [masks |-> sheet.masks, areas |-> sheet.areas]
  BY <1>1, <1>3, <1>4
<1>6. /\ \A b \in sheet.annotations : Stored(b, FALSE)
      /\ \A b \in sheet.removed : Stored(b, TRUE)
      /\ Cardinality(LiveRows(FALSE) \cup LiveRows(TRUE)) = Cardinality(Ids(sheet))
  BY <1>1, <1>2, RowPerBalloon
<1>7. /\ \A removed : LiveRows(removed)' = LiveRows(removed)
      /\ \A b, removed : Stored(b, removed)' = Stored(b, removed)
  BY <1>1 DEF LiveRows, Live, Stored, RowsOf, AsBalloon
<1> QED
  BY <1>1, <1>5, <1>6, <1>7 DEF Reconciled

(***************************************************************************)
(* Where no recognition runs: when a save reports success and nothing was  *)
(* edited while it ran, each balloon of the sheet is in exactly one live   *)
(* row, kept or removed as on the sheet, no other row is live, and masks   *)
(* and areas are the sheet's -- although a save never learns the ids of    *)
(* the rows it creates, and whatever earlier saves left half done          *)
(* (saveBalloons).                                                         *)
(***************************************************************************)
THEOREM SavesReconcile == ASSUME NoRecognition PROVE Spec => SaveReconciles
<1>1. Init => SInv
  BY InitSound
<1>2. IInv /\ SInv /\ [Next]_vars => SInv'
  <2> SUFFICES ASSUME IInv, SInv, [Next]_vars PROVE SInv'
    OBVIOUS
  <2>1. CASE Next
    BY <2>1, EditingSound, SaveStartSound, SaveStepSound, NobodyAsks DEF Next
  <2>2. CASE UNCHANGED vars
    BY <2>2 DEF vars, SInv, Quiet, RowsSound, Live, SheetsSound, Snapshots,
                SavingSound, ZonesSent
  <2> QED
    BY <2>1, <2>2
<1>3. IInv /\ SInv => (SaveFinish /\ edits = saving.upto => Reconciled')
  BY FinishReconciles
<1>4. Spec => []IInv
  BY EditorInvariance
<1> QED
  BY <1>1, <1>2, <1>3, <1>4, PTL DEF Spec, SaveReconciles
=============================================================================
