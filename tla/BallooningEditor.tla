-------------------------- MODULE BallooningEditor --------------------------
(***************************************************************************)
(* One part's balloons: the rows of dbo.CostingPartBalloons, the drawing   *)
(* editor that holds a copy of them (BallooningWidget.ts), its Save, which *)
(* reconciles the two row by row without a transaction, its undo history,  *)
(* the recognition run that replaces the rows behind it, and the live      *)
(* reload a progress message triggers.                                     *)
(*                                                                         *)
(* Each await of the widget ends an action: while a request is under way   *)
(* the operator can edit and the run can write.  Of a balloon's fields the *)
(* model keeps who made it and whether the operator typed over its text; a *)
(* page has one mask zone and one area, or none.                           *)
(***************************************************************************)
EXTENDS Integers, Sequences, FiniteSets

CONSTANTS
    NumPages,     \* pages of the drawing
    Whole,        \* Auto Balloon on all pages
    SkipDone,     \* Auto Balloon on the pages that hold no balloon
    Scopes,       \* the scopes recognition is asked for
    Gestures,     \* what the operator does; see AllGestures
    HistoryLimit, \* steps the undo history keeps (50 in the widget)
    Faults,       \* what goes wrong; see AllFaults
    MaxEdits,     \* bound: edits, undos and redos
    MaxRuns,      \* bound: recognition runs
    MaxRows       \* bound: no save starts that would need more rows

AllGestures == {"draw", "retype", "delete", "clear", "mask", "area", "undo"}

\* save: a request of a save fails; run: a recognition run stops half way;
\* load: the reads of a live reload fail; message: a progress message is lost.
AllFaults == {"save", "run", "load", "message"}

Pages == 1..NumPages

ASSUME EditorAssumption ==
    /\ NumPages \in Nat
    /\ Whole \notin Pages /\ SkipDone \notin Pages /\ Whole # SkipDone
    /\ Scopes \subseteq Pages \cup {Whole, SkipDone}
    /\ Gestures \subseteq AllGestures
    /\ HistoryLimit \in Nat \ {0}
    /\ Faults \subseteq AllFaults
    /\ MaxEdits \in Nat /\ MaxRuns \in Nat /\ MaxRows \in Nat

VARIABLES
    rows,     \* dbo.CostingPartBalloons of the part, by ID
    stored,   \* the part's active mask zones and areas in the database
    sheet,    \* what the editor holds: balloons, removed ones, masks, areas
    dirty,    \* the widget's flag for unsaved edits
    history,  \* its undo history
    timer,    \* a live reload is due, 1.5 s after the last progress message
    loading,  \* live reloads read and not yet on the sheet, in the order asked
    missed,   \* history: the newest read failed or was overwritten by an older
              \* one, or a message that would have asked for one was lost
    saving,   \* how far a save has come
    asked,    \* edits confirmed away by an Auto Balloon awaiting its answer
    run,      \* the recognition job of this part
    started,  \* recognition runs asked for so far
    edits,    \* edits made so far
    settled   \* edits saved, or given up knowingly, or discarded

databaseVars == <<rows, stored>>
sheetVars    == <<sheet, dirty, history, edits, settled>>
runVars      == <<run, started>>
reloadVars   == <<timer, loading, missed>>
vars == <<rows, stored, sheet, dirty, history, timer, loading, missed, saving, asked,
          run, started, edits, settled>>

\* IsActive is 1 (live), 0 (cleared by a re-run), -1 (deleted by a save), or
\* the row is gone.
RowStates == {"live", "cleared", "deleted", "gone"}
Texts     == {"read", "typed"}

\* "made" is the client-side id of the balloon a save created the row for.
Row == [page: Pages, manual: BOOLEAN, removed: BOOLEAN, text: Texts,
        state: RowStates, made: Int]

\* A client-side id is a negative number, a database id a positive one.
Balloon == [id: Int \ {0}, page: Pages, manual: BOOLEAN, text: Texts]
Sheet   == [annotations: SUBSET Balloon, removed: SUBSET Balloon,
            masks: SUBSET Pages, areas: SUBSET Pages]
History == [undo: Seq(Sheet), redo: Seq(Sheet), current: Sheet]

NotSaving  == [stage |-> "idle"]
NotAsking  == -1
NoRun      == [state |-> "none"]

\* late: a younger reload is on the sheet already.
Answer == [found: Sheet, late: BOOLEAN]

Item   == [balloon: Balloon, removed: BOOLEAN]
Stages == {"balloons", "unseen", "masks", "newMasks", "areas", "newAreas"}
Saving == [stage: Stages, todo: SUBSET Item, existing: SUBSET Nat,
           of: Sheet, upto: Nat]

TypeOK ==
    /\ rows \in Seq(Row)
    /\ stored \in [masks: SUBSET Pages, areas: SUBSET Pages]
    /\ sheet \in Sheet
    /\ dirty \in BOOLEAN
    /\ history \in History
    /\ timer \in BOOLEAN
    /\ loading \in Seq(Answer)
    /\ missed \in BOOLEAN
    /\ saving \in {NotSaving} \cup Saving
    /\ asked \in {NotAsking} \cup Nat
    /\ run \in {NoRun}
              \cup [state: {"queued"}, scope: Pages \cup {Whole, SkipDone}]
              \cup [state: {"running"}, todo: SUBSET Pages]
    /\ started \in Nat /\ edits \in Nat /\ settled \in Nat
-----------------------------------------------------------------------------
(* Reading the database. *)

Live(i) == rows[i].state = "live"

\* Variant: ids counted from zero.
AsBalloonFromZero(i) == [id |-> i - 1, page |-> rows[i].page,
                         manual |-> rows[i].manual, text |-> rows[i].text]

AsBalloon(i) == [id |-> i, page |-> rows[i].page, manual |-> rows[i].manual,
                 text |-> rows[i].text]

LiveRows(removed) == {i \in DOMAIN rows : Live(i) /\ rows[i].removed = removed}

\* loadBalloons reads balloons and masks; the areas are read by load() alone.
loadBalloons(areas) ==
    [annotations |-> {AsBalloon(i) : i \in LiveRows(FALSE)},
     removed     |-> {AsBalloon(i) : i \in LiveRows(TRUE)},
     masks       |-> stored.masks,
     areas       |-> areas]

\* A row as recognition writes it.
Detection(page) == [page |-> page, manual |-> FALSE, removed |-> FALSE,
                    text |-> "read", state |-> "live", made |-> 0]

isPersistedId(b) == b.id > 0

Ids(s)          == {b.id : b \in s.annotations \cup s.removed}
PersistedIds(s) == {b.id : b \in {c \in s.annotations \cup s.removed :
                                    isPersistedId(c)}}
-----------------------------------------------------------------------------
(* The undo history: whole-sheet snapshots. *)

NewHistory(s) == [undo |-> <<>>, redo |-> <<>>, current |-> s]

Shift(stack) == IF Len(stack) > HistoryLimit THEN Tail(stack) ELSE stack
Pop(stack)   == SubSeq(stack, 1, Len(stack) - 1)
Top(stack)   == stack[Len(stack)]

\* Variant: an edit after an undo leaves the undone steps to redo.
recordKeepingRedo(h, s) ==
    IF s = h.current THEN h
    ELSE [undo |-> Shift(Append(h.undo, h.current)), redo |-> h.redo, current |-> s]

record(h, s) ==
    IF s = h.current THEN h
    ELSE [undo |-> Shift(Append(h.undo, h.current)), redo |-> <<>>, current |-> s]

undo(h) == [undo |-> Pop(h.undo), redo |-> Append(h.redo, h.current),
            current |-> Top(h.undo)]
redo(h) == [undo |-> Append(h.undo, h.current), redo |-> Pop(h.redo),
            current |-> Top(h.redo)]
-----------------------------------------------------------------------------
(* The operator's edits.  Every edit marks the drawing dirty last, and that *)
(* is where the undo step is taken.                                         *)

Edit(s) ==
    /\ edits < MaxEdits
    /\ s # sheet
    /\ sheet' = s
    /\ dirty' = TRUE
    /\ history' = record(history, s)
    /\ edits' = edits + 1
    /\ UNCHANGED <<databaseVars, reloadVars, saving, asked, runVars, settled>>

\* newId() never repeats; the number of the edit stands for the uuid.
Draw(page) ==
    Edit([sheet EXCEPT !.annotations = @ \cup
            {[id |-> -(edits + 1), page |-> page, manual |-> TRUE, text |-> "typed"]}])

Retype(b) ==
    Edit([sheet EXCEPT !.annotations = (@ \ {b}) \cup {[b EXCEPT !.text = "typed"]}])

\* Variant: a deleted balloon leaves the sheet without a trace.
deleteOutright(chosen, masks) ==
    Edit([sheet EXCEPT !.annotations = @ \ chosen, !.masks = @ \ masks])

\* Kept rather than dropped: a save records the removal.
deleteSelected(chosen, masks) ==
    Edit([sheet EXCEPT !.annotations = @ \ chosen, !.removed = @ \cup chosen,
                       !.masks = @ \ masks])

\* This page or every page: the masks go with the balloons.
handleClearPage(pages) ==
    deleteSelected({b \in sheet.annotations : b.page \in pages}, pages)

DrawMask(page)  == Edit([sheet EXCEPT !.masks = @ \cup {page}])
DrawArea(page)  == Edit([sheet EXCEPT !.areas = @ \cup {page}])
ClearArea(page) == Edit([sheet EXCEPT !.areas = @ \ {page}])

\* Going back a step sets the flag itself, not through the setter, so it is
\* not recorded as a new step.
restoreSnapshot(h) ==
    /\ edits < MaxEdits
    /\ history' = h
    /\ sheet' = h.current
    /\ dirty' = TRUE
    /\ edits' = edits + 1
    /\ UNCHANGED <<databaseVars, reloadVars, saving, asked, runVars, settled>>

Undo ==
    LET h == record(history, sheet)
    IN h.undo # <<>> /\ restoreSnapshot(undo(h))

Redo == history.redo # <<>> /\ restoreSnapshot(redo(history))
-----------------------------------------------------------------------------
(* Save.  SaveStart is the click and the first List: the rows found, and   *)
(* the balloons to write; then one request per row, the rows of the part   *)
(* that were found and not written, and masks and areas anew.              *)

\* Variant: what is in the database is taken to be what was loaded from it.
SaveStartUnread ==
    /\ saving = NotSaving
    /\ Len(rows) + Cardinality(Ids(sheet) \ PersistedIds(sheet)) <= MaxRows
    /\ saving' = [stage    |-> "balloons",
                  todo     |-> [balloon: sheet.annotations, removed: {FALSE}]
                               \cup [balloon: sheet.removed, removed: {TRUE}],
                  existing |-> PersistedIds(sheet),
                  of       |-> sheet,
                  upto     |-> edits]
    /\ UNCHANGED <<databaseVars, sheetVars, reloadVars, asked, runVars>>

SaveStart ==
    /\ saving = NotSaving
    /\ Len(rows) + Cardinality(Ids(sheet) \ PersistedIds(sheet)) <= MaxRows
    /\ saving' = [stage    |-> "balloons",
                  todo     |-> [balloon: sheet.annotations, removed: {FALSE}]
                               \cup [balloon: sheet.removed, removed: {TRUE}],
                  existing |-> {i \in DOMAIN rows : Live(i)},
                  of       |-> sheet,
                  upto     |-> edits]
    /\ UNCHANGED <<databaseVars, sheetVars, reloadVars, asked, runVars>>

\* A balloon retyped in place since the click is sent as it is now, unless
\* the sheet holds a copy of it by now.
SentText(b) == {b.text} \cup {c.text : c \in {d \in sheet.annotations : d.id = b.id}}

Update(i, item, text) ==
    /\ rows[i].state # "gone"
    /\ rows' = [rows EXCEPT ![i].removed = item.removed, ![i].text = text]

Create(item, text) ==
    rows' = Append(rows, [page |-> item.balloon.page, manual |-> item.balloon.manual,
                          removed |-> item.removed, text |-> text,
                          state |-> "live", made |-> item.balloon.id])

SaveBalloon(item) ==
    /\ saving.stage = "balloons"
    /\ item \in saving.todo
    /\ \E text \in SentText(item.balloon) :
         IF isPersistedId(item.balloon) THEN Update(item.balloon.id, item, text)
                                        ELSE Create(item, text)
    /\ saving' = [saving EXCEPT !.todo = @ \ {item}]
    /\ UNCHANGED <<stored, sheetVars, reloadVars, asked, runVars>>

Unseen == saving.existing \ PersistedIds(saving.of)

SaveBalloonsDone ==
    /\ saving.stage = "balloons"
    /\ saving.todo = {}
    /\ saving' = [saving EXCEPT !.stage = "unseen", !.existing = Unseen]
    /\ UNCHANGED <<databaseVars, sheetVars, reloadVars, asked, runVars>>

\* Anything present before and not accounted for now was deleted outright.
DeleteUnseen(i) ==
    /\ saving.stage = "unseen"
    /\ i \in saving.existing
    /\ rows[i].state # "gone"
    /\ rows' = [rows EXCEPT ![i].state = "deleted"]
    /\ saving' = [saving EXCEPT !.existing = @ \ {i}]
    /\ UNCHANGED <<stored, sheetVars, reloadVars, asked, runVars>>

DeleteUnseenDone ==
    /\ saving.stage = "unseen"
    /\ saving.existing = {}
    /\ saving' = [saving EXCEPT !.stage = "masks"]
    /\ UNCHANGED <<databaseVars, sheetVars, reloadVars, asked, runVars>>

\* Masks and areas are replaced wholesale.  The arrays were passed at the
\* click: what was pushed onto one since is sent, what replaced it is not.
SaveZones(stage, next, zones) ==
    /\ saving.stage = stage
    /\ stored' = zones
    /\ saving' = [saving EXCEPT !.stage = next]
    /\ UNCHANGED <<rows, sheetVars, reloadVars, asked, runVars>>

SaveMasksAndAreas ==
    \/ SaveZones("masks", "newMasks", [stored EXCEPT !.masks = {}])
    \/ \E s \in {saving.of, sheet} :
         SaveZones("newMasks", "areas", [stored EXCEPT !.masks = s.masks])
    \/ SaveZones("areas", "newAreas", [stored EXCEPT !.areas = {}])

SaveFinish ==
    /\ saving.stage = "newAreas"
    /\ \E s \in {saving.of, sheet} : stored' = [stored EXCEPT !.areas = s.areas]
    /\ dirty' = FALSE
    /\ settled' = IF settled > saving.upto THEN settled ELSE saving.upto
    /\ saving' = NotSaving
    /\ UNCHANGED <<rows, sheet, history, edits, reloadVars, asked, runVars>>

\* A request fails: what was written stays written, the rest is not, and the
\* changes are still on screen.  A row that is gone fails it for certain.
SaveFail ==
    /\ saving # NotSaving
    /\ \/ "save" \in Faults
       \/ saving.stage = "balloons"
          /\ \E item \in saving.todo : isPersistedId(item.balloon)
                                     /\ rows[item.balloon.id].state = "gone"
       \/ saving.stage = "unseen" /\ \E i \in saving.existing : rows[i].state = "gone"
    /\ saving' = NotSaving
    /\ UNCHANGED <<databaseVars, sheetVars, reloadVars, asked, runVars>>
-----------------------------------------------------------------------------
(* Recognition. *)

InScope(scope) == IF scope = Whole THEN Pages ELSE {scope} \ {SkipDone}

ClearPreviousOutput(scope) ==
    rows' = [i \in DOMAIN rows |->
               IF Live(i) /\ rows[i].page \in InScope(scope)
               THEN [rows[i] EXCEPT !.state = "cleared"] ELSE rows[i]]

\* Without Force a part whose ballooning waits or runs is refused.
Rerun(scope) ==
    /\ run = NoRun
    /\ started < MaxRuns
    /\ ClearPreviousOutput(scope)
    /\ run' = [state |-> "queued", scope |-> scope]
    /\ started' = started + 1

\* Somebody else asks for it, from the parts grid.
RerunElsewhere(scope) ==
    /\ Rerun(scope)
    /\ UNCHANGED <<stored, sheetVars, reloadVars, saving, asked>>

handleAutoBalloon(scope) ==
    /\ asked = NotAsking
    /\ Rerun(scope)
    /\ asked' = edits
    /\ UNCHANGED <<stored, sheetVars, reloadVars, saving>>

\* Variant: the flag stays up although the operator gave the edits up.
AutoBalloonStillDirty ==
    /\ asked # NotAsking
    /\ settled' = IF settled > asked THEN settled ELSE asked
    /\ asked' = NotAsking
    /\ UNCHANGED <<databaseVars, sheet, dirty, history, edits, reloadVars,
                   saving, runVars>>

\* The answer to the request: the edits confirmed away are no longer pending.
AutoBalloonAnswered ==
    /\ asked # NotAsking
    /\ dirty' = FALSE
    /\ settled' = IF settled > asked THEN settled ELSE asked
    /\ asked' = NotAsking
    /\ UNCHANGED <<databaseVars, sheet, history, edits, reloadVars, saving, runVars>>

EmptyPages == {p \in Pages : \A i \in LiveRows(FALSE) : rows[i].page # p}

RunStart ==
    /\ run.state = "queued"
    /\ run' = [state |-> "running",
               todo  |-> IF run.scope = SkipDone THEN EmptyPages ELSE InScope(run.scope)]
    /\ UNCHANGED <<databaseVars, sheetVars, reloadVars, saving, asked, started>>

\* The consumer deletes what recognition made of the page, never what the
\* operator drew or rejected, and adds what it recognises and the operator
\* has not rejected: at most one balloon per page here.
Recognised(page) ==
    LET rejected == \E i \in LiveRows(TRUE) : rows[i].page = page /\ ~rows[i].manual
        left     == [i \in DOMAIN rows |->
                       IF rows[i].page = page /\ ~rows[i].manual /\ ~rows[i].removed
                       THEN [rows[i] EXCEPT !.state = "gone"] ELSE rows[i]]
    IN IF rejected THEN left ELSE Append(left, Detection(page))

\* Ballooning reports once per page, and at its end; each report restarts the
\* reload timer, if it arrives: the broker keeps none for a widget that is not
\* connected or has not subscribed yet.
Report ==
    \/ timer' = TRUE /\ UNCHANGED <<loading, missed>>
    \/ "message" \in Faults /\ missed' = TRUE /\ UNCHANGED <<timer, loading>>

RunPage(page) ==
    /\ run.state = "running"
    /\ page \in run.todo
    /\ rows' = Recognised(page)
    /\ run' = [run EXCEPT !.todo = @ \ {page}]
    /\ Report
    /\ UNCHANGED <<stored, sheetVars, saving, asked, started>>

RunFinish ==
    /\ run.state = "running"
    /\ run.todo = {} \/ "run" \in Faults
    /\ run' = NoRun
    /\ Report
    /\ UNCHANGED <<databaseVars, sheetVars, saving, asked, started>>
-----------------------------------------------------------------------------
(* The live reload.  The flag is tested before the reads, not after them,   *)
(* and nothing waits for the reload before: several can be under way, and   *)
(* their answers come in any order.  Balloons and masks are read at one     *)
(* instant here.                                                            *)

ReloadRefused ==
    /\ timer /\ dirty
    /\ timer' = FALSE
    /\ UNCHANGED <<databaseVars, sheetVars, loading, missed, saving, asked, runVars>>

ReloadStart ==
    /\ timer /\ ~dirty
    /\ timer' = FALSE
    /\ loading' = Append(loading, [found |-> loadBalloons({}), late |-> FALSE])
    /\ missed' = FALSE
    /\ UNCHANGED <<databaseVars, sheetVars, saving, asked, runVars>>

\* What is under way without the i-th; late: those asked for before it are late.
Without(i, late) ==
    [k \in 1..(Len(loading) - 1) |->
        IF k < i THEN [loading[k] EXCEPT !.late = @ \/ late] ELSE loading[k + 1]]

\* Nothing compares the answer with what a later one has put on the sheet.
ReloadFinish(i) ==
    /\ sheet' = [loading[i].found EXCEPT !.areas = sheet.areas]
    /\ dirty' = FALSE
    /\ history' = NewHistory(sheet')
    /\ settled' = edits
    /\ loading' = Without(i, TRUE)
    /\ missed' = (missed \/ loading[i].late)
    /\ UNCHANGED <<databaseVars, edits, timer, saving, asked, runVars>>

\* Caught and logged: the sheet stays as it is, and nothing reads again.
ReloadFailed(i) ==
    /\ "load" \in Faults
    /\ loading' = Without(i, FALSE)
    /\ missed' = (missed \/ (i = Len(loading) /\ ~loading[i].late))
    /\ UNCHANGED <<databaseVars, sheetVars, timer, saving, asked, runVars>>
-----------------------------------------------------------------------------
\* The drawing is opened; recognition has done some of its first pages.
Init ==
    /\ \E n \in 0..NumPages : rows = [i \in 1..n |-> Detection(i)]
    /\ stored = [masks |-> {}, areas |-> {}]
    /\ sheet = loadBalloons({})
    /\ dirty = FALSE
    /\ history = NewHistory(sheet)
    /\ timer = FALSE
    /\ loading = <<>>
    /\ missed = FALSE
    /\ saving = NotSaving
    /\ asked = NotAsking
    /\ run = NoRun
    /\ started = 0 /\ edits = 0 /\ settled = 0

Editing ==
    \/ "draw" \in Gestures /\ \E page \in Pages : Draw(page)
    \/ "retype" \in Gestures /\ \E b \in sheet.annotations : Retype(b)
    \/ "delete" \in Gestures /\ \E b \in sheet.annotations : deleteSelected({b}, {})
    \/ "clear" \in Gestures /\ \E pages \in {{p} : p \in Pages} \cup {Pages} :
                                handleClearPage(pages)
    \/ "mask" \in Gestures /\ \E page \in Pages :
                                DrawMask(page) \/ deleteSelected({}, {page})
    \/ "area" \in Gestures /\ \E page \in Pages : DrawArea(page) \/ ClearArea(page)
    \/ "undo" \in Gestures /\ (Undo \/ Redo)

Saves ==
    \/ \E item \in saving.todo : SaveBalloon(item)
    \/ SaveBalloonsDone
    \/ \E i \in saving.existing : DeleteUnseen(i)
    \/ DeleteUnseenDone
    \/ SaveMasksAndAreas
    \/ SaveFinish
    \/ SaveFail

SaveStep == saving # NotSaving /\ Saves

AutoBalloon ==
    \/ \E scope \in Scopes : handleAutoBalloon(scope) \/ RerunElsewhere(scope)
    \/ AutoBalloonAnswered

Consumer == RunStart \/ (\E page \in Pages : RunPage(page)) \/ RunFinish

Reload ==
    \/ ReloadRefused
    \/ ReloadStart
    \/ \E i \in DOMAIN loading : ReloadFinish(i) \/ ReloadFailed(i)

Next == Editing \/ SaveStart \/ SaveStep \/ AutoBalloon \/ Consumer \/ Reload

Spec == Init /\ [][Next]_vars

\* The consumer works, the browser's timer fires and requests are answered;
\* the operator may do nothing.
Fairness ==
    /\ WF_vars(Consumer)
    /\ WF_vars(Reload)
    /\ WF_vars(SaveStep)
    /\ WF_vars(AutoBalloonAnswered)

FairSpec == Spec /\ Fairness
-----------------------------------------------------------------------------
(* Properties. *)

Unsaved == edits > settled

\* The history keeps at most HistoryLimit steps, undone ones included: only
\* record() trims a stack, undo() and redo() push on theirs without a look
\* (UndoHistory).
HistoryBounded == Len(history.undo) + Len(history.redo) <= HistoryLimit

Snapshots == {history.current}
             \cup {history.undo[i] : i \in DOMAIN history.undo}
             \cup {history.redo[i] : i \in DOMAIN history.redo}

\* No edit, undo, redo or reload loses track of a stored balloon: every
\* sheet the operator can get back to accounts for the same rows, kept or
\* removed.  Save deletes outright the rows the sheet does not account for,
\* so one dropped on the way would lose its tombstone too.
NothingDropped == \A s \in Snapshots : PersistedIds(s) = PersistedIds(sheet)

RowsOf(b) == {i \in DOMAIN rows : Live(i) /\ (i = b.id \/ rows[i].made = b.id)}

Stored(b, removed) ==
    \E i \in LiveRows(removed) :
        /\ RowsOf(b) = {i}
        /\ AsBalloon(i) = [b EXCEPT !.id = i]

Reconciled ==
    /\ \A b \in sheet.annotations : Stored(b, FALSE)
    /\ \A b \in sheet.removed : Stored(b, TRUE)
    /\ Cardinality(LiveRows(FALSE) \cup LiveRows(TRUE)) = Cardinality(Ids(sheet))
    /\ stored = [masks |-> sheet.masks, areas |-> sheet.areas]

\* When a save reports success the database holds the sheet, each balloon in
\* exactly one row, although a save never learns the ids of the rows it
\* creates and whatever earlier saves broke off half way (saveBalloons).
\* Edits made while it ran apart.
SaveReconciles == [][SaveFinish /\ edits = saving.upto => Reconciled']_vars

Recognising == run # NoRun

Shown == {i \in LiveRows(FALSE) : ~rows[i].manual} \subseteq PersistedIds(sheet)

\* A run's balloons reach the open drawing without it being reopened, unless
\* there is unsaved work to protect (the flag that protects it must not outlive
\* the work) or the news is lost: a message that did not arrive, a read that
\* failed, an older answer that came last (handleAutoBalloon, connectProgress,
\* reloadFromServer).
RunIsShown == Recognising ~> (~Recognising /\ (Shown \/ Unsaved \/ missed))

\* Auto Balloon's promise that balloons drawn by hand are kept.
HandDrawnKept ==
    [][\A i \in DOMAIN rows :
          Live(i) /\ rows[i].manual => rows'[i].state # "cleared"]_vars

\* The reload that refuses says to save, and then reopen the drawing, to see
\* the new balloons: the save deletes no balloon the sheet never held.
UnseenNotDeleted ==
    [][dirty /\ ~timer /\ ~Recognising =>
         \A i \in DOMAIN rows :
            Live(i) /\ rows[i].made = 0 => rows'[i].state # "deleted"]_vars

\* A live reload never replaces unsaved work (reloadFromServer).
ReloadKeepsWork == [][\A i \in DOMAIN loading : ReloadFinish(i) => ~Unsaved]_vars
=============================================================================
