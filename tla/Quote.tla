------------------------------- MODULE Quote -------------------------------
(***************************************************************************)
(* The quote of one part: its cost lines, the machines that could run each *)
(* machining line, and the material it is priced as.  Workspace windows    *)
(* build the options, move lines between machines and change the material; *)
(* the costing run of the consumer (external) writes lines of its own.     *)
(*                                                                         *)
(* A request reads, then writes in one transaction.  Row locks matter to   *)
(* ApplyMaterial: it writes the part's row and the material lines, in one  *)
(* order when it prices and in the other when it clears.                   *)
(***************************************************************************)
EXTENDS Naturals, Sequences, FiniteSets

CONSTANTS
    Windows,     \* workspaces open on the part
    Machines,    \* dbo.Machines
    Candidates,  \* those that can hold the part, of the right kind
    Materials,   \* dbo.Materials
    Priced,      \* those with a density and a raw material cost
    None,        \* NULL in MachineID or MaterialID
    Processes,   \* machining lines that a costing run writes
    Operations,  \* what people do; see AllOperations
    Overlaps,    \* whether the material is changed while the part is costed
    Lost,        \* whether a save's requests and answers get lost
    MaxWork,     \* bound: machining lines ever written
    MaxStock,    \* bound: material lines ever written
    MaxReads     \* bound: reads of the part that a window waits for

AllOperations == {"machine", "force", "material", "clear", "manual", "rerun"}

ASSUME QuoteAssumption ==
    /\ None \notin Machines /\ None \notin Materials
    /\ Candidates \subseteq Machines /\ Priced \subseteq Materials
    /\ Processes \in Nat \ {0}
    /\ Operations \subseteq AllOperations
    /\ Overlaps \in BOOLEAN /\ Lost \in BOOLEAN
    /\ MaxWork \in Nat /\ MaxStock \in Nat /\ MaxReads \in Nat

VARIABLES
    work,      \* machining lines, by ID: machine, and the run's own pick
    stock,     \* lines named Material Cost, by ID
    options,   \* dbo.CostingPartMachineOptions
    material,  \* MaterialID of the part
    loaded,    \* the MaterialId of the part as each window has it
    answers,   \* what windows that read the part again will be answered
    unapplied, \* history: a save changed MaterialID and priced nothing, and
               \* nothing has priced the part since
    run,       \* the costing run: none, queued, or the material it has read
    req,       \* what each window's request has done so far
    shown      \* the machining lines and options on each window's screen

partVars == <<material, loaded, answers, unapplied>>
vars == <<work, stock, options, partVars, run, req, shown>>

Idle == [op |-> "idle"]
Load == [op |-> "load"]
List == [op |-> "list"]
Reload == [op |-> "reload"]

Pick      == Machines \cup {None}
WorkLine  == [machine: Pick, pick: Pick, active: BOOLEAN]
StockLine == [material: Materials \cup {None}, manual: BOOLEAN, active: BOOLEAN]
Option    == [line: Nat, machine: Machines, selected: BOOLEAN,
              recommended: BOOLEAN, active: BOOLEAN]

Request ==
    {Idle, Load, List, Reload, [op |-> "build"]}
    \cup [op: {"write"}, read: SUBSET (Nat \X Pick)]
    \cup [op: {"apply"}, line: Nat, machine: Machines]
    \cup [op: {"price"}, material: Materials \cup {None}]
    \cup [op: {"pricing"}, material: Priced, before: Materials \cup {None}]
    \cup [op: {"clearing"}, held: SUBSET Nat]

NoRun  == [step |-> "none"]
Queued == [step |-> "queued"]

TypeOK ==
    /\ work \in Seq(WorkLine)
    /\ stock \in Seq(StockLine)
    /\ options \subseteq Option
    /\ material \in Materials \cup {None}
    /\ loaded \in [Windows -> Materials \cup {None}]
    /\ answers \in [Windows -> SUBSET (Materials \cup {None})]
    /\ unapplied \in BOOLEAN
    /\ run \in {NoRun, Queued} \cup [step: {"running"}, material: Materials \cup {None}]
    /\ req \in [Windows -> Request]
    /\ shown \in [Windows -> [lines: SUBSET Nat, offered: SUBSET (Nat \X Machines)]]
-----------------------------------------------------------------------------
(* The machine options. *)

Then(w, request) == req' = [req EXCEPT ![w] = request]

ActiveLines == {l \in DOMAIN work : work[l].active}

\* loadResults and the first half of loadMachineOptions.
LoadResults(w) ==
    /\ req[w] \in {Idle, Load}
    /\ shown' = [shown EXCEPT ![w].lines = ActiveLines]
    /\ Then(w, IF \E l \in ActiveLines : work[l].machine # None
               THEN [op |-> "build"] ELSE Idle)
    /\ UNCHANGED <<work, stock, options, partVars, run>>

Built == \E o \in options : o.active

\* What Build reads of the lines: their ID and MachineID.
LinesRead == {<<l, work[l].machine>> : l \in ActiveLines}

\* Build reads; "Options already built" unless there are none.
BuildRead(w) ==
    /\ req[w].op = "build"
    /\ Then(w, IF Built THEN List ELSE [op |-> "write", read |-> LinesRead])
    /\ UNCHANGED <<work, stock, options, partVars, run, shown>>

\* Build with Force, which no button of the workspace sends.
BuildForce(w) ==
    /\ "force" \in Operations
    /\ req[w] = Idle
    /\ Then(w, [op |-> "write", read |-> LinesRead])
    /\ UNCHANGED <<work, stock, options, partVars, run, shown>>

OptionFor(line, current, m) ==
    [line |-> line, machine |-> m, selected |-> m = current,
     recommended |-> m = current, active |-> TRUE]

\* Variant: the index leaves out the deactivated rows, as the queue's does.
UniqueAmongActive(rows) == TRUE

\* UX_CostingPartMachineOptions_Line: one row for a line and a machine, the
\* deactivated ones counted.
Unique(rows) ==
    \A o \in options, n \in rows : o.line # n.line \/ o.machine # n.machine

\* Variant: the machine a line is on is offered whatever it can hold.
OffersWithCurrent(current) == Candidates \cup {current}

Offers(current) == Candidates

\* Build writes: everything active is replaced, or the index refuses all of it.
BuildWrite(w) ==
    /\ req[w].op = "write"
    /\ LET rows == UNION {{OptionFor(r[1], r[2], m) : m \in Offers(r[2])} : r \in req[w].read}
       IN  options' = IF Unique(rows)
                      THEN {[o EXCEPT !.active = FALSE] : o \in options} \cup rows
                      ELSE options
    /\ Then(w, List)
    /\ UNCHANGED <<work, stock, partVars, run, shown>>

ListOptions(w) ==
    /\ req[w] = List
    /\ shown' = [shown EXCEPT ![w].offered =
                    {<<o.line, o.machine>> : o \in {x \in options : x.active}}]
    /\ Then(w, Idle)
    /\ UNCHANGED <<work, stock, options, partVars, run>>

\* Apply reads: the line the window shows is still there, the machine has a rate.
ApplyRead(w, l, m) ==
    /\ "machine" \in Operations
    /\ req[w] = Idle
    /\ l \in shown[w].lines /\ <<l, m>> \in shown[w].offered
    /\ work[l].active
    /\ Then(w, [op |-> "apply", line |-> l, machine |-> m])
    /\ UNCHANGED <<work, stock, options, partVars, run, shown>>

\* Variant: the options of every line lose their selection.
SelectOnPart(l, m) ==
    {IF o.active THEN [o EXCEPT !.selected = o.line = l /\ o.machine = m] ELSE o : o \in options}

Select(l, m) ==
    {IF o.active /\ o.line = l THEN [o EXCEPT !.selected = o.machine = m] ELSE o : o \in options}

\* Apply writes, by ID: the line may have been deactivated meanwhile.
ApplyWrite(w) ==
    /\ req[w].op = "apply"
    /\ work' = [work EXCEPT ![req[w].line].machine = req[w].machine]
    /\ options' = Select(req[w].line, req[w].machine)
    /\ Then(w, Load)
    /\ UNCHANGED <<stock, partVars, run, shown>>
-----------------------------------------------------------------------------
(* The material. *)

\* A window whose uncommitted transaction has written the part's row.
PartLocked(w) == \E v \in Windows \ {w} : req[v].op = "pricing"

\* A window whose uncommitted transaction has written material lines.
LinesLocked(w) == \E v \in Windows \ {w} : req[v].op = "clearing" /\ req[v].held # {}

Saving(w) == req[w].op \in {"price", "pricing", "clearing"}

\* Variant: WHERE IsManual = 0 is missing.
AnyMaterialLine == {i \in DOMAIN stock : stock[i].active}

\* The active lines that DeactivateMaterialLine matches: IsManual = 0.
MaterialLines == {i \in DOMAIN stock : stock[i].active /\ ~stock[i].manual}

Deactivated == [i \in DOMAIN stock |-> [stock[i] EXCEPT !.active = @ /\ i \notin MaterialLines]]

\* handleSave: the Update service writes MaterialID, in a transaction of its own.
\* Whether "Priced as" moved, and ApplyMaterial is to follow, is asked of the part
\* as the window has it; nor does it follow when Update's answer is lost.
SaveMaterial(w, m) ==
    /\ IF m = None THEN "clear" \in Operations ELSE "material" \in Operations
    /\ req[w] = Idle
    /\ ~PartLocked(w)
    /\ Overlaps \/ run = NoRun
    /\ material' = m
    /\ \/ /\ m # loaded[w]
          /\ Len(stock) + Cardinality({v \in Windows : Saving(v)}) < MaxStock
          /\ loaded' = [loaded EXCEPT ![w] = m]
          /\ Then(w, [op |-> "price", material |-> m])
          /\ UNCHANGED unapplied
       \/ /\ m = loaded[w] \/ Lost
          /\ unapplied' = (unapplied \/ m # material)
          /\ UNCHANGED <<loaded, req>>
    /\ UNCHANGED <<work, stock, options, answers, run, shown>>

\* ApplyMaterial never arrives: the window says so, and prices nothing later.
PriceLost(w) ==
    /\ Lost
    /\ req[w].op = "price"
    /\ unapplied' = TRUE
    /\ Then(w, Idle)
    /\ UNCHANGED <<work, stock, options, material, loaded, answers, run, shown>>

\* ApplyMaterial refuses a material without a density or a price.
PriceRefused(w) ==
    /\ req[w].op = "price"
    /\ req[w].material \in Materials \ Priced
    /\ Then(w, Idle)
    /\ UNCHANGED <<work, stock, options, partVars, run, shown>>

\* Variant: the part is not updated again.
LineOnly(w) == UNCHANGED material

\* Pricing: the part's row first ...
SetMaterial(w) == material' = req[w].material

PricePart(w) ==
    /\ req[w].op = "price"
    /\ req[w].material \in Priced
    /\ ~PartLocked(w)
    /\ SetMaterial(w)
    /\ Then(w, [op |-> "pricing", material |-> req[w].material, before |-> material])
    /\ UNCHANGED <<work, stock, options, loaded, answers, unapplied, run, shown>>

\* ... then the lines, and the commit.
PriceLine(w) ==
    /\ req[w].op = "pricing"
    /\ ~LinesLocked(w)
    /\ stock' = Append(Deactivated, [material |-> req[w].material, manual |-> FALSE,
                                     active |-> TRUE])
    /\ unapplied' = FALSE
    /\ Then(w, Reload)
    /\ UNCHANGED <<work, options, material, loaded, answers, run, shown>>

\* Clearing: the lines first ...
ClearLine(w) ==
    /\ req[w].op = "price"
    /\ req[w].material = None
    /\ ~LinesLocked(w)
    /\ stock' = Deactivated
    /\ Then(w, [op |-> "clearing", held |-> MaterialLines])
    /\ UNCHANGED <<work, options, partVars, run, shown>>

\* ... then the part's row, and the commit.
ClearPart(w) ==
    /\ req[w].op = "clearing"
    /\ ~PartLocked(w)
    /\ material' = None
    /\ unapplied' = FALSE
    /\ Then(w, Reload)
    /\ UNCHANGED <<work, stock, options, loaded, answers, run, shown>>

\* reloadPart, sent when the pricing has succeeded; nothing waits for its answer.
ReloadPart(w) ==
    /\ req[w] = Reload
    /\ ~PartLocked(w)
    /\ Cardinality(answers[w]) < MaxReads
    /\ answers' = [answers EXCEPT ![w] = @ \cup {material}]
    /\ Then(w, Load)
    /\ UNCHANGED <<work, stock, options, material, loaded, unapplied, run, shown>>

PartReloaded(w, m) ==
    /\ m \in answers[w]
    /\ loaded' = [loaded EXCEPT ![w] = m]
    /\ answers' = [answers EXCEPT ![w] = @ \ {m}]
    /\ UNCHANGED <<work, stock, options, material, unapplied, run, req, shown>>

\* Two transactions that wait for each other: the database rolls one back.
Deadlocked(w) ==
    \/ req[w].op = "clearing" /\ req[w].held # {} /\ PartLocked(w)
    \/ req[w].op = "pricing" /\ LinesLocked(w)

\* Variant: a request that was rolled back is sent again.
TriesAgain(w) ==
    Then(w, [op |-> "price",
             material |-> IF req[w].op = "pricing" THEN req[w].material ELSE None])

GivesUp(w) == Then(w, Idle)

Victim(w) ==
    /\ Deadlocked(w)
    /\ \/ /\ req[w].op = "clearing"
          /\ stock' = [i \in DOMAIN stock |->
                          [stock[i] EXCEPT !.active = @ \/ i \in req[w].held]]
          /\ UNCHANGED material
       \/ /\ req[w].op = "pricing"
          /\ material' = req[w].before
          /\ UNCHANGED stock
    /\ GivesUp(w)
    /\ UNCHANGED <<work, options, loaded, answers, unapplied, run, shown>>

\* An estimator types in a material line.
AddManualLine ==
    /\ "manual" \in Operations
    /\ Len(stock) + Cardinality({v \in Windows : Saving(v)}) < MaxStock
    /\ stock' = Append(stock, [material |-> None, manual |-> TRUE, active |-> TRUE])
    /\ UNCHANGED <<work, options, partVars, run, req, shown>>
-----------------------------------------------------------------------------
(* The costing run. *)

\* Re-run deactivates every line, hand-typed ones too; the options stay.
RerunCosting ==
    /\ "rerun" \in Operations
    /\ run = NoRun
    /\ \A v \in Windows : req[v].op = "clearing" => req[v].held = {}
    /\ Overlaps \/ \A v \in Windows : ~Saving(v)
    /\ Len(work) + Processes <= MaxWork /\ Len(stock) < MaxStock
    /\ work' = [l \in DOMAIN work |-> [work[l] EXCEPT !.active = FALSE]]
    /\ stock' = [i \in DOMAIN stock |-> [stock[i] EXCEPT !.active = FALSE]]
    /\ run' = Queued
    /\ UNCHANGED <<options, partVars, req, shown>>

RunStart ==
    /\ run = Queued
    /\ run' = [step |-> "running", material |-> material]
    /\ UNCHANGED <<work, stock, options, partVars, req, shown>>

MachiningLines(picks) ==
    [l \in 1..Processes |-> [machine |-> picks[l], pick |-> picks[l], active |-> TRUE]]

\* The run appends a line for each process, and one for a material it can price.
RunFinish ==
    /\ run.step = "running"
    /\ \E picks \in [1..Processes -> Pick] : work' = work \o MachiningLines(picks)
    /\ Len(stock) < MaxStock
    /\ stock' = IF run.material \in Priced
                THEN Append(stock, [material |-> run.material, manual |-> FALSE,
                                    active |-> TRUE])
                ELSE stock
    /\ run' = NoRun
    /\ unapplied' = FALSE
    /\ UNCHANGED <<options, material, loaded, answers, req, shown>>
-----------------------------------------------------------------------------
Init ==
    /\ \E picks \in [1..Processes -> Pick] : work = MachiningLines(picks)
    /\ material \in Priced \cup {None}
    /\ stock = IF material = None THEN << >>
               ELSE <<[material |-> material, manual |-> FALSE, active |-> TRUE]>>
    /\ loaded = [w \in Windows |-> material]
    /\ answers = [w \in Windows |-> {}]
    /\ unapplied = FALSE
    /\ options = {}
    /\ run = NoRun
    /\ req = [w \in Windows |-> Load]
    /\ shown = [w \in Windows |-> [lines |-> {}, offered |-> {}]]

Window(w) ==
    \/ LoadResults(w) \/ BuildRead(w) \/ BuildForce(w) \/ BuildWrite(w) \/ ListOptions(w)
    \/ \E l \in DOMAIN work, m \in Machines : ApplyRead(w, l, m)
    \/ ApplyWrite(w)
    \/ \E m \in Materials \cup {None} : SaveMaterial(w, m)
    \/ PriceRefused(w) \/ PriceLost(w) \/ PricePart(w) \/ PriceLine(w)
    \/ ClearLine(w) \/ ClearPart(w) \/ Victim(w)
    \/ ReloadPart(w)
    \/ \E m \in answers[w] : PartReloaded(w, m)

Costing == RerunCosting \/ RunStart \/ RunFinish

Next == (\E w \in Windows : Window(w)) \/ AddManualLine \/ Costing

\* A save that began is answered; the database breaks deadlocks.
Fairness ==
    \A w \in Windows :
        WF_vars(\/ PriceRefused(w) \/ PricePart(w) \/ PriceLine(w)
                \/ ClearLine(w) \/ ClearPart(w) \/ Victim(w))

Spec == Init /\ [][Next]_vars

FairSpec == Spec /\ Fairness
-----------------------------------------------------------------------------
(* Properties. *)

Active(o) == o.active /\ work[o.line].active

(***************************************************************************)
(* The option marked selected is the machine its line is priced on,        *)
(* whichever windows built, forced a build or applied in between.  Build   *)
(* marks from a read that may be old, Apply writes line and options apart. *)
(***************************************************************************)
SelectionAgrees ==
    \A o \in options : Active(o) => o.selected = (work[o.line].machine = o.machine)

(***************************************************************************)
(* The recommended option is the run's own pick even after somebody moved  *)
(* the line.  Build takes the line's current machine for the pick: what    *)
(* keeps this true is that a second build is refused by the index.         *)
(***************************************************************************)
RecommendationKept ==
    \A o \in options : Active(o) => o.recommended = (work[o.line].pick = o.machine)

MachineMade == {i \in DOMAIN stock : stock[i].active /\ ~stock[i].manual}

Quiet == run = NoRun /\ \A w \in Windows : ~Saving(w)

OneLineOfItsMaterial ==
    /\ Cardinality(MachineMade) = 1
    /\ \A i \in MachineMade : stock[i].material = material

(***************************************************************************)
(* When no save or costing run is under way, a part carries at most one    *)
(* machine-made material line; if its material is priced it carries one,   *)
(* of that material, unless a save changed MaterialID and then did not     *)
(* price it: it compared with an old read of the part, or the call was     *)
(* lost.  A save is two transactions, and windows save at the same time.   *)
(***************************************************************************)
PricedWhenApplied ==
    Quiet =>
        /\ Cardinality(MachineMade) <= 1
        /\ (material \in Priced /\ ~unapplied) => OneLineOfItsMaterial

(***************************************************************************)
(* A saved choice of "Priced as" is what the quote is priced as (the       *)
(* remarks on ApplyMaterial, CostingPartsEndpoint.cs: "Picking a material  *)
(* used to record MaterialID and nothing else, so the quote kept whatever  *)
(* material cost the pipeline had produced").                              *)
(***************************************************************************)
PricedAsChosen == (Quiet /\ material \in Priced) => OneLineOfItsMaterial

(***************************************************************************)
(* Changing the material never drops a line an estimator typed in, not     *)
(* even when the transaction is rolled back; only a costing re-run does.   *)
(***************************************************************************)
ManualLinesKept ==
    [][\A i \in DOMAIN stock :
          stock[i].manual /\ stock[i].active /\ ~stock'[i].active => run' = Queued /\ run = NoRun]_vars

(***************************************************************************)
(* Every save of the material ends: a clear and a pricing that wait for    *)
(* each other's rows are separated by the database, and not for ever anew. *)
(***************************************************************************)
SavesEnd == \A w \in Windows : []<>~Saving(w)

(***************************************************************************)
(* Every machining line on the screen offers the candidate machines        *)
(* (CostingWorkspace.ts: "every machining line offers the alternatives").  *)
(***************************************************************************)
EveryLineOffered ==
    \A w \in Windows : (req[w] = Idle /\ run = NoRun) =>
        \A l \in shown[w].lines, m \in Candidates :
            (work[l].active /\ work[l].machine # None) => <<l, m>> \in shown[w].offered

(***************************************************************************)
(* A part whose material was cleared carries no machine-made material line *)
(* (CostingPartsEndpoint.cs: "so this quote has no material cost").        *)
(***************************************************************************)
ClearedHasNoCost ==
    (Quiet /\ material = None) => MachineMade = {}
=============================================================================
