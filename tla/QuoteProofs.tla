---------------------------- MODULE QuoteProofs ----------------------------
(***************************************************************************)
(* Proofs about the quote of a part, for any number of windows, machines,  *)
(* materials and lines.                                                    *)
(***************************************************************************)
EXTENDS Quote, FiniteSetTheorems, SequenceTheorems, TLAPS

USE DEF partVars

(***************************************************************************)
(* Types.                                                                  *)
(***************************************************************************)

\* What deactivating the material lines does to each of them.
LEMMA DeactivatedLines ==
    ASSUME stock \in Seq(StockLine)
    PROVE  /\ Deactivated \in Seq(StockLine)
           /\ DOMAIN Deactivated = DOMAIN stock
           /\ Len(Deactivated) = Len(stock)
           /\ \A i \in DOMAIN stock :
                 /\ Deactivated[i].manual = stock[i].manual
                 /\ Deactivated[i].material = stock[i].material
                 /\ Deactivated[i].active <=> stock[i].active /\ stock[i].manual
PROOF
  <1>1. \A i \in DOMAIN stock : stock[i] \in StockLine
    OBVIOUS
  <1>2. \A i \in DOMAIN stock : Deactivated[i] \in StockLine
    BY <1>1 DEF Deactivated, StockLine
  <1>3. QED
    BY <1>1, <1>2 DEF Deactivated, StockLine, MaterialLines

LEMMA Elements ==
    ASSUME TypeOK
    PROVE  /\ \A l \in DOMAIN work : work[l] \in WorkLine
           /\ \A i \in DOMAIN stock : stock[i] \in StockLine
           /\ DOMAIN work = 1..Len(work) /\ Len(work) \in Nat
           /\ DOMAIN stock = 1..Len(stock) /\ Len(stock) \in Nat
  BY DEF TypeOK

\* The rows that Build inserts are options.
LEMMA RowsAreOptions ==
    ASSUME NEW read \in SUBSET (Nat \X Pick)
    PROVE  UNION {{OptionFor(r[1], r[2], m) : m \in Offers(r[2])} : r \in read} \subseteq Option
PROOF
  <1>1. SUFFICES ASSUME NEW r \in read, NEW m \in Offers(r[2])
                 PROVE  OptionFor(r[1], r[2], m) \in Option
    OBVIOUS
  <1>2. r[1] \in Nat /\ m \in Machines
    BY QuoteAssumption DEF Offers
  <1>3. (m = r[2]) \in BOOLEAN
    OBVIOUS
  <1>4. QED
    BY <1>2, <1>3 DEF OptionFor, Option

\* The lines of a costing run.
LEMMA RunLines ==
    ASSUME NEW picks \in [1..Processes -> Pick]
    PROVE  /\ MachiningLines(picks) \in Seq(WorkLine)
           /\ Len(MachiningLines(picks)) = Processes
           /\ \A l \in 1..Processes : /\ MachiningLines(picks)[l].machine = picks[l]
                                      /\ MachiningLines(picks)[l].pick = picks[l]
  BY QuoteAssumption DEF MachiningLines, WorkLine

LEMMA TypeInit == Init => TypeOK
PROOF
  <1> SUFFICES ASSUME Init PROVE TypeOK
    OBVIOUS
  <1>1. work \in Seq(WorkLine)
    BY RunLines DEF Init
  <1>2. material \in Materials \cup {None}
    BY QuoteAssumption DEF Init
  <1>3. stock \in Seq(StockLine)
    <2>1. [material |-> material, manual |-> FALSE, active |-> TRUE] \in StockLine
      BY <1>2 DEF StockLine
    <2>2. QED
      BY <2>1 DEF Init
  <1>4. req \in [Windows -> Request]
    BY DEF Init, Request
  <1>5. QED
    BY <1>1, <1>2, <1>3, <1>4 DEF Init, TypeOK, NoRun

\* A request that a window moves on to leaves the others alone.
LEMMA ThenType ==
    ASSUME TypeOK, NEW w \in Windows, NEW r \in Request, Then(w, r)
    PROVE  req' \in [Windows -> Request]
  BY DEF TypeOK, Then

LEMMA TypeNext == TypeOK /\ [Next]_vars => TypeOK'
PROOF
  <1> SUFFICES ASSUME TypeOK, [Next]_vars PROVE TypeOK'
    OBVIOUS
  <1>w. ASSUME NEW w \in Windows, Window(w) PROVE TypeOK'
    <2>0. /\ {Idle, Load, List, Reload, [op |-> "build"]} \subseteq Request
          /\ ActiveLines \in SUBSET Nat
          /\ LinesRead \in SUBSET (Nat \X Pick)
      <3>1. {Idle, Load, List, Reload, [op |-> "build"]} \subseteq Request
        BY DEF Request
      <3>2. \A l \in DOMAIN work : l \in Nat /\ work[l].machine \in Pick
        BY Elements DEF WorkLine
      <3>3. QED
        BY <3>1, <3>2 DEF ActiveLines, LinesRead
    <2>1. CASE LoadResults(w)
      BY <2>1, <2>0, ThenType DEF LoadResults, TypeOK
    <2>2. CASE BuildRead(w)
      <3>1. [op |-> "write", read |-> LinesRead] \in Request
        BY <2>0 DEF Request
      <3>2. QED
        BY <2>2, <2>0, <3>1, ThenType DEF BuildRead, TypeOK
    <2>3. CASE BuildForce(w)
      <3>1. [op |-> "write", read |-> LinesRead] \in Request
        BY <2>0 DEF Request
      <3>2. QED
        BY <2>3, <3>1, ThenType DEF BuildForce, TypeOK
    <2>4. CASE BuildWrite(w)
      <3>1. req[w].read \in SUBSET (Nat \X Pick)
        BY <2>4 DEF BuildWrite, TypeOK, Request, Idle, Load, List, Reload
      <3>a. options \subseteq Option
        BY DEF TypeOK
      <3>2. {[o EXCEPT !.active = FALSE] : o \in options} \subseteq Option
        BY <3>a DEF Option
      <3>3. options' \subseteq Option
        BY <2>4, <3>1, <3>2, RowsAreOptions DEF BuildWrite, TypeOK
      <3>4. QED
        BY <2>4, <2>0, <3>3, ThenType DEF BuildWrite, TypeOK
    <2>5. CASE ListOptions(w)
      <3>1. {<<o.line, o.machine>> : o \in {x \in options : x.active}} \in SUBSET (Nat \X Machines)
        BY DEF TypeOK, Option
      <3>2. QED
        BY <2>5, <2>0, <3>1, ThenType DEF ListOptions, TypeOK
    <2>6. ASSUME NEW l \in DOMAIN work, NEW m \in Machines, ApplyRead(w, l, m) PROVE TypeOK'
      <3>1. [op |-> "apply", line |-> l, machine |-> m] \in Request
        BY DEF Request, TypeOK
      <3>2. QED
        BY <2>6, <3>1, ThenType DEF ApplyRead, TypeOK
    <2>7. CASE ApplyWrite(w)
      <3>1. req[w].line \in Nat /\ req[w].machine \in Machines
        BY <2>7 DEF ApplyWrite, TypeOK, Request, Idle, Load, List, Reload
      <3>2. work' \in Seq(WorkLine)
        <4>1. \A l \in DOMAIN work : [work[l] EXCEPT !.machine = req[w].machine] \in WorkLine
          BY <3>1, Elements DEF WorkLine, Pick
        <4>2. work' \in [DOMAIN work -> WorkLine]
          BY <2>7, <4>1, Elements DEF ApplyWrite
        <4>3. QED
          BY <4>2, Elements
      <3>3. options' \subseteq Option
        <4>1. ASSUME NEW o \in options
              PROVE  /\ o \in Option
                     /\ [o EXCEPT !.selected = o.machine = req[w].machine] \in Option
          <5>1. o \in Option
            BY DEF TypeOK
          <5>2. (o.machine = req[w].machine) \in BOOLEAN
            OBVIOUS
          <5>3. QED
            BY <5>1, <5>2 DEF Option
        <4>2. Select(req[w].line, req[w].machine) \subseteq Option
          BY <4>1, Zenon DEF Select
        <4>3. QED
          BY <2>7, <4>2 DEF ApplyWrite
      <3>4. QED
        BY <2>7, <2>0, <3>2, <3>3, ThenType DEF ApplyWrite, TypeOK
    <2>8. ASSUME NEW m \in Materials \cup {None}, SaveMaterial(w, m) PROVE TypeOK'
      <3>1. [op |-> "price", material |-> m] \in Request
        BY DEF Request
      <3>2. QED
        BY <2>8, <3>1, ThenType DEF SaveMaterial, TypeOK
    <2>9. CASE PriceRefused(w)
      BY <2>9, <2>0, ThenType DEF PriceRefused, TypeOK
    <2>10. CASE PricePart(w)
      <3>1. req[w].material \in Priced /\ req[w].material \in Materials
        BY <2>10, QuoteAssumption DEF PricePart
      <3>2. [op |-> "pricing", material |-> req[w].material, before |-> material] \in Request
        BY <3>1 DEF Request, TypeOK
      <3>3. QED
        BY <2>10, <3>1, <3>2, ThenType DEF PricePart, SetMaterial, TypeOK
    <2>11. CASE PriceLine(w)
      <3>1. req[w].material \in Materials
        BY <2>11, QuoteAssumption DEF PriceLine, TypeOK, Request, Idle, Load, List, Reload
      <3>2. [material |-> req[w].material, manual |-> FALSE, active |-> TRUE] \in StockLine
        BY <3>1 DEF StockLine
      <3>3. stock' \in Seq(StockLine)
        BY <2>11, <3>2, DeactivatedLines DEF PriceLine, TypeOK
      <3>4. QED
        BY <2>11, <2>0, <3>3, ThenType DEF PriceLine, TypeOK
    <2>12. CASE ClearLine(w)
      <3>1. [op |-> "clearing", held |-> MaterialLines] \in Request
        BY DEF Request, MaterialLines, TypeOK
      <3>2. QED
        BY <2>12, <3>1, ThenType, DeactivatedLines DEF ClearLine, TypeOK
    <2>13. CASE ClearPart(w)
      BY <2>13, <2>0, ThenType DEF ClearPart, TypeOK
    <2>14. CASE Victim(w)
      <3>1. stock' \in Seq(StockLine) /\ material' \in Materials \cup {None}
        <4>1. CASE /\ req[w].op = "clearing"
                   /\ stock' = [i \in DOMAIN stock |->
                          [stock[i] EXCEPT !.active = @ \/ i \in req[w].held]]
                   /\ UNCHANGED material
          <5>1. \A i \in DOMAIN stock : stock'[i] \in StockLine
            BY <4>1, Elements DEF StockLine
          <5>2. stock \in Seq(StockLine) /\ material \in Materials \cup {None}
            BY DEF TypeOK
          <5>3. QED
            BY <4>1, <5>1, <5>2
        <4>2. CASE /\ req[w].op = "pricing"
                   /\ material' = req[w].before
                   /\ UNCHANGED stock
          BY <4>2 DEF TypeOK, Request, Idle, Load, List, Reload
        <4>3. QED
          BY <2>14, <4>1, <4>2 DEF Victim
      <3>2. QED
        BY <2>14, <2>0, <3>1, ThenType DEF Victim, GivesUp, TypeOK
    <2>15. CASE PriceLost(w)
      BY <2>15, <2>0, ThenType DEF PriceLost, TypeOK
    <2>16. CASE ReloadPart(w)
      BY <2>16, <2>0, ThenType DEF ReloadPart, TypeOK
    <2>17. ASSUME NEW m \in answers[w], PartReloaded(w, m) PROVE TypeOK'
      <3>1. m \in Materials \cup {None}
        BY DEF TypeOK
      <3>2. QED
        BY <2>17, <3>1 DEF PartReloaded, TypeOK
    <2>18. QED
      BY <1>w, <2>1, <2>2, <2>3, <2>4, <2>5, <2>6, <2>7, <2>8, <2>9, <2>10, <2>11, <2>12,
         <2>13, <2>14, <2>15, <2>16, <2>17 DEF Window
  <1>m. ASSUME AddManualLine PROVE TypeOK'
    <2>1. [material |-> None, manual |-> TRUE, active |-> TRUE] \in StockLine
      BY DEF StockLine
    <2>2. QED
      BY <1>m, <2>1 DEF AddManualLine, TypeOK
  <1>r. ASSUME RerunCosting PROVE TypeOK'
    <2>1. \A l \in DOMAIN work : [work[l] EXCEPT !.active = FALSE] \in WorkLine
      BY Elements DEF WorkLine
    <2>2. \A i \in DOMAIN stock : [stock[i] EXCEPT !.active = FALSE] \in StockLine
      BY Elements DEF StockLine
    <2>3. work' \in Seq(WorkLine)
      BY <1>r, <2>1, Elements DEF RerunCosting
    <2>4. stock' \in Seq(StockLine)
      BY <1>r, <2>2, Elements DEF RerunCosting
    <2>5. QED
      BY <1>r, <2>3, <2>4 DEF RerunCosting, TypeOK
  <1>s. ASSUME RunStart PROVE TypeOK'
    BY <1>s DEF RunStart, TypeOK
  <1>f. ASSUME RunFinish PROVE TypeOK'
    <2>1. work' \in Seq(WorkLine)
      BY <1>f, RunLines, ConcatProperties DEF RunFinish, TypeOK
    <2>2. run.material \in Materials \cup {None}
      BY <1>f DEF RunFinish, TypeOK, NoRun, Queued
    <2>3. [material |-> run.material, manual |-> FALSE, active |-> TRUE] \in StockLine
      BY <2>2 DEF StockLine
    <2>4. stock' \in Seq(StockLine)
      BY <1>f, <2>3 DEF RunFinish, TypeOK
    <2>5. QED
      BY <1>f, <2>1, <2>4 DEF RunFinish, TypeOK
  <1>u. CASE UNCHANGED vars
    BY <1>u DEF vars, TypeOK
  <1>q. QED
    BY <1>w, <1>m, <1>r, <1>s, <1>f, <1>u DEF Next, Costing

\* The quote's variables keep their types: a line, an option and a request is
\* always one that the code can have written.
THEOREM QuoteTypeCorrect == Spec => []TypeOK
  BY TypeInit, TypeNext, PTL DEF Spec
-----------------------------------------------------------------------------
(***************************************************************************)
(* The machine options.  A line is priced on a machine other than the      *)
(* run's pick only once options were built for it; since options are never *)
(* deleted and the index keeps one for a line and a machine, a Build whose *)
(* read is out of date is refused.                                         *)
(***************************************************************************)

HasOptions(l) == \E o \in options : o.line = l

OptionsFit == \A o \in options : o.line \in DOMAIN work /\ o.machine \in Candidates

OptionsMarked ==
    \A o \in options : o.active =>
        /\ o.selected = (work[o.line].machine = o.machine)
        /\ o.recommended = (work[o.line].pick = o.machine)

MovesFollowOptions ==
    \A l \in DOMAIN work : work[l].machine = work[l].pick \/ HasOptions(l)

ReadsOutOfDate ==
    \A w \in Windows : req[w].op = "write" =>
        \A r \in req[w].read :
            /\ r[1] \in DOMAIN work
            /\ \/ r[2] = work[r[1]].machine /\ r[2] = work[r[1]].pick
               \/ HasOptions(r[1])

AppliesOffered ==
    \A w \in Windows : req[w].op = "apply" =>
        req[w].line \in DOMAIN work /\ HasOptions(req[w].line)

ShownWereBuilt == \A w \in Windows : \A x \in shown[w].offered : HasOptions(x[1])

OptionsInv ==
    /\ OptionsFit /\ OptionsMarked /\ MovesFollowOptions
    /\ ReadsOutOfDate /\ AppliesOffered /\ ShownWereBuilt

(***************************************************************************)
(* The material, when nobody changes it while the part is costed.          *)
(***************************************************************************)

\* A save that will still write the material line, or drop it.
Due(w) ==
    \/ req[w].op = "price" /\ req[w].material \in Priced \cup {None}
    \/ req[w].op \in {"pricing", "clearing"}

OneLineOf(m) == \E i \in DOMAIN stock : MachineMade = {i} /\ stock[i].material = m

PricingHoldsPart ==
    /\ \A w \in Windows : req[w].op = "pricing" => material = req[w].material
    /\ \A v, w \in Windows : req[v].op = "pricing" /\ req[w].op = "pricing" => v = w

RunsApart ==
    /\ run # NoRun => MachineMade = {} /\ \A w \in Windows : ~Saving(w)
    /\ run.step = "running" => run.material = material

LineMatches ==
    (material \in Priced /\ run = NoRun /\ ~unapplied /\ \A w \in Windows : ~Due(w))
        => OneLineOf(material)

\* The lines an uncommitted clear has taken away are the only ones there can be.
AtMostOne ==
    /\ \A i, j \in MachineMade : i = j
    /\ \A w \in Windows : (req[w].op = "clearing" /\ req[w].held # {}) =>
          /\ MachineMade = {}
          /\ \A i, j \in req[w].held : i = j
          /\ \A v \in Windows \ {w} : req[v].op = "clearing" => req[v].held = {}

MaterialInv == PricingHoldsPart /\ RunsApart /\ LineMatches /\ AtMostOne
-----------------------------------------------------------------------------
(***************************************************************************)
(* The options invariant holds and is kept.                                *)
(***************************************************************************)

LEMMA OptionsInit == Init => OptionsInv
PROOF
  <1> SUFFICES ASSUME Init PROVE OptionsInv
    OBVIOUS
  <1>1. PICK picks \in [1..Processes -> Pick] : work = MachiningLines(picks)
    BY DEF Init
  <1>2. \A l \in DOMAIN work : work[l].machine = work[l].pick
    BY <1>1 DEF MachiningLines
  <1>3. QED
    BY <1>2 DEF Init, OptionsInv, OptionsFit, OptionsMarked, MovesFollowOptions, ReadsOutOfDate,
       AppliesOffered, ShownWereBuilt, Load

\* The lines there were are on the machines they were on, new ones on the run's pick.
SameMachines ==
    /\ \A l \in DOMAIN work : /\ l \in DOMAIN work'
                              /\ work'[l].machine = work[l].machine
                              /\ work'[l].pick = work[l].pick
    /\ \A l \in DOMAIN work' \ DOMAIN work : work'[l].machine = work'[l].pick

\* A step that neither builds, lists nor applies options.
LEMMA QuietStep ==
    ASSUME OptionsInv, SameMachines, UNCHANGED options,
           \A v \in Windows : req'[v] = req[v] \/ req'[v].op \notin {"write", "apply"},
           \A v \in Windows : shown'[v].offered = shown[v].offered
    PROVE  OptionsInv'
PROOF
  <1>1. \A l : HasOptions(l)' <=> HasOptions(l)
    BY DEF HasOptions
  <1>2. OptionsFit'
    BY DEF OptionsInv, OptionsFit, SameMachines
  <1>3. OptionsMarked'
    BY DEF OptionsInv, OptionsFit, OptionsMarked, SameMachines
  <1>4. MovesFollowOptions'
    BY <1>1 DEF OptionsInv, MovesFollowOptions, SameMachines
  <1>5. ReadsOutOfDate'
    BY <1>1 DEF OptionsInv, ReadsOutOfDate, SameMachines
  <1>6. AppliesOffered'
    BY <1>1 DEF OptionsInv, AppliesOffered, SameMachines
  <1>7. ShownWereBuilt'
    BY <1>1 DEF OptionsInv, ShownWereBuilt
  <1>8. QED
    BY <1>2, <1>3, <1>4, <1>5, <1>6, <1>7 DEF OptionsInv

\* What Build has just read is what the lines are.
LEMMA ReadNow ==
    ASSUME TypeOK, OptionsInv, NEW w \in Windows,
           Then(w, [op |-> "write", read |-> LinesRead]),
           UNCHANGED <<work, options, shown>>
    PROVE  OptionsInv'
PROOF
  <1>1. \A l : HasOptions(l)' <=> HasOptions(l)
    BY DEF HasOptions
  <1>2. OptionsFit' /\ OptionsMarked' /\ MovesFollowOptions' /\ ShownWereBuilt'
    BY <1>1 DEF OptionsInv, OptionsFit, OptionsMarked, MovesFollowOptions, ShownWereBuilt
  <1>3. \A v \in Windows : v # w => req'[v] = req[v]
    BY DEF Then, TypeOK
  <1>4. req'[w] = [op |-> "write", read |-> LinesRead]
    BY DEF Then, TypeOK
  <1>5. \A r \in LinesRead : /\ r[1] \in DOMAIN work
                            /\ \/ r[2] = work[r[1]].machine /\ r[2] = work[r[1]].pick
                               \/ HasOptions(r[1])
    BY DEF LinesRead, ActiveLines, OptionsInv, MovesFollowOptions
  <1>6. ReadsOutOfDate'
    BY <1>1, <1>3, <1>4, <1>5 DEF OptionsInv, ReadsOutOfDate
  <1>7. AppliesOffered'
    BY <1>1, <1>3, <1>4 DEF OptionsInv, AppliesOffered
  <1>8. QED
    BY <1>2, <1>6, <1>7 DEF OptionsInv

\* A build that the index lets through marks every option it writes rightly.
LEMMA BuildWriteKeeps ==
    ASSUME TypeOK, OptionsInv, NEW w \in Windows, BuildWrite(w)
    PROVE  OptionsInv'
PROOF
  <1> DEFINE rows == UNION {{OptionFor(r[1], r[2], m) : m \in Offers(r[2])} : r \in req[w].read}
             old  == {[o EXCEPT !.active = FALSE] : o \in options}
  <1>1. req[w].op = "write" /\ UNCHANGED <<work, shown>>
    BY DEF BuildWrite
  <1>2. \A v \in Windows : req'[v] = req[v] \/ req'[v].op \notin {"write", "apply"}
    BY DEF BuildWrite, Then, List, TypeOK
  <1>3. CASE ~Unique(rows)
    <2>1. UNCHANGED options
      BY <1>3 DEF BuildWrite
    <2>2. SameMachines
      BY <1>1 DEF SameMachines
    <2>3. QED
      BY <1>1, <1>2, <2>1, <2>2, QuietStep
  <1>4. CASE Unique(rows)
    <2>1. options' = old \cup rows
      BY <1>4 DEF BuildWrite
    <2>2. \A o \in old : /\ ~o.active
                        /\ \E p \in options : o.line = p.line /\ o.machine = p.machine
      BY DEF TypeOK, Option
    <2>3. \A l : HasOptions(l) => HasOptions(l)'
      <3>1. SUFFICES ASSUME NEW o \in options
                     PROVE  \E n \in options' : n.line = o.line
        BY DEF HasOptions
      <3>2. [o EXCEPT !.active = FALSE].line = o.line
        BY DEF TypeOK, Option
      <3>3. QED
        BY <2>1, <3>2
    <2>4. ASSUME NEW r \in req[w].read, NEW m \in Candidates
          PROVE  ~HasOptions(r[1])
      <3>1. SUFFICES ASSUME NEW o \in options, o.line = r[1] PROVE FALSE
        BY DEF HasOptions
      <3>2. o.machine \in Offers(r[2])
        BY DEF Offers, OptionsInv, OptionsFit
      <3>3. OptionFor(r[1], r[2], o.machine) \in rows
        BY <3>2
      <3>4. /\ OptionFor(r[1], r[2], o.machine).line = o.line
            /\ OptionFor(r[1], r[2], o.machine).machine = o.machine
        BY <3>1 DEF OptionFor
      <3>5. QED
        BY <1>4, <3>1, <3>3, <3>4 DEF Unique
    <2>5. \A n \in rows : \E r \in req[w].read : \E m \in Candidates : n = OptionFor(r[1], r[2], m)
      BY DEF Offers
    <2>6. \A n \in rows :
              /\ n.line \in DOMAIN work /\ n.machine \in Candidates
              /\ n.selected = (work[n.line].machine = n.machine)
              /\ n.recommended = (work[n.line].pick = n.machine)
      <3>1. SUFFICES ASSUME NEW n \in rows
                     PROVE  /\ n.line \in DOMAIN work /\ n.machine \in Candidates
                            /\ n.selected = (work[n.line].machine = n.machine)
                            /\ n.recommended = (work[n.line].pick = n.machine)
        OBVIOUS
      <3>2. PICK r \in req[w].read, m \in Candidates : n = OptionFor(r[1], r[2], m)
        BY <2>5
      <3>3. r[1] \in DOMAIN work /\ r[2] = work[r[1]].machine /\ r[2] = work[r[1]].pick
        BY <1>1, <2>4 DEF OptionsInv, ReadsOutOfDate
      <3>4. /\ n.line = r[1] /\ n.machine = m
            /\ n.selected = (m = r[2]) /\ n.recommended = (m = r[2])
        BY <3>2 DEF OptionFor
      <3>5. QED
        BY <3>3, <3>4
    <2>7. OptionsFit'
      BY <1>1, <2>1, <2>2, <2>6 DEF OptionsInv, OptionsFit
    <2>8. OptionsMarked'
      BY <1>1, <2>1, <2>2, <2>6 DEF OptionsMarked
    <2>9. MovesFollowOptions' /\ ShownWereBuilt'
      BY <1>1, <2>3 DEF OptionsInv, MovesFollowOptions, ShownWereBuilt
    <2>10. ReadsOutOfDate' /\ AppliesOffered'
      BY <1>1, <1>2, <2>3 DEF OptionsInv, ReadsOutOfDate, AppliesOffered
    <2>11. QED
      BY <2>7, <2>8, <2>9, <2>10 DEF OptionsInv
  <1>5. QED
    BY <1>3, <1>4

\* Moving a line marks all of its active options anew.
LEMMA ApplyWriteKeeps ==
    ASSUME TypeOK, OptionsInv, NEW w \in Windows, ApplyWrite(w)
    PROVE  OptionsInv'
PROOF
  <1> DEFINE line == req[w].line
             machine == req[w].machine
  <1>1. req[w].op = "apply" /\ UNCHANGED shown
    BY DEF ApplyWrite
  <1>2. line \in DOMAIN work /\ HasOptions(line)
    BY <1>1 DEF OptionsInv, AppliesOffered
  <1>3. \A v \in Windows : req'[v] = req[v] \/ req'[v].op \notin {"write", "apply"}
    BY DEF ApplyWrite, Then, Load, TypeOK
  <1>4. /\ DOMAIN work' = DOMAIN work
        /\ work'[line].machine = machine /\ work'[line].pick = work[line].pick
        /\ \A l \in DOMAIN work : l # line => work'[l] = work[l]
    BY <1>2, Elements DEF ApplyWrite, WorkLine
  <1> DEFINE marked(o) == [o EXCEPT !.selected = o.machine = machine]
  <1>5. /\ \A o \in options :
              /\ marked(o).line = o.line /\ marked(o).machine = o.machine
              /\ marked(o).active = o.active /\ marked(o).recommended = o.recommended
              /\ marked(o).selected = (o.machine = machine)
        /\ options' = {IF o.active /\ o.line = line THEN marked(o) ELSE o : o \in options}
    BY DEF TypeOK, Option, ApplyWrite, Select
  <1> HIDE DEF marked
  <1>6. \A n \in options' : \E o \in options :
            /\ n.line = o.line /\ n.machine = o.machine
            /\ n.active = o.active /\ n.recommended = o.recommended
            /\ IF o.active /\ o.line = line THEN n.selected = (o.machine = machine)
                                           ELSE n.selected = o.selected
    BY <1>5
  <1>7. \A l : HasOptions(l) => HasOptions(l)'
    BY <1>5 DEF HasOptions
  <1>8. OptionsFit'
    BY <1>4, <1>6 DEF OptionsInv, OptionsFit
  <1>9. OptionsMarked'
    <2>1. SUFFICES ASSUME NEW n \in options', n.active
                   PROVE  /\ n.selected = (work'[n.line].machine = n.machine)
                          /\ n.recommended = (work'[n.line].pick = n.machine)
      BY DEF OptionsMarked
    <2>2. PICK o \in options :
              /\ n.line = o.line /\ n.machine = o.machine
              /\ n.active = o.active /\ n.recommended = o.recommended
              /\ IF o.active /\ o.line = line THEN n.selected = (o.machine = machine)
                                             ELSE n.selected = o.selected
      BY <1>6
    <2>3. /\ o.line \in DOMAIN work
          /\ o.selected = (work[o.line].machine = o.machine)
          /\ o.recommended = (work[o.line].pick = o.machine)
      BY <2>1, <2>2 DEF OptionsInv, OptionsFit, OptionsMarked
    <2>4. CASE o.line = line
      <3>1. n.selected = (o.machine = machine)
        BY <2>1, <2>2, <2>4
      <3>2. QED
        BY <1>4, <2>2, <2>3, <2>4, <3>1
    <2>5. CASE o.line # line
      BY <1>4, <2>2, <2>3, <2>5
    <2>6. QED
      BY <2>4, <2>5
  <1>10. MovesFollowOptions'
    BY <1>2, <1>4, <1>7 DEF OptionsInv, MovesFollowOptions
  <1>11. ShownWereBuilt'
    BY <1>1, <1>7 DEF OptionsInv, ShownWereBuilt
  <1>12. ReadsOutOfDate'
    BY <1>2, <1>3, <1>4, <1>7 DEF OptionsInv, ReadsOutOfDate
  <1>13. AppliesOffered'
    BY <1>3, <1>4, <1>7 DEF OptionsInv, AppliesOffered
  <1>14. QED
    BY <1>8, <1>9, <1>10, <1>11, <1>12, <1>13 DEF OptionsInv

LEMMA OptionsNext == TypeOK /\ OptionsInv /\ [Next]_vars => OptionsInv'
PROOF
  <1> SUFFICES ASSUME TypeOK, OptionsInv, [Next]_vars PROVE OptionsInv'
    OBVIOUS
  <1>0. UNCHANGED work => SameMachines
    BY DEF SameMachines
  <1>w. ASSUME NEW w \in Windows, Window(w) PROVE OptionsInv'
    \* A window that moves on to a request which neither writes nor applies options.
    <2>0. ASSUME NEW r, r.op \notin {"write", "apply"}, Then(w, r),
                 UNCHANGED <<work, options>>,
                 \A v \in Windows : shown'[v].offered = shown[v].offered
          PROVE  OptionsInv'
      <3>1. \A v \in Windows : req'[v] = req[v] \/ req'[v].op \notin {"write", "apply"}
        BY <2>0 DEF Then, TypeOK
      <3>2. QED
        BY <1>0, <2>0, <3>1, QuietStep
    <2>1. CASE LoadResults(w)
      <3>1. PICK r : r.op \notin {"write", "apply"} /\ Then(w, r)
        BY <2>1 DEF LoadResults, Idle
      <3>2. \A v \in Windows : shown'[v].offered = shown[v].offered
        BY <2>1 DEF LoadResults, TypeOK
      <3>3. QED
        BY <2>0, <2>1, <3>1, <3>2 DEF LoadResults
    <2>2. CASE BuildRead(w)
      <3>1. CASE Built
        <4>1. Then(w, List) /\ UNCHANGED <<work, options, shown>>
          BY <2>2, <3>1 DEF BuildRead
        <4>2. QED
          BY <2>0, <4>1 DEF List
      <3>2. CASE ~Built
        BY <2>2, <3>2, ReadNow DEF BuildRead
      <3>3. QED
        BY <3>1, <3>2
    <2>3. CASE BuildForce(w)
      BY <2>3, ReadNow DEF BuildForce
    <2>4. CASE BuildWrite(w)
      BY <2>4, BuildWriteKeeps
    <2>5. CASE ListOptions(w)
      <3>1. \A v \in Windows : req'[v] = req[v] \/ req'[v].op \notin {"write", "apply"}
        BY <2>5 DEF ListOptions, Then, TypeOK, Idle
      <3>2. UNCHANGED <<work, options>>
        BY <2>5 DEF ListOptions
      <3>3. \A l : HasOptions(l)' <=> HasOptions(l)
        BY <3>2 DEF HasOptions
      <3>4. \A v \in Windows : v # w => shown'[v] = shown[v]
        BY <2>5 DEF ListOptions, TypeOK
      <3>5. \A x \in shown'[w].offered : HasOptions(x[1])
        BY <2>5 DEF ListOptions, TypeOK, HasOptions
      <3>6. ShownWereBuilt'
        BY <3>3, <3>4, <3>5 DEF OptionsInv, ShownWereBuilt
      <3>7. OptionsFit' /\ OptionsMarked' /\ MovesFollowOptions'
        BY <3>2, <3>3 DEF OptionsInv, OptionsFit, OptionsMarked, MovesFollowOptions
      <3>8. ReadsOutOfDate' /\ AppliesOffered'
        BY <3>1, <3>2, <3>3 DEF OptionsInv, ReadsOutOfDate, AppliesOffered
      <3>9. QED
        BY <3>6, <3>7, <3>8 DEF OptionsInv
    <2>6. ASSUME NEW l \in DOMAIN work, NEW m \in Machines, ApplyRead(w, l, m)
          PROVE  OptionsInv'
      <3>1. /\ \A v \in Windows : v # w => req'[v] = req[v]
            /\ req'[w] = [op |-> "apply", line |-> l, machine |-> m]
        BY <2>6 DEF ApplyRead, Then, TypeOK
      <3>2. UNCHANGED <<work, options, shown>>
        BY <2>6 DEF ApplyRead
      <3>3. \A k : HasOptions(k)' <=> HasOptions(k)
        BY <3>2 DEF HasOptions
      <3>4. HasOptions(l)
        BY <2>6 DEF ApplyRead, OptionsInv, ShownWereBuilt
      <3>5. ReadsOutOfDate'
        BY <3>1, <3>2, <3>3 DEF OptionsInv, ReadsOutOfDate
      <3>6. AppliesOffered'
        BY <3>1, <3>2, <3>3, <3>4 DEF OptionsInv, AppliesOffered
      <3>7. QED
        BY <3>2, <3>3, <3>5, <3>6 DEF OptionsInv, OptionsFit, OptionsMarked, MovesFollowOptions,
           ShownWereBuilt
    <2>7. CASE ApplyWrite(w)
      BY <2>7, ApplyWriteKeeps
    <2>8. ASSUME NEW m \in Materials \cup {None}, SaveMaterial(w, m) PROVE OptionsInv'
      <3>1. CASE UNCHANGED req
        BY <1>0, <2>8, <3>1, QuietStep DEF SaveMaterial
      <3>2. CASE Then(w, [op |-> "price", material |-> m])
        BY <2>0, <2>8, <3>2 DEF SaveMaterial
      <3>3. QED
        BY <2>8, <3>1, <3>2 DEF SaveMaterial
    <2>9. CASE PriceRefused(w)
      BY <2>0, <2>9 DEF PriceRefused, Idle
    <2>10. CASE PricePart(w)
      BY <2>0, <2>10 DEF PricePart
    <2>11. CASE PriceLine(w)
      BY <2>0, <2>11 DEF PriceLine, Reload
    <2>12. CASE ClearLine(w)
      BY <2>0, <2>12 DEF ClearLine
    <2>13. CASE ClearPart(w)
      BY <2>0, <2>13 DEF ClearPart, Reload
    <2>14. CASE Victim(w)
      BY <2>0, <2>14 DEF Victim, GivesUp, Idle
    <2>15. CASE PriceLost(w)
      BY <2>0, <2>15 DEF PriceLost, Idle
    <2>16. CASE ReloadPart(w)
      BY <2>0, <2>16 DEF ReloadPart, Load
    <2>17. ASSUME NEW m \in answers[w], PartReloaded(w, m) PROVE OptionsInv'
      BY <1>0, <2>17, QuietStep DEF PartReloaded
    <2>18. QED
      BY <1>w, <2>1, <2>2, <2>3, <2>4, <2>5, <2>6, <2>7, <2>8, <2>9, <2>10, <2>11, <2>12,
         <2>13, <2>14, <2>15, <2>16, <2>17 DEF Window
  <1>m. ASSUME AddManualLine PROVE OptionsInv'
    BY <1>m, <1>0, QuietStep DEF AddManualLine
  <1>r. ASSUME RerunCosting PROVE OptionsInv'
    <2>1. \A l \in DOMAIN work : /\ [work[l] EXCEPT !.active = FALSE].machine = work[l].machine
                                /\ [work[l] EXCEPT !.active = FALSE].pick = work[l].pick
      BY Elements DEF WorkLine
    <2>2. SameMachines
      BY <1>r, <2>1 DEF RerunCosting, SameMachines
    <2>3. QED
      BY <1>r, <2>2, QuietStep DEF RerunCosting
  <1>s. ASSUME RunStart PROVE OptionsInv'
    BY <1>s, <1>0, QuietStep DEF RunStart
  <1>f. ASSUME RunFinish PROVE OptionsInv'
    <2>1. PICK picks \in [1..Processes -> Pick] : work' = work \o MachiningLines(picks)
      BY <1>f DEF RunFinish
    <2>2. work \in Seq(WorkLine)
      BY DEF TypeOK
    <2>3. /\ Len(work') = Len(work) + Processes
          /\ \A l \in 1..(Len(work) + Processes) :
                work'[l] = IF l <= Len(work) THEN work[l]
                           ELSE MachiningLines(picks)[l - Len(work)]
      <3> DEFINE lines == MachiningLines(picks)
      <3>1. lines \in Seq(WorkLine) /\ Len(lines) = Processes
        BY RunLines
      <3> HIDE DEF lines
      <3>2. /\ Len(work \o lines) = Len(work) + Len(lines)
            /\ \A l \in 1..(Len(work) + Len(lines)) :
                  (work \o lines)[l] = IF l <= Len(work) THEN work[l] ELSE lines[l - Len(work)]
        BY <2>2, <3>1, ConcatProperties
      <3>3. work' = work \o lines
        BY <2>1 DEF lines
      <3>4. QED
        BY <3>1, <3>2, <3>3 DEF lines
    <2>4. DOMAIN work' = 1..(Len(work) + Processes)
      BY <1>f, <2>3, TypeNext, Elements DEF Next, Costing, TypeOK
    <2>5. SameMachines
      <3>1. Len(work) \in Nat /\ DOMAIN work = 1..Len(work) /\ Processes \in Nat
        BY Elements, QuoteAssumption
      <3>2. \A l \in 1..Processes : /\ MachiningLines(picks)[l].machine = picks[l]
                                    /\ MachiningLines(picks)[l].pick = picks[l]
        BY RunLines
      <3>3. ASSUME NEW l \in DOMAIN work
            PROVE  l \in DOMAIN work' /\ work'[l] = work[l]
        BY <3>1, <3>3, <2>3, <2>4
      <3>4. ASSUME NEW l \in DOMAIN work' \ DOMAIN work
            PROVE  work'[l].machine = work'[l].pick
        <4>1. l - Len(work) \in 1..Processes
          BY <3>1, <3>4, <2>4
        <4>2. work'[l] = MachiningLines(picks)[l - Len(work)]
          BY <3>1, <3>4, <2>3, <2>4
        <4>3. QED
          BY <4>1, <4>2, <3>2
      <3>5. QED
        BY <3>3, <3>4 DEF SameMachines
    <2>6. QED
      BY <1>f, <2>5, QuietStep DEF RunFinish
  <1>u. CASE UNCHANGED vars
    BY <1>u, <1>0, QuietStep DEF vars
  <1>q. QED
    BY <1>w, <1>m, <1>r, <1>s, <1>f, <1>u DEF Next, Costing

THEOREM OptionsInvariant == Spec => []OptionsInv
PROOF
  <1>1. Init => TypeOK /\ OptionsInv
    BY TypeInit, OptionsInit
  <1>2. TypeOK /\ OptionsInv /\ [Next]_vars => (TypeOK /\ OptionsInv)'
    BY TypeNext, OptionsNext
  <1>3. QED
    BY <1>1, <1>2, PTL DEF Spec

\* The selected option of a line is the machine the line is priced on, however
\* builds, forced builds, moves and costing re-runs of any windows interleave.
THEOREM SelectionAlwaysAgrees == Spec => []SelectionAgrees
PROOF
  <1>1. OptionsInv => SelectionAgrees
    BY DEF OptionsInv, OptionsMarked, SelectionAgrees, Active
  <1>2. QED
    BY <1>1, OptionsInvariant, PTL

\* The recommended option stays the run's own pick, also after a line was moved.
THEOREM RecommendationIsKept == Spec => []RecommendationKept
PROOF
  <1>1. OptionsInv => RecommendationKept
    BY DEF OptionsInv, OptionsMarked, RecommendationKept, Active
  <1>2. QED
    BY <1>1, OptionsInvariant, PTL
-----------------------------------------------------------------------------
(***************************************************************************)
(* The material lines.                                                     *)
(***************************************************************************)

\* What a rolled-back clear brings back is active again, the rest is as it was.
LEMMA ReactivatedLines ==
    ASSUME TypeOK, NEW w \in Windows, req[w].op = "clearing",
           stock' = [i \in DOMAIN stock |-> [stock[i] EXCEPT !.active = @ \/ i \in req[w].held]]
    PROVE  \A i \in DOMAIN stock : stock[i].active => stock'[i].active
  BY Elements DEF StockLine

LEMMA ManualLinesStep ==
    ASSUME TypeOK, Next, NEW i \in DOMAIN stock,
           stock[i].manual, stock[i].active, ~stock'[i].active
    PROVE  run' = Queued /\ run = NoRun
PROOF
  <1>0. stock \in Seq(StockLine)
    BY DEF TypeOK
  <1>1. ASSUME NEW w \in Windows, Window(w) PROVE FALSE
    <2>1. CASE PriceLine(w)
      <3>1. Deactivated[i].active
        BY <1>0, DeactivatedLines
      <3>2. stock'[i] = Deactivated[i]
        BY <1>0, <2>1, DeactivatedLines, Elements DEF PriceLine
      <3>3. QED
        BY <3>1, <3>2
    <2>2. CASE ClearLine(w)
      BY <1>0, <2>2, DeactivatedLines DEF ClearLine
    <2>3. CASE Victim(w)
      BY <2>3, ReactivatedLines DEF Victim
    <2>4. CASE UNCHANGED stock
      BY <2>4
    <2>5. QED
      BY <1>1, <2>1, <2>2, <2>3, <2>4 DEF Window, LoadResults, BuildRead, BuildForce, BuildWrite,
         ListOptions, ApplyRead, ApplyWrite, SaveMaterial, PriceRefused, PriceLost, PricePart,
         ClearPart, ReloadPart, PartReloaded
  <1>2. ASSUME AddManualLine PROVE FALSE
    BY <1>0, <1>2, Elements DEF AddManualLine
  <1>3. CASE RerunCosting
    BY <1>3 DEF RerunCosting
  <1>4. ASSUME RunStart PROVE FALSE
    BY <1>4 DEF RunStart
  <1>5. ASSUME RunFinish PROVE FALSE
    BY <1>0, <1>5, Elements DEF RunFinish
  <1>6. QED
    BY <1>1, <1>2, <1>3, <1>4, <1>5 DEF Next, Costing

\* No change of the material, finished or rolled back, drops a line an estimator
\* typed in; only a costing re-run does.
THEOREM ManualLinesAreKept == Spec => ManualLinesKept
PROOF
  <1>1. TypeOK /\ [Next]_vars =>
          [\A i \in DOMAIN stock : stock[i].manual /\ stock[i].active /\ ~stock'[i].active
              => run' = Queued /\ run = NoRun]_vars
    BY ManualLinesStep
  <1>2. QED
    BY <1>1, QuoteTypeCorrect, PTL DEF Spec, ManualLinesKept

LEMMA MaterialInit == Init => MaterialInv
PROOF
  <1> SUFFICES ASSUME Init PROVE MaterialInv
    OBVIOUS
  <1>1. PricingHoldsPart /\ RunsApart
    BY DEF Init, PricingHoldsPart, RunsApart, Load, NoRun
  <1>2. ASSUME material \in Priced PROVE OneLineOf(material)
    <2>1. stock = <<[material |-> material, manual |-> FALSE, active |-> TRUE]>>
      BY <1>2, QuoteAssumption DEF Init
    <2>2. MachineMade = {1} /\ 1 \in DOMAIN stock /\ stock[1].material = material
      BY <2>1 DEF MachineMade
    <2>3. QED
      BY <2>2 DEF OneLineOf
  <1>3. AtMostOne
    <2>1. \A i \in DOMAIN stock : i = 1
      BY DEF Init
    <2>2. \A w \in Windows : req[w].op # "clearing"
      BY DEF Init, Load
    <2>3. QED
      BY <2>1, <2>2 DEF AtMostOne, MachineMade
  <1>4. QED
    BY <1>1, <1>2, <1>3 DEF MaterialInv, LineMatches

\* A step that touches neither the material, nor the lines, nor the run, nor a save.
LEMMA OtherStep ==
    ASSUME MaterialInv, UNCHANGED <<material, stock, unapplied, run>>,
           \A v \in Windows :
              req'[v] = req[v] \/ (~Due(v) /\ ~Saving(v)' /\ ~Due(v)' /\ req'[v].op # "pricing")
    PROVE  MaterialInv'
PROOF
  <1>1. PricingHoldsPart'
    BY DEF MaterialInv, PricingHoldsPart
  <1>2. RunsApart'
    BY DEF MaterialInv, RunsApart, MachineMade, Saving
  <1>3. LineMatches'
    BY DEF MaterialInv, LineMatches, OneLineOf, MachineMade, Due
  <1>4. AtMostOne'
    BY DEF MaterialInv, AtMostOne, MachineMade, Saving
  <1>5. QED
    BY <1>1, <1>2, <1>3, <1>4 DEF MaterialInv

\* A line appended to lines of which none is active and machine-made is the only one.
LEMMA OnlyLine ==
    ASSUME NEW s \in Seq(StockLine), NEW x \in StockLine,
           \A i \in DOMAIN s : ~(s[i].active /\ ~s[i].manual),
           x.active, ~x.manual,
           stock' = Append(s, x)
    PROVE  \E i \in DOMAIN stock' : MachineMade' = {i} /\ stock'[i].material = x.material
PROOF
  <1> DEFINE n == Len(s) + 1
  <1>1. DOMAIN stock' = 1..n /\ n \in 1..n /\ stock'[n] = x
    OBVIOUS
  <1>2. \A i \in 1..n : i # n => i \in DOMAIN s /\ stock'[i] = s[i]
    OBVIOUS
  <1> HIDE DEF n
  <1>3. MachineMade' = {n}
    BY <1>1, <1>2 DEF MachineMade
  <1>4. QED
    BY <1>1, <1>3

\* The lines stay the same, and no clear begins.
LEMMA SameLines ==
    ASSUME AtMostOne, MachineMade' = MachineMade,
           \A v \in Windows : req'[v].op = "clearing" => req'[v] = req[v]
    PROVE  AtMostOne'
BY DEF AtMostOne

\* No save leaves two machine-made lines: a pricing waits for the lines a clear
\* has taken away, and the clear may yet bring them back.
LEMMA SaveKeepsOne ==
    ASSUME TypeOK, MaterialInv, NEW w \in Windows,
           \/ \E m \in Materials \cup {None} : SaveMaterial(w, m)
           \/ PriceRefused(w) \/ PriceLost(w) \/ PricePart(w) \/ PriceLine(w)
           \/ ClearLine(w) \/ ClearPart(w) \/ Victim(w)
    PROVE  AtMostOne'
PROOF
  <1>0. /\ req \in [Windows -> Request] /\ stock \in Seq(StockLine) /\ AtMostOne
        /\ \A i \in DOMAIN stock : stock[i] \in StockLine
    BY DEF TypeOK, MaterialInv
  <1>1. ASSUME NEW r, Then(w, r)
        PROVE  req'[w] = r /\ \A v \in Windows \ {w} : req'[v] = req[v]
    BY <1>0, <1>1 DEF Then
  <1>2. ASSUME UNCHANGED stock, NEW r, r.op # "clearing", Then(w, r) PROVE AtMostOne'
    <2>1. MachineMade' = MachineMade
      BY <1>2 DEF MachineMade
    <2>2. QED
      BY <1>0, <1>1, <1>2, <2>1, SameLines
  <1>3. ASSUME NEW m \in Materials \cup {None}, SaveMaterial(w, m) PROVE AtMostOne'
    <2>1. CASE UNCHANGED req
      BY <1>0, <1>3, <2>1, SameLines DEF SaveMaterial, MachineMade
    <2>2. CASE Then(w, [op |-> "price", material |-> m])
      BY <1>2, <1>3, <2>2 DEF SaveMaterial
    <2>3. QED
      BY <1>3, <2>1, <2>2 DEF SaveMaterial
  <1>4. CASE PriceRefused(w) \/ PriceLost(w)
    BY <1>2, <1>4 DEF PriceRefused, PriceLost, Idle
  <1>5. CASE PricePart(w)
    BY <1>2, <1>5 DEF PricePart
  <1>6. CASE PriceLine(w)
    <2>1. /\ req'[w] = Reload /\ \A v \in Windows \ {w} : req'[v] = req[v]
          /\ \A v \in Windows \ {w} : ~(req[v].op = "clearing" /\ req[v].held # {})
      BY <1>1, <1>6 DEF PriceLine, LinesLocked
    <2> DEFINE x == [material |-> req[w].material, manual |-> FALSE, active |-> TRUE]
    <2>2. req[w].material \in Materials
      BY <1>6, QuoteAssumption DEF PriceLine, TypeOK, Request, Idle, Load, List, Reload
    <2>3. x \in StockLine /\ x.active /\ ~x.manual /\ stock' = Append(Deactivated, x)
      BY <1>6, <2>2 DEF PriceLine, StockLine
    <2> HIDE DEF x
    <2>4. \E i \in DOMAIN stock' : MachineMade' = {i} /\ stock'[i].material = x.material
      BY <1>0, <2>3, DeactivatedLines, OnlyLine
    <2>5. QED
      BY <2>1, <2>4 DEF AtMostOne, Reload
  <1>7. CASE ClearLine(w)
    <2>1. /\ req'[w] = [op |-> "clearing", held |-> MaterialLines]
          /\ \A v \in Windows \ {w} : req'[v] = req[v]
          /\ \A v \in Windows \ {w} : ~(req[v].op = "clearing" /\ req[v].held # {})
      BY <1>1, <1>7 DEF ClearLine, LinesLocked
    <2>2. MachineMade' = {}
      BY <1>0, <1>7, DeactivatedLines DEF ClearLine, MachineMade
    <2>3. MaterialLines = MachineMade
      BY DEF MaterialLines, MachineMade
    <2>4. QED
      BY <1>0, <2>1, <2>2, <2>3 DEF AtMostOne
  <1>8. CASE ClearPart(w)
    BY <1>2, <1>8 DEF ClearPart, Reload
  <1>9. CASE Victim(w)
    <2>1. Then(w, Idle)
      BY <1>9 DEF Victim, GivesUp
    <2>2. CASE UNCHANGED stock
      BY <1>2, <2>1, <2>2 DEF Idle
    <2>3. CASE /\ req[w].op = "clearing"
               /\ stock' = [i \in DOMAIN stock |->
                              [stock[i] EXCEPT !.active = @ \/ i \in req[w].held]]
      <3>1. req[w].held # {}
        BY <1>9, <2>3 DEF Victim, Deadlocked
      <3>2. MachineMade = {} /\ \A i, j \in req[w].held : i = j
        BY <1>0, <2>3, <3>1 DEF AtMostOne
      <3>3. \A v \in Windows \ {w} : req[v].op = "clearing" => req[v].held = {}
        BY <1>0, <2>3, <3>1 DEF AtMostOne
      <3>4. ASSUME NEW i \in DOMAIN stock', stock'[i].active, ~stock'[i].manual
            PROVE  i \in req[w].held
        <4>1. /\ i \in DOMAIN stock /\ stock[i].manual = stock'[i].manual
              /\ stock'[i].active = (stock[i].active \/ i \in req[w].held)
          BY <1>0, <2>3, <3>4 DEF StockLine
        <4>2. i \notin MachineMade
          BY <3>2
        <4>3. QED
          BY <3>4, <4>1, <4>2 DEF MachineMade
      <3>5. MachineMade' \subseteq req[w].held
        BY <3>4 DEF MachineMade
      <3>6. req'[w] = Idle /\ \A v \in Windows \ {w} : req'[v] = req[v]
        BY <1>1, <2>1
      <3>7. QED
        BY <3>2, <3>3, <3>5, <3>6 DEF AtMostOne, Idle
    <2>4. QED
      BY <1>9, <2>2, <2>3 DEF Victim
  <1>10. QED
    BY <1>3, <1>4, <1>5, <1>6, <1>7, <1>8, <1>9

\* The steps of a save, none of which happens while the part is costed.
LEMMA SaveStep ==
    ASSUME ~Overlaps, TypeOK, MaterialInv, NEW w \in Windows,
           \/ \E m \in Materials \cup {None} : SaveMaterial(w, m)
           \/ PriceRefused(w) \/ PriceLost(w) \/ PricePart(w) \/ PriceLine(w)
           \/ ClearLine(w) \/ ClearPart(w) \/ Victim(w)
    PROVE  MaterialInv'
PROOF
  <1>1. run = NoRun /\ UNCHANGED run
    BY DEF MaterialInv, RunsApart, Saving, Deadlocked, SaveMaterial, PriceRefused, PriceLost,
       PricePart, PriceLine, ClearLine, ClearPart, Victim
  <1>2. RunsApart'
    BY <1>1 DEF RunsApart, NoRun
  <1>3. req \in [Windows -> Request] /\ stock \in Seq(StockLine)
    BY DEF TypeOK
  <1>4. ASSUME NEW r, Then(w, r)
        PROVE  req'[w] = r /\ \A v \in Windows \ {w} : req'[v] = req[v]
    BY <1>3, <1>4 DEF Then
  \* A save that is still due answers for the line.
  <1>5. ASSUME NEW v \in Windows, Due(v)' PROVE LineMatches'
    BY <1>5 DEF LineMatches
  <1>6. ASSUME NEW m \in Materials \cup {None}, SaveMaterial(w, m)
        PROVE  PricingHoldsPart' /\ LineMatches'
    <2>0. material' = m /\ \A v \in Windows \ {w} : req[v].op # "pricing"
      BY <1>6 DEF SaveMaterial, PartLocked
    <2>1. CASE Then(w, [op |-> "price", material |-> m])
      <3>1. /\ req'[w] = [op |-> "price", material |-> m]
            /\ \A v \in Windows \ {w} : req'[v] = req[v]
        BY <1>4, <2>1
      <3>2. PricingHoldsPart'
        BY <2>0, <3>1 DEF PricingHoldsPart
      <3>3. CASE m \in Priced \cup {None}
        BY <1>5, <3>1, <3>2, <3>3 DEF Due
      <3>4. CASE m \notin Priced
        BY <2>0, <3>2, <3>4 DEF LineMatches
      <3>5. QED
        BY <3>3, <3>4
    <2>2. CASE UNCHANGED req /\ unapplied' = (unapplied \/ m # material)
      <3>1. req[w] = Idle /\ UNCHANGED stock
        BY <1>6 DEF SaveMaterial
      <3>2. PricingHoldsPart'
        BY <2>0, <2>2, <3>1 DEF PricingHoldsPart, Idle
      <3>3. CASE unapplied'
        BY <3>2, <3>3 DEF LineMatches
      <3>4. CASE ~unapplied'
        <4>1. ~unapplied /\ UNCHANGED <<material, stock, run>>
          BY <1>1, <2>0, <2>2, <3>1, <3>4
        <4>2. QED
          BY <2>2, <3>2, <4>1 DEF MaterialInv, LineMatches, OneLineOf, MachineMade, Due
      <3>5. QED
        BY <3>3, <3>4
    <2>3. QED
      BY <1>6, <2>1, <2>2 DEF SaveMaterial
  <1>7. ASSUME PriceRefused(w) PROVE PricingHoldsPart' /\ LineMatches'
    <2>1. /\ req'[w] = Idle /\ UNCHANGED <<material, stock, unapplied>>
          /\ \A v \in Windows \ {w} : req'[v] = req[v]
      BY <1>4, <1>7 DEF PriceRefused
    <2>2. ~Due(w)
      BY <1>7, QuoteAssumption DEF PriceRefused, Due
    <2>3. PricingHoldsPart'
      BY <2>1 DEF MaterialInv, PricingHoldsPart, Idle
    <2>4. (\A v \in Windows : ~Due(v)') => (\A v \in Windows : ~Due(v))
      BY <2>1, <2>2 DEF Due
    <2>5. QED
      BY <1>1, <2>1, <2>3, <2>4 DEF MaterialInv, LineMatches, OneLineOf, MachineMade
  <1>l. ASSUME PriceLost(w) PROVE PricingHoldsPart' /\ LineMatches'
    <2>1. /\ req'[w] = Idle /\ unapplied' /\ UNCHANGED material
          /\ \A v \in Windows \ {w} : req'[v] = req[v]
      BY <1>4, <1>l DEF PriceLost
    <2>2. QED
      BY <2>1 DEF MaterialInv, PricingHoldsPart, LineMatches, Idle
  <1>8. ASSUME PricePart(w) PROVE PricingHoldsPart' /\ LineMatches'
    <2>1. /\ req'[w].op = "pricing" /\ req'[w].material = material'
          /\ \A v \in Windows \ {w} : req'[v] = req[v] /\ req[v].op # "pricing"
      BY <1>4, <1>8 DEF PricePart, SetMaterial, PartLocked
    <2>2. QED
      BY <1>5, <2>1 DEF PricingHoldsPart, Due
  <1>9. ASSUME PriceLine(w) PROVE PricingHoldsPart' /\ LineMatches'
    <2>1. /\ req'[w] = Reload /\ UNCHANGED material
          /\ \A v \in Windows \ {w} : req'[v] = req[v]
      BY <1>4, <1>9 DEF PriceLine
    <2>2. PricingHoldsPart'
      BY <2>1 DEF MaterialInv, PricingHoldsPart, Reload
    <2>3. req[w].op = "pricing" /\ material = req[w].material
      BY <1>9 DEF PriceLine, MaterialInv, PricingHoldsPart
    <2> DEFINE x == [material |-> req[w].material, manual |-> FALSE, active |-> TRUE]
    <2>4. /\ x \in StockLine /\ x.active /\ ~x.manual /\ x.material = material
          /\ stock' = Append(Deactivated, x)
      BY <1>9, <2>3 DEF PriceLine, StockLine, TypeOK
    <2> HIDE DEF x
    <2>5. \E i \in DOMAIN stock' : MachineMade' = {i} /\ stock'[i].material = x.material
      BY <1>3, <2>4, DeactivatedLines, OnlyLine
    <2>6. QED
      BY <2>1, <2>2, <2>4, <2>5 DEF LineMatches, OneLineOf
  <1>10. ASSUME ClearLine(w) PROVE PricingHoldsPart' /\ LineMatches'
    <2>1. /\ req'[w].op = "clearing" /\ UNCHANGED material
          /\ \A v \in Windows \ {w} : req'[v] = req[v]
      BY <1>4, <1>10 DEF ClearLine
    <2>2. QED
      BY <1>5, <2>1 DEF MaterialInv, PricingHoldsPart, Due
  <1>11. ASSUME ClearPart(w) PROVE PricingHoldsPart' /\ LineMatches'
    <2>1. /\ req'[w] = Reload /\ material' = None
          /\ \A v \in Windows \ {w} : req'[v] = req[v] /\ req[v].op # "pricing"
      BY <1>4, <1>11 DEF ClearPart, PartLocked
    <2>2. None \notin Priced
      BY QuoteAssumption
    <2>3. QED
      BY <2>1, <2>2 DEF PricingHoldsPart, LineMatches, Reload
  <1>12. ASSUME Victim(w) PROVE PricingHoldsPart' /\ LineMatches'
    <2>1. req'[w] = Idle /\ \A v \in Windows \ {w} : req'[v] = req[v]
      BY <1>4, <1>12 DEF Victim, GivesUp
    <2>2. PricingHoldsPart'
      BY <1>12, <2>1 DEF MaterialInv, PricingHoldsPart, Victim, Idle
    <2>3. PICK v \in Windows \ {w} : req[v].op \in {"pricing", "clearing"}
      BY <1>12 DEF Victim, Deadlocked, PartLocked, LinesLocked
    <2>4. QED
      BY <1>5, <2>1, <2>2, <2>3 DEF Due
  <1>13. QED
    BY <1>2, <1>6, <1>7, <1>l, <1>8, <1>9, <1>10, <1>11, <1>12, SaveKeepsOne DEF MaterialInv

\* A line that an estimator types in, and the steps of a costing run.
LEMMA CostingStep ==
    ASSUME ~Overlaps, TypeOK, MaterialInv, AddManualLine \/ Costing
    PROVE  MaterialInv'
PROOF
  <1>1. stock \in Seq(StockLine) /\ \A i \in DOMAIN stock : stock[i] \in StockLine
    BY DEF TypeOK
  <1>2. UNCHANGED <<req, material>>
    BY DEF AddManualLine, Costing, RerunCosting, RunStart, RunFinish
  <1>3. PricingHoldsPart'
    BY <1>2 DEF MaterialInv, PricingHoldsPart
  <1>4. CASE AddManualLine
    <2> DEFINE x == [material |-> None, manual |-> TRUE, active |-> TRUE]
    <2>1. stock' = Append(stock, x) /\ x.manual /\ UNCHANGED <<run, unapplied>>
      BY <1>4 DEF AddManualLine
    <2> HIDE DEF x
    <2>2. /\ \A i \in DOMAIN stock : i \in DOMAIN stock' /\ stock'[i] = stock[i]
          /\ \A i \in DOMAIN stock' : i \in DOMAIN stock \/ stock'[i].manual
      BY <1>1, <2>1
    <2>3. MachineMade' = MachineMade
      BY <2>2 DEF MachineMade
    <2>4. RunsApart'
      BY <1>2, <2>1, <2>3 DEF MaterialInv, RunsApart, Saving
    <2>5. LineMatches'
      BY <1>2, <2>1, <2>2, <2>3 DEF MaterialInv, LineMatches, OneLineOf, Due
    <2>6. AtMostOne'
      BY <1>2, <2>3, SameLines DEF MaterialInv
    <2>7. QED
      BY <1>3, <2>4, <2>5, <2>6 DEF MaterialInv
  <1>5. CASE RerunCosting
    <2>1. run' = Queued /\ \A v \in Windows : ~Saving(v)
      BY <1>5 DEF RerunCosting
    <2>2. MachineMade' = {}
      BY <1>1, <1>5 DEF RerunCosting, MachineMade, StockLine
    <2>3. QED
      BY <1>2, <1>3, <2>1, <2>2
      DEF MaterialInv, RunsApart, LineMatches, AtMostOne, Saving, Queued, NoRun
  <1>6. CASE RunStart
    <2>1. run' = [step |-> "running", material |-> material] /\ UNCHANGED stock /\ run # NoRun
      BY <1>6 DEF RunStart, Queued, NoRun
    <2>2. QED
      BY <1>2, <1>3, <2>1
      DEF MaterialInv, RunsApart, LineMatches, AtMostOne, MachineMade, Saving, NoRun
  <1>7. CASE RunFinish
    <2>1. /\ run' = NoRun /\ MachineMade = {} /\ run.material = material
          /\ \A v \in Windows : ~Saving(v)
      BY <1>7 DEF RunFinish, MaterialInv, RunsApart, NoRun
    <2>2. RunsApart'
      BY <2>1 DEF RunsApart, NoRun
    <2>3. ASSUME material \in Priced PROVE OneLineOf(material)'
      <3> DEFINE x == [material |-> run.material, manual |-> FALSE, active |-> TRUE]
      <3>1. /\ x \in StockLine /\ x.active /\ ~x.manual /\ x.material = material
            /\ stock' = Append(stock, x)
        BY <1>7, <2>1, <2>3 DEF RunFinish, StockLine, TypeOK
      <3> HIDE DEF x
      <3>2. \A i \in DOMAIN stock : ~(stock[i].active /\ ~stock[i].manual)
        BY <2>1 DEF MachineMade
      <3>3. \E i \in DOMAIN stock' : MachineMade' = {i} /\ stock'[i].material = x.material
        BY <1>1, <3>1, <3>2, OnlyLine
      <3>4. QED
        BY <1>2, <3>1, <3>3 DEF OneLineOf
    <2>4. AtMostOne'
      <3>1. \A v \in Windows : req'[v].op # "clearing"
        BY <1>2, <2>1 DEF Saving
      <3>2. CASE UNCHANGED stock
        BY <2>1, <3>1, <3>2 DEF AtMostOne, MachineMade
      <3>3. CASE ~(UNCHANGED stock)
        <4> DEFINE x == [material |-> run.material, manual |-> FALSE, active |-> TRUE]
        <4>1. stock' = Append(stock, x) /\ x.active /\ ~x.manual /\ x \in StockLine
          BY <1>7, <2>1, <3>3 DEF RunFinish, StockLine, TypeOK
        <4> HIDE DEF x
        <4>2. \A i \in DOMAIN stock : ~(stock[i].active /\ ~stock[i].manual)
          BY <2>1 DEF MachineMade
        <4>3. \E i \in DOMAIN stock' : MachineMade' = {i} /\ stock'[i].material = x.material
          BY <1>1, <4>1, <4>2, OnlyLine
        <4>4. QED
          BY <3>1, <4>3 DEF AtMostOne
      <3>4. QED
        BY <3>2, <3>3
    <2>5. QED
      BY <1>2, <1>3, <2>2, <2>3, <2>4 DEF MaterialInv, LineMatches
  <1>8. QED
    BY <1>4, <1>5, <1>6, <1>7 DEF Costing

LEMMA MaterialNext == ~Overlaps /\ TypeOK /\ MaterialInv /\ [Next]_vars => MaterialInv'
PROOF
  <1> SUFFICES ASSUME ~Overlaps, TypeOK, MaterialInv, [Next]_vars PROVE MaterialInv'
    OBVIOUS
  <1>1. ASSUME NEW w \in Windows, Window(w) PROVE MaterialInv'
    \* A step of a window from one request that is no save to another.
    <2> DEFINE Other == {"idle", "load", "list", "reload", "build", "write", "apply"}
    <2>0. ASSUME NEW r, r.op \in Other, Then(w, r), req[w].op \in Other,
                 UNCHANGED <<material, stock, unapplied, run>>
          PROVE  MaterialInv'
      <3>1. req'[w] = r /\ \A v \in Windows : v # w => req'[v] = req[v]
        BY <2>0 DEF Then, TypeOK
      <3>2. ~Due(w) /\ ~Saving(w)' /\ ~Due(w)' /\ req'[w].op # "pricing"
        BY <2>0, <3>1 DEF Due, Saving
      <3>3. QED
        BY <2>0, <3>1, <3>2, OtherStep
    <2>1. CASE LoadResults(w)
      <3>1. PICK r : r \in {Idle, [op |-> "build"]} /\ Then(w, r)
        BY <2>1 DEF LoadResults
      <3>2. r.op \in Other /\ req[w].op \in Other
        BY <2>1, <3>1 DEF LoadResults, Idle, Load
      <3>3. QED
        BY <2>0, <2>1, <3>1, <3>2 DEF LoadResults
    <2>2. CASE BuildRead(w)
      <3>1. PICK r : r \in {List, [op |-> "write", read |-> LinesRead]} /\ Then(w, r)
        BY <2>2 DEF BuildRead
      <3>2. r.op \in Other /\ req[w].op \in Other
        BY <2>2, <3>1 DEF BuildRead, List
      <3>3. QED
        BY <2>0, <2>2, <3>1, <3>2 DEF BuildRead
    <2>3. CASE BuildForce(w)
      BY <2>0, <2>3 DEF BuildForce, Idle
    <2>4. CASE BuildWrite(w)
      BY <2>0, <2>4 DEF BuildWrite, List
    <2>5. CASE ListOptions(w)
      BY <2>0, <2>5 DEF ListOptions, List, Idle
    <2>6. ASSUME NEW l \in DOMAIN work, NEW m \in Machines, ApplyRead(w, l, m)
          PROVE  MaterialInv'
      BY <2>0, <2>6 DEF ApplyRead, Idle
    <2>7. CASE ApplyWrite(w)
      BY <2>0, <2>7 DEF ApplyWrite, Load
    <2>8. CASE ReloadPart(w)
      BY <2>0, <2>8 DEF ReloadPart, Reload, Load
    <2>9. ASSUME NEW m \in answers[w], PartReloaded(w, m) PROVE MaterialInv'
      BY <2>9, OtherStep DEF PartReloaded
    <2>10. QED
      BY <1>1, <2>1, <2>2, <2>3, <2>4, <2>5, <2>6, <2>7, <2>8, <2>9, SaveStep DEF Window
  <1>2. CASE AddManualLine \/ Costing
    BY <1>2, CostingStep
  <1>3. CASE UNCHANGED vars
    BY <1>3, OtherStep DEF vars
  <1>4. QED
    BY <1>1, <1>2, <1>3 DEF Next

\* Where the material is not changed while the part is costed, any number of windows
\* that save, clear, are rolled back, compare with an old read of the part or lose a
\* call leave a part with at most one machine-made material line; it is there, and of
\* the part's material, unless a save changed the material and did not price it.
THEOREM PartIsPricedWhenApplied ==
    ASSUME ~Overlaps
    PROVE  Spec => []PricedWhenApplied
PROOF
  <1>1. Init => TypeOK /\ MaterialInv
    BY TypeInit, MaterialInit
  <1>2. TypeOK /\ MaterialInv /\ [Next]_vars => (TypeOK /\ MaterialInv)'
    BY TypeNext, MaterialNext
  <1>3. ASSUME MaterialInv PROVE PricedWhenApplied
    <2>1. Cardinality(MachineMade) <= 1
      <3>1. CASE MachineMade = {}
        BY <3>1, FS_EmptySet
      <3>2. CASE MachineMade # {}
        <4>1. PICK i : MachineMade = {i}
          BY <1>3, <3>2 DEF MaterialInv, AtMostOne
        <4>2. Cardinality(MachineMade) = 1
          BY <4>1, FS_Singleton
        <4>3. QED
          BY <4>2
      <3>3. QED
        BY <3>1, <3>2
    <2>2. ASSUME Quiet, material \in Priced, ~unapplied PROVE OneLineOfItsMaterial
      <3>1. OneLineOf(material)
        BY <1>3, <2>2 DEF MaterialInv, LineMatches, Quiet, Due, Saving
      <3>2. QED
        BY <3>1, FS_Singleton DEF OneLineOf, OneLineOfItsMaterial
    <2>3. QED
      BY <2>1, <2>2 DEF PricedWhenApplied
  <1>4. QED
    BY <1>1, <1>2, <1>3, PTL DEF Spec
=============================================================================
