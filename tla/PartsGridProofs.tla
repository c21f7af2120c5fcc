--------------------------- MODULE PartsGridProofs ---------------------------
(***************************************************************************)
(* For any parts, stages switched off, outcomes and poll limit: whatever   *)
(* is lost, fails or overtakes, a card shows a status a row can have.      *)
(***************************************************************************)
EXTENDS PartsGrid, TLAPS

\* What marks a read that is not served is not a status, so a card that shows
\* a status never shows the mark.
LEMMA AskedIsNoStatus == Asked \notin Statuses
BY PartsGridAssumption DEF Asked, Statuses

\* A reload that is under way and served brought a status for every part.
LEMMA ReloadBrings ==
    ASSUME NEW r \in {NoReload, ReloadAsked} \cup [Parts -> Statuses],
           r \notin {NoReload, ReloadAsked}
    PROVE  r \in [Parts -> Statuses]
OBVIOUS

LEMMA AskTypes ==
    ASSUME TypeOK, NEW ps, Ask(ps)
    PROVE  reads' \in [Parts -> SUBSET (Statuses \cup {Asked})]
<1>1. reads \in [Parts -> SUBSET (Statuses \cup {Asked})]
  BY DEF TypeOK
<1> QED
  BY <1>1 DEF Ask

LEMMA GridInit == Init => TypeOK
<1> SUFFICES ASSUME Init PROVE TypeOK
  OBVIOUS
<1>1. status \in [Parts -> Statuses] /\ queued \subseteq Active /\ recent \subseteq Parts
  BY DEF Init
<1>2. card = status /\ hidden = FALSE /\ progress = {} /\ timers = {} /\ accepted = FALSE
  BY DEF Init
<1>3. reads \in [Parts -> SUBSET (Statuses \cup {Asked})] /\ reload = NoReload
  BY DEF Init
<1> QED
  BY <1>1, <1>2, <1>3 DEF TypeOK

\* What the server and the pipeline do.
LEMMA ServerTypes ==
    ASSUME TypeOK, NEW p \in Active,
           Rerun(p) \/ Start(p) \/ Finish(p) \/ Publish(p)
    PROVE  TypeOK'
<1>1. p \in Parts
  BY PartsGridAssumption
<1>2. CASE Rerun(p)
  <2>1. status' \in [Parts -> Statuses] /\ queued' \subseteq Active
    BY <1>1, <1>2 DEF Rerun, TypeOK, Statuses
  <2>2. accepted' \in BOOLEAN
    BY <1>2, Zenon DEF Rerun, TypeOK
  <2> QED
    BY <1>2, <2>1, <2>2 DEF Rerun, pageVars, TypeOK, NoReload, ReloadAsked
<1>3. CASE Start(p)
  <2>1. status' \in [Parts -> Statuses]
    BY <1>1, <1>3 DEF Start, TypeOK, Statuses
  <2> QED
    BY <1>3, <2>1 DEF Start, pageVars, TypeOK
<1>4. CASE Finish(p)
  <2>1. status' \in [Parts -> Statuses]
    BY <1>1, <1>4 DEF Finish, TypeOK, Statuses
  <2> QED
    BY <1>4, <2>1 DEF Finish, pageVars, TypeOK
<1>5. CASE Publish(p)
  BY <1>5 DEF Publish, serverVars, pageVars, TypeOK
<1> QED
  BY <1>2, <1>3, <1>4, <1>5

\* What happens to one card, its messages, timer and reads.
LEMMA CardTypes ==
    ASSUME TypeOK, NEW p \in Parts,
           \/ Age(p) \/ Hear(p) \/ LoseMessage(p) \/ TimerFires(p)
           \/ ServeRead(p) \/ Answer(p) \/ ReadFails(p)
    PROVE  TypeOK'
<1>1. CASE Age(p)
  BY <1>1 DEF Age, pageVars, TypeOK
<1>2. CASE Hear(p)
  BY <1>2 DEF Hear, serverVars, TypeOK
<1>3. CASE LoseMessage(p)
  BY <1>3 DEF LoseMessage, serverVars, pageVars, TypeOK
<1>4. CASE TimerFires(p)
  <2>1. reads' \in [Parts -> SUBSET (Statuses \cup {Asked})]
    BY <1>4, AskTypes DEF TimerFires
  <2> QED
    BY <1>4, <2>1 DEF TimerFires, serverVars, TypeOK
<1>5. CASE ServeRead(p)
  <2>1. reads' \in [Parts -> SUBSET (Statuses \cup {Asked})]
    BY <1>5 DEF ServeRead, TypeOK
  <2> QED
    BY <1>5, <2>1 DEF ServeRead, serverVars, pageVars, TypeOK
<1>6. CASE Answer(p)
  <2>1. PICK seen \in reads[p] \ {Asked} :
            /\ card' = [card EXCEPT ![p] = seen]
            /\ reads' = [reads EXCEPT ![p] = @ \ {seen}]
            /\ UNCHANGED <<serverVars, hidden, timers, progress, reload, accepted>>
    BY <1>6 DEF Answer
  <2>2. seen \in Statuses
    BY <2>1 DEF TypeOK
  <2>3. /\ card' \in [Parts -> Statuses]
        /\ reads' \in [Parts -> SUBSET (Statuses \cup {Asked})]
    BY <2>1, <2>2 DEF TypeOK
  <2> QED
    BY <2>1, <2>3 DEF serverVars, TypeOK
<1>7. CASE ReadFails(p)
  <2>1. reads' \in [Parts -> SUBSET (Statuses \cup {Asked})]
    BY <1>7 DEF ReadFails, TypeOK
  <2> QED
    BY <1>7, <2>1 DEF ReadFails, serverVars, pageVars, TypeOK
<1> QED
  BY <1>1, <1>2, <1>3, <1>4, <1>5, <1>6, <1>7

\* What concerns the whole page.
LEMMA PageTypes ==
    ASSUME TypeOK,
           \/ ServeReload \/ RerunAnswered \/ Reloaded
           \/ PollActiveRows \/ Hide \/ Show
    PROVE  TypeOK'
<1>1. CASE ServeReload
  BY <1>1 DEF ServeReload, serverVars, pageVars, TypeOK
<1>2. CASE RerunAnswered
  BY <1>2 DEF RerunAnswered, serverVars, pageVars, TypeOK
<1>3. CASE Reloaded
  <2>1. card' \in [Parts -> Statuses]
    BY <1>3, ReloadBrings DEF Reloaded, TypeOK
  <2> QED
    BY <1>3, <2>1 DEF Reloaded, serverVars, TypeOK
<1>4. CASE PollActiveRows
  <2>1. reads' \in [Parts -> SUBSET (Statuses \cup {Asked})]
    BY <1>4, AskTypes DEF PollActiveRows
  <2> QED
    BY <1>4, <2>1 DEF PollActiveRows, serverVars, pageVars, TypeOK
<1>5. CASE Hide
  BY <1>5 DEF Hide, serverVars, TypeOK
<1>6. CASE Show
  BY <1>6 DEF Show, serverVars, TypeOK
<1> QED
  BY <1>1, <1>2, <1>3, <1>4, <1>5, <1>6

(***************************************************************************)
(* Whatever messages are lost, reads fail or answers overtake each other,  *)
(* a card shows a status that a part's row can have: never one that was    *)
(* asked for and not served, and never an empty reload.                    *)
(***************************************************************************)
THEOREM GridTypeCorrect == Spec => []TypeOK
<1>1. TypeOK /\ [Next]_vars => TypeOK'
  <2> SUFFICES ASSUME TypeOK, [Next]_vars PROVE TypeOK'
    OBVIOUS
  <2>1. CASE UNCHANGED vars
    BY <2>1 DEF vars, TypeOK, NoReload, ReloadAsked
  <2>2. ASSUME Next PROVE TypeOK'
    <3>1. CASE \E p \in Active : Rerun(p) \/ Start(p) \/ Finish(p) \/ Publish(p)
      BY <3>1, ServerTypes
    <3>2. CASE \E p \in Parts : \/ Age(p) \/ Hear(p) \/ LoseMessage(p) \/ TimerFires(p)
                                \/ ServeRead(p) \/ Answer(p) \/ ReadFails(p)
      BY <3>2, CardTypes
    <3>3. CASE \/ ServeReload \/ RerunAnswered \/ Reloaded
               \/ PollActiveRows \/ Hide \/ Show
      BY <3>3, PageTypes
    <3> QED
      BY <2>2, <3>1, <3>2, <3>3 DEF Next
  <2> QED
    BY <2>1, <2>2
<1> QED
  BY GridInit, <1>1, PTL DEF Spec
=============================================================================
