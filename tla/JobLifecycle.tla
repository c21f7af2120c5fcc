---------------------------- MODULE JobLifecycle ----------------------------
(***************************************************************************)
(* What the admission queue promises, whoever uses it: a key (a part and a *)
(* lane) has one live job, a job is admitted only when no thread serves it *)
(* and waits again only after its thread is gone, and a job that is over   *)
(* stays over.  Priorities, payloads, messages, processes and status       *)
(* columns are CostingPipeline's, which implements this.                   *)
(***************************************************************************)
EXTENDS Naturals, Sequences

CONSTANT Keys

VARIABLES
    table,   \* the jobs ever submitted, oldest first
    threads  \* the threads at work: the job and the attempt they serve

vars == <<table, threads>>

Phases == {"waiting", "running", "over"}

Live(k) == {j \in DOMAIN table : table[j].key = k /\ table[j].phase # "over"}

Served(j) == \E t \in threads : t.job = j

\* A job for key k, which has none that is live.
Submit(k) ==
    /\ Live(k) = {}
    /\ table' = Append(table, [key |-> k, phase |-> "waiting", tries |-> 0])
    /\ UNCHANGED threads

Admit(j) ==
    /\ table[j].phase = "waiting"
    /\ ~Served(j)
    /\ table' = [table EXCEPT ![j] = [key |-> @.key, phase |-> "running", tries |-> @.tries + 1]]
    /\ threads' = threads \cup {[job |-> j, attempt |-> table[j].tries + 1]}

\* The job is over; a thread that serves it may still be at work.
Settle(j) ==
    /\ table[j].phase # "over"
    /\ table' = [table EXCEPT ![j].phase = "over"]
    /\ UNCHANGED threads

\* Jobs that were running and lost their thread wait again.
Recover(lost) ==
    /\ \A j \in lost : table[j].phase = "running" /\ ~Served(j)
    /\ table' = [j \in DOMAIN table |->
                    IF j \in lost THEN [table[j] EXCEPT !.phase = "waiting"]
                    ELSE table[j]]
    /\ UNCHANGED threads

Exit(t) == threads' = threads \ {t} /\ UNCHANGED table

Die == threads' = {} /\ UNCHANGED table

Init == table = << >> /\ threads = {}

Next ==
    \/ \E k \in Keys : Submit(k)
    \/ \E j \in DOMAIN table : Admit(j) \/ Settle(j)
    \/ \E lost \in SUBSET DOMAIN table : Recover(lost)
    \/ \E t \in threads : Exit(t)
    \/ Die

Spec == Init /\ [][Next]_vars
=============================================================================
