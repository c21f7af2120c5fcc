----------------------------- MODULE PartsGrid -----------------------------
(***************************************************************************)
(* The wall of part cards that an operator watches while the pipeline      *)
(* works.  A card changes when the part's row is read again: some time     *)
(* after a progress message, on the slow timer for the stages it shows in  *)
(* flight, or with all others after a re-run.  Messages get lost, reads    *)
(* fail and their answers overtake each other.  One stage stands for the   *)
(* four of a part, which are shown and polled alike.                       *)
(***************************************************************************)
EXTENDS Naturals, FiniteSets

CONSTANTS
    Parts,     \* the parts on the page, numbered in the order of the view
    Active,    \* those whose stage is run; it is switched off for the others
    Outcomes,  \* how a run may end
    PollLimit  \* rows the slow timer reads at once

ASSUME PartsGridAssumption ==
    /\ Parts \subseteq Nat /\ IsFiniteSet(Parts)
    /\ Active \subseteq Parts
    /\ Outcomes \subseteq {"Completed", "Failed", "Upload Failed"} /\ Outcomes # {}
    /\ PollLimit \in Nat \ {0}

VARIABLES
    status,    \* the stage's status in the part's row
    queued,    \* parts with a job waiting or running
    recent,    \* parts touched in the last two hours
    card,      \* the status each card shows
    hidden,    \* whether the page is in a background tab
    progress,  \* parts a progress message on its way is about
    timers,    \* rowRefreshTimers: parts to be read again soon
    reads,     \* reads of each part's row: not served yet, or the status seen
    reload,    \* the reload of the whole list: none, not served yet, or seen
    accepted   \* whether an accepted re-run is still to be answered

vars == <<status, queued, recent, card, hidden, progress, timers, reads, reload, accepted>>

serverVars == <<status, queued, recent>>
pageVars   == <<card, hidden, timers>>

Statuses == {"Pending", "In Progress"} \cup Outcomes
Asked    == "asked"
NoReload == [p \in Parts |-> "none"]
ReloadAsked == [p \in Parts |-> Asked]

-----------------------------------------------------------------------------
(* The server and the pipeline. *)

\* A re-run is accepted: this page's own, whose answer reloads the list, or
\* another's.  It leaves UpdateDate as it was.
Rerun(p) ==
    /\ status[p] # "In Progress" /\ p \notin queued
    /\ status' = [status EXCEPT ![p] = "Pending"]
    /\ queued' = queued \cup {p}
    /\ accepted' \in {accepted, accepted \/ card[p] # "In Progress"}
    /\ UNCHANGED <<pageVars, recent, progress, reads, reload>>

Start(p) ==
    /\ p \in queued /\ status[p] = "Pending"
    /\ status' = [status EXCEPT ![p] = "In Progress"]
    /\ UNCHANGED <<pageVars, queued, recent, progress, reads, reload, accepted>>

Finish(p) ==
    /\ p \in queued /\ status[p] = "In Progress"
    /\ \E outcome \in Outcomes : status' = [status EXCEPT ![p] = outcome]
    /\ queued' = queued \ {p}
    /\ UNCHANGED <<pageVars, recent, progress, reads, reload, accepted>>

\* The consumer tells its progress, before or after it writes a status.
Publish(p) ==
    /\ progress' = progress \cup {p}
    /\ UNCHANGED <<serverVars, pageVars, reads, reload, accepted>>

\* Two hours have passed since the part was touched.
Age(p) ==
    /\ p \in recent
    /\ recent' = recent \ {p}
    /\ UNCHANGED <<pageVars, status, queued, progress, reads, reload, accepted>>

ServeRead(p) ==
    /\ Asked \in reads[p]
    /\ reads' = [reads EXCEPT ![p] = (@ \ {Asked}) \cup {status[p]}]
    /\ UNCHANGED <<serverVars, pageVars, progress, reload, accepted>>

ServeReload ==
    /\ reload = ReloadAsked
    /\ reload' = status
    /\ UNCHANGED <<serverVars, pageVars, progress, reads, accepted>>

-----------------------------------------------------------------------------
(* The page. *)

Ask(ps) == reads' = [p \in Parts |-> IF p \in ps THEN reads[p] \cup {Asked} ELSE reads[p]]

\* Each message for a part starts its timer anew.
Hear(p) ==
    /\ p \in progress
    /\ progress' = progress \ {p}
    /\ timers' = timers \cup {p}
    /\ UNCHANGED <<serverVars, card, hidden, reads, reload, accepted>>

LoseMessage(p) ==
    /\ p \in progress
    /\ progress' = progress \ {p}
    /\ UNCHANGED <<serverVars, pageVars, reads, reload, accepted>>

TimerFires(p) ==
    /\ p \in timers
    /\ timers' = timers \ {p}
    /\ Ask({p})
    /\ UNCHANGED <<serverVars, card, hidden, progress, reload, accepted>>

\* Variant: a Pending part counts as in flight however old.
InFlightAnyPending(p) == card[p] \in {"In Progress", "Pending"}

\* Pending for good is normal for a stage switched off.
InFlight(p) == card[p] = "In Progress" \/ (card[p] = "Pending" /\ p \in recent)

FirstOf(ps) == {p \in ps : Cardinality({q \in ps : q < p}) < PollLimit}

PollActiveRows ==
    /\ ~hidden
    /\ Ask(FirstOf({p \in Parts : InFlight(p)} \ timers))
    /\ UNCHANGED <<serverVars, pageVars, progress, reload, accepted>>

\* Variant: a read is answered before it is served.
AnswerUnserved(p) ==
    \E seen \in reads[p] :
        /\ card' = [card EXCEPT ![p] = seen]
        /\ reads' = [reads EXCEPT ![p] = @ \ {seen}]
        /\ UNCHANGED <<serverVars, hidden, timers, progress, reload, accepted>>

\* Answers come in any order.
Answer(p) ==
    \E seen \in reads[p] \ {Asked} :
        /\ card' = [card EXCEPT ![p] = seen]
        /\ reads' = [reads EXCEPT ![p] = @ \ {seen}]
        /\ UNCHANGED <<serverVars, hidden, timers, progress, reload, accepted>>

\* A read that fails, served or not, says nothing and changes nothing.
ReadFails(p) ==
    \E seen \in reads[p] \ {Asked} :
        /\ reads' = [reads EXCEPT ![p] = @ \ {seen}]
        /\ UNCHANGED <<serverVars, pageVars, progress, reload, accepted>>

\* The answer to a re-run reloads the list, in place of a reload under way.
RerunAnswered ==
    /\ accepted
    /\ accepted' = FALSE
    /\ reload' = ReloadAsked
    /\ UNCHANGED <<serverVars, pageVars, progress, reads>>

Reloaded ==
    /\ reload \notin {NoReload, ReloadAsked}
    /\ card' = reload
    /\ reload' = NoReload
    /\ UNCHANGED <<serverVars, hidden, timers, progress, reads, accepted>>

Hide ==
    /\ ~hidden
    /\ hidden' = TRUE
    /\ UNCHANGED <<serverVars, card, timers, progress, reads, reload, accepted>>

Show ==
    /\ hidden
    /\ hidden' = FALSE
    /\ UNCHANGED <<serverVars, card, timers, progress, reads, reload, accepted>>

-----------------------------------------------------------------------------
\* The page has just been loaded.
Init ==
    /\ status \in {f \in [Parts -> Statuses] :
                       \A p \in Parts : p \notin Active => f[p] = "Pending"}
    /\ queued \in {ps \in SUBSET Active :
                       \A p \in Active :
                           /\ status[p] = "In Progress" => p \in ps
                           /\ p \in ps => status[p] \notin Outcomes}
    /\ recent \in SUBSET Parts
    /\ card = status
    /\ hidden = FALSE
    /\ progress = {} /\ timers = {}
    /\ reads = [p \in Parts |-> {}]
    /\ reload = NoReload
    /\ accepted = FALSE

Next ==
    \/ \E p \in Active : Rerun(p) \/ Start(p) \/ Finish(p) \/ Publish(p)
    \/ \E p \in Parts : \/ Age(p) \/ Hear(p) \/ LoseMessage(p) \/ TimerFires(p)
                        \/ ServeRead(p) \/ Answer(p) \/ ReadFails(p)
    \/ ServeReload \/ RerunAnswered \/ Reloaded
    \/ PollActiveRows
    \/ Hide \/ Show

Spec == Init /\ [][Next]_vars

\* Jobs run to their end, time passes, the tab is looked at again and again,
\* the timers of a visible page fire, and not every read fails.
Fairness ==
    /\ \A p \in Active : WF_vars(Start(p)) /\ WF_vars(Finish(p))
    /\ \A p \in Parts : /\ WF_vars(Age(p)) /\ WF_vars(TimerFires(p))
                        /\ WF_vars(ServeRead(p)) /\ SF_vars(Answer(p))
    /\ WF_vars(RerunAnswered) /\ WF_vars(ServeReload) /\ WF_vars(Reloaded)
    /\ WF_vars(Show) /\ SF_vars(PollActiveRows)

FairSpec == Spec /\ Fairness

-----------------------------------------------------------------------------
\* Every variable keeps its type: a card shows a status that some row had.
TypeOK ==
    /\ status \in [Parts -> Statuses]
    /\ queued \subseteq Active
    /\ recent \subseteq Parts
    /\ card \in [Parts -> Statuses]
    /\ hidden \in BOOLEAN
    /\ progress \subseteq Active /\ timers \subseteq Parts
    /\ reads \in [Parts -> SUBSET (Statuses \cup {Asked})]
    /\ reload \in {NoReload, ReloadAsked} \cup [Parts -> Statuses]
    /\ accepted \in BOOLEAN

\* Once a part's stage runs no more, its card in the end stops saying that it
\* does: whatever messages were lost, whichever answers came late, and with
\* more parts in flight than one poll reads (pollActiveRows).
CardsCatchUp ==
    \A p \in Active :
        <>[](status[p] # "In Progress") => <>[](card[p] # "In Progress")

\* What pollActiveRows says of itself: a part that waits in the queue is read
\* again, so its card does not stay at Pending once the job is over.
QueuedIsPolled ==
    \A p \in Active :
        <>[](status[p] # "Pending") => <>[](card[p] # "Pending")

=============================================================================
