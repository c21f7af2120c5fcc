-------------------------- MODULE AdmissionProofs --------------------------
(***************************************************************************)
(* More safety of the admission queue, for every number of parts, requests *)
(* and workers: which job is admitted next, which stages get a job, and    *)
(* when no part is ever served by two threads.                             *)
(***************************************************************************)
EXTENDS CostingPipelineProofs, FiniteSetTheorems

LEMMA InsertKeeps ==
    ASSUME jobs \in Seq(Job), NEW p, NEW q, NEW s, NEW prio, Insert(p, q, s, prio)
    PROVE  /\ DOMAIN jobs' = DOMAIN jobs \cup {Len(jobs) + 1}
           /\ \A j \in DOMAIN jobs : jobs'[j] = jobs[j]
           /\ jobs'[Len(jobs) + 1] = NewJob(p, q, s, prio)
<1> DEFINE row == NewJob(p, q, s, prio)
<1>1. jobs' = Append(jobs, row)
  BY DEF Insert
<1> HIDE DEF row
<1>2. /\ DOMAIN jobs' = DOMAIN jobs \cup {Len(jobs) + 1}
      /\ \A j \in DOMAIN jobs : jobs'[j] = jobs[j]
      /\ jobs'[Len(jobs) + 1] = row
  BY <1>1
<1> QED BY <1>2 DEF row

LEMMA SetStatusOne ==
    ASSUME TypeOK, NEW j \in DOMAIN jobs, NEW s, SetStatus(j, s)
    PROVE  /\ DOMAIN jobs' = DOMAIN jobs
           /\ \A i \in DOMAIN jobs \ {j} : jobs'[i] = jobs[i]
           /\ jobs'[j].status = s
           /\ jobs'[j].part = jobs[j].part /\ jobs'[j].queue = jobs[j].queue
<1>1. jobs[j] \in Job /\ jobs' = [jobs EXCEPT ![j] = [jobs[j] EXCEPT !.status = s]]
  BY RowFields DEF SetStatus
<1> QED BY <1>1 DEF Job

\* The rows there were keep their part, queue and status.
RowsKept ==
    \A j \in DOMAIN jobs : /\ jobs'[j].part = jobs[j].part /\ jobs'[j].queue = jobs[j].queue
                           /\ jobs'[j].status = jobs[j].status

LEMMA EnqueueKeeps ==
    ASSUME TypeOK, NEW p, NEW q, NEW s, Enqueue(p, q, s)
    PROVE  RowsKept
BY InsertKeeps DEF Enqueue, RowsKept, TypeOK

LEMMA PrioritiseKeeps ==
    ASSUME TypeOK, NEW r \in Requests, PrioritiseFinish(r)
    PROVE  RowsKept
<1>1. ASSUME NEW i \in DOMAIN jobs
      PROVE  /\ jobs'[i].part = jobs[i].part /\ jobs'[i].queue = jobs[i].queue
             /\ jobs'[i].status = jobs[i].status
  <2>1. jobs[i] \in Job
    BY RowFields
  <2> QED BY <2>1 DEF PrioritiseFinish, Job
<1> QED BY <1>1 DEF RowsKept

LEMMA RequeueKeeps ==
    ASSUME TypeOK, NEW r \in Requests, RequeueFinish(r)
    PROVE  RowsKept
BY InsertKeeps DEF RequeueFinish, RowsKept, TypeOK

LEMMA ReceiveKeeps ==
    ASSUME TypeOK, NEW q \in QueueNames, Receive(q)
    PROVE  RowsKept
<1> DEFINE m == Head(broker[q])
<1>1. CASE Insert(m.part, q, m.scope, DefaultPriority)
  BY <1>1, InsertKeeps DEF RowsKept, TypeOK
<1>2. CASE jobs' = [j \in DOMAIN jobs |->
                      IF j \in ActiveJobs(m.part, LaneForQueue[q])
                      THEN [jobs[j] EXCEPT !.scope = Widen(@, m.scope)] ELSE jobs[j]]
  <2>1. \A j \in DOMAIN jobs : jobs[j] \in Job
    BY RowFields
  <2> QED BY <1>2, <2>1 DEF Job, RowsKept
<1> QED BY <1>1, <1>2 DEF Receive
-----------------------------------------------------------------------------
(* The job that is admitted. *)

\* No waiting row is made running.
AdmitsNone ==
    \A j \in DOMAIN jobs : jobs'[j].status = "running" => jobs[j].status = "running"

LEMMA SetStatusAdmitsNone ==
    ASSUME TypeOK, NEW j \in DOMAIN jobs, NEW s, s # "running", SetStatus(j, s)
    PROVE  AdmitsNone
BY SetStatusOne DEF AdmitsNone

LEMMA OnlyClaimAdmits ==
    ASSUME IInv, Next
    PROVE  AdmitsNone \/ \E l \in Lanes : Claim(l)
<1> USE DEF IInv
<1>0. UNCHANGED jobs => AdmitsNone
  BY DEF AdmitsNone
<1>k. RowsKept => AdmitsNone
  BY DEF AdmitsNone, RowsKept
<1>1. ASSUME NEW p \in Parts, Upload(p) \/ UploadAborted(p) \/ UploadRefused(p)
      PROVE  AdmitsNone
  BY <1>0, <1>k, <1>1, EnqueueKeeps DEF Upload, UploadAborted, UploadRefused
<1>2. ASSUME NEW r \in Requests, RerunFinish(r) PROVE AdmitsNone
  BY <1>k, <1>2, EnqueueKeeps DEF RerunFinish
<1>3. ASSUME NEW r \in Requests, CancelFinish(r) PROVE AdmitsNone
  <2>1. req[r].job \in DOMAIN jobs
    BY <1>3 DEF CancelFinish, RequestsOK
  <2>2. SetStatus(req[r].job, "cancelled") \/ SetStatus(req[r].job, "failed")
    BY <1>3 DEF CancelFinish
  <2> QED BY <2>1, <2>2, SetStatusAdmitsNone
<1>4. ASSUME NEW r \in Requests, PrioritiseFinish(r) PROVE AdmitsNone
  BY <1>k, <1>4, PrioritiseKeeps
<1>5. ASSUME NEW r \in Requests, RequeueFinish(r) PROVE AdmitsNone
  BY <1>k, <1>5, RequeueKeeps
<1>6. ASSUME NEW r \in Requests, Supersede(r) PROVE AdmitsNone
  <2>1. ASSUME NEW j \in DOMAIN jobs PROVE jobs'[j].status = "running" => jobs[j].status = "running"
    <3>1. jobs[j] \in Job
      BY RowFields
    <3> QED BY <1>6, <3>1 DEF Supersede, Job
  <2> QED BY <2>1 DEF AdmitsNone
<1>6a. ASSUME NEW r \in Requests, InsertByHand(r) PROVE AdmitsNone
  BY <1>0, <1>k, <1>6a, InsertKeeps DEF InsertByHand, RowsKept, TypeOK
<1>7. ASSUME NEW q \in QueueNames, Receive(q) PROVE AdmitsNone
  BY <1>k, <1>7, ReceiveKeeps
<1>8. ASSUME NEW run \in runs, RunFinish(run) PROVE AdmitsNone
  BY <1>0, <1>8 DEF RunFinish
<1>9. ASSUME NEW j \in DOMAIN jobs, Close(j) \/ Reap(j) PROVE AdmitsNone
  BY <1>9, SetStatusAdmitsNone DEF Close, Reap
<1>10. ASSUME RequeueOrphans(worker') PROVE AdmitsNone
  <2>1. ASSUME NEW j \in DOMAIN jobs PROVE jobs'[j].status = "running" => jobs[j].status = "running"
    <3>1. jobs[j] \in Job
      BY RowFields
    <3> QED BY <1>10, <3>1 DEF RequeueOrphans, Job
  <2> QED BY <2>1 DEF AdmitsNone
<1>11. CASE Crash \/ Connect \/ Reconnect
  BY <1>0, <1>10, <1>11 DEF Crash, Connect, Reconnect, processVars
<1>12. ASSUME NEW r \in Requests, NEW x, Begin(r, x) PROVE AdmitsNone
  BY <1>0, <1>12 DEF Begin
<1>13. CASE Uploads
  BY <1>1, <1>13 DEF Uploads
<1>14. CASE Reruns
  BY <1>0, <1>2, <1>12, <1>14 DEF Reruns, RerunStart, RerunAborted, RerunRefused
<1>15. CASE QueuePage
  BY <1>3, <1>4, <1>5, <1>12, <1>15 DEF QueuePage, CancelStart, PrioritiseStart, RequeueStart
<1>16. CASE Scripts
  BY <1>0, <1>6, <1>6a, <1>16 DEF Scripts, ManualRequeue
<1>17. CASE Consumer
  BY <1>7, <1>8, <1>9, <1>11, <1>17 DEF Consumer
<1> QED BY <1>13, <1>14, <1>15, <1>16, <1>17 DEF Next

\* The rows of the page's list up to row j.
UpTo(j) ==
    {i \in QueuedIn(Lane(j)) :
        \/ jobs[i].priority < jobs[j].priority
        \/ jobs[i].priority = jobs[j].priority /\ i <= j}

LEMMA UpToFinite ==
    ASSUME TypeOK, NEW j \in DOMAIN jobs
    PROVE  IsFiniteSet(UpTo(j)) /\ Position(j) = Cardinality(UpTo(j)) /\ Position(j) \in Nat
<1>1. UpTo(j) \subseteq 1..Len(jobs) /\ Len(jobs) \in Nat
  BY DEF UpTo, QueuedIn, TypeOK
<1>2. IsFiniteSet(1..Len(jobs))
  BY <1>1, FS_Interval
<1>3. IsFiniteSet(UpTo(j))
  BY <1>1, <1>2, FS_Subset
<1>4. Position(j) = Cardinality(UpTo(j))
  BY DEF Position, UpTo
<1> QED BY <1>3, <1>4, FS_CardinalityType

\* A row that waits before another has the smaller position on the page.
LEMMA BeforeIsSmaller ==
    ASSUME TypeOK, NEW j \in DOMAIN jobs, NEW i \in DOMAIN jobs, Lane(i) = Lane(j),
           Before(j, i)
    PROVE  Position(j) <= Position(i)
<1>1. \A k \in DOMAIN jobs : jobs[k].priority \in Int /\ k \in Int
  BY RowFields DEF TypeOK
<1>2. ASSUME NEW k \in UpTo(j) PROVE k \in UpTo(i)
  <2>1. k \in DOMAIN jobs /\ k \in QueuedIn(Lane(i))
    BY DEF UpTo, QueuedIn
  <2>2. \/ jobs[k].priority < jobs[i].priority
        \/ jobs[k].priority = jobs[i].priority /\ k <= i
    BY <1>1, <2>1 DEF UpTo, Before
  <2> QED BY <2>1, <2>2 DEF UpTo
<1> QED BY <1>2, UpToFinite, FS_Subset

\* The rows that Claim passes over on the page are locked.
LEMMA ClaimTakesFirst ==
    ASSUME IInv, NEW l \in Lanes, Claim(l), NEW j \in DOMAIN jobs,
           jobs[j].status = "queued", jobs'[j].status = "running"
    PROVE  \A i \in QueuedIn(Lane(j)) : Position(i) < Position(j) => Locked(i)
<1> USE DEF IInv
<1>1. PICK k \in QueuedIn(l) :
        /\ \A i \in QueuedIn(l) \ {k} : Before(k, i) \/ Locked(i)
        /\ jobs' = [jobs EXCEPT ![k].status = "running", ![k].attempt = @ + 1,
                                ![k].worker = worker]
  BY DEF Claim
<1>2. k \in DOMAIN jobs /\ Lane(k) = l
  BY DEF QueuedIn
<1>3. \A i \in DOMAIN jobs \ {k} : jobs'[i] = jobs[i]
  BY <1>1, <1>2
<1>4. j = k
  BY <1>3
<1>5. ASSUME NEW i \in QueuedIn(Lane(j)), Position(i) < Position(j) PROVE Locked(i)
  <2>1. i \in DOMAIN jobs /\ Lane(i) = Lane(j)
    BY DEF QueuedIn
  <2>2. Position(i) \in Nat /\ Position(j) \in Nat
    BY <2>1, UpToFinite
  <2>3. i # j
    BY <1>5, <2>2
  <2>4. ~(Position(j) <= Position(i))
    BY <1>5, <2>2
  <2>5. ~Before(j, i)
    BY <2>1, <2>4, BeforeIsSmaller
  <2> QED BY <1>1, <1>2, <1>4, <2>3, <2>5
<1> QED BY <1>5

\* CostingPartQueueRow.cs:114-132: whatever priorities Move up and the scripts have
\* written, a row that is admitted passes over no row the page shows before it,
\* but those that a request or a script is changing at that moment.
THEOREM PositionOneIsAdmitted == Spec => PositionOneRunsNext
<1>1. IInv /\ [Next]_vars =>
        [\A j \in DOMAIN jobs :
            (jobs[j].status = "queued" /\ jobs'[j].status = "running")
            => \A i \in QueuedIn(Lane(j)) : Position(i) < Position(j) => Locked(i)]_vars
  <2>1. ASSUME IInv, Next, NEW j \in DOMAIN jobs, jobs[j].status = "queued",
               jobs'[j].status = "running"
        PROVE  \A i \in QueuedIn(Lane(j)) : Position(i) < Position(j) => Locked(i)
    <3>1. ~AdmitsNone
      BY <2>1 DEF AdmitsNone
    <3> QED BY <2>1, <3>1, OnlyClaimAdmits, ClaimTakesFirst
  <2> QED BY <2>1
<1> QED BY <1>1, Invariance, PTL DEF Spec, PositionOneRunsNext
-----------------------------------------------------------------------------
(* Stages nobody asked for. *)

NoReruns == Operations \cap {"rerun", "script"} = {}

\* The uploader ticked the stage, or a hand-off could not tell.
Asked(p, l) == l \in stages[p] \/ p \in misread

MessagesAsked ==
    \A q \in QueueNames : \A i \in DOMAIN broker[q] :
        Asked(broker[q][i].part, LaneForQueue[q])

\* What was asked for once stays asked for.
AskedStays == UNCHANGED stages /\ misread \subseteq misread'

AskedInv ==
    /\ SkippedNeverQueued
    /\ MessagesAsked
    /\ \A r \in Requests : req[r].op \notin {"rerun", "supersede", "insert"}

\* The rows a step adds are for stages that were asked for.
NewRowsAsked ==
    \A j \in DOMAIN jobs' \ DOMAIN jobs :
        Asked(jobs'[j].part, LaneForQueue[jobs'[j].queue])

LEMMA FirstQueueAsked ==
    ASSUME TypeOK, NEW p \in Parts
    PROVE  Asked(p, LaneForQueue[FirstQueue(stages[p])])
<1>1. stages[p] \in (SUBSET Lanes) \ {{}}
  BY PipelineAssumption DEF TypeOK
<1> QED BY <1>1 DEF FirstQueue, LaneForQueue, QueueNames, Lanes, Asked

LEMMA InsertAsked ==
    ASSUME TypeOK, NEW p, NEW q, NEW s, NEW prio, Insert(p, q, s, prio),
           Asked(p, LaneForQueue[q])
    PROVE  NewRowsAsked
<1>1. NewJob(p, q, s, prio).part = p /\ NewJob(p, q, s, prio).queue = q
  BY DEF NewJob
<1> QED BY <1>1, InsertKeeps DEF NewRowsAsked, TypeOK

LEMMA PublishAsked ==
    ASSUME TypeOK, MessagesAsked, AskedStays,
           NEW q \in QueueNames, NEW p, NEW s, Publish(q, p, s),
           LaneForQueue[q] \in stages[p] \/ p \in misread'
    PROVE  MessagesAsked'
<1> DEFINE m == [part |-> p, scope |-> s]
<1>1. broker \in [QueueNames -> Seq(Message)] /\ m.part = p
  BY DEF TypeOK
<1>2. broker' = [broker EXCEPT ![q] = Append(broker[q], m)]
  BY DEF Publish
<1> HIDE DEF m
<1>3. \A x \in QueueNames : broker'[x] = IF x = q THEN Append(broker[q], m) ELSE broker[x]
  BY <1>1, <1>2
<1>4. \A i \in DOMAIN Append(broker[q], m) :
        \/ i \in DOMAIN broker[q] /\ Append(broker[q], m)[i] = broker[q][i]
        \/ Append(broker[q], m)[i] = m
  <2>1. broker[q] \in Seq(Message)
    BY <1>1
  <2> QED BY <2>1
<1> QED BY <1>1, <1>3, <1>4 DEF MessagesAsked, Asked, AskedStays

LEMMA HandOffAsked ==
    ASSUME TypeOK, MessagesAsked, UNCHANGED stages,
           NEW p \in Parts, NEW l \in Lanes, NEW ok \in BOOLEAN, HandOff(p, l, ok)
    PROVE  MessagesAsked'
<1>1. AskedStays
  BY HandOffIs DEF AskedStays
<1>2. \/ Publish("Costing", p, Whole) /\ ("costing" \in stages[p] \/ p \in misread')
      \/ Publish("Ballooning", p, Whole) /\ ("ballooning" \in stages[p] \/ p \in misread')
      \/ UNCHANGED broker
  BY HandOffIs DEF ToCosting, ToBallooning, ToNone
<1>3. /\ "Costing" \in QueueNames /\ LaneForQueue["Costing"] = "costing"
      /\ "Ballooning" \in QueueNames /\ LaneForQueue["Ballooning"] = "ballooning"
  BY DEF QueueNames, LaneForQueue
<1>4. UNCHANGED broker => MessagesAsked'
  BY <1>1 DEF MessagesAsked, Asked, AskedStays
<1> QED BY <1>1, <1>2, <1>3, <1>4, PublishAsked

LEMMA ReceiveAsked ==
    ASSUME TypeOK, MessagesAsked, NEW q \in QueueNames, Receive(q)
    PROVE  NewRowsAsked /\ MessagesAsked'
<1> DEFINE m == Head(broker[q])
<1>1. broker \in [QueueNames -> Seq(Message)] /\ broker[q] \in Seq(Message) /\ broker[q] # << >>
  BY DEF TypeOK, Receive
<1>2. 1 \in DOMAIN broker[q] /\ m = broker[q][1]
  BY <1>1
<1>3. Asked(m.part, LaneForQueue[q])
  BY <1>2 DEF MessagesAsked
<1>4. NewRowsAsked
  <2>1. CASE Insert(m.part, q, m.scope, DefaultPriority)
    BY <1>3, <2>1, InsertAsked
  <2>2. CASE DOMAIN jobs' = DOMAIN jobs
    BY <2>2 DEF NewRowsAsked
  <2> QED BY <2>1, <2>2 DEF Receive
<1>5. MessagesAsked'
  <2>1. UNCHANGED <<stages, misread>>
    BY DEF Receive, uploadVars
  <2>2. CASE UNCHANGED broker
    BY <2>1, <2>2 DEF MessagesAsked, Asked
  <2>3. CASE broker' = [broker EXCEPT ![q] = Tail(broker[q])]
    <3>1. \A x \in QueueNames : broker'[x] = IF x = q THEN Tail(broker[q]) ELSE broker[x]
      BY <1>1, <2>3
    <3>2. \A i \in DOMAIN Tail(broker[q]) :
             i + 1 \in DOMAIN broker[q] /\ Tail(broker[q])[i] = broker[q][i + 1]
      BY <1>1
    <3> QED BY <2>1, <3>1, <3>2 DEF MessagesAsked, Asked
  <2> QED BY <2>2, <2>3 DEF Receive
<1> QED BY <1>4, <1>5

LEMMA AskedNext ==
    ASSUME NoReruns, IInv, AskedInv, Next
    PROVE  AskedInv'
<1> USE DEF IInv
<1>1. Rows /\ TypeOK'
  BY NextStep DEF StepOK
<1>2. UNCHANGED stages
  BY DEF Next, Uploads, Upload, UploadAborted, UploadRefused, Reruns, RerunStart, RerunFinish,
         RerunAborted, RerunRefused, QueuePage, CancelStart, PrioritiseStart, RequeueStart,
         Begin, CancelFinish, PrioritiseFinish, RequeueFinish, Scripts, ManualRequeue,
         Supersede, InsertByHand, Consumer, Receive, Claim, RunFinish, Close, Reap, Crash,
         Connect, Reconnect, uploadVars
<1>2a. AskedStays
  <2>1. ASSUME NEW run \in runs, RunFinish(run) PROVE misread \subseteq misread'
    <3> DEFINE p == jobs[run.job].part
               l == Lane(run.job)
    <3>1. p \in Parts /\ l \in Lanes
      BY RowFields DEF ThreadsOK
    <3>2. HandOff(p, l, TRUE) \/ HandOff(p, l, FALSE)
      BY <2>1 DEF RunFinish
    <3> HIDE DEF p, l
    <3> QED BY <3>1, <3>2, HandOffIs
  <2>2. (\E run \in runs : RunFinish(run)) \/ UNCHANGED misread
    BY DEF Next, Uploads, Upload, UploadAborted, UploadRefused, Reruns, RerunStart, RerunFinish,
         RerunAborted, RerunRefused, QueuePage, CancelStart, PrioritiseStart, RequeueStart,
         Begin, CancelFinish, PrioritiseFinish, RequeueFinish, Scripts, ManualRequeue,
         Supersede, InsertByHand, Consumer, Receive, Claim, Close, Reap, Crash,
         Connect, Reconnect, uploadVars
  <2> QED BY <1>2, <2>1, <2>2 DEF AskedStays
<1>3. UNCHANGED jobs => NewRowsAsked
  BY DEF NewRowsAsked
<1>4. UNCHANGED broker => MessagesAsked'
  BY <1>2a DEF AskedInv, MessagesAsked, Asked, AskedStays
<1>5. SameRows => NewRowsAsked
  BY DEF SameRows, NewRowsAsked, TypeOK
<1>6. NewRowsAsked /\ MessagesAsked'
  <2>0. ASSUME NEW p \in Parts, UploadRefused(p)
        PROVE  NewRowsAsked /\ MessagesAsked'
    BY <1>3, <1>4, <2>0 DEF UploadRefused
  <2>1. ASSUME NEW p \in Parts, Upload(p) \/ UploadAborted(p)
        PROVE  NewRowsAsked /\ MessagesAsked'
    <3>1. Asked(p, LaneForQueue[FirstQueue(stages[p])]) /\ FirstQueue(stages[p]) \in QueueNames
      BY FirstQueueAsked, FirstQueueType
    <3>2. MessagesAsked'
      BY <1>2a, <2>1, <3>1, PublishAsked DEF Upload, UploadAborted, AskedInv, Asked, AskedStays
    <3>3. NewRowsAsked
      BY <1>3, <2>1, <3>1, InsertAsked DEF Upload, UploadAborted, Enqueue
    <3> QED BY <3>2, <3>3
  <2>2. ~Reruns /\ ~Scripts
    BY DEF NoReruns, AskedInv, Reruns, RerunStart, RerunFinish, RerunAborted, RerunRefused,
           Scripts, ManualRequeue, Supersede, InsertByHand
  <2>3. ASSUME NEW r \in Requests, NEW x, Begin(r, x) PROVE NewRowsAsked /\ MessagesAsked'
    BY <1>3, <1>4, <2>3 DEF Begin
  <2>4. ASSUME NEW r \in Requests, CancelFinish(r) \/ PrioritiseFinish(r)
        PROVE  NewRowsAsked /\ MessagesAsked'
    <3>1. req[r].job \in DOMAIN jobs
      BY <2>4 DEF CancelFinish, PrioritiseFinish, RequestsOK
    <3>2. DOMAIN jobs' = DOMAIN jobs /\ UNCHANGED broker
      BY <2>4, <3>1 DEF CancelFinish, PrioritiseFinish, SetStatus
    <3> QED BY <1>4, <3>2 DEF NewRowsAsked
  <2>5. ASSUME NEW r \in Requests, RequeueFinish(r) PROVE NewRowsAsked /\ MessagesAsked'
    <3> DEFINE j == req[r].job
    <3>1. j \in DOMAIN jobs
      BY <2>5 DEF RequeueFinish, RequestsOK
    <3>2. Asked(jobs[j].part, LaneForQueue[jobs[j].queue])
      BY <3>1 DEF AskedInv, SkippedNeverQueued, Lane, Asked
    <3>3. \/ UNCHANGED jobs
          \/ Insert(jobs[j].part, jobs[j].queue, Whole, DefaultPriority)
      BY <2>5 DEF RequeueFinish
    <3>4. UNCHANGED broker
      BY <2>5 DEF RequeueFinish
    <3> QED BY <1>3, <1>4, <3>2, <3>3, <3>4, InsertAsked
  <2>6. ASSUME NEW q \in QueueNames, Receive(q) PROVE NewRowsAsked /\ MessagesAsked'
    BY <2>6, ReceiveAsked DEF AskedInv
  <2>7. ASSUME NEW l \in Lanes, Claim(l) PROVE NewRowsAsked /\ MessagesAsked'
    BY <1>4, <2>7 DEF Claim, NewRowsAsked
  <2>8. ASSUME NEW run \in runs, RunFinish(run) PROVE NewRowsAsked /\ MessagesAsked'
    <3> DEFINE p == jobs[run.job].part
               l == Lane(run.job)
    <3>1. p \in Parts /\ l \in Lanes
      BY RowFields DEF ThreadsOK
    <3>2. UNCHANGED jobs /\ (HandOff(p, l, TRUE) \/ HandOff(p, l, FALSE))
      BY <2>8 DEF RunFinish
    <3> HIDE DEF p, l
    <3> QED BY <1>2, <1>3, <3>1, <3>2, HandOffAsked DEF AskedInv
  <2>9. ASSUME NEW j \in DOMAIN jobs, Close(j) \/ Reap(j) PROVE NewRowsAsked /\ MessagesAsked'
    BY <1>4, <2>9 DEF Close, Reap, SetStatus, NewRowsAsked
  <2>10. CASE Crash \/ Connect \/ Reconnect
    BY <1>3, <1>4, <2>10 DEF Crash, Connect, Reconnect, RequeueOrphans, NewRowsAsked
  <2>11. CASE Uploads
    BY <2>0, <2>1, <2>11 DEF Uploads
  <2>12. CASE QueuePage
    BY <2>3, <2>4, <2>5, <2>12 DEF QueuePage, CancelStart, PrioritiseStart, RequeueStart
  <2>13. CASE Consumer
    BY <2>6, <2>7, <2>8, <2>9, <2>10, <2>13 DEF Consumer
  <2> QED BY <2>2, <2>11, <2>12, <2>13 DEF Next
<1>7. SkippedNeverQueued'
  <2>1. \A j \in DOMAIN jobs : jobs'[j].part = jobs[j].part /\ jobs'[j].queue = jobs[j].queue
    BY <1>1 DEF Rows, SameRows, OneMoreRow, RowFollows
  <2> QED BY <1>2a, <1>6, <2>1
      DEF AskedInv, SkippedNeverQueued, NewRowsAsked, Lane, Asked, AskedStays
<1>8. \A r \in Requests : req'[r].op \notin {"rerun", "supersede", "insert"}
  <2>1. ASSUME NEW r \in Requests, NEW x, req' = [req EXCEPT ![r] = x],
               x.op \notin {"rerun", "supersede", "insert"}
        PROVE  \A s \in Requests : req'[s].op \notin {"rerun", "supersede", "insert"}
    BY <2>1 DEF AskedInv, TypeOK
  <2>2. UNCHANGED req => \A s \in Requests : req'[s].op \notin {"rerun", "supersede", "insert"}
    BY DEF AskedInv
  <2>3. ~Reruns /\ ~Scripts
    BY DEF NoReruns, AskedInv, Reruns, RerunStart, RerunFinish, RerunAborted, RerunRefused,
           Scripts, ManualRequeue, Supersede, InsertByHand
  <2>4. CASE QueuePage
    BY <2>1, <2>4 DEF QueuePage, CancelStart, PrioritiseStart, RequeueStart, Begin, CancelFinish,
       PrioritiseFinish, RequeueFinish, End, Idle
  <2>5. CASE Uploads
    BY <2>2, <2>5 DEF Uploads, Upload, UploadAborted, UploadRefused
  <2>6. CASE Consumer
    BY <2>2, <2>6 DEF Consumer, Receive, Claim, RunFinish, Close, Reap, Crash, Connect, Reconnect
  <2> QED BY <2>3, <2>4, <2>5, <2>6 DEF Next
<1> QED BY <1>6, <1>7, <1>8 DEF AskedInv

\* ApiController.cs:261-264: where nobody re-runs a stage by hand, a stage that was not
\* ticked gets no job but after a hand-off of that very part that could not read what
\* was ticked, although the first message, the hand-off of each stage, messages handed
\* over twice and retried jobs all add rows of their own.
THEOREM SkippedStagesHaveNoJob ==
    ASSUME NoReruns
    PROVE  Spec => []SkippedNeverQueued
<1>1. Init => AskedInv
  BY DEF Init, AskedInv, SkippedNeverQueued, MessagesAsked, Idle
<1>2. IInv /\ AskedInv /\ [Next]_vars => AskedInv'
  <2>1. CASE UNCHANGED vars
    BY <2>1 DEF vars, AskedInv, SkippedNeverQueued, MessagesAsked, Asked, Lane
  <2> QED BY <2>1, AskedNext
<1>3. AskedInv => SkippedNeverQueued
  BY DEF AskedInv
<1> QED BY <1>1, <1>2, <1>3, Invariance, PTL DEF Spec
-----------------------------------------------------------------------------
(* One thread for each part and lane. *)

\* Nobody takes a row off the queue while its thread runs, and no upload is to come.
Undisturbed ==
    /\ Processed = Parts
    /\ Operations \cap {"cancel", "release", "script"} = {}
    /\ "stale" \notin Faults

\* The row of a thread is running and its lane has not ended for the dispatcher.
Served ==
    \A run \in runs : /\ jobs[run.job].status = "running"
                      /\ ~LaneEnded(jobs[run.job].part, Lane(run.job))

ServedInv ==
    /\ Served
    /\ fresh = {}
    /\ \A r \in Requests : req[r].op \notin {"cancel", "supersede", "insert"}

\* Columns change to Pending or In Progress only.
Reopens ==
    \A p \in Parts, c \in Columns : cols'[p][c] \in {cols[p][c], Pending, InProgress}

\* After the step, a lane is not over, and a thread is served.
StillOpen(p, l) == \E c \in LaneStatusColumns[l] : cols'[p][c] \in {Pending, InProgress}

ServedAfter(run) ==
    /\ jobs'[run.job].status = "running"
    /\ StillOpen(jobs'[run.job].part, LaneForQueue[jobs'[run.job].queue])

LEMMA ServedPrimed ==
    ASSUME \A run \in runs' : ServedAfter(run)
    PROVE  Served'
BY DEF Served, ServedAfter, StillOpen, LaneEnded, Lane

LEMMA NotEnded ==
    ASSUME Reopens, NEW p \in Parts, NEW l \in Lanes, ~LaneEnded(p, l)
    PROVE  StillOpen(p, l)
BY QueueTypes DEF Reopens, LaneEnded, StillOpen

LEMMA ServedQuietly ==
    ASSUME IInv, Served, RowsKept, Reopens, runs' \subseteq runs
    PROVE  Served'
<1>1. ASSUME NEW run \in runs' PROVE ServedAfter(run)
  <2>1. run.job \in DOMAIN jobs
    BY DEF IInv, ThreadsOK
  <2>2. /\ jobs'[run.job].part = jobs[run.job].part
        /\ jobs'[run.job].queue = jobs[run.job].queue /\ jobs'[run.job].status = "running"
    BY <2>1 DEF RowsKept, Served
  <2>3. jobs[run.job].part \in Parts /\ LaneForQueue[jobs[run.job].queue] \in Lanes
    BY <2>1, RowFields DEF IInv, Lane
  <2>4. ~LaneEnded(jobs[run.job].part, LaneForQueue[jobs[run.job].queue])
    BY DEF Served, Lane
  <2> QED BY <2>2, <2>3, <2>4, NotEnded DEF ServedAfter
<1> QED BY <1>1, ServedPrimed

LEMMA WithLaneReopens ==
    ASSUME TypeOK, NEW p \in Parts, NEW l \in Lanes, NEW s \in {Pending, InProgress},
           cols' = WithLane(p, l, s)
    PROVE  Reopens
BY DEF WithLane, Reopens, TypeOK

\* The end of a run: the other lanes of the part, and the other parts, do not end.
LEMMA HandOffElsewhere ==
    ASSUME TypeOK, NEW p \in Parts, NEW l \in Lanes, NEW ok \in BOOLEAN, HandOff(p, l, ok),
           NEW x \in Parts, NEW k \in Lanes, x # p \/ k # l, ~LaneEnded(x, k)
    PROVE  StillOpen(x, k)
<1> DEFINE ended == WithLane(p, l, IF ok THEN Completed ELSE Failed)
<1>1. cols' = ended \/ cols' = [ended EXCEPT ![p]["balloon"] = Pending]
  BY HandOffIs DEF ToCosting, ToBallooning, ToNone
<1>2. PICK c \in LaneStatusColumns[k] : cols[x][c] \in {Pending, InProgress}
  BY DEF LaneEnded
<1>3. c \in Columns
  BY QueueTypes
<1>4. x = p => c \notin LaneStatusColumns[l]
  BY <1>2 DEF LaneStatusColumns, Lanes
<1>5. ended[x][c] = cols[x][c]
  BY <1>3, <1>4 DEF WithLane, TypeOK
<1>6. ended \in [Parts -> [Columns -> StatusIds]]
  BY WithLaneType, Statuses DEF TypeOK, ColsOK
<1>7. cols'[x][c] \in {cols[x][c], Pending}
  <2> HIDE DEF ended
  <2>1. CASE cols' = ended
    BY <1>5, <2>1
  <2>2. CASE cols' = [ended EXCEPT ![p]["balloon"] = Pending]
    BY <1>3, <1>5, <1>6, <2>2
  <2> QED BY <1>1, <2>1, <2>2
<1> QED BY <1>2, <1>7 DEF StillOpen

LEMMA ServedNext ==
    ASSUME Undisturbed, IInv, ServedInv, Next
    PROVE  ServedInv'
<1> USE DEF IInv
<1>0. Reopens \/ cols' # cols
  BY DEF Reopens
<1>k. UNCHANGED jobs => RowsKept
  BY DEF RowsKept
<1>1. ASSUME NEW r \in Requests, NEW x, Begin(r, x) PROVE Served'
  BY <1>0, <1>k, <1>1, ServedQuietly DEF Begin, processVars, ServedInv
<1>2. ASSUME NEW r \in Requests, RerunFinish(r) PROVE Served'
  <2>1. RowsKept
    BY <1>2, EnqueueKeeps DEF RerunFinish
  <2>2. req[r].part \in Parts /\ req[r].queue \in QueueNames
    BY <1>2, RequestFields DEF RerunFinish
  <2>3. cols' = [cols EXCEPT ![req[r].part][StatusField[req[r].queue]] = Pending]
    BY <1>2 DEF RerunFinish
  <2>4. Reopens
    BY <2>2, <2>3 DEF Reopens, TypeOK
  <2> QED BY <1>2, <2>1, <2>4, ServedQuietly DEF RerunFinish, processVars, ServedInv
<1>3. ASSUME NEW r \in Requests, RerunAborted(r) \/ RerunRefused(r) PROVE Served'
  BY <1>0, <1>k, <1>3, ServedQuietly DEF RerunAborted, RerunRefused, processVars, ServedInv
<1>4. ASSUME NEW r \in Requests, PrioritiseFinish(r) PROVE Served'
  BY <1>0, <1>4, PrioritiseKeeps, ServedQuietly DEF PrioritiseFinish, processVars, ServedInv
<1>5. ASSUME NEW r \in Requests, RequeueFinish(r) PROVE Served'
  <2> DEFINE j == req[r].job
  <2>1. jobs[j].part \in Parts /\ Lane(j) \in Lanes
    BY <1>5, RowFields DEF RequeueFinish, RequestsOK
  <2>2. cols' = WithLane(jobs[j].part, Lane(j), Pending) \/ UNCHANGED cols
    BY <1>5 DEF RequeueFinish
  <2>3. Reopens
    <3> HIDE DEF j
    <3> QED BY <1>0, <2>1, <2>2, WithLaneReopens
  <2> QED BY <1>5, <2>3, RequeueKeeps, ServedQuietly DEF RequeueFinish, processVars, ServedInv
<1>6. ASSUME NEW q \in QueueNames, Receive(q) PROVE Served'
  BY <1>0, <1>6, ReceiveKeeps, ServedQuietly DEF Receive, processVars, ServedInv
<1>7. ASSUME NEW l \in Lanes, Claim(l) PROVE Served'
  <2>1. PICK j \in QueuedIn(l) :
          /\ jobs' = [jobs EXCEPT ![j].status = "running", ![j].attempt = @ + 1,
                                  ![j].worker = worker]
          /\ runs' = runs \cup {[job |-> j, attempt |-> jobs[j].attempt + 1,
                                 scope |-> jobs[j].scope]}
          /\ cols' = WithLane(jobs[j].part, l, InProgress)
    BY <1>7 DEF Claim
  <2>2. /\ j \in DOMAIN jobs /\ jobs[j].status = "queued" /\ Lane(j) = l
        /\ jobs[j].part \in Parts
    BY RowFields DEF QueuedIn
  <2>3. /\ jobs'[j].status = "running"
        /\ \A i \in DOMAIN jobs \ {j} : jobs'[i] = jobs[i]
        /\ jobs'[j].part = jobs[j].part /\ jobs'[j].queue = jobs[j].queue
    BY <2>1, <2>2, ClaimRows, PipelineAssumption DEF TypeOK, SameRows, RowFollows
  <2>4. Reopens
    BY <2>1, <2>2, WithLaneReopens
  <2>5. ASSUME NEW run \in runs PROVE ServedAfter(run)
    <3>1. run.job \in DOMAIN jobs \ {j}
      BY <2>2 DEF ThreadsOK
    <3>2. /\ jobs'[run.job] = jobs[run.job] /\ jobs[run.job].status = "running"
          /\ jobs[run.job].part \in Parts /\ LaneForQueue[jobs[run.job].queue] \in Lanes
      BY <2>3, <3>1, RowFields DEF ServedInv, Served, Lane
    <3>3. ~LaneEnded(jobs[run.job].part, LaneForQueue[jobs[run.job].queue])
      BY DEF ServedInv, Served, Lane
    <3> QED BY <2>4, <3>2, <3>3, NotEnded DEF ServedAfter
  <2>6. StillOpen(jobs[j].part, l)
    <3>1. \E c \in LaneStatusColumns[l] : c \in Columns
      BY DEF LaneStatusColumns, Lanes, Columns
    <3>2. \A c \in LaneStatusColumns[l] \cap Columns : cols'[jobs[j].part][c] = InProgress
      BY <2>1, <2>2 DEF WithLane, TypeOK
    <3> QED BY <3>1, <3>2 DEF StillOpen
  <2>7. \A run \in runs' : run \in runs \/ run.job = j
    BY <2>1
  <2>8. ASSUME NEW run \in runs', run.job = j PROVE ServedAfter(run)
    BY <2>2, <2>3, <2>6, <2>8 DEF ServedAfter, Lane
  <2> QED BY <2>5, <2>7, <2>8, ServedPrimed
<1>8. ASSUME NEW run \in runs, RunFinish(run) PROVE Served'
  <2> DEFINE p == jobs[run.job].part
             l == Lane(run.job)
  <2>1. p \in Parts /\ l \in Lanes /\ run.job \in DOMAIN jobs
    BY RowFields DEF ThreadsOK
  <2>2. /\ UNCHANGED jobs /\ runs' = runs \ {run}
        /\ HandOff(p, l, TRUE) \/ HandOff(p, l, FALSE)
    BY <1>8 DEF RunFinish
  <2>3. ASSUME NEW other \in runs, other # run PROVE ServedAfter(other)
    <3> DEFINE x == jobs[other.job].part
               k == Lane(other.job)
    <3>1. x \in Parts /\ k \in Lanes /\ other.job \in DOMAIN jobs
      BY RowFields DEF ThreadsOK
    <3>2. x # p \/ k # l
      <4>1. Active(run.job) /\ Active(other.job)
        BY DEF ServedInv, Served, Active
      <4>2. run.job # other.job
        BY <2>3 DEF OneThreadPerRow
      <4> QED BY <2>1, <3>1, <4>1, <4>2 DEF OneActiveJob
    <3>3. ~LaneEnded(x, k)
      BY DEF ServedInv, Served
    <3>4. StillOpen(x, k)
      <4> HIDE DEF p, l, x, k
      <4> QED BY <2>1, <2>2, <3>1, <3>2, <3>3, HandOffElsewhere
    <3> QED BY <2>2, <3>4 DEF ServedAfter, ServedInv, Served, Lane
  <2> QED BY <2>2, <2>3, ServedPrimed
<1>9. ASSUME NEW j \in DOMAIN jobs, Close(j) PROVE Served'
  <2>1. LaneEnded(jobs[j].part, Lane(j)) /\ UNCHANGED <<cols, runs>>
    BY <1>9 DEF Close, processVars
  <2>2. \A i \in DOMAIN jobs \ {j} : jobs'[i] = jobs[i]
    BY <1>9, SetStatusOne DEF Close
  <2>3. \A run \in runs : run.job \in DOMAIN jobs \ {j}
    BY <2>1 DEF ServedInv, Served, ThreadsOK
  <2>4. \A run \in runs' : ServedAfter(run)
    BY <2>1, <2>2, <2>3 DEF ServedInv, Served, ServedAfter, StillOpen, LaneEnded, Lane
  <2> QED BY <2>4, ServedPrimed
<1>10. ASSUME Crash \/ Connect PROVE Served'
  <2>1. runs' = {}
    BY <1>10 DEF Crash, Connect, ThreadsOK
  <2> QED BY <2>1 DEF Served
<1>11. ASSUME Reconnect PROVE Served'
  <2>1. RequeueOrphans(worker) /\ UNCHANGED <<cols, runs>>
    BY <1>11 DEF Reconnect, processVars
  <2>2. ASSUME NEW run \in runs PROVE jobs'[run.job] = jobs[run.job]
    <3>1. run.job \in DOMAIN jobs /\ run.job \notin Orphans(worker)
      BY DEF ThreadsOK, Orphans
    <3> QED BY <2>1, <3>1 DEF RequeueOrphans
  <2>3. \A run \in runs' : ServedAfter(run)
    BY <2>1, <2>2 DEF ServedInv, Served, ServedAfter, StillOpen, LaneEnded, Lane
  <2> QED BY <2>3, ServedPrimed
<1>12. ~Uploads /\ ~Scripts /\ \A j \in DOMAIN jobs : ~Reap(j)
  BY DEF Undisturbed, ServedInv, Uploads, Upload, UploadAborted, UploadRefused, Scripts,
         ManualRequeue, Supersede, InsertByHand, Reap
<1>13. \A r \in Requests : ~CancelFinish(r) /\ \A j \in DOMAIN jobs : ~CancelStart(r, j)
  BY DEF Undisturbed, ServedInv, CancelFinish, CancelStart
<1>14. Served'
  <2>1. CASE Reruns
    BY <1>1, <1>2, <1>3, <2>1 DEF Reruns, RerunStart
  <2>2. CASE QueuePage
    BY <1>1, <1>4, <1>5, <1>13, <2>2 DEF QueuePage, PrioritiseStart, RequeueStart
  <2>3. CASE Consumer
    BY <1>6, <1>7, <1>8, <1>9, <1>10, <1>11, <1>12, <2>3 DEF Consumer
  <2> QED BY <1>12, <2>1, <2>2, <2>3 DEF Next
<1>15. fresh' = {}
  BY <1>12 DEF ServedInv, Next, Reruns, RerunStart, RerunFinish, RerunAborted, RerunRefused,
     QueuePage, CancelStart, PrioritiseStart, RequeueStart, Begin, CancelFinish,
     PrioritiseFinish, RequeueFinish, Consumer, Receive, Claim,
     RunFinish, Close, Reap, Crash, Connect, Reconnect, uploadVars
<1>16. \A r \in Requests : req'[r].op \notin {"cancel", "supersede", "insert"}
  <2>1. ASSUME NEW r \in Requests, NEW x, req' = [req EXCEPT ![r] = x],
               x.op \notin {"cancel", "supersede", "insert"}
        PROVE  \A s \in Requests : req'[s].op \notin {"cancel", "supersede", "insert"}
    BY <2>1 DEF ServedInv, TypeOK
  <2>2. UNCHANGED req => \A s \in Requests : req'[s].op \notin {"cancel", "supersede", "insert"}
    BY DEF ServedInv
  <2>3. CASE Reruns
    BY <2>1, <2>3 DEF Reruns, RerunStart, RerunFinish, RerunAborted, RerunRefused, Begin, End,
       Idle
  <2>4. CASE QueuePage
    BY <1>13, <2>1, <2>4 DEF QueuePage, PrioritiseStart, RequeueStart, Begin,
       PrioritiseFinish, RequeueFinish, End, Idle
  <2>5. CASE Consumer
    BY <2>2, <2>5 DEF Consumer, Receive, Claim, RunFinish, Close, Reap, Crash, Connect, Reconnect
  <2> QED BY <1>12, <2>3, <2>4, <2>5 DEF Next
<1> QED BY <1>14, <1>15, <1>16 DEF ServedInv

\* CostingQueue.cs:43-46: where nobody cancels, releases or requeues behind a thread's
\* back and the reaper stays out, no two threads work for one part and lane, however
\* re-runs, retries, crashes, reconnects and repeated messages interleave.
THEOREM NoTwoThreadsForAPart ==
    ASSUME Undisturbed
    PROVE  Spec => []OneThreadPerPart
<1>1. Init => ServedInv
  BY DEF Undisturbed, Init, ServedInv, Served, Idle
<1>2. IInv /\ ServedInv /\ [Next]_vars => ServedInv'
  <2>1. CASE UNCHANGED vars
    BY <2>1 DEF vars, ServedInv, Served, LaneEnded, Lane
  <2> QED BY <2>1, ServedNext
<1>3. IInv /\ ServedInv => OneThreadPerPart
  BY DEF IInv, ServedInv, Served, OneThreadPerPart, OneActiveJob, Active, ThreadsOK,
     OneThreadPerRow
<1> QED BY <1>1, <1>2, <1>3, Invariance, PTL DEF Spec
=============================================================================
