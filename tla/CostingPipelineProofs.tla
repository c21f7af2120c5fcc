----------------------- MODULE CostingPipelineProofs -----------------------
(***************************************************************************)
(* The safety of the admission queue for every number of parts, requests,  *)
(* lanes' capacities, operations and faults.                               *)
(***************************************************************************)
EXTENDS CostingPipeline, TLAPS

\* A request of the Processing Queue page is about a row that exists.
RequestsOK ==
    \A r \in Requests : req[r].op \in {"cancel", "prioritise", "requeue"}
                            => req[r].job \in DOMAIN jobs

\* A thread lives in the process that is up, and its row is not waiting; while
\* the row is running it carries the WorkerId of that process.
ThreadsOK ==
    \A run \in runs :
        /\ up
        /\ run.job \in DOMAIN jobs
        /\ jobs[run.job].status # "queued"
        /\ jobs[run.job].status = "running" => jobs[run.job].worker = worker

\* A new process needs a number of its own: a crash leaves one spare.
WorkerSpare == ~up => worker < MaxWorkers

IInv == /\ TypeOK /\ RequestsOK /\ WorkerSpare
        /\ OneActiveJob /\ ThreadsOK /\ OneThreadPerRow

\* What a step may do to a row: its part and queue stay, it waits again only when
\* it was an orphan, and it runs only if it ran or waited.
RowFollows(j) ==
    /\ jobs'[j].part = jobs[j].part
    /\ jobs'[j].queue = jobs[j].queue
    /\ jobs'[j].status = "queued" =>
          jobs[j].status = "queued" \/ j \in Orphans(worker')
    /\ jobs'[j].status = "running" =>
          \/ jobs[j].status = "running" /\ jobs'[j].worker = jobs[j].worker
          \/ jobs[j].status = "queued" /\ jobs'[j].worker = worker

\* The table after a step that adds no row.
SameRows ==
    /\ jobs' \in Seq(Job)
    /\ Len(jobs') = Len(jobs)
    /\ \A j \in DOMAIN jobs : RowFollows(j)

\* The table after a step that appends an active row to a lane with none for its part.
OneMoreRow ==
    /\ jobs' \in Seq(Job)
    /\ Len(jobs') = Len(jobs) + 1
    /\ Len(jobs') <= MaxJobs
    /\ \A j \in DOMAIN jobs : RowFollows(j)
    /\ jobs'[Len(jobs')].status = "queued"
    /\ \A j \in DOMAIN jobs :
          (/\ jobs[j].part = jobs'[Len(jobs')].part
           /\ LaneForQueue[jobs[j].queue] = LaneForQueue[jobs'[Len(jobs')].queue])
            => jobs'[j].status \notin {"queued", "running"}

Rows == SameRows \/ OneMoreRow
-----------------------------------------------------------------------------
(* The table. *)

LEMMA QueueTypes ==
    /\ LaneForQueue \in [QueueNames -> Lanes]
    /\ StatusField \in [QueueNames -> Columns]
    /\ LaneStatusColumns \in [Lanes -> SUBSET Columns]
    /\ \A l \in Lanes : l \in {"drawing", "costing", "ballooning"}
BY DEF LaneForQueue, StatusField, LaneStatusColumns, QueueNames, Lanes, Columns

LEMMA NewJobType ==
    ASSUME NEW p \in Parts, NEW q \in QueueNames, NEW s \in Scopes, NEW prio \in Int
    PROVE  NewJob(p, q, s, prio) \in Job
BY PipelineAssumption DEF NewJob, Job, JobStatus

LEMMA JobUpdate ==
    ASSUME NEW row \in Job, NEW s \in JobStatus, NEW w \in 0..MaxWorkers
    PROVE  [row EXCEPT !.status = s, !.worker = w] \in Job
BY DEF Job

LEMMA JobAttempt ==
    ASSUME NEW row \in Job, NEW s \in JobStatus, NEW a \in Nat, NEW w \in 0..MaxWorkers
    PROVE  [row EXCEPT !.status = s, !.attempt = a, !.worker = w] \in Job
BY DEF Job

\* A step that leaves the table alone.
LEMMA UnchangedRows ==
    ASSUME jobs \in Seq(Job), UNCHANGED jobs
    PROVE  SameRows
BY DEF SameRows, RowFollows

\* INSERT under the unique index adds one waiting row to a free lane of its part.
LEMMA InsertRows ==
    ASSUME jobs \in Seq(Job),
           NEW p \in Parts, NEW q \in QueueNames, NEW s \in Scopes, NEW prio \in Int,
           Insert(p, q, s, prio), MaxJobs \in Nat
    PROVE  OneMoreRow
<1> DEFINE new == NewJob(p, q, s, prio)
<1>1. new \in Job
  BY NewJobType
<1>2. jobs' = Append(jobs, new) /\ Len(jobs) < MaxJobs
  BY DEF Insert
<1>3. /\ jobs' \in Seq(Job)
      /\ Len(jobs') = Len(jobs) + 1
      /\ jobs'[Len(jobs) + 1] = new
      /\ \A j \in DOMAIN jobs : jobs'[j] = jobs[j]
  <2> HIDE DEF new
  <2> QED BY <1>1, <1>2
<1>4. Len(jobs') <= MaxJobs
  BY <1>2, <1>3
<1>5. new.status = "queued" /\ new.part = p /\ new.queue = q
  BY DEF NewJob
<1>6. \A j \in DOMAIN jobs : RowFollows(j)
  BY <1>3 DEF RowFollows
<1>7. \A j \in DOMAIN jobs :
         (jobs[j].part = p /\ LaneForQueue[jobs[j].queue] = LaneForQueue[q])
           => jobs[j].status \notin {"queued", "running"}
  BY DEF Insert, ActiveJobs, Active, Lane
<1> QED
  <2> HIDE DEF new
  <2> QED BY <1>3, <1>4, <1>5, <1>6, <1>7 DEF OneMoreRow

LEMMA EnqueueRows ==
    ASSUME jobs \in Seq(Job),
           NEW p \in Parts, NEW q \in QueueNames, NEW s \in Scopes,
           Enqueue(p, q, s), MaxJobs \in Nat
    PROVE  Rows
<1>1. CASE Insert(p, q, s, DefaultPriority)
  BY <1>1, InsertRows DEF Rows, DefaultPriority
<1>2. CASE UNCHANGED jobs
  BY <1>2, UnchangedRows DEF Rows
<1> QED BY <1>1, <1>2 DEF Enqueue

\* SetStatus closes a row, whatever it was.
LEMMA SetStatusRows ==
    ASSUME jobs \in Seq(Job), NEW j \in DOMAIN jobs,
           NEW s \in {"completed", "failed", "cancelled"}, SetStatus(j, s)
    PROVE  SameRows
<1>1. jobs[j] \in Job
  OBVIOUS
<1>2. [jobs[j] EXCEPT !.status = s] \in Job
  BY <1>1 DEF Job, JobStatus
<1>3. jobs' = [jobs EXCEPT ![j] = [jobs[j] EXCEPT !.status = s]]
  BY DEF SetStatus
<1>4. jobs' \in Seq(Job) /\ Len(jobs') = Len(jobs)
  BY <1>2, <1>3
<1>5. jobs'[j] = [jobs[j] EXCEPT !.status = s] /\ \A i \in DOMAIN jobs \ {j} : jobs'[i] = jobs[i]
  BY <1>3
<1>6. \A i \in DOMAIN jobs : RowFollows(i)
  BY <1>1, <1>5 DEF RowFollows, Job
<1> QED BY <1>4, <1>6 DEF SameRows

\* A step that rewrites rows in place, each of them as RowFollows allows.
LEMMA InPlaceRows ==
    ASSUME jobs \in Seq(Job), NEW new, jobs' = [j \in DOMAIN jobs |-> new[j]],
           \A j \in DOMAIN jobs : new[j] \in Job
    PROVE  /\ jobs' \in Seq(Job)
           /\ Len(jobs') = Len(jobs)
           /\ \A j \in DOMAIN jobs : jobs'[j] = new[j]
<1>1. DOMAIN jobs = 1..Len(jobs) /\ Len(jobs) \in Nat
  OBVIOUS
<1>2. jobs' = [j \in 1..Len(jobs) |-> new[j]]
  BY <1>1
<1>3. jobs' \in [1..Len(jobs) -> Job]
  BY <1>1, <1>2
<1>4. jobs' \in Seq(Job)
  BY <1>1, <1>3
<1>5. DOMAIN jobs' = 1..Len(jobs)
  BY <1>2
<1>6. Len(jobs') = Len(jobs)
  BY <1>1, <1>4, <1>5
<1> QED BY <1>1, <1>2, <1>4, <1>6

\* The orphan recovery puts back only rows of other processes.
LEMMA RequeueOrphansRows ==
    ASSUME jobs \in Seq(Job), RequeueOrphans(worker'), MaxWorkers \in Nat
    PROVE  SameRows
<1> DEFINE new == [j \in DOMAIN jobs |->
                      IF j \in Orphans(worker')
                      THEN [jobs[j] EXCEPT !.status = "queued", !.worker = 0]
                      ELSE jobs[j]]
<1>1. \A j \in DOMAIN jobs : jobs[j] \in Job
  OBVIOUS
<1>2. \A j \in DOMAIN jobs : new[j] \in Job
  <2>1. "queued" \in JobStatus /\ 0 \in 0..MaxWorkers
    BY DEF JobStatus
  <2> QED BY <1>1, <2>1, JobUpdate
<1>3. jobs' = new
  BY DEF RequeueOrphans
<1>4. /\ jobs' \in Seq(Job) /\ Len(jobs') = Len(jobs)
      /\ \A j \in DOMAIN jobs : jobs'[j] = new[j]
  <2> HIDE DEF new
  <2>1. jobs' = [j \in DOMAIN jobs |-> new[j]]
    BY <1>3 DEF new
  <2> QED BY <1>2, <2>1, InPlaceRows
<1>5. ASSUME NEW j \in DOMAIN jobs PROVE RowFollows(j)
  <2>1. CASE j \in Orphans(worker')
    BY <1>1, <1>4, <2>1 DEF RowFollows, Job
  <2>2. CASE j \notin Orphans(worker')
    BY <1>4, <2>2 DEF RowFollows
  <2> QED BY <2>1, <2>2
<1> QED BY <1>4, <1>5 DEF SameRows

\* A message joins the active row of its part and lane.
LEMMA ReceiveRows ==
    ASSUME jobs \in Seq(Job), broker \in [QueueNames -> Seq(Message)], MaxJobs \in Nat,
           NEW q \in QueueNames, Receive(q)
    PROVE  Rows
<1> DEFINE m == Head(broker[q])
           waiting == ActiveJobs(m.part, LaneForQueue[q])
           new == [j \in DOMAIN jobs |->
                      IF j \in waiting
                      THEN [jobs[j] EXCEPT !.scope = Widen(@, m.scope)]
                      ELSE jobs[j]]
<1>1. m \in Message
  BY DEF Receive
<1>2. m.part \in Parts /\ m.scope \in Scopes
  BY <1>1 DEF Message
<1>3. CASE Insert(m.part, q, m.scope, DefaultPriority)
  <2> HIDE DEF m
  <2> QED BY <1>2, <1>3, InsertRows DEF Rows, DefaultPriority
<1>4. CASE jobs' = new
  <2>1. \A j \in DOMAIN jobs : jobs[j] \in Job
    OBVIOUS
  <2>2. \A x \in Scopes : Widen(x, m.scope) \in Scopes
    BY DEF Widen, Scopes
  <2>3. \A j \in DOMAIN jobs : new[j] \in Job
    BY <2>1, <2>2 DEF Job
  <2>4. /\ jobs' \in Seq(Job) /\ Len(jobs') = Len(jobs)
        /\ \A j \in DOMAIN jobs : jobs'[j] = new[j]
    <3> HIDE DEF new
    <3>1. jobs' = [j \in DOMAIN jobs |-> new[j]]
      BY <1>4 DEF new
    <3> QED BY <2>3, <3>1, InPlaceRows
  <2>5. \A j \in DOMAIN jobs : RowFollows(j)
    BY <2>1, <2>4 DEF RowFollows, Job
  <2> QED BY <2>4, <2>5 DEF SameRows, Rows
<1> QED BY <1>3, <1>4 DEF Receive

\* The row that Claim admits was waiting; it gets the WorkerId of the process.
LEMMA ClaimRows ==
    ASSUME jobs \in Seq(Job), worker \in 1..MaxWorkers, MaxWorkers \in Nat,
           NEW j \in DOMAIN jobs, jobs[j].status = "queued",
           jobs' = [jobs EXCEPT ![j].status = "running", ![j].attempt = @ + 1,
                                ![j].worker = worker]
    PROVE  /\ SameRows
           /\ jobs'[j].status = "running" /\ jobs'[j].worker = worker
           /\ \A i \in DOMAIN jobs \ {j} : jobs'[i] = jobs[i]
<1> DEFINE row == [jobs[j] EXCEPT !.status = "running", !.attempt = @ + 1, !.worker = worker]
<1>1. jobs[j] \in Job
  OBVIOUS
<1>2. row \in Job
  <2>1. "running" \in JobStatus /\ worker \in 0..MaxWorkers /\ jobs[j].attempt + 1 \in Nat
    BY <1>1 DEF Job, JobStatus
  <2> QED BY <1>1, <2>1, JobAttempt
<1>3. jobs' = [jobs EXCEPT ![j] = row]
  OBVIOUS
<1>4. /\ jobs' \in Seq(Job) /\ Len(jobs') = Len(jobs) /\ jobs'[j] = row
      /\ \A i \in DOMAIN jobs \ {j} : jobs'[i] = jobs[i]
  <2> HIDE DEF row
  <2> QED BY <1>2, <1>3
<1>5. /\ row.part = jobs[j].part /\ row.queue = jobs[j].queue
      /\ row.status = "running" /\ row.worker = worker
  BY <1>1 DEF Job
<1>6. \A i \in DOMAIN jobs : RowFollows(i)
  <2> HIDE DEF row
  <2> QED BY <1>4, <1>5 DEF RowFollows
<1> QED
  <2> HIDE DEF row
  <2> QED BY <1>4, <1>5, <1>6 DEF SameRows

LEMMA PrioritiseRows ==
    ASSUME jobs \in Seq(Job), NEW j \in DOMAIN jobs, NEW prio \in Int,
           jobs' = [jobs EXCEPT ![j].priority = prio]
    PROVE  SameRows
<1>1. jobs[j] \in Job
  OBVIOUS
<1>2. [jobs[j] EXCEPT !.priority = prio] \in Job
  BY <1>1 DEF Job
<1>3. jobs' = [jobs EXCEPT ![j] = [jobs[j] EXCEPT !.priority = prio]]
  OBVIOUS
<1>4. jobs' \in Seq(Job) /\ Len(jobs') = Len(jobs)
  BY <1>2, <1>3
<1>5. /\ jobs'[j] = [jobs[j] EXCEPT !.priority = prio]
      /\ \A i \in DOMAIN jobs \ {j} : jobs'[i] = jobs[i]
  BY <1>3
<1>6. \A i \in DOMAIN jobs : RowFollows(i)
  BY <1>1, <1>5 DEF RowFollows, Job
<1> QED BY <1>4, <1>6 DEF SameRows

\* A script cancels the active row of its part and lane.
LEMMA SupersedeRows ==
    ASSUME jobs \in Seq(Job), NEW r \in Requests, Supersede(r)
    PROVE  SameRows
<1> DEFINE gone == ActiveJobs(req[r].part, LaneForQueue[req[r].queue])
           new  == [j \in DOMAIN jobs |->
                       IF j \in gone THEN [jobs[j] EXCEPT !.status = "cancelled"]
                       ELSE jobs[j]]
<1>1. \A j \in DOMAIN jobs : jobs[j] \in Job
  OBVIOUS
<1>2. \A j \in DOMAIN jobs : new[j] \in Job
  BY <1>1 DEF Job, JobStatus
<1>3. jobs' = new
  BY DEF Supersede
<1>4. ASSUME NEW j \in DOMAIN jobs PROVE RowFollows(j)
  <2>1. CASE j \in gone
    BY <1>1, <1>3, <2>1 DEF RowFollows, Job
  <2>2. CASE j \notin gone
    <3>1. jobs'[j] = jobs[j]
      BY <1>3, <2>2
    <3> QED BY <3>1 DEF RowFollows
  <2> QED BY <2>1, <2>2
<1>5. jobs' \in Seq(Job) /\ Len(jobs') = Len(jobs)
  <2> HIDE DEF gone
  <2>1. new \in [1..Len(jobs) -> Job] /\ Len(jobs) \in Nat
    BY <1>2
  <2> HIDE DEF new
  <2> QED BY <1>3, <2>1
<1> QED BY <1>4, <1>5 DEF SameRows
-----------------------------------------------------------------------------
(* The other variables. *)

ColsOK   == cols \in [Parts -> [Columns -> StatusIds]]
BrokerOK == broker \in [QueueNames -> Seq(Message)]

LEMMA Statuses == {Pending, InProgress, Completed, Failed, Skipped} \subseteq StatusIds
BY DEF Pending, InProgress, Completed, Failed, Skipped, StatusIds

LEMMA WithLaneType ==
    ASSUME ColsOK, NEW p \in Parts, NEW l \in Lanes, NEW s \in StatusIds
    PROVE  WithLane(p, l, s) \in [Parts -> [Columns -> StatusIds]]
<1> DEFINE row == [c \in Columns |-> IF c \in LaneStatusColumns[l] THEN s ELSE cols[p][c]]
<1>1. row \in [Columns -> StatusIds]
  BY DEF ColsOK
<1>2. WithLane(p, l, s) = [cols EXCEPT ![p] = row]
  BY DEF WithLane
<1> QED
  <2> HIDE DEF row
  <2> QED BY <1>1, <1>2 DEF ColsOK

LEMMA OneColumnType ==
    ASSUME NEW t \in [Parts -> [Columns -> StatusIds]],
           NEW p \in Parts, NEW c \in Columns, NEW s \in StatusIds
    PROVE  [t EXCEPT ![p][c] = s] \in [Parts -> [Columns -> StatusIds]]
<1>1. [t[p] EXCEPT ![c] = s] \in [Columns -> StatusIds]
  OBVIOUS
<1> QED BY <1>1

LEMMA PublishType ==
    ASSUME BrokerOK, NEW q \in QueueNames, NEW p \in Parts, NEW s \in Scopes,
           Publish(q, p, s)
    PROVE  BrokerOK'
<1> DEFINE m == [part |-> p, scope |-> s]
<1>1. m \in Message
  BY DEF Message
<1>2. Append(broker[q], m) \in Seq(Message)
  <2> HIDE DEF m
  <2> QED BY <1>1 DEF BrokerOK
<1> QED BY <1>2 DEF Publish, BrokerOK

LEMMA RowsType ==
    ASSUME TypeOK, Rows
    PROVE  /\ jobs' \in Seq(Job) /\ Len(jobs') <= MaxJobs
           /\ DOMAIN jobs \subseteq DOMAIN jobs'
BY PipelineAssumption DEF TypeOK, Rows, SameRows, OneMoreRow

LEMMA RowFields ==
    ASSUME TypeOK, NEW j \in DOMAIN jobs
    PROVE  /\ jobs[j] \in Job /\ j \in 1..MaxJobs
           /\ jobs[j].part \in Parts /\ jobs[j].queue \in QueueNames
           /\ jobs[j].scope \in Scopes /\ jobs[j].priority \in Int
           /\ jobs[j].attempt \in Nat
           /\ Lane(j) \in Lanes
<1>1. jobs[j] \in Job /\ j \in 1..MaxJobs
  BY PipelineAssumption DEF TypeOK
<1>2. jobs[j].queue \in QueueNames
  BY <1>1 DEF Job
<1> QED BY <1>1, <1>2, QueueTypes DEF Job, Lane

\* A request that begins, ends or stays keeps the table of requests in order.
LEMMA RequestStep ==
    ASSUME TypeOK, RequestsOK, Rows,
           NEW r \in Requests, NEW x \in Request, req' = [req EXCEPT ![r] = x],
           x.op \in {"cancel", "prioritise", "requeue"} => x.job \in DOMAIN jobs
    PROVE  req' \in [Requests -> Request] /\ RequestsOK'
<1>1. req' \in [Requests -> Request]
  BY DEF TypeOK
<1>2. DOMAIN jobs \subseteq DOMAIN jobs'
  BY RowsType
<1>3. \A s \in Requests : req'[s] = IF s = r THEN x ELSE req[s]
  BY DEF TypeOK
<1> QED BY <1>1, <1>2, <1>3 DEF RequestsOK

LEMMA RequestEnds ==
    ASSUME TypeOK, RequestsOK, Rows, NEW r \in Requests, End(r)
    PROVE  req' \in [Requests -> Request] /\ RequestsOK'
<1>1. Idle \in Request /\ Idle.op \notin {"cancel", "prioritise", "requeue"}
  BY DEF Idle, Request
<1> QED BY <1>1, RequestStep DEF End

LEMMA RequestsStay ==
    ASSUME TypeOK, RequestsOK, Rows, UNCHANGED req
    PROVE  req' \in [Requests -> Request] /\ RequestsOK'
BY RowsType DEF TypeOK, RequestsOK

LEMMA RequestFields ==
    ASSUME TypeOK, NEW r \in Requests
    PROVE  /\ req[r].op = "rerun" =>
                  /\ req[r].part \in Parts /\ req[r].queue \in QueueNames
                  /\ req[r].scope \in Scopes
           /\ req[r].op = "cancel" => req[r].seen \in {"queued", "running"}
           /\ req[r].op = "prioritise" => req[r].top \in Int
           /\ req[r].op \in {"supersede", "insert"} =>
                  req[r].part \in Parts /\ req[r].queue \in QueueNames
<1>1. req[r] \in Request
  BY DEF TypeOK
<1>2. CASE req[r] = Idle
  BY <1>2 DEF Idle
<1>3. CASE req[r] \in [op: {"rerun"}, part: Parts, queue: QueueNames, scope: Scopes]
  BY <1>3
<1>4. CASE req[r] \in [op: {"cancel"}, job: 1..MaxJobs, seen: {"queued", "running"}]
  BY <1>4
<1>5. CASE req[r] \in [op: {"prioritise"}, job: 1..MaxJobs, top: Int]
  BY <1>5
<1>6. CASE req[r] \in [op: {"requeue"}, job: 1..MaxJobs, found: BOOLEAN]
  BY <1>6
<1>7. CASE req[r] \in [op: {"supersede", "insert"}, part: Parts, queue: QueueNames]
  BY <1>7
<1> QED BY <1>1, <1>2, <1>3, <1>4, <1>5, <1>6, <1>7 DEF Request
-----------------------------------------------------------------------------
(* Every step keeps the types, the requests and the rows in order. *)

StepOK == TypeOK' /\ RequestsOK' /\ Rows

\* The variables outside the table, the columns, the broker and the requests.
RestOK ==
    /\ runs' \subseteq Run /\ up' \in BOOLEAN /\ worker' \in 1..MaxWorkers
    /\ fresh' \subseteq Parts /\ stages' \in [Parts -> StageChoices]
    /\ refused' \subseteq Parts /\ misread' \subseteq Parts
    /\ lines' \in [Parts -> Nat] /\ blank' \in [Parts -> SUBSET Pages]

LEMMA Assemble ==
    ASSUME TypeOK, Rows, RestOK, ColsOK', BrokerOK', req' \in [Requests -> Request],
           RequestsOK'
    PROVE  StepOK
BY RowsType DEF StepOK, TypeOK, RestOK, ColsOK, BrokerOK

LEMMA RestUnchanged ==
    ASSUME TypeOK, UNCHANGED <<processVars, outputVars, uploadVars>>
    PROVE  RestOK
BY DEF TypeOK, RestOK, processVars, outputVars, uploadVars

LEMMA ColsUnchanged == ASSUME TypeOK, UNCHANGED cols PROVE ColsOK'
BY DEF TypeOK, ColsOK

LEMMA BrokerUnchanged == ASSUME TypeOK, UNCHANGED broker PROVE BrokerOK'
BY DEF TypeOK, BrokerOK

LEMMA RowsUnchanged == ASSUME TypeOK, UNCHANGED jobs PROVE Rows
BY UnchangedRows DEF TypeOK, Rows

LEMMA FirstQueueType == \A asked : FirstQueue(asked) \in QueueNames
BY DEF FirstQueue, QueueNames

LEMMA UploadStep ==
    ASSUME TypeOK, RequestsOK, NEW p \in Parts, Upload(p) \/ UploadAborted(p)
    PROVE  StepOK
<1> DEFINE q == FirstQueue(stages[p])
<1>1. q \in QueueNames /\ Whole \in Scopes
  BY FirstQueueType DEF Scopes
<1>2. BrokerOK'
  <2>1. Publish(q, p, Whole)
    BY DEF Upload, UploadAborted
  <2>2. BrokerOK
    BY DEF TypeOK, BrokerOK
  <2> HIDE DEF q
  <2> QED BY <1>1, <2>1, <2>2, PublishType
<1>3. Rows
  <2>1. CASE Upload(p)
    <3>1. Enqueue(p, q, Whole) /\ jobs \in Seq(Job) /\ MaxJobs \in Nat
      BY <2>1, PipelineAssumption DEF Upload, TypeOK
    <3> HIDE DEF q
    <3> QED BY <1>1, <3>1, EnqueueRows
  <2>2. CASE UploadAborted(p)
    BY <2>2, RowsUnchanged DEF UploadAborted
  <2> QED BY <2>1, <2>2
<1>4. ColsOK'
  <2>1. CASE Upload(p)
    <3> DEFINE row == [c \in Columns |->
                         IF \E l \in Lanes \ stages[p] : c \in LaneStatusColumns[l]
                         THEN Skipped ELSE cols[p][c]]
    <3>1. row \in [Columns -> StatusIds]
      BY Statuses DEF TypeOK
    <3>2. cols' = [cols EXCEPT ![p] = row]
      BY <2>1 DEF Upload, SkipColumns
    <3> HIDE DEF row
    <3> QED BY <3>1, <3>2 DEF TypeOK, ColsOK
  <2>2. CASE UploadAborted(p)
    BY <2>2, ColsUnchanged DEF UploadAborted
  <2> QED BY <2>1, <2>2
<1>5. RestOK /\ UNCHANGED req
  BY DEF Upload, UploadAborted, TypeOK, RestOK, processVars, outputVars
<1>6. req' \in [Requests -> Request] /\ RequestsOK'
  BY <1>3, <1>5, RequestsStay
<1> QED BY <1>2, <1>3, <1>4, <1>5, <1>6, Assemble

LEMMA UploadRefusedStep ==
    ASSUME TypeOK, RequestsOK, NEW p \in Parts, UploadRefused(p)
    PROVE  StepOK
<1>1. Rows
  BY RowsUnchanged DEF UploadRefused
<1>2. ColsOK' /\ BrokerOK'
  BY ColsUnchanged, BrokerUnchanged DEF UploadRefused
<1>3. RestOK
  BY DEF UploadRefused, TypeOK, RestOK, processVars, outputVars
<1>4. req' \in [Requests -> Request] /\ RequestsOK'
  BY <1>1, RequestsStay DEF UploadRefused
<1> QED BY <1>1, <1>2, <1>3, <1>4, Assemble

\* What all requests share when they begin: nothing but the request is written.
LEMMA BeginStep ==
    ASSUME TypeOK, RequestsOK, NEW r \in Requests, NEW x \in Request, Begin(r, x),
           x.op \in {"cancel", "prioritise", "requeue"} => x.job \in DOMAIN jobs
    PROVE  StepOK
<1>1. Rows
  BY RowsUnchanged DEF Begin
<1>2. RestOK
  BY RestUnchanged DEF Begin
<1>3. ColsOK' /\ BrokerOK'
  BY ColsUnchanged, BrokerUnchanged DEF Begin
<1>4. req' \in [Requests -> Request] /\ RequestsOK'
  BY <1>1, RequestStep DEF Begin
<1> QED BY <1>1, <1>2, <1>3, <1>4, Assemble

LEMMA RerunStartStep ==
    ASSUME TypeOK, RequestsOK, NEW r \in Requests, NEW p \in Parts,
           NEW q \in RerunQueues, NEW s \in Scopes, RerunStart(r, p, q, s)
    PROVE  StepOK
<1> DEFINE x == [op |-> "rerun", part |-> p, queue |-> q, scope |-> s]
<1>1. q \in QueueNames
  BY PipelineAssumption
<1>2. x \in Request /\ x.op \notin {"cancel", "prioritise", "requeue"}
  BY <1>1 DEF Request
<1>3. Begin(r, x)
  BY DEF RerunStart
<1> HIDE DEF x
<1> QED BY <1>2, <1>3, BeginStep

LEMMA OutputsCleared ==
    ASSUME TypeOK, NEW p \in Parts, NEW q \in QueueNames, NEW s \in Scopes,
           ClearPreviousOutput(p, q, s)
    PROVE  lines' \in [Parts -> Nat] /\ blank' \in [Parts -> SUBSET Pages]
<1>1. lines' \in [Parts -> Nat]
  BY DEF ClearPreviousOutput, TypeOK
<1>2. CASE q # "Ballooning"
  BY <1>1, <1>2 DEF ClearPreviousOutput, TypeOK
<1>3. CASE q = "Ballooning" /\ s \in Pages
  <2>1. blank' = [blank EXCEPT ![p] = blank[p] \cup {s}]
    BY <1>3, PipelineAssumption DEF ClearPreviousOutput
  <2> QED BY <1>1, <1>3, <2>1 DEF TypeOK
<1>4. CASE q = "Ballooning" /\ s = Whole
  <2>1. blank' = [blank EXCEPT ![p] = Pages]
    BY <1>4, PipelineAssumption DEF ClearPreviousOutput
  <2> QED BY <1>1, <2>1 DEF TypeOK
<1>5. CASE q = "Ballooning" /\ s = SkipDone
  BY <1>1, <1>5, PipelineAssumption DEF ClearPreviousOutput, TypeOK
<1> QED BY <1>2, <1>3, <1>4, <1>5 DEF Scopes

LEMMA RerunEndStep ==
    ASSUME TypeOK, RequestsOK, NEW r \in Requests, RerunFinish(r) \/ RerunAborted(r)
    PROVE  StepOK
<1> DEFINE p == req[r].part
           q == req[r].queue
           s == req[r].scope
<1>1. p \in Parts /\ q \in QueueNames /\ s \in Scopes
  BY RequestFields DEF RerunFinish, RerunAborted
<1>2. Publish(q, p, s) /\ End(r)
  BY DEF RerunFinish, RerunAborted
<1>3. BrokerOK'
  <2>1. BrokerOK
    BY DEF TypeOK, BrokerOK
  <2> HIDE DEF p, q, s
  <2> QED BY <1>1, <1>2, <2>1, PublishType
<1>4. CASE RerunFinish(r)
  <2>1. /\ ClearPreviousOutput(p, q, s)
        /\ cols' = [cols EXCEPT ![p][StatusField[q]] = Pending]
        /\ Enqueue(p, q, s)
        /\ UNCHANGED <<processVars, uploadVars>>
    BY <1>4 DEF RerunFinish
  <2>2. jobs \in Seq(Job) /\ MaxJobs \in Nat
    BY PipelineAssumption DEF TypeOK
  <2> HIDE DEF p, q, s
  <2>3. Rows
    BY <1>1, <2>1, <2>2, EnqueueRows
  <2>4. ColsOK'
    BY <1>1, <2>1, QueueTypes, Statuses, OneColumnType DEF TypeOK, ColsOK
  <2>5. RestOK
    BY <1>1, <2>1, OutputsCleared DEF TypeOK, RestOK, processVars, uploadVars
  <2>6. req' \in [Requests -> Request] /\ RequestsOK'
    BY <1>2, <2>3, RequestEnds
  <2> QED BY <1>3, <2>3, <2>4, <2>5, <2>6, Assemble
<1>5. CASE RerunAborted(r)
  <2>1. Rows /\ RestOK /\ ColsOK'
    BY <1>5, RowsUnchanged, RestUnchanged, ColsUnchanged DEF RerunAborted
  <2>2. req' \in [Requests -> Request] /\ RequestsOK'
    BY <1>2, <2>1, RequestEnds
  <2> QED BY <1>3, <2>1, <2>2, Assemble
<1> QED BY <1>4, <1>5

LEMMA RerunRefusedStep ==
    ASSUME TypeOK, RequestsOK, NEW r \in Requests, RerunRefused(r)
    PROVE  StepOK
<1>1. Rows /\ RestOK /\ ColsOK' /\ BrokerOK'
  BY RowsUnchanged, RestUnchanged, ColsUnchanged, BrokerUnchanged DEF RerunRefused
<1>2. req' \in [Requests -> Request] /\ RequestsOK'
  BY <1>1, RequestEnds DEF RerunRefused
<1> QED BY <1>1, <1>2, Assemble

LEMMA QueuePageStartStep ==
    ASSUME TypeOK, RequestsOK, NEW r \in Requests, NEW j \in DOMAIN jobs,
           CancelStart(r, j) \/ PrioritiseStart(r, j) \/ RequeueStart(r, j)
    PROVE  StepOK
<1>1. j \in 1..MaxJobs
  BY RowFields
<1>2. CASE CancelStart(r, j)
  <2> DEFINE x == [op |-> "cancel", job |-> j, seen |-> jobs[j].status]
  <2>1. x \in Request /\ x.job = j
    BY <1>1, <1>2 DEF Request, CancelStart
  <2>2. Begin(r, x)
    BY <1>2 DEF CancelStart
  <2> HIDE DEF x
  <2> QED BY <2>1, <2>2, BeginStep
<1>3. CASE PrioritiseStart(r, j)
  <2>1. PICK top \in Lowest(Lane(j)) :
            Begin(r, [op |-> "prioritise", job |-> j, top |-> top])
    BY <1>3 DEF PrioritiseStart
  <2>2. top \in Int
    BY RowFields DEF Lowest, QueuedIn
  <2> DEFINE x == [op |-> "prioritise", job |-> j, top |-> top]
  <2>3. x \in Request /\ x.job = j
    BY <1>1, <2>2 DEF Request
  <2>4. Begin(r, x)
    BY <2>1
  <2> HIDE DEF x
  <2> QED BY <2>3, <2>4, BeginStep
<1>4. CASE RequeueStart(r, j)
  <2> DEFINE x == [op |-> "requeue", job |-> j,
                   found |-> ActiveJobs(jobs[j].part, Lane(j)) # {}]
  <2>1. x \in Request /\ x.job = j
    BY <1>1 DEF Request
  <2>2. Begin(r, x)
    BY <1>4 DEF RequeueStart
  <2> HIDE DEF x
  <2> QED BY <2>1, <2>2, BeginStep
<1> QED BY <1>2, <1>3, <1>4

LEMMA CancelFinishStep ==
    ASSUME TypeOK, RequestsOK, NEW r \in Requests, CancelFinish(r)
    PROVE  StepOK
<1> DEFINE j == req[r].job
<1>1. j \in DOMAIN jobs /\ jobs \in Seq(Job)
  BY DEF RequestsOK, CancelFinish, TypeOK
<1>2. /\ SetStatus(j, "cancelled") \/ SetStatus(j, "failed")
      /\ cols' = cols \/ cols' = WithLane(jobs[j].part, Lane(j), Failed)
      /\ End(r) /\ UNCHANGED <<broker, processVars, outputVars, uploadVars>>
  BY DEF CancelFinish
<1> HIDE DEF j
<1>3. Rows
  BY <1>1, <1>2, SetStatusRows DEF Rows
<1>4. ColsOK'
  BY <1>1, <1>2, RowFields, WithLaneType, Statuses, ColsUnchanged DEF TypeOK, ColsOK
<1>5. BrokerOK' /\ RestOK
  BY <1>2, BrokerUnchanged, RestUnchanged
<1>6. req' \in [Requests -> Request] /\ RequestsOK'
  BY <1>2, <1>3, RequestEnds
<1> QED BY <1>3, <1>4, <1>5, <1>6, Assemble

LEMMA PrioritiseFinishStep ==
    ASSUME TypeOK, RequestsOK, NEW r \in Requests, PrioritiseFinish(r)
    PROVE  StepOK
<1>1. req[r].job \in DOMAIN jobs /\ jobs \in Seq(Job) /\ req[r].top - 1 \in Int
  BY RequestFields DEF RequestsOK, PrioritiseFinish, TypeOK
<1>2. Rows
  BY <1>1, PrioritiseRows DEF PrioritiseFinish, Rows
<1>3. ColsOK' /\ BrokerOK' /\ RestOK
  BY ColsUnchanged, BrokerUnchanged, RestUnchanged DEF PrioritiseFinish
<1>4. req' \in [Requests -> Request] /\ RequestsOK'
  BY <1>2, RequestEnds DEF PrioritiseFinish
<1> QED BY <1>2, <1>3, <1>4, Assemble

LEMMA RequeueFinishStep ==
    ASSUME TypeOK, RequestsOK, NEW r \in Requests, RequeueFinish(r)
    PROVE  StepOK
<1> DEFINE j == req[r].job
<1>1. /\ j \in DOMAIN jobs /\ jobs \in Seq(Job)
      /\ jobs[j].part \in Parts /\ jobs[j].queue \in QueueNames /\ Lane(j) \in Lanes
  BY RowFields DEF RequestsOK, RequeueFinish, TypeOK
<1>2. /\ UNCHANGED jobs \/ Insert(jobs[j].part, jobs[j].queue, Whole, DefaultPriority)
      /\ cols' = cols \/ cols' = WithLane(jobs[j].part, Lane(j), Pending)
      /\ End(r) /\ UNCHANGED <<broker, processVars, outputVars, uploadVars>>
  BY DEF RequeueFinish
<1> HIDE DEF j
<1>3. Rows
  <2>1. Whole \in Scopes /\ DefaultPriority \in Int /\ MaxJobs \in Nat
    BY PipelineAssumption DEF Scopes, DefaultPriority
  <2> QED BY <1>1, <1>2, <2>1, InsertRows, RowsUnchanged DEF Rows
<1>4. ColsOK'
  BY <1>1, <1>2, WithLaneType, Statuses, ColsUnchanged DEF TypeOK, ColsOK
<1>5. BrokerOK' /\ RestOK
  BY <1>2, BrokerUnchanged, RestUnchanged
<1>6. req' \in [Requests -> Request] /\ RequestsOK'
  BY <1>2, <1>3, RequestEnds
<1> QED BY <1>3, <1>4, <1>5, <1>6, Assemble

LEMMA ManualRequeueStep ==
    ASSUME TypeOK, RequestsOK, NEW r \in Requests, NEW p \in Parts, NEW q \in RerunQueues,
           ManualRequeue(r, p, q)
    PROVE  StepOK
<1>1. q \in QueueNames /\ LaneForQueue[q] \in Lanes
  BY PipelineAssumption, QueueTypes
<1>2. Rows
  BY RowsUnchanged DEF ManualRequeue
<1>3. ColsOK'
  BY <1>1, WithLaneType, Statuses DEF ManualRequeue, TypeOK, ColsOK
<1>4. BrokerOK' /\ RestOK
  BY BrokerUnchanged, RestUnchanged DEF ManualRequeue
<1>5. req' \in [Requests -> Request] /\ RequestsOK'
  <2> DEFINE x == [op |-> "supersede", part |-> p, queue |-> q]
  <2>1. x \in Request /\ x.op \notin {"cancel", "prioritise", "requeue"}
    BY <1>1 DEF Request
  <2>2. req' = [req EXCEPT ![r] = x]
    BY DEF ManualRequeue
  <2> HIDE DEF x
  <2> QED BY <1>2, <2>1, <2>2, RequestStep
<1> QED BY <1>2, <1>3, <1>4, <1>5, Assemble

LEMMA SupersedeStep ==
    ASSUME TypeOK, RequestsOK, NEW r \in Requests, Supersede(r)
    PROVE  StepOK
<1>1. Rows
  BY SupersedeRows DEF TypeOK, Rows
<1>2. ColsOK' /\ BrokerOK' /\ RestOK
  BY ColsUnchanged, BrokerUnchanged, RestUnchanged DEF Supersede
<1>3. req' \in [Requests -> Request] /\ RequestsOK'
  <2>1. req[r] \in [op: {"supersede", "insert"}, part: Parts, queue: QueueNames]
    BY DEF TypeOK, Request, Supersede, Idle
  <2> DEFINE x == [req[r] EXCEPT !.op = "insert"]
  <2>2. x \in Request /\ x.op \notin {"cancel", "prioritise", "requeue"}
    BY <2>1 DEF Request
  <2>3. req' = [req EXCEPT ![r] = x]
    BY DEF Supersede
  <2> HIDE DEF x
  <2> QED BY <1>1, <2>2, <2>3, RequestStep
<1> QED BY <1>1, <1>2, <1>3, Assemble

LEMMA InsertByHandStep ==
    ASSUME TypeOK, RequestsOK, NEW r \in Requests, InsertByHand(r)
    PROVE  StepOK
<1> DEFINE p == req[r].part
           q == req[r].queue
<1>1. p \in Parts /\ q \in QueueNames
  BY RequestFields DEF InsertByHand
<1>2. UNCHANGED jobs \/ Insert(p, q, Whole, ScriptPriority)
  BY DEF InsertByHand
<1> HIDE DEF p, q
<1>3. Rows
  <2>1. Whole \in Scopes /\ ScriptPriority \in Int /\ MaxJobs \in Nat /\ jobs \in Seq(Job)
    BY PipelineAssumption DEF Scopes, ScriptPriority, TypeOK
  <2> QED BY <1>1, <1>2, <2>1, InsertRows, RowsUnchanged DEF Rows
<1>4. ColsOK' /\ BrokerOK' /\ RestOK
  BY ColsUnchanged, BrokerUnchanged, RestUnchanged DEF InsertByHand
<1>5. req' \in [Requests -> Request] /\ RequestsOK'
  BY <1>3, RequestEnds DEF InsertByHand
<1> QED BY <1>3, <1>4, <1>5, Assemble

LEMMA ReceiveStep ==
    ASSUME TypeOK, RequestsOK, NEW q \in QueueNames, Receive(q)
    PROVE  StepOK
<1>1. Rows
  BY ReceiveRows, PipelineAssumption DEF TypeOK
<1>2. BrokerOK'
  <2>1. broker[q] \in Seq(Message) /\ broker[q] # << >>
    BY DEF TypeOK, Receive
  <2>2. Tail(broker[q]) \in Seq(Message)
    BY <2>1
  <2>3. broker' = [broker EXCEPT ![q] = Tail(broker[q])] \/ broker' = broker
    BY DEF Receive
  <2> QED BY <2>2, <2>3 DEF TypeOK, BrokerOK
<1>3. ColsOK' /\ RestOK
  BY ColsUnchanged, RestUnchanged DEF Receive
<1>4. req' \in [Requests -> Request] /\ RequestsOK'
  BY <1>1, RequestsStay DEF Receive
<1> QED BY <1>1, <1>2, <1>3, <1>4, Assemble

LEMMA ClaimStep ==
    ASSUME TypeOK, RequestsOK, NEW l \in Lanes, Claim(l)
    PROVE  StepOK
<1>1. PICK j \in QueuedIn(l) :
        /\ jobs' = [jobs EXCEPT ![j].status = "running",
                                ![j].attempt = @ + 1,
                                ![j].worker = worker]
        /\ runs' = runs \cup {[job |-> j, attempt |-> jobs[j].attempt + 1,
                               scope |-> jobs[j].scope]}
        /\ cols' = WithLane(jobs[j].part, l, InProgress)
  BY DEF Claim
<1>2. j \in DOMAIN jobs /\ jobs[j].status = "queued"
  BY DEF QueuedIn
<1>3. Rows
  BY <1>1, <1>2, ClaimRows, PipelineAssumption DEF Rows, TypeOK
<1>4. ColsOK'
  BY <1>1, <1>2, RowFields, WithLaneType, Statuses DEF TypeOK, ColsOK
<1>5. runs' \subseteq Run
  <2>1. [job |-> j, attempt |-> jobs[j].attempt + 1, scope |-> jobs[j].scope] \in Run
    <3>1. jobs[j].attempt + 1 \in Nat
      BY <1>2, RowFields
    <3> QED BY <1>2, <3>1, RowFields DEF Run
  <2> QED BY <1>1, <2>1 DEF TypeOK
<1>6. RestOK /\ BrokerOK'
  BY <1>5, BrokerUnchanged DEF Claim, RestOK, TypeOK, outputVars, uploadVars
<1>7. req' \in [Requests -> Request] /\ RequestsOK'
  BY <1>3, RequestsStay DEF Claim
<1> QED BY <1>3, <1>4, <1>6, <1>7, Assemble

\* The part goes to the stage that follows, or stays where it ended: what the
\* hand-off asked for was ticked, or could not be read.
ToCosting(p, l, ok) ==
    /\ l = "drawing" /\ ok
    /\ "costing" \in stages[p] \/ p \in misread'
    /\ cols[p]["costing"] = Pending
    /\ cols' = WithLane(p, l, IF ok THEN Completed ELSE Failed)
    /\ Publish("Costing", p, Whole)

ToBallooning(p, l, ok) ==
    /\ l # "ballooning"
    /\ "ballooning" \in stages[p] \/ p \in misread'
    /\ cols[p]["balloon"] # InProgress
    /\ blank[p] = Pages
    /\ cols' = [WithLane(p, l, IF ok THEN Completed ELSE Failed) EXCEPT ![p]["balloon"] = Pending]
    /\ Publish("Ballooning", p, Whole)

ToNone(p, l, ok) ==
    /\ cols' = WithLane(p, l, IF ok THEN Completed ELSE Failed)
    /\ UNCHANGED broker

LEMMA ThenBallooningIs ==
    ASSUME NEW p \in Parts, NEW l \in Lanes, NEW ok \in BOOLEAN, NEW answers, l # "ballooning",
           ThenBallooning(p, WithLane(p, l, IF ok THEN Completed ELSE Failed), answers)
    PROVE  /\ misread' \in {misread, misread \cup {p}}
           /\ ToBallooning(p, l, ok) \/ ToNone(p, l, ok)
<1> DEFINE ended == WithLane(p, l, IF ok THEN Completed ELSE Failed)
<1>1. PICK asked \in RequestedStages(p) :
        /\ Misread(p, answers \cup {asked})
        /\ IF StartsBallooning(p, asked)
           THEN /\ cols' = [ended EXCEPT ![p]["balloon"] = Pending]
                /\ Publish("Ballooning", p, Whole)
           ELSE cols' = ended /\ UNCHANGED broker
  BY DEF ThenBallooning
<1>2. misread' \in {misread, misread \cup {p}} /\ (asked = stages[p] \/ p \in misread')
  BY <1>1 DEF Misread
<1>3. CASE StartsBallooning(p, asked)
  BY <1>1, <1>2, <1>3 DEF StartsBallooning, ToBallooning
<1>4. CASE ~StartsBallooning(p, asked)
  BY <1>1, <1>2, <1>4 DEF ToNone
<1> QED BY <1>3, <1>4

LEMMA HandOffIs ==
    ASSUME NEW p \in Parts, NEW l \in Lanes, NEW ok \in BOOLEAN, HandOff(p, l, ok)
    PROVE  /\ misread' \in {misread, misread \cup {p}}
           /\ ToCosting(p, l, ok) \/ ToBallooning(p, l, ok) \/ ToNone(p, l, ok)
<1> DEFINE ended == WithLane(p, l, IF ok THEN Completed ELSE Failed)
<1>1. CASE l = "drawing" /\ HandsOverToCosting(p, ended, ok)
  <2>1. PICK asked \in RequestedStages(p) :
          \/ /\ StartsCosting(p, ok, asked)
             /\ cols' = ended
             /\ Publish("Costing", p, Whole)
             /\ Misread(p, {asked})
          \/ ~StartsCosting(p, ok, asked) /\ ThenBallooning(p, ended, {asked})
    BY <1>1 DEF HandsOverToCosting
  <2>2. CASE ThenBallooning(p, ended, {asked})
    BY <1>1, <2>2, ThenBallooningIs
  <2>3. CASE /\ StartsCosting(p, ok, asked) /\ cols' = ended
             /\ Publish("Costing", p, Whole) /\ Misread(p, {asked})
    <3>1. misread' \in {misread, misread \cup {p}} /\ (asked = stages[p] \/ p \in misread')
      BY <2>3 DEF Misread
    <3> QED BY <1>1, <2>3, <3>1 DEF StartsCosting, ToCosting
  <2> QED BY <2>1, <2>2, <2>3
<1>2. CASE l = "costing" /\ ThenBallooning(p, ended, {})
  BY <1>2, ThenBallooningIs
<1>3. CASE l = "ballooning" /\ cols' = ended /\ UNCHANGED <<broker, misread>>
  BY <1>3 DEF ToNone
<1> QED BY <1>1, <1>2, <1>3 DEF HandOff

\* The end of a run writes one lane's status and may publish the next stage.
LEMMA HandOffTypes ==
    ASSUME TypeOK, NEW p \in Parts, NEW l \in Lanes, NEW ok \in BOOLEAN, HandOff(p, l, ok)
    PROVE  ColsOK' /\ BrokerOK' /\ misread' \subseteq Parts
<1> DEFINE ended == WithLane(p, l, IF ok THEN Completed ELSE Failed)
<1>1. ended \in [Parts -> [Columns -> StatusIds]]
  BY WithLaneType, Statuses DEF TypeOK, ColsOK
<1>2. [ended EXCEPT ![p]["balloon"] = Pending] \in [Parts -> [Columns -> StatusIds]]
  <2>1. "balloon" \in Columns /\ Pending \in StatusIds
    BY Statuses DEF Columns
  <2> HIDE DEF ended
  <2> QED BY <1>1, <2>1, OneColumnType
<1>3. /\ cols' = ended \/ cols' = [ended EXCEPT ![p]["balloon"] = Pending]
      /\ Publish("Costing", p, Whole) \/ Publish("Ballooning", p, Whole) \/ UNCHANGED broker
  BY HandOffIs DEF ToCosting, ToBallooning, ToNone
<1>4. BrokerOK'
  <2>1. "Costing" \in QueueNames /\ "Ballooning" \in QueueNames /\ Whole \in Scopes /\ BrokerOK
    BY DEF QueueNames, Scopes, TypeOK, BrokerOK
  <2> QED BY <1>3, <2>1, PublishType, BrokerUnchanged
<1>5. ColsOK'
  <2> HIDE DEF ended
  <2> QED BY <1>1, <1>2, <1>3 DEF ColsOK
<1>6. misread' \subseteq Parts
  BY HandOffIs DEF TypeOK
<1> QED BY <1>4, <1>5, <1>6

LEMMA ProduceTypes ==
    ASSUME TypeOK, NEW p \in Parts, NEW l \in Lanes, NEW s \in Scopes, Produce(p, l, s)
    PROVE  lines' \in [Parts -> Nat] /\ blank' \in [Parts -> SUBSET Pages]
<1>1. lines' \in [Parts -> Nat]
  BY DEF Produce, TypeOK
<1>2. CASE l # "ballooning"
  BY <1>1, <1>2 DEF Produce, TypeOK
<1>3. CASE l = "ballooning" /\ s \in Pages
  <2>1. blank' = [blank EXCEPT ![p] = blank[p] \ {s}]
    BY <1>3 DEF Produce
  <2> QED BY <1>1, <2>1 DEF TypeOK
<1>4. CASE l = "ballooning" /\ s \notin Pages
  <2>1. blank' = [blank EXCEPT ![p] = {}]
    BY <1>4 DEF Produce
  <2> QED BY <1>1, <2>1 DEF TypeOK
<1> QED BY <1>2, <1>3, <1>4

LEMMA RunFinishStep ==
    ASSUME TypeOK, RequestsOK, ThreadsOK, NEW run \in runs, RunFinish(run)
    PROVE  StepOK
<1> DEFINE j == run.job
           p == jobs[j].part
           l == Lane(j)
<1>1. p \in Parts /\ l \in Lanes /\ run.scope \in Scopes
  BY RowFields DEF ThreadsOK, TypeOK, Run
<1>2. /\ runs' = runs \ {run}
      /\ \/ HandOff(p, l, TRUE) /\ Produce(p, l, run.scope)
         \/ HandOff(p, l, FALSE) /\ UNCHANGED outputVars
      /\ UNCHANGED <<jobs, up, worker, fresh, stages, refused, req>>
  BY DEF RunFinish
<1> HIDE DEF j, p, l
<1>3. ColsOK' /\ BrokerOK' /\ misread' \subseteq Parts
  BY <1>1, <1>2, HandOffTypes
<1>4. lines' \in [Parts -> Nat] /\ blank' \in [Parts -> SUBSET Pages]
  <2>1. CASE Produce(p, l, run.scope)
    BY <1>1, <2>1, ProduceTypes
  <2>2. CASE UNCHANGED outputVars
    BY <2>2 DEF TypeOK, outputVars
  <2> QED BY <1>2, <2>1, <2>2
<1>5. RestOK
  BY <1>2, <1>3, <1>4 DEF TypeOK, RestOK
<1>6. Rows
  BY <1>2, RowsUnchanged
<1>7. req' \in [Requests -> Request] /\ RequestsOK'
  BY <1>2, <1>6, RequestsStay
<1> QED BY <1>3, <1>5, <1>6, <1>7, Assemble

LEMMA DispatcherStep ==
    ASSUME TypeOK, RequestsOK, NEW j \in DOMAIN jobs, Close(j) \/ Reap(j)
    PROVE  StepOK
<1>1. /\ SetStatus(j, "failed") \/ SetStatus(j, "completed")
      /\ cols' = cols \/ cols' = WithLane(jobs[j].part, Lane(j), Failed)
      /\ UNCHANGED <<broker, processVars, outputVars, uploadVars, req>>
  BY DEF Close, Reap
<1>2. Rows
  BY <1>1, SetStatusRows DEF Rows, TypeOK
<1>3. ColsOK'
  BY <1>1, RowFields, WithLaneType, Statuses, ColsUnchanged DEF TypeOK, ColsOK
<1>4. BrokerOK' /\ RestOK
  BY <1>1, BrokerUnchanged, RestUnchanged
<1>5. req' \in [Requests -> Request] /\ RequestsOK'
  BY <1>1, <1>2, RequestsStay
<1> QED BY <1>2, <1>3, <1>4, <1>5, Assemble

LEMMA ProcessStep ==
    ASSUME TypeOK, RequestsOK, WorkerSpare, Crash \/ Connect \/ Reconnect
    PROVE  StepOK
<1>1. jobs \in Seq(Job) /\ MaxWorkers \in Nat \ {0} /\ worker \in 1..MaxWorkers
  BY PipelineAssumption DEF TypeOK
<1>2. Rows
  <2>1. CASE Crash
    BY <2>1, RowsUnchanged DEF Crash
  <2>2. CASE Connect \/ Reconnect
    <3>1. RequeueOrphans(worker')
      BY <2>2 DEF Connect, Reconnect, processVars
    <3> QED BY <1>1, <3>1, RequeueOrphansRows DEF Rows
  <2> QED BY <2>1, <2>2
<1>3. /\ runs' \subseteq Run /\ up' \in BOOLEAN /\ worker' \in 1..MaxWorkers
      /\ UNCHANGED <<cols, broker, outputVars, uploadVars, req>>
  <2>1. CASE Crash
    BY <1>1, <2>1 DEF Crash, TypeOK
  <2>2. CASE Connect
    <3>1. worker' = worker + 1 /\ worker < MaxWorkers
      BY <2>2 DEF Connect, WorkerSpare
    <3>2. worker' \in 1..MaxWorkers
      BY <1>1, <3>1
    <3> QED BY <2>2, <3>2 DEF Connect, TypeOK
  <2>3. CASE Reconnect
    BY <2>3 DEF Reconnect, TypeOK, processVars
  <2> QED BY <2>1, <2>2, <2>3
<1>4. RestOK
  BY <1>3 DEF RestOK, TypeOK, outputVars, uploadVars
<1>5. ColsOK' /\ BrokerOK'
  BY <1>3, ColsUnchanged, BrokerUnchanged
<1>6. req' \in [Requests -> Request] /\ RequestsOK'
  BY <1>2, <1>3, RequestsStay
<1> QED BY <1>2, <1>4, <1>5, <1>6, Assemble

LEMMA NextStep ==
    ASSUME IInv, Next
    PROVE  StepOK
<1> USE DEF IInv
<1>1. CASE Uploads
  BY <1>1, UploadStep, UploadRefusedStep DEF Uploads
<1>2. CASE Reruns
  BY <1>2, RerunStartStep, RerunEndStep, RerunRefusedStep DEF Reruns
<1>3. CASE QueuePage
  BY <1>3, QueuePageStartStep, CancelFinishStep, PrioritiseFinishStep, RequeueFinishStep
     DEF QueuePage
<1>4. CASE Scripts
  BY <1>4, ManualRequeueStep, SupersedeStep, InsertByHandStep DEF Scripts
<1>5. CASE Consumer
  BY <1>5, ReceiveStep, ClaimStep, RunFinishStep, DispatcherStep, ProcessStep DEF Consumer
<1> QED BY <1>1, <1>2, <1>3, <1>4, <1>5 DEF Next
-----------------------------------------------------------------------------
(* One active job for each part and lane. *)

LEMMA ActiveStep ==
    ASSUME TypeOK, OneActiveJob, Rows
    PROVE  OneActiveJob'
<1> DEFINE act(j)  == jobs[j].status \in {"queued", "running"}
           actP(j) == jobs'[j].status \in {"queued", "running"}
           ln(j)   == LaneForQueue[jobs[j].queue]
           lnP(j)  == LaneForQueue[jobs'[j].queue]
<1>1. SUFFICES ASSUME NEW i \in DOMAIN jobs', NEW j \in DOMAIN jobs',
                      jobs'[i].part = jobs'[j].part, lnP(i) = lnP(j), actP(i), actP(j)
               PROVE  i = j
  BY DEF OneActiveJob, Lane, Active
<1>2. \A k \in DOMAIN jobs : RowFollows(k)
  BY DEF Rows, SameRows, OneMoreRow
<1>3. \A k \in DOMAIN jobs :
        /\ jobs'[k].part = jobs[k].part /\ lnP(k) = ln(k)
        /\ actP(k) => act(k)
  BY <1>2 DEF RowFollows, Orphans
<1>4. CASE i \in DOMAIN jobs /\ j \in DOMAIN jobs
  <2>1. jobs[i].part = jobs[j].part /\ ln(i) = ln(j) /\ act(i) /\ act(j)
    BY <1>1, <1>3, <1>4
  <2> QED BY <1>4, <2>1 DEF OneActiveJob, Lane, Active
<1>5. CASE i \notin DOMAIN jobs \/ j \notin DOMAIN jobs
  <2>1. OneMoreRow
    BY <1>5 DEF Rows, SameRows, TypeOK
  <2>2. /\ DOMAIN jobs = 1..Len(jobs) /\ DOMAIN jobs' = 1..Len(jobs')
        /\ Len(jobs) \in Nat /\ Len(jobs') = Len(jobs) + 1
    BY <2>1 DEF OneMoreRow, TypeOK
  <2>3. \A k \in DOMAIN jobs' : k \notin DOMAIN jobs => k = Len(jobs')
    BY <2>2
  <2>4. \A k \in DOMAIN jobs :
          (jobs'[k].part = jobs'[Len(jobs')].part /\ lnP(k) = lnP(Len(jobs'))) => ~actP(k)
    BY <1>3, <2>1 DEF OneMoreRow
  <2> QED BY <1>1, <1>5, <2>3, <2>4
<1> QED BY <1>4, <1>5
-----------------------------------------------------------------------------
(* One thread for each row. *)

\* A step that starts no thread, in the process it finds.
LEMMA ThreadsKeep ==
    ASSUME TypeOK, ThreadsOK, OneThreadPerRow, Rows,
           runs' \subseteq runs, worker' = worker, up' = up
    PROVE  ThreadsOK' /\ OneThreadPerRow'
<1>1. OneThreadPerRow'
  BY DEF OneThreadPerRow
<1>2. ASSUME NEW run \in runs'
      PROVE  /\ up' /\ run.job \in DOMAIN jobs'
             /\ jobs'[run.job].status # "queued"
             /\ jobs'[run.job].status = "running" => jobs'[run.job].worker = worker'
  <2>1. /\ up /\ run.job \in DOMAIN jobs /\ jobs[run.job].status # "queued"
        /\ jobs[run.job].status = "running" => jobs[run.job].worker = worker
    BY DEF ThreadsOK
  <2>2. run.job \notin Orphans(worker')
    BY <2>1 DEF Orphans
  <2>3. RowFollows(run.job)
    BY <2>1 DEF Rows, SameRows, OneMoreRow
  <2>4. run.job \in DOMAIN jobs'
    BY <2>1, RowsType
  <2> QED BY <2>1, <2>2, <2>3, <2>4 DEF RowFollows
<1> QED BY <1>1, <1>2 DEF ThreadsOK

\* The row that Claim admits has no thread yet.
LEMMA ThreadsClaim ==
    ASSUME TypeOK, ThreadsOK, OneThreadPerRow, NEW l \in Lanes, Claim(l)
    PROVE  ThreadsOK' /\ OneThreadPerRow'
<1>1. PICK j \in QueuedIn(l) :
        /\ jobs' = [jobs EXCEPT ![j].status = "running",
                                ![j].attempt = @ + 1,
                                ![j].worker = worker]
        /\ runs' = runs \cup {[job |-> j, attempt |-> jobs[j].attempt + 1,
                               scope |-> jobs[j].scope]}
  BY DEF Claim
<1> DEFINE new == [job |-> j, attempt |-> jobs[j].attempt + 1, scope |-> jobs[j].scope]
<1>2. j \in DOMAIN jobs /\ jobs[j].status = "queued"
  BY DEF QueuedIn
<1>3. /\ SameRows /\ jobs'[j].status = "running" /\ jobs'[j].worker = worker
      /\ \A i \in DOMAIN jobs \ {j} : jobs'[i] = jobs[i]
  BY <1>1, <1>2, ClaimRows, PipelineAssumption DEF TypeOK
<1>4. DOMAIN jobs' = DOMAIN jobs /\ up /\ up' = up /\ worker' = worker
  BY <1>3 DEF SameRows, TypeOK, Claim
<1>5. \A run \in runs : run.job # j
  BY <1>2 DEF ThreadsOK
<1>6. new.job = j /\ runs' = runs \cup {new}
  BY <1>1
<1> HIDE DEF new
<1>7. OneThreadPerRow'
  BY <1>5, <1>6 DEF OneThreadPerRow
<1>8. ThreadsOK'
  BY <1>2, <1>3, <1>4, <1>5, <1>6 DEF ThreadsOK
<1> QED BY <1>7, <1>8

\* No thread survives the process.
LEMMA ThreadsProcess ==
    ASSUME TypeOK, ThreadsOK, Crash \/ Connect
    PROVE  ThreadsOK' /\ OneThreadPerRow'
<1>1. runs' = {}
  BY DEF Crash, Connect, ThreadsOK
<1> QED BY <1>1 DEF ThreadsOK, OneThreadPerRow

LEMMA ThreadStep ==
    ASSUME IInv, Next
    PROVE  ThreadsOK' /\ OneThreadPerRow' /\ WorkerSpare'
<1> USE DEF IInv
<1>1. Rows
  BY NextStep DEF StepOK
<1>2. CASE runs' \subseteq runs /\ worker' = worker /\ up' = up
  BY <1>1, <1>2, ThreadsKeep DEF WorkerSpare
<1>3. CASE \E l \in Lanes : Claim(l)
  <2>1. WorkerSpare'
    BY <1>3 DEF Claim, WorkerSpare
  <2> QED BY <1>3, <2>1, ThreadsClaim
<1>4. CASE Crash \/ Connect
  BY <1>4, ThreadsProcess DEF Crash, Connect, WorkerSpare
<1>5. Uploads => UNCHANGED processVars
  BY DEF Uploads, Upload, UploadAborted, UploadRefused, processVars
<1>6. Reruns => UNCHANGED processVars
  BY DEF Reruns, RerunStart, RerunFinish, RerunAborted, RerunRefused, Begin, processVars
<1>7. QueuePage => UNCHANGED processVars
  BY DEF QueuePage, CancelStart, PrioritiseStart, RequeueStart, Begin, CancelFinish,
         PrioritiseFinish, RequeueFinish, processVars
<1>8. Scripts => UNCHANGED processVars
  BY DEF Scripts, ManualRequeue, Supersede, InsertByHand, processVars
<1>9. Consumer => \/ \E l \in Lanes : Claim(l)
                  \/ Crash \/ Connect
                  \/ runs' \subseteq runs /\ worker' = worker /\ up' = up
  BY DEF Consumer, Receive, RunFinish, Close, Reap, Reconnect, processVars
<1> QED BY <1>2, <1>3, <1>4, <1>5, <1>6, <1>7, <1>8, <1>9 DEF Next, processVars
-----------------------------------------------------------------------------
LEMMA InitIInv == Init => IInv
<1> SUFFICES ASSUME Init PROVE IInv
  OBVIOUS
<1>1. jobs = << >> /\ jobs \in Seq(Job) /\ Len(jobs) = 0 /\ DOMAIN jobs = {}
  BY DEF Init
<1>2. TypeOK
  <2>1. cols \in [Parts -> [Columns -> StatusIds]]
    BY Statuses DEF Init
  <2>2. broker \in [QueueNames -> Seq(Message)]
    BY DEF Init
  <2>3. req \in [Requests -> Request]
    BY DEF Init, Request
  <2>4. lines \in [Parts -> Nat] /\ blank \in [Parts -> SUBSET Pages]
    BY DEF Init
  <2>5. up \in BOOLEAN /\ worker \in 1..MaxWorkers /\ runs \subseteq Run
    BY PipelineAssumption DEF Init
  <2> QED BY <1>1, <2>1, <2>2, <2>3, <2>4, <2>5, PipelineAssumption DEF Init, TypeOK
<1>3. RequestsOK
  BY DEF Init, Idle, RequestsOK
<1>4. WorkerSpare /\ ThreadsOK /\ OneThreadPerRow
  BY DEF Init, WorkerSpare, ThreadsOK, OneThreadPerRow
<1>5. OneActiveJob
  BY <1>1 DEF OneActiveJob
<1> QED BY <1>2, <1>3, <1>4, <1>5 DEF IInv

LEMMA StutterIInv == IInv /\ UNCHANGED vars => IInv'
BY DEF IInv, vars, TypeOK, RequestsOK, WorkerSpare, OneActiveJob, Lane, Active,
       ThreadsOK, OneThreadPerRow

LEMMA NextIInv == IInv /\ [Next]_vars => IInv'
<1>1. ASSUME IInv, Next PROVE IInv'
  <2>1. TypeOK' /\ RequestsOK' /\ Rows
    BY <1>1, NextStep DEF StepOK
  <2>2. OneActiveJob'
    BY <1>1, <2>1, ActiveStep DEF IInv
  <2> QED BY <1>1, <2>1, <2>2, ThreadStep DEF IInv
<1> QED BY <1>1, StutterIInv

\* The inductive invariant holds in every state of every behaviour.
THEOREM Invariance == Spec => []IInv
BY InitIInv, NextIInv, PTL DEF Spec

\* The variables keep their types: no request names a row that is not there, no
\* status, scope or priority of another kind is written into the table.
THEOREM TypeCorrect == Spec => []TypeOK
<1>1. IInv => TypeOK
  BY DEF IInv
<1> QED BY <1>1, Invariance, PTL

\* CostingQueue.cs:43-46: one active job per part per lane, for every number of
\* parts and of web requests under way, with crashes and redeliveries.
THEOREM OneActiveJobHolds == Spec => []OneActiveJob
<1>1. IInv => OneActiveJob
  BY DEF IInv
<1> QED BY <1>1, Invariance, PTL

\* check-costingpartqueue-orphans.sql:4-8: the orphan recovery, called after every
\* reconnect, never gives a row a second thread.
THEOREM OneThreadPerRowHolds == Spec => []OneThreadPerRow
<1>1. IInv => OneThreadPerRow
  BY DEF IInv
<1> QED BY <1>1, Invariance, PTL

\* CostingPartQueueEndpoint.cs:141-145: a closed row is never put back to work.
THEOREM ClosedRowsStayClosed == Spec => ClosedStaysClosed
<1> DEFINE Stays == \A j \in DOMAIN jobs :
                       ~Active(j) => jobs'[j].status \notin {"queued", "running"}
<1>1. IInv /\ [Next]_vars => [Stays]_vars
  <2>1. ASSUME IInv, Next PROVE Stays
    <3>1. Rows
      BY <2>1, NextStep DEF StepOK
    <3>2. \A j \in DOMAIN jobs : RowFollows(j)
      BY <3>1 DEF Rows, SameRows, OneMoreRow
    <3> QED BY <3>2 DEF RowFollows, Orphans, Active
  <2> QED BY <2>1
<1> QED BY <1>1, Invariance, PTL DEF Spec, ClosedStaysClosed
=============================================================================
