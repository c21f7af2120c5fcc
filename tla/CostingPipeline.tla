-------------------------- MODULE CostingPipeline --------------------------
(***************************************************************************)
(* The admission queue of the costing pipeline: the rows of                *)
(* dbo.CostingPartQueue, the status columns of dbo.CostingParts, the       *)
(* RabbitMQ queues, the web requests that write them (Upload, Re-run,      *)
(* Cancel, Move up, Retry) and the consumer that admits and runs the jobs. *)
(*                                                                         *)
(* A web handler reads in one step and writes in a later one: its reads    *)
(* hold no lock (READ COMMITTED), its writes commit together.  The         *)
(* consumer is not in this repository; it is modelled from the SQL it      *)
(* issues (.mssql-scripts) and from what the C# code says of it.           *)
(***************************************************************************)
EXTENDS Integers, Sequences, FiniteSets

CONSTANTS
    Parts,        \* ids of dbo.CostingParts
    Pages,        \* page numbers of a drawing
    Whole,        \* payload NULL or a bare id: the whole document
    SkipDone,     \* payload {"Id":n,"SkipDone":true}
    Requests,     \* web requests and scripts that can be under way at the same time
    Capacity,     \* per lane, how many jobs the consumer admits at once
    Processed,    \* the parts whose three stages completed before the start
    StageChoices, \* the values of RequestedStages the upload dialog sends
    RerunQueues,  \* the stages the operator re-runs, by their queue
    Operations,   \* what the operator does; see AllOperations
    Faults,       \* what goes wrong; see AllFaults
    MaxJobs,      \* bound: rows ever inserted
    MaxMessages,  \* bound: messages waiting in one RabbitMQ queue
    MaxWorkers,   \* bound: consumer processes ever started
    MaxBumps      \* bound: how far Move up can lower a priority

Lanes == {"drawing", "costing", "ballooning"}

QueueNames == {"NewCostingParts", "RetryOcr", "Costing", "Ballooning"}

LaneForQueue ==
    [q \in QueueNames |->
        CASE q \in {"NewCostingParts", "RetryOcr"} -> "drawing"
          [] q = "Costing"                         -> "costing"
          [] q = "Ballooning"                      -> "ballooning"]

AllOperations == {"rerun", "force", "cancel", "release", "prioritise",
                  "requeue", "script"}

\* crash: the consumer dies; redeliver: a message is handed over again;
\* stale: the reaper gives up on a job; fail: a run ends in Failed;
\* abort: a web request dies after its publish; down: it cannot publish;
\* enqueue: Enqueue adds no row; unread: a hand-off cannot read RequestedStages;
\* late: a message is delivered after the run it announced.
AllFaults == {"crash", "redeliver", "stale", "fail", "abort", "down", "enqueue",
              "unread", "late"}

ASSUME PipelineAssumption ==
    /\ Whole \notin Pages /\ SkipDone \notin Pages /\ Whole # SkipDone
    /\ Capacity \in [Lanes -> Nat \ {0}]
    /\ Processed \subseteq Parts
    /\ StageChoices \subseteq (SUBSET Lanes) \ {{}}
    /\ RerunQueues \subseteq QueueNames \ {"RetryOcr"}
    /\ Operations \subseteq AllOperations
    /\ Faults \subseteq AllFaults
    /\ MaxJobs \in Nat /\ MaxMessages \in Nat
    /\ MaxWorkers \in Nat \ {0} /\ MaxBumps \in Nat

Columns == {"conversion", "ocr", "costing", "balloon"}

LaneStatusColumns ==
    [l \in Lanes |->
        CASE l = "drawing"    -> {"conversion", "ocr"}
          [] l = "costing"    -> {"costing"}
          [] l = "ballooning" -> {"balloon"}]

\* The column Re-run reads and resets: for a drawing the conversion's only.
StatusField ==
    [q \in QueueNames |->
        CASE q \in {"NewCostingParts", "RetryOcr"} -> "conversion"
          [] q = "Costing"                         -> "costing"
          [] q = "Ballooning"                      -> "balloon"]

\* MasterCostingStatus ids (5 Upload Failed and 6 No Drawing are not written here).
Pending    == 1
InProgress == 2
Completed  == 3
Failed     == 4
Skipped    == 7
StatusIds  == 1..7

DefaultPriority == 100
ScriptPriority  == 1

Scopes    == Pages \cup {Whole, SkipDone}
JobStatus == {"queued", "running", "completed", "failed", "cancelled"}
Job       == [part: Parts, queue: QueueNames, scope: Scopes, status: JobStatus,
              priority: Int, attempt: Nat, worker: 0..MaxWorkers]
Message   == [part: Parts, scope: Scopes]

VARIABLES
    jobs,     \* dbo.CostingPartQueue, by ID; a later ID was queued later
    cols,     \* the four status columns of each part
    broker,   \* the RabbitMQ queues, oldest message first
    runs,     \* the consumer's worker threads: the row and attempt they serve
    up,       \* whether the consumer process is up
    worker,   \* its WorkerId: the number of the process on this host
    req,      \* what each web request has read, and how far each script is
    fresh,    \* parts the upload dialog created, its /UploadDrawing still to come
    stages,   \* RequestedStages of each part, ticked in the upload dialog
    refused,  \* parts whose /UploadDrawing failed and was rolled back
    misread,  \* history: parts a hand-off took for ones with every stage ticked
    lines,    \* copies of the costing run's lines that are active on the part
    blank     \* pages that hold no automatic balloons

vars == <<jobs, cols, broker, runs, up, worker, req, fresh, stages, refused, misread,
          lines, blank>>
processVars == <<runs, up, worker>>
outputVars  == <<lines, blank>>
uploadVars  == <<fresh, stages, refused, misread>>

Idle == [op |-> "idle"]

Request ==
    {Idle}
    \cup [op: {"rerun"}, part: Parts, queue: QueueNames, scope: Scopes]
    \cup [op: {"cancel"}, job: 1..MaxJobs, seen: {"queued", "running"}]
    \cup [op: {"prioritise"}, job: 1..MaxJobs, top: Int]
    \cup [op: {"requeue"}, job: 1..MaxJobs, found: BOOLEAN]
    \cup [op: {"supersede", "insert"}, part: Parts, queue: QueueNames]

Run == [job: 1..MaxJobs, attempt: Nat, scope: Scopes]

TypeOK ==
    /\ jobs \in Seq(Job) /\ Len(jobs) <= MaxJobs
    /\ cols \in [Parts -> [Columns -> StatusIds]]
    /\ broker \in [QueueNames -> Seq(Message)]
    /\ runs \subseteq Run
    /\ up \in BOOLEAN
    /\ worker \in 1..MaxWorkers
    /\ req \in [Requests -> Request]
    /\ fresh \subseteq Parts
    /\ stages \in [Parts -> StageChoices]
    /\ refused \subseteq Parts /\ misread \subseteq Parts
    /\ lines \in [Parts -> Nat]
    /\ blank \in [Parts -> SUBSET Pages]
-----------------------------------------------------------------------------
(* The queue table. *)

Lane(j)   == LaneForQueue[jobs[j].queue]
Active(j) == jobs[j].status \in {"queued", "running"}

ActiveJobs(p, l) ==
    {j \in DOMAIN jobs : jobs[j].part = p /\ Lane(j) = l /\ Active(j)}

QueuedIn(l)  == {j \in DOMAIN jobs : Lane(j) = l /\ jobs[j].status = "queued"}
\* Variant: the admission counts the jobs that wait as well.
RunningOrQueuedIn(l) == {j \in DOMAIN jobs : Lane(j) = l /\ Active(j)}
RunningIn(l) == {j \in DOMAIN jobs : Lane(j) = l /\ jobs[j].status = "running"}

\* Variant: the INSERT does not name the Payload column.
NewJobWithoutPayload(p, q, s, prio) ==
    [part |-> p, queue |-> q, scope |-> Whole, status |-> "queued",
     priority |-> prio, attempt |-> 0, worker |-> 0]

NewJob(p, q, s, prio) ==
    [part |-> p, queue |-> q, scope |-> s, status |-> "queued",
     priority |-> prio, attempt |-> 0, worker |-> 0]

\* Variant: without the unique index.
InsertUnchecked(p, q, s, prio) ==
    /\ Len(jobs) < MaxJobs
    /\ jobs' = Append(jobs, NewJob(p, q, s, prio))

\* INSERT, under the filtered unique index UX_CostingPartQueue_Active.
Insert(p, q, s, prio) ==
    /\ ActiveJobs(p, LaneForQueue[q]) = {}
    /\ Len(jobs) < MaxJobs
    /\ jobs' = Append(jobs, NewJob(p, q, s, prio))

\* CostingQueue.Enqueue: the row already active is kept as it is, payload and
\* all; an INSERT that fails is swallowed ("enqueue" is also the row found by
\* the SELECT and closed before the commit).
Enqueue(p, q, s) ==
    \/ Insert(p, q, s, DefaultPriority)
    \/ /\ ActiveJobs(p, LaneForQueue[q]) # {} \/ "enqueue" \in Faults
       /\ UNCHANGED jobs

\* Variant: another spelling than the one the page and the index know.
SetStatusMisspelt(j, status) ==
    jobs' = [jobs EXCEPT ![j].status = IF status = "cancelled" THEN "canceled" ELSE status]

SetStatus(j, status) == jobs' = [jobs EXCEPT ![j].status = status]

\* FailPart: one status on every column of the row's lane.
WithLane(p, l, status) ==
    [cols EXCEPT ![p] = [c \in Columns |-> IF c \in LaneStatusColumns[l]
                                           THEN status ELSE @[c]]]

Publish(q, p, s) ==
    /\ Len(broker[q]) < MaxMessages
    /\ broker' = [broker EXCEPT ![q] = Append(@, [part |-> p, scope |-> s])]

\* Variant: ORDER BY QueuedAt, ID.
BeforeByAge(i, j) == i < j

\* Dequeue order: ORDER BY Priority, QueuedAt, ID.
Before(i, j) ==
    \/ jobs[i].priority < jobs[j].priority
    \/ jobs[i].priority = jobs[j].priority /\ i < j

\* A request or a script that writes the row may not have committed yet: its lock
\* makes the dequeue pass the row over (READPAST).
Locked(j) ==
    \E r \in Requests :
        \/ req[r].op \in {"cancel", "prioritise"} /\ req[r].job = j
        \/ /\ req[r].op = "supersede"
           /\ req[r].part = jobs[j].part /\ LaneForQueue[req[r].queue] = Lane(j)

\* The Position the Processing Queue page shows for a waiting row.
Position(j) ==
    Cardinality({i \in QueuedIn(Lane(j)) :
                    \/ jobs[i].priority < jobs[j].priority
                    \/ jobs[i].priority = jobs[j].priority /\ i <= j})
-----------------------------------------------------------------------------
(* Upload: ApiController.SendMessage. *)

FirstQueue(asked) ==
    IF "drawing" \in asked THEN "NewCostingParts"
    ELSE IF "costing" \in asked THEN "Costing"
    ELSE "Ballooning"

SkipColumns(p) ==
    [cols EXCEPT ![p] =
        [c \in Columns |->
            IF \E l \in Lanes \ stages[p] : c \in LaneStatusColumns[l]
            THEN Skipped ELSE @[c]]]

Upload(p) ==
    /\ p \in fresh
    /\ fresh' = fresh \ {p}
    /\ cols' = SkipColumns(p)
    /\ Enqueue(p, FirstQueue(stages[p]), Whole)
    /\ Publish(FirstQueue(stages[p]), p, Whole)
    /\ UNCHANGED <<processVars, outputVars, stages, refused, misread, req>>

\* The request dies before its commit: only the message is out.
UploadAborted(p) ==
    /\ "abort" \in Faults
    /\ p \in fresh
    /\ fresh' = fresh \ {p}
    /\ Publish(FirstQueue(stages[p]), p, Whole)
    /\ UNCHANGED <<processVars, outputVars, stages, refused, misread, req, jobs, cols>>

\* RabbitMQ is down: all of it is rolled back, and nothing asks again.
UploadRefused(p) ==
    /\ "down" \in Faults
    /\ p \in fresh
    /\ fresh' = fresh \ {p}
    /\ refused' = refused \cup {p}
    /\ UNCHANGED <<processVars, outputVars, stages, misread, req, jobs, cols, broker>>
-----------------------------------------------------------------------------
(* Re-run: CostingPartsEndpoint.Rerun. *)

Begin(r, request) ==
    /\ req[r] = Idle
    /\ req' = [req EXCEPT ![r] = request]
    /\ UNCHANGED <<jobs, cols, broker, processVars, outputVars, uploadVars>>

End(r) == req' = [req EXCEPT ![r] = Idle]

IsQueued(p, q) == ActiveJobs(p, LaneForQueue[q]) # {}

RerunStart(r, p, q, s) ==
    /\ "rerun" \in Operations
    /\ q # "Ballooning" => s = Whole
    /\ \/ "force" \in Operations
       \/ cols[p][StatusField[q]] # InProgress /\ ~IsQueued(p, q)
    /\ Begin(r, [op |-> "rerun", part |-> p, queue |-> q, scope |-> s])

\* Variant: every page is cleared whichever was asked for.
ClearWholeOutput(p, q, s) ==
    /\ lines' = IF q = "Costing" THEN [lines EXCEPT ![p] = 0] ELSE lines
    /\ blank' = IF q = "Ballooning" /\ s # SkipDone THEN [blank EXCEPT ![p] = Pages] ELSE blank

\* What the drawing stage clears, its converted pages, is left out.
ClearPreviousOutput(p, q, s) ==
    /\ lines' = IF q = "Costing" THEN [lines EXCEPT ![p] = 0] ELSE lines
    /\ blank' = CASE q # "Ballooning" -> blank
                  [] q = "Ballooning" /\ s \in Pages ->
                        [blank EXCEPT ![p] = @ \cup {s}]
                  [] q = "Ballooning" /\ s = Whole -> [blank EXCEPT ![p] = Pages]
                  [] q = "Ballooning" /\ s = SkipDone -> blank

RerunFinish(r) ==
    /\ req[r].op = "rerun"
    /\ LET p == req[r].part
           q == req[r].queue
           s == req[r].scope
       IN  /\ ClearPreviousOutput(p, q, s)
           /\ cols' = [cols EXCEPT ![p][StatusField[q]] = Pending]
           /\ Enqueue(p, q, s)
           /\ Publish(q, p, s)
    /\ End(r)
    /\ UNCHANGED <<processVars, uploadVars>>

\* The message is out, the transaction is rolled back.
RerunAborted(r) ==
    /\ "abort" \in Faults
    /\ req[r].op = "rerun"
    /\ Publish(req[r].queue, req[r].part, req[r].scope)
    /\ End(r)
    /\ UNCHANGED <<processVars, outputVars, uploadVars, jobs, cols>>

\* RabbitMQ is down: Publish throws and all of it is rolled back.
RerunRefused(r) ==
    /\ "down" \in Faults
    /\ req[r].op = "rerun"
    /\ End(r)
    /\ UNCHANGED <<processVars, outputVars, uploadVars, jobs, cols, broker>>
-----------------------------------------------------------------------------
(* The Processing Queue page: CostingPartQueueEndpoint. *)

CancelStart(r, j) ==
    /\ \/ jobs[j].status = "queued" /\ "cancel" \in Operations
       \/ jobs[j].status = "running" /\ "release" \in Operations
    /\ Begin(r, [op |-> "cancel", job |-> j, seen |-> jobs[j].status])

\* Both writes are by ID: what the row has become meanwhile is not looked at.
CancelFinish(r) ==
    /\ req[r].op = "cancel"
    /\ LET j == req[r].job
       IN  IF req[r].seen = "queued"
           THEN SetStatus(j, "cancelled") /\ UNCHANGED cols
           ELSE /\ SetStatus(j, "failed")
                /\ cols' = WithLane(jobs[j].part, Lane(j), Failed)
    /\ End(r)
    /\ UNCHANGED <<broker, processVars, outputVars, uploadVars>>

\* SELECT MIN(Priority) of the lane's waiting rows, as a set of one value; it is
\* not NULL (100 in the code) while the row to move is itself waiting.
Lowest(l) ==
    {t \in {jobs[i].priority : i \in QueuedIn(l)} :
        \A i \in QueuedIn(l) : t <= jobs[i].priority}

PrioritiseStart(r, j) ==
    /\ "prioritise" \in Operations
    /\ jobs[j].status = "queued"
    /\ \E top \in Lowest(Lane(j)) :
        /\ top > DefaultPriority - MaxBumps
        /\ Begin(r, [op |-> "prioritise", job |-> j, top |-> top])

PrioritiseFinish(r) ==
    /\ req[r].op = "prioritise"
    /\ jobs' = [jobs EXCEPT ![req[r].job].priority = req[r].top - 1]
    /\ End(r)
    /\ UNCHANGED <<cols, broker, processVars, outputVars, uploadVars>>

\* "found": what the SELECT of Enqueue may see if it runs now.
RequeueStart(r, j) ==
    /\ "requeue" \in Operations
    /\ ~Active(j)
    /\ Begin(r, [op |-> "requeue", job |-> j,
                 found |-> ActiveJobs(jobs[j].part, Lane(j)) # {}])

RequeueFinish(r) ==
    /\ req[r].op = "requeue"
    /\ LET j      == req[r].job
           p      == jobs[j].part
           exists == ActiveJobs(p, Lane(j)) # {}
       IN  \/ \* Enqueue returns the id of the other row
              /\ req[r].found \/ exists
              /\ cols' = WithLane(p, Lane(j), Pending)
              /\ UNCHANGED jobs
           \/ /\ Insert(p, jobs[j].queue, Whole, DefaultPriority)
              /\ cols' = WithLane(p, Lane(j), Pending)
           \/ \* the INSERT fails: NotQueued, rolled back
              /\ (exists /\ ~req[r].found) \/ "enqueue" \in Faults
              /\ UNCHANGED <<jobs, cols>>
    /\ End(r)
    /\ UNCHANGED <<broker, processVars, outputVars, uploadVars>>

-----------------------------------------------------------------------------
(* requeue-costing.sql, requeue-drawing.sql and requeue-ballooning.sql: three   *)
(* statements, each committed by itself.                                        *)

\* 1. The part goes back to Pending.
ManualRequeue(r, p, q) ==
    /\ "script" \in Operations
    /\ req[r] = Idle
    /\ Len(jobs) < MaxJobs
    /\ cols' = WithLane(p, LaneForQueue[q], Pending)
    /\ req' = [req EXCEPT ![r] = [op |-> "supersede", part |-> p, queue |-> q]]
    /\ UNCHANGED <<jobs, broker, processVars, outputVars, uploadVars>>

\* 2. Its active row is cancelled.
Supersede(r) ==
    /\ req[r].op = "supersede"
    /\ jobs' = [j \in DOMAIN jobs |->
                   IF j \in ActiveJobs(req[r].part, LaneForQueue[req[r].queue])
                   THEN [jobs[j] EXCEPT !.status = "cancelled"]
                   ELSE jobs[j]]
    /\ req' = [req EXCEPT ![r].op = "insert"]
    /\ UNCHANGED <<cols, broker, processVars, outputVars, uploadVars>>

\* 3. A new row is inserted, or the unique index refuses it.
InsertByHand(r) ==
    /\ req[r].op = "insert"
    /\ LET p == req[r].part
           q == req[r].queue
       IN  \/ Insert(p, q, Whole, ScriptPriority)
           \/ ActiveJobs(p, LaneForQueue[q]) # {} /\ UNCHANGED jobs
    /\ End(r)
    /\ UNCHANGED <<cols, broker, processVars, outputVars, uploadVars>>
-----------------------------------------------------------------------------
(* The consumer. *)

\* queue_store._widen_scope: a scope grows to the whole document, never shrinks.
Widen(existing, incoming) ==
    IF existing \in Pages /\ incoming # existing THEN Whole ELSE existing

\* queue_store.enqueue: a message joins the active row of its part and lane.
Receive(q) ==
    /\ up
    /\ broker[q] # << >>
    /\ LET m       == Head(broker[q])
           waiting == ActiveJobs(m.part, LaneForQueue[q])
       IN  \/ Insert(m.part, q, m.scope, DefaultPriority)
           \/ /\ waiting # {}
              /\ jobs' = [j \in DOMAIN jobs |->
                             IF j \in waiting
                             THEN [jobs[j] EXCEPT !.scope = Widen(@, m.scope)]
                             ELSE jobs[j]]
    /\ \/ broker' = [broker EXCEPT ![q] = Tail(@)]
       \/ "redeliver" \in Faults /\ UNCHANGED broker
    /\ UNCHANGED <<cols, processVars, outputVars, uploadVars, req>>

\* queue_store._claim: admit the first row in line that is not locked, and start
\* its thread.
Claim(l) ==
    /\ up
    /\ Cardinality(RunningIn(l)) < Capacity[l]
    /\ \E j \in QueuedIn(l) :
        /\ \A i \in QueuedIn(l) \ {j} : Before(j, i) \/ Locked(i)
        /\ jobs' = [jobs EXCEPT ![j].status = "running",
                                ![j].attempt = @ + 1,
                                ![j].worker = worker]
        /\ runs' = runs \cup {[job |-> j, attempt |-> jobs[j].attempt + 1,
                              scope |-> jobs[j].scope]}
        /\ cols' = WithLane(jobs[j].part, l, InProgress)
    /\ UNCHANGED <<broker, up, worker, outputVars, uploadVars, req>>

\* requested_stages: a read that fails answers all three.
RequestedStages(p) == IF "unread" \in Faults THEN {stages[p], Lanes} ELSE {stages[p]}

Misread(p, answers) ==
    misread' = IF answers \subseteq {stages[p]} THEN misread ELSE misread \cup {p}

\* Variant: RequestedStages is not read.
StartsBallooningUnasked(p, asked) ==
    /\ cols[p]["balloon"] # InProgress
    /\ blank[p] = Pages

\* maybe_start_ballooning: asked for, not under way, nothing on the pages yet.
StartsBallooning(p, asked) ==
    /\ "ballooning" \in asked
    /\ cols[p]["balloon"] # InProgress
    /\ blank[p] = Pages

\* Variant: costing that has been done is started again.
StartsCostingAgain(p, ok, asked) == ok /\ "costing" \in asked

\* maybe_start_costing: asked for, still outstanding, the drawing converted.
StartsCosting(p, ok, asked) ==
    /\ ok
    /\ "costing" \in asked
    /\ cols[p]["costing"] = Pending

\* With the columns set to ended, and after the answers read so far.
ThenBallooning(p, ended, answers) ==
    \E asked \in RequestedStages(p) :
        /\ Misread(p, answers \cup {asked})
        /\ IF StartsBallooning(p, asked)
           THEN /\ cols' = [ended EXCEPT ![p]["balloon"] = Pending]
                /\ Publish("Ballooning", p, Whole)
           ELSE cols' = ended /\ UNCHANGED broker

HandsOverToCosting(p, ended, ok) ==
    \E asked \in RequestedStages(p) :
        \/ /\ StartsCosting(p, ok, asked)
           /\ cols' = ended
           /\ Publish("Costing", p, Whole)
           /\ Misread(p, {asked})
        \/ ~StartsCosting(p, ok, asked) /\ ThenBallooning(p, ended, {asked})

\* Variant: a stage that fails hands nothing on.
HandOffAfterSuccess(p, l, ok) ==
    LET ended == WithLane(p, l, IF ok THEN Completed ELSE Failed)
    IN  \/ ok /\ l = "drawing" /\ HandsOverToCosting(p, ended, ok)
        \/ ok /\ l = "costing" /\ ThenBallooning(p, ended, {})
        \/ /\ ~ok \/ l = "ballooning"
           /\ cols' = ended /\ UNCHANGED <<broker, misread>>

\* The end of a run: its status, and the message that starts the next stage.
HandOff(p, l, ok) ==
    LET ended == WithLane(p, l, IF ok THEN Completed ELSE Failed)
    IN  \/ l = "drawing" /\ HandsOverToCosting(p, ended, ok)
        \/ l = "costing" /\ ThenBallooning(p, ended, {})
        \/ l = "ballooning" /\ cols' = ended /\ UNCHANGED <<broker, misread>>

\* What a completed run leaves: costing appends its lines, ballooning fills the
\* pages it was given (SkipDone: the blank ones, as the whole document does).
Produce(p, l, s) ==
    /\ lines' = IF l = "costing" THEN [lines EXCEPT ![p] = @ + 1] ELSE lines
    /\ blank' = CASE l # "ballooning" -> blank
                  [] l = "ballooning" /\ s \in Pages ->
                        [blank EXCEPT ![p] = @ \ {s}]
                  [] l = "ballooning" /\ s \notin Pages -> [blank EXCEPT ![p] = {}]

Delivered(p, q) == \A i \in DOMAIN broker[q] : broker[q][i].part # p

\* A worker thread ends.  It does not look at its row again.
RunFinish(run) ==
    LET j == run.job
        p == jobs[j].part
    IN  /\ "late" \in Faults \/ Delivered(p, jobs[j].queue)
        /\ runs' = runs \ {run}
        /\ \/ HandOff(p, Lane(j), TRUE) /\ Produce(p, Lane(j), run.scope)
           \/ /\ "fail" \in Faults
              /\ HandOff(p, Lane(j), FALSE)
              /\ UNCHANGED outputVars
        /\ UNCHANGED <<jobs, up, worker, fresh, stages, refused, req>>

\* Variant: a part that is Pending counts as ended.
LaneNotInProgress(p, l) == \A c \in LaneStatusColumns[l] : cols[p][c] # InProgress

LaneEnded(p, l) ==
    \A c \in LaneStatusColumns[l] : cols[p][c] \notin {Pending, InProgress}

\* queue_store._finish_completed: the dispatcher learns from the part's columns,
\* not from the thread, that a job is over; a waiting row is closed as well.
Close(j) ==
    /\ up
    /\ Active(j)
    /\ LaneEnded(jobs[j].part, Lane(j))
    /\ SetStatus(j, IF \E c \in LaneStatusColumns[Lane(j)] :
                          cols[jobs[j].part][c] = Failed
                    THEN "failed" ELSE "completed")
    /\ UNCHANGED <<cols, broker, processVars, outputVars, uploadVars, req>>

\* queue_store._reap_stale: a row that has been running for too long is given up
\* on; the thread, if there is one, goes on.
Reap(j) ==
    /\ "stale" \in Faults
    /\ up
    /\ jobs[j].status = "running"
    /\ SetStatus(j, "failed")
    /\ cols' = IF LaneEnded(jobs[j].part, Lane(j)) THEN cols
               ELSE WithLane(jobs[j].part, Lane(j), Failed)
    /\ UNCHANGED <<broker, processVars, outputVars, uploadVars, req>>

\* The threads are daemons of the process and die with it.
Crash ==
    /\ "crash" \in Faults
    /\ up
    /\ worker < MaxWorkers
    /\ up' = FALSE
    /\ runs' = {}
    /\ UNCHANGED <<jobs, cols, broker, worker, outputVars, uploadVars, req>>

\* Variant: the process's own rows are orphans too.
AllRunning(me) == {j \in DOMAIN jobs : jobs[j].status = "running"}

\* Variant: WHERE Status = 'running' is missing.
NotMine(me) == {j \in DOMAIN jobs : jobs[j].worker # me}

Orphans(me) == {j \in DOMAIN jobs : jobs[j].status = "running" /\ jobs[j].worker # me}

\* Back to queued, the same row and the same payload.
RequeueOrphans(me) ==
    jobs' = [j \in DOMAIN jobs |->
                IF j \in Orphans(me)
                THEN [jobs[j] EXCEPT !.status = "queued", !.worker = 0]
                ELSE jobs[j]]

\* A new process takes over.
Connect ==
    /\ ~up
    /\ up' = TRUE
    /\ worker' = worker + 1
    /\ RequeueOrphans(worker + 1)
    /\ UNCHANGED <<cols, broker, runs, outputVars, uploadVars, req>>

\* The supervisor loop reconnects to RabbitMQ: same process, same statement.
Reconnect ==
    /\ "crash" \in Faults
    /\ up
    /\ RequeueOrphans(worker)
    /\ UNCHANGED <<cols, broker, processVars, outputVars, uploadVars, req>>
-----------------------------------------------------------------------------
Init ==
    /\ jobs = << >>
    /\ cols = [p \in Parts |-> [c \in Columns |->
                  IF p \in Processed THEN Completed ELSE Pending]]
    /\ broker = [q \in QueueNames |-> << >>]
    /\ runs = {} /\ up = TRUE /\ worker = 1
    /\ req = [r \in Requests |-> Idle]
    /\ fresh = Parts \ Processed /\ refused = {} /\ misread = {}
    /\ stages \in [Parts -> StageChoices]
    /\ lines = [p \in Parts |-> IF p \in Processed THEN 1 ELSE 0]
    /\ blank = [p \in Parts |-> IF p \in Processed THEN {} ELSE Pages]

Uploads == \E p \in Parts : Upload(p) \/ UploadAborted(p) \/ UploadRefused(p)

Reruns ==
    \E r \in Requests :
        \/ \E p \in Parts, q \in RerunQueues, s \in Scopes : RerunStart(r, p, q, s)
        \/ RerunFinish(r)
        \/ RerunAborted(r) \/ RerunRefused(r)

QueuePage ==
    \E r \in Requests :
        \/ \E j \in DOMAIN jobs :
              CancelStart(r, j) \/ PrioritiseStart(r, j) \/ RequeueStart(r, j)
        \/ CancelFinish(r)
        \/ PrioritiseFinish(r)
        \/ RequeueFinish(r)

Scripts ==
    \E r \in Requests :
        \/ \E p \in Parts, q \in RerunQueues : ManualRequeue(r, p, q)
        \/ Supersede(r) \/ InsertByHand(r)

Consumer ==
    \/ \E q \in QueueNames : Receive(q)
    \/ \E l \in Lanes : Claim(l)
    \/ \E run \in runs : RunFinish(run)
    \/ \E j \in DOMAIN jobs : Close(j) \/ Reap(j)
    \/ Crash \/ Connect \/ Reconnect

Next == Uploads \/ Reruns \/ QueuePage \/ Scripts \/ Consumer

\* The consumer's loops and threads keep going, a request that began ends, and
\* the upload dialog makes its second call.  Nobody has to press a button, and
\* the reaper is fair because a row that stays running outlives StaleMinutes.
Fairness ==
    /\ \A p \in Parts : WF_vars(Upload(p))
    /\ \A r \in Requests :
        WF_vars(\/ RerunFinish(r) \/ CancelFinish(r) \/ PrioritiseFinish(r) \/ RequeueFinish(r)
                \/ Supersede(r) \/ InsertByHand(r))
    /\ \A q \in QueueNames : WF_vars(Receive(q))
    /\ \A l \in Lanes : WF_vars(Claim(l))
    /\ WF_vars(\E run \in runs : RunFinish(run))
    /\ \A j \in 1..MaxJobs : WF_vars(j \in DOMAIN jobs /\ (Close(j) \/ Reap(j)))
    /\ WF_vars(Connect)

Spec == Init /\ [][Next]_vars

FairSpec == Spec /\ Fairness
-----------------------------------------------------------------------------
(* Safety. *)

\* A part never has two active jobs in one lane (CostingQueue.cs:43-46), however
\* requests, retries, scripts, redeliveries and orphan recoveries interleave.
OneActiveJob ==
    \A i, j \in DOMAIN jobs :
        (/\ jobs[i].part = jobs[j].part /\ Lane(i) = Lane(j)
         /\ Active(i) /\ Active(j)) => i = j

\* A row never has two live worker threads: the orphan recovery of a crash or of
\* a reconnect gives back only the rows whose thread is gone
\* (check-costingpartqueue-orphans.sql:4-8).
OneThreadPerRow ==
    \A a, b \in runs : a.job = b.job => a = b

\* No two threads work for the same part and lane, where nobody takes a row off
\* the queue or releases a slot (CostingQueue.cs:43-46).
OneThreadPerPart ==
    \A a, b \in runs :
        (/\ jobs[a.job].part = jobs[b.job].part
         /\ Lane(a.job) = Lane(b.job)) => a = b

\* The scope is written into the queue row and into the message, and the two
\* agree as long as both are there (CostingPartsEndpoint.cs:137-145).
RowAgreesWithMessage ==
    \A p \in Parts :
        \A j \in ActiveJobs(p, "ballooning"), i \in DOMAIN broker["Ballooning"] :
            broker["Ballooning"][i].part = p => jobs[j].scope = broker["Ballooning"][i].scope

\* Nothing waits, runs or is about to: for part p and the lane of queue q.
Settled(p, q) ==
    /\ ActiveJobs(p, LaneForQueue[q]) = {}
    /\ Delivered(p, q)
    /\ \A r \in Requests : req[r] = Idle
    /\ \A run \in runs : jobs[run.job].part # p

\* Once a part's costing has settled in Completed, the run's lines are there once:
\* re-running cleared the previous ones (CostingPartsEndpoint.cs:65-68).
LinesCountedOnce ==
    \A p \in Parts :
        (Settled(p, "Costing") /\ cols[p]["costing"] = Completed) => lines[p] = 1

\* Once a part's ballooning has settled in Completed, every page that a re-run
\* cleared is filled again (check_page_scoped_rerun.py:118-119).
ClearedPagesComeBack ==
    \A p \in Parts :
        (Settled(p, "Ballooning") /\ cols[p]["balloon"] = Completed) => blank[p] = {}

\* A stage the uploader did not tick gets no job (ApiController.cs:261-264), unless
\* a hand-off of that very part could not read which were ticked: a failed read
\* does not spread to other parts, nor an upload with fewer stages to a later one.
SkippedNeverQueued ==
    \A j \in DOMAIN jobs : Lane(j) \in stages[jobs[j].part] \/ jobs[j].part \in misread

\* The part of a job that was cancelled while it waited (no worker holds it) is
\* not In Progress, for only admitting a job moves it there
\* (CostingPartQueueEndpoint.cs:64-66).
CancelledWhileWaiting ==
    \A j \in DOMAIN jobs :
        /\ jobs[j].status = "cancelled" /\ jobs[j].worker = 0
        /\ ActiveJobs(jobs[j].part, Lane(j)) = {}
        /\ Delivered(jobs[j].part, jobs[j].queue)
        => \A c \in LaneStatusColumns[Lane(j)] : cols[jobs[j].part][c] # InProgress
-----------------------------------------------------------------------------
(* Action properties. *)

\* The dispatcher admits rows in the order the Processing Queue page shows,
\* whatever Move up has done to the priorities (CostingPartQueueRow.cs:114-132): it
\* passes over a row only while a request or a script is changing it.
PositionOneRunsNext ==
    [][\A j \in DOMAIN jobs :
        (jobs[j].status = "queued" /\ jobs'[j].status = "running")
        => \A i \in QueuedIn(Lane(j)) : Position(i) < Position(j) => Locked(i)]_vars

\* A closed row is history: nothing makes it active again, a retry is a new row
\* (CostingPartQueueEndpoint.cs:141-145).
ClosedStaysClosed ==
    [][\A j \in DOMAIN jobs :
        ~Active(j) => jobs'[j].status \notin {"queued", "running"}]_vars

\* A closed row keeps the outcome it has; Cancel answers "This job is already
\* completed" (CostingPartQueueEndpoint.cs:101-102).
OutcomeIsFinal ==
    [][\A j \in DOMAIN jobs : ~Active(j) => jobs'[j].status = jobs[j].status]_vars
-----------------------------------------------------------------------------
(* Liveness. *)

\* Every job that is queued ends: crashes, lost slots, stale columns and jobs
\* moved up before it do not leave it waiting for ever.
EveryJobCloses ==
    \A j \in 1..MaxJobs :
        (j \in DOMAIN jobs /\ Active(j)) ~> (j \in DOMAIN jobs /\ ~Active(j))

\* Every stage the uploader ticked ends, whichever of the others failed; costing
\* is given up when the drawing failed (check_stage_handoff.py:89-103),
\* and nothing starts when the upload's request could not publish.
EveryStageEnds ==
    \A p \in Parts : \A l \in Lanes :
        (l \in stages[p]) ~>
            \/ LaneEnded(p, l) \/ p \in refused
            \/ l = "costing" /\ "drawing" \in stages[p] /\ cols[p]["conversion"] = Failed
-----------------------------------------------------------------------------
(* The promise of the queue, and how this specification keeps it. *)

Phase(status) ==
    CASE status = "queued"  -> "waiting"
      [] status = "running" -> "running"
      [] OTHER              -> "over"

JobTable ==
    [j \in DOMAIN jobs |-> [key   |-> <<jobs[j].part, Lane(j)>>,
                            phase |-> Phase(jobs[j].status),
                            tries |-> jobs[j].attempt]]

Threads == {[job |-> run.job, attempt |-> run.attempt] : run \in runs}

Lifecycle == INSTANCE JobLifecycle
    WITH Keys <- Parts \X Lanes, table <- JobTable, threads <- Threads

\* Seen as a table of jobs and the threads that serve them, the queue is a
\* JobLifecycle: no interleaving of requests, scripts, reaper, crashes and
\* reconnects admits, recovers or reopens a job that a thread still works for
\* (check-costingpartqueue-orphans.sql:4-8, CostingQueue.cs:43-46).
ImplementsLifecycle == Lifecycle!Spec
=============================================================================
