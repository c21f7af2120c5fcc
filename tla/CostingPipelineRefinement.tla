--------------------- MODULE CostingPipelineRefinement ---------------------
(***************************************************************************)
(* CostingPipeline implements JobLifecycle: every step of the queue, seen  *)
(* through JobTable and Threads, is a step of the lifecycle or a stutter.  *)
(***************************************************************************)
EXTENDS CostingPipelineProofs

Entry == [key: Parts \X Lanes, phase: {"waiting", "running", "over"}, tries: Nat]

LifecycleStep == Lifecycle!Next \/ UNCHANGED Lifecycle!vars

LEMMA PhaseValues ==
    ASSUME NEW s \in JobStatus
    PROVE  /\ Phase(s) \in {"waiting", "running", "over"}
           /\ Phase(s) = "waiting" <=> s = "queued"
           /\ Phase(s) = "running" <=> s = "running"
           /\ Phase(s) = "over" <=> s \notin {"queued", "running"}
BY DEF Phase, JobStatus

LEMMA TableEntries ==
    ASSUME jobs \in Seq(Job)
    PROVE  /\ JobTable \in Seq(Entry) /\ Len(JobTable) = Len(jobs)
           /\ DOMAIN JobTable = DOMAIN jobs
           /\ \A j \in DOMAIN jobs :
                 /\ JobTable[j].key = <<jobs[j].part, Lane(j)>>
                 /\ JobTable[j].phase = Phase(jobs[j].status)
                 /\ JobTable[j].tries = jobs[j].attempt
<1> DEFINE entry(j) == [key |-> <<jobs[j].part, Lane(j)>>, phase |-> Phase(jobs[j].status),
                        tries |-> jobs[j].attempt]
<1>1. ASSUME NEW j \in DOMAIN jobs PROVE entry(j) \in Entry
  <2>1. jobs[j] \in Job
    OBVIOUS
  <2>2. jobs[j].part \in Parts /\ Lane(j) \in Lanes
    BY <2>1, QueueTypes DEF Job, Lane
  <2>3. Phase(jobs[j].status) \in {"waiting", "running", "over"} /\ jobs[j].attempt \in Nat
    BY <2>1, PhaseValues DEF Job
  <2> QED BY <2>2, <2>3 DEF Entry
<1>2. DOMAIN jobs = 1..Len(jobs) /\ Len(jobs) \in Nat
  OBVIOUS
<1>3. JobTable = [j \in 1..Len(jobs) |-> entry(j)]
  BY <1>2 DEF JobTable
<1>4. JobTable \in [1..Len(jobs) -> Entry]
  <2> HIDE DEF entry
  <2> QED BY <1>1, <1>2, <1>3
<1>5. JobTable \in Seq(Entry) /\ Len(JobTable) = Len(jobs)
  BY <1>2, <1>4
<1> QED BY <1>2, <1>3, <1>5

\* Two tables that agree row by row are the same.
LEMMA SameTable ==
    ASSUME jobs \in Seq(Job), jobs' \in Seq(Job), Len(jobs') = Len(jobs),
           \A j \in DOMAIN jobs :
              /\ jobs'[j].part = jobs[j].part /\ jobs'[j].queue = jobs[j].queue
              /\ Phase(jobs'[j].status) = Phase(jobs[j].status)
              /\ jobs'[j].attempt = jobs[j].attempt
    PROVE  JobTable' = JobTable
<1>1. DOMAIN jobs' = DOMAIN jobs
  OBVIOUS
<1> QED BY <1>1 DEF JobTable, Lane

\* A row goes over in place.
LEMMA SettleTable ==
    ASSUME jobs \in Seq(Job), NEW j \in DOMAIN jobs,
           NEW s \in {"completed", "failed", "cancelled"}, SetStatus(j, s)
    PROVE  \/ JobTable' = JobTable
           \/ /\ JobTable[j].phase # "over"
              /\ JobTable' = [JobTable EXCEPT ![j].phase = "over"]
<1>1. jobs[j] \in Job /\ jobs' = [jobs EXCEPT ![j] = [jobs[j] EXCEPT !.status = s]]
  BY DEF SetStatus
<1>2. DOMAIN jobs' = DOMAIN jobs /\ s \in JobStatus
  BY <1>1 DEF JobStatus
<1>3. /\ jobs'[j].status = s /\ jobs'[j].part = jobs[j].part /\ jobs'[j].queue = jobs[j].queue
      /\ jobs'[j].attempt = jobs[j].attempt
      /\ \A i \in DOMAIN jobs \ {j} : jobs'[i] = jobs[i]
  BY <1>1 DEF Job
<1>4. Phase(s) = "over"
  BY <1>2, PhaseValues
<1>5. JobTable' = [i \in DOMAIN jobs |->
                     IF i = j THEN [key |-> <<jobs[j].part, Lane(j)>>, phase |-> "over",
                                    tries |-> jobs[j].attempt]
                     ELSE JobTable[i]]
  BY <1>2, <1>3, <1>4 DEF JobTable, Lane
<1>6. JobTable[j] = [key |-> <<jobs[j].part, Lane(j)>>, phase |-> Phase(jobs[j].status),
                     tries |-> jobs[j].attempt]
  BY DEF JobTable
<1>7. [JobTable EXCEPT ![j].phase = "over"]
        = [i \in DOMAIN jobs |-> IF i = j THEN [JobTable[j] EXCEPT !.phase = "over"]
                                 ELSE JobTable[i]]
  BY TableEntries
<1>8. [JobTable[j] EXCEPT !.phase = "over"]
        = [key |-> <<jobs[j].part, Lane(j)>>, phase |-> "over", tries |-> jobs[j].attempt]
  BY <1>6
<1>9. JobTable' = [JobTable EXCEPT ![j].phase = "over"]
  BY <1>5, <1>7, <1>8
<1>10. CASE JobTable[j].phase = "over"
  <2>1. JobTable[j] = [JobTable[j] EXCEPT !.phase = "over"]
    BY <1>6, <1>10, <1>8
  <2>2. JobTable = [i \in DOMAIN jobs |-> JobTable[i]]
    BY DEF JobTable
  <2> QED BY <1>5, <1>8, <2>1, <2>2
<1> QED BY <1>9, <1>10

\* A row is added for a part and lane that has none active.
LEMMA SubmitTable ==
    ASSUME jobs \in Seq(Job), jobs' \in Seq(Job), Len(jobs') = Len(jobs) + 1,
           NEW p \in Parts, NEW q \in QueueNames,
           \A j \in DOMAIN jobs :
              /\ jobs'[j].part = jobs[j].part /\ jobs'[j].queue = jobs[j].queue
              /\ jobs'[j].attempt = jobs[j].attempt /\ jobs'[j].status = jobs[j].status,
           ActiveJobs(p, LaneForQueue[q]) = {},
           jobs'[Len(jobs')].part = p, jobs'[Len(jobs')].queue = q,
           jobs'[Len(jobs')].status = "queued", jobs'[Len(jobs')].attempt = 0,
           UNCHANGED runs
    PROVE  Lifecycle!Submit(<<p, LaneForQueue[q]>>)
<1> DEFINE k == <<p, LaneForQueue[q]>>
           n == Len(jobs)
           new == [key |-> k, phase |-> "waiting", tries |-> 0]
<1>1. /\ n \in Nat /\ DOMAIN jobs = 1..n /\ DOMAIN jobs' = 1..(n + 1)
      /\ Len(jobs') = n + 1
      /\ \A j \in 1..n : jobs[j] \in Job
      /\ \A j \in 1..(n + 1) : jobs'[j] \in Job
  OBVIOUS
<1>2. /\ JobTable \in Seq(Entry) /\ DOMAIN JobTable = 1..n
      /\ \A j \in 1..n :
            /\ JobTable[j] \in Entry
            /\ JobTable[j].key = <<jobs[j].part, Lane(j)>>
            /\ JobTable[j].phase = Phase(jobs[j].status)
            /\ JobTable[j].tries = jobs[j].attempt
  <2>1. JobTable \in Seq(Entry) /\ DOMAIN JobTable = DOMAIN jobs
    BY TableEntries
  <2> QED BY <1>1, <2>1, TableEntries
<1>3. Lifecycle!Live(k) = {}
  <2>1. ASSUME NEW j \in 1..n
        PROVE  JobTable[j].phase # "over" <=> jobs[j].status \in {"queued", "running"}
    <3>1. jobs[j] \in Job
      BY <1>1
    <3>2. jobs[j].status \in JobStatus
      BY <3>1 DEF Job
    <3> QED BY <1>2, <3>2, PhaseValues
  <2>2. \A j \in 1..n : JobTable[j].key = k
                          <=> jobs[j].part = p /\ Lane(j) = LaneForQueue[q]
    BY <1>2
  <2> QED BY <1>1, <1>2, <2>1, <2>2 DEF Lifecycle!Live, ActiveJobs, Active
<1>4. ASSUME NEW j \in 1..n PROVE JobTable'[j] = JobTable[j]
  <2>1. j \in DOMAIN jobs' /\ j \in DOMAIN jobs
    BY <1>1
  <2>2. /\ jobs'[j].part = jobs[j].part /\ jobs'[j].queue = jobs[j].queue
        /\ jobs'[j].attempt = jobs[j].attempt /\ jobs'[j].status = jobs[j].status
    BY <2>1
  <2> QED BY <2>1, <2>2 DEF JobTable, Lane
<1>5. JobTable'[n + 1] = new
  <2>1. jobs'[n + 1].status = "queued" /\ "queued" \in JobStatus
    BY <1>1 DEF JobStatus
  <2>2. Phase(jobs'[n + 1].status) = "waiting"
    BY <1>1, <2>1, PhaseValues
  <2>3. /\ n + 1 \in DOMAIN jobs' /\ jobs'[n + 1].part = p /\ jobs'[n + 1].queue = q
        /\ jobs'[n + 1].attempt = 0
    BY <1>1
  <2> QED BY <2>2, <2>3 DEF JobTable, Lane
<1>6. JobTable' = Append(JobTable, new)
  <2> DEFINE longer == Append(JobTable, new)
  <2>1. new \in Entry
    BY QueueTypes DEF Entry
  <2>2. JobTable \in Seq(Entry) /\ Len(JobTable) = n
    BY <1>1, <1>2
  <2> HIDE DEF new, n
  <2>3. /\ longer \in Seq(Entry) /\ Len(longer) = n + 1 /\ longer[n + 1] = new
        /\ \A j \in 1..n : longer[j] = JobTable[j]
    BY <2>1, <2>2
  <2> HIDE DEF longer
  <2>4. longer = [j \in 1..(n + 1) |-> longer[j]]
    BY <2>3
  <2>5. JobTable' = [j \in 1..(n + 1) |-> JobTable'[j]]
    BY <1>1 DEF JobTable
  <2>6. \A j \in 1..(n + 1) : j = n + 1 \/ j \in 1..n
    BY <1>1
  <2>7. \A j \in 1..(n + 1) : JobTable'[j] = longer[j]
    BY <1>4, <1>5, <2>3, <2>6
  <2>8. JobTable' = longer
    BY <2>4, <2>5, <2>7
  <2> QED BY <2>8 DEF longer
<1>7. UNCHANGED Threads
  BY DEF Threads
<1> QED BY <1>3, <1>6, <1>7 DEF Lifecycle!Submit

LEMMA InsertSubmits ==
    ASSUME jobs \in Seq(Job), jobs' \in Seq(Job),
           NEW p \in Parts, NEW q \in QueueNames, NEW s \in Scopes, NEW prio \in Int,
           Insert(p, q, s, prio), UNCHANGED runs
    PROVE  Lifecycle!Submit(<<p, LaneForQueue[q]>>)
<1> DEFINE new == NewJob(p, q, s, prio)
<1>1. new \in Job /\ jobs' = Append(jobs, new)
  BY NewJobType DEF Insert
<1>2. /\ Len(jobs') = Len(jobs) + 1 /\ jobs'[Len(jobs')] = new
      /\ \A j \in DOMAIN jobs : jobs'[j] = jobs[j]
  <2> HIDE DEF new
  <2> QED BY <1>1
<1>3. new.part = p /\ new.queue = q /\ new.status = "queued" /\ new.attempt = 0
  BY DEF NewJob
<1>4. ActiveJobs(p, LaneForQueue[q]) = {}
  BY DEF Insert
<1> HIDE DEF new
<1> QED BY <1>2, <1>3, <1>4, SubmitTable

\* The dispatcher's claim is the lifecycle's admission: the row has no thread.
LEMMA ClaimAdmits ==
    ASSUME IInv, NEW l \in Lanes, Claim(l)
    PROVE  LifecycleStep
<1>1. PICK j \in QueuedIn(l) :
        /\ jobs' = [jobs EXCEPT ![j].status = "running",
                                ![j].attempt = @ + 1,
                                ![j].worker = worker]
        /\ runs' = runs \cup {[job |-> j, attempt |-> jobs[j].attempt + 1,
                               scope |-> jobs[j].scope]}
  BY DEF Claim
<1>2. j \in DOMAIN jobs /\ jobs[j].status = "queued" /\ jobs \in Seq(Job)
  BY DEF QueuedIn, IInv, TypeOK
<1>3. jobs[j] \in Job
  BY <1>2
<1>4. /\ DOMAIN jobs' = DOMAIN jobs
      /\ jobs'[j].status = "running" /\ jobs'[j].attempt = jobs[j].attempt + 1
      /\ jobs'[j].part = jobs[j].part /\ jobs'[j].queue = jobs[j].queue
      /\ \A i \in DOMAIN jobs \ {j} : jobs'[i] = jobs[i]
  <2> DEFINE row == [jobs[j] EXCEPT !.status = "running", !.attempt = @ + 1, !.worker = worker]
  <2>1. jobs' = [jobs EXCEPT ![j] = row]
    BY <1>1
  <2>2. /\ row.status = "running" /\ row.attempt = jobs[j].attempt + 1
        /\ row.part = jobs[j].part /\ row.queue = jobs[j].queue
    BY <1>3 DEF Job
  <2> HIDE DEF row
  <2> QED BY <1>2, <2>1, <2>2
<1>5. Phase("queued") = "waiting" /\ Phase("running") = "running"
  BY DEF Phase
<1> DEFINE admitted == [key |-> <<jobs[j].part, Lane(j)>>, phase |-> "running",
                        tries |-> jobs[j].attempt + 1]
<1>6. JobTable' = [i \in DOMAIN jobs |-> IF i = j THEN admitted ELSE JobTable[i]]
  BY <1>2, <1>4, <1>5 DEF JobTable, Lane
<1>7. JobTable[j] = [key |-> <<jobs[j].part, Lane(j)>>, phase |-> "waiting",
                     tries |-> jobs[j].attempt]
  BY <1>2, <1>5 DEF JobTable
<1>8. DOMAIN JobTable = DOMAIN jobs
  BY <1>2, TableEntries
<1>9. admitted = [key |-> JobTable[j].key, phase |-> "running", tries |-> JobTable[j].tries + 1]
  BY <1>7
<1>11. JobTable' = [JobTable EXCEPT ![j] = [key |-> @.key, phase |-> "running",
                                            tries |-> @.tries + 1]]
  <2> HIDE DEF admitted
  <2> QED BY <1>2, <1>6, <1>8, <1>9
<1>12. \A run \in runs : run.job # j
  BY <1>2 DEF IInv, ThreadsOK
<1>13. ~Lifecycle!Served(j)
  BY <1>12 DEF Lifecycle!Served, Threads
<1>14. Threads' = Threads \cup {[job |-> j, attempt |-> JobTable[j].tries + 1]}
  <2> DEFINE new == [job |-> j, attempt |-> jobs[j].attempt + 1, scope |-> jobs[j].scope]
  <2>1. runs' = runs \cup {new} /\ JobTable[j].tries = jobs[j].attempt
    BY <1>1, <1>7
  <2>2. new.job = j /\ new.attempt = jobs[j].attempt + 1
    OBVIOUS
  <2> HIDE DEF new
  <2> QED BY <2>1, <2>2 DEF Threads
<1>15. Lifecycle!Admit(j)
  BY <1>7, <1>11, <1>13, <1>14 DEF Lifecycle!Admit
<1> QED BY <1>2, <1>8, <1>15 DEF LifecycleStep, Lifecycle!Next

LEMMA TableStays == ASSUME UNCHANGED jobs PROVE JobTable' = JobTable
BY DEF JobTable, Lane

LEMMA Stutters ==
    ASSUME JobTable' = JobTable, UNCHANGED runs
    PROVE  LifecycleStep
<1>1. Threads' = Threads
  BY DEF Threads
<1> QED BY <1>1 DEF LifecycleStep, Lifecycle!vars

\* A thread that ends leaves the table alone; no other serves its row.
LEMMA RunFinishExits ==
    ASSUME IInv, NEW run \in runs, RunFinish(run)
    PROVE  LifecycleStep
<1> DEFINE t == [job |-> run.job, attempt |-> run.attempt]
<1>1. runs' = runs \ {run} /\ JobTable' = JobTable
  BY TableStays DEF RunFinish
<1>2. \A other \in runs : other.job = run.job => other = run
  BY DEF IInv, OneThreadPerRow
<1>3. Threads' = Threads \ {t}
  <2>1. ASSUME NEW other \in runs, [job |-> other.job, attempt |-> other.attempt] = t
        PROVE  other = run
    <3>1. other.job = run.job
      BY <2>1
    <3> QED BY <1>2, <3>1
  <2>2. Threads' = {[job |-> other.job, attempt |-> other.attempt] : other \in runs \ {run}}
    BY <1>1 DEF Threads
  <2> HIDE DEF t
  <2> QED BY <2>1, <2>2 DEF Threads, t
<1>4. t \in Threads
  BY DEF Threads
<1>5. Lifecycle!Exit(t)
  BY <1>1, <1>3 DEF Lifecycle!Exit
<1> QED BY <1>4, <1>5 DEF LifecycleStep, Lifecycle!Next

LEMMA SetStatusSettles ==
    ASSUME jobs \in Seq(Job), NEW j \in DOMAIN jobs,
           NEW s \in {"completed", "failed", "cancelled"}, SetStatus(j, s),
           UNCHANGED runs
    PROVE  LifecycleStep
<1>1. CASE JobTable' = JobTable
  BY <1>1, Stutters
<1>2. CASE /\ JobTable[j].phase # "over"
           /\ JobTable' = [JobTable EXCEPT ![j].phase = "over"]
  <2>1. UNCHANGED Threads
    BY DEF Threads
  <2>2. j \in DOMAIN JobTable
    BY TableEntries
  <2> QED BY <1>2, <2>1, <2>2 DEF LifecycleStep, Lifecycle!Next, Lifecycle!Settle
<1> QED BY <1>1, <1>2, SettleTable

\* A script cancels at most one row, for no more is active.
LEMMA SupersedeSettles ==
    ASSUME IInv, jobs' \in Seq(Job), NEW r \in Requests, Supersede(r)
    PROVE  LifecycleStep
<1> DEFINE gone == ActiveJobs(req[r].part, LaneForQueue[req[r].queue])
<1>1. /\ jobs \in Seq(Job) /\ UNCHANGED runs
      /\ jobs' = [j \in DOMAIN jobs |->
                     IF j \in gone THEN [jobs[j] EXCEPT !.status = "cancelled"] ELSE jobs[j]]
  BY DEF IInv, TypeOK, Supersede, processVars
<1>2. CASE gone = {}
  <2>1. jobs' = jobs
    BY <1>1, <1>2
  <2> QED BY <1>1, <2>1, TableStays, Stutters
<1>3. CASE gone # {}
  <2>1. PICK j \in gone : TRUE
    BY <1>3
  <2>2. \A i \in gone : i = j
    BY <2>1 DEF IInv, OneActiveJob, ActiveJobs, Active
  <2>3. j \in DOMAIN jobs
    BY <2>1 DEF ActiveJobs
  <2> HIDE DEF gone
  <2>4. jobs' = [jobs EXCEPT ![j].status = "cancelled"]
    BY <1>1, <2>1, <2>2, <2>3
  <2>5. SetStatus(j, "cancelled")
    BY <2>4 DEF SetStatus
  <2> QED BY <1>1, <2>3, <2>5, SetStatusSettles
<1> QED BY <1>2, <1>3

\* Orphans are running rows of processes that are gone, and so are their threads.
LEMMA OrphansRecover ==
    ASSUME IInv, Connect \/ Reconnect
    PROVE  LifecycleStep
<1> DEFINE lost == Orphans(worker')
<1>1. /\ jobs \in Seq(Job) /\ MaxWorkers \in Nat /\ RequeueOrphans(worker') /\ UNCHANGED runs
      /\ ~up \/ worker' = worker
  BY PipelineAssumption DEF IInv, TypeOK, Connect, Reconnect, processVars
<1>2. ASSUME NEW run \in runs PROVE run.job \notin lost
  BY <1>1 DEF IInv, ThreadsOK, Orphans
<1>3. \A j \in DOMAIN jobs : jobs[j] \in Job
  BY <1>1
<1>4. /\ DOMAIN jobs' = DOMAIN jobs
      /\ \A j \in DOMAIN jobs : jobs'[j] = IF j \in lost
                                           THEN [jobs[j] EXCEPT !.status = "queued", !.worker = 0]
                                           ELSE jobs[j]
  BY <1>1 DEF RequeueOrphans
<1>5. ASSUME NEW j \in DOMAIN jobs
      PROVE  /\ jobs'[j].part = jobs[j].part /\ jobs'[j].queue = jobs[j].queue
             /\ jobs'[j].attempt = jobs[j].attempt
             /\ j \in lost => jobs'[j].status = "queued"
             /\ j \notin lost => jobs'[j].status = jobs[j].status
  <2>1. CASE j \in lost
    BY <1>3, <1>4, <2>1 DEF Job
  <2>2. CASE j \notin lost
    BY <1>4, <2>2
  <2> QED BY <2>1, <2>2
<1>6. Phase("queued") = "waiting" /\ Phase("running") = "running"
  BY DEF Phase
<1>7. DOMAIN JobTable = DOMAIN jobs
  BY <1>1, TableEntries
<1>8. ASSUME NEW j \in DOMAIN jobs
      PROVE  JobTable'[j] = IF j \in lost THEN [JobTable[j] EXCEPT !.phase = "waiting"]
                            ELSE JobTable[j]
  <2>1. JobTable'[j] = [key |-> <<jobs[j].part, Lane(j)>>, phase |-> Phase(jobs'[j].status),
                        tries |-> jobs[j].attempt]
    BY <1>4, <1>5 DEF JobTable, Lane
  <2>2. JobTable[j] = [key |-> <<jobs[j].part, Lane(j)>>, phase |-> Phase(jobs[j].status),
                       tries |-> jobs[j].attempt]
    BY DEF JobTable
  <2>3. CASE j \in lost
    <3> DEFINE before == JobTable[j]
    <3>1. [before EXCEPT !.phase = "waiting"]
            = [key |-> <<jobs[j].part, Lane(j)>>, phase |-> "waiting", tries |-> jobs[j].attempt]
      <4>1. before = [key |-> <<jobs[j].part, Lane(j)>>, phase |-> Phase(jobs[j].status),
                      tries |-> jobs[j].attempt]
        BY <2>2
      <4> HIDE DEF before
      <4> QED BY <4>1
    <3> QED BY <1>5, <1>6, <2>1, <2>3, <3>1
  <2>4. CASE j \notin lost
    BY <1>5, <2>1, <2>2, <2>4
  <2> QED BY <2>3, <2>4
<1>9. JobTable' = [j \in DOMAIN JobTable |->
                     IF j \in lost THEN [JobTable[j] EXCEPT !.phase = "waiting"]
                     ELSE JobTable[j]]
  <2>1. DOMAIN JobTable' = DOMAIN jobs /\ JobTable' = [j \in DOMAIN jobs |-> JobTable'[j]]
    BY <1>4 DEF JobTable
  <2> HIDE DEF lost
  <2> QED BY <1>7, <1>8, <2>1
<1>10. \A j \in lost : JobTable[j].phase = "running" /\ ~Lifecycle!Served(j)
  <2>1. \A j \in lost : JobTable[j].phase = "running"
    BY <1>6 DEF JobTable, Orphans
  <2>2. \A j \in lost : ~Lifecycle!Served(j)
    <3> HIDE DEF lost
    <3> QED BY <1>2 DEF Lifecycle!Served, Threads
  <2> QED BY <2>1, <2>2
<1>11. UNCHANGED Threads
  BY <1>1 DEF Threads
<1>12. lost \in SUBSET DOMAIN JobTable
  BY <1>7 DEF Orphans
<1>13. Lifecycle!Recover(lost)
  <2> HIDE DEF lost
  <2> QED BY <1>9, <1>10, <1>11 DEF Lifecycle!Recover
<1> HIDE DEF lost
<1> QED BY <1>12, <1>13 DEF LifecycleStep, Lifecycle!Next

\* Every action of the queue.
LEMMA StepRefines ==
    ASSUME IInv, Next
    PROVE  LifecycleStep
<1>1. /\ TypeOK /\ RequestsOK /\ WorkerSpare /\ jobs \in Seq(Job) /\ MaxJobs \in Nat
      /\ RerunQueues \subseteq QueueNames
  BY PipelineAssumption DEF IInv, TypeOK
<1>2. jobs' \in Seq(Job)
  BY <1>1, NextStep, RowsType DEF StepOK
<1>3. Whole \in Scopes /\ DefaultPriority \in Int /\ ScriptPriority \in Int
  BY DEF Scopes, DefaultPriority, ScriptPriority
<1>4. ASSUME NEW p \in Parts, NEW q \in QueueNames, NEW s \in Scopes, NEW prio \in Int,
             Insert(p, q, s, prio), UNCHANGED runs
      PROVE  LifecycleStep
  <2>1. Lifecycle!Submit(<<p, LaneForQueue[q]>>)
    BY <1>1, <1>2, <1>3, <1>4, InsertSubmits
  <2>2. <<p, LaneForQueue[q]>> \in Parts \X Lanes
    BY QueueTypes
  <2> QED BY <2>1, <2>2 DEF LifecycleStep, Lifecycle!Next
<1>5. ASSUME UNCHANGED <<jobs, runs>> PROVE LifecycleStep
  BY <1>5, TableStays, Stutters
<1>6. CASE Uploads
  <2>1. PICK p \in Parts : Upload(p) \/ UploadAborted(p) \/ UploadRefused(p)
    BY <1>6 DEF Uploads
  <2>2. UNCHANGED runs
    BY <2>1 DEF Upload, UploadAborted, UploadRefused, processVars
  <2>3. \/ UNCHANGED jobs
        \/ Insert(p, FirstQueue(stages[p]), Whole, DefaultPriority)
    BY <2>1 DEF Upload, UploadAborted, UploadRefused, Enqueue
  <2> QED BY <1>3, <1>4, <1>5, <2>2, <2>3, FirstQueueType
<1>7. CASE Reruns
  <2>1. UNCHANGED runs
    BY <1>7 DEF Reruns, RerunStart, Begin, RerunFinish, RerunAborted, RerunRefused, processVars
  <2>2. PICK r \in Requests :
            \/ \E p \in Parts, q \in RerunQueues, s \in Scopes : RerunStart(r, p, q, s)
            \/ RerunFinish(r)
            \/ RerunAborted(r) \/ RerunRefused(r)
    BY <1>7 DEF Reruns
  <2>3. CASE RerunFinish(r)
    <3> DEFINE p == req[r].part
               q == req[r].queue
               s == req[r].scope
    <3>1. p \in Parts /\ q \in QueueNames /\ s \in Scopes
      BY <1>1, <2>3, RequestFields DEF RerunFinish
    <3>2. Enqueue(p, q, s)
      BY <2>3 DEF RerunFinish
    <3> HIDE DEF p, q, s
    <3> QED BY <1>3, <1>4, <1>5, <2>1, <3>1, <3>2 DEF Enqueue
  <2>4. CASE ~RerunFinish(r)
    <3>1. UNCHANGED jobs
      BY <2>2, <2>4 DEF RerunStart, Begin, RerunAborted, RerunRefused
    <3> QED BY <1>5, <2>1, <3>1
  <2> QED BY <2>3, <2>4
<1>8. CASE QueuePage
  <2>1. PICK r \in Requests :
            \/ \E j \in DOMAIN jobs :
                  CancelStart(r, j) \/ PrioritiseStart(r, j) \/ RequeueStart(r, j)
            \/ CancelFinish(r)
            \/ PrioritiseFinish(r)
            \/ RequeueFinish(r)
    BY <1>8 DEF QueuePage
  <2>2. UNCHANGED runs
    BY <2>1 DEF CancelStart, PrioritiseStart, RequeueStart, Begin, CancelFinish,
                PrioritiseFinish, RequeueFinish, processVars
  <2> DEFINE j == req[r].job
  <2>3. CASE CancelFinish(r)
    <3>1. j \in DOMAIN jobs
      BY <1>1, <2>3 DEF RequestsOK, CancelFinish
    <3>2. SetStatus(j, "cancelled") \/ SetStatus(j, "failed")
      BY <2>3 DEF CancelFinish
    <3> HIDE DEF j
    <3> QED BY <1>1, <2>2, <3>1, <3>2, SetStatusSettles
  <2>4. CASE PrioritiseFinish(r)
    <3> DEFINE prio == req[r].top - 1
    <3>1. j \in DOMAIN jobs /\ jobs' = [jobs EXCEPT ![j].priority = prio]
      BY <1>1, <2>4 DEF RequestsOK, PrioritiseFinish
    <3> HIDE DEF j, prio
    <3>2. jobs' = [jobs EXCEPT ![j] = [jobs[j] EXCEPT !.priority = prio]] /\ jobs[j] \in Job
      BY <1>1, <3>1
    <3>3. Len(jobs') = Len(jobs)
      BY <1>1, <1>2, <3>2
    <3>4. \A i \in DOMAIN jobs :
             /\ jobs'[i].part = jobs[i].part /\ jobs'[i].queue = jobs[i].queue
             /\ jobs'[i].status = jobs[i].status /\ jobs'[i].attempt = jobs[i].attempt
      BY <1>1, <3>2 DEF Job
    <3>5. JobTable' = JobTable
      BY <1>1, <1>2, <3>3, <3>4, SameTable
    <3> QED BY <2>2, <3>5, Stutters
  <2>5. CASE RequeueFinish(r)
    <3>1. j \in DOMAIN jobs
      BY <1>1, <2>5 DEF RequestsOK, RequeueFinish
    <3>2. UNCHANGED jobs \/ Insert(jobs[j].part, jobs[j].queue, Whole, DefaultPriority)
      BY <2>5 DEF RequeueFinish
    <3> HIDE DEF j
    <3>3. jobs[j].part \in Parts /\ jobs[j].queue \in QueueNames
      BY <1>1, <3>1, RowFields
    <3> QED BY <1>3, <1>4, <1>5, <2>2, <3>2, <3>3
  <2>6. CASE \E i \in DOMAIN jobs :
                CancelStart(r, i) \/ PrioritiseStart(r, i) \/ RequeueStart(r, i)
    <3>1. UNCHANGED jobs
      BY <2>6 DEF CancelStart, PrioritiseStart, RequeueStart, Begin
    <3> QED BY <1>5, <2>2, <3>1
  <2> QED BY <2>1, <2>3, <2>4, <2>5, <2>6
<1>9. CASE Scripts
  <2>1. PICK r \in Requests :
            \/ \E p \in Parts, q \in RerunQueues : ManualRequeue(r, p, q)
            \/ Supersede(r) \/ InsertByHand(r)
    BY <1>9 DEF Scripts
  <2>2. CASE Supersede(r)
    BY <1>2, <2>2, SupersedeSettles
  <2>3. CASE InsertByHand(r)
    <3> DEFINE p == req[r].part
               q == req[r].queue
    <3>1. p \in Parts /\ q \in QueueNames
      BY <1>1, <2>3, RequestFields DEF InsertByHand
    <3>2. UNCHANGED runs /\ (UNCHANGED jobs \/ Insert(p, q, Whole, ScriptPriority))
      BY <2>3 DEF InsertByHand, processVars
    <3> HIDE DEF p, q
    <3> QED BY <1>3, <1>4, <1>5, <3>1, <3>2
  <2>4. CASE \E p \in Parts, q \in RerunQueues : ManualRequeue(r, p, q)
    <3>1. UNCHANGED <<jobs, runs>>
      BY <2>4 DEF ManualRequeue, processVars
    <3> QED BY <1>5, <3>1
  <2> QED BY <2>1, <2>2, <2>3, <2>4
<1>10. CASE Consumer
  <2>1. ASSUME NEW q \in QueueNames, Receive(q) PROVE LifecycleStep
    <3> DEFINE m == Head(broker[q])
               waiting == ActiveJobs(m.part, LaneForQueue[q])
               new == [j \in DOMAIN jobs |->
                          IF j \in waiting
                          THEN [jobs[j] EXCEPT !.scope = Widen(@, m.scope)]
                          ELSE jobs[j]]
    <3>1. UNCHANGED runs /\ m \in Message
      BY <1>1, <2>1 DEF Receive, processVars, TypeOK
    <3>2. m.part \in Parts /\ m.scope \in Scopes
      BY <3>1 DEF Message
    <3>3. CASE Insert(m.part, q, m.scope, DefaultPriority)
      <4> HIDE DEF m
      <4> QED BY <1>3, <1>4, <3>1, <3>2, <3>3
    <3>4. CASE jobs' = new
      <4>1. DOMAIN jobs' = DOMAIN jobs /\ \A j \in DOMAIN jobs : jobs[j] \in Job /\ jobs'[j] = new[j]
        BY <1>1, <3>4
      <4>2. \A j \in DOMAIN jobs :
               /\ jobs'[j].part = jobs[j].part /\ jobs'[j].queue = jobs[j].queue
               /\ jobs'[j].status = jobs[j].status /\ jobs'[j].attempt = jobs[j].attempt
        BY <4>1 DEF Job
      <4>3. Len(jobs') = Len(jobs)
        BY <1>1, <1>2, <4>1
      <4>4. JobTable' = JobTable
        BY <1>1, <1>2, <4>2, <4>3, SameTable
      <4> QED BY <3>1, <4>4, Stutters
    <3> QED BY <2>1, <3>3, <3>4 DEF Receive
  <2>2. ASSUME NEW l \in Lanes, Claim(l) PROVE LifecycleStep
    BY <2>2, ClaimAdmits
  <2>3. ASSUME NEW run \in runs, RunFinish(run) PROVE LifecycleStep
    BY <2>3, RunFinishExits
  <2>4. ASSUME NEW j \in DOMAIN jobs, Close(j) \/ Reap(j) PROVE LifecycleStep
    <3>1. (SetStatus(j, "failed") \/ SetStatus(j, "completed")) /\ UNCHANGED runs
      BY <2>4 DEF Close, Reap, processVars
    <3> QED BY <1>1, <3>1, SetStatusSettles
  <2>5. CASE Crash
    <3>1. JobTable' = JobTable /\ runs' = {}
      BY <2>5, TableStays DEF Crash
    <3>2. Threads' = {}
      BY <3>1 DEF Threads
    <3> QED BY <3>1, <3>2 DEF LifecycleStep, Lifecycle!Next, Lifecycle!Die
  <2>6. CASE Connect \/ Reconnect
    BY <2>6, OrphansRecover
  <2> QED BY <1>10, <2>1, <2>2, <2>3, <2>4, <2>5, <2>6 DEF Consumer
<1> QED BY <1>6, <1>7, <1>8, <1>9, <1>10 DEF Next

\* The queue keeps the promise of JobLifecycle: however requests, scripts, the
\* reaper, crashes and reconnects interleave, a job is admitted only when no
\* thread serves it and waits again only after its thread is gone
\* (CostingQueue.cs:43-46, check-costingpartqueue-orphans.sql:4-8).
THEOREM QueueImplementsLifecycle == Spec => ImplementsLifecycle
<1>1. Init => Lifecycle!Init
  <2> SUFFICES ASSUME Init PROVE Lifecycle!Init
    OBVIOUS
  <2>1. jobs = << >> /\ runs = {}
    BY DEF Init
  <2>2. JobTable = << >>
    BY <2>1 DEF JobTable
  <2>3. Threads = {}
    BY <2>1 DEF Threads
  <2> QED BY <2>2, <2>3 DEF Lifecycle!Init
<1>2. IInv /\ [Next]_vars => [Lifecycle!Next]_(Lifecycle!vars)
  <2> SUFFICES ASSUME IInv, [Next]_vars PROVE LifecycleStep
    BY DEF LifecycleStep
  <2>1. CASE Next
    BY <2>1, StepRefines
  <2>2. CASE UNCHANGED vars
    BY <2>2, TableStays, Stutters DEF vars
  <2> QED BY <2>1, <2>2
<1>3. Spec => []IInv
  BY Invariance
<1> QED BY <1>1, <1>2, <1>3, PTL DEF Spec, ImplementsLifecycle, Lifecycle!Spec
=============================================================================
