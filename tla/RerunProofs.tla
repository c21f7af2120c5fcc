---------------------------- MODULE RerunProofs ----------------------------
(***************************************************************************)
(* What a re-run leaves behind: the lines of a costing run are there once, *)
(* and the pages a ballooning re-run cleared are filled again.             *)
(***************************************************************************)
EXTENDS AdmissionProofs

(* Who has work outstanding for a part in a lane: a message, a row, a thread. *)

QueuedFor(p, l) == \E j \in DOMAIN jobs :
    jobs[j].part = p /\ Lane(j) = l /\ jobs[j].status = "queued"

ThreadFor(p, l) == \E run \in runs : jobs[run.job].part = p /\ Lane(run.job) = l

\* The lane of a queue, and the queue of a lane that has one only.
LEMMA OwnLane ==
    ASSUME NEW q \in QueueNames
    PROVE  /\ LaneForQueue[q] = "costing" <=> q = "Costing"
           /\ LaneForQueue[q] = "ballooning" <=> q = "Ballooning"
           /\ StatusField[q] = "costing" <=> q = "Costing"
           /\ StatusField[q] = "balloon" <=> q = "Ballooning"
           /\ LaneStatusColumns["costing"] = {"costing"}
           /\ LaneStatusColumns["ballooning"] = {"balloon"}
           /\ "costing" \in Columns /\ "balloon" \in Columns
           /\ \A l \in Lanes : /\ "costing" \in LaneStatusColumns[l] <=> l = "costing"
                               /\ "balloon" \in LaneStatusColumns[l] <=> l = "ballooning"
BY DEF LaneForQueue, StatusField, LaneStatusColumns, QueueNames, Columns, Lanes

LEMMA PublishElsewhere ==
    ASSUME TypeOK, NEW q \in QueueNames, NEW p, NEW s, Publish(q, p, s),
           NEW x, NEW k \in QueueNames, x # p \/ k # q, Delivered(x, k)
    PROVE  Delivered(x, k)'
<1> DEFINE m == [part |-> p, scope |-> s]
<1>1. broker \in [QueueNames -> Seq(Message)] /\ m.part = p
  BY DEF TypeOK
<1>2. broker' = [broker EXCEPT ![q] = Append(broker[q], m)]
  BY DEF Publish
<1> HIDE DEF m
<1>3. broker'[k] = IF k = q THEN Append(broker[q], m) ELSE broker[k]
  BY <1>1, <1>2
<1>4. \A i \in DOMAIN Append(broker[q], m) :
        \/ i \in DOMAIN broker[q] /\ Append(broker[q], m)[i] = broker[q][i]
        \/ Append(broker[q], m)[i] = m
  <2>1. broker[q] \in Seq(Message)
    BY <1>1
  <2> QED BY <2>1
<1> QED BY <1>1, <1>3, <1>4 DEF Delivered

LEMMA ReceiveDelivers ==
    ASSUME TypeOK, NEW q \in QueueNames, Receive(q),
           NEW x, NEW k \in QueueNames, Delivered(x, k)
    PROVE  Delivered(x, k)'
<1>1. broker \in [QueueNames -> Seq(Message)] /\ broker[q] \in Seq(Message) /\ broker[q] # << >>
  BY DEF TypeOK, Receive
<1>2. CASE UNCHANGED broker
  BY <1>2 DEF Delivered
<1>3. CASE broker' = [broker EXCEPT ![q] = Tail(broker[q])]
  <2>1. broker'[k] = IF k = q THEN Tail(broker[q]) ELSE broker[k]
    BY <1>1, <1>3
  <2>2. \A i \in DOMAIN Tail(broker[q]) :
           i + 1 \in DOMAIN broker[q] /\ Tail(broker[q])[i] = broker[q][i + 1]
    BY <1>1
  <2> QED BY <2>1, <2>2 DEF Delivered
<1> QED BY <1>2, <1>3 DEF Receive

\* The message that Receive takes was waiting.
LEMMA ReceivedWasWaiting ==
    ASSUME TypeOK, NEW q \in QueueNames, Receive(q)
    PROVE  /\ Head(broker[q]) \in Message
           /\ Head(broker[q]) = broker[q][1] /\ 1 \in DOMAIN broker[q]
           /\ ~Delivered(Head(broker[q]).part, q)
<1>1. broker[q] \in Seq(Message) /\ broker[q] # << >>
  BY DEF TypeOK, Receive
<1>2. 1 \in DOMAIN broker[q] /\ Head(broker[q]) = broker[q][1] /\ Head(broker[q]) \in Message
  BY <1>1
<1> QED BY <1>2 DEF Delivered

\* No row waits that did not wait before.
NoNewQueued(p, l) ==
    (\E j \in DOMAIN jobs' : /\ jobs'[j].part = p /\ LaneForQueue[jobs'[j].queue] = l
                             /\ jobs'[j].status = "queued")
        => QueuedFor(p, l)

LEMMA NoNewQueuedPrimed ==
    ASSUME NEW p, NEW l, NoNewQueued(p, l)
    PROVE  QueuedFor(p, l)' => QueuedFor(p, l)
BY DEF NoNewQueued, QueuedFor, Lane

LEMMA RowsKeptQueued ==
    ASSUME RowsKept, DOMAIN jobs' = DOMAIN jobs, NEW p, NEW l
    PROVE  NoNewQueued(p, l)
BY DEF RowsKept, NoNewQueued, QueuedFor, Lane

LEMMA InsertQueued ==
    ASSUME TypeOK, NEW p, NEW q, NEW s, NEW prio, Insert(p, q, s, prio),
           NEW x, NEW l, x # p \/ l # LaneForQueue[q]
    PROVE  NoNewQueued(x, l)
<1>1. /\ DOMAIN jobs' = DOMAIN jobs \cup {Len(jobs) + 1}
      /\ \A j \in DOMAIN jobs : jobs'[j] = jobs[j]
      /\ jobs'[Len(jobs) + 1].part = p /\ jobs'[Len(jobs) + 1].queue = q
  <2>1. NewJob(p, q, s, prio).part = p /\ NewJob(p, q, s, prio).queue = q
    BY DEF NewJob
  <2>2. /\ DOMAIN jobs' = DOMAIN jobs \cup {Len(jobs) + 1}
        /\ \A j \in DOMAIN jobs : jobs'[j] = jobs[j]
        /\ jobs'[Len(jobs) + 1] = NewJob(p, q, s, prio)
    BY InsertKeeps DEF TypeOK
  <2> QED BY <2>1, <2>2
<1> QED BY <1>1 DEF NoNewQueued, QueuedFor, Lane

NoNewThreads(p, l) ==
    (\E run \in runs' : /\ jobs'[run.job].part = p
                        /\ LaneForQueue[jobs'[run.job].queue] = l)
        => ThreadFor(p, l)

LEMMA NoNewThreadsPrimed ==
    ASSUME NEW p, NEW l, NoNewThreads(p, l)
    PROVE  ThreadFor(p, l)' => ThreadFor(p, l)
BY DEF NoNewThreads, ThreadFor, Lane

\* A step that starts no thread gives no part one.
LEMMA NoNewThread ==
    ASSUME IInv, RowsKept, runs' \subseteq runs, NEW p, NEW l
    PROVE  ThreadFor(p, l)' => ThreadFor(p, l)
<1>1. ASSUME NEW run \in runs'
      PROVE  jobs'[run.job].part = jobs[run.job].part /\ jobs'[run.job].queue = jobs[run.job].queue
  BY DEF IInv, ThreadsOK, RowsKept
<1> QED BY <1>1 DEF ThreadFor, Lane

LEMMA WithLaneColumns ==
    ASSUME TypeOK, NEW p \in Parts, NEW l \in Lanes, NEW s, cols' = WithLane(p, l, s),
           NEW x \in Parts
    PROVE  /\ cols'[x]["costing"] = IF x = p /\ l = "costing" THEN s ELSE cols[x]["costing"]
           /\ cols'[x]["balloon"] = IF x = p /\ l = "ballooning" THEN s ELSE cols[x]["balloon"]
<1>1. \A c \in Columns :
        cols'[x][c] = IF x = p /\ c \in LaneStatusColumns[l] THEN s ELSE cols[x][c]
  BY DEF WithLane, TypeOK
<1>2. /\ "costing" \in Columns /\ "balloon" \in Columns
      /\ "costing" \in LaneStatusColumns[l] <=> l = "costing"
      /\ "balloon" \in LaneStatusColumns[l] <=> l = "ballooning"
  BY DEF LaneStatusColumns, Lanes, Columns
<1> QED BY <1>1, <1>2

\* The end of a run: what it writes to the two columns, and what it publishes.
LEMMA HandOffColumns ==
    ASSUME TypeOK, NEW p \in Parts, NEW l \in Lanes, NEW ok \in BOOLEAN, HandOff(p, l, ok)
    PROVE  LET outcome == IF ok THEN Completed ELSE Failed
               balloon(x) == IF x = p /\ l = "ballooning" THEN outcome ELSE cols[x]["balloon"]
           IN  /\ \A x \in Parts : cols'[x]["costing"] =
                     IF x = p /\ l = "costing" THEN outcome ELSE cols[x]["costing"]
               /\ \/ /\ UNCHANGED broker
                     /\ \A x \in Parts : cols'[x]["balloon"] = balloon(x)
                  \/ /\ Publish("Costing", p, Whole) /\ l = "drawing"
                     /\ cols[p]["costing"] = Pending
                     /\ \A x \in Parts : cols'[x]["balloon"] = balloon(x)
                  \/ /\ Publish("Ballooning", p, Whole) /\ l # "ballooning" /\ blank[p] = Pages
                     /\ cols'[p]["balloon"] = Pending
                     /\ \A x \in Parts \ {p} : cols'[x]["balloon"] = balloon(x)
<1> DEFINE outcome == IF ok THEN Completed ELSE Failed
           ended == WithLane(p, l, outcome)
           again == [ended EXCEPT ![p]["balloon"] = Pending]
<1>1. /\ ended \in [Parts -> [Columns -> StatusIds]]
      /\ \A x \in Parts, c \in Columns :
            ended[x][c] = IF x = p /\ c \in LaneStatusColumns[l] THEN outcome ELSE cols[x][c]
  <2>1. outcome \in StatusIds
    BY Statuses
  <2> HIDE DEF outcome
  <2>2. ended \in [Parts -> [Columns -> StatusIds]]
    BY <2>1, WithLaneType DEF TypeOK, ColsOK
  <2> QED BY <2>2 DEF WithLane, TypeOK
<1> HIDE DEF ended
<1>2. \A x \in Parts :
        /\ ended[x]["costing"] = IF x = p /\ l = "costing" THEN outcome ELSE cols[x]["costing"]
        /\ ended[x]["balloon"] = IF x = p /\ l = "ballooning" THEN outcome ELSE cols[x]["balloon"]
  <2> HIDE DEF outcome
  <2> QED BY <1>1 DEF LaneStatusColumns, Lanes, Columns
<1>3. /\ again[p]["balloon"] = Pending
      /\ again[p]["costing"] = ended[p]["costing"]
      /\ \A x \in Parts \ {p} : again[x] = ended[x]
  BY <1>1 DEF Columns
<1>4. CASE ToCosting(p, l, ok)
  BY <1>2, <1>4 DEF ToCosting, ended
<1>5. CASE ToBallooning(p, l, ok)
  <2>1. cols' = again /\ Publish("Ballooning", p, Whole) /\ l # "ballooning" /\ blank[p] = Pages
    BY <1>5 DEF ToBallooning, ended
  <2> HIDE DEF again
  <2> QED BY <1>2, <1>3, <2>1
<1>6. CASE ToNone(p, l, ok)
  BY <1>2, <1>6 DEF ToNone, ended
<1> QED BY <1>4, <1>5, <1>6, HandOffIs
-----------------------------------------------------------------------------
(* The lines of a costing run. *)

\* Undisturbed; and nothing costs a part that no re-run cleared: not Retry, which
\* queues a job only; not a run repeated after a crash; not a message whose request
\* died before its commit, or that outlives the run it announced.
ClearedFirst ==
    /\ Undisturbed
    /\ "requeue" \notin Operations
    /\ Faults \cap {"crash", "abort", "late"} = {}

\* A costing run of the part is under way or announced.
CostingDue(p) ==
    \/ ~Delivered(p, "Costing")
    \/ QueuedFor(p, "costing")
    \/ ThreadFor(p, "costing")
    \/ cols[p]["costing"] \in {Pending, InProgress}

\* While one is due its lines are not there yet; when it has completed they are.
LinesFollow(p) ==
    /\ CostingDue(p) => lines[p] = 0
    /\ cols[p]["costing"] = Completed => lines[p] = 1

LinesInv ==
    /\ up
    /\ \A r \in Requests : req[r].op # "requeue"
    /\ \A p \in Parts : LinesFollow(p)

\* A step that announces no costing of p and ends none.
LEMMA LinesQuietly ==
    ASSUME NEW p \in Parts, LinesFollow(p), lines'[p] = lines[p],
           cols'[p]["costing"] = cols[p]["costing"],
           Delivered(p, "Costing") => Delivered(p, "Costing")',
           QueuedFor(p, "costing")' => QueuedFor(p, "costing"),
           ThreadFor(p, "costing")' => ThreadFor(p, "costing")
    PROVE  LinesFollow(p)'
BY DEF LinesFollow, CostingDue

LEMMA RerunFinishLines ==
    ASSUME IInv, LinesInv, NEW r \in Requests, RerunFinish(r), NEW x \in Parts
    PROVE  LinesFollow(x)'
<1> USE DEF IInv
<1> DEFINE p == req[r].part
           q == req[r].queue
           s == req[r].scope
<1>1. p \in Parts /\ q \in QueueNames /\ s \in Scopes
  BY RequestFields DEF RerunFinish
<1>2. /\ ClearPreviousOutput(p, q, s)
      /\ cols' = [cols EXCEPT ![p][StatusField[q]] = Pending]
      /\ Enqueue(p, q, s) /\ Publish(q, p, s) /\ runs' = runs
  BY DEF RerunFinish, processVars
<1> HIDE DEF p, q, s
<1>3. RowsKept
  BY <1>2, EnqueueKeeps
<1>4. CASE x = p /\ q = "Costing"
  <2>1. lines'[x] = 0
    BY <1>1, <1>2, <1>4 DEF ClearPreviousOutput, TypeOK
  <2>2. cols'[x]["costing"] = Pending
    BY <1>1, <1>2, <1>4, OwnLane DEF TypeOK
  <2> QED BY <2>1, <2>2 DEF LinesFollow, Pending, Completed
<1>5. CASE x # p \/ q # "Costing"
  <2>1. lines'[x] = lines[x]
    BY <1>1, <1>2, <1>5 DEF ClearPreviousOutput, TypeOK
  <2>2. cols'[x]["costing"] = cols[x]["costing"]
    BY <1>1, <1>2, <1>5, OwnLane DEF TypeOK
  <2>3. Delivered(x, "Costing") => Delivered(x, "Costing")'
    BY <1>1, <1>2, <1>5, PublishElsewhere DEF QueueNames
  <2>4. NoNewQueued(x, "costing")
    <3>1. CASE Insert(p, q, s, DefaultPriority)
      BY <1>1, <1>5, <3>1, OwnLane, InsertQueued
    <3>2. CASE UNCHANGED jobs
      BY <1>3, <3>2, RowsKeptQueued
    <3> QED BY <1>2, <3>1, <3>2 DEF Enqueue
  <2>5. ThreadFor(x, "costing")' => ThreadFor(x, "costing")
    BY <1>2, <1>3, NoNewThread
  <2> QED BY <2>1, <2>2, <2>3, <2>4, <2>5, NoNewQueuedPrimed, LinesQuietly DEF LinesInv
<1> QED BY <1>4, <1>5

LEMMA ReceiveLines ==
    ASSUME IInv, LinesInv, NEW q \in QueueNames, Receive(q), NEW x \in Parts
    PROVE  LinesFollow(x)'
<1> USE DEF IInv
<1> DEFINE m == Head(broker[q])
<1>1. m \in Message /\ ~Delivered(m.part, q)
  BY ReceivedWasWaiting
<1>2. UNCHANGED <<cols, runs, lines>>
  BY DEF Receive, processVars, outputVars
<1>3. RowsKept
  BY ReceiveKeeps
<1>4. Delivered(x, "Costing") => Delivered(x, "Costing")'
  BY ReceiveDelivers DEF QueueNames
<1>5. ThreadFor(x, "costing")' => ThreadFor(x, "costing")
  BY <1>2, <1>3, NoNewThread
<1>6. CASE x = m.part /\ q = "Costing"
  <2>1. lines'[x] = 0 /\ cols'[x]["costing"] # Completed
    BY <1>1, <1>2, <1>6 DEF LinesInv, LinesFollow, CostingDue
  <2> QED BY <2>1 DEF LinesFollow
<1>7. CASE x # m.part \/ q # "Costing"
  <2>1. NoNewQueued(x, "costing")
    <3>1. CASE Insert(m.part, q, m.scope, DefaultPriority)
      BY <1>7, <3>1, OwnLane, InsertQueued
    <3>2. CASE DOMAIN jobs' = DOMAIN jobs
      BY <1>3, <3>2, RowsKeptQueued
    <3> QED BY <3>1, <3>2 DEF Receive
  <2> QED BY <1>2, <1>4, <1>5, <2>1, NoNewQueuedPrimed, LinesQuietly DEF LinesInv
<1> QED BY <1>6, <1>7

LEMMA ClaimLines ==
    ASSUME IInv, LinesInv, NEW l \in Lanes, Claim(l), NEW x \in Parts
    PROVE  LinesFollow(x)'
<1> USE DEF IInv
<1>1. PICK j \in QueuedIn(l) :
        /\ jobs' = [jobs EXCEPT ![j].status = "running", ![j].attempt = @ + 1,
                                ![j].worker = worker]
        /\ runs' = runs \cup {[job |-> j, attempt |-> jobs[j].attempt + 1,
                               scope |-> jobs[j].scope]}
        /\ cols' = WithLane(jobs[j].part, l, InProgress)
  BY DEF Claim
<1>2. UNCHANGED <<broker, lines>>
  BY DEF Claim, outputVars
<1>3. /\ j \in DOMAIN jobs /\ jobs[j].status = "queued" /\ Lane(j) = l
      /\ jobs[j].part \in Parts
  BY RowFields DEF QueuedIn
<1>4. /\ jobs'[j].status = "running" /\ DOMAIN jobs' = DOMAIN jobs
      /\ \A i \in DOMAIN jobs \ {j} : jobs'[i] = jobs[i]
      /\ jobs'[j].part = jobs[j].part /\ jobs'[j].queue = jobs[j].queue
  BY <1>1, <1>3, ClaimRows, PipelineAssumption DEF TypeOK, SameRows, RowFollows
<1>5. NoNewQueued(x, "costing")
  BY <1>4 DEF NoNewQueued, QueuedFor, Lane
<1>6. cols'[x]["costing"] = IF x = jobs[j].part /\ l = "costing" THEN InProgress
                            ELSE cols[x]["costing"]
  BY <1>1, <1>3, WithLaneColumns
<1>7. CASE x = jobs[j].part /\ l = "costing"
  <2>1. lines'[x] = 0
    BY <1>2, <1>3, <1>7 DEF LinesInv, LinesFollow, CostingDue, QueuedFor
  <2> QED BY <1>6, <1>7, <2>1 DEF LinesFollow, InProgress, Completed
<1>8. CASE x # jobs[j].part \/ l # "costing"
  <2>1. ASSUME NEW run \in runs', jobs'[run.job].part = x,
               LaneForQueue[jobs'[run.job].queue] = "costing"
        PROVE  ThreadFor(x, "costing")
    <3>1. run \in runs
      BY <1>1, <1>3, <1>4, <1>8, <2>1 DEF Lane
    <3>2. run.job \in DOMAIN jobs /\ run.job # j
      BY <1>3, <3>1 DEF ThreadsOK
    <3> QED BY <1>4, <2>1, <3>1, <3>2 DEF ThreadFor, Lane
  <2>2. NoNewThreads(x, "costing")
    BY <2>1 DEF NoNewThreads
  <2>3. Delivered(x, "Costing") => Delivered(x, "Costing")'
    BY <1>2 DEF Delivered
  <2> QED BY <1>2, <1>5, <1>6, <1>8, <2>2, <2>3, NoNewQueuedPrimed,
            NoNewThreadsPrimed, LinesQuietly DEF LinesInv
<1> QED BY <1>7, <1>8

\* A thread that ends was the only one of its part and lane, and no row waits behind it.
LEMMA ThreadAlone ==
    ASSUME IInv, ServedInv, NEW run \in runs
    PROVE  LET p == jobs[run.job].part
               l == Lane(run.job)
           IN  /\ p \in Parts /\ l \in Lanes /\ run.job \in DOMAIN jobs
               /\ jobs[run.job].queue \in QueueNames
               /\ jobs[run.job].status = "running"
               /\ \A j \in DOMAIN jobs : (jobs[j].part = p /\ Lane(j) = l /\ Active(j))
                                            => j = run.job
               /\ \A t \in runs : (jobs[t.job].part = p /\ Lane(t.job) = l) => t = run
<1> USE DEF IInv
<1>1. /\ run.job \in DOMAIN jobs /\ jobs[run.job].part \in Parts /\ Lane(run.job) \in Lanes
      /\ jobs[run.job].queue \in QueueNames
  BY RowFields DEF ThreadsOK
<1>2. \A t \in runs : t.job \in DOMAIN jobs /\ jobs[t.job].status = "running"
  BY DEF ThreadsOK, ServedInv, Served
<1>3. \A j \in DOMAIN jobs : jobs[j].status = "running" => Active(j)
  BY DEF Active
<1>4. \A j \in DOMAIN jobs : (/\ jobs[j].part = jobs[run.job].part
                              /\ Lane(j) = Lane(run.job) /\ Active(j)) => j = run.job
  BY <1>1, <1>2, <1>3 DEF OneActiveJob
<1>5. \A t \in runs : (/\ jobs[t.job].part = jobs[run.job].part
                       /\ Lane(t.job) = Lane(run.job)) => t = run
  BY <1>2, <1>3, <1>4 DEF OneThreadPerRow
<1> QED BY <1>1, <1>2, <1>4, <1>5

LEMMA RunFinishLines ==
    ASSUME ClearedFirst, IInv, ServedInv, LinesInv, NEW run \in runs, RunFinish(run),
           NEW x \in Parts
    PROVE  LinesFollow(x)'
<1> USE DEF IInv
<1> DEFINE p == jobs[run.job].part
           l == Lane(run.job)
<1>1. /\ p \in Parts /\ l \in Lanes /\ run.job \in DOMAIN jobs
      /\ jobs[run.job].queue \in QueueNames /\ jobs[run.job].status = "running"
  BY ThreadAlone
<1>2. /\ \A j \in DOMAIN jobs : (jobs[j].part = p /\ Lane(j) = l /\ Active(j)) => j = run.job
      /\ \A t \in runs : (jobs[t.job].part = p /\ Lane(t.job) = l) => t = run
  BY ThreadAlone
<1>3. /\ Delivered(p, jobs[run.job].queue)
      /\ runs' = runs \ {run} /\ UNCHANGED jobs
      /\ \/ HandOff(p, l, TRUE) /\ Produce(p, l, run.scope)
         \/ HandOff(p, l, FALSE) /\ UNCHANGED lines
  BY DEF RunFinish, ClearedFirst, outputVars
<1>4. l = "costing" <=> jobs[run.job].queue = "Costing"
  BY <1>1, OwnLane DEF Lane
<1>5. RowsKept /\ NoNewQueued(x, "costing")
  BY <1>3, RowsKeptQueued DEF RowsKept
<1>6. LinesFollow(x)
  BY DEF LinesInv
<1> HIDE DEF p, l
<1>7. CASE x = p /\ l = "costing"
  <2>1. lines[x] = 0
    BY <1>6, <1>7 DEF LinesFollow, CostingDue, ThreadFor, p, l
  <2>2. PICK ok \in BOOLEAN :
          /\ HandOff(p, l, ok)
          /\ ok => Produce(p, l, run.scope)
          /\ ~ok => UNCHANGED lines
    BY <1>3
  <2>3. lines'[x] = IF ok THEN 1 ELSE 0
    BY <1>1, <1>7, <2>1, <2>2 DEF Produce, TypeOK
  <2>4. cols'[x]["costing"] = IF ok THEN Completed ELSE Failed
    BY <1>1, <1>7, <2>2, HandOffColumns
  <2>5. Delivered(x, "Costing")'
    <3>1. Delivered(x, "Costing")
      BY <1>3, <1>4, <1>7
    <3>2. UNCHANGED broker \/ Publish("Ballooning", p, Whole)
      BY <1>1, <1>7, <2>2, HandOffColumns
    <3>3. UNCHANGED broker => Delivered(x, "Costing")'
      BY <3>1 DEF Delivered
    <3> QED BY <3>1, <3>2, <3>3, PublishElsewhere DEF QueueNames
  <2>6. ~QueuedFor(x, "costing")
    BY <1>1, <1>2, <1>7 DEF QueuedFor, Active
  <2>8. ~ThreadFor(x, "costing")'
    BY <1>2, <1>3, <1>7 DEF ThreadFor, Lane
  <2> QED BY <1>5, <2>3, <2>4, <2>5, <2>6, <2>8, NoNewQueuedPrimed
          DEF LinesFollow, CostingDue, Completed, Failed, Pending, InProgress
<1>8. CASE x # p \/ l # "costing"
  <2>1. PICK ok \in BOOLEAN : HandOff(p, l, ok)
    BY <1>3
  <2>2. lines'[x] = lines[x]
    BY <1>1, <1>3, <1>8 DEF Produce, TypeOK
  <2>3. cols'[x]["costing"] = cols[x]["costing"]
    BY <1>1, <1>8, <2>1, HandOffColumns
  <2>4. CASE x = p /\ cols[p]["costing"] = Pending
    BY <1>6, <2>2, <2>3, <2>4 DEF LinesFollow, CostingDue, Pending, Completed
  <2>5. CASE x # p \/ cols[p]["costing"] # Pending
    <3>1. \/ UNCHANGED broker
          \/ Publish("Costing", p, Whole) /\ x # p
          \/ Publish("Ballooning", p, Whole)
      BY <1>1, <2>1, <2>5, HandOffColumns
    <3>2. UNCHANGED broker => (Delivered(x, "Costing") => Delivered(x, "Costing")')
      BY DEF Delivered
    <3>3. Delivered(x, "Costing") => Delivered(x, "Costing")'
      BY <3>1, <3>2, PublishElsewhere DEF QueueNames
    <3>4. ThreadFor(x, "costing")' => ThreadFor(x, "costing")
      BY <1>3, <1>5, NoNewThread
    <3> QED BY <1>5, <1>6, <2>2, <2>3, <3>3, <3>4, NoNewQueuedPrimed, LinesQuietly
  <2> QED BY <2>4, <2>5
<1> QED BY <1>7, <1>8

\* A step of the dispatcher or of the page that only touches the table.
LEMMA TableStepLines ==
    ASSUME IInv, LinesInv, UNCHANGED <<cols, broker, runs, lines>>,
           DOMAIN jobs' = DOMAIN jobs,
           \A j \in DOMAIN jobs :
              /\ jobs'[j].part = jobs[j].part /\ jobs'[j].queue = jobs[j].queue
              /\ jobs'[j].status = "queued" => jobs[j].status = "queued",
           NEW x \in Parts
    PROVE  LinesFollow(x)'
<1>1. NoNewQueued(x, "costing")
  BY DEF NoNewQueued, QueuedFor, Lane
<1>2. NoNewThreads(x, "costing")
  BY DEF NoNewThreads, ThreadFor, Lane, IInv, ThreadsOK
<1>3. Delivered(x, "Costing") => Delivered(x, "Costing")'
  BY DEF Delivered
<1> QED BY <1>1, <1>2, <1>3, NoNewQueuedPrimed, NoNewThreadsPrimed, LinesQuietly DEF LinesInv

LEMMA LinesNext ==
    ASSUME ClearedFirst, IInv, ServedInv, LinesInv, Next
    PROVE  LinesInv'
<1> USE DEF IInv
<1>1. ASSUME NEW r \in Requests, NEW y, Begin(r, y), NEW x \in Parts PROVE LinesFollow(x)'
  BY <1>1, TableStepLines DEF Begin, processVars, outputVars
<1>2. ASSUME NEW r \in Requests, PrioritiseFinish(r), NEW x \in Parts PROVE LinesFollow(x)'
  <2>1. RowsKept
    BY <1>2, PrioritiseKeeps
  <2>2. DOMAIN jobs' = DOMAIN jobs /\ UNCHANGED <<cols, broker, runs, lines>>
    BY <1>2 DEF PrioritiseFinish, processVars, outputVars
  <2> QED BY <2>1, <2>2, TableStepLines DEF RowsKept
<1>3. ASSUME NEW j \in DOMAIN jobs, Close(j), NEW x \in Parts PROVE LinesFollow(x)'
  <2>1. PICK s \in {"failed", "completed"} : SetStatus(j, s)
    BY <1>3 DEF Close
  <2>2. /\ DOMAIN jobs' = DOMAIN jobs
        /\ \A i \in DOMAIN jobs :
              /\ jobs'[i].part = jobs[i].part /\ jobs'[i].queue = jobs[i].queue
              /\ jobs'[i].status = "queued" => jobs[i].status = "queued"
    BY <2>1, SetStatusOne
  <2>3. UNCHANGED <<cols, broker, runs, lines>>
    BY <1>3 DEF Close, processVars, outputVars
  <2> QED BY <2>2, <2>3, TableStepLines
<1>3a. ASSUME NEW r \in Requests, RerunRefused(r), NEW x \in Parts PROVE LinesFollow(x)'
  BY <1>3a, TableStepLines DEF RerunRefused, processVars, outputVars
<1>4. /\ ~Uploads /\ ~Scripts /\ ~Crash /\ ~Connect /\ ~Reconnect
      /\ \A j \in DOMAIN jobs : ~Reap(j)
      /\ \A r \in Requests : /\ ~RerunAborted(r) /\ ~CancelFinish(r) /\ ~RequeueFinish(r)
                             /\ \A j \in DOMAIN jobs : ~CancelStart(r, j) /\ ~RequeueStart(r, j)
  BY DEF ClearedFirst, Undisturbed, ServedInv, LinesInv, Uploads, Upload, UploadAborted,
         UploadRefused, Scripts, ManualRequeue, Supersede, InsertByHand, Crash, Connect,
         Reconnect, Reap, RerunAborted, CancelFinish, RequeueFinish, CancelStart, RequeueStart
<1>r. ASSUME NEW r \in Requests, NEW y, req' = [req EXCEPT ![r] = y], y.op # "requeue"
      PROVE  \A t \in Requests : req'[t].op # "requeue"
  BY <1>r DEF LinesInv, TypeOK
<1>5. CASE Reruns
  <2>1. \A x \in Parts : LinesFollow(x)'
    BY <1>1, <1>3a, <1>4, <1>5, RerunFinishLines DEF Reruns, RerunStart
  <2>2. up' /\ \A r \in Requests : req'[r].op # "requeue"
    <3>1. ASSUME NEW r \in Requests, NEW p, NEW q, NEW s, RerunStart(r, p, q, s)
          PROVE  up' /\ \A t \in Requests : req'[t].op # "requeue"
      BY <1>r, <3>1 DEF RerunStart, Begin, processVars, LinesInv
    <3>2. ASSUME NEW r \in Requests, RerunFinish(r) \/ RerunRefused(r)
          PROVE  up' /\ \A t \in Requests : req'[t].op # "requeue"
      BY <1>r, <3>2 DEF RerunFinish, RerunRefused, End, Idle, processVars, LinesInv
    <3> QED BY <1>4, <1>5, <3>1, <3>2 DEF Reruns
  <2> QED BY <2>1, <2>2 DEF LinesInv
<1>6. CASE QueuePage
  <2>1. \A x \in Parts : LinesFollow(x)'
    BY <1>1, <1>2, <1>4, <1>6 DEF QueuePage, PrioritiseStart
  <2>2. up' /\ \A r \in Requests : req'[r].op # "requeue"
    <3>1. ASSUME NEW r \in Requests, NEW j, PrioritiseStart(r, j)
          PROVE  up' /\ \A t \in Requests : req'[t].op # "requeue"
      BY <1>r, <3>1 DEF PrioritiseStart, Begin, processVars, LinesInv
    <3>2. ASSUME NEW r \in Requests, PrioritiseFinish(r)
          PROVE  up' /\ \A t \in Requests : req'[t].op # "requeue"
      BY <1>r, <3>2 DEF PrioritiseFinish, End, Idle, processVars, LinesInv
    <3> QED BY <1>4, <1>6, <3>1, <3>2 DEF QueuePage
  <2> QED BY <2>1, <2>2 DEF LinesInv
<1>7. CASE Consumer
  <2>1. \A x \in Parts : LinesFollow(x)'
    BY <1>3, <1>4, <1>7, ReceiveLines, ClaimLines, RunFinishLines DEF Consumer
  <2>2. up' /\ \A r \in Requests : req'[r].op # "requeue"
    BY <1>4, <1>7 DEF Consumer, Receive, Claim, RunFinish, Close, processVars, LinesInv
  <2> QED BY <2>1, <2>2 DEF LinesInv
<1> QED BY <1>4, <1>5, <1>6, <1>7 DEF Next

\* CostingPartsEndpoint.cs:65-68: when a part's costing has settled in Completed, its
\* lines are there once, although any number of operators may press Re-run, forced or
\* not, on a part that waits or runs, runs may fail, messages be handed over twice, and
\* the row be missing when the message arrives.
THEOREM LinesAreCountedOnce ==
    ASSUME ClearedFirst
    PROVE  Spec => []LinesCountedOnce
<1>1. Undisturbed
  BY DEF ClearedFirst
<1>2. Init => ServedInv /\ LinesInv
  <2>1. Init => ServedInv
    BY <1>1 DEF Undisturbed, Init, ServedInv, Served, Idle
  <2>2. Init => LinesInv
    BY <1>1, OwnLane DEF Undisturbed, Init, LinesInv, LinesFollow, CostingDue, QueuedFor,
       ThreadFor, Delivered, Idle, QueueNames, Pending, InProgress, Completed
  <2> QED BY <2>1, <2>2
<1>3. IInv /\ ServedInv /\ LinesInv /\ [Next]_vars => (ServedInv /\ LinesInv)'
  <2>1. CASE UNCHANGED vars
    <3>1. ServedInv => ServedInv'
      BY <2>1 DEF vars, ServedInv, Served, LaneEnded, Lane
    <3>2. LinesInv => LinesInv'
      BY <2>1 DEF vars, LinesInv, LinesFollow, CostingDue, QueuedFor, ThreadFor, Delivered, Lane
    <3> QED BY <3>1, <3>2
  <2>2. CASE Next
    BY <1>1, <2>2, ServedNext, LinesNext
  <2> QED BY <2>1, <2>2
<1>4. LinesInv => LinesCountedOnce
  BY DEF LinesInv, LinesFollow, LinesCountedOnce
<1> QED BY <1>2, <1>3, <1>4, Invariance, PTL DEF Spec

-----------------------------------------------------------------------------
(* The pages of a ballooning run. *)

\* One operator at a time, on drawings with pages, and nobody forces a re-run; no run
\* fails, is given up on or outlived by its message, and every request that publishes
\* commits.
OneByOne ==
    /\ \A r, t \in Requests : r = t
    /\ Processed = Parts
    /\ Pages # {}
    /\ Operations \subseteq {"rerun", "requeue", "prioritise"}
    /\ Faults \subseteq {"crash", "redeliver", "down", "unread"}

\* The run of a row or thread with scope s fills every page of p that is blank.
Covers(p, s) == /\ s \in Pages => blank[p] \subseteq {s}
                /\ s = SkipDone => blank[p] = {}

BalloonJobs(p) == ActiveJobs(p, "ballooning")

RerunPending(p) ==
    \E r \in Requests : req[r].op = "rerun" /\ req[r].queue = "Ballooning" /\ req[r].part = p

\* Blank pages, and messages, belong to a row that is active and whose lane has not
\* ended; that row and its thread cover the pages; a re-run under way has found no row.
PagesFollow(p) ==
    /\ \A j \in BalloonJobs(p) : Covers(p, jobs[j].scope)
    /\ \A run \in runs : (jobs[run.job].part = p /\ Lane(run.job) = "ballooning")
                            => Covers(p, run.scope)
    /\ (~Delivered(p, "Ballooning") \/ blank[p] # {}) =>
            BalloonJobs(p) # {} /\ cols[p]["balloon"] \in {Pending, InProgress}
    /\ RerunPending(p) => BalloonJobs(p) = {}

PagesInv == \A p \in Parts : PagesFollow(p)

ActiveAfter(p, j) == /\ jobs'[j].part = p /\ LaneForQueue[jobs'[j].queue] = "ballooning"
                     /\ jobs'[j].status \in {"queued", "running"}

\* The active rows of p stay as they are, but for a scope that grows to the whole.
JobsStay(p) ==
    /\ \A j \in DOMAIN jobs' : ActiveAfter(p, j) =>
          j \in BalloonJobs(p) /\ jobs'[j].scope \in {jobs[j].scope, Whole}
    /\ \A j \in BalloonJobs(p) : j \in DOMAIN jobs' /\ ActiveAfter(p, j)

\* Every thread for p was there.
ThreadsStay(p) ==
    \A t \in runs' :
        (jobs'[t.job].part = p /\ LaneForQueue[jobs'[t.job].queue] = "ballooning")
            => t \in runs /\ jobs[t.job].part = p /\ Lane(t.job) = "ballooning"

RequestsStayed(p) ==
    (\E r \in Requests : req'[r].op = "rerun" /\ req'[r].queue = "Ballooning" /\ req'[r].part = p)
        => RerunPending(p)

\* PagesFollow after a step, spelt out.
PagesFollowAfter(p) ==
    /\ \A j \in DOMAIN jobs' : ActiveAfter(p, j) => Covers(p, jobs[j].scope)'
    /\ \A t \in runs' :
          (jobs'[t.job].part = p /\ LaneForQueue[jobs'[t.job].queue] = "ballooning")
             => Covers(p, t.scope)'
    /\ (~Delivered(p, "Ballooning")' \/ blank'[p] # {}) =>
            /\ \E j \in DOMAIN jobs' : ActiveAfter(p, j)
            /\ cols'[p]["balloon"] \in {Pending, InProgress}
    /\ (\E r \in Requests : /\ req'[r].op = "rerun" /\ req'[r].queue = "Ballooning"
                            /\ req'[r].part = p)
          => \A j \in DOMAIN jobs' : ~ActiveAfter(p, j)

LEMMA PagesFollowPrimed ==
    ASSUME NEW p, PagesFollowAfter(p)
    PROVE  PagesFollow(p)'
<1>1. BalloonJobs(p)' = {j \in DOMAIN jobs' : ActiveAfter(p, j)}
  BY DEF BalloonJobs, ActiveJobs, ActiveAfter, Active, Lane
<1> QED BY <1>1 DEF PagesFollowAfter, PagesFollow, RerunPending, Lane

\* A step that clears and fills no page of p, and starts nothing for it.
LEMMA PagesQuietly ==
    ASSUME NEW p \in Parts, PagesFollow(p), blank'[p] = blank[p],
           cols[p]["balloon"] \in {Pending, InProgress}
               => cols'[p]["balloon"] \in {Pending, InProgress},
           Delivered(p, "Ballooning") => Delivered(p, "Ballooning")',
           JobsStay(p), ThreadsStay(p), RequestsStayed(p), PipelineAssumption
    PROVE  PagesFollow(p)'
<1>1. Whole \notin Pages /\ Whole # SkipDone
  BY DEF PipelineAssumption
<1>2. \A j \in DOMAIN jobs' : ActiveAfter(p, j) => Covers(p, jobs[j].scope)'
  BY <1>1 DEF PagesFollow, JobsStay, Covers
<1>3. \A t \in runs' :
          (jobs'[t.job].part = p /\ LaneForQueue[jobs'[t.job].queue] = "ballooning")
             => Covers(p, t.scope)'
  BY DEF PagesFollow, ThreadsStay, Covers
<1>4. BalloonJobs(p) # {} => \E j \in DOMAIN jobs' : ActiveAfter(p, j)
  BY DEF JobsStay
<1>5. BalloonJobs(p) = {} => \A j \in DOMAIN jobs' : ~ActiveAfter(p, j)
  BY DEF JobsStay
<1> QED BY <1>2, <1>3, <1>4, <1>5, PagesFollowPrimed
        DEF PagesFollow, PagesFollowAfter, RequestsStayed

\* A step that starts no thread and keeps the rows' parts and queues.
LEMMA OldThreads ==
    ASSUME IInv, runs' \subseteq runs,
           \A j \in DOMAIN jobs : jobs'[j].part = jobs[j].part /\ jobs'[j].queue = jobs[j].queue,
           NEW p
    PROVE  ThreadsStay(p)
BY DEF ThreadsStay, IInv, ThreadsOK, Lane

LEMMA RowsInPlace ==
    ASSUME DOMAIN jobs' = DOMAIN jobs,
           \A j \in DOMAIN jobs :
              /\ jobs'[j].part = jobs[j].part /\ jobs'[j].queue = jobs[j].queue
              /\ jobs'[j].scope \in {jobs[j].scope, Whole}
              /\ jobs'[j].status \in {"queued", "running"} <=> Active(j),
           NEW p
    PROVE  JobsStay(p)
BY DEF JobsStay, ActiveAfter, BalloonJobs, ActiveJobs, Active, Lane

LEMMA InsertElsewhere ==
    ASSUME TypeOK, NEW p, NEW q, NEW s, NEW prio, Insert(p, q, s, prio),
           NEW x, x # p \/ LaneForQueue[q] # "ballooning"
    PROVE  JobsStay(x)
<1>1. NewJob(p, q, s, prio).part = p /\ NewJob(p, q, s, prio).queue = q
  BY DEF NewJob
<1>2. /\ DOMAIN jobs' = DOMAIN jobs \cup {Len(jobs) + 1}
      /\ \A j \in DOMAIN jobs : jobs'[j] = jobs[j]
      /\ jobs'[Len(jobs) + 1] = NewJob(p, q, s, prio)
  BY InsertKeeps DEF TypeOK
<1> QED BY <1>1, <1>2 DEF JobsStay, ActiveAfter, BalloonJobs, ActiveJobs, Active, Lane

LEMMA JobsUnchanged ==
    ASSUME IInv, UNCHANGED jobs, NEW p
    PROVE  /\ JobsStay(p)
           /\ runs' \subseteq runs => ThreadsStay(p)
<1>1. JobsStay(p)
  BY DEF JobsStay, ActiveAfter, BalloonJobs, ActiveJobs, Active, Lane
<1> QED BY <1>1, OldThreads

LEMMA RequestEnded ==
    ASSUME OneByOne, TypeOK, NEW r \in Requests, End(r), NEW p
    PROVE  /\ RequestsStayed(p)
           /\ \A t \in Requests : req'[t].op # "rerun"
<1>1. \A t \in Requests : req'[t] = Idle
  BY DEF End, OneByOne, TypeOK
<1> QED BY <1>1 DEF RequestsStayed, Idle

LEMMA RequestsUnchanged ==
    ASSUME UNCHANGED req, NEW p
    PROVE  RequestsStayed(p)
BY DEF RequestsStayed, RerunPending


\* A request that begins: Re-run of ballooning has found no row.
LEMMA BeginPages ==
    ASSUME OneByOne, IInv, PagesInv, NEW r \in Requests, NEW y, Begin(r, y), NEW x \in Parts,
           (y.op = "rerun" /\ y.queue = "Ballooning" /\ y.part = x) => BalloonJobs(x) = {}
    PROVE  PagesFollow(x)'
<1>1. UNCHANGED <<jobs, cols, broker, runs, blank>>
  BY DEF Begin, processVars, outputVars
<1>2. JobsStay(x) /\ ThreadsStay(x)
  BY <1>1, JobsUnchanged
<1>3. Delivered(x, "Ballooning") => Delivered(x, "Ballooning")'
  BY <1>1 DEF Delivered
<1>4. \A t \in Requests : req'[t] = IF t = r THEN y ELSE req[t]
  BY DEF Begin, IInv, TypeOK
<1>5. PagesFollow(x)
  BY DEF PagesInv
<1>6. CASE y.op = "rerun" /\ y.queue = "Ballooning" /\ y.part = x
  <2>1. BalloonJobs(x) = {} /\ Delivered(x, "Ballooning") /\ blank[x] = {}
    BY <1>5, <1>6 DEF PagesFollow
  <2>2. \A j \in DOMAIN jobs' : ~ActiveAfter(x, j)
    BY <1>2, <2>1 DEF JobsStay
  <2>3. blank'[x] = {} /\ Delivered(x, "Ballooning")'
    BY <1>1, <1>3, <2>1
  <2>4. \A s : Covers(x, s)'
    BY <2>3 DEF Covers
  <2> QED BY <2>2, <2>3, <2>4, PagesFollowPrimed DEF PagesFollowAfter
<1>7. CASE ~(y.op = "rerun" /\ y.queue = "Ballooning" /\ y.part = x)
  <2>1. RequestsStayed(x)
    BY <1>4, <1>7 DEF RequestsStayed, RerunPending
  <2> QED BY <1>1, <1>2, <1>3, <1>5, <2>1, PagesQuietly, PipelineAssumption
<1> QED BY <1>6, <1>7

\* A thread of p in the ballooning lane has its row running.
LEMMA NoJobNoThread ==
    ASSUME IInv, ServedInv, NEW p, BalloonJobs(p) = {}
    PROVE  ~ThreadFor(p, "ballooning")
<1>1. ASSUME NEW t \in runs, jobs[t.job].part = p, Lane(t.job) = "ballooning"
      PROVE  t.job \in BalloonJobs(p)
  BY <1>1 DEF IInv, ThreadsOK, ServedInv, Served, BalloonJobs, ActiveJobs, Active
<1> QED BY <1>1 DEF ThreadFor

\* A row that joins an empty lane: the only one, without a thread.
LEMMA FirstRow ==
    ASSUME IInv, ServedInv, NEW p \in Parts, NEW q \in QueueNames, NEW s, NEW prio,
           Insert(p, q, s, prio), q = "Ballooning", UNCHANGED runs,
           Covers(p, s)', cols'[p]["balloon"] = Pending,
           \A t \in Requests : req'[t].op # "rerun"
    PROVE  PagesFollow(p)'
<1>1. BalloonJobs(p) = {}
  BY OwnLane DEF Insert, BalloonJobs
<1>2. /\ DOMAIN jobs' = DOMAIN jobs \cup {Len(jobs) + 1}
      /\ \A j \in DOMAIN jobs : jobs'[j] = jobs[j]
      /\ jobs'[Len(jobs) + 1] = NewJob(p, q, s, prio)
  BY InsertKeeps DEF IInv, TypeOK
<1>3. /\ NewJob(p, q, s, prio).part = p /\ NewJob(p, q, s, prio).queue = q
      /\ NewJob(p, q, s, prio).scope = s /\ NewJob(p, q, s, prio).status = "queued"
  BY DEF NewJob
<1>4. \A j \in DOMAIN jobs : ~ActiveAfter(p, j)
  BY <1>1, <1>2 DEF ActiveAfter, BalloonJobs, ActiveJobs, Active, Lane
<1>5. ActiveAfter(p, Len(jobs) + 1) /\ jobs'[Len(jobs) + 1].scope = s
  BY <1>2, <1>3, OwnLane DEF ActiveAfter
<1>6. ThreadsStay(p)
  BY <1>2, OldThreads
<1>7. ~\E t \in runs' : /\ jobs'[t.job].part = p
                        /\ LaneForQueue[jobs'[t.job].queue] = "ballooning"
  BY <1>1, <1>6, NoJobNoThread DEF ThreadsStay, ThreadFor
<1>8. \A j \in DOMAIN jobs' : ActiveAfter(p, j) => Covers(p, jobs[j].scope)'
  <2>1. ASSUME NEW j \in DOMAIN jobs', ActiveAfter(p, j) PROVE Covers(p, jobs[j].scope)'
    <3>1. j = Len(jobs) + 1
      BY <1>2, <1>4, <2>1
    <3>2. jobs'[j].scope = s
      BY <1>5, <3>1
    <3> QED BY <3>2 DEF Covers
  <2> QED BY <2>1
<1>9. \E j \in DOMAIN jobs' : ActiveAfter(p, j)
  BY <1>2, <1>5
<1> QED BY <1>7, <1>8, <1>9, PagesFollowPrimed DEF PagesFollowAfter

LEMMA RerunFinishPages ==
    ASSUME OneByOne, IInv, ServedInv, PagesInv, NEW r \in Requests, RerunFinish(r),
           NEW x \in Parts
    PROVE  PagesFollow(x)'
<1> USE DEF IInv
<1>1. PICK p \in Parts, q \in QueueNames, s \in Scopes :
        req[r].part = p /\ req[r].queue = q /\ req[r].scope = s
  BY RequestFields DEF RerunFinish
<1>2. /\ ClearPreviousOutput(p, q, s)
      /\ cols' = [cols EXCEPT ![p][StatusField[q]] = Pending]
      /\ Enqueue(p, q, s) /\ Publish(q, p, s) /\ runs' = runs /\ End(r)
  BY <1>1 DEF RerunFinish, processVars
<1>3. q = "Ballooning" => RerunPending(p)
  BY <1>1 DEF RerunFinish, RerunPending
<1>4. PagesFollow(x)
  BY DEF PagesInv
<1>5. RequestsStayed(x) /\ \A t \in Requests : req'[t].op # "rerun"
  BY <1>2, RequestEnded
<1>6. CASE x = p /\ q = "Ballooning"
  <2>1. BalloonJobs(p) = {} /\ blank[p] = {}
    BY <1>3, <1>4, <1>6 DEF PagesFollow
  <2>2. Insert(p, q, s, DefaultPriority)
    BY <1>1, <1>2, <1>6, <2>1, OwnLane DEF Enqueue, BalloonJobs, OneByOne
  <2>3. Covers(p, s)'
    BY <1>1, <1>2, <1>6, <2>1, PipelineAssumption DEF ClearPreviousOutput, Covers, Scopes, TypeOK
  <2>4. cols'[p]["balloon"] = Pending
    BY <1>1, <1>2, <1>6, OwnLane DEF TypeOK
  <2> QED BY <1>1, <1>2, <1>5, <1>6, <2>2, <2>3, <2>4, FirstRow
<1>7. CASE x # p \/ q # "Ballooning"
  <2>1. blank'[x] = blank[x]
    BY <1>1, <1>2, <1>7 DEF ClearPreviousOutput, Scopes, TypeOK
  <2>2. cols'[x]["balloon"] = cols[x]["balloon"]
    BY <1>1, <1>2, <1>7, OwnLane DEF TypeOK
  <2>3. Delivered(x, "Ballooning") => Delivered(x, "Ballooning")'
    BY <1>1, <1>2, <1>7, PublishElsewhere DEF QueueNames
  <2>4. JobsStay(x)
    <3>1. CASE Insert(p, q, s, DefaultPriority)
      BY <1>1, <1>7, <3>1, OwnLane, InsertElsewhere
    <3>2. CASE UNCHANGED jobs
      BY <3>2, JobsUnchanged
    <3> QED BY <1>2, <3>1, <3>2 DEF Enqueue
  <2>5. ThreadsStay(x)
    BY <1>2, EnqueueKeeps, OldThreads DEF RowsKept
  <2> QED BY <1>4, <1>5, <2>1, <2>2, <2>3, <2>4, <2>5, PagesQuietly, PipelineAssumption
<1> QED BY <1>6, <1>7

LEMMA RequeueFinishPages ==
    ASSUME OneByOne, IInv, ServedInv, PagesInv, NEW r \in Requests, RequeueFinish(r),
           NEW x \in Parts
    PROVE  PagesFollow(x)'
<1> USE DEF IInv
<1> DEFINE j == req[r].job
<1>1. PICK p \in Parts, q \in QueueNames, l \in Lanes :
        jobs[j].part = p /\ jobs[j].queue = q /\ Lane(j) = l /\ l = LaneForQueue[q]
  BY RowFields DEF RequeueFinish, RequestsOK, Lane
<1>2. /\ UNCHANGED <<broker, runs, blank>> /\ End(r)
      /\ \/ UNCHANGED jobs /\ cols' = WithLane(p, l, Pending)
         \/ Insert(p, q, Whole, DefaultPriority) /\ cols' = WithLane(p, l, Pending)
         \/ UNCHANGED <<jobs, cols>>
  BY <1>1 DEF RequeueFinish, processVars, outputVars
<1> HIDE DEF j
<1>3. PagesFollow(x)
  BY DEF PagesInv
<1>4. RequestsStayed(x) /\ \A t \in Requests : req'[t].op # "rerun"
  BY <1>2, RequestEnded
<1>5. Delivered(x, "Ballooning") => Delivered(x, "Ballooning")'
  BY <1>2 DEF Delivered
<1>6. \/ UNCHANGED cols
      \/ cols'[x]["balloon"] = IF x = p /\ l = "ballooning" THEN Pending ELSE cols[x]["balloon"]
  BY <1>1, <1>2, WithLaneColumns
<1>7. cols[x]["balloon"] \in {Pending, InProgress} => cols'[x]["balloon"] \in {Pending, InProgress}
  BY <1>6
<1>8. CASE UNCHANGED jobs
  BY <1>2, <1>3, <1>4, <1>5, <1>7, <1>8, JobsUnchanged, PagesQuietly, PipelineAssumption
<1>9. CASE Insert(p, q, Whole, DefaultPriority) /\ cols' = WithLane(p, l, Pending)
  <2>1. CASE x = p /\ q = "Ballooning"
    <3>1. Covers(p, Whole)'
      BY PipelineAssumption DEF Covers
    <3>2. cols'[p]["balloon"] = Pending
      BY <1>1, <1>9, <2>1, OwnLane, WithLaneColumns
    <3> QED BY <1>1, <1>2, <1>4, <1>9, <2>1, <3>1, <3>2, FirstRow
  <2>2. CASE x # p \/ q # "Ballooning"
    <3>1. JobsStay(x)
      BY <1>1, <1>9, <2>2, OwnLane, InsertElsewhere
    <3>2. ThreadsStay(x)
      BY <1>2, <1>9, InsertKeeps, OldThreads DEF TypeOK
    <3> QED BY <1>2, <1>3, <1>4, <1>5, <1>7, <3>1, <3>2, PagesQuietly, PipelineAssumption
  <2> QED BY <2>1, <2>2
<1> QED BY <1>2, <1>8, <1>9

LEMMA PrioritiseFinishPages ==
    ASSUME OneByOne, IInv, PagesInv, NEW r \in Requests, PrioritiseFinish(r), NEW x \in Parts
    PROVE  PagesFollow(x)'
<1>1. UNCHANGED <<cols, broker, runs, blank>> /\ End(r)
  BY DEF PrioritiseFinish, processVars, outputVars
<1>2. DOMAIN jobs' = DOMAIN jobs
  BY DEF PrioritiseFinish
<1>3. ASSUME NEW j \in DOMAIN jobs
      PROVE  /\ jobs'[j].part = jobs[j].part /\ jobs'[j].queue = jobs[j].queue
             /\ jobs'[j].scope = jobs[j].scope /\ jobs'[j].status = jobs[j].status
  <2>1. jobs[j] \in Job
    BY RowFields DEF IInv
  <2> QED BY <2>1 DEF PrioritiseFinish, Job
<1>4. JobsStay(x)
  BY <1>2, <1>3, RowsInPlace DEF Active
<1>5. ThreadsStay(x)
  BY <1>1, <1>3, OldThreads
<1>6. RequestsStayed(x)
  BY <1>1, RequestEnded DEF IInv
<1>7. Delivered(x, "Ballooning") => Delivered(x, "Ballooning")'
  BY <1>1 DEF Delivered
<1> QED BY <1>1, <1>4, <1>5, <1>6, <1>7, PagesQuietly, PipelineAssumption DEF PagesInv

\* A ballooning message finds the row it announced, so it never adds one.
LEMMA ReceiveJobs ==
    ASSUME IInv, PagesInv, NEW q \in QueueNames, Receive(q), NEW x \in Parts
    PROVE  JobsStay(x)
<1> USE DEF IInv
<1>1. PICK m \in Message : m = Head(broker[q]) /\ ~Delivered(m.part, q)
  BY ReceivedWasWaiting
<1>2. m.part \in Parts
  BY DEF Message
<1>3. CASE Insert(m.part, q, m.scope, DefaultPriority)
  <2>1. q # "Ballooning"
    <3>1. ASSUME q = "Ballooning" PROVE BalloonJobs(m.part) # {}
      BY <1>1, <1>2, <3>1 DEF PagesInv, PagesFollow
    <3>2. ActiveJobs(m.part, LaneForQueue[q]) = {}
      BY <1>3 DEF Insert
    <3> QED BY <3>1, <3>2, OwnLane DEF BalloonJobs
  <2> QED BY <1>3, <2>1, OwnLane, InsertElsewhere
<1>4. CASE jobs' = [j \in DOMAIN jobs |->
                      IF j \in ActiveJobs(m.part, LaneForQueue[q])
                      THEN [jobs[j] EXCEPT !.scope = Widen(@, m.scope)] ELSE jobs[j]]
  <2>1. DOMAIN jobs' = DOMAIN jobs
    BY <1>4
  <2>2. ASSUME NEW j \in DOMAIN jobs
        PROVE  /\ jobs'[j].part = jobs[j].part /\ jobs'[j].queue = jobs[j].queue
               /\ jobs'[j].scope \in {jobs[j].scope, Whole}
               /\ jobs'[j].status = jobs[j].status
    <3>1. jobs[j] \in Job
      BY RowFields
    <3>2. Widen(jobs[j].scope, m.scope) \in {jobs[j].scope, Whole}
      BY DEF Widen
    <3> QED BY <1>4, <3>1, <3>2 DEF Job
  <2> QED BY <2>1, <2>2, RowsInPlace DEF Active
<1> QED BY <1>1, <1>3, <1>4 DEF Receive

LEMMA ReceivePages ==
    ASSUME IInv, PagesInv, NEW q \in QueueNames, Receive(q), NEW x \in Parts
    PROVE  PagesFollow(x)'
<1>1. UNCHANGED <<cols, runs, blank, req>>
  BY DEF Receive, processVars, outputVars
<1>2. ThreadsStay(x)
  BY <1>1, ReceiveKeeps, OldThreads DEF RowsKept, IInv
<1>3. Delivered(x, "Ballooning") => Delivered(x, "Ballooning")'
  BY ReceiveDelivers DEF QueueNames, IInv
<1> QED BY <1>1, <1>2, <1>3, ReceiveJobs, RequestsUnchanged, PagesQuietly, PipelineAssumption
        DEF PagesInv

LEMMA RerunRefusedPages ==
    ASSUME OneByOne, IInv, PagesInv, NEW r \in Requests, RerunRefused(r), NEW x \in Parts
    PROVE  PagesFollow(x)'
<1>1. End(r) /\ UNCHANGED <<jobs, cols, broker, runs, blank>>
  BY DEF RerunRefused, processVars, outputVars
<1>2. JobsStay(x) /\ ThreadsStay(x)
  BY <1>1, JobsUnchanged
<1>3. RequestsStayed(x)
  BY <1>1, RequestEnded DEF IInv
<1>4. Delivered(x, "Ballooning") => Delivered(x, "Ballooning")'
  BY <1>1 DEF Delivered
<1> QED BY <1>1, <1>2, <1>3, <1>4, PagesQuietly, PipelineAssumption DEF PagesInv

LEMMA ClaimPages ==
    ASSUME IInv, PagesInv, NEW l \in Lanes, Claim(l), NEW x \in Parts
    PROVE  PagesFollow(x)'
<1> USE DEF IInv
<1>1. PICK j \in QueuedIn(l) :
        /\ jobs' = [jobs EXCEPT ![j].status = "running", ![j].attempt = @ + 1,
                                ![j].worker = worker]
        /\ runs' = runs \cup {[job |-> j, attempt |-> jobs[j].attempt + 1,
                               scope |-> jobs[j].scope]}
        /\ cols' = WithLane(jobs[j].part, l, InProgress)
  BY DEF Claim
<1>2. UNCHANGED <<broker, blank, req>>
  BY DEF Claim, outputVars
<1>3. /\ j \in DOMAIN jobs /\ jobs[j].status = "queued" /\ Lane(j) = l
      /\ jobs[j].part \in Parts /\ jobs[j] \in Job
  BY RowFields DEF QueuedIn
<1>4. /\ jobs'[j].status = "running" /\ DOMAIN jobs' = DOMAIN jobs
      /\ \A i \in DOMAIN jobs \ {j} : jobs'[i] = jobs[i]
      /\ jobs'[j].part = jobs[j].part /\ jobs'[j].queue = jobs[j].queue
  BY <1>1, <1>3, ClaimRows, PipelineAssumption DEF TypeOK, SameRows, RowFollows
<1>5. jobs'[j].scope = jobs[j].scope
  BY <1>1, <1>3 DEF Job
<1>6. JobsStay(x)
  BY <1>3, <1>4, <1>5, RowsInPlace DEF Active
<1>7. cols[x]["balloon"] \in {Pending, InProgress} => cols'[x]["balloon"] \in {Pending, InProgress}
  BY <1>1, <1>3, WithLaneColumns
<1>8. Delivered(x, "Ballooning") => Delivered(x, "Ballooning")'
  BY <1>2 DEF Delivered
<1>9. PagesFollow(x)
  BY DEF PagesInv
<1>10. \A j2 \in DOMAIN jobs' : ActiveAfter(x, j2) => Covers(x, jobs[j2].scope)'
  BY <1>2, <1>4, <1>5, <1>6, <1>9 DEF JobsStay, PagesFollow, Covers
<1>11. \A t \in runs' :
          (jobs'[t.job].part = x /\ LaneForQueue[jobs'[t.job].queue] = "ballooning")
             => Covers(x, t.scope)'
  <2>1. ASSUME NEW t \in runs', jobs'[t.job].part = x,
               LaneForQueue[jobs'[t.job].queue] = "ballooning"
        PROVE  Covers(x, t.scope)
    <3>1. CASE t \in runs
      <4>1. t.job \in DOMAIN jobs
        BY <3>1 DEF ThreadsOK
      <4>2. jobs'[t.job].part = jobs[t.job].part /\ jobs'[t.job].queue = jobs[t.job].queue
        BY <1>4, <4>1
      <4> QED BY <1>9, <2>1, <3>1, <4>2 DEF PagesFollow, Lane
    <3>2. CASE t \notin runs
      <4>1. t.job = j /\ t.scope = jobs[j].scope
        BY <1>1, <3>2
      <4>2. j \in BalloonJobs(x)
        BY <1>3, <1>4, <2>1, <4>1 DEF BalloonJobs, ActiveJobs, Active, Lane
      <4> QED BY <1>9, <4>1, <4>2 DEF PagesFollow
    <3> QED BY <3>1, <3>2
  <2> QED BY <1>2, <2>1 DEF Covers
<1>12. (BalloonJobs(x) # {} => \E i \in DOMAIN jobs' : ActiveAfter(x, i))
       /\ (BalloonJobs(x) = {} => \A i \in DOMAIN jobs' : ~ActiveAfter(x, i))
  BY <1>6 DEF JobsStay
<1> QED BY <1>2, <1>7, <1>8, <1>9, <1>10, <1>11, <1>12, PagesFollowPrimed
        DEF PagesFollow, PagesFollowAfter, RerunPending

LEMMA RunFinishPages ==
    ASSUME OneByOne, IInv, ServedInv, PagesInv, NEW run \in runs, RunFinish(run),
           NEW x \in Parts
    PROVE  PagesFollow(x)'
<1> USE DEF IInv
<1>1. PICK p \in Parts, l \in Lanes :
        /\ jobs[run.job].part = p /\ Lane(run.job) = l
        /\ jobs[run.job].queue \in QueueNames
  BY ThreadAlone
<1>2. /\ Delivered(p, jobs[run.job].queue)
      /\ runs' = runs \ {run} /\ UNCHANGED <<jobs, req>>
      /\ HandOff(p, l, TRUE) /\ Produce(p, l, run.scope)
  BY <1>1 DEF RunFinish, OneByOne
<1>3. l = "ballooning" <=> jobs[run.job].queue = "Ballooning"
  BY <1>1, OwnLane DEF Lane
<1>4. JobsStay(x) /\ ThreadsStay(x) /\ RequestsStayed(x)
  BY <1>2, JobsUnchanged, RequestsUnchanged
<1>5. PagesFollow(x)
  BY DEF PagesInv
<1>6. CASE x = p /\ l = "ballooning"
  <2>1. Covers(x, run.scope) /\ blank[x] \in SUBSET Pages
    BY <1>1, <1>5, <1>6 DEF PagesFollow, TypeOK
  <2>2. blank'[x] = {}
    <3>1. CASE run.scope \in Pages
      <4>1. blank' = [blank EXCEPT ![p] = blank[p] \ {run.scope}]
        BY <1>2, <1>6, <3>1 DEF Produce
      <4> QED BY <1>6, <2>1, <3>1, <4>1 DEF Covers, TypeOK
    <3>2. CASE run.scope \notin Pages
      <4>1. blank' = [blank EXCEPT ![p] = {}]
        BY <1>2, <1>6, <3>2 DEF Produce
      <4> QED BY <1>6, <4>1 DEF TypeOK
    <3> QED BY <3>1, <3>2
  <2>3. Delivered(x, "Ballooning")'
    <3>1. Delivered(x, "Ballooning")
      BY <1>2, <1>3, <1>6
    <3>2. UNCHANGED broker
      BY <1>2, <1>6 DEF HandOff
    <3> QED BY <3>1, <3>2 DEF Delivered
  <2>4. \A s : Covers(x, s)'
    BY <2>2 DEF Covers
  <2>5. RerunPending(x)' => RerunPending(x)
    BY <1>2 DEF RerunPending
  <2>6. BalloonJobs(x) = {} => \A i \in DOMAIN jobs' : ~ActiveAfter(x, i)
    BY <1>4 DEF JobsStay
  <2> QED BY <1>4, <1>5, <2>2, <2>3, <2>4, <2>6, PagesFollowPrimed
          DEF PagesFollow, PagesFollowAfter, RequestsStayed
<1>7. CASE x # p \/ l # "ballooning"
  <2>1. blank'[x] = blank[x]
    BY <1>1, <1>2, <1>7 DEF Produce, TypeOK
  <2>2. CASE Publish("Ballooning", p, Whole) /\ blank[p] = Pages /\ x = p
             /\ cols'[p]["balloon"] = Pending
    <3>1. blank[x] # {}
      BY <2>2 DEF OneByOne
    <3>2. BalloonJobs(x) # {}
      BY <1>5, <3>1 DEF PagesFollow
    <3>3. \A j \in DOMAIN jobs' : ActiveAfter(x, j) => Covers(x, jobs[j].scope)'
      BY <1>2, <1>4, <1>5, <2>1 DEF JobsStay, PagesFollow, Covers
    <3>4. \A t \in runs' :
            (jobs'[t.job].part = x /\ LaneForQueue[jobs'[t.job].queue] = "ballooning")
               => Covers(x, t.scope)'
      BY <1>4, <1>5, <2>1 DEF ThreadsStay, PagesFollow, Covers
    <3>5. \E j \in DOMAIN jobs' : ActiveAfter(x, j)
      BY <1>4, <3>2 DEF JobsStay
    <3>6. ~RerunPending(x)
      BY <1>5, <3>2 DEF PagesFollow
    <3> QED BY <1>4, <2>2, <3>3, <3>4, <3>5, <3>6, PagesFollowPrimed
            DEF PagesFollowAfter, RequestsStayed
  <2>3. CASE /\ cols'[x]["balloon"] = cols[x]["balloon"]
             /\ \/ UNCHANGED broker
                \/ Publish("Costing", p, Whole)
                \/ Publish("Ballooning", p, Whole) /\ x # p
    <3>1. UNCHANGED broker => (Delivered(x, "Ballooning") => Delivered(x, "Ballooning")')
      BY DEF Delivered
    <3>2. Delivered(x, "Ballooning") => Delivered(x, "Ballooning")'
      BY <2>3, <3>1, PublishElsewhere DEF QueueNames
    <3> QED BY <1>4, <1>5, <2>1, <2>3, <3>2, PagesQuietly, PipelineAssumption
  <2>4. \/ /\ cols'[x]["balloon"] = cols[x]["balloon"]
           /\ \/ UNCHANGED broker
              \/ Publish("Costing", p, Whole)
              \/ Publish("Ballooning", p, Whole) /\ x # p
        \/ /\ Publish("Ballooning", p, Whole) /\ blank[p] = Pages /\ x = p
           /\ cols'[p]["balloon"] = Pending
    <3>1. PICK ok \in BOOLEAN : HandOff(p, l, ok)
      BY <1>2
    <3>2. CASE x = p
      BY <1>1, <1>7, <3>1, <3>2, HandOffColumns
    <3>3. CASE x # p
      BY <1>1, <1>7, <3>1, <3>3, HandOffColumns
    <3> QED BY <3>2, <3>3
  <2> QED BY <2>2, <2>3, <2>4
<1> QED BY <1>6, <1>7

\* A row is closed when its lane has ended: then no page of its part is blank.
LEMMA ClosePages ==
    ASSUME IInv, PagesInv, NEW j \in DOMAIN jobs, Close(j), NEW x \in Parts
    PROVE  PagesFollow(x)'
<1> USE DEF IInv
<1>1. PICK s \in {"failed", "completed"} : SetStatus(j, s)
  BY DEF Close
<1>2. UNCHANGED <<cols, broker, runs, blank, req>> /\ LaneEnded(jobs[j].part, Lane(j))
  BY DEF Close, processVars, outputVars
<1>3. /\ DOMAIN jobs' = DOMAIN jobs
      /\ \A i \in DOMAIN jobs \ {j} : jobs'[i] = jobs[i]
      /\ jobs'[j].status = s
      /\ jobs'[j].part = jobs[j].part /\ jobs'[j].queue = jobs[j].queue
  BY <1>1, SetStatusOne
<1>4. PagesFollow(x)
  BY DEF PagesInv
<1>5. ThreadsStay(x) /\ RequestsStayed(x)
  BY <1>2, <1>3, OldThreads, RequestsUnchanged
<1>6. Delivered(x, "Ballooning") => Delivered(x, "Ballooning")'
  BY <1>2 DEF Delivered
<1>7. CASE jobs[j].part = x /\ Lane(j) = "ballooning"
  <2>1. cols[x]["balloon"] \notin {Pending, InProgress}
    <3>1. LaneEnded(x, "ballooning")
      BY <1>2, <1>7
    <3>2. LaneStatusColumns["ballooning"] = {"balloon"}
      BY DEF LaneStatusColumns, Lanes
    <3> QED BY <3>1, <3>2 DEF LaneEnded
  <2>2. blank[x] = {} /\ Delivered(x, "Ballooning")
    BY <1>4, <2>1 DEF PagesFollow
  <2>3. \A t : Covers(x, t)'
    BY <1>2, <2>2 DEF Covers
  <2>4. \A i \in DOMAIN jobs' : ActiveAfter(x, i) => i \in BalloonJobs(x)
    BY <1>1, <1>3 DEF ActiveAfter, BalloonJobs, ActiveJobs, Active, Lane
  <2> QED BY <1>2, <1>4, <1>5, <1>6, <2>2, <2>3, <2>4, PagesFollowPrimed
          DEF PagesFollow, PagesFollowAfter, RequestsStayed
<1>8. CASE jobs[j].part # x \/ Lane(j) # "ballooning"
  <2>1. JobsStay(x)
    BY <1>3, <1>8 DEF JobsStay, ActiveAfter, BalloonJobs, ActiveJobs, Active, Lane
  <2> QED BY <1>2, <1>4, <1>5, <1>6, <2>1, PagesQuietly, PipelineAssumption
<1> QED BY <1>7, <1>8

LEMMA ProcessPages ==
    ASSUME IInv, PagesInv, Crash \/ Connect \/ Reconnect, NEW x \in Parts
    PROVE  PagesFollow(x)'
<1> USE DEF IInv
<1>1. UNCHANGED <<cols, broker, blank, req>> /\ runs' \subseteq runs
  BY DEF Crash, Connect, Reconnect, processVars, outputVars
<1>2. RequeueOrphans(worker') \/ UNCHANGED jobs
  BY DEF Crash, Connect, Reconnect, processVars
<1>3. /\ DOMAIN jobs' = DOMAIN jobs
      /\ \A i \in DOMAIN jobs :
            /\ jobs'[i].part = jobs[i].part /\ jobs'[i].queue = jobs[i].queue
            /\ jobs'[i].scope = jobs[i].scope
            /\ jobs'[i].status \in {"queued", "running"} <=> Active(i)
  <2>1. CASE RequeueOrphans(worker')
    <3>1. ASSUME NEW i \in DOMAIN jobs
          PROVE  /\ jobs'[i].part = jobs[i].part /\ jobs'[i].queue = jobs[i].queue
                 /\ jobs'[i].scope = jobs[i].scope
                 /\ jobs'[i].status \in {"queued", "running"} <=> Active(i)
      <4>1. jobs[i] \in Job
        BY RowFields
      <4> QED BY <2>1, <4>1 DEF RequeueOrphans, Orphans, Active, Job
    <3> QED BY <2>1, <3>1 DEF RequeueOrphans
  <2>2. CASE UNCHANGED jobs
    BY <2>2 DEF Active
  <2> QED BY <1>2, <2>1, <2>2
<1>4. JobsStay(x)
  BY <1>3, RowsInPlace
<1>5. ThreadsStay(x) /\ RequestsStayed(x)
  BY <1>1, <1>3, OldThreads, RequestsUnchanged
<1>6. Delivered(x, "Ballooning") => Delivered(x, "Ballooning")'
  BY <1>1 DEF Delivered
<1> QED BY <1>1, <1>4, <1>5, <1>6, PagesQuietly, PipelineAssumption DEF PagesInv

LEMMA PagesNext ==
    ASSUME OneByOne, IInv, ServedInv, PagesInv, Next
    PROVE  PagesInv'
<1> USE DEF IInv
<1>1. ASSUME NEW r \in Requests, NEW p \in Parts, NEW q \in RerunQueues, NEW s \in Scopes,
             RerunStart(r, p, q, s), NEW x \in Parts
      PROVE  PagesFollow(x)'
  <2>1. Begin(r, [op |-> "rerun", part |-> p, queue |-> q, scope |-> s])
    BY <1>1 DEF RerunStart
  <2>2. q = "Ballooning" => BalloonJobs(p) = {}
    <3>1. ~IsQueued(p, q)
      BY <1>1 DEF RerunStart, OneByOne
    <3>2. q = "Ballooning" => LaneForQueue[q] = "ballooning"
      BY DEF LaneForQueue, QueueNames
    <3> QED BY <3>1, <3>2 DEF IsQueued, BalloonJobs
  <2> QED BY <2>1, <2>2, BeginPages
<1>2. ASSUME NEW r \in Requests, NEW j \in DOMAIN jobs,
             PrioritiseStart(r, j) \/ RequeueStart(r, j), NEW x \in Parts
      PROVE  PagesFollow(x)'
  <2>1. PICK y : Begin(r, y) /\ y.op # "rerun"
    <3>1. ASSUME PrioritiseStart(r, j) PROVE \E y : Begin(r, y) /\ y.op # "rerun"
      <4>1. PICK top : Begin(r, [op |-> "prioritise", job |-> j, top |-> top])
        BY <3>1 DEF PrioritiseStart
      <4> WITNESS [op |-> "prioritise", job |-> j, top |-> top]
      <4> QED BY <4>1
    <3>2. ASSUME RequeueStart(r, j) PROVE \E y : Begin(r, y) /\ y.op # "rerun"
      <4> DEFINE found == ActiveJobs(jobs[j].part, Lane(j)) # {}
      <4>1. Begin(r, [op |-> "requeue", job |-> j, found |-> found])
        BY <3>2 DEF RequeueStart
      <4> WITNESS [op |-> "requeue", job |-> j, found |-> found]
      <4> QED BY <4>1
    <3> QED BY <1>2, <3>1, <3>2
  <2> QED BY <2>1, BeginPages
<1>3. /\ ~Uploads /\ ~Scripts
      /\ \A j \in DOMAIN jobs : ~Reap(j)
      /\ \A r \in Requests : /\ ~RerunAborted(r) /\ ~CancelFinish(r)
                             /\ \A j \in DOMAIN jobs : ~CancelStart(r, j)
  BY DEF OneByOne, ServedInv, Uploads, Upload, UploadAborted, UploadRefused, Scripts,
         ManualRequeue, Supersede, InsertByHand, Reap, RerunAborted, CancelFinish, CancelStart
<1>4. CASE Reruns
  BY <1>1, <1>3, <1>4, RerunFinishPages, RerunRefusedPages DEF Reruns, PagesInv
<1>5. CASE QueuePage
  BY <1>2, <1>3, <1>5, PrioritiseFinishPages, RequeueFinishPages DEF QueuePage, PagesInv
<1>6. CASE Consumer
  BY <1>3, <1>6, ReceivePages, ClaimPages, RunFinishPages, ClosePages, ProcessPages
     DEF Consumer, PagesInv
<1> QED BY <1>3, <1>4, <1>5, <1>6 DEF Next

LEMMA OneByOneUndisturbed == OneByOne => Undisturbed
BY DEF OneByOne, Undisturbed

LEMMA PagesInvariance ==
    ASSUME OneByOne
    PROVE  Spec => [](ServedInv /\ PagesInv)
<1>1. Undisturbed
  BY OneByOneUndisturbed
<1>2. Init => ServedInv /\ PagesInv
  <2>1. Init => ServedInv
    BY <1>1 DEF Undisturbed, Init, ServedInv, Served, Idle
  <2>2. Init => PagesInv
    BY <1>1 DEF Undisturbed, Init, PagesInv, PagesFollow, BalloonJobs, ActiveJobs, Delivered,
       RerunPending, Idle, QueueNames
  <2> QED BY <2>1, <2>2
<1>3. IInv /\ ServedInv /\ PagesInv /\ [Next]_vars => (ServedInv /\ PagesInv)'
  <2>1. CASE UNCHANGED vars
    <3>1. ServedInv => ServedInv'
      BY <2>1 DEF vars, ServedInv, Served, LaneEnded, Lane
    <3>2. PagesInv => PagesInv'
      BY <2>1 DEF vars, PagesInv, PagesFollow, BalloonJobs, ActiveJobs, Active, Delivered,
         RerunPending, Covers, Lane
    <3> QED BY <3>1, <3>2
  <2>2. CASE Next
    BY <1>1, <2>2, ServedNext, PagesNext
  <2> QED BY <2>1, <2>2
<1> QED BY <1>2, <1>3, Invariance, PTL DEF Spec

\* check_page_scoped_rerun.py:118-119: one operator at a time, whatever pages are asked
\* for and whichever run is interrupted and taken up again, a drawing whose ballooning
\* has settled in Completed has no page left that a re-run cleared.
THEOREM EveryClearedPageComesBack ==
    ASSUME OneByOne
    PROVE  Spec => []ClearedPagesComeBack
<1>1. PagesInv => ClearedPagesComeBack
  BY DEF PagesInv, PagesFollow, ClearedPagesComeBack, Completed, Pending, InProgress
<1> QED BY <1>1, PagesInvariance, PTL

-----------------------------------------------------------------------------
(* The scope of the row and the scope of the message. *)

\* Ballooning that is started by the stage before it asks for the whole document; on
\* a drawing of one page that is the page, under another name.
SeveralPages == \A s \in Pages : Pages # {s}

Agree(p) ==
    \A j \in BalloonJobs(p), i \in DOMAIN broker["Ballooning"] :
        broker["Ballooning"][i].part = p => jobs[j].scope = broker["Ballooning"][i].scope

AgreeAfter(p) ==
    \A j \in DOMAIN jobs', i \in DOMAIN broker'["Ballooning"] :
        (ActiveAfter(p, j) /\ broker'["Ballooning"][i].part = p)
            => jobs'[j].scope = broker'["Ballooning"][i].scope

\* The messages for p, and the active rows for it with their scopes, were all there.
MessagesStay(p) ==
    \A k \in DOMAIN broker'["Ballooning"] :
        broker'["Ballooning"][k].part = p =>
            \E i \in DOMAIN broker["Ballooning"] :
                broker["Ballooning"][i] = broker'["Ballooning"][k]

ScopesStay(p) ==
    \A j \in DOMAIN jobs' :
        ActiveAfter(p, j) => j \in BalloonJobs(p) /\ jobs'[j].scope = jobs[j].scope

LEMMA AgreePrimed ==
    ASSUME NEW p, AgreeAfter(p)
    PROVE  Agree(p)'
<1>1. BalloonJobs(p)' = {j \in DOMAIN jobs' : ActiveAfter(p, j)}
  BY DEF BalloonJobs, ActiveJobs, ActiveAfter, Active, Lane
<1> QED BY <1>1 DEF Agree, AgreeAfter

LEMMA AgreeQuietly ==
    ASSUME NEW p, Agree(p), MessagesStay(p), ScopesStay(p)
    PROVE  Agree(p)'
BY AgreePrimed DEF Agree, AgreeAfter, MessagesStay, ScopesStay

LEMMA NoMessageAgrees ==
    ASSUME NEW p, Delivered(p, "Ballooning")'
    PROVE  Agree(p)'
BY DEF Agree, Delivered

LEMMA PublishedMessages ==
    ASSUME TypeOK, NEW q \in QueueNames, NEW p, NEW s, Publish(q, p, s),
           NEW i \in DOMAIN broker'["Ballooning"]
    PROVE  \/ \E k \in DOMAIN broker["Ballooning"] :
                 broker["Ballooning"][k] = broker'["Ballooning"][i]
           \/ /\ q = "Ballooning"
              /\ broker'["Ballooning"][i].part = p /\ broker'["Ballooning"][i].scope = s
<1> DEFINE m == [part |-> p, scope |-> s]
<1>1. broker \in [QueueNames -> Seq(Message)] /\ m.part = p /\ m.scope = s
  BY DEF TypeOK
<1>2. broker' = [broker EXCEPT ![q] = Append(broker[q], m)]
  BY DEF Publish
<1> HIDE DEF m
<1>3. CASE q = "Ballooning"
  <2>1. broker["Ballooning"] \in Seq(Message)
    BY <1>1 DEF QueueNames
  <2>2. broker'["Ballooning"] = Append(broker["Ballooning"], m)
    BY <1>1, <1>2, <1>3
  <2>3. \/ i \in DOMAIN broker["Ballooning"]
           /\ broker'["Ballooning"][i] = broker["Ballooning"][i]
        \/ broker'["Ballooning"][i] = m
    BY <2>1, <2>2
  <2> QED BY <1>1, <1>3, <2>3
<1>4. CASE q # "Ballooning"
  <2>1. broker'["Ballooning"] = broker["Ballooning"]
    BY <1>1, <1>2, <1>4 DEF QueueNames
  <2> QED BY <2>1
<1> QED BY <1>3, <1>4

LEMMA ScopesInPlace ==
    ASSUME DOMAIN jobs' = DOMAIN jobs, NEW p,
           \A j \in DOMAIN jobs :
              /\ jobs'[j].part = jobs[j].part /\ jobs'[j].queue = jobs[j].queue
              /\ jobs'[j].scope = jobs[j].scope
              /\ jobs'[j].status \in {"queued", "running"} => Active(j)
    PROVE  ScopesStay(p)
BY DEF ScopesStay, ActiveAfter, BalloonJobs, ActiveJobs, Active, Lane

LEMMA InsertScopes ==
    ASSUME TypeOK, NEW p, NEW q, NEW s, NEW prio, Insert(p, q, s, prio),
           NEW x, x # p \/ LaneForQueue[q] # "ballooning"
    PROVE  ScopesStay(x)
<1>1. NewJob(p, q, s, prio).part = p /\ NewJob(p, q, s, prio).queue = q
  BY DEF NewJob
<1>2. /\ DOMAIN jobs' = DOMAIN jobs \cup {Len(jobs) + 1}
      /\ \A j \in DOMAIN jobs : jobs'[j] = jobs[j]
      /\ jobs'[Len(jobs) + 1] = NewJob(p, q, s, prio)
  BY InsertKeeps DEF TypeOK
<1> QED BY <1>1, <1>2 DEF ScopesStay, ActiveAfter, BalloonJobs, ActiveJobs, Active, Lane

\* A step that leaves the messages alone, and the scopes of the active rows.
LEMMA SilentAgree ==
    ASSUME NEW p, Agree(p), UNCHANGED broker, ScopesStay(p)
    PROVE  Agree(p)'
BY AgreeQuietly DEF MessagesStay

LEMMA RerunFinishAgrees ==
    ASSUME OneByOne, IInv, PagesInv, NEW r \in Requests, RerunFinish(r),
           NEW x \in Parts, Agree(x)
    PROVE  Agree(x)'
<1> USE DEF IInv
<1>1. PICK p \in Parts, q \in QueueNames, s \in Scopes :
        req[r].part = p /\ req[r].queue = q /\ req[r].scope = s
  BY RequestFields DEF RerunFinish
<1>2. Enqueue(p, q, s) /\ Publish(q, p, s)
  BY <1>1 DEF RerunFinish
<1>3. CASE x = p /\ q = "Ballooning"
  <2>1. RerunPending(p)
    BY <1>1, <1>3 DEF RerunFinish, RerunPending
  <2>2. BalloonJobs(p) = {} /\ Delivered(p, "Ballooning")
    BY <2>1 DEF PagesInv, PagesFollow
  <2>3. Insert(p, q, s, DefaultPriority)
    BY <1>1, <1>2, <1>3, <2>2, OwnLane DEF Enqueue, BalloonJobs, OneByOne
  <2>4. /\ DOMAIN jobs' = DOMAIN jobs \cup {Len(jobs) + 1}
        /\ \A j \in DOMAIN jobs : jobs'[j] = jobs[j]
        /\ jobs'[Len(jobs) + 1].scope = s
    <3>1. NewJob(p, q, s, DefaultPriority).scope = s
      BY DEF NewJob
    <3>2. /\ DOMAIN jobs' = DOMAIN jobs \cup {Len(jobs) + 1}
          /\ \A j \in DOMAIN jobs : jobs'[j] = jobs[j]
          /\ jobs'[Len(jobs) + 1] = NewJob(p, q, s, DefaultPriority)
      BY <2>3, InsertKeeps DEF TypeOK
    <3> QED BY <3>1, <3>2
  <2>5. \A j \in DOMAIN jobs' : ActiveAfter(p, j) => jobs'[j].scope = s
    BY <2>2, <2>4 DEF ActiveAfter, BalloonJobs, ActiveJobs, Active, Lane
  <2>6. \A i \in DOMAIN broker'["Ballooning"] :
          broker'["Ballooning"][i].part = p => broker'["Ballooning"][i].scope = s
    BY <1>1, <1>2, <2>2, PublishedMessages DEF Delivered
  <2> QED BY <1>3, <2>5, <2>6, AgreePrimed DEF AgreeAfter
<1>4. CASE x # p \/ q # "Ballooning"
  <2>1. MessagesStay(x)
    BY <1>1, <1>2, <1>4, PublishedMessages DEF MessagesStay
  <2>2. ScopesStay(x)
    <3>1. CASE Insert(p, q, s, DefaultPriority)
      BY <1>1, <1>4, <3>1, OwnLane, InsertScopes
    <3>2. CASE UNCHANGED jobs
      BY <3>2, ScopesInPlace DEF Active
    <3> QED BY <1>2, <3>1, <3>2 DEF Enqueue
  <2> QED BY <2>1, <2>2, AgreeQuietly
<1> QED BY <1>3, <1>4

LEMMA RequeueFinishAgrees ==
    ASSUME IInv, PagesInv, NEW r \in Requests, RequeueFinish(r), NEW x \in Parts, Agree(x)
    PROVE  Agree(x)'
<1> USE DEF IInv
<1> DEFINE j == req[r].job
<1>1. PICK p \in Parts, q \in QueueNames : jobs[j].part = p /\ jobs[j].queue = q
  BY RowFields DEF RequeueFinish, RequestsOK
<1>2. UNCHANGED broker /\ (UNCHANGED jobs \/ Insert(p, q, Whole, DefaultPriority))
  BY <1>1 DEF RequeueFinish
<1> HIDE DEF j
<1>3. CASE UNCHANGED jobs
  BY <1>2, <1>3, ScopesInPlace, SilentAgree DEF Active
<1>4. CASE Insert(p, q, Whole, DefaultPriority)
  <2>1. CASE x = p /\ q = "Ballooning"
    <3>1. BalloonJobs(x) = {}
      BY <1>4, <2>1, OwnLane DEF Insert, BalloonJobs
    <3>2. Delivered(x, "Ballooning")
      BY <3>1 DEF PagesInv, PagesFollow
    <3> QED BY <1>2, <3>2, NoMessageAgrees DEF Delivered
  <2>2. CASE x # p \/ q # "Ballooning"
    BY <1>1, <1>2, <1>4, <2>2, OwnLane, InsertScopes, SilentAgree
  <2> QED BY <2>1, <2>2
<1> QED BY <1>2, <1>3, <1>4

\* The message that joins a row has its scope, which therefore does not grow.
LEMMA ReceiveAgrees ==
    ASSUME IInv, PagesInv, NEW q \in QueueNames, Receive(q), NEW x \in Parts, Agree(x)
    PROVE  Agree(x)'
<1> USE DEF IInv
<1>1. /\ broker \in [QueueNames -> Seq(Message)] /\ broker[q] \in Seq(Message)
      /\ broker[q] # << >> /\ "Ballooning" \in QueueNames
  BY DEF TypeOK, Receive, QueueNames
<1>2. MessagesStay(x)
  <2>1. CASE UNCHANGED broker
    BY <2>1 DEF MessagesStay
  <2>2. CASE broker' = [broker EXCEPT ![q] = Tail(broker[q])]
    <3>1. broker'["Ballooning"] = IF q = "Ballooning" THEN Tail(broker[q])
                                  ELSE broker["Ballooning"]
      BY <1>1, <2>2
    <3>2. \A i \in DOMAIN Tail(broker[q]) :
             i + 1 \in DOMAIN broker[q] /\ Tail(broker[q])[i] = broker[q][i + 1]
      BY <1>1
    <3> QED BY <3>1, <3>2 DEF MessagesStay
  <2> QED BY <2>1, <2>2 DEF Receive
<1>3. PICK m \in Message : m = Head(broker[q]) /\ m = broker[q][1] /\ 1 \in DOMAIN broker[q]
                           /\ ~Delivered(m.part, q)
  BY ReceivedWasWaiting
<1>4. JobsStay(x)
  BY ReceiveJobs
<1>5. CASE Insert(m.part, q, m.scope, DefaultPriority)
  <2>1. x # m.part \/ q # "Ballooning"
    <3>1. ASSUME q = "Ballooning" PROVE BalloonJobs(m.part) # {}
      BY <1>3, <3>1 DEF PagesInv, PagesFollow, Message
    <3>2. ActiveJobs(m.part, LaneForQueue[q]) = {}
      BY <1>5 DEF Insert
    <3> QED BY <3>1, <3>2, OwnLane DEF BalloonJobs
  <2> QED BY <1>2, <1>5, <2>1, OwnLane, InsertScopes, AgreeQuietly
<1>6. CASE jobs' = [j \in DOMAIN jobs |->
                      IF j \in ActiveJobs(m.part, LaneForQueue[q])
                      THEN [jobs[j] EXCEPT !.scope = Widen(@, m.scope)] ELSE jobs[j]]
  <2>1. ASSUME NEW j \in DOMAIN jobs', ActiveAfter(x, j)
        PROVE  j \in BalloonJobs(x) /\ jobs'[j].scope = jobs[j].scope
    <3>1. j \in BalloonJobs(x) /\ j \in DOMAIN jobs
      BY <1>4, <1>6, <2>1 DEF JobsStay
    <3>2. jobs[j] \in Job
      BY <3>1, RowFields
    <3>3. CASE j \in ActiveJobs(m.part, LaneForQueue[q])
      <4>1. m.part = x /\ q = "Ballooning"
        BY <3>1, <3>3, OwnLane DEF BalloonJobs, ActiveJobs
      <4>2. jobs[j].scope = m.scope
        BY <1>3, <3>1, <4>1 DEF Agree
      <4>3. jobs'[j].scope = Widen(jobs[j].scope, m.scope)
        BY <1>6, <3>1, <3>2, <3>3 DEF Job
      <4> QED BY <3>1, <4>2, <4>3 DEF Widen
    <3>4. CASE j \notin ActiveJobs(m.part, LaneForQueue[q])
      BY <1>6, <3>1, <3>4
    <3> QED BY <3>3, <3>4
  <2> QED BY <1>2, <2>1, AgreeQuietly DEF ScopesStay
<1> QED BY <1>3, <1>5, <1>6 DEF Receive

LEMMA RunFinishAgrees ==
    ASSUME SeveralPages, OneByOne, IInv, ServedInv, PagesInv,
           NEW run \in runs, RunFinish(run), NEW x \in Parts, Agree(x)
    PROVE  Agree(x)'
<1> USE DEF IInv
<1>1. PICK p \in Parts, l \in Lanes : jobs[run.job].part = p /\ Lane(run.job) = l
  BY ThreadAlone
<1>2. UNCHANGED jobs /\ HandOff(p, l, TRUE)
  BY <1>1 DEF RunFinish, OneByOne
<1>3. ScopesStay(x)
  BY <1>2, ScopesInPlace DEF Active
<1>4. \/ UNCHANGED broker
      \/ Publish("Costing", p, Whole)
      \/ Publish("Ballooning", p, Whole) /\ blank[p] = Pages
  <2>1. PICK ok \in BOOLEAN : HandOff(p, l, ok)
    BY <1>2
  <2> QED BY <1>1, <2>1, HandOffColumns
<1>5. CASE UNCHANGED broker
  BY <1>3, <1>5, SilentAgree
<1>6. CASE Publish("Costing", p, Whole)
  <2>1. MessagesStay(x)
    BY <1>6, PublishedMessages DEF MessagesStay, QueueNames
  <2> QED BY <1>3, <2>1, AgreeQuietly
<1>7. CASE Publish("Ballooning", p, Whole) /\ blank[p] = Pages /\ x = p
  <2>1. blank[x] = Pages /\ Pages # {}
    BY <1>7 DEF OneByOne
  <2>2. ASSUME NEW j \in BalloonJobs(x) PROVE jobs[j].scope = Whole
    <3>1. jobs[j].scope \in Scopes
      BY RowFields DEF BalloonJobs, ActiveJobs
    <3>2. Covers(x, jobs[j].scope)
      BY DEF PagesInv, PagesFollow
    <3> QED BY <2>1, <3>1, <3>2 DEF Covers, Scopes, SeveralPages
  <2>3. \A j \in DOMAIN jobs' : ActiveAfter(x, j) => j \in BalloonJobs(x) /\ jobs'[j].scope = Whole
    BY <1>3, <2>2 DEF ScopesStay
  <2>4. ASSUME NEW i \in DOMAIN broker'["Ballooning"], broker'["Ballooning"][i].part = x,
               NEW j \in BalloonJobs(x)
        PROVE  broker'["Ballooning"][i].scope = Whole
    BY <1>7, <2>2, <2>4, PublishedMessages DEF QueueNames, Agree
  <2> QED BY <2>3, <2>4, AgreePrimed DEF AgreeAfter
<1>8. CASE Publish("Ballooning", p, Whole) /\ x # p
  <2>1. MessagesStay(x)
    BY <1>8, PublishedMessages DEF MessagesStay, QueueNames
  <2> QED BY <1>3, <2>1, AgreeQuietly
<1> QED BY <1>4, <1>5, <1>6, <1>7, <1>8

LEMMA AgreeNext ==
    ASSUME SeveralPages, OneByOne, IInv, ServedInv, PagesInv, Next, NEW x \in Parts, Agree(x)
    PROVE  Agree(x)'
<1> USE DEF IInv
<1>1. ASSUME NEW r \in Requests, NEW y, Begin(r, y) PROVE Agree(x)'
  BY <1>1, ScopesInPlace, SilentAgree DEF Begin, Active
<1>1a. ASSUME NEW r \in Requests, RerunRefused(r) PROVE Agree(x)'
  BY <1>1a, ScopesInPlace, SilentAgree DEF RerunRefused, Active
<1>2. ASSUME NEW r \in Requests, PrioritiseFinish(r) PROVE Agree(x)'
  <2>1. ASSUME NEW j \in DOMAIN jobs
        PROVE  /\ jobs'[j].part = jobs[j].part /\ jobs'[j].queue = jobs[j].queue
               /\ jobs'[j].scope = jobs[j].scope /\ jobs'[j].status = jobs[j].status
    <3>1. jobs[j] \in Job
      BY RowFields
    <3> QED BY <1>2, <3>1 DEF PrioritiseFinish, Job
  <2>2. DOMAIN jobs' = DOMAIN jobs /\ UNCHANGED broker
    BY <1>2 DEF PrioritiseFinish
  <2> QED BY <2>1, <2>2, ScopesInPlace, SilentAgree DEF Active
<1>3. ASSUME NEW l \in Lanes, Claim(l) PROVE Agree(x)'
  <2>1. PICK j \in QueuedIn(l) :
          jobs' = [jobs EXCEPT ![j].status = "running", ![j].attempt = @ + 1,
                               ![j].worker = worker]
    BY <1>3 DEF Claim
  <2>2. j \in DOMAIN jobs /\ jobs[j] \in Job /\ jobs[j].status = "queued"
    BY RowFields DEF QueuedIn
  <2>3. /\ DOMAIN jobs' = DOMAIN jobs
        /\ \A i \in DOMAIN jobs \ {j} : jobs'[i] = jobs[i]
        /\ jobs'[j].part = jobs[j].part /\ jobs'[j].queue = jobs[j].queue
        /\ jobs'[j].scope = jobs[j].scope
    BY <2>1, <2>2 DEF Job
  <2> QED BY <1>3, <2>2, <2>3, ScopesInPlace, SilentAgree DEF Claim, Active
<1>4. ASSUME NEW j \in DOMAIN jobs, Close(j) PROVE Agree(x)'
  <2>1. PICK s \in {"failed", "completed"} :
          jobs' = [jobs EXCEPT ![j] = [jobs[j] EXCEPT !.status = s]]
    BY <1>4 DEF Close, SetStatus
  <2>2. jobs[j] \in Job
    BY RowFields
  <2>3. /\ DOMAIN jobs' = DOMAIN jobs
        /\ \A i \in DOMAIN jobs \ {j} : jobs'[i] = jobs[i]
        /\ jobs'[j].part = jobs[j].part /\ jobs'[j].queue = jobs[j].queue
        /\ jobs'[j].scope = jobs[j].scope
    BY <2>1, <2>2 DEF Job
  <2> QED BY <1>4, <2>3, ScopesInPlace, SilentAgree DEF Close, Active
<1>5. ASSUME Crash \/ Connect \/ Reconnect PROVE Agree(x)'
  <2>1. UNCHANGED broker /\ (RequeueOrphans(worker') \/ UNCHANGED jobs)
    BY <1>5 DEF Crash, Connect, Reconnect, processVars
  <2>2. ASSUME RequeueOrphans(worker'), NEW i \in DOMAIN jobs
        PROVE  /\ jobs'[i].part = jobs[i].part /\ jobs'[i].queue = jobs[i].queue
               /\ jobs'[i].scope = jobs[i].scope
               /\ jobs'[i].status \in {"queued", "running"} => Active(i)
    <3>1. jobs[i] \in Job
      BY RowFields
    <3> QED BY <2>2, <3>1 DEF RequeueOrphans, Orphans, Active, Job
  <2>3. CASE RequeueOrphans(worker')
    <3>1. DOMAIN jobs' = DOMAIN jobs
      BY <2>3 DEF RequeueOrphans
    <3> QED BY <2>1, <2>2, <2>3, <3>1, ScopesInPlace, SilentAgree
  <2>4. CASE UNCHANGED jobs
    BY <2>1, <2>4, ScopesInPlace, SilentAgree DEF Active
  <2> QED BY <2>1, <2>3, <2>4
<1>6. /\ ~Uploads /\ ~Scripts
      /\ \A j \in DOMAIN jobs : ~Reap(j)
      /\ \A r \in Requests : /\ ~RerunAborted(r) /\ ~CancelFinish(r)
                             /\ \A j \in DOMAIN jobs : ~CancelStart(r, j)
  BY DEF OneByOne, ServedInv, Uploads, Upload, UploadAborted, UploadRefused, Scripts,
         ManualRequeue, Supersede, InsertByHand, Reap, RerunAborted, CancelFinish, CancelStart
<1>7. CASE Reruns
  BY <1>1, <1>1a, <1>6, <1>7, RerunFinishAgrees DEF Reruns, RerunStart
<1>8. CASE QueuePage
  BY <1>1, <1>2, <1>6, <1>8, RequeueFinishAgrees DEF QueuePage, PrioritiseStart, RequeueStart
<1>9. CASE Consumer
  BY <1>3, <1>4, <1>5, <1>6, <1>9, ReceiveAgrees, RunFinishAgrees DEF Consumer
<1> QED BY <1>6, <1>7, <1>8, <1>9 DEF Next

\* CostingPartsEndpoint.cs:137-140: on drawings of more than one page, the scope in the
\* queue row and the scope in the message agree as long as both are there, although
\* the stage before ballooning sends a message of its own, messages are handed over
\* twice, and a retry queues the whole document.
THEOREM RowAgreesWithItsMessage ==
    ASSUME OneByOne, SeveralPages
    PROVE  Spec => []RowAgreesWithMessage
<1> DEFINE AgreeInv == \A p \in Parts : Agree(p)
<1>1. Init => AgreeInv
  BY DEF Init, Agree, BalloonJobs, ActiveJobs, QueueNames
<1>2. IInv /\ ServedInv /\ PagesInv /\ AgreeInv /\ [Next]_vars => AgreeInv'
  <2>1. CASE UNCHANGED vars
    BY <2>1 DEF vars, Agree, BalloonJobs, ActiveJobs, Active, Lane
  <2>2. CASE Next
    BY <2>2, AgreeNext
  <2> QED BY <2>1, <2>2
<1>3. AgreeInv => RowAgreesWithMessage
  BY DEF Agree, BalloonJobs, RowAgreesWithMessage
<1> HIDE DEF AgreeInv
<1> QED BY <1>1, <1>2, <1>3, Invariance, PagesInvariance, PTL DEF Spec
=============================================================================
