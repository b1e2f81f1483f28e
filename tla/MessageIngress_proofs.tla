------------------------ MODULE MessageIngress_proofs ------------------------
(***************************************************************************)
(* Proofs about the ingress, for any number of messages, callback threads, *)
(* workers and restarts, and any page size.                                *)
(***************************************************************************)
EXTENDS MessageIngress, FiniteSetTheorems, SequenceTheorems, TLAPS

(* The shapes of the records that routers, the scanner and workers keep.    *)
Job    == [at : {"idle", "load", "truncate", "write", "handle"},
           msg : Messages \cup {None}, snap : SUBSET Keys]
ScanState == [at : {"idle", "batch", "saving", "dead"},
              batch : Seq(Messages), newest : Messages \cup {None}]
WorkerState == [at : {"idle", "mark", "reply", "close", "dead"}, task : Nat, ok : BOOLEAN]
Task   == [msg : Chats, status : {"pending", "running", "done", "failed"}, created : 1 .. MaxSeconds]

(* IngressTypeOK, with the shapes, and with what keeps the bridge's own     *)
(* replies away from the callback server.                                   *)
Shapes ==
    /\ job \in [Routers -> Job]
    /\ scan \in ScanState
    /\ worker \in [Workers -> WorkerState]
    /\ calls \in [Messages -> Nat]
    /\ \A m \in Echoes : calls[m] = 0

TypeInv == IngressTypeOK /\ Shapes

(* A sequence that grows by one element.                                    *)
LEMMA Appended ==
    ASSUME NEW S, NEW s \in Seq(S), NEW x \in S
    PROVE  /\ Append(s, x) \in Seq(S) /\ Range(Append(s, x)) = Range(s) \cup {x}
           /\ DOMAIN s \subseteq DOMAIN Append(s, x)
<1>1. DOMAIN s = 1 .. Len(s) /\ DOMAIN Append(s, x) = 1 .. Len(s) + 1
  BY AppendProperties
<1>2. /\ \A i \in 1 .. Len(s) : Append(s, x)[i] = s[i]
      /\ Append(s, x)[Len(s) + 1] = x
  BY AppendProperties
<1>3. Len(s) + 1 \in 1 .. Len(s) + 1 /\ \A i \in 1 .. Len(s) + 1 : i \in 1 .. Len(s) \/ i = Len(s) + 1
  OBVIOUS
<1> QED
  BY <1>1, <1>2, <1>3, AppendProperties DEF Range

(* A page of the group, and the part of it after the watermark, are         *)
(* messages of the group.                                                   *)
LEMMA UnseenTyped ==
    ASSUME group \in Seq(Messages), NEW mark
    PROVE  Unseen(Page, mark) \in Seq(Messages) /\ Page \in Seq(Messages)
<1>1. Page \in Seq(Messages)
  <2> DEFINE first == IF Len(group) > PageSize THEN Len(group) - PageSize + 1 ELSE 1
  <2>1. first \in Int /\ first >= 1
    BY IngressAssumption
  <2>2. \A i \in first .. Len(group) : group[i] \in Messages
    BY <2>1
  <2>3. SubSeq(group, first, Len(group)) \in Seq(Messages)
    BY <2>1, <2>2, SubSeqProperties
  <2> QED
    BY <2>3 DEF Page
<1>2. ASSUME mark \in Range(Page)
      PROVE  Unseen(Page, mark) \in Seq(Messages)
  <2> DEFINE i == CHOOSE k \in DOMAIN Page : Page[k] = mark
  <2>1. i \in DOMAIN Page
    BY <1>2 DEF Range
  <2>2. i \in 1 .. Len(Page)
    BY <1>1, <2>1
  <2> HIDE DEF i
  <2>3. \A k \in 1 + i .. Len(Page) : Page[k] \in Messages
    BY <1>1, <2>2, ElementOfSeq
  <2>4. SubSeq(Page, 1 + i, Len(Page)) \in Seq(Messages)
    BY <1>1, <2>2, <2>3, SubSeqProperties
  <2> QED
    BY <1>2, <2>4 DEF Unseen, i
<1> QED
  BY <1>1, <1>2 DEF Unseen

(* The idle states, and those of threads that are dead, have their shapes.  *)
LEMMA IdleTyped ==
    /\ IdleJob \in Job /\ IdleJob.at = "idle" /\ IdleJob.snap = {}
    /\ IdleScan \in ScanState /\ IdleScan.at = "idle"
    /\ DeadScan \in ScanState /\ DeadScan.at = "dead"
    /\ IdleWorker \in WorkerState /\ IdleWorker.at = "idle"
    /\ DeadWorker \in WorkerState /\ DeadWorker.at = "dead"
<1>2. /\ IdleScan \in ScanState /\ IdleScan.at = "idle"
      /\ DeadScan \in ScanState /\ DeadScan.at = "dead"
  BY EmptySeq DEF IdleScan, DeadScan, ScanState
<1>3. IdleJob \in Job /\ IdleJob.at = "idle" /\ IdleJob.snap = {}
  BY DEF IdleJob, Job
<1>4. /\ IdleWorker \in WorkerState /\ IdleWorker.at = "idle"
      /\ DeadWorker \in WorkerState /\ DeadWorker.at = "dead"
  BY DEF IdleWorker, DeadWorker, WorkerState
<1> QED
  BY <1>2, <1>3, <1>4

(* How an exception in a router leaves the scanner.                         *)
LEMMA EndingTyped == ASSUME TypeInv, NEW r PROVE Ending(r) \in ScanState
BY IdleTyped DEF TypeInv, Shapes, Ending

-----------------------------------------------------------------------------
(* Typing: one lemma for the clock, which the others use, and one for each  *)
(* program of the ingress.                                                  *)

(* A router that has read the second is about to queue its task.            *)
LEMMA ClockTyped == ASSUME TypeInv, [Next]_vars PROVE ClockTypeOK'
<1>0. /\ now \in 1 .. MaxSeconds /\ MaxSeconds \in Nat
      /\ stamp \in [Routers -> 0 .. MaxSeconds] /\ job \in [Routers -> Job]
      /\ \A r \in Routers : stamp[r] <= now /\ (stamp[r] # 0 => job[r].at = "handle")
  BY IngressAssumption DEF TypeInv, IngressTypeOK, ClockTypeOK, Shapes
<1>1. ASSUME UNCHANGED clock,
             \A r \in Routers : job[r].at = "handle" => job'[r].at = "handle"
      PROVE  ClockTypeOK'
  BY <1>0, <1>1 DEF ClockTypeOK, clock
<1>2. CASE \/ (\E m \in Messages : Post(m)) \/ Fetch \/ TruncateWatermark \/ SaveWatermark \/ ScanRaises
           \/ (\E w \in Workers : Work(w) \/ WorkerRaises(w)) \/ UNCHANGED vars
  <2>1. UNCHANGED <<job, clock>>
    BY <1>2 DEF Post, Fetch, TruncateWatermark, SaveWatermark, ScanRaises, Work, FetchNextPending,
       MarkRunning, ProcessChatTask, CloseTask, WorkerRaises, vars
  <2> QED
    BY <1>1, <2>1
<1>3. ASSUME NEW t \in Threads, NEW m \in Messages, Receive(t, m) PROVE ClockTypeOK'
  <2>1. \A r \in Routers : job[r].at = "handle" => job'[r].at = "handle"
    BY <1>0, <1>3 DEF Receive
  <2> QED
    BY <1>1, <1>3, <2>1 DEF Receive
<1>4. CASE NextItem
  <2>1. \A r \in Routers : job[r].at = "handle" => job'[r].at = "handle"
    BY <1>0, <1>4 DEF NextItem
  <2> QED
    BY <1>1, <1>4, <2>1 DEF NextItem
<1>5. ASSUME NEW q \in Routers, LoadDedupeState(q) \/ TruncateDedupeState(q) \/ MarkProcessed(q)
      PROVE  ClockTypeOK'
  <2>1. \A r \in Routers : job[r].at = "handle" => job'[r].at = "handle"
    BY <1>0, <1>5 DEF LoadDedupeState, TruncateDedupeState, MarkProcessed
  <2>2. UNCHANGED clock
    BY <1>5 DEF LoadDedupeState, TruncateDedupeState, MarkProcessed
  <2> QED
    BY <1>1, <2>1, <2>2
<1>6. ASSUME NEW q \in Routers, StampTask(q) PROVE ClockTypeOK'
  <2>1. stamp' = [stamp EXCEPT ![q] = now] /\ UNCHANGED <<job, now>> /\ job[q].at = "handle"
    BY <1>6 DEF StampTask
  <2> QED
    BY <1>0, <2>1 DEF ClockTypeOK
<1>7. ASSUME NEW q \in Routers, RunLane(q) \/ RouteRaises(q) PROVE ClockTypeOK'
  <2>1. /\ stamp' = [stamp EXCEPT ![q] = 0] /\ job' = [job EXCEPT ![q] = IdleJob]
        /\ UNCHANGED now
    BY <1>7 DEF RunLane, RouteRaises
  <2> QED
    BY <1>0, <2>1 DEF ClockTypeOK
<1>8. CASE Restart
  <2>1. stamp' = [r \in Routers |-> 0] /\ UNCHANGED now
    BY <1>8 DEF Restart
  <2> QED
    BY <1>0, <2>1 DEF ClockTypeOK
<1>9. CASE Tick
  <2>1. now < MaxSeconds /\ now' = now + 1 /\ UNCHANGED <<job, stamp>>
    BY <1>9 DEF Tick
  <2> QED
    BY <1>0, <2>1 DEF ClockTypeOK
<1> QED
  BY <1>2, <1>3, <1>4, <1>5, <1>6, <1>7, <1>8, <1>9 DEF Next, Scan, Route

(* The group and the callback server.                                       *)
LEMMA FeishuTyped ==
    ASSUME TypeInv, ClockTypeOK',
           \/ \E m \in Messages : Post(m)
           \/ \E t \in Threads, m \in Messages : Receive(t, m)
    PROVE  TypeInv'
<1> USE DEF TypeInv, IngressTypeOK, Shapes
<1>1. ASSUME NEW m \in Messages, Post(m) PROVE TypeInv'
  <2>1. PICK n \in 0 .. (IF deployment = "polling" \/ m \in Echoes THEN 0 ELSE MaxCalls[m]) :
           calls' = [calls EXCEPT ![m] = n]
    BY <1>1 DEF Post
  <2>2. MaxCalls[m] \in Nat
    BY IngressAssumption
  <2>3. n \in 0 .. MaxCalls[m] /\ (m \in Echoes => n = 0) /\ n \in Nat
    BY <2>1, <2>2
  <2>4. group' \in Seq(Messages)
    BY <1>1 DEF Post
  <2>5. UNCHANGED <<deployment, processed, job, scan, watermark, handled, cut,
                    tasks, worker, answers, restarts>>
    BY <1>1 DEF Post
  <2> QED
    BY <2>1, <2>3, <2>4, <2>5
<1>2. ASSUME NEW t \in Threads, NEW m \in Messages, Receive(t, m) PROVE TypeInv'
  <2>0. calls[m] \in Nat /\ calls[m] > 0 /\ calls[m] \in 0 .. MaxCalls[m] /\ MaxCalls[m] \in Nat
    BY <1>2, IngressAssumption DEF Receive
  <2>1. t \in Routers /\ m \notin Echoes /\ calls[m] - 1 \in 0 .. MaxCalls[m]
    BY <2>0 DEF Routers
  <2> DEFINE new == [at |-> "load", msg |-> m, snap |-> {}]
  <2>2. job' = [job EXCEPT ![t] = new]
    BY <1>2 DEF Receive
  <2>3. new \in Job
    BY DEF Job
  <2>4. calls' = [calls EXCEPT ![m] = calls[m] - 1]
    BY <1>2 DEF Receive
  <2>5. UNCHANGED <<deployment, group, processed, scan, watermark, handled, cut,
                    tasks, worker, answers, restarts>>
    BY <1>2 DEF Receive
  <2> QED
    BY <2>1, <2>2, <2>3, <2>4, <2>5
<1> QED
  BY <1>1, <1>2

(* The scanner.                                                             *)
LEMMA ScanTyped == ASSUME TypeInv, ClockTypeOK', Scan \/ ScanRaises PROVE TypeInv'
<1> USE DEF TypeInv, IngressTypeOK, Shapes
<1>0. scan' \in ScanState /\ watermark' \in Messages \cup {None, Torn}
  <2>1. CASE Fetch
    <3>1. CASE watermark = Torn
      BY <2>1, <3>1, IdleTyped DEF Fetch
    <3>2. CASE watermark # Torn
      <4>1. Page # <<>> => Last(Page) \in Messages
        <5>1. Page \in Seq(Messages)
          BY UnseenTyped
        <5>2. Page # <<>> => Len(Page) \in 1 .. Len(Page)
          BY <5>1, EmptySeq
        <5> QED
          BY <5>1, <5>2, ElementOfSeq DEF Last
      <4> DEFINE newest == IF Page = <<>> THEN watermark ELSE Last(Page)
      <4>2. newest \in Messages \cup {None}
        BY <3>2, <4>1
      <4>3. scan' = [at |-> "batch", batch |-> Unseen(Page, watermark), newest |-> newest]
        BY <2>1, <3>2 DEF Fetch
      <4>4. Unseen(Page, watermark) \in Seq(Messages)
        BY UnseenTyped
      <4> QED
        BY <2>1, <4>2, <4>3, <4>4 DEF Fetch, ScanState
    <3> QED
      BY <3>1, <3>2
  <2>2. CASE ScanRaises
    BY <2>2, IdleTyped DEF ScanRaises
  <2>3. CASE NextItem
    <3>1. Tail(scan.batch) \in Seq(Messages)
      BY <2>3, HeadTailProperties DEF NextItem
    <3>2. scan' = [scan EXCEPT !.batch = Tail(scan.batch)] /\ UNCHANGED watermark
      BY <2>3 DEF NextItem
    <3> QED
      BY <3>1, <3>2 DEF ScanState
  <2>4. CASE TruncateWatermark
    BY <2>4 DEF TruncateWatermark, ScanState
  <2>5. CASE SaveWatermark
    BY <2>5, IdleTyped DEF SaveWatermark, ScanState
  <2> QED
    BY <2>1, <2>2, <2>3, <2>4, <2>5 DEF Scan
<1>1. \/ UNCHANGED job
      \/ \E m \in Messages \ Echoes :
           job' = [job EXCEPT ![Poller] = [at |-> "load", msg |-> m, snap |-> {}]]
  <2>1. CASE NextItem
    <3>1. Head(scan.batch) \in Messages
      BY <2>1, HeadTailProperties DEF NextItem
    <3> QED
      BY <2>1, <3>1 DEF NextItem
  <2> QED
    BY <2>1 DEF Scan, Fetch, ScanRaises, TruncateWatermark, SaveWatermark
<1>2. UNCHANGED <<deployment, group, calls, processed, handled, cut, tasks, worker,
                  answers, restarts>>
  BY DEF Scan, Fetch, ScanRaises, NextItem, TruncateWatermark, SaveWatermark
<1>3. CASE UNCHANGED job
  BY <1>0, <1>2, <1>3 DEF ScanState
<1>4. ASSUME NEW m \in Messages \ Echoes,
             job' = [job EXCEPT ![Poller] = [at |-> "load", msg |-> m, snap |-> {}]]
      PROVE  TypeInv'
  <2>1. Poller \in Routers /\ [at |-> "load", msg |-> m, snap |-> {}] \in Job
    BY DEF Routers, Job
  <2> QED
    BY <1>0, <1>2, <1>4, <2>1 DEF ScanState
<1> QED
  BY <1>1, <1>3, <1>4

(* The router.                                                              *)
LEMMA RouteTyped ==
    ASSUME TypeInv, ClockTypeOK', NEW r \in Routers, Route(r) \/ RouteRaises(r)
    PROVE  TypeInv'
<1> USE DEF TypeInv, IngressTypeOK, Shapes
<1>0. job[r] \in Job
  OBVIOUS
<1>1. CASE LoadDedupeState(r)
  <2>1. scan' \in ScanState
    BY <1>1, EndingTyped DEF LoadDedupeState
  <2>2. PICK new \in Job :
          /\ job' = [job EXCEPT ![r] = new]
          /\ new.at = "idle" => new = IdleJob
          /\ new.at # "idle" => new.msg = job[r].msg
    <3>2. CASE job' = [job EXCEPT ![r] = IdleJob]
      BY <3>2, IdleTyped
    <3>3. CASE processed # Torn /\ job' = [job EXCEPT ![r] = [at |-> "truncate", msg |-> job[r].msg, snap |-> processed]]
      <4> DEFINE new == [at |-> "truncate", msg |-> job[r].msg, snap |-> processed]
      <4>0. processed \in SUBSET Keys
        BY <3>3, Zenon
      <4>1. processed \in SUBSET Keys /\ job[r].msg \in Messages \cup {None}
        BY <1>0, <4>0 DEF Job
      <4>2. new \in Job
        BY <4>1 DEF Job
      <4>3. new.at = "truncate" /\ new.msg = job[r].msg
        OBVIOUS
      <4> QED
        BY <3>3, <4>2, <4>3
    <3> QED
      BY <1>1, <3>2, <3>3 DEF LoadDedupeState
  <2>3. job[r].msg \in Messages \ Echoes
    BY <1>1 DEF LoadDedupeState
  <2>4. UNCHANGED <<deployment, group, calls, processed, watermark, handled, cut,
                    tasks, worker, answers, restarts>>
    BY <1>1 DEF LoadDedupeState
  <2> QED
    BY <2>1, <2>2, <2>3, <2>4 DEF ScanState, Job
<1>2. CASE TruncateDedupeState(r)
  <2> DEFINE new == [job[r] EXCEPT !.at = "write"]
  <2>1. new \in Job /\ new.at = "write" /\ new.msg = job[r].msg
    BY <1>0 DEF Job
  <2>2. job' = [job EXCEPT ![r] = new] /\ processed' = Torn
    BY <1>2 DEF TruncateDedupeState
  <2>3. job[r].msg \in Messages \ Echoes
    BY <1>2 DEF TruncateDedupeState
  <2>4. UNCHANGED <<deployment, group, calls, scan, watermark, handled, cut, tasks,
                    worker, answers, restarts>>
    BY <1>2 DEF TruncateDedupeState
  <2> HIDE DEF new
  <2>5. job' \in [Routers -> Job]
    BY <2>1, <2>2
  <2>6. \A x \in Routers : job'[x] = IF x = r THEN new ELSE job[x]
    BY <2>2
  <2>7. \A x \in Routers :
           /\ job'[x].at = "idle" => job'[x] = IdleJob
           /\ job'[x].at # "idle" => job'[x].msg \in Messages \ Echoes
    BY <2>1, <2>3, <2>6
  <2>8. \A x \in Routers :
           /\ job'[x].at \in {"idle", "load", "truncate", "write", "handle"}
           /\ job'[x].snap \subseteq Keys
    BY <2>5 DEF Job
  <2> QED
    BY <2>2, <2>4, <2>5, <2>7, <2>8
<1>3. CASE MarkProcessed(r)
  <2>1. Key(r, job[r].msg) \in Keys
    BY <1>3 DEF MarkProcessed, Key, Keys
  <2>2. processed' \in SUBSET Keys
    BY <1>0, <1>3, <2>1 DEF MarkProcessed
  <2> DEFINE new == [at |-> "handle", msg |-> job[r].msg, snap |-> {}]
  <2>3. job' = [job EXCEPT ![r] = new]
    BY <1>3 DEF MarkProcessed
  <2>4. new \in Job
    BY <1>0 DEF Job
  <2>5. UNCHANGED <<deployment, group, calls, scan, watermark, handled, cut, tasks,
                    worker, answers, restarts>>
    BY <1>3 DEF MarkProcessed
  <2>6. job[r].msg \in Messages \ Echoes
    BY <1>3 DEF MarkProcessed
  <2> QED
    BY <2>2, <2>3, <2>4, <2>5, <2>6
<1>4. CASE RunLane(r)
  <2>1. job[r].msg \in Messages
    BY <1>4 DEF RunLane
  <2>2. handled' \in Seq(Messages)
    BY <1>4, <2>1, Appended DEF RunLane
  <2>3. tasks' \in Seq(Task) /\ DOMAIN tasks \subseteq DOMAIN tasks'
    <3>1. CASE UNCHANGED tasks
      BY <3>1 DEF Task
    <3>2. CASE job[r].msg \in Chats /\ tasks' = Append(tasks, [msg |-> job[r].msg, status |-> "pending",
                                                             created |-> stamp[r]])
      <4>1. [msg |-> job[r].msg, status |-> "pending", created |-> stamp[r]] \in Task
        <5>1. stamp[r] \in 0 .. MaxSeconds /\ stamp[r] # 0 /\ MaxSeconds \in Nat
          BY <1>4, <3>2, IngressAssumption DEF RunLane, ClockTypeOK
        <5>2. stamp[r] \in 1 .. MaxSeconds
          BY <5>1
        <5> QED
          BY <3>2, <5>2 DEF Task
      <4>2. tasks \in Seq(Task)
        BY DEF Task
      <4> QED
        BY <3>2, <4>1, <4>2, Appended
    <3> QED
      BY <1>4, <3>1, <3>2 DEF RunLane
  <2>4. answers' \in Seq(DOMAIN tasks')
    BY <1>4, <2>3, SeqMonotonic DEF RunLane
  <2>5. IdleJob \in Job /\ IdleJob.at = "idle"
    BY IdleTyped
  <2>6. job' = [job EXCEPT ![r] = IdleJob]
    BY <1>4 DEF RunLane
  <2>7. UNCHANGED <<deployment, group, calls, processed, watermark, cut, worker, restarts>>
    BY <1>4 DEF RunLane
  <2>8. scan' \in ScanState
    BY <1>4, EndingTyped DEF RunLane
  <2> QED
    BY <2>2, <2>3, <2>4, <2>5, <2>6, <2>7, <2>8 DEF Task, Job, ScanState
<1>5. CASE StampTask(r)
  <2>1. UNCHANGED <<deployment, group, calls, processed, job, scan, watermark, handled, cut,
                    tasks, worker, answers, restarts>>
    BY <1>5 DEF StampTask
  <2> QED
    BY <2>1
<1>6. CASE RouteRaises(r)
  <2>1. /\ UNCHANGED <<deployment, group, calls, processed, watermark, handled, tasks, worker,
                       answers, restarts>>
        /\ job' = [job EXCEPT ![r] = IdleJob] /\ job[r].at # "idle"
        /\ cut' \in {cut, cut \cup {job[r].msg}}
    BY <1>6 DEF RouteRaises
  <2>2. cut' \subseteq Messages
    BY <2>1
  <2>3. scan' \in ScanState
    BY <1>6, EndingTyped DEF RouteRaises
  <2> QED
    BY <2>1, <2>2, <2>3, IdleTyped DEF Job, ScanState
<1> QED
  BY <1>1, <1>2, <1>3, <1>4, <1>5, <1>6 DEF Route

(* The worker.                                                              *)
LEMMA WorkTyped ==
    ASSUME TypeInv, ClockTypeOK', NEW w \in Workers, Work(w) \/ WorkerRaises(w)
    PROVE  TypeInv'
<1> USE DEF TypeInv, IngressTypeOK, Shapes
<1>0. worker[w] \in WorkerState
  OBVIOUS
<1>1. UNCHANGED <<deployment, group, calls, processed, job, scan, watermark, handled,
                  cut, restarts>>
  BY DEF Work, FetchNextPending, MarkRunning, ProcessChatTask, CloseTask, WorkerRaises
<1>2. ASSUME NEW new \in WorkerState, worker' = [worker EXCEPT ![w] = new],
             new.at \in {"mark", "reply", "close"} => new.task \in DOMAIN tasks,
             tasks' \in Seq(Task), DOMAIN tasks' = DOMAIN tasks,
             answers' \in Seq(DOMAIN tasks)
      PROVE  TypeInv'
  <2>1. worker' \in [Workers -> WorkerState]
    BY <1>2
  <2>2. \A x \in Workers :
           worker'[x].at \in {"mark", "reply", "close"} => worker'[x].task \in DOMAIN tasks'
    BY <1>2
  <2>3. \A x \in Workers : worker'[x].at \in {"idle", "mark", "reply", "close", "dead"}
    BY <2>1 DEF WorkerState
  <2> QED
    BY <1>1, <1>2, <2>1, <2>2, <2>3 DEF Task
<1>3. tasks \in Seq(Task)
  BY DEF Task
<1>4. CASE FetchNextPending(w)
  <2>1. PICK i \in Oldest : worker' = [worker EXCEPT ![w] = [at |-> "mark", task |-> i, ok |-> FALSE]]
    BY <1>4 DEF FetchNextPending
  <2>2. i \in DOMAIN tasks /\ i \in Nat
    BY <2>1 DEF Oldest, Pending, With
  <2> DEFINE new == [at |-> "mark", task |-> i, ok |-> FALSE]
  <2>3. new \in WorkerState /\ new.task \in DOMAIN tasks
    BY <2>2 DEF WorkerState
  <2>4. UNCHANGED <<tasks, answers>>
    BY <1>4 DEF FetchNextPending
  <2> QED
    BY <1>2, <1>3, <2>1, <2>3, <2>4
<1>5. ASSUME NEW status \in {"pending", "running", "done", "failed"}, NEW i \in DOMAIN tasks
      PROVE  /\ [tasks EXCEPT ![i].status = status] \in Seq(Task)
             /\ DOMAIN [tasks EXCEPT ![i].status = status] = DOMAIN tasks
  <2>0. tasks[i] \in Task
    BY <1>3, <1>5, ElementOfSeq
  <2>1. [tasks[i] EXCEPT !.status = status] \in Task
    BY <1>5, <2>0 DEF Task
  <2> QED
    BY <1>3, <1>5, <2>1, ExceptSeq
<1>6. worker[w].at \in {"mark", "reply", "close"} => worker[w].task \in DOMAIN tasks
  OBVIOUS
<1>7. CASE MarkRunning(w)
  <2> DEFINE new == [worker[w] EXCEPT !.at = "reply"]
  <2>1. new \in WorkerState /\ new.task = worker[w].task
    BY <1>0 DEF WorkerState
  <2>2. worker' = [worker EXCEPT ![w] = new] /\ UNCHANGED answers
    BY <1>7 DEF MarkRunning
  <2>3. worker[w].task \in DOMAIN tasks
    BY <1>6, <1>7 DEF MarkRunning
  <2>4. tasks' = [tasks EXCEPT ![worker[w].task].status = "running"]
    BY <1>7 DEF MarkRunning
  <2> HIDE DEF new
  <2>5. tasks' \in Seq(Task) /\ DOMAIN tasks' = DOMAIN tasks
    BY <1>5, <2>3, <2>4
  <2> QED
    BY <1>2, <2>1, <2>2, <2>3, <2>5
<1>8. CASE ProcessChatTask(w)
  <2>1. PICK delivered, ok \in BOOLEAN :
          /\ answers' = IF delivered THEN Append(answers, worker[w].task) ELSE answers
          /\ worker' = [worker EXCEPT ![w] = [at |-> "close", task |-> worker[w].task, ok |-> ok]]
    BY <1>8, Zenon DEF ProcessChatTask
  <2> DEFINE new == [at |-> "close", task |-> worker[w].task, ok |-> ok]
  <2>2. new \in WorkerState
    BY <1>0, <2>1 DEF WorkerState
  <2>3. worker' = [worker EXCEPT ![w] = new]
    BY <2>1
  <2>4. worker[w].task \in DOMAIN tasks
    BY <1>6, <1>8 DEF ProcessChatTask
  <2>5. answers' \in Seq(DOMAIN tasks)
    BY <2>1, <2>4, Appended
  <2>6. UNCHANGED tasks
    BY <1>8 DEF ProcessChatTask
  <2> QED
    BY <1>2, <1>3, <2>2, <2>3, <2>4, <2>5, <2>6
<1>9. CASE CloseTask(w)
  <2>1. IdleWorker \in WorkerState /\ IdleWorker.at = "idle"
    BY IdleTyped
  <2>2. worker' = [worker EXCEPT ![w] = IdleWorker] /\ UNCHANGED answers
    BY <1>9 DEF CloseTask
  <2>3. worker[w].task \in DOMAIN tasks
    BY <1>6, <1>9 DEF CloseTask
  <2>4. PICK status \in {"done", "failed"} :
          tasks' = [tasks EXCEPT ![worker[w].task].status = status]
    BY <1>9 DEF CloseTask
  <2>5. tasks' \in Seq(Task) /\ DOMAIN tasks' = DOMAIN tasks
    BY <1>5, <2>3, <2>4
  <2> QED
    BY <1>2, <2>1, <2>2, <2>5
<1>10. CASE WorkerRaises(w)
  <2>1. worker' = [worker EXCEPT ![w] = DeadWorker] /\ UNCHANGED <<tasks, answers>>
    BY <1>10 DEF WorkerRaises
  <2> QED
    BY <1>2, <1>3, <2>1, IdleTyped
<1> QED
  BY <1>4, <1>7, <1>8, <1>9, <1>10 DEF Work

(* A restart, from any state.                                               *)
LEMMA RestartTyped == ASSUME TypeInv, ClockTypeOK', Restart PROVE TypeInv'
<1>1. /\ job' \in [Routers -> {IdleJob}] /\ scan' = IdleScan
      /\ worker' \in [Workers -> {IdleWorker}]
      /\ UNCHANGED <<deployment, group, calls, processed, watermark, handled, tasks, answers>>
  BY DEF Restart
<1>2. Shapes'
  BY <1>1, IdleTyped DEF TypeInv, Shapes
<1>3. cut' \subseteq Messages
  BY DEF Restart, TypeInv, IngressTypeOK
<1>4. restarts' \in 0 .. MaxRestarts
  BY IngressAssumption DEF Restart, TypeInv, IngressTypeOK
<1>5. /\ \A r \in Routers : job'[r] = IdleJob
      /\ \A w \in Workers : worker'[w] = IdleWorker
  BY <1>1
<1> QED
  BY <1>1, <1>2, <1>3, <1>4, <1>5, IdleTyped DEF TypeInv, IngressTypeOK, Job, ScanState, WorkerState

(* At the start nothing is there.                                           *)
LEMMA InitTyped == Init => TypeInv
<1> SUFFICES ASSUME Init PROVE TypeInv
  OBVIOUS
<1>1. /\ job \in [Routers -> {IdleJob}] /\ scan = IdleScan
      /\ worker \in [Workers -> {IdleWorker}] /\ calls = [m \in Messages |-> 0]
  BY DEF Init
<1>2. Shapes
  BY <1>1, IdleTyped, IngressAssumption DEF Shapes
<1>3. \A m \in Messages : calls[m] \in 0 .. MaxCalls[m]
  BY <1>1, IngressAssumption
<1>4. /\ \A r \in Routers : job[r] = IdleJob
      /\ \A w \in Workers : worker[w] = IdleWorker
  BY <1>1
<1>5. 0 \in 0 .. MaxRestarts
  BY IngressAssumption
<1>6. ClockTypeOK
  <2>1. now = 1 /\ stamp = [r \in Routers |-> 0] /\ MaxSeconds \in Nat /\ MaxSeconds >= 1
    BY IngressAssumption DEF Init
  <2> QED
    BY <2>1 DEF ClockTypeOK
<1> QED
  BY <1>1, <1>2, <1>3, <1>4, <1>5, <1>6, IdleTyped DEF Init, TypeInv, IngressTypeOK, Job, ScanState, WorkerState

(* Every variable keeps its type, with the shapes of its records.           *)
THEOREM TypeInvariance == Spec => []TypeInv
<1>1. TypeInv /\ ClockTypeOK' /\ (UNCHANGED vars \/ Tick) => TypeInv'
  BY DEF TypeInv, IngressTypeOK, Shapes, vars, Tick
<1>2. TypeInv /\ [Next]_vars => TypeInv'
  BY <1>1, ClockTyped, FeishuTyped, ScanTyped, RouteTyped, WorkTyped, RestartTyped DEF Next
<1> QED
  BY <1>2, InitTyped, PTL DEF Spec

(* An index or a watermark that is torn, a router with its message, a task  *)
(* in one of its statuses, whatever programs run side by side.              *)
THEOREM Typing == Spec => []IngressTypeOK
<1>1. TypeInv => IngressTypeOK
  BY DEF TypeInv
<1> QED
  BY <1>1, TypeInvariance, PTL

-----------------------------------------------------------------------------
(* Duplicates.                                                              *)

(* Somebody took the message: its lane ran or is about to, or a restart or  *)
(* an exception ended it after its mark.                                    *)
Taken(m) == \/ m \in Range(handled) \cup cut
            \/ \E r \in Routers : job[r].at = "handle" /\ job[r].msg = m

(* The strengthened invariant: the marks a router has read, and will write  *)
(* back over those of others, stand for messages somebody took.             *)
MarksTaken ==
    /\ processed # Torn => \A k \in processed : Taken(k[2])
    /\ \A r \in Routers : \A k \in job[r].snap : Taken(k[2])

(* Who was taken stays taken.                                               *)
LEMMA TakenStays ==
    ASSUME TypeInv, [Next]_vars, NEW m, Taken(m)
    PROVE  Taken(m)'
<1> USE DEF TypeInv, IngressTypeOK, Shapes
<1>1. ASSUME NEW r \in Routers, RunLane(r) PROVE Taken(m)'
  <2>1. /\ Range(handled') = Range(handled) \cup {job[r].msg}
        /\ job' = [job EXCEPT ![r] = IdleJob] /\ UNCHANGED cut
    <3>1. handled' = Append(handled, job[r].msg) /\ job[r].msg \in Messages
      BY <1>1 DEF RunLane
    <3> QED
      BY <1>1, <3>1, Appended DEF RunLane
  <2> QED
    BY <2>1 DEF Taken
<1>2. CASE Restart
  <2>1. /\ cut' = cut \cup {job[r].msg : r \in {x \in Routers : job[x].at = "handle"}}
        /\ UNCHANGED handled
    BY <1>2 DEF Restart
  <2> QED
    BY <2>1 DEF Taken
<1>3. ASSUME UNCHANGED <<handled, cut>>,
             \A r \in Routers : job[r].at = "handle" => job'[r] = job[r]
      PROVE  Taken(m)'
  BY <1>3 DEF Taken
<1>4. ASSUME NEW r \in Routers, job[r].at # "handle", UNCHANGED <<handled, cut>>,
             \A x \in Routers \ {r} : job'[x] = job[x]
      PROVE  Taken(m)'
  BY <1>3, <1>4
<1>5. CASE (\E x \in Messages : Post(x)) \/ Fetch \/ ScanRaises \/ TruncateWatermark
           \/ SaveWatermark \/ (\E w \in Workers : Work(w) \/ WorkerRaises(w)) \/ Tick
           \/ (\E r \in Routers : StampTask(r)) \/ UNCHANGED vars
  BY <1>3, <1>5 DEF Post, Fetch, ScanRaises, TruncateWatermark, SaveWatermark, Work,
     FetchNextPending, MarkRunning, ProcessChatTask, CloseTask, WorkerRaises, Tick, StampTask, vars
<1>6. ASSUME NEW t \in Threads, NEW x \in Messages, Receive(t, x) PROVE Taken(m)'
  BY <1>4, <1>6 DEF Receive, Routers
<1>7. CASE NextItem
  BY <1>4, <1>7 DEF NextItem, Routers
<1>8. ASSUME NEW r \in Routers, LoadDedupeState(r) \/ TruncateDedupeState(r) \/ MarkProcessed(r)
      PROVE  Taken(m)'
  BY <1>4, <1>8 DEF LoadDedupeState, TruncateDedupeState, MarkProcessed
<1>9. ASSUME NEW r \in Routers, RouteRaises(r) PROVE Taken(m)'
  <2>1. /\ cut' = (IF job[r].at = "handle" THEN cut \cup {job[r].msg} ELSE cut)
        /\ job' = [job EXCEPT ![r] = IdleJob] /\ UNCHANGED handled
    BY <1>9 DEF RouteRaises
  <2> QED
    BY <2>1 DEF Taken
<1> QED
  BY <1>1, <1>2, <1>5, <1>6, <1>7, <1>8, <1>9 DEF Next, Scan, Route

(* MarksTaken is kept: a router reads marks that stand for taken messages,  *)
(* and adds the mark of the message it is about to handle.                  *)
LEMMA MarksKept ==
    ASSUME TypeInv, MarksTaken, [Next]_vars
    PROVE  MarksTaken'
<1> USE DEF TypeInv, IngressTypeOK, Shapes
<1>1. ASSUME NEW r \in Routers, NEW k \in job[r].snap PROVE Taken(k[2])'
  BY TakenStays DEF MarksTaken
<1>2. processed # Torn => \A k \in processed : Taken(k[2])'
  BY TakenStays DEF MarksTaken
<1>3. ASSUME NEW r \in Routers, LoadDedupeState(r) PROVE MarksTaken'
  <2>1. \A x \in Routers : \A k \in job'[x].snap :
           k \in job[x].snap \/ (processed # Torn /\ k \in processed)
    <3>1. ASSUME NEW x \in Routers \ {r} PROVE job'[x] = job[x]
      BY <1>3 DEF LoadDedupeState
    <3>2. \/ job'[r] = IdleJob
          \/ processed # Torn /\ job'[r] = [at |-> "truncate", msg |-> job[r].msg, snap |-> processed]
      BY <1>3 DEF LoadDedupeState
    <3>3. job[r] \in Job
      OBVIOUS
    <3>4. job'[r].snap = {} \/ (processed # Torn /\ job'[r].snap = processed)
      BY <3>2, <3>3 DEF IdleJob, Job
    <3> QED
      BY <3>1, <3>4
  <2> QED
    BY <1>1, <1>2, <1>3, <2>1 DEF MarksTaken, LoadDedupeState
<1>4. ASSUME NEW r \in Routers, TruncateDedupeState(r) PROVE MarksTaken'
  <2>1. \A x \in Routers : job'[x].snap = job[x].snap
    BY <1>4 DEF TruncateDedupeState, Job
  <2> QED
    BY <1>1, <1>4, <2>1 DEF MarksTaken, TruncateDedupeState
<1>5. ASSUME NEW r \in Routers, MarkProcessed(r) PROVE MarksTaken'
  <2>1. /\ job'[r].at = "handle" /\ job'[r].msg = job[r].msg /\ job'[r].snap = {}
        /\ \A x \in Routers \ {r} : job'[x] = job[x]
    BY <1>5 DEF MarkProcessed, Job
  <2>2. Taken(job[r].msg)'
    BY <2>1 DEF Taken
  <2>3. processed' = job[r].snap \cup {Key(r, job[r].msg)} /\ Key(r, job[r].msg)[2] = job[r].msg
    BY <1>5 DEF MarkProcessed, Key
  <2> QED
    BY <1>1, <2>1, <2>2, <2>3 DEF MarksTaken
<1>6. ASSUME UNCHANGED processed,
             \A x \in Routers : job'[x].snap \in {job[x].snap, {}}
      PROVE  MarksTaken'
  BY <1>1, <1>2, <1>6 DEF MarksTaken
<1>7. ASSUME NEW r \in Routers, RunLane(r) \/ RouteRaises(r) PROVE MarksTaken'
  <2>0. job' = [job EXCEPT ![r] = IdleJob]
    BY <1>7 DEF RunLane, RouteRaises
  <2>1. \A x \in Routers : job'[x].snap \in {job[x].snap, {}}
    BY <2>0 DEF IdleJob
  <2> QED
    BY <1>6, <1>7, <2>1 DEF RunLane, RouteRaises
<1>8. CASE Restart
  <2>1. \A x \in Routers : job'[x].snap = {}
    BY <1>8 DEF Restart, IdleJob
  <2> QED
    BY <1>6, <1>8, <2>1 DEF Restart
<1>9. ASSUME NEW t \in Threads, NEW m \in Messages, Receive(t, m) PROVE MarksTaken'
  <2>1. \A x \in Routers : job'[x].snap \in {job[x].snap, {}}
    BY <1>9 DEF Receive, IdleJob
  <2> QED
    BY <1>6, <1>9, <2>1 DEF Receive
<1>10. CASE NextItem
  <2>1. \A x \in Routers : job'[x].snap \in {job[x].snap, {}}
    BY <1>10 DEF NextItem, IdleJob
  <2> QED
    BY <1>6, <1>10, <2>1 DEF NextItem
<1>11. CASE (\E x \in Messages : Post(x)) \/ Fetch \/ ScanRaises \/ TruncateWatermark
            \/ SaveWatermark \/ (\E w \in Workers : Work(w) \/ WorkerRaises(w)) \/ Tick
            \/ (\E r \in Routers : StampTask(r)) \/ UNCHANGED vars
  <2>1. UNCHANGED <<processed, job>>
    BY <1>11 DEF Post, Fetch, ScanRaises, TruncateWatermark, SaveWatermark, Work,
       FetchNextPending, MarkRunning, ProcessChatTask, CloseTask, WorkerRaises, Tick, StampTask, vars
  <2> QED
    BY <1>6, <2>1
<1> QED
  BY <1>3, <1>4, <1>5, <1>7, <1>8, <1>9, <1>10, <1>11 DEF Next, Scan, Route

(* No message is called a duplicate whose lane was not at least begun, for  *)
(* any number of threads that overwrite each other's index, on both paths,  *)
(* with restarts between any two writes and an exception at any place.      *)
THEOREM DuplicatesWereTaken == Spec => []NoFalseDuplicate
<1>1. Init => MarksTaken
  BY DEF Init, MarksTaken, IdleJob
<1>2. MarksTaken => NoFalseDuplicate
  BY DEF MarksTaken, NoFalseDuplicate, Taken
<1> QED
  BY <1>1, <1>2, MarksKept, TypeInvariance, PTL DEF Spec

-----------------------------------------------------------------------------
(* Order.  Where only the scanner runs, positions in the group tell what a  *)
(* scan can still reach and what it must have done before.                  *)

\* The first position of a page.
First == IF Len(group) > PageSize THEN Len(group) - PageSize + 1 ELSE 1

Done(p)    == group[p] \in Echoes \/ Taken(group[p])
Settled(m) == m \in Range(handled) \cup Echoes \cup cut
Closed(p)  == \A q \in DOMAIN group : p <= q /\ Taken(group[q]) => Done(p)
Before(x, y) == \E p, q \in DOMAIN group : p < q /\ group[p] = x /\ group[q] = y

\* The message the scanner routes is not marked yet.
Unmarked == job[Poller].at \in {"load", "truncate", "write"}

\* The rest of the batch is group[k .. b]; k - 1 is routed while unmarked.
\* What a page shows before is done, and from there on nobody was overtaken.
BatchAt(k, b) ==
    LET lo == IF Unmarked THEN k - 1 ELSE k
    IN  /\ Len(scan.batch) = b - k + 1
        /\ \A i \in 1 .. Len(scan.batch) : scan.batch[i] = group[k - 1 + i]
        /\ scan.newest \in Messages => b \in DOMAIN group /\ scan.newest = group[b]
        /\ Unmarked => k - 1 \in DOMAIN group /\ job[Poller].msg = group[k - 1]
        /\ \A p \in DOMAIN group : First <= p /\ p < lo => Done(p)
        /\ \A p \in DOMAIN group : lo <= p => Closed(p)

Alone == /\ \A m \in Messages : calls[m] = 0
         /\ \A r \in Routers \ {Poller} : job[r].at = "idle"

GroupInv == /\ \A p, q \in DOMAIN group : group[p] = group[q] => p = q
            /\ \A p \in DOMAIN group : First <= p => Closed(p)

\* Who was taken is known: to the index, and to the scanner's copy of it.
KnownInv == \A m \in Messages : Taken(m) =>
    /\ m \in Range(group)
    /\ processed # Torn => Key(Poller, m) \in processed
    /\ job[Poller].at \in {"truncate", "write"} => Key(Poller, m) \in job[Poller].snap

BatchInv ==
    scan.at \in {"batch", "saving"} =>
       \E k \in 1 .. Len(group) + 1, b \in 0 .. Len(group) : BatchAt(k, b)

BusyInv ==
    /\ job[Poller].at # "idle" => scan.at = "batch"
    /\ job[Poller].at \in {"truncate", "write"} => ~Taken(job[Poller].msg)
    /\ job[Poller].at = "handle" => \A h \in Range(handled) : Before(h, job[Poller].msg)
    /\ scan.at = "saving" => scan.batch = <<>>

HandledInv == \A i, j \in DOMAIN handled : i < j => Before(handled[i], handled[j])

WatermarkInv ==
    watermark \in Messages =>
       \E b \in DOMAIN group :
          group[b] = watermark /\ \A p \in First .. b : Settled(group[p])

OrderInv == Alone /\ GroupInv /\ KnownInv /\ BatchInv /\ BusyInv /\ HandledInv /\ WatermarkInv

(* The elements of a page, and of its part after the watermark.             *)
LEMMA FirstInGroup ==
    ASSUME group \in Seq(Messages)
    PROVE  /\ First \in 1 .. Len(group) + 1 /\ Len(group) \in Nat /\ DOMAIN group = 1 .. Len(group)
           /\ group # <<>> => First <= Len(group)
           /\ Len(group) <= PageSize => First = 1
<1>1. PageSize \in Nat \ {0}
  BY IngressAssumption
<1>2. group # <<>> => Len(group) > 0
  BY EmptySeq
<1> QED
  BY <1>1, <1>2 DEF First

LEMMA PageElements ==
    ASSUME group \in Seq(Messages)
    PROVE  /\ Page \in Seq(Messages) /\ Len(Page) = Len(group) - First + 1
           /\ DOMAIN Page = 1 .. Len(Page)
           /\ \A i \in 1 .. Len(Page) : Page[i] = group[First + i - 1]
<1>1. /\ First \in 1 .. Len(group) + 1 /\ Len(group) \in Nat
      /\ \A i \in First .. Len(group) : group[i] \in Messages
  BY FirstInGroup
<1>2. Page = SubSeq(group, First, Len(group))
  BY DEF Page, First
<1> QED
  BY <1>1, <1>2, SubSeqProperties

LEMMA UnseenElements ==
    ASSUME group \in Seq(Messages), NEW mark
    PROVE  \E k \in First .. Len(group) + 1 :
              /\ Len(Unseen(Page, mark)) = Len(group) - k + 1
              /\ \A i \in 1 .. Len(Unseen(Page, mark)) : Unseen(Page, mark)[i] = group[k - 1 + i]
              /\ k > First => k - 1 \in DOMAIN group /\ group[k - 1] = mark
<1> DEFINE u == Unseen(Page, mark)
<1>1. /\ First \in 1 .. Len(group) + 1 /\ Len(group) \in Nat /\ DOMAIN group = 1 .. Len(group)
      /\ Len(Page) = Len(group) - First + 1
      /\ \A i \in 1 .. Len(Page) : Page[i] = group[First + i - 1]
  BY FirstInGroup, PageElements
<1>2. CASE mark \notin Range(Page)
  <2>1. u = Page
    BY <1>2 DEF Unseen
  <2> HIDE DEF u
  <2> DEFINE k == First
  <2>2. \A i \in 1 .. Len(u) : u[i] = group[k - 1 + i]
    <3> TAKE i \in 1 .. Len(u)
    <3>1. First + i - 1 = k - 1 + i
      BY <1>1, <2>1
    <3> QED
      BY <1>1, <2>1, <3>1
  <2>3. Len(u) = Len(group) - k + 1 /\ k \in First .. Len(group) + 1 /\ ~(k > First)
    BY <1>1, <2>1
  <2> HIDE DEF k
  <2> QED
    BY <2>2, <2>3 DEF u
<1>3. CASE mark \in Range(Page)
  <2> DEFINE i == CHOOSE j \in DOMAIN Page : Page[j] = mark
             k == First + i
  <2>1. i \in DOMAIN Page /\ Page[i] = mark
    BY <1>3 DEF Range
  <2>2. u = SubSeq(Page, 1 + i, Len(Page))
    BY <1>3 DEF Unseen
  <2> HIDE DEF i, u
  <2>3. i \in 1 .. Len(Page) /\ Len(Page) \in Nat
    BY <1>1, <2>1, PageElements
  <2>4. \A j \in 1 + i .. Len(Page) : Page[j] \in Messages
    BY <2>3, PageElements, ElementOfSeq
  <2>5. /\ Len(u) = IF 1 + i <= Len(Page) THEN Len(Page) - (1 + i) + 1 ELSE 0
        /\ \A j \in 1 .. Len(Page) - (1 + i) + 1 : u[j] = Page[(1 + i) + j - 1]
    BY <2>2, <2>3, <2>4, SubSeqProperties
  <2>6. k \in First .. Len(group) + 1 /\ k - 1 \in DOMAIN group /\ group[k - 1] = mark
    <3>1. k - 1 = First + i - 1 /\ k \in First .. Len(group) + 1 /\ k - 1 \in 1 .. Len(group)
      BY <1>1, <2>3
    <3>2. group[First + i - 1] = mark
      BY <1>1, <2>1, <2>3
    <3> QED
      BY <1>1, <3>1, <3>2
  <2>7. Len(u) = Len(group) - k + 1
    BY <1>1, <2>3, <2>5
  <2>8. \A j \in 1 .. Len(u) : u[j] = group[k - 1 + j]
    <3> TAKE j \in 1 .. Len(u)
    <3>1. /\ j \in 1 .. Len(Page) - (1 + i) + 1 /\ (1 + i) + j - 1 \in 1 .. Len(Page)
          /\ First + ((1 + i) + j - 1) - 1 = k - 1 + j
      BY <1>1, <2>3, <2>5
    <3>2. u[j] = Page[(1 + i) + j - 1] /\ Page[(1 + i) + j - 1] = group[First + ((1 + i) + j - 1) - 1]
      BY <1>1, <2>5, <3>1
    <3> QED
      BY <3>1, <3>2
  <2> HIDE DEF k
  <2> QED
    BY <2>6, <2>7, <2>8 DEF u
<1> QED
  BY <1>2, <1>3

(* What is true of positions stays so while nobody is taken and the group   *)
(* sees nothing new.                                                        *)
LEMMA SamePositions ==
    ASSUME UNCHANGED group, \A m : Taken(m)' <=> Taken(m)
    PROVE  /\ First' = First
           /\ \A p : (Done(p)' <=> Done(p)) /\ (Closed(p)' <=> Closed(p))
           /\ \A x, y : Before(x, y)' <=> Before(x, y)
<1>1. \A p : Done(p)' <=> Done(p)
  BY DEF Done
<1> QED
  BY <1>1 DEF First, Closed, Before

LEMMA SameTaken ==
    ASSUME UNCHANGED <<handled, cut>>,
           \A r \in Routers : /\ job'[r].at = "handle" <=> job[r].at = "handle"
                              /\ job[r].at = "handle" => job'[r].msg = job[r].msg
    PROVE  \A m : Taken(m)' <=> Taken(m)
BY DEF Taken

\* The variables that the invariant speaks of.
orderVars == <<deployment, group, calls, processed, job, scan, watermark, handled, cut>>

LEMMA OrderFrame == ASSUME OrderInv, UNCHANGED orderVars PROVE OrderInv'
<1>1. \A m : Taken(m)' <=> Taken(m)
  BY DEF orderVars, Taken
<1>2. /\ First' = First
      /\ \A p : (Done(p)' <=> Done(p)) /\ (Closed(p)' <=> Closed(p))
      /\ \A x, y : Before(x, y)' <=> Before(x, y)
  BY <1>1, SamePositions DEF orderVars
<1>3. Alone' /\ GroupInv' /\ KnownInv' /\ BusyInv' /\ HandledInv' /\ WatermarkInv'
  BY <1>1, <1>2 DEF OrderInv, orderVars, Alone, GroupInv, KnownInv, BusyInv, HandledInv, WatermarkInv, Settled
<1>4. \A k, b : BatchAt(k, b)' <=> BatchAt(k, b)
  BY <1>2 DEF orderVars, BatchAt, Unmarked
<1>5. BatchInv'
  BY <1>4 DEF OrderInv, orderVars, BatchInv
<1> QED
  BY <1>3, <1>5 DEF OrderInv

(* A new message has no place a scan has passed, and nobody took it.        *)
LEMMA PostOrder ==
    ASSUME TypeInv, OrderInv, deployment = "polling", NEW m \in Messages, Post(m)
    PROVE  OrderInv'
<1> DEFINE n == Len(group) + 1
<1>1. /\ group \in Seq(Messages) /\ group' = Append(group, m)
      /\ UNCHANGED <<deployment, processed, job, scan, watermark, handled, cut>>
  BY DEF Post, TypeInv, IngressTypeOK
<1>2. /\ Len(group) \in Nat /\ DOMAIN group = 1 .. Len(group)
      /\ group' \in Seq(Messages) /\ Len(group') = n /\ DOMAIN group' = 1 .. n
      /\ \A p \in DOMAIN group : group'[p] = group[p]
      /\ group'[n] = m
  BY <1>1, AppendProperties
<1>3. \A p, q \in DOMAIN group' : group'[p] = group'[q] => p = q
  <2>1. PICK h \in Histories : IsPrefix(group', h)
    BY <1>1 DEF Post
  <2>2. /\ h \in Seq(Messages) /\ n <= Len(h) /\ Len(h) \in Nat /\ DOMAIN h = 1 .. Len(h)
        /\ SubSeq(group', 1, n) = SubSeq(h, 1, n)
        /\ \A p, q \in DOMAIN h : h[p] = h[q] => p = q
    BY <1>2, <2>1, IngressAssumption DEF IsPrefix, IsInjective
  <2>3. \A p \in 1 .. n : SubSeq(group', 1, n)[p] = group'[1 + p - 1]
    <3>1. \A p \in 1 .. n : group'[p] \in Messages
      BY <1>2, ElementOfSeq
    <3> QED
      BY <1>2, <3>1, SubSeqProperties
  <2>4. \A p \in 1 .. n : SubSeq(h, 1, n)[p] = h[1 + p - 1]
    <3>1. \A p \in 1 .. n : h[p] \in Messages
      BY <1>2, <2>2, ElementOfSeq
    <3> QED
      BY <1>2, <3>1, SubSeqProperties
  <2>5. \A p \in 1 .. n : group'[p] = h[p]
    BY <1>2, <2>2, <2>3, <2>4
  <2> QED
    BY <1>2, <2>2, <2>5
<1>4. \A x : Taken(x)' <=> Taken(x)
  BY <1>1, SameTaken
<1>5. ~Taken(m)
  <2>1. \A p \in DOMAIN group : group[p] # m
    BY <1>2, <1>3
  <2> QED
    BY <2>1 DEF OrderInv, KnownInv, Range
<1>6. First <= First' /\ First' \in Int /\ First \in Int
  BY <1>2, IngressAssumption DEF First
<1>7. \A p \in DOMAIN group : Done(p)' <=> Done(p)
  BY <1>2, <1>4 DEF Done
<1>8. \A p \in DOMAIN group : Closed(p) => Closed(p)'
  <2> SUFFICES ASSUME NEW p \in DOMAIN group, Closed(p),
                      NEW q \in DOMAIN group', p <= q, Taken(group[q])'
               PROVE  Done(p)'
    BY DEF Closed
  <2>1. q # n
    BY <1>2, <1>4, <1>5
  <2>2. q \in DOMAIN group /\ Taken(group[q])
    BY <1>2, <1>4, <2>1
  <2> QED
    BY <1>7, <2>2 DEF Closed
<1>9. ASSUME NEW p \in DOMAIN group', p = n PROVE Closed(p)'
  <2> SUFFICES ASSUME NEW q \in DOMAIN group', p <= q, Taken(group[q])'
               PROVE  FALSE
    BY DEF Closed
  <2> QED
    BY <1>2, <1>4, <1>5, <1>9
<1>10. \A x, y : Before(x, y) => Before(x, y)'
  BY <1>2 DEF Before
<1>11. \A p \in DOMAIN group' : p \in DOMAIN group \/ p = n
  BY <1>2
<1>12. Alone'
  <2>1. PICK c \in 0 .. (IF deployment = "polling" \/ m \in Echoes THEN 0 ELSE MaxCalls[m]) :
           calls' = [calls EXCEPT ![m] = c]
    BY DEF Post
  <2>2. c = 0 /\ calls \in [Messages -> Nat]
    BY DEF TypeInv, Shapes
  <2> QED
    BY <1>1, <2>1, <2>2 DEF OrderInv, Alone
<1>13. GroupInv'
  <2>1. ASSUME NEW p \in DOMAIN group', First' <= p PROVE Closed(p)'
    <3>1. CASE p = n
      BY <1>9, <3>1
    <3>2. CASE p \in DOMAIN group
      <4>1. First <= p
        BY <1>2, <1>6, <2>1, <3>2
      <4> QED
        BY <1>8, <3>2, <4>1 DEF OrderInv, GroupInv
    <3> QED
      BY <1>11, <3>1, <3>2
  <2> QED
    BY <1>3, <2>1 DEF GroupInv
<1>14. KnownInv'
  BY <1>1, <1>2, <1>4 DEF OrderInv, KnownInv, Range
<1>15. BatchInv'
  <2> SUFFICES ASSUME scan.at \in {"batch", "saving"} PROVE BatchInv'
    BY <1>1 DEF BatchInv
  <2>1. PICK k \in 1 .. Len(group) + 1, b \in 0 .. Len(group) : BatchAt(k, b)
    BY DEF OrderInv, BatchInv
  <2> DEFINE lo == IF Unmarked THEN k - 1 ELSE k
  <2>2. lo' = lo /\ lo \in Int /\ lo <= n
    BY <1>1, <1>2 DEF Unmarked
  <2>3. /\ Len(scan.batch) = b - k + 1
        /\ \A i \in 1 .. Len(scan.batch) : scan.batch[i] = group[k - 1 + i]
        /\ scan.newest \in Messages => b \in DOMAIN group /\ scan.newest = group[b]
        /\ Unmarked => k - 1 \in DOMAIN group /\ job[Poller].msg = group[k - 1]
        /\ \A p \in DOMAIN group : First <= p /\ p < lo => Done(p)
        /\ \A p \in DOMAIN group : lo <= p => Closed(p)
    BY <2>1 DEF BatchAt
  <2> HIDE DEF lo
  <2>4. \A i \in 1 .. Len(scan.batch) : k - 1 + i \in DOMAIN group
    BY <1>2, <2>3
  <2>5. ASSUME NEW p \in DOMAIN group', First' <= p, p < lo PROVE Done(p)'
    <3>1. p \in DOMAIN group /\ First <= p
      BY <1>2, <1>6, <1>11, <2>2, <2>5
    <3> QED
      BY <1>7, <2>3, <2>5, <3>1
  <2>8. ASSUME NEW p \in DOMAIN group', lo <= p PROVE Closed(p)'
    <3>1. CASE p = n
      BY <1>9, <3>1
    <3>2. CASE p \in DOMAIN group
      BY <1>8, <2>3, <2>8, <3>2
    <3> QED
      BY <1>11, <3>1, <3>2
  <2>6. BatchAt(k, b)'
    BY <1>1, <1>2, <2>2, <2>3, <2>4, <2>5, <2>8 DEF BatchAt, Unmarked, lo
  <2>7. k \in 1 .. Len(group') + 1 /\ b \in 0 .. Len(group')
    BY <1>2
  <2> QED
    BY <2>6, <2>7 DEF BatchInv
<1>16. BusyInv' /\ HandledInv'
  BY <1>1, <1>4, <1>10 DEF OrderInv, BusyInv, HandledInv
<1>17. WatermarkInv'
  <2> SUFFICES ASSUME watermark \in Messages PROVE WatermarkInv'
    BY <1>1 DEF WatermarkInv
  <2>1. PICK b \in DOMAIN group : group[b] = watermark /\ \A p \in First .. b : Settled(group[p])
    BY DEF OrderInv, WatermarkInv
  <2>2. \A p \in First' .. b : p \in First .. b /\ p \in DOMAIN group
    <3>1. First \in 1 .. Len(group) + 1
      BY <1>1, FirstInGroup
    <3> QED
      BY <1>2, <1>6, <3>1
  <2>3. b \in DOMAIN group' /\ group'[b] = watermark' /\ \A p \in First' .. b : Settled(group[p])'
    BY <1>1, <1>2, <2>1, <2>2 DEF Settled
  <2> QED
    BY <2>3 DEF WatermarkInv
<1> QED
  BY <1>12, <1>13, <1>14, <1>15, <1>16, <1>17 DEF OrderInv

(* A fetch begins behind the watermark, where everything is done, or at the *)
(* start of the page.                                                       *)
LEMMA FetchOrder == ASSUME TypeInv, OrderInv, Fetch PROVE OrderInv'
<1>1. /\ group \in Seq(Messages) /\ scan.at = "idle" /\ job[Poller].at = "idle"
      /\ UNCHANGED <<deployment, group, calls, processed, job, watermark, handled, cut>>
  BY DEF Fetch, TypeInv, IngressTypeOK, OrderInv, BusyInv
<1>2. \A m : Taken(m)' <=> Taken(m)
  BY <1>1, SameTaken
<1>3. /\ First' = First
      /\ \A p : (Done(p)' <=> Done(p)) /\ (Closed(p)' <=> Closed(p))
      /\ \A x, y : Before(x, y)' <=> Before(x, y)
  BY <1>1, <1>2, SamePositions
<1>4. Alone' /\ GroupInv' /\ KnownInv' /\ HandledInv' /\ WatermarkInv'
  BY <1>1, <1>2, <1>3 DEF OrderInv, Alone, GroupInv, KnownInv, HandledInv, WatermarkInv, Settled
<1>5. BusyInv'
  <2>1. scan'.at # "saving"
    BY IdleTyped DEF Fetch
  <2> QED
    BY <1>1, <2>1 DEF BusyInv
<1>6. BatchInv'
  <2>1. CASE watermark = Torn
    <3>1. scan'.at = "dead"
      BY <2>1, IdleTyped DEF Fetch
    <3> QED
      BY <3>1 DEF BatchInv
  <2>2. CASE watermark # Torn
    <3> DEFINE u == Unseen(Page, watermark)
               b == Len(group)
    <3>1. scan' = [at |-> "batch", batch |-> u,
                   newest |-> IF Page = <<>> THEN watermark ELSE Last(Page)]
      BY <2>2 DEF Fetch
    <3>2. /\ First \in 1 .. b + 1 /\ b \in Nat /\ DOMAIN group = 1 .. b
          /\ group # <<>> => First <= b
      BY <1>1, FirstInGroup
    <3>3. PICK k \in First .. b + 1 :
             /\ Len(u) = b - k + 1
             /\ \A i \in 1 .. Len(u) : u[i] = group[k - 1 + i]
             /\ k > First => k - 1 \in DOMAIN group /\ group[k - 1] = watermark
      BY <1>1, UnseenElements
    <3> HIDE DEF u
    <3>4. scan'.newest \in Messages => b \in DOMAIN group /\ scan'.newest = group[b]
      <4>1. CASE group = <<>>
        <5>1. DOMAIN group = {}
          BY <4>1
        <5>2. watermark \notin Messages
          BY <5>1 DEF OrderInv, WatermarkInv
        <5>3. Page = <<>>
          <6>1. Len(Page) = 0 /\ Page \in Seq(Messages)
            BY <1>1, <3>2, <4>1, PageElements
          <6> QED
            BY <6>1, EmptySeq
        <5> QED
          BY <3>1, <5>2, <5>3
      <4>2. CASE group # <<>>
        <5>1. Len(Page) = b - First + 1 /\ First <= b /\ b \in DOMAIN group
          BY <1>1, <3>2, <4>2, PageElements
        <5>2. Len(Page) \in 1 .. Len(Page) /\ First + Len(Page) - 1 = b
          BY <3>2, <5>1
        <5>3. Page # <<>> /\ Page[Len(Page)] = group[b]
          BY <1>1, <5>2, PageElements
        <5> QED
          BY <3>1, <5>1, <5>3 DEF Last
      <4> QED
        BY <4>1, <4>2
    <3>5. ASSUME NEW p \in DOMAIN group, First <= p, p < k PROVE Done(p)
      <4>1. k > First /\ k - 1 \in DOMAIN group /\ group[k - 1] = watermark /\ p <= k - 1
        BY <3>2, <3>3, <3>5
      <4>2. watermark \in Messages
        BY <1>1, <4>1, ElementOfSeq
      <4>3. PICK c \in DOMAIN group : group[c] = watermark /\ \A q \in First .. c : Settled(group[q])
        BY <4>2 DEF OrderInv, WatermarkInv
      <4>4. c = k - 1
        BY <4>1, <4>3 DEF OrderInv, GroupInv
      <4>5. p \in First .. c
        BY <3>2, <3>5, <4>1, <4>4
      <4> QED
        BY <4>3, <4>5 DEF Settled, Done, Taken
    <3>6. \A p \in DOMAIN group : k <= p => Closed(p)
      <4>1. \A p \in DOMAIN group : k <= p => First <= p
        BY <3>2
      <4> QED
        BY <4>1 DEF OrderInv, GroupInv
    <3>7. ~Unmarked'
      BY <1>1 DEF Unmarked
    <3>8. scan'.batch = u
      BY <3>1
    <3> HIDE DEF b
    <3>9. BatchAt(k, b)'
      BY <1>1, <1>3, <3>3, <3>4, <3>5, <3>6, <3>7, <3>8 DEF BatchAt, b
    <3>10. k \in 1 .. Len(group') + 1 /\ b \in 0 .. Len(group')
      BY <1>1, <3>2 DEF b
    <3> QED
      BY <3>9, <3>10, <1>1 DEF BatchInv, b
  <2> QED
    BY <2>1, <2>2
<1> QED
  BY <1>4, <1>5, <1>6 DEF OrderInv

(* The next item leaves the batch: an echo is done by that, another message *)
(* is routed and not marked yet.                                            *)
LEMMA ItemOrder == ASSUME TypeInv, OrderInv, NextItem PROVE OrderInv'
<1>1. /\ group \in Seq(Messages) /\ scan.at = "batch" /\ scan.batch # <<>> /\ job[Poller].at = "idle"
      /\ scan.batch \in Seq(Messages) /\ scan \in ScanState /\ job \in [Routers -> Job] /\ Poller \in Routers
      /\ UNCHANGED <<deployment, group, calls, processed, watermark, handled, cut>>
  BY DEF NextItem, TypeInv, IngressTypeOK, Shapes, Routers
<1>2. /\ scan'.at = "batch" /\ scan'.batch = Tail(scan.batch) /\ scan'.newest = scan.newest
  BY <1>1 DEF NextItem, ScanState
<1>3. /\ \A r \in Routers \ {Poller} : job'[r] = job[r]
      /\ Head(scan.batch) \in Echoes => job' = job
      /\ Head(scan.batch) \notin Echoes =>
            job'[Poller].at = "load" /\ job'[Poller].msg = Head(scan.batch)
  BY <1>1 DEF NextItem
<1>4. \A m : Taken(m)' <=> Taken(m)
  BY <1>1, <1>3, SameTaken
<1>5. /\ First' = First
      /\ \A p : (Done(p)' <=> Done(p)) /\ (Closed(p)' <=> Closed(p))
      /\ \A x, y : Before(x, y)' <=> Before(x, y)
  BY <1>1, <1>4, SamePositions
<1>6. job'[Poller].at \in {"idle", "load"}
  BY <1>1, <1>3
<1>7. Alone' /\ GroupInv' /\ KnownInv' /\ HandledInv' /\ WatermarkInv' /\ BusyInv'
  BY <1>1, <1>2, <1>3, <1>4, <1>5, <1>6
     DEF OrderInv, Alone, GroupInv, KnownInv, HandledInv, WatermarkInv, Settled, BusyInv
<1>8. BatchInv'
  <2>1. PICK k \in 1 .. Len(group) + 1, b \in 0 .. Len(group) : BatchAt(k, b)
    BY <1>1 DEF OrderInv, BatchInv
  <2>2. ~Unmarked
    BY <1>1 DEF Unmarked
  <2>3. /\ Len(scan.batch) = b - k + 1
        /\ \A i \in 1 .. Len(scan.batch) : scan.batch[i] = group[k - 1 + i]
        /\ scan.newest \in Messages => b \in DOMAIN group /\ scan.newest = group[b]
        /\ \A p \in DOMAIN group : First <= p /\ p < k => Done(p)
        /\ \A p \in DOMAIN group : k <= p => Closed(p)
    BY <2>1, <2>2 DEF BatchAt
  <2>4. /\ Len(group) \in Nat /\ DOMAIN group = 1 .. Len(group) /\ First \in Int
        /\ Len(scan.batch) \in Nat /\ Len(scan.batch) > 0
    BY <1>1, FirstInGroup, EmptySeq
  <2>5. /\ Head(scan.batch) = group[k] /\ k \in DOMAIN group
        /\ k + 1 \in 1 .. Len(group) + 1 /\ k + 1 - 1 = k
    <3>1. Head(scan.batch) = scan.batch[1] /\ 1 \in 1 .. Len(scan.batch) /\ k - 1 + 1 = k
      BY <1>1, <2>4
    <3> QED
      BY <2>3, <2>4, <3>1
  <2>6. /\ Len(scan'.batch) = b - (k + 1) + 1
        /\ \A i \in 1 .. Len(scan'.batch) : scan'.batch[i] = group[k + 1 - 1 + i]
    <3>1. /\ Len(scan'.batch) = Len(scan.batch) - 1
          /\ \A i \in 1 .. Len(scan'.batch) : scan'.batch[i] = scan.batch[i + 1]
      BY <1>1, <1>2, HeadTailProperties
    <3>2. \A i \in 1 .. Len(scan'.batch) : scan.batch[i + 1] = group[k - 1 + (i + 1)]
      BY <2>3, <2>4, <3>1
    <3> QED
      BY <2>3, <2>4, <3>1, <3>2
  <2>7. \A p \in DOMAIN group : First <= p /\ p < k + 1 => Done(p) \/ p = k
    BY <2>3, <2>4
  <2>8. \A p \in DOMAIN group : k + 1 <= p => Closed(p)
    <3>1. \A p \in DOMAIN group : k + 1 <= p => k <= p
      BY <2>4
    <3> QED
      BY <2>3, <3>1
  <2>9. BatchAt(k + 1, b)'
    <3>1. CASE Head(scan.batch) \in Echoes
      <4>1. ~Unmarked' /\ Done(k)
        BY <1>1, <1>3, <2>5, <3>1 DEF Unmarked, Done
      <4> QED
        BY <1>1, <1>2, <1>5, <2>3, <2>6, <2>7, <2>8, <4>1 DEF BatchAt
    <3>2. CASE Head(scan.batch) \notin Echoes
      <4>1. Unmarked' /\ job'[Poller].msg = group[k]
        BY <1>3, <2>5, <3>2 DEF Unmarked
      <4>2. /\ \A p \in DOMAIN group : First <= p /\ p < k + 1 - 1 => Done(p)
            /\ \A p \in DOMAIN group : k + 1 - 1 <= p => Closed(p)
            /\ k + 1 - 1 \in DOMAIN group /\ job'[Poller].msg = group[k + 1 - 1]
        BY <2>3, <2>5, <4>1
      <4> QED
        BY <1>1, <1>2, <1>5, <2>3, <2>6, <4>1, <4>2 DEF BatchAt
    <3> QED
      BY <3>1, <3>2
  <2> QED
    BY <1>1, <2>5, <2>9 DEF BatchInv
<1> QED
  BY <1>7, <1>8 DEF OrderInv

(* The watermark is written when the batch is empty and nothing is routed:  *)
(* what is done is then settled.                                            *)
LEMMA SavingOrder ==
    ASSUME TypeInv, OrderInv, TruncateWatermark \/ SaveWatermark
    PROVE  OrderInv'
<1>1. /\ group \in Seq(Messages) /\ scan.at \in {"batch", "saving"} /\ scan.batch = <<>>
      /\ job[Poller].at = "idle" /\ scan \in ScanState
      /\ UNCHANGED <<deployment, group, calls, processed, job, handled, cut>>
  BY DEF TruncateWatermark, SaveWatermark, TypeInv, IngressTypeOK, Shapes, OrderInv, BusyInv
<1>2. \A m : Taken(m)' <=> Taken(m)
  BY <1>1, SameTaken
<1>3. /\ First' = First
      /\ \A p : (Done(p)' <=> Done(p)) /\ (Closed(p)' <=> Closed(p))
      /\ \A x, y : Before(x, y)' <=> Before(x, y)
  BY <1>1, <1>2, SamePositions
<1>4. Alone' /\ GroupInv' /\ KnownInv' /\ HandledInv'
  BY <1>1, <1>2, <1>3 DEF OrderInv, Alone, GroupInv, KnownInv, HandledInv
<1>5. CASE TruncateWatermark
  <2>1. scan'.at = "saving" /\ scan'.batch = scan.batch /\ scan'.newest = scan.newest
    BY <1>1, <1>5 DEF TruncateWatermark, ScanState
  <2>2. WatermarkInv'
    BY <1>5, IngressAssumption DEF TruncateWatermark, WatermarkInv
  <2>3. BusyInv'
    BY <1>1, <2>1 DEF BusyInv
  <2>4. \A k, b : BatchAt(k, b) => BatchAt(k, b)'
    BY <1>1, <1>3, <2>1 DEF BatchAt, Unmarked
  <2>5. BatchInv'
    BY <1>1, <2>4 DEF OrderInv, BatchInv
  <2> QED
    BY <1>4, <2>2, <2>3, <2>5 DEF OrderInv
<1>6. CASE SaveWatermark
  <2>1. scan'.at = "idle" /\ watermark' = scan.newest
    BY <1>6 DEF SaveWatermark, IdleScan
  <2>2. BusyInv' /\ BatchInv'
    BY <1>1, <2>1 DEF BusyInv, BatchInv
  <2>3. WatermarkInv'
    <3> SUFFICES ASSUME scan.newest \in Messages PROVE WatermarkInv'
      BY <2>1 DEF WatermarkInv
    <3>1. PICK k \in 1 .. Len(group) + 1, b \in 0 .. Len(group) : BatchAt(k, b)
      BY <1>1 DEF OrderInv, BatchInv
    <3>2. ~Unmarked
      BY <1>1 DEF Unmarked
    <3>3. /\ b = k - 1 /\ b \in DOMAIN group /\ scan.newest = group[b]
          /\ \A p \in DOMAIN group : First <= p /\ p < k => Done(p)
      <4>1. Len(scan.batch) = 0
        BY <1>1
      <4> QED
        BY <3>1, <3>2, <4>1 DEF BatchAt
    <3>4. ASSUME NEW p \in First .. b PROVE Settled(group[p])
      <4>1. First \in 1 .. Len(group) + 1 /\ DOMAIN group = 1 .. Len(group) /\ Len(group) \in Nat
        BY <1>1, FirstInGroup
      <4>2. p \in DOMAIN group /\ First <= p /\ p < k
        BY <3>3, <4>1
      <4>3. \A r \in Routers : job[r].at # "handle"
        BY <1>1 DEF OrderInv, Alone
      <4> QED
        BY <3>3, <4>2, <4>3 DEF Done, Taken, Settled
    <3>5. \A p \in First .. b : Settled(group[p])'
      BY <1>1, <3>4 DEF Settled
    <3> QED
      BY <1>1, <1>3, <2>1, <3>3, <3>5 DEF WatermarkInv
  <2> QED
    BY <1>4, <2>2, <2>3 DEF OrderInv
<1> QED
  BY <1>5, <1>6

(* A scanner that dies, alone or with the message it routes, or a service   *)
(* that starts again, reads nothing more of its batch; what was about to be *)
(* handled then counts as cut.                                              *)
LEMMA StopOrder ==
    ASSUME TypeInv, OrderInv, ScanRaises \/ Restart \/ RouteRaises(Poller)
    PROVE  OrderInv'
<1>1. /\ UNCHANGED <<deployment, group, calls, processed, watermark, handled>>
      /\ scan'.at \in {"idle", "dead"}
      /\ Poller \in Routers /\ job \in [Routers -> Job]
  BY IdleTyped DEF ScanRaises, Restart, RouteRaises, Ending, Routers, TypeInv, Shapes
<1>2. job'[Poller].at = "idle" /\ \A r \in Routers \ {Poller} : job'[r].at = "idle"
  BY <1>1 DEF ScanRaises, Restart, RouteRaises, IdleJob, OrderInv, Alone
<1>3. \A m : Taken(m)' <=> Taken(m)
  <2>1. CASE ScanRaises
    BY <2>1, SameTaken DEF ScanRaises
  <2>2. CASE Restart \/ RouteRaises(Poller)
    <3>1. cut' = cut \cup {job[r].msg : r \in {x \in Routers : job[x].at = "handle"}}
      <4>1. CASE Restart
        BY <4>1 DEF Restart
      <4>2. CASE RouteRaises(Poller)
        <5>1. cut' = IF job[Poller].at = "handle" THEN cut \cup {job[Poller].msg} ELSE cut
          BY <4>2 DEF RouteRaises
        <5>2. \A x \in Routers : job[x].at = "handle" => x = Poller
          BY DEF OrderInv, Alone
        <5> QED
          BY <1>1, <5>1, <5>2
      <4> QED
        BY <2>2, <4>1, <4>2
    <3>2. \A r \in Routers : job'[r].at # "handle"
      BY <1>2
    <3> QED
      BY <1>1, <3>1, <3>2 DEF Taken
  <2> QED
    BY <2>1, <2>2
<1>4. cut \subseteq cut'
  BY DEF ScanRaises, Restart, RouteRaises
<1>5. /\ First' = First
      /\ \A p : (Done(p)' <=> Done(p)) /\ (Closed(p)' <=> Closed(p))
      /\ \A x, y : Before(x, y)' <=> Before(x, y)
  BY <1>1, <1>3, SamePositions
<1>6. \A m : Settled(m) => Settled(m)'
  BY <1>1, <1>4 DEF Settled
<1>7. Alone' /\ GroupInv' /\ KnownInv' /\ BatchInv' /\ BusyInv' /\ HandledInv'
  BY <1>1, <1>2, <1>3, <1>5
     DEF OrderInv, Alone, GroupInv, KnownInv, BatchInv, BusyInv, HandledInv
<1>8. WatermarkInv'
  BY <1>1, <1>5, <1>6 DEF OrderInv, WatermarkInv
<1> QED
  BY <1>7, <1>8 DEF OrderInv

(* Only the scanner routes.                                                 *)
LEMMA OnlyPoller ==
    ASSUME OrderInv, NEW r \in Routers, Route(r) \/ RouteRaises(r)
    PROVE  r = Poller
BY DEF OrderInv, Alone, Route, LoadDedupeState, TruncateDedupeState, MarkProcessed, StampTask,
       RunLane, RouteRaises

(* A message that is in the index was taken, one that is not was not.       *)
LEMMA LoadOrder == ASSUME TypeInv, MarksTaken, OrderInv, LoadDedupeState(Poller) PROVE OrderInv'
<1>1. /\ group \in Seq(Messages) /\ job[Poller].at = "load" /\ scan.at = "batch"
      /\ job[Poller].msg \in Messages /\ job \in [Routers -> Job] /\ Poller \in Routers
      /\ UNCHANGED <<deployment, group, calls, processed, watermark, handled, cut>>
      /\ \A r \in Routers \ {Poller} : job'[r] = job[r]
  BY DEF LoadDedupeState, TypeInv, IngressTypeOK, Shapes, Routers, OrderInv, BusyInv
<1>2. job'[Poller].at \in {"idle", "truncate"}
  BY <1>1 DEF LoadDedupeState, IdleJob
<1>3. \A m : Taken(m)' <=> Taken(m)
  BY <1>1, <1>2, SameTaken
<1>4. /\ First' = First
      /\ \A p : (Done(p)' <=> Done(p)) /\ (Closed(p)' <=> Closed(p))
      /\ \A x, y : Before(x, y)' <=> Before(x, y)
  BY <1>1, <1>3, SamePositions
<1>5. Alone' /\ GroupInv' /\ HandledInv' /\ WatermarkInv'
  BY <1>1, <1>3, <1>4 DEF OrderInv, Alone, GroupInv, HandledInv, WatermarkInv, Settled
<1>6. CASE processed = Torn
  <2>1. scan'.at = "dead" /\ job'[Poller].at = "idle"
    BY <1>1, <1>6, IdleTyped DEF LoadDedupeState, Ending
  <2>2. KnownInv' /\ BatchInv' /\ BusyInv'
    BY <1>1, <1>3, <2>1 DEF OrderInv, KnownInv, BatchInv, BusyInv
  <2> QED
    BY <1>5, <2>2 DEF OrderInv
<1>7. CASE processed # Torn
  <2>1. PICK k \in 1 .. Len(group) + 1, b \in 0 .. Len(group) : BatchAt(k, b)
    BY <1>1 DEF OrderInv, BatchInv
  <2>2. UNCHANGED scan /\ Unmarked
    BY <1>1, <1>7 DEF LoadDedupeState, Unmarked
  <2>3. CASE Key(Poller, job[Poller].msg) \in processed
    <3>1. job'[Poller].at = "idle"
      BY <1>1, <1>7, <2>3 DEF LoadDedupeState, IdleJob
    <3>2. Taken(job[Poller].msg)
      BY <1>7, <2>3 DEF MarksTaken, Key
    <3>3. /\ k - 1 \in DOMAIN group /\ Done(k - 1)
          /\ \A p \in DOMAIN group : First <= p /\ p < k - 1 => Done(p)
          /\ \A p \in DOMAIN group : k - 1 <= p => Closed(p)
      BY <2>1, <2>2, <3>2 DEF BatchAt, Done
    <3>4. /\ \A p \in DOMAIN group : First <= p /\ p < k => Done(p)
          /\ \A p \in DOMAIN group : k <= p => Closed(p)
      <4>1. DOMAIN group \subseteq Int
        BY <1>1
      <4>2. \A p \in DOMAIN group : (p < k => p < k - 1 \/ p = k - 1) /\ (k <= p => k - 1 <= p)
        BY <4>1
      <4> QED
        BY <3>3, <4>2
    <3>5. BatchAt(k, b)'
      BY <1>1, <1>4, <2>1, <2>2, <3>1, <3>4 DEF BatchAt, Unmarked
    <3>6. BatchInv'
      BY <1>1, <3>5 DEF BatchInv
    <3>7. KnownInv' /\ BusyInv'
      BY <1>1, <1>3, <2>2, <3>1 DEF OrderInv, KnownInv, BusyInv
    <3> QED
      BY <1>5, <3>6, <3>7 DEF OrderInv
  <2>4. CASE Key(Poller, job[Poller].msg) \notin processed
    <3>1. /\ job'[Poller].at = "truncate" /\ job'[Poller].msg = job[Poller].msg
          /\ job'[Poller].snap = processed
      <4>1. job' = [job EXCEPT ![Poller] =
                      [at |-> "truncate", msg |-> job[Poller].msg, snap |-> processed]]
        BY <1>7, <2>4 DEF LoadDedupeState
      <4> QED
        BY <1>1, <4>1
    <3>2. ~Taken(job[Poller].msg)
      BY <1>1, <1>7, <2>4 DEF OrderInv, KnownInv
    <3>3. KnownInv' /\ BusyInv'
      BY <1>1, <1>3, <1>7, <2>2, <3>1, <3>2 DEF OrderInv, KnownInv, BusyInv
    <3>4. Unmarked'
      BY <3>1 DEF Unmarked
    <3>5. BatchAt(k, b)'
      BY <1>1, <1>4, <2>1, <2>2, <3>1, <3>4 DEF BatchAt
    <3>6. BatchInv'
      BY <1>1, <3>5 DEF BatchInv
    <3> QED
      BY <1>5, <3>3, <3>6 DEF OrderInv
  <2> QED
    BY <2>3, <2>4
<1> QED
  BY <1>6, <1>7

(* The truncated index says nothing, the scanner's copy still knows.        *)
LEMMA TruncateOrder == ASSUME TypeInv, OrderInv, TruncateDedupeState(Poller) PROVE OrderInv'
<1>1. /\ job[Poller].at = "truncate" /\ scan.at = "batch" /\ processed' = Torn
      /\ job \in [Routers -> Job] /\ Poller \in Routers
      /\ UNCHANGED <<deployment, group, calls, scan, watermark, handled, cut>>
      /\ \A r \in Routers \ {Poller} : job'[r] = job[r]
  BY DEF TruncateDedupeState, TypeInv, Shapes, Routers, OrderInv, BusyInv
<1>2. /\ job'[Poller].at = "write" /\ job'[Poller].msg = job[Poller].msg
      /\ job'[Poller].snap = job[Poller].snap
  BY <1>1 DEF TruncateDedupeState, Job
<1>3. \A m : Taken(m)' <=> Taken(m)
  BY <1>1, <1>2, SameTaken
<1>4. /\ First' = First
      /\ \A p : (Done(p)' <=> Done(p)) /\ (Closed(p)' <=> Closed(p))
      /\ \A x, y : Before(x, y)' <=> Before(x, y)
  BY <1>1, <1>3, SamePositions
<1>5. Alone' /\ GroupInv' /\ KnownInv' /\ BusyInv' /\ HandledInv' /\ WatermarkInv'
  BY <1>1, <1>2, <1>3, <1>4
     DEF OrderInv, Alone, GroupInv, KnownInv, BusyInv, HandledInv, WatermarkInv, Settled
<1>6. Unmarked /\ Unmarked'
  BY <1>1, <1>2 DEF Unmarked
<1>7. \A k, b : BatchAt(k, b) => BatchAt(k, b)'
  BY <1>1, <1>2, <1>4, <1>6 DEF BatchAt
<1>8. BatchInv'
  BY <1>1, <1>7 DEF OrderInv, BatchInv
<1> QED
  BY <1>5, <1>8 DEF OrderInv

(* The mark takes the message: what the page shows before it is done, and   *)
(* what was handled comes before it, since otherwise it would be marked.    *)
LEMMA MarkOrder == ASSUME TypeInv, OrderInv, MarkProcessed(Poller) PROVE OrderInv'
<1> DEFINE m == job[Poller].msg
<1>1. /\ group \in Seq(Messages) /\ job[Poller].at = "write" /\ scan.at = "batch" /\ Unmarked
      /\ m \in Messages \ Echoes /\ job \in [Routers -> Job] /\ Poller \in Routers /\ ~Taken(m)
      /\ processed' = job[Poller].snap \cup {Key(Poller, m)}
      /\ UNCHANGED <<deployment, group, calls, scan, watermark, handled, cut>>
      /\ \A r \in Routers \ {Poller} : job'[r] = job[r]
  BY DEF MarkProcessed, TypeInv, IngressTypeOK, Shapes, Routers, OrderInv, BusyInv, Unmarked
<1>2. job'[Poller].at = "handle" /\ job'[Poller].msg = m
  BY <1>1 DEF MarkProcessed
<1>3. \A x : Taken(x)' <=> Taken(x) \/ x = m
  BY <1>1, <1>2 DEF Taken
<1>4. First' = First /\ \A x, y : Before(x, y)' <=> Before(x, y)
  BY <1>1 DEF First, Before
<1>5. PICK k \in 1 .. Len(group) + 1, b \in 0 .. Len(group) : BatchAt(k, b)
  BY <1>1 DEF OrderInv, BatchInv
<1>6. /\ k - 1 \in DOMAIN group /\ group[k - 1] = m
      /\ \A p \in DOMAIN group : First <= p /\ p < k - 1 => Done(p)
      /\ \A p \in DOMAIN group : k - 1 <= p => Closed(p)
  BY <1>1, <1>5 DEF BatchAt
<1>7. /\ \A p \in DOMAIN group : Done(p)' <=> Done(p) \/ p = k - 1
      /\ \A q \in DOMAIN group : Taken(group[q])' <=> Taken(group[q]) \/ q = k - 1
  <2>1. \A q \in DOMAIN group : group[q] = m <=> q = k - 1
    BY <1>6 DEF OrderInv, GroupInv
  <2>2. \A q \in DOMAIN group : Taken(group[q])' <=> Taken(group[q]) \/ q = k - 1
    BY <1>1, <1>3, <2>1
  <2> QED
    BY <1>1, <2>2 DEF Done
<1>8. DOMAIN group \subseteq Int /\ k \in Int
  BY <1>1
<1> HIDE DEF m
<1>9. Alone'
  BY <1>1, <1>2 DEF OrderInv, Alone
<1>10. GroupInv'
  <2>1. ASSUME NEW p \in DOMAIN group, First <= p PROVE Closed(p)'
    <3> SUFFICES ASSUME NEW q \in DOMAIN group, p <= q, Taken(group[q])' PROVE Done(p)'
      BY <1>1 DEF Closed
    <3>1. CASE Taken(group[q])
      BY <1>7, <2>1, <3>1 DEF OrderInv, GroupInv, Closed
    <3>2. CASE q = k - 1
      BY <1>6, <1>7, <1>8, <2>1, <3>2
    <3> QED
      BY <1>7, <3>1, <3>2
  <2> QED
    BY <1>1, <1>4, <2>1 DEF OrderInv, GroupInv
<1>11. KnownInv'
  <2>1. m \in Range(group)
    BY <1>6 DEF Range
  <2> QED
    BY <1>1, <1>2, <1>3, <2>1 DEF OrderInv, KnownInv
<1>12. BatchInv'
  <2>1. ~Unmarked'
    BY <1>2 DEF Unmarked
  <2>2. ASSUME NEW p \in DOMAIN group, First <= p, p < k PROVE Done(p)'
    BY <1>6, <1>7, <1>8, <2>2
  <2>3. ASSUME NEW p \in DOMAIN group, k <= p PROVE Closed(p)'
    <3> SUFFICES ASSUME NEW q \in DOMAIN group, p <= q, Taken(group[q])' PROVE Done(p)'
      BY <1>1 DEF Closed
    <3>1. q # k - 1 /\ k - 1 <= p
      BY <1>8, <2>3
    <3> QED
      BY <1>6, <1>7, <3>1 DEF Closed
  <2>4. BatchAt(k, b)'
    BY <1>1, <1>4, <1>5, <2>1, <2>2, <2>3 DEF BatchAt
  <2> QED
    BY <1>1, <2>4 DEF BatchInv
<1>13. BusyInv'
  <2>1. ASSUME NEW h \in Range(handled) PROVE Before(h, m)
    <3>1. Taken(h) /\ h \in Messages
      BY ElementOfSeq DEF Taken, TypeInv, IngressTypeOK, Range
    <3>2. PICK q \in DOMAIN group : group[q] = h
      BY <3>1 DEF OrderInv, KnownInv, Range
    <3>3. ~(k - 1 <= q)
      BY <1>1, <1>6, <1>8, <3>1, <3>2 DEF Closed, Done
    <3>4. q < k - 1
      BY <1>8, <3>3
    <3> QED
      BY <1>6, <3>2, <3>4 DEF Before
  <2> QED
    BY <1>1, <1>2, <1>4, <2>1 DEF BusyInv
<1>14. HandledInv' /\ WatermarkInv'
  BY <1>1, <1>4 DEF OrderInv, HandledInv, WatermarkInv, Settled
<1> QED
  BY <1>9, <1>10, <1>11, <1>12, <1>13, <1>14 DEF OrderInv

(* The lane appends a message that comes after all that were handled; the   *)
(* scanner goes on with its batch, or dies of the report.                   *)
LEMMA LaneOrder == ASSUME TypeInv, OrderInv, RunLane(Poller) PROVE OrderInv'
<1> DEFINE m == job[Poller].msg
<1>1. /\ job[Poller].at = "handle" /\ scan.at = "batch" /\ m \in Messages
      /\ handled \in Seq(Messages) /\ handled' = Append(handled, m)
      /\ job \in [Routers -> Job] /\ Poller \in Routers
      /\ UNCHANGED <<deployment, group, calls, processed, watermark, cut>>
      /\ scan' \in {scan, DeadScan}
      /\ \A r \in Routers \ {Poller} : job'[r] = job[r]
      /\ \A h \in Range(handled) : Before(h, m)
  BY DEF RunLane, Ending, TypeInv, IngressTypeOK, Shapes, Routers, OrderInv, BusyInv
<1>2. job'[Poller].at = "idle"
  BY <1>1 DEF RunLane, IdleJob
<1>3. Range(handled') = Range(handled) \cup {m}
  BY <1>1, Appended
<1>4. \A x : Taken(x)' <=> Taken(x)
  BY <1>1, <1>2, <1>3 DEF Taken
<1>5. /\ First' = First
      /\ \A p : (Done(p)' <=> Done(p)) /\ (Closed(p)' <=> Closed(p))
      /\ \A x, y : Before(x, y)' <=> Before(x, y)
  BY <1>1, <1>4, SamePositions
<1>6. Alone' /\ GroupInv' /\ KnownInv' /\ BusyInv'
  BY <1>1, <1>2, <1>4, <1>5, IdleTyped DEF OrderInv, Alone, GroupInv, KnownInv, BusyInv
<1>7. ~Unmarked /\ ~Unmarked'
  BY <1>1, <1>2 DEF Unmarked
<1>9. BatchInv'
  <2>1. CASE scan' = DeadScan
    BY <2>1, IdleTyped DEF BatchInv
  <2>2. CASE scan' = scan
    <3>1. \A k, b : BatchAt(k, b) => BatchAt(k, b)'
      BY <1>1, <1>5, <1>7, <2>2 DEF BatchAt
    <3> QED
      BY <1>1, <2>2, <3>1 DEF OrderInv, BatchInv
  <2> QED
    BY <1>1, <2>1, <2>2
<1>10. WatermarkInv'
  <2>1. \A x : Settled(x) => Settled(x)'
    BY <1>1, <1>3 DEF Settled
  <2> QED
    BY <1>1, <1>5, <2>1 DEF OrderInv, WatermarkInv
<1>11. HandledInv'
  <2>1. /\ DOMAIN handled = 1 .. Len(handled) /\ Len(handled) \in Nat
        /\ DOMAIN handled' = 1 .. Len(handled) + 1
        /\ \A i \in 1 .. Len(handled) : handled'[i] = handled[i]
        /\ handled'[Len(handled) + 1] = m
    BY <1>1, AppendProperties
  <2>2. \A i \in 1 .. Len(handled) : Before(handled[i], m)
    BY <1>1, <2>1 DEF Range
  <2>3. \A i, j \in 1 .. Len(handled) : i < j => Before(handled[i], handled[j])
    BY <2>1 DEF OrderInv, HandledInv
  <2> SUFFICES ASSUME NEW i \in DOMAIN handled', NEW j \in DOMAIN handled', i < j
               PROVE  Before(handled'[i], handled'[j])
    BY <1>5 DEF HandledInv
  <2>4. i \in 1 .. Len(handled) /\ (j \in 1 .. Len(handled) \/ j = Len(handled) + 1)
    BY <2>1
  <2> QED
    BY <2>1, <2>2, <2>3, <2>4
<1> QED
  BY <1>6, <1>9, <1>10, <1>11 DEF OrderInv

(* OrderInv is kept while only the scanner runs.                            *)
LEMMA OrderKept ==
    ASSUME TypeInv, MarksTaken, deployment = "polling", OrderInv, [Next]_vars
    PROVE  OrderInv'
<1>1. ASSUME NEW m \in Messages, Post(m) PROVE OrderInv'
  BY <1>1, PostOrder
<1>2. ASSUME NEW t \in Threads, NEW m \in Messages, Receive(t, m) PROVE FALSE
  BY <1>2 DEF Receive, OrderInv, Alone
<1>3. CASE Scan
  BY <1>3, FetchOrder, ItemOrder, SavingOrder DEF Scan
<1>4. CASE ScanRaises \/ Restart
  BY <1>4, StopOrder
<1>5. ASSUME NEW r \in Routers, Route(r) \/ RouteRaises(r), ~StampTask(r) PROVE OrderInv'
  BY <1>5, OnlyPoller, LoadOrder, TruncateOrder, MarkOrder, LaneOrder, StopOrder DEF Route
<1>6. CASE (\E w \in Workers : Work(w) \/ WorkerRaises(w)) \/ Tick \/ UNCHANGED vars
           \/ (\E r \in Routers : StampTask(r))
  <2>1. UNCHANGED orderVars
    BY <1>6 DEF Work, FetchNextPending, MarkRunning, ProcessChatTask, CloseTask, WorkerRaises, Tick,
       StampTask, vars, orderVars
  <2> QED
    BY <2>1, OrderFrame
<1> QED
  BY <1>1, <1>2, <1>3, <1>4, <1>5, <1>6 DEF Next

LEMMA OrderAtStart == Init => OrderInv
<1> SUFFICES ASSUME Init PROVE OrderInv
  OBVIOUS
<1>1. \A m : ~Taken(m)
  BY DEF Init, Taken, IdleJob, Range
<1>2. watermark \notin Messages
  BY IngressAssumption DEF Init
<1>3. /\ DOMAIN group = {} /\ DOMAIN handled = {} /\ scan.at = "idle"
      /\ \A r \in Routers : job[r].at = "idle"
      /\ \A m \in Messages : calls[m] = 0
  BY DEF Init, IdleJob, IdleScan
<1>4. Poller \in Routers
  BY DEF Routers
<1>5. Alone /\ GroupInv /\ HandledInv
  BY <1>3 DEF Alone, GroupInv, HandledInv
<1>6. KnownInv /\ BatchInv /\ BusyInv /\ WatermarkInv
  BY <1>1, <1>2, <1>3, <1>4 DEF KnownInv, BatchInv, BusyInv, WatermarkInv
<1> QED
  BY <1>5, <1>6 DEF OrderInv

THEOREM OrderInvariance == Spec => [](deployment = "polling" => OrderInv)
<1>1. MarksTaken /\ TypeInv /\ [Next]_vars => MarksTaken'
  BY MarksKept
<1>2. Init => MarksTaken
  BY DEF Init, MarksTaken, IdleJob
<1>3. TypeInv /\ MarksTaken /\ (deployment = "polling" => OrderInv) /\ [Next]_vars
        => (deployment = "polling" => OrderInv)'
  <2>1. [Next]_vars => UNCHANGED deployment
    BY DEF Next, Post, Receive, Scan, Fetch, NextItem, TruncateWatermark, SaveWatermark, ScanRaises,
       Route, LoadDedupeState, TruncateDedupeState, MarkProcessed, StampTask, RunLane, RouteRaises,
       Work, FetchNextPending, MarkRunning, ProcessChatTask, CloseTask, WorkerRaises, Restart, Tick, vars
  <2> QED
    BY <2>1, OrderKept
<1> QED
  BY <1>1, <1>2, <1>3, OrderAtStart, TypeInvariance, PTL DEF Spec

LEMMA PositionOf ==
    ASSUME GroupInv, NEW p \in DOMAIN group
    PROVE  Position(group[p]) = p
BY DEF GroupInv, Position

(* Where only the scanner runs, messages take effect in the order of the    *)
(* group and none twice, for any page size, whatever restarts and           *)
(* exceptions cut a batch and make the next scan read it again.             *)
THEOREM OrderHolds == Spec => []HandledInOrder
<1>1. ASSUME TypeInv, deployment = "polling" => OrderInv PROVE HandledInOrder
  <2> SUFFICES ASSUME deployment = "polling", NEW i \in DOMAIN handled, NEW j \in DOMAIN handled, i < j
               PROVE  Position(handled[i]) < Position(handled[j])
    BY DEF HandledInOrder, Ascending
  <2>1. PICK p \in DOMAIN group, q \in DOMAIN group :
           p < q /\ group[p] = handled[i] /\ group[q] = handled[j]
    BY <1>1 DEF OrderInv, HandledInv, Before
  <2> QED
    BY <1>1, <2>1, PositionOf DEF OrderInv
<1> QED
  BY <1>1, OrderInvariance, TypeInvariance, PTL

(* While a page holds the whole group, the watermark hides no message but   *)
(* those whose lane a restart or an exception ended after the mark: what    *)
(* else it passed was handled or is an echo.                                *)
THEOREM WatermarkHidesNothing ==
    ASSUME \A h \in Histories : Len(h) <= PageSize
    PROVE  Spec => []WatermarkCovers
<1> DEFINE Fits == Len(group) <= PageSize
<1>1. Init => Fits
  BY IngressAssumption DEF Init
<1>2. TypeInv /\ Fits /\ [Next]_vars => Fits'
  <2> SUFFICES ASSUME TypeInv, Fits, [Next]_vars PROVE Fits'
    OBVIOUS
  <2>1. ASSUME NEW m \in Messages, Post(m) PROVE Fits'
    <3>1. PICK h \in Histories : IsPrefix(Append(group, m), h)
      BY <2>1 DEF Post
    <3>2. Len(group') <= Len(h) /\ Len(h) <= PageSize /\ h \in Seq(Messages) /\ group' = Append(group, m)
      BY <2>1, <3>1, IngressAssumption DEF Post, IsPrefix
    <3>3. group' \in Seq(Messages)
      BY <3>2, AppendProperties DEF TypeInv, IngressTypeOK
    <3>4. Len(group') \in Nat /\ Len(h) \in Nat /\ PageSize \in Nat
      BY <3>2, <3>3, IngressAssumption
    <3> QED
      BY <3>2, <3>4
  <2>2. ASSUME UNCHANGED group PROVE Fits'
    BY <2>2
  <2>3. (\A m \in Messages : ~Post(m)) => UNCHANGED group
    BY DEF Next, Receive, Scan, Fetch, NextItem, TruncateWatermark, SaveWatermark, ScanRaises,
       Route, LoadDedupeState, TruncateDedupeState, MarkProcessed, StampTask, RunLane, RouteRaises,
       Work, FetchNextPending, MarkRunning, ProcessChatTask, CloseTask, WorkerRaises, Restart, Tick, vars
  <2> QED
    BY <2>1, <2>2, <2>3
<1>3. ASSUME TypeInv, Fits, deployment = "polling" => OrderInv PROVE WatermarkCovers
  <2> SUFFICES ASSUME deployment = "polling", watermark \in Messages,
                      NEW m \in Posted, Position(m) <= Position(watermark)
               PROVE  m \in Range(handled) \cup Echoes \cup cut
    BY DEF WatermarkCovers
  <2>1. PICK b \in DOMAIN group : group[b] = watermark /\ \A p \in First .. b : Settled(group[p])
    BY <1>3 DEF OrderInv, WatermarkInv
  <2>2. PICK p \in DOMAIN group : group[p] = m
    BY DEF Posted, Range
  <2>3. p <= b
    BY <1>3, <2>1, <2>2, PositionOf DEF OrderInv
  <2>4. First = 1 /\ DOMAIN group = 1 .. Len(group)
    BY <1>3, FirstInGroup DEF TypeInv, IngressTypeOK
  <2>5. Settled(group[p])
    BY <2>1, <2>3, <2>4
  <2> QED
    BY <2>2, <2>5 DEF Settled
<1> QED
  BY <1>1, <1>2, <1>3, OrderInvariance, TypeInvariance, PTL DEF Spec

-----------------------------------------------------------------------------
(* Tasks.                                                                   *)

Answered == Range(answers)
Gone == \E w \in Workers : worker[w].at = "dead"

(* What the queue says, and of what one worker holds meanwhile.             *)
QueueInv ==
    /\ \A i \in Answered : tasks[i].status # "pending"
    /\ \A i \in DOMAIN tasks : tasks[i].status = "running" => Held(i) \/ restarts > 0 \/ Gone
    /\ IsInjective(answers)

WorkerInv(w) ==
    LET t == worker[w].task
    IN  /\ worker[w].at = "mark" => tasks[t].status = "pending"
        /\ worker[w].at \in {"reply", "close"} => tasks[t].status = "running"
        /\ worker[w].at = "reply" => t \notin Answered

(* What is answered, or about to be, is no younger than what is pending;    *)
(* what is queued next is no older than any row.                            *)
Age(i) == tasks[i].created
Waiting(a) == \A j \in Pending : Age(a) <= Age(j)
AgeInv(w) ==
    /\ \A i \in DOMAIN tasks : Age(i) <= now /\ (stamp[Poller] # 0 => Age(i) <= stamp[Poller])
    /\ \A a \in Answered : Waiting(a)
    /\ worker[w].at \in {"mark", "reply"} =>
         Waiting(worker[w].task) /\ \A a \in Answered : Age(a) <= Age(worker[w].task)
    /\ \A i, j \in DOMAIN answers : i < j => Age(answers[i]) <= Age(answers[j])

TaskInv(w) == QueueInv /\ WorkerInv(w) /\ (deployment = "polling" => AgeInv(w))

(* The types these proofs use.                                              *)
LEMMA TaskTypes ==
    ASSUME TypeInv, NEW w \in Workers
    PROVE  /\ tasks \in Seq(Task) /\ DOMAIN tasks = 1 .. Len(tasks) /\ Len(tasks) \in Nat
           /\ \A i \in DOMAIN tasks : tasks[i] \in Task /\ Age(i) \in Int
           /\ answers \in Seq(DOMAIN tasks) /\ Answered \subseteq DOMAIN tasks
           /\ worker \in [Workers -> WorkerState] /\ worker[w] \in WorkerState
           /\ worker[w].at \in {"mark", "reply", "close"} => worker[w].task \in DOMAIN tasks
           /\ restarts \in Nat /\ now \in Int /\ \A r \in Routers : stamp[r] \in Int
<1>1. tasks \in Seq(Task) /\ answers \in Seq(DOMAIN tasks)
  BY DEF TypeInv, IngressTypeOK, Task
<1>2. \A i \in DOMAIN tasks : tasks[i] \in Task
  BY <1>1, ElementOfSeq
<1>3. \A i \in DOMAIN tasks : Age(i) \in Int
  BY <1>2, IngressAssumption DEF Task, Age
<1>4. Answered \subseteq DOMAIN tasks
  BY <1>1, ElementOfSeq DEF Answered, Range
<1>5. now \in Int /\ \A r \in Routers : stamp[r] \in Int
  BY IngressAssumption DEF TypeInv, IngressTypeOK, ClockTypeOK
<1> QED
  BY <1>1, <1>2, <1>3, <1>4, <1>5 DEF TypeInv, IngressTypeOK, Shapes

(* A router appends a pending row no older than any, or leaves the queue.   *)
LEMMA LaneTask ==
    ASSUME TypeInv, NEW w, Workers = {w}, TaskInv(w), NEW r \in Routers, RunLane(r),
           deployment = "polling" => r = Poller
    PROVE  TaskInv(w)'
<1>1. /\ UNCHANGED <<deployment, worker, answers, restarts, now>>
      /\ stamp' = [stamp EXCEPT ![r] = 0] /\ stamp \in [Routers -> 0 .. MaxSeconds]
      /\ w \in Workers
  BY DEF RunLane, TypeInv, IngressTypeOK, ClockTypeOK
<1>2. /\ \A i : Held(i)' <=> Held(i)
      /\ Gone' <=> Gone
      /\ Answered' = Answered
  BY <1>1 DEF Held, Gone, Answered
<1>3. deployment = "polling" => stamp'[Poller] = 0
  BY <1>1
<1>4. CASE UNCHANGED tasks
  <2>1. QueueInv' /\ WorkerInv(w)'
    BY <1>1, <1>2, <1>4 DEF TaskInv, QueueInv, WorkerInv
  <2>2. deployment = "polling" => AgeInv(w)'
    BY <1>1, <1>2, <1>3, <1>4 DEF TaskInv, AgeInv, Waiting, Age, Pending, With
  <2> QED
    BY <1>1, <2>1, <2>2 DEF TaskInv
<1>5. CASE job[r].msg \in Chats
  <2> DEFINE row == [msg |-> job[r].msg, status |-> "pending", created |-> stamp[r]]
  <2>0. PICK n : n = Len(tasks) + 1
    OBVIOUS
  <2>10. PICK t : t = worker[w].task
    OBVIOUS
  <2>1. tasks' = Append(tasks, row) /\ row.status = "pending" /\ row.created = stamp[r] /\ stamp[r] # 0
    BY <1>5 DEF RunLane
  <2> HIDE DEF row
  <2>2. /\ DOMAIN tasks = 1 .. Len(tasks) /\ DOMAIN tasks' = 1 .. n /\ Len(tasks) \in Nat
        /\ \A i \in DOMAIN tasks : tasks'[i] = tasks[i]
        /\ tasks'[n] = row /\ n \notin DOMAIN tasks
    BY <2>0, <2>1, AppendProperties, TaskTypes, <1>1
  <2>3. /\ Answered \subseteq DOMAIN tasks
        /\ worker[w].at \in {"mark", "reply", "close"} => worker[w].task \in DOMAIN tasks
        /\ \A i \in DOMAIN answers : answers[i] \in DOMAIN tasks
    BY <1>1, TaskTypes, ElementOfSeq
  <2>4. \A i \in DOMAIN tasks' : i \in DOMAIN tasks \/ i = n
    BY <2>0, <2>2
  <2>5. QueueInv'
    BY <1>1, <1>2, <2>1, <2>2, <2>3, <2>4 DEF TaskInv, QueueInv
  <2>6. WorkerInv(w)'
    BY <1>1, <1>2, <2>2, <2>3 DEF TaskInv, WorkerInv
  <2>7. ASSUME deployment = "polling" PROVE AgeInv(w)'
    <3>1. \A i \in DOMAIN tasks : Age(i)' = Age(i)
      BY <2>2 DEF Age
    <3>2. Age(n)' = stamp[Poller] /\ stamp[Poller] # 0
      BY <2>1, <2>2, <2>7, Zenon DEF Age
    <3>3. \A i \in DOMAIN tasks : Age(i) <= now /\ Age(i) <= stamp[Poller]
      BY <2>7, <3>2 DEF TaskInv, AgeInv
    <3>4. stamp[Poller] <= now
      BY DEF TypeInv, IngressTypeOK, ClockTypeOK, Routers
    <3>5. \A j \in Pending' : j \in Pending \/ j = n
      BY <2>2, <2>4 DEF Pending, With
    <3>6. Pending \subseteq DOMAIN tasks
      BY DEF Pending, With
    <3>7. \A a \in DOMAIN tasks : Waiting(a) => Waiting(a)'
      <4> SUFFICES ASSUME NEW a \in DOMAIN tasks, Waiting(a), NEW j \in Pending'
                   PROVE  Age(a)' <= Age(j)'
        BY DEF Waiting
      <4>1. CASE j \in Pending
        BY <3>1, <3>6, <4>1 DEF Waiting
      <4>2. CASE j = n
        BY <3>1, <3>2, <3>3, <4>2
      <4> QED
        BY <3>5, <4>1, <4>2
    <3>8. \A i \in DOMAIN tasks' : Age(i)' <= now' /\ (stamp'[Poller] # 0 => Age(i)' <= stamp'[Poller])
      <4> SUFFICES ASSUME NEW i \in DOMAIN tasks' PROVE Age(i)' <= now
        BY <1>1, <1>3, <2>7
      <4>1. CASE i \in DOMAIN tasks
        BY <3>1, <3>3, <4>1
      <4>2. CASE i = n
        BY <3>2, <3>4, <4>2
      <4> QED
        BY <2>4, <4>1, <4>2
    <3>9. \A a \in Answered' : Waiting(a)'
      BY <1>2, <2>3, <2>7, <3>7 DEF TaskInv, AgeInv
    <3>10. worker[w].at \in {"mark", "reply"} =>
             Waiting(t)' /\ \A a \in Answered' : Age(a)' <= Age(t)'
      <4>1. worker[w].at \in {"mark", "reply"} =>
               t \in DOMAIN tasks /\ Waiting(t) /\ \A a \in Answered : Age(a) <= Age(t)
        BY <2>3, <2>7, <2>10 DEF TaskInv, AgeInv
      <4> QED
        BY <1>2, <2>3, <3>1, <3>7, <4>1
    <3>11. \A i, j \in DOMAIN answers : i < j => tasks'[answers[i]].created <= tasks'[answers[j]].created
      <4>1. \A i \in DOMAIN answers : tasks'[answers[i]].created = Age(answers[i])
        BY <2>2, <2>3 DEF Age
      <4>2. \A i, j \in DOMAIN answers : i < j => Age(answers[i]) <= Age(answers[j])
        BY <2>7 DEF TaskInv, AgeInv
      <4> QED
        BY <4>1, <4>2
    <3>12. worker'[w] = worker[w] /\ worker[w].task = t /\ answers' = answers
      BY <1>1, <2>10
    <3>13. worker'[w].at \in {"mark", "reply"} =>
             Waiting(worker[w].task)' /\ \A a \in Answered' : Age(a)' <= tasks'[worker'[w].task].created
      BY <3>10, <3>12 DEF Waiting, Age
    <3>14. \A i, j \in DOMAIN answers' : i < j => tasks'[answers'[i]].created <= tasks'[answers'[j]].created
      BY <3>11, <3>12
    <3> QED
      BY <3>8, <3>9, <3>13, <3>14 DEF AgeInv, Age
  <2> QED
    BY <1>1, <2>5, <2>6, <2>7 DEF TaskInv
<1> QED
  BY <1>4, <1>5 DEF RunLane

(* The steps of the only worker.                                            *)
LEMMA WorkTask ==
    ASSUME TypeInv, NEW w, Workers = {w}, TaskInv(w), Work(w) \/ WorkerRaises(w)
    PROVE  TaskInv(w)'
<1>0. PICK t : t = worker[w].task
  OBVIOUS
<1>1. /\ tasks \in Seq(Task) /\ answers \in Seq(DOMAIN tasks) /\ Answered \subseteq DOMAIN tasks
      /\ \A i \in DOMAIN tasks : tasks[i] \in Task /\ Age(i) \in Int
      /\ QueueInv /\ WorkerInv(w) /\ (deployment = "polling" => AgeInv(w))
      /\ worker \in [Workers -> WorkerState] /\ worker[w] \in WorkerState
      /\ worker[w].at \in {"mark", "reply", "close"} => t \in DOMAIN tasks
      /\ w \in Workers /\ restarts \in Nat
  BY <1>0, TaskTypes DEF TaskInv
<1>2. UNCHANGED <<deployment, restarts, clock>>
  BY DEF Work, FetchNextPending, MarkRunning, ProcessChatTask, CloseTask, WorkerRaises
<1>3. UNCHANGED <<now, stamp>>
  BY <1>2 DEF clock
<1>4. SUFFICES QueueInv' /\ WorkerInv(w)' /\ (deployment = "polling" => AgeInv(w)')
  BY <1>2 DEF TaskInv
<1>5. CASE FetchNextPending(w)
  <2>1. PICK i \in Oldest : worker' = [worker EXCEPT ![w] = [at |-> "mark", task |-> i, ok |-> FALSE]]
    BY <1>5 DEF FetchNextPending
  <2>2. /\ worker[w].at = "idle" /\ UNCHANGED <<tasks, answers>>
        /\ worker'[w].at = "mark" /\ worker'[w].task = i
    BY <1>1, <1>5, <2>1 DEF FetchNextPending
  <2>3. i \in Pending /\ tasks[i].status = "pending" /\ Waiting(i)
    BY <2>1 DEF Oldest, Pending, With, Waiting, Age
  <2>4. (\A j : ~Held(j)) /\ ~Gone /\ Answered' = Answered
    BY <2>2 DEF Held, Gone, Answered
  <2>5. QueueInv'
    BY <1>1, <1>2, <2>2, <2>4 DEF QueueInv
  <2>6. WorkerInv(w)'
    BY <2>2, <2>3 DEF WorkerInv
  <2>7. deployment = "polling" => AgeInv(w)'
    <3>1. \A a : (Age(a)' = Age(a)) /\ (Waiting(a)' <=> Waiting(a))
      BY <2>2 DEF Age, Waiting, Pending, With
    <3>2. deployment = "polling" => \A a \in Answered : Age(a) <= Age(i)
      BY <1>1, <2>3 DEF AgeInv, Waiting
    <3> QED
      BY <1>1, <1>3, <2>2, <2>3, <2>4, <3>1, <3>2 DEF AgeInv
  <2> QED
    BY <2>5, <2>6, <2>7
<1>6. CASE MarkRunning(w)
  <2>1. /\ worker[w].at = "mark" /\ t \in DOMAIN tasks /\ UNCHANGED answers
        /\ tasks' = [tasks EXCEPT ![t].status = "running"]
        /\ worker'[w].at = "reply" /\ worker'[w].task = t
    BY <1>0, <1>1, <1>6 DEF MarkRunning, WorkerState
  <2>2. /\ DOMAIN tasks' = DOMAIN tasks /\ tasks'[t].status = "running" /\ Age(t)' = Age(t)
        /\ \A i \in DOMAIN tasks \ {t} : tasks'[i] = tasks[i] /\ Age(i)' = Age(i)
    BY <1>1, <2>1 DEF Task, Age
  <2>3. Held(t)' /\ Answered' = Answered /\ (\A j : ~Held(j)) /\ ~Gone
    BY <2>1 DEF Held, Answered, Gone
  <2>4. t \notin Answered
    BY <1>0, <1>1, <2>1 DEF QueueInv, WorkerInv
  <2>5. QueueInv'
    BY <1>1, <1>2, <2>1, <2>2, <2>3 DEF QueueInv
  <2>6. WorkerInv(w)'
    BY <2>1, <2>2, <2>3, <2>4 DEF WorkerInv
  <2>7. deployment = "polling" => AgeInv(w)'
    <3>1. Pending' \subseteq Pending /\ Pending \subseteq DOMAIN tasks
      BY <2>2 DEF Pending, With
    <3>2. \A a \in DOMAIN tasks : Age(a)' = Age(a)
      BY <2>2
    <3>4. \A a \in DOMAIN tasks : Waiting(a) => Waiting(a)'
      BY <3>1, <3>2 DEF Waiting
    <3>3. \A i \in DOMAIN answers : answers[i] \in Answered
      BY DEF Answered, Range
    <3> QED
      BY <1>1, <1>3, <2>1, <2>2, <2>3, <3>2, <3>3, <3>4, <1>0 DEF AgeInv
  <2> QED
    BY <2>5, <2>6, <2>7
<1>7. CASE ProcessChatTask(w)
  <2>1. PICK delivered \in BOOLEAN, ok \in BOOLEAN :
           /\ answers' = IF delivered THEN Append(answers, t) ELSE answers
           /\ worker' = [worker EXCEPT ![w] = [at |-> "close", task |-> t, ok |-> ok]]
    BY <1>0, <1>7, Zenon DEF ProcessChatTask
  <2>2. /\ worker[w].at = "reply" /\ t \in DOMAIN tasks /\ UNCHANGED tasks
        /\ worker'[w].at = "close" /\ worker'[w].task = t
    BY <1>1, <1>7, <2>1 DEF ProcessChatTask
  <2>3. /\ \A i : Held(i)' <=> Held(i)
        /\ Gone' <=> Gone
    BY <1>0, <2>2 DEF Held, Gone
  <2>4. /\ \A a : (Age(a)' = Age(a)) /\ (Waiting(a)' <=> Waiting(a))
        /\ \A i \in DOMAIN answers : answers[i] \in Answered
    BY <2>2 DEF Age, Waiting, Pending, With, Answered, Range
  <2>5. CASE answers' = answers
    <3>1. Answered' = Answered
      BY <2>5 DEF Answered
    <3>2. QueueInv' /\ WorkerInv(w)'
      BY <1>0, <1>1, <1>2, <2>2, <2>3, <2>5, <3>1 DEF QueueInv, WorkerInv
    <3>3. deployment = "polling" => AgeInv(w)'
      BY <1>1, <1>3, <2>2, <2>4, <2>5, <3>1 DEF AgeInv
    <3> QED
      BY <3>2, <3>3
  <2>6. CASE answers' = Append(answers, t)
    <3>1. Answered' = Answered \cup {t}
      BY <1>1, <2>2, <2>6, Appended DEF Answered
    <3>2. /\ DOMAIN answers = 1 .. Len(answers) /\ Len(answers) \in Nat
          /\ DOMAIN answers' = 1 .. Len(answers) + 1
          /\ \A i \in DOMAIN answers : answers'[i] = answers[i]
          /\ answers'[Len(answers) + 1] = t
      BY <1>1, <2>2, <2>6, AppendProperties
    <3>3. \A i \in DOMAIN answers' : i \in DOMAIN answers \/ i = Len(answers) + 1
      BY <3>2
    <3>4. /\ tasks[t].status = "running" /\ t \notin Answered
      BY <1>0, <1>1, <2>2 DEF WorkerInv
    <3>5. \A i \in DOMAIN answers : answers[i] # t
      BY <2>4, <3>4
    <3>6. IsInjective(answers')
      BY <1>1, <3>2, <3>3, <3>5 DEF QueueInv, IsInjective
    <3>7. QueueInv' /\ WorkerInv(w)'
      BY <1>1, <1>2, <2>2, <2>3, <3>1, <3>4, <3>6 DEF QueueInv, WorkerInv
    <3>8. ASSUME deployment = "polling" PROVE AgeInv(w)'
      <4>1. Waiting(t) /\ \A a \in Answered : Age(a) <= Age(t) /\ Waiting(a)
        BY <1>0, <1>1, <2>2, <3>8 DEF AgeInv
      <4>2. \A i, j \in DOMAIN answers' : i < j => tasks'[answers'[i]].created <= tasks'[answers'[j]].created
        <5> SUFFICES ASSUME NEW i \in DOMAIN answers', NEW j \in DOMAIN answers', i < j
                     PROVE  Age(answers'[i]) <= Age(answers'[j])
          BY <2>2 DEF Age
        <5>1. i \in DOMAIN answers
          BY <3>2
        <5>2. CASE j \in DOMAIN answers
          BY <1>1, <3>2, <3>8, <5>1, <5>2 DEF AgeInv
        <5>3. CASE j = Len(answers) + 1
          BY <2>4, <3>2, <4>1, <5>1, <5>3
        <5> QED
          BY <3>3, <5>2, <5>3
      <4>3. \A a \in Answered' : Waiting(a)'
        BY <2>4, <3>1, <4>1
      <4>4. \A i \in DOMAIN tasks' : Age(i)' <= now' /\ (stamp'[Poller] # 0 => Age(i)' <= stamp'[Poller])
        BY <1>1, <1>3, <2>2, <2>4, <3>8 DEF AgeInv
      <4> QED
        BY <2>2, <4>2, <4>3, <4>4 DEF AgeInv, Age
    <3> QED
      BY <3>7, <3>8
  <2> QED
    BY <2>1, <2>5, <2>6
<1>8. CASE CloseTask(w)
  <2>1. PICK s \in {"done", "failed"} : tasks' = [tasks EXCEPT ![t].status = s]
    BY <1>0, <1>8 DEF CloseTask
  <2>2. worker[w].at = "close" /\ t \in DOMAIN tasks /\ UNCHANGED answers /\ worker'[w].at = "idle"
    BY <1>1, <1>8, IdleTyped DEF CloseTask
  <2>3. /\ DOMAIN tasks' = DOMAIN tasks /\ tasks'[t].status = s /\ Age(t)' = Age(t)
        /\ \A i \in DOMAIN tasks \ {t} : tasks'[i] = tasks[i] /\ Age(i)' = Age(i)
    BY <1>1, <2>1, <2>2 DEF Task, Age
  <2>4. Answered' = Answered /\ (\A i : Held(i) => i = t) /\ ~Gone
    BY <1>0, <2>2 DEF Held, Answered, Gone
  <2>5. QueueInv'
    BY <1>1, <1>2, <2>2, <2>3, <2>4 DEF QueueInv
  <2>6. WorkerInv(w)'
    BY <2>2 DEF WorkerInv
  <2>7. deployment = "polling" => AgeInv(w)'
    <3>1. Pending' \subseteq Pending /\ Pending \subseteq DOMAIN tasks
      BY <2>3 DEF Pending, With
    <3>2. \A a \in DOMAIN tasks : Age(a)' = Age(a)
      BY <2>3
    <3>4. \A a \in DOMAIN tasks : Waiting(a) => Waiting(a)'
      BY <3>1, <3>2 DEF Waiting
    <3>3. \A i \in DOMAIN answers : answers[i] \in Answered
      BY DEF Answered, Range
    <3> QED
      BY <1>1, <1>3, <2>2, <2>3, <2>4, <3>2, <3>3, <3>4, <1>0 DEF AgeInv
  <2> QED
    BY <2>5, <2>6, <2>7
<1>9. CASE WorkerRaises(w)
  <2>1. UNCHANGED <<tasks, answers>> /\ worker'[w].at = "dead"
    BY <1>1, <1>9, IdleTyped DEF WorkerRaises
  <2>2. Gone' /\ Answered' = Answered
    BY <1>1, <2>1 DEF Gone, Answered, WorkerRaises
  <2>3. QueueInv' /\ WorkerInv(w)'
    BY <1>1, <2>1, <2>2 DEF QueueInv, WorkerInv
  <2>4. deployment = "polling" => AgeInv(w)'
    BY <1>1, <1>3, <2>1, <2>2 DEF AgeInv, Age, Waiting, Pending, With
  <2> QED
    BY <2>3, <2>4
<1> QED
  BY <1>5, <1>6, <1>7, <1>8, <1>9 DEF Work

(* Everything else leaves the queue, except that a restart lets the worker  *)
(* go and excuses the row it held, and that time passes.                    *)
LEMMA TaskKept ==
    ASSUME TypeInv, deployment = "polling" => OrderInv, NEW w, Workers = {w}, TaskInv(w), [Next]_vars
    PROVE  TaskInv(w)'
<1>0. w \in Workers /\ restarts \in Nat /\ now \in Int /\ Poller \in Routers
      /\ stamp \in [Routers -> 0 .. MaxSeconds]
      /\ \A i \in DOMAIN tasks : Age(i) \in Int
  BY TaskTypes DEF Routers, TypeInv, IngressTypeOK, ClockTypeOK
<1>1. ASSUME UNCHANGED <<deployment, tasks, answers, worker, restarts>>,
             deployment = "polling" =>
                /\ now <= now' /\ now' \in Int
                /\ stamp'[Poller] \in {0, now, stamp[Poller]}
      PROVE  TaskInv(w)'
  <2>1. QueueInv' /\ WorkerInv(w)'
    BY <1>1 DEF TaskInv, QueueInv, WorkerInv, Answered, Held, Gone
  <2>2. ASSUME deployment = "polling" PROVE AgeInv(w)'
    <3>1. /\ \A i : Age(i)' = Age(i) /\ (Waiting(i)' <=> Waiting(i))
          /\ Answered' = Answered
      BY <1>1 DEF Age, Waiting, Pending, With, Answered
    <3>2. \A i \in DOMAIN tasks : Age(i) <= now' /\ (stamp'[Poller] # 0 => Age(i) <= stamp'[Poller])
      BY <1>0, <1>1, <2>2 DEF TaskInv, AgeInv
    <3> QED
      BY <1>1, <2>2, <3>1, <3>2 DEF TaskInv, AgeInv
  <2> QED
    BY <1>1, <2>1, <2>2 DEF TaskInv
<1>2. CASE Restart
  <2>1. /\ UNCHANGED <<deployment, tasks, answers, now>> /\ restarts' = restarts + 1
        /\ worker'[w].at = "idle" /\ stamp'[Poller] = 0
    BY <1>0, <1>2, IdleTyped DEF Restart
  <2>2. QueueInv' /\ WorkerInv(w)'
    BY <1>0, <2>1 DEF TaskInv, QueueInv, WorkerInv, Answered
  <2>3. deployment = "polling" => AgeInv(w)'
    BY <2>1 DEF TaskInv, AgeInv, Age, Waiting, Pending, With, Answered
  <2> QED
    BY <2>1, <2>2, <2>3 DEF TaskInv
<1>3. CASE Scan \/ ScanRaises \/ (\E m \in Messages : Post(m)) \/ UNCHANGED vars
           \/ (\E x \in Threads, m \in Messages : Receive(x, m))
           \/ (\E r \in Routers : LoadDedupeState(r) \/ TruncateDedupeState(r) \/ MarkProcessed(r))
  <2>1. UNCHANGED <<deployment, tasks, answers, worker, restarts, clock>>
    BY <1>3 DEF Scan, Fetch, NextItem, TruncateWatermark, SaveWatermark, ScanRaises, Post, Receive,
       LoadDedupeState, TruncateDedupeState, MarkProcessed, vars
  <2>2. UNCHANGED <<now, stamp>>
    BY <2>1 DEF clock
  <2> QED
    BY <1>0, <1>1, <2>1, <2>2
<1>4. ASSUME NEW r \in Routers, StampTask(r) \/ RouteRaises(r) PROVE TaskInv(w)'
  <2>1. /\ UNCHANGED <<deployment, tasks, answers, worker, restarts, now>>
        /\ stamp' \in {[stamp EXCEPT ![r] = now], [stamp EXCEPT ![r] = 0]}
    BY <1>4 DEF StampTask, RouteRaises
  <2>2. stamp'[Poller] \in {0, now, stamp[Poller]}
    BY <1>0, <2>1
  <2> QED
    BY <1>0, <1>1, <2>1, <2>2
<1>5. CASE Tick
  <2>1. UNCHANGED <<deployment, tasks, answers, worker, restarts, stamp>> /\ now' = now + 1
    BY <1>5 DEF Tick
  <2> QED
    BY <1>0, <1>1, <2>1
<1>6. ASSUME NEW r \in Routers, RunLane(r) PROVE TaskInv(w)'
  <2>1. deployment = "polling" => r = Poller
    BY <1>6, OnlyPoller DEF Route
  <2> QED
    BY <1>6, <2>1, LaneTask
<1> QED
  BY <1>2, <1>3, <1>4, <1>5, <1>6, WorkTask DEF Next, Route

(* With one worker, for any number of chats, routers and restarts and an    *)
(* exception of router or worker at any place: the group sees no second     *)
(* reply to a task and none to a pending one; a task is running without its *)
(* worker only after a restart or the worker's death; and where only the    *)
(* scanner runs no reply overtakes that of an earlier second.               *)
THEOREM TasksAreTrue ==
    ASSUME IsFiniteSet(Workers)
    PROVE  Spec => []TaskTruthful
<1>1. CASE Cardinality(Workers) = 1
  <2>1. PICK w : Workers = {w}
    BY <1>1, FS_Singleton
  <2>2. Init => TaskInv(w)
    <3> SUFFICES ASSUME Init PROVE TaskInv(w)
      OBVIOUS
    <3>1. DOMAIN tasks = {} /\ DOMAIN answers = {} /\ worker[w].at = "idle"
      BY <2>1, IdleTyped DEF Init
    <3>2. Answered = {}
      BY <3>1 DEF Answered, Range
    <3> QED
      BY <3>1, <3>2 DEF TaskInv, QueueInv, WorkerInv, AgeInv, IsInjective
  <2>3. TypeInv /\ (deployment = "polling" => OrderInv) /\ TaskInv(w) /\ [Next]_vars => TaskInv(w)'
    BY <2>1, TaskKept
  <2>4. TaskInv(w) => TaskTruthful
    BY DEF TaskInv, QueueInv, AgeInv, Age, Answered, Gone, TaskTruthful
  <2> QED
    BY <2>2, <2>3, <2>4, OrderInvariance, TypeInvariance, PTL DEF Spec
<1>2. CASE Cardinality(Workers) # 1
  <2>1. TaskTruthful
    BY <1>2 DEF TaskTruthful
  <2> QED
    BY <2>1, PTL
<1> QED
  BY <1>1, <1>2

-----------------------------------------------------------------------------
(* Re-execution.  The two paths key a message differently and two threads   *)
(* overwrite each other's index: a message is executed once where a single  *)
(* router r takes messages, the scanner or a lone thread of the server.     *)

LonePath(r) == \/ r = Poller /\ deployment = "polling"
               \/ Threads = {r} /\ deployment = "callbacks"

(* What was handled is marked; while the index is torn, the copy of the     *)
(* router that tears it says so; a message past the check is new.           *)
MarkedIn(r, S) == \A m \in Range(handled) : Key(r, m) \in S

OnceInv(r) ==
    /\ deployment = "polling" => \A m \in Messages : calls[m] = 0
    /\ deployment = "callbacks" => scan.at \in {"idle", "dead"}
    /\ \A q \in Routers \ {r} : job[q].at = "idle"
    /\ processed # Torn => MarkedIn(r, processed)
    /\ job[r].at \in {"truncate", "write"} =>
         MarkedIn(r, job[r].snap) /\ Key(r, job[r].msg) \notin job[r].snap
    /\ job[r].at = "handle" =>
         /\ job[r].msg \notin Range(handled)
         /\ processed # Torn => Key(r, job[r].msg) \in processed
    /\ NotReExecuted

(* The steps of the route that run outside the router.                      *)
LEMMA OnceElsewhere ==
    ASSUME TypeInv, NEW r \in Routers, LonePath(r), OnceInv(r),
           \/ \E m \in Messages : Post(m)
           \/ \E t \in Threads, m \in Messages : Receive(t, m)
           \/ Scan \/ ScanRaises \/ Restart \/ Tick
           \/ (\E w \in Workers : Work(w) \/ WorkerRaises(w)) \/ UNCHANGED vars
    PROVE  OnceInv(r)'
<1>1. /\ UNCHANGED <<deployment, processed, handled>>
      /\ job \in [Routers -> Job] /\ r \in Routers /\ job[r] \in Job
  BY DEF Post, Receive, Scan, Fetch, NextItem, TruncateWatermark, SaveWatermark, ScanRaises, Restart,
         Work, FetchNextPending, MarkRunning, ProcessChatTask, CloseTask, WorkerRaises, Tick, vars, TypeInv, Shapes
<1>2. deployment = "polling" => \A m \in Messages : calls'[m] = 0
  <2> SUFFICES ASSUME deployment = "polling" PROVE \A m \in Messages : calls'[m] = 0
    OBVIOUS
  <2>1. ASSUME NEW m \in Messages, Post(m) PROVE \A x \in Messages : calls'[x] = 0
    BY <2>1 DEF Post, OnceInv, TypeInv, Shapes
  <2>2. ASSUME NEW t \in Threads, NEW m \in Messages, Receive(t, m) PROVE FALSE
    BY <2>2 DEF Receive, OnceInv
  <2>3. ASSUME Scan \/ ScanRaises \/ Restart \/ (\E w \in Workers : Work(w) \/ WorkerRaises(w)) \/ Tick \/ UNCHANGED vars
        PROVE  UNCHANGED calls
    BY <2>3 DEF Scan, Fetch, NextItem, TruncateWatermark, SaveWatermark, ScanRaises, Restart,
           Work, FetchNextPending, MarkRunning, ProcessChatTask, CloseTask, WorkerRaises, Tick, vars
  <2> QED
    BY <2>1, <2>2, <2>3 DEF OnceInv
<1>3. deployment = "callbacks" => scan'.at \in {"idle", "dead"}
  <2>1. CASE Scan \/ ScanRaises
    BY <2>1, IdleTyped DEF OnceInv, Scan, Fetch, NextItem, TruncateWatermark, SaveWatermark, ScanRaises
  <2>2. CASE Restart
    BY <2>2 DEF Restart, IdleScan
  <2>3. CASE UNCHANGED scan
    BY <2>3 DEF OnceInv
  <2> QED
    BY <2>1, <2>2, <2>3 DEF Post, Receive, Work, FetchNextPending, MarkRunning, ProcessChatTask,
       CloseTask, WorkerRaises, Tick, vars
<1>4. /\ \A q \in Routers \ {r} : job'[q].at = "idle"
      /\ job'[r] = job[r] \/ job'[r].at \in {"idle", "load"}
  <2>1. ASSUME NEW t \in Threads, NEW m \in Messages, Receive(t, m)
        PROVE  /\ \A q \in Routers \ {r} : job'[q] = job[q]
               /\ job'[r].at \in {"idle", "load"}
    <3>1. t = r
      BY <2>1 DEF Receive, OnceInv, LonePath
    <3> QED
      BY <1>1, <2>1, <3>1 DEF Receive
  <2>2. ASSUME Scan \/ ScanRaises
        PROVE  /\ \A q \in Routers \ {r} : job'[q] = job[q]
               /\ job'[r] = job[r] \/ job'[r].at \in {"idle", "load"}
    <3>1. CASE NextItem
      <4>1. r = Poller
        BY <3>1 DEF NextItem, OnceInv, LonePath
      <4> QED
        BY <1>1, <3>1, <4>1 DEF NextItem
    <3>2. CASE ~NextItem
      BY <2>2, <3>2 DEF Scan, Fetch, TruncateWatermark, SaveWatermark, ScanRaises
    <3> QED
      BY <3>1, <3>2
  <2>3. ASSUME Restart PROVE \A q \in Routers : job'[q].at = "idle"
    BY <2>3 DEF Restart, IdleJob
  <2>4. ASSUME (\E m \in Messages : Post(m)) \/ (\E w \in Workers : Work(w) \/ WorkerRaises(w)) \/ Tick \/ UNCHANGED vars
        PROVE  UNCHANGED job
    BY <2>4 DEF Post, Work, FetchNextPending, MarkRunning, ProcessChatTask, CloseTask, WorkerRaises, Tick, vars
  <2> QED
    BY <1>1, <2>1, <2>2, <2>3, <2>4 DEF OnceInv
<1> QED
  BY <1>1, <1>2, <1>3, <1>4 DEF OnceInv, NotReExecuted, MarkedIn

(* The steps of the router.                                                 *)
LEMMA OnceRouted ==
    ASSUME TypeInv, NEW r \in Routers, LonePath(r), OnceInv(r), Route(r) \/ RouteRaises(r)
    PROVE  OnceInv(r)'
<1>1. /\ UNCHANGED <<deployment, calls>>
      /\ job \in [Routers -> Job] /\ job[r] \in Job
      /\ handled \in Seq(Messages)
      /\ \A q \in Routers \ {r} : job'[q] = job[q]
  BY DEF Route, LoadDedupeState, TruncateDedupeState, MarkProcessed, StampTask, RunLane,
         RouteRaises, TypeInv, IngressTypeOK, Shapes
<1>2. deployment = "callbacks" => scan'.at \in {"idle", "dead"}
  BY IdleTyped DEF OnceInv, Route, LoadDedupeState, TruncateDedupeState, MarkProcessed, StampTask,
         RunLane, RouteRaises, Ending
<1>3. /\ deployment' = "polling" => \A m \in Messages : calls'[m] = 0
      /\ deployment' = "callbacks" => scan'.at \in {"idle", "dead"}
      /\ \A q \in Routers \ {r} : job'[q].at = "idle"
  BY <1>1, <1>2 DEF OnceInv
<1>4. CASE LoadDedupeState(r)
  <2>1. UNCHANGED <<processed, handled>>
    BY <1>4 DEF LoadDedupeState
  <2>2. \/ job'[r].at = "idle"
        \/ /\ job'[r].at = "truncate" /\ job'[r].msg = job[r].msg /\ job'[r].snap = processed
           /\ processed # Torn /\ Key(r, job[r].msg) \notin processed
    BY <1>1, <1>4 DEF LoadDedupeState, IdleJob
  <2> QED
    BY <1>3, <2>1, <2>2 DEF OnceInv, NotReExecuted, MarkedIn, Key
<1>5. CASE TruncateDedupeState(r)
  <2>1. /\ UNCHANGED handled /\ processed' = Torn /\ job[r].at = "truncate"
        /\ job'[r].at = "write" /\ job'[r].msg = job[r].msg /\ job'[r].snap = job[r].snap
    BY <1>1, <1>5 DEF TruncateDedupeState, Job
  <2> QED
    BY <1>3, <2>1 DEF OnceInv, NotReExecuted, MarkedIn, Key
<1>6. CASE MarkProcessed(r)
  <2>1. /\ UNCHANGED handled /\ job[r].at = "write"
        /\ processed' = job[r].snap \cup {Key(r, job[r].msg)}
        /\ job'[r].at = "handle" /\ job'[r].msg = job[r].msg
    BY <1>1, <1>6 DEF MarkProcessed
  <2>2. job[r].msg \notin Range(handled)
    BY <2>1 DEF OnceInv, MarkedIn
  <2> QED
    BY <1>3, <2>1, <2>2 DEF OnceInv, NotReExecuted, MarkedIn, Key
<1>7. CASE RunLane(r)
  <2>1. /\ UNCHANGED processed /\ job[r].at = "handle" /\ job'[r].at = "idle"
        /\ handled' = Append(handled, job[r].msg)
        /\ job[r].msg \in Messages
    BY <1>1, <1>7 DEF RunLane, IdleJob, TypeInv, IngressTypeOK
  <2>2. Range(handled') = Range(handled) \cup {job[r].msg}
    BY <1>1, <2>1, Appended
  <2>3. processed' # Torn => MarkedIn(r, processed)'
    BY <2>1, <2>2 DEF OnceInv, MarkedIn, Key
  <2>4. NotReExecuted'
    <3>1. /\ DOMAIN handled' = 1 .. Len(handled) + 1 /\ DOMAIN handled = 1 .. Len(handled)
          /\ \A i \in 1 .. Len(handled) : handled'[i] = handled[i]
          /\ handled'[Len(handled) + 1] = job[r].msg
      BY <1>1, <2>1, AppendProperties
    <3>2. \A i \in 1 .. Len(handled) : handled[i] # job[r].msg
      BY <2>1, <3>1 DEF OnceInv, Range
    <3>3. \A i \in 1 .. Len(handled) + 1 : i \in 1 .. Len(handled) \/ i = Len(handled) + 1
      BY <1>1
    <3> QED
      BY <3>1, <3>2, <3>3 DEF OnceInv, NotReExecuted
  <2> QED
    BY <1>3, <2>1, <2>3, <2>4 DEF OnceInv
<1>8. CASE StampTask(r) \/ RouteRaises(r)
  <2>1. UNCHANGED <<processed, handled>> /\ (job'[r] = job[r] \/ job'[r].at = "idle")
    BY <1>1, <1>8 DEF StampTask, RouteRaises, IdleJob
  <2> QED
    BY <1>3, <2>1 DEF OnceInv, NotReExecuted, MarkedIn, Key
<1> QED
  BY <1>4, <1>5, <1>6, <1>7, <1>8 DEF Route

(* "repeated events are marked deduped and not re-executed" holds where the *)
(* scanner is the only path, or the server runs one thread and nobody scans,*)
(* for any repeated callbacks, restarts and exceptions: each of these costs *)
(* at most the message it cut after its mark.                               *)
THEOREM LonePathRunsOnce ==
    ASSUME NEW r \in Routers
    PROVE  Spec => [](LonePath(r) => NotReExecuted)
<1>1. Init => OnceInv(r)
  BY DEF Init, OnceInv, MarkedIn, NotReExecuted, Range, IdleJob, IdleScan
<1>2. TypeInv /\ (LonePath(r) => OnceInv(r)) /\ [Next]_vars => (LonePath(r) => OnceInv(r))'
  <2> SUFFICES ASSUME TypeInv, LonePath(r) => OnceInv(r), [Next]_vars, LonePath(r)'
               PROVE  OnceInv(r)'
    OBVIOUS
  <2>1. UNCHANGED deployment
    BY DEF Next, Post, Receive, Scan, Fetch, NextItem, TruncateWatermark, SaveWatermark, ScanRaises,
       Route, LoadDedupeState, TruncateDedupeState, MarkProcessed, StampTask, RunLane, RouteRaises,
       Work, FetchNextPending, MarkRunning, ProcessChatTask, CloseTask, WorkerRaises, Restart, Tick, vars
  <2>2. LonePath(r)
    BY <2>1 DEF LonePath
  <2>3. ASSUME NEW q \in Routers, Route(q) \/ RouteRaises(q) PROVE q = r
    BY <2>2, <2>3 DEF OnceInv, Route, LoadDedupeState, TruncateDedupeState, MarkProcessed, StampTask,
       RunLane, RouteRaises
  <2> QED
    BY <2>2, <2>3, OnceElsewhere, OnceRouted DEF Next
<1>3. OnceInv(r) => NotReExecuted
  BY DEF OnceInv
<1> QED
  BY <1>1, <1>2, <1>3, TypeInvariance, PTL DEF Spec

=============================================================================
