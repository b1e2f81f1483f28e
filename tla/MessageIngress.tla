--------------------------- MODULE MessageIngress ---------------------------
(***************************************************************************)
(* How a Feishu message enters the bridge and what becomes of it: the      *)
(* callback server (feishu_event_webhook.py), the polling scanner          *)
(* (feishu_action_reconciler.py), the duplicate check and the lanes of the *)
(* router (feishu_message_router.py), the SQLite task queue                *)
(* (execution_task_queue.py) and its worker (bridge_worker.py), with       *)
(* restarts of the service, and exceptions that end a message or a thread, *)
(* between any two writes.                                                 *)
(*                                                                         *)
(* The council lane of the router is CouncilReview, the governance events  *)
(* it appends are GovernanceEventLog; a report file that only a summary    *)
(* text reads (route result, listener log) is left out.                    *)
(***************************************************************************)
EXTENDS Naturals, Sequences, FiniteSets, SequencesExt

CONSTANTS
  Messages,      \* the messages of the group
  Chats,         \* free text: queued for the worker
  Echoes,        \* the bridge's own replies in the group
  Histories,     \* the orders in which the group may see the messages
  Deployments,   \* which ingress programs run: "polling", "callbacks", "both"
  Threads,       \* threads of the callback server
  Workers,       \* processes that run the worker loop
  PageSize,      \* messages a scan reads
  MaxCalls,      \* callbacks Feishu makes for each message, at most
  MaxRestarts,   \* restarts of the service
  MaxSeconds,    \* seconds the run lasts
  None,          \* no message yet
  Torn           \* a file opened for writing whose content is not there

ASSUME IngressAssumption ==
  /\ Chats \cup Echoes \subseteq Messages
  /\ Chats \cap Echoes = {}
  /\ \A h \in Histories : h \in Seq(Messages) /\ IsInjective(h)
  /\ Deployments \subseteq {"polling", "callbacks", "both"}
  /\ {None, Torn} \cap Messages = {}
  /\ PageSize \in Nat \ {0} /\ MaxCalls \in [Messages -> Nat] /\ MaxRestarts \in Nat
  /\ MaxSeconds \in Nat \ {0}

VARIABLES
  deployment,  \* the ingress programs of this behaviour
  group,       \* the messages posted, oldest first (Feishu's history)
  calls,       \* callbacks Feishu has still to make, per message
  processed,   \* the duplicate index: a set of keys, or Torn
  job,         \* route_message in progress, per router
  scan,        \* the polling scanner
  watermark,   \* last_processed_message_id as persisted, None or Torn
  handled,     \* the messages whose lane ran, in order
  cut,         \* messages whose lane a restart or an exception ended after their mark
  tasks,       \* the rows of the queue, oldest first
  worker,      \* run_worker_once in progress, per worker
  answers,     \* the tasks whose reply reached the group, in order
  restarts,
  now,         \* the second that _now_iso reads
  stamp        \* the created_at an enqueue_task in progress has read, 0 before

clock == <<now, stamp>>
vars == <<deployment, group, calls, processed, job, scan, watermark, handled,
          cut, tasks, worker, answers, restarts, clock>>

Poller  == "poller"
Routers == Threads \cup {Poller}

\* build_dedupe_key: a callback carries an event id, a scanned item does not.
Keys == {"event_id", "message_id"} \X Messages
Key(r, m) == <<IF r = Poller THEN "message_id" ELSE "event_id", m>>

IdleJob    == [at |-> "idle", msg |-> None, snap |-> {}]
IdleScan   == [at |-> "idle", batch |-> <<>>, newest |-> None]
IdleWorker == [at |-> "idle", task |-> 0, ok |-> FALSE]

\* A thread that an exception ended; only a start of the service brings it back.
DeadScan   == [at |-> "dead", batch |-> <<>>, newest |-> None]
DeadWorker == [at |-> "dead", task |-> 0, ok |-> FALSE]

Init ==
  /\ deployment \in Deployments
  /\ group = <<>> /\ handled = <<>> /\ tasks = <<>> /\ answers = <<>>
  /\ calls = [m \in Messages |-> 0]
  /\ processed = {} /\ watermark = None /\ cut = {}
  /\ job = [r \in Routers |-> IdleJob]
  /\ scan = IdleScan
  /\ worker = [w \in Workers |-> IdleWorker]
  /\ restarts = 0 /\ now = 1 /\ stamp = [r \in Routers |-> 0]

-----------------------------------------------------------------------------
(* Feishu.                                                                 *)

\* A member posts a message; Feishu will call back any number of times, none
\* (a lost callback) and several (a repeated one) included. The bridge's own
\* replies reach the group but not the callback.
Post(m) ==
  /\ \E h \in Histories : IsPrefix(Append(group, m), h)
  /\ group' = Append(group, m)
  /\ \E n \in 0 .. (IF deployment = "polling" \/ m \in Echoes THEN 0 ELSE MaxCalls[m]) :
       calls' = [calls EXCEPT ![m] = n]
  /\ UNCHANGED <<deployment, processed, job, scan, watermark, handled, cut,
                 tasks, worker, answers, restarts, clock>>

\* do_POST: a daemon thread of its own routes the message, the 200 is sent at once.
Receive(t, m) ==
  /\ calls[m] > 0
  /\ job[t].at = "idle"
  /\ calls' = [calls EXCEPT ![m] = @ - 1]
  /\ job' = [job EXCEPT ![t] = [at |-> "load", msg |-> m, snap |-> {}]]
  /\ UNCHANGED <<deployment, group, processed, scan, watermark, handled, cut,
                 tasks, worker, answers, restarts, clock>>

-----------------------------------------------------------------------------
(* reconcile_once and its main.                                            *)

\* Mutants of Unseen: the page is not reversed; the oldest unseen is skipped.
UnseenNewestFirst(page, mark) ==
  IF mark \in Range(page)
  THEN Reverse(SubSeq(page, 1 + CHOOSE i \in DOMAIN page : page[i] = mark, Len(page)))
  ELSE Reverse(page)
UnseenOffByOne(page, mark) ==
  IF mark \in Range(page)
  THEN SubSeq(page, 2 + CHOOSE i \in DOMAIN page : page[i] = mark, Len(page))
  ELSE page
\* The page of a scan, newest first, is cut at the watermark and reversed.
Page == LET n == Len(group) IN
  SubSeq(group, IF n > PageSize THEN n - PageSize + 1 ELSE 1, n)
Unseen(page, mark) ==
  IF mark \in Range(page)
  THEN SubSeq(page, 1 + CHOOSE i \in DOMAIN page : page[i] = mark, Len(page))
  ELSE page

\* main: a state file that cannot be parsed raises, and no one catches it.
Fetch ==
  /\ deployment # "callbacks"
  /\ scan.at = "idle"
  /\ IF watermark = Torn
     THEN scan' = DeadScan
     ELSE scan' = [at |-> "batch", batch |-> Unseen(Page, watermark),
                   newest |-> IF Page = <<>> THEN watermark ELSE Last(Page)]
  /\ UNCHANGED <<deployment, group, calls, processed, job, watermark, handled,
                 cut, tasks, worker, answers, restarts, clock>>

\* A request, a read or a write of the scanner's own raises at any place. The
\* loop of the service has no handler: its scanning thread is gone.
ScanRaises ==
  /\ deployment # "callbacks"
  /\ scan.at # "dead" /\ job[Poller].at = "idle"
  /\ scan' = DeadScan
  /\ UNCHANGED <<deployment, group, calls, processed, job, watermark, handled,
                 cut, tasks, worker, answers, restarts, clock>>

\* Mutant of NextItem: an echo is routed too.
NextItemAny ==
  /\ scan.at = "batch" /\ scan.batch # <<>>
  /\ job[Poller].at = "idle"
  /\ scan' = [scan EXCEPT !.batch = Tail(@)]
  /\ job' = [job EXCEPT ![Poller] = [at |-> "load", msg |-> Head(scan.batch), snap |-> {}]]
  /\ UNCHANGED <<deployment, group, calls, processed, watermark, handled, cut,
                 tasks, worker, answers, restarts, clock>>

\* The oldest message of the batch is routed, an echo is skipped.
NextItem ==
  /\ scan.at = "batch" /\ scan.batch # <<>>
  /\ job[Poller].at = "idle"
  /\ scan' = [scan EXCEPT !.batch = Tail(@)]
  /\ job' = IF Head(scan.batch) \in Echoes THEN job
            ELSE [job EXCEPT ![Poller] =
                    [at |-> "load", msg |-> Head(scan.batch), snap |-> {}]]
  /\ UNCHANGED <<deployment, group, calls, processed, watermark, handled, cut,
                 tasks, worker, answers, restarts, clock>>

\* The watermark is saved after the whole batch: the file is truncated, then written.
TruncateWatermark ==
  /\ scan.at = "batch" /\ scan.batch = <<>>
  /\ job[Poller].at = "idle"
  /\ watermark' = Torn
  /\ scan' = [scan EXCEPT !.at = "saving"]
  /\ UNCHANGED <<deployment, group, calls, processed, job, handled, cut, tasks,
                 worker, answers, restarts, clock>>

\* Mutant of SaveWatermark: the newest message is looked up when the batch is done.
SaveNewest ==
  /\ scan.at = "saving"
  /\ watermark' = IF group = <<>> THEN None ELSE Last(group)
  /\ scan' = IdleScan
  /\ UNCHANGED <<deployment, group, calls, processed, job, handled, cut, tasks,
                 worker, answers, restarts, clock>>

SaveWatermark ==
  /\ scan.at = "saving"
  /\ watermark' = scan.newest
  /\ scan' = IdleScan
  /\ UNCHANGED <<deployment, group, calls, processed, job, handled, cut, tasks,
                 worker, answers, restarts, clock>>

-----------------------------------------------------------------------------
(* route_message: check_and_mark_dedupe, then the lane of the message.     *)

\* Nothing catches what route_message raises: a callback's thread ends with its
\* message, the scanner's exception leaves reconcile_once and ends its thread.
Ending(r) == IF r = Poller THEN DeadScan ELSE scan

\* A torn index raises.
LoadDedupeState(r) ==
  /\ job[r].at = "load"
  /\ IF processed = Torn
     THEN /\ job' = [job EXCEPT ![r] = IdleJob]
          /\ scan' = Ending(r)
     ELSE /\ job' = [job EXCEPT ![r] =
                       IF Key(r, @.msg) \in processed THEN IdleJob
                       ELSE [at |-> "truncate", msg |-> @.msg, snap |-> processed]]
          /\ UNCHANGED scan
  /\ UNCHANGED <<deployment, group, calls, processed, watermark, handled, cut,
                 tasks, worker, answers, restarts, clock>>

TruncateDedupeState(r) ==
  /\ job[r].at = "truncate"
  /\ processed' = Torn
  /\ job' = [job EXCEPT ![r].at = "write"]
  /\ UNCHANGED <<deployment, group, calls, scan, watermark, handled, cut,
                 tasks, worker, answers, restarts, clock>>

\* Mutant of MarkProcessed: the rest of the batch is marked at once.
MarkWholeBatch(r) ==
  /\ job[r].at = "write"
  /\ processed' = job[r].snap \cup {Key(r, m) : m \in {job[r].msg} \cup Range(scan.batch)}
  /\ job' = [job EXCEPT ![r] = [at |-> "handle", msg |-> @.msg, snap |-> {}]]
  /\ UNCHANGED <<deployment, group, calls, scan, watermark, handled, cut,
                 tasks, worker, answers, restarts, clock>>

MarkProcessed(r) ==
  /\ job[r].at = "write"
  /\ processed' = job[r].snap \cup {Key(r, job[r].msg)}
  /\ job' = [job EXCEPT ![r] = [at |-> "handle", msg |-> @.msg, snap |-> {}]]
  /\ UNCHANGED <<deployment, group, calls, scan, watermark, handled, cut,
                 tasks, worker, answers, restarts, clock>>

\* enqueue_task reads the second before it inserts the row.
StampTask(r) ==
  /\ job[r].at = "handle" /\ job[r].msg \in Chats /\ stamp[r] = 0
  /\ stamp' = [stamp EXCEPT ![r] = now]
  /\ UNCHANGED <<deployment, group, calls, processed, job, scan, watermark,
                 handled, cut, tasks, worker, answers, restarts, now>>

\* The chat lane queues a task. The action lane runs the command of its word
\* (feishu_continue_once, final_review_once); a lane closed by configuration or
\* stage does nothing. Both are an entry of handled and no more. The result is
\* written after that, and its write may raise.
RunLane(r) ==
  /\ job[r].at = "handle" /\ (job[r].msg \in Chats => stamp[r] # 0)
  /\ handled' = Append(handled, job[r].msg)
  /\ tasks' = IF job[r].msg \in Chats
              THEN Append(tasks, [msg |-> job[r].msg, status |-> "pending",
                                  created |-> stamp[r]])
              ELSE tasks
  /\ job' = [job EXCEPT ![r] = IdleJob]
  /\ stamp' = [stamp EXCEPT ![r] = 0]
  /\ scan' \in {scan, Ending(r)}
  /\ UNCHANGED <<deployment, group, calls, processed, watermark, cut, worker,
                 answers, restarts, now>>

\* route_message raises at any place: a file of the index that cannot be read
\* or written, the configuration, the queue's database, the command. After the
\* mark the message stays marked and its lane never runs.
RouteRaises(r) ==
  /\ job[r].at # "idle"
  /\ cut' = IF job[r].at = "handle" THEN cut \cup {job[r].msg} ELSE cut
  /\ job' = [job EXCEPT ![r] = IdleJob]
  /\ stamp' = [stamp EXCEPT ![r] = 0]
  /\ scan' = Ending(r)
  /\ UNCHANGED <<deployment, group, calls, processed, watermark, handled, tasks,
                 worker, answers, restarts, now>>

Route(r) == \/ LoadDedupeState(r)
            \/ TruncateDedupeState(r)
            \/ MarkProcessed(r)
            \/ StampTask(r)
            \/ RunLane(r)

-----------------------------------------------------------------------------
(* run_worker_once: four transactions and a request to Feishu.             *)

With(status) == {i \in DOMAIN tasks : tasks[i].status = status}
\* Mutant of Pending: what was left running is taken up again.
PendingOrRunning == With("pending") \cup With("running")
Pending == With("pending")

\* ORDER BY created_at: rows of one second come in any order.
Oldest == {i \in Pending : \A j \in Pending : tasks[i].created <= tasks[j].created}

FetchNextPending(w) ==
  /\ worker[w].at = "idle"
  /\ \E i \in Oldest : worker' = [worker EXCEPT ![w] = [at |-> "mark", task |-> i, ok |-> FALSE]]
  /\ UNCHANGED <<deployment, group, calls, processed, job, scan, watermark,
                 handled, cut, tasks, answers, restarts, clock>>

MarkRunning(w) ==
  /\ worker[w].at = "mark"
  /\ tasks' = [tasks EXCEPT ![worker[w].task].status = "running"]
  /\ worker' = [worker EXCEPT ![w].at = "reply"]
  /\ UNCHANGED <<deployment, group, calls, processed, job, scan, watermark,
                 handled, cut, answers, restarts, clock>>

\* process_chat_task: whether the group sees the reply and what the worker
\* believes are two things. A reply that Feishu refuses with a code in its
\* answer raises nothing and counts as sent (send_text does not read the code),
\* a reply whose answer is lost, or whose result file cannot be written, counts
\* as failed.
ProcessChatTask(w) ==
  /\ worker[w].at = "reply"
  /\ \E delivered, ok \in BOOLEAN :
       /\ answers' = IF delivered THEN Append(answers, worker[w].task) ELSE answers
       /\ worker' = [worker EXCEPT ![w] = [at |-> "close", task |-> @.task, ok |-> ok]]
  /\ UNCHANGED <<deployment, group, calls, processed, job, scan, watermark,
                 handled, cut, tasks, restarts, clock>>

\* Mutant of CloseTask: a failure is swallowed.
CloseOnlySuccess(w) ==
  /\ worker[w].at = "close"
  /\ tasks' = [tasks EXCEPT ![worker[w].task].status = IF worker[w].ok THEN "done" ELSE @]
  /\ worker' = [worker EXCEPT ![w] = IdleWorker]
  /\ UNCHANGED <<deployment, group, calls, processed, job, scan, watermark,
                 handled, cut, answers, restarts, clock>>

\* mark_task_done or mark_task_failed (also where mark_task_done raised: ok is
\* then FALSE).
CloseTask(w) ==
  /\ worker[w].at = "close"
  /\ tasks' = [tasks EXCEPT ![worker[w].task].status =
                 IF worker[w].ok THEN "done" ELSE "failed"]
  /\ worker' = [worker EXCEPT ![w] = IdleWorker]
  /\ UNCHANGED <<deployment, group, calls, processed, job, scan, watermark,
                 handled, cut, answers, restarts, clock>>

Work(w) == \/ FetchNextPending(w)
           \/ MarkRunning(w)
           \/ ProcessChatTask(w)
           \/ CloseTask(w)

\* The database is locked, or the result file cannot be written. The loop has
\* no handler: the worker thread is gone, its task stays as it is. What raises
\* while a task is processed is caught, and closes it.
WorkerRaises(w) ==
  /\ worker[w].at \in {"idle", "mark", "close"}
  /\ worker' = [worker EXCEPT ![w] = DeadWorker]
  /\ UNCHANGED <<deployment, group, calls, processed, job, scan, watermark,
                 handled, cut, tasks, answers, restarts, clock>>

-----------------------------------------------------------------------------
\* The process ends and is started again: its threads begin anew, the files
\* and the database stay as they are.
Restart ==
  /\ restarts < MaxRestarts
  /\ restarts' = restarts + 1
  /\ cut' = cut \cup {job[r].msg : r \in {x \in Routers : job[x].at = "handle"}}
  /\ job' = [r \in Routers |-> IdleJob]
  /\ scan' = IdleScan
  /\ worker' = [w \in Workers |-> IdleWorker]
  /\ stamp' = [r \in Routers |-> 0]
  /\ UNCHANGED <<deployment, group, calls, processed, watermark, handled,
                 tasks, answers, now>>

\* The clock of the machine, which does not go back.
Tick ==
  /\ now < MaxSeconds
  /\ now' = now + 1
  /\ UNCHANGED <<deployment, group, calls, processed, job, scan, watermark,
                 handled, cut, tasks, worker, answers, restarts, stamp>>

Scan == Fetch \/ NextItem \/ TruncateWatermark \/ SaveWatermark

Next ==
  \/ \E m \in Messages : Post(m)
  \/ \E t \in Threads, m \in Messages : Receive(t, m)
  \/ Scan
  \/ ScanRaises
  \/ \E r \in Routers : Route(r) \/ RouteRaises(r)
  \/ \E w \in Workers : Work(w) \/ WorkerRaises(w)
  \/ Restart
  \/ Tick

\* The scanner and the worker are endless loops of the service, a thread that
\* began to route goes on, as long as no exception ends them. Nobody has to
\* post, to call back or to restart, and what may raise need not.
Fairness ==
  /\ WF_vars(Scan)
  /\ \A r \in Routers : WF_vars(Route(r))
  /\ \A w \in Workers : WF_vars(Work(w))

Spec == Init /\ [][Next]_vars /\ Fairness

-----------------------------------------------------------------------------
(* Properties.                                                             *)

Posted == Range(group)
Position(m) == CHOOSE i \in DOMAIN group : group[i] = m
Ascending(s, Rank(_)) == \A i, j \in DOMAIN s : i < j => Rank(s[i]) < Rank(s[j])

\* Part of the type invariant: a second that was read is not one to come.
ClockTypeOK ==
  /\ now \in 1 .. MaxSeconds
  /\ stamp \in [Routers -> 0 .. MaxSeconds]
  /\ \A r \in Routers : stamp[r] <= now /\ (stamp[r] # 0 => job[r].at = "handle")

(***************************************************************************)
(* Typing: an index or a watermark that is torn, a router that is nowhere  *)
(* without its message, a task row in one of its four statuses.            *)
(***************************************************************************)
IngressTypeOK ==
  /\ deployment \in Deployments
  /\ group \in Seq(Messages) /\ handled \in Seq(Messages)
  /\ DOMAIN calls = Messages /\ \A m \in Messages : calls[m] \in 0 .. MaxCalls[m]
  /\ processed \in (SUBSET Keys) \cup {Torn}
  /\ watermark \in Messages \cup {None, Torn}
  /\ \A r \in Routers :
       /\ job[r].at \in {"idle", "load", "truncate", "write", "handle"}
       /\ job[r].at = "idle" => job[r] = IdleJob
       /\ job[r].at # "idle" => job[r].msg \in Messages \ Echoes
       /\ job[r].snap \subseteq Keys
  /\ scan.at \in {"idle", "batch", "saving", "dead"}
  /\ scan.batch \in Seq(Messages) /\ scan.newest \in Messages \cup {None}
  /\ cut \subseteq Messages
  /\ tasks \in Seq([msg : Chats, status : {"pending", "running", "done", "failed"},
                    created : 1 .. MaxSeconds])
  /\ \A w \in Workers :
       /\ worker[w].at \in {"idle", "mark", "reply", "close", "dead"}
       /\ worker[w].at \in {"mark", "reply", "close"} => worker[w].task \in DOMAIN tasks
  /\ answers \in Seq(DOMAIN tasks)
  /\ restarts \in 0 .. MaxRestarts
  /\ ClockTypeOK

(***************************************************************************)
(* Where only the scanner runs, messages take effect in the order in which *)
(* the group saw them and none twice, whatever restarts and exceptions cut *)
(* a batch and make the next scan read it again: reconcile_once reverses   *)
(* the page, and check_and_mark_dedupe marks a message before its lane.    *)
(***************************************************************************)
HandledInOrder == deployment = "polling" => Ascending(handled, Position)

(***************************************************************************)
(* What the persisted watermark hides: every message at or before it had   *)
(* its lane run, is an echo, or is one whose lane a restart or an exception *)
(* ended after its mark.  A scan never reads behind the watermark again, so *)
(* that none of the others may be there.                                   *)
(***************************************************************************)
WatermarkCovers ==
  deployment = "polling" /\ watermark \in Messages =>
    \A m \in Posted : Position(m) <= Position(watermark) =>
      m \in Range(handled) \cup Echoes \cup cut

(***************************************************************************)
(* A message is called a duplicate only if its lane ran, is about to run,  *)
(* or was begun and ended by a restart or an exception: with threads that  *)
(* overwrite each other's index a mark may be missing, but none stands for *)
(* a message nobody took.                                                  *)
(***************************************************************************)
NoFalseDuplicate ==
  processed # Torn => \A k \in processed :
    \/ k[2] \in Range(handled) \cup cut
    \/ \E r \in Routers : job[r].at = "handle" /\ job[r].msg = k[2]

(***************************************************************************)
(* The queue's promise with one worker.  The group sees at most one reply  *)
(* to a task, and none to a task that is still pending, also when a restart *)
(* or an exception leaves a task "running" after its reply was sent; a task *)
(* is running without a worker only after one of the two.  Where only the  *)
(* scanner runs, no reply overtakes that of a task queued in an earlier    *)
(* second.  "done" is no part of it: a reply that Feishu refused is done.  *)
(***************************************************************************)
Held(i) == \E w \in Workers : worker[w].at \in {"reply", "close"} /\ worker[w].task = i
TaskTruthful ==
  Cardinality(Workers) = 1 =>
    /\ IsInjective(answers)
    /\ deployment = "polling" => \A i, j \in DOMAIN answers :
         i < j => tasks[answers[i]].created <= tasks[answers[j]].created
    /\ \A i \in DOMAIN tasks :
         /\ tasks[i].status = "pending" => i \notin Range(answers)
         /\ tasks[i].status = "running" =>
              Held(i) \/ restarts > 0 \/ \E w \in Workers : worker[w].at = "dead"

(***************************************************************************)
(* Compensation: what the group sees is in the end routed by the scanner,  *)
(* unless a restart or an exception ended its lane after the mark, or the  *)
(* scanning thread is dead and nobody starts the service again.            *)
(***************************************************************************)
EventuallyHandled ==
  \A m \in Messages \ Echoes :
    deployment = "polling" /\ m \in Posted
      ~> m \in Range(handled) \cup cut \/ scan.at = "dead"

(***************************************************************************)
(* Every queued task is closed in the end, unless the worker thread is     *)
(* dead and nobody starts the service again, or the task was left running  *)
(* with nobody holding it: no code path looks for such a task.             *)
(***************************************************************************)
Orphans == {i \in With("running") : ~ Held(i) /\ restarts > 0}
EventuallyClosed ==
  \A i \in 1 .. Cardinality(Chats) :
    i \in DOMAIN tasks ~> \/ i \in With("done") \cup With("failed") \cup Orphans
                          \/ \A w \in Workers : worker[w].at = "dead"

(***************************************************************************)
(* "repeated events are marked deduped and not re-executed"                *)
(* (docs/council-feishu-action-flow-v0.md:380), the messages that arrive   *)
(* by callback and by scan included.                                       *)
(***************************************************************************)
NotReExecuted == \A i, j \in DOMAIN handled : handled[i] = handled[j] => i = j

=============================================================================
