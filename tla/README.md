# AgentCommerce governance bridge: TLA+ specification

AgentCommerce is a human-in-the-loop governance bridge: messages of a Feishu group
become feedback on council artifacts, chat tasks or commands; an owner confirms state
changes and executions; a process is started for an approved handoff; policies are
published; and all of that is recorded in a governance event log. The program is a set of
Python modules under `src/tools/council_bridge/` that keep **all state in JSON files** (and
one sqlite table), written with `write_text`, without locks or compare-and-set, by the
threads of a webhook server, a scanner, a worker and by command lines.

This directory models that program in TLA+, checks it with TLC, and proves with TLAPS, for
every value of the constants, the type correctness of every component with state and every safety
property of a passing run; where a run shows a violation, a theorem names the condition that
excludes it (section 4).

## 1. Inventory

| Component | State | Operations | Interacts with |
|---|---|---|---|
| Governance event log (`governance_event_log.py`) | append-only JSONL log, dedupe index | `ingest_governance_event` | called by the publish workflow, the router, the runtime modules |
| Degradation and replay (`runtime_event_log_degradation_recovery.py`) | queue file | `handle_event_log_degradation`, `replay_degraded_events` | called when an ingest fails; calls the ingest again |
| Policy publish (`policy_publish_fsm.py`, `policy_config_center.py`) | request, result, review and audit files, config files | `advance_publish_status` | regression gate, event log |
| Reconcile hook (`runtime_publish_reconcile_hook.py`) | its report | `reconcile_publish_failure` | reads the files of the publish workflow |
| Council artifacts (`council_artifact_schema.py`, `council_artifact_state_machine.py`) | one file per artifact | `validate_transition`, `apply_transition`, command line | router, confirms |
| Feedback mapping and confirms (`feishu_feedback_mapping_adapter.py`, `council_role_rework_adapter.py`, `owner_confirmed_*_apply.py`) | mapping, validation, receipt and advisory files, shared by all messages | map, validate, apply | router, artifacts |
| Message router (`feishu_message_router.py`) | message dedupe index, route result | `route_message`: duplicate check, council lane, chat lane, action lane | everything above and below |
| Ingress (`feishu_event_webhook.py`, `feishu_action_reconciler.py`, listener, websocket stub) | watermark | callback handler (a thread per event), scanner | router |
| Chat queue, worker, service (`execution_task_queue.py`, `bridge_worker.py`, `feishu_chat_bridge.py`, `bridge_service.py`) | sqlite task table | enqueue, fetch, mark, answer | router fills, worker drains |
| Execution dispatch (`owner_confirmed_execution_dispatch.py`, `execution_handoff_gate.py`, `execution_dispatch_adapter.py`, `codex_dispatch_runner.py`) | brief, prompt, ready file; result, runtime status, receipt; the process | `dispatch_owner_confirmed_execution` | handoff artifact |
| Runtime failures and recovery attempts (`runtime_failure_event_normalizer.py`, `runtime_recovery_attempt_runner.py`) | attempt artifact, fallback log | classify, decide, save, emit | event log, degradation |
| Metrics snapshots (`governance_metrics_snapshot_job.py`) | snapshot files | aggregate | read the event log and the artifact files |
| Round pipeline (17 command-line tools: dry run, handoff, prompt, dispatch package, owner action, round bridge, executor, completion, receipt, final review, audit pack) | one artifact file per tool | each tool; `feishu_continue_once` runs five in a row | `codex_dispatch_runner`, owner |
| Pure helpers (scope validator, intent normalization, role contract), notifier, demos, playbook, scripts, `ecomscout_ai` | none, or a duplicate window | | |

Hard behaviours: whole-file read-modify-write by threads that do not lock; files that are
shared by unrelated messages (mapping, validation, prompt, publish result); writes that
open with truncation; a process that dies between two of several files; exceptions that
skip the remaining steps; a message that arrives by two paths, twice or never; a
started process that outlives its dispatcher. `PROJECT.json` lists each as a hazard at its
line. What makes each component correct:

* event log: the index never runs ahead of the log; each event once, plus at most once per
  fault; an answer is true of the log.
* replay: a replayed record is in the log, an abandoned one had its attempts, no record is lost.
* publish: status, `from` version and configuration agree; a rollback brings back what was
  effective before; a report raises no false alarm (but for the apply of a version that was in
  effect already) and backs what it does not report.
* council: an artifact changes only along `STATE_TRANSITIONS`; only the owner's lane gives a
  verdict; a receipt that says "applied" is true; a rejection is final.
* ingress: a message acts at most once, in the order of the group, and is lost only to a restart
  or an exception between its mark and the end of its lane; a task is answered at most once.
* dispatch: only what the gate approved runs, only on an owner's trigger, and the files say
  what happened.
* recovery: a failed publish is never retried, attempts end, and a snapshot counts every event
  once and does not overlook all of the recovery work that is on disk.
* round: what runs was approved; a report that calls a round ready is about the handoff on file
  and its process; what is told of a dispatch when a round is closed happened.

## 2. Modules

| Module | Models | State and actions |
|---|---|---|
| `GovernanceEventLog` | the ingest call | `log`, `index` (+ `readable`: truncated or not), per caller its place `at`, the copy of the index it holds, its answer. `Call`, `RejectInvalid`, `LoadIndex` (read and duplicate check), `AppendEvent`, `TruncateIndex`, `WriteIndex`, `DiskFull`, `Raise`, `Crash`, `Return` |
| `EventLedger` | abstract: a ledger in which an event enters once, plus once per lapse | |
| `EventDegradation` (EXTENDS the log) | the emit that falls back to the queue, and replay passes | `queue`, `pass` (a pass's copy and position); the ingest steps of the log are reused as the replay's call |
| `PolicyPublish` | `advance_publish_status`, one step per file written | `request`, `active` (config files), shared `result`/`review`/`audit`, `events` with the minute of the fallback key |
| `PublishReconcile` (EXTENDS it) | the report, as a function of the files | |
| `PublishAtomic` | abstract: applying and rolling back are one step | |
| `CouncilReview` | observing, confirming, role rework, the command line, over two shared file pairs | `art` (file content with its trace of transitions), `mapping`, `validation`, `receipt`, `advisory`; per thread `pc` and `job` (what it has read) |
| `ArtifactLifecycle` | abstract: the transition table | |
| `MessageIngress` | group, callbacks, scanner, router's duplicate check, chat queue, worker, restarts | dedupe index and watermark (each may be `Torn`), tasks with the second they were created in, threads, the messages `cut` after their mark; `Post`, `Receive`, `Scan`, `Route`, `Work`; `ScanRaises`, `RouteRaises`, `WorkerRaises` (exceptions that end a thread, or leave a lane undone); `Restart`, `Tick` |
| `ExecutionDispatch` | gate, brief, prompt, ready file, spawn, poll, three result files | `handoff` (versions), `job` per dispatcher, `files`, `procs`, `died`; an exception at every step (`LoadRaises`, `Raise`, a broken pipe in `Poll`) |
| `RoundFlow` | the tools of a round, in any order and any number of times | one variable per artifact file, `procs`, `call` (a running `continue-once`) and `calls` so far, `issued` (history). `ExportDryRun`, `WriteHandoff`, `PrepareRound`, `PrepareDispatch`, `RecordAction`, `ReuseAction`; `Begin` a call, `BridgeAction`; the executor as `NoExecution`, `Refuse`, `FailToStart`, `Start`, `WriteReceipt`, `WriteResult`; the rest of the call as `Check`, `CheckFails`, `BuildSkeleton`, `SkeletonFails`, `Finish`, `Crash`; by themselves `PrefillSkeleton` (the helper as a tool), `CaptureCompletion`, `WriteExecutionReceipt`, `FinalReview`; `Exit`. The audit pack and the receipt preparation are functions of the files |
| `RuntimeRecovery` (EXTENDS `EventDegradation`, `MetricsSnapshot`) | classification of failures, recovery attempts, and their emits | `reported`, `attempt` (one file that every attempt overwrites), `degradation`. `ReportFailure`, `RunAttempt`, `AttemptUnsaved`, `SaveAndQueue`, `SaveOrQueueFails`; the ingest and the replay are those of the modules below it |
| `MetricsSnapshot` | a snapshot, as a function of the log's lines and of the artifact files; the deduplication, a loop in the code, is the recursive function `KeptUpTo` over the positions of the lines | |
| `GovernanceEventLog_proofs`, `MetricsSnapshot_proofs`, `RuntimeRecovery_proofs`, `PolicyPublish_proofs`, `CouncilReview_proofs`, `MessageIngress_proofs`, `ExecutionDispatch_proofs`, `RoundFlow_proofs` | theorems | |
| `MC*` | the small instances | |

Names follow the source (`check_and_mark_dedupe` becomes `LoadDedupeState`,
`TruncateDedupeState`, `MarkProcessed`: its reads and writes are separate steps, since
another thread may run in between). A step of a model is what the code does between two
accesses to shared state. `map` in `PROJECT.json` gives the lines of every definition.

Abstractions. Texts, timestamps and hashes are left out, except where identity or order
depends on them: the minute of the event key (`PolicyPublish`), the second of a task's `created_at`
(read before the row is inserted; the clock is taken not to go back), the two keys of a message
(`MessageIngress`), the two ids of an event (`GovernanceEventLog`). Which words of a message
mean which intent is a choice in `Message`. Variables that no code has are marked as history
(`undo`, `approved`, `authorized`, `trace`, `procs[x].handoff`, `procs[x].raised`, `cut`, `issued`)
and guard nothing. A `write_text`
is two steps, truncation and write, for the four files where a half-written state is read by
others (both dedupe indexes, the degradation queue, the watermark); other files are written
in one step. Two things of the surroundings decide what can happen:

* `bridge_service.run_service` starts the webhook thread without `queue_db_path`, so that
  thread ends with a `TypeError`; the service as it runs receives messages by scan only. The
  webhook runs as a program of its own. `deployment` in `MessageIngress` is "polling",
  "callbacks", or "both" (somebody runs the two programs side by side).
* No live ingress sets an owner-protocol source, so owner confirms reach `route_message` from
  the playbook, the demos, the tests or another caller, or the command lines are used. The
  council and dispatch modules start where the confirm is accepted.

## 3. Runs

| Run | Question | Bounds |
|---|---|---|
| `EventLogLone` | one caller with faults implements the ledger | 5 events (two sharing a key, one re-sent later, one invalid), 4 lines, 2 faults |
| `DegradationLostRecord` | **violated**: an append during a pass is lost | 2 records, no fault |
| `RecoveryMetrics` | failures, attempts, the log, the queue, a replay and the snapshot together, two processes over one log and one queue | one failure, two policies, an event that lacks a field, the playbook's event; 5 lines, 1 record, 2 replays, 2 faults (312,586 states) |
| `PublishCrashes` | one operator who may die anywhere; the workflow implements `PublishAtomic`, a crash being at most one lapse | a default publish, one that overrides an owner, one whose version only an override lists and which the gate may block; 1 crash (875,556 states) |
| `PublishHalfCommit` | **violated**: an apply that died between its request and its config write is reported as fine | 1 publish, 1 crash |
| `CouncilReview` | feedback and confirms interleave, threads die | two artifacts, six start statuses of the handoff, two messages per thread, a command-line request of each invalid kind |
| `CouncilOverturned` | **violated**: two confirms by two callers overturn a rejection | one handoff, two verdicts |
| `IngressApart` | scanner or callbacks, restarts and exceptions anywhere | 4 messages in 2 orders (two chats, a command, an echo of the bot), a repeated and a lost callback, one worker, 2 seconds, 2 restarts (199,801 states) |
| `IngressTwoPaths` | **violated**: the same message by scan and by callback acts twice | one callback thread, up to two callbacks of a message, no restart |
| `DispatchOwnerConfirmed` | one dispatcher, or two, with an exception at any step, before and after the start of a process, and a crash | 2 executions, 2 versions of the handoff, 1 crash (537,332 states) |
| `RoundFlow` | the tools of a round in any order, calls that die, processes that go on | a valid and an invalid brief, approvals "approved" and "needs_fix", actions "dispatch" and "hold", 2 handoffs, 2 processes, 2 calls of `continue-once`, 2 days (2,088,958 states) |
| `RoundLinkage` | **violated**: files of different handoffs are dispatched together | same, 1 process, one day |

Why the bounds suffice: each hazard needs at most two actors and one or two faults, and each
property relates at most two messages, publishes, handoffs or executions. One record in the queue of
`RecoveryMetrics` is enough for what the properties say of a record; two of them meet in
`DegradationLostRecord`, and the theorems of section 4 hold for any number. `RoundFlow`
has two calls of `continue-once`, each of which may start a process or die (with three calls on one
day it passes as well, 4,538,367 states), and its theorems hold for any number of calls, days and handoffs. Every property of a passing run
has a mutant in `PROJECT.json`, a plausible bug of the code that TLC finds within the same bounds.

Deadlock is off in four modules where everything may have been done: all messages are handled
(`CouncilReview`, `MessageIngress`), all triggers have fired (`ExecutionDispatch`), or the bounds on
handoffs and processes are used up (`RoundFlow`).

What the properties say, beyond the type invariants:

* **`IndexBacked`, `AnswersTrue`** - whatever the interleaving and the faults, the index names
  nothing that is not in the log, and an answer is true of the log. **`OneCopyPerFault`**,
  **`ImplementsLedger`** - with one caller, one extra line per fault at most.
* **`ReplayedIsLogged`**, **`AbandonedForCause`**, **`SettledStaysSettled`** - a record's status is true,
  an abandoned record lacks what the ingest needs, or had its attempts, each ended by an exception (unless the
  disk is full: an append that is refused there counts no fault), settled records stay settled.
  **`CountedOnce`**, **`NotAllMissing`** - in every state, whatever the log holds twice and the queue
  holds back, a snapshot counts each event once, and recovery work whose artifact is on disk is
  never missing altogether: the total of attempts is above 0, an attempt on disk is counted with its
  result while the log has none, a degradation counts as queued. A single attempt may be missing
  (see the observations).
* **`OutcomeBacked`**, **`RollbackRestores`**, **`ImplementsAtomic`** - status and configuration agree as far
  as crashes allow; what a rollback restores; the workflow as an atomic one.
  **`NoFalseAlarm`** - after an apply or a rollback that ran to its end, and that nothing has
  overtaken, the report asks for no action, with one exception that the property states: an apply
  of a version that was in effect already always ends "manual_required". **`NoActionMeansAgreement`** -
  a report that asks for nothing is backed by result and request.
* **`FilesCoherent`** - an artifact's trace is a path of the transition table ending at its status,
  with the fields the schema asks for. **`VerdictFromOwner`** - no chat message decides a verdict,
  though the confirm itself stamps the owner's lane on whatever is in the mapping file.
  **`AppliedReceiptBacked`**, **`ImplementsLifecycle`** - a receipt that says "applied" is true of the
  artifact, and the review implements the lifecycle.
* **`HandledInOrder`** - the scanner lets messages take effect in the order of the group and none
  twice. **`WatermarkCovers`**, **`NoFalseDuplicate`** - what the watermark hides, and what is called a
  duplicate, had its lane run, or had it ended after the mark by a restart or an exception (the set
  `cut`). **`TaskTruthful`** - with one worker, as the service runs it, no task is answered twice or
  while it is pending, and replies keep the order of the seconds in which tasks were queued; two workers
  would refute it, since a task is fetched and marked in two statements. Nothing is said of "done": a
  reply that Feishu refused is done as well. **`EventuallyHandled`**, **`EventuallyClosed`** - every
  message is routed and every task closed, unless it was cut or its thread is dead.
* **`RunsOnlyApproved`**, **`RunsItsHandoff`**, **`FilesInStep`**, **`EventuallyRecorded`** -
  what a process runs, and that its three files are written, in step. **`HonestFiles`** - accepted was
  started, blocked never was, failed does not run any more; a dispatch that raised after the start is
  the only one of which this may fail, and it is never called accepted.
* **`ApprovedRuns`**, **`HandoffIdsFresh`** - only prompts of approved handoffs run, and no two handoffs
  share an id. **`ReviewReadyIsCurrent`**, **`PrepAfterEnd`** - what `continue-once` and the
  receipt preparation conclude from files left by different calls is true of the processes.
  **`ClosedRoundTrue`** - when the audit pack closes a round over a matching skeleton with no note on
  the ids, the dispatch and the end that the skeleton tells of happened under the ids of the review;
  it does not say that a closed round ran (see the observations). An approval that was replaced
  since counts in `ApprovedRuns`.

### Findings

Five runs show where the code departs from its documentation (details with lines in
`PROJECT.json`): a degraded record that is queued while a replay pass runs is lost when the pass
opens the file for writing; an apply that died after its request said "applied", with the shared result
still "confirmed" and the config unchanged, is reported as needing no action; two concurrent confirms
(two callers of `route_message` with an owner source, or the apply command line beside one) can
overturn a rejection; a message received by both paths is executed twice, because the
scanner's payload has no event id; and no tool of a round compares the ids of the files it
combines, although `docs/council-bridge-lifecycle-v0.md`, "3. Where the Flow Must Stop", says
that the flow stops when the linkage is inconsistent.

Weaker observations for which no run is spent:

* Two publishes that end alike in one minute leave one event.
* A confirm may be applied on the strength of the validation of another suggestion
  (`AppliedWasValidated` in `CouncilReview`, refuted; the final validation still protects the artifact).
* An exception between the start of a process and the runner's receipt makes the files say that it
  failed or was not executed while it runs, although `docs/council-codex-execution-receipt-v0.md:137` has
  "not_executed" for an execution that did not start (the exception `HonestFiles` makes).
* The apply of a version that is in effect already (a default publish, then an override by the same
  version) is reported as "manual_required" (`runtime_publish_reconcile_hook.py:207-210`), though it
  succeeded: `docs/runtime-publish-reconcile-hook-v0.1.md:30` gives "no_action" to a consistent state with
  complete artifacts (the exception `NoFalseAlarm` makes).
* An attempt whose event was lost is not counted beside another's line: the snapshot looks at the
  artifacts only while the log has no event of the kind (`governance_metrics_snapshot_job.py:373`),
  though by `docs/recovery-metrics-extension-v0.1.md:48` they make up for events that are insufficient.
* `send_text` does not read Feishu's `code` (`feishu_sender.py:37-42`): a reply refused with HTTP 200
  leaves its task "done".
* A lane that raises after its message was marked (`feishu_message_router.py:401`, `457`, `819`, `870`)
  is lost without a restart, and the message is called a duplicate when it comes again.
* Tasks are ordered by a string of one second that is read before the row is inserted: within a
  second, and between two callback threads, replies may overtake each other.
* The skeleton helper matches whatever files are missing and runs at any time
  (`execution_receipt_skeleton_helper.py:59`, `156`): with it, a receipt that says "not_executed" and a
  final review, the audit pack closes a round in which nothing was dispatched.
* A dispatch package stays ready after its handoff was replaced by one that needs a fix.
* A publish that died after "applied" was persisted can neither be applied again nor rolled back.
* A feedback on a handoff whose `handoff_id` differs from its `artifact_id` can never be validated.
* `incremental_metrics_snapshot` counts every line, also the copies a fault lets in.
* The degradation artifact stays "queued" whatever the replay does, since nobody reports a replay
  to the log; the rates of abandonment and of replay in a snapshot stay 0.
* `docs/runtime-recovery-attempt-runner-v0.1.md` gives an unknown failure to the operator; the
  normalizer's default is "ignore".
* The emit of a failure draws its id anew when the caller gave none, so that event and artifact
  of one failure may carry different ids.
* The notifier marks a send that the group refused as sent, and a suppressed one refreshes the
  window.

### Fairness

`IngressApart` assumes weak fairness of the scanning thread, of each routing thread and of the
worker: they are endless loops or run to their end (`bridge_service.py:47-78`,
`bridge_worker.py:95-103`) as long as no exception ends them. Requests have timeouts, and a sqlite
statement that finds the database locked gives up with an exception after a while; so every step ends,
or raises. That it may raise is the other half: neither loop has a handler, so the actions
`ScanRaises`, `RouteRaises` and `WorkerRaises` end a thread at any of its steps, for good or until the next
restart. Nothing is assumed of these, of the group (posting, callbacks) or of restarts. The liveness
properties excuse what the code really loses: a message cut after its mark, a scanning or a worker
thread that is dead while nobody starts the service again, a task that was left running.
`DispatchOwnerConfirmed` assumes weak fairness of a
dispatcher's steps: the function has no wait but one second. Its liveness property excuses an
execution only if its own dispatcher died. The other modules are
checked for safety only: their tools run when somebody calls them.

## 4. Proofs

`GovernanceEventLog_proofs` proves, for every set of callers and events and every bound:

* `Typing`: `Spec => []TypeOK`.
* `SafetyHolds`, `IndexSafety`: `IndexBacked` and `AnswersTrue`. The inductive invariant adds
  `AppendedIsLogged`: a call that has appended, and is about to write the index, finds its event in
  the log. It is needed because the marks a call writes are its copy plus the event's own; that
  the log only grows keeps the rest.
* `LoneCallerLedger`: with one caller, `OneCopyPerFault` and the refinement of `EventLedger`. The
  invariant `LoneInv` bounds the copies of a mark by the faults so far, and by one less where
  the index is readable and does not have the mark; `LoneStep` preserves it action by action,
  `LoneRefines` maps each step to a ledger step or a stutter.

`ExecutionDispatch_proofs` proves, for every family of crews, every set of fault points and every bound:

* `DispatchTyping`: `Spec => []DispatchTypeOK`.
* `OnlyApprovedRuns`: `Spec => []RunsOnlyApproved`. The invariant carries the approval along the files: a
  job past the gate has an authorized trigger and an approved version, the prompt file
  holds an approved version once it was written, and a job past its prompt finds one there.
* `FilesAreHonest`: `HonestFiles`, with faults before and after the start of a process. It
  needs that executions are numbered once, so that no two jobs share one, that a job before its
  start has no process, and that no file speaks of an execution that is still under way; the two
  steps in which a job learns how its process fares (`Poll`, `Raise`) are one lemma, `ConcludedHonest`.
* `LoneRunsItsHandoff`, `LoneFilesInStep`: `RunsItsHandoff` and `FilesInStep`. Only members of the crew have
  jobs (`CrewInv`), so with one member the prompt a job finds is its own, and what it has written
  so far is its own entry, what it has not is older (`WritesInStep`).

`MetricsSnapshot_proofs` proves, for every log and every set of artifact files (nothing in it is about
a bound), `CountersAddUp` (a counter is the sum of its scopes' counters), `RatesAreRatios`
(no rate exceeds one) and `TotalsCountIds` (a total is a number of ids, however often each id was
written). The deduplication is a loop over the log, so these need induction over data: an
induction theorem that takes an operator is beyond the provers, but the one on least elements of
a well-founded relation (`WFMin`, `NatLessThanWellFounded`) speaks of sets, and
`NumbersByInduction` restates it for a set of numbers. `KeptSifted` is that
induction: the positions kept so far have disjoint marks, and every position left out shares a mark
with a kept one. `SumOverScopes` is the same over the scopes.

`RuntimeRecovery_proofs` (any number of emitters and replayers over one log and one queue)
proves `RecoveryTyping`, `RecoveryLogSafe` (`IndexBacked`, `AnswersTrue`) and `RecoveryReplayTrue`
(`ReplayedIsLogged`). Every step either leaves the log's variables or is a step of the log's own
specification, so that the lemmas of `GovernanceEventLog_proofs` apply; `CallOfItem` ties the call a
replayer is in to the record it looks at, and `QueueMove` says what a pass may write over the
file another pass has changed. With one replay process (`LoneReplayer`), `SettledStays` proves
`SettledStaysSettled`: by `PassInv` file and copy hold each record once, a record that is settled in
the file, or in the copy itself, has that same status in the copy (`Agree`), and what was appended to
a truncated file is younger than the copy (`Later`). On top of these

* `EventsCountedOnce` (`CountedOnce`) and `RecoveryNotAllMissing` (`NotAllMissing`) apply the theorems of
  `MetricsSnapshot_proofs` to the log and the artifacts of every state. They use that the id and the
  key of a failure or an attempt are one string (`IdentityAssumption`) and that nobody reports a
  degradation to the log (`KindAssumption`), as the emits of `src/` have it.
* `GivenUpForCause` (`AbandonedForCause`). The invariant `CauseInv` says that a record, in the file or in
  any copy, has at most as many failed attempts as there were faults, and one less while a
  replayer still has to count the failure of the call it is in (`FailureFresh`): several passes over one
  queue may count an attempt each, but each was a fault of its own. Once the disk is full it
  stays full, and the property says nothing of the records refused then.
* `RecordsStay` (`RecordsKept`, which `DegradationLostRecord` refutes) assumes one replay process and that
  nothing is appended between the moment a pass reads the queue and the moment it writes it, and that no
  process dies between the truncation and the write (`Undisturbed`, a condition on steps). By `QueueInv` the file, or while it is rewritten the copy, then
  holds every record ever made.

`PolicyPublish_proofs` proves `Typing` for any processes, then

* `OutcomesBacked`: `OutcomeBacked`, where each publish is advanced by one process
  (`SoleOperator`). `CallInv` says what a call has read and what it may rely on after each write,
  `ResultBacked` what the shared result says of the request.
* `RollbacksRestore`, `ReportsAreTrue`, `QuietReportsAreTrue`, with one process (`LoneActor`; two are
  excluded by the workflow's documentation): the undo values of `LoneInv` are the ones a
  rollback finds, and `ReportInv` says what the files hold where a call ran to its end. The first
  report theorem keeps the exception of `NoFalseAlarm`, and proves that there an alarm is raised.
* `WorkflowIsAtomic`: with one process and a listed initial version the workflow implements
  `PublishAtomic`. `StageInv` relates the place of a call to the status its writes have reached;
  each write maps to one atomic step or to a stutter.
* `HalfCommitTakesCrash` proves what `PublishHalfCommit` refutes, `HalfCommitReported`, for a publish
  alone as long as nobody has died: by `WholeInv` the status runs ahead of the configuration only
  within a call.

`CouncilReview_proofs` proves, for any artifacts, channels, suggestions and threads that overwrite
each other and die, `Typing`, `TracesCoherent` (`FilesCoherent`) and `VerdictsAreOwners`
(`VerdictFromOwner`): `ReviewInv` carries the legality of the trace and the origin of its verdicts
along every copy of an artifact a thread holds. `LoneApplierLifecycle` and `ReceiptsBacked` assume that
one thread at a time applies (`CouncilOverturned` shows that this is needed): its copy is fresh
(`LoneInv`), so that a receipt is true and every step is one of `ArtifactLifecycle`. Under the same
assumption `RejectionsStay` proves the property that `CouncilOverturned` refutes, `RejectionIsFinal`.

`MessageIngress_proofs` proves, for any messages, threads, routers, restarts and exceptions, `Typing` and
`DuplicatesWereTaken` (`NoFalseDuplicate`): by `MarksTaken` the index and every copy of it hold
only messages that some router took. `TasksAreTrue` (`TaskTruthful`) rests on `QueueInv` and
`WorkerInv` (a pending row has no answer, and the worker holds an unanswered one until it replies) and,
where the scanner alone queues, on `AgeInv`: what is answered, or about to be, was created no later than
what is pending, and what is queued next no earlier than any row.
`OrderHolds` (`HandledInOrder`, any page size) and `WatermarkHidesNothing` (`WatermarkCovers`, while a
page holds the whole group) rest on `OrderInv`, which speaks of positions in the group: what is
left of a batch is a stretch of it, what was handled lies before that stretch in ascending order
(`HandledInv`), every message taken is known to the index or to the copy of the scanner
(`KnownInv`), and nothing a later scan can reach was overtaken (`Closed`). Without the condition
on the page the second is false: what a page does not show is never read (see the hazards).
`LonePathRunsOnce` proves what `IngressTwoPaths` refutes, `NotReExecuted`, where one router takes messages
(`LonePath`: the scanner alone, or a callback server of one thread): by `OnceInv` the index, or
while it is torn the copy of the router that tears it, marks every message handled.

`RoundFlow_proofs` proves all six properties of `RoundFlow`, for any briefs, days, handoffs,
processes and calls. `FilesThere` says which file presupposes which; `ApprovedInv` carries the approval from
the handoff through prompt and package to the process; `LatestInv` bounds the ids issued by the
one on file; `LinkInv` relates the ids of receipt, completion and last process at each place of
a call that may have died; `TraceInv` follows a completion, and a skeleton that tells of a dispatch or of an end,
back to a process that ran or ended (`ClosedRoundsTrue`, `PreparedAfterEnd`).
`OneHandoffLinks` proves `StopsOnMismatch`, which `RoundLinkage` refutes, as long as all handoffs issued are
one: by `OriginInv` every id in a file is that of a handoff that was issued.

Conditions that exclude the findings, proved to be enough:

| Violated in | Holds where | Theorem |
|---|---|---|
| `DegradationLostRecord` | one process replays, nothing is appended during its pass, and it does not die between truncating the file and writing it | `RecordsStay` |
| `CouncilOverturned` | one thread at a time applies a transition | `RejectionsStay` |
| `IngressTwoPaths` | one router takes messages | `LonePathRunsOnce` |
| `RoundLinkage` | one handoff has been written | `OneHandoffLinks` |
| `PublishHalfCommit` | no process has died; one process, one publish, between listed versions | `HalfCommitTakesCrash` |

Both conditions on the publish are needed as well: a version the config does not list raises after the
status was persisted, and an illegal request for a publish that another one has superseded
leaves a result that the report does not compare with the configuration.

The assumptions are the named ones of the modules, which TLC evaluates in the runs, and those a
theorem states (`LoneCaller`, `SoleOperator`, `LoneActor`, `LoneApplier`, `LoneReplayer`, a
finite set of workers in `TasksAreTrue`, a page as large as the group in `WatermarkHidesNothing`, a
single replayer and undisturbed passes in `RecordsStay`).

Only model-checked: liveness (`EventuallyHandled`, `EventuallyClosed`, `EventuallyRecorded`). Fairness and
ENABLED are out of the prover's reach; what these properties rest on beside fairness is proved
(`WatermarkHidesNothing`, `TasksAreTrue`, `LoneFilesInStep`).

## 5. Not modelled

The components listed in `PROJECT.json` as "not_modelled", with reasons there: the pure helpers
(scope validator, intent normalization, role contract) and the notifier (planned, see below);
demos, playbook, scripts and the `ecomscout_ai` demo application (no logic of the bridge).

Within modelled components: texts and their keyword tables; the observation of scopes (only
reported); the two older snapshots, `incremental_metrics_snapshot.py` (one count per line) and
`platform_governance_metrics.py` (a directory of artifacts); the round executor on a bridge file
of an earlier run and the progress summary (a text); page overflow and several workers (the
parameters exist; see the hazards); publishes by two processes (a stated non-goal of the workflow;
`Actor` admits them); other tools of a round dying between their writes (each writes one file).

## 6. Plan

Done, in this order: event log and ledger, degradation, publish and reconcile, council review,
ingress, dispatch, recovery and metrics, the round.

Next modules: `NotifyWindow` (the duplicate window, with refused and suppressed sends), then
`ScopeValidator`, `IntentNormalization` and `RoleContract` as operators against reference definitions.

Next proofs: those of the next modules; what the liveness properties need beside fairness, as a measure
that each fair step decreases (the rows not closed, the positions of a batch not visited).
