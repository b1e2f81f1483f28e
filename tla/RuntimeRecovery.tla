--------------------------- MODULE RuntimeRecovery ---------------------------
(***************************************************************************)
(* The recovery of a runtime failure and what the governance metrics say   *)
(* of it: the failure is classified and reported                           *)
(* (runtime_failure_event_normalizer.py), attempts to recover from it are  *)
(* decided, saved and reported (runtime_recovery_attempt_runner.py), both  *)
(* through an event log that may fail, degrade and be replayed, and a      *)
(* snapshot counts what reached the log and what is only on disk.          *)
(***************************************************************************)
EXTENDS EventDegradation, MetricsSnapshot

CONSTANTS
    Failure,    \* the failures reported, as emit_runtime_failure_event gets them
    Policy,     \* the recovery policies attempts are run with
    OtherEvent, \* events of other emitters
    ToolEvent   \* the events the testing playbook queues

VARIABLES
    reported,    \* the failures that were reported
    attempt,     \* the attempt artifact, one file that every attempt overwrites
    degradation  \* whether a degradation artifact can be read

recVars == <<reported, attempt, degradation>>

-----------------------------------------------------------------------------
(* Classification of a failure and of an attempt.                           *)
FailureType == {"ingress_router", "normalization", "artifact_write", "publish_apply",
                "publish_rollback", "event_log_write", "snapshot_job", "unknown"}
Retryable   == {"artifact_write", "event_log_write", "snapshot_job"}
Action      == {"retry", "ignore", "manual_required"}

\* STAGE_ALIASES and the stage rules of _infer_failure_type; other stages say nothing.
TypeOfStage == [ ingress       |-> "ingress_router",  normalization    |-> "normalization",
                 artifact_write |-> "artifact_write", publish_apply    |-> "publish_apply",
                 event_ingest  |-> "event_log_write", publish_rollback |-> "publish_rollback",
                 snapshot_job  |-> "snapshot_job" ]

\* The declared type, else the stage's, else what the module's name or the
\* text of the exception hints at.
Classify(f) ==
    CASE f.declared # "none"              -> IF f.declared \in FailureType THEN f.declared
                                                                          ELSE "unknown"
      [] f.declared = "none" /\ f.stage \in DOMAIN TypeOfStage -> TypeOfStage[f.stage]
      [] OTHER                            -> f.hint

DefaultRecovery(type) ==
    CASE type \in Retryable     -> "retry"
      [] type = "publish_apply" -> "rollback"
      [] type = "unknown"       -> "ignore"
      [] OTHER                  -> "manual_required"

\* normalize_failure_event.
Normalize(f) ==
    LET type == Classify(f)
    IN  [ id |-> f.id, type |-> type,
          action |-> IF f.action # "none" THEN f.action ELSE DefaultRecovery(type) ]

\* A failed publish is never retried, whatever the policy asks for.
ActionFor(n, p) ==
    LET asked == IF p.action # "none" THEN p.action ELSE n.action
    IN  IF n.type # "publish_apply" /\ asked \in Action THEN asked ELSE "manual_required"

MaxAttempts(n, p) ==
    CASE ActionFor(n, p) # "retry" -> 0
      [] ActionFor(n, p) = "retry" /\ p.max > 0 -> p.max
      [] OTHER -> IF n.type \in Retryable THEN 3 ELSE 0

\* The caller counts the attempts, or names the previous one, or gets 1.
AttemptNo(p) == IF p.no >= 1 THEN p.no ELSE p.previous + 1

\* The stub executor: what the policy forces, else what the type of failure admits.
RetrySucceeds(n, p) ==
    IF p.stub # "none" THEN p.stub = "success" ELSE n.type # "event_log_write"

AttemptResult(n, p) ==
    CASE ActionFor(n, p) = "ignore"          -> "ignored"
      [] ActionFor(n, p) = "manual_required" -> "manual_required"
      [] OTHER ->
            CASE AttemptNo(p) > MaxAttempts(n, p) -> "failed_terminal"
              [] AttemptNo(p) <= MaxAttempts(n, p) /\ RetrySucceeds(n, p) -> "success"
              [] OTHER -> IF AttemptNo(p) < MaxAttempts(n, p) THEN "failed_retryable"
                                                              ELSE "failed_terminal"

\* run_recovery_attempt.
Attempt(n, p) == [failure |-> n.id, no |-> AttemptNo(p), action |-> ActionFor(n, p),
                  result |-> AttemptResult(n, p)]

-----------------------------------------------------------------------------
(* The events and the files that are counted.                               *)
FailureEvent(n) == [kind |-> "runtime_failure", id |-> <<"runtime_failure", n.id, 0>>,
                    result |-> "pending", scope |-> "project"]

\* The id says which attempt it was, not what was done.
AttemptEvent(a) == [kind |-> "runtime_recovery_attempt",
                    id |-> <<"runtime_recovery", a.failure, a.no>>,
                    result |-> a.result, scope |-> "project"]

RecoveryEvent == LET N == {Normalize(f) : f \in Failure}
                 IN  {FailureEvent(n) : n \in N}
                     \cup {AttemptEvent(Attempt(n, p)) : n \in N, p \in Policy}

ASSUME RecoveryEventAssumption == Event = RecoveryEvent \cup OtherEvent \cup ToolEvent

\* The id and the dedupe key of these events are one string, made of the ids
\* of the failure and of the attempt, which no other event uses.
ASSUME IdentityAssumption ==
    \A e, f \in Event : e.kind \in {"runtime_failure", "runtime_recovery_attempt"} =>
        (Marks(e) \cap Marks(f) # {} <=> e.kind = f.kind /\ e.id = f.id)

\* Nobody reports a degradation to the log: there is only its artifact.
ASSUME KindAssumption == \A e \in Event : e.kind # "runtime_event_log_degradation"

NoAttempt == [result |-> "none"]
Attempts  == {Attempt(Normalize(f), p) : f \in Failure, p \in Policy}

\* The artifacts that a scan of the directory finds; they have no scope but
\* the operator, and a degradation artifact never hears of the replay.
Files ==
    (IF attempt = NoAttempt THEN <<>>
     ELSE <<[kind |-> "runtime_recovery_attempt", result |-> attempt.result, scope |-> "operator"]>>)
    \o (IF degradation
        THEN <<[kind |-> "runtime_event_log_degradation", result |-> "queued", scope |-> "operator"]>>
        ELSE <<>>)

-----------------------------------------------------------------------------
RecTypeOK ==
    /\ DegTypeOK
    /\ reported \subseteq Failure
    /\ attempt \in Attempts \cup {NoAttempt}
    /\ degradation \in BOOLEAN

RecInit == DegInit /\ reported = {} /\ attempt = NoAttempt /\ degradation = FALSE

\* emit_runtime_failure_event, which draws an id of its own: a failure that
\* is reported again would be another member of Failure.
ReportFailure(c, f) ==
    /\ f \notin reported
    /\ Emit(c, FailureEvent(Normalize(f)))
    /\ reported' = reported \cup {f}
    /\ UNCHANGED <<attempt, degradation>>

\* run_and_emit_recovery_attempt: the artifact is written, then the event is emitted ...
RunAttempt(c, f, p) ==
    LET a == Attempt(Normalize(f), p)
    IN  /\ Emit(c, AttemptEvent(a))
        /\ attempt' = a
        /\ UNCHANGED <<reported, degradation>>

\* ... and when the write of the artifact fails nothing is emitted.
AttemptUnsaved(c) ==
    /\ at[c] = "idle" /\ made < MaxRecords
    /\ faults < MaxFaults /\ faults' = faults + 1
    /\ attempt' = NoAttempt
    /\ UNCHANGED <<log, index, readable, callVars, degVars, reported, degradation>>

\* handle_event_log_degradation writes its artifact before it queues the record ...
SaveAndQueue(c) == Degrade(c) /\ degradation' = TRUE /\ UNCHANGED <<reported, attempt>>

\* ... and may fail before, in the middle of, or after that write.
SaveOrQueueFails(c) == DegradeFails(c) /\ degradation' \in BOOLEAN /\ UNCHANGED <<reported, attempt>>

RecNext ==
    \/ DegStep /\ UNCHANGED recVars
    \/ \E c \in Emitter, f \in Failure : ReportFailure(c, f)
    \/ \E c \in Emitter, f \in Failure, p \in Policy : RunAttempt(c, f, p)
    \/ \E c \in Emitter, e \in OtherEvent : Emit(c, e) /\ UNCHANGED recVars
    \/ \E c \in Emitter : AttemptUnsaved(c) \/ SaveAndQueue(c) \/ SaveOrQueueFails(c)
    \/ \E e \in ToolEvent : QueueByTool(e) /\ degradation' = TRUE /\ UNCHANGED <<reported, attempt>>

RecSpec == RecInit /\ [][RecNext]_<<allVars, recVars>>

-----------------------------------------------------------------------------
Reported(kind) == {log[i].id : i \in {j \in DOMAIN log : log[j].kind = kind}}

(* However often an event was retried, replayed or let in twice by a fault  *)
(* of the dedupe index, a snapshot counts it once; every count is the sum   *)
(* over the scopes, and no quality rate exceeds one.                        *)
CountedOnce ==
    \A fallback \in BOOLEAN :
        LET s == Snapshot(log, Files, fallback)
            m == s.metrics
            q == Quality(m)
        IN  /\ \A kind \in {"runtime_failure", "runtime_recovery_attempt"} :
                   Reported(kind) # {} => m[<<kind, "total">>] = Cardinality(Reported(kind))
            /\ \A k \in Counter : m[k] = OverScopes(s.by_scope, k)
            /\ \A rate \in DOMAIN q : q[rate][1] <= q[rate][2]

(* Work of recovery whose artifact is on disk is never all missing from a   *)
(* snapshot that may look at the files, whatever became of its events: the  *)
(* total of attempts is not zero; while no attempt has reached the log the  *)
(* attempt on disk is counted with its result; a degradation is counted as  *)
(* queued.  Not every attempt is: one whose event was lost goes uncounted   *)
(* as soon as the log has a line of another, since the files are then not   *)
(* looked at any more.                                                      *)
NotAllMissing ==
    LET m == Snapshot(log, Files, TRUE).metrics
        attempts(result) == m[<<"runtime_recovery_attempt", result>>]
    IN  /\ attempt # NoAttempt =>
              /\ attempts("total") > 0
              /\ Reported("runtime_recovery_attempt") = {} => attempts(attempt.result) > 0
        /\ degradation => m[<<"runtime_event_log_degradation", "queued">>] > 0
=============================================================================
