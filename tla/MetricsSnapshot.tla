--------------------------- MODULE MetricsSnapshot ---------------------------
(***************************************************************************)
(* What a metrics snapshot reports (governance_metrics_snapshot_job.py): a *)
(* function of the lines of the governance event log and, for the          *)
(* categories of recovery that the log says nothing about, of the artifact *)
(* files found in a directory.  An item, line or file, has a kind, a       *)
(* result and the scope it is counted under; a line has marks besides.     *)
(* Items are functions from numbers, so that a part of the log is the log  *)
(* restricted to some of its positions.                                    *)
(***************************************************************************)
EXTENDS GovernanceEventLog, FiniteSetsExt

AttemptOutcome  == {"success", "failed_retryable", "failed_terminal", "ignored",
                    "manual_required"}
ReconcileStatus == {"no_action_needed", "reconciled", "partially_reconciled",
                    "manual_required"}
QueueStatus     == {"queued", "replayed", "replay_failed", "abandoned"}

\* The counters, each with its category.
Counter ==
    {<<"scope_validation", s>> : s \in {"pass", "blocked", "degraded"}}
    \cup {<<"router_scope_observe", s>> : s \in {"observed", "warnings", "invalid_scope"}}
    \cup {<<"policy_publish", s>> : s \in {"applied", "rejected", "rolled_back"}}
    \cup {<<"runtime_failure", "total">>}
    \cup {<<"runtime_recovery_attempt", s>> : s \in AttemptOutcome \cup {"total"}}
    \cup {<<"runtime_reconcile", s>> : s \in ReconcileStatus}
    \cup {<<"runtime_event_log_degradation", s>> : s \in QueueStatus}

RecoveryCategory == {"runtime_failure", "runtime_recovery_attempt", "runtime_reconcile",
                     "runtime_event_log_degradation"}

\* The counters that an item raises.
Raises(x, k) ==
    /\ x.kind = k[1]
    /\ \/ k[2] \in {"total", "observed", x.result}
       \/ k[2] \in {"degraded", "warnings"} /\ x.result = "degraded_continue"
       \/ k[2] \in {"invalid_scope", "warnings"} /\ x.result = "blocked"

Tally(items, k) == Cardinality({i \in DOMAIN items : Raises(items[i], k)})

\* The marks of the lines at some positions of the log.
MarksAt(lines, positions) == UNION {Marks(lines[i]) : i \in positions}

\* Mutant of Kept: every line counts, as in incremental_metrics_snapshot.
KeptAll(lines) == lines

\* After n lines, the positions of those that stay.
KeptUpTo(lines) ==
    LET kept[n \in 0 .. Len(lines)] ==
          IF n = 0 THEN {}
          ELSE IF Marks(lines[n]) \cap MarksAt(lines, kept[n - 1]) # {}
               THEN kept[n - 1]
               ELSE kept[n - 1] \cup {n}
    IN  kept

\* _dedupe_events: a line goes if a line kept before it has its id or its key.
Kept(lines) == Restrict(lines, KeptUpTo(lines)[Len(lines)])

\* Mutant of Supplemented: files count only when the log is empty.
SupplementedWhenEmpty(kept, files) ==
    {c \in RecoveryCategory : DOMAIN kept = {} /\ \E k \in Counter : k[1] = c /\ Tally(files, k) > 0}

\* The categories without a line that a file was found for.
Supplemented(kept, files) ==
    {c \in RecoveryCategory :
        /\ \A i \in DOMAIN kept : kept[i].kind # c
        /\ \E k \in Counter : k[1] = c /\ Tally(files, k) > 0}

InScope(items, scope) == Restrict(items, {i \in DOMAIN items : items[i].scope = scope})
Scopes(items)         == {items[i].scope : i \in DOMAIN items}

\* Supplemented categories are taken from the files, the others from the lines.
Pick(categories, files, lines) ==
    [k \in Counter |-> Tally(IF k[1] \in categories THEN files ELSE lines, k)]

Snapshot(lines, files, fallback) ==
    LET kept  == Kept(lines)
        added == IF fallback THEN Supplemented(kept, files) ELSE {}
    IN  [ mode     |-> CASE DOMAIN kept = {} /\ fallback  -> "full_scan_fallback"
                         [] DOMAIN kept # {} /\ added # {} -> "mixed"
                         [] OTHER                     -> "incremental",
          metrics  |-> Pick(added, files, kept),
          by_scope |-> [s \in Scopes(kept) \cup (IF added = {} THEN {} ELSE Scopes(files)) |->
                          Pick(added, InScope(files, s), InScope(kept, s))] ]

OverScopes(byScope, k) == MapThenSumSet(LAMBDA scope : byScope[scope][k], DOMAIN byScope)

\* The quality rates, as numerator and denominator.
Quality(m) ==
    LET attempt(s)  == m[<<"runtime_recovery_attempt", s>>]
        degraded(s) == m[<<"runtime_event_log_degradation", s>>]
        outcomes    == degraded("replayed") + degraded("replay_failed") + degraded("abandoned")
    IN  [ recovery_rate            |-> <<attempt("success"), attempt("total")>>,
          manual_intervention_rate |-> <<attempt("manual_required"), attempt("total")>>,
          abandonment_rate         |-> <<degraded("abandoned"), degraded("queued") + outcomes>>,
          replay_success_rate      |-> <<degraded("replayed"), outcomes>> ]
=============================================================================
