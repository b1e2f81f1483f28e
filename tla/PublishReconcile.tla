-------------------------- MODULE PublishReconcile --------------------------
(***************************************************************************)
(* The read-only report on a publish whose apply or rollback may have      *)
(* stopped half-way (runtime_publish_reconcile_hook.py), computed from the *)
(* files of PolicyPublish.                                                 *)
(***************************************************************************)
EXTENDS PolicyPublish

\* The publish the report is really about: the one in the shared result file.
Subject(p) == IF result.pub = "none" THEN p ELSE result.pub

CurrentVersion(p) == Effective(active, ScopeOf[Subject(p)])
FromVersion(p)    == IF result.pub = "none" THEN request[p].from ELSE result.from
First(x, y)       == IF x # NoVersion THEN x ELSE y
BeforeVersion     == First(result.before, audit.before)
AfterVersion      == First(result.after, audit.after)

MissingArtifact == \/ result.pub = "none"
                   \/ audit.pub = "none" /\ result.status \in {"applied", "rolled_back"}

\* Mutant of CriticalMismatch: the applied result is compared with "from".
MismatchWithFrom(p) ==
    \/ result.status = "applied" /\ CurrentVersion(p) # FromVersion(p)
    \/ result.status = "rolled_back" /\ CurrentVersion(p) # TargetOf[Subject(p)]

CriticalMismatch(p) ==
    \/ result.status = "applied" /\ CurrentVersion(p) # TargetOf[Subject(p)]
    \/ result.status = "applied" /\ BeforeVersion # NoVersion /\ BeforeVersion = AfterVersion
    \/ /\ result.status = "rolled_back"
       /\ FromVersion(p) # NoVersion /\ CurrentVersion(p) # FromVersion(p)

\* Mutant of ConfigAhead: a target version that is in effect is never suspect.
NeverAhead(p) == FALSE

ConfigAhead(p) == /\ result.status \notin {"applied", "rolled_back"}
                  /\ CurrentVersion(p) = TargetOf[Subject(p)]

\* reconcile_publish_failure: the reconcile_status of its report.
ReconcileStatus(p) ==
    LET explained == CurrentVersion(p) \in {TargetOf[Subject(p)], FromVersion(p)}
    IN  CASE CriticalMismatch(p)                          -> "manual_required"
          [] ~ CriticalMismatch(p) /\ MissingArtifact /\ explained -> "reconciled"
          [] ~ CriticalMismatch(p) /\ (ConfigAhead(p) \/ MissingArtifact)
             /\ ~ (MissingArtifact /\ explained)          -> "partially_reconciled"
          [] OTHER                                        -> "no_action_needed"

-----------------------------------------------------------------------------
Quiet == \A a \in Actor : act[a].at = "idle"

\* Nothing has changed the configuration since p was applied (rolled back); the
\* apply of p was a change at all, and not of a version that was in effect anyway.
Replaced(p)     == Effective(undo[p][1], ScopeOf[p])
Changed(p)      == Replaced(p) # TargetOf[p]
AsApplied(p)    == undo[p] # <<>> /\ active = undo[p][2]
AsRolledBack(p) == undo[p] # <<>> /\ AllEffective(active) = AllEffective(undo[p][1])

(* After an apply or a rollback that ran to its end and that nothing has    *)
(* overtaken, the report asks for no action, with one exception, a false    *)
(* alarm in every case: the apply of a version that was in effect already   *)
(* is reported for manual work, because its before and after are the same.  *)
NoFalseAlarm == \A p \in Publish :
    Quiet /\ result.pub = p /\ audit.pub = p /\ audit.status = result.status
       => /\ result.status = "applied" /\ AsApplied(p) =>
                ReconcileStatus(p) = IF Changed(p) THEN "no_action_needed"
                                                   ELSE "manual_required"
          /\ result.status = "rolled_back" /\ AsRolledBack(p) =>
                ReconcileStatus(p) = "no_action_needed"

(* When the last change of the configuration was the apply of p and the     *)
(* report on p asks for no action, the files agree: the result says applied *)
(* and the request holds the version to return to.  (An apply of what was   *)
(* in effect anyway leaves nothing that tells it from its own rollback.)    *)
NoActionMeansAgreement == \A p \in Publish :
    Quiet /\ result.pub = p /\ AsApplied(p) /\ Changed(p)
    /\ ReconcileStatus(p) = "no_action_needed"
       => result.status = "applied" /\ request[p].from = Replaced(p)

(* A publish whose request says applied while its version is not in effect, *)
(* or rolled back while it still is, is never reported as needing no action.*)
HalfCommitReported == \A p \in Publish :
    Quiet /\ result.pub = p
    /\ (\/ request[p].status = "applied" /\ CurrentVersion(p) # TargetOf[p]
        \/ request[p].status = "rolled_back" /\ AsApplied(p) /\ Changed(p))
       => ReconcileStatus(p) # "no_action_needed"
=============================================================================
