------------------------- MODULE MCRuntimeRecovery -------------------------
(* One failed artifact write, which a first policy retries with success     *)
(* and a second one, still attempt 1, hands to the operator; an event that  *)
(* lacks a required field; and the playbook's event, which is replayed.     *)
EXTENDS RuntimeRecovery

MCFailure == {[id |-> "f1", declared |-> "none", stage |-> "artifact_write",
               hint |-> "unknown", action |-> "none"]}
Base      == [action |-> "none", no |-> 0, previous |-> 0, max |-> 0, stub |-> "none"]
MCPolicy  == {Base, [Base EXCEPT !.action = "manual_required"]}
MCOther   == {[kind |-> "policy_publish", id |-> <<"publish", "", 0>>,
               result |-> "applied", scope |-> "owner"]}
MCTool    == {[kind |-> "runtime_recovery_attempt", id |-> <<"playbook", "", 0>>,
               result |-> "manual_required", scope |-> "project"]}

MCEvent      == RecoveryEvent \cup MCOther \cup MCTool
MCWellFormed == MCEvent \ MCOther
MCIdOf       == [e \in MCEvent |-> e.id]
=============================================================================
