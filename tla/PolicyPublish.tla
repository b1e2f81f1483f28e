---------------------------- MODULE PolicyPublish ----------------------------
(***************************************************************************)
(* The policy publish workflow (policy_publish_fsm.py), the layered config *)
(* it changes (policy_config_center.py) and the report that reconciles the *)
(* two after a failure (runtime_publish_reconcile_hook.py).                *)
(*                                                                         *)
(* One call of advance_publish_status writes up to six files one after the *)
(* other; each write is a step here, and the process may die between any   *)
(* two of them.  The result, review and audit files have one default path  *)
(* each, shared by all publishes; every publish has its own request file.  *)
(***************************************************************************)
EXTENDS Naturals, FiniteSets

CONSTANTS
    Actor,           \* processes that run advance_publish_status
    Publish,         \* publish ids
    Operates,        \* actor -> the publishes it advances
    Scope, Default,  \* the scopes with a config entry; the default scope
    KindOf,          \* scope -> its config file (default, owner, workspace...)
    Version, NoVersion, InitialVersion,
    Registered,      \* versions listed in the default config
    ScopeOf, TargetOf,  \* publish -> target_scope, active_alias_version_to
    GateMayBlock,    \* publishes that the alias regression gate may block
    MaxCrashes       \* bound on crashes

ASSUME PublishAssumption ==
    /\ Default \in Scope /\ InitialVersion \in Version /\ NoVersion \notin Version
    /\ "none" \notin Publish
    /\ Registered \subseteq Version /\ GateMayBlock \subseteq Publish
    /\ Operates \in [Actor -> SUBSET Publish]
    /\ ScopeOf \in [Publish -> Scope] /\ TargetOf \in [Publish -> Version]
    /\ MaxCrashes \in Nat

VARIABLES
    request,   \* publish -> its request file: status and the "from" version
    active,    \* the config files: scope -> active version, or none
    result,    \* the shared result file
    review,    \* the shared review file
    audit,     \* the shared audit pack file
    events,    \* the governance events logged: <<publish, status>>
    act,       \* per actor: its call, and what the call holds in memory
    undo,      \* history: what each publish replaced when it was applied
    crashes

artifacts == <<result, review, audit>>
vars == <<request, active, artifacts, events, act, undo, crashes>>

Maybe == Version \cup {NoVersion}
Target == {"under_review", "confirmed", "applied", "rejected", "rolled_back"}
Status == Target \cup {"proposed"}
Phase  == {"idle", "transition", "review", "table", "config", "from",
           "result", "audit", "event"}
NoArtifact == [pub |-> "none", status |-> "none", from |-> NoVersion,
               before |-> NoVersion, after |-> NoVersion]
NoAct == [at |-> "idle", pub |-> "none", target |-> "none", old |-> "none",
          from |-> NoVersion, before |-> NoVersion, after |-> NoVersion,
          table |-> [s \in Scope |-> NoVersion]]

Effective(cfg, s) == IF cfg[s] = NoVersion THEN cfg[Default] ELSE cfg[s]
AllEffective(cfg) == [s \in Scope |-> Effective(cfg, s)]

PubTypeOK ==
    /\ request \in [Publish -> [status : Status \cup {"absent"}, from : Maybe]]
    /\ active \in [Scope -> Maybe] /\ active[Default] \in Version
    /\ events \subseteq Publish \X Target
    /\ \A a \in Actor : act[a].at \in Phase /\ act[a].table \in [Scope -> Maybe]
                        /\ act[a].before \in Maybe /\ act[a].after \in Maybe
                        /\ (act[a].at # "idle" => act[a].pub \in Publish
                                                  /\ act[a].target \in Target)
    /\ result.pub \in Publish \cup {"none"} /\ result.from \in Maybe
    /\ crashes \in Nat

Init ==
    /\ request = [p \in Publish |-> [status |-> "absent", from |-> NoVersion]]
    /\ active = [s \in Scope |-> IF s = Default THEN InitialVersion ELSE NoVersion]
    /\ result = NoArtifact /\ review = NoArtifact /\ audit = NoArtifact
    /\ events = {}
    /\ act = [a \in Actor |-> NoAct]
    /\ undo = [p \in Publish |-> <<>>]
    /\ crashes = 0

-----------------------------------------------------------------------------
\* ALLOWED_TRANSITIONS of the publish state machine.
Allowed(old) ==
    CASE old = "proposed"     -> {"under_review", "confirmed", "rejected"}
      [] old = "under_review" -> {"confirmed", "rejected"}
      [] old = "confirmed"    -> {"applied", "rejected"}
      [] old = "applied"      -> {"rolled_back"}
      [] OTHER                -> {}

\* create_publish_request writes a fresh request file.
Create(p) ==
    /\ request[p].status = "absent"
    /\ request' = [request EXCEPT ![p].status = "proposed"]
    /\ UNCHANGED <<active, artifacts, events, act, undo, crashes>>

\* A call of advance_publish_status reads the request file.
Load(a, p, target) ==
    /\ act[a].at = "idle"
    /\ p \in Operates[a] /\ request[p].status # "absent"
    /\ act' = [act EXCEPT ![a] =
                  [at |-> "transition", pub |-> p, target |-> target,
                   old |-> request[p].status, from |-> request[p].from,
                   before |-> NoVersion, after |-> NoVersion,
                   table |-> [s \in Scope |-> NoVersion]]]
    /\ UNCHANGED <<request, active, artifacts, events, undo, crashes>>

Finish(a)    == act' = [act EXCEPT ![a] = NoAct]
GoTo(a, at)  == act' = [act EXCEPT ![a].at = at]
Artifact(a, status) == [pub |-> act[a].pub, status |-> status, from |-> act[a].from,
                        before |-> act[a].before, after |-> act[a].after]

\* The gate runs the alias suite on the files as they are: either outcome.
GateMayStop(a) == act[a].target = "applied" /\ act[a].pub \in GateMayBlock

\* The regression gate runs first, whatever the status of the request is.
BlockedByRegression(a) ==
    /\ act[a].at = "transition"
    /\ GateMayStop(a)
    /\ result' = Artifact(a, "blocked_by_regression")
    /\ Finish(a)
    /\ UNCHANGED <<request, active, review, audit, events, undo, crashes>>

\* An illegal transition is recorded in the result file and nowhere else.
Blocked(a) ==
    /\ act[a].at = "transition"
    /\ act[a].target \notin Allowed(act[a].old)
    /\ result' = Artifact(a, "blocked")
    /\ Finish(a)
    /\ UNCHANGED <<request, active, review, audit, events, undo, crashes>>

\* A legal one is persisted before anything else happens.
PersistStatus(a) ==
    /\ act[a].at = "transition"
    /\ act[a].target \in Allowed(act[a].old)
    /\ request' = [request EXCEPT ![act[a].pub] =
                      [status |-> act[a].target, from |-> act[a].from]]
    /\ GoTo(a, IF act[a].target \in {"applied", "rolled_back"} THEN "table" ELSE "review")
    /\ UNCHANGED <<active, artifacts, events, undo, crashes>>

WriteReview(a) ==
    /\ act[a].at = "review"
    /\ review' = Artifact(a, act[a].target)
    /\ GoTo(a, "result")
    /\ UNCHANGED <<request, active, result, audit, events, undo, crashes>>

-----------------------------------------------------------------------------
\* The version a call writes to the config of its scope.
NewVersion(a) == IF act[a].target = "applied" THEN TargetOf[act[a].pub] ELSE act[a].from

\* A rollback without a recorded version stops here, its status persisted.
RollbackWithoutFrom(a) ==
    /\ act[a].at = "table"
    /\ act[a].target = "rolled_back" /\ act[a].from = NoVersion
    /\ result' = Artifact(a, "blocked")
    /\ Finish(a)
    /\ UNCHANGED <<request, active, review, audit, events, undo, crashes>>

\* A version the default config does not list raises; nothing is undone.
UnknownVersion(a) ==
    /\ act[a].at = "table"
    /\ NewVersion(a) # NoVersion /\ NewVersion(a) \notin Registered
    /\ Finish(a)
    /\ UNCHANGED <<request, active, artifacts, events, undo, crashes>>

\* Mutant of ReadTable: the version is not looked up in the registry.
ReadTableUnchecked(a) ==
    /\ act[a].at = "table"
    /\ act' = [act EXCEPT ![a].at = "config", ![a].table = active,
                          ![a].before = Effective(active, ScopeOf[act[a].pub])]
    /\ UNCHANGED <<request, active, artifacts, events, undo, crashes>>

\* The effective version and the whole config file of the scope are read ...
ReadTable(a) ==
    /\ act[a].at = "table"
    /\ NewVersion(a) \in Registered
    /\ act' = [act EXCEPT ![a].at = "config", ![a].table = active,
                          ![a].before = Effective(active, ScopeOf[act[a].pub])]
    /\ UNCHANGED <<request, active, artifacts, events, undo, crashes>>

\* ... and the whole file is written back with the entry of the scope changed.
WriteTable(a) ==
    /\ act[a].at = "config"
    /\ LET p == act[a].pub
           s == ScopeOf[p]
       IN  /\ active' = [x \in Scope |->
                 CASE x = s                              -> NewVersion(a)
                   [] x # s /\ KindOf[x] = KindOf[s]     -> act[a].table[x]
                   [] OTHER                              -> active[x]]
           /\ act' = [act EXCEPT ![a].after = Effective(active', s),
                        ![a].at = IF act[a].target = "applied" THEN "from" ELSE "result"]
           /\ undo' = IF act[a].target = "applied"
                      THEN [undo EXCEPT ![p] = <<active, active'>>]
                      ELSE undo
    /\ UNCHANGED <<request, artifacts, events, crashes>>

\* Mutant of PersistFrom: the version read back after the write is recorded.
PersistAfter(a) ==
    /\ act[a].at = "from"
    /\ request' = [request EXCEPT ![act[a].pub] =
                      [status |-> act[a].target, from |-> act[a].after]]
    /\ GoTo(a, "result")
    /\ UNCHANGED <<active, artifacts, events, undo, crashes>>

\* The version that was replaced is recorded in the request file.
PersistFrom(a) ==
    /\ act[a].at = "from"
    /\ request' = [request EXCEPT ![act[a].pub] =
                      [status |-> act[a].target, from |-> act[a].before]]
    /\ GoTo(a, "result")
    /\ UNCHANGED <<active, artifacts, events, undo, crashes>>

\* The change_set of the result was copied before the config was changed.
WriteResult(a) ==
    /\ act[a].at = "result"
    /\ result' = Artifact(a, act[a].target)
    /\ IF act[a].target \in {"applied", "rolled_back"} THEN GoTo(a, "audit")
       ELSE IF act[a].target = "rejected" THEN GoTo(a, "event") ELSE Finish(a)
    /\ UNCHANGED <<request, active, review, audit, events, undo, crashes>>

WriteAudit(a) ==
    /\ act[a].at = "audit"
    /\ audit' = [Artifact(a, act[a].target) EXCEPT !.from =
                    IF act[a].target = "applied" THEN act[a].before ELSE act[a].from]
    /\ GoTo(a, "event")
    /\ UNCHANGED <<request, active, result, review, events, undo, crashes>>

\* The event carries the default fallback key: type, result path, status and
\* minute, so a publish that ends like an earlier one may leave no event.
EmitEvent(a) ==
    /\ act[a].at = "event"
    /\ \/ events' = events \cup {<<act[a].pub, act[a].target>>}
       \/ UNCHANGED events /\ \E p \in Publish : <<p, act[a].target>> \in events
    /\ Finish(a)
    /\ UNCHANGED <<request, active, artifacts, undo, crashes>>

\* The process dies between two writes.
Crash(a) ==
    /\ act[a].at # "idle"
    /\ crashes < MaxCrashes /\ crashes' = crashes + 1
    /\ Finish(a)
    /\ UNCHANGED <<request, active, artifacts, events, undo>>

Next ==
    \/ \E p \in Publish : Create(p)
    \/ \E a \in Actor :
        \/ \E p \in Publish, t \in Target : Load(a, p, t)
        \/ BlockedByRegression(a) \/ Blocked(a) \/ PersistStatus(a) \/ WriteReview(a)
        \/ RollbackWithoutFrom(a) \/ UnknownVersion(a)
        \/ ReadTable(a) \/ WriteTable(a) \/ PersistFrom(a)
        \/ WriteResult(a) \/ WriteAudit(a) \/ EmitEvent(a)
        \/ Crash(a)

Spec == Init /\ [][Next]_vars

-----------------------------------------------------------------------------
(* Files written later never claim more than files written earlier: an      *)
(* "applied" result or event stands on a request that says so, on a config  *)
(* that was changed and on a recorded version to return to, whatever the    *)
(* write the process died after.                                            *)
OutcomeBacked ==
    /\ result.status = "applied" =>
          /\ request[result.pub].status \in {"applied", "rolled_back"}
          /\ request[result.pub].from = result.before
    /\ \A p \in Publish : <<p, "applied">> \in events =>
          /\ request[p].status \in {"applied", "rolled_back"}
          /\ request[p].from # NoVersion
          /\ undo[p] # <<>>

(* One process at a time: a rollback that finds the config files as the     *)
(* apply left them brings back what every scope resolved to before it, also *)
(* after crashes and retries.  The condition is on the files: an override   *)
(* written in between pins its scope even if it resolves to the same.       *)
RollbackRestores ==
    [][\A a \in Actor : LET p == act[a].pub IN
          WriteTable(a) /\ act[a].target = "rolled_back"
          /\ undo[p] # <<>> /\ active = undo[p][2]
             => AllEffective(active') = AllEffective(undo[p][1])]_vars

(* One process: the workflow implements the atomic one, and every crash is  *)
(* at most one lapse of it.  Between the two writes of an apply or a        *)
(* rollback the abstract publish is where it was before the first, and the  *)
(* abstract "from" is known as soon as the config has been written.         *)
Busy(p, phases) == \E a \in Actor : act[a].pub = p /\ act[a].at \in phases
CallOf(p) == act[CHOOSE a \in Actor : act[a].pub = p]
StatusSeen == [p \in Publish |-> IF Busy(p, {"table", "config"}) THEN CallOf(p).old
                                 ELSE request[p].status]
FromSeen   == [p \in Publish |-> IF Busy(p, {"from"}) THEN CallOf(p).before
                                 ELSE request[p].from]
Atomic == INSTANCE PublishAtomic WITH
    status <- StatusSeen, from <- FromSeen, lapses <- crashes
ImplementsAtomic == Atomic!Spec
=============================================================================
