---------------------------- MODULE PublishAtomic ----------------------------
(***************************************************************************)
(* What the policy publish workflow promises: a publish moves along its    *)
(* review path, and applying or rolling it back changes its status and the *)
(* active version of its scope in one indivisible step, remembering the    *)
(* version that was effective before.  A process that dies may leave one   *)
(* publish with its new status but without the change, or without the      *)
(* version to return to, once for every death, and never more than that.   *)
(***************************************************************************)
EXTENDS Naturals

CONSTANTS Publish, Scope, Default, NoVersion, ScopeOf, TargetOf, InitialVersion,
          Registered

VARIABLES status, from, active, lapses

Effective(s) == IF active[s] = NoVersion THEN active[Default] ELSE active[s]

Init ==
    /\ status = [p \in Publish |-> "absent"]
    /\ from = [p \in Publish |-> NoVersion]
    /\ active = [s \in Scope |-> IF s = Default THEN InitialVersion ELSE NoVersion]
    /\ lapses = 0

Move(p, old, new) == status[p] = old /\ status' = [status EXCEPT ![p] = new]

Review(p) ==
    /\ \/ Move(p, "absent", "proposed")
       \/ Move(p, "proposed", "under_review")
       \/ Move(p, "proposed", "confirmed")
       \/ Move(p, "under_review", "confirmed")
       \/ Move(p, "proposed", "rejected")
       \/ Move(p, "under_review", "rejected")
       \/ Move(p, "confirmed", "rejected")
    /\ UNCHANGED <<from, active, lapses>>

Apply(p) ==
    /\ Move(p, "confirmed", "applied")
    /\ TargetOf[p] \in Registered
    /\ from' = [from EXCEPT ![p] = Effective(ScopeOf[p])]
    /\ active' = [active EXCEPT ![ScopeOf[p]] = TargetOf[p]]
    /\ UNCHANGED lapses

Rollback(p) ==
    /\ Move(p, "applied", "rolled_back")
    /\ from[p] # NoVersion
    /\ active' = [active EXCEPT ![ScopeOf[p]] = from[p]]
    /\ UNCHANGED <<from, lapses>>

\* An unlisted version, or a rollback with nothing to return to: the status alone.
StatusOnly(p) ==
    /\ \/ Move(p, "confirmed", "applied") /\ TargetOf[p] \notin Registered
       \/ Move(p, "applied", "rolled_back") /\ from[p] = NoVersion
    /\ UNCHANGED <<from, active, lapses>>

\* The process dies: at worst one publish is left half-way, the config as it is.
Lapse(p) ==
    /\ lapses' = lapses + 1
    /\ \/ UNCHANGED <<status, from>>
       \/ Move(p, "confirmed", "applied") /\ UNCHANGED from
       \/ Move(p, "applied", "rolled_back") /\ UNCHANGED from
       \/ /\ status[p] = "applied" /\ UNCHANGED status
          /\ from' = [from EXCEPT ![p] = NoVersion]
    /\ UNCHANGED active

Next == \E p \in Publish :
    Review(p) \/ Apply(p) \/ Rollback(p) \/ StatusOnly(p) \/ Lapse(p)

Spec == Init /\ [][Next]_<<status, from, active, lapses>>
=============================================================================
