-------------------------- MODULE MCPolicyPublish --------------------------
(* Publishes on the default scope and on one owner: p1 and p3 change the   *)
(* default, p2 an owner that inherits it at first; px is for a version that *)
(* the gate knows from an override but the default config does not list.   *)
EXTENDS PublishReconcile, TLC

CONSTANTS a1, a2, p1, p2, p3, px, dft, own

MCScope    == {dft, own}
MCKindOf   == (dft :> "default") @@ (own :> "owner")
MCVersion  == {"v0", "v1", "v2", "vx"}
MCScopeOf  == [p \in Publish |-> IF p \in {p1, p3} THEN dft ELSE own]
MCTargetOf == [p \in Publish |-> IF p = px THEN "vx" ELSE IF p = p3 THEN "v2" ELSE "v1"]
MCOperates == [a \in Actor |-> IF Cardinality(Actor) = 1 THEN Publish
                              ELSE Publish \cap (IF a = a1 THEN {p1, p3} ELSE {p2, px})]
MCRegistered == {"v0", "v1", "v2"}
=============================================================================
