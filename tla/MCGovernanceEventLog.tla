----------------------- MODULE MCGovernanceEventLog -----------------------
(* Small instances of the event log: e1 and e2 differ only in the event_id *)
(* and share the fallback key of their minute, e3 stands alone, e4 is e1   *)
(* sent again in a later minute, and bad lacks a required field.           *)
EXTENDS GovernanceEventLog, TLC

CONSTANTS e1, e2, e3, e4, bad

MCEvent      == {e1, e2, e3, e4, bad}
MCWellFormed == {e1, e2, e3, e4}
MCIdOf       == (e1 :> 1) @@ (e2 :> 2) @@ (e3 :> 3) @@ (e4 :> 1) @@ (bad :> 0)
MCKeyOf      == (e1 :> "m1") @@ (e2 :> "m1") @@ (e3 :> "m2")
                @@ (e4 :> "m3") @@ (bad :> "none")
=============================================================================
