------------------------ MODULE MCEventDegradation ------------------------
(* One well-formed event, emitted again and again, and one that lacks a    *)
(* required field.                                                         *)
EXTENDS EventDegradation, TLC

CONSTANTS e1, bad

MCEvent      == {e1, bad}
MCWellFormed == {e1}
MCIdOf       == (e1 :> 1) @@ (bad :> 0)
MCKeyOf      == (e1 :> "m1") @@ (bad :> "none")
=============================================================================
