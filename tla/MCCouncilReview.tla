-------------------------- MODULE MCCouncilReview --------------------------
(* A plan that is ready for its verdict, and a handoff in review; two   *)
(* feedback messages and an operator who confirms or uses the command line *)
(* twice, which is enough for two transitions in a row.                    *)
EXTENDS CouncilReview, TLC

CONSTANTS plan, handoff, ask, apply

MCBudget == (apply :> 2) @@ (ask :> 2)

MCStart == {(plan :> "ready_for_owner_review") @@ (handoff :> s) :
              s \in Status \ {"draft", "resubmitted", "owner_rejected", "handoff_ready"}}

\* Every intent for the handoff, with the owner's lane where it makes a
\* difference, and a verdict on the plan that may be confirmed for the other.
MCMessage ==
    {<<handoff, m[1], m[2]>> : m \in
        {<<"fix", "chat">>, <<"resubmit", "chat">>, <<"comment", "chat">>,
         <<"rework", "chat">>, <<"approve", "chat">>, <<"approve", "owner">>,
         <<"reject", "owner">>}}
    \cup {<<plan, "reject", "owner">>}

\* Two callers that confirm: both verdicts on a handoff that is ready for one.
MCReady   == {(plan :> "draft") @@ (handoff :> "ready_for_owner_review")}
MCVerdict == {<<handoff, "approve", "owner">>, <<handoff, "reject", "owner">>}

Ask(from, to, lane) ==
    [named |-> handoff, from |-> from, to |-> to, lane |-> lane, asked |-> lane,
     fb |-> FALSE, link |-> FALSE]

\* A step no message asks for, a verdict the chat lane may not ask for, and a
\* request for fixes that names no feedback.
MCCliRequest ==
    {Ask("owner_approved", "handoff_ready", "owner"),
     Ask("ready_for_owner_review", "owner_rejected", "chat"),
     Ask("under_review", "needs_fix", "owner")}
=============================================================================
