-------------------------- MODULE ArtifactLifecycle --------------------------
(***************************************************************************)
(* What the review of council artifacts promises: the status of an         *)
(* artifact moves one legal transition at a time, every move is kept in    *)
(* its audit trace, and a transition is reported as applied only if it is  *)
(* a move that was made.                                                   *)
(***************************************************************************)
EXTENDS Sequences

CONSTANTS Artifact, Legal   \* Legal[s]: the statuses that may follow s

VARIABLES status, moves, told

Init ==
    /\ status \in [Artifact -> DOMAIN Legal]
    /\ moves = [a \in Artifact |-> <<>>]
    /\ told = {}

Move(a) == \E s \in Legal[status[a]] :
    /\ moves' = [moves EXCEPT ![a] = Append(@, <<status[a], s>>)]
    /\ status' = [status EXCEPT ![a] = s]
    /\ UNCHANGED told

\* Reports overwrite each other: at most the latest of each kind is kept.
Tell ==
    /\ told' \subseteq told \cup
          UNION {{<<a, moves[a][i]>> : i \in DOMAIN moves[a]} : a \in Artifact}
    /\ UNCHANGED <<status, moves>>

Next == (\E a \in Artifact : Move(a)) \/ Tell

Spec == Init /\ [][Next]_<<status, moves, told>>
=============================================================================
