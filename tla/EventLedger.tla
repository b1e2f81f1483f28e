----------------------------- MODULE EventLedger -----------------------------
(***************************************************************************)
(* What the governance event log promises its readers: a sequence of       *)
(* well-formed events that only grows, one event at a time.  An event that *)
(* an earlier line already stands for (the same event_id, or the same      *)
(* dedupe_key) is not taken again, except once for each lapse: a fault of  *)
(* the writer between its two files.                                       *)
(***************************************************************************)
EXTENDS Naturals, Sequences, FiniteSets

CONSTANTS WellFormed, Marks(_)

VARIABLES ledger, lapses

Copies(m) == Cardinality({i \in DOMAIN ledger : m \in Marks(ledger[i])})

Init == ledger = <<>> /\ lapses = 0

Accept(e) ==
    /\ \A m \in Marks(e) : Copies(m) <= lapses
    /\ ledger' = Append(ledger, e)
    /\ UNCHANGED lapses

Lapse == lapses' = lapses + 1 /\ UNCHANGED ledger

Next == Lapse \/ \E e \in WellFormed : Accept(e)

Spec == Init /\ [][Next]_<<ledger, lapses>>
=============================================================================
