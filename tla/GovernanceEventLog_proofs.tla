---------------------- MODULE GovernanceEventLog_proofs ----------------------
(***************************************************************************)
(* Proofs about the event log, for every set of callers and events:        *)
(* the dedupe index never runs ahead of the log, under any interleaving    *)
(* and any faults; and with one caller, which may fail and die at any step *)
(* any number of times, the log implements the abstract ledger.            *)
(***************************************************************************)
EXTENDS GovernanceEventLog, FiniteSetTheorems, TLAPS

(* The marks of an event are marks.                                        *)
LEMMA MarksAreMarks == \A e \in Event : Marks(e) \subseteq Mark
  BY DEF Mark

(* What the programs that call the ingest can do to the log and the index,  *)
(* the event log on its own and the tools composed with it: enter a call,   *)
(* take a step of it, forget it, or meet an exception elsewhere.            *)
LogMove ==
    \/ \E c \in Caller, e \in Event : Call(c, e)
    \/ \E c \in Caller : IngestStep(c)
    \/ \E c \in Caller : Forget(c) /\ faults' \in Nat
    \/ UNCHANGED <<log, index, readable, callVars>> /\ faults' \in Nat

(* The steps of the log alone are such moves.                               *)
LEMMA NextMoves == TypeOK /\ [Next]_vars => LogMove
BY DEF TypeOK, Next, vars, LogMove, Crash, Return

(* They keep every variable in its type.                                    *)
LEMMA MoveTyped == ASSUME TypeOK, LogMove PROVE TypeOK'
<1> USE EventAssumption, MarksAreMarks DEF TypeOK, Phase, Status
<1>1. ASSUME NEW c \in Caller, NEW e \in Event, Call(c, e) PROVE TypeOK'
  BY <1>1 DEF Call
<1>2. ASSUME NEW c \in Caller, RejectInvalid(c) PROVE TypeOK'
  BY <1>2 DEF RejectInvalid, Answer
<1>3. ASSUME NEW c \in Caller, LoadIndex(c) PROVE TypeOK'
  <2>1. IndexRead \subseteq Mark
    BY DEF IndexRead
  <2>2. QED
    BY <1>3, <2>1 DEF LoadIndex, Answer
<1>4. ASSUME NEW c \in Caller, AppendEvent(c) PROVE TypeOK'
  BY <1>4 DEF AppendEvent
<1>5. ASSUME NEW c \in Caller, TruncateIndex(c) PROVE TypeOK'
  BY <1>5 DEF TruncateIndex
<1>6. ASSUME NEW c \in Caller, WriteIndex(c) PROVE TypeOK'
  BY <1>6 DEF WriteIndex, Answer
<1>7. ASSUME NEW c \in Caller, DiskFull(c) \/ Raise(c) PROVE TypeOK'
  BY <1>7 DEF DiskFull, Raise, Answer
<1>8. ASSUME NEW c \in Caller, Forget(c), faults' \in Nat PROVE TypeOK'
  BY <1>8 DEF Forget
<1>9. CASE UNCHANGED <<log, index, readable, callVars>> /\ faults' \in Nat
  BY <1>9 DEF callVars
<1> QED
  BY <1>1, <1>2, <1>3, <1>4, <1>5, <1>6, <1>7, <1>8, <1>9 DEF LogMove, IngestStep

(* Every variable keeps its type in every reachable state.                  *)
THEOREM Typing == Spec => []TypeOK
<1>1. Init => TypeOK
  BY EventAssumption DEF Init, TypeOK, Phase, Status
<1>2. TypeOK /\ [Next]_vars => TypeOK'
  BY MoveTyped, NextMoves
<1>3. QED
  BY <1>1, <1>2, PTL DEF Spec

(* What an append adds to the marks of the log.                            *)
LEMMA AppendMarks ==
  ASSUME NEW lines \in Seq(WellFormed), NEW e \in WellFormed
  PROVE  /\ MarksIn(Append(lines, e)) = MarksIn(lines) \cup Marks(e)
         /\ \A i \in DOMAIN lines : Append(lines, e)[i] = lines[i]
         /\ DOMAIN Append(lines, e) = DOMAIN lines \cup {Len(lines) + 1}
         /\ Append(lines, e)[Len(lines) + 1] = e
         /\ Len(lines) + 1 \notin DOMAIN lines
<1>1. /\ \A i \in DOMAIN lines : Append(lines, e)[i] = lines[i]
      /\ DOMAIN Append(lines, e) = DOMAIN lines \cup {Len(lines) + 1}
      /\ Append(lines, e)[Len(lines) + 1] = e
      /\ Len(lines) + 1 \notin DOMAIN lines
  OBVIOUS
<1>2. MarksIn(Append(lines, e)) = MarksIn(lines) \cup Marks(e)
  BY <1>1 DEF MarksIn
<1>3. QED
  BY <1>1, <1>2

(* A call past its append has its event in the log: with the two safety    *)
(* invariants this is inductive.                                           *)
AppendedIsLogged == \A c \in Caller : at[c] \in {"truncate", "write"} =>
    \E i \in DOMAIN log : log[i] = ev[c]
SafetyInv == IndexBacked /\ AnswersTrue /\ AppendedIsLogged
             /\ \A c \in Caller : res[c] # "none" => at[c] = "returned"

(* The log only grows.                                                      *)
LEMMA LogGrows == ASSUME TypeOK, LogMove PROVE MarksOfLog \subseteq MarksOfLog'
<1>1. CASE log' = log
  BY <1>1 DEF MarksOfLog
<1>2. ASSUME NEW c \in Caller, AppendEvent(c) PROVE MarksOfLog \subseteq MarksOfLog'
  BY <1>2, AppendMarks DEF AppendEvent, TypeOK, MarksOfLog
<1> QED
  BY <1>1, <1>2
     DEF LogMove, Call, IngestStep, RejectInvalid, LoadIndex, TruncateIndex, WriteIndex,
         DiskFull, Raise, Forget

(* Any such move keeps the strengthened invariant.                          *)
LEMMA MoveSafe == ASSUME TypeOK, SafetyInv, LogMove PROVE SafetyInv'
<1> USE DEF SafetyInv, IndexBacked, AnswersTrue, AppendedIsLogged, MarksOfLog
<1>1. ASSUME NEW c \in Caller, NEW e \in Event, Call(c, e) PROVE SafetyInv'
  BY <1>1 DEF Call, TypeOK
<1>2. ASSUME NEW c \in Caller, RejectInvalid(c) PROVE SafetyInv'
  BY <1>2 DEF RejectInvalid, Answer, TypeOK
<1>3. ASSUME NEW c \in Caller, LoadIndex(c) PROVE SafetyInv'
  <2>1. IndexRead \subseteq MarksOfLog
    BY DEF IndexRead
  <2>2. QED
    BY <1>3, <2>1 DEF LoadIndex, Answer, TypeOK, Duplicate
<1>4. ASSUME NEW c \in Caller, AppendEvent(c) PROVE SafetyInv'
  <2>1. log \in Seq(WellFormed) /\ ev[c] \in WellFormed /\ log' = Append(log, ev[c])
    BY <1>4 DEF TypeOK, AppendEvent
  <2>2. MarksOfLog' = MarksOfLog \cup Marks(ev[c])
    BY <2>1, AppendMarks
  <2>3. /\ \A i \in DOMAIN log : i \in DOMAIN log' /\ log'[i] = log[i]
        /\ \E i \in DOMAIN log' : log'[i] = ev[c]
    BY <2>1, AppendMarks
  <2>4. IndexBacked'
    BY <1>4, <2>2 DEF AppendEvent, TypeOK
  <2>5. AnswersTrue' /\ AppendedIsLogged'
    BY <1>4, <2>2, <2>3 DEF AppendEvent, TypeOK
  <2>6. QED
    BY <1>4, <2>4, <2>5 DEF AppendEvent, TypeOK
<1>5. ASSUME NEW c \in Caller, TruncateIndex(c) PROVE SafetyInv'
  BY <1>5 DEF TruncateIndex, TypeOK
<1>6. ASSUME NEW c \in Caller, WriteIndex(c) PROVE SafetyInv'
  BY <1>6 DEF WriteIndex, Answer, TypeOK
<1>7. ASSUME NEW c \in Caller, DiskFull(c) \/ Raise(c) PROVE SafetyInv'
  BY <1>7 DEF DiskFull, Raise, Answer, TypeOK
<1>8. ASSUME NEW c \in Caller, Forget(c) PROVE SafetyInv'
  BY <1>8 DEF Forget, TypeOK
<1>9. CASE UNCHANGED <<log, index, readable, callVars>>
  BY <1>9 DEF callVars
<1> QED
  BY <1>1, <1>2, <1>3, <1>4, <1>5, <1>6, <1>7, <1>8, <1>9 DEF LogMove, IngestStep

(* Nothing is logged and nothing is answered at the start.                  *)
LEMMA InitSafe == Init => SafetyInv
BY DEF Init, SafetyInv, IndexBacked, AnswersTrue, AppendedIsLogged

(* The strengthened invariant holds in every reachable state.               *)
THEOREM SafetyHolds == Spec => []SafetyInv
<1>1. TypeOK /\ SafetyInv /\ [Next]_vars => SafetyInv'
  BY MoveSafe, NextMoves
<1>2. QED
  BY <1>1, InitSafe, Typing, PTL DEF Spec

(* The dedupe index, on disk and in memory, never runs ahead of the log,   *)
(* and every answer is true of the log, for any callers and any faults.    *)
THEOREM IndexSafety == Spec => [](IndexBacked /\ AnswersTrue)
<1>1. SafetyInv => IndexBacked /\ AnswersTrue
  BY DEF SafetyInv
<1>2. QED
  BY <1>1, SafetyHolds, PTL

-----------------------------------------------------------------------------
LoneCaller == \A a, b \in Caller : a = b

\* The lines of a log that carry a mark.
LinesWith(lines, m) == {i \in DOMAIN lines : m \in Marks(lines[i])}

(* An append adds one to the copies of each mark of its event.             *)
LEMMA AppendCopies ==
  ASSUME NEW lines \in Seq(WellFormed), NEW e \in WellFormed, NEW m
  PROVE  /\ Cardinality(LinesWith(lines, m)) \in Nat
         /\ Cardinality(LinesWith(Append(lines, e), m)) =
              Cardinality(LinesWith(lines, m)) + (IF m \in Marks(e) THEN 1 ELSE 0)
<1>1. IsFiniteSet(LinesWith(lines, m))
  <2>1. DOMAIN lines = 1..Len(lines) /\ Len(lines) \in Nat
    OBVIOUS
  <2>2. IsFiniteSet(1..Len(lines))
    BY <2>1, FS_Interval
  <2>3. LinesWith(lines, m) \in SUBSET (1..Len(lines))
    BY <2>1 DEF LinesWith
  <2>4. QED
    BY <2>2, <2>3, FS_Subset
<1>2. Cardinality(LinesWith(lines, m)) \in Nat
  BY <1>1, FS_CardinalityType
<1>3. Len(lines) + 1 \notin LinesWith(lines, m)
  BY AppendMarks DEF LinesWith
<1>4. CASE m \in Marks(e)
  <2>1. LinesWith(Append(lines, e), m) = LinesWith(lines, m) \cup {Len(lines) + 1}
    BY <1>4, AppendMarks DEF LinesWith
  <2>2. QED
    BY <2>1, <1>1, <1>2, <1>3, <1>4, FS_AddElement
<1>5. CASE m \notin Marks(e)
  <2>1. LinesWith(Append(lines, e), m) = LinesWith(lines, m)
    BY <1>5, AppendMarks DEF LinesWith
  <2>2. QED
    BY <2>1, <1>2, <1>5
<1>6. QED
  BY <1>2, <1>4, <1>5

\* The marks that a decision taken from the set seen would let in again.
Excused(seen) == \A m \in Mark \ seen : Copies(m) <= faults

(* A mark that the index, or the copy about to replace it, does not cover   *)
(* has been let in at most once per fault, so it may come in once more.     *)
LoneInv ==
    /\ OneCopyPerFault
    /\ \A c \in Caller :
        /\ at[c] \notin {"truncate", "write"} => Excused(IndexRead)
        /\ at[c] \in {"append", "truncate", "write"} => Excused(copy[c])
        /\ at[c] = "append" => \A m \in Marks(ev[c]) : Copies(m) <= faults

(* The number of copies is a natural number, and only an append changes it. *)
LEMMA CopiesNat ==
  ASSUME TypeOK
  PROVE  \A m \in Mark : Copies(m) \in Nat
<1>1. ASSUME NEW m \in Mark, NEW e \in WellFormed PROVE Copies(m) \in Nat
  BY <1>1, AppendCopies DEF TypeOK, Copies, LinesWith
<1>2. CASE WellFormed = {}
  <2>1. log = <<>>
    BY <1>2 DEF TypeOK
  <2>2. \A m \in Mark : {i \in DOMAIN log : m \in Marks(log[i])} = {}
    BY <2>1
  <2>3. QED
    BY <2>2, FS_EmptySet DEF Copies
<1>3. QED
  BY <1>1, <1>2

(* The counting invariant of the lone caller is inductive.                 *)
LEMMA LoneStep ==
  ASSUME LoneCaller, TypeOK, LoneInv, [Next]_vars
  PROVE  LoneInv'
<1> USE CopiesNat DEF LoneCaller, LoneInv, OneCopyPerFault, Excused
<1>1. ASSUME UNCHANGED log PROVE \A m \in Mark : Copies(m)' = Copies(m)
  BY <1>1 DEF Copies
<1>2. ASSUME NEW c \in Caller, NEW e \in Event, Call(c, e) PROVE LoneInv'
  <2>1. UNCHANGED <<log, faults>> /\ IndexRead' = IndexRead
    BY <1>2 DEF Call, IndexRead
  <2>2. QED
    BY <1>2, <2>1, <1>1 DEF Call, TypeOK
<1>3. ASSUME NEW c \in Caller, RejectInvalid(c) PROVE LoneInv'
  <2>1. UNCHANGED <<log, faults>> /\ IndexRead' = IndexRead
    BY <1>3 DEF RejectInvalid, IndexRead
  <2>2. QED
    BY <1>3, <2>1, <1>1 DEF RejectInvalid, Answer, TypeOK
<1>4. ASSUME NEW c \in Caller, LoadIndex(c) PROVE LoneInv'
  <2>1. UNCHANGED <<log, faults>> /\ IndexRead' = IndexRead
    BY <1>4 DEF LoadIndex, IndexRead
  <2>2. Excused(IndexRead) /\ Marks(ev[c]) \subseteq Mark
    BY <1>4, MarksAreMarks DEF LoadIndex, TypeOK
  <2>3. at'[c] = "append" => \A m \in Marks(ev[c]) : Copies(m) <= faults
    BY <1>4, <2>2 DEF LoadIndex, Answer, Duplicate, TypeOK
  <2>4. QED
    BY <1>4, <2>1, <2>2, <2>3, <1>1 DEF LoadIndex, Answer, TypeOK
<1>5. ASSUME NEW c \in Caller, AppendEvent(c) PROVE LoneInv'
  <2>1. log \in Seq(WellFormed) /\ ev[c] \in WellFormed /\ log' = Append(log, ev[c])
    BY <1>5 DEF TypeOK, AppendEvent
  <2>2. \A m \in Mark : Copies(m)' = Copies(m) + (IF m \in Marks(ev[c]) THEN 1 ELSE 0)
    BY <2>1, AppendCopies DEF Copies, LinesWith
  <2>3. /\ \A m \in Marks(ev[c]) : Copies(m) <= faults
        /\ Excused(copy[c]) /\ faults' = faults /\ faults \in Nat
    BY <1>5 DEF AppendEvent, TypeOK
  <2>4. OneCopyPerFault'
    BY <2>2, <2>3
  <2>5. copy'[c] = copy[c] \cup Marks(ev[c]) /\ at'[c] = "truncate"
    BY <1>5 DEF AppendEvent, TypeOK
  <2>6. \A m \in Mark \ copy'[c] : Copies(m)' <= faults'
    BY <2>2, <2>3, <2>5
  <2>7. QED
    BY <2>4, <2>5, <2>6
<1>6. ASSUME NEW c \in Caller, TruncateIndex(c) PROVE LoneInv'
  BY <1>6, <1>1 DEF TruncateIndex, TypeOK
<1>7. ASSUME NEW c \in Caller, WriteIndex(c) PROVE LoneInv'
  BY <1>7, <1>1 DEF WriteIndex, Answer, TypeOK, IndexRead
<1>8. ASSUME NEW c \in Caller, DiskFull(c) PROVE LoneInv'
  <2>1. UNCHANGED <<log, faults>> /\ IndexRead' = IndexRead
    BY <1>8 DEF DiskFull, IndexRead
  <2>2. QED
    BY <1>8, <2>1, <1>1 DEF DiskFull, Answer, TypeOK
<1>9. ASSUME NEW c \in Caller, Raise(c) \/ Crash(c) PROVE LoneInv'
  <2>1. UNCHANGED log /\ faults' = faults + 1 /\ faults \in Nat
    BY <1>9 DEF Raise, Crash, Forget, TypeOK
  <2>2. \A m \in Mark : Copies(m)' \in Nat /\ Copies(m)' <= faults' /\ faults' \in Nat
    BY <2>1, <1>1
  <2>3. at'[c] \in {"returned", "idle"}
    BY <1>9 DEF Raise, Crash, Forget, Answer, TypeOK
  <2>4. QED
    BY <2>1, <2>2, <2>3
<1>10. ASSUME NEW c \in Caller, Return(c) PROVE LoneInv'
  <2>1. UNCHANGED <<log, faults>> /\ IndexRead' = IndexRead
    BY <1>10 DEF Return, Forget, IndexRead
  <2>2. QED
    BY <1>10, <2>1, <1>1 DEF Return, Forget, TypeOK
<1>11. CASE UNCHANGED vars
  <2>1. UNCHANGED <<log, index, readable, at, ev, copy, res, faults>> /\ IndexRead' = IndexRead
    BY <1>11 DEF vars, callVars, IndexRead
  <2>2. \A m \in Mark : Copies(m)' = Copies(m)
    BY <2>1, <1>1
  <2>3. OneCopyPerFault'
    BY <2>1, <2>2
  <2>4. \A s : Excused(s) => Excused(s)'
    BY <2>1, <2>2
  <2>5. QED
    BY <2>1, <2>2, <2>3, <2>4, MarksAreMarks DEF TypeOK
<1>12. QED
  BY <1>2, <1>3, <1>4, <1>5, <1>6, <1>7, <1>8, <1>9, <1>10, <1>11 DEF Next, IngestStep

(* A step of the lone caller accepts one event that may come in, is a lapse *)
(* of the ledger, or leaves it alone.                                       *)
LEMMA LoneRefines ==
  ASSUME LoneCaller, TypeOK, LoneInv, [Next]_vars
  PROVE  [Ledger!Next]_<<log, faults>>
<1>1. ASSUME NEW c \in Caller, AppendEvent(c) PROVE Ledger!Next
  <2>1. \A m \in Marks(ev[c]) : Ledger!Copies(m) <= faults
    <3>1. at[c] = "append"
      BY <1>1 DEF AppendEvent
    <3>2. ASSUME NEW m PROVE Ledger!Copies(m) = Copies(m)
      BY DEF Copies, Ledger!Copies, Cardinality, Ledger!Cardinality, IsFiniteSet, Ledger!IsFiniteSet
    <3>3. QED
      BY <3>1, <3>2 DEF LoneInv
  <2>2. ev[c] \in WellFormed /\ log' = Append(log, ev[c]) /\ UNCHANGED faults
    BY <1>1 DEF AppendEvent, TypeOK
  <2>3. Ledger!Accept(ev[c])
    BY <2>1, <2>2 DEF Ledger!Accept
  <2>4. QED
    BY <2>2, <2>3 DEF Ledger!Next
<1>2. ASSUME NEW c \in Caller, Raise(c) \/ Crash(c) PROVE Ledger!Next
  BY <1>2 DEF Raise, Crash, Forget, Ledger!Next, Ledger!Lapse
<1>3. CASE UNCHANGED vars
  BY <1>3 DEF vars
<1>4. QED
  BY <1>1, <1>2, <1>3 DEF Next, IngestStep, Call, RejectInvalid, LoadIndex, TruncateIndex,
     WriteIndex, DiskFull, Return, Forget

(* For one caller, whatever the events and however often it fails or dies:  *)
(* a mark gets at most one line per fault more than its first, and the log  *)
(* implements the promised ledger.                                          *)
THEOREM LoneCallerLedger ==
  ASSUME LoneCaller
  PROVE  Spec => []OneCopyPerFault /\ ImplementsLedger
<1>1. Init => LoneInv
  <2> SUFFICES ASSUME Init PROVE LoneInv
    OBVIOUS
  <2>1. \A m \in Mark : {i \in DOMAIN log : m \in Marks(log[i])} = {}
    BY DEF Init
  <2>2. \A m \in Mark : Copies(m) = 0 /\ faults = 0
    BY <2>1, FS_EmptySet DEF Copies, Init
  <2>3. QED
    BY <2>2 DEF Init, LoneInv, OneCopyPerFault, Excused
<1>2. TypeOK /\ LoneInv /\ [Next]_vars => LoneInv'
  BY LoneStep
<1>3. TypeOK /\ LoneInv /\ [Next]_vars => [Ledger!Next]_<<log, faults>>
  BY LoneRefines
<1>4. Init => Ledger!Init
  BY DEF Init, Ledger!Init
<1>5. LoneInv => OneCopyPerFault
  BY DEF LoneInv
<1>6. QED
  BY <1>1, <1>2, <1>3, <1>4, <1>5, Typing, PTL DEF Spec, ImplementsLedger, Ledger!Spec
=============================================================================
