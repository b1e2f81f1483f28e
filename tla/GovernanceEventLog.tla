------------------------- MODULE GovernanceEventLog -------------------------
(***************************************************************************)
(* The append-only governance event log and its dedupe index               *)
(* (governance_event_log.py).  A call of ingest_governance_event reads the *)
(* whole index file, appends a line to the log and writes the whole index  *)
(* back, with no lock: the router's webhook threads, the policy CLI and    *)
(* the recovery tools all call it, so each file operation is a step here.  *)
(***************************************************************************)
EXTENDS Naturals, Sequences, FiniteSets

CONSTANTS
    Caller,      \* threads and processes that call ingest_governance_event
    Event,       \* the events they hold
    NoEvent,     \* stands for Python's None
    WellFormed,  \* the events whose required fields are all non-empty
    IdOf,        \* event -> event_id
    KeyOf,       \* event -> dedupe_key (given, or the per-minute fallback key)
    MaxFaults,   \* bound on exceptions and crashes inside a call
    MaxLines     \* bound on the log file: the disk is full beyond it

ASSUME EventAssumption == WellFormed \subseteq Event /\ NoEvent \notin Event
ASSUME BoundAssumption == MaxFaults \in Nat /\ MaxLines \in Nat

\* The index file maps event ids and dedupe keys; an event leaves one of each.
Marks(e) == {<<"event_ids", IdOf[e]>>, <<"fallback_keys", KeyOf[e]>>}
Mark     == UNION {Marks(e) : e \in Event}

VARIABLES
    log,       \* the JSONL file: the sequence of appended events
    index,     \* the marks in the dedupe index file
    readable,  \* FALSE while the index file is truncated
    at,        \* per caller: the next file operation of its call
    ev,        \* per caller: the event of its call
    copy,      \* per caller: the index its call holds in memory
    res,       \* per caller: the answer of its call
    faults     \* exceptions and crashes so far

callVars == <<at, ev, copy, res>>
vars     == <<log, index, readable, callVars, faults>>

Status == {"written", "ignored_duplicate", "invalid", "exception", "none"}
Phase  == {"idle", "load", "append", "truncate", "write", "returned"}

TypeOK ==
    /\ log \in Seq(WellFormed)
    /\ index \subseteq Mark
    /\ readable \in BOOLEAN
    /\ at \in [Caller -> Phase]
    /\ ev \in [Caller -> Event \cup {NoEvent}]
    /\ copy \in [Caller -> SUBSET Mark]
    /\ res \in [Caller -> Status]
    /\ faults \in Nat
    /\ \A c \in Caller :
        /\ at[c] # "idle" => ev[c] \in Event
        /\ at[c] \in {"append", "truncate", "write"} => ev[c] \in WellFormed

Init ==
    /\ log = <<>>
    /\ index = {} /\ readable = TRUE
    /\ at   = [c \in Caller |-> "idle"]
    /\ ev   = [c \in Caller |-> NoEvent]
    /\ copy = [c \in Caller |-> {}]
    /\ res  = [c \in Caller |-> "none"]
    /\ faults = 0

-----------------------------------------------------------------------------
\* A caller enters ingest_governance_event with an event.
Call(c, e) ==
    /\ at[c] = "idle"
    /\ at' = [at EXCEPT ![c] = "load"]
    /\ ev' = [ev EXCEPT ![c] = e]
    /\ UNCHANGED <<log, index, readable, copy, res, faults>>

Answer(c, status) ==
    /\ at' = [at EXCEPT ![c] = "returned"]
    /\ res' = [res EXCEPT ![c] = status]

\* The required fields are checked before any file is read.
RejectInvalid(c) ==
    /\ at[c] = "load"
    /\ ev[c] \notin WellFormed
    /\ Answer(c, "invalid")
    /\ UNCHANGED <<log, index, readable, ev, copy, faults>>

\* A file that does not parse is taken for an empty index.
IndexRead == IF readable THEN index ELSE {}

\* Mutant of Duplicate: only the event_id is looked up.
DuplicateIdOnly(e) == <<"event_ids", IdOf[e]>> \in IndexRead

Duplicate(e) == Marks(e) \cap IndexRead # {}

\* Mutant of LoadIndex: the index is saved before the event is appended.
LoadIndexAndSave(c) ==
    /\ at[c] = "load"
    /\ ev[c] \in WellFormed
    /\ copy' = [copy EXCEPT ![c] = IndexRead \cup Marks(ev[c])]
    /\ IF Duplicate(ev[c])
       THEN Answer(c, "ignored_duplicate") /\ UNCHANGED index
       ELSE at' = [at EXCEPT ![c] = "append"] /\ index' = copy'[c] /\ UNCHANGED res
    /\ UNCHANGED <<log, readable, ev, faults>>

\* Mutant of LoadIndex: the required fields are not checked.
LoadUnchecked(c) ==
    /\ at[c] = "load"
    /\ copy' = [copy EXCEPT ![c] = IndexRead]
    /\ IF Duplicate(ev[c])
       THEN Answer(c, "ignored_duplicate")
       ELSE at' = [at EXCEPT ![c] = "append"] /\ UNCHANGED res
    /\ UNCHANGED <<log, index, readable, ev, faults>>

\* The whole index is read, and an event it already knows goes no further.
LoadIndex(c) ==
    /\ at[c] = "load"
    /\ ev[c] \in WellFormed
    /\ copy' = [copy EXCEPT ![c] = IndexRead]
    /\ IF Duplicate(ev[c])
       THEN Answer(c, "ignored_duplicate")
       ELSE at' = [at EXCEPT ![c] = "append"] /\ UNCHANGED res
    /\ UNCHANGED <<log, index, readable, ev, faults>>

\* One line is appended; the event joins the copy of the index held in memory.
AppendEvent(c) ==
    /\ at[c] = "append"
    /\ Len(log) < MaxLines
    /\ log'  = Append(log, ev[c])
    /\ copy' = [copy EXCEPT ![c] = @ \cup Marks(ev[c])]
    /\ at'   = [at EXCEPT ![c] = "truncate"]
    /\ UNCHANGED <<index, readable, ev, res, faults>>

\* Path.write_text opens the file for writing, which empties it ...
TruncateIndex(c) ==
    /\ at[c] = "truncate"
    /\ index' = {} /\ readable' = FALSE
    /\ at' = [at EXCEPT ![c] = "write"]
    /\ UNCHANGED <<log, ev, copy, res, faults>>

\* Mutant of WriteIndex: the event itself is left out of the saved index.
WriteStaleIndex(c) ==
    /\ at[c] = "write"
    /\ index' = copy[c] \ Marks(ev[c]) /\ readable' = TRUE
    /\ Answer(c, "written")
    /\ UNCHANGED <<log, ev, copy, faults>>

\* ... and then writes the copy of this call over whatever is there.
WriteIndex(c) ==
    /\ at[c] = "write"
    /\ index' = copy[c] /\ readable' = TRUE
    /\ Answer(c, "written")
    /\ UNCHANGED <<log, ev, copy, faults>>

\* The append raises OSError when the disk is full (the bound of the model).
DiskFull(c) ==
    /\ at[c] = "append"
    /\ Len(log) >= MaxLines
    /\ Answer(c, "exception")
    /\ UNCHANGED <<log, index, readable, ev, copy, faults>>

\* An OSError leaves the call at any file operation ...
Raise(c) ==
    /\ at[c] \in {"append", "truncate", "write"}
    /\ faults < MaxFaults /\ faults' = faults + 1
    /\ Answer(c, "exception")
    /\ UNCHANGED <<log, index, readable, ev, copy>>

Forget(c) ==
    /\ at'   = [at EXCEPT ![c] = "idle"]
    /\ ev'   = [ev EXCEPT ![c] = NoEvent]
    /\ copy' = [copy EXCEPT ![c] = {}]
    /\ res'  = [res EXCEPT ![c] = "none"]
    /\ UNCHANGED <<log, index, readable>>

\* ... or the process dies there, and nobody learns the result.
Crash(c) ==
    /\ at[c] \notin {"idle", "returned"}
    /\ faults < MaxFaults /\ faults' = faults + 1
    /\ Forget(c)

\* The caller takes the answer.
Return(c) ==
    /\ at[c] = "returned"
    /\ Forget(c)
    /\ UNCHANGED faults

\* The steps of a call between its entry and its answer.
IngestStep(c) ==
    \/ RejectInvalid(c)
    \/ LoadIndex(c)
    \/ AppendEvent(c)
    \/ TruncateIndex(c)
    \/ WriteIndex(c)
    \/ DiskFull(c)
    \/ Raise(c)

Next == \E c \in Caller :
    \/ \E e \in Event : Call(c, e)
    \/ IngestStep(c)
    \/ Crash(c)
    \/ Return(c)

Spec == Init /\ [][Next]_vars

-----------------------------------------------------------------------------
MarksIn(lines) == UNION {Marks(lines[i]) : i \in DOMAIN lines}
MarksOfLog     == MarksIn(log)

(* Whatever the interleaving, the crashes and the corruption: every mark in *)
(* the index file, or in the copy a call holds, comes from a line that is   *)
(* in the log.  An index that ran ahead of the log would suppress, for      *)
(* ever, an event that was never recorded.                                  *)
IndexBacked ==
    /\ index \subseteq MarksOfLog
    /\ \A c \in Caller : copy[c] \subseteq MarksOfLog

(* The answer of a call is true of the log file when it is given: the event *)
(* is there if it was "written", and an "ignored_duplicate" has a line that *)
(* carries its event_id or its dedupe_key.                                  *)
AnswersTrue == \A c \in Caller :
    /\ res[c] = "written" => \E i \in DOMAIN log : log[i] = ev[c]
    /\ res[c] = "ignored_duplicate" => Marks(ev[c]) \cap MarksOfLog # {}

(* With one caller, no mark is on two lines of the log, except that a fault *)
(* between the append and the index write can let an event in once more,    *)
(* and no more often than that, even when the fault leaves the index        *)
(* truncated and the next call starts from nothing.  Two threads of one     *)
(* process break it without any fault.                                      *)
Copies(m) == Cardinality({i \in DOMAIN log : m \in Marks(log[i])})
OneCopyPerFault == \A m \in Mark : Copies(m) <= 1 + faults

(* The log as its readers see it implements the abstract ledger, and every  *)
(* exception and crash inside a call is at most one lapse of it.            *)
Ledger == INSTANCE EventLedger WITH ledger <- log, lapses <- faults
ImplementsLedger == Ledger!Spec
=============================================================================
