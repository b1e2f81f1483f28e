-------------------------- MODULE EventDegradation --------------------------
(***************************************************************************)
(* What happens to a governance event whose ingest fails                   *)
(* (runtime_event_log_degradation_recovery.py and the emitters that call   *)
(* it): a degradation record is appended to a queue file, and a replay     *)
(* pass, started by an operator, reads the whole queue, ingests what it    *)
(* can and writes the whole queue back.  Emitters and replay passes are    *)
(* callers of the event log and interleave with its steps and each other.  *)
(***************************************************************************)
EXTENDS GovernanceEventLog

CONSTANTS
    Emitter,     \* processes that report runtime events
    Replayer,    \* processes that run replay_degraded_events
    MaxReplay,   \* max_replay_attempts
    MaxRecords   \* bound on the degradation records ever made

ASSUME RoleAssumption ==
    /\ Emitter \cup Replayer = Caller /\ Emitter \cap Replayer = {}
    /\ MaxReplay \in Nat /\ MaxRecords \in Nat

VARIABLES
    queue,   \* the queue file: a sequence of degradation records
    made,    \* how many degradation ids have been drawn
    pass     \* per replayer: its phase, its copy of the queue, its position

degVars == <<queue, made, pass>>
allVars == <<vars, degVars>>

Terminal    == {"replayed", "abandoned"}
\* Mutant of Candidate: replayed records are tried again.
RetryReplayed == {"queued", "replay_failed", "replayed"}

Candidate   == {"queued", "replay_failed"}
Record      == [did : Nat, ev : Event \cup {NoEvent},
                status : Terminal \cup Candidate, attempts : 0..MaxReplay]
NoPass      == [at |-> "none", items |-> <<>>, pos |-> 1]

DegTypeOK ==
    /\ TypeOK
    /\ queue \in Seq(Record)
    /\ made \in Nat
    /\ pass \in [Replayer -> [at : {"none", "scan", "truncate", "write"},
                              items : Seq(Record), pos : Nat \ {0}]]

DegInit ==
    /\ Init
    /\ queue = <<>>
    /\ made = 0
    /\ pass = [r \in Replayer |-> NoPass]

-----------------------------------------------------------------------------
\* handle_event_log_degradation: a new record goes to the end of the queue.
AppendRecord(payload) ==
    /\ made < MaxRecords
    /\ made' = made + 1
    /\ queue' = Append(queue, [did |-> made + 1, ev |-> payload,
                               status |-> "queued", attempts |-> 0])

\* An emitter reports an event.
Emit(c, e) ==
    /\ made < MaxRecords
    /\ Call(c, e)
    /\ UNCHANGED degVars

\* Its event was taken, or was there already.
Emitted(c) ==
    /\ at[c] = "returned"
    /\ res[c] \in {"written", "ignored_duplicate"}
    /\ Forget(c)
    /\ UNCHANGED <<faults, degVars>>

\* What the emitters hand over: the event if it was invalid, but None if the
\* ingest raised, since the handler of the exception no longer has the event.
Payload(c) == IF res[c] = "exception" THEN NoEvent ELSE ev[c]

\* Its event was refused, or the ingest raised: a record is queued ...
Degrade(c) ==
    /\ at[c] = "returned"
    /\ res[c] \in {"invalid", "exception"}
    /\ AppendRecord(Payload(c))
    /\ Forget(c)
    /\ UNCHANGED <<faults, pass>>

\* ... or queueing fails too, and only the fallback log knows.
DegradeFails(c) ==
    /\ at[c] = "returned"
    /\ res[c] \in {"invalid", "exception"}
    /\ faults < MaxFaults /\ faults' = faults + 1
    /\ Forget(c)
    /\ UNCHANGED degVars

\* A tool (the testing playbook) queues an event together with its payload.
QueueByTool(e) ==
    /\ AppendRecord(e)
    /\ UNCHANGED <<vars, pass>>

-----------------------------------------------------------------------------
\* replay_degraded_events reads the whole queue.
StartPass(r) ==
    /\ pass[r].at = "none"
    /\ pass' = [pass EXCEPT ![r] = [at |-> "scan", items |-> queue, pos |-> 1]]
    /\ UNCHANGED <<vars, queue, made>>

Item(r)     == pass[r].items[pass[r].pos]
Scanning(r) == pass[r].at = "scan" /\ pass[r].pos \in DOMAIN pass[r].items
                                   /\ at[r] = "idle"

\* The current item gets a status and an attempt count; the pass moves on.
Settle(r, status, attempts) ==
    LET settled == [Item(r) EXCEPT !.status = status, !.attempts = attempts]
    IN  pass' = [pass EXCEPT ![r] =
                   [at |-> "scan", items |-> [pass[r].items EXCEPT ![pass[r].pos] = settled],
                    pos |-> pass[r].pos + 1]]

\* An item that is settled already is kept as it is.
SkipItem(r) ==
    /\ Scanning(r)
    /\ Item(r).status \notin Candidate
    /\ Settle(r, Item(r).status, Item(r).attempts)
    /\ UNCHANGED <<vars, queue, made>>

\* An item that has used up its attempts is given up.
GiveUpItem(r) ==
    /\ Scanning(r)
    /\ Item(r).status \in Candidate
    /\ Item(r).attempts >= MaxReplay
    /\ Settle(r, "abandoned", Item(r).attempts)
    /\ UNCHANGED <<vars, queue, made>>

\* Mutant of FailMissingPayload: the limit is not looked at.
FailMissingUnlimited(r) ==
    /\ Scanning(r)
    /\ Item(r).status \in Candidate
    /\ Item(r).ev = NoEvent
    /\ Settle(r, "replay_failed", Item(r).attempts + 1)
    /\ UNCHANGED <<vars, queue, made>>

\* An item without its event fails; this branch never abandons.
FailMissingPayload(r) ==
    /\ Scanning(r)
    /\ Item(r).status \in Candidate
    /\ Item(r).attempts < MaxReplay
    /\ Item(r).ev = NoEvent
    /\ Settle(r, "replay_failed", Item(r).attempts + 1)
    /\ UNCHANGED <<vars, queue, made>>

\* Any other candidate is ingested like a fresh event.
ReplayItem(r) ==
    /\ Scanning(r)
    /\ Item(r).status \in Candidate
    /\ Item(r).attempts < MaxReplay
    /\ Item(r).ev # NoEvent
    /\ Call(r, Item(r).ev)
    /\ UNCHANGED degVars

\* Mutant of Replayed: an exception of the ingest counts as a success.
ReplayedOnException(r) ==
    /\ at[r] = "returned"
    /\ res[r] \in {"written", "ignored_duplicate", "exception"}
    /\ Settle(r, "replayed", Item(r).attempts + 1)
    /\ Forget(r)
    /\ UNCHANGED <<faults, queue, made>>

\* A written or duplicate event settles its item ...
Replayed(r) ==
    /\ at[r] = "returned"
    /\ res[r] \in {"written", "ignored_duplicate"}
    /\ Settle(r, "replayed", Item(r).attempts + 1)
    /\ Forget(r)
    /\ UNCHANGED <<faults, queue, made>>

\* Mutant of ReplayFailed: the attempt limit is one too low.
ReplayFailedEarly(r) ==
    /\ at[r] = "returned"
    /\ res[r] \in {"invalid", "exception"}
    /\ Settle(r, IF Item(r).attempts + 2 >= MaxReplay THEN "abandoned" ELSE "replay_failed",
              Item(r).attempts + 1)
    /\ Forget(r)
    /\ UNCHANGED <<faults, queue, made>>

\* ... and an invalid one, or an exception, counts towards the limit.
ReplayFailed(r) ==
    /\ at[r] = "returned"
    /\ res[r] \in {"invalid", "exception"}
    /\ Settle(r, IF Item(r).attempts + 1 >= MaxReplay THEN "abandoned" ELSE "replay_failed",
              Item(r).attempts + 1)
    /\ Forget(r)
    /\ UNCHANGED <<faults, queue, made>>

ScanDone(r) == pass[r].at = "scan" /\ pass[r].pos \notin DOMAIN pass[r].items

\* _write_queue opens the queue file for writing, which empties it ...
TruncateQueue(r) ==
    /\ ScanDone(r)
    /\ queue' = <<>>
    /\ pass' = [pass EXCEPT ![r] = [@ EXCEPT !.at = "write"]]
    /\ UNCHANGED <<vars, made>>

\* ... and writes the copy of this pass from the first byte on.  Nothing to write
\* leaves what was appended since; else at least the first such record goes, and
\* the others as far as the new bytes reach (a line cut in the middle is one that
\* no later load can parse).
WriteQueue(r) ==
    /\ pass[r].at = "write"
    /\ \/ pass[r].items = <<>> /\ queue' = queue
       \/ /\ pass[r].items # <<>>
          /\ \E hit \in 1 .. Len(queue) + 1 :
                 queue' = pass[r].items \o SubSeq(queue, hit + 1, Len(queue))
    /\ pass' = [pass EXCEPT ![r] = NoPass]
    /\ UNCHANGED <<vars, made>>

\* A process dies: its call and its pass are gone, the files stay as they are.
Die(c) ==
    /\ at[c] # "idle" \/ (c \in Replayer /\ pass[c].at # "none")
    /\ faults < MaxFaults /\ faults' = faults + 1
    /\ Forget(c)
    /\ pass' = [r \in Replayer |-> IF r = c THEN NoPass ELSE pass[r]]
    /\ UNCHANGED <<queue, made>>

\* The steps that leave the emitters' own files alone.
DegStep ==
    \/ \E c \in Caller : IngestStep(c) /\ UNCHANGED degVars
    \/ \E c \in Caller : Die(c)
    \/ \E c \in Emitter : Emitted(c)
    \/ \E r \in Replayer :
        \/ StartPass(r)
        \/ SkipItem(r) \/ GiveUpItem(r) \/ FailMissingPayload(r)
        \/ ReplayItem(r) \/ Replayed(r) \/ ReplayFailed(r)
        \/ TruncateQueue(r) \/ WriteQueue(r)

DegNext ==
    \/ DegStep
    \/ \E c \in Emitter, e \in Event : Emit(c, e)
    \/ \E c \in Emitter : Degrade(c) \/ DegradeFails(c)
    \/ \E e \in Event : QueueByTool(e)

DegSpec == DegInit /\ [][DegNext]_allVars

-----------------------------------------------------------------------------
Elements(s) == {s[i] : i \in DOMAIN s}
Everywhere  == Elements(queue) \cup UNION {Elements(pass[r].items) : r \in Replayer}

(* A record marked "replayed", in the file or in a pass, stands for an      *)
(* event whose id or key really is in the governance log, under every       *)
(* interleaving of emitters and passes and every crash.                     *)
ReplayedIsLogged == \A x \in Everywhere :
    x.status = "replayed" => x.ev # NoEvent /\ Marks(x.ev) \cap MarksOfLog # {}

(* A well-formed event whose payload is in its record is given up only      *)
(* after the ingest has really failed max_replay_attempts times: each time  *)
(* by an exception, unless the disk is full, when nothing can be written.   *)
DiskIsFull == Len(log) >= MaxLines
AbandonedForCause == \A x \in Everywhere :
    x.status = "abandoned" /\ x.ev \in WellFormed => faults >= MaxReplay \/ DiskIsFull

(* With one replay process: a record that is "replayed" or "abandoned", in  *)
(* the queue file or in the copy of a pass, is never given another status   *)
(* by that pass or a later one, although the log may be down by then.       *)
SettledStaysSettled ==
    [][\A r \in Replayer :
        \A x \in Elements(queue) \cup Elements(pass[r].items), y \in Elements(pass'[r].items) :
            x.did = y.did /\ x.status \in Terminal => x.status = y.status]_allVars

(* A record that was queued stays in the queue file except while a pass is  *)
(* between the truncation and the write of the file.                        *)
RecordsKept ==
    (\A r \in Replayer : pass[r].at # "write") =>
        \A d \in 1..made : \E x \in Elements(queue) : x.did = d
=============================================================================
