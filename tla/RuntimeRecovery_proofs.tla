----------------------- MODULE RuntimeRecovery_proofs -----------------------
(***************************************************************************)
(* Proofs about the recovery of failures over the event log, the           *)
(* degradation queue and its replay, for any emitters and replayers, any   *)
(* failures and policies, and any faults.                                  *)
(***************************************************************************)
EXTENDS RuntimeRecovery, GovernanceEventLog_proofs, MetricsSnapshot_proofs

(* The events of failures and of attempts are events.                       *)
LEMMA EventsTyped ==
    /\ \A f \in Failure : FailureEvent(Normalize(f)) \in Event
    /\ \A f \in Failure, p \in Policy : AttemptEvent(Attempt(Normalize(f), p)) \in Event
    /\ OtherEvent \subseteq Event /\ ToolEvent \subseteq Event
BY RecoveryEventAssumption DEF RecoveryEvent

(* What a step does to the queue and to the passes. *)
QueueMove ==
    \/ UNCHANGED degVars
    \/ \E payload \in Event \cup {NoEvent} : AppendRecord(payload) /\ UNCHANGED pass
    \/ \E r \in Replayer :
        \/ SkipItem(r) \/ GiveUpItem(r) \/ FailMissingPayload(r)
        \/ Replayed(r) \/ ReplayFailed(r)
        \/ StartPass(r) \/ TruncateQueue(r) \/ WriteQueue(r)
        \/ Die(r)

(* Every step is a move of the log and one of the queue.                    *)
LEMMA Moves ==
    ASSUME RecTypeOK, [RecNext]_<<allVars, recVars>>
    PROVE  LogMove /\ QueueMove
<1> USE EventsTyped, RoleAssumption DEF LogMove, QueueMove, DegTypeOK, RecTypeOK, TypeOK
<1>1. ASSUME NEW c \in Caller, NEW e \in Event, Emit(c, e) PROVE LogMove /\ QueueMove
  BY <1>1 DEF Emit
<1>2. ASSUME NEW c \in Caller, Die(c) PROVE LogMove /\ QueueMove
  <2>1. LogMove
    BY <1>2 DEF Die
  <2>2. CASE c \in Replayer
    BY <1>2, <2>1, <2>2
  <2>3. CASE c \notin Replayer
    <3>1. pass' = pass
      BY <1>2, <2>3 DEF Die
    <3> QED
      BY <1>2, <2>1, <3>1 DEF Die, degVars
  <2> QED
    BY <2>2, <2>3
<1>3. CASE DegStep
  <2>1. ASSUME NEW c \in Caller, IngestStep(c), UNCHANGED degVars PROVE LogMove /\ QueueMove
    BY <2>1
  <2>2. ASSUME NEW c \in Caller, Emitted(c) PROVE LogMove /\ QueueMove
    BY <2>2 DEF Emitted
  <2>3. ASSUME NEW r \in Replayer, Replayed(r) \/ ReplayFailed(r) PROVE LogMove /\ QueueMove
    BY <2>3 DEF Replayed, ReplayFailed
  <2>4. ASSUME NEW r \in Replayer,
               SkipItem(r) \/ GiveUpItem(r) \/ FailMissingPayload(r)
               \/ StartPass(r) \/ TruncateQueue(r) \/ WriteQueue(r)
        PROVE  LogMove /\ QueueMove
    <3>1. UNCHANGED vars
      BY <2>4 DEF SkipItem, GiveUpItem, FailMissingPayload, StartPass, TruncateQueue, WriteQueue
    <3> QED
      BY <2>4, <3>1 DEF vars
  <2>5. ASSUME NEW r \in Replayer, ReplayItem(r) PROVE LogMove /\ QueueMove
    <3>1. Item(r) \in Record
      BY <2>5 DEF ReplayItem, Scanning, Item
    <3>2. Item(r).ev \in Event
      BY <2>5, <3>1 DEF ReplayItem, Record
    <3> QED
      BY <2>5, <3>2 DEF ReplayItem
  <2> QED
    BY <1>2, <1>3, <2>1, <2>2, <2>3, <2>4, <2>5 DEF DegStep
<1>4. ASSUME NEW c \in Emitter, Degrade(c) PROVE LogMove /\ QueueMove
  <2>1. Payload(c) \in Event \cup {NoEvent}
    BY DEF Payload
  <2> QED
    BY <1>4, <2>1 DEF Degrade
<1>5. ASSUME NEW c \in Emitter, DegradeFails(c) \/ AttemptUnsaved(c) PROVE LogMove /\ QueueMove
  BY <1>5 DEF DegradeFails, AttemptUnsaved
<1>6. ASSUME NEW e \in ToolEvent, QueueByTool(e) PROVE LogMove /\ QueueMove
  BY <1>6 DEF QueueByTool, vars
<1>7. CASE UNCHANGED <<allVars, recVars>>
  BY <1>7 DEF allVars, vars
<1> QED
  BY <1>1, <1>3, <1>4, <1>5, <1>6, <1>7
     DEF RecNext, ReportFailure, RunAttempt, SaveAndQueue, SaveOrQueueFails

-----------------------------------------------------------------------------
(* While a replayer's call runs, its pass stands on the item of that call,   *)
(* which was a candidate with attempts left.                                *)
CallOfItem == \A r \in Replayer : at[r] # "idle" =>
    /\ pass[r].at = "scan" /\ pass[r].pos \in DOMAIN pass[r].items
    /\ Item(r).ev = ev[r] /\ Item(r).status \in Candidate /\ Item(r).attempts < MaxReplay

(* A pass that settles its item changes that item's status and count, steps  *)
(* on, and leaves the other passes alone.                                   *)
LEMMA Settled ==
    ASSUME DegTypeOK, NEW r \in Replayer, pass[r].pos \in DOMAIN pass[r].items,
           NEW status \in Terminal \cup Candidate, NEW attempts \in 0 .. MaxReplay,
           Settle(r, status, attempts)
    PROVE  /\ pass'[r].at = "scan"
           /\ pass'[r].pos = pass[r].pos + 1
           /\ pass'[r].items \in Seq(Record)
           /\ Elements(pass'[r].items) \subseteq Elements(pass[r].items) \cup
                 {[Item(r) EXCEPT !.status = status, !.attempts = attempts]}
           /\ pass' \in [Replayer -> [at : {"none", "scan", "truncate", "write"},
                                     items : Seq(Record), pos : Nat \ {0}]]
           /\ \A q \in Replayer \ {r} : pass'[q] = pass[q]
<1> DEFINE old == pass[r]
           new == [Item(r) EXCEPT !.status = status, !.attempts = attempts]
           items == [old.items EXCEPT ![old.pos] = new]
           next == [at |-> "scan", items |-> items, pos |-> old.pos + 1]
<1>1. /\ pass \in [Replayer -> [at : {"none", "scan", "truncate", "write"},
                               items : Seq(Record), pos : Nat \ {0}]]
      /\ old.items \in Seq(Record) /\ old.pos \in Nat \ {0}
  BY DEF DegTypeOK
<1>2. Item(r) \in Record
  BY <1>1 DEF Item
<1>3. new \in Record
  BY <1>2 DEF Record
<1>4. items \in Seq(Record) /\ Elements(items) \subseteq Elements(old.items) \cup {new}
  BY <1>1, <1>3 DEF Elements
<1>5. pass' = [pass EXCEPT ![r] = next]
  BY DEF Settle
<1> HIDE DEF items, new
<1>6. /\ next \in [at : {"none", "scan", "truncate", "write"}, items : Seq(Record), pos : Nat \ {0}]
      /\ next.at = "scan" /\ next.pos = old.pos + 1 /\ next.items = items
  BY <1>1, <1>4
<1> HIDE DEF next
<1> QED
  BY <1>1, <1>4, <1>5, <1>6 DEF new

(* What a pass writes back: its copy, and behind it no more than what was    *)
(* appended since the file was truncated.                                   *)
LEMMA Written ==
    ASSUME DegTypeOK, NEW r \in Replayer, WriteQueue(r)
    PROVE  LET s == pass[r].items
           IN  \E hit \in Nat :
                  /\ queue' = s \o SubSeq(queue, hit + 1, Len(queue))
                  /\ queue' \in Seq(Record)
                  /\ Elements(s) \subseteq Elements(queue')
                  /\ Elements(queue') \subseteq Elements(s) \cup Elements(queue)
                  /\ \A i \in DOMAIN queue' :
                        \/ i \in DOMAIN s /\ queue'[i] = s[i]
                        \/ /\ i > Len(s) /\ i - Len(s) + hit \in DOMAIN queue
                           /\ queue'[i] = queue[i - Len(s) + hit]
<1> DEFINE s == pass[r].items
<1>1. queue \in Seq(Record) /\ s \in Seq(Record)
  BY DEF DegTypeOK
<1>2. PICK hit \in Nat : queue' = s \o SubSeq(queue, hit + 1, Len(queue))
  <2>1. CASE s = <<>>
    <3>1. queue' = s \o SubSeq(queue, 0 + 1, Len(queue))
      BY <1>1, <2>1 DEF WriteQueue
    <3> QED
      BY <3>1
  <2>2. CASE s # <<>>
    <3>1. PICK hit \in 1 .. Len(queue) + 1 : queue' = s \o SubSeq(queue, hit + 1, Len(queue))
      BY <2>2 DEF WriteQueue
    <3>2. hit \in Nat
      BY <1>1
    <3> QED
      BY <3>1, <3>2
  <2> QED
    BY <2>1, <2>2
<1> HIDE DEF s
<1> DEFINE t == SubSeq(queue, hit + 1, Len(queue))
<1>3. /\ t \in Seq(Record)
      /\ \A i \in DOMAIN t : i + hit \in DOMAIN queue /\ t[i] = queue[i + hit]
  <2>1. CASE hit + 1 <= Len(queue)
    BY <1>1, <2>1
  <2>2. CASE hit + 1 > Len(queue)
    <3>1. t = <<>>
      BY <1>1, <2>2
    <3>2. <<>> \in Seq(Record) /\ DOMAIN <<>> = {}
      OBVIOUS
    <3> HIDE DEF t
    <3> QED
      BY <3>1, <3>2
  <2> QED
    BY <1>1, <2>1, <2>2
<1> HIDE DEF t
<1>4. /\ queue' = s \o t /\ queue' \in Seq(Record) /\ Len(s) \in Nat /\ Len(t) \in Nat
      /\ DOMAIN queue' = 1 .. Len(s) + Len(t) /\ DOMAIN s = 1 .. Len(s) /\ DOMAIN t = 1 .. Len(t)
      /\ \A i \in DOMAIN s : queue'[i] = s[i]
      /\ \A i \in DOMAIN queue' : i > Len(s) => i - Len(s) \in DOMAIN t /\ queue'[i] = t[i - Len(s)]
  BY <1>1, <1>2, <1>3 DEF t
<1>5. \A i \in DOMAIN queue' :
        \/ i \in DOMAIN s /\ queue'[i] = s[i]
        \/ /\ i > Len(s) /\ i - Len(s) + hit \in DOMAIN queue
           /\ queue'[i] = queue[i - Len(s) + hit]
  BY <1>3, <1>4
<1>6. /\ Elements(s) \subseteq Elements(queue')
      /\ Elements(queue') \subseteq Elements(s) \cup Elements(queue)
  BY <1>4, <1>5 DEF Elements
<1> QED
  BY <1>2, <1>4, <1>5, <1>6 DEF s

-----------------------------------------------------------------------------
RecInv == RecTypeOK /\ SafetyInv /\ CallOfItem /\ ReplayedIsLogged

LoggedIf(x) == x.status = "replayed" => x.ev # NoEvent /\ Marks(x.ev) \cap MarksOfLog # {}

(* The five ways an item is settled: by whom, and as what.                  *)
LEMMA Settlements ==
    ASSUME RecInv, NEW r \in Replayer,
           SkipItem(r) \/ GiveUpItem(r) \/ FailMissingPayload(r) \/ Replayed(r) \/ ReplayFailed(r)
    PROVE  /\ pass[r].pos \in DOMAIN pass[r].items
           /\ UNCHANGED <<queue, made, log>>
           /\ \E status \in Terminal \cup Candidate, attempts \in 0 .. MaxReplay :
                 /\ Settle(r, status, attempts)
                 /\ LoggedIf([Item(r) EXCEPT !.status = status, !.attempts = attempts])
<1> DEFINE new(status, attempts) == [Item(r) EXCEPT !.status = status, !.attempts = attempts]
<1>1. pass[r].pos \in DOMAIN pass[r].items
  BY DEF RecInv, CallOfItem, SkipItem, GiveUpItem, FailMissingPayload, Scanning, Replayed,
         ReplayFailed
<1>2. Item(r) \in Record /\ Item(r) \in Everywhere
  BY <1>1 DEF RecInv, RecTypeOK, DegTypeOK, Item, Everywhere, Elements
<1>3. \A status, attempts : /\ new(status, attempts).status = status
                            /\ new(status, attempts).ev = Item(r).ev
  BY <1>2 DEF Record
<1>4. Item(r).attempts \in 0 .. MaxReplay /\ Item(r).status \in Terminal \cup Candidate
      /\ MaxReplay \in Nat
  BY <1>2, RoleAssumption DEF Record
<1> HIDE DEF new
<1>5. ASSUME SkipItem(r) PROVE \E status \in Terminal \cup Candidate, attempts \in 0 .. MaxReplay :
          Settle(r, status, attempts) /\ LoggedIf(new(status, attempts))
  <2>1. LoggedIf(Item(r))
    BY <1>2 DEF RecInv, ReplayedIsLogged, LoggedIf
  <2>2. LoggedIf(new(Item(r).status, Item(r).attempts))
    BY <1>3, <2>1 DEF LoggedIf
  <2> QED
    BY <1>4, <1>5, <2>2 DEF SkipItem
<1>6. ASSUME GiveUpItem(r) PROVE \E status \in Terminal \cup Candidate, attempts \in 0 .. MaxReplay :
          Settle(r, status, attempts) /\ LoggedIf(new(status, attempts))
  <2>1. LoggedIf(new("abandoned", Item(r).attempts))
    BY <1>3 DEF LoggedIf
  <2> QED
    BY <1>4, <1>6, <2>1 DEF GiveUpItem, Terminal
<1>7. ASSUME FailMissingPayload(r)
      PROVE  \E status \in Terminal \cup Candidate, attempts \in 0 .. MaxReplay :
          Settle(r, status, attempts) /\ LoggedIf(new(status, attempts))
  <2>1. LoggedIf(new("replay_failed", Item(r).attempts + 1))
    BY <1>3 DEF LoggedIf
  <2>2. Item(r).attempts + 1 \in 0 .. MaxReplay
    BY <1>4, <1>7 DEF FailMissingPayload
  <2> QED
    BY <1>7, <2>1, <2>2 DEF FailMissingPayload, Candidate
<1>8. ASSUME Replayed(r) \/ ReplayFailed(r)
      PROVE  Item(r).attempts + 1 \in 0 .. MaxReplay /\ Item(r).ev = ev[r]
  BY <1>4, <1>8 DEF Replayed, ReplayFailed, RecInv, CallOfItem
<1>9. ASSUME Replayed(r) PROVE \E status \in Terminal \cup Candidate, attempts \in 0 .. MaxReplay :
          Settle(r, status, attempts) /\ LoggedIf(new(status, attempts))
  <2>1. r \in Caller /\ ev[r] \in Event
    BY <1>9, RoleAssumption DEF Replayed, RecInv, RecTypeOK, DegTypeOK, TypeOK
  <2>2. Marks(ev[r]) \cap MarksOfLog # {}
    <3>1. AnswersTrue /\ res[r] \in {"written", "ignored_duplicate"}
      BY <1>9 DEF Replayed, RecInv, SafetyInv
    <3>2. CASE res[r] = "ignored_duplicate"
      BY <2>1, <3>1, <3>2 DEF AnswersTrue
    <3>3. CASE res[r] = "written"
      <4>1. PICK i \in DOMAIN log : log[i] = ev[r]
        BY <2>1, <3>1, <3>3 DEF AnswersTrue
      <4>2. Marks(log[i]) \subseteq MarksOfLog
        BY <4>1 DEF MarksOfLog, MarksIn
      <4>3. <<"event_ids", IdOf[ev[r]]>> \in Marks(ev[r])
        BY DEF Marks
      <4> QED
        BY <4>1, <4>2, <4>3
    <3> QED
      BY <3>1, <3>2, <3>3
  <2>3. LoggedIf(new("replayed", Item(r).attempts + 1))
    BY <1>3, <1>8, <1>9, <2>1, <2>2, EventAssumption DEF LoggedIf
  <2> QED
    BY <1>8, <1>9, <2>3 DEF Replayed, Terminal
<1>10. ASSUME ReplayFailed(r) PROVE \E status \in Terminal \cup Candidate, attempts \in 0 .. MaxReplay :
          Settle(r, status, attempts) /\ LoggedIf(new(status, attempts))
  <2>1. PICK status \in {"abandoned", "replay_failed"} : Settle(r, status, Item(r).attempts + 1)
    BY <1>10 DEF ReplayFailed
  <2>2. LoggedIf(new(status, Item(r).attempts + 1))
    BY <1>3, <2>1 DEF LoggedIf
  <2> QED
    BY <1>8, <1>10, <2>1, <2>2 DEF Terminal, Candidate
<1>11. UNCHANGED <<queue, made, log>>
  BY DEF SkipItem, GiveUpItem, FailMissingPayload, Replayed, ReplayFailed, vars, Forget
<1> QED
  BY <1>1, <1>5, <1>6, <1>7, <1>9, <1>10, <1>11 DEF new

(* The queue keeps its type, and its records stay true of the log.          *)
LEMMA QueueKept ==
    ASSUME RecInv, LogMove, QueueMove
    PROVE  DegTypeOK' /\ ReplayedIsLogged'
<1>1. TypeOK' /\ MarksOfLog \subseteq MarksOfLog'
  BY MoveTyped, LogGrows DEF RecInv, RecTypeOK, DegTypeOK
<1> DEFINE Passes == [Replayer -> [at : {"none", "scan", "truncate", "write"},
                                   items : Seq(Record), pos : Nat \ {0}]]
<1>2. DegTypeOK /\ \A x \in Everywhere : LoggedIf(x)
  BY DEF RecInv, RecTypeOK, ReplayedIsLogged, LoggedIf
<1>3. ASSUME queue' \in Seq(Record), made' \in Nat, pass' \in Passes,
             \A x \in Everywhere' : x \in Everywhere \/ LoggedIf(x)
      PROVE  DegTypeOK' /\ ReplayedIsLogged'
  BY <1>1, <1>2, <1>3 DEF DegTypeOK, ReplayedIsLogged, LoggedIf
<1> USE DEF DegTypeOK, degVars
<1>4. CASE UNCHANGED degVars
  BY <1>2, <1>3, <1>4 DEF Everywhere
<1>5. ASSUME NEW payload \in Event \cup {NoEvent}, AppendRecord(payload), UNCHANGED pass
      PROVE  DegTypeOK' /\ ReplayedIsLogged'
  <2> DEFINE x == [did |-> made + 1, ev |-> payload, status |-> "queued", attempts |-> 0]
  <2>1. x \in Record /\ LoggedIf(x)
    BY <1>2, RoleAssumption DEF Record, LoggedIf, Candidate
  <2>2. queue' = Append(queue, x) /\ made' = made + 1
    BY <1>5 DEF AppendRecord
  <2> HIDE DEF x
  <2>3. queue' \in Seq(Record) /\ Elements(queue') \subseteq Elements(queue) \cup {x}
    BY <1>2, <2>1, <2>2 DEF Elements
  <2> QED
    BY <1>2, <1>3, <1>5, <2>1, <2>2, <2>3 DEF Everywhere
<1>6. ASSUME NEW r \in Replayer,
             SkipItem(r) \/ GiveUpItem(r) \/ FailMissingPayload(r) \/ Replayed(r) \/ ReplayFailed(r)
      PROVE  DegTypeOK' /\ ReplayedIsLogged'
  <2>1. PICK status \in Terminal \cup Candidate, attempts \in 0 .. MaxReplay :
            /\ Settle(r, status, attempts)
            /\ LoggedIf([Item(r) EXCEPT !.status = status, !.attempts = attempts])
    BY <1>6, Settlements
  <2>2. pass[r].pos \in DOMAIN pass[r].items /\ UNCHANGED <<queue, made>>
    BY <1>6, Settlements
  <2>3. /\ pass' \in Passes
        /\ Elements(pass'[r].items) \subseteq Elements(pass[r].items) \cup
              {[Item(r) EXCEPT !.status = status, !.attempts = attempts]}
        /\ \A q \in Replayer \ {r} : pass'[q] = pass[q]
    BY <1>2, <2>1, <2>2, Settled
  <2>4. Everywhere' \subseteq
            Everywhere \cup {[Item(r) EXCEPT !.status = status, !.attempts = attempts]}
    BY <2>2, <2>3 DEF Everywhere
  <2>5. \A x \in Everywhere' : x \in Everywhere \/ LoggedIf(x)
    BY <2>1, <2>4
  <2> QED
    BY <1>2, <1>3, <2>2, <2>3, <2>5
<1>7. ASSUME NEW r \in Replayer, StartPass(r) PROVE DegTypeOK' /\ ReplayedIsLogged'
  <2>1. pass' = [pass EXCEPT ![r] = [at |-> "scan", items |-> queue, pos |-> 1]]
        /\ UNCHANGED <<queue, made>>
    BY <1>7 DEF StartPass
  <2> QED
    BY <1>2, <1>3, <2>1 DEF Everywhere
<1>8. ASSUME NEW r \in Replayer, TruncateQueue(r) PROVE DegTypeOK' /\ ReplayedIsLogged'
  <2>1. pass' = [pass EXCEPT ![r] = [pass[r] EXCEPT !.at = "write"]]
        /\ queue' = <<>> /\ made' = made
    BY <1>8 DEF TruncateQueue
  <2>2. /\ [pass[r] EXCEPT !.at = "write"] \in [at : {"none", "scan", "truncate", "write"},
                                               items : Seq(Record), pos : Nat \ {0}]
        /\ [pass[r] EXCEPT !.at = "write"].items = pass[r].items
    BY <1>2
  <2>3. queue' \in Seq(Record) /\ Elements(queue') = {}
    BY <2>1 DEF Elements
  <2>4. pass' \in Passes /\ \A q \in Replayer : pass'[q].items = pass[q].items
    BY <1>2, <2>1, <2>2
  <2>5. Everywhere' \subseteq Everywhere
    BY <2>3, <2>4 DEF Everywhere
  <2> QED
    BY <1>2, <1>3, <2>1, <2>3, <2>4, <2>5
<1>9. ASSUME NEW r \in Replayer, WriteQueue(r) PROVE DegTypeOK' /\ ReplayedIsLogged'
  <2>1. pass' = [pass EXCEPT ![r] = NoPass] /\ made' = made
    BY <1>9 DEF WriteQueue
  <2>2. NoPass \in [at : {"none", "scan", "truncate", "write"},
                    items : Seq(Record), pos : Nat \ {0}] /\ Elements(NoPass.items) = {}
    BY DEF NoPass, Elements
  <2>3. /\ queue' \in Seq(Record)
        /\ Elements(queue') \subseteq Elements(pass[r].items) \cup Elements(queue)
    BY <1>2, <1>9, Written
  <2>4. /\ pass' \in Passes
        /\ \A q \in Replayer : pass'[q].items = pass[q].items \/ Elements(pass'[q].items) = {}
    BY <1>2, <2>1, <2>2
  <2>5. Everywhere' \subseteq Everywhere
    <3>1. \A q \in Replayer : Elements(pass'[q].items) \subseteq Elements(pass[q].items)
      BY <2>4
    <3> QED
      BY <1>9, <2>3, <3>1 DEF Everywhere
  <2> QED
    BY <1>2, <1>3, <2>1, <2>3, <2>4, <2>5
<1>10. ASSUME NEW r \in Replayer, Die(r) PROVE DegTypeOK' /\ ReplayedIsLogged'
  <2>1. pass' = [q \in Replayer |-> IF q = r THEN NoPass ELSE pass[q]] /\ UNCHANGED <<queue, made>>
    BY <1>10 DEF Die
  <2>2. NoPass \in [at : {"none", "scan", "truncate", "write"},
                    items : Seq(Record), pos : Nat \ {0}] /\ Elements(NoPass.items) = {}
    BY DEF NoPass, Elements
  <2> QED
    BY <1>2, <1>3, <2>1, <2>2 DEF Everywhere
<1> QED
  BY <1>4, <1>5, <1>6, <1>7, <1>8, <1>9, <1>10 DEF QueueMove

(* A pass keeps standing on the item of its call.                           *)
LEMMA CallKept ==
    ASSUME RecInv, [RecNext]_<<allVars, recVars>>
    PROVE  CallOfItem'
<1> USE RoleAssumption
<1>1. /\ at \in [Caller -> Phase] /\ ev \in [Caller -> Event \cup {NoEvent}]
      /\ pass \in [Replayer -> [at : {"none", "scan", "truncate", "write"},
                               items : Seq(Record), pos : Nat \ {0}]]
      /\ Replayer \subseteq Caller /\ \A c \in Emitter : c \in Caller /\ c \notin Replayer
  BY DEF RecInv, RecTypeOK, DegTypeOK, TypeOK
<1>2. CallOfItem
  BY DEF RecInv
<1>3. ASSUME \A q \in Replayer : at'[q] = "idle" \/ (at'[q] = at[q] /\ ev'[q] = ev[q] /\ pass'[q] = pass[q])
      PROVE  CallOfItem'
  BY <1>2, <1>3 DEF CallOfItem, Item
<1>4. ASSUME NEW c \in Emitter, NEW e \in Event, Emit(c, e) PROVE CallOfItem'
  BY <1>1, <1>3, <1>4 DEF Emit, Call, degVars
<1>5. ASSUME NEW c \in Caller, IngestStep(c), UNCHANGED degVars PROVE CallOfItem'
  <2>1. /\ at[c] # "idle" /\ ev' = ev /\ pass' = pass
        /\ \A q \in Caller \ {c} : at'[q] = at[q]
    BY <1>1, <1>5
       DEF IngestStep, RejectInvalid, LoadIndex, AppendEvent, TruncateIndex, WriteIndex, DiskFull,
           Raise, Answer, degVars
  <2> QED
    BY <1>1, <1>2, <2>1 DEF CallOfItem, Item
<1>6. ASSUME NEW c \in Caller, Forget(c), \A q \in Replayer \ {c} : pass'[q] = pass[q]
      PROVE  CallOfItem'
  BY <1>1, <1>3, <1>6 DEF Forget
<1>7. ASSUME NEW r \in Replayer, UNCHANGED vars, at[r] = "idle",
             \A q \in Replayer \ {r} : pass'[q] = pass[q]
      PROVE  CallOfItem'
  BY <1>3, <1>7 DEF vars, callVars
<1>8. ASSUME NEW c \in Caller, Die(c) PROVE CallOfItem'
  BY <1>6, <1>8 DEF Die
<1>9. CASE DegStep
  <2>1. ASSUME NEW c \in Emitter, Emitted(c) PROVE CallOfItem'
    BY <1>1, <1>6, <2>1 DEF Emitted, degVars
  <2>2. ASSUME NEW r \in Replayer, SkipItem(r) \/ GiveUpItem(r) \/ FailMissingPayload(r)
        PROVE  CallOfItem'
    <3>1. at[r] = "idle" /\ UNCHANGED vars
      BY <2>2 DEF SkipItem, GiveUpItem, FailMissingPayload, Scanning
    <3>2. \A q \in Replayer \ {r} : pass'[q] = pass[q]
      BY <1>1, <2>2, Settlements, Settled DEF RecInv, RecTypeOK
    <3> QED
      BY <1>7, <3>1, <3>2
  <2>3. ASSUME NEW r \in Replayer, Replayed(r) \/ ReplayFailed(r) PROVE CallOfItem'
    <3>1. Forget(r)
      BY <2>3 DEF Replayed, ReplayFailed
    <3>2. \A q \in Replayer \ {r} : pass'[q] = pass[q]
      BY <1>1, <2>3, Settlements, Settled DEF RecInv, RecTypeOK
    <3> QED
      BY <1>1, <1>6, <3>1, <3>2
  <2>4. ASSUME NEW r \in Replayer, StartPass(r) \/ TruncateQueue(r) \/ WriteQueue(r)
        PROVE  CallOfItem'
    <3>1. at[r] = "idle"
      BY <1>2, <2>4 DEF CallOfItem, StartPass, TruncateQueue, WriteQueue, ScanDone
    <3>2. UNCHANGED vars /\ \A q \in Replayer \ {r} : pass'[q] = pass[q]
      BY <1>1, <2>4 DEF StartPass, TruncateQueue, WriteQueue
    <3> QED
      BY <1>7, <3>1, <3>2
  <2>5. ASSUME NEW r \in Replayer, ReplayItem(r) PROVE CallOfItem'
    <3>1. /\ at' = [at EXCEPT ![r] = "load"] /\ ev' = [ev EXCEPT ![r] = Item(r).ev]
          /\ pass' = pass /\ Scanning(r)
          /\ Item(r).status \in Candidate /\ Item(r).attempts < MaxReplay
      BY <2>5 DEF ReplayItem, Call, degVars
    <3>2. Item(r)' = Item(r)
      BY <3>1 DEF Item
    <3> QED
      BY <1>1, <1>2, <3>1, <3>2 DEF CallOfItem, Scanning, Item
  <2> QED
    BY <1>5, <1>8, <1>9, <2>1, <2>2, <2>3, <2>4, <2>5 DEF DegStep
<1>10. ASSUME NEW c \in Emitter, Degrade(c) \/ DegradeFails(c) PROVE CallOfItem'
  BY <1>1, <1>6, <1>10 DEF Degrade, DegradeFails, degVars
<1>11. CASE UNCHANGED <<at, ev, pass>>
  BY <1>3, <1>11
<1> QED
  BY <1>4, <1>9, <1>10, <1>11, EventsTyped
     DEF RecNext, ReportFailure, RunAttempt, SaveAndQueue, SaveOrQueueFails, AttemptUnsaved,
         QueueByTool, allVars, vars, callVars, degVars

(* Nothing else is written where the types say what to expect.              *)
LEMMA RecoveryTyped ==
    ASSUME RecTypeOK, [RecNext]_<<allVars, recVars>>
    PROVE  /\ reported' \subseteq Failure
           /\ attempt' \in Attempts \cup {NoAttempt}
           /\ degradation' \in BOOLEAN
<1> USE DEF RecTypeOK
<1>1. CASE UNCHANGED recVars
  BY <1>1 DEF recVars
<1>2. ASSUME NEW c \in Emitter, NEW f \in Failure, ReportFailure(c, f)
      PROVE  reported' \subseteq Failure /\ UNCHANGED <<attempt, degradation>>
  BY <1>2 DEF ReportFailure
<1>3. ASSUME NEW c \in Emitter, NEW f \in Failure, NEW p \in Policy, RunAttempt(c, f, p)
      PROVE  attempt' \in Attempts /\ UNCHANGED <<reported, degradation>>
  BY <1>3 DEF RunAttempt, Attempts
<1> QED
  BY <1>1, <1>2, <1>3
     DEF RecNext, AttemptUnsaved, SaveAndQueue, SaveOrQueueFails, recVars

(* The invariant of the composition.                                        *)
THEOREM RecoveryInvariance == RecSpec => []RecInv
<1>1. RecInit => RecInv
  <2> SUFFICES ASSUME RecInit PROVE RecInv
    OBVIOUS
  <2> USE DEF RecInit, DegInit
  <2>1. TypeOK
    BY EventAssumption DEF Init, TypeOK, Phase, Status
  <2>2. DegTypeOK
    BY <2>1 DEF DegTypeOK, NoPass
  <2>3. \A r \in Replayer : at[r] = "idle" /\ pass[r].items = <<>>
    BY RoleAssumption DEF Init, NoPass
  <2>4. Everywhere = {}
    BY <2>3 DEF Everywhere, Elements
  <2> QED
    BY <2>2, <2>3, <2>4, InitSafe DEF RecInv, RecTypeOK, CallOfItem, ReplayedIsLogged
<1>2. RecInv /\ [RecNext]_<<allVars, recVars>> => RecInv'
  <2> SUFFICES ASSUME RecInv, [RecNext]_<<allVars, recVars>> PROVE RecInv'
    OBVIOUS
  <2>1. RecTypeOK /\ TypeOK /\ SafetyInv
    BY DEF RecInv, RecTypeOK, DegTypeOK
  <2>2. LogMove /\ QueueMove
    BY <2>1, Moves
  <2>3. SafetyInv'
    BY <2>1, <2>2, MoveSafe
  <2>4. DegTypeOK' /\ ReplayedIsLogged'
    BY <2>2, QueueKept
  <2>5. RecTypeOK'
    BY <2>1, <2>4, RecoveryTyped DEF RecTypeOK
  <2> QED
    BY <2>3, <2>4, <2>5, CallKept DEF RecInv
<1> QED
  BY <1>1, <1>2, PTL DEF RecSpec

(* Every variable of the composition keeps its type; in particular no       *)
(* record is tried more often than the limit.                               *)
THEOREM RecoveryTyping == RecSpec => []RecTypeOK
<1>1. RecInv => RecTypeOK
  BY DEF RecInv
<1> QED
  BY <1>1, RecoveryInvariance, PTL

(* With emitters and replayers over one log, any number of each, the index  *)
(* stays behind the log and the answers stay true ...                       *)
THEOREM RecoveryLogSafe == RecSpec => [](IndexBacked /\ AnswersTrue)
<1>1. RecInv => IndexBacked /\ AnswersTrue
  BY DEF RecInv, SafetyInv
<1> QED
  BY <1>1, RecoveryInvariance, PTL

(* ... and a record that says "replayed" stands for an event in the log.    *)
THEOREM RecoveryReplayTrue == RecSpec => []ReplayedIsLogged
<1>1. RecInv => ReplayedIsLogged
  BY DEF RecInv
<1> QED
  BY <1>1, RecoveryInvariance, PTL

-----------------------------------------------------------------------------
(* One replayer.                                                            *)
LoneReplayer == \A p, q \in Replayer : p = q

Distinct(s)  == \A i, j \in DOMAIN s : s[i].did = s[j].did => i = j
Numbered(s)  == \A i \in DOMAIN s : s[i].did <= made

\* What the file or the pass holds as settled, the pass holds with that status.
Agree(r) == \A x \in Elements(queue) \cup Elements(pass[r].items), y \in Elements(pass[r].items) :
                x.did = y.did /\ x.status \in Terminal => x.status = y.status

\* What is in a truncated file has come after the pass read its copy.
Later(r) == pass[r].at = "write" =>
    \A i \in DOMAIN queue, j \in DOMAIN pass[r].items : queue[i].did # pass[r].items[j].did

PassInv == \A r \in Replayer :
    /\ Distinct(queue) /\ Numbered(queue)
    /\ Distinct(pass[r].items) /\ Numbered(pass[r].items) /\ Agree(r)
    /\ pass[r].at = "none" => pass[r].items = <<>>
    /\ Later(r)

KeepsSettled(r) ==
    \A x \in Elements(queue) \cup Elements(pass[r].items), y \in Elements(pass'[r].items) :
        x.did = y.did /\ x.status \in Terminal => x.status = y.status

(* An item that was settled is skipped; one that was not is settled nowhere *)
(* else, so that the new status contradicts nothing.                        *)
LEMMA SettlePass ==
    ASSUME RecInv, PassInv, NEW r \in Replayer, Replayer = {r},
           SkipItem(r) \/ GiveUpItem(r) \/ FailMissingPayload(r) \/ Replayed(r) \/ ReplayFailed(r)
    PROVE  PassInv' /\ KeepsSettled(r)
<1> DEFINE i == pass[r].pos
           s == pass[r].items
<1>1. PICK status \in Terminal \cup Candidate, attempts \in 0 .. MaxReplay :
          Settle(r, status, attempts) /\ (Item(r).status \in Candidate \/ status = Item(r).status)
  <2>1. CASE SkipItem(r)
    <3>1. Item(r) \in Record
      BY <2>1 DEF SkipItem, Scanning, Item, RecInv, RecTypeOK, DegTypeOK
    <3>2. Item(r).status \in Terminal \cup Candidate /\ Item(r).attempts \in 0 .. MaxReplay
      BY <3>1 DEF Record
    <3> QED
      BY <2>1, <3>2 DEF SkipItem
  <2>2. CASE GiveUpItem(r) \/ FailMissingPayload(r) \/ Replayed(r) \/ ReplayFailed(r)
    <3>1. Item(r).status \in Candidate
      BY <2>2 DEF GiveUpItem, FailMissingPayload, Replayed, ReplayFailed, RecInv, CallOfItem
    <3> QED
      BY <3>1, Settlements
  <2> QED
    BY <2>1, <2>2
<1>2. /\ UNCHANGED <<queue, made>> /\ i \in DOMAIN s /\ s \in Seq(Record)
      /\ pass \in [Replayer -> [at : {"none", "scan", "truncate", "write"},
                               items : Seq(Record), pos : Nat \ {0}]]
  BY Settlements DEF RecInv, RecTypeOK, DegTypeOK
<1> DEFINE new == [Item(r) EXCEPT !.status = status, !.attempts = attempts]
<1>3. pass'[r].items = [s EXCEPT ![i] = new] /\ pass'[r].at = "scan"
  BY <1>1, <1>2 DEF Settle
<1>4. Item(r) = s[i] /\ Item(r) \in Record
  BY <1>2 DEF Item
<1>5. new.did = s[i].did /\ new.status = status
  BY <1>4 DEF Record
<1> HIDE DEF new
<1> DEFINE t == pass'[r].items
<1>6. /\ DOMAIN t = DOMAIN s /\ t[i] = new
      /\ \A j \in DOMAIN s : j # i => t[j] = s[j]
      /\ \A j \in DOMAIN s : t[j].did = s[j].did
  BY <1>2, <1>3, <1>5
<1>7. /\ Distinct(s) /\ Numbered(s) /\ Distinct(queue) /\ Numbered(queue) /\ Agree(r)
  BY DEF PassInv
<1>8. ASSUME NEW x \in Elements(queue) \cup Elements(s), NEW y \in Elements(t),
             x.did = y.did, x.status \in Terminal
      PROVE  x.status = y.status
  <2>1. PICK j \in DOMAIN s : y = t[j]
    BY <1>6 DEF Elements
  <2>2. s[j] \in Elements(s) /\ x.did = s[j].did
    BY <1>6, <1>8, <2>1 DEF Elements
  <2>3. x.status = s[j].status
    BY <1>7, <1>8, <2>2 DEF Agree
  <2>4. CASE j = i
    <3>1. s[i].status \notin Candidate
      BY <1>8, <2>3, <2>4 DEF Terminal, Candidate
    <3> QED
      BY <1>1, <1>4, <1>5, <1>6, <2>1, <2>3, <2>4, <3>1
  <2>5. CASE j # i
    BY <1>6, <2>1, <2>3, <2>5
  <2> QED
    BY <2>4, <2>5
<1>9. KeepsSettled(r)
  BY <1>8 DEF KeepsSettled
<1>10. Distinct(t)
  BY <1>6, <1>7 DEF Distinct
<1>11. Agree(r)'
  <2> SUFFICES ASSUME NEW x \in Elements(queue) \cup Elements(t), NEW y \in Elements(t),
                      x.did = y.did, x.status \in Terminal
               PROVE  x.status = y.status
    BY <1>2 DEF Agree
  <2>1. CASE x \in Elements(queue)
    BY <1>8, <2>1
  <2>2. CASE x \in Elements(t)
    BY <1>10, <2>2 DEF Distinct, Elements
  <2> QED
    BY <2>1, <2>2
<1>12. Distinct(queue)' /\ Numbered(queue)' /\ (Distinct(pass[r].items) /\ Numbered(pass[r].items))'
  BY <1>2, <1>6, <1>7, <1>10 DEF Distinct, Numbered
<1>13. pass'[r].at # "none" /\ Later(r)'
  BY <1>3 DEF Later
<1>14. PassInv'
  BY <1>11, <1>12, <1>13 DEF PassInv
<1> QED
  BY <1>9, <1>14

(* Every other move of the queue.                                           *)
LEMMA PassKept ==
    ASSUME RecInv, PassInv, NEW r, Replayer = {r}, QueueMove
    PROVE  PassInv' /\ KeepsSettled(r)
<1>1. /\ queue \in Seq(Record) /\ made \in Nat
      /\ pass \in [Replayer -> [at : {"none", "scan", "truncate", "write"},
                               items : Seq(Record), pos : Nat \ {0}]]
      /\ r \in Replayer
  BY DEF RecInv, RecTypeOK, DegTypeOK
<1>2. /\ Distinct(queue) /\ Numbered(queue) /\ Agree(r)
      /\ Distinct(pass[r].items) /\ Numbered(pass[r].items)
      /\ pass[r].at = "none" => pass[r].items = <<>>
      /\ Later(r)
  BY <1>1 DEF PassInv
<1>3. ASSUME Distinct(queue)', Numbered(queue)', Agree(r)', Distinct(pass[r].items)',
             Numbered(pass[r].items)', pass'[r].at = "none" => pass'[r].items = <<>>, Later(r)'
      PROVE  PassInv'
  BY <1>3 DEF PassInv
<1>4. Elements(<<>>) = {} /\ Elements(NoPass.items) = {} /\ NoPass.items = <<>>
  BY DEF Elements, NoPass
<1>5. CASE UNCHANGED degVars
  <2>1. PassInv'
    BY <1>3, <1>2, <1>5 DEF degVars, Agree, Distinct, Numbered, Later
  <2> QED
    BY <1>2, <1>5, <2>1 DEF degVars, KeepsSettled, Agree
<1>6. ASSUME NEW payload \in Event \cup {NoEvent}, AppendRecord(payload), UNCHANGED pass
      PROVE  PassInv' /\ KeepsSettled(r)
  <2> DEFINE z == [did |-> made + 1, ev |-> payload, status |-> "queued", attempts |-> 0]
  <2>1. queue' = Append(queue, z) /\ made' = made + 1 /\ z.did = made + 1 /\ z.status \notin Terminal
    BY <1>6 DEF AppendRecord, Terminal
  <2>2. z \in Record
    BY <1>1, <1>6, RoleAssumption DEF Record, Candidate
  <2> HIDE DEF z
  <2>3. /\ Len(queue) \in Nat /\ DOMAIN queue = 1 .. Len(queue)
        /\ DOMAIN queue' = 1 .. Len(queue) + 1
        /\ \A j \in DOMAIN queue : queue'[j] = queue[j]
        /\ queue'[Len(queue) + 1] = z
    BY <1>1, <2>1, <2>2
  <2>4. \A j \in DOMAIN queue' : j \in DOMAIN queue \/ (j = Len(queue) + 1 /\ queue'[j] = z)
    BY <2>3
  <2>5. \A j \in DOMAIN queue : queue[j].did \in Nat /\ queue[j].did <= made
    <3>1. \A j \in DOMAIN queue : queue[j] \in Record
      BY <1>1
    <3> QED
      BY <1>2, <3>1 DEF Numbered, Record
  <2>6. \A j \in DOMAIN pass[r].items : pass[r].items[j].did \in Nat /\ pass[r].items[j].did <= made
    <3>1. pass[r].items \in Seq(Record)
      BY <1>1
    <3>2. \A j \in DOMAIN pass[r].items : pass[r].items[j] \in Record
      BY <3>1
    <3> QED
      BY <1>2, <3>2 DEF Numbered, Record
  <2>7. Distinct(queue)' /\ Numbered(queue)'
    BY <1>1, <1>2, <2>1, <2>3, <2>4, <2>5 DEF Distinct, Numbered
  <2>8. Distinct(pass[r].items)' /\ Numbered(pass[r].items)'
    BY <1>1, <1>2, <1>6, <2>1, <2>6 DEF Distinct, Numbered
  <2>9. Agree(r)'
    <3>1. Elements(queue') \subseteq Elements(queue) \cup {z}
      BY <2>3, <2>4 DEF Elements
    <3> QED
      BY <1>2, <1>6, <2>1, <3>1 DEF Agree
  <2>10. KeepsSettled(r)
    BY <1>2, <1>6 DEF KeepsSettled, Agree
  <2>11. Later(r)'
    <3>1. \A j \in DOMAIN pass[r].items : z.did # pass[r].items[j].did
      BY <1>1, <2>1, <2>6
    <3> QED
      BY <1>2, <1>6, <2>3, <2>4, <3>1 DEF Later
  <2> QED
    BY <1>2, <1>3, <1>6, <2>7, <2>8, <2>9, <2>10, <2>11
<1>7. CASE StartPass(r)
  <2>1. /\ pass[r].at = "none" /\ pass'[r].items = queue /\ pass'[r].at = "scan"
        /\ UNCHANGED <<queue, made>>
    BY <1>1, <1>7 DEF StartPass
  <2>2. \A x, y \in Elements(queue) : x.did = y.did => x = y
    BY <1>2 DEF Distinct, Elements
  <2>3. Elements(pass[r].items) = {}
    BY <1>2, <1>4, <2>1
  <2>4. KeepsSettled(r) /\ Agree(r)'
    BY <2>1, <2>2, <2>3 DEF KeepsSettled, Agree
  <2>5. Later(r)'
    BY <2>1 DEF Later
  <2> QED
    BY <1>2, <1>3, <2>1, <2>4, <2>5 DEF Distinct, Numbered
<1>8. CASE TruncateQueue(r)
  <2>1. /\ pass'[r].items = pass[r].items /\ pass'[r].at = "write" /\ queue' = <<>> /\ made' = made
    BY <1>1, <1>8 DEF TruncateQueue
  <2>2. KeepsSettled(r) /\ Agree(r)' /\ Later(r)'
    BY <1>2, <1>4, <2>1 DEF KeepsSettled, Agree, Later
  <2> QED
    BY <1>2, <1>3, <2>1, <2>2 DEF Distinct, Numbered
<1>9. CASE WriteQueue(r)
  <2>1. pass'[r] = NoPass /\ pass[r].at = "write" /\ made' = made
    BY <1>1, <1>9 DEF WriteQueue
  <2>2. KeepsSettled(r) /\ Agree(r)' /\ Later(r)'
    BY <1>4, <2>1 DEF KeepsSettled, Agree, Later, NoPass
  <2> DEFINE s == pass[r].items
  <2>3. PICK hit \in Nat : \A i \in DOMAIN queue' :
            \/ i \in DOMAIN s /\ queue'[i] = s[i]
            \/ /\ i > Len(s) /\ i - Len(s) + hit \in DOMAIN queue
               /\ queue'[i] = queue[i - Len(s) + hit]
    BY <1>1, <1>9, Written DEF RecInv, RecTypeOK
  <2>4. s \in Seq(Record) /\ queue' \in Seq(Record)
    BY <1>1, <1>9, Written DEF RecInv, RecTypeOK
  <2>5. \A i \in DOMAIN queue, j \in DOMAIN s : queue[i].did # s[j].did
    BY <1>2, <2>1 DEF Later
  <2> HIDE DEF s
  <2>6. \A i, j \in DOMAIN queue' : queue'[i].did = queue'[j].did => i = j
    <3> SUFFICES ASSUME NEW i \in DOMAIN queue', NEW j \in DOMAIN queue',
                        queue'[i].did = queue'[j].did
                 PROVE  i = j
      OBVIOUS
    <3>1. i \in Nat /\ j \in Nat /\ Len(s) \in Nat
      BY <2>4
    <3>2. CASE i \in DOMAIN s /\ queue'[i] = s[i] /\ j \in DOMAIN s /\ queue'[j] = s[j]
      BY <1>2, <3>2 DEF Distinct, s
    <3>3. CASE /\ i - Len(s) + hit \in DOMAIN queue /\ queue'[i] = queue[i - Len(s) + hit]
               /\ j - Len(s) + hit \in DOMAIN queue /\ queue'[j] = queue[j - Len(s) + hit]
      <4>1. i - Len(s) + hit = j - Len(s) + hit
        BY <1>2, <3>3 DEF Distinct
      <4> QED
        BY <3>1, <4>1
    <3> QED
      BY <2>3, <2>5, <3>2, <3>3
  <2>7. Distinct(queue)' /\ Numbered(queue)'
    BY <1>2, <2>1, <2>3, <2>6 DEF Distinct, Numbered, s
  <2> QED
    BY <1>2, <1>3, <1>4, <2>1, <2>2, <2>7 DEF Distinct, Numbered
<1>10. CASE Die(r)
  <2>1. pass'[r] = NoPass /\ UNCHANGED <<queue, made>>
    BY <1>1, <1>10 DEF Die
  <2>2. KeepsSettled(r) /\ Agree(r)' /\ Later(r)'
    BY <1>4, <2>1 DEF KeepsSettled, Agree, Later, NoPass
  <2> QED
    BY <1>2, <1>3, <1>4, <2>1, <2>2 DEF Distinct, Numbered
<1> QED
  BY <1>1, <1>5, <1>6, <1>7, <1>8, <1>9, <1>10, SettlePass DEF QueueMove

(* With one replay process, what is replayed or abandoned, in the file or   *)
(* in a pass, never gets another status, for any faults and crashes.        *)
THEOREM SettledStays ==
    ASSUME LoneReplayer
    PROVE  RecSpec => SettledStaysSettled
<1>1. RecInit => PassInv
  BY DEF RecInit, DegInit, PassInv, Distinct, Numbered, Agree, Later, Elements, NoPass
<1>2. RecInv /\ PassInv /\ [RecNext]_<<allVars, recVars>> => QueueMove
  BY Moves DEF RecInv
<1>3. RecInv /\ PassInv /\ [RecNext]_<<allVars, recVars>>
        => PassInv' /\ \A r \in Replayer : KeepsSettled(r)
  <2> SUFFICES ASSUME RecInv, PassInv, [RecNext]_<<allVars, recVars>>
               PROVE  PassInv' /\ \A r \in Replayer : KeepsSettled(r)
    OBVIOUS
  <2>1. QueueMove
    BY <1>2
  <2>2. ASSUME NEW r \in Replayer PROVE PassInv' /\ KeepsSettled(r)
    <3>1. Replayer = {r}
      BY <2>2 DEF LoneReplayer
    <3> QED
      BY <2>1, <3>1, PassKept
  <2>3. CASE Replayer = {}
    BY <2>3 DEF PassInv
  <2> QED
    BY <2>2, <2>3
<1>4. RecInv /\ PassInv /\ [RecNext]_<<allVars, recVars>>
        => [\A r \in Replayer :
              \A x \in Elements(queue) \cup Elements(pass[r].items), y \in Elements(pass'[r].items) :
                 x.did = y.did /\ x.status \in Terminal => x.status = y.status]_allVars
  BY <1>3 DEF KeepsSettled
<1> QED
  BY <1>1, <1>3, <1>4, RecoveryInvariance, PTL DEF RecSpec, SettledStaysSettled

-----------------------------------------------------------------------------
(* When the queue loses nothing.  A pass is undisturbed if nothing is       *)
(* queued while it runs and it does not die between the truncation of the   *)
(* file and the write.                                                      *)
Undisturbed ==
    (\E r \in Replayer : pass[r].at # "none") =>
        made' = made /\ ~ \E r \in Replayer : pass[r].at = "write" /\ Die(r)

HasAll(s) == \A d \in 1 .. made : \E x \in Elements(s) : x.did = d
QueueInv  == \A r \in Replayer :
    /\ pass[r].at # "write" => HasAll(queue)
    /\ pass[r].at # "none"  => HasAll(pass[r].items)

LEMMA QueueComplete ==
    ASSUME RecInv, QueueInv, NEW r, Replayer = {r}, QueueMove, Undisturbed
    PROVE  QueueInv'
<1>1. /\ queue \in Seq(Record) /\ made \in Nat
      /\ pass \in [Replayer -> [at : {"none", "scan", "truncate", "write"},
                               items : Seq(Record), pos : Nat \ {0}]]
      /\ r \in Replayer
  BY DEF RecInv, RecTypeOK, DegTypeOK
<1>2. /\ pass[r].at # "write" => HasAll(queue)
      /\ pass[r].at # "none"  => HasAll(pass[r].items)
  BY <1>1 DEF QueueInv
<1>3. SUFFICES /\ pass'[r].at # "write" => HasAll(queue)'
               /\ pass'[r].at # "none"  => HasAll(pass[r].items)'
  BY DEF QueueInv
<1>4. CASE UNCHANGED degVars
  BY <1>2, <1>4 DEF degVars, HasAll
<1>5. ASSUME NEW payload \in Event \cup {NoEvent}, AppendRecord(payload), UNCHANGED pass
      PROVE  pass'[r].at = "none" /\ HasAll(queue)'
  <2> DEFINE z == [did |-> made + 1, ev |-> payload, status |-> "queued", attempts |-> 0]
  <2>1. queue' = Append(queue, z) /\ made' = made + 1 /\ z.did = made + 1
    BY <1>5 DEF AppendRecord
  <2>2. z \in Record
    BY <1>1, <1>5, RoleAssumption DEF Record, Candidate
  <2> HIDE DEF z
  <2>3. pass[r].at = "none" /\ HasAll(queue)
    BY <1>1, <1>2, <2>1 DEF Undisturbed
  <2>4. Elements(queue) \cup {z} \subseteq Elements(queue')
    <3>1. /\ Len(queue) \in Nat /\ DOMAIN queue = 1 .. Len(queue)
          /\ DOMAIN queue' = 1 .. Len(queue) + 1
          /\ \A j \in 1 .. Len(queue) : queue'[j] = queue[j]
          /\ queue'[Len(queue) + 1] = z
      BY <1>1, <2>1, <2>2
    <3> QED
      BY <3>1 DEF Elements
  <2>5. \A d \in 1 .. made' : d \in 1 .. made \/ d = made + 1
    BY <1>1, <2>1
  <2> QED
    BY <1>5, <2>1, <2>3, <2>4, <2>5 DEF HasAll
<1>6. CASE SkipItem(r) \/ GiveUpItem(r) \/ FailMissingPayload(r) \/ Replayed(r) \/ ReplayFailed(r)
  <2>1. PICK status \in Terminal \cup Candidate, attempts \in 0 .. MaxReplay :
            Settle(r, status, attempts)
    BY <1>1, <1>6, Settlements
  <2>2. pass[r].pos \in DOMAIN pass[r].items /\ UNCHANGED <<queue, made>>
    BY <1>1, <1>6, Settlements
  <2>3. pass[r].at = "scan"
    BY <1>1, <1>6 DEF RecInv, CallOfItem, SkipItem, GiveUpItem, FailMissingPayload, Scanning,
                      Replayed, ReplayFailed
  <2> DEFINE s   == pass[r].items
             new == [Item(r) EXCEPT !.status = status, !.attempts = attempts]
  <2>4. s \in Seq(Record) /\ pass'[r].items = [s EXCEPT ![pass[r].pos] = new]
    BY <1>1, <2>1 DEF Settle
  <2>5. new.did = s[pass[r].pos].did
    BY <2>2, <2>4 DEF Item, Record
  <2> HIDE DEF new
  <2>6. \A x \in Elements(s) : \E y \in Elements(pass'[r].items) : y.did = x.did
    <3> SUFFICES ASSUME NEW j \in DOMAIN s
                 PROVE  \E y \in Elements(pass'[r].items) : y.did = s[j].did
      BY DEF Elements
    <3>1. j \in DOMAIN pass'[r].items /\ pass'[r].items[j].did = s[j].did
      BY <2>2, <2>4, <2>5
    <3> QED
      BY <3>1 DEF Elements
  <2> QED
    BY <1>2, <2>2, <2>3, <2>6 DEF HasAll
<1>7. CASE StartPass(r)
  <2>1. pass[r].at = "none" /\ pass'[r].items = queue /\ UNCHANGED <<queue, made>>
    BY <1>1, <1>7 DEF StartPass
  <2> QED
    BY <1>2, <2>1 DEF HasAll
<1>8. CASE TruncateQueue(r)
  <2>1. /\ pass[r].at = "scan" /\ pass'[r].at = "write" /\ pass'[r].items = pass[r].items
        /\ made' = made
    BY <1>1, <1>8 DEF TruncateQueue, ScanDone
  <2> QED
    BY <1>2, <2>1 DEF HasAll
<1>9. CASE WriteQueue(r)
  <2>1. pass[r].at = "write" /\ pass'[r].at = "none" /\ made' = made
    BY <1>1, <1>9 DEF WriteQueue, NoPass
  <2>2. Elements(pass[r].items) \subseteq Elements(queue')
    BY <1>1, <1>9, Written DEF RecInv, RecTypeOK
  <2> QED
    BY <1>2, <2>1, <2>2 DEF HasAll
<1>10. CASE Die(r)
  <2>1. pass[r].at # "write"
    BY <1>1, <1>10 DEF Undisturbed
  <2>2. pass'[r].at = "none" /\ UNCHANGED <<queue, made>>
    BY <1>1, <1>10 DEF Die, NoPass
  <2> QED
    BY <1>2, <2>1, <2>2 DEF HasAll
<1> QED
  BY <1>1, <1>4, <1>5, <1>6, <1>7, <1>8, <1>9, <1>10 DEF QueueMove

(* With one replay process whose passes are undisturbed, every record that  *)
(* was ever queued is in the file but while a pass is rewriting it, for any *)
(* faults of the ingest and any number of emitters: the two conditions name *)
(* all that can lose a record.                                              *)
THEOREM RecordsStay ==
    ASSUME NEW r, Replayer = {r}
    PROVE  RecSpec /\ [][Undisturbed]_<<allVars, recVars>> => []RecordsKept
<1>1. RecInit => QueueInv
  BY DEF RecInit, DegInit, QueueInv, HasAll, NoPass
<1>2. RecInv /\ QueueInv /\ [RecNext]_<<allVars, recVars>> /\ [Undisturbed]_<<allVars, recVars>>
        => QueueInv'
  <2> SUFFICES ASSUME RecInv, QueueInv, [RecNext]_<<allVars, recVars>>,
                      [Undisturbed]_<<allVars, recVars>>
               PROVE  QueueInv'
    OBVIOUS
  <2>1. QueueMove
    BY Moves DEF RecInv
  <2>2. CASE Undisturbed
    BY <2>1, <2>2, QueueComplete
  <2>3. CASE UNCHANGED <<allVars, recVars>>
    BY <2>3 DEF QueueInv, HasAll, allVars, degVars
  <2> QED
    BY <2>2, <2>3
<1>3. RecInv /\ QueueInv => RecordsKept
  BY DEF QueueInv, HasAll, RecordsKept
<1> QED
  BY <1>1, <1>2, <1>3, RecoveryInvariance, PTL DEF RecSpec

-----------------------------------------------------------------------------
(* Why a record is given up.  An answer "invalid" is for an event that is   *)
(* not well-formed; an item of a well-formed event has been tried at most   *)
(* as often as there were faults, unless the disk is full, and the failure  *)
(* a replayer was just told of is one more than its item has counted.       *)
InvalidTrue  == \A c \in Caller : res[c] = "invalid" => ev[c] \notin WellFormed
CausedBy(x)  == x.ev \in WellFormed =>
    /\ x.status # "replayed" => x.attempts <= faults
    /\ x.status = "abandoned" => x.attempts >= MaxReplay
FailureFresh == \A r \in Replayer : res[r] = "exception" => Item(r).attempts < faults
CauseInv     == InvalidTrue /\ (DiskIsFull \/ ((\A x \in Everywhere : CausedBy(x)) /\ FailureFresh))

(* No step takes back a fault or a line of the log.                         *)
LEMMA FaultsStay ==
    ASSUME RecTypeOK, [RecNext]_<<allVars, recVars>>
    PROVE  faults' \in Nat /\ faults' >= faults /\ (DiskIsFull => DiskIsFull')
<1> USE RoleAssumption, BoundAssumption, EventAssumption DEF RecTypeOK, DegTypeOK, TypeOK
<1>1. LogMove
  BY Moves
<1>2. DiskIsFull => DiskIsFull'
  <2>1. log' = log \/ \E c \in Caller : AppendEvent(c)
    BY <1>1 DEF LogMove, Call, IngestStep, RejectInvalid, LoadIndex, TruncateIndex, WriteIndex,
              DiskFull, Raise, Forget
  <2>2. ASSUME NEW c \in Caller, AppendEvent(c) PROVE ~ DiskIsFull
    <3>1. Len(log) < MaxLines /\ Len(log) \in Nat
      BY <2>2 DEF AppendEvent
    <3> QED
      BY <3>1 DEF DiskIsFull
  <2> QED
    BY <2>1, <2>2 DEF DiskIsFull
<1>3. ASSUME NEW c \in Caller, IngestStep(c) PROVE faults' = faults \/ faults' = faults + 1
  BY <1>3 DEF IngestStep, RejectInvalid, LoadIndex, AppendEvent, TruncateIndex, WriteIndex,
              DiskFull, Raise
<1>4. ASSUME NEW c \in Caller, Die(c) PROVE faults' = faults + 1
  BY <1>4 DEF Die
<1>5. ASSUME DegStep PROVE faults' = faults \/ faults' = faults + 1
  <2>1. ASSUME NEW r \in Replayer,
               StartPass(r) \/ SkipItem(r) \/ GiveUpItem(r) \/ FailMissingPayload(r)
               \/ ReplayItem(r) \/ Replayed(r) \/ ReplayFailed(r) \/ TruncateQueue(r) \/ WriteQueue(r)
        PROVE  UNCHANGED faults
    BY <2>1 DEF StartPass, SkipItem, GiveUpItem, FailMissingPayload, ReplayItem, Call, Replayed,
                ReplayFailed, TruncateQueue, WriteQueue, vars
  <2>2. ASSUME NEW c \in Emitter, Emitted(c) PROVE UNCHANGED faults
    BY <2>2 DEF Emitted
  <2> QED
    BY <1>3, <1>4, <1>5, <2>1, <2>2 DEF DegStep
<1>6. ASSUME NEW c \in Emitter, Degrade(c) \/ DegradeFails(c) \/ AttemptUnsaved(c)
      PROVE  faults' = faults \/ faults' = faults + 1
  BY <1>6 DEF Degrade, DegradeFails, AttemptUnsaved
<1>7. ASSUME NEW c \in Emitter, NEW e, Emit(c, e) PROVE UNCHANGED faults
  BY <1>7 DEF Emit, Call
<1>8. ASSUME NEW e, QueueByTool(e) PROVE UNCHANGED faults
  BY <1>8 DEF QueueByTool, vars
<1>9. ASSUME UNCHANGED <<allVars, recVars>> PROVE UNCHANGED faults
  BY <1>9 DEF allVars, vars
<1>10. faults' = faults \/ faults' = faults + 1
  BY <1>5, <1>6, <1>7, <1>8, <1>9
     DEF RecNext, ReportFailure, RunAttempt, SaveAndQueue, SaveOrQueueFails
<1> QED
  BY <1>2, <1>10

(* Where the answers "invalid" and "exception" come from.                   *)
LEMMA BadAnswers ==
    ASSUME RecInv, [RecNext]_<<allVars, recVars>>, NEW c \in Caller
    PROVE  /\ res'[c] = "invalid" =>
                  (res[c] = "invalid" /\ ev'[c] = ev[c]) \/ ev'[c] \notin WellFormed
           /\ res'[c] = "exception" =>
                  \/ res[c] = "exception" /\ (c \in Replayer => pass'[c] = pass[c])
                  \/ pass' = pass /\ (Raise(c) \/ DiskFull(c))
<1> USE RoleAssumption
<1> DEFINE Good == /\ res'[c] = "invalid" =>
                          (res[c] = "invalid" /\ ev'[c] = ev[c]) \/ ev'[c] \notin WellFormed
                   /\ res'[c] = "exception" =>
                          \/ res[c] = "exception" /\ (c \in Replayer => pass'[c] = pass[c])
                          \/ pass' = pass /\ (Raise(c) \/ DiskFull(c))
<1>1. /\ at \in [Caller -> Phase] /\ ev \in [Caller -> Event \cup {NoEvent}]
      /\ res \in [Caller -> Status]
      /\ pass \in [Replayer -> [at : {"none", "scan", "truncate", "write"},
                               items : Seq(Record), pos : Nat \ {0}]]
      /\ res[c] # "none" => at[c] = "returned"
  BY DEF RecInv, RecTypeOK, DegTypeOK, TypeOK, SafetyInv
<1>2. ASSUME NEW d \in Caller, Forget(d), d = c \/ (c \in Replayer => pass'[c] = pass[c]) PROVE Good
  BY <1>1, <1>2 DEF Forget
<1>3. ASSUME UNCHANGED <<res, ev>>, res[c] = "none" \/ (c \in Replayer => pass'[c] = pass[c])
      PROVE  Good
  BY <1>3
<1>4. ASSUME NEW d \in Caller, NEW e, Call(d, e), UNCHANGED pass PROVE Good
  BY <1>1, <1>4 DEF Call
<1>5. ASSUME NEW d \in Caller, IngestStep(d), UNCHANGED pass PROVE Good
  <2>1. CASE d # c
    <3>1. res'[c] = res[c] /\ ev' = ev
      BY <1>1, <1>5, <2>1
         DEF IngestStep, RejectInvalid, LoadIndex, AppendEvent, TruncateIndex, WriteIndex,
             DiskFull, Raise, Answer
    <3> QED
      BY <1>5, <3>1
  <2>2. CASE d = c /\ (Raise(c) \/ DiskFull(c))
    BY <1>1, <1>5, <2>2 DEF Raise, DiskFull, Answer
  <2>3. CASE d = c /\ ~ (Raise(c) \/ DiskFull(c))
    BY <1>1, <1>5, <2>3
       DEF IngestStep, RejectInvalid, LoadIndex, AppendEvent, TruncateIndex, WriteIndex, Answer
  <2> QED
    BY <1>5, <2>1, <2>2, <2>3
<1>6. CASE DegStep
  <2>1. ASSUME NEW d \in Caller, Die(d) PROVE Good
    <3>1. c \in Replayer /\ c # d => pass'[c] = pass[c]
      BY <1>1, <2>1 DEF Die
    <3> QED
      BY <1>2, <2>1, <3>1 DEF Die
  <2>2. ASSUME NEW d \in Emitter, Emitted(d) PROVE Good
    BY <1>2, <2>2 DEF Emitted, degVars
  <2>3. ASSUME NEW r \in Replayer, SkipItem(r) \/ GiveUpItem(r) \/ FailMissingPayload(r)
        PROVE  Good
    <3>1. at[r] = "idle" /\ UNCHANGED vars
      BY <2>3 DEF SkipItem, GiveUpItem, FailMissingPayload, Scanning
    <3>2. \A q \in Replayer \ {r} : pass'[q] = pass[q]
      BY <1>1, <2>3, Settlements, Settled DEF RecInv, RecTypeOK
    <3> QED
      BY <1>1, <1>3, <3>1, <3>2 DEF vars, callVars
  <2>4. ASSUME NEW r \in Replayer, Replayed(r) \/ ReplayFailed(r) PROVE Good
    <3>1. Forget(r)
      BY <2>4 DEF Replayed, ReplayFailed
    <3>2. \A q \in Replayer \ {r} : pass'[q] = pass[q]
      BY <1>1, <2>4, Settlements, Settled DEF RecInv, RecTypeOK
    <3> QED
      BY <1>1, <1>2, <3>1, <3>2
  <2>5. ASSUME NEW r \in Replayer, StartPass(r) \/ TruncateQueue(r) \/ WriteQueue(r) PROVE Good
    <3>1. at[r] # "returned"
      BY <2>5 DEF RecInv, CallOfItem, StartPass, TruncateQueue, WriteQueue, ScanDone
    <3>2. UNCHANGED vars /\ \A q \in Replayer \ {r} : pass'[q] = pass[q]
      BY <1>1, <2>5 DEF StartPass, TruncateQueue, WriteQueue
    <3> QED
      BY <1>1, <1>3, <3>1, <3>2 DEF vars, callVars
  <2>6. ASSUME NEW r \in Replayer, ReplayItem(r) PROVE Good
    BY <1>4, <2>6 DEF ReplayItem, degVars
  <2> QED
    BY <1>5, <1>6, <2>1, <2>2, <2>3, <2>4, <2>5, <2>6 DEF DegStep, degVars
<1>7. ASSUME NEW d \in Emitter, NEW e, Emit(d, e) PROVE Good
  BY <1>4, <1>7 DEF Emit, degVars
<1>8. ASSUME NEW d \in Emitter, Degrade(d) \/ DegradeFails(d) PROVE Good
  BY <1>2, <1>8 DEF Degrade, DegradeFails, degVars
<1>9. CASE UNCHANGED <<res, ev, pass>>
  BY <1>3, <1>9
<1>10. Good
  BY <1>6, <1>7, <1>8, <1>9
     DEF RecNext, ReportFailure, RunAttempt, SaveAndQueue, SaveOrQueueFails, AttemptUnsaved,
         QueueByTool, allVars, vars, callVars, degVars
<1> QED
  BY <1>10

(* A fault or a full disk only makes the reasons better.                    *)
LEMMA CauseStays ==
    ASSUME RecTypeOK, [RecNext]_<<allVars, recVars>>,
           NEW x, x.attempts \in Nat, CausedBy(x)
    PROVE  CausedBy(x)'
BY FaultsStay DEF CausedBy, RecTypeOK, DegTypeOK, TypeOK

(* What a settled item has counted is covered: by the failure just told, or *)
(* by the reasons it had before.                                            *)
LEMMA SettledForCause ==
    ASSUME RecInv, InvalidTrue, FailureFresh, \A x \in Everywhere : CausedBy(x),
           NEW r \in Replayer,
           SkipItem(r) \/ GiveUpItem(r) \/ FailMissingPayload(r) \/ Replayed(r) \/ ReplayFailed(r)
    PROVE  /\ faults' = faults
           /\ \E status \in Terminal \cup Candidate, attempts \in 0 .. MaxReplay :
                 /\ Settle(r, status, attempts)
                 /\ CausedBy([Item(r) EXCEPT !.status = status, !.attempts = attempts])
<1> DEFINE new(status, attempts) == [Item(r) EXCEPT !.status = status, !.attempts = attempts]
<1>1. pass[r].pos \in DOMAIN pass[r].items
  BY Settlements
<1>2. Item(r) \in Record /\ Item(r) \in Everywhere
  BY <1>1 DEF RecInv, RecTypeOK, DegTypeOK, Item, Everywhere, Elements
<1>3. \A status, attempts : /\ new(status, attempts).status = status
                            /\ new(status, attempts).attempts = attempts
                            /\ new(status, attempts).ev = Item(r).ev
  BY <1>2 DEF Record
<1>4. /\ Item(r).attempts \in 0 .. MaxReplay /\ Item(r).status \in Terminal \cup Candidate
      /\ MaxReplay \in Nat /\ faults \in Nat /\ CausedBy(Item(r))
  BY <1>2, RoleAssumption DEF Record, RecInv, RecTypeOK, DegTypeOK, TypeOK
<1> HIDE DEF new
<1>5. faults' = faults
  BY DEF SkipItem, GiveUpItem, FailMissingPayload, Replayed, ReplayFailed, vars
<1>6. ASSUME SkipItem(r) PROVE \E status \in Terminal \cup Candidate, attempts \in 0 .. MaxReplay :
          Settle(r, status, attempts) /\ CausedBy(new(status, attempts))
  <2>1. CausedBy(new(Item(r).status, Item(r).attempts))
    BY <1>3, <1>4 DEF CausedBy
  <2> QED
    BY <1>4, <1>6, <2>1 DEF SkipItem
<1>7. ASSUME GiveUpItem(r) PROVE \E status \in Terminal \cup Candidate, attempts \in 0 .. MaxReplay :
          Settle(r, status, attempts) /\ CausedBy(new(status, attempts))
  <2>1. CausedBy(new("abandoned", Item(r).attempts))
    <3>1. Item(r).status # "replayed" /\ Item(r).attempts >= MaxReplay
      BY <1>7 DEF GiveUpItem, Candidate
    <3> QED
      BY <1>3, <1>4, <3>1 DEF CausedBy
  <2> QED
    BY <1>4, <1>7, <2>1 DEF GiveUpItem, Terminal
<1>8. ASSUME FailMissingPayload(r)
      PROVE  \E status \in Terminal \cup Candidate, attempts \in 0 .. MaxReplay :
          Settle(r, status, attempts) /\ CausedBy(new(status, attempts))
  <2>1. CausedBy(new("replay_failed", Item(r).attempts + 1))
    BY <1>3, <1>8, EventAssumption DEF CausedBy, FailMissingPayload
  <2>2. Item(r).attempts + 1 \in 0 .. MaxReplay
    BY <1>4, <1>8 DEF FailMissingPayload
  <2> QED
    BY <1>8, <2>1, <2>2 DEF FailMissingPayload, Candidate
<1>9. ASSUME Replayed(r) \/ ReplayFailed(r)
      PROVE  Item(r).attempts + 1 \in 0 .. MaxReplay /\ Item(r).ev = ev[r]
  BY <1>4, <1>9 DEF Replayed, ReplayFailed, RecInv, CallOfItem
<1>10. ASSUME Replayed(r) PROVE \E status \in Terminal \cup Candidate, attempts \in 0 .. MaxReplay :
          Settle(r, status, attempts) /\ CausedBy(new(status, attempts))
  <2>1. CausedBy(new("replayed", Item(r).attempts + 1))
    BY <1>3 DEF CausedBy
  <2> QED
    BY <1>9, <1>10, <2>1 DEF Replayed, Terminal
<1>11. ASSUME ReplayFailed(r) PROVE \E status \in Terminal \cup Candidate, attempts \in 0 .. MaxReplay :
          Settle(r, status, attempts) /\ CausedBy(new(status, attempts))
  <2> DEFINE status == IF Item(r).attempts + 1 >= MaxReplay THEN "abandoned" ELSE "replay_failed"
  <2>1. CASE res[r] = "invalid"
    <3>1. Item(r).ev \notin WellFormed
      BY <1>9, <1>11, <2>1, RoleAssumption DEF InvalidTrue
    <3> QED
      BY <1>3, <1>9, <1>11, <3>1 DEF CausedBy, ReplayFailed, Terminal, Candidate
  <2>2. CASE res[r] = "exception"
    <3>1. Item(r).attempts + 1 <= faults
      BY <1>4, <2>2 DEF FailureFresh
    <3>2. CausedBy(new(status, Item(r).attempts + 1))
      BY <1>3, <3>1 DEF CausedBy
    <3> QED
      BY <1>9, <1>11, <3>2 DEF ReplayFailed, Terminal, Candidate
  <2> QED
    BY <1>11, <2>1, <2>2 DEF ReplayFailed
<1> QED
  BY <1>5, <1>6, <1>7, <1>8, <1>10, <1>11 DEF new

(* Every step keeps the reasons, those of the items among them.             *)
LEMMA CauseKept ==
    ASSUME RecInv, CauseInv, [RecNext]_<<allVars, recVars>>
    PROVE  CauseInv'
<1> USE RoleAssumption
<1>1. RecTypeOK /\ DegTypeOK /\ TypeOK /\ CallOfItem /\ InvalidTrue
  BY DEF RecInv, RecTypeOK, DegTypeOK, CauseInv
<1>2. /\ faults' \in Nat /\ faults \in Nat /\ faults' >= faults
      /\ DiskIsFull => DiskIsFull'
  BY <1>1, FaultsStay DEF TypeOK
<1>3. InvalidTrue'
  BY <1>1, BadAnswers DEF InvalidTrue
<1>4. CASE DiskIsFull'
  BY <1>3, <1>4 DEF CauseInv
<1>5. CASE ~ DiskIsFull'
  <2>1. FailureFresh /\ (\A x \in Everywhere : CausedBy(x)) /\ ~ DiskIsFull
    BY <1>2, <1>5 DEF CauseInv
  <2>2. \A x \in Everywhere : x \in Record /\ x.attempts \in Nat
    <3>1. \A x \in Everywhere : x \in Record
      BY <1>1 DEF DegTypeOK, Everywhere, Elements
    <3> QED
      BY <3>1 DEF Record
  <2>3. \A x \in Everywhere : CausedBy(x)'
    BY <1>1, <2>1, <2>2, CauseStays
  <2>4. FailureFresh'
    <3> SUFFICES ASSUME NEW r \in Replayer, res'[r] = "exception"
                 PROVE  Item(r)'.attempts < faults'
      BY DEF FailureFresh
    <3>1. CASE res[r] = "exception" /\ pass'[r] = pass[r]
      <4>1. at[r] = "returned"
        BY <3>1 DEF RecInv, SafetyInv
      <4>2. Item(r)' = Item(r) /\ Item(r) \in Everywhere
        BY <1>1, <3>1, <4>1 DEF CallOfItem, Item, Everywhere, Elements
      <4> QED
        BY <1>2, <2>1, <2>2, <3>1, <4>2 DEF FailureFresh
    <3>2. CASE pass' = pass /\ (Raise(r) \/ DiskFull(r))
      <4>1. ~ DiskFull(r)
        BY <2>1 DEF DiskFull, DiskIsFull
      <4>2. faults' = faults + 1 /\ at[r] \in {"append", "truncate", "write"}
        BY <3>2, <4>1 DEF Raise
      <4>3. Item(r)' = Item(r) /\ Item(r) \in Everywhere /\ Item(r).status # "replayed"
            /\ Item(r).ev \in WellFormed
        <5>1. pass[r].pos \in DOMAIN pass[r].items /\ Item(r).ev = ev[r]
              /\ Item(r).status \in Candidate
          BY <1>1, <4>2 DEF CallOfItem
        <5>2. ev[r] \in WellFormed
          BY <1>1, <4>2 DEF TypeOK
        <5> QED
          BY <3>2, <5>1, <5>2 DEF Item, Everywhere, Elements, Candidate
      <4>4. Item(r).attempts <= faults /\ Item(r).attempts \in Nat
        BY <2>1, <2>2, <4>3 DEF CausedBy
      <4> QED
        BY <1>2, <4>2, <4>3, <4>4
    <3> QED
      BY <3>1, <3>2, BadAnswers
  <2>5. ASSUME NEW y \in Everywhere' PROVE CausedBy(y)'
    <3>1. LogMove /\ QueueMove
      BY <1>1, Moves
    <3>2. ASSUME y \in Everywhere PROVE CausedBy(y)'
      BY <2>3, <3>2
    <3>3. CASE UNCHANGED degVars
      BY <2>5, <3>2, <3>3 DEF degVars, Everywhere
    <3>4. ASSUME NEW payload \in Event \cup {NoEvent}, AppendRecord(payload), UNCHANGED pass
          PROVE  CausedBy(y)'
      <4>1. PICK x : x = [did |-> made + 1, ev |-> payload, status |-> "queued", attempts |-> 0]
        OBVIOUS
      <4>2. x \in Record /\ x.attempts = 0 /\ x.status = "queued"
        BY <1>1, <4>1 DEF Record, Candidate, DegTypeOK
      <4>3. Elements(queue') \subseteq Elements(queue) \cup {x}
        <5>1. queue' = Append(queue, x)
          BY <3>4, <4>1 DEF AppendRecord
        <5> QED
          BY <1>1, <4>2, <5>1 DEF Elements, DegTypeOK
      <4>4. CausedBy(x)'
        BY <1>2, <4>2 DEF CausedBy
      <4> QED
        BY <2>5, <3>2, <3>4, <4>3, <4>4 DEF Everywhere
    <3>5. ASSUME NEW r \in Replayer,
                 SkipItem(r) \/ GiveUpItem(r) \/ FailMissingPayload(r) \/ Replayed(r) \/ ReplayFailed(r)
          PROVE  CausedBy(y)'
      <4>1. PICK status \in Terminal \cup Candidate, attempts \in 0 .. MaxReplay :
                /\ Settle(r, status, attempts)
                /\ CausedBy([Item(r) EXCEPT !.status = status, !.attempts = attempts])
        BY <1>1, <2>1, <3>5, SettledForCause
      <4>x. PICK x : x = [Item(r) EXCEPT !.status = status, !.attempts = attempts]
        OBVIOUS
      <4>2. pass[r].pos \in DOMAIN pass[r].items /\ UNCHANGED queue /\ faults' = faults
        BY <1>1, <2>1, <3>5, Settlements, SettledForCause
      <4>3. /\ Elements(pass'[r].items) \subseteq Elements(pass[r].items) \cup {x}
            /\ \A q \in Replayer \ {r} : pass'[q] = pass[q]
        BY <1>1, <4>1, <4>2, <4>x, Settled
      <4>4. CausedBy(x)'
        BY <4>1, <4>2, <4>x DEF CausedBy
      <4>5. Everywhere' \subseteq Everywhere \cup {x}
        BY <4>2, <4>3 DEF Everywhere
      <4> QED
        BY <2>5, <3>2, <4>4, <4>5
    <3>6. ASSUME NEW r \in Replayer, StartPass(r) \/ TruncateQueue(r) \/ WriteQueue(r) \/ Die(r)
          PROVE  CausedBy(y)'
      <4>1. pass \in [Replayer -> [at : {"none", "scan", "truncate", "write"},
                                   items : Seq(Record), pos : Nat \ {0}]]
        BY <1>1 DEF DegTypeOK
      <4>2. \A q \in Replayer : pass'[q].items \in {pass[q].items, queue, <<>>}
        <5>1. CASE WriteQueue(r)
          BY <4>1, <5>1 DEF WriteQueue, NoPass
        <5>2. CASE StartPass(r) \/ TruncateQueue(r) \/ Die(r)
          BY <4>1, <5>2 DEF StartPass, TruncateQueue, Die, NoPass
        <5> QED
          BY <3>6, <5>1, <5>2
      <4>3. Elements(<<>>) = {}
        BY DEF Elements
      <4>4. Elements(queue') \subseteq Elements(queue) \cup Elements(pass[r].items)
        <5>1. CASE WriteQueue(r)
          BY <1>1, <5>1, Written
        <5>2. CASE StartPass(r) \/ TruncateQueue(r) \/ Die(r)
          BY <4>3, <5>2 DEF StartPass, TruncateQueue, Die
        <5> QED
          BY <3>6, <5>1, <5>2
      <4>5. Everywhere' \subseteq Everywhere
        BY <4>2, <4>3, <4>4 DEF Everywhere
      <4> QED
        BY <2>5, <3>2, <4>5
    <3> QED
      BY <3>1, <3>3, <3>4, <3>5, <3>6 DEF QueueMove
  <2> QED
    BY <1>3, <2>4, <2>5 DEF CauseInv
<1> QED
  BY <1>4, <1>5

(* A well-formed event is given up only after max_replay_attempts faults,   *)
(* unless the disk is full.                                                 *)
THEOREM GivenUpForCause == RecSpec => []AbandonedForCause
<1>1. RecInit => CauseInv
  <2> SUFFICES ASSUME RecInit PROVE CauseInv
    OBVIOUS
  <2>1. /\ \A c \in Caller : res[c] = "none"
        /\ queue = <<>> /\ \A r \in Replayer : res[r] = "none" /\ pass[r].items = <<>>
    BY RoleAssumption DEF RecInit, DegInit, Init, NoPass
  <2>2. Everywhere = {}
    BY <2>1 DEF Everywhere, Elements
  <2> QED
    BY <2>1, <2>2 DEF CauseInv, InvalidTrue, FailureFresh
<1>2. RecInv /\ CauseInv /\ [RecNext]_<<allVars, recVars>> => CauseInv'
  BY CauseKept
<1>3. RecInv /\ CauseInv => AbandonedForCause
  <2> SUFFICES ASSUME RecInv, CauseInv, NEW x \in Everywhere,
                      x.status = "abandoned", x.ev \in WellFormed, ~ DiskIsFull
               PROVE  faults >= MaxReplay
    BY DEF AbandonedForCause
  <2>1. x \in Record
    BY DEF RecInv, RecTypeOK, DegTypeOK, Everywhere, Elements
  <2>2. x.attempts <= faults /\ x.attempts >= MaxReplay
    BY DEF CauseInv, CausedBy
  <2>3. x.attempts \in Nat /\ faults \in Nat /\ MaxReplay \in Nat
    BY <2>1, RoleAssumption DEF Record, RecInv, RecTypeOK, DegTypeOK, TypeOK
  <2> QED
    BY <2>2, <2>3
<1> QED
  BY <1>1, <1>2, <1>3, RecoveryInvariance, PTL DEF RecSpec

-----------------------------------------------------------------------------
(* What the snapshot says of the log and of the files.                      *)

LEMMA FilesListed ==
    LET of(kind, result) == \E i \in DOMAIN Files : Files[i].kind = kind /\ Files[i].result = result
    IN  /\ IsFiniteSet(DOMAIN Files)
        /\ attempt # NoAttempt => of("runtime_recovery_attempt", attempt.result)
        /\ degradation = TRUE => of("runtime_event_log_degradation", "queued")
<1> DEFINE a == [kind |-> "runtime_recovery_attempt", result |-> attempt.result, scope |-> "operator"]
           d == [kind |-> "runtime_event_log_degradation", result |-> "queued", scope |-> "operator"]
           s == IF attempt = NoAttempt THEN <<>> ELSE <<a>>
           t == IF degradation THEN <<d>> ELSE <<>>
<1>1. Files = s \o t
  BY DEF Files
<1>2. /\ a.kind = "runtime_recovery_attempt" /\ a.result = attempt.result
      /\ d.kind = "runtime_event_log_degradation" /\ d.result = "queued"
  OBVIOUS
<1> HIDE DEF a, d
<1>3. s \in Seq({a, d}) /\ (attempt # NoAttempt => Len(s) = 1 /\ s[1] = a)
  <2>1. CASE attempt = NoAttempt
    BY <2>1
  <2>2. CASE attempt # NoAttempt
    BY <2>2
  <2> QED
    BY <2>1, <2>2
<1>4. t \in Seq({a, d}) /\ (degradation = TRUE => Len(t) = 1 /\ t[1] = d)
  <2>1. CASE degradation
    BY <2>1
  <2>2. CASE ~ degradation
    BY <2>2
  <2> QED
    BY <2>1, <2>2
<1> HIDE DEF s, t
<1>5. /\ DOMAIN Files = 1 .. Len(s) + Len(t) /\ Len(s) \in Nat /\ Len(t) \in Nat
      /\ \A i \in 1 .. Len(s) : Files[i] = s[i]
      /\ \A i \in 1 .. Len(t) : Files[Len(s) + i] = t[i]
  BY <1>1, <1>3, <1>4
<1>6. IsFiniteSet(DOMAIN Files)
  <2>1. 1 \in Int /\ Len(s) + Len(t) \in Int
    BY <1>5
  <2> QED
    BY <1>5, <2>1, FS_Interval
<1>7. ASSUME attempt # NoAttempt PROVE 1 \in DOMAIN Files /\ Files[1] = a
  <2>1. 1 \in 1 .. Len(s) /\ s[1] = a
    BY <1>3, <1>7
  <2> QED
    BY <1>5, <2>1
<1>8. ASSUME degradation = TRUE
      PROVE  Len(s) + 1 \in DOMAIN Files /\ Files[Len(s) + 1] = d
  <2>1. 1 \in 1 .. Len(t) /\ t[1] = d
    BY <1>4, <1>8
  <2> QED
    BY <1>5, <2>1
<1> QED
  BY <1>2, <1>6, <1>7, <1>8

(* However often an event is in the log, every snapshot counts it once.     *)
THEOREM EventsCountedOnce == RecSpec => []CountedOnce
<1>1. ASSUME RecInv PROVE CountedOnce
  <2>1. log \in Seq(Event) /\ Len(log) \in Nat /\ DOMAIN log = 1 .. Len(log)
    <3>1. log \in Seq(WellFormed)
      BY <1>1 DEF RecInv, RecTypeOK, DegTypeOK, TypeOK
    <3> QED
      BY <3>1, EventAssumption
  <2> SUFFICES ASSUME NEW fallback \in BOOLEAN
               PROVE  LET s == Snapshot(log, Files, fallback)
                          m == s.metrics
                          q == Quality(m)
                      IN  /\ \A kind \in {"runtime_failure", "runtime_recovery_attempt"} :
                                Reported(kind) # {} =>
                                   m[<<kind, "total">>] = Cardinality(Reported(kind))
                          /\ \A k \in Counter : m[k] = OverScopes(s.by_scope, k)
                          /\ \A rate \in DOMAIN q : q[rate][1] <= q[rate][2]
    BY DEF CountedOnce
  <2>2. ASSUME NEW kind \in {"runtime_failure", "runtime_recovery_attempt"}, Reported(kind) # {}
        PROVE  Snapshot(log, Files, fallback).metrics[<<kind, "total">>] = Cardinality(Reported(kind))
    <3> DEFINE of == OfKind(log, kind)
    <3>1. Reported(kind) = {log[i].id : i \in of}
      BY <2>1 DEF Reported, OfKind
    <3>2. of # {}
      BY <2>2, <3>1
    <3>3. <<kind, "total">> \in Counter
      BY DEF Counter
    <3>4. ASSUME NEW i \in of, NEW j \in 1 .. Len(log)
          PROVE  Marks(log[i]) \cap Marks(log[j]) # {} <=> j \in of /\ log[i].id = log[j].id
      <4>1. log[i] \in Event /\ log[j] \in Event /\ log[i].kind = kind
        BY <2>1 DEF OfKind
      <4>2. j \in of <=> log[j].kind = kind
        BY DEF OfKind
      <4> QED
        BY <4>1, <4>2, IdentityAssumption
    <3>5. ToldById(log, kind)
      BY <3>4 DEF ToldById
    <3>6. Snapshot(log, Files, fallback).metrics[<<kind, "total">>]
            = Cardinality({log[i].id : i \in of})
      BY <2>1, <3>2, <3>3, <3>5, TotalsCountIds
    <3> QED
      BY <3>1, <3>6
  <2> QED
    BY <2>1, <2>2, FilesListed, CountersAddUp, RatesAreRatios
<1> QED
  BY <1>1, RecoveryInvariance, PTL

(* Attempts and degradations whose artifacts can be read are never all      *)
(* missing from a snapshot that may look at the files, and an attempt is    *)
(* counted with its result while the log has none.                          *)
THEOREM RecoveryNotAllMissing == RecSpec => []NotAllMissing
<1>1. ASSUME RecInv PROVE NotAllMissing
  <2>1. log \in Seq(Event) /\ Len(log) \in Nat /\ DOMAIN log = 1 .. Len(log)
    <3>1. log \in Seq(WellFormed)
      BY <1>1 DEF RecInv, RecTypeOK, DegTypeOK, TypeOK
    <3> QED
      BY <3>1, EventAssumption
  <2> DEFINE m      == Snapshot(log, Files, TRUE).metrics
             src(k) == Source(log, Files, TRUE, k)
  <2>2. ASSUME NEW k \in Counter, NEW i \in DOMAIN src(k), Raises(src(k)[i], k) PROVE m[k] > 0
    <3>1. m[k] = Tally(src(k), k) /\ IsFiniteSet(DOMAIN src(k))
      BY <2>1, FilesListed, SnapshotOfSource
    <3> QED
      BY <2>2, <3>1, TallyCounts
  <2>3. ASSUME NEW k \in Counter, k[1] \in RecoveryCategory,
               \A i \in DOMAIN Kept(log) : Kept(log)[i].kind # k[1],
               NEW i \in DOMAIN Files, Raises(Files[i], k)
        PROVE  m[k] > 0
    <3>1. Tally(Files, k) > 0
      BY <2>3, FilesListed, TallyCounts
    <3>2. src(k) = Files
      BY <2>3, <3>1 DEF Source, Supplemented
    <3> QED
      BY <2>2, <2>3, <3>2
  <2>4. ASSUME attempt # NoAttempt PROVE m[<<"runtime_recovery_attempt", "total">>] > 0
    <3> DEFINE k == <<"runtime_recovery_attempt", "total">>
    <3>1. k \in Counter /\ k[1] \in RecoveryCategory
      BY DEF Counter, RecoveryCategory
    <3>2. CASE \E i \in DOMAIN Kept(log) : Kept(log)[i].kind = k[1]
      <4>1. src(k) = Kept(log)
        BY <3>2 DEF Source, Supplemented
      <4>2. \E i \in DOMAIN src(k) : Raises(src(k)[i], k)
        BY <3>2, <4>1 DEF Raises
      <4> QED
        BY <2>2, <3>1, <4>2
    <3>3. CASE \A i \in DOMAIN Kept(log) : Kept(log)[i].kind # k[1]
      <4>1. \E i \in DOMAIN Files : Raises(Files[i], k)
        BY <2>4, FilesListed DEF Raises
      <4> QED
        BY <2>3, <3>1, <3>3, <4>1
    <3> QED
      BY <3>2, <3>3
  <2>5. ASSUME degradation = TRUE PROVE m[<<"runtime_event_log_degradation", "queued">>] > 0
    <3> DEFINE k == <<"runtime_event_log_degradation", "queued">>
    <3>1. k \in Counter /\ k[1] \in RecoveryCategory
      BY DEF Counter, RecoveryCategory, QueueStatus
    <3>2. \A i \in DOMAIN Kept(log) : Kept(log)[i].kind # k[1]
      BY <2>1, KeptLines, KindAssumption
    <3>3. \E i \in DOMAIN Files : Raises(Files[i], k)
      BY <2>5, FilesListed DEF Raises
    <3> QED
      BY <2>3, <3>1, <3>2, <3>3
  <2>6. degradation \in BOOLEAN /\ attempt \in Attempts \cup {NoAttempt}
    BY <1>1 DEF RecInv, RecTypeOK
  <2>7. ASSUME attempt # NoAttempt, Reported("runtime_recovery_attempt") = {}
        PROVE  m[<<"runtime_recovery_attempt", attempt.result>>] > 0
    <3> DEFINE k == <<"runtime_recovery_attempt", attempt.result>>
    <3>1. attempt.result \in AttemptOutcome
      BY <2>6, <2>7 DEF Attempts, Attempt, AttemptResult, AttemptOutcome
    <3>2. k \in Counter /\ k[1] \in RecoveryCategory /\ k[2] = attempt.result
      BY <3>1 DEF Counter, RecoveryCategory
    <3>3. \A i \in DOMAIN log : log[i].kind # k[1]
      BY <2>7 DEF Reported
    <3>4. \A i \in DOMAIN Kept(log) : Kept(log)[i].kind # k[1]
      BY <2>1, <3>3, KeptLines
    <3>5. \E i \in DOMAIN Files : Raises(Files[i], k)
      BY <2>7, <3>2, FilesListed DEF Raises
    <3> QED
      BY <2>3, <3>2, <3>4, <3>5
  <2> QED
    BY <2>4, <2>5, <2>6, <2>7 DEF NotAllMissing
<1> QED
  BY <1>1, RecoveryInvariance, PTL
=============================================================================
