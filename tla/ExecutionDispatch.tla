-------------------------- MODULE ExecutionDispatch --------------------------
(***************************************************************************)
(* Owner-confirmed execution dispatch: the trigger check, the gate on the  *)
(* handoff, the brief, the adapter's prompt and ready files, the runner    *)
(* that starts a process and looks at it after a second, and the three     *)
(* result files (owner_confirmed_execution_dispatch.py,                    *)
(* execution_handoff_gate.py, execution_dispatch_adapter.py,               *)
(* codex_dispatch_runner.py in its spawn mode).                            *)
(*                                                                         *)
(* All files are shared by all dispatches. The handoff is edited by the    *)
(* council at any time, a write may raise, a dispatcher may die, and a     *)
(* started process outlives both.                                          *)
(***************************************************************************)
EXTENDS Naturals, FiniteSets

CONSTANTS
  Crews,         \* the sets of threads that may handle triggers
  Faults,        \* the steps at which an exception may be raised
  MaxExec,       \* triggers in a behaviour
  MaxVersion,    \* contents of the handoff
  MaxCrashes

Files == {"result", "runtime", "receipt"}
\* The steps inside the function's two try blocks. A raise at "load" escapes it,
\* one at "poll" is turned into a failure by the runner.
Guarded == {"brief", "prompt", "ready", "spawn", "record"}

ASSUME DispatchAssumption ==
  /\ Crews # {} /\ \A c \in Crews : IsFiniteSet(c)
  /\ Faults \subseteq Guarded \cup {"load", "poll"}
  /\ {MaxExec, MaxVersion, MaxCrashes} \subseteq Nat

VARIABLES
  crew,        \* the dispatchers of this behaviour
  handoff,     \* the handoff artifact: version, does it pass the gate, has it ids
  approved,    \* the versions that passed the gate at some time
  triggered,   \* executions so far, numbered in the order of their triggers
  authorized,  \* executions whose trigger, lane and stage were in order
  job,         \* dispatch_owner_confirmed_execution in progress, per dispatcher
  brief, prompt,   \* version in council_execution_brief.json and in the prompt file
  dispatchReady,   \* the ready file: are request, brief and handoff ids there
  files,           \* the three result files: execution and status
  procs,           \* the processes started, by execution: the version in the prompt,
                   \* that of the handoff, does it run, did its dispatch raise after
                   \* the start
  died             \* executions whose dispatcher died on the way

vars == <<crew, handoff, approved, triggered, authorized, job, brief, prompt,
          dispatchReady, files, procs, died>>

Dispatchers == UNION Crews
Handoff == [version : 1 .. MaxVersion, ready : BOOLEAN, ids : BOOLEAN]
NoEntry == [exec |-> 0, status |-> "none"]
IdleJob == [at |-> "idle", exec |-> 0, version |-> 0, ids |-> FALSE, status |-> "none"]

Init ==
  /\ crew \in Crews
  /\ handoff \in {h \in Handoff : h.version = 1}
  /\ approved = IF handoff.ready THEN {1} ELSE {}
  /\ triggered = 0 /\ authorized = {}
  /\ job = [d \in Dispatchers |-> IdleJob]
  /\ brief = 0 /\ prompt = 0 /\ dispatchReady = FALSE
  /\ files = [f \in Files |-> NoEntry]
  /\ procs = <<>>
  /\ died = {}

-----------------------------------------------------------------------------
\* The council or the owner rewrites the handoff: an approval, a withdrawal, new content.
Revise ==
  /\ handoff.version < MaxVersion
  /\ \E r, i \in BOOLEAN :
       /\ handoff' = [version |-> handoff.version + 1, ready |-> r, ids |-> i]
       /\ approved' = IF r THEN approved \cup {handoff'.version} ELSE approved
  /\ UNCHANGED <<crew, triggered, authorized, job, brief, prompt, dispatchReady,
                 files, procs, died>>

\* A trigger from a lane, at a stage or of a source that does not count is blocked.
Trigger(d) ==
  /\ d \in crew
  /\ job[d].at = "idle"
  /\ triggered < MaxExec
  /\ triggered' = triggered + 1
  /\ \E ok \in BOOLEAN :
       /\ authorized' = IF ok THEN authorized \cup {triggered'} ELSE authorized
       /\ job' = [job EXCEPT ![d] =
                    [IdleJob EXCEPT !.exec = triggered',
                                    !.at = IF ok THEN "load" ELSE "result",
                                    !.status = IF ok THEN "none" ELSE "blocked"]]
  /\ UNCHANGED <<crew, handoff, approved, brief, prompt, dispatchReady,
                 files, procs, died>>

\* Mutant of LoadAndGate: only the trigger is checked.
LoadUngated(d) ==
  /\ job[d].at = "load"
  /\ job' = [job EXCEPT ![d] =
               [@ EXCEPT !.at = "brief", !.version = handoff.version, !.ids = handoff.ids]]
  /\ UNCHANGED <<crew, handoff, approved, triggered, authorized, brief, prompt,
                 dispatchReady, files, procs, died>>

\* The handoff is read once; the gate looks at that copy.
LoadAndGate(d) ==
  /\ job[d].at = "load"
  /\ job' = [job EXCEPT ![d] =
               IF handoff.ready
               THEN [@ EXCEPT !.at = "brief", !.version = handoff.version, !.ids = handoff.ids]
               ELSE [@ EXCEPT !.at = "result", !.status = "blocked"]]
  /\ UNCHANGED <<crew, handoff, approved, triggered, authorized, brief, prompt,
                 dispatchReady, files, procs, died>>

\* The handoff cannot be read: the exception leaves the function, no file is written.
LoadRaises(d) ==
  /\ job[d].at = "load" /\ "load" \in Faults
  /\ job' = [job EXCEPT ![d] = IdleJob]
  /\ UNCHANGED <<crew, handoff, approved, triggered, authorized, brief, prompt,
                 dispatchReady, files, procs, died>>

WriteBrief(d) ==
  /\ job[d].at = "brief"
  /\ brief' = job[d].version
  /\ job' = [job EXCEPT ![d].at = "prompt"]
  /\ UNCHANGED <<crew, handoff, approved, triggered, authorized, prompt,
                 dispatchReady, files, procs, died>>

-----------------------------------------------------------------------------
(* The adapter and the runner.                                             *)

\* Mutant of WritePrompt: a prompt file that is there is kept.
WritePromptOnce(d) ==
  /\ job[d].at = "prompt"
  /\ prompt' = IF prompt = 0 THEN job[d].version ELSE prompt
  /\ job' = [job EXCEPT ![d].at = "ready"]
  /\ UNCHANGED <<crew, handoff, approved, triggered, authorized, brief,
                 dispatchReady, files, procs, died>>

WritePrompt(d) ==
  /\ job[d].at = "prompt"
  /\ prompt' = job[d].version
  /\ job' = [job EXCEPT ![d].at = "ready"]
  /\ UNCHANGED <<crew, handoff, approved, triggered, authorized, brief,
                 dispatchReady, files, procs, died>>

WriteDispatchReady(d) ==
  /\ job[d].at = "ready"
  /\ dispatchReady' = job[d].ids
  /\ job' = [job EXCEPT ![d].at = "spawn"]
  /\ UNCHANGED <<crew, handoff, approved, triggered, authorized, brief, prompt,
                 files, procs, died>>

\* build_dispatch_receipt reads both files back. Without ids it starts nothing;
\* a command that does not start is a failure.
Spawn(d) ==
  /\ job[d].at = "spawn"
  /\ \/ /\ ~ dispatchReady
        /\ job' = [job EXCEPT ![d].at = "record", ![d].status = "blocked"]
        /\ UNCHANGED procs
     \/ /\ dispatchReady
        /\ job' = [job EXCEPT ![d].at = "record", ![d].status = "failed"]
        /\ UNCHANGED procs
     \/ /\ dispatchReady
        /\ job' = [job EXCEPT ![d].at = "poll"]
        /\ procs' = [x \in DOMAIN procs \cup {job[d].exec} |->
                       IF x \in DOMAIN procs THEN procs[x]
                       ELSE [runs |-> prompt, handoff |-> job[d].version,
                             alive |-> TRUE, raised |-> FALSE]]
  /\ UNCHANGED <<crew, handoff, approved, triggered, authorized, brief, prompt,
                 dispatchReady, files, died>>

\* Mutant of Poll: a process that has ended is reported as blocked.
PollBlocks(d) ==
  /\ job[d].at = "poll"
  /\ job' = [job EXCEPT ![d].at = IF procs[job[d].exec].alive THEN "record" ELSE "result",
                        ![d].status = IF procs[job[d].exec].alive THEN "dispatched" ELSE "blocked"]
  /\ UNCHANGED <<crew, handoff, approved, triggered, authorized, brief, prompt,
                 dispatchReady, files, procs, died>>

\* One second later: a process that has ended by then counts as failed, whatever
\* its exit code, and so does one whose input pipe broke.
Poll(d) ==
  /\ job[d].at = "poll"
  /\ \E broken \in IF "poll" \in Faults THEN BOOLEAN ELSE {FALSE} :
       /\ job' = [job EXCEPT ![d].at = "record",
                             ![d].status = IF procs[job[d].exec].alive /\ ~ broken
                                           THEN "dispatched" ELSE "failed"]
       /\ procs' = [procs EXCEPT ![job[d].exec].raised = broken]
  /\ UNCHANGED <<crew, handoff, approved, triggered, authorized, brief, prompt,
                 dispatchReady, files, died>>

\* Mutant of RecordDispatch: the runner's status is taken over as it is.
RecordUnmapped(d) ==
  /\ job[d].at = "record"
  /\ job' = [job EXCEPT ![d].at = "result"]
  /\ UNCHANGED <<crew, handoff, approved, triggered, authorized, brief, prompt,
                 dispatchReady, files, procs, died>>

\* run_dispatch writes its receipt (which no code reads, so that only the write
\* and its failure matter); only "dispatched" is accepted, a dispatch the
\* runner blocked is a failed one.
RecordDispatch(d) ==
  /\ job[d].at = "record"
  /\ job' = [job EXCEPT ![d].at = "result",
                        ![d].status = IF @ = "dispatched" THEN "accepted" ELSE "failed"]
  /\ UNCHANGED <<crew, handoff, approved, triggered, authorized, brief, prompt,
                 dispatchReady, files, procs, died>>

\* An exception in the brief, the adapter or the runner turns into a block, even
\* if the process was started already and only its record could not be written.
Raise(d) ==
  /\ job[d].at \in Guarded \cap Faults
  /\ job' = [job EXCEPT ![d].at = "result", ![d].status = "blocked"]
  /\ procs' = [x \in DOMAIN procs |->
                 IF x = job[d].exec THEN [procs[x] EXCEPT !.raised = TRUE] ELSE procs[x]]
  /\ UNCHANGED <<crew, handoff, approved, triggered, authorized, brief, prompt,
                 dispatchReady, files, died>>

-----------------------------------------------------------------------------
(* Result, runtime status and receipt, in this order, blocked or not.      *)

\* Mutants of NextFile: the receipt before the runtime status; no receipt.
NextFileSwapped   == [result |-> "receipt", receipt |-> "runtime", runtime |-> "idle"]
NextFileNoReceipt == [result |-> "runtime", runtime |-> "idle", receipt |-> "idle"]
NextFile == [result |-> "runtime", runtime |-> "receipt", receipt |-> "idle"]

WriteFile(d) ==
  /\ job[d].at \in Files
  /\ files' = [files EXCEPT ![job[d].at] = [exec |-> job[d].exec, status |-> job[d].status]]
  /\ job' = [job EXCEPT ![d] = IF NextFile[@.at] = "idle" THEN IdleJob
                               ELSE [@ EXCEPT !.at = NextFile[job[d].at]]]
  /\ UNCHANGED <<crew, handoff, approved, triggered, authorized, brief, prompt,
                 dispatchReady, procs, died>>

Step(d) == \/ LoadAndGate(d)
           \/ LoadRaises(d)
           \/ WriteBrief(d)
           \/ WritePrompt(d)
           \/ WriteDispatchReady(d)
           \/ Spawn(d)
           \/ Poll(d)
           \/ RecordDispatch(d)
           \/ Raise(d)
           \/ WriteFile(d)

\* A started process ends, the dispatcher's thread or process dies.
Exit(x) ==
  /\ x \in DOMAIN procs /\ procs[x].alive
  /\ procs' = [procs EXCEPT ![x].alive = FALSE]
  /\ UNCHANGED <<crew, handoff, approved, triggered, authorized, job, brief,
                 prompt, dispatchReady, files, died>>

Crash(d) ==
  /\ job[d].at # "idle"
  /\ Cardinality(died) < MaxCrashes
  /\ died' = died \cup {job[d].exec}
  /\ job' = [job EXCEPT ![d] = IdleJob]
  /\ UNCHANGED <<crew, handoff, approved, triggered, authorized, brief, prompt,
                 dispatchReady, files, procs>>

Next ==
  \/ Revise
  \/ \E d \in Dispatchers : Trigger(d)
  \/ \E d \in Dispatchers : Step(d)
  \/ \E d \in Dispatchers : Crash(d)
  \/ \E x \in 1 .. MaxExec : Exit(x)

\* The function runs to its end; the wait for a process is one second.
Fairness == \A d \in Dispatchers : WF_vars(Step(d))

Spec == Init /\ [][Next]_vars /\ Fairness

-----------------------------------------------------------------------------
(* Properties.                                                             *)

Lone == Cardinality(crew) = 1

(***************************************************************************)
(* Typing; a job between its gate and its result files works on a version. *)
(***************************************************************************)
DispatchTypeOK ==
  /\ crew \in Crews
  /\ handoff \in Handoff
  /\ approved \subseteq 1 .. MaxVersion
  /\ triggered \in 0 .. MaxExec
  /\ authorized \subseteq 1 .. triggered
  /\ \A d \in Dispatchers :
       /\ job[d].at \in Guarded \cup Files \cup {"idle", "load", "poll"}
       /\ job[d].at = "idle" => job[d] = IdleJob
       /\ job[d].at # "idle" => job[d].exec \in 1 .. triggered
       /\ job[d].at \in Guarded \cup {"poll"} => job[d].version \in 1 .. MaxVersion
       /\ job[d].at \in Files => job[d].status \in {"blocked", "accepted", "failed"}
       /\ job[d].at = "poll" => job[d].exec \in DOMAIN procs
  /\ {brief, prompt} \subseteq 0 .. MaxVersion
  /\ files \in [Files -> [exec : 0 .. triggered,
                          status : {"none", "blocked", "accepted", "failed"}]]
  /\ \A x \in DOMAIN procs :
       x \in 1 .. triggered /\ procs[x] \in [runs : 1 .. MaxVersion, handoff : 1 .. MaxVersion,
                                             alive : BOOLEAN, raised : BOOLEAN]
  /\ died \subseteq 1 .. triggered

(***************************************************************************)
(* Hard rule of the dispatch: a process runs only on the trigger of an     *)
(* owner, and only what the gate let through at some time, even when two   *)
(* dispatches overwrite each other's brief, prompt and ready file and the  *)
(* handoff is withdrawn meanwhile.                                         *)
(***************************************************************************)
RunsOnlyApproved ==
  \A x \in DOMAIN procs : x \in authorized /\ procs[x].runs \in approved

(***************************************************************************)
(* One dispatcher at a time: a process runs the prompt of the handoff its  *)
(* own dispatch was confirmed for, also after a crash left the prompt of   *)
(* an earlier one on disk.                                                 *)
(***************************************************************************)
RunsItsHandoff == Lone => \A x \in DOMAIN procs : procs[x].runs = procs[x].handoff

(***************************************************************************)
(* What the three files say of an execution is true of its process:        *)
(* accepted was started and nothing went wrong, blocked never was started, *)
(* failed does not run any more. The one exception are executions whose    *)
(* dispatch raised after the start (the input pipe broke, the runner's     *)
(* receipt could not be written): they may be called blocked or failed     *)
(* while they run, but never accepted.                                     *)
(***************************************************************************)
HonestFiles ==
  \A f \in Files : LET x == files[f].exec  started == x \in DOMAIN procs IN
    /\ files[f].status = "accepted" => started /\ ~ procs[x].raised
    /\ files[f].status = "blocked" /\ started => procs[x].raised
    /\ files[f].status = "failed" /\ started => procs[x].raised \/ ~ procs[x].alive

(***************************************************************************)
(* One dispatcher at a time: the receipt never knows of an execution that  *)
(* the runtime status and the result do not, and two files of the same     *)
(* execution agree, whatever crash cut a dispatch.                         *)
(***************************************************************************)
FilesInStep ==
  Lone =>
    /\ files.receipt.exec <= files.runtime.exec
    /\ files.runtime.exec <= files.result.exec
    /\ \A f, g \in Files : files[f].exec = files[g].exec => files[f] = files[g]

(***************************************************************************)
(* No silent execution: a process that was started gets its receipt, or    *)
(* that of a later dispatch has replaced it, also when its dispatch raised *)
(* after the start or another dispatch died, unless its own died.          *)
(***************************************************************************)
EventuallyRecorded ==
  \A x \in 1 .. MaxExec :
    Lone /\ x \in DOMAIN procs ~> files.receipt.exec >= x \/ x \in died

=============================================================================
