----------------------- MODULE ExecutionDispatch_proofs -----------------------
(***************************************************************************)
(* Proofs about the execution dispatch, for every family of crews, every   *)
(* set of fault points and every bound: what runs was approved, a lone     *)
(* dispatcher runs its own handoff, and the result files are honest but    *)
(* for executions whose dispatch raised after the start.                   *)
(***************************************************************************)
EXTENDS ExecutionDispatch, FiniteSetTheorems, TLAPS

\* The places of a job: before its process is started, and until it is recorded.
Before  == {"load", "brief", "prompt", "ready", "spawn"}
Gated   == {"brief", "prompt", "ready", "spawn", "poll", "record"}
Running == Gated \cup {"load"}
Place   == Running \cup Files \cup {"idle"}
Job == [at : Place, exec : Nat, version : Nat, ids : BOOLEAN,
        status : {"none", "blocked", "failed", "dispatched", "accepted"}]
Process == [runs : 1 .. MaxVersion, handoff : 1 .. MaxVersion, alive : BOOLEAN,
            raised : BOOLEAN]

-----------------------------------------------------------------------------
(* The inductive invariant, in parts.                                      *)

FileInv ==
  /\ crew \in Crews
  /\ handoff \in Handoff
  /\ approved \subseteq 1 .. MaxVersion
  /\ handoff.ready => handoff.version \in approved
  /\ triggered \in 0 .. MaxExec
  /\ authorized \subseteq 1 .. triggered
  /\ brief \in 0 .. MaxVersion
  /\ prompt \in 0 .. MaxVersion
  /\ prompt # 0 => prompt \in approved
  /\ dispatchReady \in BOOLEAN
  /\ files \in [Files -> [exec : 0 .. triggered,
                          status : {"none", "blocked", "accepted", "failed"}]]
  /\ died \subseteq 1 .. triggered

ProcInv ==
  /\ procs \in [DOMAIN procs -> Process]
  /\ DOMAIN procs \subseteq 1 .. triggered
  /\ RunsOnlyApproved

\* Approval is carried along by the job, and by the prompt that it finds.
JobOK(j) ==
  /\ j \in Job
  /\ j.at = "idle" => j = IdleJob
  /\ j.at # "idle" => j.exec \in 1 .. triggered
  /\ j.at \in Running => j.exec \in authorized
  /\ j.at \in Gated => j.version \in approved
  /\ j.at \in {"ready", "spawn"} => prompt # 0
  /\ j.at = "poll" => j.exec \in DOMAIN procs
  /\ j.at \in Files => j.status \in {"blocked", "accepted", "failed"}

JobInv ==
  /\ job \in [Dispatchers -> Job]
  /\ \A d \in Dispatchers : JobOK(job[d])

DispatchInv == FileInv /\ ProcInv /\ JobInv

LEMMA Bounds == MaxExec \in Nat /\ MaxVersion \in Nat /\ MaxCrashes \in Nat
  BY DispatchAssumption

\* No step takes back an approval, a trigger or a process, or the prompt.
Grown ==
  /\ triggered <= triggered' /\ authorized \subseteq authorized'
  /\ approved \subseteq approved' /\ (prompt # 0 => prompt' # 0)
  /\ DOMAIN procs \subseteq DOMAIN procs'

LEMMA IdleJobIs == IdleJob \in Job /\ IdleJob.at = "idle" /\ IdleJob.status = "none"
  BY DEF IdleJob, Job, Place

(* What is true of a job stays true of it.                                 *)
LEMMA JobKept ==
  ASSUME FileInv, FileInv', Grown, NEW j, JobOK(j)
  PROVE  JobOK(j)'
<1>1. triggered \in Int /\ triggered' \in Int
  BY Bounds DEF FileInv
<1>2. QED
  BY <1>1 DEF JobOK, Grown

(* A step of one job keeps the invariant of all, if it keeps its own.      *)
LEMMA OneJob ==
  ASSUME FileInv, FileInv', JobInv, NEW d \in Dispatchers, NEW j,
         job' = [job EXCEPT ![d] = j], JobOK(j)', Grown
  PROVE  JobInv'
<1>1. j \in Job
  BY DEF JobOK
<1>2. ASSUME NEW e \in Dispatchers PROVE JobOK(job[e])'
  <2>1. CASE e = d
    <3>1. job'[e] = j
      BY <2>1 DEF JobInv
    <3>2. QED
      BY <3>1 DEF JobOK
  <2>2. CASE e # d
    <3>1. PICK k : k = job[e]
      OBVIOUS
    <3>2. job'[e] = k
      BY <2>2, <3>1 DEF JobInv
    <3>3. JobOK(k)
      BY <3>1 DEF JobInv
    <3>4. JobOK(k)'
      BY <3>3, JobKept
    <3>5. QED
      BY <3>2, <3>4 DEF JobOK
  <2>3. QED
    BY <2>1, <2>2
<1>3. QED
  BY <1>1, <1>2 DEF JobInv

(* The invariant holds at first: nothing was triggered, started or written. *)
LEMMA InvInit == Init => DispatchInv
<1> SUFFICES ASSUME Init PROVE DispatchInv
  OBVIOUS
<1> USE DEF Init
<1>1. handoff \in Handoff /\ handoff.version = 1 /\ 1 \in 1 .. MaxVersion
  BY Bounds DEF Handoff
<1>2. DOMAIN procs = {} /\ procs \in [DOMAIN procs -> Process]
  OBVIOUS
<1>4. job \in [Dispatchers -> Job] /\ \A d \in Dispatchers : job[d] = IdleJob
  BY IdleJobIs
<1>5. FileInv
  <2>1. files \in [Files -> [exec : 0 .. triggered,
                            status : {"none", "blocked", "accepted", "failed"}]]
    BY DEF NoEntry
  <2>2. triggered \in 0 .. MaxExec /\ died = {}
    BY Bounds
  <2>3. brief \in 0 .. MaxVersion /\ prompt = 0 /\ prompt \in 0 .. MaxVersion
    BY Bounds
  <2>4. approved \subseteq 1 .. MaxVersion /\ (handoff.ready => handoff.version \in approved)
    BY <1>1
  <2>5. crew \in Crews /\ handoff \in Handoff /\ authorized = {} /\ dispatchReady = FALSE
    BY <1>1
  <2>6. QED
    BY <2>1, <2>2, <2>3, <2>4, <2>5 DEF FileInv
<1>6. ProcInv
  BY <1>2 DEF ProcInv, RunsOnlyApproved
<1>7. JobInv
  BY IdleJobIs, <1>4 DEF JobInv, JobOK, Running, Gated, Files
<1>8. QED
  BY <1>5, <1>6, <1>7 DEF DispatchInv

(* One step of the adversary or of a dispatcher keeps it.                  *)
LEMMA InvNext == DispatchInv /\ [Next]_vars => DispatchInv'
<1> SUFFICES ASSUME FileInv, ProcInv, JobInv, [Next]_vars PROVE DispatchInv'
  BY DEF DispatchInv
<1> USE Bounds DEF DispatchInv
<1>1. CASE Revise
  <2>1. FileInv'
    <3>1. handoff' \in Handoff /\ approved' \subseteq 1 .. MaxVersion
          /\ approved \subseteq approved' /\ (handoff'.ready => handoff'.version \in approved')
      <4>1. PICK r \in BOOLEAN, i \in BOOLEAN :
              /\ handoff' = [version |-> handoff.version + 1, ready |-> r, ids |-> i]
              /\ approved' = IF r THEN approved \cup {handoff'.version} ELSE approved
        BY <1>1 DEF Revise
      <4>2. handoff.version + 1 \in 1 .. MaxVersion
        BY <1>1 DEF Revise, FileInv, Handoff
      <4>3. QED
        BY <4>1, <4>2 DEF FileInv, Handoff
    <3>2. UNCHANGED <<crew, triggered, authorized, brief, prompt, dispatchReady,
                      files, died>>
      BY <1>1 DEF Revise
    <3>3. QED
      BY <3>1, <3>2 DEF FileInv
  <2>2. approved \subseteq approved'
    BY <1>1 DEF Revise
  <2>3. ProcInv'
    BY <1>1, <2>2 DEF Revise, ProcInv, RunsOnlyApproved
  <2>4. JobInv'
    BY <1>1, <2>2 DEF Revise, JobInv, JobOK
  <2>5. QED
    BY <2>1, <2>3, <2>4
<1>2. ASSUME NEW d \in Dispatchers, Trigger(d) PROVE DispatchInv'
  <2>1. PICK j : job' = [job EXCEPT ![d] = j]
    BY <1>2 DEF Trigger
  <2>2. FileInv'
    BY <1>2 DEF Trigger, FileInv
  <2>3. ProcInv'
    BY <1>2 DEF Trigger, ProcInv, RunsOnlyApproved, FileInv
  <2>4. JobOK(j)'
    <3>1. PICK ok \in BOOLEAN :
            /\ authorized' = IF ok THEN authorized \cup {triggered'} ELSE authorized
            /\ j = [IdleJob EXCEPT !.exec = triggered', !.at = IF ok THEN "load" ELSE "result",
                                   !.status = IF ok THEN "none" ELSE "blocked"]
      BY <1>2, <2>1 DEF Trigger, JobInv
    <3>2. triggered' \in 1 .. triggered' /\ triggered' \in Nat
      BY <1>2 DEF Trigger, FileInv
    <3>3. /\ j \in Job /\ j.exec = triggered'
          /\ j.at = IF ok THEN "load" ELSE "result"
          /\ j.status = IF ok THEN "none" ELSE "blocked"
      BY <3>1, <3>2 DEF IdleJob, Job, Place, Running, Files
    <3>4. QED
      BY <3>1, <3>2, <3>3 DEF JobOK, Running, Gated, Files
  <2>5. Grown
    BY <1>2 DEF Trigger, Grown, FileInv
  <2>6. JobInv'
    BY <2>1, <2>2, <2>4, <2>5, OneJob
  <2>7. QED
    BY <2>2, <2>3, <2>6
<1>3. ASSUME NEW d \in Dispatchers, LoadAndGate(d) PROVE DispatchInv'
  <2>1. PICK j : job' = [job EXCEPT ![d] = j]
    BY <1>3 DEF LoadAndGate
  <2>2. FileInv'
    BY <1>3 DEF LoadAndGate, FileInv, JobInv, JobOK, Gated, Running, Files, Job
  <2>3. ProcInv'
    BY <1>3 DEF LoadAndGate, ProcInv, RunsOnlyApproved
  <2>4. JobOK(j)'
    <3>1. JobOK(job[d]) /\ job[d].at = "load"
      BY <1>3 DEF LoadAndGate, JobInv
    <3>2. CASE handoff.ready
      <4>1. j = [job[d] EXCEPT !.at = "brief", !.version = handoff.version, !.ids = handoff.ids]
        BY <1>3, <2>1, <3>2 DEF LoadAndGate, JobInv
      <4>2. /\ j \in Job /\ j.at = "brief" /\ j.exec = job[d].exec
            /\ j.version = handoff.version
        <5>1. handoff.version \in Nat /\ handoff.ids \in BOOLEAN
          BY DEF FileInv, Handoff
        <5>2. QED
          BY <3>1, <4>1, <5>1 DEF JobOK, Job, Place, Running, Gated
      <4>3. QED
        BY <1>3, <3>1, <3>2, <4>2 DEF LoadAndGate, JobOK, Running, Gated, Files, FileInv
    <3>3. CASE ~ handoff.ready
      <4>1. j = [job[d] EXCEPT !.at = "result", !.status = "blocked"]
        BY <1>3, <2>1, <3>3 DEF LoadAndGate, JobInv
      <4>2. QED
        BY <1>3, <3>1, <4>1 DEF LoadAndGate, JobOK, Job, Place, Running, Gated, Files
    <3>4. QED
      BY <3>2, <3>3
  <2>5. Grown
    BY <1>3 DEF LoadAndGate, Grown, FileInv
  <2>6. JobInv'
    BY <2>1, <2>2, <2>4, <2>5, OneJob
  <2>7. QED
    BY <2>2, <2>3, <2>6
<1>4. ASSUME NEW d \in Dispatchers, LoadRaises(d) PROVE DispatchInv'
  <2>1. PICK j : job' = [job EXCEPT ![d] = j]
    BY <1>4 DEF LoadRaises
  <2>2. FileInv'
    BY <1>4 DEF LoadRaises, FileInv, JobInv, JobOK, Gated, Running, Files, Job
  <2>3. ProcInv'
    BY <1>4 DEF LoadRaises, ProcInv, RunsOnlyApproved
  <2>4. JobOK(j)'
    <3>1. j = IdleJob
      BY <1>4, <2>1 DEF LoadRaises, JobInv
    <3>2. QED
      BY <3>1, IdleJobIs DEF JobOK, Running, Gated, Files
  <2>5. Grown
    BY <1>4 DEF LoadRaises, Grown, FileInv
  <2>6. JobInv'
    BY <2>1, <2>2, <2>4, <2>5, OneJob
  <2>7. QED
    BY <2>2, <2>3, <2>6
<1>5. ASSUME NEW d \in Dispatchers, WriteBrief(d) PROVE DispatchInv'
  <2>1. PICK j : job' = [job EXCEPT ![d] = j]
    BY <1>5 DEF WriteBrief
  <2>2. FileInv'
    BY <1>5 DEF WriteBrief, FileInv, JobInv, JobOK, Gated, Running, Files, Job
  <2>3. ProcInv'
    BY <1>5 DEF WriteBrief, ProcInv, RunsOnlyApproved
  <2>4. JobOK(j)'
    BY <1>5, <2>1 DEF WriteBrief, FileInv, JobInv, JobOK, Job, Place, Running, Gated, Files
  <2>5. Grown
    BY <1>5 DEF WriteBrief, Grown, FileInv
  <2>6. JobInv'
    BY <2>1, <2>2, <2>4, <2>5, OneJob
  <2>7. QED
    BY <2>2, <2>3, <2>6
<1>6. ASSUME NEW d \in Dispatchers, WritePrompt(d) PROVE DispatchInv'
  <2>1. PICK j : job' = [job EXCEPT ![d] = j]
    BY <1>6 DEF WritePrompt
  <2>2. FileInv'
    BY <1>6 DEF WritePrompt, FileInv, JobInv, JobOK, Gated, Running, Files, Job
  <2>3. ProcInv'
    BY <1>6 DEF WritePrompt, ProcInv, RunsOnlyApproved
  <2>4. JobOK(j)'
    BY <1>6, <2>1 DEF WritePrompt, FileInv, JobInv, JobOK, Job, Place, Running, Gated, Files
  <2>5. Grown
    BY <1>6 DEF WritePrompt, Grown, FileInv, JobInv, JobOK, Gated
  <2>6. JobInv'
    BY <2>1, <2>2, <2>4, <2>5, OneJob
  <2>7. QED
    BY <2>2, <2>3, <2>6
<1>7. ASSUME NEW d \in Dispatchers, WriteDispatchReady(d) PROVE DispatchInv'
  <2>1. PICK j : job' = [job EXCEPT ![d] = j]
    BY <1>7 DEF WriteDispatchReady
  <2>2. FileInv'
    BY <1>7 DEF WriteDispatchReady, FileInv, JobInv, JobOK, Gated, Running, Files, Job
  <2>3. ProcInv'
    BY <1>7 DEF WriteDispatchReady, ProcInv, RunsOnlyApproved
  <2>4. JobOK(j)'
    BY <1>7, <2>1 DEF WriteDispatchReady, FileInv, JobInv, JobOK, Job, Place, Running, Gated, Files
  <2>5. Grown
    BY <1>7 DEF WriteDispatchReady, Grown, FileInv
  <2>6. JobInv'
    BY <2>1, <2>2, <2>4, <2>5, OneJob
  <2>7. QED
    BY <2>2, <2>3, <2>6
<1>8. ASSUME NEW d \in Dispatchers, Spawn(d) PROVE DispatchInv'
  <2>1. PICK j : job' = [job EXCEPT ![d] = j]
    BY <1>8 DEF Spawn
  <2>2. FileInv'
    BY <1>8 DEF Spawn, FileInv, JobInv, JobOK, Gated, Running, Files, Job
  <2>3. ProcInv'
    <3>1. CASE UNCHANGED procs
      BY <1>8, <3>1 DEF Spawn, ProcInv, RunsOnlyApproved
    <3>2. CASE procs' = [x \in DOMAIN procs \cup {job[d].exec} |->
                           IF x \in DOMAIN procs THEN procs[x]
                           ELSE [runs |-> prompt, handoff |-> job[d].version,
                                 alive |-> TRUE, raised |-> FALSE]]
      <4>1. /\ job[d].exec \in authorized /\ job[d].exec \in 1 .. triggered
            /\ prompt \in approved /\ job[d].version \in approved
        BY <1>8 DEF Spawn, JobInv, JobOK, Running, Gated, FileInv
      <4>2. [runs |-> prompt, handoff |-> job[d].version, alive |-> TRUE, raised |-> FALSE] \in Process
        BY <4>1 DEF Process, FileInv
      <4>3. DOMAIN procs' = DOMAIN procs \cup {job[d].exec}
        BY <3>2
      <4>4. \A x \in DOMAIN procs' : procs'[x] \in Process /\ procs'[x].runs \in approved
        BY <3>2, <4>1, <4>2 DEF ProcInv, RunsOnlyApproved
      <4>5. procs' \in [DOMAIN procs' -> Process]
        BY <3>2, <4>4
      <4>6. QED
        BY <1>8, <4>1, <4>3, <4>4, <4>5 DEF Spawn, ProcInv, RunsOnlyApproved
    <3>3. QED
      BY <1>8, <3>1, <3>2 DEF Spawn
  <2>4. JobOK(j)'
    BY <1>8, <2>1 DEF Spawn, FileInv, JobInv, JobOK, Job, Place, Running, Gated, Files
  <2>5. Grown
    BY <1>8 DEF Spawn, Grown, FileInv
  <2>6. JobInv'
    BY <2>1, <2>2, <2>4, <2>5, OneJob
  <2>7. QED
    BY <2>2, <2>3, <2>6
<1>9. ASSUME NEW d \in Dispatchers, Poll(d) PROVE DispatchInv'
  <2>1. PICK j : job' = [job EXCEPT ![d] = j]
    BY <1>9 DEF Poll
  <2>2. FileInv'
    BY <1>9 DEF Poll, FileInv, JobInv, JobOK, Gated, Running, Files, Job
  <2>3. ProcInv'
    <3>1. PICK broken \in BOOLEAN : procs' = [procs EXCEPT ![job[d].exec].raised = broken]
      BY <1>9 DEF Poll
    <3>2. /\ DOMAIN procs' = DOMAIN procs
          /\ \A x \in DOMAIN procs : procs'[x] \in Process /\ procs'[x].runs = procs[x].runs
          /\ UNCHANGED <<triggered, authorized, approved>>
      BY <1>9, <3>1 DEF Poll, ProcInv, Process
    <3>3. procs' \in [DOMAIN procs' -> Process]
      BY <3>1, <3>2 DEF ProcInv
    <3>4. QED
      BY <3>2, <3>3 DEF ProcInv, RunsOnlyApproved
  <2>4. JobOK(j)'
    BY <1>9, <2>1 DEF Poll, FileInv, JobInv, JobOK, Job, Place, Running, Gated, Files
  <2>5. Grown
    BY <1>9 DEF Poll, Grown, FileInv
  <2>6. JobInv'
    BY <2>1, <2>2, <2>4, <2>5, OneJob
  <2>7. QED
    BY <2>2, <2>3, <2>6
<1>10. ASSUME NEW d \in Dispatchers, RecordDispatch(d) PROVE DispatchInv'
  <2>1. PICK j : job' = [job EXCEPT ![d] = j]
    BY <1>10 DEF RecordDispatch
  <2>2. FileInv'
    BY <1>10 DEF RecordDispatch, FileInv, JobInv, JobOK, Gated, Running, Files, Job
  <2>3. ProcInv'
    BY <1>10 DEF RecordDispatch, ProcInv, RunsOnlyApproved
  <2>4. JobOK(j)'
    BY <1>10, <2>1 DEF RecordDispatch, FileInv, JobInv, JobOK, Job, Place, Running, Gated, Files
  <2>5. Grown
    BY <1>10 DEF RecordDispatch, Grown, FileInv
  <2>6. JobInv'
    BY <2>1, <2>2, <2>4, <2>5, OneJob
  <2>7. QED
    BY <2>2, <2>3, <2>6
<1>11. ASSUME NEW d \in Dispatchers, Raise(d) PROVE DispatchInv'
  <2>1. PICK j : job' = [job EXCEPT ![d] = j]
    BY <1>11 DEF Raise
  <2>2. FileInv'
    BY <1>11 DEF Raise, FileInv, JobInv, JobOK, Gated, Running, Files, Job
  <2>3. ProcInv'
    BY <1>11 DEF Raise, ProcInv, RunsOnlyApproved, Process
  <2>4. JobOK(j)'
    BY <1>11, <2>1 DEF Raise, FileInv, JobInv, JobOK, Job, Place, Running, Gated, Files, Guarded
  <2>5. Grown
    BY <1>11 DEF Raise, Grown, FileInv
  <2>6. JobInv'
    BY <2>1, <2>2, <2>4, <2>5, OneJob
  <2>7. QED
    BY <2>2, <2>3, <2>6
<1>12. ASSUME NEW d \in Dispatchers, WriteFile(d) PROVE DispatchInv'
  <2>1. PICK j : job' = [job EXCEPT ![d] = j]
    BY <1>12 DEF WriteFile
  <2>2. FileInv'
    BY <1>12 DEF WriteFile, FileInv, JobInv, JobOK, Gated, Running, Files, Job
  <2>3. ProcInv'
    BY <1>12 DEF WriteFile, ProcInv, RunsOnlyApproved
  <2>4. JobOK(j)'
    <3>1. JobOK(job[d]) /\ job[d].at \in Files
      BY <1>12 DEF WriteFile, JobInv
    <3>2. CASE job[d].at = "receipt"
      <4>1. j = IdleJob
        BY <1>12, <2>1, <3>2 DEF WriteFile, JobInv, NextFile
      <4>2. QED
        BY <4>1, IdleJobIs DEF JobOK, Running, Gated, Files
    <3>3. CASE job[d].at \in {"result", "runtime"}
      <4>1. NextFile[job[d].at] \in {"runtime", "receipt"}
        BY <3>3 DEF NextFile
      <4>. DEFINE k == [job[d] EXCEPT !.at = NextFile[job[d].at]]
      <4>2. job' = [job EXCEPT ![d] = k]
        <5>1. NextFile[job[d].at] # "idle"
          BY <4>1
        <5>2. QED
          BY <1>12, <5>1 DEF WriteFile
      <4>3. j = k
        BY <2>1, <4>2 DEF JobInv
      <4>4. QED
        BY <1>12, <3>1, <4>1, <4>3 DEF WriteFile, JobOK, Job, Place, Running, Gated, Files
    <3>4. QED
      BY <3>1, <3>2, <3>3 DEF Files
  <2>5. Grown
    BY <1>12 DEF WriteFile, Grown, FileInv
  <2>6. JobInv'
    BY <2>1, <2>2, <2>4, <2>5, OneJob
  <2>7. QED
    BY <2>2, <2>3, <2>6
<1>13. ASSUME NEW d \in Dispatchers, Crash(d) PROVE DispatchInv'
  <2>1. PICK j : job' = [job EXCEPT ![d] = j]
    BY <1>13 DEF Crash
  <2>2. FileInv'
    BY <1>13 DEF Crash, FileInv, JobInv, JobOK, Gated, Running, Files, Job
  <2>3. ProcInv'
    BY <1>13 DEF Crash, ProcInv, RunsOnlyApproved
  <2>4. JobOK(j)'
    <3>1. j = IdleJob
      BY <1>13, <2>1 DEF Crash, JobInv
    <3>2. QED
      BY <3>1, IdleJobIs DEF JobOK, Running, Gated, Files
  <2>5. Grown
    BY <1>13 DEF Crash, Grown, FileInv
  <2>6. JobInv'
    BY <2>1, <2>2, <2>4, <2>5, OneJob
  <2>7. QED
    BY <2>2, <2>3, <2>6
<1>14. ASSUME NEW x \in 1 .. MaxExec, Exit(x) PROVE DispatchInv'
  <2>1. FileInv' /\ JobInv'
    BY <1>14 DEF Exit, FileInv, JobInv, JobOK
  <2>2. ProcInv'
    BY <1>14 DEF Exit, ProcInv, RunsOnlyApproved, Process
  <2>3. QED
    BY <2>1, <2>2
<1>15. CASE UNCHANGED vars
  BY <1>15 DEF vars, FileInv, ProcInv, JobInv, JobOK, RunsOnlyApproved
<1>16. QED
  BY <1>1, <1>2, <1>3, <1>4, <1>5, <1>6, <1>7, <1>8, <1>9, <1>10, <1>11, <1>12, <1>13, <1>14, <1>15 DEF Next, Step

LEMMA SafetySpec == Spec => []DispatchInv
  BY InvInit, InvNext, PTL DEF Spec

(* Every variable keeps its type, and a job between its gate and its result *)
(* files works on a version of the handoff.                                 *)
THEOREM DispatchTyping == Spec => []DispatchTypeOK
<1>1. DispatchInv => DispatchTypeOK
  <2> SUFFICES ASSUME DispatchInv PROVE DispatchTypeOK
    OBVIOUS
  <2>1. ASSUME NEW d \in Dispatchers
        PROVE  /\ job[d].at \in Guarded \cup Files \cup {"idle", "load", "poll"}
               /\ job[d].at = "idle" => job[d] = IdleJob
               /\ job[d].at # "idle" => job[d].exec \in 1 .. triggered
               /\ job[d].at \in Guarded \cup {"poll"} => job[d].version \in 1 .. MaxVersion
               /\ job[d].at \in Files => job[d].status \in {"blocked", "accepted", "failed"}
               /\ job[d].at = "poll" => job[d].exec \in DOMAIN procs
    BY DEF DispatchInv, JobInv, JobOK, Job, Place, Running, Gated, Guarded, FileInv
  <2>2. \A x \in DOMAIN procs :
          x \in 1 .. triggered /\ procs[x] \in [runs : 1 .. MaxVersion, handoff : 1 .. MaxVersion,
                                                alive : BOOLEAN, raised : BOOLEAN]
    BY DEF DispatchInv, ProcInv, Process
  <2>3. QED
    BY <2>1, <2>2 DEF DispatchInv, FileInv, DispatchTypeOK
<1>2. QED
  BY <1>1, SafetySpec, PTL

(* Whatever is started was triggered by an owner at a stage for it, and     *)
(* runs content that the gate of the handoff let through, for any number of *)
(* dispatchers over the shared files, any faults and any crashes.           *)
THEOREM OnlyApprovedRuns == Spec => []RunsOnlyApproved
<1>1. DispatchInv => RunsOnlyApproved
  BY DEF DispatchInv, ProcInv
<1>2. QED
  BY <1>1, SafetySpec, PTL

-----------------------------------------------------------------------------
(* Honest files.                                                           *)

\* What status s says of execution x.
StatusTrue(x, s) ==
  /\ s \in {"accepted", "dispatched"} => x \in DOMAIN procs /\ ~ procs[x].raised
  /\ s = "blocked" /\ x \in DOMAIN procs => procs[x].raised
  /\ s = "failed" /\ x \in DOMAIN procs => procs[x].raised \/ ~ procs[x].alive

\* No two jobs have one execution; a job starts its process after every file that
\* speaks of another one, and before any that speaks of it.
HonestJob(d) ==
  /\ \A e \in Dispatchers : d # e /\ job[d].at # "idle" /\ job[e].at # "idle"
                           => job[d].exec # job[e].exec
  /\ job[d].at \in Before => job[d].exec \notin DOMAIN procs
  /\ job[d].at = "record" => job[d].status \in {"blocked", "failed", "dispatched"}
  /\ job[d].at \in Files \cup {"record"} => StatusTrue(job[d].exec, job[d].status)
  /\ job[d].at \in Running => \A f \in Files : files[f].exec # job[d].exec

HonestInv == HonestFiles /\ \A d \in Dispatchers : HonestJob(d)

LEMMA HonestInit == Init => HonestInv
<1> SUFFICES ASSUME Init PROVE HonestInv
  OBVIOUS
<1>1. \A d \in Dispatchers : job[d].at = "idle"
  BY IdleJobIs DEF Init
<1>2. \A f \in Files : files[f].status = "none"
  BY DEF Init, NoEntry
<1>3. QED
  BY <1>1, <1>2 DEF HonestInv, HonestFiles, HonestJob, Before, Running, Gated, Files

(* A job learns how its process fares: no other process is touched, and what *)
(* the job will write of its own is true.                                    *)
Concluded(d) ==
  /\ UNCHANGED files /\ job[d].at \in Running /\ DOMAIN procs' = DOMAIN procs
  /\ \A x \in DOMAIN procs \ {job[d].exec} : procs'[x] = procs[x]
  /\ job'[d].at \in {"record", "result"} /\ job'[d].exec = job[d].exec
  /\ job'[d].at = "record" => job'[d].status \in {"blocked", "failed", "dispatched"}
  /\ \A e \in Dispatchers \ {d} : job'[e] = job[e]
  /\ StatusTrue(job[d].exec, job[d].status)'

LEMMA ConcludedHonest ==
  ASSUME NEW d \in Dispatchers, HonestInv, Concluded(d)
  PROVE  HonestInv'
<1>1. /\ job[d].at # "idle"
      /\ \A f \in Files : files[f].exec # job[d].exec
  BY DEF HonestInv, HonestJob, Concluded, Running, Gated
<1>2. HonestFiles'
  BY <1>1 DEF HonestInv, HonestFiles, Concluded
<1>3. ASSUME NEW e \in Dispatchers PROVE HonestJob(e)'
  <2>1. CASE e = d
    BY <1>1, <2>1 DEF HonestInv, HonestJob, Concluded, Before, Running, Gated, Files
  <2>2. CASE e # d
    <3>1. job'[e] = job[e] /\ (job[e].at # "idle" => job[e].exec # job[d].exec)
      BY <1>1, <2>2 DEF HonestInv, HonestJob, Concluded
    <3>2. job[e].at \in Files \cup {"record"} => StatusTrue(job[e].exec, job[e].status)'
      <4>1. job[e].at \in Files \cup {"record"} => job[e].at # "idle"
        BY DEF Files
      <4>2. QED
        BY <3>1, <4>1 DEF HonestInv, HonestJob, Concluded, StatusTrue
    <3>3. QED
      BY <1>1, <2>2, <3>1, <3>2 DEF HonestInv, HonestJob, Concluded, Before, Running, Gated, Files
  <2>3. QED
    BY <2>1, <2>2
<1>4. QED
  BY <1>2, <1>3 DEF HonestInv

LEMMA HonestNext ==
  ASSUME DispatchInv, DispatchInv', HonestInv, [Next]_vars
  PROVE  HonestInv'
<1> USE DEF HonestInv, HonestFiles, HonestJob, StatusTrue
<1>1. CASE Revise
  BY <1>1 DEF Revise
<1>2. ASSUME NEW d \in Dispatchers, Trigger(d) PROVE HonestInv'
  BY <1>2 DEF Trigger, DispatchInv, FileInv, ProcInv, JobInv, JobOK, IdleJob, Running, Gated, Before, Files
<1>3. ASSUME NEW d \in Dispatchers, LoadAndGate(d) PROVE HonestInv'
  BY <1>3 DEF LoadAndGate, DispatchInv, FileInv, ProcInv, JobInv, JobOK, Running, Gated, Before, Files
<1>4. ASSUME NEW d \in Dispatchers, LoadRaises(d) PROVE HonestInv'
  <2>1. /\ job'[d].at = "idle" /\ UNCHANGED <<files, procs>>
        /\ \A e \in Dispatchers \ {d} : job'[e] = job[e]
    BY <1>4, IdleJobIs DEF LoadRaises, DispatchInv, JobInv
  <2>2. QED
    BY <2>1 DEF Before, Running, Gated, Files
<1>5. ASSUME NEW d \in Dispatchers, WriteBrief(d) PROVE HonestInv'
  BY <1>5 DEF WriteBrief, DispatchInv, FileInv, ProcInv, JobInv, JobOK, Running, Gated, Before, Files
<1>6. ASSUME NEW d \in Dispatchers, WritePrompt(d) PROVE HonestInv'
  BY <1>6 DEF WritePrompt, DispatchInv, FileInv, ProcInv, JobInv, JobOK, Running, Gated, Before, Files
<1>7. ASSUME NEW d \in Dispatchers, WriteDispatchReady(d) PROVE HonestInv'
  BY <1>7 DEF WriteDispatchReady, DispatchInv, FileInv, ProcInv, JobInv, JobOK, Running, Gated, Before, Files
<1>8. ASSUME NEW d \in Dispatchers, Spawn(d) PROVE HonestInv'
  <2>1. /\ UNCHANGED files /\ job[d].at = "spawn" /\ job'[d].exec = job[d].exec
        /\ \A e \in Dispatchers \ {d} : job'[e] = job[e]
    BY <1>8 DEF Spawn, DispatchInv, JobInv, Job
  <2>2. job[d].exec \notin DOMAIN procs
    BY <2>1 DEF Before
  <2>3. CASE UNCHANGED procs /\ job'[d].at = "record" /\ job'[d].status \in {"blocked", "failed"}
    BY <2>1, <2>2, <2>3 DEF Before, Running, Gated, Files
  <2>4. CASE /\ job'[d].at = "poll"
             /\ DOMAIN procs' = DOMAIN procs \cup {job[d].exec}
             /\ \A x \in DOMAIN procs : procs'[x] = procs[x]
    <3>1. \A f \in Files : files[f].exec # job[d].exec
      BY <2>1 DEF Running, Gated
    <3>2. HonestFiles'
      BY <2>1, <2>4, <3>1
    <3>3. ASSUME NEW e \in Dispatchers PROVE HonestJob(e)'
      <4>1. CASE e = d
        BY <2>1, <2>4, <3>1, <4>1 DEF Before, Running, Gated, Files
      <4>2. CASE e # d
        <5>1. job'[e] = job[e] /\ (job[e].at # "idle" => job[e].exec # job[d].exec)
          BY <2>1, <4>2
        <5>2. QED
          BY <2>1, <2>4, <4>2, <5>1 DEF Before, Running, Gated, Files
      <4>3. QED
        BY <4>1, <4>2
    <3>4. QED
      BY <3>2, <3>3
  <2>5. QED
    BY <1>8, <2>3, <2>4 DEF Spawn, DispatchInv, JobInv, Job
<1>9. ASSUME NEW d \in Dispatchers, Poll(d) PROVE HonestInv'
  <2>1. PICK broken \in BOOLEAN :
          /\ job' = [job EXCEPT ![d].at = "record",
                                ![d].status = IF procs[job[d].exec].alive /\ ~ broken
                                              THEN "dispatched" ELSE "failed"]
          /\ procs' = [procs EXCEPT ![job[d].exec].raised = broken]
    BY <1>9 DEF Poll
  <2>2. job[d].at = "poll" /\ job[d].exec \in DOMAIN procs /\ UNCHANGED files
    BY <1>9 DEF Poll, DispatchInv, JobInv, JobOK
  <2>3. /\ job'[d].exec = job[d].exec /\ job'[d].at = "record"
        /\ job'[d].status = IF procs[job[d].exec].alive /\ ~ broken THEN "dispatched" ELSE "failed"
        /\ \A e \in Dispatchers \ {d} : job'[e] = job[e]
    BY <2>1 DEF DispatchInv, JobInv, Job
  <2>4. /\ DOMAIN procs' = DOMAIN procs
        /\ \A x \in DOMAIN procs \ {job[d].exec} : procs'[x] = procs[x]
        /\ procs'[job[d].exec].raised = broken
        /\ procs'[job[d].exec].alive = procs[job[d].exec].alive
    BY <2>1, <2>2 DEF DispatchInv, ProcInv, Process
  <2>5. StatusTrue(job[d].exec, job[d].status)'
    BY <2>2, <2>3, <2>4
  <2>6. Concluded(d)
    BY <2>2, <2>3, <2>4, <2>5 DEF Concluded, Running, Gated
  <2>7. QED
    BY <2>6, ConcludedHonest
<1>10. ASSUME NEW d \in Dispatchers, RecordDispatch(d) PROVE HonestInv'
  BY <1>10 DEF RecordDispatch, DispatchInv, FileInv, ProcInv, JobInv, JobOK, Running, Gated, Before, Files
<1>11. ASSUME NEW d \in Dispatchers, Raise(d) PROVE HonestInv'
  <2>1. /\ UNCHANGED files /\ job[d].at \in Guarded
        /\ job' = [job EXCEPT ![d].at = "result", ![d].status = "blocked"]
        /\ procs' = [x \in DOMAIN procs |->
                       IF x = job[d].exec THEN [procs[x] EXCEPT !.raised = TRUE] ELSE procs[x]]
    BY <1>11 DEF Raise
  <2>2. /\ job'[d].exec = job[d].exec /\ job'[d].at = "result" /\ job'[d].status = "blocked"
        /\ \A e \in Dispatchers \ {d} : job'[e] = job[e]
    BY <2>1 DEF DispatchInv, JobInv, Job
  <2>3. /\ DOMAIN procs' = DOMAIN procs
        /\ \A x \in DOMAIN procs \ {job[d].exec} : procs'[x] = procs[x]
        /\ job[d].exec \in DOMAIN procs => procs'[job[d].exec].raised
    BY <2>1 DEF DispatchInv, ProcInv, Process
  <2>4. StatusTrue(job[d].exec, job[d].status)'
    BY <2>2, <2>3
  <2>5. Concluded(d)
    BY <2>1, <2>2, <2>3, <2>4 DEF Concluded, Guarded, Running, Gated
  <2>6. QED
    BY <2>5, ConcludedHonest
<1>12. ASSUME NEW d \in Dispatchers, WriteFile(d) PROVE HonestInv'
  <2>1. /\ UNCHANGED procs /\ job[d].at \in Files
        /\ files' = [files EXCEPT ![job[d].at] = [exec |-> job[d].exec, status |-> job[d].status]]
        /\ \A e \in Dispatchers \ {d} : job'[e] = job[e]
    BY <1>12 DEF WriteFile, DispatchInv, JobInv
  <2>2. \/ job'[d].at = "idle"
        \/ job'[d].at \in Files /\ job'[d].exec = job[d].exec /\ job'[d].status = job[d].status
    <3>1. NextFile[job[d].at] \in Files \cup {"idle"}
      BY <2>1 DEF NextFile, Files
    <3>2. QED
      BY <1>12, <3>1, IdleJobIs DEF WriteFile, DispatchInv, JobInv, Job
  <2>3. StatusTrue(job[d].exec, job[d].status) /\ job[d].status # "dispatched"
    BY <2>1 DEF DispatchInv, JobInv, JobOK, Files
  <2>4. \A f \in Files : files'[f] = IF f = job[d].at
                                   THEN [exec |-> job[d].exec, status |-> job[d].status]
                                   ELSE files[f]
    BY <2>1 DEF DispatchInv, FileInv
  <2>5. HonestFiles'
    BY <2>1, <2>3, <2>4
  <2>6. ASSUME NEW e \in Dispatchers PROVE HonestJob(e)'
    <3>1. CASE e = d
      BY <2>1, <2>2, <2>3, <3>1 DEF Before, Running, Gated, Files
    <3>2. CASE e # d
      <4>1. job'[e] = job[e]
        BY <2>1, <3>2
      <4>2. job[e].at # "idle" => job[d].exec # job[e].exec
        BY <2>1, <3>2 DEF Files
      <4>3. \A g \in Dispatchers : e # g /\ job'[e].at # "idle" /\ job'[g].at # "idle"
                                  => job'[e].exec # job'[g].exec
        BY <2>1, <2>2, <3>2 DEF Files
      <4>4. job[e].at \in Running => \A f \in Files : files'[f].exec # job[e].exec
        BY <2>4, <4>2 DEF Running, Gated
      <4>5. QED
        BY <2>1, <4>1, <4>3, <4>4
    <3>3. QED
      BY <3>1, <3>2
  <2>7. QED
    BY <2>5, <2>6
<1>13. ASSUME NEW d \in Dispatchers, Crash(d) PROVE HonestInv'
  <2>1. /\ job'[d].at = "idle" /\ UNCHANGED <<files, procs>>
        /\ \A e \in Dispatchers \ {d} : job'[e] = job[e]
    BY <1>13, IdleJobIs DEF Crash, DispatchInv, JobInv
  <2>2. QED
    BY <2>1 DEF Before, Running, Gated, Files
<1>14. ASSUME NEW x \in 1 .. MaxExec, Exit(x) PROVE HonestInv'
  BY <1>14 DEF Exit, DispatchInv, ProcInv, Process
<1>15. CASE UNCHANGED vars
  BY <1>15 DEF vars
<1>16. QED
  BY <1>1, <1>2, <1>3, <1>4, <1>5, <1>6, <1>7, <1>8, <1>9, <1>10, <1>11, <1>12, <1>13, <1>14, <1>15 DEF Next, Step

(* Accepted was started and went well, blocked never was started and failed  *)
(* does not run any more, for any number of dispatchers that overwrite each  *)
(* other's files and any faults; the executions of which it may not be true  *)
(* are those whose dispatch raised after the start, and they are never       *)
(* called accepted.                                                          *)
THEOREM FilesAreHonest == Spec => []HonestFiles
<1>1. DispatchInv /\ DispatchInv' /\ HonestInv /\ [Next]_vars => HonestInv'
  BY HonestNext
<1>2. HonestInv => HonestFiles
  BY DEF HonestInv
<1>3. QED
  BY <1>1, <1>2, HonestInit, SafetySpec, PTL DEF Spec

-----------------------------------------------------------------------------
(* A lone dispatcher.                                                      *)

\* Others than those of the crew have no job; a lone one finds its own prompt.
CrewInv == \A d \in Dispatchers : job[d].at # "idle" => d \in crew
OwnInv ==
  /\ \A d \in Dispatchers : job[d].at \in {"ready", "spawn"} => prompt = job[d].version
  /\ \A x \in DOMAIN procs : procs[x].runs = procs[x].handoff
OnlyOne == \A d, e \in crew : d = e
LoneInv == CrewInv /\ (OnlyOne => OwnInv)

LEMMA LoneMeansOne ==
  ASSUME DispatchInv, Lone
  PROVE  OnlyOne
<1>1. IsFiniteSet(crew)
  BY DispatchAssumption DEF DispatchInv, FileInv
<1>2. PICK d : crew = {d}
  BY <1>1, FS_Singleton DEF Lone
<1>3. QED
  BY <1>2 DEF OnlyOne

LEMMA LoneInit == Init => LoneInv
  BY IdleJobIs DEF Init, LoneInv, CrewInv, OwnInv

LEMMA LoneNext ==
  ASSUME DispatchInv, LoneInv, [Next]_vars
  PROVE  LoneInv'
<1> USE DEF LoneInv, CrewInv, OwnInv, OnlyOne
<1>1. CASE Revise
  BY <1>1 DEF Revise
<1>2. ASSUME NEW d \in Dispatchers, Trigger(d) PROVE LoneInv'
  BY <1>2, IdleJobIs DEF Trigger, DispatchInv, JobInv, Job, Files
<1>3. ASSUME NEW d \in Dispatchers, LoadAndGate(d) PROVE LoneInv'
  BY <1>3, IdleJobIs DEF LoadAndGate, DispatchInv, JobInv, Job, Files
<1>4. ASSUME NEW d \in Dispatchers, LoadRaises(d) PROVE LoneInv'
  BY <1>4, IdleJobIs DEF LoadRaises, DispatchInv, JobInv, Job, Files
<1>5. ASSUME NEW d \in Dispatchers, WriteBrief(d) PROVE LoneInv'
  BY <1>5, IdleJobIs DEF WriteBrief, DispatchInv, JobInv, Job, Files
<1>6. ASSUME NEW d \in Dispatchers, WritePrompt(d) PROVE LoneInv'
  BY <1>6, IdleJobIs DEF WritePrompt, DispatchInv, JobInv, Job, Files
<1>7. ASSUME NEW d \in Dispatchers, WriteDispatchReady(d) PROVE LoneInv'
  BY <1>7, IdleJobIs DEF WriteDispatchReady, DispatchInv, JobInv, Job, Files
<1>8. ASSUME NEW d \in Dispatchers, Spawn(d) PROVE LoneInv'
  BY <1>8, IdleJobIs DEF Spawn, DispatchInv, JobInv, Job, Files
<1>9. ASSUME NEW d \in Dispatchers, Poll(d) PROVE LoneInv'
  BY <1>9, IdleJobIs DEF Poll, DispatchInv, JobInv, Job, Files
<1>10. ASSUME NEW d \in Dispatchers, RecordDispatch(d) PROVE LoneInv'
  BY <1>10, IdleJobIs DEF RecordDispatch, DispatchInv, JobInv, Job, Files
<1>11. ASSUME NEW d \in Dispatchers, Raise(d) PROVE LoneInv'
  <2>1. /\ UNCHANGED <<crew, prompt>> /\ job[d].at # "idle" /\ job'[d].at = "result"
        /\ \A e \in Dispatchers \ {d} : job'[e] = job[e]
        /\ DOMAIN procs' = DOMAIN procs
        /\ \A x \in DOMAIN procs : /\ procs'[x].runs = procs[x].runs
                                  /\ procs'[x].handoff = procs[x].handoff
    BY <1>11 DEF Raise, DispatchInv, JobInv, Job, ProcInv, Process, Guarded
  <2>2. QED
    BY <2>1
<1>12. ASSUME NEW d \in Dispatchers, WriteFile(d) PROVE LoneInv'
  <2>1. /\ UNCHANGED <<crew, prompt, procs>> /\ job[d].at # "idle"
        /\ job'[d].at \in Files \cup {"idle"}
        /\ \A e \in Dispatchers \ {d} : job'[e] = job[e]
    <3>1. NextFile[job[d].at] \in Files \cup {"idle"} /\ job[d].at # "idle"
      BY <1>12 DEF WriteFile, NextFile, Files
    <3>2. QED
      BY <1>12, <3>1, IdleJobIs DEF WriteFile, DispatchInv, JobInv, Job
  <2>2. QED
    BY <2>1 DEF Files
<1>13. ASSUME NEW d \in Dispatchers, Crash(d) PROVE LoneInv'
  BY <1>13, IdleJobIs DEF Crash, DispatchInv, JobInv, Job, Files
<1>14. ASSUME NEW x \in 1 .. MaxExec, Exit(x) PROVE LoneInv'
  BY <1>14 DEF Exit, DispatchInv, ProcInv, Process
<1>15. CASE UNCHANGED vars
  BY <1>15 DEF vars
<1>16. QED
  BY <1>1, <1>2, <1>3, <1>4, <1>5, <1>6, <1>7, <1>8, <1>9, <1>10, <1>11, <1>12, <1>13, <1>14, <1>15 DEF Next, Step

(* With one dispatcher, a process runs the prompt of the handoff that its   *)
(* own dispatch was confirmed for, whatever a crash left on disk.           *)
THEOREM LoneRunsItsHandoff == Spec => []RunsItsHandoff
<1>1. DispatchInv /\ LoneInv => RunsItsHandoff
  BY LoneMeansOne DEF LoneInv, OwnInv, RunsItsHandoff
<1>2. DispatchInv /\ LoneInv /\ [Next]_vars => LoneInv'
  BY LoneNext
<1>3. QED
  BY <1>1, <1>2, LoneInit, SafetySpec, PTL DEF Spec

-----------------------------------------------------------------------------
(* The order of the three files, with a lone dispatcher.                   *)

Entry(d) == [exec |-> job[d].exec, status |-> job[d].status]
InStep ==
  /\ files.receipt.exec <= files.runtime.exec
  /\ files.runtime.exec <= files.result.exec
  /\ \A f, g \in Files : files[f].exec = files[g].exec => files[f] = files[g]

\* What a job has written so far is its own entry, what it has not is older.
WritesInStep(d) ==
  /\ job[d].at \in Running \cup {"result"} => files.result.exec < job[d].exec
  /\ job[d].at \in {"runtime", "receipt"} => files.result = Entry(d)
  /\ job[d].at = "runtime" => files.runtime.exec < job[d].exec
  /\ job[d].at = "receipt" => files.runtime = Entry(d) /\ files.receipt.exec < job[d].exec

\* A step before the first file, or the end of a job.
Advance(d) ==
  /\ UNCHANGED files /\ \A e \in Dispatchers \ {d} : job'[e] = job[e]
  /\ \/ job'[d].at = "idle"
     \/ /\ job[d].at \in Running /\ job'[d].at \in Running \cup {"result"}
        /\ job'[d].exec = job[d].exec

StepInv == OnlyOne => InStep /\ \A d \in Dispatchers : WritesInStep(d)

LEMMA StepInit == Init => StepInv
  BY IdleJobIs DEF Init, NoEntry, StepInv, InStep, WritesInStep, Running, Gated, Files

LEMMA StepNext ==
  ASSUME DispatchInv, DispatchInv', LoneInv, StepInv, [Next]_vars
  PROVE  StepInv'
<1> SUFFICES ASSUME OnlyOne, OnlyOne' PROVE (InStep /\ \A d \in Dispatchers : WritesInStep(d))'
  <2>1. UNCHANGED crew
    BY DEF Next, Step, vars, Revise, Trigger, LoadAndGate, LoadRaises, WriteBrief, WritePrompt,
       WriteDispatchReady, Spawn, Poll, RecordDispatch, Raise, WriteFile, Crash, Exit
  <2>2. QED
    BY <2>1 DEF StepInv, OnlyOne
<1> USE DEF StepInv
<1>0. /\ \A f \in Files : files[f].exec \in 0 .. triggered
      /\ triggered \in Nat
      /\ \A d \in Dispatchers : job[d].exec \in Nat
  BY Bounds DEF DispatchInv, FileInv, JobInv, Job
<1>1. CASE UNCHANGED <<files, job>>
  BY <1>1 DEF InStep, WritesInStep, Entry
<1>2. ASSUME NEW d \in Dispatchers, Trigger(d) PROVE StepInv'
  <2>1. /\ UNCHANGED files /\ job'[d].at \in {"load", "result"}
        /\ job'[d].exec = triggered + 1
        /\ \A e \in Dispatchers \ {d} : job'[e] = job[e]
    BY <1>2 DEF Trigger, IdleJob, DispatchInv, JobInv
  <2>2. QED
    BY <1>0, <2>1 DEF InStep, WritesInStep, Entry, Running, Gated, Files
<1>3. ASSUME NEW d \in Dispatchers, Advance(d) PROVE StepInv'
  BY <1>3 DEF Advance, InStep, WritesInStep, Entry, Running, Gated
<1>4. ASSUME NEW d \in Dispatchers, WriteFile(d) PROVE StepInv'
  <2>1. \A e \in Dispatchers \ {d} : job'[e] = job[e] /\ job[e].at = "idle"
    BY <1>4 DEF WriteFile, DispatchInv, JobInv, LoneInv, CrewInv, OnlyOne, Files
  <2>2. \A f \in Files : files'[f] = IF f = job[d].at THEN Entry(d) ELSE files[f]
    BY <1>4 DEF WriteFile, DispatchInv, FileInv, Entry
  <2>3. CASE job[d].at = "result"
    <3>1. job'[d].at = "runtime" /\ Entry(d)' = Entry(d)
      BY <1>4, <2>3 DEF WriteFile, NextFile, DispatchInv, JobInv, Job, Entry
    <3>2. QED
      BY <1>0, <2>1, <2>2, <2>3, <3>1 DEF InStep, WritesInStep, Entry, Running, Gated, Files
  <2>4. CASE job[d].at = "runtime"
    <3>1. job'[d].at = "receipt" /\ Entry(d)' = Entry(d)
      BY <1>4, <2>4 DEF WriteFile, NextFile, DispatchInv, JobInv, Job, Entry
    <3>2. QED
      BY <1>0, <2>1, <2>2, <2>4, <3>1 DEF InStep, WritesInStep, Entry, Running, Gated, Files
  <2>5. CASE job[d].at = "receipt"
    <3>1. job'[d].at = "idle"
      BY <1>4, <2>5, IdleJobIs DEF WriteFile, NextFile, DispatchInv, JobInv
    <3>2. QED
      BY <1>0, <2>1, <2>2, <2>5, <3>1 DEF InStep, WritesInStep, Entry, Running, Gated, Files
  <2>6. QED
    BY <1>4, <2>3, <2>4, <2>5 DEF WriteFile, Files
<1>5. ASSUME NEW d \in Dispatchers, Step(d) \/ Crash(d), ~ WriteFile(d) PROVE Advance(d)
  <2>1. CASE LoadAndGate(d)
    BY <2>1, IdleJobIs DEF LoadAndGate, Advance, DispatchInv, JobInv, Job, Running, Gated
  <2>2. CASE LoadRaises(d)
    BY <2>2, IdleJobIs DEF LoadRaises, Advance, DispatchInv, JobInv, Job, Running, Gated
  <2>3. CASE WriteBrief(d)
    BY <2>3, IdleJobIs DEF WriteBrief, Advance, DispatchInv, JobInv, Job, Running, Gated
  <2>4. CASE WritePrompt(d)
    BY <2>4, IdleJobIs DEF WritePrompt, Advance, DispatchInv, JobInv, Job, Running, Gated
  <2>5. CASE WriteDispatchReady(d)
    BY <2>5, IdleJobIs DEF WriteDispatchReady, Advance, DispatchInv, JobInv, Job, Running, Gated
  <2>6. CASE Spawn(d)
    BY <2>6, IdleJobIs DEF Spawn, Advance, DispatchInv, JobInv, Job, Running, Gated
  <2>7. CASE Poll(d)
    BY <2>7, IdleJobIs DEF Poll, Advance, DispatchInv, JobInv, Job, Running, Gated
  <2>8. CASE RecordDispatch(d)
    BY <2>8, IdleJobIs DEF RecordDispatch, Advance, DispatchInv, JobInv, Job, Running, Gated
  <2>9. CASE Raise(d)
    BY <2>9, IdleJobIs DEF Raise, Advance, DispatchInv, JobInv, Job, Running, Gated, Guarded
  <2>10. CASE Crash(d)
    BY <2>10, IdleJobIs DEF Crash, Advance, DispatchInv, JobInv, Job, Running, Gated
  <2>11. QED
    BY <1>5, <2>1, <2>2, <2>3, <2>4, <2>5, <2>6, <2>7, <2>8, <2>9, <2>10 DEF Step
<1>6. CASE Revise \/ UNCHANGED vars \/ \E x \in 1 .. MaxExec : Exit(x)
  BY <1>1, <1>6 DEF Revise, Exit, vars
<1>7. QED
  BY <1>2, <1>3, <1>4, <1>5, <1>6 DEF Next

(* With one dispatcher, the receipt never knows of an execution that the   *)
(* runtime status and the result do not, and files of one execution agree.  *)
THEOREM LoneFilesInStep == Spec => []FilesInStep
<1>1. DispatchInv /\ StepInv => FilesInStep
  BY LoneMeansOne DEF StepInv, InStep, FilesInStep
<1>2. DispatchInv /\ DispatchInv' /\ LoneInv /\ StepInv /\ [Next]_vars => StepInv'
  BY StepNext
<1>3. DispatchInv /\ LoneInv /\ [Next]_vars => LoneInv'
  BY LoneNext
<1>4. QED
  BY <1>1, <1>2, <1>3, LoneInit, StepInit, SafetySpec, PTL DEF Spec
=============================================================================
