--------------------------- MODULE RoundFlow_proofs ---------------------------
(***************************************************************************)
(* Proofs about a round of the semi-manual bridge, for any number of       *)
(* briefs, days, handoffs and processes.                                   *)
(***************************************************************************)
EXTENDS RoundFlow, FiniteSetTheorems, TLAPS

(* Which files are there: each tool insists on the files it starts from, so *)
(* that no tool reads a field of a missing file.                            *)
FilesThere ==
    /\ ready # NoFile => handoff # NoFile
    /\ action # NoFile => ready # NoFile
    /\ call.at \notin {"idle", "bridge"} => bridge # NoFile
    /\ call.at = "receipt" => procs # <<>>
    /\ call.at = "check" \/ (call.at = "result" /\ call.final = "executed_continue_success")
          => receipt # NoFile
    /\ call.at = "skeleton" => receipt # NoFile /\ completion # NoFile

TypeInv == RoundTypeOK /\ FilesThere

(* The ids of a handoff are a brief and a handoff id.                       *)
LEMMA IdsTyped == \A h \in Handoff : Ids(h) \in Identity
BY DEF Handoff, Identity, Ids

(* The id of a new handoff is well formed.                                  *)
LEMMA IdTyped ==
    ASSUME RoundTypeOK, NEW today \in Today
    PROVE  NextHandoffId(today) \in HandoffId
BY DEF RoundTypeOK, NextHandoffId, Today, HandoffId, Handoff, File

(* The gates answer yes or no for any handoff on file.                      *)
LEMMA GatesTyped ==
    ASSUME RoundTypeOK, handoff # NoFile
    PROVE  GatesPass \in BOOLEAN
BY DEF RoundTypeOK, File, GatesPass, Executable, Handoff

(* A receipt is written for the package on file, and the executor ends with *)
(* one of its two results for a dispatch.                                   *)
LEMMA OutcomeTyped ==
    ASSUME TypeInv, call.at \in {"execute", "receipt"},
           NEW status \in {"blocked", "dispatched", "failed"}, NEW pid \in 0 .. MaxProcs,
           Outcome(status, pid)
    PROVE  /\ receipt' \in Receipt /\ receipt' # NoFile
           /\ call' \in [at : Phase, final : Final \cup {"none"}, ready : BOOLEAN]
           /\ call'.at = "result" /\ call'.final \in Final
<1>1. ready \in Ready
  BY DEF TypeInv, RoundTypeOK, FilesThere, File
<1>2. receipt' \in Receipt
  BY <1>1 DEF Outcome, Ready, Receipt
<1>3. call \in [at : Phase, final : Final \cup {"none"}, ready : BOOLEAN]
  BY DEF TypeInv, RoundTypeOK
<1>4. CASE status = "dispatched"
  <2>1. call' = [call EXCEPT !.at = "result", !.final = "executed_continue_success"]
    BY <1>4 DEF Outcome
  <2> QED
    BY <1>2, <1>3, <2>1, NoFileAssumption DEF Phase, Final
<1>5. CASE status # "dispatched"
  <2>1. call' = [call EXCEPT !.at = "result", !.final = "executed_continue_failed"]
    BY <1>5 DEF Outcome
  <2> QED
    BY <1>2, <1>3, <2>1, NoFileAssumption DEF Phase, Final
<1> QED
  BY <1>4, <1>5

(* The completion state is one of the five, given the files it is read from. *)
LEMMA ObserveTyped == Observe \in State
BY DEF Observe, State

(* A skeleton can be made of whatever files are there.                      *)
LEMMA SkeletonTyped ==
    ASSUME TypeInv
    PROVE  Linked \in BOOLEAN /\ Skeleton \in Prefilled /\ Skeleton # NoFile
<1>1. Linked \in BOOLEAN
  BY DEF Linked
<1>2. Tells \in {"nothing", "dispatch", "end"}
  BY DEF Tells
<1>3. (IF handoff = NoFile THEN NoFile ELSE Ids(handoff)) \in File(Identity)
  BY IdsTyped DEF TypeInv, RoundTypeOK, File
<1>4. Skeleton \in Prefilled
  BY <1>1, <1>2, <1>3 DEF Skeleton, Prefilled
<1> QED
  BY <1>1, <1>4, NoFileAssumption

(* Every file holds what its tool writes, and no tool reads a missing file. *)
THEOREM TypeInvariance == Spec => []TypeInv
<1> USE DEF TypeInv, RoundTypeOK, FilesThere, File, vars, prepared, asked, outcome, closing,
            Idle, GoTo, Phase, Final, NoCall
<1>1. Init => TypeInv
  BY RoundAssumption DEF Init
<1>2. TypeInv /\ [Next]_vars => TypeInv'
  <2> SUFFICES ASSUME TypeInv, [Next]_vars PROVE TypeInv'
    OBVIOUS
  <2>1. CASE \E approval \in Approval, today \in Today : WriteHandoff(approval, today)
    <3> PICK approval \in Approval, today \in Today : WriteHandoff(approval, today)
      BY <2>1
    <3>1. NextHandoffId(today) \in HandoffId
      BY IdTyped
    <3>2. dryRun \in Brief /\ (dryRun \in Valid) \in BOOLEAN
      BY DEF WriteHandoff
    <3>3. handoff' \in Handoff
      BY <3>1, <3>2 DEF WriteHandoff, Handoff
    <3> QED
      BY <3>3, NoFileAssumption DEF WriteHandoff
  <2>2. CASE \E b \in Brief : ExportDryRun(b)
    BY <2>2, NoFileAssumption, RoundAssumption DEF ExportDryRun
  <2>3. CASE PrepareRound
    BY <2>3, NoFileAssumption, RoundAssumption, IdsTyped DEF PrepareRound, Executable, PromptOf
  <2>4. CASE PrepareDispatch
    BY <2>4, NoFileAssumption, IdsTyped, GatesTyped DEF PrepareDispatch, Ready
  <2>5. CASE \E act \in OwnerAction : RecordAction(act)
    BY <2>5, NoFileAssumption, RoundAssumption DEF RecordAction, Begin, Asked, Ready
  <2>6. CASE ReuseAction
    BY <2>6, NoFileAssumption, RoundAssumption DEF ReuseAction, Begin
  <2>7. CASE BridgeAction
    BY <2>7, NoFileAssumption, RoundAssumption DEF BridgeAction
  <2>8. CASE NoExecution
    <3>1. bridge.act \in {"dispatch", "hold", "needs_fix", "reject"} /\ bridge.act # "dispatch"
      BY <2>8, RoundAssumption DEF NoExecution, FlowState, Asked
    <3>2. \E final \in Final : call' = [call EXCEPT !.at = "result", !.final = final]
                           /\ final # "executed_continue_success"
      BY <2>8, <3>1 DEF NoExecution, FlowState
    <3>3. call.at = "execute" /\ UNCHANGED <<prepared, asked, outcome, closing, procs>>
      BY <2>8 DEF NoExecution
    <3> PICK final \in Final : /\ call' = [call EXCEPT !.at = "result", !.final = final]
                               /\ final # "executed_continue_success"
      BY <3>2
    <3>4. /\ call' \in [at : Phase, final : Final \cup {"none"}, ready : BOOLEAN]
          /\ call'.at = "result" /\ call'.final = final
      OBVIOUS
    <3> QED
      BY <3>3, <3>4
  <2>9. CASE Refuse
    BY <2>9, OutcomeTyped, RoundAssumption DEF Refuse
  <2>10. CASE FailToStart
    BY <2>10, OutcomeTyped, RoundAssumption DEF FailToStart
  <2>11. CASE Start
    <3>1. ready.ids \in Identity /\ prompt \in Identity
      BY <2>11 DEF Start, Dispatchable, Ready
    <3>2. procs' \in Seq(Process) /\ Len(procs') <= MaxProcs /\ procs' # <<>>
      BY <2>11, <3>1, RoundAssumption DEF Start, Process
    <3> QED
      BY <2>11, <3>2 DEF Start
  <2>12. CASE WriteReceipt
    <3>1. Len(procs) \in 0 .. MaxProcs /\ 0 \in 0 .. MaxProcs
      BY RoundAssumption
    <3>2. \E status \in {"blocked", "dispatched", "failed"}, pid \in 0 .. MaxProcs : Outcome(status, pid)
      BY <2>12, <3>1 DEF WriteReceipt
    <3> QED
      BY <2>12, <3>2, OutcomeTyped DEF WriteReceipt
  <2>13. CASE WriteResult
    BY <2>13, NoFileAssumption, RoundAssumption DEF WriteResult, Asked
  <2>14. CASE Check
    <3>1. completion' \in Completion
      BY <2>14, ObserveTyped DEF Check, Completion, Receipt
    <3> QED
      BY <2>14, <3>1, NoFileAssumption DEF Check
  <2>15. CASE CheckFails
    BY <2>15, NoFileAssumption, RoundAssumption DEF CheckFails
  <2>16. CASE BuildSkeleton
    BY <2>16, SkeletonTyped DEF BuildSkeleton
  <2>17. CASE Finish
    BY <2>17, NoFileAssumption, RoundAssumption DEF Finish
  <2>18. CASE Crash
    BY <2>18, NoFileAssumption, RoundAssumption DEF Crash
  <2>19. CASE \E i \in 1 .. Len(procs) : Exit(i)
    <3> PICK i \in 1 .. Len(procs) : Exit(i)
      BY <2>19
    <3>1. procs' = [procs EXCEPT ![i] = [procs[i] EXCEPT !.alive = FALSE]]
      BY DEF Exit
    <3>2. procs[i] \in Process
      OBVIOUS
    <3>3. procs' \in Seq(Process) /\ Len(procs') = Len(procs)
      <4>1. [procs[i] EXCEPT !.alive = FALSE] \in Process
        BY <3>2 DEF Process
      <4> QED
        BY <3>1, <4>1
    <3> QED
      BY <3>3 DEF Exit
  <2>20. CASE CaptureCompletion
    BY <2>20, NoFileAssumption, ObserveTyped DEF CaptureCompletion, Completion, Receipt
  <2>21. CASE WriteExecutionReceipt
    BY <2>21, NoFileAssumption, RoundAssumption, IdsTyped DEF WriteExecutionReceipt
  <2>22. CASE \E d \in Decision : FinalReview(d)
    BY <2>22, IdsTyped DEF FinalReview, Reviewable
  <2>23. CASE SkeletonFails
    BY <2>23, NoFileAssumption, RoundAssumption DEF SkeletonFails
  <2>24. CASE PrefillSkeleton
    BY <2>24, SkeletonTyped DEF PrefillSkeleton
  <2>25. CASE UNCHANGED vars
    BY <2>25
  <2> QED
    BY <2>1, <2>2, <2>3, <2>4, <2>5, <2>6, <2>7, <2>8, <2>9, <2>10, <2>11, <2>12, <2>13, <2>14, <2>15, <2>16, <2>17, <2>18, <2>19, <2>20, <2>21, <2>22, <2>23, <2>24, <2>25 DEF Next
<1>3. QED
  BY <1>1, <1>2, PTL DEF Spec

(* The part of it the run checks: every file and call is well typed.        *)
THEOREM Typing == Spec => []RoundTypeOK
<1>1. TypeInv => RoundTypeOK
  BY DEF TypeInv
<1> QED
  BY <1>1, TypeInvariance, PTL

-----------------------------------------------------------------------------
(* The steps that write no file of the preparation and start no process.    *)
Aside ==
    \/ \E b \in Brief : ExportDryRun(b)
    \/ \E act \in OwnerAction : RecordAction(act)
    \/ ReuseAction \/ BridgeAction \/ NoExecution
    \/ Refuse \/ FailToStart \/ WriteReceipt
    \/ WriteResult \/ Check \/ CheckFails \/ BuildSkeleton \/ SkeletonFails
    \/ Finish \/ Crash
    \/ CaptureCompletion \/ PrefillSkeleton \/ WriteExecutionReceipt
    \/ \E d \in Decision : FinalReview(d)

(* They leave the preparation, the processes and the history alone.         *)
LEMMA AsideKeeps ==
    ASSUME Aside \/ UNCHANGED vars
    PROVE  UNCHANGED <<handoff, prompt, ready, procs, issued>>
<1> USE DEF prepared, asked, outcome, closing
<1>1. CASE \E b \in Brief : ExportDryRun(b)
  BY <1>1 DEF ExportDryRun
<1>2. CASE \E act \in OwnerAction : RecordAction(act)
  BY <1>2 DEF RecordAction
<1>3. CASE ReuseAction \/ BridgeAction \/ NoExecution
  BY <1>3 DEF ReuseAction, BridgeAction, NoExecution
<1>4. CASE Refuse \/ FailToStart \/ WriteReceipt
  BY <1>4 DEF Refuse, FailToStart, WriteReceipt
<1>5. CASE WriteResult \/ Check \/ CheckFails \/ BuildSkeleton \/ SkeletonFails
  BY <1>5 DEF WriteResult, Check, CheckFails, BuildSkeleton, SkeletonFails
<1>6. CASE \/ Finish \/ Crash \/ CaptureCompletion \/ PrefillSkeleton \/ WriteExecutionReceipt
           \/ \E d \in Decision : FinalReview(d)
  BY <1>6 DEF Finish, Crash, CaptureCompletion, PrefillSkeleton, WriteExecutionReceipt, FinalReview
<1>7. CASE UNCHANGED vars
  BY <1>7 DEF vars
<1> QED
  BY <1>1, <1>2, <1>3, <1>4, <1>5, <1>6, <1>7 DEF Aside

(* Every step is one of the five that matter here, or aside.                *)
LEMMA Steps ==
    ASSUME [Next]_vars
    PROVE  \/ \E approval \in Approval, today \in Today : WriteHandoff(approval, today)
           \/ PrepareRound \/ PrepareDispatch \/ Start
           \/ \E i \in 1 .. Len(procs) : Exit(i)
           \/ Aside \/ UNCHANGED vars
BY DEF Next, Aside

(* A process that ends keeps its ids.                                       *)
LEMMA ExitKeeps ==
    ASSUME TypeInv, NEW j \in 1 .. Len(procs), Exit(j)
    PROVE  /\ Len(procs') = Len(procs)
           /\ \A i \in 1 .. Len(procs) :
                 /\ procs'[i].ids = procs[i].ids /\ procs'[i].built = procs[i].built
                 /\ ~procs[i].alive => ~procs'[i].alive
<1>1. procs \in Seq(Process)
  BY DEF TypeInv, RoundTypeOK
<1>2. procs' = [procs EXCEPT ![j] = [procs[j] EXCEPT !.alive = FALSE]]
  BY DEF Exit
<1>3. procs[j] \in Process
  BY <1>1
<1>4. /\ [procs[j] EXCEPT !.alive = FALSE].ids = procs[j].ids
      /\ [procs[j] EXCEPT !.alive = FALSE].built = procs[j].built
      /\ ~[procs[j] EXCEPT !.alive = FALSE].alive
  BY <1>3 DEF Process
<1> QED
  BY <1>1, <1>2, <1>4

-----------------------------------------------------------------------------
(* What runs was approved.  A prompt and a package that passed the gates    *)
(* each come from an approved handoff, not always from the same one.        *)
Approved(ids) == \E h \in issued : Executable(h) /\ Ids(h) = ids

ApprovedInv ==
    /\ handoff # NoFile => handoff \in issued
    /\ prompt # NoFile => Approved(prompt)
    /\ ready # NoFile /\ ready.ok => Approved(ready.ids)
    /\ ApprovedRuns

(* An action that writes none of these files and starts nothing.            *)
LEMMA ApprovedKept ==
    ASSUME ApprovedInv, UNCHANGED <<handoff, prompt, ready, procs, issued>>
    PROVE  ApprovedInv'
BY DEF ApprovedInv, Approved, ApprovedRuns

(* Processes run approved work only, whichever files were replaced between. *)
THEOREM ApprovedRunsHold == Spec => []ApprovedRuns
<1>1. Init => ApprovedInv
  BY DEF Init, ApprovedInv, ApprovedRuns
<1>2. TypeInv /\ ApprovedInv /\ [Next]_vars => ApprovedInv'
  <2> SUFFICES ASSUME TypeInv, ApprovedInv, [Next]_vars PROVE ApprovedInv'
    OBVIOUS
  <2>1. CASE \E approval \in Approval, today \in Today : WriteHandoff(approval, today)
    <3> PICK approval \in Approval, today \in Today : WriteHandoff(approval, today)
      BY <2>1
    <3>1. handoff' \in issued' /\ issued \subseteq issued'
      BY DEF WriteHandoff
    <3>2. UNCHANGED <<prompt, ready, procs>>
      BY DEF WriteHandoff
    <3> QED
      BY <3>1, <3>2 DEF ApprovedInv, Approved, ApprovedRuns
  <2>2. CASE PrepareRound
    <3>1. handoff \in issued /\ Executable(handoff)
      BY <2>2 DEF PrepareRound, Executable, ApprovedInv
    <3>2. prompt' = Ids(handoff) /\ UNCHANGED <<handoff, ready, procs, issued>>
      BY <2>2 DEF PrepareRound, PromptOf
    <3> QED
      BY <3>1, <3>2 DEF ApprovedInv, Approved, ApprovedRuns
  <2>3. CASE PrepareDispatch
    <3>1. ready' = [ids |-> Ids(handoff), ok |-> GatesPass]
          /\ UNCHANGED <<handoff, prompt, procs, issued>>
      BY <2>3 DEF PrepareDispatch
    <3>2. handoff \in issued /\ ready'.ok = GatesPass
      BY <2>3, <3>1 DEF PrepareDispatch, ApprovedInv
    <3>3. GatesPass => Executable(handoff)
      BY DEF GatesPass
    <3>4. ready'.ok => Approved(ready'.ids)
      BY <3>1, <3>2, <3>3 DEF Approved
    <3> QED
      BY <3>1, <3>4 DEF ApprovedInv, Approved, ApprovedRuns
  <2>4. CASE Start
    <3>1. ready # NoFile
      BY <2>4 DEF Start, TypeInv, RoundTypeOK, FilesThere
    <3>2. Approved(ready.ids) /\ Approved(prompt)
      BY <2>4, <3>1 DEF Start, Dispatchable, ApprovedInv
    <3>3. /\ procs' = Append(procs, [ids |-> ready.ids, built |-> prompt, alive |-> TRUE])
          /\ UNCHANGED <<handoff, prompt, ready, issued>>
      BY <2>4 DEF Start, prepared
    <3>4. procs \in Seq(Process)
      BY DEF TypeInv, RoundTypeOK
    <3>5. ApprovedRuns'
      <4> SUFFICES ASSUME NEW i \in 1 .. Len(procs')
                   PROVE  Approved(procs'[i].built) /\ Approved(procs'[i].ids)
        BY <3>3 DEF ApprovedRuns, Approved
      <4>1. CASE i = Len(procs) + 1
        BY <3>2, <3>3, <3>4, <4>1
      <4>2. CASE i # Len(procs) + 1
        <5>1. i \in 1 .. Len(procs) /\ procs'[i] = procs[i]
          BY <3>3, <3>4, <4>2
        <5> QED
          BY <5>1 DEF ApprovedInv, ApprovedRuns, Approved
      <4> QED
        BY <4>1, <4>2
    <3> QED
      BY <3>3, <3>5 DEF ApprovedInv, Approved
  <2>5. CASE \E i \in 1 .. Len(procs) : Exit(i)
    <3> PICK j \in 1 .. Len(procs) : Exit(j)
      BY <2>5
    <3>1. UNCHANGED <<handoff, prompt, ready, issued>>
      BY DEF Exit, prepared
    <3>2. Len(procs') = Len(procs)
          /\ \A i \in 1 .. Len(procs) : procs'[i].built = procs[i].built
                                       /\ procs'[i].ids = procs[i].ids
      BY ExitKeeps
    <3> QED
      BY <3>1, <3>2 DEF ApprovedInv, Approved, ApprovedRuns
  <2>6. CASE Aside \/ UNCHANGED vars
    BY <2>6, AsideKeeps, ApprovedKept
  <2> QED
    BY <2>1, <2>2, <2>3, <2>4, <2>5, <2>6, Steps
<1>3. ApprovedInv => ApprovedRuns
  BY DEF ApprovedInv
<1> QED
  BY <1>1, <1>2, <1>3, TypeInvariance, PTL DEF Spec

-----------------------------------------------------------------------------
(* Handoff ids.  The handoff on file is the latest, so one more than its     *)
(* number, or a later day, is after all of them.                             *)
Before(a, b) == a[1] < b[1] \/ (a[1] = b[1] /\ a[2] < b[2])

LatestInv ==
    /\ handoff = NoFile => issued = {}
    /\ handoff # NoFile => handoff \in issued
    /\ \A g \in issued : g.id = handoff.id \/ Before(g.id, handoff.id)
    /\ \A g, h \in issued : g.id = h.id => g = h

(* An id taken from the handoff on file comes after those of all before it.  *)
LEMMA NextIsAfter ==
    ASSUME TypeInv, LatestInv, NEW today \in Today, NEW g \in issued
    PROVE  Before(g.id, NextHandoffId(today))
<1>1. handoff # NoFile /\ handoff \in Handoff /\ g \in Handoff /\ today \in Nat
  BY DEF TypeInv, RoundTypeOK, File, LatestInv, Today
<1>2. today >= handoff.id[1]
  BY <1>1 DEF Today
<1>3. g.id \in HandoffId /\ handoff.id \in HandoffId
  BY <1>1 DEF Handoff
<1>4. g.id = handoff.id \/ Before(g.id, handoff.id)
  BY DEF LatestInv
<1>5. CASE handoff.id[1] = today
  <2>1. NextHandoffId(today) = <<today, handoff.id[2] + 1>>
    BY <1>1, <1>5 DEF NextHandoffId
  <2> QED
    BY <1>3, <1>4, <1>5, <2>1 DEF Before, HandoffId
<1>6. CASE handoff.id[1] # today
  <2>1. NextHandoffId(today) = <<today, 1>>
    BY <1>1, <1>6 DEF NextHandoffId
  <2> QED
    BY <1>1, <1>2, <1>3, <1>4, <1>6, <2>1 DEF Before, HandoffId
<1> QED
  BY <1>5, <1>6

(* No id comes before itself.                                                *)
LEMMA BeforeStrict ==
    ASSUME NEW a \in HandoffId, NEW b \in HandoffId, Before(a, b)
    PROVE  a # b /\ ~Before(b, a)
BY DEF Before, HandoffId

(* Writing a handoff keeps the ids apart, and makes it the latest.           *)
LEMMA WriteKeepsLatest ==
    ASSUME TypeInv, LatestInv, NEW approval \in Approval, NEW today \in Today,
           WriteHandoff(approval, today)
    PROVE  /\ LatestInv'
           /\ \A h \in issued' \ issued : \A g \in issued : h.id # g.id
<1>1. NextHandoffId(today) \in HandoffId
  BY IdTyped DEF TypeInv
<1>2. /\ handoff' = [id |-> NextHandoffId(today), brief |-> dryRun, approval |-> approval,
                     valid |-> dryRun \in Valid]
      /\ issued' = issued \cup {handoff'}
  BY DEF WriteHandoff
<1>4. handoff'.id = NextHandoffId(today)
  BY <1>2
<1>5. dryRun \in Brief
  BY DEF WriteHandoff, TypeInv, RoundTypeOK, File
<1>6. (dryRun \in Valid) \in BOOLEAN
  OBVIOUS
<1>7. handoff' \in Handoff
  BY <1>1, <1>5, <1>6 DEF WriteHandoff, Handoff
<1>8. handoff' # NoFile
  BY <1>7, NoFileAssumption
<1>3. \A g \in issued : Before(g.id, handoff'.id) /\ g.id # handoff'.id
  <2> SUFFICES ASSUME NEW g \in issued PROVE Before(g.id, handoff'.id) /\ g.id # handoff'.id
    OBVIOUS
  <2>1. g.id \in HandoffId
    BY DEF TypeInv, RoundTypeOK, Handoff
  <2> QED
    BY <1>1, <1>4, <2>1, NextIsAfter, BeforeStrict
<1> QED
  BY <1>2, <1>3, <1>7, <1>8 DEF LatestInv

(* The handoff on file is the latest, and ids are not used twice.            *)
LEMMA Latest == Spec => []LatestInv
<1>1. Init => LatestInv
  BY DEF Init, LatestInv
<1>2. TypeInv /\ LatestInv /\ [Next]_vars => LatestInv'
  <2> SUFFICES ASSUME TypeInv, LatestInv, [Next]_vars PROVE LatestInv'
    OBVIOUS
  <2>1. CASE \E approval \in Approval, today \in Today : WriteHandoff(approval, today)
    BY <2>1, WriteKeepsLatest
  <2>2. CASE UNCHANGED <<handoff, issued>>
    BY <2>2 DEF LatestInv, Before
  <2> QED
    BY <2>1, <2>2, Steps, AsideKeeps
       DEF PrepareRound, PrepareDispatch, Start, Exit, prepared
<1> QED
  BY <1>1, <1>2, TypeInvariance, PTL DEF Spec

(* No two handoffs share an id as long as the file of the last one is kept.  *)
THEOREM HandoffIdsStayFresh == Spec => HandoffIdsFresh
<1>1. TypeInv /\ LatestInv /\ [Next]_vars
      => [\A h \in issued' \ issued : \A g \in issued : h.id # g.id]_vars
  <2> SUFFICES ASSUME TypeInv, LatestInv, [Next]_vars
               PROVE  \A h \in issued' \ issued : \A g \in issued : h.id # g.id
    OBVIOUS
  <2>1. CASE \E approval \in Approval, today \in Today : WriteHandoff(approval, today)
    BY <2>1, WriteKeepsLatest
  <2>2. CASE issued' = issued
    BY <2>2
  <2> QED
    BY <2>1, <2>2, Steps, AsideKeeps
       DEF PrepareRound, PrepareDispatch, Start, Exit, prepared
<1> QED
  BY <1>1, TypeInvariance, Latest, PTL DEF Spec, HandoffIdsFresh

-----------------------------------------------------------------------------
(* The links of a continue-once call.  From the receipt on, the last process *)
(* started is the one the receipt on file is about.                          *)
LastDispatched ==
    /\ receipt.status = "dispatched"
    /\ procs # <<>> /\ procs[Len(procs)].ids = receipt.ids

LinkInv ==
    /\ call.ready => call.at = "finish"
    /\ call.at = "receipt" => procs[Len(procs)].ids = ready.ids
    /\ call.at \in {"check", "skeleton"}
       \/ (call.at = "result" /\ call.final = "executed_continue_success") => LastDispatched
    /\ ReviewReadyIsCurrent

(* Before the dispatch nothing is claimed.                                   *)
LEMMA NothingClaimed ==
    ASSUME call'.at \in {"idle", "bridge", "execute"}, ~call'.ready
    PROVE  LinkInv'
BY DEF LinkInv, ReviewReadyIsCurrent

(* A call that names another step says no more than it said.                 *)
LEMMA GoToKeeps ==
    ASSUME TypeInv, NEW at \in Phase, GoTo(at)
    PROVE  call'.at = at /\ call'.ready = call.ready /\ call'.final = call.final
BY DEF TypeInv, RoundTypeOK, GoTo

(* The steps the owner takes with no call running, and those that end or     *)
(* open one.                                                                 *)
Outside ==
    \/ \E b \in Brief : ExportDryRun(b)
    \/ \E approval \in Approval, today \in Today : WriteHandoff(approval, today)
    \/ PrepareRound \/ PrepareDispatch
    \/ \E act \in OwnerAction : RecordAction(act)
    \/ ReuseAction \/ BridgeAction \/ Finish \/ Crash
    \/ CaptureCompletion \/ PrefillSkeleton \/ WriteExecutionReceipt
    \/ \E d \in Decision : FinalReview(d)

LEMMA OutsideClaimsNothing ==
    ASSUME TypeInv, LinkInv, Outside
    PROVE  call'.at \in {"idle", "bridge", "execute"} /\ ~call'.ready
<1>1. call.at \in {"idle", "bridge"} => ~call.ready
  BY DEF LinkInv
<1>2. CASE UNCHANGED call /\ Idle
  BY <1>1, <1>2 DEF Idle
<1>3. CASE call.at \in {"idle", "bridge"} /\ (GoTo("bridge") \/ GoTo("execute"))
  BY <1>1, <1>3, GoToKeeps DEF Phase
<1>4. CASE call' = NoCall
  BY <1>4 DEF NoCall
<1> QED
  BY <1>2, <1>3, <1>4
     DEF Outside, ExportDryRun, WriteHandoff, PrepareRound, PrepareDispatch, RecordAction,
         ReuseAction, Begin, BridgeAction, Finish, Crash, CaptureCompletion, PrefillSkeleton,
         WriteExecutionReceipt, FinalReview, Idle

(* The claims of a call are true when it makes them and stay true to its end. *)
LEMMA Links == Spec => []LinkInv
<1> USE DEF prepared, asked, outcome, closing
<1>1. Init => LinkInv
  BY DEF Init, LinkInv, ReviewReadyIsCurrent, NoCall
<1>2. TypeInv /\ LinkInv /\ [Next]_vars => LinkInv'
  <2> SUFFICES ASSUME TypeInv, LinkInv, [Next]_vars PROVE LinkInv'
    OBVIOUS
  <2> USE DEF LinkInv, ReviewReadyIsCurrent, LastDispatched
  <2>0. /\ call \in [at : Phase, final : Final \cup {"none"}, ready : BOOLEAN]
        /\ procs \in Seq(Process)
    BY DEF TypeInv, RoundTypeOK
  <2>1. CASE Outside
    BY <2>1, OutsideClaimsNothing, NothingClaimed
  <2>2. CASE NoExecution \/ Refuse \/ FailToStart
    <3>1. call.at = "execute" /\ ~call.ready
      BY <2>2 DEF NoExecution, Refuse, FailToStart
    <3>2. \E final \in Final \ {"executed_continue_success"} :
              call' = [call EXCEPT !.at = "result", !.final = final]
      <4>1. CASE NoExecution
        <5>1. bridge.act \in {"hold", "needs_fix", "reject"}
          BY <4>1, RoundAssumption
             DEF NoExecution, FlowState, Asked, TypeInv, RoundTypeOK, FilesThere, File
        <5> QED
          <6>1. \E final \in Final : call' = [call EXCEPT !.at = "result", !.final = final]
                                 /\ final # "executed_continue_success"
            BY <4>1, <5>1 DEF NoExecution, FlowState, Final
          <6> QED
            BY <6>1
      <4>2. CASE Refuse
        <5>1. call' = [call EXCEPT !.at = "result", !.final = "executed_continue_failed"]
          BY <4>2 DEF Refuse, Outcome
        <5> QED
          BY <5>1 DEF Final
      <4>3. CASE FailToStart
        <5>1. call' = [call EXCEPT !.at = "result", !.final = "executed_continue_failed"]
          BY <4>3 DEF FailToStart, Outcome
        <5> QED
          BY <5>1 DEF Final
      <4> QED
        BY <2>2, <4>1, <4>2, <4>3
    <3> PICK final \in Final \ {"executed_continue_success"} :
              call' = [call EXCEPT !.at = "result", !.final = final]
      BY <3>2
    <3>3. call'.at = "result" /\ call'.final = final /\ call'.ready = call.ready
      BY <2>0
    <3> QED
      BY <3>1, <3>3
  <2>3. CASE Start
    <3>1. call'.at = "receipt" /\ ~call'.ready
      BY <2>3, GoToKeeps DEF Start, Phase
    <3>2. procs' = Append(procs, [ids |-> ready.ids, built |-> prompt, alive |-> TRUE])
          /\ ready' = ready
      BY <2>3 DEF Start
    <3>3. procs'[Len(procs')].ids = ready'.ids
      BY <2>0, <3>2
    <3> QED
      BY <3>1, <3>3
  <2>4. CASE WriteReceipt
    <3>1. /\ call.at = "receipt" /\ ~call.ready /\ procs # <<>>
          /\ UNCHANGED <<ready, procs>>
      BY <2>4 DEF WriteReceipt, TypeInv, FilesThere
    <3>2. PICK status \in {"dispatched", "failed"}, pid \in 0 .. Len(procs) : Outcome(status, pid)
      BY <2>0, <2>4 DEF WriteReceipt
    <3>3. receipt'.ids = ready.ids /\ receipt'.status = status
      BY <3>2 DEF Outcome
    <3>4. CASE status = "dispatched"
      <4>1. call' = [call EXCEPT !.at = "result", !.final = "executed_continue_success"]
        BY <3>2, <3>4 DEF Outcome
      <4>2. call'.at = "result" /\ ~call'.ready
        BY <2>0, <3>1, <4>1
      <4> QED
        BY <3>1, <3>3, <3>4, <4>2
    <3>5. CASE status = "failed"
      <4>1. call' = [call EXCEPT !.at = "result", !.final = "executed_continue_failed"]
        BY <3>2, <3>5 DEF Outcome
      <4>2. call'.at = "result" /\ call'.final = "executed_continue_failed" /\ ~call'.ready
        BY <2>0, <3>1, <4>1
      <4> QED
        BY <4>2
    <3> QED
      BY <3>4, <3>5
  <2>5. CASE WriteResult
    <3>1. /\ call.at = "result" /\ ~call.ready
          /\ GoTo("finish") \/ (call.final = "executed_continue_success" /\ GoTo("check"))
          /\ UNCHANGED <<receipt, procs>>
      BY <2>5 DEF WriteResult
    <3> QED
      BY <3>1, GoToKeeps DEF Phase
  <2>6. CASE Check \/ CheckFails
    <3>1. /\ call.at = "check" /\ ~call.ready
          /\ GoTo("skeleton") \/ GoTo("finish")
          /\ UNCHANGED <<receipt, procs>>
      BY <2>6 DEF Check, CheckFails
    <3> QED
      BY <3>1, GoToKeeps DEF Phase
  <2>7. CASE BuildSkeleton
    <3>1. /\ call.at = "skeleton" /\ LastDispatched
          /\ UNCHANGED <<handoff, receipt, completion, procs>>
      BY <2>7 DEF BuildSkeleton
    <3>2. call' = [call EXCEPT !.at = "finish", !.ready = Linked]
      BY <2>7 DEF BuildSkeleton
    <3>3. call'.at = "finish" /\ call'.ready = Linked
      BY <2>0, <3>2
    <3>4. Linked => /\ receipt.ids = Ids(handoff) /\ completion.ids = Ids(handoff)
      BY <3>1 DEF Linked, TypeInv, FilesThere
    <3>5. call'.ready => Linked
      BY <3>3
    <3>6. Ids(handoff)' = Ids(handoff)
      BY <3>1 DEF Ids
    <3> QED
      BY <3>1, <3>3, <3>4, <3>5, <3>6
  <2>8. CASE \E j \in 1 .. Len(procs) : Exit(j)
    <3> PICK j \in 1 .. Len(procs) : Exit(j)
      BY <2>8
    <3>1. UNCHANGED <<handoff, ready, receipt, completion, call>>
      BY DEF Exit
    <3>2. procs' # <<>> /\ procs # <<>> /\ procs'[Len(procs')].ids = procs[Len(procs)].ids
      <4>1. Len(procs) \in 1 .. Len(procs) /\ procs # <<>>
        BY <2>0
      <4>2. Len(procs') = Len(procs) /\ procs'[Len(procs)].ids = procs[Len(procs)].ids
        BY <4>1, ExitKeeps
      <4>3. procs' # <<>>
        BY <4>1, <4>2
      <4> QED
        BY <4>1, <4>2, <4>3
    <3>3. Ids(handoff)' = Ids(handoff)
      BY <3>1 DEF Ids
    <3> QED
      BY <3>1, <3>2, <3>3
  <2>9. CASE SkeletonFails
    <3>1. call.at = "skeleton" /\ ~call.ready /\ GoTo("finish")
      BY <2>9 DEF SkeletonFails
    <3> QED
      BY <3>1, GoToKeeps DEF Phase
  <2>10. CASE UNCHANGED vars
    <3>1. UNCHANGED <<handoff, ready, receipt, completion, procs, call>>
      BY <2>10 DEF vars
    <3>2. Ids(handoff)' = Ids(handoff)
      BY <3>1 DEF Ids
    <3> QED
      BY <3>1, <3>2
  <2> QED
    BY <2>1, <2>2, <2>3, <2>4, <2>5, <2>6, <2>7, <2>8, <2>9, <2>10 DEF Next, Outside
<1> QED
  BY <1>1, <1>2, TypeInvariance, PTL DEF Spec

(* A continue-once call that lets the owner review speaks of the handoff on  *)
(* file and of the last process started.                                     *)
THEOREM ReadyMeansCurrent == Spec => []ReviewReadyIsCurrent
<1>1. LinkInv => ReviewReadyIsCurrent
  BY DEF LinkInv
<1> QED
  BY <1>1, Links, PTL

-----------------------------------------------------------------------------
(* What the files of a round say of its processes.  The ids in them are those *)
(* of handoffs written, and a state that was observed of a process that ended *)
(* or of a report of the owner still holds of the handoff on file, since the  *)
(* next handoff has another id.                                              *)
Issued(ids) == \E h \in issued : Ids(h) = ids

HasRun(ids)   == \E i \in 1 .. Len(procs) : procs[i].ids = ids
HasEnded(ids) == \E i \in 1 .. Len(procs) : procs[i].ids = ids /\ ~procs[i].alive

ReceiptTrue ==
    receipt # NoFile =>
        /\ Issued(receipt.ids)
        /\ receipt.status = "dispatched" => HasRun(receipt.ids)
        /\ receipt.status = "dispatched" /\ receipt.pid # 0 =>
              receipt.pid \in 1 .. Len(procs) /\ procs[receipt.pid].ids = receipt.ids

CompletionTrue ==
    completion # NoFile =>
        /\ Issued(completion.ids)
        /\ completion.state # "not_dispatched" => HasRun(completion.ids)
        /\ completion.state = "process_exited_no_execution_receipt" => HasEnded(completion.ids)
        /\ completion.state = "execution_receipt_available" /\ completion.ids = Ids(handoff)
              => execution = completion.ids

SkeletonTrue ==
    skeleton # NoFile /\ skeleton.matched =>
        /\ skeleton.ids # NoFile
        /\ skeleton.tells # "nothing" => HasRun(skeleton.ids)
        /\ skeleton.tells = "end" => HasEnded(skeleton.ids)

TraceInv ==
    /\ ready # NoFile => Issued(ready.ids)
    /\ ReceiptTrue /\ CompletionTrue /\ SkeletonTrue

(* The steps that leave these files and the processes alone.                 *)
Apart ==
    \/ \E b \in Brief : ExportDryRun(b)
    \/ PrepareRound
    \/ \E act \in OwnerAction : RecordAction(act)
    \/ ReuseAction \/ BridgeAction \/ NoExecution
    \/ WriteResult \/ CheckFails \/ SkeletonFails \/ Finish \/ Crash
    \/ \E d \in Decision : FinalReview(d)

LEMMA ApartKeeps ==
    ASSUME Apart \/ UNCHANGED vars
    PROVE  UNCHANGED <<handoff, ready, receipt, completion, skeleton, execution, procs, issued>>
<1> USE DEF prepared, asked, outcome, closing
<1>1. CASE \E b \in Brief : ExportDryRun(b)
  BY <1>1 DEF ExportDryRun
<1>2. CASE PrepareRound \/ \E act \in OwnerAction : RecordAction(act)
  BY <1>2 DEF PrepareRound, RecordAction
<1>3. CASE ReuseAction \/ BridgeAction \/ NoExecution
  BY <1>3 DEF ReuseAction, BridgeAction, NoExecution
<1>4. CASE WriteResult \/ CheckFails \/ SkeletonFails \/ Finish \/ Crash
  BY <1>4 DEF WriteResult, CheckFails, SkeletonFails, Finish, Crash
<1>5. CASE \E d \in Decision : FinalReview(d)
  BY <1>5 DEF FinalReview
<1>6. CASE UNCHANGED vars
  BY <1>6 DEF vars
<1> QED
  BY <1>1, <1>2, <1>3, <1>4, <1>5, <1>6 DEF Apart

(* A receipt for the package on file names the last process, or none.        *)
LEMMA NewReceiptTrue ==
    ASSUME TraceInv, ready # NoFile,
           UNCHANGED <<handoff, ready, completion, skeleton, execution, procs, issued>>,
           receipt'.ids = ready.ids,
           \/ receipt'.status # "dispatched"
           \/ receipt'.pid = 0 /\ HasRun(ready.ids)
           \/ receipt'.pid \in 1 .. Len(procs) /\ procs[receipt'.pid].ids = ready.ids
    PROVE  TraceInv'
BY DEF TraceInv, ReceiptTrue, CompletionTrue, SkeletonTrue, Issued, HasRun, HasEnded, Ids

(* What an observation records is so when it is made.                        *)
LEMMA ObservedTrue ==
    ASSUME TypeInv, TraceInv, receipt # NoFile,
           completion' = [ids |-> receipt.ids, state |-> Observe],
           UNCHANGED <<handoff, ready, receipt, skeleton, execution, procs, issued>>
    PROVE  TraceInv'
<1>1. completion'.ids = receipt.ids /\ completion'.state = Observe
  OBVIOUS
<1>2. Issued(receipt.ids)
  BY DEF TraceInv, ReceiptTrue
<1>3. Observe = "execution_receipt_available" => execution = receipt.ids
  BY DEF Observe
<1>4. Observe = "process_exited_no_execution_receipt" => HasEnded(receipt.ids)
  <2> SUFFICES ASSUME Observe = "process_exited_no_execution_receipt"
               PROVE  HasEnded(receipt.ids)
    OBVIOUS
  <2>1. receipt.status = "dispatched" /\ receipt.pid # 0 /\ ~procs[receipt.pid].alive
    BY DEF Observe
  <2> QED
    BY <2>1 DEF HasEnded, TraceInv, ReceiptTrue
<1>5. Observe # "not_dispatched" => HasRun(receipt.ids)
  BY DEF Observe, TraceInv, ReceiptTrue
<1>6. CompletionTrue'
  BY <1>1, <1>2, <1>3, <1>4, <1>5 DEF CompletionTrue, Issued, HasRun, HasEnded
<1> QED
  BY <1>6 DEF TraceInv, ReceiptTrue, SkeletonTrue, Issued, HasRun, HasEnded

(* A skeleton that matches says of its handoff what receipt and completion do. *)
LEMMA PrefilledTrue ==
    ASSUME TypeInv, TraceInv, skeleton' = Skeleton,
           UNCHANGED <<handoff, ready, receipt, completion, execution, procs, issued>>
    PROVE  TraceInv'
<1>1. /\ skeleton'.ids = IF handoff = NoFile THEN NoFile ELSE Ids(handoff)
      /\ skeleton'.matched = Linked /\ skeleton'.tells = Tells
  BY DEF Skeleton
<1>2. SUFFICES ASSUME Linked
               PROVE  /\ Ids(handoff) # NoFile
                      /\ Tells # "nothing" => HasRun(Ids(handoff))
                      /\ Tells = "end" => HasEnded(Ids(handoff))
  BY <1>1 DEF Linked, TraceInv, ReceiptTrue, CompletionTrue, SkeletonTrue, Issued, HasRun, HasEnded,
              Ids
<1>3. /\ receipt # NoFile => receipt.ids = Ids(handoff)
      /\ completion # NoFile => completion.ids = Ids(handoff)
  BY <1>2 DEF Linked
<1>4. Tells # "nothing" => HasRun(Ids(handoff))
  BY <1>3 DEF Tells, TraceInv, ReceiptTrue, CompletionTrue
<1>5. Tells = "end" => HasEnded(Ids(handoff))
  BY <1>3 DEF Tells, TraceInv, CompletionTrue
<1>6. Ids(handoff) # NoFile
  BY <1>2, IdsTyped, NoFileAssumption DEF Linked, TypeInv, RoundTypeOK, File
<1> QED
  BY <1>4, <1>5, <1>6

(* The files are true of the processes, and stay so.                         *)
LEMMA Traces == Spec => []TraceInv
<1> USE DEF prepared, asked, outcome, closing
<1>1. Init => TraceInv
  BY DEF Init, TraceInv, ReceiptTrue, CompletionTrue, SkeletonTrue
<1>2. TypeInv /\ LatestInv /\ LinkInv /\ TraceInv /\ [Next]_vars => TraceInv'
  <2> SUFFICES ASSUME TypeInv, LatestInv, LinkInv, TraceInv, [Next]_vars PROVE TraceInv'
    OBVIOUS
  <2>0. procs \in Seq(Process)
    BY DEF TypeInv, RoundTypeOK
  <2>1. CASE \E approval \in Approval, today \in Today : WriteHandoff(approval, today)
    <3> PICK approval \in Approval, today \in Today : WriteHandoff(approval, today)
      BY <2>1
    <3>1. /\ issued' = issued \cup {handoff'}
          /\ UNCHANGED <<ready, receipt, completion, skeleton, execution, procs>>
      BY DEF WriteHandoff
    <3>2. \A ids : Issued(ids) => Issued(ids)'
      BY <3>1 DEF Issued
    <3>3. completion # NoFile => completion.ids # Ids(handoff')
      <4> SUFFICES ASSUME completion # NoFile, completion.ids = Ids(handoff') PROVE FALSE
        OBVIOUS
      <4> PICK h \in issued : Ids(h) = completion.ids
        BY DEF TraceInv, CompletionTrue, Issued
      <4>1. h.id = handoff'.id
        BY DEF Ids
      <4>2. handoff'.id = NextHandoffId(today)
        BY DEF WriteHandoff
      <4>3. Before(h.id, NextHandoffId(today))
        BY NextIsAfter
      <4>4. NextHandoffId(today) \in HandoffId
        BY IdTyped DEF TypeInv
      <4> QED
        BY <4>1, <4>2, <4>3, <4>4, BeforeStrict
    <3>4. HasEnded(completion.ids)' = HasEnded(completion.ids)
          /\ HasRun(completion.ids)' = HasRun(completion.ids)
      BY <3>1 DEF HasEnded, HasRun
    <3>5. Ids(handoff)' = Ids(handoff')
      BY DEF Ids
    <3>6. CompletionTrue'
      BY <3>1, <3>2, <3>3, <3>4, <3>5 DEF TraceInv, CompletionTrue
    <3> QED
      BY <3>1, <3>2, <3>6 DEF TraceInv, ReceiptTrue, SkeletonTrue, HasRun, HasEnded
  <2>2. CASE PrepareDispatch
    <3>1. /\ ready'.ids = Ids(handoff) /\ handoff \in issued
          /\ UNCHANGED <<handoff, receipt, completion, skeleton, execution, procs, issued>>
      BY <2>2 DEF PrepareDispatch, LatestInv
    <3> QED
      BY <3>1 DEF TraceInv, ReceiptTrue, CompletionTrue, SkeletonTrue, Issued, HasRun, HasEnded, Ids
  <2>3. CASE Refuse \/ FailToStart
    <3>1. ready # NoFile
      BY <2>3 DEF Refuse, FailToStart, TypeInv, RoundTypeOK, FilesThere
    <3>2. receipt'.ids = ready.ids /\ receipt'.status # "dispatched"
      BY <2>3 DEF Refuse, FailToStart, Outcome
    <3> QED
      BY <2>3, <3>1, <3>2, NewReceiptTrue DEF Refuse, FailToStart
  <2>4. CASE Start
    <3>1. /\ procs' = Append(procs, [ids |-> ready.ids, built |-> prompt, alive |-> TRUE])
          /\ UNCHANGED <<handoff, ready, receipt, completion, skeleton, execution, issued>>
      BY <2>4 DEF Start
    <3>2. 1 .. Len(procs) \subseteq 1 .. Len(procs')
          /\ \A i \in 1 .. Len(procs) : procs'[i] = procs[i]
      BY <2>0, <3>1
    <3> QED
      BY <3>1, <3>2
         DEF TraceInv, ReceiptTrue, CompletionTrue, SkeletonTrue, Issued, HasRun, HasEnded, Ids
  <2>5. CASE WriteReceipt
    <3>1. /\ call.at = "receipt" /\ ready # NoFile /\ procs # <<>>
          /\ procs[Len(procs)].ids = ready.ids
          /\ UNCHANGED <<handoff, ready, completion, skeleton, execution, procs, issued>>
      BY <2>5 DEF WriteReceipt, TypeInv, RoundTypeOK, FilesThere, LinkInv
    <3>2. \/ Outcome("dispatched", Len(procs)) \/ Outcome("failed", Len(procs))
          \/ Outcome("dispatched", 0)
      BY <2>5 DEF WriteReceipt
    <3>3. /\ receipt'.ids = ready.ids
          /\ receipt'.pid = Len(procs) \/ receipt'.pid = 0
      BY <3>2 DEF Outcome
    <3>4. Len(procs) \in 1 .. Len(procs)
      BY <2>0, <3>1
    <3>5. HasRun(ready.ids)
      BY <3>1, <3>4 DEF HasRun
    <3> QED
      BY <3>1, <3>3, <3>4, <3>5, NewReceiptTrue
  <2>6. CASE Check \/ CaptureCompletion
    <3>1. receipt # NoFile
      BY <2>6 DEF Check, CaptureCompletion, TypeInv, FilesThere
    <3> QED
      BY <2>6, <3>1, ObservedTrue DEF Check, CaptureCompletion
  <2>7. CASE BuildSkeleton \/ PrefillSkeleton
    BY <2>7, PrefilledTrue DEF BuildSkeleton, PrefillSkeleton
  <2>8. CASE WriteExecutionReceipt
    <3>1. /\ execution' = Ids(handoff)
          /\ UNCHANGED <<handoff, ready, receipt, completion, skeleton, procs, issued>>
      BY <2>8 DEF WriteExecutionReceipt
    <3> QED
      BY <3>1 DEF TraceInv, ReceiptTrue, CompletionTrue, SkeletonTrue, Issued, HasRun, HasEnded, Ids
  <2>9. CASE \E j \in 1 .. Len(procs) : Exit(j)
    <3> PICK j \in 1 .. Len(procs) : Exit(j)
      BY <2>9
    <3>1. UNCHANGED <<handoff, ready, receipt, completion, skeleton, execution, issued>>
      BY DEF Exit
    <3>2. /\ Len(procs') = Len(procs)
          /\ \A i \in 1 .. Len(procs) : /\ procs'[i].ids = procs[i].ids
                                        /\ ~procs[i].alive => ~procs'[i].alive
      BY ExitKeeps
    <3>3. \A ids : (HasEnded(ids) => HasEnded(ids)') /\ (HasRun(ids) => HasRun(ids)')
      BY <3>2 DEF HasEnded, HasRun
    <3> QED
      BY <3>1, <3>2, <3>3
         DEF TraceInv, ReceiptTrue, CompletionTrue, SkeletonTrue, Issued, Ids, HasRun, HasEnded
  <2>10. CASE Apart \/ UNCHANGED vars
    BY <2>10, ApartKeeps
       DEF TraceInv, ReceiptTrue, CompletionTrue, SkeletonTrue, Issued, HasRun, HasEnded, Ids
  <2> QED
    BY <2>1, <2>2, <2>3, <2>4, <2>5, <2>6, <2>7, <2>8, <2>9, <2>10 DEF Next, Apart
<1> QED
  BY <1>1, <1>2, TypeInvariance, Latest, Links, PTL DEF Spec

(* The receipt preparation calls a handoff ready only after its own process  *)
(* has ended or the owner has reported on it.                                *)
THEOREM PreparedAfterEnd == Spec => []PrepAfterEnd
<1>1. TraceInv => PrepAfterEnd
  <2> SUFFICES ASSUME TraceInv, handoff # NoFile, completion # NoFile, ReceiptPrep
               PROVE  execution = Ids(handoff) \/ HasEnded(Ids(handoff))
    BY DEF PrepAfterEnd, HasEnded
  <2>1. completion.ids = Ids(handoff)
        /\ completion.state \in {"execution_receipt_available",
                                 "process_exited_no_execution_receipt"}
    BY DEF ReceiptPrep
  <2> QED
    BY <2>1 DEF TraceInv, CompletionTrue
<1> QED
  BY <1>1, Traces, PTL

(* Seven files hold finitely many ids.                                       *)
LEMMA SevenAreFinite ==
    ASSUME NEW a, NEW b, NEW c, NEW d, NEW e, NEW f, NEW g
    PROVE  IsFiniteSet({a, b, c, d, e, f, g})
<1>1. IsFiniteSet({a}) /\ {a, b} = {a} \cup {b}
  BY FS_Singleton
<1>2. IsFiniteSet({a, b}) /\ {a, b, c} = {a, b} \cup {c}
  BY <1>1, FS_AddElement
<1>3. IsFiniteSet({a, b, c}) /\ {a, b, c, d} = {a, b, c} \cup {d}
  BY <1>2, FS_AddElement
<1>4. IsFiniteSet({a, b, c, d}) /\ {a, b, c, d, e} = {a, b, c, d} \cup {e}
  BY <1>3, FS_AddElement
<1>5. IsFiniteSet({a, b, c, d, e}) /\ {a, b, c, d, e, f} = {a, b, c, d, e} \cup {f}
  BY <1>4, FS_AddElement
<1>6. IsFiniteSet({a, b, c, d, e, f}) /\ {a, b, c, d, e, f, g} = {a, b, c, d, e, f} \cup {g}
  BY <1>5, FS_AddElement
<1> QED
  BY <1>6, FS_AddElement

(* Without a note, any two files of the round carry the same ids.            *)
LEMMA UnnotedAgree ==
    ASSUME ~Mismatch, NEW x \in IdsSeen, NEW y \in IdsSeen
    PROVE  x = y
<1>1. IsFiniteSet(IdsSeen)
  <2>1. IdsSeen \subseteq {ready.ids, action.ids, bridge.ids, executor.ids, completion.ids,
                           skeleton.ids, review.ids}
    BY DEF IdsSeen
  <2> QED
    BY <2>1, SevenAreFinite, FS_Subset
<1>2. Cardinality(IdsSeen) \in Nat
  BY <1>1, FS_CardinalityType
<1>3. SUFFICES ASSUME x # y PROVE FALSE
  OBVIOUS
<1>4. IsFiniteSet({x}) /\ Cardinality({x}) = 1
  BY FS_Singleton
<1>5. Cardinality({x} \cup {y}) = 2
  BY <1>3, <1>4, FS_AddElement
<1>6. Cardinality({x} \cup {y}) <= Cardinality(IdsSeen)
  BY <1>1, FS_Subset
<1> QED
  BY <1>2, <1>5, <1>6 DEF Mismatch

(* A pack that closes a round over matching links, with no note on the ids,  *)
(* closes one whose dispatch is as the skeleton tells.                       *)
THEOREM ClosedRoundsTrue == Spec => []ClosedRoundTrue
<1>1. RoundTypeOK /\ SkeletonTrue /\ ApprovedRuns => ClosedRoundTrue
  <2> SUFFICES ASSUME RoundTypeOK, SkeletonTrue, ApprovedRuns,
                      AuditPack.status[1] = "closed", ~AuditPack.noted,
                      AuditPack.skeleton # "missing", skeleton.matched
               PROVE  /\ skeleton.tells # "nothing" =>
                            \E i \in 1 .. Len(procs), h \in issued :
                               procs[i].ids = review.ids /\ Ids(h) = review.ids /\ Executable(h)
                      /\ skeleton.tells = "end" =>
                            \E i \in 1 .. Len(procs) : procs[i].ids = review.ids /\ ~procs[i].alive
    BY DEF ClosedRoundTrue
  <2>1. review # NoFile
    <3>1. RoundStatus[1] = "closed"
      BY DEF AuditPack
    <3> QED
      BY <3>1 DEF RoundStatus
  <2>2. skeleton # NoFile
    BY DEF AuditPack
  <2>3. ~Mismatch
    BY DEF AuditPack
  <2>4. skeleton.ids # NoFile
    BY <2>2 DEF SkeletonTrue
  <2>5. review.ids = skeleton.ids
    <3>1. review.ids \in Identity
      BY <2>1 DEF RoundTypeOK, File
    <3>2. review.ids \in IdsSeen /\ skeleton.ids \in IdsSeen
      BY <2>1, <2>2, <2>4, <3>1, NoFileAssumption DEF IdsSeen
    <3> QED
      BY <2>3, <3>2, UnnotedAgree
  <2> QED
    BY <2>2, <2>5 DEF SkeletonTrue, ApprovedRuns, HasRun, HasEnded
<1>2. TraceInv => SkeletonTrue
  BY DEF TraceInv
<1> QED
  BY <1>1, <1>2, Typing, Traces, ApprovedRunsHold, PTL

-----------------------------------------------------------------------------
(* Where the ids come from: every prompt, package, action and process is    *)
(* about a handoff that was written.                                        *)
Written(ids) == \E h \in issued : Ids(h) = ids

OriginInv ==
    /\ handoff # NoFile => handoff \in issued
    /\ prompt # NoFile => Written(prompt)
    /\ ready # NoFile => Written(ready.ids)
    /\ action # NoFile => Written(action.ids)
    /\ bridge # NoFile => Written(bridge.ids)
    /\ \A i \in 1 .. Len(procs) : Written(procs[i].ids) /\ Written(procs[i].built)

LEMMA Origins == Spec => []OriginInv
<1>1. Init => OriginInv
  BY DEF Init, OriginInv
<1>2. TypeInv /\ OriginInv /\ [Next]_vars => OriginInv'
  <2> SUFFICES ASSUME TypeInv, OriginInv, [Next]_vars PROVE OriginInv'
    OBVIOUS
  <2> USE DEF OriginInv
  <2>0. procs \in Seq(Process)
    BY DEF TypeInv, RoundTypeOK
  <2>1. CASE UNCHANGED <<handoff, prompt, ready, action, bridge, procs, issued>>
    BY <2>1 DEF Written
  <2>2. ASSUME NEW approval \in Approval, NEW today \in Today, WriteHandoff(approval, today)
        PROVE  OriginInv'
    <3>1. handoff' \in issued' /\ issued \subseteq issued'
      BY <2>2 DEF WriteHandoff
    <3>2. UNCHANGED <<prompt, ready, action, bridge, procs>>
      BY <2>2 DEF WriteHandoff, asked
    <3> QED
      BY <3>1, <3>2 DEF Written
  <2>3. CASE PrepareRound
    <3>1. prompt' = Ids(handoff) /\ handoff # NoFile
          /\ UNCHANGED <<handoff, ready, action, bridge, procs, issued>>
      BY <2>3 DEF PrepareRound, PromptOf, Executable, asked
    <3> QED
      BY <3>1 DEF Written
  <2>4. CASE PrepareDispatch
    <3>1. ready'.ids = Ids(handoff) /\ handoff # NoFile
          /\ UNCHANGED <<handoff, prompt, action, bridge, procs, issued>>
      BY <2>4 DEF PrepareDispatch, asked
    <3> QED
      BY <3>1 DEF Written
  <2>5. ASSUME NEW act \in OwnerAction, RecordAction(act) PROVE OriginInv'
    <3>1. action'.ids = ready.ids /\ ready # NoFile
          /\ UNCHANGED <<handoff, prompt, ready, bridge, procs, issued>>
      BY <2>5 DEF RecordAction, prepared
    <3> QED
      BY <3>1 DEF Written
  <2>6. CASE BridgeAction
    <3>1. bridge' = action /\ action # NoFile
          /\ UNCHANGED <<handoff, prompt, ready, action, procs, issued>>
      BY <2>6 DEF BridgeAction, prepared, TypeInv, RoundTypeOK
    <3> QED
      BY <3>1 DEF Written
  <2>7. CASE Start
    <3> DEFINE new == [ids |-> ready.ids, built |-> prompt, alive |-> TRUE]
    <3>1. /\ procs' = Append(procs, new) /\ prompt # NoFile /\ ready # NoFile
          /\ UNCHANGED <<handoff, prompt, ready, action, bridge, issued>>
      BY <2>7 DEF Start, Dispatchable, prepared, asked, TypeInv, FilesThere, RoundTypeOK
    <3>2. new.ids = ready.ids /\ new.built = prompt
      OBVIOUS
    <3> HIDE DEF new
    <3>3. \A i \in 1 .. Len(procs') : (i \in 1 .. Len(procs) /\ procs'[i] = procs[i]) \/ procs'[i] = new
      BY <2>0, <3>1
    <3> QED
      BY <3>1, <3>2, <3>3 DEF Written
  <2>8. ASSUME NEW j \in 1 .. Len(procs), Exit(j) PROVE OriginInv'
    <3>1. UNCHANGED <<handoff, prompt, ready, action, bridge, issued>>
      BY <2>8 DEF Exit, prepared, asked
    <3> QED
      BY <2>8, <3>1, ExitKeeps DEF Written
  <2>9. CASE Aside \/ UNCHANGED vars
    <3>1. UNCHANGED <<handoff, prompt, ready, procs, issued>>
      BY <2>9, AsideKeeps
    <3>2. \/ UNCHANGED <<action, bridge>> \/ BridgeAction
          \/ \E act \in OwnerAction : RecordAction(act)
      BY <2>9 DEF Aside, ExportDryRun, ReuseAction, NoExecution, Refuse, FailToStart, WriteReceipt,
                  WriteResult, Check, CheckFails, BuildSkeleton, SkeletonFails, Finish, Crash,
                  CaptureCompletion, PrefillSkeleton, WriteExecutionReceipt, FinalReview, asked, vars
    <3> QED
      BY <2>1, <2>5, <2>6, <3>1, <3>2
  <2> QED
    BY <2>2, <2>3, <2>4, <2>7, <2>8, <2>9, Steps
<1> QED
  BY <1>1, <1>2, TypeInvariance, PTL DEF Spec

(* As long as only one handoff has been written the flow needs no check of  *)
(* the ids: every process starts with the prompt of the handoff the owner   *)
(* acted on, and is reported under its ids, whatever was run again or died. *)
OneHandoff == \A g, h \in issued : g = h

THEOREM OneHandoffLinks == Spec => [](OneHandoff => StopsOnMismatch)
<1>1. TypeInv /\ OriginInv => (OneHandoff => StopsOnMismatch)
  <2> SUFFICES ASSUME TypeInv, OriginInv, OneHandoff, call.at = "receipt"
               PROVE  procs[Len(procs)].ids = bridge.ids /\ procs[Len(procs)].built = bridge.ids
    BY DEF StopsOnMismatch
  <2>1. bridge # NoFile /\ Len(procs) \in 1 .. Len(procs)
    BY DEF TypeInv, RoundTypeOK, FilesThere
  <2>2. Written(bridge.ids) /\ Written(procs[Len(procs)].ids) /\ Written(procs[Len(procs)].built)
    BY <2>1 DEF OriginInv
  <2> QED
    BY <2>2 DEF Written, OneHandoff
<1> QED
  BY <1>1, Origins, TypeInvariance, PTL
=============================================================================
