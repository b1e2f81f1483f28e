------------------------------- MODULE RoundFlow -------------------------------
(***************************************************************************)
(* One round of the semi-manual bridge: dry run, handoff, prompt, dispatch *)
(* package, owner action, local dispatch, completion, receipt, final       *)
(* review, audit pack.  Every tool owns one artifact file and overwrites   *)
(* it whole; nothing but the ids inside ties the files of a round together *)
(* and the owner may run any tool again at any time.                       *)
(*                                                                         *)
(* One owner works alone, so that a tool is one step, except for           *)
(* feishu_continue_once, which runs five tools in a row and may die        *)
(* between any two of their writes.  Only the started processes go on by   *)
(* themselves.  The executor and the dispatch runner are here what         *)
(* continue-once calls; the runner as a tool of its own, called by several *)
(* at once, is ExecutionDispatch.                                          *)
(***************************************************************************)
EXTENDS Naturals, FiniteSets, Sequences

CONSTANTS
    Brief,        \* council briefs, each with its request
    Valid,        \* the briefs whose input meets the contract
    Approval,     \* approval statuses given: approved, needs_fix, rejected
    OwnerAction,  \* actions the owner gives: dispatch, hold, needs_fix, reject
    Decision,     \* final decisions the owner gives
    NoFile,
    MaxDay, MaxHandoffs, MaxProcs, MaxCalls  \* bounds

ASSUME RoundAssumption ==
    /\ Valid \subseteq Brief
    /\ Approval \subseteq {"approved", "needs_fix", "rejected"}
    /\ OwnerAction \subseteq {"dispatch", "hold", "needs_fix", "reject"}
    /\ Decision \subseteq {"approved", "revision_request", "needs_fix", "rejected"}
    /\ MaxDay \in Nat /\ MaxHandoffs \in Nat /\ MaxProcs \in Nat
    /\ MaxCalls \in Nat

VARIABLES
    dryRun,      \* council_bridge_dry_run.json: the brief it was run on
    handoff,     \* council_bridge_handoff.json
    prompt,      \* council_codex_prompt.txt: the ids it is headed with
    ready,       \* council_codex_dispatch_ready.json
    action,      \* council_feishu_owner_action.json
    bridge,      \* council_feishu_action_round_bridge.json
    receipt,     \* council_codex_dispatch_receipt.json
    executor,    \* council_bridge_round_executor_result.json
    completion,  \* council_codex_dispatch_completion.json
    skeleton,    \* council_codex_execution_receipt_skeleton.json
    execution,   \* council_codex_execution_receipt.json: its ids
    review,      \* council_owner_final_review_summary.json
    procs,       \* the processes started, in order
    call,        \* the running continue-once call
    calls,       \* continue-once calls begun
    issued       \* history: the handoffs written

prepared == <<dryRun, handoff, prompt, ready, issued>>
asked    == <<action, bridge, calls>>
outcome  == <<receipt, executor, completion, skeleton>>
closing  == <<execution, review>>
vars == <<prepared, asked, outcome, closing, procs, call>>

File(S)   == S \cup {NoFile}

HandoffId == Nat \X (Nat \ {0})
Identity  == [id : HandoffId, brief : Brief]
Handoff   == [id : HandoffId, brief : Brief, approval : Approval, valid : BOOLEAN]
Ids(x)    == [id |-> x.id, brief |-> x.brief]
Asked     == [ids : Identity, act : OwnerAction]
Process   == [ids : Identity, built : Identity, alive : BOOLEAN]
State     == {"not_dispatched", "execution_receipt_available", "running_no_execution_receipt",
              "process_exited_no_execution_receipt", "unknown_process_state"}
Final     == {"paused_no_execution", "loop_back_no_execution", "stopped_no_execution",
              "executed_continue_success", "executed_continue_failed"}
Ready     == [ids : Identity, ok : BOOLEAN]
Receipt   == [ids : Identity, status : {"blocked", "dispatched", "failed"},
              pid : 0 .. MaxProcs]
Completion == [ids : Identity, state : State]
Prefilled  == [ids : File(Identity), matched : BOOLEAN,
               tells : {"nothing", "dispatch", "end"}]
Phase     == {"idle", "bridge", "execute", "receipt", "result", "check", "skeleton", "finish"}
NoCall    == [at |-> "idle", final |-> "none", ready |-> FALSE]
ASSUME NoFileAssumption ==
    /\ NoFile \notin Handoff /\ NoFile \notin Asked /\ NoFile \notin Ready
    /\ NoFile \notin Receipt /\ NoFile \notin Completion /\ NoFile \notin Prefilled
    /\ NoFile \notin Identity

RoundTypeOK ==
    /\ dryRun \in File(Brief) /\ handoff \in File(Handoff) /\ prompt \in File(Identity)
    /\ ready \in File(Ready)
    /\ action \in File(Asked) /\ bridge \in File(Asked)
    /\ receipt \in File(Receipt)
    /\ executor \in File([ids : Identity, status : Final])
    /\ completion \in File(Completion)
    /\ skeleton \in File(Prefilled)
    /\ execution \in File(Identity)
    /\ review \in File([ids : Identity, decision : Decision])
    /\ procs \in Seq(Process) /\ Len(procs) <= MaxProcs
    /\ call \in [at : Phase, final : Final \cup {"none"}, ready : BOOLEAN]
    /\ call.at \in {"result", "check", "skeleton", "finish"} => call.final \in Final
    /\ call.at # "idle" => action # NoFile
    /\ calls \in 0 .. MaxCalls
    /\ issued \subseteq Handoff

Init ==
    /\ dryRun = NoFile /\ handoff = NoFile /\ prompt = NoFile /\ ready = NoFile
    /\ action = NoFile /\ bridge = NoFile
    /\ receipt = NoFile /\ executor = NoFile /\ completion = NoFile
    /\ skeleton = NoFile
    /\ execution = NoFile /\ review = NoFile
    /\ procs = <<>> /\ call = NoCall /\ calls = 0
    /\ issued = {}

Idle == call.at = "idle"

-----------------------------------------------------------------------------
(* Preparing a round.                                                      *)

\* The dry run validates the contract and is written either way.
ExportDryRun(b) ==
    /\ Idle /\ Cardinality(issued) < MaxHandoffs
    /\ dryRun' = b
    /\ UNCHANGED <<handoff, prompt, ready, issued, asked, outcome, closing, procs, call>>

\* Mutant of NextHandoffId: the sequence starts at zero.
ZeroHandoffId(today) ==
    <<today, IF handoff # NoFile /\ handoff.id[1] = today THEN handoff.id[2] + 1 ELSE 0>>

\* Mutant of NextHandoffId: the sequence number is not advanced.
SameHandoffId(today) == <<today, 1>>

\* One more than the handoff on file if that is of today, else the first of today.
NextHandoffId(today) ==
    <<today, IF handoff # NoFile /\ handoff.id[1] = today THEN handoff.id[2] + 1 ELSE 1>>

\* The clock does not go back.
Today == {d \in 0 .. MaxDay : handoff # NoFile => d >= handoff.id[1]}

\* An approval stands on a valid dry run; the other decisions carry no payload.
WriteHandoff(approval, today) ==
    /\ Idle
    /\ dryRun # NoFile /\ Cardinality(issued) < MaxHandoffs
    /\ approval = "approved" => dryRun \in Valid
    /\ handoff' = [id |-> NextHandoffId(today), brief |-> dryRun, approval |-> approval,
                   valid |-> dryRun \in Valid]
    /\ issued' = issued \cup {handoff'}
    /\ UNCHANGED <<dryRun, prompt, ready, asked, outcome, closing, procs, call>>

\* validate_executable_handoff
Executable(h) == h # NoFile /\ h.approval = "approved" /\ h.valid

\* build_codex_prompt: the ids, and the payload and notes that they stand for here.
PromptOf(h) == Ids(h)

\* The prompt of the handoff on file; a handoff that is not executable raises.
PrepareRound ==
    /\ Idle
    /\ Executable(handoff)
    /\ prompt' = PromptOf(handoff)
    /\ UNCHANGED <<dryRun, handoff, ready, issued, asked, outcome, closing, procs, call>>

\* Mutant of GatesPass: any handoff on file goes with a prompt.
GatesPassOnPrompt == prompt # NoFile

\* handoff_executable, prompt_exists, prompt_non_empty: whose prompt is not asked.
GatesPass == Executable(handoff) /\ prompt # NoFile

PrepareDispatch ==
    /\ Idle
    /\ handoff # NoFile
    /\ ready' = [ids |-> Ids(handoff), ok |-> GatesPass]
    /\ UNCHANGED <<dryRun, handoff, prompt, issued, asked, outcome, closing, procs, call>>

-----------------------------------------------------------------------------
(* feishu_continue_once: from an owner action to the receipt skeleton.     *)

\* A step of the call ends, the next begins.
GoTo(at) == call' = [call EXCEPT !.at = at]

\* A call begins; their number is bounded.
Begin ==
    /\ Idle /\ calls < MaxCalls
    /\ GoTo("bridge")
    /\ calls' = calls + 1

\* The action is taken from the ids of the dispatch package the owner looked at ...
RecordAction(act) ==
    /\ Begin
    /\ ready # NoFile
    /\ action' = [ids |-> ready.ids, act |-> act]
    /\ UNCHANGED <<prepared, bridge, outcome, closing, procs>>

\* ... or is an action recorded earlier.
ReuseAction ==
    /\ Begin
    /\ action # NoFile
    /\ UNCHANGED <<prepared, action, bridge, outcome, closing, procs>>

BridgeAction ==
    /\ call.at = "bridge"
    /\ bridge' = action
    /\ GoTo("execute")
    /\ UNCHANGED <<prepared, action, calls, outcome, closing, procs>>

\* _action_plan
FlowState(act) ==
    CASE act = "dispatch"  -> "continue"
      [] act = "hold"      -> "pause"
      [] act = "needs_fix" -> "loop_back"
      [] act = "reject"    -> "stop"

\* The other three run no tool.
NoExecution ==
    /\ call.at = "execute" /\ FlowState(bridge.act) # "continue"
    /\ call' = [call EXCEPT !.at = "result", !.final =
                  CASE FlowState(bridge.act) = "pause"     -> "paused_no_execution"
                    [] FlowState(bridge.act) = "loop_back" -> "loop_back_no_execution"
                    [] FlowState(bridge.act) = "stop"      -> "stopped_no_execution"]
    /\ UNCHANGED <<prepared, asked, outcome, closing, procs>>

\* The runner takes the package and the prompt that are on file by now.  Their
\* ids and the ids of the action are not compared.
Dispatchable == ready.ok /\ prompt # NoFile

Outcome(status, pid) ==
    /\ receipt' = [ids |-> ready.ids, status |-> status, pid |-> pid]
    /\ call' = [call EXCEPT !.at = "result", !.final =
                  IF status = "dispatched" THEN "executed_continue_success"
                  ELSE "executed_continue_failed"]

Refuse ==
    /\ call.at = "execute" /\ FlowState(bridge.act) = "continue"
    /\ ~Dispatchable
    /\ Outcome("blocked", 0)
    /\ UNCHANGED <<prepared, asked, executor, completion, skeleton, closing, procs>>

\* The command is not found.
FailToStart ==
    /\ call.at = "execute" /\ FlowState(bridge.act) = "continue"
    /\ Dispatchable
    /\ Outcome("failed", 0)
    /\ UNCHANGED <<prepared, asked, executor, completion, skeleton, closing, procs>>

Start ==
    /\ call.at = "execute" /\ FlowState(bridge.act) = "continue"
    /\ Dispatchable /\ Len(procs) < MaxProcs
    /\ procs' = Append(procs, [ids |-> ready.ids, built |-> prompt, alive |-> TRUE])
    /\ GoTo("receipt")
    /\ UNCHANGED <<prepared, asked, outcome, closing>>

\* Spawn mode: dispatched if the process is still there a second later.
\* Run mode: dispatched if it ended well, without a pid; failed after a timeout.
WriteReceipt ==
    /\ call.at = "receipt"
    /\ IF procs[Len(procs)].alive THEN Outcome("dispatched", Len(procs))
       ELSE Outcome("failed", Len(procs)) \/ Outcome("dispatched", 0)
    /\ UNCHANGED <<prepared, asked, executor, completion, skeleton, closing, procs>>

\* A run without the two flags, or one that dispatched nothing, ends here.
WriteResult ==
    /\ call.at = "result"
    /\ executor' = [ids |-> bridge.ids, status |-> call.final]
    /\ \/ GoTo("finish")
       \/ call.final = "executed_continue_success" /\ GoTo("check")
    /\ UNCHANGED <<prepared, asked, receipt, completion, skeleton, closing, procs>>

\* build_completion_observation: the receipt of the owner comes before the process.
Observe ==
    CASE receipt.status # "dispatched" -> "not_dispatched"
      [] receipt.status = "dispatched" /\ execution = receipt.ids
            -> "execution_receipt_available"
      [] receipt.status = "dispatched" /\ execution # receipt.ids /\ receipt.pid = 0
            -> "unknown_process_state"
      [] OTHER -> IF procs[receipt.pid].alive THEN "running_no_execution_receipt"
                  ELSE "process_exited_no_execution_receipt"

Check ==
    /\ call.at = "check"
    /\ completion' = [ids |-> receipt.ids, state |-> Observe]
    /\ GoTo("skeleton") \/ GoTo("finish")
    /\ UNCHANGED <<prepared, asked, receipt, executor, skeleton, closing, procs>>

\* An exception in the check is noted; an older completion file serves the skeleton.
CheckFails ==
    /\ call.at = "check"
    /\ \/ GoTo("finish")
       \/ completion # NoFile /\ GoTo("skeleton")
    /\ UNCHANGED <<prepared, asked, outcome, closing, procs>>

\* Mutant of Linked: the handoff on file is left out.
LinkedWithoutHandoff == \A f, g \in {receipt, completion} \ {NoFile} : f.ids = g.ids

\* _identity_status: the files that are there agree with the handoff; a missing
\* one is passed over.
Linked ==
    /\ handoff # NoFile
    /\ \A f \in {receipt, completion} \ {NoFile} : f.ids = Ids(handoff)

\* The dispatch status and the completion state that are copied tell of a process
\* that was dispatched, of one that ended, or of none.
Tells ==
    CASE completion # NoFile /\ completion.state = "process_exited_no_execution_receipt" -> "end"
      [] completion # NoFile /\ completion.state \notin {"not_dispatched",
                                   "process_exited_no_execution_receipt"} -> "dispatch"
      [] OTHER -> IF receipt # NoFile /\ receipt.status = "dispatched" THEN "dispatch" ELSE "nothing"

\* The ids are those of the handoff, before which no other file is there; what
\* the dispatch came to is no condition of a match.
Skeleton == [ids     |-> IF handoff = NoFile THEN NoFile ELSE Ids(handoff),
             matched |-> Linked, tells |-> Tells]

BuildSkeleton ==
    /\ call.at = "skeleton"
    /\ skeleton' = Skeleton
    /\ call' = [call EXCEPT !.at = "finish", !.ready = Linked]
    /\ UNCHANGED <<prepared, asked, receipt, executor, completion, closing, procs>>

\* An exception in the helper is noted too.
SkeletonFails ==
    /\ call.at = "skeleton"
    /\ GoTo("finish")
    /\ UNCHANGED <<prepared, asked, outcome, closing, procs>>

\* The result repeats the status of the executor and says if the owner may review.
Finish ==
    /\ call.at = "finish"
    /\ call' = NoCall
    /\ UNCHANGED <<prepared, asked, outcome, closing, procs>>

\* The call dies between two writes; a process it started goes on.
Crash ==
    /\ ~Idle
    /\ call' = NoCall
    /\ UNCHANGED <<prepared, asked, outcome, closing, procs>>

-----------------------------------------------------------------------------
(* After the dispatch.                                                     *)

Exit(i) ==
    /\ procs[i].alive
    /\ procs' = [procs EXCEPT ![i].alive = FALSE]
    /\ UNCHANGED <<prepared, asked, outcome, closing, call>>

CaptureCompletion ==
    /\ Idle
    /\ receipt # NoFile
    /\ completion' = [ids |-> receipt.ids, state |-> Observe]
    /\ UNCHANGED <<prepared, asked, receipt, executor, skeleton, closing, procs,
                   call>>

\* execution_receipt_skeleton_helper as a tool of its own: at any time, dispatched
\* or not.
PrefillSkeleton ==
    /\ Idle
    /\ skeleton' = Skeleton
    /\ UNCHANGED <<prepared, asked, receipt, executor, completion, closing, procs, call>>

\* The owner reports on the handoff on file, whatever was dispatched.
WriteExecutionReceipt ==
    /\ Idle
    /\ handoff # NoFile
    /\ execution' = Ids(handoff)
    /\ UNCHANGED <<prepared, asked, outcome, review, procs, call>>

\* build_final_review_summary refuses a receipt of another handoff.
Reviewable == handoff # NoFile /\ execution = Ids(handoff)

FinalReview(decision) ==
    /\ Idle
    /\ Reviewable
    /\ review' = [ids |-> execution, decision |-> decision]
    /\ UNCHANGED <<prepared, asked, outcome, execution, procs, call>>

Next ==
    \/ \E b \in Brief : ExportDryRun(b)
    \/ \E approval \in Approval, today \in Today : WriteHandoff(approval, today)
    \/ PrepareRound \/ PrepareDispatch
    \/ \E act \in OwnerAction : RecordAction(act)
    \/ ReuseAction \/ BridgeAction \/ NoExecution
    \/ Refuse \/ FailToStart \/ Start \/ WriteReceipt
    \/ WriteResult \/ Check \/ CheckFails \/ BuildSkeleton \/ SkeletonFails
    \/ Finish \/ Crash
    \/ \E i \in 1 .. Len(procs) : Exit(i)
    \/ CaptureCompletion \/ PrefillSkeleton \/ WriteExecutionReceipt
    \/ \E d \in Decision : FinalReview(d)

Spec == Init /\ [][Next]_vars

-----------------------------------------------------------------------------
(* The two reports made from the files: the preparation of the execution   *)
(* receipt and the audit pack.                                             *)

\* Mutant of ReceiptPrep: the ids of the three files are not compared.
ReceiptPrepUnlinked ==
    /\ completion.state \in {"execution_receipt_available",
                             "process_exited_no_execution_receipt"}
    /\ receipt.status = "dispatched"

\* build_receipt_prep, when the three files are there
ReceiptPrep ==
    /\ Ids(handoff) = receipt.ids /\ receipt.ids = completion.ids
    /\ completion.state \in {"execution_receipt_available",
                             "process_exited_no_execution_receipt"}
    /\ receipt.status = "dispatched"

\* Mutant of IdsSeen: the skeleton is not looked at.
IdsSeenButSkeleton ==
    {f.ids : f \in {ready, action, bridge, executor, completion, review} \ {NoFile}}

\* The ids the pack finds, file by file; the continue-once result carries none,
\* nor does a skeleton made before any handoff.
IdsSeen ==
    {f.ids : f \in {ready, action, bridge, executor, completion, skeleton, review} \ {NoFile}}
        \ {NoFile}

Mismatch == Cardinality(IdsSeen) > 1

RoundStatus ==
    CASE review # NoFile -> <<"closed", review.decision>>
      [] review = NoFile /\ completion # NoFile -> <<"post_dispatch", completion.state>>
      [] review = NoFile /\ completion = NoFile /\ executor # NoFile
            -> <<"executor", executor.status>>
      [] OTHER -> <<"in_progress", "none">>

\* build_round_audit_pack, written from whatever files are there
AuditPack == [status |-> RoundStatus, noted |-> Mismatch,
              skeleton |-> IF skeleton = NoFile THEN "missing" ELSE "skeleton_only"]

(* Processes run approved work only: the prompt a process is given was      *)
(* built from an approved handoff with a valid dry run, and the ids it is   *)
(* reported under are those of such a handoff, whichever of the files were  *)
(* replaced in between (dispatch_prep_adapter.py, codex_dispatch_runner.py). *)
(* An approval counts also when the handoff on file is another by now: a     *)
(* package that passed the gates is not taken back.                          *)
ApprovedRuns == \A i \in 1 .. Len(procs) :
    /\ \E h \in issued : Executable(h) /\ Ids(h) = procs[i].built
    /\ \E h \in issued : Executable(h) /\ Ids(h) = procs[i].ids

(* No two handoffs share an id as long as the file of the last one is kept: *)
(* everything downstream tells rounds apart by the ids alone.               *)
HandoffIdsFresh == [][\A h \in issued' \ issued : \A g \in issued : h.id # g.id]_vars

(* A continue-once call that says the owner may review speaks of the handoff *)
(* on file: the receipt and the completion on file carry its ids and the     *)
(* last process started is the one it was dispatched as.                     *)
ReviewReadyIsCurrent == call.ready =>
    /\ receipt.ids = Ids(handoff) /\ completion.ids = Ids(handoff)
    /\ receipt.status = "dispatched"
    /\ procs[Len(procs)].ids = Ids(handoff)

(* The receipt preparation calls a handoff ready only if one of its own      *)
(* processes has ended or the owner has reported on it, although the three   *)
(* files it looks at are written by different tools at different times.      *)
PrepAfterEnd ==
    handoff # NoFile /\ receipt # NoFile /\ completion # NoFile /\ ReceiptPrep =>
        \/ execution = Ids(handoff)
        \/ \E i \in 1 .. Len(procs) : procs[i].ids = Ids(handoff) /\ ~procs[i].alive

(* A pack that closes a round without a note on the ids, over a skeleton      *)
(* whose links matched, closes one whose dispatch is as the skeleton says: if *)
(* it tells of a dispatch a process ran under the ids of the review, for an   *)
(* approved handoff, and if it tells of an end such a process has ended.      *)
(* A match alone says nothing of the kind: the helper passes over missing     *)
(* files and a round in which nothing was dispatched matches and closes.      *)
ClosedRoundTrue ==
    /\ AuditPack.status[1] = "closed" /\ ~AuditPack.noted
    /\ AuditPack.skeleton # "missing" /\ skeleton.matched
    =>
    /\ skeleton.tells # "nothing" =>
          \E i \in 1 .. Len(procs), h \in issued :
              procs[i].ids = review.ids /\ Ids(h) = review.ids /\ Executable(h)
    /\ skeleton.tells = "end" =>
          \E i \in 1 .. Len(procs) : procs[i].ids = review.ids /\ ~procs[i].alive

(* docs/council-bridge-lifecycle-v0.md has the flow stop when the identity   *)
(* linkage is inconsistent: a process starts only if the owner's action, the *)
(* dispatch package and the prompt are about one handoff.                    *)
StopsOnMismatch == call.at = "receipt" =>
    LET p == procs[Len(procs)] IN p.ids = bridge.ids /\ p.built = bridge.ids
=============================================================================
