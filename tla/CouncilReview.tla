---------------------------- MODULE CouncilReview ----------------------------
(***************************************************************************)
(* The review of council artifacts through messages: the council part of   *)
(* route_message (feishu_message_router.py), the two mapping adapters, the *)
(* state machine (council_artifact_state_machine.py), the two              *)
(* owner-confirmed applies and the state machine's command line.           *)
(*                                                                         *)
(* Feedback never changes an artifact: it leaves a suggestion and its      *)
(* validation in two files that all messages share, and a later confirm    *)
(* applies whatever suggestion it finds there.  The callers of             *)
(* route_message and the command lines run beside each other (only callers *)
(* with an owner source, which the webhook and the scanner never have, can *)
(* confirm), and no file is locked, so each file operation is a step.  The *)
(* channel "rework" has its own pair of files and produces an advisory     *)
(* artifact as well.                                                       *)
(***************************************************************************)
EXTENDS Naturals, Sequences

CONSTANTS
    Thread,        \* callers of route_message and command-line processes
    Applier,       \* those that confirm suggestions or run the command line
    Budget,        \* bound on the messages or commands each of them handles
    Artifact,      \* the council artifacts a message can be linked to
    Handoff,       \* those of artifact_type "handoff"
    Linked,        \* those with a parent or derived-from artifact id
    Aliased,       \* those whose handoff_id differs from their artifact_id
    NoArtifact,    \* the artifact a handoff_id names: none of them
    Message,       \* the feedback messages that arrive: artifact, intent, lane
    Start,         \* the statuses the artifacts may have in the beginning
    CliRequest,    \* transition requests an operator may put in a file
    NoFile,        \* a file that was never written
    NoSuggestion,  \* a mapping that suggests no transition
    Blocked,       \* a receipt that blocks
    NoJob          \* an idle thread has read nothing

Channel == {"feedback", "rework"}
Lane    == {"owner", "chat"}         \* "bridge" has exactly the rights of "owner"
Intent  == {"fix", "resubmit", "reject", "approve", "comment", "rework"}

STATE_TRANSITIONS ==
    [draft |-> {"under_review"},
     under_review |-> {"needs_fix", "ready_for_owner_review"},
     needs_fix |-> {"revised"},
     revised |-> {"resubmitted"},
     resubmitted |-> {"ready_for_owner_review"},
     ready_for_owner_review |-> {"owner_rejected", "owner_approved"},
     owner_rejected |-> {},
     owner_approved |-> {"handoff_ready"},
     handoff_ready |-> {}]

Status     == DOMAIN STATE_TRANSITIONS
Verdict    == {"owner_approved", "owner_rejected"}
Privileged == Verdict \cup {"handoff_ready"}

\* A transition request: the artifact it names, the transition, the lane that
\* requests it, the lane of the message that suggested it, and whether it
\* carries a triggering feedback id and a triggering artifact id.
Request == [named : Artifact \cup {NoArtifact}, from : Status, to : Status,
            lane : Lane, asked : Lane, fb : BOOLEAN, link : BOOLEAN]

\* A receipt that says "applied".
Applied == [on : Artifact, from : Status, to : Status]

ASSUME ArtifactAssumption ==
    /\ Handoff \subseteq Artifact /\ Linked \subseteq Artifact /\ Aliased \subseteq Artifact
    /\ NoArtifact \notin Artifact
    /\ Applier \subseteq Thread
    /\ Budget \in [Thread -> Nat]
    /\ Message \subseteq Artifact \X Intent \X Lane
    /\ Start \subseteq [Artifact -> Status]
    /\ CliRequest \subseteq Request
    /\ \A q \in CliRequest : q.asked = q.lane
    /\ NoSuggestion \notin Request /\ NoFile \notin Request /\ NoFile # NoSuggestion
    /\ NoFile \notin Applied /\ Blocked \notin Applied

VARIABLES
    art,         \* the artifact files: status, fields the rules read, audit trace
    mapping,     \* per channel: the mapping result file, the latest suggestion
    validation,  \* per channel: the transition result file, the latest validation
    receipt,     \* per channel: the apply receipt file
    advisory,    \* the artifact the advisory file was derived from
    pc,          \* per thread: its next file operation
    job,         \* per thread: what it has read so far
    left         \* per thread: the messages it may still handle

files == <<art, mapping, validation, receipt, advisory>>
vars  == <<files, pc, job, left>>

Entry == [from : Status, to : Status, lane : Lane, asked : Lane]
File  == [status : Status, revised : BOOLEAN, ready : BOOLEAN, trace : Seq(Entry)]

Outcome == [valid : BOOLEAN, on : Artifact, from : Status, to : Status]
Job == [on : Artifact, ch : Channel, file : File, req : Request \cup {NoSuggestion}]

CouncilTypeOK ==
    /\ art \in [Artifact -> File]
    /\ mapping \in [Channel -> Request \cup {NoFile, NoSuggestion}]
    /\ validation \in [Channel -> Outcome \cup {NoFile}]
    /\ receipt \in [Channel -> Applied \cup {NoFile, Blocked}]
    /\ advisory \in Artifact \cup {NoArtifact}
    /\ pc \in [Thread -> {"idle", "mapping", "audit", "suggestion", "outcome", "block",
                          "apply", "advise", "receipt", "overwrite", "record"}]
    /\ left \in [Thread -> Nat]
    /\ \A p \in Thread :
        /\ pc[p] = "idle" => job[p] = NoJob
        /\ pc[p] # "idle" => job[p] \in Job
        /\ pc[p] \in {"audit", "outcome", "apply", "advise", "receipt", "overwrite", "record"}
              => job[p].req \in Request

Init ==
    /\ \E s \in Start :
         art = [a \in Artifact |-> [status |-> s[a], revised |-> FALSE, ready |-> FALSE,
                                    trace |-> <<>>]]
    /\ mapping = [ch \in Channel |-> NoFile]
    /\ validation = [ch \in Channel |-> NoFile]
    /\ receipt = [ch \in Channel |-> NoFile]
    /\ advisory = NoArtifact
    /\ pc = [p \in Thread |-> "idle"]
    /\ job = [p \in Thread |-> NoJob]
    /\ left = Budget

-----------------------------------------------------------------------------
(* The state machine: when a request is valid for an artifact's content,   *)
(* and what the artifact is once it is applied.  Nothing in this code fills *)
(* an artifact's own owner_feedback, so the feedback id is the request's.   *)

\* Mutant of ValidTransition: the request's current_status is not compared.
ValidUnderAnyStatus(a, f, q) ==
    /\ q.named = a
    /\ q.to \in STATE_TRANSITIONS[q.from]
    /\ q.lane = "chat" => q.to \notin Privileged
    /\ q.to = "revised" => q.link \/ a \in Linked
    /\ q.to = "resubmitted" => (q.link \/ a \in Linked) /\ f.revised
    /\ q.to = "handoff_ready" => a \in Handoff /\ f.ready

ValidTransition(a, f, q) ==
    /\ q.from = f.status
    /\ q.named = a
    /\ q.to \in STATE_TRANSITIONS[q.from]
    /\ q.lane = "chat" => q.to \notin Privileged
    /\ q.from = "under_review" /\ q.to = "needs_fix" => q.fb
    /\ q.to = "revised" => q.link \/ a \in Linked
    /\ q.to = "resubmitted" => (q.link \/ a \in Linked) /\ f.revised
    /\ q.to = "handoff_ready" => a \in Handoff /\ f.ready

Audited(f, q) ==
    [status |-> q.to, revised |-> f.revised, ready |-> f.ready,
     trace |-> Append(f.trace, [from |-> q.from, to |-> q.to, lane |-> q.lane,
                                asked |-> q.asked])]

\* apply_transition: an invalid request leaves the content as it is.
ApplyTransition(a, f, q) == IF ValidTransition(a, f, q) THEN Audited(f, q) ELSE f

-----------------------------------------------------------------------------
(* The two mapping adapters: the status a message asks for, if any.        *)

\* Mutant of TargetStatus: an approval needs no owner lane.
TargetOfAnyLane(intent, status, lane) ==
    IF intent = "approve" /\ status = "ready_for_owner_review" THEN {"owner_approved"} ELSE {}

TargetStatus(intent, status, lane) ==
    LET verdict == status = "ready_for_owner_review" /\ lane = "owner" IN
    CASE intent = "fix"      -> {"needs_fix"}
      [] intent = "resubmit" -> {IF status = "revised" THEN "resubmitted"
                                 ELSE "ready_for_owner_review"}
      [] intent = "reject"   -> {IF verdict THEN "owner_rejected" ELSE "needs_fix"}
      [] intent = "approve"  -> IF verdict THEN {"owner_approved"} ELSE {}
      [] intent = "comment"  -> {}
      [] intent = "rework"   -> {IF status = "needs_fix" THEN "revised" ELSE "needs_fix"}

\* The artifact id in a suggestion is the linked handoff_id, if there is one.
Named(a) == IF a \in Aliased THEN NoArtifact ELSE a

Suggestion(a, f, intent, lane) ==
    LET target == TargetStatus(intent, f.status, lane) IN
    IF target = {} THEN NoSuggestion
    ELSE [named |-> Named(a), from |-> f.status, to |-> CHOOSE s \in target : TRUE,
          lane |-> lane, asked |-> lane, fb |-> TRUE, link |-> intent = "rework"]

-----------------------------------------------------------------------------
Begin(p) == pc[p] = "idle" /\ left[p] > 0 /\ left' = [left EXCEPT ![p] = @ - 1]
Goto(p, label) == pc' = [pc EXCEPT ![p] = label]
Finish(p) == Goto(p, "idle") /\ job' = [job EXCEPT ![p] = NoJob]

\* A feedback message is routed: the linked artifact is read and mapped ...
Observe(p) ==
    /\ Begin(p)
    /\ \E m \in Message :
         job' = [job EXCEPT ![p] =
                    [on |-> m[1], ch |-> IF m[2] = "rework" THEN "rework" ELSE "feedback",
                     file |-> art[m[1]], req |-> Suggestion(m[1], art[m[1]], m[2], m[3])]]
    /\ Goto(p, "mapping")
    /\ UNCHANGED files

\* ... the mapping file is written, with or without a suggestion ...
WriteMapping(p) ==
    /\ pc[p] = "mapping"
    /\ mapping' = [mapping EXCEPT ![job[p].ch] = job[p].req]
    /\ IF job[p].req = NoSuggestion THEN Finish(p) ELSE Goto(p, "audit") /\ UNCHANGED job
    /\ UNCHANGED <<art, validation, receipt, advisory, left>>

OutcomeOf(j) ==
    [valid |-> ValidTransition(j.on, j.file, j.req), on |-> j.on,
     from |-> j.req.from, to |-> j.req.to]

\* ... and the suggestion is validated against the content read first.
WriteValidation(p) ==
    /\ pc[p] = "audit"
    /\ validation' = [validation EXCEPT ![job[p].ch] = OutcomeOf(job[p])]
    /\ Finish(p)
    /\ UNCHANGED <<art, mapping, receipt, advisory, left>>

-----------------------------------------------------------------------------
\* A confirm from the owner's protocol: the artifact is read first.  (One
\* from the chat lane is ignored.)
Confirm(p) ==
    /\ Begin(p) /\ p \in Applier
    /\ \E a \in Artifact, ch \in Channel :
         job' = [job EXCEPT ![p] =
                    [on |-> a, ch |-> ch, file |-> art[a], req |-> NoSuggestion]]
    /\ Goto(p, "suggestion")
    /\ UNCHANGED files

\* Outside council_review and owner_review a transition is not applied; the
\* rework apply has no such gate.
ConfirmAtWrongStage(p) ==
    /\ Begin(p) /\ p \in Applier
    /\ receipt' = [receipt EXCEPT !["feedback"] = Blocked]
    /\ UNCHANGED <<art, mapping, validation, advisory, pc, job>>

\* A missing file blocks the transition apply, and makes the rework apply raise.
MissingFile(p) ==
    IF job[p].ch = "feedback" THEN Goto(p, "block") /\ UNCHANGED job ELSE Finish(p)

\* Mutant of ReadSuggestion: nobody asks whether there is a suggestion.
ReadSuggestionBlindly(p) ==
    /\ pc[p] = "suggestion"
    /\ IF mapping[job[p].ch] = NoFile THEN MissingFile(p)
       ELSE /\ job' = [job EXCEPT ![p].req = mapping[job[p].ch]]
            /\ Goto(p, "outcome")
    /\ UNCHANGED <<files, left>>

\* What the confirmer makes of a suggestion: it is stamped with the owner's
\* lane, and a missing triggering artifact id becomes that of the artifact.
AsOwner(q) == [named |-> q.named, from |-> q.from, to |-> q.to, lane |-> "owner",
               asked |-> q.asked, fb |-> q.fb, link |-> TRUE]

\* The mapping file: its suggestion is what will be applied.
ReadSuggestion(p) ==
    LET q == mapping[job[p].ch] IN
    /\ pc[p] = "suggestion"
    /\ CASE q = NoFile -> MissingFile(p)
         [] q = NoSuggestion -> Goto(p, "block") /\ UNCHANGED job
         [] OTHER -> /\ job' = [job EXCEPT ![p].req = AsOwner(q)]
                     /\ Goto(p, "outcome")
    /\ UNCHANGED <<files, left>>

\* The validation file: only its verdict is looked at, not what it is about.
\* Then the suggestion is validated against the artifact as it was read.
ReadOutcome(p) ==
    LET v == validation[job[p].ch] IN
    /\ pc[p] = "outcome"
    /\ IF v = NoFile THEN MissingFile(p)
       ELSE /\ Goto(p, IF v.valid /\ ValidTransition(job[p].on, job[p].file, job[p].req)
                       THEN "apply" ELSE "block")
            /\ UNCHANGED job
    /\ UNCHANGED <<files, left>>

Block(p) ==
    /\ pc[p] = "block"
    /\ receipt' = [receipt EXCEPT ![job[p].ch] = Blocked]
    /\ Finish(p)
    /\ UNCHANGED <<art, mapping, validation, advisory, left>>

\* The whole artifact is written back from the content that was read.
WriteArtifact(p) ==
    /\ pc[p] = "apply"
    /\ art' = [art EXCEPT ![job[p].on] = Audited(job[p].file, job[p].req)]
    /\ Goto(p, IF job[p].ch = "rework" THEN "advise" ELSE "receipt")
    /\ UNCHANGED <<mapping, validation, receipt, advisory, job, left>>

WriteAdvisory(p) ==
    /\ pc[p] = "advise"
    /\ advisory' = job[p].on
    /\ Goto(p, "receipt")
    /\ UNCHANGED <<art, mapping, validation, receipt, job, left>>

AppliedBy(j) == [on |-> j.on, from |-> j.req.from, to |-> j.req.to]

\* Mutant of WriteReceipt: the receipt goes out before the artifact.
WriteReceiptEarly(p) ==
    /\ pc[p] \in {"apply", "receipt"}
    /\ receipt' = [receipt EXCEPT ![job[p].ch] = AppliedBy(job[p])]
    /\ IF pc[p] = "receipt" THEN Finish(p) ELSE UNCHANGED <<pc, job>>
    /\ UNCHANGED <<art, mapping, validation, advisory, left>>

WriteReceipt(p) ==
    /\ pc[p] = "receipt"
    /\ receipt' = [receipt EXCEPT ![job[p].ch] = AppliedBy(job[p])]
    /\ Finish(p)
    /\ UNCHANGED <<art, mapping, validation, advisory, left>>

-----------------------------------------------------------------------------
\* The state machine's command line reads an artifact and a request file;
\* with --apply it writes the artifact back whether the request is valid or
\* not, and either way it records the result in the file that the observers
\* of feedback use.
Cli(p) ==
    /\ Begin(p) /\ p \in Applier
    /\ \E a \in Artifact, q \in CliRequest, apply \in BOOLEAN :
         /\ job' = [job EXCEPT ![p] =
                       [on |-> a, ch |-> "feedback", file |-> art[a], req |-> q]]
         /\ Goto(p, IF apply THEN "overwrite" ELSE "record")
    /\ UNCHANGED files

CliOverwrite(p) ==
    /\ pc[p] = "overwrite"
    /\ art' = [art EXCEPT ![job[p].on] = ApplyTransition(job[p].on, job[p].file, job[p].req)]
    /\ Goto(p, "record")
    /\ UNCHANGED <<mapping, validation, receipt, advisory, job, left>>

CliRecord(p) ==
    /\ pc[p] = "record"
    /\ validation' = [validation EXCEPT !["feedback"] = OutcomeOf(job[p])]
    /\ Finish(p)
    /\ UNCHANGED <<art, mapping, receipt, advisory, left>>

-----------------------------------------------------------------------------
\* The council, outside this code, completes the revision of an artifact or
\* fills in what a handoff needs (owner_approval_status and
\* execution_readiness_status).
CouncilEdits(a) ==
    /\ \/ art[a].status \in {"needs_fix", "revised"} /\ art' = [art EXCEPT ![a].revised = TRUE]
       \/ /\ a \in Handoff /\ art[a].status \in {"ready_for_owner_review", "owner_approved"}
          /\ art' = [art EXCEPT ![a].ready = TRUE]
    /\ UNCHANGED <<mapping, validation, receipt, advisory, pc, job, left>>

\* A thread raises (a file it reads is being rewritten) or its process dies.
Die(p) ==
    /\ pc[p] # "idle"
    /\ Finish(p)
    /\ UNCHANGED <<files, left>>

Step(p) ==
    \/ Observe(p) \/ WriteMapping(p) \/ WriteValidation(p)
    \/ Confirm(p) \/ ConfirmAtWrongStage(p) \/ ReadSuggestion(p) \/ ReadOutcome(p) \/ Block(p)
    \/ WriteArtifact(p) \/ WriteAdvisory(p) \/ WriteReceipt(p)
    \/ Cli(p) \/ CliOverwrite(p) \/ CliRecord(p)

Next ==
    \/ \E p \in Thread : Step(p) \/ Die(p)
    \/ \E a \in Artifact : CouncilEdits(a)

Spec == Init /\ [][Next]_vars

-----------------------------------------------------------------------------
(* The content of an artifact file is consistent with itself under every   *)
(* interleaving: its audit trace is a chain of legal transitions that ends *)
(* at its status, and it was resubmitted only with a completed revision.   *)
Chain(t)     == \A i \in DOMAIN t : i > 1 => t[i].from = t[i-1].to
LegalMove(e) == e.to \in STATE_TRANSITIONS[e.from]
Coherent(f) ==
    /\ Chain(f.trace)
    /\ \A i \in DOMAIN f.trace : LegalMove(f.trace[i])
    /\ f.trace # <<>> => f.trace[Len(f.trace)].to = f.status
    /\ \A i \in DOMAIN f.trace : f.trace[i].to = "resubmitted" => f.revised
FilesCoherent == \A a \in Artifact : Coherent(art[a])

(* No artifact carries a verdict (approval or rejection) that a chat        *)
(* message suggested, even though the confirm that applies a suggestion     *)
(* stamps it with the owner's lane.                                         *)
VerdictFromOwner == \A a \in Artifact : \A i \in DOMAIN art[a].trace :
    art[a].trace[i].to \in Verdict => art[a].trace[i].asked = "owner"

(* With one applying thread: a receipt that says "applied" names a          *)
(* transition that is in the audit trace of its artifact, whatever crashes  *)
(* and however many messages were observed in between.                      *)
AppliedReceiptBacked == \A ch \in Channel : receipt[ch] \in Applied =>
    \E i \in DOMAIN art[receipt[ch].on].trace :
        LET e == art[receipt[ch].on].trace[i]
        IN  e.from = receipt[ch].from /\ e.to = receipt[ch].to

(* With one applying thread the review implements the artifact lifecycle.   *)
StatusOnFile == [a \in Artifact |-> art[a].status]
MovesOf(t)   == [i \in DOMAIN t |-> <<t[i].from, t[i].to>>]
MovesOnFile  == [a \in Artifact |-> MovesOf(art[a].trace)]
Told == {<<receipt[ch].on, <<receipt[ch].from, receipt[ch].to>> >> :
           ch \in {c \in Channel : receipt[c] \in Applied}}
Lifecycle == INSTANCE ArtifactLifecycle WITH
    Legal <- STATE_TRANSITIONS, status <- StatusOnFile, moves <- MovesOnFile, told <- Told
ImplementsLifecycle == Lifecycle!Spec

(* An owner's rejection is final: the artifact keeps the status.            *)
RejectionIsFinal ==
    [][\A a \in Artifact : art[a].status = "owner_rejected"
            => art'[a].status = "owner_rejected"]_vars

(* A suggestion is applied only if its own validation came out valid.       *)
AppliedWasValidated ==
    [][\A p \in Thread : pc[p] = "outcome" /\ pc'[p] = "apply" =>
         LET v == validation[job[p].ch]
         IN  v.on = job[p].on /\ v.from = job[p].req.from /\ v.to = job[p].req.to]_vars
=============================================================================
