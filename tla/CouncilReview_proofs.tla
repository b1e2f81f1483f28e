------------------------ MODULE CouncilReview_proofs ------------------------
(***************************************************************************)
(* Proofs about the review, for any artifacts, messages and command-line   *)
(* requests, and any number of threads that observe, confirm and die.      *)
(***************************************************************************)
EXTENDS CouncilReview, SequenceTheorems, TLAPS

TypeInv == CouncilTypeOK /\ job \in [Thread -> Job \cup {NoJob}]

-----------------------------------------------------------------------------
(* The operators.                                                          *)

(* The nine statuses.                                                       *)
LEMMA Statuses ==
    /\ Status = {"draft", "under_review", "needs_fix", "revised", "resubmitted",
                 "ready_for_owner_review", "owner_rejected", "owner_approved", "handoff_ready"}
    /\ \A s \in Status : STATE_TRANSITIONS[s] \subseteq Status
BY DEF Status, STATE_TRANSITIONS

(* What a message asks for is a status, and a verdict only in the owner's   *)
(* lane.                                                                    *)
LEMMA TargetTyped ==
    ASSUME NEW intent \in Intent, NEW status \in Status, NEW lane \in Lane,
           NEW s \in TargetStatus(intent, status, lane)
    PROVE  s \in Status /\ (s \in Verdict => lane = "owner")
BY Statuses DEF TargetStatus, Intent, Verdict

(* A suggestion is well formed, and one that asks for a verdict was the     *)
(* owner's.                                                                 *)
SuggestedByOwner(q) == q.to \in Verdict => q.asked = "owner"

LEMMA SuggestionTyped ==
    ASSUME NEW a \in Artifact, NEW f \in File, NEW intent \in Intent, NEW lane \in Lane
    PROVE  LET q == Suggestion(a, f, intent, lane)
           IN  q = NoSuggestion \/ (q \in Request /\ SuggestedByOwner(q))
<1> DEFINE target == TargetStatus(intent, f.status, lane)
           to == CHOOSE s \in target : TRUE
           q == [named |-> Named(a), from |-> f.status, to |-> to, lane |-> lane,
                 asked |-> lane, fb |-> TRUE, link |-> intent = "rework"]
<1>1. CASE target = {}
  BY <1>1 DEF Suggestion
<1>2. CASE target # {}
  <2>1. to \in target /\ f.status \in Status
    BY <1>2 DEF File
  <2>2. to \in Status /\ (to \in Verdict => lane = "owner")
    BY <2>1, TargetTyped
  <2>3. Named(a) \in Artifact \cup {NoArtifact}
    BY DEF Named
  <2>4. (intent = "rework") \in BOOLEAN
    OBVIOUS
  <2>5. Suggestion(a, f, intent, lane) = q
    BY <1>2 DEF Suggestion
  <2> HIDE DEF to, target
  <2>6. q \in Request
    BY <2>1, <2>2, <2>3, <2>4 DEF Request
  <2>7. SuggestedByOwner(q)
    BY <2>2 DEF SuggestedByOwner
  <2> QED
    BY <2>5, <2>6, <2>7
<1> QED
  BY <1>1, <1>2

(* A suggestion stays well formed in the hands of the confirmer, and still  *)
(* says who asked.                                                          *)
LEMMA AsOwnerTyped ==
    ASSUME NEW q \in Request
    PROVE  AsOwner(q) \in Request /\ (SuggestedByOwner(q) => SuggestedByOwner(AsOwner(q)))
<1>1. AsOwner(q) \in Request
  BY DEF AsOwner, Request, Lane
<1>2. SuggestedByOwner(q) => SuggestedByOwner(AsOwner(q))
  BY DEF AsOwner, SuggestedByOwner
<1> QED
  BY <1>1, <1>2

(* An applied transition leaves a well-formed file.                         *)
LEMMA AuditedTyped ==
    ASSUME NEW f \in File, NEW q \in Request
    PROVE  Audited(f, q) \in File
<1>1. [from |-> q.from, to |-> q.to, lane |-> q.lane, asked |-> q.asked] \in Entry
  BY DEF Request, Entry
<1>2. f.trace \in Seq(Entry) /\ f.revised \in BOOLEAN /\ f.ready \in BOOLEAN /\ q.to \in Status
  BY DEF File, Request
<1>3. Append(f.trace, [from |-> q.from, to |-> q.to, lane |-> q.lane, asked |-> q.asked]) \in Seq(Entry)
  BY <1>1, <1>2
<1> QED
  BY <1>2, <1>3 DEF Audited, File

(* The content of a file: its trace is coherent, and each verdict in it was *)
(* asked for by the owner.                                                  *)
Good(f) == /\ Coherent(f)
           /\ \A i \in DOMAIN f.trace : f.trace[i].to \in Verdict => f.trace[i].asked = "owner"

(* A valid request whose verdict is the owner's keeps that so.              *)
LEMMA AuditedGood ==
    ASSUME NEW a \in Artifact, NEW f \in File, NEW q \in Request,
           Good(f), ValidTransition(a, f, q), SuggestedByOwner(q)
    PROVE  Good(Audited(f, q))
<1> DEFINE e == [from |-> q.from, to |-> q.to, lane |-> q.lane, asked |-> q.asked]
           t == f.trace
           u == Append(t, e)
<1>1. /\ t \in Seq(Entry) /\ e \in Entry
      /\ q.from = f.status /\ q.to \in STATE_TRANSITIONS[q.from]
      /\ q.to = "resubmitted" => f.revised
  BY DEF File, Request, Entry, ValidTransition
<1>2. /\ Len(u) = Len(t) + 1 /\ DOMAIN u = 1 .. Len(t) + 1 /\ DOMAIN t = 1 .. Len(t)
      /\ Len(t) \in Nat /\ u[Len(t) + 1] = e /\ \A i \in 1 .. Len(t) : u[i] = t[i]
  BY <1>1, AppendProperties
<1>3. e.from = q.from /\ e.to = q.to /\ e.asked = q.asked
  OBVIOUS
<1> HIDE DEF e, t, u
<1>4. /\ Audited(f, q).trace = u /\ Audited(f, q).status = q.to
      /\ Audited(f, q).revised = f.revised
  BY DEF Audited, e, t, u
<1>5. /\ Chain(t) /\ \A i \in DOMAIN t : LegalMove(t[i])
      /\ t # <<>> => t[Len(t)].to = f.status
      /\ \A i \in DOMAIN t : t[i].to = "resubmitted" => f.revised
      /\ \A i \in DOMAIN t : t[i].to \in Verdict => t[i].asked = "owner"
  BY DEF Good, Coherent, t
<1>6. Chain(u)
  <2> SUFFICES ASSUME NEW i \in 1 .. Len(t) + 1, i > 1 PROVE u[i].from = u[i - 1].to
    BY <1>2 DEF Chain
  <2>1. CASE i \in 1 .. Len(t)
    <3>1. i - 1 \in 1 .. Len(t) /\ t[i].from = t[i - 1].to
      BY <1>2, <1>5, <2>1 DEF Chain
    <3> QED
      BY <1>2, <2>1, <3>1
  <2>2. CASE i = Len(t) + 1
    <3>1. i - 1 = Len(t) /\ Len(t) \in 1 .. Len(t) /\ t # <<>>
      BY <1>1, <1>2, <2>2, EmptySeq
    <3> QED
      BY <1>1, <1>2, <1>3, <1>5, <2>2, <3>1
  <2> QED
    BY <1>2, <2>1, <2>2
<1>7. \A i \in DOMAIN u : LegalMove(u[i])
  BY <1>1, <1>2, <1>3, <1>5 DEF LegalMove
<1>8. u # <<>> => u[Len(u)].to = q.to
  BY <1>2, <1>3
<1>9. \A i \in DOMAIN u : u[i].to = "resubmitted" => f.revised
  BY <1>1, <1>2, <1>3, <1>5
<1>10. \A i \in DOMAIN u : u[i].to \in Verdict => u[i].asked = "owner"
  BY <1>2, <1>3, <1>5 DEF SuggestedByOwner
<1> QED
  BY <1>4, <1>6, <1>7, <1>8, <1>9, <1>10 DEF Good, Coherent

(* A command-line request that is valid and asks for a verdict is the       *)
(* owner's, since the lane that asks is the lane that requests.             *)
LEMMA ValidVerdict ==
    ASSUME NEW a \in Artifact, NEW f, NEW q \in Request, q.asked = q.lane, ValidTransition(a, f, q)
    PROVE  SuggestedByOwner(q)
BY DEF ValidTransition, SuggestedByOwner, Request, Lane, Privileged

-----------------------------------------------------------------------------
(* Typing.                                                                  *)

Label == {"idle", "mapping", "audit", "suggestion", "outcome", "block", "apply", "advise",
          "receipt", "overwrite", "record"}
WithRequest == {"audit", "outcome", "apply", "advise", "receipt", "overwrite", "record"}

(* The shared files are typed.                                              *)
FilesTyped ==
    /\ art \in [Artifact -> File]
    /\ mapping \in [Channel -> Request \cup {NoFile, NoSuggestion}]
    /\ validation \in [Channel -> Outcome \cup {NoFile}]
    /\ receipt \in [Channel -> Applied \cup {NoFile, Blocked}]
    /\ advisory \in Artifact \cup {NoArtifact}

(* A thread that goes to a label with what that label reads is typed.       *)
LEMMA ThreadTyped ==
    ASSUME TypeInv, FilesTyped', left' \in [Thread -> Nat],
           NEW p \in Thread, NEW label \in Label, NEW j \in Job \cup {NoJob},
           pc' = [pc EXCEPT ![p] = label], job' = [job EXCEPT ![p] = j],
           label = "idle" => j = NoJob, label # "idle" => j \in Job,
           label \in WithRequest => j.req \in Request
    PROVE  TypeInv'
<1>1. pc' \in [Thread -> Label] /\ job' \in [Thread -> Job \cup {NoJob}]
  BY DEF TypeInv, CouncilTypeOK, Label
<1>2. \A x \in Thread :
        /\ pc'[x] = "idle" => job'[x] = NoJob
        /\ pc'[x] # "idle" => job'[x] \in Job
        /\ pc'[x] \in WithRequest => job'[x].req \in Request
  BY DEF TypeInv, CouncilTypeOK, WithRequest
<1> QED
  BY <1>1, <1>2 DEF TypeInv, CouncilTypeOK, FilesTyped, Label, WithRequest

(* Every step of a thread keeps the types.                                  *)
LEMMA StepTyped == ASSUME TypeInv, NEW p \in Thread, Step(p) \/ Die(p) PROVE TypeInv'
<1> USE DEF Goto, Finish
<1>0. /\ FilesTyped /\ left \in [Thread -> Nat] /\ pc \in [Thread -> Label]
      /\ job \in [Thread -> Job \cup {NoJob}]
      /\ NoJob \in Job \cup {NoJob} /\ {"idle"} \subseteq Label
      /\ pc[p] # "idle" => job[p] \in Job
      /\ pc[p] \in WithRequest => job[p].req \in Request
  BY DEF TypeInv, CouncilTypeOK, FilesTyped, Label, WithRequest
<1>j. job[p] \in Job => /\ job[p].on \in Artifact /\ job[p].ch \in Channel /\ job[p].file \in File
                        /\ job[p].req \in Request \cup {NoSuggestion}
  BY DEF Job
<1>s. UNCHANGED job => job' = [job EXCEPT ![p] = job[p]]
  BY <1>0
<1>f. UNCHANGED files => FilesTyped'
  BY <1>0 DEF files, FilesTyped
<1>c. {"feedback", "rework"} = Channel
  BY DEF Channel
<1>b. Begin(p) => left' \in [Thread -> Nat]
  BY <1>0 DEF Begin
<1>o. pc[p] \in WithRequest => OutcomeOf(job[p]) \in Outcome
  <2> SUFFICES ASSUME pc[p] \in WithRequest PROVE OutcomeOf(job[p]) \in Outcome
    OBVIOUS
  <2>1. job[p].req \in Request /\ job[p] \in Job
    BY <1>0 DEF WithRequest
  <2>2. ValidTransition(job[p].on, job[p].file, job[p].req) \in BOOLEAN
    BY DEF ValidTransition
  <2>3. job[p].req.from \in Status /\ job[p].req.to \in Status
    BY <2>1 DEF Request
  <2> QED
    BY <1>j, <2>1, <2>2, <2>3 DEF OutcomeOf, Outcome
<1>1. CASE Observe(p)
  <2> PICK m \in Message :
         job' = [job EXCEPT ![p] =
                    [on |-> m[1], ch |-> IF m[2] = "rework" THEN "rework" ELSE "feedback",
                     file |-> art[m[1]], req |-> Suggestion(m[1], art[m[1]], m[2], m[3])]]
    BY <1>1 DEF Observe
  <2> DEFINE req == Suggestion(m[1], art[m[1]], m[2], m[3])
             j == [on |-> m[1], ch |-> IF m[2] = "rework" THEN "rework" ELSE "feedback",
                   file |-> art[m[1]], req |-> req]
  <2>1. m[1] \in Artifact /\ m[2] \in Intent /\ m[3] \in Lane
    BY ArtifactAssumption
  <2>2. art[m[1]] \in File
    BY <1>0, <2>1 DEF FilesTyped
  <2>3. req \in Request \cup {NoSuggestion}
    BY <2>1, <2>2, SuggestionTyped
  <2> HIDE DEF req
  <2>4. j \in Job
    BY <2>1, <2>2, <2>3, <1>c DEF Job
  <2>5. job' = [job EXCEPT ![p] = j]
    BY DEF req
  <2>6. pc' = [pc EXCEPT ![p] = "mapping"] /\ UNCHANGED files /\ Begin(p)
    BY <1>1 DEF Observe
  <2> HIDE DEF j
  <2> QED
    BY <1>f, <1>b, <2>4, <2>5, <2>6, ThreadTyped DEF Label, WithRequest
<1>2. CASE WriteMapping(p)
  <2>1. FilesTyped' /\ UNCHANGED left
    <3>1. job[p].req \in Request \cup {NoSuggestion} /\ job[p].ch \in Channel
      BY <1>0, <1>2, <1>j DEF WriteMapping
    <3> QED
      BY <1>0, <1>2, <3>1 DEF WriteMapping, FilesTyped
  <2>2. job[p] \in Job
    BY <1>0, <1>2 DEF WriteMapping
  <2>3. CASE job[p].req = NoSuggestion
    BY <1>0, <1>2, <2>1, <2>3, ThreadTyped DEF WriteMapping, WithRequest
  <2>4. CASE job[p].req # NoSuggestion
    <3>1. job[p].req \in Request
      BY <1>j, <2>2, <2>4
    <3>2. pc' = [pc EXCEPT ![p] = "audit"] /\ UNCHANGED job
      BY <1>2, <2>4 DEF WriteMapping
    <3> QED
      BY <1>0, <1>s, <2>1, <2>2, <3>1, <3>2, ThreadTyped DEF Label
  <2> QED
    BY <2>3, <2>4
<1>3. CASE WriteValidation(p)
  <2>1. OutcomeOf(job[p]) \in Outcome /\ job[p].ch \in Channel
    BY <1>0, <1>3, <1>j, <1>o DEF WriteValidation, WithRequest
  <2>2. FilesTyped'
    BY <1>0, <1>3, <2>1 DEF WriteValidation, FilesTyped
  <2> QED
    BY <1>0, <1>3, <2>2, ThreadTyped DEF WriteValidation, WithRequest
<1>4. CASE Confirm(p)
  <2> PICK a \in Artifact, ch \in Channel :
         job' = [job EXCEPT ![p] =
                    [on |-> a, ch |-> ch, file |-> art[a], req |-> NoSuggestion]]
    BY <1>4 DEF Confirm
  <2> DEFINE j == [on |-> a, ch |-> ch, file |-> art[a], req |-> NoSuggestion]
  <2>1. j \in Job
    BY <1>0 DEF Job, FilesTyped
  <2>2. pc' = [pc EXCEPT ![p] = "suggestion"] /\ UNCHANGED files /\ Begin(p)
    BY <1>4 DEF Confirm
  <2> QED
    BY <1>f, <1>b, <2>1, <2>2, ThreadTyped DEF Label, WithRequest
<1>5. CASE ConfirmAtWrongStage(p)
  <2>1. FilesTyped'
    BY <1>0, <1>5, <1>c DEF ConfirmAtWrongStage, FilesTyped
  <2>2. left' \in [Thread -> Nat] /\ UNCHANGED <<pc, job>>
    BY <1>5, <1>b DEF ConfirmAtWrongStage
  <2> QED
    BY <2>1, <2>2 DEF TypeInv, CouncilTypeOK, FilesTyped
<1>6. ASSUME pc[p] # "idle", pc' = [pc EXCEPT ![p] = "block"], UNCHANGED <<job, left>>, UNCHANGED files
      PROVE  TypeInv'
  BY <1>0, <1>s, <1>f, <1>6, ThreadTyped DEF Label, WithRequest
<1>7. ASSUME Finish(p), UNCHANGED left, FilesTyped' PROVE TypeInv'
  BY <1>0, <1>7, ThreadTyped DEF WithRequest
<1>8. ASSUME MissingFile(p), pc[p] # "idle", UNCHANGED files, UNCHANGED left PROVE TypeInv'
  BY <1>f, <1>6, <1>7, <1>8 DEF MissingFile
<1>9. CASE ReadSuggestion(p)
  <2> DEFINE q == mapping[job[p].ch]
  <2>1. q = NoFile \/ q = NoSuggestion \/ (q \in Request /\ q # NoFile /\ q # NoSuggestion)
    <3>1. job[p].ch \in Channel
      BY <1>0, <1>9, <1>j DEF ReadSuggestion
    <3> QED
      BY <1>0, <3>1, ArtifactAssumption DEF FilesTyped
  <2>2. pc[p] # "idle" /\ UNCHANGED files /\ UNCHANGED left
    BY <1>9 DEF ReadSuggestion
  <2>3. CASE q = NoFile
    BY <1>8, <1>9, <2>2, <2>3, ArtifactAssumption DEF ReadSuggestion
  <2>4. CASE q = NoSuggestion
    BY <1>6, <1>9, <2>2, <2>4, ArtifactAssumption DEF ReadSuggestion
  <2>5. CASE q \in Request /\ q # NoFile /\ q # NoSuggestion
    <3> DEFINE j == [job[p] EXCEPT !.req = AsOwner(q)]
    <3>1. job' = [job EXCEPT ![p].req = AsOwner(q)] /\ pc' = [pc EXCEPT ![p] = "outcome"]
      BY <1>9, <2>5 DEF ReadSuggestion
    <3>2. job' = [job EXCEPT ![p] = j]
      BY <3>1
    <3>3. AsOwner(q) \in Request /\ job[p] \in Job
      BY <1>0, <2>2, <2>5, AsOwnerTyped
    <3>4. j \in Job /\ j.req \in Request
      BY <3>3 DEF Job
    <3> HIDE DEF j
    <3> QED
      BY <1>0, <1>f, <2>2, <3>1, <3>2, <3>4, ThreadTyped DEF Label
  <2> QED
    BY <2>1, <2>3, <2>4, <2>5
<1>10. CASE ReadOutcome(p)
  <2>1. pc[p] # "idle" /\ UNCHANGED files /\ UNCHANGED left /\ pc[p] \in WithRequest
    BY <1>10 DEF ReadOutcome, WithRequest
  <2>2. \/ MissingFile(p)
        \/ \E label \in {"apply", "block"} : pc' = [pc EXCEPT ![p] = label] /\ UNCHANGED job
    BY <1>10 DEF ReadOutcome
  <2>3. ASSUME NEW label \in {"apply", "block"}, pc' = [pc EXCEPT ![p] = label], UNCHANGED job
        PROVE  TypeInv'
    BY <1>0, <1>s, <1>f, <2>1, <2>3, ThreadTyped DEF Label
  <2> QED
    BY <1>8, <2>1, <2>2, <2>3
<1>11. CASE Block(p)
  <2>1. job[p].ch \in Channel
    BY <1>0, <1>11, <1>j DEF Block
  <2>2. FilesTyped'
    BY <1>0, <1>11, <2>1 DEF Block, FilesTyped
  <2> QED
    BY <1>7, <1>11, <2>2 DEF Block
<1>12. CASE WriteArtifact(p)
  <2>1. job[p] \in Job /\ job[p].req \in Request /\ UNCHANGED <<job, left>>
    BY <1>0, <1>12 DEF WriteArtifact, WithRequest
  <2>2. FilesTyped'
    BY <1>0, <1>j, <1>12, <2>1, AuditedTyped DEF WriteArtifact, FilesTyped
  <2>3. PICK label \in {"advise", "receipt"} : pc' = [pc EXCEPT ![p] = label]
    BY <1>12 DEF WriteArtifact
  <2> QED
    BY <1>0, <1>s, <2>1, <2>2, <2>3, ThreadTyped DEF Label
<1>13. CASE WriteAdvisory(p)
  <2>1. job[p] \in Job /\ job[p].req \in Request /\ UNCHANGED <<job, left>>
    BY <1>0, <1>13 DEF WriteAdvisory, WithRequest
  <2>2. FilesTyped'
    BY <1>0, <1>j, <1>13, <2>1 DEF WriteAdvisory, FilesTyped
  <2>3. pc' = [pc EXCEPT ![p] = "receipt"]
    BY <1>13 DEF WriteAdvisory
  <2> QED
    BY <1>0, <1>s, <2>1, <2>2, <2>3, ThreadTyped DEF Label
<1>14. CASE WriteReceipt(p)
  <2>1. job[p] \in Job /\ job[p].req \in Request
    BY <1>0, <1>14 DEF WriteReceipt, WithRequest
  <2>2. AppliedBy(job[p]) \in Applied
    BY <1>j, <2>1 DEF AppliedBy, Applied, Request
  <2>3. FilesTyped'
    BY <1>0, <1>j, <1>14, <2>1, <2>2 DEF WriteReceipt, FilesTyped
  <2> QED
    BY <1>7, <1>14, <2>3 DEF WriteReceipt
<1>15. CASE Cli(p)
  <2> PICK a \in Artifact, q \in CliRequest, apply \in BOOLEAN :
         /\ job' = [job EXCEPT ![p] =
                       [on |-> a, ch |-> "feedback", file |-> art[a], req |-> q]]
         /\ Goto(p, IF apply THEN "overwrite" ELSE "record")
    BY <1>15 DEF Cli
  <2> DEFINE j == [on |-> a, ch |-> "feedback", file |-> art[a], req |-> q]
  <2>1. j \in Job /\ j.req \in Request
    BY <1>0, <1>c, ArtifactAssumption DEF Job, FilesTyped
  <2>2. PICK label \in {"overwrite", "record"} : pc' = [pc EXCEPT ![p] = label]
    OBVIOUS
  <2>3. UNCHANGED files /\ Begin(p)
    BY <1>15 DEF Cli
  <2> QED
    BY <1>f, <1>b, <2>1, <2>2, <2>3, ThreadTyped DEF Label
<1>16. CASE CliOverwrite(p)
  <2>1. job[p] \in Job /\ job[p].req \in Request /\ UNCHANGED <<job, left>>
    BY <1>0, <1>16 DEF CliOverwrite, WithRequest
  <2>2. ApplyTransition(job[p].on, job[p].file, job[p].req) \in File
    BY <1>j, <2>1, AuditedTyped DEF ApplyTransition
  <2>3. FilesTyped'
    BY <1>0, <1>j, <1>16, <2>1, <2>2 DEF CliOverwrite, FilesTyped
  <2>4. pc' = [pc EXCEPT ![p] = "record"]
    BY <1>16 DEF CliOverwrite
  <2> QED
    BY <1>0, <1>s, <2>1, <2>3, <2>4, ThreadTyped DEF Label
<1>17. CASE CliRecord(p)
  <2>1. OutcomeOf(job[p]) \in Outcome
    BY <1>0, <1>17, <1>o DEF CliRecord, WithRequest
  <2>2. FilesTyped'
    BY <1>0, <1>c, <1>17, <2>1 DEF CliRecord, FilesTyped
  <2> QED
    BY <1>7, <1>17, <2>2 DEF CliRecord
<1>18. CASE Die(p)
  BY <1>f, <1>7, <1>18 DEF Die
<1> QED
  BY <1>1, <1>2, <1>3, <1>4, <1>5, <1>9, <1>10, <1>11, <1>12, <1>13, <1>14, <1>15, <1>16,
     <1>17, <1>18 DEF Step

(* An edit by the council keeps the types and the trace, and takes nothing  *)
(* away from what the rules read.                                           *)
LEMMA EditTyped ==
    ASSUME TypeInv, NEW a \in Artifact, CouncilEdits(a)
    PROVE  /\ TypeInv'
           /\ UNCHANGED <<mapping, validation, receipt, advisory, pc, job>>
           /\ \A x \in Artifact : /\ art'[x].trace = art[x].trace
                                  /\ art'[x].status = art[x].status
                                  /\ art[x].revised => art'[x].revised
<1>1. UNCHANGED <<mapping, validation, receipt, advisory, pc, job, left>>
  BY DEF CouncilEdits
<1>2. art \in [Artifact -> File] /\ art[a] \in File
  BY DEF TypeInv, CouncilTypeOK
<1>3. CASE art' = [art EXCEPT ![a].revised = TRUE]
  <2> DEFINE f == [art[a] EXCEPT !.revised = TRUE]
  <2>1. f \in File /\ f.trace = art[a].trace /\ f.status = art[a].status /\ f.revised
    BY <1>2 DEF File
  <2>2. art' = [art EXCEPT ![a] = f]
    BY <1>3
  <2> HIDE DEF f
  <2> QED
    BY <1>1, <1>2, <2>1, <2>2 DEF TypeInv, CouncilTypeOK
<1>4. CASE art' = [art EXCEPT ![a].ready = TRUE]
  <2> DEFINE f == [art[a] EXCEPT !.ready = TRUE]
  <2>1. f \in File /\ f.trace = art[a].trace /\ f.status = art[a].status /\ f.revised = art[a].revised
    BY <1>2 DEF File
  <2>2. art' = [art EXCEPT ![a] = f]
    BY <1>4
  <2> HIDE DEF f
  <2> QED
    BY <1>1, <1>2, <2>1, <2>2 DEF TypeInv, CouncilTypeOK
<1> QED
  BY <1>3, <1>4 DEF CouncilEdits

(* Every variable keeps its type, and every thread its shape.               *)
THEOREM TypeInvariance == Spec => []TypeInv
<1>1. Init => TypeInv
  <2> SUFFICES ASSUME Init PROVE TypeInv
    OBVIOUS
  <2> PICK s \in Start :
         art = [a \in Artifact |-> [status |-> s[a], revised |-> FALSE, ready |-> FALSE,
                                    trace |-> <<>>]]
    BY DEF Init
  <2>1. \A a \in Artifact : s[a] \in Status
    BY ArtifactAssumption
  <2>2. <<>> \in Seq(Entry)
    BY EmptySeq
  <2>3. art \in [Artifact -> File]
    BY <2>1, <2>2 DEF File
  <2> QED
    BY <2>3, ArtifactAssumption DEF Init, TypeInv, CouncilTypeOK, Channel
<1>2. TypeInv /\ UNCHANGED vars => TypeInv'
  BY DEF TypeInv, CouncilTypeOK, vars, files
<1>3. TypeInv /\ [Next]_vars => TypeInv'
  BY <1>2, StepTyped, EditTyped DEF Next
<1> QED
  BY <1>1, <1>3, PTL DEF Spec

(* Files, threads and what the threads have read are typed, whatever        *)
(* interleaves and whoever dies.                                            *)
THEOREM Typing == Spec => []CouncilTypeOK
<1>1. TypeInv => CouncilTypeOK
  BY DEF TypeInv
<1> QED
  BY <1>1, TypeInvariance, PTL

-----------------------------------------------------------------------------
(* Coherence and verdicts.                                                  *)

(* The strengthened invariant: what is on file is good; a suggestion on     *)
(* file that asks for a verdict was the owner's; what a thread has read is  *)
(* good, what it carries is such a suggestion (or, for the command line,    *)
(* a request whose own lane asks); and what it is about to apply is valid.  *)
Carried(p) ==
    job[p].req \in Request =>
        IF pc[p] \in {"overwrite", "record"} THEN job[p].req.asked = job[p].req.lane
                                             ELSE SuggestedByOwner(job[p].req)
CarriedGood(p) ==
    pc[p] # "idle" => /\ Good(job[p].file)
                      /\ Carried(p)
                      /\ pc[p] = "apply" => ValidTransition(job[p].on, job[p].file, job[p].req)
ReviewInv ==
    /\ \A a \in Artifact : Good(art[a])
    /\ \A ch \in Channel : mapping[ch] \in Request => SuggestedByOwner(mapping[ch])
    /\ \A p \in Thread : CarriedGood(p)

(* Only two steps write an artifact, and what they write is good.           *)
LEMMA ArtifactsStayGood ==
    ASSUME TypeInv, ReviewInv, NEW p \in Thread, Step(p) \/ Die(p)
    PROVE  \A a \in Artifact : Good(art'[a])
<1>1. ASSUME pc[p] # "idle"
      PROVE  /\ job[p].on \in Artifact /\ job[p].file \in File /\ Good(job[p].file)
             /\ pc[p] \in WithRequest => job[p].req \in Request
  BY <1>1 DEF TypeInv, CouncilTypeOK, Job, WithRequest, ReviewInv, CarriedGood
<1>2. art \in [Artifact -> File]
  BY DEF TypeInv, CouncilTypeOK
<1>3. ASSUME NEW f, Good(f), pc[p] # "idle", art' = [art EXCEPT ![job[p].on] = f]
      PROVE  \A a \in Artifact : Good(art'[a])
  BY <1>1, <1>2, <1>3 DEF ReviewInv
<1>4. CASE WriteArtifact(p)
  <2>1. pc[p] = "apply" /\ art' = [art EXCEPT ![job[p].on] = Audited(job[p].file, job[p].req)]
    BY <1>4 DEF WriteArtifact
  <2>2. ValidTransition(job[p].on, job[p].file, job[p].req) /\ SuggestedByOwner(job[p].req)
    BY <1>1, <2>1 DEF ReviewInv, CarriedGood, Carried, WithRequest
  <2>3. Good(Audited(job[p].file, job[p].req))
    BY <1>1, <2>1, <2>2, AuditedGood DEF WithRequest
  <2> QED
    BY <1>3, <2>1, <2>3
<1>5. CASE CliOverwrite(p)
  <2>1. /\ pc[p] = "overwrite"
        /\ art' = [art EXCEPT ![job[p].on] = ApplyTransition(job[p].on, job[p].file, job[p].req)]
    BY <1>5 DEF CliOverwrite
  <2>2. job[p].req \in Request /\ job[p].req.asked = job[p].req.lane
    BY <1>1, <2>1 DEF ReviewInv, CarriedGood, Carried, WithRequest
  <2>3. CASE ValidTransition(job[p].on, job[p].file, job[p].req)
    <3>1. Good(Audited(job[p].file, job[p].req))
      BY <1>1, <2>1, <2>2, <2>3, ValidVerdict, AuditedGood
    <3> QED
      BY <1>3, <2>1, <2>3, <3>1 DEF ApplyTransition
  <2>4. CASE ~ ValidTransition(job[p].on, job[p].file, job[p].req)
    BY <1>1, <1>3, <2>1, <2>4 DEF ApplyTransition
  <2> QED
    BY <2>3, <2>4
<1>6. CASE UNCHANGED art
  BY <1>6 DEF ReviewInv
<1> QED
  BY <1>4, <1>5, <1>6 DEF Step, Die, Observe, WriteMapping, WriteValidation, Confirm,
     ConfirmAtWrongStage, ReadSuggestion, ReadOutcome, Block, WriteAdvisory, WriteReceipt,
     Cli, CliRecord, files

(* Only one step writes a suggestion: the one that carries it.              *)
LEMMA SuggestionsStayOwned ==
    ASSUME TypeInv, ReviewInv, NEW p \in Thread, Step(p) \/ Die(p)
    PROVE  \A ch \in Channel : mapping'[ch] \in Request => SuggestedByOwner(mapping'[ch])
<1>1. CASE WriteMapping(p)
  <2>1. mapping' = [mapping EXCEPT ![job[p].ch] = job[p].req] /\ pc[p] = "mapping"
    BY <1>1 DEF WriteMapping
  <2>2. job[p].req \in Request => SuggestedByOwner(job[p].req)
    BY <2>1 DEF ReviewInv, CarriedGood, Carried
  <2>3. mapping \in [Channel -> Request \cup {NoFile, NoSuggestion}]
    BY DEF TypeInv, CouncilTypeOK
  <2> QED
    BY <2>1, <2>2, <2>3 DEF ReviewInv
<1>2. CASE UNCHANGED mapping
  BY <1>2 DEF ReviewInv
<1> QED
  BY <1>1, <1>2 DEF Step, Die, Observe, WriteArtifact, WriteValidation, Confirm, CliOverwrite,
     ConfirmAtWrongStage, ReadSuggestion, ReadOutcome, Block, WriteAdvisory, WriteReceipt,
     Cli, CliRecord, files

(* What a thread has read and carries stays good.                           *)
LEMMA CarriedStaysGood ==
    ASSUME TypeInv, ReviewInv, NEW p \in Thread, Step(p) \/ Die(p)
    PROVE  \A x \in Thread : CarriedGood(x)'
<1> USE DEF Goto, Finish
<1>0. /\ pc \in [Thread -> Label] /\ job \in [Thread -> Job \cup {NoJob}]
      /\ pc[p] # "idle" => job[p] \in Job
      /\ art \in [Artifact -> File]
      /\ \A a \in Artifact : Good(art[a])
      /\ \A ch \in Channel : mapping[ch] \in Request => SuggestedByOwner(mapping[ch])
      /\ CarriedGood(p)
      /\ mapping \in [Channel -> Request \cup {NoFile, NoSuggestion}]
  BY DEF TypeInv, CouncilTypeOK, Label, ReviewInv
<1>x. ASSUME NEW label, NEW j, pc' = [pc EXCEPT ![p] = label], job' = [job EXCEPT ![p] = j],
             label = "idle" \/ (CarriedGood(p)' /\ label # "idle")
      PROVE  \A x \in Thread : CarriedGood(x)'
  <2>1. \A x \in Thread \ {p} : pc'[x] = pc[x] /\ job'[x] = job[x]
    BY <1>0, <1>x
  <2>2. \A x \in Thread \ {p} : CarriedGood(x) => CarriedGood(x)'
    BY <2>1 DEF CarriedGood, Carried
  <2>3. pc'[p] = label
    BY <1>0, <1>x
  <2>4. CarriedGood(p)'
    BY <1>x, <2>3 DEF CarriedGood
  <2> QED
    BY <2>2, <2>4 DEF ReviewInv
<1>i. Finish(p) => \A x \in Thread : CarriedGood(x)'
  BY <1>x
<1>s. ASSUME NEW label \in Label \ {"idle", "apply", "overwrite", "record"},
             pc[p] \notin {"idle", "overwrite", "record"},
             pc' = [pc EXCEPT ![p] = label], UNCHANGED job
      PROVE  \A x \in Thread : CarriedGood(x)'
  <2>1. pc'[p] = label /\ job' = [job EXCEPT ![p] = job[p]]
    BY <1>0, <1>s
  <2>2. CarriedGood(p)'
    BY <1>0, <1>s, <2>1 DEF CarriedGood, Carried
  <2> QED
    BY <1>s, <1>x, <2>1, <2>2
<1>1. CASE Observe(p)
  <2> PICK m \in Message :
         job' = [job EXCEPT ![p] =
                    [on |-> m[1], ch |-> IF m[2] = "rework" THEN "rework" ELSE "feedback",
                     file |-> art[m[1]], req |-> Suggestion(m[1], art[m[1]], m[2], m[3])]]
    BY <1>1 DEF Observe
  <2> DEFINE req == Suggestion(m[1], art[m[1]], m[2], m[3])
             j == [on |-> m[1], ch |-> IF m[2] = "rework" THEN "rework" ELSE "feedback",
                   file |-> art[m[1]], req |-> req]
  <2>1. m[1] \in Artifact /\ m[2] \in Intent /\ m[3] \in Lane /\ art[m[1]] \in File
    BY <1>0, ArtifactAssumption
  <2>2. req \in Request => SuggestedByOwner(req)
    BY <2>1, SuggestionTyped, ArtifactAssumption
  <2>3. pc' = [pc EXCEPT ![p] = "mapping"] /\ job' = [job EXCEPT ![p] = j]
    BY <1>1 DEF Observe
  <2>4. pc'[p] = "mapping" /\ job'[p] = j
    BY <1>0, <2>3
  <2>5. j.file = art[m[1]] /\ j.req = req
    OBVIOUS
  <2> HIDE DEF j, req
  <2>6. CarriedGood(p)'
    BY <1>0, <2>1, <2>2, <2>4, <2>5 DEF CarriedGood, Carried
  <2> QED
    BY <1>x, <2>3, <2>6
<1>2. CASE WriteMapping(p)
  <2>1. Finish(p) \/ (pc' = [pc EXCEPT ![p] = "audit"] /\ UNCHANGED job)
    BY <1>2 DEF WriteMapping
  <2> QED
    BY <1>i, <1>s, <1>2, <2>1 DEF WriteMapping, Label
<1>3. CASE Confirm(p)
  <2> PICK a \in Artifact, ch \in Channel :
         job' = [job EXCEPT ![p] =
                    [on |-> a, ch |-> ch, file |-> art[a], req |-> NoSuggestion]]
    BY <1>3 DEF Confirm
  <2> DEFINE j == [on |-> a, ch |-> ch, file |-> art[a], req |-> NoSuggestion]
  <2>1. pc' = [pc EXCEPT ![p] = "suggestion"] /\ job' = [job EXCEPT ![p] = j]
    BY <1>3 DEF Confirm
  <2>2. pc'[p] = "suggestion" /\ job'[p].file = art[a] /\ job'[p].req = NoSuggestion
    BY <1>0, <2>1
  <2>3. CarriedGood(p)'
    BY <1>0, <2>2, ArtifactAssumption DEF CarriedGood, Carried
  <2> HIDE DEF j
  <2> QED
    BY <1>x, <2>1, <2>3
<1>4. ASSUME MissingFile(p), pc[p] \in {"suggestion", "outcome"}
      PROVE  \A x \in Thread : CarriedGood(x)'
  BY <1>i, <1>s, <1>4 DEF MissingFile, Label
<1>5. CASE ReadSuggestion(p)
  <2> DEFINE q == mapping[job[p].ch]
  <2>0. pc[p] = "suggestion" /\ job[p] \in Job
    BY <1>0, <1>5 DEF ReadSuggestion
  <2>1. job[p].ch \in Channel
    BY <2>0 DEF Job
  <2>2. q = NoFile \/ q = NoSuggestion \/ (q \in Request /\ SuggestedByOwner(q) /\ q # NoFile /\ q # NoSuggestion)
    BY <1>0, <2>1, ArtifactAssumption
  <2>3. CASE q = NoFile
    BY <1>4, <1>5, <2>0, <2>3, ArtifactAssumption DEF ReadSuggestion
  <2>4. CASE q = NoSuggestion
    BY <1>s, <1>5, <2>0, <2>4, ArtifactAssumption DEF ReadSuggestion, Label
  <2>5. CASE q \in Request /\ SuggestedByOwner(q) /\ q # NoFile /\ q # NoSuggestion
    <3> DEFINE j == [job[p] EXCEPT !.req = AsOwner(q)]
    <3>1. job' = [job EXCEPT ![p].req = AsOwner(q)] /\ pc' = [pc EXCEPT ![p] = "outcome"]
      BY <1>5, <2>5 DEF ReadSuggestion
    <3>2. job' = [job EXCEPT ![p] = j]
      BY <3>1
    <3>3. SuggestedByOwner(AsOwner(q))
      BY <2>5, AsOwnerTyped
    <3>4. j.file = job[p].file /\ j.req = AsOwner(q)
      BY <2>0 DEF Job
    <3> HIDE DEF j
    <3>5. pc'[p] = "outcome" /\ job'[p] = j
      BY <1>0, <3>1, <3>2
    <3>6. CarriedGood(p)'
      BY <1>0, <2>0, <3>3, <3>4, <3>5 DEF CarriedGood, Carried
    <3> QED
      BY <1>x, <3>1, <3>2, <3>6
  <2> QED
    BY <2>2, <2>3, <2>4, <2>5
<1>6. CASE ReadOutcome(p)
  <2>0. pc[p] = "outcome"
    BY <1>6 DEF ReadOutcome
  <2>1. \/ MissingFile(p)
        \/ pc' = [pc EXCEPT ![p] = "block"] /\ UNCHANGED job
        \/ /\ pc' = [pc EXCEPT ![p] = "apply"] /\ UNCHANGED job
           /\ ValidTransition(job[p].on, job[p].file, job[p].req)
    BY <1>6 DEF ReadOutcome
  <2>2. CASE pc' = [pc EXCEPT ![p] = "block"] /\ UNCHANGED job
    BY <1>s, <2>0, <2>2 DEF Label
  <2>3. CASE /\ pc' = [pc EXCEPT ![p] = "apply"] /\ UNCHANGED job
             /\ ValidTransition(job[p].on, job[p].file, job[p].req)
    <3>1. pc'[p] = "apply" /\ job' = [job EXCEPT ![p] = job[p]]
      BY <1>0, <2>3
    <3>2. Good(job[p].file) /\ Carried(p)
      BY <1>0, <2>0 DEF CarriedGood
    <3>3. CarriedGood(p)'
      BY <2>0, <2>3, <3>1, <3>2 DEF CarriedGood, Carried
    <3> QED
      BY <1>x, <2>3, <3>1, <3>3
  <2> QED
    BY <1>4, <2>0, <2>1, <2>2, <2>3
<1>7. CASE WriteArtifact(p)
  <2>1. PICK label \in {"advise", "receipt"} : pc' = [pc EXCEPT ![p] = label]
    BY <1>7 DEF WriteArtifact
  <2> QED
    BY <1>s, <1>7, <2>1 DEF WriteArtifact, Label
<1>8. CASE WriteAdvisory(p)
  BY <1>s, <1>8 DEF WriteAdvisory, Label
<1>9. CASE Cli(p)
  <2> PICK a \in Artifact, q \in CliRequest, apply \in BOOLEAN :
         /\ job' = [job EXCEPT ![p] =
                       [on |-> a, ch |-> "feedback", file |-> art[a], req |-> q]]
         /\ Goto(p, IF apply THEN "overwrite" ELSE "record")
    BY <1>9 DEF Cli
  <2> DEFINE j == [on |-> a, ch |-> "feedback", file |-> art[a], req |-> q]
  <2>1. PICK label \in {"overwrite", "record"} : pc' = [pc EXCEPT ![p] = label]
    OBVIOUS
  <2>2. pc'[p] = label /\ job'[p].file = art[a] /\ job'[p].req = q
    BY <1>0, <2>1
  <2>3. CarriedGood(p)'
    BY <1>0, <2>1, <2>2, ArtifactAssumption DEF CarriedGood, Carried
  <2> HIDE DEF j
  <2>4. job' = [job EXCEPT ![p] = j]
    BY DEF j
  <2> QED
    BY <1>x, <2>1, <2>3, <2>4
<1>10. CASE CliOverwrite(p)
  <2>1. /\ pc[p] = "overwrite" /\ pc' = [pc EXCEPT ![p] = "record"]
        /\ job' = [job EXCEPT ![p] = job[p]]
    BY <1>0, <1>10 DEF CliOverwrite
  <2>2. pc'[p] = "record" /\ job'[p] = job[p]
    BY <1>0, <2>1
  <2>3. CarriedGood(p)'
    BY <1>0, <2>1, <2>2 DEF CarriedGood, Carried
  <2> QED
    BY <1>x, <2>1, <2>3
<1>11. CASE UNCHANGED <<pc, job>>
  BY <1>11 DEF ReviewInv, CarriedGood, Carried
<1> QED
  BY <1>i, <1>1, <1>2, <1>3, <1>5, <1>6, <1>7, <1>8, <1>9, <1>10, <1>11
     DEF Step, Die, WriteValidation, ConfirmAtWrongStage, Block, WriteReceipt, CliRecord

(* An edit by the council keeps the content good.                           *)
LEMMA EditGood ==
    ASSUME TypeInv, ReviewInv, NEW a \in Artifact, CouncilEdits(a)
    PROVE  ReviewInv'
<1>1. \A x \in Artifact : Good(art'[x])
  BY EditTyped DEF ReviewInv, Good, Coherent
<1>2. UNCHANGED <<mapping, pc, job>>
  BY EditTyped
<1> QED
  BY <1>1, <1>2 DEF ReviewInv, CarriedGood, Carried

(* The strengthened invariant holds in every reachable state.               *)
THEOREM ReviewInvariance == Spec => []ReviewInv
<1>1. Init => ReviewInv
  <2> SUFFICES ASSUME Init PROVE ReviewInv
    OBVIOUS
  <2>1. \A a \in Artifact : art[a].trace = <<>>
    BY DEF Init
  <2>2. \A a \in Artifact : Good(art[a])
    BY <2>1 DEF Good, Coherent, Chain
  <2> QED
    BY <2>2, ArtifactAssumption DEF Init, ReviewInv, CarriedGood
<1>2. TypeInv /\ ReviewInv /\ UNCHANGED vars => ReviewInv'
  BY DEF ReviewInv, CarriedGood, Carried, vars, files
<1>3. ASSUME TypeInv, ReviewInv, NEW p \in Thread, Step(p) \/ Die(p) PROVE ReviewInv'
  BY <1>3, ArtifactsStayGood, SuggestionsStayOwned, CarriedStaysGood DEF ReviewInv
<1>4. TypeInv /\ ReviewInv /\ [Next]_vars => ReviewInv'
  BY <1>2, <1>3, EditGood DEF Next
<1> QED
  BY <1>1, <1>4, TypeInvariance, PTL DEF Spec

(* The audit trace of every artifact is a chain of legal transitions that   *)
(* ends at its status, whoever writes whole artifacts over those of others. *)
THEOREM TracesCoherent == Spec => []FilesCoherent
<1>1. ReviewInv => FilesCoherent
  BY DEF ReviewInv, Good, FilesCoherent
<1> QED
  BY <1>1, ReviewInvariance, PTL

(* No verdict in any trace was suggested by a chat message.                 *)
THEOREM VerdictsAreOwners == Spec => []VerdictFromOwner
<1>1. ReviewInv => VerdictFromOwner
  BY DEF ReviewInv, Good, VerdictFromOwner
<1> QED
  BY <1>1, ReviewInvariance, PTL

-----------------------------------------------------------------------------
(* One applying thread.                                                     *)

LoneApplier == \A p, q \in Applier : p = q

(* A move that is in a trace.                                               *)
MadeIn(t, from, to) == \E i \in DOMAIN t : t[i].from = from /\ t[i].to = to

(* Nobody has applied anything since the thread read its artifact.          *)
Fresh(p) == /\ job[p].file.trace = art[job[p].on].trace
            /\ job[p].file.status = art[job[p].on].status

(* The invariant of a lone applier: only it is on the way to an apply, the  *)
(* artifact it read is the one on file until it writes it, the move it will *)
(* report is in the trace, and every report on file is backed.              *)
ToApply == {"suggestion", "outcome", "apply", "overwrite"}
LoneInv ==
    /\ \A p \in Thread :
         /\ pc[p] \in ToApply => p \in Applier /\ Fresh(p)
         /\ pc[p] \in {"advise", "receipt"} =>
              MadeIn(art[job[p].on].trace, job[p].req.from, job[p].req.to)
    /\ AppliedReceiptBacked

(* Artifacts change their trace and status only by one valid, fresh move.   *)
Quiet == \A a \in Artifact : art'[a].trace = art[a].trace /\ art'[a].status = art[a].status
MoveBy(p) ==
    /\ pc[p] \in {"apply", "overwrite"} /\ Fresh(p)
    /\ job[p].on \in Artifact /\ job[p].file \in File /\ job[p].req \in Request
    /\ ValidTransition(job[p].on, job[p].file, job[p].req)
    /\ art' = [art EXCEPT ![job[p].on] = Audited(job[p].file, job[p].req)]

LEMMA ArtifactMoves ==
    ASSUME TypeInv, ReviewInv, LoneInv, [Next]_vars
    PROVE  Quiet \/ \E p \in Thread : MoveBy(p)
<1>0. art \in [Artifact -> File]
  BY DEF TypeInv, CouncilTypeOK
<1>1. ASSUME NEW p \in Thread, pc[p] \in {"apply", "overwrite"}
      PROVE  /\ Fresh(p) /\ job[p].on \in Artifact /\ job[p].file \in File
             /\ job[p].req \in Request
             /\ pc[p] = "apply" => ValidTransition(job[p].on, job[p].file, job[p].req)
  BY <1>1 DEF TypeInv, CouncilTypeOK, Job, LoneInv, ToApply, ReviewInv, CarriedGood
<1>2. ASSUME NEW p \in Thread, WriteArtifact(p) PROVE MoveBy(p)
  BY <1>1, <1>2 DEF WriteArtifact, MoveBy
<1>3. ASSUME NEW p \in Thread, CliOverwrite(p) PROVE Quiet \/ MoveBy(p)
  <2>1. CASE ValidTransition(job[p].on, job[p].file, job[p].req)
    BY <1>1, <1>3, <2>1 DEF CliOverwrite, MoveBy, ApplyTransition
  <2>2. CASE ~ ValidTransition(job[p].on, job[p].file, job[p].req)
    BY <1>0, <1>1, <1>3, <2>2 DEF CliOverwrite, ApplyTransition, Quiet, Fresh
  <2> QED
    BY <2>1, <2>2
<1>4. ASSUME NEW a \in Artifact, CouncilEdits(a) PROVE Quiet
  BY <1>4, EditTyped DEF Quiet
<1>5. CASE UNCHANGED art
  BY <1>5 DEF Quiet
<1> QED
  BY <1>2, <1>3, <1>4, <1>5 DEF Next, Step, Die, Observe, WriteMapping, WriteValidation, Confirm,
     ConfirmAtWrongStage, ReadSuggestion, ReadOutcome, Block, WriteAdvisory, WriteReceipt,
     Cli, CliRecord, files, vars

(* What a move adds to the trace of its artifact.                           *)
LEMMA MoveMade ==
    ASSUME TypeInv, NEW p \in Thread, MoveBy(p)
    PROVE  LET a == job[p].on
               f == job[p].file
               e == [from |-> job[p].req.from, to |-> job[p].req.to,
                     lane |-> job[p].req.lane, asked |-> job[p].req.asked]
           IN  /\ art'[a].trace = Append(art[a].trace, e) /\ e \in Entry
               /\ art[a].trace \in Seq(Entry)
               /\ art'[a].status = job[p].req.to
               /\ art[a].status = job[p].req.from
               /\ job[p].req.to \in STATE_TRANSITIONS[job[p].req.from]
               /\ \A x \in Artifact \ {a} : art'[x] = art[x]
<1> DEFINE a == job[p].on
           f == job[p].file
           e == [from |-> job[p].req.from, to |-> job[p].req.to,
                 lane |-> job[p].req.lane, asked |-> job[p].req.asked]
<1>1. art \in [Artifact -> File] /\ a \in Artifact /\ f \in File /\ job[p].req \in Request
  BY DEF MoveBy, TypeInv, CouncilTypeOK
<1>2. art[a].trace = f.trace /\ art[a].status = f.status /\ f.trace \in Seq(Entry)
  BY <1>1 DEF MoveBy, Fresh, File
<1>3. e \in Entry
  BY <1>1 DEF Request, Entry
<1>4. art' = [art EXCEPT ![a] = Audited(f, job[p].req)]
  BY DEF MoveBy
<1>5. Audited(f, job[p].req).trace = Append(f.trace, e) /\ Audited(f, job[p].req).status = job[p].req.to
  BY DEF Audited
<1>6. f.status = job[p].req.from /\ job[p].req.to \in STATE_TRANSITIONS[job[p].req.from]
  BY DEF MoveBy, ValidTransition
<1> HIDE DEF e, f, a
<1>7. art'[a] = Audited(f, job[p].req) /\ \A x \in Artifact \ {a} : art'[x] = art[x]
  BY <1>1, <1>4
<1> QED
  BY <1>1, <1>2, <1>3, <1>5, <1>6, <1>7 DEF a, f, e

(* A move that was made stays made when another is added.                   *)
LEMMA AppendedMove ==
    ASSUME NEW t \in Seq(Entry), NEW e \in Entry
    PROVE  /\ MadeIn(Append(t, e), e.from, e.to)
           /\ \A from, to : MadeIn(t, from, to) => MadeIn(Append(t, e), from, to)
<1> DEFINE u == Append(t, e)
<1>1. /\ DOMAIN u = 1 .. Len(t) + 1 /\ DOMAIN t = 1 .. Len(t) /\ Len(t) \in Nat
      /\ u[Len(t) + 1] = e /\ \A i \in 1 .. Len(t) : u[i] = t[i]
  BY AppendProperties
<1> HIDE DEF u
<1>2. Len(t) + 1 \in DOMAIN u /\ \A i \in DOMAIN t : i \in DOMAIN u /\ u[i] = t[i]
  BY <1>1
<1>3. MadeIn(u, e.from, e.to)
  BY <1>1, <1>2 DEF MadeIn
<1>4. \A from, to : MadeIn(t, from, to) => MadeIn(u, from, to)
  BY <1>2 DEF MadeIn
<1> QED
  BY <1>3, <1>4 DEF u

(* No step takes a move out of a trace, and a move adds its own.            *)
LEMMA MadeStays ==
    ASSUME TypeInv, Quiet \/ \E p \in Thread : MoveBy(p)
    PROVE  /\ \A a \in Artifact : \A from, to :
                 MadeIn(art[a].trace, from, to) => MadeIn(art'[a].trace, from, to)
           /\ \A p \in Thread : MoveBy(p) =>
                 MadeIn(art'[job[p].on].trace, job[p].req.from, job[p].req.to)
<1>1. ASSUME NEW p \in Thread, MoveBy(p)
      PROVE  /\ MadeIn(art'[job[p].on].trace, job[p].req.from, job[p].req.to)
             /\ \A a \in Artifact : \A from, to :
                  MadeIn(art[a].trace, from, to) => MadeIn(art'[a].trace, from, to)
  <2> DEFINE on == job[p].on
             e == [from |-> job[p].req.from, to |-> job[p].req.to,
                   lane |-> job[p].req.lane, asked |-> job[p].req.asked]
  <2>1. art'[on].trace = Append(art[on].trace, e) /\ art[on].trace \in Seq(Entry) /\ e \in Entry
        /\ \A x \in Artifact \ {on} : art'[x] = art[x]
    BY <1>1, MoveMade
  <2>2. e.from = job[p].req.from /\ e.to = job[p].req.to
    OBVIOUS
  <2> HIDE DEF e, on
  <2>3. /\ MadeIn(art'[on].trace, e.from, e.to)
        /\ \A from, to : MadeIn(art[on].trace, from, to) => MadeIn(art'[on].trace, from, to)
    BY <2>1, AppendedMove
  <2>4. \A a \in Artifact : \A from, to :
           MadeIn(art[a].trace, from, to) => MadeIn(art'[a].trace, from, to)
    BY <2>1, <2>3
  <2> QED
    BY <2>2, <2>3, <2>4 DEF on
<1>2. ASSUME Quiet, NEW a \in Artifact, NEW from, NEW to, MadeIn(art[a].trace, from, to)
      PROVE  MadeIn(art'[a].trace, from, to)
  BY <1>2 DEF Quiet
<1> QED
  BY <1>1, <1>2

(* The invariant of the lone applier is kept.                               *)
LEMMA LoneStep ==
    ASSUME LoneApplier, TypeInv, ReviewInv, LoneInv, [Next]_vars
    PROVE  LoneInv'
<1> USE DEF Goto, Finish
<1>0. /\ pc \in [Thread -> Label] /\ job \in [Thread -> Job \cup {NoJob}]
      /\ \A p \in Thread : pc[p] # "idle" => job[p] \in Job
      /\ \A p \in Thread : pc[p] \in WithRequest => job[p].req \in Request
      /\ receipt \in [Channel -> Applied \cup {NoFile, Blocked}]
  BY DEF TypeInv, CouncilTypeOK, Label, WithRequest
<1>1. /\ \A a \in Artifact : \A from, to :
            MadeIn(art[a].trace, from, to) => MadeIn(art'[a].trace, from, to)
      /\ \A p \in Thread : MoveBy(p) =>
            MadeIn(art'[job[p].on].trace, job[p].req.from, job[p].req.to)
      /\ Quiet \/ \E p \in Thread : MoveBy(p)
  BY ArtifactMoves, MadeStays
<1>2. \A p \in Thread : pc[p] # "idle" => job[p].on \in Artifact /\ job[p].ch \in Channel
  BY <1>0 DEF Job
<1>3. ASSUME NEW p \in Thread, NEW q \in Thread, p # q,
             pc[p] \in ToApply, pc[q] \in ToApply
      PROVE  FALSE
  BY <1>3 DEF LoneInv, LoneApplier
(* Receipts.                                                                *)
<1>4. AppliedReceiptBacked'
  <2>0. \A ch \in Channel : receipt[ch] \in Applied =>
           receipt[ch].on \in Artifact
           /\ MadeIn(art'[receipt[ch].on].trace, receipt[ch].from, receipt[ch].to)
    BY <1>1 DEF LoneInv, AppliedReceiptBacked, Applied, MadeIn
  <2>1. ASSUME NEW p \in Thread, WriteReceipt(p) PROVE AppliedReceiptBacked'
    <3> DEFINE new == AppliedBy(job[p])
    <3>1. pc[p] = "receipt" /\ receipt' = [receipt EXCEPT ![job[p].ch] = new]
      BY <2>1 DEF WriteReceipt
    <3>2. MadeIn(art'[job[p].on].trace, job[p].req.from, job[p].req.to)
      BY <1>1, <1>2, <3>1 DEF LoneInv
    <3>3. new.on = job[p].on /\ new.from = job[p].req.from /\ new.to = job[p].req.to
      BY DEF AppliedBy
    <3> HIDE DEF new
    <3>4. \A ch \in Channel : receipt'[ch] \in Applied =>
             MadeIn(art'[receipt'[ch].on].trace, receipt'[ch].from, receipt'[ch].to)
      BY <1>0, <1>2, <2>0, <3>1, <3>2, <3>3
    <3> QED
      BY <3>4 DEF AppliedReceiptBacked, MadeIn
  <2>2. ASSUME \A ch \in Channel : receipt'[ch] = receipt[ch] \/ receipt'[ch] = Blocked
        PROVE  AppliedReceiptBacked'
    BY <2>0, <2>2, ArtifactAssumption DEF AppliedReceiptBacked, MadeIn
  <2>3. ASSUME NEW p \in Thread, ConfirmAtWrongStage(p) \/ Block(p) PROVE AppliedReceiptBacked'
    BY <1>0, <2>2, <2>3 DEF ConfirmAtWrongStage, Block
  <2>4. CASE UNCHANGED receipt
    BY <2>2, <2>4
  <2> QED
    BY <2>1, <2>3, <2>4 DEF Next, Step, Die, Observe, WriteMapping, WriteValidation, Confirm,
       ReadSuggestion, ReadOutcome, WriteArtifact, WriteAdvisory, Cli, CliOverwrite, CliRecord,
       CouncilEdits, files, vars
(* Threads.                                                                 *)
<1> DEFINE ThreadOK(x) ==
             /\ pc[x] \in ToApply => x \in Applier /\ Fresh(x)
             /\ pc[x] \in {"advise", "receipt"} =>
                  MadeIn(art[job[x].on].trace, job[x].req.from, job[x].req.to)
<1>5. ASSUME NEW x \in Thread, pc'[x] = pc[x], job'[x] = job[x],
             pc[x] \in ToApply => Quiet
      PROVE  ThreadOK(x)'
  <2>1. ASSUME pc[x] \in ToApply PROVE x \in Applier /\ Fresh(x)'
    <3>1. Quiet
      BY <1>5, <2>1
    <3>2. job[x].on \in Artifact /\ x \in Applier /\ Fresh(x)
      BY <1>2, <2>1 DEF LoneInv, ToApply
    <3> QED
      BY <1>5, <3>1, <3>2 DEF Quiet, Fresh
  <2>2. ASSUME pc[x] \in {"advise", "receipt"}
        PROVE  MadeIn(art'[job'[x].on].trace, job'[x].req.from, job'[x].req.to)
    BY <1>1, <1>2, <1>5, <2>2 DEF LoneInv
  <2> QED
    BY <1>5, <2>1, <2>2
<1>6. ASSUME NEW x \in Thread, pc'[x] \notin ToApply \cup {"advise", "receipt"}
      PROVE  ThreadOK(x)'
  BY <1>6
<1>7. ASSUME NEW p \in Thread, Step(p) \/ Die(p) PROVE ThreadOK(p)'
  <2>1. CASE Confirm(p)
    <3>1. /\ \E a \in Artifact : job'[p].on = a /\ job'[p].file = art[a]
          /\ pc'[p] = "suggestion" /\ p \in Applier /\ UNCHANGED art
      BY <1>0, <2>1 DEF Confirm, files
    <3> QED
      BY <3>1 DEF Fresh, ToApply
  <2>2. CASE Cli(p)
    <3>1. /\ \E a \in Artifact : job'[p].on = a /\ job'[p].file = art[a]
          /\ pc'[p] \in {"overwrite", "record"} /\ p \in Applier /\ UNCHANGED art
      BY <1>0, <2>2 DEF Cli, files
    <3> QED
      BY <3>1 DEF Fresh, ToApply
  <2>3. CASE ReadSuggestion(p)
    <3>0. pc[p] = "suggestion" /\ job[p] \in Job /\ p \in Applier /\ Fresh(p) /\ UNCHANGED art
      BY <1>0, <2>3 DEF ReadSuggestion, files, LoneInv, ToApply
    <3>1. \/ pc'[p] \in {"block", "idle"}
          \/ pc'[p] = "outcome" /\ job'[p].on = job[p].on /\ job'[p].file = job[p].file
      BY <1>0, <2>3, <3>0 DEF ReadSuggestion, MissingFile, Job
    <3> QED
      BY <3>0, <3>1 DEF Fresh, ToApply
  <2>4. CASE ReadOutcome(p)
    <3>0. pc[p] = "outcome" /\ p \in Applier /\ Fresh(p) /\ UNCHANGED art
      BY <2>4 DEF ReadOutcome, files, LoneInv, ToApply
    <3>1. \/ pc'[p] \in {"block", "idle"}
          \/ pc'[p] = "apply" /\ UNCHANGED job
      BY <1>0, <2>4, <3>0 DEF ReadOutcome, MissingFile
    <3> QED
      BY <3>0, <3>1 DEF Fresh, ToApply
  <2>5. CASE WriteArtifact(p)
    <3>1. /\ pc[p] = "apply" /\ pc'[p] \in {"advise", "receipt"} /\ UNCHANGED job
          /\ art' = [art EXCEPT ![job[p].on] = Audited(job[p].file, job[p].req)]
      BY <1>0, <2>5 DEF WriteArtifact
    <3>2. MoveBy(p)
      BY <1>0, <3>1 DEF MoveBy, LoneInv, ToApply, Job, WithRequest, ReviewInv, CarriedGood
    <3> QED
      BY <1>1, <3>1, <3>2 DEF ToApply
  <2>6. CASE WriteAdvisory(p)
    <3>1. pc[p] = "advise" /\ pc'[p] = "receipt" /\ UNCHANGED <<art, job>>
      BY <1>0, <2>6 DEF WriteAdvisory
    <3> QED
      BY <3>1 DEF LoneInv, ToApply
  <2>7. CASE ConfirmAtWrongStage(p)
    <3>1. UNCHANGED <<pc, job, art>>
      BY <2>7 DEF ConfirmAtWrongStage
    <3>2. ThreadOK(p)
      BY DEF LoneInv
    <3> QED
      BY <3>1, <3>2 DEF Fresh
  <2>8. CASE Observe(p)
    BY <1>0, <1>6, <2>8 DEF Observe, ToApply
  <2>9. CASE WriteMapping(p)
    BY <1>0, <1>6, <2>9 DEF WriteMapping, ToApply
  <2>10. CASE CliOverwrite(p)
    BY <1>0, <1>6, <2>10 DEF CliOverwrite, ToApply
  <2>11. CASE Finish(p)
    BY <1>0, <1>6, <2>11 DEF ToApply
  <2> QED
    BY <1>7, <2>1, <2>2, <2>3, <2>4, <2>5, <2>6, <2>7, <2>8, <2>9, <2>10, <2>11
       DEF Step, Die, WriteValidation, Block, WriteReceipt, CliRecord
<1>8. ASSUME NEW p \in Thread, Step(p) \/ Die(p), NEW x \in Thread \ {p}
      PROVE  ThreadOK(x)'
  <2>1. pc'[x] = pc[x] /\ job'[x] = job[x]
    BY <1>0, <1>8 DEF Step, Die, Observe, WriteMapping, WriteValidation, Confirm,
       ConfirmAtWrongStage, ReadSuggestion, ReadOutcome, Block, WriteArtifact, WriteAdvisory,
       WriteReceipt, Cli, CliOverwrite, CliRecord, MissingFile
  <2>2. ASSUME pc[x] \in ToApply PROVE Quiet
    <3>1. pc[p] \notin ToApply
      BY <1>3, <1>8, <2>2
    <3>2. UNCHANGED art
      BY <1>8, <3>1 DEF Step, Die, Observe, WriteMapping, WriteValidation, Confirm,
         ConfirmAtWrongStage, ReadSuggestion, ReadOutcome, Block, WriteArtifact, WriteAdvisory,
         WriteReceipt, Cli, CliOverwrite, CliRecord, files, ToApply
    <3> QED
      BY <3>2 DEF Quiet
  <2> QED
    BY <1>5, <2>1, <2>2
<1>9. ASSUME NEW a \in Artifact, CouncilEdits(a), NEW x \in Thread PROVE ThreadOK(x)'
  BY <1>5, <1>9, EditTyped DEF Quiet
<1>10. ASSUME UNCHANGED vars, NEW x \in Thread PROVE ThreadOK(x)'
  BY <1>5, <1>10 DEF vars, files, Quiet
<1>11. \A x \in Thread : ThreadOK(x)'
  BY <1>7, <1>8, <1>9, <1>10 DEF Next
<1> HIDE DEF ThreadOK
<1>12. LoneInv' <=> (\A x \in Thread : ThreadOK(x)') /\ AppliedReceiptBacked'
  BY DEF LoneInv, ThreadOK
<1> QED
  BY <1>4, <1>11, <1>12

(* Nothing is under way or reported at the start.                           *)
LEMMA LoneInit == Init => LoneInv
BY ArtifactAssumption DEF Init, LoneInv, ToApply, AppliedReceiptBacked

-----------------------------------------------------------------------------
(* The lifecycle.                                                           *)

(* The moves of a longer trace.                                             *)
LEMMA MovesAppended ==
    ASSUME NEW t \in Seq(Entry), NEW e \in Entry
    PROVE  /\ MovesOf(Append(t, e)) = Append(MovesOf(t), <<e.from, e.to>>)
           /\ MovesOf(t) \in Seq(Status \X Status)
<1> DEFINE u == Append(t, e)
           m == MovesOf(t)
           w == Append(m, <<e.from, e.to>>)
<1>1. /\ DOMAIN u = 1 .. Len(t) + 1 /\ DOMAIN t = 1 .. Len(t) /\ Len(t) \in Nat
      /\ u[Len(t) + 1] = e /\ \A i \in 1 .. Len(t) : u[i] = t[i]
  BY AppendProperties
<1>2. \A x \in Entry : <<x.from, x.to>> \in Status \X Status
  BY DEF Entry
<1>3. m \in [1 .. Len(t) -> Status \X Status]
  BY <1>1, <1>2, ElementOfSeq DEF MovesOf
<1>4. m \in Seq(Status \X Status) /\ Len(m) = Len(t)
  BY <1>1, <1>3, IsASeq, LenProperties
<1>5. /\ w \in Seq(Status \X Status) /\ Len(w) = Len(t) + 1 /\ w[Len(t) + 1] = <<e.from, e.to>>
      /\ \A i \in 1 .. Len(t) : w[i] = m[i]
  BY <1>2, <1>4, AppendProperties
<1>6. w = [i \in 1 .. Len(w) |-> w[i]]
  BY <1>5, LenProperties
<1>7. \A i \in 1 .. Len(t) : m[i] = <<t[i].from, t[i].to>>
  BY <1>1 DEF MovesOf
<1>8. MovesOf(u) = [i \in 1 .. Len(t) + 1 |-> <<u[i].from, u[i].to>>]
  BY <1>1 DEF MovesOf
<1>9. \A i \in 1 .. Len(t) + 1 : <<u[i].from, u[i].to>> = w[i]
  <2> TAKE i \in 1 .. Len(t) + 1
  <2> HIDE DEF u, w, m
  <2>1. CASE i \in 1 .. Len(t)
    BY <1>1, <1>5, <1>7, <2>1
  <2>2. CASE i = Len(t) + 1
    BY <1>1, <1>5, <2>2
  <2> QED
    BY <1>1, <2>1, <2>2
<1> HIDE DEF u, w, m
<1>10. MovesOf(u) = w
  BY <1>5, <1>6, <1>8, <1>9
<1> QED
  BY <1>4, <1>10 DEF u, w, m

(* A move on file is a move of the lifecycle.                               *)
LEMMA MoveRefines ==
    ASSUME TypeInv, NEW p \in Thread, MoveBy(p), UNCHANGED receipt
    PROVE  Lifecycle!Next
<1> DEFINE a == job[p].on
           e == [from |-> job[p].req.from, to |-> job[p].req.to,
                 lane |-> job[p].req.lane, asked |-> job[p].req.asked]
<1>1. /\ art'[a].trace = Append(art[a].trace, e) /\ e \in Entry /\ art[a].trace \in Seq(Entry)
      /\ art'[a].status = job[p].req.to /\ art[a].status = job[p].req.from
      /\ job[p].req.to \in STATE_TRANSITIONS[job[p].req.from]
      /\ \A x \in Artifact \ {a} : art'[x] = art[x]
  BY MoveMade
<1>2. a \in Artifact /\ e.from = job[p].req.from /\ e.to = job[p].req.to
  BY DEF MoveBy
<1> HIDE DEF a, e
<1>3. StatusOnFile[a] = e.from /\ e.to \in STATE_TRANSITIONS[StatusOnFile[a]]
  BY <1>1, <1>2 DEF StatusOnFile
<1>4. StatusOnFile' = [StatusOnFile EXCEPT ![a] = e.to]
  BY <1>1, <1>2 DEF StatusOnFile
<1>5. MovesOf(art'[a].trace) = Append(MovesOf(art[a].trace), <<e.from, e.to>>)
  BY <1>1, MovesAppended
<1>6. MovesOnFile' = [MovesOnFile EXCEPT ![a] = Append(@, <<e.from, e.to>>)]
  BY <1>1, <1>2, <1>5 DEF MovesOnFile
<1>7. UNCHANGED Told
  BY DEF Told
<1> QED
  BY <1>2, <1>3, <1>4, <1>6, <1>7 DEF Lifecycle!Next, Lifecycle!Move

(* A step that leaves the artifacts alone can only report what was made.    *)
LEMMA TellRefines ==
    ASSUME TypeInv, LoneInv', UNCHANGED art
    PROVE  Lifecycle!Next
<1>1. UNCHANGED <<StatusOnFile, MovesOnFile>>
  BY DEF StatusOnFile, MovesOnFile
<1>2. ASSUME NEW ch \in Channel, receipt'[ch] \in Applied
      PROVE  <<receipt'[ch].on, <<receipt'[ch].from, receipt'[ch].to>> >> \in
               UNION {{<<a, MovesOnFile[a][i]>> : i \in DOMAIN MovesOnFile[a]} : a \in Artifact}
  <2> DEFINE a == receipt'[ch].on
  <2>1. a \in Artifact
    BY <1>2 DEF Applied
  <2>2. PICK i \in DOMAIN art[a].trace : /\ art[a].trace[i].from = receipt'[ch].from
                                         /\ art[a].trace[i].to = receipt'[ch].to
    BY <1>2 DEF LoneInv, AppliedReceiptBacked
  <2> HIDE DEF a
  <2>3. i \in DOMAIN MovesOnFile[a] /\ MovesOnFile[a][i] = <<receipt'[ch].from, receipt'[ch].to>>
    BY <2>1, <2>2 DEF MovesOnFile, MovesOf
  <2>4. <<a, <<receipt'[ch].from, receipt'[ch].to>> >> \in
           {<<a, MovesOnFile[a][k]>> : k \in DOMAIN MovesOnFile[a]}
    BY <2>3
  <2> QED
    BY <2>1, <2>4 DEF a
<1>3. Told' \subseteq Told \cup
         UNION {{<<a, MovesOnFile[a][i]>> : i \in DOMAIN MovesOnFile[a]} : a \in Artifact}
  BY <1>2 DEF Told
<1> QED
  BY <1>1, <1>3 DEF Lifecycle!Next, Lifecycle!Tell

(* Every step of the review is a step of the lifecycle or none.             *)
LEMMA Refines ==
    ASSUME LoneApplier, TypeInv, ReviewInv, LoneInv, LoneInv', [Next]_vars
    PROVE  [Lifecycle!Next]_<<StatusOnFile, MovesOnFile, Told>>
<1>1. UNCHANGED art \/ UNCHANGED receipt
  BY DEF Next, Step, Die, Observe, WriteMapping, WriteValidation, Confirm, ConfirmAtWrongStage,
     ReadSuggestion, ReadOutcome, Block, WriteArtifact, WriteAdvisory, WriteReceipt, Cli,
     CliOverwrite, CliRecord, CouncilEdits, files, vars
<1>2. ASSUME Quiet, UNCHANGED receipt
      PROVE  UNCHANGED <<StatusOnFile, MovesOnFile, Told>>
  BY <1>2 DEF Quiet, StatusOnFile, MovesOnFile, Told
<1> QED
  BY <1>1, <1>2, ArtifactMoves, MoveRefines, TellRefines

(* At the start no artifact has moved and nothing is reported.              *)
LEMMA LifecycleInit == Init => Lifecycle!Init
<1> SUFFICES ASSUME Init PROVE Lifecycle!Init
  OBVIOUS
<1>1. \A a \in Artifact : art[a].trace = <<>> /\ art[a].status \in Status
  BY ArtifactAssumption DEF Init
<1>2. MovesOf(<<>>) = <<>>
  BY DEF MovesOf
<1>3. Told = {}
  BY ArtifactAssumption DEF Init, Told
<1> QED
  BY <1>1, <1>2, <1>3 DEF Lifecycle!Init, StatusOnFile, MovesOnFile, Status

(* With one applying thread, whatever messages are observed meanwhile and   *)
(* whoever dies: a receipt that says "applied" is backed by the trace of    *)
(* its artifact, and the review implements the lifecycle.                   *)
THEOREM LoneApplierLifecycle ==
    ASSUME LoneApplier
    PROVE  Spec => []AppliedReceiptBacked /\ ImplementsLifecycle
<1>1. TypeInv /\ ReviewInv /\ LoneInv /\ [Next]_vars => LoneInv'
  BY LoneStep
<1>2. /\ TypeInv /\ ReviewInv /\ LoneInv /\ LoneInv' /\ [Next]_vars
      => [Lifecycle!Next]_<<StatusOnFile, MovesOnFile, Told>>
  BY Refines
<1>3. LoneInv => AppliedReceiptBacked
  BY DEF LoneInv
<1> QED
  BY <1>1, <1>2, <1>3, LoneInit, LifecycleInit, TypeInvariance, ReviewInvariance, PTL
     DEF Spec, ImplementsLifecycle, Lifecycle!Spec

(* The half about receipts: with one applying thread, what a receipt says   *)
(* was applied is in the trace of its artifact.                             *)
THEOREM ReceiptsBacked ==
    ASSUME LoneApplier
    PROVE  Spec => []AppliedReceiptBacked
BY LoneApplierLifecycle, PTL


(* With one applying thread a rejection is final: a move leaves a status    *)
(* only along STATE_TRANSITIONS, and it starts at the status on file.       *)
THEOREM RejectionsStay ==
    ASSUME LoneApplier
    PROVE  Spec => RejectionIsFinal
<1>1. TypeInv /\ ReviewInv /\ LoneInv /\ [Next]_vars
        => [\A a \in Artifact : art[a].status = "owner_rejected"
              => art'[a].status = "owner_rejected"]_vars
  <2> SUFFICES ASSUME TypeInv, ReviewInv, LoneInv, [Next]_vars,
                      NEW a \in Artifact, art[a].status = "owner_rejected"
               PROVE  art'[a].status = "owner_rejected"
    OBVIOUS
  <2>1. CASE Quiet
    BY <2>1 DEF Quiet
  <2>2. ASSUME NEW p \in Thread, MoveBy(p) PROVE art'[a] = art[a]
    <3>1. /\ art[job[p].on].status = job[p].req.from
          /\ job[p].req.to \in STATE_TRANSITIONS[job[p].req.from]
          /\ \A x \in Artifact \ {job[p].on} : art'[x] = art[x]
      BY <2>2, MoveMade
    <3>2. STATE_TRANSITIONS["owner_rejected"] = {}
      BY DEF STATE_TRANSITIONS
    <3>3. a # job[p].on
      BY <3>1, <3>2
    <3> QED
      BY <3>1, <3>3
  <2> QED
    BY <2>1, <2>2, ArtifactMoves
<1> QED
  BY <1>1, LoneStep, LoneInit, TypeInvariance, ReviewInvariance, PTL DEF Spec, RejectionIsFinal
=============================================================================
