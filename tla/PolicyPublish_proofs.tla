------------------------ MODULE PolicyPublish_proofs ------------------------
(***************************************************************************)
(* Proofs about the publish workflow and the report on it, for any scopes, *)
(* versions, publishes, actors and crashes.                                *)
(***************************************************************************)
EXTENDS PublishReconcile, TLAPS

-----------------------------------------------------------------------------
(* Typing.                                                                  *)

(* What a call holds in memory.                                             *)
Call == [at : Phase, pub : Publish \cup {"none"}, target : Target \cup {"none"},
         old : Status \cup {"none", "absent"}, from : Maybe, before : Maybe, after : Maybe,
         table : [Scope -> Maybe]]

(* PubTypeOK, with the shape of a call, and with what a call that is about  *)
(* to write a config file has looked up.                                    *)
TypeInv ==
    /\ PubTypeOK
    /\ act \in [Actor -> Call]
    /\ DOMAIN undo = Publish
    /\ \A a \in Actor : act[a].at = "config" =>
         /\ NewVersion(a) \in Registered
         /\ act[a].table[Default] \in Version

(* An idle call is well formed.                                             *)
LEMMA NoActTyped == NoAct \in Call /\ NoAct.at = "idle"
BY DEF NoAct, Call, Phase, Maybe

(* What a scope resolves to is a version, once the default is one.          *)
LEMMA EffectiveTyped ==
    ASSUME NEW cfg \in [Scope -> Maybe], cfg[Default] \in Version, NEW s \in Scope
    PROVE  Effective(cfg, s) \in Version
BY DEF Effective, Maybe

(* A call that changes only what is typed keeps the types.                  *)
LEMMA CallTyped ==
    ASSUME TypeInv, NEW a \in Actor, NEW c \in Call, act' = [act EXCEPT ![a] = c],
           c.at # "idle" => c.pub \in Publish /\ c.target \in Target,
           c.at # "config",
           request' \in [Publish -> [status : Status \cup {"absent"}, from : Maybe]],
           active' \in [Scope -> Maybe], active'[Default] \in Version,
           events' \subseteq Publish \X Target, DOMAIN undo' = Publish,
           result'.pub \in Publish \cup {"none"}, result'.from \in Maybe, crashes' \in Nat
    PROVE  TypeInv'
<1>1. act' \in [Actor -> Call]
  BY DEF TypeInv
<1>2. \A b \in Actor : act'[b] = IF b = a THEN c ELSE act[b]
  BY DEF TypeInv
<1>3. \A b \in Actor : /\ act'[b].at \in Phase /\ act'[b].table \in [Scope -> Maybe]
                       /\ act'[b].before \in Maybe /\ act'[b].after \in Maybe
  BY <1>1 DEF Call
<1>4. \A b \in Actor : act'[b].at # "idle" => act'[b].pub \in Publish /\ act'[b].target \in Target
  BY <1>2 DEF TypeInv, PubTypeOK
<1>5. \A b \in Actor : act'[b].at = "config" => /\ NewVersion(b)' \in Registered
                                                /\ act'[b].table[Default] \in Version
  BY <1>2 DEF TypeInv, NewVersion
<1>6. PubTypeOK'
  BY <1>3, <1>4 DEF PubTypeOK
<1> QED
  BY <1>1, <1>5, <1>6 DEF TypeInv

(* The steps of a call keep the types.                                      *)
LEMMA StepTyped ==
    ASSUME TypeInv, NEW a \in Actor,
           \/ \E p \in Publish, t \in Target : Load(a, p, t)
           \/ BlockedByRegression(a) \/ Blocked(a) \/ PersistStatus(a) \/ WriteReview(a)
           \/ RollbackWithoutFrom(a) \/ UnknownVersion(a)
           \/ ReadTable(a) \/ WriteTable(a) \/ PersistFrom(a)
           \/ WriteResult(a) \/ WriteAudit(a) \/ EmitEvent(a) \/ Crash(a)
    PROVE  TypeInv'
<1> USE DEF Finish, GoTo, artifacts
<1>0. /\ request \in [Publish -> [status : Status \cup {"absent"}, from : Maybe]]
      /\ active \in [Scope -> Maybe] /\ active[Default] \in Version
      /\ events \subseteq Publish \X Target /\ DOMAIN undo = Publish
      /\ result.pub \in Publish \cup {"none"} /\ result.from \in Maybe /\ crashes \in Nat
      /\ act \in [Actor -> Call] /\ act[a] \in Call
      /\ act[a].at # "idle" => act[a].pub \in Publish /\ act[a].target \in Target
      /\ act[a].at = "config" => NewVersion(a) \in Registered /\ act[a].table[Default] \in Version
  BY DEF TypeInv, PubTypeOK
<1>1. \A at \in Phase : [act[a] EXCEPT !.at = at] \in Call
  BY <1>0 DEF Call
<1>2. \A at : /\ [act[a] EXCEPT !.at = at].at = at
              /\ [act[a] EXCEPT !.at = at].pub = act[a].pub
              /\ [act[a] EXCEPT !.at = at].target = act[a].target
  BY <1>0 DEF Call
<1>3. \A at : act' = [act EXCEPT ![a].at = at] => act' = [act EXCEPT ![a] = [act[a] EXCEPT !.at = at]]
  OBVIOUS
<1>4. \A status : Artifact(a, status).pub \in Publish \cup {"none"} /\ Artifact(a, status).from \in Maybe
  BY <1>0 DEF Artifact, Call
<1>m. act[a].from \in Maybe /\ act[a].before \in Maybe
  BY <1>0 DEF Call
<1>f. ASSUME Finish(a), UNCHANGED <<request, active, undo>>, crashes' \in Nat,
             events' \subseteq Publish \X Target,
             result'.pub \in Publish \cup {"none"}, result'.from \in Maybe
      PROVE  TypeInv'
  BY <1>0, <1>f, NoActTyped, CallTyped
<1>g. ASSUME NEW at \in Phase \ {"config"}, act[a].at # "idle", GoTo(a, at),
             UNCHANGED <<active, undo, events, crashes>>,
             request' \in [Publish -> [status : Status \cup {"absent"}, from : Maybe]],
             result'.pub \in Publish \cup {"none"}, result'.from \in Maybe
      PROVE  TypeInv'
  <2> DEFINE c == [act[a] EXCEPT !.at = at]
  <2>1. c \in Call /\ c.at = at /\ c.pub = act[a].pub /\ c.target = act[a].target
        /\ act' = [act EXCEPT ![a] = c]
    BY <1>1, <1>2, <1>3, <1>g
  <2> HIDE DEF c
  <2> QED
    BY <1>0, <1>g, <2>1, CallTyped
<1>5. ASSUME NEW p \in Publish, NEW t \in Target, Load(a, p, t) PROVE TypeInv'
  <2> DEFINE tbl == [s \in Scope |-> NoVersion]
             c == [at |-> "transition", pub |-> p, target |-> t, old |-> request[p].status,
                   from |-> request[p].from, before |-> NoVersion, after |-> NoVersion,
                   table |-> tbl]
  <2>1. tbl \in [Scope -> Maybe] /\ NoVersion \in Maybe
    BY DEF Maybe
  <2>2. request[p].status \in Status \cup {"absent"} /\ request[p].from \in Maybe
    BY <1>0
  <2> HIDE DEF tbl
  <2>3. c \in Call
    BY <2>1, <2>2 DEF Call, Phase
  <2>4. c.at = "transition" /\ c.pub = p /\ c.target = t
    OBVIOUS
  <2>5. act' = [act EXCEPT ![a] = c]
    BY <1>5 DEF Load, tbl
  <2>6. UNCHANGED <<request, active, artifacts, events, undo, crashes>>
    BY <1>5 DEF Load
  <2> HIDE DEF c
  <2> QED
    BY <1>0, <2>3, <2>4, <2>5, <2>6, CallTyped
<1>6. CASE BlockedByRegression(a)
  BY <1>0, <1>4, <1>6, <1>f DEF BlockedByRegression
<1>7. CASE Blocked(a)
  BY <1>0, <1>4, <1>7, <1>f DEF Blocked
<1>8. CASE PersistStatus(a)
  <2>1. act[a].at # "idle" /\ act[a].target \in Status
    BY <1>0, <1>8 DEF PersistStatus, Status
  <2>2. request' \in [Publish -> [status : Status \cup {"absent"}, from : Maybe]]
    BY <1>0, <1>8, <1>m, <2>1 DEF PersistStatus
  <2>3. PICK at \in {"table", "review"} : GoTo(a, at)
    BY <1>8 DEF PersistStatus
  <2> QED
    BY <1>0, <1>8, <1>g, <2>1, <2>2, <2>3 DEF PersistStatus, Phase
<1>9. CASE WriteReview(a)
  BY <1>0, <1>9, <1>g DEF WriteReview, Phase
<1>10. CASE RollbackWithoutFrom(a)
  BY <1>0, <1>4, <1>10, <1>f DEF RollbackWithoutFrom
<1>11. CASE UnknownVersion(a)
  BY <1>0, <1>11, <1>f DEF UnknownVersion
<1>12. CASE ReadTable(a)
  <2> DEFINE v == Effective(active, ScopeOf[act[a].pub])
             c == [act[a] EXCEPT !.at = "config", !.table = active, !.before = v]
  <2>1. act[a].pub \in Publish /\ act[a].target \in Target /\ NewVersion(a) \in Registered
    BY <1>0, <1>12 DEF ReadTable
  <2>2. v \in Maybe
    BY <1>0, <2>1, EffectiveTyped, PublishAssumption DEF Maybe
  <2>3. act' = [act EXCEPT ![a] = c]
    BY <1>12 DEF ReadTable
  <2> HIDE DEF v
  <2>4. c \in Call
    BY <1>0, <2>2 DEF Call, Phase
  <2>5. c.at = "config" /\ c.pub = act[a].pub /\ c.target = act[a].target /\ c.table = active
        /\ c.from = act[a].from
    BY <1>0 DEF Call
  <2> HIDE DEF c
  <2>6. UNCHANGED <<request, active, artifacts, events, undo, crashes>>
    BY <1>12 DEF ReadTable
  <2>7. act' \in [Actor -> Call] /\ \A b \in Actor : act'[b] = IF b = a THEN c ELSE act[b]
    BY <1>0, <2>3, <2>4
  <2>8. \A b \in Actor : /\ act'[b].at \in Phase /\ act'[b].table \in [Scope -> Maybe]
                         /\ act'[b].before \in Maybe /\ act'[b].after \in Maybe
    BY <2>7 DEF Call
  <2>9. \A b \in Actor : act'[b].at # "idle" => act'[b].pub \in Publish /\ act'[b].target \in Target
    BY <2>1, <2>5, <2>7 DEF TypeInv, PubTypeOK
  <2>10. \A b \in Actor : act'[b].at = "config" => /\ NewVersion(b)' \in Registered
                                                   /\ act'[b].table[Default] \in Version
    BY <1>0, <2>1, <2>5, <2>7 DEF TypeInv, NewVersion
  <2>11. PubTypeOK'
    BY <1>0, <2>6, <2>8, <2>9 DEF PubTypeOK
  <2> QED
    BY <1>0, <2>6, <2>7, <2>10, <2>11 DEF TypeInv
<1>13. CASE WriteTable(a)
  <2> DEFINE s == ScopeOf[act[a].pub]
             at == IF act[a].target = "applied" THEN "from" ELSE "result"
             v == Effective(active', s)
             c == [act[a] EXCEPT !.after = v, !.at = at]
  <2>1. /\ act[a].at = "config" /\ act[a].pub \in Publish /\ act[a].target \in Target
        /\ s \in Scope /\ NewVersion(a) \in Version /\ act[a].table \in [Scope -> Maybe]
        /\ act[a].table[Default] \in Version
    BY <1>0, <1>13, PublishAssumption DEF WriteTable, Call
  <2>2. active' = [x \in Scope |->
                 CASE x = s                              -> NewVersion(a)
                   [] x # s /\ KindOf[x] = KindOf[s]     -> act[a].table[x]
                   [] OTHER                              -> active[x]]
    BY <1>13 DEF WriteTable
  <2>3. \A x \in Scope : active'[x] \in {NewVersion(a), act[a].table[x], active[x]}
    BY <2>2
  <2>4. active' \in [Scope -> Maybe] /\ active'[Default] \in Version
    BY <1>0, <2>1, <2>2, <2>3, PublishAssumption DEF Maybe
  <2>5. v \in Maybe
    BY <2>1, <2>4, EffectiveTyped DEF Maybe
  <2>6. act' = [act EXCEPT ![a] = c]
    BY <1>13 DEF WriteTable
  <2>7. at \in Phase /\ at # "config"
    BY DEF Phase
  <2> HIDE DEF v, at, s
  <2>8. c \in Call
    BY <1>0, <2>5, <2>7 DEF Call
  <2>9. c.at = at /\ c.pub = act[a].pub /\ c.target = act[a].target
    BY <1>0 DEF Call
  <2>10. DOMAIN undo' = Publish
    BY <1>0, <1>13 DEF WriteTable
  <2>11. UNCHANGED <<request, artifacts, events, crashes>>
    BY <1>13 DEF WriteTable
  <2> HIDE DEF c
  <2> QED
    BY <1>0, <2>1, <2>4, <2>6, <2>7, <2>8, <2>9, <2>10, <2>11, CallTyped
<1>14. CASE PersistFrom(a)
  <2>1. act[a].at # "idle" /\ act[a].target \in Status
    BY <1>0, <1>14 DEF PersistFrom, Status
  <2>2. request' \in [Publish -> [status : Status \cup {"absent"}, from : Maybe]]
    BY <1>0, <1>14, <1>m, <2>1 DEF PersistFrom
  <2> QED
    BY <1>0, <1>14, <1>g, <2>1, <2>2 DEF PersistFrom, Phase
<1>15. CASE WriteResult(a)
  <2>1. Finish(a) \/ \E at \in {"audit", "event"} : GoTo(a, at)
    BY <1>15 DEF WriteResult
  <2>2. /\ act[a].at # "idle" /\ UNCHANGED <<request, active, review, audit, events, undo, crashes>>
        /\ result'.pub \in Publish \cup {"none"} /\ result'.from \in Maybe
    BY <1>4, <1>15 DEF WriteResult
  <2>3. CASE Finish(a)
    BY <1>0, <1>f, <2>2, <2>3
  <2>4. ASSUME NEW at \in {"audit", "event"}, GoTo(a, at) PROVE TypeInv'
    BY <1>0, <1>g, <2>2, <2>4 DEF Phase
  <2> QED
    BY <2>1, <2>3, <2>4
<1>16. CASE WriteAudit(a)
  BY <1>0, <1>16, <1>g DEF WriteAudit, Phase
<1>17. CASE EmitEvent(a)
  BY <1>0, <1>17, <1>f DEF EmitEvent
<1>18. CASE Crash(a)
  BY <1>0, <1>18, <1>f DEF Crash
<1> QED
  BY <1>5, <1>6, <1>7, <1>8, <1>9, <1>10, <1>11, <1>12, <1>13, <1>14, <1>15, <1>16, <1>17, <1>18

(* Every variable keeps its type.                                           *)
THEOREM TypeInvariance == Spec => []TypeInv
<1>1. Init => TypeInv
  <2> SUFFICES ASSUME Init PROVE TypeInv
    OBVIOUS
  <2>1. request \in [Publish -> [status : Status \cup {"absent"}, from : Maybe]]
    BY DEF Init, Maybe
  <2>2. active \in [Scope -> Maybe] /\ active[Default] \in Version
    BY PublishAssumption DEF Init, Maybe
  <2>3. \A a \in Actor : act[a] = NoAct
    BY DEF Init
  <2>4. \A a \in Actor : /\ act[a].at \in Phase /\ act[a].table \in [Scope -> Maybe]
                         /\ act[a].before \in Maybe /\ act[a].after \in Maybe /\ act[a].at = "idle"
    BY <2>3, NoActTyped DEF Call
  <2>5. result.pub \in Publish \cup {"none"} /\ result.from \in Maybe
    BY DEF Init, NoArtifact, Maybe
  <2>6. PubTypeOK
    BY <2>1, <2>2, <2>4, <2>5 DEF Init, PubTypeOK
  <2> QED
    BY <2>4, <2>6, NoActTyped DEF Init, TypeInv
<1>2. TypeInv /\ UNCHANGED vars => TypeInv'
  BY DEF TypeInv, PubTypeOK, vars, artifacts, NewVersion
<1>3. ASSUME TypeInv, NEW p \in Publish, Create(p) PROVE TypeInv'
  <2>1. request' \in [Publish -> [status : Status \cup {"absent"}, from : Maybe]]
    <3>1. [request[p] EXCEPT !.status = "proposed"] \in [status : Status \cup {"absent"}, from : Maybe]
      BY <1>3 DEF TypeInv, PubTypeOK, Status
    <3> QED
      BY <1>3, <3>1 DEF Create, TypeInv, PubTypeOK
  <2> QED
    BY <1>3, <2>1 DEF Create, TypeInv, PubTypeOK, artifacts, NewVersion
<1>4. TypeInv /\ [Next]_vars => TypeInv'
  BY <1>2, <1>3, StepTyped DEF Next
<1> QED
  BY <1>1, <1>4, PTL DEF Spec

(* The files and the calls are typed, and the default scope always has a    *)
(* version.                                                                 *)
THEOREM Typing == Spec => []PubTypeOK
<1>1. TypeInv => PubTypeOK
  BY DEF TypeInv
<1> QED
  BY <1>1, TypeInvariance, PTL

-----------------------------------------------------------------------------
(* Outcomes.                                                                *)

(* A publish is advanced by one process at a time.                          *)
SoleOperator == \A a, b \in Actor : Operates[a] \cap Operates[b] # {} => a = b

(* What a call knows about the request of its publish, and what it has      *)
(* left in the files so far.  An apply has no "applied" result behind it    *)
(* until it has recorded the version it replaced.                           *)
CallInv(a) ==
    LET c == act[a]
        p == act[a].pub
    IN  /\ c.at # "idle" => p \in Operates[a]
        /\ c.at = "transition" => c.old = request[p].status /\ c.from = request[p].from
        /\ c.at # "idle" => request[p].status # "absent"
        /\ c.at \notin {"idle", "transition"} => request[p].status = c.target
        /\ c.at = "review" => c.target \notin {"applied", "rolled_back"}
        /\ c.at \in {"table", "config", "from"} /\ c.target = "applied" =>
             ~(result.status = "applied" /\ result.pub = p)
        /\ c.at \in {"config", "from"} => c.before \in Version
        /\ c.at = "from" => c.target = "applied" /\ undo[p] # <<>>
        /\ c.at \in {"result", "audit", "event"} /\ c.target = "applied" =>
             request[p].from = c.before /\ c.before \in Version /\ undo[p] # <<>>

ResultBacked ==
    result.status = "applied" =>
       /\ result.pub \in Publish
       /\ request[result.pub].status \in {"applied", "rolled_back"}
       /\ request[result.pub].from = result.before
EventBacked(p) ==
    <<p, "applied">> \in events =>
       /\ request[p].status \in {"applied", "rolled_back"}
       /\ request[p].from # NoVersion
       /\ undo[p] # <<>>

OutcomeInv == /\ \A a \in Actor : CallInv(a)
              /\ ResultBacked
              /\ \A p \in Publish : EventBacked(p)

(* What the two ways to leave a step do to the calls.                       *)
LEMMA FinishFields ==
    ASSUME TypeInv, NEW a \in Actor, Finish(a)
    PROVE  act'[a].at = "idle" /\ \A b \in Actor \ {a} : act'[b] = act[b]
BY NoActTyped DEF Finish, TypeInv

LEMMA GoToFields ==
    ASSUME TypeInv, NEW a \in Actor, NEW at, GoTo(a, at)
    PROVE  /\ act'[a].at = at /\ act'[a].pub = act[a].pub /\ act'[a].target = act[a].target
           /\ act'[a].before = act[a].before /\ act'[a].from = act[a].from
           /\ \A b \in Actor \ {a} : act'[b] = act[b]
BY DEF GoTo, TypeInv, Call

(* A step of one process does not reach into the calls of the others.       *)
LEMMA OthersKept ==
    ASSUME SoleOperator, OutcomeInv, NEW a \in Actor, NEW p \in Operates[a],
           \A b \in Actor \ {a} : act'[b] = act[b],
           \A q \in Publish \ {p} : request'[q] = request[q] /\ undo'[q] = undo[q],
           \/ result' = result
           \/ result'.pub = p
           \/ result'.status # "applied"
    PROVE  \A b \in Actor \ {a} : CallInv(b)'
<1> SUFFICES ASSUME NEW b \in Actor \ {a} PROVE CallInv(b)'
  OBVIOUS
<1>1. act'[b] = act[b] /\ CallInv(b)
  BY DEF OutcomeInv
<1>2. CASE act[b].at = "idle"
  BY <1>1, <1>2 DEF CallInv
<1>3. CASE act[b].at # "idle"
  <2>1. act[b].pub \in Operates[b]
    BY <1>1, <1>3 DEF CallInv
  <2>2. act[b].pub \in Publish /\ act[b].pub # p
    BY <2>1, PublishAssumption DEF SoleOperator
  <2>3. request'[act[b].pub] = request[act[b].pub] /\ undo'[act[b].pub] = undo[act[b].pub]
    BY <2>2
  <2>4. result'.status = "applied" /\ result'.pub = act[b].pub => result' = result
    BY <2>2
  <2> QED
    BY <1>1, <2>3, <2>4 DEF CallInv
<1> QED
  BY <1>2, <1>3

(* A call that ends without touching a request leaves what is on file.      *)
LEMMA EndKept ==
    ASSUME SoleOperator, TypeInv, OutcomeInv, NEW a \in Actor, act[a].at # "idle", Finish(a),
           UNCHANGED <<request, undo>>,
           result' = result \/ result'.status # "applied"
    PROVE  (\A b \in Actor : CallInv(b)') /\ ResultBacked'
<1>1. act[a].pub \in Operates[a]
  BY DEF OutcomeInv, CallInv
<1>2. \A b \in Actor \ {a} : CallInv(b)'
  BY <1>1, OthersKept, FinishFields
<1>3. CallInv(a)'
  BY FinishFields DEF CallInv
<1>4. ResultBacked'
  BY DEF OutcomeInv, ResultBacked
<1> QED
  BY <1>2, <1>3, <1>4

(* The steps of a call keep the invariant.                                  *)
LEMMA StepOutcome ==
    ASSUME SoleOperator, TypeInv, TypeInv', OutcomeInv, NEW a \in Actor,
           \/ \E p \in Publish, t \in Target : Load(a, p, t)
           \/ BlockedByRegression(a) \/ Blocked(a) \/ PersistStatus(a) \/ WriteReview(a)
           \/ RollbackWithoutFrom(a) \/ UnknownVersion(a)
           \/ ReadTable(a) \/ WriteTable(a) \/ PersistFrom(a)
           \/ WriteResult(a) \/ WriteAudit(a) \/ EmitEvent(a) \/ Crash(a)
    PROVE  OutcomeInv'
<1> USE DEF artifacts
<1> DEFINE p == act[a].pub
<1>1. /\ CallInv(a) /\ ResultBacked /\ \A q \in Publish : EventBacked(q)
      /\ act \in [Actor -> Call] /\ act[a] \in Call /\ DOMAIN undo = Publish
      /\ request \in [Publish -> [status : Status \cup {"absent"}, from : Maybe]]
      /\ active \in [Scope -> Maybe] /\ active[Default] \in Version
  BY DEF OutcomeInv, TypeInv, PubTypeOK
<1>2. act[a].at # "idle" => p \in Operates[a] /\ p \in Publish /\ act[a].target \in Target
  BY <1>1 DEF CallInv, TypeInv, PubTypeOK
<1>b. \A status : Artifact(a, status).status = status /\ Artifact(a, status).pub = p
                  /\ Artifact(a, status).before = act[a].before
  BY DEF Artifact
<1>e. UNCHANGED <<request, events, undo>> => \A q \in Publish : EventBacked(q)'
  BY <1>1 DEF EventBacked
<1>f. ASSUME act[a].at # "idle", Finish(a), UNCHANGED <<request, undo, events>>,
             result' = result \/ result'.status # "applied"
      PROVE  OutcomeInv'
  BY <1>e, <1>f, EndKept DEF OutcomeInv
<1>3. ASSUME NEW q \in Publish, NEW t \in Target, Load(a, q, t) PROVE OutcomeInv'
  <2>1. /\ act'[a].at = "transition" /\ act'[a].pub = q /\ act'[a].old = request[q].status
        /\ act'[a].from = request[q].from
        /\ \A b \in Actor \ {a} : act'[b] = act[b]
        /\ q \in Operates[a] /\ request[q].status # "absent"
        /\ UNCHANGED <<request, result, events, undo>>
    BY <1>1, <1>3 DEF Load
  <2>2. CallInv(a)'
    BY <2>1 DEF CallInv
  <2>3. \A b \in Actor \ {a} : CallInv(b)'
    BY <2>1, OthersKept
  <2>4. ResultBacked'
    BY <1>1, <2>1 DEF ResultBacked
  <2> QED
    BY <1>e, <2>1, <2>2, <2>3, <2>4 DEF OutcomeInv
<1>4. CASE BlockedByRegression(a)
  BY <1>b, <1>f, <1>4 DEF BlockedByRegression
<1>5. CASE Blocked(a)
  BY <1>b, <1>f, <1>5 DEF Blocked
<1>6. CASE RollbackWithoutFrom(a)
  BY <1>b, <1>f, <1>6 DEF RollbackWithoutFrom
<1>7. CASE UnknownVersion(a)
  BY <1>f, <1>7 DEF UnknownVersion
<1>8. CASE Crash(a)
  BY <1>f, <1>8 DEF Crash
<1>9. CASE PersistStatus(a)
  <2>1. /\ act[a].at = "transition" /\ act[a].target \in Allowed(request[p].status)
        /\ p \in Operates[a] /\ p \in Publish
        /\ request' = [request EXCEPT ![p] = [status |-> act[a].target, from |-> request[p].from]]
        /\ UNCHANGED <<active, result, events, undo>>
    BY <1>1, <1>2, <1>9 DEF PersistStatus, CallInv
  <2>2. /\ request'[p].status = act[a].target /\ request'[p].from = request[p].from
        /\ \A q \in Publish \ {p} : request'[q] = request[q] /\ undo'[q] = undo[q]
    BY <1>1, <2>1
  <2>3. request[p].status \in {"applied", "rolled_back"} => act[a].target = "rolled_back"
    BY <2>1 DEF Allowed
  <2>4. PICK at \in {"table", "review"} : /\ GoTo(a, at)
                                          /\ at = "review" => act[a].target \notin {"applied", "rolled_back"}
    BY <1>9 DEF PersistStatus
  <2>5. act[a].target = "applied" => ~(result.status = "applied" /\ result.pub = p)
    BY <1>1, <2>3 DEF ResultBacked
  <2>6. CallInv(a)'
    BY <1>2, <2>1, <2>2, <2>4, <2>5, GoToFields DEF CallInv, Target
  <2>7. \A b \in Actor \ {a} : CallInv(b)'
    BY <2>1, <2>2, <2>4, GoToFields, OthersKept
  <2>8. ResultBacked'
    <3>1. CASE result.status = "applied" /\ result.pub = p
      BY <1>1, <2>1, <2>2, <2>3, <3>1 DEF ResultBacked
    <3>2. CASE result.status = "applied" /\ result.pub # p
      <4>1. request'[result.pub] = request[result.pub]
        BY <1>1, <2>2, <3>2 DEF ResultBacked
      <4> QED
        BY <1>1, <2>1, <4>1, <3>2 DEF ResultBacked
    <3> QED
      BY <2>1, <3>1, <3>2 DEF ResultBacked
  <2>9. \A q \in Publish : EventBacked(q)'
    BY <1>1, <2>1, <2>2, <2>3 DEF EventBacked
  <2> QED
    BY <2>6, <2>7, <2>8, <2>9 DEF OutcomeInv
<1>10. CASE WriteReview(a)
  <2>1. /\ GoTo(a, "result") /\ UNCHANGED <<request, result, events, undo>>
        /\ act[a].at = "review"
    BY <1>10 DEF WriteReview
  <2>2. CallInv(a)'
    BY <1>1, <2>1, GoToFields DEF CallInv
  <2>3. \A b \in Actor \ {a} : CallInv(b)'
    BY <1>2, <2>1, GoToFields, OthersKept
  <2>4. ResultBacked'
    BY <1>1, <2>1 DEF ResultBacked
  <2> QED
    BY <1>e, <2>1, <2>2, <2>3, <2>4 DEF OutcomeInv
<1>11. CASE ReadTable(a)
  <2> DEFINE v == Effective(active, ScopeOf[p])
  <2>1. /\ act[a].at = "table" /\ UNCHANGED <<request, result, events, undo>>
        /\ act' = [act EXCEPT ![a] = [act[a] EXCEPT !.at = "config", !.table = active, !.before = v]]
    BY <1>11 DEF ReadTable
  <2>2. v \in Version
    BY <1>1, <1>2, <2>1, EffectiveTyped, PublishAssumption
  <2> HIDE DEF v
  <2>3. /\ act'[a].at = "config" /\ act'[a].pub = p /\ act'[a].target = act[a].target
        /\ act'[a].before = v /\ \A b \in Actor \ {a} : act'[b] = act[b]
    BY <1>1, <2>1 DEF Call
  <2>4. CallInv(a)'
    BY <1>1, <2>1, <2>2, <2>3 DEF CallInv
  <2>5. \A b \in Actor \ {a} : CallInv(b)'
    BY <1>2, <2>1, <2>3, OthersKept
  <2>6. ResultBacked'
    BY <1>1, <2>1 DEF ResultBacked
  <2> QED
    BY <1>e, <2>1, <2>4, <2>5, <2>6 DEF OutcomeInv
<1>12. CASE WriteTable(a)
  <2> DEFINE at == IF act[a].target = "applied" THEN "from" ELSE "result"
             v == Effective(active', ScopeOf[p])
  <2>1. /\ act[a].at = "config" /\ UNCHANGED <<request, result, events>>
        /\ act' = [act EXCEPT ![a] = [act[a] EXCEPT !.after = v, !.at = at]]
        /\ undo' = IF act[a].target = "applied" THEN [undo EXCEPT ![p] = <<active, active'>>] ELSE undo
    BY <1>12 DEF WriteTable
  <2> HIDE DEF v
  <2>2. /\ act'[a].at = at /\ act'[a].pub = p /\ act'[a].target = act[a].target
        /\ act'[a].before = act[a].before /\ \A b \in Actor \ {a} : act'[b] = act[b]
    BY <1>1, <2>1 DEF Call
  <2>3. /\ \A q \in Publish \ {p} : request'[q] = request[q] /\ undo'[q] = undo[q]
        /\ act[a].target = "applied" => undo'[p] # <<>>
        /\ \A q \in Publish : undo[q] # <<>> => undo'[q] # <<>>
    BY <1>1, <1>2, <2>1
  <2>4. CallInv(a)'
    BY <1>1, <2>1, <2>2, <2>3 DEF CallInv
  <2>5. \A b \in Actor \ {a} : CallInv(b)'
    BY <1>2, <2>1, <2>2, <2>3, OthersKept
  <2>6. ResultBacked' /\ \A q \in Publish : EventBacked(q)'
    BY <1>1, <2>1, <2>3 DEF ResultBacked, EventBacked
  <2> QED
    BY <2>4, <2>5, <2>6 DEF OutcomeInv
<1>13. CASE PersistFrom(a)
  <2>1. /\ act[a].at = "from" /\ GoTo(a, "result") /\ UNCHANGED <<result, events, undo>>
        /\ request' = [request EXCEPT ![p] = [status |-> act[a].target, from |-> act[a].before]]
        /\ p \in Operates[a] /\ p \in Publish
    BY <1>2, <1>13 DEF PersistFrom
  <2>2. /\ request'[p].status = act[a].target /\ request'[p].from = act[a].before
        /\ \A q \in Publish \ {p} : request'[q] = request[q] /\ undo'[q] = undo[q]
    BY <1>1, <2>1
  <2>3. /\ act[a].target = "applied" /\ act[a].before \in Version /\ undo[p] # <<>>
        /\ ~(result.status = "applied" /\ result.pub = p)
    BY <1>1, <2>1 DEF CallInv
  <2>4. CallInv(a)'
    BY <1>1, <2>1, <2>2, <2>3, GoToFields DEF CallInv
  <2>5. \A b \in Actor \ {a} : CallInv(b)'
    BY <2>1, <2>2, GoToFields, OthersKept
  <2>6. ResultBacked'
    <3>1. result.status = "applied" /\ result.pub # p => request'[result.pub] = request[result.pub]
      BY <1>1, <2>2 DEF ResultBacked
    <3> QED
      BY <1>1, <2>1, <2>3, <3>1 DEF ResultBacked
  <2>7. \A q \in Publish : EventBacked(q)'
    BY <1>1, <2>1, <2>2, <2>3, PublishAssumption DEF EventBacked
  <2> QED
    BY <2>4, <2>5, <2>6, <2>7 DEF OutcomeInv
<1>14. CASE WriteResult(a)
  <2>1. /\ act[a].at = "result" /\ result'.status = act[a].target /\ result'.pub = p
        /\ result'.before = act[a].before /\ UNCHANGED <<request, events, undo>>
        /\ p \in Operates[a] /\ p \in Publish
    BY <1>2, <1>b, <1>14 DEF WriteResult
  <2>2. Finish(a) \/ \E at \in {"audit", "event"} : GoTo(a, at)
    BY <1>14 DEF WriteResult
  <2>3. CallInv(a)' /\ \A b \in Actor \ {a} : act'[b] = act[b]
    <3>1. CASE Finish(a)
      BY <3>1, FinishFields DEF CallInv
    <3>2. ASSUME NEW at \in {"audit", "event"}, GoTo(a, at)
          PROVE CallInv(a)' /\ \A b \in Actor \ {a} : act'[b] = act[b]
      BY <1>1, <2>1, <3>2, GoToFields DEF CallInv
    <3> QED
      BY <2>2, <3>1, <3>2
  <2>4. \A b \in Actor \ {a} : CallInv(b)'
    BY <2>1, <2>3, OthersKept
  <2>5. ResultBacked'
    BY <1>1, <2>1 DEF ResultBacked, CallInv
  <2> QED
    BY <1>e, <2>1, <2>3, <2>4, <2>5 DEF OutcomeInv
<1>15. CASE WriteAudit(a)
  <2>1. /\ GoTo(a, "event") /\ UNCHANGED <<request, result, events, undo>>
        /\ act[a].at = "audit"
    BY <1>15 DEF WriteAudit
  <2>2. CallInv(a)'
    BY <1>1, <2>1, GoToFields DEF CallInv
  <2>3. \A b \in Actor \ {a} : CallInv(b)'
    BY <1>2, <2>1, GoToFields, OthersKept
  <2>4. ResultBacked'
    BY <1>1, <2>1 DEF ResultBacked
  <2> QED
    BY <1>e, <2>1, <2>2, <2>3, <2>4 DEF OutcomeInv
<1>16. CASE EmitEvent(a)
  <2>1. /\ act[a].at = "event" /\ Finish(a) /\ UNCHANGED <<request, result, undo>>
        /\ events' = events \cup {<<p, act[a].target>>} \/ events' = events
    BY <1>16 DEF EmitEvent
  <2>2. (\A b \in Actor : CallInv(b)') /\ ResultBacked'
    BY <2>1, EndKept
  <2>3. act[a].target = "applied" => /\ request[p].status = "applied" /\ request[p].from \in Version
                                     /\ undo[p] # <<>>
    BY <1>1, <2>1 DEF CallInv
  <2>4. ASSUME NEW q \in Publish PROVE EventBacked(q)'
    <3>1. <<q, "applied">> \in events' /\ <<q, "applied">> \notin events
            => q = p /\ act[a].target = "applied"
      BY <2>1
    <3> QED
      BY <1>1, <2>1, <2>3, <3>1, PublishAssumption DEF EventBacked
  <2> QED
    BY <2>2, <2>4 DEF OutcomeInv
<1> QED
  BY <1>3, <1>4, <1>5, <1>6, <1>7, <1>8, <1>9, <1>10, <1>11, <1>12, <1>13, <1>14, <1>15, <1>16

(* A publish is created once: nothing else is said of it yet.               *)
LEMMA CreateOutcome ==
    ASSUME TypeInv, OutcomeInv, NEW p \in Publish, Create(p)
    PROVE  OutcomeInv'
<1>1. /\ request[p].status = "absent"
      /\ request'[p].from = request[p].from
      /\ \A q \in Publish \ {p} : request'[q] = request[q]
      /\ UNCHANGED <<result, events, act, undo>>
  BY DEF Create, TypeInv, PubTypeOK, artifacts
<1>2. ResultBacked'
  <2>1. result.status = "applied" => result.pub # p
    BY <1>1 DEF OutcomeInv, ResultBacked
  <2>2. result.status = "applied" => request'[result.pub] = request[result.pub]
    BY <1>1, <2>1 DEF OutcomeInv, ResultBacked
  <2> QED
    BY <1>1, <2>1, <2>2 DEF OutcomeInv, ResultBacked
<1>3. \A q \in Publish : EventBacked(q)'
  BY <1>1 DEF OutcomeInv, EventBacked
<1>4. ASSUME NEW a \in Actor PROVE CallInv(a)'
  <2>1. CallInv(a) /\ (act[a].at # "idle" => act[a].pub \in Publish /\ act[a].target \in Target)
    BY DEF OutcomeInv, TypeInv, PubTypeOK
  <2>2. act[a].at # "idle" => act[a].pub # p
    BY <1>1, <2>1 DEF CallInv
  <2> QED
    BY <1>1, <2>1, <2>2 DEF CallInv
<1> QED
  BY <1>2, <1>3, <1>4 DEF OutcomeInv

LEMMA OutcomeInvariance ==
    ASSUME SoleOperator
    PROVE  Spec => [](TypeInv /\ OutcomeInv)
<1>1. Init => OutcomeInv
  BY NoActTyped DEF Init, OutcomeInv, CallInv, ResultBacked, EventBacked, NoArtifact
<1>2. OutcomeInv /\ UNCHANGED vars => OutcomeInv'
  BY DEF OutcomeInv, CallInv, ResultBacked, EventBacked, vars, artifacts
<1>3. TypeInv /\ TypeInv' /\ OutcomeInv /\ [Next]_vars => OutcomeInv'
  BY <1>2, StepOutcome, CreateOutcome DEF Next
<1> QED
  BY <1>1, <1>3, TypeInvariance, PTL DEF Spec

(* Where each publish has one operator, an "applied" result or event stands *)
(* on a request that says so, on a changed config and on a version to       *)
(* return to, with any number of processes and of crashes.                  *)
THEOREM OutcomesBacked ==
    ASSUME SoleOperator
    PROVE  Spec => []OutcomeBacked
<1>1. OutcomeInv => OutcomeBacked
  BY DEF OutcomeInv, ResultBacked, EventBacked, OutcomeBacked
<1> QED
  BY <1>1, OutcomeInvariance, PTL

-----------------------------------------------------------------------------
(* Rollbacks.                                                               *)

LoneActor == \A a, b \in Actor : a = b

(* What an apply replaced, and what its request remembers of it.            *)
UndoInv(p) ==
    undo[p] # <<>> =>
       /\ undo[p][1] \in [Scope -> Maybe] /\ undo[p][1][Default] \in Version
       /\ \A x \in Scope \ {ScopeOf[p]} : undo[p][2][x] = undo[p][1][x]
       /\ request[p].from # NoVersion => request[p].from = Effective(undo[p][1], ScopeOf[p])

(* A request knows no version to return to before its publish was applied.  *)
FreshInv(p) ==
    request[p].status \in {"absent", "proposed", "under_review", "confirmed"} =>
       request[p].from = NoVersion

(* What a call about to write a config file has read is still so.           *)
ReadInv(a) ==
    LET c == act[a]
        p == act[a].pub
    IN  /\ c.at \in {"table", "config"} => c.from = request[p].from
        /\ c.at \in {"table", "config", "from"} /\ c.target = "applied" => request[p].from = NoVersion
        /\ c.at = "config" => c.table = active /\ c.before = Effective(active, ScopeOf[p])
        /\ c.at = "from" => c.before = Effective(undo[p][1], ScopeOf[p])

LoneInv == /\ \A a \in Actor : ReadInv(a)
           /\ \A p \in Publish : UndoInv(p) /\ FreshInv(p)

(* The config write of a lone process changes the entry of its scope only.  *)
LEMMA LoneWrite ==
    ASSUME TypeInv, LoneInv, NEW a \in Actor, WriteTable(a)
    PROVE  LET s == ScopeOf[act[a].pub]
           IN  active' = [active EXCEPT ![s] = NewVersion(a)] /\ s \in Scope
<1>1. act[a].table = active /\ act[a].pub \in Publish /\ active \in [Scope -> Maybe]
  BY DEF WriteTable, LoneInv, ReadInv, TypeInv, PubTypeOK
<1> DEFINE s == ScopeOf[act[a].pub]
<1>2. active' = [x \in Scope |->
                 CASE x = s                              -> NewVersion(a)
                   [] x # s /\ KindOf[x] = KindOf[s]     -> act[a].table[x]
                   [] OTHER                              -> active[x]]
  BY DEF WriteTable
<1>3. s \in Scope
  BY <1>1, PublishAssumption
<1>4. active' = [x \in Scope |-> IF x = s THEN NewVersion(a) ELSE active[x]]
  BY <1>1, <1>2
<1> QED
  BY <1>1, <1>3, <1>4

(* The steps of a lone process keep the invariant.                          *)
LEMMA StepLone ==
    ASSUME LoneActor, TypeInv, OutcomeInv, LoneInv, NEW a \in Actor,
           \/ \E p \in Publish, t \in Target : Load(a, p, t)
           \/ BlockedByRegression(a) \/ Blocked(a) \/ PersistStatus(a) \/ WriteReview(a)
           \/ RollbackWithoutFrom(a) \/ UnknownVersion(a)
           \/ ReadTable(a) \/ WriteTable(a) \/ PersistFrom(a)
           \/ WriteResult(a) \/ WriteAudit(a) \/ EmitEvent(a) \/ Crash(a)
    PROVE  LoneInv'
<1> USE DEF artifacts
<1> DEFINE p == act[a].pub
<1>1. /\ ReadInv(a) /\ CallInv(a) /\ \A q \in Publish : UndoInv(q) /\ FreshInv(q)
      /\ act \in [Actor -> Call] /\ act[a] \in Call /\ DOMAIN undo = Publish
      /\ request \in [Publish -> [status : Status \cup {"absent"}, from : Maybe]]
      /\ active \in [Scope -> Maybe] /\ active[Default] \in Version
      /\ act[a].at # "idle" => p \in Publish
  BY DEF OutcomeInv, LoneInv, TypeInv, PubTypeOK
<1>2. SUFFICES ReadInv(a)' /\ \A q \in Publish : UndoInv(q)' /\ FreshInv(q)'
  BY DEF LoneActor, LoneInv
<1>u. UNCHANGED <<request, undo>> => \A q \in Publish : UndoInv(q)' /\ FreshInv(q)'
  BY <1>1 DEF UndoInv, FreshInv
<1>r. act'[a].at \notin {"table", "config", "from"} => ReadInv(a)'
  BY DEF ReadInv
<1>f. Finish(a) => ReadInv(a)'
  BY <1>r, FinishFields
<1>g. \A at \in Phase \ {"table", "config", "from"} : GoTo(a, at) => ReadInv(a)'
  BY <1>r, GoToFields
<1>3. ASSUME NEW q \in Publish, NEW t \in Target, Load(a, q, t)
      PROVE  ReadInv(a)' /\ UNCHANGED <<request, undo>>
  BY <1>1, <1>3, <1>r DEF Load
<1>4. CASE Blocked(a) \/ BlockedByRegression(a) \/ RollbackWithoutFrom(a) \/ UnknownVersion(a)
           \/ EmitEvent(a) \/ Crash(a)
  BY <1>u, <1>f, <1>4 DEF Blocked, BlockedByRegression, RollbackWithoutFrom, UnknownVersion, EmitEvent, Crash
<1>5. CASE WriteReview(a) \/ WriteAudit(a)
  BY <1>u, <1>g, <1>5 DEF WriteReview, WriteAudit, Phase
<1>6. CASE WriteResult(a)
  BY <1>u, <1>f, <1>g, <1>6 DEF WriteResult, Phase
<1>7. CASE PersistStatus(a)
  <2>1. /\ act[a].at = "transition" /\ act[a].target \in Allowed(request[p].status)
        /\ act[a].from = request[p].from /\ p \in Publish
        /\ request' = [request EXCEPT ![p] = [status |-> act[a].target, from |-> request[p].from]]
        /\ UNCHANGED <<active, undo>>
    BY <1>1, <1>7 DEF PersistStatus, CallInv
  <2>2. /\ request'[p].status = act[a].target /\ request'[p].from = request[p].from
        /\ \A q \in Publish \ {p} : request'[q] = request[q]
    BY <1>1, <2>1
  <2>3. PICK at \in {"table", "review"} : GoTo(a, at)
    BY <1>7 DEF PersistStatus
  <2>4. act[a].target = "applied" => request[p].status = "confirmed"
    BY <2>1 DEF Allowed
  <2>5. act[a].target \in {"absent", "proposed", "under_review", "confirmed"} =>
          request[p].status \in {"proposed", "under_review"}
    BY <2>1 DEF Allowed
  <2>6. ReadInv(a)'
    BY <1>1, <2>1, <2>2, <2>3, <2>4, GoToFields DEF ReadInv, FreshInv
  <2>7. \A q \in Publish : UndoInv(q)' /\ FreshInv(q)'
    BY <1>1, <2>1, <2>2, <2>5 DEF UndoInv, FreshInv
  <2> QED
    BY <2>6, <2>7
<1>8. CASE ReadTable(a)
  <2> DEFINE v == Effective(active, ScopeOf[p])
  <2>1. /\ act[a].at = "table" /\ UNCHANGED <<request, active, undo>>
        /\ act' = [act EXCEPT ![a] = [act[a] EXCEPT !.at = "config", !.table = active, !.before = v]]
    BY <1>8 DEF ReadTable
  <2> HIDE DEF v
  <2>2. /\ act'[a].at = "config" /\ act'[a].pub = p /\ act'[a].target = act[a].target
        /\ act'[a].before = v /\ act'[a].table = active /\ act'[a].from = act[a].from
    BY <1>1, <2>1 DEF Call
  <2>3. v = Effective(active, ScopeOf[p])'
    BY <2>1, <2>2 DEF v, Effective
  <2> QED
    BY <1>1, <1>u, <2>1, <2>2, <2>3 DEF ReadInv
<1>9. CASE WriteTable(a)
  <2> DEFINE s == ScopeOf[p]
             at == IF act[a].target = "applied" THEN "from" ELSE "result"
             v == Effective(active', s)
  <2>1. /\ act[a].at = "config" /\ p \in Publish /\ UNCHANGED <<request>>
        /\ act' = [act EXCEPT ![a] = [act[a] EXCEPT !.after = v, !.at = at]]
        /\ undo' = IF act[a].target = "applied" THEN [undo EXCEPT ![p] = <<active, active'>>] ELSE undo
    BY <1>1, <1>9 DEF WriteTable
  <2>2. active' = [active EXCEPT ![s] = NewVersion(a)] /\ s \in Scope
    BY <1>9, LoneWrite
  <2> HIDE DEF v, s
  <2>3. /\ act'[a].at = at /\ act'[a].pub = p /\ act'[a].target = act[a].target
        /\ act'[a].before = act[a].before
    BY <1>1, <2>1 DEF Call
  <2>4. CASE act[a].target = "applied"
    <3>1. /\ request[p].from = NoVersion /\ act[a].before = Effective(active, ScopeOf[p])
      BY <1>1, <2>1, <2>4 DEF ReadInv
    <3>2. undo'[p] = <<active, active'>> /\ \A q \in Publish \ {p} : undo'[q] = undo[q]
      BY <1>1, <2>1, <2>4
    <3>3. undo'[p][1] = active /\ undo'[p][2] = active'
      BY <3>2
    <3>4. ReadInv(a)'
      BY <2>1, <2>3, <2>4, <3>1, <3>3 DEF ReadInv
    <3>5. ASSUME NEW q \in Publish, q = p PROVE UndoInv(q)'
      BY <3>5, <1>1, <2>1, <2>2, <3>1, <3>3 DEF UndoInv, s
    <3>6. \A q \in Publish \ {p} : UndoInv(q)'
      BY <1>1, <2>1, <3>2 DEF UndoInv
    <3>7. \A q \in Publish : FreshInv(q)'
      BY <1>1, <2>1 DEF FreshInv
    <3> QED
      BY <3>4, <3>5, <3>6, <3>7
  <2>5. CASE act[a].target # "applied"
    BY <1>r, <1>u, <2>1, <2>3, <2>5
  <2> QED
    BY <2>4, <2>5
<1>10. CASE PersistFrom(a)
  <2>1. /\ act[a].at = "from" /\ GoTo(a, "result") /\ UNCHANGED <<active, undo>> /\ p \in Publish
        /\ request' = [request EXCEPT ![p] = [status |-> act[a].target, from |-> act[a].before]]
    BY <1>1, <1>10 DEF PersistFrom
  <2>2. /\ request'[p].status = act[a].target /\ request'[p].from = act[a].before
        /\ \A q \in Publish \ {p} : request'[q] = request[q]
    BY <1>1, <2>1
  <2>3. act[a].target = "applied" /\ act[a].before = Effective(undo[p][1], ScopeOf[p])
    BY <1>1, <2>1 DEF CallInv, ReadInv
  <2>4. \A q \in Publish : UndoInv(q)' /\ FreshInv(q)'
    BY <1>1, <2>1, <2>2, <2>3 DEF UndoInv, FreshInv
  <2> QED
    BY <1>g, <2>1, <2>4 DEF Phase
<1> QED
  BY <1>u, <1>3, <1>4, <1>5, <1>6, <1>7, <1>8, <1>9, <1>10

(* A publish is created without a version to return to.                     *)
LEMMA CreateLone ==
    ASSUME TypeInv, OutcomeInv, LoneInv, NEW p \in Publish, Create(p)
    PROVE  LoneInv'
<1>1. /\ request[p].status = "absent" /\ request[p].from = NoVersion
      /\ request'[p].from = NoVersion
      /\ \A q \in Publish \ {p} : request'[q] = request[q]
      /\ UNCHANGED <<active, act, undo>>
  BY DEF Create, TypeInv, PubTypeOK, artifacts, LoneInv, FreshInv
<1>2. \A q \in Publish : UndoInv(q)' /\ FreshInv(q)'
  BY <1>1 DEF LoneInv, UndoInv, FreshInv
<1>3. ASSUME NEW a \in Actor PROVE ReadInv(a)'
  <2>1. act[a].at # "idle" => act[a].pub \in Publish /\ act[a].pub # p
    BY <1>1 DEF OutcomeInv, CallInv, TypeInv, PubTypeOK
  <2>2. ReadInv(a)
    BY DEF LoneInv
  <2> QED
    BY <1>1, <2>1, <2>2 DEF ReadInv
<1> QED
  BY <1>2, <1>3 DEF LoneInv

(* A rollback that finds the config as its apply left it undoes the apply.  *)
LEMMA RollbackStep ==
    ASSUME TypeInv, LoneInv, NEW a \in Actor, WriteTable(a),
           act[a].target = "rolled_back", undo[act[a].pub] # <<>>,
           active = undo[act[a].pub][2]
    PROVE  AllEffective(active') = AllEffective(undo[act[a].pub][1])
<1> DEFINE p == act[a].pub
           s == ScopeOf[p]
           old == undo[p][1]
<1>1. /\ active' = [active EXCEPT ![s] = NewVersion(a)] /\ s \in Scope
      /\ act[a].at = "config" /\ p \in Publish
      /\ active \in [Scope -> Maybe] /\ NewVersion(a) \in Version
  BY LoneWrite, PublishAssumption DEF WriteTable, TypeInv, PubTypeOK
<1>2. /\ old \in [Scope -> Maybe] /\ old[Default] \in Version
      /\ \A x \in Scope \ {s} : active[x] = old[x]
      /\ request[p].from # NoVersion => request[p].from = Effective(old, s)
  BY <1>1 DEF LoneInv, UndoInv
<1>3. NewVersion(a) = Effective(old, s)
  BY <1>1, <1>2, PublishAssumption DEF LoneInv, ReadInv, NewVersion
<1>4. \A x \in Scope : active'[x] = IF x = s THEN Effective(old, s) ELSE old[x]
  BY <1>1, <1>2, <1>3
<1>5. Default \in Scope /\ NoVersion \notin Version
  BY PublishAssumption
<1> HIDE DEF s, old
<1>6. active'[Default] = old[Default]
  BY <1>2, <1>4, <1>5 DEF Effective
<1>7. Effective(old, s) \in Version
  BY <1>1, <1>3
<1>8. \A x \in Scope : Effective(active', x) = Effective(old, x)
  BY <1>4, <1>5, <1>6, <1>7 DEF Effective
<1> QED
  BY <1>8 DEF AllEffective, old

LEMMA LoneInvariance ==
    ASSUME LoneActor
    PROVE  Spec => [](TypeInv /\ OutcomeInv /\ LoneInv)
<1>1. SoleOperator
  BY DEF LoneActor, SoleOperator
<1>2. Init => LoneInv
  BY NoActTyped DEF Init, LoneInv, ReadInv, UndoInv, FreshInv
<1>3. LoneInv /\ UNCHANGED vars => LoneInv'
  BY DEF LoneInv, ReadInv, UndoInv, FreshInv, vars, artifacts
<1>4. TypeInv /\ OutcomeInv /\ LoneInv /\ [Next]_vars => LoneInv'
  BY <1>3, StepLone, CreateLone DEF Next
<1>5. Spec => [](TypeInv /\ OutcomeInv)
  BY <1>1, OutcomeInvariance
<1> QED
  BY <1>2, <1>4, <1>5, PTL DEF Spec

(* With one process, a rollback brings back what every scope resolved to    *)
(* before the apply, whatever crashes and retries came between.             *)
THEOREM RollbacksRestore ==
    ASSUME LoneActor
    PROVE  Spec => RollbackRestores
<1>1. TypeInv /\ LoneInv => [\A a \in Actor : LET p == act[a].pub IN
          WriteTable(a) /\ act[a].target = "rolled_back"
          /\ undo[p] # <<>> /\ active = undo[p][2]
             => AllEffective(active') = AllEffective(undo[p][1])]_vars
  BY RollbackStep
<1> QED
  BY <1>1, LoneInvariance, PTL DEF RollbackRestores

-----------------------------------------------------------------------------
(* The report.                                                              *)

(* A call that has written the config knows what it replaced and by what;   *)
(* a rollback has a version to return to.                                   *)
DoneInv(a) ==
    LET c == act[a]
        p == act[a].pub
    IN  /\ c.at = "from" => c.after = TargetOf[p]
        /\ c.at \in {"result", "audit", "event"} /\ c.target = "applied" =>
             c.before = Replaced(p) /\ c.after = TargetOf[p]
        /\ c.at \in {"result", "audit", "event"} /\ c.target = "rolled_back" =>
             c.from = request[p].from /\ c.from \in Version

(* The shared result file says of its publish what was replaced.            *)
ResultInv ==
    LET p == result.pub IN
    /\ result.status = "applied" =>
         undo[p] # <<>> /\ result.before = Replaced(p) /\ result.after = TargetOf[p]
    /\ result.status = "rolled_back" =>
         /\ p \in Publish /\ request[p].status = "rolled_back"
         /\ result.from \in Version
         /\ undo[p] # <<>> => result.from = Replaced(p)

ReportInv ==
    /\ \A a \in Actor : DoneInv(a)
    /\ ResultInv
    /\ \A p \in Publish : undo[p] # <<>> => undo[p][2][ScopeOf[p]] = TargetOf[p]

(* The steps of a lone process keep the invariant.                          *)
LEMMA StepReport ==
    ASSUME LoneActor, TypeInv, OutcomeInv, LoneInv, ReportInv, NEW a \in Actor,
           \/ \E p \in Publish, t \in Target : Load(a, p, t)
           \/ BlockedByRegression(a) \/ Blocked(a) \/ PersistStatus(a) \/ WriteReview(a)
           \/ RollbackWithoutFrom(a) \/ UnknownVersion(a)
           \/ ReadTable(a) \/ WriteTable(a) \/ PersistFrom(a)
           \/ WriteResult(a) \/ WriteAudit(a) \/ EmitEvent(a) \/ Crash(a)
    PROVE  ReportInv'
<1> USE DEF artifacts
<1> DEFINE p == act[a].pub
           Written(q) == undo[q] # <<>> => undo[q][2][ScopeOf[q]] = TargetOf[q]
<1>1. /\ DoneInv(a) /\ ReadInv(a) /\ CallInv(a) /\ ResultInv /\ ResultBacked
      /\ \A q \in Publish : UndoInv(q) /\ Written(q)
      /\ act \in [Actor -> Call] /\ act[a] \in Call /\ DOMAIN undo = Publish
      /\ request \in [Publish -> [status : Status \cup {"absent"}, from : Maybe]]
      /\ active \in [Scope -> Maybe] /\ NoVersion \notin Version
      /\ act[a].at # "idle" => p \in Publish
  BY PublishAssumption DEF OutcomeInv, LoneInv, ReportInv, TypeInv, PubTypeOK
<1>2. SUFFICES DoneInv(a)' /\ ResultInv' /\ \A q \in Publish : Written(q)'
  BY DEF LoneActor, ReportInv
<1>b. \A status : Artifact(a, status).status = status /\ Artifact(a, status).pub = p
                  /\ Artifact(a, status).before = act[a].before
                  /\ Artifact(a, status).after = act[a].after
                  /\ Artifact(a, status).from = act[a].from
  BY DEF Artifact
<1>w. UNCHANGED undo => \A q \in Publish : Written(q)'
  BY <1>1
<1>s. UNCHANGED <<request, undo>> /\ (result' = result \/ result'.status \notin {"applied", "rolled_back"})
        => ResultInv'
  BY <1>1 DEF ResultInv, Replaced, Effective
<1>d. act'[a].at \notin {"from", "result", "audit", "event"} => DoneInv(a)'
  BY DEF DoneInv
<1>f. Finish(a) => DoneInv(a)'
  BY <1>d, FinishFields
<1>3. ASSUME NEW q \in Publish, NEW t \in Target, Load(a, q, t)
      PROVE  DoneInv(a)' /\ UNCHANGED <<request, undo, result>>
  BY <1>1, <1>3, <1>d DEF Load
<1>4. CASE Blocked(a) \/ BlockedByRegression(a) \/ RollbackWithoutFrom(a) \/ UnknownVersion(a)
           \/ EmitEvent(a) \/ Crash(a)
  BY <1>w, <1>s, <1>f, <1>b, <1>4
     DEF Blocked, BlockedByRegression, RollbackWithoutFrom, UnknownVersion, EmitEvent, Crash
<1>5. CASE WriteReview(a)
  <2>1. /\ act[a].at = "review" /\ act[a].target \notin {"applied", "rolled_back"}
        /\ GoTo(a, "result") /\ UNCHANGED <<request, undo, result>>
    BY <1>1, <1>5 DEF WriteReview, CallInv
  <2>2. DoneInv(a)'
    BY <2>1, GoToFields DEF DoneInv
  <2> QED
    BY <1>w, <1>s, <2>1, <2>2
<1>6. CASE PersistStatus(a)
  <2>1. /\ act[a].target \in Allowed(request[p].status) /\ p \in Publish
        /\ request' = [request EXCEPT ![p] = [status |-> act[a].target, from |-> act[a].from]]
        /\ UNCHANGED <<undo, result>>
    BY <1>1, <1>6 DEF PersistStatus, CallInv
  <2>2. \A q \in Publish \ {p} : request'[q] = request[q]
    BY <1>1, <2>1
  <2>3. request[p].status # "rolled_back"
    BY <2>1 DEF Allowed
  <2>4. DoneInv(a)'
    BY <1>d, <1>6, GoToFields DEF PersistStatus
  <2>5. ResultInv'
    BY <1>1, <2>1, <2>2, <2>3 DEF ResultInv, Replaced, Effective
  <2> QED
    BY <1>w, <2>1, <2>4, <2>5
<1>7. CASE ReadTable(a)
  <2>1. act'[a].at = "config" /\ UNCHANGED <<request, undo, result>>
    BY <1>1, <1>7 DEF ReadTable
  <2> QED
    BY <1>w, <1>s, <1>d, <2>1
<1>8. CASE WriteTable(a)
  <2> DEFINE s == ScopeOf[p]
             at == IF act[a].target = "applied" THEN "from" ELSE "result"
             v == Effective(active', s)
  <2>1. /\ act[a].at = "config" /\ p \in Publish /\ UNCHANGED <<request, result>>
        /\ NewVersion(a) \in Version
        /\ act' = [act EXCEPT ![a] = [act[a] EXCEPT !.after = v, !.at = at]]
        /\ undo' = IF act[a].target = "applied" THEN [undo EXCEPT ![p] = <<active, active'>>] ELSE undo
    BY <1>1, <1>8, PublishAssumption DEF WriteTable, TypeInv
  <2>2. active' = [active EXCEPT ![s] = NewVersion(a)] /\ s \in Scope
    BY <1>8, LoneWrite
  <2>3. v = NewVersion(a) /\ active'[s] = NewVersion(a)
    BY <1>1, <2>1, <2>2 DEF Effective
  <2> HIDE DEF v, s
  <2>4. /\ act'[a].at = at /\ act'[a].pub = p /\ act'[a].target = act[a].target
        /\ act'[a].after = v /\ act'[a].from = act[a].from
    BY <1>1, <2>1 DEF Call
  <2>5. CASE act[a].target = "applied"
    <3>1. v = TargetOf[p]
      BY <2>3, <2>5 DEF NewVersion
    <3>2. DoneInv(a)'
      BY <2>4, <2>5, <3>1 DEF DoneInv
    <3>3. undo'[p][2] = active' /\ \A q \in Publish \ {p} : undo'[q] = undo[q]
      BY <1>1, <2>1, <2>5
    <3>4. result.status \in {"applied", "rolled_back"} => result.pub \in Publish \ {p}
      BY <1>1, <2>1, <2>5 DEF CallInv, ResultInv, ResultBacked
    <3>5. ResultInv'
      BY <1>1, <2>1, <3>3, <3>4 DEF ResultInv, Replaced, Effective
    <3>6. ASSUME NEW q \in Publish PROVE Written(q)'
      BY <1>1, <2>3, <3>1, <3>3 DEF s
    <3> QED
      BY <3>2, <3>5, <3>6
  <2>6. CASE act[a].target # "applied"
    <3>1. act[a].from = request[p].from /\ act[a].from \in Version
      BY <1>1, <2>1, <2>6 DEF ReadInv, NewVersion
    <3>2. DoneInv(a)'
      BY <2>1, <2>4, <2>6, <3>1 DEF DoneInv
    <3> QED
      BY <1>w, <1>s, <2>1, <2>6, <3>2
  <2> QED
    BY <2>5, <2>6
<1>9. CASE PersistFrom(a)
  <2>1. /\ act[a].at = "from" /\ GoTo(a, "result") /\ UNCHANGED <<undo, result>> /\ p \in Publish
        /\ request' = [request EXCEPT ![p] = [status |-> act[a].target, from |-> act[a].before]]
        /\ act[a].target = "applied" /\ request[p].status = "applied"
    BY <1>1, <1>9 DEF PersistFrom, CallInv
  <2>2. \A q \in Publish \ {p} : request'[q] = request[q]
    BY <1>1, <2>1
  <2>3. act[a].before = Replaced(p)
    BY <1>1, <2>1 DEF ReadInv, Replaced
  <2>4. DoneInv(a)'
    <3>1. act'[a].after = act[a].after
      BY <1>1, <2>1 DEF GoTo, Call
    <3>2. \A q \in Publish : Replaced(q)' = Replaced(q)
      BY <2>1 DEF Replaced, Effective
    <3> QED
      BY <1>1, <2>1, <2>3, <3>1, <3>2, GoToFields DEF DoneInv
  <2>5. ResultInv'
    BY <1>1, <2>1, <2>2 DEF ResultInv, Replaced, Effective
  <2> QED
    BY <1>w, <2>1, <2>4, <2>5
<1>10. CASE WriteResult(a)
  <2>1. /\ act[a].at = "result" /\ p \in Publish /\ UNCHANGED <<request, undo>>
        /\ result'.status = act[a].target /\ result'.pub = p /\ result'.from = act[a].from
        /\ result'.before = act[a].before /\ result'.after = act[a].after
    BY <1>1, <1>b, <1>10 DEF WriteResult
  <2>2. DoneInv(a)'
    <3>1. CASE Finish(a)
      BY <1>f, <3>1
    <3>2. ASSUME NEW at \in {"audit", "event"}, GoTo(a, at) PROVE DoneInv(a)'
      <4>1. act'[a].after = act[a].after
        BY <1>1, <3>2 DEF GoTo, Call
      <4>2. \A q \in Publish : Replaced(q)' = Replaced(q)
        BY <2>1 DEF Replaced, Effective
      <4> QED
        BY <1>1, <2>1, <3>2, <4>1, <4>2, GoToFields DEF DoneInv
    <3> QED
      BY <1>10, <3>1, <3>2 DEF WriteResult
  <2>3. CASE act[a].target = "applied"
    <3>1. ResultInv'
      BY <1>1, <2>1, <2>3 DEF ResultInv, DoneInv, CallInv, Replaced, Effective
    <3> QED
      BY <1>w, <2>1, <2>2, <3>1
  <2>4. CASE act[a].target = "rolled_back"
    <3>1. /\ act[a].from = request[p].from /\ act[a].from \in Version
          /\ request[p].status = "rolled_back"
      BY <1>1, <2>1, <2>4 DEF DoneInv, CallInv
    <3>2. undo[p] # <<>> => act[a].from = Replaced(p)
      BY <1>1, <2>1, <3>1 DEF UndoInv, Replaced
    <3>3. ResultInv'
      BY <2>1, <2>4, <3>1, <3>2 DEF ResultInv, Replaced, Effective
    <3> QED
      BY <1>w, <2>1, <2>2, <3>3
  <2>5. CASE act[a].target \notin {"applied", "rolled_back"}
    BY <1>w, <1>s, <2>1, <2>2, <2>5
  <2> QED
    BY <2>3, <2>4, <2>5
<1>11. CASE WriteAudit(a)
  <2>1. /\ act[a].at = "audit" /\ GoTo(a, "event") /\ UNCHANGED <<request, undo, result>>
    BY <1>11 DEF WriteAudit
  <2>2. act'[a].after = act[a].after
    BY <1>1, <2>1 DEF GoTo, Call
  <2>3. \A q \in Publish : Replaced(q)' = Replaced(q)
    BY <2>1 DEF Replaced, Effective
  <2>4. DoneInv(a)'
    BY <1>1, <2>1, <2>2, <2>3, GoToFields DEF DoneInv
  <2> QED
    BY <1>w, <1>s, <2>1, <2>4
<1> QED
  BY <1>w, <1>s, <1>3, <1>4, <1>5, <1>6, <1>7, <1>8, <1>9, <1>10, <1>11

(* A publish is created before any report on it.                            *)
LEMMA CreateReport ==
    ASSUME TypeInv, OutcomeInv, ReportInv, NEW p \in Publish, Create(p)
    PROVE  ReportInv'
<1>1. /\ request[p].status = "absent"
      /\ \A q \in Publish : request'[q].from = request[q].from
      /\ \A q \in Publish \ {p} : request'[q] = request[q]
      /\ UNCHANGED <<result, act, undo>>
  BY DEF Create, TypeInv, PubTypeOK, artifacts
<1>2. ResultInv'
  BY <1>1 DEF ReportInv, ResultInv, Replaced, Effective
<1>3. ASSUME NEW a \in Actor PROVE DoneInv(a)'
  <2>1. act[a].at # "idle" => act[a].pub \in Publish
    BY DEF TypeInv, PubTypeOK
  <2>2. DoneInv(a)
    BY DEF ReportInv
  <2> QED
    BY <1>1, <2>1, <2>2 DEF DoneInv, Replaced, Effective
<1> QED
  BY <1>1, <1>2, <1>3 DEF ReportInv

LEMMA ReportInvariance ==
    ASSUME LoneActor
    PROVE  Spec => [](TypeInv /\ OutcomeInv /\ LoneInv /\ ReportInv)
<1>1. Init => ReportInv
  BY NoActTyped DEF Init, ReportInv, DoneInv, ResultInv, NoArtifact
<1>2. ReportInv /\ UNCHANGED vars => ReportInv'
  BY DEF ReportInv, DoneInv, ResultInv, Replaced, Effective, vars, artifacts
<1>3. TypeInv /\ OutcomeInv /\ LoneInv /\ ReportInv /\ [Next]_vars => ReportInv'
  BY <1>2, StepReport, CreateReport DEF Next
<1> QED
  BY <1>1, <1>3, LoneInvariance, PTL DEF Spec

(* Where the config is as the apply of p left it, the target version is in  *)
(* effect.                                                                  *)
LEMMA AppliedCurrent ==
    ASSUME TypeInv, ReportInv, NEW p \in Publish, AsApplied(p)
    PROVE  Effective(active, ScopeOf[p]) = TargetOf[p]
BY PublishAssumption DEF AsApplied, ReportInv, Effective

(* With one process the report on a publish raises no alarm after an apply  *)
(* or a rollback that ran to its end and that nothing has overtaken, except *)
(* after the apply of a version that was in effect already: then it always  *)
(* raises one.                                                              *)
THEOREM ReportsAreTrue ==
    ASSUME LoneActor
    PROVE  Spec => []NoFalseAlarm
<1>1. ASSUME TypeInv, OutcomeInv, LoneInv, ReportInv PROVE NoFalseAlarm
  <2> SUFFICES ASSUME NEW p \in Publish, Quiet, result.pub = p, audit.pub = p,
                      audit.status = result.status
               PROVE  /\ result.status = "applied" /\ AsApplied(p) =>
                            ReconcileStatus(p) = IF Changed(p) THEN "no_action_needed"
                                                               ELSE "manual_required"
                      /\ result.status = "rolled_back" /\ AsRolledBack(p) =>
                            ReconcileStatus(p) = "no_action_needed"
    BY DEF NoFalseAlarm
  <2>1. p # "none" /\ Subject(p) = p
    BY PublishAssumption DEF Subject
  <2>2. ASSUME result.status \in {"applied", "rolled_back"}, ~CriticalMismatch(p)
        PROVE  ReconcileStatus(p) = "no_action_needed"
    <3>1. ~MissingArtifact /\ ~ConfigAhead(p)
      BY <2>1, <2>2 DEF MissingArtifact, ConfigAhead
    <3> QED
      BY <2>2, <3>1 DEF ReconcileStatus
  <2>3. ASSUME result.status = "applied", AsApplied(p)
        PROVE  CriticalMismatch(p) <=> ~Changed(p)
    <3>1. /\ CurrentVersion(p) = TargetOf[p]
          /\ result.before = Replaced(p) /\ result.after = TargetOf[p]
      BY <1>1, <2>1, <2>3, AppliedCurrent DEF ReportInv, ResultInv, CurrentVersion
    <3>2. result.before # NoVersion
      BY <1>1, <2>3, <3>1, EffectiveTyped, PublishAssumption
         DEF LoneInv, UndoInv, AsApplied, Replaced
    <3>3. result.after # NoVersion
      BY <3>1, PublishAssumption
    <3> QED
      BY <2>1, <2>3, <3>1, <3>2, <3>3
         DEF CriticalMismatch, BeforeVersion, AfterVersion, First, Changed
  <2>4. ASSUME result.status = "rolled_back", AsRolledBack(p) PROVE ~CriticalMismatch(p)
    <3>1. result.from = Replaced(p)
      BY <1>1, <2>4 DEF ReportInv, ResultInv, AsRolledBack
    <3>2. Effective(active, ScopeOf[p]) = Replaced(p)
      <4>1. ScopeOf[p] \in Scope
        BY PublishAssumption
      <4>2. AllEffective(active)[ScopeOf[p]] = AllEffective(undo[p][1])[ScopeOf[p]]
        BY <2>4 DEF AsRolledBack
      <4> QED
        BY <4>1, <4>2 DEF AllEffective, Replaced
    <3> QED
      BY <2>1, <2>4, <3>1, <3>2 DEF CriticalMismatch, CurrentVersion, FromVersion
  <2>5. ASSUME CriticalMismatch(p) PROVE ReconcileStatus(p) = "manual_required"
    BY <2>5 DEF ReconcileStatus
  <2> QED
    BY <2>2, <2>3, <2>4, <2>5
<1> QED
  BY <1>1, ReportInvariance, PTL

(* With one process, a report that asks for no action after an apply can be *)
(* relied on: the result says applied, and the request can be rolled back.  *)
THEOREM QuietReportsAreTrue ==
    ASSUME LoneActor
    PROVE  Spec => []NoActionMeansAgreement
<1>1. ASSUME TypeInv, OutcomeInv, LoneInv, ReportInv PROVE NoActionMeansAgreement
  <2> SUFFICES ASSUME NEW p \in Publish, result.pub = p, AsApplied(p), Changed(p),
                      ReconcileStatus(p) = "no_action_needed"
               PROVE  result.status = "applied" /\ request[p].from = Replaced(p)
    BY DEF NoActionMeansAgreement
  <2>1. Subject(p) = p /\ CurrentVersion(p) = TargetOf[p] /\ Replaced(p) # TargetOf[p]
    BY <1>1, AppliedCurrent, PublishAssumption DEF Subject, CurrentVersion, Changed
  <2>2. ~CriticalMismatch(p) /\ ~ConfigAhead(p)
    BY <2>1, PublishAssumption DEF ReconcileStatus, MissingArtifact
  <2>3. result.status \in {"applied", "rolled_back"}
    BY <2>1, <2>2 DEF ConfigAhead
  <2>4. result.status # "rolled_back"
    <3>1. ASSUME result.status = "rolled_back" PROVE FALSE
      <4>1. result.from = Replaced(p) /\ result.from \in Version
        BY <1>1, <3>1 DEF ReportInv, ResultInv, AsApplied
      <4> QED
        BY <2>1, <2>2, <3>1, <4>1, PublishAssumption DEF CriticalMismatch, FromVersion
    <3> QED
      BY <3>1
  <2>5. request[p].from = Replaced(p)
    BY <1>1, <2>3, <2>4 DEF OutcomeInv, ResultBacked, ReportInv, ResultInv
  <2> QED
    BY <2>3, <2>4, <2>5
<1> QED
  BY <1>1, ReportInvariance, PTL

-----------------------------------------------------------------------------
(* The atomic workflow.                                                     *)

(* A call between the two writes of an apply or a rollback remembers the    *)
(* status it came from; every version in the files is a listed one.         *)
StageInv(a) ==
    LET c == act[a]
    IN  /\ c.at \in {"table", "config"} =>
             \/ c.target = "applied" /\ c.old = "confirmed"
             \/ c.target = "rolled_back" /\ c.old = "applied"
        /\ c.at \in {"config", "from"} => c.before \in Registered

Listed == /\ active \in [Scope -> Registered \cup {NoVersion}]
          /\ active[Default] \in Registered
          /\ \A p \in Publish : request[p].from \in Registered \cup {NoVersion}

AtomicInv == Listed /\ \A a \in Actor : StageInv(a)

(* The steps of a lone process keep the invariant.                          *)
LEMMA StepStage ==
    ASSUME LoneActor, TypeInv, OutcomeInv, LoneInv, AtomicInv, NEW a \in Actor,
           \/ \E p \in Publish, t \in Target : Load(a, p, t)
           \/ BlockedByRegression(a) \/ Blocked(a) \/ PersistStatus(a) \/ WriteReview(a)
           \/ RollbackWithoutFrom(a) \/ UnknownVersion(a)
           \/ ReadTable(a) \/ WriteTable(a) \/ PersistFrom(a)
           \/ WriteResult(a) \/ WriteAudit(a) \/ EmitEvent(a) \/ Crash(a)
    PROVE  AtomicInv'
<1> USE DEF artifacts
<1> DEFINE p == act[a].pub
<1>1. /\ StageInv(a) /\ ReadInv(a) /\ CallInv(a) /\ Listed
      /\ act \in [Actor -> Call] /\ act[a] \in Call
      /\ request \in [Publish -> [status : Status \cup {"absent"}, from : Maybe]]
      /\ act[a].at # "idle" => p \in Publish /\ act[a].target \in Target
  BY DEF OutcomeInv, LoneInv, AtomicInv, TypeInv, PubTypeOK
<1>2. SUFFICES StageInv(a)' /\ Listed'
  BY DEF LoneActor, AtomicInv
<1>r. act'[a].at \notin {"table", "config", "from"} => StageInv(a)'
  BY DEF StageInv
<1>f. Finish(a) => StageInv(a)'
  BY <1>r, FinishFields
<1>g. \A at \in Phase \ {"table", "config", "from"} : GoTo(a, at) => StageInv(a)'
  BY <1>r, GoToFields
<1>l. UNCHANGED <<request, active>> => Listed'
  BY <1>1 DEF Listed
<1>3. ASSUME NEW q \in Publish, NEW t \in Target, Load(a, q, t)
      PROVE  StageInv(a)' /\ UNCHANGED <<request, active>>
  BY <1>1, <1>3, <1>r DEF Load
<1>4. CASE Blocked(a) \/ BlockedByRegression(a) \/ RollbackWithoutFrom(a) \/ UnknownVersion(a)
           \/ EmitEvent(a) \/ Crash(a)
  BY <1>l, <1>f, <1>4 DEF Blocked, BlockedByRegression, RollbackWithoutFrom, UnknownVersion, EmitEvent, Crash
<1>5. CASE WriteReview(a) \/ WriteAudit(a)
  BY <1>l, <1>g, <1>5 DEF WriteReview, WriteAudit, Phase
<1>6. CASE WriteResult(a)
  BY <1>l, <1>f, <1>g, <1>6 DEF WriteResult, Phase
<1>7. CASE PersistStatus(a)
  <2>1. /\ act[a].target \in Allowed(act[a].old) /\ p \in Publish /\ act[a].from = request[p].from
        /\ request' = [request EXCEPT ![p] = [status |-> act[a].target, from |-> act[a].from]]
        /\ UNCHANGED active
    BY <1>1, <1>7 DEF PersistStatus, CallInv
  <2>2. PICK at \in {"table", "review"} :
           GoTo(a, at) /\ (at = "table" => act[a].target \in {"applied", "rolled_back"})
    BY <1>7 DEF PersistStatus
  <2>3. act'[a].at = at /\ act'[a].target = act[a].target /\ act'[a].old = act[a].old
    BY <1>1, <2>2 DEF GoTo, Call
  <2>4. /\ act[a].target = "applied" => act[a].old = "confirmed"
        /\ act[a].target = "rolled_back" => act[a].old = "applied"
    BY <2>1 DEF Allowed
  <2>5. StageInv(a)'
    BY <2>2, <2>3, <2>4 DEF StageInv
  <2>6. Listed'
    BY <1>1, <2>1 DEF Listed
  <2> QED
    BY <2>5, <2>6
<1>8. CASE ReadTable(a)
  <2> DEFINE v == Effective(active, ScopeOf[p])
  <2>1. /\ act[a].at = "table" /\ p \in Publish /\ UNCHANGED <<request, active>>
        /\ act' = [act EXCEPT ![a] = [act[a] EXCEPT !.at = "config", !.table = active, !.before = v]]
    BY <1>1, <1>8 DEF ReadTable
  <2>2. v \in Registered
    BY <1>1, <2>1, PublishAssumption DEF Listed, Effective
  <2> HIDE DEF v
  <2>3. act'[a].at = "config" /\ act'[a].target = act[a].target /\ act'[a].old = act[a].old
        /\ act'[a].before = v
    BY <1>1, <2>1 DEF Call
  <2> QED
    BY <1>1, <1>l, <2>1, <2>2, <2>3 DEF StageInv
<1>9. CASE WriteTable(a)
  <2> DEFINE at == IF act[a].target = "applied" THEN "from" ELSE "result"
             v == Effective(active', ScopeOf[p])
  <2>1. /\ act[a].at = "config" /\ UNCHANGED request /\ NewVersion(a) \in Registered
        /\ act' = [act EXCEPT ![a] = [act[a] EXCEPT !.after = v, !.at = at]]
    BY <1>9 DEF WriteTable, TypeInv
  <2> HIDE DEF v
  <2>2. act'[a].at = at /\ act'[a].before = act[a].before
    BY <1>1, <2>1 DEF Call
  <2>3. StageInv(a)'
    BY <1>1, <2>1, <2>2 DEF StageInv
  <2>4. active' = [active EXCEPT ![ScopeOf[p]] = NewVersion(a)] /\ ScopeOf[p] \in Scope
    BY <1>9, LoneWrite
  <2>5. active' \in [Scope -> Registered \cup {NoVersion}] /\ active'[Default] \in Registered
    BY <1>1, <2>1, <2>4, PublishAssumption DEF Listed
  <2>6. Listed'
    BY <1>1, <2>1, <2>5 DEF Listed
  <2> QED
    BY <2>3, <2>6
<1>10. CASE PersistFrom(a)
  <2>1. /\ act[a].at = "from" /\ GoTo(a, "result") /\ UNCHANGED active /\ p \in Publish
        /\ request' = [request EXCEPT ![p] = [status |-> act[a].target, from |-> act[a].before]]
    BY <1>1, <1>10 DEF PersistFrom
  <2>2. Listed'
    BY <1>1, <2>1 DEF Listed, StageInv
  <2> QED
    BY <1>g, <2>1, <2>2 DEF Phase
<1> QED
  BY <1>l, <1>3, <1>4, <1>5, <1>6, <1>7, <1>8, <1>9, <1>10

(* What the mapping shows of the files and of the call of a lone process,   *)
(* before a step and after it.                                              *)
LEMMA Shown ==
    ASSUME LoneActor, NEW a \in Actor
    PROVE  /\ StatusSeen = [p \in Publish |->
                 IF act[a].pub = p /\ act[a].at \in {"table", "config"} THEN act[a].old
                 ELSE request[p].status]
           /\ FromSeen = [p \in Publish |->
                 IF act[a].pub = p /\ act[a].at = "from" THEN act[a].before
                 ELSE request[p].from]
           /\ StatusSeen' = [p \in Publish |->
                 IF act'[a].pub = p /\ act'[a].at \in {"table", "config"} THEN act'[a].old
                 ELSE request'[p].status]
           /\ FromSeen' = [p \in Publish |->
                 IF act'[a].pub = p /\ act'[a].at = "from" THEN act'[a].before
                 ELSE request'[p].from]
<1>1. \A p : act[a].pub = p => CallOf(p) = act[a]
  BY DEF LoneActor, CallOf
<1>2. \A p : act'[a].pub = p => CallOf(p)' = act'[a]
  BY DEF LoneActor, CallOf
<1>3. \A p, S : /\ Busy(p, S) <=> act[a].pub = p /\ act[a].at \in S
                /\ Busy(p, S)' <=> act'[a].pub = p /\ act'[a].at \in S
  BY DEF LoneActor, Busy
<1> QED
  BY <1>1, <1>2, <1>3 DEF StatusSeen, FromSeen

(* Every step of a lone process is a step of the atomic workflow or none.   *)
LEMMA StepRefines ==
    ASSUME LoneActor, TypeInv, OutcomeInv, LoneInv, AtomicInv, NEW a \in Actor,
           \/ \E p \in Publish, t \in Target : Load(a, p, t)
           \/ BlockedByRegression(a) \/ Blocked(a) \/ PersistStatus(a) \/ WriteReview(a)
           \/ RollbackWithoutFrom(a) \/ UnknownVersion(a)
           \/ ReadTable(a) \/ WriteTable(a) \/ PersistFrom(a)
           \/ WriteResult(a) \/ WriteAudit(a) \/ EmitEvent(a) \/ Crash(a)
    PROVE  [Atomic!Next]_<<StatusSeen, FromSeen, active, crashes>>
<1> USE DEF artifacts
<1> DEFINE p == act[a].pub
           Same == UNCHANGED <<StatusSeen, FromSeen, active, crashes>>
<1>1. /\ StageInv(a) /\ ReadInv(a) /\ CallInv(a) /\ Listed
      /\ act \in [Actor -> Call] /\ act[a] \in Call
      /\ request \in [Publish -> [status : Status \cup {"absent"}, from : Maybe]]
      /\ active \in [Scope -> Maybe]
      /\ act[a].at # "idle" => p \in Publish /\ act[a].target \in Target
  BY DEF OutcomeInv, LoneInv, AtomicInv, TypeInv, PubTypeOK
<1>q. ASSUME act[a].at \notin {"table", "config", "from"}, act'[a].at \notin {"table", "config", "from"},
             UNCHANGED <<request, active, crashes>>
      PROVE  Same
  BY <1>q, Shown
<1>f. ASSUME act[a].at \notin {"table", "config", "from"}, Finish(a),
             UNCHANGED <<request, active, crashes>>
      PROVE  Same
  BY <1>q, <1>f, FinishFields
<1>3. ASSUME NEW x \in Publish, NEW t \in Target, Load(a, x, t) PROVE Same
  <2>1. act[a].at = "idle" /\ act'[a].at = "transition" /\ UNCHANGED <<request, active, crashes>>
    BY <1>1, <1>3 DEF Load
  <2> QED
    BY <1>q, <2>1
<1>4. CASE Blocked(a) \/ BlockedByRegression(a) \/ EmitEvent(a)
  BY <1>f, <1>4 DEF Blocked, BlockedByRegression, EmitEvent
<1>5. CASE WriteReview(a) \/ WriteAudit(a)
  BY <1>q, <1>5, GoToFields DEF WriteReview, WriteAudit
<1>6. CASE WriteResult(a)
  BY <1>q, <1>f, <1>6, GoToFields DEF WriteResult
<1>7. CASE PersistStatus(a)
  <2>1. /\ act[a].at = "transition" /\ p \in Publish /\ act[a].target \in Allowed(act[a].old)
        /\ act[a].old = request[p].status /\ act[a].from = request[p].from
        /\ request' = [request EXCEPT ![p] = [status |-> act[a].target, from |-> act[a].from]]
        /\ UNCHANGED <<active, crashes>>
    BY <1>1, <1>7 DEF PersistStatus, CallInv
  <2>2. PICK at \in {"table", "review"} :
           GoTo(a, at) /\ (at = "table" <=> act[a].target \in {"applied", "rolled_back"})
    BY <1>7 DEF PersistStatus
  <2>3. act'[a].at = at /\ act'[a].pub = p /\ act'[a].old = act[a].old
    BY <1>1, <2>2 DEF GoTo, Call
  <2>4. /\ request'[p].status = act[a].target /\ request'[p].from = request[p].from
        /\ \A x \in Publish \ {p} : request'[x] = request[x]
    BY <1>1, <2>1
  <2>5. FromSeen' = FromSeen
    BY <2>1, <2>2, <2>3, <2>4, Shown
  <2>6. CASE at = "table"
    <3>1. StatusSeen' = StatusSeen
      BY <2>1, <2>3, <2>4, <2>6, Shown
    <3> QED
      BY <2>1, <2>5, <3>1
  <2>7. CASE at = "review"
    <3>1. StatusSeen[p] = act[a].old /\ StatusSeen' = [StatusSeen EXCEPT ![p] = act[a].target]
      BY <2>1, <2>3, <2>4, <2>7, Shown
    <3>2. \/ act[a].old = "proposed" /\ act[a].target \in {"under_review", "confirmed", "rejected"}
          \/ act[a].old = "under_review" /\ act[a].target \in {"confirmed", "rejected"}
          \/ act[a].old = "confirmed" /\ act[a].target = "rejected"
      BY <2>1, <2>2, <2>7 DEF Allowed
    <3>3. Atomic!Review(p)
      BY <2>1, <2>5, <3>1, <3>2 DEF Atomic!Review, Atomic!Move
    <3> QED
      BY <2>1, <3>3 DEF Atomic!Next
  <2> QED
    BY <2>6, <2>7
<1>8. CASE RollbackWithoutFrom(a)
  <2>1. /\ act[a].at = "table" /\ p \in Publish /\ act[a].old = "applied"
        /\ request[p].status = "rolled_back" /\ request[p].from = NoVersion
        /\ UNCHANGED <<request, active, crashes>> /\ act'[a].at = "idle"
    BY <1>1, <1>8, FinishFields DEF RollbackWithoutFrom, StageInv, CallInv, ReadInv
  <2>2. /\ StatusSeen[p] = "applied" /\ StatusSeen' = [StatusSeen EXCEPT ![p] = "rolled_back"]
        /\ FromSeen[p] = NoVersion /\ FromSeen' = FromSeen
    BY <2>1, Shown
  <2>3. Atomic!StatusOnly(p)
    BY <2>1, <2>2 DEF Atomic!StatusOnly, Atomic!Move
  <2> QED
    BY <2>1, <2>3 DEF Atomic!Next
<1>9. CASE UnknownVersion(a)
  <2>1. /\ act[a].at = "table" /\ p \in Publish /\ act[a].from = request[p].from
        /\ request[p].status = act[a].target
        /\ UNCHANGED <<request, active, crashes>> /\ act'[a].at = "idle"
        /\ NewVersion(a) # NoVersion /\ NewVersion(a) \notin Registered
    BY <1>1, <1>9, FinishFields DEF UnknownVersion, CallInv, ReadInv
  <2>2. act[a].target = "applied" /\ act[a].old = "confirmed" /\ TargetOf[p] \notin Registered
    BY <1>1, <2>1 DEF StageInv, NewVersion, Listed
  <2>3. /\ StatusSeen[p] = "confirmed" /\ StatusSeen' = [StatusSeen EXCEPT ![p] = "applied"]
        /\ FromSeen' = FromSeen
    BY <2>1, <2>2, Shown
  <2>4. Atomic!StatusOnly(p)
    BY <2>1, <2>2, <2>3 DEF Atomic!StatusOnly, Atomic!Move
  <2> QED
    BY <2>1, <2>4 DEF Atomic!Next
<1>10. CASE ReadTable(a)
  <2> DEFINE v == Effective(active, ScopeOf[p])
  <2>1. /\ act[a].at = "table" /\ UNCHANGED <<request, active, crashes>>
        /\ act' = [act EXCEPT ![a] = [act[a] EXCEPT !.at = "config", !.table = active, !.before = v]]
    BY <1>10 DEF ReadTable
  <2> HIDE DEF v
  <2>2. act'[a].at = "config" /\ act'[a].pub = p /\ act'[a].old = act[a].old
    BY <1>1, <2>1 DEF Call
  <2> QED
    BY <2>1, <2>2, Shown
<1>11. CASE WriteTable(a)
  <2> DEFINE at == IF act[a].target = "applied" THEN "from" ELSE "result"
             v == Effective(active', ScopeOf[p])
  <2>1. /\ act[a].at = "config" /\ p \in Publish /\ UNCHANGED <<request, crashes>>
        /\ NewVersion(a) \in Registered /\ request[p].status = act[a].target
        /\ act' = [act EXCEPT ![a] = [act[a] EXCEPT !.after = v, !.at = at]]
    BY <1>1, <1>11 DEF WriteTable, TypeInv, CallInv
  <2> HIDE DEF v
  <2>2. act'[a].at = at /\ act'[a].pub = p /\ act'[a].before = act[a].before
    BY <1>1, <2>1 DEF Call
  <2>3. active' = [active EXCEPT ![ScopeOf[p]] = NewVersion(a)]
    BY <1>11, LoneWrite
  <2>4. CASE act[a].target = "applied"
    <3>1. /\ act[a].old = "confirmed" /\ NewVersion(a) = TargetOf[p]
          /\ act[a].before = Effective(active, ScopeOf[p])
      BY <1>1, <2>1, <2>4 DEF StageInv, ReadInv, NewVersion
    <3>2. /\ StatusSeen[p] = "confirmed" /\ StatusSeen' = [StatusSeen EXCEPT ![p] = "applied"]
          /\ FromSeen' = [FromSeen EXCEPT ![p] = act[a].before]
      BY <2>1, <2>2, <2>4, <3>1, Shown
    <3>3. act[a].before = Atomic!Effective(ScopeOf[p])
      BY <3>1 DEF Effective, Atomic!Effective
    <3>4. Atomic!Apply(p)
      BY <2>1, <2>3, <3>1, <3>2, <3>3 DEF Atomic!Apply, Atomic!Move
    <3> QED
      BY <2>1, <3>4 DEF Atomic!Next
  <2>5. CASE act[a].target # "applied"
    <3>1. /\ act[a].target = "rolled_back" /\ act[a].old = "applied"
          /\ NewVersion(a) = request[p].from /\ request[p].from # NoVersion
      BY <1>1, <2>1, <2>5, PublishAssumption DEF StageInv, ReadInv, NewVersion
    <3>2. /\ StatusSeen[p] = "applied" /\ StatusSeen' = [StatusSeen EXCEPT ![p] = "rolled_back"]
          /\ FromSeen[p] = request[p].from /\ FromSeen' = FromSeen
      BY <2>1, <2>2, <2>5, <3>1, Shown
    <3>3. Atomic!Rollback(p)
      BY <2>1, <2>3, <3>1, <3>2 DEF Atomic!Rollback, Atomic!Move
    <3> QED
      BY <2>1, <3>3 DEF Atomic!Next
  <2> QED
    BY <2>4, <2>5
<1>12. CASE PersistFrom(a)
  <2>1. /\ act[a].at = "from" /\ GoTo(a, "result") /\ UNCHANGED <<active, crashes>> /\ p \in Publish
        /\ request' = [request EXCEPT ![p] = [status |-> act[a].target, from |-> act[a].before]]
        /\ request[p].status = act[a].target
    BY <1>1, <1>12 DEF PersistFrom, CallInv
  <2>2. /\ request'[p].status = request[p].status /\ request'[p].from = act[a].before
        /\ \A x \in Publish \ {p} : request'[x] = request[x]
    BY <1>1, <2>1
  <2>3. StatusSeen' = StatusSeen /\ FromSeen' = FromSeen
    BY <2>1, <2>2, GoToFields, Shown
  <2> QED
    BY <2>1, <2>3
<1>13. CASE Crash(a)
  <2>1. /\ act[a].at # "idle" /\ p \in Publish /\ crashes' = crashes + 1
        /\ UNCHANGED <<request, active>> /\ act'[a].at = "idle"
        /\ act[a].at \in {"table", "config", "from"} => request[p].status = act[a].target
    BY <1>1, <1>13, FinishFields DEF Crash, CallInv
  <2>2. CASE act[a].at \in {"table", "config"}
    <3>1. /\ StatusSeen[p] = act[a].old /\ StatusSeen' = [StatusSeen EXCEPT ![p] = act[a].target]
          /\ FromSeen' = FromSeen
      BY <2>1, <2>2, Shown
    <3>2. Atomic!Lapse(p)
      BY <1>1, <2>1, <2>2, <3>1 DEF StageInv, Atomic!Lapse, Atomic!Move
    <3> QED
      BY <2>1, <3>2 DEF Atomic!Next
  <2>3. CASE act[a].at = "from"
    <3>1. request[p].status = "applied" /\ request[p].from = NoVersion
      BY <1>1, <2>1, <2>3 DEF CallInv, ReadInv
    <3>2. /\ StatusSeen[p] = "applied" /\ StatusSeen' = StatusSeen
          /\ FromSeen' = [FromSeen EXCEPT ![p] = NoVersion]
      BY <2>1, <2>3, <3>1, Shown
    <3>3. Atomic!Lapse(p)
      BY <2>1, <3>2 DEF Atomic!Lapse
    <3> QED
      BY <2>1, <3>3 DEF Atomic!Next
  <2>4. CASE act[a].at \notin {"table", "config", "from"}
    <3>1. StatusSeen' = StatusSeen /\ FromSeen' = FromSeen
      BY <2>1, <2>4, Shown
    <3>2. Atomic!Lapse(p)
      BY <2>1, <3>1 DEF Atomic!Lapse
    <3> QED
      BY <2>1, <3>2 DEF Atomic!Next
  <2> QED
    BY <2>2, <2>3, <2>4
<1> QED
  BY <1>3, <1>4, <1>5, <1>6, <1>7, <1>8, <1>9, <1>10, <1>11, <1>12, <1>13

(* A new request is a proposal.                                             *)
LEMMA CreateRefines ==
    ASSUME TypeInv, OutcomeInv, NEW p \in Publish, Create(p)
    PROVE  [Atomic!Next]_<<StatusSeen, FromSeen, active, crashes>>
<1>1. /\ request[p].status = "absent" /\ request'[p].status = "proposed"
      /\ request'[p].from = request[p].from
      /\ \A q \in Publish \ {p} : request'[q] = request[q]
      /\ UNCHANGED <<active, act, crashes>>
  BY DEF Create, TypeInv, PubTypeOK, artifacts
<1>2. \A S \in SUBSET (Phase \ {"idle"}) : ~Busy(p, S)
  <2> SUFFICES ASSUME NEW S \in SUBSET (Phase \ {"idle"}), NEW a \in Actor,
                      act[a].pub = p, act[a].at \in S
               PROVE  FALSE
    BY DEF Busy
  <2> QED
    BY <1>1 DEF OutcomeInv, CallInv
<1>3. ~Busy(p, {"table", "config"}) /\ ~Busy(p, {"from"})
  BY <1>2 DEF Phase
<1>4. \A q, S : (Busy(q, S)' <=> Busy(q, S)) /\ CallOf(q)' = CallOf(q)
  BY <1>1 DEF Busy, CallOf
<1>5. StatusSeen[p] = "absent" /\ StatusSeen' = [StatusSeen EXCEPT ![p] = "proposed"]
  BY <1>1, <1>3, <1>4 DEF StatusSeen
<1>6. FromSeen' = FromSeen
  BY <1>1, <1>3, <1>4 DEF FromSeen
<1>7. Atomic!Review(p)
  BY <1>1, <1>5, <1>6 DEF Atomic!Review, Atomic!Move
<1> QED
  BY <1>7 DEF Atomic!Next

LEMMA AtomicKept ==
    ASSUME LoneActor
    PROVE  TypeInv /\ OutcomeInv /\ LoneInv /\ AtomicInv /\ [Next]_vars => AtomicInv'
<1>1. AtomicInv /\ UNCHANGED vars => AtomicInv'
  BY DEF AtomicInv, Listed, StageInv, vars, artifacts
<1>2. ASSUME AtomicInv, NEW p \in Publish, Create(p), TypeInv PROVE AtomicInv'
  <2>1. \A q \in Publish : request'[q].from = request[q].from
    BY <1>2 DEF Create, TypeInv, PubTypeOK
  <2> QED
    BY <1>2, <2>1 DEF Create, AtomicInv, Listed, StageInv
<1> QED
  BY <1>1, <1>2, StepStage DEF Next

(* With one process, and an initial version that is a listed one, the       *)
(* workflow of up to six writes implements the atomic one, every crash      *)
(* being at most one lapse.                                                 *)
THEOREM WorkflowIsAtomic ==
    ASSUME LoneActor, InitialVersion \in Registered
    PROVE  Spec => ImplementsAtomic
<1>1. Init => AtomicInv
  BY NoActTyped, PublishAssumption DEF Init, AtomicInv, Listed, StageInv
<1>2. TypeInv /\ OutcomeInv /\ LoneInv /\ AtomicInv /\ [Next]_vars => AtomicInv'
  BY AtomicKept
<1>3. Init => Atomic!Init
  <2> SUFFICES ASSUME Init PROVE Atomic!Init
    OBVIOUS
  <2>1. \A p, S : Busy(p, S) => \E a \in Actor : NoAct.at \in S
    BY DEF Init, Busy
  <2>2. \A p : ~Busy(p, {"table", "config"}) /\ ~Busy(p, {"from"})
    BY <2>1, NoActTyped
  <2> QED
    BY <2>2 DEF Init, Atomic!Init, StatusSeen, FromSeen
<1>4. UNCHANGED vars => UNCHANGED <<StatusSeen, FromSeen, active, crashes>>
  BY DEF vars, StatusSeen, FromSeen, Busy, CallOf
<1>5. TypeInv /\ OutcomeInv /\ LoneInv /\ AtomicInv /\ [Next]_vars
        => [Atomic!Next]_<<StatusSeen, FromSeen, active, crashes>>
  BY <1>4, StepRefines, CreateRefines DEF Next
<1> QED
  BY <1>1, <1>2, <1>3, <1>5, LoneInvariance, PTL DEF Spec, ImplementsAtomic, Atomic!Spec

-----------------------------------------------------------------------------
(* Half commits.  A publish is whole if its status agrees with the config:  *)
(* applied, its version is in effect; rolled back, the config is not as its *)
(* apply, if that changed anything, left it.                                *)
Whole(p) ==
    /\ request[p].status = "applied" => Effective(active, ScopeOf[p]) = TargetOf[p]
    /\ request[p].status = "rolled_back" => ~(AsApplied(p) /\ Changed(p))

(* What holds of a lone publish at each place of its call: the status runs  *)
(* ahead of the config between the two writes, and of "from" until it is    *)
(* recorded, but a publish rolled back always has a version to return to.   *)
Between(phases) == \E a \in Actor : act[a].at \in phases
WholeInv(p) ==
    /\ request[p].status = "applied" /\ ~Between({"table", "config"}) =>
         active[ScopeOf[p]] = TargetOf[p] /\ undo[p] # <<>>
    /\ request[p].status = "applied" /\ ~Between({"table", "config", "from"}) =>
         request[p].from # NoVersion
    /\ request[p].status = "rolled_back" => undo[p] # <<>> /\ request[p].from # NoVersion
    /\ request[p].status = "rolled_back" /\ ~Between({"table", "config"}) =>
         active[ScopeOf[p]] = request[p].from

(* Every step but a crash keeps it, where the versions are listed ones.     *)
LEMMA StepWhole ==
    ASSUME LoneActor, TypeInv, OutcomeInv, LoneInv, AtomicInv,
           NEW p, Publish = {p}, TargetOf[p] \in Registered, WholeInv(p), NEW a \in Actor,
           \/ \E q \in Publish, t \in Target : Load(a, q, t)
           \/ BlockedByRegression(a) \/ Blocked(a) \/ PersistStatus(a) \/ WriteReview(a)
           \/ RollbackWithoutFrom(a) \/ UnknownVersion(a)
           \/ ReadTable(a) \/ WriteTable(a) \/ PersistFrom(a)
           \/ WriteResult(a) \/ WriteAudit(a) \/ EmitEvent(a)
    PROVE  WholeInv(p)'
<1> USE DEF artifacts
<1> DEFINE s == ScopeOf[p]
<1>1. /\ act \in [Actor -> Call] /\ DOMAIN undo = Publish
      /\ request \in [Publish -> [status : Status \cup {"absent"}, from : Maybe]]
      /\ active \in [Scope -> Maybe] /\ s \in Scope
      /\ act[a].at # "idle" => act[a].pub = p
      /\ CallInv(a) /\ ReadInv(a) /\ StageInv(a)
      /\ Registered \subseteq Version /\ NoVersion \notin Version
      /\ act[a].at # "idle" => act[a].from = request[p].from \/ act[a].at \notin {"table", "config"}
  BY PublishAssumption DEF TypeInv, PubTypeOK, OutcomeInv, LoneInv, AtomicInv, ReadInv
<1>2. /\ \A phases : Between(phases) <=> act[a].at \in phases
      /\ \A phases : Between(phases)' <=> act'[a].at \in phases
  BY DEF LoneActor, Between
<1> HIDE DEF s
<1>3. ASSUME UNCHANGED <<request, active, undo>>,
             act[a].at \notin {"table", "config", "from"},
             act'[a].at \notin {"table", "config", "from"}
      PROVE  WholeInv(p)'
  BY <1>2, <1>3 DEF WholeInv
<1>4. ASSUME NEW q \in Publish, NEW t \in Target, Load(a, q, t) PROVE WholeInv(p)'
  BY <1>1, <1>3, <1>4 DEF Load
<1>5. CASE Blocked(a) \/ BlockedByRegression(a) \/ EmitEvent(a)
  BY <1>3, <1>5, FinishFields DEF Blocked, BlockedByRegression, EmitEvent
<1>6. CASE WriteReview(a) \/ WriteAudit(a)
  BY <1>3, <1>6, GoToFields DEF WriteReview, WriteAudit
<1>7. CASE WriteResult(a)
  BY <1>3, <1>7, FinishFields, GoToFields DEF WriteResult
<1>8. CASE PersistStatus(a)
  <2>1. /\ act[a].at = "transition" /\ act[a].target \in Allowed(request[p].status)
        /\ request'[p].status = act[a].target /\ request'[p].from = request[p].from
        /\ UNCHANGED <<active, undo>>
        /\ act'[a].at = IF act[a].target \in {"applied", "rolled_back"} THEN "table" ELSE "review"
    BY <1>1, <1>8, GoToFields DEF PersistStatus, CallInv
  <2>2. act[a].target = "rolled_back" => request[p].status = "applied"
    BY <2>1 DEF Allowed
  <2> QED
    BY <1>2, <2>1, <2>2 DEF WholeInv
<1>9. CASE RollbackWithoutFrom(a)
  BY <1>1, <1>9 DEF RollbackWithoutFrom, CallInv, WholeInv
<1>10. CASE UnknownVersion(a)
  <2>1. act[a].target = "applied" \/ act[a].target = "rolled_back"
    BY <1>1, <1>10 DEF UnknownVersion, StageInv
  <2>2. act[a].from \in Registered \cup {NoVersion}
    BY <1>1, <1>10 DEF UnknownVersion, AtomicInv, Listed
  <2> QED
    BY <1>1, <1>10, <2>1, <2>2 DEF UnknownVersion, NewVersion
<1>11. CASE ReadTable(a)
  <2>1. /\ act[a].at = "table" /\ act'[a].at = "config"
        /\ UNCHANGED <<request, active, undo>>
    BY <1>1, <1>11 DEF ReadTable, Call
  <2> QED
    BY <1>2, <2>1 DEF WholeInv
<1>12. CASE WriteTable(a)
  <2>1. /\ act[a].at = "config" /\ act[a].pub = p /\ request' = request
        /\ request[p].status = act[a].target /\ act[a].from = request[p].from
        /\ active'[s] = NewVersion(a)
        /\ act'[a].at = IF act[a].target = "applied" THEN "from" ELSE "result"
        /\ undo' = IF act[a].target = "applied" THEN [undo EXCEPT ![p] = <<active, active'>>]
                   ELSE undo
    <3>1. act[a].at = "config" /\ act[a].pub = p /\ request' = request
      BY <1>1, <1>12 DEF WriteTable
    <3>2. active'[s] = NewVersion(a)
      BY <1>1, <1>12, <3>1, LoneWrite DEF s
    <3>3. act'[a].at = IF act[a].target = "applied" THEN "from" ELSE "result"
      BY <1>1, <1>12 DEF WriteTable, Call
    <3> QED
      BY <1>1, <1>12, <3>1, <3>2, <3>3 DEF WriteTable, CallInv
  <2>2. CASE act[a].target = "applied"
    <3>1. active'[s] = TargetOf[p] /\ undo'[p] = <<active, active'>>
      BY <1>1, <2>1, <2>2 DEF NewVersion
    <3>2. undo'[p] # <<>>
      BY <3>1
    <3>3. act'[a].at = "from"
      BY <2>1, <2>2
    <3> QED
      BY <1>2, <2>1, <2>2, <3>1, <3>2, <3>3 DEF WholeInv, s
  <2>3. CASE act[a].target = "rolled_back"
    <3>1. active'[s] = request[p].from /\ undo' = undo /\ act'[a].at = "result"
      BY <2>1, <2>3 DEF NewVersion
    <3> QED
      BY <1>2, <2>1, <2>3, <3>1 DEF WholeInv, s
  <2> QED
    BY <1>1, <2>1, <2>2, <2>3 DEF StageInv
<1>13. CASE PersistFrom(a)
  <2>1. /\ act[a].at = "from" /\ act[a].pub = p /\ act[a].target = "applied"
        /\ request[p].status = "applied" /\ request'[p].status = "applied"
        /\ request'[p].from = act[a].before /\ act[a].before # NoVersion
        /\ act'[a].at = "result" /\ UNCHANGED <<active, undo>>
    BY <1>1, <1>13, GoToFields DEF PersistFrom, CallInv
  <2> QED
    BY <1>2, <2>1 DEF WholeInv
<1> QED
  BY <1>4, <1>5, <1>6, <1>7, <1>8, <1>9, <1>10, <1>11, <1>12, <1>13

(* A half-done publish takes a crash: where none has happened, one process  *)
(* that advances one publish between listed versions leaves it whole, and   *)
(* so its report never passes over a half commit.                           *)
THEOREM HalfCommitTakesCrash ==
    ASSUME LoneActor, NEW p, Publish = {p}, {InitialVersion, TargetOf[p]} \subseteq Registered
    PROVE  Spec => [](crashes = 0 => (Quiet => Whole(p)) /\ HalfCommitReported)
<1>1. Init => AtomicInv /\ WholeInv(p)
  BY NoActTyped, PublishAssumption DEF Init, AtomicInv, Listed, StageInv, WholeInv
<1>2. TypeInv /\ OutcomeInv /\ LoneInv /\ AtomicInv /\ [Next]_vars => AtomicInv'
  BY AtomicKept
<1>3. TypeInv /\ OutcomeInv /\ LoneInv /\ AtomicInv /\ (crashes = 0 => WholeInv(p)) /\ [Next]_vars
        => (crashes = 0 => WholeInv(p))'
  <2> SUFFICES ASSUME TypeInv, OutcomeInv, LoneInv, AtomicInv, crashes = 0 => WholeInv(p),
                      [Next]_vars, crashes' = 0
               PROVE  WholeInv(p)'
    OBVIOUS
  <2>1. \A a \in Actor : ~Crash(a)
    BY DEF Crash, TypeInv, PubTypeOK
  <2>2. crashes = 0
    BY <2>1 DEF Next, Create, Load, BlockedByRegression, Blocked, PersistStatus, WriteReview,
       RollbackWithoutFrom, UnknownVersion, ReadTable, WriteTable, PersistFrom, WriteResult,
       WriteAudit, EmitEvent, vars
  <2>3. CASE UNCHANGED vars
    BY <2>2, <2>3 DEF WholeInv, Between, vars, artifacts
  <2>4. ASSUME NEW q \in Publish, Create(q) PROVE WholeInv(p)'
    <3>1. /\ request[p].status = "absent" /\ request'[p].status = "proposed"
          /\ UNCHANGED <<active, act, undo>>
      BY <2>4 DEF Create, TypeInv, PubTypeOK
    <3> QED
      BY <2>2, <3>1 DEF WholeInv, Between
  <2> QED
    BY <2>1, <2>2, <2>3, <2>4, StepWhole DEF Next
<1>4. ASSUME TypeInv, LoneInv, ReportInv, WholeInv(p) PROVE (Quiet => Whole(p)) /\ HalfCommitReported
  <2>1. ASSUME Quiet PROVE Whole(p)
    <3>1. ~Between({"table", "config"})
      BY <2>1 DEF Quiet, Between
    <3>2. TargetOf[p] # NoVersion /\ UndoInv(p)
      BY <1>4, PublishAssumption DEF LoneInv
    <3>3. request[p].status = "applied" => Effective(active, ScopeOf[p]) = TargetOf[p]
      BY <1>4, <3>1, <3>2 DEF WholeInv, Effective
    <3>4. ASSUME request[p].status = "rolled_back", AsApplied(p), Changed(p) PROVE FALSE
      <4>1. active[ScopeOf[p]] = request[p].from /\ request[p].from # NoVersion /\ undo[p] # <<>>
        BY <1>4, <3>1, <3>4 DEF WholeInv
      <4>2. active[ScopeOf[p]] = TargetOf[p] /\ Replaced(p) # TargetOf[p]
        BY <1>4, <3>4, <4>1 DEF ReportInv, AsApplied, Changed
      <4> QED
        BY <3>2, <4>1, <4>2 DEF UndoInv, Replaced
    <3> QED
      BY <3>3, <3>4 DEF Whole
  <2>2. HalfCommitReported
    <3> SUFFICES ASSUME Quiet, result.pub = p,
                        \/ request[p].status = "applied" /\ CurrentVersion(p) # TargetOf[p]
                        \/ request[p].status = "rolled_back" /\ AsApplied(p) /\ Changed(p)
                 PROVE  FALSE
      BY DEF HalfCommitReported
    <3>1. Subject(p) = p
      BY PublishAssumption DEF Subject
    <3> QED
      BY <2>1, <3>1 DEF Whole, CurrentVersion
  <2> QED
    BY <2>1, <2>2
<1> QED
  BY <1>1, <1>2, <1>3, <1>4, ReportInvariance, PTL DEF Spec

=========================================================================
