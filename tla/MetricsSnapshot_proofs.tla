----------------------- MODULE MetricsSnapshot_proofs -----------------------
(***************************************************************************)
(* Proofs about what a snapshot counts, for every log and every directory. *)
(***************************************************************************)
EXTENDS MetricsSnapshot, FiniteSetTheorems, TLAPS

(* Induction in the form of sets, which the provers can instantiate.        *)
LEMMA LeastNumber ==
    ASSUME NEW T \in SUBSET Nat, T # {}
    PROVE  \E n \in T : \A m \in T : n <= m
<1> DEFINE R == OpToRel(<, Nat)
<1>1. IsWellFoundedOn(R, Nat)
  BY NatLessThanWellFounded
<1>2. \A x, y \in Nat : y < x => <<y, x>> \in R
  BY DEF OpToRel
<1> HIDE DEF R
<1>3. PICK x \in T : \A y \in T : ~ (<<y, x>> \in R)
  BY <1>1, WFMin
<1>4. ASSUME NEW y \in T PROVE x <= y
  <2>1. ~ (<<y, x>> \in R)
    BY <1>3
  <2> QED
    BY <1>2, <2>1
<1> QED
  BY <1>4

LEMMA NumbersByInduction ==
    ASSUME NEW T, 0 \in T, \A n \in Nat : n \in T => n + 1 \in T
    PROVE  Nat \subseteq T
<1> SUFFICES ASSUME Nat \ T # {} PROVE FALSE
  OBVIOUS
<1>1. PICK n \in Nat \ T : \A m \in Nat \ T : n <= m
  BY LeastNumber
<1>2. n - 1 \in Nat /\ n - 1 \in T
  BY <1>1
<1> QED
  BY <1>1, <1>2

-----------------------------------------------------------------------------
(* The lines kept.                                                          *)

\* What the loop of _dedupe_events does with line n.
KeepLine(lines, kept, n) ==
    IF Marks(lines[n]) \cap MarksAt(lines, kept) # {} THEN kept ELSE kept \cup {n}

(* The recursion is defined at every line.                                  *)
LEMMA KeptDefined ==
    ASSUME NEW lines, Len(lines) \in Nat
    PROVE  KeptUpTo(lines) =
             [n \in 0 .. Len(lines) |->
                IF n = 0 THEN {} ELSE KeepLine(lines, KeptUpTo(lines)[n - 1], n)]
<1> DEFINE Loop(f, k) == [n \in 0 .. k |-> IF n = 0 THEN {} ELSE KeepLine(lines, f[n - 1], n)]
           T == {k \in Nat : \E f : f = Loop(f, k)}
<1>1. 0 \in T
  <2>1. [n \in 0 .. 0 |-> {}] = Loop([n \in 0 .. 0 |-> {}], 0)
    OBVIOUS
  <2> QED
    BY <2>1
<1>2. ASSUME NEW k \in Nat, k \in T PROVE k + 1 \in T
  <2>1. PICK f : f = Loop(f, k)
    BY <1>2
  <2> DEFINE g == [n \in 0 .. k + 1 |-> IF n = k + 1 THEN KeepLine(lines, f[k], k + 1) ELSE f[n]]
  <2>2. \A n \in 0 .. k : g[n] = f[n]
    OBVIOUS
  <2>3. \A n \in 0 .. k : f[n] = IF n = 0 THEN {} ELSE KeepLine(lines, f[n - 1], n)
    BY <2>1
  <2>4. ASSUME NEW n \in 0 .. k + 1
        PROVE  g[n] = IF n = 0 THEN {} ELSE KeepLine(lines, g[n - 1], n)
    <3>1. CASE n = k + 1
      BY <2>2, <3>1
    <3>2. CASE n \in 0 .. k
      <4>1. n = 0 \/ n - 1 \in 0 .. k
        BY <3>2
      <4> QED
        BY <2>2, <2>3, <3>2, <4>1
    <3> QED
      BY <3>1, <3>2
  <2>5. g = Loop(g, k + 1)
    BY <2>4
  <2> HIDE DEF g
  <2>6. \E h : h = Loop(h, k + 1)
    BY <2>5
  <2> QED
    BY <2>6
<1>3. Len(lines) \in T
  <2> HIDE DEF T
  <2> QED BY <1>1, <1>2, NumbersByInduction
<1>4. \E f : f = Loop(f, Len(lines))
  BY <1>3
<1> QED
  BY <1>4 DEF KeptUpTo, KeepLine

(* What is kept of the first n lines: some of their positions; for every    *)
(* line, one with a mark of it; and no two that share a mark.               *)
Sifted(lines, kept, n) ==
    /\ kept \subseteq 1 .. n
    /\ \A i \in 1 .. n : \E j \in kept : Marks(lines[i]) \cap Marks(lines[j]) # {}
    /\ \A i, j \in kept : i # j => Marks(lines[i]) \cap Marks(lines[j]) = {}

LEMMA KeepLineSifts ==
    ASSUME NEW lines, NEW kept, NEW n \in Nat, Sifted(lines, kept, n)
    PROVE  Sifted(lines, KeepLine(lines, kept, n + 1), n + 1)
<1>1. Marks(lines[n + 1]) # {}
  BY DEF Marks
<1>2. CASE Marks(lines[n + 1]) \cap MarksAt(lines, kept) # {}
  <2>1. KeepLine(lines, kept, n + 1) = kept
    BY <1>2 DEF KeepLine
  <2>2. \E j \in kept : Marks(lines[n + 1]) \cap Marks(lines[j]) # {}
    BY <1>2 DEF MarksAt
  <2>3. kept \subseteq 1 .. n + 1
    BY DEF Sifted
  <2>4. ASSUME NEW i \in 1 .. n + 1
        PROVE  \E j \in kept : Marks(lines[i]) \cap Marks(lines[j]) # {}
    BY <2>2 DEF Sifted
  <2>5. \A i, j \in kept : i # j => Marks(lines[i]) \cap Marks(lines[j]) = {}
    BY DEF Sifted
  <2> QED
    BY <2>1, <2>3, <2>4, <2>5 DEF Sifted
<1>3. CASE Marks(lines[n + 1]) \cap MarksAt(lines, kept) = {}
  <2>1. KeepLine(lines, kept, n + 1) = kept \cup {n + 1}
    BY <1>3 DEF KeepLine
  <2>2. \A j \in kept : Marks(lines[n + 1]) \cap Marks(lines[j]) = {}
    BY <1>3 DEF MarksAt
  <2>3. kept \cup {n + 1} \subseteq 1 .. n + 1
    BY DEF Sifted
  <2>4. ASSUME NEW i \in 1 .. n + 1
        PROVE  \E j \in kept \cup {n + 1} : Marks(lines[i]) \cap Marks(lines[j]) # {}
    BY <1>1 DEF Sifted
  <2>5. ASSUME NEW i \in kept \cup {n + 1}, NEW j \in kept \cup {n + 1}, i # j
        PROVE  Marks(lines[i]) \cap Marks(lines[j]) = {}
    BY <2>2, <2>5 DEF Sifted
  <2> QED
    BY <2>1, <2>3, <2>4, <2>5 DEF Sifted
<1> QED
  BY <1>2, <1>3

LEMMA KeptSifted ==
    ASSUME NEW lines, Len(lines) \in Nat
    PROVE  Sifted(lines, KeptUpTo(lines)[Len(lines)], Len(lines))
<1> DEFINE T == {n \in Nat : n <= Len(lines) => Sifted(lines, KeptUpTo(lines)[n], n)}
<1>1. 0 \in T
  <2>1. KeptUpTo(lines)[0] = {}
    BY KeptDefined
  <2> QED
    BY <2>1 DEF Sifted
<1>2. ASSUME NEW n \in Nat, n \in T PROVE n + 1 \in T
  <2>1. CASE n + 1 <= Len(lines)
    <3>1. KeptUpTo(lines)[n + 1] = KeepLine(lines, KeptUpTo(lines)[n], n + 1)
      BY <2>1, KeptDefined
    <3>2. Sifted(lines, KeptUpTo(lines)[n], n)
      BY <1>2, <2>1
    <3> QED
      BY <3>1, <3>2, KeepLineSifts
  <2> QED
    BY <2>1
<1>3. Len(lines) \in T
  <2> HIDE DEF T
  <2> QED
    BY <1>1, <1>2, NumbersByInduction
<1> QED
  BY <1>3

LEMMA KeptLines ==
    ASSUME NEW lines, Len(lines) \in Nat
    PROVE  LET kept == DOMAIN Kept(lines)
           IN  /\ Sifted(lines, kept, Len(lines)) /\ IsFiniteSet(kept)
               /\ \A i \in kept : i \in 1 .. Len(lines) /\ Kept(lines)[i] = lines[i]
<1> DEFINE kept == KeptUpTo(lines)[Len(lines)]
<1>1. Sifted(lines, kept, Len(lines))
  BY KeptSifted
<1> HIDE DEF kept
<1>2. DOMAIN Kept(lines) = kept /\ \A i \in kept : Kept(lines)[i] = lines[i]
  BY DEF Kept, Restrict, kept
<1>3. kept \subseteq 1 .. Len(lines)
  BY <1>1 DEF Sifted
<1>4. IsFiniteSet(kept)
  <2>1. 1 \in Int /\ Len(lines) \in Int
    OBVIOUS
  <2>2. IsFiniteSet(1 .. Len(lines))
    BY <2>1, FS_Interval
  <2> QED
    BY <1>3, <2>2, FS_Subset
<1> QED
  BY <1>1, <1>2, <1>3, <1>4

-----------------------------------------------------------------------------
(* Counting.                                                                *)

Raising(items, k) == {i \in DOMAIN items : Raises(items[i], k)}

LEMMA TallyCounts ==
    ASSUME NEW items, IsFiniteSet(DOMAIN items), NEW k
    PROVE  /\ IsFiniteSet(Raising(items, k))
           /\ Tally(items, k) = Cardinality(Raising(items, k))
           /\ Tally(items, k) \in Nat
           /\ Tally(items, k) > 0 <=> \E i \in DOMAIN items : Raises(items[i], k)
<1>1. Raising(items, k) \in SUBSET DOMAIN items
  BY DEF Raising
<1>2. IsFiniteSet(Raising(items, k))
  BY <1>1, FS_Subset
<1>3. Tally(items, k) = Cardinality(Raising(items, k))
  BY DEF Tally, Raising
<1>4. Tally(items, k) \in Nat
  BY <1>2, <1>3, FS_CardinalityType
<1>5. Tally(items, k) = 0 <=> Raising(items, k) = {}
  BY <1>2, <1>3, FS_EmptySet
<1>6. Raising(items, k) = {} <=> ~ \E i \in DOMAIN items : Raises(items[i], k)
  BY DEF Raising
<1> QED
  BY <1>2, <1>3, <1>4, <1>5, <1>6

LEMMA DisjointSetsAddUp ==
    ASSUME NEW S, NEW T, IsFiniteSet(S), IsFiniteSet(T), S \cap T = {}
    PROVE  Cardinality(S \cup T) = Cardinality(S) + Cardinality(T)
<1>1. Cardinality(S \cup T) = Cardinality(S) + Cardinality(T) - Cardinality(S \cap T)
  BY FS_Union
<1>2. Cardinality(S \cap T) = 0
  BY FS_EmptySet
<1>3. Cardinality(S) \in Nat /\ Cardinality(T) \in Nat
  BY FS_CardinalityType
<1> QED
  BY <1>1, <1>2, <1>3

(* Counters of an item, restricted to the items of one scope or of several. *)
InScopes(items, scopes, k) == {i \in Raising(items, k) : items[i].scope \in scopes}

LEMMA TallyInScope ==
    ASSUME NEW items, NEW scope, NEW k
    PROVE  Tally(InScope(items, scope), k) = Cardinality(InScopes(items, {scope}, k))
<1> DEFINE part == InScope(items, scope)
<1>1. /\ DOMAIN part = {i \in DOMAIN items : items[i].scope = scope}
      /\ \A i \in DOMAIN part : part[i] = items[i]
  BY DEF InScope, Restrict
<1>2. Raising(part, k) = InScopes(items, {scope}, k)
  BY <1>1 DEF Raising, InScopes
<1> QED
  BY <1>2 DEF Tally, Raising

(* The sum over a finite set of scopes of the items counted in each one is  *)
(* the number of items counted in all of them.                              *)
LEMMA SumOverScopes ==
    ASSUME NEW items, IsFiniteSet(DOMAIN items), NEW k, NEW scopes, IsFiniteSet(scopes),
           NEW split, \A s \in scopes : split[s][k] = Cardinality(InScopes(items, {s}, k)),
           DOMAIN split = scopes
    PROVE  OverScopes(split, k) = Cardinality(InScopes(items, scopes, k))
<1> DEFINE count(S) == Cardinality(InScopes(items, S, k))
           Equation(sum) == sum = [S \in SUBSET scopes |->
                              IF S = {} THEN 0
                              ELSE split[CHOOSE s \in S : TRUE][k]
                                   + sum[S \ {CHOOSE s \in S : TRUE}]]
           sum == CHOOSE f : Equation(f)
<1>1. OverScopes(split, k) = sum[scopes]
  BY DEF OverScopes, MapThenSumSet, MapThenFoldSet
<1>2. ASSUME NEW S \in SUBSET scopes
      PROVE  IsFiniteSet(S) /\ IsFiniteSet(InScopes(items, S, k)) /\ count(S) \in Nat
  <2>1. IsFiniteSet(Raising(items, k)) /\ InScopes(items, S, k) \in SUBSET Raising(items, k)
    BY TallyCounts DEF InScopes
  <2>2. IsFiniteSet(InScopes(items, S, k))
    BY <2>1, FS_Subset
  <2> QED
    BY <2>2, FS_CardinalityType, FS_Subset
<1>3. count({}) = 0
  <2>1. InScopes(items, {}, k) = {}
    BY DEF InScopes
  <2> QED
    BY <2>1, FS_EmptySet
<1>4. ASSUME NEW S \in SUBSET scopes, NEW s \in S
      PROVE  count(S) = split[s][k] + count(S \ {s})
  <2> DEFINE one == InScopes(items, {s}, k)
             rest == InScopes(items, S \ {s}, k)
  <2>1. IsFiniteSet(one) /\ IsFiniteSet(rest) /\ count({s}) \in Nat /\ count(S \ {s}) \in Nat
    BY <1>2
  <2>2. InScopes(items, S, k) = one \cup rest /\ one \cap rest = {}
    BY DEF InScopes
  <2>3. split[s][k] = Cardinality(one)
    OBVIOUS
  <2> HIDE DEF one, rest
  <2>4. Cardinality(one \cup rest) = Cardinality(one) + Cardinality(rest)
    BY <2>1, <2>2, DisjointSetsAddUp
  <2>5. count(S) = Cardinality(one) + Cardinality(rest)
    BY <2>2, <2>4
  <2> QED
    BY <2>3, <2>5 DEF rest
<1>5. Equation(sum)
  <2> DEFINE g == [S \in SUBSET scopes |-> count(S)]
  <2> HIDE DEF count
  <2>1. ASSUME NEW S \in SUBSET scopes, S # {}
        PROVE  g[S] = split[CHOOSE s \in S : TRUE][k] + g[S \ {CHOOSE s \in S : TRUE}]
    <3>1. PICK s \in S : s = CHOOSE x \in S : TRUE
      BY <2>1
    <3>2. S \ {s} \in SUBSET scopes
      OBVIOUS
    <3>3. g[S] = count(S) /\ g[S \ {s}] = count(S \ {s})
      BY <3>2
    <3>4. count(S) = split[s][k] + count(S \ {s})
      BY <1>4
    <3> QED
      BY <3>1, <3>3, <3>4
  <2>2. g[{}] = 0
    BY <1>3
  <2>3. Equation(g)
    BY <2>1, <2>2
  <2> HIDE DEF g, Equation
  <2>4. \E f : Equation(f)
    BY <2>3
  <2> QED
    BY <2>4
<1> DEFINE T == {n \in Nat : \A S \in SUBSET scopes : Cardinality(S) = n => sum[S] = count(S)}
<1>6. sum[{}] = 0 /\ \A S \in SUBSET scopes : S # {} =>
        sum[S] = split[CHOOSE s \in S : TRUE][k] + sum[S \ {CHOOSE s \in S : TRUE}]
  <2> HIDE DEF sum
  <2> QED
    BY <1>5
<1> HIDE DEF sum, count
<1>7. 0 \in T
  <2> SUFFICES ASSUME NEW S \in SUBSET scopes, Cardinality(S) = 0 PROVE sum[S] = count(S)
    OBVIOUS
  <2>1. S = {}
    BY <1>2, FS_EmptySet
  <2> QED
    BY <1>3, <1>6, <2>1
<1>8. ASSUME NEW n \in Nat, n \in T PROVE n + 1 \in T
  <2> SUFFICES ASSUME NEW S \in SUBSET scopes, Cardinality(S) = n + 1 PROVE sum[S] = count(S)
    OBVIOUS
  <2>1. S # {}
    BY FS_EmptySet
  <2>2. PICK s \in S : s = CHOOSE x \in S : TRUE
    BY <2>1
  <2>3. Cardinality(S \ {s}) = n /\ S \ {s} \in SUBSET scopes
    <3>1. IsFiniteSet(S)
      BY <1>2
    <3>2. Cardinality(S \ {s}) = Cardinality(S) - 1
      BY <3>1, FS_RemoveElement
    <3> QED
      BY <3>2
  <2>4. sum[S \ {s}] = count(S \ {s})
    BY <1>8, <2>3
  <2>5. sum[S] = split[s][k] + sum[S \ {s}]
    BY <1>6, <2>1, <2>2
  <2> QED
    BY <1>4, <2>4, <2>5
<1>9. Cardinality(scopes) \in T
  <2>1. Cardinality(scopes) \in Nat
    BY FS_CardinalityType
  <2> HIDE DEF T
  <2> QED
    BY <1>7, <1>8, <2>1, NumbersByInduction
<1> QED
  BY <1>1, <1>9 DEF count

LEMMA ScopesFinite ==
    ASSUME NEW items, IsFiniteSet(DOMAIN items)
    PROVE  IsFiniteSet(Scopes(items))
<1> DEFINE f == [i \in DOMAIN items |-> items[i].scope]
<1>1. f \in Surjection(DOMAIN items, Scopes(items))
  BY DEF Surjection, Scopes
<1> HIDE DEF f
<1> QED
  BY <1>1, FS_Surjection

-----------------------------------------------------------------------------
(* What a snapshot of any log and any directory reports.                    *)

Source(lines, files, fallback, k) ==
    IF fallback /\ k[1] \in Supplemented(Kept(lines), files) THEN files ELSE Kept(lines)

(* A counter is taken from one source, and split over the scopes of both.   *)
LEMMA SnapshotOfSource ==
    ASSUME NEW lines, Len(lines) \in Nat, NEW files, IsFiniteSet(DOMAIN files),
           NEW fallback \in BOOLEAN, NEW k \in Counter
    PROVE  LET s   == Snapshot(lines, files, fallback)
               src == Source(lines, files, fallback, k)
           IN  /\ IsFiniteSet(DOMAIN src)
               /\ s.metrics[k] = Tally(src, k)
               /\ IsFiniteSet(DOMAIN s.by_scope)
               /\ Scopes(src) \subseteq DOMAIN s.by_scope
               /\ \A scope \in DOMAIN s.by_scope :
                     s.by_scope[scope][k] = Cardinality(InScopes(src, {scope}, k))
<1> DEFINE kept   == Kept(lines)
           added  == IF fallback THEN Supplemented(kept, files) ELSE {}
           scopes == Scopes(kept) \cup (IF added = {} THEN {} ELSE Scopes(files))
           src    == Source(lines, files, fallback, k)
           s      == Snapshot(lines, files, fallback)
           splitOf(scope) == Pick(added, InScope(files, scope), InScope(kept, scope))
<1>1. IsFiniteSet(DOMAIN kept) /\ IsFiniteSet(DOMAIN src)
  BY KeptLines DEF Source
<1>2. src = IF k[1] \in added THEN files ELSE kept
  BY DEF Source
<1>3. /\ s.metrics = Pick(added, files, kept)
      /\ s.by_scope = [scope \in scopes |-> splitOf(scope)]
  BY DEF Snapshot
<1> HIDE DEF kept, added, src, s
<1>4. IsFiniteSet(scopes)
  BY <1>1, ScopesFinite, FS_Union, FS_EmptySet
<1>5. Scopes(src) \subseteq scopes
  BY <1>2
<1> HIDE DEF scopes
<1>6. s.metrics[k] = Tally(src, k)
  BY <1>2, <1>3 DEF Pick
<1>7. \A scope \in scopes : splitOf(scope)[k] = Tally(InScope(src, scope), k)
  BY <1>2 DEF Pick
<1> HIDE DEF splitOf
<1>8. DOMAIN s.by_scope = scopes /\ \A scope \in scopes : s.by_scope[scope] = splitOf(scope)
  BY <1>3
<1>9. \A scope \in DOMAIN s.by_scope :
         s.by_scope[scope][k] = Cardinality(InScopes(src, {scope}, k))
  BY <1>7, <1>8, TallyInScope
<1> QED
  BY <1>1, <1>4, <1>5, <1>6, <1>8, <1>9 DEF s, src

(* Every counter of a snapshot is the sum of its scopes' counters.          *)
THEOREM CountersAddUp ==
    ASSUME NEW lines, Len(lines) \in Nat, NEW files, IsFiniteSet(DOMAIN files),
           NEW fallback \in BOOLEAN, NEW k \in Counter
    PROVE  LET s == Snapshot(lines, files, fallback)
           IN  s.metrics[k] = OverScopes(s.by_scope, k)
<1> DEFINE s      == Snapshot(lines, files, fallback)
           src    == Source(lines, files, fallback, k)
           scopes == DOMAIN s.by_scope
<1>1. /\ IsFiniteSet(DOMAIN src) /\ s.metrics[k] = Tally(src, k)
      /\ IsFiniteSet(scopes) /\ Scopes(src) \subseteq scopes
      /\ \A scope \in scopes : s.by_scope[scope][k] = Cardinality(InScopes(src, {scope}, k))
  BY SnapshotOfSource
<1> HIDE DEF s, src
<1>2. OverScopes(s.by_scope, k) = Cardinality(InScopes(src, scopes, k))
  BY <1>1, SumOverScopes
<1>3. InScopes(src, scopes, k) = Raising(src, k)
  BY <1>1 DEF InScopes, Raising, Scopes
<1> QED
  BY <1>1, <1>2, <1>3, TallyCounts DEF s

(* No quality rate of a snapshot exceeds one.                               *)
THEOREM RatesAreRatios ==
    ASSUME NEW lines, Len(lines) \in Nat, NEW files, IsFiniteSet(DOMAIN files),
           NEW fallback \in BOOLEAN
    PROVE  LET q == Quality(Snapshot(lines, files, fallback).metrics)
           IN  \A rate \in DOMAIN q : q[rate][1] <= q[rate][2]
<1> DEFINE m == Snapshot(lines, files, fallback).metrics
           src(k) == Source(lines, files, fallback, k)
           attempt(status) == <<"runtime_recovery_attempt", status>>
           degraded(status) == <<"runtime_event_log_degradation", status>>
<1>1. \A k \in Counter : IsFiniteSet(DOMAIN src(k)) /\ m[k] = Tally(src(k), k) /\ m[k] \in Nat
  BY SnapshotOfSource, TallyCounts
<1>2. /\ \A status \in AttemptOutcome \cup {"total"} : attempt(status) \in Counter
      /\ \A status \in QueueStatus : degraded(status) \in Counter
  BY DEF Counter
<1>3. ASSUME NEW status \in AttemptOutcome PROVE m[attempt(status)] <= m[attempt("total")]
  <2>1. src(attempt(status)) = src(attempt("total"))
    BY DEF Source
  <2>2. Raising(src(attempt("total")), attempt(status)) \subseteq
          Raising(src(attempt("total")), attempt("total"))
    BY DEF Raising, Raises
  <2>3. IsFiniteSet(DOMAIN src(attempt("total")))
    BY <1>1, <1>2
  <2> QED
    BY <1>1, <1>2, <2>1, <2>2, <2>3, TallyCounts, FS_Subset
<1> HIDE DEF m
<1>4. /\ m[attempt("success")] <= m[attempt("total")]
      /\ m[attempt("manual_required")] <= m[attempt("total")]
  BY <1>3 DEF AttemptOutcome
<1>5. \A status \in QueueStatus : m[degraded(status)] \in Nat
  BY <1>1, <1>2
<1>6. Quality(m) = [ recovery_rate            |-> <<m[attempt("success")], m[attempt("total")]>>,
                     manual_intervention_rate |->
                       <<m[attempt("manual_required")], m[attempt("total")]>>,
                     abandonment_rate         |->
                       <<m[degraded("abandoned")],
                         m[degraded("queued")] + (m[degraded("replayed")]
                           + m[degraded("replay_failed")] + m[degraded("abandoned")])>>,
                     replay_success_rate      |->
                       <<m[degraded("replayed")], m[degraded("replayed")]
                           + m[degraded("replay_failed")] + m[degraded("abandoned")]>> ]
  BY DEF Quality
<1> HIDE DEF attempt, degraded
<1>7. \A rate \in DOMAIN Quality(m) : Quality(m)[rate][1] <= Quality(m)[rate][2]
  BY <1>4, <1>5, <1>6 DEF QueueStatus
<1> QED
  BY <1>7 DEF m

OfKind(lines, kind) == {i \in 1 .. Len(lines) : lines[i].kind = kind}

(* The marks tell the lines of a kind by their ids.                         *)
ToldById(lines, kind) ==
    \A i \in OfKind(lines, kind), j \in 1 .. Len(lines) :
       Marks(lines[i]) \cap Marks(lines[j]) # {}
          <=> j \in OfKind(lines, kind) /\ lines[i].id = lines[j].id

(* Where the marks tell the lines of a kind by their ids, the total of that *)
(* kind is its number of ids, however often each is in the log.             *)
THEOREM TotalsCountIds ==
    ASSUME NEW lines, Len(lines) \in Nat, NEW files, NEW fallback \in BOOLEAN,
           NEW kind, <<kind, "total">> \in Counter, OfKind(lines, kind) # {},
           ToldById(lines, kind)
    PROVE  Snapshot(lines, files, fallback).metrics[<<kind, "total">>]
             = Cardinality({lines[i].id : i \in OfKind(lines, kind)})
<1> DEFINE of    == OfKind(lines, kind)
           k     == <<kind, "total">>
           kept  == DOMAIN Kept(lines)
           ids   == {lines[i].id : i \in of}
           idOf  == [i \in kept \cap of |-> lines[i].id]
<1>1. /\ Sifted(lines, kept, Len(lines)) /\ IsFiniteSet(kept)
      /\ \A i \in kept : i \in 1 .. Len(lines) /\ Kept(lines)[i] = lines[i]
  BY KeptLines
<1>2. Raising(Kept(lines), k) = kept \cap of
  BY <1>1 DEF Raising, Raises, OfKind
<1>3. ASSUME NEW i \in of PROVE \E j \in kept \cap of : lines[j].id = lines[i].id
  <2>1. PICK j \in kept : Marks(lines[i]) \cap Marks(lines[j]) # {}
    BY <1>1 DEF Sifted, OfKind
  <2> QED
    BY <1>1, <2>1 DEF ToldById
<1>4. ASSUME NEW i \in kept \cap of, NEW j \in kept \cap of, lines[i].id = lines[j].id PROVE i = j
  <2>1. Marks(lines[i]) \cap Marks(lines[j]) # {}
    BY <1>1, <1>4 DEF ToldById
  <2>2. \A x, y \in kept : x # y => Marks(lines[x]) \cap Marks(lines[y]) = {}
    BY <1>1 DEF Sifted
  <2> QED
    BY <2>1, <2>2
<1>5. idOf \in Bijection(kept \cap of, ids)
  <2>1. idOf \in Surjection(kept \cap of, ids)
    BY <1>3 DEF Surjection
  <2>2. idOf \in Injection(kept \cap of, ids)
    <3>1. idOf \in [kept \cap of -> ids]
      OBVIOUS
    <3>2. \A i, j \in kept \cap of : idOf[i] = idOf[j] => i = j
      BY <1>4
    <3> HIDE DEF idOf
    <3> QED
      BY <3>1, <3>2 DEF Injection, IsInjective
  <2> QED
    BY <2>1, <2>2 DEF Bijection
<1>6. Cardinality(kept \cap of) = Cardinality(ids)
  <2>1. IsFiniteSet(kept \cap of)
    BY <1>1, FS_Intersection
  <2> HIDE DEF idOf
  <2>2. ExistsBijection(kept \cap of, ids)
    BY <1>5 DEF ExistsBijection
  <2> QED
    BY <2>1, <2>2, FS_Bijection
<1>7. Tally(Kept(lines), k) = Cardinality(ids)
  BY <1>2, <1>6 DEF Tally, Raising
<1>8. kind \notin Supplemented(Kept(lines), files)
  <2>1. PICK j \in kept : Kept(lines)[j].kind = kind
    BY <1>1, <1>3 DEF OfKind
  <2> QED
    BY <2>1 DEF Supplemented
<1>9. Snapshot(lines, files, fallback).metrics[k] = Tally(Kept(lines), k)
  BY <1>8 DEF Snapshot, Pick
<1> QED
  BY <1>7, <1>9
=============================================================================
