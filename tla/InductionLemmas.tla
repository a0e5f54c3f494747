-------------------------- MODULE InductionLemmas ---------------------------
(***************************************************************************)
(* Induction as facts about sets, where a set takes the place of the       *)
(* predicate: over the natural numbers, with the functions defined by      *)
(* recursion along them, and over the nodes of a graph, with the function  *)
(* that gathers what lies below each; and what follows for the operators   *)
(* of ResourceGraph.                                                       *)
(***************************************************************************)
EXTENDS ResourceGraph, Naturals, FiniteSetTheorems, TLAPS

(* A nonempty family of subsets of a finite set has a smallest one. *)
LEMMA SmallestExists ==
    ASSUME NEW D, IsFiniteSet(D), NEW T, T \subseteq SUBSET D, T # {}
    PROVE  \E m \in T : \A u \in T : u \subseteq m => u = m
<1>1. IsWellFoundedOn(StrictSubsetOrdering(D), FiniteSubsetsOf(D))
  BY FS_StrictSubsetOrderingWellFounded
<1>2. T \subseteq FiniteSubsetsOf(D) BY FS_Subset DEF FiniteSubsetsOf
<1>3. PICK m \in T : \A u \in T : <<u, m>> \notin StrictSubsetOrdering(D)
  BY <1>1, <1>2, WFMin
<1> QED BY <1>3 DEF StrictSubsetOrdering

(* A nonempty finite set of natural numbers has a least one: of the initial *)
(* segments that end in it, take a minimal one.                            *)
LEMMA LeastExists ==
    ASSUME NEW S, S \subseteq Nat, IsFiniteSet(S), S # {}
    PROVE  \E x \in S : \A y \in S : x <= y
<1> DEFINE Upto(x) == {y \in S : y <= x}
           T == {Upto(x) : x \in S}
<1>1. IsWellFoundedOn(StrictSubsetOrdering(S), FiniteSubsetsOf(S))
  BY FS_StrictSubsetOrderingWellFounded
<1>2. T \subseteq FiniteSubsetsOf(S) /\ T # {}
  <2>1. ASSUME NEW x \in S PROVE Upto(x) \in FiniteSubsetsOf(S)
    BY FS_Subset DEF FiniteSubsetsOf
  <2> QED BY <2>1
<1>3. PICK m \in T : \A u \in T : <<u, m>> \notin StrictSubsetOrdering(S)
  <2> HIDE DEF T
  <2> QED BY <1>1, <1>2, WFMin
<1>4. PICK x \in S : m = Upto(x) OBVIOUS
<1>5. ASSUME NEW y \in S PROVE x <= y
  <2>1. SUFFICES ASSUME y < x PROVE FALSE OBVIOUS
  <2>2. \A z \in S : (z <= y => z <= x) /\ z <= z BY <2>1
  <2>3. ~(x <= y) BY <2>1
  <2>4. Upto(y) \subseteq Upto(x) /\ x \in Upto(x) /\ x \notin Upto(y) BY <2>2, <2>3
  <2>5. <<Upto(y), m>> \in StrictSubsetOrdering(S)
    BY <1>4, <2>4 DEF StrictSubsetOrdering
  <2> QED BY <1>3, <2>5
<1> HIDE DEF T, Upto
<1> QED BY <1>5

(* Induction up to k, for a set of numbers in the place of a predicate. *)
LEMMA SegmentInduction ==
    ASSUME NEW k \in Nat, NEW S, 0 \in S, \A n \in 1..k : n - 1 \in S => n \in S
    PROVE  0..k \subseteq S
<1> DEFINE Bad == (0..k) \ S
<1> SUFFICES ASSUME Bad # {} PROVE FALSE OBVIOUS
<1>1. Bad \subseteq Nat /\ IsFiniteSet(Bad)
  <2>1. IsFiniteSet(0..k) BY FS_Interval
  <2> QED BY <2>1, FS_Subset
<1>2. PICK m \in Bad : \A y \in Bad : m <= y
  <2> HIDE DEF Bad
  <2> QED BY <1>1, LeastExists
<1>3. m \in 0..k /\ m \notin S /\ m # 0 OBVIOUS
<1>4. m \in 1..k /\ m - 1 \in 0..k /\ ~(m <= m - 1) BY <1>3
<1>5. m - 1 \notin Bad BY <1>2, <1>4
<1> QED BY <1>3, <1>4, <1>5

(* A function defined by recursion over 0..k from v0, with the step g. *)
Steps(k, V) == [(1..k) \X V -> V]

RecursionTo(k, V, v0, g) ==
    \E f \in [0..k -> V] : f[0] = v0 /\ \A n \in 1..k : f[n] = g[<<n, f[n - 1]>>]

(* There is one. *)
LEMMA RecursionExists ==
    ASSUME NEW k \in Nat, NEW V, NEW v0 \in V, NEW g \in Steps(k, V)
    PROVE  RecursionTo(k, V, v0, g)
<1> DEFINE Upto(j) == RecursionTo(j, V, v0, g)
           S == {j \in 0..k : Upto(j)}
<1>1. 0 \in S
  <2> DEFINE f == [n \in 0..0 |-> v0]
  <2>1. f \in [0..0 -> V] /\ f[0] = v0 OBVIOUS
  <2>2. \A n \in 1..0 : FALSE OBVIOUS
  <2> HIDE DEF f
  <2>3. Upto(0) BY <2>1, <2>2 DEF RecursionTo
  <2> QED BY <2>3
<1>2. ASSUME NEW j \in 1..k, j - 1 \in S PROVE j \in S
  <2>1. PICK f \in [0..(j - 1) -> V] :
            f[0] = v0 /\ \A n \in 1..(j - 1) : f[n] = g[<<n, f[n - 1]>>]
    BY <1>2 DEF RecursionTo
  <2> DEFINE h == [n \in 0..j |-> IF n = j THEN g[<<j, f[j - 1]>>] ELSE f[n]]
  <2>2. j - 1 \in 0..(j - 1) /\ \A n \in 0..j : n # j => n \in 0..(j - 1) OBVIOUS
  <2>3. g[<<j, f[j - 1]>>] \in V BY <2>1, <2>2 DEF Steps
  <2>4. h \in [0..j -> V] BY <2>1, <2>2, <2>3
  <2>5. h[0] = v0
    <3>1. 0 \in 0..j /\ j # 0 /\ f[0] = v0 BY <2>1
    <3> QED BY <3>1
  <2>6. ASSUME NEW n \in 1..j PROVE h[n] = g[<<n, h[n - 1]>>]
    <3>1. n - 1 \in 0..j /\ n - 1 # j /\ h[n - 1] = f[n - 1] OBVIOUS
    <3>2. CASE n = j BY <3>1, <3>2
    <3>3. CASE n # j
      <4>1. n \in 1..(j - 1) /\ n \in 0..j BY <3>3
      <4> QED BY <2>1, <3>1, <3>3, <4>1
    <3> QED BY <3>2, <3>3
  <2> HIDE DEF h
  <2>7. Upto(j) BY <2>4, <2>5, <2>6 DEF RecursionTo
  <2> QED BY <2>7
<1> HIDE DEF S
<1>3. 0..k \subseteq S BY <1>1, <1>2, SegmentInduction
<1>4. k \in S BY <1>3
<1> QED BY <1>4 DEF S

-----------------------------------------------------------------------------
(* Recursion over a graph: each node of D has the set deps[r] of nodes it  *)
(* depends on, and no nonempty set of nodes depends on itself throughout.  *)

Founded(D, deps) == \A S \in SUBSET D : S # {} => \E r \in S : deps[r] \cap S = {}

(* What lies below each node, by recursion. *)
IsBelow(f, D, deps) == f = [r \in D |-> {r} \cup UNION {f[d] : d \in deps[r]}]

(* The sets of nodes that hold the dependencies of their members. *)
Closed(D, deps) == {S \in SUBSET D : \A k \in S : deps[k] \subseteq S}

(* There is such a function: the least closed set around each node.        *)
LEMMA BelowExists ==
    ASSUME NEW D, NEW deps \in [D -> SUBSET D] PROVE \E f : IsBelow(f, D, deps)
<1> DEFINE Least(r) == {k \in D : \A S \in Closed(D, deps) : r \in S => k \in S}
           f == [r \in D |-> Least(r)]
<1>1. ASSUME NEW r \in D PROVE r \in Least(r) OBVIOUS
<1>2. ASSUME NEW r \in D, NEW k \in Least(r) PROVE deps[k] \subseteq Least(r)
  <2> SUFFICES ASSUME NEW d \in deps[k] PROVE d \in Least(r) OBVIOUS
  <2>1. k \in D /\ d \in D OBVIOUS
  <2>2. ASSUME NEW S \in Closed(D, deps), r \in S PROVE d \in S
    <3>1. k \in S BY <2>2
    <3> QED BY <3>1 DEF Closed
  <2> QED BY <2>1, <2>2
<1>3. ASSUME NEW r \in D PROVE Least(r) = {r} \cup UNION {Least(d) : d \in deps[r]}
  <2> DEFINE T == {r} \cup UNION {Least(d) : d \in deps[r]}
  <2>1. ASSUME NEW d \in deps[r] PROVE Least(d) \subseteq Least(r)
    <3> SUFFICES ASSUME NEW k \in Least(d), NEW S \in Closed(D, deps), r \in S PROVE k \in S
      OBVIOUS
    <3>1. d \in S BY DEF Closed
    <3> QED BY <3>1
  <2>2. T \subseteq Least(r) BY <1>1, <2>1
  <2>3. T \subseteq D OBVIOUS
  <2>4. ASSUME NEW k \in T PROVE deps[k] \subseteq T
    <3>1. CASE k = r
      <4>1. \A d \in deps[r] : d \in Least(d) BY <1>1
      <4> QED BY <3>1, <4>1
    <3>2. CASE \E d \in deps[r] : k \in Least(d)
      <4>1. PICK d \in deps[r] : k \in Least(d) BY <3>2
      <4>2. d \in D OBVIOUS
      <4>3. deps[k] \subseteq Least(d) BY <1>2, <4>1, <4>2
      <4> QED BY <4>1, <4>3
    <3> QED BY <3>1, <3>2
  <2> HIDE DEF T
  <2>5. T \in Closed(D, deps) BY <2>3, <2>4 DEF Closed
  <2>6. r \in T BY DEF T
  <2>7. Least(r) \subseteq T BY <2>5, <2>6
  <2> QED BY <2>2, <2>7 DEF T
<1> HIDE DEF Least
<1>4. \A r \in D : f[r] = Least(r) OBVIOUS
<1>5. \A r \in D : {f[d] : d \in deps[r]} = {Least(d) : d \in deps[r]} BY <1>4
<1>6. f = [r \in D |-> {r} \cup UNION {f[d] : d \in deps[r]}] BY <1>3, <1>5
<1> HIDE DEF f
<1> QED BY <1>6 DEF IsBelow

(* In a well-founded graph it can be no other. *)
LEMMA BelowIsLeast ==
    ASSUME NEW D, NEW deps \in [D -> SUBSET D], Founded(D, deps),
           NEW f, IsBelow(f, D, deps), NEW r \in D
    PROVE  /\ r \in f[r] /\ f[r] \in Closed(D, deps)
           /\ \A S \in Closed(D, deps) : r \in S => f[r] \subseteq S
<1> DEFINE Good(x) == /\ x \in f[x] /\ f[x] \in Closed(D, deps)
                      /\ \A S \in Closed(D, deps) : x \in S => f[x] \subseteq S
           Bad == {x \in D : ~Good(x)}
<1>1. ASSUME NEW x \in D, \A d \in deps[x] : Good(d) PROVE Good(x)
  <2>1. f[x] = {x} \cup UNION {f[d] : d \in deps[x]} BY DEF IsBelow
  <2>2. x \in f[x] BY <2>1
  <2>3. f[x] \in Closed(D, deps)
    <3>1. f[x] \subseteq D BY <1>1, <2>1 DEF Closed
    <3>2. ASSUME NEW k \in f[x] PROVE deps[k] \subseteq f[x]
      <4>1. CASE k = x
        <5>1. \A d \in deps[x] : d \in f[d] BY <1>1
        <5> QED BY <2>1, <4>1, <5>1
      <4>2. CASE \E d \in deps[x] : k \in f[d]
        <5>1. PICK d \in deps[x] : k \in f[d] BY <4>2
        <5>2. deps[k] \subseteq f[d] BY <1>1, <5>1 DEF Closed
        <5> QED BY <2>1, <5>1, <5>2
      <4> QED BY <2>1, <4>1, <4>2
    <3> QED BY <3>1, <3>2 DEF Closed
  <2>4. ASSUME NEW S \in Closed(D, deps), x \in S PROVE f[x] \subseteq S
    <3>1. deps[x] \subseteq S BY <2>4 DEF Closed
    <3>2. \A d \in deps[x] : f[d] \subseteq S BY <1>1, <3>1
    <3> QED BY <2>1, <2>4, <3>2
  <2> QED BY <2>2, <2>3, <2>4
<1> HIDE DEF Good
<1>2. Bad = {}
  <2> SUFFICES ASSUME Bad # {} PROVE FALSE OBVIOUS
  <2>1. Bad \in SUBSET D OBVIOUS
  <2> HIDE DEF Bad
  <2>2. PICK x \in Bad : deps[x] \cap Bad = {} BY <2>1 DEF Founded
  <2>3. x \in D /\ ~Good(x) /\ \A d \in D : d \notin Bad => Good(d) BY DEF Bad
  <2>4. \A d \in deps[x] : d \in D /\ d \notin Bad BY <2>2, <2>3
  <2> QED BY <1>1, <2>3, <2>4
<1>3. Good(r) BY <1>2
<1> QED BY <1>3 DEF Good

-----------------------------------------------------------------------------
(* The resource graph. *)

(* A snapshot is taken of registered resources only. *)
LEMMA SnapshotDomain ==
    ASSUME NEW res, NEW roots
    PROVE  /\ DOMAIN Snapshot(res, roots) = Closure(res, roots)
           /\ DOMAIN Snapshot(res, roots) \subseteq DOMAIN res
BY DEF Snapshot, Closure

(* The closure of registered roots is what lies below them: the least set  *)
(* of registered resources that holds them and all their dependencies.     *)
LEMMA ClosureIsLeast ==
    ASSUME NEW res, Valid(res), NEW roots, roots \subseteq DOMAIN res
    PROVE  /\ roots \subseteq Closure(res, roots) /\ Closure(res, roots) \subseteq DOMAIN res
           /\ \A k \in Closure(res, roots) : res[k].deps \subseteq Closure(res, roots)
           /\ \A S \in SUBSET DOMAIN res :
                 roots \subseteq S /\ (\A k \in S : res[k].deps \subseteq S)
                    => Closure(res, roots) \subseteq S
<1> DEFINE D    == DOMAIN res
           deps == [r \in D |-> res[r].deps]
           below == CHOOSE f : f = [r \in D |-> {r} \cup UNION {f[d] : d \in res[r].deps}]
<1>1. deps \in [D -> SUBSET D] BY DEF Valid, Grounded
<1>2. Founded(D, deps) BY DEF Valid, Acyclic, Founded
<1>3. \A r \in D : deps[r] = res[r].deps OBVIOUS
<1>4. \A f : IsBelow(f, D, deps) <=> f = [r \in D |-> {r} \cup UNION {f[d] : d \in res[r].deps}]
  BY <1>3 DEF IsBelow
<1>5. Closure(res, roots) = {k \in D : k \in roots \/ \E r \in roots : k \in below[r]}
  BY DEF Closure
<1> HIDE DEF deps, D
<1>6. IsBelow(below, D, deps)
  <2>1. PICK f : IsBelow(f, D, deps) BY <1>1, BelowExists
  <2>2. f = [r \in D |-> {r} \cup UNION {f[d] : d \in res[r].deps}] BY <1>4, <2>1
  <2>3. below = [r \in D |-> {r} \cup UNION {below[d] : d \in res[r].deps}] BY <2>2
  <2> QED BY <1>4, <2>3
<1> HIDE DEF below
<1>7. ASSUME NEW r \in roots
      PROVE  /\ r \in D /\ r \in below[r] /\ below[r] \in Closed(D, deps)
             /\ \A S \in Closed(D, deps) : r \in S => below[r] \subseteq S
  <2>1. r \in D BY DEF D
  <2> QED BY <1>1, <1>2, <1>6, <2>1, BelowIsLeast
<1>8. Closure(res, roots) = UNION {below[r] : r \in roots}
  <2>1. \A r \in roots : below[r] \subseteq D BY <1>7 DEF Closed
  <2> QED BY <1>5, <1>7, <2>1
<1>9. \A k \in Closure(res, roots) : res[k].deps \subseteq Closure(res, roots)
  <2> SUFFICES ASSUME NEW r \in roots, NEW k \in below[r] PROVE res[k].deps \subseteq below[r]
    BY <1>8
  <2>1. k \in D /\ deps[k] \subseteq below[r] BY <1>7 DEF Closed
  <2> QED BY <1>3, <2>1
<1>10. ASSUME NEW S \in SUBSET D, roots \subseteq S, \A k \in S : res[k].deps \subseteq S
       PROVE  Closure(res, roots) \subseteq S
  <2>1. S \in Closed(D, deps) BY <1>3, <1>10 DEF Closed
  <2> QED BY <1>7, <1>8, <1>10, <2>1
<1>11. roots \subseteq Closure(res, roots) /\ Closure(res, roots) \subseteq D
  BY <1>5, <1>7, <1>8
<1> QED BY <1>9, <1>10, <1>11 DEF D

(* What lies below something below the roots lies below the roots. *)
LEMMA ClosureWithin ==
    ASSUME NEW res, Valid(res), NEW roots, roots \subseteq DOMAIN res,
           NEW k \in Closure(res, roots)
    PROVE  /\ k \in DOMAIN res /\ k \in Closure(res, {k})
           /\ Closure(res, {k}) \subseteq Closure(res, roots)
<1>1. k \in DOMAIN res BY ClosureIsLeast
<1>2. {k} \subseteq DOMAIN res /\ {k} \subseteq Closure(res, roots) BY <1>1
<1>3. /\ Closure(res, roots) \in SUBSET DOMAIN res
      /\ \A j \in Closure(res, roots) : res[j].deps \subseteq Closure(res, roots)
  BY ClosureIsLeast
<1>4. {k} \subseteq Closure(res, {k}) BY <1>2, ClosureIsLeast
<1>5. Closure(res, {k}) \subseteq Closure(res, roots) BY <1>2, <1>3, ClosureIsLeast
<1> QED BY <1>1, <1>4, <1>5

(* The closure is the same in a graph with the same records below the roots. *)
LEMMA ClosureSame ==
    ASSUME NEW res, Valid(res), NEW new, Valid(new), NEW roots, roots \subseteq DOMAIN res,
           \A k \in Closure(res, roots) : k \in DOMAIN new /\ new[k] = res[k]
    PROVE  Closure(new, roots) = Closure(res, roots)
<1> DEFINE old == Closure(res, roots)
           cur == Closure(new, roots)
<1>1. /\ roots \subseteq old /\ old \subseteq DOMAIN res
      /\ \A k \in old : res[k].deps \subseteq old
      /\ \A S \in SUBSET DOMAIN res :
            roots \subseteq S /\ (\A k \in S : res[k].deps \subseteq S) => old \subseteq S
  BY ClosureIsLeast
<1>2. roots \subseteq DOMAIN new BY <1>1
<1>3. /\ roots \subseteq cur /\ cur \subseteq DOMAIN new
      /\ \A k \in cur : new[k].deps \subseteq cur
      /\ \A S \in SUBSET DOMAIN new :
            roots \subseteq S /\ (\A k \in S : new[k].deps \subseteq S) => cur \subseteq S
  BY <1>2, ClosureIsLeast
<1>4. \A k \in old : k \in DOMAIN new /\ new[k] = res[k] OBVIOUS
<1> HIDE DEF old, cur
<1>5. cur \subseteq old
  <2>1. old \in SUBSET DOMAIN new /\ \A k \in old : new[k].deps \subseteq old BY <1>1, <1>4
  <2> QED BY <1>1, <1>3, <2>1
<1>6. old \subseteq cur
  <2>1. cur \in SUBSET DOMAIN res /\ \A k \in cur : res[k].deps \subseteq cur
    BY <1>1, <1>3, <1>4, <1>5
  <2> QED BY <1>1, <1>3, <2>1
<1> QED BY <1>5, <1>6 DEF old, cur

(* So are the fingerprints, the snapshot and what is stale. *)
LEMMA SnapshotSame ==
    ASSUME NEW res, Valid(res), NEW new, Valid(new), NEW roots, roots \subseteq DOMAIN res,
           \A k \in Closure(res, roots) : k \in DOMAIN new /\ new[k] = res[k]
    PROVE  /\ Snapshot(new, roots) = Snapshot(res, roots)
           /\ \A k \in Closure(res, roots) : /\ Closure(new, {k}) = Closure(res, {k})
                                             /\ Fingerprint(new, k) = Fingerprint(res, k)
                                             /\ Stale(new, k) <=> Stale(res, k)
<1>1. ASSUME NEW k \in Closure(res, roots)
      PROVE  Closure(new, {k}) = Closure(res, {k}) /\ Fingerprint(new, k) = Fingerprint(res, k)
  <2>1. k \in DOMAIN res /\ Closure(res, {k}) \subseteq Closure(res, roots) BY ClosureWithin
  <2>2. \A j \in Closure(res, {k}) : j \in DOMAIN new /\ new[j] = res[j] BY <2>1
  <2>3. Closure(new, {k}) = Closure(res, {k}) BY <2>1, <2>2, ClosureSame
  <2> QED BY <2>2, <2>3 DEF Fingerprint
<1>2. Closure(new, roots) = Closure(res, roots) BY ClosureSame
<1>3. Snapshot(new, roots) = Snapshot(res, roots) BY <1>1, <1>2 DEF Snapshot
<1>4. ASSUME NEW k \in Closure(res, roots) PROVE Stale(new, k) <=> Stale(res, k)
  <2>1. Closure(new, {k}) = Closure(res, {k}) BY <1>1
  <2>2. Closure(res, {k}) \subseteq Closure(res, roots) BY ClosureWithin
  <2>3. ASSUME NEW j \in Closure(res, {k})
        PROVE  /\ new[j] = res[j]
               /\ \A d \in res[j].deps : Fingerprint(new, d) = Fingerprint(res, d)
    <3>1. j \in Closure(res, roots) /\ res[j].deps \subseteq Closure(res, roots)
      BY <2>2, ClosureIsLeast
    <3> QED BY <1>1, <3>1
  <2> QED BY <2>1, <2>3 DEF Stale
<1> QED BY <1>1, <1>3, <1>4
=============================================================================
