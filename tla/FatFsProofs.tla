----------------------------- MODULE FatFsProofs -----------------------------
(***************************************************************************)
(* Proofs about the FAT driver.  The invariant says that the volume is     *)
(* sound, as the driver sees it and as the disk would be found whenever    *)
(* the power goes: no two chains meet, every chain has one owner, each     *)
(* open file has its place in its chain, and the count of free clusters is *)
(* right when it is sure.  It is carried through every function of the     *)
(* driver, with any of its disk accesses failing.                          *)
(***************************************************************************)
EXTENDS FatFs, FiniteSetTheorems, WellFoundedInduction, SequenceTheorems, TLAPS

-----------------------------------------------------------------------------
\* Chains in a table.

\* Every set of numbers that is not empty has a least one.
LEMMA LeastNumber ==
    ASSUME NEW S, S \subseteq Nat, S # {}
    PROVE  \E n \in S : \A k \in S : n <= k
<1> DEFINE R == {p \in Nat \X Nat : p[1] < p[2]}
<1>1. R = OpToRel(<, Nat)
  BY DEF OpToRel
<1>2. IsWellFoundedOn(R, Nat)
  BY <1>1, NatLessThanWellFounded, Zenon
<1>3. \A n, k \in Nat : ~(<<k, n>> \in R) => n <= k
  OBVIOUS
<1> HIDE DEF R
<1>4. \E n \in S : \A k \in S : ~(<<k, n>> \in R)
  BY <1>2, WFMin
<1> QED  BY <1>3, <1>4

\* What holds of 0 and of k when it does of k - 1 holds of n: induction, with a
\* set in the place of a predicate.
LEMMA Counting ==
    ASSUME NEW n \in Nat, NEW S, 0 \in S, \A k \in 1..n : k - 1 \in S => k \in S
    PROVE  n \in S
<1> DEFINE Bad == {k \in 0..n : k \notin S}
<1>1. ASSUME NEW k \in Bad, \A j \in Bad : k <= j PROVE FALSE
  <2>1. k \in 1..n /\ k - 1 \in 0..n /\ k - 1 \notin Bad
    BY <1>1
  <2> QED  BY <2>1
<1>2. Bad = {}
  <2>1. Bad \subseteq Nat
    OBVIOUS
  <2> HIDE DEF Bad
  <2> QED  BY <2>1, <1>1, LeastNumber
<1> QED  BY <1>2

-----------------------------------------------------------------------------
\* A table in which no cluster leads to a free one or to where another leads.
Proper(T) ==
    \A c \in Clusters : T[c] \in Clusters =>
        T[T[c]] # 0 /\ \A e \in Clusters : T[e] = T[c] => e = c

\* A chain begins at h: it is allocated and nothing leads to it.
Starts(T, h) == h \in Clusters /\ T[h] # 0 /\ \A c \in Clusters : T[c] # h

\* The first m clusters of the chain from h.
Walk(T, h, q, m) ==
    /\ m \in Nat /\ q \in [1..m -> Clusters]
    /\ m > 0 => q[1] = h
    /\ \A i \in 1..(m - 1) : T[q[i]] = q[i + 1]

\* What can be walked from h in T can be walked in U.
Keeps(T, U, h) == \A m \in Nat : \A q \in [1..m -> Clusters] : Walk(T, h, q, m) => Walk(U, h, q, m)

Tables == [Clusters -> Nat]

\* Two chains that have a cluster in common are one, and have it at the same place.
LEMMA WalksMeet ==
    ASSUME NEW T \in Tables, Proper(T), NEW h, NEW g, Starts(T, h), Starts(T, g),
           NEW q, NEW m, Walk(T, h, q, m), NEW r, NEW k, Walk(T, g, r, k),
           NEW i \in 1..m, NEW j \in 1..k, q[i] = r[j]
    PROVE  i = j /\ h = g
<1> DEFINE Bad == {a \in 1..m : \E b \in 1..k : q[a] = r[b] /\ ~(a = b /\ h = g)}
<1>1. ASSUME NEW a \in Bad, \A e \in Bad : a <= e PROVE FALSE
  <2>1. PICK b \in 1..k : q[a] = r[b] /\ ~(a = b /\ h = g)
    OBVIOUS
  <2>2. a \in 1..m /\ m \in Nat /\ k \in Nat
    BY DEF Walk
  <2>3. CASE a = 1
    <3>1. b # 1
      BY <2>1, <2>2, <2>3 DEF Walk
    <3>2. b - 1 \in 1..(k - 1) /\ (b - 1) + 1 = b
      BY <3>1, <2>2
    <3>3. T[r[b - 1]] = r[b] /\ r[b - 1] \in Clusters
      BY <3>2, <2>2 DEF Walk
    <3> QED  BY <3>3, <2>1, <2>2, <2>3 DEF Starts, Walk
  <2>4. CASE a # 1
    <3>1. a - 1 \in 1..(m - 1) /\ (a - 1) + 1 = a /\ a - 1 \in 1..m
      BY <2>4, <2>2
    <3>2. T[q[a - 1]] = q[a] /\ q[a - 1] \in Clusters /\ q[a] \in Clusters
      BY <3>1, <2>2 DEF Walk
    <3>3. b # 1
      BY <3>2, <2>1, <2>2 DEF Walk, Starts
    <3>4. b - 1 \in 1..(k - 1) /\ (b - 1) + 1 = b /\ b - 1 \in 1..k
      BY <3>3, <2>2
    <3>5. T[r[b - 1]] = r[b] /\ r[b - 1] \in Clusters
      BY <3>4, <2>2 DEF Walk
    <3>6. q[a - 1] = r[b - 1]
      BY <3>2, <3>5, <2>1 DEF Proper
    <3>7. a - 1 \in Bad
      BY <3>1, <3>4, <3>6, <2>1
    <3> QED  BY <3>7, <1>1, <2>2
  <2> QED  BY <2>3, <2>4
<1>2. Bad = {}
  <2>1. Bad \subseteq Nat
    BY DEF Walk
  <2> HIDE DEF Bad
  <2> QED  BY <2>1, <1>1, LeastNumber
<1> QED  BY <1>2

\* Clusters are numbers other than 0, 1 and the end mark.
LEMMA ClustersFacts == Clusters \subseteq Nat /\ 0 \notin Clusters /\ 1 \notin Clusters /\ EOC \in Nat /\ EOC \notin Clusters /\ EOC # 0
  BY VolumeAssumption DEF Clusters, EOC

\* A free cluster is marked as an end.
LEMMA Marking ==
    ASSUME NEW T \in Tables, Proper(T), NEW c \in Clusters, T[c] = 0,
           NEW U, U = [T EXCEPT ![c] = EOC]
    PROVE  /\ U \in Tables /\ Proper(U) /\ Starts(U, c)
           /\ \A h : Starts(T, h) => Starts(U, h) /\ h # c
           /\ \A h : Keeps(T, U, h)
<1>1. U \in Tables /\ U[c] = EOC /\ \A e \in Clusters : e # c => U[e] = T[e]
  BY ClustersFacts DEF Tables
<1>2. \A e \in Clusters : T[e] # c
  BY DEF Proper
<1>3. Proper(U)
  BY <1>1, <1>2, ClustersFacts DEF Proper, Tables
<1>4. \A h : Starts(T, h) => Starts(U, h) /\ h # c
  BY <1>1, ClustersFacts DEF Starts
<1>5. Starts(U, c)
  BY <1>1, <1>2, ClustersFacts DEF Starts
<1>6. ASSUME NEW h, NEW m \in Nat, NEW q \in [1..m -> Clusters], Walk(T, h, q, m)
      PROVE  Walk(U, h, q, m)
  <2>1. ASSUME NEW i \in 1..(m - 1) PROVE U[q[i]] = q[i + 1]
    <3>1. T[q[i]] = q[i + 1] /\ q[i] \in Clusters /\ q[i + 1] \in Clusters
      BY <1>6 DEF Walk
    <3> QED  BY <3>1, <1>1, ClustersFacts
  <2> QED  BY <1>6, <2>1 DEF Walk
<1> QED  BY <1>1, <1>3, <1>4, <1>5, <1>6 DEF Keeps

\* A function with one value replaced.
Put(T, c, v) == [T EXCEPT ![c] = v]

\* The end of a chain is linked to a cluster nothing leads to.
LEMMA Linking ==
    ASSUME NEW T \in Tables, Proper(T), NEW c \in Clusters, T[c] # 0, T[c] \notin Clusters,
           NEW new \in Clusters, Starts(T, new), NEW U, U = Put(T, c, new)
    PROVE  /\ U \in Tables /\ Proper(U) /\ U[c] = new
           /\ \A h : Starts(T, h) /\ h # new => Starts(U, h)
           /\ \A h : Keeps(T, U, h)
<1>1. U \in Tables /\ U[c] = new /\ \A e \in Clusters : e # c => U[e] = T[e]
  BY ClustersFacts DEF Tables, Starts, Put
<1>2. \A e \in Clusters : T[e] # new
  BY DEF Starts
<1>3. Proper(U)
  BY <1>1, <1>2, ClustersFacts DEF Proper, Tables, Starts
<1>4. \A h : Starts(T, h) /\ h # new => Starts(U, h)
  BY <1>1, ClustersFacts DEF Starts
<1>6. ASSUME NEW h, NEW m \in Nat, NEW q \in [1..m -> Clusters], Walk(T, h, q, m)
      PROVE  Walk(U, h, q, m)
  <2>1. ASSUME NEW i \in 1..(m - 1) PROVE U[q[i]] = q[i + 1]
    <3>1. T[q[i]] = q[i + 1] /\ q[i] \in Clusters /\ q[i + 1] \in Clusters
      BY <1>6 DEF Walk
    <3> QED  BY <3>1, <1>1, ClustersFacts
  <2> QED  BY <1>6, <2>1 DEF Walk
<1> QED  BY <1>1, <1>3, <1>4, <1>6 DEF Keeps

\* A cluster nothing leads to is freed.
LEMMA Freeing ==
    ASSUME NEW T \in Tables, Proper(T), NEW c \in Clusters, \A e \in Clusters : T[e] # c,
           NEW U, U = [T EXCEPT ![c] = 0]
    PROVE  /\ U \in Tables /\ Proper(U)
           /\ T[c] \in Clusters => \A e \in Clusters : U[e] # T[c]
           /\ T[c] \in Clusters => ~Starts(T, T[c])
           /\ \A h : Starts(T, h) /\ h # c => Starts(U, h) /\ Keeps(T, U, h)
<1>1. U \in Tables /\ U[c] = 0 /\ \A e \in Clusters : e # c => U[e] = T[e]
  BY ClustersFacts DEF Tables
<1>3. Proper(U)
  BY <1>1, ClustersFacts DEF Proper, Tables
<1>4. \A h : Starts(T, h) /\ h # c => Starts(U, h)
  BY <1>1, ClustersFacts DEF Starts
<1>5. T[c] \in Clusters => (\A e \in Clusters : U[e] # T[c]) /\ ~Starts(T, T[c])
  BY <1>1, ClustersFacts DEF Proper, Starts
<1>6. ASSUME NEW h, Starts(T, h), h # c, NEW m \in Nat, NEW q \in [1..m -> Clusters], Walk(T, h, q, m)
      PROVE  Walk(U, h, q, m)
  <2>1. ASSUME NEW i \in 1..(m - 1) PROVE U[q[i]] = q[i + 1]
    <3>1. T[q[i]] = q[i + 1] /\ q[i] \in Clusters /\ q[i + 1] \in Clusters
      BY <1>6 DEF Walk
    <3>2. q[i] # c
      <4>1. CASE i = 1
        BY <1>6, <4>1 DEF Walk
      <4>2. CASE i # 1
        <5>1. i - 1 \in 1..(m - 1) /\ (i - 1) + 1 = i /\ i - 1 \in 1..m
          BY <4>2
        <5>2. T[q[i - 1]] = q[i] /\ q[i - 1] \in Clusters
          BY <5>1, <1>6 DEF Walk
        <5> QED  BY <5>2
      <4> QED  BY <4>1, <4>2
    <3> QED  BY <3>1, <3>2, <1>1, ClustersFacts
  <2> QED  BY <1>6, <2>1 DEF Walk
<1> QED  BY <1>1, <1>3, <1>4, <1>5, <1>6 DEF Keeps

\* A chain is cut after one of its clusters.
LEMMA Cutting ==
    ASSUME NEW T \in Tables, Proper(T), NEW p \in Clusters, T[p] \in Clusters,
           NEW f, Starts(T, f), NEW r, NEW k \in Nat \ {0}, Walk(T, f, r, k), r[k] = p,
           NEW U, U = Put(T, p, EOC)
    PROVE  /\ U \in Tables /\ Proper(U)
           /\ \A e \in Clusters : U[e] # T[p]
           /\ ~Starts(T, T[p]) /\ U[T[p]] # 0
           /\ \A h : Starts(T, h) => Starts(U, h)
           /\ \A h : Starts(T, h) /\ h # f => Keeps(T, U, h)
           /\ Walk(U, f, r, k)
<1>1. U \in Tables /\ U[p] = EOC /\ \A e \in Clusters : e # p => U[e] = T[e]
  BY ClustersFacts DEF Tables, Put
<1>3. Proper(U)
  BY <1>1, ClustersFacts DEF Proper, Tables
<1>4. \A h : Starts(T, h) => Starts(U, h)
  BY <1>1, ClustersFacts DEF Starts
<1>5. (\A e \in Clusters : U[e] # T[p]) /\ ~Starts(T, T[p]) /\ U[T[p]] # 0
  <2>1. T[T[p]] # 0 /\ \A e \in Clusters : T[e] = T[p] => e = p
    BY DEF Proper
  <2>2. ~Starts(T, T[p])
    BY DEF Starts
  <2>3. U[T[p]] # 0
    BY <2>1, <1>1, ClustersFacts
  <2>4. ASSUME NEW e \in Clusters PROVE U[e] # T[p]
    BY <2>1, <1>1, ClustersFacts
  <2> QED  BY <2>2, <2>3, <2>4
<1>6. ASSUME NEW h, Starts(T, h), h # f, NEW m \in Nat, NEW q \in [1..m -> Clusters], Walk(T, h, q, m)
      PROVE  Walk(U, h, q, m)
  <2>1. ASSUME NEW i \in 1..(m - 1) PROVE U[q[i]] = q[i + 1]
    <3>1. T[q[i]] = q[i + 1] /\ q[i] \in Clusters /\ q[i + 1] \in Clusters /\ i \in 1..m
      BY <1>6 DEF Walk
    <3>2. q[i] # p
      <4>1. k \in 1..k
        OBVIOUS
      <4> QED  BY <3>1, <4>1, <1>6, WalksMeet
    <3> QED  BY <3>1, <3>2, <1>1
  <2> QED  BY <1>6, <2>1 DEF Walk
<1>7. Walk(U, f, r, k)
  <2>1. ASSUME NEW i \in 1..(k - 1) PROVE U[r[i]] = r[i + 1]
    <3>1. T[r[i]] = r[i + 1] /\ r[i] \in Clusters /\ i \in 1..k /\ i # k /\ k \in 1..k
      BY DEF Walk
    <3>2. r[i] # p
      BY <3>1, WalksMeet
    <3> QED  BY <3>1, <3>2, <1>1
  <2> QED  BY <2>1 DEF Walk
<1> QED  BY <1>1, <1>3, <1>4, <1>5, <1>6, <1>7 DEF Keeps

-----------------------------------------------------------------------------
\* Loops: what holds at the start and is kept by every turn holds at the end.

\* One turn of any of the loops; start is the parameter of a search.
AnyTurn(kind, start, x) ==
    CASE kind = "free" -> FreeTurn(x)
      [] kind = "search" -> SearchTurn(x, start)
      [] kind = "count" -> CountTurn(x)
      [] kind = "write" -> WriteTurn(x)
      [] kind = "read" -> ReadTurn(x)
      [] kind = "seek" -> SeekTurn(x)

\* The states after one more turn.
AnyNext(kind, start, S) == UNION {IF y.go THEN AnyTurn(kind, start, y) ELSE {y} : y \in S}

\* What Loop's recursive function is.
IsRun(run, kind, start, x, n) ==
    run = [k \in 0..n |-> IF k = 0 THEN {x} ELSE AnyNext(kind, start, run[k - 1])]

\* The recursive function of a loop exists.
LEMMA RunExists ==
    ASSUME NEW kind, NEW start, NEW x, NEW n \in Nat
    PROVE  \E run : IsRun(run, kind, start, x, n)
<1> DEFINE Good == {k \in 0..n : \E run : IsRun(run, kind, start, x, k)}
<1>1. 0 \in Good
  <2> DEFINE g == [i \in 0..0 |-> {x}]
  <2>1. IsRun(g, kind, start, x, 0)
    BY DEF IsRun
  <2> QED  BY <2>1
<1>2. ASSUME NEW k \in 1..n, k - 1 \in Good PROVE k \in Good
  <2>1. PICK run : IsRun(run, kind, start, x, k - 1)
    BY <1>2
  <2> DEFINE g == [i \in 0..k |-> IF i = k THEN AnyNext(kind, start, run[k - 1]) ELSE run[i]]
  <2>2. \A i \in 0..(k - 1) :
           run[i] = IF i = 0 THEN {x} ELSE AnyNext(kind, start, run[i - 1])
    BY <2>1 DEF IsRun
  <2>3. ASSUME NEW i \in 0..k
        PROVE  g[i] = IF i = 0 THEN {x} ELSE AnyNext(kind, start, g[i - 1])
    <3>1. CASE i = k
      <4>1. i # 0 /\ i - 1 \in 0..k /\ i - 1 # k /\ i - 1 = k - 1
        BY <3>1
      <4>2. g[i - 1] = run[k - 1] /\ g[i] = AnyNext(kind, start, run[k - 1])
        BY <4>1, <3>1
      <4> QED  BY <4>1, <4>2
    <3>2. CASE i # k
      <4>1. i \in 0..(k - 1) /\ g[i] = run[i]
        BY <3>2
      <4>2. i # 0 => i - 1 \in 0..k /\ i - 1 # k /\ g[i - 1] = run[i - 1]
        BY <4>1
      <4> QED  BY <4>1, <4>2, <2>2
    <3> QED  BY <3>1, <3>2
  <2>4. IsRun(g, kind, start, x, k)
    <3> HIDE DEF g
    <3>1. g = [i \in 0..k |-> g[i]]
      BY DEF g
    <3> QED  BY <2>3, <3>1 DEF IsRun
  <2> QED  BY <2>4
<1>3. n \in Good
  <2> HIDE DEF Good
  <2> QED  BY <1>1, <1>2, Counting
<1> QED  BY <1>3

\* What holds at the start of a loop and after every turn holds at its end.
KeptByTurns(P, U, kind, start) ==
    \A y \in P : y.go => \A z \in AnyTurn(kind, start, y) : z \in U => z \in P

\* The ends E of a loop from x lie in every set that holds x and is kept by its turns.
LoopIn(E, U, kind, start, x) ==
    /\ x \in U /\ \A y \in E : y \in U /\ ~y.go
    /\ \A P \in SUBSET U : x \in P /\ KeptByTurns(P, U, kind, start) => E \subseteq P

\* The ends of a run lie in what its turns keep.
LEMMA RunIn ==
    ASSUME NEW kind, NEW start, NEW x, NEW n \in Nat, NEW run, IsRun(run, kind, start, x, n)
    PROVE  \E U : LoopIn({y \in run[n] : ~y.go}, U, kind, start, x)
<1> DEFINE U == UNION {run[k] : k \in 0..n}
<1>0. \A k \in 0..n : run[k] = IF k = 0 THEN {x} ELSE AnyNext(kind, start, run[k - 1])
  BY DEF IsRun
<1>1. \A k \in 0..n : run[k] \subseteq U
  OBVIOUS
<1>2. x \in U
  <2>1. 0 \in 0..n /\ x \in run[0]
    BY <1>0
  <2> QED  BY <2>1, <1>1
<1>3. ASSUME NEW P \in SUBSET U, x \in P, KeptByTurns(P, U, kind, start)
      PROVE  run[n] \subseteq P
  <2> DEFINE In == {k \in 0..n : run[k] \subseteq P}
  <2>1. 0 \in In
    BY <1>0, <1>3
  <2>2. ASSUME NEW k \in 1..n, k - 1 \in In PROVE k \in In
    <3>1. k \in 0..n /\ k # 0 /\ run[k - 1] \subseteq P
      BY <2>2
    <3>2. run[k] = AnyNext(kind, start, run[k - 1])
      BY <3>1, <1>0
    <3>3. ASSUME NEW z \in run[k] PROVE z \in P
      <4>1. PICK y \in run[k - 1] : z \in IF y.go THEN AnyTurn(kind, start, y) ELSE {y}
        BY <3>2 DEF AnyNext
      <4>2. y \in P /\ z \in U
        BY <3>1, <1>1, <3>3
      <4> QED  BY <4>1, <4>2, <1>3 DEF KeptByTurns
    <3> QED  BY <3>1, <3>3
  <2>3. n \in In
    <3> HIDE DEF In
    <3> QED  BY <2>1, <2>2, Counting
  <2> QED  BY <2>3
<1>4. \A y \in run[n] : y \in U
  BY <1>1
<1> HIDE DEF U
<1> QED  BY <1>2, <1>3, <1>4 DEF LoopIn

\* So do those of the loop of remove_chain.
LEMMA FreeTurns ==
    ASSUME NEW x, NEW n \in Nat
    PROVE  \E U : LoopIn(Loop(FreeTurn, x, n), U, "free", 0, x)
<1> DEFINE F(run) == [k \in 0..n |->
             IF k = 0 THEN {x} ELSE UNION {IF y.go THEN FreeTurn(y) ELSE {y} : y \in run[k - 1]}]
           at == CHOOSE run : run = F(run)
<1>1. \A run : IsRun(run, "free", 0, x, n) <=> run = F(run)
  BY DEF IsRun, AnyNext, AnyTurn
<1>2. at = F(at)
  <2> HIDE DEF F
  <2> QED  BY <1>1, RunExists
<1>3. \E U : LoopIn({y \in at[n] : ~y.go}, U, "free", 0, x)
  <2> HIDE DEF at, F
  <2> QED  BY <1>1, <1>2, RunIn
<1> QED  BY <1>3 DEF Loop

\* The loop of Search, whose turn has a parameter.
SearchEnds(start, x, n) == Loop(LAMBDA y : SearchTurn(y, start), x, n)

\* Of the search of create_chain.
LEMMA SearchTurns ==
    ASSUME NEW start, NEW x, NEW n \in Nat
    PROVE  \E U : LoopIn(SearchEnds(start, x, n), U, "search", start, x)
<1> DEFINE F(run) == [k \in 0..n |->
             IF k = 0 THEN {x} ELSE UNION {IF y.go THEN SearchTurn(y, start) ELSE {y} : y \in run[k - 1]}]
           at == CHOOSE run : run = F(run)
<1>1. \A run : IsRun(run, "search", start, x, n) <=> run = F(run)
  BY DEF IsRun, AnyNext, AnyTurn
<1>2. at = F(at)
  <2> HIDE DEF F
  <2> QED  BY <1>1, RunExists
<1>3. \E U : LoopIn({y \in at[n] : ~y.go}, U, "search", start, x)
  <2> HIDE DEF at, F
  <2> QED  BY <1>1, <1>2, RunIn
<1> QED  BY <1>3 DEF Loop, SearchEnds

\* Of the count of f_getfree.
LEMMA CountTurns ==
    ASSUME NEW x, NEW n \in Nat
    PROVE  \E U : LoopIn(Loop(CountTurn, x, n), U, "count", 0, x)
<1> DEFINE F(run) == [k \in 0..n |->
             IF k = 0 THEN {x} ELSE UNION {IF y.go THEN CountTurn(y) ELSE {y} : y \in run[k - 1]}]
           at == CHOOSE run : run = F(run)
<1>1. \A run : IsRun(run, "count", 0, x, n) <=> run = F(run)
  BY DEF IsRun, AnyNext, AnyTurn
<1>2. at = F(at)
  <2> HIDE DEF F
  <2> QED  BY <1>1, RunExists
<1>3. \E U : LoopIn({y \in at[n] : ~y.go}, U, "count", 0, x)
  <2> HIDE DEF at, F
  <2> QED  BY <1>1, <1>2, RunIn
<1> QED  BY <1>3 DEF Loop

\* Of f_write.
LEMMA WriteTurns ==
    ASSUME NEW x, NEW n \in Nat
    PROVE  \E U : LoopIn(Loop(WriteTurn, x, n), U, "write", 0, x)
<1> DEFINE F(run) == [k \in 0..n |->
             IF k = 0 THEN {x} ELSE UNION {IF y.go THEN WriteTurn(y) ELSE {y} : y \in run[k - 1]}]
           at == CHOOSE run : run = F(run)
<1>1. \A run : IsRun(run, "write", 0, x, n) <=> run = F(run)
  BY DEF IsRun, AnyNext, AnyTurn
<1>2. at = F(at)
  <2> HIDE DEF F
  <2> QED  BY <1>1, RunExists
<1>3. \E U : LoopIn({y \in at[n] : ~y.go}, U, "write", 0, x)
  <2> HIDE DEF at, F
  <2> QED  BY <1>1, <1>2, RunIn
<1> QED  BY <1>3 DEF Loop

\* Of f_read.
LEMMA ReadTurns ==
    ASSUME NEW x, NEW n \in Nat
    PROVE  \E U : LoopIn(Loop(ReadTurn, x, n), U, "read", 0, x)
<1> DEFINE F(run) == [k \in 0..n |->
             IF k = 0 THEN {x} ELSE UNION {IF y.go THEN ReadTurn(y) ELSE {y} : y \in run[k - 1]}]
           at == CHOOSE run : run = F(run)
<1>1. \A run : IsRun(run, "read", 0, x, n) <=> run = F(run)
  BY DEF IsRun, AnyNext, AnyTurn
<1>2. at = F(at)
  <2> HIDE DEF F
  <2> QED  BY <1>1, RunExists
<1>3. \E U : LoopIn({y \in at[n] : ~y.go}, U, "read", 0, x)
  <2> HIDE DEF at, F
  <2> QED  BY <1>1, <1>2, RunIn
<1> QED  BY <1>3 DEF Loop

\* Of f_lseek.
LEMMA SeekTurns ==
    ASSUME NEW x, NEW n \in Nat
    PROVE  \E U : LoopIn(Loop(SeekTurn, x, n), U, "seek", 0, x)
<1> DEFINE F(run) == [k \in 0..n |->
             IF k = 0 THEN {x} ELSE UNION {IF y.go THEN SeekTurn(y) ELSE {y} : y \in run[k - 1]}]
           at == CHOOSE run : run = F(run)
<1>1. \A run : IsRun(run, "seek", 0, x, n) <=> run = F(run)
  BY DEF IsRun, AnyNext, AnyTurn
<1>2. at = F(at)
  <2> HIDE DEF F
  <2> QED  BY <1>1, RunExists
<1>3. \E U : LoopIn({y \in at[n] : ~y.go}, U, "seek", 0, x)
  <2> HIDE DEF at, F
  <2> QED  BY <1>1, <1>2, RunIn
<1> QED  BY <1>3 DEF Loop

-----------------------------------------------------------------------------
\* The window.

\* The sectors of the table.
FatSectors == {FatOf(c) : c \in Clusters}

\* A state of the driver has the fields of one.
IsState(s) ==
    s = [disk |-> s.disk, win |-> s.win, wsect |-> s.wsect, dirty |-> s.dirty, last |-> s.last,
         free |-> s.free, sure |-> s.sure, media |-> s.media, faults |-> s.faults, res |-> s.res,
         val |-> s.val, f |-> s.f, out |-> s.out]

\* The table of a disk, and its directory.
Tab(d) == [c \in Clusters |-> Next_(d, c)]

\* The window shows a sector and agrees with it unless it is dirty; every content
\* of the disk is one of a volume.
Base(s) ==
    /\ IsState(s)
    /\ s.disk \in s.media /\ \A x \in s.media : DiskOK(x)
    /\ DiskOK(Seen(s))
    /\ s.dirty \in BOOLEAN
    /\ s.wsect \in {Dir, Nowhere} \union FatSectors
    /\ s.dirty => s.wsect # Nowhere
    /\ ~s.dirty /\ s.wsect # Nowhere => s.win = s.disk[s.wsect]

\* What an access through the window leaves alone.
Kept(s, t) == t.last = s.last /\ t.free = s.free /\ t.sure = s.sure /\ t.f = s.f /\ t.out = s.out

\* From s to t nothing has been changed that the driver sees.
Looked(s, t) ==
    Base(t) /\ Kept(s, t) /\ Seen(t) = Seen(s) /\ t.media \subseteq s.media \union {Seen(s)}

\* A quotient is a number.
LEMMA Quotients ==
    ASSUME NEW a \in Nat, NEW b \in Nat \ {0}
    PROVE  a \div b \in Nat
  OBVIOUS

\* The directory, the table and the clusters have their own sectors.
LEMMA SectorFacts ==
    /\ Dir \in Sectors /\ Dir # Nowhere /\ Dir \notin Clusters /\ Dir \notin FatSectors
    /\ Nowhere \notin Sectors /\ Nowhere \notin FatSectors
    /\ Clusters \subseteq Sectors /\ FatSectors \subseteq Sectors
    /\ \A c \in Clusters : FatOf(c) \in FatSectors /\ FatOf(c) \notin Clusters
    /\ \A x \in FatSectors : x \notin Clusters
<1>1. \A c \in Clusters : c \div EntriesPerSector \in Nat
  BY VolumeAssumption, Quotients DEF Clusters
<1>2. \A c \in Clusters : FatOf(c) \in Int /\ FatOf(c) < 0
  BY <1>1 DEF FatOf
<1> QED  BY <1>2 DEF Sectors, FatSectors, Dir, Nowhere, Clusters

\* The table of a volume is one.
LEMMA TabTyped ==
    ASSUME NEW d, DiskOK(d)
    PROVE  Tab(d) \in Tables /\ \A c \in Clusters : Tab(d)[c] = d[FatOf(c)][c]
  BY DEF DiskOK, Tab, Tables, Next_, TableOf

\* Looking may do nothing.
LEMMA LookedSelf ==
    ASSUME NEW s, Base(s)
    PROVE  Looked(s, s)
  BY DEF Looked, Kept

\* Looking twice is looking.
LEMMA LookedOn ==
    ASSUME NEW s, NEW t, NEW u, Looked(s, t), Looked(t, u)
    PROVE  Looked(s, u)
  BY DEF Looked, Kept

\* The fields a state has and those an update of one leaves alone.
LEMMA SetRes ==
    ASSUME NEW s, Base(s), NEW r, NEW t, t = [s EXCEPT !.res = r]
    PROVE  Looked(s, t) /\ t.res = r /\ t.val = s.val /\ t.wsect = s.wsect /\ t.win = s.win /\ t.dirty = s.dirty /\ t.disk = s.disk
<1>1. IsState(s)
  BY DEF Base
<1>2. IsState(t) /\ t.disk = s.disk /\ t.win = s.win /\ t.wsect = s.wsect /\ t.dirty = s.dirty
      /\ t.media = s.media /\ Kept(s, t) /\ t.res = r /\ t.val = s.val
  BY <1>1 DEF IsState, Kept
<1>3. Seen(t) = Seen(s)
  BY <1>2 DEF Seen
<1> QED  BY <1>2, <1>3 DEF Base, Looked

\* The value returned is set.
LEMMA SetVal ==
    ASSUME NEW s, Base(s), NEW v, NEW t, t = [s EXCEPT !.val = v]
    PROVE  Looked(s, t) /\ t.res = s.res /\ t.val = v /\ t.wsect = s.wsect /\ t.win = s.win
<1>1. IsState(s)
  BY DEF Base
<1>2. IsState(t) /\ t.disk = s.disk /\ t.win = s.win /\ t.wsect = s.wsect /\ t.dirty = s.dirty
      /\ t.media = s.media /\ Kept(s, t) /\ t.res = s.res /\ t.val = v
  BY <1>1 DEF IsState, Kept
<1>3. Seen(t) = Seen(s)
  BY <1>2 DEF Seen
<1> QED  BY <1>2, <1>3 DEF Base, Looked

\* A disk access fails.
LEMMA Failing ==
    ASSUME NEW s, Base(s), NEW t \in Fail(s)
    PROVE  Looked(s, t) /\ t.res = "disk_err" /\ t.val = s.val /\ t.wsect = s.wsect /\ t.win = s.win
           /\ t.dirty = s.dirty /\ t.disk = s.disk /\ t.media = s.media
<1>1. IsState(s)
  BY DEF Base
<1>2. IsState(t) /\ t.disk = s.disk /\ t.win = s.win /\ t.wsect = s.wsect /\ t.dirty = s.dirty
      /\ t.media = s.media /\ Kept(s, t) /\ t.res = "disk_err" /\ t.val = s.val
  BY <1>1 DEF IsState, Kept, Fail
<1>3. Seen(t) = Seen(s)
  BY <1>2 DEF Seen
<1> QED  BY <1>2, <1>3 DEF Base, Looked

\* sync_window writes what is seen already.
LEMMA SyncingWindow ==
    ASSUME NEW s, Base(s), s.res = "ok", NEW t \in sync_window(s)
    PROVE  /\ Looked(s, t) /\ t.res \in {"ok", "disk_err"} /\ t.val = s.val
           /\ t.wsect = s.wsect /\ t.win = s.win
           /\ t.res = "ok" => ~t.dirty /\ t.disk = Seen(s)
<1>1. CASE ~s.dirty
  <2>1. t = s
    BY <1>1 DEF sync_window
  <2>2. Seen(s) = s.disk
    <3>1. CASE s.wsect = Nowhere
      BY <3>1 DEF Seen
    <3>2. CASE s.wsect # Nowhere
      <4>1. s.win = s.disk[s.wsect] /\ s.disk = [x \in Sectors |-> s.disk[x]]
        BY <3>2, <1>1 DEF Base, DiskOK
      <4> QED  BY <4>1, <3>2 DEF Seen
    <3> QED  BY <3>1, <3>2
  <2> QED  BY <2>1, <2>2, <1>1, LookedSelf
<1>2. CASE s.dirty
  <2>1. PICK u \in DiskWrite(s, s.wsect, s.win) :
           IF u.res = "ok" THEN t = [u EXCEPT !.dirty = FALSE] ELSE t = u
    BY <1>2 DEF sync_window, Then
  <2>2. CASE u \in Fail(s)
    BY <2>1, <2>2, Failing
  <2>3. CASE u \notin Fail(s)
    <3> DEFINE d == [s.disk EXCEPT ![s.wsect] = s.win]
    <3>1. u = [s EXCEPT !.disk = d, !.media = @ \union {d}]
      BY <2>1, <2>3 DEF DiskWrite
    <3>2. d = Seen(s) /\ s.wsect # Nowhere
      BY <1>2 DEF Seen, Base
    <3> HIDE DEF d
    <3>3. IsState(s)
      BY DEF Base
    <3>4. u.res = "ok"
      BY <3>1, <3>3 DEF IsState
    <3>5. t = [u EXCEPT !.dirty = FALSE]
      BY <3>4, <2>1
    <3>6. IsState(t) /\ t.disk = d /\ t.media = s.media \union {d} /\ t.dirty = FALSE
          /\ t.wsect = s.wsect /\ t.win = s.win /\ Kept(s, t) /\ t.val = s.val /\ t.res = "ok"
      BY <3>1, <3>3, <3>5 DEF IsState, Kept
    <3>7. d = [x \in Sectors |-> d[x]] /\ s.wsect \in Sectors
      <4>1. s.wsect \in Sectors
        BY <3>2, SectorFacts DEF Base
      <4> QED  BY <3>2, <4>1 DEF Base, DiskOK
    <3>8. d[s.wsect] = s.win
      <4>1. s.disk = [x \in Sectors |-> s.disk[x]]
        BY DEF Base, DiskOK
      <4> QED  BY <3>7, <4>1 DEF d
    <3>9. Seen(t) = d
      BY <3>6, <3>7, <3>8 DEF Seen
    <3>10. Base(t)
      BY <3>6, <3>9, <3>2, <3>8 DEF Base
    <3> QED  BY <3>6, <3>9, <3>10, <3>2 DEF Looked
  <2> QED  BY <2>2, <2>3
<1> QED  BY <1>1, <1>2 DEF Base

\* move_window shows another sector and changes nothing.
LEMMA MovingWindow ==
    ASSUME NEW s, Base(s), s.res = "ok", NEW sector \in {Dir} \union FatSectors,
           NEW t \in move_window(s, sector)
    PROVE  /\ Looked(s, t) /\ t.res \in {"ok", "disk_err"} /\ t.val = s.val
           /\ t.res = "ok" => t.wsect = sector
           /\ t.wsect \in {sector, s.wsect, Nowhere}
<1>1. CASE sector = s.wsect
  <2>1. t = s
    BY <1>1 DEF move_window
  <2> QED  BY <2>1, <1>1, LookedSelf
<1>2. CASE sector # s.wsect
  <2>1. PICK u \in sync_window(s) :
           IF u.res = "ok"
           THEN t \in {[u EXCEPT !.wsect = sector, !.win = u.disk[sector]]}
                      \union {[v EXCEPT !.wsect = Nowhere] : v \in Fail(u)}
           ELSE t = u
    BY <1>2 DEF move_window, Then
  <2>2. Looked(s, u) /\ u.res \in {"ok", "disk_err"} /\ u.val = s.val /\ (u.res = "ok" => ~u.dirty /\ u.disk = Seen(s))
        /\ u.wsect = s.wsect
    BY SyncingWindow
  <2>3. CASE u.res # "ok"
    BY <2>1, <2>2, <2>3
  <2>4. CASE u.res = "ok" /\ t = [u EXCEPT !.wsect = sector, !.win = u.disk[sector]]
    <3>1. IsState(u) /\ Base(u) /\ sector \in Sectors /\ sector # Nowhere
      BY <2>2, SectorFacts DEF Looked, Base
    <3>2. IsState(t) /\ t.disk = u.disk /\ t.media = u.media /\ t.dirty = u.dirty
          /\ t.wsect = sector /\ t.win = u.disk[sector] /\ Kept(u, t) /\ t.val = u.val /\ t.res = "ok"
      BY <3>1, <2>4 DEF IsState, Kept
    <3>3. u.disk = [x \in Sectors |-> u.disk[x]]
      BY <3>1 DEF Base, DiskOK
    <3>4. Seen(t) = u.disk
      BY <3>1, <3>2, <3>3 DEF Seen
    <3>5. Base(t)
      BY <3>1, <3>2, <3>4, <2>2, <2>4 DEF Base
    <3>6. Looked(u, t)
      BY <3>2, <3>4, <3>5, <2>2, <2>4 DEF Looked
    <3> QED  BY <3>6, <3>2, <2>2, LookedOn
  <2>5. CASE u.res = "ok" /\ \E v \in Fail(u) : t = [v EXCEPT !.wsect = Nowhere]
    <3>0. PICK v \in Fail(u) : t = [v EXCEPT !.wsect = Nowhere]
      BY <2>5
    <3>1. Base(u)
      BY <2>2 DEF Looked
    <3>2. Looked(u, v) /\ v.res = "disk_err" /\ v.val = u.val /\ v.dirty = u.dirty /\ v.disk = u.disk /\ v.media = u.media
      BY <3>0, <3>1, Failing
    <3>3. IsState(v)
      BY <3>2 DEF Looked, Base
    <3>4. IsState(t) /\ t.disk = v.disk /\ t.media = v.media /\ t.dirty = v.dirty
          /\ t.wsect = Nowhere /\ Kept(v, t) /\ t.val = v.val /\ t.res = "disk_err"
      BY <3>0, <3>3, <3>2 DEF IsState, Kept
    <3>5. Seen(t) = u.disk
      BY <3>4, <3>2 DEF Seen
    <3>6. Base(t)
      BY <3>4, <3>2, <3>5, <3>1, <2>2, <2>5 DEF Base
    <3>7. Looked(u, t)
      BY <3>4, <3>2, <3>5, <3>6, <2>2, <2>5 DEF Looked, Kept
    <3> QED  BY <3>7, <3>4, <3>2, <2>2, LookedOn
  <2> QED  BY <2>1, <2>3, <2>4, <2>5
<1> QED  BY <1>1, <1>2

\* get_fat returns what the table says.
LEMMA Getting ==
    ASSUME NEW s, Base(s), s.res = "ok", NEW c, NEW t \in get_fat(s, c)
    PROVE  /\ Looked(s, t) /\ t.res \in {"ok", "disk_err", "int_err"}
           /\ t.res = "int_err" => c \notin Clusters
           /\ t.res = "ok" => c \in Clusters /\ t.val = Tab(Seen(s))[c]
<1>1. CASE c \notin Clusters
  <2>1. t = [s EXCEPT !.res = "int_err"]
    BY <1>1 DEF get_fat, Error
  <2> QED  BY <2>1, <1>1, SetRes
<1>2. CASE c \in Clusters
  <2>1. PICK u \in move_window(s, FatOf(c)) :
           IF u.res = "ok" THEN t = [u EXCEPT !.val = u.win[c]] ELSE t = u
    BY <1>2 DEF get_fat, Then
  <2>2. FatOf(c) \in FatSectors /\ FatOf(c) \in Sectors /\ FatOf(c) # Nowhere
    BY <1>2, SectorFacts
  <2>3. Looked(s, u) /\ u.res \in {"ok", "disk_err"} /\ (u.res = "ok" => u.wsect = FatOf(c))
    BY <2>2, MovingWindow
  <2>4. CASE u.res # "ok"
    BY <2>1, <2>3, <2>4
  <2>5. CASE u.res = "ok"
    <3>1. Base(u) /\ t = [u EXCEPT !.val = u.win[c]]
      BY <2>1, <2>3, <2>5 DEF Looked
    <3>2. Looked(u, t) /\ t.res = "ok" /\ t.val = u.win[c]
      BY <3>1, <2>5, SetVal
    <3>3. u.disk = [x \in Sectors |-> u.disk[x]]
      BY <3>1 DEF Base, DiskOK
    <3>4. Seen(u)[FatOf(c)] = u.win
      BY <2>2, <2>3, <2>5, <3>3 DEF Seen
    <3>5. Tab(Seen(s))[c] = u.win[c]
      BY <3>4, <2>3, <1>2 DEF Tab, Next_, Looked
    <3> QED  BY <3>2, <3>5, <2>3, <1>2, LookedOn
  <2> QED  BY <2>4, <2>5
<1> QED  BY <1>1, <1>2

\* One field of the window's sector is changed.
Changed(s, w) == [s EXCEPT !.win = w, !.dirty = TRUE]
\* The disk with a window over it.
Laid(s, w) == [s.disk EXCEPT ![s.wsect] = w]

\* A change of the window is seen.
LEMMA ChangingWindow ==
    ASSUME NEW s, Base(s), s.wsect # Nowhere, NEW w, NEW t, t = Changed(s, w),
           DiskOK(Laid(s, w))
    PROVE  /\ Base(t) /\ Kept(s, t) /\ t.media = s.media /\ t.res = s.res /\ t.val = s.val
           /\ t.wsect = s.wsect /\ t.win = w
           /\ Seen(t) = Laid(s, w)
<1>1. IsState(s)
  BY DEF Base
<1>2. IsState(t) /\ t.disk = s.disk /\ t.win = w /\ t.wsect = s.wsect /\ t.dirty = TRUE
      /\ t.media = s.media /\ Kept(s, t) /\ t.res = s.res /\ t.val = s.val
  BY <1>1 DEF IsState, Kept, Changed
<1>3. Seen(t) = Laid(s, w)
  BY <1>2 DEF Seen, Laid
<1> QED  BY <1>2, <1>3 DEF Base

\* From s to t the volume may have been changed through the window.
Wrote(s, t) == Base(t) /\ Kept(s, t) /\ t.media \subseteq s.media \union {Seen(s)}

\* Clusters of the same sector have the same part of the table.
LEMMA TableOfFacts ==
    /\ \A c \in Clusters : c \in TableOf(FatOf(c))
    /\ \A c, e \in Clusters : FatOf(c) = FatOf(e) => TableOf(FatOf(c)) = TableOf(FatOf(e))
  BY DEF TableOf

\* put_fat changes one cluster of the table, or fails and changes nothing.
LEMMA Putting ==
    ASSUME NEW s, Base(s), s.res = "ok", NEW c, NEW v \in Nat, NEW t \in put_fat(s, c, v)
    PROVE  /\ Wrote(s, t) /\ t.res \in {"ok", "disk_err", "int_err"} /\ t.val = s.val
           /\ t.res = "int_err" => c \notin Clusters
           /\ t.res # "ok" => Looked(s, t)
           /\ t.res = "ok" => /\ c \in Clusters
                              /\ Tab(Seen(t)) = [Tab(Seen(s)) EXCEPT ![c] = v]
                              /\ Seen(t)[Dir] = Seen(s)[Dir]
<1>1. CASE c \notin Clusters
  <2>1. t = [s EXCEPT !.res = "int_err"]
    BY <1>1 DEF put_fat, Error
  <2> QED  BY <2>1, <1>1, SetRes DEF Wrote, Looked
<1>2. CASE c \in Clusters
  <2>1. PICK u \in move_window(s, FatOf(c)) :
           IF u.res = "ok" THEN t = [u EXCEPT !.win = [@ EXCEPT ![c] = v], !.dirty = TRUE] ELSE t = u
    BY <1>2 DEF put_fat, Then
  <2>2. FatOf(c) \in FatSectors /\ FatOf(c) \in Sectors /\ FatOf(c) # Nowhere /\ FatOf(c) # Dir
    BY <1>2, SectorFacts
  <2>3. Looked(s, u) /\ u.res \in {"ok", "disk_err"} /\ (u.res = "ok" => u.wsect = FatOf(c)) /\ u.val = s.val
    BY <2>2, MovingWindow
  <2>4. CASE u.res # "ok"
    BY <2>1, <2>3, <2>4 DEF Wrote, Looked
  <2>5. CASE u.res = "ok"
    <3> DEFINE w == [u.win EXCEPT ![c] = v]
               d == [u.disk EXCEPT ![u.wsect] = w]
    <3>1. Base(u) /\ u.wsect = FatOf(c)
      BY <2>3, <2>5 DEF Looked
    <3>2. t = [u EXCEPT !.win = w, !.dirty = TRUE]
      BY <2>1, <2>5
    <3>3. u.disk = [x \in Sectors |-> u.disk[x]] /\ DiskOK(Seen(u))
      BY <3>1 DEF Base, DiskOK
    <3>4. Seen(u) = [u.disk EXCEPT ![FatOf(c)] = u.win] /\ Seen(u) = Seen(s)
      BY <3>1, <2>2, <2>3 DEF Seen, Looked
    <3>5. u.win \in [TableOf(FatOf(c)) -> Nat]
      BY <3>3, <3>4, <2>2, <1>2 DEF DiskOK
    <3>6. w \in [TableOf(FatOf(c)) -> Nat]
      BY <3>5
    <3>7. d = [Seen(s) EXCEPT ![FatOf(c)] = w]
      BY <3>1, <3>3, <3>4, <2>2
    <3>8. d = [x \in Sectors |-> d[x]] /\ d[FatOf(c)] = w /\ \A x \in Sectors : x # FatOf(c) => d[x] = Seen(s)[x]
      BY <3>1, <3>3, <3>4, <2>2
    <3>9. d[Dir] = Seen(s)[Dir]
      BY <3>8, <2>2, SectorFacts
    <3>10. DiskOK(d)
      <4>1. \A e \in Clusters : d[FatOf(e)] \in [TableOf(FatOf(e)) -> Nat]
        BY <3>8, <3>6, <3>3, <3>4, SectorFacts DEF DiskOK
      <4>2. d[Dir] \in [Names -> [used : BOOLEAN, first : {0} \union Clusters, size : Nat]]
        BY <3>9, <3>3, <3>4 DEF DiskOK
      <4> QED  BY <3>8, <4>1, <4>2 DEF DiskOK
    <3>11. Tab(d) = [Tab(Seen(s)) EXCEPT ![c] = v]
      <4>1. \A e \in Clusters : d[FatOf(e)][e] = IF e = c THEN v ELSE Seen(s)[FatOf(e)][e]
        <5> TAKE e \in Clusters
        <5>1. CASE FatOf(e) # FatOf(c)
          <6>1. d[FatOf(e)] = Seen(s)[FatOf(e)] /\ e # c
            BY <5>1, <3>8, SectorFacts
          <6> HIDE DEF w, d
          <6> QED  BY <6>1
        <5>2. CASE FatOf(e) = FatOf(c)
          <6>1. e \in TableOf(FatOf(c)) /\ c \in TableOf(FatOf(c))
            BY <5>2, <1>2 DEF TableOf
          <6>2. w[e] = IF e = c THEN v ELSE u.win[e]
            BY <6>1, <3>5
          <6>3. Seen(s)[FatOf(e)] = u.win
            BY <5>2, <3>3, <3>4, <2>2
          <6>4. d[FatOf(e)] = w
            BY <3>8, <5>2
          <6> HIDE DEF w, d
          <6> QED  BY <6>2, <6>3, <6>4
        <5> QED  BY <5>1, <5>2
      <4> HIDE DEF d
      <4> QED  BY <4>1, <1>2 DEF Tab, Next_
    <3>14. d = Laid(u, w) /\ t = Changed(u, w)
      BY <3>2 DEF Laid, Changed
    <3> HIDE DEF w, d
    <3>12. /\ Base(t) /\ Kept(u, t) /\ t.media = u.media /\ t.res = u.res /\ t.val = u.val
           /\ Seen(t) = d
      BY <3>1, <3>10, <3>14, <2>2, ChangingWindow
    <3>13. Wrote(s, t)
      BY <3>12, <2>3 DEF Wrote, Looked, Kept
    <3> QED  BY <3>12, <3>13, <3>11, <3>9, <2>3, <2>5, <1>2
  <2> QED  BY <2>4, <2>5
<1> QED  BY <1>1, <1>2

\* What an entry of the directory can be.
EntrySet == [used : BOOLEAN, first : {0} \union Clusters, size : Nat]

\* An entry of the directory, which the window shows, is changed.
LEMMA Entering ==
    ASSUME NEW s, Base(s), s.wsect = Dir, NEW n \in Names, NEW e \in EntrySet
    PROVE  /\ Wrote(s, SetEntry(s, n, e)) /\ SetEntry(s, n, e).media = s.media
           /\ SetEntry(s, n, e).res = s.res /\ SetEntry(s, n, e).val = s.val
           /\ SetEntry(s, n, e).wsect = Dir
           /\ SetEntry(s, n, e).win = [s.win EXCEPT ![n] = e]
           /\ Tab(Seen(SetEntry(s, n, e))) = Tab(Seen(s))
           /\ Seen(SetEntry(s, n, e))[Dir] = [Seen(s)[Dir] EXCEPT ![n] = e]
<1> DEFINE t == SetEntry(s, n, e)
           w == [s.win EXCEPT ![n] = e]
           d == [s.disk EXCEPT ![s.wsect] = w]
<1>1. t = [s EXCEPT !.win = w, !.dirty = TRUE]
  BY DEF SetEntry
<1>2. s.disk = [x \in Sectors |-> s.disk[x]] /\ DiskOK(Seen(s))
  BY DEF Base, DiskOK
<1>3. Seen(s) = [s.disk EXCEPT ![Dir] = s.win] /\ Dir \in Sectors /\ s.wsect # Nowhere
  BY SectorFacts DEF Seen
<1>4. s.win = Seen(s)[Dir] /\ s.win \in [Names -> EntrySet]
  BY <1>2, <1>3 DEF DiskOK, EntrySet
<1>5. w \in [Names -> EntrySet]
  BY <1>4
<1>6. d = [x \in Sectors |-> d[x]] /\ d[Dir] = w /\ \A x \in Sectors : x # Dir => d[x] = Seen(s)[x]
  BY <1>2, <1>3
<1>7. \A c \in Clusters : d[FatOf(c)] = Seen(s)[FatOf(c)]
  BY <1>6, SectorFacts
<1>8. DiskOK(d)
  BY <1>2, <1>5, <1>6, <1>7 DEF DiskOK, EntrySet
<1>10. d[Dir] = [Seen(s)[Dir] EXCEPT ![n] = e]
  BY <1>4, <1>6
<1>12. d = Laid(s, w) /\ t = Changed(s, w)
  BY <1>1 DEF Laid, Changed
<1> HIDE DEF d, w, t
<1>9. Tab(d) = Tab(Seen(s))
  BY <1>7 DEF Tab, Next_
<1>11. /\ Base(t) /\ Kept(s, t) /\ t.media = s.media /\ t.res = s.res /\ t.val = s.val
       /\ t.wsect = s.wsect /\ t.win = w /\ Seen(t) = d
  BY <1>8, <1>3, <1>12, ChangingWindow
<1> QED  BY <1>9, <1>10, <1>11 DEF Wrote, t, w

\* A window on the directory shows the entries.
LEMMA ShowsDir ==
    ASSUME NEW s, Base(s), s.wsect = Dir
    PROVE  s.win = Seen(s)[Dir] /\ s.win \in [Names -> EntrySet]
<1>2. s.disk = [x \in Sectors |-> s.disk[x]] /\ DiskOK(Seen(s))
  BY DEF Base, DiskOK
<1>3. Seen(s) = [s.disk EXCEPT ![Dir] = s.win] /\ Dir \in Sectors /\ s.wsect # Nowhere
  BY SectorFacts DEF Seen
<1> QED  BY <1>2, <1>3 DEF DiskOK, EntrySet

\* The contents of a cluster are written past the window.
LEMMA WritingData ==
    ASSUME NEW s, Base(s), s.res = "ok", NEW c \in Clusters, NEW v, NEW t \in DiskWrite(s, c, v)
    PROVE  /\ Base(t) /\ Kept(s, t) /\ t.res \in {"ok", "disk_err"} /\ t.val = s.val
           /\ Tab(Seen(t)) = Tab(Seen(s)) /\ Seen(t)[Dir] = Seen(s)[Dir]
           /\ Tab(t.disk) = Tab(s.disk) /\ t.disk[Dir] = s.disk[Dir]
           /\ t.media \subseteq s.media \union {t.disk}
<1>1. CASE t \in Fail(s)
  <2>1. Looked(s, t) /\ t.res = "disk_err" /\ t.val = s.val /\ t.disk = s.disk /\ t.media = s.media
    BY <1>1, Failing
  <2> QED  BY <2>1 DEF Looked
<1>2. CASE t \notin Fail(s)
  <2> DEFINE d == [s.disk EXCEPT ![c] = v]
  <2>1. t = [s EXCEPT !.disk = d, !.media = @ \union {d}]
    BY <1>2 DEF DiskWrite
  <2>2. s.disk = [x \in Sectors |-> s.disk[x]] /\ DiskOK(s.disk) /\ DiskOK(Seen(s)) /\ IsState(s)
    BY DEF Base, DiskOK
  <2>3. c \in Sectors /\ c # Dir /\ c \notin FatSectors /\ Dir \in Sectors
    BY SectorFacts
  <2>4. d = [x \in Sectors |-> d[x]] /\ d[c] = v /\ \A x \in Sectors : x # c => d[x] = s.disk[x]
    BY <2>2, <2>3
  <2>5. d[Dir] = s.disk[Dir] /\ \A e \in Clusters : d[FatOf(e)] = s.disk[FatOf(e)]
    BY <2>3, <2>4, SectorFacts
  <2>6. DiskOK(d)
    BY <2>2, <2>4, <2>5 DEF DiskOK
  <2> HIDE DEF d
  <2>7. Tab(d) = Tab(s.disk)
    BY <2>5 DEF Tab, Next_
  <2>8. IsState(t) /\ t.disk = d /\ t.media = s.media \union {d} /\ t.win = s.win /\ t.wsect = s.wsect
        /\ t.dirty = s.dirty /\ Kept(s, t) /\ t.res = "ok" /\ t.val = s.val
    BY <2>1, <2>2 DEF IsState, Kept
  <2>9. \A x \in Sectors : x # c => Seen(t)[x] = Seen(s)[x]
    <3>1. CASE s.wsect = Nowhere
      BY <3>1, <2>8, <2>4 DEF Seen
    <3>2. CASE s.wsect # Nowhere
      BY <3>2, <2>8, <2>4, <2>2 DEF Seen
    <3> QED  BY <3>1, <3>2
  <2>10. Seen(t) = [x \in Sectors |-> Seen(t)[x]]
    BY <2>4, <2>8 DEF Seen
  <2>11. Seen(t)[Dir] = Seen(s)[Dir] /\ \A e \in Clusters : Seen(t)[FatOf(e)] = Seen(s)[FatOf(e)]
    BY <2>3, <2>9, SectorFacts
  <2>12. DiskOK(Seen(t))
    BY <2>2, <2>10, <2>11 DEF DiskOK
  <2>13. Tab(Seen(t)) = Tab(Seen(s))
    BY <2>11 DEF Tab, Next_
  <2>14. ~t.dirty /\ t.wsect # Nowhere => t.win = t.disk[t.wsect]
    <3>1. ASSUME ~t.dirty, t.wsect # Nowhere PROVE t.win = t.disk[t.wsect]
      <4>1. t.wsect \in Sectors /\ t.wsect # c
        BY <3>1, <2>8, <2>3, SectorFacts DEF Base
      <4> QED  BY <4>1, <2>8, <2>4, <3>1 DEF Base
    <3> QED  BY <3>1
  <2>15. Base(t)
    BY <2>6, <2>8, <2>12, <2>14 DEF Base
  <2> QED  BY <2>15, <2>8, <2>11, <2>13, <2>5, <2>7
<1> QED  BY <1>1, <1>2

-----------------------------------------------------------------------------
\* Sound volumes.

\* The chain from h has room for a size.
Room(T, h, size) ==
    \E m \in Nat : \E q \in [1..m -> Clusters] : Walk(T, h, q, m) /\ size <= SectorSize * m

\* The current cluster of a file is the one of its position, and the buffer
\* shows it unless the position is at its end.
At(T, f) ==
    f.err = "ok" /\ f.ptr > 0 =>
        \E m \in Nat \ {0} : \E q \in [1..m -> Clusters] :
            /\ Walk(T, f.first, q, m) /\ q[m] = f.clust
            /\ SectorSize * (m - 1) < f.ptr /\ f.ptr <= SectorSize * m
            /\ f.ptr = SectorSize * m \/ f.sect = f.clust

\* An open file: its chain has room for it, and its current cluster is right.
FileOK(T, f) ==
    /\ f.first \in {0} \union Clusters /\ f.size \in Nat /\ f.ptr \in Nat
    /\ f.dirty => f.sect \in Clusters
    /\ Room(T, f.first, f.size)
    /\ At(T, f)

\* A name's entry or its file has its chain begin at h.
Claims(E, L, F, n, h) ==
    \/ n \in L /\ E[n].used /\ E[n].first = h
    \/ F[n].open /\ F[n].first = h

\* A volume with table T and directory E, of whose names those in L are to be
\* relied on, with the files F open: every chain has one owner and starts where
\* nothing leads to, and has room for its file.
Sound(T, E, L, F) ==
    /\ Proper(T)
    /\ \A n \in Names, h \in Clusters : Claims(E, L, F, n, h) => Starts(T, h)
    /\ \A n, m \in Names, g, h \in Clusters :
           Claims(E, L, F, n, g) /\ Claims(E, L, F, m, h) => (n = m <=> g = h)
    /\ \A n \in L : E[n].used => Room(T, E[n].first, E[n].size)
    /\ \A n \in L : E[n].used /\ F[n].open => E[n].first \in {0, F[n].first}
    /\ \A n \in Names : F[n].open => FileOK(T, F[n])

\* No file is open.
NoFiles == [n \in Names |-> Closed]

\* The volume is sound, as seen with the open files and as on the disk whenever
\* the power goes.
Safe(s, L, F) ==
    /\ Base(s)
    /\ \A x \in s.media : Sound(Tab(x), x[Dir], L, NoFiles)
    /\ Sound(Tab(Seen(s)), Seen(s)[Dir], L, F)

\* The free clusters of a table.
Zeros(T) == {c \in Clusters : T[c] = 0}

\* The count of free clusters, when it is sure, is right.
FreeOK(s) ==
    /\ s.free \in 0..Unknown /\ s.last \in 0..(NFatEnt - 1)
    /\ s.sure /\ s.res # "disk_err" => s.free = Cardinality(Zeros(Tab(Seen(s))))

\* Room stays when the walks do.
LEMMA RoomKept ==
    ASSUME NEW T, NEW U, NEW h \in {0} \union Clusters, NEW size, Room(T, h, size),
           h \in Clusters => Keeps(T, U, h)
    PROVE  Room(U, h, size)
<1>1. PICK m \in Nat : \E q \in [1..m -> Clusters] : Walk(T, h, q, m) /\ size <= SectorSize * m
  BY DEF Room
<1>2. PICK q \in [1..m -> Clusters] : Walk(T, h, q, m) /\ size <= SectorSize * m
  BY <1>1
<1>3. Walk(U, h, q, m)
  <2>1. CASE h \in Clusters
    BY <2>1, <1>2 DEF Keeps
  <2>2. CASE h \notin Clusters
    <3>1. m = 0
      BY <2>2, <1>2 DEF Walk
    <3> QED  BY <3>1, <1>2 DEF Walk
  <2> QED  BY <2>1, <2>2
<1> QED  BY <1>2, <1>3 DEF Room

\* So does the place of a file.
LEMMA AtKept ==
    ASSUME NEW T, NEW U, NEW f, f.first \in {0} \union Clusters, At(T, f),
           f.first \in Clusters => Keeps(T, U, f.first)
    PROVE  At(U, f)
<1>1. SUFFICES ASSUME f.err = "ok" /\ f.ptr > 0
      PROVE \E m \in Nat \ {0} : \E q \in [1..m -> Clusters] :
            /\ Walk(U, f.first, q, m) /\ q[m] = f.clust
            /\ SectorSize * (m - 1) < f.ptr /\ f.ptr <= SectorSize * m
            /\ f.ptr = SectorSize * m \/ f.sect = f.clust
  BY DEF At
<1>2. PICK m \in Nat \ {0} : \E q \in [1..m -> Clusters] :
            /\ Walk(T, f.first, q, m) /\ q[m] = f.clust
            /\ SectorSize * (m - 1) < f.ptr /\ f.ptr <= SectorSize * m
            /\ f.ptr = SectorSize * m \/ f.sect = f.clust
  BY <1>1 DEF At
<1>3. PICK q \in [1..m -> Clusters] :
            /\ Walk(T, f.first, q, m) /\ q[m] = f.clust
            /\ SectorSize * (m - 1) < f.ptr /\ f.ptr <= SectorSize * m
            /\ f.ptr = SectorSize * m \/ f.sect = f.clust
  BY <1>2
<1>4. f.first \in Clusters
  <2>1. q[1] = f.first /\ 1 \in 1..m
    BY <1>3 DEF Walk
  <2> QED  BY <2>1
<1>5. Walk(U, f.first, q, m)
  BY <1>3, <1>4 DEF Keeps
<1> QED  BY <1>3, <1>5

\* And the file.
LEMMA FileKept ==
    ASSUME NEW T, NEW U, NEW f, FileOK(T, f), f.first \in Clusters => Keeps(T, U, f.first)
    PROVE  FileOK(U, f)
<1>1. Room(U, f.first, f.size)
  BY RoomKept DEF FileOK
<1>2. At(U, f)
  BY AtKept DEF FileOK
<1> QED  BY <1>1, <1>2 DEF FileOK

\* What the directory can be.
Entries == [Names -> EntrySet]

\* A volume stays sound in a table that keeps every chain that is claimed.
LEMMA SoundTable ==
    ASSUME NEW T, NEW U, NEW E \in Entries, NEW L \in SUBSET Names, NEW F, Sound(T, E, L, F),
           Proper(U),
           \A h \in Clusters : \A n \in Names :
               Starts(T, h) /\ Claims(E, L, F, n, h) => Starts(U, h) /\ Keeps(T, U, h)
    PROVE  Sound(U, E, L, F)
<1>1. ASSUME NEW n \in Names, NEW h \in Clusters, Claims(E, L, F, n, h)
      PROVE  Starts(U, h) /\ Keeps(T, U, h)
  BY <1>1 DEF Sound
<1>2. ASSUME NEW n \in L, E[n].used PROVE Room(U, E[n].first, E[n].size)
  <2>1. E[n].first \in {0} \union Clusters
    BY DEF Entries, EntrySet
  <2>2. E[n].first \in Clusters => Keeps(T, U, E[n].first)
    BY <1>1, <1>2 DEF Claims
  <2>3. Room(T, E[n].first, E[n].size)
    BY <1>2 DEF Sound
  <2> QED  BY <2>1, <2>2, <2>3, RoomKept
<1>3. ASSUME NEW n \in Names, F[n].open PROVE FileOK(U, F[n])
  <2>1. FileOK(T, F[n])
    BY <1>3 DEF Sound
  <2>2. F[n].first \in Clusters => Keeps(T, U, F[n].first)
    BY <1>1, <1>3 DEF Claims
  <2> QED  BY <2>1, <2>2, FileKept
<1> QED  BY <1>1, <1>2, <1>3 DEF Sound

\* A volume is sound with fewer names to be relied on and fewer files open.
LEMMA SoundLess ==
    ASSUME NEW T, NEW E, NEW L \in SUBSET Names, NEW F, Sound(T, E, L, F), NEW M \in SUBSET L, NEW G,
           \A n \in Names : G[n].open => F[n].open /\ G[n] = F[n]
    PROVE  Sound(T, E, M, G)
<1>1. \A n, h : Claims(E, M, G, n, h) /\ n \in Names => Claims(E, L, F, n, h)
  BY DEF Claims
<1>2. \A n \in M : E[n].used /\ G[n].open => E[n].first \in {0, G[n].first}
  <2> TAKE n \in M
  <2>1. G[n].open => F[n].open /\ G[n].first = F[n].first
    BY DEF Sound
  <2> QED  BY <2>1 DEF Sound
<1>3. \A n \in Names : G[n].open => FileOK(T, G[n])
  BY DEF Sound
<1> QED  BY <1>1, <1>2, <1>3 DEF Sound

\* None is open in NoFiles.
LEMMA NoFilesOpen == \A n \in Names : ~NoFiles[n].open
  BY DEF NoFiles, Closed

\* What the disk can hold after a step is what it could before, or was seen.
LEMMA SafeStep ==
    ASSUME NEW s, NEW L \in SUBSET Names, NEW F, Safe(s, L, F), NEW M \in SUBSET L, NEW G,
           NEW t, Base(t), t.media \subseteq s.media \union {Seen(s)},
           Sound(Tab(Seen(t)), Seen(t)[Dir], M, G)
    PROVE  Safe(t, M, G)
<1>1. \A x \in s.media : Sound(Tab(x), x[Dir], M, NoFiles)
  <2> TAKE x \in s.media
  <2>1. Sound(Tab(x), x[Dir], L, NoFiles)
    BY DEF Safe
  <2> QED  BY <2>1, SoundLess, NoFilesOpen
<1>2. Sound(Tab(Seen(s)), Seen(s)[Dir], M, NoFiles)
  <2>1. Sound(Tab(Seen(s)), Seen(s)[Dir], L, F)
    BY DEF Safe
  <2> QED  BY <2>1, SoundLess, NoFilesOpen
<1> QED  BY <1>1, <1>2 DEF Safe

\* Looking is safe.
LEMMA SafeLooked ==
    ASSUME NEW s, NEW L \in SUBSET Names, NEW F, Safe(s, L, F), NEW t, Looked(s, t)
    PROVE  Safe(t, L, F)
  BY SafeStep DEF Looked, Safe

\* What is seen has a table and a directory.
LEMMA SafeTyped ==
    ASSUME NEW s, Base(s)
    PROVE  Tab(Seen(s)) \in Tables /\ Seen(s)[Dir] \in Entries
  BY TabTyped DEF Base, DiskOK, Entries, EntrySet

\* Nothing leads to cluster c and nothing claims it.
Loose(T, E, L, F, c) ==
    c \in Clusters /\ (\A e \in Clusters : T[e] # c) /\ \A n \in Names : ~Claims(E, L, F, n, c)

\* A free cluster that is marked as an end is loose.
LEMMA SoundMark ==
    ASSUME NEW T \in Tables, NEW E \in Entries, NEW L \in SUBSET Names, NEW F, Sound(T, E, L, F),
           NEW c \in Clusters, T[c] = 0, NEW U, U = [T EXCEPT ![c] = EOC]
    PROVE  U \in Tables /\ Sound(U, E, L, F) /\ Starts(U, c) /\ Loose(U, E, L, F, c)
<1>1. Proper(T)
  BY DEF Sound
<1>2. /\ U \in Tables /\ Proper(U) /\ Starts(U, c)
      /\ \A h : Starts(T, h) => Starts(U, h) /\ h # c
      /\ \A h : Keeps(T, U, h)
  BY <1>1, Marking
<1>3. Sound(U, E, L, F)
  BY <1>2, SoundTable
<1>4. \A n \in Names : ~Claims(E, L, F, n, c)
  BY <1>2 DEF Sound
<1> QED  BY <1>2, <1>3, <1>4 DEF Loose, Starts

\* A loose chain is linked to the end of another.
LEMMA SoundLink ==
    ASSUME NEW T \in Tables, NEW E \in Entries, NEW L \in SUBSET Names, NEW F, Sound(T, E, L, F),
           NEW c \in Clusters, T[c] # 0, T[c] \notin Clusters,
           NEW new \in Clusters, Starts(T, new), Loose(T, E, L, F, new), NEW U, U = Put(T, c, new)
    PROVE  U \in Tables /\ Sound(U, E, L, F) /\ U[c] = new
<1>1. Proper(T)
  BY DEF Sound
<1>2. /\ U \in Tables /\ Proper(U) /\ U[c] = new
      /\ \A h : Starts(T, h) /\ h # new => Starts(U, h)
      /\ \A h : Keeps(T, U, h)
  BY <1>1, Linking
<1>3. Sound(U, E, L, F)
  BY <1>2, SoundTable DEF Loose
<1> QED  BY <1>2, <1>3

\* A loose cluster is freed, and the next one is then loose.
LEMMA SoundFree ==
    ASSUME NEW T \in Tables, NEW E \in Entries, NEW L \in SUBSET Names, NEW F, Sound(T, E, L, F),
           NEW c, Loose(T, E, L, F, c), NEW U, U = [T EXCEPT ![c] = 0]
    PROVE  U \in Tables /\ Sound(U, E, L, F) /\ (T[c] \in Clusters => Loose(U, E, L, F, T[c]))
<1>1. Proper(T) /\ c \in Clusters /\ \A e \in Clusters : T[e] # c
  BY DEF Sound, Loose
<1>2. /\ U \in Tables /\ Proper(U)
      /\ T[c] \in Clusters => \A e \in Clusters : U[e] # T[c]
      /\ T[c] \in Clusters => ~Starts(T, T[c])
      /\ \A h : Starts(T, h) /\ h # c => Starts(U, h) /\ Keeps(T, U, h)
  BY <1>1, Freeing
<1>3. Sound(U, E, L, F)
  BY <1>2, SoundTable DEF Loose
<1>4. T[c] \in Clusters => \A n \in Names : ~Claims(E, L, F, n, T[c])
  BY <1>2 DEF Sound
<1> QED  BY <1>2, <1>3, <1>4 DEF Loose

\* How the number of free clusters changes with the table.
LEMMA ZerosFacts ==
    ASSUME NEW T \in Tables
    PROVE  /\ IsFiniteSet(Zeros(T)) /\ Cardinality(Zeros(T)) \in 0..(NFatEnt - 2)
           /\ \A c \in Clusters, v \in Nat : v # 0 /\ T[c] = 0 =>
                  /\ Cardinality(Zeros([T EXCEPT ![c] = v])) = Cardinality(Zeros(T)) - 1
                  /\ Cardinality(Zeros(T)) > 0
           /\ \A c \in Clusters : T[c] # 0 =>
                  /\ Cardinality(Zeros([T EXCEPT ![c] = 0])) = Cardinality(Zeros(T)) + 1
                  /\ Cardinality(Zeros(T)) < NFatEnt - 2
           /\ \A c \in Clusters, v \in Nat : v # 0 /\ T[c] # 0 => Zeros([T EXCEPT ![c] = v]) = Zeros(T)
<1>1. IsFiniteSet(Clusters) /\ Cardinality(Clusters) = NFatEnt - 2
  <2>1. 2 \in Int /\ NFatEnt - 1 \in Int
    BY VolumeAssumption
  <2>2. IsFiniteSet(2..(NFatEnt - 1)) /\ Cardinality(2..(NFatEnt - 1)) = IF 2 > NFatEnt - 1 THEN 0 ELSE (NFatEnt - 1) - 2 + 1
    BY <2>1, FS_Interval
  <2> QED  BY <2>2, VolumeAssumption DEF Clusters
<1>2. ASSUME NEW U \in Tables
      PROVE  IsFiniteSet(Zeros(U)) /\ Cardinality(Zeros(U)) \in Nat /\ Cardinality(Zeros(U)) <= NFatEnt - 2
             /\ (Zeros(U) # Clusters => Cardinality(Zeros(U)) < NFatEnt - 2)
  <2>1. Zeros(U) \subseteq Clusters
    BY DEF Zeros
  <2> QED  BY <2>1, <1>1, FS_Subset, FS_CardinalityType
<1>3. ASSUME NEW c \in Clusters, NEW v \in Nat, v # 0, T[c] = 0
      PROVE  Cardinality(Zeros([T EXCEPT ![c] = v])) = Cardinality(Zeros(T)) - 1 /\ Cardinality(Zeros(T)) > 0
  <2>1. Zeros([T EXCEPT ![c] = v]) = Zeros(T) \ {c} /\ c \in Zeros(T)
    BY <1>3 DEF Zeros, Tables
  <2>2. Cardinality(Zeros(T) \ {c}) = Cardinality(Zeros(T)) - 1
    BY <2>1, <1>2, FS_RemoveElement
  <2>3. Cardinality(Zeros(T)) # 0
    BY <2>1, <1>2, FS_EmptySet
  <2>4. Cardinality(Zeros(T)) \in Nat
    BY <1>2
  <2>5. Cardinality(Zeros([T EXCEPT ![c] = v])) = Cardinality(Zeros(T)) - 1
    BY <2>1, <2>2
  <2> QED  BY <2>3, <2>4, <2>5
<1>4. ASSUME NEW c \in Clusters, T[c] # 0
      PROVE  Cardinality(Zeros([T EXCEPT ![c] = 0])) = Cardinality(Zeros(T)) + 1 /\ Cardinality(Zeros(T)) < NFatEnt - 2
  <2>1. Zeros([T EXCEPT ![c] = 0]) = Zeros(T) \union {c} /\ c \notin Zeros(T)
    BY <1>4 DEF Zeros, Tables
  <2>2. Cardinality(Zeros(T) \union {c}) = Cardinality(Zeros(T)) + 1
    BY <2>1, <1>2, FS_AddElement
  <2> QED  BY <2>1, <2>2, <1>2
<1>5. \A c \in Clusters, v \in Nat : v # 0 /\ T[c] # 0 => Zeros([T EXCEPT ![c] = v]) = Zeros(T)
  BY DEF Zeros, Tables
<1>6. NFatEnt \in Nat
  BY VolumeAssumption
<1> QED  BY <1>2, <1>3, <1>4, <1>5, <1>6

-----------------------------------------------------------------------------
\* The functions of the lower half.

\* The state of the driver in a call.
Fine(s, L, F) == Safe(s, L, F) /\ FreeOK(s)

\* What a function of the lower half returns.
Errs == {"ok", "disk_err", "int_err"}

\* From s to t in a function of the lower half that leaves the directory alone.
Worked(s, t, L, F) ==
    /\ Fine(t, L, F) /\ t.f = s.f /\ t.out = s.out /\ t.res \in Errs
    /\ Seen(t)[Dir] = Seen(s)[Dir]

\* Fields that Base does not read may change.
LEMMA BaseSame ==
    ASSUME NEW s, Base(s), NEW t, IsState(t), t.disk = s.disk, t.win = s.win, t.wsect = s.wsect,
           t.dirty = s.dirty, t.media = s.media
    PROVE  Base(t) /\ Seen(t) = Seen(s)
<1>1. Seen(t) = Seen(s)
  BY DEF Seen
<1> QED  BY <1>1 DEF Base

\* Nor does Safe.
LEMMA SafeSame ==
    ASSUME NEW s, NEW L, NEW F, Safe(s, L, F), NEW t, IsState(t), t.disk = s.disk, t.win = s.win,
           t.wsect = s.wsect, t.dirty = s.dirty, t.media = s.media
    PROVE  Safe(t, L, F) /\ Seen(t) = Seen(s)
<1>1. Base(t) /\ Seen(t) = Seen(s)
  BY BaseSame DEF Safe
<1> QED  BY <1>1 DEF Safe

\* Looking is fine.
LEMMA FineLooked ==
    ASSUME NEW s, NEW L \in SUBSET Names, NEW F, Fine(s, L, F), s.res # "disk_err",
           NEW t, Looked(s, t), t.res \in Errs
    PROVE  Worked(s, t, L, F)
  BY SafeLooked DEF Fine, FreeOK, Looked, Kept, Worked

\* Two functions one after the other.
LEMMA WorkedOn ==
    ASSUME NEW s, NEW t, NEW u, NEW L, NEW F, Worked(s, t, L, F), Worked(t, u, L, F)
    PROVE  Worked(s, u, L, F)
  BY DEF Worked

\* get_fat in a call.
LEMMA GettingFine ==
    ASSUME NEW s, NEW L \in SUBSET Names, NEW F, Fine(s, L, F), s.res = "ok", NEW c, NEW t \in get_fat(s, c)
    PROVE  /\ Worked(s, t, L, F) /\ Seen(t) = Seen(s)
           /\ t.res = "ok" => c \in Clusters /\ t.val = Tab(Seen(s))[c] /\ t.val \in Nat
<1>1. Base(s)
  BY DEF Fine, Safe
<1>2. /\ Looked(s, t) /\ t.res \in {"ok", "disk_err", "int_err"}
      /\ t.res = "ok" => c \in Clusters /\ t.val = Tab(Seen(s))[c]
  BY <1>1, Getting
<1>3. Tab(Seen(s)) \in Tables
  BY <1>1, SafeTyped
<1>4. Worked(s, t, L, F)
  BY <1>2, FineLooked DEF Errs
<1> QED  BY <1>2, <1>3, <1>4 DEF Looked, Tables

\* A cluster is freed, and counted.
LEMMA FreeingOne ==
    ASSUME NEW s, NEW L \in SUBSET Names, NEW F, Fine(s, L, F), s.res = "ok",
           NEW c, Loose(Tab(Seen(s)), Seen(s)[Dir], L, F, c), Tab(Seen(s))[c] # 0,
           NEW u \in put_fat(s, c, 0)
    PROVE  /\ u.res # "ok" => Worked(s, u, L, F)
           /\ u.res = "ok" => /\ Worked(s, Freed(u), L, F) /\ Freed(u).val = s.val /\ Freed(u).res = "ok"
                              /\ Tab(Seen(s))[c] \in Clusters =>
                                     Loose(Tab(Seen(Freed(u))), Seen(s)[Dir], L, F, Tab(Seen(s))[c])
<1> DEFINE T == Tab(Seen(s))
           E == Seen(s)[Dir]
<1>1. Base(s) /\ c \in Clusters /\ Safe(s, L, F) /\ 0 \in Nat
  BY DEF Fine, Safe, Loose
<1>2. /\ Wrote(s, u) /\ u.res \in {"ok", "disk_err", "int_err"} /\ u.val = s.val
      /\ u.res # "ok" => Looked(s, u)
      /\ u.res = "ok" => Tab(Seen(u)) = [T EXCEPT ![c] = 0] /\ Seen(u)[Dir] = E
  BY <1>1, Putting
<1>3. u.res # "ok" => Worked(s, u, L, F)
  BY <1>2, FineLooked DEF Errs
<1>4. ASSUME u.res = "ok"
      PROVE  /\ Worked(s, Freed(u), L, F) /\ Freed(u).val = s.val /\ Freed(u).res = "ok"
             /\ T[c] \in Clusters => Loose(Tab(Seen(Freed(u))), E, L, F, T[c])
  <2> DEFINE U == Tab(Seen(u))
             t == Freed(u)
  <2>1. T \in Tables /\ E \in Entries
    BY <1>1, SafeTyped
  <2>2. U = [T EXCEPT ![c] = 0] /\ Seen(u)[Dir] = E
    BY <1>2, <1>4
  <2>3. Sound(T, E, L, F)
    BY <1>1 DEF Safe
  <2>4. Loose(T, E, L, F, c) /\ T[c] # 0
    OBVIOUS
  <2>5. /\ Cardinality(Zeros(U)) = Cardinality(Zeros(T)) + 1
        /\ Cardinality(Zeros(T)) < NFatEnt - 2 /\ Cardinality(Zeros(T)) \in 0..(NFatEnt - 2)
    BY <2>1, <2>2, <2>4, <1>1, ZerosFacts
  <2>6. Base(u) /\ Kept(s, u) /\ u.media \subseteq s.media \union {Seen(s)} /\ IsState(u)
    BY <1>2 DEF Wrote, Base
  <2>7. IsState(t) /\ t.disk = u.disk /\ t.win = u.win /\ t.wsect = u.wsect /\ t.dirty = u.dirty
        /\ t.media = u.media /\ t.free = (IF u.free = Unknown THEN u.free ELSE u.free + 1)
        /\ t.sure = u.sure /\ t.last = u.last /\ t.res = u.res /\ t.val = u.val /\ t.f = u.f /\ t.out = u.out
    BY <2>6 DEF IsState, Freed
  <2> HIDE DEF t
  <2>8. Base(t) /\ Seen(t) = Seen(u)
    BY <2>6, <2>7, BaseSame
  <2> HIDE DEF T, U, E
  <2>9. Sound(U, E, L, F) /\ (T[c] \in Clusters => Loose(U, E, L, F, T[c]))
    BY <2>1, <2>2, <2>3, <2>4, SoundFree
  <2>10. Safe(t, L, F)
    <3>1. Sound(Tab(Seen(t)), Seen(t)[Dir], L, F)
      BY <2>8, <2>9, <2>2 DEF U
    <3> QED  BY <3>1, <2>8, <2>7, <2>6, <1>1, SafeStep
  <2>11. FreeOK(t)
    <3>1. s.free \in 0..Unknown /\ s.last \in 0..(NFatEnt - 1) /\ (s.sure => s.free = Cardinality(Zeros(T)))
      BY DEF Fine, FreeOK, T
    <3>2. u.free = s.free /\ u.last = s.last /\ u.sure = s.sure
      BY <2>6 DEF Kept
    <3>3. NFatEnt \in Nat /\ Unknown = 2 * NFatEnt
      BY VolumeAssumption DEF Unknown
    <3>4. t.free \in 0..Unknown /\ t.last \in 0..(NFatEnt - 1)
      BY <3>1, <3>2, <3>3, <2>7
    <3>5. t.sure => t.free = Cardinality(Zeros(U))
      BY <3>1, <3>2, <3>3, <2>5, <2>7
    <3> QED  BY <3>4, <3>5, <2>8 DEF FreeOK, U
  <2>12. Worked(s, t, L, F)
    BY <2>10, <2>11, <2>7, <2>8, <2>6, <2>2, <1>4 DEF Worked, Fine, Kept, Errs, E
  <2> QED  BY <2>12, <2>7, <2>8, <2>9, <1>2, <1>4 DEF t, U, T, E
<1> QED  BY <1>3, <1>4

\* FreeCluster frees a loose cluster and returns the next, then loose.
LEMMA FreeingCluster ==
    ASSUME NEW s, NEW L \in SUBSET Names, NEW F, Fine(s, L, F), s.res = "ok",
           NEW c, Loose(Tab(Seen(s)), Seen(s)[Dir], L, F, c), NEW t \in FreeCluster(s, c)
    PROVE  /\ Worked(s, t, L, F)
           /\ t.res = "ok" /\ t.val \in Clusters => Loose(Tab(Seen(t)), Seen(s)[Dir], L, F, t.val)
<1>1. PICK g \in get_fat(s, c) :
         /\ g.res # "ok" \/ g.val = 0 => t = g
         /\ g.res = "ok" /\ g.val = 1 => t = [g EXCEPT !.res = "int_err"]
         /\ g.res = "ok" /\ g.val # 0 /\ g.val # 1 =>
                t \in Then(put_fat(g, c, 0), LAMBDA u : {Freed(u)})
  BY DEF FreeCluster, Then, Error
<1>2. /\ Worked(s, g, L, F) /\ Seen(g) = Seen(s)
      /\ g.res = "ok" => c \in Clusters /\ g.val = Tab(Seen(s))[c] /\ g.val \in Nat
  BY GettingFine
<1>3. CASE g.res # "ok"
  BY <1>1, <1>2, <1>3
<1>4. CASE g.res = "ok" /\ g.val = 0
  BY <1>1, <1>2, <1>4, ClustersFacts
<1>5. CASE g.res = "ok" /\ g.val = 1
  <2>1. t = [g EXCEPT !.res = "int_err"]
    BY <1>1, <1>5
  <2>2. Base(g)
    BY <1>2 DEF Worked, Fine, Safe
  <2>3. Looked(g, t) /\ t.res = "int_err"
    BY <2>1, <2>2, SetRes
  <2>4. Worked(g, t, L, F)
    BY <2>3, <1>2, <1>5, FineLooked DEF Worked, Errs
  <2> QED  BY <2>3, <2>4, <1>2, WorkedOn
<1>6. CASE g.res = "ok" /\ g.val # 0 /\ g.val # 1
  <2>1. PICK u \in put_fat(g, c, 0) : IF u.res = "ok" THEN t = Freed(u) ELSE t = u
    BY <1>1, <1>6 DEF Then
  <2>2. Fine(g, L, F) /\ Loose(Tab(Seen(g)), Seen(g)[Dir], L, F, c) /\ Tab(Seen(g))[c] = g.val
    BY <1>2, <1>6 DEF Worked
  <2>3. /\ u.res # "ok" => Worked(g, u, L, F)
        /\ u.res = "ok" => /\ Worked(g, Freed(u), L, F) /\ Freed(u).val = g.val /\ Freed(u).res = "ok"
                           /\ g.val \in Clusters => Loose(Tab(Seen(Freed(u))), Seen(g)[Dir], L, F, g.val)
    BY <2>2, <1>6, FreeingOne, ZenonT(60)
  <2> QED  BY <2>1, <2>3, <1>2, WorkedOn
<1> QED  BY <1>3, <1>4, <1>5, <1>6

\* The loop of remove_chain frees a loose chain.
LEMMA FreeingFrom ==
    ASSUME NEW s, NEW L \in SUBSET Names, NEW F, Fine(s, L, F), s.res = "ok",
           NEW c, Loose(Tab(Seen(s)), Seen(s)[Dir], L, F, c), NEW t \in FreeFrom(s, c)
    PROVE  Worked(s, t, L, F)
<1> DEFINE x0 == [s |-> s, at |-> c, go |-> TRUE]
           In(x) == /\ Worked(s, x.s, L, F)
                    /\ x.go => x.s.res = "ok" /\ Loose(Tab(Seen(x.s)), Seen(x.s)[Dir], L, F, x.at)
<1>1. NFatEnt - 1 \in Nat
  BY VolumeAssumption
<1>2. PICK U : LoopIn(Loop(FreeTurn, x0, NFatEnt - 1), U, "free", 0, x0)
  BY <1>1, FreeTurns
<1> DEFINE P == {x \in U : In(x)}
<1>3. x0 \in P
  <2>1. Worked(s, s, L, F)
    BY DEF Worked, Errs
  <2> QED  BY <2>1, <1>2 DEF LoopIn
<1>4. ASSUME NEW y \in P, y.go, NEW z \in FreeTurn(y) PROVE In(z)
  <2>1. PICK v \in FreeCluster(y.s, y.at) :
           z = [s |-> v, at |-> v.val, go |-> v.res = "ok" /\ v.val \in Clusters]
    BY <1>4 DEF FreeTurn
  <2>2. Worked(s, y.s, L, F) /\ y.s.res = "ok" /\ Loose(Tab(Seen(y.s)), Seen(y.s)[Dir], L, F, y.at)
    BY <1>4
  <2>3. /\ Worked(y.s, v, L, F)
        /\ v.res = "ok" /\ v.val \in Clusters => Loose(Tab(Seen(v)), Seen(y.s)[Dir], L, F, v.val)
    BY <2>2, FreeingCluster DEF Worked
  <2>4. Worked(s, v, L, F) /\ Seen(v)[Dir] = Seen(y.s)[Dir]
    BY <2>2, <2>3, WorkedOn DEF Worked
  <2> QED  BY <2>1, <2>3, <2>4
<1>5. KeptByTurns(P, U, "free", 0)
  <2> HIDE DEF In
  <2> QED  BY <1>4 DEF KeptByTurns, AnyTurn
<1>6. Loop(FreeTurn, x0, NFatEnt - 1) \subseteq P
  <2> HIDE DEF P, x0
  <2>1. P \in SUBSET U
    BY DEF P
  <2> QED  BY <2>1, <1>2, <1>3, <1>5 DEF LoopIn
<1>7. PICK x \in Loop(FreeTurn, x0, NFatEnt - 1) : t = x.s
  BY DEF FreeFrom
<1>8. In(x)
  BY <1>6, <1>7
<1> QED  BY <1>7, <1>8

\* remove_chain of a whole chain that is loose.
LEMMA Removing ==
    ASSUME NEW s, NEW L \in SUBSET Names, NEW F, Fine(s, L, F), s.res = "ok",
           NEW c, c \in Clusters => Loose(Tab(Seen(s)), Seen(s)[Dir], L, F, c),
           NEW t \in remove_chain(s, c, 0)
    PROVE  Worked(s, t, L, F)
<1>1. CASE c \notin Clusters
  <2>1. t = [s EXCEPT !.res = "int_err"]
    BY <1>1 DEF remove_chain, Error
  <2>2. Looked(s, t) /\ t.res = "int_err"
    BY <2>1, SetRes DEF Fine, Safe
  <2> QED  BY <2>2, FineLooked DEF Errs
<1>2. CASE c \in Clusters
  <2>1. t \in FreeFrom(s, c)
    BY <1>2 DEF remove_chain, Then
  <2> QED  BY <2>1, <1>2, FreeingFrom
<1> QED  BY <1>1, <1>2

\* A file, and a walk to the cluster of its position.
Placed(T, f, r, k) ==
    /\ k \in Nat \ {0} /\ r \in [1..k -> Clusters] /\ Walk(T, f.first, r, k) /\ r[k] = f.clust
    /\ SectorSize * (k - 1) < f.ptr /\ f.ptr <= SectorSize * k
    /\ f.ptr = SectorSize * k \/ f.sect = f.clust

\* A file that ends within its first k clusters is cut after the k-th.
LEMMA SoundCut ==
    ASSUME NEW T \in Tables, NEW E \in Entries, NEW L \in SUBSET Names, NEW F, Sound(T, E, L, F),
           NEW n \in Names, n \notin L, F[n].open, NEW r, NEW k, Placed(T, F[n], r, k),
           F[n].size <= SectorSize * k, NEW p, p = F[n].clust, T[p] \in Clusters,
           NEW U, U = Put(T, p, EOC)
    PROVE  U \in Tables /\ Sound(U, E, L, F) /\ Loose(U, E, L, F, T[p])
<1> DEFINE h == F[n].first
<1>1. Proper(T) /\ FileOK(T, F[n])
  BY DEF Sound
<1>2. p \in Clusters /\ r[k] = p /\ k \in Nat \ {0} /\ Walk(T, h, r, k) /\ h \in Clusters
  <2>1. k \in 1..k /\ 1 \in 1..k /\ r[1] = F[n].first
    BY DEF Placed, Walk
  <2> QED  BY <2>1 DEF Placed, Walk
<1>3. Starts(T, h) /\ Claims(E, L, F, n, h)
  <2>1. Claims(E, L, F, n, h)
    BY DEF Claims
  <2> HIDE DEF h
  <2> QED  BY <2>1, <1>2 DEF Sound
<1> HIDE DEF h
<1>4. /\ U \in Tables /\ Proper(U)
      /\ \A e \in Clusters : U[e] # T[p]
      /\ ~Starts(T, T[p]) /\ U[T[p]] # 0
      /\ \A g : Starts(T, g) => Starts(U, g)
      /\ \A g : Starts(T, g) /\ g # h => Keeps(T, U, g)
      /\ Walk(U, h, r, k)
  BY <1>1, <1>2, <1>3, Cutting
<1>5. ASSUME NEW m \in Names, m # n, NEW g \in Clusters, Claims(E, L, F, m, g)
      PROVE  Starts(T, g) /\ g # h /\ Keeps(T, U, g)
  <2>1. Starts(T, g) /\ g # h
    BY <1>5, <1>3, <1>2 DEF Sound
  <2> QED  BY <2>1, <1>4
<1>6. ASSUME NEW m \in L, E[m].used PROVE Room(U, E[m].first, E[m].size)
  <2>1. E[m].first \in {0} \union Clusters /\ m # n
    BY DEF Entries, EntrySet
  <2>2. E[m].first \in Clusters => Keeps(T, U, E[m].first)
    BY <1>5, <1>6, <2>1 DEF Claims
  <2>3. Room(T, E[m].first, E[m].size)
    BY <1>6 DEF Sound
  <2> QED  BY <2>1, <2>2, <2>3, RoomKept
<1>7. ASSUME NEW m \in Names, F[m].open PROVE FileOK(U, F[m])
  <2>1. FileOK(T, F[m])
    BY <1>7 DEF Sound
  <2>2. CASE m # n
    <3>1. F[m].first \in Clusters => Keeps(T, U, F[m].first)
      BY <1>5, <1>7, <2>2 DEF Claims
    <3> QED  BY <3>1, <2>1, FileKept
  <2>3. CASE m = n
    <3>1. Walk(U, F[n].first, r, k) /\ r \in [1..k -> Clusters] /\ k \in Nat
      BY <1>4, <1>2 DEF h, Placed
    <3>2. Room(U, F[n].first, F[n].size)
      BY <3>1 DEF Room
    <3>3. At(U, F[n])
      BY <3>1 DEF At, Placed
    <3> QED  BY <3>2, <3>3, <2>1, <2>3 DEF FileOK
  <2> QED  BY <2>2, <2>3
<1>8. Sound(U, E, L, F)
  BY <1>4, <1>6, <1>7 DEF Sound
<1>9. \A m \in Names : ~Claims(E, L, F, m, T[p])
  BY <1>4 DEF Sound
<1> QED  BY <1>4, <1>8, <1>9 DEF Loose

\* The chain of a file ends at its place, and what followed is loose.
LEMMA CuttingOff ==
    ASSUME NEW s, NEW L \in SUBSET Names, NEW F, Fine(s, L, F), s.res = "ok",
           NEW n \in Names, n \notin L, F[n].open, NEW r, NEW k, Placed(Tab(Seen(s)), F[n], r, k),
           F[n].size <= SectorSize * k, NEW p, p = F[n].clust,
           NEW c \in Clusters, Tab(Seen(s))[p] = c,
           NEW u \in put_fat(s, p, EOC)
    PROVE  /\ p \in Clusters /\ p # 0 /\ Worked(s, u, L, F) /\ (u.res # "ok" => Looked(s, u))
           /\ u.res = "ok" => /\ Loose(Tab(Seen(u)), Seen(u)[Dir], L, F, c)
                              /\ Tab(Seen(u)) = Put(Tab(Seen(s)), p, EOC)
<1> DEFINE T == Tab(Seen(s))
           E == Seen(s)[Dir]
<1>0. p \in Clusters /\ p # 0
  <2>1. k \in 1..k
    BY DEF Placed
  <2> QED  BY <2>1, ClustersFacts DEF Placed
<1>2. Base(s) /\ Safe(s, L, F) /\ EOC \in Nat
  BY ClustersFacts DEF Fine, Safe
<1>3. /\ Wrote(s, u) /\ u.res \in {"ok", "disk_err", "int_err"} /\ u.val = s.val
      /\ u.res # "ok" => Looked(s, u)
      /\ u.res = "ok" => Tab(Seen(u)) = [T EXCEPT ![p] = EOC] /\ Seen(u)[Dir] = E
  BY <1>2, Putting
<1>4. CASE u.res # "ok"
  BY <1>0, <1>3, <1>4, FineLooked DEF Errs
<1>5. CASE u.res = "ok"
  <2> DEFINE U == Tab(Seen(u))
  <2>1. T \in Tables /\ E \in Entries /\ Sound(T, E, L, F) /\ Placed(T, F[n], r, k) /\ T[p] = c
    BY <1>2, SafeTyped DEF Safe
  <2>2. U = [T EXCEPT ![p] = EOC] /\ Seen(u)[Dir] = E
    BY <1>3, <1>5
  <2> HIDE DEF T, E, U
  <2>9. U = Put(T, p, EOC)
    BY <2>2 DEF Put
  <2>3. Sound(U, E, L, F) /\ Loose(U, E, L, F, c)
    <3>1. T[p] \in Clusters
      BY <2>1
    <3> QED  BY <2>1, <2>9, <3>1, SoundCut
  <2>4. Safe(u, L, F)
    BY <2>2, <2>3, <1>2, <1>3, SafeStep DEF U, Wrote
  <2>5. Zeros(U) = Zeros(T)
    BY <2>1, <2>2, <1>0, ClustersFacts, ZerosFacts
  <2>6. FreeOK(u)
    BY <2>5, <1>3, <1>5 DEF FreeOK, Fine, Wrote, Kept, U, T
  <2>7. Worked(s, u, L, F)
    BY <2>2, <2>4, <2>6, <1>3, <1>5 DEF Worked, Fine, Errs, Wrote, Kept, E
  <2> QED  BY <1>0, <1>5, <2>2, <2>3, <2>7, <2>9 DEF U, T
<1> QED  BY <1>4, <1>5

\* remove_chain of what follows the place of a file.
LEMMA CuttingChain ==
    ASSUME NEW s, NEW L \in SUBSET Names, NEW F, Fine(s, L, F), s.res = "ok",
           NEW n \in Names, n \notin L, F[n].open, NEW r, NEW k, Placed(Tab(Seen(s)), F[n], r, k),
           F[n].size <= SectorSize * k, NEW p, p = F[n].clust,
           NEW c \in Clusters, Tab(Seen(s))[p] = c,
           NEW t \in remove_chain(s, c, p)
    PROVE  Worked(s, t, L, F)
<1>0. \A u \in put_fat(s, p, EOC) :
         /\ p \in Clusters /\ p # 0 /\ Worked(s, u, L, F)
         /\ u.res = "ok" => Loose(Tab(Seen(u)), Seen(u)[Dir], L, F, c)
  BY CuttingOff, ZenonT(60)
<1>1. p # 0
  <2>1. k \in 1..k
    BY DEF Placed
  <2> QED  BY <2>1, ClustersFacts DEF Placed
<1>2. PICK u \in put_fat(s, p, EOC) : IF u.res = "ok" THEN t \in FreeFrom(u, c) ELSE t = u
  BY <1>1 DEF remove_chain, Then
<1>3. CASE u.res # "ok"
  BY <1>0, <1>2, <1>3
<1>4. CASE u.res = "ok"
  <2>1. Worked(u, t, L, F)
    BY <1>0, <1>2, <1>4, FreeingFrom DEF Worked
  <2> QED  BY <2>1, <1>0, WorkedOn
<1> QED  BY <1>3, <1>4

\* What create_chain returns: the cluster after c, or the first of a chain.
Followed(T, E, L, F, c, v) ==
    /\ v \in Clusters
    /\ c = 0 => Starts(T, v) /\ Loose(T, E, L, F, v)
    /\ c # 0 => c \in Clusters /\ T[c] = v

\* A free cluster is added to a chain, or begins one.
LEMMA Claiming ==
    ASSUME NEW s, NEW L \in SUBSET Names, NEW F, Fine(s, L, F), s.res = "ok",
           NEW new \in Clusters, Tab(Seen(s))[new] = 0,
           NEW c, c # 0 => c \in Clusters /\ Tab(Seen(s))[c] # 0 /\ Tab(Seen(s))[c] \notin Clusters,
           NEW t \in Claim(s, new, c)
    PROVE  /\ Worked(s, t, L, F)
           /\ t.res = "ok" => t.val = new /\ Followed(Tab(Seen(t)), Seen(s)[Dir], L, F, c, new)
<1> DEFINE T == Tab(Seen(s))
           E == Seen(s)[Dir]
<1>0. new # 0 /\ EOC \in Nat /\ new \in Nat
  BY ClustersFacts
<1>1. PICK v \in Link(s, new, c) :
         IF v.res = "ok" THEN t = [Taken(v) EXCEPT !.last = new, !.val = new] ELSE t = v
  BY <1>0 DEF Claim, Then
<1>2. PICK u \in put_fat(s, new, EOC) :
         IF u.res = "ok" THEN (IF c = 0 THEN v = u ELSE v \in put_fat(u, c, new)) ELSE v = u
  BY <1>1 DEF Link, Then
<1>3. Base(s) /\ Safe(s, L, F)
  BY DEF Fine, Safe
<1>4. T \in Tables /\ E \in Entries /\ Sound(T, E, L, F)
  BY <1>3, SafeTyped DEF Safe
<1>5. /\ Wrote(s, u) /\ u.res \in {"ok", "disk_err", "int_err"}
      /\ u.res = "int_err" => new \notin Clusters
      /\ u.res # "ok" => Looked(s, u)
      /\ u.res = "ok" => Tab(Seen(u)) = [T EXCEPT ![new] = EOC] /\ Seen(u)[Dir] = E
  BY <1>0, <1>3, Putting
<1>6. CASE u.res # "ok"
  <2>1. t = u
    BY <1>1, <1>2, <1>6
  <2> QED  BY <2>1, <1>5, <1>6, FineLooked DEF Errs
<1>7. CASE u.res = "ok"
  <2> DEFINE U == Tab(Seen(u))
             V == Tab(Seen(v))
  <2>1. U = [T EXCEPT ![new] = EOC] /\ Seen(u)[Dir] = E /\ T[new] = 0
    BY <1>5, <1>7
  <2>2. c # 0 => c \in Clusters /\ T[c] # 0 /\ T[c] \notin Clusters
    OBVIOUS
  <2>3. Base(u) /\ Kept(s, u) /\ u.media \subseteq s.media \union {Seen(s)}
    BY <1>5 DEF Wrote
  <2>4. c # 0 => /\ Wrote(u, v) /\ v.res \in {"ok", "disk_err", "int_err"}
                 /\ v.res = "int_err" => c \notin Clusters
                 /\ v.res # "ok" => Looked(u, v)
                 /\ v.res = "ok" => V = [U EXCEPT ![c] = new] /\ Seen(v)[Dir] = E
    BY <1>0, <1>2, <1>7, <2>1, <2>3, Putting
  <2> HIDE DEF T, E, U, V
  <2>5. U \in Tables /\ Sound(U, E, L, F) /\ Starts(U, new) /\ Loose(U, E, L, F, new)
    BY <1>4, <2>1, SoundMark
  <2>6. Safe(u, L, F)
    BY <2>1, <2>3, <2>5, <1>3, SafeStep DEF U
  <2>7. c # 0 => c # new /\ U[c] = T[c]
    BY <2>1, <2>2, <1>4 DEF Tables
  <2>8. CASE v.res # "ok"
    <3>1. c # 0 /\ t = v /\ Looked(u, v) /\ v.res = "disk_err"
      BY <1>1, <1>2, <1>7, <2>2, <2>4, <2>8
    <3>2. Safe(v, L, F)
      BY <3>1, <2>6, SafeLooked
    <3>3. FreeOK(v) /\ v.f = s.f /\ v.out = s.out /\ Seen(v)[Dir] = E
      BY <3>1, <2>1, <2>3 DEF FreeOK, Fine, Looked, Kept
    <3> QED  BY <3>1, <3>2, <3>3 DEF Worked, Fine, Errs, E
  <2>9. CASE v.res = "ok"
    <3>1. t = [Taken(v) EXCEPT !.last = new, !.val = new]
      BY <1>1, <2>9
    <3>2. /\ Base(v) /\ Kept(s, v) /\ Safe(v, L, F) /\ Seen(v)[Dir] = E
          /\ Followed(V, E, L, F, c, new) /\ Cardinality(Zeros(V)) = Cardinality(Zeros(T)) - 1
      <4>0. Cardinality(Zeros(U)) = Cardinality(Zeros(T)) - 1
        BY <1>4, <2>1, ClustersFacts, ZerosFacts
      <4>1. CASE c = 0
        <5>1. v = u
          BY <4>1, <1>2, <1>7
        <5>2. V = U
          BY <5>1 DEF V, U
        <5> QED  BY <4>0, <4>1, <5>1, <5>2, <2>1, <2>3, <2>5, <2>6 DEF Followed
      <4>2. CASE c # 0
        <5>1. V = [U EXCEPT ![c] = new] /\ Seen(v)[Dir] = E /\ Wrote(u, v)
          BY <4>2, <2>4, <2>9
        <5>5. V = Put(U, c, new)
          BY <5>1 DEF Put
        <5>2. V \in Tables /\ Sound(V, E, L, F) /\ V[c] = new
          BY <5>5, <4>2, <1>4, <2>2, <2>5, <2>7, SoundLink, SMTT(60)
        <5>3. Zeros(V) = Zeros(U)
          BY <5>1, <4>2, <2>2, <2>5, <2>7, <1>0, ZerosFacts
        <5>4. Safe(v, L, F)
          BY <5>1, <5>2, <2>6, SafeStep DEF V, Wrote
        <5> QED  BY <5>1, <5>2, <5>3, <5>4, <4>0, <4>2, <2>2, <2>3 DEF Followed, Wrote, Kept
      <4> QED  BY <4>1, <4>2
    <3>3. IsState(v)
      BY <3>2 DEF Base
    <3>4. /\ IsState(t) /\ t.disk = v.disk /\ t.win = v.win /\ t.wsect = v.wsect /\ t.dirty = v.dirty
          /\ t.media = v.media /\ t.last = new /\ t.val = new /\ t.res = "ok" /\ t.f = v.f /\ t.out = v.out
          /\ t.sure = (v.sure /\ v.free # NFatEnt - 2)
          /\ t.free = CASE v.free = 0 -> Unknown [] v.free \in 1..(NFatEnt - 3) -> v.free - 1 [] OTHER -> v.free
      BY <3>1, <3>3, <2>9 DEF IsState, Taken
    <3>5. Safe(t, L, F) /\ Seen(t) = Seen(v)
      BY <3>2, <3>4, SafeSame
    <3>6. FreeOK(t)
      <4>1. s.free \in 0..Unknown /\ (s.sure => s.free = Cardinality(Zeros(T)))
        BY DEF Fine, FreeOK, T
      <4>2. NFatEnt \in Nat /\ Unknown = 2 * NFatEnt /\ NFatEnt > 2
        BY VolumeAssumption DEF Unknown
      <4>3. v.free = s.free /\ v.sure = s.sure
        BY <3>2 DEF Kept
      <4>4. Cardinality(Zeros(T)) \in 0..(NFatEnt - 2) /\ Cardinality(Zeros(T)) > 0
        BY <1>4, <2>1, ZerosFacts, ClustersFacts
      <4>5. t.free \in 0..Unknown
        BY <3>4, <4>1, <4>2, <4>3
      <4>6. ASSUME t.sure PROVE t.free = Cardinality(Zeros(V))
        <5>1. v.sure /\ v.free # NFatEnt - 2
          BY <4>6, <3>4
        <5>2. s.free = Cardinality(Zeros(T)) /\ v.free = s.free
          BY <5>1, <4>1, <4>3
        <5>3. v.free \in 1..(NFatEnt - 3) /\ v.free # 0
          BY <5>1, <5>2, <4>2, <4>4
        <5>4. t.free = v.free - 1
          BY <5>3, <3>4
        <5> QED  BY <5>2, <5>4, <3>2
      <4>7. t.last \in 0..(NFatEnt - 1)
        BY <3>4, <4>2 DEF Clusters
      <4> QED  BY <4>5, <4>6, <4>7, <3>5 DEF FreeOK, V
    <3>7. Tab(Seen(t)) = V
      BY <3>5 DEF V
    <3> QED  BY <3>2, <3>4, <3>5, <3>6, <3>7 DEF Worked, Fine, Errs, Kept, E
  <2> QED  BY <2>8, <2>9
<1> QED  BY <1>6, <1>7

\* Search adds a free cluster or finds none.
LEMMA Searching ==
    ASSUME NEW s, NEW L \in SUBSET Names, NEW F, Fine(s, L, F), s.res = "ok",
           NEW start \in Nat,
           NEW c, c # 0 => c \in Clusters /\ Tab(Seen(s))[c] # 0 /\ Tab(Seen(s))[c] \notin Clusters,
           NEW t \in Search(s, start, c)
    PROVE  /\ Worked(s, t, L, F)
           /\ t.res = "ok" /\ t.val # 0 => Followed(Tab(Seen(t)), Seen(s)[Dir], L, F, c, t.val)
<1> DEFINE x0 == [s |-> s, at |-> start, go |-> TRUE]
           E == SearchEnds(start, x0, NFatEnt - 1)
           In(x) == /\ Worked(s, x.s, L, F) /\ Seen(x.s) = Seen(s) /\ x.at \in Nat
                    /\ x.go => x.s.res = "ok"
                    /\ ~x.go /\ x.s.res = "ok" /\ x.at # 0 =>
                           x.at \in Clusters /\ Tab(Seen(s))[x.at] = 0
<1>1. NFatEnt - 1 \in Nat /\ NFatEnt \in Nat
  BY VolumeAssumption
<1>2. PICK U : LoopIn(E, U, "search", start, x0)
  BY <1>1, SearchTurns
<1> DEFINE P == {x \in U : In(x)}
<1>3. x0 \in P
  <2>1. Worked(s, s, L, F)
    BY DEF Worked, Errs
  <2>2. In(x0)
    BY <2>1
  <2> HIDE DEF In, x0, E
  <2> QED  BY <2>2, <1>2 DEF LoopIn
<1>4. ASSUME NEW y \in P, y.go, NEW z \in SearchTurn(y, start) PROVE In(z)
  <2> DEFINE new == IF y.at + 1 >= NFatEnt THEN 2 ELSE y.at + 1
  <2>1. Worked(s, y.s, L, F) /\ Seen(y.s) = Seen(s) /\ y.at \in Nat /\ y.s.res = "ok"
    BY <1>4
  <2>2. new \in Nat
    BY <2>1, <1>1
  <2>3. CASE y.at + 1 >= NFatEnt /\ new > start
    <3>1. z = [y EXCEPT !.at = 0, !.go = FALSE]
      BY <1>4, <2>3 DEF SearchTurn
    <3>2. z.s = y.s /\ z.at = 0 /\ z.go = FALSE
      BY <3>1, <1>4
    <3> QED  BY <3>2, <2>1
  <2>4. CASE ~(y.at + 1 >= NFatEnt /\ new > start)
    <3>1. PICK g \in get_fat(y.s, new) : \E v :
             /\ g.res = "ok" /\ g.val = 1 => v = [g EXCEPT !.res = "int_err"]
             /\ ~(g.res = "ok" /\ g.val = 1) => v = g
             /\ z = [s |-> v, at |-> IF v.val # 0 /\ new = start THEN 0 ELSE new,
                     go |-> v.res = "ok" /\ v.val # 0 /\ new # start]
      BY <1>4, <2>4 DEF SearchTurn, Then, Error
    <3> HIDE DEF new
    <3>6. PICK v :
             /\ g.res = "ok" /\ g.val = 1 => v = [g EXCEPT !.res = "int_err"]
             /\ ~(g.res = "ok" /\ g.val = 1) => v = g
             /\ z = [s |-> v, at |-> IF v.val # 0 /\ new = start THEN 0 ELSE new,
                     go |-> v.res = "ok" /\ v.val # 0 /\ new # start]
      BY <3>1
    <3>7. z.s = v /\ z.at = (IF v.val # 0 /\ new = start THEN 0 ELSE new)
      BY <3>6
    <3>8. z.go => v.res = "ok" /\ v.val # 0 /\ new # start
      BY <3>6
    <3>9. v.res = "ok" /\ v.val # 0 /\ new # start => z.go
      BY <3>6
    <3>2. /\ g.res = "ok" /\ g.val = 1 => v = [g EXCEPT !.res = "int_err"]
          /\ ~(g.res = "ok" /\ g.val = 1) => v = g
          /\ z.s = v /\ z.at = (IF v.val # 0 /\ new = start THEN 0 ELSE new)
          /\ z.go => v.res = "ok" /\ v.val # 0 /\ new # start
          /\ v.res = "ok" /\ v.val # 0 /\ new # start => z.go
      BY <3>6, <3>7, <3>8, <3>9
    <3>3. /\ Worked(y.s, g, L, F) /\ Seen(g) = Seen(y.s)
          /\ g.res = "ok" => new \in Clusters /\ g.val = Tab(Seen(y.s))[new]
      <4>1. Fine(y.s, L, F)
        BY <2>1 DEF Worked
      <4> HIDE DEF P
      <4> QED  BY <4>1, <2>1, GettingFine, SMTT(60)
    <3>4. CASE g.res = "ok" /\ g.val = 1
      <4>1. v = [g EXCEPT !.res = "int_err"] /\ Base(g)
        BY <3>2, <3>3, <3>4 DEF Worked, Fine, Safe
      <4>2. Looked(g, v) /\ v.res = "int_err"
        BY <4>1, SetRes
      <4>3. Worked(g, v, L, F) /\ Seen(v) = Seen(g)
        BY <4>2, <3>3, <3>4, FineLooked DEF Worked, Errs, Looked
      <4>4. z.s = v /\ z.at \in Nat /\ ~z.go
        BY <3>2, <4>2, <2>2
      <4>5. Worked(s, v, L, F) /\ Seen(v) = Seen(s)
        <5> HIDE DEF P, In
        <5>1. Worked(s, g, L, F)
          BY <3>3, <2>1, WorkedOn, Zenon
        <5> QED  BY <4>3, <5>1, <3>3, <2>1, WorkedOn, Zenon
      <4> QED  BY <4>2, <4>4, <4>5
    <3>5. CASE ~(g.res = "ok" /\ g.val = 1)
      <4>1. v = g
        BY <3>2, <3>5
      <4>2. z.s = g /\ z.at \in Nat /\ (z.go => g.res = "ok")
            /\ (~z.go /\ g.res = "ok" /\ z.at # 0 => z.at = new /\ g.val = 0)
        BY <3>2, <4>1, <2>2
      <4>3. Worked(s, g, L, F) /\ Seen(g) = Seen(s)
        <5> HIDE DEF P, In
        <5> QED  BY <3>3, <2>1, WorkedOn, Zenon
      <4>4. g.res = "ok" => new \in Clusters /\ g.val = Tab(Seen(s))[new]
        BY <3>3, <2>1
      <4> QED  BY <4>2, <4>3, <4>4
    <3> QED  BY <3>4, <3>5
  <2> QED  BY <2>3, <2>4
<1>5. KeptByTurns(P, U, "search", start)
  <2> HIDE DEF In
  <2> QED  BY <1>4 DEF KeptByTurns, AnyTurn
<1>6. E \subseteq P /\ \A x \in E : ~x.go
  <2> HIDE DEF P, x0, E
  <2>1. P \in SUBSET U
    BY DEF P
  <2> QED  BY <2>1, <1>2, <1>3, <1>5 DEF LoopIn
<1>7. PICK x \in E : t \in Then({x.s}, LAMBDA w : Claim(w, x.at, c))
  BY DEF Search, SearchEnds
<1>8. In(x) /\ ~x.go
  BY <1>6, <1>7
<1>9. IF x.s.res = "ok" THEN t \in Claim(x.s, x.at, c) ELSE t = x.s
  BY <1>7 DEF Then
<1>10. CASE x.s.res # "ok"
  BY <1>8, <1>9, <1>10
<1>11. CASE x.s.res = "ok" /\ x.at = 0
  <2>1. t = [x.s EXCEPT !.val = 0]
    BY <1>9, <1>11 DEF Claim
  <2>2. Base(x.s)
    BY <1>8 DEF Worked, Fine, Safe
  <2>3. Looked(x.s, t) /\ t.res = "ok" /\ t.val = 0
    BY <2>1, <2>2, <1>11, SetVal
  <2>4. Worked(x.s, t, L, F)
    BY <2>3, <1>8, <1>11, FineLooked DEF Worked, Errs
  <2> QED  BY <2>3, <2>4, <1>8, WorkedOn
<1>12. CASE x.s.res = "ok" /\ x.at # 0
  <2>1. /\ Fine(x.s, L, F) /\ x.at \in Clusters /\ Tab(Seen(x.s))[x.at] = 0
        /\ c # 0 => c \in Clusters /\ Tab(Seen(x.s))[c] # 0 /\ Tab(Seen(x.s))[c] \notin Clusters
        /\ t \in Claim(x.s, x.at, c)
    BY <1>8, <1>9, <1>12 DEF Worked
  <2>2. /\ Worked(x.s, t, L, F)
        /\ t.res = "ok" => t.val = x.at /\ Followed(Tab(Seen(t)), Seen(x.s)[Dir], L, F, c, x.at)
    BY <2>1, <1>12, Claiming
  <2> QED  BY <2>2, <1>8, WorkedOn
<1> QED  BY <1>10, <1>11, <1>12

\* create_chain returns the next cluster of a chain, there already or added.
LEMMA Creating ==
    ASSUME NEW s, NEW L \in SUBSET Names, NEW F, Fine(s, L, F), s.res = "ok",
           NEW c, NEW t \in create_chain(s, c)
    PROVE  /\ Worked(s, t, L, F)
           /\ t.res = "ok" /\ t.val # 0 => Followed(Tab(Seen(t)), Seen(s)[Dir], L, F, c, t.val)
<1>1. CASE c = 0
  <2> DEFINE scl == IF s.last = 0 \/ s.last >= NFatEnt THEN 1 ELSE s.last
  <2>1. t \in Search(s, scl, 0)
    BY <1>1 DEF create_chain
  <2>2. scl \in Nat
    BY VolumeAssumption DEF Fine, FreeOK
  <2> HIDE DEF scl
  <2> QED  BY <2>1, <2>2, <1>1, Searching
<1>2. CASE c # 0
  <2>1. PICK g \in get_fat(s, c) :
           /\ g.res # "ok" => t = g
           /\ g.res = "ok" /\ g.val < 2 => t = [g EXCEPT !.res = "int_err"]
           /\ g.res = "ok" /\ ~(g.val < 2) /\ g.val \in Clusters => t = g
           /\ g.res = "ok" /\ ~(g.val < 2) /\ g.val \notin Clusters => t \in Search(g, c, c)
    <3>1. PICK g \in get_fat(s, c) :
           IF g.res = "ok"
           THEN t \in CASE g.val < 2 -> Error(g, "int_err")
                        [] g.val \in Clusters -> {g}
                        [] OTHER -> Search(g, c, c)
           ELSE t = g
      BY <1>2 DEF create_chain, Then
    <3>2. g.res = "ok" => g.val \in Nat
      BY GettingFine
    <3>3. \A k \in Nat : k < 2 => k \notin Clusters
      BY DEF Clusters
    <3> QED  BY <3>1, <3>2, <3>3 DEF Error
  <2>2. /\ Worked(s, g, L, F) /\ Seen(g) = Seen(s)
        /\ g.res = "ok" => c \in Clusters /\ g.val = Tab(Seen(s))[c] /\ g.val \in Nat
    BY GettingFine
  <2>3. CASE g.res # "ok"
    BY <2>1, <2>2, <2>3
  <2>4. CASE g.res = "ok" /\ g.val < 2
    <3>1. t = [g EXCEPT !.res = "int_err"] /\ Base(g)
      BY <2>1, <2>2, <2>4 DEF Worked, Fine, Safe
    <3>2. Looked(g, t) /\ t.res = "int_err"
      BY <3>1, SetRes
    <3>3. Worked(g, t, L, F)
      BY <3>2, <2>2, <2>4, FineLooked DEF Worked, Errs
    <3> QED  BY <3>2, <3>3, <2>2, WorkedOn
  <2>5. CASE g.res = "ok" /\ ~(g.val < 2) /\ g.val \in Clusters
    BY <2>1, <2>2, <2>5, <1>2 DEF Followed
  <2>6. CASE g.res = "ok" /\ ~(g.val < 2) /\ g.val \notin Clusters
    <3>1. /\ Fine(g, L, F) /\ t \in Search(g, c, c) /\ c \in Nat
          /\ c \in Clusters /\ Tab(Seen(g))[c] # 0 /\ Tab(Seen(g))[c] \notin Clusters
      BY <2>1, <2>2, <2>6, ClustersFacts DEF Worked
    <3>2. /\ Worked(g, t, L, F)
          /\ t.res = "ok" /\ t.val # 0 => Followed(Tab(Seen(t)), Seen(g)[Dir], L, F, c, t.val)
      BY <3>1, <2>6, Searching
    <3> QED  BY <3>2, <2>2, WorkedOn
  <2> QED  BY <2>3, <2>4, <2>5, <2>6
<1> QED  BY <1>1, <1>2

\* The free clusters among those before a.
ZerosBelow(T, a) == {c \in Clusters : c < a /\ T[c] = 0}

\* The free clusters, counted from the first on.
LEMMA BelowFacts ==
    ASSUME NEW T \in Tables
    PROVE  /\ \A a \in Nat : Cardinality(ZerosBelow(T, a)) \in 0..(NFatEnt - 2)
           /\ \A a \in Clusters :
                  Cardinality(ZerosBelow(T, a + 1)) =
                      IF T[a] = 0 THEN Cardinality(ZerosBelow(T, a)) + 1 ELSE Cardinality(ZerosBelow(T, a))
           /\ Cardinality(ZerosBelow(T, 2)) = 0
           /\ ZerosBelow(T, NFatEnt) = Zeros(T)
<1>1. IsFiniteSet(Zeros(T)) /\ Cardinality(Zeros(T)) \in 0..(NFatEnt - 2) /\ NFatEnt \in Nat
  BY ZerosFacts, VolumeAssumption
<1>2. ASSUME NEW a \in Nat
      PROVE  IsFiniteSet(ZerosBelow(T, a)) /\ Cardinality(ZerosBelow(T, a)) \in 0..(NFatEnt - 2)
  <2>1. ZerosBelow(T, a) \subseteq Zeros(T)
    BY DEF ZerosBelow, Zeros
  <2>2. IsFiniteSet(ZerosBelow(T, a)) /\ Cardinality(ZerosBelow(T, a)) <= Cardinality(Zeros(T))
    BY <2>1, <1>1, FS_Subset
  <2>3. Cardinality(ZerosBelow(T, a)) \in Nat
    BY <2>2, FS_CardinalityType
  <2> QED  BY <2>2, <2>3, <1>1
<1>3. ASSUME NEW a \in Clusters
      PROVE  Cardinality(ZerosBelow(T, a + 1)) =
                 IF T[a] = 0 THEN Cardinality(ZerosBelow(T, a)) + 1 ELSE Cardinality(ZerosBelow(T, a))
  <2>1. CASE T[a] = 0
    <3>1. ZerosBelow(T, a + 1) = ZerosBelow(T, a) \union {a} /\ a \notin ZerosBelow(T, a)
      BY <2>1 DEF ZerosBelow, Clusters
    <3>2. IsFiniteSet(ZerosBelow(T, a))
      BY <1>2, ClustersFacts
    <3> QED  BY <2>1, <3>1, <3>2, FS_AddElement
  <2>2. CASE T[a] # 0
    <3>1. ZerosBelow(T, a + 1) = ZerosBelow(T, a)
      BY <2>2 DEF ZerosBelow, Clusters
    <3> QED  BY <2>2, <3>1
  <2> QED  BY <2>1, <2>2
<1>4. ZerosBelow(T, 2) = {}
  BY DEF ZerosBelow, Clusters
<1>5. ZerosBelow(T, NFatEnt) = Zeros(T)
  BY <1>1 DEF ZerosBelow, Zeros, Clusters
<1> QED  BY <1>2, <1>3, <1>4, <1>5, FS_EmptySet

\* An unsure count may be anything.
LEMMA SetFree ==
    ASSUME NEW s, NEW L, NEW F, Fine(s, L, F), NEW v \in 0..Unknown,
           NEW t, t = [s EXCEPT !.free = v], ~s.sure
    PROVE  /\ Fine(t, L, F) /\ Seen(t) = Seen(s) /\ t.res = s.res /\ t.val = s.val /\ t.f = s.f
           /\ t.out = s.out /\ t.free = v /\ t.sure = s.sure
<1>1. IsState(s)
  BY DEF Fine, Safe, Base
<1>2. /\ IsState(t) /\ t.disk = s.disk /\ t.win = s.win /\ t.wsect = s.wsect /\ t.dirty = s.dirty
      /\ t.media = s.media /\ t.last = s.last /\ t.val = s.val /\ t.res = s.res /\ t.f = s.f
      /\ t.out = s.out /\ t.sure = s.sure /\ t.free = v
  BY <1>1 DEF IsState
<1>3. Safe(t, L, F) /\ Seen(t) = Seen(s)
  BY <1>2, SafeSame DEF Fine
<1> QED  BY <1>2, <1>3 DEF Fine, FreeOK

\* get_fat leaves the count alone.
LEMMA Looking ==
    ASSUME NEW s, NEW L \in SUBSET Names, NEW F, Fine(s, L, F), s.res = "ok", NEW c, NEW t \in get_fat(s, c)
    PROVE  /\ Worked(s, t, L, F) /\ Seen(t) = Seen(s) /\ Kept(s, t)
           /\ t.res = "ok" => t.val = Tab(Seen(s))[c]
<1>1. Base(s)
  BY DEF Fine, Safe
<1>2. Looked(s, t)
  BY <1>1, Getting
<1> QED  BY <1>2, GettingFine DEF Looked

\* The loop of f_getfree counts the free clusters.
LEMMA CountingFree ==
    ASSUME NEW s, NEW L \in SUBSET Names, NEW F, Fine(s, L, F), s.res = "ok", ~s.sure,
           NEW t \in CountFree(s)
    PROVE  /\ Worked(s, t, L, F) /\ Seen(t) = Seen(s) /\ ~t.sure
           /\ t.res = "ok" => t.free = Cardinality(Zeros(Tab(Seen(t))))
<1> DEFINE s0 == [s EXCEPT !.free = 0]
           T == Tab(Seen(s))
           x0 == [s |-> s0, at |-> 2, go |-> TRUE]
           E == Loop(CountTurn, x0, NFatEnt - 2)
           In(x) == /\ Worked(s, x.s, L, F) /\ Seen(x.s) = Seen(s) /\ ~x.s.sure
                    /\ x.at \in 2..NFatEnt /\ x.s.free \in 0..(NFatEnt - 2)
                    /\ x.go => x.s.res = "ok" /\ x.at \in Clusters
                    /\ x.s.res = "ok" => x.s.free = Cardinality(ZerosBelow(T, x.at))
                    /\ ~x.go /\ x.s.res = "ok" => x.at = NFatEnt
<1>1. NFatEnt - 2 \in Nat /\ NFatEnt \in Nat /\ NFatEnt > 2 /\ 0 \in 0..Unknown /\ Unknown = 2 * NFatEnt
  BY VolumeAssumption DEF Unknown
<1>2. PICK U : LoopIn(E, U, "count", 0, x0)
  BY <1>1, CountTurns
<1>0. T \in Tables
  BY SafeTyped DEF Fine, Safe
<1> DEFINE P == {x \in U : In(x)}
<1>3. x0 \in P
  <2>1. /\ Fine(s0, L, F) /\ Seen(s0) = Seen(s) /\ s0.res = "ok" /\ s0.f = s.f /\ s0.out = s.out /\ s0.free = 0
        /\ s0.sure = s.sure
    BY <1>1, SetFree
  <2> HIDE DEF s0, T
  <2>2. Worked(s, s0, L, F)
    BY <2>1 DEF Worked, Errs
  <2>3. 2 \in Clusters /\ 2 \in 2..NFatEnt /\ Cardinality(ZerosBelow(T, 2)) = 0
    BY <1>0, <1>1, BelowFacts DEF Clusters
  <2>4. In(x0)
    BY <2>1, <2>2, <2>3, <1>1
  <2> HIDE DEF In, x0
  <2> QED  BY <2>4, <1>2 DEF LoopIn
<1> HIDE DEF s0
<1>4. ASSUME NEW y \in P, y.go, NEW z \in CountTurn(y) PROVE In(z)
  <2>1. PICK g \in get_fat(y.s, y.at) :
           z = [s |-> IF g.res = "ok" /\ g.val = 0 THEN [g EXCEPT !.free = @ + 1] ELSE g,
                at |-> y.at + 1, go |-> g.res = "ok" /\ y.at + 1 < NFatEnt]
    BY <1>4 DEF CountTurn
  <2>2. /\ Worked(s, y.s, L, F) /\ Seen(y.s) = Seen(s) /\ ~y.s.sure /\ y.s.free \in 0..(NFatEnt - 2)
        /\ y.s.res = "ok" /\ y.at \in Clusters /\ y.s.free = Cardinality(ZerosBelow(T, y.at))
    BY <1>4
  <2> HIDE DEF T
  <2>3. /\ Worked(y.s, g, L, F) /\ Seen(g) = Seen(y.s)
        /\ g.res = "ok" => g.val = Tab(Seen(y.s))[y.at]
        /\ Kept(y.s, g)
    <3>1. Fine(y.s, L, F)
      BY <2>2 DEF Worked
    <3> HIDE DEF P, In
    <3>2. g \in get_fat(y.s, y.at)
      BY <2>1
    <3> QED  BY <3>1, <3>2, <2>2, Looking, ZenonT(60)
  <2>4. Worked(s, g, L, F) /\ Seen(g) = Seen(s) /\ ~g.sure /\ g.free = y.s.free /\ g.free \in 0..(NFatEnt - 2)
    <3>1. Worked(s, g, L, F) /\ Seen(g) = Seen(s)
      BY <2>2, <2>3, WorkedOn
    <3> QED  BY <3>1, <2>2, <2>3 DEF Kept
  <2>5. /\ y.at + 1 \in 2..NFatEnt /\ (y.at + 1 < NFatEnt => y.at + 1 \in Clusters)
        /\ (~(y.at + 1 < NFatEnt) => y.at + 1 = NFatEnt)
        /\ Cardinality(ZerosBelow(T, y.at + 1)) \in 0..(NFatEnt - 2)
    <3>1. y.at \in Int /\ 2 <= y.at /\ y.at < NFatEnt /\ y.at + 1 \in Nat
      BY <2>2, <1>1 DEF Clusters
    <3>2. Cardinality(ZerosBelow(T, y.at + 1)) \in 0..(NFatEnt - 2)
      BY <3>1, <1>0, BelowFacts
    <3> QED  BY <3>1, <3>2, <1>1 DEF Clusters
  <2>6. CASE g.res = "ok" /\ g.val = 0
    <3> DEFINE w == [g EXCEPT !.free = @ + 1]
    <3>0. T[y.at] = 0
      BY <2>2, <2>3, <2>6 DEF T
    <3>1. g.free + 1 = Cardinality(ZerosBelow(T, y.at + 1))
      BY <3>0, <2>2, <2>4, <1>0, BelowFacts
    <3>2. g.free + 1 \in 0..Unknown /\ Fine(g, L, F)
      BY <3>1, <2>4, <2>5, <1>1 DEF Worked
    <3>3. /\ Fine(w, L, F) /\ Seen(w) = Seen(g) /\ w.res = g.res /\ w.f = g.f
          /\ w.out = g.out /\ w.free = g.free + 1 /\ w.sure = g.sure
      BY <3>2, <2>4, SetFree
    <3>4. z.s = w /\ z.at = y.at + 1 /\ z.go = (g.res = "ok" /\ y.at + 1 < NFatEnt)
      BY <2>1, <2>6
    <3> HIDE DEF w
    <3>5. Worked(s, w, L, F)
      BY <3>3, <2>4 DEF Worked
    <3> QED  BY <3>1, <3>3, <3>4, <3>5, <2>4, <2>5, <2>6
  <2>7. CASE ~(g.res = "ok" /\ g.val = 0)
    <3>1. z.s = g /\ z.at = y.at + 1 /\ z.go = (g.res = "ok" /\ y.at + 1 < NFatEnt)
      BY <2>1, <2>7
    <3>2. g.res = "ok" => g.free = Cardinality(ZerosBelow(T, y.at + 1))
      <4>1. g.res = "ok" => T[y.at] # 0
        BY <2>2, <2>3, <2>7 DEF T
      <4> QED  BY <4>1, <2>2, <2>4, <1>0, BelowFacts
    <3> QED  BY <3>1, <3>2, <2>4, <2>5
  <2> QED  BY <2>6, <2>7
<1>5. KeptByTurns(P, U, "count", 0)
  <2> HIDE DEF In
  <2> QED  BY <1>4 DEF KeptByTurns, AnyTurn
<1>6. E \subseteq P /\ \A x \in E : ~x.go
  <2> HIDE DEF P, x0, E
  <2>1. P \in SUBSET U
    BY DEF P
  <2> QED  BY <2>1, <1>2, <1>3, <1>5 DEF LoopIn
<1>7. PICK x \in E : t = x.s
  BY DEF CountFree, s0
<1>8. In(x) /\ ~x.go
  BY <1>6, <1>7
<1>9. t.res = "ok" => t.free = Cardinality(Zeros(T))
  BY <1>0, <1>7, <1>8, BelowFacts
<1> QED  BY <1>7, <1>8, <1>9

-----------------------------------------------------------------------------
\* The directory.

\* From s to t in a function of the lower half.
Did(s, t, L, F) == Fine(t, L, F) /\ t.f = s.f /\ t.out = s.out

\* Looking is something a function may do.
LEMMA DidLooked ==
    ASSUME NEW s, NEW L \in SUBSET Names, NEW F, Fine(s, L, F), s.res # "disk_err",
           NEW t, Looked(s, t)
    PROVE  Did(s, t, L, F)
  BY SafeLooked DEF Fine, FreeOK, Looked, Kept, Did

\* Two functions one after the other.
LEMMA DidOn ==
    ASSUME NEW s, NEW t, NEW u, NEW L, NEW F, Did(s, t, L, F), Did(t, u, L, F)
    PROVE  Did(s, u, L, F)
  BY DEF Did

\* A function that leaves the directory alone is one.
LEMMA DidWorked ==
    ASSUME NEW s, NEW t, NEW L, NEW F, Worked(s, t, L, F)
    PROVE  Did(s, t, L, F) /\ t.res \in Errs
  BY DEF Did, Worked

\* A count that is right is sure.
LEMMA SetSure ==
    ASSUME NEW s, NEW L, NEW F, Fine(s, L, F), s.free = Cardinality(Zeros(Tab(Seen(s)))),
           NEW t, t = [s EXCEPT !.sure = TRUE]
    PROVE  /\ Fine(t, L, F) /\ Seen(t) = Seen(s) /\ t.res = s.res /\ t.f = s.f
           /\ t.out = s.out /\ t.free = s.free
<1>1. IsState(s)
  BY DEF Fine, Safe, Base
<1>2. /\ IsState(t) /\ t.disk = s.disk /\ t.win = s.win /\ t.wsect = s.wsect /\ t.dirty = s.dirty
      /\ t.media = s.media /\ t.last = s.last /\ t.res = s.res /\ t.f = s.f
      /\ t.out = s.out /\ t.free = s.free
  BY <1>1 DEF IsState
<1>3. Safe(t, L, F) /\ Seen(t) = Seen(s)
  BY <1>2, SafeSame DEF Fine
<1> QED  BY <1>2, <1>3 DEF Fine, FreeOK

\* f_getfree returns the number of free clusters when the count is sure.
LEMMA GettingFree ==
    ASSUME NEW s, NEW L \in SUBSET Names, NEW F, Fine(s, L, F), s.res = "ok", NEW t \in f_getfree(s)
    PROVE  /\ Worked(s, t, L, F)
           /\ t.res = "ok" /\ t.sure => t.free = Cardinality(Zeros(Tab(Seen(t))))
<1>1. CASE s.free <= NFatEnt - 2
  <2>1. t = s
    BY <1>1 DEF f_getfree
  <2> QED  BY <2>1 DEF Worked, Fine, FreeOK, Errs
<1>2. CASE ~(s.free <= NFatEnt - 2)
  <2>1. PICK u \in CountFree(s) : IF u.res = "ok" THEN t = [u EXCEPT !.sure = TRUE] ELSE t = u
    BY <1>2 DEF f_getfree, Then
  <2>2. ~s.sure
    <3>1. Tab(Seen(s)) \in Tables
      BY SafeTyped DEF Fine, Safe
    <3>2. Cardinality(Zeros(Tab(Seen(s)))) \in 0..(NFatEnt - 2)
      BY <3>1, ZerosFacts
    <3> QED  BY <3>2, <1>2, VolumeAssumption DEF Fine, FreeOK
  <2>3. /\ Worked(s, u, L, F)
        /\ u.res = "ok" => u.free = Cardinality(Zeros(Tab(Seen(u))))
        /\ ~u.sure
    BY <2>2, CountingFree
  <2>4. CASE u.res # "ok"
    BY <2>1, <2>3, <2>4
  <2>5. CASE u.res = "ok"
    <3>1. /\ Fine(t, L, F) /\ Seen(t) = Seen(u) /\ t.res = u.res /\ t.f = u.f
          /\ t.out = u.out /\ t.free = u.free
      BY <2>1, <2>3, <2>5, SetSure DEF Worked
    <3>2. Worked(s, t, L, F)
      BY <3>1, <2>3 DEF Worked
    <3> QED  BY <3>1, <3>2, <2>3, <2>5
  <2> QED  BY <2>4, <2>5
<1> QED  BY <1>1, <1>2

\* follow_path finds the entry of a name that has one.
LEMMA FollowingPath ==
    ASSUME NEW s, NEW L \in SUBSET Names, NEW F, Fine(s, L, F), s.res = "ok", NEW n \in Names,
           NEW t \in follow_path(s, n)
    PROVE  /\ Looked(s, t) /\ Did(s, t, L, F) /\ t.res \in {"ok", "no_file", "disk_err"}
           /\ t.res \in {"ok", "no_file"} => t.wsect = Dir /\ t.win = Seen(s)[Dir] /\ t.win \in Entries
           /\ t.res = "ok" => t.win[n].used
           /\ t.res = "no_file" => ~t.win[n].used
<1>1. PICK u \in move_window(s, Dir) :
         /\ u.res # "ok" => t = u
         /\ u.res = "ok" /\ u.win[n].used => t = u
         /\ u.res = "ok" /\ ~u.win[n].used => t = [u EXCEPT !.res = "no_file"]
  BY DEF follow_path, Then, Error
<1>2. Base(s)
  BY DEF Fine, Safe
<1>3. Looked(s, u) /\ u.res \in {"ok", "disk_err"} /\ (u.res = "ok" => u.wsect = Dir)
  BY <1>2, MovingWindow
<1>4. Base(u) /\ Seen(u) = Seen(s)
  BY <1>3 DEF Looked
<1>5. u.res = "ok" => u.win = Seen(s)[Dir] /\ u.win \in Entries
  BY <1>3, <1>4, ShowsDir DEF Entries
<1>6. CASE u.res # "ok" \/ u.win[n].used
  <2>1. t = u
    BY <1>1, <1>6
  <2>2. Did(s, t, L, F)
    BY <2>1, <1>3, DidLooked
  <2> QED  BY <2>1, <2>2, <1>3, <1>5, <1>6
<1>7. CASE u.res = "ok" /\ ~u.win[n].used
  <2>1. t = [u EXCEPT !.res = "no_file"]
    BY <1>1, <1>7
  <2>2. Looked(u, t) /\ t.res = "no_file" /\ t.wsect = u.wsect /\ t.win = u.win
    BY <2>1, <1>4, SetRes
  <2>3. Looked(s, t)
    BY <2>2, <1>3, LookedOn
  <2>4. Did(s, t, L, F)
    BY <2>3, DidLooked
  <2> QED  BY <2>2, <2>3, <2>4, <1>3, <1>5, <1>7
<1> QED  BY <1>6, <1>7

\* The entry of a name is changed to one that claims nothing new.
LEMMA SoundEntry ==
    ASSUME NEW T, NEW E \in Entries, NEW L \in SUBSET Names, NEW F, Sound(T, E, L, F),
           NEW n \in Names, NEW e \in EntrySet, NEW M \in SUBSET (L \union {n}),
           NEW D, D = Put(E, n, e),
           e.used => /\ Room(T, e.first, e.size)
                     /\ e.first \in Clusters => Claims(E, L, F, n, e.first)
                     /\ F[n].open => e.first \in {0, F[n].first}
    PROVE  Sound(T, D, M, F)
<1>1. D[n] = e /\ \A m \in Names : m # n => D[m] = E[m]
  BY DEF Put, Entries
<1>2. \A m \in Names, h \in Clusters : Claims(D, M, F, m, h) => Claims(E, L, F, m, h)
  BY <1>1 DEF Claims
<1>3. \A m \in M : D[m].used => Room(T, D[m].first, D[m].size)
  BY <1>1 DEF Sound
<1>4. \A m \in M : D[m].used /\ F[m].open => D[m].first \in {0, F[m].first}
  BY <1>1 DEF Sound
<1> QED  BY <1>2, <1>3, <1>4 DEF Sound

\* An entry is changed in the window.
LEMMA EnteringFine ==
    ASSUME NEW s, NEW L \in SUBSET Names, NEW F, Fine(s, L, F), s.wsect = Dir,
           NEW n \in Names, NEW e \in EntrySet, Sound(Tab(Seen(s)), Put(Seen(s)[Dir], n, e), L, F),
           NEW t, t = SetEntry(s, n, e)
    PROVE  /\ Did(s, t, L, F) /\ t.res = s.res /\ t.val = s.val /\ t.wsect = Dir
           /\ t.win = Put(s.win, n, e) /\ Tab(Seen(t)) = Tab(Seen(s))
           /\ Seen(t)[Dir] = Put(Seen(s)[Dir], n, e)
<1>1. Base(s) /\ Safe(s, L, F)
  BY DEF Fine, Safe
<1>2. /\ Wrote(s, t) /\ t.media = s.media /\ t.res = s.res /\ t.val = s.val /\ t.wsect = Dir
      /\ t.win = [s.win EXCEPT ![n] = e]
      /\ Tab(Seen(t)) = Tab(Seen(s))
      /\ Seen(t)[Dir] = [Seen(s)[Dir] EXCEPT ![n] = e]
  BY <1>1, Entering
<1>3. Seen(t)[Dir] = Put(Seen(s)[Dir], n, e) /\ t.win = Put(s.win, n, e)
  BY <1>2 DEF Put
<1>4. Base(t) /\ Kept(s, t) /\ t.media \subseteq s.media \union {Seen(s)}
  BY <1>2 DEF Wrote
<1>5. Safe(t, L, F)
  BY <1>1, <1>2, <1>3, <1>4, SafeStep
<1>6. FreeOK(t)
  BY <1>2, <1>4 DEF FreeOK, Fine, Kept
<1> QED  BY <1>2, <1>3, <1>4, <1>5, <1>6 DEF Did, Fine, Kept

\* sync_fs writes what is seen.
LEMMA Syncing ==
    ASSUME NEW s, NEW L \in SUBSET Names, NEW F, Fine(s, L, F), s.res = "ok", NEW t \in sync_fs(s)
    PROVE  /\ Did(s, t, L, F) /\ t.res \in {"ok", "disk_err"} /\ Seen(t) = Seen(s)
           /\ t.res = "ok" => t.disk = Seen(s)
<1>1. Base(s)
  BY DEF Fine, Safe
<1>2. Looked(s, t) /\ t.res \in {"ok", "disk_err"} /\ (t.res = "ok" => t.disk = Seen(s))
  BY <1>1, SyncingWindow DEF sync_fs
<1>3. Did(s, t, L, F)
  BY <1>2, DidLooked
<1> QED  BY <1>2, <1>3 DEF Looked

\* What the entry of a name alone had claimed is loose when it claims it no more.
LEMMA StrikeLoose ==
    ASSUME NEW T, NEW E \in Entries, NEW L \in SUBSET Names, NEW F, Sound(T, E, L, F),
           NEW n \in L, E[n].used, NEW h \in Clusters, E[n].first = h, ~F[n].open,
           NEW e \in EntrySet, ~e.used \/ e.first # h, NEW D, D = Put(E, n, e)
    PROVE  Loose(T, D, L, F, h)
<1>1. D[n] = e /\ \A m \in Names : m # n => D[m] = E[m]
  BY DEF Put, Entries
<1>2. Claims(E, L, F, n, h)
  BY DEF Claims
<1>3. Starts(T, h)
  BY <1>2 DEF Sound
<1>4. ASSUME NEW m \in Names, Claims(D, L, F, m, h) PROVE FALSE
  <2>1. m # n
    BY <1>1, <1>4 DEF Claims
  <2>2. Claims(E, L, F, m, h)
    BY <2>1, <1>1, <1>4 DEF Claims
  <2> QED  BY <2>1, <2>2, <1>2 DEF Sound
<1> QED  BY <1>3, <1>4 DEF Loose, Starts

\* The entries the driver makes are entries.
LEMMA EntryFacts ==
    ASSUME NEW e \in EntrySet
    PROVE  /\ [e EXCEPT !.used = FALSE] \in EntrySet /\ ~[e EXCEPT !.used = FALSE].used
           /\ [e EXCEPT !.used = FALSE].first = e.first
           /\ [e EXCEPT !.first = 0, !.size = 0] \in EntrySet
           /\ [e EXCEPT !.first = 0, !.size = 0].first = 0
           /\ [e EXCEPT !.first = 0, !.size = 0].size = 0
           /\ [e EXCEPT !.first = 0, !.size = 0].used = e.used
           /\ [NoEntry EXCEPT !.used = TRUE] \in EntrySet
           /\ [NoEntry EXCEPT !.used = TRUE].used
           /\ [NoEntry EXCEPT !.used = TRUE].first = 0 /\ [NoEntry EXCEPT !.used = TRUE].size = 0
  BY DEF EntrySet, NoEntry

\* No bytes need no room.
LEMMA NoRoom ==
    ASSUME NEW T, NEW h
    PROVE  Room(T, h, 0)
<1>1. 0 \in Nat /\ SectorSize * 0 = 0
  BY VolumeAssumption
<1>2. PICK q \in [1..0 -> Clusters] : TRUE
  <2>1. [i \in 1..0 |-> 2] \in [1..0 -> Clusters]
    OBVIOUS
  <2> QED  BY <2>1
<1>3. Walk(T, h, q, 0)
  BY <1>1 DEF Walk
<1>4. 0 <= SectorSize * 0
  BY <1>1
<1> QED  BY <1>1, <1>3, <1>4 DEF Room

\* The name is struck out of the directory.
LEMMA DirRemoving ==
    ASSUME NEW s, NEW L \in SUBSET Names, NEW F, Fine(s, L, F), s.res = "ok", s.wsect = Dir,
           NEW n \in Names, NEW t \in dir_remove(s, n)
    PROVE  /\ Did(s, t, L, F) /\ t.res = "ok" /\ Tab(Seen(t)) = Tab(Seen(s))
           /\ Seen(t)[Dir] = Put(Seen(s)[Dir], n, [Seen(s)[Dir][n] EXCEPT !.used = FALSE])
<1> DEFINE T == Tab(Seen(s))
           E == Seen(s)[Dir]
           e == [E[n] EXCEPT !.used = FALSE]
<1>1. Base(s) /\ Sound(T, E, L, F)
  BY DEF Fine, Safe
<1>2. s.win = E /\ E \in Entries /\ E[n] \in EntrySet
  BY <1>1, ShowsDir DEF Entries
<1>3. t = SetEntry(s, n, e)
  BY <1>2 DEF dir_remove, move_window, Then
<1>4. e \in EntrySet /\ ~e.used
  BY <1>2, EntryFacts
<1> HIDE DEF e, E, T
<1>5. Sound(T, Put(E, n, e), L, F)
  BY <1>1, <1>2, <1>4, SoundEntry
<1>6. Sound(Tab(Seen(s)), Put(Seen(s)[Dir], n, e), L, F)
  BY <1>5 DEF E, T
<1>7. Did(s, t, L, F) /\ t.res = s.res /\ Tab(Seen(t)) = Tab(Seen(s)) /\ Seen(t)[Dir] = Put(Seen(s)[Dir], n, e)
  BY <1>3, <1>4, <1>6, EnteringFine
<1> QED  BY <1>7 DEF E, e

\* f_unlink of a file that is not open.
LEMMA Unlinking ==
    ASSUME NEW s, NEW L \in SUBSET Names, NEW F, Fine(s, L, F), s.res = "ok",
           NEW n \in L, ~F[n].open, NEW t \in f_unlink(s, n)
    PROVE  Did(s, t, L, F)
<1>1. PICK u \in follow_path(s, n) :
         /\ u.res # "ok" => t = u
         /\ u.res = "ok" => t \in Then(dir_remove(u, n), LAMBDA v :
                Then(IF u.win[n].first # 0 THEN remove_chain(v, u.win[n].first, 0) ELSE {v}, sync_fs))
  BY DEF f_unlink, Then
<1>2. n \in Names
  OBVIOUS
<1>3. /\ Looked(s, u) /\ Did(s, u, L, F)
      /\ u.res = "ok" => u.wsect = Dir /\ u.win = Seen(s)[Dir] /\ u.win \in Entries /\ u.win[n].used
  BY <1>2, FollowingPath
<1>4. CASE u.res # "ok"
  BY <1>1, <1>3, <1>4
<1>5. CASE u.res = "ok"
  <2> DEFINE h == u.win[n].first
             E == Seen(u)[Dir]
             T == Tab(Seen(u))
  <2>1. PICK v \in dir_remove(u, n) :
           /\ v.res # "ok" => t = v
           /\ v.res = "ok" => t \in Then(IF h # 0 THEN remove_chain(v, h, 0) ELSE {v}, sync_fs)
    BY <1>1, <1>5 DEF Then
  <2>2. Fine(u, L, F) /\ E = u.win /\ E \in Entries /\ E[n].used /\ E[n].first = h
    BY <1>3, <1>5 DEF Did, Looked
  <2>3. /\ Did(u, v, L, F) /\ v.res = "ok" /\ Tab(Seen(v)) = T
        /\ Seen(v)[Dir] = Put(E, n, [E[n] EXCEPT !.used = FALSE])
    BY <1>2, <1>3, <1>5, <2>2, DirRemoving
  <2>4. PICK w \in (IF h # 0 THEN remove_chain(v, h, 0) ELSE {v}) :
           IF w.res = "ok" THEN t \in sync_fs(w) ELSE t = w
    BY <2>1, <2>3 DEF Then
  <2> HIDE DEF h, E, T
  <2>5. h \in Clusters => Loose(T, Put(E, n, [E[n] EXCEPT !.used = FALSE]), L, F, h)
    <3>1. E[n] \in EntrySet
      BY <2>2, <1>2 DEF Entries
    <3>2. [E[n] EXCEPT !.used = FALSE] \in EntrySet /\ ~[E[n] EXCEPT !.used = FALSE].used
      BY <3>1, EntryFacts
    <3>3. Sound(T, E, L, F)
      BY <2>2 DEF Fine, Safe, T, E
    <3> QED  BY <3>2, <3>3, <2>2, StrikeLoose
  <2>6. Did(v, w, L, F)
    <3>1. CASE h = 0
      BY <3>1, <2>3, <2>4 DEF Did
    <3>2. CASE h # 0
      <4>1. Fine(v, L, F) /\ (h \in Clusters => Loose(Tab(Seen(v)), Seen(v)[Dir], L, F, h))
        BY <2>3, <2>5 DEF Did
      <4>2. w \in remove_chain(v, h, 0)
        BY <3>2, <2>4
      <4>3. Worked(v, w, L, F)
        BY <4>1, <4>2, <2>3, Removing
      <4> QED  BY <4>3, DidWorked
    <3> QED  BY <3>1, <3>2
  <2>7. Did(s, w, L, F)
    BY <1>3, <2>3, <2>6, DidOn
  <2>8. CASE w.res # "ok"
    BY <2>4, <2>7, <2>8
  <2>9. CASE w.res = "ok"
    <3>1. Did(w, t, L, F)
      BY <2>4, <2>7, <2>9, Syncing DEF Did
    <3> QED  BY <3>1, <2>7, DidOn
  <2> QED  BY <2>8, <2>9
<1> QED  BY <1>4, <1>5

\* An entry is moved to another name.
LEMMA SoundRename ==
    ASSUME NEW T, NEW E \in Entries, NEW L \in SUBSET Names, NEW F, Sound(T, E, L, F),
           NEW old \in L, NEW new \in L, old # new, E[old].used, ~F[old].open, ~F[new].open,
           \A h \in Clusters : ~Claims(E, L, F, new, h),
           NEW D \in Entries, D[new] = E[old], ~D[old].used,
           \A m \in Names : m # old /\ m # new => D[m] = E[m]
    PROVE  Sound(T, D, L, F)
<1> DEFINE back(m) == IF m = new THEN old ELSE m
<1>1. ASSUME NEW m \in Names, NEW h \in Clusters, Claims(D, L, F, m, h)
      PROVE  m # old /\ Claims(E, L, F, back(m), h)
  BY <1>1 DEF Claims
<1>2. \A m \in L : D[m].used => Room(T, D[m].first, D[m].size)
  BY DEF Sound
<1>3. \A m \in L : D[m].used /\ F[m].open => D[m].first \in {0, F[m].first}
  BY DEF Sound
<1>4. \A m \in Names, h \in Clusters : Claims(D, L, F, m, h) => Starts(T, h)
  BY <1>1 DEF Sound
<1>5. ASSUME NEW m \in Names, NEW k \in Names, NEW g \in Clusters, NEW h \in Clusters,
             Claims(D, L, F, m, g), Claims(D, L, F, k, h)
      PROVE  m = k <=> g = h
  <2>1. m # old /\ k # old /\ Claims(E, L, F, back(m), g) /\ Claims(E, L, F, back(k), h)
    BY <1>1, <1>5
  <2>2. back(m) \in Names /\ back(k) \in Names
    OBVIOUS
  <2>3. back(m) = back(k) <=> g = h
    <3> HIDE DEF back
    <3> QED  BY <2>1, <2>2 DEF Sound
  <2> QED  BY <2>1, <2>3
<1> QED  BY <1>2, <1>3, <1>4, <1>5 DEF Sound

\* A change of an entry is seen as one.
LEMMA EnteringPut ==
    ASSUME NEW s, Base(s), s.wsect = Dir, NEW n \in Names, NEW e \in EntrySet,
           NEW t, t = SetEntry(s, n, e)
    PROVE  /\ Wrote(s, t) /\ t.media = s.media /\ t.res = s.res /\ t.wsect = Dir
           /\ t.win = Put(s.win, n, e) /\ Tab(Seen(t)) = Tab(Seen(s))
           /\ Seen(t)[Dir] = Put(Seen(s)[Dir], n, e)
  BY Entering DEF Put

\* An entry with no cluster claims nothing.
LEMMA EnteringEmpty ==
    ASSUME NEW s, NEW L \in SUBSET Names, NEW F, Fine(s, L, F), s.res = "ok", s.wsect = Dir,
           NEW n \in Names, NEW e \in EntrySet, e.first = 0, e.size = 0,
           NEW t, t = SetEntry(s, n, e)
    PROVE  /\ Did(s, t, L, F) /\ t.res = "ok" /\ t.wsect = Dir /\ t.win = Put(s.win, n, e)
           /\ Tab(Seen(t)) = Tab(Seen(s)) /\ Seen(t)[Dir] = Put(Seen(s)[Dir], n, e)
<1>1. Base(s) /\ Sound(Tab(Seen(s)), Seen(s)[Dir], L, F)
  BY DEF Fine, Safe
<1>2. Seen(s)[Dir] \in Entries
  BY <1>1, ShowsDir DEF Entries
<1>3. Room(Tab(Seen(s)), e.first, e.size)
  BY NoRoom
<1>4. Sound(Tab(Seen(s)), Put(Seen(s)[Dir], n, e), L, F)
  BY <1>1, <1>2, <1>3, SoundEntry, ClustersFacts
<1> QED  BY <1>4, EnteringFine

\* An entry is made for a name that has none.
Registered(s, t, L, F, n) ==
    \E e \in EntrySet :
        /\ e.used /\ e.first = 0
        /\ Did(s, t, L, F) /\ t.res = "ok" /\ t.wsect = Dir /\ t.win = Put(s.win, n, e)
        /\ Tab(Seen(t)) = Tab(Seen(s)) /\ Seen(t)[Dir] = Put(Seen(s)[Dir], n, e)

\* dir_register makes an empty entry.
LEMMA Registering ==
    ASSUME NEW s, NEW L \in SUBSET Names, NEW F, Fine(s, L, F), s.res = "ok", s.wsect = Dir,
           NEW n \in Names, NEW t \in dir_register(s, n)
    PROVE  Registered(s, t, L, F, n)
<1>0. PICK e : e = [NoEntry EXCEPT !.used = TRUE]
  OBVIOUS
<1>1. t = SetEntry(s, n, e)
  BY <1>0 DEF dir_register, move_window, Then
<1>2. e \in EntrySet /\ e.first = 0 /\ e.size = 0
  <2>1. NoEntry \in EntrySet
    BY DEF NoEntry, EntrySet
  <2> QED  BY <2>1, <1>0, EntryFacts
<1>4. e.used
  BY <1>0 DEF NoEntry
<1>3. /\ Did(s, t, L, F) /\ t.res = "ok" /\ t.wsect = Dir /\ t.win = Put(s.win, n, e)
      /\ Tab(Seen(t)) = Tab(Seen(s)) /\ Seen(t)[Dir] = Put(Seen(s)[Dir], n, e)
  BY <1>1, <1>2, EnteringEmpty
<1> QED  BY <1>2, <1>3, <1>4 DEF Registered

\* The entry goes to the new name and from the old one.
LEMMA Moving ==
    ASSUME NEW s, NEW L \in SUBSET Names, NEW F, Fine(s, L, F), s.res = "ok", s.wsect = Dir,
           NEW old \in L, NEW new \in L, old # new, ~F[old].open, ~F[new].open,
           NEW v \in dir_register(s, new), NEW w
    PROVE  s.win[old].used /\ ~s.win[new].used /\ w \in dir_remove(SetEntry(v, new, s.win[old]), old) =>
               Did(s, w, L, F) /\ w.res = "ok"
<1> DEFINE E == Seen(s)[Dir]
           T == Tab(Seen(s))
           e == E[old]
           e1 == [e EXCEPT !.used = FALSE]
           x == SetEntry(v, new, e)
<1>0. SUFFICES ASSUME s.win[old].used, ~s.win[new].used,
                      w \in dir_remove(SetEntry(v, new, s.win[old]), old)
      PROVE  Did(s, w, L, F) /\ w.res = "ok"
  OBVIOUS
<1>1. old \in Names /\ new \in Names
  OBVIOUS
<1>2. Base(s) /\ Sound(T, E, L, F)
  BY DEF Fine, Safe
<1>3. E \in Entries /\ s.win = E /\ e \in EntrySet /\ e.used /\ ~E[new].used
  BY <1>0, <1>2, ShowsDir DEF Entries
<1> HIDE DEF e, E, T, x
<1>4. PICK e0 \in EntrySet :
         /\ Did(s, v, L, F) /\ v.res = "ok" /\ v.wsect = Dir
         /\ Tab(Seen(v)) = T /\ Seen(v)[Dir] = Put(E, new, e0) /\ v.win = Put(E, new, e0)
  <2>1. PICK e0 \in EntrySet :
         /\ e0.used /\ e0.first = 0
         /\ Did(s, v, L, F) /\ v.res = "ok" /\ v.wsect = Dir /\ v.win = Put(s.win, new, e0)
         /\ Tab(Seen(v)) = Tab(Seen(s)) /\ Seen(v)[Dir] = Put(Seen(s)[Dir], new, e0)
    BY <1>1, Registering DEF Registered
  <2> QED  BY <2>1, <1>3 DEF T, E
<1>5. Base(v) /\ Safe(v, L, F)
  BY <1>4 DEF Did, Fine, Safe
<1>6. /\ Wrote(v, x) /\ x.media = v.media /\ x.res = v.res /\ x.wsect = Dir
      /\ x.win = Put(v.win, new, e) /\ Tab(Seen(x)) = Tab(Seen(v))
      /\ Seen(x)[Dir] = Put(Seen(v)[Dir], new, e)
  <2>1. x = SetEntry(v, new, e)
    BY DEF x
  <2> QED  BY <2>1, <1>1, <1>3, <1>4, <1>5, EnteringPut
<1>7. x.win[old] = e
  BY <1>3, <1>4, <1>6, <1>1 DEF Put, Entries, e
<1>8. w = SetEntry(x, old, e1)
  <2>1. w \in dir_remove(x, old)
    BY <1>0, <1>3 DEF x, e
  <2> QED  BY <2>1, <1>4, <1>6, <1>7 DEF dir_remove, move_window, Then
<1>9. e1 \in EntrySet /\ ~e1.used
  BY <1>3, EntryFacts
<1> HIDE DEF e1
<1>10. Base(x)
  BY <1>6 DEF Wrote
<1>11. /\ Wrote(x, w) /\ w.media = x.media /\ w.res = x.res
       /\ Tab(Seen(w)) = Tab(Seen(x))
       /\ Seen(w)[Dir] = Put(Seen(x)[Dir], old, e1)
  BY <1>1, <1>6, <1>8, <1>9, <1>10, EnteringPut
<1> DEFINE D == Seen(w)[Dir]
<1> HIDE DEF D
<1>12. D = Put(Put(Put(E, new, e0), new, e), old, e1)
  BY <1>4, <1>6, <1>11 DEF D
<1>13. /\ D \in Entries /\ D[new] = e /\ ~D[old].used
       /\ \A m \in Names : m # old /\ m # new => D[m] = E[m]
  BY <1>1, <1>3, <1>9, <1>12 DEF Put, Entries
<1>14. Sound(T, D, L, F)
  <2>1. \A h \in Clusters : ~Claims(E, L, F, new, h)
    BY <1>3 DEF Claims
  <2> QED  BY <2>1, <1>2, <1>3, <1>13, SoundRename DEF e
<1>15. Base(w) /\ w.media \subseteq v.media \union {Seen(v)} /\ Kept(v, w)
  BY <1>6, <1>11 DEF Wrote, Kept
<1>16. Safe(w, L, F)
  <2>1. Sound(Tab(Seen(w)), Seen(w)[Dir], L, F)
    BY <1>4, <1>6, <1>11, <1>14 DEF D
  <2> QED  BY <2>1, <1>5, <1>15, SafeStep
<1>17. FreeOK(w)
  <2>1. Tab(Seen(w)) = Tab(Seen(v)) /\ w.res = v.res
    BY <1>6, <1>11
  <2> QED  BY <2>1, <1>4, <1>15 DEF FreeOK, Did, Fine, Kept
<1>18. Did(v, w, L, F) /\ w.res = "ok"
  BY <1>4, <1>6, <1>11, <1>15, <1>16, <1>17 DEF Did, Fine, Kept
<1> QED  BY <1>18, <1>4, DidOn

\* The result may be set unless a disk access has failed.
LEMMA SetResFine ==
    ASSUME NEW s, NEW L \in SUBSET Names, NEW F, Fine(s, L, F), s.res # "disk_err", NEW r,
           NEW t, t = [s EXCEPT !.res = r]
    PROVE  /\ Did(s, t, L, F) /\ t.res = r /\ t.wsect = s.wsect /\ t.win = s.win
           /\ Seen(t) = Seen(s)
<1>1. Base(s)
  BY DEF Fine, Safe
<1>2. Looked(s, t) /\ t.res = r /\ t.wsect = s.wsect /\ t.win = s.win
  BY <1>1, SetRes
<1> QED  BY <1>2, DidLooked DEF Looked

\* f_rename of a file that is not open.
LEMMA Renaming ==
    ASSUME NEW s, NEW L \in SUBSET Names, NEW F, Fine(s, L, F), s.res = "ok",
           NEW old \in L, NEW new \in L, old # new, ~F[old].open, ~F[new].open,
           NEW t \in f_rename(s, old, new)
    PROVE  Did(s, t, L, F)
<1>0. old \in Names /\ new \in Names
  OBVIOUS
<1>1. PICK u \in follow_path(s, old) :
         /\ u.res # "ok" => t = u
         /\ u.res = "ok" => \E a \in follow_path(u, new) :
                /\ a.res = "ok" => t = [a EXCEPT !.res = "exist"]
                /\ a.res = "no_file" => t \in Then(dir_register([a EXCEPT !.res = "ok"], new), LAMBDA v :
                            Then(dir_remove(SetEntry(v, new, u.win[old]), old), sync_fs))
                /\ a.res \notin {"ok", "no_file"} => t = a
  BY SMTT(60) DEF f_rename, Then, Error
<1>2. /\ Did(s, u, L, F)
      /\ u.res = "ok" => u.wsect = Dir /\ u.win = Seen(s)[Dir] /\ u.win[old].used
      /\ Seen(u) = Seen(s)
  BY <1>0, FollowingPath, ZenonT(60) DEF Looked
<1>3. CASE u.res # "ok"
  BY <1>1, <1>2, <1>3
<1>4. CASE u.res = "ok"
  <2>1. PICK a \in follow_path(u, new) :
                /\ a.res = "ok" => t = [a EXCEPT !.res = "exist"]
                /\ a.res = "no_file" => t \in Then(dir_register([a EXCEPT !.res = "ok"], new), LAMBDA v :
                            Then(dir_remove(SetEntry(v, new, u.win[old]), old), sync_fs))
                /\ a.res \notin {"ok", "no_file"} => t = a
    BY <1>1, <1>4
  <2>2. Fine(u, L, F)
    BY <1>2 DEF Did
  <2>3. /\ Did(u, a, L, F) /\ a.res \in {"ok", "no_file", "disk_err"}
        /\ a.res \in {"ok", "no_file"} => a.wsect = Dir /\ a.win = Seen(u)[Dir]
        /\ a.res = "no_file" => ~a.win[new].used
    BY <1>0, <1>4, <2>2, FollowingPath
  <2>4. Did(s, a, L, F) /\ Fine(a, L, F)
    BY <2>3, <1>2, DidOn DEF Did
  <2>5. CASE a.res = "ok"
    <3>1. t = [a EXCEPT !.res = "exist"]
      BY <2>1, <2>5
    <3>2. Did(a, t, L, F)
      BY <3>1, <2>4, <2>5, SetResFine
    <3> QED  BY <3>2, <2>4, DidOn
  <2>6. CASE a.res = "no_file"
    <3> DEFINE b == [a EXCEPT !.res = "ok"]
    <3>1. Did(a, b, L, F) /\ b.res = "ok" /\ b.wsect = Dir /\ b.win = a.win
      BY <2>3, <2>4, <2>6, SetResFine
    <3>2. PICK v \in dir_register(b, new) :
             /\ v.res # "ok" => t = v
             /\ v.res = "ok" => t \in Then(dir_remove(SetEntry(v, new, u.win[old]), old), sync_fs)
      BY <2>1, <2>6 DEF Then
    <3> HIDE DEF b
    <3>3. Fine(b, L, F) /\ b.win = u.win /\ ~b.win[new].used /\ b.win[old].used
      BY <3>1, <2>3, <2>6, <1>2, <1>4 DEF Did
    <3>4. v.res = "ok"
      BY <3>1, <3>3, <1>0, Registering DEF Registered
    <3>5. PICK w \in dir_remove(SetEntry(v, new, u.win[old]), old) :
             /\ w.res # "ok" => t = w
             /\ w.res = "ok" => t \in sync_fs(w)
      BY <3>2, <3>4 DEF Then
    <3>6. Did(b, w, L, F) /\ w.res = "ok"
      BY <3>1, <3>3, <3>5, Moving
    <3>7. Did(w, t, L, F)
      BY <3>5, <3>6, Syncing DEF Did
    <3>8. Did(s, w, L, F)
      BY <3>1, <3>6, <2>4, DidOn
    <3> QED  BY <3>7, <3>8, DidOn
  <2>7. CASE a.res \notin {"ok", "no_file"}
    BY <2>1, <2>4, <2>7
  <2> QED  BY <2>5, <2>6, <2>7
<1> QED  BY <1>3, <1>4

\* last_clst may be set to any cluster.
LEMMA SetLast ==
    ASSUME NEW s, NEW L, NEW F, Fine(s, L, F), NEW v \in 0..(NFatEnt - 1),
           NEW t, t = [s EXCEPT !.last = v]
    PROVE  /\ Did(s, t, L, F) /\ t.res = s.res /\ t.wsect = s.wsect /\ t.win = s.win
           /\ Seen(t) = Seen(s)
<1>1. IsState(s)
  BY DEF Fine, Safe, Base
<1>2. /\ IsState(t) /\ t.disk = s.disk /\ t.win = s.win /\ t.wsect = s.wsect /\ t.dirty = s.dirty
      /\ t.media = s.media /\ t.last = v /\ t.free = s.free /\ t.res = s.res /\ t.f = s.f
      /\ t.out = s.out /\ t.sure = s.sure
  BY <1>1 DEF IsState
<1>3. Safe(t, L, F) /\ Seen(t) = Seen(s)
  BY <1>2, SafeSame DEF Fine
<1> QED  BY <1>2, <1>3 DEF Did, Fine, FreeOK

\* The entry of a closed file is emptied, its chain freed and the window
\* brought back.
LEMMA Emptying ==
    ASSUME NEW s, NEW L \in SUBSET Names, NEW F, Fine(s, L, F), s.res = "ok", s.wsect = Dir,
           NEW n \in L, NEW t
    PROVE  ~F[n].open /\ s.win[n].used /\ t \in Empty(s, n) =>
               /\ Did(s, t, L, F) /\ t.res \in Errs
               /\ t.res = "ok" => t.wsect = Dir /\ t.win[n].used /\ t.win = Seen(t)[Dir] /\ t.win \in Entries
<1>0. SUFFICES ASSUME ~F[n].open, s.win[n].used, t \in Empty(s, n)
      PROVE  /\ Did(s, t, L, F) /\ t.res \in Errs
             /\ t.res = "ok" => t.wsect = Dir /\ t.win[n].used /\ t.win = Seen(t)[Dir] /\ t.win \in Entries
  OBVIOUS
<1> DEFINE E == Seen(s)[Dir]
           T == Tab(Seen(s))
           h == s.win[n].first
           e == [s.win[n] EXCEPT !.first = 0, !.size = 0]
           x == SetEntry(s, n, e)
<1>1. n \in Names
  OBVIOUS
<1>2. Base(s) /\ Sound(T, E, L, F)
  BY DEF Fine, Safe
<1>3. E \in Entries /\ s.win = E /\ s.win[n] = E[n] /\ E[n] \in EntrySet /\ E[n].used
  BY <1>0, <1>1, <1>2, ShowsDir DEF Entries
<1>4. e \in EntrySet /\ e.used /\ e.first = 0 /\ e.size = 0
  <2>1. s.win[n] \in EntrySet /\ s.win[n].used
    BY <1>3
  <2> QED  BY <2>1, EntryFacts
<1>5. /\ h = 0 => t = x
      /\ h # 0 => \E u \in remove_chain(x, h, 0) :
           /\ u.res # "ok" => t = u
           /\ u.res = "ok" => \E v \in move_window(u, Dir) : t = [v EXCEPT !.last = h - 1]
  <2>2. t \in IF h = 0 THEN {x}
             ELSE Then(remove_chain(x, h, 0), LAMBDA u :
                 {[v EXCEPT !.last = h - 1] : v \in move_window(u, Dir)})
    BY <1>0 DEF Empty
  <2> HIDE DEF h, x
  <2> QED  BY <2>2 DEF Then
<1> HIDE DEF e, x, h, E, T
<1>6. /\ Did(s, x, L, F) /\ x.res = "ok" /\ x.wsect = Dir /\ x.win = Put(s.win, n, e)
      /\ Tab(Seen(x)) = T /\ Seen(x)[Dir] = Put(E, n, e)
  <2>1. e \in EntrySet /\ e.first = 0 /\ e.size = 0 /\ x = SetEntry(s, n, e)
    BY <1>4 DEF x
  <2>2. /\ Did(s, x, L, F) /\ x.res = "ok" /\ x.wsect = Dir /\ x.win = Put(s.win, n, e)
        /\ Tab(Seen(x)) = Tab(Seen(s)) /\ Seen(x)[Dir] = Put(Seen(s)[Dir], n, e)
    BY <2>1, <1>1, EnteringEmpty
  <2> QED  BY <2>2 DEF E, T
<1>7. Put(E, n, e) \in Entries /\ Put(E, n, e)[n] = e /\ e.used
  BY <1>1, <1>3, <1>4 DEF Put, Entries
<1>8. CASE h = 0
  BY <1>5, <1>6, <1>7, <1>3, <1>8 DEF Errs
<1>9. CASE h # 0
  <2>1. PICK u \in remove_chain(x, h, 0) :
           /\ u.res # "ok" => t = u
           /\ u.res = "ok" => \E v \in move_window(u, Dir) : t = [v EXCEPT !.last = h - 1]
    BY <1>5, <1>9
  <2>2. h \in Clusters /\ h - 1 \in 0..(NFatEnt - 1)
    <3>1. h \in Clusters
      BY <1>3, <1>9 DEF EntrySet, h
    <3> QED  BY <3>1, VolumeAssumption DEF Clusters
  <2>3. Loose(T, Put(E, n, e), L, F, h)
    <3>1. E[n].first = h /\ e.first # h
      BY <1>3, <1>4, <1>9 DEF h
    <3> QED  BY <3>1, <1>0, <1>2, <1>3, <1>4, <2>2, StrikeLoose
  <2>4. Fine(x, L, F) /\ Loose(Tab(Seen(x)), Seen(x)[Dir], L, F, h)
    BY <1>6, <2>3 DEF Did
  <2>5. Worked(x, u, L, F)
    BY <2>1, <2>4, <1>6, Removing
  <2>6. Did(x, u, L, F) /\ u.res \in Errs /\ Seen(u)[Dir] = Put(E, n, e)
    BY <2>5, <1>6, DidWorked DEF Worked
  <2>7. Did(s, u, L, F)
    BY <2>6, <1>6, DidOn
  <2>8. CASE u.res # "ok"
    BY <2>1, <2>6, <2>7, <2>8
  <2>9. CASE u.res = "ok"
    <3>1. PICK v \in move_window(u, Dir) : t = [v EXCEPT !.last = h - 1]
      BY <2>1, <2>9
    <3>2. Base(u) /\ Fine(u, L, F)
      BY <2>7 DEF Did, Fine, Safe
    <3>3. Looked(u, v) /\ v.res \in {"ok", "disk_err"} /\ (v.res = "ok" => v.wsect = Dir)
      BY <3>2, <2>9, MovingWindow
    <3>4. Did(u, v, L, F)
      BY <3>2, <3>3, <2>9, DidLooked
    <3>5. Fine(v, L, F)
      BY <3>4 DEF Did
    <3>6. Did(v, t, L, F) /\ t.res = v.res /\ t.wsect = v.wsect /\ t.win = v.win
      BY <3>1, <3>5, <2>2, SetLast
    <3>7. Did(s, v, L, F)
      BY <2>7, <3>4, DidOn
    <3>8. Did(s, t, L, F)
      BY <3>6, <3>7, DidOn
    <3>9. ASSUME t.res = "ok" PROVE t.wsect = Dir /\ t.win[n].used /\ t.win = Seen(t)[Dir] /\ t.win \in Entries
      <4>1. Base(t) /\ t.wsect = Dir
        BY <3>8, <3>3, <3>6, <3>9 DEF Did, Fine, Safe
      <4>2. t.win = Seen(t)[Dir] /\ t.win \in Entries
        BY <4>1, ShowsDir DEF Entries
      <4>3. Base(v) /\ v.wsect = Dir
        BY <3>3, <3>6, <3>9 DEF Looked
      <4>4. v.win = Put(E, n, e)
        BY <4>3, <3>3, <2>6, ShowsDir DEF Looked
      <4> QED  BY <4>1, <4>2, <4>4, <3>6, <1>7
    <3> QED  BY <3>3, <3>6, <3>8, <3>9 DEF Errs
  <2> QED  BY <2>8, <2>9
<1> QED  BY <1>8, <1>9

\* The files, and one of them.
IsFiles(F) == F = [m \in Names |-> F[m]]

Shaped(f) ==
    f = [open |-> f.open, name |-> f.name, read |-> f.read, write |-> f.write, modified |-> f.modified,
         dirty |-> f.dirty, err |-> f.err, ptr |-> f.ptr, clust |-> f.clust, sect |-> f.sect,
         buf |-> f.buf, first |-> f.first, size |-> f.size]

IsFile(f, n) ==
    /\ Shaped(f) /\ f.open /\ f.name = n
    /\ f.dirty \in BOOLEAN
    /\ ~f.write => ~f.dirty

\* One file in the place of another.
LEMMA PutFile ==
    ASSUME NEW F, IsFiles(F), NEW n \in Names, NEW f
    PROVE  /\ IsFiles(Put(F, n, f)) /\ Put(F, n, f)[n] = f
           /\ \A m \in Names : m # n => Put(F, n, f)[m] = F[m]
           /\ \A g : Put(Put(F, n, g), n, f) = Put(F, n, f)
<1>1. F = [m \in Names |-> F[m]]
  BY DEF IsFiles
<1> QED  BY <1>1 DEF IsFiles, Put

\* Another open file, of the same chain or of one that is loose.
LEMMA SoundFile ==
    ASSUME NEW T, NEW E, NEW L \in SUBSET Names, NEW F, Sound(T, E, L, F), IsFiles(F), NEW n \in Names,
           NEW f, f.open, FileOK(T, f),
           f.first \in Clusters =>
               Claims(E, L, F, n, f.first) \/ (Starts(T, f.first) /\ Loose(T, E, L, F, f.first)
                                               /\ \A h \in Clusters : ~Claims(E, L, F, n, h)),
           n \in L /\ E[n].used => E[n].first \in {0, f.first},
           NEW G, G = Put(F, n, f)
    PROVE  Sound(T, E, L, G)
<1>1. G[n] = f /\ \A m \in Names : m # n => G[m] = F[m]
  BY PutFile
<1>2. \A m \in Names, h \in Clusters : m # n /\ Claims(E, L, G, m, h) => Claims(E, L, F, m, h)
  BY <1>1 DEF Claims
<1>3. \A h \in Clusters : Claims(E, L, G, n, h) => h = f.first
  BY <1>1, ClustersFacts DEF Claims
<1>4. \A m \in L : E[m].used /\ G[m].open => E[m].first \in {0, G[m].first}
  BY <1>1 DEF Sound
<1>5. \A m \in Names : G[m].open => FileOK(T, G[m])
  BY <1>1 DEF Sound
<1>6. \A m \in Names, h \in Clusters : Claims(E, L, G, m, h) => Starts(T, h)
  BY <1>2, <1>3 DEF Sound
<1>7. ASSUME NEW h \in Clusters, Claims(E, L, G, n, h), NEW m \in Names, m # n, Claims(E, L, G, m, h)
      PROVE  FALSE
  <2>1. h = f.first /\ Claims(E, L, F, m, h)
    BY <1>2, <1>3, <1>7
  <2> QED  BY <2>1, <1>7 DEF Sound, Loose
<1>8. ASSUME NEW m \in Names, NEW k \in Names, NEW g \in Clusters, NEW h \in Clusters,
             Claims(E, L, G, m, g), Claims(E, L, G, k, h)
      PROVE  m = k <=> g = h
  <2>1. CASE m = n /\ k = n
    BY <2>1, <1>3, <1>8
  <2>2. CASE m # n /\ k # n
    BY <2>2, <1>2, <1>8 DEF Sound
  <2>3. CASE m = n /\ k # n
    BY <2>3, <1>7, <1>8
  <2>4. CASE m # n /\ k = n
    BY <2>4, <1>7, <1>8
  <2> QED  BY <2>1, <2>2, <2>3, <2>4
<1> QED  BY <1>4, <1>5, <1>6, <1>8 DEF Sound

-----------------------------------------------------------------------------
\* f_open.

\* The file that is worked on may be set.
LEMMA SetFile ==
    ASSUME NEW s, NEW L, NEW F, Fine(s, L, F), NEW f, NEW t, t = [s EXCEPT !.f = f]
    PROVE  /\ Fine(t, L, F) /\ t.f = f /\ t.res = s.res /\ t.out = s.out /\ t.val = s.val
           /\ t.wsect = s.wsect /\ t.win = s.win /\ t.disk = s.disk /\ Seen(t) = Seen(s)
<1>1. IsState(s)
  BY DEF Fine, Safe, Base
<1>2. /\ IsState(t) /\ t.disk = s.disk /\ t.win = s.win /\ t.wsect = s.wsect /\ t.dirty = s.dirty
      /\ t.media = s.media /\ t.last = s.last /\ t.free = s.free /\ t.res = s.res /\ t.f = f
      /\ t.out = s.out /\ t.sure = s.sure /\ t.val = s.val
  BY <1>1 DEF IsState
<1>3. Safe(t, L, F) /\ Seen(t) = Seen(s)
  BY <1>2, SafeSame DEF Fine
<1> QED  BY <1>2, <1>3 DEF Fine, FreeOK

\* The work on file n, the others being as in F.
Busy(s, L, F, n) == Fine(s, L, Put(F, n, s.f)) /\ IsFile(s.f, n)

\* Other files may be open with which the volume is sound.
LEMMA FineWith ==
    ASSUME NEW s, NEW L, NEW F, Fine(s, L, F), NEW G, Sound(Tab(Seen(s)), Seen(s)[Dir], L, G)
    PROVE  Fine(s, L, G)
  BY DEF Fine, Safe

\* A file at its start, as its entry says.
Fresh(f, e) == f.open /\ f.err = "ok" /\ f.ptr = 0 /\ f.first = e.first /\ f.size = e.size

\* A file opened at its entry's chain.
LEMMA SoundFresh ==
    ASSUME NEW T, NEW E \in Entries, NEW L \in SUBSET Names, NEW F, Sound(T, E, L, F), IsFiles(F),
           NEW n \in L, NEW f, Fresh(f, E[n]), NEW G, G = Put(F, n, f)
    PROVE  E[n].used /\ ~f.dirty => Sound(T, E, L, G)
<1>0. SUFFICES ASSUME E[n].used, ~f.dirty PROVE Sound(T, E, L, G)
  OBVIOUS
<1>1. n \in Names /\ E[n].first \in {0} \union Clusters /\ E[n].size \in Nat
  BY DEF Entries, EntrySet
<1>2. Room(T, E[n].first, E[n].size)
  BY <1>0 DEF Sound
<1>3. f.first = E[n].first /\ f.size = E[n].size /\ f.ptr = 0 /\ f.open
  BY DEF Fresh
<1>4. FileOK(T, f)
  <2>1. At(T, f)
    BY <1>3 DEF At
  <2> QED  BY <2>1, <1>0, <1>1, <1>2, <1>3 DEF FileOK
<1>5. f.first \in Clusters => Claims(E, L, F, n, f.first)
  BY <1>0, <1>3 DEF Claims
<1> QED  BY <1>1, <1>3, <1>4, <1>5, SoundFile

\* The file that is worked on becomes an open one.
LEMMA Adopting ==
    ASSUME NEW s, NEW L \in SUBSET Names, NEW F, Fine(s, L, F), IsFiles(F), NEW n \in L,
           NEW f, IsFile(f, n), NEW e, e = Seen(s)[Dir][n], Fresh(f, e), NEW t, t = [s EXCEPT !.f = f]
    PROVE  e.used /\ ~f.dirty =>
               /\ Busy(t, L, F, n) /\ t.f = f /\ t.res = s.res /\ t.out = s.out
<1>0. SUFFICES ASSUME e.used, ~f.dirty
      PROVE  Busy(t, L, F, n) /\ t.f = f /\ t.res = s.res /\ t.out = s.out
  OBVIOUS
<1>1. Fine(t, L, F) /\ t.f = f /\ t.res = s.res /\ t.out = s.out /\ Seen(t) = Seen(s)
  BY SetFile
<1>2. Base(t) /\ Sound(Tab(Seen(t)), Seen(t)[Dir], L, F)
  BY <1>1 DEF Fine, Safe
<1>3. Seen(t)[Dir] \in Entries /\ Seen(t)[Dir][n] = e
  BY <1>1, <1>2, SafeTyped
<1>4. Sound(Tab(Seen(t)), Seen(t)[Dir], L, Put(F, n, f))
  BY <1>0, <1>2, <1>3, SoundFresh
<1>5. Fine(t, L, Put(F, n, f))
  BY <1>1, <1>4, FineWith
<1> QED  BY <1>1, <1>5 DEF Busy

\* The file object f_open makes.
FreshFile(n, mode, e, modified) ==
    [open |-> TRUE, name |-> n, read |-> mode.read,
     write |-> mode.write, modified |-> modified, dirty |-> FALSE, err |-> "ok",
     ptr |-> 0, clust |-> 0, sect |-> 0, buf |-> [i \in 1..SectorSize |-> 0],
     first |-> e.first, size |-> e.size]

\* The file object f_open makes is one of a file at its start.
LEMMA FreshFacts ==
    ASSUME NEW n, NEW mode, NEW e, NEW modified, NEW f, f = FreshFile(n, mode, e, modified)
    PROVE  IsFile(f, n) /\ Fresh(f, e) /\ ~f.dirty
<1>1. Shaped(f)
  BY DEF FreshFile, Shaped
<1> QED  BY <1>1 DEF FreshFile, IsFile, Fresh

\* So is one marked as changed.
LEMMA FreshMarked ==
    ASSUME NEW n, NEW e, NEW f, IsFile(f, n), Fresh(f, e), NEW v, NEW g, g = [f EXCEPT !.modified = v]
    PROVE  ~f.dirty => IsFile(g, n) /\ Fresh(g, e) /\ ~g.dirty
<1>1. Shaped(f)
  BY DEF IsFile
<1>2. /\ Shaped(g) /\ g.open = f.open /\ g.name = f.name /\ g.dirty = f.dirty /\ g.err = f.err
      /\ g.ptr = f.ptr /\ g.first = f.first /\ g.size = f.size
  BY <1>1 DEF Shaped
<1> QED  BY <1>2 DEF IsFile, Fresh

\* A file object as f_open makes it.
Made(s, t, n, f) ==
    /\ t = [s EXCEPT !.f = f] /\ IsFile(f, n) /\ Fresh(f, s.win[n]) /\ ~f.dirty

\* A file that has been opened.
Began(t, L, F, n) ==
    Busy(t, L, F, n) /\ t.f.err = "ok" /\ t.f.ptr = 0 /\ t.f.size \in Nat /\ ~t.f.dirty

\* A file object f_open has made is that of an open file.
LEMMA Beginning ==
    ASSUME NEW s, NEW L \in SUBSET Names, NEW F, Fine(s, L, F), IsFiles(F), NEW n \in L, s.wsect = Dir,
           s.res = "ok", NEW f, NEW t
    PROVE  s.win[n].used /\ Made(s, t, n, f) => Began(t, L, F, n) /\ t.res = "ok" /\ t.out = s.out
<1>0. SUFFICES ASSUME s.win[n].used, Made(s, t, n, f)
      PROVE  Began(t, L, F, n) /\ t.res = "ok" /\ t.out = s.out
  OBVIOUS
<1>1. Base(s) /\ n \in Names
  BY DEF Fine, Safe
<1>2. PICK e : e = s.win[n]
  OBVIOUS
<1>3. e = Seen(s)[Dir][n] /\ e \in EntrySet
  BY <1>1, <1>2, ShowsDir
<1>5. IsFile(f, n) /\ Fresh(f, e) /\ ~f.dirty /\ t = [s EXCEPT !.f = f]
  BY <1>0, <1>2 DEF Made
<1>7. e.used
  BY <1>0, <1>2
<1>8. Busy(t, L, F, n) /\ t.f = f /\ t.res = s.res /\ t.out = s.out
  BY <1>3, <1>5, <1>7, Adopting
<1>9. f.err = "ok" /\ f.ptr = 0 /\ f.size \in Nat
  BY <1>3, <1>5 DEF Fresh, EntrySet
<1> QED  BY <1>5, <1>8, <1>9 DEF Began

\* What f_open leaves: a file at its start, or an error and no file.
Opens(s, t, L, F, n) ==
    /\ t.out = s.out
    /\ t.res = "ok" => Began(t, L, F, n)
    /\ t.res # "ok" => Fine(t, L, F)

\* The ways through f_open that empty the file.
LEMMA Creation ==
    ASSUME NEW s, NEW L \in SUBSET Names, NEW F, Fine(s, L, F), IsFiles(F), NEW n \in L, s.wsect = Dir,
           s.res = "ok", NEW mode, NEW t
    PROVE  ~F[n].open /\ s.win[n].used
           /\ (\E u \in Empty(s, n) :
                 /\ u.res # "ok" => t = u
                 /\ u.res = "ok" => \E v, f : Made(u, v, n, f) /\ t = [v EXCEPT !.f = [@ EXCEPT !.modified = TRUE]])
           => Opens(s, t, L, F, n)
<1>0. SUFFICES ASSUME ~F[n].open, s.win[n].used, NEW u \in Empty(s, n),
                      u.res # "ok" => t = u,
                      u.res = "ok" => \E v, f : Made(u, v, n, f) /\ t = [v EXCEPT !.f = [@ EXCEPT !.modified = TRUE]]
      PROVE  Opens(s, t, L, F, n)
  OBVIOUS
<1>1. /\ Did(s, u, L, F) /\ u.res \in Errs
      /\ u.res = "ok" => u.wsect = Dir /\ u.win[n].used /\ u.win = Seen(u)[Dir] /\ u.win \in Entries
  BY <1>0, Emptying
<1>2. CASE u.res # "ok"
  BY <1>0, <1>1, <1>2 DEF Did, Opens
<1>3. CASE u.res = "ok"
  <2>1. Fine(u, L, F) /\ u.wsect = Dir /\ u.out = s.out
    BY <1>1, <1>3 DEF Did
  <2>2. PICK v, f : Made(u, v, n, f) /\ t = [v EXCEPT !.f = [@ EXCEPT !.modified = TRUE]]
    BY <1>0, <1>3
  <2>3. IsState(u) /\ v = [u EXCEPT !.f = f]
    BY <2>1, <2>2 DEF Fine, Safe, Base, Made
  <2>4. PICK g : g = [f EXCEPT !.modified = TRUE]
    OBVIOUS
  <2>5. t = [u EXCEPT !.f = g]
    <3>1. v.f = f
      BY <2>3 DEF IsState
    <3>2. t = [v EXCEPT !.f = g]
      BY <2>2, <2>4, <3>1
    <3> QED  BY <2>3, <3>2 DEF IsState
  <2>6. Made(u, t, n, g)
    BY <2>2, <2>4, <2>5, FreshMarked DEF Made
  <2>7. Began(t, L, F, n) /\ t.res = "ok" /\ t.out = u.out
    BY <1>1, <1>3, <2>1, <2>6, Beginning
  <2> QED  BY <2>1, <2>7 DEF Opens
<1> QED  BY <1>2, <1>3

\* The ways through f_open.
CreateWays(s, t, n) ==
    \E u \in Empty(s, n) :
        /\ u.res # "ok" => t = u
        /\ u.res = "ok" => \E v, f : Made(u, v, n, f) /\ t = [v EXCEPT !.f = [@ EXCEPT !.modified = TRUE]]

OpenWays(s, t, n) ==
    \E u \in follow_path(s, n) :
        \/ /\ u.res = "no_file"
           /\ \E w \in dir_register([u EXCEPT !.res = "ok"], n) :
                  /\ w.res # "ok" => t = w
                  /\ w.res = "ok" => CreateWays(w, t, n)
        \/ u.res = "ok" /\ t = [u EXCEPT !.res = "exist"]
        \/ u.res = "ok" /\ CreateWays(u, t, n)
        \/ u.res = "ok" /\ \E f : Made(u, t, n, f)
        \/ u.res # "ok" /\ t = u

\* f_open goes one of these ways.
LEMMA OpenInWays ==
    ASSUME NEW s, NEW n, NEW mode, NEW t \in f_open(s, n, mode)
    PROVE  OpenWays(s, t, n)
<1> DEFINE Entered(x) == {[x EXCEPT !.f = FreshFile(n, mode, x.win[n], mode.always)]}
           Created(x) ==
            Then(Empty(x, n), LAMBDA u :
                {[v EXCEPT !.f = [@ EXCEPT !.modified = TRUE]] : v \in Entered(u)})
           create == mode.always \/ mode.new \/ mode.open
<1>1. PICK u \in follow_path(s, n) :
         t \in CASE u.res = "no_file" /\ create ->
                        Then(dir_register([u EXCEPT !.res = "ok"], n), Created)
                 [] u.res = "ok" /\ mode.new -> Error(u, "exist")
                 [] u.res = "ok" /\ ~mode.new /\ mode.always -> Created(u)
                 [] u.res = "ok" /\ ~mode.new /\ ~mode.always -> Entered(u)
                 [] OTHER -> {u}
  BY DEF f_open, FreshFile
<1>2. ASSUME NEW x, NEW y \in Entered(x) PROVE \E f : Made(x, y, n, f)
  <2>1. PICK f : f = FreshFile(n, mode, x.win[n], mode.always)
    OBVIOUS
  <2>2. y = [x EXCEPT !.f = f]
    BY <2>1
  <2>3. Made(x, y, n, f)
    BY <2>1, <2>2, FreshFacts DEF Made
  <2> QED  BY <2>3
<1> HIDE DEF Entered
<1>3. ASSUME NEW x, t \in Created(x) PROVE CreateWays(x, t, n)
  <2>1. PICK w \in Empty(x, n) :
           /\ w.res # "ok" => t = w
           /\ w.res = "ok" => \E v \in Entered(w) : t = [v EXCEPT !.f = [@ EXCEPT !.modified = TRUE]]
    BY <1>3 DEF Then
  <2>2. w.res = "ok" => \E v, f : Made(w, v, n, f) /\ t = [v EXCEPT !.f = [@ EXCEPT !.modified = TRUE]]
    BY <2>1, <1>2
  <2> QED  BY <2>1, <2>2 DEF CreateWays
<1> HIDE DEF Created
<1>4. ASSUME t \in Then(dir_register([u EXCEPT !.res = "ok"], n), Created)
      PROVE  \E w \in dir_register([u EXCEPT !.res = "ok"], n) :
                  /\ w.res # "ok" => t = w
                  /\ w.res = "ok" => t \in Created(w)
  BY <1>4 DEF Then
<1>5. CASE u.res = "no_file" /\ create
  BY <1>1, <1>3, <1>4, <1>5 DEF OpenWays
<1>6. CASE ~(u.res = "no_file" /\ create)
  BY <1>1, <1>2, <1>3, <1>6 DEF OpenWays, Error
<1> QED  BY <1>5, <1>6

\* f_open.
LEMMA Opening ==
    ASSUME NEW s, NEW L \in SUBSET Names, NEW F, Fine(s, L, F), IsFiles(F), NEW n \in L, s.res = "ok",
           NEW mode, NEW t
    PROVE  ~F[n].open /\ t \in f_open(s, n, mode) => Opens(s, t, L, F, n)
<1>0. SUFFICES ASSUME ~F[n].open, t \in f_open(s, n, mode)
      PROVE  Opens(s, t, L, F, n)
  OBVIOUS
<1>1. PICK u \in follow_path(s, n) :
        \/ /\ u.res = "no_file"
           /\ \E w \in dir_register([u EXCEPT !.res = "ok"], n) :
                  /\ w.res # "ok" => t = w
                  /\ w.res = "ok" => CreateWays(w, t, n)
        \/ u.res = "ok" /\ t = [u EXCEPT !.res = "exist"]
        \/ u.res = "ok" /\ CreateWays(u, t, n)
        \/ u.res = "ok" /\ \E f : Made(u, t, n, f)
        \/ u.res # "ok" /\ t = u
  BY <1>0, OpenInWays DEF OpenWays
<1>2. n \in Names
  OBVIOUS
<1>3. /\ Did(s, u, L, F) /\ u.res \in {"ok", "no_file", "disk_err"}
      /\ u.res \in {"ok", "no_file"} => u.wsect = Dir
      /\ u.res = "ok" => u.win[n].used
  BY <1>2, FollowingPath
<1>4. Fine(u, L, F) /\ u.out = s.out
  BY <1>3 DEF Did
<1>5. CASE u.res = "no_file" /\ t # u
  <2>0. PICK a : a = [u EXCEPT !.res = "ok"]
    OBVIOUS
  <2>1. Did(u, a, L, F) /\ a.res = "ok" /\ a.wsect = u.wsect
    BY <2>0, <1>4, <1>5, SetResFine, SMTT(60)
  <2>2. PICK w \in dir_register(a, n) :
                  /\ w.res # "ok" => t = w
                  /\ w.res = "ok" => CreateWays(w, t, n)
    BY <2>0, <1>1, <1>5
  <2>3. Fine(a, L, F) /\ a.wsect = Dir
    BY <2>1, <1>3, <1>5 DEF Did
  <2>4. PICK e \in EntrySet : /\ e.used /\ e.first = 0
               /\ Did(a, w, L, F) /\ w.res = "ok" /\ w.wsect = Dir /\ w.win = Put(a.win, n, e)
               /\ Tab(Seen(w)) = Tab(Seen(a)) /\ Seen(w)[Dir] = Put(Seen(a)[Dir], n, e)
    <3>1. n \in Names /\ Fine(a, L, F) /\ a.res = "ok"
      BY <1>2, <2>1, <2>3
    <3>2. w \in dir_register(a, n)
      OBVIOUS
    <3>3. Registered(a, w, L, F, n)
      BY <3>1, <3>2, <2>3, Registering
    <3> QED  BY <3>3 DEF Registered
  <2>5. w.win[n].used
    <3>1. Base(a)
      BY <2>3 DEF Fine, Safe
    <3>2. a.win \in [Names -> EntrySet]
      BY <3>1, <2>3, ShowsDir
    <3> QED  BY <3>2, <2>4, <1>2 DEF Put
  <2>6. Fine(w, L, F) /\ w.out = s.out
    BY <2>1, <2>4, <1>4 DEF Did
  <2>7. Opens(w, t, L, F, n)
    BY <1>0, <2>2, <2>4, <2>5, <2>6, Creation DEF CreateWays
  <2> QED  BY <2>6, <2>7 DEF Opens
<1>6. CASE u.res = "ok" /\ t = [u EXCEPT !.res = "exist"]
  <2>1. Did(u, t, L, F) /\ t.res = "exist"
    BY <1>4, <1>6, SetResFine
  <2> QED  BY <2>1, <1>4 DEF Did, Opens
<1>7. CASE u.res = "ok" /\ CreateWays(u, t, n)
  <2>1. Opens(u, t, L, F, n)
    BY <1>0, <1>3, <1>4, <1>7, Creation DEF CreateWays
  <2> QED  BY <2>1, <1>4 DEF Opens
<1>8. CASE u.res = "ok" /\ \E f : Made(u, t, n, f)
  <2>1. PICK f : Made(u, t, n, f)
    BY <1>8
  <2>2. Began(t, L, F, n) /\ t.res = "ok" /\ t.out = u.out
    BY <2>1, <1>3, <1>4, <1>8, Beginning
  <2> QED  BY <2>2, <1>4 DEF Opens
<1>9. CASE u.res # "ok" /\ t = u
  BY <1>4, <1>9 DEF Opens
<1> QED  BY <1>1, <1>5, <1>6, <1>7, <1>8, <1>9

-----------------------------------------------------------------------------
\* A file in the middle of a call.

\* A state with another file worked on; a file at another position; a file
\* that an error has ended.
Having(s, f) == [s EXCEPT !.f = f]
With(f, p) == [f EXCEPT !.ptr = p]
Bare(f) == [f EXCEPT !.err = "int_err"]

\* The fields of a file at another position.
LEMMA WithFacts ==
    ASSUME NEW n, NEW f, IsFile(f, n), NEW p
    PROVE  /\ IsFile(With(f, p), n) /\ With(f, p).first = f.first /\ With(f, p).size = f.size
           /\ With(f, p).ptr = p /\ With(f, p).err = f.err /\ With(f, p).clust = f.clust
           /\ With(f, p).sect = f.sect /\ With(f, p).dirty = f.dirty
           /\ With(f, f.ptr) = f
<1>1. Shaped(f)
  BY DEF IsFile
<1>2. /\ Shaped(With(f, p)) /\ With(f, p).open = f.open /\ With(f, p).name = f.name
      /\ With(f, p).dirty = f.dirty /\ With(f, p).write = f.write
      /\ With(f, p).first = f.first /\ With(f, p).size = f.size
      /\ With(f, p).ptr = p /\ With(f, p).err = f.err /\ With(f, p).clust = f.clust
      /\ With(f, p).sect = f.sect
  BY <1>1 DEF Shaped, With
<1>3. With(f, f.ptr) = f
  BY <1>1 DEF Shaped, With
<1> HIDE DEF With
<1>4. IsFile(With(f, p), n)
  BY <1>2 DEF IsFile
<1> QED  BY <1>2, <1>3, <1>4

\* The fields of a file that an error has ended.
LEMMA BareFacts ==
    ASSUME NEW n, NEW f, IsFile(f, n)
    PROVE  /\ IsFile(Bare(f), n) /\ Bare(f).first = f.first /\ Bare(f).size = f.size
           /\ Bare(f).ptr = f.ptr /\ Bare(f).err # "ok" /\ Bare(f).sect = f.sect
           /\ Bare(f).dirty = f.dirty
<1>1. Shaped(f)
  BY DEF IsFile
<1>2. /\ Shaped(Bare(f)) /\ Bare(f).open = f.open /\ Bare(f).name = f.name
      /\ Bare(f).dirty = f.dirty /\ Bare(f).write = f.write
      /\ Bare(f).first = f.first /\ Bare(f).size = f.size
      /\ Bare(f).ptr = f.ptr /\ Bare(f).err = "int_err" /\ Bare(f).sect = f.sect
  BY <1>1 DEF Shaped, Bare
<1> HIDE DEF Bare
<1>3. IsFile(Bare(f), n)
  BY <1>2 DEF IsFile
<1> QED  BY <1>2, <1>3

\* File n of a sound volume.
LEMMA FileHeld ==
    ASSUME NEW s, NEW L \in SUBSET Names, NEW F, IsFiles(F), NEW n \in Names, NEW g, IsFile(g, n),
           Fine(s, L, Put(F, n, g))
    PROVE  /\ FileOK(Tab(Seen(s)), g) /\ Base(s)
           /\ \A h \in Clusters : g.first = h => Claims(Seen(s)[Dir], L, Put(F, n, g), n, h)
           /\ n \in L /\ Seen(s)[Dir][n].used => Seen(s)[Dir][n].first \in {0, g.first}
<1>1. Put(F, n, g)[n] = g /\ g.open
  BY PutFile DEF IsFile
<1>2. Base(s) /\ Sound(Tab(Seen(s)), Seen(s)[Dir], L, Put(F, n, g))
  BY DEF Fine, Safe
<1>3. FileOK(Tab(Seen(s)), g)
  BY <1>1, <1>2 DEF Sound
<1>4. \A h \in Clusters : g.first = h => Claims(Seen(s)[Dir], L, Put(F, n, g), n, h)
  BY <1>1 DEF Claims
<1>5. n \in L /\ Seen(s)[Dir][n].used => Seen(s)[Dir][n].first \in {0, g.first}
  BY <1>1, <1>2 DEF Sound
<1> QED  BY <1>2, <1>3, <1>4, <1>5

\* Another object of the same file, with the same chain.
LEMMA Refile ==
    ASSUME NEW s, NEW L \in SUBSET Names, NEW F, IsFiles(F), NEW n \in Names, NEW g, IsFile(g, n),
           Fine(s, L, Put(F, n, g)), NEW f, IsFile(f, n), f.first = g.first,
           FileOK(Tab(Seen(s)), f)
    PROVE  Fine(s, L, Put(F, n, f))
<1>1. IsFiles(Put(F, n, g)) /\ Put(Put(F, n, g), n, f) = Put(F, n, f)
  BY PutFile
<1>2. Sound(Tab(Seen(s)), Seen(s)[Dir], L, Put(F, n, g))
  BY DEF Fine, Safe
<1>3. f.open
  BY DEF IsFile
<1>4. /\ f.first \in Clusters => Claims(Seen(s)[Dir], L, Put(F, n, g), n, f.first)
      /\ n \in L /\ Seen(s)[Dir][n].used => Seen(s)[Dir][n].first \in {0, f.first}
  BY FileHeld
<1>5. Sound(Tab(Seen(s)), Seen(s)[Dir], L, Put(F, n, f))
  BY <1>1, <1>2, <1>3, <1>4, SoundFile
<1> QED  BY <1>5, FineWith

\* The state of a call on file n: the file is as it should be, or all that
\* is known is that its clusters are its own.
Torn(s, L, F, n) == Fine(s, L, Put(F, n, Bare(s.f))) /\ IsFile(s.f, n)

\* A file that was changed in the middle of a call.
LEMMA FileTorn ==
    ASSUME NEW s, NEW L \in SUBSET Names, NEW F, IsFiles(F), NEW n \in Names, NEW g, IsFile(g, n),
           Fine(s, L, Put(F, n, g)), IsFile(s.f, n), s.f.first = g.first, s.f.ptr \in Nat,
           s.f.size = g.size, s.f.dirty = g.dirty, s.f.sect = g.sect
    PROVE  Torn(s, L, F, n)
<1>1. FileOK(Tab(Seen(s)), g)
  BY FileHeld
<1>2. PICK b : b = Bare(s.f)
  OBVIOUS
<1>3. /\ IsFile(b, n) /\ b.first = g.first /\ b.size = g.size /\ b.ptr \in Nat /\ b.err # "ok"
      /\ b.sect = g.sect /\ b.dirty = g.dirty
  BY <1>2, BareFacts
<1>4. FileOK(Tab(Seen(s)), b)
  BY <1>1, <1>3 DEF FileOK, At
<1>5. Fine(s, L, Put(F, n, b))
  BY <1>3, <1>4, Refile
<1> QED  BY <1>2, <1>5 DEF Torn

\* A file as it should be is one to which nothing more is known.
LEMMA BusyTorn ==
    ASSUME NEW s, NEW L \in SUBSET Names, NEW F, IsFiles(F), NEW n \in Names, Busy(s, L, F, n)
    PROVE  Torn(s, L, F, n) /\ FileOK(Tab(Seen(s)), s.f) /\ Base(s)
<1>1. FileOK(Tab(Seen(s)), s.f) /\ Base(s)
  BY FileHeld DEF Busy
<1> QED  BY <1>1, FileTorn DEF Busy, FileOK

\* What is known of a file in the middle of a call.
LEMMA TornFacts ==
    ASSUME NEW s, NEW L \in SUBSET Names, NEW F, IsFiles(F), NEW n \in Names, Torn(s, L, F, n)
    PROVE  /\ Base(s) /\ s.f.first \in {0} \union Clusters /\ s.f.size \in Nat /\ s.f.ptr \in Nat
           /\ s.f.dirty => s.f.sect \in Clusters
           /\ Room(Tab(Seen(s)), s.f.first, s.f.size)
<1>1. PICK b : b = Bare(s.f)
  OBVIOUS
<1>2. /\ IsFile(b, n) /\ b.first = s.f.first /\ b.size = s.f.size /\ b.ptr = s.f.ptr
      /\ b.sect = s.f.sect /\ b.dirty = s.f.dirty /\ Fine(s, L, Put(F, n, b))
  BY <1>1, BareFacts DEF Torn
<1>3. FileOK(Tab(Seen(s)), b) /\ Base(s)
  BY <1>2, FileHeld
<1> QED  BY <1>2, <1>3 DEF FileOK

\* The fields of a state with another file.
LEMMA HavingFacts ==
    ASSUME NEW s, Base(s), NEW f
    PROVE  /\ Having(s, f).f = f /\ Having(s, f).res = s.res /\ Having(s, f).out = s.out
           /\ Having(s, f).val = s.val /\ Having(s, f).disk = s.disk /\ Having(s, f).media = s.media
           /\ Seen(Having(s, f)) = Seen(s) /\ Having(s, f).wsect = s.wsect /\ Having(s, f).win = s.win
<1>1. IsState(s)
  BY DEF Base
<1>2. /\ Having(s, f).f = f /\ Having(s, f).res = s.res /\ Having(s, f).out = s.out
      /\ Having(s, f).val = s.val /\ Having(s, f).disk = s.disk /\ Having(s, f).media = s.media
      /\ Having(s, f).wsect = s.wsect /\ Having(s, f).win = s.win
  BY <1>1 DEF IsState, Having
<1> HIDE DEF Having
<1>3. Seen(Having(s, f)) = Seen(s)
  BY <1>2 DEF Seen
<1> QED  BY <1>2, <1>3

\* The file is changed within its room.
LEMMA Setting ==
    ASSUME NEW s, NEW L \in SUBSET Names, NEW F, IsFiles(F), NEW n \in Names, Torn(s, L, F, n),
           NEW f, IsFile(f, n), f.first = s.f.first, f.ptr \in Nat, f.size \in Nat,
           f.dirty => f.sect \in Clusters, Room(Tab(Seen(s)), f.first, f.size)
    PROVE  Torn(Having(s, f), L, F, n)
<1>0. PICK t : t = Having(s, f)
  OBVIOUS
<1>1. PICK b : b = Bare(f)
  OBVIOUS
<1>2. /\ IsFile(b, n) /\ b.first = f.first /\ b.size = f.size /\ b.ptr = f.ptr
      /\ b.sect = f.sect /\ b.dirty = f.dirty /\ b.err # "ok"
  BY <1>1, BareFacts
<1>3. PICK a : a = Bare(s.f)
  OBVIOUS
<1>4. IsFile(a, n) /\ a.first = s.f.first /\ Fine(s, L, Put(F, n, a))
  BY <1>3, BareFacts DEF Torn
<1>5. s.f.first \in {0} \union Clusters /\ Base(s)
  BY TornFacts
<1>6. FileOK(Tab(Seen(s)), b)
  BY <1>2, <1>5 DEF FileOK, At
<1>7. Fine(s, L, Put(F, n, b))
  BY <1>2, <1>4, <1>6, Refile
<1>8. Fine(t, L, Put(F, n, b)) /\ t.f = f
  BY <1>0, <1>7, SetFile DEF Having
<1> QED  BY <1>0, <1>1, <1>8 DEF Torn

\* The same, the size left alone.
LEMMA SettingSame ==
    ASSUME NEW s, NEW L \in SUBSET Names, NEW F, IsFiles(F), NEW n \in Names, Torn(s, L, F, n),
           NEW f, IsFile(f, n), f.first = s.f.first, f.ptr \in Nat, f.size = s.f.size,
           f.dirty => f.sect \in Clusters
    PROVE  Torn(Having(s, f), L, F, n)
<1>1. s.f.size \in Nat /\ Room(Tab(Seen(s)), s.f.first, s.f.size)
  BY TornFacts
<1> QED  BY <1>1, Setting

\* A file whose current cluster is right is as it should be.
LEMMA ToBusy ==
    ASSUME NEW s, NEW L \in SUBSET Names, NEW F, IsFiles(F), NEW n \in Names, Torn(s, L, F, n),
           At(Tab(Seen(s)), s.f)
    PROVE  Busy(s, L, F, n)
<1>1. PICK b : b = Bare(s.f)
  OBVIOUS
<1>2. IsFile(b, n) /\ b.first = s.f.first /\ Fine(s, L, Put(F, n, b)) /\ IsFile(s.f, n)
  BY <1>1, BareFacts DEF Torn
<1>3. FileOK(Tab(Seen(s)), s.f)
  BY TornFacts DEF FileOK
<1>4. Fine(s, L, Put(F, n, s.f))
  BY <1>2, <1>3, Refile
<1> QED  BY <1>2, <1>4 DEF Busy

\* An error that has been noted in the file leaves it busy.
LEMMA ErrBusy ==
    ASSUME NEW s, NEW L \in SUBSET Names, NEW F, IsFiles(F), NEW n \in Names, Torn(s, L, F, n)
    PROVE  s.f.err # "ok" => Busy(s, L, F, n)
  BY ToBusy DEF At

\* The contents of a cluster are written; table and directory stay.
LEMMA Storing ==
    ASSUME NEW s, NEW L \in SUBSET Names, NEW F, Fine(s, L, F), s.res = "ok",
           NEW c \in Clusters, NEW v, NEW t \in DiskWrite(s, c, v)
    PROVE  /\ Fine(t, L, F) /\ t.res \in {"ok", "disk_err"} /\ t.f = s.f /\ t.out = s.out /\ t.val = s.val
           /\ Tab(Seen(t)) = Tab(Seen(s)) /\ Seen(t)[Dir] = Seen(s)[Dir]
<1>1. Base(s)
  BY DEF Fine, Safe
<1>2. /\ Base(t) /\ Kept(s, t) /\ t.res \in {"ok", "disk_err"} /\ t.val = s.val
      /\ Tab(Seen(t)) = Tab(Seen(s)) /\ Seen(t)[Dir] = Seen(s)[Dir]
      /\ Tab(t.disk) = Tab(s.disk) /\ t.disk[Dir] = s.disk[Dir]
      /\ t.media \subseteq s.media \union {t.disk}
  BY <1>1, WritingData
<1>3. Sound(Tab(t.disk), t.disk[Dir], L, NoFiles)
  BY <1>1, <1>2 DEF Fine, Safe, Base
<1>4. Safe(t, L, F)
  BY <1>2, <1>3 DEF Fine, Safe
<1> QED  BY <1>2, <1>4 DEF Fine, FreeOK, Kept

\* What leaves the table and the place of the file as they are.
Still(s, t) ==
    /\ Tab(Seen(t)) = Tab(Seen(s)) /\ Seen(t)[Dir] = Seen(s)[Dir]
    /\ t.f.ptr = s.f.ptr /\ t.f.clust = s.f.clust /\ t.f.first = s.f.first /\ t.f.size = s.f.size
    /\ t.f.err = s.f.err /\ (s.f.write => t.f.write)

\* Two such changes one after the other.
LEMMA StillOn ==
    ASSUME NEW s, NEW t, NEW u, Still(s, t), Still(t, u)
    PROVE  Still(s, u)
  BY DEF Still

\* The fields of a file whose buffer is clean.
LEMMA FlushedFacts ==
    ASSUME NEW n, NEW f, IsFile(f, n), NEW g, g = [f EXCEPT !.dirty = FALSE]
    PROVE  /\ IsFile(g, n) /\ g.first = f.first /\ g.size = f.size /\ g.ptr = f.ptr /\ g.err = f.err
           /\ g.clust = f.clust /\ g.sect = f.sect /\ ~g.dirty /\ (f.write => g.write)
<1>1. Shaped(f)
  BY DEF IsFile
<1>2. /\ Shaped(g) /\ g.open = f.open /\ g.name = f.name /\ g.dirty = FALSE /\ g.write = f.write
      /\ g.first = f.first /\ g.size = f.size /\ g.ptr = f.ptr /\ g.err = f.err
      /\ g.clust = f.clust /\ g.sect = f.sect
  BY <1>1 DEF Shaped
<1> QED  BY <1>2 DEF IsFile

\* FlushBuf writes the buffer to the cluster it shows.
LEMMA Flushing ==
    ASSUME NEW s, NEW L \in SUBSET Names, NEW F, IsFiles(F), NEW n \in Names, Torn(s, L, F, n),
           s.res = "ok", NEW t \in FlushBuf(s)
    PROVE  /\ Torn(t, L, F, n) /\ t.res \in {"ok", "disk_err"} /\ Still(s, t) /\ t.f.sect = s.f.sect
           /\ t.out = s.out /\ t.val = s.val
           /\ t.res = "ok" => ~t.f.dirty
<1>0. Fine(s, L, Put(F, n, Bare(s.f))) /\ IsFile(s.f, n) /\ Base(s)
  BY TornFacts DEF Torn
<1>1. CASE ~s.f.dirty
  <2>1. t = s
    BY <1>1 DEF FlushBuf
  <2> QED  BY <2>1, <1>1 DEF Still
<1>2. CASE s.f.dirty
  <2>1. PICK u \in DiskWrite(s, s.f.sect, s.f.buf) :
           /\ u.res # "ok" => t = u
           /\ u.res = "ok" => t = [u EXCEPT !.f.dirty = FALSE]
    BY <1>2 DEF FlushBuf, Then
  <2>2. s.f.sect \in Clusters
    BY <1>2, TornFacts
  <2>3. /\ Fine(u, L, Put(F, n, Bare(s.f))) /\ u.res \in {"ok", "disk_err"} /\ u.f = s.f
        /\ u.out = s.out /\ u.val = s.val
        /\ Tab(Seen(u)) = Tab(Seen(s)) /\ Seen(u)[Dir] = Seen(s)[Dir]
    BY <1>0, <2>2, Storing
  <2>4. Torn(u, L, F, n) /\ Still(s, u)
    BY <1>0, <2>3 DEF Torn, Still
  <2>5. CASE u.res # "ok"
    BY <2>1, <2>3, <2>4, <2>5
  <2>6. CASE u.res = "ok"
    <3>1. PICK g : g = [u.f EXCEPT !.dirty = FALSE]
      OBVIOUS
    <3>2. t = Having(u, g)
      BY <2>1, <2>6, <3>1 DEF Having
    <3>3. /\ IsFile(g, n) /\ g.first = u.f.first /\ g.size = u.f.size /\ g.ptr = u.f.ptr
          /\ g.err = u.f.err /\ g.clust = u.f.clust /\ g.sect = u.f.sect /\ ~g.dirty
          /\ (u.f.write => g.write)
      BY <1>0, <2>3, <3>1, FlushedFacts
    <3>4. u.f.ptr \in Nat /\ Base(u)
      BY <2>4, TornFacts
    <3>5. Torn(t, L, F, n)
      BY <2>4, <3>2, <3>3, <3>4, SettingSame
    <3>6. t.f = g /\ t.res = u.res /\ t.out = u.out /\ t.val = u.val /\ Seen(t) = Seen(u)
      BY <3>2, <3>4, HavingFacts
    <3>7. Still(u, t)
      BY <3>3, <3>6 DEF Still
    <3>8. Still(s, t)
      BY <2>4, <3>7, StillOn
    <3> QED  BY <2>3, <3>3, <3>5, <3>6, <3>8
  <2> QED  BY <2>5, <2>6
<1> QED  BY <1>1, <1>2

-----------------------------------------------------------------------------
\* Places in a file.

\* Quotient and remainder.
LEMMA DivMod ==
    ASSUME NEW a \in Nat, NEW b \in Nat \ {0}
    PROVE  a = (a \div b) * b + (a % b) /\ a \div b \in Nat /\ a % b \in 0..(b - 1)
  BY Z3

\* A product distributes over a sum.
LEMMA Distribute ==
    ASSUME NEW a \in Nat, NEW b \in Nat, NEW m \in Nat
    PROVE  (a + b) * m = a * m + b * m /\ a * m \in Nat /\ b * m \in Nat
  BY Z3

\* The cluster that position p is in is the m-th.
Within(p, m) == SectorSize * (m - 1) < p /\ p <= SectorSize * m

\* They are determined by the product they make.
LEMMA Division ==
    ASSUME NEW b \in Nat \ {0}, NEW q \in Nat, NEW r \in Nat, r < b, NEW a, a = q * b + r
    PROVE  a \in Nat /\ a \div b = q /\ a % b = r
<1>1. a \in Nat
  BY Distribute
<1> DEFINE d == a \div b
<1>2. d \in Nat /\ a = d * b + (a % b) /\ a % b \in 0..(b - 1)
  BY <1>1, DivMod
<1> HIDE DEF d
<1>3. CASE d = q
  BY <1>2, <1>3, Distribute DEF d
<1>4. CASE d > q
  <2>1. d * b = (q + 1) * b + (d - (q + 1)) * b /\ (d - (q + 1)) * b \in Nat
        /\ (q + 1) * b = q * b + 1 * b
    BY <1>2, <1>4, Distribute
  <2> QED  BY <1>2, <2>1, Distribute
<1>5. CASE d < q
  <2>1. q * b = (d + 1) * b + (q - (d + 1)) * b /\ (q - (d + 1)) * b \in Nat
        /\ (d + 1) * b = d * b + 1 * b
    BY <1>2, <1>5, Distribute
  <2> QED  BY <1>2, <2>1, Distribute
<1> QED  BY <1>2, <1>3, <1>4, <1>5

\* The cluster a position is in is found by division.
LEMMA WithinFacts ==
    ASSUME NEW p \in Nat, NEW m \in Nat \ {0}, Within(p, m)
    PROVE  /\ p > 0 /\ (p - 1) \div SectorSize = m - 1
           /\ p % SectorSize = 0 <=> p = SectorSize * m
           /\ SectorSize * (m - 1) \in Nat /\ SectorSize * m \in Nat
           /\ SectorSize * m = SectorSize * (m - 1) + SectorSize
<1> DEFINE b == SectorSize
           k == m - 1
<1>1. b \in Nat \ {0} /\ k \in Nat /\ m = k + 1
  BY VolumeAssumption
<1>2. b * k = k * b /\ b * m = k * b + b /\ k * b \in Nat
  <2>1. (k + 1) * b = k * b + 1 * b /\ k * b \in Nat
    BY <1>1, Distribute
  <2> QED  BY <1>1, <2>1
<1>3. k * b < p /\ p <= k * b + b
  BY <1>2 DEF Within
<1> HIDE DEF b, k
<1>4. (p - 1) \div b = k
  <2>1. PICK a, r : a = p - 1 /\ r = p - 1 - k * b
    OBVIOUS
  <2>2. a = k * b + r /\ r \in Nat /\ r < b
    BY <1>1, <1>2, <1>3, <2>1
  <2>3. a \div b = k
    BY <2>2, <1>1, Division
  <2> QED  BY <2>1, <2>3
<1>5. p > 0 /\ SectorSize * (m - 1) \in Nat /\ SectorSize * m \in Nat
      /\ SectorSize * m = SectorSize * (m - 1) + SectorSize
  BY <1>1, <1>2, <1>3 DEF b, k
<1>6. (p - 1) \div SectorSize = m - 1
  BY <1>4 DEF b, k
<1>7. p = SectorSize * m => p % SectorSize = 0
  <2>1. p = k * b + b => p % b = 0
    <3>1. p = k * b + b => p = m * b + 0 /\ 0 < b
      BY <1>1, <1>2
    <3> QED  BY <3>1, <1>1, Division
  <2> QED  BY <2>1, <1>2 DEF b
<1>8. p # SectorSize * m => p % SectorSize # 0
  <2>1. ASSUME p # k * b + b PROVE p % b # 0
    <3>1. PICK r : r = p - k * b
      OBVIOUS
    <3>2. p = k * b + r /\ r \in Nat /\ r < b /\ r # 0
      BY <1>1, <1>2, <1>3, <2>1, <3>1
    <3>3. p % b = r
      BY <3>2, <1>1, Division
    <3> QED  BY <3>2, <3>3
  <2> QED  BY <2>1, <1>2 DEF b
<1> QED  BY <1>5, <1>6, <1>7, <1>8

\* The current cluster of a file is the m-th of its chain.
Stands(T, f, m) ==
    m \in Nat \ {0} /\ \E q \in [1..m -> Clusters] : Walk(T, f.first, q, m) /\ q[m] = f.clust

\* The place of a file is that in some cluster of its chain.
LEMMA AtStands ==
    ASSUME NEW T, NEW f, At(T, f), f.err = "ok", f.ptr > 0
    PROVE  \E m \in Nat \ {0} : Stands(T, f, m) /\ Within(f.ptr, m) /\ (f.ptr = SectorSize * m \/ f.sect = f.clust)
<1>1. PICK m \in Nat \ {0} : \E q \in [1..m -> Clusters] :
            /\ Walk(T, f.first, q, m) /\ q[m] = f.clust
            /\ SectorSize * (m - 1) < f.ptr /\ f.ptr <= SectorSize * m
            /\ f.ptr = SectorSize * m \/ f.sect = f.clust
  BY DEF At
<1> QED  BY <1>1 DEF Stands, Within

\* And the other way round.
LEMMA StandsAt ==
    ASSUME NEW T, NEW f, NEW m, Stands(T, f, m), Within(f.ptr, m), f.ptr = SectorSize * m \/ f.sect = f.clust
    PROVE  At(T, f)
  BY DEF Stands, Within, At

\* The current cluster of a file is one of a chain with room up to it.
LEMMA StandsFacts ==
    ASSUME NEW T, NEW f, NEW m, Stands(T, f, m)
    PROVE  /\ m \in Nat \ {0} /\ f.clust \in Clusters /\ f.first \in Clusters
           /\ \A size \in Nat : size <= SectorSize * m => Room(T, f.first, size)
           /\ \A g : g.first = f.first /\ g.clust = f.clust => Stands(T, g, m)
<1>1. PICK q \in [1..m -> Clusters] : Walk(T, f.first, q, m) /\ q[m] = f.clust
  BY DEF Stands
<1>2. m \in Nat \ {0} /\ m \in 1..m /\ 1 \in 1..m
  BY DEF Stands
<1>3. f.clust \in Clusters /\ f.first \in Clusters
  BY <1>1, <1>2 DEF Walk
<1>4. \A size \in Nat : size <= SectorSize * m => Room(T, f.first, size)
  BY <1>1, <1>2 DEF Room
<1>5. \A g : g.first = f.first /\ g.clust = f.clust => Stands(T, g, m)
  BY <1>1, <1>2 DEF Stands
<1> QED  BY <1>2, <1>3, <1>4, <1>5

\* The first cluster is the first of the chain.
LEMMA StandsFirst ==
    ASSUME NEW T, NEW f, f.first \in Clusters, f.clust = f.first
    PROVE  Stands(T, f, 1)
<1> DEFINE q == [i \in 1..1 |-> f.first]
<1>1. q \in [1..1 -> Clusters] /\ Walk(T, f.first, q, 1) /\ q[1] = f.clust
  BY DEF Walk
<1> QED  BY <1>1 DEF Stands

\* The next cluster follows in the chain.
LEMMA StandsNext ==
    ASSUME NEW T, NEW f, NEW m, Stands(T, f, m), NEW c \in Clusters, T[f.clust] = c,
           NEW g, g.first = f.first, g.clust = c
    PROVE  Stands(T, g, m + 1)
<1>1. PICK q \in [1..m -> Clusters] : Walk(T, f.first, q, m) /\ q[m] = f.clust
  BY DEF Stands
<1>2. m \in Nat \ {0}
  BY DEF Stands
<1> DEFINE r == [i \in 1..(m + 1) |-> IF i = m + 1 THEN c ELSE q[i]]
<1>3. \A i \in 1..m : r[i] = q[i]
  BY <1>2
<1>4. r[m + 1] = c /\ r \in [1..(m + 1) -> Clusters]
  BY <1>2
<1> HIDE DEF r
<1>5. \A i \in 1..m : T[r[i]] = r[i + 1]
  <2> TAKE i \in 1..m
  <2>1. CASE i = m
    BY <2>1, <1>1, <1>2, <1>3, <1>4
  <2>2. CASE i # m
    <3>1. i \in 1..(m - 1) /\ i + 1 \in 1..m
      BY <2>2, <1>2
    <3> QED  BY <3>1, <1>1, <1>3 DEF Walk
  <2> QED  BY <2>1, <2>2
<1>6. r[1] = g.first
  BY <1>1, <1>2, <1>3 DEF Walk
<1>7. Walk(T, g.first, r, m + 1)
  BY <1>2, <1>4, <1>5, <1>6 DEF Walk
<1> QED  BY <1>2, <1>4, <1>7 DEF Stands

\* The current cluster stays where nothing of the table or file changes.
LEMMA StandsStill ==
    ASSUME NEW s, NEW t, Still(s, t), NEW m, Stands(Tab(Seen(s)), s.f, m)
    PROVE  Stands(Tab(Seen(t)), t.f, m)
  BY StandsFacts DEF Still

\* The fields of a file with another buffer.
LEMMA BufFacts ==
    ASSUME NEW n, NEW f, IsFile(f, n), NEW v, NEW g, g = [f EXCEPT !.buf = v]
    PROVE  /\ IsFile(g, n) /\ g.first = f.first /\ g.size = f.size /\ g.ptr = f.ptr /\ g.err = f.err
           /\ g.clust = f.clust /\ g.sect = f.sect /\ g.dirty = f.dirty /\ (f.write => g.write)
<1>1. Shaped(f)
  BY DEF IsFile
<1>2. /\ Shaped(g) /\ g.open = f.open /\ g.name = f.name /\ g.dirty = f.dirty /\ g.write = f.write
      /\ g.first = f.first /\ g.size = f.size /\ g.ptr = f.ptr /\ g.err = f.err
      /\ g.clust = f.clust /\ g.sect = f.sect
  BY <1>1 DEF Shaped
<1> QED  BY <1>2 DEF IsFile

\* The fields of a file whose buffer shows another cluster.
LEMMA SectFacts ==
    ASSUME NEW n, NEW f, IsFile(f, n), NEW c, NEW h, h = [f EXCEPT !.sect = c]
    PROVE  /\ IsFile(h, n) /\ h.first = f.first /\ h.size = f.size /\ h.ptr = f.ptr /\ h.err = f.err
           /\ h.clust = f.clust /\ h.sect = c /\ h.dirty = f.dirty /\ (f.write => h.write)
<1>1. Shaped(f)
  BY DEF IsFile
<1>2. /\ Shaped(h) /\ h.open = f.open /\ h.name = f.name /\ h.dirty = f.dirty /\ h.write = f.write
      /\ h.first = f.first /\ h.size = f.size /\ h.ptr = f.ptr /\ h.err = f.err
      /\ h.clust = f.clust /\ h.sect = c
  BY <1>1 DEF Shaped
<1> QED  BY <1>2 DEF IsFile

\* LoadBuf reads a cluster into the buffer.
LEMMA Loading ==
    ASSUME NEW s, NEW L \in SUBSET Names, NEW F, IsFiles(F), NEW n \in Names, Torn(s, L, F, n),
           s.res = "ok", NEW c, NEW t \in LoadBuf(s, c)
    PROVE  /\ Torn(t, L, F, n) /\ t.res \in {"ok", "disk_err"} /\ Still(s, t) /\ t.f.sect = s.f.sect
           /\ t.out = s.out /\ t.val = s.val /\ t.f.dirty = s.f.dirty
<1>0. Fine(s, L, Put(F, n, Bare(s.f))) /\ IsFile(s.f, n) /\ Base(s)
  BY TornFacts DEF Torn
<1>1. CASE t \in Fail(s)
  <2>1. Looked(s, t) /\ t.res = "disk_err" /\ t.val = s.val
    BY <1>0, <1>1, Failing
  <2>2. Did(s, t, L, Put(F, n, Bare(s.f)))
    BY <2>1, <1>0, DidLooked
  <2> QED  BY <2>1, <2>2, <1>0 DEF Did, Torn, Still, Looked
<1>2. CASE t = [s EXCEPT !.f.buf = s.disk[c]]
  <2>1. PICK g : g = [s.f EXCEPT !.buf = s.disk[c]]
    OBVIOUS
  <2>2. t = Having(s, g)
    BY <1>2, <2>1 DEF Having
  <2>3. /\ IsFile(g, n) /\ g.first = s.f.first /\ g.size = s.f.size /\ g.ptr = s.f.ptr /\ g.err = s.f.err
        /\ g.clust = s.f.clust /\ g.sect = s.f.sect /\ g.dirty = s.f.dirty
        /\ (s.f.write => g.write)
    BY <1>0, <2>1, BufFacts
  <2>4. s.f.ptr \in Nat /\ (g.dirty => g.sect \in Clusters)
    BY <2>3, TornFacts
  <2>5. Torn(t, L, F, n)
    BY <2>2, <2>3, <2>4, SettingSame
  <2>6. t.f = g /\ t.res = s.res /\ t.out = s.out /\ t.val = s.val /\ Seen(t) = Seen(s)
    BY <1>0, <2>2, HavingFacts
  <2> QED  BY <2>3, <2>5, <2>6 DEF Still
<1> QED  BY <1>1, <1>2 DEF LoadBuf

\* ShowCluster has the buffer show the current cluster.
LEMMA Showing ==
    ASSUME NEW s, NEW L \in SUBSET Names, NEW F, IsFiles(F), NEW n \in Names, Torn(s, L, F, n),
           s.res = "ok", s.f.clust \in Clusters, NEW t \in ShowCluster(s)
    PROVE  /\ Torn(t, L, F, n) /\ t.res \in {"ok", "disk_err"} /\ Still(s, t)
           /\ t.out = s.out /\ t.val = s.val
           /\ t.res = "ok" => t.f.sect = t.f.clust
<1>1. CASE s.f.sect = s.f.clust
  <2>1. t = s
    BY <1>1 DEF ShowCluster
  <2> QED  BY <2>1, <1>1 DEF Still
<1>2. CASE s.f.sect # s.f.clust
  <2>1. PICK u \in FlushBuf(s) :
           /\ u.res # "ok" => t = u
           /\ u.res = "ok" => \E v \in LoadBuf(u, u.f.clust) :
                 /\ v.res # "ok" => t = v
                 /\ v.res = "ok" => t = [v EXCEPT !.f.sect = v.f.clust]
    BY <1>2 DEF ShowCluster, Then
  <2>2. /\ Torn(u, L, F, n) /\ u.res \in {"ok", "disk_err"} /\ Still(s, u)
        /\ u.out = s.out /\ u.val = s.val
    BY Flushing
  <2>3. CASE u.res # "ok"
    BY <2>1, <2>2, <2>3
  <2>4. CASE u.res = "ok"
    <3>1. PICK v \in LoadBuf(u, u.f.clust) :
                 /\ v.res # "ok" => t = v
                 /\ v.res = "ok" => t = [v EXCEPT !.f.sect = v.f.clust]
      BY <2>1, <2>4
    <3>2. /\ Torn(v, L, F, n) /\ v.res \in {"ok", "disk_err"} /\ Still(u, v)
          /\ v.out = s.out /\ v.val = s.val
      BY <2>2, <2>4, Loading
    <3>3. Still(s, v)
      BY <2>2, <3>2, StillOn
    <3>4. CASE v.res # "ok"
      BY <3>1, <3>2, <3>3, <3>4
    <3>5. CASE v.res = "ok"
      <4>1. PICK g : g = [v.f EXCEPT !.sect = v.f.clust]
        OBVIOUS
      <4>2. t = Having(v, g)
        BY <3>1, <3>5, <4>1 DEF Having
      <4>3. IsFile(v.f, n)
        BY <3>2 DEF Torn
      <4>4. /\ IsFile(g, n) /\ g.first = v.f.first /\ g.size = v.f.size /\ g.ptr = v.f.ptr /\ g.err = v.f.err
            /\ g.clust = v.f.clust /\ g.sect = v.f.clust /\ (v.f.write => g.write)
        BY <4>1, <4>3, SectFacts
      <4>5. v.f.ptr \in Nat /\ g.sect \in Clusters /\ Base(v)
        BY <4>4, <3>2, <3>3, TornFacts DEF Still
      <4>6. Torn(t, L, F, n)
        BY <3>2, <4>2, <4>4, <4>5, SettingSame
      <4>7. t.f = g /\ t.res = v.res /\ t.out = v.out /\ t.val = v.val /\ Seen(t) = Seen(v)
        BY <4>2, <4>5, HavingFacts
      <4>8. Still(v, t)
        BY <4>4, <4>7 DEF Still
      <4>9. Still(s, t)
        BY <3>3, <4>8, StillOn
      <4> QED  BY <3>2, <4>4, <4>6, <4>7, <4>9
    <3> QED  BY <3>4, <3>5
  <2> QED  BY <2>3, <2>4
<1> QED  BY <1>1, <1>2

\* The cluster of the next position of a file that is at the end of one.
Leads(s, L, F, n, v) ==
    \/ s.f.ptr > 0 /\ s.f.ptr % SectorSize = 0 /\ Tab(Seen(s))[s.f.clust] = v
    \/ s.f.ptr = 0 /\ s.f.first = v
    \/ /\ s.f.ptr = 0 /\ s.f.first = 0
       /\ Starts(Tab(Seen(s)), v) /\ Loose(Tab(Seen(s)), Seen(s)[Dir], L, Put(F, n, s.f), v)

\* The file once it is the current one.
IsMoved(f, g, v) ==
    /\ g.first = (IF f.first = 0 THEN v ELSE f.first) /\ g.clust = v
    /\ g.size = f.size /\ g.ptr = f.ptr /\ g.sect = f.sect /\ g.dirty = f.dirty /\ g.err = f.err

\* The current cluster is the one after the position.
Ahead(T, f) == \E m \in Nat \ {0} : Stands(T, f, m) /\ f.ptr = SectorSize * (m - 1)

\* The file moves to the cluster of its next position.
LEMMA Stepping ==
    ASSUME NEW s, NEW L \in SUBSET Names, NEW F, IsFiles(F), NEW n \in Names, Busy(s, L, F, n),
           s.f.err = "ok", NEW v \in Clusters, Leads(s, L, F, n, v),
           NEW g, IsFile(g, n), IsMoved(s.f, g, v), NEW t, t = Having(s, g)
    PROVE  /\ Torn(t, L, F, n) /\ Ahead(Tab(Seen(t)), t.f) /\ t.f = g
           /\ t.res = s.res /\ t.out = s.out /\ t.val = s.val /\ Seen(t) = Seen(s)
<1> DEFINE T == Tab(Seen(s))
           E == Seen(s)[Dir]
<1>1. Torn(s, L, F, n) /\ FileOK(T, s.f) /\ Base(s) /\ IsFile(s.f, n) /\ Fine(s, L, Put(F, n, s.f))
  BY BusyTorn DEF Busy
<1>2. /\ t.f = g /\ t.res = s.res /\ t.out = s.out /\ t.val = s.val /\ Seen(t) = Seen(s)
  BY <1>1, HavingFacts
<1>3. v # 0 /\ v \in Nat
  BY ClustersFacts
<1>4. g.clust = v /\ g.size = s.f.size /\ g.ptr = s.f.ptr /\ g.sect = s.f.sect /\ g.dirty = s.f.dirty
      /\ (s.f.first = 0 => g.first = v) /\ (s.f.first # 0 => g.first = s.f.first)
  BY DEF IsMoved
<1>5. CASE s.f.ptr > 0
  <2>1. T[s.f.clust] = v /\ s.f.ptr % SectorSize = 0
    BY <1>5 DEF Leads
  <2>2. PICK m \in Nat \ {0} : Stands(T, s.f, m) /\ Within(s.f.ptr, m)
    BY <1>1, <1>5, AtStands DEF FileOK
  <2>3. s.f.ptr = SectorSize * m
    BY <1>1, <2>1, <2>2, WithinFacts DEF FileOK
  <2>4. s.f.first # 0
    BY <2>2, StandsFacts, ClustersFacts
  <2>5. Stands(T, g, m + 1) /\ m + 1 \in Nat \ {0} /\ (m + 1) - 1 = m
    BY <2>1, <2>2, <2>4, <1>4, StandsNext
  <2>6. Ahead(T, g)
    BY <2>3, <2>5, <1>4 DEF Ahead
  <2>7. Torn(t, L, F, n)
    BY <1>1, <1>4, <2>4, SettingSame DEF FileOK
  <2> QED  BY <1>2, <2>6, <2>7
<1>6. CASE ~(s.f.ptr > 0)
  <2>0. s.f.ptr = 0 /\ s.f.first \in {0, v}
    BY <1>1, <1>6 DEF FileOK, Leads
  <2>1. g.first = v
    BY <2>0, <1>4
  <2>2. Stands(T, g, 1)
    BY <2>1, <1>4, StandsFirst
  <2>3. Ahead(T, g)
    <3>1. g.ptr = SectorSize * (1 - 1)
      BY <2>0, <1>4, VolumeAssumption
    <3> QED  BY <2>2, <3>1 DEF Ahead
  <2>4. CASE s.f.first = v
    <3>1. Torn(t, L, F, n)
      BY <2>1, <2>4, <1>1, <1>4, SettingSame DEF FileOK
    <3> QED  BY <1>2, <2>3, <3>1
  <2>5. CASE s.f.first = 0
    <3> DEFINE G == Put(F, n, s.f)
    <3>1. Starts(T, v) /\ Loose(T, E, L, G, v)
      BY <2>5, <2>0, <1>3 DEF Leads
    <3>2. PICK b : b = Bare(g)
      OBVIOUS
    <3>3. /\ IsFile(b, n) /\ b.first = v /\ b.size = s.f.size /\ b.ptr = s.f.ptr /\ b.err # "ok"
          /\ b.sect = s.f.sect /\ b.dirty = s.f.dirty /\ b.open
      BY <3>2, <2>1, <1>4, BareFacts DEF IsFile
    <3>4. Room(T, v, s.f.size)
      <4>1. PICK m \in Nat : \E q \in [1..m -> Clusters] : Walk(T, s.f.first, q, m) /\ s.f.size <= SectorSize * m
        BY <1>1 DEF FileOK, Room
      <4>2. PICK q \in [1..m -> Clusters] : Walk(T, s.f.first, q, m) /\ s.f.size <= SectorSize * m
        BY <4>1
      <4>3. m = 0
        <5>1. m > 0 => q[1] = 0 /\ 1 \in 1..m
          BY <4>2, <2>5 DEF Walk
        <5> QED  BY <5>1, ClustersFacts
      <4>4. s.f.size = 0
        BY <4>2, <4>3, <1>1, VolumeAssumption DEF FileOK
      <4> QED  BY <4>4, NoRoom
    <3>5. FileOK(T, b)
      BY <1>1, <3>3, <3>4 DEF FileOK, At
    <3>6. /\ IsFiles(G) /\ G[n] = s.f /\ Put(G, n, b) = Put(F, n, b)
      BY PutFile
    <3>7. Sound(T, E, L, G)
      BY <1>1 DEF Fine, Safe
    <3>8. n \in L /\ E[n].used => E[n].first = 0
      <4>1. n \in L /\ E[n].used => E[n].first \in {0, s.f.first}
        BY <1>1, FileHeld
      <4> QED  BY <4>1, <2>5
    <3>9. \A h \in Clusters : ~Claims(E, L, G, n, h)
      BY <3>6, <3>8, <2>5, ClustersFacts DEF Claims
    <3> HIDE DEF G, T, E
    <3>10. Sound(T, E, L, Put(G, n, b))
      BY <3>1, <3>3, <3>5, <3>6, <3>7, <3>8, <3>9, SoundFile
    <3>11. Fine(s, L, Put(F, n, b))
      BY <3>10, <3>6, <1>1, FineWith DEF T, E
    <3>12. Fine(t, L, Put(F, n, b))
      BY <3>11, SetFile DEF Having
    <3>13. Torn(t, L, F, n)
      BY <3>12, <3>2, <1>2 DEF Torn
    <3> QED  BY <1>2, <2>3, <3>13 DEF T
  <2> QED  BY <2>0, <2>4, <2>5
<1> QED  BY <1>5, <1>6

-----------------------------------------------------------------------------
\* f_write.

\* The file after n more bytes.
Onward(f, b, d, k) ==
    [f EXCEPT !.buf = b, !.dirty = d, !.ptr = @ + k, !.size = Max2(@, f.ptr + k)]

\* The fields of a file after some more bytes.
LEMMA OnwardFacts ==
    ASSUME NEW n, NEW f, IsFile(f, n), NEW b, NEW d \in BOOLEAN, NEW k \in Nat,
           f.ptr \in Nat, f.size \in Nat, NEW g, g = Onward(f, b, d, k)
    PROVE  /\ f.write => IsFile(g, n) /\ g.write
           /\ g.first = f.first /\ g.ptr = f.ptr + k /\ g.err = f.err
           /\ g.clust = f.clust /\ g.sect = f.sect /\ g.dirty = d
           /\ g.ptr \in Nat /\ g.size \in Nat /\ g.ptr <= g.size /\ g.size \in {f.size, g.ptr}
<1>1. Shaped(f) /\ f.open /\ f.name = n
  BY DEF IsFile
<1>2. /\ Shaped(g) /\ g.open = f.open /\ g.name = f.name /\ g.dirty = d /\ g.write = f.write
      /\ g.first = f.first /\ g.size = Max2(f.size, f.ptr + k) /\ g.ptr = f.ptr + k /\ g.err = f.err
      /\ g.clust = f.clust /\ g.sect = f.sect
  BY <1>1 DEF Shaped, Onward
<1>3. f.write => IsFile(g, n) /\ g.write
  BY <1>1, <1>2 DEF IsFile
<1>4. g.ptr \in Nat /\ g.size \in Nat /\ g.ptr <= g.size /\ g.size \in {f.size, g.ptr}
  BY <1>2 DEF Max2
<1> QED  BY <1>2, <1>3, <1>4

\* A state the file is moved on in.
Ready(s, d) == s.f.write /\ (d => s.f.sect \in Clusters)

\* The file moved on by k bytes.
Onto(s, t, L, F, n, k) ==
    /\ Busy(t, L, F, n) /\ t.f.ptr <= t.f.size /\ t.f.err = s.f.err /\ t.f.write
    /\ t.f.ptr = s.f.ptr + k /\ t.res = s.res /\ t.out = s.out

\* The file moves on within its current cluster.
LEMMA GoingOn ==
    ASSUME NEW s, NEW L \in SUBSET Names, NEW F, IsFiles(F), NEW n \in Names, Torn(s, L, F, n),
           NEW m, Stands(Tab(Seen(s)), s.f, m), NEW b, NEW d \in BOOLEAN, NEW k \in Nat,
           Within(s.f.ptr + k, m), s.f.ptr + k = SectorSize * m \/ s.f.sect = s.f.clust,
           NEW t, t = Having(s, Onward(s.f, b, d, k))
    PROVE  Ready(s, d) => Onto(s, t, L, F, n, k)
<1>0. SUFFICES ASSUME s.f.write, d => s.f.sect \in Clusters
      PROVE  /\ Busy(t, L, F, n) /\ t.f.ptr <= t.f.size /\ t.f.err = s.f.err /\ t.f.write
             /\ t.f.ptr = s.f.ptr + k /\ t.res = s.res /\ t.out = s.out
  BY DEF Ready, Onto
<1> DEFINE T == Tab(Seen(s))
<1>1. Base(s) /\ s.f.size \in Nat /\ s.f.ptr \in Nat /\ Room(T, s.f.first, s.f.size) /\ IsFile(s.f, n)
  BY TornFacts DEF Torn
<1>2. PICK g : g = Onward(s.f, b, d, k)
  OBVIOUS
<1>3. /\ s.f.write => IsFile(g, n) /\ g.write
      /\ g.first = s.f.first /\ g.ptr = s.f.ptr + k /\ g.err = s.f.err
      /\ g.clust = s.f.clust /\ g.sect = s.f.sect /\ g.dirty = d
      /\ g.ptr \in Nat /\ g.size \in Nat /\ g.ptr <= g.size /\ g.size \in {s.f.size, g.ptr}
  BY <1>1, <1>2, OnwardFacts
<1>4. t = Having(s, g)
  BY <1>2
<1>5. t.f = g /\ t.res = s.res /\ t.out = s.out /\ Seen(t) = Seen(s)
  BY <1>1, <1>4, HavingFacts
<1>6. Room(T, g.first, g.size)
  <2>1. g.ptr <= SectorSize * m
    BY <1>3 DEF Within
  <2>2. Room(T, s.f.first, g.ptr)
    BY <2>1, <1>3, StandsFacts
  <2> QED  BY <2>2, <1>1, <1>3
<1>7. IsFile(g, n) /\ g.write
  BY <1>0, <1>3
<1>8. g.dirty => g.sect \in Clusters
  BY <1>0, <1>3
<1>9. Torn(t, L, F, n)
  BY <1>3, <1>4, <1>6, <1>7, <1>8, Setting
<1>10. Stands(T, g, m) /\ Within(g.ptr, m) /\ (g.ptr = SectorSize * m \/ g.sect = g.clust)
  BY <1>3, StandsFacts
<1>11. At(T, g)
  BY <1>10, StandsAt
<1>12. Busy(t, L, F, n)
  BY <1>9, <1>11, <1>5, ToBusy
<1> QED  BY <1>12, <1>3, <1>5, <1>7

\* The bytes of a position's sector that are left.
LEMMA RestOfSector ==
    ASSUME NEW p \in Nat, NEW m \in Nat \ {0}, SectorSize * (m - 1) <= p, p < SectorSize * m,
           NEW len \in Nat \ {0}, NEW k, k = Min2(SectorSize - (p % SectorSize), len)
    PROVE  k \in Nat \ {0} /\ k <= len /\ Within(p + k, m)
<1> DEFINE b == SectorSize
           j == m - 1
<1>1. b \in Nat \ {0} /\ j \in Nat /\ m = j + 1
  BY VolumeAssumption
<1>2. b * j = j * b /\ b * m = j * b + b /\ j * b \in Nat
  <2>1. (j + 1) * b = j * b + 1 * b /\ j * b \in Nat
    BY <1>1, Distribute
  <2> QED  BY <1>1, <2>1
<1>3. PICK r : r = p - j * b
  OBVIOUS
<1>4. p = j * b + r /\ r \in Nat /\ r < b
  BY <1>1, <1>2, <1>3
<1> HIDE DEF b, j
<1>5. p % b = r
  BY <1>1, <1>4, Division, ZenonT(60)
<1>6. k = Min2(b - r, len)
  BY <1>5 DEF b
<1>7. k \in Nat \ {0} /\ k <= len /\ k <= b - r
  BY <1>1, <1>4, <1>6 DEF Min2
<1>8. j * b < p + k /\ p + k <= j * b + b
  BY <1>1, <1>2, <1>4, <1>7
<1> QED  BY <1>2, <1>7, <1>8 DEF Within, b, j

\* At most len bytes were put into the buffer and the file moved on.
Parted(s, t, L, F, n, len) ==
    /\ Busy(t, L, F, n) /\ t.f.ptr <= t.f.size /\ t.f.err = s.f.err /\ t.f.write
    /\ t.f.ptr - s.f.ptr \in 0..len /\ t.res = s.res /\ t.out = s.out

\* Bytes go into the buffer up to the end of the sector.
LEMMA WritingPart ==
    ASSUME NEW s, NEW L \in SUBSET Names, NEW F, IsFiles(F), NEW n \in Names, Torn(s, L, F, n),
           NEW m, Stands(Tab(Seen(s)), s.f, m), SectorSize * (m - 1) <= s.f.ptr,
           s.f.ptr < SectorSize * m, s.f.sect = s.f.clust,
           NEW S, NEW bytes \in Seq(S), bytes # <<>>, NEW t, t = WritePart(s, bytes)
    PROVE  s.f.write => Parted(s, t, L, F, n, Len(bytes))
<1> DEFINE at == s.f.ptr % SectorSize
           k == Min2(SectorSize - at, Len(bytes))
           b == [i \in 1..SectorSize |-> IF i - at \in 1..k THEN bytes[i - at] ELSE s.f.buf[i]]
<1>1. Base(s) /\ s.f.ptr \in Nat /\ m \in Nat \ {0} /\ s.f.clust \in Clusters
  BY TornFacts, StandsFacts
<1>2. Len(bytes) \in Nat \ {0}
  BY EmptySeq
<1>3. k \in Nat \ {0} /\ k <= Len(bytes) /\ Within(s.f.ptr + k, m)
  BY <1>1, <1>2, RestOfSector
<1>4. t = Having(s, Onward(s.f, b, TRUE, k))
  <2>1. t = Advance([s EXCEPT !.f.buf = b, !.f.dirty = TRUE], k)
    BY DEF WritePart
  <2>2. IsState(s) /\ Shaped(s.f)
    BY <1>1 DEF Base, Torn, IsFile
  <2> HIDE DEF b, k
  <2> QED  BY <2>1, <2>2 DEF Advance, Having, Onward, IsState, Shaped
<1> HIDE DEF b, k
<1>5. s.f.sect \in Clusters /\ k \in Nat
  BY <1>1, <1>3
<1>6. s.f.write =>
               /\ Busy(t, L, F, n) /\ t.f.ptr <= t.f.size /\ t.f.err = s.f.err /\ t.f.write
               /\ t.f.ptr = s.f.ptr + k /\ t.res = s.res /\ t.out = s.out
  <2>0. PICK d : d = TRUE
    OBVIOUS
  <2>1. d \in BOOLEAN /\ t = Having(s, Onward(s.f, b, d, k)) /\ Within(s.f.ptr + k, m)
        /\ (s.f.ptr + k = SectorSize * m \/ s.f.sect = s.f.clust)
    BY <1>3, <1>4, <2>0
  <2>2. Ready(s, d) => Onto(s, t, L, F, n, k)
    BY <2>1, <1>5, GoingOn
  <2>3. s.f.write => Ready(s, d)
    BY <1>5 DEF Ready
  <2> QED  BY <2>2, <2>3 DEF Onto
<1>7. t.f.ptr = s.f.ptr + k => t.f.ptr - s.f.ptr \in 0..Len(bytes)
  BY <1>1, <1>2, <1>3
<1> QED  BY <1>6, <1>7 DEF Parted

\* FillBuf has the buffer show the current cluster before it is written.
LEMMA Filling ==
    ASSUME NEW s, NEW L \in SUBSET Names, NEW F, IsFiles(F), NEW n \in Names, Torn(s, L, F, n),
           s.res = "ok", s.f.clust \in Clusters, NEW t \in FillBuf(s)
    PROVE  /\ Torn(t, L, F, n) /\ t.res \in {"ok", "disk_err"} /\ Still(s, t)
           /\ t.out = s.out
           /\ t.res = "ok" => t.f.sect = t.f.clust
<1>1. PICK u : /\ u = s \/ u \in LoadBuf(s, s.f.clust)
               /\ u.res = "ok" => t = [u EXCEPT !.f.sect = s.f.clust]
               /\ u.res # "ok" => t = [u EXCEPT !.f.sect = u.f.sect]
  <2>1. PICK u \in IF s.f.sect # s.f.clust /\ s.f.ptr < s.f.size THEN LoadBuf(s, s.f.clust) ELSE {s} :
           t = [u EXCEPT !.f.sect = IF u.res = "ok" THEN s.f.clust ELSE @]
    BY DEF FillBuf
  <2> QED  BY <2>1
<1>2. /\ Torn(u, L, F, n) /\ u.res \in {"ok", "disk_err"} /\ Still(s, u) /\ u.out = s.out
      /\ u.f.sect = s.f.sect
  <2>1. CASE u = s
    BY <2>1 DEF Still
  <2>2. CASE u \in LoadBuf(s, s.f.clust)
    BY <2>2, Loading
  <2> QED  BY <2>1, <2>2, <1>1
<1>3. PICK c : /\ u.res = "ok" => c = s.f.clust
               /\ u.res # "ok" => c = u.f.sect
  <2>1. CASE u.res = "ok"
    BY <2>1
  <2>2. CASE u.res # "ok"
    BY <2>2
  <2> QED  BY <2>1, <2>2
<1>4. PICK g : g = [u.f EXCEPT !.sect = c]
  OBVIOUS
<1>5. t = Having(u, g)
  BY <1>1, <1>3, <1>4 DEF Having
<1>6. IsFile(u.f, n)
  BY <1>2 DEF Torn
<1>7. /\ IsFile(g, n) /\ g.first = u.f.first /\ g.size = u.f.size /\ g.ptr = u.f.ptr /\ g.err = u.f.err
      /\ g.clust = u.f.clust /\ g.sect = c /\ g.dirty = u.f.dirty /\ (u.f.write => g.write)
  BY <1>4, <1>6, SectFacts
<1>8. u.f.ptr \in Nat /\ Base(u) /\ (u.f.dirty => u.f.sect \in Clusters)
  BY <1>2, TornFacts
<1>9. g.dirty => g.sect \in Clusters
  BY <1>3, <1>7, <1>8
<1>10. Torn(t, L, F, n)
  BY <1>2, <1>5, <1>7, <1>8, <1>9, SettingSame
<1>11. t.f = g /\ t.res = u.res /\ t.out = u.out /\ Seen(t) = Seen(u)
  BY <1>5, <1>8, HavingFacts
<1>12. Still(u, t)
  BY <1>7, <1>11 DEF Still
<1>13. Still(s, t)
  BY <1>2, <1>12, StillOn
<1>14. t.res = "ok" => t.f.sect = t.f.clust
  BY <1>3, <1>7, <1>11, <1>2 DEF Still
<1> QED  BY <1>2, <1>10, <1>11, <1>13, <1>14

\* The turns of a loop over a file.
Went(s, t, L, F, n) ==
    /\ Torn(t, L, F, n) /\ t.res \in Errs
    /\ t.res = "ok" => Busy(t, L, F, n) /\ t.f.ptr <= t.f.size /\ t.f.err = s.f.err

\* A write's, of not more than some bytes.
Written(s, t, L, F, n, len) ==
    /\ Went(s, t, L, F, n) /\ t.out = s.out
    /\ t.res = "ok" => t.f.write /\ t.f.ptr - s.f.ptr \in 0..len

\* A file moved on by a write.
LEMMA OntoWritten ==
    ASSUME NEW s, NEW L \in SUBSET Names, NEW F, IsFiles(F), NEW n \in Names, NEW t, NEW k \in Nat,
           Onto(s, t, L, F, n, k), s.res = "ok", s.f.ptr \in Nat, NEW len \in Nat, k <= len
    PROVE  Written(s, t, L, F, n, len)
<1>1. Torn(t, L, F, n)
  BY BusyTorn DEF Onto
<1>2. t.f.ptr - s.f.ptr \in 0..len
  BY DEF Onto
<1> QED  BY <1>1, <1>2 DEF Onto, Written, Went, Errs

\* A whole sector is written past the buffer.
LEMMA WritingSector ==
    ASSUME NEW s, NEW L \in SUBSET Names, NEW F, IsFiles(F), NEW n \in Names, Torn(s, L, F, n),
           s.res = "ok", Ahead(Tab(Seen(s)), s.f), NEW bytes, NEW len \in Nat, SectorSize <= len,
           NEW t \in WriteSector(s, bytes)
    PROVE  s.f.write => Written(s, t, L, F, n, len)
<1>0. SUFFICES ASSUME s.f.write PROVE Written(s, t, L, F, n, len)
  OBVIOUS
<1>1. PICK m \in Nat \ {0} : Stands(Tab(Seen(s)), s.f, m) /\ s.f.ptr = SectorSize * (m - 1)
  BY DEF Ahead
<1>2. /\ Fine(s, L, Put(F, n, Bare(s.f))) /\ IsFile(s.f, n) /\ s.f.clust \in Clusters
      /\ s.f.ptr \in Nat
  BY <1>1, StandsFacts, TornFacts DEF Torn
<1> DEFINE whole == SubSeq(bytes, 1, SectorSize)
<1>3. PICK u \in DiskWrite(s, s.f.clust, whole) :
         /\ u.res # "ok" => t = u
         /\ u.res = "ok" /\ u.f.sect = u.f.clust =>
                t = Advance([u EXCEPT !.f.buf = whole, !.f.dirty = FALSE], SectorSize)
         /\ u.res = "ok" /\ u.f.sect # u.f.clust => t = Advance(u, SectorSize)
  BY DEF WriteSector, Then
<1>4. /\ Fine(u, L, Put(F, n, Bare(s.f))) /\ u.res \in {"ok", "disk_err"} /\ u.f = s.f
      /\ u.out = s.out /\ Tab(Seen(u)) = Tab(Seen(s))
  BY <1>2, Storing
<1>5. Torn(u, L, F, n)
  BY <1>2, <1>4 DEF Torn
<1>6. Base(u) /\ (u.f.dirty => u.f.sect \in Clusters) /\ u.f.dirty \in BOOLEAN
  BY <1>5, TornFacts DEF Torn, IsFile
<1>7. IsState(u) /\ Shaped(u.f)
  BY <1>5, <1>6 DEF Base, Torn, IsFile
<1>8. CASE u.res # "ok"
  BY <1>3, <1>4, <1>5, <1>8 DEF Written, Went, Errs
<1>9. CASE u.res = "ok"
  <2> HIDE DEF whole
  <2>1. PICK b, d : /\ d \in BOOLEAN /\ (d => u.f.sect \in Clusters)
                    /\ t = Having(u, Onward(u.f, b, d, SectorSize))
    <3>1. CASE u.f.sect = u.f.clust
      <4>1. t = Advance([u EXCEPT !.f.buf = whole, !.f.dirty = FALSE], SectorSize)
        BY <1>3, <1>9, <3>1
      <4>2. t = Having(u, Onward(u.f, whole, FALSE, SectorSize))
        BY <4>1, <1>7 DEF Advance, Having, Onward, IsState, Shaped
      <4> QED  BY <4>2
    <3>2. CASE u.f.sect # u.f.clust
      <4>1. t = Advance(u, SectorSize)
        BY <1>3, <1>9, <3>2
      <4>2. t = Having(u, Onward(u.f, u.f.buf, u.f.dirty, SectorSize))
        BY <4>1, <1>7 DEF Advance, Having, Onward, IsState, Shaped
      <4> QED  BY <4>2, <1>6
    <3> QED  BY <3>1, <3>2
  <2>2. SectorSize \in Nat /\ SectorSize > 0
    BY VolumeAssumption
  <2>3. s.f.ptr + SectorSize = SectorSize * m /\ Within(s.f.ptr + SectorSize, m)
    <3>1. SectorSize * m = SectorSize * (m - 1) + SectorSize
      <4>1. PICK j : j = m - 1
        OBVIOUS
      <4>2. j \in Nat /\ m = j + 1
        BY <4>1
      <4>3. (j + 1) * SectorSize = j * SectorSize + 1 * SectorSize
        BY <4>2, <2>2, Distribute
      <4> QED  BY <4>1, <4>2, <4>3, <2>2
    <3> QED  BY <3>1, <1>1, <1>2, <2>2 DEF Within
  <2>4. Stands(Tab(Seen(u)), u.f, m)
    BY <1>1, <1>4
  <2>5. Within(u.f.ptr + SectorSize, m) /\ (u.f.ptr + SectorSize = SectorSize * m \/ u.f.sect = u.f.clust)
    BY <2>3, <1>4
  <2>6. Ready(u, d) => Onto(u, t, L, F, n, SectorSize)
    BY <2>1, <2>2, <2>4, <2>5, <1>5, GoingOn
  <2>7. Ready(u, d)
    BY <2>1, <1>0, <1>4 DEF Ready
  <2>8. Written(u, t, L, F, n, len)
    BY <2>6, <2>7, <2>2, <1>2, <1>4, <1>9, OntoWritten
  <2> QED  BY <2>8, <1>4 DEF Written, Went
<1> QED  BY <1>8, <1>9

\* WriteCluster finds the cluster of the next position, or makes it.
LEMMA WritingCluster ==
    ASSUME NEW s, NEW L \in SUBSET Names, NEW F, IsFiles(F), NEW n \in Names, Busy(s, L, F, n),
           s.res = "ok", s.f.err = "ok", s.f.ptr % SectorSize = 0, NEW t \in WriteCluster(s)
    PROVE  /\ Busy(t, L, F, n) /\ t.f = s.f /\ t.res \in Errs /\ t.out = s.out
           /\ t.res = "ok" /\ t.val # 0 => t.val \in Clusters /\ Leads(t, L, F, n, t.val)
<1>0. /\ Fine(s, L, Put(F, n, s.f)) /\ IsFile(s.f, n) /\ Base(s)
      /\ FileOK(Tab(Seen(s)), s.f)
  BY BusyTorn DEF Busy
<1>1. CASE s.f.ptr = 0 /\ s.f.first # 0
  <2>1. t = [s EXCEPT !.val = s.f.first]
    BY <1>1 DEF WriteCluster
  <2>2. Looked(s, t) /\ t.res = "ok" /\ t.val = s.f.first
    BY <2>1, <1>0, SetVal
  <2>3. Did(s, t, L, Put(F, n, s.f))
    BY <2>2, <1>0, DidLooked
  <2>4. Busy(t, L, F, n) /\ t.f = s.f /\ t.out = s.out
    BY <2>3, <1>0 DEF Did, Busy
  <2>5. t.val \in Clusters
    BY <2>2, <1>0, <1>1 DEF FileOK
  <2> QED  BY <2>2, <2>4, <2>5, <1>1 DEF Leads, Errs
<1>2. CASE ~(s.f.ptr = 0 /\ s.f.first # 0)
  <2>1. PICK c : /\ c = IF s.f.ptr = 0 THEN 0 ELSE s.f.clust
                 /\ t \in create_chain(s, c)
    BY <1>2 DEF WriteCluster
  <2>2. /\ Worked(s, t, L, Put(F, n, s.f))
        /\ t.res = "ok" /\ t.val # 0 => Followed(Tab(Seen(t)), Seen(s)[Dir], L, Put(F, n, s.f), c, t.val)
    BY <2>1, <1>0, Creating
  <2>3. Busy(t, L, F, n) /\ t.f = s.f /\ t.out = s.out /\ t.res \in Errs /\ Seen(t)[Dir] = Seen(s)[Dir]
    BY <2>2, <1>0 DEF Worked, Busy
  <2>4. ASSUME t.res = "ok" /\ t.val # 0 PROVE t.val \in Clusters /\ Leads(t, L, F, n, t.val)
    <3>1. Followed(Tab(Seen(t)), Seen(t)[Dir], L, Put(F, n, t.f), c, t.val)
      BY <2>2, <2>3, <2>4
    <3>2. CASE s.f.ptr = 0
      BY <3>1, <3>2, <2>1, <2>3, <1>2 DEF Followed, Leads
    <3>3. CASE s.f.ptr # 0
      <4>1. s.f.ptr > 0 /\ c = s.f.clust
        BY <3>3, <2>1, <1>0 DEF FileOK
      <4>2. s.f.clust # 0
        <5>1. \E m \in Nat \ {0} : Stands(Tab(Seen(s)), s.f, m)
          BY <4>1, <1>0, AtStands DEF FileOK
        <5> QED  BY <5>1, StandsFacts, ClustersFacts
      <4> QED  BY <3>1, <4>1, <4>2, <2>3 DEF Followed, Leads
    <3> QED  BY <3>2, <3>3
  <2> QED  BY <2>3, <2>4
<1> QED  BY <1>1, <1>2

\* A file that can be written still can.
Writable(f, g) == f.write => g.write

\* The fields of a file at its next cluster.
LEMMA MovedFacts ==
    ASSUME NEW n, NEW f, IsFile(f, n), NEW v, NEW h, h = (IF f.first = 0 THEN v ELSE f.first),
           NEW g, g = [f EXCEPT !.clust = v, !.first = h]
    PROVE  IsFile(g, n) /\ IsMoved(f, g, v) /\ Writable(f, g)
<1>1. Shaped(f)
  BY DEF IsFile
<1>2. /\ Shaped(g) /\ g.open = f.open /\ g.name = f.name /\ g.dirty = f.dirty /\ g.write = f.write
      /\ g.first = h /\ g.size = f.size /\ g.ptr = f.ptr /\ g.err = f.err
      /\ g.clust = v /\ g.sect = f.sect
  BY <1>1 DEF Shaped
<1>3. IsFile(g, n)
  BY <1>2 DEF IsFile
<1> QED  BY <1>2, <1>3 DEF IsMoved, Writable

\* SetCluster moves the file to it.
LEMMA SettingCluster ==
    ASSUME NEW s, NEW L \in SUBSET Names, NEW F, IsFiles(F), NEW n \in Names, Busy(s, L, F, n),
           s.f.err = "ok", s.val \in Clusters, Leads(s, L, F, n, s.val), NEW t, t = SetCluster(s)
    PROVE  /\ Torn(t, L, F, n) /\ Ahead(Tab(Seen(t)), t.f)
           /\ t.res = s.res /\ t.out = s.out /\ Seen(t) = Seen(s)
           /\ t.f.ptr = s.f.ptr /\ t.f.err = s.f.err /\ (s.f.write => t.f.write)
<1>1. PICK h : h = IF s.f.first = 0 THEN s.val ELSE s.f.first
  OBVIOUS
<1>2. PICK g : g = [s.f EXCEPT !.clust = s.val, !.first = h]
  OBVIOUS
<1>3. IsFile(s.f, n) /\ Base(s)
  BY BusyTorn DEF Busy
<1>4. IsFile(g, n) /\ IsMoved(s.f, g, s.val) /\ (s.f.write => g.write)
  <2>1. PICK f : f = s.f
    OBVIOUS
  <2>2. PICK v : v = s.val
    OBVIOUS
  <2>3. IsFile(f, n) /\ h = (IF f.first = 0 THEN v ELSE f.first) /\ g = [f EXCEPT !.clust = v, !.first = h]
    BY <2>1, <2>2, <1>1, <1>2, <1>3
  <2>4. IsFile(g, n) /\ IsMoved(f, g, v) /\ Writable(f, g)
    BY <2>3, MovedFacts
  <2> QED  BY <2>1, <2>2, <2>4 DEF Writable
<1>5. t = Having(s, g)
  <2>1. IsState(s) /\ Shaped(s.f)
    BY <1>3 DEF Base, IsFile
  <2>2. t = [s EXCEPT !.f.clust = s.val, !.f.first = h]
    BY <1>1, <2>1 DEF SetCluster, IsState, Shaped
  <2> QED  BY <1>2, <2>1, <2>2 DEF Having, IsState, Shaped
<1>6. /\ Torn(t, L, F, n) /\ Ahead(Tab(Seen(t)), t.f) /\ t.f = g
      /\ t.res = s.res /\ t.out = s.out /\ t.val = s.val /\ Seen(t) = Seen(s)
  <2>1. PICK v : v = s.val
    OBVIOUS
  <2>2. v \in Clusters /\ Leads(s, L, F, n, v) /\ IsFile(g, n) /\ IsMoved(s.f, g, v)
    BY <2>1, <1>4
  <2>3. PICK u : u = Having(s, g)
    OBVIOUS
  <2>4. /\ Torn(u, L, F, n) /\ Ahead(Tab(Seen(u)), u.f) /\ u.f = g
        /\ u.res = s.res /\ u.out = s.out /\ u.val = s.val /\ Seen(u) = Seen(s)
    BY <2>2, <2>3, Stepping
  <2> QED  BY <2>3, <2>4, <1>5
<1> QED  BY <1>4, <1>6 DEF IsMoved

\* The position before a cluster stays where nothing of the table or file changes.
LEMMA AheadStill ==
    ASSUME NEW s, NEW t, Still(s, t), Ahead(Tab(Seen(s)), s.f)
    PROVE  Ahead(Tab(Seen(t)), t.f)
<1>1. PICK m \in Nat \ {0} : Stands(Tab(Seen(s)), s.f, m) /\ s.f.ptr = SectorSize * (m - 1)
  BY DEF Ahead
<1>2. Stands(Tab(Seen(t)), t.f, m)
  BY <1>1, StandsStill
<1>3. t.f.ptr = s.f.ptr
  BY DEF Still
<1> QED  BY <1>1, <1>2, <1>3 DEF Ahead

\* The place within the sector of the position.
LEMMA AheadPlace ==
    ASSUME NEW T, NEW f, f.ptr \in Nat, Ahead(T, f)
    PROVE  \E m \in Nat \ {0} : /\ Stands(T, f, m) /\ SectorSize * (m - 1) <= f.ptr
                                /\ f.ptr < SectorSize * m
<1>1. PICK m \in Nat \ {0} : Stands(T, f, m) /\ f.ptr = SectorSize * (m - 1)
  BY DEF Ahead
<1>2. PICK j : j = m - 1
  OBVIOUS
<1>3. j \in Nat /\ m = j + 1 /\ SectorSize \in Nat \ {0}
  BY <1>2, VolumeAssumption
<1>4. (j + 1) * SectorSize = j * SectorSize + 1 * SectorSize
  BY <1>3, Distribute
<1>5. SectorSize * m = SectorSize * (m - 1) + SectorSize
  BY <1>2, <1>3, <1>4
<1> QED  BY <1>1, <1>3, <1>5

\* A turn's work of f_write.
LEMMA WritingSome ==
    ASSUME NEW s, NEW L \in SUBSET Names, NEW F, IsFiles(F), NEW n \in Names, Busy(s, L, F, n),
           s.res = "ok", s.f.err = "ok", s.f.ptr <= s.f.size, NEW S, NEW bytes \in Seq(S), bytes # <<>>,
           NEW t \in WriteSome(s, bytes)
    PROVE  s.f.write => Written(s, t, L, F, n, Len(bytes))
<1>0. SUFFICES ASSUME s.f.write PROVE Written(s, t, L, F, n, Len(bytes))
  OBVIOUS
<1>1. Torn(s, L, F, n) /\ FileOK(Tab(Seen(s)), s.f) /\ Base(s) /\ s.f.ptr \in Nat
  BY BusyTorn DEF FileOK
<1>2. Len(bytes) \in Nat
  BY EmptySeq
<1>3. CASE s.f.ptr % SectorSize # 0
  <2>1. t = WritePart(s, bytes)
    BY <1>3 DEF WriteSome
  <2>2. s.f.ptr > 0
    <3>1. 0 = 0 * SectorSize + 0 /\ 0 < SectorSize /\ SectorSize \in Nat \ {0}
      BY VolumeAssumption
    <3>2. 0 % SectorSize = 0
      BY <3>1, Division
    <3> QED  BY <3>2, <1>1, <1>3
  <2>3. PICK m \in Nat \ {0} : /\ Stands(Tab(Seen(s)), s.f, m) /\ Within(s.f.ptr, m)
                               /\ (s.f.ptr = SectorSize * m \/ s.f.sect = s.f.clust)
    BY <2>2, <1>1, AtStands DEF FileOK
  <2>4. s.f.ptr # SectorSize * m /\ SectorSize * (m - 1) \in Nat /\ SectorSize * m \in Nat
    BY <2>3, <1>1, <1>3, WithinFacts
  <2>5. SectorSize * (m - 1) <= s.f.ptr /\ s.f.ptr < SectorSize * m /\ s.f.sect = s.f.clust
    BY <2>3, <2>4, <1>1 DEF Within
  <2>6. /\ Busy(t, L, F, n) /\ t.f.ptr <= t.f.size /\ t.f.err = s.f.err /\ t.f.write
        /\ t.f.ptr - s.f.ptr \in 0..Len(bytes) /\ t.res = s.res /\ t.out = s.out
    <3>1. s.f.write => Parted(s, t, L, F, n, Len(bytes))
      BY <2>1, <2>3, <2>5, <1>1, WritingPart
    <3> QED  BY <3>1, <1>0 DEF Parted
  <2>7. Torn(t, L, F, n)
    BY <2>6, BusyTorn
  <2> QED  BY <2>6, <2>7 DEF Written, Went, Errs
<1>4. CASE s.f.ptr % SectorSize = 0
  <2>1. PICK c \in WriteCluster(s) :
           /\ c.res # "ok" \/ c.val = 0 => t = c
           /\ c.res = "ok" /\ c.val # 0 => \E u \in FlushBuf(SetCluster(c)) :
                 /\ u.res # "ok" => t = u
                 /\ u.res = "ok" /\ Len(bytes) >= SectorSize => t \in WriteSector(u, bytes)
                 /\ u.res = "ok" /\ ~(Len(bytes) >= SectorSize) => \E v \in FillBuf(u) :
                       /\ v.res # "ok" => t = v
                       /\ v.res = "ok" => t = WritePart(v, bytes)
    BY <1>4 DEF WriteSome, Then
  <2>2. /\ Busy(c, L, F, n) /\ c.f = s.f /\ c.res \in Errs /\ c.out = s.out
        /\ c.res = "ok" /\ c.val # 0 => c.val \in Clusters /\ Leads(c, L, F, n, c.val)
    BY <1>4, WritingCluster
  <2>3. CASE c.res # "ok" \/ c.val = 0
    <3>1. t = c /\ Torn(c, L, F, n)
      BY <2>1, <2>2, <2>3, BusyTorn
    <3>2. t.f.ptr - s.f.ptr \in 0..Len(bytes)
      BY <3>1, <2>2, <1>1, <1>2
    <3> QED  BY <3>1, <3>2, <2>2, <1>0 DEF Written, Went
  <2>4. CASE c.res = "ok" /\ c.val # 0
    <3>1. PICK x : x = SetCluster(c)
      OBVIOUS
    <3>2. /\ Torn(x, L, F, n) /\ Ahead(Tab(Seen(x)), x.f)
          /\ x.res = c.res /\ x.out = c.out
          /\ x.f.ptr = c.f.ptr /\ x.f.err = c.f.err /\ (c.f.write => x.f.write)
      <4>1. c.f.err = "ok" /\ c.val \in Clusters /\ Leads(c, L, F, n, c.val) /\ Busy(c, L, F, n)
        BY <2>2, <2>4
      <4> QED  BY <4>1, <3>1, SettingCluster
    <3>3. PICK u \in FlushBuf(x) :
                 /\ u.res # "ok" => t = u
                 /\ u.res = "ok" /\ Len(bytes) >= SectorSize => t \in WriteSector(u, bytes)
                 /\ u.res = "ok" /\ ~(Len(bytes) >= SectorSize) => \E v \in FillBuf(u) :
                       /\ v.res # "ok" => t = v
                       /\ v.res = "ok" => t = WritePart(v, bytes)
      BY <2>1, <2>4, <3>1
    <3>9. Torn(x, L, F, n) /\ x.res = "ok" /\ u \in FlushBuf(x)
      BY <3>2, <2>4, <3>3
    <3>4. Torn(u, L, F, n) /\ u.res \in {"ok", "disk_err"} /\ Still(x, u) /\ u.out = x.out
      BY <3>9, Flushing
    <3>5. /\ Ahead(Tab(Seen(u)), u.f) /\ u.f.ptr = s.f.ptr /\ u.f.err = s.f.err /\ u.out = s.out
          /\ u.f.write
      BY <3>2, <3>4, <2>2, <1>0, AheadStill DEF Still
    <3>6. CASE u.res # "ok"
      BY <3>3, <3>4, <3>5, <3>6 DEF Written, Went, Errs
    <3>7. CASE u.res = "ok" /\ Len(bytes) >= SectorSize
      <4>1. SectorSize <= Len(bytes) /\ t \in WriteSector(u, bytes)
        BY <3>3, <3>7, <1>2, VolumeAssumption
      <4>2. Written(u, t, L, F, n, Len(bytes))
        BY <4>1, <3>4, <3>5, <3>7, <1>2, WritingSector
      <4> QED  BY <4>2, <3>5 DEF Written, Went
    <3>8. CASE u.res = "ok" /\ ~(Len(bytes) >= SectorSize)
      <4>1. PICK v \in FillBuf(u) : /\ v.res # "ok" => t = v
                                    /\ v.res = "ok" => t = WritePart(v, bytes)
        BY <3>3, <3>8
      <4>2. u.f.clust \in Clusters
        BY <3>5, StandsFacts DEF Ahead
      <4>3. /\ Torn(v, L, F, n) /\ v.res \in {"ok", "disk_err"} /\ Still(u, v)
            /\ v.out = u.out
            /\ v.res = "ok" => v.f.sect = v.f.clust
        BY <4>2, <3>4, <3>8, Filling
      <4>4. CASE v.res # "ok"
        BY <4>1, <4>3, <4>4, <3>5 DEF Written, Went, Errs
      <4>5. CASE v.res = "ok"
        <5>1. /\ Ahead(Tab(Seen(v)), v.f) /\ v.f.ptr = s.f.ptr /\ v.f.err = s.f.err /\ v.out = s.out
              /\ v.f.write
          BY <4>3, <3>5, AheadStill DEF Still
        <5>2. PICK m \in Nat \ {0} : /\ Stands(Tab(Seen(v)), v.f, m) /\ SectorSize * (m - 1) <= v.f.ptr
                                     /\ v.f.ptr < SectorSize * m
          BY <5>1, <1>1, AheadPlace
        <5>3. t = WritePart(v, bytes) /\ v.f.sect = v.f.clust
          BY <4>1, <4>3, <4>5
        <5>4. /\ Busy(t, L, F, n) /\ t.f.ptr <= t.f.size /\ t.f.err = v.f.err /\ t.f.write
              /\ t.f.ptr - v.f.ptr \in 0..Len(bytes) /\ t.res = v.res /\ t.out = v.out
          <6>1. v.f.write => Parted(v, t, L, F, n, Len(bytes))
            BY <5>2, <5>3, <4>3, WritingPart
          <6> QED  BY <6>1, <5>1 DEF Parted
        <5>5. Torn(t, L, F, n)
          BY <5>4, BusyTorn
        <5> QED  BY <5>1, <5>4, <5>5, <4>5 DEF Written, Went, Errs
      <4> QED  BY <4>4, <4>5
    <3> QED  BY <3>6, <3>7, <3>8
  <2> QED  BY <2>3, <2>4
<1> QED  BY <1>3, <1>4

\* A loop over a file, so far: it may go on only with the file busy.
Going(s, x, L, F, n, S) ==
    /\ Went(s, x.s, L, F, n) /\ x.s.out = s.out
    /\ x.s.res = "ok" => x.s.f.write
    /\ x.go => x.s.res = "ok" /\ x.at \in Seq(S) /\ x.at # <<>>

\* A part of the bytes is a sequence of them.
LEMMA PartFacts ==
    ASSUME NEW S, NEW bytes \in Seq(S), NEW k \in 0..Len(bytes)
    PROVE  Part(bytes, k) \in Seq(S)
<1>1. Len(bytes) \in Nat
  BY LenProperties
<1>2. \A i \in (k + 1)..Len(bytes) : bytes[i] \in S
  BY <1>1, ElementOfSeq
<1> QED  BY <1>1, <1>2, SubSeqProperties DEF Part

\* A turn of f_write's loop.
LEMMA WritingTurn ==
    ASSUME NEW s, NEW L \in SUBSET Names, NEW F, IsFiles(F), NEW n \in Names,
           NEW S, NEW y, s.f.err = "ok", Going(s, y, L, F, n, S), NEW z \in WriteTurn(y)
    PROVE  y.go => Going(s, z, L, F, n, S)
<1>0. SUFFICES ASSUME y.go PROVE Going(s, z, L, F, n, S)
  OBVIOUS
<1>1. /\ Busy(y.s, L, F, n) /\ y.s.res = "ok" /\ y.s.f.err = "ok" /\ y.s.f.ptr <= y.s.f.size
      /\ y.at \in Seq(S) /\ y.at # <<>> /\ y.s.f.write /\ y.s.out = s.out
  BY <1>0 DEF Going, Went
<1>2. PICK t \in WriteSome(y.s, y.at) :
         z = LET left == Part(y.at, t.f.ptr - y.s.f.ptr)
             IN  [s |-> t, at |-> left, go |-> t.res = "ok" /\ t.f.ptr # y.s.f.ptr /\ left # <<>>]
  BY DEF WriteTurn
<1>3. Written(y.s, t, L, F, n, Len(y.at))
  <2>1. PICK x : x = y.s
    OBVIOUS
  <2>2. PICK b : b = y.at
    OBVIOUS
  <2>3. /\ Busy(x, L, F, n) /\ x.res = "ok" /\ x.f.err = "ok" /\ x.f.ptr <= x.f.size
        /\ b \in Seq(S) /\ b # <<>> /\ t \in WriteSome(x, b)
    BY <2>1, <2>2, <1>1, <1>2
  <2>4. x.f.write => Written(x, t, L, F, n, Len(b))
    BY <2>3, WritingSome
  <2> QED  BY <2>1, <2>2, <2>4, <1>1
<1>4. z.s = t /\ z.at = Part(y.at, t.f.ptr - y.s.f.ptr)
      /\ (z.go => t.res = "ok" /\ z.at # <<>>)
  BY <1>2
<1>5. t.res = "ok" => z.at \in Seq(S)
  BY <1>1, <1>3, <1>4, PartFacts DEF Written
<1>6. Went(s, t, L, F, n) /\ t.out = s.out /\ (t.res = "ok" => t.f.write)
  BY <1>1, <1>3 DEF Written, Went
<1> QED  BY <1>4, <1>5, <1>6 DEF Going

\* f_write's loop.
LEMMA WritingLoop ==
    ASSUME NEW s, NEW L \in SUBSET Names, NEW F, IsFiles(F), NEW n \in Names, Busy(s, L, F, n),
           s.res = "ok", s.f.err = "ok", s.f.ptr <= s.f.size, NEW S, NEW bytes \in Seq(S),
           NEW t \in WriteLoop(s, bytes)
    PROVE  s.f.write => Went(s, t, L, F, n)
<1>0. SUFFICES ASSUME s.f.write PROVE Went(s, t, L, F, n)
  OBVIOUS
<1> DEFINE x0 == [s |-> s, at |-> bytes, go |-> bytes # <<>>]
           In(x) == Going(s, x, L, F, n, S)
<1>1. Len(bytes) \in Nat
  BY LenProperties
<1>2. PICK U : LoopIn(Loop(WriteTurn, x0, Len(bytes)), U, "write", 0, x0)
  BY <1>1, WriteTurns
<1> DEFINE P == {x \in U : In(x)}
<1>3. x0 \in P
  <2>1. Torn(s, L, F, n)
    BY BusyTorn
  <2> QED  BY <2>1, <1>0, <1>2 DEF LoopIn, Going, Went, Errs
<1>4. ASSUME NEW y \in P, NEW z \in WriteTurn(y) PROVE y.go => In(z)
  <2>1. Going(s, y, L, F, n, S)
    OBVIOUS
  <2> QED  BY <2>1, WritingTurn
<1>5. KeptByTurns(P, U, "write", 0)
  <2> HIDE DEF In
  <2> QED  BY <1>4 DEF KeptByTurns, AnyTurn
<1>6. Loop(WriteTurn, x0, Len(bytes)) \subseteq P
  <2> HIDE DEF P, x0
  <2>1. P \in SUBSET U
    BY DEF P
  <2> QED  BY <2>1, <1>2, <1>3, <1>5 DEF LoopIn
<1>7. PICK x \in Loop(WriteTurn, x0, Len(bytes)) : t = x.s
  BY DEF WriteLoop
<1>8. In(x)
  BY <1>6, <1>7
<1> QED  BY <1>7, <1>8 DEF Going

\* What a call on an open file leaves.
Ended(t, L, F, n) == Busy(t, L, F, n) /\ (t.f.err = "ok" => t.f.ptr <= t.f.size)

\* The fields of a file with an error noted.
LEMMA ErredFacts ==
    ASSUME NEW n, NEW f, IsFile(f, n), NEW r, NEW g, g = [f EXCEPT !.err = r]
    PROVE  /\ IsFile(g, n) /\ g.first = f.first /\ g.size = f.size /\ g.ptr = f.ptr /\ g.err = r
           /\ g.sect = f.sect /\ g.dirty = f.dirty
<1>1. Shaped(f)
  BY DEF IsFile
<1>2. /\ Shaped(g) /\ g.open = f.open /\ g.name = f.name /\ g.dirty = f.dirty /\ g.write = f.write
      /\ g.first = f.first /\ g.size = f.size /\ g.ptr = f.ptr /\ g.err = r
      /\ g.clust = f.clust /\ g.sect = f.sect
  BY <1>1 DEF Shaped
<1> QED  BY <1>2 DEF IsFile

\* ABORT
LEMMA Aborting ==
    ASSUME NEW s, NEW u, NEW L \in SUBSET Names, NEW F, IsFiles(F), NEW n \in Names, Went(s, u, L, F, n),
           NEW S, u \in S, NEW t, t = (IF u.res # "ok" THEN [u EXCEPT !.f.err = u.res] ELSE u)
    PROVE  Ended(t, L, F, n) /\ t.res = u.res /\ (t.res = "ok" => t = u)
<1>1. CASE u.res = "ok"
  BY <1>1 DEF Went, Ended
<1>2. CASE u.res # "ok"
  <2>1. PICK g : g = [u.f EXCEPT !.err = u.res]
    OBVIOUS
  <2>2. Torn(u, L, F, n) /\ IsFile(u.f, n) /\ Base(u)
    BY TornFacts DEF Went, Torn
  <2>3. /\ IsFile(g, n) /\ g.first = u.f.first /\ g.size = u.f.size /\ g.ptr = u.f.ptr /\ g.err # "ok"
        /\ g.sect = u.f.sect /\ g.dirty = u.f.dirty
    BY <2>1, <2>2, <1>2, ErredFacts
  <2>4. t = Having(u, g)
    BY <2>1, <2>2, <1>2 DEF Having, Base, IsState, IsFile, Shaped
  <2>5. g.ptr \in Nat /\ (g.dirty => g.sect \in Clusters)
    BY <2>2, <2>3, TornFacts
  <2>6. Torn(Having(u, g), L, F, n)
    BY <2>2, <2>3, <2>5, SettingSame
  <2>7. Having(u, g).f = g /\ Having(u, g).res = u.res
    BY <2>2, HavingFacts
  <2>8. Busy(t, L, F, n)
    BY <2>3, <2>4, <2>6, <2>7, ErrBusy
  <2> QED  BY <2>3, <2>4, <2>7, <2>8, <1>2 DEF Ended
<1> QED  BY <1>1, <1>2

\* The mark of a change, set or taken off.
MarkOf(f, v) == [f EXCEPT !.modified = v]

\* The fields of a file with the mark set.
LEMMA MarkFacts ==
    ASSUME NEW n, NEW f, IsFile(f, n), NEW v, NEW g, g = MarkOf(f, v)
    PROVE  /\ IsFile(g, n) /\ g.first = f.first /\ g.size = f.size /\ g.ptr = f.ptr /\ g.err = f.err
           /\ g.clust = f.clust /\ g.sect = f.sect /\ g.dirty = f.dirty /\ g.modified = v
<1>1. Shaped(f)
  BY DEF IsFile
<1>2. /\ Shaped(g) /\ g.open = f.open /\ g.name = f.name /\ g.dirty = f.dirty /\ g.write = f.write
      /\ g.first = f.first /\ g.size = f.size /\ g.ptr = f.ptr /\ g.err = f.err
      /\ g.clust = f.clust /\ g.sect = f.sect /\ g.modified = v
  BY <1>1 DEF Shaped, MarkOf
<1> QED  BY <1>2 DEF IsFile

\* The file's other fields may change.
LEMMA BusyFile ==
    ASSUME NEW s, NEW L \in SUBSET Names, NEW F, IsFiles(F), NEW n \in Names, Busy(s, L, F, n),
           NEW g, IsFile(g, n), g.first = s.f.first, g.size = s.f.size, g.ptr = s.f.ptr, g.err = s.f.err,
           g.clust = s.f.clust, g.sect = s.f.sect, g.dirty = s.f.dirty, NEW t, t = Having(s, g)
    PROVE  /\ Busy(t, L, F, n) /\ t.f = g /\ t.res = s.res /\ t.out = s.out /\ Seen(t) = Seen(s)
           /\ t.disk = s.disk
<1>1. IsFile(s.f, n) /\ Fine(s, L, Put(F, n, s.f)) /\ FileOK(Tab(Seen(s)), s.f) /\ Base(s)
  BY BusyTorn DEF Busy
<1>2. FileOK(Tab(Seen(s)), g)
  BY <1>1 DEF FileOK, At
<1>3. Fine(s, L, Put(F, n, g))
  BY <1>1, <1>2, Refile
<1>4. /\ t.f = g /\ t.res = s.res /\ t.out = s.out /\ Seen(t) = Seen(s) /\ t.disk = s.disk
  BY <1>1, HavingFacts
<1>5. Fine(t, L, Put(F, n, g))
  BY <1>3, SetFile DEF Having
<1> QED  BY <1>4, <1>5 DEF Busy

\* The file's mark of a change, in the state.
MarkedState(s, v) == [s EXCEPT !.f.modified = v]

\* The mark may be set.
LEMMA Marked ==
    ASSUME NEW s, NEW L \in SUBSET Names, NEW F, IsFiles(F), NEW n \in Names, Ended(s, L, F, n), NEW v,
           NEW t, t = MarkedState(s, v)
    PROVE  /\ Ended(t, L, F, n) /\ t.res = s.res /\ t.out = s.out /\ Seen(t) = Seen(s) /\ t.disk = s.disk
           /\ t.f.modified = v /\ t.f.size = s.f.size /\ t.f.ptr = s.f.ptr /\ t.f.err = s.f.err
<1>1. Busy(s, L, F, n) /\ IsFile(s.f, n) /\ Base(s)
  BY BusyTorn DEF Ended, Busy
<1>2. PICK g : g = MarkOf(s.f, v)
  OBVIOUS
<1>3. /\ IsFile(g, n) /\ g.first = s.f.first /\ g.size = s.f.size /\ g.ptr = s.f.ptr /\ g.err = s.f.err
      /\ g.clust = s.f.clust /\ g.sect = s.f.sect /\ g.dirty = s.f.dirty /\ g.modified = v
  BY <1>1, <1>2, MarkFacts
<1>4. t = Having(s, g)
  BY <1>1, <1>2 DEF MarkedState, Having, MarkOf, Base, IsState, IsFile, Shaped
<1>5. /\ Busy(t, L, F, n) /\ t.f = g /\ t.res = s.res /\ t.out = s.out /\ Seen(t) = Seen(s) /\ t.disk = s.disk
  BY <1>1, <1>3, <1>4, BusyFile
<1>6. t.f.modified = v /\ t.f.size = s.f.size /\ t.f.ptr = s.f.ptr /\ t.f.err = s.f.err
  BY <1>3, <1>5
<1>7. s.f.err = "ok" => s.f.ptr <= s.f.size
  BY DEF Ended
<1>8. Ended(t, L, F, n)
  BY <1>5, <1>6, <1>7 DEF Ended
<1> QED  BY <1>5, <1>6, <1>8

\* A result is returned.
Answer(s, r) == [s EXCEPT !.res = r]

\* A result may be returned.
LEMMA AnswerFine ==
    ASSUME NEW s, NEW L \in SUBSET Names, NEW F, Fine(s, L, F), s.res # "disk_err", NEW r,
           NEW t, t = Answer(s, r)
    PROVE  Did(s, t, L, F) /\ t.res = r
<1>1. Base(s)
  BY DEF Fine, Safe
<1>2. Looked(s, t) /\ t.res = r
  BY <1>1, SetRes DEF Answer
<1> QED  BY <1>2, DidLooked

\* So it may at the end of a call on a file.
LEMMA EndedAnswer ==
    ASSUME NEW s, NEW L \in SUBSET Names, NEW F, IsFiles(F), NEW n \in Names, Ended(s, L, F, n),
           s.res # "disk_err", NEW r, NEW t, t = Answer(s, r)
    PROVE  Ended(t, L, F, n) /\ t.res = r /\ t.f = s.f
<1>1. PICK G : G = Put(F, n, s.f)
  OBVIOUS
<1>2. Fine(s, L, G)
  BY <1>1 DEF Ended, Busy
<1>3. Did(s, t, L, G) /\ t.res = r
  BY <1>2, AnswerFine
<1> QED  BY <1>1, <1>3 DEF Ended, Busy, Did

\* f_write.
LEMMA FileWriting ==
    ASSUME NEW s, NEW L \in SUBSET Names, NEW F, IsFiles(F), NEW n \in Names, Ended(s, L, F, n),
           s.res = "ok", NEW S, NEW bytes \in Seq(S), NEW t \in f_write(s, bytes)
    PROVE  Ended(t, L, F, n) /\ (t.res = "ok" => t.f.modified)
<1>1. CASE s.f.err # "ok"
  <2>1. PICK r : r # "ok" /\ t = Answer(s, r)
    BY <1>1 DEF f_write, Error, Answer
  <2>2. Ended(t, L, F, n) /\ t.res = r
    BY <2>1, EndedAnswer
  <2> QED  BY <2>1, <2>2
<1>2. CASE s.f.err = "ok" /\ ~s.f.write
  <2>1. PICK r : r # "ok" /\ t = Answer(s, r)
    BY <1>2 DEF f_write, Error, Answer
  <2>2. Ended(t, L, F, n) /\ t.res = r
    BY <2>1, EndedAnswer
  <2> QED  BY <2>1, <2>2
<1>3. CASE s.f.err = "ok" /\ s.f.write
  <2>1. PICK u, v :
           /\ u \in WriteLoop(s, bytes)
           /\ v = IF u.res # "ok" THEN [u EXCEPT !.f.err = u.res] ELSE u
           /\ v.res # "ok" => t = v
           /\ v.res = "ok" => t = [v EXCEPT !.f.modified = TRUE]
    BY <1>3 DEF f_write, Abort, Then
  <2>2. Went(s, u, L, F, n)
    <3>1. /\ Busy(s, L, F, n) /\ s.f.ptr <= s.f.size /\ s.f.err = "ok"
          /\ u \in WriteLoop(s, bytes)
      BY <1>3, <2>1 DEF Ended
    <3>2. s.f.write => Went(s, u, L, F, n)
      BY <3>1, WritingLoop
    <3> QED  BY <3>2, <1>3
  <2>3. Ended(v, L, F, n)
    BY <2>1, <2>2, Aborting
  <2>4. CASE v.res # "ok"
    BY <2>1, <2>3, <2>4
  <2>5. CASE v.res = "ok"
    <3>1. PICK d : d = TRUE
      OBVIOUS
    <3>2. t = MarkedState(v, d)
      BY <3>1, <2>1, <2>5 DEF MarkedState
    <3>3. Ended(t, L, F, n) /\ t.f.modified = d
      BY <3>2, <2>3, Marked
    <3> QED  BY <3>1, <3>3
  <2> QED  BY <2>4, <2>5
<1> QED  BY <1>1, <1>2, <1>3

-----------------------------------------------------------------------------
\* f_read.

\* The file moved on to a position, and what has been read.
Shown(s, g, o) == [s EXCEPT !.f = g, !.out = o]

\* The fields of a state after some bytes are read.
LEMMA ShownFacts ==
    ASSUME NEW s, NEW L, NEW F, Fine(s, L, F), NEW g, NEW o, NEW t, t = Shown(s, g, o)
    PROVE  Fine(t, L, F) /\ t.f = g /\ t.res = s.res /\ Seen(t) = Seen(s)
<1>1. IsState(s)
  BY DEF Fine, Safe, Base
<1>2. /\ IsState(t) /\ t.disk = s.disk /\ t.win = s.win /\ t.wsect = s.wsect /\ t.dirty = s.dirty
      /\ t.media = s.media /\ t.f = g /\ t.res = s.res /\ t.free = s.free /\ t.last = s.last
      /\ t.sure = s.sure
  BY <1>1 DEF Shown, IsState
<1>3. Safe(t, L, F) /\ Seen(t) = Seen(s)
  BY <1>2, SafeSame DEF Fine
<1>4. FreeOK(t)
  BY <1>2, <1>3 DEF FreeOK, Fine
<1> QED  BY <1>2, <1>3, <1>4 DEF Fine

\* A read's turn, of not more than some bytes.
Took(s, t, L, F, n, len) ==
    /\ Went(s, t, L, F, n)
    /\ t.res = "ok" => t.f.ptr - s.f.ptr \in 1..len /\ t.f.size = s.f.size

\* The file moves on by the bytes that were read.
LEMMA Taking ==
    ASSUME NEW s, NEW L \in SUBSET Names, NEW F, IsFiles(F), NEW n \in Names, Torn(s, L, F, n),
           s.res = "ok", NEW m, Stands(Tab(Seen(s)), s.f, m), NEW k \in Nat \ {0}, NEW len \in Nat, k <= len,
           Within(s.f.ptr + k, m), s.f.ptr + k = SectorSize * m \/ s.f.sect = s.f.clust,
           s.f.ptr + k <= s.f.size, NEW o, NEW t, t = Shown(s, With(s.f, s.f.ptr + k), o)
    PROVE  Took(s, t, L, F, n, len)
<1>1. PICK p : p = s.f.ptr + k
  OBVIOUS
<1>2. PICK g : g = With(s.f, p)
  OBVIOUS
<1>3. IsFile(s.f, n) /\ Base(s) /\ s.f.ptr \in Nat /\ s.f.size \in Nat
  BY TornFacts DEF Torn
<1>4. /\ IsFile(g, n) /\ g.first = s.f.first /\ g.size = s.f.size /\ g.ptr = p /\ g.err = s.f.err
      /\ g.clust = s.f.clust /\ g.sect = s.f.sect /\ g.dirty = s.f.dirty
  BY <1>2, <1>3, WithFacts
<1>5. p \in Nat /\ p <= s.f.size /\ (g.dirty => g.sect \in Clusters)
  BY <1>1, <1>3, <1>4, TornFacts
<1>6. Torn(Having(s, g), L, F, n)
  BY <1>4, <1>5, SettingSame
<1>7. PICK u : u = Having(s, g)
  OBVIOUS
<1>8. /\ Torn(u, L, F, n) /\ u.f = g /\ u.res = s.res /\ Seen(u) = Seen(s)
  BY <1>3, <1>6, <1>7, HavingFacts
<1>9. At(Tab(Seen(u)), u.f)
  <2>1. Stands(Tab(Seen(s)), g, m)
    BY <1>4, StandsFacts
  <2>2. Within(g.ptr, m) /\ (g.ptr = SectorSize * m \/ g.sect = g.clust)
    BY <1>1, <1>4
  <2> QED  BY <2>1, <2>2, <1>8, StandsAt
<1>10. Busy(u, L, F, n)
  BY <1>8, <1>9, ToBusy
<1>11. t = Shown(u, g, o)
  BY <1>1, <1>2, <1>3, <1>7 DEF Shown, Having, Base, IsState
<1>12. Fine(u, L, Put(F, n, g)) /\ IsFile(g, n)
  BY <1>8, <1>10 DEF Busy
<1>13. Fine(t, L, Put(F, n, g)) /\ t.f = g /\ t.res = u.res /\ Seen(t) = Seen(u)
  BY <1>11, <1>12, ShownFacts
<1>14. Busy(t, L, F, n)
  BY <1>12, <1>13 DEF Busy
<1>15. Torn(t, L, F, n)
  BY <1>14, BusyTorn
<1>16. t.f.ptr - s.f.ptr \in 1..len
  BY <1>1, <1>3, <1>4, <1>13
<1>17. t.res = "ok" /\ t.f.ptr <= t.f.size /\ t.f.err = s.f.err /\ t.f.size = s.f.size
  BY <1>4, <1>5, <1>8, <1>13
<1> QED  BY <1>14, <1>15, <1>16, <1>17 DEF Took, Went, Errs

\* A read that failed.
LEMMA TookFail ==
    ASSUME NEW s, NEW L, NEW F, NEW n, NEW t, Torn(t, L, F, n), t.res \in Errs, t.res # "ok", NEW len
    PROVE  Took(s, t, L, F, n, len)
BY DEF Took, Went

\* ReadCluster finds the cluster of the next position.
LEMMA ReadingCluster ==
    ASSUME NEW s, NEW L \in SUBSET Names, NEW F, IsFiles(F), NEW n \in Names, Busy(s, L, F, n),
           s.res = "ok", s.f.err = "ok", s.f.ptr % SectorSize = 0, NEW t \in ReadCluster(s)
    PROVE  /\ Busy(t, L, F, n) /\ t.f = s.f /\ t.res \in Errs
           /\ t.res = "ok" => Leads(t, L, F, n, t.val)
           /\ t.res = "ok" => s.f.first # 0 \/ s.f.first = t.val
<1>0. /\ Fine(s, L, Put(F, n, s.f)) /\ IsFile(s.f, n) /\ Base(s)
      /\ FileOK(Tab(Seen(s)), s.f)
  BY BusyTorn DEF Busy
<1>1. CASE s.f.ptr = 0
  <2>1. t = [s EXCEPT !.val = s.f.first]
    BY <1>1 DEF ReadCluster
  <2>2. Looked(s, t) /\ t.res = "ok" /\ t.val = s.f.first
    BY <2>1, <1>0, SetVal
  <2>3. Did(s, t, L, Put(F, n, s.f))
    BY <2>2, <1>0, DidLooked
  <2>4. Busy(t, L, F, n) /\ t.f = s.f
    BY <2>3, <1>0 DEF Did, Busy
  <2> QED  BY <2>2, <2>4, <1>1 DEF Leads, Errs
<1>2. CASE s.f.ptr # 0
  <2>1. PICK c : c = s.f.clust /\ t \in get_fat(s, c)
    BY <1>2 DEF ReadCluster
  <2>2. PICK G : G = Put(F, n, s.f)
    OBVIOUS
  <2>3. Fine(s, L, G)
    BY <2>2, <1>0
  <2>4. /\ Worked(s, t, L, G) /\ Seen(t) = Seen(s)
        /\ t.res = "ok" => t.val = Tab(Seen(s))[c]
    BY <2>1, <2>3, GettingFine
  <2>5. Busy(t, L, F, n) /\ t.f = s.f /\ t.res \in Errs
    BY <2>2, <2>4, <1>0 DEF Worked, Busy
  <2>6. s.f.ptr > 0
    BY <1>0, <1>2 DEF FileOK
  <2>7. t.res = "ok" => Leads(t, L, F, n, t.val)
    BY <2>1, <2>4, <2>5, <2>6 DEF Leads
  <2>8. s.f.first # 0
    <3>1. \E m \in Nat \ {0} : Stands(Tab(Seen(s)), s.f, m)
      BY <2>6, <1>0, AtStands DEF FileOK
    <3> QED  BY <3>1, StandsFacts, ClustersFacts
  <2> QED  BY <2>5, <2>7, <2>8
<1> QED  BY <1>1, <1>2

\* The current cluster is set.
MovedTo(s, v) == [s EXCEPT !.f.clust = v]

\* The file moves to it.
LEMMA MovingTo ==
    ASSUME NEW s, NEW L \in SUBSET Names, NEW F, IsFiles(F), NEW n \in Names, Busy(s, L, F, n),
           s.f.err = "ok", NEW v \in Clusters, Leads(s, L, F, n, v),
           s.f.first # 0 \/ s.f.first = v, NEW t, t = MovedTo(s, v)
    PROVE  /\ Torn(t, L, F, n) /\ Ahead(Tab(Seen(t)), t.f)
           /\ t.res = s.res /\ Seen(t) = Seen(s)
           /\ t.f.ptr = s.f.ptr /\ t.f.err = s.f.err /\ t.f.size = s.f.size
<1>1. PICK h : h = IF s.f.first = 0 THEN v ELSE s.f.first
  OBVIOUS
<1>2. PICK f : f = s.f
  OBVIOUS
<1>3. PICK g : g = [f EXCEPT !.clust = v, !.first = h]
  OBVIOUS
<1>4. IsFile(f, n) /\ Base(s) /\ h = f.first
  BY <1>1, <1>2, BusyTorn DEF Busy
<1>5. IsFile(g, n) /\ IsMoved(f, g, v) /\ Writable(f, g)
  <2>1. h = (IF f.first = 0 THEN v ELSE f.first)
    BY <1>1, <1>2
  <2> QED  BY <2>1, <1>3, <1>4, MovedFacts
<1>6. t = Having(s, g)
  <2>1. IsState(s) /\ Shaped(f)
    BY <1>4 DEF Base, IsFile
  <2> QED  BY <2>1, <1>2, <1>3, <1>4 DEF MovedTo, Having, IsState, Shaped
<1>7. PICK u : u = Having(s, g)
  OBVIOUS
<1>8. IsFile(g, n) /\ IsMoved(s.f, g, v)
  BY <1>2, <1>5
<1>9. /\ Torn(u, L, F, n) /\ Ahead(Tab(Seen(u)), u.f) /\ u.f = g
      /\ u.res = s.res /\ u.out = s.out /\ u.val = s.val /\ Seen(u) = Seen(s)
  BY <1>7, <1>8, Stepping
<1> QED  BY <1>6, <1>7, <1>8, <1>9 DEF IsMoved

\* A position a sector further on.
LEMMA NextSector ==
    ASSUME NEW p \in Nat, NEW m \in Nat \ {0}, p = SectorSize * (m - 1)
    PROVE  p + SectorSize = SectorSize * m /\ Within(p + SectorSize, m)
<1>1. PICK j : j = m - 1
  OBVIOUS
<1>2. j \in Nat /\ m = j + 1 /\ SectorSize \in Nat /\ SectorSize > 0
  BY <1>1, VolumeAssumption
<1>3. (j + 1) * SectorSize = j * SectorSize + 1 * SectorSize
  BY <1>2, Distribute
<1>4. SectorSize * m = SectorSize * (m - 1) + SectorSize
  BY <1>1, <1>2, <1>3
<1> QED  BY <1>2, <1>4 DEF Within

\* A whole sector is read past the buffer.
LEMMA ReadingSector ==
    ASSUME NEW s, NEW L \in SUBSET Names, NEW F, IsFiles(F), NEW n \in Names, Torn(s, L, F, n),
           s.res = "ok", Ahead(Tab(Seen(s)), s.f), NEW len \in Nat, SectorSize <= len,
           s.f.ptr + len <= s.f.size, NEW t \in ReadSector(s)
    PROVE  Took(s, t, L, F, n, len)
<1>1. PICK m \in Nat \ {0} : Stands(Tab(Seen(s)), s.f, m) /\ s.f.ptr = SectorSize * (m - 1)
  BY DEF Ahead
<1>2. /\ Fine(s, L, Put(F, n, Bare(s.f))) /\ IsFile(s.f, n) /\ Base(s)
      /\ s.f.ptr \in Nat /\ s.f.size \in Nat
  BY TornFacts DEF Torn
<1>3. CASE t \in Fail(s)
  <2>1. Looked(s, t) /\ t.res = "disk_err"
    BY <1>2, <1>3, Failing
  <2>2. Did(s, t, L, Put(F, n, Bare(s.f)))
    BY <2>1, <1>2, DidLooked
  <2>3. Torn(t, L, F, n)
    BY <2>2, <1>2 DEF Did, Torn
  <2> QED  BY <2>1, <2>3, TookFail DEF Errs
<1>4. CASE t \notin Fail(s)
  <2>1. PICK o : t = [s EXCEPT !.f.ptr = @ + SectorSize, !.out = o]
    <3>1. \A u \in Fail(s) : u.res # "ok"
      BY <1>2, Failing
    <3>2. PICK u \in {s} \union Fail(s) :
             /\ u.res # "ok" => t = u
             /\ u.res = "ok" => t = [u EXCEPT !.f.ptr = @ + SectorSize,
                   !.out = @ \o Bytes(IF u.f.dirty /\ u.f.sect = u.f.clust THEN u.f.buf
                                      ELSE u.disk[u.f.clust], 0, SectorSize)]
      BY DEF ReadSector, Then
    <3> QED  BY <3>1, <3>2, <1>4
  <2>2. t = Shown(s, With(s.f, s.f.ptr + SectorSize), o)
    BY <2>1, <1>2 DEF Shown, With, Base, IsState, IsFile, Shaped
  <2>3. SectorSize \in Nat \ {0} /\ s.f.ptr + SectorSize <= s.f.size
    BY <1>2, VolumeAssumption
  <2>4. s.f.ptr + SectorSize = SectorSize * m /\ Within(s.f.ptr + SectorSize, m)
    BY <1>1, <1>2, NextSector
  <2> QED  BY <2>2, <2>3, <2>4, <1>1, Taking
<1> QED  BY <1>3, <1>4

\* Bytes are taken from the buffer up to the end of the sector.
LEMMA TakingPart ==
    ASSUME NEW s, NEW L \in SUBSET Names, NEW F, IsFiles(F), NEW n \in Names, Torn(s, L, F, n),
           s.res = "ok", NEW m \in Nat \ {0}, Stands(Tab(Seen(s)), s.f, m), SectorSize * (m - 1) <= s.f.ptr,
           s.f.ptr < SectorSize * m, s.f.sect = s.f.clust,
           NEW len \in Nat \ {0}, s.f.ptr + len <= s.f.size,
           NEW k, k = Min2(SectorSize - (s.f.ptr % SectorSize), len), NEW t, t = Take(s, k)
    PROVE  Took(s, t, L, F, n, len)
<1>1. IsFile(s.f, n) /\ Base(s) /\ s.f.ptr \in Nat /\ s.f.size \in Nat
  BY TornFacts DEF Torn
<1>2. k \in Nat \ {0} /\ k <= len /\ Within(s.f.ptr + k, m)
  BY <1>1, RestOfSector
<1>3. PICK o : t = [s EXCEPT !.f.ptr = @ + k, !.out = o]
  BY DEF Take
<1>4. t = Shown(s, With(s.f, s.f.ptr + k), o)
  BY <1>1, <1>3 DEF Shown, With, Base, IsState, IsFile, Shaped
<1>5. s.f.ptr + k <= s.f.size /\ k \in Nat \ {0} /\ len \in Nat
  BY <1>1, <1>2
<1> QED  BY <1>2, <1>4, <1>5, Taking

\* A turn's work of f_read.
LEMMA ReadingSome ==
    ASSUME NEW s, NEW L \in SUBSET Names, NEW F, IsFiles(F), NEW n \in Names, Busy(s, L, F, n),
           s.res = "ok", s.f.err = "ok", NEW len \in Nat \ {0}, s.f.ptr + len <= s.f.size,
           NEW t \in ReadSome(s, len)
    PROVE  Took(s, t, L, F, n, len)
<1>1. Torn(s, L, F, n) /\ FileOK(Tab(Seen(s)), s.f) /\ Base(s) /\ s.f.ptr \in Nat
  BY BusyTorn DEF FileOK
<1>2. PICK k : k = Min2(SectorSize - (s.f.ptr % SectorSize), len)
  OBVIOUS
<1>3. CASE s.f.ptr % SectorSize # 0
  <2>1. t = Take(s, k)
    BY <1>2, <1>3 DEF ReadSome
  <2>2. s.f.ptr > 0
    <3>1. 0 = 0 * SectorSize + 0 /\ 0 < SectorSize /\ SectorSize \in Nat \ {0}
      BY VolumeAssumption
    <3>2. 0 % SectorSize = 0
      BY <3>1, Division
    <3> QED  BY <3>2, <1>1, <1>3
  <2>3. PICK m \in Nat \ {0} : /\ Stands(Tab(Seen(s)), s.f, m) /\ Within(s.f.ptr, m)
                               /\ (s.f.ptr = SectorSize * m \/ s.f.sect = s.f.clust)
    BY <2>2, <1>1, AtStands DEF FileOK
  <2>4. s.f.ptr # SectorSize * m /\ SectorSize * (m - 1) \in Nat /\ SectorSize * m \in Nat
    BY <2>3, <1>1, <1>3, WithinFacts
  <2>5. SectorSize * (m - 1) <= s.f.ptr /\ s.f.ptr < SectorSize * m /\ s.f.sect = s.f.clust
    BY <2>3, <2>4, <1>1 DEF Within
  <2> QED  BY <2>1, <2>3, <2>5, <1>1, <1>2, TakingPart
<1>4. CASE s.f.ptr % SectorSize = 0
  <2>1. PICK c \in ReadCluster(s) :
           /\ c.res # "ok" => t = c
           /\ c.res = "ok" /\ c.val \notin Clusters => t = [c EXCEPT !.res = "int_err"]
           /\ c.res = "ok" /\ c.val \in Clusters /\ len >= SectorSize => t \in ReadSector(MovedTo(c, c.val))
           /\ c.res = "ok" /\ c.val \in Clusters /\ ~(len >= SectorSize) =>
                 \E u \in ShowCluster(MovedTo(c, c.val)) :
                     /\ u.res # "ok" => t = u
                     /\ u.res = "ok" => t = Take(u, k)
    <3>1. PICK c \in ReadCluster(s) :
             /\ c.res # "ok" => t = c
             /\ c.res = "ok" => t \in IF c.val \notin Clusters THEN Error(c, "int_err")
                                      ELSE IF len >= SectorSize THEN ReadSector(MovedTo(c, c.val))
                                      ELSE Then(ShowCluster(MovedTo(c, c.val)), LAMBDA u : {Take(u, k)})
      <4>1. PICK c \in ReadCluster(s) :
               /\ c.res # "ok" => t = c
               /\ c.res = "ok" =>
                  t \in IF c.val \notin Clusters THEN Error(c, "int_err")
                    ELSE IF len >= SectorSize THEN ReadSector([c EXCEPT !.f.clust = c.val])
                    ELSE UNION {IF u.res = "ok" THEN {Take(u, Min2(SectorSize - (s.f.ptr % SectorSize), len))} ELSE {u} :
                                   u \in ShowCluster([c EXCEPT !.f.clust = c.val])}
        BY <1>4 DEF ReadSome, Then
      <4> QED  BY <4>1, <1>2 DEF Then, MovedTo
    <3>2. ASSUME c.res = "ok", c.val \in Clusters, ~(len >= SectorSize)
          PROVE  \E u \in ShowCluster(MovedTo(c, c.val)) :
                     /\ u.res # "ok" => t = u
                     /\ u.res = "ok" => t = Take(u, k)
      <4>1. t \in Then(ShowCluster(MovedTo(c, c.val)), LAMBDA u : {Take(u, k)})
        BY <3>1, <3>2
      <4> QED  BY <4>1 DEF Then
    <3>3. c.res = "ok" /\ c.val \notin Clusters => t = [c EXCEPT !.res = "int_err"]
      BY <3>1 DEF Error
    <3> QED  BY <3>1, <3>2, <3>3
  <2>2. /\ Busy(c, L, F, n) /\ c.f = s.f /\ c.res \in Errs
        /\ c.res = "ok" => Leads(c, L, F, n, c.val)
        /\ c.res = "ok" => s.f.first # 0 \/ s.f.first = c.val
    BY <1>4, ReadingCluster
  <2>3. Torn(c, L, F, n)
    BY <2>2, BusyTorn
  <2>4. CASE c.res # "ok"
    BY <2>1, <2>2, <2>3, <2>4, TookFail
  <2>5. CASE c.res = "ok" /\ c.val \notin Clusters
    <3>1. PICK r : r = "int_err"
      OBVIOUS
    <3>2. t = Answer(c, r) /\ c.res # "disk_err"
      BY <3>1, <2>1, <2>5 DEF Answer
    <3>3. PICK G : G = Put(F, n, Bare(c.f))
      OBVIOUS
    <3>4. Fine(c, L, G)
      BY <3>3, <2>3 DEF Torn
    <3>5. Did(c, t, L, G) /\ t.res = r
      BY <3>2, <3>4, AnswerFine
    <3>6. Torn(t, L, F, n) /\ t.res = "int_err"
      BY <3>1, <3>3, <3>5, <2>3 DEF Did, Torn
    <3> QED  BY <3>6, TookFail DEF Errs
  <2>6. CASE c.res = "ok" /\ c.val \in Clusters
    <3>1. PICK v : v = c.val
      OBVIOUS
    <3>2. PICK x : x = MovedTo(c, v)
      OBVIOUS
    <3>3. v \in Clusters /\ Leads(c, L, F, n, v) /\ (c.f.first # 0 \/ c.f.first = v) /\ c.f.err = "ok"
      BY <3>1, <2>2, <2>6
    <3>4. /\ Torn(x, L, F, n) /\ Ahead(Tab(Seen(x)), x.f)
          /\ x.res = c.res /\ x.f.ptr = c.f.ptr /\ x.f.err = c.f.err /\ x.f.size = c.f.size
      BY <3>2, <3>3, <2>2, MovingTo
    <3>5. x.res = "ok" /\ x.f.ptr = s.f.ptr /\ x.f.err = s.f.err /\ x.f.size = s.f.size
      BY <3>4, <2>2, <2>6
    <3>6. CASE len >= SectorSize
      <4>1. t \in ReadSector(x) /\ SectorSize <= len /\ len \in Nat /\ x.f.ptr + len <= x.f.size
        BY <3>1, <3>2, <3>5, <3>6, <2>1, <2>6, VolumeAssumption
      <4>2. Took(x, t, L, F, n, len)
        BY <4>1, <3>4, <3>5, ReadingSector
      <4> QED  BY <4>2, <3>5 DEF Took, Went
    <3>7. CASE ~(len >= SectorSize)
      <4>1. PICK u \in ShowCluster(x) : /\ u.res # "ok" => t = u
                                        /\ u.res = "ok" => t = Take(u, k)
        BY <3>1, <3>2, <3>7, <2>1, <2>6
      <4>2. x.f.clust \in Clusters
        BY <3>4, StandsFacts DEF Ahead
      <4>3. /\ Torn(u, L, F, n) /\ u.res \in {"ok", "disk_err"} /\ Still(x, u)
            /\ u.res = "ok" => u.f.sect = u.f.clust
        BY <4>2, <3>4, <3>5, Showing
      <4>4. CASE u.res # "ok"
        BY <4>1, <4>3, <4>4, TookFail DEF Errs
      <4>5. CASE u.res = "ok"
        <5>1. /\ Ahead(Tab(Seen(u)), u.f) /\ u.f.ptr = s.f.ptr /\ u.f.err = s.f.err /\ u.f.size = s.f.size
          BY <4>3, <3>4, <3>5, AheadStill DEF Still
        <5>2. PICK m \in Nat \ {0} : /\ Stands(Tab(Seen(u)), u.f, m) /\ SectorSize * (m - 1) <= u.f.ptr
                                     /\ u.f.ptr < SectorSize * m
          BY <5>1, <1>1, AheadPlace
        <5>3. t = Take(u, k) /\ u.f.sect = u.f.clust /\ u.f.ptr + len <= u.f.size
              /\ k = Min2(SectorSize - (u.f.ptr % SectorSize), len)
          BY <5>1, <4>1, <4>3, <4>5, <1>2
        <5>4. Took(u, t, L, F, n, len)
          BY <5>2, <5>3, <4>3, <4>5, TakingPart
        <5> QED  BY <5>4, <5>1 DEF Took, Went
      <4> QED  BY <4>4, <4>5
    <3> QED  BY <3>6, <3>7
  <2> QED  BY <2>2, <2>4, <2>5, <2>6
<1> QED  BY <1>3, <1>4

\* A read's loop so far.
Reading(s, x, L, F, n) ==
    /\ Went(s, x.s, L, F, n)
    /\ x.go => x.s.res = "ok" /\ x.at \in Nat \ {0} /\ x.s.f.ptr + x.at <= x.s.f.size

\* A turn of f_read's loop.
LEMMA ReadingTurn ==
    ASSUME NEW s, NEW L \in SUBSET Names, NEW F, IsFiles(F), NEW n \in Names,
           NEW y, s.f.err = "ok", Reading(s, y, L, F, n), NEW z \in ReadTurn(y)
    PROVE  y.go => Reading(s, z, L, F, n)
<1>0. SUFFICES ASSUME y.go PROVE Reading(s, z, L, F, n)
  OBVIOUS
<1>1. /\ Busy(y.s, L, F, n) /\ y.s.res = "ok" /\ y.s.f.err = "ok"
      /\ y.at \in Nat \ {0} /\ y.s.f.ptr + y.at <= y.s.f.size
  BY <1>0 DEF Reading, Went
<1>2. PICK t \in ReadSome(y.s, y.at) :
         z = LET left == y.at - (t.f.ptr - y.s.f.ptr)
             IN  [s |-> t, at |-> left, go |-> t.res = "ok" /\ left > 0]
  BY DEF ReadTurn
<1>3. Took(y.s, t, L, F, n, y.at)
  <2>1. PICK x : x = y.s
    OBVIOUS
  <2>2. PICK b : b = y.at
    OBVIOUS
  <2>3. /\ Busy(x, L, F, n) /\ x.res = "ok" /\ x.f.err = "ok" /\ b \in Nat \ {0}
        /\ x.f.ptr + b <= x.f.size /\ t \in ReadSome(x, b)
    BY <2>1, <2>2, <1>1, <1>2
  <2>4. Took(x, t, L, F, n, b)
    BY <2>3, ReadingSome
  <2> QED  BY <2>1, <2>2, <2>4
<1>4. z.s = t /\ z.at = y.at - (t.f.ptr - y.s.f.ptr) /\ (z.go => t.res = "ok" /\ z.at > 0)
  BY <1>2
<1>5. Torn(t, L, F, n) /\ y.s.f.ptr \in Nat
  BY <1>1, <1>3, BusyTorn DEF Took, Went, FileOK
<1>6. t.f.ptr \in Nat /\ t.f.size \in Nat
  BY <1>5, TornFacts
<1>7. z.go => z.at \in Nat \ {0} /\ t.f.ptr + z.at <= t.f.size
  <2>1. SUFFICES ASSUME z.go PROVE z.at \in Nat \ {0} /\ t.f.ptr + z.at <= t.f.size
    OBVIOUS
  <2>2. t.f.ptr - y.s.f.ptr \in 1..y.at /\ t.f.size = y.s.f.size /\ z.at > 0
    BY <2>1, <1>3, <1>4 DEF Took
  <2> QED  BY <2>2, <1>1, <1>4, <1>5, <1>6
<1>8. Went(s, t, L, F, n)
  BY <1>1, <1>3 DEF Took, Went
<1> QED  BY <1>4, <1>7, <1>8 DEF Reading

\* f_read's loop.
LEMMA ReadingLoop ==
    ASSUME NEW s, NEW L \in SUBSET Names, NEW F, IsFiles(F), NEW n \in Names, Busy(s, L, F, n),
           s.res = "ok", s.f.err = "ok", s.f.ptr <= s.f.size, NEW len \in Nat, s.f.ptr + len <= s.f.size,
           NEW t \in ReadLoop(s, len)
    PROVE  Went(s, t, L, F, n)
<1> DEFINE x0 == [s |-> s, at |-> len, go |-> len > 0]
           In(x) == Reading(s, x, L, F, n)
<1>2. PICK U : LoopIn(Loop(ReadTurn, x0, len), U, "read", 0, x0)
  BY ReadTurns
<1> DEFINE P == {x \in U : In(x)}
<1>3. x0 \in P
  <2>1. Torn(s, L, F, n)
    BY BusyTorn
  <2>2. Went(s, s, L, F, n)
    BY <2>1 DEF Went, Errs
  <2>3. x0.s = s /\ x0.at = len /\ (x0.go => len > 0)
    OBVIOUS
  <2>4. In(x0)
    <3> HIDE DEF x0
    <3> QED  BY <2>2, <2>3 DEF Reading
  <2>5. x0 \in U
    BY <1>2 DEF LoopIn
  <2> QED  BY <2>4, <2>5
<1>4. ASSUME NEW y \in P, NEW z \in ReadTurn(y) PROVE y.go => In(z)
  <2>1. Reading(s, y, L, F, n)
    OBVIOUS
  <2> QED  BY <2>1, ReadingTurn
<1>5. KeptByTurns(P, U, "read", 0)
  <2> HIDE DEF In
  <2> QED  BY <1>4 DEF KeptByTurns, AnyTurn
<1>6. Loop(ReadTurn, x0, len) \subseteq P
  <2> HIDE DEF P, x0
  <2>1. P \in SUBSET U
    BY DEF P
  <2> QED  BY <2>1, <1>2, <1>3, <1>5 DEF LoopIn
<1>7. PICK x \in Loop(ReadTurn, x0, len) : t = x.s
  BY DEF ReadLoop
<1>8. In(x)
  BY <1>6, <1>7
<1> QED  BY <1>7, <1>8 DEF Reading

\* f_read.
LEMMA FileReading ==
    ASSUME NEW s, NEW L \in SUBSET Names, NEW F, IsFiles(F), NEW n \in Names, Ended(s, L, F, n),
           s.res = "ok", NEW len \in Nat, NEW t \in f_read(s, len)
    PROVE  Ended(t, L, F, n)
<1>1. CASE s.f.err # "ok"
  <2>1. PICK r : t = Answer(s, r)
    BY <1>1 DEF f_read, Error, Answer
  <2> QED  BY <2>1, EndedAnswer
<1>2. CASE s.f.err = "ok" /\ ~s.f.read
  <2>1. PICK r : t = Answer(s, r)
    BY <1>2 DEF f_read, Error, Answer
  <2> QED  BY <2>1, EndedAnswer
<1>3. CASE s.f.err = "ok" /\ s.f.read
  <2>1. PICK k : k = Min2(len, s.f.size - s.f.ptr)
    OBVIOUS
  <2>2. PICK u \in ReadLoop(s, k) : t = IF u.res # "ok" THEN [u EXCEPT !.f.err = u.res] ELSE u
    BY <2>1, <1>3 DEF f_read, Abort
  <2>3. Busy(s, L, F, n) /\ s.f.ptr <= s.f.size
    BY <1>3 DEF Ended
  <2>4. s.f.ptr \in Nat /\ s.f.size \in Nat
    BY <2>3, BusyTorn DEF FileOK
  <2>5. k \in Nat /\ s.f.ptr + k <= s.f.size
    BY <2>1, <2>3, <2>4 DEF Min2
  <2>6. Went(s, u, L, F, n)
    BY <2>2, <2>3, <2>5, <1>3, ReadingLoop
  <2> QED  BY <2>2, <2>6, Aborting
<1> QED  BY <1>1, <1>2, <1>3

-----------------------------------------------------------------------------
\* f_sync.

\* A file that kept its place and its buffer's cluster.
LEMMA Keeping ==
    ASSUME NEW s, NEW L \in SUBSET Names, NEW F, IsFiles(F), NEW n \in Names, Ended(s, L, F, n),
           NEW u, Torn(u, L, F, n), Still(s, u), u.f.sect = s.f.sect
    PROVE  Ended(u, L, F, n)
<1>1. FileOK(Tab(Seen(s)), s.f)
  BY BusyTorn DEF Ended
<1>2. At(Tab(Seen(u)), u.f)
  BY <1>1 DEF FileOK, At, Still
<1>3. Busy(u, L, F, n)
  BY <1>2, ToBusy
<1> QED  BY <1>3 DEF Ended, Still

\* A function of the lower half within a call on a file.
LEMMA EndedDid ==
    ASSUME NEW s, NEW L \in SUBSET Names, NEW F, IsFiles(F), NEW n \in Names, Ended(s, L, F, n),
           NEW t, Did(s, t, L, Put(F, n, s.f))
    PROVE  Ended(t, L, F, n)
BY DEF Ended, Busy, Did

\* The entry of a file as the file has it.
EntryOf(e, f) == [e EXCEPT !.first = f.first, !.size = f.size]

\* The fields of an entry as the file has it.
LEMMA EntryOfFacts ==
    ASSUME NEW e \in EntrySet, NEW f, f.first \in {0} \union Clusters, f.size \in Nat,
           NEW g, g = EntryOf(e, f)
    PROVE  g \in EntrySet /\ g.first = f.first /\ g.size = f.size
BY DEF EntrySet, EntryOf

\* The disk and the volume once a file's entry is stored.
Saved(t, L, F, n) ==
    /\ Sound(Tab(t.disk), t.disk[Dir], L \union {n}, NoFiles)
    /\ Sound(Tab(Seen(t)), Seen(t)[Dir], L \union {n}, Put(F, n, t.f))

\* The entry is changed in the window and sync_fs writes it.
LEMMA EntryStored ==
    ASSUME NEW s, NEW L \in SUBSET Names, NEW F, IsFiles(F), NEW n \in Names, Ended(s, L, F, n),
           s.res = "ok", s.wsect = Dir,
           NEW e, e = EntryOf(s.win[n], s.f), NEW t \in sync_fs(SetEntry(s, n, e))
    PROVE  /\ Ended(t, L, F, n) /\ t.res \in {"ok", "disk_err"}
           /\ t.res = "ok" => Saved(t, L, F, n)
<1>1. PICK G : G = Put(F, n, s.f)
  OBVIOUS
<1>2. /\ Fine(s, L, G) /\ IsFile(s.f, n) /\ FileOK(Tab(Seen(s)), s.f) /\ Base(s)
      /\ IsFiles(G) /\ G[n] = s.f
  <2>1. Busy(s, L, F, n)
    BY DEF Ended
  <2>2. FileOK(Tab(Seen(s)), s.f) /\ Base(s)
    BY <2>1, BusyTorn
  <2>3. Fine(s, L, G) /\ IsFile(s.f, n)
    BY <1>1, <2>1 DEF Busy
  <2>4. IsFiles(G) /\ G[n] = s.f
    BY <1>1, PutFile
  <2> QED  BY <2>2, <2>3, <2>4
<1>3. s.win = Seen(s)[Dir] /\ s.win \in Entries /\ s.win[n] \in EntrySet
  BY <1>2, ShowsDir DEF Entries
<1>4. e \in EntrySet /\ e.first = s.f.first /\ e.size = s.f.size
  BY <1>2, <1>3, EntryOfFacts DEF FileOK
<1>5. PICK T, E, D : T = Tab(Seen(s)) /\ E = Seen(s)[Dir] /\ D = Put(E, n, e)
  OBVIOUS
<1>6. /\ Sound(T, E, L, G) /\ E \in Entries
      /\ Room(T, e.first, e.size)
      /\ e.first \in Clusters => Claims(E, L, G, n, e.first)
      /\ e.first \in {0, G[n].first}
  <2>1. G[n].open /\ G[n].first = e.first
    BY <1>2, <1>4 DEF IsFile
  <2> QED  BY <2>1, <1>2, <1>3, <1>4, <1>5 DEF Fine, Safe, FileOK, Claims
<1>7. PICK M : M = L \union {n}
  OBVIOUS
<1>8. Sound(T, D, M, G)
  <2>1. M \in SUBSET (L \union {n})
    BY <1>7
  <2> QED  BY <2>1, <1>4, <1>5, <1>6, SoundEntry
<1>9. Sound(T, D, L, G)
  <2>1. M \in SUBSET Names /\ L \in SUBSET M
    BY <1>7
  <2> QED  BY <2>1, <1>8, SoundLess
<1>10. PICK w : w = SetEntry(s, n, e)
  OBVIOUS
<1>11. /\ Did(s, w, L, G) /\ w.res = "ok" /\ Tab(Seen(w)) = T /\ Seen(w)[Dir] = D
  BY <1>2, <1>4, <1>5, <1>9, <1>10, EnteringFine
<1>12. /\ Did(w, t, L, G) /\ t.res \in {"ok", "disk_err"} /\ Seen(t) = Seen(w)
       /\ t.res = "ok" => t.disk = Seen(w)
  <2>1. t \in sync_fs(w) /\ Fine(w, L, G)
    BY <1>10, <1>11 DEF Did
  <2> QED  BY <2>1, <1>11, Syncing
<1>13. Did(s, t, L, G)
  BY <1>11, <1>12, DidOn
<1>14. Ended(t, L, F, n)
  BY <1>1, <1>13, EndedDid
<1>15. ASSUME t.res = "ok" PROVE Saved(t, L, F, n)
  <2>1. t.disk = Seen(t) /\ Tab(Seen(t)) = T /\ Seen(t)[Dir] = D /\ t.f = s.f
    BY <1>15, <1>11, <1>12, <1>13 DEF Did
  <2>2. Sound(T, D, M, NoFiles)
    <3>1. M \in SUBSET Names /\ M \in SUBSET M
      BY <1>7
    <3> QED  BY <3>1, <1>8, NoFilesOpen, SoundLess
  <2> QED  BY <2>1, <2>2, <1>1, <1>7, <1>8 DEF Saved
<1> QED  BY <1>12, <1>14, <1>15

\* The mark is no matter to what is stored.
LEMMA SavedMarked ==
    ASSUME NEW s, NEW L \in SUBSET Names, NEW F, IsFiles(F), NEW n \in Names, Ended(s, L, F, n),
           Saved(s, L, F, n), NEW v, NEW t, t = MarkedState(s, v)
    PROVE  Saved(t, L, F, n)
<1>1. Ended(t, L, F, n) /\ Seen(t) = Seen(s) /\ t.disk = s.disk
  BY Marked
<1>2. FileOK(Tab(Seen(t)), t.f) /\ IsFile(t.f, n) /\ IsFile(s.f, n)
  BY <1>1, BusyTorn DEF Ended, Busy
<1>3. t.f.first = s.f.first
  <2>1. IsState(s) /\ Shaped(s.f)
    BY BusyTorn DEF Ended, Busy, IsFile, Base
  <2> QED  BY <2>1 DEF MarkedState, IsState, Shaped
<1>4. PICK M, T, E, G, f : /\ M = L \union {n} /\ T = Tab(Seen(t)) /\ E = Seen(t)[Dir]
                           /\ G = Put(F, n, s.f) /\ f = t.f
  OBVIOUS
<1>5. Sound(T, E, M, G) /\ M \in SUBSET Names /\ IsFiles(G) /\ G[n] = s.f
  BY <1>1, <1>4, PutFile DEF Saved
<1>6. f.open /\ FileOK(T, f)
  BY <1>2, <1>4 DEF IsFile
<1>7. f.first \in Clusters => Claims(E, M, G, n, f.first)
  BY <1>2, <1>3, <1>4, <1>5 DEF Claims, IsFile
<1>8. n \in M /\ E[n].used => E[n].first \in {0, f.first}
  BY <1>2, <1>3, <1>4, <1>5 DEF Sound, IsFile
<1>9. Sound(T, E, M, Put(G, n, f))
  BY <1>5, <1>6, <1>7, <1>8, SoundFile
<1>10. Put(G, n, f) = Put(F, n, f)
  BY <1>4, PutFile
<1> QED  BY <1>1, <1>4, <1>9, <1>10 DEF Saved

\* f_sync.
LEMMA FileSyncing ==
    ASSUME NEW s, NEW L \in SUBSET Names, NEW F, IsFiles(F), NEW n \in Names, Ended(s, L, F, n),
           s.res = "ok", NEW t \in f_sync(s)
    PROVE  /\ Ended(t, L, F, n)
           /\ s.f.modified /\ t.res = "ok" => Saved(t, L, F, n)
<1>0. Busy(s, L, F, n) /\ Torn(s, L, F, n) /\ Base(s)
  BY BusyTorn DEF Ended
<1>1. CASE ~s.f.modified
  <2>1. t = s
    BY <1>1 DEF f_sync
  <2> QED  BY <2>1, <1>1
<1>2. CASE s.f.modified
  <2>1. PICK u \in FlushBuf(s) :
           /\ u.res # "ok" => t = u
           /\ u.res = "ok" => \E v \in move_window(u, Dir) :
                 /\ v.res # "ok" => t = v
                 /\ v.res = "ok" =>
                       \E x \in sync_fs(SetEntry(v, v.f.name, EntryOf(v.win[v.f.name], v.f))) :
                           t = [x EXCEPT !.f.modified = FALSE]
    <3>1. PICK u \in FlushBuf(s) :
             /\ u.res # "ok" => t = u
             /\ u.res = "ok" => t \in Then(move_window(u, Dir), LAMBDA w :
                   {[v EXCEPT !.f.modified = FALSE] :
                       v \in sync_fs(SetEntry(w, w.f.name, EntryOf(w.win[w.f.name], w.f)))})
      BY <1>2 DEF f_sync, Then, EntryOf
    <3>2. ASSUME u.res = "ok"
          PROVE  \E v \in move_window(u, Dir) :
                     /\ v.res # "ok" => t = v
                     /\ v.res = "ok" =>
                           \E x \in sync_fs(SetEntry(v, v.f.name, EntryOf(v.win[v.f.name], v.f))) :
                               t = [x EXCEPT !.f.modified = FALSE]
      BY <3>1, <3>2 DEF Then
    <3> QED  BY <3>1, <3>2, ZenonT(60)
  <2>2. Torn(u, L, F, n) /\ Still(s, u) /\ u.f.sect = s.f.sect
    BY <2>1, <1>0, Flushing
  <2>3. Ended(u, L, F, n)
    BY <2>2, Keeping
  <2>4. CASE u.res # "ok"
    BY <2>1, <2>3, <2>4
  <2>5. CASE u.res = "ok"
    <3>1. PICK v \in move_window(u, Dir) :
                 /\ v.res # "ok" => t = v
                 /\ v.res = "ok" =>
                       \E x \in sync_fs(SetEntry(v, v.f.name, EntryOf(v.win[v.f.name], v.f))) :
                           t = [x EXCEPT !.f.modified = FALSE]
      BY <2>1, <2>5
    <3>2. Looked(u, v) /\ (v.res = "ok" => v.wsect = Dir)
      <4>1. Base(u) /\ Dir \in {Dir} \union FatSectors
        BY <2>2, TornFacts
      <4> QED  BY <4>1, <2>5, MovingWindow
    <3>3. PICK G : G = Put(F, n, u.f)
      OBVIOUS
    <3>4. Did(u, v, L, G)
      <4>1. Fine(u, L, G) /\ u.res # "disk_err"
        BY <3>3, <2>3, <2>5 DEF Ended, Busy
      <4> QED  BY <4>1, <3>2, DidLooked
    <3>5. Ended(v, L, F, n) /\ IsFile(v.f, n)
      <4>1. Ended(v, L, F, n)
        BY <3>3, <3>4, <2>3, EndedDid
      <4> QED  BY <4>1 DEF Ended, Busy
    <3>6. CASE v.res # "ok"
      BY <3>1, <3>5, <3>6
    <3>7. CASE v.res = "ok"
      <4>1. PICK e : e = EntryOf(v.win[n], v.f)
        OBVIOUS
      <4>2. v.f.name = n
        BY <3>5 DEF IsFile
      <4>3. PICK d : d = FALSE
        OBVIOUS
      <4>4. PICK x \in sync_fs(SetEntry(v, n, e)) : t = MarkedState(x, d)
        BY <4>1, <4>2, <4>3, <3>1, <3>7 DEF MarkedState
      <4>5. /\ Ended(x, L, F, n)
            /\ x.res = "ok" => Saved(x, L, F, n)
        BY <4>1, <3>2, <3>5, <3>7, EntryStored
      <4>6. Ended(t, L, F, n) /\ t.res = x.res
        BY <4>4, <4>5, Marked
      <4>7. t.res = "ok" => Saved(t, L, F, n)
        BY <4>4, <4>5, <4>6, SavedMarked
      <4> QED  BY <4>6, <4>7
    <3> QED  BY <3>6, <3>7
  <2> QED  BY <2>4, <2>5
<1> QED  BY <1>1, <1>2

-----------------------------------------------------------------------------
\* f_lseek.

\* The file as it is at the end of the current cluster.
AtEnd(f) == With(f, f.ptr + SectorSize)

\* A file before a cluster could be at its end.
LEMMA Poising ==
    ASSUME NEW s, NEW L \in SUBSET Names, NEW F, IsFiles(F), NEW n \in Names, Torn(s, L, F, n),
           Ahead(Tab(Seen(s)), s.f), NEW g, g = AtEnd(s.f)
    PROVE  Fine(s, L, Put(F, n, g)) /\ IsFile(g, n)
<1>1. PICK m \in Nat \ {0} : Stands(Tab(Seen(s)), s.f, m) /\ s.f.ptr = SectorSize * (m - 1)
  BY DEF Ahead
<1>2. /\ IsFile(s.f, n) /\ s.f.ptr \in Nat /\ SectorSize \in Nat
      /\ s.f.first \in {0} \union Clusters /\ s.f.size \in Nat
      /\ s.f.dirty => s.f.sect \in Clusters
      /\ Room(Tab(Seen(s)), s.f.first, s.f.size)
  BY TornFacts, VolumeAssumption DEF Torn
<1>3. PICK p : p = s.f.ptr + SectorSize
  OBVIOUS
<1>4. p \in Nat /\ p = SectorSize * m /\ Within(p, m)
  <2>1. p = SectorSize * m /\ Within(p, m)
    BY <1>1, <1>2, <1>3, NextSector
  <2> QED  BY <2>1, <1>2, <1>3
<1>5. g = With(s.f, p)
  BY <1>3 DEF AtEnd
<1>6. /\ IsFile(g, n) /\ g.first = s.f.first /\ g.size = s.f.size /\ g.ptr = p /\ g.err = s.f.err
      /\ g.clust = s.f.clust /\ g.sect = s.f.sect /\ g.dirty = s.f.dirty
  BY <1>2, <1>5, WithFacts
<1>7. At(Tab(Seen(s)), g)
  <2>1. Stands(Tab(Seen(s)), g, m)
    BY <1>1, <1>6, StandsFacts
  <2> QED  BY <2>1, <1>4, <1>6, StandsAt
<1>8. FileOK(Tab(Seen(s)), g)
  BY <1>2, <1>4, <1>6, <1>7 DEF FileOK
<1>9. PICK b : b = Bare(s.f)
  OBVIOUS
<1>10. IsFile(b, n) /\ b.first = s.f.first /\ Fine(s, L, Put(F, n, b))
  BY <1>2, <1>9, BareFacts DEF Torn
<1> QED  BY <1>6, <1>8, <1>10, Refile

\* It stays before it through a function of the lower half.
LEMMA PoisedKept ==
    ASSUME NEW s, NEW L \in SUBSET Names, NEW F, IsFiles(F), NEW n \in Names, Torn(s, L, F, n),
           Ahead(Tab(Seen(s)), s.f), s.f.err = "ok",
           NEW t, Worked(s, t, L, Put(F, n, AtEnd(s.f)))
    PROVE  Torn(t, L, F, n) /\ Ahead(Tab(Seen(t)), t.f) /\ t.f = s.f /\ t.res \in Errs
<1>1. PICK m \in Nat \ {0} : Stands(Tab(Seen(s)), s.f, m) /\ s.f.ptr = SectorSize * (m - 1)
  BY DEF Ahead
<1>2. /\ IsFile(s.f, n) /\ s.f.ptr \in Nat /\ s.f.size \in Nat /\ SectorSize \in Nat
  BY TornFacts, VolumeAssumption DEF Torn
<1>3. PICK p : p = s.f.ptr + SectorSize
  OBVIOUS
<1>4. p \in Nat /\ p > 0 /\ p = SectorSize * m /\ Within(p, m)
  <2>1. p = SectorSize * m /\ Within(p, m)
    BY <1>1, <1>2, <1>3, NextSector
  <2> QED  BY <2>1, <1>2, <1>3, VolumeAssumption
<1>5. PICK g : g = With(s.f, p)
  OBVIOUS
<1>6. /\ IsFile(g, n) /\ g.first = s.f.first /\ g.size = s.f.size /\ g.ptr = p /\ g.err = s.f.err
      /\ g.clust = s.f.clust /\ g.sect = s.f.sect /\ g.dirty = s.f.dirty
  BY <1>2, <1>5, WithFacts
<1>7. Fine(t, L, Put(F, n, g)) /\ t.f = s.f /\ t.res \in Errs
  BY <1>3, <1>5 DEF Worked, AtEnd
<1>8. IsFile(t.f, n) /\ t.f.first = g.first /\ t.f.ptr \in Nat /\ t.f.size = g.size
      /\ t.f.dirty = g.dirty /\ t.f.sect = g.sect
  BY <1>2, <1>6, <1>7
<1>9. Torn(t, L, F, n)
  BY <1>6, <1>7, <1>8, FileTorn
<1>10. At(Tab(Seen(t)), g)
  BY <1>6, <1>7, FileHeld DEF FileOK
<1>11. PICK k \in Nat \ {0} : Stands(Tab(Seen(t)), g, k) /\ Within(g.ptr, k)
  BY <1>4, <1>6, <1>10, AtStands
<1>12. k = m
  <2>1. (p - 1) \div SectorSize = k - 1 /\ (p - 1) \div SectorSize = m - 1
    BY <1>4, <1>6, <1>11, WithinFacts
  <2> QED  BY <2>1
<1>13. Stands(Tab(Seen(t)), t.f, m)
  BY <1>6, <1>7, <1>11, <1>12, StandsFacts
<1>14. Ahead(Tab(Seen(t)), t.f)
  BY <1>1, <1>7, <1>13 DEF Ahead
<1> QED  BY <1>7, <1>9, <1>14

\* What follows the current cluster is looked up, or made.
LEMMA NextCluster ==
    ASSUME NEW s, NEW L \in SUBSET Names, NEW F, IsFiles(F), NEW n \in Names, Torn(s, L, F, n),
           Ahead(Tab(Seen(s)), s.f), s.f.err = "ok", s.res = "ok",
           NEW t, t \in get_fat(s, s.f.clust) \union create_chain(s, s.f.clust)
    PROVE  /\ Torn(t, L, F, n) /\ Ahead(Tab(Seen(t)), t.f) /\ t.f = s.f /\ t.res \in Errs
           /\ t.res = "ok" /\ t.val \in Clusters => Tab(Seen(t))[s.f.clust] = t.val
<1>1. PICK g : g = AtEnd(s.f)
  OBVIOUS
<1>2. PICK G : G = Put(F, n, g)
  OBVIOUS
<1>3. Fine(s, L, G)
  BY <1>1, <1>2, Poising
<1>4. PICK c : c = s.f.clust
  OBVIOUS
<1>5. c # 0
  BY <1>4, StandsFacts, ClustersFacts DEF Ahead
<1>6. /\ Worked(s, t, L, G)
      /\ t.res = "ok" /\ t.val \in Clusters => Tab(Seen(t))[c] = t.val
  <2>1. CASE t \in get_fat(s, c)
    BY <2>1, <1>3, GettingFine
  <2>2. CASE t \in create_chain(s, c)
    <3>1. /\ Worked(s, t, L, G)
          /\ t.res = "ok" /\ t.val # 0 => Followed(Tab(Seen(t)), Seen(s)[Dir], L, G, c, t.val)
      BY <2>2, <1>3, Creating
    <3> QED  BY <3>1, <1>5, ClustersFacts DEF Followed
  <2> QED  BY <2>1, <2>2, <1>4
<1>7. Worked(s, t, L, Put(F, n, AtEnd(s.f)))
  BY <1>1, <1>2, <1>6
<1>8. Torn(t, L, F, n) /\ Ahead(Tab(Seen(t)), t.f) /\ t.f = s.f /\ t.res \in Errs
  BY <1>7, PoisedKept
<1> QED  BY <1>4, <1>6, <1>8

\* A seek's loop so far: what is left to go begins at the current cluster.
Seeking(x, L, F, n) ==
    /\ Torn(x.s, L, F, n) /\ x.s.res \in Errs
    /\ x.s.res = "ok" =>
           /\ Ahead(Tab(Seen(x.s)), x.s.f) /\ x.s.f.err = "ok"
           /\ x.at \in Nat \ {0} /\ (x.go \/ x.at <= SectorSize)
    /\ x.go => x.s.res = "ok" /\ SectorSize < x.at

\* A seek's step to the next cluster.
Stepped(s, v) == [s EXCEPT !.f.clust = v, !.f.ptr = @ + SectorSize]

\* And the file's.
SteppedFile(f, v, p) == [f EXCEPT !.clust = v, !.ptr = p]

\* The fields of a file after a seek's step.
LEMMA SteppedFacts ==
    ASSUME NEW n, NEW f, IsFile(f, n), NEW v, NEW p, NEW g, g = SteppedFile(f, v, p)
    PROVE  /\ IsFile(g, n) /\ g.first = f.first /\ g.size = f.size /\ g.ptr = p /\ g.err = f.err
           /\ g.clust = v /\ g.sect = f.sect /\ g.dirty = f.dirty
<1>1. Shaped(f)
  BY DEF IsFile
<1>2. /\ Shaped(g) /\ g.open = f.open /\ g.name = f.name /\ g.dirty = f.dirty /\ g.write = f.write
      /\ g.first = f.first /\ g.size = f.size /\ g.ptr = p /\ g.err = f.err
      /\ g.clust = v /\ g.sect = f.sect
  BY <1>1 DEF Shaped, SteppedFile
<1> QED  BY <1>2 DEF IsFile

\* A seek's step.
LEMMA SteppingOn ==
    ASSUME NEW s, NEW L \in SUBSET Names, NEW F, IsFiles(F), NEW n \in Names, Torn(s, L, F, n),
           Ahead(Tab(Seen(s)), s.f), NEW v \in Clusters, Tab(Seen(s))[s.f.clust] = v,
           NEW t, t = Stepped(s, v)
    PROVE  /\ Torn(t, L, F, n) /\ Ahead(Tab(Seen(t)), t.f) /\ t.f.err = s.f.err /\ t.res = s.res
<1>1. PICK m \in Nat \ {0} : Stands(Tab(Seen(s)), s.f, m) /\ s.f.ptr = SectorSize * (m - 1)
  BY DEF Ahead
<1>2. /\ IsFile(s.f, n) /\ Base(s) /\ s.f.ptr \in Nat /\ s.f.size \in Nat /\ SectorSize \in Nat
      /\ s.f.dirty => s.f.sect \in Clusters
  BY TornFacts, VolumeAssumption DEF Torn
<1>3. PICK p : p = s.f.ptr + SectorSize
  OBVIOUS
<1>4. p \in Nat /\ p = SectorSize * m
  <2>1. p = SectorSize * m
    BY <1>1, <1>2, <1>3, NextSector
  <2> QED  BY <2>1, <1>2, <1>3
<1>5. PICK f : f = s.f
  OBVIOUS
<1>6. PICK g : g = SteppedFile(f, v, p)
  OBVIOUS
<1>7. /\ IsFile(g, n) /\ g.first = f.first /\ g.size = f.size /\ g.ptr = p /\ g.err = f.err
      /\ g.clust = v /\ g.sect = f.sect /\ g.dirty = f.dirty
  <2>1. IsFile(f, n)
    BY <1>2, <1>5
  <2> QED  BY <2>1, <1>6, SteppedFacts
<1>8. t = Having(s, g)
  <2>1. IsState(s) /\ Shaped(f)
    BY <1>2, <1>5 DEF Base, IsFile
  <2> QED  BY <2>1, <1>3, <1>5, <1>6 DEF Stepped, SteppedFile, Having, IsState, Shaped
<1>9. Torn(Having(s, g), L, F, n)
  <2>1. g.first = s.f.first /\ g.ptr \in Nat /\ g.size = s.f.size /\ (g.dirty => g.sect \in Clusters)
    BY <1>2, <1>4, <1>5, <1>7
  <2> QED  BY <2>1, <1>7, SettingSame
<1>10. Torn(t, L, F, n) /\ t.f = g /\ t.res = s.res /\ Seen(t) = Seen(s)
  BY <1>2, <1>8, <1>9, HavingFacts
<1>11. Stands(Tab(Seen(t)), t.f, m + 1)
  <2>1. PICK T : T = Tab(Seen(s))
    OBVIOUS
  <2>2. Stands(T, f, m) /\ T[f.clust] = v
    BY <2>1, <1>1, <1>5
  <2>3. Stands(T, g, m + 1)
    BY <2>2, <1>7, StandsNext
  <2> QED  BY <2>1, <2>3, <1>10
<1>12. Ahead(Tab(Seen(t)), t.f)
  <2>1. m + 1 \in Nat \ {0} /\ (m + 1) - 1 = m
    OBVIOUS
  <2> QED  BY <2>1, <1>4, <1>7, <1>10, <1>11 DEF Ahead
<1> QED  BY <1>5, <1>7, <1>10, <1>12

\* A call in the middle of which an error is returned.
LEMMA TornError ==
    ASSUME NEW s, NEW L \in SUBSET Names, NEW F, IsFiles(F), NEW n \in Names, Torn(s, L, F, n),
           s.res # "disk_err", NEW r, NEW t, t = Answer(s, r)
    PROVE  Torn(t, L, F, n) /\ t.res = r /\ t.f = s.f
<1>1. PICK G : G = Put(F, n, Bare(s.f))
  OBVIOUS
<1>2. Fine(s, L, G)
  BY <1>1 DEF Torn
<1>3. Did(s, t, L, G) /\ t.res = r
  BY <1>2, AnswerFine
<1> QED  BY <1>1, <1>3 DEF Torn, Did

\* A turn of f_lseek's loop.
LEMMA SeekingTurn ==
    ASSUME NEW L \in SUBSET Names, NEW F, IsFiles(F), NEW n \in Names,
           NEW y, Seeking(y, L, F, n), NEW z \in SeekTurn(y)
    PROVE  y.go => Seeking(z, L, F, n)
<1>0. SUFFICES ASSUME y.go PROVE Seeking(z, L, F, n)
  OBVIOUS
<1>1. PICK s : s = y.s
  OBVIOUS
<1>2. /\ Torn(s, L, F, n) /\ s.res = "ok" /\ s.f.err = "ok" /\ Ahead(Tab(Seen(s)), s.f)
      /\ y.at \in Nat \ {0} /\ SectorSize < y.at
  BY <1>0, <1>1 DEF Seeking
<1>3. PICK t \in get_fat(s, s.f.clust) \union create_chain(s, s.f.clust) :
         \/ t.res = "ok" /\ z = [s |-> t, at |-> SectorSize, go |-> FALSE]
         \/ t.res = "ok" /\ t.val \in Clusters /\
              z = [s |-> [t EXCEPT !.f.clust = t.val, !.f.ptr = @ + SectorSize],
                   at |-> y.at - SectorSize, go |-> y.at - SectorSize > SectorSize]
         \/ z = [s |-> IF t.res = "ok" THEN [t EXCEPT !.res = "int_err"] ELSE t,
                    at |-> y.at, go |-> FALSE]
  BY <1>1 DEF SeekTurn
<1>4. /\ Torn(t, L, F, n) /\ Ahead(Tab(Seen(t)), t.f) /\ t.f = s.f /\ t.res \in Errs
      /\ t.res = "ok" /\ t.val \in Clusters => Tab(Seen(t))[s.f.clust] = t.val
  BY <1>2, NextCluster
<1>5. SectorSize \in Nat \ {0}
  BY VolumeAssumption
<1>6. CASE t.res = "ok" /\ z = [s |-> t, at |-> SectorSize, go |-> FALSE]
  <2>1. z.s = t /\ z.at = SectorSize /\ ~z.go
    BY <1>6
  <2> QED  BY <2>1, <1>2, <1>4, <1>5 DEF Seeking
<1>7. CASE t.res = "ok" /\ t.val \in Clusters /\
              z = [s |-> [t EXCEPT !.f.clust = t.val, !.f.ptr = @ + SectorSize],
                   at |-> y.at - SectorSize, go |-> y.at - SectorSize > SectorSize]
  <2>1. PICK v : v = t.val
    OBVIOUS
  <2>2. PICK u : u = Stepped(t, v)
    OBVIOUS
  <2>3. z.s = u /\ z.at = y.at - SectorSize /\ (z.go <=> y.at - SectorSize > SectorSize)
    BY <2>1, <2>2, <1>7 DEF Stepped
  <2>4. v \in Clusters /\ Tab(Seen(t))[t.f.clust] = v
    BY <2>1, <1>4, <1>7
  <2>5. Torn(u, L, F, n) /\ Ahead(Tab(Seen(u)), u.f) /\ u.f.err = t.f.err /\ u.res = t.res
    BY <2>2, <2>4, <1>4, SteppingOn
  <2>6. z.at \in Nat \ {0} /\ (z.go \/ z.at <= SectorSize) /\ (z.go => SectorSize < z.at)
    BY <2>3, <1>2, <1>5
  <2> QED  BY <2>3, <2>5, <2>6, <1>2, <1>4, <1>7 DEF Seeking, Errs
<1>8. CASE z = [s |-> IF t.res = "ok" THEN [t EXCEPT !.res = "int_err"] ELSE t,
                    at |-> y.at, go |-> FALSE]
  <2>1. CASE t.res = "ok"
    <3>1. PICK r : r = "int_err"
      OBVIOUS
    <3>2. PICK u : u = Answer(t, r)
      OBVIOUS
    <3>3. z.s = u /\ ~z.go
      BY <3>1, <3>2, <2>1, <1>8 DEF Answer
    <3>4. Torn(u, L, F, n) /\ u.res = r
      BY <3>2, <2>1, <1>4, TornError
    <3> QED  BY <3>1, <3>3, <3>4 DEF Seeking, Errs
  <2>2. CASE t.res # "ok"
    <3>1. z.s = t /\ ~z.go
      BY <2>2, <1>8
    <3> QED  BY <3>1, <2>2, <1>4 DEF Seeking
  <2> QED  BY <2>1, <2>2
<1> QED  BY <1>3, <1>6, <1>7, <1>8

\* A position, and the current cluster the one it is in.
Sits(T, f) == \E m \in Nat \ {0} : Stands(T, f, m) /\ Within(f.ptr, m)
\* A seek's end.
Landed(t, L, F, n) ==
    /\ Torn(t, L, F, n) /\ t.res \in Errs
    /\ t.res = "ok" => t.f.err = "ok" /\ (t.f.ptr = 0 \/ Sits(Tab(Seen(t)), t.f))

\* The position is set.
MovedPtr(s, p) == [s EXCEPT !.f.ptr = p]

\* The position may be set to any number in the middle of a call.
LEMMA MovingPtr ==
    ASSUME NEW s, NEW L \in SUBSET Names, NEW F, IsFiles(F), NEW n \in Names, Torn(s, L, F, n),
           NEW p \in Nat, NEW t, t = MovedPtr(s, p)
    PROVE  /\ Torn(t, L, F, n) /\ t.res = s.res /\ Seen(t) = Seen(s) /\ t.f = With(s.f, p)
           /\ t.f.first = s.f.first /\ t.f.size = s.f.size /\ t.f.ptr = p /\ t.f.err = s.f.err
           /\ t.f.clust = s.f.clust /\ t.f.sect = s.f.sect
<1>1. IsFile(s.f, n) /\ Base(s) /\ (s.f.dirty => s.f.sect \in Clusters)
  BY TornFacts DEF Torn
<1>2. PICK g : g = With(s.f, p)
  OBVIOUS
<1>3. /\ IsFile(g, n) /\ g.first = s.f.first /\ g.size = s.f.size /\ g.ptr = p /\ g.err = s.f.err
      /\ g.clust = s.f.clust /\ g.sect = s.f.sect /\ g.dirty = s.f.dirty
  BY <1>1, <1>2, WithFacts
<1>4. t = Having(s, g)
  BY <1>1, <1>2 DEF MovedPtr, Having, With, Base, IsState, IsFile, Shaped
<1>5. Torn(Having(s, g), L, F, n)
  BY <1>1, <1>3, SettingSame
<1>6. Torn(t, L, F, n) /\ t.f = g /\ t.res = s.res /\ Seen(t) = Seen(s)
  BY <1>1, <1>4, <1>5, HavingFacts
<1> QED  BY <1>2, <1>3, <1>6

\* f_lseek's loop.
LEMMA SeekingLoop ==
    ASSUME NEW s, NEW L \in SUBSET Names, NEW F, IsFiles(F), NEW n \in Names, Torn(s, L, F, n),
           Ahead(Tab(Seen(s)), s.f), s.f.err = "ok", s.res = "ok", NEW ofs \in Nat \ {0},
           NEW t \in SeekLoop(s, ofs)
    PROVE  Landed(t, L, F, n)
<1> DEFINE x0 == [s |-> s, at |-> ofs, go |-> ofs > SectorSize]
           In(x) == Seeking(x, L, F, n)
<1>1. ofs \in Nat /\ SectorSize \in Nat
  BY VolumeAssumption
<1>2. PICK U : LoopIn(Loop(SeekTurn, x0, ofs), U, "seek", 0, x0)
  BY <1>1, SeekTurns
<1> DEFINE P == {x \in U : In(x)}
<1>3. x0 \in P
  <2>1. x0.s = s /\ x0.at = ofs /\ (x0.go <=> ofs > SectorSize)
    OBVIOUS
  <2>2. In(x0)
    <3> HIDE DEF x0
    <3> QED  BY <2>1, <1>1 DEF Seeking, Errs
  <2>3. x0 \in U
    BY <1>2 DEF LoopIn
  <2> QED  BY <2>2, <2>3
<1>4. ASSUME NEW y \in P, NEW z \in SeekTurn(y) PROVE y.go => In(z)
  <2>1. Seeking(y, L, F, n)
    OBVIOUS
  <2> QED  BY <2>1, SeekingTurn
<1>5. KeptByTurns(P, U, "seek", 0)
  <2> HIDE DEF In
  <2> QED  BY <1>4 DEF KeptByTurns, AnyTurn
<1>6. Loop(SeekTurn, x0, ofs) \subseteq P
  <2> HIDE DEF P, x0
  <2>1. P \in SUBSET U
    BY DEF P
  <2> QED  BY <2>1, <1>2, <1>3, <1>5 DEF LoopIn
<1>7. PICK x \in Loop(SeekTurn, x0, ofs) :
         t = IF x.s.res = "ok" THEN [x.s EXCEPT !.f.ptr = @ + x.at] ELSE x.s
  BY DEF SeekLoop
<1>8. Seeking(x, L, F, n) /\ ~x.go
  <2>1. In(x)
    BY <1>6, <1>7
  <2>2. ~x.go
    <3> HIDE DEF P, x0
    <3> QED  BY <1>2, <1>7 DEF LoopIn
  <2> QED  BY <2>1, <2>2
<1>9. CASE x.s.res # "ok"
  BY <1>7, <1>8, <1>9 DEF Seeking, Landed
<1>10. CASE x.s.res = "ok"
  <2>1. PICK y : y = x.s
    OBVIOUS
  <2>2. /\ Torn(y, L, F, n) /\ Ahead(Tab(Seen(y)), y.f) /\ y.f.err = "ok" /\ y.res = "ok"
        /\ x.at \in Nat \ {0} /\ x.at <= SectorSize
    BY <2>1, <1>8, <1>10 DEF Seeking
  <2>3. PICK m \in Nat \ {0} : Stands(Tab(Seen(y)), y.f, m) /\ y.f.ptr = SectorSize * (m - 1)
    BY <2>2 DEF Ahead
  <2>4. PICK p : p = y.f.ptr + x.at
    OBVIOUS
  <2>5. y.f.ptr \in Nat
    BY <2>2, TornFacts
  <2>6. y.f.ptr + SectorSize = SectorSize * m
    BY <2>3, <2>5, NextSector
  <2>7. p \in Nat /\ Within(p, m)
    BY <2>2, <2>3, <2>4, <2>5, <2>6, <1>1 DEF Within
  <2>8. t = MovedPtr(y, p)
    <3>1. t = [y EXCEPT !.f.ptr = @ + x.at]
      BY <2>1, <1>7, <1>10
    <3>2. IsState(y) /\ Shaped(y.f)
      BY <2>2, TornFacts DEF Torn, IsFile, Base
    <3> QED  BY <3>1, <3>2, <2>4 DEF MovedPtr, IsState, Shaped
  <2>9. /\ Torn(t, L, F, n) /\ t.res = y.res /\ Seen(t) = Seen(y)
        /\ t.f.first = y.f.first /\ t.f.ptr = p /\ t.f.err = y.f.err
        /\ t.f.clust = y.f.clust
    BY <2>2, <2>7, <2>8, MovingPtr
  <2>10. Stands(Tab(Seen(t)), t.f, m)
    BY <2>3, <2>9, StandsFacts
  <2>11. Sits(Tab(Seen(t)), t.f)
    BY <2>7, <2>9, <2>10 DEF Sits
  <2> QED  BY <2>2, <2>9, <2>11 DEF Landed, Errs
<1> QED  BY <1>9, <1>10

\* The file's first cluster, and the current one.
Headed(s, v) == [s EXCEPT !.f.first = v, !.f.clust = v]

\* The first cluster is the current one.
LEMMA Heading ==
    ASSUME NEW s, NEW L \in SUBSET Names, NEW F, IsFiles(F), NEW n \in Names, Busy(s, L, F, n),
           s.f.err = "ok", NEW v \in Clusters, Leads(s, L, F, n, v),
           s.f.first = 0 \/ s.f.first = v, NEW t, t = Headed(s, v)
    PROVE  /\ Torn(t, L, F, n) /\ Ahead(Tab(Seen(t)), t.f)
           /\ t.res = s.res /\ t.f.err = s.f.err
<1>1. PICK h : h = IF s.f.first = 0 THEN v ELSE s.f.first
  OBVIOUS
<1>2. PICK f : f = s.f
  OBVIOUS
<1>3. PICK g : g = [f EXCEPT !.clust = v, !.first = h]
  OBVIOUS
<1>4. IsFile(f, n) /\ Base(s) /\ h = v
  BY <1>1, <1>2, BusyTorn DEF Busy
<1>5. IsFile(g, n) /\ IsMoved(f, g, v) /\ Writable(f, g)
  <2>1. h = (IF f.first = 0 THEN v ELSE f.first)
    BY <1>1, <1>2
  <2> QED  BY <2>1, <1>3, <1>4, MovedFacts
<1>6. t = Having(s, g)
  <2>1. IsState(s) /\ Shaped(f)
    BY <1>4 DEF Base, IsFile
  <2> QED  BY <2>1, <1>2, <1>3, <1>4 DEF Headed, Having, IsState, Shaped
<1>7. PICK u : u = Having(s, g)
  OBVIOUS
<1>8. IsFile(g, n) /\ IsMoved(s.f, g, v)
  BY <1>2, <1>5
<1>9. /\ Torn(u, L, F, n) /\ Ahead(Tab(Seen(u)), u.f) /\ u.f = g
      /\ u.res = s.res /\ u.out = s.out /\ u.val = s.val /\ Seen(u) = Seen(s)
  BY <1>7, <1>8, Stepping
<1> QED  BY <1>6, <1>7, <1>8, <1>9 DEF IsMoved

\* The file's part of it.
HeadedFile(f, v) == [f EXCEPT !.first = v, !.clust = v]

\* The fields of a file at its first cluster.
LEMMA HeadedFacts ==
    ASSUME NEW n, NEW f, IsFile(f, n), NEW v, NEW g, g = HeadedFile(f, v)
    PROVE  /\ IsFile(g, n) /\ g.first = v /\ g.size = f.size /\ g.ptr = f.ptr /\ g.err = f.err
           /\ g.sect = f.sect /\ g.dirty = f.dirty
<1>1. Shaped(f)
  BY DEF IsFile
<1>2. /\ Shaped(g) /\ g.open = f.open /\ g.name = f.name /\ g.dirty = f.dirty /\ g.write = f.write
      /\ g.first = v /\ g.size = f.size /\ g.ptr = f.ptr /\ g.err = f.err
      /\ g.sect = f.sect
  BY <1>1 DEF Shaped, HeadedFile
<1> QED  BY <1>2 DEF IsFile

\* No cluster was found for a file that has none.
LEMMA HeadingNone ==
    ASSUME NEW s, NEW L \in SUBSET Names, NEW F, IsFiles(F), NEW n \in Names, Torn(s, L, F, n),
           NEW v, s.f.first = v, NEW t, t = Headed(s, v)
    PROVE  Torn(t, L, F, n) /\ t.res = s.res /\ t.f.ptr = s.f.ptr /\ t.f.err = s.f.err
<1>1. IsFile(s.f, n) /\ Base(s) /\ s.f.ptr \in Nat /\ (s.f.dirty => s.f.sect \in Clusters)
  BY TornFacts DEF Torn
<1>2. PICK g : g = HeadedFile(s.f, v)
  OBVIOUS
<1>3. /\ IsFile(g, n) /\ g.first = v /\ g.size = s.f.size /\ g.ptr = s.f.ptr /\ g.err = s.f.err
      /\ g.sect = s.f.sect /\ g.dirty = s.f.dirty
  BY <1>1, <1>2, HeadedFacts
<1>4. t = Having(s, g)
  BY <1>1, <1>2 DEF Headed, HeadedFile, Having, Base, IsState, IsFile, Shaped
<1>5. Torn(Having(s, g), L, F, n)
  <2>1. g.first = s.f.first /\ g.ptr \in Nat /\ (g.dirty => g.sect \in Clusters)
    BY <1>1, <1>3
  <2> QED  BY <2>1, <1>3, SettingSame
<1>6. Torn(t, L, F, n) /\ t.f = g /\ t.res = s.res
  BY <1>1, <1>4, <1>5, HavingFacts
<1> QED  BY <1>3, <1>6

\* The search begins with the first cluster.
AtStart(s, v) == [s EXCEPT !.val = v, !.f.ptr = 0]

\* The search for a position begins at the first cluster of the file, made
\* when there is none.
LEMMA SeekingFirst ==
    ASSUME NEW s, NEW L \in SUBSET Names, NEW F, IsFiles(F), NEW n \in Names, Busy(s, L, F, n),
           s.f.err = "ok", s.res = "ok",
           NEW t \in IF s.f.first = 0 THEN create_chain(MovedPtr(s, 0), 0) ELSE {AtStart(s, s.f.first)}
    PROVE  /\ Busy(t, L, F, n) /\ t.res \in Errs /\ t.f.err = "ok" /\ t.f.ptr = 0
           /\ t.res = "ok" /\ t.val # 0 =>
                  t.val \in Clusters /\ Leads(t, L, F, n, t.val) /\ (t.f.first = 0 \/ t.f.first = t.val)
           /\ t.res = "ok" /\ t.val = 0 => t.f.first = t.val
<1>0. Torn(s, L, F, n) /\ FileOK(Tab(Seen(s)), s.f)
  BY BusyTorn
<1>1. PICK u : u = MovedPtr(s, 0)
  OBVIOUS
<1>2. /\ Torn(u, L, F, n) /\ u.res = "ok" /\ u.f.first = s.f.first /\ u.f.ptr = 0 /\ u.f.err = "ok"
  BY <1>0, <1>1, MovingPtr
<1>3. Busy(u, L, F, n)
  <2>1. At(Tab(Seen(u)), u.f)
    BY <1>2 DEF At
  <2> QED  BY <2>1, <1>2, ToBusy
<1>4. CASE s.f.first = 0
  <2>1. PICK G : G = Put(F, n, u.f)
    OBVIOUS
  <2>2. PICK c : c = 0
    OBVIOUS
  <2>3. Fine(u, L, G) /\ IsFile(u.f, n)
    BY <2>1, <1>3 DEF Busy
  <2>4. t \in create_chain(u, c)
    BY <2>2, <1>1, <1>4
  <2>5. /\ Worked(u, t, L, G)
        /\ t.res = "ok" /\ t.val # 0 => Followed(Tab(Seen(t)), Seen(u)[Dir], L, G, c, t.val)
    BY <2>3, <2>4, <1>2, Creating
  <2>6. Busy(t, L, F, n) /\ t.res \in Errs /\ t.f = u.f /\ Seen(t)[Dir] = Seen(u)[Dir]
    BY <2>1, <2>3, <2>5 DEF Worked, Busy
  <2>7. ASSUME t.res = "ok", t.val # 0
        PROVE  t.val \in Clusters /\ Leads(t, L, F, n, t.val) /\ t.f.first = 0
    <3>1. Followed(Tab(Seen(t)), Seen(t)[Dir], L, Put(F, n, t.f), c, t.val)
      BY <2>1, <2>5, <2>6, <2>7
    <3> QED  BY <3>1, <2>2, <2>6, <1>2, <1>4 DEF Followed, Leads
  <2> QED  BY <2>6, <2>7, <1>2, <1>4
<1>5. CASE s.f.first # 0
  <2>1. PICK v : v = s.f.first
    OBVIOUS
  <2>2. t = [u EXCEPT !.val = v]
    <3>1. IsState(s) /\ Shaped(s.f)
      BY <1>0, TornFacts DEF Torn, IsFile, Base
    <3> QED  BY <3>1, <2>1, <1>1, <1>5 DEF AtStart, MovedPtr, IsState, Shaped
  <2>3. Base(u)
    BY <1>2, TornFacts
  <2>4. Looked(u, t) /\ t.res = "ok" /\ t.val = v
    BY <2>2, <2>3, <1>2, SetVal
  <2>5. PICK G : G = Put(F, n, u.f)
    OBVIOUS
  <2>6. Fine(u, L, G) /\ IsFile(u.f, n)
    BY <2>5, <1>3 DEF Busy
  <2>7. Did(u, t, L, G)
    BY <2>4, <2>6, <1>2, DidLooked
  <2>8. Busy(t, L, F, n) /\ t.f = u.f
    BY <2>5, <2>6, <2>7 DEF Did, Busy
  <2>9. v \in Clusters
    BY <2>1, <1>0, <1>5 DEF FileOK
  <2>10. Leads(t, L, F, n, v) /\ t.f.first = v /\ v # 0
    BY <2>1, <2>8, <1>2, <1>5 DEF Leads
  <2> QED  BY <2>4, <2>8, <2>9, <2>10, <1>2 DEF Errs
<1> QED  BY <1>4, <1>5

\* The search for the cluster of a position.
LEMMA SeekingChain ==
    ASSUME NEW s, NEW L \in SUBSET Names, NEW F, IsFiles(F), NEW n \in Names, Busy(s, L, F, n),
           s.f.err = "ok", s.res = "ok", NEW ofs \in Nat, NEW t \in SeekChain(s, ofs)
    PROVE  Landed(t, L, F, n)
<1>0. Torn(s, L, F, n) /\ FileOK(Tab(Seen(s)), s.f) /\ s.f.ptr \in Nat /\ SectorSize \in Nat \ {0}
  BY BusyTorn, VolumeAssumption DEF FileOK
<1>1. PICK h : h = (s.f.ptr - 1) \div SectorSize
  OBVIOUS
<1>2. CASE ofs = 0
  <2>1. t = MovedPtr(s, 0)
    BY <1>2 DEF SeekChain, MovedPtr
  <2>2. Torn(t, L, F, n) /\ t.res = s.res /\ t.f.ptr = 0 /\ t.f.err = s.f.err
    BY <2>1, <1>0, MovingPtr
  <2> QED  BY <2>2 DEF Landed, Errs
<1>3. CASE ofs # 0 /\ s.f.ptr > 0 /\ (ofs - 1) \div SectorSize >= h
  <2>1. t \in SeekLoop(MovedPtr(s, h * SectorSize), ofs - h * SectorSize)
    BY <1>1, <1>3 DEF SeekChain, MovedPtr
  <2>2. PICK m \in Nat \ {0} : Stands(Tab(Seen(s)), s.f, m) /\ Within(s.f.ptr, m)
    BY <1>0, <1>3, AtStands DEF FileOK
  <2>3. h = m - 1 /\ SectorSize * (m - 1) \in Nat
    BY <2>2, <1>0, <1>1, WithinFacts
  <2>4. PICK p : p = h * SectorSize
    OBVIOUS
  <2>5. PICK j : j = m - 1
    OBVIOUS
  <2>6. p \in Nat /\ p = SectorSize * (m - 1) /\ h \in Nat
    BY <2>3, <2>4, <2>5, <1>0
  <2>7. PICK u : u = MovedPtr(s, p)
    OBVIOUS
  <2>13. p \in Nat
    BY <2>6
  <2>8. /\ Torn(u, L, F, n) /\ u.res = s.res /\ Seen(u) = Seen(s)
        /\ u.f.first = s.f.first /\ u.f.ptr = p /\ u.f.err = s.f.err
        /\ u.f.clust = s.f.clust
    BY <2>13, <2>7, <1>0, MovingPtr
  <2>9. Ahead(Tab(Seen(u)), u.f)
    <3>1. Stands(Tab(Seen(u)), u.f, m)
      BY <2>2, <2>8, StandsFacts
    <3> QED  BY <3>1, <2>6, <2>8 DEF Ahead
  <2>10. PICK o : o = ofs - p
    OBVIOUS
  <2>11. o \in Nat \ {0}
    <3>1. PICK a : a = ofs - 1
      OBVIOUS
    <3>2. PICK q : q = a \div SectorSize
      OBVIOUS
    <3>3. a \in Nat /\ q >= h
      BY <3>1, <3>2, <1>3
    <3>4. a = q * SectorSize + (a % SectorSize) /\ q \in Nat /\ a % SectorSize \in 0..(SectorSize - 1)
      BY <3>2, <3>3, <1>0, DivMod
    <3>5. PICK d : d = q - h
      OBVIOUS
    <3>6. d \in Nat /\ q = h + d
      BY <3>3, <3>4, <3>5, <2>6
    <3>7. (h + d) * SectorSize = h * SectorSize + d * SectorSize /\ d * SectorSize \in Nat
      BY <3>6, <2>6, <1>0, Distribute
    <3>8. PICK e, r : e = d * SectorSize /\ r = a % SectorSize
      OBVIOUS
    <3>9. a = p + e + r /\ e \in Nat /\ r \in Nat
      BY <3>4, <3>6, <3>7, <3>8, <2>4
    <3> QED  BY <3>1, <3>9, <2>6, <2>10
  <2>12. t \in SeekLoop(u, o)
    BY <2>1, <2>4, <2>7, <2>10
  <2> QED  BY <2>8, <2>9, <2>11, <2>12, SeekingLoop
<1>4. CASE ofs # 0 /\ ~(s.f.ptr > 0 /\ (ofs - 1) \div SectorSize >= h)
  <2>1. PICK c \in IF s.f.first = 0 THEN create_chain(MovedPtr(s, 0), 0) ELSE {AtStart(s, s.f.first)} :
           /\ c.res # "ok" => t = c
           /\ c.res = "ok" /\ c.val = 0 => t = Headed(c, c.val)
           /\ c.res = "ok" /\ c.val # 0 => t \in SeekLoop(Headed(c, c.val), ofs)
    <3>1. t \in Then(IF s.f.first = 0 THEN create_chain(MovedPtr(s, 0), 0) ELSE {AtStart(s, s.f.first)},
                  LAMBDA c : IF c.val = 0 THEN {Headed(c, c.val)} ELSE SeekLoop(Headed(c, c.val), ofs))
      BY <1>1, <1>4 DEF SeekChain, MovedPtr, AtStart, Headed
    <3> QED  BY <3>1 DEF Then
  <2>2. /\ Busy(c, L, F, n) /\ c.res \in Errs /\ c.f.err = "ok" /\ c.f.ptr = 0
        /\ c.res = "ok" /\ c.val # 0 =>
               c.val \in Clusters /\ Leads(c, L, F, n, c.val) /\ (c.f.first = 0 \/ c.f.first = c.val)
        /\ c.res = "ok" /\ c.val = 0 => c.f.first = c.val
    BY <2>1, SeekingFirst
  <2>3. Torn(c, L, F, n)
    BY <2>2, BusyTorn
  <2>4. PICK v : v = c.val
    OBVIOUS
  <2>5. PICK u : u = Headed(c, v)
    OBVIOUS
  <2>6. CASE c.res # "ok"
    BY <2>1, <2>2, <2>3, <2>6 DEF Landed
  <2>7. CASE c.res = "ok" /\ c.val = 0
    <3>1. c.f.first = v /\ t = u
      BY <2>1, <2>2, <2>4, <2>5, <2>7
    <3>2. Torn(u, L, F, n) /\ u.res = c.res /\ u.f.ptr = c.f.ptr /\ u.f.err = c.f.err
      BY <3>1, <2>3, <2>5, HeadingNone
    <3> QED  BY <3>1, <3>2, <2>2, <2>7 DEF Landed
  <2>8. CASE c.res = "ok" /\ c.val # 0
    <3>1. v \in Clusters /\ Leads(c, L, F, n, v) /\ (c.f.first = 0 \/ c.f.first = v) /\ c.f.err = "ok"
      BY <2>2, <2>4, <2>8
    <3>2. Torn(u, L, F, n) /\ Ahead(Tab(Seen(u)), u.f) /\ u.res = c.res /\ u.f.err = c.f.err
      BY <3>1, <2>2, <2>5, Heading
    <3>3. t \in SeekLoop(u, ofs) /\ u.res = "ok" /\ u.f.err = "ok" /\ ofs \in Nat \ {0}
      BY <3>2, <2>1, <2>2, <2>4, <2>5, <2>8, <1>4
    <3> QED  BY <3>2, <3>3, SeekingLoop
  <2> QED  BY <2>6, <2>7, <2>8
<1> QED  BY <1>2, <1>3, <1>4

\* A file that ends at its position, and is marked as changed.
Ending(f) == [f EXCEPT !.size = f.ptr, !.modified = TRUE]

\* The fields of a file that ends at its position.
LEMMA EndingFacts ==
    ASSUME NEW n, NEW f, IsFile(f, n), NEW g, g = Ending(f)
    PROVE  /\ IsFile(g, n) /\ g.first = f.first /\ g.size = f.ptr /\ g.ptr = f.ptr /\ g.err = f.err
           /\ g.clust = f.clust /\ g.sect = f.sect /\ g.dirty = f.dirty
<1>1. Shaped(f)
  BY DEF IsFile
<1>2. /\ Shaped(g) /\ g.open = f.open /\ g.name = f.name /\ g.dirty = f.dirty /\ g.write = f.write
      /\ g.first = f.first /\ g.size = f.ptr /\ g.ptr = f.ptr /\ g.err = f.err
      /\ g.clust = f.clust /\ g.sect = f.sect
  BY <1>1 DEF Shaped, Ending
<1> QED  BY <1>2 DEF IsFile

\* The file ends at its position, in the state.
EndedAt(s) == [s EXCEPT !.f.size = s.f.ptr, !.f.modified = TRUE]

\* A seek past the end makes the file longer.
LEMMA Stretching ==
    ASSUME NEW s, NEW L \in SUBSET Names, NEW F, IsFiles(F), NEW n \in Names, Busy(s, L, F, n),
           s.f.err = "ok", s.f.size < s.f.ptr, NEW t, t = EndedAt(s)
    PROVE  Busy(t, L, F, n) /\ t.f.ptr = t.f.size /\ t.f.err = s.f.err /\ t.res = s.res
<1>1. /\ Torn(s, L, F, n) /\ Base(s) /\ IsFile(s.f, n) /\ FileOK(Tab(Seen(s)), s.f)
      /\ s.f.ptr \in Nat /\ s.f.size \in Nat /\ (s.f.dirty => s.f.sect \in Clusters)
  <2>1. Torn(s, L, F, n) /\ FileOK(Tab(Seen(s)), s.f)
    BY BusyTorn
  <2> QED  BY <2>1, TornFacts DEF Torn
<1>2. PICK g : g = Ending(s.f)
  OBVIOUS
<1>3. /\ IsFile(g, n) /\ g.first = s.f.first /\ g.size = s.f.ptr /\ g.ptr = s.f.ptr /\ g.err = s.f.err
      /\ g.clust = s.f.clust /\ g.sect = s.f.sect /\ g.dirty = s.f.dirty
  BY <1>1, <1>2, EndingFacts
<1>4. t = Having(s, g)
  BY <1>1, <1>2 DEF EndedAt, Ending, Having, Base, IsState, IsFile, Shaped
<1>5. PICK m \in Nat \ {0} : /\ Stands(Tab(Seen(s)), s.f, m) /\ Within(s.f.ptr, m)
                             /\ (s.f.ptr = SectorSize * m \/ s.f.sect = s.f.clust)
  <2>1. s.f.ptr > 0
    BY <1>1
  <2> QED  BY <2>1, <1>1, AtStands DEF FileOK
<1>6. Room(Tab(Seen(s)), g.first, g.size)
  BY <1>1, <1>3, <1>5, StandsFacts DEF Within
<1>7. Torn(Having(s, g), L, F, n)
  BY <1>1, <1>3, <1>6, Setting
<1>8. Torn(t, L, F, n) /\ t.f = g /\ t.res = s.res /\ Seen(t) = Seen(s)
  BY <1>1, <1>4, <1>7, HavingFacts
<1>9. At(Tab(Seen(t)), t.f)
  BY <1>1, <1>3, <1>8 DEF FileOK, At
<1>10. Busy(t, L, F, n)
  BY <1>8, <1>9, ToBusy
<1> QED  BY <1>3, <1>8, <1>10

\* 0 is at the start of a sector.
LEMMA ZeroMod == 0 % SectorSize = 0
<1>1. 0 = 0 * SectorSize + 0 /\ 0 < SectorSize /\ SectorSize \in Nat \ {0}
  BY VolumeAssumption
<1> QED  BY <1>1, Division

\* The buffer shows the cluster a seek ended in.
LEMMA LandedShown ==
    ASSUME NEW s, NEW L \in SUBSET Names, NEW F, IsFiles(F), NEW n \in Names, Landed(s, L, F, n),
           s.res = "ok", NEW t \in IF s.f.ptr % SectorSize = 0 THEN {s} ELSE ShowCluster(s)
    PROVE  /\ Torn(t, L, F, n) /\ t.res \in Errs
           /\ t.res = "ok" => Busy(t, L, F, n) /\ t.f.err = "ok"
<1>1. /\ Torn(s, L, F, n) /\ s.f.err = "ok" /\ (s.f.ptr = 0 \/ Sits(Tab(Seen(s)), s.f))
      /\ s.f.ptr \in Nat
  BY TornFacts DEF Landed
<1>2. CASE s.f.ptr = 0
  <2>1. t = s
    BY <1>2, ZeroMod
  <2>2. At(Tab(Seen(s)), s.f)
    BY <1>2 DEF At
  <2>3. Busy(s, L, F, n)
    BY <1>1, <2>2, ToBusy
  <2> QED  BY <1>1, <2>1, <2>3 DEF Errs
<1>3. CASE s.f.ptr # 0
  <2>1. PICK m \in Nat \ {0} : Stands(Tab(Seen(s)), s.f, m) /\ Within(s.f.ptr, m)
    BY <1>1, <1>3 DEF Sits
  <2>2. CASE s.f.ptr % SectorSize = 0
    <3>1. t = s
      BY <2>2
    <3>2. s.f.ptr = SectorSize * m
      BY <1>1, <2>1, <2>2, WithinFacts
    <3>3. At(Tab(Seen(s)), s.f)
      BY <2>1, <3>2, StandsAt
    <3>4. Busy(s, L, F, n)
      BY <1>1, <3>3, ToBusy
    <3> QED  BY <1>1, <3>1, <3>4 DEF Errs
  <2>3. CASE s.f.ptr % SectorSize # 0
    <3>1. t \in ShowCluster(s) /\ s.f.clust \in Clusters
      BY <2>1, <2>3, StandsFacts
    <3>2. /\ Torn(t, L, F, n) /\ t.res \in {"ok", "disk_err"} /\ Still(s, t)
          /\ t.res = "ok" => t.f.sect = t.f.clust
      BY <1>1, <3>1, Showing
    <3>3. ASSUME t.res = "ok" PROVE Busy(t, L, F, n) /\ t.f.err = "ok"
      <4>1. Stands(Tab(Seen(t)), t.f, m)
        BY <2>1, <3>2, StandsStill
      <4>2. t.f.ptr = s.f.ptr /\ t.f.err = s.f.err
        BY <3>2 DEF Still
      <4>3. At(Tab(Seen(t)), t.f)
        BY <2>1, <3>2, <3>3, <4>1, <4>2, StandsAt
      <4> QED  BY <3>2, <4>2, <4>3, <1>1, ToBusy
    <3> QED  BY <3>2, <3>3 DEF Errs
  <2> QED  BY <2>2, <2>3
<1> QED  BY <1>2, <1>3

\* f_lseek.
LEMMA FileSeeking ==
    ASSUME NEW s, NEW L \in SUBSET Names, NEW F, IsFiles(F), NEW n \in Names, Ended(s, L, F, n),
           s.res = "ok", NEW to \in Nat, NEW t \in f_lseek(s, to)
    PROVE  Ended(t, L, F, n)
<1>1. CASE s.f.err # "ok"
  <2>1. PICK r : t = Answer(s, r)
    BY <1>1 DEF f_lseek, Error, Answer
  <2> QED  BY <2>1, EndedAnswer
<1>2. CASE s.f.err = "ok"
  <2>1. PICK ofs : ofs = IF s.f.write THEN to ELSE Min2(to, s.f.size)
    OBVIOUS
  <2>2. Busy(s, L, F, n) /\ s.f.size \in Nat
    BY BusyTorn DEF Ended, FileOK
  <2>3. ofs \in Nat
    BY <2>1, <2>2 DEF Min2
  <2>4. PICK x :
           /\ t = IF x.res # "ok" THEN [x EXCEPT !.f.err = x.res] ELSE x
           /\ \E c \in SeekChain(s, ofs) :
                 /\ c.res # "ok" => x = c
                 /\ c.res = "ok" => \E u \in IF c.f.ptr % SectorSize = 0 THEN {c} ELSE ShowCluster(c) :
                       /\ u.res # "ok" => x = u
                       /\ u.res = "ok" => x = IF u.f.ptr > u.f.size THEN EndedAt(u) ELSE u
    <3>1. PICK x \in Then(SeekChain(s, ofs), LAMBDA c :
             Then(IF c.f.ptr % SectorSize = 0 THEN {c} ELSE ShowCluster(c),
                  LAMBDA u : {IF u.f.ptr > u.f.size THEN EndedAt(u) ELSE u})) :
             t = IF x.res # "ok" THEN [x EXCEPT !.f.err = x.res] ELSE x
      BY <2>1, <1>2 DEF f_lseek, Abort, EndedAt
    <3>2. t = IF x.res # "ok" THEN [x EXCEPT !.f.err = x.res] ELSE x
      BY <3>1
    <3>3. \E c \in SeekChain(s, ofs) :
                 /\ c.res # "ok" => x = c
                 /\ c.res = "ok" => \E u \in IF c.f.ptr % SectorSize = 0 THEN {c} ELSE ShowCluster(c) :
                       /\ u.res # "ok" => x = u
                       /\ u.res = "ok" => x = IF u.f.ptr > u.f.size THEN EndedAt(u) ELSE u
      BY <3>1 DEF Then
    <3> QED  BY <3>2, <3>3, Zenon
  <2>5. PICK c \in SeekChain(s, ofs) :
           /\ c.res # "ok" => x = c
           /\ c.res = "ok" => \E u \in IF c.f.ptr % SectorSize = 0 THEN {c} ELSE ShowCluster(c) :
                 /\ u.res # "ok" => x = u
                 /\ u.res = "ok" => x = IF u.f.ptr > u.f.size THEN EndedAt(u) ELSE u
    BY <2>4
  <2>6. Landed(c, L, F, n)
    BY <2>2, <2>3, <2>5, <1>2, SeekingChain
  <2>7. Went(s, x, L, F, n)
    <3>1. CASE c.res # "ok"
      BY <2>5, <2>6, <3>1 DEF Landed, Went
    <3>2. CASE c.res = "ok"
      <4>1. PICK u \in IF c.f.ptr % SectorSize = 0 THEN {c} ELSE ShowCluster(c) :
                 /\ u.res # "ok" => x = u
                 /\ u.res = "ok" => x = IF u.f.ptr > u.f.size THEN EndedAt(u) ELSE u
        BY <2>5, <3>2
      <4>2. /\ Torn(u, L, F, n) /\ u.res \in Errs
            /\ u.res = "ok" => Busy(u, L, F, n) /\ u.f.err = "ok"
        BY <2>6, <3>2, LandedShown
      <4>3. CASE u.res # "ok"
        BY <4>1, <4>2, <4>3 DEF Went
      <4>4. CASE u.res = "ok"
        <5>1. u.f.ptr \in Nat /\ u.f.size \in Nat
          BY <4>2, TornFacts
        <5>2. CASE u.f.ptr > u.f.size
          <6>1. x = EndedAt(u) /\ u.f.size < u.f.ptr /\ Busy(u, L, F, n) /\ u.f.err = "ok"
            BY <4>1, <4>2, <4>4, <5>1, <5>2
          <6>2. Busy(x, L, F, n) /\ x.f.ptr = x.f.size /\ x.f.err = u.f.err /\ x.res = u.res
            BY <6>1, Stretching, ZenonT(60)
          <6>3. Torn(x, L, F, n)
            BY <6>2, BusyTorn
          <6>4. x.f.ptr \in Nat
            BY <6>3, TornFacts
          <6> QED  BY <6>1, <6>2, <6>3, <6>4, <1>2, <4>2 DEF Went
        <5>3. CASE ~(u.f.ptr > u.f.size)
          <6>1. x = u
            BY <4>1, <4>4, <5>3
          <6>2. u.f.ptr <= u.f.size
            BY <5>1, <5>3
          <6> QED  BY <6>1, <6>2, <4>2, <4>4, <1>2 DEF Went
        <5> QED  BY <5>2, <5>3
      <4> QED  BY <4>3, <4>4
    <3> QED  BY <3>1, <3>2
  <2>8. PICK X : x \in X
    <3>1. x \in {x}
      OBVIOUS
    <3> QED  BY <3>1
  <2>9. t = IF x.res # "ok" THEN [x EXCEPT !.f.err = x.res] ELSE x
    BY <2>4
  <2> QED  BY <2>7, <2>8, <2>9, Aborting
<1> QED  BY <1>1, <1>2

-----------------------------------------------------------------------------
\* f_truncate.

\* Fewer names may be relied on.
LEMMA FineLess ==
    ASSUME NEW s, NEW L \in SUBSET Names, NEW F, Fine(s, L, F), NEW M \in SUBSET L
    PROVE  Fine(s, M, F)
<1>1. Sound(Tab(Seen(s)), Seen(s)[Dir], M, F)
  BY SoundLess DEF Fine, Safe
<1>2. \A x \in s.media : Sound(Tab(x), x[Dir], M, NoFiles)
  BY NoFilesOpen, SoundLess DEF Fine, Safe
<1> QED  BY <1>1, <1>2 DEF Fine, Safe

\* The same at the end of a call on a file.
LEMMA EndedLess ==
    ASSUME NEW s, NEW L \in SUBSET Names, NEW F, NEW n, Ended(s, L, F, n), NEW M \in SUBSET L
    PROVE  Ended(s, M, F, n)
<1>1. PICK G : G = Put(F, n, s.f)
  OBVIOUS
<1>2. Fine(s, L, G)
  BY <1>1 DEF Ended, Busy
<1>3. Fine(s, M, G)
  BY <1>2, FineLess
<1> QED  BY <1>1, <1>3 DEF Ended, Busy

\* A file cut at its position, its chain then beginning at h.
Shrunk(f, h) == [f EXCEPT !.first = h, !.size = f.ptr, !.modified = TRUE]

\* The fields of a file cut at its position.
LEMMA ShrunkFacts ==
    ASSUME NEW n, NEW f, IsFile(f, n), NEW h, NEW g, g = Shrunk(f, h)
    PROVE  /\ IsFile(g, n) /\ g.first = h /\ g.size = f.ptr /\ g.ptr = f.ptr /\ g.err = f.err
           /\ g.clust = f.clust /\ g.sect = f.sect /\ g.dirty = f.dirty
<1>1. Shaped(f)
  BY DEF IsFile
<1>2. /\ Shaped(g) /\ g.open = f.open /\ g.name = f.name /\ g.dirty = f.dirty /\ g.write = f.write
      /\ g.first = h /\ g.size = f.ptr /\ g.ptr = f.ptr /\ g.err = f.err
      /\ g.clust = f.clust /\ g.sect = f.sect
  BY <1>1 DEF Shaped, Shrunk
<1> QED  BY <1>2 DEF IsFile

\* The file without its chain, before that is freed.
LEMMA ReadyToFree ==
    ASSUME NEW s, NEW L \in SUBSET Names, NEW F, IsFiles(F), NEW n \in Names, n \notin L,
           Busy(s, L, F, n), s.res = "ok", s.f.ptr = 0,
           NEW g, IsFile(g, n), g.first = 0, g.size = 0, g.ptr = 0, g.dirty = s.f.dirty, g.sect = s.f.sect,
           NEW c, c = s.f.first
    PROVE  /\ Fine(s, L, Put(F, n, g))
           /\ c \in Clusters => Loose(Tab(Seen(s)), Seen(s)[Dir], L, Put(F, n, g), c)
<1>1. PICK T, E, A : T = Tab(Seen(s)) /\ E = Seen(s)[Dir] /\ A = Put(F, n, s.f)
  OBVIOUS
<1>2. /\ Sound(T, E, L, A) /\ IsFile(s.f, n) /\ FileOK(T, s.f) /\ Fine(s, L, A)
      /\ IsFiles(A) /\ A[n] = s.f /\ \A m \in Names : m # n => A[m] = F[m]
  <2>1. Torn(s, L, F, n) /\ FileOK(T, s.f)
    BY <1>1, BusyTorn
  <2>2. IsFiles(A) /\ A[n] = s.f /\ \A m \in Names : m # n => A[m] = F[m]
    BY <1>1, PutFile
  <2>3. Fine(s, L, A) /\ IsFile(s.f, n)
    BY <1>1 DEF Busy
  <2>4. Sound(T, E, L, A)
    BY <2>3, <1>1 DEF Fine, Safe
  <2> QED  BY <2>1, <2>2, <2>3, <2>4
<1>3. FileOK(T, g)
  <2>1. Room(T, 0, 0)
    <3>1. PICK q : q = [i \in 1..0 |-> 2]
      OBVIOUS
    <3>2. q \in [1..0 -> Clusters]
      BY <3>1
    <3>4. \A i \in 1..(0 - 1) : T[q[i]] = q[i + 1]
      OBVIOUS
    <3>5. Walk(T, 0, q, 0)
      BY <3>2, <3>4 DEF Walk
    <3>3. 0 <= SectorSize * 0
      BY VolumeAssumption
    <3> QED  BY <3>2, <3>3, <3>5 DEF Room
  <2> QED  BY <2>1, <1>2 DEF FileOK, At
<1>4. PICK G : G = Put(F, n, g)
  OBVIOUS
<1>5. G[n] = g /\ \A m \in Names : m # n => G[m] = F[m]
  BY <1>4, PutFile
<1>6. Fine(s, L, G)
  <2>1. Sound(T, E, L, Put(A, n, g))
    <3>1. g.open /\ g.first \notin Clusters
      BY ClustersFacts DEF IsFile
    <3> QED  BY <3>1, <1>2, <1>3, SoundFile
  <2>2. Put(A, n, g) = G
    BY <1>1, <1>4, PutFile
  <2> QED  BY <2>1, <2>2, <1>1, <1>2, FineWith
<1>8. ASSUME c \in Clusters PROVE Loose(T, E, L, G, c)
  <2>1. Claims(E, L, A, n, c)
    BY <1>2 DEF Claims, IsFile
  <2>2. Starts(T, c)
    BY <2>1, <1>2, <1>8 DEF Sound
  <2>3. ASSUME NEW m \in Names, Claims(E, L, G, m, c) PROVE FALSE
    <3>1. m # n
      BY <2>3, <1>5, <1>8, ClustersFacts DEF Claims
    <3>2. Claims(E, L, A, m, c)
      BY <2>3, <3>1, <1>2, <1>5 DEF Claims
    <3> QED  BY <2>1, <3>1, <3>2, <1>2, <1>8 DEF Sound
  <2> QED  BY <2>2, <2>3, <1>8 DEF Loose, Starts
<1> QED  BY <1>1, <1>4, <1>6, <1>8

\* The whole chain of a file is freed.
LEMMA FreeingAll ==
    ASSUME NEW s, NEW L \in SUBSET Names, NEW F, IsFiles(F), NEW n \in Names, n \notin L,
           Busy(s, L, F, n), s.res = "ok", s.f.ptr = 0,
           NEW g, IsFile(g, n), g.first = 0, g.size = 0, g.ptr = 0, g.dirty = s.f.dirty, g.sect = s.f.sect,
           NEW t \in remove_chain(s, s.f.first, 0)
    PROVE  Worked(s, t, L, Put(F, n, g))
<1>1. PICK c, G : c = s.f.first /\ G = Put(F, n, g)
  OBVIOUS
<1>2. Fine(s, L, Put(F, n, g)) /\ (c \in Clusters => Loose(Tab(Seen(s)), Seen(s)[Dir], L, Put(F, n, g), c))
  BY <1>1, ReadyToFree
<1>3. Fine(s, L, G) /\ (c \in Clusters => Loose(Tab(Seen(s)), Seen(s)[Dir], L, G, c)) /\ t \in remove_chain(s, c, 0)
  BY <1>1, <1>2
<1>4. Worked(s, t, L, G)
  BY <1>3, Removing
<1> QED  BY <1>1, <1>4

\* What becomes of the chain once it is known what follows the current cluster.
CutAfter(u, x) ==
    \/ u.res # "ok" /\ x = u
    \/ u.res = "ok" /\ u.val \in Clusters /\ x \in remove_chain(u, u.val, u.f.clust)
    \/ u.res = "ok" /\ u.val \notin Clusters /\ (x = u \/ x = Answer(u, "int_err"))

\* The file once it ends at its position, before its chain is cut there.
LEMMA ReadyToCut ==
    ASSUME NEW s, NEW L \in SUBSET Names, NEW F, IsFiles(F), NEW n \in Names, n \notin L,
           Busy(s, L, F, n), s.res = "ok", s.f.err = "ok", s.f.ptr > 0,
           NEW g, IsFile(g, n), g.first = s.f.first, g.size = s.f.ptr, g.ptr = s.f.ptr, g.dirty = s.f.dirty,
           g.sect = s.f.sect, g.clust = s.f.clust, g.err = s.f.err
    PROVE  /\ Fine(s, L, Put(F, n, g)) /\ s.f.ptr \in Nat
           /\ \E m \in Nat \ {0} : \E r \in [1..m -> Clusters] :
                  Placed(Tab(Seen(s)), g, r, m) /\ g.size <= SectorSize * m
<1>1. PICK T, G : T = Tab(Seen(s)) /\ G = Put(F, n, g)
  OBVIOUS
<1>2. /\ IsFile(s.f, n) /\ FileOK(T, s.f) /\ Fine(s, L, Put(F, n, s.f)) /\ G[n] = g
      /\ s.f.ptr \in Nat
  <2>1. Torn(s, L, F, n) /\ FileOK(T, s.f)
    BY <1>1, BusyTorn
  <2>2. G[n] = g
    BY <1>1, PutFile
  <2>3. Fine(s, L, Put(F, n, s.f)) /\ IsFile(s.f, n)
    BY DEF Busy
  <2> QED  BY <2>1, <2>2, <2>3 DEF FileOK
<1>3. PICK m \in Nat \ {0} : /\ Stands(T, s.f, m) /\ Within(s.f.ptr, m)
                             /\ (s.f.ptr = SectorSize * m \/ s.f.sect = s.f.clust)
  BY <1>2, AtStands DEF FileOK
<1>4. FileOK(T, g)
  <2>1. Room(T, g.first, g.size)
    BY <1>2, <1>3, StandsFacts DEF Within
  <2>2. At(T, g)
    BY <1>2 DEF FileOK, At
  <2> QED  BY <2>1, <2>2, <1>2 DEF FileOK
<1>5. Fine(s, L, G)
  BY <1>1, <1>2, <1>4, Refile
<1>6. PICK r \in [1..m -> Clusters] : Walk(T, s.f.first, r, m) /\ r[m] = s.f.clust
  BY <1>3 DEF Stands
<1>7. Placed(T, g, r, m)
  BY <1>3, <1>6 DEF Placed, Within
<1>8. g.size <= SectorSize * m
  BY <1>3 DEF Within
<1> QED  BY <1>1, <1>2, <1>5, <1>7, <1>8

\* The chain of a file is cut after the current cluster.
LEMMA FreeingRest ==
    ASSUME NEW s, NEW L \in SUBSET Names, NEW F, IsFiles(F), NEW n \in Names, n \notin L,
           Busy(s, L, F, n), s.res = "ok", s.f.err = "ok", s.f.ptr > 0,
           NEW g, IsFile(g, n), g.first = s.f.first, g.size = s.f.ptr, g.ptr = s.f.ptr, g.dirty = s.f.dirty,
           g.sect = s.f.sect, g.clust = s.f.clust, g.err = s.f.err,
           NEW u \in get_fat(s, s.f.clust), NEW t, CutAfter(u, t)
    PROVE  Did(s, t, L, Put(F, n, g)) /\ t.res \in Errs
<1>1. PICK T, G : T = Tab(Seen(s)) /\ G = Put(F, n, g)
  OBVIOUS
<1>2. IsFile(s.f, n) /\ G[n] = g /\ G[n].open /\ g.clust = s.f.clust
  BY <1>1, PutFile DEF Busy, IsFile
<1>3. /\ Fine(s, L, Put(F, n, g)) /\ s.f.ptr \in Nat
      /\ \E m \in Nat \ {0} : \E r \in [1..m -> Clusters] :
             Placed(Tab(Seen(s)), g, r, m) /\ g.size <= SectorSize * m
  BY ReadyToCut
<1>4. Fine(s, L, G)
  BY <1>1, <1>3
<1>5. PICK m \in Nat \ {0} : \E r \in [1..m -> Clusters] : Placed(T, g, r, m) /\ g.size <= SectorSize * m
  BY <1>1, <1>3
<1>6. PICK r \in [1..m -> Clusters] : Placed(T, g, r, m) /\ g.size <= SectorSize * m
  BY <1>5
<1>8. /\ Worked(s, u, L, G) /\ Seen(u) = Seen(s)
      /\ u.res = "ok" => s.f.clust \in Clusters /\ u.val = T[s.f.clust] /\ u.val \in Nat
  BY <1>1, <1>4, GettingFine
<1>9. Did(s, u, L, G) /\ u.res \in Errs /\ u.f = s.f /\ Fine(u, L, G)
  BY <1>8, DidWorked DEF Worked
<1>10. ASSUME u.res = "ok", NEW r1, r1 \in Errs, t = Answer(u, r1)
       PROVE  Did(s, t, L, G) /\ t.res \in Errs
  <2>0. u.res # "disk_err" /\ Fine(u, L, G) /\ t = Answer(u, r1)
    BY <1>9, <1>10
  <2>1. Did(u, t, L, G) /\ t.res = r1
    <3> HIDE <1>10
    <3> QED  BY <2>0, AnswerFine
  <2> QED  BY <2>1, <1>9, <1>10, DidOn
<1>11. CASE u.res # "ok"
  BY <1>1, <1>9, <1>11 DEF CutAfter
<1>12. CASE u.res = "ok" /\ u.val \in Clusters
  <2>1. PICK c, p : c = u.val /\ p = g.clust
    OBVIOUS
  <2>2. t \in remove_chain(u, c, p)
    BY <2>1, <1>8, <1>9, <1>12 DEF CutAfter
  <2>3. /\ Placed(Tab(Seen(u)), G[n], r, m) /\ G[n].size <= SectorSize * m /\ p = G[n].clust
        /\ Tab(Seen(u))[p] = c /\ G[n].open /\ c \in Clusters
    BY <2>1, <1>1, <1>2, <1>6, <1>8, <1>12
  <2>4. Worked(u, t, L, G)
    BY <2>2, <2>3, <1>9, <1>12, CuttingChain
  <2>5. Did(u, t, L, G) /\ t.res \in Errs
    BY <2>4, DidWorked
  <2> QED  BY <2>5, <1>1, <1>9, DidOn
<1>13. CASE u.res = "ok" /\ u.val \notin Clusters
  <2>1. t = u \/ t = Answer(u, "int_err")
    BY <1>13 DEF CutAfter
  <2>2. CASE t = u
    BY <2>2, <1>1, <1>9
  <2>3. CASE t = Answer(u, "int_err")
    BY <2>3, <1>1, <1>10, <1>13 DEF Errs
  <2> QED  BY <2>1, <2>2, <2>3
<1> QED  BY <1>11, <1>12, <1>13

\* The shrunk file takes the place of the file, and is flushed.
ShrunkAt(s) == [s EXCEPT !.f.size = s.f.ptr, !.f.modified = TRUE]
\* The file has no cluster.
NoFirst(s) == [s EXCEPT !.f.first = 0]

\* The states f_truncate makes have such a file.
LEMMA ShrunkStates ==
    ASSUME NEW s, Base(s), NEW n, IsFile(s.f, n)
    PROVE  /\ ShrunkAt(s) = Having(s, Shrunk(s.f, s.f.first))
           /\ ShrunkAt(NoFirst(s)) = Having(s, Shrunk(s.f, 0))
<1>1. IsState(s) /\ Shaped(s.f)
  BY DEF Base, IsFile
<1>2. ShrunkAt(s) = Having(s, Shrunk(s.f, s.f.first))
  BY <1>1 DEF ShrunkAt, Having, Shrunk, IsState, Shaped
<1>3. ShrunkAt(NoFirst(s)) = Having(s, Shrunk(s.f, 0))
  BY <1>1 DEF ShrunkAt, NoFirst, Having, Shrunk, IsState, Shaped
<1> QED  BY <1>2, <1>3

\* The file becomes the one cut, and its buffer is flushed.
LEMMA Shrinking ==
    ASSUME NEW s, NEW L \in SUBSET Names, NEW F, IsFiles(F), NEW n \in Names,
           NEW g, IsFile(g, n), Fine(s, L, Put(F, n, g)), g.size = g.ptr, s.res \in Errs,
           NEW y, y = Having(s, g), NEW z \in (IF y.res = "ok" THEN FlushBuf(y) ELSE {y})
    PROVE  Went(y, z, L, F, n) /\ (z.res = "ok" => z.f.size = g.size)
<1>1. Base(s) /\ FileOK(Tab(Seen(s)), g)
  BY FileHeld
<1>2. y.f = g /\ y.res = s.res /\ Seen(y) = Seen(s)
  BY <1>1, HavingFacts
<1>3. Fine(y, L, Put(F, n, g))
  BY SetFile DEF Having
<1>4. Busy(y, L, F, n)
  BY <1>2, <1>3 DEF Busy
<1>5. Ended(y, L, F, n) /\ Torn(y, L, F, n)
  BY <1>1, <1>2, <1>4, BusyTorn DEF Ended, FileOK
<1>6. CASE y.res # "ok"
  BY <1>2, <1>5, <1>6 DEF Went
<1>7. CASE y.res = "ok"
  <2>1. /\ Torn(z, L, F, n) /\ z.res \in {"ok", "disk_err"} /\ Still(y, z) /\ z.f.sect = y.f.sect
    BY <1>5, <1>7, Flushing
  <2>2. Ended(z, L, F, n)
    BY <1>5, <2>1, Keeping
  <2>3. z.f.size = g.size /\ z.f.ptr = g.size /\ z.f.err = y.f.err /\ g.size \in Nat
    BY <1>1, <1>2, <2>1 DEF Still, FileOK
  <2> QED  BY <2>1, <2>2, <2>3 DEF Went, Ended, Errs
<1> QED  BY <1>6, <1>7

\* The ways through f_truncate that cut the file.
TruncateWays(s, t) ==
    \E x :
        /\ IF s.f.ptr = 0 THEN \E u \in remove_chain(s, s.f.first, 0) : x = NoFirst(u)
           ELSE \E u \in get_fat(s, s.f.clust) : CutAfter(u, x)
        /\ \E z \in (IF ShrunkAt(x).res = "ok" THEN FlushBuf(ShrunkAt(x)) ELSE {ShrunkAt(x)}) :
              t = IF z.res # "ok" THEN [z EXCEPT !.f.err = z.res] ELSE z

\* It goes one of them.
LEMMA TruncateInWays ==
    ASSUME NEW s, s.f.err = "ok", s.f.write, ~(s.f.size <= s.f.ptr), NEW t \in f_truncate(s)
    PROVE  TruncateWays(s, t)
<1> DEFINE Cut1(u) == CASE u.val = 1 -> Error(u, "int_err")
                        [] u.val # 1 /\ u.val < NFatEnt -> remove_chain(u, u.val, u.f.clust)
                        [] OTHER -> {u}
           C == IF s.f.ptr = 0 THEN {NoFirst(u) : u \in remove_chain(s, s.f.first, 0)}
                ELSE Then(get_fat(s, s.f.clust), Cut1)
<1>1. t \in Abort(Then({ShrunkAt(x) : x \in C}, FlushBuf))
  BY DEF f_truncate, ShrunkAt, NoFirst
<1>2. ASSUME NEW u, u.res = "ok", NEW x \in Cut1(u) PROVE CutAfter(u, x)
  <2>1. CASE u.val = 1
    <3>1. x = Answer(u, "int_err")
      BY <1>2, <2>1 DEF Error, Answer
    <3> QED  BY <3>1, <1>2, <2>1, ClustersFacts DEF CutAfter
  <2>2. CASE u.val # 1 /\ u.val < NFatEnt
    <3>1. x \in remove_chain(u, u.val, u.f.clust)
      BY <1>2, <2>2
    <3>2. u.val \notin Clusters => x = Answer(u, "int_err")
      BY <3>1 DEF remove_chain, Error, Answer
    <3> QED  BY <3>1, <3>2, <1>2 DEF CutAfter
  <2>3. CASE u.val # 1 /\ ~(u.val < NFatEnt)
    <3>1. x = u
      BY <1>2, <2>3
    <3>2. u.val \notin Clusters
      BY <2>3, VolumeAssumption DEF Clusters
    <3> QED  BY <3>1, <3>2, <1>2 DEF CutAfter
  <2> QED  BY <2>1, <2>2, <2>3
<1>3. ASSUME NEW x \in C
      PROVE  IF s.f.ptr = 0 THEN \E u \in remove_chain(s, s.f.first, 0) : x = NoFirst(u)
             ELSE \E u \in get_fat(s, s.f.clust) : CutAfter(u, x)
  <2>1. CASE s.f.ptr = 0
    BY <1>3, <2>1
  <2>2. CASE s.f.ptr # 0
    <3> HIDE DEF Cut1
    <3>1. PICK u \in get_fat(s, s.f.clust) : x \in IF u.res = "ok" THEN Cut1(u) ELSE {u}
      BY <1>3, <2>2 DEF Then
    <3>2. CutAfter(u, x)
      BY <3>1, <1>2 DEF CutAfter
    <3> QED  BY <3>1, <3>2, <2>2
  <2> QED  BY <2>1, <2>2
<1> HIDE DEF C
<1>4. PICK z \in Then({ShrunkAt(x) : x \in C}, FlushBuf) :
         t = IF z.res # "ok" THEN [z EXCEPT !.f.err = z.res] ELSE z
  BY <1>1 DEF Abort
<1>5. PICK x \in C : z \in (IF ShrunkAt(x).res = "ok" THEN FlushBuf(ShrunkAt(x)) ELSE {ShrunkAt(x)})
  BY <1>4 DEF Then
<1> QED  BY <1>3, <1>4, <1>5 DEF TruncateWays

\* f_truncate: after it the entry of the file is not to be relied on.
LEMMA FileTruncating ==
    ASSUME NEW s, NEW L \in SUBSET Names, NEW F, IsFiles(F), NEW n \in Names, Ended(s, L, F, n),
           s.res = "ok", NEW t \in f_truncate(s)
    PROVE  /\ Ended(t, L \ {n}, F, n)
           /\ t.res = "denied" \/ (t.res = "ok" /\ t.f.size = s.f.size) => Ended(t, L, F, n)
<1>1. PICK M : M = L \ {n}
  OBVIOUS
<1>2. M \in SUBSET L /\ M \in SUBSET Names /\ n \notin M
  BY <1>1
<1>3. \A u : Ended(u, L, F, n) => Ended(u, M, F, n)
  BY <1>2, EndedLess
<1>4. CASE s.f.err # "ok" \/ ~s.f.write
  <2>1. PICK r : t = Answer(s, r)
    BY <1>4 DEF f_truncate, Error, Answer
  <2>2. Ended(t, L, F, n)
    BY <2>1, EndedAnswer
  <2> QED  BY <2>2, <1>1, <1>3
<1>5. CASE s.f.err = "ok" /\ s.f.write /\ s.f.size <= s.f.ptr
  <2>1. t = s
    BY <1>5 DEF f_truncate
  <2> QED  BY <2>1, <1>1, <1>3
<1>6. CASE s.f.err = "ok" /\ s.f.write /\ ~(s.f.size <= s.f.ptr)
  <2>1. PICK x :
           /\ IF s.f.ptr = 0 THEN \E u \in remove_chain(s, s.f.first, 0) : x = NoFirst(u)
              ELSE \E u \in get_fat(s, s.f.clust) : CutAfter(u, x)
           /\ \E z \in (IF ShrunkAt(x).res = "ok" THEN FlushBuf(ShrunkAt(x)) ELSE {ShrunkAt(x)}) :
                 t = IF z.res # "ok" THEN [z EXCEPT !.f.err = z.res] ELSE z
    BY <1>6, TruncateInWays DEF TruncateWays
  <2>2. /\ Ended(s, M, F, n) /\ Busy(s, M, F, n) /\ IsFile(s.f, n) /\ s.f.ptr \in Nat /\ s.f.size \in Nat
        /\ Base(s) /\ (s.f.dirty => s.f.sect \in Clusters)
    <3>1. Ended(s, M, F, n) /\ Busy(s, M, F, n)
      BY <1>2, <1>3 DEF Ended
    <3>2. Torn(s, M, F, n)
      BY <1>2, <3>1, BusyTorn
    <3>3. s.f.ptr \in Nat /\ s.f.size \in Nat /\ Base(s) /\ (s.f.dirty => s.f.sect \in Clusters)
      BY <1>2, <3>2, TornFacts
    <3> QED  BY <3>1, <3>3 DEF Busy
  <2>3. PICK h : h = IF s.f.ptr = 0 THEN 0 ELSE s.f.first
    OBVIOUS
  <2>4. PICK g : g = Shrunk(s.f, h)
    OBVIOUS
  <2>5. /\ IsFile(g, n) /\ g.first = h /\ g.size = s.f.ptr /\ g.ptr = s.f.ptr /\ g.err = s.f.err
        /\ g.clust = s.f.clust /\ g.sect = s.f.sect /\ g.dirty = s.f.dirty
    BY <2>2, <2>4, ShrunkFacts
  <2>6. PICK G : G = Put(F, n, g)
    OBVIOUS
  <2>7. PICK w : Did(s, w, M, G) /\ w.res \in Errs /\ ShrunkAt(x) = Having(w, g)
    <3>1. CASE s.f.ptr = 0
      <4>1. PICK w \in remove_chain(s, s.f.first, 0) : x = NoFirst(w)
        BY <2>1, <3>1
      <4>2. Worked(s, w, M, G)
        <5>1. g.first = 0 /\ g.size = 0 /\ g.ptr = 0
          BY <2>3, <2>5, <3>1
        <5> QED  BY <5>1, <4>1, <1>2, <2>2, <2>5, <2>6, <3>1, FreeingAll
      <4>3. Did(s, w, M, G) /\ w.res \in Errs
        BY <4>2, DidWorked
      <4>4. Base(w) /\ w.f = s.f /\ IsFile(w.f, n)
        BY <4>3, <2>2 DEF Did, Fine, Safe
      <4>5. ShrunkAt(NoFirst(w)) = Having(w, Shrunk(w.f, 0))
        BY <4>4, ShrunkStates
      <4> QED  BY <4>1, <4>3, <4>4, <4>5, <2>3, <2>4, <3>1
    <3>2. CASE s.f.ptr # 0
      <4>1. PICK u \in get_fat(s, s.f.clust) : CutAfter(u, x)
        BY <2>1, <3>2
      <4>2. Did(s, x, M, G) /\ x.res \in Errs
        <5>1. g.first = s.f.first /\ s.f.ptr > 0
          BY <2>2, <2>3, <2>5, <3>2
        <5>2. Did(s, x, M, Put(F, n, g)) /\ x.res \in Errs
          BY <5>1, <4>1, <1>2, <1>6, <2>2, <2>5, FreeingRest
        <5> QED  BY <5>2, <2>6
      <4>3. Base(x) /\ x.f = s.f /\ IsFile(x.f, n)
        BY <4>2, <2>2 DEF Did, Fine, Safe
      <4>4. ShrunkAt(x) = Having(x, Shrunk(x.f, x.f.first))
        BY <4>3, ShrunkStates
      <4>5. ShrunkAt(x) = Having(x, g)
        BY <4>3, <4>4, <2>3, <2>4, <3>2
      <4> QED  BY <4>2, <4>5
    <3> QED  BY <3>1, <3>2
  <2>8. PICK y : y = ShrunkAt(x)
    OBVIOUS
  <2>9. PICK z \in (IF y.res = "ok" THEN FlushBuf(y) ELSE {y}) :
           t = IF z.res # "ok" THEN [z EXCEPT !.f.err = z.res] ELSE z
    BY <2>1, <2>8
  <2>10. Went(y, z, M, F, n) /\ (z.res = "ok" => z.f.size = g.size)
    <3>1. Fine(w, M, Put(F, n, g)) /\ y = Having(w, g) /\ g.size = g.ptr
      BY <2>5, <2>6, <2>7, <2>8 DEF Did
    <3> QED  BY <3>1, <1>2, <2>5, <2>7, <2>9, Shrinking
  <2>11. PICK Z : z \in Z
    <3>1. z \in {z}
      OBVIOUS
    <3> QED  BY <3>1
  <2>12. Ended(t, M, F, n) /\ t.res = z.res /\ (t.res = "ok" => t = z)
    BY <1>2, <2>9, <2>10, <2>11, Aborting
  <2>13. t.res # "denied" /\ ~(t.res = "ok" /\ t.f.size = s.f.size)
    <3>1. z.res \in Errs
      BY <2>10 DEF Went
    <3>2. t.res = "ok" => t.f.size = s.f.ptr
      BY <2>5, <2>10, <2>12
    <3> QED  BY <3>1, <3>2, <2>2, <2>12, <1>6 DEF Errs
  <2> QED  BY <1>1, <2>12, <2>13
<1> QED  BY <1>4, <1>5, <1>6

-----------------------------------------------------------------------------
\* Calls.

\* What the callers know of a name.
IsBook(b) ==
    \A n \in Names :
        b[n] = [kind |-> b[n].kind, text |-> b[n].text, settled |-> b[n].settled,
                lost |-> b[n].lost, cut |-> b[n].cut]

\* The names whose entries are to be relied on.
Uncut(b) == {n \in Names : ~b[n].cut}

\* Every open file is one, and its position within it unless it has failed.
FilesOK(F) ==
    \A n \in Names : F[n].open => IsFile(F[n], n) /\ (F[n].err = "ok" => F[n].ptr <= F[n].size)

\* Between two calls: the volume as the driver sees it is sound, with the
\* files that are open; so is the disk, and what it was in the last call.
Well(v, F, b, cut) ==
    /\ Base(v) /\ FreeOK(v) /\ v.res = "ok"
    /\ IsFiles(F) /\ FilesOK(F)
    /\ b = [n \in Names |-> b[n]] /\ IsBook(b)
    /\ Sound(Tab(v.disk), v.disk[Dir], Uncut(b), NoFiles)
    /\ Sound(Tab(Seen(v)), Seen(v)[Dir], Uncut(b), F)
    /\ \A x \in v.media : Sound(Tab(x), x[Dir], Names \ cut, NoFiles)

\* The state a call on file f begins in, and one on no file.
Alone(v, f) == [v EXCEPT !.media = {v.disk}, !.f = f]
Alone0(v) == [v EXCEPT !.media = {v.disk}]

\* A call begins.
LEMMA CallBegins ==
    ASSUME NEW v, NEW F, NEW b, NEW cut, Well(v, F, b, cut), NEW f, NEW s, s = Alone(v, f)
    PROVE  /\ Fine(s, Uncut(b), F) /\ s.f = f /\ s.res = "ok" /\ Seen(s) = Seen(v)
           /\ Uncut(b) \in SUBSET Names
<1>1. IsState(v)
  BY DEF Well, Base
<1>2. /\ IsState(s) /\ s.disk = v.disk /\ s.win = v.win /\ s.wsect = v.wsect /\ s.dirty = v.dirty
      /\ s.media = {v.disk} /\ s.res = v.res /\ s.f = f /\ s.free = v.free /\ s.last = v.last
      /\ s.sure = v.sure
  BY <1>1 DEF Alone, IsState
<1>3. Seen(s) = Seen(v)
  BY <1>2 DEF Seen
<1>4. Base(s)
  BY <1>2, <1>3 DEF Base, Well
<1>5. FreeOK(s)
  BY <1>2, <1>3 DEF FreeOK, Well
<1>6. Safe(s, Uncut(b), F)
  BY <1>2, <1>3, <1>4 DEF Safe, Well
<1> QED  BY <1>2, <1>3, <1>5, <1>6 DEF Fine, Well, Uncut

\* A call on no file begins.
LEMMA CallBegins0 ==
    ASSUME NEW v, NEW F, NEW b, NEW cut, Well(v, F, b, cut), NEW s, s = Alone0(v)
    PROVE  Fine(s, Uncut(b), F) /\ s.res = "ok" /\ Seen(s) = Seen(v) /\ Uncut(b) \in SUBSET Names
<1>1. IsState(v)
  BY DEF Well, Base
<1>2. s = Alone(v, v.f)
  BY <1>1 DEF Alone, Alone0, IsState
<1> QED  BY <1>2, CallBegins

\* A call on an open file begins.
LEMMA FileCallBegins ==
    ASSUME NEW v, NEW F, NEW b, NEW cut, Well(v, F, b, cut), NEW n \in Names,
           NEW s, s = Alone(v, F[n])
    PROVE  F[n].open => Ended(s, Uncut(b), F, n)
<1> SUFFICES ASSUME F[n].open PROVE Ended(s, Uncut(b), F, n)
  OBVIOUS
<1>1. Fine(s, Uncut(b), F) /\ s.f = F[n]
  BY CallBegins
<1>2. Put(F, n, F[n]) = F
  BY DEF Well, IsFiles, Put
<1>3. IsFile(F[n], n) /\ (F[n].err = "ok" => F[n].ptr <= F[n].size)
  BY DEF Well, FilesOK
<1> QED  BY <1>1, <1>2, <1>3 DEF Ended, Busy

\* And ends: the state that is kept.
LEMMA AfterFacts ==
    ASSUME NEW t, NEW M, NEW F, Fine(t, M, F), NEW v, v = After(t)
    PROVE  /\ Base(v) /\ FreeOK(v) /\ v.res = "ok" /\ Seen(v) = Seen(t)
           /\ v.disk = t.disk /\ v.media = t.media /\ v.free = t.free /\ (v.sure => t.sure)
<1>1. IsState(t)
  BY DEF Fine, Safe, Base
<1>2. /\ IsState(v) /\ v.disk = t.disk /\ v.win = t.win /\ v.wsect = t.wsect /\ v.dirty = t.dirty
      /\ v.media = t.media /\ v.res = "ok" /\ v.free = t.free /\ v.last = t.last
      /\ v.sure = (t.sure /\ t.res # "disk_err")
  BY <1>1 DEF After, IsState
<1>3. Seen(v) = Seen(t)
  BY <1>2 DEF Seen
<1>4. Base(v)
  BY <1>2, <1>3 DEF Base, Fine, Safe
<1>5. FreeOK(v)
  BY <1>2, <1>3 DEF FreeOK, Fine
<1> QED  BY <1>2, <1>3, <1>4, <1>5

\* A call ends: the files, and the names whose entries are to be relied on then.
LEMMA CallEnds ==
    ASSUME NEW t, NEW M \in SUBSET Names, NEW G, Fine(t, M, G), IsFiles(G), FilesOK(G),
           NEW c, c = [n \in Names |-> c[n]], IsBook(c), NEW cut, Names \ cut \subseteq M,
           \/ Uncut(c) \subseteq M
           \/ /\ Sound(Tab(t.disk), t.disk[Dir], Uncut(c), NoFiles)
              /\ Sound(Tab(Seen(t)), Seen(t)[Dir], Uncut(c), G),
           NEW v, v = After(t)
    PROVE  Well(v, G, c, cut)
<1>1. /\ Base(v) /\ FreeOK(v) /\ v.res = "ok" /\ Seen(v) = Seen(t)
      /\ v.disk = t.disk /\ v.media = t.media
  BY AfterFacts
<1>2. /\ t.disk \in t.media
      /\ \A x \in t.media : Sound(Tab(x), x[Dir], M, NoFiles)
      /\ Sound(Tab(Seen(t)), Seen(t)[Dir], M, G)
  BY DEF Fine, Safe, Base
<1>3. \A x \in t.media : Sound(Tab(x), x[Dir], Names \ cut, NoFiles)
  BY <1>2, NoFilesOpen, SoundLess
<1>4. /\ Sound(Tab(t.disk), t.disk[Dir], Uncut(c), NoFiles)
      /\ Sound(Tab(Seen(t)), Seen(t)[Dir], Uncut(c), G)
  BY <1>2, NoFilesOpen, SoundLess
<1> QED  BY <1>1, <1>3, <1>4 DEF Well

\* The files once a call on one of them is over, and once it is closed.
LEMMA FileKeptOK ==
    ASSUME NEW t, NEW M \in SUBSET Names, NEW F, IsFiles(F), FilesOK(F), NEW n \in Names,
           Ended(t, M, F, n), NEW G, G = Put(F, n, t.f)
    PROVE  Fine(t, M, G) /\ IsFiles(G) /\ FilesOK(G)
<1>1. IsFiles(G) /\ G[n] = t.f /\ \A m \in Names : m # n => G[m] = F[m]
  BY PutFile
<1>2. Fine(t, M, G) /\ IsFile(t.f, n) /\ (t.f.err = "ok" => t.f.ptr <= t.f.size)
  BY DEF Ended, Busy
<1> QED  BY <1>1, <1>2 DEF FilesOK

\* The file is let go of.
Closing(t) == [t EXCEPT !.f = Closed]

\* The file is closed.
LEMMA FileClosedOK ==
    ASSUME NEW t, NEW M \in SUBSET Names, NEW F, IsFiles(F), FilesOK(F), NEW n \in Names, NEW f,
           Fine(t, M, Put(F, n, f)), NEW G, G = Put(F, n, Closed), NEW w, w = Closing(t)
    PROVE  /\ Fine(w, M, G) /\ IsFiles(G) /\ FilesOK(G) /\ w.f = Closed /\ w.res = t.res
           /\ Seen(w) = Seen(t) /\ w.disk = t.disk
           /\ \A T, E : \A L \in SUBSET Names : Sound(T, E, L, Put(F, n, f)) => Sound(T, E, L, G)
<1>1. IsFiles(G) /\ G[n] = Closed /\ (\A m \in Names : m # n => G[m] = F[m]) /\ ~Closed.open
  BY PutFile DEF Closed
<1>2. FilesOK(G)
  BY <1>1 DEF FilesOK
<1>3. PICK A : A = Put(F, n, f)
  OBVIOUS
<1>4. \A m \in Names : G[m].open => A[m].open /\ G[m] = A[m]
  BY <1>1, <1>3, PutFile
<1>5. \A T, E : \A L \in SUBSET Names : Sound(T, E, L, A) => Sound(T, E, L, G)
  BY <1>4, SoundLess
<1>6. Sound(Tab(Seen(t)), Seen(t)[Dir], M, A)
  BY <1>3 DEF Fine, Safe
<1>7. Fine(t, M, A) /\ Sound(Tab(Seen(t)), Seen(t)[Dir], M, G)
  BY <1>3, <1>5, <1>6
<1>8. Fine(t, M, G)
  BY <1>7, FineWith
<1>9. Fine(w, M, G) /\ w.f = Closed /\ w.res = t.res /\ Seen(w) = Seen(t) /\ w.disk = t.disk
  BY <1>8, SetFile DEF Closing
<1> QED  BY <1>1, <1>2, <1>3, <1>5, <1>9

\* A note has the fields of one.
IsNote(e) ==
    e = [kind |-> e.kind, text |-> e.text, settled |-> e.settled, lost |-> e.lost, cut |-> e.cut]

\* A note in the place of another.
LEMMA BookPut ==
    ASSUME NEW b, b = [n \in Names |-> b[n]], IsBook(b), NEW n \in Names, NEW e, IsNote(e),
           NEW c, c = Put(b, n, e)
    PROVE  /\ c = [m \in Names |-> c[m]] /\ IsBook(c)
           /\ Uncut(c) \subseteq Uncut(b) \union {n} /\ Uncut(b) \ {n} \subseteq Uncut(c)
           /\ n \in Uncut(c) <=> ~e.cut
           /\ n \in Uncut(b) <=> ~b[n].cut
<1>1. c = [m \in Names |-> c[m]] /\ c[n] = e /\ \A m \in Names : m # n => c[m] = b[m]
  BY DEF Put
<1>2. IsBook(c)
  BY <1>1 DEF IsBook, IsNote
<1> QED  BY <1>1, <1>2 DEF Uncut

\* What is known of a name is a note.
LEMMA NoteFacts ==
    ASSUME NEW b, IsBook(b), NEW n \in Names
    PROVE  /\ IsNote(b[n]) /\ IsNote(NoFile) /\ ~NoFile.cut
           /\ IsNote(Unsure(b[n])) /\ (Unsure(b[n]).cut <=> b[n].cut)
<1>1. IsNote(b[n])
  BY DEF IsBook, IsNote
<1>2. IsNote(NoFile) /\ ~NoFile.cut
  BY DEF IsNote, NoFile
<1>3. IsNote(Unsure(b[n])) /\ Unsure(b[n]).cut = b[n].cut
  <2>1. PICK x, y : x = b[n] /\ y = Unsure(x)
    OBVIOUS
  <2>2. y = [kind |-> "unknown", text |-> <<>>, settled |-> FALSE, lost |-> x.lost, cut |-> x.cut]
    BY <1>1, <2>1 DEF IsNote, Unsure
  <2>3. IsNote(y) /\ y.cut = x.cut
    BY <2>2 DEF IsNote
  <2> QED  BY <2>1, <2>3
<1> QED  BY <1>1, <1>2, <1>3

\* A call ends with a new note: what was cut before or after it is left out.
LEMMA NotesEnd ==
    ASSUME NEW b, NEW t, NEW M \in SUBSET Names, NEW G, Fine(t, M, G), IsFiles(G), FilesOK(G),
           NEW c, c = [n \in Names |-> c[n]], IsBook(c),
           NEW cut, cut = {m \in Names : b[m].cut} \union {m \in Names : c[m].cut},
           Uncut(b) \intersect Uncut(c) \subseteq M,
           \/ Uncut(c) \subseteq M
           \/ /\ Sound(Tab(t.disk), t.disk[Dir], Uncut(c), NoFiles)
              /\ Sound(Tab(Seen(t)), Seen(t)[Dir], Uncut(c), G),
           NEW v, v = After(t)
    PROVE  Well(v, G, c, cut)
<1>1. Names \ cut \subseteq M
  BY DEF Uncut
<1> QED  BY <1>1, CallEnds

\* A call that leaves what is known of the cuts as it was.
Uncutting(b, n, e) == e.cut <=> b[n].cut

\* A call that leaves the cut of its file as it was ends in the invariant.
LEMMA EndingSame ==
    ASSUME NEW b, b = [m \in Names |-> b[m]], IsBook(b), NEW n \in Names, NEW e, IsNote(e), Uncutting(b, n, e),
           NEW t, NEW G, Fine(t, Uncut(b), G), IsFiles(G), FilesOK(G),
           NEW c, c = Put(b, n, e),
           NEW cut, cut = {m \in Names : b[m].cut} \union {m \in Names : c[m].cut},
           NEW v, v = After(t)
    PROVE  Well(v, G, c, cut)
<1>0. /\ c = [m \in Names |-> c[m]] /\ IsBook(c)
      /\ Uncut(c) \subseteq Uncut(b) \union {n} /\ Uncut(b) \ {n} \subseteq Uncut(c)
      /\ n \in Uncut(c) <=> ~e.cut
      /\ n \in Uncut(b) <=> ~b[n].cut
  BY BookPut
<1>1. Uncut(c) = Uncut(b)
  <2>1. n \in Uncut(c) <=> n \in Uncut(b)
    BY <1>0 DEF Uncutting
  <2>2. \A m : m # n => (m \in Uncut(c) <=> m \in Uncut(b))
    BY <1>0
  <2> HIDE <1>0
  <2> QED  BY <2>1, <2>2
<1>2. Uncut(b) \in SUBSET Names /\ Uncut(c) \subseteq Uncut(b) /\ Uncut(b) \intersect Uncut(c) \subseteq Uncut(b)
  BY <1>1 DEF Uncut
<1> QED  BY <1>0, <1>2, NotesEnd

\* A call that stored the entry of a file that had been cut, or may have been.
StoresEntry(b, n, e) == ~e.cut

\* A call that stored the entry of its file ends in the invariant, whether or
\* not the file had been cut.
LEMMA EndingStored ==
    ASSUME NEW b, b = [m \in Names |-> b[m]], IsBook(b), NEW n \in Names, NEW e, IsNote(e), StoresEntry(b, n, e),
           NEW t, NEW G, Fine(t, Uncut(b), G), IsFiles(G), FilesOK(G),
           Sound(Tab(t.disk), t.disk[Dir], Uncut(b) \union {n}, NoFiles),
           Sound(Tab(Seen(t)), Seen(t)[Dir], Uncut(b) \union {n}, G),
           NEW c, c = Put(b, n, e),
           NEW cut, cut = {m \in Names : b[m].cut} \union {m \in Names : c[m].cut},
           NEW v, v = After(t)
    PROVE  Well(v, G, c, cut)
<1>0. /\ c = [m \in Names |-> c[m]] /\ IsBook(c)
      /\ Uncut(c) \subseteq Uncut(b) \union {n} /\ Uncut(b) \ {n} \subseteq Uncut(c)
      /\ n \in Uncut(c) <=> ~e.cut
      /\ n \in Uncut(b) <=> ~b[n].cut
  BY BookPut, SMTT(60)
<1>1. Uncut(c) = Uncut(b) \union {n}
  <2>1. n \in Uncut(c)
    BY <1>0 DEF StoresEntry
  <2>2. \A m : m # n => (m \in Uncut(c) <=> m \in Uncut(b))
    BY <1>0
  <2> HIDE <1>0
  <2> QED  BY <2>1, <2>2
<1>2. PICK M, N : M = Uncut(b) /\ N = Uncut(c)
  OBVIOUS
<1>3. M \in SUBSET Names /\ M \intersect N \subseteq M
  BY <1>2 DEF Uncut
<1>4. /\ Sound(Tab(t.disk), t.disk[Dir], N, NoFiles) /\ Sound(Tab(Seen(t)), Seen(t)[Dir], N, G)
      /\ Fine(t, M, G)
  BY <1>1, <1>2
<1> QED  BY <1>0, <1>2, <1>3, <1>4, NotesEnd

\* A call that cut a file.
CutsFile(e) == e.cut

\* A call that cut its file ends in the invariant: the file is left out.
LEMMA EndingCut ==
    ASSUME NEW b, b = [m \in Names |-> b[m]], IsBook(b), NEW n \in Names, NEW e, IsNote(e), CutsFile(e),
           NEW t, NEW G, Fine(t, Uncut(b) \ {n}, G), IsFiles(G), FilesOK(G),
           NEW c, c = Put(b, n, e),
           NEW cut, cut = {m \in Names : b[m].cut} \union {m \in Names : c[m].cut},
           NEW v, v = After(t)
    PROVE  Well(v, G, c, cut)
<1>0. /\ c = [m \in Names |-> c[m]] /\ IsBook(c)
      /\ Uncut(c) \subseteq Uncut(b) \union {n} /\ Uncut(b) \ {n} \subseteq Uncut(c)
      /\ n \in Uncut(c) <=> ~e.cut
      /\ n \in Uncut(b) <=> ~b[n].cut
  BY BookPut
<1>1. Uncut(c) = Uncut(b) \ {n}
  <2>1. n \notin Uncut(c)
    BY <1>0 DEF CutsFile
  <2>2. \A m : m # n => (m \in Uncut(c) <=> m \in Uncut(b))
    BY <1>0
  <2> HIDE <1>0
  <2> QED  BY <2>1, <2>2
<1>2. PICK M : M = Uncut(b) \ {n}
  OBVIOUS
<1>3. M \in SUBSET Names /\ Uncut(b) \intersect Uncut(c) \subseteq M /\ Uncut(c) \subseteq M
  BY <1>1, <1>2 DEF Uncut
<1>4. Fine(t, M, G)
  BY <1>2
<1> QED  BY <1>0, <1>3, <1>4, NotesEnd

-----------------------------------------------------------------------------
\* The inductive invariant.
Inv == Well(vol, files, book, Cut) /\ calls \in Nat

\* What the last step of a call says of all this.
LEMMA Finishes ==
    ASSUME Inv, NEW n \in Names, NEW t, NEW e, NEW l, Finish(n, t, e, l),
           l.cut = {m \in Names : book[m].cut}
    PROVE  /\ book = [m \in Names |-> book[m]] /\ IsBook(book) /\ IsFiles(files) /\ FilesOK(files)
           /\ vol' = After(t) /\ files' = Put(files, n, t.f) /\ book' = Put(book, n, e)
           /\ Cut' = {m \in Names : book[m].cut} \union {m \in Names : book'[m].cut}
           /\ calls' \in Nat
<1>1. /\ book = [m \in Names |-> book[m]] /\ IsBook(book) /\ IsFiles(files) /\ FilesOK(files) /\ calls \in Nat
  BY DEF Inv, Well
<1>2. vol' = After(t) /\ files' = Put(files, n, t.f) /\ book' = Put(book, n, e) /\ calls' = calls + 1 /\ last' = l
  BY DEF Finish, Put
<1>3. Cut' = {m \in Names : book[m].cut} \union {m \in Names : book'[m].cut}
  BY <1>2 DEF Cut
<1> QED  BY <1>1, <1>2, <1>3

\* What the record of a call says.
LEMMA QuietCut ==
    ASSUME NEW op, NEW names
    PROVE  /\ Quiet(op, names).cut = {m \in Names : book[m].cut} /\ Quiet(op, names).op = op
           /\ \A x : [Quiet(op, names) EXCEPT !.stray = x].cut = {m \in Names : book[m].cut}
           /\ \A x : [Quiet(op, names) EXCEPT !.stray = x].op = op
BY DEF Quiet

\* The same, when the note of the cut stays.
LEMMA FinishSame ==
    ASSUME Inv, NEW n \in Names, NEW t, NEW e, NEW l, Finish(n, t, e, l),
           l.cut = {m \in Names : book[m].cut}, IsNote(e), Uncutting(book, n, e),
           Fine(t, Uncut(book), Put(files, n, t.f)), FilesOK(Put(files, n, t.f))
    PROVE  Inv'
<1>1. /\ book = [m \in Names |-> book[m]] /\ IsBook(book) /\ IsFiles(files)
      /\ vol' = After(t) /\ files' = Put(files, n, t.f) /\ book' = Put(book, n, e)
      /\ Cut' = {m \in Names : book[m].cut} \union {m \in Names : book'[m].cut}
      /\ calls' \in Nat
  BY Finishes
<1>2. PICK G, c, cut, v : G = files' /\ c = book' /\ cut = Cut' /\ v = vol'
  OBVIOUS
<1>3. IsFiles(G)
  BY <1>1, <1>2, PutFile
<1>4. Well(v, G, c, cut)
  BY <1>1, <1>2, <1>3, EndingSame
<1> QED  BY <1>1, <1>2, <1>4 DEF Inv

\* A call on an open file that leaves the note of the cut.
LEMMA EndedFinish ==
    ASSUME Inv, NEW n \in Names, NEW t, Ended(t, Uncut(book), files, n), NEW e, NEW l, Finish(n, t, e, l),
           l.cut = {m \in Names : book[m].cut}, IsNote(e), Uncutting(book, n, e)
    PROVE  Inv'
<1>1. IsFiles(files) /\ FilesOK(files) /\ Uncut(book) \in SUBSET Names
  BY DEF Inv, Well, Uncut
<1>2. Fine(t, Uncut(book), Put(files, n, t.f)) /\ FilesOK(Put(files, n, t.f))
  BY <1>1, FileKeptOK
<1> QED  BY <1>2, FinishSame

\* A call on an open file begins with the file as it was kept.
LEMMA Begun ==
    ASSUME Inv, NEW n \in Names, NEW s, s = Before(n)
    PROVE  /\ s.res = "ok" /\ s.f = files[n] /\ Uncut(book) \in SUBSET Names /\ IsFiles(files)
           /\ IsBook(book) /\ IsNote(book[n]) /\ Fine(s, Uncut(book), files)
           /\ files[n].open => Ended(s, Uncut(book), files, n)
<1>1. Well(vol, files, book, Cut) /\ s = Alone(vol, files[n])
  BY DEF Inv, Before, Alone
<1>2. /\ Fine(s, Uncut(book), files) /\ s.f = files[n] /\ s.res = "ok"
      /\ Uncut(book) \in SUBSET Names
  BY <1>1, CallBegins
<1>3. files[n].open => Ended(s, Uncut(book), files, n)
  BY <1>1, FileCallBegins
<1>4. IsFiles(files) /\ IsBook(book)
  BY <1>1 DEF Well
<1>5. IsNote(book[n])
  BY <1>4 DEF IsBook, IsNote
<1> QED  BY <1>2, <1>3, <1>4, <1>5

\* Read keeps the invariant.
LEMMA InvRead ==
    ASSUME Inv, NEW n \in Names, NEW len \in Lengths, Read(n, len)
    PROVE  Inv'
<1>1. PICK t, l : /\ t \in f_read(Before(n), len) /\ Finish(n, t, book[n], l) /\ files[n].open
                  /\ l.cut = {m \in Names : book[m].cut}
  <2>1. PICK t \in f_read(Before(n), len) :
           /\ files[n].open
           /\ \E g, w : \/ Finish(n, t, book[n], [Quiet("read", {n}) EXCEPT !.got = g, !.want = w])
                        \/ Finish(n, t, book[n], Quiet("read", {n}))
    BY DEF Read
  <2>2. PICK g, w : \/ Finish(n, t, book[n], [Quiet("read", {n}) EXCEPT !.got = g, !.want = w])
                    \/ Finish(n, t, book[n], Quiet("read", {n}))
    BY <2>1
  <2>3. [Quiet("read", {n}) EXCEPT !.got = g, !.want = w].cut = {m \in Names : book[m].cut}
    BY DEF Quiet
  <2> QED  BY <2>1, <2>2, <2>3, QuietCut
<1>2. PICK s : s = Before(n)
  OBVIOUS
<1>3. /\ s.res = "ok" /\ Uncut(book) \in SUBSET Names /\ IsFiles(files) /\ IsNote(book[n])
      /\ Ended(s, Uncut(book), files, n)
  BY <1>1, <1>2, Begun
<1>4. len \in Nat
  BY CallsAssumption
<1>5. Ended(t, Uncut(book), files, n)
  BY <1>1, <1>2, <1>3, <1>4, FileReading
<1>6. Uncutting(book, n, book[n])
  BY DEF Uncutting
<1> QED  BY <1>1, <1>3, <1>5, <1>6, EndedFinish

\* Seek keeps the invariant.
LEMMA InvSeek ==
    ASSUME Inv, NEW n \in Names, NEW ofs \in Offsets, Seek(n, ofs)
    PROVE  Inv'
<1>1. PICK t, e :
         /\ t \in f_lseek(Before(n), ofs)
         /\ Finish(n, t, e, Quiet("seek", {n})) /\ files[n].open
         /\ \/ \E x, y : e = [book[n] EXCEPT !.text = x, !.settled = y]
            \/ e = Unsure(book[n])
            \/ e = book[n]
  <2> DEFINE Note(t, x) == CASE t.res = "ok" /\ t.f.size > files[n].size ->
                                    [book[n] EXCEPT !.text = x, !.settled = FALSE]
                             [] t.res # "ok" /\ files[n].write -> Unsure(book[n])
                             [] OTHER -> book[n]
  <2>1. PICK t, x : /\ t \in f_lseek(Before(n), ofs)
                   /\ Finish(n, t, Note(t, x), Quiet("seek", {n})) /\ files[n].open
    BY Zenon DEF Seek
  <2>2. PICK e : e = Note(t, x)
    OBVIOUS
  <2>3. \/ \E z, y : e = [book[n] EXCEPT !.text = z, !.settled = y]
        \/ e = Unsure(book[n])
        \/ e = book[n]
    BY <2>2
  <2> HIDE DEF Note
  <2> QED  BY <2>1, <2>2, <2>3
<1>2. PICK s : s = Before(n)
  OBVIOUS
<1>3. /\ s.res = "ok" /\ Uncut(book) \in SUBSET Names /\ IsFiles(files) /\ IsNote(book[n])
      /\ IsBook(book) /\ Ended(s, Uncut(book), files, n)
  BY <1>1, <1>2, Begun
<1>4. ofs \in Nat
  BY CallsAssumption
<1>5. Ended(t, Uncut(book), files, n)
  BY <1>1, <1>2, <1>3, <1>4, FileSeeking
<1>6. IsNote(e) /\ Uncutting(book, n, e)
  <2>1. ASSUME NEW x, NEW y, e = [book[n] EXCEPT !.text = x, !.settled = y]
        PROVE  IsNote(e) /\ e.cut = book[n].cut
    <3>1. PICK b : b = book[n]
      OBVIOUS
    <3>2. e = [kind |-> b.kind, text |-> x, settled |-> y, lost |-> b.lost, cut |-> b.cut]
      BY <1>3, <2>1, <3>1 DEF IsNote
    <3> QED  BY <3>1, <3>2 DEF IsNote
  <2>2. IsNote(Unsure(book[n])) /\ (Unsure(book[n]).cut <=> book[n].cut)
    BY <1>3, NoteFacts
  <2>3. CASE \E x, y : e = [book[n] EXCEPT !.text = x, !.settled = y]
    BY <2>1, <2>3 DEF Uncutting
  <2>4. CASE e = Unsure(book[n])
    BY <2>2, <2>4 DEF Uncutting
  <2>5. CASE e = book[n]
    BY <1>3, <2>5 DEF Uncutting
  <2> QED  BY <1>1, <2>3, <2>4, <2>5
<1> QED  BY <1>1, <1>5, <1>6, QuietCut, EndedFinish

\* The files once a file's entry is stored.
LEMMA StoredFinish ==
    ASSUME Inv, NEW n \in Names, NEW t, NEW e, NEW l, Finish(n, t, e, l),
           l.cut = {m \in Names : book[m].cut}, IsNote(e), StoresEntry(book, n, e),
           Fine(t, Uncut(book), Put(files, n, t.f)), FilesOK(Put(files, n, t.f)),
           Sound(Tab(t.disk), t.disk[Dir], Uncut(book) \union {n}, NoFiles),
           Sound(Tab(Seen(t)), Seen(t)[Dir], Uncut(book) \union {n}, Put(files, n, t.f))
    PROVE  Inv'
<1>1. /\ book = [m \in Names |-> book[m]] /\ IsBook(book) /\ IsFiles(files)
      /\ vol' = After(t) /\ files' = Put(files, n, t.f) /\ book' = Put(book, n, e)
      /\ Cut' = {m \in Names : book[m].cut} \union {m \in Names : book'[m].cut}
      /\ calls' \in Nat
  BY Finishes
<1>2. PICK G, c, cut, v : G = files' /\ c = book' /\ cut = Cut' /\ v = vol'
  OBVIOUS
<1>3. IsFiles(G)
  BY <1>1, <1>2, PutFile
<1>4. /\ Fine(t, Uncut(book), G) /\ FilesOK(G)
      /\ Sound(Tab(t.disk), t.disk[Dir], Uncut(book) \union {n}, NoFiles)
      /\ Sound(Tab(Seen(t)), Seen(t)[Dir], Uncut(book) \union {n}, G)
  BY <1>1, <1>2
<1>5. /\ c = Put(book, n, e) /\ v = After(t)
      /\ cut = {m \in Names : book[m].cut} \union {m \in Names : c[m].cut}
  BY <1>1, <1>2
<1>6. Well(v, G, c, cut)
  <2>1. PICK b : b = book
    OBVIOUS
  <2> QED  BY <2>1, <1>1, <1>3, <1>4, <1>5, EndingStored
<1> QED  BY <1>1, <1>2, <1>6 DEF Inv

\* A call that cut the file.
LEMMA CutFinish ==
    ASSUME Inv, NEW n \in Names, NEW t, NEW e, NEW l, Finish(n, t, e, l),
           l.cut = {m \in Names : book[m].cut}, IsNote(e), CutsFile(e),
           Ended(t, Uncut(book) \ {n}, files, n)
    PROVE  Inv'
<1>1. /\ book = [m \in Names |-> book[m]] /\ IsBook(book) /\ IsFiles(files) /\ FilesOK(files)
      /\ vol' = After(t) /\ files' = Put(files, n, t.f) /\ book' = Put(book, n, e)
      /\ Cut' = {m \in Names : book[m].cut} \union {m \in Names : book'[m].cut}
      /\ calls' \in Nat
  BY Finishes
<1>2. PICK G, c, cut, v : G = files' /\ c = book' /\ cut = Cut' /\ v = vol'
  OBVIOUS
<1>3. Uncut(book) \ {n} \in SUBSET Names
  BY DEF Uncut
<1>4. Fine(t, Uncut(book) \ {n}, G) /\ IsFiles(G) /\ FilesOK(G)
  <2>1. PICK M : M = Uncut(book) \ {n}
    OBVIOUS
  <2>2. M \in SUBSET Names /\ Ended(t, M, files, n)
    BY <2>1, <1>3
  <2>3. Fine(t, M, G) /\ IsFiles(G) /\ FilesOK(G)
    BY <2>2, <1>1, <1>2, FileKeptOK
  <2> QED  BY <2>1, <2>3
<1>5. /\ c = Put(book, n, e) /\ v = After(t)
      /\ cut = {m \in Names : book[m].cut} \union {m \in Names : c[m].cut}
  BY <1>1, <1>2
<1>6. Well(v, G, c, cut)
  <2>1. PICK b : b = book
    OBVIOUS
  <2> QED  BY <2>1, <1>1, <1>4, <1>5, EndingCut
<1> QED  BY <1>1, <1>2, <1>6 DEF Inv

\* Truncate keeps the invariant: the file is left out until it is stored.
LEMMA InvTruncate ==
    ASSUME Inv, NEW n \in Names, Truncate(n)
    PROVE  Inv'
<1>0. PICK t \in f_truncate(Before(n)) : \E e, x :
         /\ Finish(n, t, e, [Quiet("truncate", {n}) EXCEPT !.stray = x]) /\ files[n].open
         /\ \/ e = book[n] /\ (t.res = "denied" \/ (t.res = "ok" /\ t.f.size = files[n].size))
            \/ \E y : e = [book[n] EXCEPT !.text = y, !.settled = FALSE, !.cut = TRUE]
            \/ e = [Unsure(book[n]) EXCEPT !.cut = TRUE]
  BY DEF Truncate
<1>1. PICK e, x :
         /\ t \in f_truncate(Before(n))
         /\ Finish(n, t, e, [Quiet("truncate", {n}) EXCEPT !.stray = x]) /\ files[n].open
         /\ \/ e = book[n] /\ (t.res = "denied" \/ (t.res = "ok" /\ t.f.size = files[n].size))
            \/ \E y : e = [book[n] EXCEPT !.text = y, !.settled = FALSE, !.cut = TRUE]
            \/ e = [Unsure(book[n]) EXCEPT !.cut = TRUE]
  BY <1>0
<1>2. PICK l : l = [Quiet("truncate", {n}) EXCEPT !.stray = x]
  OBVIOUS
<1>3. l.cut = {m \in Names : book[m].cut} /\ Finish(n, t, e, l)
  <2>1. [Quiet("truncate", {n}) EXCEPT !.stray = x].cut = {m \in Names : book[m].cut}
    BY QuietCut
  <2> QED  BY <1>1, <1>2, <2>1
<1>4. PICK s : s = Before(n)
  OBVIOUS
<1>5. /\ s.res = "ok" /\ Uncut(book) \in SUBSET Names /\ IsFiles(files) /\ IsNote(book[n])
      /\ IsBook(book) /\ Ended(s, Uncut(book), files, n) /\ s.f = files[n]
  BY <1>1, <1>4, Begun
<1>6. /\ Ended(t, Uncut(book) \ {n}, files, n)
      /\ t.res = "denied" \/ (t.res = "ok" /\ t.f.size = s.f.size) => Ended(t, Uncut(book), files, n)
  BY <1>1, <1>4, <1>5, FileTruncating
<1>7. CASE e = book[n] /\ (t.res = "denied" \/ (t.res = "ok" /\ t.f.size = files[n].size))
  <2>1. Ended(t, Uncut(book), files, n) /\ IsNote(e) /\ Uncutting(book, n, e)
    BY <1>5, <1>6, <1>7 DEF Uncutting
  <2> QED  BY <1>3, <2>1, EndedFinish
<1>8. CASE (\E y : e = [book[n] EXCEPT !.text = y, !.settled = FALSE, !.cut = TRUE])
           \/ e = [Unsure(book[n]) EXCEPT !.cut = TRUE]
  <2>1. IsNote(e) /\ CutsFile(e)
    <3>1. PICK b : b = book[n]
      OBVIOUS
    <3>2. ASSUME NEW y, e = [b EXCEPT !.text = y, !.settled = FALSE, !.cut = TRUE]
          PROVE  IsNote(e) /\ CutsFile(e)
      <4>1. e = [kind |-> b.kind, text |-> y, settled |-> FALSE, lost |-> b.lost, cut |-> TRUE]
        BY <1>5, <3>1, <3>2 DEF IsNote
      <4> QED  BY <4>1 DEF IsNote, CutsFile
    <3>3. ASSUME e = [Unsure(b) EXCEPT !.cut = TRUE]
          PROVE  IsNote(e) /\ CutsFile(e)
      <4>1. e = [kind |-> "unknown", text |-> <<>>, settled |-> FALSE, lost |-> b.lost, cut |-> TRUE]
        BY <1>5, <3>1, <3>3 DEF IsNote, Unsure
      <4> QED  BY <4>1 DEF IsNote, CutsFile
    <3> QED  BY <1>8, <3>1, <3>2, <3>3
  <2> QED  BY <1>3, <1>6, <2>1, CutFinish
<1> QED  BY <1>1, <1>7, <1>8

\* A file's entry is stored, and the file kept.
LEMMA SavedFinish ==
    ASSUME Inv, NEW n \in Names, NEW t, Ended(t, Uncut(book), files, n), Saved(t, Uncut(book), files, n),
           NEW e, NEW l, Finish(n, t, e, l),
           l.cut = {m \in Names : book[m].cut}, IsNote(e), StoresEntry(book, n, e)
    PROVE  Inv'
<1>1. IsFiles(files) /\ FilesOK(files) /\ Uncut(book) \in SUBSET Names
  BY DEF Inv, Well, Uncut
<1>2. Fine(t, Uncut(book), Put(files, n, t.f)) /\ FilesOK(Put(files, n, t.f))
  BY <1>1, FileKeptOK
<1>3. /\ Sound(Tab(t.disk), t.disk[Dir], Uncut(book) \union {n}, NoFiles)
      /\ Sound(Tab(Seen(t)), Seen(t)[Dir], Uncut(book) \union {n}, Put(files, n, t.f))
  BY DEF Saved
<1> QED  BY <1>2, <1>3, StoredFinish

\* Write keeps the invariant, whether its f_sync succeeds or not.
LEMMA InvWrite ==
    ASSUME Inv, NEW n \in Names, NEW len \in Lengths, Write(n, len)
    PROVE  Inv'
<1>1. PICK bytes : bytes = [i \in 1..len |-> calls + 1]
  OBVIOUS
<1>2. bytes \in Seq(Nat)
  <2>1. len \in Nat /\ calls \in Nat
    BY CallsAssumption DEF Inv
  <2> QED  BY <1>1, <2>1
<1>3. PICK t \in f_write(Before(n), bytes) :
         /\ files[n].open
         /\ \/ /\ t.res # "ok"
               /\ Finish(n, t, IF t.res = "denied" THEN book[n] ELSE Unsure(book[n]), Quiet("write", {n}))
            \/ /\ t.res = "ok"
               /\ \E u \in f_sync(t) : \E x, y, z :
                     Finish(n, u, [book[n] EXCEPT !.text = x, !.settled = y, !.lost = z,
                                                  !.cut = @ /\ ~(u.res = "ok")],
                            Quiet("write", {n}))
  BY <1>1, ZenonT(60) DEF Write
<1>4. PICK s : s = Before(n)
  OBVIOUS
<1>5. /\ s.res = "ok" /\ Uncut(book) \in SUBSET Names /\ IsFiles(files) /\ IsNote(book[n])
      /\ IsBook(book) /\ Ended(s, Uncut(book), files, n)
  BY <1>3, <1>4, Begun
<1>6. /\ Ended(t, Uncut(book), files, n)
      /\ t.res = "ok" => t.f.modified
  BY <1>2, <1>3, <1>4, <1>5, FileWriting
<1>7. CASE t.res # "ok"
  <2>1. PICK e : /\ e = book[n] \/ e = Unsure(book[n])
                 /\ Finish(n, t, e, Quiet("write", {n}))
    BY <1>3, <1>7
  <2>2. IsNote(e) /\ Uncutting(book, n, e)
    <3>1. CASE e = book[n]
      BY <1>5, <3>1 DEF Uncutting
    <3>2. CASE e = Unsure(book[n])
      BY <1>5, <3>2, NoteFacts DEF Uncutting
    <3> QED  BY <2>1, <3>1, <3>2
  <2> QED  BY <1>6, <2>1, <2>2, QuietCut, EndedFinish
<1>8. CASE t.res = "ok"
  <2>1. PICK u, x, y, z :
           /\ u \in f_sync(t)
           /\ Finish(n, u, [book[n] EXCEPT !.text = x, !.settled = y, !.lost = z,
                                           !.cut = @ /\ ~(u.res = "ok")],
                     Quiet("write", {n}))
    BY <1>3, <1>8
  <2>2. PICK c : c = (book[n].cut /\ ~(u.res = "ok"))
    OBVIOUS
  <2>3. PICK e : e = [book[n] EXCEPT !.text = x, !.settled = y, !.lost = z, !.cut = c]
    OBVIOUS
  <2>4. IsNote(e) /\ e.cut = c
    <3>1. PICK b : b = book[n]
      OBVIOUS
    <3>2. e = [kind |-> b.kind, text |-> x, settled |-> y, lost |-> z, cut |-> c]
      BY <1>5, <2>3, <3>1 DEF IsNote
    <3> QED  BY <3>2 DEF IsNote
  <2>5. Finish(n, u, e, Quiet("write", {n}))
    BY <2>1, <2>2, <2>3
  <2>6. /\ Ended(u, Uncut(book), files, n)
        /\ u.res = "ok" => Saved(u, Uncut(book), files, n)
    BY <1>5, <1>6, <1>8, <2>1, FileSyncing
  <2>7. CASE u.res = "ok"
    <3>1. StoresEntry(book, n, e)
      BY <2>2, <2>4, <2>7 DEF StoresEntry
    <3> QED  BY <2>4, <2>5, <2>6, <2>7, <3>1, QuietCut, SavedFinish
  <2>8. CASE u.res # "ok"
    <3>1. Uncutting(book, n, e)
      BY <2>2, <2>4, <2>8 DEF Uncutting
    <3> QED  BY <2>4, <2>5, <2>6, <3>1, QuietCut, EndedFinish
  <2> QED  BY <2>7, <2>8
<1> QED  BY <1>7, <1>8

\* What is known of a file after an f_sync or an f_close.
LEMMA StoredNote ==
    ASSUME NEW n \in Names, IsNote(book[n]), NEW t, NEW e, e = Stored(n, t)
    PROVE  /\ IsNote(e)
           /\ ~(files[n].modified /\ t.res = "ok") => Uncutting(book, n, e)
           /\ files[n].modified /\ t.res = "ok" => StoresEntry(book, n, e)
<1>1. PICK b : b = book[n]
  OBVIOUS
<1>2. CASE t.res # "ok"
  <2>1. PICK z : z = (b.lost \/ ~t.f.modified)
    OBVIOUS
  <2>2. e = [b EXCEPT !.settled = FALSE, !.lost = z]
    BY <1>1, <1>2, <2>1 DEF Stored
  <2>3. e = [kind |-> b.kind, text |-> b.text, settled |-> FALSE, lost |-> z, cut |-> b.cut]
    BY <1>1, <2>2 DEF IsNote
  <2> QED  BY <1>1, <1>2, <2>3 DEF IsNote, Uncutting
<1>3. CASE t.res = "ok"
  <2>1. PICK z, c : z = (b.lost /\ ~files[n].modified) /\ c = (b.cut /\ ~files[n].modified)
    OBVIOUS
  <2>2. e = [b EXCEPT !.settled = TRUE, !.lost = z, !.cut = c]
    BY <1>1, <1>3, <2>1 DEF Stored
  <2>3. e = [kind |-> b.kind, text |-> b.text, settled |-> TRUE, lost |-> z, cut |-> c]
    BY <1>1, <2>2 DEF IsNote
  <2>4. IsNote(e) /\ e.cut = c
    BY <2>3 DEF IsNote
  <2> QED  BY <1>1, <1>3, <2>1, <2>4 DEF Uncutting, StoresEntry
<1> QED  BY <1>2, <1>3

\* Sync keeps the invariant, and takes a cut file back in.
LEMMA InvSync ==
    ASSUME Inv, NEW n \in Names, Sync(n)
    PROVE  Inv'
<1>1. PICK t \in f_sync(Before(n)) : files[n].open /\ Finish(n, t, Stored(n, t), Quiet("sync", {n}))
  BY DEF Sync
<1>2. PICK s, e : s = Before(n) /\ e = Stored(n, t)
  OBVIOUS
<1>3. /\ s.res = "ok" /\ Uncut(book) \in SUBSET Names /\ IsFiles(files) /\ IsNote(book[n])
      /\ Ended(s, Uncut(book), files, n) /\ s.f = files[n]
  BY <1>1, <1>2, Begun
<1>4. /\ Ended(t, Uncut(book), files, n)
      /\ files[n].modified /\ t.res = "ok" => Saved(t, Uncut(book), files, n)
  BY <1>1, <1>2, <1>3, FileSyncing
<1>5. /\ IsNote(e)
      /\ ~(files[n].modified /\ t.res = "ok") => Uncutting(book, n, e)
      /\ files[n].modified /\ t.res = "ok" => StoresEntry(book, n, e)
  BY <1>2, <1>3, StoredNote
<1>6. Finish(n, t, e, Quiet("sync", {n}))
  BY <1>1, <1>2
<1>7. CASE files[n].modified /\ t.res = "ok"
  BY <1>4, <1>5, <1>6, <1>7, QuietCut, SavedFinish
<1>8. CASE ~(files[n].modified /\ t.res = "ok")
  BY <1>4, <1>5, <1>6, <1>8, QuietCut, EndedFinish
<1> QED  BY <1>7, <1>8

\* A call on a file that is closed after it.
LEMMA ClosedFinish ==
    ASSUME Inv, NEW n \in Names, NEW t, NEW f, Fine(t, Uncut(book), Put(files, n, f)),
           NEW w, w = Closing(t), NEW e, NEW l, Finish(n, w, e, l),
           l.cut = {m \in Names : book[m].cut}, IsNote(e), Uncutting(book, n, e)
    PROVE  Inv'
<1>1. IsFiles(files) /\ FilesOK(files) /\ Uncut(book) \in SUBSET Names
  BY DEF Inv, Well, Uncut
<1>2. PICK G : G = Put(files, n, Closed)
  OBVIOUS
<1>3. Fine(w, Uncut(book), G) /\ FilesOK(G) /\ w.f = Closed
  BY <1>1, <1>2, FileClosedOK
<1>4. Fine(w, Uncut(book), Put(files, n, w.f)) /\ FilesOK(Put(files, n, w.f))
  BY <1>2, <1>3
<1> QED  BY <1>4, FinishSame

\* Close keeps the invariant.
LEMMA InvClose ==
    ASSUME Inv, NEW n \in Names, Close(n)
    PROVE  Inv'
<1>1. PICK t, e :
         /\ t \in f_close(Before(n))
         /\ files[n].open /\ Finish(n, Closing(t), e, Quiet("close", {n}))
         /\ t.res = "ok" => e = Stored(n, t)
         /\ t.res # "ok" => e = Unsure(book[n])
  <2>1. PICK t \in f_close(Before(n)) :
           /\ files[n].open
           /\ Finish(n, Closing(t), IF t.res = "ok" THEN Stored(n, t) ELSE Unsure(book[n]), Quiet("close", {n}))
    BY DEF Close, Closing
  <2>2. PICK e : e = IF t.res = "ok" THEN Stored(n, t) ELSE Unsure(book[n])
    OBVIOUS
  <2> QED  BY <2>1, <2>2
<1>2. PICK s : s = Before(n)
  OBVIOUS
<1>3. /\ s.res = "ok" /\ Uncut(book) \in SUBSET Names /\ IsFiles(files) /\ IsNote(book[n])
      /\ Ended(s, Uncut(book), files, n) /\ s.f = files[n] /\ IsBook(book)
  BY <1>1, <1>2, Begun
<1>4. PICK u \in f_sync(s) : (u.res # "ok" => t = u) /\ (u.res = "ok" => t = Closing(u))
  BY <1>1, <1>2 DEF f_close, Then, Closing
<1>5. /\ Ended(u, Uncut(book), files, n)
      /\ files[n].modified /\ u.res = "ok" => Saved(u, Uncut(book), files, n)
  BY <1>3, <1>4, FileSyncing
<1>6. PICK w : w = Closing(u)
  OBVIOUS
<1>7. Closing(t) = w /\ t.res = u.res
  <2>1. IsState(u)
    BY <1>5 DEF Ended, Busy, Fine, Safe, Base
  <2>2. Closing(w) = w /\ w.res = u.res
    BY <2>1, <1>6 DEF Closing, IsState
  <2> QED  BY <2>2, <1>4, <1>6
<1>8. Fine(u, Uncut(book), Put(files, n, u.f)) /\ Finish(n, w, e, Quiet("close", {n}))
  BY <1>1, <1>5, <1>7 DEF Ended, Busy
<1>9. /\ IsNote(e)
      /\ ~(files[n].modified /\ t.res = "ok") => Uncutting(book, n, e)
      /\ files[n].modified /\ t.res = "ok" => StoresEntry(book, n, e)
  <2>1. CASE t.res = "ok"
    BY <1>1, <1>3, <2>1, StoredNote
  <2>2. CASE t.res # "ok"
    BY <1>1, <1>3, <2>2, NoteFacts DEF Uncutting
  <2> QED  BY <2>1, <2>2
<1>10. CASE ~(files[n].modified /\ t.res = "ok")
  BY <1>6, <1>8, <1>9, <1>10, QuietCut, ClosedFinish
<1>11. CASE files[n].modified /\ t.res = "ok"
  <2>1. IsFiles(files) /\ FilesOK(files)
    BY DEF Inv, Well
  <2>2. PICK G, f : G = Put(files, n, Closed) /\ f = u.f
    OBVIOUS
  <2>3. Fine(u, Uncut(book), Put(files, n, f))
    BY <1>8, <2>2
  <2>4. /\ Fine(w, Uncut(book), G) /\ FilesOK(G) /\ w.f = Closed
        /\ Seen(w) = Seen(u) /\ w.disk = u.disk
        /\ \A T, E : \A L \in SUBSET Names : Sound(T, E, L, Put(files, n, f)) => Sound(T, E, L, G)
    <3>1. /\ Uncut(book) \in SUBSET Names /\ IsFiles(files) /\ FilesOK(files)
          /\ G = Put(files, n, Closed) /\ w = Closing(u)
      BY <1>3, <1>6, <2>1, <2>2
    <3> QED  BY <3>1, <2>3, FileClosedOK
  <2>5. PICK M : M = Uncut(book) \union {n}
    OBVIOUS
  <2>6. /\ M \in SUBSET Names
        /\ Sound(Tab(u.disk), u.disk[Dir], M, NoFiles)
        /\ Sound(Tab(Seen(u)), Seen(u)[Dir], M, Put(files, n, f))
    BY <1>3, <1>5, <1>7, <1>11, <2>2, <2>5 DEF Saved
  <2>7. /\ Sound(Tab(w.disk), w.disk[Dir], M, NoFiles)
        /\ Sound(Tab(Seen(w)), Seen(w)[Dir], M, G)
    BY <2>4, <2>6
  <2>8. /\ Fine(w, Uncut(book), Put(files, n, w.f)) /\ FilesOK(Put(files, n, w.f))
        /\ Sound(Tab(w.disk), w.disk[Dir], Uncut(book) \union {n}, NoFiles)
        /\ Sound(Tab(Seen(w)), Seen(w)[Dir], Uncut(book) \union {n}, Put(files, n, w.f))
    BY <2>2, <2>4, <2>5, <2>7
  <2> QED  BY <1>8, <1>9, <1>11, <2>8, QuietCut, StoredFinish
<1> QED  BY <1>10, <1>11

\* A file that is closed was not cut, or stored since.
LEMMA NotAbandoned ==
    ASSUME NEW n \in Names, ~Abandoned(n)
    PROVE  ~files[n].open => n \in Uncut(book)
BY DEF Abandoned, Uncut

\* A file in its own place.
LEMMA SameFile ==
    ASSUME IsFiles(files), NEW n \in Names
    PROVE  Put(files, n, files[n]) = files
BY DEF IsFiles, Put

\* Open keeps the invariant.
LEMMA InvOpen ==
    ASSUME Inv, NEW n \in Names, NEW flags, Open(n, flags), ~Abandoned(n)
    PROVE  Inv'
<1>1. PICK mode : mode = FileMode(flags)
  OBVIOUS
<1>2. PICK o, t, e :
         /\ o \in f_open(Before(n), n, mode)
         /\ ~files[n].open
         /\ o.res # "ok" => t = o
         /\ o.res = "ok" => t \in IF "APPEND" \in flags THEN f_lseek(o, o.f.size) ELSE {o}
         /\ \/ e = [book[n] EXCEPT !.kind = "file", !.text = <<>>, !.settled = FALSE]
            \/ e = Unsure(book[n])
            \/ e = book[n]
         /\ t.res = "ok" => Finish(n, t, e, Quiet("open", {n}))
         /\ t.res # "ok" => Finish(n, Closing(t), e, Quiet("open", {n}))
  <2> DEFINE Note(t) == CASE t.res = "ok" /\ t.f.modified ->
                                [book[n] EXCEPT !.kind = "file", !.text = <<>>, !.settled = FALSE]
                          [] t.res \in {"disk_err", "int_err"} /\ (mode.always \/ mode.new \/ mode.open) -> Unsure(book[n])
                          [] OTHER -> book[n]
             Pos(t) == IF "APPEND" \in flags THEN f_lseek(t, t.f.size) ELSE {t}
  <2>1. /\ ~files[n].open
        /\ \E t \in Then(f_open(Before(n), n, mode), Pos) :
              Finish(n, IF t.res = "ok" THEN t ELSE Closing(t), Note(t), Quiet("open", {n}))
    BY <1>1 DEF Open, Closing
  <2>2. PICK t \in Then(f_open(Before(n), n, mode), Pos) :
           Finish(n, IF t.res = "ok" THEN t ELSE Closing(t), Note(t), Quiet("open", {n}))
    BY <2>1
  <2>3. PICK e : e = Note(t)
    OBVIOUS
  <2>4. \/ e = [book[n] EXCEPT !.kind = "file", !.text = <<>>, !.settled = FALSE]
        \/ e = Unsure(book[n])
        \/ e = book[n]
    BY <2>3
  <2>5. PICK o \in f_open(Before(n), n, mode) :
           /\ o.res # "ok" => t = o
           /\ o.res = "ok" => t \in IF "APPEND" \in flags THEN f_lseek(o, o.f.size) ELSE {o}
    BY <2>2 DEF Then
  <2>6. /\ t.res = "ok" => Finish(n, t, e, Quiet("open", {n}))
        /\ t.res # "ok" => Finish(n, Closing(t), e, Quiet("open", {n}))
    BY <2>2, <2>3
  <2> HIDE DEF Note, Pos
  <2> HIDE <2>2
  <2> QED  BY <2>1, <2>4, <2>5, <2>6
<1>3. PICK s : s = Before(n)
  OBVIOUS
<1>4. /\ s.res = "ok" /\ Uncut(book) \in SUBSET Names /\ IsFiles(files) /\ IsNote(book[n])
      /\ IsBook(book) /\ Fine(s, Uncut(book), files) /\ n \in Uncut(book)
  BY <1>2, <1>3, Begun, NotAbandoned
<1>5. IsNote(e) /\ Uncutting(book, n, e)
  <2>1. CASE e = [book[n] EXCEPT !.kind = "file", !.text = <<>>, !.settled = FALSE]
    <3>1. PICK b : b = book[n]
      OBVIOUS
    <3>2. e = [kind |-> "file", text |-> <<>>, settled |-> FALSE, lost |-> b.lost, cut |-> b.cut]
      BY <1>4, <2>1, <3>1 DEF IsNote
    <3> QED  BY <3>1, <3>2 DEF IsNote, Uncutting
  <2>2. CASE e = Unsure(book[n])
    BY <1>4, <2>2, NoteFacts DEF Uncutting
  <2>3. CASE e = book[n]
    BY <1>4, <2>3 DEF Uncutting
  <2> QED  BY <1>2, <2>1, <2>2, <2>3
<1>6. Opens(s, o, Uncut(book), files, n)
  BY <1>2, <1>3, <1>4, Opening
<1>7. CASE o.res # "ok"
  <2>1. PICK f : f = files[n]
    OBVIOUS
  <2>2. Fine(t, Uncut(book), Put(files, n, f)) /\ t.res # "ok"
    BY <1>2, <1>4, <1>6, <1>7, <2>1, SameFile DEF Opens
  <2> QED  BY <1>2, <1>5, <2>2, QuietCut, ClosedFinish
<1>8. CASE o.res = "ok"
  <2>1. Ended(o, Uncut(book), files, n) /\ o.f.size \in Nat
    BY <1>6, <1>8 DEF Opens, Began, Ended
  <2>2. Ended(t, Uncut(book), files, n)
    BY <1>2, <1>4, <1>8, <2>1, FileSeeking
  <2>3. CASE t.res = "ok"
    BY <1>2, <1>5, <2>2, <2>3, QuietCut, EndedFinish
  <2>4. CASE t.res # "ok"
    <3>1. Fine(t, Uncut(book), Put(files, n, t.f))
      BY <2>2 DEF Ended, Busy
    <3> QED  BY <1>2, <1>5, <2>4, <3>1, QuietCut, ClosedFinish
  <2> QED  BY <2>3, <2>4
<1> QED  BY <1>7, <1>8

\* Unlink keeps the invariant.
LEMMA InvUnlink ==
    ASSUME Inv, NEW n \in Names, Unlink(n), ~Abandoned(n)
    PROVE  Inv'
<1>1. PICK t, e :
         /\ t \in f_unlink(Before(n), n)
         /\ ~files[n].open /\ Finish(n, t, e, Quiet("unlink", {n}))
         /\ e \in {NoFile, book[n], Unsure(book[n])}
  <2>1. PICK t \in f_unlink(Before(n), n) :
           /\ ~files[n].open
           /\ Finish(n, t, CASE t.res = "ok" -> NoFile [] t.res = "no_file" -> book[n]
                             [] OTHER -> Unsure(book[n]), Quiet("unlink", {n}))
    BY DEF Unlink
  <2>2. PICK e : e = CASE t.res = "ok" -> NoFile [] t.res = "no_file" -> book[n]
                       [] OTHER -> Unsure(book[n])
    OBVIOUS
  <2> QED  BY <2>1, <2>2
<1>2. PICK s : s = Before(n)
  OBVIOUS
<1>3. /\ s.res = "ok" /\ Uncut(book) \in SUBSET Names /\ IsFiles(files) /\ IsNote(book[n])
      /\ IsBook(book) /\ Fine(s, Uncut(book), files) /\ n \in Uncut(book) /\ s.f = files[n]
  BY <1>1, <1>2, Begun, NotAbandoned
<1>4. Did(s, t, Uncut(book), files)
  BY <1>1, <1>2, <1>3, Unlinking
<1>5. t.f = files[n] /\ Fine(t, Uncut(book), files) /\ Put(files, n, t.f) = files
  BY <1>3, <1>4, SameFile DEF Did
<1>6. IsNote(e) /\ Uncutting(book, n, e)
  <2>1. IsNote(NoFile) /\ ~NoFile.cut /\ IsNote(Unsure(book[n])) /\ (Unsure(book[n]).cut <=> book[n].cut)
    BY <1>3, NoteFacts
  <2>2. ~book[n].cut
    BY <1>3 DEF Uncut
  <2>3. CASE e = NoFile
    BY <2>1, <2>2, <2>3 DEF Uncutting
  <2>4. CASE e = book[n]
    BY <1>3, <2>4 DEF Uncutting
  <2>5. CASE e = Unsure(book[n])
    BY <2>1, <2>5 DEF Uncutting
  <2> QED  BY <1>1, <2>3, <2>4, <2>5
<1>7. FilesOK(files)
  BY DEF Inv, Well
<1> QED  BY <1>1, <1>5, <1>6, <1>7, QuietCut, FinishSame

\* A call that changes no file and cuts none.
LEMMA PlainFinish ==
    ASSUME Inv, NEW t, Fine(t, Uncut(book), files), vol' = After(t), UNCHANGED files,
           book' = [n \in Names |-> book'[n]], IsBook(book)', Uncut(book)' = Uncut(book),
           last'.cut = {m \in Names : book[m].cut}, calls' = calls + 1
    PROVE  Inv'
<1>1. IsFiles(files) /\ FilesOK(files) /\ Uncut(book) \in SUBSET Names /\ calls \in Nat
  BY DEF Inv, Well, Uncut
<1>2. PICK c, cut, v : c = book' /\ cut = Cut' /\ v = vol'
  OBVIOUS
<1>3. /\ c = [n \in Names |-> c[n]] /\ IsBook(c) /\ Uncut(c) = Uncut(book) /\ v = After(t)
      /\ cut = {m \in Names : book[m].cut} \union {m \in Names : c[m].cut}
  BY <1>2 DEF Cut, IsBook, Uncut
<1>4. Uncut(book) \intersect Uncut(c) \subseteq Uncut(book) /\ Uncut(c) \subseteq Uncut(book)
  BY <1>3
<1>5. Well(v, files, c, cut)
  <2>1. PICK b : b = book
    OBVIOUS
  <2> QED  BY <2>1, <1>1, <1>3, <1>4, NotesEnd
<1> QED  BY <1>1, <1>2, <1>5 DEF Inv

-----------------------------------------------------------------------------
\* The chain of a file, as CrashSound has it.
GrownFrom(T, h, q) ==
    LET c == IF q = <<>> THEN h ELSE T[q[Len(q)]] IN IF c \in Clusters THEN Append(q, c) ELSE q

\* What that function is.
IsGrowth(to, T, h, n) ==
    to = [k \in 0..n |-> IF k = 0 THEN <<>> ELSE GrownFrom(T, h, to[k - 1])]

\* The recursive function exists.
LEMMA GrowthExists ==
    ASSUME NEW T, NEW h, NEW n \in Nat
    PROVE  \E to : IsGrowth(to, T, h, n)
<1> DEFINE Good == {k \in 0..n : \E to : IsGrowth(to, T, h, k)}
<1>1. 0 \in Good
  <2> DEFINE g == [i \in 0..0 |-> <<>>]
  <2>1. IsGrowth(g, T, h, 0)
    BY DEF IsGrowth
  <2> QED  BY <2>1
<1>2. ASSUME NEW k \in 1..n, k - 1 \in Good PROVE k \in Good
  <2>1. PICK to : IsGrowth(to, T, h, k - 1)
    BY <1>2
  <2> DEFINE g == [i \in 0..k |-> IF i = k THEN GrownFrom(T, h, to[k - 1]) ELSE to[i]]
  <2>2. \A i \in 0..(k - 1) : to[i] = IF i = 0 THEN <<>> ELSE GrownFrom(T, h, to[i - 1])
    BY <2>1 DEF IsGrowth
  <2>3. ASSUME NEW i \in 0..k
        PROVE  g[i] = IF i = 0 THEN <<>> ELSE GrownFrom(T, h, g[i - 1])
    <3>1. CASE i = k
      <4>1. i # 0 /\ i - 1 \in 0..k /\ i - 1 # k /\ i - 1 = k - 1
        BY <3>1
      <4>2. g[i - 1] = to[k - 1] /\ g[i] = GrownFrom(T, h, to[k - 1])
        BY <4>1, <3>1
      <4> QED  BY <4>1, <4>2
    <3>2. CASE i # k
      <4>1. i \in 0..(k - 1) /\ g[i] = to[i]
        BY <3>2
      <4>2. i # 0 => i - 1 \in 0..k /\ i - 1 # k /\ g[i - 1] = to[i - 1]
        BY <4>1
      <4> QED  BY <4>1, <4>2, <2>2
    <3> QED  BY <3>1, <3>2
  <2>4. IsGrowth(g, T, h, k)
    <3> HIDE DEF g
    <3>1. g = [i \in 0..k |-> g[i]]
      BY DEF g
    <3> QED  BY <2>3, <3>1 DEF IsGrowth
  <2> QED  BY <2>4
<1>3. n \in Good
  <2> HIDE DEF Good
  <2> QED  BY <1>1, <1>2, Counting
<1> QED  BY <1>3

\* A walk that cannot go on.
Stuck(T, h, q) == IF q = <<>> THEN h \notin Clusters ELSE T[q[Len(q)]] \notin Clusters

\* A walk of at most k clusters, as far as the chain goes.
Grown(T, h, q, k) ==
    /\ q \in Seq(Clusters) /\ Len(q) \in 0..k /\ Walk(T, h, q, Len(q))
    /\ Len(q) = k \/ Stuck(T, h, q)

\* It goes on as the chain does.
LEMMA GrowthStep ==
    ASSUME NEW T, NEW h, NEW k \in Nat, NEW q, Grown(T, h, q, k)
    PROVE  Grown(T, h, GrownFrom(T, h, q), k + 1)
<1>1. q \in Seq(Clusters) /\ Len(q) \in 0..k /\ Walk(T, h, q, Len(q)) /\ Len(q) \in Nat
  BY DEF Grown
<1>2. PICK c : c = IF q = <<>> THEN h ELSE T[q[Len(q)]]
  OBVIOUS
<1>3. CASE c \notin Clusters
  <2>1. GrownFrom(T, h, q) = q /\ Stuck(T, h, q)
    BY <1>2, <1>3 DEF GrownFrom, Stuck
  <2> QED  BY <1>1, <2>1 DEF Grown
<1>4. CASE c \in Clusters
  <2>1. PICK r : r = Append(q, c)
    OBVIOUS
  <2>2. GrownFrom(T, h, q) = r
    BY <1>2, <1>4, <2>1 DEF GrownFrom
  <2>3. Len(q) = k
    BY <1>2, <1>4 DEF Grown, Stuck
  <2>4. /\ r \in Seq(Clusters) /\ Len(r) = Len(q) + 1
        /\ \A i \in 1..Len(q) : r[i] = q[i]
        /\ r[Len(q) + 1] = c
    BY <1>1, <1>4, <2>1, AppendProperties
  <2>5. Walk(T, h, r, k + 1)
    <3>1. r \in [1..(k + 1) -> Clusters]
      BY <2>3, <2>4, LenProperties
    <3>2. r[1] = h
      <4>1. CASE k = 0
        <5>1. q = <<>>
          BY <1>1, <2>3, <4>1, EmptySeq
        <5> QED  BY <5>1, <1>2, <2>3, <2>4, <4>1
      <4>2. CASE k # 0
        BY <1>1, <2>3, <2>4, <4>2 DEF Walk
      <4> QED  BY <4>1, <4>2
    <3>3. ASSUME NEW i \in 1..k PROVE T[r[i]] = r[i + 1]
      <4>1. CASE i = k
        <5>1. q # <<>> /\ r[k] = q[k] /\ r[k + 1] = c
          BY <2>3, <2>4, <3>3, <4>1, EmptySeq
        <5> QED  BY <5>1, <1>2, <2>3, <4>1
      <4>2. CASE i # k
        <5>1. i \in 1..(k - 1) /\ i \in 1..k /\ i + 1 \in 1..k
          BY <3>3, <4>2
        <5>2. T[q[i]] = q[i + 1]
          BY <5>1, <1>1, <2>3 DEF Walk
        <5> QED  BY <5>1, <5>2, <2>3, <2>4
      <4> QED  BY <4>1, <4>2
    <3> QED  BY <3>1, <3>2, <3>3 DEF Walk
  <2> QED  BY <2>2, <2>3, <2>4, <2>5 DEF Grown
<1> QED  BY <1>3, <1>4

\* Chain walks the chain of a file to its end.
LEMMA ChainGrown ==
    ASSUME NEW d, DiskOK(d), NEW n \in Names, NEW h, h = Entry(d, n).first,
           NEW q, q = Chain(d, n)
    PROVE  Grown(Tab(d), h, q, NFatEnt)
<1>1. PICK T : T = Tab(d)
  OBVIOUS
<1>2. PICK to : IsGrowth(to, T, h, NFatEnt)
  BY GrowthExists, VolumeAssumption
<1>3. \A c \in Clusters : Next_(d, c) = T[c]
  BY <1>1 DEF Tab
<1> DEFINE Step(r) == LET c == IF r = <<>> THEN Entry(d, n).first ELSE Next_(d, r[Len(r)])
                      IN  IF c \in Clusters THEN Append(r, c) ELSE r
           F(f) == [k \in 0..NFatEnt |-> IF k = 0 THEN <<>> ELSE Step(f[k - 1])]
           Good == {k \in 0..NFatEnt : Grown(T, h, to[k], k)}
<1>4. 0 \in Good
  <2>1. to[0] = <<>> /\ 0 \in 0..NFatEnt
    BY <1>2, VolumeAssumption DEF IsGrowth
  <2>2. Grown(T, h, <<>>, 0)
    <3>1. <<>> \in Seq(Clusters) /\ Len(<<>>) = 0
      BY EmptySeq
    <3>2. <<>> \in [1..0 -> Clusters]
      BY <3>1, LenProperties
    <3> QED  BY <3>1, <3>2 DEF Grown, Walk
  <2> QED  BY <2>1, <2>2
<1>5. ASSUME NEW k \in 1..NFatEnt, k - 1 \in Good PROVE k \in Good
  <2>1. to[k] = GrownFrom(T, h, to[k - 1]) /\ k \in 0..NFatEnt
    BY <1>2, <1>5, VolumeAssumption DEF IsGrowth
  <2>2. PICK r : r = to[k - 1]
    OBVIOUS
  <2>3. PICK j \in Nat : j = k - 1 /\ k = j + 1
    BY VolumeAssumption
  <2>4. Grown(T, h, r, j)
    BY <1>5, <2>2, <2>3
  <2>5. Grown(T, h, GrownFrom(T, h, r), j + 1)
    BY <2>4, GrowthStep
  <2> QED  BY <2>1, <2>2, <2>3, <2>5
<1>6. \A k \in 0..NFatEnt : k \in Good
  <2> HIDE DEF Good
  <2>1. ASSUME NEW k \in 0..NFatEnt PROVE k \in Good
    <3>1. k \in Nat /\ \A j \in 1..k : j - 1 \in Good => j \in Good
      BY <1>5, VolumeAssumption
    <3> QED  BY <3>1, <1>4, Counting
  <2> QED  BY <2>1
<1>7. \A k \in 1..NFatEnt : GrownFrom(T, h, to[k - 1]) = Step(to[k - 1])
  <2>1. ASSUME NEW k \in 1..NFatEnt PROVE GrownFrom(T, h, to[k - 1]) = Step(to[k - 1])
    <3>1. PICK r : r = to[k - 1]
      OBVIOUS
    <3>2. r \in Seq(Clusters)
      <4>1. k - 1 \in 0..NFatEnt
        BY VolumeAssumption
      <4> QED  BY <4>1, <3>1, <1>6 DEF Grown
    <3>3. r # <<>> => r[Len(r)] \in Clusters
      BY <3>2, EmptySeq, ElementOfSeq
    <3> QED  BY <3>1, <3>3, <1>3 DEF GrownFrom
  <2> QED  BY <2>1
<1>8. to = F(to)
  <2> HIDE DEF Step
  <2>1. \A k \in 0..NFatEnt : k # 0 => k \in 1..NFatEnt
    BY VolumeAssumption
  <2> QED  BY <1>2, <1>7, <2>1 DEF IsGrowth
<1>9. q = to[NFatEnt]
  <2> DEFINE ch == CHOOSE f : f = F(f)
  <2>1. ch = F(ch)
    <3> HIDE DEF F
    <3> QED  BY <1>8
  <2>2. q = ch[NFatEnt]
    BY DEF Chain
  <2>3. ASSUME NEW f, f = F(f) PROVE \A k \in 0..NFatEnt : f[k] = to[k]
    <3> DEFINE Same_ == {k \in 0..NFatEnt : f[k] = to[k]}
    <3>1. 0 \in Same_
      <4>1. 0 \in 0..NFatEnt
        BY VolumeAssumption
      <4> QED  BY <4>1, <1>8, <2>3
    <3>2. ASSUME NEW k \in 1..NFatEnt, k - 1 \in Same_ PROVE k \in Same_
      <4>1. k \in 0..NFatEnt /\ k # 0
        BY VolumeAssumption
      <4>2. f[k] = Step(f[k - 1]) /\ to[k] = Step(to[k - 1])
        <5> HIDE DEF Step
        <5> QED  BY <4>1, <1>8, <2>3
      <4>3. f[k - 1] = to[k - 1]
        BY <3>2
      <4> HIDE DEF Step
      <4> QED  BY <4>1, <4>2, <4>3
    <3> HIDE DEF Same_
    <3>3. ASSUME NEW k \in 0..NFatEnt PROVE k \in Same_
      <4>1. k \in Nat /\ \A j \in 1..k : j - 1 \in Same_ => j \in Same_
        BY <3>2, VolumeAssumption
      <4> QED  BY <4>1, <3>1, Counting
    <3> QED  BY <3>3 DEF Same_
  <2> HIDE DEF ch
  <2> HIDE DEF F
  <2>4. NFatEnt \in 0..NFatEnt
    BY VolumeAssumption
  <2> QED  BY <2>1, <2>2, <2>3, <2>4
<1>10. NFatEnt \in 0..NFatEnt
  BY VolumeAssumption
<1> QED  BY <1>1, <1>6, <1>9, <1>10

\* How many clusters there are.
LEMMA ClustersCount == IsFiniteSet(Clusters) /\ Cardinality(Clusters) = NFatEnt - 2
<1>1. 2 \in Int /\ NFatEnt - 1 \in Int /\ ~(2 > NFatEnt - 1)
  BY VolumeAssumption
<1> QED  BY <1>1, FS_Interval, VolumeAssumption DEF Clusters

\* A walk from a start passes no cluster twice and is no longer than the volume.
LEMMA WalkShort ==
    ASSUME NEW T \in Tables, Proper(T), NEW h, Starts(T, h), NEW q, NEW m, Walk(T, h, q, m)
    PROVE  /\ \A i, j \in 1..m : q[i] = q[j] => i = j
           /\ m \in Nat /\ m <= NFatEnt - 2
           /\ Cardinality({q[i] : i \in 1..m}) = m
           /\ \A i \in 1..m : T[q[i]] # 0
<1>1. m \in Nat /\ q \in [1..m -> Clusters]
  BY DEF Walk
<1>2. \A i, j \in 1..m : q[i] = q[j] => i = j
  BY WalksMeet
<1>3. IsFiniteSet(1..m) /\ Cardinality(1..m) = m
  <2>1. 1 \in Int /\ m \in Int
    BY <1>1
  <2> QED  BY <2>1, <1>1, FS_Interval
<1>4. q \in Injection(1..m, Clusters)
  BY <1>1, <1>2 DEF Injection, IsInjective
<1>5. m <= NFatEnt - 2
  BY <1>3, <1>4, ClustersCount, FS_Injection
<1>6. Cardinality({q[i] : i \in 1..m}) = m
  <2>1. PICK R : R = {q[i] : i \in 1..m}
    OBVIOUS
  <2>2. q \in [1..m -> R]
    BY <1>1, <2>1
  <2>3. q \in Bijection(1..m, R)
    BY <1>2, <2>1, <2>2 DEF Bijection, Injection, Surjection, IsInjective
  <2>4. ExistsBijection(1..m, R)
    BY <2>3 DEF ExistsBijection
  <2> QED  BY <2>1, <2>4, <1>3, FS_Bijection
<1>7. ASSUME NEW i \in 1..m PROVE T[q[i]] # 0
  <2>1. CASE i = 1
    BY <1>1, <2>1 DEF Walk, Starts
  <2>2. CASE i # 1
    <3>1. i - 1 \in 1..(m - 1) /\ i - 1 \in 1..m
      BY <1>1, <2>2
    <3>2. T[q[i - 1]] = q[i]
      BY <3>1 DEF Walk
    <3>3. q[i - 1] \in Clusters /\ q[i] \in Clusters
      BY <1>1, <3>1
    <3> QED  BY <3>2, <3>3 DEF Proper
  <2> QED  BY <2>1, <2>2
<1> QED  BY <1>1, <1>2, <1>5, <1>6, <1>7

\* Two walks from the same cluster are one as far as both go.
LEMMA WalksAgree ==
    ASSUME NEW T, NEW h, NEW q, NEW m, Walk(T, h, q, m), NEW r, NEW k, Walk(T, h, r, k)
    PROVE  \A i \in 1..m : i <= k => q[i] = r[i]
<1>1. m \in Nat /\ k \in Nat
  BY DEF Walk
<1> DEFINE Good == {i \in 0..m : i # 0 /\ i <= k => q[i] = r[i]}
<1>2. 0 \in Good
  BY <1>1
<1>3. ASSUME NEW i \in 1..m, i - 1 \in Good PROVE i \in Good
  <2>1. CASE i > k
    BY <1>1, <2>1
  <2>2. CASE i = 1 /\ i <= k
    BY <1>1, <2>2 DEF Walk
  <2>3. CASE i # 1 /\ i <= k
    <3>1. i - 1 \in 1..(m - 1) /\ i - 1 \in 1..(k - 1) /\ i - 1 # 0 /\ i - 1 <= k
      BY <1>1, <2>3
    <3>2. q[i - 1] = r[i - 1]
      BY <3>1, <1>3
    <3>3. T[q[i - 1]] = q[i] /\ T[r[i - 1]] = r[i]
      BY <3>1 DEF Walk
    <3> QED  BY <3>2, <3>3
  <2> QED  BY <1>1, <2>1, <2>2, <2>3
<1>4. ASSUME NEW i \in 1..m, i <= k PROVE q[i] = r[i]
  <2> HIDE DEF Good
  <2>1. i \in Nat /\ \A j \in 1..i : j - 1 \in Good => j \in Good
    BY <1>1, <1>3
  <2>2. i \in Good
    BY <2>1, <1>2, Counting
  <2> QED  BY <2>2, <1>4 DEF Good
<1> QED  BY <1>4

\* The chain of a file is as long as any walk from its first cluster.
LEMMA ChainLongest ==
    ASSUME NEW T \in Tables, Proper(T), NEW h, h \in Clusters => Starts(T, h),
           NEW q, Grown(T, h, q, NFatEnt), NEW m, NEW r, Walk(T, h, r, m)
    PROVE  m <= Len(q) /\ m \in Nat
<1>1. /\ m \in Nat /\ r \in [1..m -> Clusters] /\ Len(q) \in Nat
      /\ q \in Seq(Clusters) /\ Walk(T, h, q, Len(q))
  BY VolumeAssumption DEF Grown, Walk
<1>2. ASSUME ~(m <= Len(q)) PROVE FALSE
  <2>1. m > Len(q) /\ m > 0 /\ 1 \in 1..m
    BY <1>1, <1>2
  <2>2. h \in Clusters /\ Starts(T, h)
    BY <1>1, <2>1 DEF Walk
  <2>3. Len(q) <= NFatEnt - 2
    BY <1>1, <2>2, WalkShort
  <2>4. Stuck(T, h, q)
    BY <2>3, VolumeAssumption DEF Grown
  <2>5. q # <<>> /\ Len(q) \in Nat \ {0}
    <3>1. q # <<>>
      BY <2>2, <2>4 DEF Stuck
    <3> QED  BY <1>1, <3>1, EmptySeq
  <2>6. T[q[Len(q)]] \notin Clusters
    BY <2>4, <2>5 DEF Stuck
  <2>7. PICK k : k = Len(q)
    OBVIOUS
  <2>8. q[k] = r[k]
    <3>1. k \in 1..k /\ k <= m
      BY <2>1, <2>5, <2>7, <1>1
    <3>2. Walk(T, h, q, k)
      BY <1>1, <2>7
    <3> QED  BY <3>1, <3>2, WalksAgree
  <2>9. T[r[k]] = r[k + 1] /\ r[k + 1] \in Clusters
    <3>1. k \in 1..(m - 1) /\ k + 1 \in 1..m
      BY <1>1, <2>1, <2>5, <2>7
    <3> QED  BY <3>1, <1>1 DEF Walk
  <2> QED  BY <2>6, <2>7, <2>8, <2>9
<1> QED  BY <1>1, <1>2

\* A chain has no cluster twice.
Once(q) == Len(q) = Cardinality({q[i] : i \in 1..Len(q)})

\* What soundness says of the chains of a disk.
LEMMA SoundChains ==
    ASSUME NEW d, DiskOK(d), NEW L \in SUBSET Names, Sound(Tab(d), d[Dir], L, NoFiles),
           NEW n \in L, NEW q, q = Chain(d, n)
    PROVE  Entry(d, n).used =>
               /\ q \in Seq(Clusters)
               /\ \A i \in 1..Len(q) : Next_(d, q[i]) # 0
               /\ Once(q)
               /\ Entry(d, n).size <= SectorSize * Len(q)
               /\ q # <<>> => /\ Walk(Tab(d), Entry(d, n).first, q, Len(q))
                              /\ Starts(Tab(d), Entry(d, n).first)
                              /\ Claims(d[Dir], L, NoFiles, n, Entry(d, n).first)
<1> SUFFICES ASSUME Entry(d, n).used
             PROVE  /\ q \in Seq(Clusters)
                    /\ \A i \in 1..Len(q) : Next_(d, q[i]) # 0
                    /\ Once(q)
                    /\ Entry(d, n).size <= SectorSize * Len(q)
                    /\ q # <<>> => /\ Walk(Tab(d), Entry(d, n).first, q, Len(q))
                                   /\ Starts(Tab(d), Entry(d, n).first)
                                   /\ Claims(d[Dir], L, NoFiles, n, Entry(d, n).first)
  OBVIOUS
<1>1. PICK T, h, size : T = Tab(d) /\ h = Entry(d, n).first /\ size = Entry(d, n).size
  OBVIOUS
<1>2. T \in Tables /\ Proper(T) /\ \A c \in Clusters : Next_(d, c) = T[c]
  BY <1>1, TabTyped DEF Sound, Tab
<1>3. Grown(T, h, q, NFatEnt)
  BY <1>1, ChainGrown
<1>4. q \in Seq(Clusters) /\ Len(q) \in Nat /\ Walk(T, h, q, Len(q))
  BY <1>3, VolumeAssumption DEF Grown
<1>5. Room(T, h, size) /\ size \in Nat
  <2>1. d[Dir][n].used /\ h = d[Dir][n].first /\ size = d[Dir][n].size
    BY <1>1 DEF Entry
  <2>2. d[Dir][n].size \in Nat
    BY DEF DiskOK
  <2> QED  BY <2>1, <2>2, <1>1 DEF Sound
<1>6. Claims(d[Dir], L, NoFiles, n, h)
  BY <1>1 DEF Claims, Entry
<1>7. h \in Clusters => Starts(T, h)
  BY <1>1, <1>6 DEF Sound
<1>8. size <= SectorSize * Len(q)
  <2>1. PICK m \in Nat : \E r \in [1..m -> Clusters] : Walk(T, h, r, m) /\ size <= SectorSize * m
    BY <1>5 DEF Room
  <2>2. PICK r \in [1..m -> Clusters] : Walk(T, h, r, m)
    BY <2>1
  <2>3. m <= Len(q) /\ m \in Nat
    BY <1>2, <1>3, <1>7, <2>2, ChainLongest, SMTT(60)
  <2>4. PICK k \in Nat : Len(q) = m + k
    <3>1. Len(q) - m \in Nat /\ Len(q) = m + (Len(q) - m)
      BY <1>4, <2>3
    <3> QED  BY <3>1
  <2>5. SectorSize * (m + k) = SectorSize * m + SectorSize * k /\ SectorSize * m \in Nat /\ SectorSize * k \in Nat
    <3>1. SectorSize \in Nat
      BY VolumeAssumption
    <3>2. (m + k) * SectorSize = m * SectorSize + k * SectorSize
      BY <3>1, Distribute
    <3>3. m * SectorSize \in Nat /\ k * SectorSize \in Nat
      BY <3>1, Distribute
    <3>4. SectorSize * (m + k) = (m + k) * SectorSize /\ SectorSize * m = m * SectorSize /\ SectorSize * k = k * SectorSize
      BY <3>1
    <3> QED  BY <3>2, <3>3, <3>4
  <2>6. size <= SectorSize * m
    BY <2>1
  <2> QED  BY <2>4, <2>5, <2>6, <1>5
<1>9. CASE q = <<>>
  <2>1. Len(q) = 0 /\ 1..Len(q) = {}
    BY <1>9
  <2>2. {q[i] : i \in 1..Len(q)} = {}
    BY <2>1
  <2>3. Once(q)
    BY <2>1, <2>2, FS_EmptySet DEF Once
  <2> QED  BY <1>1, <1>4, <1>8, <1>9, <2>1, <2>3
<1>10. CASE q # <<>>
  <2>1. Len(q) \in Nat \ {0}
    BY <1>4, <1>10, EmptySeq
  <2>2. h \in Clusters /\ Starts(T, h)
    BY <1>4, <1>7, <2>1 DEF Walk
  <2>3. PICK m : m = Len(q)
    OBVIOUS
  <2>4. Walk(T, h, q, m)
    BY <1>4, <2>3
  <2>5. /\ Cardinality({q[i] : i \in 1..m}) = m
        /\ \A i \in 1..m : T[q[i]] # 0
    BY <1>2, <2>2, <2>4, WalkShort
  <2>6. \A i \in 1..m : Next_(d, q[i]) # 0
    <3>1. \A i \in 1..m : q[i] \in Clusters
      BY <2>4 DEF Walk
    <3> QED  BY <1>2, <2>5, <3>1
  <2>7. Once(q)
    BY <2>3, <2>5 DEF Once
  <2> QED  BY <1>1, <1>4, <1>6, <1>8, <2>2, <2>3, <2>6, <2>7
<1> QED  BY <1>9, <1>10

-----------------------------------------------------------------------------
\* The invariant, from the start and through every step.

\* The same, in the terms of the table.
LEMMA SoundWalk ==
    ASSUME NEW d, DiskOK(d), NEW L \in SUBSET Names, Sound(Tab(d), d[Dir], L, NoFiles),
           NEW n \in L, NEW q, q = Chain(d, n), NEW T, T = Tab(d), NEW g, g = Entry(d, n).first,
           NEW E, E = d[Dir]
    PROVE  Entry(d, n).used =>
               /\ q \in Seq(Clusters)
               /\ q # <<>> => Walk(T, g, q, Len(q)) /\ Starts(T, g) /\ Claims(E, L, NoFiles, n, g)
<1>1. Entry(d, n).used =>
          /\ q \in Seq(Clusters)
          /\ \A i \in 1..Len(q) : Next_(d, q[i]) # 0
          /\ Once(q)
          /\ Entry(d, n).size <= SectorSize * Len(q)
          /\ q # <<>> => /\ Walk(Tab(d), Entry(d, n).first, q, Len(q))
                         /\ Starts(Tab(d), Entry(d, n).first)
                         /\ Claims(d[Dir], L, NoFiles, n, Entry(d, n).first)
  BY SoundChains
<1> QED  BY <1>1

\* Two files of a sound disk have no cluster in common.
LEMMA SoundApart ==
    ASSUME NEW d, DiskOK(d), NEW L \in SUBSET Names, Sound(Tab(d), d[Dir], L, NoFiles),
           NEW m \in L, NEW n \in L, m # n
    PROVE  Entry(d, m).used /\ Entry(d, n).used => InChain(d, m) \intersect InChain(d, n) = {}
<1> SUFFICES ASSUME Entry(d, m).used, Entry(d, n).used,
                    NEW c \in InChain(d, m), c \in InChain(d, n)
             PROVE  FALSE
  OBVIOUS
<1>1. PICK q, r : q = Chain(d, m) /\ r = Chain(d, n)
  OBVIOUS
<1>2. PICK i \in 1..Len(q), j \in 1..Len(r) : q[i] = r[j]
  BY <1>1 DEF InChain
<1>3. PICK T, g, h, E : T = Tab(d) /\ g = Entry(d, m).first /\ h = Entry(d, n).first /\ E = d[Dir]
  OBVIOUS
<1>4. /\ q \in Seq(Clusters)
      /\ q # <<>> => Walk(T, g, q, Len(q)) /\ Starts(T, g) /\ Claims(E, L, NoFiles, m, g)
  <2>1. Entry(d, m).used =>
          /\ q \in Seq(Clusters)
          /\ q # <<>> => Walk(T, g, q, Len(q)) /\ Starts(T, g) /\ Claims(E, L, NoFiles, m, g)
    BY <1>1, <1>3, SoundWalk
  <2> QED  BY <2>1
<1>5. /\ r \in Seq(Clusters)
      /\ r # <<>> => Walk(T, h, r, Len(r)) /\ Starts(T, h) /\ Claims(E, L, NoFiles, n, h)
  <2>1. Entry(d, n).used =>
          /\ r \in Seq(Clusters)
          /\ r # <<>> => Walk(T, h, r, Len(r)) /\ Starts(T, h) /\ Claims(E, L, NoFiles, n, h)
    BY <1>1, <1>3, SoundWalk
  <2> QED  BY <2>1
<1>6. q # <<>> /\ r # <<>>
  BY <1>2, EmptySeq
<1>7. T \in Tables /\ Proper(T)
  BY <1>3, TabTyped DEF Sound
<1>8. PICK k, l : k = Len(q) /\ l = Len(r)
  OBVIOUS
<1>9. /\ Walk(T, g, q, k) /\ Starts(T, g) /\ Walk(T, h, r, l) /\ Starts(T, h)
      /\ i \in 1..k /\ j \in 1..l
  BY <1>2, <1>4, <1>5, <1>6, <1>8
<1>10. g = h
  BY <1>2, <1>7, <1>9, WalksMeet
<1>11. g \in Clusters /\ h \in Clusters
  BY <1>9 DEF Starts
<1> QED  BY <1>3, <1>4, <1>5, <1>6, <1>10, <1>11 DEF Sound

\* A volume that is found healthy is sound.
LEMMA HealthySound ==
    ASSUME NEW d, Healthy(d)
    PROVE  DiskOK(d) /\ Sound(Tab(d), d[Dir], Names, NoFiles)
<1>1. DiskOK(d)
  BY DEF Healthy
<1>2. PICK T, E : T = Tab(d) /\ E = d[Dir]
  OBVIOUS
<1>3. \A c \in Clusters : T[c] = Next_(d, c)
  BY <1>2 DEF Tab
<1>4. \A n \in Names : E[n] = Entry(d, n) /\ E[n].first \in {0} \union Clusters
  BY <1>1, <1>2 DEF Entry, DiskOK
<1>5. Proper(T)
  BY <1>3 DEF Proper, Healthy
<1>6. \A n \in Names : \A h : Claims(E, Names, NoFiles, n, h) <=> E[n].used /\ E[n].first = h
  BY NoFilesOpen DEF Claims
<1>7. ASSUME NEW n \in Names, NEW h \in Clusters, Claims(E, Names, NoFiles, n, h)
      PROVE  /\ Starts(T, h)
             /\ \A m \in Names : Claims(E, Names, NoFiles, m, h) => m = n
  <2>1. E[n].used /\ E[n].first = h /\ h # 0
    BY <1>6, <1>7, ClustersFacts
  <2>2. /\ Next_(d, h) # 0
        /\ \A c \in Clusters : Next_(d, c) # h
        /\ \A m \in Names : Entry(d, m).used /\ Entry(d, m).first = h => m = n
    BY <2>1, <1>4 DEF Healthy
  <2> QED  BY <2>1, <2>2, <1>3, <1>4, <1>6 DEF Starts
<1>8. \A n, m \in Names, g, h \in Clusters :
          Claims(E, Names, NoFiles, n, g) /\ Claims(E, Names, NoFiles, m, h) => (n = m <=> g = h)
  BY <1>6, <1>7
<1>9. ASSUME NEW n \in Names, E[n].used PROVE Room(T, E[n].first, E[n].size)
  <2>1. PICK q : q = Chain(d, n)
    OBVIOUS
  <2>2. Grown(T, Entry(d, n).first, q, NFatEnt)
    BY <1>1, <1>2, <2>1, ChainGrown
  <2>3. PICK m : m = Len(q)
    OBVIOUS
  <2>4. m \in Nat /\ q \in [1..m -> Clusters] /\ Walk(T, E[n].first, q, m)
    BY <1>4, <2>2, <2>3, VolumeAssumption DEF Grown, Walk
  <2>5. E[n].size <= SectorSize * m
    BY <1>4, <1>9, <2>1, <2>3 DEF Healthy
  <2> QED  BY <2>4, <2>5 DEF Room
<1> QED  BY <1>1, <1>2, <1>5, <1>7, <1>8, <1>9, NoFilesOpen DEF Sound

\* A volume that has just been mounted.
LEMMA MountedWell ==
    ASSUME NEW d, DiskOK(d), Sound(Tab(d), d[Dir], Names, NoFiles), NEW k,
           NEW c, c = [n \in Names |-> c[n]], IsBook(c), Uncut(c) = Names, NEW v, v = Mounted(d, k)
    PROVE  Well(v, NoFiles, c, {})
<1>1. /\ IsState(v) /\ v.disk = d /\ v.wsect = Nowhere /\ v.dirty = FALSE /\ v.last = 0
      /\ v.free = Unknown /\ v.sure = FALSE /\ v.media = {d} /\ v.res = "ok"
  BY DEF Mounted, IsState
<1>2. Seen(v) = d
  BY <1>1 DEF Seen
<1>3. Base(v)
  BY <1>1, <1>2 DEF Base
<1>4. FreeOK(v)
  BY <1>1, VolumeAssumption DEF FreeOK, Unknown
<1>5. IsFiles(NoFiles) /\ FilesOK(NoFiles)
  BY NoFilesOpen DEF IsFiles, FilesOK, NoFiles
<1>6. Names \ {} = Names
  OBVIOUS
<1> QED  BY <1>1, <1>2, <1>3, <1>4, <1>5, <1>6 DEF Well

\* The volume as found.
LEMMA InvInit == Init => Inv
<1> SUFFICES ASSUME Init PROVE Inv
  OBVIOUS
<1>1. DiskOK(FirstDisk) /\ Sound(Tab(FirstDisk), FirstDisk[Dir], Names, NoFiles)
  BY FirstDiskAssumption, HealthySound
<1>2. \A n \in Names : book[n] = NoFile \/ \E x : book[n] = [NoFile EXCEPT !.kind = "file", !.text = x]
  BY DEF Init
<1>3. ASSUME NEW n \in Names PROVE IsNote(book[n]) /\ ~book[n].cut
  <2>1. IsNote(NoFile) /\ ~NoFile.cut
    BY DEF IsNote, NoFile
  <2>2. ASSUME NEW x, NEW e, e = [NoFile EXCEPT !.kind = "file", !.text = x] PROVE IsNote(e) /\ ~e.cut
    <3>1. e = [kind |-> "file", text |-> x, settled |-> TRUE, lost |-> FALSE, cut |-> FALSE]
      BY <2>2 DEF NoFile
    <3> QED  BY <3>1 DEF IsNote
  <2> QED  BY <1>2, <2>1, <2>2
<1>4. book = [n \in Names |-> book[n]]
  BY DEF Init
<1>5. IsBook(book) /\ Uncut(book) = Names
  BY <1>3 DEF IsBook, IsNote, Uncut
<1>6. files = NoFiles /\ vol = Mounted(FirstDisk, MaxFaults)
  BY DEF Init, NoFiles
<1>7. Cut = {} /\ calls \in Nat
  BY <1>3 DEF Init, Cut
<1> QED  BY <1>1, <1>4, <1>5, <1>6, <1>7, MountedWell DEF Inv

\* Statvfs keeps the invariant and reports the number of free clusters.
LEMMA InvStatvfs ==
    ASSUME Inv, Statvfs
    PROVE  Inv' /\ (last'.op = "statvfs" /\ vol'.sure => last'.got = last'.want)
<1>1. PICK t \in f_getfree([vol EXCEPT !.media = {vol.disk}]) :
         /\ vol' = After(t) /\ UNCHANGED <<files, book>> /\ calls' = calls + 1
         /\ t.res = "ok" =>
               last' = [Quiet("statvfs", {}) EXCEPT !.got = <<t.free>>, !.want = <<FreeNow(t)>>]
         /\ t.res # "ok" => last' = Quiet("statvfs", {})
  BY DEF Statvfs
<1>2. PICK s : s = Alone0(vol)
  OBVIOUS
<1>3. Fine(s, Uncut(book), files) /\ s.res = "ok" /\ Uncut(book) \in SUBSET Names
  BY <1>2, CallBegins0 DEF Inv
<1>4. /\ Worked(s, t, Uncut(book), files)
      /\ t.res = "ok" /\ t.sure => t.free = Cardinality(Zeros(Tab(Seen(t))))
  <2>1. t \in f_getfree(s)
    BY <1>1, <1>2, Zenon DEF Alone0
  <2>2. PICK L, F : L = Uncut(book) /\ F = files
    OBVIOUS
  <2>3. L \in SUBSET Names /\ Fine(s, L, F)
    BY <1>3, <2>2
  <2>4. /\ Worked(s, t, L, F)
        /\ t.res = "ok" /\ t.sure => t.free = Cardinality(Zeros(Tab(Seen(t))))
    BY <1>3, <2>1, <2>3, GettingFree
  <2> QED  BY <2>2, <2>4
<1>5. Fine(t, Uncut(book), files)
  BY <1>4 DEF Worked
<1>6. last'.cut = {m \in Names : book[m].cut}
  <2>1. PICK q : q = Quiet("statvfs", {})
    OBVIOUS
  <2>2. q = [op |-> "statvfs", names |-> {}, got |-> <<>>, want |-> <<>>,
             cut |-> {m \in Names : book[m].cut}, stray |-> last.stray]
    BY <2>1 DEF Quiet
  <2>3. PICK x, y : x = <<t.free>> /\ y = <<FreeNow(t)>>
    OBVIOUS
  <2>4. [q EXCEPT !.got = x, !.want = y].cut = q.cut
    BY <2>2
  <2>5. t.res = "ok" => last' = [q EXCEPT !.got = x, !.want = y]
    BY <1>1, <2>1, <2>3
  <2>6. t.res # "ok" => last' = q
    BY <1>1, <2>1
  <2>7. q.cut = {m \in Names : book[m].cut}
    BY <2>2
  <2> QED  BY <2>4, <2>5, <2>6, <2>7
<1>7. book' = [n \in Names |-> book'[n]] /\ IsBook(book)' /\ Uncut(book)' = Uncut(book)
  BY <1>1 DEF Inv, Well, IsBook, Uncut
<1>8. Inv'
  BY <1>1, <1>5, <1>6, <1>7, PlainFinish
<1>9. ASSUME last'.op = "statvfs", vol'.sure PROVE last'.got = last'.want
  <2>1. CASE t.res = "ok"
    <3>1. t.sure
      BY <1>1, <1>5, <1>9, AfterFacts
    <3>2. FreeNow(t) = Cardinality(Zeros(Tab(Seen(t))))
      <4>1. {c \in Clusters : Next_(Seen(t), c) = 0} = Zeros(Tab(Seen(t)))
        BY DEF Zeros, Tab
      <4> QED  BY <4>1 DEF FreeNow
    <3>3. last'.got = <<t.free>> /\ last'.want = <<FreeNow(t)>>
      BY <1>1, <2>1 DEF Quiet
    <3> QED  BY <1>4, <2>1, <3>1, <3>2, <3>3
  <2>2. CASE t.res # "ok"
    BY <1>1, <2>2 DEF Quiet
  <2> QED  BY <2>1, <2>2
<1> QED  BY <1>8, <1>9

\* Rename keeps the invariant.
LEMMA InvRename ==
    ASSUME Inv, NEW old \in Names, NEW new \in Names, Rename(old, new), ~Abandoned(old), ~Abandoned(new)
    PROVE  Inv'
<1>1. PICK t \in f_rename(Before(old), old, new) :
         /\ old # new /\ ~files[old].open /\ ~files[new].open
         /\ vol' = After(t) /\ UNCHANGED files
         /\ book' = CASE t.res = "ok" ->
                            [book EXCEPT ![new] = [book[old] EXCEPT !.settled = TRUE], ![old] = NoFile]
                      [] t.res \in {"no_file", "exist"} -> book
                      [] OTHER -> [book EXCEPT ![new] = Unsure(book[new]), ![old] = Unsure(book[old])]
         /\ last' = Quiet("rename", {old, new}) /\ calls' = calls + 1
  BY DEF Rename
<1>2. PICK s : s = Before(old)
  OBVIOUS
<1>3. /\ s.res = "ok" /\ Uncut(book) \in SUBSET Names /\ IsFiles(files) /\ IsNote(book[old])
      /\ IsBook(book) /\ Fine(s, Uncut(book), files) /\ old \in Uncut(book) /\ new \in Uncut(book)
  BY <1>1, <1>2, Begun, NotAbandoned
<1>4. Did(s, t, Uncut(book), files)
  BY <1>1, <1>2, <1>3, Renaming
<1>5. Fine(t, Uncut(book), files)
  BY <1>4 DEF Did
<1>6. book = [n \in Names |-> book[n]] /\ ~book[old].cut /\ ~book[new].cut
  BY <1>3 DEF Inv, Well, Uncut
<1>7. /\ book' = [n \in Names |-> book'[n]]
      /\ \A n \in Names : n \notin {old, new} => book'[n] = book[n]
      /\ IsNote(book'[old]) /\ IsNote(book'[new]) /\ ~book'[old].cut /\ ~book'[new].cut
  <2>1. CASE t.res = "ok"
    <3>1. PICK e : e = [book[old] EXCEPT !.settled = TRUE]
      OBVIOUS
    <3>2. IsNote(e) /\ e.cut = book[old].cut
      <4>1. PICK b : b = book[old]
        OBVIOUS
      <4>2. e = [kind |-> b.kind, text |-> b.text, settled |-> TRUE, lost |-> b.lost, cut |-> b.cut]
        BY <1>3, <3>1, <4>1 DEF IsNote
      <4> QED  BY <4>1, <4>2 DEF IsNote
    <3>3. book' = [book EXCEPT ![new] = e, ![old] = NoFile]
      BY <1>1, <2>1, <3>1
    <3>4. book'[new] = e /\ book'[old] = NoFile /\ book' = [n \in Names |-> book'[n]]
          /\ \A n \in Names : n \notin {old, new} => book'[n] = book[n]
      BY <1>1, <1>6, <3>3
    <3> QED  BY <1>3, <1>6, <3>2, <3>4, NoteFacts
  <2>2. CASE t.res \in {"no_file", "exist"}
    <3>1. book' = book
      BY <1>1, <2>2
    <3>2. IsNote(book[new])
      BY <1>3, NoteFacts
    <3> QED  BY <1>3, <1>6, <3>1, <3>2
  <2>3. CASE t.res \notin {"ok", "no_file", "exist"}
    <3>1. PICK e, g : e = Unsure(book[new]) /\ g = Unsure(book[old])
      OBVIOUS
    <3>2. book' = [book EXCEPT ![new] = e, ![old] = g]
      BY <1>1, <2>3, <3>1
    <3>3. book'[new] = e /\ book'[old] = g /\ book' = [n \in Names |-> book'[n]]
          /\ \A n \in Names : n \notin {old, new} => book'[n] = book[n]
      BY <1>1, <1>6, <3>2
    <3>4. IsNote(e) /\ IsNote(g) /\ (e.cut <=> book[new].cut) /\ (g.cut <=> book[old].cut)
      BY <1>3, <3>1, NoteFacts
    <3> QED  BY <1>6, <3>3, <3>4
  <2> QED  BY <2>1, <2>2, <2>3
<1>8. IsBook(book)' /\ Uncut(book)' = Uncut(book)
  BY <1>3, <1>6, <1>7 DEF IsBook, IsNote, Uncut
<1>9. last'.cut = {m \in Names : book[m].cut}
  BY <1>1, QuietCut
<1> QED  BY <1>1, <1>5, <1>7, <1>8, <1>9, PlainFinish

\* Crash keeps the invariant: it mounts a disk that is sound.
LEMMA InvCrash ==
    ASSUME Inv, Crash
    PROVE  Inv'
<1>1. PICK d \in vol.media :
         /\ Cut = {} /\ vol' = Mounted(d, vol.faults)
         /\ book' = [n \in Names |->
                        IF book[n].kind # "unknown" /\ Holds(d, n)
                        THEN [book[n] EXCEPT !.settled = TRUE, !.lost = FALSE]
                        ELSE Unsure([book[n] EXCEPT !.lost = FALSE])]
         /\ files' = NoFiles /\ last' = [Quiet("crash", {}) EXCEPT !.stray = FALSE] /\ calls' = calls + 1
  BY DEF Crash, NoFiles
<1>2. DiskOK(d) /\ Sound(Tab(d), d[Dir], Names, NoFiles)
  <2>1. Sound(Tab(d), d[Dir], Names \ Cut, NoFiles) /\ DiskOK(d)
    BY DEF Inv, Well, Base
  <2>2. Names \ Cut = Names
    BY <1>1
  <2> QED  BY <2>1, <2>2
<1>3. ASSUME NEW n \in Names PROVE IsNote(book'[n]) /\ ~book'[n].cut
  <2>1. PICK b : b = book[n]
    OBVIOUS
  <2>2. IsNote(b) /\ ~b.cut
    <3>1. IsBook(book)
      BY DEF Inv, Well
    <3> QED  BY <1>1, <2>1, <3>1, NoteFacts DEF Cut
  <2>3. PICK e, g : e = [b EXCEPT !.settled = TRUE, !.lost = FALSE] /\ g = [b EXCEPT !.lost = FALSE]
    OBVIOUS
  <2>4. e = [kind |-> b.kind, text |-> b.text, settled |-> TRUE, lost |-> FALSE, cut |-> b.cut]
    BY <2>2, <2>3 DEF IsNote
  <2>5. Unsure(g) = [kind |-> "unknown", text |-> <<>>, settled |-> FALSE, lost |-> FALSE, cut |-> b.cut]
    <3>1. g = [kind |-> b.kind, text |-> b.text, settled |-> b.settled, lost |-> FALSE, cut |-> b.cut]
      BY <2>2, <2>3 DEF IsNote
    <3>2. Unsure(g) = [g EXCEPT !.kind = "unknown", !.text = <<>>, !.settled = FALSE]
      BY DEF Unsure
    <3> QED  BY <3>1, <3>2
  <2>6. IsNote(e) /\ e.cut = b.cut /\ IsNote(Unsure(g)) /\ Unsure(g).cut = b.cut
    BY <2>4, <2>5 DEF IsNote
  <2>7. book'[n] = e \/ book'[n] = Unsure(g)
    BY <1>1, <2>1, <2>3
  <2> QED  BY <2>2, <2>6, <2>7
<1>4. book' = [n \in Names |-> book'[n]]
  BY <1>1
<1>5. PICK c, v, cut : c = book' /\ v = vol' /\ cut = Cut'
  OBVIOUS
<1>6. c = [n \in Names |-> c[n]] /\ IsBook(c) /\ Uncut(c) = Names
  BY <1>3, <1>4, <1>5 DEF IsBook, IsNote, Uncut
<1>7. cut = {}
  <2>1. \A n \in Names : ~book[n].cut
    BY <1>1 DEF Cut
  <2>2. last'.cut = {}
    <3>1. last'.cut = {m \in Names : book[m].cut}
      <4>1. last' = [Quiet("crash", {}) EXCEPT !.stray = FALSE]
        BY <1>1
      <4> QED  BY <4>1, QuietCut
    <3> QED  BY <2>1, <3>1
  <2> QED  BY <1>3, <1>5, <2>2 DEF Cut
<1>8. Well(v, NoFiles, c, cut)
  <2>1. PICK k : k = vol.faults
    OBVIOUS
  <2>2. v = Mounted(d, k)
    BY <1>1, <1>5, <2>1
  <2>3. Well(v, NoFiles, c, {})
    <3> HIDE <1>5
    <3> QED  BY <1>2, <1>6, <2>2, MountedWell
  <2> QED  BY <1>7, <2>3
<1>9. files' = NoFiles /\ calls' \in Nat
  <2>1. calls \in Nat
    BY DEF Inv
  <2>2. calls' = calls + 1
    BY DEF Crash
  <2>3. files' = NoFiles
    BY DEF Crash, NoFiles
  <2> QED  BY <2>1, <2>2, <2>3
<1> QED  BY <1>5, <1>8, <1>9, SMTT(60) DEF Inv

\* Every step keeps the invariant.
LEMMA InvNext ==
    ASSUME Inv, [Next]_vars
    PROVE  Inv'
<1>1. CASE Next
  <2>1. \A n \in Names : ~Abandoned(n)
    BY <1>1 DEF Next
  <2>2. CASE \E n \in Names, flags \in OpenFlags : Open(n, flags)
    BY <2>1, <2>2, InvOpen
  <2>3. CASE \E n \in Names, len \in Lengths : Write(n, len)
    BY <2>3, InvWrite
  <2>4. CASE \E n \in Names, len \in Lengths : Read(n, len)
    BY <2>4, InvRead
  <2>5. CASE \E n \in Names, ofs \in Offsets : Seek(n, ofs)
    BY <2>5, InvSeek
  <2>6. CASE \E n \in Names : Truncate(n)
    BY <2>6, InvTruncate
  <2>7. CASE \E n \in Names : Sync(n)
    BY <2>7, InvSync
  <2>8. CASE \E n \in Names : Close(n)
    BY <2>8, InvClose
  <2>9. CASE \E n \in Names : Unlink(n)
    BY <2>1, <2>9, InvUnlink
  <2>10. CASE \E n, m \in Names : Rename(n, m)
    BY <2>1, <2>10, InvRename
  <2>11. CASE Statvfs
    BY <2>11, InvStatvfs
  <2>12. CASE Crash
    BY <2>12, InvCrash
  <2> QED
    BY <1>1, <2>2, <2>3, <2>4, <2>5, <2>6, <2>7, <2>8, <2>9, <2>10, <2>11, <2>12 DEF Next
<1>2. CASE UNCHANGED vars
  <2>1. /\ vol' = vol /\ files' = files /\ book' = book /\ last' = last /\ calls' = calls
    BY <1>2 DEF vars
  <2>2. Cut' = Cut
    BY <2>1 DEF Cut
  <2> QED  BY <2>1, <2>2 DEF Inv
<1> QED  BY <1>1, <1>2

\* Types, from the invariant.
LEMMA InvTypes == Inv => FatTypeOK
<1> SUFFICES ASSUME Inv PROVE FatTypeOK
  OBVIOUS
<1>1. Base(vol) /\ FreeOK(vol) /\ FilesOK(files)
  BY DEF Inv, Well
<1>2. DOMAIN vol.disk = Sectors
  <2>1. DiskOK(vol.disk)
    BY <1>1 DEF Base
  <2>2. PICK d : d = vol.disk
    OBVIOUS
  <2>3. d = [x \in Sectors |-> d[x]]
    BY <2>1, <2>2 DEF DiskOK
  <2> QED  BY <2>2, <2>3
<1>3. vol.wsect \in Sectors \union {Nowhere} /\ (vol.dirty => vol.wsect # Nowhere)
  BY <1>1 DEF Base, Sectors, FatSectors
<1>4. vol.last \in 0..(NFatEnt - 1) /\ vol.free \in 0..Unknown
  BY <1>1 DEF FreeOK
<1>5. ASSUME NEW n \in Names, files[n].open
      PROVE  /\ files[n].err = "ok" => files[n].ptr <= files[n].size
             /\ ~files[n].write => ~files[n].dirty
  BY <1>1, <1>5 DEF FilesOK, IsFile
<1> QED  BY <1>2, <1>3, <1>4, <1>5 DEF FatTypeOK

\* Every content of the disk in a call is sound, from the invariant.
LEMMA InvSound == Inv => CrashSound
<1> SUFFICES ASSUME Inv, NEW d \in vol.media,
                    NEW L, L = Names \ Cut, NEW M, M = {n \in Names : Entry(d, n).used} \ Cut
             PROVE  /\ \A n \in M :
                           LET q == Chain(d, n) IN
                           /\ \A i \in 1..Len(q) : Next_(d, q[i]) # 0
                           /\ Len(q) = Cardinality({q[i] : i \in 1..Len(q)})
                           /\ Entry(d, n).size <= SectorSize * Len(q)
                    /\ \A m, n \in M : m # n => InChain(d, m) \intersect InChain(d, n) = {}
  BY DEF CrashSound
<1>1. DiskOK(d) /\ Sound(Tab(d), d[Dir], L, NoFiles) /\ L \in SUBSET Names
  BY DEF Inv, Well, Base
<1>2. \A n \in M : n \in L /\ Entry(d, n).used
  OBVIOUS
<1>3. ASSUME NEW n \in M, NEW q, q = Chain(d, n)
      PROVE  /\ \A i \in 1..Len(q) : Next_(d, q[i]) # 0
             /\ Len(q) = Cardinality({q[i] : i \in 1..Len(q)})
             /\ Entry(d, n).size <= SectorSize * Len(q)
  <2>1. /\ \A i \in 1..Len(q) : Next_(d, q[i]) # 0
        /\ Once(q)
        /\ Entry(d, n).size <= SectorSize * Len(q)
    BY <1>1, <1>2, <1>3, SoundChains
  <2>2. Len(q) = Cardinality({q[i] : i \in 1..Len(q)})
    BY <2>1 DEF Once
  <2> QED  BY <2>1, <2>2
<1>4. ASSUME NEW m \in M, NEW n \in M, m # n
      PROVE  InChain(d, m) \intersect InChain(d, n) = {}
  BY <1>1, <1>2, <1>4, SoundApart
<1> QED  BY <1>3, <1>4

\* Only statvfs_r reports a count.
LEMMA CountReported ==
    ASSUME Inv, [Next]_vars, FreeCountKept
    PROVE  FreeCountKept'
<1>1. CASE Statvfs
  BY <1>1, InvStatvfs DEF FreeCountKept
<1>2. CASE UNCHANGED vars
  BY <1>2 DEF vars, FreeCountKept
<1>3. CASE Next /\ ~Statvfs
  <2>1. last'.op # "statvfs"
    <3>1. CASE \E n \in Names, flags \in OpenFlags : Open(n, flags)
      <4>1. PICK n \in Names, flags \in OpenFlags : Open(n, flags)
        BY <3>1
      <4>2. last' = Quiet("open", {n})
        BY <4>1, Zenon DEF Open, Finish
      <4> QED  BY <4>2, QuietCut
    <3>2. CASE \E n \in Names, len \in Lengths : Write(n, len)
      <4>1. PICK n \in Names, len \in Lengths : Write(n, len)
        BY <3>2
      <4>2. last' = Quiet("write", {n})
        BY <4>1, Zenon DEF Write, Finish
      <4> QED  BY <4>2, QuietCut
    <3>3. CASE \E n \in Names, len \in Lengths : Read(n, len)
      <4>1. PICK n \in Names, len \in Lengths : Read(n, len)
        BY <3>3
      <4>2. PICK q : q = Quiet("read", {n})
        OBVIOUS
      <4>3. q = [op |-> "read", names |-> {n}, got |-> <<>>, want |-> <<>>,
                 cut |-> {m \in Names : book[m].cut}, stray |-> last.stray]
        BY <4>2 DEF Quiet
      <4>4. \E x, y : last' = q \/ last' = [q EXCEPT !.got = x, !.want = y]
        BY <4>1, <4>2, ZenonT(60) DEF Read, Finish
      <4>5. q.op = "read" /\ \A x, y : [q EXCEPT !.got = x, !.want = y].op = "read"
        <5>1. ASSUME NEW x, NEW y PROVE [q EXCEPT !.got = x, !.want = y].op = "read"
          BY <4>3
        <5> QED  BY <4>3, <5>1
      <4>6. last'.op = "read"
        BY <4>4, <4>5
      <4> QED  BY <4>6
    <3>4. CASE \E n \in Names, ofs \in Offsets : Seek(n, ofs)
      BY <3>4, QuietCut DEF Seek, Finish
    <3>5. CASE \E n \in Names : Truncate(n)
      BY <3>5, QuietCut DEF Truncate, Finish
    <3>6. CASE \E n \in Names : Sync(n)
      BY <3>6, QuietCut DEF Sync, Finish
    <3>7. CASE \E n \in Names : Close(n)
      BY <3>7, QuietCut DEF Close, Finish
    <3>8. CASE \E n \in Names : Unlink(n)
      BY <3>8, QuietCut DEF Unlink, Finish
    <3>9. CASE \E n, m \in Names : Rename(n, m)
      BY <3>9, QuietCut DEF Rename
    <3>10. CASE Crash
      <4>1. last' = [Quiet("crash", {}) EXCEPT !.stray = FALSE]
        BY <3>10, Zenon DEF Crash
      <4> QED  BY <4>1, QuietCut
    <3> QED
      BY <1>3, <3>1, <3>2, <3>3, <3>4, <3>5, <3>6, <3>7, <3>8, <3>9, <3>10 DEF Next
  <2> QED  BY <2>1 DEF FreeCountKept
<1> QED  BY <1>1, <1>2, <1>3

\* Types: FatTypeOK holds in every reachable state.
THEOREM FatTypes == Spec => []FatTypeOK
<1>1. Init => Inv
  BY InvInit
<1>2. Inv /\ [Next]_vars => Inv'
  BY InvNext
<1>3. Inv => FatTypeOK
  BY InvTypes
<1> QED  BY <1>1, <1>2, <1>3, PTL DEF Spec

\* Whatever the moment the power goes at, every file on the disk has its own
\* clusters.
THEOREM CrashFindsSound == Spec => []CrashSound
<1>1. Init => Inv
  BY InvInit
<1>2. Inv /\ [Next]_vars => Inv'
  BY InvNext
<1>3. Inv => CrashSound
  BY InvSound
<1> QED  BY <1>1, <1>2, <1>3, PTL DEF Spec

\* The count statvfs reports is that of the free clusters.
THEOREM CountIsRight == Spec => []FreeCountKept
<1>1. Init => Inv /\ FreeCountKept
  <2>1. Init => FreeCountKept
    <3>1. Init => last = [op |-> "none", names |-> {}, got |-> <<>>, want |-> <<>>, cut |-> {},
                              stray |-> FALSE]
      BY Zenon DEF Init
    <3> QED  BY <3>1 DEF FreeCountKept
  <2> QED  BY <2>1, InvInit
<1>2. Inv /\ [Next]_vars => Inv'
  BY InvNext
<1>3. Inv /\ FreeCountKept /\ [Next]_vars => FreeCountKept'
  BY CountReported
<1> QED  BY <1>1, <1>2, <1>3, PTL DEF Spec

-----------------------------------------------------------------------------
\* Loops end: the bound of each is never reached with a turn to go.

\* The turns left, of the states of P, become fewer.
Shrinks(left, P, U, kind, start) ==
    \A y \in P : y.go =>
        /\ left[y] \in Nat \ {0}
        /\ \A z \in AnyTurn(kind, start, y) : z \in U => z \in P /\ (z.go => left[z] < left[y])

\* The loop from x is over after n turns, whatever its turns do.
Complete(kind, start, x, n) ==
    \A run : IsRun(run, kind, start, x, n) => \A y \in run[n] : ~y.go

\* A run ends within the turns that are left.
LEMMA RunEnds ==
    ASSUME NEW kind, NEW start, NEW x, NEW n \in Nat, NEW run, IsRun(run, kind, start, x, n)
    PROVE  \E U : /\ x \in U
                  /\ \A P \in SUBSET U : \A left :
                         /\ x \in P /\ (x.go => left[x] <= n)
                         /\ Shrinks(left, P, U, kind, start)
                         => \A y \in run[n] : ~y.go
<1> DEFINE U == UNION {run[k] : k \in 0..n}
<1>0. \A k \in 0..n : run[k] = IF k = 0 THEN {x} ELSE AnyNext(kind, start, run[k - 1])
  BY DEF IsRun
<1>1. \A k \in 0..n : run[k] \subseteq U
  OBVIOUS
<1>2. x \in U
  <2>1. 0 \in 0..n /\ x \in run[0]
    BY <1>0
  <2> QED  BY <2>1, <1>1
<1>3. ASSUME NEW P \in SUBSET U, NEW left, x \in P, x.go => left[x] <= n,
             Shrinks(left, P, U, kind, start)
      PROVE  \A y \in run[n] : ~y.go
  <2> DEFINE In == {k \in 0..n : \A y \in run[k] : y \in P /\ (y.go => left[y] <= n - k)}
  <2>1. 0 \in In
    BY <1>0, <1>3
  <2>2. ASSUME NEW k \in 1..n, k - 1 \in In PROVE k \in In
    <3>1. k \in 0..n /\ k # 0 /\ \A y \in run[k - 1] : y \in P /\ (y.go => left[y] <= n - (k - 1))
      BY <2>2
    <3>2. run[k] = AnyNext(kind, start, run[k - 1])
      BY <3>1, <1>0
    <3>3. ASSUME NEW z \in run[k] PROVE z \in P /\ (z.go => left[z] <= n - k)
      <4>1. PICK y \in run[k - 1] : z \in IF y.go THEN AnyTurn(kind, start, y) ELSE {y}
        BY <3>2 DEF AnyNext
      <4>2. y \in P /\ z \in U /\ (y.go => left[y] <= n - (k - 1))
        BY <3>1, <1>1, <3>3, <4>1
      <4>3. CASE ~y.go
        BY <4>1, <4>2, <4>3
      <4>4. CASE y.go
        <5>1. left[y] \in Nat \ {0} /\ z \in P /\ (z.go => left[z] < left[y])
          BY <4>1, <4>2, <4>4, <1>3 DEF Shrinks
        <5>2. z.go => left[z] \in Nat
          BY <5>1, <1>3 DEF Shrinks
        <5> QED  BY <4>2, <4>4, <5>1, <5>2
      <4> QED  BY <4>3, <4>4
    <3> QED  BY <3>1, <3>3
  <2>3. n \in In
    <3> HIDE DEF In
    <3> QED  BY <2>1, <2>2, Counting
  <2>4. \A y \in run[n] : y \in P /\ (y.go => left[y] <= n - n)
    BY <2>3
  <2> QED  BY <2>4, <1>3 DEF Shrinks
<1> HIDE DEF U
<1> QED  BY <1>2, <1>3

\* The count of f_getfree looks at every cluster once.
LEMMA CountComplete ==
    ASSUME NEW s
    PROVE  Complete("count", 0, [s |-> s, at |-> 2, go |-> TRUE], NFatEnt - 2)
<1>1. PICK n, x : n = NFatEnt - 2 /\ x = [s |-> s, at |-> 2, go |-> TRUE]
  OBVIOUS
<1>2. n \in Nat /\ NFatEnt \in Nat /\ x.at = 2 /\ NFatEnt > 2
  BY <1>1, VolumeAssumption
<1>3. ASSUME NEW run, IsRun(run, "count", 0, x, n) PROVE \A y \in run[n] : ~y.go
  <2>1. PICK U : /\ x \in U
                 /\ \A P \in SUBSET U : \A left :
                        /\ x \in P /\ (x.go => left[x] <= n)
                        /\ Shrinks(left, P, U, "count", 0)
                        => \A y \in run[n] : ~y.go
    BY <1>2, <1>3, RunEnds
  <2> DEFINE P == {y \in U : y.go => y.at \in Nat /\ y.at < NFatEnt}
             left == [y \in U |-> NFatEnt - y.at]
  <2>2. x \in P /\ left[x] <= n
    BY <1>1, <1>2, <2>1
  <2>3. ASSUME NEW y \in P, y.go, NEW z \in CountTurn(y), z \in U
        PROVE  left[y] \in Nat \ {0} /\ z \in P /\ (z.go => left[z] < left[y])
    <3>1. PICK g \in get_fat(y.s, y.at) :
             z = [s |-> IF g.res = "ok" /\ g.val = 0 THEN [g EXCEPT !.free = @ + 1] ELSE g,
                  at |-> y.at + 1, go |-> g.res = "ok" /\ y.at + 1 < NFatEnt]
      BY <2>3 DEF CountTurn
    <3>2. PICK a, b : a = y.at + 1 /\ b = (g.res = "ok" /\ y.at + 1 < NFatEnt)
      OBVIOUS
    <3>3. \E v : z = [s |-> v, at |-> a, go |-> b]
      BY <3>1, <3>2
    <3>4. z.at = a /\ (z.go => b)
      BY <3>3
    <3>5. z.at = y.at + 1 /\ (z.go => y.at + 1 < NFatEnt)
      BY <3>2, <3>4
    <3>6. y \in U /\ y.at \in Nat /\ y.at < NFatEnt
      BY <2>3
    <3>7. z \in P
      BY <3>5, <3>6, <2>3
    <3>8. left[y] = NFatEnt - y.at /\ left[z] = NFatEnt - z.at
      BY <3>6, <2>3
    <3> HIDE DEF left, P
    <3> QED  BY <3>5, <3>6, <3>7, <3>8, <1>2
  <2>4. \A y \in P : y.go => left[y] \in Nat \ {0}
    BY <1>2
  <2>5. Shrinks(left, P, U, "count", 0)
    <3> HIDE DEF P, left
    <3> QED  BY <2>3, <2>4 DEF Shrinks, AnyTurn
  <2> HIDE DEF left
  <2> QED  BY <2>1, <2>2, <2>5
<1>4. Complete("count", 0, x, n)
  BY <1>3 DEF Complete
<1> QED  BY <1>4, <1>1

\* The search of create_chain comes to no cluster twice.
LEMMA SearchComplete ==
    ASSUME NEW s, NEW start \in 1..(NFatEnt - 1)
    PROVE  Complete("search", start, [s |-> s, at |-> start, go |-> TRUE], NFatEnt - 1)
<1>1. PICK n, x : n = NFatEnt - 1 /\ x = [s |-> s, at |-> start, go |-> TRUE]
  OBVIOUS
<1>2. n \in Nat /\ NFatEnt \in Nat /\ x.at = start /\ NFatEnt > 2 /\ start \in Nat
      /\ n = NFatEnt - 1 /\ start <= n /\ start >= 1
  BY <1>1, VolumeAssumption
<1>3. ASSUME NEW run, IsRun(run, "search", start, x, n) PROVE \A y \in run[n] : ~y.go
  <2>1. PICK U : /\ x \in U
                 /\ \A P \in SUBSET U : \A left :
                        /\ x \in P /\ (x.go => left[x] <= n)
                        /\ Shrinks(left, P, U, "search", start)
                        => \A y \in run[n] : ~y.go
    <3>1. n \in Nat
      BY <1>2
    <3> QED  BY <3>1, <1>3, RunEnds
  <2> DEFINE P == {y \in U : y = [s |-> y.s, at |-> y.at, go |-> y.go] /\ (y.go => y.at \in 1..n)}
             Left(at) == IF at < start THEN start - at
                         ELSE (n - at) + (IF start = 1 THEN 1 ELSE start - 1)
             left == [y \in U |-> Left(y.at)]
  <2>2. x \in P /\ left[x] <= n
    BY <1>1, <1>2, <2>1
  <2>3. \A a \in 1..n : Left(a) \in Nat \ {0}
    BY <1>2
  <2>4. ASSUME NEW y \in P, y.go, NEW z \in SearchTurn(y, start), z \in U
        PROVE  z \in P /\ (z.go => left[z] < left[y])
    <3> DEFINE new == IF y.at + 1 >= NFatEnt THEN 2 ELSE y.at + 1
    <3>1. y.at \in 1..n /\ left[y] = Left(y.at) /\ left[z] = Left(z.at)
      BY <2>4
    <3>2. CASE y.at + 1 >= NFatEnt /\ new > start
      <4>1. z = [y EXCEPT !.at = 0, !.go = FALSE]
        BY <2>4, <3>2 DEF SearchTurn
      <4>2. z = [s |-> y.s, at |-> 0, go |-> FALSE]
        BY <4>1, <2>4
      <4> QED  BY <4>2, <2>4
    <3>3. CASE ~(y.at + 1 >= NFatEnt /\ new > start)
      <4>1. PICK g \in get_fat(y.s, new) : \E v :
               /\ g.res = "ok" /\ g.val = 1 => v = [g EXCEPT !.res = "int_err"]
               /\ ~(g.res = "ok" /\ g.val = 1) => v = g
               /\ z = [s |-> v, at |-> IF v.val # 0 /\ new = start THEN 0 ELSE new,
                       go |-> v.res = "ok" /\ v.val # 0 /\ new # start]
        BY <2>4, <3>3 DEF SearchTurn, Then, Error
      <4>2. PICK v, a, b : /\ z = [s |-> v, at |-> a, go |-> b] /\ (b => new # start)
                           /\ (new # start => a = new)
        BY <4>1
      <4>3. new # start => new \in 1..n /\ Left(new) < Left(y.at)
        BY <1>2, <3>1, <3>3
      <4>4. z = [s |-> z.s, at |-> z.at, go |-> z.go] /\ (z.go => new # start /\ z.at = new)
        BY <4>2
      <4> QED  BY <4>3, <4>4, <3>1, <2>4
    <3> QED  BY <3>2, <3>3
  <2>5. \A y \in P : y.go => left[y] \in Nat \ {0}
    BY <2>3
  <2>6. Shrinks(left, P, U, "search", start)
    <3> HIDE DEF P, left
    <3> QED  BY <2>4, <2>5 DEF Shrinks, AnyTurn
  <2> HIDE DEF left
  <2> QED  BY <2>1, <2>2, <2>6
<1>4. Complete("search", start, x, n)
  BY <1>3 DEF Complete
<1> QED  BY <1>4, <1>1

\* A seek moves on by a cluster in each turn.
LEMMA SeekComplete ==
    ASSUME NEW s, NEW ofs \in Nat
    PROVE  Complete("seek", 0, [s |-> s, at |-> ofs, go |-> ofs > SectorSize], ofs)
<1>1. PICK x : x = [s |-> s, at |-> ofs, go |-> ofs > SectorSize]
  OBVIOUS
<1>2. SectorSize \in Nat \ {0} /\ x.at = ofs /\ (x.go => ofs > SectorSize)
  BY <1>1, VolumeAssumption
<1>3. ASSUME NEW run, IsRun(run, "seek", 0, x, ofs) PROVE \A y \in run[ofs] : ~y.go
  <2>1. PICK U : /\ x \in U
                 /\ \A P \in SUBSET U : \A left :
                        /\ x \in P /\ (x.go => left[x] <= ofs)
                        /\ Shrinks(left, P, U, "seek", 0)
                        => \A y \in run[ofs] : ~y.go
    BY <1>3, RunEnds
  <2> DEFINE P == {y \in U : y.go => y.at \in Nat /\ y.at > SectorSize}
             left == [y \in U |-> y.at]
  <2>2. x \in P /\ left[x] <= ofs
    BY <1>2, <2>1
  <2>3. ASSUME NEW y \in P, y.go, NEW z \in SeekTurn(y), z \in U
        PROVE  z \in P /\ (z.go => left[z] < left[y])
    <3>1. PICK t \in get_fat(y.s, y.s.f.clust) \union create_chain(y.s, y.s.f.clust) :
             \/ t.res = "ok" /\ z = [s |-> t, at |-> SectorSize, go |-> FALSE]
             \/ t.res = "ok" /\ t.val \in Clusters /\
                  z = [s |-> [t EXCEPT !.f.clust = t.val, !.f.ptr = @ + SectorSize],
                       at |-> y.at - SectorSize, go |-> y.at - SectorSize > SectorSize]
             \/ z = [s |-> IF t.res = "ok" THEN [t EXCEPT !.res = "int_err"] ELSE t,
                        at |-> y.at, go |-> FALSE]
      BY DEF SeekTurn
    <3>2. PICK a, b : /\ b = (y.at - SectorSize > SectorSize) /\ a = y.at - SectorSize
      OBVIOUS
    <3>3. \E v : z = [s |-> v, at |-> a, go |-> b] \/ \E c : z = [s |-> v, at |-> c, go |-> FALSE]
      BY <3>1, <3>2
    <3>4. z.go => z.at = a /\ b
      BY <3>3
    <3>5. z.go => z.at = y.at - SectorSize /\ z.at > SectorSize
      BY <3>2, <3>4
    <3> QED  BY <3>5, <1>2, <2>3
  <2>4. \A y \in P : y.go => left[y] \in Nat \ {0}
    BY <1>2
  <2>5. Shrinks(left, P, U, "seek", 0)
    <3> HIDE DEF P, left
    <3> QED  BY <2>3, <2>4 DEF Shrinks, AnyTurn
  <2> HIDE DEF left
  <2> QED  BY <2>1, <2>2, <2>5
<1>4. Complete("seek", 0, x, ofs)
  BY <1>3 DEF Complete
<1> QED  BY <1>4, <1>1

\* A turn of remove_chain's loop that goes on has freed one more cluster.
LEMMA FreeingMore ==
    ASSUME NEW s, Base(s), s.res = "ok", NEW c, NEW t \in FreeCluster(s, c), t.res = "ok", t.val \in Clusters
    PROVE  /\ Base(t) /\ Tab(Seen(s)) \in Tables /\ Tab(Seen(t)) \in Tables
           /\ Cardinality(Zeros(Tab(Seen(t)))) = Cardinality(Zeros(Tab(Seen(s)))) + 1
<1>1. PICK g \in get_fat(s, c) :
         /\ g.res # "ok" \/ g.val = 0 => t = g
         /\ g.res = "ok" /\ g.val = 1 => t = [g EXCEPT !.res = "int_err"]
         /\ g.res = "ok" /\ g.val # 0 /\ g.val # 1 =>
                t \in Then(put_fat(g, c, 0), LAMBDA u : {Freed(u)})
  BY DEF FreeCluster, Then, Error
<1>2. /\ Looked(s, g) /\ g.res \in {"ok", "disk_err", "int_err"}
      /\ g.res = "ok" => c \in Clusters /\ g.val = Tab(Seen(s))[c]
  BY Getting
<1>3. Base(g) /\ Seen(g) = Seen(s)
  BY <1>2 DEF Looked
<1>4. t.res = "ok" /\ t.val # 0 /\ t.val # 1
  BY ClustersFacts
<1>5. g.res = "ok" /\ g.val # 0 /\ g.val # 1
  <2>1. g.res # "ok" => t.res # "ok"
    BY <1>1
  <2>2. g.res = "ok" /\ g.val = 0 => t.val = 0
    BY <1>1
  <2>3. g.res = "ok" /\ g.val = 1 => t.res = "int_err"
    <3>1. Looked(g, [g EXCEPT !.res = "int_err"]) /\ [g EXCEPT !.res = "int_err"].res = "int_err"
      BY <1>3, SetRes
    <3> QED  BY <3>1, <1>1
  <2> QED  BY <2>1, <2>2, <2>3, <1>4
<1>6. PICK u \in put_fat(g, c, 0) : IF u.res = "ok" THEN t = Freed(u) ELSE t = u
  BY <1>1, <1>5 DEF Then
<1>7. /\ Wrote(g, u)
      /\ u.res = "ok" => Tab(Seen(u)) = [Tab(Seen(g)) EXCEPT ![c] = 0]
  <2>1. 0 \in Nat
    OBVIOUS
  <2> QED  BY <2>1, <1>3, <1>5, Putting
<1>8. u.res = "ok" /\ t = Freed(u)
  BY <1>4, <1>6
<1>9. Base(u) /\ IsState(u)
  BY <1>7 DEF Wrote, Base
<1>10. IsState(t) /\ t.disk = u.disk /\ t.win = u.win /\ t.wsect = u.wsect /\ t.dirty = u.dirty /\ t.media = u.media
  BY <1>8, <1>9 DEF IsState, Freed
<1>11. Base(t) /\ Seen(t) = Seen(u)
  BY <1>9, <1>10, BaseSame
<1>12. Tab(Seen(s)) \in Tables /\ Tab(Seen(t)) \in Tables
  BY <1>11, SafeTyped
<1>13. c \in Clusters /\ Tab(Seen(s))[c] # 0 /\ Tab(Seen(t)) = [Tab(Seen(s)) EXCEPT ![c] = 0]
  BY <1>2, <1>3, <1>5, <1>7, <1>8, <1>11
<1> QED  BY <1>11, <1>12, <1>13, ZerosFacts

\* The loop of remove_chain frees every cluster once at most.
LEMMA FreeComplete ==
    ASSUME NEW s, Base(s), s.res = "ok", NEW c
    PROVE  Complete("free", 0, [s |-> s, at |-> c, go |-> TRUE], NFatEnt - 1)
<1>1. PICK n, x : n = NFatEnt - 1 /\ x = [s |-> s, at |-> c, go |-> TRUE]
  OBVIOUS
<1>2. n \in Nat /\ x.s = s /\ n = NFatEnt - 1 /\ NFatEnt \in Nat
  BY <1>1, VolumeAssumption
<1>3. ASSUME NEW run, IsRun(run, "free", 0, x, n) PROVE \A y \in run[n] : ~y.go
  <2>1. PICK U : /\ x \in U
                 /\ \A P \in SUBSET U : \A left :
                        /\ x \in P /\ (x.go => left[x] <= n)
                        /\ Shrinks(left, P, U, "free", 0)
                        => \A y \in run[n] : ~y.go
    <3>1. n \in Nat
      BY <1>2
    <3> QED  BY <3>1, <1>3, RunEnds
  <2> DEFINE P == {y \in U : y.go => Base(y.s) /\ y.s.res = "ok"}
             Taken_(y) == Cardinality(Zeros(Tab(Seen(y.s))))
             left == [y \in U |-> n - Taken_(y)]
  <2>2. \A y \in P : y.go => Taken_(y) \in 0..(NFatEnt - 2)
    <3> TAKE y \in P
    <3>1. SUFFICES ASSUME y.go PROVE Taken_(y) \in 0..(NFatEnt - 2)
      OBVIOUS
    <3>2. Tab(Seen(y.s)) \in Tables
      BY <3>1, SafeTyped
    <3> QED  BY <3>2, ZerosFacts
  <2>3. x \in P
    BY <1>2, <2>1
  <2> HIDE DEF Taken_
  <2>4. \A y \in P : y.go => left[y] \in Nat \ {0} /\ left[y] <= n
    BY <2>2, <1>2
  <2>5. ASSUME NEW y \in P, y.go, NEW z \in FreeTurn(y), z \in U
        PROVE  z \in P /\ (z.go => left[z] < left[y])
    <3>1. PICK v \in FreeCluster(y.s, y.at) :
             z = [s |-> v, at |-> v.val, go |-> v.res = "ok" /\ v.val \in Clusters]
      BY DEF FreeTurn
    <3>2. z.s = v /\ (z.go => v.res = "ok" /\ v.val \in Clusters)
      BY <3>1
    <3>3. z.go => Base(v) /\ Taken_(z) = Taken_(y) + 1
      BY <3>2, <2>5, FreeingMore DEF Taken_
    <3>4. z \in P
      BY <3>2, <3>3, <2>5
    <3>5. z.go => left[z] < left[y]
      <4>1. left[z] = n - Taken_(z) /\ left[y] = n - Taken_(y)
        BY <2>5
      <4> HIDE DEF left, P
      <4> QED  BY <4>1, <3>3, <3>4, <2>2, <2>5, <1>2
    <3> QED  BY <3>4, <3>5
  <2>6. Shrinks(left, P, U, "free", 0)
    <3> HIDE DEF P, left
    <3> QED  BY <2>4, <2>5 DEF Shrinks, AnyTurn
  <2>7. x.go => left[x] <= n
    <3> HIDE DEF P, left
    <3> QED  BY <2>3, <2>4
  <2> HIDE DEF left
  <2> QED  BY <2>1, <2>3, <2>6, <2>7
<1>4. Complete("free", 0, x, n)
  BY <1>3 DEF Complete
<1> QED  BY <1>4, <1>1

\* A write's turn that goes on leaves fewer bytes.
LEMMA WriteComplete ==
    ASSUME NEW s, NEW L \in SUBSET Names, NEW F, IsFiles(F), NEW n \in Names, Busy(s, L, F, n),
           s.res = "ok", s.f.err = "ok", s.f.ptr <= s.f.size, s.f.write, NEW S, NEW bytes \in Seq(S)
    PROVE  Complete("write", 0, [s |-> s, at |-> bytes, go |-> bytes # <<>>], Len(bytes))
<1>1. PICK k, x : k = Len(bytes) /\ x = [s |-> s, at |-> bytes, go |-> bytes # <<>>]
  OBVIOUS
<1>2. k \in Nat /\ x.s = s /\ x.at = bytes /\ (x.go => bytes # <<>>)
  BY <1>1, LenProperties
<1>3. ASSUME NEW run, IsRun(run, "write", 0, x, k) PROVE \A y \in run[k] : ~y.go
  <2>1. PICK U : /\ x \in U
                 /\ \A P \in SUBSET U : \A left :
                        /\ x \in P /\ (x.go => left[x] <= k)
                        /\ Shrinks(left, P, U, "write", 0)
                        => \A y \in run[k] : ~y.go
    BY <1>2, <1>3, RunEnds
  <2> DEFINE P == {y \in U : Going(s, y, L, F, n, S)}
             left == [y \in U |-> Len(y.at)]
  <2>2. x \in P
    <3>1. Torn(s, L, F, n)
      BY BusyTorn
    <3>2. Going(s, x, L, F, n, S)
      BY <3>1, <1>2 DEF Going, Went, Errs
    <3> QED  BY <3>2, <2>1
  <2>3. \A y \in P : y.go => y.at \in Seq(S) /\ left[y] = Len(y.at) /\ left[y] \in Nat \ {0}
    <3> TAKE y \in P
    <3>1. SUFFICES ASSUME y.go PROVE y.at \in Seq(S) /\ left[y] = Len(y.at) /\ left[y] \in Nat \ {0}
      OBVIOUS
    <3>2. y.at \in Seq(S) /\ y.at # <<>> /\ left[y] = Len(y.at)
      BY <3>1 DEF Going
    <3>3. Len(y.at) \in Nat /\ Len(y.at) # 0
      BY <3>2, EmptySeq, LenProperties
    <3> QED  BY <3>2, <3>3
  <2>4. ASSUME NEW y \in P, y.go, NEW z \in WriteTurn(y), z \in U
        PROVE  z \in P /\ (z.go => left[z] < left[y])
    <3>1. Going(s, z, L, F, n, S)
      BY <2>4, WritingTurn
    <3>2. z \in P
      BY <3>1, <2>4
    <3>3. /\ Busy(y.s, L, F, n) /\ y.s.res = "ok" /\ y.s.f.err = "ok" /\ y.s.f.ptr <= y.s.f.size
          /\ y.at \in Seq(S) /\ y.at # <<>> /\ y.s.f.write
      BY <2>4 DEF Going, Went
    <3>4. PICK t \in WriteSome(y.s, y.at) :
             z = LET rest == Part(y.at, t.f.ptr - y.s.f.ptr)
                 IN  [s |-> t, at |-> rest, go |-> t.res = "ok" /\ t.f.ptr # y.s.f.ptr /\ rest # <<>>]
      BY <2>4 DEF WriteTurn
    <3>5. Written(y.s, t, L, F, n, Len(y.at))
      <4>1. PICK w, b : w = y.s /\ b = y.at
        OBVIOUS
      <4>2. /\ Busy(w, L, F, n) /\ w.res = "ok" /\ w.f.err = "ok" /\ w.f.ptr <= w.f.size
            /\ b \in Seq(S) /\ b # <<>> /\ t \in WriteSome(w, b)
        BY <4>1, <3>3, <3>4
      <4>3. w.f.write => Written(w, t, L, F, n, Len(b))
        BY <4>2, WritingSome
      <4> QED  BY <4>1, <4>3, <3>3
    <3>6. z.at = Part(y.at, t.f.ptr - y.s.f.ptr) /\ (z.go => t.res = "ok" /\ t.f.ptr # y.s.f.ptr)
      BY <3>4
    <3>7. ASSUME z.go PROVE Len(z.at) < Len(y.at)
      <4>1. PICK j : j = t.f.ptr - y.s.f.ptr
        OBVIOUS
      <4>2. j \in 0..Len(y.at) /\ t.res = "ok"
        BY <4>1, <3>5, <3>6, <3>7 DEF Written
      <4>3. t.f.ptr \in Nat /\ y.s.f.ptr \in Nat
        BY <3>3, <3>5, <4>2, BusyTorn DEF Written, Went, FileOK
      <4>4. j \in 1..Len(y.at)
        BY <4>1, <4>2, <4>3, <3>6, <3>7
      <4>5. Len(Part(y.at, j)) < Len(y.at)
        <5>1. Len(y.at) \in Nat /\ \A i \in (j + 1)..Len(y.at) : y.at[i] \in S
          BY <3>3, <4>4, LenProperties, ElementOfSeq
        <5> QED  BY <5>1, <4>4, SubSeqProperties DEF Part
      <4> QED  BY <4>1, <4>5, <3>6
    <3>8. z.go => left[z] < left[y]
      <4>1. left[z] = Len(z.at) /\ left[y] = Len(y.at)
        BY <2>4
      <4> QED  BY <4>1, <3>7
    <3> QED  BY <3>2, <3>8
  <2>5. Shrinks(left, P, U, "write", 0)
    <3> HIDE DEF P, left
    <3> QED  BY <2>3, <2>4 DEF Shrinks, AnyTurn
  <2>6. x.go => left[x] <= k
    BY <1>1, <1>2, <2>1
  <2> HIDE DEF left
  <2> QED  BY <2>1, <2>2, <2>5, <2>6
<1>4. Complete("write", 0, x, k)
  BY <1>3 DEF Complete
<1> QED  BY <1>4, <1>1

\* So does a read's.
LEMMA ReadComplete ==
    ASSUME NEW s, NEW L \in SUBSET Names, NEW F, IsFiles(F), NEW n \in Names, Busy(s, L, F, n),
           s.res = "ok", s.f.err = "ok", s.f.ptr <= s.f.size, NEW len \in Nat, s.f.ptr + len <= s.f.size
    PROVE  Complete("read", 0, [s |-> s, at |-> len, go |-> len > 0], len)
<1>1. PICK x : x = [s |-> s, at |-> len, go |-> len > 0]
  OBVIOUS
<1>2. x.s = s /\ x.at = len /\ (x.go => len > 0)
  BY <1>1
<1>3. ASSUME NEW run, IsRun(run, "read", 0, x, len) PROVE \A y \in run[len] : ~y.go
  <2>1. PICK U : /\ x \in U
                 /\ \A P \in SUBSET U : \A left :
                        /\ x \in P /\ (x.go => left[x] <= len)
                        /\ Shrinks(left, P, U, "read", 0)
                        => \A y \in run[len] : ~y.go
    BY <1>2, <1>3, RunEnds, ZenonT(60)
  <2> DEFINE P == {y \in U : Reading(s, y, L, F, n)}
             left == [y \in U |-> y.at]
  <2>2. x \in P
    <3>1. Torn(s, L, F, n)
      BY BusyTorn
    <3>2. Reading(s, x, L, F, n)
      BY <3>1, <1>2 DEF Reading, Went, Errs
    <3> QED  BY <3>2, <2>1
  <2>3. \A y \in P : y.go => y.at \in Nat \ {0} /\ left[y] = y.at
    BY DEF Reading
  <2>4. ASSUME NEW y \in P, y.go, NEW z \in ReadTurn(y), z \in U
        PROVE  z \in P /\ (z.go => left[z] < left[y])
    <3>1. Reading(s, z, L, F, n)
      BY <2>4, ReadingTurn
    <3>2. z \in P
      BY <3>1, <2>4
    <3>3. /\ Busy(y.s, L, F, n) /\ y.s.res = "ok" /\ y.s.f.err = "ok"
          /\ y.at \in Nat \ {0} /\ y.s.f.ptr + y.at <= y.s.f.size
      BY <2>4 DEF Reading, Went
    <3>4. PICK t \in ReadSome(y.s, y.at) :
             z = LET rest == y.at - (t.f.ptr - y.s.f.ptr)
                 IN  [s |-> t, at |-> rest, go |-> t.res = "ok" /\ rest > 0]
      BY <2>4 DEF ReadTurn
    <3>5. Took(y.s, t, L, F, n, y.at)
      <4>1. PICK w, b : w = y.s /\ b = y.at
        OBVIOUS
      <4>2. /\ Busy(w, L, F, n) /\ w.res = "ok" /\ w.f.err = "ok" /\ b \in Nat \ {0}
            /\ w.f.ptr + b <= w.f.size /\ t \in ReadSome(w, b)
        BY <4>1, <3>3, <3>4
      <4>3. Took(w, t, L, F, n, b)
        BY <4>2, ReadingSome
      <4> QED  BY <4>1, <4>3
    <3>6. z.at = y.at - (t.f.ptr - y.s.f.ptr) /\ (z.go => t.res = "ok")
      BY <3>4
    <3>7. z.go => z.at < y.at
      BY <3>3, <3>5, <3>6 DEF Took
    <3>8. left[z] = z.at /\ left[y] = y.at
      BY <2>4
    <3> QED  BY <3>2, <3>7, <3>8
  <2>5. Shrinks(left, P, U, "read", 0)
    <3> HIDE DEF P, left
    <3> QED  BY <2>3, <2>4 DEF Shrinks, AnyTurn
  <2>6. x.go => left[x] <= len
    BY <1>2, <2>1
  <2> HIDE DEF left
  <2> QED  BY <2>1, <2>2, <2>5, <2>6
<1>4. Complete("read", 0, x, len)
  BY <1>3 DEF Complete
<1> QED  BY <1>4, <1>1

\* The bound that the model gives each loop of the driver (remove_chain's,
\* create_chain's search, f_getfree's count, f_lseek's, f_write's and f_read's)
\* never takes an outcome away: after that many turns the loop is over, however
\* its disk accesses went.
THEOREM NoLoopIsCutShort ==
    ASSUME NEW s, Base(s), s.res = "ok"
    PROVE  /\ \A c : Complete("free", 0, [s |-> s, at |-> c, go |-> TRUE], NFatEnt - 1)
           /\ \A start \in 1..(NFatEnt - 1) :
                  Complete("search", start, [s |-> s, at |-> start, go |-> TRUE], NFatEnt - 1)
           /\ Complete("count", 0, [s |-> s, at |-> 2, go |-> TRUE], NFatEnt - 2)
           /\ \A ofs \in Nat :
                  Complete("seek", 0, [s |-> s, at |-> ofs, go |-> ofs > SectorSize], ofs)
           /\ \A L \in SUBSET Names, n \in Names : \A F :
                  IsFiles(F) /\ Busy(s, L, F, n) /\ s.f.err = "ok" /\ s.f.ptr <= s.f.size =>
                  /\ s.f.write => \A S : \A bytes \in Seq(S) :
                         Complete("write", 0, [s |-> s, at |-> bytes, go |-> bytes # <<>>], Len(bytes))
                  /\ \A len \in Nat : s.f.ptr + len <= s.f.size =>
                         Complete("read", 0, [s |-> s, at |-> len, go |-> len > 0], len)
<1>1. /\ \A c : Complete("free", 0, [s |-> s, at |-> c, go |-> TRUE], NFatEnt - 1)
      /\ \A start \in 1..(NFatEnt - 1) :
             Complete("search", start, [s |-> s, at |-> start, go |-> TRUE], NFatEnt - 1)
      /\ Complete("count", 0, [s |-> s, at |-> 2, go |-> TRUE], NFatEnt - 2)
      /\ \A ofs \in Nat : Complete("seek", 0, [s |-> s, at |-> ofs, go |-> ofs > SectorSize], ofs)
  BY FreeComplete, SearchComplete, CountComplete, SeekComplete
<1>2. ASSUME NEW L \in SUBSET Names, NEW n \in Names, NEW F, IsFiles(F), Busy(s, L, F, n),
             s.f.err = "ok", s.f.ptr <= s.f.size
      PROVE  /\ s.f.write => \A S : \A bytes \in Seq(S) :
                    Complete("write", 0, [s |-> s, at |-> bytes, go |-> bytes # <<>>], Len(bytes))
             /\ \A len \in Nat : s.f.ptr + len <= s.f.size =>
                    Complete("read", 0, [s |-> s, at |-> len, go |-> len > 0], len)
  BY <1>2, WriteComplete, ReadComplete
<1> QED  BY <1>1, <1>2
==============================================================================
