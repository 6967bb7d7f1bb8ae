--------------------------- MODULE FatBytesProofs --------------------------
(***************************************************************************)
(* What each function of the driver leaves alone and what it does to the   *)
(* bytes of the file it works on, for any volume and with accesses that    *)
(* fail.  Each is calm: the clusters and the entries that are not its own  *)
(* stay as they are, on the volume as the driver sees it and on every disk *)
(* a crash can leave behind (Calm); and f_read, f_lseek, f_write, f_sync   *)
(* and f_truncate are followed sector by sector (Reads, Gentle).           *)
(***************************************************************************)
EXTENDS FatFsProofs

-----------------------------------------------------------------------------
\* What the calls leave alone.

\* Disk y has the links of the clusters P that disk x has, what is in the
\* clusters D, and the entries of the files M.
Like(x, y, P, D, M) ==
    /\ \A c \in P : Tab(x)[c] \in Clusters => Tab(y)[c] = Tab(x)[c]
    /\ \A c \in D : y[c] = x[c]
    /\ \A m \in M : y[Dir][m] = x[Dir][m]

\* From s to t that much stays, on the disk too, at every moment.
Calm(s, t, P, D, M) ==
    /\ Base(t)
    /\ Like(Seen(s), Seen(t), P, D, M)
    /\ \A x \in t.media : \E y \in s.media \union {Seen(s)} : Like(y, x, P, D, M)

\* Likeness is reflexive and transitive, and goes down to parts.
LEMMA LikeFacts ==
    ASSUME NEW P, NEW D, NEW M
    PROVE  /\ \A x : Like(x, x, P, D, M)
           /\ \A x, y, z : Like(x, y, P, D, M) /\ Like(y, z, P, D, M) => Like(x, z, P, D, M)
           /\ \A x, y : \A A \in SUBSET P, B \in SUBSET D, C \in SUBSET M :
                  Like(x, y, P, D, M) => Like(x, y, A, B, C)
  BY DEF Like

\* Two calm steps make one.
LEMMA CalmOn ==
    ASSUME NEW P, NEW D, NEW M, NEW s, NEW t, NEW u, Calm(s, t, P, D, M), Calm(t, u, P, D, M)
    PROVE  Calm(s, u, P, D, M)
<1>1. Like(Seen(s), Seen(u), P, D, M)
  BY LikeFacts DEF Calm
<1>2. ASSUME NEW x \in u.media PROVE \E y \in s.media \union {Seen(s)} : Like(y, x, P, D, M)
  <2>1. PICK z \in t.media \union {Seen(t)} : Like(z, x, P, D, M)
    BY <1>2 DEF Calm
  <2>2. PICK y \in s.media \union {Seen(s)} : Like(y, z, P, D, M)
    BY <2>1 DEF Calm
  <2> QED  BY <2>1, <2>2, LikeFacts
<1> QED  BY <1>1, <1>2 DEF Calm

\* Less than what stays, stays.
LEMMA CalmLess ==
    ASSUME NEW P, NEW D, NEW M, NEW s, NEW t, Calm(s, t, P, D, M),
           NEW A \in SUBSET P, NEW B \in SUBSET D, NEW C \in SUBSET M
    PROVE  Calm(s, t, A, B, C)
<1>1. \A x, y : Like(x, y, P, D, M) => Like(x, y, A, B, C)
  BY LikeFacts
<1> QED  BY <1>1 DEF Calm

\* A step that writes nothing, or no more than the window.
LEMMA CalmWrote ==
    ASSUME NEW P, NEW D, NEW M, NEW s, NEW t, Base(t), t.media \subseteq s.media \union {Seen(s)},
           Like(Seen(s), Seen(t), P, D, M)
    PROVE  Calm(s, t, P, D, M)
<1>1. \A x \in t.media : x \in s.media \union {Seen(s)} /\ Like(x, x, P, D, M)
  BY LikeFacts
<1> QED  BY <1>1 DEF Calm

\* A step after which the same is seen.
LEMMA CalmStay ==
    ASSUME NEW P, NEW D, NEW M, NEW s, NEW t, Base(t), t.media \subseteq s.media \union {Seen(s)},
           Seen(t) = Seen(s)
    PROVE  Calm(s, t, P, D, M)
  BY CalmWrote, LikeFacts

\* Looking is one.
LEMMA CalmLooked ==
    ASSUME NEW P, NEW D, NEW M, NEW s, NEW t, Looked(s, t)
    PROVE  Calm(s, t, P, D, M)
  BY CalmStay DEF Looked

\* The window shows no cluster's contents.
LEMMA SeenData ==
    ASSUME NEW s, Base(s)
    PROVE  /\ \A c \in Clusters : Seen(s)[c] = s.disk[c]
           /\ DOMAIN s.disk = Sectors /\ DOMAIN Seen(s) = Sectors
<1>1. DiskOK(s.disk) /\ DiskOK(Seen(s))
  BY DEF Base
<1>2. DOMAIN s.disk = Sectors /\ DOMAIN Seen(s) = Sectors
  BY <1>1 DEF DiskOK
<1>3. s.wsect \notin Clusters
  BY SectorFacts DEF Base
<1> QED  BY <1>2, <1>3 DEF Seen

\* put_fat changes the link of one cluster.
LEMMA CalmPutting ==
    ASSUME NEW s, Base(s), s.res = "ok", NEW c, NEW v \in Nat, NEW t \in put_fat(s, c, v), NEW P,
           P \subseteq Clusters, c \notin P \/ Tab(Seen(s))[c] \notin Clusters
    PROVE  Calm(s, t, P, Clusters, Names)
<1>1. /\ Wrote(s, t) /\ (t.res # "ok" => Looked(s, t))
      /\ t.res = "ok" => /\ c \in Clusters
                         /\ Tab(Seen(t)) = [Tab(Seen(s)) EXCEPT ![c] = v]
                         /\ Seen(t)[Dir] = Seen(s)[Dir]
  BY Putting
<1>2. CASE t.res # "ok"
  BY <1>1, <1>2, CalmLooked
<1>3. CASE t.res = "ok"
  <2>1. PICK u \in move_window(s, FatOf(c)) :
           IF u.res = "ok" THEN t = [u EXCEPT !.win[c] = v, !.dirty = TRUE] ELSE t = u
    BY <1>1, <1>3, Zenon DEF put_fat, Then
  <2>2. Looked(s, u)
    BY <1>1, <1>3, SectorFacts, MovingWindow
  <2>3. t.disk = u.disk
    BY <2>1, <2>2, Zenon DEF Looked, Base, IsState
  <2>4. \A e \in Clusters : Seen(t)[e] = Seen(s)[e]
    BY <2>2, <2>3, <1>1, SeenData DEF Looked, Wrote
  <2>5. Tab(Seen(s)) \in Tables
    BY SafeTyped
  <2>6. \A e \in P : Tab(Seen(s))[e] \in Clusters => Tab(Seen(t))[e] = Tab(Seen(s))[e]
    BY <1>1, <1>3, <2>5 DEF Tables
  <2>7. Like(Seen(s), Seen(t), P, Clusters, Names)
    BY <2>4, <2>6, <1>1, <1>3 DEF Like
  <2> QED  BY <2>7, <1>1, CalmWrote DEF Wrote
<1> QED  BY <1>2, <1>3

\* An entry is changed in the window.
LEMMA CalmEntering ==
    ASSUME NEW s, Base(s), s.wsect = Dir, NEW n \in Names, NEW e \in EntrySet,
           NEW t, t = SetEntry(s, n, e)
    PROVE  Calm(s, t, Clusters, Clusters, Names \ {n})
<1>1. /\ Wrote(s, t) /\ Tab(Seen(t)) = Tab(Seen(s))
      /\ Seen(t)[Dir] = Put(Seen(s)[Dir], n, e)
  BY EnteringPut
<1>2. t.disk = s.disk
  BY DEF SetEntry, Base, IsState
<1>3. \A c \in Clusters : Seen(t)[c] = Seen(s)[c]
  BY <1>1, <1>2, SeenData DEF Wrote
<1>4. Seen(s)[Dir] \in Entries
  BY SafeTyped
<1>5. \A m \in Names \ {n} : Seen(t)[Dir][m] = Seen(s)[Dir][m]
  BY <1>1, <1>4 DEF Entries, Put
<1> QED  BY <1>1, <1>3, <1>5, CalmWrote DEF Like, Wrote

\* A cluster is written to the disk.
LEMMA CalmStoring ==
    ASSUME NEW s, Base(s), s.res = "ok", NEW c \in Clusters, NEW v, NEW t \in DiskWrite(s, c, v),
           NEW D, D \subseteq Clusters \ {c}
    PROVE  /\ Calm(s, t, Clusters, D, Names)
           /\ \A e \in Clusters :
                  Seen(t)[e] = IF t.res = "ok" /\ e = c THEN v ELSE Seen(s)[e]
<1>1. /\ Base(t) /\ t.res \in {"ok", "disk_err"}
      /\ Tab(Seen(t)) = Tab(Seen(s)) /\ Seen(t)[Dir] = Seen(s)[Dir]
      /\ Tab(t.disk) = Tab(s.disk) /\ t.disk[Dir] = s.disk[Dir]
      /\ t.media \subseteq s.media \union {t.disk}
  BY WritingData
<1>2. CASE t \in Fail(s)
  <2>1. Looked(s, t) /\ t.res = "disk_err"
    BY <1>2, Failing
  <2> QED  BY <2>1, CalmLooked DEF Looked
<1>3. CASE t \notin Fail(s)
  <2>1. t.disk = [s.disk EXCEPT ![c] = v] /\ t.res = "ok"
    BY <1>3, Zenon DEF DiskWrite, Base, IsState
  <2>2. \A e \in Clusters : t.disk[e] = IF e = c THEN v ELSE s.disk[e]
    BY <2>1, SeenData, SectorFacts
  <2>3. \A e \in Clusters : Seen(t)[e] = IF e = c THEN v ELSE Seen(s)[e]
    BY <2>2, <1>1, SeenData
  <2>4. Like(s.disk, t.disk, Clusters, D, Names) /\ Like(Seen(s), Seen(t), Clusters, D, Names)
    BY <2>2, <2>3, <1>1 DEF Like
  <2>5. \A x \in s.media : Like(x, x, Clusters, D, Names)
    BY LikeFacts
  <2>6. s.disk \in s.media
    BY DEF Base
  <2>7. \A x \in t.media : \E y \in s.media \union {Seen(s)} : Like(y, x, Clusters, D, Names)
    BY <2>4, <2>5, <2>6, <1>1
  <2>8. Calm(s, t, Clusters, D, Names)
    BY <2>4, <2>7, <1>1 DEF Calm
  <2> QED  BY <2>1, <2>3, <2>8
<1> QED  BY <1>2, <1>3

\* A free cluster is claimed.
LEMMA CalmClaiming ==
    ASSUME NEW s, Base(s), s.res = "ok", NEW new \in Clusters, Tab(Seen(s))[new] = 0,
           NEW c, c # 0 => c \in Clusters /\ Tab(Seen(s))[c] # 0 /\ Tab(Seen(s))[c] \notin Clusters,
           NEW t \in Claim(s, new, c)
    PROVE  Calm(s, t, Clusters, Clusters, Names)
<1>0. new # 0 /\ EOC \in Nat /\ new \in Nat /\ 0 \notin Clusters
  BY ClustersFacts
<1>1. PICK v \in Link(s, new, c) :
         IF v.res = "ok" THEN t = [Taken(v) EXCEPT !.last = new, !.val = new] ELSE t = v
  BY <1>0, Zenon DEF Claim, Then
<1>2. PICK u \in put_fat(s, new, EOC) :
         IF u.res = "ok" THEN (IF c = 0 THEN v = u ELSE v \in put_fat(u, c, new)) ELSE v = u
  BY <1>1 DEF Link, Then
<1>3. Calm(s, u, Clusters, Clusters, Names)
  BY <1>0, CalmPutting
<1>4. Calm(s, v, Clusters, Clusters, Names)
  <2>1. CASE v = u
    BY <2>1, <1>3
  <2>2. CASE v # u
    <3>1. u.res = "ok" /\ c # 0 /\ v \in put_fat(u, c, new)
      BY <2>2, <1>2
    <3>2. Base(u) /\ Tab(Seen(u)) = [Tab(Seen(s)) EXCEPT ![new] = EOC]
      BY <3>1, <1>0, Putting DEF Wrote
    <3>3. Tab(Seen(s)) \in Tables
      BY SafeTyped
    <3>4. Tab(Seen(u))[c] \notin Clusters
      BY <3>1, <3>2, <3>3 DEF Tables
    <3>5. Calm(u, v, Clusters, Clusters, Names)
      BY <3>1, <3>2, <3>4, <1>0, CalmPutting, Zenon
    <3> QED  BY <3>5, <1>3, CalmOn
  <2> QED  BY <2>1, <2>2
<1>5. CASE v.res # "ok"
  BY <1>1, <1>4, <1>5
<1>6. CASE v.res = "ok"
  <2>1. Base(v) /\ IsState(v)
    BY <1>4 DEF Calm, Base
  <2>2. /\ IsState(t) /\ t.disk = v.disk /\ t.win = v.win /\ t.wsect = v.wsect /\ t.dirty = v.dirty
        /\ t.media = v.media
    BY <1>1, <1>6, <2>1, Zenon DEF IsState, Taken
  <2>3. Base(t) /\ Seen(t) = Seen(v)
    BY <2>1, <2>2, BaseSame
  <2>4. Calm(v, t, Clusters, Clusters, Names)
    BY <2>2, <2>3, CalmStay
  <2> QED  BY <2>4, <1>4, CalmOn
<1> QED  BY <1>5, <1>6

\* The search of create_chain looks, and what it ends with is free.
LEMMA SearchLooks ==
    ASSUME NEW s, Base(s), s.res = "ok", NEW start,
           NEW x \in SearchEnds(start, [s |-> s, at |-> start, go |-> TRUE], NFatEnt - 1)
    PROVE  /\ Looked(s, x.s)
           /\ x.s.res = "ok" /\ x.at # 0 => x.at \in Clusters /\ Tab(Seen(s))[x.at] = 0
<1> DEFINE x0 == [s |-> s, at |-> start, go |-> TRUE]
           E == SearchEnds(start, x0, NFatEnt - 1)
           In(y) == /\ Looked(s, y.s)
                    /\ y.go => y.s.res = "ok"
                    /\ ~y.go /\ y.s.res = "ok" /\ y.at # 0 =>
                           y.at \in Clusters /\ Tab(Seen(s))[y.at] = 0
<1>1. NFatEnt - 1 \in Nat
  BY VolumeAssumption
<1>2. PICK U : LoopIn(E, U, "search", start, x0)
  BY <1>1, SearchTurns
<1> DEFINE P == {y \in U : In(y)}
<1>3. x0 \in P
  <2>1. In(x0)
    BY LookedSelf
  <2> HIDE DEF In, x0, E
  <2> QED  BY <2>1, <1>2 DEF LoopIn
<1>4. ASSUME NEW y \in P, y.go, NEW z \in SearchTurn(y, start) PROVE In(z)
  <2> DEFINE new == IF y.at + 1 >= NFatEnt THEN 2 ELSE y.at + 1
  <2>1. Looked(s, y.s) /\ y.s.res = "ok" /\ Base(y.s) /\ Seen(y.s) = Seen(s)
    BY <1>4 DEF Looked
  <2>2. CASE y.at + 1 >= NFatEnt /\ new > start
    <3>1. z = [y EXCEPT !.at = 0, !.go = FALSE]
      BY <2>2, Zenon DEF SearchTurn
    <3>2. z.s = y.s /\ z.at = 0 /\ z.go = FALSE
      BY <3>1, <1>4
    <3> QED  BY <3>2, <2>1
  <2>3. CASE ~(y.at + 1 >= NFatEnt /\ new > start)
    <3>1. PICK g \in get_fat(y.s, new) : \E v :
             /\ g.res = "ok" /\ g.val = 1 => v = [g EXCEPT !.res = "int_err"]
             /\ ~(g.res = "ok" /\ g.val = 1) => v = g
             /\ z = [s |-> v, at |-> IF v.val # 0 /\ new = start THEN 0 ELSE new,
                     go |-> v.res = "ok" /\ v.val # 0 /\ new # start]
      BY <1>4, <2>3 DEF SearchTurn, Then, Error
    <3> HIDE DEF new
    <3>2. PICK v :
             /\ g.res = "ok" /\ g.val = 1 => v = [g EXCEPT !.res = "int_err"]
             /\ ~(g.res = "ok" /\ g.val = 1) => v = g
             /\ z = [s |-> v, at |-> IF v.val # 0 /\ new = start THEN 0 ELSE new,
                     go |-> v.res = "ok" /\ v.val # 0 /\ new # start]
      BY <3>1
    <3>3. /\ z.s = v /\ z.at = (IF v.val # 0 /\ new = start THEN 0 ELSE new)
          /\ z.go => v.res = "ok"
          /\ ~z.go => ~(v.res = "ok" /\ v.val # 0 /\ new # start)
      <4>1. z.s = v /\ z.at = (IF v.val # 0 /\ new = start THEN 0 ELSE new)
        BY <3>2
      <4>2. z.go = (v.res = "ok" /\ v.val # 0 /\ new # start)
        BY <3>2
      <4> QED  BY <4>1, <4>2, Zenon
    <3>4. /\ Looked(y.s, g) /\ Looked(s, g) /\ Base(g)
          /\ g.res = "ok" => new \in Clusters /\ g.val = Tab(Seen(s))[new]
      <4>1. /\ Looked(y.s, g)
            /\ g.res = "ok" => new \in Clusters /\ g.val = Tab(Seen(y.s))[new]
        BY <2>1, Getting
      <4> QED  BY <4>1, <2>1, LookedOn DEF Looked
    <3>5. CASE g.res = "ok" /\ g.val = 1
      <4>1. v = [g EXCEPT !.res = "int_err"]
        BY <3>2, <3>5
      <4>2. Looked(g, v) /\ v.res = "int_err"
        BY <4>1, <3>4, SetRes
      <4>3. Looked(s, v)
        BY <4>2, <3>4, LookedOn
      <4> QED  BY <4>2, <4>3, <3>3
    <3>6. CASE ~(g.res = "ok" /\ g.val = 1)
      <4>1. v = g
        BY <3>2, <3>6
      <4>2. ~z.go /\ g.res = "ok" /\ z.at # 0 => z.at = new /\ g.val = 0
        BY <3>3, <4>1
      <4> QED  BY <4>1, <4>2, <3>3, <3>4
    <3> QED  BY <3>5, <3>6
  <2> QED  BY <2>2, <2>3
<1>5. KeptByTurns(P, U, "search", start)
  <2> HIDE DEF In
  <2> QED  BY <1>4 DEF KeptByTurns, AnyTurn
<1>6. E \subseteq P /\ \A y \in E : ~y.go
  <2> HIDE DEF P, x0, E
  <2>1. P \in SUBSET U
    BY DEF P
  <2> QED  BY <2>1, <1>2, <1>3, <1>5 DEF LoopIn
<1>7. In(x) /\ ~x.go
  BY <1>6, Zenon
<1> QED  BY <1>7

\* The whole search.
LEMMA CalmSearching ==
    ASSUME NEW s, Base(s), s.res = "ok", NEW start,
           NEW c, c # 0 => c \in Clusters /\ Tab(Seen(s))[c] # 0 /\ Tab(Seen(s))[c] \notin Clusters,
           NEW t \in Search(s, start, c)
    PROVE  Calm(s, t, Clusters, Clusters, Names)
<1> DEFINE x0 == [s |-> s, at |-> start, go |-> TRUE]
<1>1. PICK x \in SearchEnds(start, x0, NFatEnt - 1) : t \in Then({x.s}, LAMBDA w : Claim(w, x.at, c))
  BY Zenon DEF Search, SearchEnds
<1>2. IF x.s.res = "ok" THEN t \in Claim(x.s, x.at, c) ELSE t = x.s
  BY <1>1 DEF Then
<1>3. /\ Looked(s, x.s) /\ Base(x.s) /\ Seen(x.s) = Seen(s)
      /\ x.s.res = "ok" /\ x.at # 0 => x.at \in Clusters /\ Tab(Seen(s))[x.at] = 0
  BY SearchLooks DEF Looked
<1>4. Calm(s, x.s, Clusters, Clusters, Names)
  BY <1>3, CalmLooked
<1>5. CASE x.s.res # "ok"
  BY <1>2, <1>4, <1>5
<1>6. CASE x.s.res = "ok" /\ x.at = 0
  <2>1. t = [x.s EXCEPT !.val = 0]
    BY <1>2, <1>6, Zenon DEF Claim
  <2>2. Looked(x.s, t)
    BY <2>1, <1>3, SetVal
  <2> QED  BY <2>2, <1>3, LookedOn, CalmLooked
<1>7. CASE x.s.res = "ok" /\ x.at # 0
  <2>1. t \in Claim(x.s, x.at, c)
    BY <1>2, <1>7
  <2>2. /\ x.at \in Clusters /\ Tab(Seen(x.s))[x.at] = 0
        /\ c # 0 => c \in Clusters /\ Tab(Seen(x.s))[c] # 0 /\ Tab(Seen(x.s))[c] \notin Clusters
    BY <1>3, <1>7
  <2>3. Calm(x.s, t, Clusters, Clusters, Names)
    BY <2>1, <2>2, <1>3, <1>7, CalmClaiming
  <2> QED  BY <2>3, <1>4, CalmOn
<1> QED  BY <1>5, <1>6, <1>7

\* create_chain takes nothing from anyone.
LEMMA CalmCreating ==
    ASSUME NEW s, Base(s), s.res = "ok", NEW c, NEW t \in create_chain(s, c)
    PROVE  Calm(s, t, Clusters, Clusters, Names)
<1>1. CASE c = 0
  <2>1. PICK start : t \in Search(s, start, 0)
    BY <1>1, Zenon DEF create_chain
  <2> QED  BY <2>1, <1>1, CalmSearching
<1>2. CASE c # 0
  <2>1. PICK g \in get_fat(s, c) :
           IF g.res = "ok"
           THEN t \in CASE g.val < 2 -> Error(g, "int_err")
                        [] g.val \in Clusters -> {g}
                        [] OTHER -> Search(g, c, c)
           ELSE t = g
    BY <1>2 DEF create_chain, Then
  <2>2. /\ Looked(s, g) /\ Base(g) /\ Seen(g) = Seen(s)
        /\ g.res = "ok" => c \in Clusters /\ g.val = Tab(Seen(s))[c]
    BY Getting DEF Looked
  <2>3. Calm(s, g, Clusters, Clusters, Names)
    BY <2>2, CalmLooked
  <2>4. Tab(Seen(s)) \in Tables
    BY SafeTyped
  <2>5. g.res = "ok" => g.val \in Nat
    BY <2>2, <2>4 DEF Tables
  <2>6. CASE t = g
    BY <2>6, <2>3
  <2>7. CASE g.res = "ok" /\ t \in Error(g, "int_err")
    <3>1. t = [g EXCEPT !.res = "int_err"]
      BY <2>7 DEF Error
    <3>2. Looked(g, t)
      BY <3>1, <2>2, SetRes
    <3> QED  BY <3>2, <2>2, LookedOn, CalmLooked
  <2>8. CASE g.res = "ok" /\ ~(g.val < 2) /\ g.val \notin Clusters /\ t \in Search(g, c, c)
    <3>1. c \in Clusters /\ Tab(Seen(g))[c] # 0 /\ Tab(Seen(g))[c] \notin Clusters
      BY <2>8, <2>2, <2>5
    <3>2. Calm(g, t, Clusters, Clusters, Names)
      BY <3>1, <2>2, <2>8, CalmSearching
    <3> QED  BY <3>2, <2>3, CalmOn
  <2> QED
    <3>1. \A k \in Nat : k < 2 => k \notin Clusters
      BY DEF Clusters
    <3> QED  BY <3>1, <2>1, <2>5, <2>6, <2>7, <2>8
<1> QED  BY <1>1, <1>2

-----------------------------------------------------------------------------
\* Freeing clusters leaves alone what others claim.

\* Every cluster of Q is in a chain, within Q, that some name other than those
\* of N claims.
Watch(T, E, L, F, N, Q) ==
    /\ Q \subseteq Clusters
    /\ \A c \in Q : \E m \in Names \ N, h \in Clusters, k \in Nat \ {0} : \E q \in [1..k -> Q] :
           Claims(E, L, F, m, h) /\ Walk(T, h, q, k) /\ q[k] = c

\* The clusters of the chains that names other than those of N claim.
Rest(T, E, L, F, N) ==
    {c \in Clusters : \E m \in Names \ N, h \in Clusters, k \in Nat \ {0} : \E q \in [1..k -> Clusters] :
         Claims(E, L, F, m, h) /\ Walk(T, h, q, k) /\ q[k] = c}

\* A walk, up to one of its clusters.
Upto(q, i) == [j \in 1..i |-> q[j]]

\* It is one.
LEMMA WalkUpto ==
    ASSUME NEW T, NEW h, NEW q, NEW k, Walk(T, h, q, k), NEW i \in 0..k, NEW r, r = Upto(q, i)
    PROVE  Walk(T, h, r, i) /\ \A j \in 1..i : r[j] = q[j]
<1>1. k \in Nat /\ i \in Nat /\ i <= k /\ q \in [1..k -> Clusters]
  BY DEF Walk
<1>2. \A j \in 1..i : j \in 1..k /\ r[j] = q[j]
  BY <1>1 DEF Upto
<1>3. r \in [1..i -> Clusters]
  BY <1>1, <1>2 DEF Upto
<1>4. i > 0 => k > 0 /\ 1 \in 1..i
  BY <1>1
<1>5. \A j \in 1..(i - 1) : j \in 1..i /\ j + 1 \in 1..i /\ j \in 1..(k - 1)
  BY <1>1
<1> QED  BY <1>1, <1>2, <1>3, <1>4, <1>5 DEF Walk

\* The clusters a name claims, of those that are not in N.
LEMMA RestWalks ==
    ASSUME NEW T, NEW E, NEW L, NEW F, NEW N, NEW m \in Names \ N, NEW h, Claims(E, L, F, m, h),
           NEW q, NEW k, Walk(T, h, q, k)
    PROVE  \A i \in 1..k : q[i] \in Rest(T, E, L, F, N)
<1>1. SUFFICES ASSUME NEW i \in 1..k PROVE q[i] \in Rest(T, E, L, F, N)
  OBVIOUS
<1>2. k \in Nat /\ k > 0 /\ i \in 0..k /\ i \in Nat \ {0} /\ 1 \in 1..k /\ i \in 1..i
  BY DEF Walk
<1>3. q \in [1..k -> Clusters] /\ q[1] = h /\ q[i] \in Clusters /\ h \in Clusters
  BY <1>2 DEF Walk
<1>4. PICK r : r = Upto(q, i)
  OBVIOUS
<1>5. Walk(T, h, r, i) /\ r[i] = q[i]
  BY <1>2, <1>4, WalkUpto
<1>6. r \in [1..i -> Clusters]
  BY <1>5 DEF Walk
<1> QED  BY <1>2, <1>3, <1>5, <1>6 DEF Rest

\* They are watched.
LEMMA RestWatched ==
    ASSUME NEW T, NEW E, NEW L, NEW F, NEW N, NEW Q, Q = Rest(T, E, L, F, N)
    PROVE  Watch(T, E, L, F, N, Q)
<1>1. Q \subseteq Clusters
  BY DEF Rest
<1>2. ASSUME NEW c \in Q
      PROVE  \E m \in Names \ N, h \in Clusters, k \in Nat \ {0} : \E q \in [1..k -> Q] :
                 Claims(E, L, F, m, h) /\ Walk(T, h, q, k) /\ q[k] = c
  <2>1. PICK m \in Names \ N, h \in Clusters, k \in Nat \ {0} : \E q \in [1..k -> Clusters] :
            Claims(E, L, F, m, h) /\ Walk(T, h, q, k) /\ q[k] = c
    BY <1>2 DEF Rest
  <2>2. PICK q \in [1..k -> Clusters] : Claims(E, L, F, m, h) /\ Walk(T, h, q, k) /\ q[k] = c
    BY <2>1
  <2>3. q \in [1..k -> Q]
    BY <2>2, RestWalks
  <2> QED  BY <2>2, <2>3
<1> QED  BY <1>1, <1>2 DEF Watch

\* A name of N claims none of them.
LEMMA RestApart ==
    ASSUME NEW T \in Tables, NEW E, NEW L, NEW F, Sound(T, E, L, F), NEW N, NEW n \in Names, n \in N,
           NEW h \in Clusters, Claims(E, L, F, n, h), NEW q, NEW k, Walk(T, h, q, k), NEW i \in 1..k
    PROVE  q[i] \notin Rest(T, E, L, F, N)
<1>1. SUFFICES ASSUME q[i] \in Rest(T, E, L, F, N) PROVE FALSE
  OBVIOUS
<1>2. PICK m \in Names \ N, g \in Clusters, j \in Nat \ {0} : \E r \in [1..j -> Clusters] :
          Claims(E, L, F, m, g) /\ Walk(T, g, r, j) /\ r[j] = q[i]
  BY <1>1 DEF Rest
<1>3. PICK r \in [1..j -> Clusters] : Claims(E, L, F, m, g) /\ Walk(T, g, r, j) /\ r[j] = q[i]
  BY <1>2
<1>4. Starts(T, h) /\ Starts(T, g) /\ Proper(T) /\ (n = m <=> h = g)
  BY <1>3 DEF Sound
<1>5. j \in 1..j
  OBVIOUS
<1>6. h = g
  BY <1>3, <1>4, <1>5, WalksMeet
<1> QED  BY <1>4, <1>6, <1>2

\* What is watched stays so where its links and the claims stay.
LEMMA WatchKept ==
    ASSUME NEW T, NEW E, NEW L, NEW F, NEW N, NEW Q, Watch(T, E, L, F, N, Q),
           NEW U, \A c \in Q : T[c] \in Clusters => U[c] = T[c],
           NEW D, NEW M, NEW G,
           \A m \in Names \ N, h \in Clusters : Claims(E, L, F, m, h) => Claims(D, M, G, m, h)
    PROVE  Watch(U, D, M, G, N, Q)
<1>1. Q \subseteq Clusters
  BY DEF Watch
<1>2. ASSUME NEW c \in Q
      PROVE  \E m \in Names \ N, h \in Clusters, k \in Nat \ {0} : \E q \in [1..k -> Q] :
                 Claims(D, M, G, m, h) /\ Walk(U, h, q, k) /\ q[k] = c
  <2>1. PICK m \in Names \ N, h \in Clusters, k \in Nat \ {0} : \E q \in [1..k -> Q] :
            Claims(E, L, F, m, h) /\ Walk(T, h, q, k) /\ q[k] = c
    BY <1>2 DEF Watch
  <2>2. PICK q \in [1..k -> Q] : Claims(E, L, F, m, h) /\ Walk(T, h, q, k) /\ q[k] = c
    BY <2>1
  <2>3. ASSUME NEW i \in 1..(k - 1) PROVE U[q[i]] = q[i + 1]
    <3>1. i \in 1..k /\ i + 1 \in 1..k
      OBVIOUS
    <3>2. q[i] \in Q /\ q[i + 1] \in Clusters /\ T[q[i]] = q[i + 1]
      BY <3>1, <2>2, <1>1 DEF Walk
    <3> QED  BY <3>2
  <2>4. Walk(U, h, q, k)
    BY <2>2, <2>3 DEF Walk
  <2>5. Claims(D, M, G, m, h)
    BY <2>2
  <2> QED  BY <2>2, <2>4, <2>5
<1> QED  BY <1>1, <1>2, Zenon DEF Watch

\* A loose cluster is not watched.
LEMMA WatchLoose ==
    ASSUME NEW T, NEW E, NEW L, NEW F, NEW N, NEW Q, Watch(T, E, L, F, N, Q),
           NEW c, Loose(T, E, L, F, c)
    PROVE  c \notin Q
<1>1. SUFFICES ASSUME c \in Q PROVE FALSE
  OBVIOUS
<1>2. PICK m \in Names \ N, h \in Clusters, k \in Nat \ {0} : \E q \in [1..k -> Q] :
          Claims(E, L, F, m, h) /\ Walk(T, h, q, k) /\ q[k] = c
  BY <1>1 DEF Watch
<1>3. PICK q \in [1..k -> Q] : Claims(E, L, F, m, h) /\ Walk(T, h, q, k) /\ q[k] = c
  BY <1>2
<1>4. CASE k = 1
  <2>1. h = c
    BY <1>3, <1>4 DEF Walk
  <2> QED  BY <2>1, <1>3 DEF Loose
<1>5. CASE k # 1
  <2>1. k - 1 \in 1..(k - 1) /\ k - 1 \in 1..k /\ (k - 1) + 1 = k
    BY <1>5
  <2>2. T[q[k - 1]] = c /\ q[k - 1] \in Clusters
    BY <2>1, <1>3 DEF Walk
  <2> QED  BY <2>2 DEF Loose
<1> QED  BY <1>4, <1>5

\* A cluster that is not of Q is freed.
LEMMA CalmFreeCluster ==
    ASSUME NEW s, Base(s), s.res = "ok", NEW Q, Q \subseteq Clusters, NEW c, c \notin Q,
           NEW t \in FreeCluster(s, c)
    PROVE  Calm(s, t, Q, Clusters, Names)
<1>1. PICK g \in get_fat(s, c) :
         /\ g.res # "ok" \/ g.val = 0 => t = g
         /\ g.res = "ok" /\ g.val = 1 => t = [g EXCEPT !.res = "int_err"]
         /\ g.res = "ok" /\ g.val # 0 /\ g.val # 1 =>
                t \in Then(put_fat(g, c, 0), LAMBDA u : {Freed(u)})
  BY DEF FreeCluster, Then, Error
<1>2. Looked(s, g) /\ Base(g)
  BY Getting DEF Looked
<1>3. Calm(s, g, Q, Clusters, Names)
  BY <1>2, CalmLooked
<1>4. CASE t = g
  BY <1>3, <1>4
<1>5. CASE t = [g EXCEPT !.res = "int_err"]
  <2>1. Looked(g, t)
    BY <1>2, <1>5, SetRes
  <2> QED  BY <2>1, <1>2, LookedOn, CalmLooked
<1>6. CASE g.res = "ok" /\ t \in Then(put_fat(g, c, 0), LAMBDA u : {Freed(u)})
  <2>1. PICK u \in put_fat(g, c, 0) : IF u.res = "ok" THEN t = Freed(u) ELSE t = u
    BY <1>6 DEF Then
  <2>2. Calm(g, u, Q, Clusters, Names)
    BY <1>2, <1>6, CalmPutting, Zenon
  <2>3. Base(u) /\ IsState(u)
    BY <2>2 DEF Calm, Base
  <2>4. CASE t = u
    BY <2>4, <2>2, <1>3, CalmOn
  <2>5. CASE t = Freed(u)
    <3>1. /\ IsState(t) /\ t.disk = u.disk /\ t.win = u.win /\ t.wsect = u.wsect /\ t.dirty = u.dirty
          /\ t.media = u.media
      BY <2>5, <2>3 DEF IsState, Freed
    <3>2. Base(t) /\ Seen(t) = Seen(u)
      BY <3>1, <2>3, BaseSame
    <3>3. Calm(u, t, Q, Clusters, Names)
      BY <3>1, <3>2, CalmStay
    <3> QED  BY <3>3, <2>2, <1>3, CalmOn
  <2> QED  BY <2>1, <2>4, <2>5
<1> QED  BY <1>1, <1>4, <1>5, <1>6, Zenon

\* What is watched stays so in a calm step that leaves the directory alone.
LEMMA WatchCalm ==
    ASSUME NEW s, NEW t, NEW L, NEW F, NEW N, NEW Q, NEW D, NEW M,
           Watch(Tab(Seen(s)), Seen(s)[Dir], L, F, N, Q),
           Calm(s, t, Q, D, M), Seen(t)[Dir] = Seen(s)[Dir]
    PROVE  Watch(Tab(Seen(t)), Seen(t)[Dir], L, F, N, Q)
<1>1. \A c \in Q : Tab(Seen(s))[c] \in Clusters => Tab(Seen(t))[c] = Tab(Seen(s))[c]
  BY DEF Calm, Like
<1> QED  BY <1>1, WatchKept

\* The loop of remove_chain leaves alone what is watched.
LEMMA CalmFreeingFrom ==
    ASSUME NEW s, NEW L \in SUBSET Names, NEW F, Fine(s, L, F), s.res = "ok",
           NEW c, Loose(Tab(Seen(s)), Seen(s)[Dir], L, F, c),
           NEW N, NEW Q, Watch(Tab(Seen(s)), Seen(s)[Dir], L, F, N, Q), NEW t \in FreeFrom(s, c)
    PROVE  Calm(s, t, Q, Clusters, Names)
<1> DEFINE x0 == [s |-> s, at |-> c, go |-> TRUE]
           In(x) == /\ Worked(s, x.s, L, F) /\ Calm(s, x.s, Q, Clusters, Names)
                    /\ x.go => x.s.res = "ok" /\ Loose(Tab(Seen(x.s)), Seen(x.s)[Dir], L, F, x.at)
<1>1. NFatEnt - 1 \in Nat
  BY VolumeAssumption
<1>2. PICK U : LoopIn(Loop(FreeTurn, x0, NFatEnt - 1), U, "free", 0, x0)
  BY <1>1, FreeTurns
<1> DEFINE P == {x \in U : In(x)}
<1>3. x0 \in P
  <2>1. Worked(s, s, L, F)
    BY DEF Worked, Errs
  <2>2. Calm(s, s, Q, Clusters, Names)
    BY LookedSelf, CalmLooked DEF Fine, Safe
  <2>3. In(x0)
    BY <2>1, <2>2
  <2> HIDE DEF In, x0
  <2> QED  BY <2>3, <1>2 DEF LoopIn
<1>4. ASSUME NEW y \in P, y.go, NEW z \in FreeTurn(y) PROVE In(z)
  <2>1. PICK v \in FreeCluster(y.s, y.at) :
           z = [s |-> v, at |-> v.val, go |-> v.res = "ok" /\ v.val \in Clusters]
    BY <1>4 DEF FreeTurn
  <2>2. /\ Worked(s, y.s, L, F) /\ y.s.res = "ok" /\ Loose(Tab(Seen(y.s)), Seen(y.s)[Dir], L, F, y.at)
        /\ Calm(s, y.s, Q, Clusters, Names)
    BY <1>4
  <2>3. /\ Worked(y.s, v, L, F)
        /\ v.res = "ok" /\ v.val \in Clusters => Loose(Tab(Seen(v)), Seen(y.s)[Dir], L, F, v.val)
    BY <2>2, FreeingCluster DEF Worked
  <2>4. Worked(s, v, L, F) /\ Seen(v)[Dir] = Seen(y.s)[Dir]
    BY <2>2, <2>3, WorkedOn DEF Worked
  <2>5. Watch(Tab(Seen(y.s)), Seen(y.s)[Dir], L, F, N, Q)
    BY <2>2, WatchCalm DEF Worked
  <2>6. y.at \notin Q /\ Q \subseteq Clusters
    <3>1. y.at \notin Q
      BY <2>5, <2>2, WatchLoose
    <3> QED  BY <3>1, <2>5 DEF Watch
  <2>7. Base(y.s)
    BY <2>2 DEF Calm
  <2>8. Calm(y.s, v, Q, Clusters, Names)
    BY <2>6, <2>7, <2>2, CalmFreeCluster
  <2>9. Calm(s, v, Q, Clusters, Names)
    BY <2>8, <2>2, CalmOn
  <2>10. z.s = v /\ z.at = v.val /\ (z.go => v.res = "ok" /\ v.val \in Clusters)
    BY <2>1, Zenon
  <2> QED  BY <2>10, <2>3, <2>4, <2>9
<1>5. KeptByTurns(P, U, "free", 0)
  <2> HIDE DEF In
  <2> QED  BY <1>4 DEF KeptByTurns, AnyTurn
<1>6. Loop(FreeTurn, x0, NFatEnt - 1) \subseteq P
  <2> HIDE DEF P, x0
  <2>1. P \in SUBSET U
    BY DEF P
  <2> QED  BY <2>1, <1>2, <1>3, <1>5 DEF LoopIn
<1>7. PICK x \in Loop(FreeTurn, x0, NFatEnt - 1) : t = x.s
  BY Zenon DEF FreeFrom
<1>8. In(x)
  BY <1>6, <1>7, Zenon
<1> QED  BY <1>7, <1>8

\* remove_chain of a whole chain.
LEMMA CalmRemoving ==
    ASSUME NEW s, NEW L \in SUBSET Names, NEW F, Fine(s, L, F), s.res = "ok",
           NEW c, c \in Clusters => Loose(Tab(Seen(s)), Seen(s)[Dir], L, F, c),
           NEW N, NEW Q, Watch(Tab(Seen(s)), Seen(s)[Dir], L, F, N, Q),
           NEW t \in remove_chain(s, c, 0)
    PROVE  Calm(s, t, Q, Clusters, Names)
<1>1. CASE c \notin Clusters
  <2>1. t = [s EXCEPT !.res = "int_err"]
    BY <1>1 DEF remove_chain, Error
  <2>2. Looked(s, t)
    BY <2>1, SetRes DEF Fine, Safe
  <2> QED  BY <2>2, CalmLooked
<1>2. CASE c \in Clusters
  <2>1. t \in FreeFrom(s, c)
    BY <1>2 DEF remove_chain, Then
  <2> QED  BY <2>1, <1>2, CalmFreeingFrom, Zenon
<1> QED  BY <1>1, <1>2

\* remove_chain of what follows the place of file n: its own clusters up to there
\* stay, too.
LEMMA CalmCutting ==
    ASSUME NEW s, NEW L \in SUBSET Names, NEW F, Fine(s, L, F), s.res = "ok",
           NEW n \in Names, n \notin L, F[n].open, NEW r, NEW k, Placed(Tab(Seen(s)), F[n], r, k),
           F[n].size <= SectorSize * k, NEW p, p = F[n].clust,
           NEW c \in Clusters, Tab(Seen(s))[p] = c,
           NEW Q, Watch(Tab(Seen(s)), Seen(s)[Dir], L, F, {n}, Q), NEW t \in remove_chain(s, c, p)
    PROVE  Calm(s, t, Q, Clusters, Names) /\ Walk(Tab(Seen(t)), F[n].first, r, k)
<1> DEFINE T == Tab(Seen(s))
           E == Seen(s)[Dir]
           R == {r[i] : i \in 1..k}
<1>1. \A u \in put_fat(s, p, EOC) :
         /\ p \in Clusters /\ p # 0 /\ Worked(s, u, L, F) /\ (u.res # "ok" => Looked(s, u))
         /\ u.res = "ok" => Loose(Tab(Seen(u)), Seen(u)[Dir], L, F, c)
  <2> HIDE DEF T, E, R
  <2> QED  BY CuttingOff, Zenon
<1>2. k \in 1..k /\ k \in Nat \ {0} /\ Walk(T, F[n].first, r, k) /\ r[k] = p /\ r \in [1..k -> Clusters]
  BY DEF Placed
<1>3. Base(s) /\ T \in Tables /\ E \in Entries /\ Sound(T, E, L, F) /\ p # 0
  BY <1>2, SafeTyped, ClustersFacts DEF Fine, Safe
<1>4. PICK u \in put_fat(s, p, EOC) : IF u.res = "ok" THEN t \in FreeFrom(u, c) ELSE t = u
  BY <1>3 DEF remove_chain, Then
<1>5. CASE u.res # "ok"
  <2>1. Looked(s, t) /\ Seen(t) = Seen(s)
    BY <1>1, <1>4, <1>5 DEF Looked
  <2> QED  BY <2>1, <1>2, CalmLooked
<1>6. CASE u.res = "ok"
  <2>1. F[n].first \in Clusters /\ Claims(E, L, F, n, F[n].first)
    <3>1. 1 \in 1..k /\ k > 0
      BY <1>2
    <3> QED  BY <3>1, <1>2 DEF Walk, Claims
  <2>2. \A i \in 1..k : r[i] \notin Rest(T, E, L, F, {n})
    <3> HIDE DEF T, E
    <3> QED  BY <2>1, <1>2, <1>3, RestApart
  <2>3. Q \subseteq Rest(T, E, L, F, {n})
    <3>1. ASSUME NEW e \in Q PROVE e \in Rest(T, E, L, F, {n})
      <4>1. PICK m \in Names \ {n}, h \in Clusters, j \in Nat \ {0} : \E q \in [1..j -> Q] :
                Claims(E, L, F, m, h) /\ Walk(T, h, q, j) /\ q[j] = e
        BY <3>1 DEF Watch
      <4>2. PICK q \in [1..j -> Q] : Claims(E, L, F, m, h) /\ Walk(T, h, q, j) /\ q[j] = e
        BY <4>1
      <4>3. j \in 1..j
        OBVIOUS
      <4> HIDE DEF T, E
      <4> QED  BY <4>2, <4>3, RestWalks, Zenon
    <3> QED  BY <3>1
  <2>4. p \notin Q /\ Q \subseteq Clusters
    BY <2>2, <2>3, <1>2, ZenonT(60) DEF Watch
  <2>5. Calm(s, u, Q, Clusters, Names)
    BY <2>4, <1>3, ClustersFacts, CalmPutting, Zenon
  <2>6. Worked(s, u, L, F) /\ Fine(u, L, F) /\ Seen(u)[Dir] = E
    BY <1>1 DEF Worked
  <2>7. Watch(Tab(Seen(u)), Seen(u)[Dir], L, F, {n}, Q)
    BY <2>5, <2>6, WatchCalm
  <2>8. Calm(u, t, Q, Clusters, Names)
    BY <2>6, <2>7, <1>1, <1>4, <1>6, CalmFreeingFrom, Zenon
  <2>9. Walk(Tab(Seen(u)), F[n].first, r, k)
    <3>1. ASSUME NEW i \in 1..k, r[i] = p PROVE i = k
      <4>1. Starts(T, F[n].first) /\ Proper(T)
        BY <2>1, <1>3 DEF Sound
      <4>2. PICK h : h = F[n].first
        OBVIOUS
      <4>3. Starts(T, h) /\ Proper(T) /\ T \in Tables /\ Walk(T, h, r, k)
        BY <4>1, <4>2, <1>2, <1>3
      <4> HIDE DEF T, E, R
      <4>4. i \in 1..k /\ k \in 1..k /\ r[i] = r[k]
        BY <3>1, <1>2
      <4> QED  BY <4>3, <4>4, WalksMeet
    <3>2. ASSUME NEW i \in 1..(k - 1) PROVE Tab(Seen(u))[r[i]] = r[i + 1]
      <4>1. i \in 1..k /\ i # k /\ r[i] \in Clusters /\ r[i] # p /\ T[r[i]] = r[i + 1]
        BY <3>1, <1>2 DEF Walk
      <4>2. Tab(Seen(u)) = Put(T, p, EOC)
        BY <1>3, <1>6, ClustersFacts, Putting DEF Put
      <4> HIDE DEF T
      <4> QED  BY <4>1, <4>2, <1>3 DEF Put, Tables
    <3> QED  BY <3>2, <1>2 DEF Walk
  <2>10. Watch(Tab(Seen(u)), Seen(u)[Dir], L, F, {}, R)
    <3> DEFINE W == Tab(Seen(u))
               Z == Seen(u)[Dir]
    <3>1. R \subseteq Clusters
      BY <1>2
    <3>2. ASSUME NEW e \in R
          PROVE \E m \in Names \ {}, h \in Clusters, j \in Nat \ {0} : \E q \in [1..j -> R] :
                    Claims(Z, L, F, m, h) /\ Walk(W, h, q, j) /\ q[j] = e
      <4>1. PICK i \in 1..k : e = r[i]
        BY <3>2
      <4>2. i \in 0..k /\ i \in Nat \ {0} /\ i \in 1..i
        BY <1>2
      <4>3. PICK q : q = Upto(r, i)
        OBVIOUS
      <4> HIDE DEF W
      <4>4. Walk(W, F[n].first, q, i) /\ \A j \in 1..i : q[j] = r[j]
        BY <4>2, <4>3, <2>9, WalkUpto DEF W
      <4>5. q \in [1..i -> R]
        <5>1. \A j \in 1..i : j \in 1..k
          BY <1>2
        <5>2. \A j \in 1..i : q[j] \in R
          BY <4>4, <5>1
        <5>3. q = [j \in 1..i |-> q[j]]
          BY <4>3 DEF Upto
        <5> QED  BY <5>2, <5>3
      <4>6. Claims(Z, L, F, n, F[n].first)
        BY DEF Claims
      <4> QED  BY <4>1, <4>2, <4>4, <4>5, <4>6, <2>1
    <3> QED  BY <3>1, <3>2, Zenon DEF Watch
  <2>11. Calm(u, t, R, Clusters, Names)
    BY <2>6, <2>10, <1>1, <1>4, <1>6, CalmFreeingFrom, Zenon
  <2>12. Walk(Tab(Seen(t)), F[n].first, r, k)
    <3>1. ASSUME NEW i \in 1..(k - 1) PROVE Tab(Seen(t))[r[i]] = r[i + 1]
      <4>1. i \in 1..k /\ i + 1 \in 1..k /\ r[i] \in R /\ r[i + 1] \in Clusters
        BY <1>2
      <4>2. Tab(Seen(u))[r[i]] = r[i + 1]
        BY <2>9 DEF Walk
      <4>3. Tab(Seen(u))[r[i]] \in Clusters => Tab(Seen(t))[r[i]] = Tab(Seen(u))[r[i]]
        BY <2>11, <4>1 DEF Calm, Like
      <4> QED  BY <4>1, <4>2, <4>3
    <3> QED  BY <3>1, <1>2 DEF Walk
  <2> QED  BY <2>5, <2>8, <2>12, CalmOn
<1> QED  BY <1>5, <1>6

-----------------------------------------------------------------------------
\* The functions of the directory.

\* What is watched stays so where the entries of the names that watch do.
LEMMA WatchEntries ==
    ASSUME NEW T, NEW E, NEW L, NEW F, NEW N, NEW Q, Watch(T, E, L, F, N, Q),
           NEW D, \A m \in Names \ N : D[m] = E[m]
    PROVE  Watch(T, D, L, F, N, Q)
<1>1. \A m \in Names \ N, h \in Clusters : Claims(E, L, F, m, h) => Claims(D, L, F, m, h)
  BY DEF Claims
<1> QED  BY <1>1, WatchKept

\* sync_fs changes nothing that is seen.
LEMMA CalmSyncing ==
    ASSUME NEW s, Base(s), s.res = "ok", NEW t \in sync_fs(s), NEW P, NEW D, NEW M
    PROVE  /\ Calm(s, t, P, D, M) /\ Seen(t) = Seen(s) /\ Base(t) /\ t.f = s.f
           /\ t.res \in {"ok", "disk_err"} /\ (t.res = "ok" => t.disk = Seen(t))
<1>1. Looked(s, t) /\ t.res \in {"ok", "disk_err"} /\ (t.res = "ok" => t.disk = Seen(s))
  BY SyncingWindow DEF sync_fs
<1> QED  BY <1>1, CalmLooked DEF Looked, Kept

\* f_unlink leaves other files alone.
LEMMA CalmUnlinking ==
    ASSUME NEW s, NEW L \in SUBSET Names, NEW F, Fine(s, L, F), s.res = "ok",
           NEW n \in L, ~F[n].open, NEW t \in f_unlink(s, n),
           NEW Q, Watch(Tab(Seen(s)), Seen(s)[Dir], L, F, {n}, Q)
    PROVE  /\ Calm(s, t, Q, Clusters, Names \ {n})
           /\ t.res = "ok" => t.disk = Seen(t) /\ ~Seen(t)[Dir][n].used
           /\ t.res = "no_file" => Calm(s, t, Clusters, Clusters, Names)
<1>1. PICK u \in follow_path(s, n) :
         /\ u.res # "ok" => t = u
         /\ u.res = "ok" => t \in Then(dir_remove(u, n), LAMBDA v :
                Then(IF u.win[n].first # 0 THEN remove_chain(v, u.win[n].first, 0) ELSE {v}, sync_fs))
  BY DEF f_unlink, Then
<1>2. n \in Names
  OBVIOUS
<1>3. /\ Looked(s, u) /\ Did(s, u, L, F)
      /\ u.res = "ok" => u.wsect = Dir /\ u.win = Seen(s)[Dir] /\ u.win \in Entries /\ u.win[n].used
  BY <1>2, FollowingPath
<1>4. CASE u.res # "ok"
  BY <1>1, <1>3, <1>4, CalmLooked
<1>5. CASE u.res = "ok"
  <2> DEFINE h == u.win[n].first
             E == Seen(u)[Dir]
             T == Tab(Seen(u))
             e == [E[n] EXCEPT !.used = FALSE]
  <2>1. PICK v \in dir_remove(u, n) :
           /\ v.res # "ok" => t = v
           /\ v.res = "ok" => t \in Then(IF h # 0 THEN remove_chain(v, h, 0) ELSE {v}, sync_fs)
    BY <1>1, <1>5 DEF Then
  <2>2. Fine(u, L, F) /\ E = u.win /\ E \in Entries /\ E[n].used /\ E[n].first = h /\ Base(u)
    BY <1>3, <1>5 DEF Did, Looked
  <2>3. /\ Did(u, v, L, F) /\ v.res = "ok" /\ Tab(Seen(v)) = T
        /\ Seen(v)[Dir] = Put(E, n, e)
    BY <1>2, <1>3, <1>5, <2>2, DirRemoving
  <2>4. PICK w \in (IF h # 0 THEN remove_chain(v, h, 0) ELSE {v}) :
           IF w.res = "ok" THEN t \in sync_fs(w) ELSE t = w
    BY <2>1, <2>3 DEF Then
  <2>5. v = SetEntry(u, n, e)
    BY <2>2, <1>3, <1>5, Zenon DEF dir_remove, move_window, Then
  <2> HIDE DEF h, E, T
  <2>6. e \in EntrySet /\ ~e.used
    <3>1. E[n] \in EntrySet
      BY <2>2, <1>2 DEF Entries
    <3> QED  BY <3>1, EntryFacts, Zenon
  <2> HIDE DEF e
  <2>7. h \in Clusters => Loose(T, Put(E, n, e), L, F, h)
    <3>3. Sound(T, E, L, F)
      BY <2>2 DEF Fine, Safe, T, E
    <3> QED  BY <2>6, <3>3, <2>2, StrikeLoose
  <2>8. Calm(u, v, Clusters, Clusters, Names \ {n})
    BY <1>2, <1>3, <1>5, <2>2, <2>5, <2>6, CalmEntering
  <2>9. Calm(s, u, Clusters, Clusters, Names \ {n}) /\ Seen(u) = Seen(s)
    BY <1>3, CalmLooked DEF Looked
  <2>10. Calm(s, v, Clusters, Clusters, Names \ {n})
    BY <2>8, <2>9, CalmOn
  <2>11. Q \subseteq Clusters
    BY DEF Watch
  <2>12. Calm(s, v, Q, Clusters, Names \ {n})
    BY <2>10, <2>11, CalmLess
  <2>13. Watch(Tab(Seen(v)), Seen(v)[Dir], L, F, {n}, Q)
    <3>1. Watch(T, E, L, F, {n}, Q)
      BY <2>9 DEF T, E
    <3>2. \A m \in Names \ {n} : Put(E, n, e)[m] = E[m]
      BY <2>2 DEF Put, Entries
    <3> QED  BY <3>1, <3>2, <2>3, WatchEntries
  <2>14. Fine(v, L, F) /\ Base(v)
    BY <2>3 DEF Did, Fine, Safe
  <2>15. Worked(v, w, L, F) /\ Calm(v, w, Q, Clusters, Names \ {n})
    <3>1. CASE h = 0
      <4>1. w = v
        BY <3>1, <2>4
      <4> QED  BY <4>1, <2>14, <2>3, LookedSelf, CalmLooked DEF Worked, Errs
    <3>2. CASE h # 0
      <4>1. h \in Clusters => Loose(Tab(Seen(v)), Seen(v)[Dir], L, F, h)
        BY <2>3, <2>7
      <4>2. w \in remove_chain(v, h, 0)
        BY <3>2, <2>4
      <4>3. Worked(v, w, L, F)
        BY <4>1, <4>2, <2>3, <2>14, Removing
      <4>4. Calm(v, w, Q, Clusters, Names)
        BY <4>1, <4>2, <2>3, <2>13, <2>14, CalmRemoving, Zenon
      <4> QED  BY <4>3, <4>4, CalmLess
    <3> QED  BY <3>1, <3>2
  <2>16. Calm(s, w, Q, Clusters, Names \ {n}) /\ Base(w)
    BY <2>12, <2>15, CalmOn, Zenon DEF Calm
  <2>17. ~Seen(w)[Dir][n].used /\ w.res \in Errs
    <3>1. Put(E, n, e)[n] = e
      BY <2>2, <1>2 DEF Put, Entries
    <3> QED  BY <3>1, <2>3, <2>6, <2>15 DEF Worked
  <2>18. CASE w.res # "ok"
    BY <2>4, <2>16, <2>17, <2>18 DEF Errs
  <2>19. CASE w.res = "ok"
    <3>1. /\ Calm(w, t, Q, Clusters, Names \ {n}) /\ Seen(t) = Seen(w)
          /\ t.res \in {"ok", "disk_err"} /\ (t.res = "ok" => t.disk = Seen(t))
      BY <2>4, <2>16, <2>19, CalmSyncing
    <3> QED  BY <3>1, <2>16, <2>17, CalmOn
  <2> QED  BY <2>18, <2>19
<1> QED  BY <1>4, <1>5

\* An entry for a name is made.
LEMMA CalmRegistering ==
    ASSUME NEW s, Base(s), s.res = "ok", s.wsect = Dir, NEW n \in Names, NEW t \in dir_register(s, n)
    PROVE  /\ Calm(s, t, Clusters, Clusters, Names \ {n}) /\ Base(t) /\ t.wsect = Dir /\ t.res = "ok"
           /\ \E e \in EntrySet : e.used /\ t.win = Put(s.win, n, e) /\ Seen(t)[Dir] = Put(Seen(s)[Dir], n, e)
<1>0. PICK e : e = [NoEntry EXCEPT !.used = TRUE]
  BY Zenon
<1>1. t = SetEntry(s, n, e)
  BY <1>0 DEF dir_register, move_window, Then
<1>2. e \in EntrySet /\ e.used
  <2>1. NoEntry \in EntrySet
    BY DEF NoEntry, EntrySet
  <2> QED  BY <2>1, <1>0, EntryFacts, Zenon
<1>3. /\ Wrote(s, t) /\ t.res = s.res /\ t.wsect = Dir /\ t.win = Put(s.win, n, e)
      /\ Seen(t)[Dir] = Put(Seen(s)[Dir], n, e)
  BY <1>1, <1>2, EnteringPut
<1>4. Calm(s, t, Clusters, Clusters, Names \ {n})
  BY <1>1, <1>2, CalmEntering
<1> QED  BY <1>2, <1>3, <1>4 DEF Wrote

\* Two entries are changed, one after the other.
LEMMA CalmTwo ==
    ASSUME NEW P, NEW D, NEW a \in Names, NEW b \in Names, NEW s, NEW t,
           Calm(s, t, P, D, Names \ {a}) \/ Calm(s, t, P, D, Names \ {b})
    PROVE  Calm(s, t, P, D, Names \ {a, b})
  BY CalmLess

\* The ways through f_rename.
RenameWays(s, t, old, new) ==
    \E u \in follow_path(s, old) :
        /\ u.res # "ok" => t = u
        /\ u.res = "ok" => \E a \in follow_path(u, new) :
               /\ a.res = "ok" => t = [a EXCEPT !.res = "exist"]
               /\ a.res = "no_file" => t \in Then(dir_register([a EXCEPT !.res = "ok"], new), LAMBDA v :
                           Then(dir_remove(SetEntry(v, new, u.win[old]), old), sync_fs))
               /\ a.res \notin {"ok", "no_file"} => t = a

\* It goes one of them.
LEMMA RenameInWays ==
    ASSUME NEW s, NEW old, NEW new, NEW t \in f_rename(s, old, new)
    PROVE  RenameWays(s, t, old, new)
  BY DEF f_rename, Then, Error, RenameWays

\* What a rename leaves: on success the entry goes by its new name, on the disk too.
Renames(s, t, old, new, N) ==
    /\ Calm(s, t, Clusters, Clusters, Names \ N)
    /\ t.res = "ok" => /\ t.disk = Seen(t) /\ ~Seen(t)[Dir][old].used
                       /\ Seen(s)[Dir][old].used /\ Seen(t)[Dir][new] = Seen(s)[Dir][old]
    /\ t.res \in {"no_file", "exist"} => Calm(s, t, Clusters, Clusters, Names)

\* f_rename changes no other file.
LEMMA CalmRenaming ==
    ASSUME NEW s, NEW L \in SUBSET Names, NEW F, Fine(s, L, F), s.res = "ok",
           NEW old \in Names, NEW new \in Names, old # new, NEW t \in f_rename(s, old, new),
           NEW N, N = {old, new}
    PROVE  Renames(s, t, old, new, N)
<1> SUFFICES /\ Calm(s, t, Clusters, Clusters, Names \ N)
             /\ t.res = "ok" => /\ t.disk = Seen(t) /\ ~Seen(t)[Dir][old].used
                                /\ Seen(s)[Dir][old].used /\ Seen(t)[Dir][new] = Seen(s)[Dir][old]
             /\ t.res \in {"no_file", "exist"} => Calm(s, t, Clusters, Clusters, Names)
  BY DEF Renames
<1>1. PICK u \in follow_path(s, old) :
         /\ u.res # "ok" => t = u
         /\ u.res = "ok" => \E a \in follow_path(u, new) :
                /\ a.res = "ok" => t = [a EXCEPT !.res = "exist"]
                /\ a.res = "no_file" => t \in Then(dir_register([a EXCEPT !.res = "ok"], new), LAMBDA v :
                            Then(dir_remove(SetEntry(v, new, u.win[old]), old), sync_fs))
                /\ a.res \notin {"ok", "no_file"} => t = a
  BY RenameInWays, Zenon DEF RenameWays
<1>2. /\ Looked(s, u) /\ Did(s, u, L, F)
      /\ u.res = "ok" => u.wsect = Dir /\ u.win = Seen(s)[Dir] /\ u.win[old].used
      /\ Seen(u) = Seen(s)
  BY FollowingPath, ZenonT(30) DEF Looked
<1>3. CASE u.res # "ok"
  BY <1>1, <1>2, <1>3, CalmLooked
<1>4. CASE u.res = "ok"
  <2>1. PICK a \in follow_path(u, new) :
                /\ a.res = "ok" => t = [a EXCEPT !.res = "exist"]
                /\ a.res = "no_file" => t \in Then(dir_register([a EXCEPT !.res = "ok"], new), LAMBDA v :
                            Then(dir_remove(SetEntry(v, new, u.win[old]), old), sync_fs))
                /\ a.res \notin {"ok", "no_file"} => t = a
    BY <1>1, <1>4, Zenon
  <2>2. Fine(u, L, F)
    BY <1>2 DEF Did
  <2>3. /\ Looked(u, a) /\ a.res \in {"ok", "no_file", "disk_err"}
        /\ a.res \in {"ok", "no_file"} => a.wsect = Dir /\ a.win = Seen(u)[Dir]
    BY <1>4, <2>2, FollowingPath
  <2>4. Looked(s, a) /\ Base(a) /\ Seen(a) = Seen(s)
    BY <2>3, <1>2, LookedOn DEF Looked
  <2>5. CASE a.res = "ok"
    <3>1. t = [a EXCEPT !.res = "exist"]
      BY <2>1, <2>5
    <3>2. Looked(a, t) /\ t.res = "exist"
      BY <3>1, <2>4, SetRes
    <3>3. Looked(s, t)
      BY <3>2, <2>4, LookedOn
    <3> QED  BY <3>2, <3>3, CalmLooked
  <2>6. CASE a.res = "no_file"
    <3>0. PICK b : b = [a EXCEPT !.res = "ok"]
      BY Zenon
    <3>1. Looked(a, b) /\ b.res = "ok" /\ b.wsect = Dir /\ b.win = a.win /\ Base(b)
      BY <3>0, <2>3, <2>4, <2>6, SetRes DEF Looked
    <3>2. PICK v \in dir_register(b, new) :
             /\ v.res # "ok" => t = v
             /\ v.res = "ok" => t \in Then(dir_remove(SetEntry(v, new, u.win[old]), old), sync_fs)
      BY <3>0, <2>1, <2>6 DEF Then
    <3> DEFINE E == Seen(s)[Dir]
               e == u.win[old]
               x == SetEntry(v, new, e)
    <3>3. b.win = E /\ e = E[old] /\ e.used /\ E \in Entries /\ e \in EntrySet /\ Seen(b) = Seen(s)
          /\ Base(s)
      <4>1. E \in Entries /\ Base(s)
        BY SafeTyped DEF Fine, Safe
      <4> QED  BY <4>1, <3>1, <2>3, <2>6, <1>2, <1>4, <2>4 DEF Looked, Entries
    <3>4. /\ Calm(b, v, Clusters, Clusters, Names \ {new}) /\ Base(v) /\ v.wsect = Dir /\ v.res = "ok"
          /\ \E e0 \in EntrySet : v.win = Put(b.win, new, e0) /\ Seen(v)[Dir] = Put(Seen(b)[Dir], new, e0)
      BY <3>1, CalmRegistering, ZenonT(60)
    <3>5. PICK e0 \in EntrySet : v.win = Put(E, new, e0) /\ Seen(v)[Dir] = Put(E, new, e0)
      BY <3>3, <3>4
    <3>6. PICK w \in dir_remove(SetEntry(v, new, u.win[old]), old) :
             /\ w.res # "ok" => t = w
             /\ w.res = "ok" => t \in sync_fs(w)
      BY <3>2, <3>4 DEF Then
    <3> HIDE DEF E, e, x
    <3>7. /\ Wrote(v, x) /\ x.res = v.res /\ x.wsect = Dir
          /\ x.win = Put(v.win, new, e) /\ Seen(x)[Dir] = Put(Seen(v)[Dir], new, e)
          /\ Calm(v, x, Clusters, Clusters, Names \ {new})
      BY <3>3, <3>4, EnteringPut, CalmEntering DEF x
    <3>8. x.win[old] = e
      BY <3>3, <3>5, <3>7 DEF Put, Entries, e
    <3> DEFINE e1 == [e EXCEPT !.used = FALSE]
    <3>9. w = SetEntry(x, old, e1)
      <4>1. w \in dir_remove(x, old)
        BY <3>6 DEF x, e
      <4> QED  BY <4>1, <3>4, <3>7, <3>8, ZenonT(60) DEF dir_remove, move_window, Then
    <3>10. e1 \in EntrySet /\ ~e1.used
      BY <3>3, EntryFacts, Zenon
    <3> HIDE DEF e1
    <3>11. Base(x)
      BY <3>7 DEF Wrote
    <3>12. /\ Wrote(x, w) /\ w.res = x.res /\ Seen(w)[Dir] = Put(Seen(x)[Dir], old, e1)
           /\ Calm(x, w, Clusters, Clusters, Names \ {old})
      BY <3>7, <3>9, <3>10, <3>11, EnteringPut, CalmEntering
    <3>13. Seen(w)[Dir][new] = e /\ ~Seen(w)[Dir][old].used
      <4>1. Seen(w)[Dir] = Put(Put(Put(E, new, e0), new, e), old, e1)
        BY <3>5, <3>7, <3>12
      <4> QED  BY <4>1, <3>3, <3>10 DEF Put, Entries
    <3>14. Calm(s, w, Clusters, Clusters, Names \ N) /\ Base(w)
      <4>1. Calm(s, a, Clusters, Clusters, Names \ N) /\ Calm(a, b, Clusters, Clusters, Names \ N)
        BY <2>4, <3>1, CalmLooked
      <4>2. /\ Calm(b, v, Clusters, Clusters, Names \ N) /\ Calm(v, x, Clusters, Clusters, Names \ N)
            /\ Calm(x, w, Clusters, Clusters, Names \ N)
        BY <3>4, <3>7, <3>12, CalmTwo, Zenon
      <4>3. Calm(s, b, Clusters, Clusters, Names \ N)
        BY <4>1, CalmOn
      <4>4. Calm(s, v, Clusters, Clusters, Names \ N)
        BY <4>2, <4>3, CalmOn
      <4>5. Calm(s, x, Clusters, Clusters, Names \ N)
        BY <4>2, <4>4, CalmOn
      <4>6. Calm(s, w, Clusters, Clusters, Names \ N)
        BY <4>2, <4>5, CalmOn
      <4> QED  BY <4>6, <3>12 DEF Wrote
    <3>15. /\ Calm(w, t, Clusters, Clusters, Names \ N) /\ Seen(t) = Seen(w)
           /\ t.res \in {"ok", "disk_err"} /\ (t.res = "ok" => t.disk = Seen(t))
      BY <3>6, <3>4, <3>7, <3>12, <3>14, CalmSyncing
    <3>16. Calm(s, t, Clusters, Clusters, Names \ N)
      BY <3>14, <3>15, CalmOn
    <3> QED  BY <3>3, <3>13, <3>15, <3>16 DEF E
  <2>7. CASE a.res \notin {"ok", "no_file"}
    BY <2>1, <2>3, <2>4, <2>7, CalmLooked
  <2> QED  BY <2>5, <2>6, <2>7
<1> QED  BY <1>3, <1>4

\* The entry of a closed file is emptied and its chain freed.
LEMMA CalmEmptying ==
    ASSUME NEW s, NEW L \in SUBSET Names, NEW F, Fine(s, L, F), s.res = "ok", s.wsect = Dir,
           NEW n \in L, ~F[n].open, s.win[n].used, NEW t \in Empty(s, n),
           NEW Q, Watch(Tab(Seen(s)), Seen(s)[Dir], L, F, {n}, Q)
    PROVE  /\ Calm(s, t, Q, Clusters, Names \ {n})
           /\ t.res = "ok" => t.wsect = Dir /\ Seen(t)[Dir][n].used /\ Seen(t)[Dir][n].size = 0
<1> DEFINE E == Seen(s)[Dir]
           T == Tab(Seen(s))
           h == s.win[n].first
           e == [s.win[n] EXCEPT !.first = 0, !.size = 0]
           x == SetEntry(s, n, e)
<1>1. n \in Names
  OBVIOUS
<1>2. Base(s) /\ Sound(T, E, L, F)
  BY DEF Fine, Safe
<1>3. E \in Entries /\ s.win = E /\ s.win[n] = E[n] /\ E[n] \in EntrySet /\ E[n].used
  BY <1>1, <1>2, ShowsDir DEF Entries
<1>4. e \in EntrySet /\ e.used /\ e.first = 0 /\ e.size = 0
  <2>1. s.win[n] \in EntrySet /\ s.win[n].used
    BY <1>3
  <2> QED  BY <2>1, EntryFacts, Zenon
<1>5. /\ h = 0 => t = x
      /\ h # 0 => \E u \in remove_chain(x, h, 0) :
           /\ u.res # "ok" => t = u
           /\ u.res = "ok" => \E v \in move_window(u, Dir) : t = [v EXCEPT !.last = h - 1]
  <2>2. t \in IF h = 0 THEN {x}
             ELSE Then(remove_chain(x, h, 0), LAMBDA u :
                 {[v EXCEPT !.last = h - 1] : v \in move_window(u, Dir)})
    BY Zenon DEF Empty
  <2> HIDE DEF h, x
  <2> QED  BY <2>2 DEF Then
<1> HIDE DEF e, x, h, E, T
<1>6. /\ Did(s, x, L, F) /\ x.res = "ok" /\ x.wsect = Dir
      /\ Tab(Seen(x)) = T /\ Seen(x)[Dir] = Put(E, n, e)
      /\ Calm(s, x, Clusters, Clusters, Names \ {n})
  <2>1. e \in EntrySet /\ e.first = 0 /\ e.size = 0 /\ x = SetEntry(s, n, e)
    BY <1>4 DEF x
  <2>2. /\ Did(s, x, L, F) /\ x.res = "ok" /\ x.wsect = Dir /\ x.win = Put(s.win, n, e)
        /\ Tab(Seen(x)) = Tab(Seen(s)) /\ Seen(x)[Dir] = Put(Seen(s)[Dir], n, e)
    BY <2>1, <1>1, EnteringEmpty
  <2>3. Calm(s, x, Clusters, Clusters, Names \ {n})
    BY <2>1, <1>1, <1>2, CalmEntering
  <2> QED  BY <2>2, <2>3 DEF E, T
<1>7. Put(E, n, e)[n] = e /\ \A m \in Names \ {n} : Put(E, n, e)[m] = E[m]
  BY <1>1, <1>3 DEF Put, Entries
<1>8. Q \subseteq Clusters
  BY DEF Watch
<1>9. Calm(s, x, Q, Clusters, Names \ {n})
  BY <1>6, <1>8, CalmLess
<1>10. CASE h = 0
  BY <1>5, <1>6, <1>7, <1>4, <1>9, <1>10
<1>11. CASE h # 0
  <2>1. PICK u \in remove_chain(x, h, 0) :
           /\ u.res # "ok" => t = u
           /\ u.res = "ok" => \E v \in move_window(u, Dir) : t = [v EXCEPT !.last = h - 1]
    BY <1>5, <1>11
  <2>2. h \in Clusters
    BY <1>3, <1>11 DEF EntrySet, h
  <2>3. Loose(T, Put(E, n, e), L, F, h)
    <3>1. E[n].first = h /\ e.first # h
      BY <1>3, <1>4, <1>11 DEF h
    <3> QED  BY <3>1, <1>2, <1>3, <1>4, <2>2, StrikeLoose
  <2>4. Fine(x, L, F) /\ Loose(Tab(Seen(x)), Seen(x)[Dir], L, F, h)
    BY <1>6, <2>3 DEF Did
  <2>5. Worked(x, u, L, F)
    BY <2>1, <2>4, <1>6, Removing
  <2>6. Watch(Tab(Seen(x)), Seen(x)[Dir], L, F, {n}, Q)
    <3>1. Watch(T, E, L, F, {n}, Q)
      BY DEF T, E
    <3> QED  BY <3>1, <1>6, <1>7, WatchEntries
  <2>7. Calm(x, u, Q, Clusters, Names)
    BY <2>1, <2>4, <2>6, <1>6, CalmRemoving, Zenon
  <2>8. Calm(s, u, Q, Clusters, Names \ {n}) /\ Base(u) /\ IsState(u)
    <3>1. Calm(x, u, Q, Clusters, Names \ {n})
      BY <2>7, CalmLess
    <3> QED  BY <3>1, <1>9, CalmOn, Zenon DEF Calm, Base
  <2>9. CASE u.res # "ok"
    BY <2>1, <2>8, <2>9
  <2>10. CASE u.res = "ok"
    <3>1. PICK v \in move_window(u, Dir) : t = [v EXCEPT !.last = h - 1]
      BY <2>1, <2>10
    <3>2. Looked(u, v) /\ (v.res = "ok" => v.wsect = Dir) /\ Base(v) /\ IsState(v) /\ Seen(v) = Seen(u)
      BY <2>8, <2>10, MovingWindow DEF Looked, Base
    <3>3. /\ IsState(t) /\ t.disk = v.disk /\ t.win = v.win /\ t.wsect = v.wsect /\ t.dirty = v.dirty
          /\ t.media = v.media /\ t.res = v.res
      BY <3>1, <3>2 DEF IsState
    <3>4. Base(t) /\ Seen(t) = Seen(v)
      BY <3>2, <3>3, BaseSame
    <3>5. Calm(v, t, Q, Clusters, Names \ {n}) /\ Calm(u, v, Q, Clusters, Names \ {n})
      BY <3>2, <3>3, <3>4, CalmStay, CalmLooked
    <3>6. Calm(u, t, Q, Clusters, Names \ {n})
      BY <3>5, CalmOn
    <3>7. Calm(s, t, Q, Clusters, Names \ {n})
      BY <3>6, <2>8, CalmOn
    <3>8. Seen(t)[Dir] = Put(E, n, e)
      BY <3>2, <3>4, <2>5, <1>6 DEF Worked
    <3> QED  BY <3>2, <3>3, <3>7, <3>8, <1>4, <1>7
  <2> QED  BY <2>9, <2>10
<1> QED  BY <1>10, <1>11

\* The file object f_open makes of the entry in the window.
Makes(x, y, n, mode, modified) ==
    y = [x EXCEPT !.f = FreshFile(n, mode, x.win[n], modified)]

\* An empty file is made.
CreateParts(s, t, n, mode) ==
    \E u \in Empty(s, n) :
        /\ u.res # "ok" => t = u
        /\ u.res = "ok" => \E v : Makes(u, v, n, mode, mode.always)
                                  /\ t = [v EXCEPT !.f = [@ EXCEPT !.modified = TRUE]]

\* The ways through f_open, with its mode.
OpenParts(s, t, n, mode) ==
    \E u \in follow_path(s, n) :
        \/ /\ u.res = "no_file" /\ (mode.always \/ mode.new \/ mode.open)
           /\ \E w \in dir_register([u EXCEPT !.res = "ok"], n) :
                  /\ w.res # "ok" => t = w
                  /\ w.res = "ok" => CreateParts(w, t, n, mode)
        \/ u.res = "ok" /\ mode.new /\ t = [u EXCEPT !.res = "exist"]
        \/ u.res = "ok" /\ mode.always /\ CreateParts(u, t, n, mode)
        \/ u.res = "ok" /\ ~mode.always /\ Makes(u, t, n, mode, mode.always)
        \/ u.res # "ok" /\ t = u

\* f_open goes one of them.
LEMMA OpenInParts ==
    ASSUME NEW s, NEW n, NEW mode, NEW t \in f_open(s, n, mode)
    PROVE  OpenParts(s, t, n, mode)
<1> DEFINE Entered(x) == {[x EXCEPT !.f = FreshFile(n, mode, x.win[n], mode.always)]}
           Created(x) ==
            Then(Empty(x, n), LAMBDA u :
                {[v EXCEPT !.f = [@ EXCEPT !.modified = TRUE]] : v \in Entered(u)})
           create == mode.always \/ mode.new \/ mode.open
<1>1. PICK u \in follow_path(s, n) :
         t \in CASE u.res = "no_file" /\ create ->
                        Then(dir_register([u EXCEPT !.res = "ok"], n), Created)
                 [] u.res = "ok" /\ mode.new -> Error(u, "exist")
                 [] u.res = "ok" /\ ~mode.new /\ mode.always -> Created(u)
                 [] u.res = "ok" /\ ~mode.new /\ ~mode.always -> Entered(u)
                 [] OTHER -> {u}
  BY Zenon DEF f_open, FreshFile
<1>2. ASSUME NEW x, NEW y \in Entered(x) PROVE Makes(x, y, n, mode, mode.always)
  BY <1>2 DEF Makes
<1> HIDE DEF Entered
<1>3. ASSUME NEW x, t \in Created(x) PROVE CreateParts(x, t, n, mode)
  <2>1. PICK w \in Empty(x, n) :
           /\ w.res # "ok" => t = w
           /\ w.res = "ok" => \E v \in Entered(w) : t = [v EXCEPT !.f = [@ EXCEPT !.modified = TRUE]]
    BY <1>3 DEF Then
  <2>2. w.res = "ok" => \E v : Makes(w, v, n, mode, mode.always)
                               /\ t = [v EXCEPT !.f = [@ EXCEPT !.modified = TRUE]]
    BY <2>1, <1>2
  <2> QED  BY <2>1, <2>2 DEF CreateParts
<1> HIDE DEF Created
<1>4. ASSUME t \in Then(dir_register([u EXCEPT !.res = "ok"], n), Created)
      PROVE  \E w \in dir_register([u EXCEPT !.res = "ok"], n) :
                  /\ w.res # "ok" => t = w
                  /\ w.res = "ok" => t \in Created(w)
  BY <1>4 DEF Then
<1>5. CASE u.res = "no_file" /\ create
  BY <1>1, <1>3, <1>4, <1>5, Zenon DEF OpenParts
<1>6. CASE ~(u.res = "no_file" /\ create)
  <2>1. CASE u.res = "ok" /\ mode.new
    <3>1. t \in Error(u, "exist")
      BY <1>1, <2>1, <1>6
    <3>2. t = [u EXCEPT !.res = "exist"]
      BY <3>1 DEF Error
    <3> QED  BY <3>2, <2>1, Zenon DEF OpenParts
  <2>2. CASE u.res = "ok" /\ ~mode.new /\ mode.always
    <3>1. t \in Created(u)
      BY <1>1, <2>2, <1>6
    <3> QED  BY <3>1, <1>3, <2>2 DEF OpenParts
  <2>3. CASE u.res = "ok" /\ ~mode.new /\ ~mode.always
    <3>1. t \in Entered(u)
      BY <1>1, <2>3, <1>6
    <3> QED  BY <3>1, <1>2, <2>3 DEF OpenParts
  <2>4. CASE u.res # "ok"
    <3>1. t = u
      BY <1>1, <2>4, <1>6
    <3> QED  BY <3>1, <2>4 DEF OpenParts
  <2> QED  BY <2>1, <2>2, <2>3, <2>4
<1> QED  BY <1>5, <1>6

\* A file that f_open has emptied, or one it has found.
OpensNew(t, n) ==
    t.f.modified /\ t.f.size = 0 /\ ~t.f.dirty /\ Seen(t)[Dir][n].used
OpensOld(s, t, n) ==
    /\ ~t.f.modified /\ ~t.f.dirty /\ t.f.sect = 0 /\ Seen(t)[Dir][n].used
    /\ t.f.first = Seen(t)[Dir][n].first /\ t.f.size = Seen(t)[Dir][n].size
    /\ Calm(s, t, Clusters, Clusters, Names)

\* The file that is worked on may be set.
LEMMA CalmSetFile ==
    ASSUME NEW s, Base(s), NEW f, NEW t, t = [s EXCEPT !.f = f], NEW P, NEW D, NEW M
    PROVE  Calm(s, t, P, D, M) /\ t.f = f /\ Base(t) /\ Seen(t) = Seen(s) /\ t.res = s.res
<1>0. IsState(s)
  BY DEF Base
<1>1. /\ IsState(t) /\ t.disk = s.disk /\ t.win = s.win /\ t.wsect = s.wsect /\ t.dirty = s.dirty
      /\ t.media = s.media /\ t.f = f /\ t.res = s.res
  BY <1>0 DEF IsState
<1>2. Base(t) /\ Seen(t) = Seen(s)
  BY <1>1, BaseSame, Zenon
<1> QED  BY <1>1, <1>2, CalmStay, Zenon

\* The ways through f_open that empty the file.
LEMMA CalmCreation ==
    ASSUME NEW s, NEW L \in SUBSET Names, NEW F, Fine(s, L, F), s.res = "ok", s.wsect = Dir,
           NEW n \in L, ~F[n].open, s.win[n].used, NEW mode, NEW t, CreateParts(s, t, n, mode),
           NEW Q, Watch(Tab(Seen(s)), Seen(s)[Dir], L, F, {n}, Q)
    PROVE  /\ Calm(s, t, Q, Clusters, Names \ {n}) /\ t.res \in Errs
           /\ t.res = "ok" => OpensNew(t, n)
<1>1. PICK u \in Empty(s, n) :
        /\ u.res # "ok" => t = u
        /\ u.res = "ok" => \E v : Makes(u, v, n, mode, mode.always)
                                  /\ t = [v EXCEPT !.f = [@ EXCEPT !.modified = TRUE]]
  BY DEF CreateParts
<1>2. /\ Calm(s, u, Q, Clusters, Names \ {n}) /\ Base(u)
      /\ u.res = "ok" => u.wsect = Dir /\ Seen(u)[Dir][n].used /\ Seen(u)[Dir][n].size = 0
  BY CalmEmptying, Zenon DEF Calm
<1>3. u.res \in Errs
  BY Emptying
<1>4. CASE u.res # "ok"
  BY <1>1, <1>2, <1>3, <1>4
<1>5. CASE u.res = "ok"
  <2>1. PICK v : Makes(u, v, n, mode, mode.always) /\ t = [v EXCEPT !.f = [@ EXCEPT !.modified = TRUE]]
    BY <1>1, <1>5
  <2>2. PICK e : e = u.win[n]
    OBVIOUS
  <2>3. PICK f : f = FreshFile(n, mode, e, mode.always)
    OBVIOUS
  <2>4. v = [u EXCEPT !.f = f]
    BY <2>1, <2>2, <2>3 DEF Makes
  <2>5. Calm(u, v, Q, Clusters, Names \ {n}) /\ Base(v) /\ v.f = f /\ Seen(v) = Seen(u) /\ v.res = u.res
    BY <2>4, <1>2, CalmSetFile
  <2>6. PICK g : g = [f EXCEPT !.modified = TRUE]
    BY Zenon
  <2>7. t = [v EXCEPT !.f = g]
    BY <2>1, <2>5, <2>6
  <2>8. Calm(v, t, Q, Clusters, Names \ {n}) /\ Base(t) /\ t.f = g /\ Seen(t) = Seen(v) /\ t.res = v.res
    BY <2>7, <2>5, CalmSetFile
  <2>9. g.modified /\ g.size = e.size /\ ~g.dirty
    BY <2>3, <2>6 DEF FreshFile
  <2>10. e = Seen(u)[Dir][n]
    BY <2>2, <1>2, <1>5, ShowsDir
  <2>11. OpensNew(t, n)
    BY <2>5, <2>8, <2>9, <2>10, <1>2, <1>5 DEF OpensNew
  <2>12. Calm(s, v, Q, Clusters, Names \ {n})
    BY <2>5, <1>2, CalmOn
  <2>13. Calm(s, t, Q, Clusters, Names \ {n})
    BY <2>8, <2>12, CalmOn
  <2> QED  BY <2>5, <2>8, <2>11, <2>13, <1>3
<1> QED  BY <1>4, <1>5

\* What f_open leaves.
OpensAs(s, t, n, mode, Q) ==
    /\ Calm(s, t, Q, Clusters, Names \ {n})
    /\ t.res = "ok" => (OpensNew(t, n) /\ (mode.always \/ mode.new \/ mode.open)) \/ OpensOld(s, t, n)
    /\ t.res # "ok" /\ ~(t.res \in {"disk_err", "int_err"} /\ (mode.always \/ mode.new \/ mode.open))
           => Calm(s, t, Clusters, Clusters, Names)

\* f_open.
LEMMA CalmOpening ==
    ASSUME NEW s, NEW L \in SUBSET Names, NEW F, Fine(s, L, F), s.res = "ok",
           NEW n \in L, ~F[n].open, NEW mode, NEW t \in f_open(s, n, mode),
           NEW Q, Watch(Tab(Seen(s)), Seen(s)[Dir], L, F, {n}, Q)
    PROVE  OpensAs(s, t, n, mode, Q)
<1> SUFFICES /\ Calm(s, t, Q, Clusters, Names \ {n})
             /\ t.res = "ok" => (OpensNew(t, n) /\ (mode.always \/ mode.new \/ mode.open)) \/ OpensOld(s, t, n)
             /\ t.res # "ok" /\ ~(t.res \in {"disk_err", "int_err"} /\ (mode.always \/ mode.new \/ mode.open))
                    => Calm(s, t, Clusters, Clusters, Names)
  BY DEF OpensAs
<1>1. PICK u \in follow_path(s, n) :
        \/ /\ u.res = "no_file" /\ (mode.always \/ mode.new \/ mode.open)
           /\ \E w \in dir_register([u EXCEPT !.res = "ok"], n) :
                  /\ w.res # "ok" => t = w
                  /\ w.res = "ok" => CreateParts(w, t, n, mode)
        \/ u.res = "ok" /\ mode.new /\ t = [u EXCEPT !.res = "exist"]
        \/ u.res = "ok" /\ mode.always /\ CreateParts(u, t, n, mode)
        \/ u.res = "ok" /\ ~mode.always /\ Makes(u, t, n, mode, mode.always)
        \/ u.res # "ok" /\ t = u
  BY OpenInParts, SMTT(60) DEF OpenParts
<1>2. n \in Names
  OBVIOUS
<1>3. /\ Looked(s, u) /\ Did(s, u, L, F) /\ u.res \in {"ok", "no_file", "disk_err"}
      /\ u.res \in {"ok", "no_file"} => u.wsect = Dir
      /\ u.res = "ok" => u.win[n].used
  BY <1>2, FollowingPath, Zenon
<1>4. Fine(u, L, F) /\ Base(u) /\ Seen(u) = Seen(s)
  BY <1>3 DEF Did, Looked
<1>5. Calm(s, u, Clusters, Clusters, Names) /\ Calm(s, u, Q, Clusters, Names \ {n})
  BY <1>3, CalmLooked
<1>6. CASE /\ u.res = "no_file" /\ (mode.always \/ mode.new \/ mode.open)
           /\ \E w \in dir_register([u EXCEPT !.res = "ok"], n) :
                  /\ w.res # "ok" => t = w
                  /\ w.res = "ok" => CreateParts(w, t, n, mode)
  <2>0. PICK a : a = [u EXCEPT !.res = "ok"]
    BY Zenon
  <2>1. Looked(u, a) /\ Did(u, a, L, F) /\ a.res = "ok" /\ a.wsect = u.wsect /\ Base(a) /\ Seen(a) = Seen(u)
    BY <2>0, <1>4, <1>6, SetResFine, SetRes DEF Looked
  <2>2. PICK w \in dir_register(a, n) :
                  /\ w.res # "ok" => t = w
                  /\ w.res = "ok" => CreateParts(w, t, n, mode)
    BY <2>0, <1>6
  <2>3. Fine(a, L, F) /\ a.wsect = Dir
    BY <2>1, <1>3, <1>6 DEF Did
  <2>4. /\ Calm(a, w, Clusters, Clusters, Names \ {n}) /\ w.wsect = Dir /\ w.res = "ok"
        /\ \E e \in EntrySet : e.used /\ w.win = Put(a.win, n, e) /\ Seen(w)[Dir] = Put(Seen(a)[Dir], n, e)
    BY <2>1, <2>3, <1>2, CalmRegistering, Zenon
  <2>5. PICK e \in EntrySet : e.used /\ w.win = Put(a.win, n, e) /\ Seen(w)[Dir] = Put(Seen(a)[Dir], n, e)
    BY <2>4
  <2>6. a.win \in [Names -> EntrySet] /\ Seen(a)[Dir] \in Entries
    BY <2>1, <2>3, ShowsDir, SafeTyped
  <2>7. w.win[n].used
    BY <2>5, <2>6, <1>2 DEF Put
  <2>8. Fine(w, L, F)
    BY <2>1, <2>3, <1>2, Registering DEF Registered, Did
  <2>9. Q \subseteq Clusters
    BY DEF Watch
  <2>10. Calm(a, w, Q, Clusters, Names \ {n})
    BY <2>4, <2>9, CalmLess
  <2>11. Watch(Tab(Seen(w)), Seen(w)[Dir], L, F, {n}, Q)
    <3>1. Watch(Tab(Seen(a)), Seen(a)[Dir], L, F, {n}, Q)
      BY <2>1, <1>4
    <3>2. \A m \in Names \ {n} : Seen(w)[Dir][m] = Seen(a)[Dir][m]
      BY <2>5, <2>6 DEF Put, Entries
    <3>3. \A c \in Q : Tab(Seen(a))[c] \in Clusters => Tab(Seen(w))[c] = Tab(Seen(a))[c]
      BY <2>10 DEF Calm, Like
    <3>4. \A m \in Names \ {n}, h \in Clusters :
              Claims(Seen(a)[Dir], L, F, m, h) => Claims(Seen(w)[Dir], L, F, m, h)
      BY <3>2 DEF Claims
    <3> QED  BY <3>1, <3>3, <3>4, WatchKept
  <2>12. /\ Calm(w, t, Q, Clusters, Names \ {n}) /\ t.res \in Errs
         /\ t.res = "ok" => OpensNew(t, n)
    BY <2>2, <2>4, <2>7, <2>8, <2>11, CalmCreation, Zenon
  <2>13. Calm(u, a, Q, Clusters, Names \ {n})
    BY <2>1, CalmLooked
  <2>14. Calm(s, a, Q, Clusters, Names \ {n})
    BY <2>13, <1>5, CalmOn
  <2>15. Calm(s, w, Q, Clusters, Names \ {n})
    BY <2>14, <2>10, CalmOn
  <2>16. Calm(s, t, Q, Clusters, Names \ {n})
    BY <2>15, <2>12, CalmOn
  <2> QED  BY <2>12, <2>16, <1>6 DEF Errs
<1>7. CASE u.res = "ok" /\ mode.new /\ t = [u EXCEPT !.res = "exist"]
  <2>1. Looked(u, t) /\ t.res = "exist"
    BY <1>4, <1>7, SetRes
  <2>2. Looked(s, t)
    BY <2>1, <1>3, LookedOn
  <2> QED  BY <2>1, <2>2, CalmLooked
<1>8. CASE u.res = "ok" /\ mode.always /\ CreateParts(u, t, n, mode)
  <2>1. /\ Calm(u, t, Q, Clusters, Names \ {n}) /\ t.res \in Errs
        /\ t.res = "ok" => OpensNew(t, n)
    BY <1>3, <1>4, <1>8, CalmCreation, Zenon
  <2>2. Calm(s, t, Q, Clusters, Names \ {n})
    BY <2>1, <1>5, CalmOn
  <2> QED  BY <2>1, <2>2, <1>8 DEF Errs
<1>9. CASE u.res = "ok" /\ ~mode.always /\ Makes(u, t, n, mode, mode.always)
  <2>2. PICK e : e = u.win[n]
    OBVIOUS
  <2>3. PICK f : f = FreshFile(n, mode, e, mode.always)
    OBVIOUS
  <2>4. t = [u EXCEPT !.f = f]
    BY <1>9, <2>2, <2>3 DEF Makes
  <2>5. /\ Calm(u, t, Q, Clusters, Names \ {n}) /\ Calm(u, t, Clusters, Clusters, Names)
        /\ t.f = f /\ Seen(t) = Seen(u) /\ t.res = "ok"
    BY <2>4, <1>4, <1>9, CalmSetFile
  <2>6. ~f.modified /\ f.size = e.size /\ f.first = e.first /\ ~f.dirty /\ f.sect = 0
    BY <2>3, <1>9 DEF FreshFile
  <2>7. e = Seen(u)[Dir][n] /\ e.used
    BY <2>2, <1>3, <1>4, <1>9, ShowsDir
  <2>8. Calm(s, t, Q, Clusters, Names \ {n}) /\ Calm(s, t, Clusters, Clusters, Names)
    BY <2>5, <1>5, CalmOn
  <2> QED  BY <2>5, <2>6, <2>7, <2>8 DEF OpensOld
<1>10. CASE u.res # "ok" /\ t = u
  BY <1>5, <1>10
<1> QED  BY <1>1, <1>6, <1>7, <1>8, <1>9, <1>10

\* The count of f_getfree looks.
LEMMA CalmCounting ==
    ASSUME NEW s, Base(s), s.res = "ok", NEW t \in f_getfree(s), NEW P, NEW D, NEW M
    PROVE  Calm(s, t, P, D, M) /\ Seen(t) = Seen(s)
<1> DEFINE Unmoved(x) == Base(x) /\ Seen(x) = Seen(s) /\ x.media \subseteq s.media \union {Seen(s)}
<1>1. \A x : Unmoved(x) => Calm(s, x, P, D, M) /\ Seen(x) = Seen(s)
  BY CalmStay
<1>2. Unmoved(s)
  OBVIOUS
<1>3. ASSUME NEW x, Unmoved(x), NEW y, IsState(y), y.disk = x.disk, y.win = x.win, y.wsect = x.wsect,
             y.dirty = x.dirty, y.media = x.media
      PROVE  Unmoved(y)
  BY <1>3, BaseSame
<1>4. ASSUME NEW x, Unmoved(x), NEW y, Looked(x, y) PROVE Unmoved(y)
  BY <1>4 DEF Looked
<1>5. Unmoved(t)
  <2>1. CASE s.free <= NFatEnt - 2
    BY <2>1, Zenon DEF f_getfree
  <2>2. CASE ~(s.free <= NFatEnt - 2)
    <3>1. PICK u \in CountFree(s) : IF u.res = "ok" THEN t = [u EXCEPT !.sure = TRUE] ELSE t = u
      BY <2>2 DEF f_getfree, Then
    <3> DEFINE s0 == [s EXCEPT !.free = 0]
               x0 == [s |-> s0, at |-> 2, go |-> TRUE]
               E == Loop(CountTurn, x0, NFatEnt - 2)
               In(x) == Unmoved(x.s) /\ (x.go => x.s.res = "ok")
    <3>2. NFatEnt - 2 \in Nat
      BY VolumeAssumption
    <3>3. PICK U : LoopIn(E, U, "count", 0, x0)
      BY <3>2, CountTurns
    <3> DEFINE R == {x \in U : In(x)}
    <3>4. x0 \in R
      <4>1. IsState(s)
        BY DEF Base
      <4>2. /\ IsState(s0) /\ s0.disk = s.disk /\ s0.win = s.win /\ s0.wsect = s.wsect
            /\ s0.dirty = s.dirty /\ s0.media = s.media /\ s0.res = "ok"
        BY <4>1 DEF IsState
      <4> HIDE DEF s0, Unmoved
      <4>3. Unmoved(s0)
        BY <4>2, <1>2, <1>3
      <4>4. In(x0)
        BY <4>2, <4>3
      <4> HIDE DEF In, x0
      <4> QED  BY <4>4, <3>3 DEF LoopIn
    <3>5. ASSUME NEW y \in R, y.go, NEW z \in CountTurn(y) PROVE In(z)
      <4>1. PICK g \in get_fat(y.s, y.at) :
           z = [s |-> IF g.res = "ok" /\ g.val = 0 THEN [g EXCEPT !.free = @ + 1] ELSE g,
                at |-> y.at + 1, go |-> g.res = "ok" /\ y.at + 1 < NFatEnt]
        BY <3>5 DEF CountTurn
      <4>2. Unmoved(y.s) /\ y.s.res = "ok"
        BY <3>5
      <4>3. Looked(y.s, g)
        BY <4>2, Getting
      <4>4. Unmoved(g) /\ IsState(g)
        <5>1. Base(g)
          BY <4>3 DEF Looked
        <5> HIDE DEF Unmoved
        <5> QED  BY <5>1, <4>2, <4>3, <1>4 DEF Base
      <4>5. PICK w : w = [g EXCEPT !.free = @ + 1]
        BY Zenon
      <4>6. /\ IsState(w) /\ w.disk = g.disk /\ w.win = g.win /\ w.wsect = g.wsect
            /\ w.dirty = g.dirty /\ w.media = g.media /\ w.res = g.res
        BY <4>4, <4>5 DEF IsState
      <4> HIDE DEF Unmoved
      <4>7. Unmoved(w)
        BY <4>4, <4>6, <1>3
      <4>8. z.s \in {g, w} /\ (z.go => g.res = "ok")
        BY <4>1, <4>5, Zenon
      <4> QED  BY <4>4, <4>6, <4>7, <4>8
    <3>6. KeptByTurns(R, U, "count", 0)
      <4> HIDE DEF In
      <4> QED  BY <3>5 DEF KeptByTurns, AnyTurn
    <3>7. E \subseteq R
      <4> HIDE DEF R, x0, E
      <4>1. R \in SUBSET U
        BY DEF R
      <4> QED  BY <4>1, <3>3, <3>4, <3>6 DEF LoopIn
    <3>8. PICK x \in E : u = x.s
      BY Zenon DEF CountFree
    <3>9. Unmoved(u)
      BY <3>7, <3>8, Zenon
    <3>10. CASE u.res = "ok"
      <4>1. IsState(u) /\ t = [u EXCEPT !.sure = TRUE]
        BY <3>1, <3>9, <3>10 DEF Base
      <4>2. /\ IsState(t) /\ t.disk = u.disk /\ t.win = u.win /\ t.wsect = u.wsect
            /\ t.dirty = u.dirty /\ t.media = u.media
        BY <4>1, Zenon DEF IsState
      <4> HIDE DEF Unmoved
      <4> QED  BY <4>2, <3>9, <1>3
    <3>11. CASE u.res # "ok"
      BY <3>1, <3>9, <3>11
    <3> QED  BY <3>10, <3>11
  <2> QED  BY <2>1, <2>2
<1> QED  BY <1>1, <1>5

-----------------------------------------------------------------------------
\* What is in a file.

\* Byte j of its i-th cluster, counted from 1.
Pos(i, j) == SectorSize * (i - 1) + j

\* Byte j of cluster c is w for file f: the buffer says so, if it shows the
\* cluster, and the disk does unless the buffer is still to be written.
ByteAt(V, f, c, j, w) == (f.sect = c => f.buf[j] = w) /\ ((f.dirty /\ f.sect = c) \/ V[c][j] = w)

\* The first k clusters of file f, as far as its size goes, hold the text.
BytesBy(V, f, x, k, q) ==
    \A i \in 1..k, j \in 1..SectorSize :
        Pos(i, j) <= f.size /\ x[Pos(i, j)] # AnyContent => ByteAt(V, f, q[i], j, x[Pos(i, j)])

\* A text of m bytes.
IsText(x, m) == m = Len(x) /\ \E S : x \in Seq(S)

\* File f has text x.
Reads(V, f, x) ==
    /\ IsText(x, f.size)
    /\ \A k \in Nat : \A q \in [1..k -> Clusters] : Walk(Tab(V), f.first, q, k) => BytesBy(V, f, x, k, q)

\* A buffer that is to be written shows a cluster of its own file.
Owns(T, f) ==
    f.dirty => \E k \in Nat \ {0} : \E q \in [1..k -> Clusters] : Walk(T, f.first, q, k) /\ q[k] = f.sect

\* Products grow with their factors.
LEMMA Growing ==
    ASSUME NEW a \in Nat, NEW b \in Nat, a <= b
    PROVE  SectorSize * a <= SectorSize * b /\ SectorSize * a \in Nat /\ SectorSize * b \in Nat
<1>1. SectorSize \in Nat
  BY VolumeAssumption
<1>2. PICK c \in Nat : b = c + a
  BY b - a \in Nat
<1>3. (c + a) * SectorSize = c * SectorSize + a * SectorSize /\ a * SectorSize \in Nat /\ c * SectorSize \in Nat
  BY <1>1, <1>2, Distribute
<1> QED  BY <1>1, <1>2, <1>3

\* A position is in its cluster, and before or after the others.
LEMMA PosFacts ==
    ASSUME NEW i \in Nat \ {0}, NEW j \in 1..SectorSize
    PROVE  /\ Pos(i, j) \in Nat \ {0} /\ SectorSize * (i - 1) \in Nat /\ SectorSize * i \in Nat
           /\ SectorSize * (i - 1) < Pos(i, j) /\ Pos(i, j) <= SectorSize * i
           /\ SectorSize * i = SectorSize * (i - 1) + SectorSize
           /\ \A m \in Nat \ {0} : /\ i < m => Pos(i, j) <= SectorSize * (m - 1)
                                   /\ m < i => SectorSize * m < Pos(i, j)
<1>1. SectorSize \in Nat \ {0}
  BY VolumeAssumption
<1>2. ((i - 1) + 1) * SectorSize = (i - 1) * SectorSize + 1 * SectorSize /\ (i - 1) * SectorSize \in Nat
  BY <1>1, Distribute
<1>3. SectorSize * i = SectorSize * (i - 1) + SectorSize /\ SectorSize * (i - 1) \in Nat
  BY <1>1, <1>2
<1>4. /\ Pos(i, j) \in Nat \ {0} /\ SectorSize * i \in Nat
      /\ SectorSize * (i - 1) < Pos(i, j) /\ Pos(i, j) <= SectorSize * i
  BY <1>1, <1>3 DEF Pos
<1>5. ASSUME NEW m \in Nat \ {0}, i < m PROVE Pos(i, j) <= SectorSize * (m - 1)
  <2>1. SectorSize * i <= SectorSize * (m - 1) /\ SectorSize * (m - 1) \in Nat
    BY <1>5, Growing
  <2> QED  BY <2>1, <1>4
<1>6. ASSUME NEW m \in Nat \ {0}, m < i PROVE SectorSize * m < Pos(i, j)
  <2>1. SectorSize * m <= SectorSize * (i - 1) /\ SectorSize * m \in Nat
    BY <1>6, Growing
  <2> QED  BY <2>1, <1>3, <1>4
<1> QED  BY <1>3, <1>4, <1>5, <1>6

\* A file that has no cluster has no bytes, and no buffer to be written.
LEMMA NoCluster ==
    ASSUME NEW T, NEW f, f.first = 0, NEW size \in Nat, Room(T, f.first, size)
    PROVE  size = 0 /\ (Owns(T, f) => ~f.dirty)
<1>1. \A k : \A q \in [1..k -> Clusters] : Walk(T, f.first, q, k) => ~(k > 0)
  BY ClustersFacts DEF Walk
<1>2. PICK m \in Nat : \E q \in [1..m -> Clusters] : Walk(T, f.first, q, m) /\ size <= SectorSize * m
  BY DEF Room
<1>3. m = 0
  BY <1>1, <1>2
<1>4. SectorSize * 0 = 0
  BY VolumeAssumption
<1> QED  BY <1>1, <1>2, <1>3, <1>4 DEF Owns

\* A walk stays one where the links of its clusters do.
LEMMA WalkLike ==
    ASSUME NEW V, NEW W, NEW P, NEW D, NEW M, Like(V, W, P, D, M), NEW h, NEW q, NEW k,
           Walk(Tab(V), h, q, k), \A i \in 1..k : q[i] \in P
    PROVE  Walk(Tab(W), h, q, k)
<1>1. k \in Nat /\ q \in [1..k -> Clusters]
  BY DEF Walk
<1>2. ASSUME NEW i \in 1..(k - 1) PROVE Tab(W)[q[i]] = q[i + 1]
  <2>1. Tab(V)[q[i]] = q[i + 1] /\ q[i] \in P /\ q[i + 1] \in Clusters
    BY <1>1, <1>2 DEF Walk
  <2> QED  BY <2>1 DEF Like
<1> QED  BY <1>1, <1>2 DEF Walk

\* The fields of a file that say what is in it.
SameBytes(f, g) == g.size = f.size /\ g.sect = f.sect /\ g.buf = f.buf /\ g.dirty = f.dirty

\* A file keeps its text where its clusters are left alone.
LEMMA KeepText ==
    ASSUME NEW V, NEW W, NEW P, NEW D, NEW M, Like(V, W, P, D, M),
           NEW f, NEW g, SameBytes(f, g), g.first = f.first \/ f.first = 0,
           f.size \in Nat, Room(Tab(V), f.first, f.size),
           \A k \in Nat : \A q \in [1..k -> Clusters] :
               Walk(Tab(V), f.first, q, k) => \A i \in 1..k : q[i] \in P /\ q[i] \in D
    PROVE  /\ Owns(Tab(V), f) => Owns(Tab(W), g)
           /\ \A x : Reads(V, f, x) => Reads(W, g, x)
<1>1. \A k \in Nat : \A q \in [1..k -> Clusters] : Walk(Tab(V), f.first, q, k) => Walk(Tab(W), f.first, q, k)
  BY WalkLike
<1>2. CASE f.first = 0
  <2>1. f.size = 0 /\ (Owns(Tab(V), f) => ~f.dirty)
    BY <1>2, NoCluster, Zenon
  <2>2. Owns(Tab(V), f) => Owns(Tab(W), g)
    BY <2>1 DEF Owns, SameBytes
  <2>3. ASSUME NEW x, Reads(V, f, x) PROVE Reads(W, g, x)
    <3>1. ASSUME NEW k \in Nat, NEW q PROVE BytesBy(W, g, x, k, q)
      <4>1. g.size = 0
        BY <2>1 DEF SameBytes
      <4>2. \A i \in 1..k, j \in 1..SectorSize : ~(Pos(i, j) <= 0)
        BY PosFacts
      <4> QED  BY <4>1, <4>2 DEF BytesBy
    <3> QED  BY <2>3, <3>1 DEF Reads, SameBytes
  <2> QED  BY <2>2, <2>3
<1>3. CASE f.first # 0
  <2>0. g.first = f.first
    BY <1>3
  <2>1. Owns(Tab(V), f) => Owns(Tab(W), g)
    BY <1>1, <2>0 DEF Owns, SameBytes
  <2>9. PICK m \in Nat : \E q \in [1..m -> Clusters] : Walk(Tab(V), f.first, q, m) /\ f.size <= SectorSize * m
    BY DEF Room
  <2>2. PICK r \in [1..m -> Clusters] : Walk(Tab(V), f.first, r, m) /\ f.size <= SectorSize * m
    BY <2>9
  <2>3. Walk(Tab(W), f.first, r, m) /\ \A i \in 1..m : r[i] \in D
    BY <1>1, <2>2
  <2>4. ASSUME NEW x, Reads(V, f, x) PROVE Reads(W, g, x)
    <3>1. BytesBy(V, f, x, m, r) /\ IsText(x, f.size)
      BY <2>2, <2>4 DEF Reads
    <3>2. ASSUME NEW k \in Nat, NEW q \in [1..k -> Clusters], Walk(Tab(W), g.first, q, k)
          PROVE  BytesBy(W, g, x, k, q)
      <4>1. ASSUME NEW i \in 1..k, NEW j \in 1..SectorSize, NEW p, p = Pos(i, j), NEW w, w = x[p],
                   p <= g.size, w # AnyContent
            PROVE  ByteAt(W, g, q[i], j, w)
        <5>0. i \in Nat \ {0} /\ p \in Nat \ {0} /\ SectorSize * m \in Nat
          <6>1. i \in Nat \ {0}
            OBVIOUS
          <6>2. Pos(i, j) \in Nat \ {0}
            BY <6>1, PosFacts, Zenon
          <6>3. SectorSize * m \in Nat
            BY Growing
          <6> QED  BY <6>1, <6>2, <6>3, <4>1
        <5>1. p <= SectorSize * m /\ p <= f.size
          BY <5>0, <4>1, <2>2 DEF SameBytes
        <5>2. i <= m
          <6>1. m # 0 => (m < i => SectorSize * m < p)
            BY <5>0, <4>1, PosFacts
          <6>2. m = 0 => SectorSize * m = 0
            BY VolumeAssumption
          <6> QED  BY <6>1, <6>2, <5>0, <5>1
        <5>3. q[i] = r[i] /\ i \in 1..m
          BY <5>2, <3>2, <2>0, <2>3, WalksAgree
        <5>4. ByteAt(V, f, r[i], j, w)
          BY <5>1, <5>3, <4>1, <3>1 DEF BytesBy
        <5>5. W[r[i]] = V[r[i]]
          BY <5>3, <2>3, Zenon DEF Like
        <5> QED  BY <5>3, <5>4, <5>5 DEF ByteAt, SameBytes
      <4> QED  BY <4>1 DEF BytesBy
    <3> QED  BY <3>1, <3>2 DEF Reads, SameBytes
  <2> QED  BY <2>1, <2>4
<1> QED  BY <1>2, <1>3

-----------------------------------------------------------------------------
\* Steps that keep what is in the file that is worked on.

\* Its text, whatever it is, is the same before and after.
Faithful(s, t) ==
    /\ Owns(Tab(Seen(s)), s.f) => Owns(Tab(Seen(t)), t.f)
    /\ \A x : Reads(Seen(s), s.f, x) => Reads(Seen(t), t.f, x)

\* A step that, of the clusters, writes none of Q and keeps the text.
Gentle(s, t, Q) ==
    /\ Calm(s, t, Clusters, Q, Names) /\ Faithful(s, t)
    /\ t.f.dirty => s.f.dirty /\ t.f.sect = s.f.sect
    /\ t.f.size = s.f.size /\ t.f.modified = s.f.modified
    /\ t.f.first = s.f.first \/ s.f.first = 0

\* Clusters that the buffer is not to be written to.
DirtyOut(f, Q) == Q \subseteq Clusters /\ (f.dirty => f.sect \notin Q)

\* Two such steps make one.
LEMMA GentleOn ==
    ASSUME NEW s, NEW t, NEW u, NEW Q, Gentle(s, t, Q), Gentle(t, u, Q)
    PROVE  Gentle(s, u, Q)
<1>1. Calm(s, u, Clusters, Q, Names)
  BY CalmOn DEF Gentle
<1>2. Faithful(s, u)
  BY DEF Gentle, Faithful
<1> QED  BY <1>1, <1>2 DEF Gentle

\* They write no more than they had to.
LEMMA GentleOut ==
    ASSUME NEW s, NEW t, NEW Q, Gentle(s, t, Q), DirtyOut(s.f, Q)
    PROVE  DirtyOut(t.f, Q)
  BY DEF Gentle, DirtyOut

\* A step after which the same is seen, of the same file.
LEMMA GentleSame ==
    ASSUME NEW s, NEW t, NEW Q, Base(t), t.media \subseteq s.media \union {Seen(s)},
           Seen(t) = Seen(s), t.f = s.f
    PROVE  Gentle(s, t, Q)
<1>1. Calm(s, t, Clusters, Q, Names)
  BY CalmStay
<1> QED  BY <1>1 DEF Gentle, Faithful

\* Looking is one.
LEMMA GentleLooked ==
    ASSUME NEW s, NEW t, NEW Q, Looked(s, t)
    PROVE  Gentle(s, t, Q)
  BY GentleSame DEF Looked, Kept

\* So is a step that does nothing to the clusters, nor to the buffer.
LEMMA GentleFile ==
    ASSUME NEW s, NEW L \in SUBSET Names, NEW F, IsFiles(F), NEW n \in Names, Torn(s, L, F, n),
           NEW t, Calm(s, t, Clusters, Clusters, Names), SameBytes(s.f, t.f), t.f.modified = s.f.modified,
           t.f.first = s.f.first \/ s.f.first = 0, NEW Q \in SUBSET Clusters
    PROVE  Gentle(s, t, Q)
<1>1. Calm(s, t, Clusters, Q, Names)
  BY CalmLess
<1>2. s.f.size \in Nat /\ Room(Tab(Seen(s)), s.f.first, s.f.size)
  BY TornFacts
<1>3. Like(Seen(s), Seen(t), Clusters, Clusters, Names)
  BY DEF Calm
<1>4. Faithful(s, t)
  BY <1>2, <1>3, KeepText DEF Faithful
<1> QED  BY <1>1, <1>4 DEF Gentle, SameBytes

\* The file is set to one with the same buffer and, if it has a cluster, the
\* same first.
LEMMA GentleSet ==
    ASSUME NEW s, NEW L \in SUBSET Names, NEW F, IsFiles(F), NEW n \in Names, Torn(s, L, F, n),
           NEW g, SameBytes(s.f, g), g.modified = s.f.modified, g.first = s.f.first \/ s.f.first = 0,
           NEW t, t = Having(s, g), NEW Q \in SUBSET Clusters
    PROVE  Gentle(s, t, Q)
<1>1. Base(s)
  BY TornFacts
<1>2. t = [s EXCEPT !.f = g]
  BY DEF Having
<1>3. Calm(s, t, Clusters, Clusters, Names) /\ t.f = g
  BY <1>1, <1>2, CalmSetFile
<1> QED  BY <1>3, GentleFile

\* The file once its buffer is written, and once it shows another cluster.
Clean(f) == [f EXCEPT !.dirty = FALSE]
Shows(f, b, c) == [f EXCEPT !.buf = b, !.sect = c]

\* Their fields.
LEMMA BufferFacts ==
    ASSUME NEW f, Shaped(f), NEW b, NEW c
    PROVE  /\ Clean(f).size = f.size /\ Clean(f).sect = f.sect /\ Clean(f).buf = f.buf /\ ~Clean(f).dirty
           /\ Clean(f).first = f.first /\ Clean(f).modified = f.modified
           /\ Shows(f, b, c).size = f.size /\ Shows(f, b, c).sect = c /\ Shows(f, b, c).buf = b
           /\ Shows(f, b, c).dirty = f.dirty
           /\ Shows(f, b, c).first = f.first /\ Shows(f, b, c).modified = f.modified
  BY DEF Shaped, Clean, Shows

\* What is dirty in the buffer of a file is in the text that it has when the
\* buffer is written.
LEMMA WrittenText ==
    ASSUME NEW V, NEW W, NEW f, f.dirty, NEW g, g.size = f.size, g.sect = f.sect, g.buf = f.buf,
           ~g.dirty, g.first = f.first, Tab(W) = Tab(V),
           \A e \in Clusters : W[e] = IF e = f.sect THEN f.buf ELSE V[e]
    PROVE  \A x : Reads(V, f, x) => Reads(W, g, x)
<1>1. ASSUME NEW x, Reads(V, f, x), NEW k \in Nat, NEW q \in [1..k -> Clusters], Walk(Tab(W), g.first, q, k)
      PROVE  BytesBy(W, g, x, k, q)
  <2>1. BytesBy(V, f, x, k, q)
    BY <1>1 DEF Reads
  <2>2. \A c \in Clusters : \A j, w : ByteAt(V, f, c, j, w) => ByteAt(W, g, c, j, w)
    BY DEF ByteAt
  <2> QED  BY <2>1, <2>2 DEF BytesBy
<1> QED  BY <1>1 DEF Reads

\* FlushBuf.
LEMMA GentleFlush ==
    ASSUME NEW s, NEW L \in SUBSET Names, NEW F, IsFiles(F), NEW n \in Names, Torn(s, L, F, n),
           s.res = "ok", NEW t \in FlushBuf(s), NEW Q, DirtyOut(s.f, Q)
    PROVE  Gentle(s, t, Q) /\ (t.res = "ok" => ~t.f.dirty)
<1>0. IsFile(s.f, n) /\ Base(s)
  BY TornFacts, Zenon DEF Torn
<1>1. CASE ~s.f.dirty
  <2>1. t = s
    BY <1>1, Zenon DEF FlushBuf
  <2>2. Gentle(s, t, Q)
    BY <2>1, <1>0, LookedSelf, GentleLooked
  <2> QED  BY <2>1, <2>2, <1>1
<1>2. CASE s.f.dirty
  <2>1. PICK u \in DiskWrite(s, s.f.sect, s.f.buf) :
           /\ u.res # "ok" => t = u
           /\ u.res = "ok" => t = [u EXCEPT !.f.dirty = FALSE]
    BY <1>2 DEF FlushBuf, Then
  <2>2. s.f.sect \in Clusters
    BY <1>2, TornFacts
  <2>3. /\ Calm(s, u, Clusters, Q, Names)
        /\ \A e \in Clusters :
              Seen(u)[e] = IF u.res = "ok" /\ e = s.f.sect THEN s.f.buf ELSE Seen(s)[e]
    BY <2>2, <1>0, <1>2, CalmStoring DEF DirtyOut
  <2>4. /\ Base(u) /\ u.res \in {"ok", "disk_err"} /\ u.f = s.f
        /\ Tab(Seen(u)) = Tab(Seen(s)) /\ Seen(u)[Dir] = Seen(s)[Dir]
    BY <2>2, <1>0, WritingData DEF Kept
  <2>5. CASE u.res # "ok"
    <3>1. Like(Seen(s), Seen(u), Clusters, Clusters, Names)
      BY <2>3, <2>4, <2>5 DEF Like
    <3>2. s.f.size \in Nat /\ Room(Tab(Seen(s)), s.f.first, s.f.size)
      BY TornFacts
    <3>3. SameBytes(s.f, u.f)
      BY <2>4 DEF SameBytes
    <3>4. Faithful(s, u)
      BY <3>1, <3>2, <3>3, <2>4, KeepText DEF Faithful
    <3> QED  BY <3>4, <2>1, <2>3, <2>4, <2>5 DEF Gentle
  <2>6. CASE u.res = "ok"
    <3>1. PICK g : g = Clean(s.f)
      OBVIOUS
    <3>2. t = [u EXCEPT !.f = g]
      BY <2>1, <2>4, <2>6, <3>1 DEF Clean
    <3>3. /\ g.size = s.f.size /\ g.sect = s.f.sect /\ g.buf = s.f.buf /\ ~g.dirty
          /\ g.first = s.f.first /\ g.modified = s.f.modified
      BY <3>1, <1>0, BufferFacts DEF IsFile
    <3>4. Calm(u, t, Clusters, Q, Names) /\ t.f = g /\ Seen(t) = Seen(u)
      BY <3>2, <2>4, CalmSetFile
    <3>5. Calm(s, t, Clusters, Q, Names)
      BY <3>4, <2>3, CalmOn
    <3>6. \A e \in Clusters : Seen(t)[e] = IF e = s.f.sect THEN s.f.buf ELSE Seen(s)[e]
      BY <2>3, <2>6, <3>4
    <3>7. \A x : Reads(Seen(s), s.f, x) => Reads(Seen(t), g, x)
      BY <3>3, <3>4, <3>6, <2>4, <1>2, WrittenText
    <3>8. Owns(Tab(Seen(t)), g)
      BY <3>3 DEF Owns
    <3> QED  BY <3>3, <3>4, <3>5, <3>7, <3>8 DEF Gentle, Faithful
  <2> QED  BY <2>5, <2>6
<1> QED  BY <1>1, <1>2

\* The buffer comes to show a cluster.
LEMMA GentleShown ==
    ASSUME NEW s, NEW L \in SUBSET Names, NEW F, IsFiles(F), NEW n \in Names, Torn(s, L, F, n),
           ~s.f.dirty, NEW c \in Clusters, NEW t, t = Having(s, Shows(s.f, s.disk[c], c)), NEW Q
    PROVE  Gentle(s, t, Q) /\ ~t.f.dirty
<1>0. IsFile(s.f, n) /\ Base(s)
  BY TornFacts DEF Torn
<1>1. PICK V, g : V = Seen(s) /\ g = Shows(s.f, s.disk[c], c)
  OBVIOUS
<1>2. /\ g.size = s.f.size /\ g.sect = c /\ g.buf = s.disk[c] /\ g.dirty = s.f.dirty
      /\ g.first = s.f.first /\ g.modified = s.f.modified
  BY <1>0, <1>1, BufferFacts DEF IsFile
<1>3. g.buf = V[c]
  BY <1>0, <1>1, <1>2, SeenData
<1>4. t = [s EXCEPT !.f = g]
  BY <1>1 DEF Having
<1>5. Calm(s, t, Clusters, Q, Names) /\ t.f = g /\ Seen(t) = V
  BY <1>0, <1>1, <1>4, CalmSetFile
<1>6. ASSUME NEW x, Reads(V, s.f, x), NEW k \in Nat, NEW q \in [1..k -> Clusters], Walk(Tab(V), g.first, q, k)
      PROVE  BytesBy(V, g, x, k, q)
  <2>1. BytesBy(V, s.f, x, k, q)
    BY <1>2, <1>6 DEF Reads
  <2>2. \A e, j, w : ByteAt(V, s.f, e, j, w) => ByteAt(V, g, e, j, w)
    BY <1>2, <1>3 DEF ByteAt
  <2> QED  BY <2>1, <2>2, <1>2 DEF BytesBy
<1>7. \A x : Reads(V, s.f, x) => Reads(V, g, x)
  BY <1>2, <1>6 DEF Reads
<1>8. Owns(Tab(V), g) /\ ~g.dirty
  BY <1>2 DEF Owns
<1> QED  BY <1>1, <1>2, <1>5, <1>7, <1>8 DEF Gentle, Faithful

\* ShowCluster.
LEMMA GentleShowing ==
    ASSUME NEW s, NEW L \in SUBSET Names, NEW F, IsFiles(F), NEW n \in Names, Torn(s, L, F, n),
           s.res = "ok", s.f.clust \in Clusters, NEW t \in ShowCluster(s), NEW Q, DirtyOut(s.f, Q)
    PROVE  Gentle(s, t, Q)
<1>1. CASE s.f.sect = s.f.clust
  <2>1. t = s
    BY <1>1, Zenon DEF ShowCluster
  <2> QED  BY <2>1, TornFacts, LookedSelf, GentleLooked
<1>2. CASE s.f.sect # s.f.clust
  <2>1. PICK u \in FlushBuf(s) :
           /\ u.res # "ok" => t = u
           /\ u.res = "ok" => \E v \in LoadBuf(u, u.f.clust) :
                 /\ v.res # "ok" => t = v
                 /\ v.res = "ok" => t = [v EXCEPT !.f.sect = v.f.clust]
    BY <1>2 DEF ShowCluster, Then
  <2>2. /\ Torn(u, L, F, n) /\ u.f.clust = s.f.clust /\ Gentle(s, u, Q) /\ (u.res = "ok" => ~u.f.dirty)
    BY Flushing, GentleFlush DEF Still
  <2>3. CASE u.res # "ok"
    BY <2>1, <2>2, <2>3
  <2>4. CASE u.res = "ok"
    <3>0. IsFile(u.f, n) /\ Base(u)
      BY <2>2, TornFacts DEF Torn
    <3>1. PICK v \in LoadBuf(u, u.f.clust) :
                 /\ v.res # "ok" => t = v
                 /\ v.res = "ok" => t = [v EXCEPT !.f.sect = v.f.clust]
      BY <2>1, <2>4
    <3>2. CASE v \in Fail(u)
      <4>1. Looked(u, v) /\ v.res = "disk_err"
        BY <3>0, <3>2, Failing
      <4>2. Gentle(u, v, Q)
        BY <4>1, GentleLooked
      <4> QED  BY <4>1, <4>2, <3>1, <2>2, GentleOn
    <3>3. CASE v = [u EXCEPT !.f.buf = u.disk[u.f.clust]]
      <4>1. t = Having(u, Shows(u.f, u.disk[u.f.clust], u.f.clust))
        BY <3>0, <3>1, <3>3, <2>4, ZenonT(60) DEF Having, Shows, Base, IsState, IsFile, Shaped
      <4>2. Gentle(u, t, Q)
        BY <4>1, <2>2, <2>4, GentleShown, Zenon
      <4> QED  BY <4>2, <2>2, GentleOn
    <3> QED  BY <3>1, <3>2, <3>3 DEF LoadBuf
  <2> QED  BY <2>3, <2>4
<1> QED  BY <1>1, <1>2

-----------------------------------------------------------------------------
\* f_read.

\* The clusters of a file are not among those that other names watch.
LEMMA WatchOut ==
    ASSUME NEW s, NEW L \in SUBSET Names, NEW F, IsFiles(F), NEW n \in Names, Torn(s, L, F, n),
           NEW Q, Watch(Tab(Seen(s)), Seen(s)[Dir], L, F, {n}, Q),
           NEW q, NEW k, Walk(Tab(Seen(s)), s.f.first, q, k), NEW i \in 1..k
    PROVE  q[i] \notin Q
<1>1. SUFFICES ASSUME q[i] \in Q PROVE FALSE
  OBVIOUS
<1>2. PICK T, E, G : T = Tab(Seen(s)) /\ E = Seen(s)[Dir] /\ G = Put(F, n, Bare(s.f))
  OBVIOUS
<1>3. IsFile(s.f, n) /\ Base(s) /\ Sound(T, E, L, G) /\ s.f.first \in {0} \union Clusters
  BY <1>2, TornFacts, Zenon DEF Torn, Fine, Safe
<1>4. T \in Tables
  BY <1>2, <1>3, SafeTyped
<1>5. IsFile(Bare(s.f), n) /\ Bare(s.f).first = s.f.first
  BY <1>3, BareFacts
<1>6. G[n] = Bare(s.f) /\ \A m \in Names : m # n => G[m] = F[m]
  BY <1>2, PutFile
<1>7. k \in Nat /\ k > 0 /\ q[1] = s.f.first /\ q[1] \in Clusters
  BY DEF Walk
<1>8. s.f.first \in Clusters /\ Claims(E, L, G, n, s.f.first)
  BY <1>5, <1>6, <1>7 DEF Claims, IsFile
<1>9. PICK m \in Names \ {n}, g \in Clusters, j \in Nat \ {0} : \E r \in [1..j -> Q] :
          Claims(E, L, F, m, g) /\ Walk(T, g, r, j) /\ r[j] = q[i]
  BY <1>1, <1>2, Zenon DEF Watch
<1>10. PICK r \in [1..j -> Q] : Claims(E, L, F, m, g) /\ Walk(T, g, r, j) /\ r[j] = q[i]
  BY <1>9
<1>11. Claims(E, L, G, m, g)
  BY <1>6, <1>10, <1>9 DEF Claims
<1>12. /\ Starts(T, s.f.first) /\ Starts(T, g) /\ Proper(T) /\ (n = m <=> s.f.first = g)
  BY <1>3, <1>8, <1>11 DEF Sound
<1>13. j \in 1..j
  OBVIOUS
<1>14. s.f.first = g
  BY <1>2, <1>4, <1>10, <1>12, <1>13, WalksMeet
<1> QED  BY <1>9, <1>12, <1>14

\* Nor is the one its buffer is to be written to.
LEMMA OwnsOut ==
    ASSUME NEW s, NEW L \in SUBSET Names, NEW F, IsFiles(F), NEW n \in Names, Torn(s, L, F, n),
           NEW Q, Watch(Tab(Seen(s)), Seen(s)[Dir], L, F, {n}, Q), Owns(Tab(Seen(s)), s.f)
    PROVE  DirtyOut(s.f, Q)
<1>1. Q \subseteq Clusters
  BY DEF Watch
<1>2. ASSUME s.f.dirty PROVE s.f.sect \notin Q
  <2>1. PICK k \in Nat \ {0} : \E q \in [1..k -> Clusters] :
            Walk(Tab(Seen(s)), s.f.first, q, k) /\ q[k] = s.f.sect
    BY <1>2 DEF Owns
  <2>2. PICK q \in [1..k -> Clusters] : Walk(Tab(Seen(s)), s.f.first, q, k) /\ q[k] = s.f.sect
    BY <2>1
  <2>3. k \in 1..k
    OBVIOUS
  <2> QED  BY <2>2, <2>3, WatchOut, Zenon
<1> QED  BY <1>1, <1>2 DEF DirtyOut

\* Nor is its current cluster.
LEMMA StandsOut ==
    ASSUME NEW s, NEW L \in SUBSET Names, NEW F, IsFiles(F), NEW n \in Names, Torn(s, L, F, n),
           NEW Q, Watch(Tab(Seen(s)), Seen(s)[Dir], L, F, {n}, Q), NEW m, Stands(Tab(Seen(s)), s.f, m)
    PROVE  s.f.clust \notin Q
<1>1. m \in Nat \ {0} /\ m \in 1..m
  BY DEF Stands
<1>2. PICK q \in [1..m -> Clusters] : Walk(Tab(Seen(s)), s.f.first, q, m) /\ q[m] = s.f.clust
  BY DEF Stands
<1> QED  BY <1>1, <1>2, WatchOut, Zenon

\* The bytes of sequence o are the k of text x from position p on.
Got(o, x, p, k) ==
    /\ k = Len(o) /\ \E S : o \in Seq(S)
    /\ \A i \in 1..k : x[p + i] # AnyContent => o[i] = x[p + i]

\* More bytes are got.
LEMMA GotOn ==
    ASSUME NEW o, NEW b, NEW x, NEW p \in Nat, NEW k, NEW j, Got(o, x, p, k), Got(b, x, p + k, j)
    PROVE  Got(o \o b, x, p, k + j) /\ k \in Nat /\ j \in Nat
<1>1. PICK S : o \in Seq(S)
  BY DEF Got
<1>2. PICK R : b \in Seq(R)
  BY DEF Got
<1>3. PICK A : A = S \union R
  BY Zenon
<1>4. o \in Seq(A) /\ b \in Seq(A)
  BY <1>1, <1>2, <1>3, SeqDef
<1>5. k = Len(o) /\ j = Len(b) /\ k \in Nat /\ j \in Nat
  BY <1>4, LenProperties DEF Got
<1>6. o \o b \in Seq(A) /\ Len(o \o b) = k + j
  BY <1>4, <1>5, ConcatProperties
<1>7. ASSUME NEW i \in 1..(k + j), x[p + i] # AnyContent PROVE (o \o b)[i] = x[p + i]
  <2>1. CASE i \in 1..k
    <3>1. (o \o b)[i] = o[i]
      BY <2>1, <1>4, <1>5, ConcatProperties
    <3> QED  BY <3>1, <2>1, <1>7 DEF Got
  <2>2. CASE i \notin 1..k
    <3>1. PICK a : a = i - k
      OBVIOUS
    <3>2. a \in 1..j /\ p + i = (p + k) + a /\ i > k
      BY <3>1, <2>2, <1>5, <1>7
    <3>3. (o \o b)[i] = b[a]
      BY <3>1, <3>2, <1>4, <1>5, <1>7, ConcatProperties
    <3> QED  BY <3>2, <3>3, <1>7 DEF Got
  <2> QED  BY <2>1, <2>2, Zenon
<1> QED  BY <1>5, <1>6, <1>7, Zenon DEF Got

\* From the sector of the position, as the buffer or else the disk has it,
\* come bytes of the text.
LEMMA SectorText ==
    ASSUME NEW V, NEW f, NEW x, Reads(V, f, x), NEW m \in Nat \ {0}, Stands(Tab(V), f, m),
           NEW p \in Nat, SectorSize * (m - 1) <= p, NEW k \in Nat, p + k <= SectorSize * m,
           f.size \in Nat, p + k <= f.size,
           NEW B, \A j, w : ByteAt(V, f, f.clust, j, w) => B[j] = w,
           NEW a, a = p - SectorSize * (m - 1)
    PROVE  Got(Bytes(B, a, k), x, p, k)
<1>1. PICK q \in [1..m -> Clusters] : Walk(Tab(V), f.first, q, m) /\ q[m] = f.clust
  BY DEF Stands
<1>2. BytesBy(V, f, x, m, q)
  BY <1>1 DEF Reads
<1>3. PICK b : b = Bytes(B, a, k)
  OBVIOUS
<1>4. b = [i \in 1..k |-> B[a + i]]
  BY <1>3 DEF Bytes
<1>5. PICK S : S = {B[a + i] : i \in 1..k}
  BY Zenon
<1>6. b \in Seq(S) /\ Len(b) = k
  BY <1>4, <1>5, SeqDef
<1>7. ASSUME NEW i \in 1..k, x[p + i] # AnyContent PROVE b[i] = x[p + i]
  <2>1. PICK j : j = a + i
    OBVIOUS
  <2>0. SectorSize * m = SectorSize * (m - 1) + SectorSize /\ SectorSize * (m - 1) \in Nat
        /\ SectorSize \in Nat \ {0}
    <3>1. 1 \in 1..SectorSize /\ SectorSize \in Nat \ {0}
      BY VolumeAssumption
    <3> QED  BY <3>1, PosFacts
  <2>2. j \in 1..SectorSize /\ Pos(m, j) = p + i /\ p + i <= f.size
    BY <2>0, <2>1, <1>7 DEF Pos
  <2>3. m \in 1..m /\ q[m] = f.clust
    BY <1>1
  <2>4. ByteAt(V, f, f.clust, j, x[p + i])
    BY <2>2, <2>3, <1>2, <1>7 DEF BytesBy
  <2>5. B[j] = x[p + i]
    BY <2>4
  <2> QED  BY <2>1, <2>5, <1>4
<1> QED  BY <1>3, <1>6, <1>7 DEF Got

\* The place of a position in its sector.
LEMMA SectorPlace ==
    ASSUME NEW p \in Nat, NEW m \in Nat \ {0}, SectorSize * (m - 1) <= p, p < SectorSize * m
    PROVE  p % SectorSize = p - SectorSize * (m - 1)
<1>1. SectorSize * m = SectorSize * (m - 1) + SectorSize /\ SectorSize * (m - 1) \in Nat
      /\ SectorSize \in Nat \ {0}
  <2>1. 1 \in 1..SectorSize /\ SectorSize \in Nat \ {0}
    BY VolumeAssumption
  <2> QED  BY <2>1, PosFacts
<1>2. PICK q, r : q = m - 1 /\ r = p - SectorSize * (m - 1)
  OBVIOUS
<1>3. q \in Nat /\ r \in Nat /\ r < SectorSize
  BY <1>1, <1>2
<1>4. p = q * SectorSize + r
  BY <1>1, <1>2, <1>3
<1>5. p % SectorSize = r
  BY <1>1, <1>3, <1>4, Division
<1> QED  BY <1>2, <1>5

\* What a step of a read gets.
Gains(s, t, Q) ==
    /\ Gentle(s, t, Q)
    /\ t.res = "ok" => \E k \in Nat : \E b :
           /\ t.f.ptr = s.f.ptr + k /\ t.out = s.out \o b
           /\ \A x : Reads(Seen(s), s.f, x) => Got(b, x, s.f.ptr, k)

\* A step before it that changes neither position nor what was read.
LEMMA GainsAfter ==
    ASSUME NEW s, NEW t, NEW u, NEW Q, Gentle(s, t, Q), Gains(t, u, Q), t.f.ptr = s.f.ptr, t.out = s.out
    PROVE  Gains(s, u, Q)
<1>1. Gentle(s, u, Q)
  BY GentleOn DEF Gains
<1>2. u.res = "ok" => \E k \in Nat : \E b :
           /\ u.f.ptr = s.f.ptr + k /\ u.out = s.out \o b
           /\ \A x : Reads(Seen(s), s.f, x) => Got(b, x, s.f.ptr, k)
  BY Zenon DEF Gains, Gentle, Faithful
<1> QED  BY <1>1, <1>2, Zenon DEF Gains

\* A step that gets nothing and fails.
LEMMA GainsFail ==
    ASSUME NEW s, NEW t, NEW Q, Gentle(s, t, Q), t.res # "ok"
    PROVE  Gains(s, t, Q)
  BY DEF Gains

\* The position moves on and bytes were read.
LEMMA GentleShift ==
    ASSUME NEW s, NEW L \in SUBSET Names, NEW F, IsFiles(F), NEW n \in Names, Torn(s, L, F, n),
           NEW p, NEW o, NEW t, t = Shown(s, With(s.f, p), o), NEW Q \in SUBSET Clusters
    PROVE  Gentle(s, t, Q)
<1>1. IsFile(s.f, n) /\ Base(s)
  BY TornFacts, Zenon DEF Torn
<1>2. PICK g : g = With(s.f, p)
  OBVIOUS
<1>3. /\ g.size = s.f.size /\ g.sect = s.f.sect /\ g.buf = s.f.buf /\ g.dirty = s.f.dirty
      /\ g.first = s.f.first /\ g.modified = s.f.modified
  BY <1>1, <1>2 DEF With, IsFile, Shaped
<1>4. /\ t.f = g /\ IsState(t) /\ t.disk = s.disk /\ t.win = s.win /\ t.wsect = s.wsect
      /\ t.dirty = s.dirty /\ t.media = s.media
  BY <1>1, <1>2, Zenon DEF Shown, Base, IsState
<1>5. Base(t) /\ Seen(t) = Seen(s)
  BY <1>1, <1>4, BaseSame
<1>6. Calm(s, t, Clusters, Clusters, Names)
  BY <1>4, <1>5, CalmStay
<1> QED  BY <1>3, <1>4, <1>6, GentleFile DEF SameBytes

\* Take gets the bytes from the buffer.
LEMMA GainsTaking ==
    ASSUME NEW s, NEW L \in SUBSET Names, NEW F, IsFiles(F), NEW n \in Names, Torn(s, L, F, n),
           NEW m \in Nat \ {0}, Stands(Tab(Seen(s)), s.f, m), SectorSize * (m - 1) <= s.f.ptr,
           s.f.ptr < SectorSize * m, s.f.sect = s.f.clust,
           NEW len \in Nat \ {0}, s.f.ptr + len <= s.f.size,
           NEW k, k = Min2(SectorSize - (s.f.ptr % SectorSize), len), NEW t, t = Take(s, k),
           NEW Q \in SUBSET Clusters
    PROVE  Gains(s, t, Q)
<1>1. IsFile(s.f, n) /\ Base(s) /\ s.f.ptr \in Nat /\ s.f.size \in Nat
  BY TornFacts, Zenon DEF Torn
<1>2. k \in Nat \ {0} /\ k <= len /\ Within(s.f.ptr + k, m)
  BY <1>1, RestOfSector
<1>3. PICK a, b : a = s.f.ptr % SectorSize /\ b = Bytes(s.f.buf, a, k)
  OBVIOUS
<1>4. t = [s EXCEPT !.f.ptr = @ + k, !.out = s.out \o b]
  BY <1>1, <1>3 DEF Take, Base, IsState
<1>5. t = Shown(s, With(s.f, s.f.ptr + k), s.out \o b)
  BY <1>1, <1>4 DEF Shown, With, Base, IsState, IsFile, Shaped
<1>6. Gentle(s, t, Q)
  BY <1>5, GentleShift, ZenonT(60)
<1>7. t.f.ptr = s.f.ptr + k /\ t.out = s.out \o b
  <2>1. PICK g, o : g = With(s.f, s.f.ptr + k) /\ o = s.out \o b
    BY Zenon
  <2>2. t.f = g /\ t.out = o
    BY <2>1, <1>1, <1>5, Zenon DEF Shown, Base, IsState
  <2>3. g.ptr = s.f.ptr + k
    BY <2>1, <1>1, WithFacts
  <2> QED  BY <2>1, <2>2, <2>3
<1>8. a = s.f.ptr - SectorSize * (m - 1)
  BY <1>1, <1>3, SectorPlace
<1>9. ASSUME NEW x, Reads(Seen(s), s.f, x) PROVE Got(b, x, s.f.ptr, k)
  <2>1. PICK V, f, p : V = Seen(s) /\ f = s.f /\ p = f.ptr
    OBVIOUS
  <2>2. \A j, w : ByteAt(V, f, f.clust, j, w) => f.buf[j] = w
    BY <2>1 DEF ByteAt
  <2>3. p + k <= SectorSize * m /\ p + k <= f.size /\ f.size \in Nat /\ p \in Nat
    BY <1>1, <1>2, <2>1 DEF Within
  <2>4. Got(Bytes(f.buf, a, k), x, p, k)
    BY <2>1, <2>2, <2>3, <1>2, <1>8, <1>9, SectorText, Zenon
  <2> QED  BY <2>1, <2>4, <1>3
<1> QED  BY <1>2, <1>6, <1>7, <1>9, Zenon DEF Gains

\* ReadSector gets a whole sector.
LEMMA GainsSector ==
    ASSUME NEW s, NEW L \in SUBSET Names, NEW F, IsFiles(F), NEW n \in Names, Torn(s, L, F, n),
           s.res = "ok", Ahead(Tab(Seen(s)), s.f), NEW len \in Nat, SectorSize <= len,
           s.f.ptr + len <= s.f.size, NEW t \in ReadSector(s), NEW Q \in SUBSET Clusters
    PROVE  Gains(s, t, Q)
<1>1. PICK m \in Nat \ {0} : Stands(Tab(Seen(s)), s.f, m) /\ s.f.ptr = SectorSize * (m - 1)
  BY DEF Ahead
<1>2. IsFile(s.f, n) /\ Base(s) /\ s.f.ptr \in Nat /\ s.f.size \in Nat
  BY TornFacts, Zenon DEF Torn
<1>3. CASE t \in Fail(s)
  <2>1. Looked(s, t) /\ t.res = "disk_err"
    BY <1>2, <1>3, Failing
  <2> QED  BY <2>1, GentleLooked, GainsFail
<1>4. CASE t \notin Fail(s)
  <2>1. PICK B : B = IF s.f.dirty /\ s.f.sect = s.f.clust THEN s.f.buf ELSE s.disk[s.f.clust]
    OBVIOUS
  <2>2. PICK b : b = Bytes(B, 0, SectorSize)
    OBVIOUS
  <2>3. t = [s EXCEPT !.f.ptr = @ + SectorSize, !.out = s.out \o b]
    <3>1. \A u \in Fail(s) : u.res # "ok"
      BY <1>2, Failing
    <3>2. PICK u \in {s} \union Fail(s) :
             /\ u.res # "ok" => t = u
             /\ u.res = "ok" => t = [u EXCEPT !.f.ptr = @ + SectorSize,
                   !.out = @ \o Bytes(IF u.f.dirty /\ u.f.sect = u.f.clust THEN u.f.buf
                                      ELSE u.disk[u.f.clust], 0, SectorSize)]
      BY Zenon DEF ReadSector, Then
    <3>3. u = s
      BY <3>1, <3>2, <1>4
    <3> QED  BY <3>2, <3>3, <2>1, <2>2, <1>2 DEF Base, IsState
  <2>4. t = Shown(s, With(s.f, s.f.ptr + SectorSize), s.out \o b)
    BY <2>3, <1>2 DEF Shown, With, Base, IsState, IsFile, Shaped
  <2>5. Gentle(s, t, Q)
    BY <2>4, GentleShift, Zenon
  <2>6. t.f.ptr = s.f.ptr + SectorSize /\ t.out = s.out \o b
    BY <1>2, <2>4 DEF Shown, With, Base, IsState, IsFile, Shaped
  <2>7. ASSUME NEW x, Reads(Seen(s), s.f, x) PROVE Got(b, x, s.f.ptr, SectorSize)
    <3>1. PICK V, f, p : V = Seen(s) /\ f = s.f /\ p = f.ptr
      OBVIOUS
    <3>2. f.clust \in Clusters
      BY <3>1, <1>1, StandsFacts
    <3>3. V[f.clust] = s.disk[f.clust]
      BY <3>1, <3>2, <1>2, SeenData
    <3>4. \A j, w : ByteAt(V, f, f.clust, j, w) => B[j] = w
      BY <3>1, <3>3, <2>1 DEF ByteAt
    <3>5. SectorSize \in Nat \ {0} /\ p + SectorSize <= f.size /\ f.size \in Nat /\ p \in Nat
      BY <1>2, <3>1, VolumeAssumption
    <3>6. p = SectorSize * (m - 1) /\ p + SectorSize = SectorSize * m
      BY <3>1, <3>5, <1>1, NextSector
    <3>7. Stands(Tab(V), f, m) /\ 0 = p - SectorSize * (m - 1) /\ SectorSize * (m - 1) <= p
          /\ p + SectorSize <= SectorSize * m
      BY <3>1, <3>5, <3>6, <1>1
    <3>8. Reads(V, f, x)
      BY <2>7, <3>1
    <3>9. Got(Bytes(B, 0, SectorSize), x, p, SectorSize)
      BY <3>4, <3>5, <3>7, <3>8, SectorText
    <3> QED  BY <3>1, <3>9, <2>2
  <2> QED  BY <2>5, <2>6, <2>7, VolumeAssumption, Zenon DEF Gains
<1> QED  BY <1>3, <1>4

\* The current cluster is set.
LEMMA GentleMoving ==
    ASSUME NEW s, NEW L \in SUBSET Names, NEW F, IsFiles(F), NEW n \in Names, Torn(s, L, F, n),
           NEW v, NEW t, t = MovedTo(s, v), NEW Q \in SUBSET Clusters
    PROVE  Gentle(s, t, Q) /\ t.f.ptr = s.f.ptr /\ t.out = s.out /\ t.f.sect = s.f.sect /\ t.f.dirty = s.f.dirty
<1>1. IsFile(s.f, n) /\ Base(s)
  BY TornFacts, Zenon DEF Torn
<1>2. PICK g : g = [s.f EXCEPT !.clust = v]
  BY Zenon
<1>3. /\ g.size = s.f.size /\ g.sect = s.f.sect /\ g.buf = s.f.buf /\ g.dirty = s.f.dirty
      /\ g.first = s.f.first /\ g.modified = s.f.modified /\ g.ptr = s.f.ptr
  BY <1>1, <1>2 DEF IsFile, Shaped
<1>4. t = Having(s, g)
  BY <1>1, <1>2 DEF MovedTo, Having, Base, IsState, IsFile, Shaped
<1>5. Gentle(s, t, Q)
  BY <1>3, <1>4, GentleSet DEF SameBytes
<1> QED  BY <1>1, <1>3, <1>4, <1>5, HavingFacts

\* A turn's work of f_read.
LEMMA GainsSome ==
    ASSUME NEW s, NEW L \in SUBSET Names, NEW F, IsFiles(F), NEW n \in Names, Busy(s, L, F, n),
           s.res = "ok", s.f.err = "ok", NEW len \in Nat \ {0}, s.f.ptr + len <= s.f.size,
           NEW t \in ReadSome(s, len), NEW Q, DirtyOut(s.f, Q)
    PROVE  Gains(s, t, Q)
<1>1. Torn(s, L, F, n) /\ FileOK(Tab(Seen(s)), s.f) /\ Base(s) /\ s.f.ptr \in Nat /\ Q \in SUBSET Clusters
  BY BusyTorn DEF FileOK, DirtyOut
<1>2. PICK k : k = Min2(SectorSize - (s.f.ptr % SectorSize), len)
  OBVIOUS
<1>3. CASE s.f.ptr % SectorSize # 0
  <2>1. t = Take(s, k)
    BY <1>2, <1>3, Zenon DEF ReadSome
  <2>2. s.f.ptr > 0
    BY <1>1, <1>3, ZeroMod
  <2>3. PICK m \in Nat \ {0} : /\ Stands(Tab(Seen(s)), s.f, m) /\ Within(s.f.ptr, m)
                               /\ (s.f.ptr = SectorSize * m \/ s.f.sect = s.f.clust)
    BY <2>2, <1>1, AtStands DEF FileOK
  <2>4. s.f.ptr # SectorSize * m /\ SectorSize * (m - 1) \in Nat /\ SectorSize * m \in Nat
    BY <2>3, <1>1, <1>3, WithinFacts
  <2>5. SectorSize * (m - 1) <= s.f.ptr /\ s.f.ptr < SectorSize * m /\ s.f.sect = s.f.clust
    BY <2>3, <2>4, <1>1 DEF Within
  <2> QED  BY <2>1, <2>3, <2>5, <1>1, <1>2, GainsTaking, Zenon
<1>4. CASE s.f.ptr % SectorSize = 0
  <2>1. PICK c \in ReadCluster(s) :
           /\ c.res # "ok" => t = c
           /\ c.res = "ok" => t \in IF c.val \notin Clusters THEN Error(c, "int_err")
                                    ELSE IF len >= SectorSize THEN ReadSector(MovedTo(c, c.val))
                                    ELSE Then(ShowCluster(MovedTo(c, c.val)), LAMBDA u : {Take(u, k)})
    <3>1. PICK c \in ReadCluster(s) :
               /\ c.res # "ok" => t = c
               /\ c.res = "ok" =>
                  t \in IF c.val \notin Clusters THEN Error(c, "int_err")
                    ELSE IF len >= SectorSize THEN ReadSector([c EXCEPT !.f.clust = c.val])
                    ELSE UNION {IF u.res = "ok" THEN {Take(u, Min2(SectorSize - (s.f.ptr % SectorSize), len))} ELSE {u} :
                                   u \in ShowCluster([c EXCEPT !.f.clust = c.val])}
        BY <1>4, Zenon DEF ReadSome, Then
    <3> QED  BY <3>1, <1>2, Zenon DEF Then, MovedTo
  <2>2. /\ Busy(c, L, F, n) /\ c.f = s.f /\ c.res \in Errs
        /\ c.res = "ok" => Leads(c, L, F, n, c.val)
        /\ c.res = "ok" => s.f.first # 0 \/ s.f.first = c.val
    BY <1>4, ReadingCluster
  <2>3. Torn(c, L, F, n) /\ Base(c)
    BY <2>2, BusyTorn
  <2>0. Looked(s, c)
    BY <1>1, SetVal, Getting, ZenonT(60) DEF ReadCluster
  <2>4. Gentle(s, c, Q) /\ c.f.ptr = s.f.ptr /\ c.out = s.out
    BY <2>0, <2>2, GentleLooked DEF Looked, Kept
  <2>5. CASE c.res # "ok"
    BY <2>1, <2>4, <2>5, GainsFail, Zenon
  <2>6. CASE c.res = "ok" /\ c.val \notin Clusters
    <3>1. PICK r : r = "int_err"
      OBVIOUS
    <3>2. t = [c EXCEPT !.res = r]
      BY <2>1, <2>6, <3>1, Zenon DEF Error
    <3>3. Looked(c, t) /\ t.res = r
      BY <3>2, <2>3, SetRes
    <3>4. Gentle(s, t, Q) /\ t.res # "ok"
      BY <3>1, <3>3, <2>4, GentleLooked, GentleOn
    <3> QED  BY <3>4, GainsFail
  <2>7. CASE c.res = "ok" /\ c.val \in Clusters
    <3>1. PICK v : v = c.val
      OBVIOUS
    <3>2. PICK x : x = MovedTo(c, v)
      OBVIOUS
    <3>3. v \in Clusters /\ Leads(c, L, F, n, v) /\ (c.f.first # 0 \/ c.f.first = v) /\ c.f.err = "ok"
      BY <3>1, <2>2, <2>7
    <3>4. /\ Torn(x, L, F, n) /\ Ahead(Tab(Seen(x)), x.f)
          /\ x.res = c.res /\ x.f.ptr = c.f.ptr /\ x.f.err = c.f.err /\ x.f.size = c.f.size
      BY <3>2, <3>3, <2>2, MovingTo
    <3>5. x.res = "ok" /\ x.f.ptr = s.f.ptr /\ x.f.err = s.f.err /\ x.f.size = s.f.size
      BY <3>4, <2>2, <2>7
    <3>6. Gentle(c, x, Q) /\ x.out = c.out /\ x.f.sect = c.f.sect /\ x.f.dirty = c.f.dirty
      BY <3>2, <2>3, <1>1, GentleMoving
    <3>7. Gentle(s, x, Q) /\ x.f.ptr = s.f.ptr /\ x.out = s.out /\ DirtyOut(x.f, Q)
      BY <3>5, <3>6, <2>2, <2>4, GentleOn DEF DirtyOut
    <3>8. CASE len >= SectorSize
      <4>1. t \in ReadSector(x) /\ SectorSize <= len /\ len \in Nat /\ x.f.ptr + len <= x.f.size
        BY <3>1, <3>2, <3>5, <3>8, <2>1, <2>7, VolumeAssumption, Zenon
      <4>2. Gains(x, t, Q)
        BY <4>1, <3>4, <3>5, <1>1, GainsSector, Zenon
      <4> QED  BY <4>2, <3>7, GainsAfter
    <3>9. CASE ~(len >= SectorSize)
      <4>1. PICK u \in ShowCluster(x) : /\ u.res # "ok" => t = u
                                        /\ u.res = "ok" => t = Take(u, k)
        <5>1. t \in Then(ShowCluster(x), LAMBDA u : {Take(u, k)})
          BY <3>1, <3>2, <3>9, <2>1, <2>7, Zenon
        <5> QED  BY <5>1 DEF Then
      <4>2. x.f.clust \in Clusters
        BY <3>4, StandsFacts DEF Ahead
      <4>3. /\ Torn(u, L, F, n) /\ u.res \in {"ok", "disk_err"} /\ Still(x, u) /\ u.out = x.out
            /\ u.res = "ok" => u.f.sect = u.f.clust
        BY <4>2, <3>4, <3>5, Showing, ZenonT(60)
      <4>4. Gentle(x, u, Q)
        BY <4>2, <3>4, <3>5, <3>7, GentleShowing
      <4>5. Gentle(s, u, Q) /\ u.f.ptr = s.f.ptr /\ u.out = s.out
        BY <4>3, <4>4, <3>7, GentleOn DEF Still
      <4>6. CASE u.res # "ok"
        BY <4>1, <4>5, <4>6, GainsFail
      <4>7. CASE u.res = "ok"
        <5>1. /\ Ahead(Tab(Seen(u)), u.f) /\ u.f.ptr = s.f.ptr /\ u.f.err = s.f.err /\ u.f.size = s.f.size
          BY <4>3, <3>4, <3>5, AheadStill DEF Still
        <5>2. PICK m \in Nat \ {0} : /\ Stands(Tab(Seen(u)), u.f, m) /\ SectorSize * (m - 1) <= u.f.ptr
                                     /\ u.f.ptr < SectorSize * m
          BY <5>1, <1>1, AheadPlace
        <5>3. t = Take(u, k) /\ u.f.sect = u.f.clust /\ u.f.ptr + len <= u.f.size
              /\ k = Min2(SectorSize - (u.f.ptr % SectorSize), len)
          BY <5>1, <4>1, <4>3, <4>7, <1>2
        <5>4. Gains(u, t, Q)
          BY <5>2, <5>3, <4>3, <1>1, GainsTaking, Zenon
        <5> QED  BY <5>4, <4>5, GainsAfter
      <4> QED  BY <4>6, <4>7
    <3> QED  BY <3>8, <3>9
  <2> QED  BY <2>5, <2>6, <2>7
<1> QED  BY <1>3, <1>4

\* A read's loop so far.
Gaining(s, x, L, F, n, Q, len) ==
    /\ Reading(s, x, L, F, n) /\ Gentle(s, x.s, Q)
    /\ x.s.res = "ok" =>
           /\ x.at = len - (x.s.f.ptr - s.f.ptr) /\ x.at \in Nat /\ (~x.go => x.at = 0)
           /\ \A y : Reads(Seen(s), s.f, y) => Got(x.s.out, y, s.f.ptr, x.s.f.ptr - s.f.ptr)

\* A turn of f_read's loop.
LEMMA GainsTurn ==
    ASSUME NEW s, NEW L \in SUBSET Names, NEW F, IsFiles(F), NEW n \in Names, s.f.ptr \in Nat,
           s.f.err = "ok", NEW Q, DirtyOut(s.f, Q), NEW len \in Nat,
           NEW y, Gaining(s, y, L, F, n, Q, len), NEW z \in ReadTurn(y)
    PROVE  y.go => Gaining(s, z, L, F, n, Q, len)
<1>0. SUFFICES ASSUME y.go PROVE Gaining(s, z, L, F, n, Q, len)
  OBVIOUS
<1>1. /\ Reading(s, y, L, F, n) /\ Busy(y.s, L, F, n) /\ y.s.res = "ok" /\ y.s.f.err = "ok"
      /\ y.at \in Nat \ {0} /\ y.s.f.ptr + y.at <= y.s.f.size
  BY <1>0 DEF Gaining, Reading, Went
<1>2. PICK t \in ReadSome(y.s, y.at) :
         z = LET left == y.at - (t.f.ptr - y.s.f.ptr)
             IN  [s |-> t, at |-> left, go |-> t.res = "ok" /\ left > 0]
  BY DEF ReadTurn
<1>3. z.s = t /\ z.at = y.at - (t.f.ptr - y.s.f.ptr) /\ (z.go <=> t.res = "ok" /\ z.at > 0)
  BY <1>2, Zenon
<1>4. Reading(s, z, L, F, n)
  BY <1>0, <1>1, ReadingTurn
<1>5. PICK x, b : x = y.s /\ b = y.at
  OBVIOUS
<1>6. /\ Busy(x, L, F, n) /\ x.res = "ok" /\ x.f.err = "ok" /\ b \in Nat \ {0}
      /\ x.f.ptr + b <= x.f.size /\ t \in ReadSome(x, b)
  BY <1>1, <1>2, <1>5
<1>7. Gentle(s, x, Q) /\ DirtyOut(x.f, Q)
  BY <1>5, GentleOut DEF Gaining
<1>8. Gains(x, t, Q) /\ Took(x, t, L, F, n, b)
  BY <1>6, <1>7, GainsSome, ReadingSome
<1>9. Gentle(s, t, Q)
  BY <1>7, <1>8, GentleOn DEF Gains
<1>10. ASSUME t.res = "ok"
       PROVE  /\ z.at = len - (t.f.ptr - s.f.ptr) /\ z.at \in Nat /\ (~z.go => z.at = 0)
              /\ \A u : Reads(Seen(s), s.f, u) => Got(t.out, u, s.f.ptr, t.f.ptr - s.f.ptr)
  <2>1. PICK k \in Nat : \E c :
           /\ t.f.ptr = x.f.ptr + k /\ t.out = x.out \o c
           /\ \A u : Reads(Seen(x), x.f, u) => Got(c, u, x.f.ptr, k)
    BY <1>8, <1>10, Zenon DEF Gains
  <2>2. PICK c :
           /\ t.f.ptr = x.f.ptr + k /\ t.out = x.out \o c
           /\ \A u : Reads(Seen(x), x.f, u) => Got(c, u, x.f.ptr, k)
    BY <2>1, Zenon
  <2>3. t.f.ptr - x.f.ptr \in 1..b
    BY <1>8, <1>10 DEF Took
  <2>4. x.f.ptr \in Nat
    BY <1>6, BusyTorn DEF FileOK
  <2>5. b = len - (x.f.ptr - s.f.ptr)
    BY <1>1, <1>5 DEF Gaining
  <2>6. z.at = b - (t.f.ptr - x.f.ptr) /\ (z.go <=> z.at > 0)
    BY <1>3, <1>5, <1>10
  <2>7. t.f.ptr \in Nat
    BY <2>2, <2>4
  <2>8. z.at = len - (t.f.ptr - s.f.ptr) /\ z.at \in Nat /\ (~z.go => z.at = 0)
    BY <2>3, <2>4, <2>5, <2>6, <2>7, <1>6
  <2>9. ASSUME NEW u, Reads(Seen(s), s.f, u) PROVE Got(t.out, u, s.f.ptr, t.f.ptr - s.f.ptr)
    <3>1. PICK a : a = x.f.ptr - s.f.ptr
      OBVIOUS
    <3>2. Got(x.out, u, s.f.ptr, a)
      BY <2>9, <3>1, <1>1, <1>5 DEF Gaining
    <3>3. Reads(Seen(x), x.f, u)
      BY <2>9, <1>7 DEF Gentle, Faithful
    <3>4. x.f.ptr = s.f.ptr + a
      BY <3>1, <2>4
    <3>5. Got(c, u, s.f.ptr + a, k)
      BY <3>3, <3>4, <2>2
    <3>6. Got(x.out \o c, u, s.f.ptr, a + k) /\ a \in Nat
      BY <3>2, <3>5, GotOn
    <3>7. a + k = t.f.ptr - s.f.ptr
      BY <3>4, <3>6, <2>2
    <3> QED  BY <3>6, <3>7, <2>2
  <2> QED  BY <2>8, <2>9
<1> QED  BY <1>3, <1>4, <1>9, <1>10 DEF Gaining

\* f_read's loop.
LEMMA GainsLoop ==
    ASSUME NEW s, NEW L \in SUBSET Names, NEW F, IsFiles(F), NEW n \in Names, Busy(s, L, F, n),
           s.res = "ok", s.f.err = "ok", s.f.ptr <= s.f.size, NEW len \in Nat, s.f.ptr + len <= s.f.size,
           s.out = <<>>, NEW Q, DirtyOut(s.f, Q), NEW t \in ReadLoop(s, len)
    PROVE  /\ Gentle(s, t, Q)
           /\ t.res = "ok" => \A y : Reads(Seen(s), s.f, y) => Got(t.out, y, s.f.ptr, len)
<1>1. Torn(s, L, F, n) /\ s.f.ptr \in Nat /\ Base(s)
  BY BusyTorn DEF FileOK
<1> DEFINE x0 == [s |-> s, at |-> len, go |-> len > 0]
           In(x) == Gaining(s, x, L, F, n, Q, len)
<1>2. PICK U : LoopIn(Loop(ReadTurn, x0, len), U, "read", 0, x0)
  BY ReadTurns
<1> DEFINE P == {x \in U : In(x)}
<1>3. x0 \in P
  <2>1. Went(s, s, L, F, n)
    BY <1>1 DEF Went, Errs
  <2>2. x0.s = s /\ x0.at = len /\ (x0.go <=> len > 0)
    BY Zenon
  <2>3. Gentle(s, s, Q)
    BY <1>1, LookedSelf, GentleLooked
  <2>4. \A y : Got(<<>>, y, s.f.ptr, s.f.ptr - s.f.ptr)
    <3>1. s.f.ptr - s.f.ptr = 0 /\ <<>> \in Seq({}) /\ Len(<<>>) = 0
      BY <1>1
    <3> QED  BY <3>1 DEF Got
  <2>5. In(x0)
    <3>1. Reading(s, x0, L, F, n)
      <4> HIDE DEF x0
      <4> QED  BY <2>1, <2>2 DEF Reading
    <3> HIDE DEF x0
    <3>3. \A p \in Nat : len = len - (p - p)
      OBVIOUS
    <3>2. x0.at = len - (s.f.ptr - s.f.ptr) /\ x0.at \in Nat /\ (~x0.go => x0.at = 0)
      BY <1>1, <2>2, <3>3
    <3> QED  BY <3>1, <3>2, <2>2, <2>3, <2>4 DEF Gaining
  <2>6. x0 \in U
    BY <1>2 DEF LoopIn
  <2> QED  BY <2>5, <2>6
<1>4. ASSUME NEW y \in P, NEW z \in ReadTurn(y) PROVE y.go => In(z)
  <2>1. Gaining(s, y, L, F, n, Q, len)
    OBVIOUS
  <2> QED  BY <2>1, <1>1, GainsTurn
<1>5. KeptByTurns(P, U, "read", 0)
  <2> HIDE DEF In
  <2> QED  BY <1>4 DEF KeptByTurns, AnyTurn
<1>6. Loop(ReadTurn, x0, len) \subseteq P
  <2> HIDE DEF P, x0
  <2>1. P \in SUBSET U
    BY DEF P
  <2> QED  BY <2>1, <1>2, <1>3, <1>5 DEF LoopIn
<1>7. PICK x \in Loop(ReadTurn, x0, len) : t = x.s
  BY DEF ReadLoop
<1>8. In(x) /\ ~x.go
  <2> HIDE DEF P, x0
  <2> QED  BY <1>2, <1>6, <1>7 DEF LoopIn, P
<1>9. ASSUME t.res = "ok", NEW y, Reads(Seen(s), s.f, y) PROVE Got(t.out, y, s.f.ptr, len)
  <2>1. Got(t.out, y, s.f.ptr, t.f.ptr - s.f.ptr) /\ 0 = len - (t.f.ptr - s.f.ptr)
    BY <1>7, <1>8, <1>9 DEF Gaining
  <2>2. t.f.ptr - s.f.ptr = len
    <3>1. Torn(t, L, F, n)
      BY <1>7, <1>8 DEF Gaining, Reading, Went
    <3>2. t.f.ptr \in Nat
      BY <3>1, TornFacts
    <3>3. \A a, b \in Nat : 0 = len - (a - b) => a - b = len
      OBVIOUS
    <3> QED  BY <3>2, <3>3, <2>1, <1>1, Zenon
  <2> QED  BY <2>1, <2>2
<1> QED  BY <1>7, <1>8, <1>9 DEF Gaining

\* An error is noted in the file.
LEMMA GentleErr ==
    ASSUME NEW s, NEW L \in SUBSET Names, NEW F, IsFiles(F), NEW n \in Names, Torn(s, L, F, n),
           NEW t, t = (IF s.res # "ok" THEN [s EXCEPT !.f.err = s.res] ELSE s), NEW Q \in SUBSET Clusters
    PROVE  Gentle(s, t, Q) /\ t.res = s.res /\ t.out = s.out /\ t.disk = s.disk
           /\ t.f.ptr = s.f.ptr /\ t.f.dirty = s.f.dirty
<1>1. IsFile(s.f, n) /\ Base(s)
  BY TornFacts, Zenon DEF Torn
<1>2. CASE s.res = "ok"
  BY <1>1, <1>2, LookedSelf, GentleLooked
<1>3. CASE s.res # "ok"
  <2>1. PICK g : g = [s.f EXCEPT !.err = s.res]
    BY Zenon
  <2>2. /\ g.size = s.f.size /\ g.sect = s.f.sect /\ g.buf = s.f.buf /\ g.dirty = s.f.dirty
        /\ g.first = s.f.first /\ g.modified = s.f.modified /\ g.ptr = s.f.ptr
    BY <2>1, <1>1 DEF IsFile, Shaped
  <2>3. t = Having(s, g)
    BY <2>1, <1>1, <1>3 DEF Having, Base, IsState, IsFile, Shaped
  <2>4. Gentle(s, t, Q)
    BY <2>2, <2>3, GentleSet DEF SameBytes
  <2> QED  BY <2>2, <2>3, <2>4, <1>1, HavingFacts
<1> QED  BY <1>2, <1>3

\* f_read changes nothing of the file and gets its text.
LEMMA ReadsText ==
    ASSUME NEW s, NEW L \in SUBSET Names, NEW F, IsFiles(F), NEW n \in Names, Ended(s, L, F, n),
           s.res = "ok", s.out = <<>>, NEW len \in Nat, NEW Q, DirtyOut(s.f, Q), NEW t \in f_read(s, len)
    PROVE  /\ Gentle(s, t, Q)
           /\ t.res = "ok" => /\ s.f.ptr \in Nat /\ s.f.size \in Nat /\ s.f.ptr <= s.f.size
                              /\ \A y : Reads(Seen(s), s.f, y) =>
                                     Got(t.out, y, s.f.ptr, Min2(len, s.f.size - s.f.ptr))
<1>0. Torn(s, L, F, n) /\ Base(s)
  BY BusyTorn DEF Ended
<1>1. CASE s.f.err # "ok" \/ ~s.f.read
  <2>1. PICK r : t = [s EXCEPT !.res = r] /\ r # "ok"
    BY <1>1, Zenon DEF f_read, Error
  <2>2. Looked(s, t) /\ t.res = r
    BY <2>1, <1>0, SetRes, SMTT(60)
  <2> QED  BY <2>1, <2>2, GentleLooked
<1>3. CASE s.f.err = "ok" /\ s.f.read
  <2>1. PICK k : k = Min2(len, s.f.size - s.f.ptr)
    OBVIOUS
  <2>2. PICK u \in ReadLoop(s, k) : t = IF u.res # "ok" THEN [u EXCEPT !.f.err = u.res] ELSE u
    BY <2>1, <1>3 DEF f_read, Abort
  <2>3. Busy(s, L, F, n) /\ s.f.ptr <= s.f.size
    BY <1>3 DEF Ended
  <2>4. s.f.ptr \in Nat /\ s.f.size \in Nat
    BY <2>3, BusyTorn DEF FileOK
  <2>5. k \in Nat /\ s.f.ptr + k <= s.f.size
    BY <2>1, <2>3, <2>4, SMTT(60) DEF Min2
  <2>6. Torn(u, L, F, n)
    BY <2>2, <2>3, <2>5, <1>3, ReadingLoop DEF Went
  <2>7. /\ Gentle(s, u, Q)
        /\ u.res = "ok" => \A y : Reads(Seen(s), s.f, y) => Got(u.out, y, s.f.ptr, k)
    BY <2>2, <2>3, <2>5, <1>3, GainsLoop, Zenon
  <2>8. Gentle(u, t, Q) /\ t.res = u.res /\ t.out = u.out
    BY <2>2, <2>6, GentleErr DEF DirtyOut
  <2>9. Gentle(s, t, Q)
    BY <2>7, <2>8, GentleOn
  <2>10. t.res = "ok" => \A y : Reads(Seen(s), s.f, y) => Got(t.out, y, s.f.ptr, k)
    BY <2>7, <2>8
  <2> QED  BY <2>1, <2>3, <2>4, <2>9, <2>10
<1> QED  BY <1>1, <1>3

-----------------------------------------------------------------------------
\* f_lseek.

\* The next cluster is looked up, or made.
LEMMA GentleNext ==
    ASSUME NEW s, NEW L \in SUBSET Names, NEW F, IsFiles(F), NEW n \in Names, Torn(s, L, F, n),
           s.res = "ok", NEW c, NEW t \in get_fat(s, c) \union create_chain(s, c), t.f = s.f,
           NEW Q \in SUBSET Clusters
    PROVE  Gentle(s, t, Q)
<1>1. Base(s)
  BY TornFacts
<1>2. CASE t \in get_fat(s, c)
  BY <1>1, <1>2, Getting, GentleLooked
<1>3. CASE t \in create_chain(s, c)
  <2>1. Calm(s, t, Clusters, Clusters, Names)
    BY <1>1, <1>3, CalmCreating
  <2>2. SameBytes(s.f, t.f)
    BY DEF SameBytes
  <2> QED  BY <2>1, <2>2, GentleFile
<1> QED  BY <1>2, <1>3

\* The position, the current cluster or the first may change.
LEMMA GentlePlace ==
    ASSUME NEW s, NEW L \in SUBSET Names, NEW F, IsFiles(F), NEW n \in Names, Torn(s, L, F, n),
           NEW Q \in SUBSET Clusters, NEW p, NEW v
    PROVE  /\ Gentle(s, MovedPtr(s, p), Q) /\ MovedPtr(s, p).f.ptr = p
           /\ Gentle(s, Stepped(s, v), Q) /\ Stepped(s, v).f.ptr = s.f.ptr + SectorSize
           /\ s.f.first = 0 \/ s.f.first = v => Gentle(s, Headed(s, v), Q)
           /\ Headed(s, v).f.ptr = s.f.ptr /\ Headed(s, v).f.first = v /\ Headed(s, v).res = s.res
           /\ MovedPtr(s, p).res = s.res /\ Stepped(s, v).res = s.res
<1>1. IsFile(s.f, n) /\ Base(s)
  BY TornFacts, Zenon DEF Torn
<1>2. PICK a, b, c : /\ a = With(s.f, p) /\ b = SteppedFile(s.f, v, s.f.ptr + SectorSize)
                     /\ c = HeadedFile(s.f, v)
  OBVIOUS
<1>3. /\ a.size = s.f.size /\ a.sect = s.f.sect /\ a.buf = s.f.buf /\ a.dirty = s.f.dirty
      /\ a.first = s.f.first /\ a.modified = s.f.modified /\ a.ptr = p
  BY <1>1, <1>2 DEF With, IsFile, Shaped
<1>4. /\ b.size = s.f.size /\ b.sect = s.f.sect /\ b.buf = s.f.buf /\ b.dirty = s.f.dirty
      /\ b.first = s.f.first /\ b.modified = s.f.modified /\ b.ptr = s.f.ptr + SectorSize
  BY <1>1, <1>2 DEF SteppedFile, IsFile, Shaped
<1>5. /\ c.size = s.f.size /\ c.sect = s.f.sect /\ c.buf = s.f.buf /\ c.dirty = s.f.dirty
      /\ c.first = v /\ c.modified = s.f.modified /\ c.ptr = s.f.ptr
  BY <1>1, <1>2 DEF HeadedFile, IsFile, Shaped
<1>6. MovedPtr(s, p) = Having(s, a)
  BY <1>1, <1>2 DEF MovedPtr, Having, With, Base, IsState, IsFile, Shaped
<1>7. Stepped(s, v) = Having(s, b)
  BY <1>1, <1>2, Zenon DEF Stepped, Having, SteppedFile, Base, IsState, IsFile, Shaped
<1>8. Headed(s, v) = Having(s, c)
  BY <1>1, <1>2, Zenon DEF Headed, Having, HeadedFile, Base, IsState, IsFile, Shaped
<1>9. Gentle(s, MovedPtr(s, p), Q)
  BY <1>3, <1>6, GentleSet DEF SameBytes
<1>10. Gentle(s, Stepped(s, v), Q)
  BY <1>4, <1>7, GentleSet DEF SameBytes
<1>11. ASSUME s.f.first = 0 \/ s.f.first = v PROVE Gentle(s, Headed(s, v), Q)
  <2>1. c.first = s.f.first \/ s.f.first = 0
    BY <1>5, <1>11
  <2> QED  BY <2>1, <1>5, <1>8, GentleSet DEF SameBytes
<1>12. /\ Having(s, a).f = a /\ Having(s, b).f = b /\ Having(s, c).f = c
       /\ Having(s, a).res = s.res /\ Having(s, b).res = s.res /\ Having(s, c).res = s.res
  BY <1>1, HavingFacts
<1> QED  BY <1>3, <1>4, <1>5, <1>6, <1>7, <1>8, <1>9, <1>10, <1>11, <1>12

\* A seek's loop so far, not to go past position p.
Nearing(s, x, L, F, n, Q, p) ==
    /\ Seeking(x, L, F, n) /\ Gentle(s, x.s, Q)
    /\ x.s.res = "ok" => x.s.f.ptr + x.at <= p

\* A turn of f_lseek's loop.
LEMMA NearingTurn ==
    ASSUME NEW s, NEW L \in SUBSET Names, NEW F, IsFiles(F), NEW n \in Names, NEW Q \in SUBSET Clusters,
           NEW p \in Nat, NEW y, Nearing(s, y, L, F, n, Q, p), NEW z \in SeekTurn(y)
    PROVE  y.go => Nearing(s, z, L, F, n, Q, p)
<1>0. SUFFICES ASSUME y.go PROVE Nearing(s, z, L, F, n, Q, p)
  OBVIOUS
<1>1. PICK x : x = y.s
  OBVIOUS
<1>2. /\ Torn(x, L, F, n) /\ x.res = "ok" /\ x.f.err = "ok" /\ Ahead(Tab(Seen(x)), x.f)
      /\ y.at \in Nat \ {0} /\ SectorSize < y.at /\ Gentle(s, x, Q) /\ x.f.ptr + y.at <= p
  BY <1>0, <1>1 DEF Nearing, Seeking
<1>3. PICK t \in get_fat(x, x.f.clust) \union create_chain(x, x.f.clust) :
         \/ t.res = "ok" /\ z = [s |-> t, at |-> SectorSize, go |-> FALSE]
         \/ t.res = "ok" /\ t.val \in Clusters /\
              z = [s |-> [t EXCEPT !.f.clust = t.val, !.f.ptr = @ + SectorSize],
                   at |-> y.at - SectorSize, go |-> y.at - SectorSize > SectorSize]
         \/ z = [s |-> IF t.res = "ok" THEN [t EXCEPT !.res = "int_err"] ELSE t,
                    at |-> y.at, go |-> FALSE]
  BY <1>1, Zenon DEF SeekTurn
<1>4. /\ Torn(t, L, F, n) /\ t.f = x.f /\ x.f.ptr \in Nat /\ Base(t)
  BY <1>2, NextCluster, TornFacts, ZenonT(60)
<1>5. Gentle(s, t, Q)
  BY <1>2, <1>4, GentleNext, GentleOn, ZenonT(30)
<1>6. SectorSize \in Nat \ {0} /\ Seeking(z, L, F, n)
  BY <1>0, <1>2, VolumeAssumption, SeekingTurn DEF Nearing
<1>7. CASE t.res = "ok" /\ z = [s |-> t, at |-> SectorSize, go |-> FALSE]
  <2>1. z.s = t /\ z.at = SectorSize
    BY <1>7
  <2>2. t.f.ptr + SectorSize <= p
    BY <1>2, <1>4, <1>6
  <2> QED  BY <2>1, <2>2, <1>5, <1>6 DEF Nearing
<1>8. CASE t.res = "ok" /\ t.val \in Clusters /\
              z = [s |-> [t EXCEPT !.f.clust = t.val, !.f.ptr = @ + SectorSize],
                   at |-> y.at - SectorSize, go |-> y.at - SectorSize > SectorSize]
  <2>1. PICK v : v = t.val
    OBVIOUS
  <2>2. PICK u : u = Stepped(t, v)
    OBVIOUS
  <2>3. z.s = u /\ z.at = y.at - SectorSize
    BY <2>1, <2>2, <1>8 DEF Stepped
  <2>4. Gentle(t, u, Q) /\ u.f.ptr = t.f.ptr + SectorSize
    BY <2>2, <1>4, GentlePlace, Zenon
  <2>5. Gentle(s, u, Q)
    BY <2>4, <1>5, GentleOn
  <2>6. u.f.ptr + z.at <= p
    BY <2>3, <2>4, <1>2, <1>4, <1>6
  <2> QED  BY <2>3, <2>5, <2>6, <1>6 DEF Nearing
<1>9. CASE z = [s |-> IF t.res = "ok" THEN [t EXCEPT !.res = "int_err"] ELSE t,
                    at |-> y.at, go |-> FALSE]
  <2>1. CASE t.res = "ok"
    <3>1. PICK r : r = "int_err"
      OBVIOUS
    <3>2. PICK u : u = [t EXCEPT !.res = r]
      BY Zenon
    <3>3. z.s = u
      BY <3>1, <3>2, <2>1, <1>9
    <3>4. Looked(t, u) /\ u.res = r
      BY <3>2, <1>4, SetRes
    <3>5. Gentle(s, u, Q) /\ u.res # "ok"
      BY <3>1, <3>4, <1>5, GentleLooked, GentleOn
    <3> QED  BY <3>3, <3>5, <1>6 DEF Nearing
  <2>2. CASE t.res # "ok"
    <3>1. z.s = t
      BY <2>2, <1>9
    <3> QED  BY <3>1, <2>2, <1>5, <1>6 DEF Nearing
  <2> QED  BY <2>1, <2>2
<1> QED  BY <1>3, <1>7, <1>8, <1>9

\* f_lseek's loop.
LEMMA NearingLoop ==
    ASSUME NEW s, NEW L \in SUBSET Names, NEW F, IsFiles(F), NEW n \in Names, Torn(s, L, F, n),
           Ahead(Tab(Seen(s)), s.f), s.f.err = "ok", s.res = "ok", NEW ofs \in Nat \ {0},
           NEW Q \in SUBSET Clusters, NEW t \in SeekLoop(s, ofs)
    PROVE  Gentle(s, t, Q) /\ (t.res = "ok" => t.f.ptr > 0 /\ t.f.ptr <= s.f.ptr + ofs)
<1>0. Base(s) /\ s.f.ptr \in Nat
  BY TornFacts
<1> DEFINE x0 == [s |-> s, at |-> ofs, go |-> ofs > SectorSize]
           p == s.f.ptr + ofs
           In(x) == Nearing(s, x, L, F, n, Q, p)
<1>1. ofs \in Nat /\ SectorSize \in Nat /\ p \in Nat
  BY <1>0, VolumeAssumption
<1>2. PICK U : LoopIn(Loop(SeekTurn, x0, ofs), U, "seek", 0, x0)
  BY <1>1, SeekTurns
<1> DEFINE P == {x \in U : In(x)}
<1>3. x0 \in P
  <2>1. x0.s = s /\ x0.at = ofs /\ (x0.go <=> ofs > SectorSize)
    BY Zenon
  <2>2. In(x0)
    <3>1. Gentle(s, s, Q)
      BY <1>0, LookedSelf, GentleLooked
    <3>2. s.f.ptr + ofs <= p
      BY <1>0
    <3> HIDE DEF x0, p
    <3>3. Seeking(x0, L, F, n)
      BY <2>1, <1>1 DEF Seeking, Errs
    <3> QED  BY <2>1, <3>1, <3>2, <3>3 DEF Nearing
  <2>3. x0 \in U
    BY <1>2 DEF LoopIn
  <2> QED  BY <2>2, <2>3
<1>4. ASSUME NEW y \in P, NEW z \in SeekTurn(y) PROVE y.go => In(z)
  <2> HIDE DEF p, x0
  <2>1. Nearing(s, y, L, F, n, Q, p)
    OBVIOUS
  <2> QED  BY <2>1, <1>1, NearingTurn
<1>5. KeptByTurns(P, U, "seek", 0)
  <2> HIDE DEF In
  <2> QED  BY <1>4 DEF KeptByTurns, AnyTurn
<1>6. Loop(SeekTurn, x0, ofs) \subseteq P
  <2> HIDE DEF P, x0
  <2>1. P \in SUBSET U
    BY DEF P
  <2> QED  BY <2>1, <1>2, <1>3, <1>5 DEF LoopIn
<1>7. PICK x \in Loop(SeekTurn, x0, ofs) :
         t = IF x.s.res = "ok" THEN [x.s EXCEPT !.f.ptr = @ + x.at] ELSE x.s
  BY DEF SeekLoop
<1>8. In(x)
  BY <1>6, <1>7
<1> HIDE DEF p
<1>9. CASE x.s.res # "ok"
  BY <1>7, <1>8, <1>9 DEF Nearing
<1>10. CASE x.s.res = "ok"
  <2>1. PICK y, a : y = x.s /\ a = x.at
    OBVIOUS
  <2>2. /\ Torn(y, L, F, n) /\ y.res = "ok" /\ a \in Nat \ {0} /\ Gentle(s, y, Q) /\ y.f.ptr + a <= p
    BY <2>1, <1>8, <1>10 DEF Nearing, Seeking
  <2>3. IsState(y) /\ Shaped(y.f) /\ y.f.ptr \in Nat
    BY <2>2, TornFacts DEF Torn, IsFile, Base
  <2>4. t = MovedPtr(y, y.f.ptr + a)
    <3>1. t = [y EXCEPT !.f.ptr = @ + a]
      BY <2>1, <1>7, <1>10
    <3> QED  BY <2>3, <3>1 DEF MovedPtr, IsState, Shaped
  <2>5. Gentle(y, t, Q) /\ t.f.ptr = y.f.ptr + a
    BY <2>2, <2>4, GentlePlace, SMTT(60)
  <2>6. Gentle(s, t, Q)
    BY <2>2, <2>5, GentleOn
  <2>7. t.f.ptr > 0 /\ t.f.ptr <= p
    BY <2>2, <2>3, <2>5
  <2> QED  BY <2>6, <2>7 DEF p
<1> QED  BY <1>9, <1>10

\* The first cluster is set.
LEMMA GentleHeaded ==
    ASSUME NEW s, NEW L \in SUBSET Names, NEW F, IsFiles(F), NEW n \in Names, Torn(s, L, F, n),
           NEW Q \in SUBSET Clusters, NEW v
    PROVE  /\ s.f.first = 0 \/ s.f.first = v => Gentle(s, Headed(s, v), Q)
           /\ Headed(s, v).f.ptr = s.f.ptr /\ Headed(s, v).f.first = v /\ Headed(s, v).res = s.res
<1>1. PICK p : p = 0
  OBVIOUS
<1>2. /\ Gentle(s, MovedPtr(s, p), Q) /\ MovedPtr(s, p).f.ptr = p
      /\ Gentle(s, Stepped(s, v), Q) /\ Stepped(s, v).f.ptr = s.f.ptr + SectorSize
      /\ s.f.first = 0 \/ s.f.first = v => Gentle(s, Headed(s, v), Q)
      /\ Headed(s, v).f.ptr = s.f.ptr /\ Headed(s, v).f.first = v /\ Headed(s, v).res = s.res
      /\ MovedPtr(s, p).res = s.res /\ Stepped(s, v).res = s.res
  BY GentlePlace
<1> QED  BY <1>2

\* The search of a seek begins at the first cluster, made when there is none.
LEMMA GentleFirst ==
    ASSUME NEW s, NEW L \in SUBSET Names, NEW F, IsFiles(F), NEW n \in Names, Busy(s, L, F, n),
           s.f.err = "ok", s.res = "ok", NEW Q \in SUBSET Clusters,
           NEW t \in IF s.f.first = 0 THEN create_chain(MovedPtr(s, 0), 0) ELSE {AtStart(s, s.f.first)}
    PROVE  Gentle(s, t, Q) /\ t.f.first = s.f.first
<1>0. Torn(s, L, F, n) /\ Base(s) /\ IsFile(s.f, n)
  BY BusyTorn, TornFacts DEF Torn
<1>1. PICK p : p = 0
  OBVIOUS
<1>2. PICK u : u = MovedPtr(s, p)
  OBVIOUS
<1>3. Gentle(s, u, Q) /\ u.res = "ok"
  BY <1>0, <1>2, GentlePlace, ZenonT(60)
<1>4. Torn(u, L, F, n) /\ u.f.first = s.f.first /\ u.f.ptr = 0 /\ u.f.err = "ok"
  <2>1. p \in Nat
    BY <1>1
  <2> QED  BY <2>1, <1>0, <1>1, <1>2, MovingPtr
<1>5. CASE s.f.first = 0
  <2>1. PICK c : c = 0
    OBVIOUS
  <2>2. t \in create_chain(u, c)
    BY <2>1, <1>1, <1>2, <1>5
  <2>3. PICK G : G = Put(F, n, u.f)
    OBVIOUS
  <2>4. Busy(u, L, F, n)
    <3>1. At(Tab(Seen(u)), u.f)
      BY <1>4 DEF At
    <3> QED  BY <3>1, <1>4, ToBusy
  <2>5. Fine(u, L, G)
    BY <2>3, <2>4 DEF Busy
  <2>6. Worked(u, t, L, G)
    BY <2>2, <2>5, <1>3, Creating
  <2>7. t.f = u.f
    BY <2>6 DEF Worked
  <2>8. Gentle(u, t, Q)
    BY <2>2, <2>7, <1>3, <1>4, GentleNext, Zenon
  <2> QED  BY <2>7, <2>8, <1>3, <1>4, GentleOn
<1>6. CASE s.f.first # 0
  <2>1. PICK v : v = s.f.first
    OBVIOUS
  <2>2. t = [u EXCEPT !.val = v]
    <3>1. IsState(s) /\ Shaped(s.f)
      BY <1>0 DEF IsFile, Base
    <3> QED  BY <3>1, <2>1, <1>1, <1>2, <1>6, Zenon DEF AtStart, MovedPtr, IsState, Shaped
  <2>3. Base(u)
    BY <1>4, TornFacts
  <2>4. Looked(u, t)
    BY <2>2, <2>3, SetVal
  <2>5. Gentle(u, t, Q) /\ t.f = u.f
    BY <2>4, GentleLooked DEF Looked, Kept
  <2> QED  BY <2>5, <1>3, <1>4, GentleOn
<1> QED  BY <1>5, <1>6

\* What a seek's search leaves: it goes no further than asked, and makes a
\* first cluster only to go somewhere.
Sought(s, t, Q, ofs) ==
    /\ Gentle(s, t, Q)
    /\ t.res = "ok" => t.f.ptr <= ofs
    /\ ofs = 0 => t.res = "ok" /\ t.f.ptr = 0
    /\ ofs = 0 \/ (t.res = "ok" /\ t.f.ptr = 0) => t.f.first = s.f.first

\* The search for the cluster of a position.
LEMMA SoughtChain ==
    ASSUME NEW s, NEW L \in SUBSET Names, NEW F, IsFiles(F), NEW n \in Names, Busy(s, L, F, n),
           s.f.err = "ok", s.res = "ok", NEW ofs \in Nat, NEW t \in SeekChain(s, ofs),
           NEW Q \in SUBSET Clusters
    PROVE  Sought(s, t, Q, ofs)
<1>0. Torn(s, L, F, n) /\ FileOK(Tab(Seen(s)), s.f) /\ s.f.ptr \in Nat /\ SectorSize \in Nat \ {0}
  BY BusyTorn, VolumeAssumption DEF FileOK
<1>1. PICK h : h = (s.f.ptr - 1) \div SectorSize
  OBVIOUS
<1>2. CASE ofs = 0
  <2>1. t = MovedPtr(s, 0)
    BY <1>2, Zenon DEF SeekChain, MovedPtr
  <2>2. Torn(t, L, F, n) /\ t.res = s.res /\ t.f.ptr = 0 /\ t.f.first = s.f.first
    BY <2>1, <1>0, MovingPtr
  <2>3. Gentle(s, t, Q)
    BY <2>1, <1>0, GentlePlace
  <2> QED  BY <2>2, <2>3, <1>2 DEF Sought
<1>3. CASE ofs # 0 /\ s.f.ptr > 0 /\ (ofs - 1) \div SectorSize >= h
  <2>1. t \in SeekLoop(MovedPtr(s, h * SectorSize), ofs - h * SectorSize)
    BY <1>1, <1>3, Zenon DEF SeekChain, MovedPtr
  <2>2. PICK m \in Nat \ {0} : Stands(Tab(Seen(s)), s.f, m) /\ Within(s.f.ptr, m)
    BY <1>0, <1>3, AtStands DEF FileOK
  <2>3. h = m - 1 /\ SectorSize * (m - 1) \in Nat
    BY <2>2, <1>0, <1>1, WithinFacts
  <2>4. PICK p : p = h * SectorSize
    OBVIOUS
  <2>5. PICK j : j = m - 1
    OBVIOUS
  <2>6. p \in Nat /\ p = SectorSize * (m - 1) /\ h \in Nat
    BY <2>3, <2>4, <2>5, <1>0
  <2>7. PICK u : u = MovedPtr(s, p)
    OBVIOUS
  <2>13. p \in Nat
    BY <2>6
  <2>8. /\ Torn(u, L, F, n) /\ u.res = s.res /\ Seen(u) = Seen(s)
        /\ u.f.first = s.f.first /\ u.f.ptr = p /\ u.f.err = s.f.err
        /\ u.f.clust = s.f.clust
    BY <2>13, <2>7, <1>0, MovingPtr
  <2>9. Ahead(Tab(Seen(u)), u.f)
    <3>1. Stands(Tab(Seen(u)), u.f, m)
      BY <2>2, <2>8, StandsFacts
    <3> QED  BY <3>1, <2>6, <2>8 DEF Ahead
  <2>10. PICK o : o = ofs - p
    OBVIOUS
  <2>11. o \in Nat \ {0} /\ p + o = ofs
    <3>1. PICK a : a = ofs - 1
      OBVIOUS
    <3>2. PICK q : q = a \div SectorSize
      OBVIOUS
    <3>3. a \in Nat /\ q >= h
      BY <3>1, <3>2, <1>3
    <3>4. a = q * SectorSize + (a % SectorSize) /\ q \in Nat /\ a % SectorSize \in 0..(SectorSize - 1)
      BY <3>2, <3>3, <1>0, DivMod, Zenon
    <3>5. PICK d : d = q - h
      OBVIOUS
    <3>6. d \in Nat /\ q = h + d
      BY <3>3, <3>4, <3>5, <2>6
    <3>7. (h + d) * SectorSize = h * SectorSize + d * SectorSize /\ d * SectorSize \in Nat
      BY <3>6, <2>6, <1>0, Distribute
    <3>8. PICK e, r : e = d * SectorSize /\ r = a % SectorSize
      OBVIOUS
    <3>9. a = p + e + r /\ e \in Nat /\ r \in Nat
      BY <3>4, <3>6, <3>7, <3>8, <2>4
    <3> QED  BY <3>1, <3>9, <2>6, <2>10
  <2>12. t \in SeekLoop(u, o)
    BY <2>1, <2>4, <2>7, <2>10
  <2>14. Gentle(u, t, Q) /\ (t.res = "ok" => t.f.ptr > 0 /\ t.f.ptr <= p + o)
    BY <2>8, <2>9, <2>11, <2>12, <1>3, NearingLoop, Zenon
  <2>15. Gentle(s, u, Q)
    BY <2>7, <1>0, GentlePlace, Zenon
  <2>16. Gentle(s, t, Q)
    BY <2>14, <2>15, GentleOn
  <2>17. t.res = "ok" => t.f.ptr <= ofs /\ t.f.ptr # 0
    BY <2>11, <2>14
  <2> QED  BY <2>16, <2>17, <1>3 DEF Sought
<1>4. CASE ofs # 0 /\ ~(s.f.ptr > 0 /\ (ofs - 1) \div SectorSize >= h)
  <2>1. PICK c \in IF s.f.first = 0 THEN create_chain(MovedPtr(s, 0), 0) ELSE {AtStart(s, s.f.first)} :
           /\ c.res # "ok" => t = c
           /\ c.res = "ok" /\ c.val = 0 => t = Headed(c, c.val)
           /\ c.res = "ok" /\ c.val # 0 => t \in SeekLoop(Headed(c, c.val), ofs)
    <3>1. t \in Then(IF s.f.first = 0 THEN create_chain(MovedPtr(s, 0), 0) ELSE {AtStart(s, s.f.first)},
                  LAMBDA c : IF c.val = 0 THEN {Headed(c, c.val)} ELSE SeekLoop(Headed(c, c.val), ofs))
      BY <1>1, <1>4, Zenon DEF SeekChain, MovedPtr, AtStart, Headed
    <3> QED  BY <3>1 DEF Then
  <2>2. /\ Busy(c, L, F, n) /\ c.res \in Errs /\ c.f.err = "ok" /\ c.f.ptr = 0
        /\ c.res = "ok" /\ c.val # 0 =>
               c.val \in Clusters /\ Leads(c, L, F, n, c.val) /\ (c.f.first = 0 \/ c.f.first = c.val)
        /\ c.res = "ok" /\ c.val = 0 => c.f.first = c.val
    BY <2>1, SeekingFirst
  <2>3. Torn(c, L, F, n)
    BY <2>2, BusyTorn
  <2>9. Gentle(s, c, Q) /\ c.f.first = s.f.first
    BY <2>1, GentleFirst
  <2>4. PICK v : v = c.val
    OBVIOUS
  <2>5. PICK u : u = Headed(c, v)
    OBVIOUS
  <2>10. /\ c.f.first = 0 \/ c.f.first = v => Gentle(c, u, Q)
         /\ u.f.ptr = c.f.ptr /\ u.f.first = v /\ u.res = c.res
    <3>1. /\ c.f.first = 0 \/ c.f.first = v => Gentle(c, Headed(c, v), Q)
          /\ Headed(c, v).f.ptr = c.f.ptr /\ Headed(c, v).f.first = v /\ Headed(c, v).res = c.res
      BY <2>3, GentleHeaded, ZenonT(60)
    <3> QED  BY <3>1, <2>5
  <2>6. CASE c.res # "ok"
    BY <2>1, <2>9, <2>6, <1>4 DEF Sought
  <2>7. CASE c.res = "ok" /\ c.val = 0
    <3>1. c.f.first = v /\ t = u
      BY <2>1, <2>2, <2>4, <2>5, <2>7
    <3>2. Gentle(s, t, Q)
      BY <3>1, <2>9, <2>10, GentleOn
    <3>3. t.f.ptr = 0 /\ t.f.first = s.f.first
      BY <3>1, <2>2, <2>9, <2>10, Zenon
    <3>4. t.f.ptr <= ofs
      BY <3>3
    <3> QED  BY <3>2, <3>3, <3>4, <1>4 DEF Sought
  <2>8. CASE c.res = "ok" /\ c.val # 0
    <3>1. v \in Clusters /\ Leads(c, L, F, n, v) /\ (c.f.first = 0 \/ c.f.first = v) /\ c.f.err = "ok"
      BY <2>2, <2>4, <2>8
    <3>2. Torn(u, L, F, n) /\ Ahead(Tab(Seen(u)), u.f) /\ u.res = c.res /\ u.f.err = c.f.err
      BY <3>1, <2>2, <2>5, Heading
    <3>3. t \in SeekLoop(u, ofs) /\ u.res = "ok" /\ u.f.err = "ok" /\ ofs \in Nat \ {0}
      BY <3>2, <2>1, <2>2, <2>4, <2>5, <2>8, <1>4
    <3>4. Gentle(u, t, Q) /\ (t.res = "ok" => t.f.ptr > 0 /\ t.f.ptr <= u.f.ptr + ofs)
      BY <3>2, <3>3, NearingLoop
    <3>5. Gentle(s, t, Q)
      <4>1. Gentle(c, u, Q)
        BY <3>1, <2>10
      <4> QED  BY <4>1, <3>4, <2>9, GentleOn
    <3>6. u.f.ptr + ofs = ofs
      BY <2>2, <2>10
    <3>7. t.res = "ok" => t.f.ptr <= ofs /\ t.f.ptr # 0
      BY <3>4, <3>6
    <3> QED  BY <3>5, <3>7, <1>4 DEF Sought
  <2> QED  BY <2>6, <2>7, <2>8
<1> QED  BY <1>2, <1>3, <1>4

\* A file that has become longer has a text that goes on with anything.
LEMMA StretchedText ==
    ASSUME NEW V, NEW f, NEW g, g.first = f.first, g.sect = f.sect, g.buf = f.buf, g.dirty = f.dirty,
           f.size \in Nat, g.size \in Nat, NEW x, Reads(V, f, x), NEW z, IsText(z, g.size),
           \A i \in 1..g.size : IF i <= f.size THEN z[i] = x[i] ELSE z[i] = AnyContent
    PROVE  Reads(V, g, z)
<1>1. SUFFICES ASSUME NEW k \in Nat, NEW q \in [1..k -> Clusters], Walk(Tab(V), f.first, q, k)
               PROVE  BytesBy(V, g, z, k, q)
  BY DEF Reads
<1>2. BytesBy(V, f, x, k, q)
  BY <1>1 DEF Reads
<1>3. ASSUME NEW i \in 1..k, NEW j \in 1..SectorSize, Pos(i, j) <= g.size, z[Pos(i, j)] # AnyContent
      PROVE  ByteAt(V, g, q[i], j, z[Pos(i, j)])
  <2>1. i \in Nat \ {0}
    OBVIOUS
  <2>2. Pos(i, j) \in Nat \ {0}
    BY <2>1, PosFacts, Zenon
  <2>3. PICK p : p = Pos(i, j)
    OBVIOUS
  <2>4. p \in 1..g.size
    BY <2>2, <2>3, <1>3
  <2>5. p <= f.size /\ z[p] = x[p]
    BY <2>3, <2>4, <1>3
  <2>6. ByteAt(V, f, q[i], j, x[p])
    BY <2>3, <2>5, <1>2, <1>3 DEF BytesBy
  <2> QED  BY <2>3, <2>5, <2>6 DEF ByteAt
<1> QED  BY <1>3 DEF BytesBy

\* A seek past the end makes the file longer.
Stretches(s, t, Q, to) ==
    /\ t.res = "ok" /\ t.f.modified /\ s.f.size \in Nat /\ t.f.size \in Nat /\ s.f.size < t.f.size /\ t.f.size <= to
    /\ Calm(s, t, Clusters, Q, Names)
    /\ Owns(Tab(Seen(s)), s.f) => Owns(Tab(Seen(t)), t.f)
    /\ \A x, z : /\ Reads(Seen(s), s.f, x) /\ IsText(z, t.f.size)
                 /\ \A i \in 1..t.f.size : IF i <= s.f.size THEN z[i] = x[i] ELSE z[i] = AnyContent
                 => Reads(Seen(t), t.f, z)

\* What is after a seek.
LEMMA StretchesOn ==
    ASSUME NEW s, NEW L \in SUBSET Names, NEW F, IsFiles(F), NEW n \in Names,
           NEW u, NEW Q, Gentle(s, u, Q), Busy(u, L, F, n), u.f.err = "ok", u.res = "ok", u.f.size < u.f.ptr,
           NEW to \in Nat, u.f.ptr <= to, NEW t, t = EndedAt(u)
    PROVE  Stretches(s, t, Q, to)
<1>1. /\ Torn(u, L, F, n) /\ Base(u) /\ IsFile(u.f, n) /\ u.f.ptr \in Nat /\ u.f.size \in Nat
      /\ FileOK(Tab(Seen(u)), u.f)
  BY BusyTorn, TornFacts DEF Torn
<1>2. PICK g : g = Ending(u.f)
  OBVIOUS
<1>3. /\ g.first = u.f.first /\ g.size = u.f.ptr /\ g.ptr = u.f.ptr
      /\ g.sect = u.f.sect /\ g.dirty = u.f.dirty /\ g.buf = u.f.buf /\ g.modified
  BY <1>1, <1>2 DEF Ending, IsFile, Shaped
<1>4. t = Having(u, g)
  BY <1>1, <1>2, Zenon DEF EndedAt, Ending, Having, Base, IsState, IsFile, Shaped
<1>5. t.f = g /\ t.res = "ok" /\ Seen(t) = Seen(u) /\ t.media = u.media
  BY <1>1, <1>4, HavingFacts
<1>6. Calm(s, t, Clusters, Q, Names)
  <2>1. Calm(s, u, Clusters, Q, Names)
    BY DEF Gentle
  <2>2. t = [u EXCEPT !.f = g]
    BY <1>4 DEF Having
  <2>3. Calm(u, t, Clusters, Q, Names)
    BY <2>2, <1>1, CalmSetFile
  <2> QED  BY <2>1, <2>3, CalmOn
<1>7. u.f.size = s.f.size /\ Faithful(s, u)
  BY DEF Gentle
<1>8. Owns(Tab(Seen(s)), s.f) => Owns(Tab(Seen(t)), t.f)
  BY <1>3, <1>5, <1>7 DEF Faithful, Owns
<1>9. ASSUME NEW x, NEW z, Reads(Seen(s), s.f, x), IsText(z, t.f.size),
             \A i \in 1..t.f.size : IF i <= s.f.size THEN z[i] = x[i] ELSE z[i] = AnyContent
      PROVE  Reads(Seen(t), t.f, z)
  <2>1. Reads(Seen(u), u.f, x)
    BY <1>7, <1>9 DEF Faithful
  <2>2. PICK V : V = Seen(u)
    OBVIOUS
  <2>3. PICK f : f = u.f
    OBVIOUS
  <2>4. /\ g.first = f.first /\ g.sect = f.sect /\ g.buf = f.buf /\ g.dirty = f.dirty
        /\ f.size \in Nat /\ g.size \in Nat /\ Reads(V, f, x) /\ IsText(z, g.size)
        /\ \A i \in 1..g.size : IF i <= f.size THEN z[i] = x[i] ELSE z[i] = AnyContent
    BY <2>1, <2>2, <2>3, <1>1, <1>3, <1>5, <1>7, <1>9
  <2>5. Reads(V, g, z)
    BY <2>4, StretchedText
  <2> QED  BY <2>2, <2>5, <1>5
<1>10. t.f.size \in Nat /\ s.f.size < t.f.size /\ t.f.size <= to /\ s.f.size \in Nat
  BY <1>1, <1>3, <1>5, <1>7
<1> QED  BY <1>3, <1>5, <1>6, <1>8, <1>9, <1>10 DEF Stretches

\* The ways through f_lseek.
SeekWays(s, t, to) ==
    \E ofs, x :
        /\ ofs = IF s.f.write THEN to ELSE Min2(to, s.f.size)
        /\ t = IF x.res # "ok" THEN [x EXCEPT !.f.err = x.res] ELSE x
        /\ \E c \in SeekChain(s, ofs) :
              /\ c.res # "ok" => x = c
              /\ c.res = "ok" => \E u \in IF c.f.ptr % SectorSize = 0 THEN {c} ELSE ShowCluster(c) :
                    /\ u.res # "ok" => x = u
                    /\ u.res = "ok" => x = IF u.f.ptr > u.f.size THEN EndedAt(u) ELSE u

\* It goes one of them.
LEMMA SeekInWays ==
    ASSUME NEW s, s.f.err = "ok", NEW to, NEW t \in f_lseek(s, to)
    PROVE  SeekWays(s, t, to)
<1>1. PICK ofs : ofs = IF s.f.write THEN to ELSE Min2(to, s.f.size)
  OBVIOUS
<1>2. PICK x \in Then(SeekChain(s, ofs), LAMBDA c :
             Then(IF c.f.ptr % SectorSize = 0 THEN {c} ELSE ShowCluster(c),
                  LAMBDA u : {IF u.f.ptr > u.f.size THEN EndedAt(u) ELSE u})) :
             t = IF x.res # "ok" THEN [x EXCEPT !.f.err = x.res] ELSE x
  BY <1>1, Zenon DEF f_lseek, Abort, EndedAt
<1>3. \E c \in SeekChain(s, ofs) :
                 /\ c.res # "ok" => x = c
                 /\ c.res = "ok" => \E u \in IF c.f.ptr % SectorSize = 0 THEN {c} ELSE ShowCluster(c) :
                       /\ u.res # "ok" => x = u
                       /\ u.res = "ok" => x = IF u.f.ptr > u.f.size THEN EndedAt(u) ELSE u
  BY <1>2 DEF Then
<1>4. t = IF x.res # "ok" THEN [x EXCEPT !.f.err = x.res] ELSE x
  BY <1>2, Zenon
<1> HIDE <1>2
<1> QED  BY <1>1, <1>3, <1>4, Zenon DEF SeekWays

\* The buffer comes to show the cluster a seek ended in.
LEMMA SoughtShown ==
    ASSUME NEW s, NEW L \in SUBSET Names, NEW F, IsFiles(F), NEW n \in Names, Landed(s, L, F, n),
           s.res = "ok", NEW t \in IF s.f.ptr % SectorSize = 0 THEN {s} ELSE ShowCluster(s),
           NEW Q, DirtyOut(s.f, Q)
    PROVE  Gentle(s, t, Q) /\ t.f.ptr = s.f.ptr /\ t.f.first = s.f.first
           /\ (s.f.ptr = 0 => t = s)
<1>1. /\ Torn(s, L, F, n) /\ (s.f.ptr = 0 \/ Sits(Tab(Seen(s)), s.f)) /\ s.f.ptr \in Nat /\ Base(s)
  BY TornFacts DEF Landed
<1>2. CASE s.f.ptr % SectorSize = 0
  <2>1. t = s
    BY <1>2
  <2> QED  BY <2>1, <1>1, LookedSelf, GentleLooked
<1>3. CASE s.f.ptr % SectorSize # 0
  <2>1. t \in ShowCluster(s) /\ s.f.ptr # 0
    BY <1>3, ZeroMod
  <2>2. s.f.clust \in Clusters
    BY <2>1, <1>1, StandsFacts DEF Sits
  <2>3. Still(s, t)
    BY <2>1, <2>2, <1>1, Showing
  <2>4. Gentle(s, t, Q)
    BY <2>1, <2>2, <1>1, GentleShowing
  <2> QED  BY <2>1, <2>3, <2>4 DEF Still
<1> QED  BY <1>2, <1>3

\* f_lseek keeps the text of the file, or makes it longer.
LEMMA SeeksText ==
    ASSUME NEW s, NEW L \in SUBSET Names, NEW F, IsFiles(F), NEW n \in Names, Ended(s, L, F, n),
           s.res = "ok", NEW to \in Nat, NEW t \in f_lseek(s, to), NEW Q, DirtyOut(s.f, Q)
    PROVE  \/ /\ Gentle(s, t, Q) /\ (t.res = "ok" \/ ~s.f.write => t.f.first = s.f.first)
              /\ s.f.err = "ok" => t.res \in Errs
           \/ Stretches(s, t, Q, to)
<1>0. Torn(s, L, F, n) /\ Base(s) /\ Busy(s, L, F, n) /\ s.f.size \in Nat /\ Room(Tab(Seen(s)), s.f.first, s.f.size)
  BY BusyTorn, TornFacts DEF Ended
<1>1. CASE s.f.err # "ok"
  <2>1. PICK r : t = [s EXCEPT !.res = r]
    BY <1>1, Zenon DEF f_lseek, Error
  <2>2. Looked(s, t)
    BY <2>1, <1>0, SetRes
  <2>3. Gentle(s, t, Q)
    BY <2>2, GentleLooked
  <2> QED  BY <1>1, <2>2, <2>3 DEF Looked, Kept
<1>2. CASE s.f.err = "ok"
  <2>1. SeekWays(s, t, to)
    BY <1>2, SeekInWays
  <2>2. PICK ofs, x :
        /\ ofs = IF s.f.write THEN to ELSE Min2(to, s.f.size)
        /\ t = IF x.res # "ok" THEN [x EXCEPT !.f.err = x.res] ELSE x
        /\ \E c \in SeekChain(s, ofs) :
              /\ c.res # "ok" => x = c
              /\ c.res = "ok" => \E u \in IF c.f.ptr % SectorSize = 0 THEN {c} ELSE ShowCluster(c) :
                    /\ u.res # "ok" => x = u
                    /\ u.res = "ok" => x = IF u.f.ptr > u.f.size THEN EndedAt(u) ELSE u
    BY <2>1, Zenon DEF SeekWays
  <2>3. PICK c \in SeekChain(s, ofs) :
           /\ c.res # "ok" => x = c
           /\ c.res = "ok" => \E u \in IF c.f.ptr % SectorSize = 0 THEN {c} ELSE ShowCluster(c) :
                 /\ u.res # "ok" => x = u
                 /\ u.res = "ok" => x = IF u.f.ptr > u.f.size THEN EndedAt(u) ELSE u
    BY <2>2
  <2>4. ofs \in Nat /\ ofs <= to
    BY <2>2, <1>0 DEF Min2
  <2>5. Q \in SUBSET Clusters
    BY DEF DirtyOut
  <2>6. Landed(c, L, F, n) /\ Sought(s, c, Q, ofs)
    BY <2>3, <2>4, <2>5, <1>0, <1>2, SeekingChain, SoughtChain
  <2>7. Gentle(s, c, Q) /\ Torn(c, L, F, n)
    BY <2>6 DEF Sought, Landed
  <2>8. DirtyOut(c.f, Q)
    BY <2>7, GentleOut
  <2>13. ~s.f.write => s.f.first # 0 \/ ofs = 0
    BY <2>2, <1>0, NoCluster DEF Min2
  <2>10. CASE c.res # "ok"
    <3>1. x = c
      BY <2>3, <2>10
    <3>2. t.res = x.res /\ Gentle(x, t, Q)
      BY <3>1, <2>2, <2>5, <2>7, GentleErr
    <3>3. Gentle(s, t, Q)
      BY <3>1, <3>2, <2>7, GentleOn
    <3>4. ASSUME ~s.f.write PROVE t.f.first = s.f.first
      <4>1. s.f.first # 0
        BY <3>4, <2>6, <2>10, <2>13 DEF Sought
      <4> QED  BY <4>1, <3>3 DEF Gentle
    <3> QED  BY <3>1, <3>2, <3>3, <3>4, <2>6, <2>10 DEF Landed
  <2>11. CASE c.res = "ok"
    <3>1. PICK u \in IF c.f.ptr % SectorSize = 0 THEN {c} ELSE ShowCluster(c) :
                 /\ u.res # "ok" => x = u
                 /\ u.res = "ok" => x = IF u.f.ptr > u.f.size THEN EndedAt(u) ELSE u
      BY <2>3, <2>11
    <3>2. /\ Torn(u, L, F, n) /\ u.res \in Errs
          /\ u.res = "ok" => Busy(u, L, F, n) /\ u.f.err = "ok"
      BY <3>1, <2>6, <2>11, LandedShown, Zenon
    <3>3. Gentle(c, u, Q) /\ u.f.ptr = c.f.ptr /\ u.f.first = c.f.first /\ (c.f.ptr = 0 => u = c)
      BY <3>1, <2>6, <2>8, <2>11, SoughtShown
    <3>4. Gentle(s, u, Q)
      BY <3>3, <2>7, GentleOn
    <3>5. u.f.ptr \in Nat /\ u.f.size \in Nat /\ u.f.size = s.f.size
      BY <3>2, <3>4, TornFacts DEF Gentle
    <3>6. CASE u.res = "ok" /\ u.f.size < u.f.ptr
      <4>1. x = EndedAt(u)
        BY <3>1, <3>5, <3>6
      <4>2. u.f.ptr <= to
        BY <2>4, <2>6, <2>11, <3>3, <3>5 DEF Sought
      <4>3. Stretches(s, x, Q, to)
        BY <4>1, <4>2, <3>2, <3>4, <3>6, StretchesOn
      <4>4. t = x
        BY <4>3, <2>2 DEF Stretches
      <4> QED  BY <4>3, <4>4
    <3>7. CASE ~(u.res = "ok" /\ u.f.size < u.f.ptr)
      <4>1. x = u
        BY <3>1, <3>5, <3>7
      <4>2. t.res = x.res /\ Gentle(x, t, Q) /\ (t.res = "ok" => t = x)
        BY <4>1, <2>2, <2>5, <3>2, GentleErr
      <4>3. Gentle(s, t, Q)
        BY <4>1, <4>2, <3>4, GentleOn
      <4>4. ASSUME t.res = "ok" \/ ~s.f.write PROVE t.f.first = s.f.first
        <5>1. CASE s.f.first # 0
          BY <5>1, <4>3 DEF Gentle
        <5>2. CASE s.f.first = 0
          <6>1. s.f.size = 0
            BY <5>2, <1>0, NoCluster
          <6>2. CASE t.res = "ok"
            <7>1. u.res = "ok" /\ t = u
              BY <6>2, <4>1, <4>2
            <7>2. u.f.ptr = 0
              BY <7>1, <6>1, <3>5, <3>7
            <7>3. c.f.first = s.f.first
              BY <7>2, <3>3, <2>6, <2>11 DEF Sought
            <7> QED  BY <7>1, <7>3, <3>3
          <6>3. CASE t.res # "ok"
            <7>1. ofs = 0
              BY <6>3, <4>4, <5>2, <2>13
            <7>2. u = c
              BY <7>1, <3>3, <2>6 DEF Sought
            <7> QED  BY <7>2, <6>3, <4>1, <4>2, <2>11
          <6> QED  BY <6>2, <6>3
        <5> QED  BY <5>1, <5>2
      <4> QED  BY <4>1, <4>2, <4>3, <4>4, <3>2
    <3> QED  BY <3>6, <3>7
  <2> QED  BY <2>10, <2>11
<1> QED  BY <1>1, <1>2

-----------------------------------------------------------------------------
\* f_write.

\* Where no entry is changed the directory stays.
LEMMA CalmDir ==
    ASSUME NEW s, Base(s), NEW t, NEW P, NEW D, Calm(s, t, P, D, Names)
    PROVE  Seen(t)[Dir] = Seen(s)[Dir]
<1>1. PICK E, G : E = Seen(s)[Dir] /\ G = Seen(t)[Dir]
  OBVIOUS
<1>2. E \in [Names -> EntrySet] /\ G \in [Names -> EntrySet]
  BY <1>1, SafeTyped DEF Calm, Entries
<1>3. \A m \in Names : G[m] = E[m]
  BY <1>1 DEF Calm, Like
<1> QED  BY <1>1, <1>2, <1>3

\* What is watched stays so in a step that keeps the text of a file.
LEMMA WatchGentle ==
    ASSUME NEW s, Base(s), NEW t, NEW L, NEW F, NEW N, NEW Q,
           Watch(Tab(Seen(s)), Seen(s)[Dir], L, F, N, Q), Calm(s, t, Clusters, Q, Names)
    PROVE  Watch(Tab(Seen(t)), Seen(t)[Dir], L, F, N, Q)
<1>1. Q \subseteq Clusters
  BY DEF Watch
<1>2. Calm(s, t, Q, Q, Names)
  BY <1>1, CalmLess
<1>3. Seen(t)[Dir] = Seen(s)[Dir]
  BY CalmDir
<1> QED  BY <1>2, <1>3, WatchCalm

\* A text that is the same is read, too.
LEMMA SameText ==
    ASSUME NEW V, NEW f, f.size \in Nat, NEW x, Reads(V, f, x), NEW z, IsText(z, f.size),
           \A i \in 1..f.size : z[i] = x[i]
    PROVE  Reads(V, f, z)
<1>1. \A i \in 1..f.size : IF i <= f.size THEN z[i] = x[i] ELSE z[i] = AnyContent
  OBVIOUS
<1> QED  BY <1>1, StretchedText

\* The current cluster of a file is at the m-th place in its chain, and nowhere else.
OnlyAt(T, f, m) ==
    \A k \in Nat : \A q \in [1..k -> Clusters] :
        Walk(T, f.first, q, k) => \A i \in 1..k : q[i] = f.clust <=> i = m

\* It is at one place.
LEMMA PlaceOnly ==
    ASSUME NEW s, NEW L \in SUBSET Names, NEW F, IsFiles(F), NEW n \in Names, Torn(s, L, F, n),
           NEW m, Stands(Tab(Seen(s)), s.f, m)
    PROVE  OnlyAt(Tab(Seen(s)), s.f, m)
<1> SUFFICES ASSUME NEW k \in Nat, NEW q \in [1..k -> Clusters], Walk(Tab(Seen(s)), s.f.first, q, k), NEW i \in 1..k
             PROVE  q[i] = s.f.clust <=> i = m
  BY DEF OnlyAt
<1>1. m \in Nat \ {0} /\ m \in 1..m /\ k \in Nat
  BY DEF Stands, Walk
<1>2. PICK r \in [1..m -> Clusters] : Walk(Tab(Seen(s)), s.f.first, r, m) /\ r[m] = s.f.clust
  BY DEF Stands
<1>3. ASSUME i = m PROVE q[i] = s.f.clust
  <2>1. q[i] = r[i]
    BY <1>1, <1>2, <1>3, WalksAgree
  <2> QED  BY <2>1, <1>2, <1>3
<1>4. ASSUME q[i] = s.f.clust PROVE i = m
  <2>2. PICK T, E, G : T = Tab(Seen(s)) /\ E = Seen(s)[Dir] /\ G = Put(F, n, Bare(s.f))
    OBVIOUS
  <2>3. IsFile(s.f, n) /\ Base(s) /\ Sound(T, E, L, G)
    BY <2>2, TornFacts DEF Torn, Fine, Safe
  <2>4. T \in Tables
    BY <2>2, <2>3, SafeTyped
  <2>5. IsFile(Bare(s.f), n) /\ Bare(s.f).first = s.f.first
    BY <2>3, BareFacts, Zenon
  <2>6. G[n] = Bare(s.f)
    BY <2>2, PutFile
  <2>7. s.f.first \in Clusters
    BY StandsFacts
  <2>8. Claims(E, L, G, n, s.f.first)
    BY <2>5, <2>6 DEF Claims, IsFile
  <2>9. Starts(T, s.f.first) /\ Proper(T)
    BY <2>3, <2>7, <2>8 DEF Sound
  <2>10. q[i] = r[m]
    BY <1>2, <1>4
  <2> QED  BY <2>2, <2>4, <2>9, <2>10, <1>1, <1>2, WalksMeet, SMTT(60)
<1> QED  BY <1>3, <1>4

\* Text x with v written over what is after position p and up to r.
Stamped(z, x, p, r, m, v) == IsText(z, m) /\ \A i \in 1..m : z[i] = IF p < i /\ i <= r THEN v ELSE x[i]

\* There is one.
LEMMA StampedText ==
    ASSUME NEW x, NEW p, NEW r, NEW m \in Nat, NEW v
    PROVE  Stamped([i \in 1..m |-> IF p < i /\ i <= r THEN v ELSE x[i]], x, p, r, m, v)
<1>1. PICK z : z = [i \in 1..m |-> IF p < i /\ i <= r THEN v ELSE x[i]]
  BY Zenon
<1>2. PICK S : S = {z[i] : i \in 1..m}
  BY Zenon
<1>3. z \in [1..m -> S]
  BY <1>1, <1>2
<1>4. z \in Seq(S) /\ Len(z) = m
  BY <1>3, SeqDef
<1> QED  BY <1>1, <1>4 DEF Stamped, IsText

\* What a step of a write puts into the file.
Puts(s, t, Q, v) ==
    /\ Calm(s, t, Clusters, Q, Names)
    /\ Owns(Tab(Seen(s)), s.f) => Owns(Tab(Seen(t)), t.f)
    /\ t.res = "ok" =>
           /\ s.f.ptr \in Nat /\ t.f.ptr \in Nat /\ s.f.ptr <= t.f.ptr
           /\ s.f.size \in Nat /\ s.f.ptr <= s.f.size /\ t.f.size = Max2(s.f.size, t.f.ptr)
           /\ \A x, z : Reads(Seen(s), s.f, x) /\ Stamped(z, x, s.f.ptr, t.f.ptr, t.f.size, v)
                        => Reads(Seen(t), t.f, z)

\* A step before it that does not change the position.
LEMMA PutsAfter ==
    ASSUME NEW s, NEW t, NEW u, NEW Q, NEW v, Gentle(s, t, Q), Puts(t, u, Q, v), t.f.ptr = s.f.ptr
    PROVE  Puts(s, u, Q, v)
<1>1. Calm(s, u, Clusters, Q, Names)
  BY CalmOn DEF Gentle, Puts
<1>2. t.f.size = s.f.size
  BY DEF Gentle
<1>3. Owns(Tab(Seen(s)), s.f) => Owns(Tab(Seen(u)), u.f)
  BY DEF Gentle, Faithful, Puts
<1>4. \A x : Reads(Seen(s), s.f, x) => Reads(Seen(t), t.f, x)
  BY DEF Gentle, Faithful
<1> QED  BY <1>1, <1>2, <1>3, <1>4 DEF Puts

\* Nothing is put.
LEMMA PutsNone ==
    ASSUME NEW s, NEW t, NEW Q, NEW v, Gentle(s, t, Q),
           t.res # "ok" \/ (t.f.ptr = s.f.ptr /\ s.f.ptr \in Nat /\ s.f.size \in Nat /\ s.f.ptr <= s.f.size)
    PROVE  Puts(s, t, Q, v)
<1>1. Calm(s, t, Clusters, Q, Names) /\ t.f.size = s.f.size
      /\ (Owns(Tab(Seen(s)), s.f) => Owns(Tab(Seen(t)), t.f))
  BY DEF Gentle, Faithful
<1>2. CASE t.res # "ok"
  BY <1>1, <1>2 DEF Puts
<1>3. CASE t.res = "ok"
  <2>1. t.f.ptr = s.f.ptr /\ s.f.ptr \in Nat /\ s.f.size \in Nat /\ s.f.ptr <= s.f.size
    BY <1>3
  <2>2. t.f.size = Max2(s.f.size, t.f.ptr)
    BY <2>1, <1>1 DEF Max2
  <2>3. ASSUME NEW x, NEW z, Reads(Seen(s), s.f, x), Stamped(z, x, s.f.ptr, t.f.ptr, t.f.size, v)
        PROVE  Reads(Seen(t), t.f, z)
    <3>1. Reads(Seen(t), t.f, x)
      BY <2>3 DEF Gentle, Faithful
    <3>2. IsText(z, t.f.size)
      BY <2>3 DEF Stamped
    <3>3. \A i \in 1..t.f.size : z[i] = x[i]
      BY <2>1, <2>3 DEF Stamped
    <3> QED  BY <3>1, <3>2, <3>3, <2>1, <1>1, SameText
  <2> QED  BY <2>1, <2>2, <2>3, <1>1 DEF Puts
<1> QED  BY <1>2, <1>3

\* Two steps of a write make one.
LEMMA PutsOn ==
    ASSUME NEW s, NEW t, NEW u, NEW Q, NEW v, Puts(s, t, Q, v), t.res = "ok", Puts(t, u, Q, v)
    PROVE  Puts(s, u, Q, v)
<1>1. Calm(s, u, Clusters, Q, Names) /\ (Owns(Tab(Seen(s)), s.f) => Owns(Tab(Seen(u)), u.f))
  BY CalmOn DEF Puts
<1>2. CASE u.res # "ok"
  BY <1>1, <1>2 DEF Puts
<1>3. CASE u.res = "ok"
  <2>1. PICK a, b, c, k, l, m : /\ a = s.f.ptr /\ b = t.f.ptr /\ c = u.f.ptr
                                /\ k = s.f.size /\ l = t.f.size /\ m = u.f.size
    OBVIOUS
  <2>2. /\ a \in Nat /\ b \in Nat /\ c \in Nat /\ a <= b /\ b <= c /\ k \in Nat /\ l \in Nat /\ m \in Nat
        /\ a <= k /\ b <= l /\ l = Max2(k, b) /\ m = Max2(l, c)
    BY <2>1, <1>3 DEF Puts, Max2
  <2>3. m = Max2(k, c)
    BY <2>2 DEF Max2
  <2>4. ASSUME NEW x, NEW z, Reads(Seen(s), s.f, x), Stamped(z, x, a, c, m, v)
        PROVE  Reads(Seen(u), u.f, z)
    <3>1. PICK y : y = [i \in 1..l |-> IF a < i /\ i <= b THEN v ELSE x[i]]
      BY Zenon
    <3>2. Stamped(y, x, a, b, l, v)
      BY <3>1, <2>2, StampedText
    <3>3. Reads(Seen(t), t.f, y)
      BY <3>2, <2>1, <2>4 DEF Puts
    <3>4. ASSUME NEW i \in 1..m PROVE z[i] = IF b < i /\ i <= c THEN v ELSE y[i]
      <4>1. z[i] = IF a < i /\ i <= c THEN v ELSE x[i]
        BY <2>4 DEF Stamped
      <4>2. i \in 1..l => y[i] = IF a < i /\ i <= b THEN v ELSE x[i]
        BY <3>1
      <4>3. ~(b < i /\ i <= c) => i \in 1..l
        BY <2>2 DEF Max2
      <4> QED  BY <4>1, <4>2, <4>3, <2>2
    <3>5. Stamped(z, y, b, c, m, v)
      BY <3>4, <2>4 DEF Stamped
    <3> QED  BY <3>3, <3>5, <2>1, <1>3 DEF Puts
  <2> QED  BY <2>1, <2>2, <2>3, <2>4, <1>1 DEF Puts
<1> QED  BY <1>2, <1>3

\* File g on W is file f on V with v written from p to r, in the m-th cluster, c, of its chain.
Stamps(V, f, W, g, m, c, p, r, v) ==
    /\ Tab(W) = Tab(V) /\ g.first = f.first
    /\ p \in Nat /\ r \in Nat /\ SectorSize * (m - 1) <= p /\ p <= r /\ r <= SectorSize * m
    /\ f.size \in Nat /\ p <= f.size /\ g.size = Max2(f.size, r)
    /\ c = f.clust /\ OnlyAt(Tab(V), f, m)
    /\ \A e \in Clusters, j \in 1..SectorSize : \A w : e # c /\ ByteAt(V, f, e, j, w) => ByteAt(W, g, e, j, w)
    /\ \A j \in 1..SectorSize :
           IF p < Pos(m, j) /\ Pos(m, j) <= r THEN ByteAt(W, g, c, j, v)
           ELSE \A w : ByteAt(V, f, c, j, w) => ByteAt(W, g, c, j, w)

\* It is x with v written over it.
LEMMA StampText ==
    ASSUME NEW V, NEW f, NEW W, NEW g, NEW m \in Nat \ {0}, NEW c, NEW p, NEW r, NEW v,
           Stamps(V, f, W, g, m, c, p, r, v), NEW x, NEW z, Reads(V, f, x), Stamped(z, x, p, r, g.size, v)
    PROVE  Reads(W, g, z)
<1>0. /\ Tab(W) = Tab(V) /\ g.first = f.first
      /\ p \in Nat /\ r \in Nat /\ SectorSize * (m - 1) <= p /\ p <= r /\ r <= SectorSize * m
      /\ f.size \in Nat /\ p <= f.size /\ g.size = Max2(f.size, r)
      /\ \A k \in Nat : \A q \in [1..k -> Clusters] :
             Walk(Tab(V), f.first, q, k) => \A i \in 1..k : q[i] = c <=> i = m
      /\ \A e \in Clusters, j \in 1..SectorSize : \A w : e # c /\ ByteAt(V, f, e, j, w) => ByteAt(W, g, e, j, w)
      /\ \A j \in 1..SectorSize :
             IF p < Pos(m, j) /\ Pos(m, j) <= r THEN ByteAt(W, g, c, j, v)
             ELSE \A w : ByteAt(V, f, c, j, w) => ByteAt(W, g, c, j, w)
  BY DEF Stamps, OnlyAt
<1>1. IsText(z, g.size)
  BY DEF Stamped
<1>2. ASSUME NEW k \in Nat, NEW q \in [1..k -> Clusters], Walk(Tab(W), g.first, q, k),
             NEW i \in 1..k, NEW j \in 1..SectorSize, Pos(i, j) <= g.size, z[Pos(i, j)] # AnyContent
      PROVE  ByteAt(W, g, q[i], j, z[Pos(i, j)])
  <2>0. i \in Nat \ {0} /\ q[i] \in Clusters
    OBVIOUS
  <2>1. PICK a : a = Pos(i, j)
    OBVIOUS
  <2>2. a \in Nat \ {0} /\ (i < m => a <= SectorSize * (m - 1)) /\ (m < i => SectorSize * m < a)
    BY <2>0, <2>1, PosFacts, Zenon
  <2>3. Walk(Tab(V), f.first, q, k) /\ (q[i] = c <=> i = m)
    BY <1>0, <1>2
  <2>4. BytesBy(V, f, x, k, q)
    BY <2>3 DEF Reads
  <2>5. z[a] = IF p < a /\ a <= r THEN v ELSE x[a]
    BY <1>0, <2>1, <2>2, <1>2 DEF Stamped, Max2
  <2>6. CASE p < a /\ a <= r
    <3>1. PICK A, B : A = SectorSize * (m - 1) /\ B = SectorSize * m
      OBVIOUS
    <3>2. A \in Nat /\ B \in Nat /\ A <= p /\ r <= B
      <4>1. m - 1 \in Nat /\ SectorSize \in Nat
        BY VolumeAssumption
      <4>2. \A y, w \in Nat : y * w \in Nat
        OBVIOUS
      <4> QED  BY <1>0, <3>1, <4>1, <4>2
    <3>3. i = m
      <4>3. p \in Nat /\ r \in Nat
        BY <1>0
      <4>1. ~(i < m)
        BY <4>3, <3>1, <3>2, <2>2, <2>6
      <4>2. ~(m < i)
        BY <4>3, <3>1, <3>2, <2>2, <2>6
      <4> QED  BY <4>1, <4>2, <2>0
    <3>4. q[i] = c /\ ByteAt(W, g, c, j, v)
      BY <1>0, <3>3, <2>1, <2>3, <2>6
    <3> QED  BY <3>4, <2>1, <2>5, <2>6
  <2>7. CASE ~(p < a /\ a <= r)
    <3>1. z[a] = x[a] /\ a <= f.size
      BY <1>0, <2>1, <2>2, <2>5, <2>7, <1>2 DEF Max2
    <3>2. ByteAt(V, f, q[i], j, x[a])
      BY <3>1, <2>1, <2>4, <1>2 DEF BytesBy
    <3>3. CASE i = m
      BY <1>0, <3>1, <3>2, <3>3, <2>1, <2>3, <2>7
    <3>4. CASE i # m
      BY <1>0, <3>1, <3>2, <3>4, <2>0, <2>1, <2>3
    <3> QED  BY <3>3, <3>4
  <2> QED  BY <2>6, <2>7
<1>3. \A k \in Nat : \A q \in [1..k -> Clusters] : Walk(Tab(W), g.first, q, k) => BytesBy(W, g, z, k, q)
  BY <1>2 DEF BytesBy
<1> QED  BY <1>1, <1>3 DEF Reads

\* A file with other fields, on the volume as it is.
LEMMA FilePut ==
    ASSUME NEW s, Base(s), NEW g, NEW t, t = [s EXCEPT !.f = g], NEW Q
    PROVE  Calm(s, t, Clusters, Q, Names) /\ t.f = g /\ Seen(t) = Seen(s)
<1>1. Calm(s, t, Clusters, Q, Names) /\ t.f = g /\ Base(t) /\ Seen(t) = Seen(s) /\ t.res = s.res
  BY CalmSetFile
<1> QED  BY <1>1

\* The fields of a file after k more bytes that say what is in it.
LEMMA OnwardBytes ==
    ASSUME NEW f, Shaped(f), NEW b, NEW d, NEW k, NEW g, g = Onward(f, b, d, k)
    PROVE  /\ g.first = f.first /\ g.sect = f.sect /\ g.dirty = d /\ g.buf = b /\ g.ptr = f.ptr + k
           /\ g.size = Max2(f.size, f.ptr + k)
  BY DEF Shaped, Onward

\* WritePart puts bytes into the file.
LEMMA PutsPart ==
    ASSUME NEW s, NEW L \in SUBSET Names, NEW F, IsFiles(F), NEW n \in Names, Torn(s, L, F, n),
           NEW m \in Nat \ {0}, Stands(Tab(Seen(s)), s.f, m), SectorSize * (m - 1) <= s.f.ptr,
           s.f.ptr < SectorSize * m, s.f.sect = s.f.clust, s.f.ptr <= s.f.size,
           NEW v, NEW bytes \in Seq({v}), bytes # <<>>, NEW t, t = WritePart(s, bytes),
           NEW Q \in SUBSET Clusters
    PROVE  Puts(s, t, Q, v)
<1> DEFINE at == s.f.ptr % SectorSize
           k == Min2(SectorSize - at, Len(bytes))
           b == [i \in 1..SectorSize |-> IF i - at \in 1..k THEN bytes[i - at] ELSE s.f.buf[i]]
<1>1. Base(s) /\ s.f.ptr \in Nat /\ s.f.size \in Nat /\ s.f.clust \in Clusters /\ IsFile(s.f, n)
  BY TornFacts, StandsFacts, Zenon DEF Torn
<1>2. Len(bytes) \in Nat \ {0}
  BY EmptySeq
<1>3. k \in Nat \ {0} /\ k <= Len(bytes) /\ Within(s.f.ptr + k, m)
  BY <1>1, <1>2, RestOfSector
<1>4. t = Having(s, Onward(s.f, b, TRUE, k))
  <2>1. t = Advance([s EXCEPT !.f.buf = b, !.f.dirty = TRUE], k)
    BY DEF WritePart
  <2>2. IsState(s) /\ Shaped(s.f)
    BY <1>1 DEF Base, IsFile
  <2> HIDE DEF b, k
  <2> QED  BY <2>1, <2>2, Zenon DEF Advance, Having, Onward, IsState, Shaped
<1>5. at = s.f.ptr - SectorSize * (m - 1)
  BY <1>1, SectorPlace
<1>6. \A j \in 1..SectorSize : b[j] = IF j - at \in 1..k THEN v ELSE s.f.buf[j]
  <2>1. \A i \in 1..Len(bytes) : bytes[i] = v
    OBVIOUS
  <2>2. at \in Nat
    BY <1>1, VolumeAssumption, SMTT(60)
  <2>3. ASSUME NEW j \in 1..SectorSize PROVE b[j] = IF j - at \in 1..k THEN v ELSE s.f.buf[j]
    <3>1. b[j] = IF j - at \in 1..k THEN bytes[j - at] ELSE s.f.buf[j]
      OBVIOUS
    <3>2. j - at \in 1..k => j - at \in 1..Len(bytes)
      BY <1>2, <1>3, <2>2
    <3> QED  BY <3>1, <3>2, <2>1
  <2> QED  BY <2>3
<1> HIDE DEF at, k, b
<1>7. PICK g : g = Onward(s.f, b, TRUE, k)
  BY Zenon
<1>8. /\ g.first = s.f.first /\ g.sect = s.f.clust /\ g.dirty /\ g.buf = b /\ g.ptr = s.f.ptr + k
      /\ g.size = Max2(s.f.size, s.f.ptr + k)
  <2>1. PICK f, d : f = s.f /\ d = TRUE
    OBVIOUS
  <2>2. Shaped(f) /\ g = Onward(f, b, d, k)
    BY <2>1, <1>1, <1>7 DEF IsFile
  <2>3. /\ g.first = f.first /\ g.sect = f.sect /\ g.dirty = d /\ g.buf = b /\ g.ptr = f.ptr + k
        /\ g.size = Max2(f.size, f.ptr + k)
    BY <2>2, OnwardBytes
  <2> QED  BY <2>1, <2>3
<1>9. t = [s EXCEPT !.f = g]
  BY <1>4, <1>7 DEF Having
<1>10. Calm(s, t, Clusters, Q, Names) /\ t.f = g /\ Seen(t) = Seen(s)
  BY <1>1, <1>9, FilePut, Zenon
<1>11. PICK V, f, p, r : V = Seen(s) /\ f = s.f /\ p = s.f.ptr /\ r = s.f.ptr + k
  BY Zenon
<1>12. Owns(Tab(Seen(t)), t.f)
  <2>1. \E q \in [1..m -> Clusters] : Walk(Tab(V), g.first, q, m) /\ q[m] = g.sect
    BY <1>8, <1>11 DEF Stands
  <2> QED  BY <2>1, <1>10, <1>11 DEF Owns
<1>13. /\ p \in Nat /\ r \in Nat /\ SectorSize * (m - 1) <= p /\ p <= r /\ r <= SectorSize * m
       /\ f.size \in Nat /\ p <= f.size /\ g.size = Max2(f.size, r) /\ g.first = f.first
  BY <1>1, <1>3, <1>8, <1>11 DEF Within
<1>14. OnlyAt(Tab(V), f, m)
  <2>1. OnlyAt(Tab(Seen(s)), s.f, m)
    BY PlaceOnly, Zenon
  <2> QED  BY <2>1, <1>11
<1>15. \A e \in Clusters, j \in 1..SectorSize : \A w : e # f.clust /\ ByteAt(V, f, e, j, w) => ByteAt(V, g, e, j, w)
  BY <1>8, <1>11 DEF ByteAt
<1>16. ASSUME NEW j \in 1..SectorSize
       PROVE  IF p < Pos(m, j) /\ Pos(m, j) <= r THEN ByteAt(V, g, f.clust, j, v)
              ELSE \A w : ByteAt(V, f, f.clust, j, w) => ByteAt(V, g, f.clust, j, w)
  <2>1. PICK a, c : a = Pos(m, j) /\ c = SectorSize * (m - 1)
    OBVIOUS
  <2>2. a = c + j /\ c \in Nat /\ at = p - c
    BY <2>1, <1>5, <1>11, PosFacts DEF Pos
  <2>3. p < a /\ a <= r <=> j - at \in 1..k
    BY <2>2, <1>1, <1>3, <1>11, SMTT(60)
  <2>4. \A w : ByteAt(V, g, f.clust, j, w) <=> b[j] = w
    BY <1>8, <1>11 DEF ByteAt
  <2>5. \A w : ByteAt(V, f, f.clust, j, w) => s.f.buf[j] = w
    BY <1>11 DEF ByteAt
  <2> QED  BY <2>1, <2>3, <2>4, <2>5, <1>6
<1>17. ASSUME NEW x, NEW z, Reads(V, f, x), Stamped(z, x, p, r, g.size, v) PROVE Reads(V, g, z)
  <2>1. PICK c : c = f.clust
    OBVIOUS
  <2>2. Stamps(V, f, V, g, m, c, p, r, v)
    BY <2>1, <1>13, <1>14, <1>15, <1>16 DEF Stamps
  <2> QED  BY <2>2, <1>17, StampText
<1> QED  BY <1>3, <1>8, <1>10, <1>11, <1>12, <1>13, <1>17 DEF Puts

\* WriteSector puts a whole sector of bytes into the file.
LEMMA PutsSector ==
    ASSUME NEW s, NEW L \in SUBSET Names, NEW F, IsFiles(F), NEW n \in Names, Torn(s, L, F, n),
           s.res = "ok", Ahead(Tab(Seen(s)), s.f), s.f.ptr <= s.f.size,
           NEW v, NEW bytes \in Seq({v}), SectorSize <= Len(bytes), NEW t \in WriteSector(s, bytes),
           NEW Q, Q \subseteq Clusters \ {s.f.clust}
    PROVE  Puts(s, t, Q, v)
<1>1. PICK m \in Nat \ {0} : Stands(Tab(Seen(s)), s.f, m) /\ s.f.ptr = SectorSize * (m - 1)
  BY DEF Ahead
<1>2. /\ IsFile(s.f, n) /\ s.f.clust \in Clusters /\ Base(s) /\ s.f.ptr \in Nat /\ s.f.size \in Nat
  BY <1>1, StandsFacts, TornFacts, Zenon DEF Torn
<1> DEFINE whole == SubSeq(bytes, 1, SectorSize)
<1>3. PICK u \in DiskWrite(s, s.f.clust, whole) :
         /\ u.res # "ok" => t = u
         /\ u.res = "ok" /\ u.f.sect = u.f.clust =>
                t = Advance([u EXCEPT !.f.buf = whole, !.f.dirty = FALSE], SectorSize)
         /\ u.res = "ok" /\ u.f.sect # u.f.clust => t = Advance(u, SectorSize)
  BY Zenon DEF WriteSector, Then
<1>4. SectorSize \in Nat \ {0} /\ Len(bytes) \in Nat
  BY VolumeAssumption, LenProperties
<1>5. \A j \in 1..SectorSize : whole[j] = v
  <2>1. \A i \in 1..Len(bytes) : bytes[i] = v
    OBVIOUS
  <2>2. whole = [j \in 1..SectorSize |-> bytes[j]]
    BY <1>4
  <2> QED  BY <2>1, <2>2, <1>4
<1> HIDE DEF whole
<1>6. /\ Calm(s, u, Clusters, Q, Names)
      /\ \A e \in Clusters : Seen(u)[e] = IF u.res = "ok" /\ e = s.f.clust THEN whole ELSE Seen(s)[e]
  BY <1>2, CalmStoring
<1>7. /\ Base(u) /\ u.f = s.f /\ Tab(Seen(u)) = Tab(Seen(s)) /\ u.res \in {"ok", "disk_err"}
  BY <1>2, WritingData DEF Kept
<1>8. IsState(u) /\ Shaped(u.f)
  BY <1>2, <1>7 DEF Base, IsFile
<1>9. CASE u.res # "ok"
  <2>1. t = u /\ t.res # "ok"
    BY <1>3, <1>9
  <2> QED  BY <2>1, <1>6, <1>7 DEF Puts
<1>10. CASE u.res = "ok"
  <2>1. PICK b, d : /\ t = Having(u, Onward(u.f, b, d, SectorSize))
                    /\ s.f.sect = s.f.clust => b = whole /\ ~d
                    /\ s.f.sect # s.f.clust => b = s.f.buf /\ d = s.f.dirty
    <3>1. CASE u.f.sect = u.f.clust
      <4>1. t = Advance([u EXCEPT !.f.buf = whole, !.f.dirty = FALSE], SectorSize)
        BY <1>3, <1>10, <3>1
      <4>2. t = Having(u, Onward(u.f, whole, FALSE, SectorSize))
        BY <4>1, <1>8, Zenon DEF Advance, Having, Onward, IsState, Shaped
      <4> QED  BY <4>2, <3>1, <1>7, Zenon
    <3>2. CASE u.f.sect # u.f.clust
      <4>1. t = Advance(u, SectorSize)
        BY <1>3, <1>10, <3>2
      <4>2. t = Having(u, Onward(u.f, u.f.buf, u.f.dirty, SectorSize))
        BY <4>1, <1>8, ZenonT(60) DEF Advance, Having, Onward, IsState, Shaped
      <4> QED  BY <4>2, <3>2, <1>7
    <3> QED  BY <3>1, <3>2
  <2>2. PICK g : g = Onward(u.f, b, d, SectorSize)
    OBVIOUS
  <2>3. PICK V, W, f, p, r : V = Seen(s) /\ W = Seen(u) /\ f = s.f /\ p = s.f.ptr /\ r = s.f.ptr + SectorSize
    BY Zenon
  <2>4. /\ g.first = f.first /\ g.sect = f.sect /\ g.dirty = d /\ g.buf = b /\ g.ptr = r
        /\ g.size = Max2(f.size, r)
    BY <1>7, <1>8, <2>2, <2>3, OnwardBytes
  <2>5. t = [u EXCEPT !.f = g]
    BY <2>1, <2>2 DEF Having
  <2>6. Calm(u, t, Clusters, Q, Names) /\ t.f = g /\ Seen(t) = W
    <3>2. Base(u)
      BY <1>7
    <3>3. Calm(u, t, Clusters, Q, Names) /\ t.f = g /\ Seen(t) = Seen(u)
      BY <3>2, <2>5, FilePut, Zenon
    <3> QED  BY <3>3, <2>3
  <2>7. Calm(s, t, Clusters, Q, Names)
    BY <2>6, <1>6, CalmOn
  <2>8. Owns(Tab(V), f) => Owns(Tab(W), g)
    BY <2>1, <2>3, <2>4, <1>7, Zenon DEF Owns
  <2>9. SectorSize * m = SectorSize * (m - 1) + SectorSize
    <3>1. 1 \in 1..SectorSize
      BY <1>4
    <3> QED  BY <3>1, PosFacts
  <2>10. /\ p \in Nat /\ r \in Nat /\ SectorSize * (m - 1) <= p /\ p <= r /\ r <= SectorSize * m
         /\ f.size \in Nat /\ p <= f.size /\ g.size = Max2(f.size, r) /\ Tab(W) = Tab(V)
    BY <1>1, <1>2, <1>4, <1>7, <2>3, <2>4, <2>9
  <2>11. OnlyAt(Tab(V), f, m)
    <3>1. OnlyAt(Tab(Seen(s)), s.f, m)
      BY <1>1, PlaceOnly, Zenon
    <3> QED  BY <3>1, <2>3
  <2>12. \A e \in Clusters : W[e] = IF e = f.clust THEN whole ELSE V[e]
    BY <2>3, <1>6, <1>10
  <2>13. \A e \in Clusters, j \in 1..SectorSize : \A w : e # f.clust /\ ByteAt(V, f, e, j, w) => ByteAt(W, g, e, j, w)
    BY <2>1, <2>3, <2>4, <2>12 DEF ByteAt
  <2>14. \A j \in 1..SectorSize : ByteAt(W, g, f.clust, j, v)
    <3>1. f.clust \in Clusters /\ W[f.clust] = whole
      BY <2>3, <2>12, <1>2
    <3> QED  BY <3>1, <2>1, <2>3, <2>4, <1>5 DEF ByteAt
  <2>15. ASSUME NEW j \in 1..SectorSize PROVE p < Pos(m, j) /\ Pos(m, j) <= r
    BY <2>3, <2>9, <1>1, PosFacts
  <2>16. ASSUME NEW x, NEW z, Reads(V, f, x), Stamped(z, x, p, r, g.size, v) PROVE Reads(W, g, z)
    <3>1. PICK c : c = f.clust
      OBVIOUS
    <3>2. Stamps(V, f, W, g, m, c, p, r, v)
      BY <3>1, <2>4, <2>10, <2>11, <2>13, <2>14, <2>15 DEF Stamps
    <3> QED  BY <3>2, <2>16, StampText
  <2> QED  BY <2>3, <2>4, <2>6, <2>7, <2>8, <2>10, <2>16 DEF Puts
<1> QED  BY <1>9, <1>10

\* FillBuf.
LEMMA GentleFill ==
    ASSUME NEW s, NEW L \in SUBSET Names, NEW F, IsFiles(F), NEW n \in Names, Torn(s, L, F, n),
           s.res = "ok", ~s.f.dirty, Ahead(Tab(Seen(s)), s.f), s.f.ptr <= s.f.size,
           NEW t \in FillBuf(s), NEW Q
    PROVE  Gentle(s, t, Q)
<1>1. PICK m \in Nat \ {0} : Stands(Tab(Seen(s)), s.f, m) /\ s.f.ptr = SectorSize * (m - 1)
  BY DEF Ahead
<1>2. /\ IsFile(s.f, n) /\ s.f.clust \in Clusters /\ Base(s) /\ s.f.ptr \in Nat /\ s.f.size \in Nat
  BY <1>1, StandsFacts, TornFacts, Zenon DEF Torn
<1>3. PICK u \in IF s.f.sect # s.f.clust /\ s.f.ptr < s.f.size THEN LoadBuf(s, s.f.clust) ELSE {s} :
           t = [u EXCEPT !.f.sect = IF u.res = "ok" THEN s.f.clust ELSE @]
  BY DEF FillBuf
<1>4. CASE u \in Fail(s)
  <2>1. Looked(s, u) /\ u.res = "disk_err"
    BY <1>2, <1>4, Failing
  <2>2. Gentle(s, u, Q)
    BY <2>1, GentleLooked
  <2>3. IsState(u) /\ Shaped(u.f)
    BY <2>1, <1>2 DEF Looked, Base, Kept, IsFile
  <2>4. t = u
    BY <2>1, <2>3, <1>3 DEF IsState, Shaped
  <2> QED  BY <2>2, <2>4
<1>5. CASE u \notin Fail(s) /\ s.f.sect = s.f.clust
  <2>1. u = s
    BY <1>3, <1>5
  <2>2. t = s
    BY <2>1, <1>2, <1>3, <1>5 DEF Base, IsState, IsFile, Shaped
  <2> QED  BY <2>2, <1>2, LookedSelf, GentleLooked
<1>6. CASE u \notin Fail(s) /\ s.f.sect # s.f.clust /\ s.f.ptr < s.f.size
  <2>1. u = [s EXCEPT !.f.buf = s.disk[s.f.clust]]
    BY <1>3, <1>6 DEF LoadBuf
  <2>2. u.res = "ok"
    BY <2>1, <1>2 DEF Base, IsState
  <2>3. t = Having(s, Shows(s.f, s.disk[s.f.clust], s.f.clust))
    BY <2>1, <2>2, <1>2, <1>3, Zenon DEF Having, Shows, Base, IsState, IsFile, Shaped
  <2> QED  BY <2>3, <1>2, GentleShown, Zenon
<1>7. CASE u \notin Fail(s) /\ s.f.sect # s.f.clust /\ ~(s.f.ptr < s.f.size)
  <2>1. u = s /\ s.f.ptr = s.f.size
    BY <1>2, <1>3, <1>7
  <2>2. PICK c : c = s.f.clust
    OBVIOUS
  <2>3. PICK V, g : V = Seen(s) /\ g = Shows(s.f, s.f.buf, c)
    OBVIOUS
  <2>4. t = [s EXCEPT !.f = g]
    BY <2>1, <2>2, <2>3, <1>2, <1>3, Zenon DEF Shows, Base, IsState, IsFile, Shaped
  <2>5. /\ g.size = s.f.size /\ g.sect = c /\ g.dirty = s.f.dirty
        /\ g.first = s.f.first /\ g.modified = s.f.modified
    BY <1>2, <2>3, BufferFacts DEF IsFile
  <2>6. Calm(s, t, Clusters, Q, Names) /\ t.f = g /\ Seen(t) = V
    BY <1>2, <2>3, <2>4, FilePut
  <2>7. ASSUME NEW x, Reads(V, s.f, x), NEW k \in Nat, NEW q \in [1..k -> Clusters], Walk(Tab(V), g.first, q, k),
               NEW i \in 1..k, NEW j \in 1..SectorSize, Pos(i, j) <= g.size, x[Pos(i, j)] # AnyContent
        PROVE  ByteAt(V, g, q[i], j, x[Pos(i, j)])
    <3>1. Walk(Tab(V), s.f.first, q, k)
      BY <2>5, <2>7
    <3>5. i \in Nat \ {0}
      OBVIOUS
    <3>9. Walk(Tab(Seen(s)), s.f.first, q, k)
      BY <3>1, <2>3
    <3>8. OnlyAt(Tab(Seen(s)), s.f, m)
      BY <1>1, PlaceOnly, Zenon
    <3>2. q[i] = c <=> i = m
      BY <3>8, <3>9, <2>2 DEF OnlyAt
    <3>3. BytesBy(V, s.f, x, k, q)
      BY <3>1, <2>7 DEF Reads
    <3>4. ByteAt(V, s.f, q[i], j, x[Pos(i, j)])
      BY <3>3, <2>5, <2>7 DEF BytesBy
    <3>6. Pos(i, j) \in Nat /\ SectorSize * (i - 1) \in Nat /\ SectorSize * (i - 1) < Pos(i, j)
      BY <3>5, PosFacts, Zenon
    <3>7. i # m
      <4>1. SUFFICES ASSUME i = m PROVE FALSE
        OBVIOUS
      <4>2. SectorSize * (m - 1) < Pos(i, j)
        BY <3>6, <4>1
      <4> QED  BY <4>2, <3>6, <2>1, <2>5, <2>7, <1>1, <1>2
    <3> QED  BY <3>2, <3>4, <3>7, <2>5 DEF ByteAt
  <2>8. ASSUME NEW x, Reads(V, s.f, x) PROVE Reads(V, g, x)
    <3>1. IsText(x, g.size)
      BY <2>5, <2>8 DEF Reads
    <3>2. \A k \in Nat : \A q \in [1..k -> Clusters] : Walk(Tab(V), g.first, q, k) => BytesBy(V, g, x, k, q)
      BY <2>7, <2>8 DEF BytesBy
    <3> QED  BY <3>1, <3>2 DEF Reads
  <2>9. Owns(Tab(V), g)
    BY <2>5 DEF Owns
  <2> QED  BY <2>3, <2>5, <2>6, <2>8, <2>9 DEF Gentle, Faithful
<1> QED  BY <1>4, <1>5, <1>6, <1>7

\* SetCluster.
LEMMA GentleSetting ==
    ASSUME NEW s, NEW L \in SUBSET Names, NEW F, IsFiles(F), NEW n \in Names, Torn(s, L, F, n),
           NEW t, t = SetCluster(s), NEW Q \in SUBSET Clusters
    PROVE  Gentle(s, t, Q) /\ t.f.ptr = s.f.ptr
<1>1. IsFile(s.f, n) /\ Base(s)
  BY TornFacts, Zenon DEF Torn
<1>2. PICK h : h = IF s.f.first = 0 THEN s.val ELSE s.f.first
  OBVIOUS
<1>3. PICK g : g = [s.f EXCEPT !.clust = s.val, !.first = h]
  OBVIOUS
<1>4. t = Having(s, g)
  <2>1. IsState(s) /\ Shaped(s.f)
    BY <1>1 DEF Base, IsFile
  <2>2. t = [s EXCEPT !.f.clust = s.val, !.f.first = h]
    BY <1>2, <2>1 DEF SetCluster, IsState, Shaped
  <2> QED  BY <1>3, <2>1, <2>2, Zenon DEF Having, IsState, Shaped
<1>5. /\ g.size = s.f.size /\ g.sect = s.f.sect /\ g.buf = s.f.buf /\ g.dirty = s.f.dirty
      /\ g.modified = s.f.modified /\ g.ptr = s.f.ptr /\ (g.first = s.f.first \/ s.f.first = 0)
  BY <1>1, <1>2, <1>3 DEF IsFile, Shaped
<1>6. Gentle(s, t, Q)
  BY <1>4, <1>5, GentleSet DEF SameBytes
<1>7. t.f = g
  BY <1>1, <1>4 DEF Having, Base, IsState
<1> QED  BY <1>5, <1>6, <1>7

\* WriteCluster.
LEMMA GentleCluster ==
    ASSUME NEW s, NEW L \in SUBSET Names, NEW F, IsFiles(F), NEW n \in Names, Torn(s, L, F, n),
           s.res = "ok", NEW t \in WriteCluster(s), t.f = s.f, NEW Q \in SUBSET Clusters
    PROVE  Gentle(s, t, Q)
<1>1. Base(s)
  BY TornFacts
<1>2. CASE s.f.ptr = 0 /\ s.f.first # 0
  <2>1. PICK v : v = s.f.first
    OBVIOUS
  <2>2. t = [s EXCEPT !.val = v]
    BY <2>1, <1>2 DEF WriteCluster
  <2>3. Looked(s, t)
    BY <2>2, <1>1, SetVal
  <2> QED  BY <2>3, GentleLooked
<1>3. CASE ~(s.f.ptr = 0 /\ s.f.first # 0)
  <2>1. PICK c : t \in create_chain(s, c)
    BY <1>3 DEF WriteCluster
  <2>2. t \in get_fat(s, c) \union create_chain(s, c)
    BY <2>1
  <2> QED  BY <2>2, GentleNext
<1> QED  BY <1>2, <1>3

\* The clusters watched for others are kept from the file, as it is now.
Apart(s, L, F, n, Q) ==
    Watch(Tab(Seen(s)), Seen(s)[Dir], L, F, {n}, Q) /\ Owns(Tab(Seen(s)), s.f)

\* They stay so.
LEMMA ApartOn ==
    ASSUME NEW s, Base(s), NEW L, NEW F, NEW n, NEW Q, Apart(s, L, F, n, Q), NEW t,
           Calm(s, t, Clusters, Q, Names), Owns(Tab(Seen(s)), s.f) => Owns(Tab(Seen(t)), t.f)
    PROVE  Apart(t, L, F, n, Q)
  BY WatchGentle DEF Apart

\* A turn's work of f_write puts bytes into the file.
LEMMA PutsSome ==
    ASSUME NEW s, NEW L \in SUBSET Names, NEW F, IsFiles(F), NEW n \in Names, Busy(s, L, F, n),
           s.res = "ok", s.f.err = "ok", s.f.ptr <= s.f.size, NEW v, NEW bytes \in Seq({v}), bytes # <<>>,
           NEW t \in WriteSome(s, bytes), NEW Q \in SUBSET Clusters, Apart(s, L, F, n, Q)
    PROVE  Puts(s, t, Q, v)
<1>1. /\ Torn(s, L, F, n) /\ FileOK(Tab(Seen(s)), s.f) /\ Base(s) /\ s.f.ptr \in Nat /\ s.f.size \in Nat
      /\ SectorSize \in Nat \ {0} /\ Len(bytes) \in Nat
  BY BusyTorn, VolumeAssumption, LenProperties DEF FileOK
<1>3. CASE s.f.ptr % SectorSize # 0
  <2>1. t = WritePart(s, bytes)
    BY <1>3, Zenon DEF WriteSome
  <2>2. s.f.ptr > 0
    BY <1>1, <1>3, ZeroMod
  <2>3. PICK m \in Nat \ {0} : /\ Stands(Tab(Seen(s)), s.f, m) /\ Within(s.f.ptr, m)
                               /\ (s.f.ptr = SectorSize * m \/ s.f.sect = s.f.clust)
    BY <2>2, <1>1, AtStands DEF FileOK
  <2>4. s.f.ptr # SectorSize * m /\ SectorSize * (m - 1) \in Nat /\ SectorSize * m \in Nat
    BY <2>3, <1>1, <1>3, WithinFacts
  <2>5. SectorSize * (m - 1) <= s.f.ptr /\ s.f.ptr < SectorSize * m /\ s.f.sect = s.f.clust
    BY <2>3, <2>4, <1>1 DEF Within
  <2> QED  BY <2>1, <2>3, <2>5, <1>1, PutsPart
<1>4. CASE s.f.ptr % SectorSize = 0
  <2>1. PICK c \in WriteCluster(s) :
           /\ c.res # "ok" \/ c.val = 0 => t = c
           /\ c.res = "ok" /\ c.val # 0 => \E u \in FlushBuf(SetCluster(c)) :
                 /\ u.res # "ok" => t = u
                 /\ u.res = "ok" /\ Len(bytes) >= SectorSize => t \in WriteSector(u, bytes)
                 /\ u.res = "ok" /\ ~(Len(bytes) >= SectorSize) => \E w \in FillBuf(u) :
                       /\ w.res # "ok" => t = w
                       /\ w.res = "ok" => t = WritePart(w, bytes)
    BY <1>4 DEF WriteSome, Then
  <2>2. /\ Busy(c, L, F, n) /\ c.f = s.f /\ c.res \in Errs /\ c.out = s.out
        /\ c.res = "ok" /\ c.val # 0 => c.val \in Clusters /\ Leads(c, L, F, n, c.val)
    BY <1>4, WritingCluster, Zenon
  <2>3. Gentle(s, c, Q)
    BY <2>2, <1>1, GentleCluster
  <2>4. CASE c.res # "ok" \/ c.val = 0
    <3>1. t = c /\ t.f.ptr = s.f.ptr
      BY <2>1, <2>2, <2>4
    <3> QED  BY <3>1, <2>3, <1>1, PutsNone
  <2>5. CASE c.res = "ok" /\ c.val # 0
    <3>1. PICK x : x = SetCluster(c)
      OBVIOUS
    <3>2. /\ Torn(x, L, F, n) /\ Ahead(Tab(Seen(x)), x.f)
          /\ x.res = c.res /\ x.out = c.out /\ Seen(x) = Seen(c)
          /\ x.f.ptr = c.f.ptr /\ x.f.err = c.f.err /\ (c.f.write => x.f.write)
      <4>1. c.f.err = "ok" /\ c.val \in Clusters /\ Leads(c, L, F, n, c.val) /\ Busy(c, L, F, n)
        BY <2>2, <2>5
      <4> QED  BY <4>1, <3>1, SettingCluster
    <3>3. Gentle(c, x, Q)
      <4>1. Torn(c, L, F, n)
        BY <2>2, BusyTorn
      <4> QED  BY <4>1, <3>1, GentleSetting
    <3>4. Gentle(s, x, Q) /\ x.f.ptr = s.f.ptr /\ x.f.size = s.f.size
      BY <3>2, <3>3, <2>2, <2>3, GentleOn DEF Gentle
    <3>5. Apart(x, L, F, n, Q)
      BY <3>4, <1>1, ApartOn DEF Gentle, Faithful
    <3>6. DirtyOut(x.f, Q)
      BY <3>2, <3>5, OwnsOut, Zenon DEF Apart
    <3>7. PICK u \in FlushBuf(x) :
                 /\ u.res # "ok" => t = u
                 /\ u.res = "ok" /\ Len(bytes) >= SectorSize => t \in WriteSector(u, bytes)
                 /\ u.res = "ok" /\ ~(Len(bytes) >= SectorSize) => \E w \in FillBuf(u) :
                       /\ w.res # "ok" => t = w
                       /\ w.res = "ok" => t = WritePart(w, bytes)
      BY <2>1, <2>5, <3>1
    <3>8. x.res = "ok" /\ u \in FlushBuf(x)
      BY <3>2, <2>5, <3>7
    <3>9. Torn(u, L, F, n) /\ u.res \in {"ok", "disk_err"} /\ Still(x, u) /\ u.out = x.out
      BY <3>2, <3>8, Flushing, Zenon
    <3>10. Gentle(x, u, Q) /\ (u.res = "ok" => ~u.f.dirty)
      BY <3>2, <3>6, <3>8, GentleFlush
    <3>11. Gentle(s, u, Q) /\ u.f.ptr = s.f.ptr /\ u.f.size = s.f.size
      BY <3>4, <3>9, <3>10, GentleOn DEF Still
    <3>12. Ahead(Tab(Seen(u)), u.f) /\ u.f.ptr <= u.f.size
      BY <3>2, <3>9, <3>11, AheadStill
    <3>13. CASE u.res # "ok"
      BY <3>7, <3>11, <3>13, PutsNone
    <3>14. CASE u.res = "ok" /\ Len(bytes) >= SectorSize
      <4>1. SectorSize <= Len(bytes) /\ t \in WriteSector(u, bytes)
        BY <3>7, <3>14, <1>1
      <4>2. Apart(u, L, F, n, Q)
        BY <3>11, <1>1, ApartOn DEF Gentle, Faithful
      <4>3. Q \subseteq Clusters \ {u.f.clust}
        <5>1. PICK m \in Nat \ {0} : Stands(Tab(Seen(u)), u.f, m)
          BY <3>12 DEF Ahead
        <5>2. u.f.clust \notin Q
          BY <5>1, <4>2, <3>9, StandsOut, Zenon DEF Apart
        <5> QED  BY <5>2
      <4>4. Puts(u, t, Q, v)
        BY <4>1, <4>3, <3>9, <3>12, <3>14, PutsSector
      <4> QED  BY <4>4, <3>11, PutsAfter
    <3>15. CASE u.res = "ok" /\ ~(Len(bytes) >= SectorSize)
      <4>1. PICK w \in FillBuf(u) : /\ w.res # "ok" => t = w
                                    /\ w.res = "ok" => t = WritePart(w, bytes)
        BY <3>7, <3>15
      <4>2. u.f.clust \in Clusters
        BY <3>12, StandsFacts DEF Ahead
      <4>3. /\ Torn(w, L, F, n) /\ w.res \in {"ok", "disk_err"} /\ Still(u, w)
            /\ w.out = u.out
            /\ w.res = "ok" => w.f.sect = w.f.clust
        BY <4>2, <3>9, <3>15, Filling, Zenon
      <4>4. Gentle(u, w, Q)
        BY <3>9, <3>10, <3>12, <3>15, GentleFill
      <4>5. Gentle(s, w, Q) /\ w.f.ptr = s.f.ptr /\ w.f.size = s.f.size
        BY <4>3, <4>4, <3>11, GentleOn DEF Still
      <4>6. CASE w.res # "ok"
        BY <4>1, <4>5, <4>6, PutsNone
      <4>7. CASE w.res = "ok"
        <5>1. Ahead(Tab(Seen(w)), w.f)
          BY <4>3, <3>12, AheadStill
        <5>2. PICK m \in Nat \ {0} : /\ Stands(Tab(Seen(w)), w.f, m) /\ SectorSize * (m - 1) <= w.f.ptr
                                     /\ w.f.ptr < SectorSize * m
          BY <5>1, <4>5, <1>1, AheadPlace
        <5>3. t = WritePart(w, bytes) /\ w.f.sect = w.f.clust /\ w.f.ptr <= w.f.size
          BY <4>1, <4>3, <4>5, <4>7
        <5>4. Puts(w, t, Q, v)
          BY <5>2, <5>3, <4>3, PutsPart
        <5> QED  BY <5>4, <4>5, PutsAfter
      <4> QED  BY <4>6, <4>7
    <3> QED  BY <3>9, <3>13, <3>14, <3>15
  <2> QED  BY <2>4, <2>5
<1> QED  BY <1>3, <1>4

\* The rest of the bytes, and how many they are.
LEMMA PartLen ==
    ASSUME NEW S, NEW bytes \in Seq(S), NEW k \in 0..Len(bytes)
    PROVE  Len(Part(bytes, k)) = Len(bytes) - k
  BY LenProperties DEF Part

\* A write's loop so far.
Filled(s, x, L, F, n, Q, v, len) ==
    /\ Going(s, x, L, F, n, {v}) /\ Puts(s, x.s, Q, v)
    /\ x.s.res = "ok" => x.at \in Seq({v}) /\ x.s.f.ptr + Len(x.at) = s.f.ptr + len

\* A turn of f_write's loop.
LEMMA PutsTurn ==
    ASSUME NEW s, NEW L \in SUBSET Names, NEW F, IsFiles(F), NEW n \in Names, Base(s), s.f.err = "ok",
           NEW v, NEW Q \in SUBSET Clusters, Apart(s, L, F, n, Q), NEW len,
           NEW y, Filled(s, y, L, F, n, Q, v, len), NEW z \in WriteTurn(y)
    PROVE  y.go => Filled(s, z, L, F, n, Q, v, len)
<1>0. SUFFICES ASSUME y.go PROVE Filled(s, z, L, F, n, Q, v, len)
  OBVIOUS
<1>1. PICK x, b, S : x = y.s /\ b = y.at /\ S = {v}
  BY Zenon
<1>2. /\ Busy(x, L, F, n) /\ x.res = "ok" /\ x.f.err = "ok" /\ x.f.ptr <= x.f.size
      /\ b \in Seq({v}) /\ b # <<>> /\ x.f.write /\ x.f.ptr + Len(b) = s.f.ptr + len
      /\ Puts(s, x, Q, v)
  BY <1>0, <1>1 DEF Filled, Going, Went
<1>3. PICK t \in WriteSome(y.s, y.at) :
         z = LET left == Part(y.at, t.f.ptr - y.s.f.ptr)
             IN  [s |-> t, at |-> left, go |-> t.res = "ok" /\ t.f.ptr # y.s.f.ptr /\ left # <<>>]
  BY DEF WriteTurn
<1>4. z.s = t /\ z.at = Part(b, t.f.ptr - x.f.ptr) /\ t \in WriteSome(x, b)
  BY <1>1, <1>3
<1>5. Going(s, z, L, F, n, {v})
  <2>1. Going(s, y, L, F, n, S)
    BY <1>1 DEF Filled
  <2>2. Going(s, z, L, F, n, S)
    BY <2>1, <1>0, WritingTurn
  <2> QED  BY <2>2, <1>1
<1>6. Apart(x, L, F, n, Q)
  BY <1>2, ApartOn DEF Puts
<1>7. Puts(x, t, Q, v)
  BY <1>2, <1>4, <1>6, PutsSome
<1>8. Puts(s, t, Q, v)
  BY <1>2, <1>7, PutsOn
<1>9. ASSUME t.res = "ok" PROVE z.at \in Seq({v}) /\ t.f.ptr + Len(z.at) = s.f.ptr + len
  <2>1. b \in Seq(S) /\ x.f.write
    BY <1>1, <1>2
  <2>2. Written(x, t, L, F, n, Len(b))
    BY <2>1, <1>2, <1>4, WritingSome
  <2>3. PICK k : k = t.f.ptr - x.f.ptr
    OBVIOUS
  <2>4. k \in 0..Len(b)
    BY <2>2, <2>3, <1>9 DEF Written
  <2>5. z.at \in Seq(S) /\ Len(z.at) = Len(b) - k
    BY <2>1, <2>3, <2>4, <1>4, PartFacts, PartLen
  <2>6. x.f.ptr \in Nat /\ t.f.ptr \in Nat /\ Len(b) \in Nat
    BY <1>2, <1>7, <1>9, LenProperties DEF Puts
  <2> QED  BY <2>3, <2>5, <2>6, <1>1, <1>2, SMTT(60)
<1> QED  BY <1>4, <1>5, <1>8, <1>9 DEF Filled

\* f_write's loop.
LEMMA PutsLoop ==
    ASSUME NEW s, NEW L \in SUBSET Names, NEW F, IsFiles(F), NEW n \in Names, Busy(s, L, F, n),
           s.res = "ok", s.f.err = "ok", s.f.ptr <= s.f.size, s.f.write, NEW v, NEW bytes \in Seq({v}),
           NEW Q \in SUBSET Clusters, Apart(s, L, F, n, Q), NEW t \in WriteLoop(s, bytes)
    PROVE  /\ Puts(s, t, Q, v)
           /\ t.res = "ok" => t.f.ptr - s.f.ptr \in 0..Len(bytes)
<1>1. Torn(s, L, F, n) /\ s.f.ptr \in Nat /\ s.f.size \in Nat /\ Base(s) /\ Len(bytes) \in Nat
  BY BusyTorn, LenProperties DEF FileOK
<1> DEFINE x0 == [s |-> s, at |-> bytes, go |-> bytes # <<>>]
           In(x) == Filled(s, x, L, F, n, Q, v, Len(bytes))
<1>2. PICK U : LoopIn(Loop(WriteTurn, x0, Len(bytes)), U, "write", 0, x0)
  BY <1>1, WriteTurns
<1> DEFINE P == {x \in U : In(x)}
<1>3. x0 \in P
  <2>1. Went(s, s, L, F, n)
    BY <1>1 DEF Went, Errs
  <2>2. x0.s = s /\ x0.at = bytes /\ (x0.go <=> bytes # <<>>)
    BY Zenon
  <2>3. Gentle(s, s, Q)
    BY <1>1, LookedSelf, GentleLooked
  <2>4. Puts(s, s, Q, v)
    BY <2>3, <1>1, PutsNone
  <2>5. In(x0)
    <3> HIDE DEF x0
    <3> QED  BY <2>1, <2>2, <2>4 DEF Filled, Going
  <2>6. x0 \in U
    BY <1>2 DEF LoopIn
  <2> QED  BY <2>5, <2>6
<1>4. ASSUME NEW y \in P, NEW z \in WriteTurn(y) PROVE y.go => In(z)
  <2>0. PICK len : len = Len(bytes)
    OBVIOUS
  <2>1. Filled(s, y, L, F, n, Q, v, len)
    BY <2>0
  <2>2. y.go => Filled(s, z, L, F, n, Q, v, len)
    BY <2>1, <1>1, PutsTurn
  <2> QED  BY <2>0, <2>2
<1>5. KeptByTurns(P, U, "write", 0)
  <2> HIDE DEF In
  <2> QED  BY <1>4 DEF KeptByTurns, AnyTurn
<1>6. Loop(WriteTurn, x0, Len(bytes)) \subseteq P
  <2> HIDE DEF P, x0
  <2>1. P \in SUBSET U
    BY DEF P
  <2> QED  BY <2>1, <1>2, <1>3, <1>5 DEF LoopIn
<1>7. PICK x \in Loop(WriteTurn, x0, Len(bytes)) : t = x.s
  BY DEF WriteLoop
<1>8. In(x)
  BY <1>6, <1>7
<1>9. ASSUME t.res = "ok" PROVE t.f.ptr - s.f.ptr \in 0..Len(bytes)
  <2>1. x.at \in Seq({v}) /\ t.f.ptr + Len(x.at) = s.f.ptr + Len(bytes)
    BY <1>7, <1>8, <1>9 DEF Filled
  <2>2. t.f.ptr \in Nat /\ s.f.ptr <= t.f.ptr
    BY <1>7, <1>8, <1>9 DEF Filled, Puts
  <2>3. Len(x.at) \in Nat
    BY <2>1, LenProperties
  <2> QED  BY <2>1, <2>2, <2>3, <1>1, SMTT(60)
<1> QED  BY <1>7, <1>8, <1>9 DEF Filled

\* Nothing is put any more once a step has failed.
LEMMA PutsThen ==
    ASSUME NEW s, NEW u, NEW t, NEW Q, NEW v, Puts(s, u, Q, v), Gentle(u, t, Q), t.res # "ok"
    PROVE  Puts(s, t, Q, v)
<1>1. Calm(s, t, Clusters, Q, Names)
  BY CalmOn DEF Puts, Gentle
<1>2. Owns(Tab(Seen(s)), s.f) => Owns(Tab(Seen(t)), t.f)
  BY DEF Puts, Gentle, Faithful
<1> QED  BY <1>1, <1>2 DEF Puts

\* A file is read as another with the same fields is.
LEMMA SameFields ==
    ASSUME NEW V, NEW f, NEW g, SameBytes(f, g), g.first = f.first
    PROVE  /\ Owns(Tab(V), f) <=> Owns(Tab(V), g)
           /\ \A x : Reads(V, f, x) <=> Reads(V, g, x)
  BY DEF SameBytes, Owns, Reads, BytesBy, ByteAt

\* The file is marked as changed.
LEMMA PutsMarked ==
    ASSUME NEW s, NEW u, NEW Q, NEW v, Puts(s, u, Q, v), NEW n, IsFile(u.f, n), Base(u),
           NEW d, NEW t, t = MarkedState(u, d)
    PROVE  Puts(s, t, Q, v) /\ t.f.ptr = u.f.ptr /\ t.f.modified = d /\ t.res = u.res
<1>1. PICK g : g = MarkOf(u.f, d)
  OBVIOUS
<1>2. t = [u EXCEPT !.f = g]
  BY <1>1 DEF MarkedState, MarkOf, Base, IsState, IsFile, Shaped
<1>3. /\ g.size = u.f.size /\ g.sect = u.f.sect /\ g.buf = u.f.buf /\ g.dirty = u.f.dirty
      /\ g.first = u.f.first /\ g.modified = d /\ g.ptr = u.f.ptr
  BY <1>1 DEF IsFile, Shaped, MarkOf
<1>4. Calm(u, t, Clusters, Q, Names) /\ t.f = g /\ Seen(t) = Seen(u)
  BY <1>2, FilePut
<1>5. t.res = u.res
  BY <1>2 DEF Base, IsState
<1>6. SameBytes(u.f, g)
  BY <1>3 DEF SameBytes
<1>7. PICK V, f : V = Seen(u) /\ f = u.f
  OBVIOUS
<1>8. /\ Owns(Tab(V), f) <=> Owns(Tab(V), g)
      /\ \A x : Reads(V, f, x) <=> Reads(V, g, x)
  BY <1>3, <1>6, <1>7, SameFields
<1>9. Calm(s, t, Clusters, Q, Names)
  BY <1>4, CalmOn DEF Puts
<1>10. Puts(s, t, Q, v)
  BY <1>3, <1>4, <1>5, <1>7, <1>8, <1>9 DEF Puts
<1> QED  BY <1>3, <1>4, <1>5, <1>10

\* A result is returned.
LEMMA GentleAnswer ==
    ASSUME NEW s, Base(s), NEW r, NEW t, t = Answer(s, r), NEW Q
    PROVE  Gentle(s, t, Q) /\ Looked(s, t) /\ t.res = r /\ t.f = s.f
<1>1. t = [s EXCEPT !.res = r]
  BY DEF Answer
<1>2. Looked(s, t) /\ t.res = r /\ t.val = s.val /\ t.wsect = s.wsect /\ t.win = s.win /\ t.dirty = s.dirty
      /\ t.disk = s.disk
  BY <1>1, SetRes
<1>3. Gentle(s, t, Q) /\ t.f = s.f
  BY <1>2, GentleLooked DEF Looked, Kept
<1> QED  BY <1>2, <1>3

\* f_write puts bytes into the file, at most those it is given.
LEMMA WritesText ==
    ASSUME NEW s, NEW L \in SUBSET Names, NEW F, IsFiles(F), NEW n \in Names, Ended(s, L, F, n),
           s.res = "ok", NEW v, NEW bytes \in Seq({v}), NEW Q \in SUBSET Clusters, Apart(s, L, F, n, Q),
           NEW t \in f_write(s, bytes)
    PROVE  /\ Puts(s, t, Q, v)
           /\ t.res = "denied" => Looked(s, t) /\ t.f = s.f
           /\ t.res = "ok" => t.f.modified /\ t.f.ptr - s.f.ptr \in 0..Len(bytes)
<1>0. Torn(s, L, F, n) /\ Base(s)
  BY BusyTorn DEF Ended
<1>1. CASE s.f.err # "ok" \/ ~s.f.write
  <2>1. PICK r : t = Answer(s, r) /\ r # "ok"
    BY <1>1, Zenon DEF f_write, Error, Answer
  <2>2. Gentle(s, t, Q) /\ Looked(s, t) /\ t.res = r /\ t.f = s.f
    BY <2>1, <1>0, GentleAnswer
  <2> QED  BY <2>1, <2>2, PutsNone
<1>3. CASE s.f.err = "ok" /\ s.f.write
  <2>1. PICK u, w :
           /\ u \in WriteLoop(s, bytes)
           /\ w = IF u.res # "ok" THEN [u EXCEPT !.f.err = u.res] ELSE u
           /\ w.res # "ok" => t = w
           /\ w.res = "ok" => t = [w EXCEPT !.f.modified = TRUE]
    BY <1>3 DEF f_write, Abort, Then
  <2>2. Busy(s, L, F, n) /\ s.f.ptr <= s.f.size
    BY <1>3 DEF Ended
  <2>3. /\ Puts(s, u, Q, v)
        /\ u.res = "ok" => u.f.ptr - s.f.ptr \in 0..Len(bytes)
    BY <2>1, <2>2, <1>3, PutsLoop
  <2>4. Went(s, u, L, F, n)
    <3>1. s.f.write => Went(s, u, L, F, n)
      <4>1. PICK S : S = {v}
        BY Zenon
      <4>2. bytes \in Seq(S)
        BY <4>1
      <4> QED  BY <4>2, <2>1, <2>2, <1>3, WritingLoop
    <3> QED  BY <3>1, <1>3
  <2>5. Torn(u, L, F, n) /\ u.res \in Errs
    BY <2>4 DEF Went
  <2>6. Gentle(u, w, Q) /\ w.res = u.res
    BY <2>1, <2>5, GentleErr
  <2>7. CASE u.res # "ok"
    <3>1. t = w /\ t.res = u.res /\ t.res # "denied"
      BY <2>1, <2>5, <2>6, <2>7, Zenon DEF Errs
    <3> QED  BY <3>1, <2>3, <2>6, <2>7, PutsThen
  <2>8. CASE u.res = "ok"
    <3>1. PICK d : d = TRUE
      OBVIOUS
    <3>2. t = MarkedState(u, d)
      BY <3>1, <2>1, <2>8, Zenon DEF MarkedState
    <3>3. IsFile(u.f, n) /\ Base(u)
      BY <2>5, TornFacts, Zenon DEF Torn
    <3>4. Puts(s, t, Q, v) /\ t.f.ptr = u.f.ptr /\ t.f.modified = d /\ t.res = u.res
      <4>1. Puts(s, u, Q, v) /\ IsFile(u.f, n) /\ Base(u) /\ t = MarkedState(u, d)
        BY <3>2, <3>3, <2>3
      <4> QED  BY <4>1, PutsMarked
    <3> QED  BY <3>1, <3>4, <2>3, <2>8
  <2> QED  BY <2>7, <2>8
<1> QED  BY <1>1, <1>3

-----------------------------------------------------------------------------
\* f_truncate.

\* What others watch does not depend on the file.
LEMMA WatchOthers ==
    ASSUME NEW T, NEW E, NEW L, NEW F, NEW n, NEW Q, Watch(T, E, L, F, {n}, Q),
           NEW M, NEW G, \A m \in Names \ {n} : (m \in L => m \in M) /\ G[m] = F[m]
    PROVE  Watch(T, E, M, G, {n}, Q)
<1>1. \A m \in Names \ {n}, h \in Clusters : Claims(E, L, F, m, h) => Claims(E, M, G, m, h)
  BY DEF Claims
<1>2. PICK N : N = {n}
  OBVIOUS
<1>3. Watch(T, E, L, F, N, Q) /\ \A m \in Names \ N, h \in Clusters : Claims(E, L, F, m, h) => Claims(E, M, G, m, h)
  BY <1>1, <1>2
<1>4. Watch(T, E, M, G, N, Q)
  BY <1>3, WatchKept
<1> QED  BY <1>2, <1>4

\* The whole chain of a file is freed.
LEMMA CalmFreeingAll ==
    ASSUME NEW s, NEW L \in SUBSET Names, NEW F, IsFiles(F), NEW n \in Names, n \notin L,
           Busy(s, L, F, n), s.res = "ok", s.f.ptr = 0,
           NEW g, IsFile(g, n), g.first = 0, g.size = 0, g.ptr = 0, g.dirty = s.f.dirty, g.sect = s.f.sect,
           NEW t \in remove_chain(s, s.f.first, 0),
           NEW Q, Watch(Tab(Seen(s)), Seen(s)[Dir], L, F, {n}, Q)
    PROVE  Calm(s, t, Q, Clusters, Names)
<1>1. PICK c, G, N : c = s.f.first /\ G = Put(F, n, g) /\ N = {n}
  OBVIOUS
<1>2. Fine(s, L, Put(F, n, g)) /\ (c \in Clusters => Loose(Tab(Seen(s)), Seen(s)[Dir], L, Put(F, n, g), c))
  BY <1>1, ReadyToFree
<1>3. Fine(s, L, G) /\ (c \in Clusters => Loose(Tab(Seen(s)), Seen(s)[Dir], L, G, c)) /\ t \in remove_chain(s, c, 0)
  BY <1>1, <1>2
<1>4. \A m \in Names : m # n => G[m] = F[m]
  BY <1>1, PutFile
<1>5. Watch(Tab(Seen(s)), Seen(s)[Dir], L, G, {n}, Q)
  BY <1>4, WatchOthers, Zenon
<1>6. Watch(Tab(Seen(s)), Seen(s)[Dir], L, G, N, Q)
  BY <1>1, <1>5
<1> QED  BY <1>3, <1>6, CalmRemoving, Zenon

\* Two tables have the same chain from h on, as far as position p.
Reaches(T, U, h, p) ==
    \E k \in Nat \ {0} : \E r \in [1..k -> Clusters] :
        Walk(T, h, r, k) /\ Walk(U, h, r, k) /\ p <= SectorSize * k

\* The chain of a file is cut after the current cluster.
LEMMA CalmFreeingRest ==
    ASSUME NEW s, NEW L \in SUBSET Names, NEW F, IsFiles(F), NEW n \in Names, n \notin L,
           Busy(s, L, F, n), s.res = "ok", s.f.err = "ok", s.f.ptr > 0,
           NEW g, IsFile(g, n), g.first = s.f.first, g.size = s.f.ptr, g.ptr = s.f.ptr, g.dirty = s.f.dirty,
           g.sect = s.f.sect, g.clust = s.f.clust, g.err = s.f.err,
           NEW u \in get_fat(s, s.f.clust), NEW t, CutAfter(u, t),
           NEW Q, Watch(Tab(Seen(s)), Seen(s)[Dir], L, F, {n}, Q)
    PROVE  Calm(s, t, Q, Clusters, Names) /\ Reaches(Tab(Seen(s)), Tab(Seen(t)), s.f.first, s.f.ptr)
<1>1. PICK T, G : T = Tab(Seen(s)) /\ G = Put(F, n, g)
  OBVIOUS
<1>2. IsFile(s.f, n) /\ G[n] = g /\ G[n].open /\ g.clust = s.f.clust /\ Base(s)
  <2>1. Base(s)
    BY BusyTorn
  <2>2. G[n] = g
    BY <1>1, PutFile
  <2> QED  BY <2>1, <2>2 DEF Busy, IsFile
<1>3. /\ Fine(s, L, Put(F, n, g)) /\ s.f.ptr \in Nat
      /\ \E m \in Nat \ {0} : \E r \in [1..m -> Clusters] :
             Placed(Tab(Seen(s)), g, r, m) /\ g.size <= SectorSize * m
  BY ReadyToCut, Zenon
<1>4. Fine(s, L, G)
  BY <1>1, <1>3
<1>5. PICK m \in Nat \ {0} : \E r \in [1..m -> Clusters] : Placed(T, g, r, m) /\ g.size <= SectorSize * m
  BY <1>1, <1>3
<1>6. PICK r \in [1..m -> Clusters] : Placed(T, g, r, m) /\ g.size <= SectorSize * m
  BY <1>5
<1>7. /\ Worked(s, u, L, G) /\ Seen(u) = Seen(s)
      /\ u.res = "ok" => s.f.clust \in Clusters /\ u.val = T[s.f.clust] /\ u.val \in Nat
  BY <1>1, <1>4, GettingFine, ZenonT(60)
<1>8. Looked(s, u) /\ Fine(u, L, G) /\ Base(u) /\ u.f = s.f
  BY <1>2, <1>7, Getting DEF Worked, Looked
<1>9. Walk(T, s.f.first, r, m)
  BY <1>6 DEF Placed
<1>10. CASE t = u \/ (\E a : t = Answer(u, a))
  <2>1. Looked(u, t)
    <3>1. CASE t = u
      BY <3>1, <1>8, LookedSelf
    <3>2. CASE \E a : t = Answer(u, a)
      BY <3>2, <1>8, SetRes DEF Answer
    <3> QED  BY <3>1, <3>2, <1>10
  <2>2. Seen(t) = Seen(s)
    BY <2>1, <1>8 DEF Looked, Kept
  <2>3. Calm(s, t, Q, Clusters, Names)
    BY <2>1, <1>8, CalmLooked, CalmOn, Zenon
  <2> QED  BY <2>2, <2>3, <1>1, <1>2, <1>6, <1>9 DEF Reaches
<1>11. CASE u.res = "ok" /\ u.val \in Clusters /\ t \in remove_chain(u, u.val, u.f.clust)
  <2>1. PICK c, p : c = u.val /\ p = g.clust
    OBVIOUS
  <2>2. t \in remove_chain(u, c, p)
    BY <2>1, <1>2, <1>8, <1>11
  <2>3. /\ Placed(Tab(Seen(u)), G[n], r, m) /\ G[n].size <= SectorSize * m /\ p = G[n].clust
        /\ Tab(Seen(u))[p] = c /\ G[n].open /\ c \in Clusters
    BY <2>1, <1>1, <1>2, <1>6, <1>7, <1>8, <1>11
  <2>4. Watch(Tab(Seen(u)), Seen(u)[Dir], L, G, {n}, Q)
    <3>1. \A i \in Names : i # n => G[i] = F[i]
      BY <1>1, PutFile
    <3>2. Watch(Tab(Seen(s)), Seen(s)[Dir], L, G, {n}, Q)
      BY <3>1, WatchOthers, ZenonT(60)
    <3> QED  BY <3>2, <1>7
  <2>5. Calm(u, t, Q, Clusters, Names) /\ Walk(Tab(Seen(t)), G[n].first, r, m)
    BY <2>2, <2>3, <2>4, <1>8, <1>11, CalmCutting, Zenon
  <2>6. Calm(s, t, Q, Clusters, Names)
    BY <2>5, <1>8, CalmLooked, CalmOn
  <2> QED  BY <2>5, <2>6, <1>1, <1>2, <1>6, <1>9 DEF Reaches
<1> QED  BY <1>10, <1>11 DEF CutAfter

\* A file that ends earlier, and keeps its clusters up to there, has the
\* beginning of its text.
LEMMA ShrinkText ==
    ASSUME NEW V, NEW W, \A c \in Clusters : W[c] = V[c],
           NEW f, NEW g, g.first = f.first, g.sect = f.sect, g.buf = f.buf, g.dirty = f.dirty,
           g.size \in Nat, f.size \in Nat, g.size <= f.size, Reaches(Tab(V), Tab(W), f.first, g.size),
           NEW x, Reads(V, f, x), NEW z, IsText(z, g.size), \A i \in 1..g.size : z[i] = x[i]
    PROVE  Reads(W, g, z)
<1>1. PICK m \in Nat \ {0} : \E r \in [1..m -> Clusters] :
          Walk(Tab(V), f.first, r, m) /\ Walk(Tab(W), f.first, r, m) /\ g.size <= SectorSize * m
  BY DEF Reaches
<1>2. PICK r \in [1..m -> Clusters] :
          Walk(Tab(V), f.first, r, m) /\ Walk(Tab(W), f.first, r, m) /\ g.size <= SectorSize * m
  BY <1>1
<1>3. ASSUME NEW k \in Nat, NEW q \in [1..k -> Clusters], Walk(Tab(W), g.first, q, k),
             NEW i \in 1..k, NEW j \in 1..SectorSize, Pos(i, j) <= g.size, z[Pos(i, j)] # AnyContent
      PROVE  ByteAt(W, g, q[i], j, z[Pos(i, j)])
  <2>1. i \in Nat \ {0}
    OBVIOUS
  <2>2. PICK a : a = Pos(i, j)
    OBVIOUS
  <2>3. a \in Nat \ {0} /\ SectorSize * m \in Nat /\ (m < i => SectorSize * m < a)
    BY <2>1, <2>2, PosFacts
  <2>4. a <= g.size /\ z[a] # AnyContent
    BY <2>2, <1>3
  <2>5. i \in 1..m
    BY <2>1, <2>3, <2>4, <1>2
  <2>6. Walk(Tab(W), f.first, q, k)
    BY <1>3
  <2>7. q[i] = r[i]
    BY <2>5, <2>6, <1>2, WalksAgree
  <2>8. BytesBy(V, f, x, m, r)
    BY <1>2 DEF Reads
  <2>9. a \in 1..g.size /\ z[a] = x[a] /\ a <= f.size
    BY <2>3, <2>4
  <2>10. ByteAt(V, f, r[i], j, x[a])
    BY <2>2, <2>4, <2>5, <2>8, <2>9 DEF BytesBy
  <2>11. W[r[i]] = V[r[i]]
    BY <2>5
  <2> QED  BY <2>2, <2>7, <2>9, <2>10, <2>11 DEF ByteAt
<1>4. \A k \in Nat : \A q \in [1..k -> Clusters] : Walk(Tab(W), g.first, q, k) => BytesBy(W, g, z, k, q)
  BY <1>3 DEF BytesBy
<1> QED  BY <1>4 DEF Reads

\* A file of no bytes has the empty text.
LEMMA EmptyText ==
    ASSUME NEW V, NEW f, f.size = 0, NEW z, IsText(z, 0)
    PROVE  Reads(V, f, z)
<1>1. ASSUME NEW k \in Nat, NEW q PROVE BytesBy(V, f, z, k, q)
  <2>1. ASSUME NEW i \in 1..k, NEW j \in 1..SectorSize PROVE ~(Pos(i, j) <= 0)
    <3>1. i \in Nat \ {0}
      OBVIOUS
    <3>2. Pos(i, j) \in Nat \ {0}
      BY <3>1, PosFacts
    <3> QED  BY <3>2
  <2> QED  BY <2>1 DEF BytesBy
<1> QED  BY <1>1 DEF Reads

\* What a cut leaves of the file: the beginning of its text, up to where it
\* was.
Shortens(s, t) ==
    /\ s.f.ptr \in Nat /\ s.f.size \in Nat /\ s.f.ptr < s.f.size
    /\ t.f.size = s.f.ptr /\ t.f.ptr = s.f.ptr /\ ~t.f.dirty /\ t.f.modified
    /\ \A x, z : Reads(Seen(s), s.f, x) /\ IsText(z, t.f.size) /\ (\A i \in 1..t.f.size : z[i] = x[i])
                 => Reads(Seen(t), t.f, z)

\* The chain is cut, with the file as it will be.
Cuts(s, w, L, F, n, g, Q) ==
    /\ Did(s, w, L, Put(F, n, g)) /\ w.res \in Errs /\ Calm(s, w, Q, Clusters, Names)
    /\ g.size = 0 \/ (g.first = s.f.first /\ Reaches(Tab(Seen(s)), Tab(Seen(w)), s.f.first, g.size))

\* What f_truncate makes of the chain.
CutHere(s, x) ==
    IF s.f.ptr = 0 THEN \E u \in remove_chain(s, s.f.first, 0) : x = NoFirst(u)
    ELSE \E u \in get_fat(s, s.f.clust) : CutAfter(u, x)
ShrunkHere(s) == Shrunk(s.f, IF s.f.ptr = 0 THEN 0 ELSE s.f.first)

CutTo(s, x, L, F, n, g, Q) == \E w : Cuts(s, w, L, F, n, g, Q) /\ ShrunkAt(x) = Having(w, g)

\* The two ways that goes.
LEMMA CutsChain ==
    ASSUME NEW s, NEW L \in SUBSET Names, NEW F, IsFiles(F), NEW n \in Names, n \notin L,
           Busy(s, L, F, n), s.res = "ok", s.f.err = "ok", s.f.ptr \in Nat,
           NEW x, CutHere(s, x), NEW g, g = ShrunkHere(s),
           NEW Q, Watch(Tab(Seen(s)), Seen(s)[Dir], L, F, {n}, Q)
    PROVE  CutTo(s, x, L, F, n, g, Q)
<1>1. PICK h : h = IF s.f.ptr = 0 THEN 0 ELSE s.f.first
  OBVIOUS
<1>2. IsFile(s.f, n) /\ g = Shrunk(s.f, h)
  BY <1>1 DEF Busy, ShrunkHere
<1>3. /\ IsFile(g, n) /\ g.first = h /\ g.size = s.f.ptr /\ g.ptr = s.f.ptr /\ g.err = s.f.err
      /\ g.clust = s.f.clust /\ g.sect = s.f.sect /\ g.dirty = s.f.dirty
  BY <1>2, ShrunkFacts
<1>4. CASE s.f.ptr = 0
  <2>1. PICK w \in remove_chain(s, s.f.first, 0) : x = NoFirst(w)
    BY <1>4 DEF CutHere
  <2>2. g.first = 0 /\ g.size = 0 /\ g.ptr = 0
    BY <1>1, <1>3, <1>4
  <2>3. Worked(s, w, L, Put(F, n, g))
    BY <2>1, <2>2, <1>3, <1>4, FreeingAll
  <2>4. Calm(s, w, Q, Clusters, Names)
    BY <2>1, <2>2, <1>3, <1>4, CalmFreeingAll, Zenon
  <2>5. Did(s, w, L, Put(F, n, g)) /\ w.res \in Errs
    BY <2>3, DidWorked
  <2>6. Base(w) /\ w.f = s.f /\ IsFile(w.f, n)
    BY <2>5, <1>2 DEF Did, Fine, Safe
  <2>7. ShrunkAt(NoFirst(w)) = Having(w, Shrunk(w.f, 0))
    BY <2>6, ShrunkStates
  <2> QED  BY <2>1, <2>2, <2>4, <2>5, <2>6, <2>7, <1>1, <1>2, <1>4 DEF Cuts, CutTo
<1>5. CASE s.f.ptr # 0
  <2>1. PICK u \in get_fat(s, s.f.clust) : CutAfter(u, x)
    BY <1>5 DEF CutHere
  <2>2. g.first = s.f.first /\ s.f.ptr > 0
    BY <1>1, <1>3, <1>5
  <2>3. Did(s, x, L, Put(F, n, g)) /\ x.res \in Errs
    BY <2>1, <2>2, <1>3, FreeingRest, Zenon
  <2>4. Calm(s, x, Q, Clusters, Names) /\ Reaches(Tab(Seen(s)), Tab(Seen(x)), s.f.first, s.f.ptr)
    BY <2>1, <2>2, <1>3, CalmFreeingRest, Zenon
  <2>5. Base(x) /\ x.f = s.f /\ IsFile(x.f, n)
    BY <2>3, <1>2 DEF Did, Fine, Safe
  <2>6. ShrunkAt(x) = Having(x, Shrunk(x.f, x.f.first))
    BY <2>5, ShrunkStates
  <2> QED  BY <2>2, <2>3, <2>4, <2>5, <2>6, <1>1, <1>2, <1>3, <1>5 DEF Cuts, CutTo
<1> QED  BY <1>4, <1>5

\* f_truncate.
LEMMA CutsText ==
    ASSUME NEW s, NEW L \in SUBSET Names, NEW F, IsFiles(F), NEW n \in Names, Ended(s, L, F, n),
           s.res = "ok", NEW t \in f_truncate(s), NEW Q, Apart(s, L, F, n, Q)
    PROVE  /\ Calm(s, t, Q, Q, Names)
           /\ t.res = "denied" \/ (t.res = "ok" /\ t.f.size = s.f.size) => Looked(s, t) /\ t.f = s.f
           /\ t.res = "ok" /\ t.f.size # s.f.size => Shortens(s, t)
<1>0. Torn(s, L, F, n) /\ Base(s) /\ IsFile(s.f, n) /\ Q \subseteq Clusters
  BY BusyTorn DEF Ended, Busy, Apart, Watch
<1>1. CASE s.f.err # "ok" \/ ~s.f.write
  <2>1. PICK r : t = Answer(s, r) /\ r # "ok"
    BY <1>1, Zenon DEF f_truncate, Error, Answer
  <2>2. Gentle(s, t, Q) /\ Looked(s, t) /\ t.res = r /\ t.f = s.f
    BY <2>1, <1>0, GentleAnswer
  <2> QED  BY <2>1, <2>2, CalmLooked
<1>2. CASE s.f.err = "ok" /\ s.f.write /\ s.f.size <= s.f.ptr
  <2>1. t = s
    BY <1>2, Zenon DEF f_truncate
  <2>2. Looked(s, t) /\ t.f = s.f
    BY <2>1, <1>0, LookedSelf
  <2> QED  BY <2>2, CalmLooked
<1>3. CASE s.f.err = "ok" /\ s.f.write /\ ~(s.f.size <= s.f.ptr)
  <2>1. PICK x :
           /\ CutHere(s, x)
           /\ \E z \in (IF ShrunkAt(x).res = "ok" THEN FlushBuf(ShrunkAt(x)) ELSE {ShrunkAt(x)}) :
                 t = IF z.res # "ok" THEN [z EXCEPT !.f.err = z.res] ELSE z
    BY <1>3, TruncateInWays DEF TruncateWays, CutHere
  <2>2. PICK M : M = L \ {n}
    BY Zenon
  <2>3. M \in SUBSET L /\ M \in SUBSET Names /\ n \notin M
    BY <2>2
  <2>4. /\ Busy(s, M, F, n) /\ s.f.ptr \in Nat /\ s.f.size \in Nat /\ s.f.ptr < s.f.size
    <3>1. Ended(s, M, F, n)
      BY <2>3, EndedLess
    <3>2. Busy(s, M, F, n)
      BY <3>1 DEF Ended
    <3>3. FileOK(Tab(Seen(s)), s.f)
      BY <2>3, <3>2, BusyTorn
    <3> QED  BY <3>2, <3>3, <1>3 DEF FileOK
  <2>5. Watch(Tab(Seen(s)), Seen(s)[Dir], M, F, {n}, Q)
    <3>1. Watch(Tab(Seen(s)), Seen(s)[Dir], L, F, {n}, Q)
      BY DEF Apart
    <3>2. \A m \in Names \ {n} : (m \in L => m \in M) /\ F[m] = F[m]
      BY <2>2
    <3> QED  BY <3>1, <3>2, WatchOthers, Zenon
  <2>6. PICK g : g = ShrunkHere(s)
    OBVIOUS
  <2>7. /\ IsFile(g, n) /\ g.first = (IF s.f.ptr = 0 THEN 0 ELSE s.f.first) /\ g.size = s.f.ptr /\ g.ptr = s.f.ptr
        /\ g.sect = s.f.sect /\ g.dirty = s.f.dirty /\ g.modified /\ g.buf = s.f.buf
    <3>1. PICK h : h = IF s.f.ptr = 0 THEN 0 ELSE s.f.first
      OBVIOUS
    <3>2. /\ IsFile(g, n) /\ g.first = h /\ g.size = s.f.ptr /\ g.ptr = s.f.ptr /\ g.err = s.f.err
          /\ g.clust = s.f.clust /\ g.sect = s.f.sect /\ g.dirty = s.f.dirty
      BY <3>1, <2>6, <1>0, ShrunkFacts DEF ShrunkHere
    <3>3. g.modified /\ g.buf = s.f.buf
      BY <2>6, <1>0 DEF ShrunkHere, IsFile, Shaped, Shrunk
    <3> QED  BY <3>1, <3>2, <3>3
  <2>8. PICK w : Cuts(s, w, M, F, n, g, Q) /\ ShrunkAt(x) = Having(w, g)
    <3>1. /\ M \in SUBSET Names /\ n \notin M /\ Busy(s, M, F, n) /\ s.f.err = "ok" /\ s.f.ptr \in Nat
          /\ CutHere(s, x) /\ g = ShrunkHere(s) /\ Watch(Tab(Seen(s)), Seen(s)[Dir], M, F, {n}, Q)
      BY <2>1, <2>3, <2>4, <2>5, <2>6, <1>3
    <3>2. CutTo(s, x, M, F, n, g, Q)
      BY <3>1, CutsChain, Zenon
    <3> QED  BY <3>2 DEF CutTo
  <2>9. PICK y : y = Having(w, g)
    OBVIOUS
  <2>10. PICK z \in (IF y.res = "ok" THEN FlushBuf(y) ELSE {y}) :
            t = IF z.res # "ok" THEN [z EXCEPT !.f.err = z.res] ELSE z
    BY <2>1, <2>8, <2>9, Zenon
  <2>11. Fine(w, M, Put(F, n, g)) /\ w.res \in Errs /\ Base(w)
    BY <2>8 DEF Cuts, Did, Fine, Safe
  <2>12. Went(y, z, M, F, n) /\ (z.res = "ok" => z.f.size = g.size)
    BY <2>3, <2>7, <2>9, <2>10, <2>11, Shrinking
  <2>13. Torn(z, M, F, n) /\ z.res \in Errs
    BY <2>12 DEF Went
  <2>14. Calm(s, y, Q, Clusters, Names) /\ y.f = g /\ Seen(y) = Seen(w) /\ y.res = w.res /\ Base(y)
    <3>1. y = [w EXCEPT !.f = g]
      BY <2>9 DEF Having
    <3>2. PICK C, N : C = Clusters /\ N = Names
      OBVIOUS
    <3>3. Calm(w, y, Q, C, N) /\ y.f = g /\ Base(y) /\ Seen(y) = Seen(w) /\ y.res = w.res
      BY <3>1, <2>11, CalmSetFile
    <3> QED  BY <3>2, <3>3, <2>8, CalmOn DEF Cuts
  <2>15. DirtyOut(y.f, Q)
    <3>1. DirtyOut(s.f, Q)
      BY <1>0, OwnsOut, Zenon DEF Apart
    <3> QED  BY <3>1, <2>7, <2>14 DEF DirtyOut
  <2>16. Gentle(y, z, Q) /\ (z.res = "ok" => ~z.f.dirty)
    <3>1. CASE y.res # "ok"
      BY <3>1, <2>10, <2>14, LookedSelf, GentleLooked
    <3>2. CASE y.res = "ok"
      <4>1. Torn(y, M, F, n)
        <5>1. Went(y, y, M, F, n)
          <6>1. y \in {y}
            OBVIOUS
          <6>2. Fine(y, M, Put(F, n, y.f))
            BY <2>9, <2>11, <2>14, SetFile DEF Having
          <6>3. Busy(y, M, F, n)
            BY <6>2, <2>7, <2>14 DEF Busy
          <6>4. FileOK(Tab(Seen(y)), y.f) /\ Torn(y, M, F, n)
            BY <6>3, <2>3, BusyTorn
          <6> QED  BY <6>3, <6>4, <3>2, <2>7, <2>14 DEF Went, Errs, FileOK
        <5> QED  BY <5>1 DEF Went
      <4> QED  BY <4>1, <3>2, <2>3, <2>10, <2>15, GentleFlush
    <3> QED  BY <3>1, <3>2
  <2>17. Gentle(z, t, Q) /\ t.res = z.res /\ t.f.dirty = z.f.dirty /\ t.f.ptr = z.f.ptr
    BY <2>3, <2>10, <2>13, <1>0, GentleErr
  <2>18. Gentle(y, t, Q)
    BY <2>16, <2>17, GentleOn
  <2>19. Calm(s, t, Q, Q, Names)
    <3>1. Calm(s, y, Q, Q, Names)
      BY <2>14, <1>0, CalmLess
    <3>2. Calm(y, t, Q, Q, Names)
      BY <2>18, <1>0, CalmLess DEF Gentle
    <3> QED  BY <3>1, <3>2, CalmOn
  <2>20. t.f.size = g.size /\ t.f.modified /\ t.res # "denied"
    BY <2>7, <2>13, <2>14, <2>17, <2>18 DEF Gentle, Errs
  <2>21. ASSUME t.res = "ok" PROVE Shortens(s, t)
    <3>1. ~t.f.dirty /\ t = z /\ t.f.size = s.f.ptr
      BY <2>7, <2>10, <2>16, <2>17, <2>20, <2>21
    <3>2. t.f.ptr = s.f.ptr
      <4>1. Busy(t, M, F, n) /\ t.f.ptr <= t.f.size
        BY <3>1, <2>12, <2>21 DEF Went
      <4>2. y.res = "ok" /\ z \in FlushBuf(y)
        BY <2>10, <2>21, <3>1
      <4>3. t.f.ptr = y.f.ptr
        <5>1. CASE y.f.dirty
          <6>1. PICK u \in DiskWrite(y, y.f.sect, y.f.buf) : z = IF u.res = "ok" THEN [u EXCEPT !.f.dirty = FALSE] ELSE u
            BY <4>2, <5>1 DEF FlushBuf, Then
          <6>2. u.f = y.f /\ Base(u)
            <7>1. y.f.sect \in Clusters
              BY <5>1, <2>4, <2>7, <2>14, <2>3, BusyTorn, TornFacts
            <7> QED  BY <7>1, <4>2, <2>14, WritingData DEF Kept
          <6> QED  BY <6>1, <6>2, <3>1, <2>7, <2>14 DEF IsFile, Shaped, Base, IsState
        <5>2. CASE ~y.f.dirty
          BY <4>2, <5>2, <3>1, Zenon DEF FlushBuf
        <5> QED  BY <5>1, <5>2
      <4> QED  BY <4>3, <2>7, <2>14
    <3>3. ASSUME NEW a, NEW b, Reads(Seen(s), s.f, a), IsText(b, t.f.size), \A i \in 1..t.f.size : b[i] = a[i]
          PROVE  Reads(Seen(t), t.f, b)
      <4>1. PICK V, W, f : V = Seen(s) /\ W = Seen(y) /\ f = s.f
        OBVIOUS
      <4>2. Reads(W, g, b)
        <5>1. CASE g.size = 0
          BY <5>1, <3>3, <2>20, EmptyText
        <5>2. CASE g.size # 0
          <6>1. g.first = f.first /\ Reaches(Tab(V), Tab(W), f.first, g.size)
            BY <5>2, <4>1, <2>8, <2>14 DEF Cuts
          <6>2. \A c \in Clusters : W[c] = V[c]
            BY <4>1, <2>14 DEF Calm, Like
          <6>3. /\ g.sect = f.sect /\ g.buf = f.buf /\ g.dirty = f.dirty
                /\ g.size \in Nat /\ f.size \in Nat /\ g.size <= f.size
            BY <4>1, <2>4, <2>7
          <6>4. Reads(V, f, a) /\ IsText(b, g.size) /\ \A i \in 1..g.size : b[i] = a[i]
            BY <4>1, <3>3, <2>20
          <6> QED  BY <6>1, <6>2, <6>3, <6>4, ShrinkText
        <5> QED  BY <5>1, <5>2
      <4> QED  BY <4>1, <4>2, <2>14, <2>18 DEF Gentle, Faithful
    <3> QED  BY <3>1, <3>2, <3>3, <2>4, <2>20 DEF Shortens
  <2>22. ~(t.res = "ok" /\ t.f.size = s.f.size)
    BY <2>4, <2>7, <2>20
  <2> QED  BY <2>19, <2>20, <2>21, <2>22
<1> QED  BY <1>1, <1>2, <1>3

-----------------------------------------------------------------------------
\* f_sync.

\* The entry of file n is as the file has it, and the buffer written.
Noted(V, f, n) == ~f.dirty /\ V[Dir][n].size = f.size /\ (V[Dir][n].first = f.first \/ f.size = 0)

\* What an f_sync of a file that is marked leaves.
Syncs(s, t, n, Q) ==
    /\ Calm(s, t, Clusters, Q, Names \ {n}) /\ Faithful(s, t)
    /\ t.f.size = s.f.size /\ t.f.ptr = s.f.ptr /\ Seen(t)[Dir][n].used = Seen(s)[Dir][n].used
    /\ t.res = "ok" => t.disk = Seen(t) /\ ~t.f.modified
    /\ ~t.f.modified => Noted(Seen(t), t.f, n)

\* The ways through f_sync of a file that is marked.
SyncWays(s, t) ==
    \E u \in FlushBuf(s) :
        /\ u.res # "ok" => t = u
        /\ u.res = "ok" => \E v \in move_window(u, Dir) :
              /\ v.res # "ok" => t = v
              /\ v.res = "ok" =>
                    \E x \in sync_fs(SetEntry(v, v.f.name, EntryOf(v.win[v.f.name], v.f))) :
                        t = [x EXCEPT !.f.modified = FALSE]

\* It goes one of them.
LEMMA SyncInWays ==
    ASSUME NEW s, s.f.modified, NEW t \in f_sync(s)
    PROVE  SyncWays(s, t)
<1>1. PICK u \in FlushBuf(s) :
         /\ u.res # "ok" => t = u
         /\ u.res = "ok" => t \in Then(move_window(u, Dir), LAMBDA w :
               {[v EXCEPT !.f.modified = FALSE] :
                   v \in sync_fs(SetEntry(w, w.f.name, EntryOf(w.win[w.f.name], w.f)))})
  BY Zenon DEF f_sync, Then, EntryOf
<1>2. ASSUME u.res = "ok"
      PROVE  \E v \in move_window(u, Dir) :
                 /\ v.res # "ok" => t = v
                 /\ v.res = "ok" =>
                       \E x \in sync_fs(SetEntry(v, v.f.name, EntryOf(v.win[v.f.name], v.f))) :
                           t = [x EXCEPT !.f.modified = FALSE]
  BY <1>1, <1>2 DEF Then
<1> QED  BY <1>1, <1>2, Zenon DEF SyncWays

\* A step that keeps the text and leaves the mark is no more than what f_sync does.
LEMMA SyncsFail ==
    ASSUME NEW s, Base(s), NEW t, NEW n \in Names, NEW Q, Gentle(s, t, Q), s.f.modified, t.f.ptr = s.f.ptr,
           t.res # "ok"
    PROVE  Syncs(s, t, n, Q)
<1>1. Calm(s, t, Clusters, Q, Names) /\ Names \ {n} \in SUBSET Names /\ t.f.size = s.f.size /\ t.f.modified
  BY DEF Gentle
<1>2. Calm(s, t, Clusters, Q, Names \ {n})
  <2>1. PICK C, N, M : C = Clusters /\ N = Names /\ M = Names \ {n}
    BY Zenon
  <2>2. Calm(s, t, C, Q, M)
    BY <2>1, <1>1, CalmLess
  <2> QED  BY <2>1, <2>2
<1>3. Seen(t)[Dir] = Seen(s)[Dir]
  BY <1>1, CalmDir
<1> QED  BY <1>1, <1>2, <1>3 DEF Syncs, Gentle

\* The entry of a file is changed in the window, and written.
LEMMA EntrySynced ==
    ASSUME NEW v, NEW L \in SUBSET Names, NEW F, IsFiles(F), NEW n \in Names, Ended(v, L, F, n), v.res = "ok",
           v.wsect = Dir, ~v.f.dirty, NEW x \in sync_fs(SetEntry(v, n, EntryOf(v.win[n], v.f))),
           NEW d, d = FALSE, NEW t, t = MarkedState(x, d), NEW Q \in SUBSET Clusters
    PROVE  Syncs(v, t, n, Q)
<1>0. Torn(v, L, F, n) /\ Base(v) /\ IsFile(v.f, n)
  BY BusyTorn DEF Ended, Busy
<1>1. PICK e, y : e = EntryOf(v.win[n], v.f) /\ y = SetEntry(v, n, e)
  OBVIOUS
<1>2. /\ v.f.first \in {0} \union Clusters /\ v.f.size \in Nat /\ Room(Tab(Seen(v)), v.f.first, v.f.size)
      /\ v.win = Seen(v)[Dir] /\ v.win \in [Names -> EntrySet]
  BY <1>0, TornFacts, ShowsDir
<1>3. e \in EntrySet /\ e.first = v.f.first /\ e.size = v.f.size
  <2>1. v.win[n] \in EntrySet
    BY <1>2
  <2> QED  BY <2>1, <1>1, <1>2, EntryOfFacts
<1>4. Calm(v, y, Clusters, Clusters, Names \ {n})
  BY <1>0, <1>1, <1>3, CalmEntering
<1>5. /\ Base(y) /\ y.f = v.f /\ y.res = "ok" /\ Tab(Seen(y)) = Tab(Seen(v))
      /\ Seen(y)[Dir] = Put(Seen(v)[Dir], n, e)
  <2>1. /\ Wrote(v, y) /\ y.res = v.res /\ Tab(Seen(y)) = Tab(Seen(v))
        /\ Seen(y)[Dir] = Put(Seen(v)[Dir], n, e)
    BY <1>0, <1>1, <1>3, EnteringPut
  <2> QED  BY <2>1 DEF Wrote, Kept
<1>6. x \in sync_fs(y)
  BY <1>1
<1>7. PICK C, M : C = Clusters /\ M = Names \ {n}
  BY Zenon
<1>8. /\ Calm(y, x, C, C, M) /\ Seen(x) = Seen(y) /\ Base(x) /\ x.f = y.f
      /\ x.res \in {"ok", "disk_err"} /\ (x.res = "ok" => x.disk = Seen(x))
  BY <1>5, <1>6, CalmSyncing
<1>10. PICK g : g = MarkOf(v.f, d)
  OBVIOUS
<1>11. t = [x EXCEPT !.f = g]
  BY <1>5, <1>8, <1>10 DEF MarkOf, MarkedState
<1>12. Calm(x, t, C, C, M) /\ t.f = g /\ Seen(t) = Seen(x) /\ t.res = x.res
  BY <1>8, <1>11, CalmSetFile
<1>13. t.disk = x.disk
  BY <1>8, <1>11 DEF Base, IsState
<1>14. Calm(v, t, Clusters, Clusters, Names \ {n})
  <2>1. Calm(v, x, C, C, M)
    BY <1>4, <1>7, <1>8, CalmOn
  <2> QED  BY <2>1, <1>7, <1>12, CalmOn
<1>15. /\ g.first = v.f.first /\ g.size = v.f.size /\ g.ptr = v.f.ptr /\ g.sect = v.f.sect
       /\ g.dirty = v.f.dirty /\ g.modified = d /\ g.buf = v.f.buf
  <2>1. /\ g.first = v.f.first /\ g.size = v.f.size /\ g.ptr = v.f.ptr /\ g.sect = v.f.sect
        /\ g.dirty = v.f.dirty /\ g.modified = d
    BY <1>0, <1>10, MarkFacts
  <2>2. g.buf = v.f.buf
    BY <1>0, <1>10 DEF MarkOf, IsFile, Shaped
  <2> QED  BY <2>1, <2>2
<1>16. Faithful(v, t)
  <2>1. SameBytes(v.f, t.f) /\ t.f.first = v.f.first
    BY <1>12, <1>15 DEF SameBytes
  <2>2. PICK V, W : V = Seen(v) /\ W = Seen(t)
    OBVIOUS
  <2>3. Like(V, W, Clusters, Clusters, M) /\ Room(Tab(V), v.f.first, v.f.size)
    BY <2>2, <1>2, <1>7, <1>14 DEF Calm
  <2>4. /\ Owns(Tab(V), v.f) => Owns(Tab(W), t.f)
        /\ \A z : Reads(V, v.f, z) => Reads(W, t.f, z)
    BY <2>1, <2>3, <1>2, KeepText
  <2> QED  BY <2>2, <2>4 DEF Faithful
<1>17. Calm(v, t, Clusters, Q, Names \ {n})
  BY <1>14, CalmLess
<1>18. Seen(t)[Dir][n] = e
  BY <1>2, <1>5, <1>8, <1>12 DEF Put
<1>19. e.used = Seen(v)[Dir][n].used
  BY <1>1, <1>2 DEF EntryOf, EntrySet
<1> QED  BY <1>3, <1>8, <1>12, <1>13, <1>15, <1>16, <1>17, <1>18, <1>19 DEF Syncs, Noted

\* A step before it that keeps the text.
LEMMA SyncsAfter ==
    ASSUME NEW s, Base(s), NEW v, NEW t, NEW n \in Names, NEW Q, Gentle(s, v, Q), v.f.ptr = s.f.ptr,
           Syncs(v, t, n, Q)
    PROVE  Syncs(s, t, n, Q)
<1>0. PICK C, N, M : C = Clusters /\ N = Names /\ M = Names \ {n}
  BY Zenon
<1>1. C = Clusters /\ N = Names /\ M = Names \ {n} /\ C \in SUBSET C /\ Q \in SUBSET Q /\ M \in SUBSET N
  BY <1>0
<1>2. Calm(s, v, C, Q, N) /\ Calm(v, t, C, Q, M) /\ v.f.size = s.f.size
  BY <1>1 DEF Gentle, Syncs
<1>3. Calm(s, v, C, Q, M)
  BY <1>1, <1>2, CalmLess
<1>4. Calm(s, t, C, Q, M)
  BY <1>2, <1>3, CalmOn
<1>5. Seen(v)[Dir] = Seen(s)[Dir]
  BY <1>1, <1>2, CalmDir
<1>6. Faithful(s, t)
  BY DEF Gentle, Syncs, Faithful
<1> QED  BY <1>1, <1>2, <1>4, <1>5, <1>6 DEF Syncs

\* f_sync.
LEMMA SyncsText ==
    ASSUME NEW s, NEW L \in SUBSET Names, NEW F, IsFiles(F), NEW n \in Names, Ended(s, L, F, n),
           s.res = "ok", s.f.modified, NEW t \in f_sync(s), NEW Q, DirtyOut(s.f, Q)
    PROVE  Syncs(s, t, n, Q)
<1>0. Torn(s, L, F, n) /\ Base(s) /\ Q \in SUBSET Clusters
  BY BusyTorn DEF Ended, DirtyOut
<1>1. SyncWays(s, t)
  BY SyncInWays
<1>2. PICK u \in FlushBuf(s) :
         /\ u.res # "ok" => t = u
         /\ u.res = "ok" => \E v \in move_window(u, Dir) :
               /\ v.res # "ok" => t = v
               /\ v.res = "ok" =>
                     \E x \in sync_fs(SetEntry(v, v.f.name, EntryOf(v.win[v.f.name], v.f))) :
                         t = [x EXCEPT !.f.modified = FALSE]
  BY <1>1 DEF SyncWays
<1>3. Torn(u, L, F, n) /\ Still(s, u) /\ u.f.sect = s.f.sect
  BY <1>0, <1>2, Flushing
<1>4. Gentle(s, u, Q) /\ (u.res = "ok" => ~u.f.dirty)
  BY <1>0, <1>2, GentleFlush
<1>5. u.f.ptr = s.f.ptr
  BY <1>3 DEF Still
<1>6. CASE u.res # "ok"
  BY <1>0, <1>2, <1>4, <1>5, <1>6, SyncsFail
<1>7. CASE u.res = "ok"
  <2>1. PICK v \in move_window(u, Dir) :
               /\ v.res # "ok" => t = v
               /\ v.res = "ok" =>
                     \E x \in sync_fs(SetEntry(v, v.f.name, EntryOf(v.win[v.f.name], v.f))) :
                         t = [x EXCEPT !.f.modified = FALSE]
    BY <1>2, <1>7
  <2>2. Looked(u, v) /\ (v.res = "ok" => v.wsect = Dir)
    <3>1. Base(u) /\ Dir \in {Dir} \union FatSectors
      BY <1>3, TornFacts
    <3> QED  BY <3>1, <2>1, <1>7, MovingWindow
  <2>3. v.f = u.f
    BY <2>2 DEF Looked, Kept
  <2>4. Gentle(s, v, Q)
    BY <2>2, <1>4, GentleLooked, GentleOn
  <2>5. CASE v.res # "ok"
    BY <2>1, <2>3, <2>4, <2>5, <1>0, <1>5, SyncsFail
  <2>6. CASE v.res = "ok"
    <3>1. Ended(u, L, F, n)
      BY <1>3, Keeping
    <3>2. Ended(v, L, F, n)
      <4>1. PICK G : G = Put(F, n, u.f)
        OBVIOUS
      <4>2. Fine(u, L, G) /\ u.res # "disk_err"
        BY <4>1, <3>1, <1>7 DEF Ended, Busy
      <4>3. Did(u, v, L, G)
        BY <4>2, <2>2, DidLooked
      <4> QED  BY <4>1, <4>3, <3>1, EndedDid
    <3>3. v.f.name = n
      BY <3>2 DEF Ended, Busy, IsFile
    <3>4. PICK x \in sync_fs(SetEntry(v, n, EntryOf(v.win[n], v.f))) : t = [x EXCEPT !.f.modified = FALSE]
      BY <3>3, <2>1, <2>6
    <3>6. PICK d : d = FALSE
      BY Zenon
    <3>7. t = MarkedState(x, d)
      BY <3>4, <3>6, Zenon DEF MarkedState
    <3>5. Syncs(v, t, n, Q)
      BY <3>2, <3>4, <3>6, <3>7, <2>2, <2>3, <2>6, <1>0, <1>4, <1>7, EntrySynced, Zenon
    <3> QED  BY <3>5, <2>3, <2>4, <1>0, <1>5, SyncsAfter
  <2> QED  BY <2>5, <2>6
<1> QED  BY <1>6, <1>7

=============================================================================
