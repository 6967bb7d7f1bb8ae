--------------------------- MODULE FatTextProofs ---------------------------
(***************************************************************************)
(* For any volume, any names and any calls, with the disk failing whenever *)
(* it likes and the power lost at any point of any call: a file that a     *)
(* successful f_close or f_sync has settled keeps its text through what is *)
(* done to the other files, and a read returns what was last written.      *)
(* What is known of a file (Holding) is kept by whatever leaves its        *)
(* clusters and its entry alone, and remade by the calls made on it.       *)
(***************************************************************************)
EXTENDS FatBytesProofs

-----------------------------------------------------------------------------
\* What the callers know of a name, on the volume and on the disk.

\* The k clusters q, the chain of entry e on disk d, have room for text x and hold it.
Fits(d, e, x, k, q) ==
    /\ k <= NFatEnt /\ Walk(Tab(d), e.first, q, k)
    /\ IsText(x, e.size) /\ e.size \in Nat /\ e.size <= SectorSize * k
    /\ \A i \in 1..k, j \in 1..SectorSize :
           Pos(i, j) <= e.size /\ x[Pos(i, j)] # AnyContent => d[q[i]][j] = x[Pos(i, j)]
Good(d, n, x, k, q) == d[Dir][n].used /\ Fits(d, d[Dir][n], x, k, q)

\* What is known of name n, b, is so on the volume, with its file f: a file
\* that is open reads it, one that is closed has it on its chain; the mark is
\* off only if the entry is the file's.
Known(V, b, f, n) ==
    /\ b.kind = "absent" => ~f.open /\ ~V[Dir][n].used
    /\ f.open => Owns(Tab(V), f)
    /\ b.kind = "file" /\ f.open =>
           Reads(V, f, b.text) /\ V[Dir][n].used /\ (~f.modified => Noted(V, f, n))
    /\ b.kind = "file" /\ ~f.open => \E k, q : Good(V, n, b.text, k, q)
    /\ b.kind # "unknown" /\ f.open =>
           (b.settled => ~f.modified) /\ (b.cut => f.modified \/ b.lost)

\* What is known of it must be on the disk.
Solid(b, f) == b.kind # "unknown" /\ ~b.lost /\ (f.open => ~f.modified)

\* It is, on all disks of X, in the same clusters.
Firm(x, b, n, k, q) ==
    /\ b.kind = "absent" => ~x[Dir][n].used
    /\ b.kind = "file" => Good(x, n, b.text, k, q)
AllFirm(X, b, n) == \E k, q : \A x \in X : Firm(x, b, n, k, q)
Holding(X, V, b, f, n) == Known(V, b, f, n) /\ (Solid(b, f) => AllFirm(X, b, n))

\* The chains that name m claims are within P.
Inside(T, E, L, F, m, P) ==
    \A h \in Clusters, k \in Nat : \A q \in [1..k -> Clusters] :
        Claims(E, L, F, m, h) /\ Walk(T, h, q, k) => \A i \in 1..k : q[i] \in P

\* They are within the clusters, and those of a name that is not of N within the rest.
LEMMA InsideFacts ==
    ASSUME NEW T, NEW E, NEW L, NEW F, NEW m, NEW N
    PROVE  /\ Inside(T, E, L, F, m, Clusters)
           /\ m \in Names \ N => Inside(T, E, L, F, m, Rest(T, E, L, F, N))
<1>1. Inside(T, E, L, F, m, Clusters)
  BY DEF Inside
<1>2. ASSUME m \in Names \ N, NEW h \in Clusters, NEW k \in Nat, NEW q \in [1..k -> Clusters],
             Claims(E, L, F, m, h), Walk(T, h, q, k), NEW i \in 1..k
      PROVE  q[i] \in Rest(T, E, L, F, N)
  BY <1>2, RestWalks
<1> QED  BY <1>1, <1>2 DEF Inside

\* A walk from an entry or file of name m is in the clusters within which its chains are.
LEMMA InsideWalk ==
    ASSUME NEW T, NEW E, NEW L, NEW F, NEW m, NEW P, Inside(T, E, L, F, m, P),
           NEW h, h \in Clusters => Claims(E, L, F, m, h), NEW q, NEW k, Walk(T, h, q, k)
    PROVE  \A i \in 1..k : q[i] \in P
<1>1. ASSUME NEW i \in 1..k PROVE q[i] \in P
  <2>1. k \in Nat /\ q \in [1..k -> Clusters] /\ k > 0 /\ q[1] = h
    BY DEF Walk
  <2>2. h \in Clusters
    BY <2>1
  <2> QED  BY <2>1, <2>2 DEF Inside
<1> QED  BY <1>1

\* The text is still on its chain where that is left alone.
LEMMA GoodLike ==
    ASSUME NEW d, NEW e, NEW P, NEW D, NEW M, Like(d, e, P, D, M), NEW n \in M, NEW x, NEW k, NEW q,
           Good(d, n, x, k, q), \A i \in 1..k : q[i] \in P /\ q[i] \in D
    PROVE  Good(e, n, x, k, q)
<1>1. e[Dir][n] = d[Dir][n]
  BY DEF Like
<1>2. PICK h : h = d[Dir][n].first
  OBVIOUS
<1>3. Walk(Tab(d), h, q, k)
  BY <1>2 DEF Good, Fits
<1>4. Walk(Tab(e), h, q, k)
  BY <1>3, WalkLike
<1>5. \A i \in 1..k : e[q[i]] = d[q[i]]
  BY DEF Like
<1> QED  BY <1>1, <1>2, <1>4, <1>5 DEF Good, Fits

\* A closed file is where its entry says.
LEMMA GoodInside ==
    ASSUME NEW d, NEW L, NEW F, NEW m \in L, NEW P, Inside(Tab(d), d[Dir], L, F, m, P),
           NEW x, NEW k, NEW q, Good(d, m, x, k, q)
    PROVE  \A i \in 1..k : q[i] \in P
<1>1. PICK h, T, E : h = d[Dir][m].first /\ T = Tab(d) /\ E = d[Dir]
  OBVIOUS
<1>2. Claims(E, L, F, m, h) /\ Walk(T, h, q, k)
  BY <1>1 DEF Good, Fits, Claims
<1>3. Inside(T, E, L, F, m, P)
  BY <1>1
<1> QED  BY <1>2, <1>3, InsideWalk

\* What is known of a name stays so in a step that leaves its chains and its entry alone.
LEMMA KnownKept ==
    ASSUME NEW s, NEW t, NEW P, NEW D, NEW M, Calm(s, t, P, D, M), NEW m \in Names, m \in M,
           NEW L \in SUBSET Names, NEW F, Sound(Tab(Seen(s)), Seen(s)[Dir], L, F),
           Inside(Tab(Seen(s)), Seen(s)[Dir], L, F, m, P), Inside(Tab(Seen(s)), Seen(s)[Dir], L, F, m, D),
           NEW b, Known(Seen(s), b, F[m], m), ~F[m].open => m \in L
    PROVE  Known(Seen(t), b, F[m], m)
<1>1. PICK V, W, T, E, f : V = Seen(s) /\ W = Seen(t) /\ T = Tab(V) /\ E = V[Dir] /\ f = F[m]
  OBVIOUS
<1>2. Like(V, W, P, D, M) /\ Sound(T, E, L, F) /\ Inside(T, E, L, F, m, P) /\ Inside(T, E, L, F, m, D)
  BY <1>1 DEF Calm
<1>3. W[Dir][m] = V[Dir][m]
  BY <1>2 DEF Like
<1>4. CASE f.open
  <2>1. FileOK(T, f)
    BY <1>1, <1>2, <1>4 DEF Sound
  <2>2. f.size \in Nat /\ Room(T, f.first, f.size) /\ SameBytes(f, f)
    BY <2>1 DEF FileOK, SameBytes
  <2>3. ASSUME NEW k \in Nat, NEW q \in [1..k -> Clusters], Walk(T, f.first, q, k)
        PROVE  \A i \in 1..k : q[i] \in P /\ q[i] \in D
    <3>1. PICK h : h = f.first
      OBVIOUS
    <3>2. Claims(E, L, F, m, h) /\ Walk(T, h, q, k)
      BY <3>1, <2>3, <1>1, <1>4 DEF Claims
    <3> QED  BY <3>2, <1>2, InsideWalk
  <2>4. /\ Owns(T, f) => Owns(Tab(W), f)
        /\ \A x : Reads(V, f, x) => Reads(W, f, x)
    BY <2>2, <2>3, <1>1, <1>2, KeepText
  <2>5. Known(V, b, f, m)
    BY <1>1
  <2>6. Known(W, b, f, m)
    BY <2>4, <2>5, <1>1, <1>3, <1>4 DEF Known, Noted
  <2> QED  BY <2>6, <1>1
<1>5. CASE ~f.open
  <2>1. ASSUME NEW k, NEW q, Good(V, m, b.text, k, q)
        PROVE  Good(W, m, b.text, k, q)
    <3>1. m \in L
      BY <1>1, <1>5
    <3>2. \A i \in 1..k : q[i] \in P /\ q[i] \in D
      BY <3>1, <2>1, <1>1, <1>2, GoodInside, Zenon
    <3> QED  BY <3>2, <2>1, <1>2, GoodLike
  <2>2. Known(V, b, f, m)
    BY <1>1
  <2>3. Known(W, b, f, m)
    BY <2>1, <2>2, <1>3, <1>5 DEF Known
  <2> QED  BY <2>3, <1>1
<1> QED  BY <1>4, <1>5

\* Nor does a disk lose it.
LEMMA FirmKept ==
    ASSUME NEW V, NEW P, NEW D, NEW M, NEW m \in Names, m \in M, NEW L, NEW F, m \in L,
           Inside(Tab(V), V[Dir], L, F, m, P), Inside(Tab(V), V[Dir], L, F, m, D),
           NEW Y, V \in Y, NEW b, AllFirm(Y, b, m), NEW X, \A x \in X : \E y \in Y : Like(y, x, P, D, M)
    PROVE  AllFirm(X, b, m)
<1>1. PICK k, q : \A y \in Y : Firm(y, b, m, k, q)
  BY DEF AllFirm
<1>2. ASSUME NEW x \in X PROVE Firm(x, b, m, k, q)
  <2>1. PICK y \in Y : Like(y, x, P, D, M)
    OBVIOUS
  <2>2. Firm(y, b, m, k, q) /\ Firm(V, b, m, k, q) /\ x[Dir][m] = y[Dir][m]
    BY <2>1, <1>1 DEF Like
  <2>3. ASSUME b.kind = "file" PROVE Good(x, m, b.text, k, q)
    <3>1. Good(V, m, b.text, k, q) /\ Good(y, m, b.text, k, q)
      BY <2>2, <2>3 DEF Firm
    <3>2. \A i \in 1..k : q[i] \in P /\ q[i] \in D
      BY <3>1, GoodInside, Zenon
    <3> QED  BY <3>1, <3>2, <2>1, GoodLike
  <2> QED  BY <2>2, <2>3 DEF Firm
<1> QED  BY <1>2 DEF AllFirm

\* All of it.
LEMMA HoldingKept ==
    ASSUME NEW s, NEW t, NEW P, NEW D, NEW M, Calm(s, t, P, D, M), s.media = {s.disk},
           NEW m \in Names, m \in M,
           NEW L \in SUBSET Names, NEW F, Sound(Tab(Seen(s)), Seen(s)[Dir], L, F),
           Inside(Tab(Seen(s)), Seen(s)[Dir], L, F, m, P), Inside(Tab(Seen(s)), Seen(s)[Dir], L, F, m, D),
           NEW Y, {s.disk, Seen(s)} \subseteq Y, NEW b, Holding(Y, Seen(s), b, F[m], m),
           ~F[m].open \/ ~b.cut => m \in L, NEW X, X \subseteq t.media \union {Seen(t)}
    PROVE  Holding(X, Seen(t), b, F[m], m)
<1>1. Known(Seen(s), b, F[m], m)
  BY DEF Holding
<1>2. Known(Seen(t), b, F[m], m)
  BY <1>1, KnownKept
<1>3. ASSUME Solid(b, F[m]) PROVE AllFirm(X, b, m)
  <2>1. m \in L
    BY <1>1, <1>3 DEF Known, Solid
  <2>2. AllFirm(Y, b, m)
    BY <1>3 DEF Holding
  <2>3. PICK V : V = Seen(s)
    OBVIOUS
  <2>4. /\ V \in Y /\ Inside(Tab(V), V[Dir], L, F, m, P) /\ Inside(Tab(V), V[Dir], L, F, m, D)
        /\ \A x \in X : \E y \in Y : Like(y, x, P, D, M)
    BY <2>3 DEF Calm
  <2> QED  BY <2>1, <2>2, <2>4, FirmKept, Zenon
<1> QED  BY <1>2, <1>3 DEF Holding

\* The chain of an open file has room for it and is no longer than the volume.
LEMMA RoomShort ==
    ASSUME NEW s, NEW L \in SUBSET Names, NEW F, IsFiles(F), NEW n \in Names, Ended(s, L, F, n)
    PROVE  \E k \in Nat : \E q \in [1..k -> Clusters] :
               Walk(Tab(Seen(s)), s.f.first, q, k) /\ s.f.size <= SectorSize * k /\ k <= NFatEnt
<1>1. FileOK(Tab(Seen(s)), s.f) /\ Base(s)
  BY BusyTorn DEF Ended
<1>2. PICK k \in Nat : \E q \in [1..k -> Clusters] :
          Walk(Tab(Seen(s)), s.f.first, q, k) /\ s.f.size <= SectorSize * k
  BY <1>1 DEF FileOK, Room
<1>3. PICK q \in [1..k -> Clusters] : Walk(Tab(Seen(s)), s.f.first, q, k) /\ s.f.size <= SectorSize * k
  BY <1>2
<1>4. k <= NFatEnt
  <2>1. PICK T, E, G, h : T = Tab(Seen(s)) /\ E = Seen(s)[Dir] /\ G = Put(F, n, s.f) /\ h = s.f.first
    OBVIOUS
  <2>2. Sound(T, E, L, G) /\ G[n] = s.f /\ s.f.open /\ T \in Tables
    <3>1. Fine(s, L, G) /\ IsFile(s.f, n)
      BY <2>1 DEF Ended, Busy
    <3>2. G[n] = s.f
      BY <2>1, PutFile
    <3>3. T \in Tables
      BY <1>1, <2>1, SafeTyped
    <3> QED  BY <3>1, <3>2, <3>3, <2>1 DEF Fine, Safe, IsFile
  <2>3. CASE k = 0
    BY <2>3, VolumeAssumption
  <2>4. CASE k # 0
    <3>1. h \in Clusters
      BY <2>1, <2>4, <1>3 DEF Walk
    <3>2. Claims(E, L, G, n, h)
      BY <2>1, <2>2 DEF Claims
    <3>3. Starts(T, h) /\ Proper(T)
      BY <3>1, <3>2, <2>2 DEF Sound
    <3>4. k <= NFatEnt - 2
      BY <3>3, <2>1, <2>2, <1>3, WalkShort, Zenon
    <3> QED  BY <3>4, VolumeAssumption
  <2> QED  BY <2>3, <2>4
<1> QED  BY <1>3, <1>4

\* A file whose entry is as it has it, and whose buffer is written, has its text on its chain.
LEMMA ReadsGood ==
    ASSUME NEW V, NEW f, NEW n, NEW x, Reads(V, f, x), Noted(V, f, n), V[Dir][n].used, f.size \in Nat,
           NEW k \in Nat, NEW q \in [1..k -> Clusters], Walk(Tab(V), f.first, q, k),
           f.size <= SectorSize * k, k <= NFatEnt
    PROVE  \E j, r : Good(V, n, x, j, r)
<1>1. PICK e : e = V[Dir][n]
  OBVIOUS
<1>2. IsText(x, f.size) /\ e.size = f.size /\ ~f.dirty /\ (e.first = f.first \/ f.size = 0) /\ e.used
  BY <1>1 DEF Reads, Noted
<1>3. CASE e.first = f.first
  <2>1. BytesBy(V, f, x, k, q)
    BY DEF Reads
  <2>2. ASSUME NEW i \in 1..k, NEW j \in 1..SectorSize, Pos(i, j) <= e.size, x[Pos(i, j)] # AnyContent
        PROVE  V[q[i]][j] = x[Pos(i, j)]
    BY <2>1, <2>2, <1>2 DEF BytesBy, ByteAt
  <2>3. Fits(V, e, x, k, q)
    BY <2>2, <1>2, <1>3 DEF Fits
  <2> QED  BY <2>3, <1>1, <1>2 DEF Good
<1>4. CASE f.size = 0
  <2>1. PICK r : r = [i \in 1..0 |-> 0]
    OBVIOUS
  <2>2. Walk(Tab(V), e.first, r, 0)
    BY <2>1 DEF Walk
  <2>3. Fits(V, e, x, 0, r)
    BY <2>2, <1>2, <1>4, VolumeAssumption, VolumeAssumption DEF Fits
  <2> QED  BY <2>3, <1>1, <1>2 DEF Good
<1> QED  BY <1>2, <1>3, <1>4

\* For an open file.
LEMMA OpenGood ==
    ASSUME NEW s, NEW L \in SUBSET Names, NEW F, IsFiles(F), NEW n \in Names, Ended(s, L, F, n),
           NEW x, Reads(Seen(s), s.f, x), Noted(Seen(s), s.f, n), Seen(s)[Dir][n].used
    PROVE  \E j, r : Good(Seen(s), n, x, j, r)
<1>1. PICK k \in Nat : \E q \in [1..k -> Clusters] :
               Walk(Tab(Seen(s)), s.f.first, q, k) /\ s.f.size <= SectorSize * k /\ k <= NFatEnt
  BY RoomShort
<1>2. PICK q \in [1..k -> Clusters] :
               Walk(Tab(Seen(s)), s.f.first, q, k) /\ s.f.size <= SectorSize * k /\ k <= NFatEnt
  BY <1>1
<1>3. PICK V, f : V = Seen(s) /\ f = s.f
  OBVIOUS
<1>4. f.size \in Nat
  BY <1>3, BusyTorn DEF Ended, FileOK
<1>5. \E j, r : Good(V, n, x, j, r)
  BY <1>2, <1>3, <1>4, ReadsGood
<1> QED  BY <1>3, <1>5

\* A file that has just been opened at its entry reads the text on its chain.
LEMMA GoodReads ==
    ASSUME NEW V, NEW n, NEW x, NEW k, NEW q, Good(V, n, x, k, q),
           NEW f, f.first = V[Dir][n].first, f.size = V[Dir][n].size, ~f.dirty, f.sect = 0
    PROVE  Reads(V, f, x)
<1>1. PICK e : e = V[Dir][n]
  OBVIOUS
<1>2. /\ Walk(Tab(V), f.first, q, k) /\ IsText(x, f.size) /\ f.size \in Nat /\ f.size <= SectorSize * k
      /\ \A i \in 1..k, j \in 1..SectorSize :
             Pos(i, j) <= f.size /\ x[Pos(i, j)] # AnyContent => V[q[i]][j] = x[Pos(i, j)]
      /\ k \in Nat
  BY DEF Good, Fits, Walk
<1>3. ASSUME NEW m \in Nat, NEW r \in [1..m -> Clusters], Walk(Tab(V), f.first, r, m),
             NEW i \in 1..m, NEW j \in 1..SectorSize, Pos(i, j) <= f.size, x[Pos(i, j)] # AnyContent
      PROVE  ByteAt(V, f, r[i], j, x[Pos(i, j)])
  <2>1. i \in Nat \ {0}
    OBVIOUS
  <2>2. i <= k
    <3>1. PICK a : a = Pos(i, j)
      OBVIOUS
    <3>2. a \in Nat /\ \A l \in Nat \ {0} : l < i => SectorSize * l < a
      BY <2>1, <3>1, PosFacts
    <3>3. SectorSize * k \in Nat /\ (k = 0 => SectorSize * k = 0) /\ a > 0
      BY <2>1, <3>1, <1>2, PosFacts, VolumeAssumption
    <3>4. a <= SectorSize * k
      BY <3>1, <3>2, <3>3, <1>2, <1>3
    <3> QED  BY <3>2, <3>3, <3>4, <2>1, <1>2
  <2>3. i \in 1..k
    BY <2>1, <2>2, <1>2
  <2>4. r[i] = q[i]
    BY <2>3, <1>2, <1>3, WalksAgree
  <2>5. V[q[i]][j] = x[Pos(i, j)]
    BY <2>3, <1>2, <1>3
  <2>6. r[i] # 0
    <3>1. r[i] \in Clusters
      BY <1>3
    <3> QED  BY <3>1, ClustersFacts
  <2> QED  BY <2>4, <2>5, <2>6 DEF ByteAt
<1> QED  BY <1>2, <1>3 DEF Reads, BytesBy

\* Nothing is known of the name any more.
LEMMA HoldingUnsure ==
    ASSUME NEW X, NEW V, NEW b, b.kind = "unknown", NEW f, f.open => Owns(Tab(V), f), NEW n
    PROVE  Holding(X, V, b, f, n)
BY DEF Holding, Known, Solid

\* A call keeps the text of its file.
LEMMA HoldingGentle ==
    ASSUME NEW s, NEW L \in SUBSET Names, NEW F, IsFiles(F), NEW n \in Names, Ended(s, L, F, n),
           s.media = {s.disk}, NEW t, t.f.open, NEW Q, Gentle(s, t, Q), ~s.f.dirty => Gentle(s, t, Clusters),
           NEW b, Holding({s.disk, Seen(s)}, Seen(s), b, s.f, n), ~b.cut => n \in L
    PROVE  Holding({t.disk, Seen(t)}, Seen(t), b, t.f, n)
<1>1. /\ Base(s) /\ s.f.open /\ s.f.size \in Nat /\ Room(Tab(Seen(s)), s.f.first, s.f.size)
  BY BusyTorn DEF Ended, Busy, IsFile, FileOK
<1>2. PICK V, W, f, g : V = Seen(s) /\ W = Seen(t) /\ f = s.f /\ g = t.f
  OBVIOUS
<1>3. /\ Known(V, b, f, n) /\ f.open /\ g.open /\ g.size = f.size /\ g.modified = f.modified
      /\ (g.dirty => f.dirty) /\ (g.first = f.first \/ f.first = 0)
      /\ Owns(Tab(V), f) => Owns(Tab(W), g)
      /\ \A x : Reads(V, f, x) => Reads(W, g, x)
  BY <1>1, <1>2 DEF Holding, Gentle, Faithful
<1>4. W[Dir] = V[Dir]
  BY <1>1, <1>2, CalmDir DEF Gentle
<1>5. f.first = 0 => f.size = 0
  BY <1>1, <1>2, NoCluster
<1>6. ASSUME b.kind = "file", ~f.modified PROVE Noted(V, f, n) /\ Noted(W, g, n)
  BY <1>3, <1>4, <1>5, <1>6 DEF Known, Noted
<1>7. Known(W, b, g, n)
  BY <1>3, <1>4, <1>6 DEF Known
<1>8. ASSUME Solid(b, g) PROVE AllFirm({t.disk, W}, b, n)
  <2>1. Solid(b, f) /\ b.kind # "absent"
    BY <1>3, <1>8 DEF Solid, Known
  <2>2. CASE b.kind = "file"
    <3>1. ~f.dirty /\ n \in L
      BY <2>1, <2>2, <1>3, <1>6 DEF Noted, Known, Solid
    <3>2. PICK C, M, E : C = Clusters /\ M = Names /\ E = V[Dir]
      OBVIOUS
    <3>3. Calm(s, t, C, C, M) /\ n \in M
      BY <3>1, <3>2, <1>2 DEF Gentle
    <3>4. Inside(Tab(V), V[Dir], L, F, n, C)
      BY <3>2, InsideFacts, Zenon
    <3>5. PICK Y, X : Y = {s.disk, V} /\ X = {t.disk, W}
      BY Zenon
    <3>6. AllFirm(Y, b, n) /\ V \in Y
      BY <3>5, <2>1, <1>2 DEF Holding
    <3>7. \A x \in X : \E y \in Y : Like(y, x, C, C, M)
      BY <3>3, <3>5, <1>2 DEF Calm, Base
    <3>8. /\ n \in Names /\ n \in M /\ n \in L /\ Inside(Tab(V), V[Dir], L, F, n, C) /\ V \in Y
          /\ AllFirm(Y, b, n) /\ \A x \in X : \E y \in Y : Like(y, x, C, C, M)
      BY <3>1, <3>3, <3>4, <3>6, <3>7
    <3>9. AllFirm(X, b, n)
      BY <3>8, FirmKept, Zenon
    <3> QED  BY <3>5, <3>9
  <2>3. CASE b.kind # "file"
    BY <2>1, <2>3 DEF AllFirm, Firm
  <2> QED  BY <2>2, <2>3
<1> QED  BY <1>2, <1>7, <1>8 DEF Holding

-----------------------------------------------------------------------------
\* What is known of the names holds between two calls.

\* The contents of the disk that matter for name m.
Media(m) == {vol.disk, Seen(vol)} \union (IF m \in last.names THEN {} ELSE vol.media)

Texts(b) == \A n \in Names : \E S : b[n].text \in Seq(S)
Told == \A m \in Names : Holding(Media(m), Seen(vol), book[m], files[m], m)
NoneAbandoned == \A m \in Names : ~Abandoned(m)

\* The inductive invariant of the texts, along with Inv.
TextInv == vol.out = <<>> /\ Texts(book) /\ (~last.stray => Told)

\* The clusters of the names other than those of N.
Beside(N) == Rest(Tab(Seen(vol)), Seen(vol)[Dir], Uncut(book), files, N)

\* Fewer disks to hold on.
LEMMA HoldingLess ==
    ASSUME NEW X, NEW Y, Y \subseteq X, NEW V, NEW b, NEW f, NEW n, Holding(X, V, b, f, n)
    PROVE  Holding(Y, V, b, f, n)
BY DEF Holding, AllFirm

\* What is known as a call begins.
StartsAt(s, f) ==
    /\ s.res = "ok" /\ s.out = <<>> /\ s.f = f /\ Base(s) /\ s.disk = vol.disk /\ s.media = {s.disk}
    /\ Seen(s) = Seen(vol) /\ Fine(s, Uncut(book), files)
    /\ Sound(Tab(Seen(s)), Seen(s)[Dir], Uncut(book), files)
    /\ ~last.stray => \A m \in Names : Holding({s.disk, Seen(s)}, Seen(s), book[m], files[m], m)
    /\ \A N : Watch(Tab(Seen(s)), Seen(s)[Dir], Uncut(book), files, N, Beside(N))
    /\ \A m \in Names : ~files[m].open \/ ~book[m].cut => m \in Uncut(book)
    /\ Uncut(book) \in SUBSET Names /\ IsFiles(files) /\ IsBook(book)

\* A call begins.
LEMMA TextBegun ==
    ASSUME Inv, TextInv, NoneAbandoned, NEW f, NEW s, s = Alone(vol, f)
    PROVE  StartsAt(s, f)
<1>1. Well(vol, files, book, Cut)
  BY DEF Inv
<1>2. /\ Fine(s, Uncut(book), files) /\ s.f = f /\ s.res = "ok" /\ Seen(s) = Seen(vol)
      /\ Uncut(book) \in SUBSET Names
  BY <1>1, CallBegins
<1>3. IsState(vol) /\ IsFiles(files) /\ IsBook(book)
  BY <1>1 DEF Well, Base
<1>4. s.disk = vol.disk /\ s.media = {vol.disk} /\ s.out = vol.out
  BY <1>3 DEF Alone, IsState
<1>5. Base(s) /\ Sound(Tab(Seen(s)), Seen(s)[Dir], Uncut(book), files)
  BY <1>2 DEF Fine, Safe
<1>6. ASSUME ~last.stray, NEW m \in Names
      PROVE  Holding({s.disk, Seen(s)}, Seen(s), book[m], files[m], m)
  <2>1. PICK X, Y : X = Media(m) /\ Y = {s.disk, Seen(s)}
    BY Zenon
  <2>2. Y \subseteq X
    BY <2>1, <1>2, <1>4 DEF Media
  <2>3. Holding(X, Seen(vol), book[m], files[m], m)
    BY <2>1, <1>6 DEF TextInv, Told
  <2>4. Holding(Y, Seen(vol), book[m], files[m], m)
    BY <2>2, <2>3, HoldingLess
  <2> QED  BY <2>1, <2>4, <1>2
<1>7. ASSUME NEW N PROVE Watch(Tab(Seen(s)), Seen(s)[Dir], Uncut(book), files, N, Beside(N))
  <2>1. PICK T, E, L, Q : T = Tab(Seen(vol)) /\ E = Seen(vol)[Dir] /\ L = Uncut(book) /\ Q = Beside(N)
    OBVIOUS
  <2>2. Q = Rest(T, E, L, files, N)
    BY <2>1 DEF Beside
  <2>3. Watch(T, E, L, files, N, Q)
    BY <2>2, RestWatched
  <2> QED  BY <2>1, <2>3, <1>2
<1>8. ASSUME NEW m \in Names, ~files[m].open \/ ~book[m].cut PROVE m \in Uncut(book)
  BY <1>8 DEF NoneAbandoned, Abandoned, Uncut
<1> QED  BY <1>2, <1>3, <1>4, <1>5, <1>6, <1>7, <1>8, Zenon DEF TextInv, StartsAt

\* A call on the names N, calm beside them, leaves what is known of the others.
LEMMA OthersHold ==
    ASSUME Inv, TextInv, NoneAbandoned, ~last.stray, NEW f, NEW s, s = Alone(vol, f), NEW N,
           NEW t, NEW Q, Q = Beside(N), NEW M, M = Names \ N, Calm(s, t, Q, Q, M), NEW m \in Names, m \notin N,
           NEW X, X = t.media \union {Seen(t)}
    PROVE  Holding(X, Seen(t), book[m], files[m], m)
<1>1. /\ s.disk = vol.disk /\ s.media = {s.disk} /\ Seen(s) = Seen(vol)
      /\ Sound(Tab(Seen(s)), Seen(s)[Dir], Uncut(book), files)
      /\ Holding({s.disk, Seen(s)}, Seen(s), book[m], files[m], m)
      /\ ~files[m].open \/ ~book[m].cut => m \in Uncut(book)
      /\ Uncut(book) \in SUBSET Names
  <2>1. StartsAt(s, f)
    BY TextBegun
  <2> QED  BY <2>1, Zenon DEF StartsAt
<1>2. PICK T, E, L, Y, b : T = Tab(Seen(s)) /\ E = Seen(s)[Dir] /\ L = Uncut(book) /\ Y = {s.disk, Seen(s)} /\ b = book[m]
  BY Zenon
<1>3. Q = Rest(T, E, L, files, N)
  BY <1>1, <1>2 DEF Beside
<1>4. Inside(T, E, L, files, m, Q)
  BY <1>3, InsideFacts
<1>5. /\ m \in M /\ L \in SUBSET Names /\ Sound(Tab(Seen(s)), Seen(s)[Dir], L, files)
      /\ Inside(Tab(Seen(s)), Seen(s)[Dir], L, files, m, Q) /\ {s.disk, Seen(s)} \subseteq Y
      /\ Holding(Y, Seen(s), b, files[m], m) /\ (~files[m].open \/ ~b.cut => m \in L)
      /\ X \subseteq t.media \union {Seen(t)}
  BY <1>1, <1>2, <1>4
<1>6. PICK F, V, W, k : F = files /\ V = Seen(s) /\ W = Seen(t) /\ k = {s.disk, V}
  BY Zenon
<1>7. /\ Calm(s, t, Q, Q, M) /\ s.media = {s.disk} /\ m \in Names /\ m \in M /\ L \in SUBSET Names
      /\ Sound(Tab(V), V[Dir], L, F) /\ Inside(Tab(V), V[Dir], L, F, m, Q)
      /\ k \subseteq Y /\ Holding(Y, V, b, F[m], m)
      /\ (~F[m].open \/ ~b.cut => m \in L) /\ X \subseteq t.media \union {W}
  BY <1>1, <1>5, <1>6
<1>8. Holding(X, W, b, F[m], m)
  BY <1>6, <1>7, HoldingKept, SMTT(30)
<1> QED  BY <1>2, <1>6, <1>8

\* What a call on name n ends in: it has been calm beside the name, and what is
\* known of the name then holds.
Ends(n, t, e) ==
    /\ Calm(Before(n), t, Beside({n}), Beside({n}), Names \ {n})
    /\ Holding({t.disk, Seen(t)}, Seen(t), e, t.f, n)

\* The state that is kept.
LEMMA AfterSame ==
    ASSUME NEW t, Base(t), NEW v, v = After(t)
    PROVE  v.disk = t.disk /\ v.media = t.media /\ Seen(v) = Seen(t) /\ v.out = <<>>
<1>1. IsState(t)
  BY DEF Base
<1>2. v.disk = t.disk /\ v.media = t.media /\ v.win = t.win /\ v.wsect = t.wsect /\ v.out = <<>>
  BY <1>1 DEF IsState, After
<1> QED  BY <1>2 DEF Seen

\* So every call on a name ends in the invariant.
LEMMA TextFinish ==
    ASSUME Inv, TextInv, NoneAbandoned, NEW n \in Names, NEW t, Base(t), NEW e, NEW l, Finish(n, t, e, l),
           l.cut = {m \in Names : book[m].cut}, l.names = {n}, last.stray => l.stray,
           \E S : e.text \in Seq(S), ~l.stray => Ends(n, t, e)
    PROVE  TextInv'
<1>1. /\ book = [m \in Names |-> book[m]] /\ IsFiles(files)
      /\ vol' = After(t) /\ files' = Put(files, n, t.f) /\ book' = Put(book, n, e)
  BY Finishes
<1>2. last' = l
  BY DEF Finish
<1>3. vol'.disk = t.disk /\ vol'.media = t.media /\ Seen(vol') = Seen(t) /\ vol'.out = <<>>
  BY <1>1, AfterSame
<1>4. /\ files'[n] = t.f /\ book'[n] = e
      /\ \A m \in Names : m # n => files'[m] = files[m] /\ book'[m] = book[m]
  BY <1>1 DEF Put, IsFiles
<1>5. Texts(book)'
  <2>1. ASSUME NEW m \in Names PROVE \E S : book'[m].text \in Seq(S)
    <3>1. CASE m = n
      BY <3>1, <1>4
    <3>2. CASE m # n
      BY <3>2, <1>4 DEF TextInv, Texts
    <3> QED  BY <3>1, <3>2
  <2> QED  BY <2>1 DEF Texts
<1>6. ASSUME ~last'.stray, NEW m \in Names
      PROVE  Holding(Media(m)', Seen(vol'), book'[m], files'[m], m)
  <2>1. Ends(n, t, e) /\ ~last.stray
    BY <1>2, <1>6
  <2>2. CASE m = n
    <3>1. Media(m)' = {t.disk, Seen(t)}
      BY <1>2, <1>3, <2>2 DEF Media
    <3> QED  BY <3>1, <2>1, <2>2, <1>3, <1>4 DEF Ends
  <2>3. CASE m # n
    <3>1. PICK N, Q, M, s, X, g : /\ N = {n} /\ Q = Beside(N) /\ M = Names \ N /\ s = Before(n)
                                  /\ X = t.media \union {Seen(t)} /\ g = files[n]
      BY Zenon
    <3>2. s = Alone(vol, g) /\ Calm(s, t, Q, Q, M) /\ m \notin N
      BY <3>1, <2>1, <2>3 DEF Before, Alone, Ends
    <3>3. Holding(X, Seen(t), book[m], files[m], m)
      BY <3>1, <3>2, <2>1, OthersHold, Zenon
    <3>4. Media(m)' \subseteq X
      BY <1>2, <1>3, <3>1 DEF Media, Base
    <3>5. PICK Y : Y = Media(m)'
      OBVIOUS
    <3>6. Holding(Y, Seen(t), book[m], files[m], m)
      BY <3>3, <3>4, <3>5, HoldingLess
    <3> QED  BY <3>5, <3>6, <1>3, <1>4, <2>3
  <2> QED  BY <2>2, <2>3
<1>7. ~last'.stray => Told'
  BY <1>6 DEF Told
<1> QED  BY <1>3, <1>5, <1>7 DEF TextInv

\* What the record of a call says.
LEMMA QuietFacts ==
    ASSUME NEW op, NEW names
    PROVE  /\ Quiet(op, names).names = names /\ Quiet(op, names).stray = last.stray
           /\ Quiet(op, names).op = op /\ Quiet(op, names).got = <<>> /\ Quiet(op, names).want = <<>>
           /\ \A g, w : LET l == [Quiet(op, names) EXCEPT !.got = g, !.want = w]
                        IN  /\ l.names = names /\ l.stray = last.stray /\ l.op = op /\ l.got = g /\ l.want = w
                            /\ l.cut = {m \in Names : book[m].cut}
           /\ \A x : LET l == [Quiet(op, names) EXCEPT !.stray = x]
                     IN  l.names = names /\ l.stray = x /\ l.op = op
BY DEF Quiet

\* What is known as a call on an open file begins, Q being the clusters of the others.
OpenAt(s, n, Q) ==
    /\ s.res = "ok" /\ s.out = <<>> /\ s.f = files[n] /\ s.disk = vol.disk /\ s.media = {s.disk}
    /\ Seen(s) = Seen(vol) /\ Uncut(book) \in SUBSET Names /\ IsFiles(files) /\ IsNote(book[n])
    /\ Ended(s, Uncut(book), files, n) /\ Q \in SUBSET Clusters
    /\ ~book[n].cut => n \in Uncut(book)
    /\ ~last.stray => /\ Holding({s.disk, Seen(s)}, Seen(s), book[n], s.f, n)
                      /\ Apart(s, Uncut(book), files, n, Q) /\ DirtyOut(s.f, Q)

\* A call on an open file begins.
LEMMA TextOpened ==
    ASSUME Inv, TextInv, NoneAbandoned, NEW n \in Names, files[n].open, NEW s, s = Before(n), NEW N, N = {n},
           NEW Q, Q = Beside(N)
    PROVE  OpenAt(s, n, Q)
<1>1. PICK g, L : g = files[n] /\ L = Uncut(book)
  OBVIOUS
<1>2. s = Alone(vol, g)
  BY <1>1 DEF Before, Alone
<1>3. /\ s.res = "ok" /\ s.out = <<>> /\ s.f = g /\ s.disk = vol.disk /\ s.media = {s.disk}
      /\ Seen(s) = Seen(vol) /\ L \in SUBSET Names /\ IsFiles(files) /\ IsBook(book)
      /\ ~last.stray => \A m \in Names : Holding({s.disk, Seen(s)}, Seen(s), book[m], files[m], m)
      /\ Watch(Tab(Seen(s)), Seen(s)[Dir], L, files, N, Q)
      /\ ~book[n].cut => n \in L
  <2>1. StartsAt(s, g)
    BY <1>2, TextBegun
  <2> QED  BY <2>1, <1>1, Zenon DEF StartsAt
<1>4. Ended(s, L, files, n)
  BY <1>1, Begun
<1>5. IsNote(book[n])
  BY <1>3 DEF IsBook, IsNote
<1>6. Q \in SUBSET Clusters
  BY <1>3, Zenon DEF Watch
<1>7. ASSUME ~last.stray
      PROVE  /\ Holding({s.disk, Seen(s)}, Seen(s), book[n], s.f, n)
             /\ Apart(s, L, files, n, Q) /\ DirtyOut(s.f, Q)
  <2>1. Holding({s.disk, Seen(s)}, Seen(s), book[n], s.f, n)
    BY <1>1, <1>3, <1>7, Zenon
  <2>2. s.f.open
    BY <1>1, <1>3
  <2>3. Owns(Tab(Seen(s)), s.f)
    BY <2>1, <2>2 DEF Holding, Known
  <2>4. Torn(s, L, files, n)
    BY <1>3, <1>4, BusyTorn DEF Ended
  <2>5. Watch(Tab(Seen(s)), Seen(s)[Dir], L, files, {n}, Q)
    BY <1>3
  <2>6. DirtyOut(s.f, Q)
    BY <1>3, <2>3, <2>4, <2>5, OwnsOut, Zenon
  <2> QED  BY <2>1, <2>3, <2>5, <2>6 DEF Apart
<1> QED  BY <1>1, <1>3, <1>4, <1>5, <1>6, <1>7, Zenon DEF OpenAt

\* A call that was calm and gentle.
LEMMA CalmEnds ==
    ASSUME NEW n \in Names, NEW s, s = Before(n), NEW N, N = {n}, NEW Q, Q = Beside(N), Q \in SUBSET Clusters,
           NEW P, Q \in SUBSET P, NEW t, NEW M, Names \ N \in SUBSET M, Calm(s, t, P, Q, M),
           NEW e, Holding({t.disk, Seen(t)}, Seen(t), e, t.f, n)
    PROVE  Ends(n, t, e)
<1>1. PICK A : A = Names \ N
  BY Zenon
<1>2. A \in SUBSET M /\ Q \in SUBSET Q
  BY <1>1
<1>3. Calm(s, t, Q, Q, A)
  BY <1>2, CalmLess, ZenonT(60)
<1> QED  BY <1>1, <1>3 DEF Ends

\* A read keeps what is known, of its own file too.
LEMMA TextRead ==
    ASSUME Inv, TextInv, NoneAbandoned, NEW n \in Names, NEW len \in Lengths, Read(n, len)
    PROVE  TextInv'
<1>1. PICK t, l : /\ t \in f_read(Before(n), len) /\ Finish(n, t, book[n], l) /\ files[n].open
                  /\ l.cut = {m \in Names : book[m].cut} /\ l.names = {n} /\ l.stray = last.stray
  <2>1. PICK t \in f_read(Before(n), len) :
           /\ files[n].open
           /\ \E g, w : \/ Finish(n, t, book[n], [Quiet("read", {n}) EXCEPT !.got = g, !.want = w])
                        \/ Finish(n, t, book[n], Quiet("read", {n}))
    BY Zenon DEF Read
  <2>2. PICK g, w : \/ Finish(n, t, book[n], [Quiet("read", {n}) EXCEPT !.got = g, !.want = w])
                    \/ Finish(n, t, book[n], Quiet("read", {n}))
    BY <2>1, Zenon
  <2>3. PICK l, k : /\ l = [Quiet("read", {n}) EXCEPT !.got = g, !.want = w] /\ k = Quiet("read", {n})
    OBVIOUS
  <2>4. /\ l.cut = {m \in Names : book[m].cut} /\ l.names = {n} /\ l.stray = last.stray
        /\ k.cut = {m \in Names : book[m].cut} /\ k.names = {n} /\ k.stray = last.stray
    BY <2>3, QuietFacts, QuietCut
  <2>5. Finish(n, t, book[n], l) \/ Finish(n, t, book[n], k)
    BY <2>2, <2>3
  <2> QED  BY <2>1, <2>4, <2>5
<1>2. PICK s, N, Q, L, b : s = Before(n) /\ N = {n} /\ Q = Beside(N) /\ L = Uncut(book) /\ b = book[n]
  BY Zenon
<1>3. /\ s.res = "ok" /\ s.out = <<>> /\ s.media = {s.disk} /\ L \in SUBSET Names /\ IsFiles(files)
      /\ Ended(s, L, files, n) /\ Q \in SUBSET Clusters /\ (~b.cut => n \in L)
      /\ ~last.stray => /\ Holding({s.disk, Seen(s)}, Seen(s), b, s.f, n) /\ DirtyOut(s.f, Q)
  <2>1. OpenAt(s, n, Q)
    BY <1>1, <1>2, TextOpened
  <2> QED  BY <2>1, <1>2, Zenon DEF OpenAt
<1>4. len \in Nat
  BY CallsAssumption
<1>5. Ended(t, L, files, n)
  BY <1>1, <1>2, <1>3, <1>4, FileReading
<1>6. Base(t) /\ t.f.open
  BY <1>3, <1>5, BusyTorn, Zenon DEF Ended, Busy, IsFile
<1>7. ASSUME ~l.stray PROVE Ends(n, t, b)
  <2>1. t \in f_read(s, len) /\ Holding({s.disk, Seen(s)}, Seen(s), b, s.f, n) /\ DirtyOut(s.f, Q)
    BY <1>1, <1>2, <1>3, <1>7
  <2>2. Gentle(s, t, Q)
    BY <1>3, <1>4, <2>1, ReadsText, Zenon
  <2>3. ASSUME ~s.f.dirty PROVE Gentle(s, t, Clusters)
    <3>1. PICK C : C = Clusters
      OBVIOUS
    <3>2. DirtyOut(s.f, C)
      BY <2>3, <3>1 DEF DirtyOut
    <3>3. Gentle(s, t, C)
      BY <1>3, <1>4, <2>1, <3>2, ReadsText, Zenon
    <3> QED  BY <3>1, <3>3
  <2>4. Holding({t.disk, Seen(t)}, Seen(t), b, t.f, n)
    BY <1>3, <1>6, <2>1, <2>2, <2>3, HoldingGentle, Zenon
  <2>5. PICK C, M : C = Clusters /\ M = Names
    OBVIOUS
  <2>6. Calm(s, t, C, Q, M) /\ Q \in SUBSET C /\ Names \ N \in SUBSET M
    BY <1>3, <2>2, <2>5 DEF Gentle
  <2> QED  BY <1>2, <1>3, <2>4, <2>6, CalmEnds, Zenon
<1>8. \E S : b.text \in Seq(S)
  BY <1>2 DEF TextInv, Texts
<1>9. Finish(n, t, b, l)
  BY <1>1, <1>2
<1> QED  BY <1>1, <1>6, <1>7, <1>8, <1>9, TextFinish

\* A file that is marked as changed, or whose storing was given up, and reads its text.
LEMMA HoldingLoose ==
    ASSUME NEW X, NEW V, NEW b, NEW f, NEW n, f.open, Owns(Tab(V), f), b.kind # "absent",
           b.kind = "file" => Reads(V, f, b.text) /\ V[Dir][n].used /\ (~f.modified => Noted(V, f, n)),
           f.modified \/ b.lost, b.kind # "unknown" => ~b.settled
    PROVE  Holding(X, V, b, f, n)
BY DEF Holding, Known, Solid

\* What a text becomes when the file is stretched.
Gapped(x, k) == x \o [i \in 1..k |-> AnyContent]

\* It is the text, and then anything.
LEMMA GappedText ==
    ASSUME NEW x, NEW m \in Nat, IsText(x, m), NEW r \in Nat, m <= r, NEW z, z = Gapped(x, r - Len(x))
    PROVE  /\ IsText(z, r) /\ \E S : z \in Seq(S)
           /\ \A i \in 1..r : IF i <= m THEN z[i] = x[i] ELSE z[i] = AnyContent
<1>1. PICK S : x \in Seq(S) /\ m = Len(x)
  BY DEF IsText
<1>2. PICK k, g : k = r - m /\ g = [i \in 1..k |-> AnyContent]
  BY Zenon
<1>3. k \in Nat /\ g \in Seq({AnyContent}) /\ Len(g) = k
  BY <1>2
<1>4. PICK U : U = S \union {AnyContent}
  BY Zenon
<1>5. x \in Seq(U) /\ g \in Seq(U)
  BY <1>1, <1>3, <1>4
<1>6. z = x \o g
  BY <1>1, <1>2 DEF Gapped
<1>7. z \in Seq(U) /\ Len(z) = m + k /\ \A i \in 1..(m + k) : z[i] = IF i <= m THEN x[i] ELSE g[i - m]
  <2>1. Len(x \o g) = m + k /\ x \o g \in Seq(U)
    BY <1>1, <1>3, <1>5
  <2>2. ASSUME NEW i \in 1..(m + k) PROVE (x \o g)[i] = IF i <= m THEN x[i] ELSE g[i - m]
    <3>1. i \in 1..(Len(x) + Len(g))
      BY <1>1, <1>3
    <3> QED  BY <3>1, <1>1, <1>3, <1>5
  <2> QED  BY <1>6, <2>1, <2>2, Zenon
<1>8. \A i \in 1..r : i > m => g[i - m] = AnyContent
  BY <1>2, <1>3
<1>9. m + k = r
  BY <1>2
<1> QED  BY <1>7, <1>8, <1>9 DEF IsText

\* A file stays a text when a sequence follows it.
LEMMA GappedSeq ==
    ASSUME NEW x, NEW S, x \in Seq(S), NEW k \in Int
    PROVE  \E U : Gapped(x, k) \in Seq(U)
<1>1. PICK g, U : g = [i \in 1..k |-> AnyContent] /\ U = S \union {AnyContent}
  BY Zenon
<1>2. x \in Seq(U)
  BY <1>1
<1>3. CASE k \in Nat
  <2>1. g \in Seq(U)
    BY <1>1, <1>3
  <2> QED  BY <1>1, <1>2, <2>1 DEF Gapped
<1>4. CASE ~(k \in Nat)
  <2>1. 1..k = 1..0
    BY <1>4
  <2>2. g = [i \in 1..0 |-> AnyContent]
    BY <1>1, <2>1
  <2>3. g \in Seq(U)
    BY <2>2
  <2> QED  BY <1>1, <1>2, <2>3 DEF Gapped
<1> QED  BY <1>3, <1>4

\* A note of which nothing is known any more.
LEMMA UnsureFacts ==
    ASSUME NEW b, IsNote(b)
    PROVE  /\ Unsure(b).kind = "unknown" /\ Unsure(b).text = <<>> /\ ~Unsure(b).settled
           /\ \E S : Unsure(b).text \in Seq(S)
<1>1. PICK u : u = Unsure(b)
  OBVIOUS
<1>2. u = [kind |-> "unknown", text |-> <<>>, settled |-> FALSE, lost |-> b.lost, cut |-> b.cut]
  BY <1>1, Zenon DEF IsNote, Unsure
<1>3. <<>> \in Seq({})
  OBVIOUS
<1> QED  BY <1>1, <1>2, <1>3

\* What becomes of the note of a file that is positioned.
SeekNote(b, t, f) ==
    CASE t.res = "ok" /\ t.f.size > f.size ->
             [b EXCEPT !.text = IF b.kind = "file" THEN Gapped(@, t.f.size - Len(b.text)) ELSE @,
                       !.settled = FALSE]
      [] t.res # "ok" /\ f.write -> Unsure(b)
      [] OTHER -> b

\* What the note of a file that is sought is, part by part.
LEMMA SeekNoteFacts ==
    ASSUME NEW b, IsNote(b), NEW t, NEW f, NEW e, e = SeekNote(b, t, f)
    PROVE  /\ t.res = "ok" /\ t.f.size > f.size =>
                  /\ e.kind = b.kind /\ ~e.settled /\ e.lost = b.lost /\ e.cut = b.cut
                  /\ e.text = IF b.kind = "file" THEN Gapped(b.text, t.f.size - Len(b.text)) ELSE b.text
           /\ ~(t.res = "ok" /\ t.f.size > f.size) /\ t.res # "ok" /\ f.write => e = Unsure(b)
           /\ ~(t.res = "ok" /\ t.f.size > f.size) /\ ~(t.res # "ok" /\ f.write) => e = b
<1>1. ASSUME t.res = "ok", t.f.size > f.size
      PROVE  /\ e.kind = b.kind /\ ~e.settled /\ e.lost = b.lost /\ e.cut = b.cut
             /\ e.text = IF b.kind = "file" THEN Gapped(b.text, t.f.size - Len(b.text)) ELSE b.text
  <2>1. PICK x : x = IF b.kind = "file" THEN Gapped(b.text, t.f.size - Len(b.text)) ELSE b.text
    OBVIOUS
  <2>2. e = [b EXCEPT !.text = x, !.settled = FALSE]
    BY <1>1, <2>1 DEF SeekNote
  <2>3. e = [kind |-> b.kind, text |-> x, settled |-> FALSE, lost |-> b.lost, cut |-> b.cut]
    BY <2>2, Zenon DEF IsNote
  <2> QED  BY <2>1, <2>3
<1>2. ASSUME ~(t.res = "ok" /\ t.f.size > f.size)
      PROVE  (t.res # "ok" /\ f.write => e = Unsure(b)) /\ (~(t.res # "ok" /\ f.write) => e = b)
  BY <1>2 DEF SeekNote
<1> QED  BY <1>1, <1>2

\* What f_lseek leaves of what is known of its file.
LEMMA SeekHolds ==
    ASSUME NEW s, NEW L \in SUBSET Names, NEW F, IsFiles(F), NEW n \in Names, Ended(s, L, F, n),
           s.res = "ok", s.media = {s.disk}, NEW to \in Nat, NEW t \in f_lseek(s, to), NEW Q, DirtyOut(s.f, Q),
           NEW b, IsNote(b), Holding({s.disk, Seen(s)}, Seen(s), b, s.f, n), ~b.cut => n \in L,
           NEW e, e = SeekNote(b, t, s.f)
    PROVE  Calm(s, t, Clusters, Q, Names) /\ Holding({t.disk, Seen(t)}, Seen(t), e, t.f, n)
<1>1. Ended(t, L, F, n) /\ s.f.open /\ t.f.open /\ s.f.size \in Nat /\ Base(s)
  <2>1. Ended(t, L, F, n)
    BY FileSeeking
  <2> QED  BY <2>1, BusyTorn, Zenon DEF Ended, Busy, IsFile, FileOK
<1>2. PICK C, M, X, V, f : C = Clusters /\ M = Names /\ X = {t.disk, Seen(t)} /\ V = Seen(s) /\ f = s.f
  BY Zenon
<1>3. Owns(Tab(V), f) /\ b.kind # "absent" /\ Known(V, b, f, n)
  BY <1>1, <1>2 DEF Holding, Known
<1>4. CASE Stretches(s, t, Q, to)
  <2>1. /\ t.res = "ok" /\ t.f.modified /\ t.f.size \in Nat /\ f.size < t.f.size
        /\ Calm(s, t, C, Q, M) /\ Owns(Tab(Seen(t)), t.f)
        /\ \A x, z : /\ Reads(V, f, x) /\ IsText(z, t.f.size)
                     /\ \A i \in 1..t.f.size : IF i <= f.size THEN z[i] = x[i] ELSE z[i] = AnyContent
                     => Reads(Seen(t), t.f, z)
    BY <1>2, <1>3, <1>4 DEF Stretches
  <2>2. /\ e.kind = b.kind /\ ~e.settled
        /\ e.text = IF b.kind = "file" THEN Gapped(b.text, t.f.size - Len(b.text)) ELSE b.text
    <3>1. t.f.size > f.size
      BY <2>1, <1>1, <1>2
    <3> QED  BY <3>1, <2>1, <1>2, SeekNoteFacts
  <2>3. ASSUME b.kind = "file" PROVE Reads(Seen(t), t.f, e.text) /\ Seen(t)[Dir][n].used
    <3>1. Reads(V, f, b.text) /\ V[Dir][n].used
      BY <2>3, <1>1, <1>2, <1>3 DEF Known
    <3>2. Seen(t)[Dir] = V[Dir]
      BY <2>1, <1>1, <1>2, CalmDir
    <3>3. PICK x, m, r, z : x = b.text /\ m = f.size /\ r = t.f.size /\ z = e.text
      OBVIOUS
    <3>4. /\ m \in Nat /\ r \in Nat /\ m <= r /\ IsText(x, m) /\ z = Gapped(x, r - Len(x))
      BY <3>1, <3>3, <2>1, <2>2, <2>3, <1>1, <1>2 DEF Reads
    <3>5. IsText(z, r) /\ \A i \in 1..r : IF i <= m THEN z[i] = x[i] ELSE z[i] = AnyContent
      BY <3>4, GappedText
    <3>6. Reads(Seen(t), t.f, z)
      BY <3>1, <3>3, <3>5, <2>1
    <3> QED  BY <3>1, <3>2, <3>3, <3>6
  <2>4. Holding(X, Seen(t), e, t.f, n)
    <3>1. PICK W, g : W = Seen(t) /\ g = t.f
      OBVIOUS
    <3>2. /\ g.open /\ Owns(Tab(W), g) /\ e.kind # "absent" /\ g.modified /\ ~e.settled
          /\ e.kind = "file" => Reads(W, g, e.text) /\ W[Dir][n].used
      BY <3>1, <1>1, <1>3, <2>1, <2>2, <2>3
    <3>3. Holding(X, W, e, g, n)
      BY <3>2, HoldingLoose
    <3> QED  BY <3>1, <3>3
  <2> QED  BY <2>1, <2>4, <1>2
<1>5. CASE ~Stretches(s, t, Q, to)
  <2>1. Gentle(s, t, Q)
    BY <1>5, SeeksText
  <2>2. Calm(s, t, C, Q, M) /\ t.f.size = f.size /\ Owns(Tab(Seen(t)), t.f)
    BY <2>1, <1>2, <1>3 DEF Gentle, Faithful
  <2>3. ~(t.res = "ok" /\ t.f.size > f.size)
    BY <2>2, <1>1, <1>2
  <2>4. CASE t.res # "ok" /\ f.write
    <3>1. e = Unsure(b)
      BY <2>3, <2>4, <1>2, SeekNoteFacts
    <3>2. e.kind = "unknown"
      BY <3>1, UnsureFacts
    <3>3. Holding(X, Seen(t), e, t.f, n)
      BY <3>2, <2>2, HoldingUnsure
    <3> QED  BY <3>3, <2>2, <1>2
  <2>5. CASE ~(t.res # "ok" /\ f.write)
    <3>1. e = b
      BY <2>3, <2>5, <1>2, SeekNoteFacts
    <3>2. ASSUME ~s.f.dirty PROVE Gentle(s, t, Clusters)
      <4>1. DirtyOut(s.f, C)
        BY <3>2, <1>2 DEF DirtyOut
      <4>2. Gentle(s, t, C) \/ Stretches(s, t, C, to)
        BY <4>1, SeeksText
      <4>3. ~Stretches(s, t, C, to)
        BY <2>2, <1>1, <1>2 DEF Stretches
      <4> QED  BY <4>2, <4>3, <1>2
    <3>3. Holding({t.disk, Seen(t)}, Seen(t), b, t.f, n)
      BY <3>2, <2>1, <1>1, HoldingGentle, Zenon
    <3> QED  BY <3>1, <3>3, <2>2, <1>2
  <2> QED  BY <2>4, <2>5
<1> QED  BY <1>4, <1>5

\* A seek keeps what is known.
LEMMA TextSeek ==
    ASSUME Inv, TextInv, NoneAbandoned, NEW n \in Names, NEW ofs \in Offsets, Seek(n, ofs)
    PROVE  TextInv'
<1>1. PICK t \in f_lseek(Before(n), ofs) :
         Finish(n, t, SeekNote(book[n], t, files[n]), Quiet("seek", {n})) /\ files[n].open
  BY Zenon DEF Seek, SeekNote, Gapped
<1>2. PICK s, N, Q, L, b, e, l : /\ s = Before(n) /\ N = {n} /\ Q = Beside(N) /\ L = Uncut(book) /\ b = book[n]
                                 /\ e = SeekNote(b, t, files[n]) /\ l = Quiet("seek", {n})
  OBVIOUS
<1>3. /\ s.res = "ok" /\ s.media = {s.disk} /\ L \in SUBSET Names /\ IsFiles(files) /\ IsNote(b)
      /\ Ended(s, L, files, n) /\ Q \in SUBSET Clusters /\ (~b.cut => n \in L) /\ s.f = files[n]
      /\ ~last.stray => /\ Holding({s.disk, Seen(s)}, Seen(s), b, s.f, n) /\ DirtyOut(s.f, Q)
  <2>1. OpenAt(s, n, Q)
    BY <1>1, <1>2, TextOpened
  <2> QED  BY <2>1, <1>2, Zenon DEF OpenAt
<1>4. ofs \in Nat
  BY CallsAssumption
<1>5. Ended(t, L, files, n)
  BY <1>1, <1>2, <1>3, <1>4, FileSeeking
<1>6. Base(t) /\ t.f.size \in Nat
  BY <1>3, <1>5, BusyTorn DEF Ended, FileOK
<1>7. l.cut = {m \in Names : book[m].cut} /\ l.names = {n} /\ l.stray = last.stray
  BY <1>2, QuietFacts, QuietCut
<1>8. ASSUME ~l.stray PROVE Ends(n, t, e)
  <2>1. PICK C, M : C = Clusters /\ M = Names
    OBVIOUS
  <2>2. /\ t \in f_lseek(s, ofs) /\ Holding({s.disk, Seen(s)}, Seen(s), b, s.f, n) /\ DirtyOut(s.f, Q)
        /\ e = SeekNote(b, t, s.f)
    BY <1>1, <1>2, <1>3, <1>7, <1>8
  <2>3. Calm(s, t, Clusters, Q, Names) /\ Holding({t.disk, Seen(t)}, Seen(t), e, t.f, n)
    BY <1>3, <1>4, <2>2, SeekHolds, ZenonT(60)
  <2>4. Calm(s, t, C, Q, M) /\ Q \in SUBSET C /\ Names \ N \in SUBSET M
    BY <1>3, <2>1, <2>3
  <2> QED  BY <1>2, <1>3, <2>3, <2>4, CalmEnds, Zenon
<1>9. \E S : e.text \in Seq(S)
  <2>1. PICK S : b.text \in Seq(S)
    BY <1>2 DEF TextInv, Texts
  <2>2. PICK k : k = t.f.size - Len(b.text)
    OBVIOUS
  <2>3. k \in Int
    BY <2>1, <2>2, <1>6
  <2>4. \E U : Gapped(b.text, k) \in Seq(U)
    BY <2>1, <2>3, GappedSeq
  <2>5. \E U : Unsure(b).text \in Seq(U)
    BY <1>3, UnsureFacts
  <2>6. e.text = Gapped(b.text, k) \/ e.text = b.text \/ e = Unsure(b)
    BY <1>2, <1>3, <2>2, SeekNoteFacts
  <2> QED  BY <2>1, <2>4, <2>5, <2>6
<1>10. Finish(n, t, e, l)
  BY <1>1, <1>2
<1> QED  BY <1>6, <1>7, <1>8, <1>9, <1>10, TextFinish

\* The beginning of a text.
Cutoff(x, p) == SubSeq(x, 1, Min2(p, Len(x)))

\* Text z is the first p bytes of text x.
Begins(z, x, p) == Len(z) = p /\ \A i \in 1..p : z[i] = x[i]

\* The beginning of a sequence is one, of the length asked for if there is that much.
LEMMA PrefixText ==
    ASSUME NEW x, NEW S, x \in Seq(S), NEW p \in Nat, NEW z, z = Cutoff(x, p)
    PROVE  /\ z \in Seq(S)
           /\ p <= Len(x) => Begins(z, x, p)
<1>1. PICK k : k = Min2(p, Len(x))
  OBVIOUS
<1>2. Len(x) \in Nat
  OBVIOUS
<1>3. k \in 0..Len(x) /\ (p <= Len(x) => k = p)
  BY <1>1, <1>2 DEF Min2
<1>4. z = SubSeq(x, 1, k)
  BY <1>1 DEF Cutoff
<1>5. z \in Seq(S) /\ Len(z) = k /\ \A i \in 1..k : z[i] = x[i]
  <2>1. SubSeq(x, 1, k) \in Seq(S)
    BY <1>2, <1>3
  <2>2. Len(SubSeq(x, 1, k)) = k
    BY <1>2, <1>3
  <2>3. ASSUME NEW i \in 1..k PROVE SubSeq(x, 1, k)[i] = x[i]
    BY <1>2, <1>3, <2>3
  <2> QED  BY <1>4, <2>1, <2>2, <2>3
<1> QED  BY <1>3, <1>5 DEF Begins

\* What becomes of the note of a file that is cut.
CutNote(b, t, f) ==
    CASE t.res = "denied" \/ (t.res = "ok" /\ t.f.size = f.size) -> b
      [] t.res = "ok" /\ t.f.size # f.size ->
             [b EXCEPT !.text = Cutoff(@, t.f.ptr), !.settled = FALSE, !.cut = TRUE]
      [] OTHER -> [Unsure(b) EXCEPT !.cut = TRUE]

\* What the note of a file that is cut is, part by part.
LEMMA CutNoteFacts ==
    ASSUME NEW b, IsNote(b), NEW t, NEW f, NEW e, e = CutNote(b, t, f)
    PROVE  /\ t.res = "denied" \/ (t.res = "ok" /\ t.f.size = f.size) => e = b
           /\ t.res = "ok" /\ t.f.size # f.size =>
                  /\ e.kind = b.kind /\ ~e.settled /\ e.lost = b.lost
                  /\ e.text = Cutoff(b.text, t.f.ptr)
           /\ t.res \notin {"denied", "ok"} => e.kind = "unknown" /\ e.text = <<>>
<1>1. ASSUME t.res = "ok", t.f.size # f.size
      PROVE  /\ e.kind = b.kind /\ ~e.settled /\ e.lost = b.lost
             /\ e.text = Cutoff(b.text, t.f.ptr)
  <2>1. PICK x : x = Cutoff(b.text, t.f.ptr)
    OBVIOUS
  <2>2. e = [b EXCEPT !.text = x, !.settled = FALSE, !.cut = TRUE]
    BY <1>1, <2>1 DEF CutNote
  <2>3. e = [kind |-> b.kind, text |-> x, settled |-> FALSE, lost |-> b.lost, cut |-> TRUE]
    BY <2>2, Zenon DEF IsNote
  <2> QED  BY <2>1, <2>3
<1>2. ASSUME t.res \notin {"denied", "ok"} PROVE e.kind = "unknown" /\ e.text = <<>>
  <2>1. e = [Unsure(b) EXCEPT !.cut = TRUE]
    BY <1>2 DEF CutNote
  <2>2. e = [kind |-> "unknown", text |-> <<>>, settled |-> FALSE, lost |-> b.lost, cut |-> TRUE]
    BY <2>1, Zenon DEF IsNote, Unsure
  <2> QED  BY <2>2
<1>3. t.res = "denied" \/ (t.res = "ok" /\ t.f.size = f.size) => e = b
  BY DEF CutNote
<1> QED  BY <1>1, <1>2, <1>3

\* What f_truncate leaves of what is known of its file.
LEMMA CutHolds ==
    ASSUME NEW s, NEW L \in SUBSET Names, NEW F, IsFiles(F), NEW n \in Names, Ended(s, L, F, n),
           s.res = "ok", s.media = {s.disk}, NEW t \in f_truncate(s), NEW Q, Apart(s, L, F, n, Q),
           NEW b, IsNote(b), Holding({s.disk, Seen(s)}, Seen(s), b, s.f, n), ~b.cut => n \in L,
           NEW e, e = CutNote(b, t, s.f), t.res # "ok" => ~t.f.dirty
    PROVE  Calm(s, t, Q, Q, Names) /\ Holding({t.disk, Seen(t)}, Seen(t), e, t.f, n)
<1>1. Ended(t, L \ {n}, F, n) /\ s.f.open /\ t.f.open /\ s.f.size \in Nat /\ Base(s)
  <2>1. Ended(t, L \ {n}, F, n)
    BY FileTruncating
  <2> QED  BY <2>1, BusyTorn, Zenon DEF Ended, Busy, IsFile, FileOK
<1>2. PICK M, X, V, f, W, g : M = Names /\ X = {t.disk, W} /\ V = Seen(s) /\ f = s.f /\ W = Seen(t) /\ g = t.f
  BY Zenon
<1>3. /\ Calm(s, t, Q, Q, Names)
      /\ t.res = "denied" \/ (t.res = "ok" /\ t.f.size = s.f.size) => Looked(s, t) /\ t.f = s.f
      /\ t.res = "ok" /\ t.f.size # s.f.size => Shortens(s, t)
  BY CutsText
<1>4. Known(V, b, f, n) /\ b.kind # "absent"
  BY <1>1, <1>2 DEF Holding, Known
<1>5. CASE t.res = "denied" \/ (t.res = "ok" /\ t.f.size = s.f.size)
  <2>1. e = b
    BY <1>5, CutNoteFacts
  <2>2. \A A : Gentle(s, t, A)
    BY <1>3, <1>5, GentleLooked
  <2>3. Holding({t.disk, Seen(t)}, Seen(t), b, t.f, n)
    BY <1>1, <2>2, HoldingGentle, Zenon
  <2> QED  BY <1>3, <2>1, <2>3
<1>6. CASE t.res = "ok" /\ t.f.size # s.f.size
  <2>1. /\ f.ptr \in Nat /\ f.size \in Nat /\ f.ptr < f.size
        /\ g.size = f.ptr /\ g.ptr = f.ptr /\ ~g.dirty /\ g.modified
        /\ \A x, z : Reads(V, f, x) /\ IsText(z, g.size) /\ (\A i \in 1..g.size : z[i] = x[i]) => Reads(W, g, z)
    BY <1>2, <1>3, <1>6 DEF Shortens
  <2>2. e.kind = b.kind /\ ~e.settled /\ e.text = Cutoff(b.text, g.ptr)
    BY <1>2, <1>6, CutNoteFacts
  <2>3. ASSUME b.kind = "file" PROVE Reads(W, g, e.text) /\ W[Dir][n].used
    <3>1. Reads(V, f, b.text) /\ V[Dir][n].used
      BY <2>3, <1>1, <1>2, <1>4 DEF Known
    <3>2. W[Dir] = V[Dir]
      BY <1>1, <1>2, <1>3, CalmDir
    <3>3. PICK x, p, z : x = b.text /\ p = g.ptr /\ z = e.text
      OBVIOUS
    <3>4. PICK S : x \in Seq(S) /\ Len(x) = f.size
      BY <3>1, <3>3 DEF Reads, IsText
    <3>5. p \in Nat /\ p <= Len(x) /\ p = g.size /\ z = Cutoff(x, p)
      <4>1. p = f.ptr /\ p \in Nat /\ p = g.size
        BY <3>3, <2>1
      <4>2. \A a, c \in Nat : a < c => a <= c
        OBVIOUS
      <4>3. p <= f.size
        BY <4>1, <4>2, <2>1
      <4> QED  BY <4>1, <4>3, <3>3, <3>4, <2>2
    <3>6. z \in Seq(S) /\ Len(z) = p /\ \A i \in 1..p : z[i] = x[i]
      <4>1. Begins(z, x, p) /\ z \in Seq(S)
        BY <3>4, <3>5, PrefixText, Zenon
      <4> QED  BY <4>1 DEF Begins
    <3>7. IsText(z, g.size) /\ \A i \in 1..g.size : z[i] = x[i]
      BY <3>5, <3>6 DEF IsText
    <3>8. Reads(W, g, z)
      BY <3>1, <3>3, <3>7, <2>1
    <3> QED  BY <3>1, <3>2, <3>3, <3>8
  <2>4. Owns(Tab(W), g)
    BY <2>1 DEF Owns
  <2>5. /\ g.open /\ e.kind # "absent" /\ g.modified /\ ~e.settled
        /\ e.kind = "file" => Reads(W, g, e.text) /\ W[Dir][n].used
    BY <1>1, <1>2, <1>4, <2>1, <2>2, <2>3
  <2>6. Holding(X, W, e, g, n)
    BY <2>4, <2>5, HoldingLoose
  <2> QED  BY <2>6, <1>2, <1>3
<1>7. CASE t.res \notin {"denied", "ok"}
  <2>1. e.kind = "unknown"
    BY <1>7, CutNoteFacts
  <2>2. Owns(Tab(W), g)
    BY <1>2, <1>7 DEF Owns
  <2>3. Holding(X, W, e, g, n)
    BY <2>1, <2>2, HoldingUnsure
  <2> QED  BY <2>3, <1>2, <1>3
<1> QED  BY <1>5, <1>6, <1>7

\* Truncate keeps what is known, unless it leaves a stray buffer.
LEMMA TextTruncate ==
    ASSUME Inv, TextInv, NoneAbandoned, NEW n \in Names, Truncate(n)
    PROVE  TextInv'
<1>1. PICK t \in f_truncate(Before(n)) :
         /\ Finish(n, t, CutNote(book[n], t, files[n]),
                   [Quiet("truncate", {n}) EXCEPT !.stray = @ \/ (t.res # "ok" /\ t.f.dirty)])
         /\ files[n].open
  BY Zenon DEF Truncate, CutNote, Cutoff
<1>2. PICK s, N, Q, L, b, e, k, l : /\ s = Before(n) /\ N = {n} /\ Q = Beside(N) /\ L = Uncut(book) /\ b = book[n]
                                 /\ e = CutNote(b, t, files[n])
                                 /\ k = (last.stray \/ (t.res # "ok" /\ t.f.dirty))
                                 /\ l = [Quiet("truncate", {n}) EXCEPT !.stray = k]
  BY Zenon
<1>3. /\ s.res = "ok" /\ s.media = {s.disk} /\ L \in SUBSET Names /\ IsFiles(files) /\ IsNote(b)
      /\ Ended(s, L, files, n) /\ Q \in SUBSET Clusters /\ (~b.cut => n \in L) /\ s.f = files[n]
      /\ ~last.stray => /\ Holding({s.disk, Seen(s)}, Seen(s), b, s.f, n) /\ Apart(s, L, files, n, Q)
  <2>1. OpenAt(s, n, Q)
    BY <1>1, <1>2, TextOpened
  <2> QED  BY <2>1, <1>2, Zenon DEF OpenAt
<1>4. Quiet("truncate", {n}).stray = last.stray
  BY QuietFacts
<1>5. Ended(t, L \ {n}, files, n)
  BY <1>1, <1>2, <1>3, FileTruncating
<1>6. Base(t) /\ t.f.ptr \in Nat
  <2>1. PICK K : K = L \ {n}
    BY Zenon
  <2>2. K \in SUBSET Names /\ Ended(t, K, files, n)
    BY <2>1, <1>3, <1>5
  <2> QED  BY <1>3, <2>2, BusyTorn DEF Ended, FileOK
<1>7. /\ l.cut = {m \in Names : book[m].cut} /\ l.names = {n} /\ l.stray = k
  BY <1>2, QuietFacts, QuietCut
<1>8. ASSUME ~l.stray PROVE Ends(n, t, e)
  <2>1. /\ t \in f_truncate(s) /\ Holding({s.disk, Seen(s)}, Seen(s), b, s.f, n) /\ Apart(s, L, files, n, Q)
        /\ e = CutNote(b, t, s.f) /\ (t.res # "ok" => ~t.f.dirty)
    BY <1>1, <1>2, <1>3, <1>7, <1>8, Zenon
  <2>2. Calm(s, t, Q, Q, Names) /\ Holding({t.disk, Seen(t)}, Seen(t), e, t.f, n)
    BY <1>3, <2>1, CutHolds, ZenonT(60)
  <2>3. PICK M : M = Names
    OBVIOUS
  <2>4. Calm(s, t, Q, Q, M) /\ Q \in SUBSET Q /\ Names \ N \in SUBSET M
    BY <1>3, <2>2, <2>3
  <2> QED  BY <1>2, <1>3, <2>2, <2>4, CalmEnds, Zenon
<1>9. \E S : e.text \in Seq(S)
  <2>1. PICK S : b.text \in Seq(S)
    BY <1>2 DEF TextInv, Texts
  <2>2. PICK z : z = Cutoff(b.text, t.f.ptr)
    OBVIOUS
  <2>3. z \in Seq(S)
    BY <2>1, <2>2, <1>6, PrefixText, Zenon
  <2>4. e.text = z \/ e.text = b.text \/ e.text = <<>>
    BY <1>2, <1>3, <2>2, CutNoteFacts
  <2>5. <<>> \in Seq({})
    OBVIOUS
  <2> QED  BY <2>1, <2>3, <2>4, <2>5, Zenon
<1>10. Finish(n, t, e, l)
  BY <1>1, <1>2, <1>4
<1> QED  BY <1>2, <1>6, <1>7, <1>8, <1>9, <1>10, TextFinish, Zenon

\* What the disk holds of a file that is stored: its text, wherever the file is seen.
LEMMA StoredFirm ==
    ASSUME NEW s, NEW L \in SUBSET Names, NEW F, IsFiles(F), NEW n \in Names, Ended(s, L, F, n),
           NEW b, b.kind = "file" => /\ Reads(Seen(s), s.f, b.text) /\ Noted(Seen(s), s.f, n) /\ Seen(s)[Dir][n].used,
           b.kind # "absent"
    PROVE  /\ AllFirm({Seen(s)}, b, n)
           /\ b.kind = "file" => \E k, q : Good(Seen(s), n, b.text, k, q)
<1>1. ASSUME b.kind = "file" PROVE \E k, q : Good(Seen(s), n, b.text, k, q)
  <2>1. PICK x : x = b.text
    OBVIOUS
  <2>2. Reads(Seen(s), s.f, x) /\ Noted(Seen(s), s.f, n) /\ Seen(s)[Dir][n].used
    BY <2>1, <1>1
  <2>3. \E k, q : Good(Seen(s), n, x, k, q)
    BY <2>2, OpenGood, Zenon
  <2> QED  BY <2>1, <2>3
<1>2. ASSUME b.kind = "file" PROVE AllFirm({Seen(s)}, b, n)
  <2>1. PICK k, q : Good(Seen(s), n, b.text, k, q)
    BY <1>1, <1>2
  <2> QED  BY <2>1, <1>2 DEF AllFirm, Firm
<1>3. ASSUME b.kind # "file" PROVE AllFirm({Seen(s)}, b, n)
  BY <1>3 DEF AllFirm, Firm
<1> QED  BY <1>1, <1>2, <1>3

\* What f_sync leaves of what is known of a file that is marked as changed.
LEMMA SyncHolds ==
    ASSUME NEW s, NEW t, NEW L \in SUBSET Names, NEW F, IsFiles(F), NEW n \in Names,
           Ended(t, L, F, n), NEW Q, Syncs(s, t, n, Q), Owns(Tab(Seen(s)), s.f),
           NEW b, b.kind # "absent",
           b.kind = "file" => Reads(Seen(s), s.f, b.text) /\ Seen(s)[Dir][n].used,
           t.res = "ok" => ~b.cut,
           t.res # "ok" => (b.kind # "unknown" => ~b.settled) /\ (t.f.modified \/ b.lost)
    PROVE  Holding({t.disk, Seen(t)}, Seen(t), b, t.f, n)
<1>1. PICK V, W, f, g, X : V = Seen(s) /\ W = Seen(t) /\ f = s.f /\ g = t.f /\ X = {t.disk, W}
  BY Zenon
<1>2. /\ Owns(Tab(W), g) /\ (~g.modified => Noted(W, g, n))
      /\ t.res = "ok" => t.disk = W /\ ~g.modified
      /\ b.kind = "file" => Reads(W, g, b.text) /\ W[Dir][n].used
  BY <1>1 DEF Syncs, Faithful
<1>3. g.open
  BY <1>1 DEF Ended, Busy, IsFile
<1>4. CASE t.res # "ok"
  <2>1. CASE b.kind = "unknown"
    <3>1. Holding(X, W, b, g, n)
      BY <2>1, <1>2, HoldingUnsure
    <3> QED  BY <3>1, <1>1
  <2>2. CASE b.kind # "unknown"
    <3>1. /\ b.kind = "file" => Reads(W, g, b.text) /\ W[Dir][n].used /\ (~g.modified => Noted(W, g, n))
          /\ (g.modified \/ b.lost) /\ ~b.settled
      BY <2>2, <1>1, <1>2, <1>4
    <3>2. Holding(X, W, b, g, n)
      BY <3>1, <2>2, <1>2, <1>3, HoldingLoose
    <3> QED  BY <3>2, <1>1
  <2> QED  BY <2>1, <2>2
<1>5. CASE t.res = "ok"
  <2>1. X = {Seen(t)} /\ ~g.modified /\ Noted(W, g, n) /\ ~b.cut
    BY <1>1, <1>2, <1>5
  <2>2. Known(W, b, g, n)
    BY <2>1, <1>2, <1>3 DEF Known
  <2>3. AllFirm({Seen(t)}, b, n)
    <3>1. /\ b.kind = "file" => Reads(Seen(t), t.f, b.text) /\ Noted(Seen(t), t.f, n) /\ Seen(t)[Dir][n].used
          /\ b.kind # "absent"
      BY <1>1, <1>2, <2>1
    <3> QED  BY <3>1, StoredFirm
  <2>4. Holding(X, W, b, g, n)
    BY <2>1, <2>2, <2>3 DEF Holding, Solid
  <2> QED  BY <2>4, <1>1
<1> QED  BY <1>4, <1>5

\* What becomes of the note of a file that is stored.
StoreNote(b, f, t) ==
    IF t.res # "ok" THEN [b EXCEPT !.settled = FALSE, !.lost = @ \/ ~t.f.modified]
    ELSE [b EXCEPT !.settled = TRUE, !.lost = @ /\ ~f.modified, !.cut = @ /\ ~f.modified]

\* What the note of a file that is stored is, part by part.
LEMMA StoreNoteFacts ==
    ASSUME NEW b, IsNote(b), NEW t, NEW f, NEW e, e = StoreNote(b, f, t)
    PROVE  /\ e.kind = b.kind /\ e.text = b.text
           /\ t.res # "ok" => ~e.settled /\ (e.lost <=> b.lost \/ ~t.f.modified) /\ (e.cut <=> b.cut)
           /\ t.res = "ok" => e.settled /\ (e.lost <=> b.lost /\ ~f.modified) /\ (e.cut <=> b.cut /\ ~f.modified)
<1>1. CASE t.res # "ok"
  <2>1. PICK x \in BOOLEAN : x = (b.lost \/ ~t.f.modified)
    BY Zenon
  <2>2. e = [b EXCEPT !.settled = FALSE, !.lost = x]
    BY <1>1, <2>1 DEF StoreNote
  <2>3. e = [kind |-> b.kind, text |-> b.text, settled |-> FALSE, lost |-> x, cut |-> b.cut]
    BY <2>2, Zenon DEF IsNote
  <2>4. e.kind = b.kind /\ e.text = b.text /\ e.settled = FALSE /\ e.lost = x /\ e.cut = b.cut
    BY <2>3
  <2> QED  BY <2>1, <2>4, <1>1, Zenon
<1>2. CASE t.res = "ok"
  <2>1. PICK x \in BOOLEAN, y \in BOOLEAN : x = (b.lost /\ ~f.modified) /\ y = (b.cut /\ ~f.modified)
    BY Zenon
  <2>2. e = [b EXCEPT !.settled = TRUE, !.lost = x, !.cut = y]
    BY <1>2, <2>1 DEF StoreNote
  <2>3. e = [kind |-> b.kind, text |-> b.text, settled |-> TRUE, lost |-> x, cut |-> y]
    BY <2>2, Zenon DEF IsNote
  <2>4. e.kind = b.kind /\ e.text = b.text /\ e.settled = TRUE /\ e.lost = x /\ e.cut = y
    BY <2>3
  <2> QED  BY <2>1, <2>4, <1>2, Zenon
<1> QED  BY <1>1, <1>2

\* A file whose entry is up to date is on the disk however it is noted to be stored.
LEMMA UpToDate ==
    ASSUME NEW s, NEW n, NEW b, s.f.open, ~s.f.modified, Holding({s.disk, Seen(s)}, Seen(s), b, s.f, n),
           NEW e, e.kind = b.kind, e.text = b.text, e.lost <=> b.lost, e.cut <=> b.cut
    PROVE  /\ Holding({s.disk, Seen(s)}, Seen(s), e, s.f, n)
           /\ e.kind # "unknown" /\ ~e.lost => AllFirm({s.disk, Seen(s)}, e, n)
<1>1. PICK X, V, f : X = {s.disk, Seen(s)} /\ V = Seen(s) /\ f = s.f
  OBVIOUS
<1>2. Known(V, b, f, n) /\ (Solid(b, f) => AllFirm(X, b, n)) /\ f.open /\ ~f.modified
  BY <1>1 DEF Holding
<1>3. Known(V, e, f, n)
  BY <1>2 DEF Known
<1>4. AllFirm(X, b, n) => AllFirm(X, e, n)
  BY DEF AllFirm, Firm
<1>5. Solid(e, f) <=> Solid(b, f)
  BY DEF Solid
<1>6. e.kind # "unknown" /\ ~e.lost => Solid(e, f)
  BY <1>2 DEF Solid
<1>7. Holding(X, V, e, f, n)
  BY <1>2, <1>3, <1>4, <1>5 DEF Holding
<1> QED  BY <1>1, <1>2, <1>4, <1>5, <1>6, <1>7

\* f_sync and what is known of its file.
SyncEnds(s, t, n, Q, e) ==
    /\ Calm(s, t, Clusters, Q, Names \ {n}) /\ Holding({t.disk, Seen(t)}, Seen(t), e, t.f, n)
    /\ t.res = "ok" /\ ~s.f.modified => t = s
    /\ t.res = "ok" => ~t.f.modified

\* A file stored by f_sync holds on to its note, and after a success its entry is up to date.
LEMMA SyncNoted ==
    ASSUME NEW s, NEW L \in SUBSET Names, NEW F, IsFiles(F), NEW n \in Names, Ended(s, L, F, n),
           s.res = "ok", s.media = {s.disk}, NEW t \in f_sync(s), NEW Q, DirtyOut(s.f, Q),
           NEW b, IsNote(b), Holding({s.disk, Seen(s)}, Seen(s), b, s.f, n),
           NEW e, e = StoreNote(b, s.f, t)
    PROVE  SyncEnds(s, t, n, Q, e)
<1>1. Ended(t, L, F, n) /\ s.f.open /\ Base(s)
  <2>1. Ended(t, L, F, n)
    BY FileSyncing
  <2> QED  BY <2>1, BusyTorn DEF Ended, Busy, IsFile
<1>2. CASE ~s.f.modified
  <2>1. t = s
    BY <1>2, Zenon DEF f_sync
  <2>2. /\ e.kind = b.kind /\ e.text = b.text /\ (e.lost <=> b.lost) /\ (e.cut <=> b.cut)
    <3>1. PICK f : f = s.f
      OBVIOUS
    <3>2. e = StoreNote(b, f, t) /\ t.res = "ok" /\ ~f.modified
      BY <3>1, <2>1, <1>2
    <3> QED  BY <3>2, StoreNoteFacts
  <2>3. Holding({s.disk, Seen(s)}, Seen(s), e, s.f, n)
    BY <1>1, <1>2, <2>2, UpToDate
  <2>4. Looked(s, s)
    BY <1>1 DEF Looked, Kept
  <2>5. \A P, D, M : Calm(s, s, P, D, M)
    BY <2>4, CalmLooked
  <2> QED  BY <2>1, <2>3, <2>5, <1>2 DEF SyncEnds
<1>3. CASE s.f.modified
  <2>1. Syncs(s, t, n, Q)
    BY <1>3, SyncsText
  <2>2. /\ Owns(Tab(Seen(s)), s.f) /\ b.kind # "absent"
        /\ b.kind = "file" => Reads(Seen(s), s.f, b.text) /\ Seen(s)[Dir][n].used
    <3>1. Known(Seen(s), b, s.f, n)
      BY DEF Holding
    <3> QED  BY <3>1, <1>1 DEF Known
  <2>3. /\ e.kind = b.kind /\ e.text = b.text
        /\ t.res = "ok" => ~e.cut
        /\ t.res # "ok" => ~e.settled /\ (t.f.modified \/ e.lost)
    <3>1. PICK f : f = s.f
      OBVIOUS
    <3>2. e = StoreNote(b, f, t) /\ f.modified
      BY <3>1, <1>3
    <3> QED  BY <3>2, StoreNoteFacts
  <2>4. /\ e.kind # "absent"
        /\ e.kind = "file" => Reads(Seen(s), s.f, e.text) /\ Seen(s)[Dir][n].used
        /\ t.res # "ok" => (e.kind # "unknown" => ~e.settled) /\ (t.f.modified \/ e.lost)
        /\ t.res = "ok" => ~e.cut
    BY <2>2, <2>3
  <2>5. Holding({t.disk, Seen(t)}, Seen(t), e, t.f, n)
    BY <1>1, <2>1, <2>2, <2>4, SyncHolds, Zenon
  <2> QED  BY <1>3, <2>1, <2>5 DEF Syncs, SyncEnds
<1> QED  BY <1>2, <1>3

\* Sync keeps what is known.
LEMMA TextSync ==
    ASSUME Inv, TextInv, NoneAbandoned, NEW n \in Names, Sync(n)
    PROVE  TextInv'
<1>1. PICK t \in f_sync(Before(n)) :
         Finish(n, t, StoreNote(book[n], files[n], t), Quiet("sync", {n})) /\ files[n].open
  BY Zenon DEF Sync, Stored, StoreNote
<1>2. PICK s, N, Q, L, b, e, l : /\ s = Before(n) /\ N = {n} /\ Q = Beside(N) /\ L = Uncut(book) /\ b = book[n]
                                 /\ e = StoreNote(b, files[n], t) /\ l = Quiet("sync", {n})
  OBVIOUS
<1>3. /\ s.res = "ok" /\ s.media = {s.disk} /\ L \in SUBSET Names /\ IsFiles(files) /\ IsNote(b)
      /\ Ended(s, L, files, n) /\ Q \in SUBSET Clusters /\ s.f = files[n]
      /\ ~last.stray => /\ Holding({s.disk, Seen(s)}, Seen(s), b, s.f, n) /\ DirtyOut(s.f, Q)
  <2>1. OpenAt(s, n, Q)
    BY <1>1, <1>2, TextOpened
  <2> QED  BY <2>1, <1>2, Zenon DEF OpenAt
<1>5. Ended(t, L, files, n)
  BY <1>1, <1>2, <1>3, FileSyncing
<1>6. Base(t)
  BY <1>3, <1>5, BusyTorn DEF Ended
<1>7. l.cut = {m \in Names : book[m].cut} /\ l.names = {n} /\ l.stray = last.stray
  BY <1>2, QuietFacts, QuietCut
<1>8. ASSUME ~l.stray PROVE Ends(n, t, e)
  <2>1. /\ t \in f_sync(s) /\ Holding({s.disk, Seen(s)}, Seen(s), b, s.f, n) /\ DirtyOut(s.f, Q)
        /\ e = StoreNote(b, s.f, t)
    BY <1>1, <1>2, <1>3, <1>7, <1>8
  <2>2. Calm(s, t, Clusters, Q, Names \ {n}) /\ Holding({t.disk, Seen(t)}, Seen(t), e, t.f, n)
    <3>1. /\ s.res = "ok" /\ s.media = {s.disk} /\ L \in SUBSET Names /\ IsFiles(files) /\ IsNote(b)
          /\ Ended(s, L, files, n)
      BY <1>3
    <3>2. SyncEnds(s, t, n, Q, e)
      BY <3>1, <2>1, SyncNoted, Zenon
    <3> QED  BY <3>2 DEF SyncEnds
  <2>3. PICK C, M : C = Clusters /\ M = Names \ N
    BY Zenon
  <2>4. Calm(s, t, C, Q, M) /\ Q \in SUBSET C /\ Names \ N \in SUBSET M
    BY <1>2, <1>3, <2>2, <2>3, Zenon
  <2> QED  BY <1>2, <1>3, <2>2, <2>4, CalmEnds, Zenon
<1>9. \E S : e.text \in Seq(S)
  <2>1. e.text = b.text
    BY <1>2, <1>3, StoreNoteFacts
  <2> QED  BY <2>1, <1>2 DEF TextInv, Texts
<1>10. Finish(n, t, e, l)
  BY <1>1, <1>2
<1> QED  BY <1>6, <1>7, <1>8, <1>9, <1>10, TextFinish

\* A text with a sequence of bytes laid over it is one.
Overlaid(z, x, p, y, m) ==
    /\ m \in Nat /\ Len(z) = m
    /\ \A i \in 1..m : z[i] = IF i - p \in 1..Len(y) THEN y[i - p] ELSE x[i]

\* A sequence laid over another: how long the outcome is, and what is in it.
LEMMA OverlaySeq ==
    ASSUME NEW x, NEW S, x \in Seq(S), NEW p \in Nat, NEW y, NEW U, y \in Seq(U), NEW z, z = Overlay(x, p, y)
    PROVE  /\ \E W : z \in Seq(W)
           /\ Overlaid(z, x, p, y, Max2(Len(x), p + Len(y)))
<1>1. PICK m : m = Max2(Len(x), p + Len(y))
  OBVIOUS
<1>2. m \in Nat
  <2>1. Len(x) \in Nat /\ p + Len(y) \in Nat
    OBVIOUS
  <2> QED  BY <1>1, <2>1 DEF Max2
<1>3. z = [i \in 1..m |-> IF i - p \in 1..Len(y) THEN y[i - p] ELSE x[i]]
  BY <1>1 DEF Overlay
<1>4. PICK W : W = {z[i] : i \in 1..m}
  BY Zenon
<1>5. z \in [1..m -> W]
  BY <1>3, <1>4
<1>6. z \in Seq(W) /\ Len(z) = m
  BY <1>2, <1>5, SeqDef
<1> QED  BY <1>1, <1>2, <1>3, <1>6, Zenon DEF Overlaid

\* The first d of a number of equal bytes.
Repeat(v, len) == [i \in 1..len |-> v]
Firsts(y, d) == SubSeq(y, 1, d)

\* A sequence of d bytes v.
Equals(y, v, d) == y \in Seq({v}) /\ Len(y) = d /\ \A i \in 1..d : y[i] = v

\* The first bytes of one byte repeated are that byte repeated.
LEMMA FirstsFacts ==
    ASSUME NEW len \in Nat, NEW v, NEW d \in 0..len, NEW y, y = Firsts(Repeat(v, len), d)
    PROVE  Equals(y, v, d)
<1>1. PICK x : x = Repeat(v, len)
  OBVIOUS
<1>2. x \in Seq({v}) /\ Len(x) = len /\ \A i \in 1..len : x[i] = v
  BY <1>1 DEF Repeat
<1>3. y = SubSeq(x, 1, d)
  BY <1>1 DEF Firsts
<1>4. y \in Seq({v}) /\ Len(y) = d
  BY <1>2, <1>3
<1>5. ASSUME NEW i \in 1..d PROVE y[i] = v
  <2>1. SubSeq(x, 1, d)[i] = x[i]
    BY <1>2
  <2> QED  BY <2>1, <1>2, <1>3
<1> QED  BY <1>4, <1>5 DEF Equals

\* What a write lays over the text is the text stamped.
LEMMA OverlayStamps ==
    ASSUME NEW x, NEW m \in Nat, IsText(x, m), NEW p \in Nat, NEW r \in Nat, p <= m, p <= r,
           NEW v, NEW y, y \in Seq({v}), Len(y) = r - p, \A i \in 1..(r - p) : y[i] = v,
           NEW z, z = Overlay(x, p, y)
    PROVE  Stamped(z, x, p, r, Max2(m, r), v)
<1>1. PICK S : x \in Seq(S) /\ Len(x) = m
  BY DEF IsText
<1>2. PICK W : z \in Seq(W)
  BY <1>1, OverlaySeq
<1>3. PICK k : /\ k = Max2(Len(x), p + Len(y)) /\ k \in Nat /\ Len(z) = k
               /\ \A i \in 1..k : z[i] = IF i - p \in 1..Len(y) THEN y[i - p] ELSE x[i]
  <2>1. Overlaid(z, x, p, y, Max2(Len(x), p + Len(y)))
    BY <1>1, OverlaySeq
  <2> QED  BY <2>1 DEF Overlaid
<1>4. p + Len(y) = r
  OBVIOUS
<1>5. k = Max2(m, r)
  BY <1>1, <1>3, <1>4
<1>6. ASSUME NEW i \in 1..k PROVE z[i] = IF p < i /\ i <= r THEN v ELSE x[i]
  <2>1. i - p \in 1..(r - p) <=> p < i /\ i <= r
    BY <1>3
  <2>2. z[i] = IF i - p \in 1..(r - p) THEN y[i - p] ELSE x[i]
    BY <1>3, <1>6
  <2>3. i - p \in 1..(r - p) => y[i - p] = v
    OBVIOUS
  <2> QED  BY <2>1, <2>2, <2>3
<1> QED  BY <1>2, <1>3, <1>5, <1>6 DEF Stamped, IsText

\* What becomes of the note of a file that is written to.
WriteNote(b, f, t, u, bytes) ==
    [b EXCEPT !.text = IF b.kind = "file" THEN Overlay(b.text, f.ptr, Firsts(bytes, t.f.ptr - f.ptr)) ELSE @,
              !.settled = (u.res = "ok"), !.lost = ~(u.res = "ok") /\ ~u.f.modified,
              !.cut = @ /\ ~(u.res = "ok")]

\* What the note of a file that is written to is, part by part.
LEMMA WriteNoteFacts ==
    ASSUME NEW b, IsNote(b), NEW f, NEW t, NEW u, NEW bytes, NEW e, e = WriteNote(b, f, t, u, bytes)
    PROVE  /\ e.kind = b.kind /\ (e.settled <=> u.res = "ok") /\ (e.lost <=> ~(u.res = "ok") /\ ~u.f.modified)
           /\ e.cut <=> b.cut /\ ~(u.res = "ok")
           /\ e.text = IF b.kind = "file" THEN Overlay(b.text, f.ptr, Firsts(bytes, t.f.ptr - f.ptr)) ELSE b.text
<1>1. PICK x : x = IF b.kind = "file" THEN Overlay(b.text, f.ptr, Firsts(bytes, t.f.ptr - f.ptr)) ELSE b.text
  OBVIOUS
<1>2. PICK a \in BOOLEAN, c \in BOOLEAN, d \in BOOLEAN :
         a = (u.res = "ok") /\ c = (~(u.res = "ok") /\ ~u.f.modified) /\ d = (b.cut /\ ~(u.res = "ok"))
  BY Zenon
<1>3. e = [b EXCEPT !.text = x, !.settled = a, !.lost = c, !.cut = d]
  BY <1>1, <1>2 DEF WriteNote
<1>4. e = [kind |-> b.kind, text |-> x, settled |-> a, lost |-> c, cut |-> d]
  BY <1>3, Zenon DEF IsNote
<1>5. e.kind = b.kind /\ e.text = x /\ e.settled = a /\ e.lost = c /\ e.cut = d
  BY <1>4
<1> QED  BY <1>1, <1>2, <1>5, Zenon

\* What a call on a file comes to.
WriteEnds(s, t, n, Q, e) ==
    Calm(s, t, Q, Q, Names \ {n}) /\ Holding({t.disk, Seen(t)}, Seen(t), e, t.f, n)

\* A write that fails.
LEMMA WriteFails ==
    ASSUME NEW s, NEW L \in SUBSET Names, NEW F, IsFiles(F), NEW n \in Names, Ended(s, L, F, n),
           s.res = "ok", s.media = {s.disk}, NEW Q \in SUBSET Clusters, Apart(s, L, F, n, Q),
           NEW b, IsNote(b), Holding({s.disk, Seen(s)}, Seen(s), b, s.f, n), ~b.cut => n \in L,
           NEW len \in Nat, NEW v, NEW t \in f_write(s, Repeat(v, len)), t.res # "ok",
           NEW e, e = IF t.res = "denied" THEN b ELSE Unsure(b)
    PROVE  WriteEnds(s, t, n, Q, e)
<1>1. PICK y : y = Repeat(v, len)
  OBVIOUS
<1>2. y \in Seq({v})
  BY <1>1 DEF Repeat
<1>3. Puts(s, t, Q, v) /\ (t.res = "denied" => Looked(s, t) /\ t.f = s.f)
  BY <1>1, <1>2, WritesText
<1>4. Ended(t, L, F, n) /\ t.f.open
  <2>1. Ended(t, L, F, n)
    BY <1>1, <1>2, FileWriting
  <2> QED  BY <2>1 DEF Ended, Busy, IsFile
<1>5. Calm(s, t, Q, Q, Names \ {n})
  <2>1. PICK C, M, N : C = Clusters /\ M = Names /\ N = Names \ {n}
    BY Zenon
  <2>2. Calm(s, t, C, Q, M) /\ Q \in SUBSET C /\ Q \in SUBSET Q /\ N \in SUBSET M
    BY <1>3, <2>1 DEF Puts
  <2>3. Calm(s, t, Q, Q, N)
    BY <2>2, CalmLess
  <2> QED  BY <2>1, <2>3
<1>6. CASE t.res = "denied"
  <2>1. \A A : Gentle(s, t, A)
    BY <1>3, <1>6, GentleLooked
  <2>2. Holding({t.disk, Seen(t)}, Seen(t), b, t.f, n)
    BY <1>4, <2>1, HoldingGentle, Zenon
  <2> QED  BY <1>5, <1>6, <2>2 DEF WriteEnds
<1>7. CASE t.res # "denied"
  <2>1. PICK X, W, g : X = {t.disk, Seen(t)} /\ W = Seen(t) /\ g = t.f
    BY Zenon
  <2>2. Owns(Tab(W), g)
    <3>1. Known(Seen(s), b, s.f, n) /\ s.f.open
      BY DEF Holding, Ended, Busy, IsFile
    <3> QED  BY <3>1, <2>1, <1>3 DEF Puts, Known
  <2>3. e.kind = "unknown"
    BY <1>7, UnsureFacts
  <2>4. Holding(X, W, e, g, n)
    BY <2>2, <2>3, HoldingUnsure
  <2> QED  BY <1>5, <2>1, <2>4 DEF WriteEnds
<1> QED  BY <1>6, <1>7

\* A write that succeeds, and the f_sync after it.
LEMMA WriteHolds ==
    ASSUME NEW s, NEW L \in SUBSET Names, NEW F, IsFiles(F), NEW n \in Names, Ended(s, L, F, n),
           s.res = "ok", NEW Q \in SUBSET Clusters, Apart(s, L, F, n, Q),
           NEW b, IsNote(b), Holding({s.disk, Seen(s)}, Seen(s), b, s.f, n),
           NEW len \in Nat, NEW v, NEW t \in f_write(s, Repeat(v, len)), t.res = "ok", NEW u \in f_sync(t),
           NEW e, e = WriteNote(b, s.f, t, u, Repeat(v, len))
    PROVE  WriteEnds(s, u, n, Q, e)
<1>1. PICK y : y = Repeat(v, len)
  OBVIOUS
<1>2. y \in Seq({v}) /\ Len(y) = len
  BY <1>1 DEF Repeat
<1>3. Puts(s, t, Q, v) /\ t.f.modified /\ t.f.ptr - s.f.ptr \in 0..len
  <2>1. t \in f_write(s, y) /\ y \in Seq({v})
    BY <1>1, <1>2
  <2>2. Puts(s, t, Q, v) /\ t.f.modified /\ t.f.ptr - s.f.ptr \in 0..Len(y)
    BY <2>1, WritesText, Zenon
  <2> QED  BY <2>2, <1>2
<1>4. Ended(t, L, F, n)
  BY <1>1, <1>2, FileWriting
<1>5. Ended(u, L, F, n) /\ s.f.open /\ Base(s)
  <2>1. Ended(u, L, F, n)
    BY <1>4, FileSyncing
  <2> QED  BY <2>1, BusyTorn DEF Ended, Busy, IsFile
<1>6. Known(Seen(s), b, s.f, n) /\ Owns(Tab(Seen(s)), s.f) /\ b.kind # "absent"
  <2>1. Known(Seen(s), b, s.f, n)
    BY DEF Holding
  <2> QED  BY <2>1, <1>5 DEF Known
<1>7. Calm(s, t, Clusters, Q, Names) /\ Owns(Tab(Seen(t)), t.f)
  BY <1>3, <1>6 DEF Puts
<1>8. DirtyOut(t.f, Q)
  <2>1. Apart(t, L, F, n, Q)
    BY <1>5, <1>7, ApartOn
  <2>2. Torn(t, L, F, n)
    BY <1>4, BusyTorn DEF Ended
  <2>3. Watch(Tab(Seen(t)), Seen(t)[Dir], L, F, {n}, Q)
    BY <2>1 DEF Apart
  <2> QED  BY <1>7, <2>2, <2>3, OwnsOut, Zenon
<1>9. Syncs(t, u, n, Q)
  BY <1>3, <1>4, <1>8, SyncsText
<1>10. Calm(s, u, Q, Q, Names \ {n})
  <2>1. PICK C, M, N : C = Clusters /\ M = Names /\ N = Names \ {n}
    BY Zenon
  <2>2. /\ Calm(s, t, C, Q, M) /\ Q \in SUBSET C /\ Q \in SUBSET Q /\ N \in SUBSET M /\ N \in SUBSET N
        /\ Calm(t, u, C, Q, N)
    BY <1>7, <1>9, <2>1 DEF Syncs
  <2>3. Calm(s, t, Q, Q, N)
    BY <2>2, CalmLess
  <2>4. Calm(t, u, Q, Q, N)
    BY <2>2, CalmLess
  <2> QED  BY <2>1, <2>3, <2>4, CalmOn
<1>11. /\ e.kind = b.kind /\ (e.settled <=> u.res = "ok") /\ (e.lost <=> ~(u.res = "ok") /\ ~u.f.modified)
       /\ e.cut <=> b.cut /\ ~(u.res = "ok")
       /\ e.text = IF b.kind = "file" THEN Overlay(b.text, s.f.ptr, Firsts(y, t.f.ptr - s.f.ptr)) ELSE b.text
  <2>1. PICK f : f = s.f
    OBVIOUS
  <2>2. e = WriteNote(b, f, t, u, y)
    BY <2>1, <1>1
  <2> QED  BY <2>1, <2>2, WriteNoteFacts
<1>12. ASSUME b.kind = "file" PROVE Reads(Seen(t), t.f, e.text) /\ Seen(t)[Dir][n].used
  <2>1. Reads(Seen(s), s.f, b.text) /\ Seen(s)[Dir][n].used
    BY <1>5, <1>6, <1>12 DEF Known
  <2>2. Seen(t)[Dir] = Seen(s)[Dir]
    BY <1>5, <1>7, CalmDir
  <2>3. /\ s.f.ptr \in Nat /\ t.f.ptr \in Nat /\ s.f.ptr <= t.f.ptr
        /\ s.f.size \in Nat /\ s.f.ptr <= s.f.size /\ t.f.size = Max2(s.f.size, t.f.ptr)
        /\ \A x, z : Reads(Seen(s), s.f, x) /\ Stamped(z, x, s.f.ptr, t.f.ptr, t.f.size, v)
                     => Reads(Seen(t), t.f, z)
    BY <1>3 DEF Puts
  <2>4. PICK x, m, p, r, d, w, z : /\ x = b.text /\ m = s.f.size /\ p = s.f.ptr /\ r = t.f.ptr /\ d = r - p
                                   /\ w = Firsts(y, d) /\ z = e.text
    OBVIOUS
  <2>5. m \in Nat /\ p \in Nat /\ r \in Nat /\ p <= m /\ p <= r /\ d \in 0..len
    BY <1>3, <2>3, <2>4
  <2>6. w \in Seq({v}) /\ Len(w) = d /\ \A i \in 1..d : w[i] = v
    <3>1. w = Firsts(Repeat(v, len), d)
      BY <1>1, <2>4
    <3>2. Equals(w, v, d)
      BY <3>1, <2>5, FirstsFacts
    <3> QED  BY <3>2 DEF Equals
  <2>7. z = Overlay(x, p, w) /\ IsText(x, m)
    <3>1. IsText(x, m)
      BY <2>1, <2>4 DEF Reads
    <3> QED  BY <3>1, <1>11, <1>12, <2>4
  <2>8. Stamped(z, x, p, r, Max2(m, r), v)
    <3>1. Len(w) = r - p /\ \A i \in 1..(r - p) : w[i] = v
      BY <2>4, <2>6
    <3> QED  BY <3>1, <2>5, <2>6, <2>7, OverlayStamps
  <2>9. Reads(Seen(t), t.f, z)
    BY <2>1, <2>3, <2>4, <2>8
  <2> QED  BY <2>1, <2>2, <2>4, <2>9
<1>13. Holding({u.disk, Seen(u)}, Seen(u), e, u.f, n)
  <2>1. /\ e.kind # "absent" /\ (e.kind = "file" => Reads(Seen(t), t.f, e.text) /\ Seen(t)[Dir][n].used)
        /\ u.res = "ok" => ~e.cut
        /\ u.res # "ok" => (e.kind # "unknown" => ~e.settled) /\ (u.f.modified \/ e.lost)
    BY <1>6, <1>11, <1>12
  <2> QED  BY <2>1, <1>5, <1>7, <1>9, SyncHolds, Zenon
<1> QED  BY <1>10, <1>13 DEF WriteEnds

\* A sequence that is cut off anywhere is one.
LEMMA FirstsSeq ==
    ASSUME NEW y, NEW S, y \in Seq(S), NEW d \in Int
    PROVE  \E U : Firsts(y, d) \in Seq(U)
<1>1. PICK z : z = Firsts(y, d)
  OBVIOUS
<1>2. z = [i \in 1..d |-> y[i]]
  <2>1. SubSeq(y, 1, d) = [i \in 1..d |-> y[i]]
    OBVIOUS
  <2> QED  BY <1>1, <2>1 DEF Firsts
<1>3. PICK U : U = {z[i] : i \in 1..d}
  BY Zenon
<1>4. z \in [1..d -> U]
  BY <1>2, <1>3
<1>5. CASE d \in Nat
  <2>1. z \in Seq(U)
    BY <1>4, <1>5, SeqDef
  <2> QED  BY <1>1, <2>1
<1>6. CASE d \notin Nat
  <2>1. 1..d = 1..0
    BY <1>6
  <2>2. z \in [1..0 -> U]
    BY <1>4, <2>1
  <2>3. z \in Seq(U)
    BY <2>2, SeqDef
  <2> QED  BY <1>1, <2>3
<1> QED  BY <1>5, <1>6

\* The ways a write ends.
WriteWays(n, len, t) ==
    \/ /\ t.res # "ok"
       /\ Finish(n, t, IF t.res = "denied" THEN book[n] ELSE Unsure(book[n]), Quiet("write", {n}))
    \/ /\ t.res = "ok"
       /\ \E u \in f_sync(t) :
              Finish(n, u, WriteNote(book[n], files[n], t, u, Repeat(calls + 1, len)), Quiet("write", {n}))

\* A write keeps what is known.
LEMMA TextWrite ==
    ASSUME Inv, TextInv, NoneAbandoned, NEW n \in Names, NEW len \in Lengths, Write(n, len)
    PROVE  TextInv'
<1>0. PICK v : v = calls + 1
  OBVIOUS
<1>1. PICK t \in f_write(Before(n), Repeat(v, len)) : WriteWays(n, len, t) /\ files[n].open
  BY <1>0, Zenon DEF Write, WriteWays, WriteNote, Repeat, Firsts
<1>2. PICK s, N, Q, L, b, l : /\ s = Before(n) /\ N = {n} /\ Q = Beside(N) /\ L = Uncut(book) /\ b = book[n]
                              /\ l = Quiet("write", {n})
  OBVIOUS
<1>3. /\ s.res = "ok" /\ s.media = {s.disk} /\ L \in SUBSET Names /\ IsFiles(files) /\ IsNote(b)
      /\ Ended(s, L, files, n) /\ Q \in SUBSET Clusters /\ (~b.cut => n \in L) /\ s.f = files[n]
      /\ ~last.stray => /\ Holding({s.disk, Seen(s)}, Seen(s), b, s.f, n) /\ Apart(s, L, files, n, Q)
  <2>1. OpenAt(s, n, Q)
    BY <1>1, <1>2, TextOpened
  <2> QED  BY <2>1, <1>2, Zenon DEF OpenAt
<1>4. len \in Nat
  BY CallsAssumption
<1>5. Ended(t, L, files, n) /\ t \in f_write(s, Repeat(v, len))
  <2>1. PICK y : y = Repeat(v, len)
    OBVIOUS
  <2>2. y \in Seq({v})
    BY <1>4, <2>1 DEF Repeat
  <2>3. t \in f_write(s, y)
    BY <1>1, <1>2, <2>1
  <2> QED  BY <1>3, <2>1, <2>2, <2>3, FileWriting
<1>7. l.cut = {m \in Names : book[m].cut} /\ l.names = {n} /\ l.stray = last.stray
  BY <1>2, QuietFacts, QuietCut
<1>8. PICK T : b.text \in Seq(T)
  BY <1>2 DEF TextInv, Texts
<1>9. ASSUME NEW u, NEW e, WriteEnds(s, u, n, Q, e) PROVE Ends(n, u, e)
  <2>1. PICK M : M = Names \ N
    BY Zenon
  <2>2. /\ Calm(s, u, Q, Q, M) /\ Q \in SUBSET Q /\ Names \ N \in SUBSET M
        /\ Holding({u.disk, Seen(u)}, Seen(u), e, u.f, n)
    BY <1>2, <1>9, <2>1 DEF WriteEnds
  <2> QED  BY <1>2, <1>3, <2>2, CalmEnds, Zenon
<1>10. CASE t.res # "ok"
  <2>1. PICK e : e = IF t.res = "denied" THEN b ELSE Unsure(b)
    OBVIOUS
  <2>2. Finish(n, t, e, l)
    BY <1>1, <1>2, <1>10, <2>1 DEF WriteWays
  <2>3. Base(t)
    BY <1>3, <1>5, BusyTorn DEF Ended
  <2>4. ASSUME ~l.stray PROVE Ends(n, t, e)
    <3>1. Holding({s.disk, Seen(s)}, Seen(s), b, s.f, n) /\ Apart(s, L, files, n, Q)
      BY <1>3, <1>7, <2>4
    <3>2. WriteEnds(s, t, n, Q, e)
      BY <3>1, <1>3, <1>4, <1>5, <1>10, <2>1, WriteFails, Zenon
    <3> QED  BY <3>2, <1>9
  <2>5. \E S : e.text \in Seq(S)
    BY <1>3, <1>8, <2>1, UnsureFacts
  <2> QED  BY <1>7, <2>2, <2>3, <2>4, <2>5, TextFinish
<1>11. CASE t.res = "ok"
  <2>1. PICK u \in f_sync(t) : Finish(n, u, WriteNote(b, files[n], t, u, Repeat(v, len)), l)
    BY <1>0, <1>1, <1>2, <1>11, Zenon DEF WriteWays
  <2>2. PICK e : e = WriteNote(b, files[n], t, u, Repeat(v, len))
    OBVIOUS
  <2>3. Base(u)
    <3>1. Ended(u, L, files, n)
      BY <1>3, <1>5, <1>11, <2>1, FileSyncing
    <3> QED  BY <1>3, <3>1, BusyTorn DEF Ended
  <2>4. ASSUME ~l.stray PROVE Ends(n, u, e)
    <3>1. Holding({s.disk, Seen(s)}, Seen(s), b, s.f, n) /\ Apart(s, L, files, n, Q)
      BY <1>3, <1>7, <2>4
    <3>2. e = WriteNote(b, s.f, t, u, Repeat(v, len))
      BY <1>3, <2>2
    <3>3. WriteEnds(s, u, n, Q, e)
      BY <3>1, <3>2, <1>3, <1>4, <1>5, <1>11, <2>1, WriteHolds
    <3> QED  BY <3>3, <1>9
  <2>5. \E S : e.text \in Seq(S)
    <3>1. PICK f, y, d : f = files[n] /\ y = Repeat(v, len) /\ d = t.f.ptr - f.ptr
      OBVIOUS
    <3>2. f.ptr \in Nat /\ t.f.ptr \in Nat
      BY <1>3, <1>5, <3>1, BusyTorn DEF Ended, FileOK
    <3>3. PICK U : Firsts(y, d) \in Seq(U)
      <4>1. y \in Seq({v}) /\ d \in Int
        BY <1>4, <3>1, <3>2 DEF Repeat
      <4> QED  BY <4>1, FirstsSeq
    <3>4. PICK w, z : w = Firsts(y, d) /\ z = Overlay(b.text, f.ptr, w)
      OBVIOUS
    <3>5. \E W : z \in Seq(W)
      BY <1>8, <3>2, <3>3, <3>4, OverlaySeq, Zenon
    <3>6. e = WriteNote(b, f, t, u, y)
      BY <2>2, <3>1
    <3>7. e.text = IF b.kind = "file" THEN Overlay(b.text, f.ptr, Firsts(y, t.f.ptr - f.ptr)) ELSE b.text
      BY <1>3, <3>6, WriteNoteFacts
    <3>8. e.text = z \/ e.text = b.text
      BY <3>1, <3>4, <3>7
    <3> QED  BY <1>8, <3>5, <3>8
  <2>6. Finish(n, u, e, l)
    BY <2>1, <2>2
  <2> QED  BY <1>7, <2>3, <2>4, <2>5, <2>6, TextFinish
<1> QED  BY <1>10, <1>11

\* What is known of a file that is closed with the mark off.
LEMMA ClosedHolds ==
    ASSUME NEW s, NEW L \in SUBSET Names, NEW F, IsFiles(F), NEW n \in Names, Ended(s, L, F, n), ~s.f.modified,
           NEW X, NEW b, Holding(X, Seen(s), b, s.f, n)
    PROVE  Holding(X, Seen(s), b, Closed, n)
<1>1. s.f.open /\ ~Closed.open
  BY DEF Ended, Busy, IsFile, Closed
<1>2. PICK V, f : V = Seen(s) /\ f = s.f
  OBVIOUS
<1>3. Known(V, b, f, n) /\ (Solid(b, f) => AllFirm(X, b, n))
  BY <1>2 DEF Holding
<1>4. b.kind # "absent" /\ (b.kind = "file" => Reads(V, f, b.text) /\ V[Dir][n].used /\ Noted(V, f, n))
  BY <1>1, <1>2, <1>3 DEF Known
<1>5. ASSUME b.kind = "file" PROVE \E k, q : Good(V, n, b.text, k, q)
  <2>1. PICK x : x = b.text
    OBVIOUS
  <2>2. Reads(Seen(s), s.f, x) /\ Noted(Seen(s), s.f, n) /\ Seen(s)[Dir][n].used
    BY <2>1, <1>2, <1>4, <1>5
  <2>3. \E k, q : Good(Seen(s), n, x, k, q)
    BY <2>2, OpenGood, Zenon
  <2> QED  BY <2>1, <2>3, <1>2
<1>6. PICK g : g = Closed
  OBVIOUS
<1>7. Known(V, b, g, n)
  BY <1>1, <1>4, <1>5, <1>6 DEF Known
<1>8. Solid(b, g) => Solid(b, f)
  BY <1>2 DEF Solid
<1>9. Holding(X, V, b, g, n)
  BY <1>3, <1>7, <1>8 DEF Holding
<1> QED  BY <1>2, <1>6, <1>9

\* Close keeps what is known.
LEMMA TextClose ==
    ASSUME Inv, TextInv, NoneAbandoned, NEW n \in Names, Close(n)
    PROVE  TextInv'
<1>1. PICK t, e :
         /\ t \in f_close(Before(n))
         /\ files[n].open /\ Finish(n, Closing(t), e, Quiet("close", {n}))
         /\ t.res = "ok" => e = Stored(n, t)
         /\ t.res # "ok" => e = Unsure(book[n])
  <2>1. PICK t \in f_close(Before(n)) :
           /\ files[n].open
           /\ Finish(n, Closing(t), IF t.res = "ok" THEN Stored(n, t) ELSE Unsure(book[n]), Quiet("close", {n}))
    BY DEF Close, Closing
  <2>2. PICK e : e = IF t.res = "ok" THEN Stored(n, t) ELSE Unsure(book[n])
    OBVIOUS
  <2> QED  BY <2>1, <2>2
<1>2. PICK s, N, Q, L, b, l : /\ s = Before(n) /\ N = {n} /\ Q = Beside(N) /\ L = Uncut(book) /\ b = book[n]
                              /\ l = Quiet("close", {n})
  OBVIOUS
<1>3. /\ s.res = "ok" /\ s.media = {s.disk} /\ L \in SUBSET Names /\ IsFiles(files) /\ IsNote(b)
      /\ Ended(s, L, files, n) /\ Q \in SUBSET Clusters /\ s.f = files[n]
      /\ ~last.stray => /\ Holding({s.disk, Seen(s)}, Seen(s), b, s.f, n) /\ DirtyOut(s.f, Q)
  <2>1. OpenAt(s, n, Q)
    BY <1>1, <1>2, TextOpened
  <2> QED  BY <2>1, <1>2, Zenon DEF OpenAt
<1>4. PICK u \in f_sync(s) : (u.res # "ok" => t = u) /\ (u.res = "ok" => t = Closing(u))
  BY <1>1, <1>2 DEF f_close, Then, Closing
<1>5. Ended(u, L, files, n)
  BY <1>3, <1>4, FileSyncing
<1>6. Base(u)
  BY <1>3, <1>5, BusyTorn DEF Ended
<1>7. PICK w : w = Closing(u)
  OBVIOUS
<1>8. Closing(t) = w /\ t.res = u.res
  <2>1. IsState(u)
    BY <1>6 DEF Base
  <2>2. Closing(w) = w /\ w.res = u.res
    BY <2>1, <1>7, Zenon DEF Closing, IsState
  <2> QED  BY <2>2, <1>4, <1>7
<1>9. /\ Base(w) /\ w.f = Closed /\ Seen(w) = Seen(u) /\ w.disk = u.disk
      /\ \A P, D, M : Calm(u, w, P, D, M)
  <2>1. PICK g : g = Closed
    OBVIOUS
  <2>2. w = [u EXCEPT !.f = g]
    BY <2>1, <1>7 DEF Closing
  <2>3. Base(w) /\ w.f = g /\ Seen(w) = Seen(u) /\ \A P, D, M : Calm(u, w, P, D, M)
    BY <2>2, <1>6, CalmSetFile
  <2>4. w.disk = u.disk
    BY <2>2, <1>6 DEF Base, IsState
  <2> QED  BY <2>1, <2>3, <2>4
<1>10. l.cut = {m \in Names : book[m].cut} /\ l.names = {n} /\ l.stray = last.stray
  BY <1>2, QuietFacts, QuietCut
<1>11. u.res = "ok" => e = StoreNote(b, s.f, u)
  BY <1>1, <1>2, <1>3, <1>8 DEF Stored, StoreNote
<1>12. ASSUME ~l.stray PROVE Ends(n, w, e)
  <2>1. PICK y : y = StoreNote(b, s.f, u)
    OBVIOUS
  <2>2. SyncEnds(s, u, n, Q, y)
    <3>1. /\ s.res = "ok" /\ s.media = {s.disk} /\ L \in SUBSET Names /\ IsFiles(files) /\ IsNote(b)
          /\ Ended(s, L, files, n) /\ u \in f_sync(s) /\ DirtyOut(s.f, Q)
          /\ Holding({s.disk, Seen(s)}, Seen(s), b, s.f, n)
      BY <1>3, <1>4, <1>10, <1>12
    <3> QED  BY <3>1, <2>1, SyncNoted, Zenon
  <2>3. /\ Calm(s, u, Clusters, Q, Names \ N) /\ Holding({u.disk, Seen(u)}, Seen(u), y, u.f, n)
        /\ u.res = "ok" => ~u.f.modified
    BY <2>2, <1>2 DEF SyncEnds
  <2>4. PICK C, M : C = Clusters /\ M = Names \ N
    BY Zenon
  <2>5. Calm(s, w, C, Q, M)
    BY <2>3, <2>4, <1>9, CalmOn
  <2>6. PICK X, W, g : X = {w.disk, Seen(w)} /\ W = Seen(w) /\ g = w.f
    BY Zenon
  <2>7. Holding(X, W, e, g, n)
    <3>1. CASE u.res = "ok"
      <4>1. ~u.f.modified /\ Holding(X, Seen(u), y, u.f, n) /\ e = y
        BY <3>1, <2>1, <2>3, <2>6, <1>9, <1>11
      <4>2. Holding(X, Seen(u), y, Closed, n)
        BY <4>1, <1>3, <1>5, ClosedHolds
      <4> QED  BY <4>1, <4>2, <2>6, <1>9
    <3>2. CASE u.res # "ok"
      <4>1. e = Unsure(b)
        BY <3>2, <1>1, <1>2, <1>8
      <4>2. e.kind = "unknown" /\ ~g.open
        BY <4>1, <1>3, <1>9, <2>6, UnsureFacts DEF Closed
      <4> QED  BY <4>2, HoldingUnsure
    <3> QED  BY <3>1, <3>2
  <2>8. /\ Holding({w.disk, Seen(w)}, Seen(w), e, w.f, n) /\ Q \in SUBSET C /\ Names \ N \in SUBSET M
        /\ Calm(s, w, C, Q, M)
    BY <2>4, <2>5, <2>6, <2>7, <1>3
  <2> QED  BY <1>2, <1>3, <2>8, CalmEnds, Zenon
<1>13. \E S : e.text \in Seq(S)
  <2>1. CASE u.res = "ok"
    <3>1. PICK f : f = s.f
      OBVIOUS
    <3>2. e = StoreNote(b, f, u)
      BY <2>1, <3>1, <1>11
    <3>3. e.text = b.text
      BY <3>2, <1>3, StoreNoteFacts
    <3> QED  BY <3>3, <1>2 DEF TextInv, Texts
  <2>2. CASE u.res # "ok"
    <3>1. e = Unsure(b)
      BY <2>2, <1>1, <1>2, <1>8
    <3> QED  BY <3>1, <1>3, UnsureFacts
  <2> QED  BY <2>1, <2>2
<1>14. Finish(n, w, e, l)
  BY <1>1, <1>2, <1>8
<1> QED  BY <1>9, <1>10, <1>12, <1>13, <1>14, TextFinish

\* What is known as a call on a name that is closed begins.
ClosedAt(s, n, Q) ==
    /\ s.res = "ok" /\ s.out = <<>> /\ s.f = files[n] /\ s.disk = vol.disk /\ s.media = {s.disk}
    /\ Seen(s) = Seen(vol) /\ Uncut(book) \in SUBSET Names /\ IsFiles(files) /\ IsNote(book[n])
    /\ Fine(s, Uncut(book), files) /\ Sound(Tab(Seen(s)), Seen(s)[Dir], Uncut(book), files)
    /\ n \in Uncut(book) /\ ~book[n].cut /\ Q \in SUBSET Clusters
    /\ Watch(Tab(Seen(s)), Seen(s)[Dir], Uncut(book), files, {n}, Q)
    /\ ~last.stray => Holding({s.disk, Seen(s)}, Seen(s), book[n], files[n], n)

\* Such a call begins.
LEMMA TextClosed ==
    ASSUME Inv, TextInv, NoneAbandoned, NEW n \in Names, ~files[n].open, NEW s, s = Before(n), NEW Q, Q = Beside({n})
    PROVE  ClosedAt(s, n, Q)
<1>1. PICK g, N : g = files[n] /\ N = {n}
  OBVIOUS
<1>2. s = Alone(vol, g)
  BY <1>1 DEF Before, Alone
<1>3. /\ s.res = "ok" /\ s.out = <<>> /\ s.f = g /\ s.disk = vol.disk /\ s.media = {s.disk}
      /\ Seen(s) = Seen(vol) /\ Uncut(book) \in SUBSET Names /\ IsFiles(files) /\ IsBook(book)
      /\ Fine(s, Uncut(book), files) /\ Sound(Tab(Seen(s)), Seen(s)[Dir], Uncut(book), files)
      /\ ~last.stray => \A m \in Names : Holding({s.disk, Seen(s)}, Seen(s), book[m], files[m], m)
      /\ Watch(Tab(Seen(s)), Seen(s)[Dir], Uncut(book), files, N, Q)
      /\ n \in Uncut(book)
  <2>1. StartsAt(s, g)
    BY <1>2, TextBegun
  <2> QED  BY <2>1, <1>1, Zenon DEF StartsAt
<1>4. IsNote(book[n])
  BY <1>3 DEF IsBook, IsNote
<1>5. ~book[n].cut /\ Q \in SUBSET Clusters
  BY <1>3, Zenon DEF Uncut, Watch
<1> QED  BY <1>1, <1>3, <1>4, <1>5, Zenon DEF ClosedAt

\* What a calm call leaves of what is known of the name that is closed.
LEMMA ClosedKept ==
    ASSUME NEW n \in Names, NEW s, NEW Q, ClosedAt(s, n, Q), ~files[n].open, ~last.stray,
           NEW t, NEW M, Calm(s, t, Clusters, Clusters, M), n \in M
    PROVE  Holding({t.disk, Seen(t)}, Seen(t), book[n], files[n], n)
<1>1. PICK T, E, L, Y, X, b, C :
         /\ T = Tab(Seen(s)) /\ E = Seen(s)[Dir] /\ L = Uncut(book) /\ Y = {s.disk, Seen(s)} /\ b = book[n]
         /\ X = {t.disk, Seen(t)} /\ C = Clusters
  BY Zenon
<1>2. Inside(T, E, L, files, n, C)
  BY <1>1, InsideFacts
<1>3. X \subseteq t.media \union {Seen(t)}
  BY <1>1 DEF Calm, Base
<1>4. /\ Calm(s, t, C, C, M) /\ s.media = {s.disk} /\ L \in SUBSET Names
      /\ Sound(Tab(Seen(s)), Seen(s)[Dir], L, files)
      /\ Inside(Tab(Seen(s)), Seen(s)[Dir], L, files, n, C) /\ {s.disk, Seen(s)} \subseteq Y
      /\ Holding(Y, Seen(s), b, files[n], n) /\ (~files[n].open \/ ~b.cut => n \in L)
  BY <1>1, <1>2 DEF ClosedAt
<1>5. Holding(X, Seen(t), b, files[n], n)
  BY <1>3, <1>4, HoldingKept
<1> QED  BY <1>1, <1>5

\* A name that is not in use.
LEMMA NoFileHolds ==
    ASSUME NEW X, NEW V, NEW n, ~V[Dir][n].used, \A x \in X : ~x[Dir][n].used, NEW f, ~f.open
    PROVE  Holding(X, V, NoFile, f, n)
BY DEF Holding, Known, Solid, AllFirm, Firm, NoFile

\* Unlink keeps what is known.
LEMMA TextUnlink ==
    ASSUME Inv, TextInv, NoneAbandoned, NEW n \in Names, Unlink(n)
    PROVE  TextInv'
<1>1. PICK t, e :
         /\ t \in f_unlink(Before(n), n)
         /\ ~files[n].open /\ Finish(n, t, e, Quiet("unlink", {n}))
         /\ t.res = "ok" => e = NoFile
         /\ t.res = "no_file" => e = book[n]
         /\ t.res \notin {"ok", "no_file"} => e = Unsure(book[n])
  <2>1. PICK t \in f_unlink(Before(n), n) :
           /\ ~files[n].open
           /\ Finish(n, t, CASE t.res = "ok" -> NoFile [] t.res = "no_file" -> book[n]
                             [] OTHER -> Unsure(book[n]), Quiet("unlink", {n}))
    BY DEF Unlink
  <2>2. PICK e : e = CASE t.res = "ok" -> NoFile [] t.res = "no_file" -> book[n]
                       [] OTHER -> Unsure(book[n])
    OBVIOUS
  <2> QED  BY <2>1, <2>2
<1>2. PICK s, N, Q, L, b, l : /\ s = Before(n) /\ N = {n} /\ Q = Beside(N) /\ L = Uncut(book) /\ b = book[n]
                              /\ l = Quiet("unlink", {n})
  OBVIOUS
<1>3. ClosedAt(s, n, Q)
  BY <1>1, <1>2, TextClosed
<1>4. /\ s.res = "ok" /\ L \in SUBSET Names /\ IsFiles(files) /\ IsNote(b) /\ Fine(s, L, files) /\ n \in L
      /\ Q \in SUBSET Clusters /\ Watch(Tab(Seen(s)), Seen(s)[Dir], L, files, {n}, Q) /\ s.f = files[n]
  BY <1>2, <1>3, Zenon DEF ClosedAt
<1>5. t \in f_unlink(s, n)
  BY <1>1, <1>2
<1>6. Did(s, t, L, files)
  BY <1>1, <1>4, <1>5, Unlinking
<1>7. Base(t) /\ t.f = files[n]
  BY <1>4, <1>6 DEF Did, Fine, Safe
<1>8. /\ Calm(s, t, Q, Clusters, Names \ {n})
      /\ t.res = "ok" => t.disk = Seen(t) /\ ~Seen(t)[Dir][n].used
      /\ t.res = "no_file" => Calm(s, t, Clusters, Clusters, Names)
  BY <1>1, <1>4, <1>5, CalmUnlinking, Zenon
<1>9. l.cut = {m \in Names : book[m].cut} /\ l.names = {n} /\ l.stray = last.stray
  BY <1>2, QuietFacts, QuietCut
<1>10. ASSUME ~l.stray PROVE Ends(n, t, e)
  <2>1. PICK A : A = Names \ N
    BY Zenon
  <2>2. PICK C : C = Clusters
    OBVIOUS
  <2>3. Calm(s, t, Q, C, A) /\ Q \in SUBSET Q /\ Q \in SUBSET C /\ A \in SUBSET A
    BY <1>2, <1>4, <1>8, <2>1, <2>2
  <2>4. Calm(s, t, Q, Q, A)
    BY <2>3, CalmLess
  <2>5. PICK X, W, g : X = {t.disk, Seen(t)} /\ W = Seen(t) /\ g = t.f
    BY Zenon
  <2>6. Holding(X, W, e, g, n)
    <3>1. CASE t.res = "ok"
      <4>1. ~W[Dir][n].used /\ ~g.open /\ (\A x \in X : ~x[Dir][n].used)
        BY <3>1, <1>1, <1>7, <1>8, <2>5
      <4>2. Holding(X, W, NoFile, g, n)
        BY <4>1, NoFileHolds
      <4> QED  BY <4>2, <3>1, <1>1
    <3>2. CASE t.res = "no_file"
      <4>1. PICK M : M = Names
        OBVIOUS
      <4>2. Calm(s, t, Clusters, Clusters, M) /\ n \in M /\ ~last.stray
        BY <3>2, <4>1, <1>8, <1>9, <1>10
      <4>3. Holding({t.disk, Seen(t)}, Seen(t), book[n], files[n], n)
        BY <4>2, <1>1, <1>3, ClosedKept, Zenon
      <4> QED  BY <4>3, <3>2, <1>1, <1>7, <2>5
    <3>3. CASE t.res \notin {"ok", "no_file"}
      <4>1. e = Unsure(b)
        BY <3>3, <1>1, <1>2
      <4>2. e.kind = "unknown" /\ ~g.open
        BY <4>1, <1>1, <1>4, <1>7, <2>5, UnsureFacts
      <4> QED  BY <4>2, HoldingUnsure
    <3> QED  BY <3>1, <3>2, <3>3
  <2> QED  BY <1>2, <2>1, <2>4, <2>5, <2>6 DEF Ends
<1>11. \E S : e.text \in Seq(S)
  <2>1. CASE e = NoFile
    <3>1. PICK S : S = {0}
      BY Zenon
    <3>2. NoFile.text = <<>> /\ <<>> \in Seq(S)
      BY DEF NoFile
    <3> QED  BY <3>2, <2>1, Zenon
  <2>2. CASE e = b
    BY <2>2, <1>2 DEF TextInv, Texts
  <2>3. CASE e = Unsure(b)
    BY <2>3, <1>4, UnsureFacts
  <2> QED  BY <2>1, <2>2, <2>3, <1>1, <1>2
<1>12. Finish(n, t, e, l)
  BY <1>1, <1>2
<1> QED  BY <1>7, <1>9, <1>10, <1>11, <1>12, TextFinish

\* What a call on the names N that leaves the files alone ends in, with notes B.
PlainEnds(s, t, N, B) ==
    /\ Calm(s, t, Beside(N), Beside(N), Names \ N)
    /\ \A m \in Names : IF m \in N THEN Holding({t.disk, Seen(t)}, Seen(t), B[m], files[m], m) ELSE B[m] = book[m]

\* So it ends in the invariant.
LEMMA TextPlain ==
    ASSUME Inv, TextInv, NoneAbandoned, NEW t, Base(t), vol' = After(t), files' = files, NEW N, last'.names = N,
           last.stray => last'.stray, Texts(book)', NEW f, NEW s, s = Alone(vol, f),
           NEW B, B = book', ~last'.stray => PlainEnds(s, t, N, B)
    PROVE  TextInv'
<1>1. vol'.disk = t.disk /\ vol'.media = t.media /\ Seen(vol') = Seen(t) /\ vol'.out = <<>>
  BY AfterSame
<1>2. ASSUME ~last'.stray, NEW m \in Names
      PROVE  Holding(Media(m)', Seen(vol'), book'[m], files'[m], m)
  <2>1. PlainEnds(s, t, N, B) /\ ~last.stray
    BY <1>2
  <2>2. CASE m \in N
    <3>1. Media(m)' = {t.disk, Seen(t)}
      BY <1>1, <2>2 DEF Media
    <3> QED  BY <3>1, <2>1, <2>2, <1>1, Zenon DEF PlainEnds
  <2>3. CASE m \notin N
    <3>1. PICK Q, M, X : Q = Beside(N) /\ M = Names \ N /\ X = t.media \union {Seen(t)}
      BY Zenon
    <3>2. Calm(s, t, Q, Q, M) /\ B[m] = book[m]
      BY <3>1, <2>1, <2>3 DEF PlainEnds
    <3>3. Holding(X, Seen(t), book[m], files[m], m)
      BY <3>1, <3>2, <2>1, <2>3, OthersHold
    <3>4. Media(m)' \subseteq X
      BY <1>1, <3>1 DEF Media, Base
    <3>5. PICK Y : Y = Media(m)'
      OBVIOUS
    <3>6. Holding(Y, Seen(t), book[m], files[m], m)
      BY <3>3, <3>4, <3>5, HoldingLess
    <3> QED  BY <3>2, <3>5, <3>6, <1>1
  <2> QED  BY <2>2, <2>3
<1>3. ~last'.stray => Told'
  BY <1>2 DEF Told
<1> QED  BY <1>1, <1>3 DEF TextInv

\* A file that another name is given, with clusters that stay.
LEMMA GoodMoved ==
    ASSUME NEW d, NEW e, NEW M, Like(d, e, Clusters, Clusters, M), NEW old, NEW new, e[Dir][new] = d[Dir][old],
           NEW x, NEW k, NEW q, Good(d, old, x, k, q)
    PROVE  Good(e, new, x, k, q)
<1>1. PICK h, C, T, U : h = d[Dir][old].first /\ C = Clusters /\ T = Tab(d) /\ U = Tab(e)
  OBVIOUS
<1>2. Walk(T, h, q, k)
  BY <1>1 DEF Good, Fits
<1>3. \A i \in 1..k : q[i] \in C
  BY <1>1, <1>2 DEF Walk
<1>4. Like(d, e, C, C, M) /\ Walk(Tab(d), h, q, k)
  BY <1>1, <1>2
<1>5. Walk(Tab(e), h, q, k)
  BY <1>3, <1>4, WalkLike
<1>6. \A i \in 1..k : e[q[i]] = d[q[i]]
  BY <1>1, <1>3 DEF Like
<1> QED  BY <1>1, <1>5, <1>6 DEF Good, Fits

\* So what was known of the old name is known of the new one, and on the disk.
LEMMA MovedHolds ==
    ASSUME NEW s, NEW t, NEW M, Calm(s, t, Clusters, Clusters, M), NEW old, NEW new,
           Seen(s)[Dir][old].used, Seen(t)[Dir][new] = Seen(s)[Dir][old],
           NEW Y, NEW b, NEW f, ~f.open, Holding(Y, Seen(s), b, f, old),
           NEW e, e.kind = b.kind, e.text = b.text, NEW g, ~g.open, NEW X, X \subseteq {Seen(t)}
    PROVE  Holding(X, Seen(t), e, g, new)
<1>1. PICK V, W, x : V = Seen(s) /\ W = Seen(t) /\ x = b.text
  OBVIOUS
<1>2. Like(V, W, Clusters, Clusters, M)
  BY <1>1 DEF Calm
<1>3. b.kind # "absent" /\ (b.kind = "file" => \E k, q : Good(V, old, x, k, q))
  BY <1>1 DEF Holding, Known
<1>4. ASSUME b.kind = "file" PROVE \E k, q : Good(W, new, x, k, q)
  <2>1. PICK k, q : Good(V, old, x, k, q)
    BY <1>3, <1>4
  <2>2. W[Dir][new] = V[Dir][old]
    BY <1>1
  <2>3. Good(W, new, x, k, q)
    BY <1>2, <2>1, <2>2, GoodMoved
  <2> QED  BY <2>3
<1>5. Known(W, e, g, new)
  BY <1>1, <1>3, <1>4 DEF Known
<1>6. AllFirm(X, e, new)
  <2>1. CASE b.kind = "file"
    <3>1. PICK k, q : Good(W, new, x, k, q)
      BY <2>1, <1>4
    <3> QED  BY <3>1, <2>1, <1>1 DEF AllFirm, Firm
  <2>2. CASE b.kind # "file"
    BY <2>2, <1>3 DEF AllFirm, Firm
  <2> QED  BY <2>1, <2>2
<1> QED  BY <1>1, <1>5, <1>6 DEF Holding

\* What a rename leaves of the notes.
RenameNotes(t, old, new, B) ==
    /\ t.res = "ok" => /\ B[old] = NoFile /\ B[new].kind = book[old].kind /\ B[new].text = book[old].text
                       /\ \A m \in Names : m \notin {old, new} => B[m] = book[m]
    /\ t.res \in {"no_file", "exist"} => B = book
    /\ t.res \notin {"ok", "no_file", "exist"} =>
           \A m \in Names : B[m] = IF m \in {old, new} THEN Unsure(book[m]) ELSE book[m]

\* It does.
LEMMA RenameNoted ==
    ASSUME Inv, NEW old \in Names, NEW new \in Names, Rename(old, new)
    PROVE  \E t \in f_rename(Before(old), old, new) :
               /\ old # new /\ ~files[old].open /\ ~files[new].open /\ vol' = After(t) /\ files' = files
               /\ last' = Quiet("rename", {old, new}) /\ RenameNotes(t, old, new, book')
<1>1. PICK t \in f_rename(Before(old), old, new) :
         /\ old # new /\ ~files[old].open /\ ~files[new].open
         /\ vol' = After(t) /\ files' = files
         /\ book' = CASE t.res = "ok" ->
                            [book EXCEPT ![new] = [book[old] EXCEPT !.settled = TRUE], ![old] = NoFile]
                      [] t.res \in {"no_file", "exist"} -> book
                      [] OTHER -> [book EXCEPT ![new] = Unsure(book[new]), ![old] = Unsure(book[old])]
         /\ last' = Quiet("rename", {old, new})
  BY DEF Rename
<1>2. book = [m \in Names |-> book[m]] /\ IsBook(book)
  BY DEF Inv, Well
<1>3. PICK B : B = book'
  OBVIOUS
<1>4. CASE t.res = "ok"
  <2>1. PICK b, e : b = book[old] /\ e = [b EXCEPT !.settled = TRUE]
    BY Zenon
  <2>2. IsNote(b)
    BY <1>2, <2>1, NoteFacts
  <2>3. e = [kind |-> b.kind, text |-> b.text, settled |-> TRUE, lost |-> b.lost, cut |-> b.cut]
    BY <2>1, <2>2, Zenon DEF IsNote
  <2>4. e.kind = b.kind /\ e.text = b.text
    BY <2>3
  <2>5. B = [book EXCEPT ![new] = e, ![old] = NoFile]
    BY <1>1, <1>3, <1>4, <2>1
  <2>6. B[old] = NoFile /\ B[new] = e /\ \A m \in Names : m \notin {old, new} => B[m] = book[m]
    BY <1>1, <1>2, <2>5
  <2>7. RenameNotes(t, old, new, B)
    BY <1>4, <2>1, <2>4, <2>6 DEF RenameNotes
  <2> QED  BY <1>1, <1>3, <2>7
<1>5. CASE t.res \in {"no_file", "exist"}
  <2>1. B = book
    BY <1>1, <1>3, <1>5
  <2>2. RenameNotes(t, old, new, B)
    BY <2>1, <1>5 DEF RenameNotes
  <2> QED  BY <1>1, <1>3, <2>2
<1>6. CASE t.res \notin {"ok", "no_file", "exist"}
  <2>1. PICK e, g : e = Unsure(book[new]) /\ g = Unsure(book[old])
    OBVIOUS
  <2>2. B = [book EXCEPT ![new] = e, ![old] = g]
    BY <1>1, <1>3, <1>6, <2>1
  <2>3. B[old] = g /\ B[new] = e /\ \A m \in Names : m \notin {old, new} => B[m] = book[m]
    BY <1>1, <1>2, <2>2
  <2>4. RenameNotes(t, old, new, B)
    BY <1>6, <2>1, <2>3 DEF RenameNotes
  <2> QED  BY <1>1, <1>3, <2>4
<1> QED  BY <1>4, <1>5, <1>6

\* The texts in them.
LEMMA RenameTexts ==
    ASSUME Inv, Texts(book), NEW t, NEW old \in Names, NEW new \in Names, NEW B, RenameNotes(t, old, new, B)
    PROVE  Texts(B)
<1>1. ASSUME NEW m \in Names PROVE \E S : B[m].text \in Seq(S)
  <2>1. IsBook(book)
    BY DEF Inv, Well
  <2>2. IsNote(book[m])
    BY <2>1, NoteFacts
  <2>3. \E S : book[m].text \in Seq(S)
    BY DEF Texts
  <2>4. \E S : book[old].text \in Seq(S)
    BY DEF Texts
  <2>5. \E S : NoFile.text \in Seq(S)
    <3>1. NoFile.text = <<>> /\ <<>> \in Seq({0})
      BY DEF NoFile
    <3> QED  BY <3>1
  <2>6. CASE t.res = "ok"
    BY <2>3, <2>4, <2>5, <2>6 DEF RenameNotes
  <2>7. CASE t.res \in {"no_file", "exist"}
    BY <2>3, <2>7 DEF RenameNotes
  <2>8. CASE t.res \notin {"ok", "no_file", "exist"}
    <3>1. B[m] = book[m] \/ B[m] = Unsure(book[m])
      BY <2>8 DEF RenameNotes
    <3> QED  BY <3>1, <2>2, <2>3, UnsureFacts
  <2> QED  BY <2>6, <2>7, <2>8
<1> QED  BY <1>1 DEF Texts

\* Rename keeps what is known.
LEMMA TextRename ==
    ASSUME Inv, TextInv, NoneAbandoned, NEW old \in Names, NEW new \in Names, Rename(old, new)
    PROVE  TextInv'
<1>1. PICK t \in f_rename(Before(old), old, new) :
         /\ old # new /\ ~files[old].open /\ ~files[new].open /\ vol' = After(t) /\ files' = files
         /\ last' = Quiet("rename", {old, new}) /\ RenameNotes(t, old, new, book')
  BY RenameNoted
<1>2. PICK s, N, L, f, B, Q, P : /\ s = Before(old) /\ N = {old, new} /\ L = Uncut(book) /\ f = files[old] /\ B = book'
                                 /\ Q = Beside({old}) /\ P = Beside(N)
  BY Zenon
<1>3. s = Alone(vol, f)
  BY <1>2 DEF Before, Alone
<1>4. /\ s.res = "ok" /\ L \in SUBSET Names /\ IsFiles(files) /\ IsBook(book) /\ Fine(s, L, files) /\ old \in L /\ new \in L
      /\ s.media = {s.disk} /\ P \in SUBSET Clusters
      /\ Sound(Tab(Seen(s)), Seen(s)[Dir], L, files)
      /\ ~last.stray => \A m \in Names : Holding({s.disk, Seen(s)}, Seen(s), book[m], files[m], m)
  <2>1. StartsAt(s, f)
    BY <1>3, TextBegun
  <2>2. Watch(Tab(Seen(s)), Seen(s)[Dir], L, files, N, P)
    BY <2>1, <1>2 DEF StartsAt
  <2> QED  BY <2>1, <2>2, <1>1, <1>2, Zenon DEF StartsAt, Watch
<1>5. t \in f_rename(s, old, new) /\ RenameNotes(t, old, new, B)
  BY <1>1, <1>2
<1>6. Did(s, t, L, files)
  BY <1>1, <1>4, <1>5, Renaming
<1>7. Base(t)
  BY <1>6 DEF Did, Fine, Safe
<1>8. /\ Calm(s, t, Clusters, Clusters, Names \ N)
      /\ t.res = "ok" => /\ t.disk = Seen(t) /\ ~Seen(t)[Dir][old].used
                         /\ Seen(s)[Dir][old].used /\ Seen(t)[Dir][new] = Seen(s)[Dir][old]
      /\ t.res \in {"no_file", "exist"} => Calm(s, t, Clusters, Clusters, Names)
  <2>1. /\ L \in SUBSET Names /\ Fine(s, L, files) /\ s.res = "ok" /\ old \in Names /\ new \in Names
        /\ old # new /\ t \in f_rename(s, old, new) /\ N = {old, new}
    BY <1>1, <1>2, <1>4, <1>5
  <2>2. Renames(s, t, old, new, N)
    BY <2>1, CalmRenaming
  <2> QED  BY <2>2 DEF Renames
<1>9. last'.names = N /\ last'.stray = last.stray
  BY <1>1, <1>2, QuietFacts
<1>10. ASSUME ~last'.stray PROVE PlainEnds(s, t, N, B)
  <2>1. PICK X, W, A, C : X = {t.disk, Seen(t)} /\ W = Seen(t) /\ A = Names \ N /\ C = Clusters
    BY Zenon
  <2>2. Calm(s, t, P, P, A)
    <3>1. Calm(s, t, C, C, A) /\ P \in SUBSET C /\ A \in SUBSET A
      BY <1>4, <1>8, <2>1
    <3> QED  BY <3>1, CalmLess
  <2>3. \A m \in Names : Holding({s.disk, Seen(s)}, Seen(s), book[m], files[m], m)
    BY <1>4, <1>9, <1>10
  <2>4. ASSUME NEW m \in N PROVE Holding(X, W, B[m], files[m], m)
    <3>1. CASE t.res = "ok"
      <4>1. CASE m = old
        <5>1. ~W[Dir][old].used /\ (\A x \in X : ~x[Dir][old].used) /\ ~files[old].open
          BY <3>1, <1>1, <1>8, <2>1
        <5>2. Holding(X, W, NoFile, files[old], old)
          BY <5>1, NoFileHolds
        <5> QED  BY <3>1, <4>1, <5>2, <1>5 DEF RenameNotes
      <4>2. CASE m = new
        <5>1. PICK Y, b, e, g : Y = {s.disk, Seen(s)} /\ b = book[old] /\ e = B[new] /\ g = files[new]
          BY Zenon
        <5>2. e.kind = b.kind /\ e.text = b.text
          BY <3>1, <5>1, <1>5 DEF RenameNotes
        <5>3. /\ Calm(s, t, Clusters, Clusters, A) /\ Seen(s)[Dir][old].used /\ Seen(t)[Dir][new] = Seen(s)[Dir][old]
              /\ ~f.open /\ Holding(Y, Seen(s), b, f, old) /\ ~g.open /\ X \subseteq {Seen(t)}
          BY <3>1, <5>1, <1>1, <1>2, <1>8, <2>1, <2>3, Zenon
        <5>4. Holding(X, Seen(t), e, g, new)
          BY <5>2, <5>3, MovedHolds
        <5> QED  BY <4>2, <5>1, <5>4, <2>1
      <4> QED  BY <4>1, <4>2, <1>2
    <3>2. CASE t.res \in {"no_file", "exist"}
      <4>1. m \in Names /\ ~files[m].open /\ m \in L /\ B[m] = book[m]
        BY <3>2, <1>1, <1>2, <1>4, <1>5 DEF RenameNotes
      <4>2. PICK T, E, Y, b, M : T = Tab(Seen(s)) /\ E = Seen(s)[Dir] /\ Y = {s.disk, Seen(s)} /\ b = book[m] /\ M = Names
        BY Zenon
      <4>3. Inside(T, E, L, files, m, C)
        BY <2>1, InsideFacts
      <4>4. X \subseteq t.media \union {Seen(t)}
        BY <1>7, <2>1 DEF Base
      <4>5. /\ Calm(s, t, C, C, M) /\ s.media = {s.disk} /\ m \in M
            /\ Sound(Tab(Seen(s)), Seen(s)[Dir], L, files)
            /\ Inside(Tab(Seen(s)), Seen(s)[Dir], L, files, m, C) /\ {s.disk, Seen(s)} \subseteq Y
            /\ Holding(Y, Seen(s), b, files[m], m) /\ (~files[m].open \/ ~b.cut => m \in L)
        BY <3>2, <4>1, <4>2, <4>3, <1>4, <1>8, <2>1, <2>3, Zenon
      <4>6. Holding(X, Seen(t), b, files[m], m)
        BY <4>1, <4>4, <4>5, <1>4, HoldingKept
      <4> QED  BY <4>1, <4>2, <4>6, <2>1
    <3>3. CASE t.res \notin {"ok", "no_file", "exist"}
      <4>1. m \in Names /\ ~files[m].open /\ B[m] = Unsure(book[m])
        BY <3>3, <1>1, <1>2, <1>5 DEF RenameNotes
      <4>2. IsNote(book[m])
        BY <4>1, <1>4, NoteFacts
      <4>3. B[m].kind = "unknown"
        BY <4>1, <4>2, UnsureFacts
      <4>4. PICK e, g : e = B[m] /\ g = files[m]
        OBVIOUS
      <4>5. Holding(X, W, e, g, m)
        BY <4>1, <4>3, <4>4, HoldingUnsure
      <4> QED  BY <4>4, <4>5
    <3> QED  BY <3>1, <3>2, <3>3
  <2>5. ASSUME NEW m \in Names, m \notin N PROVE B[m] = book[m]
    BY <2>5, <1>2, <1>5 DEF RenameNotes
  <2> QED  BY <1>2, <2>1, <2>2, <2>4, <2>5 DEF PlainEnds
<1>11. Texts(book)'
  <2>1. Texts(B)
    BY <1>5, RenameTexts DEF TextInv
  <2> QED  BY <2>1, <1>2 DEF Texts
<1> QED  BY <1>1, <1>2, <1>3, <1>7, <1>9, <1>10, <1>11, TextPlain

\* The position of a file that has just been opened, t from o.
Places(o, t) ==
    /\ Gentle(o, t, Clusters) /\ t.res \in Errs /\ t.f.open /\ Base(t)
    /\ t.res = "ok" => t.f.first = o.f.first

\* It stays at the start or goes to the end, and stretches nothing.
LEMMA OpenPlaced ==
    ASSUME NEW o, NEW L \in SUBSET Names, NEW F, IsFiles(F), NEW n \in Names, Ended(o, L, F, n),
           o.res = "ok", o.f.err = "ok", ~o.f.dirty, NEW t, t = o \/ t \in f_lseek(o, o.f.size)
    PROVE  Places(o, t) /\ Ended(t, L, F, n)
<1>1. Base(o) /\ o.f.size \in Nat /\ o.f.open
  <2>1. Busy(o, L, F, n)
    BY DEF Ended
  <2>2. Base(o) /\ FileOK(Tab(Seen(o)), o.f)
    BY <2>1, BusyTorn
  <2> QED  BY <2>1, <2>2 DEF Busy, IsFile, FileOK
<1>2. CASE t = o
  <2>1. PICK C : C = Clusters
    OBVIOUS
  <2>2. t.media \subseteq o.media \union {Seen(o)} /\ Base(t) /\ Seen(t) = Seen(o) /\ t.f = o.f
    BY <1>1, <1>2
  <2>3. Gentle(o, t, C)
    BY <2>2, GentleSame
  <2> QED  BY <1>1, <1>2, <2>1, <2>3 DEF Places, Errs
<1>3. CASE t \in f_lseek(o, o.f.size)
  <2>1. PICK C, to : C = Clusters /\ to = o.f.size
    OBVIOUS
  <2>2. to \in Nat /\ t \in f_lseek(o, to) /\ DirtyOut(o.f, C)
    BY <1>1, <1>3, <2>1 DEF DirtyOut
  <2>3. Ended(t, L, F, n)
    BY <2>2, FileSeeking
  <2>4. Base(t) /\ t.f.open
    BY <2>3, BusyTorn DEF Ended, Busy, IsFile
  <2>5. \/ /\ Gentle(o, t, C) /\ (t.res = "ok" \/ ~o.f.write => t.f.first = o.f.first)
           /\ o.f.err = "ok" => t.res \in Errs
        \/ Stretches(o, t, C, to)
    BY <2>2, SeeksText
  <2>6. ~Stretches(o, t, C, to)
    BY <1>1, <2>1 DEF Stretches
  <2> QED  BY <2>1, <2>3, <2>4, <2>5, <2>6 DEF Places
<1> QED  BY <1>2, <1>3

\* What becomes of the note of a file that is opened.
Creates(mode) == mode.always \/ mode.new \/ mode.open
OpenNoted(b, t, mode, e) ==
    /\ t.res = "ok" /\ t.f.modified => e.kind = "file" /\ e.text = <<>> /\ ~e.settled
    /\ t.res = "ok" /\ ~t.f.modified => e = b
    /\ t.res # "ok" => e = Unsure(b) \/ (e = b /\ ~(t.res \in {"disk_err", "int_err"} /\ Creates(mode)))
    /\ e \in {b, Unsure(b)} \/ e.text = <<>>

\* The ways through Open.
OpenSteps(n, flags, mode, o, t, e) ==
    /\ o \in f_open(Before(n), n, mode) /\ ~files[n].open
    /\ o.res # "ok" => t = o
    /\ o.res = "ok" => t = o \/ t \in f_lseek(o, o.f.size)
    /\ OpenNoted(book[n], t, mode, e)
    /\ t.res = "ok" => Finish(n, t, e, Quiet("open", {n}))
    /\ t.res # "ok" => Finish(n, Closing(t), e, Quiet("open", {n}))

\* It goes one of them.
LEMMA OpenInSteps ==
    ASSUME Inv, NEW n \in Names, NEW flags, Open(n, flags), NEW mode, mode = FileMode(flags)
    PROVE  \E o, t, e : OpenSteps(n, flags, mode, o, t, e)
<1> DEFINE Note(t) == CASE t.res = "ok" /\ t.f.modified ->
                              [book[n] EXCEPT !.kind = "file", !.text = <<>>, !.settled = FALSE]
                        [] t.res \in {"disk_err", "int_err"} /\ Creates(mode) -> Unsure(book[n])
                        [] OTHER -> book[n]
           Positioned(t) == IF "APPEND" \in flags THEN f_lseek(t, t.f.size) ELSE {t}
<1>1. /\ ~files[n].open
      /\ \E t \in Then(f_open(Before(n), n, mode), Positioned) :
            Finish(n, IF t.res = "ok" THEN t ELSE Closing(t), Note(t), Quiet("open", {n}))
  BY Zenon DEF Open, Closing, Creates
<1>2. PICK t \in Then(f_open(Before(n), n, mode), Positioned) :
         Finish(n, IF t.res = "ok" THEN t ELSE Closing(t), Note(t), Quiet("open", {n}))
  BY <1>1, Zenon
<1>3. PICK e : e = Note(t)
  BY Zenon
<1>4. PICK o \in f_open(Before(n), n, mode) :
         /\ o.res # "ok" => t = o
         /\ o.res = "ok" => t \in IF "APPEND" \in flags THEN f_lseek(o, o.f.size) ELSE {o}
  BY <1>2 DEF Then
<1>5. OpenNoted(book[n], t, mode, e)
  <2>1. PICK b : b = book[n]
    BY Zenon
  <2>2. IsNote(b)
    <3>1. IsBook(book)
      BY Zenon DEF Inv, Well
    <3> QED  BY <2>1, <3>1, NoteFacts, Zenon
  <2>3. CASE t.res = "ok" /\ t.f.modified
    <3>1. e = [b EXCEPT !.kind = "file", !.text = <<>>, !.settled = FALSE]
      BY <2>1, <2>3, <1>3, Zenon
    <3>2. e = [kind |-> "file", text |-> <<>>, settled |-> FALSE, lost |-> b.lost, cut |-> b.cut]
      BY <2>2, <3>1, Zenon DEF IsNote
    <3>3. e.kind = "file" /\ e.text = <<>> /\ ~e.settled
      BY <3>2, Zenon
    <3> QED  BY <2>3, <3>3, Zenon DEF OpenNoted
  <2>4. CASE t.res = "ok" /\ ~t.f.modified
    <3>1. e = b
      BY <2>1, <2>4, <1>3, Zenon
    <3> QED  BY <2>1, <2>4, <3>1, Zenon DEF OpenNoted
  <2>5. CASE t.res # "ok"
    <3>1. e = Unsure(b) \/ (e = b /\ ~(t.res \in {"disk_err", "int_err"} /\ Creates(mode)))
      BY <2>1, <2>5, <1>3, Zenon
    <3> QED  BY <2>1, <2>5, <3>1, Zenon DEF OpenNoted
  <2> QED  BY <2>3, <2>4, <2>5, Zenon
<1>6. /\ t.res = "ok" => Finish(n, t, e, Quiet("open", {n}))
      /\ t.res # "ok" => Finish(n, Closing(t), e, Quiet("open", {n}))
  BY <1>2, <1>3, Zenon
<1> HIDE DEF Note, Positioned
<1> HIDE <1>2
<1> QED  BY <1>1, <1>4, <1>5, <1>6 DEF OpenSteps

\* What is known of a file that was found and opened.
LEMMA OldHolds ==
    ASSUME NEW n \in Names, NEW s, NEW Q, ClosedAt(s, n, Q), ~files[n].open, ~last.stray,
           NEW o, OpensOld(s, o, n), NEW t, Places(o, t), t.res = "ok"
    PROVE  Holding({t.disk, Seen(t)}, Seen(t), book[n], t.f, n) /\ ~t.f.modified
<1>1. PICK V, W, b, f, g, X, C, M :
         /\ V = Seen(o) /\ W = Seen(t) /\ b = book[n] /\ f = o.f /\ g = t.f /\ X = {t.disk, Seen(t)}
         /\ C = Clusters /\ M = Names
  BY Zenon
<1>2. Gentle(o, t, C) /\ g.first = f.first /\ g.open
  BY <1>1 DEF Places
<1>3. /\ ~f.modified /\ ~f.dirty /\ f.sect = 0 /\ V[Dir][n].used
      /\ f.first = V[Dir][n].first /\ f.size = V[Dir][n].size /\ Calm(s, o, C, C, M)
  BY <1>1 DEF OpensOld
<1>4. Calm(o, t, C, C, M) /\ ~g.dirty /\ g.size = f.size /\ (g.modified <=> f.modified)
  BY <1>1, <1>2, <1>3 DEF Gentle
<1>5. W[Dir][n] = V[Dir][n]
  BY <1>1, <1>4 DEF Calm, Like
<1>6. Calm(s, t, C, C, M)
  BY <1>3, <1>4, CalmOn
<1>7. Holding(X, W, b, files[n], n)
  <2>1. Calm(s, t, Clusters, Clusters, M) /\ n \in M
    BY <1>1, <1>6
  <2>2. Holding({t.disk, Seen(t)}, Seen(t), book[n], files[n], n)
    BY <2>1, ClosedKept, Zenon
  <2> QED  BY <2>2, <1>1
<1>8. b.kind # "absent"
  BY <1>3, <1>5, <1>7 DEF Holding, Known
<1>9. ASSUME b.kind = "file" PROVE Reads(W, g, b.text)
  <2>1. PICK x : x = b.text
    OBVIOUS
  <2>2. Holding({o.disk, Seen(o)}, Seen(o), book[n], files[n], n)
    <3>1. Calm(s, o, Clusters, Clusters, M) /\ n \in M
      BY <1>1, <1>3
    <3> QED  BY <3>1, ClosedKept, Zenon
  <2>3. PICK k, q : Good(V, n, x, k, q)
    BY <2>1, <2>2, <1>1, <1>9 DEF Holding, Known
  <2>4. Reads(V, f, x)
    BY <2>3, <1>3, GoodReads
  <2>5. Reads(W, g, x)
    BY <2>4, <1>1, <1>2 DEF Gentle, Faithful
  <2> QED  BY <2>1, <2>5
<1>10. Known(W, b, g, n)
  <2>1. ~b.cut
    BY <1>1 DEF ClosedAt
  <2>2. Owns(Tab(W), g)
    BY <1>4 DEF Owns
  <2>3. W[Dir][n].used /\ Noted(W, g, n)
    BY <1>2, <1>3, <1>4, <1>5 DEF Noted
  <2> QED  BY <2>1, <2>2, <2>3, <1>2, <1>3, <1>4, <1>8, <1>9 DEF Known
<1>11. Solid(b, g) => Solid(b, files[n])
  BY DEF Solid
<1>12. Holding(X, W, b, g, n)
  BY <1>7, <1>10, <1>11 DEF Holding
<1> QED  BY <1>1, <1>3, <1>4, <1>12

\* What is known of a file that was made or emptied.
LEMMA NewHolds ==
    ASSUME NEW n \in Names, NEW o, OpensNew(o, n), NEW t, Places(o, t), t.res = "ok",
           NEW e, e.kind = "file", e.text = <<>>, ~e.settled
    PROVE  Holding({t.disk, Seen(t)}, Seen(t), e, t.f, n) /\ t.f.modified
<1>1. PICK W, g, X, C : W = Seen(t) /\ g = t.f /\ X = {t.disk, Seen(t)} /\ C = Clusters
  BY Zenon
<1>2. g.open /\ g.modified /\ g.size = 0 /\ ~g.dirty /\ W[Dir][n].used
  <2>1. Gentle(o, t, C) /\ g.open
    BY <1>1 DEF Places
  <2>2. Seen(t)[Dir][n] = Seen(o)[Dir][n]
    BY <2>1 DEF Gentle, Calm, Like
  <2> QED  BY <2>1, <2>2, <1>1, Zenon DEF Gentle, OpensNew
<1>3. Owns(Tab(W), g)
  BY <1>2 DEF Owns
<1>4. IsText(e.text, 0)
  <2>1. <<>> \in Seq({0}) /\ Len(<<>>) = 0
    OBVIOUS
  <2> QED  BY <2>1 DEF IsText
<1>5. Reads(W, g, e.text)
  BY <1>2, <1>4, EmptyText
<1>6. Holding(X, W, e, g, n)
  BY <1>2, <1>3, <1>5, HoldingLoose
<1> QED  BY <1>1, <1>2, <1>6

\* Open keeps what is known.
LEMMA TextOpen ==
    ASSUME Inv, TextInv, NoneAbandoned, NEW n \in Names, NEW flags, Open(n, flags)
    PROVE  TextInv'
<1>1. PICK mode : mode = FileMode(flags)
  OBVIOUS
<1>2. PICK o, t, e : OpenSteps(n, flags, mode, o, t, e)
  BY <1>1, OpenInSteps
<1>3. PICK s, N, Q, L, b, l, w : /\ s = Before(n) /\ N = {n} /\ Q = Beside(N) /\ L = Uncut(book) /\ b = book[n]
                                 /\ l = Quiet("open", {n}) /\ w = IF t.res = "ok" THEN t ELSE Closing(t)
  OBVIOUS
<1>4. /\ o \in f_open(s, n, mode) /\ ~files[n].open
      /\ o.res # "ok" => t = o
      /\ o.res = "ok" => t = o \/ t \in f_lseek(o, o.f.size)
      /\ OpenNoted(b, t, mode, e) /\ Finish(n, w, e, l)
  BY <1>2, <1>3 DEF OpenSteps
<1>5. ClosedAt(s, n, Q)
  BY <1>3, <1>4, TextClosed
<1>6. /\ s.res = "ok" /\ L \in SUBSET Names /\ IsFiles(files) /\ IsNote(b) /\ Fine(s, L, files) /\ n \in L
      /\ Q \in SUBSET Clusters /\ Watch(Tab(Seen(s)), Seen(s)[Dir], L, files, {n}, Q) /\ s.f = files[n]
  BY <1>3, <1>5, Zenon DEF ClosedAt
<1>7. Opens(s, o, L, files, n)
  BY <1>4, <1>6, Opening
<1>8. OpensAs(s, o, n, mode, Q)
  BY <1>4, <1>6, CalmOpening, Zenon
<1>9. ASSUME o.res = "ok" PROVE Places(o, t) /\ ~o.f.dirty
  <2>1. Ended(o, L, files, n) /\ o.f.err = "ok" /\ ~o.f.dirty
    BY <1>7, <1>9 DEF Opens, Began, Ended
  <2> QED  BY <2>1, <1>4, <1>6, <1>9, OpenPlaced, Zenon
<1>10. Base(t)
  <2>1. CASE o.res = "ok"
    BY <2>1, <1>9 DEF Places
  <2>2. CASE o.res # "ok"
    BY <2>2, <1>4, <1>7 DEF Opens, Fine, Safe
  <2> QED  BY <2>1, <2>2
<1>11. /\ Base(w) /\ Seen(w) = Seen(t) /\ w.disk = t.disk /\ \A P, D, M : Calm(t, w, P, D, M)
       /\ w.f = IF t.res = "ok" THEN t.f ELSE Closed
  <2>1. CASE t.res = "ok"
    <3>1. w = t
      BY <2>1, <1>3
    <3>2. Looked(t, t)
      BY <1>10 DEF Looked, Kept
    <3> QED  BY <3>1, <3>2, <2>1, <1>10, CalmLooked
  <2>2. CASE t.res # "ok"
    <3>1. PICK g : g = Closed
      OBVIOUS
    <3>2. w = [t EXCEPT !.f = g]
      BY <3>1, <2>2, <1>3 DEF Closing
    <3>3. Base(w) /\ w.f = g /\ Seen(w) = Seen(t) /\ \A P, D, M : Calm(t, w, P, D, M)
      BY <3>2, <1>10, CalmSetFile
    <3>4. w.disk = t.disk
      BY <3>2, <1>10 DEF Base, IsState
    <3> QED  BY <3>1, <3>3, <3>4, <2>2
  <2> QED  BY <2>1, <2>2
<1>12. l.cut = {m \in Names : book[m].cut} /\ l.names = {n} /\ l.stray = last.stray
  BY <1>3, QuietFacts, QuietCut
<1>13. PICK C, A, M : C = Clusters /\ A = Names \ N /\ M = Names
  BY Zenon
<1>14. Calm(s, w, Q, Q, A)
  <2>1. Calm(s, o, Q, C, A) /\ Q \in SUBSET Q /\ Q \in SUBSET C /\ A \in SUBSET A /\ A \in SUBSET M
    BY <1>3, <1>6, <1>8, <1>13, Zenon DEF OpensAs
  <2>2. Calm(s, o, Q, Q, A)
    BY <2>1, CalmLess
  <2>3. Calm(s, t, Q, Q, A)
    <3>1. CASE o.res # "ok"
      BY <3>1, <2>2, <1>4
    <3>2. CASE o.res = "ok"
      <4>1. Calm(o, t, C, C, M)
        BY <3>2, <1>9, <1>13 DEF Places, Gentle
      <4>2. Calm(o, t, Q, Q, A)
        BY <4>1, <2>1, CalmLess
      <4> QED  BY <4>2, <2>2, CalmOn
    <3> QED  BY <3>1, <3>2
  <2> QED  BY <2>3, <1>11, CalmOn
<1>15. ASSUME ~l.stray PROVE Ends(n, w, e)
  <2>1. PICK X, W, g : X = {w.disk, Seen(w)} /\ W = Seen(w) /\ g = w.f
    BY Zenon
  <2>2. ~last.stray
    BY <1>12, <1>15
  <2>3. CASE t.res = "ok"
    <3>1. o.res = "ok"
      BY <2>3, <1>4
    <3>2. CASE OpensOld(s, o, n)
      <4>1. Holding({t.disk, Seen(t)}, Seen(t), book[n], t.f, n) /\ ~t.f.modified
        BY <2>2, <2>3, <3>1, <3>2, <1>4, <1>5, <1>9, OldHolds
      <4>2. e = b
        BY <2>3, <4>1, <1>4 DEF OpenNoted
      <4> QED  BY <4>1, <4>2, <2>3, <1>3, <1>11, <1>13, <1>14 DEF Ends
    <3>3. CASE OpensNew(o, n)
      <4>0. t.f.modified
        BY <3>1, <3>3, <1>9, Zenon DEF Places, Gentle, OpensNew
      <4>1. e.kind = "file" /\ e.text = <<>> /\ ~e.settled
        BY <2>3, <4>0, <1>4 DEF OpenNoted
      <4>2. Holding({t.disk, Seen(t)}, Seen(t), e, t.f, n)
        BY <2>3, <3>1, <3>3, <4>1, <1>9, NewHolds, Zenon
      <4> QED  BY <4>2, <2>3, <1>3, <1>11, <1>13, <1>14 DEF Ends
    <3> QED  BY <3>1, <3>2, <3>3, <1>8 DEF OpensAs
  <2>4. CASE t.res # "ok"
    <3>1. ~g.open
      BY <2>1, <2>4, <1>11 DEF Closed
    <3>2. CASE e = Unsure(b)
      <4>1. e.kind = "unknown"
        BY <3>2, <1>6, UnsureFacts
      <4>2. Holding(X, W, e, g, n)
        BY <3>1, <4>1, HoldingUnsure
      <4> QED  BY <4>2, <2>1, <1>3, <1>13, <1>14 DEF Ends
    <3>3. CASE e = b /\ ~(t.res \in {"disk_err", "int_err"} /\ Creates(mode))
      <4>1. Calm(s, t, C, C, M)
        <5>1. CASE o.res # "ok"
          BY <5>1, <3>3, <1>4, <1>8, <1>13 DEF OpensAs, Creates
        <5>2. CASE o.res = "ok"
          <6>1. ~Creates(mode)
            BY <5>2, <3>3, <2>4, <1>9 DEF Places, Errs
          <6>2. OpensOld(s, o, n)
            BY <5>2, <6>1, <1>8 DEF OpensAs, Creates
          <6>3. Calm(s, o, C, C, M) /\ Calm(o, t, C, C, M)
            BY <5>2, <6>2, <1>9, <1>13 DEF OpensOld, Places, Gentle
          <6> QED  BY <6>3, CalmOn
        <5> QED  BY <5>1, <5>2
      <4>2. Calm(s, t, Clusters, Clusters, M) /\ n \in M
        BY <4>1, <1>13
      <4>3. Holding({t.disk, Seen(t)}, Seen(t), book[n], files[n], n)
        BY <4>2, <2>2, <1>4, <1>5, ClosedKept, Zenon
      <4>4. Holding(X, W, b, files[n], n)
        BY <4>3, <2>1, <1>3, <1>11
      <4>5. Known(W, b, g, n) /\ (Solid(b, g) <=> Solid(b, files[n]))
        BY <3>1, <4>4, <1>4 DEF Holding, Known, Solid
      <4>6. Holding(X, W, b, g, n)
        BY <4>4, <4>5 DEF Holding
      <4> QED  BY <3>3, <4>6, <2>1, <1>3, <1>13, <1>14 DEF Ends
    <3> QED  BY <2>4, <3>2, <3>3, <1>4 DEF OpenNoted
  <2> QED  BY <2>3, <2>4
<1>16. \E S : e.text \in Seq(S)
  <2>1. CASE e = b
    BY <2>1, <1>3 DEF TextInv, Texts
  <2>2. CASE e = Unsure(b)
    BY <2>2, <1>6, UnsureFacts
  <2>3. CASE e.text = <<>>
    <3>1. <<>> \in Seq({0})
      OBVIOUS
    <3> QED  BY <3>1, <2>3
  <2> QED  BY <2>1, <2>2, <2>3, <1>4 DEF OpenNoted
<1> QED  BY <1>4, <1>11, <1>12, <1>15, <1>16, TextFinish

\* Statvfs keeps what is known.
LEMMA TextStatvfs ==
    ASSUME Inv, TextInv, NoneAbandoned, Statvfs
    PROVE  TextInv'
<1>1. PICK t \in f_getfree([vol EXCEPT !.media = {vol.disk}]) :
         /\ vol' = After(t) /\ files' = files /\ book' = book
         /\ t.res = "ok" =>
               last' = [Quiet("statvfs", {}) EXCEPT !.got = <<t.free>>, !.want = <<FreeNow(t)>>]
         /\ t.res # "ok" => last' = Quiet("statvfs", {})
  BY Zenon DEF Statvfs
<1>2. PICK s, f, N, B : s = Alone0(vol) /\ f = vol.f /\ N = {} /\ B = book
  BY Zenon
<1>3. s = Alone(vol, f)
  <2>1. IsState(vol)
    BY DEF Inv, Well, Base
  <2> QED  BY <2>1, <1>2, Zenon DEF Alone, Alone0, IsState
<1>4. Base(s) /\ s.res = "ok"
  <2>1. StartsAt(s, f)
    BY <1>3, TextBegun
  <2> QED  BY <2>1 DEF StartsAt
<1>5. \A P, D, M : Calm(s, t, P, D, M)
  <2>1. t \in f_getfree(s)
    BY <1>1, <1>2, Zenon DEF Alone0
  <2> QED  BY <2>1, <1>4, CalmCounting
<1>6. Base(t)
  BY <1>5 DEF Calm
<1>7. last'.names = N /\ last'.stray = last.stray
  <2>1. PICK g, w : g = <<t.free>> /\ w = <<FreeNow(t)>>
    BY Zenon
  <2>2. PICK k, l : k = Quiet("statvfs", {}) /\ l = [Quiet("statvfs", {}) EXCEPT !.got = g, !.want = w]
    OBVIOUS
  <2>3. k.names = {} /\ k.stray = last.stray /\ l.names = {} /\ l.stray = last.stray
    BY <2>2, QuietFacts
  <2> QED  BY <1>1, <1>2, <2>1, <2>2, <2>3, Zenon
<1>8. PlainEnds(s, t, N, B)
  BY <1>2, <1>5 DEF PlainEnds
<1>9. Texts(book)' /\ B = book'
  BY <1>1, <1>2 DEF TextInv, Texts
<1> QED  BY <1>1, <1>3, <1>6, <1>7, <1>8, <1>9, TextPlain

\* A place in a text is one in a sector.
LEMMA PosOf ==
    ASSUME NEW k \in Nat, NEW p \in Nat \ {0}, p <= SectorSize * k
    PROVE  \E i \in 1..k, j \in 1..SectorSize : p = Pos(i, j)
<1>1. PICK a, i, j : a = p - 1 /\ i = a \div SectorSize + 1 /\ j = (a % SectorSize) + 1
  OBVIOUS
<1>2. SectorSize \in Nat \ {0} /\ a \in Nat
  BY <1>1, VolumeAssumption
<1>3. a = (a \div SectorSize) * SectorSize + (a % SectorSize) /\ a \div SectorSize \in Nat
      /\ a % SectorSize \in 0..(SectorSize - 1)
  BY <1>2, DivMod, Zenon
<1>4. PICK b \in Nat : b = a \div SectorSize
  BY <1>3
<1>5. i = b + 1 /\ i \in Nat \ {0} /\ j \in 1..SectorSize /\ b * SectorSize \in Nat /\ a = b * SectorSize + (j - 1)
  <2>1. b * SectorSize \in Nat
    BY <1>2, <1>4, Distribute
  <2> QED  BY <2>1, <1>1, <1>2, <1>3, <1>4
<1>6. p = Pos(i, j)
  BY <1>1, <1>2, <1>5 DEF Pos
<1>7. i <= k
  <2>1. k = 0 => SectorSize * k = 0
    BY <1>2
  <2>2. k \in Nat \ {0} /\ k < i => SectorSize * k < Pos(i, j)
    BY <1>5, PosFacts
  <2>3. PICK c : c = SectorSize * k
    OBVIOUS
  <2>4. k # 0 /\ p <= c
    BY <2>1, <2>3
  <2>5. k < i => c < p /\ c \in Nat
    <3>1. SectorSize * k \in Nat
      BY <1>2, Distribute
    <3> QED  BY <3>1, <2>2, <2>3, <2>4, <1>6
  <2> QED  BY <2>4, <2>5, <1>5
<1> QED  BY <1>5, <1>6, <1>7

\* The bytes of a file as its chain has them.
LEMMA ContentBytes ==
    ASSUME NEW d, NEW n, NEW q, q = Chain(d, n), Len(q) \in Nat, NEW m \in Nat, m = d[Dir][n].size,
           m <= SectorSize * Len(q), NEW c, c = Content(d, n)
    PROVE  /\ Len(c) = m
           /\ \A i \in 1..Len(q), j \in 1..SectorSize : Pos(i, j) <= m => c[Pos(i, j)] = d[q[i]][j]
<1>1. c = [p \in 1..m |-> d[q[(p - 1) \div SectorSize + 1]][((p - 1) % SectorSize) + 1]]
  BY DEF Content, Entry
<1>2. ASSUME NEW i \in 1..Len(q), NEW j \in 1..SectorSize, Pos(i, j) <= m
      PROVE  c[Pos(i, j)] = d[q[i]][j]
  <2>1. PICK p, a, b, r : p = Pos(i, j) /\ a = p - 1 /\ b = i - 1 /\ r = j - 1
    OBVIOUS
  <2>2. SectorSize \in Nat \ {0} /\ b \in Nat /\ r \in Nat /\ r < SectorSize /\ i \in Nat \ {0}
    BY <2>1, VolumeAssumption
  <2>3. p \in Nat \ {0} /\ b * SectorSize \in Nat
    BY <2>1, <2>2, PosFacts, Distribute
  <2>4. a = b * SectorSize + r
    BY <2>1, <2>2, <2>3 DEF Pos
  <2>5. a \div SectorSize = b /\ a % SectorSize = r
    BY <2>2, <2>4, Division, Zenon
  <2>6. p \in 1..m /\ (p - 1) \div SectorSize + 1 = i /\ ((p - 1) % SectorSize) + 1 = j
    BY <1>2, <2>1, <2>3, <2>5
  <2> QED  BY <1>1, <2>1, <2>6
<1>3. Len(c) = m
  BY <1>1
<1> QED  BY <1>2, <1>3

\* The chain of a file of a disk that is sound.
ChainOf(d, n, q, m) ==
    /\ q = Chain(d, n) /\ q \in Seq(Clusters) /\ Len(q) \in 0..NFatEnt /\ Walk(Tab(d), d[Dir][n].first, q, Len(q))
    /\ m = d[Dir][n].size /\ m \in Nat /\ m <= SectorSize * Len(q)

\* There is one.
LEMMA ChainHeld ==
    ASSUME NEW d, DiskOK(d), NEW L \in SUBSET Names, Sound(Tab(d), d[Dir], L, NoFiles), NEW n \in L, Entry(d, n).used
    PROVE  \E q, m : ChainOf(d, n, q, m)
<1>1. PICK q, m, h, T : q = Chain(d, n) /\ m = d[Dir][n].size /\ h = d[Dir][n].first /\ T = Tab(d)
  BY Zenon
<1>2. n \in Names /\ h = Entry(d, n).first
  BY <1>1 DEF Entry
<1>3. q \in Seq(Clusters) /\ m <= SectorSize * Len(q)
  BY <1>1, SoundChains, Zenon DEF Entry
<1>4. Grown(T, h, q, NFatEnt)
  BY <1>1, <1>2, ChainGrown
<1>5. Len(q) \in 0..NFatEnt /\ Walk(T, h, q, Len(q))
  BY <1>4 DEF Grown
<1>6. m \in Nat
  BY <1>1, <1>2 DEF DiskOK
<1> QED  BY <1>1, <1>3, <1>5, <1>6 DEF ChainOf

\* A walk that is no longer than the volume is the beginning of the chain.
LEMMA ChainReaches ==
    ASSUME NEW T, NEW h, NEW q, Grown(T, h, q, NFatEnt), NEW r, NEW k, Walk(T, h, r, k), k <= NFatEnt
    PROVE  k <= Len(q) /\ \A i \in 1..k : r[i] = q[i]
<1>1. /\ k \in Nat /\ r \in [1..k -> Clusters] /\ Len(q) \in Nat /\ NFatEnt \in Nat /\ Len(q) <= NFatEnt
      /\ q \in Seq(Clusters) /\ Walk(T, h, q, Len(q))
  <2>1. k \in Nat /\ r \in [1..k -> Clusters]
    BY DEF Walk
  <2>2. NFatEnt \in Nat
    BY VolumeAssumption
  <2>3. q \in Seq(Clusters) /\ Walk(T, h, q, Len(q)) /\ Len(q) \in 0..NFatEnt
    BY DEF Grown
  <2> QED  BY <2>1, <2>2, <2>3
<1>2. ASSUME ~(k <= Len(q)) PROVE FALSE
  <2>1. k > Len(q) /\ k > 0 /\ 1 \in 1..k /\ Len(q) # NFatEnt
    BY <1>1, <1>2
  <2>2. h \in Clusters
    BY <1>1, <2>1, Zenon DEF Walk
  <2>3. Stuck(T, h, q)
    BY <2>1 DEF Grown
  <2>4. q # <<>> /\ Len(q) \in Nat \ {0}
    <3>1. q # <<>>
      BY <2>2, <2>3 DEF Stuck
    <3> QED  BY <1>1, <3>1, EmptySeq
  <2>5. T[q[Len(q)]] \notin Clusters
    BY <2>3, <2>4 DEF Stuck
  <2>6. PICK m : m = Len(q)
    BY Zenon
  <2>7. q[m] = r[m]
    <3>1. m \in 1..m /\ m <= k
      BY <2>1, <2>4, <2>6, <1>1
    <3>2. Walk(T, h, q, m)
      BY <1>1, <2>6
    <3> QED  BY <3>1, <3>2, WalksAgree
  <2>8. T[r[m]] = r[m + 1] /\ r[m + 1] \in Clusters
    <3>1. m \in 1..(k - 1) /\ m + 1 \in 1..k
      BY <1>1, <2>1, <2>4, <2>6
    <3> QED  BY <3>1, <1>1 DEF Walk
  <2> QED  BY <2>5, <2>6, <2>7, <2>8
<1>3. \A i \in 1..k : i <= Len(q) => r[i] = q[i]
  BY <1>1, WalksAgree
<1> QED  BY <1>1, <1>2, <1>3

\* Bytes that are where a file's clusters are, are its contents.
LEMMA GoodHeld ==
    ASSUME NEW d, DiskOK(d), NEW n \in Names, NEW x, NEW k, NEW r, Good(d, n, x, k, r)
    PROVE  Entry(d, n).used /\ Same(Content(d, n), x)
<1>1. PICK q, m, h, T, c : q = Chain(d, n) /\ m = d[Dir][n].size /\ h = d[Dir][n].first /\ T = Tab(d) /\ c = Content(d, n)
  BY Zenon
<1>2. h = Entry(d, n).first /\ Entry(d, n).used
  BY <1>1 DEF Entry, Good
<1>3. /\ k <= NFatEnt /\ Walk(T, h, r, k) /\ IsText(x, m) /\ m \in Nat /\ m <= SectorSize * k
      /\ \A i \in 1..k, j \in 1..SectorSize :
             Pos(i, j) <= m /\ x[Pos(i, j)] # AnyContent => d[r[i]][j] = x[Pos(i, j)]
  BY <1>1 DEF Good, Fits
<1>4. Grown(T, h, q, NFatEnt)
  BY <1>1, <1>2, ChainGrown
<1>5. k <= Len(q) /\ \A i \in 1..k : r[i] = q[i]
  BY <1>3, <1>4, ChainReaches
<1>6. k \in Nat /\ Len(q) \in Nat
  BY <1>3, <1>4, VolumeAssumption, Zenon DEF Walk, Grown
<1>7. m <= SectorSize * Len(q) /\ SectorSize * k \in Nat
  <2>1. PICK a, b : a = SectorSize * k /\ b = SectorSize * Len(q)
    OBVIOUS
  <2>2. a <= b /\ a \in Nat /\ b \in Nat
    BY <2>1, <1>5, <1>6, Growing
  <2> QED  BY <2>1, <2>2, <1>3
<1>8. /\ Len(c) = m
      /\ \A i \in 1..Len(q), j \in 1..SectorSize : Pos(i, j) <= m => c[Pos(i, j)] = d[q[i]][j]
  BY <1>1, <1>3, <1>6, <1>7, ContentBytes
<1>9. ASSUME NEW p \in 1..Len(x), x[p] # AnyContent PROVE c[p] = x[p]
  <2>1. m = Len(x) /\ p \in Nat \ {0} /\ p <= m
    BY <1>3, <1>9 DEF IsText
  <2>2. PICK w : w = SectorSize * k
    OBVIOUS
  <2>3. p <= SectorSize * k
    BY <2>1, <2>2, <1>3, <1>7
  <2>4. PICK i \in 1..k, j \in 1..SectorSize : p = Pos(i, j)
    BY <2>1, <2>3, <1>6, PosOf
  <2>5. i \in 1..Len(q) /\ Pos(i, j) <= m
    BY <2>1, <2>4, <1>5, <1>6
  <2>6. c[Pos(i, j)] = d[q[i]][j] /\ d[r[i]][j] = x[Pos(i, j)] /\ r[i] = q[i]
    BY <2>4, <2>5, <1>3, <1>5, <1>8, <1>9
  <2> QED  BY <2>4, <2>6
<1>10. Same(c, x)
  BY <1>3, <1>8, <1>9 DEF Same, IsText
<1> QED  BY <1>1, <1>2, <1>10

\* And the other way round.
LEMMA HeldGood ==
    ASSUME NEW d, DiskOK(d), NEW L \in SUBSET Names, Sound(Tab(d), d[Dir], L, NoFiles), NEW n \in L,
           Entry(d, n).used, NEW x, \E S : x \in Seq(S), Same(Content(d, n), x)
    PROVE  \E k, q : Good(d, n, x, k, q)
<1>1. PICK q, m : ChainOf(d, n, q, m)
  BY ChainHeld
<1>2. PICK c : c = Content(d, n)
  OBVIOUS
<1>3. PICK k : k = Len(q)
  BY Zenon
<1>4. /\ Walk(Tab(d), d[Dir][n].first, q, k) /\ k \in Nat /\ k <= NFatEnt
      /\ m = d[Dir][n].size /\ m \in Nat /\ m <= SectorSize * k
  <2>1. NFatEnt \in Nat
    BY VolumeAssumption
  <2> QED  BY <2>1, <1>1, <1>3 DEF ChainOf
<1>5. /\ Len(c) = m
      /\ \A i \in 1..k, j \in 1..SectorSize : Pos(i, j) <= m => c[Pos(i, j)] = d[q[i]][j]
  <2>1. q = Chain(d, n) /\ Len(q) \in Nat /\ m \in Nat /\ m = d[Dir][n].size /\ m <= SectorSize * Len(q)
    BY <1>1, <1>3, <1>4 DEF ChainOf
  <2> QED  BY <2>1, <1>2, <1>3, ContentBytes, SMTT(60)
<1>6. Len(x) = m /\ \A p \in 1..m : x[p] = AnyContent \/ c[p] = x[p]
  BY <1>2, <1>5 DEF Same
<1>7. IsText(x, m)
  BY <1>6 DEF IsText
<1>8. ASSUME NEW i \in 1..k, NEW j \in 1..SectorSize, Pos(i, j) <= m, x[Pos(i, j)] # AnyContent
      PROVE  d[q[i]][j] = x[Pos(i, j)]
  <2>1. PICK p : p = Pos(i, j)
    OBVIOUS
  <2>2. i \in Nat \ {0}
    BY <1>4
  <2>3. p \in Nat \ {0}
    BY <2>1, <2>2, PosFacts
  <2>4. p \in 1..m
    BY <2>1, <2>3, <1>4, <1>8
  <2> QED  BY <2>1, <2>4, <1>5, <1>6, <1>8
<1>9. Fits(d, d[Dir][n], x, k, q)
  BY <1>4, <1>7, <1>8 DEF Fits
<1> QED  BY <1>9 DEF Good, Entry

\* What is known of a name as the disk is found.
LEMMA FoundHolds ==
    ASSUME NEW d, DiskOK(d), Sound(Tab(d), d[Dir], Names, NoFiles), NEW n \in Names, NEW b,
           b.kind = "absent" => ~Entry(d, n).used,
           b.kind = "file" => Entry(d, n).used /\ Same(Content(d, n), b.text) /\ \E S : b.text \in Seq(S)
    PROVE  Holding({d}, d, b, Closed, n)
<1>1. PICK f, L, x : f = Closed /\ L = Names /\ x = b.text
  OBVIOUS
<1>2. ~f.open
  BY <1>1 DEF Closed
<1>3. ASSUME b.kind = "file" PROVE \E k, q : Good(d, n, x, k, q)
  <2>1. L \in SUBSET Names /\ Sound(Tab(d), d[Dir], L, NoFiles) /\ n \in L
    BY <1>1
  <2>2. Entry(d, n).used /\ Same(Content(d, n), x) /\ \E S : x \in Seq(S)
    BY <1>1, <1>3
  <2> QED  BY <2>1, <2>2, HeldGood
<1>4. Known(d, b, f, n)
  BY <1>1, <1>2, <1>3 DEF Known, Entry
<1>5. AllFirm({d}, b, n)
  <2>1. CASE b.kind = "file"
    <3>1. PICK k, q : Good(d, n, x, k, q)
      BY <2>1, <1>3
    <3> QED  BY <3>1, <2>1, <1>1 DEF AllFirm, Firm
  <2>2. CASE b.kind # "file"
    BY <2>2 DEF AllFirm, Firm, Entry
  <2> QED  BY <2>1, <2>2
<1> QED  BY <1>1, <1>4, <1>5 DEF Holding

\* A volume that has been mounted.
LEMMA MountedSeen ==
    ASSUME NEW d, NEW k, NEW v, v = Mounted(d, k)
    PROVE  v.disk = d /\ Seen(v) = d /\ v.media = {d} /\ v.out = <<>>
<1>1. v.disk = d /\ v.wsect = Nowhere /\ v.media = {d} /\ v.out = <<>>
  BY DEF Mounted
<1> QED  BY <1>1 DEF Seen

\* The texts of the volume as found.
LEMMA TextInit == Init => TextInv
<1> SUFFICES ASSUME Init PROVE TextInv
  OBVIOUS
<1>1. PICK d, k : d = FirstDisk /\ k = MaxFaults
  OBVIOUS
<1>2. DiskOK(d) /\ Sound(Tab(d), d[Dir], Names, NoFiles)
  BY <1>1, FirstDiskAssumption, HealthySound
<1>3. vol.disk = d /\ Seen(vol) = d /\ vol.media = {d} /\ vol.out = <<>>
  <2>1. PICK v : v = vol
    OBVIOUS
  <2>2. v = Mounted(d, k)
    BY <1>1, <2>1, Zenon DEF Init
  <2>3. v.disk = d /\ Seen(v) = d /\ v.media = {d} /\ v.out = <<>>
    BY <2>2, MountedSeen
  <2> QED  BY <2>1, <2>3
<1>4. ASSUME NEW n \in Names
      PROVE  (\E S : book[n].text \in Seq(S)) /\ Holding({d}, d, book[n], Closed, n)
  <2>1. CASE Entry(d, n).used
    <3>1. PICK x, b : x = Content(d, n) /\ b = book[n]
      OBVIOUS
    <3>2. b = [NoFile EXCEPT !.kind = "file", !.text = x]
      BY <1>1, <2>1, <3>1, Zenon DEF Init
    <3>3. b.kind = "file" /\ b.text = x
      BY <3>2 DEF NoFile
    <3>4. \E S : x \in Seq(S)
      <4>1. PICK L : L = Names
        OBVIOUS
      <4>2. L \in SUBSET Names /\ Sound(Tab(d), d[Dir], L, NoFiles) /\ n \in L
        BY <1>2, <4>1
      <4>3. PICK q, m : ChainOf(d, n, q, m)
        BY <1>2, <2>1, <4>2, ChainHeld
      <4>4. q = Chain(d, n) /\ Len(q) \in Nat /\ m \in Nat /\ m = d[Dir][n].size /\ m <= SectorSize * Len(q)
        BY <4>3 DEF ChainOf
      <4>5. x = [p \in 1..m |-> d[q[(p - 1) \div SectorSize + 1]][((p - 1) % SectorSize) + 1]]
        BY <3>1, <4>4 DEF Content, Entry
      <4>6. x = [p \in 1..m |-> x[p]]
        BY <4>5
      <4>7. PICK S : S = {x[p] : p \in 1..m}
        BY Zenon
      <4>8. \A p \in 1..m : x[p] \in S
        BY <4>7
      <4>9. m \in Nat
        BY <4>4
      <4>10. x \in [1..m -> S]
        <5> HIDE <4>5, <4>7
        <5> QED  BY <4>6, <4>8
      <4>11. x \in Seq(S)
        BY <4>9, <4>10
      <4> QED  BY <4>11
    <3>5. Same(x, x)
      BY DEF Same
    <3>6. Holding({d}, d, b, Closed, n)
      BY <1>2, <2>1, <3>1, <3>3, <3>4, <3>5, FoundHolds, Zenon
    <3> QED  BY <3>1, <3>3, <3>4, <3>6
  <2>2. CASE ~Entry(d, n).used
    <3>1. PICK b : b = book[n]
      OBVIOUS
    <3>2. b = NoFile
      BY <1>1, <2>2, <3>1, Zenon DEF Init
    <3>3. b.kind = "absent" /\ b.text = <<>>
      BY <3>2 DEF NoFile
    <3>4. Holding({d}, d, b, Closed, n)
      BY <1>2, <2>2, <3>3, FoundHolds, Zenon
    <3>5. <<>> \in Seq({0})
      OBVIOUS
    <3> QED  BY <3>1, <3>3, <3>4, <3>5
  <2> QED  BY <2>1, <2>2
<1>5. ASSUME NEW m \in Names PROVE Holding(Media(m), Seen(vol), book[m], files[m], m)
  <2>1. last.names = {} /\ files[m] = Closed
    BY Zenon DEF Init
  <2>2. Media(m) = {d}
    BY <2>1, <1>3 DEF Media
  <2> QED  BY <2>1, <2>2, <1>3, <1>4, Zenon
<1> QED  BY <1>3, <1>4, <1>5 DEF TextInv, Texts, Told

\* Crash keeps what is known: the callers know what they find, and no more.
LEMMA TextCrash ==
    ASSUME Inv, TextInv, NoneAbandoned, Crash
    PROVE  TextInv'
<1>1. PICK d \in vol.media :
         /\ Cut = {} /\ vol' = Mounted(d, vol.faults)
         /\ book' = [n \in Names |->
                        IF book[n].kind # "unknown" /\ Holds(d, n)
                        THEN [book[n] EXCEPT !.settled = TRUE, !.lost = FALSE]
                        ELSE Unsure([book[n] EXCEPT !.lost = FALSE])]
         /\ files' = NoFiles /\ last' = [Quiet("crash", {}) EXCEPT !.stray = FALSE]
  BY Zenon DEF Crash, NoFiles
<1>2. DiskOK(d) /\ Sound(Tab(d), d[Dir], Names, NoFiles)
  <2>1. Sound(Tab(d), d[Dir], Names \ Cut, NoFiles) /\ DiskOK(d)
    BY DEF Inv, Well, Base
  <2>2. Names \ Cut = Names
    BY <1>1, Zenon
  <2> QED  BY <2>1, <2>2
<1>3. vol'.disk = d /\ Seen(vol') = d /\ vol'.media = {d} /\ vol'.out = <<>>
  <2>1. PICK v, k : v = vol' /\ k = vol.faults
    OBVIOUS
  <2>2. v = Mounted(d, k)
    BY <1>1, <2>1, Zenon
  <2>3. v.disk = d /\ Seen(v) = d /\ v.media = {d} /\ v.out = <<>>
    BY <2>2, MountedSeen
  <2> QED  BY <2>1, <2>3
<1>4. ASSUME NEW n \in Names
      PROVE  (\E S : book'[n].text \in Seq(S)) /\ Holding({d}, d, book'[n], Closed, n)
  <2>1. PICK b, c : b = book[n] /\ c = book'[n]
    OBVIOUS
  <2>2. IsNote(b) /\ \E S : b.text \in Seq(S)
    <3>1. IsBook(book)
      BY DEF Inv, Well
    <3> QED  BY <2>1, <3>1, NoteFacts DEF TextInv, Texts
  <2>3. PICK e, g : e = [b EXCEPT !.settled = TRUE, !.lost = FALSE] /\ g = [b EXCEPT !.lost = FALSE]
    BY Zenon
  <2>4. CASE b.kind # "unknown" /\ Holds(d, n)
    <3>1. c = e
      BY <1>1, <2>1, <2>3, <2>4, Zenon
    <3>2. e = [kind |-> b.kind, text |-> b.text, settled |-> TRUE, lost |-> FALSE, cut |-> b.cut]
      BY <2>2, <2>3, Zenon DEF IsNote
    <3>3. c.kind = b.kind /\ c.text = b.text
      BY <3>1, <3>2
    <3>4. /\ c.kind = "absent" => ~Entry(d, n).used
          /\ c.kind = "file" => Entry(d, n).used /\ Same(Content(d, n), c.text) /\ \E S : c.text \in Seq(S)
      BY <2>1, <2>2, <2>4, <3>3 DEF Holds
    <3>5. Holding({d}, d, c, Closed, n)
      BY <1>2, <3>4, FoundHolds, Zenon
    <3> QED  BY <2>1, <2>2, <3>3, <3>5
  <2>5. CASE ~(b.kind # "unknown" /\ Holds(d, n))
    <3>1. c = Unsure(g)
      BY <1>1, <2>1, <2>3, <2>5, Zenon
    <3>2. g = [kind |-> b.kind, text |-> b.text, settled |-> b.settled, lost |-> FALSE, cut |-> b.cut]
      BY <2>2, <2>3, Zenon DEF IsNote
    <3>3. IsNote(g)
      BY <3>2 DEF IsNote
    <3>4. c.kind = "unknown" /\ \E S : c.text \in Seq(S)
      BY <3>1, <3>3, UnsureFacts
    <3>5. Holding({d}, d, c, Closed, n)
      BY <1>2, <3>4, FoundHolds
    <3> QED  BY <2>1, <3>4, <3>5
  <2> QED  BY <2>4, <2>5
<1>5. ASSUME NEW m \in Names PROVE Holding(Media(m)', Seen(vol'), book'[m], files'[m], m)
  <2>1. files'[m] = Closed
    BY <1>1, Zenon DEF NoFiles
  <2>2. last'.names = {}
    <3>1. PICK l : l = last'
      OBVIOUS
    <3>2. l = [Quiet("crash", {}) EXCEPT !.stray = FALSE]
      BY <1>1, <3>1, Zenon
    <3>3. l.names = {}
      BY <3>2, QuietFacts
    <3> QED  BY <3>1, <3>3
  <2>3. Media(m)' = {d}
    BY <2>2, <1>3 DEF Media
  <2> QED  BY <2>1, <2>3, <1>3, <1>4, Zenon
<1> QED  BY <1>3, <1>4, <1>5 DEF TextInv, Texts, Told

\* Every step keeps what is known.
LEMMA TextNext ==
    ASSUME Inv, TextInv, [Next]_vars
    PROVE  TextInv'
<1>1. CASE Next
  <2>1. NoneAbandoned
    BY <1>1 DEF Next, NoneAbandoned
  <2>2. CASE \E n \in Names, flags \in OpenFlags : Open(n, flags)
    BY <2>1, <2>2, TextOpen
  <2>3. CASE \E n \in Names, len \in Lengths : Write(n, len)
    BY <2>1, <2>3, TextWrite
  <2>4. CASE \E n \in Names, len \in Lengths : Read(n, len)
    BY <2>1, <2>4, TextRead
  <2>5. CASE \E n \in Names, ofs \in Offsets : Seek(n, ofs)
    BY <2>1, <2>5, TextSeek
  <2>6. CASE \E n \in Names : Truncate(n)
    BY <2>1, <2>6, TextTruncate
  <2>7. CASE \E n \in Names : Sync(n)
    BY <2>1, <2>7, TextSync
  <2>8. CASE \E n \in Names : Close(n)
    BY <2>1, <2>8, TextClose
  <2>9. CASE \E n \in Names : Unlink(n)
    BY <2>1, <2>9, TextUnlink
  <2>10. CASE \E n, m \in Names : Rename(n, m)
    BY <2>1, <2>10, TextRename
  <2>11. CASE Statvfs
    BY <2>1, <2>11, TextStatvfs
  <2>12. CASE Crash
    BY <2>1, <2>12, TextCrash
  <2> QED
    BY <1>1, <2>2, <2>3, <2>4, <2>5, <2>6, <2>7, <2>8, <2>9, <2>10, <2>11, <2>12 DEF Next
<1>2. CASE UNCHANGED vars
  BY <1>2, Zenon DEF vars, TextInv, Texts, Told, Media
<1> QED  BY <1>1, <1>2

\* A disk on which what is known of a name is firm has the file as the callers know it.
LEMMA FirmHolds ==
    ASSUME NEW d, DiskOK(d), NEW n \in Names, NEW k, NEW q, Firm(d, book[n], n, k, q)
    PROVE  Holds(d, n)
<1>1. PICK b, x : b = book[n] /\ x = b.text
  OBVIOUS
<1>2. ASSUME b.kind = "file" PROVE Entry(d, n).used /\ Same(Content(d, n), x)
  <2>1. Good(d, n, x, k, q)
    BY <1>1, <1>2 DEF Firm
  <2> QED  BY <2>1, GoodHeld
<1>3. b.kind = "absent" => ~Entry(d, n).used
  BY <1>1 DEF Firm, Entry
<1> QED  BY <1>1, <1>2, <1>3 DEF Holds

\* So what is promised is there.
LEMMA InvSettled ==
    ASSUME Inv, TextInv
    PROVE  SettledStored
<1>1. DiskOK(vol.disk) /\ \A d \in vol.media : DiskOK(d)
  BY DEF Inv, Well, Base
<1>2. ASSUME ~last.stray, NEW n \in Names, book[n].settled, ~book[n].lost
      PROVE  IF n \in last.names THEN Holds(vol.disk, n) ELSE \A d \in vol.media : Holds(d, n)
  <2>1. PICK b, f, X : b = book[n] /\ f = files[n] /\ X = Media(n)
    OBVIOUS
  <2>2. CASE b.kind = "unknown"
    BY <2>1, <2>2 DEF Holds
  <2>3. CASE b.kind # "unknown"
    <3>1. Known(Seen(vol), b, f, n) /\ (Solid(b, f) => AllFirm(X, b, n))
      BY <1>2, <2>1 DEF TextInv, Told, Holding
    <3>2. Solid(b, f)
      BY <1>2, <2>1, <2>3, <3>1 DEF Solid, Known
    <3>3. PICK k, q : \A d \in X : Firm(d, b, n, k, q)
      BY <3>1, <3>2 DEF AllFirm
    <3>4. ASSUME NEW d \in X, DiskOK(d) PROVE Holds(d, n)
      BY <2>1, <3>3, <3>4, FirmHolds
    <3>5. vol.disk \in X /\ (n \notin last.names => vol.media \subseteq X)
      BY <2>1 DEF Media
    <3> QED  BY <1>1, <3>4, <3>5
  <2> QED  BY <2>2, <2>3
<1> QED  BY <1>2 DEF SettledStored

\* What f_sync, f_close, f_unlink or f_rename has returned 0 for is on the
\* disk under its name, at every moment of every later call on other files and
\* after every crash, whichever accesses fail, unless an f_sync that failed
\* had taken the mark off the file or an f_truncate has left a buffer stray.
THEOREM PromisesKept == Spec => []SettledStored
<1>1. Init => Inv /\ TextInv
  BY InvInit, TextInit
<1>2. Inv /\ TextInv /\ [Next]_vars => Inv' /\ TextInv'
  BY InvNext, TextNext
<1>3. Inv /\ TextInv => SettledStored
  BY InvSettled
<1> QED  BY <1>1, <1>2, <1>3, PTL DEF Spec

\* A piece of a sequence, from a place to a place.
IsPiece(w, x, a, c) ==
    /\ Len(w) = IF a <= c THEN c - a + 1 ELSE 0
    /\ \A i \in 1..(c - a + 1) : w[i] = x[a + i - 1]

\* A piece of a sequence is what IsPiece says.
LEMMA PieceFacts ==
    ASSUME NEW S, NEW x \in Seq(S), NEW a \in Nat, NEW c \in Nat, 1 <= a, c <= Len(x),
           NEW w, w = SubSeq(x, a, c)
    PROVE  IsPiece(w, x, a, c)
<1>1. \A i \in a..c : x[i] \in S
  OBVIOUS
<1>2. /\ Len(SubSeq(x, a, c)) = IF a <= c THEN c - a + 1 ELSE 0
      /\ \A i \in 1..(c - a + 1) : SubSeq(x, a, c)[i] = x[a + i - 1]
  BY <1>1, SubSeqProperties
<1> QED  BY <1>2 DEF IsPiece

\* The bytes got, of a text of m bytes from p on, are those that should have been read.
LEMMA GotSame ==
    ASSUME NEW x, NEW m \in Nat, IsText(x, m), NEW p \in Nat, p <= m, NEW len \in Nat,
           NEW o, NEW k, k = Min2(len, m - p), Got(o, x, p, k), NEW w, w = SubSeq(x, p + 1, Min2(p + len, Len(x)))
    PROVE  Same(o, w)
<1>1. PICK S : x \in Seq(S)
  BY DEF IsText
<1>2. Len(x) = m /\ k \in Nat /\ Min2(p + len, Len(x)) = p + k /\ p + k <= m
  BY DEF IsText, Min2
<1>3. w = SubSeq(x, p + 1, p + k)
  BY <1>2, Zenon
<1>4. Len(w) = k /\ \A i \in 1..k : w[i] = x[p + i]
  <2>1. PICK a, c : a = p + 1 /\ c = p + k
    OBVIOUS
  <2>2. a \in Nat /\ c \in Nat /\ 1 <= a /\ c <= Len(x) /\ c - a + 1 = k /\ a <= c + 1
    BY <2>1, <1>2, SMTT(60)
  <2>3. w = SubSeq(x, a, c)
    BY <2>1, <1>3, Zenon
  <2>4. IsPiece(w, x, a, c)
    <3>1. x \in Seq(S) /\ a \in Nat /\ c \in Nat /\ 1 <= a /\ c <= Len(x) /\ w = SubSeq(x, a, c)
      BY <2>2, <2>3, <1>1, Zenon
    <3> QED  BY <3>1, PieceFacts, Zenon
  <2>5. /\ Len(w) = IF a <= c THEN c - a + 1 ELSE 0
        /\ \A i \in 1..(c - a + 1) : w[i] = x[a + i - 1]
    BY <2>4, Zenon DEF IsPiece
  <2>6. ASSUME NEW i \in 1..k PROVE w[i] = x[p + i]
    <3>1. a + i - 1 = p + i
      BY <2>1, <1>2
    <3> QED  BY <3>1, <2>2, <2>5, Zenon
  <2>7. Len(w) = k
    <3>1. CASE k = 0
      <4>1. ~(a <= c)
        BY <3>1, <2>1, <1>2
      <4> QED  BY <4>1, <3>1, <2>5, Zenon
    <3>2. CASE k # 0
      <4>1. a <= c
        BY <3>2, <2>1, <1>2
      <4> QED  BY <4>1, <2>2, <2>5, Zenon
    <3> QED  BY <3>1, <3>2, Zenon
  <2> QED  BY <2>6, <2>7, Zenon
<1>5. Len(o) = k /\ \A i \in 1..k : x[p + i] # AnyContent => o[i] = x[p + i]
  BY DEF Got
<1> QED  BY <1>4, <1>5, Zenon DEF Same

\* What a read reports.
LEMMA ReadReported ==
    ASSUME Inv, TextInv, NoneAbandoned, NEW n \in Names, NEW len \in Lengths, Read(n, len), ~last'.stray
    PROVE  Same(last'.got, last'.want)
<1>0. PICK t \in f_read(Before(n), len) : \E want :
         /\ files[n].open /\ want = SubSeq(book[n].text, files[n].ptr + 1, Min2(files[n].ptr + len, Len(book[n].text)))
         /\ last' = IF t.res = "ok" /\ book[n].kind = "file"
                    THEN [Quiet("read", {n}) EXCEPT !.got = t.out, !.want = want]
                    ELSE Quiet("read", {n})
  BY Zenon DEF Read, Finish
<1>1. PICK want :
         /\ files[n].open /\ want = SubSeq(book[n].text, files[n].ptr + 1, Min2(files[n].ptr + len, Len(book[n].text)))
         /\ last' = IF t.res = "ok" /\ book[n].kind = "file"
                    THEN [Quiet("read", {n}) EXCEPT !.got = t.out, !.want = want]
                    ELSE Quiet("read", {n})
  BY <1>0, Zenon
<1>2. PICK s, N, Q, L, b, x, o : /\ s = Before(n) /\ N = {n} /\ Q = Beside(N) /\ L = Uncut(book) /\ b = book[n]
                                 /\ x = b.text /\ o = t.out
  BY Zenon
<1>3. PICK k, l : /\ k = Quiet("read", {n}) /\ l = [Quiet("read", {n}) EXCEPT !.got = o, !.want = want]
  OBVIOUS
<1>4. /\ k.got = <<>> /\ k.want = <<>> /\ k.stray = last.stray
      /\ l.got = o /\ l.want = want /\ l.stray = last.stray
  BY <1>3, QuietFacts
<1>5. last' = IF t.res = "ok" /\ b.kind = "file" THEN l ELSE k
  BY <1>1, <1>2, <1>3
<1>6. CASE t.res = "ok" /\ b.kind = "file"
  <2>1. last'.got = o /\ last'.want = want /\ ~last.stray
    BY <1>4, <1>5, <1>6
  <2>2. /\ s.res = "ok" /\ s.out = <<>> /\ L \in SUBSET Names /\ IsFiles(files) /\ s.f = files[n]
        /\ Ended(s, L, files, n) /\ DirtyOut(s.f, Q) /\ Holding({s.disk, Seen(s)}, Seen(s), b, s.f, n)
    <3>1. OpenAt(s, n, Q)
      BY <1>1, <1>2, TextOpened
    <3> QED  BY <3>1, <2>1, <1>2 DEF OpenAt
  <2>3. len \in Nat /\ t \in f_read(s, len)
    BY <1>1, <1>2, CallsAssumption
  <2>4. /\ s.f.ptr \in Nat /\ s.f.size \in Nat /\ s.f.ptr <= s.f.size
        /\ \A y : Reads(Seen(s), s.f, y) => Got(t.out, y, s.f.ptr, Min2(len, s.f.size - s.f.ptr))
    BY <2>2, <2>3, <1>6, ReadsText, Zenon
  <2>5. Reads(Seen(s), s.f, x)
    BY <2>2, <1>1, <1>2, <1>6 DEF Holding, Known
  <2>6. PICK p, m, j : p = s.f.ptr /\ m = s.f.size /\ j = Min2(len, m - p)
    OBVIOUS
  <2>7. Got(o, x, p, j) /\ IsText(x, m)
    BY <2>4, <2>5, <2>6, <1>2 DEF Reads
  <2>8. want = SubSeq(x, p + 1, Min2(p + len, Len(x)))
    BY <2>2, <2>6, <1>1, <1>2
  <2>9. p \in Nat /\ m \in Nat /\ p <= m
    BY <2>4, <2>6
  <2>10. Same(o, want)
    BY <2>3, <2>6, <2>7, <2>8, <2>9, GotSame, Zenon
  <2> QED  BY <2>1, <2>10
<1>7. CASE ~(t.res = "ok" /\ b.kind = "file")
  <2>1. last'.got = <<>> /\ last'.want = <<>>
    BY <1>4, <1>5, <1>7
  <2> QED  BY <2>1 DEF Same
<1> QED  BY <1>6, <1>7

\* The other calls do not read.
LEMMA OthersReadNot ==
    ASSUME Inv, Next, ~\E n \in Names, len \in Lengths : Read(n, len)
    PROVE  last'.op # "read"
<1>1. CASE \E n \in Names, flags \in OpenFlags : Open(n, flags)
  <2>1. PICK n \in Names, flags \in OpenFlags : Open(n, flags)
    BY <1>1
  <2>2. last' = Quiet("open", {n})
    BY <2>1, Zenon DEF Open, Finish
  <2> QED  BY <2>2, QuietCut
<1>2. CASE \E n \in Names, len \in Lengths : Write(n, len)
  <2>1. PICK n \in Names, len \in Lengths : Write(n, len)
    BY <1>2
  <2>2. last' = Quiet("write", {n})
    BY <2>1, Zenon DEF Write, Finish
  <2> QED  BY <2>2, QuietCut
<1>3. CASE \E n \in Names, ofs \in Offsets : Seek(n, ofs)
  BY <1>3, QuietCut DEF Seek, Finish
<1>4. CASE \E n \in Names : Truncate(n)
  BY <1>4, QuietCut DEF Truncate, Finish
<1>5. CASE \E n \in Names : Sync(n)
  BY <1>5, QuietCut DEF Sync, Finish
<1>6. CASE \E n \in Names : Close(n)
  BY <1>6, QuietCut DEF Close, Finish
<1>7. CASE \E n \in Names : Unlink(n)
  BY <1>7, QuietCut DEF Unlink, Finish
<1>8. CASE \E n, m \in Names : Rename(n, m)
  BY <1>8, QuietCut DEF Rename
<1>9. CASE Statvfs
  <2>1. \E g, w : \/ last' = [Quiet("statvfs", {}) EXCEPT !.got = g, !.want = w]
                  \/ last' = Quiet("statvfs", {})
    BY <1>9, Zenon DEF Statvfs
  <2>2. PICK g, w : \/ last' = [Quiet("statvfs", {}) EXCEPT !.got = g, !.want = w]
                    \/ last' = Quiet("statvfs", {})
    BY <2>1, Zenon
  <2>3. PICK l, k : l = [Quiet("statvfs", {}) EXCEPT !.got = g, !.want = w] /\ k = Quiet("statvfs", {})
    OBVIOUS
  <2>4. l.op = "statvfs" /\ k.op = "statvfs"
    BY <2>3, QuietFacts
  <2>5. last' = l \/ last' = k
    BY <2>2, <2>3
  <2> QED  BY <2>4, <2>5
<1>10. CASE Crash
  <2>1. last' = [Quiet("crash", {}) EXCEPT !.stray = FALSE]
    BY <1>10, Zenon DEF Crash
  <2> QED  BY <2>1, QuietCut
<1> QED  BY <1>1, <1>2, <1>3, <1>4, <1>5, <1>6, <1>7, <1>8, <1>9, <1>10 DEF Next

\* f_read gives the bytes last written at its place, whatever f_write, f_lseek
\* and f_truncate were called on the file since, whatever was done to other
\* files and whichever accesses failed, unless a buffer is left stray.
THEOREM ReadsAreRight == Spec => []ReadsBack
<1>1. Init => Inv /\ TextInv /\ ReadsBack
  <2>1. Init => last.op = "none"
    <3>1. Init => last = [op |-> "none", names |-> {}, got |-> <<>>, want |-> <<>>, cut |-> {},
                              stray |-> FALSE]
      BY Zenon DEF Init
    <3> QED  BY <3>1
  <2>2. Init => ReadsBack
    BY <2>1 DEF ReadsBack
  <2> QED  BY <2>2, InvInit, TextInit
<1>2. Inv /\ TextInv /\ [Next]_vars => Inv' /\ TextInv'
  BY InvNext, TextNext
<1>3. ASSUME Inv, TextInv, ReadsBack, [Next]_vars PROVE ReadsBack'
  <2>1. CASE UNCHANGED vars
    BY <1>3, <2>1 DEF vars, ReadsBack
  <2>2. CASE \E n \in Names, len \in Lengths : Next /\ Read(n, len)
    <3>1. PICK n \in Names, len \in Lengths : Next /\ Read(n, len)
      BY <2>2
    <3>2. NoneAbandoned
      BY <3>1 DEF Next, NoneAbandoned
    <3>3. ~last'.stray => Same(last'.got, last'.want)
      BY <1>3, <3>1, <3>2, ReadReported
    <3> QED  BY <3>3 DEF ReadsBack
  <2>3. CASE Next /\ ~\E n \in Names, len \in Lengths : Read(n, len)
    <3>1. last'.op # "read"
      BY <1>3, <2>3, OthersReadNot
    <3> QED  BY <3>1 DEF ReadsBack
  <2> QED  BY <1>3, <2>1, <2>2, <2>3
<1> QED  BY <1>1, <1>2, <1>3, PTL DEF Spec

=============================================================================
