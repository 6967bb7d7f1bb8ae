----------------------------- MODULE FatVolume -----------------------------
(***************************************************************************)
(* The lower half of the FAT driver (fatfs/ff.c): the one-sector window it *)
(* looks at its tables through, the file allocation table and the chains   *)
(* in it, and the entries of a directory.                                  *)
(*                                                                         *)
(* A function of the driver is an operator from the state it is called in  *)
(* to the set of states it can leave: one with no disk error, and one for  *)
(* every disk access that fails.  A state is a record whose fields are     *)
(*   disk    what every sector holds                                       *)
(*   win, wsect, dirty   the window, the sector it shows, whether it has   *)
(*                       changes that sector has not                       *)
(*   last, free          last_clst and free_clst of the FATFS object       *)
(*   sure    for the properties: free was counted to the end and then kept *)
(*   media   every content the disk has had since the call began           *)
(*   faults  how many more disk accesses may fail                          *)
(*   res     the FRESULT so far, and val the cluster a function returns    *)
(* and, in module FatFs, the open file that is worked on.                  *)
(*                                                                         *)
(* A cluster is one sector; there is one directory, which fits a sector.   *)
(***************************************************************************)
EXTENDS Integers, Sequences, FiniteSets

CONSTANTS
    Names,             \* the files that can exist
    NFatEnt,           \* n_fatent: clusters are 2..(NFatEnt - 1)
    EntriesPerSector,  \* entries of the table in a sector
    SectorSize         \* bytes of a sector

ASSUME VolumeAssumption ==
    /\ NFatEnt \in Nat /\ NFatEnt > 2
    /\ EntriesPerSector \in Nat \ {0} /\ SectorSize \in Nat \ {0}

Clusters == 2..(NFatEnt - 1)
EOC == NFatEnt            \* an end mark is any value from n_fatent on
Unknown == 2 * NFatEnt    \* free_clst when they have not been counted

\* Sectors: the directory, those of the table, and one for each cluster.
Dir == 0
FatOf(c) == -(1 + c \div EntriesPerSector)
Nowhere == 1
Sectors == {Dir} \union {FatOf(c) : c \in Clusters} \union Clusters

NoEntry == [used |-> FALSE, first |-> 0, size |-> 0]

\* Early return: go on only from the states with no error so far.
Then(S, Op(_)) == UNION {IF s.res = "ok" THEN Op(s) ELSE {s} : s \in S}
Error(s, res) == {[s EXCEPT !.res = res]}

\* The states a loop ends in, from x and in n turns at most: s is the state of
\* the driver, at the variable of the loop, go whether there is a next turn.
Loop(Turn(_), x, n) ==
    LET run[k \in 0..n] ==
            IF k = 0 THEN {x} ELSE UNION {IF y.go THEN Turn(y) ELSE {y} : y \in run[k - 1]}
    IN  {y \in run[n] : ~y.go}

-----------------------------------------------------------------------------
(* The disk and the window.                                                *)

Fail(s) == IF s.faults = 0 THEN {} ELSE {[s EXCEPT !.faults = @ - 1, !.res = "disk_err"]}

\* The disk is as before when a write of a sector fails.
DiskWrite(s, sector, v) ==
    LET d == [s.disk EXCEPT ![sector] = v]
    IN  {[s EXCEPT !.disk = d, !.media = @ \union {d}]} \union Fail(s)

\* Slip: the changes of the old window are dropped.
DropWindow(s) == {[s EXCEPT !.dirty = FALSE]}

sync_window(s) ==
    IF s.dirty
    THEN Then(DiskWrite(s, s.wsect, s.win), LAMBDA t : {[t EXCEPT !.dirty = FALSE]})
    ELSE {s}

\* The window is not to be relied on after a read that failed.
move_window(s, sector) ==
    IF sector = s.wsect THEN {s}
    ELSE Then(sync_window(s), LAMBDA t :
             {[t EXCEPT !.wsect = sector, !.win = t.disk[sector]]}
             \union {[u EXCEPT !.wsect = Nowhere] : u \in Fail(t)})

\* The FSInfo sector is FAT32's; CTRL_SYNC does nothing and succeeds (diskio.c).
sync_fs(s) == sync_window(s)

-----------------------------------------------------------------------------
(* The table and its chains.                                               *)

get_fat(s, c) ==
    IF c \notin Clusters THEN Error(s, "int_err")
    ELSE Then(move_window(s, FatOf(c)), LAMBDA t : {[t EXCEPT !.val = t.win[c]]})

put_fat(s, c, v) ==
    IF c \notin Clusters THEN Error(s, "int_err")
    ELSE Then(move_window(s, FatOf(c)), LAMBDA t : {[t EXCEPT !.win[c] = v, !.dirty = TRUE]})

\* Slip: a cluster is added to a count that is not known.
FreedAnyway(s) == [s EXCEPT !.free = @ + 1]

\* Slip: a cluster that is taken is counted on.
TakenUncounted(s) == s

\* The count of free clusters, if known, when one is freed or taken.  A volume
\* with every cluster free keeps its count when one is taken, and a count of
\* none, which may be wrong, wraps around to Unknown.
Freed(s) == [s EXCEPT !.free = IF @ = Unknown THEN @ ELSE @ + 1]
Taken(s) ==
    [s EXCEPT !.free = CASE @ = 0 -> Unknown [] @ \in 1..(NFatEnt - 3) -> @ - 1 [] OTHER -> @,
              !.sure = @ /\ s.free # NFatEnt - 2]

\* The loop of remove_chain: free a cluster and go on with the one it led to.
FreeCluster(s, c) ==
    Then(get_fat(s, c), LAMBDA t :
        CASE t.val = 0 -> {t}
          [] t.val = 1 -> Error(t, "int_err")
          [] OTHER -> Then(put_fat(t, c, 0), LAMBDA u : {Freed(u)}))

FreeTurn(x) ==
    {[s |-> t, at |-> t.val, go |-> t.res = "ok" /\ t.val \in Clusters] :
        t \in FreeCluster(x.s, x.at)}

FreeFrom(s, c) == {x.s : x \in Loop(FreeTurn, [s |-> s, at |-> c, go |-> TRUE], NFatEnt - 1)}

\* The chain ends at prev from now on (unless there is none: 0) and what
\* followed is free.
remove_chain(s, c, prev) ==
    IF c \notin Clusters THEN Error(s, "int_err")
    ELSE Then(IF prev # 0 THEN put_fat(s, prev, EOC) ELSE {s}, LAMBDA t : FreeFrom(t, c))

\* Slip: the chain is linked to the cluster before it is marked.
LinkFirst(s, new, c) ==
    Then(IF c = 0 THEN {s} ELSE put_fat(s, c, new), LAMBDA t : put_fat(t, new, EOC))

\* Mark the new cluster as the end of a chain, then link the chain to it.
Link(s, new, c) ==
    Then(put_fat(s, new, EOC), LAMBDA t : IF c = 0 THEN {t} ELSE put_fat(t, c, new))

\* The search of create_chain, from after start and round to it: at is a
\* cluster that is free, or 0.
SearchTurn(x, start) ==
    LET new == IF x.at + 1 >= NFatEnt THEN 2 ELSE x.at + 1 IN
    IF x.at + 1 >= NFatEnt /\ new > start THEN {[x EXCEPT !.at = 0, !.go = FALSE]}
    ELSE {[s |-> t, at |-> IF t.val # 0 /\ new = start THEN 0 ELSE new,
           go |-> t.res = "ok" /\ t.val # 0 /\ new # start] :
             t \in Then(get_fat(x.s, new), LAMBDA t : IF t.val = 1 THEN Error(t, "int_err") ELSE {t})}

\* What is found goes to the end of the chain of c; a value of 0 when no
\* cluster is free.
Claim(s, new, c) ==
    IF new = 0 THEN {[s EXCEPT !.val = 0]}
    ELSE Then(Link(s, new, c), LAMBDA t : {[Taken(t) EXCEPT !.last = new, !.val = new]})

Search(s, start, c) ==
    UNION {Then({x.s}, LAMBDA t : Claim(t, x.at, c)) :
              x \in Loop(LAMBDA y : SearchTurn(y, start), [s |-> s, at |-> start, go |-> TRUE], NFatEnt - 1)}

\* The cluster after c, a new one if c is the last or (0) there is none yet.
create_chain(s, c) ==
    IF c = 0
    THEN LET scl == IF s.last = 0 \/ s.last >= NFatEnt THEN 1 ELSE s.last
         IN  Search(s, scl, 0)
    ELSE Then(get_fat(s, c), LAMBDA t :
             CASE t.val < 2 -> Error(t, "int_err")
               [] t.val \in Clusters -> {t}
               [] OTHER -> Search(t, c, c))

-----------------------------------------------------------------------------
(* The directory.                                                          *)

\* follow_path, dir_find: the window shows the entry, or there is none.
follow_path(s, n) ==
    Then(move_window(s, Dir), LAMBDA t : IF t.win[n].used THEN {t} ELSE Error(t, "no_file"))

SetEntry(s, n, e) == [s EXCEPT !.win[n] = e, !.dirty = TRUE]

dir_register(s, n) ==
    Then(move_window(s, Dir), LAMBDA t : {SetEntry(t, n, [NoEntry EXCEPT !.used = TRUE])})

\* Only the name is struck out.
dir_remove(s, n) ==
    Then(move_window(s, Dir), LAMBDA t : {SetEntry(t, n, [t.win[n] EXCEPT !.used = FALSE])})

f_unlink(s, n) ==
    Then(follow_path(s, n), LAMBDA t :
        LET first == t.win[n].first IN
        Then(dir_remove(t, n), LAMBDA u :
            Then(IF first # 0 THEN remove_chain(u, first, 0) ELSE {u}, sync_fs)))

f_rename(s, old, new) ==
    Then(follow_path(s, old), LAMBDA t :
        LET e == t.win[old] IN
        UNION {CASE u.res = "ok" -> Error(u, "exist")
                 [] u.res = "no_file" ->
                        Then(dir_register([u EXCEPT !.res = "ok"], new), LAMBDA v :
                            Then(dir_remove(SetEntry(v, new, e), old), sync_fs))
                 [] OTHER -> {u} : u \in follow_path(t, new)})

\* The number of free clusters, counted when it is not known; a count that an
\* error cut short is kept too.
CountTurn(x) ==
    {[s |-> IF t.res = "ok" /\ t.val = 0 THEN [t EXCEPT !.free = @ + 1] ELSE t,
      at |-> x.at + 1, go |-> t.res = "ok" /\ x.at + 1 < NFatEnt] : t \in get_fat(x.s, x.at)}

CountFree(s) ==
    {x.s : x \in Loop(CountTurn, [s |-> [s EXCEPT !.free = 0], at |-> 2, go |-> TRUE], NFatEnt - 2)}

f_getfree(s) ==
    IF s.free <= NFatEnt - 2 THEN {s}
    ELSE Then(CountFree(s), LAMBDA t : {[t EXCEPT !.sure = TRUE]})

-----------------------------------------------------------------------------
(* What a disk holds, for the properties.                                  *)

Entry(d, n) == d[Dir][n]
Next_(d, c) == d[FatOf(c)][c]

\* The volume as the driver sees it, the window laid over the disk.
Seen(s) == IF s.wsect = Nowhere THEN s.disk ELSE [s.disk EXCEPT ![s.wsect] = s.win]

\* The chain of a file, cut off where it becomes longer than the volume.
Chain(d, n) ==
    LET to[k \in 0..NFatEnt] ==
            IF k = 0 THEN <<>>
            ELSE LET q == to[k - 1]
                     c == IF q = <<>> THEN Entry(d, n).first ELSE Next_(d, q[Len(q)])
                 IN  IF c \in Clusters THEN Append(q, c) ELSE q
    IN  to[NFatEnt]

InChain(d, n) == LET q == Chain(d, n) IN {q[i] : i \in 1..Len(q)}

\* What the sectors of a volume hold.
TableOf(sector) == {c \in Clusters : FatOf(c) = sector}
DiskOK(d) ==
    /\ d = [x \in Sectors |-> d[x]]
    /\ d[Dir] \in [Names -> [used : BOOLEAN, first : {0} \union Clusters, size : Nat]]
    /\ \A c \in Clusters : d[FatOf(c)] \in [TableOf(FatOf(c)) -> Nat]

\* No cluster leads to a free one or to where another leads; none leads to the
\* first of a file, which is allocated and no other file's; a file has room
\* for its size.
Healthy(d) ==
    /\ DiskOK(d)
    /\ \A c \in Clusters : Next_(d, c) \in Clusters =>
           /\ Next_(d, Next_(d, c)) # 0
           /\ \A e \in Clusters : Next_(d, e) = Next_(d, c) => e = c
    /\ \A n \in {m \in Names : Entry(d, m).used} :
           /\ Entry(d, n).first # 0 =>
                  /\ Next_(d, Entry(d, n).first) # 0
                  /\ \A c \in Clusters : Next_(d, c) # Entry(d, n).first
                  /\ \A m \in Names :
                         Entry(d, m).used /\ Entry(d, m).first = Entry(d, n).first => m = n
           /\ Entry(d, n).size <= SectorSize * Len(Chain(d, n))

\* The bytes of a file, as its entry, chain and sectors say.
Content(d, n) ==
    LET chain == Chain(d, n)
        size == Entry(d, n).size
    IN  [i \in 1..IF size <= SectorSize * Len(chain) THEN size ELSE SectorSize * Len(chain) |->
            d[chain[(i - 1) \div SectorSize + 1]][((i - 1) % SectorSize) + 1]]
=============================================================================
