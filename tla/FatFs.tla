------------------------------- MODULE FatFs -------------------------------
(***************************************************************************)
(* The upper half of the FAT driver (fatfs/ff.c), the file functions, as   *)
(* the C library calls them through ctr_drives.c, on one volume.  A call   *)
(* is one step; `media` keeps every content the disk has had on the way,   *)
(* so that a power cut in the middle of a call is one of them.             *)
(*                                                                         *)
(* A name is opened once at a time and not removed, renamed or opened      *)
(* again before it is closed: the driver is built without file locks, and  *)
(* asks that of its callers (_FS_LOCK in ffconf.h).                        *)
(***************************************************************************)
EXTENDS FatVolume

CONSTANTS
    FirstDisk,   \* the volume as found
    OpenFlags,   \* ways of opening a file, as sets of the C library's flags
    Lengths,     \* bytes a call reads or writes
    Offsets,     \* positions a call seeks
    MaxCalls,    \* bound: calls
    MaxFaults    \* bound: disk accesses that fail

ASSUME FirstDiskAssumption == Healthy(FirstDisk)
ASSUME CallsAssumption == Lengths \subseteq Nat /\ Offsets \subseteq Nat

VARIABLES
    vol,      \* the disk, and the FATFS object
    files,    \* the FIL object of every name, or Closed
    book,     \* what the callers know of every name
    last,     \* the last call: its name and operation, what it read and should have
    calls     \* calls so far

vars == <<vol, files, book, last, calls>>

Closed == [open |-> FALSE]
Min2(a, b) == IF a < b THEN a ELSE b
Max2(a, b) == IF a > b THEN a ELSE b

\* f_mount, find_volume: a FATFS object that knows nothing of its volume.
Mounted(d, faults) ==
    [disk |-> d, win |-> <<>>, wsect |-> Nowhere, dirty |-> FALSE, last |-> 0,
     free |-> Unknown, sure |-> FALSE, media |-> {d}, faults |-> faults, res |-> "ok",
     val |-> 0, f |-> Closed, out |-> <<>>]

-----------------------------------------------------------------------------
(* f_open.                                                                 *)

\* open_r: the mode from the flags; FA_OPEN_ALWAYS only if neither of the
\* others was set.
FileMode(flags) ==
    [read |-> flags \cap {"RDONLY", "RDWR"} # {}, write |-> flags \cap {"WRONLY", "RDWR"} # {},
     always |-> "TRUNC" \in flags,
     new |-> {"CREAT", "EXCL"} \subseteq flags,
     open |-> "CREAT" \in flags /\ "EXCL" \notin flags /\ "TRUNC" \notin flags]

\* Slip: the chain is freed while the entry still names it.
FreeFirst(s, n) ==
    LET first == s.win[n].first IN
    Then(IF first = 0 THEN {s} ELSE remove_chain(s, first, 0), LAMBDA u :
        Then(move_window(u, Dir), LAMBDA v :
            {SetEntry(v, n, [v.win[n] EXCEPT !.first = 0, !.size = 0])}))

\* The entry is emptied in the window, then its chain is freed and the window
\* brought back.
Empty(s, n) ==
    LET first == s.win[n].first
        t == SetEntry(s, n, [s.win[n] EXCEPT !.first = 0, !.size = 0])
    IN  IF first = 0 THEN {t}
        ELSE Then(remove_chain(t, first, 0), LAMBDA u :
                 {[v EXCEPT !.last = first - 1] : v \in move_window(u, Dir)})

f_open(s, n, mode) ==
    LET create == mode.always \/ mode.new \/ mode.open
        found == follow_path(s, n)
        Entered(t) ==     \* with the entry in the window
            {[t EXCEPT !.f = [open |-> TRUE, name |-> n, read |-> mode.read,
                write |-> mode.write, modified |-> mode.always, dirty |-> FALSE, err |-> "ok",
                ptr |-> 0, clust |-> 0, sect |-> 0, buf |-> [i \in 1..SectorSize |-> 0],
                first |-> t.win[n].first, size |-> t.win[n].size]]}
        Created(t) ==
            Then(Empty(t, n), LAMBDA u :
                {[v EXCEPT !.f.modified = TRUE] : v \in Entered(u)})
    IN  UNION {CASE t.res = "no_file" /\ create ->
                        Then(dir_register([t EXCEPT !.res = "ok"], n), Created)
                 [] t.res = "ok" /\ mode.new -> Error(t, "exist")
                 [] t.res = "ok" /\ ~mode.new /\ mode.always -> Created(t)
                 [] t.res = "ok" /\ ~mode.new /\ ~mode.always -> Entered(t)
                 [] OTHER -> {t} : t \in found}

-----------------------------------------------------------------------------
(* f_write, f_read.                                                        *)

\* ABORT: the error stays with the file.
Abort(S) == {IF t.res # "ok" THEN [t EXCEPT !.f.err = t.res] ELSE t : t \in S}

FlushBuf(s) ==
    IF s.f.dirty
    THEN Then(DiskWrite(s, s.f.sect, s.f.buf), LAMBDA t : {[t EXCEPT !.f.dirty = FALSE]})
    ELSE {s}

LoadBuf(s, c) == {[s EXCEPT !.f.buf = s.disk[c]]} \union Fail(s)

Advance(s, n) == [s EXCEPT !.f.ptr = @ + n, !.f.size = Max2(@, s.f.ptr + n)]

Part(bytes, from) == SubSeq(bytes, from + 1, Len(bytes))

\* From the file's position on, up to the end of the sector, into its buffer.
WritePart(s, bytes) ==
    LET at == s.f.ptr % SectorSize
        n == Min2(SectorSize - at, Len(bytes))
        buf == [i \in 1..SectorSize |->
                   IF i - at \in 1..n THEN bytes[i - at] ELSE s.f.buf[i]]
    IN  Advance([s EXCEPT !.f.buf = buf, !.f.dirty = TRUE], n)

\* The cluster at the position: the first, the next, or a new one.
WriteCluster(s) ==
    IF s.f.ptr = 0 /\ s.f.first # 0 THEN {[s EXCEPT !.val = s.f.first]}
    ELSE create_chain(s, IF s.f.ptr = 0 THEN 0 ELSE s.f.clust)

SetCluster(s) ==
    [s EXCEPT !.f.clust = s.val, !.f.first = IF @ = 0 THEN s.val ELSE @]

\* Slip: the buffer is thought to show a sector it does not.
KeepBuf(s) == {[s EXCEPT !.f.sect = s.f.clust]}

\* The buffer does not show the sector yet: it is read unless the write is
\* at the end of the file.
FillBuf(s) ==
    {[t EXCEPT !.f.sect = IF t.res = "ok" THEN s.f.clust ELSE @] :
        t \in IF s.f.sect # s.f.clust /\ s.f.ptr < s.f.size
              THEN LoadBuf(s, s.f.clust) ELSE {s}}

\* A whole sector goes to the disk past the buffer, which is kept in step.
WriteSector(s, bytes) ==
    LET whole == SubSeq(bytes, 1, SectorSize) IN
    Then(DiskWrite(s, s.f.clust, whole), LAMBDA t :
        {Advance(IF t.f.sect = t.f.clust
                 THEN [t EXCEPT !.f.buf = whole, !.f.dirty = FALSE] ELSE t, SectorSize)})

\* One turn of the loop: a part of a sector or a whole one; nothing when the
\* disk is full.
WriteSome(s, bytes) ==
    IF s.f.ptr % SectorSize # 0 THEN {WritePart(s, bytes)}
    ELSE Then(WriteCluster(s), LAMBDA c :
             IF c.val = 0 THEN {c}
             ELSE Then(FlushBuf(SetCluster(c)), LAMBDA t :
                 IF Len(bytes) >= SectorSize THEN WriteSector(t, bytes)
                 ELSE Then(FillBuf(t), LAMBDA u : {WritePart(u, bytes)})))

WriteTurn(x) ==
    {LET left == Part(x.at, t.f.ptr - x.s.f.ptr)
     IN  [s |-> t, at |-> left, go |-> t.res = "ok" /\ t.f.ptr # x.s.f.ptr /\ left # <<>>] :
        t \in WriteSome(x.s, x.at)}

WriteLoop(s, bytes) ==
    {x.s : x \in Loop(WriteTurn, [s |-> s, at |-> bytes, go |-> bytes # <<>>], Len(bytes))}

f_write(s, bytes) ==
    IF s.f.err # "ok" THEN Error(s, s.f.err)
    ELSE IF ~s.f.write THEN Error(s, "denied")
    ELSE Then(Abort(WriteLoop(s, bytes)), LAMBDA t : {[t EXCEPT !.f.modified = TRUE]})

ReadCluster(s) ==
    IF s.f.ptr = 0 THEN {[s EXCEPT !.val = s.f.first]} ELSE get_fat(s, s.f.clust)

\* n bytes of a sector, from the at-th on.
Bytes(sector, at, n) == [i \in 1..n |-> sector[at + i]]

Take(s, n) ==
    [s EXCEPT !.f.ptr = @ + n, !.out = @ \o Bytes(s.f.buf, s.f.ptr % SectorSize, n)]

\* A whole sector comes from the disk past the buffer, unless the buffer has
\* changes the disk has not.
ReadSector(s) ==
    Then({s} \union Fail(s), LAMBDA t :
        {[t EXCEPT !.f.ptr = @ + SectorSize,
                   !.out = @ \o Bytes(IF t.f.dirty /\ t.f.sect = t.f.clust THEN t.f.buf
                                      ELSE t.disk[t.f.clust], 0, SectorSize)]})

\* The buffer shows the sector of the current cluster.
ShowCluster(s) ==
    IF s.f.sect = s.f.clust THEN {s}
    ELSE Then(FlushBuf(s), LAMBDA t :
             Then(LoadBuf(t, t.f.clust), LAMBDA u : {[u EXCEPT !.f.sect = u.f.clust]}))

ReadSome(s, len) ==
    LET n == Min2(SectorSize - (s.f.ptr % SectorSize), len) IN
    IF s.f.ptr % SectorSize # 0 THEN {Take(s, n)}
    ELSE Then(ReadCluster(s), LAMBDA c :
             IF c.val \notin Clusters THEN Error(c, "int_err")
             ELSE LET t == [c EXCEPT !.f.clust = c.val]
                  IN  IF len >= SectorSize THEN ReadSector(t)
                      ELSE Then(ShowCluster(t), LAMBDA u : {Take(u, n)}))

ReadTurn(x) ==
    {LET left == x.at - (t.f.ptr - x.s.f.ptr)
     IN  [s |-> t, at |-> left, go |-> t.res = "ok" /\ left > 0] : t \in ReadSome(x.s, x.at)}

ReadLoop(s, len) ==
    {x.s : x \in Loop(ReadTurn, [s |-> s, at |-> len, go |-> len > 0], len)}

f_read(s, len) ==
    IF s.f.err # "ok" THEN Error(s, s.f.err)
    ELSE IF ~s.f.read THEN Error(s, "denied")
    ELSE Abort(ReadLoop(s, Min2(len, s.f.size - s.f.ptr)))

-----------------------------------------------------------------------------
(* f_sync, f_close, f_lseek, f_truncate.                                   *)

\* A file that is not marked as changed is not touched.  The mark goes once
\* the entry is in the window, whether sync_fs then succeeds or not.
f_sync(s) ==
    IF ~s.f.modified THEN {s}
    ELSE Then(FlushBuf(s), LAMBDA t :
             Then(move_window(t, Dir), LAMBDA u :
                 LET e == [u.win[u.f.name] EXCEPT !.first = u.f.first, !.size = u.f.size]
                 IN  {[v EXCEPT !.f.modified = FALSE] :
                         v \in sync_fs(SetEntry(u, u.f.name, e))}))

f_close(s) == Then(f_sync(s), LAMBDA t : {[t EXCEPT !.f = Closed]})

\* Follow the chain, stretching it when writing, while more than a cluster
\* remains; a disk that is full ends the file there.
SeekTurn(x) ==
    {CASE t.res = "ok" /\ t.val = 0 /\ t.f.write -> [s |-> t, at |-> SectorSize, go |-> FALSE]
       [] t.res = "ok" /\ t.val \in Clusters ->
              [s |-> [t EXCEPT !.f.clust = t.val, !.f.ptr = @ + SectorSize],
               at |-> x.at - SectorSize, go |-> x.at - SectorSize > SectorSize]
       [] OTHER -> [s |-> IF t.res = "ok" THEN [t EXCEPT !.res = "int_err"] ELSE t,
                    at |-> x.at, go |-> FALSE] :
        t \in IF x.s.f.write THEN create_chain(x.s, x.s.f.clust) ELSE get_fat(x.s, x.s.f.clust)}

SeekLoop(s, ofs) ==
    {IF x.s.res = "ok" THEN [x.s EXCEPT !.f.ptr = @ + x.at] ELSE x.s :
        x \in Loop(SeekTurn, [s |-> s, at |-> ofs, go |-> ofs > SectorSize], ofs)}

\* Where the search for the cluster starts: at the current one when the new
\* position is in it or behind, else at the first, made if there is none.
SeekChain(s, ofs) ==
    LET ptr == s.f.ptr
        here == (ptr - 1) \div SectorSize
    IN  IF ofs = 0 THEN {[s EXCEPT !.f.ptr = 0]}
        ELSE IF ptr > 0 /\ (ofs - 1) \div SectorSize >= here
        THEN SeekLoop([s EXCEPT !.f.ptr = here * SectorSize], ofs - here * SectorSize)
        ELSE Then(IF s.f.first = 0 THEN create_chain([s EXCEPT !.f.ptr = 0], 0)
                  ELSE {[s EXCEPT !.val = s.f.first, !.f.ptr = 0]},
                  LAMBDA t :
                      LET u == [t EXCEPT !.f.first = t.val, !.f.clust = t.val]
                      IN  IF t.val = 0 THEN {u} ELSE SeekLoop(u, ofs))

f_lseek(s, to) ==
    LET ofs == IF s.f.write THEN to ELSE Min2(to, s.f.size) IN
    IF s.f.err # "ok" THEN Error(s, s.f.err)
    ELSE Abort(Then(SeekChain(s, ofs), LAMBDA t :
             Then(IF t.f.ptr % SectorSize = 0 THEN {t} ELSE ShowCluster(t),
                  LAMBDA u : {IF u.f.ptr > u.f.size
                              THEN [u EXCEPT !.f.size = u.f.ptr, !.f.modified = TRUE]
                              ELSE u})))

\* The clusters after the position are freed; the entry is not touched.
f_truncate(s) ==
    IF s.f.err # "ok" THEN Error(s, s.f.err)
    ELSE IF ~s.f.write THEN Error(s, "denied")
    ELSE IF s.f.size <= s.f.ptr THEN {s}
    ELSE LET cut == IF s.f.ptr = 0
                    THEN {[t EXCEPT !.f.first = 0] : t \in remove_chain(s, s.f.first, 0)}
                    ELSE Then(get_fat(s, s.f.clust), LAMBDA t :
                             CASE t.val = 1 -> Error(t, "int_err")
                               [] t.val # 1 /\ t.val < NFatEnt -> remove_chain(t, t.val, t.f.clust)
                               [] OTHER -> {t})
             marked == {[t EXCEPT !.f.size = t.f.ptr, !.f.modified = TRUE] : t \in cut}
         IN  Abort(Then(marked, FlushBuf))

-----------------------------------------------------------------------------
(* The calls of the C library (ctr_drives.c).                              *)

\* What the callers know of a name: that there is no such file, or its bytes
\* (AnyContent where they do not care), or, after an error, nothing; whether a
\* call that returned 0 has promised it is stored; whether an f_sync failed after it
\* had taken the mark off the file; whether it was cut and not stored since.
AnyContent == -1
NoFile == [kind |-> "absent", text |-> <<>>, settled |-> TRUE, lost |-> FALSE, cut |-> FALSE]
Unsure(b) == [b EXCEPT !.kind = "unknown", !.text = <<>>, !.settled = FALSE]

Before(n) == [vol EXCEPT !.media = {vol.disk}, !.f = files[n]]
After(t) ==
    [t EXCEPT !.sure = @ /\ t.res # "disk_err", !.res = "ok", !.val = 0, !.f = Closed, !.out = <<>>]

\* stray: since the last mount an f_truncate failed and left the file with a
\* buffer to write back, which may be that of a cluster it has let go of.
Quiet(op, names) ==
    [op |-> op, names |-> names, got |-> <<>>, want |-> <<>>,
     cut |-> {n \in Names : book[n].cut}, stray |-> last.stray]

\* The names that were cut and not stored when the last call began, or since.
Cut == last.cut \union {n \in Names : book[n].cut}

Finish(n, t, b, l) ==
    /\ vol' = After(t) /\ files' = [files EXCEPT ![n] = t.f]
    /\ book' = [book EXCEPT ![n] = b] /\ last' = l /\ calls' = calls + 1

\* open_r: a file that could not be opened, or not be positioned, has no handle.
Open(n, flags) ==
    LET mode == FileMode(flags)
        Positioned(t) == IF "APPEND" \in flags THEN f_lseek(t, t.f.size) ELSE {t}
    IN  /\ ~files[n].open
        /\ \E t \in Then(f_open(Before(n), n, mode), Positioned) :
               Finish(n, IF t.res = "ok" THEN t ELSE [t EXCEPT !.f = Closed],
                      CASE t.res = "ok" /\ t.f.modified ->
                               [book[n] EXCEPT !.kind = "file", !.text = <<>>, !.settled = FALSE]
                        [] t.res \in {"disk_err", "int_err"} /\ (mode.always \/ mode.new \/ mode.open) ->
                               Unsure(book[n])
                        [] OTHER -> book[n],
                      Quiet("open", {n}))

Overlay(text, at, bytes) ==
    [i \in 1..Max2(Len(text), at + Len(bytes)) |->
        IF i - at \in 1..Len(bytes) THEN bytes[i - at] ELSE text[i]]

\* write_r: f_write, then an f_sync nobody looks at.
Write(n, len) ==
    LET f == files[n]
        bytes == [i \in 1..len |-> calls + 1]
    IN  /\ f.open
        /\ \E t \in f_write(Before(n), bytes) :
               IF t.res # "ok"
               THEN Finish(n, t, IF t.res = "denied" THEN book[n] ELSE Unsure(book[n]),
                           Quiet("write", {n}))
               ELSE \E u \in f_sync(t) :
                       LET stored == u.res = "ok"
                           text == Overlay(book[n].text, f.ptr, SubSeq(bytes, 1, t.f.ptr - f.ptr))
                       IN  Finish(n, u,
                                  [book[n] EXCEPT
                                      !.text = IF book[n].kind = "file" THEN text ELSE @,
                                      !.settled = stored,
                                      !.lost = ~stored /\ ~u.f.modified,
                                      !.cut = @ /\ ~stored],
                                  Quiet("write", {n}))

Read(n, len) ==
    LET f == files[n]
        want == SubSeq(book[n].text, f.ptr + 1, Min2(f.ptr + len, Len(book[n].text)))
    IN  /\ f.open
        /\ \E t \in f_read(Before(n), len) :
               Finish(n, t, book[n],
                      IF t.res = "ok" /\ book[n].kind = "file"
                      THEN [Quiet("read", {n}) EXCEPT !.got = t.out, !.want = want]
                      ELSE Quiet("read", {n}))

\* seek_r, from the start.
Seek(n, ofs) ==
    LET gap(t) == [i \in 1..(t.f.size - Len(book[n].text)) |-> AnyContent] IN
    /\ files[n].open
    /\ \E t \in f_lseek(Before(n), ofs) :
           Finish(n, t,
                  CASE t.res = "ok" /\ t.f.size > files[n].size ->
                           [book[n] EXCEPT !.text = IF book[n].kind = "file" THEN @ \o gap(t) ELSE @,
                                           !.settled = FALSE]
                    [] t.res # "ok" /\ files[n].write -> Unsure(book[n])
                    [] OTHER -> book[n],
                  Quiet("seek", {n}))

\* ftruncate_r: at the position, whatever length was asked for.
Truncate(n) ==
    /\ files[n].open
    /\ \E t \in f_truncate(Before(n)) :
           Finish(n, t,
                  CASE t.res = "denied" \/ (t.res = "ok" /\ t.f.size = files[n].size) -> book[n]
                    [] t.res = "ok" /\ t.f.size # files[n].size ->
                           [book[n] EXCEPT !.text = SubSeq(@, 1, Min2(t.f.ptr, Len(@))),
                                           !.settled = FALSE, !.cut = TRUE]
                    [] OTHER -> [Unsure(book[n]) EXCEPT !.cut = TRUE],
                  [Quiet("truncate", {n}) EXCEPT !.stray = @ \/ (t.res # "ok" /\ t.f.dirty)])

\* fsync_r, close_r: 0 is a promise.  The C library lets go of a file whose
\* close failed.
Stored(n, t) ==
    IF t.res # "ok" THEN [book[n] EXCEPT !.settled = FALSE, !.lost = @ \/ ~t.f.modified]
    ELSE [book[n] EXCEPT !.settled = TRUE, !.lost = @ /\ ~files[n].modified,
                         !.cut = @ /\ ~files[n].modified]

Sync(n) ==
    /\ files[n].open
    /\ \E t \in f_sync(Before(n)) : Finish(n, t, Stored(n, t), Quiet("sync", {n}))

Close(n) ==
    /\ files[n].open
    /\ \E t \in f_close(Before(n)) :
           Finish(n, [t EXCEPT !.f = Closed],
                  IF t.res = "ok" THEN Stored(n, t) ELSE Unsure(book[n]), Quiet("close", {n}))

Unlink(n) ==
    /\ ~files[n].open
    /\ \E t \in f_unlink(Before(n), n) :
           Finish(n, t,
                  CASE t.res = "ok" -> NoFile [] t.res = "no_file" -> book[n]
                    [] OTHER -> Unsure(book[n]),
                  Quiet("unlink", {n}))

Rename(old, new) ==
    /\ old # new /\ ~files[old].open /\ ~files[new].open
    /\ \E t \in f_rename(Before(old), old, new) :
           /\ vol' = After(t) /\ UNCHANGED files
           /\ book' = CASE t.res = "ok" ->
                              [book EXCEPT ![new] = [book[old] EXCEPT !.settled = TRUE],
                                           ![old] = NoFile]
                        [] t.res \in {"no_file", "exist"} -> book
                        [] OTHER -> [book EXCEPT ![new] = Unsure(@), ![old] = Unsure(@)]
           /\ last' = Quiet("rename", {old, new}) /\ calls' = calls + 1

FreeNow(t) == Cardinality({c \in Clusters : Next_(Seen(t), c) = 0})

\* statvfs_r.
Statvfs ==
    \E t \in f_getfree([vol EXCEPT !.media = {vol.disk}]) :
        /\ vol' = After(t) /\ UNCHANGED <<files, book>> /\ calls' = calls + 1
        /\ last' = IF t.res = "ok"
                   THEN [Quiet("statvfs", {}) EXCEPT !.got = <<t.free>>, !.want = <<FreeNow(t)>>]
                   ELSE Quiet("statvfs", {})

-----------------------------------------------------------------------------
(* What a disk must be like whenever the power goes.                       *)

Same(got, want) ==
    Len(got) = Len(want) /\ \A i \in 1..Len(want) : want[i] = AnyContent \/ got[i] = want[i]

Holds(d, n) ==
    CASE book[n].kind = "absent" -> ~Entry(d, n).used
      [] book[n].kind = "file" -> Entry(d, n).used /\ Same(Content(d, n), book[n].text)
      [] OTHER -> TRUE

\* The power goes in the course of the last call or after it; the volume is
\* mounted anew.  Not while a cut is not stored: the entry then names
\* clusters that are free, and so do the next owner's.
Crash ==
    /\ Cut = {}
    /\ \E d \in vol.media :
           /\ vol' = Mounted(d, vol.faults)
           /\ book' = [n \in Names |->
                          IF book[n].kind # "unknown" /\ Holds(d, n)
                          THEN [book[n] EXCEPT !.settled = TRUE, !.lost = FALSE]
                          ELSE Unsure([book[n] EXCEPT !.lost = FALSE])]
    /\ files' = [n \in Names |-> Closed]
    /\ last' = [Quiet("crash", {}) EXCEPT !.stray = FALSE] /\ calls' = calls + 1

Init ==
    /\ vol = Mounted(FirstDisk, MaxFaults)
    /\ files = [n \in Names |-> Closed]
    /\ book = [n \in Names |->
                  IF Entry(FirstDisk, n).used
                  THEN [NoFile EXCEPT !.kind = "file", !.text = Content(FirstDisk, n)]
                  ELSE NoFile]
    /\ last = [op |-> "none", names |-> {}, got |-> <<>>, want |-> <<>>, cut |-> {},
               stray |-> FALSE]
    /\ calls = 0

\* A file that was cut and let go of before its entry was stored names
\* clusters that are free for good; the run ends there.
Abandoned(n) == book[n].cut /\ ~files[n].open

Next ==
    /\ calls < MaxCalls /\ \A n \in Names : ~Abandoned(n)
    /\ \/ \E n \in Names :
              \/ \E flags \in OpenFlags : Open(n, flags)
              \/ \E len \in Lengths : Write(n, len) \/ Read(n, len)
              \/ \E ofs \in Offsets : Seek(n, ofs)
              \/ Truncate(n) \/ Sync(n) \/ Close(n) \/ Unlink(n)
              \/ \E m \in Names : Rename(n, m)
       \/ Statvfs \/ Crash

Spec == Init /\ [][Next]_vars

-----------------------------------------------------------------------------
\* Types: the window shows a sector of the volume, and a file that is open
\* for nothing but reading is never changed.
FatTypeOK ==
    /\ DOMAIN vol.disk = Sectors /\ vol.wsect \in Sectors \union {Nowhere}
    /\ vol.dirty => vol.wsect # Nowhere
    /\ vol.last \in 0..(NFatEnt - 1) /\ vol.free \in 0..Unknown
    /\ \A n \in Names : files[n].open =>
           /\ files[n].err = "ok" => files[n].ptr <= files[n].size
           /\ ~files[n].write => ~files[n].dirty

\* Whenever the power goes, in the middle of a call or with an access that
\* failed, every file on the disk has its own clusters, all of them
\* allocated, and enough for its size; so nothing a later call allocates is
\* part of a file already.  A file that was cut is left out until it is
\* stored: f_truncate frees its clusters before its entry lets go of them.
CrashSound ==
    \A d \in vol.media :
        LET live == {n \in Names : Entry(d, n).used} \ Cut IN
        /\ \A n \in live :
               LET q == Chain(d, n) IN
               /\ \A i \in 1..Len(q) : Next_(d, q[i]) # 0
               /\ Len(q) = Cardinality({q[i] : i \in 1..Len(q)})
               /\ Entry(d, n).size <= SectorSize * Len(q)
        /\ \A m, n \in live : m # n => InChain(d, m) \intersect InChain(d, n) = {}

\* A file whose storing was promised is on the disk as the callers know it,
\* at every moment of the calls on other files, unless an f_sync
\* before failed after it had taken the mark off the file, or an f_truncate
\* failed and left a stray buffer.
SettledStored ==
    ~last.stray => \A n \in Names : book[n].settled /\ ~book[n].lost =>
        IF n \in last.names THEN Holds(vol.disk, n)
        ELSE \A d \in vol.media : Holds(d, n)

\* A read returns the bytes last written at its place, however writes,
\* seeks, cuts and other files came in between, if no buffer is stray.
ReadsBack == last.op = "read" /\ ~last.stray => Same(last.got, last.want)

\* "Flush cached data of a writing file" (ff.h, f_sync): once it or f_close
\* has returned 0, the file is on the disk.
SyncStores ==
    \A n \in Names : book[n].settled /\ last.op \in {"sync", "close"} /\ n \in last.names =>
        Holds(vol.disk, n)

\* statvfs reports the number of clusters that are free: the count, once made,
\* is kept through all calls, until a call fails or, from then on, a cluster
\* is taken from a volume that has all of them free.
FreeCountKept == last.op = "statvfs" /\ vol.sure => last.got = last.want
=============================================================================
