------------------------------- MODULE Drives -------------------------------
(***************************************************************************)
(* The calls of the C library on several drives (ctr_drives.c): which      *)
(* volume a call reaches, the mounting of volumes, current directories and *)
(* the handles of open files and directories.  What a file holds and how a *)
(* volume is laid out is FatFs; here a volume is a tree of directories.    *)
(*                                                                         *)
(* The C library hands a call to the drive named in its path, or to the    *)
(* default one, and passes the path on with its drive.                     *)
(*                                                                         *)
(* A file or directory is not removed or moved while it is open (_FS_LOCK  *)
(* in ffconf.h), a directory not moved into itself, and a card is not      *)
(* changed without its disk being set up again.                            *)
(***************************************************************************)
EXTENDS Integers, Sequences, FiniteSets

CONSTANTS
    Drives,       \* valid_drives that are used
    FirstDrive,   \* drive 0
    NoDrive,
    FileNames,
    Objs,         \* what a directory entry can lead to (its first cluster)
    Paths,        \* [drive: Drives \union {NoDrive}, abs: BOOLEAN, names: Seq(FileNames)]
    Trees,        \* the trees a medium can hold when its disk is set up
    MaxFiles, MaxDirs,   \* bounds: files and directories open at once
    MaxCalls             \* bound: calls

Root == 0

ASSUME DrivesAssumption ==
    /\ FirstDrive \in Drives /\ NoDrive \notin Drives /\ Root \notin Objs
    /\ \A p \in Paths : p.drive \in Drives \union {NoDrive} /\ p.names \in Seq(FileNames)
    /\ MaxFiles \in Nat /\ MaxDirs \in Nat

VARIABLES
    default,    \* the C library's default device
    CurrVol,    \* fatfs's current drive
    vols,       \* of each drive: its FATFS object, its disk, and how often either was set up
    Fsid,       \* the last mount ID
    tree,       \* of each drive: the entries on its medium
    files,      \* the FIL_extension of every open file
    dirs,       \* the DIR of every open directory
    last,       \* the last call: what it asked for and what it reached
    calls       \* calls so far

drivesVars == <<default, CurrVol, vols, Fsid, tree, files, dirs, last, calls>>

Nothing == -1

\* The directories of a tree; every entry is in one of them, and has a name
\* and an object of its own.
There(t) == {Root} \union {e.obj : e \in {e \in t : e.dir}}
WellFormed(t) ==
    \A e \in t :
        /\ e.up \in There(t)
        /\ \A f \in t : e.obj = f.obj \/ (e.up = f.up /\ e.name = f.name) => e = f

\* A medium comes with a volume that is in order.
ASSUME TreesAssumption == \A t \in Trees : WellFormed(t)

\* ctr_drives_initialize: f_mount with opt 0, so that nothing is mounted yet,
\* whatever became of the initialisation of the disks.
DrivesInit ==
    /\ default = NoDrive /\ CurrVol = FirstDrive
    /\ \E usable \in [Drives -> BOOLEAN] :
           vols = [v \in Drives |-> [mounted |-> FALSE, id |-> 0, cdir |-> Root,
                                     noinit |-> TRUE, usable |-> usable[v], era |-> 0]]
    /\ Fsid = 0
    /\ tree \in [Drives -> Trees]
    /\ files = {} /\ dirs = {}
    /\ last = [op |-> "none", asked |-> NoDrive, here |-> NoDrive, acted |-> NoDrive,
               want |-> Nothing, got |-> Nothing]
    /\ calls = 0

-----------------------------------------------------------------------------
(* fatfs on one volume.  An operator takes the state of the volume it is   *)
(* called with and gives those it can leave; fields are                    *)
(*   vol, id, tree   the volume, the last mount ID, its entries            *)
(*   ok, obj         whether the call succeeded, and what it reached       *)
(* Any call may fail at the disk.                                          *)

At(v, vol, id, ok) == [vol |-> vol, id |-> id, tree |-> tree[v], ok |-> ok, obj |-> Nothing]

\* f_mount with opt 1, and find_volume on a volume that is not mounted: it is
\* mounted with a new ID, in its root directory, if its disk is there to read.
Remount(v) ==
    LET lost == [mounted |-> FALSE, id |-> vols[v].id, cdir |-> vols[v].cdir,
                 noinit |-> ~vols[v].usable, usable |-> vols[v].usable, era |-> vols[v].era]
        anew == [mounted |-> TRUE, id |-> Fsid + 1, cdir |-> Root, noinit |-> FALSE,
                 usable |-> TRUE, era |-> vols[v].era + 1]
    IN  {At(v, lost, Fsid, FALSE)}
        \union IF vols[v].usable THEN {At(v, anew, Fsid + 1, TRUE)} ELSE {}

\* find_volume: a volume that is mounted, on a disk that was not set up since,
\* is taken as it is.
find_volume(v) ==
    IF vols[v].mounted /\ ~vols[v].noinit THEN {At(v, vols[v], Fsid, TRUE)} ELSE Remount(v)

\* The entries of a tree that have a name in a directory.
Named(t, up, name) == {e \in t : e.up = up /\ e.name = name}

Missing(res, up) == [res |-> res, up |-> up, dir |-> FALSE, obj |-> Nothing]

\* dir_find: the entry with a name in the directory that n is.
Find(t, n, name) ==
    LET es == Named(t, n.obj, name)
        e == CHOOSE e \in es : TRUE
    IN  CASE n.res \notin {"origin", "ok"} \/ ~n.dir -> Missing("no_path", Root)
          [] n.res \in {"origin", "ok"} /\ n.dir /\ es = {} -> Missing("no_file", n.obj)
          [] OTHER -> [res |-> "ok", up |-> e.up, dir |-> e.dir, obj |-> e.obj]

\* follow_path: from the current directory, or the root for a path that begins
\* with a slash, through directories to an entry; "origin" is the start itself.
Origin(m, p) ==
    [res |-> "origin", up |-> Root, dir |-> TRUE, obj |-> IF p.abs THEN Root ELSE m.vol.cdir]
Follow(m, p) ==
    LET at[i \in 0..Len(p.names)] ==
            IF i = 0 THEN Origin(m, p) ELSE Find(m.tree, at[i - 1], p.names[i])
    IN  at[Len(p.names)]

\* The outcomes of a call: it is refused or fails, or it succeeds in one of the
\* given ways if the condition holds.
Try(m, cond, outcomes) ==
    {[m EXCEPT !.ok = FALSE]} \union (IF m.ok /\ cond THEN outcomes ELSE {})

\* A new entry where the path ends, with an object that is free.
Entered(m, p, dir) ==
    {[m EXCEPT !.obj = o,
               !.tree = @ \union {[up |-> Follow(m, p).up, name |-> p.names[Len(p.names)],
                                   obj |-> o, dir |-> dir]}]
        : o \in Objs \ {e.obj : e \in m.tree}}

f_open(m, p, create) ==
    LET n == Follow(m, p) IN
    Try(m, n.res = "ok" /\ ~n.dir, {[m EXCEPT !.obj = n.obj]})
    \union Try(m, n.res = "no_file" /\ create, Entered(m, p, FALSE))

f_stat(m, p) ==
    LET n == Follow(m, p) IN Try(m, n.res = "ok", {[m EXCEPT !.obj = n.obj]})

f_opendir(m, p) ==
    LET n == Follow(m, p) IN
    Try(m, n.res \in {"ok", "origin"} /\ n.dir, {[m EXCEPT !.obj = n.obj]})

f_chdir(m, p) ==
    LET n == Follow(m, p) IN
    Try(m, n.res \in {"ok", "origin"} /\ n.dir, {[m EXCEPT !.obj = n.obj, !.vol.cdir = n.obj]})

f_mkdir(m, p) == Try(m, Follow(m, p).res = "no_file", Entered(m, p, TRUE))

\* Slip: the current directory may go.
MayUnlinkCurrent(m, n) == \A e \in m.tree : e.up # n.obj

\* Not the current directory, nor one with entries.
MayUnlink(m, n) == n.dir => n.obj # m.vol.cdir /\ \A e \in m.tree : e.up # n.obj

f_unlink(m, p) ==
    LET n == Follow(m, p) IN
    Try(m, n.res = "ok" /\ MayUnlink(m, n),
        {[m EXCEPT !.obj = n.obj, !.tree = {e \in @ : e.obj # n.obj}]})

\* The drive of the new name is not looked at; callers give the same one.
f_rename(m, p, q) ==
    LET n == Follow(m, p)
        moved == [up |-> Follow(m, q).up, name |-> q.names[Len(q.names)], obj |-> n.obj, dir |-> n.dir]
    IN  Try(m, n.res = "ok" /\ Follow(m, q).res = "no_file",
            {[m EXCEPT !.obj = n.obj, !.tree = {e \in @ : e.obj # n.obj} \union {moved}]})

\* Slip: the mount ID is not compared.
ValidWhileMounted(h) == vols[h.vol].mounted /\ ~vols[h.vol].noinit

\* validate: the handle is of this mount, and the disk was not set up since.
Valid(h) == vols[h.vol].mounted /\ vols[h.vol].id = h.id /\ ~vols[h.vol].noinit

-----------------------------------------------------------------------------
(* The calls.                                                              *)

\* The C library's FindDevice.
FindDevice(p) == IF p.drive = NoDrive THEN default ELSE p.drive

\* get_ldnumber.
Volume(p, current) == IF p.drive = NoDrive THEN current ELSE p.drive

Count(op, asked, acted, want, got) ==
    /\ calls' = calls + 1
    /\ last' = [op |-> op, asked |-> asked, acted |-> acted,
                here |-> IF op = "diropen" THEN CurrVol ELSE asked,
                want |-> want, got |-> got]

\* The volume v is left as m says.
LeaveVolume(v, m) ==
    /\ vols' = [vols EXCEPT ![v] = m.vol] /\ Fsid' = m.id
    /\ tree' = [tree EXCEPT ![v] = m.tree]

\* f_chdrive, before every call with a path but diropen_r.
Switch(p) == FindDevice(p) # NoDrive /\ CurrVol' = FindDevice(p)

Outcome(op, p, v, m) == Count(op, FindDevice(p), IF m.ok THEN v ELSE NoDrive, Nothing, Nothing)

\* open_r.
Open(p, create) ==
    LET v == Volume(p, FindDevice(p)) IN
    /\ Cardinality(files) < MaxFiles /\ Switch(p) /\ UNCHANGED <<default, dirs>>
    /\ \E m \in find_volume(v) : \E n \in f_open(m, p, create) :
           /\ LeaveVolume(v, n) /\ Outcome("path", p, v, n)
           /\ files' = files \union
                  (IF n.ok THEN {[drive |-> FindDevice(p), filename |-> p, vol |-> v, id |-> n.vol.id,
                                  obj |-> n.obj, era |-> n.vol.era, steady |-> TRUE]} ELSE {})

\* From now on the names of these open files may lead elsewhere.
Unsettle(hs) ==
    {[drive |-> h.drive, filename |-> h.filename, vol |-> h.vol, id |-> h.id, obj |-> h.obj,
      era |-> h.era, steady |-> h.steady /\ h \notin hs] : h \in files}

\* The open files on v that were named from its current directory.
Relative(v) == {h \in files : h.vol = v /\ ~h.filename.abs}

\* stat_r, chdir_r, mkdir_r.
Stat(p) ==
    LET v == Volume(p, FindDevice(p)) IN
    /\ Switch(p) /\ UNCHANGED <<default, files, dirs>>
    /\ \E m \in find_volume(v) : \E n \in f_stat(m, p) :
           LeaveVolume(v, n) /\ Outcome("path", p, v, n)

Chdir(p) ==
    LET v == Volume(p, FindDevice(p)) IN
    /\ Switch(p) /\ UNCHANGED <<default, dirs>>
    /\ \E m \in find_volume(v) : \E n \in f_chdir(m, p) :
           /\ LeaveVolume(v, n) /\ Outcome("path", p, v, n)
           /\ files' = Unsettle({h \in Relative(v) : n.ok})

Mkdir(p) ==
    LET v == Volume(p, FindDevice(p)) IN
    /\ p.names # <<>>
    /\ Switch(p) /\ UNCHANGED <<default, files, dirs>>
    /\ \E m \in find_volume(v) : \E n \in f_mkdir(m, p) :
           LeaveVolume(v, n) /\ Outcome("path", p, v, n)

\* What is open on v stays: clients close before they remove or move.
Closed(v, n) == n.ok => \A h \in files \union dirs : h.vol = v => h.obj # n.obj

Unlink(p) ==
    LET v == Volume(p, FindDevice(p)) IN
    /\ Switch(p) /\ UNCHANGED <<default, files, dirs>>
    /\ \E m \in find_volume(v) : \E n \in f_unlink(m, p) :
           Closed(v, n) /\ LeaveVolume(v, n) /\ Outcome("path", p, v, n)

\* Nothing is below itself.
Rooted(t) == \A S \in SUBSET t : S # {} => \E e \in S : \A f \in S : f.obj # e.up

\* What was moved is a directory.
IsDirectory(n) == \E e \in n.tree : e.obj = n.obj /\ e.dir

Rename(p, q) ==
    LET v == Volume(p, FindDevice(p)) IN
    /\ q.names # <<>>
    /\ Switch(p) /\ UNCHANGED <<default, dirs>>
    /\ \E m \in find_volume(v) : \E n \in f_rename(m, p, q) :
           /\ Closed(v, n) /\ LeaveVolume(v, n) /\ Outcome("path", p, v, n)
           /\ Rooted(n.tree)
           /\ files' = Unsettle({h \in files : h.vol = v /\ n.ok /\ IsDirectory(n)})

\* diropen_r switches no drive.
Diropen(p) ==
    LET v == Volume(p, CurrVol) IN
    /\ Cardinality(dirs) < MaxDirs
    /\ FindDevice(p) # NoDrive /\ UNCHANGED <<default, CurrVol, files>>
    /\ \E m \in find_volume(v) : \E n \in f_opendir(m, p) :
           /\ LeaveVolume(v, n) /\ Outcome("diropen", p, v, n)
           /\ dirs' = dirs \union
                  (IF n.ok THEN {[vol |-> v, id |-> n.vol.id, obj |-> n.obj, era |-> n.vol.era]} ELSE {})

\* A call through a handle: what it was opened as, and what is there now.
Through(op, h) ==
    \E ok \in {FALSE, Valid(h)} :
        Count(op, h.vol, IF ok THEN h.vol ELSE NoDrive, h.era, IF ok THEN vols[h.vol].era ELSE h.era)

\* read_r, write_r; seek_r, ftruncate_r, fsync_r.
ReadWrite(h) == Through("file", h) /\ CurrVol' = h.drive
               /\ UNCHANGED <<default, vols, Fsid, tree, files, dirs>>
OnFile(h) == Through("file", h) /\ UNCHANGED <<default, CurrVol, vols, Fsid, tree, files, dirs>>

\* The C library lets go of a file, whatever close_r says.
Close(h) == Through("file", h) /\ files' = files \ {h}
            /\ UNCHANGED <<default, CurrVol, vols, Fsid, tree, dirs>>

\* dirnext_r, dirreset_r, dirclose_r.
OnDir(d) == Through("dir", d) /\ UNCHANGED <<default, CurrVol, vols, Fsid, tree, files, dirs>>
Dirclose(d) == Count("none", NoDrive, NoDrive, Nothing, Nothing) /\ dirs' = dirs \ {d}
               /\ UNCHANGED <<default, CurrVol, vols, Fsid, tree, files>>

\* Slip: the drive of the call before.
FstatCurrent(h) == CurrVol

\* stat_r of the file's drive.
FstatDrive(h) == h.drive

\* fstat_r: by the name the file was opened with.
Fstat(h) ==
    LET v == Volume(h.filename, FstatDrive(h)) IN
    /\ CurrVol' = FstatDrive(h) /\ UNCHANGED <<default, files, dirs>>
    /\ \E m \in find_volume(v) : \E n \in f_stat(m, h.filename) :
           /\ LeaveVolume(v, n)
           /\ Count("fstat", h.vol, IF n.ok THEN v ELSE NoDrive,
                    IF h.steady /\ Valid(h) THEN h.obj ELSE Nothing, n.obj)

\* statvfs_r.
Statvfs(v) ==
    /\ UNCHANGED <<default, CurrVol, files, dirs>>
    /\ \E m \in find_volume(v) : \E n \in Try(m, TRUE, {m}) :
           LeaveVolume(v, n) /\ Count("path", v, IF n.ok THEN v ELSE NoDrive, Nothing, Nothing)

\* ctr_drives_check_ready.
CheckReady(v) ==
    /\ UNCHANGED <<default, CurrVol, files, dirs>>
    /\ \E m \in Remount(v) :
           LeaveVolume(v, m) /\ Count("path", v, IF m.ok THEN v ELSE NoDrive, Nothing, Nothing)

\* ctr_drives_chdrive.
Chdrive(v) ==
    /\ default' = v /\ UNCHANGED <<CurrVol, vols, Fsid, tree, files, dirs>>
    /\ Count("none", NoDrive, NoDrive, Nothing, Nothing)

\* ctr_fatfs_sd_initialize, ctr_fatfs_internal_initialize: the disk is set up
\* again, maybe with another medium.
SetUpDisk(v) ==
    /\ \E usable \in BOOLEAN :
           vols' = [vols EXCEPT ![v] = [mounted |-> @.mounted, id |-> @.id, cdir |-> @.cdir,
                                        noinit |-> TRUE, usable |-> usable, era |-> @.era + 1]]
    /\ \E t \in Trees \union {tree[v]} : tree' = [tree EXCEPT ![v] = t]
    /\ UNCHANGED <<default, CurrVol, Fsid, files, dirs>>
    /\ Count("none", NoDrive, NoDrive, Nothing, Nothing)

DrivesNext ==
    /\ calls < MaxCalls
    /\ \/ \E p \in Paths :
              \/ Open(p, TRUE) \/ Open(p, FALSE) \/ Stat(p) \/ Chdir(p) \/ Mkdir(p)
              \/ Unlink(p) \/ Diropen(p)
              \/ \E q \in Paths : q.drive = p.drive /\ Rename(p, q)
       \/ \E h \in files : ReadWrite(h) \/ OnFile(h) \/ Close(h) \/ Fstat(h)
       \/ \E d \in dirs : OnDir(d) \/ Dirclose(d)
       \/ \E v \in Drives : Statvfs(v) \/ CheckReady(v) \/ Chdrive(v) \/ SetUpDisk(v)

DrivesSpec == DrivesInit /\ [][DrivesNext]_drivesVars

-----------------------------------------------------------------------------
\* Every call acts on the drive of its path, or the default one, whatever
\* drives other calls were on; but a directory opened by a path without a
\* drive is on the drive of the call before (see DefaultDriveUsed).  fstat,
\* which goes by the name the file was opened with, finds that file on its
\* drive again, whatever was opened, made, removed or renamed there, unless
\* the name is relative and the current directory was changed, a directory
\* was moved, or the volume was mounted anew: then it may find another.
RightPlace ==
    last.acted # NoDrive =>
        /\ last.acted = last.asked \/ (last.op = "diropen" /\ last.acted = last.here)
        /\ last.op = "fstat" /\ last.want # Nothing => last.got = last.want

\* What ctr_drives.h says of ctr_drives_chdrive: it changes the drive used
\* when no drive is specified in the path, whichever call the path is for.
DefaultDriveUsed == last.acted # NoDrive => last.acted = last.asked

\* A file or directory that was opened before its volume was mounted anew, or
\* its disk set up, is not used to read or write what is there now.
OwnMount == last.op \in {"file", "dir"} /\ last.acted # NoDrive => last.got = last.want

\* Every entry is in the root or in a directory that is there, one name and
\* one entry for each, and the current directory of a mounted volume is there:
\* nothing is made, found or lost in a directory that is gone.
TreeSound ==
    \A v \in Drives :
        /\ WellFormed(tree[v])
        /\ vols[v].mounted /\ ~vols[v].noinit => vols[v].cdir \in There(tree[v])
=============================================================================
