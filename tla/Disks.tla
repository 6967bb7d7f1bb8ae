------------------------------- MODULE Disks -------------------------------
(***************************************************************************)
(* Initialisation of the interfaces and of the disks of fatfs over them    *)
(* (ctr_fatfs_initialize, ctr_disks_initialize and what they call), and    *)
(* the disk functions that fatfs uses, over the driver of Sdmmc.  What     *)
(* fails in the middle does not stop the rest.                             *)
(***************************************************************************)
EXTENDS Sdmmc

CONSTANTS
  Disks,      \* of the table: 0 CTRNAND, 1 TWLN, 2 TWLP, 3 SD
  MaxInits    \* bound: initialisations

ASSUME DisksAssumption == Disks \subseteq 0 .. 3

VARIABLES
  layer,      \* the interfaces that are set up
  disk,       \* ctr_fatfs_disks
  mounted,    \* disks on which fatfs has a file system
  op,         \* the initialisation or access in progress, or the last one
  null,       \* history: a function of an interface never set up was called
  inits,      \* number of initialisations begun
  failures    \* history: some initialisation returned other than 0

diskVars == << layer, disk, mounted, op, null, inits, failures >>
vars == << driverVars, diskVars >>

Layers == {"nand", "ctr", "twl", "sd"}

(* The device an interface reaches.                                        *)
Device(l) == IF l = "sd" THEN "sd" ELSE "nand"

(* What the three entries of the library are asked for.                    *)
Entries == { {"nand", "ctr", "twl", "sd"}, {"nand", "ctr", "twl"}, {"sd"} }

(* Steps of ctr_disks_initialize; "type" reads the kind of encryption, and *)
(* "disks" is ctr_fatfs_default_setup.                                     *)
StepsFor(asked) ==
  CASE "nand" \in asked /\ "sd" \in asked ->
         << "nand", "type", "ctr", "twl", "sd", "disks" >>
    [] "nand" \in asked /\ "sd" \notin asked ->
         << "nand", "type", "ctr", "twl", "disks" >>
    [] "nand" \notin asked /\ "sd" \in asked -> << "sd", "disks" >>
    [] OTHER -> << "disks" >>

Done == op.steps = << >>

(* The table of disks is zero: no interface, but not STA_NOINIT either.    *)
Init ==
  /\ DriverInit
  /\ layer = [l \in Layers |-> FALSE]
  /\ disk = [d \in Disks |-> [io |-> "none", sectors |-> 0, noinit |-> FALSE]]
  /\ mounted = {}
  /\ op = [asked |-> {}, steps |-> << >>, waiting |-> FALSE, failed |-> FALSE, disk |-> 0]
  /\ null = FALSE /\ failures = FALSE /\ inits = 0

-----------------------------------------------------------------------------
(* Initialisation.                                                         *)

Initialize(asked) ==
  /\ Done /\ Idle /\ inits < MaxInits
  /\ op' = [asked |-> asked, steps |-> StepsFor(asked), waiting |-> FALSE,
            failed |-> FALSE, disk |-> 0]
  /\ inits' = inits + 1
  /\ UNCHANGED << driverVars, layer, disk, mounted, null, failures >>

Step(s) == ~ Done /\ Head(op.steps) = s /\ Idle
Begins(s) == Step(s) /\ ~ op.waiting /\ op' = [op EXCEPT !.waiting = TRUE]

(* Mutant: the result is that of the last step.                            *)
EndsForgetting(s, rest) ==
  /\ Step(s) /\ op.waiting
  /\ op' = [op EXCEPT !.waiting = FALSE, !.steps = rest, !.failed = ~ res]

(* result |= ...                                                           *)
Ends(s, rest) ==
  /\ Step(s) /\ op.waiting
  /\ op' = [asked |-> op.asked, steps |-> rest, waiting |-> FALSE,
            failed |-> op.failed \/ ~ res, disk |-> op.disk]

Rest == Tail(op.steps)

(* ctr_nand_interface_initialize and ctr_sd_interface_initialize: the      *)
(* interface is set up whatever the driver says.                           *)
SetUp(l) == layer' = [layer EXCEPT ![l] = TRUE]

BeginNand ==
  /\ Begins("nand") /\ NandInit /\ SetUp("nand")
  /\ UNCHANGED << disk, mounted, null, inits, failures >>

(* After a failure of the NAND nothing over it is set up.                  *)
EndNand ==
  /\ Ends("nand", IF res THEN Rest ELSE StepsFor(op.asked \ {"nand"}))
  /\ UNCHANGED << driverVars, layer, disk, mounted, null, inits, failures >>

(* The byte that tells the key slot.                                       *)
BeginType ==
  /\ Begins("type") /\ Enter("transfer", "nand")
  /\ UNCHANGED << layer, disk, mounted, null, inits, failures >>

EndType ==
  /\ Ends("type", Rest)
  /\ UNCHANGED << driverVars, layer, disk, mounted, null, inits, failures >>

(* ctr_nand_crypto_interface_initialize: the counter is a hash of what     *)
(* get_cid gave, whatever that is, and the result is 0.                    *)
BeginCrypto(l) ==
  /\ Begins(l) /\ Enter("get_cid", "nand")
  /\ UNCHANGED << layer, disk, mounted, null, inits, failures >>

EndCrypto(l) ==
  /\ Ends(l, Rest)
  /\ SetUp(l)
  /\ UNCHANGED << driverVars, disk, mounted, null, inits, failures >>

BeginSd ==
  /\ Begins("sd") /\ SdInit /\ SetUp("sd")
  /\ UNCHANGED << disk, mounted, null, inits, failures >>

EndSd ==
  /\ Ends("sd", Rest)
  /\ UNCHANGED << driverVars, layer, disk, mounted, null, inits, failures >>

(* The interface of each disk that is set up.  The partitions of the NAND  *)
(* have fixed sizes.                                                       *)
Io(d) == CASE d = 0 -> "ctr" [] d \in {1, 2} -> "twl" [] d = 3 -> "sd"

(* Mutant: the size is taken where the disk is registered first.           *)
SetUpDisksOnce ==
  disk' = [d \in Disks |->
    IF Io(d) \notin op.asked \/ disk[d].io # "none" THEN disk[d]
    ELSE [io |-> Io(d), noinit |-> TRUE,
          sectors |-> IF d = 3 THEN dev["sd"].total_size ELSE 1]]

(* CTR_SETUP_DISK for each interface that was passed.                      *)
SetUpDisks ==
  disk' = [d \in Disks |->
    IF Io(d) \notin op.asked THEN disk[d]
    ELSE [io |-> Io(d), noinit |-> TRUE,
          sectors |-> IF d = 3 THEN dev["sd"].total_size ELSE 1]]

FinishInitialize ==
  /\ Step("disks")
  /\ SetUpDisks
  /\ op' = [op EXCEPT !.steps = << >>]
  /\ failures' = (failures \/ op.failed)
  /\ UNCHANGED << driverVars, layer, mounted, null, inits >>

-----------------------------------------------------------------------------
(* fatfs, which mounts a disk before it uses it, and mounts it again when  *)
(* disk_status_ says STA_NOINIT; a mount reads the first sector.           *)

(* Mutant: a disk that was never set up is ready.                          *)
ReadyAlways(d) == TRUE

(* disk_initialize_.                                                       *)
Ready(d) == disk[d].io # "none" /\ disk[d].sectors # 0

(* disk_read_ and disk_write_, up to the call of the driver.               *)
Access(d) ==
  LET l == disk[d].io IN
  IF l # "none" /\ layer[l]
  THEN /\ Enter("transfer", Device(l))
       /\ op' = [asked |-> {}, steps |-> << "access" >>, waiting |-> TRUE,
                 failed |-> FALSE, disk |-> d]
       /\ UNCHANGED null
  ELSE null' = TRUE /\ UNCHANGED << driverVars, op >>

Mount(d) ==
  /\ Done /\ Idle
  /\ d \notin mounted \/ disk[d].noinit
  /\ disk' = [disk EXCEPT ![d].noinit = IF Ready(d) THEN FALSE ELSE TRUE]
  /\ mounted' = mounted \ {d}
  /\ IF Ready(d) THEN Access(d) ELSE UNCHANGED << driverVars, op, null >>
  /\ UNCHANGED << layer, inits, failures >>

Use(d) ==
  /\ Done /\ Idle
  /\ d \in mounted /\ ~ disk[d].noinit
  /\ Access(d)
  /\ UNCHANGED << layer, disk, mounted, inits, failures >>

(* A mount succeeds with its read.                                         *)
EndAccess ==
  /\ Ends("access", << >>)
  /\ mounted' = IF res THEN mounted \cup {op.disk} ELSE mounted
  /\ UNCHANGED << driverVars, layer, disk, null, inits, failures >>

-----------------------------------------------------------------------------
Next ==
  \/ (Command \/ Remove \/ Insert) /\ UNCHANGED diskVars
  \/ \E asked \in Entries : Initialize(asked)
  \/ BeginNand \/ EndNand \/ BeginType \/ EndType
  \/ \E l \in {"ctr", "twl"} : BeginCrypto(l) \/ EndCrypto(l)
  \/ BeginSd \/ EndSd \/ FinishInitialize
  \/ \E d \in Disks : Mount(d) \/ Use(d)
  \/ EndAccess

Spec == Init /\ [][Next]_vars

-----------------------------------------------------------------------------
(* Properties.                                                             *)

(* An initialisation that returns 0 has set up every interface it was      *)
(* passed, over a device whose own initialisation went through to the end: *)
(* no failure of an earlier step is lost, but that of a command of get_cid *)
(* (see ZeroMeansNoProblem).  The card may be removed at any time.         *)
SuccessMeansReady ==
  Done /\ ~ op.failed => \A l \in op.asked :
    layer[l] /\ (sound[Device(l)] \/ Device(l) \in disturbed)

(* What ctr_disks.h says of the result: 0 only if nothing was wrong with   *)
(* any of the layers, those over the encrypted NAND included.              *)
ZeroMeansNoProblem ==
  Done /\ ~ op.failed /\ "ctr" \in op.asked => "nand" \notin disturbed

(* A function of an interface that was never set up is called only after   *)
(* an initialisation that failed, and never because of a zero entry of the *)
(* table of disks.                                                         *)
NullOnlyAfterFailure == null => failures

(* What ctr_drives.h promises of ctr_drives_check_ready: an error for a    *)
(* drive that is not ready, which a call through NULL never returns.       *)
NoNullCall == ~ null

(* Between calls, the disk of a usable SD card has the size of that card,  *)
(* not of one that was there before.                                       *)
SdSize ==
  Done /\ 3 \in Disks /\ sound["sd"] => disk[3].sectors = card["sd"].size
=============================================================================
