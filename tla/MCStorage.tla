----------------------------- MODULE MCStorage -----------------------------
(***************************************************************************)
(* What the C library's calls go through, from the drives down: one of     *)
(* three systems, chosen in the initial state, while the others stay in    *)
(* theirs.                                                                 *)
(*                                                                         *)
(*   "drives"  Drives.tla, as in MCDrives.tla; at first, the NAND's disk   *)
(*             is in order.                                                *)
(*   "disks"   Disks.tla: cards of two sizes, the first disk of the NAND   *)
(*             and that of the card.                                       *)
(*   "bytes"   ByteIo.tla: four sectors of three bytes, which hold every   *)
(*             shape of a call: with or without a partial first sector,    *)
(*             none, one or two whole sectors, and no, one or two bytes in *)
(*             the last sector.                                            *)
(***************************************************************************)
EXTENDS MCDrives, Disks, ByteIo

VARIABLE over

storageVars == <<drivesVars, vars, byteIoVars, over>>

\* What rests is in one of its initial states.
StorageInit ==
    /\ over \in {"drives", "disks", "bytes"}
    /\ DrivesInit
    /\ vols[CTRNAND].usable
    /\ over # "drives" => \A v \in Drives : tree[v] = {} /\ vols[v].usable
    /\ Init
    /\ over # "disks" => card["sd"] = NoCard
    /\ ByteIoInit

StorageNext ==
    \/ /\ over = "drives"
       /\ DrivesNext \/ (calls = MaxCalls /\ UNCHANGED drivesVars)
       /\ UNCHANGED <<vars, byteIoVars, over>>
    \/ over = "disks" /\ Next /\ UNCHANGED <<drivesVars, byteIoVars, over>>
    \/ over = "bytes" /\ ByteIoNext /\ UNCHANGED <<drivesVars, vars, over>>

StorageSpec == StorageInit /\ [][StorageNext]_storageVars
=============================================================================
