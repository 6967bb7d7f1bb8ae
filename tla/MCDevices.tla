----------------------------- MODULE MCDevices -----------------------------
(***************************************************************************)
(* Programs over devices that run by themselves or fail: one of five       *)
(* systems, chosen in the initial state, while the others stay in theirs.  *)
(*                                                                         *)
(*   "disk"    Crypto.tla over a disk with sectors of two blocks (on the   *)
(*             NAND, 32) and room for two windows of five sectors and what *)
(*             follows them: the constants of the configuration.           *)
(*   "memory"  Crypto.tla over memory: sectors of one byte, blocks of      *)
(*             three, so that a call starts and ends anywhere in a block;  *)
(*             the window is of five blocks and the device of six.         *)
(*   "aes"     Aes.tla: FIFOs of their real sizes; words of eight values,  *)
(*             so that a call carries through every word of the counter    *)
(*             and past its end; chunks of five blocks, so that a call of  *)
(*             eleven has whole and partial batches in whole and partial   *)
(*             chunks.                                                     *)
(*   "sd"      SdmmcCommand.tla: transfers of more blocks than the         *)
(*             register can count, and fewer.                              *)
(*   "clock"   SystemClock.tla: a clock on timer 0 and another device.     *)
(***************************************************************************)
EXTENDS Crypto, Aes, SdmmcCommand, MCSystemClock

VARIABLE over

Memory == INSTANCE Crypto WITH
  SectorSize <- 1, BlockSize <- 3, Sectors <- 18, Checked <- FALSE

MCCounters == {<<0, 0, 0, 0>>, <<0, 7, 7, 5>>, <<1, 0, 7, 4>>, <<7, 7, 7, 6>>}

allVars == << vars, aesVars, commandVars, systemVars, over >>

\* What rests is in one of its initial states.
DevicesInit ==
  /\ over \in {"disk", "memory", "aes", "sd", "clock"}
  /\ IF over = "memory" THEN Memory!Init ELSE Init
  /\ AesInit
  /\ over # "aes" => req = CHOOSE r \in Requests : r.n = 0
  /\ CommandInit
  /\ over # "sd" => busyCovers
  /\ ClockInit
  /\ over # "clock" => /\ enabled
                       /\ IRQ_IF = {}
                       /\ \A t \in Timers : ~timers[t].start

\* A read leaves the device as it was: whatever follows it can also follow the
\* call before it, so it is the last of its behavior.
AfterRead == call = "read" /\ pc = "idle" /\ size > 0

DevicesNext ==
  \/ /\ \/ over = "disk" /\ ~AfterRead /\ Next
        \/ over = "memory" /\ ~AfterRead /\ Memory!Next
        \/ AfterRead /\ UNCHANGED vars
     /\ UNCHANGED << aesVars, commandVars, systemVars, over >>
  \/ /\ over = "aes"
     /\ AesNext
     /\ UNCHANGED << vars, commandVars, systemVars, over >>
  \/ /\ over = "sd"
     /\ CommandNext
     /\ UNCHANGED << vars, aesVars, systemVars, over >>
  \/ /\ over = "clock"
     /\ ClockNext
     /\ UNCHANGED << vars, aesVars, commandVars, over >>

\* The fairness of each system, while it is the one that runs.
FairDevices ==
  /\ DevicesInit
  /\ [][DevicesNext]_allVars
  /\ WF_aesVars(over = "aes" /\ Program)
  /\ WF_aesVars(over = "aes" /\ Engine)
  /\ WF_commandVars(/\ over = "sd"
                    /\ ReadStatus1 \/ MoveData \/ ReadStatus0 \/ ReadRespend \/ Leave)
  /\ WF_commandVars(over = "sd" /\ Controller)
  /\ WF_systemVars(over = "clock" /\ InitStep)
  /\ WF_systemVars(over = "clock" /\ ReadStep)
  /\ WF_systemVars(over = "clock" /\ HandlerStep)
  /\ SF_systemVars(over = "clock" /\ TakeInterrupt)

-----------------------------------------------------------------------------
(* RangeOldOrNew over either device: a byte in the range of a write is old *)
(* or new at every moment.                                                 *)
OldOrNewBoth == IF over = "memory" THEN Memory!RangeOldOrNew ELSE RangeOldOrNew

(* NoDamageBeyondLastBlock over either device: a write changes nothing     *)
(* before its range, nor after the block it ends in.                       *)
NoDamageBoth ==
  IF over = "memory" THEN Memory!NoDamageBeyondLastBlock
  ELSE NoDamageBeyondLastBlock

(* FullSectorsStored over either device: a write that returned 0 has       *)
(* stored all full sectors.                                                *)
StoredBoth ==
  IF over = "memory" THEN Memory!FullSectorsStored ELSE FullSectorsStored

(* ReadsPlaintext over either device: a read that returned 0 gives what    *)
(* its range decrypts to.                                                  *)
PlaintextBoth == IF over = "memory" THEN Memory!ReadsPlaintext ELSE ReadsPlaintext
=============================================================================
