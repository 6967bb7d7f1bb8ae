---------------------------- MODULE SdmmcCommand ----------------------------
(***************************************************************************)
(* sdmmc_send_command against the controller, which runs by itself: the    *)
(* program polls its registers, one access a step, while a command is      *)
(* answered, blocks cross the FIFO, and bits rise.  A transfer begins as   *)
(* sdmmc_*_readsectors and writesectors do, with its number of blocks in a *)
(* register of CountLimit values.  Blocks are named by their number.       *)
(***************************************************************************)
EXTENDS Integers, Sequences

CONSTANTS Counts,      \* numbers of blocks transfers ask for
          CountLimit   \* values of REG_SDBLKCOUNT (2^16)

ASSUME CountsAssumption == Counts \subseteq Nat \ {0}
ASSUME LimitAssumption == CountLimit \in Nat \ {0}

VARIABLES
  place,       \* where sdmmc_send_command stands
  kind,        \* of the command: whether it has a response, or data
  asked,       \* numsectors
  to_move,     \* size: blocks the program has yet to move
  status1, status0,   \* local copies of the registers
  error,       \* ctx->error, bits 1 (response), 2 (data end), 4 (error)
  memory,      \* blocks read, in the order they were stored
  busy,        \* TMIO_STAT1_CMD_BUSY
  bits,        \* other status bits that are set
  fifo,        \* the blocks in the FIFO, one at most
  job,         \* the command the controller runs
  written,     \* blocks the card has taken, in their order
  raised,      \* history: bits raised since the command was written
  busyCovers   \* whether busy lasts until the end of the data

programVars == << place, kind, asked, to_move, status1, status0, error, memory >>
controllerVars == << busy, bits, fifo, job, written, raised, busyCovers >>
commandVars == << programVars, controllerVars >>

Kinds == {"plain", "response", "read", "write"}
Bits == {"CMDRESPEND", "DATAEND", "GW"}    \* GW: any bit of TMIO_MASK_GW
NoStatus1 == [busy |-> TRUE, error |-> FALSE]
NoJob == [left |-> 0, state |-> "none"]
Jobs == [left : 0 .. CountLimit - 1, state : {"none", "running", "ended"}]
Transfer(k) == k \in {"read", "write"}

TypeOK ==
  /\ place \in {"idle", "status1", "data", "status0", "respend", "leave"}
  /\ kind \in Kinds
  /\ asked \in Counts \cup {0}
  /\ to_move \in 0 .. asked
  /\ status1 \in [busy : BOOLEAN, error : BOOLEAN]
  /\ status0 \subseteq {"CMDRESPEND", "DATAEND"}
  /\ error \subseteq {1, 2, 4}
  /\ memory \in Seq(Nat) /\ written \in Seq(Nat) /\ fifo \in Seq(Nat)
  /\ Len(fifo) <= 1
  /\ busy \in BOOLEAN /\ busyCovers \in BOOLEAN
  /\ bits \subseteq Bits /\ raised \subseteq Bits
  /\ job \in Jobs

CommandInit ==
  /\ place = "idle" /\ kind = "plain" /\ asked = 0 /\ to_move = 0
  /\ status1 = NoStatus1 /\ status0 = {} /\ error = {}
  /\ memory = << >> /\ written = << >> /\ fifo = << >>
  /\ busy = FALSE /\ bits = {} /\ raised = {}
  /\ job = NoJob
  /\ busyCovers \in BOOLEAN

-----------------------------------------------------------------------------
(* The program.                                                            *)

(* Up to the write of the command: the wait for the controller is the      *)
(* guard, and an idle controller stays so until the command is written.    *)
(* The driver never empties the FIFO, so the controller must.              *)
Issue(k, n) ==
  /\ place = "idle" /\ place' = "status1"
  /\ ~ busy
  /\ kind' = k /\ asked' = n /\ to_move' = n
  /\ error' = {} /\ status0' = {} /\ status1' = NoStatus1
  /\ memory' = << >> /\ written' = << >> /\ fifo' = << >>
  /\ busy' = TRUE /\ bits' = {} /\ raised' = {}
  /\ job' = [left |-> n % CountLimit, state |-> "running"]
  /\ UNCHANGED busyCovers

ReadStatus1 ==
  /\ place = "status1" /\ place' = "data"
  /\ status1' = [busy |-> busy, error |-> "GW" \in bits]
  /\ UNCHANGED << kind, asked, to_move, status0, error, memory, controllerVars >>

(* Mutants: status1 is read again for its busy bit; that bit is ignored.   *)
ExamineAgain(s) ==
  /\ place' = IF s.error THEN "leave" ELSE IF busy THEN "status1" ELSE "status0"
  /\ error' = IF s.error THEN error \cup {4} ELSE error

ExamineUnbusy(s) ==
  /\ place' = IF s.error THEN "leave" ELSE "status0"
  /\ error' = IF s.error THEN error \cup {4} ELSE error

(* What follows the data: an error ends the loop; status0 is looked at     *)
(* when status1 was not busy.                                              *)
Examine(s) ==
  /\ place' = IF s.error THEN "leave" ELSE IF s.busy THEN "status1" ELSE "status0"
  /\ error' = IF s.error THEN error \cup {4} ELSE error

(* Mutant: a full FIFO is read, an empty one filled, whatever is left.     *)
MoveDataUnbounded ==
  /\ place = "data"
  /\ LET reads == kind = "read" /\ fifo # << >>
         writes == kind = "write" /\ fifo = << >>
     IN
     /\ memory' = IF reads THEN memory \o fifo ELSE memory
     /\ fifo' = IF reads THEN << >>
                ELSE IF writes THEN << asked - to_move + 1 >> ELSE fifo
     /\ to_move' = IF reads \/ writes THEN to_move - 1 ELSE to_move
  /\ Examine(status1)
  /\ UNCHANGED << kind, asked, status1, status0,
                  busy, bits, job, written, raised, busyCovers >>

(* A block is read when the FIFO is full, and written when it is empty,    *)
(* as long as the call has room or data left.                              *)
MoveData ==
  /\ place = "data"
  /\ LET reads == kind = "read" /\ fifo # << >> /\ to_move > 0
         writes == kind = "write" /\ fifo = << >> /\ to_move > 0
     IN
     /\ memory' = IF reads THEN memory \o fifo ELSE memory
     /\ fifo' = IF reads THEN << >>
                ELSE IF writes THEN << asked - to_move + 1 >> ELSE fifo
     /\ to_move' = IF reads \/ writes THEN to_move - 1 ELSE to_move
  /\ Examine(status1)
  /\ UNCHANGED << kind, asked, status1, status0,
                  busy, bits, job, written, raised, busyCovers >>

ReadStatus0 ==
  /\ place = "status0" /\ place' = "respend"
  /\ status0' = bits \ {"GW"}
  /\ UNCHANGED << kind, asked, to_move, status1, error, memory, controllerVars >>

(* Mutants: only the busy bit is waited for; the response always is.       *)
NoFlags == {}
FlagsWithResponse ==
  {"CMDRESPEND"} \cup (IF Transfer(kind) THEN {"DATAEND"} ELSE {})

(* Bits of status0 that end a command.  (cmd << 16) >> 31 is bit 15 of the *)
(* command, which is 0 in each the driver sends.                           *)
Flags == IF Transfer(kind) THEN {"DATAEND"} ELSE {}

(* status0 is read a second time for the response.                         *)
ReadRespend ==
  /\ place = "respend"
  /\ error' = error \cup (IF "CMDRESPEND" \in bits THEN {1} ELSE {})
                    \cup (IF "DATAEND" \in status0 THEN {2} ELSE {})
  /\ place' = IF Flags \subseteq status0 THEN "leave" ELSE "status1"
  /\ UNCHANGED << kind, asked, to_move, status1, status0, memory, controllerVars >>

Leave ==
  /\ place = "leave" /\ place' = "idle"
  /\ bits' = {}
  /\ UNCHANGED << kind, asked, to_move, status1, status0, error, memory,
                  busy, fifo, job, written, raised, busyCovers >>

-----------------------------------------------------------------------------
(* The controller, as the driver relies on it: it answers or fails, the    *)
(* data ends once the FIFO is empty, and a command in error ends.          *)

Raise(set) == bits' = bits \cup set /\ raised' = raised \cup set

Respond ==
  /\ job.state = "running" /\ kind # "plain" /\ "CMDRESPEND" \notin raised
  /\ Raise({"CMDRESPEND"})
  /\ UNCHANGED << programVars, busy, fifo, job, written, busyCovers >>

Responded == kind = "plain" \/ "CMDRESPEND" \in raised

FifoFills ==
  /\ job.state = "running" /\ kind = "read" /\ Responded
  /\ job.left > 0 /\ fifo = << >>
  /\ fifo' = << (asked % CountLimit) - job.left + 1 >>
  /\ job' = [job EXCEPT !.left = @ - 1]
  /\ UNCHANGED << programVars, busy, bits, written, raised, busyCovers >>

FifoDrains ==
  /\ job.state = "running" /\ kind = "write" /\ Responded
  /\ job.left > 0 /\ fifo # << >>
  /\ written' = written \o fifo /\ fifo' = << >>
  /\ job' = [job EXCEPT !.left = @ - 1]
  /\ UNCHANGED << programVars, busy, bits, raised, busyCovers >>

JobEnds ==
  /\ job.state = "running" /\ Responded
  /\ job.left = 0
  /\ kind = "read" => fifo = << >>
  /\ job' = [job EXCEPT !.state = "ended"]
  /\ Raise(IF Transfer(kind) THEN {"DATAEND"} ELSE {})
  /\ UNCHANGED << programVars, busy, fifo, written, busyCovers >>

(* A timeout, a checksum, an illegal access; the data may end or not.      *)
JobFails ==
  /\ job.state = "running"
  /\ job' = [job EXCEPT !.state = "ended"]
  /\ \E end \in {{}, {"DATAEND"}} : Raise({"GW"} \cup end)
  /\ UNCHANGED << programVars, busy, fifo, written, busyCovers >>

BusyFalls ==
  /\ busy
  /\ job.state = "ended" \/ (~ busyCovers /\ Responded)
  /\ busy' = FALSE
  /\ UNCHANGED << programVars, bits, fifo, job, written, raised, busyCovers >>

-----------------------------------------------------------------------------
CommandProgram ==
  \/ ReadStatus1 \/ MoveData \/ ReadStatus0 \/ ReadRespend \/ Leave
  \/ \E k \in Kinds :
       IF Transfer(k) THEN \E n \in Counts : Issue(k, n) ELSE Issue(k, 0)

Controller ==
  Respond \/ FifoFills \/ FifoDrains \/ JobEnds \/ JobFails \/ BusyFalls

CommandNext == CommandProgram \/ Controller

(* A call in progress goes on, and the controller, whose timers bound each *)
(* of its phases, ends or fails every command.                             *)
Fairness ==
  /\ WF_commandVars(ReadStatus1 \/ MoveData \/ ReadStatus0 \/ ReadRespend \/ Leave)
  /\ WF_commandVars(Controller)

CommandSpec == CommandInit /\ [][CommandNext]_commandVars /\ Fairness

-----------------------------------------------------------------------------
(* Properties.                                                             *)

Over == place = "idle"

(* If busy lasts as long as a command can fail, a command is reported to   *)
(* have failed exactly when it has: no error is missed between the reads   *)
(* of the two registers, and none is left over for the next command.       *)
ErrorsReported == Over /\ busyCovers => (4 \in error <=> "GW" \in raised)

(* A transfer that a register can count and that ends without an error has *)
(* moved all its blocks, in order, wherever busy falls.                    *)
TransferComplete ==
  Over /\ Transfer(kind) /\ raised \cap {"GW"} = {} /\ asked < CountLimit =>
    (IF kind = "read" THEN memory ELSE written) = [i \in 1 .. asked |-> i]

(* Without an error, a command that has a response has it when it ends:    *)
(* what follows uses ret, and the identification loops look at bit 1.      *)
ResponseArrived == Over /\ kind # "plain" /\ 4 \notin error => 1 \in error

(* Every command ends.                                                     *)
CommandEnds == place # "idle" ~> place = "idle"
=============================================================================
