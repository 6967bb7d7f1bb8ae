------------------------------- MODULE Sdmmc -------------------------------
(***************************************************************************)
(* The SD and NAND driver, one command a step: the initialisations of both *)
(* devices, get_cid and transfers, over one controller with one selected   *)
(* port.  SdmmcCommand is the inside of a command; here a command ends     *)
(* with an error or without.  The cards follow the states of the standard, *)
(* of which the comments of sdmmc_get_cid speak; the SD card comes and     *)
(* goes at any time.                                                       *)
(***************************************************************************)
EXTENDS Integers, Sequences

CONSTANTS
  NandSize, Sizes     \* of the NAND, and of SD cards, in sectors

ASSUME SizesAssumption == NandSize \in Nat \ {0} /\ Sizes \subseteq Nat \ {0}

VARIABLES
  port, clock, wide,    \* REG_SDPORTSEL, REG_SDCLKCTL, four data lines
  dev,                  \* handelNAND and handelSD
  card,                 \* the devices themselves
  call,                 \* the driver's function in progress and its next command
  res,                  \* what the last function returned: 0 is TRUE
  sound,                \* history: the initialisation of the device returned 0,
                        \* it was not removed since, and not left unselected
  disturbed             \* history: devices that were removed, or on which a
                        \* command of get_cid failed, since their last
                        \* initialisation began

driverVars == << port, clock, wide, dev, card, call, res, sound, disturbed >>

Devices == {"nand", "sd"}
Idle == call.fn = "none"
NoCall == [fn |-> "none", next |-> 0]

(* clk: 0, 0x80, 1, 0x201.  SDOPT: four lines.                             *)

(* The commands of each function in order; "op_cond" is the loop that ends *)
(* when the card has answered and is ready, "width" CMD6 or ACMD6, and     *)
(* transfer stands for the four functions that move sectors.               *)
Commands ==
  [nand_init |-> << "go_idle", "op_cond", "all_cid", "address", "csd",
                    "select", "width", "speed", "status", "blocklen" >>,
   sd_init   |-> << "go_idle", "if_cond", "op_cond", "all_cid", "address", "csd",
                    "select", "app", "width", "status", "blocklen" >>,
   get_cid   |-> << "deselect", "cid", "select" >>,
   transfer  |-> << "blocks" >>]

(* Mutant: the card may refuse to use four lines.                          *)
StopsNotAtWidth(fn, command) ==
  /\ fn \in {"nand_init", "sd_init"}
  /\ command \notin {"go_idle", "if_cond", "width"}

(* Commands whose error makes the function return at once.                 *)
Stops(fn, command) ==
  /\ fn \in {"nand_init", "sd_init"}
  /\ command \notin {"go_idle", "if_cond"}

NoCard == [state |-> "absent", wide |-> FALSE, hc |-> FALSE, size |-> 0]
NewCard == [state : {"idle"}, wide : {FALSE}, hc : BOOLEAN, size : Sizes]

(* Static data is zero.  The firmware before has used the NAND.            *)
DriverInit ==
  /\ port = "sd" /\ clock = "zero" /\ wide = FALSE
  /\ dev = [d \in Devices |->
       [clk |-> "zero", SDOPT |-> FALSE, isSDHC |-> FALSE, total_size |-> 0]]
  /\ card \in [nand : { [state |-> "transfer", wide |-> TRUE, hc |-> FALSE,
                          size |-> NandSize] },
               sd : NewCard \cup { NoCard }]
  /\ call = NoCall /\ res = TRUE
  /\ sound = [d \in Devices |-> FALSE] /\ disturbed = {}

-----------------------------------------------------------------------------
(* The cards.                                                              *)

(* Whether a card answers a command of the function in progress.  One of   *)
(* high capacity becomes ready only for a host that knows these, after the *)
(* card has answered if_cond.  Data needs as many lines as the card uses,  *)
(* and an address in its unit.                                             *)
Answers(c, command) ==
  CASE command = "go_idle" -> c.state # "absent"
    [] command = "if_cond" -> c.state = "idle"
    [] command = "op_cond" -> c.state \in {"idle", "ready"} /\ (c.hc => ~ call.old)
    [] command = "all_cid" -> c.state = "ready"
    [] command = "address" -> c.state = "ident"
    [] command \in {"csd", "cid", "select"} -> c.state = "standby"
    [] command = "blocks"  -> /\ c.state = "transfer"
                              /\ c.wide = wide /\ c.hc = dev[call.device].isSDHC
    [] OTHER -> c.state = "transfer"

After(c, command) ==
  CASE command = "go_idle"  -> [c EXCEPT !.state = "idle", !.wide = FALSE]
    [] command = "op_cond"  -> [c EXCEPT !.state = "ready"]
    [] command = "all_cid"  -> [c EXCEPT !.state = "ident"]
    [] command = "address"  -> [c EXCEPT !.state = "standby"]
    [] command = "select"   -> [c EXCEPT !.state = "transfer"]
    [] command = "deselect" -> [c EXCEPT !.state = "standby"]
    [] command = "width"    -> [c EXCEPT !.wide = TRUE]
    [] OTHER -> c

(* A command on the selected port: it is done, or it fails, before or      *)
(* after the card has obeyed.                                              *)
Outcomes(command) ==
  LET c == card[port] IN
  { [error |-> TRUE, card |-> c] } \cup
  (IF Answers(c, command)
   THEN [error : BOOLEAN, card : { After(c, command) }] ELSE {})

-----------------------------------------------------------------------------
(* The driver.                                                             *)

(* inittarget.                                                             *)
InitTarget(d, handles) ==
  /\ port' = d /\ clock' = handles[d].clk /\ wide' = handles[d].SDOPT

(* The first lines of Nand_Init and of SD_Init, after InitSD: what that    *)
(* resets is set again by inittarget.  total_size is kept.                 *)
Restarted(d) ==
  [dev EXCEPT ![d] = [clk |-> "slow", SDOPT |-> FALSE, isSDHC |-> FALSE,
                      total_size |-> @.total_size]]

NandInit ==
  /\ Idle
  /\ dev' = Restarted("nand")
  /\ InitTarget("nand", dev')
  /\ call' = [fn |-> "nand_init", device |-> "nand", next |-> 1, old |-> FALSE]
  /\ sound' = [sound EXCEPT !["nand"] = FALSE]
  /\ disturbed' = disturbed \ {"nand"}
  /\ UNCHANGED << card, res >>

SdInit ==
  /\ Idle
  /\ dev' = Restarted("sd")
  /\ InitTarget("sd", dev')
  /\ IF card["sd"].state = "absent"
     THEN call' = NoCall /\ res' = FALSE
     ELSE /\ call' = [fn |-> "sd_init", device |-> "sd", next |-> 1, old |-> FALSE]
          /\ UNCHANGED res
  /\ sound' = [sound EXCEPT !["sd"] = FALSE]
  /\ disturbed' = disturbed \ {"sd"}
  /\ UNCHANGED card

(* sdmmc_get_cid, whose result nobody looks at, and the transfers.         *)
Enter(fn, d) ==
  /\ Idle
  /\ InitTarget(d, dev)
  /\ call' = [fn |-> fn, device |-> d, next |-> 1, old |-> FALSE]
  /\ UNCHANGED << dev, card, res, sound, disturbed >>

-----------------------------------------------------------------------------
(* What a function does with a command that went well.  An old SD card is  *)
(* one that did not answer if_cond.                                        *)

(* calcSDSize.                                                             *)
SizeOf(c) == c.size

Initialising == call.fn \in {"nand_init", "sd_init"}

Learned(command) ==
  LET d == call.device IN
  CASE call.fn = "sd_init" /\ command = "op_cond" ->
         [dev EXCEPT ![d].isSDHC = card[port].hc /\ ~ call.old]
    [] Initialising /\ command = "csd" ->
         [dev EXCEPT ![d] = [@ EXCEPT !.total_size = SizeOf(card[port]), !.clk = "fast"]]
    [] Initialising /\ command = (IF d = "nand" THEN "select" ELSE "app") ->
         [dev EXCEPT ![d].SDOPT = TRUE]
    [] Initialising /\ command = "blocklen" -> [dev EXCEPT ![d].clk = "full"]
    [] OTHER -> dev

Return(r) == call' = NoCall /\ res' = r

(* After the last command.  Nand_Init and transfers of the NAND select the *)
(* SD card again.                                                          *)
Completed(error) ==
  /\ Return(call.fn = "transfer" => ~ error)
  /\ IF call.device = "nand" /\ call.fn \in {"nand_init", "transfer"}
     THEN InitTarget("sd", dev')
     ELSE UNCHANGED << port, clock, wide >>

Proceed(command, error) ==
  /\ call' = [fn |-> call.fn, device |-> call.device, next |-> call.next + 1,
              old |-> call.old \/ (command = "if_cond" /\ error)]
  /\ clock' = IF Initialising /\ command = "csd" THEN "fast" ELSE clock
  /\ UNCHANGED << port, wide, res >>

(* The next command of the function in progress.                           *)
Command ==
  /\ ~ Idle
  /\ LET d == call.device
         command == Commands[call.fn][call.next]
     IN
     \E o \in Outcomes(command) :
       /\ command = "op_cond" => ~ o.error
       /\ card' = [card EXCEPT ![port] = o.card]
       /\ IF o.error /\ Stops(call.fn, command)
          THEN Return(FALSE) /\ UNCHANGED << port, clock, wide, dev >>
          ELSE /\ dev' = Learned(command)
               /\ IF call.next = Len(Commands[call.fn])
                  THEN Completed(o.error) ELSE Proceed(command, o.error)
       /\ sound' = [sound EXCEPT ![d] =
            IF Initialising THEN call' = NoCall /\ res'
            ELSE @ /\ (o.error => command # "select")]
       /\ disturbed' = disturbed \cup
            (IF call.fn = "get_cid" /\ o.error THEN {d} ELSE {})

-----------------------------------------------------------------------------
(* The user.                                                               *)

Remove ==
  /\ card["sd"].state # "absent"
  /\ card' = [card EXCEPT !["sd"] = NoCard]
  /\ sound' = [sound EXCEPT !["sd"] = FALSE]
  /\ disturbed' = disturbed \cup {"sd"}
  /\ UNCHANGED << port, clock, wide, dev, call, res >>

Insert ==
  /\ card["sd"].state = "absent"
  /\ \E c \in NewCard : card' = [card EXCEPT !["sd"] = c]
  /\ UNCHANGED << port, clock, wide, dev, call, res, sound, disturbed >>

-----------------------------------------------------------------------------
(* A device initialised without error can be reached whatever was done     *)
(* with the other since: a transfer finds its own port selected, at full   *)
(* speed, and a card that waits for data on as many lines, addressed in    *)
(* its unit.                                                               *)
TransfersReachCard ==
  call.fn = "transfer" /\ sound[call.device] =>
    /\ port = call.device /\ clock = "full"
    /\ Answers(card[port], "blocks")
    /\ dev[port].total_size = card[port].size
=============================================================================
