---------------------------- MODULE DisksProofs ----------------------------
(***************************************************************************)
(* For cards of any size and any disks of the table: a device initialised  *)
(* without error is reached by every transfer, an initialisation that      *)
(* returns 0 has set up what it was asked for over devices that it has     *)
(* brought up (ReadyInv), and the disk of the SD card has its size.        *)
(* For any numbers of blocks and any width of   *)
(* the block counter: inside a command, what the program polls and what    *)
(* the controller does between two of its accesses fit together.  For any  *)
(* drives on the disks, paths of any length and media: a handle is never   *)
(* used on a volume that was mounted or set up anew since it was opened    *)
(* (MountInv); the tree of every volume stays in order, and a call reaches *)
(* the drive and the file it was asked for (WayInv).                       *)
(***************************************************************************)
EXTENDS Disks, SdmmcCommand, Drives, SequenceTheorems, WellFoundedInduction, TLAPS

-----------------------------------------------------------------------------
(* The driver.                                                             *)

Handles == [clk : {"zero", "slow", "fast", "full"}, SDOPT : BOOLEAN,
            isSDHC : BOOLEAN, total_size : Nat]
Cards == [state : {"absent", "idle", "ready", "ident", "standby", "transfer"},
          wide : BOOLEAN, hc : BOOLEAN, size : Nat]
Functions == {"nand_init", "sd_init", "get_cid", "transfer"}
Calls == [fn : Functions, device : Devices, next : Nat, old : BOOLEAN]

DriverType ==
  /\ port \in Devices /\ wide \in BOOLEAN /\ res \in BOOLEAN
  /\ dev \in [Devices -> Handles]
  /\ card \in [Devices -> Cards]
  /\ sound \in [Devices -> BOOLEAN]
  /\ call = NoCall \/ (call \in Calls /\ call.next \in 1 .. Len(Commands[call.fn]))

(* The function in progress has its port selected, set as its handle says. *)
Selected ==
  /\ ~ Idle => port = call.device
  /\ call.fn = "nand_init" => call.device = "nand"
  /\ call.fn = "sd_init" => call.device = "sd"
  /\ call.fn \in {"get_cid", "transfer"} =>
       clock = dev[call.device].clk /\ wide = dev[call.device].SDOPT

(* The NAND is no card of high capacity, and not taken for one.            *)
NandIsPlain == ~ card["nand"].hc /\ ~ dev["nand"].isSDHC

(* The function in progress has sent this command.                         *)
Past(command) == \E k \in 1 .. call.next - 1 : Commands[call.fn][k] = command

(* A card that has been through op_cond since it was reset or inserted.    *)
Live(c) == c.state \notin {"absent", "idle"}

FourLines(d) == IF d = "nand" THEN "select" ELSE "app"

(* An initialisation under way has learned what it has asked for, unless    *)
(* the card was changed; then no later command is answered.                *)
Progress ==
  Initialising =>
    LET c == card[call.device]
        h == dev[call.device]
    IN  /\ Past("op_cond") /\ Live(c) => h.isSDHC = c.hc
        /\ Past("csd") /\ Live(c) => h.total_size = c.size
        /\ Past("width") /\ Live(c) => c.wide
        /\ Past(FourLines(call.device)) => h.SDOPT

(* A sound device is as its handle says, and waits for data except while   *)
(* get_cid has deselected it.                                              *)
SoundDevices ==
  \A d \in Devices : sound[d] =>
    /\ dev[d].clk = "full" /\ dev[d].SDOPT /\ card[d].wide
    /\ dev[d].isSDHC = card[d].hc /\ dev[d].total_size = card[d].size
    /\ \/ card[d].state = "transfer"
       \/ card[d].state = "standby" /\ call.fn = "get_cid" /\ call.device = d
    /\ ~ (Initialising /\ call.device = d)

DriverInv == DriverType /\ Selected /\ NandIsPlain /\ Progress /\ SoundDevices

(* The steps of the driver that the rest takes part in.                    *)
DriverStep ==
  \/ NandInit \/ SdInit \/ Command \/ Remove \/ Insert
  \/ \E fn \in {"get_cid", "transfer"}, d \in Devices : Enter(fn, d)
  \/ UNCHANGED driverVars

LEMMA CommandsOf ==
  /\ Commands["nand_init"] = << "go_idle", "op_cond", "all_cid", "address", "csd",
                                "select", "width", "speed", "status", "blocklen" >>
  /\ Commands["sd_init"] = << "go_idle", "if_cond", "op_cond", "all_cid", "address",
                              "csd", "select", "app", "width", "status", "blocklen" >>
  /\ Commands["get_cid"] = << "deselect", "cid", "select" >>
  /\ Commands["transfer"] = << "blocks" >>
BY DEF Commands

LEMMA LengthsOf ==
  /\ Len(Commands["nand_init"]) = 10 /\ Len(Commands["sd_init"]) = 11
  /\ Len(Commands["get_cid"]) = 3 /\ Len(Commands["transfer"]) = 1
BY CommandsOf

(* Where the commands of an initialisation stand.                          *)
LEMMA Order ==
  ASSUME DriverType, Selected, Initialising
  PROVE  LET command == Commands[call.fn][call.next]
             ending == call.next = Len(Commands[call.fn])
         IN  /\ command = "op_cond" => ~ Past("csd") /\ ~ Past("width")
             /\ command = "blocklen" <=> ending
             /\ ending => /\ Past("op_cond") /\ Past("csd") /\ Past("width")
                        /\ Past(FourLines(call.device))
<1>1. call.next \in 1 .. Len(Commands[call.fn])
  BY DEF DriverType, Initialising, NoCall
<1>2. CASE call.fn = "nand_init"
  BY <1>1, <1>2, CommandsOf, LengthsOf DEF Past, Selected, FourLines
<1>3. CASE call.fn = "sd_init"
  BY <1>1, <1>3, CommandsOf, LengthsOf DEF Past, Selected, FourLines
<1> QED  BY <1>2, <1>3 DEF Initialising

LEMMA DriverStart == Init => DriverInv
<1> SUFFICES ASSUME Init PROVE DriverInv  OBVIOUS
<1>1. card["nand"] = [state |-> "transfer", wide |-> TRUE, hc |-> FALSE, size |-> NandSize]
      /\ card["sd"] \in NewCard \cup { NoCard }
      /\ card = [d \in Devices |-> card[d]]
  BY DEF Init, DriverInit, Devices
<1>2. card["nand"] \in Cards /\ card["sd"] \in Cards
  <2>1. card["nand"] \in Cards
    BY <1>1, SizesAssumption DEF Cards
  <2>2. NoCard \in Cards
    BY DEF NoCard, Cards
  <2>3. ASSUME NEW c \in NewCard PROVE c \in Cards
    BY <2>3, SizesAssumption DEF NewCard, Cards
  <2> QED  BY <1>1, <2>1, <2>2, <2>3
<1>3. card \in [Devices -> Cards]
  BY <1>1, <1>2 DEF Devices
<1>4. DriverType
  BY <1>3 DEF Init, DriverInit, DriverType, Devices, Handles
<1> QED  BY <1>1, <1>4 DEF Init, DriverInit, DriverInv, Selected, NandIsPlain, Progress,
            SoundDevices, Idle, NoCall, Initialising, Devices

LEMMA FirstCommand ==
  ASSUME NEW f \in Functions, NEW d \in Devices,
         NEW c, c = [fn |-> f, device |-> d, next |-> 1, old |-> FALSE]
  PROVE  c \in Calls /\ c.next \in 1 .. Len(Commands[c.fn])
<1>1. PICK n \in {10, 11, 3, 1} : Len(Commands[f]) = n
  BY LengthsOf DEF Functions
<1>2. c \in Calls
  BY DEF Calls
<1>3. c.fn = f /\ c.next = 1
  OBVIOUS
<1>4. 1 \in 1 .. n
  OBVIOUS
<1> QED  BY <1>1, <1>2, <1>3, <1>4

LEMMA InitialisesNand == DriverInv /\ NandInit => DriverInv'
<1> SUFFICES ASSUME DriverInv, NandInit PROVE DriverInv'  OBVIOUS
<1> DEFINE h == [clk |-> "slow", SDOPT |-> FALSE, isSDHC |-> FALSE,
                 total_size |-> dev["nand"].total_size]
<1>1. dev' = [dev EXCEPT !["nand"] = h] /\ card' = card /\ res' = res
  BY DEF NandInit, Restarted
<1>2. dev' \in [Devices -> Handles] /\ dev'["nand"] = h /\ dev'["sd"] = dev["sd"]
  BY <1>1 DEF DriverInv, DriverType, Handles, Devices
<1>3. /\ call' = [fn |-> "nand_init", device |-> "nand", next |-> 1, old |-> FALSE]
      /\ port' = "nand" /\ wide' = FALSE
  BY <1>2 DEF NandInit, InitTarget
<1>4. /\ sound' \in [Devices -> BOOLEAN]
      /\ ~ sound'["nand"] /\ sound'["sd"] = sound["sd"]
  BY DEF NandInit, DriverInv, DriverType, Devices
<1>5. call' \in Calls /\ call'.next \in 1 .. Len(Commands[call'.fn])
  BY <1>3, FirstCommand DEF Functions, Devices
<1>6. DriverType'
  BY <1>1, <1>2, <1>3, <1>4, <1>5 DEF DriverInv, DriverType, Devices
<1>7. \A x : ~ Past(x)'
  BY <1>3 DEF Past
<1>8. SoundDevices'
  BY <1>1, <1>2, <1>3, <1>4 DEF DriverInv, SoundDevices, Devices, Initialising, NandInit, Idle
<1>9. Selected' /\ NandIsPlain'
  BY <1>1, <1>2, <1>3 DEF DriverInv, Selected, NandIsPlain
<1>10. Progress'
  BY <1>7 DEF Progress
<1> QED  BY <1>6, <1>8, <1>9, <1>10 DEF DriverInv

LEMMA InitialisesSd == DriverInv /\ SdInit => DriverInv'
<1> SUFFICES ASSUME DriverInv, SdInit PROVE DriverInv'  OBVIOUS
<1> DEFINE h == [clk |-> "slow", SDOPT |-> FALSE, isSDHC |-> FALSE,
                 total_size |-> dev["sd"].total_size]
<1>1. dev' = [dev EXCEPT !["sd"] = h] /\ card' = card
  BY DEF SdInit, Restarted
<1>2. dev' \in [Devices -> Handles] /\ dev'["sd"] = h /\ dev'["nand"] = dev["nand"]
  BY <1>1 DEF DriverInv, DriverType, Handles, Devices
<1>3. port' = "sd" /\ wide' = FALSE
  BY <1>2 DEF SdInit, InitTarget
<1>4. \/ call' = NoCall /\ res' = FALSE
      \/ call' = [fn |-> "sd_init", device |-> "sd", next |-> 1, old |-> FALSE] /\ res' = res
  BY DEF SdInit
<1>5. /\ sound' \in [Devices -> BOOLEAN]
      /\ ~ sound'["sd"] /\ sound'["nand"] = sound["nand"]
  BY DEF SdInit, DriverInv, DriverType, Devices
<1>6. call' = NoCall \/ (call' \in Calls /\ call'.next \in 1 .. Len(Commands[call'.fn]))
  BY <1>4, FirstCommand DEF Functions, Devices
<1>7. DriverType'
  BY <1>1, <1>2, <1>3, <1>4, <1>5, <1>6 DEF DriverInv, DriverType, Devices
<1>8. Initialising' => \A x : ~ Past(x)'
  BY <1>4 DEF Past, Initialising, NoCall
<1>9. SoundDevices'
  BY <1>1, <1>2, <1>4, <1>5 DEF DriverInv, SoundDevices, Devices, Initialising, SdInit, Idle, NoCall
<1>10. Selected' /\ NandIsPlain'
  <2>1. NandIsPlain'
    BY <1>1, <1>2 DEF DriverInv, NandIsPlain
  <2>2. CASE call' = NoCall
    <3>1. call'.fn = "none"
      BY <2>2 DEF NoCall
    <3> QED  BY <2>1, <3>1 DEF Selected, Idle
  <2>3. CASE call' = [fn |-> "sd_init", device |-> "sd", next |-> 1, old |-> FALSE]
    <3>1. call'.fn = "sd_init" /\ call'.device = "sd"
      BY <2>3
    <3> QED  BY <1>3, <2>1, <3>1 DEF Selected
  <2> QED  BY <1>4, <2>1, <2>2, <2>3
<1>11. Progress'
  BY <1>8 DEF Progress
<1> QED  BY <1>7, <1>9, <1>10, <1>11 DEF DriverInv

LEMMA Enters ==
  ASSUME DriverInv, NEW fn \in {"get_cid", "transfer"}, NEW d \in Devices, Enter(fn, d)
  PROVE  DriverInv'
<1>1. call' = [fn |-> fn, device |-> d, next |-> 1, old |-> FALSE]
  BY DEF Enter
<1>2. port' = d /\ clock' = dev[d].clk /\ wide' = dev[d].SDOPT
      /\ UNCHANGED << dev, card, res, sound >>
  BY DEF Enter, InitTarget
<1>3. call' \in Calls /\ call'.next \in 1 .. Len(Commands[call'.fn])
  BY <1>1, FirstCommand DEF Functions
<1>4. wide' \in BOOLEAN
  BY <1>2 DEF DriverInv, DriverType, Handles
<1>5. DriverType'
  BY <1>2, <1>3, <1>4 DEF DriverInv, DriverType
<1>6. Selected' /\ NandIsPlain' /\ Progress'
  BY <1>1, <1>2 DEF DriverInv, Selected, NandIsPlain, Progress, Initialising
<1>7. SoundDevices'
  BY <1>1, <1>2 DEF DriverInv, SoundDevices, Initialising, Enter, Idle
<1> QED  BY <1>5, <1>6, <1>7 DEF DriverInv

(* A card that comes or goes is not live, and its device not sound.        *)
LEMMA CardChanges == DriverInv /\ (Remove \/ Insert) => DriverInv'
<1> SUFFICES ASSUME DriverInv, Remove \/ Insert PROVE DriverInv'  OBVIOUS
<1>1. PICK c \in Cards : card' = [card EXCEPT !["sd"] = c] /\ ~ Live(c)
  <2>1. NoCard \in Cards /\ ~ Live(NoCard)
    BY DEF NoCard, Cards, Live
  <2>2. \A c \in NewCard : c \in Cards /\ ~ Live(c)
    BY SizesAssumption DEF NewCard, Cards, Live
  <2> QED  BY <2>1, <2>2 DEF Remove, Insert
<1>2. card' \in [Devices -> Cards] /\ card'["sd"] = c /\ card'["nand"] = card["nand"]
  BY <1>1 DEF DriverInv, DriverType, Devices
<1>3. sound' \in [Devices -> BOOLEAN] /\ ~ sound'["sd"] /\ sound'["nand"] = sound["nand"]
  <2>1. card["sd"].state = "absent" => ~ sound["sd"]
    BY DEF DriverInv, SoundDevices, Devices
  <2> QED  BY <2>1 DEF Remove, Insert, DriverInv, DriverType, Devices
<1>4. UNCHANGED << port, clock, wide, dev, call, res >>
  BY DEF Remove, Insert
<1>5. DriverType'
  BY <1>2, <1>3, <1>4 DEF DriverInv, DriverType
<1>6. Selected' /\ NandIsPlain'
  BY <1>2, <1>4 DEF DriverInv, Selected, NandIsPlain, Idle
<1>7. SoundDevices'
  BY <1>2, <1>3, <1>4 DEF DriverInv, SoundDevices, Devices, Initialising
<1>8. Progress'
  BY <1>1, <1>2, <1>4 DEF DriverInv, DriverType, Progress, Past, Initialising,
                            Devices, Calls, NoCall
<1> QED  BY <1>5, <1>6, <1>7, <1>8 DEF DriverInv

(* What a command may do to the card.                                      *)
LEMMA CardAfter ==
  ASSUME DriverInv, NEW command, NEW o \in Outcomes(command)
  PROVE  LET c == card[port] IN
         /\ o.error \in BOOLEAN /\ o.card \in Cards
         /\ o.card.hc = c.hc /\ o.card.size = c.size
         /\ ~ o.error => Answers(c, command) /\ o.card = After(c, command)
         /\ Live(o.card) => Live(c) \/ command = "op_cond"
         /\ Live(o.card) /\ c.wide => o.card.wide
         /\ o.card.state # c.state =>
              Answers(c, command) /\ o.card.state = After(c, command).state
<1> DEFINE c == card[port]
<1>1. c \in Cards
  BY DEF DriverInv, DriverType
<1>2. \/ o = [error |-> TRUE, card |-> c]
      \/ Answers(c, command) /\ o.error \in BOOLEAN /\ o.card = After(c, command)
  BY DEF Outcomes
<1>3. /\ After(c, command) \in Cards
      /\ After(c, command).hc = c.hc /\ After(c, command).size = c.size
      /\ c.wide => After(c, command).wide \/ After(c, command).state = "idle"
      /\ After(c, command).state = c.state \/ command \in
           {"go_idle", "op_cond", "all_cid", "address", "select", "deselect"}
  BY <1>1 DEF After, Cards
<1>4. Answers(c, command) /\ Live(After(c, command)) => Live(c) \/ command = "op_cond"
  BY <1>1 DEF After, Cards, Live, Answers
<1>5. /\ o.error \in BOOLEAN
      /\ o.card = c \/ (Answers(c, command) /\ o.card = After(c, command))
      /\ ~ o.error => Answers(c, command) /\ o.card = After(c, command)
  <2>1. CASE o = [error |-> TRUE, card |-> c]
    <3>1. o.error = TRUE /\ o.card = c
      BY <2>1
    <3> QED  BY <3>1
  <2> QED  BY <1>2, <2>1
<1>7. Live(o.card) => o.card.state # "idle"
  BY DEF Live
<1> HIDE DEF c
<1>8. /\ o.card \in Cards /\ o.card.hc = c.hc /\ o.card.size = c.size
      /\ Live(o.card) => Live(c) \/ command = "op_cond"
      /\ Live(o.card) /\ c.wide => o.card.wide
      /\ o.card.state # c.state =>
           Answers(c, command) /\ o.card.state = After(c, command).state
  BY <1>1, <1>3, <1>4, <1>5, <1>7
<1> QED  BY <1>5, <1>8 DEF c

(* What a command that went well teaches an initialisation.                *)
LEMMA LearnedBy ==
  ASSUME DriverInv, ~ Idle, NEW command, dev' = Learned(command)
  PROVE  LET d == call.device IN
         /\ dev' \in [Devices -> Handles]
         /\ \A e \in Devices : e # d => dev'[e] = dev[e]
         /\ ~ Initialising => dev' = dev
         /\ Initialising =>
              /\ dev'[d].isSDHC = IF call.fn = "sd_init" /\ command = "op_cond"
                                  THEN card[port].hc /\ ~ call.old ELSE dev[d].isSDHC
              /\ dev'[d].total_size = IF command = "csd" THEN card[port].size
                                      ELSE dev[d].total_size
              /\ dev'[d].SDOPT = (dev[d].SDOPT \/ command = FourLines(d))
              /\ command = "blocklen" => dev'[d].clk = "full"
<1> DEFINE d == call.device
<1>1. call \in Calls /\ d \in Devices /\ dev[d] \in Handles /\ card[port] \in Cards
  BY DEF DriverInv, DriverType, Idle, NoCall, Calls
<1>2. CASE call.fn = "sd_init" /\ command = "op_cond"
  BY <1>1, <1>2 DEF DriverInv, DriverType, Selected, Learned, Handles,
                       Cards, Calls, FourLines, Initialising
<1>3. CASE Initialising /\ command = "csd"
  BY <1>1, <1>3 DEF DriverInv, DriverType, Selected, Learned, Handles,
                       Cards, Calls, FourLines, Initialising, SizeOf
<1>4. CASE Initialising /\ command = FourLines(d)
  BY <1>1, <1>4 DEF DriverInv, DriverType, Selected, Learned, Handles,
                       Cards, Calls, FourLines, Initialising
<1>5. CASE Initialising /\ command = "blocklen"
  BY <1>1, <1>5 DEF DriverInv, DriverType, Selected, Learned, Handles,
                       Cards, Calls, FourLines, Initialising
<1>6. CASE /\ ~ (call.fn = "sd_init" /\ command = "op_cond")
           /\ ~ (Initialising /\ command \in {"csd", FourLines(d), "blocklen"})
  <2>1. dev' = dev
    BY <1>6 DEF Learned, FourLines, Initialising
  <2>2. dev[d].SDOPT \in BOOLEAN
    BY <1>1 DEF Handles
  <2> QED  BY <1>6, <2>1, <2>2 DEF DriverInv, DriverType
<1> QED  BY <1>2, <1>3, <1>4, <1>5, <1>6

LEMMA CommandKeeps == DriverInv /\ Command => DriverInv'
<1> SUFFICES ASSUME DriverInv, Command PROVE DriverInv'  OBVIOUS
<1> DEFINE d == call.device
           command == Commands[call.fn][call.next]
           ending == call.next = Len(Commands[call.fn])
<1>1. ~ Idle /\ call \in Calls /\ d \in Devices /\ port = d
      /\ call.next \in 1 .. Len(Commands[call.fn])
  BY DEF Command, DriverInv, DriverType, Selected, Idle, NoCall, Calls
<1>2. PICK o \in Outcomes(command) :
        /\ command = "op_cond" => ~ o.error
        /\ card' = [card EXCEPT ![port] = o.card]
        /\ IF o.error /\ Stops(call.fn, command)
           THEN Return(FALSE) /\ UNCHANGED << port, clock, wide, dev >>
           ELSE /\ dev' = Learned(command)
                /\ IF ending THEN Completed(o.error) ELSE Proceed(command, o.error)
        /\ sound' = [sound EXCEPT ![d] =
             IF Initialising THEN call' = NoCall /\ res'
             ELSE @ /\ (o.error => command # "select")]
  BY DEF Command
<1>3. /\ o.error \in BOOLEAN /\ o.card \in Cards
      /\ o.card.hc = card[d].hc /\ o.card.size = card[d].size
      /\ ~ o.error => Answers(card[d], command) /\ o.card = After(card[d], command)
      /\ Live(o.card) => Live(card[d]) \/ command = "op_cond"
      /\ Live(o.card) /\ card[d].wide => o.card.wide
      /\ o.card.state # card[d].state =>
           Answers(card[d], command) /\ o.card.state = After(card[d], command).state
  BY <1>1, CardAfter
<1>4. /\ card' \in [Devices -> Cards] /\ card'[d] = o.card
      /\ \A e \in Devices : e # d => card'[e] = card[e]
  BY <1>1, <1>2, <1>3 DEF DriverInv, DriverType
<1>5. /\ sound' \in [Devices -> BOOLEAN]
      /\ \A e \in Devices : e # d => sound'[e] = sound[e]
      /\ Initialising => sound'[d] = (call' = NoCall /\ res')
      /\ ~ Initialising => sound'[d] = (sound[d] /\ (o.error => command # "select"))
  <2>1. sound \in [Devices -> BOOLEAN]
    BY DEF DriverInv, DriverType
  <2>2. CASE Initialising
    BY <1>1, <1>2, <2>1, <2>2
  <2>3. CASE ~ Initialising
    BY <1>1, <1>2, <2>1, <2>3
  <2> QED  BY <2>2, <2>3
<1>6. card'["nand"].hc = card["nand"].hc
  BY <1>1, <1>3, <1>4 DEF Devices
<1>7. CASE o.error /\ Stops(call.fn, command)
  <2>1. Initialising /\ call' = NoCall /\ res' = FALSE /\ UNCHANGED << port, clock, wide, dev >>
    BY <1>2, <1>7 DEF Stops, Initialising, Return
  <2>2. call'.fn = "none" /\ ~ sound'[d]
    BY <1>5, <2>1 DEF NoCall
  <2>3. DriverType'
    BY <1>4, <1>5, <2>1 DEF DriverInv, DriverType
  <2>4. Selected' /\ Progress'
    BY <2>2 DEF Selected, Progress, Initialising, Idle
  <2>5. NandIsPlain'
    BY <1>6, <2>1 DEF DriverInv, NandIsPlain
  <2>6. SoundDevices'
    BY <1>4, <1>5, <2>1, <2>2 DEF DriverInv, SoundDevices, Initialising
  <2> QED  BY <2>3, <2>4, <2>5, <2>6 DEF DriverInv
<1>8. ASSUME ~ (o.error /\ Stops(call.fn, command))
      PROVE  /\ dev' = Learned(command)
             /\ dev' \in [Devices -> Handles] /\ NandIsPlain'
             /\ \A e \in Devices : e # d => dev'[e] = dev[e]
             /\ ~ Initialising => dev' = dev
             /\ Initialising =>
                  /\ dev'[d].isSDHC = IF call.fn = "sd_init" /\ command = "op_cond"
                                      THEN card[d].hc /\ ~ call.old ELSE dev[d].isSDHC
                  /\ dev'[d].total_size = IF command = "csd" THEN card[d].size
                                          ELSE dev[d].total_size
                  /\ dev'[d].SDOPT = (dev[d].SDOPT \/ command = FourLines(d))
                  /\ command = "blocklen" => dev'[d].clk = "full"
  <2>1. dev' = Learned(command)
    BY <1>2, <1>8
  <2> HIDE DEF command
  <2>2. /\ dev' \in [Devices -> Handles]
        /\ \A e \in Devices : e # d => dev'[e] = dev[e]
        /\ ~ Initialising => dev' = dev
        /\ Initialising =>
             /\ dev'[d].isSDHC = IF call.fn = "sd_init" /\ command = "op_cond"
                                 THEN card[d].hc /\ ~ call.old ELSE dev[d].isSDHC
             /\ dev'[d].total_size = IF command = "csd" THEN card[d].size
                                     ELSE dev[d].total_size
             /\ dev'[d].SDOPT = (dev[d].SDOPT \/ command = FourLines(d))
             /\ command = "blocklen" => dev'[d].clk = "full"
    BY <1>1, <2>1, LearnedBy
  <2>3. dev'["nand"].isSDHC = dev["nand"].isSDHC
    BY <1>1, <2>2 DEF DriverInv, Selected, Devices, Initialising
  <2>4. NandIsPlain'
    BY <1>6, <2>3 DEF DriverInv, NandIsPlain
  <2> QED  BY <2>1, <2>2, <2>4
<1>9. CASE ~ (o.error /\ Stops(call.fn, command)) /\ ending
  <2>1. /\ call' = NoCall /\ res' = (call.fn = "transfer" => ~ o.error)
        /\ port' \in Devices /\ wide' \in BOOLEAN
    BY <1>1, <1>2, <1>8, <1>9
      DEF Completed, Return, InitTarget, DriverInv, DriverType, Devices, Handles
  <2>2. call'.fn = "none"
    BY <2>1 DEF NoCall
  <2>3. DriverType'
    BY <1>4, <1>5, <1>8, <1>9, <2>1 DEF DriverType
  <2>4. Selected' /\ Progress'
    BY <2>2 DEF Selected, Progress, Initialising, Idle
  <2>5. ASSUME NEW e \in Devices, e # d, sound'[e]
        PROVE  /\ dev'[e].clk = "full" /\ dev'[e].SDOPT /\ card'[e].wide
               /\ dev'[e].isSDHC = card'[e].hc /\ dev'[e].total_size = card'[e].size
               /\ card'[e].state = "transfer"
    BY <1>4, <1>5, <1>8, <1>9, <2>5 DEF DriverInv, SoundDevices
  <2>6. ASSUME Initialising
        PROVE  /\ dev'[d].clk = "full" /\ dev'[d].SDOPT /\ card'[d].wide
               /\ dev'[d].isSDHC = card'[d].hc /\ dev'[d].total_size = card'[d].size
               /\ card'[d].state = "transfer"
    <3>1. /\ command = "blocklen"
          /\ Past("op_cond") /\ Past("csd") /\ Past("width") /\ Past(FourLines(d))
      BY <1>9, <2>6, Order DEF DriverInv
    <3>2. ~ o.error
      BY <1>3, <1>9, <2>6, <3>1 DEF Stops, Initialising
    <3>3. card[d].state = "transfer" /\ o.card = card[d]
      BY <1>3, <3>1, <3>2 DEF Answers, After
    <3>4. Live(card[d])
      BY <3>3 DEF Live
    <3>5. /\ dev[d].isSDHC = card[d].hc /\ dev[d].total_size = card[d].size
          /\ card[d].wide /\ dev[d].SDOPT
      BY <2>6, <3>1, <3>4, SMTT(60) DEF DriverInv, Progress
    <3> QED  BY <1>4, <1>8, <1>9, <2>6, <3>1, <3>3, <3>5, ZenonT(60)
  <2>7. ASSUME ~ Initialising, sound'[d]
        PROVE  /\ dev'[d].clk = "full" /\ dev'[d].SDOPT /\ card'[d].wide
               /\ dev'[d].isSDHC = card'[d].hc /\ dev'[d].total_size = card'[d].size
               /\ card'[d].state = "transfer"
    <3>1. command \in {"select", "blocks"} /\ (command = "blocks" => call.fn = "transfer")
      <4>1. call.fn \in {"get_cid", "transfer"}
        BY <1>1, <2>7 DEF Initialising, Calls, Functions
      <4>2. CASE call.fn = "get_cid"
        <5>1. call.next = 3
          BY <1>9, <4>2, LengthsOf
        <5> QED  BY <4>2, <5>1, CommandsOf
      <4>3. CASE call.fn = "transfer"
        <5>1. call.next = 1
          BY <1>9, <4>3, LengthsOf
        <5> QED  BY <4>3, <5>1, CommandsOf
      <4> QED  BY <4>1, <4>2, <4>3
    <3>2. sound[d] /\ (command = "select" => ~ o.error)
      BY <1>5, <2>7, <1>3
    <3>3. o.card.state = "transfer"
      <4>1. CASE command = "select"
        BY <1>3, <3>2, <4>1, <1>1 DEF After, Answers, DriverInv, DriverType, Cards
      <4>2. CASE command = "blocks"
        <5>1. card[d].state = "transfer"
          BY <1>1, <3>1, <3>2, <4>2 DEF DriverInv, SoundDevices
        <5> QED  BY <1>3, <4>2, <5>1 DEF After
      <4> QED  BY <3>1, <4>1, <4>2
    <3>4. o.card.wide
      BY <1>1, <1>3, <3>2, <3>3 DEF DriverInv, SoundDevices, Live
    <3> QED  BY <1>1, <1>3, <1>4, <1>8, <1>9, <2>7, <3>2, <3>3, <3>4 DEF DriverInv, SoundDevices
  <2>8. SoundDevices'
    BY <2>2, <2>5, <2>6, <2>7, <1>5 DEF SoundDevices, Initialising
  <2> QED  BY <1>8, <1>9, <2>3, <2>4, <2>8 DEF DriverInv
<1>10. CASE ~ (o.error /\ Stops(call.fn, command)) /\ ~ ending
  <2>1. /\ call' = [fn |-> call.fn, device |-> d, next |-> call.next + 1,
                    old |-> call.old \/ (command = "if_cond" /\ o.error)]
        /\ clock' = IF Initialising /\ command = "csd" THEN "fast" ELSE clock
        /\ UNCHANGED << port, wide, res >>
    BY <1>2, <1>10 DEF Proceed
  <2>2. /\ call'.fn = call.fn /\ call'.device = d /\ call'.next = call.next + 1
        /\ call' \in Calls /\ call'.next \in 1 .. Len(Commands[call'.fn])
    <3>1. Len(Commands[call.fn]) \in Nat /\ call.next \in Nat
      BY <1>1, LengthsOf DEF Calls, Functions
    <3>2. call.next + 1 \in 1 .. Len(Commands[call.fn])
      BY <1>1, <1>10, <3>1
    <3>3. call'.fn = call.fn /\ call'.device = d /\ call'.next = call.next + 1
      BY <1>1, <2>1 DEF Calls
    <3>4. call' \in Calls
      <4> DEFINE old == call.old \/ (command = "if_cond" /\ o.error)
      <4>1. old \in BOOLEAN
        BY <1>1, <1>3 DEF Calls
      <4>2. call' = [fn |-> call.fn, device |-> d, next |-> call.next + 1, old |-> old]
        BY <2>1
      <4> HIDE DEF old
      <4> QED  BY <1>1, <3>1, <4>1, <4>2 DEF Calls
    <3> QED  BY <3>2, <3>3, <3>4
  <2>3. Idle' = Idle /\ Initialising' = Initialising
    BY <2>2 DEF Idle, Initialising
  <2>4. \A x : Past(x)' <=> Past(x) \/ x = command
    BY <1>1, <2>2, SMTT(60) DEF Past, Calls
  <2>5. DriverType'
    BY <1>4, <1>5, <1>8, <1>10, <2>1, <2>2, SMTT(60) DEF DriverInv, DriverType
  <2>6. Selected'
    BY <1>1, <1>8, <1>10, <2>1, <2>2, <2>3 DEF DriverInv, Selected, Initialising
  <2>7. SoundDevices'
    <3>1. ASSUME NEW e \in Devices, e # d, sound'[e]
          PROVE  /\ dev'[e].clk = "full" /\ dev'[e].SDOPT /\ card'[e].wide
                 /\ dev'[e].isSDHC = card'[e].hc /\ dev'[e].total_size = card'[e].size
                 /\ card'[e].state = "transfer"
      BY <1>4, <1>5, <1>8, <1>10, <3>1 DEF DriverInv, SoundDevices
    <3>2. ASSUME sound'[d]
          PROVE  ~ Initialising /\ sound[d]
      <4>1. call' # NoCall
        BY <2>2, <1>1 DEF NoCall, Idle
      <4> QED  BY <1>5, <3>2, <4>1
    <3>3. ASSUME sound'[d]
          PROVE  /\ call.fn = "get_cid" /\ command \in {"deselect", "cid"}
      <4>1. call.fn \in {"get_cid", "transfer"} /\ call.next \in Nat
        BY <1>1, <3>2, <3>3 DEF Initialising, Calls, Functions
      <4>2. CASE call.fn = "get_cid"
        <5>1. call.next \in {1, 2}
          BY <1>1, <1>10, <4>1, <4>2, LengthsOf
        <5> QED  BY <4>2, <5>1, CommandsOf
      <4>3. CASE call.fn = "transfer"
        BY <1>1, <1>10, <4>1, <4>3, LengthsOf
      <4> QED  BY <4>1, <4>2, <4>3
    <3>4. ASSUME sound'[d]
          PROVE  o.card.state \in {"transfer", "standby"} /\ o.card.wide
      <4>1. card[d].state \in {"transfer", "standby"} /\ card[d].wide
        BY <1>1, <3>2, <3>4 DEF DriverInv, SoundDevices
      <4>2. After(card[d], command).state \in {"transfer", "standby"}
        BY <3>3, <3>4, <4>1, <1>1 DEF After, DriverInv, DriverType, Cards
      <4> QED  BY <1>3, <4>1, <4>2 DEF Live
    <3>5. ASSUME sound'[d]
          PROVE  /\ dev'[d].clk = "full" /\ dev'[d].SDOPT /\ card'[d].wide
                 /\ dev'[d].isSDHC = card'[d].hc /\ dev'[d].total_size = card'[d].size
                 /\ card'[d].state \in {"transfer", "standby"}
                 /\ call'.fn = "get_cid" /\ call'.device = d
      <4>1. ~ Initialising /\ sound[d] /\ call.fn = "get_cid"
        BY <3>2, <3>3, <3>5
      <4>2. dev[d].clk = "full" /\ dev[d].SDOPT
            /\ dev[d].isSDHC = card[d].hc /\ dev[d].total_size = card[d].size
        BY <1>1, <4>1 DEF DriverInv, SoundDevices
      <4> QED  BY <1>3, <1>4, <1>8, <1>10, <2>2, <3>4, <3>5, <4>1, <4>2
    <3>6. ASSUME sound'[d] PROVE ~ Initialising'
      BY <2>3, <3>2, <3>6
    <3>7. \A e \in Devices : e # d => ~ (Initialising' /\ call'.device = e)
      BY <2>2
    <3> QED  BY <3>1, <3>5, <3>6, <3>7, SMTT(60) DEF SoundDevices
  <2>8. Progress'
    <3> SUFFICES ASSUME Initialising
                 PROVE  /\ Past("op_cond")' /\ Live(card'[d]) => dev'[d].isSDHC = card'[d].hc
                        /\ Past("csd")' /\ Live(card'[d]) => dev'[d].total_size = card'[d].size
                        /\ Past("width")' /\ Live(card'[d]) => card'[d].wide
                        /\ Past(FourLines(d))' => dev'[d].SDOPT
      BY <2>2, <2>3 DEF Progress, FourLines
    <3>1. command = "op_cond" => ~ Past("csd") /\ ~ Past("width")
      BY Order DEF DriverInv
    <3>2. card[d].hc \in BOOLEAN /\ call.old \in BOOLEAN
      BY <1>1 DEF DriverInv, DriverType, Cards, Calls
    <3>3. ASSUME Past("op_cond")', Live(card'[d]) PROVE dev'[d].isSDHC = card'[d].hc
      <4>1. CASE command = "op_cond"
        <5>1. ~ o.error
          BY <1>2, <4>1
        <5>2. card[d].hc => ~ call.old
          BY <1>3, <4>1, <5>1 DEF Answers
        <5>3. CASE call.fn = "sd_init"
          BY <1>1, <1>3, <1>4, <1>8, <1>10, <3>2, <4>1, <5>2, <5>3
        <5>4. CASE call.fn = "nand_init"
          <6>1. d = "nand" /\ ~ card'["nand"].hc /\ ~ dev'["nand"].isSDHC
            BY <1>8, <1>10, <5>4, SMTT(60) DEF DriverInv, NandIsPlain, Selected
          <6>2. card'[d].hc \in BOOLEAN /\ dev'[d].isSDHC \in BOOLEAN
            BY <1>1, <1>4, <1>8, <1>10, SMTT(60) DEF Cards, Handles
          <6> QED  BY <6>1, <6>2
        <5> QED  BY <5>3, <5>4 DEF Initialising
      <4>2. CASE command # "op_cond"
        <5>1. Past("op_cond") /\ Live(card[d])
          BY <1>3, <1>4, <1>1, <2>4, <3>3, <4>2
        <5> QED  BY <1>1, <1>3, <1>4, <1>8, <1>10, <4>2, <5>1 DEF DriverInv, Progress
      <4> QED  BY <4>1, <4>2
    <3>4. ASSUME Past("csd")', Live(card'[d]) PROVE dev'[d].total_size = card'[d].size
      <4>1. CASE command = "csd"
        BY <1>3, <1>4, <1>8, <1>10, <1>1, <4>1, SMTT(60)
      <4>2. CASE command # "csd"
        <5>1. Past("csd") /\ Live(card[d])
          BY <1>3, <1>4, <1>1, <2>4, <3>1, <3>4, <4>2
        <5> QED  BY <1>1, <1>3, <1>4, <1>8, <1>10, <4>2, <5>1 DEF DriverInv, Progress
      <4> QED  BY <4>1, <4>2
    <3>5. ASSUME Past("width")', Live(card'[d]) PROVE card'[d].wide
      <4>1. CASE command = "width"
        <5>1. ~ o.error
          BY <1>3, <1>10, <4>1 DEF Stops, Initialising
        <5> QED  BY <1>1, <1>3, <1>4, <4>1, <5>1 DEF After, DriverInv, DriverType, Cards
      <4>2. CASE command # "width"
        <5>1. Past("width") /\ Live(card[d])
          BY <1>3, <1>4, <1>1, <2>4, <3>1, <3>5, <4>2
        <5> QED  BY <1>1, <1>3, <1>4, <5>1, <3>5 DEF DriverInv, Progress
      <4> QED  BY <4>1, <4>2
    <3>6. ASSUME Past(FourLines(d))' PROVE dev'[d].SDOPT
      <4>1. Past(FourLines(d)) \/ command = FourLines(d)
        BY <2>2, <2>4, <3>6
      <4>2. dev'[d].SDOPT = (dev[d].SDOPT \/ command = FourLines(d))
        BY <1>8, <1>10
      <4> QED  BY <4>1, <4>2 DEF DriverInv, Progress
    <3> QED  BY <3>3, <3>4, <3>5, <3>6
  <2> QED  BY <1>8, <1>10, <2>5, <2>6, <2>7, <2>8 DEF DriverInv
<1> QED  BY <1>7, <1>9, <1>10

(* A command of another function leaves the SD card's handle alone.        *)
LEMMA CommandOfOthers ==
  ASSUME DriverInv, Command
  PROVE  /\ call'.fn \in {"none", call.fn}
         /\ call.fn # "sd_init" =>
              dev'["sd"] = dev["sd"] /\ (sound'["sd"] => sound["sd"])
<1> DEFINE command == Commands[call.fn][call.next]
<1>1. ~ Idle /\ call \in Calls
  BY DEF Command, DriverInv, DriverType, Idle, NoCall
<1>2. PICK o \in Outcomes(command) :
        /\ IF o.error /\ Stops(call.fn, command)
           THEN Return(FALSE) /\ UNCHANGED << port, clock, wide, dev >>
           ELSE /\ dev' = Learned(command)
                /\ Completed(o.error) \/ Proceed(command, o.error)
        /\ sound' = [sound EXCEPT ![call.device] =
             IF Initialising THEN call' = NoCall /\ res'
             ELSE @ /\ (o.error => command # "select")]
  BY DEF Command
<1>3. call'.fn \in {"none", call.fn}
  BY <1>2 DEF Return, Completed, Proceed, NoCall
<1>4. ASSUME call.fn # "sd_init" PROVE dev'["sd"] = dev["sd"]
  <2>1. CASE dev' = dev
    BY <2>1
  <2>2. CASE dev' = Learned(command)
    <3> HIDE DEF command
    <3>1. /\ \A e \in Devices : e # call.device => dev'[e] = dev[e]
          /\ ~ Initialising => dev' = dev
      BY <1>1, <2>2, LearnedBy
    <3>2. Initialising => call.device = "nand"
      BY <1>4 DEF Initialising, DriverInv, Selected
    <3> QED  BY <3>1, <3>2 DEF Devices
  <2> QED  BY <1>2, <2>1, <2>2
<1>5. ASSUME call.fn # "sd_init", sound'["sd"] PROVE sound["sd"]
  <2>1. CASE Initialising
    <3>1. call.device = "nand"
      BY <1>5, <2>1 DEF Initialising, DriverInv, Selected
    <3> QED  BY <1>2, <1>5, <3>1 DEF DriverInv, DriverType, Devices
  <2>2. CASE ~ Initialising
    BY <1>1, <1>2, <1>5, <2>2 DEF DriverInv, DriverType, Devices
  <2> QED  BY <2>1, <2>2
<1> QED  BY <1>3, <1>4, <1>5

(* A device stays sound, or is marked as disturbed, until it is            *)
(* initialised again.                                                      *)
Retained(d) == sound[d] \/ d \in disturbed

InitOf(d) == IF d = "nand" THEN "nand_init" ELSE "sd_init"

LEMMA StaysRetained ==
  ASSUME DriverInv, Command \/ Remove \/ Insert, NEW d \in Devices,
         call.fn # InitOf(d), Retained(d)
  PROVE  Retained(d)'
<1>1. sound \in [Devices -> BOOLEAN]
  BY DEF DriverInv, DriverType
<1>2. CASE Remove \/ Insert
  BY <1>1, <1>2 DEF Remove, Insert, Retained, Devices
<1>3. CASE Command
  <2> DEFINE command == Commands[call.fn][call.next]
  <2>1. ~ Idle /\ call \in Calls /\ call.next \in 1 .. Len(Commands[call.fn])
    BY <1>3 DEF Command, DriverInv, DriverType, Idle, NoCall
  <2>2. PICK o \in Outcomes(command) :
          /\ sound' = [sound EXCEPT ![call.device] =
               IF Initialising THEN call' = NoCall /\ res'
               ELSE @ /\ (o.error => command # "select")]
          /\ disturbed' = disturbed \cup
               (IF call.fn = "get_cid" /\ o.error THEN {call.device} ELSE {})
    BY <1>3 DEF Command
  <2>3. CASE call.device # d
    BY <1>1, <2>2, <2>3 DEF Retained
  <2>4. CASE call.device = d
    <3>1. ~ Initialising /\ call.fn \in {"get_cid", "transfer"}
      BY <2>1, <2>4 DEF Initialising, InitOf, DriverInv, Selected, Calls, Functions
    <3>2. call.fn = "transfer" => command # "select"
      BY <2>1, LengthsOf, CommandsOf
    <3>3. CASE d \in disturbed
      BY <2>2, <3>3 DEF Retained
    <3>4. CASE sound[d] /\ o.error /\ call.fn = "get_cid"
      BY <2>2, <2>4, <3>4 DEF Retained
    <3>5. CASE sound[d] /\ ~ (o.error /\ call.fn = "get_cid")
      <4>1. o.error => command # "select"
        BY <3>1, <3>2, <3>5
      <4> HIDE DEF command
      <4>2. sound'[d] = (sound[d] /\ (o.error => command # "select"))
        BY <1>1, <2>2, <2>4, <3>1
      <4> QED  BY <3>5, <4>1, <4>2 DEF Retained
    <3> QED  BY <3>3, <3>4, <3>5 DEF Retained
  <2> QED  BY <2>3, <2>4
<1> QED  BY <1>2, <1>3

(* An initialisation goes on, or ends with what it says of the device.     *)
LEMMA InitialisationGoesOn ==
  ASSUME DriverInv, Command, NEW d \in Devices, call.fn = InitOf(d)
  PROVE  call'.fn = InitOf(d) \/ (Idle' /\ (res' => Retained(d)'))
<1> DEFINE command == Commands[call.fn][call.next]
<1>1. Initialising /\ call.device = d /\ sound \in [Devices -> BOOLEAN]
  BY DEF InitOf, Initialising, DriverInv, DriverType, Selected, Devices
<1>2. PICK o \in Outcomes(command) :
        /\ IF o.error /\ Stops(call.fn, command)
           THEN Return(FALSE)
           ELSE Completed(o.error) \/ Proceed(command, o.error)
        /\ sound' = [sound EXCEPT ![call.device] =
             IF Initialising THEN call' = NoCall /\ res'
             ELSE @ /\ (o.error => command # "select")]
  BY DEF Command
<1>3. sound'[d] = (call' = NoCall /\ res')
  BY <1>1, <1>2
<1>4. call' = NoCall \/ call'.fn = call.fn
  BY <1>2 DEF Return, Completed, Proceed
<1>5. CASE call' = NoCall
  <2>1. call'.fn = "none"
    BY <1>5 DEF NoCall
  <2> QED  BY <1>3, <1>5, <2>1 DEF Idle, Retained
<1> QED  BY <1>4, <1>5

-----------------------------------------------------------------------------
(* The initialisations and the disks.                                      *)

(* What may be left to do.                                                 *)
Stages ==
  { << >>, << "access" >>, << "disks" >>, << "sd", "disks" >>,
    << "twl", "disks" >>, << "ctr", "twl", "disks" >>,
    << "type", "ctr", "twl", "disks" >>, << "nand", "type", "ctr", "twl", "disks" >>,
    << "twl", "sd", "disks" >>, << "ctr", "twl", "sd", "disks" >>,
    << "type", "ctr", "twl", "sd", "disks" >>,
    << "nand", "type", "ctr", "twl", "sd", "disks" >> }

In(x, s) == \E i \in 1 .. Len(s) : s[i] = x

LEMMA HeadOfStages ==
  ASSUME NEW s \in Stages, s # << >>
  PROVE  /\ Head(s) = "disks" => s = << "disks" >>
         /\ Head(s) = "sd" => s = << "sd", "disks" >>
         /\ Head(s) = "access" => s = << "access" >>
BY DEF Stages

LEMMA TailOfStages ==
  ASSUME NEW s \in Stages, s # << >>
  PROVE  /\ Tail(s) \in Stages
         /\ \A x : In(x, s) <=> x = Head(s) \/ In(x, Tail(s))
         /\ Head(s) \notin {"access", "disks"} => Tail(s) \notin { << >>, << "access" >> }
<1>1. CASE s = << "access" >>
  <2>1. Tail(s) = << >>
    BY <1>1
  <2> QED  BY <1>1, <2>1 DEF Stages, In
<1>2. CASE s = << "disks" >>
  <2>1. Tail(s) = << >>
    BY <1>2
  <2> QED  BY <1>2, <2>1 DEF Stages, In
<1>3. CASE s = << "sd", "disks" >>
  <2>1. Tail(s) = << "disks" >>
    BY <1>3
  <2> QED  BY <1>3, <2>1 DEF Stages, In
<1>4. CASE s = << "twl", "disks" >>
  <2>1. Tail(s) = << "disks" >>
    BY <1>4
  <2> QED  BY <1>4, <2>1 DEF Stages, In
<1>5. CASE s = << "ctr", "twl", "disks" >>
  <2>1. Tail(s) = << "twl", "disks" >>
    BY <1>5
  <2> QED  BY <1>5, <2>1 DEF Stages, In
<1>6. CASE s = << "type", "ctr", "twl", "disks" >>
  <2>1. Tail(s) = << "ctr", "twl", "disks" >>
    BY <1>6
  <2> QED  BY <1>6, <2>1 DEF Stages, In
<1>7. CASE s = << "nand", "type", "ctr", "twl", "disks" >>
  <2>1. Tail(s) = << "type", "ctr", "twl", "disks" >>
    BY <1>7
  <2> QED  BY <1>7, <2>1 DEF Stages, In
<1>8. CASE s = << "twl", "sd", "disks" >>
  <2>1. Tail(s) = << "sd", "disks" >>
    BY <1>8
  <2> QED  BY <1>8, <2>1 DEF Stages, In
<1>9. CASE s = << "ctr", "twl", "sd", "disks" >>
  <2>1. Tail(s) = << "twl", "sd", "disks" >>
    BY <1>9
  <2> QED  BY <1>9, <2>1 DEF Stages, In
<1>10. CASE s = << "type", "ctr", "twl", "sd", "disks" >>
  <2>1. Tail(s) = << "ctr", "twl", "sd", "disks" >>
    BY <1>10
  <2> QED  BY <1>10, <2>1 DEF Stages, In
<1>11. CASE s = << "nand", "type", "ctr", "twl", "sd", "disks" >>
  <2>1. Tail(s) = << "type", "ctr", "twl", "sd", "disks" >>
    BY <1>11
  <2> QED  BY <1>11, <2>1 DEF Stages, In
<1> QED
  BY <1>1, <1>2, <1>3, <1>4, <1>5, <1>6, <1>7, <1>8, <1>9, <1>10, <1>11 DEF Stages

LEMMA OfSteps ==
  ASSUME NEW wanted \in Entries
  PROVE  /\ StepsFor(wanted) \in Stages
         /\ \A l \in wanted : In(l, StepsFor(wanted))
         /\ \A l \in {"nand", "sd"} : In(l, StepsFor(wanted)) => l \in wanted
<1>1. CASE wanted = {"nand", "ctr", "twl", "sd"}
  BY <1>1 DEF Stages, In, StepsFor
<1>2. CASE wanted = {"nand", "ctr", "twl"}
  BY <1>2 DEF Stages, In, StepsFor
<1>3. CASE wanted = {"sd"}
  BY <1>3 DEF Stages, In, StepsFor
<1> QED  BY <1>1, <1>2, <1>3 DEF Entries

LEMMA AfterFailure ==
  ASSUME NEW wanted \in Entries, "nand" \in wanted
  PROVE  /\ StepsFor(wanted \ {"nand"}) \in Stages
         /\ \A l \in {"nand", "sd"} : In(l, StepsFor(wanted \ {"nand"})) => l \in wanted
<1>1. CASE "sd" \in wanted
  BY <1>1 DEF Stages, In, StepsFor
<1>2. CASE "sd" \notin wanted
  BY <1>2 DEF Stages, In, StepsFor
<1> QED  BY <1>1, <1>2

Ops == [asked : SUBSET Layers, steps : Stages, waiting : BOOLEAN,
        failed : BOOLEAN, disk : 0 .. 3]
Entry == [io : Layers \cup {"none"}, sectors : Nat, noinit : BOOLEAN]

DiskType ==
  /\ op \in Ops /\ op.asked \in Entries \cup { {} }
  /\ layer \in [Layers -> BOOLEAN]
  /\ disk \in [Disks -> Entry]
  /\ null \in BOOLEAN /\ failures \in BOOLEAN

(* Unless a step has failed, what was asked for is set up, or still to do.  *)
SoFar ==
  /\ ~ op.failed => \A l \in op.asked : layer[l] \/ In(l, op.steps)
  /\ \A l \in {"nand", "sd"} :
       /\ In(l, op.steps) => l \in op.asked
       /\ ~ Done /\ op.waiting /\ Head(op.steps) = l => layer[l]

Initialises == op.steps \notin { << >>, << "access" >> }

(* The disk of the SD card has the size the driver knows, or will have it  *)
(* when the initialisation in progress ends.                               *)
Sized ==
  /\ call.fn = "sd_init" => op.waiting /\ op.steps = << "sd", "disks" >>
  /\ 3 \in Disks /\ sound["sd"] =>
       \/ disk[3].sectors = dev["sd"].total_size
       \/ Initialises /\ "sd" \in op.asked

(* The interface of a disk in the table is set up, unless an               *)
(* initialisation has failed, and no other disk is used.                   *)
Registered ==
  /\ \A d \in Disks : disk[d].io # "none" =>
       disk[d].io = Io(d) /\ (layer[Io(d)] \/ failures)
  /\ mounted \subseteq Disks /\ \A d \in mounted : disk[d].io # "none"
  /\ op.steps = << "access" >> => op.disk \in Disks /\ disk[op.disk].io # "none"
  /\ NullOnlyAfterFailure

DiskInv == DiskType /\ SoFar /\ Sized /\ Registered

IInv == DriverInv /\ DiskInv

LEMMA DriverNext == DriverInv /\ [Next]_vars => DriverInv'
<1> SUFFICES ASSUME DriverInv, [Next]_vars PROVE DriverInv'  OBVIOUS
<1>1. CASE NandInit \/ SdInit \/ Command \/ Remove \/ Insert
  BY <1>1, InitialisesNand, InitialisesSd, CommandKeeps, CardChanges
<1>2. CASE \E f \in {"get_cid", "transfer"}, d \in Devices : Enter(f, d)
  BY <1>2, Enters
<1>3. CASE UNCHANGED driverVars
  BY <1>3 DEF driverVars, DriverInv, DriverType, Selected, NandIsPlain, Progress, SoundDevices,
     Past, Idle, Initialising
<1>4. ASSUME NEW d, Access(d)
      PROVE  UNCHANGED driverVars \/ Enter("transfer", "sd") \/ Enter("transfer", "nand")
  BY <1>4 DEF Access, Device
<1>5. \/ NandInit \/ SdInit \/ Command \/ Remove \/ Insert
      \/ Enter("transfer", "sd") \/ Enter("transfer", "nand") \/ Enter("get_cid", "nand")
      \/ UNCHANGED driverVars
  BY <1>4 DEF Next, vars, Initialize, BeginNand, EndNand, BeginType, EndType, BeginCrypto,
     EndCrypto, BeginSd, EndSd, FinishInitialize, Mount, Use, EndAccess
<1> QED  BY <1>1, <1>2, <1>3, <1>5 DEF Devices

(* A step of the driver, while the rest waits.                             *)
LEMMA WhileWaiting ==
  ASSUME IInv, Command \/ Remove \/ Insert \/ UNCHANGED driverVars, UNCHANGED diskVars
  PROVE  DiskInv'
<1>1. DiskType' /\ SoFar' /\ Registered'
  BY DEF IInv, DiskInv, DiskType, SoFar, Registered, NullOnlyAfterFailure, diskVars, Done
<1>2. call'.fn = "sd_init" => call.fn = "sd_init"
  BY CommandOfOthers DEF IInv, Remove, Insert, driverVars
<1>3. call.fn # "sd_init" => dev'["sd"] = dev["sd"] /\ (sound'["sd"] => sound["sd"])
  <2>1. CASE Remove
    BY <2>1 DEF Remove, IInv, DriverInv, DriverType, Devices
  <2> QED  BY <2>1, CommandOfOthers DEF IInv, Insert, driverVars
<1>4. call.fn = "sd_init" => Initialises /\ "sd" \in op.asked
  <2>1. In("sd", << "sd", "disks" >>) /\ << "sd", "disks" >> \notin { << >>, << "access" >> }
    BY DEF In
  <2> QED  BY <2>1 DEF IInv, DiskInv, Sized, SoFar, Initialises
<1>5. Sized'
  BY <1>2, <1>3, <1>4 DEF IInv, DiskInv, Sized, Initialises, diskVars
<1> QED  BY <1>1, <1>5 DEF DiskInv

LEMMA Initializes ==
  ASSUME IInv, NEW wanted \in Entries, Initialize(wanted)
  PROVE  DiskInv'
<1>1. /\ StepsFor(wanted) \in Stages /\ wanted \subseteq Layers
      /\ \A l \in wanted : In(l, StepsFor(wanted))
      /\ \A l \in {"nand", "sd"} : In(l, StepsFor(wanted)) => l \in wanted
  BY OfSteps DEF Entries, Layers
<1>2. op' = [asked |-> wanted, steps |-> StepsFor(wanted), waiting |-> FALSE,
             failed |-> FALSE, disk |-> 0]
      /\ UNCHANGED << driverVars, layer, disk, mounted, null, failures >>
  BY DEF Initialize
<1>3. DiskType'
  BY <1>1, <1>2 DEF IInv, DiskInv, DiskType, Ops
<1>4. SoFar'
  <2>1. op'.asked = wanted /\ op'.steps = StepsFor(wanted) /\ ~ op'.waiting
    BY <1>2
  <2>2. \A l \in op'.asked : In(l, op'.steps)
    BY <1>1, <2>1
  <2>3. ASSUME NEW l \in {"nand", "sd"}, In(l, op'.steps) PROVE l \in op'.asked
    <3>1. In(l, StepsFor(wanted))
      BY <2>1, <2>3
    <3>2. l \in wanted
      BY <2>3, <3>1, OfSteps
    <3> QED  BY <2>1, <3>2
  <2>4. (\A l \in op.asked : layer[l] \/ In(l, op.steps))'
    BY <2>2 DEF In
  <2> QED  BY <2>1, <2>3, <2>4 DEF SoFar, In
<1>5. StepsFor(wanted) # << "access" >>
  BY DEF Entries, StepsFor
<1>6. Sized'
  BY <1>2 DEF IInv, DiskInv, Sized, Initialize, Done, Idle, Initialises, driverVars
<1>7. Registered'
  BY <1>2, <1>5 DEF IInv, DiskInv, Registered, NullOnlyAfterFailure
<1> QED  BY <1>3, <1>4, <1>6, <1>7 DEF DiskInv

(* What is common to the steps that begin.                                 *)
LEMMA BeginsStep ==
  ASSUME IInv, NEW s, Begins(s)
  PROVE  /\ op.steps # << >> /\ Head(op.steps) = s /\ Idle
         /\ op' \in Ops /\ op'.waiting
         /\ op'.asked = op.asked /\ op'.steps = op.steps /\ op'.failed = op.failed
         /\ op'.disk = op.disk
BY DEF Begins, Step, Done, IInv, DiskInv, DiskType, Ops

(* The interface is set up first, the driver's initialisation begun.       *)
LEMMA BeginsDevice == IInv /\ (BeginNand \/ BeginSd) => DiskInv'
<1> SUFFICES ASSUME IInv, BeginNand \/ BeginSd PROVE DiskInv'  OBVIOUS
<1>1. PICK l \in {"nand", "sd"} :
        /\ Begins(l) /\ SetUp(l) /\ (l = "nand" => NandInit) /\ (l = "sd" => SdInit)
        /\ UNCHANGED << disk, mounted, null, inits, failures >>
  BY DEF BeginNand, BeginSd
<1>2. /\ op.steps # << >> /\ Head(op.steps) = l /\ Idle
      /\ op' \in Ops /\ op'.waiting
      /\ op'.asked = op.asked /\ op'.steps = op.steps /\ op'.failed = op.failed
      /\ op'.disk = op.disk
  BY <1>1, BeginsStep
<1>3. /\ layer' \in [Layers -> BOOLEAN] /\ layer'[l]
      /\ \A k \in Layers : layer[k] => layer'[k]
  BY <1>1 DEF SetUp, IInv, DiskInv, DiskType, Layers
<1>4. DiskType'
  BY <1>1, <1>2, <1>3 DEF IInv, DiskInv, DiskType
<1>5. SoFar'
  <2>1. op.asked \subseteq Layers
    BY DEF IInv, DiskInv, DiskType, Ops
  <2> QED  BY <1>2, <1>3, <2>1 DEF IInv, DiskInv, SoFar, Done
<1>6. Sized'
  <2>1. CASE l = "nand"
    <3>1. dev'["sd"] = dev["sd"] /\ (sound'["sd"] => sound["sd"]) /\ call'.fn = "nand_init"
      BY <1>1, <2>1 DEF NandInit, Restarted, IInv, DriverInv, DriverType, Devices
    <3> QED  BY <1>1, <1>2, <3>1 DEF IInv, DiskInv, Sized, Initialises
  <2>2. CASE l = "sd"
    <3>1. ~ sound'["sd"]
      BY <1>1, <2>2 DEF SdInit, IInv, DriverInv, DriverType, Devices
    <3>2. op.steps = << "sd", "disks" >>
      BY <1>2, <2>2, HeadOfStages DEF IInv, DiskInv, DiskType, Ops
    <3> QED  BY <1>2, <3>1, <3>2 DEF Sized
  <2> QED  BY <2>1, <2>2
<1>7. Registered'
  <2>1. \A d \in Disks : Io(d) \in Layers
    BY DisksAssumption DEF Io, Layers
  <2> QED  BY <1>1, <1>2, <1>3, <2>1 DEF IInv, DiskInv, Registered, NullOnlyAfterFailure
<1> QED  BY <1>4, <1>5, <1>6, <1>7 DEF DiskInv

(* A call of the driver that initialises nothing.                          *)
LEMMA EnterKeeps ==
  ASSUME IInv, NEW f, f # "sd_init", NEW d, Enter(f, d)
  PROVE  call'.fn # "sd_init" /\ UNCHANGED << dev, card, res, sound >>
BY DEF Enter

LEMMA BeginsTransfer ==
  ASSUME IInv, BeginType \/ \E l \in {"ctr", "twl"} : BeginCrypto(l)
  PROVE  DiskInv'
<1>1. PICK s \in {"type", "ctr", "twl"} :
        Begins(s) /\ UNCHANGED << layer, disk, mounted, null, inits, failures >>
  BY DEF BeginType, BeginCrypto
<1>2. /\ op.steps # << >> /\ Head(op.steps) = s /\ Idle
      /\ op' \in Ops /\ op'.waiting
      /\ op'.asked = op.asked /\ op'.steps = op.steps /\ op'.failed = op.failed
      /\ op'.disk = op.disk
  BY <1>1, BeginsStep
<1>3. call'.fn # "sd_init" /\ UNCHANGED << dev, card, res, sound >>
  BY EnterKeeps DEF BeginType, BeginCrypto
<1>4. DiskType'
  BY <1>1, <1>2 DEF IInv, DiskInv, DiskType
<1>5. SoFar'
  BY <1>1, <1>2 DEF IInv, DiskInv, SoFar, Done
<1>6. Sized' /\ Registered'
  BY <1>1, <1>2, <1>3 DEF IInv, DiskInv, Sized, Initialises, Registered, NullOnlyAfterFailure
<1> QED  BY <1>4, <1>5, <1>6 DEF DiskInv

(* What is common to the steps that end.                                   *)
LEMMA EndsStep ==
  ASSUME IInv, NEW s, NEW rest \in Stages, Ends(s, rest)
  PROVE  /\ op.steps # << >> /\ Head(op.steps) = s /\ Idle /\ op.waiting
         /\ op' \in Ops /\ ~ op'.waiting
         /\ op'.asked = op.asked /\ op'.steps = rest /\ op'.disk = op.disk
         /\ ~ op'.failed => ~ op.failed /\ res
BY DEF Ends, Step, Done, IInv, DriverInv, DriverType, DiskInv, DiskType, Ops

(* A step that ended without anything left to set up.                      *)
LEMMA EndsBut ==
  ASSUME IInv, NEW s, Ends(s, Rest), UNCHANGED << driverVars, disk, mounted, null, failures >>,
         s \in {"nand", "type", "ctr", "twl", "sd"},
         layer' \in [Layers -> BOOLEAN], \A l \in Layers : layer[l] => layer'[l],
         s \in Layers => layer'[s]
  PROVE  DiskInv'
<1>1. op.steps \in Stages /\ op.asked \subseteq Layers
  BY DEF IInv, DiskInv, DiskType, Ops
<1>2. op.steps # << >> /\ Head(op.steps) = s /\ Idle
  BY DEF Ends, Step, Done
<1>3. /\ Rest \in Stages
      /\ \A x : In(x, op.steps) <=> x = s \/ In(x, Rest)
  BY <1>1, <1>2, TailOfStages DEF Rest
<1>4. /\ op' \in Ops /\ ~ op'.waiting
      /\ op'.asked = op.asked /\ op'.steps = Rest /\ op'.disk = op.disk
      /\ ~ op'.failed => ~ op.failed
  BY <1>3, EndsStep
<1>5. Rest \notin { << >>, << "access" >> }
  BY <1>1, <1>2, TailOfStages DEF Rest
<1>6. DiskType'
  BY <1>4 DEF IInv, DiskInv, DiskType
<1>7. SoFar'
  <2>1. ASSUME NEW l \in op.asked, ~ op'.failed PROVE layer'[l] \/ In(l, Rest)
    <3>1. layer[l] \/ In(l, op.steps)
      BY <1>4, <2>1 DEF IInv, DiskInv, SoFar
    <3> QED  BY <1>1, <1>3, <3>1
  <2>2. ASSUME NEW l \in {"nand", "sd"}, In(l, Rest) PROVE l \in op.asked
    <3>1. In(l, op.steps)
      BY <1>3, <2>2
    <3> QED  BY <3>1 DEF IInv, DiskInv, SoFar
  <2> QED  BY <1>4, <2>1, <2>2 DEF SoFar, In
<1>8. Sized'
  BY <1>4, <1>5, <1>2 DEF IInv, DiskInv, Sized, Initialises, driverVars, Idle
<1>9. Registered'
  <2>1. \A d \in Disks : Io(d) \in Layers
    BY DisksAssumption DEF Io, Layers
  <2> QED  BY <1>4, <1>5, <2>1 DEF IInv, DiskInv, Registered, NullOnlyAfterFailure
<1> QED  BY <1>6, <1>7, <1>8, <1>9 DEF DiskInv

LEMMA EndsNand == IInv /\ EndNand => DiskInv'
<1> SUFFICES ASSUME IInv, EndNand PROVE DiskInv'  OBVIOUS
<1>1. UNCHANGED << driverVars, layer, disk, mounted, null, inits, failures >>
  BY DEF EndNand
<1>2. op.steps # << >> /\ Head(op.steps) = "nand" /\ Idle /\ op.waiting
      /\ op.steps \in Stages /\ layer \in [Layers -> BOOLEAN]
  BY DEF EndNand, Ends, Step, Done, IInv, DiskInv, DiskType, Ops
<1>3. CASE res
  <2>1. layer["nand"]
    BY <1>2 DEF IInv, DiskInv, SoFar, Done
  <2> QED  BY <1>1, <1>2, <1>3, <2>1, EndsBut DEF EndNand
<1>4. CASE ~ res
  <2> DEFINE rest == StepsFor(op.asked \ {"nand"})
  <2>1. op.asked \in Entries /\ "nand" \in op.asked
    <3>1. In("nand", op.steps)
      BY <1>2, TailOfStages
    <3> QED  BY <3>1 DEF IInv, DiskInv, DiskType, SoFar
  <2>2. /\ rest \in Stages
        /\ \A l \in {"nand", "sd"} : In(l, rest) => l \in op.asked
        /\ rest \notin { << >>, << "access" >> }
    BY <2>1, AfterFailure DEF StepsFor
  <2>3. Ends("nand", rest)
    BY <1>4 DEF EndNand
  <2> HIDE DEF rest
  <2>4. /\ op' \in Ops /\ ~ op'.waiting /\ op'.failed
        /\ op'.asked = op.asked /\ op'.steps = rest /\ op'.disk = op.disk
    BY <1>4, <2>2, <2>3, EndsStep
  <2>5. DiskType'
    BY <1>1, <2>4 DEF IInv, DiskInv, DiskType
  <2>6. SoFar'
    BY <2>2, <2>4 DEF SoFar, In
  <2>7. Sized'
    BY <1>1, <1>2, <2>2, <2>4 DEF IInv, DiskInv, Sized, Initialises, driverVars, Idle
  <2>8. Registered'
    BY <1>1, <2>2, <2>4 DEF IInv, DiskInv, Registered, NullOnlyAfterFailure
  <2> QED  BY <2>5, <2>6, <2>7, <2>8 DEF DiskInv
<1> QED  BY <1>3, <1>4

LEMMA EndsOther ==
  ASSUME IInv, EndType \/ EndSd \/ \E l \in {"ctr", "twl"} : EndCrypto(l)
  PROVE  DiskInv'
<1>1. layer \in [Layers -> BOOLEAN]
  BY DEF IInv, DiskInv, DiskType
<1>2. CASE EndType
  BY <1>1, <1>2, EndsBut DEF EndType, Layers
<1>3. CASE EndSd
  <2>1. layer["sd"]
    BY <1>3 DEF EndSd, Ends, Step, IInv, DiskInv, SoFar
  <2> QED  BY <1>1, <1>3, <2>1, EndsBut DEF EndSd
<1>4. ASSUME NEW l \in {"ctr", "twl"}, EndCrypto(l) PROVE DiskInv'
  <2>1. /\ layer' \in [Layers -> BOOLEAN] /\ layer'[l]
        /\ \A k \in Layers : layer[k] => layer'[k]
    BY <1>1, <1>4 DEF EndCrypto, SetUp, Layers
  <2> QED  BY <1>4, <2>1, EndsBut DEF EndCrypto
<1> QED  BY <1>2, <1>3, <1>4

LEMMA Finishes == IInv /\ FinishInitialize => DiskInv'
<1> SUFFICES ASSUME IInv, FinishInitialize PROVE DiskInv'  OBVIOUS
<1>1. op.steps = << "disks" >>
  BY HeadOfStages DEF FinishInitialize, Step, Done, IInv, DiskInv, DiskType, Ops
<1>2. /\ op' \in Ops /\ op'.asked = op.asked /\ op'.steps = << >>
      /\ op'.failed = op.failed /\ op'.waiting = op.waiting
  BY DEF FinishInitialize, IInv, DiskInv, DiskType, Ops, Stages
<1>3. UNCHANGED << driverVars, layer, mounted, null >> /\ failures' = (failures \/ op.failed)
  BY DEF FinishInitialize
<1>4. disk' = [d \in Disks |->
        IF Io(d) \notin op.asked THEN disk[d]
        ELSE [io |-> Io(d), noinit |-> TRUE,
              sectors |-> IF d = 3 THEN dev["sd"].total_size ELSE 1]]
  BY DEF FinishInitialize, SetUpDisks
<1>5. \A d \in Disks : Io(d) \in Layers
  BY DisksAssumption DEF Io, Layers
<1>6. disk' \in [Disks -> Entry]
  <2>1. dev["sd"].total_size \in Nat
    BY DEF IInv, DriverInv, DriverType, Devices, Handles
  <2> QED  BY <1>4, <1>5, <2>1 DEF IInv, DiskInv, DiskType, Entry
<1>7. DiskType'
  BY <1>2, <1>3, <1>6 DEF IInv, DiskInv, DiskType, Ops
<1>8. \A l \in op.asked : layer[l] \/ op.failed
  BY <1>1 DEF IInv, DiskInv, DiskType, Ops, SoFar, In, Layers, Entries
<1>9. SoFar'
  BY <1>2, <1>3, <1>8 DEF SoFar, In, Done
<1>10. Sized'
  <2>1. call.fn # "sd_init"
    BY DEF FinishInitialize, Step, Idle
  <2>2. Io(3) = "sd"
    BY DEF Io
  <2> QED  BY <1>2, <1>3, <1>4, <2>1, <2>2 DEF IInv, DiskInv, Sized, driverVars
<1>11. Registered'
  <2>1. ASSUME NEW d \in Disks, disk'[d].io # "none"
        PROVE  disk'[d].io = Io(d) /\ (layer[Io(d)] \/ failures')
    <3>1. CASE Io(d) \in op.asked
      BY <1>3, <1>4, <1>8, <3>1
    <3>2. CASE Io(d) \notin op.asked
      BY <1>3, <1>4, <2>1, <3>2 DEF IInv, DiskInv, Registered
    <3> QED  BY <3>1, <3>2
  <2>2. \A d \in Disks : disk[d].io # "none" => disk'[d].io # "none"
    BY <1>4, <1>5 DEF Layers
  <2>3. null' => failures'
    BY <1>3 DEF IInv, DiskInv, Registered, NullOnlyAfterFailure
  <2> QED  BY <1>2, <1>3, <2>1, <2>2, <2>3 DEF IInv, DiskInv, Registered, NullOnlyAfterFailure
<1> QED  BY <1>7, <1>9, <1>10, <1>11 DEF DiskInv

(* An access to a disk of the table: only a failed initialisation leaves   *)
(* its interface unset.  A disk that is not of the table is not accessed.  *)
LEMMA Accesses ==
  ASSUME IInv, NEW d \in Disks, Done, Idle,
         \/ disk[d].io # "none" /\ Access(d)
         \/ UNCHANGED << driverVars, op, null >>,
         disk' = disk \/ \E b \in BOOLEAN : disk' = [disk EXCEPT ![d].noinit = b],
         mounted' \subseteq mounted, UNCHANGED << layer, failures >>
  PROVE  DiskInv'
<1>1. /\ disk' \in [Disks -> Entry]
      /\ \A e \in Disks : disk'[e].io = disk[e].io /\ disk'[e].sectors = disk[e].sectors
  <2>1. disk \in [Disks -> Entry]
    BY DEF IInv, DiskInv, DiskType
  <2>2. CASE disk' = disk
    BY <2>1, <2>2
  <2>3. ASSUME NEW b \in BOOLEAN, disk' = [disk EXCEPT ![d].noinit = b]
        PROVE  /\ disk' \in [Disks -> Entry]
               /\ \A e \in Disks : disk'[e].io = disk[e].io /\ disk'[e].sectors = disk[e].sectors
    BY <2>1, <2>3 DEF Entry
  <2> QED  BY <2>2, <2>3
<1>2. \/ /\ op' = [asked |-> {}, steps |-> << "access" >>, waiting |-> TRUE,
                   failed |-> FALSE, disk |-> d]
         /\ null' = null
      \/ op' = op /\ (null' = null \/ (null' = TRUE /\ failures))
  BY DEF Access, IInv, DiskInv, Registered
<1>3. op' \in Ops /\ op'.asked \in Entries \cup { {} } /\ null' \in BOOLEAN
  <2>1. d \in 0 .. 3 /\ << "access" >> \in Stages
    BY DisksAssumption DEF Stages
  <2>2. op \in Ops /\ op.asked \in Entries \cup { {} } /\ null \in BOOLEAN
    BY DEF IInv, DiskInv, DiskType
  <2>3. CASE op' = op /\ (null' = null \/ (null' = TRUE /\ failures))
    BY <2>2, <2>3
  <2>4. CASE /\ op' = [asked |-> {}, steps |-> << "access" >>, waiting |-> TRUE,
                      failed |-> FALSE, disk |-> d]
             /\ null' = null
    <3>1. op' \in Ops
      BY <2>1, <2>4 DEF Ops
    <3> QED  BY <2>2, <2>4, <3>1
  <2> QED  BY <1>2, <2>3, <2>4
<1>4. DiskType'
  BY <1>1, <1>3 DEF IInv, DiskInv, DiskType
<1>5. SoFar'
  BY <1>2 DEF IInv, DiskInv, SoFar, In, Done
<1>6. call'.fn # "sd_init" /\ UNCHANGED << dev, sound >>
  BY DEF Access, Enter, driverVars, Idle
<1>7. Sized'
  BY <1>1, <1>2, <1>6 DEF IInv, DiskInv, Sized, Initialises, Done
<1>8. Registered'
  <2>1. null' => failures
    BY <1>2 DEF IInv, DiskInv, Registered, NullOnlyAfterFailure
  <2>2. mounted' \subseteq Disks /\ \A e \in mounted' : disk'[e].io # "none"
    BY <1>1 DEF IInv, DiskInv, Registered
  <2>3. op'.steps = << "access" >> => op'.disk \in Disks /\ disk'[op'.disk].io # "none"
    BY <1>1, <1>2 DEF Done
  <2> QED  BY <1>1, <2>1, <2>2, <2>3 DEF IInv, DiskInv, Registered, NullOnlyAfterFailure
<1> QED  BY <1>4, <1>5, <1>7, <1>8 DEF DiskInv

LEMMA EndsAccess == IInv /\ EndAccess => DiskInv'
<1> SUFFICES ASSUME IInv, EndAccess PROVE DiskInv'  OBVIOUS
<1>1. op.steps = << "access" >> /\ Idle
  BY HeadOfStages DEF EndAccess, Ends, Step, Done, IInv, DiskInv, DiskType, Ops
<1>2. /\ op' \in Ops /\ op'.asked = op.asked /\ op'.steps = << >>
      /\ ~ op'.failed => ~ op.failed
  BY EndsStep DEF EndAccess, Stages
<1>3. UNCHANGED << driverVars, layer, disk, null, failures >>
      /\ mounted' \subseteq mounted \cup {op.disk}
  BY DEF EndAccess
<1>4. DiskType'
  BY <1>2, <1>3 DEF IInv, DiskInv, DiskType
<1>5. ~ In("ctr", << "access" >>) /\ ~ In("twl", << "access" >>)
      /\ ~ In("sd", << "access" >>) /\ ~ In("nand", << "access" >>)
  BY DEF In
<1>6. SoFar'
  <2>1. ASSUME NEW l \in op.asked, ~ op'.failed PROVE layer[l]
    BY <1>1, <1>2, <1>5, <2>1 DEF IInv, DiskInv, DiskType, Ops, SoFar, Layers
  <2> QED  BY <1>2, <1>3, <2>1 DEF SoFar, In, Done
<1>7. Sized'
  BY <1>1, <1>2, <1>3 DEF IInv, DiskInv, Sized, Initialises, driverVars, Idle
<1>8. Registered'
  BY <1>1, <1>2, <1>3 DEF IInv, DiskInv, Registered, NullOnlyAfterFailure
<1> QED  BY <1>4, <1>6, <1>7, <1>8 DEF DiskInv

LEMMA DisksStart == Init => DiskInv
<1> SUFFICES ASSUME Init PROVE DiskInv  OBVIOUS
<1>1. << >> \in Stages
  BY DEF Stages
<1>2. DiskType
  <2>1. op = [asked |-> {}, steps |-> << >>, waiting |-> FALSE, failed |-> FALSE, disk |-> 0]
    BY DEF Init
  <2>2. op \in Ops /\ op.asked \in Entries \cup { {} }
    BY <1>1, <2>1 DEF Ops
  <2>3. disk \in [Disks -> Entry]
    BY DEF Init, Entry
  <2> QED  BY <2>2, <2>3 DEF Init, DiskType
<1> QED  BY <1>2 DEF Init, DriverInit, NoCall, Devices, DiskInv, SoFar, In, Sized, Registered,
            NullOnlyAfterFailure, Done

LEMMA DisksNext == IInv /\ [Next]_vars => DiskInv'
<1> SUFFICES ASSUME IInv, [Next]_vars PROVE DiskInv'  OBVIOUS
<1>1. CASE (Command \/ Remove \/ Insert) /\ UNCHANGED diskVars
  BY <1>1, WhileWaiting
<1>2. CASE \E wanted \in Entries : Initialize(wanted)
  BY <1>2, Initializes
<1>3. CASE BeginNand \/ BeginSd
  BY <1>3, BeginsDevice
<1>4. CASE BeginType \/ \E l \in {"ctr", "twl"} : BeginCrypto(l)
  BY <1>4, BeginsTransfer
<1>5. CASE EndNand
  BY <1>5, EndsNand
<1>6. CASE EndType \/ EndSd \/ \E l \in {"ctr", "twl"} : EndCrypto(l)
  BY <1>6, EndsOther
<1>7. CASE FinishInitialize
  BY <1>7, Finishes
<1>8. ASSUME NEW d \in Disks, Mount(d) PROVE DiskInv'
  <2>1. Done /\ Idle /\ UNCHANGED << layer, failures >> /\ mounted' \subseteq mounted
        /\ \E b \in BOOLEAN : disk' = [disk EXCEPT ![d].noinit = b]
    BY <1>8 DEF Mount
  <2>2. \/ disk[d].io # "none" /\ Access(d)
        \/ UNCHANGED << driverVars, op, null >>
    BY <1>8 DEF Mount, Ready
  <2> QED  BY <2>1, <2>2, Accesses
<1>9. ASSUME NEW d \in Disks, Use(d) PROVE DiskInv'
  <2>1. Done /\ Idle /\ UNCHANGED << layer, disk, mounted, failures >> /\ Access(d)
        /\ disk[d].io # "none"
    BY <1>9 DEF Use, IInv, DiskInv, Registered
  <2> QED  BY <2>1, Accesses
<1>10. CASE EndAccess
  BY <1>10, EndsAccess
<1>11. CASE UNCHANGED vars
  BY <1>11, WhileWaiting DEF vars
<1> QED  BY <1>1, <1>2, <1>3, <1>4, <1>5, <1>6, <1>7, <1>8, <1>9, <1>10, <1>11 DEF Next

-----------------------------------------------------------------------------
(* The invariant and what follows from it.                                 *)

(* The driver and the disks keep the inductive invariant.                  *)
THEOREM Invariant == Spec => []IInv
<1>1. Init => IInv
  BY DriverStart, DisksStart DEF IInv
<1>2. IInv /\ [Next]_vars => IInv'
  BY DriverNext, DisksNext DEF IInv
<1> QED  BY <1>1, <1>2, PTL DEF Spec

(* Unless a step has failed, each device asked for is brought up, or the    *)
(* step that does it is to come, or under way.                             *)
ReadyInv ==
  /\ ~ op.failed => \A d \in Devices :
       d \in op.asked => Retained(d) \/ In(d, op.steps)
  /\ \A d \in Devices :
       /\ ~ Done /\ op.waiting /\ Head(op.steps) = d =>
            call.fn = InitOf(d) \/ (Idle /\ (res => Retained(d)))
       /\ call.fn = InitOf(d) =>
            ~ Done /\ op.waiting /\ Head(op.steps) = d /\ In(d, op.steps)

LEMMA ReadyStart == Init => ReadyInv
BY DEF Init, DriverInit, NoCall, ReadyInv, InitOf, Done

(* A step of the driver, while the rest waits.                             *)
LEMMA ReadyWhileWaiting ==
  ASSUME IInv, ReadyInv, Command \/ Remove \/ Insert \/ UNCHANGED driverVars, UNCHANGED diskVars
  PROVE  ReadyInv'
<1>0. CASE UNCHANGED driverVars
  BY <1>0 DEF driverVars, diskVars, ReadyInv, Done, Idle, Retained, InitOf, In, Devices
<1>1. CASE Command \/ Remove \/ Insert
  <2>1. op' = op
    BY DEF diskVars
  <2>2. ASSUME NEW d \in Devices, Retained(d), call.fn # InitOf(d) PROVE Retained(d)'
    BY <1>1, <2>2, StaysRetained DEF IInv
  <2>3. ASSUME NEW d \in Devices, call'.fn = InitOf(d) PROVE call.fn = InitOf(d)
    BY <1>1, <2>3, CommandOfOthers DEF IInv, Remove, Insert, InitOf
  <2>4. ASSUME NEW d \in Devices, ~ Done, op.waiting, Head(op.steps) = d
        PROVE  call'.fn = InitOf(d) \/ (Idle' /\ (res' => Retained(d)'))
    <3>1. CASE call.fn = InitOf(d) /\ Command
      BY <3>1, InitialisationGoesOn DEF IInv
    <3>2. CASE call.fn = InitOf(d) /\ (Remove \/ Insert)
      BY <3>2 DEF Remove, Insert
    <3>3. CASE call.fn # InitOf(d)
      <4>1. Idle /\ (res => Retained(d))
        BY <2>4, <3>3 DEF ReadyInv
      <4>2. Idle' /\ res' = res
        BY <1>1, <4>1 DEF Command, Remove, Insert, Idle
      <4> QED  BY <2>2, <3>3, <4>1, <4>2
    <3> QED  BY <1>1, <3>1, <3>2, <3>3
  <2>5. ASSUME NEW d \in Devices, ~ op.failed, d \in op.asked
        PROVE  Retained(d)' \/ In(d, op.steps)
    BY <2>2, <2>5 DEF ReadyInv
  <2> QED  BY <2>1, <2>3, <2>4, <2>5 DEF ReadyInv, Done, In
<1> QED  BY <1>0, <1>1

(* A step that begins with neither device, and calls the driver for        *)
(* something else than an initialisation, or not at all.                   *)
LEMMA ReadyBesides ==
  ASSUME ReadyInv, op'.asked = op.asked, op'.steps = op.steps, op'.failed = op.failed,
         ~ Done, Head(op.steps) \notin Devices,
         call'.fn \notin {"nand_init", "sd_init"}, UNCHANGED << sound, disturbed >>
  PROVE  ReadyInv'
BY DEF ReadyInv, Done, Retained, InitOf, In

(* The device's own step begins.                                           *)
LEMMA ReadyBegins ==
  ASSUME IInv, ReadyInv, BeginNand \/ BeginSd
  PROVE  ReadyInv'
<1>1. PICK d \in Devices : Begins(d) /\ (d = "nand" => NandInit) /\ (d = "sd" => SdInit)
  BY DEF BeginNand, BeginSd, Devices
<1>2. /\ op.steps # << >> /\ Head(op.steps) = d /\ Idle
      /\ op' \in Ops /\ op'.waiting
      /\ op'.asked = op.asked /\ op'.steps = op.steps /\ op'.failed = op.failed
  BY <1>1, BeginsStep
<1>3. In(d, op.steps)
  BY <1>2, TailOfStages DEF IInv, DiskInv, DiskType, Ops
<1>4. ASSUME NEW e \in Devices, e # d PROVE Retained(e)' = Retained(e)
  BY <1>1, <1>4 DEF NandInit, SdInit, Retained, Devices, IInv, DriverInv, DriverType
<1>5. call'.fn = InitOf(d) \/ (Idle' /\ ~ res')
  BY <1>1 DEF NandInit, SdInit, InitOf, Devices, NoCall, Idle
<1>6. \A e \in Devices : call'.fn = InitOf(e) => e = d
  BY <1>5 DEF Devices, InitOf, Idle
<1> QED  BY <1>2, <1>3, <1>4, <1>5, <1>6 DEF ReadyInv, Done, In

(* A step ends; that of a device has brought it up, or has failed.         *)
LEMMA ReadyEnds ==
  ASSUME IInv, ReadyInv, NEW s, NEW rest \in Stages, Ends(s, rest), UNCHANGED driverVars,
         rest = Tail(op.steps) \/ (s = "nand" /\ ~ res)
  PROVE  ReadyInv'
<1>1. /\ op.steps # << >> /\ Head(op.steps) = s /\ Idle /\ op.waiting
      /\ op' \in Ops /\ ~ op'.waiting
      /\ op'.asked = op.asked /\ op'.steps = rest
      /\ ~ op'.failed => ~ op.failed /\ res
  BY EndsStep
<1>2. UNCHANGED << call, sound, disturbed >>
  BY DEF driverVars
<1>3. call.fn = "none"
  BY <1>1 DEF Idle
<1>4. ASSUME ~ op'.failed, NEW d \in Devices, d \in op.asked PROVE Retained(d) \/ In(d, rest)
  <2>1. rest = Tail(op.steps) /\ res
    BY <1>1, <1>4
  <2>2. Retained(d) \/ In(d, op.steps)
    BY <1>1, <1>4 DEF ReadyInv
  <2>3. In(d, op.steps) => d = s \/ In(d, rest)
    BY <1>1, <2>1, TailOfStages DEF IInv, DiskInv, DiskType, Ops
  <2>4. d = s => Retained(d)
    BY <1>1, <1>3, <2>1 DEF ReadyInv, InitOf, Done
  <2> QED  BY <2>2, <2>3, <2>4
<1>5. ASSUME ~ op'.failed, NEW d \in Devices, d \in op'.asked
      PROVE  Retained(d)' \/ In(d, op.steps)'
  BY <1>1, <1>2, <1>4, <1>5 DEF Retained, In
<1> QED  BY <1>1, <1>2, <1>3, <1>5 DEF ReadyInv, InitOf

LEMMA ReadyNext == IInv /\ ReadyInv /\ [Next]_vars => ReadyInv'
<1> SUFFICES ASSUME IInv, ReadyInv, [Next]_vars PROVE ReadyInv'  OBVIOUS
<1>0. op.steps \in Stages /\ op \in Ops /\ op.asked \in Entries \cup { {} }
  BY DEF IInv, DiskInv, DiskType, Ops
<1>1. CASE (Command \/ Remove \/ Insert) /\ UNCHANGED diskVars
  BY <1>1, ReadyWhileWaiting
<1>2. ASSUME NEW wanted \in Entries, Initialize(wanted) PROVE ReadyInv'
  <2>1. /\ op'.asked = wanted /\ op'.steps = StepsFor(wanted) /\ ~ op'.waiting
        /\ call' = call /\ call.fn = "none"
    BY <1>2 DEF Initialize, driverVars, Idle
  <2>2. \A l \in wanted : In(l, StepsFor(wanted))
    BY OfSteps
  <2> QED  BY <2>1, <2>2 DEF ReadyInv, InitOf, In
<1>3. CASE BeginNand \/ BeginSd
  BY <1>3, ReadyBegins
<1>4. CASE BeginType \/ \E l \in {"ctr", "twl"} : BeginCrypto(l)
  <2>1. PICK s \in {"type", "ctr", "twl"} : Begins(s)
    BY <1>4 DEF BeginType, BeginCrypto
  <2>2. PICK f \in {"transfer", "get_cid"} : Enter(f, "nand")
    BY <1>4 DEF BeginType, BeginCrypto
  <2>3. call'.fn = f /\ UNCHANGED << sound, disturbed >>
    BY <2>2 DEF Enter
  <2>4. /\ op.steps # << >> /\ Head(op.steps) = s
        /\ op'.asked = op.asked /\ op'.steps = op.steps /\ op'.failed = op.failed
    BY <2>1, BeginsStep
  <2> QED  BY <2>3, <2>4, ReadyBesides DEF Done, Devices
<1>5. CASE EndNand
  <2>1. PICK rest : /\ Ends("nand", rest) /\ UNCHANGED driverVars
                    /\ rest = IF res THEN Rest ELSE StepsFor(op.asked \ {"nand"})
    BY <1>5 DEF EndNand
  <2>2. op.steps # << >> /\ Head(op.steps) = "nand"
    BY <2>1 DEF Ends, Step, Done
  <2>3. op.asked \in Entries /\ "nand" \in op.asked
    <3>1. In("nand", op.steps)
      BY <1>0, <2>2, TailOfStages
    <3> QED  BY <3>1 DEF IInv, DiskInv, DiskType, SoFar
  <2>4. rest \in Stages
    BY <1>0, <2>1, <2>2, <2>3, TailOfStages, AfterFailure DEF Rest
  <2>5. rest = Tail(op.steps) \/ ~ res
    BY <2>1 DEF Rest
  <2> QED  BY <2>1, <2>4, <2>5, ReadyEnds
<1>6. CASE EndType \/ EndSd \/ \E l \in {"ctr", "twl"} : EndCrypto(l)
  <2>1. PICK s : Ends(s, Tail(op.steps)) /\ UNCHANGED driverVars
    BY <1>6 DEF EndType, EndSd, EndCrypto, Rest
  <2>2. op.steps # << >>
    BY <2>1 DEF Ends, Step, Done
  <2>3. Tail(op.steps) \in Stages
    BY <1>0, <2>2, TailOfStages
  <2> QED  BY <2>1, <2>3, ReadyEnds
<1>7. CASE FinishInitialize
  <2>1. op.steps = << "disks" >>
    BY <1>0, <1>7, HeadOfStages DEF FinishInitialize, Step, Done
  <2>2. /\ op'.asked = op.asked /\ op'.steps = << >> /\ op'.failed = op.failed
        /\ UNCHANGED << call, sound, disturbed >> /\ call.fn = "none"
    BY <1>0, <1>7 DEF FinishInitialize, driverVars, Step, Idle, Ops
  <2>3. \A d \in Devices : ~ In(d, op.steps)
    BY <2>1 DEF In, Devices
  <2>4. ASSUME ~ op'.failed, NEW d \in Devices, d \in op'.asked PROVE Retained(d)'
    BY <2>2, <2>3, <2>4 DEF ReadyInv, Retained
  <2> QED  BY <2>2, <2>4 DEF ReadyInv, InitOf, Done
<1>8. ASSUME NEW d, Mount(d) \/ Use(d) PROVE ReadyInv'
  <2>1. \/ UNCHANGED << driverVars, op >>
        \/ /\ op' = [asked |-> {}, steps |-> << "access" >>, waiting |-> TRUE,
                     failed |-> FALSE, disk |-> d]
           /\ \E e : Enter("transfer", e)
    BY <1>8 DEF Mount, Use, Access
  <2>2. CASE UNCHANGED << driverVars, op >>
    BY <2>2 DEF driverVars, ReadyInv, Done, Idle, Retained, InitOf, In
  <2>3. CASE /\ op' = [asked |-> {}, steps |-> << "access" >>, waiting |-> TRUE,
                       failed |-> FALSE, disk |-> d]
             /\ \E e : Enter("transfer", e)
    <3>1. op'.asked = {} /\ op'.steps = << "access" >> /\ Head(op'.steps) = "access"
      BY <2>3
    <3>2. call'.fn = "transfer"
      BY <2>3 DEF Enter
    <3> QED  BY <3>1, <3>2 DEF ReadyInv, InitOf, Devices
  <2> QED  BY <2>1, <2>2, <2>3
<1>9. CASE EndAccess
  <2>1. op.steps = << "access" >> /\ Ends("access", << >>) /\ UNCHANGED driverVars
    BY <1>0, <1>9, HeadOfStages DEF EndAccess, Ends, Step, Done
  <2>2. << >> \in Stages /\ << >> = Tail(op.steps)
    BY <2>1 DEF Stages
  <2> QED  BY <2>1, <2>2, ReadyEnds
<1>10. CASE UNCHANGED vars
  BY <1>10, ReadyWhileWaiting DEF vars
<1> QED  BY <1>1, <1>2, <1>3, <1>4, <1>5, <1>6, <1>7, <1>8, <1>9, <1>10 DEF Next

(* An initialisation that returns 0 has set up every interface it was       *)
(* passed, over a device that its own initialisation brought up and that   *)
(* was reachable since, but for a command of get_cid that failed unseen    *)
(* and a card that was removed.                                            *)
THEOREM ReadyOnSuccess == Spec => []SuccessMeansReady
<1>1. ASSUME IInv, ReadyInv PROVE SuccessMeansReady
  <2> SUFFICES ASSUME Done, ~ op.failed, NEW l \in op.asked
               PROVE  layer[l] /\ Retained(Device(l))
    BY DEF SuccessMeansReady, Retained
  <2>1. \A x : ~ In(x, op.steps)
    BY DEF Done, In
  <2>2. Device(l) \in op.asked /\ Device(l) \in Devices
    BY <1>1 DEF IInv, DiskInv, DiskType, Entries, Device, Devices
  <2>3. layer[l]
    BY <1>1, <2>1 DEF IInv, DiskInv, SoFar
  <2> QED  BY <1>1, <2>1, <2>2, <2>3 DEF ReadyInv
<1>2. IInv /\ ReadyInv /\ [Next]_vars => ReadyInv'
  BY ReadyNext
<1> QED  BY <1>1, <1>2, ReadyStart, Invariant, PTL DEF Spec

(* A transfer of a device initialised without error finds its port         *)
(* selected and a card that takes it: inittarget, Nand_Init and SD_Init.   *)
THEOREM TransfersReach == Spec => []TransfersReachCard
<1>1. ASSUME IInv PROVE TransfersReachCard
  <2>1. ASSUME call.fn = "transfer", sound[call.device]
        PROVE  /\ port = call.device /\ clock = "full"
               /\ Answers(card[port], "blocks")
               /\ dev[port].total_size = card[port].size
    <3>1. ~ Idle /\ call.device \in Devices
      BY <1>1, <2>1 DEF IInv, DriverInv, DriverType, Idle, NoCall, Calls
    <3>2. port = call.device /\ clock = dev[port].clk /\ wide = dev[port].SDOPT
      BY <1>1, <2>1, <3>1 DEF IInv, DriverInv, Selected
    <3>3. /\ dev[port].clk = "full" /\ dev[port].SDOPT /\ card[port].wide
          /\ dev[port].isSDHC = card[port].hc /\ dev[port].total_size = card[port].size
          /\ card[port].state = "transfer"
      BY <1>1, <2>1, <3>1, <3>2 DEF IInv, DriverInv, SoundDevices
    <3>4. card[port].wide = wide
      BY <1>1, <3>1, <3>2, <3>3 DEF IInv, DriverInv, DriverType, Cards, Handles
    <3> QED  BY <3>2, <3>3, <3>4 DEF Answers
  <2> QED  BY <2>1 DEF TransfersReachCard
<1> QED  BY <1>1, Invariant, PTL

(* Only after a failed initialisation is an unset interface called.        *)
THEOREM NoNullInterface == Spec => []NullOnlyAfterFailure
<1>1. IInv => NullOnlyAfterFailure
  BY DEF IInv, DiskInv, Registered
<1> QED  BY <1>1, Invariant, PTL

(* The disk of a usable SD card has the size of the card in the slot.      *)
THEOREM SizeOfCard == Spec => []SdSize
<1>1. ASSUME IInv PROVE SdSize
  BY <1>1 DEF IInv, DriverInv, SoundDevices, DiskInv, Sized, Initialises, SdSize, Done, Devices
<1> QED  BY <1>1, Invariant, PTL
-----------------------------------------------------------------------------
(* Inside a command: facts about numbers and about blocks in order.        *)

\* What a register of CountLimit values holds of a number of blocks.
LEMMA RegisterValue ==
  ASSUME NEW n \in Nat
  PROVE  /\ n % CountLimit \in 0 .. CountLimit - 1
         /\ n % CountLimit <= n
         /\ n < CountLimit => n % CountLimit = n
  BY LimitAssumption

\* The first n blocks, in order.
Upto(n) == [i \in 1 .. n |-> i]

\* It is a sequence of n numbers.
LEMMA UptoIsSeq ==
  ASSUME NEW n \in Nat
  PROVE  Upto(n) \in Seq(Nat) /\ Len(Upto(n)) = n
  BY DEF Upto

\* The next block in order follows the first n.
LEMMA OneMoreBlock ==
  ASSUME NEW n \in Nat
  PROVE  Upto(n) \o << n + 1 >> = Upto(n + 1)
  <1> DEFINE more == Upto(n) \o << n + 1 >>
  <1>1. /\ Upto(n) \in Seq(Nat) /\ Len(Upto(n)) = n
        /\ Upto(n + 1) \in Seq(Nat) /\ Len(Upto(n + 1)) = n + 1
    BY UptoIsSeq
  <1>2. << n + 1 >> \in Seq(Nat) /\ Len(<< n + 1 >>) = 1
    OBVIOUS
  <1>3. more \in Seq(Nat) /\ Len(more) = n + 1
    BY <1>1, <1>2, ConcatProperties
  <1>4. ASSUME NEW i \in 1 .. n + 1 PROVE more[i] = Upto(n + 1)[i]
    <2>1. more[i] = IF i <= n THEN Upto(n)[i] ELSE << n + 1 >>[i - n]
      BY <1>1, <1>2, ConcatProperties
    <2>2. CASE i <= n
      BY <2>1, <2>2 DEF Upto
    <2>3. CASE i = n + 1
      BY <2>1, <2>3 DEF Upto
    <2>4. i <= n \/ i = n + 1
      OBVIOUS
    <2>5. QED BY <2>2, <2>3, <2>4
  <1> HIDE DEF more
  <1>5. more = Upto(n + 1)
    BY <1>1, <1>3, <1>4, SeqEqual
  <1>6. QED BY <1>5 DEF more

-----------------------------------------------------------------------------
(* Inside a command: the inductive invariant.                              *)

Failed == "GW" \in raised
InCommand == place # "idle"
Quiet == ~ Failed /\ job.state = "ended"

\* The bits the program can read are those raised since its command was
\* written, until it clears them.
BitsKept ==
  /\ bits \subseteq raised
  /\ InCommand => bits = raised

\* What has happened in the controller when a command is over, or when the
\* busy bit has fallen.
JobBooks ==
  /\ job.state = "running" => ~ Failed
  /\ InCommand => job.state # "none"
  /\ InCommand /\ job.state = "ended" => Failed \/ Responded
  /\ InCommand /\ ~ busy => job.state = "ended" \/ (~ busyCovers /\ Responded)

\* What the program has seen of it.
Seen ==
  /\ place = "data" /\ status1.error => Failed
  /\ place = "data" /\ ~ status1.error /\ ~ status1.busy =>
       Responded /\ (busyCovers => Quiet)
  /\ place \in {"status0", "respend"} => Responded /\ (busyCovers => Quiet)
  /\ place = "respend" => status0 \subseteq raised

\* What it says of it.
Reported ==
  /\ place \in {"status1", "data", "status0", "respend"} => 4 \notin error
  /\ place \in {"leave", "idle"} =>
       \/ 4 \in error /\ Failed
       \/ 4 \notin error /\ (busyCovers => ~ Failed /\ job.state # "running")
  /\ place \in {"leave", "idle"} /\ kind # "plain" => 4 \in error \/ 1 \in error

\* Where the blocks are.
Moved ==
  Transfer(kind) /\ asked < CountLimit =>
    IF kind = "read"
    THEN memory \o fifo = Upto(asked - job.left)
    ELSE /\ written = Upto(asked - job.left)
         /\ \/ fifo = << >> /\ to_move = job.left
            \/ fifo = << asked - job.left + 1 >> /\ to_move = job.left - 1

\* When the data has ended, and that the program has seen it.
Ended ==
  /\ Transfer(kind) => asked \in Counts
  /\ job.left <= asked % CountLimit
  /\ "DATAEND" \in raised /\ ~ Failed =>
       job.state = "ended" /\ job.left = 0 /\ (kind = "read" => fifo = << >>)
  /\ place \in {"leave", "idle"} /\ Transfer(kind) =>
       4 \in error \/ "DATAEND" \in raised
  /\ 4 \in error => Failed

CommandInv == TypeOK /\ BitsKept /\ JobBooks /\ Seen /\ Reported /\ Moved /\ Ended

\* The blocks left to the controller are some of those asked for.
LEMMA Bounds ==
  ASSUME CommandInv
  PROVE  asked \in Nat /\ job.left \in 0 .. asked /\ to_move \in 0 .. asked
  <1>1. asked \in Nat
    BY CountsAssumption DEF CommandInv, TypeOK
  <1>2. asked % CountLimit <= asked /\ asked % CountLimit \in Nat
    BY <1>1, RegisterValue, LimitAssumption
  <1>3. job.left \in Nat /\ job.left <= asked % CountLimit /\ to_move \in 0 .. asked
    BY LimitAssumption DEF CommandInv, TypeOK, Ended, Jobs
  <1> HIDE DEF CommandInv
  <1>4. QED BY <1>1, <1>2, <1>3

\* A block has gone through the FIFO.
LEMMA OneBlockLess ==
  ASSUME TypeOK, job.left > 0, job' = [job EXCEPT !.left = @ - 1]
  PROVE  /\ job' \in Jobs
         /\ job'.left = job.left - 1 /\ job'.state = job.state
  <1>1. job \in Jobs
    BY DEF TypeOK
  <1>2. job.left - 1 \in 0 .. CountLimit - 1
    BY <1>1, LimitAssumption DEF Jobs
  <1>3. QED BY <1>1, <1>2 DEF Jobs

\* Before the first command.
LEMMA CommandStart == CommandInit => CommandInv
  <1> SUFFICES ASSUME CommandInit PROVE CommandInv
    OBVIOUS
  <1> USE LimitAssumption DEF CommandInit, NoJob, Jobs
  <1>1. << >> \in Seq(Nat) /\ Len(<< >>) = 0
    BY EmptySeq
  <1>2. TypeOK
    <2>1. job \in Jobs
      OBVIOUS
    <2>2. status1 \in [busy : BOOLEAN, error : BOOLEAN]
      BY DEF NoStatus1
    <2>3. /\ place \in {"idle", "status1", "data", "status0", "respend", "leave"}
          /\ kind \in Kinds /\ asked \in Counts \cup {0} /\ to_move \in 0 .. asked
      BY DEF Kinds
    <2>6. busy \in BOOLEAN /\ busyCovers \in BOOLEAN
      OBVIOUS
    <2>4. status0 \subseteq {"CMDRESPEND", "DATAEND"} /\ error \subseteq {1, 2, 4}
          /\ bits \subseteq Bits /\ raised \subseteq Bits
      OBVIOUS
    <2>5. QED BY <1>1, <2>1, <2>2, <2>3, <2>4, <2>6 DEF TypeOK
  <1>3. BitsKept /\ JobBooks /\ Seen /\ Reported
    BY DEF BitsKept, JobBooks, Seen, Reported, InCommand, Failed
  <1>4. Moved /\ Ended
    BY RegisterValue DEF Moved, Ended, Transfer, Failed
  <1>5. QED BY <1>2, <1>3, <1>4 DEF CommandInv

\* One step of the program or of the controller.
LEMMA CommandStep == CommandInv /\ [CommandNext]_commandVars => CommandInv'
  <1> SUFFICES ASSUME CommandInv, [CommandNext]_commandVars PROVE CommandInv'
    OBVIOUS
  <1> USE LimitAssumption, CountsAssumption
  <1>a. << >> \in Seq(Nat) /\ Len(<< >>) = 0
    BY EmptySeq
  <1> DEFINE Books == BitsKept' /\ JobBooks' /\ Seen' /\ Reported'
             Blocks == Moved' /\ Ended'
  <1>1. ASSUME NEW k \in Kinds, NEW n \in Counts \cup {0},
               Transfer(k) => n \in Counts, Issue(k, n)
        PROVE  CommandInv'
    <2>0. n \in Nat /\ n % CountLimit \in 0 .. CountLimit - 1
      BY RegisterValue
    <2>1. TypeOK'
      <3>1. job' \in Jobs
        BY <1>1, <2>0 DEF Issue, Jobs
      <3>2. status1' \in [busy : BOOLEAN, error : BOOLEAN]
        BY <1>1 DEF Issue, NoStatus1
      <3>3. QED BY <1>1, <1>a, <2>0, <3>1, <3>2 DEF Issue, CommandInv, TypeOK
    <2>2. Books
      BY <1>1 DEF Issue, CommandInv, BitsKept, JobBooks, Seen, Reported,
         InCommand, Failed, Responded
    <2>3. Blocks
      <3>1. /\ kind' = k /\ asked' = n /\ to_move' = n /\ raised' = {} /\ error' = {}
            /\ fifo' = << >> /\ memory' = << >> /\ written' = << >>
            /\ place' = "status1" /\ job'.left = n % CountLimit
        BY <1>1 DEF Issue
      <3>2. n < CountLimit => n % CountLimit = n
        BY <2>0, RegisterValue
      <3>3. << >> \o << >> = << >> /\ Upto(0) = << >>
        BY <1>a, ConcatEmptySeq, UptoIsSeq, EmptySeq
      <3>4. Moved'
        BY <2>0, <3>1, <3>2, <3>3 DEF Moved, Transfer
      <3>5. Ended'
        BY <1>1, <2>0, <3>1 DEF Ended, Transfer, Failed
      <3>6. QED BY <3>4, <3>5
    <2>4. QED BY <2>1, <2>2, <2>3 DEF CommandInv
  <1>2. ASSUME ReadStatus1 PROVE CommandInv'
    <2>1. TypeOK'
      BY <1>2 DEF ReadStatus1, CommandInv, TypeOK, controllerVars
    <2>2. Books
      BY <1>2 DEF ReadStatus1, CommandInv, TypeOK, BitsKept, JobBooks, Seen,
         Reported,
        InCommand, Failed, Responded, Quiet, controllerVars
    <2>3. Blocks
      BY <1>2 DEF ReadStatus1, CommandInv, Moved, Ended, Transfer, Failed,
         controllerVars
    <2>4. QED BY <2>1, <2>2, <2>3 DEF CommandInv
  <1>3. ASSUME MoveData PROVE CommandInv'
    <2>1. TypeOK'
      BY <1>3, <1>a, ConcatProperties DEF MoveData, Examine, CommandInv, TypeOK
    <2>2. Books
      BY <1>3 DEF MoveData, Examine, CommandInv, TypeOK, BitsKept, JobBooks, Seen,
         Reported,
        InCommand, Failed, Responded, Quiet
    <2>3. Moved'
      <3>1. /\ UNCHANGED << kind, asked, job, written >>
            /\ asked \in Nat /\ to_move \in Nat /\ job.left \in 0 .. asked
        BY <1>3, Bounds DEF MoveData
      <3>2. CASE kind = "read"
        <4>1. memory' \o fifo' = memory \o fifo
          <5>1. \/ memory' = memory \o fifo /\ fifo' = << >>
                \/ memory' = memory /\ fifo' = fifo
            BY <1>3, <3>2 DEF MoveData
          <5>2. memory \o fifo \in Seq(Nat)
            BY ConcatProperties DEF CommandInv, TypeOK
          <5>3. (memory \o fifo) \o << >> = memory \o fifo
            BY <5>2, ConcatEmptySeq
          <5>4. QED BY <5>1, <5>3
        <4>2. QED BY <3>1, <3>2, <4>1 DEF CommandInv, Moved, Transfer
      <3>3. CASE kind = "write"
        BY <1>3, <1>a, <3>1, <3>3 DEF MoveData, CommandInv, Moved, Transfer
      <3>4. CASE ~ Transfer(kind)
        BY <3>1, <3>4 DEF Moved, Transfer
      <3>5. QED BY <3>2, <3>3, <3>4 DEF Transfer
    <2>4. Ended'
      BY <1>3 DEF MoveData, Examine, CommandInv, TypeOK, Moved, Ended, Transfer,
         Failed, Seen
    <2>5. QED BY <2>1, <2>2, <2>3, <2>4 DEF CommandInv
  <1>4. ASSUME ReadStatus0 PROVE CommandInv'
    <2>1. TypeOK'
      BY <1>4 DEF ReadStatus0, CommandInv, TypeOK, controllerVars, Bits
    <2>2. Books
      BY <1>4 DEF ReadStatus0, CommandInv, TypeOK, BitsKept, JobBooks, Seen,
         Reported,
        InCommand, Failed, Responded, Quiet, controllerVars
    <2>3. Blocks
      BY <1>4 DEF ReadStatus0, CommandInv, Moved, Ended, Transfer, Failed,
         controllerVars
    <2>4. QED BY <2>1, <2>2, <2>3 DEF CommandInv
  <1>5. ASSUME ReadRespend PROVE CommandInv'
    <2>1. TypeOK'
      BY <1>5 DEF ReadRespend, CommandInv, TypeOK, controllerVars
    <2>2. Books
      BY <1>5 DEF ReadRespend, CommandInv, TypeOK, BitsKept, JobBooks, Seen,
         Reported,
        InCommand, Failed, Responded, Quiet, controllerVars
    <2>3. Blocks
      BY <1>5 DEF ReadRespend, Flags, CommandInv, Moved, Ended, Transfer, Failed,
         Seen, controllerVars
    <2>4. QED BY <2>1, <2>2, <2>3 DEF CommandInv
  <1>6. ASSUME Leave PROVE CommandInv'
    <2>1. TypeOK'
      BY <1>6 DEF Leave, CommandInv, TypeOK
    <2>2. Books
      BY <1>6 DEF Leave, CommandInv, TypeOK, BitsKept, JobBooks, Seen, Reported,
        InCommand, Failed, Responded, Quiet
    <2>3. Blocks
      BY <1>6 DEF Leave, CommandInv, Moved, Ended, Transfer, Failed
    <2>4. QED BY <2>1, <2>2, <2>3 DEF CommandInv
  <1>7. ASSUME Respond PROVE CommandInv'
    <2>1. TypeOK'
      BY <1>7 DEF Respond, Raise, CommandInv, TypeOK, programVars, Bits
    <2>2. Books
      BY <1>7 DEF Respond, Raise, CommandInv, TypeOK, BitsKept, JobBooks, Seen,
         Reported,
        InCommand, Failed, Responded, Quiet, programVars
    <2>3. Blocks
      BY <1>7 DEF Respond, Raise, CommandInv, Moved, Ended, Transfer, Failed,
         programVars
    <2>4. QED BY <2>1, <2>2, <2>3 DEF CommandInv
  <1>8. ASSUME FifoFills PROVE CommandInv'
    <2> DEFINE b == (asked % CountLimit) - job.left + 1
    <2>0. /\ asked \in Nat /\ asked % CountLimit \in 0 .. asked
          /\ job.left \in 1 .. asked % CountLimit /\ b \in Nat
          /\ asked < CountLimit => b = asked - job.left + 1
      BY <1>8, RegisterValue, SMTT(60) DEF FifoFills, CommandInv, TypeOK, Ended, Jobs
    <2>1. TypeOK'
      <3>1. fifo' \in Seq(Nat) /\ Len(fifo') = 1
        BY <1>8, <2>0 DEF FifoFills
      <3>2. job' \in Jobs
        BY <1>8, OneBlockLess DEF FifoFills, CommandInv
      <3>3. QED BY <1>8, <3>1, <3>2 DEF FifoFills, CommandInv, TypeOK, programVars
    <2>2. Books
      BY <1>8 DEF FifoFills, CommandInv, TypeOK, BitsKept, JobBooks, Seen, Reported,
        InCommand, Failed, Responded, Quiet, programVars
    <2>3. Blocks
      <3>1. ASSUME asked < CountLimit PROVE memory' \o fifo' = Upto(asked - job'.left)
        <4>1. memory = Upto(asked - job.left)
          BY <1>8, <3>1, ConcatEmptySeq DEF FifoFills, CommandInv, TypeOK, Moved,
             Transfer
        <4>2. memory' = memory /\ fifo' = << b >> /\ job'.left = job.left - 1
          BY <1>8 DEF FifoFills, programVars, CommandInv, TypeOK
        <4>3. asked - job.left \in Nat /\ asked - job'.left = (asked - job.left) + 1
          BY <2>0, <4>2
        <4>4. QED BY <2>0, <3>1, <4>1, <4>2, <4>3, OneMoreBlock
      <3>2. Moved'
        BY <1>8, <3>1 DEF FifoFills, programVars, Moved, Transfer
      <3>3. Ended'
        BY <1>8, <2>0 DEF FifoFills, CommandInv, TypeOK, Ended, Transfer, Failed,
           programVars
      <3>4. QED BY <3>2, <3>3
    <2>4. QED BY <2>1, <2>2, <2>3 DEF CommandInv
  <1>9. ASSUME FifoDrains PROVE CommandInv'
    <2>1. TypeOK'
      <3>1. written' \in Seq(Nat)
        BY <1>9, ConcatProperties DEF FifoDrains, CommandInv, TypeOK
      <3>2. job' \in Jobs
        BY <1>9, OneBlockLess DEF FifoDrains, CommandInv
      <3>3. QED BY <1>9, <1>a, <3>1, <3>2 DEF FifoDrains, CommandInv, TypeOK,
                   programVars
    <2>2. Books
      BY <1>9 DEF FifoDrains, CommandInv, TypeOK, BitsKept, JobBooks, Seen,
         Reported,
        InCommand, Failed, Responded, Quiet, programVars
    <2>3. Blocks
      <3>0. /\ asked \in Nat /\ asked % CountLimit \in 0 .. asked
            /\ job.left \in 1 .. asked % CountLimit
            /\ job'.left = job.left - 1 /\ fifo' = << >> /\ written' = written \o fifo
            /\ UNCHANGED << asked, to_move, kind >>
        BY <1>9, RegisterValue DEF FifoDrains, CommandInv, TypeOK, Ended, programVars, Jobs
      <3>1. ASSUME asked < CountLimit
            PROVE  written' = Upto(asked - job'.left) /\ to_move' = job'.left
        <4>1. /\ written = Upto(asked - job.left)
              /\ fifo = << asked - job.left + 1 >> /\ to_move = job.left - 1
          BY <1>9, <3>1 DEF FifoDrains, CommandInv, Moved, Transfer
        <4>2. asked - job.left \in Nat /\ asked - job'.left = (asked - job.left) + 1
          BY <3>0, Bounds
        <4>3. QED BY <3>0, <4>1, <4>2, OneMoreBlock
      <3>2. Moved'
        BY <1>9, <3>0, <3>1 DEF FifoDrains, Moved, Transfer
      <3>3. Ended'
        BY <1>9, <3>0 DEF FifoDrains, CommandInv, TypeOK, Ended, Transfer, Failed,
           programVars
      <3>4. QED BY <3>2, <3>3
    <2>4. QED BY <2>1, <2>2, <2>3 DEF CommandInv
  <1>10. ASSUME JobEnds PROVE CommandInv'
    <2>1. TypeOK'
      BY <1>10 DEF JobEnds, Raise, CommandInv, TypeOK, programVars, Bits, Jobs
    <2>2. Books
      BY <1>10 DEF JobEnds, Raise, CommandInv, TypeOK, BitsKept, JobBooks, Seen,
         Reported,
        InCommand, Failed, Responded, Quiet, programVars
    <2>3. Blocks
      <3>1. Moved'
        BY <1>10, SMTT(60) DEF JobEnds, Raise, CommandInv, TypeOK, JobBooks, Moved, Ended,
           Transfer, Failed, programVars
      <3>2. Ended'
        BY <1>10 DEF JobEnds, Raise, CommandInv, TypeOK, JobBooks, Moved, Ended,
           Transfer, Failed, programVars
      <3>3. QED BY <3>1, <3>2
    <2>4. QED BY <2>1, <2>2, <2>3 DEF CommandInv
  <1>11. ASSUME JobFails PROVE CommandInv'
    <2>1. TypeOK'
      BY <1>11 DEF JobFails, Raise, CommandInv, TypeOK, programVars, Bits, Jobs
    <2>2. Books
      BY <1>11 DEF JobFails, Raise, CommandInv, TypeOK, BitsKept, JobBooks, Seen,
         Reported,
        InCommand, Failed, Responded, Quiet, programVars
    <2>3. Blocks
      BY <1>11 DEF JobFails, Raise, CommandInv, TypeOK, Moved, Ended, Transfer,
         Failed, programVars
    <2>4. QED BY <2>1, <2>2, <2>3 DEF CommandInv
  <1>12. ASSUME BusyFalls PROVE CommandInv'
    <2>1. TypeOK'
      BY <1>12 DEF BusyFalls, CommandInv, TypeOK, programVars
    <2>2. Books
      BY <1>12 DEF BusyFalls, CommandInv, TypeOK, BitsKept, JobBooks, Seen,
         Reported,
        InCommand, Failed, Responded, Quiet, programVars
    <2>3. Blocks
      BY <1>12 DEF BusyFalls, CommandInv, Moved, Ended, Transfer, Failed, programVars
    <2>4. QED BY <2>1, <2>2, <2>3 DEF CommandInv
  <1>13. CASE UNCHANGED commandVars
    <2>1. TypeOK' /\ BitsKept' /\ JobBooks'
      BY <1>13 DEF commandVars, programVars, controllerVars, CommandInv, TypeOK, BitsKept, JobBooks,
         InCommand, Failed, Responded, Quiet, Transfer
    <2>2. Seen' /\ Reported' /\ Moved' /\ Ended'
      BY <1>13 DEF commandVars, programVars, controllerVars, CommandInv, Seen, Reported, Moved, Ended,
         InCommand, Failed, Responded, Quiet, Transfer
    <2>3. QED BY <2>1, <2>2 DEF CommandInv
  <1>14. QED
    BY <1>1, <1>2, <1>3, <1>4, <1>5, <1>6, <1>7, <1>8, <1>9, <1>10, <1>11,
       <1>12, <1>13
       DEF CommandNext, CommandProgram, Controller, Transfer

-----------------------------------------------------------------------------
(* Theorems about a command.                                               *)

\* In every behaviour the program's view and the controller's state agree.
THEOREM CommandInvariant == CommandSpec => []CommandInv
  <1>1. QED BY CommandStart, CommandStep, PTL DEF CommandSpec

\* The size of a call never wraps below zero, whatever the FIFO does.
THEOREM TypeCorrect == CommandSpec => []TypeOK
  <1>1. CommandInv => TypeOK BY DEF CommandInv
  <1>2. QED BY <1>1, CommandInvariant, PTL

\* No error is missed between two reads of the status registers, and none is
\* left for the next command, if busy lasts as long as a command can fail.
THEOREM ErrorsAreReported == CommandSpec => []ErrorsReported
  <1>1. CommandInv => ErrorsReported
    BY DEF CommandInv, TypeOK, Reported, Failed, Over, ErrorsReported
  <1>2. QED BY <1>1, CommandInvariant, PTL

\* A command that ends without an error has the response it asked for.
THEOREM ResponseIsThere == CommandSpec => []ResponseArrived
  <1>1. CommandInv => ResponseArrived
    BY DEF CommandInv, Reported, Over, ResponseArrived
  <1>2. QED BY <1>1, CommandInvariant, PTL

\* A transfer of any number of blocks that the register can count moves all of
\* them, in order, or reports an error.
THEOREM TransfersComplete == CommandSpec => []TransferComplete
  <1>1. CommandInv => TransferComplete
    <2> SUFFICES ASSUME CommandInv, Over, Transfer(kind), ~ Failed, asked < CountLimit
                 PROVE  (IF kind = "read" THEN memory ELSE written) = Upto(asked)
      BY DEF TransferComplete, Failed, Upto
    <2>1. job.left = 0 /\ (kind = "read" => fifo = << >>)
      BY DEF CommandInv, Ended, Over
    <2>0. Upto(asked - job.left) = Upto(asked)
      <3>1. asked - 0 = asked
        BY Bounds
      <3>2. QED BY <2>1, <3>1
    <2>2. CASE kind = "read"
      BY <2>1, <2>0, <2>2, ConcatEmptySeq DEF CommandInv, TypeOK, Moved
    <2>3. CASE kind # "read"
      BY <2>1, <2>0, <2>3 DEF CommandInv, TypeOK, Moved
    <2>4. QED BY <2>2, <2>3
  <1>2. QED BY <1>1, CommandInvariant, PTL

-----------------------------------------------------------------------------
(* The drives.                                                             *)

\* The fields of the records, so that a change of one leaves the others.
VolShape(r) ==
    r = [mounted |-> r.mounted, id |-> r.id, cdir |-> r.cdir, noinit |-> r.noinit,
         usable |-> r.usable, era |-> r.era]
EffectShape(m) == m = [vol |-> m.vol, id |-> m.id, tree |-> m.tree, ok |-> m.ok, obj |-> m.obj]

\* IDs are given out in order.
VolOK(r, id) == VolShape(r) /\ r.id \in Nat /\ r.id <= id

\* A handle with the ID of a volume in use was opened in the present mount.
HandleOK(h) ==
    /\ h.vol \in Drives /\ h.id \in Nat /\ h.id <= Fsid
    /\ vols[h.vol].mounted /\ ~vols[h.vol].noinit /\ vols[h.vol].id = h.id
           => h.era = vols[h.vol].era

MountInv ==
    /\ Fsid \in Nat /\ default \in Drives \union {NoDrive} /\ CurrVol \in Drives
    /\ vols = [v \in Drives |-> vols[v]]
    /\ \A v \in Drives : VolOK(vols[v], Fsid)
    /\ \A h \in files :
           HandleOK(h) /\ h.drive \in Drives /\ h.filename \in Paths
    /\ \A d \in dirs : HandleOK(d)
    /\ OwnMount

\* What find_volume and Remount may leave of volume v: a volume in use is the
\* one it was, or has an ID that was not given out before.
Sound(v, m) ==
    /\ m.id \in Nat /\ Fsid <= m.id /\ VolOK(m.vol, m.id)
    /\ m.vol.mounted /\ ~m.vol.noinit =>
           \/ m.vol.id > Fsid
           \/ /\ vols[v].mounted /\ ~vols[v].noinit
              /\ m.vol.id = vols[v].id /\ m.vol.era = vols[v].era

\* A call on a mounted volume changes nothing of it but its current directory.
SameMount(m, n) ==
    /\ n.id = m.id /\ VolShape(n.vol)
    /\ n.vol.mounted = m.vol.mounted /\ n.vol.noinit = m.vol.noinit
    /\ n.vol.id = m.vol.id /\ n.vol.era = m.vol.era

LEMMA RemountSound ==
    ASSUME MountInv, NEW v \in Drives, NEW m \in Remount(v)
    PROVE  EffectShape(m) /\ Sound(v, m)
<1> DEFINE lost == [mounted |-> FALSE, id |-> vols[v].id, cdir |-> vols[v].cdir,
                    noinit |-> ~vols[v].usable, usable |-> vols[v].usable, era |-> vols[v].era]
           anew == [mounted |-> TRUE, id |-> Fsid + 1, cdir |-> Root, noinit |-> FALSE,
                    usable |-> TRUE, era |-> vols[v].era + 1]
<1>1. vols[v].id \in Nat /\ vols[v].id <= Fsid /\ Fsid \in Nat
  BY DEF MountInv, VolOK
<1>2. m = At(v, lost, Fsid, FALSE) \/ m = At(v, anew, Fsid + 1, TRUE)
  BY DEF Remount
<1> QED  BY <1>1, <1>2 DEF At, EffectShape, Sound, VolOK, VolShape

LEMMA FindSound ==
    ASSUME MountInv, NEW v \in Drives, NEW m \in find_volume(v)
    PROVE  EffectShape(m) /\ Sound(v, m)
<1>1. CASE vols[v].mounted /\ ~vols[v].noinit
  <2>1. m = At(v, vols[v], Fsid, TRUE)
    BY <1>1 DEF find_volume
  <2> QED  BY <2>1, <1>1 DEF At, MountInv, EffectShape, Sound, VolOK
<1>2. CASE ~(vols[v].mounted /\ ~vols[v].noinit)
  BY <1>2, RemountSound DEF find_volume
<1> QED  BY <1>1, <1>2

\* The operators of fatfs leave the mount alone.
LEMMA OpsKeepMount ==
    ASSUME NEW m, EffectShape(m), VolShape(m.vol), NEW p, NEW q, NEW create,
           NEW n \in f_open(m, p, create) \union f_stat(m, p) \union f_opendir(m, p)
                     \union f_chdir(m, p) \union f_mkdir(m, p) \union f_unlink(m, p)
                     \union f_rename(m, p, q) \union Try(m, TRUE, {m})
    PROVE  SameMount(m, n)
<1> DEFINE Kept(k) == k.vol = m.vol /\ k.id = m.id
<1>2. ASSUME NEW o PROVE Kept([m EXCEPT !.obj = o]) /\ Kept([m EXCEPT !.ok = FALSE]) /\ Kept(m)
  BY DEF EffectShape
<1>3. ASSUME Kept(n) PROVE SameMount(m, n)
  BY <1>3 DEF SameMount
<1>4. CASE n \in f_chdir(m, p)
  <2>1. n = [m EXCEPT !.ok = FALSE]
        \/ n = [m EXCEPT !.obj = Follow(m, p).obj, !.vol.cdir = Follow(m, p).obj]
    BY <1>4 DEF f_chdir, Try
  <2>2. ASSUME NEW o, n = [m EXCEPT !.obj = o, !.vol.cdir = o] PROVE SameMount(m, n)
    <3>1. n.id = m.id /\ n.vol = [m.vol EXCEPT !.cdir = o]
      BY <2>2 DEF EffectShape
    <3>2. n.vol = [mounted |-> m.vol.mounted, id |-> m.vol.id, cdir |-> o, noinit |-> m.vol.noinit,
                   usable |-> m.vol.usable, era |-> m.vol.era]
      BY <3>1 DEF VolShape
    <3> QED  BY <3>1, <3>2 DEF SameMount, VolShape
  <2> QED  BY <2>1, <2>2, <1>2, <1>3
<1>5. CASE n \in f_stat(m, p) \union f_opendir(m, p) \union Try(m, TRUE, {m})
  <2>1. n = [m EXCEPT !.ok = FALSE] \/ n = [m EXCEPT !.obj = Follow(m, p).obj] \/ n = m
    BY <1>5 DEF f_stat, f_opendir, Try
  <2> QED  BY <2>1, <1>2, <1>3
<1>6. ASSUME NEW dir, NEW k \in Entered(m, p, dir) PROVE Kept(k)
  <2>1. \E o, e : k = [m EXCEPT !.obj = o, !.tree = @ \union {e}]
    BY DEF Entered
  <2>2. ASSUME NEW o, NEW e PROVE Kept([m EXCEPT !.obj = o, !.tree = @ \union {e}])
    BY DEF EffectShape
  <2> QED  BY <2>1, <2>2
<1>7. CASE n \in f_open(m, p, create) \union f_mkdir(m, p)
  <2>1. \/ n = [m EXCEPT !.ok = FALSE] \/ n = [m EXCEPT !.obj = Follow(m, p).obj]
        \/ n \in Entered(m, p, FALSE) \/ n \in Entered(m, p, TRUE)
    BY <1>7 DEF f_open, f_mkdir, Try
  <2> QED  BY <2>1, <1>2, <1>3, <1>6
<1>8. CASE n \in f_unlink(m, p) \union f_rename(m, p, q)
  <2>1. n = [m EXCEPT !.ok = FALSE] \/ \E o, t : n = [m EXCEPT !.obj = o, !.tree = t]
    <3> DEFINE kept == {e \in m.tree : e.obj # Follow(m, p).obj}
    <3>1. n \in f_unlink(m, p) =>
              n = [m EXCEPT !.ok = FALSE] \/ n = [m EXCEPT !.obj = Follow(m, p).obj, !.tree = kept]
      BY DEF f_unlink, Try
    <3>2. n \in f_rename(m, p, q) =>
              \/ n = [m EXCEPT !.ok = FALSE]
              \/ \E e : n = [m EXCEPT !.obj = Follow(m, p).obj, !.tree = kept \union {e}]
      BY DEF f_rename, Try
    <3> QED  BY <1>8, <3>1, <3>2
  <2>2. ASSUME NEW o, NEW t PROVE Kept([m EXCEPT !.obj = o, !.tree = t])
    BY DEF EffectShape
  <2>3. CASE n = [m EXCEPT !.ok = FALSE]
    BY <2>3, <1>2, <1>3
  <2>4. CASE \E o, t : n = [m EXCEPT !.obj = o, !.tree = t]
    <3>1. PICK o, t : n = [m EXCEPT !.obj = o, !.tree = t]
      BY <2>4
    <3>2. Kept(n)
      BY <3>1, <2>2
    <3> QED  BY <3>2, <1>3
  <2> QED  BY <2>1, <2>3, <2>4
<1> QED  BY <1>4, <1>5, <1>7, <1>8

\* Whatever a call leaves behind in volume v, the handles stay sound.
LEMMA LeaveKeeps ==
    ASSUME MountInv, NEW v \in Drives, NEW m, NEW n, Sound(v, m), SameMount(m, n), LeaveVolume(v, n)
    PROVE  /\ Fsid' \in Nat /\ vols' = [w \in Drives |-> vols'[w]]
           /\ \A w \in Drives : VolOK(vols'[w], Fsid')
           /\ \A h : HandleOK(h) => HandleOK(h)'
           /\ vols'[v] = n.vol /\ n.vol.id \in Nat /\ n.vol.id <= Fsid'
<1>1. Fsid' = m.id /\ Fsid \in Nat /\ Fsid' \in Nat /\ Fsid <= Fsid'
  BY DEF MountInv, Sound, SameMount, LeaveVolume
<1>2. vols' = [vols EXCEPT ![v] = n.vol] /\ vols = [w \in Drives |-> vols[w]]
  BY DEF MountInv, LeaveVolume
<1>3. vols'[v] = n.vol /\ \A w \in Drives \ {v} : vols'[w] = vols[w]
  BY <1>2
<1>4. VolOK(n.vol, Fsid')
  BY <1>1 DEF Sound, SameMount, VolOK
<1>5. \A w \in Drives : VolOK(vols'[w], Fsid')
  BY <1>1, <1>3, <1>4 DEF MountInv, VolOK
<1>6. ASSUME NEW h, HandleOK(h) PROVE HandleOK(h)'
  <2>1. CASE h.vol # v
    BY <2>1, <1>1, <1>3, <1>6 DEF HandleOK
  <2>2. CASE h.vol = v
    BY <2>2, <1>1, <1>3, <1>6 DEF HandleOK, Sound, SameMount, MountInv, VolOK
  <2> QED  BY <2>1, <2>2
<1> QED  BY <1>1, <1>2, <1>4, <1>5, <1>6, <1>3 DEF VolOK

LEMMA VolumeOfPath ==
    ASSUME NEW p \in Paths, NEW c \in Drives
    PROVE  Volume(p, c) \in Drives
  BY DrivesAssumption DEF Volume

LEMMA Switched ==
    ASSUME MountInv, NEW p \in Paths, Switch(p)
    PROVE  FindDevice(p) \in Drives /\ CurrVol' \in Drives /\ Volume(p, FindDevice(p)) \in Drives
  BY DrivesAssumption DEF MountInv, Switch, FindDevice, Volume

\* A call that mounts volume v if it must and then works on it.
LEMMA PathCall ==
    ASSUME MountInv, NEW v \in Drives, NEW m \in find_volume(v), NEW p, NEW q, NEW create,
           NEW n \in f_open(m, p, create) \union f_stat(m, p) \union f_opendir(m, p)
                     \union f_chdir(m, p) \union f_mkdir(m, p) \union f_unlink(m, p)
                     \union f_rename(m, p, q) \union Try(m, TRUE, {m}),
           LeaveVolume(v, n)
    PROVE  /\ Fsid' \in Nat /\ vols' = [w \in Drives |-> vols'[w]]
           /\ \A w \in Drives : VolOK(vols'[w], Fsid')
           /\ \A h : HandleOK(h) => HandleOK(h)'
           /\ vols'[v] = n.vol /\ n.vol.id \in Nat /\ n.vol.id <= Fsid'
<1>1. EffectShape(m) /\ Sound(v, m) /\ VolShape(m.vol)
  BY FindSound DEF Sound, VolOK
<1>2. SameMount(m, n)
  BY <1>1, OpsKeepMount
<1> QED  BY <1>1, <1>2, LeaveKeeps

\* The calls with a path record no use of a handle.
LEMMA NoHandleUsed ==
    ASSUME NEW how \in {"path", "diropen", "fstat", "none"}, NEW goal, NEW acted, NEW want, NEW got,
           Count(how, goal, acted, want, got)
    PROVE  OwnMount'
  BY DEF Count, OwnMount

\* A handle that validate accepts is one of the present mount.
LEMMA ThroughOwnMount ==
    ASSUME NEW h, HandleOK(h), NEW how, Through(how, h)
    PROVE  OwnMount'
<1>1. PICK ok \in {FALSE, Valid(h)} :
          Count(how, h.vol, IF ok THEN h.vol ELSE NoDrive, h.era, IF ok THEN vols[h.vol].era ELSE h.era)
  BY DEF Through
<1>2. last'.want = h.era /\ last'.got = IF ok THEN vols[h.vol].era ELSE h.era
  BY <1>1 DEF Count
<1>3. ok => vols[h.vol].era = h.era
  BY DEF HandleOK, Valid
<1> QED  BY <1>2, <1>3 DEF OwnMount

LEMMA MountInit == DrivesInit => MountInv
<1> SUFFICES ASSUME DrivesInit PROVE MountInv
  OBVIOUS
<1>1. PICK usable \in [Drives -> BOOLEAN] :
          vols = [v \in Drives |-> [mounted |-> FALSE, id |-> 0, cdir |-> Root,
                                    noinit |-> TRUE, usable |-> usable[v], era |-> 0]]
  BY DEF DrivesInit
<1>2. \A v \in Drives : VolOK(vols[v], Fsid)
  BY <1>1 DEF DrivesInit, VolOK, VolShape
<1>3. vols = [v \in Drives |-> vols[v]]
  BY <1>1
<1> QED  BY <1>2, <1>3, DrivesAssumption DEF DrivesInit, MountInv, OwnMount

\* A call that opens nothing keeps the files and directories open, but for
\* the files' steadiness.
LEMMA OpenStay ==
    ASSUME MountInv, \A h : HandleOK(h) => HandleOK(h)', NEW hs,
           files' = files \/ files' = Unsettle(hs), dirs' = dirs
    PROVE  /\ \A h \in files' :
                  HandleOK(h)' /\ h.drive \in Drives /\ h.filename \in Paths
           /\ \A d \in dirs' : HandleOK(d)'
<1>2. ASSUME NEW h \in files, NEW k, k.vol = h.vol, k.id = h.id, k.era = h.era
      PROVE  HandleOK(k)'
  <2>1. HandleOK(h)'
    BY DEF MountInv
  <2> QED  BY <1>2, <2>1 DEF HandleOK
<1>3. \A d \in dirs' : HandleOK(d)'
  BY DEF MountInv
<1>4. CASE files' = files
  BY <1>3, <1>4 DEF MountInv
<1>5. CASE files' = Unsettle(hs)
  <2>1. ASSUME NEW k \in files'
        PROVE  HandleOK(k)' /\ k.drive \in Drives /\ k.filename \in Paths
    <3>1. PICK h \in files :
              k = [drive |-> h.drive, filename |-> h.filename, vol |-> h.vol, id |-> h.id,
                   obj |-> h.obj, era |-> h.era, steady |-> h.steady /\ h \notin hs]
      BY <1>5 DEF Unsettle
    <3>2. k.vol = h.vol /\ k.id = h.id /\ k.era = h.era
          /\ k.drive = h.drive /\ k.filename = h.filename
      BY <3>1
    <3> QED  BY <3>2, <1>2 DEF MountInv
  <2> QED  BY <2>1, <1>3
<1> QED  BY <1>4, <1>5

LEMMA MountNext == MountInv /\ [DrivesNext]_drivesVars => MountInv'
<1> SUFFICES ASSUME MountInv, [DrivesNext]_drivesVars PROVE MountInv'
  OBVIOUS
\* The two ways a step goes: it calls fatfs on a volume, or leaves the volumes alone.
<1>a. ASSUME UNCHANGED <<vols, Fsid>>
      PROVE  /\ Fsid' \in Nat /\ vols' = [w \in Drives |-> vols'[w]]
             /\ \A w \in Drives : VolOK(vols'[w], Fsid')
             /\ \A h : HandleOK(h) => HandleOK(h)'
  BY <1>a DEF MountInv, HandleOK
<1>b. ASSUME NEW v \in Drives, NEW n, vols'[v] = n.vol, n.vol.id \in Nat, n.vol.id <= Fsid',
             NEW h, h.vol = v, h.id = n.vol.id, h.era = n.vol.era
      PROVE  HandleOK(h)'
  BY <1>b DEF HandleOK
<1>1. ASSUME NEW p \in Paths, NEW create, Open(p, create) PROVE MountInv'
  <2> DEFINE v == Volume(p, FindDevice(p))
  <2>1. FindDevice(p) \in Drives /\ CurrVol' \in Drives /\ v \in Drives
    BY <1>1, Switched DEF Open
  <2>2. PICK m, n :
            /\ m \in find_volume(v) /\ n \in f_open(m, p, create)
            /\ LeaveVolume(v, n) /\ Outcome("path", p, v, n)
            /\ files' = files \union
                   (IF n.ok THEN {[drive |-> FindDevice(p), filename |-> p, vol |-> v, id |-> n.vol.id,
                                   obj |-> n.obj, era |-> n.vol.era, steady |-> TRUE]} ELSE {})
    BY <1>1 DEF Open
  <2> HIDE DEF v
  <2>3. /\ Fsid' \in Nat /\ vols' = [w \in Drives |-> vols'[w]]
        /\ \A w \in Drives : VolOK(vols'[w], Fsid')
        /\ \A h : HandleOK(h) => HandleOK(h)'
        /\ vols'[v] = n.vol /\ n.vol.id \in Nat /\ n.vol.id <= Fsid'
    BY <2>1, <2>2, PathCall
  <2>4. ASSUME NEW h \in files'
        PROVE  HandleOK(h)' /\ h.drive \in Drives /\ h.filename \in Paths
    <3>1. CASE h \in files
      BY <3>1, <2>3 DEF MountInv
    <3>2. CASE h = [drive |-> FindDevice(p), filename |-> p, vol |-> v, id |-> n.vol.id,
                    obj |-> n.obj, era |-> n.vol.era, steady |-> TRUE]
      <4>1. HandleOK(h)'
        BY <3>2, <2>1, <2>3, <1>b
      <4> QED  BY <4>1, <3>2, <2>1
    <3> QED  BY <2>2, <3>1, <3>2
  <2>5. OwnMount'
    BY <2>2, NoHandleUsed DEF Outcome
  <2>6. default' = default /\ dirs' = dirs
    BY <1>1 DEF Open
  <2> QED  BY <2>1, <2>3, <2>4, <2>5, <2>6 DEF MountInv
\* The calls with a path that open nothing.
<1>2. ASSUME NEW p \in Paths, NEW q \in Paths,
             Stat(p) \/ Chdir(p) \/ Mkdir(p) \/ Unlink(p) \/ Rename(p, q)
      PROVE  MountInv'
  <2> DEFINE v == Volume(p, FindDevice(p))
  <2>1. FindDevice(p) \in Drives /\ CurrVol' \in Drives /\ v \in Drives
    BY <1>2, Switched DEF Stat, Chdir, Mkdir, Unlink, Rename
  <2>2. PICK hs : default' = default /\ dirs' = dirs /\ (files' = files \/ files' = Unsettle(hs))
    BY <1>2 DEF Stat, Chdir, Mkdir, Unlink, Rename
  <2>3. PICK m, n :
            /\ m \in find_volume(v)
            /\ n \in f_stat(m, p) \union f_chdir(m, p) \union f_mkdir(m, p)
                     \union f_unlink(m, p) \union f_rename(m, p, q)
            /\ LeaveVolume(v, n) /\ Outcome("path", p, v, n)
    BY <1>2 DEF Stat, Chdir, Mkdir, Unlink, Rename
  <2> HIDE DEF v
  <2>4. /\ Fsid' \in Nat /\ vols' = [w \in Drives |-> vols'[w]]
        /\ \A w \in Drives : VolOK(vols'[w], Fsid')
        /\ \A h : HandleOK(h) => HandleOK(h)'
    BY <2>1, <2>3, PathCall
  <2>5. OwnMount'
    BY <2>3, NoHandleUsed DEF Outcome
  <2> QED  BY <2>1, <2>2, <2>4, <2>5, OpenStay DEF MountInv
<1>3. ASSUME NEW p \in Paths, Diropen(p) PROVE MountInv'
  <2> DEFINE v == Volume(p, CurrVol)
  <2>1. v \in Drives
    BY VolumeOfPath DEF MountInv
  <2>2. PICK m, n :
            /\ m \in find_volume(v) /\ n \in f_opendir(m, p)
            /\ LeaveVolume(v, n) /\ Outcome("diropen", p, v, n)
            /\ dirs' = dirs \union
                   (IF n.ok THEN {[vol |-> v, id |-> n.vol.id, obj |-> n.obj, era |-> n.vol.era]} ELSE {})
    BY <1>3 DEF Diropen
  <2> HIDE DEF v
  <2>3. /\ Fsid' \in Nat /\ vols' = [w \in Drives |-> vols'[w]]
        /\ \A w \in Drives : VolOK(vols'[w], Fsid')
        /\ \A h : HandleOK(h) => HandleOK(h)'
        /\ vols'[v] = n.vol /\ n.vol.id \in Nat /\ n.vol.id <= Fsid'
    BY <2>1, <2>2, PathCall
  <2>4. ASSUME NEW d \in dirs' PROVE HandleOK(d)'
    <3>1. CASE d \in dirs
      BY <3>1, <2>3 DEF MountInv
    <3>2. CASE d = [vol |-> v, id |-> n.vol.id, obj |-> n.obj, era |-> n.vol.era]
      BY <3>2, <2>1, <2>3, <1>b
    <3> QED  BY <2>2, <3>1, <3>2
  <2>5. OwnMount'
    BY <2>2, NoHandleUsed DEF Outcome
  <2>6. default' = default /\ CurrVol' = CurrVol /\ files' = files
    BY <1>3 DEF Diropen
  <2> QED  BY <2>3, <2>4, <2>5, <2>6 DEF MountInv
<1>4. ASSUME NEW h \in files, ReadWrite(h) \/ OnFile(h) \/ Close(h) PROVE MountInv'
  <2>1. OwnMount'
    BY <1>4, ThroughOwnMount DEF ReadWrite, OnFile, Close, MountInv
  <2>2. /\ UNCHANGED <<vols, Fsid, default, dirs>> /\ files' \subseteq files
        /\ CurrVol' \in {CurrVol, h.drive}
    BY <1>4 DEF ReadWrite, OnFile, Close
  <2> QED  BY <2>1, <2>2, <1>a DEF MountInv
<1>5. ASSUME NEW h \in files, Fstat(h) PROVE MountInv'
  <2> DEFINE v == Volume(h.filename, FstatDrive(h))
  <2>1. v \in Drives /\ CurrVol' \in Drives
    BY <1>5, VolumeOfPath DEF MountInv, Fstat, FstatDrive
  <2>2. PICK m, n :
            /\ m \in find_volume(v) /\ n \in f_stat(m, h.filename)
            /\ LeaveVolume(v, n)
            /\ Count("fstat", h.vol, IF n.ok THEN v ELSE NoDrive,
                     IF h.steady /\ Valid(h) THEN h.obj ELSE Nothing, n.obj)
    BY <1>5 DEF Fstat
  <2> HIDE DEF v
  <2>3. /\ Fsid' \in Nat /\ vols' = [w \in Drives |-> vols'[w]]
        /\ \A w \in Drives : VolOK(vols'[w], Fsid')
        /\ \A k : HandleOK(k) => HandleOK(k)'
    BY <2>1, <2>2, PathCall
  <2>4. OwnMount'
    BY <2>2, NoHandleUsed
  <2>5. default' = default /\ files' = files /\ dirs' = dirs
    BY <1>5 DEF Fstat
  <2> QED  BY <2>1, <2>3, <2>4, <2>5, OpenStay DEF MountInv
<1>6. ASSUME NEW d \in dirs, OnDir(d) \/ Dirclose(d) PROVE MountInv'
  <2>1. OwnMount'
    BY <1>6, ThroughOwnMount, NoHandleUsed DEF OnDir, Dirclose, MountInv
  <2>2. UNCHANGED <<vols, Fsid, default, CurrVol, files>> /\ dirs' \subseteq dirs
    BY <1>6 DEF OnDir, Dirclose
  <2> QED  BY <2>1, <2>2, <1>a DEF MountInv
<1>7. ASSUME NEW v \in Drives, Statvfs(v) PROVE MountInv'
  <2>1. PICK m, n :
            /\ m \in find_volume(v) /\ n \in Try(m, TRUE, {m})
            /\ LeaveVolume(v, n) /\ Count("path", v, IF n.ok THEN v ELSE NoDrive, Nothing, Nothing)
    BY <1>7 DEF Statvfs
  <2>2. /\ Fsid' \in Nat /\ vols' = [w \in Drives |-> vols'[w]]
        /\ \A w \in Drives : VolOK(vols'[w], Fsid')
        /\ \A h : HandleOK(h) => HandleOK(h)'
    BY <2>1, PathCall
  <2>3. OwnMount'
    BY <2>1, NoHandleUsed
  <2>4. UNCHANGED <<default, CurrVol, files, dirs>>
    BY <1>7 DEF Statvfs
  <2> QED  BY <2>2, <2>3, <2>4, OpenStay DEF MountInv
<1>8. ASSUME NEW v \in Drives, CheckReady(v) PROVE MountInv'
  <2>1. PICK m \in Remount(v) :
            LeaveVolume(v, m) /\ Count("path", v, IF m.ok THEN v ELSE NoDrive, Nothing, Nothing)
    BY <1>8 DEF CheckReady
  <2>2. Sound(v, m) /\ SameMount(m, m)
    BY RemountSound DEF SameMount, Sound, VolOK
  <2>3. /\ Fsid' \in Nat /\ vols' = [w \in Drives |-> vols'[w]]
        /\ \A w \in Drives : VolOK(vols'[w], Fsid')
        /\ \A h : HandleOK(h) => HandleOK(h)'
    BY <2>1, <2>2, LeaveKeeps
  <2>4. OwnMount'
    BY <2>1, NoHandleUsed
  <2>5. UNCHANGED <<default, CurrVol, files, dirs>>
    BY <1>8 DEF CheckReady
  <2> QED  BY <2>3, <2>4, <2>5, OpenStay DEF MountInv
<1>9. ASSUME NEW v \in Drives, Chdrive(v) PROVE MountInv'
  <2>1. OwnMount'
    BY <1>9, NoHandleUsed DEF Chdrive
  <2>2. UNCHANGED <<vols, Fsid, CurrVol, files, dirs>> /\ default' = v
    BY <1>9 DEF Chdrive
  <2> QED  BY <2>1, <2>2, <1>a DEF MountInv
<1>10. ASSUME NEW v \in Drives, SetUpDisk(v) PROVE MountInv'
  <2>1. PICK usable \in BOOLEAN :
            vols' = [vols EXCEPT ![v] = [mounted |-> @.mounted, id |-> @.id, cdir |-> @.cdir,
                                         noinit |-> TRUE, usable |-> usable, era |-> @.era + 1]]
    BY <1>10 DEF SetUpDisk
  <2>2. /\ vols' = [w \in Drives |-> vols'[w]] /\ \A w \in Drives \ {v} : vols'[w] = vols[w]
        /\ VolShape(vols'[v]) /\ vols'[v].noinit /\ vols'[v].id = vols[v].id
    BY <2>1 DEF MountInv, VolShape
  <2>3. UNCHANGED <<default, CurrVol, Fsid, files, dirs>>
    BY <1>10 DEF SetUpDisk
  <2>4. \A w \in Drives : VolOK(vols'[w], Fsid')
    BY <2>2, <2>3 DEF MountInv, VolOK
  <2>5. ASSUME NEW h, HandleOK(h) PROVE HandleOK(h)'
    BY <2>2, <2>3, <2>5 DEF HandleOK
  <2>6. OwnMount'
    BY <1>10, NoHandleUsed DEF SetUpDisk
  <2> QED  BY <2>2, <2>3, <2>4, <2>5, <2>6, OpenStay DEF MountInv
<1>11. CASE UNCHANGED drivesVars
  BY <1>11, <1>a DEF MountInv, drivesVars, OwnMount
<1> QED  BY <1>1, <1>2, <1>3, <1>4, <1>5, <1>6, <1>7, <1>8, <1>9, <1>10, <1>11 DEF DrivesNext

\* The invariant of handles and mounts holds in every behaviour.
THEOREM MountInvariant == DrivesSpec => []MountInv
  BY MountInit, MountNext, PTL DEF DrivesSpec

\* No handle is used on a volume that was mounted or set up anew since it was
\* opened, for any drives, paths, media and number of calls: validate
\* (ff.c) needs no more than the mount ID and the state of the disk.
THEOREM HandlesOfTheirMount == DrivesSpec => []OwnMount
<1>1. MountInv => OwnMount
  BY DEF MountInv
<1> QED  BY <1>1, MountInvariant, PTL

-----------------------------------------------------------------------------
(* Paths.  A path is followed name by name; what holds all along it is     *)
(* proved by looking at the first name at which it would fail.             *)

LEMMA LeastNumber ==
    ASSUME NEW S, S \subseteq Nat, S # {}
    PROVE  \E n \in S : \A k \in S : n <= k
<1> DEFINE R == {p \in Nat \X Nat : p[1] < p[2]}
<1>1. R = OpToRel(<, Nat)
  BY DEF OpToRel
<1>2. IsWellFoundedOn(R, Nat)
  BY <1>1, NatLessThanWellFounded, Zenon
<1>3. \A n, k \in Nat : ~(<<k, n>> \in R) => n <= k
  OBVIOUS
<1> HIDE DEF R
<1>4. \E n \in S : \A k \in S : ~(<<k, n>> \in R)
  BY <1>2, WFMin
<1> QED  BY <1>3, <1>4

\* What follow_path passes through, as a function of the names it has taken.
IsTrail(m, p, at, k) ==
    at = [i \in 0..k |->
             IF i = 0 THEN Origin(m, p) ELSE Find(m.tree, at[i - 1], p.names[i])]

LEMMA TrailExists ==
    ASSUME NEW m, NEW p \in Paths
    PROVE  \E at : IsTrail(m, p, at, Len(p.names)) /\ Follow(m, p) = at[Len(p.names)]
<1> DEFINE L == Len(p.names)
           Bad == {k \in 0..L : ~ \E at : IsTrail(m, p, at, k)}
<1>1. L \in Nat
  BY DrivesAssumption
<1>2. ASSUME NEW k \in Bad, \A j \in Bad : k <= j PROVE FALSE
  <2>1. CASE k = 0
    <3> DEFINE g == [i \in 0..0 |-> Origin(m, p)]
    <3>1. IsTrail(m, p, g, 0)
      BY DEF IsTrail
    <3> QED  BY <3>1, <2>1
  <2>2. CASE k # 0
    <3>1. k - 1 \in 0..L /\ k - 1 \notin Bad /\ k \in Nat
      BY <1>1, <1>2, <2>2
    <3>2. PICK at : IsTrail(m, p, at, k - 1)
      BY <3>1
    <3> DEFINE g == [i \in 0..k |-> IF i = k THEN Find(m.tree, at[k - 1], p.names[k]) ELSE at[i]]
    <3>3. \A i \in 0..(k - 1) :
              at[i] = IF i = 0 THEN Origin(m, p) ELSE Find(m.tree, at[i - 1], p.names[i])
      BY <3>2, <3>1 DEF IsTrail
    <3>4. ASSUME NEW i \in 0..k
          PROVE  g[i] = IF i = 0 THEN Origin(m, p) ELSE Find(m.tree, g[i - 1], p.names[i])
      BY <3>1, <3>3, <2>2
    <3>5. IsTrail(m, p, g, k)
      BY <3>4 DEF IsTrail
    <3> QED  BY <3>5
  <2> QED  BY <2>1, <2>2
<1>3. Bad = {}
  <2>1. Bad \subseteq Nat
    BY <1>1
  <2> HIDE DEF Bad
  <2> QED  BY <2>1, <1>2, LeastNumber
<1>4. \E at : IsTrail(m, p, at, L)
  BY <1>1, <1>3
<1> QED  BY <1>4 DEF Follow, IsTrail

\* What can be searched for a name.
Enterable(n) == n.res \in {"origin", "ok"} /\ n.dir

LEMMA TrailSteps ==
    ASSUME NEW m, NEW p \in Paths, NEW at, IsTrail(m, p, at, Len(p.names))
    PROVE  /\ Len(p.names) \in Nat
           /\ at[0] = Origin(m, p)
           /\ \A i \in 1..Len(p.names) :
                  /\ i - 1 \in 0..Len(p.names)
                  /\ at[i] = Find(m.tree, at[i - 1], p.names[i])
<1>1. Len(p.names) \in Nat
  BY DrivesAssumption
<1>2. \A i \in 0..Len(p.names) :
          at[i] = IF i = 0 THEN Origin(m, p) ELSE Find(m.tree, at[i - 1], p.names[i])
  BY DEF IsTrail
<1> QED  BY <1>1, <1>2

\* What a search finds, in the three ways it can end.
LEMMA Found ==
    ASSUME NEW t, NEW n, NEW name
    PROVE  /\ ~Enterable(n) => Find(t, n, name) = Missing("no_path", Root)
           /\ Enterable(n) /\ Named(t, n.obj, name) = {}
                  => Find(t, n, name) = Missing("no_file", n.obj)
           /\ Enterable(n) /\ Named(t, n.obj, name) # {}
                  => \E e \in Named(t, n.obj, name) :
                         Find(t, n, name) = [res |-> "ok", up |-> e.up, dir |-> e.dir, obj |-> e.obj]
<1> DEFINE es == Named(t, n.obj, name)
           e == CHOOSE e \in es : TRUE
<1>1. es # {} => e \in es
  OBVIOUS
<1> QED  BY <1>1 DEF Find, Enterable

\* What the outcome of a search says of the directory that was searched.
LEMMA Searched ==
    ASSUME NEW t, NEW n, NEW name
    PROVE  LET f == Find(t, n, name) IN
           /\ f.res \in {"no_path", "no_file", "ok"}
           /\ f.res = "no_path" => ~Enterable(n)
           /\ f.res = "no_file" => Enterable(n) /\ Named(t, n.obj, name) = {} /\ f.up = n.obj
           /\ f.res = "ok" => Enterable(n) /\ \E e \in Named(t, n.obj, name) :
                                  f = [res |-> "ok", up |-> e.up, dir |-> e.dir, obj |-> e.obj]
<1> DEFINE f == Find(t, n, name)
<1>1. CASE ~Enterable(n)
  <2>1. f = Missing("no_path", Root)
    BY <1>1, Found
  <2> QED  BY <2>1, <1>1 DEF Missing
<1>2. CASE Enterable(n) /\ Named(t, n.obj, name) = {}
  <2>1. f = Missing("no_file", n.obj)
    BY <1>2, Found
  <2>2. f.res = "no_file" /\ f.up = n.obj
    BY <2>1 DEF Missing
  <2> QED  BY <2>2, <1>2
<1>3. CASE Enterable(n) /\ Named(t, n.obj, name) # {}
  <2>1. PICK e \in Named(t, n.obj, name) :
            f = [res |-> "ok", up |-> e.up, dir |-> e.dir, obj |-> e.obj]
    BY <1>3, Found
  <2>2. f.res = "ok"
    BY <2>1
  <2> QED  BY <2>1, <2>2, <1>3
<1> QED  BY <1>1, <1>2, <1>3

LEMMA Absent ==
    ASSUME NEW t, NEW n, NEW name, Find(t, n, name).res = "no_file"
    PROVE  Enterable(n) /\ Named(t, n.obj, name) = {} /\ Find(t, n, name).up = n.obj
  BY Searched

\* A path that leads to something, or to a name that is free, goes through
\* directories that are there until its last name.
LEMMA ThroughDirs ==
    ASSUME NEW m, NEW p \in Paths, NEW at, IsTrail(m, p, at, Len(p.names)),
           at[Len(p.names)].res # "no_path"
    PROVE  \A i \in 0..Len(p.names) : i < Len(p.names) => Enterable(at[i])
<1> DEFINE L == Len(p.names)
<1>1. L \in Nat /\ \A i \in 1..L : i - 1 \in 0..L /\ at[i] = Find(m.tree, at[i - 1], p.names[i])
  BY TrailSteps, ZenonT(60)
<1>2. ASSUME NEW i \in 0..L, i < L, ~Enterable(at[i]) PROVE FALSE
  <2> DEFINE Off == {j \in 0..L : j > i /\ at[j].res # "no_path"}
  <2>1. L \in Off /\ Off \subseteq Nat
    BY <1>1, <1>2
  <2>2. PICK j \in Off : \A k \in Off : j <= k
    <3> HIDE DEF Off
    <3> QED  BY <2>1, LeastNumber
  <2>3. j \in 1..L /\ j - 1 \in 0..L /\ (j - 1 = i \/ j - 1 > i)
    BY <1>1, <2>2
  <2>4. ~Enterable(at[j - 1])
    <3>1. CASE j - 1 = i
      BY <3>1, <1>2
    <3>2. CASE j - 1 > i
      <4>1. j - 1 \notin Off
        BY <2>2, <2>3
      <4> QED  BY <4>1, <3>2, <2>3 DEF Enterable
    <3> QED  BY <2>3, <3>1, <3>2
  <2>5. at[j] = Missing("no_path", Root)
    BY <1>1, <2>3, <2>4, Found
  <2> QED  BY <2>2, <2>5 DEF Missing
<1> QED  BY <1>2

\* The entry that the i-th name of a path leads to.
Passed(m, p, at, i) ==
    \E e \in m.tree :
        /\ e.up = at[i - 1].obj /\ e.name = p.names[i]
        /\ at[i].obj = e.obj /\ at[i].dir = e.dir

\* A path that leads to an entry passes one for each of its names.
LEMMA Passes ==
    ASSUME NEW m, NEW p \in Paths, NEW at, IsTrail(m, p, at, Len(p.names)),
           at[Len(p.names)].res # "no_path",
           NEW i \in 1..Len(p.names), i < Len(p.names) \/ at[i].res = "ok"
    PROVE  Passed(m, p, at, i)
<1>0. Len(p.names) \in Nat /\ \A j \in 1..Len(p.names) : at[j] = Find(m.tree, at[j - 1], p.names[j])
  BY TrailSteps
<1>1. i - 1 \in 0..Len(p.names) /\ i - 1 < Len(p.names) /\ i \in 0..Len(p.names)
      /\ at[i] = Find(m.tree, at[i - 1], p.names[i])
  BY <1>0
<1>2. Enterable(at[i - 1]) /\ (i < Len(p.names) => Enterable(at[i]))
  BY <1>1, ThroughDirs
<1>3. at[i].res = "ok"
  BY <1>1, <1>2, Searched DEF Enterable
<1>4. PICK e \in m.tree :
          /\ e.up = at[i - 1].obj /\ e.name = p.names[i]
          /\ at[i] = [res |-> "ok", up |-> e.up, dir |-> e.dir, obj |-> e.obj]
  BY <1>1, <1>3, Searched DEF Named
<1> QED  BY <1>4 DEF Passed

\* As far as the entries on its way are the same, a path leads the same way.
LEMMA SameWay ==
    ASSUME NEW m, NEW n, NEW p \in Paths, Origin(m, p) = Origin(n, p),
           NEW at, IsTrail(m, p, at, Len(p.names)),
           NEW at2, IsTrail(n, p, at2, Len(p.names)),
           NEW k \in 0..Len(p.names),
           \A i \in 1..k : Named(m.tree, at[i - 1].obj, p.names[i])
                               = Named(n.tree, at[i - 1].obj, p.names[i])
    PROVE  at2[k] = at[k]
<1> DEFINE L == Len(p.names)
           Off == {i \in 0..k : at2[i] # at[i]}
<1>1. /\ L \in Nat /\ at[0] = at2[0]
      /\ \A i \in 1..L : i - 1 \in 0..L /\ at[i] = Find(m.tree, at[i - 1], p.names[i])
                         /\ at2[i] = Find(n.tree, at2[i - 1], p.names[i])
  BY TrailSteps, SMTT(60)
<1>2. ASSUME NEW i \in Off, \A j \in Off : i <= j PROVE FALSE
  <2>1. i \in 1..k /\ i - 1 \in 0..k /\ i - 1 \notin Off /\ i \in 1..L
    BY <1>1, <1>2
  <2>2. at2[i - 1] = at[i - 1]
    BY <2>1
  <2>3. Find(m.tree, at[i - 1], p.names[i]) = Find(n.tree, at[i - 1], p.names[i])
    BY <2>1, Zenon DEF Find
  <2> QED  BY <1>1, <1>2, <2>1, <2>2, <2>3
<1>3. Off = {}
  <2>1. Off \subseteq Nat
    BY <1>1
  <2> HIDE DEF Off
  <2> QED  BY <2>1, <1>2, LeastNumber
<1> QED  BY <1>3, <1>1
-----------------------------------------------------------------------------
(* The trees.                                                              *)

\* What a call works on: a tree that is in order and, once the volume is
\* found, a current directory that is in it.
TreeOK(m) ==
    /\ WellFormed(m.tree)
    /\ m.vol.mounted /\ ~m.vol.noinit => m.vol.cdir \in There(m.tree)
InUse(m) == m.ok => m.vol.mounted /\ ~m.vol.noinit

\* Where a call starts and ends: a directory that is entered is there, a name
\* that is missing is missing in a directory that is there, and an entry that
\* is found is one of the tree.
LEMMA EndOfPath ==
    ASSUME NEW m, TreeOK(m), InUse(m), m.ok, NEW p \in Paths
    PROVE  LET n == Follow(m, p) IN
           /\ Enterable(n) => n.obj \in There(m.tree)
           /\ n.res = "ok" => \E e \in m.tree : n = [res |-> "ok", up |-> e.up, dir |-> e.dir, obj |-> e.obj]
           /\ n.res = "no_file" =>
                  /\ n.up \in There(m.tree) /\ Len(p.names) > 0
                  /\ Named(m.tree, n.up, p.names[Len(p.names)]) = {}
<1> DEFINE L == Len(p.names)
<1>1. PICK at : IsTrail(m, p, at, L) /\ Follow(m, p) = at[L]
  BY TrailExists
<1>2. /\ L \in Nat /\ at[0] = Origin(m, p)
      /\ \A i \in 1..L : i - 1 \in 0..L /\ at[i] = Find(m.tree, at[i - 1], p.names[i])
  BY <1>1, TrailSteps
<1>3. /\ at[0].res = "origin" /\ at[0].dir /\ at[0].obj \in There(m.tree)
  BY <1>2 DEF Origin, TreeOK, InUse, There
<1>4. ASSUME NEW i \in 1..L, at[i].res = "ok"
      PROVE  \E e \in m.tree : at[i] = [res |-> "ok", up |-> e.up, dir |-> e.dir, obj |-> e.obj]
  BY <1>2, <1>4, Found, SMTT(60) DEF Missing, Named
<1>5. ASSUME NEW i \in 1..L PROVE at[i].res # "origin"
  BY <1>2, Searched
<1>6. ASSUME NEW i \in 0..L, Enterable(at[i]) PROVE at[i].obj \in There(m.tree)
  <2>1. CASE i = 0
    BY <2>1, <1>3
  <2>2. CASE i # 0
    <3>1. i \in 1..L /\ at[i].res = "ok" /\ at[i].dir
      BY <1>2, <1>5, <1>6, <2>2 DEF Enterable
    <3>2. PICK e \in m.tree : at[i] = [res |-> "ok", up |-> e.up, dir |-> e.dir, obj |-> e.obj]
      BY <3>1, <1>4
    <3> QED  BY <3>1, <3>2 DEF There
  <2> QED  BY <2>1, <2>2
<1>7. ASSUME at[L].res = "no_file"
      PROVE  /\ L > 0 /\ at[L].up \in There(m.tree)
             /\ Named(m.tree, at[L].up, p.names[L]) = {}
  <2>1. L > 0 /\ L \in 1..L /\ L - 1 \in 0..L /\ at[L] = Find(m.tree, at[L - 1], p.names[L])
    BY <1>2, <1>3, <1>7
  <2>2. ASSUME NEW n, NEW name, at[L] = Find(m.tree, n, name)
        PROVE  Enterable(n) /\ Named(m.tree, n.obj, name) = {} /\ at[L].up = n.obj
    BY <2>2, <1>7, Absent
  <2>3. /\ Enterable(at[L - 1]) /\ Named(m.tree, at[L - 1].obj, p.names[L]) = {}
        /\ at[L].up = at[L - 1].obj
    BY <2>1, <2>2
  <2> QED  BY <2>1, <2>3, <1>6
<1>8. at[L].res = "ok" => L \in 1..L
  BY <1>2, <1>3
<1> QED  BY <1>1, <1>2, <1>4, <1>6, <1>7, <1>8

\* An entry with a free name and a new object in a directory that is there.
LEMMA TreeGrows ==
    ASSUME NEW t, WellFormed(t), NEW e, e.up \in There(t), Named(t, e.up, e.name) = {},
           \A f \in t : f.obj # e.obj
    PROVE  WellFormed(t \union {e}) /\ There(t) \subseteq There(t \union {e})
<1>1. There(t) \subseteq There(t \union {e})
  BY DEF There
<1>2. ASSUME NEW f \in t, NEW g \in t \union {e},
             f.obj = g.obj \/ (f.up = g.up /\ f.name = g.name)
      PROVE  f = g
  BY <1>2 DEF WellFormed, Named
<1>3. ASSUME NEW f \in t, e.obj = f.obj \/ (e.up = f.up /\ e.name = f.name) PROVE FALSE
  BY <1>3 DEF Named
<1>4. \A f \in t : f.up \in There(t \union {e})
  BY <1>1 DEF WellFormed
<1> QED  BY <1>1, <1>2, <1>3, <1>4 DEF WellFormed

\* An entry goes that is no directory, or an empty one.
LEMMA TreeShrinks ==
    ASSUME NEW t, WellFormed(t), NEW e \in t, e.dir => \A f \in t : f.up # e.obj
    PROVE  LET kept == {f \in t : f.obj # e.obj} IN
           /\ WellFormed(kept)
           /\ \A x \in There(t) : x = e.obj /\ x # Root => e.dir
           /\ \A x \in There(t) : x # e.obj => x \in There(kept)
<1> DEFINE kept == {f \in t : f.obj # e.obj}
<1>1. \A x \in There(t) : x # e.obj => x \in There(kept)
  BY DEF There
<1>2. \A x \in There(t) : x = e.obj /\ x # Root => e.dir
  BY DEF There, WellFormed
<1>3. ASSUME NEW f \in kept PROVE f.up \in There(kept)
  <2>1. f \in t /\ f.up \in There(t)
    BY DEF WellFormed
  <2>2. CASE f.up = Root
    BY <2>2 DEF There
  <2>3. CASE f.up # Root
    BY <2>1, <2>3, <1>1, <1>2
  <2> QED  BY <2>2, <2>3
<1>4. \A f, g \in kept : f.obj = g.obj \/ (f.up = g.up /\ f.name = g.name) => f = g
  BY DEF WellFormed
<1>5. WellFormed(kept)
  BY <1>3, <1>4 DEF WellFormed
<1> QED  BY <1>1, <1>2, <1>5

\* An entry goes elsewhere, under a name that is free.
LEMMA TreeMoves ==
    ASSUME NEW t, WellFormed(t), NEW e \in t, NEW k, k.up \in There(t),
           Named(t, k.up, k.name) = {}, k.obj = e.obj, k.dir = e.dir
    PROVE  LET moved == {f \in t : f.obj # e.obj} \union {k} IN
           WellFormed(moved) /\ There(t) = There(moved)
<1> DEFINE kept == {f \in t : f.obj # e.obj}
           moved == kept \union {k}
<1>1. \A f \in t : f.obj = e.obj => f = e
  BY DEF WellFormed
<1>2. There(moved) = There(t)
  BY <1>1 DEF There
<1>3. \A f, g \in kept : f.obj = g.obj \/ (f.up = g.up /\ f.name = g.name) => f = g
  BY DEF WellFormed
<1>4. \A f \in kept : ~(f.obj = k.obj \/ (f.up = k.up /\ f.name = k.name))
  BY DEF Named
<1>5. \A f \in moved : f.up \in There(moved)
  BY <1>2 DEF WellFormed
<1>6. WellFormed(moved)
  <2> SUFFICES ASSUME NEW f \in moved, NEW g \in moved,
                      f.obj = g.obj \/ (f.up = g.up /\ f.name = g.name)
               PROVE  f = g
    BY <1>5 DEF WellFormed
  <2> QED  BY <1>3, <1>4
<1> QED  BY <1>2, <1>6

\* What a call that succeeds can leave of the tree and the current directory.
Kept(m, n) == n.tree = m.tree /\ n.vol = m.vol
Entering(m, p, n) ==
    /\ Follow(m, p).res = "no_file" /\ n.vol = m.vol
    /\ \E e : /\ e.up = Follow(m, p).up /\ e.name = p.names[Len(p.names)] /\ e.obj = n.obj
              /\ n.tree = m.tree \union {e} /\ \A f \in m.tree : f.obj # e.obj
Removing(m, p, n) ==
    /\ Follow(m, p).res = "ok" /\ MayUnlink(m, Follow(m, p)) /\ n.vol = m.vol
    /\ n.obj = Follow(m, p).obj /\ n.tree = {e \in m.tree : e.obj # n.obj}
Moving(m, p, q, n) ==
    /\ Follow(m, p).res = "ok" /\ Follow(m, q).res = "no_file" /\ n.vol = m.vol
    /\ n.obj = Follow(m, p).obj
    /\ \E e : /\ e.up = Follow(m, q).up /\ e.name = q.names[Len(q.names)]
              /\ e.obj = Follow(m, p).obj /\ e.dir = Follow(m, p).dir
              /\ n.tree = {f \in m.tree : f.obj # e.obj} \union {e}
Changing(m, p, n) ==
    /\ Enterable(Follow(m, p)) /\ n.tree = m.tree
    /\ n.vol.cdir = Follow(m, p).obj

LEMMA Effects ==
    ASSUME NEW m, EffectShape(m), VolShape(m.vol), NEW p, NEW q, NEW create, NEW n
    PROVE  /\ \A k \in Try(m, TRUE, {m}) : Kept(m, k)
           /\ [m EXCEPT !.ok = FALSE].ok = FALSE /\ Kept(m, [m EXCEPT !.ok = FALSE])
           /\ n \in f_stat(m, p) \union f_opendir(m, p) => Kept(m, n)
           /\ n \in f_open(m, p, create) =>
                  \/ Kept(m, n) /\ n.ok = FALSE
                  \/ m.ok /\ Kept(m, n) /\ Follow(m, p).res = "ok" /\ ~Follow(m, p).dir
                     /\ n.obj = Follow(m, p).obj
                  \/ m.ok /\ Entering(m, p, n)
           /\ n \in f_mkdir(m, p) => Kept(m, n) \/ (m.ok /\ Entering(m, p, n))
           /\ n \in f_unlink(m, p) => Kept(m, n) \/ (m.ok /\ n.ok = m.ok /\ Removing(m, p, n))
           /\ n \in f_rename(m, p, q) => Kept(m, n) \/ (m.ok /\ n.ok = m.ok /\ Moving(m, p, q, n))
           /\ n \in f_chdir(m, p) => Kept(m, n) \/ (m.ok /\ n.ok = m.ok /\ Changing(m, p, n))
<1> DEFINE failed == [m EXCEPT !.ok = FALSE]
<1>1. failed.ok = FALSE /\ Kept(m, failed) /\ Kept(m, m)
  BY DEF EffectShape, Kept
<1>2. ASSUME NEW o PROVE Kept(m, [m EXCEPT !.obj = o]) /\ [m EXCEPT !.obj = o].obj = o
  BY DEF EffectShape, Kept
<1>3. ASSUME NEW o, NEW t
      PROVE  LET k == [m EXCEPT !.obj = o, !.tree = t] IN
             k.vol = m.vol /\ k.obj = o /\ k.tree = t /\ k.ok = m.ok
  BY DEF EffectShape
<1>4. ASSUME NEW o
      PROVE  LET k == [m EXCEPT !.obj = o, !.vol.cdir = o] IN
             k.tree = m.tree /\ k.ok = m.ok /\ k.vol.cdir = o
  <2> DEFINE k == [m EXCEPT !.obj = o, !.vol.cdir = o]
  <2>1. k.tree = m.tree /\ k.ok = m.ok /\ k.vol = [m.vol EXCEPT !.cdir = o]
    BY DEF EffectShape
  <2> QED  BY <2>1 DEF VolShape
<1>5. \A k \in Try(m, TRUE, {m}) : Kept(m, k)
  BY <1>1 DEF Try
<1>6. ASSUME n \in f_stat(m, p) \union f_opendir(m, p) PROVE Kept(m, n)
  <2>1. n = failed \/ n = [m EXCEPT !.obj = Follow(m, p).obj]
    BY <1>6 DEF f_stat, f_opendir, Try
  <2> QED  BY <2>1, <1>1, <1>2
<1>7. ASSUME NEW dir, NEW k \in Entered(m, p, dir), Follow(m, p).res = "no_file"
      PROVE  Entering(m, p, k)
  <2>1. PICK o \in Objs \ {e.obj : e \in m.tree} :
            k = [m EXCEPT !.obj = o,
                          !.tree = @ \union {[up |-> Follow(m, p).up, name |-> p.names[Len(p.names)],
                                              obj |-> o, dir |-> dir]}]
    BY DEF Entered
  <2> DEFINE e == [up |-> Follow(m, p).up, name |-> p.names[Len(p.names)], obj |-> o, dir |-> dir]
  <2>2. k.vol = m.vol /\ k.obj = o /\ k.tree = m.tree \union {e}
    BY <2>1 DEF EffectShape
  <2>3. e.up = Follow(m, p).up /\ e.name = p.names[Len(p.names)] /\ e.obj = k.obj
    BY <2>2
  <2>4. \A f \in m.tree : f.obj # e.obj
    OBVIOUS
  <2> HIDE DEF e
  <2> QED  BY <2>2, <2>3, <2>4, <1>7 DEF Entering
<1>8. ASSUME n \in f_open(m, p, create)
      PROVE  \/ Kept(m, n) /\ n.ok = FALSE
             \/ m.ok /\ Kept(m, n) /\ Follow(m, p).res = "ok" /\ ~Follow(m, p).dir
                /\ n.obj = Follow(m, p).obj
             \/ m.ok /\ Entering(m, p, n)
  <2>1. \/ n = failed
        \/ m.ok /\ Follow(m, p).res = "ok" /\ ~Follow(m, p).dir /\ n = [m EXCEPT !.obj = Follow(m, p).obj]
        \/ m.ok /\ Follow(m, p).res = "no_file" /\ n \in Entered(m, p, FALSE)
    BY <1>8 DEF f_open, Try
  <2> QED  BY <2>1, <1>1, <1>2, <1>7
<1>9. ASSUME n \in f_mkdir(m, p) PROVE Kept(m, n) \/ (m.ok /\ Entering(m, p, n))
  <2>1. n = failed \/ (m.ok /\ Follow(m, p).res = "no_file" /\ n \in Entered(m, p, TRUE))
    BY <1>9 DEF f_mkdir, Try
  <2> QED  BY <2>1, <1>1, <1>7
<1>10. ASSUME n \in f_unlink(m, p)
       PROVE  Kept(m, n) \/ (m.ok /\ n.ok = m.ok /\ Removing(m, p, n))
  <2> DEFINE kept == {e \in m.tree : e.obj # Follow(m, p).obj}
  <2>1. \/ n = failed
        \/ /\ m.ok /\ Follow(m, p).res = "ok" /\ MayUnlink(m, Follow(m, p))
           /\ n = [m EXCEPT !.obj = Follow(m, p).obj, !.tree = kept]
    BY <1>10 DEF f_unlink, Try
  <2>2. CASE n = [m EXCEPT !.obj = Follow(m, p).obj, !.tree = kept]
    <3>1. n.vol = m.vol /\ n.obj = Follow(m, p).obj /\ n.tree = kept /\ n.ok = m.ok
      BY <2>2, <1>3
    <3>2. kept = {e \in m.tree : e.obj # n.obj}
      BY <3>1
    <3> HIDE DEF kept
    <3> QED  BY <2>1, <3>1, <3>2, <1>1 DEF Removing
  <2> QED  BY <2>1, <2>2, <1>1
<1>11. ASSUME n \in f_rename(m, p, q)
       PROVE  Kept(m, n) \/ (m.ok /\ n.ok = m.ok /\ Moving(m, p, q, n))
  <2> DEFINE e == [up |-> Follow(m, q).up, name |-> q.names[Len(q.names)],
                   obj |-> Follow(m, p).obj, dir |-> Follow(m, p).dir]
             moved == {f \in m.tree : f.obj # Follow(m, p).obj} \union {e}
  <2>1. \/ n = failed
        \/ /\ m.ok /\ Follow(m, p).res = "ok" /\ Follow(m, q).res = "no_file"
           /\ n = [m EXCEPT !.obj = Follow(m, p).obj, !.tree = moved]
    BY <1>11 DEF f_rename, Try
  <2>2. /\ e.up = Follow(m, q).up /\ e.name = q.names[Len(q.names)]
        /\ e.obj = Follow(m, p).obj /\ e.dir = Follow(m, p).dir
    OBVIOUS
  <2>3. moved = {f \in m.tree : f.obj # e.obj} \union {e}
    OBVIOUS
  <2>4. CASE n = [m EXCEPT !.obj = Follow(m, p).obj, !.tree = moved]
    <3>1. n.vol = m.vol /\ n.tree = moved /\ n.ok = m.ok /\ n.obj = Follow(m, p).obj
      BY <2>4, <1>3
    <3> HIDE DEF e, moved
    <3> QED  BY <2>1, <2>2, <2>3, <3>1, <1>1 DEF Moving
  <2> HIDE DEF e, moved
  <2> QED  BY <2>1, <2>4, <1>1
<1>12. ASSUME n \in f_chdir(m, p)
       PROVE  Kept(m, n) \/ (m.ok /\ n.ok = m.ok /\ Changing(m, p, n))
  <2>1. \/ n = failed
        \/ /\ m.ok /\ Enterable(Follow(m, p))
           /\ n = [m EXCEPT !.obj = Follow(m, p).obj, !.vol.cdir = Follow(m, p).obj]
    BY <1>12 DEF f_chdir, Try, Enterable
  <2>2. CASE /\ m.ok /\ Enterable(Follow(m, p))
             /\ n = [m EXCEPT !.obj = Follow(m, p).obj, !.vol.cdir = Follow(m, p).obj]
    <3>1. n.tree = m.tree /\ n.ok = m.ok /\ n.vol.cdir = Follow(m, p).obj
      BY <2>2, <1>4
    <3> QED  BY <2>2, <3>1 DEF Changing
  <2> QED  BY <2>1, <2>2, <1>1
<1> QED  BY <1>1, <1>5, <1>6, <1>8, <1>9, <1>10, <1>11, <1>12

\* No call leaves a tree out of order, or a current directory that is gone.
LEMMA OpsKeepTree ==
    ASSUME NEW m, EffectShape(m), VolShape(m.vol), TreeOK(m), InUse(m),
           NEW p \in Paths, NEW q \in Paths, NEW create,
           NEW n \in f_open(m, p, create) \union f_stat(m, p) \union f_opendir(m, p)
                     \union f_chdir(m, p) \union f_mkdir(m, p) \union f_unlink(m, p)
                     \union f_rename(m, p, q) \union Try(m, TRUE, {m})
    PROVE  TreeOK(n)
<1>1. \/ Kept(m, n)
      \/ m.ok /\ (Entering(m, p, n) \/ Removing(m, p, n) \/ Moving(m, p, q, n) \/ Changing(m, p, n))
  BY Effects
<1>2. CASE Kept(m, n)
  BY <1>2 DEF Kept, TreeOK
<1>3. CASE m.ok /\ Entering(m, p, n)
  <2>1. PICK e :
            /\ e.up = Follow(m, p).up /\ e.name = p.names[Len(p.names)]
            /\ n.tree = m.tree \union {e} /\ \A f \in m.tree : f.obj # e.obj
    BY <1>3 DEF Entering
  <2>2. e.up \in There(m.tree) /\ Named(m.tree, e.up, e.name) = {}
    BY <1>3, <2>1, EndOfPath DEF Entering
  <2>3. WellFormed(m.tree)
    BY DEF TreeOK
  <2>4. WellFormed(m.tree \union {e}) /\ There(m.tree) \subseteq There(m.tree \union {e})
    BY <2>1, <2>2, <2>3, TreeGrows
  <2>5. n.tree = m.tree \union {e} /\ n.vol = m.vol
    BY <1>3, <2>1 DEF Entering
  <2> QED  BY <2>4, <2>5 DEF TreeOK
<1>4. CASE m.ok /\ Removing(m, p, n)
  <2> DEFINE f == Follow(m, p)
  <2>1. PICK e \in m.tree : f = [res |-> "ok", up |-> e.up, dir |-> e.dir, obj |-> e.obj]
    BY <1>4, EndOfPath DEF Removing
  <2>2. f.obj = e.obj /\ f.dir = e.dir
    BY <2>1
  <2>3. e.dir => e.obj # m.vol.cdir /\ \A g \in m.tree : g.up # e.obj
    BY <1>4, <2>2 DEF Removing, MayUnlink
  <2>4. n.tree = {g \in m.tree : g.obj # e.obj} /\ n.vol = m.vol
    BY <1>4, <2>2 DEF Removing
  <2>5. /\ WellFormed(n.tree)
        /\ \A x \in There(m.tree) : x = e.obj /\ x # Root => e.dir
        /\ \A x \in There(m.tree) : x # e.obj => x \in There(n.tree)
    BY <2>3, <2>4, TreeShrinks DEF TreeOK
  <2>6. Root \in There(n.tree)
    BY DEF There
  <2> QED  BY <2>3, <2>4, <2>5, <2>6 DEF TreeOK
<1>5. CASE m.ok /\ Moving(m, p, q, n)
  <2>1. PICK e \in m.tree :
            Follow(m, p) = [res |-> "ok", up |-> e.up, dir |-> e.dir, obj |-> e.obj]
    BY <1>5, EndOfPath DEF Moving
  <2>2. Follow(m, p).obj = e.obj /\ Follow(m, p).dir = e.dir
    BY <2>1
  <2>3. PICK k : /\ k.up = Follow(m, q).up /\ k.name = q.names[Len(q.names)]
                 /\ k.obj = e.obj /\ k.dir = e.dir
                 /\ n.tree = {f \in m.tree : f.obj # e.obj} \union {k}
    BY <1>5, <2>2 DEF Moving
  <2>4. k.up \in There(m.tree) /\ Named(m.tree, k.up, k.name) = {}
    BY <1>5, <2>3, EndOfPath DEF Moving
  <2>5. WellFormed(n.tree) /\ There(m.tree) = There(n.tree)
    BY <2>3, <2>4, TreeMoves DEF TreeOK
  <2> QED  BY <2>5, <1>5 DEF TreeOK, Moving
<1>6. CASE m.ok /\ Changing(m, p, n)
  BY <1>6, EndOfPath DEF Changing, TreeOK
<1> QED  BY <1>1, <1>2, <1>3, <1>4, <1>5, <1>6

\* find_volume and Remount find a tree in order as it is.
LEMMA FindTree ==
    ASSUME MountInv, TreeSound, NEW v \in Drives, NEW m \in find_volume(v) \union Remount(v)
    PROVE  TreeOK(m) /\ InUse(m) /\ m.tree = tree[v]
<1> DEFINE lost == [mounted |-> FALSE, id |-> vols[v].id, cdir |-> vols[v].cdir,
                    noinit |-> ~vols[v].usable, usable |-> vols[v].usable, era |-> vols[v].era]
           anew == [mounted |-> TRUE, id |-> Fsid + 1, cdir |-> Root, noinit |-> FALSE,
                    usable |-> TRUE, era |-> vols[v].era + 1]
<1>1. \/ m = At(v, vols[v], Fsid, TRUE) /\ vols[v].mounted /\ ~vols[v].noinit
      \/ m = At(v, lost, Fsid, FALSE) \/ m = At(v, anew, Fsid + 1, TRUE)
  BY DEF find_volume, Remount
<1>2. WellFormed(tree[v]) /\ Root \in There(tree[v])
      /\ (vols[v].mounted /\ ~vols[v].noinit => vols[v].cdir \in There(tree[v]))
  BY DEF TreeSound, There
<1> QED  BY <1>1, <1>2 DEF At, TreeOK, InUse

\* One volume is left in order, the others are as they were.
LEMMA LeftInOrder ==
    ASSUME MountInv, TreeSound, tree = [w \in Drives |-> tree[w]],
           NEW v \in Drives, NEW n, TreeOK(n), LeaveVolume(v, n)
    PROVE  TreeSound' /\ tree' = [w \in Drives |-> tree'[w]]
<1>1. /\ vols'[v] = n.vol /\ tree'[v] = n.tree /\ tree' = [w \in Drives |-> tree'[w]]
      /\ \A w \in Drives \ {v} : vols'[w] = vols[w] /\ tree'[w] = tree[w]
  BY DEF LeaveVolume, MountInv
<1>2. \A w \in Drives : /\ WellFormed(tree'[w])
                        /\ vols'[w].mounted /\ ~vols'[w].noinit => vols'[w].cdir \in There(tree'[w])
  BY <1>1 DEF TreeSound, TreeOK
<1> QED  BY <1>1, <1>2 DEF TreeSound, WellFormed, There

-----------------------------------------------------------------------------
(* The way a name leads.                                                   *)

LEMMA SameFollow ==
    ASSUME NEW m, NEW n, NEW p \in Paths, n.tree = m.tree,
           n.vol.cdir = m.vol.cdir \/ p.abs
    PROVE  Follow(n, p) = Follow(m, p)
<1>1. PICK at : IsTrail(m, p, at, Len(p.names)) /\ Follow(m, p) = at[Len(p.names)]
  BY TrailExists
<1>2. PICK at2 : IsTrail(n, p, at2, Len(p.names)) /\ Follow(n, p) = at2[Len(p.names)]
  BY TrailExists
<1>3. Origin(m, p) = Origin(n, p) /\ Len(p.names) \in 0..Len(p.names)
  <2>1. Len(p.names) \in 0..Len(p.names)
    BY DrivesAssumption
  <2>2. CASE p.abs
    BY <2>1, <2>2 DEF Origin
  <2>3. CASE n.vol.cdir = m.vol.cdir
    BY <2>1, <2>3 DEF Origin
  <2> QED  BY <2>2, <2>3
<1>4. \A i \in 1..Len(p.names) :
          Named(m.tree, at[i - 1].obj, p.names[i]) = Named(n.tree, at[i - 1].obj, p.names[i])
  OBVIOUS
<1> QED  BY <1>1, <1>2, <1>3, <1>4, SameWay

\* An entry is made under a name that is free.
Adding(m, e, n) ==
    Named(m.tree, e.up, e.name) = {} /\ n.tree = m.tree \union {e} /\ n.vol = m.vol

\* A new entry is not on the way of a path that leads to another.
LEMMA WayPastNew ==
    ASSUME NEW m, NEW n, NEW p \in Paths, Follow(m, p).res = "ok", NEW e, Adding(m, e, n)
    PROVE  Follow(n, p) = Follow(m, p)
<1>1. PICK at : IsTrail(m, p, at, Len(p.names)) /\ Follow(m, p) = at[Len(p.names)]
  BY TrailExists
<1>2. PICK at2 : IsTrail(n, p, at2, Len(p.names)) /\ Follow(n, p) = at2[Len(p.names)]
  BY TrailExists
<1>3. Origin(m, p) = Origin(n, p) /\ Len(p.names) \in Nat /\ Len(p.names) \in 0..Len(p.names)
  BY DrivesAssumption DEF Origin, Adding
<1>4. ASSUME NEW i \in 1..Len(p.names)
      PROVE  Named(m.tree, at[i - 1].obj, p.names[i]) = Named(n.tree, at[i - 1].obj, p.names[i])
  <2>1. (i < Len(p.names) \/ at[i].res = "ok") /\ at[Len(p.names)].res # "no_path"
    BY <1>1, <1>3
  <2>p. Passed(m, p, at, i)
    BY <1>1, <2>1, Passes
  <2>2. PICK f \in m.tree : f.up = at[i - 1].obj /\ f.name = p.names[i]
    BY <2>p DEF Passed
  <2>3. ASSUME NEW x, x \in Named(n.tree, at[i - 1].obj, p.names[i])
        PROVE  x \in Named(m.tree, at[i - 1].obj, p.names[i])
    <3>1. x.up = f.up /\ x.name = f.name /\ (x \in m.tree \/ x = e)
      BY <2>2, <2>3 DEF Named, Adding
    <3>2. f \in Named(m.tree, f.up, f.name)
      BY DEF Named
    <3>3. x # e
      BY <3>1, <3>2 DEF Adding
    <3> QED  BY <3>1, <3>3, <2>2 DEF Named
  <2> QED  BY <2>3 DEF Named, Adding
<1>5. at2[Len(p.names)] = at[Len(p.names)]
  BY <1>1, <1>2, <1>3, <1>4, SameWay
<1> QED  BY <1>1, <1>2, <1>5

\* The path of a new entry leads to it.
LEMMA WayToNew ==
    ASSUME NEW m, NEW n, NEW p \in Paths, Entering(m, p, n)
    PROVE  Follow(n, p).res = "ok" /\ Follow(n, p).obj = n.obj
<1>1. PICK at : IsTrail(m, p, at, Len(p.names)) /\ Follow(m, p) = at[Len(p.names)]
  BY TrailExists
<1>2. PICK at2 : IsTrail(n, p, at2, Len(p.names)) /\ Follow(n, p) = at2[Len(p.names)]
  BY TrailExists
<1>3. /\ Len(p.names) \in Nat /\ at[0] = Origin(m, p)
      /\ \A i \in 1..Len(p.names) : i - 1 \in 0..Len(p.names) /\ at[i] = Find(m.tree, at[i - 1], p.names[i])
  BY <1>1, TrailSteps
<1>4. \A i \in 1..Len(p.names) : at2[i] = Find(n.tree, at2[i - 1], p.names[i])
  BY <1>2, TrailSteps, ZenonT(60)
<1>5. at[Len(p.names)].res = "no_file" /\ n.vol = m.vol /\ Origin(m, p) = Origin(n, p)
  BY <1>1 DEF Entering, Origin
<1>6. Len(p.names) \in 1..Len(p.names) /\ Len(p.names) - 1 \in 0..Len(p.names)
  BY <1>3, <1>5 DEF Origin
<1>7. /\ Enterable(at[Len(p.names) - 1]) /\ Named(m.tree, at[Len(p.names) - 1].obj, p.names[Len(p.names)]) = {}
      /\ at[Len(p.names)].up = at[Len(p.names) - 1].obj
  <2>1. at[Len(p.names)] = Find(m.tree, at[Len(p.names) - 1], p.names[Len(p.names)])
    BY <1>3, <1>6
  <2>2. ASSUME NEW f, NEW x, NEW name, f = Find(m.tree, x, name), f.res = "no_file"
        PROVE  Enterable(x) /\ Named(m.tree, x.obj, name) = {} /\ f.up = x.obj
    BY <2>2, Absent
  <2> QED  BY <2>1, <2>2, <1>5
<1>8. PICK e : /\ e.up = at[Len(p.names) - 1].obj /\ e.name = p.names[Len(p.names)] /\ e.obj = n.obj
               /\ n.tree = m.tree \union {e}
  BY <1>1, <1>7 DEF Entering
<1>9. ASSUME NEW i \in 1..(Len(p.names) - 1)
      PROVE  Named(m.tree, at[i - 1].obj, p.names[i]) = Named(n.tree, at[i - 1].obj, p.names[i])
  <2>1. i \in 1..Len(p.names) /\ i < Len(p.names) /\ at[Len(p.names)].res # "no_path"
    BY <1>3, <1>5
  <2>p. Passed(m, p, at, i)
    BY <1>1, <2>1, Passes
  <2>2. PICK f \in m.tree : f.up = at[i - 1].obj /\ f.name = p.names[i]
    BY <2>p DEF Passed
  <2>3. ~(e.up = at[i - 1].obj /\ e.name = p.names[i])
    BY <2>2, <1>7, <1>8 DEF Named
  <2> QED  BY <2>3, <1>8 DEF Named
<1>10. at2[Len(p.names) - 1] = at[Len(p.names) - 1]
  BY <1>1, <1>2, <1>5, <1>6, <1>9, SameWay, SMTT(60)
<1>11. Named(n.tree, at[Len(p.names) - 1].obj, p.names[Len(p.names)]) = {e}
  <2>1. \A x \in m.tree : ~(x.up = at[Len(p.names) - 1].obj /\ x.name = p.names[Len(p.names)])
    BY <1>7 DEF Named
  <2> QED  BY <2>1, <1>8 DEF Named
<1>12. at2[Len(p.names)] = Find(n.tree, at[Len(p.names) - 1], p.names[Len(p.names)])
  BY <1>4, <1>6, <1>10
<1>13. ASSUME NEW x, NEW name, Enterable(x), Named(n.tree, x.obj, name) = {e}
       PROVE  Find(n.tree, x, name).res = "ok" /\ Find(n.tree, x, name).obj = e.obj
  <2>1. PICK f \in {e} :
            Find(n.tree, x, name) = [res |-> "ok", up |-> f.up, dir |-> f.dir, obj |-> f.obj]
    BY <1>13, Found
  <2> QED  BY <2>1
<1>14. at2[Len(p.names)].res = "ok" /\ at2[Len(p.names)].obj = e.obj
  BY <1>7, <1>11, <1>12, <1>13
<1> QED  BY <1>2, <1>8, <1>14

\* What f_unlink may remove is not on the way of a path to something else.
LEMMA WayPastGone ==
    ASSUME NEW m, TreeOK(m), InUse(m), m.ok, NEW n, NEW q \in Paths, Removing(m, q, n),
           NEW p \in Paths, Follow(m, p).res = "ok", Follow(m, p).obj # n.obj
    PROVE  Follow(n, p) = Follow(m, p)
<1>1. PICK at : IsTrail(m, p, at, Len(p.names)) /\ Follow(m, p) = at[Len(p.names)]
  BY TrailExists
<1>2. PICK at2 : IsTrail(n, p, at2, Len(p.names)) /\ Follow(n, p) = at2[Len(p.names)]
  BY TrailExists
<1>3. Origin(m, p) = Origin(n, p) /\ Len(p.names) \in Nat /\ Len(p.names) \in 0..Len(p.names)
  BY DrivesAssumption DEF Origin, Removing
<1>4. PICK g \in m.tree : Follow(m, q) = [res |-> "ok", up |-> g.up, dir |-> g.dir, obj |-> g.obj]
  BY EndOfPath DEF Removing
<1>5. /\ n.obj = g.obj /\ n.tree = {e \in m.tree : e.obj # g.obj}
      /\ g.dir => \A e \in m.tree : e.up # g.obj
  <2>1. Follow(m, q).obj = g.obj /\ Follow(m, q).dir = g.dir
    BY <1>4
  <2> QED  BY <2>1 DEF Removing, MayUnlink
<1>6. ASSUME NEW i \in 1..Len(p.names)
      PROVE  \E e \in m.tree :
                 /\ e.up = at[i - 1].obj /\ e.name = p.names[i] /\ at[i].obj = e.obj
                 /\ at[i].dir = e.dir
  <2>1. (i < Len(p.names) \/ at[i].res = "ok") /\ at[Len(p.names)].res # "no_path"
    BY <1>1, <1>3
  <2>2. Passed(m, p, at, i)
    BY <1>1, <2>1, Passes
  <2> QED  BY <2>2 DEF Passed
<1>7. ASSUME NEW i \in 1..Len(p.names) PROVE at[i].obj # g.obj
  <2>1. CASE i = Len(p.names)
    BY <2>1, <1>1, <1>5
  <2>2. CASE i < Len(p.names)
    <3>1. i \in 0..Len(p.names) /\ i + 1 \in 1..Len(p.names) /\ (i + 1) - 1 = i
      BY <1>3, <2>2
    <3>2. Enterable(at[i])
      BY <1>1, <2>2, <3>1, ThroughDirs
    <3>3. PICK e \in m.tree : at[i].obj = e.obj /\ at[i].dir = e.dir
      BY <1>6
    <3>4. PICK f \in m.tree : f.up = at[i].obj
      BY <1>6, <3>1
    <3>5. ASSUME at[i].obj = g.obj PROVE FALSE
      <4>1. e = g
        BY <3>3, <3>5 DEF TreeOK, WellFormed
      <4> QED  BY <4>1, <3>2, <3>3, <3>4, <3>5, <1>5 DEF Enterable
    <3> QED  BY <3>5
  <2> QED  BY <1>3, <2>1, <2>2
<1>8. ASSUME NEW i \in 1..Len(p.names)
      PROVE  Named(m.tree, at[i - 1].obj, p.names[i]) = Named(n.tree, at[i - 1].obj, p.names[i])
  <2>1. PICK e \in m.tree :
            e.up = at[i - 1].obj /\ e.name = p.names[i] /\ at[i].obj = e.obj
    BY <1>6
  <2>2. \A f \in m.tree : f.up = e.up /\ f.name = e.name => f = e
    BY DEF TreeOK, WellFormed
  <2>3. e.obj # g.obj
    BY <2>1, <1>7
  <2> QED  BY <2>1, <2>2, <2>3, <1>5 DEF Named
<1> QED  BY <1>1, <1>2, <1>3, <1>8, SameWay, SMTT(60)

-----------------------------------------------------------------------------
(* The way to an open file.                                                *)

Here(v) == [vol |-> vols[v], tree |-> tree[v]]

\* The name a file was opened with leads to it, as long as its handle is valid
\* and no directory changed or moved.
WayOK(h) ==
    h.steady /\ Valid(h) =>
        LET n == Follow(Here(h.vol), h.filename) IN n.res = "ok" /\ n.obj = h.obj

WayInv ==
    /\ tree = [w \in Drives |-> tree[w]]
    /\ TreeSound
    /\ \A h \in files : h.vol = Volume(h.filename, h.drive) /\ WayOK(h)
    /\ RightPlace

\* A volume that is in use after find_volume or Remount is new or as it was.
LEMMA AsItWas ==
    ASSUME MountInv, NEW v \in Drives, NEW m \in find_volume(v) \union Remount(v)
    PROVE  m.vol.mounted /\ ~m.vol.noinit =>
               m.vol.id > Fsid \/ (m.vol = vols[v] /\ vols[v].mounted /\ ~vols[v].noinit)
<1> DEFINE lost == [mounted |-> FALSE, id |-> vols[v].id, cdir |-> vols[v].cdir,
                    noinit |-> ~vols[v].usable, usable |-> vols[v].usable, era |-> vols[v].era]
           anew == [mounted |-> TRUE, id |-> Fsid + 1, cdir |-> Root, noinit |-> FALSE,
                    usable |-> TRUE, era |-> vols[v].era + 1]
<1>1. \/ m = At(v, vols[v], Fsid, TRUE) /\ vols[v].mounted /\ ~vols[v].noinit
      \/ m = At(v, lost, Fsid, FALSE) \/ m = At(v, anew, Fsid + 1, TRUE)
  BY DEF find_volume, Remount
<1>2. Fsid \in Nat
  BY DEF MountInv
<1> QED  BY <1>1, <1>2 DEF At

LEMMA LeaveOne ==
    ASSUME MountInv, tree = [w \in Drives |-> tree[w]], NEW v \in Drives, NEW n, LeaveVolume(v, n)
    PROVE  /\ vols'[v] = n.vol /\ tree'[v] = n.tree
           /\ \A w \in Drives \ {v} : vols'[w] = vols[w] /\ tree'[w] = tree[w]
  BY DEF LeaveVolume, MountInv

\* A handle on another volume, or on one that did not change.
LEMMA WayElsewhere ==
    ASSUME NEW h, WayOK(h), vols'[h.vol] = vols[h.vol], tree'[h.vol] = tree[h.vol]
    PROVE  WayOK(h)'
  BY DEF WayOK, Here, Valid

\* A file that is moved is not on the way of a path to another.
LEMMA WayPastMoved ==
    ASSUME NEW m, TreeOK(m), InUse(m), m.ok, NEW n, NEW p \in Paths, NEW q \in Paths,
           Moving(m, p, q, n), ~Follow(m, p).dir,
           NEW way \in Paths, Follow(m, way).res = "ok", Follow(m, way).obj # n.obj
    PROVE  Follow(n, way) = Follow(m, way)
<1> DEFINE gone == [vol |-> m.vol, obj |-> n.obj, tree |-> {e \in m.tree : e.obj # n.obj}]
<1>1. /\ gone.vol = m.vol /\ gone.obj = n.obj
      /\ gone.tree = {e \in m.tree : e.obj # n.obj}
  OBVIOUS
<1> HIDE DEF gone
<1>2. Removing(m, p, gone)
  BY <1>1 DEF Removing, Moving, MayUnlink
<1>3. Follow(gone, way) = Follow(m, way)
  BY <1>1, <1>2, WayPastGone
<1>4. PICK e : /\ e.up = Follow(m, q).up /\ e.name = q.names[Len(q.names)]
               /\ e.obj = n.obj /\ n.tree = {f \in m.tree : f.obj # e.obj} \union {e}
  BY DEF Moving
<1>5. Named(m.tree, e.up, e.name) = {}
  BY <1>4, EndOfPath DEF Moving
<1>6. Adding(gone, e, n)
  BY <1>1, <1>4, <1>5 DEF Adding, Named, Moving
<1> QED  BY <1>3, <1>6, WayPastNew

\* What leaves the way to an open file of the volume as it is.
KeepsWay(h, m, p, n) ==
    \/ Kept(m, n)
    \/ m.ok /\ Entering(m, p, n)
    \/ m.ok /\ Removing(m, p, n) /\ h.obj # n.obj
    \/ m.ok /\ Changing(m, p, n) /\ h.filename.abs
    \/ /\ m.ok /\ ~Follow(m, p).dir /\ h.obj # n.obj
       /\ \E q \in Paths : Moving(m, p, q, n)
KeepsWays(v, m, p, n) == \A h \in files : h.vol = v => KeepsWay(h, m, p, n)

LEMMA WayKept ==
    ASSUME MountInv, WayInv, NEW v \in Drives, NEW m \in find_volume(v) \union Remount(v),
           NEW p \in Paths, NEW n, SameMount(m, n), LeaveVolume(v, n),
           NEW h \in files, h.vol = v => KeepsWay(h, m, p, n)
    PROVE  WayOK(h)'
<1>1. /\ WayOK(h) /\ h.vol \in Drives /\ h.id \in Nat /\ h.id <= Fsid /\ h.filename \in Paths
      /\ Fsid \in Nat
  BY DEF MountInv, WayInv, HandleOK
<1>2. /\ vols'[v] = n.vol /\ tree'[v] = n.tree
      /\ \A w \in Drives \ {v} : vols'[w] = vols[w] /\ tree'[w] = tree[w]
  BY LeaveOne DEF WayInv
<1>3. CASE h.vol # v
  <2>1. vols'[h.vol] = vols[h.vol] /\ tree'[h.vol] = tree[h.vol]
    BY <1>1, <1>2, <1>3
  <2> QED  BY <2>1, <1>1, WayElsewhere
<1>4. CASE h.vol = v
  <2> SUFFICES ASSUME h.steady, Valid(h)'
               PROVE  Follow(Here(v)', h.filename).res = "ok"
                      /\ Follow(Here(v)', h.filename).obj = h.obj
    BY <1>4 DEF WayOK
  <2>1. n.vol.mounted /\ ~n.vol.noinit /\ n.vol.id = h.id
    BY <1>2, <1>4 DEF Valid
  <2>2. m.vol.mounted /\ ~m.vol.noinit /\ m.vol.id = h.id
    BY <2>1 DEF SameMount
  <2>3. m.vol = vols[v] /\ vols[v].mounted /\ ~vols[v].noinit
    BY <2>2, <1>1, AsItWas
  <2>4. TreeOK(m) /\ InUse(m) /\ m.tree = tree[v]
    BY FindTree DEF WayInv
  <2>5. Follow(Here(v), h.filename).res = "ok" /\ Follow(Here(v), h.filename).obj = h.obj
    BY <1>1, <1>4, <2>2, <2>3 DEF WayOK, Valid
  <2>6. Here(v).tree = m.tree /\ Here(v).vol.cdir = m.vol.cdir
    BY <2>3, <2>4 DEF Here
  <2>7. Follow(m, h.filename) = Follow(Here(v), h.filename)
    BY <1>1, <2>6, SameFollow
  <2>8. Follow(m, h.filename).res = "ok" /\ Follow(m, h.filename).obj = h.obj
    BY <2>5, <2>7
  <2>9. Follow(n, h.filename) = Follow(m, h.filename)
    <3>1. CASE Kept(m, n)
      BY <3>1, <1>1, SameFollow DEF Kept
    <3>2. CASE m.ok /\ Entering(m, p, n)
      <4>1. PICK e : /\ e.up = Follow(m, p).up /\ e.name = p.names[Len(p.names)]
                     /\ n.tree = m.tree \union {e}
        BY <3>2 DEF Entering
      <4>2. Adding(m, e, n)
        BY <3>2, <4>1, <2>4, EndOfPath DEF Entering, Adding
      <4> QED  BY <4>2, <2>8, <1>1, WayPastNew
    <3>3. CASE m.ok /\ Removing(m, p, n) /\ h.obj # n.obj
      <4>1. Follow(m, h.filename).obj # n.obj
        BY <3>3, <2>8
      <4> QED  BY <4>1, <3>3, <2>4, <2>8, <1>1, WayPastGone
    <3>4. CASE m.ok /\ Changing(m, p, n) /\ h.filename.abs
      BY <3>4, <1>1, SameFollow DEF Changing
    <3>5. CASE /\ m.ok /\ ~Follow(m, p).dir /\ h.obj # n.obj
               /\ \E q \in Paths : Moving(m, p, q, n)
      <4>1. Follow(m, h.filename).obj # n.obj
        BY <3>5, <2>8
      <4> QED  BY <4>1, <3>5, <2>4, <2>8, <1>1, WayPastMoved
    <3> QED  BY <1>4, <3>1, <3>2, <3>3, <3>4, <3>5 DEF KeepsWay
  <2>10. Here(v)'.tree = n.tree /\ Here(v)'.vol.cdir = n.vol.cdir
    BY <1>2 DEF Here
  <2>11. Follow(Here(v)', h.filename) = Follow(n, h.filename)
    BY <1>1, <2>10, SameFollow
  <2> QED  BY <2>8, <2>9, <2>11
<1> QED  BY <1>3, <1>4

LEMMA WaysKept ==
    ASSUME MountInv, WayInv, NEW v \in Drives, NEW m \in find_volume(v) \union Remount(v),
           NEW p \in Paths, NEW n, SameMount(m, n), KeepsWays(v, m, p, n), LeaveVolume(v, n)
    PROVE  \A h \in files : WayOK(h)'
  BY WayKept DEF KeepsWays

\* The tree, the mounts and the ways after a call on one volume.
LEMMA InOrder ==
    ASSUME MountInv, WayInv, NEW v \in Drives, NEW m \in find_volume(v),
           NEW p \in Paths, NEW q \in Paths, NEW create,
           NEW n \in f_open(m, p, create) \union f_stat(m, p) \union f_opendir(m, p)
                     \union f_chdir(m, p) \union f_mkdir(m, p) \union f_unlink(m, p)
                     \union f_rename(m, p, q) \union Try(m, TRUE, {m}),
           LeaveVolume(v, n)
    PROVE  /\ TreeSound' /\ tree' = [w \in Drives |-> tree'[w]] /\ SameMount(m, n)
           /\ EffectShape(m) /\ VolShape(m.vol) /\ TreeOK(m) /\ InUse(m)
<1>1. EffectShape(m) /\ VolShape(m.vol)
  BY FindSound DEF Sound, VolOK
<1>2. TreeOK(m) /\ InUse(m) /\ TreeSound /\ tree = [w \in Drives |-> tree[w]]
  BY FindTree DEF WayInv
<1>3. TreeOK(n)
  BY <1>1, <1>2, OpsKeepTree
<1>4. SameMount(m, n)
  BY <1>1, OpsKeepMount
<1> QED  BY <1>1, <1>2, <1>3, <1>4, LeftInOrder

\* The files that are unsettled have no way to keep.
LEMMA Unsettled ==
    ASSUME MountInv, WayInv, NEW hs, files' = Unsettle(hs), \A h \in files \ hs : WayOK(h)'
    PROVE  \A h \in files' : h.vol = Volume(h.filename, h.drive) /\ WayOK(h)'
<1>1. ASSUME NEW k \in files' PROVE k.vol = Volume(k.filename, k.drive) /\ WayOK(k)'
  <2>1. PICK h \in files :
            k = [drive |-> h.drive, filename |-> h.filename, vol |-> h.vol, id |-> h.id,
                 obj |-> h.obj, era |-> h.era, steady |-> h.steady /\ h \notin hs]
    BY <1>1 DEF Unsettle
  <2>2. /\ k.vol = h.vol /\ k.id = h.id /\ k.drive = h.drive /\ k.filename = h.filename
        /\ k.obj = h.obj /\ k.steady = (h.steady /\ h \notin hs)
    BY <2>1
  <2>3. h.vol = Volume(h.filename, h.drive)
    BY DEF WayInv
  <2>4. CASE h \in hs
    BY <2>2, <2>3, <2>4 DEF WayOK
  <2>5. CASE h \notin hs
    <3>1. WayOK(h)'
      BY <2>5
    <3>2. WayOK(k)'
      BY <2>2, <3>1 DEF WayOK, Valid
    <3> QED  BY <2>2, <2>3, <3>2
  <2> QED  BY <2>4, <2>5
<1> QED  BY <1>1

\* A path that is handed to a drive names no other.
LEMMA PathOfDrive ==
    ASSUME NEW p \in Paths
    PROVE  Volume(p, FindDevice(p)) = FindDevice(p)
           /\ \A c : Volume(p, c) # c => Volume(p, c) = FindDevice(p)
  BY DEF Volume, FindDevice

LEMMA Placed ==
    ASSUME NEW how, how # "fstat", NEW goal, NEW acted, NEW want, NEW got,
           acted \in {goal, NoDrive} \/ (how = "diropen" /\ acted = CurrVol),
           Count(how, goal, acted, want, got)
    PROVE  RightPlace'
<1>1. last' = [op |-> how, asked |-> goal, acted |-> acted,
               here |-> IF how = "diropen" THEN CurrVol ELSE goal, want |-> want, got |-> got]
  BY DEF Count
<1>2. /\ last'.op = how /\ last'.asked = goal /\ last'.acted = acted
      /\ how = "diropen" => last'.here = CurrVol
  BY <1>1
<1> QED  BY <1>2 DEF RightPlace

LEMMA WayInit == DrivesInit => WayInv
<1> SUFFICES ASSUME DrivesInit PROVE WayInv
  OBVIOUS
<1>1. PICK usable \in [Drives -> BOOLEAN] :
          vols = [v \in Drives |-> [mounted |-> FALSE, id |-> 0, cdir |-> Root,
                                    noinit |-> TRUE, usable |-> usable[v], era |-> 0]]
  BY DEF DrivesInit
<1>2. tree \in [Drives -> Trees]
  BY DEF DrivesInit
<1>3. \A v \in Drives : WellFormed(tree[v]) /\ ~vols[v].mounted
  BY <1>1, <1>2, TreesAssumption
<1>4. TreeSound
  BY <1>3 DEF TreeSound
<1>5. RightPlace
  BY DEF DrivesInit, RightPlace
<1> QED  BY <1>2, <1>4, <1>5 DEF DrivesInit, WayInv

LEMMA WayNext == MountInv /\ WayInv /\ [DrivesNext]_drivesVars => WayInv'
<1> SUFFICES ASSUME MountInv, WayInv, [DrivesNext]_drivesVars PROVE WayInv'
  OBVIOUS
<1>a. \A h \in files : h.vol = Volume(h.filename, h.drive) /\ h.filename \in Paths /\ h.drive \in Drives
  BY DEF WayInv, MountInv
<1>b. ASSUME UNCHANGED <<vols, tree>>, files' \subseteq files, RightPlace' PROVE WayInv'
  BY <1>b DEF WayInv, TreeSound, WayOK, Here, Valid
<1>1. ASSUME NEW p \in Paths, NEW create, Open(p, create) PROVE WayInv'
  <2>1. PICK v \in Drives : v = FindDevice(p) /\ v = Volume(p, FindDevice(p))
    BY <1>1, Switched, PathOfDrive, SMTT(60) DEF Open
  <2>2. PICK m, n :
            /\ m \in find_volume(v) /\ n \in f_open(m, p, create)
            /\ LeaveVolume(v, n) /\ Outcome("path", p, v, n)
            /\ files' = files \union
                   (IF n.ok THEN {[drive |-> v, filename |-> p, vol |-> v, id |-> n.vol.id,
                                   obj |-> n.obj, era |-> n.vol.era, steady |-> TRUE]} ELSE {})
    BY <1>1, <2>1 DEF Open
  <2> DEFINE k == [drive |-> v, filename |-> p, vol |-> v, id |-> n.vol.id,
                   obj |-> n.obj, era |-> n.vol.era, steady |-> TRUE]
  <2>3. v = Volume(k.filename, k.drive) /\ k.vol = v /\ k.filename = p /\ k.obj = n.obj
    BY <2>1
  <2>4. \A h \in files' : h \in files \/ (n.ok /\ h = k)
    BY <2>2, SMTT(60)
  <2> HIDE DEF k
  <2>5. /\ TreeSound' /\ tree' = [w \in Drives |-> tree'[w]] /\ SameMount(m, n)
        /\ EffectShape(m) /\ VolShape(m.vol) /\ TreeOK(m) /\ InUse(m)
    BY <2>1, <2>2, InOrder
  <2>6. \/ Kept(m, n) /\ n.ok = FALSE
        \/ m.ok /\ Kept(m, n) /\ Follow(m, p).res = "ok" /\ n.obj = Follow(m, p).obj
        \/ m.ok /\ Entering(m, p, n)
    BY <2>2, <2>5, Effects
  <2>7. \A h \in files : WayOK(h)'
    <3>1. KeepsWays(v, m, p, n)
      BY <2>6 DEF KeepsWays, KeepsWay
    <3> QED  BY <3>1, <2>1, <2>2, <2>5, WaysKept
  <2>8. ASSUME n.ok PROVE WayOK(k)'
    <3>1. Follow(n, p).res = "ok" /\ Follow(n, p).obj = n.obj
      <4>1. CASE Kept(m, n) /\ Follow(m, p).res = "ok" /\ n.obj = Follow(m, p).obj
        <5>1. Follow(n, p) = Follow(m, p)
          BY <4>1, SameFollow DEF Kept
        <5> QED  BY <4>1, <5>1
      <4>2. CASE Entering(m, p, n)
        BY <4>2, WayToNew, SMTT(60)
      <4> QED  BY <2>6, <2>8, <4>1, <4>2
    <3>2. Here(v)'.tree = n.tree /\ Here(v)'.vol.cdir = n.vol.cdir
      BY <2>1, <2>2, LeaveOne DEF Here, WayInv
    <3>3. Follow(Here(v)', p) = Follow(n, p)
      BY <3>2, SameFollow
    <3>4. Follow(Here(k.vol)', k.filename).res = "ok" /\ Follow(Here(k.vol)', k.filename).obj = k.obj
      BY <3>1, <3>3, <2>3
    <3> QED  BY <3>4 DEF WayOK
  <2>9. \A h \in files' : h.vol = Volume(h.filename, h.drive) /\ WayOK(h)'
    BY <2>3, <2>4, <2>7, <2>8, <1>a, SMTT(60)
  <2>10. RightPlace'
    BY <2>1, <2>2, Placed DEF Outcome
  <2> QED  BY <2>5, <2>9, <2>10 DEF WayInv
\* The calls with a path that leave the ways to open files as they are.
<1>2. ASSUME NEW p \in Paths, Stat(p) \/ Mkdir(p) \/ Unlink(p) PROVE WayInv'
  <2> DEFINE v == Volume(p, FindDevice(p))
  <2>1. FindDevice(p) \in Drives /\ v \in Drives /\ v = FindDevice(p)
    BY <1>2, Switched, PathOfDrive DEF Stat, Mkdir, Unlink
  <2>2. files' = files
    BY <1>2 DEF Stat, Mkdir, Unlink
  <2>3. PICK m, n :
            /\ m \in find_volume(v)
            /\ \/ n \in f_stat(m, p) \union f_mkdir(m, p)
               \/ n \in f_unlink(m, p) /\ Closed(v, n)
            /\ LeaveVolume(v, n) /\ Outcome("path", p, v, n)
    BY <1>2 DEF Stat, Mkdir, Unlink
  <2> HIDE DEF v
  <2>4. TreeSound' /\ tree' = [w \in Drives |-> tree'[w]] /\ SameMount(m, n)
        /\ EffectShape(m) /\ VolShape(m.vol)
    BY <2>1, <2>3, InOrder
  <2>5. KeepsWays(v, m, p, n)
    BY <2>3, <2>4, Effects DEF KeepsWays, KeepsWay, Closed
  <2>6. \A h \in files' : h.vol = Volume(h.filename, h.drive) /\ WayOK(h)'
    BY <2>1, <2>2, <2>3, <2>4, <2>5, WaysKept, <1>a
  <2>7. RightPlace'
    BY <2>1, <2>3, Placed DEF Outcome
  <2> QED  BY <2>4, <2>6, <2>7 DEF WayInv
\* The two that may not: a change of directory moves the ways that start
\* there, a directory that is moved those that go through it.
<1>3. ASSUME NEW p \in Paths, NEW q \in Paths, Chdir(p) \/ Rename(p, q) PROVE WayInv'
  <2> DEFINE v == Volume(p, FindDevice(p))
  <2>1. FindDevice(p) \in Drives /\ v \in Drives /\ v = FindDevice(p)
    BY <1>3, Switched, PathOfDrive DEF Chdir, Rename
  <2>2. PICK m, n, hs :
            /\ m \in find_volume(v) /\ LeaveVolume(v, n) /\ Outcome("path", p, v, n)
            /\ files' = Unsettle(hs)
            /\ \/ n \in f_chdir(m, p) /\ hs = {h \in Relative(v) : n.ok}
               \/ /\ n \in f_rename(m, p, q) /\ Closed(v, n)
                  /\ hs = {h \in files : h.vol = v /\ n.ok /\ IsDirectory(n)}
    <3>1. CASE Chdir(p)
      BY <3>1 DEF Chdir
    <3>2. CASE Rename(p, q)
      BY <3>2 DEF Rename
    <3> QED  BY <1>3, <3>1, <3>2
  <2> HIDE DEF v
  <2>3. TreeSound' /\ tree' = [w \in Drives |-> tree'[w]] /\ SameMount(m, n)
        /\ EffectShape(m) /\ VolShape(m.vol)
    BY <2>1, <2>2, InOrder
  <2>4. ASSUME NEW h \in files \ hs, h.vol = v PROVE KeepsWay(h, m, p, n)
    <3>1. CASE n \in f_chdir(m, p) /\ hs = {k \in Relative(v) : n.ok}
      <4>1. Kept(m, n) \/ (m.ok /\ n.ok = m.ok /\ Changing(m, p, n))
        BY <2>3, <3>1, Effects
      <4>2. n.ok => h.filename.abs
        BY <2>4, <3>1 DEF Relative
      <4> QED  BY <4>1, <4>2 DEF KeepsWay
    <3>2. CASE /\ n \in f_rename(m, p, q) /\ Closed(v, n)
               /\ hs = {k \in files : k.vol = v /\ n.ok /\ IsDirectory(n)}
      <4>1. Kept(m, n) \/ (m.ok /\ n.ok = m.ok /\ Moving(m, p, q, n))
        BY <2>3, <3>2, Effects
      <4>2. n.ok => h.obj # n.obj /\ ~IsDirectory(n)
        BY <2>4, <3>2 DEF Closed
      <4>3. Moving(m, p, q, n) /\ ~IsDirectory(n) => ~Follow(m, p).dir
        BY DEF Moving, IsDirectory
      <4> QED  BY <4>1, <4>2, <4>3 DEF KeepsWay
    <3> QED  BY <2>2, <3>1, <3>2
  <2>5. \A h \in files \ hs : WayOK(h)'
    BY <2>1, <2>2, <2>3, <2>4, WayKept
  <2>6. \A h \in files' : h.vol = Volume(h.filename, h.drive) /\ WayOK(h)'
    BY <2>2, <2>5, Unsettled
  <2>7. RightPlace'
    BY <2>1, <2>2, Placed DEF Outcome
  <2> QED  BY <2>3, <2>6, <2>7 DEF WayInv
<1>4. ASSUME NEW p \in Paths, Diropen(p) PROVE WayInv'
  <2> DEFINE v == Volume(p, CurrVol)
  <2>1. v \in Drives
    BY VolumeOfPath DEF MountInv
  <2>2. PICK m, n :
            /\ m \in find_volume(v) /\ n \in f_opendir(m, p)
            /\ LeaveVolume(v, n) /\ Outcome("diropen", p, v, n)
    BY <1>4 DEF Diropen
  <2>3. v = FindDevice(p) \/ v = CurrVol
    BY PathOfDrive
  <2> HIDE DEF v
  <2>4. TreeSound' /\ tree' = [w \in Drives |-> tree'[w]] /\ SameMount(m, n)
        /\ EffectShape(m) /\ VolShape(m.vol)
    BY <2>1, <2>2, InOrder
  <2>5. KeepsWays(v, m, p, n)
    BY <2>2, <2>4, Effects DEF KeepsWays, KeepsWay
  <2>6. files' = files
    BY <1>4 DEF Diropen
  <2>7. \A h \in files' : h.vol = Volume(h.filename, h.drive) /\ WayOK(h)'
    BY <2>1, <2>2, <2>4, <2>5, <2>6, WaysKept, <1>a
  <2>8. RightPlace'
    BY <2>2, <2>3, Placed DEF Outcome
  <2> QED  BY <2>4, <2>7, <2>8 DEF WayInv
<1>5. ASSUME NEW h \in files, Fstat(h) PROVE WayInv'
  <2>1. h.vol \in Drives /\ h.filename \in Paths /\ Volume(h.filename, FstatDrive(h)) = h.vol
    BY <1>a DEF MountInv, HandleOK, FstatDrive
  <2>2. PICK m, n :
            /\ m \in find_volume(h.vol) /\ n \in f_stat(m, h.filename) /\ LeaveVolume(h.vol, n)
            /\ Count("fstat", h.vol, IF n.ok THEN h.vol ELSE NoDrive,
                     IF h.steady /\ Valid(h) THEN h.obj ELSE Nothing, n.obj)
    BY <1>5, <2>1 DEF Fstat
  <2>3. TreeSound' /\ tree' = [w \in Drives |-> tree'[w]] /\ SameMount(m, n)
        /\ EffectShape(m) /\ VolShape(m.vol)
    BY <2>1, <2>2, InOrder
  <2>4. KeepsWays(h.vol, m, h.filename, n)
    BY <2>2, <2>3, Effects DEF KeepsWays, KeepsWay
  <2>5. files' = files
    BY <1>5 DEF Fstat
  <2>6. \A k \in files' : k.vol = Volume(k.filename, k.drive) /\ WayOK(k)'
    BY <2>1, <2>2, <2>3, <2>4, <2>5, WaysKept, <1>a
  <2>7. ASSUME n.ok, h.steady, Valid(h) PROVE n.obj = h.obj
    <3>1. m = At(h.vol, vols[h.vol], Fsid, TRUE)
      BY <2>2, <2>7 DEF find_volume, Valid
    <3>2. n = [m EXCEPT !.obj = Follow(m, h.filename).obj]
      <4>1. n = [m EXCEPT !.ok = FALSE] \/ n = [m EXCEPT !.obj = Follow(m, h.filename).obj]
        BY <2>2 DEF f_stat, Try
      <4>2. [m EXCEPT !.ok = FALSE].ok = FALSE
        BY <2>3, Effects
      <4> QED  BY <4>1, <4>2, <2>7
    <3>3. n.obj = Follow(m, h.filename).obj
      BY <3>2, <2>3 DEF EffectShape
    <3>4. Here(h.vol).tree = m.tree /\ Here(h.vol).vol.cdir = m.vol.cdir
      BY <3>1 DEF At, Here
    <3>5. Follow(m, h.filename) = Follow(Here(h.vol), h.filename)
      BY <2>1, <3>4, SameFollow
    <3>6. Follow(Here(h.vol), h.filename).obj = h.obj
      BY <2>7 DEF WayInv, WayOK
    <3> QED  BY <3>3, <3>5, <3>6
  <2>8. RightPlace'
    <3>1. /\ last'.op = "fstat" /\ last'.asked = h.vol /\ last'.got = n.obj
          /\ last'.acted = IF n.ok THEN h.vol ELSE NoDrive
          /\ last'.want = IF h.steady /\ Valid(h) THEN h.obj ELSE Nothing
      BY <2>2 DEF Count
    <3> QED  BY <3>1, <2>7 DEF RightPlace
  <2> QED  BY <2>3, <2>6, <2>8 DEF WayInv
<1>6. ASSUME NEW v \in Drives, Statvfs(v) \/ CheckReady(v) PROVE WayInv'
  <2>1. PICK m, n :
            /\ m \in find_volume(v) \union Remount(v) /\ n \in Try(m, TRUE, {m}) \union {m}
            /\ LeaveVolume(v, n) /\ Count("path", v, IF n.ok THEN v ELSE NoDrive, Nothing, Nothing)
    <3>1. CASE Statvfs(v)
      BY <3>1 DEF Statvfs
    <3>2. CASE CheckReady(v)
      <4>1. PICK m \in Remount(v) :
                LeaveVolume(v, m) /\ Count("path", v, IF m.ok THEN v ELSE NoDrive, Nothing, Nothing)
        BY <3>2 DEF CheckReady
      <4> QED  BY <4>1
    <3> QED  BY <1>6, <3>1, <3>2
  <2>2. EffectShape(m) /\ VolShape(m.vol) /\ TreeOK(m)
    BY <2>1, FindSound, RemountSound, FindTree DEF Sound, VolOK, WayInv
  <2>3. SameMount(m, n) /\ Kept(m, n)
    <3>1. CASE n = m
      BY <3>1, <2>2 DEF SameMount, Kept
    <3>2. CASE n \in Try(m, TRUE, {m})
      BY <3>2, <2>2, OpsKeepMount, Effects
    <3> QED  BY <2>1, <3>1, <3>2
  <2>4. TreeOK(n)
    BY <2>2, <2>3 DEF TreeOK, Kept
  <2>5. TreeSound' /\ tree' = [w \in Drives |-> tree'[w]]
    BY <2>1, <2>4, LeftInOrder DEF WayInv
  <2>6. files' = files
    BY <1>6 DEF Statvfs, CheckReady
  <2>7. ASSUME NEW p \in Paths PROVE \A h \in files : WayOK(h)'
    <3>1. KeepsWays(v, m, p, n)
      BY <2>3 DEF KeepsWays, KeepsWay
    <3> QED  BY <3>1, <2>1, <2>3, WaysKept
  <2>8. \A h \in files' : h.vol = Volume(h.filename, h.drive) /\ WayOK(h)'
    BY <2>6, <2>7, <1>a
  <2>9. RightPlace'
    BY <2>1, Placed
  <2> QED  BY <2>5, <2>8, <2>9 DEF WayInv
<1>7. ASSUME NEW h \in files, ReadWrite(h) \/ OnFile(h) \/ Close(h) PROVE WayInv'
  <2>1. UNCHANGED <<vols, tree>> /\ files' \subseteq files /\ Through("file", h)
    BY <1>7 DEF ReadWrite, OnFile, Close
  <2>2. RightPlace'
    BY <2>1, Placed DEF Through
  <2> QED  BY <2>1, <2>2, <1>b
<1>8. ASSUME NEW d \in dirs, OnDir(d) \/ Dirclose(d) PROVE WayInv'
  <2>1. UNCHANGED <<vols, tree, files>>
    BY <1>8 DEF OnDir, Dirclose
  <2>2. RightPlace'
    BY <1>8, Placed DEF OnDir, Dirclose, Through
  <2> QED  BY <2>1, <2>2, <1>b
<1>9. ASSUME NEW v \in Drives, Chdrive(v) PROVE WayInv'
  BY <1>9, <1>b, Placed DEF Chdrive
<1>10. ASSUME NEW v \in Drives, SetUpDisk(v) PROVE WayInv'
  <2>1. PICK usable \in BOOLEAN :
            vols' = [vols EXCEPT ![v] = [mounted |-> @.mounted, id |-> @.id, cdir |-> @.cdir,
                                         noinit |-> TRUE, usable |-> usable, era |-> @.era + 1]]
    BY <1>10 DEF SetUpDisk
  <2>2. PICK t \in Trees \union {tree[v]} : tree' = [tree EXCEPT ![v] = t]
    BY <1>10 DEF SetUpDisk
  <2>3. /\ tree' = [w \in Drives |-> tree'[w]] /\ tree'[v] = t /\ vols'[v].noinit
        /\ \A w \in Drives \ {v} : vols'[w] = vols[w] /\ tree'[w] = tree[w]
    BY <2>1, <2>2 DEF MountInv, WayInv
  <2>4. WellFormed(t)
    BY <2>2, TreesAssumption DEF WayInv, TreeSound
  <2>5. TreeSound'
    BY <2>3, <2>4 DEF WayInv, TreeSound, WellFormed, There
  <2>6. files' = files
    BY <1>10 DEF SetUpDisk
  <2>7. ASSUME NEW h \in files PROVE WayOK(h)'
    <3>1. CASE h.vol = v
      BY <3>1, <2>3 DEF WayOK, Valid
    <3>2. CASE h.vol # v
      <4>1. vols'[h.vol] = vols[h.vol] /\ tree'[h.vol] = tree[h.vol]
        BY <2>3, <3>2 DEF MountInv, HandleOK
      <4> QED  BY <4>1, WayElsewhere DEF WayInv
    <3> QED  BY <3>1, <3>2
  <2>8. RightPlace'
    BY <1>10, Placed DEF SetUpDisk
  <2> QED  BY <2>3, <2>5, <2>6, <2>7, <2>8, <1>a DEF WayInv
<1>11. CASE UNCHANGED drivesVars
  BY <1>11, <1>b DEF drivesVars, RightPlace, WayInv
<1> QED  BY <1>1, <1>2, <1>3, <1>4, <1>5, <1>6, <1>7, <1>8, <1>9, <1>10, <1>11 DEF DrivesNext

LEMMA WayInvariant == DrivesSpec => []WayInv
<1>1. MountInv /\ WayInv /\ [DrivesNext]_drivesVars => WayInv'
  BY WayNext
<1> QED  BY <1>1, WayInit, MountInvariant, PTL DEF DrivesSpec

\* Nothing is made, found or lost in a directory that is gone, for any drives,
\* paths of any length, and media: what f_unlink and f_rename refuse, and
\* nothing more, keeps every tree and current directory in order.
THEOREM TreesStaySound == DrivesSpec => []TreeSound
<1>1. WayInv => TreeSound
  BY DEF WayInv
<1> QED  BY <1>1, WayInvariant, PTL

\* Every call acts on the drive it was asked for, but a directory opened by a
\* path without a drive is on the drive of the call before.  fstat finds the
\* file it was asked about, as long as no directory was moved, the volume not
\* mounted anew, and the current directory not changed for a relative name.
THEOREM CallsActWhereAsked == DrivesSpec => []RightPlace
<1>1. WayInv => RightPlace
  BY DEF WayInv
<1> QED  BY <1>1, WayInvariant, PTL

=============================================================================
