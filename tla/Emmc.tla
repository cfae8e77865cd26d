-------------------------------- MODULE Emmc --------------------------------
(***************************************************************************)
(* The SD card driver: c/emmc.c behind c/sd.c.  Nothing runs while the     *)
(* driver waits, so a command with its answer and its data is one step;    *)
(* what the controller and the card may do in it is an Exchange, faults    *)
(* included.  A word of the card's answer is a field of its own.           *)
(***************************************************************************)
EXTENDS Integers, Sequences, FiniteSetsExt

CONSTANTS
  NSectors, Value,
  MaxBlocks,  \* sectors in one request (bound)
  Attempts,   \* of emmc_init: 10 in the code
  Tries,      \* max_retries: 3
  Rca,        \* the addresses a card gives itself
  Kinds,      \* of card: "v1" and "v2" count bytes, "hc" counts sectors
  MaxWarm,    \* busy answers of a card that powers up (bound)
  MaxFaults   \* faults of card and controller (bound)

ASSUME EmmcAssumption ==
  /\ NSectors \in Nat \ {0} /\ MaxBlocks \in 1..NSectors
  /\ Attempts \in Nat \ {0} /\ Tries \in Nat \ {0}
  /\ Rca \subseteq Nat \ {0} /\ Kinds \subseteq {"v1", "v2", "hc"}
  /\ MaxWarm \in Nat /\ MaxFaults \in Nat

VARIABLES
  dev,        \* emmc_device: what later commands depend on
  card,       \* the card
  pc,         \* the command the driver sends next
  v2,         \* v2_card of emmc_card_reset
  req,        \* the call: kind, first sector, buffer, result
  tried,      \* attempts of emmc_init, tries of do_data_command
  up,         \* the last emmc_init succeeded: mountFS gave a file system
  faults, hit \* history: faults so far, and during this call

drv  == <<dev, pc, v2, req, tried, up>>
vars == <<drv, card, faults, hit>>

Sector   == 0..NSectors - 1
DataCmds == {"readBlock", "readMultiple", "writeBlock", "writeMultiple"}
IsData(cmd)  == cmd \in DataCmds \cup {"sendSCR"}
Waits(cmd)   == IsData(cmd) \/ cmd = "selectCard"   \* for the end of the transfer
Errors       == {"cmdTimeout", "cmdCrc", "dataTimeout", "dataCrc"}

----------------------------------------------------------------------------
(* The card and the controller, as the SD specification has them.          *)
Understands(cmd, arg) ==
  CASE cmd = "goIdle"     -> TRUE
    [] cmd = "sendIfCond" -> card.state = "idle" /\ card.kind # "v1"
    [] cmd = "app"        -> card.state \notin {"ready", "ident"} /\ arg = card.rca
    [] cmd = "ocrCheck"   -> card.state = "idle" /\ card.app
    [] cmd = "sendCide"   -> card.state = "ready"
    [] cmd = "sendRelativeAddr" -> card.state = "ident"
    [] cmd = "selectCard" -> card.state = "stby" /\ arg = card.rca
    [] cmd = "sendSCR"    -> card.state = "tran" /\ card.app
    [] OTHER              -> card.state = "tran"

(* A card that counts sectors stays busy for a host that does not know it. *)
Ready(arg) == card.warm = 0 /\ (card.kind = "hc" => arg = "hcs")
Moves(cmd, arg) ==
  LET to(s) == [card EXCEPT !.state = s, !.app = cmd = "app"] IN
  CASE cmd = "goIdle"   -> {[to("idle") EXCEPT !.rca = 0, !.warm = MaxWarm]}
    [] cmd = "ocrCheck" -> {[to(IF Ready(arg) THEN "ready" ELSE "idle")
                               EXCEPT !.warm = IF @ = 0 THEN 0 ELSE @ - 1]}
    [] cmd = "sendCide" -> {to("ident")}
    [] cmd = "sendRelativeAddr" -> {[to("stby") EXCEPT !.rca = r] : r \in Rca}
    [] cmd = "selectCard"       -> {to("tran")}
    [] OTHER -> {to(card.state)}

First(arg) == IF card.kind = "hc" THEN arg ELSE arg \div 512
Programs(c, arg, k) ==
  [c EXCEPT !.mem = [s \in Sector |-> IF s \in First(arg)..First(arg) + k - 1
                                      THEN req.data[s - First(arg) + 1] ELSE @[s]]]
Writes(cmd) == cmd \in {"writeBlock", "writeMultiple"}
(* The controller sends CMD12 at the end of an open-ended transfer; nobody *)
(* sends it for one that was broken off.                                   *)
Stuck(c, cmd) ==
  CASE cmd = "readMultiple"  -> [c EXCEPT !.state = "data"]
    [] cmd = "writeMultiple" -> [c EXCEPT !.state = "rcv"]
    [] OTHER -> c

Xchg(irq, blocks, done, c, cost) ==
  [irq |-> irq, blocks |-> blocks, done |-> done, card |-> c, cost |-> cost]
Full(n)       == [i \in 1..n |-> {"bufferReady"}]
NoData(cmd)   == IF IsData(cmd) THEN Full(dev.blocks) ELSE <<>>
Done(cmd, arg, c) ==
  IF Writes(cmd) THEN Programs(c, arg, dev.blocks) ELSE c

(* int_flags: at the end of the command, for each block, and at the end of *)
(* the transfer.  CMD0 has no answer to miss.                              *)
Good(cmd, arg) ==
  IF Understands(cmd, arg)
    THEN {Xchg({"cmdDone"}, NoData(cmd), {"xferDone"}, Done(cmd, arg, c), 0) : c \in Moves(cmd, arg)}
    ELSE {Xchg({"cmdTimeout"}, <<>>, {}, [card EXCEPT !.app = FALSE], 0)}
CommandFault(cmd, arg) ==
  {Xchg(irq, <<>>, {}, c, 1) :
     irq \in IF cmd = "goIdle" THEN {{}, {"cmdDone"}} ELSE {{}, {"cmdTimeout"}, {"cmdDone", "cmdCrc"}},
     c \in {card} \cup IF Understands(cmd, arg) /\ ~IsData(cmd) THEN Moves(cmd, arg) ELSE {}}
DataFault(cmd, arg) ==
  IF ~IsData(cmd) \/ ~Understands(cmd, arg) THEN {}
  ELSE LET ended(c, k) == IF Writes(cmd) THEN Programs(c, arg, k) ELSE c IN
       {Xchg({"cmdDone"}, Full(k - 1) \o <<bad>>, {}, ended(Stuck(c, cmd), k - 1), 1) :
          k \in 1..dev.blocks, bad \in {{}, {"dataTimeout"}, {"bufferReady", "dataCrc"}},
          c \in Moves(cmd, arg)}
         \cup
       {Xchg({"cmdDone"}, Full(dev.blocks), done, ended(c, dev.blocks - 1), 1) :
          done \in {{}, {"dataTimeout"}, {"xferDone", "dataCrc"}}, c \in Moves(cmd, arg)}
         \cup
       {Xchg({"cmdDone"}, Full(dev.blocks), {"xferDone", "dataTimeout"}, Done(cmd, arg, c), 1) :
          c \in Moves(cmd, arg)}
Controller(cmd, arg) ==
  Good(cmd, arg) \cup IF faults < MaxFaults THEN CommandFault(cmd, arg) \cup DataFault(cmd, arg) ELSE {}

Exchange(x) ==
  /\ card' = x.card
  /\ faults' = faults + x.cost /\ hit' = hit + x.cost

----------------------------------------------------------------------------
(* emmc_issue_command: what the driver makes of the flags.                 *)
CommandOK(x) == x.irq \cap (Errors \cup {"cmdDone"}) = {"cmdDone"}
BadBlocks(x) == {i \in DOMAIN x.blocks : x.blocks[i] \cap (Errors \cup {"bufferReady"}) # {"bufferReady"}}
Moved(x)     == IF BadBlocks(x) = {} THEN Len(x.blocks) ELSE Min(BadBlocks(x)) - 1
(* Error flags stay set until the end of the transfer is looked at.        *)
AtEnd(x) ==
  x.done \cup IF BadBlocks(x) = {} THEN {} ELSE x.blocks[Min(BadBlocks(x))] \cap Errors
TransferDone(x) == "xferDone" \in AtEnd(x)    \* mutant: whatever else is set
TransferOK(x) ==
  AtEnd(x) \cap (Errors \cup {"xferDone"}) \in {{"xferDone"}, {"xferDone", "dataTimeout"}}
Ok(cmd, x) == CommandOK(x) /\ (Waits(cmd) => TransferOK(x))

Idle == pc = "idle"
Call(kind, lba, data) == [kind |-> kind, lba |-> lba, data |-> data, result |-> "busy"]
Returns(r) == pc' = "idle" /\ req' = [req EXCEPT !.result = r]

Init ==
  /\ dev = [rca |-> 0, sdhc |-> FALSE, bsize |-> 0, blocks |-> 0]
  /\ card \in [kind : Kinds, state : {"tran"}, rca : Rca, app : {FALSE},
               warm : {0}, mem : [Sector -> Value]]
  /\ pc = "idle" /\ v2 = FALSE /\ tried = 0 /\ up = FALSE
  /\ req = [Call("none", 0, <<>>) EXCEPT !.result = "none"]
  /\ faults = 0 /\ hit = 0

----------------------------------------------------------------------------
(* emmc_init: attempts at emmc_card_reset, which forgets neither the       *)
(* relative address nor the addressing of the attempt before.              *)
EmmcInit ==
  /\ Idle /\ pc' = "reset"
  /\ dev' = [rca |-> 0, sdhc |-> FALSE, bsize |-> 0, blocks |-> 0]
  /\ req' = Call("init", 0, <<>>) /\ tried' = 1 /\ up' = FALSE /\ hit' = 0
  /\ UNCHANGED <<card, v2, faults>>

FailsUncounted ==            \* mutant: the attempts are not counted
  pc' = "reset" /\ UNCHANGED <<tried, req, up>>
Fails ==
  IF tried < Attempts
    THEN pc' = "reset" /\ tried' = tried + 1 /\ UNCHANGED <<req, up>>
    ELSE Returns("failed") /\ UNCHANGED <<tried, up>>
Proceeds(next) == pc' = next /\ UNCHANGED <<req, tried, up>>
Step(good, next) == IF good THEN Proceeds(next) ELSE Fails

ResetHost ==
  /\ pc = "reset" /\ dev' = [dev EXCEPT !.blocks = 0, !.bsize = 0]
  /\ Proceeds("goIdle") /\ UNCHANGED <<card, v2, faults, hit>>
(* The controller stays in reset, or its clock does not become stable.     *)
ResetFails ==
  /\ pc = "reset" /\ faults < MaxFaults /\ faults' = faults + 1 /\ hit' = hit + 1
  /\ Fails /\ UNCHANGED <<card, v2, dev>>

GoIdle ==
  /\ pc \in {"goIdle", "goIdleAgain"}
  /\ \E x \in Controller("goIdle", 0) :
       /\ Exchange(x)
       /\ IF Ok("goIdle", x) \/ pc = "goIdleAgain" THEN Step(Ok("goIdle", x), "sendIfCond")
                                                   ELSE Proceeds("goIdleAgain")
  /\ UNCHANGED <<dev, v2>>

(* check_v2_card: whatever goes wrong, the card is taken for an old one.   *)
CheckV2Card ==
  /\ pc = "sendIfCond"
  /\ \E x \in Controller("sendIfCond", 0) : Exchange(x) /\ v2' = Ok("sendIfCond", x)
  /\ Proceeds("appOcr") /\ UNCHANGED dev

(* emmc_app_command: CMD55 first.                                          *)
AppPrefix ==
  /\ pc \in {"appOcr", "appScr"}
  /\ \E x \in Controller("app", dev.rca) :
       Exchange(x) /\ Step(Ok("app", x), IF pc = "appOcr" THEN "ocrCheck" ELSE "sendSCR")
  /\ UNCHANGED <<dev, v2>>

(* check_sdhc_support asks until the card is ready.                        *)
HostSays == IF v2 THEN "hcs" ELSE "plain"
CheckSdhc ==
  /\ pc = "ocrCheck"
  /\ \E x \in Controller("ocrCheck", HostSays) :
       /\ Exchange(x)
       /\ IF Ok("ocrCheck", x) /\ ~Ready(HostSays)
            THEN Proceeds("appOcr") /\ UNCHANGED dev
            ELSE /\ Step(Ok("ocrCheck", x), "sendCide")
                 /\ dev' = IF Ok("ocrCheck", x) THEN [dev EXCEPT !.sdhc = card.kind = "hc"] ELSE dev
  /\ UNCHANGED v2

(* check_rca: the address is stored before the card's status is looked at. *)
CheckCid ==
  /\ pc = "sendCide"
  /\ \E x \in Controller("sendCide", 0) : Exchange(x) /\ Step(Ok("sendCide", x), "sendRelativeAddr")
  /\ UNCHANGED <<dev, v2>>
CheckRca ==
  /\ pc = "sendRelativeAddr"
  /\ \E x \in Controller("sendRelativeAddr", 0) :
       /\ Exchange(x) /\ Step(Ok("sendRelativeAddr", x), "selectCard")
       /\ dev' = IF Ok("sendRelativeAddr", x) THEN [dev EXCEPT !.rca = card'.rca] ELSE dev
  /\ UNCHANGED v2
RcaNotReady ==
  /\ pc = "sendRelativeAddr" /\ faults < MaxFaults
  /\ \E x \in Good("sendRelativeAddr", 0) :
       /\ Ok("sendRelativeAddr", x) /\ Exchange([x EXCEPT !.cost = 1])
       /\ dev' = [dev EXCEPT !.rca = card'.rca]
  /\ Fails /\ UNCHANGED v2

(* set_scr begins here: it shrinks the blocks before it asks for the SCR.  *)
ShrinksBlocks == dev' = [dev EXCEPT !.bsize = 8, !.blocks = 1]
SelectCard ==
  /\ pc = "selectCard"
  /\ \E x \in Controller("selectCard", dev.rca) :
       /\ Exchange(x) /\ Step(Ok("selectCard", x), IF dev.sdhc THEN "appScr" ELSE "setBlockLen")
       /\ IF Ok("selectCard", x) /\ dev.sdhc THEN ShrinksBlocks ELSE UNCHANGED dev
  /\ UNCHANGED v2
SetBlockLen ==
  /\ pc = "setBlockLen"
  /\ \E x \in Controller("setBlockLen", 512) :
       /\ Exchange(x) /\ Step(Ok("setBlockLen", x), "appScr")
       /\ IF Ok("setBlockLen", x) THEN ShrinksBlocks ELSE UNCHANGED dev
  /\ UNCHANGED v2
SetScrShort ==               \* mutant: the block size stays shrunk
  /\ pc = "sendSCR"
  /\ \E x \in Controller("sendSCR", 0) :
       /\ Exchange(x)
       /\ IF Ok("sendSCR", x) THEN Returns("ok") /\ up' = TRUE /\ UNCHANGED tried ELSE Fails
  /\ UNCHANGED <<dev, v2>>
SetScr ==
  /\ pc = "sendSCR"
  /\ \E x \in Controller("sendSCR", 0) :
       /\ Exchange(x)
       /\ IF Ok("sendSCR", x)
            THEN dev' = [dev EXCEPT !.bsize = 512] /\ Returns("ok") /\ up' = TRUE /\ UNCHANGED tried
            ELSE Fails /\ UNCHANGED dev
  /\ UNCHANGED v2

----------------------------------------------------------------------------
(* pi_sd_read and pi_sd_write: do_data_command.  Its assertion reboots.    *)
DataCommand(kind, lba, data) ==
  /\ Idle /\ up /\ hit' = 0
  /\ CASE Len(data) * 512 < dev.bsize ->
            req' = [Call(kind, lba, data) EXCEPT !.result = "failed"] /\ UNCHANGED <<pc, dev, tried>>
       [] Len(data) * 512 >= dev.bsize /\ dev.bsize # 512 ->
            pc' = "reboot" /\ req' = Call(kind, lba, data) /\ UNCHANGED <<dev, tried>>
       [] OTHER ->
            /\ pc' = "data" /\ req' = Call(kind, lba, data) /\ tried' = 1
            /\ dev' = [dev EXCEPT !.blocks = Len(data)]
  /\ UNCHANGED <<card, v2, up, faults>>

Cmd == CASE req.kind = "read"  -> IF dev.blocks > 1 THEN "readMultiple"  ELSE "readBlock"
         [] req.kind = "write" -> IF dev.blocks > 1 THEN "writeMultiple" ELSE "writeBlock"
Address == IF dev.sdhc THEN req.lba ELSE req.lba * 512

(* The blocks that came in are in the buffer, whatever came of the rest.   *)
Buffer(x) ==
  IF req.kind = "write" \/ ~CommandOK(x) THEN req.data
  ELSE [i \in DOMAIN req.data |-> IF i <= Moved(x) THEN card.mem[First(Address) + i - 1] ELSE req.data[i]]

Retry == tried < Tries
(* Retries repeat the command as it was; the card is not reset.            *)
Transfer ==
  /\ pc = "data"
  /\ \E x \in Controller(Cmd, Address) :
       /\ Exchange(x)
       /\ CASE Ok(Cmd, x) -> pc' = "idle" /\ req' = [req EXCEPT !.data = Buffer(x), !.result = "ok"]
                             /\ UNCHANGED tried
            [] ~Ok(Cmd, x) /\ Retry ->
                 tried' = tried + 1 /\ req' = [req EXCEPT !.data = Buffer(x)] /\ UNCHANGED pc
            [] OTHER -> pc' = "idle" /\ req' = [req EXCEPT !.data = Buffer(x), !.result = "failed"]
                        /\ UNCHANGED tried
  /\ UNCHANGED <<dev, v2, up>>

Request ==
  \E n \in 0..MaxBlocks, lba \in Sector :
    /\ lba + n <= NSectors
    /\ \E kind \in {"read", "write"}, data \in [1..n -> Value] : DataCommand(kind, lba, data)
InitSteps ==
  \/ ResetHost \/ ResetFails \/ GoIdle \/ CheckV2Card \/ AppPrefix \/ CheckSdhc
  \/ CheckCid \/ CheckRca \/ RcaNotReady \/ SelectCard \/ SetBlockLen \/ SetScr
Next == EmmcInit \/ InitSteps \/ Request \/ Transfer

Spec     == Init /\ [][Next]_vars
FairSpec == Spec /\ WF_vars(InitSteps \/ Transfer)

----------------------------------------------------------------------------
(* The types.                                                              *)
InitPcs == {"reset", "goIdle", "goIdleAgain", "sendIfCond", "appOcr", "ocrCheck", "sendCide",
            "sendRelativeAddr", "selectCard", "setBlockLen", "appScr", "sendSCR"}
Cards   == [kind : Kinds, state : {"idle", "ready", "ident", "stby", "tran", "data", "rcv"},
            rca : Rca \cup {0}, app : BOOLEAN, warm : 0..MaxWarm, mem : [Sector -> Value]]
EmmcTypeOK ==
  /\ dev \in [rca : Rca \cup {0}, sdhc : BOOLEAN, bsize : {0, 8, 512}, blocks : 0..MaxBlocks]
  /\ card \in Cards
  /\ pc \in {"idle", "data", "reboot"} \cup InitPcs /\ v2 \in BOOLEAN /\ up \in BOOLEAN
  /\ req \in [kind : {"none", "init", "read", "write"}, lba : Sector, data : Seq(Value),
               result : {"none", "busy", "ok", "failed"}]
  /\ tried \in 0..Attempts + Tries /\ faults \in 0..MaxFaults /\ hit \in 0..faults

(* What the driver knows of the card when it sends a command: the inductive *)
(* part of ReadyCard.                                                       *)
Addressed == dev.rca = card.rca /\ dev.sdhc = (card.kind = "hc")
Knows ==
  /\ up => Addressed /\ dev.bsize = 512 /\ card.state \in {"tran", "data", "rcv"} /\ pc \notin InitPcs
  /\ pc \in {"sendCide", "sendRelativeAddr", "selectCard", "setBlockLen", "appScr", "sendSCR"}
       => dev.sdhc = (card.kind = "hc")
  /\ pc \in {"selectCard", "setBlockLen", "appScr", "sendSCR"} => Addressed
  /\ pc \in {"setBlockLen", "appScr", "sendSCR"} => card.state = "tran"
  /\ pc = "data" => /\ up /\ req.kind \in {"read", "write"}
                    /\ dev.blocks = Len(req.data) /\ dev.blocks > 0
                    /\ req.lba + Len(req.data) <= NSectors
  /\ pc \in InitPcs => req.kind = "init" /\ req.data = <<>>
  /\ (pc = "idle") = (req.result # "busy")
  /\ pc # "reboot"

(* A card that is up is addressed the way it counts, under the address it  *)
(* gave itself, in blocks of 512 bytes: set_scr restored the size that it  *)
(* shrank, and the assertion of do_data_command holds.                     *)
ReadyCard ==
  /\ up => /\ dev.rca = card.rca /\ dev.sdhc = (card.kind = "hc") /\ dev.bsize = 512
           /\ card.state \in {"tran", "data", "rcv"}
  /\ pc # "reboot"

(* A transfer that reports success has happened, and no other sector is    *)
(* ever written: what Disk says.                                           *)
D == INSTANCE Disk WITH mem <- card.mem, req <- [kind |-> req.kind, lba |-> req.lba, data |-> req.data, result |-> req.result]
ImplementsDisk == D!Spec

(* Every call returns, but for one: a card that counts sectors, taken for  *)
(* an old one after a lost answer to CMD8, is asked for ever.              *)
Deaf == card.kind = "hc" /\ ~v2 /\ pc \in {"appOcr", "ocrCheck"}
CallsReturn == ~Idle ~> (Idle \/ []Deaf)

(* emmc.c:638: "Failed to reset card, trying again...": an initialisation  *)
(* fails only if each of its attempts met a fault.                         *)
RetriesHelp == (Idle /\ req.kind = "init" /\ req.result = "failed") => hit >= Attempts
=============================================================================
