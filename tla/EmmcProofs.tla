----------------------------- MODULE EmmcProofs -----------------------------
(***************************************************************************)
(* The SD card driver, for every size of the card and of the requests, any *)
(* number of attempts and tries, and any faults.                           *)
(***************************************************************************)
EXTENDS Emmc, TLAPS, SequenceTheorems

(* What a command does to a card that understands it.                      *)
CardStates == {"idle", "ready", "ident", "stby", "tran", "data", "rcv"}
LEMMA MovesOfCards ==
  ASSUME EmmcTypeOK, NEW cmd, NEW arg, NEW c \in Moves(cmd, arg)
  PROVE  /\ c \in Cards /\ c.kind = card.kind /\ c.mem = card.mem
         /\ cmd \notin {"goIdle", "sendRelativeAddr"} => c.rca = card.rca
         /\ cmd = "selectCard" => c.state = "tran"
         /\ cmd \in DataCmds \cup {"app", "setBlockLen", "sendSCR"} => c.state = card.state
<1>a. card \in Cards
  BY DEF EmmcTypeOK
<1>0. /\ card \in Cards /\ card.rca \in Rca \cup {0} /\ card.warm \in 0..MaxWarm
      /\ card.state \in CardStates /\ MaxWarm \in 0..MaxWarm /\ 0 \in Rca \cup {0}
      /\ {"idle", "ready", "ident", "stby", "tran"} \subseteq CardStates
  BY EmmcAssumption DEF EmmcTypeOK, Cards, CardStates
<1> DEFINE As(s, r, w, b) == [card EXCEPT !.state = s, !.app = b, !.rca = r, !.warm = w]
           Is(s, r) == c \in Cards /\ c.kind = card.kind /\ c.mem = card.mem /\ c.rca = r /\ c.state = s
<1>1. CASE cmd = "goIdle"
  <2>1. c = As("idle", 0, MaxWarm, FALSE)
    BY <1>0, <1>1 DEF Moves, Cards
  <2>2. Is("idle", 0)
    BY <1>0, <2>1 DEF Cards, CardStates
  <2>3. QED BY <1>1, <2>2 DEF DataCmds
<1>2. CASE cmd = "ocrCheck"
  <2>1. PICK s \in {"ready", "idle"}, w \in {0, card.warm - 1} :
          c = As(s, card.rca, w, FALSE) /\ (card.warm = 0 => w = 0)
    BY <1>0, <1>2 DEF Moves, Cards
  <2>2. w \in 0..MaxWarm /\ s \in CardStates
    BY <1>0, <2>1, EmmcAssumption
  <2>3. Is(s, card.rca)
    BY <1>0, <2>1, <2>2 DEF Cards, CardStates
  <2>4. QED BY <1>2, <2>3 DEF DataCmds
<1>3. CASE cmd = "sendRelativeAddr"
  <2>1. PICK r \in Rca : c = As("stby", r, card.warm, FALSE)
    <3>1. c \in {[card EXCEPT !.state = "stby", !.app = FALSE, !.rca = r] : r \in Rca}
      BY <1>3 DEF Moves
    <3>2. PICK r \in Rca : c = [card EXCEPT !.state = "stby", !.app = FALSE, !.rca = r]
      BY <3>1
    <3>3. c = As("stby", r, card.warm, FALSE)
      BY <1>a, <3>2 DEF Cards
    <3>4. QED BY <3>3
  <2>2. Is("stby", r)
    BY <1>0, <2>1 DEF Cards, CardStates
  <2>3. QED BY <1>3, <2>2 DEF DataCmds
<1>4. CASE cmd = "sendCide"
  <2>1. c = As("ident", card.rca, card.warm, FALSE)
    BY <1>0, <1>4 DEF Moves, Cards
  <2>2. Is("ident", card.rca)
    BY <1>0, <2>1 DEF Cards, CardStates
  <2>3. QED BY <1>4, <2>2 DEF DataCmds
<1>5. CASE cmd = "selectCard"
  <2>1. c = As("tran", card.rca, card.warm, FALSE)
    BY <1>0, <1>5 DEF Moves, Cards
  <2>2. Is("tran", card.rca)
    BY <1>0, <2>1 DEF Cards, CardStates
  <2>3. QED BY <1>5, <2>2 DEF DataCmds
<1>6. CASE cmd = "app"
  <2>1. c = As(card.state, card.rca, card.warm, TRUE)
    BY <1>0, <1>6 DEF Moves, Cards
  <2>2. Is(card.state, card.rca)
    BY <1>0, <2>1 DEF Cards, CardStates
  <2>3. QED BY <1>6, <2>2 DEF DataCmds
<1>7. CASE cmd \notin {"goIdle", "ocrCheck", "sendCide", "sendRelativeAddr", "selectCard", "app"}
  <2>1. c = As(card.state, card.rca, card.warm, FALSE)
    BY <1>0, <1>7 DEF Moves, Cards
  <2>2. Is(card.state, card.rca)
    BY <1>0, <2>1 DEF Cards, CardStates
  <2>3. QED BY <1>7, <2>2
<1>8. QED BY <1>1, <1>2, <1>3, <1>4, <1>5, <1>6, <1>7

(* The card after an exchange without sectors.                             *)
LEMMA ExchangeCards ==
  ASSUME EmmcTypeOK, NEW cmd, cmd \notin DataCmds, NEW arg, NEW x \in Controller(cmd, arg)
  PROVE  /\ x.card \in {card, [card EXCEPT !.app = FALSE]} \cup Moves(cmd, arg)
         /\ x.cost \in {0, 1} /\ faults + x.cost \in 0..MaxFaults
<1> USE EmmcAssumption DEF EmmcTypeOK
<1>0. ~Writes(cmd) /\ \A c : Stuck(c, cmd) = c
  BY DEF Writes, DataCmds, Stuck
<1>1. CASE x \in Good(cmd, arg)
  BY <1>0, <1>1 DEF Good, Xchg, Done
<1>2. CASE x \in CommandFault(cmd, arg) /\ faults < MaxFaults
  BY <1>2 DEF CommandFault, Xchg
<1>3. CASE x \in DataFault(cmd, arg) /\ faults < MaxFaults
  BY <1>0, <1>3 DEF DataFault, Xchg, Done
<1>4. QED BY <1>1, <1>2, <1>3 DEF Controller

LEMMA ExchangeTyped ==
  ASSUME EmmcTypeOK, NEW cmd, cmd \notin DataCmds, NEW arg, NEW x \in Controller(cmd, arg)
  PROVE  /\ x.card \in Cards /\ x.card.kind = card.kind /\ x.card.mem = card.mem
         /\ cmd \notin {"goIdle", "sendRelativeAddr"} => x.card.rca = card.rca
         /\ cmd \in {"app", "setBlockLen", "sendSCR"} => x.card.state = card.state
         /\ faults + x.cost \in 0..MaxFaults /\ hit + x.cost \in 0..faults + x.cost
<1>1. /\ x.card \in {card, [card EXCEPT !.app = FALSE]} \cup Moves(cmd, arg)
      /\ x.cost \in {0, 1} /\ faults + x.cost \in 0..MaxFaults
  BY ExchangeCards
<1>2. hit + x.cost \in 0..faults + x.cost
  <2>1. hit \in 0..faults /\ faults \in Nat
    BY EmmcAssumption DEF EmmcTypeOK
  <2>2. QED BY <1>1, <2>1
<1>3. CASE x.card \in {card, [card EXCEPT !.app = FALSE]}
  <2>1. card \in Cards
    BY DEF EmmcTypeOK
  <2>2. /\ x.card \in Cards /\ x.card.kind = card.kind /\ x.card.mem = card.mem
        /\ x.card.rca = card.rca /\ x.card.state = card.state
    BY <1>3, <2>1 DEF Cards
  <2>3. QED BY <1>1, <1>2, <2>2
<1>4. CASE x.card \in Moves(cmd, arg)
  BY <1>1, <1>2, <1>4, MovesOfCards
<1>5. QED BY <1>1, <1>3, <1>4

(* A command without data that the driver takes for done has been done.    *)
LEMMA OkIsDone ==
  ASSUME NEW cmd, cmd \notin DataCmds \cup {"goIdle", "sendSCR"}, NEW arg,
         NEW x \in Controller(cmd, arg), Ok(cmd, x)
  PROVE  Understands(cmd, arg) /\ x.card \in Moves(cmd, arg)
<1>1. CommandOK(x) /\ ~IsData(cmd) /\ ~Writes(cmd)
  BY DEF Ok, IsData, DataCmds, Writes
<1>2. x \notin CommandFault(cmd, arg)
  BY <1>1 DEF CommandFault, CommandOK, Errors, Xchg
<1>3. x \notin DataFault(cmd, arg)
  BY <1>1 DEF DataFault
<1>4. x \in Good(cmd, arg)
  BY <1>2, <1>3 DEF Controller
<1>5. Understands(cmd, arg)
  BY <1>1, <1>4 DEF Good, CommandOK, Errors, Xchg
<1>6. QED BY <1>1, <1>4, <1>5 DEF Good, Done, Xchg

----------------------------------------------------------------------------
(* A transfer: what it leaves on the card, and what the driver may make of *)
(* it.                                                                     *)
Wrote(k) ==
  [s \in Sector |-> IF s \in req.lba..req.lba + k - 1 THEN req.data[s - req.lba + 1] ELSE card.mem[s]]
Like(c) ==
  c \in Cards /\ c.kind = card.kind /\ c.mem = card.mem /\ c.rca = card.rca
  /\ c.state \in {"tran", "data", "rcv"}
Leaves(c, k) ==
  /\ c \in Cards /\ c.kind = card.kind /\ c.rca = card.rca /\ c.state \in {"tran", "data", "rcv"}
  /\ c.mem = IF req.kind = "write" THEN Wrote(k) ELSE card.mem

LEMMA CommandOfRequest ==
  ASSUME EmmcTypeOK, Knows, pc = "data"
  PROVE  /\ Cmd \in DataCmds /\ Writes(Cmd) = (req.kind = "write") /\ IsData(Cmd)
         /\ First(Address) = req.lba /\ Like(card)
         /\ dev.blocks \in Nat /\ dev.blocks = Len(req.data) /\ dev.blocks > 0
<1>1. /\ up /\ req.kind \in {"read", "write"} /\ dev.sdhc = (card.kind = "hc")
      /\ card.state \in {"tran", "data", "rcv"} /\ dev.blocks = Len(req.data) /\ dev.blocks > 0
  BY DEF Knows, Addressed
<1>2. /\ req.lba \in Int /\ dev.blocks \in Nat /\ card \in Cards
  BY EmmcAssumption DEF EmmcTypeOK, Sector
<1>3. Cmd \in DataCmds /\ Writes(Cmd) = (req.kind = "write") /\ IsData(Cmd)
  <2>1. CASE req.kind = "read"
    BY <2>1 DEF Cmd, DataCmds, Writes, IsData
  <2>2. CASE req.kind = "write"
    BY <2>2 DEF Cmd, DataCmds, Writes, IsData
  <2>3. QED BY <1>1, <2>1, <2>2
<1>4. First(Address) = req.lba
  <2>1. CASE dev.sdhc
    BY <1>1, <2>1 DEF First, Address
  <2>2. CASE ~dev.sdhc
    <3>1. (req.lba * 512) \div 512 = req.lba
      BY <1>2
    <3>2. QED BY <1>1, <2>2, <3>1 DEF First, Address
  <2>3. QED BY <2>1, <2>2
<1>5. QED BY <1>1, <1>2, <1>3, <1>4 DEF Like

LEMMA Programmed ==
  ASSUME EmmcTypeOK, Knows, pc = "data", NEW c, Like(c), NEW k \in 0..dev.blocks
  PROVE  Leaves(IF Writes(Cmd) THEN Programs(c, Address, k) ELSE c, k)
<1>1. /\ Writes(Cmd) = (req.kind = "write") /\ First(Address) = req.lba
      /\ dev.blocks = Len(req.data) /\ dev.blocks \in Nat
  BY CommandOfRequest
<1>2. CASE req.kind = "write"
  <2>1. Wrote(k) \in [Sector -> Value]
    <3>1. req.lba \in Int /\ req.data \in Seq(Value) /\ card.mem \in [Sector -> Value] /\ Sector \subseteq Int
      BY EmmcAssumption DEF EmmcTypeOK, Sector, Cards
    <3>2. ASSUME NEW s \in Sector, s \in req.lba..req.lba + k - 1
          PROVE  req.data[s - req.lba + 1] \in Value
      <4>1. s - req.lba + 1 \in 1..Len(req.data)
        BY <1>1, <3>1, <3>2
      <4>2. QED BY <3>1, <4>1, ElementOfSeq
    <3>3. QED BY <3>1, <3>2 DEF Wrote
  <2>2. Programs(c, Address, k) = [c EXCEPT !.mem = Wrote(k)]
    <3>1. c \in Cards /\ c.mem = card.mem
      BY DEF Like
    <3>2. QED BY <1>1, <3>1 DEF Programs, Wrote, Cards
  <2>3. [c EXCEPT !.mem = Wrote(k)] \in Cards /\ [c EXCEPT !.mem = Wrote(k)].mem = Wrote(k)
    BY <2>1 DEF Like, Cards
  <2>4. QED BY <1>1, <1>2, <2>2, <2>3 DEF Leaves, Like, Cards
<1>3. CASE req.kind # "write"
  BY <1>1, <1>3 DEF Leaves, Like
<1>4. QED BY <1>2, <1>3

(* No success without all of the blocks, and the right ones.               *)
LEMMA TransferEffect ==
  ASSUME EmmcTypeOK, Knows, pc = "data", NEW x \in Controller(Cmd, Address)
  PROVE  /\ \E k \in 0..dev.blocks : Leaves(x.card, k) /\ (Ok(Cmd, x) => k = dev.blocks)
         /\ Ok(Cmd, x) => CommandOK(x) /\ Moved(x) = dev.blocks
         /\ faults + x.cost \in 0..MaxFaults /\ hit + x.cost \in 0..faults + x.cost
<1> DEFINE n == dev.blocks
           Ended(c, k) == IF Writes(Cmd) THEN Programs(c, Address, k) ELSE c
           Sound(k) == /\ Ok(Cmd, x) => k = n /\ CommandOK(x) /\ Moved(x) = n
                       /\ x.cost = 0 \/ (x.cost = 1 /\ faults < MaxFaults)
<1>0. /\ Cmd \in DataCmds /\ IsData(Cmd) /\ Cmd # "goIdle" /\ n \in Nat /\ n > 0
      /\ 0 \in 0..n /\ n \in 0..n /\ Like(card) /\ card \in Cards
  BY CommandOfRequest DEF DataCmds, Like
<1>1. /\ Like([card EXCEPT !.app = FALSE])
      /\ \A c \in Moves(Cmd, Address) : Like(c) /\ Like(Stuck(c, Cmd))
  <2>1. Like([card EXCEPT !.app = FALSE])
    BY <1>0 DEF Like, Cards
  <2>2. ASSUME NEW c \in Moves(Cmd, Address)
        PROVE  Like(c)
    BY <1>0, <2>2, MovesOfCards DEF Like, DataCmds
  <2>3. ASSUME NEW c, Like(c)
        PROVE  Like(Stuck(c, Cmd))
    BY <2>3 DEF Like, Stuck, Cards
  <2>4. QED BY <2>1, <2>2, <2>3
<1>2. ASSUME NEW c, Like(c)
      PROVE  /\ Leaves(c, 0)
             /\ \A k \in 0..n : Leaves(Ended(c, k), k)
  <2>1. \A k \in 0..n : Leaves(Ended(c, k), k)
    BY <1>2, Programmed
  <2>2. Wrote(0) = card.mem
    <3>1. card.mem \in [Sector -> Value] /\ req.lba \in Int
      BY EmmcAssumption DEF EmmcTypeOK, Cards, Sector
    <3>2. req.lba..req.lba + 0 - 1 = {}
      BY <3>1
    <3>3. QED BY <3>1, <3>2 DEF Wrote
  <2>3. Leaves(c, 0)
    BY <1>2, <2>2 DEF Leaves, Like
  <2>4. QED BY <2>1, <2>3
<1>3. Ok(Cmd, x) => CommandOK(x) /\ TransferOK(x)
  BY <1>0 DEF Ok, Waits
<1>4. ASSUME x.blocks = Full(n)
      PROVE  BadBlocks(x) = {} /\ Moved(x) = n /\ AtEnd(x) = x.done
  <2>1. \A i \in 1..n : Full(n)[i] \cap (Errors \cup {"bufferReady"}) = {"bufferReady"}
    BY DEF Full, Errors
  <2>2. DOMAIN Full(n) = 1..n /\ Len(Full(n)) = n
    BY <1>0 DEF Full
  <2>3. BadBlocks(x) = {}
    BY <1>4, <2>1, <2>2 DEF BadBlocks
  <2>4. QED BY <1>4, <2>2, <2>3 DEF Moved, AtEnd
<1>5. \E k \in 0..n : Leaves(x.card, k) /\ Sound(k)
  <2>1. CASE x \in Good(Cmd, Address)
    <3>1. CASE Understands(Cmd, Address)
      <4>1. PICK c \in Moves(Cmd, Address) :
              x.card = Ended(c, n) /\ x.blocks = Full(n) /\ x.cost = 0
        BY <1>0, <2>1, <3>1 DEF Good, Xchg, NoData, Done
      <4>2. Leaves(x.card, n)
        BY <1>0, <1>1, <1>2, <4>1
      <4>3. Sound(n)
        BY <1>3, <1>4, <4>1
      <4>4. QED BY <1>0, <4>2, <4>3
    <3>2. CASE ~Understands(Cmd, Address)
      <4>1. x.card = [card EXCEPT !.app = FALSE] /\ x.irq = {"cmdTimeout"} /\ x.cost = 0
        BY <2>1, <3>2 DEF Good, Xchg
      <4>2. ~CommandOK(x)
        BY <4>1 DEF CommandOK, Errors
      <4>3. Leaves(x.card, 0)
        BY <1>1, <1>2, <4>1
      <4>4. QED BY <1>0, <1>3, <4>1, <4>2, <4>3
    <3>3. QED BY <3>1, <3>2
  <2>2. CASE x \in CommandFault(Cmd, Address) /\ faults < MaxFaults
    <3>1. /\ x.card = card /\ x.cost = 1
          /\ x.irq \in {{}, {"cmdTimeout"}, {"cmdDone", "cmdCrc"}}
      BY <1>0, <2>2 DEF CommandFault, Xchg
    <3>2. ~CommandOK(x)
      BY <3>1 DEF CommandOK, Errors
    <3>3. Leaves(x.card, 0)
      BY <1>0, <1>2, <3>1
    <3>4. QED BY <1>0, <1>3, <2>2, <3>1, <3>2, <3>3
  <2>3. CASE x \in DataFault(Cmd, Address) /\ faults < MaxFaults
    <3>1. \/ \E k \in 1..n, c \in Moves(Cmd, Address) :
               x.card = Ended(Stuck(c, Cmd), k - 1) /\ x.done = {} /\ x.cost = 1
          \/ \E c \in Moves(Cmd, Address) :
               /\ x.card = Ended(c, n - 1) /\ x.blocks = Full(n) /\ x.cost = 1
               /\ x.done \in {{}, {"dataTimeout"}, {"xferDone", "dataCrc"}}
          \/ \E c \in Moves(Cmd, Address) :
               x.card = Ended(c, n) /\ x.blocks = Full(n) /\ x.cost = 1
      BY <2>3 DEF DataFault, Xchg, Done
    <3>2. CASE \E k \in 1..n, c \in Moves(Cmd, Address) :
                 x.card = Ended(Stuck(c, Cmd), k - 1) /\ x.done = {} /\ x.cost = 1
      <4>1. PICK k \in 1..n, c \in Moves(Cmd, Address) :
              x.card = Ended(Stuck(c, Cmd), k - 1) /\ x.done = {} /\ x.cost = 1
        BY <3>2
      <4>2. k - 1 \in 0..n
        BY <1>0
      <4>3. Leaves(x.card, k - 1)
        BY <1>1, <1>2, <4>1, <4>2
      <4>4. "xferDone" \notin AtEnd(x)
        BY <4>1 DEF AtEnd, Errors
      <4>5. ~TransferOK(x)
        BY <4>4 DEF TransferOK
      <4>6. QED BY <1>3, <2>3, <4>1, <4>2, <4>3, <4>5
    <3>3. CASE \E c \in Moves(Cmd, Address) :
                 /\ x.card = Ended(c, n - 1) /\ x.blocks = Full(n) /\ x.cost = 1
                 /\ x.done \in {{}, {"dataTimeout"}, {"xferDone", "dataCrc"}}
      <4>1. PICK c \in Moves(Cmd, Address) :
              /\ x.card = Ended(c, n - 1) /\ x.blocks = Full(n) /\ x.cost = 1
              /\ x.done \in {{}, {"dataTimeout"}, {"xferDone", "dataCrc"}}
        BY <3>3
      <4>2. n - 1 \in 0..n
        BY <1>0
      <4>3. Leaves(x.card, n - 1)
        BY <1>1, <1>2, <4>1, <4>2
      <4>4. AtEnd(x) = x.done
        BY <1>4, <4>1
      <4>5. ~TransferOK(x)
        BY <4>1, <4>4 DEF TransferOK, Errors
      <4>6. QED BY <1>3, <2>3, <4>1, <4>2, <4>3, <4>5
    <3>4. CASE \E c \in Moves(Cmd, Address) :
                 x.card = Ended(c, n) /\ x.blocks = Full(n) /\ x.cost = 1
      <4>1. PICK c \in Moves(Cmd, Address) :
              x.card = Ended(c, n) /\ x.blocks = Full(n) /\ x.cost = 1
        BY <3>4
      <4>2. Leaves(x.card, n)
        BY <1>0, <1>1, <1>2, <4>1
      <4>3. QED BY <1>0, <1>3, <1>4, <2>3, <4>1, <4>2
    <3>5. QED BY <3>1, <3>2, <3>3, <3>4
  <2>4. QED BY <2>1, <2>2, <2>3 DEF Controller
<1>6. /\ hit \in 0..faults /\ faults \in 0..MaxFaults /\ MaxFaults \in Nat
  BY EmmcAssumption DEF EmmcTypeOK
<1>7. QED BY <1>5, <1>6

----------------------------------------------------------------------------
(* The inductive invariant.                                                *)
EmmcInv == EmmcTypeOK /\ Knows
Kept ==
  /\ dev' \in [rca : Rca \cup {0}, sdhc : BOOLEAN, bsize : {0, 8, 512}, blocks : 0..MaxBlocks]
  /\ card' \in Cards /\ v2' \in BOOLEAN /\ faults' \in 0..MaxFaults /\ hit' \in 0..faults'

LEMMA InitInv == Init => EmmcInv
<1> SUFFICES ASSUME Init PROVE EmmcInv
  OBVIOUS
<1>1. 0 \in Sector /\ <<>> \in Seq(Value) /\ 0 \in 0..MaxFaults /\ 0 \in 0..Attempts + Tries
      /\ 0 \in 0..MaxBlocks /\ 0 \in 0..MaxWarm
  BY EmmcAssumption DEF Sector
<1>2. card \in Cards
  BY <1>1 DEF Init, Cards
<1>3. req = [kind |-> "none", lba |-> 0, data |-> <<>>, result |-> "none"]
  BY DEF Init, Call
<1>4. EmmcTypeOK
  BY <1>1, <1>2, <1>3 DEF Init, EmmcTypeOK
<1>5. Knows
  BY <1>3 DEF Init, Knows, InitPcs
<1>6. QED BY <1>4, <1>5 DEF EmmcInv

(* An attempt that fails, and one that goes on.                            *)
LEMMA FailsInv ==
  ASSUME EmmcInv, pc \in InitPcs, Kept, Fails
  PROVE  EmmcInv'
<1>0. ~up /\ req.kind = "init" /\ req.data = <<>> /\ req.result = "busy"
      /\ req \in [kind : {"none", "init", "read", "write"}, lba : Sector, data : Seq(Value),
                  result : {"none", "busy", "ok", "failed"}]
      /\ tried \in 0..Attempts + Tries /\ Attempts \in Nat /\ Tries \in Nat /\ up \in BOOLEAN
  BY EmmcAssumption DEF EmmcInv, EmmcTypeOK, Knows, InitPcs
<1>1. CASE tried < Attempts
  <2>1. pc' = "reset" /\ tried' = tried + 1 /\ req' = req /\ up' = up
    BY <1>1 DEF Fails
  <2>2. EmmcTypeOK'
    BY <1>0, <1>1, <2>1 DEF EmmcTypeOK, Kept, InitPcs
  <2>3. Knows'
    BY <1>0, <2>1 DEF Knows, InitPcs
  <2>4. QED BY <2>2, <2>3 DEF EmmcInv
<1>2. CASE ~(tried < Attempts)
  <2>1. pc' = "idle" /\ tried' = tried /\ req' = [req EXCEPT !.result = "failed"] /\ up' = up
    BY <1>2 DEF Fails, Returns
  <2>2. EmmcTypeOK'
    BY <1>0, <2>1 DEF EmmcTypeOK, Kept
  <2>3. Knows'
    BY <1>0, <2>1 DEF Knows, InitPcs
  <2>4. QED BY <2>2, <2>3 DEF EmmcInv
<1>3. QED BY <1>1, <1>2

LEMMA ProceedsInv ==
  ASSUME EmmcInv, pc \in InitPcs, Kept, NEW next \in InitPcs, Proceeds(next),
         next \in {"sendCide", "sendRelativeAddr", "selectCard", "setBlockLen", "appScr", "sendSCR"}
           => dev'.sdhc = (card'.kind = "hc"),
         next \in {"selectCard", "setBlockLen", "appScr", "sendSCR"} => dev'.rca = card'.rca,
         next \in {"setBlockLen", "appScr", "sendSCR"} => card'.state = "tran"
  PROVE  EmmcInv'
<1>0. /\ ~up /\ req.kind = "init" /\ req.data = <<>> /\ req.result = "busy"
  BY DEF EmmcInv, Knows, InitPcs
<1>1. pc' = next /\ req' = req /\ tried' = tried /\ up' = up
  BY DEF Proceeds
<1>2. EmmcTypeOK'
  BY <1>1 DEF EmmcInv, EmmcTypeOK, Kept
<1>3. Knows'
  <2>1. pc' # "idle" /\ pc' # "data" /\ pc' # "reboot"
    BY <1>1 DEF InitPcs
  <2>2. pc' \in {"selectCard", "setBlockLen", "appScr", "sendSCR"} => Addressed'
    BY <1>1 DEF Addressed
  <2>3. QED BY <1>0, <1>1, <2>1, <2>2 DEF Knows
<1>4. QED BY <1>2, <1>3 DEF EmmcInv

LEMMA ExchangeKept ==
  ASSUME EmmcInv, NEW cmd, cmd \notin DataCmds, NEW arg, NEW x \in Controller(cmd, arg), Exchange(x),
         dev' \in [rca : Rca \cup {0}, sdhc : BOOLEAN, bsize : {0, 8, 512}, blocks : 0..MaxBlocks],
         v2' \in BOOLEAN
  PROVE  /\ Kept /\ card'.kind = card.kind /\ card'.mem = card.mem
         /\ cmd \notin {"goIdle", "sendRelativeAddr"} => card'.rca = card.rca
         /\ cmd \in {"app", "setBlockLen", "sendSCR"} => card'.state = card.state
BY ExchangeTyped DEF EmmcInv, Exchange, Kept

LEMMA EmmcInitInv == ASSUME EmmcInv, EmmcInit PROVE EmmcInv'
<1>1. 0 \in Sector /\ <<>> \in Seq(Value) /\ 1 \in 0..Attempts + Tries /\ 0 \in 0..MaxBlocks
      /\ 0 \in 0..faults
  BY EmmcAssumption DEF Sector, EmmcInv, EmmcTypeOK
<1>2. /\ req' = [kind |-> "init", lba |-> 0, data |-> <<>>, result |-> "busy"]
      /\ pc' = "reset" /\ tried' = 1 /\ up' = FALSE /\ hit' = 0
      /\ dev' = [rca |-> 0, sdhc |-> FALSE, bsize |-> 0, blocks |-> 0]
      /\ card' = card /\ v2' = v2 /\ faults' = faults
  BY DEF EmmcInit, Call
<1>3. EmmcTypeOK'
  BY <1>1, <1>2 DEF EmmcInv, EmmcTypeOK, InitPcs
<1>4. Knows'
  BY <1>2 DEF Knows, InitPcs
<1>5. QED BY <1>3, <1>4 DEF EmmcInv

(* The steps of an attempt.                                                *)
LEMMA CommandsInv ==
  ASSUME EmmcInv,
         ResetHost \/ ResetFails \/ GoIdle \/ CheckV2Card \/ AppPrefix \/ CheckCid
  PROVE  EmmcInv'
<1>0. /\ dev \in [rca : Rca \cup {0}, sdhc : BOOLEAN, bsize : {0, 8, 512}, blocks : 0..MaxBlocks]
      /\ card \in Cards /\ v2 \in BOOLEAN /\ faults \in 0..MaxFaults /\ hit \in 0..faults
      /\ 0 \in 0..MaxBlocks /\ MaxFaults \in Nat
  BY EmmcAssumption DEF EmmcInv, EmmcTypeOK
<1>1. CASE ResetHost
  <2>1. Kept /\ pc \in InitPcs /\ Proceeds("goIdle") /\ "goIdle" \in InitPcs
    BY <1>0, <1>1 DEF ResetHost, Kept, InitPcs
  <2>2. QED BY <2>1, ProceedsInv
<1>2. CASE ResetFails
  <2>1. Kept /\ pc \in InitPcs /\ Fails
    BY <1>0, <1>2 DEF ResetFails, Kept, InitPcs
  <2>2. QED BY <2>1, FailsInv
<1>3. CASE GoIdle
  <2>1. PICK x \in Controller("goIdle", 0) :
          /\ Exchange(x)
          /\ IF Ok("goIdle", x) \/ pc = "goIdleAgain" THEN Step(Ok("goIdle", x), "sendIfCond")
                                                      ELSE Proceeds("goIdleAgain")
    BY <1>3 DEF GoIdle
  <2>2. Kept
    BY <1>0, <1>3, <2>1, ExchangeKept DEF GoIdle, DataCmds
  <2>3. pc \in InitPcs /\ "sendIfCond" \in InitPcs /\ "goIdleAgain" \in InitPcs
    BY <1>3 DEF GoIdle, InitPcs
  <2>4. Proceeds("sendIfCond") \/ Proceeds("goIdleAgain") \/ Fails
    BY <2>1 DEF Step
  <2>5. QED BY <2>2, <2>3, <2>4, ProceedsInv, FailsInv
<1>4. CASE CheckV2Card
  <2>1. PICK x \in Controller("sendIfCond", 0) : Exchange(x) /\ v2' = Ok("sendIfCond", x)
    BY <1>4 DEF CheckV2Card
  <2>2. v2' \in BOOLEAN
    BY <2>1 DEF Ok
  <2>3. Kept
    BY <1>0, <1>4, <2>1, <2>2, ExchangeKept DEF CheckV2Card, DataCmds
  <2>4. pc \in InitPcs /\ "appOcr" \in InitPcs /\ Proceeds("appOcr")
    BY <1>4 DEF CheckV2Card, InitPcs
  <2>5. QED BY <2>3, <2>4, ProceedsInv
<1>5. CASE AppPrefix
  <2>1. PICK x \in Controller("app", dev.rca) :
          Exchange(x) /\ Step(Ok("app", x), IF pc = "appOcr" THEN "ocrCheck" ELSE "sendSCR")
    BY <1>5 DEF AppPrefix
  <2>2. /\ Kept /\ card'.kind = card.kind /\ card'.rca = card.rca /\ card'.state = card.state
    BY <1>0, <1>5, <2>1, ExchangeKept DEF AppPrefix, DataCmds
  <2>3. pc \in InitPcs /\ "ocrCheck" \in InitPcs /\ "sendSCR" \in InitPcs /\ dev' = dev
    BY <1>5 DEF AppPrefix, InitPcs
  <2>4. CASE Fails
    BY <2>2, <2>3, <2>4, FailsInv
  <2>5. CASE pc = "appOcr" /\ Proceeds("ocrCheck")
    BY <2>2, <2>3, <2>5, ProceedsInv
  <2>6. CASE pc = "appScr" /\ Proceeds("sendSCR")
    <3>1. dev.sdhc = (card.kind = "hc") /\ dev.rca = card.rca /\ card.state = "tran"
      BY <2>6 DEF EmmcInv, Knows, Addressed
    <3>2. QED BY <2>2, <2>3, <2>6, <3>1, ProceedsInv
  <2>7. QED BY <1>5, <2>1, <2>4, <2>5, <2>6 DEF AppPrefix, Step
<1>6. CASE CheckCid
  <2>1. PICK x \in Controller("sendCide", 0) : Exchange(x) /\ Step(Ok("sendCide", x), "sendRelativeAddr")
    BY <1>6 DEF CheckCid
  <2>2. Kept /\ card'.kind = card.kind
    BY <1>0, <1>6, <2>1, ExchangeKept DEF CheckCid, DataCmds
  <2>3. /\ pc \in InitPcs /\ "sendRelativeAddr" \in InitPcs /\ dev' = dev
        /\ dev.sdhc = (card.kind = "hc")
    BY <1>6 DEF CheckCid, InitPcs, EmmcInv, Knows
  <2>4. Proceeds("sendRelativeAddr") \/ Fails
    BY <2>1 DEF Step
  <2>5. QED BY <2>2, <2>3, <2>4, ProceedsInv, FailsInv
<1>7. QED BY <1>1, <1>2, <1>3, <1>4, <1>5, <1>6

LEMMA CheckSdhcInv == ASSUME EmmcInv, CheckSdhc PROVE EmmcInv'
<1>0. /\ dev \in [rca : Rca \cup {0}, sdhc : BOOLEAN, bsize : {0, 8, 512}, blocks : 0..MaxBlocks]
      /\ v2 \in BOOLEAN /\ v2' = v2
  BY DEF EmmcInv, EmmcTypeOK, CheckSdhc
<1>1. PICK x \in Controller("ocrCheck", HostSays) :
        /\ Exchange(x)
        /\ IF Ok("ocrCheck", x) /\ ~Ready(HostSays)
             THEN Proceeds("appOcr") /\ UNCHANGED dev
             ELSE /\ Step(Ok("ocrCheck", x), "sendCide")
                  /\ dev' = IF Ok("ocrCheck", x) THEN [dev EXCEPT !.sdhc = card.kind = "hc"] ELSE dev
  BY DEF CheckSdhc
<1>2. pc \in InitPcs /\ "appOcr" \in InitPcs /\ "sendCide" \in InitPcs
  BY DEF CheckSdhc, InitPcs
<1>3. CASE dev' = dev /\ (Proceeds("appOcr") \/ Fails)
  <2>1. Kept
    BY <1>0, <1>1, <1>3, ExchangeKept DEF DataCmds
  <2>2. QED BY <1>2, <1>3, <2>1, ProceedsInv, FailsInv
<1>4. CASE dev' = [dev EXCEPT !.sdhc = card.kind = "hc"] /\ Proceeds("sendCide")
  <2>1. /\ dev' \in [rca : Rca \cup {0}, sdhc : BOOLEAN, bsize : {0, 8, 512}, blocks : 0..MaxBlocks]
        /\ dev'.sdhc = (card.kind = "hc")
    <3>1. CASE card.kind = "hc"
      <4>1. dev' = [dev EXCEPT !.sdhc = TRUE]
        BY <1>4, <3>1
      <4>2. QED BY <1>0, <3>1, <4>1
    <3>2. CASE card.kind # "hc"
      <4>1. dev' = [dev EXCEPT !.sdhc = FALSE]
        BY <1>4, <3>2
      <4>2. QED BY <1>0, <3>2, <4>1
    <3>3. QED BY <3>1, <3>2
  <2>2. Kept /\ card'.kind = card.kind
    BY <1>0, <1>1, <2>1, ExchangeKept DEF DataCmds
  <2>3. QED BY <1>2, <1>4, <2>1, <2>2, ProceedsInv
<1>5. QED BY <1>1, <1>3, <1>4 DEF Step

LEMMA CheckRcaInv == ASSUME EmmcInv, CheckRca \/ RcaNotReady PROVE EmmcInv'
<1>0. /\ dev \in [rca : Rca \cup {0}, sdhc : BOOLEAN, bsize : {0, 8, 512}, blocks : 0..MaxBlocks]
      /\ v2 \in BOOLEAN /\ v2' = v2 /\ pc = "sendRelativeAddr"
  BY DEF EmmcInv, EmmcTypeOK, CheckRca, RcaNotReady
<1>1. pc \in InitPcs /\ "selectCard" \in InitPcs /\ dev.sdhc = (card.kind = "hc")
  BY <1>0 DEF InitPcs, EmmcInv, Knows
<1>2. CASE CheckRca
  <2>1. PICK x \in Controller("sendRelativeAddr", 0) :
          /\ Exchange(x) /\ Step(Ok("sendRelativeAddr", x), "selectCard")
          /\ dev' = IF Ok("sendRelativeAddr", x) THEN [dev EXCEPT !.rca = card'.rca] ELSE dev
    BY <1>2 DEF CheckRca
  <2>2. card' \in Cards /\ card'.rca \in Rca \cup {0}
    BY <2>1, ExchangeTyped DEF EmmcInv, Exchange, DataCmds, Cards
  <2>3. Kept /\ card'.kind = card.kind
    BY <1>0, <2>1, <2>2, ExchangeKept DEF DataCmds
  <2>4. CASE Proceeds("selectCard") /\ dev' = [dev EXCEPT !.rca = card'.rca]
    <3>1. dev'.rca = card'.rca /\ dev'.sdhc = dev.sdhc
      BY <1>0, <2>4
    <3>2. QED BY <1>1, <2>3, <2>4, <3>1, ProceedsInv
  <2>5. CASE Fails
    BY <1>1, <2>3, <2>5, FailsInv
  <2>6. QED BY <2>1, <2>4, <2>5 DEF Step
<1>3. CASE RcaNotReady
  <2>1. PICK x \in Good("sendRelativeAddr", 0) :
          Exchange([x EXCEPT !.cost = 1]) /\ dev' = [dev EXCEPT !.rca = card'.rca]
    BY <1>3 DEF RcaNotReady
  <2>2. x \in Controller("sendRelativeAddr", 0)
    BY DEF Controller
  <2>3. x.card \in Cards /\ x.card.rca \in Rca \cup {0}
    BY <2>2, ExchangeTyped DEF EmmcInv, DataCmds, Cards
  <2>4. [x EXCEPT !.cost = 1].card = x.card /\ [x EXCEPT !.cost = 1].cost = 1
    BY DEF Good, Xchg
  <2>5. /\ card' = x.card /\ faults' = faults + 1 /\ hit' = hit + 1
    BY <2>1, <2>4 DEF Exchange
  <2>6. faults' \in 0..MaxFaults /\ hit' \in 0..faults'
    BY <1>3, <2>5, EmmcAssumption DEF EmmcInv, EmmcTypeOK, RcaNotReady
  <2>7. Kept
    BY <1>0, <2>1, <2>3, <2>5, <2>6 DEF Kept
  <2>8. QED BY <1>1, <1>3, <2>7, FailsInv DEF RcaNotReady
<1>4. QED BY <1>2, <1>3

LEMMA SelectCardInv == ASSUME EmmcInv, SelectCard \/ SetBlockLen PROVE EmmcInv'
<1>0. /\ dev \in [rca : Rca \cup {0}, sdhc : BOOLEAN, bsize : {0, 8, 512}, blocks : 0..MaxBlocks]
      /\ v2 \in BOOLEAN /\ v2' = v2 /\ 1 \in 0..MaxBlocks
  BY EmmcAssumption DEF EmmcInv, EmmcTypeOK, SelectCard, SetBlockLen
<1>1. /\ pc \in InitPcs /\ {"appScr", "setBlockLen"} \subseteq InitPcs
      /\ dev.sdhc = (card.kind = "hc") /\ dev.rca = card.rca
      /\ pc = "setBlockLen" => card.state = "tran"
  <2>1. pc \in {"selectCard", "setBlockLen"}
    BY DEF SelectCard, SetBlockLen
  <2>2. Addressed /\ (pc = "setBlockLen" => card.state = "tran")
    BY <2>1 DEF EmmcInv, Knows
  <2>3. QED BY <2>1, <2>2 DEF InitPcs, Addressed
<1>2. ASSUME ShrinksBlocks \/ UNCHANGED dev
      PROVE  /\ dev' \in [rca : Rca \cup {0}, sdhc : BOOLEAN, bsize : {0, 8, 512}, blocks : 0..MaxBlocks]
             /\ dev'.sdhc = dev.sdhc /\ dev'.rca = dev.rca
  <2>1. CASE dev' = dev
    BY <1>0, <2>1
  <2>2. CASE dev' = [dev EXCEPT !.bsize = 8, !.blocks = 1]
    BY <1>0, <2>2
  <2>3. QED BY <1>2, <2>1, <2>2 DEF ShrinksBlocks
<1>3. CASE SelectCard
  <2>1. PICK x \in Controller("selectCard", dev.rca) :
          /\ Exchange(x) /\ Step(Ok("selectCard", x), IF dev.sdhc THEN "appScr" ELSE "setBlockLen")
          /\ IF Ok("selectCard", x) /\ dev.sdhc THEN ShrinksBlocks ELSE UNCHANGED dev
    BY <1>3 DEF SelectCard
  <2>2. ShrinksBlocks \/ UNCHANGED dev
    BY <2>1
  <2>3. Kept /\ card'.kind = card.kind /\ card'.rca = card.rca
    BY <1>0, <1>2, <2>1, <2>2, ExchangeKept DEF DataCmds
  <2>4. CASE Ok("selectCard", x)
    <3>1. card'.state = "tran"
      BY <2>1, <2>4, OkIsDone, MovesOfCards DEF EmmcInv, DataCmds, Exchange
    <3>2. PICK next \in {"appScr", "setBlockLen"} : Proceeds(next)
      BY <2>1, <2>4 DEF Step
    <3>3. QED BY <1>1, <1>2, <2>2, <2>3, <3>1, <3>2, ProceedsInv
  <2>5. CASE ~Ok("selectCard", x)
    BY <1>1, <2>1, <2>3, <2>5, FailsInv DEF Step
  <2>6. QED BY <2>4, <2>5
<1>4. CASE SetBlockLen
  <2>1. PICK x \in Controller("setBlockLen", 512) :
          /\ Exchange(x) /\ Step(Ok("setBlockLen", x), "appScr")
          /\ IF Ok("setBlockLen", x) THEN ShrinksBlocks ELSE UNCHANGED dev
    BY <1>4 DEF SetBlockLen
  <2>2. ShrinksBlocks \/ UNCHANGED dev
    BY <2>1
  <2>3. Kept /\ card'.kind = card.kind /\ card'.rca = card.rca /\ card'.state = card.state
    BY <1>0, <1>2, <2>1, <2>2, ExchangeKept DEF DataCmds
  <2>4. card'.state = "tran"
    BY <1>1, <1>4, <2>3 DEF SetBlockLen
  <2>5. CASE Proceeds("appScr")
    BY <1>1, <1>2, <2>2, <2>3, <2>4, <2>5, ProceedsInv
  <2>6. CASE Fails
    BY <1>1, <2>3, <2>6, FailsInv
  <2>7. QED BY <2>1, <2>5, <2>6 DEF Step
<1>5. QED BY <1>3, <1>4

LEMMA SetScrInv == ASSUME EmmcInv, SetScr PROVE EmmcInv'
<1>0. /\ dev \in [rca : Rca \cup {0}, sdhc : BOOLEAN, bsize : {0, 8, 512}, blocks : 0..MaxBlocks]
      /\ v2 \in BOOLEAN /\ v2' = v2 /\ pc = "sendSCR" /\ pc \in InitPcs
      /\ dev.sdhc = (card.kind = "hc") /\ dev.rca = card.rca /\ card.state = "tran"
  BY DEF EmmcInv, EmmcTypeOK, SetScr, InitPcs, Knows, Addressed
<1>1. PICK x \in Controller("sendSCR", 0) :
        /\ Exchange(x)
        /\ IF Ok("sendSCR", x)
             THEN dev' = [dev EXCEPT !.bsize = 512] /\ Returns("ok") /\ up' = TRUE /\ UNCHANGED tried
             ELSE Fails /\ UNCHANGED dev
  BY DEF SetScr
<1>2. /\ dev' \in [rca : Rca \cup {0}, sdhc : BOOLEAN, bsize : {0, 8, 512}, blocks : 0..MaxBlocks]
      /\ dev'.sdhc = dev.sdhc /\ dev'.rca = dev.rca
  BY <1>0, <1>1
<1>3. Kept /\ card'.kind = card.kind /\ card'.rca = card.rca /\ card'.state = card.state
  BY <1>0, <1>1, <1>2, ExchangeKept DEF DataCmds
<1>4. CASE Ok("sendSCR", x)
  <2>1. /\ dev'.bsize = 512 /\ up' = TRUE /\ pc' = "idle" /\ tried' = tried
        /\ req' = [req EXCEPT !.result = "ok"]
    BY <1>0, <1>1, <1>4 DEF Returns
  <2>2. EmmcTypeOK'
    BY <1>3, <2>1 DEF EmmcInv, EmmcTypeOK, Kept
  <2>3. Knows'
    <3>1. Addressed'
      BY <1>0, <1>2, <1>3 DEF Addressed
    <3>2. req'.result = "ok"
      BY <2>1 DEF EmmcInv, EmmcTypeOK
    <3>3. QED BY <1>0, <1>3, <2>1, <3>1, <3>2 DEF Knows, InitPcs
  <2>4. QED BY <2>2, <2>3 DEF EmmcInv
<1>5. CASE ~Ok("sendSCR", x)
  BY <1>0, <1>1, <1>3, <1>5, FailsInv
<1>6. QED BY <1>4, <1>5

(* The calls.                                                              *)
LEMMA RequestInv ==
  ASSUME EmmcInv, Request
  PROVE  /\ EmmcInv' /\ card' = card /\ req.result # "busy"
         /\ req'.result \in {"busy", "failed"}
<1>1. PICK n \in 0..MaxBlocks, lba \in Sector :
        /\ lba + n <= NSectors
        /\ \E kind \in {"read", "write"}, data \in [1..n -> Value] : DataCommand(kind, lba, data)
  BY DEF Request
<1>2. PICK kind \in {"read", "write"}, data \in [1..n -> Value] : DataCommand(kind, lba, data)
  BY <1>1
<1>3. /\ n \in Nat /\ data \in Seq(Value) /\ Len(data) = n
  BY EmmcAssumption
<1>4. /\ pc = "idle" /\ up /\ hit' = 0 /\ card' = card /\ v2' = v2 /\ up' = up /\ faults' = faults
      /\ dev.bsize = 512 /\ Addressed /\ card.state \in {"tran", "data", "rcv"}
      /\ req.result # "busy" /\ 0 \in 0..faults
  BY <1>2, EmmcAssumption DEF DataCommand, Idle, EmmcInv, EmmcTypeOK, Knows
<1>5. CASE n * 512 < 512
  <2>1. /\ req' = [kind |-> kind, lba |-> lba, data |-> data, result |-> "failed"]
        /\ pc' = pc /\ dev' = dev /\ tried' = tried
    BY <1>2, <1>3, <1>4, <1>5 DEF DataCommand, Call
  <2>2. EmmcTypeOK'
    BY <1>3, <1>4, <2>1 DEF EmmcInv, EmmcTypeOK
  <2>3. Knows'
    BY <1>4, <2>1 DEF Knows, Addressed, InitPcs
  <2>4. QED BY <1>4, <2>1, <2>2, <2>3 DEF EmmcInv
<1>6. CASE ~(n * 512 < 512)
  <2>1. /\ req' = [kind |-> kind, lba |-> lba, data |-> data, result |-> "busy"]
        /\ pc' = "data" /\ dev' = [dev EXCEPT !.blocks = n] /\ tried' = 1
    BY <1>2, <1>3, <1>4, <1>6 DEF DataCommand, Call
  <2>2. n > 0 /\ 1 \in 0..Attempts + Tries
    BY <1>3, <1>6, EmmcAssumption
  <2>3. /\ dev' \in [rca : Rca \cup {0}, sdhc : BOOLEAN, bsize : {0, 8, 512}, blocks : 0..MaxBlocks]
        /\ dev'.blocks = n /\ dev'.bsize = dev.bsize /\ dev'.sdhc = dev.sdhc /\ dev'.rca = dev.rca
    BY <1>3, <2>1 DEF EmmcInv, EmmcTypeOK
  <2>4. EmmcTypeOK'
    BY <1>3, <1>4, <2>1, <2>2, <2>3 DEF EmmcInv, EmmcTypeOK
  <2>5. Knows'
    BY <1>1, <1>3, <1>4, <2>1, <2>2, <2>3 DEF Knows, Addressed, InitPcs
  <2>6. QED BY <1>4, <2>1, <2>4, <2>5 DEF EmmcInv
<1>7. QED BY <1>5, <1>6

(* One try of a transfer.                                                  *)
LEMMA TransferCases ==
  ASSUME EmmcInv, Transfer
  PROVE  \E x \in Controller(Cmd, Address) :
           /\ card' = x.card /\ faults' = faults + x.cost /\ hit' = hit + x.cost
           /\ \/ Ok(Cmd, x) /\ req' = [req EXCEPT !.data = Buffer(x), !.result = "ok"]
                 /\ pc' = "idle" /\ tried' = tried
              \/ ~Ok(Cmd, x) /\ req' = [req EXCEPT !.data = Buffer(x)]
                 /\ tried < Tries /\ tried' = tried + 1 /\ pc' = pc
              \/ ~Ok(Cmd, x) /\ req' = [req EXCEPT !.data = Buffer(x), !.result = "failed"]
                 /\ pc' = "idle" /\ tried' = tried
<1>1. PICK x \in Controller(Cmd, Address) :
       /\ Exchange(x)
       /\ CASE Ok(Cmd, x) -> pc' = "idle" /\ req' = [req EXCEPT !.data = Buffer(x), !.result = "ok"]
                             /\ UNCHANGED tried
            [] ~Ok(Cmd, x) /\ Retry ->
                 tried' = tried + 1 /\ req' = [req EXCEPT !.data = Buffer(x)] /\ UNCHANGED pc
            [] OTHER -> pc' = "idle" /\ req' = [req EXCEPT !.data = Buffer(x), !.result = "failed"]
                        /\ UNCHANGED tried
  BY DEF Transfer
<1>2. CASE Ok(Cmd, x)
  BY <1>1, <1>2 DEF Exchange
<1>3. CASE ~Ok(Cmd, x) /\ Retry
  BY <1>1, <1>3 DEF Exchange, Retry
<1>4. CASE ~Ok(Cmd, x) /\ ~Retry
  BY <1>1, <1>4 DEF Exchange
<1>5. QED BY <1>2, <1>3, <1>4

LEMMA BufferFilled ==
  ASSUME EmmcInv, pc = "data", NEW x \in Controller(Cmd, Address)
  PROVE  /\ Buffer(x) \in Seq(Value) /\ Len(Buffer(x)) = Len(req.data)
         /\ \A i \in 1..Len(req.data) :
              \/ Buffer(x)[i] = req.data[i]
              \/ req.kind = "read" /\ Buffer(x)[i] = card.mem[req.lba + i - 1]
         /\ req.kind = "write" => Buffer(x) = req.data
         /\ req.kind = "read" /\ Ok(Cmd, x) =>
              \A i \in 1..Len(req.data) : Buffer(x)[i] = card.mem[req.lba + i - 1]
<1>0. /\ EmmcTypeOK /\ Knows /\ First(Address) = req.lba /\ dev.blocks = Len(req.data)
      /\ req.data \in Seq(Value) /\ req.kind \in {"read", "write"}
  BY CommandOfRequest DEF EmmcInv, EmmcTypeOK, Knows
<1>1. /\ Len(req.data) \in Nat /\ DOMAIN req.data = 1..Len(req.data)
      /\ req.lba + Len(req.data) <= NSectors /\ req.lba \in Nat /\ NSectors \in Nat
      /\ card.mem \in [Sector -> Value] /\ req.data \in [1..Len(req.data) -> Value]
  BY <1>0, EmmcAssumption DEF Knows, EmmcTypeOK, Sector, Cards
<1>2. \A i \in 1..Len(req.data) : req.lba + i - 1 \in Sector
  BY <1>1 DEF Sector
<1>3. CASE req.kind = "write" \/ ~CommandOK(x)
  <2>1. Buffer(x) = req.data
    BY <1>3 DEF Buffer
  <2>2. Ok(Cmd, x) => CommandOK(x)
    BY DEF Ok
  <2>3. QED BY <1>0, <1>3, <2>1, <2>2
<1>4. CASE ~(req.kind = "write" \/ ~CommandOK(x))
  <2>1. Buffer(x) = [i \in 1..Len(req.data) |-> IF i <= Moved(x) THEN card.mem[req.lba + i - 1]
                                                ELSE req.data[i]]
    BY <1>0, <1>1, <1>4 DEF Buffer
  <2>2. Buffer(x) \in [1..Len(req.data) -> Value]
    BY <1>1, <1>2, <2>1
  <2>3. Buffer(x) \in Seq(Value) /\ Len(Buffer(x)) = Len(req.data)
    BY <1>1, <2>2
  <2>4. Ok(Cmd, x) => Moved(x) = Len(req.data)
    BY <1>0, TransferEffect
  <2>5. QED BY <1>0, <1>1, <1>4, <2>1, <2>3, <2>4
<1>5. QED BY <1>3, <1>4

LEMMA TransferInv == ASSUME EmmcInv, Transfer PROVE EmmcInv'
<1>0. EmmcTypeOK /\ Knows /\ pc = "data" /\ dev' = dev /\ v2' = v2 /\ up' = up
  BY DEF EmmcInv, Transfer
<1>1. PICK x \in Controller(Cmd, Address) :
           /\ card' = x.card /\ faults' = faults + x.cost /\ hit' = hit + x.cost
           /\ \/ Ok(Cmd, x) /\ req' = [req EXCEPT !.data = Buffer(x), !.result = "ok"]
                 /\ pc' = "idle" /\ tried' = tried
              \/ ~Ok(Cmd, x) /\ req' = [req EXCEPT !.data = Buffer(x)]
                 /\ tried < Tries /\ tried' = tried + 1 /\ pc' = pc
              \/ ~Ok(Cmd, x) /\ req' = [req EXCEPT !.data = Buffer(x), !.result = "failed"]
                 /\ pc' = "idle" /\ tried' = tried
  BY TransferCases
<1>2. /\ card' \in Cards /\ card'.kind = card.kind /\ card'.rca = card.rca
      /\ card'.state \in {"tran", "data", "rcv"}
      /\ faults' \in 0..MaxFaults /\ hit' \in 0..faults'
  BY <1>0, <1>1, TransferEffect DEF Leaves
<1>3. Buffer(x) \in Seq(Value) /\ Len(Buffer(x)) = Len(req.data)
  BY <1>0, BufferFilled
<1>4. /\ req' \in [kind : {"none", "init", "read", "write"}, lba : Sector, data : Seq(Value),
                   result : {"none", "busy", "ok", "failed"}]
      /\ req'.kind = req.kind /\ req'.lba = req.lba /\ req'.data = Buffer(x)
      /\ (pc' = "idle") = (req'.result # "busy") /\ pc' \in {"idle", "data"}
  <2>1. /\ req \in [kind : {"none", "init", "read", "write"}, lba : Sector, data : Seq(Value),
                    result : {"none", "busy", "ok", "failed"}]
        /\ req.result = "busy"
    BY <1>0 DEF EmmcTypeOK, Knows
  <2>2. QED BY <1>0, <1>1, <1>3, <2>1
<1>5. EmmcTypeOK'
  <2>1. tried' \in 0..Attempts + Tries
    BY <1>0, <1>1, EmmcAssumption DEF EmmcTypeOK
  <2>2. QED BY <1>0, <1>2, <1>4, <2>1 DEF EmmcTypeOK
<1>6. Knows'
  BY <1>0, <1>2, <1>3, <1>4 DEF Knows, Addressed, InitPcs
<1>7. QED BY <1>5, <1>6 DEF EmmcInv

LEMMA NextInv == ASSUME EmmcInv, [Next]_vars PROVE EmmcInv'
<1>1. CASE EmmcInit
  BY <1>1, EmmcInitInv
<1>2. CASE InitSteps
  BY <1>2, CommandsInv, CheckSdhcInv, CheckRcaInv, SelectCardInv, SetScrInv DEF InitSteps
<1>3. CASE Request
  BY <1>3, RequestInv
<1>4. CASE Transfer
  BY <1>4, TransferInv
<1>5. CASE UNCHANGED vars
  BY <1>5 DEF EmmcInv, EmmcTypeOK, Knows, Addressed, vars, drv
<1>6. QED BY <1>1, <1>2, <1>3, <1>4, <1>5 DEF Next

LEMMA ReadyOfInv == EmmcInv => ReadyCard
BY DEF EmmcInv, Knows, Addressed, ReadyCard

(* The types, for any card, any faults and any number of attempts          *)
(* (emmc_device and the card, c/emmc.c).                                   *)
THEOREM DriverTyping == Spec => []EmmcTypeOK
<1>1. EmmcInv => EmmcTypeOK
  BY DEF EmmcInv
<1>2. QED BY InitInv, NextInv, <1>1, PTL DEF Spec

(* A card that is up is addressed by its own answers and the way it        *)
(* counts, in blocks of 512, after any number of failed attempts, and the  *)
(* assertion of do_data_command (c/emmc.c) never fails.                    *)
THEOREM CardIsReady == Spec => []ReadyCard
BY InitInv, NextInv, ReadyOfInv, PTL DEF Spec

----------------------------------------------------------------------------
(* The driver implements Disk.                                             *)
LEMMA RequestAsIs ==
  ASSUME EmmcTypeOK
  PROVE  [kind |-> req.kind, lba |-> req.lba, data |-> req.data, result |-> req.result] = req
BY DEF EmmcTypeOK

(* The steps of an attempt: no sector changes, and the call goes on or     *)
(* returns.                                                                *)
LEMMA AttemptQuiet ==
  ASSUME EmmcInv, InitSteps
  PROVE  /\ card'.mem = card.mem
         /\ \/ req' = req
            \/ \E r \in {"ok", "failed"} : req' = [req EXCEPT !.result = r]
<1>0. EmmcTypeOK /\ \A cmd \in {"goIdle", "sendIfCond", "app", "ocrCheck", "sendCide", "sendRelativeAddr",
                                "selectCard", "setBlockLen", "sendSCR"} : cmd \notin DataCmds
  BY DEF EmmcInv, DataCmds
<1>1. ASSUME Fails
      PROVE  req' = req \/ req' = [req EXCEPT !.result = "failed"]
  BY <1>1 DEF Fails, Returns
<1>2. ASSUME NEW next, Proceeds(next) PROVE req' = req
  BY <1>2 DEF Proceeds
<1>3. ASSUME NEW good, NEW next, Step(good, next)
      PROVE  req' = req \/ req' = [req EXCEPT !.result = "failed"]
  BY <1>1, <1>2, <1>3 DEF Step
<1>4. CASE ResetHost
  BY <1>2, <1>4 DEF ResetHost
<1>5. CASE ResetFails
  BY <1>1, <1>5 DEF ResetFails
<1>6. CASE GoIdle
  BY <1>0, <1>2, <1>3, <1>6, ExchangeTyped DEF GoIdle, Exchange
<1>7. CASE CheckV2Card
  BY <1>0, <1>2, <1>7, ExchangeTyped DEF CheckV2Card, Exchange
<1>8. CASE AppPrefix
  BY <1>0, <1>3, <1>8, ExchangeTyped DEF AppPrefix, Exchange
<1>9. CASE CheckSdhc
  BY <1>0, <1>2, <1>3, <1>9, ExchangeTyped DEF CheckSdhc, Exchange
<1>10. CASE CheckCid
  BY <1>0, <1>3, <1>10, ExchangeTyped DEF CheckCid, Exchange
<1>11. CASE CheckRca
  BY <1>0, <1>3, <1>11, ExchangeTyped DEF CheckRca, Exchange
<1>12. CASE RcaNotReady
  <2>1. PICK x \in Good("sendRelativeAddr", 0) : Exchange([x EXCEPT !.cost = 1])
    BY <1>12 DEF RcaNotReady
  <2>2. [x EXCEPT !.cost = 1].card = x.card /\ x \in Controller("sendRelativeAddr", 0)
    BY DEF Good, Xchg, Controller
  <2>3. card'.mem = card.mem
    BY <1>0, <2>1, <2>2, ExchangeTyped DEF Exchange
  <2>4. QED BY <1>1, <1>12, <2>3 DEF RcaNotReady
<1>13. CASE SelectCard
  BY <1>0, <1>3, <1>13, ExchangeTyped DEF SelectCard, Exchange
<1>14. CASE SetBlockLen
  BY <1>0, <1>3, <1>14, ExchangeTyped DEF SetBlockLen, Exchange
<1>15. CASE SetScr
  BY <1>0, <1>1, <1>15, ExchangeTyped DEF SetScr, Exchange, Returns
<1>16. QED
  BY <1>4, <1>5, <1>6, <1>7, <1>8, <1>9, <1>10, <1>11, <1>12, <1>13, <1>14, <1>15 DEF InitSteps

LEMMA TransferRefines == ASSUME EmmcInv, Transfer PROVE D!Step
<1> DEFINE n  == Len(req.data)
           Rq == [kind |-> req.kind, lba |-> req.lba, data |-> req.data, result |-> req.result]
<1>0. /\ EmmcTypeOK /\ Knows /\ pc = "data" /\ req.result = "busy"
      /\ req.kind \in {"read", "write"} /\ dev.blocks = n /\ n \in Nat /\ req.lba + n <= NSectors
      /\ req.lba \in Nat /\ NSectors \in Nat
      /\ req \in [kind : {"none", "init", "read", "write"}, lba : Sector, data : Seq(Value),
                  result : {"none", "busy", "ok", "failed"}]
  <2>1. EmmcTypeOK /\ Knows /\ pc = "data"
    BY DEF EmmcInv, Transfer
  <2>2. /\ req.result = "busy" /\ req.kind \in {"read", "write"} /\ req.lba + n <= NSectors
    BY <2>1 DEF Knows
  <2>3. dev.blocks = n /\ n \in Nat
    BY <2>1, CommandOfRequest
  <2>4. /\ req \in [kind : {"none", "init", "read", "write"}, lba : Sector, data : Seq(Value),
                    result : {"none", "busy", "ok", "failed"}]
    BY <2>1 DEF EmmcTypeOK
  <2>5. req.lba \in Nat /\ NSectors \in Nat
    BY <2>4, EmmcAssumption DEF Sector
  <2>6. QED BY <2>1, <2>2, <2>3, <2>4, <2>5
<1>1. PICK x \in Controller(Cmd, Address) :
           /\ card' = x.card /\ faults' = faults + x.cost /\ hit' = hit + x.cost
           /\ \/ Ok(Cmd, x) /\ req' = [req EXCEPT !.data = Buffer(x), !.result = "ok"]
                 /\ pc' = "idle" /\ tried' = tried
              \/ ~Ok(Cmd, x) /\ req' = [req EXCEPT !.data = Buffer(x)]
                 /\ tried < Tries /\ tried' = tried + 1 /\ pc' = pc
              \/ ~Ok(Cmd, x) /\ req' = [req EXCEPT !.data = Buffer(x), !.result = "failed"]
                 /\ pc' = "idle" /\ tried' = tried
  BY TransferCases
<1>2. PICK k \in 0..n : Leaves(card', k) /\ (Ok(Cmd, x) => k = n)
  BY <1>0, <1>1, TransferEffect
<1>3. /\ req'.kind = req.kind /\ req'.lba = req.lba /\ req'.data = Buffer(x)
      /\ req'.result \in {"busy", "ok", "failed"} /\ (req'.result = "ok" => Ok(Cmd, x))
  BY <1>0, <1>1
<1>4. /\ Len(Buffer(x)) = n
      /\ \A i \in 1..n : \/ Buffer(x)[i] = req.data[i]
                         \/ req.kind = "read" /\ Buffer(x)[i] = card.mem[req.lba + i - 1]
      /\ req.kind = "write" => Buffer(x) = req.data
      /\ req.kind = "read" /\ Ok(Cmd, x) => \A i \in 1..n : Buffer(x)[i] = card.mem[req.lba + i - 1]
  BY <1>0, BufferFilled
<1>5. \A i \in 1..n : req.lba + i - 1 \in Sector
  BY <1>0 DEF Sector
<1>6. D!Written
  <2>1. SUFFICES ASSUME NEW s \in Sector
                 PROVE  \/ card'.mem[s] = card.mem[s]
                        \/ /\ req.kind = "write" /\ s \in req.lba..req.lba + n - 1
                           /\ card'.mem[s] = req.data[s - req.lba + 1]
    BY DEF D!Written, D!Sector, D!Range, Sector
  <2>2. CASE req.kind = "write"
    <3>1. card'.mem = Wrote(k)
      BY <1>2, <2>2 DEF Leaves
    <3>2. s \in req.lba..req.lba + k - 1 => s \in req.lba..req.lba + n - 1
      BY <1>0, <1>2
    <3>3. QED BY <2>2, <3>1, <3>2 DEF Wrote
  <2>3. CASE req.kind # "write"
    BY <1>2, <2>3 DEF Leaves
  <2>4. QED BY <2>2, <2>3
<1>7. D!Filled
  BY <1>3, <1>4 DEF D!Filled
<1>8. D!Part
  BY <1>0, <1>3, <1>6, <1>7 DEF D!Part
<1>9. ASSUME req'.result = "ok"
      PROVE  \A i \in 1..n : card'.mem[req.lba + i - 1] = Buffer(x)[i]
  <2>1. Ok(Cmd, x) /\ k = n
    BY <1>2, <1>3, <1>9
  <2>2. CASE req.kind = "write"
    <3>1. card'.mem = Wrote(n) /\ Buffer(x) = req.data
      BY <1>2, <1>4, <2>1, <2>2 DEF Leaves
    <3>2. ASSUME NEW i \in 1..n
          PROVE  /\ req.lba + i - 1 \in req.lba..req.lba + n - 1
                 /\ (req.lba + i - 1) - req.lba + 1 = i
      BY <1>0
    <3>3. QED BY <1>5, <3>1, <3>2 DEF Wrote
  <2>3. CASE req.kind = "read"
    BY <1>2, <1>4, <2>1, <2>3 DEF Leaves
  <2>4. QED BY <1>0, <2>2, <2>3
<1>10. CASE req'.result = "busy"
  BY <1>8, <1>10 DEF D!Step, D!Goes
<1>11. CASE req'.result \in {"ok", "failed"}
  <2>1. req'.result = "ok" => D!OnDisk(Rq)'
    BY <1>3, <1>4, <1>9 DEF D!OnDisk
  <2>2. D!Answer
    BY <1>8, <1>11, <2>1 DEF D!Answer
  <2>3. QED BY <2>2 DEF D!Step
<1>12. QED BY <1>3, <1>10, <1>11

LEMMA StepRefines ==
  ASSUME EmmcInv, [Next]_vars
  PROVE  [D!Step]_<<card.mem, [kind |-> req.kind, lba |-> req.lba, data |-> req.data, result |-> req.result]>>
<1> DEFINE Rq == [kind |-> req.kind, lba |-> req.lba, data |-> req.data, result |-> req.result]
<1>0. EmmcTypeOK /\ Knows
  BY DEF EmmcInv
<1>1. CASE EmmcInit
  <2>1. req.result # "busy" /\ req'.result = "busy" /\ card' = card
    BY <1>0, <1>1 DEF EmmcInit, Idle, Call, Knows
  <2>2. QED BY <2>1 DEF D!Step, D!Call
<1>2. CASE Request
  BY <1>2, RequestInv DEF D!Step, D!Call
<1>3. CASE Transfer
  BY <1>3, TransferRefines
<1>4. CASE InitSteps
  <2>1. card'.mem = card.mem
    BY <1>4, AttemptQuiet
  <2>2. CASE req' = req
    BY <2>1, <2>2
  <2>3. CASE \E r \in {"ok", "failed"} : req' = [req EXCEPT !.result = r]
    <3>1. pc \in InitPcs
      BY <1>4 DEF InitSteps, InitPcs, ResetHost, ResetFails, GoIdle, CheckV2Card, AppPrefix, CheckSdhc,
                  CheckCid, CheckRca, RcaNotReady, SelectCard, SetBlockLen, SetScr
    <3>2. req.result = "busy" /\ req.kind = "init" /\ req.data = <<>>
      BY <1>0, <3>1 DEF Knows, InitPcs
    <3>3. req \in [kind : {"none", "init", "read", "write"}, lba : Sector, data : Seq(Value),
                   result : {"none", "busy", "ok", "failed"}]
      BY <1>0 DEF EmmcTypeOK
    <3>4. /\ req'.kind = "init" /\ req'.lba = req.lba /\ req'.data = <<>>
          /\ req'.result \in {"ok", "failed"}
      BY <2>3, <3>2, <3>3
    <3>5. D!Written
      BY <2>1 DEF D!Written
    <3>6. D!Filled
      BY <3>2, <3>4 DEF D!Filled
    <3>7. D!Answer
      BY <3>2, <3>4, <3>5, <3>6 DEF D!Answer, D!Part
    <3>8. QED BY <3>7 DEF D!Step
  <2>4. QED BY <1>4, <2>2, <2>3, AttemptQuiet
<1>5. CASE UNCHANGED vars
  BY <1>5 DEF vars, drv
<1>6. QED BY <1>1, <1>2, <1>3, <1>4, <1>5 DEF Next

(* Whatever the faults, the driver and the card behind it are an array of  *)
(* sectors: an answer "ok" is true of the disk, a transfer that fails has  *)
(* written some of its own sectors at most, and nothing else is written.   *)
THEOREM DriverImplementsDisk == Spec => ImplementsDisk
<1>1. Init => D!Init
  BY DEF Init, D!Init, D!Sector, Sector, Call
<1>2. QED BY <1>1, InitInv, NextInv, StepRefines, PTL DEF Spec, ImplementsDisk, D!Spec
=============================================================================
