-------------------------------- MODULE Radio --------------------------------
(***************************************************************************)
(* Two machines with a radio each: hs/NRF.hs, and the two bridge threads   *)
(* of hs/NetChan.hs, the sender (snd) and the receiver (rcv).  Each SPI    *)
(* transfer that reads or changes what the chip does is a step: a thread   *)
(* can be preempted before it, and the chips go on by themselves.          *)
(***************************************************************************)
EXTENDS Integers, Sequences

CONSTANTS
  ToPacket(_), FromPacket(_),  \* Packet and Decode of Codec
  Meaning(_), Whole(_),        \* Meant and Fits of Codec
  ZeroPacket, NoMessage,       \* Zeros and Nothing of Codec
  Message,    \* what can be sent
  Traffic,    \* what the sides send (sides), and how much the air may lose (losses: bound)
  MaxAttempt, \* of nrfSend: 7 in the code
  Pids,       \* packet identities of the chip: 4
  Depth       \* packets in a FIFO of the chip: 3

Radio   == {1, 2}
Peer(n) == 3 - n

ASSUME RadioAssumption ==
  /\ \A t \in Traffic : t.sides \in [Radio -> Seq(Message)] /\ t.losses \in Nat
  /\ MaxAttempt \in Nat /\ Pids \in Nat \ {0, 1} /\ Depth \in Nat \ {0}

(* A packet gives back what its message means, or nothing when the message *)
(* does not fit (Codec).                                                   *)
ASSUME PacketAssumption ==
  \A m \in Message : FromPacket(ToPacket(m)) = IF Whole(m) THEN Meaning(m) ELSE NoMessage

VARIABLES
  traffic, acked,     \* the messages, and nrfAcked of both configurations
  chip, snd, rcv,     \* the radios and the threads
  inbox, result,      \* what arrived, what nrfSend returned for each message
  losses,             \* packets and answers the air may still lose
  took, dropped,      \* history: messages the chip took from the air; those a drain threw away
  mistaken,           \* history: messages it answered as repeats and has never taken
  raced, slipped      \* history: a read of an empty FIFO; a packet sent between two commands

hist      == <<took, mistaken, dropped, raced, slipped>>
radioVars == <<traffic, acked, chip, snd, rcv, inbox, result, losses, hist>>

(* A packet, with the place of its message in the traffic (0: nobody's).   *)
Pkt(b, i) == [body |-> b, id |-> i]
NoPkt     == Pkt(<<>>, 0)
Now(n)    == Len(result[n]) + 1
SndIdle   == [pc |-> "recv", noAck |-> FALSE, attempt |-> 0, txDone |-> FALSE]

RadioInit ==
  /\ \E t \in Traffic : traffic = t.sides /\ losses = t.losses
  /\ acked \in BOOLEAN
  /\ chip    = [n \in Radio |-> [tx |-> FALSE, txq |-> <<>>, rxq |-> <<>>, ds |-> FALSE, rt |-> FALSE,
                                 pid |-> 0, last |-> <<>>, out |-> ZeroPacket]]
  /\ snd     = [n \in Radio |-> SndIdle]
  /\ rcv     = [n \in Radio |-> [pc |-> "poll", pkt |-> NoPkt]]
  /\ inbox   = [n \in Radio |-> <<>>]
  /\ result  = [n \in Radio |-> <<>>]
  /\ took    = [n \in Radio |-> {}]
  /\ mistaken = [n \in Radio |-> {}]
  /\ dropped = [n \in Radio |-> {}]
  /\ raced   = [n \in Radio |-> FALSE]
  /\ slipped = [n \in Radio |-> FALSE]

----------------------------------------------------------------------------
(* The chip.  In TX mode it sends the head of its FIFO, with its own       *)
(* retransmissions, until it is answered (TX_DS) or gives up (MAX_RT, and  *)
(* it waits for that to be cleared).  In RX mode it answers each packet it *)
(* has room for, and drops one it holds for a repeat: the identity and the *)
(* bytes are those of the last it took.                                    *)
Hears(q)     == ~chip[q].tx /\ Len(chip[q].rxq) < Depth
Repeat(q, p) == acked /\ chip[q].last = <<p.pid, p.body>>
Taking(q, p) ==
  IF Repeat(q, p) THEN chip[q]
  ELSE [chip[q] EXCEPT !.rxq = Append(@, Pkt(p.body, p.id)), !.last = <<p.pid, p.body>>]
Popped(n)    == [chip[n] EXCEPT !.txq = Tail(@), !.ds = TRUE]

OnAir(n, heard, answered) ==
  LET q == Peer(n)  p == Head(chip[n].txq) IN
  /\ chip[n].tx /\ chip[n].txq # <<>> /\ ~chip[n].rt
  /\ heard => Hears(q)
  /\ answered => (heard \/ ~acked)
  /\ chip' = [chip EXCEPT ![n] = IF answered THEN Popped(n) ELSE [@ EXCEPT !.rt = TRUE],
                          ![q] = IF heard THEN Taking(q, p) ELSE @]
  /\ took' = IF heard /\ ~Repeat(q, p) THEN [took EXCEPT ![q] = @ \cup {p.id}] ELSE took
  /\ mistaken' = IF heard /\ Repeat(q, p) THEN [mistaken EXCEPT ![q] = @ \cup ({p.id} \ took[q])]
                                          ELSE mistaken
  /\ slipped' = [slipped EXCEPT ![n] = @ \/ snd[n].pc = "flush"]
  /\ UNCHANGED <<traffic, acked, snd, rcv, inbox, result, dropped, raced>>
Loses         == losses > 0 /\ losses' = losses - 1
Arrives(n)    == OnAir(n, TRUE, TRUE) /\ UNCHANGED losses
AnswerLost(n) == acked /\ OnAir(n, TRUE, FALSE) /\ Loses
PacketLost(n) == OnAir(n, FALSE, ~acked) /\ (Loses \/ (~Hears(Peer(n)) /\ UNCHANGED losses))

----------------------------------------------------------------------------
(* drainRxPackets, by whichever thread: a read of R_RX_PAYLOAD pops the    *)
(* FIFO; one that finds it empty, because the other thread was faster,     *)
(* gives zeros or the last packet once more.                               *)
RxFifoEmpty(n)   == chip[n].rxq = <<>>
Payload(n) == IF RxFifoEmpty(n) THEN {Pkt(ZeroPacket, 0), Pkt(chip[n].out, 0)}
              ELSE {Head(chip[n].rxq)}
Reads(n, p) ==
  /\ chip'  = [chip EXCEPT ![n].rxq = IF RxFifoEmpty(n) THEN @ ELSE Tail(@), ![n].out = p.body]
  /\ raced' = [raced EXCEPT ![n] = @ \/ RxFifoEmpty(n)]
Drops(n, p) == dropped' = [dropped EXCEPT ![n] = @ \cup {p.id}]

(* recvThread: nrfRecv drains the FIFO and keeps the first packet.         *)
RcvAt(n, at) == rcv[n].pc = at
RcvGoes(n, to, p) == rcv' = [rcv EXCEPT ![n] = [pc |-> to, pkt |-> p]]

RecvPolls(n) ==
  /\ RcvAt(n, "poll") /\ ~RxFifoEmpty(n)
  /\ RcvGoes(n, "read", NoPkt)
  /\ UNCHANGED <<traffic, acked, chip, snd, inbox, result, losses, hist>>
RecvReads(n) ==
  /\ RcvAt(n, "read")
  /\ \E p \in Payload(n) :
       /\ Reads(n, p)
       /\ IF rcv[n].pkt = NoPkt THEN RcvGoes(n, "more", p) /\ UNCHANGED dropped
                                ELSE RcvGoes(n, "more", rcv[n].pkt) /\ Drops(n, p)
  /\ UNCHANGED <<traffic, acked, snd, inbox, result, losses, took, mistaken, slipped>>
RecvMoreForgets(n) ==        \* mutant: starts again with every packet
  /\ RcvAt(n, "more") /\ ~RxFifoEmpty(n)
  /\ RcvGoes(n, "read", NoPkt)
  /\ UNCHANGED <<traffic, acked, chip, snd, inbox, result, losses, hist>>
RecvMore(n) ==
  /\ RcvAt(n, "more") /\ ~RxFifoEmpty(n)
  /\ RcvGoes(n, "read", rcv[n].pkt)
  /\ UNCHANGED <<traffic, acked, chip, snd, inbox, result, losses, hist>>
(* send to the inbox does not wait (PutsNeverBlock of Chan).               *)
RecvTrusts(n) ==             \* mutant: what cannot be decoded is delivered
  /\ RcvAt(n, "more") /\ RxFifoEmpty(n)
  /\ inbox' = [inbox EXCEPT ![n] = Append(@, [val |-> FromPacket(rcv[n].pkt.body), id |-> rcv[n].pkt.id])]
  /\ RcvGoes(n, "poll", NoPkt)
  /\ UNCHANGED <<traffic, acked, chip, snd, result, losses, hist>>
RecvDelivers(n) ==
  /\ RcvAt(n, "more") /\ RxFifoEmpty(n)
  /\ LET m == FromPacket(rcv[n].pkt.body) IN
     inbox' = IF m = NoMessage THEN inbox
              ELSE [inbox EXCEPT ![n] = Append(@, [val |-> m, id |-> rcv[n].pkt.id])]
  /\ RcvGoes(n, "poll", NoPkt)
  /\ UNCHANGED <<traffic, acked, chip, snd, result, losses, hist>>

----------------------------------------------------------------------------
(* sendThread and nrfSend; nrfSendNoAck, which the tests use for radios    *)
(* without acknowledgements.                                               *)
SndAt(n, at)   == snd[n].pc = at
SndGoes(n, to) == snd' = [snd EXCEPT ![n].pc = to]
Quiet          == UNCHANGED <<traffic, acked, rcv, inbox, losses, took, mistaken, slipped>>

SendStarts(n) ==
  /\ SndAt(n, "recv") /\ Now(n) <= Len(traffic[n])
  /\ \E noAck \in IF acked THEN {FALSE} ELSE BOOLEAN :
       snd' = [snd EXCEPT ![n].pc = "drain", ![n].noAck = noAck]
  /\ Quiet /\ UNCHANGED <<chip, result, dropped, raced>>
SendDrained(n) ==
  /\ SndAt(n, "drain")
  /\ SndGoes(n, IF RxFifoEmpty(n) THEN "load" ELSE "read")
  /\ Quiet /\ UNCHANGED <<chip, result, dropped, raced>>
SendReads(n) ==
  /\ SndAt(n, "read")
  /\ \E p \in Payload(n) : Reads(n, p) /\ Drops(n, p)
  /\ SndGoes(n, "drain")
  /\ Quiet /\ UNCHANGED result

(* The addresses and W_TX_PAYLOAD; a full FIFO takes nothing.              *)
Loads(n) ==
  /\ SndAt(n, "load")
  /\ LET p == [body |-> ToPacket(traffic[n][Now(n)]), id |-> Now(n), pid |-> chip[n].pid] IN
     chip' = IF Len(chip[n].txq) = Depth THEN chip
             ELSE [chip EXCEPT ![n].txq = Append(@, p), ![n].pid = (@ + 1) % Pids]
  /\ SndGoes(n, "txMode")
  /\ Quiet /\ UNCHANGED <<result, dropped, raced>>
TxMode(n) ==
  /\ SndAt(n, "txMode")
  /\ chip' = [chip EXCEPT ![n].tx = TRUE]
  /\ SndGoes(n, "hasTxIntr")
  /\ Quiet /\ UNCHANGED <<result, dropped, raced>>

(* waitForTxComplete: two reads of STATUS, then the branch.                *)
(* nrfSendNoAck looks at the first only.                                   *)
HasTxIntr(n) ==
  /\ SndAt(n, "hasTxIntr")
  /\ IF snd[n].noAck THEN SndGoes(n, IF chip[n].ds THEN "txIntrClr" ELSE "hasTxIntr")
     ELSE snd' = [snd EXCEPT ![n].pc = "hasMaxRtIntr", ![n].txDone = chip[n].ds]
  /\ Quiet /\ UNCHANGED <<chip, result, dropped, raced>>
HasTxIntrOnly(n) ==          \* mutant: waits for success only
  /\ SndAt(n, "hasMaxRtIntr")
  /\ SndGoes(n, IF snd[n].txDone THEN "txIntrClr" ELSE "hasTxIntr")
  /\ Quiet /\ UNCHANGED <<chip, result, dropped, raced>>
HasMaxRtIntr(n) ==
  /\ SndAt(n, "hasMaxRtIntr")
  /\ snd' = [snd EXCEPT ![n].txDone = FALSE,
                         ![n].pc = IF snd[n].txDone THEN "txIntrClr"
                                   ELSE IF chip[n].rt THEN "rtIntrClr" ELSE "hasTxIntr"]
  /\ Quiet /\ UNCHANGED <<chip, result, dropped, raced>>
TxIntrClr(n) ==
  /\ SndAt(n, "txIntrClr")
  /\ chip' = [chip EXCEPT ![n].ds = FALSE]
  /\ SndGoes(n, "sent")
  /\ Quiet /\ UNCHANGED <<result, dropped, raced>>
RtIntrClr(n) ==
  /\ SndAt(n, "rtIntrClr")
  /\ chip' = [chip EXCEPT ![n].rt = FALSE]
  /\ SndGoes(n, "flush")
  /\ Quiet /\ UNCHANGED <<result, dropped, raced>>
FlushNot(n) ==               \* mutant: leaves the payload in the FIFO
  /\ SndAt(n, "flush")
  /\ SndGoes(n, "failed")
  /\ Quiet /\ UNCHANGED <<chip, result, dropped, raced>>
FlushTx(n) ==
  /\ SndAt(n, "flush")
  /\ chip' = [chip EXCEPT ![n].txq = <<>>]
  /\ SndGoes(n, "failed")
  /\ Quiet /\ UNCHANGED <<result, dropped, raced>>

(* nrfRxMode, and what follows it: the result, or the next attempt.        *)
Returns(n, ok) ==
  /\ result' = [result EXCEPT ![n] = Append(@, ok)]
  /\ snd' = [snd EXCEPT ![n] = SndIdle]
SendOk(n)   == SndAt(n, "sent") /\ Returns(n, TRUE)
SendLost(n) == SndAt(n, "failed") /\ snd[n].attempt >= MaxAttempt /\ Returns(n, FALSE)
Retries(n)  ==
  /\ SndAt(n, "failed") /\ snd[n].attempt < MaxAttempt
  /\ snd' = [snd EXCEPT ![n].pc = "load", ![n].attempt = @ + 1]
  /\ UNCHANGED result
RxMode(n) ==
  /\ SendOk(n) \/ SendLost(n) \/ Retries(n)
  /\ chip' = [chip EXCEPT ![n].tx = FALSE]
  /\ Quiet /\ UNCHANGED <<dropped, raced>>

----------------------------------------------------------------------------
Chip(n)     == Arrives(n) \/ AnswerLost(n) \/ PacketLost(n)
Receiver(n) == RecvPolls(n) \/ RecvReads(n) \/ RecvMore(n) \/ RecvDelivers(n)
Sender(n)   ==
  \/ SendStarts(n) \/ SendDrained(n) \/ SendReads(n) \/ Loads(n) \/ TxMode(n) \/ HasTxIntr(n)
  \/ HasMaxRtIntr(n) \/ TxIntrClr(n) \/ RtIntrClr(n) \/ FlushTx(n) \/ RxMode(n)
RadioNext == \E n \in Radio : Chip(n) \/ Receiver(n) \/ Sender(n)

RadioSpec == RadioInit /\ [][RadioNext]_radioVars

(* The chips transmit, and each thread gets its turn.                      *)
RadioFairSpec ==
  RadioSpec /\ \A n \in Radio : WF_radioVars(Chip(n)) /\ WF_radioVars(Receiver(n)) /\ WF_radioVars(Sender(n))

----------------------------------------------------------------------------
(* nrfSend "returns True if the packet was successfully ACKed" (NRF.hs     *)
(* 455): the other radio has taken that message, whatever was lost on the  *)
(* way and however often it was loaded again, as long as no packet slipped *)
(* out between the clearing of MAX_RT and the flush (488-489), unless that *)
(* radio has held it for a repeat of an equal one.                         *)
AckedIsTaken ==
  \A n \in Radio : acked /\ ~slipped[n] =>
    \A i \in DOMAIN result[n] : result[n][i] => i \in took[Peer(n)] \cup mistaken[Peer(n)]

(* What arrives in an inbox was sent, as it was meant, in the order sent;  *)
(* a message may be missing or come several times.  Not so once the two    *)
(* threads of a side have read its FIFO at the same time.                  *)
InOrder ==
  \A n \in Radio : ~raced[n] =>
    \A i \in DOMAIN inbox[n] :
      LET m == traffic[Peer(n)][inbox[n][i].id] IN
      /\ inbox[n][i].id > 0 /\ Whole(m) /\ inbox[n][i].val = Meaning(m)
      /\ i > 1 => inbox[n][i - 1].id <= inbox[n][i].id

(* A message the radio has taken comes out of netRecv, if it fits, unless  *)
(* a drain has thrown a packet of it away: it came behind another one, or  *)
(* just before a send.                                                     *)
TakenArrives ==
  <>[](\A n \in Radio : \A i \in took[n] :
         Whole(traffic[Peer(n)][i]) =>
           i \in {inbox[n][k].id : k \in DOMAIN inbox[n]} \/ i \in dropped[n])

(* nrfSend returns, though it waits without a bound: one of the two flags  *)
(* comes, whichever were left over from the attempt before.                *)
SendReturns == \A n \in Radio : []<>SndAt(n, "recv")

(* The documented promise without the exceptions; and that every message   *)
(* in an inbox is somebody's.                                              *)
AckedIsTrue ==
  \A n \in Radio : acked =>
    \A i \in DOMAIN result[n] : result[n][i] => i \in took[Peer(n)]
NoPhantom == \A n \in Radio : \A i \in DOMAIN inbox[n] : inbox[n][i].id > 0
(* A message is never held for a repeat of another one.  A packet loaded   *)
(* again (NRF.hs 514) has a new identity, and there are four of them.      *)
NeverMistaken == \A n \in Radio : ~slipped[Peer(n)] => mistaken[n] = {}
=============================================================================
