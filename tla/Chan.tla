-------------------------------- MODULE Chan --------------------------------
(***************************************************************************)
(* The channels of hs/Process.hs on the MVars of Rts: a chain of           *)
(* single-item MVars (holes), and two MVars that hold the hole at either   *)
(* end.  Every MVar primitive is a step of its own; a thread that blocks   *)
(* keeps its frame and executes the primitive again.                       *)
(***************************************************************************)
EXTENDS Rts, FiniteSets

CONSTANTS
  NChan,      \* channels are 1..NChan, in the order select is given them
  Rd, Wr,     \* chanRead and chanWrite of each channel
  Hole,       \* the MVars newEmptyMVar can return (bound on the sends)
  MaxSends,   \* messages a thread sends (bound)
  Clients     \* the programs: what each thread calls, on which channel

Channel == 1..NChan
Msg     == Thread \X (1..MaxSends)
ChItem  == [val : Msg, next : Hole]

ASSUME ChanAssumption ==
  /\ NChan \in Nat \ {0} /\ MaxSends \in Nat
  /\ Rd \in [Channel -> MVar \ Hole] /\ Wr \in [Channel -> MVar \ Hole]
  /\ \A c, d \in Channel : Rd[c] # Wr[d] /\ (c # d => Rd[c] # Rd[d] /\ Wr[c] # Wr[d])
  /\ Hole \subseteq MVar /\ IsFiniteSet(Hole)
  /\ Hole \cup ChItem \subseteq Value /\ Hole \cap ChItem = {}

VARIABLES
  client,     \* the program that runs
  frame,      \* where a thread is in its operation, and its locals
  used,       \* the holes allocated so far
  nsent,      \* how many messages a thread has sent
  sent, got   \* the messages of a channel, in the order linked and taken

hist == <<client, used, nsent, sent, got>>
vars == <<rts, frame, hist>>

(* ch is the channel, sel whether tryRecv was called by select, end the    *)
(* hole the thread holds (oldHole, readEnd), new is newHole, item what was *)
(* taken from the hole.                                                    *)
Frame(p, c) == [pc |-> p, ch |-> c, sel |-> FALSE, end |-> NIL, new |-> NIL, item |-> NIL]
Idle        == Frame("idle", 1)

CInit ==
  /\ Init
  /\ client \in Clients
  /\ frame  = [t \in Thread |-> IF t = Main THEN Frame("new_read", 1) ELSE Idle]
  /\ used   = {}
  /\ nsent  = [t \in Thread |-> 0]
  /\ sent   = [c \in Channel |-> <<>>]
  /\ got    = [c \in Channel |-> <<>>]

Me           == frame[Cur]
At(p)        == Running /\ Me.pc = p
Becomes(f)   == frame' = [frame EXCEPT ![Cur] = f]
Goes(p)      == Becomes([Me EXCEPT !.pc = p])
Calls(op, c) == Starts /\ At("idle") /\ <<op, c>> \in client[Cur]
NewHole      == CHOOSE h \in Hole : h \notin used      \* newEmptyMVar

(* takeMVar m and putMVar m v in an operation: wait, or go on.             *)
Waits(m)   == TakeMVarBlocks(m) /\ UNCHANGED <<frame, hist>>
PWaits(m, v) == PutMVarBlocks(m, v) /\ UNCHANGED <<frame, hist>>

----------------------------------------------------------------------------
(* newChan, by the main thread, for every channel; then forkIO.            *)
NewReadEnd ==
  /\ At("new_read") /\ used # Hole
  /\ PutMVar(Rd[Me.ch], NewHole)
  /\ used' = used \cup {NewHole}
  /\ Becomes([Me EXCEPT !.pc = "new_write", !.end = NewHole])
  /\ UNCHANGED <<client, nsent, sent, got>>
NewWriteEnd ==
  /\ At("new_write")
  /\ PutMVar(Wr[Me.ch], Me.end)
  /\ Becomes(IF Me.ch < NChan THEN Frame("new_read", Me.ch + 1) ELSE Frame("fork", 1))
  /\ UNCHANGED hist
ForkClient ==
  /\ At("fork")
  /\ \E t \in Thread : Fork(t)
  /\ Goes(IF Cardinality({t \in Thread : state[t] = "unborn"}) = 1 THEN "idle" ELSE "fork")
  /\ UNCHANGED hist

----------------------------------------------------------------------------
(* send: take the write end, link the item into the old hole, release.     *)
SendStarts(c) ==
  /\ Calls("send", c)
  /\ nsent[Cur] < MaxSends /\ used # Hole
  /\ used'  = used \cup {NewHole}
  /\ nsent' = [nsent EXCEPT ![Cur] = @ + 1]
  /\ Becomes([Frame("send_take", c) EXCEPT !.new = NewHole])
  /\ UNCHANGED <<rts, client, sent, got>>

TakesEnd(from, m, to) ==
  /\ At(from)
  /\ \/ Waits(m)
     \/ /\ TakeMVar(m, Available(m))
        /\ Becomes([Me EXCEPT !.pc = to, !.end = Available(m)])
        /\ UNCHANGED hist
PutsEnd(from, m, h, f) ==
  /\ At(from)
  /\ PWaits(m, h) \/ (PutMVar(m, h) /\ Becomes(f) /\ UNCHANGED hist)

SendReleasesFirst ==    \* mutant: releases the write end before it links
  \/ TakesEnd("send_take", Wr[Me.ch], "send_early")
  \/ PutsEnd("send_early", Wr[Me.ch], Me.new, [Me EXCEPT !.pc = "send_link"])
SendTakes == TakesEnd("send_take", Wr[Me.ch], "send_link")
SendLinks ==
  /\ At("send_link")
  /\ LET msg  == <<Cur, nsent[Cur]>>
         item == [val |-> msg, next |-> Me.new] IN
     \/ PWaits(Me.end, item)
     \/ /\ PutMVar(Me.end, item)
        /\ sent' = [sent EXCEPT ![Me.ch] = Append(@, msg)]
        /\ Goes("send_release")
        /\ UNCHANGED <<client, used, nsent, got>>
SendReleasesOld == PutsEnd("send_release", Wr[Me.ch], Me.end, Idle)    \* mutant: the old hole
SendReleases == PutsEnd("send_release", Wr[Me.ch], Me.new, Idle)

----------------------------------------------------------------------------
(* recv, tryRecv and select: take the read end, take the item from its     *)
(* hole, release the end of the rest (tryRecv without an item: the same).  *)
(* select always starts from the first channel: startVar is a new MVar in  *)
(* every call, updated just before it returns.                             *)
Enters(op, c, f) == Calls(op, c) /\ Becomes(f) /\ UNCHANGED <<rts, hist>>
RecvStarts(c)    == Enters("recv", c, Frame("recv_take", c))
TryRecvStarts(c) == Enters("tryRecv", c, Frame("try_take", c))
SelectStarts     == Enters("select", 1, [Frame("try_take", 1) EXCEPT !.sel = TRUE])

Received(v, to) ==
  /\ Becomes([Me EXCEPT !.pc = to, !.item = v])
  /\ got' = [got EXCEPT ![Me.ch] = Append(@, v.val)]
  /\ UNCHANGED <<client, used, nsent, sent>>

RecvTakes == TakesEnd("recv_take", Rd[Me.ch], "recv_item")
RecvItem  ==
  /\ At("recv_item")
  /\ \/ Waits(Me.end)
     \/ TakeMVar(Me.end, Available(Me.end)) /\ Received(Available(Me.end), "recv_release")
RecvReleasesOld == PutsEnd("recv_release", Rd[Me.ch], Me.end, Idle)    \* mutant: the old end
RecvReleases == PutsEnd("recv_release", Rd[Me.ch], Me.item.next, Idle)

TryRecvTakes == TakesEnd("try_take", Rd[Me.ch], "try_item")
TryRecvItem ==
  /\ At("try_item")
  /\ LET v == Available(Me.end) IN
     /\ TryTakeMVar(Me.end, v)
     /\ IF v = NIL THEN Goes("try_nothing") /\ UNCHANGED hist ELSE Received(v, "recv_release")
(* Mutant: the read end is not put back.                                   *)
TryRecvLeaves  == At("try_nothing") /\ Becomes(Idle) /\ UNCHANGED <<rts, hist>>
TryRecvNothing ==
  PutsEnd("try_nothing", Rd[Me.ch], Me.end,
          IF ~Me.sel THEN Idle
          ELSE [Frame(IF Me.ch < NChan THEN "try_take" ELSE "sel_yield",
                      IF Me.ch < NChan THEN Me.ch + 1 ELSE 1) EXCEPT !.sel = TRUE])

(* No channel had anything: yield, then threadDelay 1000.                  *)
SelectYields ==
  /\ At("sel_yield")
  /\ IOYield
  /\ Goes(IF Alone THEN "sel_delay" ELSE "sel_yield")
  /\ UNCHANGED hist
SelectSleeps ==
  /\ At("sel_delay")
  /\ \/ clock + 1 < ClockMod /\ DelayBegins(1) /\ UNCHANGED frame   \* no sleep across a wrap
     \/ DelayReturns /\ Goes("try_take")
  /\ UNCHANGED hist

----------------------------------------------------------------------------
(* A client that has sent its messages ends.                               *)
Return ==
  /\ At("idle") /\ nsent[Cur] = MaxSends
  /\ Finish
  /\ UNCHANGED <<frame, hist>>

Slice  == Preempt /\ UNCHANGED <<frame, hist>>
Pause  == PauseExec /\ UNCHANGED <<frame, hist>>
GiveUp == Deadlock /\ UNCHANGED <<frame, hist>>

(* Ticks that a sleeper sees, and the one that brings the clock back.      *)
Time ==
  /\ IF timeq # <<>> THEN clock + 1 < ClockMod ELSE clock > 0
  /\ Tick
  /\ UNCHANGED <<frame, hist>>

Ops ==
  \/ NewReadEnd \/ NewWriteEnd \/ ForkClient
  \/ \E c \in Channel : SendStarts(c) \/ RecvStarts(c) \/ TryRecvStarts(c)
  \/ SelectStarts \/ SendTakes \/ SendLinks \/ SendReleases
  \/ RecvTakes \/ RecvItem \/ RecvReleases
  \/ TryRecvTakes \/ TryRecvItem \/ TryRecvNothing
  \/ SelectYields \/ SelectSleeps \/ Return

Next == Ops \/ Slice \/ Pause \/ GiveUp \/ Time

Spec == CInit /\ [][Next]_vars

(* As in Threads: the scheduler and the clock go on, and a thread that     *)
(* gets the processor again and again makes progress.                      *)
LiveSpec ==
  /\ Spec
  /\ WF_vars(Slice) /\ WF_vars(Pause) /\ WF_vars(Time)
  /\ \A t \in Thread : SF_vars(Running /\ Cur = t /\ Ops)

----------------------------------------------------------------------------
Pcs == {"new_read", "new_write", "fork", "idle", "send_take", "send_link", "send_release",
        "recv_take", "recv_item", "recv_release", "try_take", "try_item", "try_nothing",
        "sel_yield", "sel_delay"}

ChanTypeOK ==
  /\ TypeOK
  /\ client \in Clients
  /\ frame \in [Thread -> [pc : Pcs, ch : Channel, sel : BOOLEAN, end : Hole \cup {NIL},
                            new : Hole \cup {NIL}, item : ChItem \cup {NIL}]]
  /\ used \subseteq Hole
  /\ nsent \in [Thread -> 0..MaxSends]
  /\ sent \in [Channel -> Seq(Msg)] /\ got \in [Channel -> Seq(Msg)]

(* How many copies of an end there are: in its MVar, on its way to a       *)
(* waiter, or held by a thread between take and put.                       *)
Copies(m, held) ==
  (IF data[m] = NIL THEN 0 ELSE 1)
    + Cardinality({t \in Thread : mval[t] # NIL /\ redex[t].mv = m})
    + Cardinality({t \in Thread : frame[t].pc \in held /\ m \in {Rd[frame[t].ch], Wr[frame[t].ch]}})

(* The two end MVars work as locks: at most one thread at a time is inside *)
(* send, and one inside recv or tryRecv, and the end is never lost.        *)
EndsAreLocks ==
  frame[Main].pc \notin {"new_read", "new_write"} =>
    \A c \in Channel :
      /\ Copies(Wr[c], {"send_link", "send_release"}) = 1
      /\ Copies(Rd[c], {"recv_item", "recv_release", "try_item", "try_nothing"}) = 1

(* "The sender never blocks (unbounded)" (Process.hs 33): no putMVar of a  *)
(* channel ever finds its MVar full, so a sender waits for the write end   *)
(* at most, never for a receiver.                                          *)
PutsNeverBlock ==
  \A t \in Thread : state[t] = "wait_mvar" => redex[t].prim # "put"

(* The channel is a queue: what has been received is a prefix of what was  *)
(* linked, each message once, whatever the threads interleave.             *)
InTransit == [c \in Channel |-> SubSeq(sent[c], Len(got[c]) + 1, Len(sent[c]))]
F == INSTANCE Fifo WITH queue <- InTransit
IsFifo == F!Spec

(* Every message sent is received in the end (senders stop at MaxSends):   *)
(* no wake-up of a receiver is lost between its test of the hole and its   *)
(* wait, and select, which polls, comes round.                             *)
Delivered == <>[](\A c \in Channel : Len(got[c]) = Len(sent[c]))
============================================================================
