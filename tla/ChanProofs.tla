----------------------------- MODULE ChanProofs -----------------------------
(***************************************************************************)
(* The channels are queues and their ends are locks, for any number of     *)
(* channels, threads and messages, as long as no two takes wait at one     *)
(* MVar; at most two senders and two receivers per channel see to that.    *)
(***************************************************************************)
EXTENDS Chan, RtsProofs, FiniteSetTheorems

(* The holes of a channel in the order they are linked: hole[c][i] is the  *)
(* one that message i of channel c goes into, the last one, not yet        *)
(* filled, is what the write end holds, the one after the last received    *)
(* message what the read end holds.                                        *)
NSent(c)      == Len(sent[c])
NGot(c)       == Len(got[c])
First(hole, c) == hole[c][NGot(c) + 1]
Last(hole, c)  == hole[c][NSent(c) + 1]
Item(hole, c, i) == [val |-> sent[c][i], next |-> hole[c][i + 1]]

TakePcs == {"send_take", "recv_take", "try_take", "recv_item"}
WrPcs   == {"send_link", "send_release"}
RdPcs   == {"recv_item", "recv_release", "try_item", "try_nothing"}
Linked(c) == 1..NSent(c) + 1

Starting == frame[Main].pc \in {"new_read", "new_write"}

(* Thread t has what MVar m holds: in its stash, or between take and put.  *)
Stashed(t, m)  == mval[t] # NIL /\ redex[t].mv = m
Inside(t, m, pcs) == frame[t].pc \in pcs /\ m \in {Rd[frame[t].ch], Wr[frame[t].ch]}
Has(t, m, pcs) == Stashed(t, m) \/ Inside(t, m, pcs)

(* Either the MVar is full or exactly one thread has what it held.         *)
Lock(m, pcs) ==
  /\ \A t, u \in Thread : Has(t, m, pcs) /\ Has(u, m, pcs) => t = u
  /\ data[m] = NIL <=> \E t \in Thread : Has(t, m, pcs)
Locks == \A c \in Channel : Lock(Wr[c], WrPcs) /\ Lock(Rd[c], RdPcs)

(* The MVar a thread at pc waits for.                                      *)
Wanted(f) == IF f.pc = "send_take" THEN Wr[f.ch]
             ELSE IF f.pc = "recv_item" THEN f.end ELSE Rd[f.ch]

(* A thread is suspended where its frame says, never in a put.             *)
Suspended ==
  \A t \in Thread :
    \/ redex[t].prim = "none"
    \/ redex[t].prim = "yield" /\ frame[t].pc = "sel_yield"
    \/ redex[t].prim = "delay" /\ frame[t].pc = "sel_delay"
    \/ redex[t].prim = "take" /\ frame[t].pc \in TakePcs /\ redex[t].mv = Wanted(frame[t])

(* What the ends, and the threads that have them, hold.                    *)
EndsHold(hole) ==
  \A c \in Channel :
    /\ data[Wr[c]] \in {NIL, Last(hole, c)}
    /\ data[Rd[c]] \in {NIL, First(hole, c)}
Holds(hole, t) ==
  LET f == frame[t]  c == frame[t].ch IN
  /\ f.pc = "send_take" /\ mval[t] # NIL => mval[t] = Last(hole, c)
  /\ f.pc = "send_link" => f.end = Last(hole, c)
  /\ f.pc = "send_release" => f.new = Last(hole, c)
  /\ f.pc \in {"recv_take", "try_take"} /\ mval[t] # NIL => mval[t] = First(hole, c)
  /\ f.pc \in {"recv_item", "try_item", "try_nothing"} => f.end = First(hole, c)
  /\ f.pc = "recv_release" => f.item \in ChItem /\ f.item.next = First(hole, c)
  /\ f.pc = "recv_item" /\ mval[t] # NIL =>
       /\ NGot(c) < NSent(c)
       /\ mval[t] = Item(hole, c, NGot(c) + 1)
       /\ data[f.end] = NIL
ThreadsHold(hole) == \A t \in Thread : Holds(hole, t)

(* The holes from the read end to the write end hold the messages in       *)
(* transit; the first may be on its way to the receiver that waited.       *)
OnItsWay(c) == \E t \in Thread : frame[t].pc = "recv_item" /\ frame[t].ch = c /\ mval[t] # NIL
ChainHolds(hole, c) ==
  /\ NGot(c) <= NSent(c)
  /\ data[Last(hole, c)] = NIL
  /\ \A i \in Linked(c) : NGot(c) < i /\ i <= NSent(c) =>
       \/ data[hole[c][i]] = Item(hole, c, i)
       \/ data[hole[c][i]] = NIL /\ i = NGot(c) + 1 /\ OnItsWay(c)
ChainsHold(hole) == \A c \in Channel : ChainHolds(hole, c)

(* No hole is linked twice, and newEmptyMVar returns no linked hole.       *)
HolesApart(hole) ==
  /\ \A c \in Channel : \A i \in Linked(c) : hole[c][i] \in used
  /\ \A c, d \in Channel : \A i \in Linked(c), j \in Linked(d) :
       hole[c][i] = hole[d][j] => c = d /\ i = j

Fresh == {"send_take", "send_link"}
NewHoles(hole) ==
  /\ \A h \in Hole \ used : data[h] = NIL
  /\ \A t \in Thread : frame[t].pc \in Fresh =>
       /\ frame[t].new \in used /\ data[frame[t].new] = NIL
       /\ \A c \in Channel : \A i \in Linked(c) : hole[c][i] # frame[t].new
       /\ \A u \in Thread : frame[u].pc \in Fresh /\ frame[u].new = frame[t].new => u = t

(* Nobody runs before it is forked, and newChan is over.                   *)
Forked ==
  \A t \in Thread :
    /\ frame[t].pc \notin {"new_read", "new_write"}
    /\ state[t] = "unborn" => frame[t].pc = "idle"
    /\ frame[t].pc \in Fresh => nsent[t] > 0

RunInv(hole) ==
  /\ Suspended /\ Forked /\ Locks
  /\ EndsHold(hole) /\ ThreadsHold(hole)
  /\ ChainsHold(hole) /\ HolesApart(hole) /\ NewHoles(hole)

(* While newChan runs, the main thread is alone.                           *)
ReadMade(c) == \/ c < frame[Main].ch
               \/ frame[Main].pc = "new_write" /\ c = frame[Main].ch
StartInv(hole) ==
  /\ \A t \in Thread : redex[t].prim = "none"
  /\ \A t \in Thread \ {Main} : state[t] = "unborn" /\ frame[t].pc = "idle"
  /\ \A h \in Hole : data[h] = NIL
  /\ frame[Main].pc = "new_write" => frame[Main].end = hole[frame[Main].ch][1]
  /\ \A c \in Channel :
       /\ sent[c] = <<>> /\ got[c] = <<>>
       /\ data[Rd[c]] = IF ReadMade(c) THEN hole[c][1] ELSE NIL
       /\ data[Wr[c]] = IF c < frame[Main].ch THEN hole[c][1] ELSE NIL
       /\ ReadMade(c) => /\ hole[c][1] \in used
                         /\ \A d \in Channel : ReadMade(d) /\ hole[d][1] = hole[c][1] => d = c

HoleMap    == [Channel -> [Nat -> MVar]]
InvOf(hole) == IF Starting THEN StartInv(hole) ELSE RunInv(hole)
ChanInv    == RtsInv /\ ChanTypeOK /\ \E hole \in HoleMap : InvOf(hole)

FrameSet == [pc : Pcs, ch : Channel, sel : BOOLEAN, end : Hole \cup {NIL},
             new : Hole \cup {NIL}, item : ChItem \cup {NIL}]

(* What the lemmas below assume of the state before a step, once newChan   *)
(* is over.                                                                *)
Before(hole) ==
  /\ RtsInv /\ ChanTypeOK /\ hole \in HoleMap /\ RunInv(hole)

----------------------------------------------------------------------------
LEMMA Names ==
  /\ NIL \notin Value /\ NIL \notin MVar /\ NIL \notin Hole /\ NIL \notin ChItem
  /\ Hole \subseteq MVar /\ Hole \subseteq Value /\ ChItem \subseteq Value
  /\ \A h \in Hole : h \notin ChItem
  /\ NChan \in Nat \ {0} /\ 1 \in Channel /\ Channel \subseteq Nat
  /\ \A c \in Channel : Rd[c] \in MVar \ Hole /\ Wr[c] \in MVar \ Hole
  /\ \A c, d \in Channel : /\ Rd[c] # Wr[d] /\ Wr[d] # Rd[c]
                           /\ Rd[c] = Rd[d] => c = d
                           /\ Wr[c] = Wr[d] => c = d
BY ChanAssumption, ValueAssumption DEF Channel

LEMMA TwoEnds ==
  ASSUME NEW c \in Channel, NEW d \in Channel
  PROVE  /\ Rd[c] \in MVar /\ Wr[c] \in MVar /\ Rd[c] \notin Hole /\ Wr[c] \notin Hole
         /\ Rd[c] # Wr[d] /\ Wr[c] # Rd[d]
         /\ c # d => Rd[c] # Rd[d] /\ Wr[c] # Wr[d]
BY ChanAssumption

LEMMA Types ==
  ASSUME RtsInv, ChanTypeOK
  PROVE  /\ data \in [MVar -> Value \cup {NIL}] /\ mval \in [Thread -> Value \cup {NIL}]
         /\ redex \in [Thread -> Redex] /\ frame \in [Thread -> FrameSet]
         /\ state \in [Thread -> State]
         /\ used \subseteq Hole /\ nsent \in [Thread -> Nat]
         /\ sent \in [Channel -> Seq(Msg)] /\ got \in [Channel -> Seq(Msg)]
         /\ \A c \in Channel : NSent(c) \in Nat /\ NGot(c) \in Nat
         /\ \A t \in Thread : frame[t] \in FrameSet /\ frame[t].ch \in Channel
<1>1. /\ sent \in [Channel -> Seq(Msg)] /\ got \in [Channel -> Seq(Msg)]
  BY DEF ChanTypeOK
<1>2. \A c \in Channel : NSent(c) \in Nat /\ NGot(c) \in Nat
  BY <1>1, LenProperties DEF NSent, NGot
<1>3. nsent \in [Thread -> Nat]
  BY ChanAssumption DEF ChanTypeOK
<1>4. frame \in [Thread -> FrameSet] /\ \A t \in Thread : frame[t] \in FrameSet /\ frame[t].ch \in Channel
  BY DEF ChanTypeOK, FrameSet
<1>5. QED
  BY <1>1, <1>2, <1>3, <1>4 DEF RtsInv, TypeOK, ChanTypeOK

(* A thread with a stash is suspended in the take that its frame is at.    *)
LEMMA StashFacts ==
  ASSUME RtsInv, ChanTypeOK, Suspended, NEW t \in Thread, mval[t] # NIL
  PROVE  /\ redex[t].prim = "take" /\ frame[t].pc \in TakePcs
         /\ redex[t].mv = Wanted(frame[t])
BY DEF RtsInv, StashIsForTake, Suspended

(* ---- Steps that move no end and no message. --------------------------- *)

LEMMA QuietKeeps ==
  ASSUME NEW hole, Before(hole), Cur \in Thread, NEW g \in FrameSet, NEW r,
         state[Cur] # "unborn", mval[Cur] = NIL,
         UNCHANGED <<data, mval, sent, got>>,
         frame' = [frame EXCEPT ![Cur] = g], Steps(r),
         \/ r.prim = "none"
         \/ r.prim = "yield" /\ g.pc = "sel_yield"
         \/ r.prim = "delay" /\ g.pc = "sel_delay"
         \/ r.prim = "take" /\ g.pc \in TakePcs /\ r.mv = Wanted(g),
         \A t \in Thread : state'[t] = "unborn" => state[t] = "unborn",
         \/ g = frame[Cur] /\ UNCHANGED <<used, nsent>>
         \/ /\ frame[Cur].pc \notin WrPcs \cup RdPcs \cup Fresh
            /\ g.pc \notin WrPcs \cup RdPcs \cup Fresh \cup {"new_read", "new_write"}
            /\ UNCHANGED <<used, nsent>>
         \/ /\ frame[Cur].pc = "try_item" /\ g.pc = "try_nothing"
            /\ g.ch = frame[Cur].ch /\ g.end = frame[Cur].end
            /\ UNCHANGED <<used, nsent>>
         \/ /\ frame[Cur].pc \notin WrPcs \cup RdPcs \cup Fresh
            /\ g.pc = "send_take" /\ g.new \in Hole \ used
            /\ used' = used \cup {g.new}
            /\ nsent' = [nsent EXCEPT ![Cur] = @ + 1]
  PROVE  RunInv(hole)'
<1> USE Names, Types DEF Before, RunInv, Steps
<1>1. \A c \in Channel : NSent(c)' = NSent(c) /\ NGot(c)' = NGot(c)
  BY DEF NSent, NGot
<1>2. \A c \in Channel : Linked(c)' = Linked(c) /\ Last(hole, c)' = Last(hole, c) /\ First(hole, c)' = First(hole, c)
  BY <1>1 DEF Linked, Last, First
<1>3. /\ \A t \in Thread \ {Cur} : frame'[t] = frame[t] /\ redex'[t] = redex[t]
      /\ frame'[Cur] = g /\ redex'[Cur] = r
  OBVIOUS
<1>4. Suspended'
  BY <1>3 DEF Suspended
<1>5. Forked'
  BY <1>3, SMTT(20) DEF Forked, Fresh, WrPcs, RdPcs
<1>6. Locks'
  <2>1. ASSUME NEW m, NEW pcs, pcs \in {WrPcs, RdPcs}, NEW t \in Thread
        PROVE  Has(t, m, pcs)' <=> Has(t, m, pcs)
    <3>1. CASE t = Cur
      BY <1>3, <2>1, <3>1 DEF Has, Stashed, Inside, WrPcs, RdPcs
    <3>2. CASE t # Cur
      BY <1>3, <2>1, <3>2 DEF Has, Stashed, Inside
    <3>3. QED BY <3>1, <3>2
  <2>2. QED BY <2>1 DEF Locks, Lock
<1>7. EndsHold(hole)'
  BY <1>2 DEF EndsHold
<1>8. ThreadsHold(hole)'
  <2>1. SUFFICES ASSUME NEW t \in Thread PROVE Holds(hole, t)'
    BY DEF ThreadsHold
  <2>2. Holds(hole, t)
    BY DEF ThreadsHold
  <2>3. CASE t # Cur \/ g = frame[Cur]
    <3>1. frame'[t] = frame[t] /\ mval'[t] = mval[t] /\ data' = data /\ frame[t].ch \in Channel
      BY <1>3, <2>3
    <3>2. sent' = sent /\ got' = got
      OBVIOUS
    <3>3. QED BY <2>2, <3>1, <3>2 DEF Holds, Item, First, Last, NSent, NGot
  <2>4. CASE t = Cur /\ g # frame[Cur]
    <3>1. frame'[t] = g /\ mval'[t] = NIL /\ frame[t].ch \in Channel
      BY <1>3, <2>4
    <3>2. CASE frame[t].pc = "try_item" /\ g.pc = "try_nothing" /\ g.ch = frame[t].ch /\ g.end = frame[t].end
      <4>1. g.end = First(hole, g.ch) /\ First(hole, g.ch)' = First(hole, g.ch)
        BY <1>2, <2>2, <3>1, <3>2 DEF Holds
      <4>2. QED BY <3>1, <3>2, <4>1 DEF Holds
    <3>3. CASE g.pc \notin WrPcs \cup RdPcs
      BY <3>1, <3>3 DEF Holds, WrPcs, RdPcs
    <3>4. QED BY <2>4, <3>2, <3>3 DEF Fresh, WrPcs, RdPcs
  <2>5. QED BY <2>3, <2>4
<1>9. ChainsHold(hole)'
  <2>1. \A c \in Channel : OnItsWay(c) => OnItsWay(c)'
    BY <1>3 DEF OnItsWay
  <2>2. QED BY <1>1, <1>2, <2>1 DEF ChainsHold, ChainHolds, Item
<1>10. HolesApart(hole)'
  <2>1. used \subseteq used'
    OBVIOUS
  <2>2. sent' = sent
    OBVIOUS
  <2>3. QED BY <2>1, <2>2 DEF HolesApart, Linked, NSent
<1>11. NewHoles(hole)'
  BY <1>2, <1>3, SMTT(30) DEF NewHoles, HolesApart, Fresh
<1>12. QED BY <1>4, <1>5, <1>6, <1>7, <1>8, <1>9, <1>10, <1>11

(* ---- What a take and a put do to a lock. ------------------------------ *)

(* The running thread enters: it gets the end.                             *)
LEMMA LockTaken ==
  ASSUME RtsInv, ChanTypeOK, NEW m \in MVar, NEW pcs, NEW v \in Value, NEW me \in Thread, me = Cur,
         Lock(m, pcs), Gets(m, v), Steps(NoRedex),
         ~Inside(me, m, pcs), Inside(me, m, pcs)',
         \A t \in Thread \ {me} : frame'[t] = frame[t]
  PROVE  Lock(m, pcs)'
<1> USE Names, Types DEF Steps
<1>1. \A t \in Thread \ {me} : Has(t, m, pcs)' <=> Has(t, m, pcs)
  BY DEF Gets, Has, Stashed, Inside
<1>2. Has(me, m, pcs)'
  BY DEF Has
<1>3. data'[m] = NIL /\ \A t \in Thread \ {me} : ~Has(t, m, pcs)
  <2>1. CASE mval[Cur] = v /\ redex[Cur] = Pending("take", m, NIL) /\ data' = data
    <3>1. Has(me, m, pcs)
      BY <2>1 DEF Has, Stashed, Pending
    <3>2. QED BY <2>1, <3>1 DEF Lock
  <2>2. CASE data[m] = v /\ data' = [data EXCEPT ![m] = NIL]
    BY <2>2 DEF Lock
  <2>3. QED BY <2>1, <2>2 DEF Gets
<1>4. QED BY <1>1, <1>2, <1>3 DEF Lock

(* It leaves: it puts the end back, or into the hands of the next one.     *)
LEMMA LockPut ==
  ASSUME RtsInv, ChanTypeOK, NEW m \in MVar, NEW pcs, NEW v \in Value, NEW me \in Thread, me = Cur,
         Lock(m, pcs), Gives(m, v), Steps(NoRedex), mval[Cur] = NIL,
         Inside(me, m, pcs), ~Inside(me, m, pcs)',
         \A t \in Thread \ {me} : frame'[t] = frame[t]
  PROVE  Lock(m, pcs)'
<1> USE Names, Types DEF Steps
<1>1. data[m] = NIL /\ \A t \in Thread \ {me} : ~Has(t, m, pcs)
  BY DEF Lock, Has
<1>2. CASE data' = [data EXCEPT ![m] = v] /\ mval' = mval
  <2>1. \A t \in Thread : ~Has(t, m, pcs)'
    BY <1>1, <1>2 DEF Has, Stashed, Inside
  <2>2. QED BY <1>2, <2>1 DEF Lock
<1>3. ASSUME NEW t \in Thread, HandsTo(t, m, v)
      PROVE  Lock(m, pcs)'
  <2>1. Has(t, m, pcs)' /\ \A u \in Thread \ {t} : ~Has(u, m, pcs)'
    BY <1>1, <1>3 DEF Has, Stashed, Inside, HandsTo
  <2>2. QED BY <1>1, <1>3, <2>1 DEF Lock, HandsTo
<1>4. QED BY <1>2, <1>3 DEF Gives

(* A take or a put on another MVar, by a thread that stays where it is.    *)
LEMMA LockOther ==
  ASSUME RtsInv, ChanTypeOK, NEW m \in MVar, NEW n \in MVar, m # n, NEW pcs, NEW v \in Value,
         NEW me \in Thread, me = Cur, Lock(m, pcs), Steps(NoRedex),
         Gets(n, v) \/ (Gives(n, v) /\ mval[Cur] = NIL),
         Inside(me, m, pcs)' <=> Inside(me, m, pcs),
         \A t \in Thread \ {me} : frame'[t] = frame[t]
  PROVE  Lock(m, pcs)'
<1> USE Names, Types DEF Steps
<1>1. ASSUME NEW t \in Thread PROVE Inside(t, m, pcs)' <=> Inside(t, m, pcs)
  BY DEF Inside
<1>2. ASSUME NEW t \in Thread PROVE Stashed(t, m)' <=> Stashed(t, m)
  <2>1. CASE Gets(n, v)
    BY <2>1 DEF Stashed, Gets, Pending
  <2>2. CASE Gives(n, v) /\ mval[Cur] = NIL
    BY <2>2 DEF Stashed, Gives, HandsTo
  <2>3. QED BY <2>1, <2>2
<1>3. data'[m] = data[m]
  BY DEF Gets, Gives, HandsTo
<1>4. QED BY <1>1, <1>2, <1>3 DEF Lock, Has

(* ---- Steps that move an end and touch no hole. ------------------------ *)

LEMMA SameHolesApart ==
  ASSUME NEW hole, sent' = sent, used \subseteq used', HolesApart(hole)
  PROVE  HolesApart(hole)'
BY DEF HolesApart, Linked, NSent

LEMMA SameNewHoles ==
  ASSUME NEW hole, used \subseteq Hole, sent' = sent, used' = used, NewHoles(hole),
         \A h \in Hole : data'[h] \in {NIL, data[h]},
         \A t \in Thread : frame'[t].pc \in Fresh =>
           frame[t].pc \in Fresh /\ frame'[t].new = frame[t].new
  PROVE  NewHoles(hole)'
<1>1. \A h \in Hole \ used : data'[h] = NIL
  BY DEF NewHoles
<1>2. ASSUME NEW t \in Thread, frame'[t].pc \in Fresh
      PROVE  /\ frame'[t].new \in used /\ data'[frame'[t].new] = NIL
             /\ \A c \in Channel : \A i \in Linked(c) : hole[c][i] # frame'[t].new
             /\ \A u \in Thread : frame'[u].pc \in Fresh /\ frame'[u].new = frame'[t].new => u = t
  BY <1>2 DEF NewHoles
<1>3. QED BY <1>1, <1>2 DEF NewHoles, Linked, NSent

LEMMA SameChains ==
  ASSUME NEW hole, used \subseteq Hole, sent' = sent, got' = got, HolesApart(hole), ChainsHold(hole),
         \A c \in Channel : NSent(c) \in Nat,
         \A h \in Hole : data'[h] = data[h],
         \A t \in Thread : frame[t].pc = "recv_item" /\ mval[t] # NIL =>
           frame'[t].pc = "recv_item" /\ frame'[t].ch = frame[t].ch /\ mval'[t] # NIL
  PROVE  ChainsHold(hole)'
<1>1. SUFFICES ASSUME NEW c \in Channel PROVE ChainHolds(hole, c)'
  BY DEF ChainsHold
<1>2. \A i \in Linked(c) : data'[hole[c][i]] = data[hole[c][i]]
  BY DEF HolesApart
<1>3. OnItsWay(c) => OnItsWay(c)'
  BY DEF OnItsWay
<1>4. ChainHolds(hole, c) /\ NSent(c) + 1 \in Linked(c)
  BY DEF ChainsHold, Linked
<1>5. QED
  BY <1>2, <1>3, <1>4 DEF ChainHolds, Linked, Last, Item, NSent, NGot

LEMMA HolesKept ==
  ASSUME NEW hole, Before(hole), UNCHANGED <<sent, got, used>>,
         \A h \in Hole : data'[h] = data[h],
         \A t \in Thread : frame'[t].pc \in Fresh =>
           frame[t].pc \in Fresh /\ frame'[t].new = frame[t].new,
         \A t \in Thread : frame[t].pc = "recv_item" /\ mval[t] # NIL =>
           frame'[t].pc = "recv_item" /\ frame'[t].ch = frame[t].ch /\ mval'[t] # NIL
  PROVE  ChainsHold(hole)' /\ HolesApart(hole)' /\ NewHoles(hole)'
<1>1. sent' = sent /\ got' = got /\ used' = used /\ used \subseteq used'
  OBVIOUS
<1>2. /\ used \subseteq Hole /\ \A c \in Channel : NSent(c) \in Nat
      /\ HolesApart(hole) /\ NewHoles(hole) /\ ChainsHold(hole)
  BY Types DEF Before, RunInv
<1>3. HolesApart(hole)'
  BY <1>1, <1>2, SameHolesApart
<1>4. NewHoles(hole)'
  BY <1>1, <1>2, SameNewHoles
<1>5. ChainsHold(hole)'
  BY <1>1, <1>2, SameChains
<1>6. QED BY <1>3, <1>4, <1>5

(* ---- Steps that move an end. ------------------------------------------ *)

(* What is moved is the end it should be.                                  *)
RightEnd(hole, n, v) ==
  \A c \in Channel : /\ n = Wr[c] => v = Last(hole, c)
                     /\ n = Rd[c] => v = First(hole, c)

(* The running thread gets v from MVar n, or gives it, and goes on at g.   *)
Moves(n, v, g) ==
  /\ Steps(NoRedex) /\ frame' = [frame EXCEPT ![Cur] = g]
  /\ Gets(n, v) \/ (Gives(n, v) /\ mval[Cur] = NIL)
  /\ state[Cur] # "unborn" /\ \A t \in Thread : KeptOrWoken(t)

LEMMA MovesFacts ==
  ASSUME RtsInv, ChanTypeOK, NEW n \in MVar, NEW v \in Value, NEW g \in FrameSet,
         NEW me \in Thread, me = Cur, Moves(n, v, g)
  PROVE  /\ frame'[me] = g /\ redex'[me] = NoRedex
         /\ \A t \in Thread \ {me} : frame'[t] = frame[t] /\ redex'[t] = redex[t]
         /\ \A k \in MVar \ {n} : data'[k] = data[k]
         /\ data'[n] \in {NIL, v, data[n]}
         /\ \A t \in Thread \ {me} : mval'[t] = mval[t] \/ HandsTo(t, n, v)
         /\ \A t \in Thread : state'[t] = "unborn" => state[t] = "unborn" /\ t # me
<1> USE Types DEF Moves
<1>1. frame'[me] = g /\ redex'[me] = NoRedex
  BY DEF Steps
<1>2. \A t \in Thread \ {me} : frame'[t] = frame[t] /\ redex'[t] = redex[t]
  BY DEF Steps
<1>3. CASE Gets(n, v)
  <2>1. \A t \in Thread \ {me} : mval'[t] = mval[t]
    BY <1>3 DEF Gets
  <2>2. (\A k \in MVar \ {n} : data'[k] = data[k]) /\ data'[n] \in {NIL, v, data[n]}
    BY <1>3 DEF Gets
  <2>3. QED BY <1>1, <1>2, <1>3, <2>1, <2>2 DEF KeptOrWoken
<1>4. CASE Gives(n, v) /\ mval[Cur] = NIL
  <2>1. \A t \in Thread \ {me} : mval'[t] = mval[t] \/ HandsTo(t, n, v)
    BY <1>4 DEF Gives, HandsTo
  <2>2. (\A k \in MVar \ {n} : data'[k] = data[k]) /\ data'[n] \in {NIL, v, data[n]}
    BY <1>4 DEF Gives, HandsTo
  <2>3. QED BY <1>1, <1>2, <2>1, <2>2 DEF KeptOrWoken
<1>5. QED BY <1>3, <1>4

LEMMA OthersHold ==
  ASSUME NEW hole, Before(hole), NEW n \in MVar \ Hole, NEW v \in Value, NEW g \in FrameSet,
         NEW me \in Thread, me = Cur, Moves(n, v, g), RightEnd(hole, n, v),
         UNCHANGED <<sent, got>>, NEW t \in Thread, t # me
  PROVE  Holds(hole, t)'
<1>1. /\ frame'[t] = frame[t] /\ \A k \in MVar \ {n} : data'[k] = data[k]
      /\ mval'[t] = mval[t] \/ HandsTo(t, n, v)
  BY MovesFacts DEF Before
<1>2. /\ sent' = sent /\ got' = got /\ Holds(hole, t)
      /\ frame[t].ch \in Channel
  BY Types DEF Before, RunInv, ThreadsHold
<1>3. frame[t].pc = "recv_item" => frame[t].end \in MVar \ {n}
  <2>1. ASSUME frame[t].pc = "recv_item" PROVE frame[t].end = First(hole, frame[t].ch)
    BY <1>2, <2>1 DEF Holds
  <2>2. NGot(frame[t].ch) + 1 \in Linked(frame[t].ch)
    BY <1>2, Types DEF Before, RunInv, ChainsHold, ChainHolds, Linked
  <2>3. First(hole, frame[t].ch) \in Hole
    BY <1>2, <2>2, Types DEF Before, RunInv, HolesApart, First
  <2>4. QED BY <2>1, <2>3, Names
<1>4. CASE mval'[t] = mval[t]
  BY <1>1, <1>2, <1>3, <1>4 DEF Holds, Item, First, Last, NSent, NGot
<1>5. CASE HandsTo(t, n, v)
  <2>1. redex[t].prim = "take" /\ redex[t].mv = n /\ mval'[t] = v
    BY <1>5, Types DEF HandsTo, Before
  <2>2. frame[t].pc \in TakePcs /\ n = Wanted(frame[t])
    BY <2>1 DEF Before, RunInv, Suspended
  <2>3. frame[t].pc # "recv_item"
    BY <1>3, <2>2 DEF Wanted
  <2>4. /\ frame[t].pc = "send_take" => v = Last(hole, frame[t].ch)
        /\ frame[t].pc \in {"recv_take", "try_take"} => v = First(hole, frame[t].ch)
    BY <1>2, <2>2 DEF RightEnd, Wanted, TakePcs
  <2>5. QED BY <1>1, <1>2, <2>1, <2>2, <2>3, <2>4 DEF Holds, TakePcs, First, Last, NSent, NGot
<1>6. QED BY <1>1, <1>4, <1>5

LEMMA EndMoves ==
  ASSUME NEW hole, Before(hole), NEW n \in MVar \ Hole, NEW v \in Value, NEW g \in FrameSet,
         NEW me \in Thread, me = Cur, Moves(n, v, g), RightEnd(hole, n, v), UNCHANGED hist,
         frame[me].pc # "recv_item", g.pc \notin {"new_read", "new_write"},
         g.pc \in Fresh => frame[me].pc \in Fresh /\ g.new = frame[me].new,
         Holds(hole, me)', Locks'
  PROVE  RunInv(hole)'
<1>1. /\ frame'[me] = g /\ redex'[me] = NoRedex
      /\ \A t \in Thread \ {me} : frame'[t] = frame[t] /\ redex'[t] = redex[t]
      /\ \A k \in MVar \ {n} : data'[k] = data[k]
      /\ data'[n] \in {NIL, v, data[n]}
      /\ \A t \in Thread \ {me} : mval'[t] = mval[t] \/ HandsTo(t, n, v)
      /\ \A t \in Thread : state'[t] = "unborn" => state[t] = "unborn" /\ t # me
  <2>1. RtsInv /\ ChanTypeOK /\ n \in MVar
    BY DEF Before
  <2>2. QED BY <2>1, MovesFacts
<1>2. used' = used /\ nsent' = nsent /\ sent' = sent /\ got' = got
  BY DEF hist
<1>3. Suspended /\ Forked /\ EndsHold(hole)
  BY DEF Before, RunInv
<1>4. Suspended'
  BY <1>1, <1>3 DEF Suspended, NoRedex, Pending
<1>5. Forked'
  BY <1>1, <1>2, <1>3 DEF Forked, Fresh
<1>6. EndsHold(hole)'
  BY <1>1, <1>2, <1>3, Names DEF EndsHold, RightEnd, First, Last, NSent, NGot
<1>7. ThreadsHold(hole)'
  BY <1>2, OthersHold DEF ThreadsHold
<1>8. /\ \A h \in Hole : data'[h] = data[h]
      /\ \A t \in Thread : frame'[t].pc \in Fresh =>
           frame[t].pc \in Fresh /\ frame'[t].new = frame[t].new
  BY <1>1, Names
<1>9. \A t \in Thread : frame[t].pc = "recv_item" /\ mval[t] # NIL =>
        frame'[t].pc = "recv_item" /\ frame'[t].ch = frame[t].ch /\ mval'[t] # NIL
  BY <1>1 DEF HandsTo
<1>10. ChainsHold(hole)' /\ HolesApart(hole)' /\ NewHoles(hole)'
  BY <1>2, <1>8, <1>9, HolesKept
<1>11. QED BY <1>4, <1>5, <1>6, <1>7, <1>10 DEF RunInv

(* The thread goes into the part that its end protects, or out of it.      *)
InOrOut(n, v, g, pcs) ==
  \/ Gets(n, v) /\ frame[Cur].pc \notin pcs /\ g.pc \in pcs /\ g.ch = frame[Cur].ch
  \/ Gives(n, v) /\ mval[Cur] = NIL /\ frame[Cur].pc \in pcs /\ g.pc \notin pcs

LEMMA WrMoves ==
  ASSUME RtsInv, ChanTypeOK, Locks, NEW me \in Thread, me = Cur, NEW v \in Value, NEW g \in FrameSet,
         NEW c \in Channel, c = frame[me].ch, Moves(Wr[c], v, g), InOrOut(Wr[c], v, g, WrPcs),
         frame[me].pc \notin RdPcs, g.pc \notin RdPcs
  PROVE  Locks'
<1>1. Wr[c] \in MVar /\ g.ch \in Channel
  BY Names DEF FrameSet
<1>2. /\ frame'[me] = g /\ \A t \in Thread \ {me} : frame'[t] = frame[t]
  BY <1>1, MovesFacts
<1>3. SUFFICES ASSUME NEW d \in Channel PROVE Lock(Wr[d], WrPcs)' /\ Lock(Rd[d], RdPcs)'
  BY DEF Locks
<1>4. /\ Lock(Wr[d], WrPcs) /\ Lock(Rd[d], RdPcs) /\ Rd[d] \in MVar /\ Wr[d] \in MVar /\ Rd[d] # Wr[c]
      /\ Steps(NoRedex) /\ (Gets(Wr[c], v) \/ (Gives(Wr[c], v) /\ mval[Cur] = NIL))
  <2>1. Lock(Wr[d], WrPcs) /\ Lock(Rd[d], RdPcs)
    BY DEF Locks
  <2>2. Rd[d] \in MVar /\ Wr[d] \in MVar /\ Rd[d] # Wr[c]
    BY TwoEnds
  <2>3. Steps(NoRedex) /\ (Gets(Wr[c], v) \/ (Gives(Wr[c], v) /\ mval[Cur] = NIL))
    BY DEF Moves
  <2>4. QED BY <2>1, <2>2, <2>3
<1>5. Lock(Rd[d], RdPcs)'
  <2>1. Inside(me, Rd[d], RdPcs)' <=> Inside(me, Rd[d], RdPcs)
    BY <1>2 DEF Inside
  <2>2. QED BY <1>1, <1>2, <1>4, <2>1, LockOther
<1>6. CASE d = c
  <2>1. CASE Gets(Wr[c], v) /\ frame[me].pc \notin WrPcs /\ g.pc \in WrPcs /\ g.ch = c
    <3>1. ~Inside(me, Wr[c], WrPcs) /\ Inside(me, Wr[c], WrPcs)'
      BY <1>2, <2>1 DEF Inside
    <3>2. QED BY <1>1, <1>2, <1>4, <1>6, <2>1, <3>1, LockTaken, <1>5
  <2>2. CASE Gives(Wr[c], v) /\ mval[Cur] = NIL /\ frame[me].pc \in WrPcs /\ g.pc \notin WrPcs
    <3>1. Inside(me, Wr[c], WrPcs) /\ ~Inside(me, Wr[c], WrPcs)'
      BY <1>2, <2>2 DEF Inside
    <3>2. QED BY <1>1, <1>2, <1>4, <1>6, <2>2, <3>1, LockPut, <1>5
  <2>3. QED BY <2>1, <2>2 DEF InOrOut
<1>7. CASE d # c
  <2>1. Wr[d] # Wr[c] /\ Wr[d] # Rd[c] /\ Wr[d] # Rd[g.ch]
    BY <1>1, <1>7, TwoEnds
  <2>2. Inside(me, Wr[d], WrPcs)' <=> Inside(me, Wr[d], WrPcs)
    BY <1>2, <2>1 DEF Inside, InOrOut
  <2>3. QED BY <1>1, <1>2, <1>4, <2>1, <2>2, LockOther, <1>5
<1>8. QED BY <1>6, <1>7

LEMMA RdMoves ==
  ASSUME RtsInv, ChanTypeOK, Locks, NEW me \in Thread, me = Cur, NEW v \in Value, NEW g \in FrameSet,
         NEW c \in Channel, c = frame[me].ch, Moves(Rd[c], v, g), InOrOut(Rd[c], v, g, RdPcs),
         frame[me].pc \notin WrPcs, g.pc \notin WrPcs
  PROVE  Locks'
<1>1. Rd[c] \in MVar /\ g.ch \in Channel
  BY Names DEF FrameSet
<1>2. /\ frame'[me] = g /\ \A t \in Thread \ {me} : frame'[t] = frame[t]
  BY <1>1, MovesFacts
<1>3. SUFFICES ASSUME NEW d \in Channel PROVE Lock(Wr[d], WrPcs)' /\ Lock(Rd[d], RdPcs)'
  BY DEF Locks
<1>4. /\ Lock(Wr[d], WrPcs) /\ Lock(Rd[d], RdPcs) /\ Rd[d] \in MVar /\ Wr[d] \in MVar /\ Wr[d] # Rd[c]
      /\ Steps(NoRedex) /\ (Gets(Rd[c], v) \/ (Gives(Rd[c], v) /\ mval[Cur] = NIL))
  <2>1. Lock(Wr[d], WrPcs) /\ Lock(Rd[d], RdPcs)
    BY DEF Locks
  <2>2. Rd[d] \in MVar /\ Wr[d] \in MVar /\ Wr[d] # Rd[c]
    BY TwoEnds
  <2>3. Steps(NoRedex) /\ (Gets(Rd[c], v) \/ (Gives(Rd[c], v) /\ mval[Cur] = NIL))
    BY DEF Moves
  <2>4. QED BY <2>1, <2>2, <2>3
<1>5. Lock(Wr[d], WrPcs)'
  <2>1. Inside(me, Wr[d], WrPcs)' <=> Inside(me, Wr[d], WrPcs)
    BY <1>2 DEF Inside
  <2>2. QED BY <1>1, <1>2, <1>4, <2>1, LockOther
<1>6. CASE d = c
  <2>1. CASE Gets(Rd[c], v) /\ frame[me].pc \notin RdPcs /\ g.pc \in RdPcs /\ g.ch = c
    <3>1. ~Inside(me, Rd[c], RdPcs) /\ Inside(me, Rd[c], RdPcs)'
      BY <1>2, <2>1 DEF Inside
    <3>2. QED BY <1>1, <1>2, <1>4, <1>6, <2>1, <3>1, LockTaken, <1>5
  <2>2. CASE Gives(Rd[c], v) /\ mval[Cur] = NIL /\ frame[me].pc \in RdPcs /\ g.pc \notin RdPcs
    <3>1. Inside(me, Rd[c], RdPcs) /\ ~Inside(me, Rd[c], RdPcs)'
      BY <1>2, <2>2 DEF Inside
    <3>2. QED BY <1>1, <1>2, <1>4, <1>6, <2>2, <3>1, LockPut, <1>5
  <2>3. QED BY <2>1, <2>2 DEF InOrOut
<1>7. CASE d # c
  <2>1. Rd[d] # Rd[c] /\ Rd[d] # Wr[c] /\ Rd[d] # Wr[g.ch]
    BY <1>1, <1>7, TwoEnds
  <2>2. Inside(me, Rd[d], RdPcs)' <=> Inside(me, Rd[d], RdPcs)
    BY <1>2, <2>1 DEF Inside, InOrOut
  <2>3. QED BY <1>1, <1>2, <1>4, <2>1, <2>2, LockOther, <1>5
<1>8. QED BY <1>6, <1>7

LEMMA HoleFacts ==
  ASSUME NEW hole, Before(hole), NEW c \in Channel
  PROVE  /\ NGot(c) \in Nat /\ NSent(c) \in Nat /\ NGot(c) <= NSent(c)
         /\ NGot(c) + 1 \in Linked(c) /\ NSent(c) + 1 \in Linked(c)
         /\ First(hole, c) \in Hole /\ Last(hole, c) \in Hole
<1>1. NGot(c) \in Nat /\ NSent(c) \in Nat /\ NGot(c) <= NSent(c)
  BY Types DEF Before, RunInv, ChainsHold, ChainHolds
<1>2. NGot(c) + 1 \in Linked(c) /\ NSent(c) + 1 \in Linked(c)
  BY <1>1 DEF Linked
<1>3. HolesApart(hole) /\ used \subseteq Hole
  BY Types DEF Before, RunInv
<1>4. QED BY <1>1, <1>2, <1>3 DEF HolesApart, First, Last

(* What takeMVar and putMVar do, for a client of the channels.             *)
LEMMA TakeGets ==
  ASSUME RtsInv, NEW m \in MVar, NEW v, TakeMVar(m, v)
  PROVE  /\ Running /\ Cur \in Thread /\ v \in Value /\ Steps(NoRedex) /\ Gets(m, v)
         /\ state[Cur] # "unborn" /\ \A t \in Thread : KeptOrWoken(t)
<1>1. Running /\ Cur \in Thread /\ state[Cur] = "runnable"
  BY CurFacts DEF TakeMVar, Executes
<1>2. v \in Value
  BY <1>1 DEF TakeMVar, Taken, Available, RtsInv, TypeOK
<1>3. QED BY <1>1, <1>2, TakeEffect

LEMMA PutGives ==
  ASSUME NEW hole, Before(hole), OneTakeWaits, NEW m \in MVar, NEW v \in Value, PutMVar(m, v)
  PROVE  /\ Running /\ Cur \in Thread /\ Steps(NoRedex) /\ Gives(m, v) /\ mval[Cur] = NIL
         /\ state[Cur] # "unborn" /\ \A t \in Thread : KeptOrWoken(t)
<1>1. Running /\ Cur \in Thread /\ state[Cur] = "runnable" /\ redex[Cur].prim # "take"
  BY CurFacts DEF Before, PutMVar, Executes, NoRedex, Pending
<1>2. mval[Cur] = NIL
  BY <1>1 DEF Before, RtsInv, StashIsForTake
<1>3. RtsInv /\ OneTakeWaitsAt(m) /\ \A t \in Thread : redex[t].prim # "read"
  BY DEF Before, RunInv, Suspended, OneTakeWaits
<1>4. rd[m] = <<>>
  BY <1>3, NoReaders
<1>5. QED BY <1>1, <1>2, <1>3, <1>4, PutEffect

LEMMA GotFromStash ==      \* what a thread has just got is not in its stash
  ASSUME RtsInv, NEW n \in MVar, NEW v, Gets(n, v), Cur \in Thread
  PROVE  mval'[Cur] = NIL
BY DEF Gets, RtsInv, TypeOK

LEMMA SendTakesKeeps ==
  ASSUME NEW hole, Before(hole), At("send_take"), NEW v, TakeMVar(Wr[Me.ch], v),
         Becomes([Me EXCEPT !.pc = "send_link", !.end = v]), UNCHANGED hist
  PROVE  RunInv(hole)' /\ v = Last(hole, Me.ch)
<1>1. RtsInv /\ ChanTypeOK /\ Locks /\ EndsHold(hole) /\ ThreadsHold(hole)
  BY DEF Before, RunInv
<1>2. Running /\ Cur \in Thread
  BY <1>1, CurFacts DEF At
<1>3. PICK me \in Thread : me = Cur
  BY <1>2
<1>4. PICK c \in Channel : c = frame[me].ch
  BY <1>1, Types
<1>5. /\ Wr[c] \in MVar /\ Wr[c] \in MVar \ Hole
      /\ frame[me].pc = "send_take" /\ frame[me] \in FrameSet
  BY <1>1, <1>3, TwoEnds, Types DEF At, Me
<1>6. /\ v \in Value /\ Steps(NoRedex) /\ Gets(Wr[c], v)
      /\ state[Cur] # "unborn" /\ \A t \in Thread : KeptOrWoken(t)
  <2>1. TakeMVar(Wr[c], v)
    BY <1>3, <1>4 DEF Me
  <2>2. QED BY <1>1, <1>5, <2>1, TakeGets
<1>7. v = Last(hole, c) /\ v \in Hole
  <2>1. Holds(hole, me) /\ data[Wr[c]] \in {NIL, Last(hole, c)} /\ v # NIL
    BY <1>1, <1>6, Names DEF EndsHold, ThreadsHold
  <2>2. v = Last(hole, c)
    BY <1>3, <1>4, <1>5, <1>6, <2>1 DEF Gets, Holds
  <2>3. QED BY <2>2, HoleFacts
<1>8. PICK g \in FrameSet : /\ g.pc = "send_link" /\ g.end = v /\ g.ch = c /\ g.new = frame[me].new
                            /\ frame' = [frame EXCEPT ![Cur] = g]
  <2> DEFINE g == [frame[me] EXCEPT !.pc = "send_link", !.end = v]
  <2>1. /\ g \in FrameSet /\ g.pc = "send_link" /\ g.end = v /\ g.ch = c /\ g.new = frame[me].new
    BY <1>4, <1>5, <1>7 DEF FrameSet, Pcs
  <2>2. frame' = [frame EXCEPT ![Cur] = g]
    BY <1>3 DEF Becomes, Me
  <2>3. QED BY <2>1, <2>2
<1>9. Moves(Wr[c], v, g)
  BY <1>6, <1>8 DEF Moves
<1>10. RightEnd(hole, Wr[c], v)
  BY <1>7, TwoEnds DEF RightEnd
<1>11. Locks'
  <2>1. InOrOut(Wr[c], v, g, WrPcs) /\ frame[me].pc \notin RdPcs /\ g.pc \notin RdPcs
    BY <1>3, <1>4, <1>5, <1>6, <1>8 DEF InOrOut, WrPcs, RdPcs
  <2>2. QED BY <1>1, <1>3, <1>4, <1>6, <1>9, <2>1, WrMoves
<1>12. Holds(hole, me)'
  <2>1. frame'[me] = g /\ sent' = sent
    BY <1>1, <1>3, <1>8, Types DEF hist
  <2>2. QED BY <1>7, <1>8, <2>1 DEF Holds, Last, NSent
<1>13. RunInv(hole)'
  BY <1>3, <1>5, <1>6, <1>8, <1>9, <1>10, <1>11, <1>12, EndMoves DEF Fresh
<1>14. QED BY <1>3, <1>4, <1>7, <1>13 DEF Me

(* recv and tryRecv get the read end in the same way.                      *)
LEMMA ReadTakesKeeps ==
  ASSUME NEW hole, Before(hole), NEW p \in {"recv_take", "try_take"}, NEW q \in {"recv_item", "try_item"},
         At(p), NEW v, TakeMVar(Rd[Me.ch], v),
         Becomes([Me EXCEPT !.pc = q, !.end = v]), UNCHANGED hist
  PROVE  RunInv(hole)' /\ v = First(hole, Me.ch)
<1>1. RtsInv /\ ChanTypeOK /\ Locks /\ EndsHold(hole) /\ ThreadsHold(hole)
  BY DEF Before, RunInv
<1>2. Running /\ Cur \in Thread
  BY <1>1, CurFacts DEF At
<1>3. PICK me \in Thread : me = Cur
  BY <1>2
<1>4. PICK c \in Channel : c = frame[me].ch
  BY <1>1, Types
<1>5. /\ Rd[c] \in MVar /\ Rd[c] \in MVar \ Hole
      /\ frame[me].pc = p /\ frame[me] \in FrameSet
      /\ p \in {"recv_take", "try_take"} /\ q \in {"recv_item", "try_item"}
  BY <1>1, <1>3, TwoEnds, Types DEF At, Me
<1>6. /\ v \in Value /\ Steps(NoRedex) /\ Gets(Rd[c], v)
      /\ state[Cur] # "unborn" /\ \A t \in Thread : KeptOrWoken(t)
  <2>1. TakeMVar(Rd[c], v)
    BY <1>3, <1>4 DEF Me
  <2>2. QED BY <1>1, <1>5, <2>1, TakeGets
<1>7. v = First(hole, c) /\ v \in Hole
  <2>1. Holds(hole, me) /\ data[Rd[c]] \in {NIL, First(hole, c)} /\ v # NIL
    BY <1>1, <1>6, Names DEF EndsHold, ThreadsHold
  <2>2. v = First(hole, c)
    BY <1>3, <1>4, <1>5, <1>6, <2>1 DEF Gets, Holds
  <2>3. QED BY <2>2, HoleFacts
<1>8. PICK g \in FrameSet : /\ g.pc = q /\ g.end = v /\ g.ch = c
                            /\ frame' = [frame EXCEPT ![Cur] = g]
  <2> DEFINE g == [frame[me] EXCEPT !.pc = q, !.end = v]
  <2>1. /\ g \in FrameSet /\ g.pc = q /\ g.end = v /\ g.ch = c
    BY <1>4, <1>5, <1>7 DEF FrameSet, Pcs
  <2>2. frame' = [frame EXCEPT ![Cur] = g]
    BY <1>3 DEF Becomes, Me
  <2>3. QED BY <2>1, <2>2
<1>9. Moves(Rd[c], v, g)
  BY <1>6, <1>8 DEF Moves
<1>10. RightEnd(hole, Rd[c], v)
  BY <1>7, TwoEnds DEF RightEnd
<1>11. Locks'
  <2>1. InOrOut(Rd[c], v, g, RdPcs) /\ frame[me].pc \notin WrPcs /\ g.pc \notin WrPcs
    BY <1>3, <1>4, <1>5, <1>6, <1>8 DEF InOrOut, WrPcs, RdPcs
  <2>2. QED BY <1>1, <1>3, <1>4, <1>6, <1>9, <2>1, RdMoves
<1>12. Holds(hole, me)'
  <2>1. frame'[me] = g /\ got' = got /\ mval'[me] = NIL
    BY <1>1, <1>3, <1>5, <1>6, <1>8, Types, GotFromStash DEF hist
  <2>2. QED BY <1>5, <1>7, <1>8, <2>1 DEF Holds, First, NGot
<1>13. RunInv(hole)'
  BY <1>3, <1>5, <1>6, <1>8, <1>9, <1>10, <1>11, <1>12, EndMoves DEF Fresh
<1>14. QED BY <1>3, <1>4, <1>7, <1>13 DEF Me

LEMMA SendReleasesKeeps ==
  ASSUME NEW hole, Before(hole), OneTakeWaits, At("send_release"),
         PutMVar(Wr[Me.ch], Me.new), Becomes(Idle), UNCHANGED hist
  PROVE  RunInv(hole)' /\ Me.new = Last(hole, Me.ch)
<1>1. RtsInv /\ ChanTypeOK /\ Locks /\ ThreadsHold(hole)
  BY DEF Before, RunInv
<1>2. Running /\ Cur \in Thread
  BY <1>1, CurFacts DEF At
<1>3. PICK me \in Thread : me = Cur
  BY <1>2
<1>4. PICK c \in Channel : c = frame[me].ch
  BY <1>1, Types
<1>5. PICK v : v = frame[me].new
  OBVIOUS
<1>6. /\ Wr[c] \in MVar /\ Wr[c] \in MVar \ Hole
      /\ frame[me].pc = "send_release" /\ Idle \in FrameSet /\ Idle.pc = "idle"
  BY <1>1, <1>3, TwoEnds, Names DEF At, Me, Idle, Frame, FrameSet, Pcs
<1>7. v = Last(hole, c) /\ v \in Value
  BY <1>1, <1>4, <1>5, <1>6, HoleFacts, Names DEF ThreadsHold, Holds
<1>8. /\ Steps(NoRedex) /\ Gives(Wr[c], v) /\ mval[Cur] = NIL
      /\ state[Cur] # "unborn" /\ \A t \in Thread : KeptOrWoken(t)
  <2>1. PutMVar(Wr[c], v)
    BY <1>3, <1>4, <1>5 DEF Me
  <2>2. QED BY <1>6, <1>7, <2>1, PutGives
<1>9. Moves(Wr[c], v, Idle) /\ frame' = [frame EXCEPT ![Cur] = Idle]
  BY <1>8 DEF Moves, Becomes
<1>10. RightEnd(hole, Wr[c], v)
  BY <1>7, TwoEnds DEF RightEnd
<1>11. Locks'
  <2>1. InOrOut(Wr[c], v, Idle, WrPcs) /\ frame[me].pc \notin RdPcs /\ Idle.pc \notin RdPcs
    BY <1>3, <1>6, <1>8 DEF InOrOut, WrPcs, RdPcs
  <2>2. QED BY <1>1, <1>3, <1>4, <1>6, <1>7, <1>9, <2>1, WrMoves
<1>12. Holds(hole, me)'
  <2>1. frame'[me] = Idle
    BY <1>1, <1>3, <1>9, Types
  <2>2. QED BY <1>6, <2>1 DEF Holds
<1>13. RunInv(hole)'
  BY <1>3, <1>6, <1>7, <1>9, <1>10, <1>11, <1>12, EndMoves DEF Fresh
<1>14. QED BY <1>3, <1>4, <1>5, <1>7, <1>13 DEF Me

(* The read end is put back, with or without an item.                      *)
LEMMA ReadReleasesKeeps ==
  ASSUME NEW hole, Before(hole), OneTakeWaits, NEW p \in {"recv_release", "try_nothing"}, At(p),
         NEW v,
         \/ p = "recv_release" /\ v = Me.item.next
         \/ p = "try_nothing" /\ v = Me.end,
         PutMVar(Rd[Me.ch], v),
         NEW g \in FrameSet, g.pc \in {"idle", "try_take", "sel_yield"}, Becomes(g), UNCHANGED hist
  PROVE  RunInv(hole)' /\ v = First(hole, Me.ch)
<1>1. RtsInv /\ ChanTypeOK /\ Locks /\ ThreadsHold(hole)
  BY DEF Before, RunInv
<1>2. Running /\ Cur \in Thread
  BY <1>1, CurFacts DEF At
<1>3. PICK me \in Thread : me = Cur
  BY <1>2
<1>4. PICK c \in Channel : c = frame[me].ch
  BY <1>1, Types
<1>6. /\ Rd[c] \in MVar /\ Rd[c] \in MVar \ Hole /\ frame[me].pc = p
      /\ \/ p = "recv_release" /\ v = frame[me].item.next
         \/ p = "try_nothing" /\ v = frame[me].end
  BY <1>1, <1>3, TwoEnds, Names DEF At, Me
<1>7. v = First(hole, c) /\ v \in Value
  BY <1>1, <1>4, <1>6, HoleFacts, Names DEF ThreadsHold, Holds
<1>8. /\ Steps(NoRedex) /\ Gives(Rd[c], v) /\ mval[Cur] = NIL
      /\ state[Cur] # "unborn" /\ \A t \in Thread : KeptOrWoken(t)
  <2>1. PutMVar(Rd[c], v)
    BY <1>3, <1>4 DEF Me
  <2>2. QED BY <1>6, <1>7, <2>1, PutGives
<1>9. Moves(Rd[c], v, g) /\ frame' = [frame EXCEPT ![Cur] = g]
  BY <1>8 DEF Moves, Becomes
<1>10. RightEnd(hole, Rd[c], v)
  BY <1>7, TwoEnds DEF RightEnd
<1>11. Locks'
  <2>1. InOrOut(Rd[c], v, g, RdPcs) /\ frame[me].pc \notin WrPcs /\ g.pc \notin WrPcs
    BY <1>3, <1>6, <1>8 DEF InOrOut, WrPcs, RdPcs
  <2>2. QED BY <1>1, <1>3, <1>4, <1>6, <1>7, <1>9, <2>1, RdMoves
<1>12. Holds(hole, me)'
  <2>1. frame'[me] = g /\ mval'[me] = NIL
    BY <1>1, <1>3, <1>8, <1>9, Types DEF Gives, HandsTo
  <2>2. QED BY <2>1 DEF Holds
<1>13. RunInv(hole)'
  <2>1. frame[me].pc # "recv_item" /\ g.pc \notin {"new_read", "new_write"} /\ g.pc \notin Fresh
    BY <1>6 DEF Fresh
  <2>2. QED BY <1>3, <1>6, <1>7, <1>9, <1>10, <1>11, <1>12, <2>1, EndMoves
<1>14. QED BY <1>3, <1>4, <1>7, <1>13 DEF Me

(* ---- Steps that fill or empty a hole. --------------------------------- *)

(* No end moves, and its holder stays inside.                              *)
LEMMA HoleMovesLocks ==
  ASSUME RtsInv, ChanTypeOK, Locks, NEW n \in Hole, NEW v \in Value, NEW g \in FrameSet,
         NEW me \in Thread, me = Cur, Moves(n, v, g), g.ch = frame[me].ch,
         g.pc \in WrPcs <=> frame[me].pc \in WrPcs,
         g.pc \in RdPcs <=> frame[me].pc \in RdPcs
  PROVE  Locks'
<1>1. n \in MVar
  BY Names
<1>2. frame'[me] = g /\ \A t \in Thread \ {me} : frame'[t] = frame[t]
  BY <1>1, MovesFacts
<1>3. SUFFICES ASSUME NEW d \in Channel PROVE Lock(Wr[d], WrPcs)' /\ Lock(Rd[d], RdPcs)'
  BY DEF Locks
<1>4. Lock(Wr[d], WrPcs) /\ Lock(Rd[d], RdPcs)
  BY DEF Locks
<1>5. Rd[d] \in MVar /\ Wr[d] \in MVar /\ Rd[d] # n /\ Wr[d] # n
  BY TwoEnds
<1>6. Steps(NoRedex) /\ (Gets(n, v) \/ (Gives(n, v) /\ mval[Cur] = NIL))
  BY DEF Moves
<1>7. \A m : /\ Inside(me, m, WrPcs)' <=> Inside(me, m, WrPcs)
             /\ Inside(me, m, RdPcs)' <=> Inside(me, m, RdPcs)
  BY <1>2 DEF Inside
<1>8. Lock(Wr[d], WrPcs)'
  BY <1>1, <1>2, <1>4, <1>5, <1>6, <1>7, LockOther
<1>9. Lock(Rd[d], RdPcs)'
  BY <1>1, <1>2, <1>4, <1>5, <1>6, <1>7, LockOther
<1>10. QED BY <1>8, <1>9

(* Nobody else has the end that a thread is inside with.                   *)
LEMMA AloneInside ==
  ASSUME RtsInv, ChanTypeOK, Suspended, Locks,
         NEW me \in Thread, NEW t \in Thread, t # me, frame[t].ch = frame[me].ch
  PROVE  /\ frame[me].pc \in WrPcs =>
              /\ frame[t].pc \notin WrPcs /\ (frame[t].pc = "send_take" => mval[t] = NIL)
              /\ data[Wr[frame[me].ch]] = NIL
         /\ frame[me].pc \in RdPcs =>
              /\ frame[t].pc \notin RdPcs
              /\ (frame[t].pc \in {"recv_take", "try_take"} => mval[t] = NIL)
<1> DEFINE c == frame[me].ch
<1>1. c \in Channel /\ Lock(Wr[c], WrPcs) /\ Lock(Rd[c], RdPcs)
  BY Types DEF Locks
<1>2. mval[t] # NIL => redex[t].mv = Wanted(frame[t])
  BY StashFacts
<1>3. ASSUME frame[me].pc \in WrPcs
      PROVE  /\ frame[t].pc \notin WrPcs /\ (frame[t].pc = "send_take" => mval[t] = NIL)
             /\ data[Wr[c]] = NIL
  <2>1. Has(me, Wr[c], WrPcs)
    BY <1>3 DEF Has, Inside
  <2>2. ~Has(t, Wr[c], WrPcs) /\ data[Wr[c]] = NIL
    BY <1>1, <2>1 DEF Lock
  <2>3. QED BY <1>2, <2>2 DEF Has, Inside, Stashed, Wanted
<1>4. ASSUME frame[me].pc \in RdPcs
      PROVE  /\ frame[t].pc \notin RdPcs
             /\ (frame[t].pc \in {"recv_take", "try_take"} => mval[t] = NIL)
  <2>1. Has(me, Rd[c], RdPcs)
    BY <1>4 DEF Has, Inside
  <2>2. ~Has(t, Rd[c], RdPcs)
    BY <1>1, <2>1 DEF Lock
  <2>3. QED BY <1>2, <2>2 DEF Has, Inside, Stashed, Wanted
<1>5. QED BY <1>3, <1>4

LEMMA EndIsOut ==
  ASSUME RtsInv, ChanTypeOK, Locks, NEW me \in Thread
  PROVE  /\ frame[me].pc \in WrPcs => data[Wr[frame[me].ch]] = NIL
         /\ frame[me].pc \in RdPcs => data[Rd[frame[me].ch]] = NIL
BY Types DEF Locks, Lock, Has, Inside

(* A receiver takes its item, from the hole or from its stash.             *)
LEMMA ItemIs ==
  ASSUME NEW hole, Before(hole), NEW me \in Thread, me = Cur,
         frame[me].pc \in {"recv_item", "try_item"}, NEW c \in Channel, c = frame[me].ch,
         NEW v \in Value, Gets(frame[me].end, v)
  PROVE  /\ frame[me].end = First(hole, c) /\ First(hole, c) \in Hole
         /\ NGot(c) < NSent(c) /\ v = Item(hole, c, NGot(c) + 1)
         /\ v \in ChItem /\ v.val = sent[c][NGot(c) + 1] /\ v.next = hole[c][NGot(c) + 2]
         /\ \A k \in MVar : data'[k] = IF k = First(hole, c) THEN NIL ELSE data[k]
<1>1. /\ RtsInv /\ ChanTypeOK /\ Suspended /\ Holds(hole, me) /\ ChainHolds(hole, c)
      /\ HolesApart(hole) /\ used \subseteq Hole /\ sent \in [Channel -> Seq(Msg)]
      /\ data \in [MVar -> Value \cup {NIL}]
  BY Types DEF Before, RunInv, ThreadsHold, ChainsHold
<1>2. /\ frame[me].end = First(hole, c) /\ First(hole, c) \in Hole /\ First(hole, c) \in MVar
      /\ NGot(c) \in Nat /\ NSent(c) \in Nat /\ NGot(c) <= NSent(c) /\ v # NIL
  BY <1>1, HoleFacts, Names DEF Holds
<1>3. /\ NGot(c) < NSent(c) /\ v = Item(hole, c, NGot(c) + 1)
      /\ \A k \in MVar : data'[k] = IF k = First(hole, c) THEN NIL ELSE data[k]
  <2>1. CASE mval[me] = v /\ redex[me] = Pending("take", frame[me].end, NIL) /\ data' = data
    <3>1. frame[me].pc = "recv_item" /\ mval[me] # NIL
      BY <1>1, <1>2, <2>1, StashFacts DEF TakePcs
    <3>2. QED BY <1>1, <1>2, <2>1, <3>1 DEF Holds
  <2>2. CASE data[frame[me].end] = v /\ data' = [data EXCEPT ![frame[me].end] = NIL]
    <3>1. NGot(c) # NSent(c)
      BY <1>1, <1>2, <2>2 DEF ChainHolds, First, Last
    <3>2. NGot(c) + 1 \in Linked(c) /\ NGot(c) < NGot(c) + 1 /\ NGot(c) + 1 <= NSent(c)
      BY <1>2, <3>1 DEF Linked
    <3>3. data[hole[c][NGot(c) + 1]] \in {NIL, Item(hole, c, NGot(c) + 1)}
      BY <1>1, <3>2 DEF ChainHolds
    <3>4. QED BY <1>1, <1>2, <2>2, <3>2, <3>3 DEF First
  <2>3. QED BY <2>1, <2>2 DEF Gets
<1>4. v.val = sent[c][NGot(c) + 1] /\ v.next = hole[c][NGot(c) + 2]
  BY <1>2, <1>3 DEF Item
<1>5. v \in ChItem
  <2>1. NGot(c) + 1 \in 1..Len(sent[c])
    BY <1>2, <1>3 DEF NSent
  <2>2. sent[c][NGot(c) + 1] \in Msg
    BY <1>1, <2>1, ElementOfSeq
  <2>3. NGot(c) + 2 \in Linked(c)
    BY <1>2, <1>3 DEF Linked
  <2>4. hole[c][NGot(c) + 2] \in Hole
    BY <1>1, <2>3 DEF HolesApart
  <2>5. NGot(c) + 1 + 1 = NGot(c) + 2
    BY <1>2
  <2>6. QED BY <1>3, <2>2, <2>4, <2>5 DEF Item, ChItem
<1>6. QED BY <1>2, <1>3, <1>4, <1>5

LEMMA ItemTakenKeeps ==
  ASSUME NEW hole, Before(hole), NEW me \in Thread, me = Cur,
         frame[me].pc \in {"recv_item", "try_item"}, NEW c \in Channel, c = frame[me].ch,
         NEW v \in Value, NEW g \in FrameSet, Moves(frame[me].end, v, g), Gets(frame[me].end, v),
         g.pc = "recv_release", g.ch = c, g.item = v,
         got' = [got EXCEPT ![c] = Append(@, v.val)], UNCHANGED <<used, nsent, sent>>
  PROVE  RunInv(hole)'
<1> DEFINE n == First(hole, c)
<1>1. /\ RtsInv /\ ChanTypeOK /\ Suspended /\ Forked /\ Locks /\ EndsHold(hole) /\ ThreadsHold(hole)
      /\ ChainsHold(hole) /\ HolesApart(hole) /\ NewHoles(hole)
  BY DEF Before, RunInv
<1>2. /\ frame[me].end = n /\ n \in Hole /\ n \in MVar
      /\ NGot(c) < NSent(c) /\ v = Item(hole, c, NGot(c) + 1)
      /\ v \in ChItem /\ v.next = hole[c][NGot(c) + 2] /\ v.val \in Msg
      /\ \A k \in MVar : data'[k] = IF k = n THEN NIL ELSE data[k]
  BY ItemIs, Names DEF ChItem
<1>3. /\ frame'[me] = g /\ redex'[me] = NoRedex /\ mval'[me] = NIL
      /\ \A t \in Thread \ {me} : frame'[t] = frame[t] /\ redex'[t] = redex[t] /\ mval'[t] = mval[t]
      /\ \A t \in Thread : state'[t] = "unborn" => state[t] = "unborn" /\ t # me
  <2>1. /\ frame'[me] = g /\ redex'[me] = NoRedex
        /\ \A t \in Thread \ {me} : frame'[t] = frame[t] /\ redex'[t] = redex[t]
        /\ \A t \in Thread : state'[t] = "unborn" => state[t] = "unborn" /\ t # me
    BY <1>1, <1>2, MovesFacts
  <2>2. /\ mval'[me] = NIL /\ \A t \in Thread \ {me} : mval'[t] = mval[t]
    BY <1>1, Types DEF Gets
  <2>3. QED BY <2>1, <2>2
<1>4. /\ sent' = sent /\ used' = used /\ nsent' = nsent
      /\ \A d \in Channel : /\ NSent(d)' = NSent(d) /\ Linked(d)' = Linked(d)
                            /\ Last(hole, d)' = Last(hole, d)
                            /\ d # c => NGot(d)' = NGot(d) /\ First(hole, d)' = First(hole, d)
      /\ NGot(c)' = NGot(c) + 1 /\ First(hole, c)' = v.next
      /\ NGot(c) \in Nat /\ NSent(c) \in Nat
  <2>1. sent' = sent /\ used' = used /\ nsent' = nsent /\ got \in [Channel -> Seq(Msg)]
        /\ NGot(c) \in Nat /\ NSent(c) \in Nat
    BY <1>1, Types
  <2>2. NGot(c)' = NGot(c) + 1 /\ \A d \in Channel \ {c} : NGot(d)' = NGot(d)
    BY <1>2, <2>1, AppendProperties DEF NGot
  <2>3. NGot(c) + 1 + 1 = NGot(c) + 2
    BY <2>1
  <2>4. QED BY <1>2, <2>1, <2>2, <2>3 DEF First, Last, NSent, Linked
<1>5. \A t \in Thread \ {me} : frame[t].ch = c =>
        /\ frame[t].pc \notin RdPcs
        /\ frame[t].pc \in {"recv_take", "try_take"} => mval[t] = NIL
  BY <1>1, AloneInside DEF RdPcs
<1> HIDE DEF n
<1>6. Suspended'
  BY <1>1, <1>3 DEF Suspended, NoRedex, Pending
<1>7. Forked'
  BY <1>1, <1>3, <1>4 DEF Forked, Fresh
<1>8. Locks'
  BY <1>1, <1>2, HoleMovesLocks DEF WrPcs, RdPcs
<1>9. EndsHold(hole)'
  <2>1. SUFFICES ASSUME NEW d \in Channel
                 PROVE  (data[Wr[d]] \in {NIL, Last(hole, d)} /\ data[Rd[d]] \in {NIL, First(hole, d)})'
    BY DEF EndsHold
  <2>2. data'[Wr[d]] = data[Wr[d]] /\ data'[Rd[d]] = data[Rd[d]]
    BY <1>2, TwoEnds
  <2>3. data[Rd[c]] = NIL
    BY <1>1, EndIsOut DEF RdPcs
  <2>4. QED BY <1>1, <1>4, <2>2, <2>3 DEF EndsHold
<1>10. ThreadsHold(hole)'
  <2>1. SUFFICES ASSUME NEW t \in Thread PROVE Holds(hole, t)'
    BY DEF ThreadsHold
  <2>2. CASE t = me
    BY <1>2, <1>3, <1>4, <2>2 DEF Holds
  <2>3. CASE t # me
    <3>1. /\ Holds(hole, t) /\ frame[t].ch \in Channel /\ frame'[t] = frame[t] /\ mval'[t] = mval[t]
      BY <1>1, <1>3, <2>3, Types DEF ThreadsHold
    <3>2. frame[t].pc = "recv_item" /\ mval[t] # NIL => data'[frame[t].end] = NIL
      <4>1. SUFFICES ASSUME frame[t].pc = "recv_item", mval[t] # NIL PROVE data'[frame[t].end] = NIL
        OBVIOUS
      <4>2. frame[t].end = First(hole, frame[t].ch) /\ data[frame[t].end] = NIL
        BY <3>1, <4>1 DEF Holds
      <4>3. frame[t].end \in MVar
        <5>1. First(hole, frame[t].ch) \in Hole
          BY <3>1, HoleFacts
        <5>2. QED BY <4>2, <5>1, Names
      <4>4. QED BY <1>2, <4>2, <4>3
    <3>3. CASE frame[t].ch = c
      <4>1. /\ frame[t].pc \notin RdPcs
            /\ frame[t].pc \in {"recv_take", "try_take"} => mval[t] = NIL
        BY <1>5, <2>3, <3>3
      <4>2. QED BY <1>4, <3>1, <3>3, <4>1 DEF Holds, RdPcs
    <3>4. CASE frame[t].ch # c
      <4>1. got'[frame[t].ch] = got[frame[t].ch]
        BY <1>1, <3>1, <3>4, Types
      <4>2. Item(hole, frame[t].ch, NGot(frame[t].ch) + 1)' = Item(hole, frame[t].ch, NGot(frame[t].ch) + 1)
        BY <1>4, <3>1, <3>4 DEF Item
      <4>3. /\ NGot(frame[t].ch)' = NGot(frame[t].ch) /\ NSent(frame[t].ch)' = NSent(frame[t].ch)
            /\ First(hole, frame[t].ch)' = First(hole, frame[t].ch)
            /\ Last(hole, frame[t].ch)' = Last(hole, frame[t].ch)
        BY <1>4, <3>1, <3>4
      <4>4. QED BY <3>1, <3>2, <4>2, <4>3 DEF Holds
    <3>5. QED BY <3>3, <3>4
  <2>4. QED BY <2>2, <2>3
<1>11. ChainsHold(hole)'
  <2>1. SUFFICES ASSUME NEW d \in Channel PROVE ChainHolds(hole, d)'
    BY DEF ChainsHold
  <2>2. /\ ChainHolds(hole, d) /\ NSent(d) + 1 \in Linked(d) /\ NGot(c) + 1 \in Linked(c)
        /\ NSent(d) \in Nat /\ NGot(d) \in Nat
    BY <1>1, HoleFacts DEF ChainsHold
  <2>3. \A i \in Linked(d) : hole[d][i] \in MVar /\ (hole[d][i] = n => d = c /\ i = NGot(c) + 1)
    <3>1. \A i \in Linked(d) : hole[d][i] \in used
      BY <1>1 DEF HolesApart
    <3>2. used \subseteq MVar
      BY <1>1, Types, Names
    <3>3. \A i \in Linked(d) : hole[d][i] = hole[c][NGot(c) + 1] => d = c /\ i = NGot(c) + 1
      BY <1>1, <2>2 DEF HolesApart
    <3>4. QED BY <3>1, <3>2, <3>3 DEF n, First
  <2>4. data'[Last(hole, d)] = NIL
    BY <1>2, <2>2, <2>3 DEF ChainHolds, Last
  <2>5. CASE d = c
    <3>1. ASSUME NEW i \in Linked(c), NGot(c) + 1 < i, i <= NSent(c)
          PROVE  data'[hole[c][i]] = Item(hole, c, i)'
      <4>1. data'[hole[c][i]] = data[hole[c][i]]
        BY <1>2, <1>4, <2>3, <2>5, <3>1
      <4>2. data[hole[c][i]] = Item(hole, c, i)
        BY <1>4, <2>2, <2>5, <3>1 DEF ChainHolds, Linked
      <4>3. QED BY <1>4, <4>1, <4>2 DEF Item
    <3>2. NGot(c)' <= NSent(c)'
      BY <1>2, <1>4
    <3>3. data'[Last(hole, c)'] = NIL /\ Linked(c)' = Linked(c)
      BY <1>4, <2>4, <2>5
    <3>4. \A i \in Linked(c)' : NGot(c)' < i /\ i <= NSent(c)' => data'[hole[c][i]] = Item(hole, c, i)'
      BY <1>4, <3>1, <3>3
    <3>5. QED BY <2>5, <3>2, <3>3, <3>4 DEF ChainHolds
  <2>6. CASE d # c
    <3>1. OnItsWay(d) => OnItsWay(d)'
      BY <1>3, <2>6 DEF OnItsWay
    <3>2. \A i \in Linked(d) : Item(hole, d, i)' = Item(hole, d, i)
      BY <1>4 DEF Item
    <3>3. QED BY <1>2, <1>4, <2>2, <2>3, <2>4, <2>6, <3>1, <3>2 DEF ChainHolds
  <2>7. QED BY <2>5, <2>6
<1>12. HolesApart(hole)'
  BY <1>1, <1>4, SameHolesApart
<1>13. NewHoles(hole)'
  <2>1. \A h \in Hole : data'[h] \in {NIL, data[h]}
    BY <1>2, Names
  <2>2. \A t \in Thread : frame'[t].pc \in Fresh =>
          frame[t].pc \in Fresh /\ frame'[t].new = frame[t].new
    BY <1>3 DEF Fresh
  <2>3. used \subseteq Hole
    BY <1>1, Types
  <2>4. QED BY <1>1, <1>4, <2>1, <2>2, <2>3, SameNewHoles
<1>14. QED BY <1>6, <1>7, <1>8, <1>9, <1>10, <1>11, <1>12, <1>13 DEF RunInv

(* A sender links its new hole behind the last one of its channel: what    *)
(* the map of holes becomes, and what that leaves alone.                   *)
Longer(hole, more, c, v, new) ==
  /\ more \in HoleMap
  /\ more[c][NSent(c) + 2] = new /\ Last(more, c)' = new
  /\ NSent(c)' = NSent(c) + 1 /\ Linked(c)' = Linked(c) \cup {NSent(c) + 2}
  /\ \A i : i = NSent(c) + 1 => Item(more, c, i)' = v
  /\ \A d \in Channel :
       /\ \A i \in Linked(d) : more[d][i] = hole[d][i]
       /\ NGot(d)' = NGot(d) /\ First(more, d)' = First(hole, d)
       /\ \A i \in 1..NSent(d) : Item(more, d, i)' = Item(hole, d, i)
       /\ d # c => /\ NSent(d)' = NSent(d) /\ Linked(d)' = Linked(d)
                   /\ Last(more, d)' = Last(hole, d)

LEMMA LongerChain ==
  ASSUME NEW hole, Before(hole), NEW c \in Channel, NEW new \in Hole, NEW msg \in Msg,
         NEW v, v = [val |-> msg, next |-> new],
         NEW more, more = [hole EXCEPT ![c] = [@ EXCEPT ![NSent(c) + 2] = new]],
         sent' = [sent EXCEPT ![c] = Append(@, msg)], got' = got
  PROVE  Longer(hole, more, c, v, new)
<1>1. /\ sent \in [Channel -> Seq(Msg)] /\ hole \in [Channel -> [Nat -> MVar]] /\ new \in MVar
      /\ \A d \in Channel : /\ NSent(d) \in Nat /\ NGot(d) \in Nat /\ NGot(d) <= NSent(d)
                            /\ NGot(d) + 1 \in Linked(d) /\ NSent(d) + 1 \in Linked(d)
  BY Types, HoleFacts, Names DEF Before, HoleMap
<1>2. /\ more \in [Channel -> [Nat -> MVar]]
      /\ more[c] = [hole[c] EXCEPT ![NSent(c) + 2] = new] /\ \A d \in Channel \ {c} : more[d] = hole[d]
  BY <1>1
<1>3. \A d \in Channel : \A i \in Linked(d) : more[d][i] = hole[d][i]
  <2>1. SUFFICES ASSUME NEW d \in Channel, NEW i \in Linked(d) PROVE more[d][i] = hole[d][i]
    OBVIOUS
  <2>2. PICK n \in Nat : n = NSent(d)
    BY <1>1
  <2>3. i \in 1..(n + 1)
    BY <2>2 DEF Linked
  <2>4. i \in Nat /\ i # n + 2
    BY <2>3
  <2>5. CASE d = c
    BY <1>2, <2>2, <2>4, <2>5, <1>1
  <2>6. CASE d # c
    BY <1>2, <2>6
  <2>7. QED BY <2>5, <2>6
<1>4. more[c][NSent(c) + 2] = new
  BY <1>1, <1>2
<1>5. /\ sent'[c] = Append(sent[c], msg) /\ sent[c] \in Seq(Msg)
      /\ \A d \in Channel \ {c} : sent'[d] = sent[d]
  BY <1>1
<1>6. /\ NSent(c)' = NSent(c) + 1 /\ sent'[c][NSent(c) + 1] = msg
      /\ \A i \in 1..NSent(c) : sent'[c][i] = sent[c][i]
      /\ \A d \in Channel \ {c} : NSent(d)' = NSent(d)
      /\ \A d \in Channel : NGot(d)' = NGot(d)
  BY <1>5, AppendProperties DEF NSent, NGot
<1>7. /\ Linked(c)' = Linked(c) \cup {NSent(c) + 2} /\ NSent(c) + 1 + 1 = NSent(c) + 2
      /\ \A d \in Channel \ {c} : Linked(d)' = Linked(d)
  BY <1>1, <1>6 DEF Linked
<1>8. /\ Last(more, c)' = new
      /\ \A i : i = NSent(c) + 1 => Item(more, c, i)' = v
  BY <1>4, <1>6, <1>7 DEF Last, Item
<1>9. \A d \in Channel : First(more, d)' = First(hole, d) /\ (d # c => Last(more, d)' = Last(hole, d))
  BY <1>1, <1>3, <1>6 DEF First, Last
<1>10. ASSUME NEW d \in Channel, NEW i \in 1..NSent(d) PROVE Item(more, d, i)' = Item(hole, d, i)
  <2>1. sent'[d][i] = sent[d][i]
    BY <1>5, <1>6
  <2>2. i + 1 \in Linked(d)
    <3>1. PICK n \in Nat : n = NSent(d)
      BY <1>1
    <3>2. i + 1 \in 1..(n + 1)
      BY <3>1
    <3>3. QED BY <3>1, <3>2 DEF Linked
  <2>3. QED BY <1>3, <2>1, <2>2 DEF Item
<1>11. QED BY <1>2, <1>3, <1>4, <1>6, <1>7, <1>8, <1>9, <1>10 DEF HoleMap, Longer

LEMMA ItemLinkedKeeps ==
  ASSUME NEW hole, Before(hole), NEW me \in Thread, me = Cur, frame[me].pc = "send_link",
         NEW c \in Channel, c = frame[me].ch, NEW v \in Value, NEW new, new = frame[me].new,
         NEW g \in FrameSet, Moves(frame[me].end, v, g), Gives(frame[me].end, v),
         g.pc = "send_release", g.ch = c, g.new = new,
         NEW more, Longer(hole, more, c, v, new), UNCHANGED <<used, nsent>>
  PROVE  RunInv(more)' /\ frame[me].end = Last(hole, c)
<1>0. PICK n : n = Last(hole, c)
  OBVIOUS
<1>1. /\ RtsInv /\ ChanTypeOK /\ Suspended /\ Forked /\ Locks /\ EndsHold(hole) /\ ThreadsHold(hole)
      /\ ChainsHold(hole) /\ HolesApart(hole) /\ NewHoles(hole) /\ hole \in HoleMap
  BY DEF Before, RunInv
<1>2. /\ frame[me].end = n /\ n \in Hole /\ n \in MVar /\ n = hole[c][NSent(c) + 1]
      /\ NSent(c) \in Nat /\ NGot(c) \in Nat /\ NGot(c) <= NSent(c) /\ NSent(c) + 1 \in Linked(c)
  <2>1. Holds(hole, me)
    BY <1>1 DEF ThreadsHold
  <2>2. QED BY <1>0, <2>1, HoleFacts, Names DEF Holds, Last
<1>3. /\ new \in used /\ new \in Hole /\ new \in MVar /\ data[new] = NIL
      /\ \A d \in Channel : \A i \in Linked(d) : hole[d][i] # new
      /\ \A u \in Thread : frame[u].pc \in Fresh /\ frame[u].new = new => u = me
      /\ used \subseteq Hole
  <2>1. used \subseteq Hole /\ Hole \subseteq MVar
    BY <1>1, Types, Names
  <2>2. /\ new \in used /\ data[new] = NIL
        /\ \A d \in Channel : \A i \in Linked(d) : hole[d][i] # new
        /\ \A u \in Thread : frame[u].pc \in Fresh /\ frame[u].new = new => u = me
    BY <1>1 DEF NewHoles, Fresh
  <2>3. QED BY <2>1, <2>2
<1>4. /\ more[c][NSent(c) + 2] = new /\ Last(more, c)' = new
      /\ NSent(c)' = NSent(c) + 1 /\ Linked(c)' = Linked(c) \cup {NSent(c) + 2}
      /\ \A i : i = NSent(c) + 1 => Item(more, c, i)' = v
      /\ \A d \in Channel :
              /\ \A i \in Linked(d) : more[d][i] = hole[d][i]
              /\ NGot(d)' = NGot(d) /\ First(more, d)' = First(hole, d)
              /\ \A i \in 1..NSent(d) : Item(more, d, i)' = Item(hole, d, i)
              /\ d # c => /\ NSent(d)' = NSent(d) /\ Linked(d)' = Linked(d)
                          /\ Last(more, d)' = Last(hole, d)
  BY DEF Longer
<1>5. /\ frame'[me] = g /\ redex'[me] = NoRedex
      /\ \A t \in Thread \ {me} : frame'[t] = frame[t] /\ redex'[t] = redex[t]
      /\ \A k \in MVar \ {n} : data'[k] = data[k]
      /\ data'[n] \in {NIL, v, data[n]}
      /\ \A t \in Thread \ {me} : mval'[t] = mval[t] \/ HandsTo(t, n, v)
      /\ \A t \in Thread : state'[t] = "unborn" => state[t] = "unborn" /\ t # me
  BY <1>1, <1>2, MovesFacts
<1>6. used' = used /\ nsent' = nsent
  OBVIOUS
<1>7. \A d \in Channel : \A i \in Linked(d) :
        hole[d][i] \in MVar /\ (hole[d][i] = n => d = c /\ i = NSent(c) + 1)
  <2>1. \A d \in Channel : \A i \in Linked(d) : hole[d][i] \in used
    BY <1>1 DEF HolesApart
  <2>2. used \subseteq MVar
    BY <1>1, Types, Names
  <2>3. \A d \in Channel : \A i \in Linked(d) : hole[d][i] = hole[c][NSent(c) + 1] => d = c /\ i = NSent(c) + 1
    BY <1>1, <1>2 DEF HolesApart
  <2>4. QED BY <1>2, <2>1, <2>2, <2>3
<1>8. \A t \in Thread \ {me} : frame[t].ch = c =>
        /\ frame[t].pc \notin WrPcs
        /\ frame[t].pc = "send_take" => mval[t] = NIL
  BY <1>1, AloneInside DEF WrPcs
(* Who the item is handed to waits at the last hole, its first.            *)
<1>9. ASSUME NEW t \in Thread, HandsTo(t, n, v)
      PROVE  /\ frame[t].pc = "recv_item" /\ frame[t].ch = c /\ frame[t].end = n /\ t # me
             /\ NGot(c) = NSent(c) /\ mval'[t] = v /\ data'[n] = NIL
  <2>1. /\ redex[t].prim = "take" /\ redex[t].mv = n /\ mval'[t] = v /\ data' = data /\ t # me
        /\ frame[t].ch \in Channel
    BY <1>1, <1>9, Types DEF HandsTo
  <2>2. frame[t].pc \in TakePcs /\ n = Wanted(frame[t])
    BY <1>1, <2>1 DEF Suspended
  <2>3. frame[t].pc = "recv_item" /\ frame[t].end = n
    BY <1>2, <2>1, <2>2, TwoEnds DEF Wanted, TakePcs
  <2>4. First(hole, frame[t].ch) = n /\ NGot(frame[t].ch) + 1 \in Linked(frame[t].ch)
    BY <1>1, <2>1, <2>3, HoleFacts DEF ThreadsHold, Holds
  <2>5. frame[t].ch = c /\ NGot(c) + 1 = NSent(c) + 1
    BY <1>7, <2>1, <2>4 DEF First
  <2>6. data[n] = NIL
    BY <1>2 DEF Gives
  <2>7. QED BY <1>2, <2>1, <2>3, <2>5, <2>6
<1>10. data'[n] = v \/ \E t \in Thread : HandsTo(t, n, v)
  BY <1>1, <1>2, Types DEF Gives
<1>11. Suspended'
  BY <1>1, <1>5 DEF Suspended, NoRedex, Pending
<1>12. Forked'
  BY <1>1, <1>5, <1>6 DEF Forked, Fresh
<1>13. Locks'
  BY <1>1, <1>2, HoleMovesLocks DEF WrPcs, RdPcs
<1>14. EndsHold(more)'
  <2>1. SUFFICES ASSUME NEW d \in Channel
                 PROVE  (data[Wr[d]] \in {NIL, Last(more, d)} /\ data[Rd[d]] \in {NIL, First(more, d)})'
    BY DEF EndsHold
  <2>2. data'[Wr[d]] = data[Wr[d]] /\ data'[Rd[d]] = data[Rd[d]]
    BY <1>2, <1>5, TwoEnds
  <2>3. data[Wr[c]] = NIL
    BY <1>1, EndIsOut DEF WrPcs
  <2>4. QED BY <1>1, <1>4, <2>2, <2>3 DEF EndsHold
<1>15. ThreadsHold(more)'
  <2>1. SUFFICES ASSUME NEW t \in Thread PROVE Holds(more, t)'
    BY DEF ThreadsHold
  <2>2. CASE t = me
    BY <1>0, <1>4, <1>5, <2>2 DEF Holds
  <2>3. CASE t # me /\ HandsTo(t, n, v)
    <3>1. PICK k : k = NSent(c) + 1
      OBVIOUS
    <3>2. /\ frame'[t] = frame[t] /\ frame[t].pc = "recv_item" /\ frame[t].ch = c /\ frame[t].end = n
          /\ NGot(c) = NSent(c) /\ mval'[t] = v /\ data'[n] = NIL /\ Holds(hole, t)
      BY <1>1, <1>5, <1>9, <2>3 DEF ThreadsHold
    <3>3. First(more, c)' = First(hole, c) /\ NGot(c)' = NGot(c) /\ NSent(c)' = NSent(c) + 1
          /\ Item(more, c, k)' = v
      BY <1>4, <3>1
    <3>4. Item(more, c, NGot(c) + 1)' = Item(more, c, k)'
      BY <3>1, <3>2, <3>3
    <3>5. QED BY <1>2, <3>2, <3>3, <3>4 DEF Holds
  <2>4. CASE t # me /\ mval'[t] = mval[t]
    <3>1. PICK d \in Channel, k \in Nat : d = frame[t].ch /\ k = NGot(d) + 1
      <4>1. frame[t].ch \in Channel /\ NGot(frame[t].ch) \in Nat
        BY <1>1, Types
      <4>2. NGot(frame[t].ch) + 1 \in Nat
        BY <4>1
      <4>3. QED BY <4>1, <4>2
    <3>2. /\ Holds(hole, t) /\ frame'[t] = frame[t]
          /\ NSent(d) \in Nat /\ NGot(d) \in Nat /\ NSent(d)' \in {NSent(d), NSent(d) + 1}
          /\ NGot(d)' = NGot(d)
      BY <1>1, <1>4, <1>5, <2>4, <3>1, Types DEF ThreadsHold
    <3>3. ASSUME frame[t].pc = "recv_item", mval[t] # NIL
          PROVE  NGot(d)' < NSent(d)' /\ mval[t] = Item(more, d, k)' /\ data'[frame[t].end] = NIL
      <4>1. /\ frame[t].end = hole[d][k] /\ data[frame[t].end] = NIL
            /\ NGot(d) < NSent(d) /\ mval[t] = Item(hole, d, k)
        BY <3>1, <3>2, <3>3 DEF Holds, First
      <4>2. k \in Linked(d) /\ k \in 1..NSent(d) /\ k # NSent(d) + 1
        BY <3>1, <3>2, <4>1 DEF Linked
      <4>3. data'[frame[t].end] = NIL
        BY <1>5, <1>7, <3>1, <4>1, <4>2
      <4>4. Item(more, d, k)' = Item(hole, d, k)
        BY <1>4, <4>2
      <4>5. NGot(d)' < NSent(d)'
        BY <3>2, <4>1
      <4>6. QED BY <4>1, <4>3, <4>4, <4>5
    <3>4. /\ frame[t].pc \in WrPcs => d # c
          /\ frame[t].pc = "send_take" /\ mval[t] # NIL => d # c
      BY <1>8, <2>4, <3>1
    <3>5. First(more, d)' = First(hole, d) /\ (d # c => Last(more, d)' = Last(hole, d))
      BY <1>4
    <3>6. Item(more, d, NGot(d) + 1)' = Item(more, d, k)'
      BY <3>1, <3>2
    <3>7. d = frame'[t].ch
      BY <3>1, <3>2
    <3>8. QED BY <2>4, <3>1, <3>2, <3>3, <3>4, <3>5, <3>6, <3>7 DEF Holds, WrPcs
  <2>5. QED BY <1>5, <2>2, <2>3, <2>4
<1>16. ChainsHold(more)'
  <2>1. SUFFICES ASSUME NEW d \in Channel PROVE ChainHolds(more, d)'
    BY DEF ChainsHold
  <2>2. /\ ChainHolds(hole, d) /\ NSent(d) \in Nat /\ NGot(d) \in Nat /\ NSent(d) + 1 \in Linked(d)
    BY <1>1, HoleFacts DEF ChainsHold
  <2>3. OnItsWay(d) => OnItsWay(d)'
    <3>1. SUFFICES ASSUME NEW t \in Thread, frame[t].pc = "recv_item", frame[t].ch = d, mval[t] # NIL
                   PROVE  t # me /\ mval'[t] # NIL
      BY <1>5 DEF OnItsWay
    <3>2. QED BY <1>5, <3>1 DEF HandsTo
  <2>4. ASSUME NEW i \in Linked(d), NGot(d) < i, i <= NSent(d)
        PROVE  \/ data'[more[d][i]] = Item(more, d, i)'
               \/ data'[more[d][i]] = NIL /\ i = NGot(d) + 1 /\ OnItsWay(d)'
    <3>1. more[d][i] = hole[d][i] /\ Item(more, d, i)' = Item(hole, d, i)
      <4>1. i \in 1..NSent(d)
        BY <2>2, <2>4 DEF Linked
      <4>2. QED BY <1>4, <4>1
    <3>2. data'[hole[d][i]] = data[hole[d][i]]
      BY <1>2, <1>5, <1>7, <2>2, <2>4
    <3>3. QED BY <2>2, <2>3, <2>4, <3>1, <3>2 DEF ChainHolds
  <2>5. CASE d # c
    <3>1. data'[Last(hole, d)] = NIL
      BY <1>5, <1>7, <2>2, <2>5 DEF Last, ChainHolds
    <3>2. QED BY <1>4, <2>2, <2>4, <2>5, <3>1 DEF ChainHolds
  <2>6. CASE d = c
    <3>1. data'[new] = NIL
      BY <1>2, <1>3, <1>5
    <3>2. ASSUME NEW i, i = NSent(c) + 1
          PROVE  \/ data'[more[c][i]] = Item(more, c, i)'
                 \/ data'[more[c][i]] = NIL /\ i = NGot(c)' + 1 /\ OnItsWay(c)'
      <4>1. more[c][i] = n /\ Item(more, c, i)' = v
        BY <1>2, <1>4, <3>2
      <4>2. ASSUME NEW t \in Thread, HandsTo(t, n, v)
            PROVE  data'[n] = NIL /\ i = NGot(c)' + 1 /\ OnItsWay(c)'
        BY <1>4, <1>5, <1>9, <3>2, <4>2, Names DEF OnItsWay
      <4>3. QED BY <1>10, <4>1, <4>2
    <3>3. ASSUME NEW i \in Linked(c)', NGot(c)' < i, i <= NSent(c)'
          PROVE  \/ data'[more[c][i]] = Item(more, c, i)'
                 \/ data'[more[c][i]] = NIL /\ i = NGot(c)' + 1 /\ OnItsWay(c)'
      <4>1. i = NSent(c) + 1 \/ (i \in Linked(c) /\ NGot(c) < i /\ i <= NSent(c))
        BY <1>2, <1>4, <3>3 DEF Linked
      <4>2. QED BY <1>4, <2>4, <2>6, <3>2, <4>1
    <3>4. NGot(c)' <= NSent(c)'
      BY <1>2, <1>4
    <3>5. QED BY <1>4, <2>6, <3>1, <3>3, <3>4 DEF ChainHolds
  <2>7. QED BY <2>5, <2>6
<1>17. HolesApart(more)'
  <2>1. ASSUME NEW d \in Channel, NEW i \in Linked(d)'
        PROVE  \/ i \in Linked(d) /\ more[d][i] = hole[d][i] /\ hole[d][i] # new
               \/ d = c /\ i = NSent(c) + 2 /\ more[d][i] = new
    BY <1>3, <1>4, <2>1
  <2>2. \A d \in Channel : \A i \in Linked(d)' : more[d][i] \in used'
    BY <1>1, <1>3, <1>6, <2>1 DEF HolesApart
  <2>3. \A d, e \in Channel : \A i \in Linked(d)', j \in Linked(e)' : more[d][i] = more[e][j] => d = e /\ i = j
    BY <1>1, <2>1 DEF HolesApart
  <2>4. QED BY <2>2, <2>3 DEF HolesApart
<1>18. NewHoles(more)'
  <2>1. n \in used
    BY <1>1, <1>2 DEF HolesApart
  <2>2. \A h \in Hole \ used' : data'[h] = NIL
    BY <1>1, <1>5, <1>6, <2>1, Names DEF NewHoles
  <2>3. ASSUME NEW t \in Thread, frame'[t].pc \in Fresh
        PROVE  /\ frame'[t].new \in used' /\ data'[frame'[t].new] = NIL
               /\ \A d \in Channel : \A i \in Linked(d)' : more[d][i] # frame'[t].new
               /\ \A u \in Thread : frame'[u].pc \in Fresh /\ frame'[u].new = frame'[t].new => u = t
    <3>1. t # me /\ frame'[t] = frame[t]
      BY <1>5, <2>3 DEF Fresh
    <3>2. /\ frame[t].new \in used /\ data[frame[t].new] = NIL
          /\ \A d \in Channel : \A i \in Linked(d) : hole[d][i] # frame[t].new
          /\ \A u \in Thread : frame[u].pc \in Fresh /\ frame[u].new = frame[t].new => u = t
      BY <1>1, <2>3, <3>1 DEF NewHoles
    <3>3. frame[t].new # n /\ frame[t].new \in MVar /\ frame[t].new # new
      BY <1>2, <1>3, <2>3, <3>1, <3>2, Names
    <3>4. data'[frame[t].new] = NIL
      BY <1>5, <3>2, <3>3
    <3>5. \A d \in Channel : \A i \in Linked(d)' : more[d][i] # frame[t].new
      BY <1>4, <3>2, <3>3
    <3>6. \A u \in Thread : frame'[u].pc \in Fresh => frame'[u] = frame[u]
      BY <1>5 DEF Fresh
    <3>7. QED BY <1>6, <3>1, <3>2, <3>4, <3>5, <3>6
  <2>4. QED BY <2>2, <2>3 DEF NewHoles
<1>19. QED BY <1>0, <1>2, <1>11, <1>12, <1>13, <1>14, <1>15, <1>16, <1>17, <1>18 DEF RunInv

(* ---- Once newChan is over: every action. ------------------------------ *)

(* Nothing but the scheduler's queues and the clock changes.               *)
LEMMA IdleKeeps ==
  ASSUME NEW hole, RunInv(hole), UNCHANGED <<redex, data, mval, frame, hist>>,
         \A t \in Thread : state'[t] = "unborn" => state[t] = "unborn"
  PROVE  RunInv(hole)'
<1>1. sent' = sent /\ got' = got /\ used' = used /\ nsent' = nsent
  BY DEF hist
<1>2. Suspended'
  BY DEF RunInv, Suspended
<1>3. Forked'
  BY <1>1 DEF RunInv, Forked
<1>4. Locks'
  BY DEF RunInv, Locks, Lock, Has, Stashed, Inside
<1>5. EndsHold(hole)' /\ ThreadsHold(hole)'
  BY <1>1 DEF RunInv, EndsHold, ThreadsHold, Holds, First, Last, Item, NSent, NGot
<1>6. ChainsHold(hole)'
  BY <1>1 DEF RunInv, ChainsHold, ChainHolds, OnItsWay, Last, Item, Linked, NSent, NGot
<1>7. HolesApart(hole)' /\ NewHoles(hole)'
  BY <1>1 DEF RunInv, HolesApart, NewHoles, Linked, NSent
<1>8. QED BY <1>2, <1>3, <1>4, <1>5, <1>6, <1>7 DEF RunInv

LEMMA TypesKept ==
  ASSUME RtsInv, ChanTypeOK, RtsInv', client' = client, used' \subseteq Hole, NEW g \in FrameSet,
         frame' = [frame EXCEPT ![Cur] = g] \/ frame' = frame,
         nsent' \in [Thread -> 0..MaxSends],
         sent' \in [Channel -> Seq(Msg)], got' \in [Channel -> Seq(Msg)]
  PROVE  ChanTypeOK'
BY DEF ChanTypeOK, FrameSet, RtsInv

LEMMA FrameIs ==
  ASSUME RtsInv, ChanTypeOK, Running
  PROVE  /\ Cur \in Thread /\ Me \in FrameSet /\ Me.ch \in Channel /\ state[Cur] = "runnable"
         /\ Idle \in FrameSet
         /\ \A p \in Pcs : [Me EXCEPT !.pc = p] \in FrameSet
<1>1. Cur \in Thread /\ Me \in FrameSet /\ Me.ch \in Channel /\ state[Cur] = "runnable"
  BY CurFacts, Types DEF Me
<1>2. Idle \in FrameSet
  BY Names DEF FrameSet, Idle, Frame, Pcs
<1>3. \A p \in Pcs : [Me EXCEPT !.pc = p] \in FrameSet
  BY <1>1 DEF FrameSet
<1>4. QED BY <1>1, <1>2, <1>3

(* No put of a channel finds its MVar full.                                *)
LEMMA PutsGoOn ==
  ASSUME NEW hole, Before(hole), Running
  PROVE  /\ Me.pc = "send_release" => data[Wr[Me.ch]] = NIL
         /\ Me.pc \in {"recv_release", "try_nothing"} => data[Rd[Me.ch]] = NIL
         /\ Me.pc = "send_link" => data[Me.end] = NIL
<1>1. RtsInv /\ ChanTypeOK /\ Locks /\ ThreadsHold(hole) /\ ChainsHold(hole)
  BY DEF Before, RunInv
<1>2. Cur \in Thread /\ Me.ch \in Channel
  BY <1>1, FrameIs
<1>3. Me.pc = "send_link" => Me.end = Last(hole, Me.ch)
  BY <1>1, <1>2 DEF ThreadsHold, Holds, Me
<1>4. QED BY <1>1, <1>2, <1>3, EndIsOut DEF ChainsHold, ChainHolds, Me, WrPcs, RdPcs

LEMMA WaitsKeeps ==
  ASSUME NEW hole, Before(hole), NEW m \in MVar, Waits(m),
         Me.pc \in TakePcs, m = Wanted(Me)
  PROVE  Before(hole)'
<1>1. RtsInv /\ ChanTypeOK /\ hole \in HoleMap /\ TakeMVarBlocks(m) /\ UNCHANGED <<frame, hist>>
  BY DEF Before, Waits
<1>2. /\ Running /\ Cur \in Thread /\ Steps(Pending("take", m, NIL))
      /\ data[m] = NIL /\ mval[Cur] = NIL /\ UNCHANGED <<data, mval>>
      /\ state'[Cur] = "wait_mvar"
      /\ \A t \in Thread \ {Cur} : state'[t] = state[t]
  BY <1>1, TakeBlocksEffect
<1>3. Me \in FrameSet /\ state[Cur] = "runnable" /\ frame' = [frame EXCEPT ![Cur] = Me]
  BY <1>1, <1>2, FrameIs, Types DEF Me
<1>4. /\ state[Cur] # "unborn" /\ UNCHANGED <<data, mval, sent, got>> /\ UNCHANGED <<used, nsent>>
      /\ Me = frame[Cur]
      /\ \A t \in Thread : state'[t] = "unborn" => state[t] = "unborn"
  BY <1>1, <1>2, <1>3 DEF hist, Me
<1>5. Pending("take", m, NIL).prim = "take" /\ Pending("take", m, NIL).mv = m
  BY DEF Pending
<1>6. RunInv(hole)'
  BY <1>2, <1>3, <1>4, <1>5, QuietKeeps
<1>7. RtsInv'
  BY <1>1, TakeMVarBlocksOK
<1>8. ChanTypeOK'
  BY <1>1, <1>3, <1>7, TypesKept DEF ChanTypeOK, hist
<1>9. QED BY <1>1, <1>6, <1>7, <1>8 DEF Before

LEMMA StartsFacts ==
  ASSUME RtsInv, ChanTypeOK, Starts
  PROVE  /\ Cur \in Thread /\ state[Cur] = "runnable" /\ mval[Cur] = NIL
         /\ UNCHANGED rts => Steps(NoRedex) /\ UNCHANGED <<data, mval, state>>
BY CurFacts, Types DEF Starts, RtsInv, StashIsForTake, NoRedex, Pending, rts, mvars, Steps

LEMMA EntersKeeps ==
  ASSUME NEW hole, Before(hole), NEW op, NEW c \in Channel, NEW f \in FrameSet,
         f.pc \in {"recv_take", "try_take"}, Enters(op, c, f)
  PROVE  Before(hole)'
<1>1. RtsInv /\ ChanTypeOK /\ hole \in HoleMap /\ Starts /\ Me.pc = "idle"
      /\ frame' = [frame EXCEPT ![Cur] = f] /\ UNCHANGED <<rts, hist>>
  BY DEF Before, Enters, Calls, At, Becomes
<1>2. /\ Cur \in Thread /\ state[Cur] = "runnable" /\ mval[Cur] = NIL
      /\ Steps(NoRedex) /\ UNCHANGED <<data, mval, state>>
  BY <1>1, StartsFacts
<1>3. /\ state[Cur] # "unborn" /\ UNCHANGED <<data, mval, sent, got>> /\ UNCHANGED <<used, nsent>>
      /\ \A t \in Thread : state'[t] = "unborn" => state[t] = "unborn"
      /\ NoRedex.prim = "none"
      /\ frame[Cur].pc \notin WrPcs \cup RdPcs \cup Fresh
      /\ f.pc \notin WrPcs \cup RdPcs \cup Fresh \cup {"new_read", "new_write"}
  BY <1>1, <1>2 DEF hist, NoRedex, Pending, Me, WrPcs, RdPcs, Fresh
<1>4. RunInv(hole)'
  BY <1>1, <1>2, <1>3, QuietKeeps
<1>5. RtsInv'
  BY <1>1, RtsStutterOK
<1>6. ChanTypeOK'
  BY <1>1, <1>5, TypesKept DEF ChanTypeOK, hist
<1>7. QED BY <1>1, <1>4, <1>5, <1>6 DEF Before

LEMMA SendStartsKeeps ==
  ASSUME NEW hole, Before(hole), NEW c \in Channel, SendStarts(c)
  PROVE  Before(hole)'
<1>1. RtsInv /\ ChanTypeOK /\ hole \in HoleMap /\ Starts /\ Me.pc = "idle"
      /\ UNCHANGED <<rts, client, sent, got>>
      /\ nsent[Cur] < MaxSends /\ used # Hole /\ used \subseteq Hole
      /\ used' = used \cup {NewHole} /\ nsent' = [nsent EXCEPT ![Cur] = @ + 1]
  BY Types DEF Before, SendStarts, Calls, At
<1>2. /\ Cur \in Thread /\ state[Cur] = "runnable" /\ mval[Cur] = NIL
      /\ Steps(NoRedex) /\ UNCHANGED <<data, mval, state>>
  BY <1>1, StartsFacts
<1>3. NewHole \in Hole \ used
  BY <1>1 DEF NewHole
<1>4. PICK f \in FrameSet : f.pc = "send_take" /\ f.new = NewHole /\ frame' = [frame EXCEPT ![Cur] = f]
  <2> DEFINE f == [Frame("send_take", c) EXCEPT !.new = NewHole]
  <2>1. f \in FrameSet /\ f.pc = "send_take" /\ f.new = NewHole
    BY <1>3 DEF Frame, FrameSet, Pcs
  <2>2. frame' = [frame EXCEPT ![Cur] = f]
    BY DEF SendStarts, Becomes
  <2>3. QED BY <2>1, <2>2
<1>5. /\ state[Cur] # "unborn" /\ UNCHANGED <<data, mval, sent, got>>
      /\ \A t \in Thread : state'[t] = "unborn" => state[t] = "unborn"
      /\ NoRedex.prim = "none"
      /\ frame[Cur].pc \notin WrPcs \cup RdPcs \cup Fresh
      /\ f.new \in Hole \ used /\ used' = used \cup {f.new}
  BY <1>1, <1>2, <1>3, <1>4 DEF NoRedex, Pending, Me, WrPcs, RdPcs, Fresh
<1>6. RunInv(hole)'
  BY <1>1, <1>2, <1>4, <1>5, QuietKeeps
<1>7. RtsInv'
  BY <1>1, RtsStutterOK
<1>8. nsent' \in [Thread -> 0..MaxSends]
  BY <1>1, <1>2, ChanAssumption DEF ChanTypeOK
<1>9. ChanTypeOK'
  BY <1>1, <1>3, <1>4, <1>7, <1>8, TypesKept DEF ChanTypeOK
<1>10. QED BY <1>1, <1>6, <1>7, <1>9 DEF Before

LEMMA YieldsKeeps ==
  ASSUME NEW hole, Before(hole), SelectYields
  PROVE  Before(hole)'
<1>1. RtsInv /\ ChanTypeOK /\ hole \in HoleMap /\ IOYield /\ Me.pc = "sel_yield" /\ UNCHANGED hist /\ Running
  BY DEF Before, SelectYields, At
<1>2. /\ Cur \in Thread /\ UNCHANGED <<data, mval>> /\ mval[Cur] = NIL
      /\ Steps(IF Alone THEN NoRedex ELSE Pending("yield", NIL, NIL))
      /\ \A t \in Thread : KeptOrWoken(t)
  BY <1>1, YieldEffect
<1>3. state[Cur] = "runnable" /\ Me \in FrameSet
  BY <1>1, FrameIs
<1>4. PICK g \in FrameSet : /\ g.pc = IF Alone THEN "sel_delay" ELSE "sel_yield"
                            /\ frame' = [frame EXCEPT ![Cur] = g]
  <2> DEFINE g == [Me EXCEPT !.pc = IF Alone THEN "sel_delay" ELSE "sel_yield"]
  <2>1. g \in FrameSet /\ g.pc = IF Alone THEN "sel_delay" ELSE "sel_yield"
    BY <1>3 DEF FrameSet, Pcs
  <2>2. frame' = [frame EXCEPT ![Cur] = g]
    BY DEF SelectYields, Goes, Becomes
  <2>3. QED BY <2>1, <2>2
<1>5. PICK r : Steps(r) /\ (r.prim = "none" \/ (r.prim = "yield" /\ g.pc = "sel_yield"))
  BY <1>2, <1>4 DEF NoRedex, Pending
<1>6. /\ state[Cur] # "unborn" /\ UNCHANGED <<data, mval, sent, got>> /\ UNCHANGED <<used, nsent>>
      /\ \A t \in Thread : state'[t] = "unborn" => state[t] = "unborn"
      /\ frame[Cur].pc \notin WrPcs \cup RdPcs \cup Fresh
      /\ g.pc \notin WrPcs \cup RdPcs \cup Fresh \cup {"new_read", "new_write"}
  BY <1>1, <1>2, <1>3, <1>4 DEF hist, Me, WrPcs, RdPcs, Fresh, KeptOrWoken
<1>7. RunInv(hole)'
  BY <1>1, <1>2, <1>4, <1>5, <1>6, QuietKeeps
<1>8. RtsInv'
  BY <1>1, IOYieldOK
<1>9. ChanTypeOK'
  BY <1>1, <1>4, <1>8, TypesKept DEF ChanTypeOK, hist
<1>10. QED BY <1>1, <1>7, <1>8, <1>9 DEF Before

LEMMA SleepsKeeps ==
  ASSUME NEW hole, Before(hole), SelectSleeps
  PROVE  Before(hole)'
<1>1. /\ RtsInv /\ ChanTypeOK /\ hole \in HoleMap /\ Running /\ Me.pc = "sel_delay" /\ UNCHANGED hist
      /\ (DelayBegins(1) /\ frame' = frame) \/ (DelayReturns /\ Goes("try_take"))
  BY DEF Before, SelectSleeps, At
<1>2. /\ Cur \in Thread /\ UNCHANGED <<data, mval>> /\ mval[Cur] = NIL
      /\ \/ DelayReturns /\ Steps(NoRedex) /\ state' = state
         \/ /\ Steps(Pending("delay", NIL, NIL)) /\ state'[Cur] = "wait_time"
            /\ \A t \in Thread \ {Cur} : state'[t] = state[t]
  BY <1>1, DelayEffect
<1>3. state[Cur] = "runnable" /\ Me \in FrameSet /\ [Me EXCEPT !.pc = "try_take"] \in FrameSet
  BY <1>1, FrameIs DEF Pcs
<1>4. DelayBegins(1) => at[Cur] # -1
  BY DEF DelayBegins
<1>5. DelayReturns => at[Cur] = -1
  BY DEF DelayReturns
<1>6. PICK g, r :
        /\ g \in FrameSet
        /\ frame' = [frame EXCEPT ![Cur] = g] /\ Steps(r)
        /\ \/ g = frame[Cur] /\ r.prim = "delay" /\ g.pc = "sel_delay"
           \/ g.pc = "try_take" /\ r.prim = "none"
        /\ \A t \in Thread : state'[t] = "unborn" => state[t] = "unborn"
  <2>1. CASE DelayBegins(1) /\ frame' = frame
    <3>1. frame' = [frame EXCEPT ![Cur] = Me]
      BY <1>1, <1>2, <2>1, Types DEF Me
    <3>2. Steps(Pending("delay", NIL, NIL)) /\ \A t \in Thread : state'[t] = "unborn" => state[t] = "unborn"
      BY <1>2, <1>4, <1>5, <2>1
    <3>3. QED BY <1>1, <1>3, <3>1, <3>2 DEF Me, Pending
  <2>2. CASE DelayReturns /\ Goes("try_take")
    <3>1. Steps(NoRedex)
      BY <2>2 DEF DelayReturns, Completes, Steps
    <3>2. state' = state
      BY <2>2 DEF DelayReturns
    <3>3. frame' = [frame EXCEPT ![Cur] = [Me EXCEPT !.pc = "try_take"]] /\ [Me EXCEPT !.pc = "try_take"].pc = "try_take"
      BY <1>3, <2>2 DEF Goes, Becomes, FrameSet
    <3>4. QED BY <1>3, <3>1, <3>2, <3>3 DEF NoRedex, Pending
  <2>3. QED BY <1>1, <2>1, <2>2
<1>7. /\ state[Cur] # "unborn" /\ UNCHANGED <<data, mval, sent, got>> /\ UNCHANGED <<used, nsent>>
      /\ frame[Cur].pc \notin WrPcs \cup RdPcs \cup Fresh
      /\ g.pc \notin WrPcs \cup RdPcs \cup Fresh \cup {"new_read", "new_write"}
  BY <1>1, <1>2, <1>3, <1>6 DEF hist, Me, WrPcs, RdPcs, Fresh
<1>8. RunInv(hole)'
  BY <1>1, <1>2, <1>6, <1>7, QuietKeeps
<1>9. RtsInv'
  BY <1>1, DelayBeginsOK, DelayReturnsOK
<1>10. ChanTypeOK'
  BY <1>1, <1>6, <1>9, TypesKept DEF ChanTypeOK, hist
<1>11. QED BY <1>1, <1>8, <1>9, <1>10 DEF Before

LEMMA ForkKeeps ==
  ASSUME NEW hole, Before(hole), ForkClient
  PROVE  Before(hole)'
<1>1. RtsInv /\ ChanTypeOK /\ hole \in HoleMap /\ Running /\ Me.pc = "fork" /\ UNCHANGED hist
  BY DEF Before, ForkClient, At
<1>2. PICK t \in Thread : Fork(t)
  BY DEF ForkClient
<1>3. /\ Cur \in Thread /\ redex[Cur] = NoRedex /\ mval[Cur] = NIL
      /\ UNCHANGED <<redex, data, mval>> /\ state' = [state EXCEPT ![t] = "runnable"]
  BY <1>1, <1>2, ForkEffect
<1>4. Steps(NoRedex)
  BY <1>1, <1>3, Types DEF Steps
<1>5. PICK g \in FrameSet : g.pc \in {"idle", "fork"} /\ frame' = [frame EXCEPT ![Cur] = g]
  <2>1. PICK p \in {"idle", "fork"} : Goes(p)
    BY DEF ForkClient
  <2>2. [Me EXCEPT !.pc = p] \in FrameSet /\ [Me EXCEPT !.pc = p].pc = p
    BY <1>1, FrameIs DEF Pcs, FrameSet
  <2>3. QED BY <2>1, <2>2 DEF Goes, Becomes
<1>6. /\ state[Cur] # "unborn" /\ UNCHANGED <<data, mval, sent, got>> /\ UNCHANGED <<used, nsent>>
      /\ \A u \in Thread : state'[u] = "unborn" => state[u] = "unborn"
      /\ NoRedex.prim = "none"
      /\ frame[Cur].pc \notin WrPcs \cup RdPcs \cup Fresh
      /\ g.pc \notin WrPcs \cup RdPcs \cup Fresh \cup {"new_read", "new_write"}
  BY <1>1, <1>3, <1>5, FrameIs, Types DEF hist, Me, WrPcs, RdPcs, Fresh, NoRedex, Pending
<1>7. RunInv(hole)'
  BY <1>1, <1>3, <1>4, <1>5, <1>6, QuietKeeps
<1>8. RtsInv'
  BY <1>1, <1>2, ForkOK
<1>9. ChanTypeOK'
  BY <1>1, <1>5, <1>8, TypesKept DEF ChanTypeOK, hist
<1>10. QED BY <1>1, <1>7, <1>8, <1>9 DEF Before

(* A client ends, or the scheduler or the clock moves on.                  *)
LEMMA RestKeeps ==
  ASSUME NEW hole, Before(hole), Return \/ Slice \/ Pause \/ GiveUp \/ Time \/ UNCHANGED vars
  PROVE  Before(hole)'
<1>1. RtsInv /\ ChanTypeOK /\ hole \in HoleMap /\ RunInv(hole) /\ UNCHANGED <<frame, hist>>
  BY DEF Before, Return, Slice, Pause, GiveUp, Time, vars
<1>2. RtsInv' /\ UNCHANGED <<redex, data, mval>>
      /\ \A t \in Thread : state'[t] = "unborn" => state[t] = "unborn"
  <2>1. CASE Return
    <3>1. Ends("finished", "main_done")
      BY <2>1 DEF Return, Finish
    <3>2. UNCHANGED <<redex, data, mval>> /\ state' = [state EXCEPT ![Cur] = "finished"]
      BY <1>1, <3>1, EndsEffect
    <3>3. RtsInv'
      BY <1>1, <3>1, EndsOK
    <3>4. QED BY <1>1, <3>2, <3>3, Types
  <2>2. CASE Slice \/ Pause \/ GiveUp \/ Time
    <3>1. Preempt \/ PauseExec \/ Deadlock \/ Tick
      BY <2>2 DEF Slice, Pause, GiveUp, Time
    <3>2. UNCHANGED <<redex, data, mval>> /\ \A t \in Thread : KeptOrWoken(t)
      BY <1>1, <3>1, SchedulerEffect
    <3>3. RtsInv'
      BY <1>1, <3>1, PreemptOK, PauseExecOK, DeadlockOK, TickOK
    <3>4. QED BY <3>2, <3>3 DEF KeptOrWoken
  <2>3. CASE UNCHANGED vars
    BY <1>1, <2>3, RtsStutterOK DEF vars, rts, mvars
  <2>4. QED BY <2>1, <2>2, <2>3
<1>3. RunInv(hole)'
  BY <1>1, <1>2, IdleKeeps
<1>4. ChanTypeOK'
  BY <1>1, <1>2 DEF ChanTypeOK, hist, RtsInv
<1>5. QED BY <1>1, <1>2, <1>3, <1>4 DEF Before

LEMMA TypesKeptByEnd ==
  ASSUME NEW hole, Before(hole), RtsInv', NEW g \in FrameSet, Becomes(g), UNCHANGED hist
  PROVE  ChanTypeOK'
<1>1. frame' = [frame EXCEPT ![Cur] = g] /\ RtsInv /\ ChanTypeOK
  BY DEF Becomes, Before
<1>2. QED
  BY <1>1, TypesKept DEF ChanTypeOK, hist

LEMMA SendTakesStep ==
  ASSUME NEW hole, Before(hole), SendTakes
  PROVE  Before(hole)'
<1>1. /\ RtsInv /\ ChanTypeOK /\ hole \in HoleMap /\ Running /\ At("send_take") /\ Me.pc = "send_take"
  BY DEF Before, SendTakes, TakesEnd, At
<1>2. Me \in FrameSet /\ Me.ch \in Channel /\ Wr[Me.ch] \in MVar
  BY <1>1, FrameIs, TwoEnds
<1>3. CASE Waits(Wr[Me.ch])
  BY <1>1, <1>2, <1>3, WaitsKeeps DEF TakePcs, Wanted
<1>4. ASSUME NEW v, TakeMVar(Wr[Me.ch], v),
             Becomes([Me EXCEPT !.pc = "send_link", !.end = v]), UNCHANGED hist
      PROVE  Before(hole)'
  <2>1. RunInv(hole)' /\ v = Last(hole, Me.ch)
    BY <1>1, <1>4, SendTakesKeeps
  <2>2. RtsInv'
    BY <1>1, <1>2, <1>4, TakeMVarOK
  <2>3. v \in Hole
    BY <1>2, <2>1, HoleFacts
  <2>4. [Me EXCEPT !.pc = "send_link", !.end = v] \in FrameSet
    BY <1>2, <2>3 DEF FrameSet, Pcs
  <2>5. ChanTypeOK'
    BY <1>4, <2>2, <2>4, TypesKeptByEnd
  <2>6. QED BY <1>1, <2>1, <2>2, <2>5 DEF Before
<1>5. QED BY <1>3, <1>4 DEF SendTakes, TakesEnd

LEMMA ReadTakesStep ==
  ASSUME NEW hole, Before(hole), RecvTakes \/ TryRecvTakes
  PROVE  Before(hole)'
<1>1. PICK p \in {"recv_take", "try_take"}, q \in {"recv_item", "try_item"} : TakesEnd(p, Rd[Me.ch], q)
  BY DEF RecvTakes, TryRecvTakes
<1>2. /\ RtsInv /\ ChanTypeOK /\ hole \in HoleMap /\ Running /\ At(p) /\ Me.pc = p
  BY <1>1 DEF Before, TakesEnd, At
<1>3. Me \in FrameSet /\ Me.ch \in Channel /\ Rd[Me.ch] \in MVar
  BY <1>2, FrameIs, TwoEnds
<1>4. CASE Waits(Rd[Me.ch])
  BY <1>2, <1>3, <1>4, WaitsKeeps DEF TakePcs, Wanted
<1>5. ASSUME NEW v, TakeMVar(Rd[Me.ch], v),
             Becomes([Me EXCEPT !.pc = q, !.end = v]), UNCHANGED hist
      PROVE  Before(hole)'
  <2>1. RunInv(hole)' /\ v = First(hole, Me.ch)
    BY <1>1, <1>2, <1>5, ReadTakesKeeps
  <2>2. RtsInv'
    BY <1>2, <1>3, <1>5, TakeMVarOK
  <2>3. v \in Hole
    BY <1>3, <2>1, HoleFacts
  <2>4. [Me EXCEPT !.pc = q, !.end = v] \in FrameSet
    BY <1>2, <1>3, <2>3 DEF FrameSet, Pcs
  <2>5. ChanTypeOK'
    BY <1>5, <2>2, <2>4, TypesKeptByEnd
  <2>6. QED BY <1>2, <2>1, <2>2, <2>5 DEF Before
<1>6. QED BY <1>1, <1>4, <1>5 DEF TakesEnd

LEMMA SendReleasesStep ==
  ASSUME NEW hole, Before(hole), OneTakeWaits, SendReleases
  PROVE  Before(hole)'
<1>1. /\ RtsInv /\ ChanTypeOK /\ hole \in HoleMap /\ Running /\ At("send_release") /\ Me.pc = "send_release"
  BY DEF Before, SendReleases, PutsEnd, At
<1>2. Me.ch \in Channel /\ Wr[Me.ch] \in MVar /\ Idle \in FrameSet
  BY <1>1, FrameIs, TwoEnds
<1>3. PutMVar(Wr[Me.ch], Me.new) /\ Becomes(Idle) /\ UNCHANGED hist
  BY <1>1, PutsGoOn DEF SendReleases, PutsEnd, PWaits, PutMVarBlocks
<1>4. RunInv(hole)' /\ Me.new = Last(hole, Me.ch)
  BY <1>1, <1>3, SendReleasesKeeps
<1>5. RtsInv'
  BY <1>1, <1>2, <1>3, <1>4, HoleFacts, Names, PutMVarOK
<1>6. ChanTypeOK'
  BY <1>2, <1>3, <1>5, TypesKeptByEnd
<1>7. QED BY <1>1, <1>4, <1>5, <1>6 DEF Before

LEMMA ReadReleasesFrom ==
  ASSUME NEW hole, Before(hole), OneTakeWaits, NEW p \in {"recv_release", "try_nothing"}, NEW v,
         \/ p = "recv_release" /\ v = Me.item.next
         \/ p = "try_nothing" /\ v = Me.end,
         NEW g \in FrameSet, g.pc \in {"idle", "try_take", "sel_yield"},
         PutsEnd(p, Rd[Me.ch], v, g)
  PROVE  Before(hole)'
<1>1. /\ RtsInv /\ ChanTypeOK /\ hole \in HoleMap /\ Running /\ At(p) /\ Me.pc = p
  BY DEF Before, PutsEnd, At
<1>2. Me.ch \in Channel /\ Rd[Me.ch] \in MVar
  BY <1>1, FrameIs, TwoEnds
<1>3. PutMVar(Rd[Me.ch], v) /\ Becomes(g) /\ UNCHANGED hist
  BY <1>1, PutsGoOn DEF PutsEnd, PWaits, PutMVarBlocks
<1>4. RunInv(hole)' /\ v = First(hole, Me.ch)
  BY <1>1, <1>3, ReadReleasesKeeps
<1>5. RtsInv'
  BY <1>1, <1>2, <1>3, <1>4, HoleFacts, Names, PutMVarOK
<1>6. ChanTypeOK'
  BY <1>3, <1>5, TypesKeptByEnd
<1>7. QED BY <1>1, <1>4, <1>5, <1>6 DEF Before

LEMMA ReadReleasesStep ==
  ASSUME NEW hole, Before(hole), OneTakeWaits, RecvReleases \/ TryRecvNothing
  PROVE  Before(hole)'
<1>1. CASE RecvReleases
  <2>1. Running
    BY <1>1 DEF RecvReleases, PutsEnd, At
  <2>2. Idle \in FrameSet /\ Idle.pc = "idle"
    BY <2>1, FrameIs DEF Before, Idle, Frame
  <2>3. PutsEnd("recv_release", Rd[Me.ch], Me.item.next, Idle)
    BY <1>1 DEF RecvReleases
  <2>4. QED BY <2>2, <2>3, ReadReleasesFrom
<1>2. CASE TryRecvNothing
  <2>1. Running
    BY <1>2 DEF TryRecvNothing, PutsEnd, At
  <2>2. Idle \in FrameSet /\ Idle.pc = "idle" /\ Me.ch \in Channel
    BY <2>1, FrameIs DEF Before, Idle, Frame
  <2>3. PICK p \in {"try_take", "sel_yield"}, c \in Channel :
          /\ p = IF Me.ch < NChan THEN "try_take" ELSE "sel_yield"
          /\ c = IF Me.ch < NChan THEN Me.ch + 1 ELSE 1
    BY <2>2, Names DEF Channel
  <2>4. /\ [Frame(p, c) EXCEPT !.sel = TRUE] \in FrameSet
        /\ [Frame(p, c) EXCEPT !.sel = TRUE].pc = p
    BY <2>3 DEF Frame, FrameSet, Pcs
  <2>5. PICK g : /\ g = (IF ~Me.sel THEN Idle
                          ELSE [Frame(IF Me.ch < NChan THEN "try_take" ELSE "sel_yield",
                                      IF Me.ch < NChan THEN Me.ch + 1 ELSE 1) EXCEPT !.sel = TRUE])
                 /\ PutsEnd("try_nothing", Rd[Me.ch], Me.end, g)
    BY <1>2 DEF TryRecvNothing
  <2>6. g = Idle \/ g = [Frame(p, c) EXCEPT !.sel = TRUE]
    BY <2>3, <2>5, Zenon
  <2>7. g \in FrameSet /\ g.pc \in {"idle", "try_take", "sel_yield"}
    BY <2>2, <2>3, <2>4, <2>6
  <2>8. QED BY <2>5, <2>7, ReadReleasesFrom
<1>3. QED BY <1>1, <1>2

(* What a receiver and a sender do to the messages.                        *)
Receives(c) ==
  /\ NGot(c) < NSent(c) /\ sent' = sent
  /\ got' = [got EXCEPT ![c] = Append(@, sent[c][NGot(c) + 1])]
Links(c) == got' = got /\ \E msg \in Msg : sent' = [sent EXCEPT ![c] = Append(@, msg)]

LEMMA ReceivedKeeps ==
  ASSUME NEW hole, Before(hole), Running, Me.pc \in {"recv_item", "try_item"}, NEW v \in Value,
         Steps(NoRedex), Gets(Me.end, v), \A t \in Thread : KeptOrWoken(t),
         RtsInv', Received(v, "recv_release")
  PROVE  Before(hole)' /\ \E c \in Channel : Receives(c)
<1>1. RtsInv /\ ChanTypeOK /\ hole \in HoleMap
  BY DEF Before
<1>2. PICK me \in Thread, c \in Channel : me = Cur /\ c = frame[me].ch
  BY <1>1, FrameIs DEF Me
<1>3. state[Cur] # "unborn" /\ Me \in FrameSet /\ Me = frame[me]
  BY <1>1, <1>2, FrameIs DEF Me
<1>4. /\ NGot(c) < NSent(c) /\ v \in ChItem /\ v.val = sent[c][NGot(c) + 1] /\ v.val \in Msg
  BY <1>2, <1>3, ItemIs DEF ChItem
<1>5. PICK g \in FrameSet : /\ g.pc = "recv_release" /\ g.ch = c /\ g.item = v
                            /\ frame' = [frame EXCEPT ![Cur] = g]
  <2> DEFINE g == [Me EXCEPT !.pc = "recv_release", !.item = v]
  <2>1. g \in FrameSet /\ g.pc = "recv_release" /\ g.ch = c /\ g.item = v
    BY <1>2, <1>3, <1>4 DEF FrameSet, Pcs
  <2>2. frame' = [frame EXCEPT ![Cur] = g]
    BY DEF Received, Becomes
  <2>3. QED BY <2>1, <2>2
<1>6. /\ got' = [got EXCEPT ![c] = Append(@, v.val)]
      /\ UNCHANGED <<used, nsent, sent>> /\ client' = client
  BY <1>2, <1>3 DEF Received
<1>7. Moves(frame[me].end, v, g) /\ Gets(frame[me].end, v)
  BY <1>3, <1>5 DEF Moves
<1>8. RunInv(hole)'
  BY <1>2, <1>3, <1>5, <1>6, <1>7, ItemTakenKeeps
<1>9. /\ sent \in [Channel -> Seq(Msg)] /\ got \in [Channel -> Seq(Msg)] /\ used \subseteq Hole
      /\ nsent \in [Thread -> 0..MaxSends]
  BY <1>1 DEF ChanTypeOK
<1>10. got' \in [Channel -> Seq(Msg)]
  <2>1. Append(got[c], v.val) \in Seq(Msg)
    BY <1>4, <1>9, AppendProperties
  <2>2. QED BY <1>6, <1>9, <2>1
<1>11. ChanTypeOK'
  BY <1>1, <1>5, <1>6, <1>9, <1>10, TypesKept
<1>12. Receives(c)
  BY <1>4, <1>6 DEF Receives
<1>13. QED BY <1>1, <1>8, <1>11, <1>12 DEF Before

LEMMA ReceiveStep ==
  ASSUME NEW hole, Before(hole), RecvItem \/ TryRecvItem
  PROVE  /\ Before(hole)'
         /\ UNCHANGED <<sent, got>> \/ \E c \in Channel : Receives(c)
<1>1. /\ RtsInv /\ ChanTypeOK /\ hole \in HoleMap /\ Running
      /\ Me.pc = IF RecvItem THEN "recv_item" ELSE "try_item"
  BY DEF Before, RecvItem, TryRecvItem, At
<1>2. Me \in FrameSet /\ Me.ch \in Channel /\ Cur \in Thread
  BY <1>1, FrameIs
<1>3. Me.pc \in {"recv_item", "try_item"}
  BY <1>1
<1>4. Me.end = First(hole, Me.ch) /\ Me.end \in MVar
  <2>1. Holds(hole, Cur)
    BY <1>2 DEF Before, RunInv, ThreadsHold
  <2>2. QED BY <1>2, <1>3, <2>1, HoleFacts, Names DEF Holds, Me
<1>5. CASE RecvItem
  <2>1. CASE Waits(Me.end)
    <3>1. Me.pc \in TakePcs /\ Me.end = Wanted(Me)
      BY <1>1, <1>5 DEF TakePcs, Wanted
    <3>2. Before(hole)'
      BY <1>4, <2>1, <3>1, WaitsKeeps
    <3>3. QED BY <2>1, <3>2 DEF Waits, hist
  <2>2. CASE TakeMVar(Me.end, Available(Me.end)) /\ Received(Available(Me.end), "recv_release")
    <3>1. PICK v : v = Available(Me.end)
      OBVIOUS
    <3>2. TakeMVar(Me.end, v) /\ Received(v, "recv_release")
      BY <2>2, <3>1
    <3>3. /\ v \in Value /\ Steps(NoRedex) /\ Gets(Me.end, v) /\ \A t \in Thread : KeptOrWoken(t)
      BY <1>1, <1>4, <3>2, TakeGets
    <3>4. RtsInv'
      BY <1>1, <1>4, <3>2, TakeMVarOK
    <3>5. QED BY <1>1, <1>3, <3>2, <3>3, <3>4, ReceivedKeeps
  <2>3. QED BY <1>5, <2>1, <2>2 DEF RecvItem
<1>6. CASE TryRecvItem
  <2>1. PICK v : /\ TryTakeMVar(Me.end, v)
                 /\ v = NIL => Goes("try_nothing") /\ UNCHANGED hist
                 /\ v # NIL => Received(v, "recv_release")
    BY <1>6 DEF TryRecvItem
  <2>2. /\ Steps(NoRedex) /\ mval[Cur] = NIL /\ mval' = mval /\ v = data[Me.end]
        /\ data' = [data EXCEPT ![Me.end] = NIL]
        /\ \A t \in Thread : KeptOrWoken(t)
    BY <1>1, <1>4, <2>1, TryTakeEffect
  <2>3. RtsInv'
    BY <1>1, <1>4, <2>1, TryTakeMVarOK
  <2>4. CASE v # NIL
    <3>1. v \in Value /\ Gets(Me.end, v)
      BY <1>1, <1>4, <2>2, <2>4, Types DEF Gets
    <3>2. QED BY <1>1, <1>3, <2>1, <2>2, <2>3, <2>4, <3>1, ReceivedKeeps
  <2>5. CASE v = NIL
    <3>1. data' = data /\ UNCHANGED <<data, mval, sent, got>> /\ UNCHANGED <<used, nsent>>
      BY <1>1, <2>1, <2>2, <2>5, Types DEF hist
    <3>2. PICK g \in FrameSet : /\ frame' = [frame EXCEPT ![Cur] = g] /\ Becomes(g)
                                /\ g.pc = "try_nothing" /\ g.ch = Me.ch /\ g.end = Me.end
      <4> DEFINE g == [Me EXCEPT !.pc = "try_nothing"]
      <4>1. g \in FrameSet /\ g.pc = "try_nothing" /\ g.ch = Me.ch /\ g.end = Me.end
        BY <1>2 DEF FrameSet, Pcs
      <4>2. frame' = [frame EXCEPT ![Cur] = g] /\ Becomes(g)
        BY <2>1, <2>5 DEF Goes, Becomes
      <4>3. QED BY <4>1, <4>2
    <3>3. /\ state[Cur] # "unborn" /\ NoRedex.prim = "none"
          /\ \A t \in Thread : state'[t] = "unborn" => state[t] = "unborn"
          /\ frame[Cur].pc = "try_item" /\ g.ch = frame[Cur].ch /\ g.end = frame[Cur].end
      BY <1>1, <1>6, <2>2, <3>2, FrameIs DEF KeptOrWoken, NoRedex, Pending, Me, TryRecvItem, At
    <3>4. RunInv(hole)'
      BY <1>2, <2>2, <3>1, <3>2, <3>3, QuietKeeps
    <3>5. ChanTypeOK'
      BY <2>1, <2>3, <2>5, <3>2, TypesKeptByEnd
    <3>6. QED BY <1>1, <2>3, <3>1, <3>4, <3>5 DEF Before
  <2>6. QED BY <2>4, <2>5
<1>7. QED BY <1>5, <1>6

LEMMA SendLinksStep ==
  ASSUME NEW hole, Before(hole), OneTakeWaits, SendLinks
  PROVE  (\E more : Before(more)') /\ \E c \in Channel : Links(c)
<1>1. RtsInv /\ ChanTypeOK /\ hole \in HoleMap /\ Running /\ Me.pc = "send_link"
  BY DEF Before, SendLinks, At
<1>2. PICK me \in Thread, c \in Channel : me = Cur /\ c = frame[me].ch
  BY <1>1, FrameIs DEF Me
<1>3. /\ state[Cur] # "unborn" /\ Me \in FrameSet /\ Me = frame[me] /\ frame[me].pc = "send_link"
      /\ Me.end = Last(hole, c) /\ Me.end \in MVar
  <2>1. state[Cur] # "unborn" /\ Me \in FrameSet /\ Me = frame[me] /\ frame[me].pc = "send_link"
    BY <1>1, <1>2, FrameIs DEF Me
  <2>2. Holds(hole, me)
    BY DEF Before, RunInv, ThreadsHold
  <2>3. QED BY <1>2, <2>1, <2>2, HoleFacts, Names DEF Holds
<1>4. PICK new : new = Me.new
  OBVIOUS
<1>5. new \in Hole
  <2>1. frame[me].new \in used /\ used \subseteq Hole
    BY <1>1, <1>3, Types DEF Before, RunInv, NewHoles, Fresh
  <2>2. QED BY <1>3, <1>4, <2>1
<1>6. PICK msg : msg = <<Cur, nsent[Cur]>>
  OBVIOUS
<1>7. msg \in Msg
  <2>1. nsent[me] > 0 /\ nsent[me] \in 0..MaxSends
    BY <1>1, <1>3 DEF Before, RunInv, Forked, Fresh, ChanTypeOK
  <2>2. nsent[me] \in 1..MaxSends
    BY <2>1, ChanAssumption
  <2>3. QED BY <1>2, <1>6, <2>2 DEF Msg
<1>8. PICK v : v = [val |-> msg, next |-> new]
  OBVIOUS
<1>9. v \in Value
  BY <1>5, <1>7, <1>8, Names DEF ChItem
<1>10. PutMVar(Me.end, v) /\ sent' = [sent EXCEPT ![c] = Append(@, msg)] /\ Goes("send_release")
       /\ UNCHANGED <<client, used, nsent, got>>
  <2>1. data[Me.end] = NIL
    BY <1>1, PutsGoOn
  <2>2. QED BY <1>2, <1>3, <1>4, <1>6, <1>8, <2>1 DEF SendLinks, PWaits, PutMVarBlocks
<1>11. /\ Steps(NoRedex) /\ Gives(Me.end, v) /\ mval[Cur] = NIL /\ \A t \in Thread : KeptOrWoken(t)
  BY <1>3, <1>9, <1>10, PutGives
<1>12. RtsInv'
  BY <1>1, <1>3, <1>9, <1>10, PutMVarOK
<1>13. PICK g \in FrameSet : /\ g.pc = "send_release" /\ g.ch = c /\ g.new = new
                             /\ frame' = [frame EXCEPT ![Cur] = g]
  <2> DEFINE g == [Me EXCEPT !.pc = "send_release"]
  <2>1. g \in FrameSet /\ g.pc = "send_release" /\ g.ch = c /\ g.new = new
    BY <1>2, <1>3, <1>4 DEF FrameSet, Pcs
  <2>2. frame' = [frame EXCEPT ![Cur] = g]
    BY <1>10 DEF Goes, Becomes
  <2>3. QED BY <2>1, <2>2
<1>14. Moves(frame[me].end, v, g) /\ Gives(frame[me].end, v)
  BY <1>3, <1>11, <1>13 DEF Moves
<1>15. PICK more : more = [hole EXCEPT ![c] = [@ EXCEPT ![NSent(c) + 2] = new]]
  OBVIOUS
<1>16. Longer(hole, more, c, v, new)
  <2>1. got' = got /\ sent' = [sent EXCEPT ![c] = Append(@, msg)]
    BY <1>10
  <2>2. QED BY <1>5, <1>7, <1>8, <1>15, <2>1, LongerChain
<1>17. RunInv(more)' /\ more \in HoleMap
  <2>1. UNCHANGED <<used, nsent>> /\ new = frame[me].new
    BY <1>3, <1>4, <1>10
  <2>2. RunInv(more)'
    BY <1>2, <1>3, <1>9, <1>13, <1>14, <1>16, <2>1, ItemLinkedKeeps
  <2>3. QED BY <1>16, <2>2 DEF Longer
<1>18. ChanTypeOK'
  <2>1. /\ sent \in [Channel -> Seq(Msg)] /\ got \in [Channel -> Seq(Msg)] /\ used \subseteq Hole
        /\ nsent \in [Thread -> 0..MaxSends]
    BY <1>1 DEF ChanTypeOK
  <2>2. Append(sent[c], msg) \in Seq(Msg)
    BY <1>7, <2>1, AppendProperties
  <2>3. sent' \in [Channel -> Seq(Msg)]
    BY <1>10, <2>1, <2>2
  <2>4. QED BY <1>1, <1>10, <1>12, <1>13, <2>1, <2>3, TypesKept
<1>19. Links(c)
  BY <1>7, <1>10 DEF Links
<1>20. QED BY <1>12, <1>17, <1>18, <1>19 DEF Before

LEMMA RunStep ==
  ASSUME NEW hole, Before(hole), OneTakeWaits, [Next]_vars
  PROVE  /\ \E more : Before(more)'
         /\ UNCHANGED <<sent, got>> \/ \E c \in Channel : Receives(c) \/ Links(c)
<1>1. ~At("new_read") /\ ~At("new_write")
  BY FrameIs DEF Before, RunInv, Forked, At, Me
<1>2. CASE NewReadEnd \/ NewWriteEnd
  BY <1>1, <1>2 DEF NewReadEnd, NewWriteEnd
<1>3. CASE ForkClient
  BY <1>3, ForkKeeps DEF ForkClient, hist
<1>4. CASE \E c \in Channel : SendStarts(c)
  BY <1>4, SendStartsKeeps DEF SendStarts
<1>5. CASE \E c \in Channel : RecvStarts(c) \/ TryRecvStarts(c)
  <2>1. PICK c \in Channel : RecvStarts(c) \/ TryRecvStarts(c)
    BY <1>5
  <2>2. /\ Frame("recv_take", c) \in FrameSet /\ Frame("recv_take", c).pc = "recv_take"
        /\ Frame("try_take", c) \in FrameSet /\ Frame("try_take", c).pc = "try_take"
    BY DEF Frame, FrameSet, Pcs
  <2>3. Before(hole)'
    BY <2>1, <2>2, EntersKeeps DEF RecvStarts, TryRecvStarts
  <2>4. QED BY <2>1, <2>3 DEF RecvStarts, TryRecvStarts, Enters, hist
<1>6. CASE SelectStarts
  <2>1. PICK f : /\ f = [Frame("try_take", 1) EXCEPT !.sel = TRUE]
                 /\ Enters("select", 1, f)
    BY <1>6 DEF SelectStarts
  <2>2. f \in FrameSet /\ f.pc = "try_take" /\ 1 \in Channel
    BY <2>1, Names DEF Frame, FrameSet, Pcs
  <2>3. Before(hole)'
    BY <2>1, <2>2, EntersKeeps
  <2>4. QED BY <2>1, <2>3 DEF Enters, hist
<1>7. CASE SendTakes
  BY <1>7, SendTakesStep DEF SendTakes, TakesEnd, Waits, hist
<1>8. CASE SendLinks
  BY <1>8, SendLinksStep
<1>9. CASE SendReleases
  BY <1>9, SendReleasesStep DEF SendReleases, PutsEnd, PWaits, hist
<1>10. CASE RecvTakes \/ TryRecvTakes
  BY <1>10, ReadTakesStep DEF RecvTakes, TryRecvTakes, TakesEnd, Waits, hist
<1>11. CASE RecvItem \/ TryRecvItem
  BY <1>11, ReceiveStep
<1>12. CASE RecvReleases \/ TryRecvNothing
  BY <1>12, ReadReleasesStep DEF RecvReleases, TryRecvNothing, PutsEnd, PWaits, hist
<1>13. CASE SelectYields
  BY <1>13, YieldsKeeps DEF SelectYields, hist
<1>14. CASE SelectSleeps
  BY <1>14, SleepsKeeps DEF SelectSleeps, hist
<1>15. CASE Return \/ Slice \/ Pause \/ GiveUp \/ Time \/ UNCHANGED vars
  BY <1>15, RestKeeps DEF Return, Slice, Pause, GiveUp, Time, vars, hist
<1>16. QED
  BY <1>2, <1>3, <1>4, <1>5, <1>6, <1>7, <1>8, <1>9, <1>10, <1>11, <1>12, <1>13, <1>14, <1>15
  DEF Next, Ops

(* ---- While newChan runs. ---------------------------------------------- *)

(* Only the main thread can run.                                           *)
LEMMA MainAlone ==
  ASSUME RtsInv, ChanTypeOK, NEW hole, StartInv(hole), Starting
  PROVE  /\ \A t \in Thread : mval[t] = NIL /\ (t # Main => state[t] = "unborn")
         /\ Running => Cur = Main /\ Me.pc \in {"new_read", "new_write"} /\ mval[Cur] = NIL
         /\ \A t \in Thread \ {Cur} : Running => state[t] # "wait_mvar"
         /\ \A m \in MVar : Running => OneTakeWaitsAt(m) /\ rd[m] = <<>>
<1>1. \A t \in Thread : redex[t].prim = "none" /\ (t # Main => state[t] = "unborn")
  BY DEF StartInv
<1>2. \A t \in Thread : mval[t] = NIL
  BY <1>1 DEF RtsInv, StashIsForTake
<1>3. Running => Cur = Main /\ Me.pc \in {"new_read", "new_write"} /\ mval[Cur] = NIL
                 /\ Cur \in Thread /\ state[Cur] = "runnable"
  BY <1>1, <1>2, CurFacts DEF Starting, Me
<1>4. ASSUME NEW m \in MVar, Running PROVE OneTakeWaitsAt(m) /\ rd[m] = <<>>
  <2>1. rd[m] = <<>>
    BY <1>1, NoReaders
  <2>2. \A t \in Thread : ~InQ(takeput[m], t)
    BY <1>1 DEF RtsInv, OneQueue
  <2>3. QED BY <2>1, <2>2 DEF OneTakeWaitsAt
<1>5. QED BY <1>1, <1>2, <1>3, <1>4

LEMMA StartPut ==
  ASSUME RtsInv, ChanTypeOK, NEW hole, StartInv(hole), Starting,
         NEW m \in MVar, NEW v \in Value, PutMVar(m, v)
  PROVE  /\ Running /\ RtsInv' /\ redex' = redex /\ mval' = mval
         /\ data' = [data EXCEPT ![m] = v]
         /\ \A t \in Thread : state'[t] = state[t]
<1>1. Running /\ RtsInv'
  BY PutMVarOK DEF PutMVar, Executes
<1>2. /\ \A t \in Thread \ {Cur} : state[t] # "wait_mvar"
      /\ OneTakeWaitsAt(m) /\ rd[m] = <<>> /\ Cur = Main
      /\ \A t \in Thread : t # Main => state[t] = "unborn"
  BY <1>1, MainAlone
<1>3. /\ Cur \in Thread /\ Steps(NoRedex) /\ Gives(m, v) /\ \A t \in Thread : KeptOrWoken(t)
  BY <1>2, PutEffect
<1>4. data' = [data EXCEPT ![m] = v] /\ mval' = mval
  BY <1>2, <1>3 DEF Gives, HandsTo
<1>5. state[Cur] = "runnable" /\ redex[Cur] \in {NoRedex, Pending("put", m, v)}
      /\ redex[Cur].prim = "none" /\ redex \in [Thread -> Redex]
  BY <1>1, <1>3, CurFacts, Types DEF PutMVar, Executes, StartInv
<1>6. redex' = redex
  BY <1>3, <1>5 DEF Steps, Pending
<1>7. \A t \in Thread : state'[t] = state[t]
  BY <1>2, <1>3, <1>5 DEF KeptOrWoken
<1>8. QED BY <1>1, <1>4, <1>6, <1>7

LEMMA NewReadKeeps ==
  ASSUME RtsInv, ChanTypeOK, NEW hole \in HoleMap, StartInv(hole), Starting, NewReadEnd
  PROVE  /\ RtsInv' /\ ChanTypeOK' /\ UNCHANGED <<sent, got>>
         /\ \E more \in HoleMap : InvOf(more)'
<1>1. /\ Cur = Main /\ Main \in Thread /\ Me = frame[Main] /\ Me.pc = "new_read"
      /\ Me \in FrameSet /\ Me.ch \in Channel
  BY MainAlone, FrameIs, ThreadAssumption DEF NewReadEnd, At, Me
<1>2. PICK c, new : c \in Channel /\ c = Me.ch /\ new = NewHole
  BY <1>1
<1>3. /\ new \in Hole \ used /\ new \in Hole /\ new \notin used /\ new \in MVar /\ new \in Value /\ used \subseteq Hole
  BY <1>2, Types, Names DEF NewReadEnd, NewHole
<1>4. c \in Channel /\ Rd[c] \in MVar /\ Rd[c] \notin Hole
  BY <1>2, TwoEnds
<1>5. /\ RtsInv' /\ redex' = redex /\ mval' = mval /\ data' = [data EXCEPT ![Rd[c]] = new]
      /\ \A t \in Thread : state'[t] = state[t]
  BY <1>2, <1>3, <1>4, StartPut DEF NewReadEnd
<1>6. used' = used \cup {new} /\ UNCHANGED <<client, nsent, sent, got>>
  BY <1>2 DEF NewReadEnd
<1>7. PICK g \in FrameSet : /\ g.pc = "new_write" /\ g.ch = c /\ g.end = new
                            /\ frame' = [frame EXCEPT ![Cur] = g]
  <2> DEFINE g == [Me EXCEPT !.pc = "new_write", !.end = new]
  <2>1. g \in FrameSet /\ g.pc = "new_write" /\ g.ch = c /\ g.end = new
    BY <1>1, <1>2, <1>3 DEF FrameSet, Pcs
  <2>2. frame' = [frame EXCEPT ![Cur] = g]
    BY <1>2 DEF NewReadEnd, Becomes
  <2>3. QED BY <2>1, <2>2
<1>8. ChanTypeOK'
  BY <1>3, <1>5, <1>6, <1>7, TypesKept DEF ChanTypeOK
<1>9. PICK more : more = [hole EXCEPT ![c] = [@ EXCEPT ![1] = new]]
  OBVIOUS
<1>10. /\ more \in HoleMap /\ more[c][1] = new
       /\ \A d \in Channel \ {c} : more[d][1] = hole[d][1]
  BY <1>3, <1>4, <1>9 DEF HoleMap
<1>11. /\ frame'[Main] = g /\ \A t \in Thread \ {Main} : frame'[t] = frame[t]
  BY <1>1, <1>7, Types
<1>12. \A d \in Channel : ReadMade(d)' <=> ReadMade(d) \/ d = c
  BY <1>1, <1>2, <1>7, <1>11, Names DEF ReadMade
<1>13. ~ReadMade(c)
  BY <1>1, <1>2, Names DEF ReadMade
<1>14. StartInv(more)'
  <2>1. \A t \in Thread : redex'[t].prim = "none"
    BY <1>5 DEF StartInv
  <2>2. \A t \in Thread \ {Main} : state'[t] = "unborn" /\ frame'[t].pc = "idle"
    BY <1>5, <1>11 DEF StartInv
  <2>3. \A h \in Hole : data'[h] = NIL
    BY <1>4, <1>5, Names DEF StartInv
  <2>4. frame'[Main].end = more[frame'[Main].ch][1]
    BY <1>7, <1>10, <1>11
  <2>5. ASSUME NEW d \in Channel
        PROVE  /\ sent'[d] = <<>> /\ got'[d] = <<>>
               /\ data'[Rd[d]] = IF ReadMade(d)' THEN more[d][1] ELSE NIL
               /\ data'[Wr[d]] = IF d < frame'[Main].ch THEN more[d][1] ELSE NIL
               /\ ReadMade(d)' => more[d][1] \in used'
    <3>1. /\ sent[d] = <<>> /\ got[d] = <<>>
          /\ data[Rd[d]] = IF ReadMade(d) THEN hole[d][1] ELSE NIL
          /\ data[Wr[d]] = IF d < frame[Main].ch THEN hole[d][1] ELSE NIL
          /\ ReadMade(d) => hole[d][1] \in used
      BY DEF StartInv
    <3>2. Rd[d] \in MVar /\ Wr[d] \in MVar /\ Wr[d] # Rd[c] /\ (d # c => Rd[d] # Rd[c])
      BY <1>4, TwoEnds
    <3>3. data'[Wr[d]] = data[Wr[d]] /\ data'[Rd[d]] = IF d = c THEN new ELSE data[Rd[d]]
      BY <1>4, <1>5, <3>2, Types
    <3>4. frame'[Main].ch = frame[Main].ch /\ ~(c < c)
      BY <1>1, <1>2, <1>7, <1>11, Names
    <3>5. CASE d = c
      BY <1>1, <1>2, <1>6, <1>10, <1>12, <1>13, <3>1, <3>3, <3>4, <3>5
    <3>6. CASE d # c
      BY <1>6, <1>10, <1>12, <3>1, <3>3, <3>4, <3>6
    <3>7. QED BY <3>5, <3>6
  <2>6. ASSUME NEW d \in Channel, NEW e \in Channel, ReadMade(d)', ReadMade(e)', more[d][1] = more[e][1]
        PROVE  d = e
    BY <1>3, <1>10, <1>12, <2>6 DEF StartInv
  <2>7. QED BY <2>1, <2>2, <2>3, <2>4, <2>5, <2>6 DEF StartInv
<1>15. Starting'
  BY <1>7, <1>11 DEF Starting
<1>16. QED BY <1>5, <1>6, <1>8, <1>10, <1>14, <1>15 DEF InvOf

(* With both ends of every channel made, the run begins (the lemma is      *)
(* about the state after the step that made the last one).                 *)
LEMMA RunBegins ==
  ASSUME RtsInv', ChanTypeOK', NEW hole \in HoleMap,
         \A t \in Thread : redex'[t].prim = "none" /\ frame'[t].pc \in {"idle", "fork"}
                           /\ (state'[t] = "unborn" => frame'[t].pc = "idle"),
         \A h \in Hole : data'[h] = NIL,
         \A c \in Channel : /\ sent'[c] = <<>> /\ got'[c] = <<>> /\ hole[c][1] \in used'
                            /\ data'[Rd[c]] = hole[c][1] /\ data'[Wr[c]] = hole[c][1],
         \A c, d \in Channel : hole[c][1] = hole[d][1] => c = d
  PROVE  RunInv(hole)'
<1>1. \A c \in Channel : /\ NSent(c)' = 0 /\ NGot(c)' = 0 /\ Linked(c)' = 1..1
                         /\ First(hole, c)' = hole[c][1] /\ Last(hole, c)' = hole[c][1]
                         /\ hole[c][1] \in Hole /\ hole[c][1] # NIL
  <2>1. ASSUME NEW c \in Channel PROVE NSent(c)' = 0 /\ NGot(c)' = 0 /\ hole[c][1] \in Hole
    <3>1. used' \subseteq Hole
      BY DEF ChanTypeOK
    <3>2. sent'[c] = <<>> /\ got'[c] = <<>> /\ hole[c][1] \in used'
      OBVIOUS
    <3>3. QED BY <3>1, <3>2, EmptySeq DEF NSent, NGot
  <2>2. QED BY <2>1, Names DEF First, Last, Linked
<1>2. \A t \in Thread : mval'[t] = NIL
  BY DEF RtsInv, StashIsForTake
<1>3. Suspended'
  BY DEF Suspended
<1>4. Forked'
  BY DEF Forked, Fresh
<1>5. Locks'
  <2>1. \A t \in Thread : \A m : ~Has(t, m, WrPcs)' /\ ~Has(t, m, RdPcs)'
    BY <1>2 DEF Has, Stashed, Inside, WrPcs, RdPcs
  <2>2. QED BY <1>1, <2>1 DEF Locks, Lock
<1>6. EndsHold(hole)'
  BY <1>1 DEF EndsHold
<1>7. ThreadsHold(hole)'
  BY DEF ThreadsHold, Holds
<1>8. ChainsHold(hole)'
  BY <1>1 DEF ChainsHold, ChainHolds
<1>9. HolesApart(hole)'
  BY <1>1 DEF HolesApart
<1>10. NewHoles(hole)'
  BY DEF NewHoles, Fresh
<1>11. QED BY <1>3, <1>4, <1>5, <1>6, <1>7, <1>8, <1>9, <1>10 DEF RunInv

LEMMA NewWriteKeeps ==
  ASSUME RtsInv, ChanTypeOK, NEW hole \in HoleMap, StartInv(hole), Starting, NewWriteEnd
  PROVE  RtsInv' /\ ChanTypeOK' /\ UNCHANGED <<sent, got>> /\ InvOf(hole)'
<1>1. /\ Cur = Main /\ Main \in Thread /\ Me = frame[Main] /\ Me.pc = "new_write"
      /\ Me \in FrameSet /\ Me.ch \in Channel
  BY MainAlone, FrameIs, ThreadAssumption DEF NewWriteEnd, At, Me
<1>2. PICK c \in Channel : c = Me.ch
  BY <1>1
<1>3. ReadMade(c) /\ Me.end = hole[c][1] /\ hole[c][1] \in Hole
  <2>1. ReadMade(c) /\ Me.end = hole[c][1]
    BY <1>1, <1>2 DEF ReadMade, StartInv
  <2>2. hole[c][1] \in used
    BY <2>1 DEF StartInv
  <2>3. QED BY <2>1, <2>2, Types
<1>4. Wr[c] \in MVar /\ Wr[c] \notin Hole /\ Me.end \in Value
  BY <1>3, TwoEnds, Names
<1>5. /\ RtsInv' /\ redex' = redex /\ mval' = mval /\ data' = [data EXCEPT ![Wr[c]] = hole[c][1]]
      /\ \A t \in Thread : state'[t] = state[t]
  <2>1. PutMVar(Wr[c], Me.end)
    BY <1>2 DEF NewWriteEnd
  <2>2. QED BY <1>3, <1>4, <2>1, StartPut
<1>6. UNCHANGED <<client, used, nsent, sent, got>>
  BY DEF NewWriteEnd, hist
<1>7. PICK g \in FrameSet :
        /\ frame' = [frame EXCEPT ![Cur] = g]
        /\ \/ c < NChan /\ g.pc = "new_read" /\ g.ch = c + 1
           \/ c = NChan /\ g.pc = "fork"
  <2>1. c < NChan \/ c = NChan
    BY Names DEF Channel
  <2>2. CASE c < NChan
    <3>1. c + 1 \in Channel
      BY <2>2, Names DEF Channel
    <3>2. Frame("new_read", c + 1) \in FrameSet /\ Frame("new_read", c + 1).pc = "new_read"
          /\ Frame("new_read", c + 1).ch = c + 1
      BY <3>1 DEF Frame, FrameSet, Pcs
    <3>3. frame' = [frame EXCEPT ![Cur] = Frame("new_read", c + 1)]
      BY <1>2, <2>2 DEF NewWriteEnd, Becomes
    <3>4. QED BY <2>2, <3>2, <3>3
  <2>3. CASE c = NChan
    <3>1. Frame("fork", 1) \in FrameSet /\ Frame("fork", 1).pc = "fork"
      BY Names DEF Frame, FrameSet, Pcs
    <3>2. ~(c < NChan)
      BY <2>3, Names
    <3>3. frame' = [frame EXCEPT ![Cur] = Frame("fork", 1)]
      BY <1>2, <3>2 DEF NewWriteEnd, Becomes
    <3>4. QED BY <2>3, <3>1, <3>3
  <2>4. QED BY <2>1, <2>2, <2>3
<1>8. ChanTypeOK'
  BY <1>5, <1>6, <1>7, TypesKept DEF ChanTypeOK
<1>9. /\ frame'[Main] = g /\ \A t \in Thread \ {Main} : frame'[t] = frame[t]
  BY <1>1, <1>7, Types
<1>10. /\ \A t \in Thread : redex'[t].prim = "none"
       /\ \A t \in Thread \ {Main} : state'[t] = "unborn" /\ frame'[t].pc = "idle"
       /\ \A h \in Hole : data'[h] = NIL
  BY <1>4, <1>5, <1>9, Names DEF StartInv
<1>11. ASSUME NEW d \in Channel
       PROVE  /\ sent'[d] = <<>> /\ got'[d] = <<>>
              /\ data'[Rd[d]] = IF ReadMade(d) THEN hole[d][1] ELSE NIL
              /\ data'[Wr[d]] = IF d < c \/ d = c THEN hole[d][1] ELSE NIL
              /\ ReadMade(d) => hole[d][1] \in used'
              /\ ReadMade(d) <=> d < c \/ d = c
  <2>1. /\ sent[d] = <<>> /\ got[d] = <<>>
        /\ data[Rd[d]] = IF ReadMade(d) THEN hole[d][1] ELSE NIL
        /\ data[Wr[d]] = IF d < c THEN hole[d][1] ELSE NIL
        /\ ReadMade(d) => hole[d][1] \in used
    BY <1>1, <1>2 DEF StartInv
  <2>2. Rd[d] \in MVar /\ Wr[d] \in MVar /\ Rd[d] # Wr[c] /\ (d # c => Wr[d] # Wr[c])
    BY TwoEnds
  <2>3. data'[Rd[d]] = data[Rd[d]] /\ data'[Wr[d]] = IF d = c THEN hole[c][1] ELSE data[Wr[d]]
    BY <1>4, <1>5, <2>2, Types
  <2>4. ReadMade(d) <=> d < c \/ d = c
    BY <1>1, <1>2 DEF ReadMade
  <2>5. data'[Wr[d]] = IF d < c \/ d = c THEN hole[d][1] ELSE NIL
    BY <2>1, <2>3
  <2>6. QED BY <1>6, <2>1, <2>3, <2>4, <2>5
<1>12. \A d, e \in Channel : ReadMade(d) /\ ReadMade(e) /\ hole[e][1] = hole[d][1] => e = d
  BY DEF StartInv
<1>13. CASE c < NChan /\ g.pc = "new_read" /\ g.ch = c + 1
  <2>1. \A d \in Channel : /\ ReadMade(d)' <=> d < c \/ d = c
                           /\ d < frame'[Main].ch <=> d < c \/ d = c
    <3>1. c \in Nat /\ frame'[Main].pc = "new_read" /\ frame'[Main].ch = c + 1
      BY <1>9, <1>13, Names
    <3>2. ASSUME NEW d \in Channel PROVE d < c + 1 <=> d < c \/ d = c
      BY <3>1, Names
    <3>3. QED BY <3>1, <3>2 DEF ReadMade
  <2>2. StartInv(hole)'
    BY <1>9, <1>10, <1>11, <1>12, <1>13, <2>1 DEF StartInv
  <2>3. QED BY <1>5, <1>6, <1>8, <1>9, <1>13, <2>2 DEF InvOf, Starting
<1>14. CASE c = NChan /\ g.pc = "fork"
  <2>1. \A d \in Channel : d < c \/ d = c
    BY <1>14, Names DEF Channel
  <2>2. \A d \in Channel : /\ sent'[d] = <<>> /\ got'[d] = <<>> /\ hole[d][1] \in used'
                           /\ data'[Rd[d]] = hole[d][1] /\ data'[Wr[d]] = hole[d][1]
    BY <1>11, <2>1
  <2>3. \A d, e \in Channel : hole[d][1] = hole[e][1] => d = e
    BY <1>11, <1>12, <2>1
  <2>4. \A t \in Thread : redex'[t].prim = "none" /\ frame'[t].pc \in {"idle", "fork"}
                          /\ (state'[t] = "unborn" => frame'[t].pc = "idle")
    <3>1. state[Main] # "unborn"
      BY <1>1, FrameIs DEF NewWriteEnd, At
    <3>2. QED BY <1>1, <1>5, <1>9, <1>10, <1>14, <3>1
  <2>5. RunInv(hole)'
    BY <1>5, <1>8, <1>10, <2>2, <2>3, <2>4, RunBegins
  <2>6. QED BY <1>5, <1>6, <1>8, <1>9, <1>14, <2>5 DEF InvOf, Starting
<1>15. QED BY <1>7, <1>13, <1>14

LEMMA StartIdles ==
  ASSUME RtsInv, ChanTypeOK, NEW hole \in HoleMap, StartInv(hole), Starting,
         Slice \/ Pause \/ GiveUp \/ Time \/ UNCHANGED vars
  PROVE  RtsInv' /\ ChanTypeOK' /\ UNCHANGED <<sent, got>> /\ InvOf(hole)'
<1>1. UNCHANGED <<frame, hist>>
  BY DEF Slice, Pause, GiveUp, Time, vars
<1>2. RtsInv' /\ UNCHANGED <<redex, data, mval>>
      /\ \A t \in Thread : state[t] = "unborn" => state'[t] = "unborn"
  <2>1. CASE Slice \/ Pause \/ GiveUp \/ Time
    <3>1. Preempt \/ PauseExec \/ Deadlock \/ Tick
      BY <2>1 DEF Slice, Pause, GiveUp, Time
    <3>2. UNCHANGED <<redex, data, mval>> /\ \A t \in Thread : KeptOrWoken(t)
      BY <3>1, SchedulerEffect
    <3>3. RtsInv'
      BY <3>1, PreemptOK, PauseExecOK, DeadlockOK, TickOK
    <3>4. QED BY <3>2, <3>3 DEF KeptOrWoken
  <2>2. CASE UNCHANGED vars
    BY <2>2, RtsStutterOK DEF vars, rts, mvars
  <2>3. QED BY <2>1, <2>2
<1>3. ChanTypeOK'
  BY <1>1, <1>2 DEF ChanTypeOK, hist, RtsInv
<1>4. StartInv(hole)' /\ Starting'
  BY <1>1, <1>2 DEF StartInv, Starting, ReadMade, hist
<1>5. QED BY <1>1, <1>2, <1>3, <1>4 DEF InvOf, hist

LEMMA StartStep ==
  ASSUME RtsInv, ChanTypeOK, NEW hole \in HoleMap, StartInv(hole), Starting, [Next]_vars
  PROVE  /\ RtsInv' /\ ChanTypeOK' /\ UNCHANGED <<sent, got>>
         /\ \E more \in HoleMap : InvOf(more)'
<1>1. CASE NewReadEnd
  BY <1>1, NewReadKeeps
<1>2. CASE NewWriteEnd
  BY <1>2, NewWriteKeeps
<1>3. CASE Slice \/ Pause \/ GiveUp \/ Time \/ UNCHANGED vars
  BY <1>3, StartIdles
<1>4. ASSUME NEW p, At(p) PROVE p \in {"new_read", "new_write"}
  BY <1>4, MainAlone DEF At
<1>5. CASE ForkClient \/ Return
  BY <1>4, <1>5 DEF ForkClient, Return
<1>6. ASSUME NEW c \in Channel, SendStarts(c) \/ RecvStarts(c) \/ TryRecvStarts(c)
      PROVE  FALSE
  BY <1>4, <1>6 DEF SendStarts, RecvStarts, TryRecvStarts, Enters, Calls
<1>7. CASE SelectStarts \/ SelectYields \/ SelectSleeps
  BY <1>4, <1>7 DEF SelectStarts, SelectYields, SelectSleeps, Enters, Calls
<1>8. CASE SendTakes \/ SendLinks \/ SendReleases
  BY <1>4, <1>8 DEF SendTakes, SendLinks, SendReleases, TakesEnd, PutsEnd
<1>9. CASE RecvTakes \/ RecvItem \/ RecvReleases
  BY <1>4, <1>9 DEF RecvTakes, RecvItem, RecvReleases, TakesEnd, PutsEnd
<1>10. CASE TryRecvTakes \/ TryRecvItem \/ TryRecvNothing
  BY <1>4, <1>10 DEF TryRecvTakes, TryRecvItem, TryRecvNothing, TakesEnd, PutsEnd
<1>11. QED
  BY <1>1, <1>2, <1>3, <1>5, <1>6, <1>7, <1>8, <1>9, <1>10 DEF Next, Ops

----------------------------------------------------------------------------
(* The invariant of the channels.                                          *)

LEMMA InitHolds == CInit => ChanInv
<1> SUFFICES ASSUME CInit PROVE ChanInv
  OBVIOUS
<1>1. RtsInv /\ TypeOK
  BY RtsInitOK DEF CInit, RtsInv
<1>2. PICK hole \in HoleMap : hole = [c \in Channel |-> [i \in Nat |-> Rd[1]]]
  BY Names DEF HoleMap
<1>3. /\ frame \in [Thread -> FrameSet] /\ Main \in Thread
      /\ frame[Main].pc = "new_read" /\ frame[Main].ch = 1
      /\ \A t \in Thread \ {Main} : frame[t].pc = "idle"
  <2>1. Frame("new_read", 1) \in FrameSet /\ Idle \in FrameSet
    BY Names DEF Frame, Idle, FrameSet, Pcs
  <2>2. Frame("new_read", 1).pc = "new_read" /\ Frame("new_read", 1).ch = 1 /\ Idle.pc = "idle"
    BY DEF Frame, Idle
  <2>3. QED BY <2>1, <2>2, ThreadAssumption DEF CInit
<1>4. ChanTypeOK
  <2>1. nsent \in [Thread -> 0..MaxSends]
    BY ChanAssumption DEF CInit
  <2>2. <<>> \in Seq(Msg)
    BY EmptySeq
  <2>3. QED BY <1>1, <1>3, <2>1, <2>2 DEF ChanTypeOK, CInit, FrameSet
<1>5. \A c \in Channel : ~ReadMade(c) /\ ~(c < frame[Main].ch)
  BY <1>3, Names DEF ReadMade, Channel
<1>6. StartInv(hole)
  <2>1. \A t \in Thread : redex[t].prim = "none"
    BY DEF CInit, Init, NoRedex, Pending
  <2>2. \A t \in Thread \ {Main} : state[t] = "unborn" /\ frame[t].pc = "idle"
    BY <1>3 DEF CInit, Init
  <2>3. \A m \in MVar : data[m] = NIL
    BY DEF CInit, Init
  <2>4. \A c \in Channel : sent[c] = <<>> /\ got[c] = <<>>
    BY DEF CInit
  <2>5. QED BY <1>3, <1>5, <2>1, <2>2, <2>3, <2>4, Names DEF StartInv
<1>7. QED BY <1>1, <1>3, <1>4, <1>6 DEF ChanInv, InvOf, Starting

LEMMA ChanStep ==
  ASSUME ChanInv, OneTakeWaits, [Next]_vars
  PROVE  /\ ChanInv'
         /\ UNCHANGED <<sent, got>> \/ \E c \in Channel : Receives(c) \/ Links(c)
<1>1. RtsInv /\ ChanTypeOK
  BY DEF ChanInv
<1>2. PICK hole \in HoleMap : InvOf(hole)
  BY DEF ChanInv
<1>3. CASE Starting
  <2>1. StartInv(hole)
    BY <1>2, <1>3 DEF InvOf
  <2>2. /\ RtsInv' /\ ChanTypeOK' /\ UNCHANGED <<sent, got>>
        /\ \E more \in HoleMap : InvOf(more)'
    BY <1>1, <1>3, <2>1, StartStep
  <2>3. QED BY <2>2 DEF ChanInv
<1>4. CASE ~Starting
  <2>1. Before(hole)
    BY <1>1, <1>2, <1>4 DEF InvOf, Before
  <2>2. /\ \E more : Before(more)'
        /\ UNCHANGED <<sent, got>> \/ \E c \in Channel : Receives(c) \/ Links(c)
    BY <2>1, RunStep
  <2>3. PICK more : Before(more)'
    BY <2>2
  <2>4. more \in HoleMap /\ RunInv(more)' /\ RtsInv' /\ ChanTypeOK'
    BY <2>3 DEF Before
  <2>5. ~Starting'
    BY <2>4, ThreadAssumption DEF RunInv, Forked, Starting
  <2>6. QED BY <2>2, <2>4, <2>5 DEF ChanInv, InvOf
<1>5. QED BY <1>3, <1>4

(* The channels keep their invariant as long as no two takes wait at one   *)
(* MVar, which is what put_mvar needs.                                     *)
LEMMA ChanInvariant == Spec /\ []OneTakeWaits => []ChanInv
BY InitHolds, ChanStep, PTL DEF Spec

----------------------------------------------------------------------------
(* Who may call what: at most two threads send on a channel, and at most   *)
(* two receive from it, in any of the three ways.                          *)
MaySend(k, t, c)    == <<"send", c>> \in k[t]
MayReceive(k, t, c) == \E op \in {<<"recv", c>>, <<"tryRecv", c>>, <<"select", 1>>} : op \in k[t]
TwoUsers ==
  \A k \in Clients, c \in Channel, t, u, w \in Thread :
    /\ MaySend(k, t, c) /\ MaySend(k, u, c) /\ MaySend(k, w, c) => t = u \/ t = w \/ u = w
    /\ MayReceive(k, t, c) /\ MayReceive(k, u, c) /\ MayReceive(k, w, c)
         => t = u \/ t = w \/ u = w

(* A thread is in an operation that its program calls.                     *)
OwnFrame(g, t) ==
  /\ g.pc \in {"send_take", "send_link", "send_release"} => MaySend(client, t, g.ch)
  /\ g.pc \in {"recv_take", "recv_item"} => <<"recv", g.ch>> \in client[t]
  /\ g.pc = "recv_release" => MayReceive(client, t, g.ch)
  /\ g.pc \in {"try_take", "try_item", "try_nothing"} /\ ~g.sel => <<"tryRecv", g.ch>> \in client[t]
  /\ g.pc \in {"try_take", "try_item", "try_nothing"} /\ g.sel => <<"select", 1>> \in client[t]
  /\ g.pc \in {"sel_yield", "sel_delay"} => g.sel /\ <<"select", 1>> \in client[t]
InTheirOwn == \A t \in Thread : OwnFrame(frame[t], t)

LEMMA OwnKept ==
  ASSUME frame \in [Thread -> FrameSet], InTheirOwn, client' = client, NEW me \in Thread, me = Cur,
         NEW g, frame' = [frame EXCEPT ![Cur] = g], OwnFrame(g, me)
  PROVE  InTheirOwn'
<1>1. frame'[me] = g /\ \A t \in Thread \ {me} : frame'[t] = frame[t]
  OBVIOUS
<1>2. OwnFrame(g, me)'
  BY DEF OwnFrame, MaySend, MayReceive
<1>3. ASSUME NEW t \in Thread \ {me} PROVE OwnFrame(frame[t], t)'
  <2>1. PICK f : f = frame[t] /\ OwnFrame(f, t)
    BY DEF InTheirOwn
  <2>2. OwnFrame(f, t)'
    BY <2>1 DEF OwnFrame, MaySend, MayReceive
  <2>3. frame'[t] = f
    BY <1>1, <2>1
  <2>4. QED BY <2>2, <2>3 DEF OwnFrame, MaySend, MayReceive
<1>4. ASSUME NEW t \in Thread PROVE OwnFrame(frame[t], t)'
  BY <1>1, <1>2, <1>3 DEF OwnFrame, MaySend, MayReceive
<1>5. QED BY <1>4 DEF InTheirOwn

(* Moving on in the same operation, or starting none.                      *)
Follows(f, g) ==
  \/ /\ g.ch = f.ch /\ g.sel = f.sel
     /\ \/ f.pc \in {"send_take", "send_link"} /\ g.pc \in {"send_link", "send_release"}
        \/ f.pc = "recv_take" /\ g.pc = "recv_item"
        \/ f.pc \in {"recv_item", "try_item"} /\ g.pc = "recv_release"
        \/ f.pc = "try_take" /\ g.pc = "try_item"
        \/ f.pc = "try_item" /\ g.pc = "try_nothing"
        \/ f.pc \in {"sel_yield", "sel_delay"} /\ g.pc \in {"sel_yield", "sel_delay", "try_take"}
  \/ f.pc = "try_nothing" /\ f.sel /\ g.sel /\ g.pc \in {"try_take", "sel_yield"}
  \/ g.pc \in {"idle", "fork", "new_read", "new_write"}

LEMMA OwnMoves ==
  ASSUME RtsInv, frame \in [Thread -> FrameSet], InTheirOwn, client' = client, Running,
         NEW g, frame' = [frame EXCEPT ![Cur] = g], Follows(Me, g)
  PROVE  InTheirOwn'
<1>1. PICK me \in Thread : me = Cur
  BY CurFacts
<1>2. OwnFrame(frame[me], me) /\ Me = frame[me]
  BY <1>1 DEF InTheirOwn, Me
<1>3. OwnFrame(g, me)
  BY <1>2 DEF OwnFrame, MayReceive, Follows
<1>4. QED BY <1>1, <1>3, OwnKept

LEMMA StepKeepsOwn ==
  ASSUME RtsInv, ChanTypeOK, InTheirOwn, [Next]_vars
  PROVE  InTheirOwn'
<1>1. /\ frame \in [Thread -> FrameSet]
      /\ Running => Cur \in Thread /\ Me \in FrameSet
  BY CurFacts DEF ChanTypeOK, FrameSet, Me
<1>2. ASSUME UNCHANGED <<frame, client>> PROVE InTheirOwn'
  BY <1>2 DEF InTheirOwn, OwnFrame, MaySend, MayReceive
<1>3. ASSUME NEW f, Running, client' = client, Becomes(f), Follows(Me, f) PROVE InTheirOwn'
  BY <1>1, <1>3, OwnMoves DEF Becomes
<1>4. ASSUME NEW f, NEW p, p \in {"send_take", "recv_take", "try_take"}, Running, client' = client,
             Becomes(f), f.pc = p, OwnFrame(f, Cur)
      PROVE  InTheirOwn'
  BY <1>1, <1>4, OwnKept DEF Becomes
<1>5. \A p, c : Frame(p, c).pc = p /\ Frame(p, c).ch = c /\ Frame(p, c).sel = FALSE /\ Idle.pc = "idle"
  BY DEF Frame, Idle
<1>6. ASSUME NEW from, NEW m, NEW to, TakesEnd(from, m, to),
             <<from, to>> \in {<<"send_take", "send_link">>, <<"recv_take", "recv_item">>,
                               <<"try_take", "try_item">>}
      PROVE  InTheirOwn'
  <2>1. Running /\ Me.pc = from
    BY <1>6 DEF TakesEnd, At
  <2>2. CASE Waits(m)
    BY <1>2, <2>2 DEF Waits, hist
  <2>3. CASE client' = client /\ Becomes([Me EXCEPT !.pc = to, !.end = Available(m)])
    <3>1. PICK g : g = [Me EXCEPT !.pc = to, !.end = Available(m)]
      OBVIOUS
    <3>2. g.pc = to /\ g.ch = Me.ch /\ g.sel = Me.sel
      BY <1>1, <2>1, <3>1 DEF FrameSet
    <3>3. Follows(Me, g)
      BY <1>6, <2>1, <3>2 DEF Follows
    <3>4. QED BY <1>3, <2>1, <2>3, <3>1, <3>3
  <2>4. QED BY <1>6, <2>2, <2>3 DEF TakesEnd, hist
<1>7. ASSUME NEW from, NEW m, NEW h, NEW f, PutsEnd(from, m, h, f), Follows(Me, f)
      PROVE  InTheirOwn'
  BY <1>2, <1>3, <1>7 DEF PutsEnd, PWaits, hist, At
<1>8. Follows(Me, Idle)
  BY <1>5 DEF Follows
<1>9. CASE NewReadEnd
  <2>1. Running /\ client' = client /\ Becomes([Me EXCEPT !.pc = "new_write", !.end = NewHole])
    BY <1>9 DEF NewReadEnd, At
  <2>2. [Me EXCEPT !.pc = "new_write", !.end = NewHole].pc = "new_write"
    BY <1>1, <2>1 DEF FrameSet
  <2>3. QED BY <1>3, <2>1, <2>2 DEF Follows
<1>10. CASE NewWriteEnd
  <2>1. PICK f : f = IF Me.ch < NChan THEN Frame("new_read", Me.ch + 1) ELSE Frame("fork", 1)
    OBVIOUS
  <2>2. Running /\ client' = client /\ Becomes(f)
    BY <1>10, <2>1 DEF NewWriteEnd, At, hist
  <2>3. f.pc \in {"new_read", "fork"}
    BY <1>5, <2>1
  <2>4. QED BY <1>3, <2>2, <2>3 DEF Follows
<1>11. CASE ForkClient
  <2>1. PICK p \in {"idle", "fork"} : Running /\ client' = client /\ Becomes([Me EXCEPT !.pc = p])
    BY <1>11 DEF ForkClient, At, Goes, hist
  <2>2. [Me EXCEPT !.pc = p].pc = p
    BY <1>1, <2>1 DEF FrameSet
  <2>3. QED BY <1>3, <2>1, <2>2 DEF Follows
<1>12. CASE \E c \in Channel : SendStarts(c)
  <2>1. PICK c \in Channel : SendStarts(c)
    BY <1>12
  <2>2. PICK f : f = [Frame("send_take", c) EXCEPT !.new = NewHole]
    OBVIOUS
  <2>3. f.pc = "send_take" /\ f.ch = c
    BY <2>2 DEF Frame
  <2>4. Running /\ client' = client /\ Becomes(f) /\ <<"send", c>> \in client[Cur]
    BY <2>1, <2>2 DEF SendStarts, Calls, At
  <2>5. QED BY <1>4, <2>3, <2>4 DEF OwnFrame, MaySend
<1>13. CASE \E c \in Channel : RecvStarts(c) \/ TryRecvStarts(c)
  <2>1. PICK c \in Channel : RecvStarts(c) \/ TryRecvStarts(c)
    BY <1>13
  <2>2. CASE RecvStarts(c)
    <3>1. OwnFrame(Frame("recv_take", c), Cur)
      BY <1>5, <2>2 DEF RecvStarts, Enters, Calls, OwnFrame
    <3>2. QED BY <1>4, <1>5, <2>2, <3>1 DEF RecvStarts, Enters, Calls, At, hist
  <2>3. CASE TryRecvStarts(c)
    <3>1. OwnFrame(Frame("try_take", c), Cur)
      BY <1>5, <2>3 DEF TryRecvStarts, Enters, Calls, OwnFrame
    <3>2. QED BY <1>4, <1>5, <2>3, <3>1 DEF TryRecvStarts, Enters, Calls, At, hist
  <2>4. QED BY <2>1, <2>2, <2>3
<1>14. CASE SelectStarts
  <2>1. PICK f : f = [Frame("try_take", 1) EXCEPT !.sel = TRUE]
    OBVIOUS
  <2>2. f.pc = "try_take" /\ f.sel = TRUE
    BY <2>1 DEF Frame
  <2>3. Running /\ client' = client /\ Becomes(f) /\ <<"select", 1>> \in client[Cur]
    BY <1>14, <2>1 DEF SelectStarts, Enters, Calls, At, hist
  <2>4. QED BY <1>4, <2>2, <2>3 DEF OwnFrame
<1>15. CASE SendTakes \/ RecvTakes \/ TryRecvTakes
  BY <1>6, <1>15 DEF SendTakes, RecvTakes, TryRecvTakes
<1>16. CASE SendLinks
  <2>1. CASE UNCHANGED <<frame, client>>
    BY <1>2, <2>1
  <2>2. CASE client' = client /\ Goes("send_release")
    <3>1. PICK g : g = [Me EXCEPT !.pc = "send_release"]
      OBVIOUS
    <3>2. Running /\ Me.pc = "send_link"
      BY <1>16 DEF SendLinks, At
    <3>3. g.pc = "send_release" /\ g.ch = Me.ch /\ g.sel = Me.sel
      BY <1>1, <3>1, <3>2 DEF FrameSet
    <3>4. QED BY <1>3, <2>2, <3>1, <3>2, <3>3 DEF Goes, Follows
  <2>3. QED BY <1>16, <2>1, <2>2 DEF SendLinks, PWaits, hist
<1>17. CASE SendReleases \/ RecvReleases
  BY <1>7, <1>8, <1>17 DEF SendReleases, RecvReleases
<1>18. ASSUME NEW v, Running, Me.pc \in {"recv_item", "try_item"}, Received(v, "recv_release")
       PROVE  InTheirOwn'
  <2>1. PICK g : g = [Me EXCEPT !.pc = "recv_release", !.item = v]
    OBVIOUS
  <2>2. g.pc = "recv_release" /\ g.ch = Me.ch /\ g.sel = Me.sel
    BY <1>1, <1>18, <2>1 DEF FrameSet
  <2>3. QED BY <1>3, <1>18, <2>1, <2>2 DEF Received, Follows
<1>19. CASE RecvItem
  BY <1>2, <1>18, <1>19 DEF RecvItem, Waits, hist, At
<1>20. CASE TryRecvItem
  <2>1. Running /\ Me.pc = "try_item"
    BY <1>20 DEF TryRecvItem, At
  <2>2. CASE client' = client /\ Goes("try_nothing")
    <3>1. PICK g : g = [Me EXCEPT !.pc = "try_nothing"]
      OBVIOUS
    <3>2. g.pc = "try_nothing" /\ g.ch = Me.ch /\ g.sel = Me.sel
      BY <1>1, <2>1, <3>1 DEF FrameSet
    <3>3. QED BY <1>3, <2>1, <2>2, <3>1, <3>2 DEF Goes, Follows
  <2>3. QED BY <1>18, <1>20, <2>1, <2>2 DEF TryRecvItem, hist
<1>21. CASE TryRecvNothing
  <2>1. PICK g : g = IF ~Me.sel THEN Idle
                     ELSE [Frame(IF Me.ch < NChan THEN "try_take" ELSE "sel_yield",
                                 IF Me.ch < NChan THEN Me.ch + 1 ELSE 1) EXCEPT !.sel = TRUE]
    OBVIOUS
  <2>2. At("try_nothing") /\ PutsEnd("try_nothing", Rd[Me.ch], Me.end, g)
    BY <1>21, <2>1 DEF TryRecvNothing, PutsEnd
  <2>3. CASE ~Me.sel
    BY <1>7, <1>8, <2>1, <2>2, <2>3
  <2>4. CASE Me.sel
    <3>1. g.sel = TRUE /\ g.pc \in {"try_take", "sel_yield"}
      BY <2>1, <2>4 DEF Frame
    <3>2. QED BY <1>7, <2>2, <2>4, <3>1 DEF Follows, At
  <2>5. QED BY <2>3, <2>4
<1>22. CASE SelectYields \/ SelectSleeps
  <2>1. Running /\ Me.pc \in {"sel_yield", "sel_delay"} /\ client' = client
    BY <1>22 DEF SelectYields, SelectSleeps, At, hist
  <2>2. CASE UNCHANGED frame
    BY <1>2, <2>1, <2>2
  <2>3. ASSUME NEW p \in {"sel_yield", "sel_delay", "try_take"}, Goes(p) PROVE InTheirOwn'
    <3>1. PICK g : g = [Me EXCEPT !.pc = p]
      OBVIOUS
    <3>2. g.pc = p /\ g.ch = Me.ch /\ g.sel = Me.sel
      BY <1>1, <2>1, <3>1 DEF FrameSet
    <3>3. QED BY <1>3, <2>1, <2>3, <3>1, <3>2 DEF Goes, Follows
  <2>4. QED BY <1>22, <2>2, <2>3 DEF SelectYields, SelectSleeps
<1>23. CASE Return \/ Slice \/ Pause \/ GiveUp \/ Time \/ UNCHANGED vars
  BY <1>2, <1>23 DEF Return, Slice, Pause, GiveUp, Time, vars, hist
<1>24. QED
  BY <1>9, <1>10, <1>11, <1>12, <1>13, <1>14, <1>15, <1>16, <1>17, <1>19, <1>20, <1>21, <1>22,
     <1>23 DEF Next, Ops

(* Whoever has a write end is a sender, whoever has a read end a receiver. *)
LEMMA HasUses ==
  ASSUME RtsInv, ChanTypeOK, NEW hole, RunInv(hole), InTheirOwn, NEW c \in Channel, NEW t \in Thread
  PROVE  /\ Has(t, Wr[c], WrPcs) => MaySend(client, t, c)
         /\ Has(t, Rd[c], RdPcs) => MayReceive(client, t, c)
<1>1. frame[t].ch \in Channel /\ Suspended /\ OwnFrame(frame[t], t)
  BY Types DEF RunInv, InTheirOwn
<1>2. frame[t].pc = "recv_item" => frame[t].end \in Hole
  <2>1. First(hole, frame[t].ch) \in Hole
    <3>1. NGot(frame[t].ch) <= NSent(frame[t].ch) /\ NGot(frame[t].ch) \in Nat /\ NSent(frame[t].ch) \in Nat
      BY <1>1, Types DEF RunInv, ChainsHold, ChainHolds
    <3>2. NGot(frame[t].ch) + 1 \in Linked(frame[t].ch)
      BY <3>1 DEF Linked
    <3>3. QED BY <1>1, <3>2, Types DEF RunInv, HolesApart, First
  <2>2. QED BY <1>1, <2>1 DEF RunInv, ThreadsHold, Holds
<1>3. /\ \A d \in Channel : Rd[d] # Wr[c] /\ Wr[d] # Rd[c] /\ (Wr[d] = Wr[c] => d = c)
                            /\ (Rd[d] = Rd[c] => d = c)
      /\ Wr[c] \notin Hole /\ Rd[c] \notin Hole
  BY TwoEnds
<1>4. ASSUME Has(t, Wr[c], WrPcs) PROVE MaySend(client, t, c)
  <2>1. CASE Stashed(t, Wr[c])
    <3>1. frame[t].pc \in TakePcs /\ Wr[c] = Wanted(frame[t])
      BY <1>1, <2>1, StashFacts DEF Stashed
    <3>2. frame[t].pc = "send_take" /\ frame[t].ch = c
      BY <1>1, <1>2, <1>3, <3>1 DEF Wanted
    <3>3. QED BY <1>1, <3>2 DEF OwnFrame
  <2>2. CASE Inside(t, Wr[c], WrPcs)
    <3>1. frame[t].pc \in WrPcs /\ frame[t].ch = c
      BY <1>1, <1>3, <2>2 DEF Inside
    <3>2. QED BY <1>1, <3>1 DEF OwnFrame, WrPcs
  <2>3. QED BY <1>4, <2>1, <2>2 DEF Has
<1>5. ASSUME Has(t, Rd[c], RdPcs) PROVE MayReceive(client, t, c)
  <2>1. CASE Stashed(t, Rd[c])
    <3>1. frame[t].pc \in TakePcs /\ Rd[c] = Wanted(frame[t])
      BY <1>1, <2>1, StashFacts DEF Stashed
    <3>2. frame[t].pc \in {"recv_take", "try_take"} /\ frame[t].ch = c
      BY <1>1, <1>2, <1>3, <3>1 DEF Wanted, TakePcs
    <3>3. QED BY <1>1, <3>2 DEF OwnFrame, MayReceive
  <2>2. CASE Inside(t, Rd[c], RdPcs)
    <3>1. frame[t].pc \in RdPcs /\ frame[t].ch = c
      BY <1>1, <1>3, <2>2 DEF Inside
    <3>2. QED BY <1>1, <3>1 DEF OwnFrame, RdPcs, MayReceive
  <2>3. QED BY <1>5, <2>1, <2>2 DEF Has
<1>6. QED BY <1>4, <1>5

(* With two users an MVar of a channel never has two takes waiting while   *)
(* it is empty: the third is the one that has its contents, and at a hole  *)
(* there is only the one that holds the read end.                          *)
LEMMA TwoUsersSuffice ==
  ASSUME TwoUsers, ChanInv, InTheirOwn
  PROVE  OneTakeWaits
<1>1. RtsInv /\ ChanTypeOK /\ client \in Clients
  BY DEF ChanInv, ChanTypeOK
<1>2. PICK hole \in HoleMap : InvOf(hole)
  BY DEF ChanInv
<1>3. SUFFICES ASSUME NEW m \in MVar, NEW t \in Thread, NEW u \in Thread,
                      InQ(takeput[m], t), InQ(takeput[m], u), data[m] = NIL, t # u
               PROVE  FALSE
  BY DEF OneTakeWaits, OneTakeWaitsAt
<1>4. \A w \in {t, u} : /\ redex[w].prim = "take" /\ redex[w].mv = m
                        /\ state[w] = "wait_mvar" /\ mval[w] = NIL
  BY <1>1, <1>3 DEF RtsInv, OneQueue, OneKindWaits, StashIsForTake
<1>5. ~Starting
  BY <1>2, <1>4 DEF InvOf, StartInv
<1>6. RunInv(hole)
  BY <1>2, <1>5 DEF InvOf
<1>7. \A w \in {t, u} : /\ frame[w].pc \in TakePcs /\ m = Wanted(frame[w])
                        /\ frame[w].ch \in Channel /\ OwnFrame(frame[w], w)
  BY <1>1, <1>4, <1>6, Types DEF RunInv, Suspended, InTheirOwn
<1>8. \A w \in {t, u} : frame[w].pc = "recv_item" =>
          m = First(hole, frame[w].ch) /\ NGot(frame[w].ch) + 1 \in Linked(frame[w].ch)
  <2>1. SUFFICES ASSUME NEW w \in {t, u}, frame[w].pc = "recv_item"
                 PROVE  m = First(hole, frame[w].ch) /\ NGot(frame[w].ch) + 1 \in Linked(frame[w].ch)
    OBVIOUS
  <2>2. frame[w].ch \in Channel /\ m = frame[w].end
    BY <1>7, <2>1 DEF Wanted
  <2>3. NGot(frame[w].ch) <= NSent(frame[w].ch) /\ NGot(frame[w].ch) \in Nat /\ NSent(frame[w].ch) \in Nat
    BY <1>1, <1>6, <2>2, Types DEF RunInv, ChainsHold, ChainHolds
  <2>4. frame[w].end = First(hole, frame[w].ch)
    BY <1>6, <2>1 DEF RunInv, ThreadsHold, Holds
  <2>5. QED BY <2>2, <2>3, <2>4 DEF Linked
<1>9. \A w \in {t, u} : frame[w].pc = "recv_item" => m \in Hole
  BY <1>1, <1>6, <1>7, <1>8, Types DEF RunInv, HolesApart, First
<1>10. CASE \E c \in Channel : m = Wr[c]
  <2>1. PICK c \in Channel : m = Wr[c]
    BY <1>10
  <2>2. ASSUME NEW w \in {t, u} PROVE frame[w].pc = "send_take" /\ frame[w].ch = c
    <3>1. frame[w].pc \in TakePcs /\ Wr[c] = Wanted(frame[w]) /\ frame[w].ch \in Channel
      BY <1>7, <2>1
    <3>2. frame[w].pc # "recv_item" /\ Rd[frame[w].ch] # Wr[c]
      BY <1>9, <2>1, <3>1, TwoEnds
    <3>3. QED BY <3>1, <3>2, TwoEnds DEF Wanted
  <2>3. PICK w \in Thread : Has(w, Wr[c], WrPcs)
    BY <1>3, <1>6, <2>1 DEF RunInv, Locks, Lock
  <2>4. MaySend(client, w, c)
    BY <1>1, <1>6, <2>3, HasUses
  <2>5. MaySend(client, t, c) /\ MaySend(client, u, c)
    BY <1>7, <2>2 DEF OwnFrame
  <2>6. w # t /\ w # u
    BY <1>4, <2>2, <2>3 DEF Has, Stashed, Inside, WrPcs
  <2>7. QED BY <1>1, <1>3, <2>4, <2>5, <2>6 DEF TwoUsers
<1>11. CASE \E c \in Channel : m = Rd[c]
  <2>1. PICK c \in Channel : m = Rd[c]
    BY <1>11
  <2>2. ASSUME NEW w \in {t, u} PROVE frame[w].pc \in {"recv_take", "try_take"} /\ frame[w].ch = c
    <3>1. frame[w].pc \in TakePcs /\ Rd[c] = Wanted(frame[w]) /\ frame[w].ch \in Channel
      BY <1>7, <2>1
    <3>2. frame[w].pc # "recv_item" /\ Wr[frame[w].ch] # Rd[c]
      BY <1>9, <2>1, <3>1, TwoEnds
    <3>3. QED BY <3>1, <3>2, TwoEnds DEF Wanted, TakePcs
  <2>3. PICK w \in Thread : Has(w, Rd[c], RdPcs)
    BY <1>3, <1>6, <2>1 DEF RunInv, Locks, Lock
  <2>4. MayReceive(client, w, c)
    BY <1>1, <1>6, <2>3, HasUses
  <2>5. MayReceive(client, t, c) /\ MayReceive(client, u, c)
    BY <1>7, <2>2 DEF OwnFrame, MayReceive
  <2>6. w # t /\ w # u
    BY <1>4, <2>2, <2>3 DEF Has, Stashed, Inside, RdPcs
  <2>7. QED BY <1>1, <1>3, <2>4, <2>5, <2>6 DEF TwoUsers
<1>12. CASE frame[t].pc = "recv_item" /\ frame[u].pc = "recv_item"
  <2>1. PICK c \in Channel, d \in Channel : c = frame[t].ch /\ d = frame[u].ch
    BY <1>7
  <2>2. c = d
    <3>1. /\ hole[c][NGot(c) + 1] = hole[d][NGot(d) + 1]
          /\ NGot(c) + 1 \in Linked(c) /\ NGot(d) + 1 \in Linked(d)
      BY <1>8, <1>12, <2>1 DEF First
    <3>2. QED BY <1>6, <3>1 DEF RunInv, HolesApart
  <2>3. Has(t, Rd[c], RdPcs) /\ Has(u, Rd[c], RdPcs)
    BY <1>12, <2>1, <2>2 DEF Has, Inside, RdPcs
  <2>4. QED BY <1>3, <1>6, <2>3 DEF RunInv, Locks, Lock
<1>13. QED BY <1>7, <1>10, <1>11, <1>12 DEF Wanted

LEMMA TwoUsersInvariant ==
  ASSUME TwoUsers
  PROVE  Spec => [](ChanInv /\ InTheirOwn /\ OneTakeWaits)
<1>1. CInit => InTheirOwn
  <2>1. ASSUME CInit, NEW t \in Thread PROVE OwnFrame(frame[t], t)
    <3>1. frame[t].pc \in {"new_read", "idle"}
      BY <2>1 DEF CInit, Frame, Idle
    <3>2. QED BY <3>1 DEF OwnFrame
  <2>2. QED BY <2>1 DEF InTheirOwn
<1>2. ChanInv /\ InTheirOwn => OneTakeWaits
  BY TwoUsersSuffice
<1>3. ChanInv /\ InTheirOwn /\ [Next]_vars => ChanInv' /\ InTheirOwn'
  BY <1>2, ChanStep, StepKeepsOwn DEF ChanInv
<1>4. QED BY InitHolds, <1>1, <1>2, <1>3, PTL DEF Spec

----------------------------------------------------------------------------
(* The theorems.                                                           *)

LEMMA OneHasIt ==
  ASSUME NEW A, NEW B, A \cap B = {}, \A t, u \in A \cup B : t = u, NEW t \in A \cup B
  PROVE  (A = {t} /\ B = {}) \/ (A = {} /\ B = {t})
<1>1. CASE t \in A
  <2>1. A = {t}
    BY <1>1
  <2>2. \A x : x \notin B
    BY <1>1
  <2>3. B = {}
    BY <2>2
  <2>4. QED BY <2>1, <2>3
<1>2. CASE t \in B
  <2>1. B = {t}
    BY <1>2
  <2>2. \A x : x \notin A
    BY <1>2
  <2>3. A = {}
    BY <2>2
  <2>4. QED BY <2>1, <2>3
<1>3. QED BY <1>1, <1>2

LEMMA LockIsOneCopy ==
  ASSUME NEW m, NEW pcs, Lock(m, pcs), \A t \in Thread : ~(Stashed(t, m) /\ Inside(t, m, pcs))
  PROVE  Copies(m, pcs) = 1
<1> DEFINE A == {t \in Thread : Stashed(t, m)}
           B == {t \in Thread : Inside(t, m, pcs)}
<1>1. Copies(m, pcs) = (IF data[m] = NIL THEN 0 ELSE 1) + Cardinality(A) + Cardinality(B)
  BY DEF Copies, Stashed, Inside
<1>2. /\ A \cap B = {} /\ \A t, u \in A \cup B : t = u
      /\ data[m] = NIL <=> A \cup B # {}
  BY DEF Lock, Has
<1> HIDE DEF A, B
<1>4. CASE data[m] = NIL
  <2>1. PICK t : t \in A \cup B
    BY <1>2, <1>4
  <2>2. (A = {t} /\ B = {}) \/ (A = {} /\ B = {t})
    BY <1>2, <2>1, OneHasIt
  <2>3. Cardinality({t}) = 1 /\ Cardinality({}) = 0
    BY FS_Singleton, FS_EmptySet
  <2>4. QED BY <1>1, <1>4, <2>2, <2>3
<1>5. CASE data[m] # NIL
  <2>1. A = {} /\ B = {}
    BY <1>2, <1>5
  <2>2. QED BY <1>1, <1>5, <2>1, FS_EmptySet
<1>6. QED BY <1>4, <1>5

LEMMA InvLocks == ChanInv => EndsAreLocks
<1> SUFFICES ASSUME ChanInv, ~Starting, NEW c \in Channel
             PROVE  Copies(Wr[c], WrPcs) = 1 /\ Copies(Rd[c], RdPcs) = 1
  BY DEF EndsAreLocks, Starting, WrPcs, RdPcs
<1>1. RtsInv /\ ChanTypeOK
  BY DEF ChanInv
<1>2. PICK hole \in HoleMap : RunInv(hole)
  BY DEF ChanInv, InvOf
<1>3. Suspended /\ Lock(Wr[c], WrPcs) /\ Lock(Rd[c], RdPcs)
  BY <1>2 DEF RunInv, Locks
<1>4. ASSUME NEW t \in Thread, NEW m, Stashed(t, m), m \in {Wr[c], Rd[c]}
      PROVE  frame[t].pc \notin WrPcs \cup RdPcs
  <2>1. /\ frame[t].pc \in TakePcs /\ m = Wanted(frame[t])
        /\ frame[t].ch \in Channel
    BY <1>1, <1>3, <1>4, StashFacts, Types DEF Stashed
  <2>2. frame[t].pc = "recv_item" => frame[t].end \in Hole
    <3>1. frame[t].pc = "recv_item" => frame[t].end = First(hole, frame[t].ch)
      BY <1>2 DEF RunInv, ThreadsHold, Holds
    <3>2. NGot(frame[t].ch) + 1 \in Linked(frame[t].ch)
      BY <1>1, <1>2, <2>1, Types DEF RunInv, ChainsHold, ChainHolds, Linked
    <3>3. QED BY <1>1, <1>2, <2>1, <3>1, <3>2, Types DEF RunInv, HolesApart, First
  <2>3. frame[t].pc # "recv_item"
    BY <1>4, <2>1, <2>2, TwoEnds DEF Wanted
  <2>4. QED BY <2>1, <2>3 DEF TakePcs, WrPcs, RdPcs
<1>5. QED BY <1>3, <1>4, LockIsOneCopy DEF Inside

(* The ends of a channel are locks, for any number of channels, messages   *)
(* and threads: once newChan is over, each end is in its MVar, on its way  *)
(* to a waiter or with one thread, never twice and never lost (send, recv, *)
(* tryRecv, select of Process.hs).                                         *)
THEOREM EndsStayLocks ==
  ASSUME TwoUsers
  PROVE  Spec => []EndsAreLocks
BY TwoUsersInvariant, InvLocks, PTL

LEMMA InvPuts == ChanInv => PutsNeverBlock
<1> SUFFICES ASSUME ChanInv, NEW t \in Thread PROVE redex[t].prim # "put"
  BY DEF PutsNeverBlock
<1>1. PICK hole \in HoleMap : InvOf(hole)
  BY DEF ChanInv
<1>2. QED BY <1>1 DEF InvOf, StartInv, RunInv, Suspended

(* The sender never blocks on a full channel: no putMVar of an operation   *)
(* finds its MVar full, whoever else is in the channel (Process.hs 33).    *)
THEOREM SendersNeverWait ==
  ASSUME TwoUsers
  PROVE  Spec => []PutsNeverBlock
BY TwoUsersInvariant, InvPuts, PTL

----------------------------------------------------------------------------
(* The channels implement Fifo.                                            *)

LEMMA QueueGrows ==
  ASSUME NEW S, NEW s \in Seq(S), NEW n \in Nat, n <= Len(s), NEW v \in S
  PROVE  SubSeq(Append(s, v), n + 1, Len(Append(s, v))) = Append(SubSeq(s, n + 1, Len(s)), v)
<1>1. /\ Len(s) \in Nat /\ \A i \in 1..Len(s) : s[i] \in S
      /\ Append(s, v) \in Seq(S) /\ Len(Append(s, v)) = Len(s) + 1
      /\ \A i \in 1..Len(s) : Append(s, v)[i] = s[i]
      /\ Append(s, v)[Len(s) + 1] = v
  BY LenProperties, ElementOfSeq, AppendProperties
<1>2. PICK w : w = Append(s, v)
  OBVIOUS
<1>3. PICK a : a = SubSeq(s, n + 1, Len(s))
  OBVIOUS
<1>4. PICK b : b = SubSeq(w, n + 1, Len(s) + 1)
  OBVIOUS
<1>5. /\ a \in Seq(S) /\ Len(a) = Len(s) - n
      /\ \A i \in 1..(Len(s) - n) : a[i] = s[n + i]
  <2>1. \A i \in (n + 1)..Len(s) : s[i] \in S
    BY <1>1
  <2>2. QED BY <1>1, <1>3, <2>1, SubSeqProperties
<1>6. /\ b \in Seq(S) /\ Len(b) = Len(s) + 1 - n
      /\ \A i \in 1..(Len(s) + 1 - n) : b[i] = w[n + i]
  <2>1. \A i \in (n + 1)..(Len(s) + 1) : w[i] \in S
    BY <1>1, <1>2
  <2>2. QED BY <1>1, <1>4, <2>1, SubSeqProperties
<1>7. /\ Append(a, v) \in Seq(S) /\ Len(Append(a, v)) = Len(s) + 1 - n
      /\ \A i \in 1..(Len(s) - n) : Append(a, v)[i] = a[i]
      /\ Append(a, v)[Len(s) - n + 1] = v
  BY <1>1, <1>5, AppendProperties
<1>8. ASSUME NEW i \in 1..Len(b) PROVE b[i] = Append(a, v)[i]
  <2>1. CASE i <= Len(s) - n
    <3>1. i \in 1..(Len(s) - n) /\ n + i \in 1..Len(s)
      BY <1>1, <1>6, <2>1
    <3>2. QED BY <1>1, <1>2, <1>5, <1>6, <1>7, <3>1
  <2>2. CASE i = Len(s) - n + 1
    <3>1. n + i = Len(s) + 1
      BY <1>1, <2>2
    <3>2. QED BY <1>1, <1>2, <1>6, <1>7, <2>2, <3>1
  <2>3. i \in Nat /\ i <= Len(s) + 1 - n
    BY <1>1, <1>6
  <2>4. i <= Len(s) - n \/ i = Len(s) - n + 1
    BY <1>1, <2>3
  <2>5. QED BY <2>1, <2>2, <2>4
<1>9. b = Append(a, v)
  BY <1>6, <1>7, <1>8, SeqEqual
<1>10. QED BY <1>1, <1>2, <1>3, <1>4, <1>9

LEMMA QueueShrinks ==
  ASSUME NEW S, NEW s \in Seq(S), NEW n \in Nat, n < Len(s)
  PROVE  /\ SubSeq(s, n + 1, Len(s)) # <<>>
         /\ Head(SubSeq(s, n + 1, Len(s))) = s[n + 1]
         /\ Tail(SubSeq(s, n + 1, Len(s))) = SubSeq(s, n + 2, Len(s))
<1>1. Len(s) \in Nat /\ n + 1 \in 1..Len(s) /\ Len(s) \in (n + 1)..Len(s) /\ n + 1 + 1 = n + 2
      /\ \A i \in (n + 1)..Len(s) : s[i] \in S
  BY LenProperties, ElementOfSeq
<1>2. Len(SubSeq(s, n + 1, Len(s))) = Len(s) - n
  BY <1>1, SubSeqProperties
<1>3. SubSeq(s, n + 1, Len(s)) # <<>>
  <2>1. PICK q : q = SubSeq(s, n + 1, Len(s))
    OBVIOUS
  <2>2. Len(q) = Len(s) - n
    BY <1>2, <2>1, Zenon
  <2>3. Len(s) - n # 0
    BY <1>1
  <2>4. Len(<<>>) = 0
    BY EmptySeq
  <2>5. QED BY <2>1, <2>2, <2>3, <2>4
<1>4. QED BY <1>1, <1>3, HeadTailOfSubSeq

(* What has been received is never more than what was sent.                *)
LEMMA InvCounts ==
  ASSUME ChanInv, NEW c \in Channel
  PROVE  /\ sent \in [Channel -> Seq(Msg)] /\ got \in [Channel -> Seq(Msg)]
         /\ sent[c] \in Seq(Msg) /\ got[c] \in Seq(Msg)
         /\ Len(sent[c]) \in Nat /\ Len(got[c]) \in Nat /\ Len(got[c]) <= Len(sent[c])
<1>1. /\ sent \in [Channel -> Seq(Msg)] /\ got \in [Channel -> Seq(Msg)]
      /\ sent[c] \in Seq(Msg) /\ got[c] \in Seq(Msg)
  BY DEF ChanInv, ChanTypeOK
<1>2. Len(sent[c]) \in Nat /\ Len(got[c]) \in Nat
  BY <1>1, LenProperties
<1>3. PICK hole \in HoleMap : InvOf(hole)
  BY DEF ChanInv
<1>4. CASE Starting
  <2>1. sent[c] = <<>> /\ got[c] = <<>>
    BY <1>3, <1>4 DEF InvOf, StartInv
  <2>2. QED BY <1>1, <1>2, <2>1
<1>5. CASE ~Starting
  BY <1>1, <1>2, <1>3, <1>5 DEF InvOf, RunInv, ChainsHold, ChainHolds, NGot, NSent
<1>6. QED BY <1>4, <1>5

Rest(s, g) == SubSeq(s, Len(g) + 1, Len(s))

LEMMA InTransitIs ==
  /\ InTransit = [c \in Channel |-> Rest(sent[c], got[c])]
  /\ InTransit' = [c \in Channel |-> Rest(sent'[c], got'[c])]
BY DEF InTransit, Rest

LEMMA FifoInit == CInit => F!Init
<1> SUFFICES ASSUME CInit PROVE F!Init
  OBVIOUS
<1>1. \A c \in Channel : sent[c] = <<>> /\ got[c] = <<>>
  BY DEF CInit
<1>2. Rest(<<>>, <<>>) = <<>>
  <2>1. Len(<<>>) = 0
    BY EmptySeq
  <2>2. SubSeq(<<>>, 1, 0) = <<>>
    BY SubSeqEmpty
  <2>3. QED BY <2>1, <2>2 DEF Rest
<1>3. InTransit = [c \in Channel |-> <<>>]
  BY <1>1, <1>2, InTransitIs
<1>4. QED BY <1>3 DEF F!Init, CInit

LEMMA FifoSend ==
  ASSUME ChanInv, NEW c \in Channel, Links(c)
  PROVE  \E v \in Msg : F!Send(c, v)
<1>1. PICK v \in Msg : got' = got /\ sent' = [sent EXCEPT ![c] = Append(@, v)]
  BY DEF Links
<1>2. /\ sent \in [Channel -> Seq(Msg)] /\ sent[c] \in Seq(Msg)
      /\ Len(got[c]) \in Nat /\ Len(got[c]) <= Len(sent[c])
  BY InvCounts
<1>3. sent'[c] = Append(sent[c], v) /\ \A d \in Channel \ {c} : sent'[d] = sent[d]
  BY <1>1, <1>2
<1>4. Rest(sent'[c], got'[c]) = Append(Rest(sent[c], got[c]), v)
  <2>1. PICK s \in Seq(Msg), n \in Nat : s = sent[c] /\ n = Len(got[c]) /\ n <= Len(s)
    BY <1>2
  <2>2. SubSeq(Append(s, v), n + 1, Len(Append(s, v))) = Append(SubSeq(s, n + 1, Len(s)), v)
    BY <2>1, QueueGrows
  <2>3. QED BY <1>1, <1>3, <2>1, <2>2 DEF Rest
<1>5. InTransit' = [InTransit EXCEPT ![c] = Append(@, v)]
  <2>1. \A d \in Channel : Rest(sent'[d], got'[d])
            = IF d = c THEN Append(Rest(sent[c], got[c]), v) ELSE Rest(sent[d], got[d])
    <3>1. SUFFICES ASSUME NEW d \in Channel
                   PROVE  Rest(sent'[d], got'[d])
                            = IF d = c THEN Append(Rest(sent[c], got[c]), v) ELSE Rest(sent[d], got[d])
      OBVIOUS
    <3>2. CASE d = c
      BY <1>4, <3>2
    <3>3. CASE d # c
      <4>1. sent'[d] = sent[d] /\ got'[d] = got[d]
        BY <1>1, <1>3, <3>3
      <4>2. QED BY <3>3, <4>1
    <3>4. QED BY <3>2, <3>3
  <2>2. PICK q : q = [d \in Channel |-> Rest(sent[d], got[d])]
    OBVIOUS
  <2>3. [q EXCEPT ![c] = Append(@, v)]
          = [d \in Channel |-> IF d = c THEN Append(q[c], v) ELSE q[d]]
    BY <2>2
  <2>4. QED BY <2>1, <2>2, <2>3, InTransitIs
<1>6. QED BY <1>1, <1>5 DEF F!Send

LEMMA FifoRecv ==
  ASSUME ChanInv, NEW c \in Channel, Receives(c)
  PROVE  F!Recv(c)
<1>1. /\ Len(got[c]) < Len(sent[c]) /\ sent' = sent
      /\ got' = [got EXCEPT ![c] = Append(@, sent[c][Len(got[c]) + 1])]
  BY DEF Receives, NGot, NSent
<1>2. /\ got \in [Channel -> Seq(Msg)] /\ sent[c] \in Seq(Msg) /\ got[c] \in Seq(Msg)
      /\ Len(got[c]) \in Nat /\ Len(sent[c]) \in Nat
  BY InvCounts
<1>3. sent[c][Len(got[c]) + 1] \in Msg
  BY <1>1, <1>2, ElementOfSeq
<1>4. /\ got'[c] = Append(got[c], sent[c][Len(got[c]) + 1])
      /\ \A d \in Channel \ {c} : got'[d] = got[d]
  BY <1>1, <1>2
<1>5. Len(got'[c]) = Len(got[c]) + 1
  BY <1>2, <1>3, <1>4, AppendProperties
<1>6. /\ InTransit[c] = Rest(sent[c], got[c]) /\ InTransit'[c] = Rest(sent[c], got'[c])
      /\ \A d \in Channel \ {c} : InTransit'[d] = InTransit[d]
  BY <1>1, <1>4, InTransitIs
<1>7. /\ Rest(sent[c], got[c]) # <<>>
      /\ Head(Rest(sent[c], got[c])) = sent[c][Len(got[c]) + 1]
      /\ Tail(Rest(sent[c], got[c])) = Rest(sent[c], got'[c])
  <2>1. PICK s \in Seq(Msg), n \in Nat : s = sent[c] /\ n = Len(got[c]) /\ n < Len(s)
    BY <1>1, <1>2
  <2>2. /\ SubSeq(s, n + 1, Len(s)) # <<>> /\ Head(SubSeq(s, n + 1, Len(s))) = s[n + 1]
        /\ Tail(SubSeq(s, n + 1, Len(s))) = SubSeq(s, n + 2, Len(s))
    BY <2>1, QueueShrinks
  <2>3. Len(got'[c]) + 1 = n + 2
    BY <1>5, <2>1
  <2>4. /\ Rest(sent[c], got[c]) = SubSeq(s, n + 1, Len(s))
        /\ Rest(sent[c], got'[c]) = SubSeq(s, n + 2, Len(s))
    BY <2>1, <2>3 DEF Rest
  <2>5. QED BY <2>1, <2>2, <2>4
<1>8. InTransit' = [InTransit EXCEPT ![c] = Tail(@)]
  BY <1>6, <1>7, InTransitIs
<1>9. QED BY <1>1, <1>6, <1>7, <1>8 DEF F!Recv

LEMMA FifoStep ==
  ASSUME ChanInv, OneTakeWaits, [Next]_vars
  PROVE  [F!Next]_<<InTransit, got>>
<1>1. CASE UNCHANGED <<sent, got>>
  BY <1>1 DEF InTransit
<1>2. CASE \E c \in Channel : Receives(c) \/ Links(c)
  BY <1>2, FifoSend, FifoRecv DEF F!Next
<1>3. QED BY <1>1, <1>2, ChanStep

(* A channel is an unbounded queue, for any number of channels, threads    *)
(* and messages: every message linked is received at most once, in the     *)
(* order of the links, whatever send, recv, tryRecv and select interleave. *)
THEOREM ChannelsAreQueues ==
  ASSUME TwoUsers
  PROVE  Spec => IsFifo
<1>1. CInit => F!Init
  BY FifoInit
<1>2. ChanInv /\ OneTakeWaits /\ [Next]_vars => [F!Next]_<<InTransit, got>>
  BY FifoStep
<1>3. QED BY <1>1, <1>2, TwoUsersInvariant, PTL DEF Spec, IsFifo, F!Spec
============================================================================
