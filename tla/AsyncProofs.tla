---------------------------- MODULE AsyncProofs ----------------------------
(***************************************************************************)
(* Threads that are interrupted while they wait never corrupt the queues,  *)
(* and nobody sleeps on an exception, for any number of threads, MVars and *)
(* exceptions.                                                             *)
(***************************************************************************)
EXTENDS Async, RtsProofs, FiniteSetTheorems

(* The queues and the states of the threads, as values: an action may      *)
(* change them in two steps.                                               *)
Queue(q)  == q \in Seq(Thread) /\ NoRepeat(q)
Placed(st, rx, rq, tq, tp, r) ==
  /\ DOMAIN st = Thread /\ DOMAIN rx = Thread
  /\ Queue(rq) /\ Queue(tq)
  /\ DOMAIN tp = MVar /\ DOMAIN r = MVar
  /\ \A m \in MVar : Queue(tp[m]) /\ Queue(r[m])
  /\ \A t \in Thread :
       /\ InQ(rq, t) <=> st[t] = "runnable"
       /\ InQ(tq, t) <=> st[t] = "wait_time"
       /\ \A m \in MVar :
            /\ InQ(tp[m], t) <=> st[t] = "wait_mvar" /\ rx[t].prim \in {"take", "put"} /\ rx[t].mv = m
            /\ InQ(r[m], t)  <=> st[t] = "wait_mvar" /\ rx[t].prim = "read" /\ rx[t].mv = m
PlacedNow == Placed(state, redex, runq, timeq, takeput, rd)

LEMMA PlacedIsOneQueue == PlacedNow => OneQueue
  BY DEF PlacedNow, Placed, Queue, OneQueue

LEMMA Nobody == Queue(<<>>) /\ \A t : ~InQ(<<>>, t)
  BY DEF Queue, NoRepeat, InQ

LEMMA Members ==
  ASSUME NEW q \in Seq(Thread), NEW t, InQ(q, t)
  PROVE  t \in Thread
  BY DEF InQ

(* The threads of q leave their queues for runq and become runnable.       *)
AreQueues(rq, tq, tp, r) ==
  /\ Queue(rq) /\ Queue(tq)
  /\ DOMAIN tp = MVar /\ DOMAIN r = MVar
  /\ \A m \in MVar : Queue(tp[m]) /\ Queue(r[m])
Woken(q, rq, tq, tp, r, rq2, tq2, tp2, r2) ==
  \A t \in Thread :
    /\ InQ(rq2, t) <=> InQ(rq, t) \/ InQ(q, t)
    /\ InQ(tq2, t) <=> InQ(tq, t) /\ ~InQ(q, t)
    /\ \A m \in MVar :
         /\ InQ(tp2[m], t) <=> InQ(tp[m], t) /\ ~InQ(q, t)
         /\ InQ(r2[m], t)  <=> InQ(r[m], t) /\ ~InQ(q, t)
LEMMA WakingPlaces ==
  ASSUME NEW st, NEW rx, NEW rq, NEW tq, NEW tp, NEW r, Placed(st, rx, rq, tq, tp, r),
         NEW q, NEW rq2, NEW tq2, NEW tp2, NEW r2, AreQueues(rq2, tq2, tp2, r2),
         Woken(q, rq, tq, tp, r, rq2, tq2, tp2, r2)
  PROVE  Placed([t \in Thread |-> IF InQ(q, t) THEN "runnable" ELSE st[t]], rx, rq2, tq2, tp2, r2)
<1> DEFINE st2 == [t \in Thread |-> IF InQ(q, t) THEN "runnable" ELSE st[t]]
<1>1. ASSUME NEW t \in Thread
      PROVE  /\ InQ(rq2, t) <=> st2[t] = "runnable"
             /\ InQ(tq2, t) <=> st2[t] = "wait_time"
             /\ \A m \in MVar :
                  /\ InQ(tp2[m], t) <=> st2[t] = "wait_mvar" /\ rx[t].prim \in {"take", "put"} /\ rx[t].mv = m
                  /\ InQ(r2[m], t)  <=> st2[t] = "wait_mvar" /\ rx[t].prim = "read" /\ rx[t].mv = m
  <2>1. CASE InQ(q, t)
    BY <2>1 DEF Placed, Woken
  <2>2. CASE ~InQ(q, t)
    BY <2>2 DEF Placed, Woken
  <2> QED BY <2>1, <2>2
<1>2. DOMAIN st2 = Thread
  OBVIOUS
<1> HIDE DEF st2
<1>3. Placed(st2, rx, rq2, tq2, tp2, r2)
  BY <1>1, <1>2 DEF Placed, AreQueues
<1> QED BY <1>3 DEF st2

(* A runnable thread gives up its redex.                                   *)
LEMMA CompletingPlaces ==
  ASSUME NEW st, NEW rx, NEW rq, NEW tq, NEW tp, NEW r, Placed(st, rx, rq, tq, tp, r),
         NEW c \in Thread, st[c] = "runnable", NEW x
  PROVE  Placed(st, [rx EXCEPT ![c] = x], rq, tq, tp, r)
<1> DEFINE rx2 == [rx EXCEPT ![c] = x]
<1>1. DOMAIN rx2 = Thread /\ \A t \in Thread : t # c => rx2[t] = rx[t]
  BY DEF Placed
<1> HIDE DEF rx2
<1>2. Placed(st, rx2, rq, tq, tp, r)
  BY <1>1 DEF Placed
<1> QED BY <1>2 DEF rx2

(* The running thread leaves runq, for the queue that its new state and    *)
(* its redex x name, or for none.                                          *)
Gone(c, s, x, rq, tq, tp, r, rq2, tq2, tp2, r2) ==
  \A t \in Thread :
    /\ InQ(rq2, t) <=> InQ(rq, t) /\ t # c
    /\ InQ(tq2, t) <=> InQ(tq, t) \/ (t = c /\ s = "wait_time")
    /\ \A m \in MVar :
         /\ InQ(tp2[m], t) <=> InQ(tp[m], t)
                               \/ (t = c /\ s = "wait_mvar" /\ x.prim \in {"take", "put"} /\ x.mv = m)
         /\ InQ(r2[m], t)  <=> InQ(r[m], t)
                               \/ (t = c /\ s = "wait_mvar" /\ x.prim = "read" /\ x.mv = m)
LEMMA LeavingPlaces ==
  ASSUME NEW st, NEW rx, NEW rq, NEW tq, NEW tp, NEW r, Placed(st, rx, rq, tq, tp, r),
         NEW c \in Thread, st[c] = "runnable", NEW s, s # "runnable", NEW x,
         NEW rq2, NEW tq2, NEW tp2, NEW r2, AreQueues(rq2, tq2, tp2, r2),
         Gone(c, s, x, rq, tq, tp, r, rq2, tq2, tp2, r2)
  PROVE  Placed([st EXCEPT ![c] = s], [rx EXCEPT ![c] = x], rq2, tq2, tp2, r2)
<1> DEFINE st2 == [st EXCEPT ![c] = s]  rx2 == [rx EXCEPT ![c] = x]
<1>1. /\ DOMAIN st2 = Thread /\ DOMAIN rx2 = Thread
      /\ st2[c] = s /\ rx2[c] = x
      /\ \A t \in Thread : t # c => st2[t] = st[t] /\ rx2[t] = rx[t]
  BY DEF Placed
<1> HIDE DEF st2, rx2
<1>2. ASSUME NEW t \in Thread
      PROVE  /\ InQ(rq2, t) <=> st2[t] = "runnable"
             /\ InQ(tq2, t) <=> st2[t] = "wait_time"
             /\ \A m \in MVar :
                  /\ InQ(tp2[m], t) <=> st2[t] = "wait_mvar" /\ rx2[t].prim \in {"take", "put"} /\ rx2[t].mv = m
                  /\ InQ(r2[m], t)  <=> st2[t] = "wait_mvar" /\ rx2[t].prim = "read" /\ rx2[t].mv = m
  <2>1. CASE t = c
    BY <1>1, <2>1 DEF Placed, Gone
  <2>2. CASE t # c
    BY <1>1, <2>2 DEF Placed, Gone
  <2> QED BY <2>1, <2>2
<1>3. Placed(st2, rx2, rq2, tq2, tp2, r2)
  BY <1>1, <1>2 DEF Placed, AreQueues
<1> QED BY <1>3 DEF st2, rx2

----------------------------------------------------------------------------
(* Queue operations.                                                       *)
LEMMA Unlinking ==
  ASSUME NEW q, Queue(q), NEW t
  PROVE  Queue(Unlinked(q, t)) /\ \A u : InQ(Unlinked(q, t), u) <=> InQ(q, u) /\ u # t
<1>1. CASE ~InQ(q, t)
  <2>1. Unlinked(q, t) = q
    BY <1>1 DEF Unlinked
  <2> QED BY <1>1, <2>1
<1>2. CASE InQ(q, t)
  <2> DEFINE i == CHOOSE i \in 1..Len(q) : q[i] = t
             a == SubSeq(q, 1, i - 1)  b == SubSeq(q, i + 1, Len(q))  c == SubSeq(q, i, Len(q))
  <2>0. q \in Seq(Thread) /\ NoRepeat(q) /\ Len(q) \in Nat
    BY LenProperties DEF Queue
  <2>1. i \in 1..Len(q) /\ q[i] = t /\ Unlinked(q, t) = a \o b
    BY <1>2 DEF InQ, Unlinked
  <2> HIDE DEF i
  <2>2. /\ a \in Seq(Thread) /\ NoRepeat(a) /\ Len(a) = i - 1
        /\ \A j \in 1..(i - 1) : a[j] = q[j]
    <3>1. i - 1 \in 0..Len(q)
      BY <2>0, <2>1
    <3> QED BY <2>0, <3>1, SplitQ
  <2>3. /\ b \in Seq(Thread) /\ NoRepeat(b) /\ Len(b) = Len(q) - i
        /\ \A j \in 1..(Len(q) - i) : b[j] = q[i + j]
    <3>1. i \in 0..Len(q)
      BY <2>0, <2>1
    <3> QED BY <2>0, <3>1, SplitQ
  <2> HIDE DEF a, b
  <2>4. ASSUME NEW u, InQ(a, u)
        PROVE  InQ(q, u) /\ u # t
    <3>1. PICK j \in 1..(i - 1) : a[j] = u
      BY <2>0, <2>1, <2>2, <2>4 DEF InQ
    <3>2. j \in 1..Len(q) /\ q[j] = u /\ j # i
      BY <2>0, <2>1, <2>2, <3>1
    <3> QED BY <2>0, <2>1, <3>2 DEF InQ, NoRepeat
  <2>5. ASSUME NEW u, InQ(b, u)
        PROVE  InQ(q, u) /\ u # t /\ ~InQ(a, u)
    <3>1. PICK j \in 1..(Len(q) - i) : b[j] = u
      BY <2>0, <2>1, <2>3, <2>5 DEF InQ
    <3>2. i + j \in 1..Len(q) /\ q[i + j] = u /\ i + j # i
      BY <2>0, <2>1, <2>3, <3>1
    <3>3. ~InQ(a, u)
      <4>1. SUFFICES ASSUME NEW k \in 1..(i - 1), a[k] = u PROVE FALSE
        BY <2>0, <2>1, <2>2 DEF InQ
      <4>2. k \in 1..Len(q) /\ q[k] = u /\ k # i + j
        BY <2>0, <2>1, <2>2, <3>1, <4>1
      <4> QED BY <2>0, <3>2, <4>2 DEF NoRepeat
    <3> QED BY <2>0, <2>1, <3>2, <3>3 DEF InQ, NoRepeat
  <2>6. ASSUME NEW u, InQ(q, u), u # t
        PROVE  InQ(a, u) \/ InQ(b, u)
    <3>1. PICK j \in 1..Len(q) : q[j] = u /\ j # i
      BY <2>1, <2>6 DEF InQ
    <3>2. CASE j < i
      BY <2>0, <2>1, <2>2, <3>1, <3>2 DEF InQ
    <3>3. CASE j > i
      <4>1. j - i \in 1..Len(b) /\ b[j - i] = u
        BY <2>0, <2>1, <2>3, <3>1, <3>3
      <4> QED BY <4>1 DEF InQ
    <3> QED BY <2>0, <2>1, <3>1, <3>2, <3>3
  <2>7. /\ a \o b \in Seq(Thread) /\ NoRepeat(a \o b)
        /\ \A u : InQ(a \o b, u) <=> InQ(a, u) \/ InQ(b, u)
    BY <2>2, <2>3, <2>5, ConcatQ
  <2> QED BY <2>1, <2>4, <2>5, <2>6, <2>7 DEF Queue
<1> QED BY <1>1, <1>2

LEMMA Concatenating ==
  ASSUME NEW q, NEW r, Queue(q), Queue(r), \A t : ~(InQ(q, t) /\ InQ(r, t))
  PROVE  Queue(q \o r) /\ \A t : InQ(q \o r, t) <=> InQ(q, t) \/ InQ(r, t)
BY ConcatQ DEF Queue

LEMMA Appending ==
  ASSUME NEW q, Queue(q), NEW t \in Thread, ~InQ(q, t)
  PROVE  Queue(Append(q, t)) /\ \A u : InQ(Append(q, t), u) <=> InQ(q, u) \/ u = t
BY AppendQ DEF Queue

LEMMA Splitting ==
  ASSUME NEW q, Queue(q), NEW n \in 0..Len(q)
  PROVE  LET a == SubSeq(q, 1, n)  b == SubSeq(q, n + 1, Len(q)) IN
         /\ Queue(a) /\ Queue(b) /\ \A t : InQ(q, t) <=> InQ(a, t) \/ InQ(b, t)
         /\ \A t : ~(InQ(a, t) /\ InQ(b, t))
BY SplitQ DEF Queue

(* The running thread.                                                     *)
LEMMA Front ==
  ASSUME PlacedNow, Running
  PROVE  /\ Cur \in Thread /\ state[Cur] = "runnable" /\ InQ(runq, Cur)
         /\ Queue(Tail(runq)) /\ \A t : InQ(Tail(runq), t) <=> InQ(runq, t) /\ t # Cur
<1>1. runq \in Seq(Thread) /\ NoRepeat(runq) /\ runq # <<>>
  BY DEF PlacedNow, Placed, Queue, Running
<1>2. /\ Tail(runq) \in Seq(Thread) /\ NoRepeat(Tail(runq)) /\ Cur \in Thread
      /\ InQ(runq, Cur) /\ \A t : InQ(Tail(runq), t) <=> InQ(runq, t) /\ t # Cur
  BY <1>1, TailQ DEF Cur
<1> QED BY <1>2 DEF PlacedNow, Placed, Queue

----------------------------------------------------------------------------
(* The inductive invariant.                                                *)
AsyncInv ==
  /\ PlacedNow /\ NobodySleepsOnIt
  /\ DOMAIN data = MVar /\ mask \in [Thread -> Mask] /\ frames \in [Thread -> Seq(Frame)]

(* A thread that waits after a step was waiting before it with the same    *)
(* masking state and no new exception, or must not wait for one.           *)
LEMMA StaysAwake ==
  ASSUME NobodySleepsOnIt,
         \A t \in Thread : state'[t] \in {"wait_mvar", "wait_time"} =>
           \/ state'[t] = state[t] /\ mask'[t] = mask[t]
              /\ (data[ExnOf[t]] = NIL => data'[ExnOf[t]] = NIL)
           \/ mask'[t] = "uninterruptible" \/ data'[ExnOf[t]] = NIL
  PROVE  NobodySleepsOnIt'
BY DEF NobodySleepsOnIt

(* The threads of q, who wait, are made runnable; the running thread may   *)
(* complete.                                                               *)
LEMMA WakingStep ==
  ASSUME PlacedNow, Running, NEW q,
         redex' = redex \/ Completes,
         state' = MadeRunnable(q),
         AreQueues(runq', timeq', takeput', rd'),
         Woken(q, runq, timeq, takeput, rd, runq', timeq', takeput', rd')
  PROVE  PlacedNow' /\ \A t \in Thread : state'[t] # "runnable" => state'[t] = state[t]
<1>1. Cur \in Thread /\ state[Cur] = "runnable"
  BY Front
<1>2. Placed(state', redex, runq', timeq', takeput', rd')
  <2>1. Placed(state, redex, runq, timeq, takeput, rd)
    BY DEF PlacedNow
  <2>2. Placed([t \in Thread |-> IF InQ(q, t) THEN "runnable" ELSE state[t]],
               redex, runq', timeq', takeput', rd')
    BY <2>1, WakingPlaces
  <2> QED BY <2>2 DEF MadeRunnable
<1>3. state'[Cur] = "runnable" /\ \A t \in Thread : state'[t] # "runnable" => state'[t] = state[t]
  BY <1>1 DEF MadeRunnable
<1>4. CASE redex' = redex
  BY <1>2, <1>3, <1>4 DEF PlacedNow
<1>5. CASE Completes
  <2>1. redex' = [redex EXCEPT ![Cur] = NoRedex]
    BY <1>5 DEF Completes
  <2> QED BY <1>1, <1>2, <1>3, <2>1, CompletingPlaces DEF PlacedNow
<1> QED BY <1>3, <1>4, <1>5

(* A step that changes neither queues nor states.                          *)
LEMMA QuietStep ==
  ASSUME PlacedNow, redex' = redex \/ (Running /\ Completes), UNCHANGED <<state, runq, timeq, takeput, rd>>
  PROVE  PlacedNow'
<1>1. CASE redex' = redex
  BY <1>1 DEF PlacedNow
<1>2. CASE Running /\ Completes
  <2>1. Cur \in Thread /\ state[Cur] = "runnable" /\ redex' = [redex EXCEPT ![Cur] = NoRedex]
    BY <1>2, Front DEF Completes
  <2> QED BY <2>1, CompletingPlaces DEF PlacedNow
<1> QED BY <1>1, <1>2

(* Emptying takeput[m] into runq.                                          *)
LEMMA TakeputStep ==
  ASSUME PlacedNow, Running, NEW m \in MVar, Wakes(takeput[m]), redex' = redex \/ Completes,
         takeput' = [takeput EXCEPT ![m] = <<>>], UNCHANGED <<timeq, rd>>
  PROVE  PlacedNow' /\ \A t \in Thread : state'[t] # "runnable" => state'[t] = state[t]
<1> DEFINE q == takeput[m]
<1>1. Queue(q) /\ \A t \in Thread : InQ(q, t) => state[t] = "wait_mvar" /\ redex[t].mv = m
                                                /\ redex[t].prim \in {"take", "put"}
  BY DEF PlacedNow, Placed
<1>2. Queue(runq) /\ \A t : ~(InQ(runq, t) /\ InQ(q, t))
  <2>1. \A t : InQ(q, t) => t \in Thread
    BY <1>1, Members DEF Queue
  <2> QED BY <1>1, <2>1 DEF PlacedNow, Placed
<1>3. runq' = runq \o q /\ state' = MadeRunnable(q)
  BY DEF Wakes
<1>4. Queue(runq') /\ \A t : InQ(runq', t) <=> InQ(runq, t) \/ InQ(q, t)
  BY <1>1, <1>2, <1>3, Concatenating
<1>5. AreQueues(runq', timeq', takeput', rd')
  BY <1>4, Nobody DEF PlacedNow, Placed, AreQueues
<1>6. ASSUME NEW t \in Thread
      PROVE  /\ InQ(timeq', t) <=> InQ(timeq, t) /\ ~InQ(q, t)
             /\ \A n \in MVar :
                  /\ InQ(takeput'[n], t) <=> InQ(takeput[n], t) /\ ~InQ(q, t)
                  /\ InQ(rd'[n], t)      <=> InQ(rd[n], t) /\ ~InQ(q, t)
  BY <1>1, Nobody DEF PlacedNow, Placed
<1> HIDE DEF q
<1>7. Woken(q, runq, timeq, takeput, rd, runq', timeq', takeput', rd')
  BY <1>4, <1>6 DEF Woken
<1> QED BY <1>3, <1>5, <1>7, WakingStep

(* The running thread leaves runq for the queue that s and x name.         *)
LEMMA LeavingStep ==
  ASSUME PlacedNow, Running, NEW s, s # "runnable", NEW x,
         state' = [state EXCEPT ![Cur] = s], redex' = [redex EXCEPT ![Cur] = x],
         AreQueues(runq', timeq', takeput', rd'),
         Gone(Cur, s, x, runq, timeq, takeput, rd, runq', timeq', takeput', rd')
  PROVE  PlacedNow' /\ \A t \in Thread : t # Cur => state'[t] = state[t]
<1>1. Cur \in Thread /\ state[Cur] = "runnable" /\ DOMAIN state = Thread
  BY Front DEF PlacedNow, Placed
<1>2. Placed(state, redex, runq, timeq, takeput, rd)
  BY DEF PlacedNow
<1>3. Placed([state EXCEPT ![Cur] = s], [redex EXCEPT ![Cur] = x], runq', timeq', takeput', rd')
  BY <1>1, <1>2, LeavingPlaces
<1> QED BY <1>1, <1>3 DEF PlacedNow

LEMMA TakeputBlocks ==
  ASSUME PlacedNow, Running, NEW m \in MVar, NEW p \in {"take", "put"}, NEW v,
         Suspends(p, m, v, "wait_mvar"), takeput' = [takeput EXCEPT ![m] = Append(@, Cur)],
         UNCHANGED <<timeq, rd>>
  PROVE  PlacedNow' /\ \A t \in Thread : t # Cur => state'[t] = state[t]
<1>1. /\ Cur \in Thread /\ state[Cur] = "runnable" /\ Queue(Tail(runq))
      /\ \A t : InQ(Tail(runq), t) <=> InQ(runq, t) /\ t # Cur
  BY Front
<1>2. Queue(takeput[m]) /\ ~InQ(takeput[m], Cur)
  BY <1>1 DEF PlacedNow, Placed
<1>3. /\ Queue(Append(takeput[m], Cur))
      /\ \A u : InQ(Append(takeput[m], Cur), u) <=> InQ(takeput[m], u) \/ u = Cur
  BY <1>1, <1>2, Appending
<1>4. /\ state' = [state EXCEPT ![Cur] = "wait_mvar"] /\ redex' = [redex EXCEPT ![Cur] = Pending(p, m, v)]
      /\ runq' = Tail(runq) /\ timeq' = timeq /\ rd' = rd
  BY DEF Suspends
<1>5. AreQueues(runq', timeq', takeput', rd')
  BY <1>1, <1>3, <1>4 DEF AreQueues, PlacedNow, Placed
<1>6. Pending(p, m, v).prim = p /\ Pending(p, m, v).mv = m
  BY DEF Pending
<1>7. Gone(Cur, "wait_mvar", Pending(p, m, v), runq, timeq, takeput, rd, runq', timeq', takeput', rd')
  <2> DEFINE x == Pending(p, m, v)
  <2>1. x.prim = p /\ x.mv = m
    BY <1>6
  <2> HIDE DEF x
  <2>2. Gone(Cur, "wait_mvar", x, runq, timeq, takeput, rd, runq', timeq', takeput', rd')
    BY <1>1, <1>3, <1>4, <2>1 DEF Gone, PlacedNow, Placed
  <2> QED BY <2>2 DEF x
<1> QED BY <1>4, <1>5, <1>7, LeavingStep

LEMMA RdBlocks ==
  ASSUME PlacedNow, NEW m \in MVar, ReadMVarBlocks(m)
  PROVE  PlacedNow' /\ \A t \in Thread : t # Cur => state'[t] = state[t]
<1>0. Running
  BY DEF ReadMVarBlocks, Executes
<1>1. /\ Cur \in Thread /\ state[Cur] = "runnable" /\ Queue(Tail(runq))
      /\ \A t : InQ(Tail(runq), t) <=> InQ(runq, t) /\ t # Cur
  BY <1>0, Front
<1>2. Queue(rd[m]) /\ ~InQ(rd[m], Cur)
  BY <1>1 DEF PlacedNow, Placed
<1>3. /\ Queue(Append(rd[m], Cur))
      /\ \A u : InQ(Append(rd[m], Cur), u) <=> InQ(rd[m], u) \/ u = Cur
  BY <1>1, <1>2, Appending
<1> DEFINE x == Pending("read", m, NIL)
<1>4. /\ state' = [state EXCEPT ![Cur] = "wait_mvar"] /\ redex' = [redex EXCEPT ![Cur] = x]
      /\ rd' = [rd EXCEPT ![m] = Append(@, Cur)]
      /\ runq' = Tail(runq) /\ timeq' = timeq /\ takeput' = takeput
  BY DEF ReadMVarBlocks, Suspends
<1>5. AreQueues(runq', timeq', takeput', rd')
  BY <1>1, <1>3, <1>4 DEF AreQueues, PlacedNow, Placed
<1>6. x.prim = "read" /\ x.mv = m
  BY DEF Pending
<1> HIDE DEF x
<1>7. Gone(Cur, "wait_mvar", x, runq, timeq, takeput, rd, runq', timeq', takeput', rd')
  BY <1>1, <1>3, <1>4, <1>6 DEF Gone, PlacedNow, Placed
<1> QED BY <1>0, <1>4, <1>5, <1>7, LeavingStep

LEMMA Sleeps ==
  ASSUME PlacedNow, NEW u, DelayBegins(u)
  PROVE  PlacedNow' /\ \A t \in Thread : t # Cur => state'[t] = state[t]
<1>0. Running
  BY DEF DelayBegins, Executes
<1>1. /\ Cur \in Thread /\ state[Cur] = "runnable" /\ Queue(Tail(runq))
      /\ \A t : InQ(Tail(runq), t) <=> InQ(runq, t) /\ t # Cur
  BY <1>0, Front
<1> DEFINE x == Pending("delay", NIL, NIL)
<1>2. /\ state' = [state EXCEPT ![Cur] = "wait_time"] /\ redex' = [redex EXCEPT ![Cur] = x]
      /\ runq' = Tail(runq) /\ takeput' = takeput /\ rd' = rd
  BY DEF DelayBegins, Suspends, mvars
<1>3. PICK i \in 0..Len(timeq) :
        timeq' = (SubSeq(timeq, 1, i) \o <<Cur>>) \o SubSeq(timeq, i + 1, Len(timeq))
  BY DEF DelayBegins
<1> DEFINE a == SubSeq(timeq, 1, i)  b == SubSeq(timeq, i + 1, Len(timeq))
<1>4. /\ Queue(a) /\ Queue(b) /\ \A t : InQ(timeq, t) <=> InQ(a, t) \/ InQ(b, t)
      /\ \A t : ~(InQ(a, t) /\ InQ(b, t)) /\ ~InQ(timeq, Cur)
  BY <1>1, Splitting DEF PlacedNow, Placed
<1>5. Queue(<<Cur>>) /\ \A t : InQ(<<Cur>>, t) <=> t = Cur
  BY <1>1 DEF Queue, NoRepeat, InQ
<1> HIDE DEF a, b
<1>6. Queue(a \o <<Cur>>) /\ \A t : InQ(a \o <<Cur>>, t) <=> InQ(a, t) \/ t = Cur
  BY <1>4, <1>5, Concatenating
<1>7. Queue(timeq') /\ \A t : InQ(timeq', t) <=> InQ(timeq, t) \/ t = Cur
  <2>1. timeq' = (a \o <<Cur>>) \o b
    BY <1>3 DEF a, b
  <2> QED BY <1>4, <1>6, <2>1, Concatenating
<1>8. AreQueues(runq', timeq', takeput', rd')
  BY <1>1, <1>2, <1>7 DEF AreQueues, PlacedNow, Placed
<1>9. Gone(Cur, "wait_time", x, runq, timeq, takeput, rd, runq', timeq', takeput', rd')
  BY <1>1, <1>2, <1>7 DEF Gone, PlacedNow, Placed
<1> HIDE DEF x
<1> QED BY <1>0, <1>2, <1>8, <1>9, LeavingStep

LEMMA EndsPlaces ==
  ASSUME PlacedNow, NEW s \in {"finished", "died"}, NEW e, Ends(s, e)
  PROVE  PlacedNow' /\ \A t \in Thread : t # Cur => state'[t] = state[t]
<1>0. Running
  BY DEF Ends, Starts
<1>1. /\ Cur \in Thread /\ state[Cur] = "runnable" /\ Queue(Tail(runq))
      /\ \A t : InQ(Tail(runq), t) <=> InQ(runq, t) /\ t # Cur
  BY <1>0, Front
<1>2. /\ state' = [state EXCEPT ![Cur] = s] /\ redex' = redex
      /\ runq' = Tail(runq) /\ timeq' = timeq /\ takeput' = takeput /\ rd' = rd
  BY DEF Ends, mvars
<1>3. /\ DOMAIN state' = Thread /\ state'[Cur] = s
      /\ \A t \in Thread : t # Cur => state'[t] = state[t]
  BY <1>1, <1>2 DEF PlacedNow, Placed
<1>4. \A t \in Thread :
        /\ InQ(runq', t) <=> state'[t] = "runnable"
        /\ InQ(timeq', t) <=> state'[t] = "wait_time"
        /\ \A m \in MVar :
             /\ InQ(takeput'[m], t) <=> state'[t] = "wait_mvar" /\ redex'[t].prim \in {"take", "put"}
                                        /\ redex'[t].mv = m
             /\ InQ(rd'[m], t) <=> state'[t] = "wait_mvar" /\ redex'[t].prim = "read" /\ redex'[t].mv = m
  BY <1>1, <1>2, <1>3 DEF PlacedNow, Placed
<1> QED BY <1>1, <1>2, <1>3, <1>4 DEF PlacedNow, Placed

(* check_timeq takes the first n sleepers.                                 *)
LEMMA Sleepers ==
  ASSUME PlacedNow, NEW n \in 0..Len(timeq)
  PROVE  LET w == WokenBy(n)  b == SubSeq(timeq, n + 1, Len(timeq)) IN
         /\ Queue(w) /\ Queue(b)
         /\ \A t : InQ(w, t) => t \in Thread /\ state[t] = "wait_time"
         /\ \A t \in Thread : InQ(b, t) <=> InQ(timeq, t) /\ ~InQ(w, t)
<1> DEFINE w == WokenBy(n)  b == SubSeq(timeq, n + 1, Len(timeq))
<1>1. Queue(timeq)
  BY DEF PlacedNow, Placed
<1>2. /\ Queue(w) /\ Queue(b) /\ \A t : InQ(timeq, t) <=> InQ(w, t) \/ InQ(b, t)
      /\ \A t : ~(InQ(w, t) /\ InQ(b, t))
  BY <1>1, Splitting DEF WokenBy
<1> HIDE DEF w, b
<1>3. \A t : InQ(w, t) => t \in Thread
  BY <1>2, Members DEF Queue
<1>4. /\ Queue(w) /\ Queue(b)
      /\ \A t : InQ(w, t) => t \in Thread /\ state[t] = "wait_time"
      /\ \A t \in Thread : InQ(b, t) <=> InQ(timeq, t) /\ ~InQ(w, t)
  BY <1>2, <1>3 DEF PlacedNow, Placed
<1> QED BY <1>4 DEF w, b

LEMMA RotatesPlaces ==
  ASSUME PlacedNow, Running, Rotates, redex' = redex
  PROVE  PlacedNow' /\ \A t \in Thread : state'[t] # "runnable" => state'[t] = state[t]
<1>1. PICK n \in 0..Len(timeq) :
        CheckTimeq(n) /\ runq' = Tail(runq \o WokenBy(n)) \o <<Cur>> /\ UNCHANGED <<mval, mvars, clock, exit>>
  BY DEF Rotates
<1> DEFINE w == WokenBy(n)
<1>2. /\ timeq' = SubSeq(timeq, n + 1, Len(timeq)) /\ state' = MadeRunnable(w)
      /\ runq' = Tail(runq \o w) \o <<Cur>> /\ takeput' = takeput /\ rd' = rd
  BY <1>1 DEF CheckTimeq, mvars
<1>3. /\ Queue(w) /\ Queue(timeq')
      /\ \A t : InQ(w, t) => t \in Thread /\ state[t] = "wait_time"
      /\ \A t \in Thread : InQ(timeq', t) <=> InQ(timeq, t) /\ ~InQ(w, t)
  BY <1>2, Sleepers
<1> HIDE DEF w
<1>4. Queue(runq) /\ runq # <<>> /\ Cur \in Thread
  BY Front DEF PlacedNow, Placed, Running
<1>5. Queue(runq \o w) /\ \A t : InQ(runq \o w, t) <=> InQ(runq, t) \/ InQ(w, t)
  <2>1. \A t : ~(InQ(runq, t) /\ InQ(w, t))
    BY <1>3 DEF PlacedNow, Placed
  <2> QED BY <1>3, <1>4, <2>1, Concatenating
<1>6. runq \o w # <<>> /\ Head(runq \o w) = Cur
  BY <1>3, <1>4, HeadTailProperties, ConcatProperties, EmptySeq, LenProperties DEF Cur, Queue
<1>7. /\ Queue(Tail(runq \o w))
      /\ \A t : InQ(Tail(runq \o w), t) <=> InQ(runq \o w, t) /\ t # Cur
      /\ InQ(runq \o w, Cur)
  BY <1>5, <1>6, TailQ DEF Queue
<1>8. Queue(<<Cur>>) /\ \A t : InQ(<<Cur>>, t) <=> t = Cur
  BY <1>4 DEF Queue, NoRepeat, InQ
<1>9. Queue(runq') /\ \A t : InQ(runq', t) <=> InQ(runq, t) \/ InQ(w, t)
  <2> DEFINE a == Tail(runq \o w)
  <2>1. Queue(a) /\ \A t : InQ(a, t) <=> InQ(runq \o w, t) /\ t # Cur
    BY <1>7
  <2> HIDE DEF a
  <2>2. Queue(a \o <<Cur>>) /\ \A t : InQ(a \o <<Cur>>, t) <=> InQ(a, t) \/ t = Cur
    BY <1>8, <2>1, Concatenating
  <2> QED BY <1>2, <1>5, <1>7, <2>1, <2>2 DEF a
<1>10. AreQueues(runq', timeq', takeput', rd')
  BY <1>2, <1>3, <1>9 DEF AreQueues, PlacedNow, Placed
<1>11. Woken(w, runq, timeq, takeput, rd, runq', timeq', takeput', rd')
  BY <1>2, <1>3, <1>9 DEF Woken, PlacedNow, Placed
<1> QED BY <1>2, <1>10, <1>11, WakingStep

LEMMA PausePlaces ==
  ASSUME PlacedNow, PauseExec
  PROVE  PlacedNow' /\ \A t \in Thread : state'[t] # "runnable" => state'[t] = state[t]
<1>1. PICK n \in 1..Len(timeq) : CheckTimeq(n) /\ runq' = WokenBy(n)
  BY DEF PauseExec
<1> DEFINE w == WokenBy(n)
<1>2. /\ timeq' = SubSeq(timeq, n + 1, Len(timeq)) /\ state' = MadeRunnable(w)
      /\ runq' = w /\ runq = <<>> /\ takeput' = takeput /\ rd' = rd /\ redex' = redex
  BY <1>1 DEF CheckTimeq, mvars, PauseExec
<1>3. /\ Queue(w) /\ Queue(timeq')
      /\ \A t : InQ(w, t) => t \in Thread /\ state[t] = "wait_time"
      /\ \A t \in Thread : InQ(timeq', t) <=> InQ(timeq, t) /\ ~InQ(w, t)
  <2>1. n \in 0..Len(timeq)
    OBVIOUS
  <2> QED BY <1>2, <2>1, Sleepers
<1> HIDE DEF w
<1>4. AreQueues(runq', timeq', takeput', rd')
  BY <1>2, <1>3 DEF AreQueues, PlacedNow, Placed
<1>5. Woken(w, runq, timeq, takeput, rd, runq', timeq', takeput', rd')
  BY <1>2, <1>3, Nobody DEF Woken, PlacedNow, Placed
<1>6. Placed(state, redex, runq, timeq, takeput, rd)
  BY DEF PlacedNow
<1>7. Placed([t \in Thread |-> IF InQ(w, t) THEN "runnable" ELSE state[t]],
             redex, runq', timeq', takeput', rd')
  BY <1>4, <1>5, <1>6, WakingPlaces
<1> QED BY <1>2, <1>7 DEF MadeRunnable, PlacedNow

(* throwTo takes its target out of the queue it waits in.                  *)
LEMMA Interrupting ==
  ASSUME PlacedNow, NEW t \in Thread
  PROVE  Placed(Awake(t), redex, WithWoken(t), Left(timeq, t), LeftAll(takeput, t), LeftAll(rd, t))
<1>0. Placed(state, redex, runq, timeq, takeput, rd)
  BY DEF PlacedNow
<1>1. CASE ~MayInterrupt(t)
  BY <1>0, <1>1 DEF Awake, WithWoken, Left, LeftAll, Placed
<1>2. CASE MayInterrupt(t)
  <2>1. Queue(<<t>>) /\ \A u : InQ(<<t>>, u) <=> u = t
    BY DEF Queue, NoRepeat, InQ
  <2>2. Queue(runq) /\ ~InQ(runq, t)
    BY <1>2 DEF PlacedNow, Placed, MayInterrupt
  <2>3. Queue(WithWoken(t)) /\ \A u : InQ(WithWoken(t), u) <=> InQ(runq, u) \/ u = t
    BY <1>2, <2>2, Appending DEF WithWoken
  <2>4. Queue(Left(timeq, t)) /\ \A u : InQ(Left(timeq, t), u) <=> InQ(timeq, u) /\ u # t
    BY <1>2, Unlinking DEF Left, PlacedNow, Placed
  <2>5. \A m \in MVar :
          /\ Queue(Left(takeput[m], t)) /\ Queue(Left(rd[m], t))
          /\ \A u : InQ(Left(takeput[m], t), u) <=> InQ(takeput[m], u) /\ u # t
          /\ \A u : InQ(Left(rd[m], t), u) <=> InQ(rd[m], u) /\ u # t
    <3>1. SUFFICES ASSUME NEW m \in MVar
                   PROVE  /\ Queue(Left(takeput[m], t)) /\ Queue(Left(rd[m], t))
                          /\ \A u : InQ(Left(takeput[m], t), u) <=> InQ(takeput[m], u) /\ u # t
                          /\ \A u : InQ(Left(rd[m], t), u) <=> InQ(rd[m], u) /\ u # t
      OBVIOUS
    <3>2. Queue(takeput[m]) /\ Queue(rd[m])
      BY DEF PlacedNow, Placed
    <3> QED BY <1>2, <3>2, Unlinking DEF Left
  <2> DEFINE tq == Left(timeq, t)  tp == LeftAll(takeput, t)  r == LeftAll(rd, t)  rq == WithWoken(t)
  <2>6. /\ DOMAIN tp = MVar /\ DOMAIN r = MVar
        /\ \A m \in MVar : tp[m] = Left(takeput[m], t) /\ r[m] = Left(rd[m], t)
    BY DEF LeftAll
  <2> HIDE DEF tp, r, tq, rq
  <2>7. AreQueues(rq, tq, tp, r)
    BY <2>3, <2>4, <2>5, <2>6 DEF AreQueues, rq, tq
  <2>8. Woken(<<t>>, runq, timeq, takeput, rd, rq, tq, tp, r)
    BY <2>1, <2>3, <2>4, <2>5, <2>6 DEF Woken, rq, tq
  <2>9. Placed([u \in Thread |-> IF InQ(<<t>>, u) THEN "runnable" ELSE state[u]], redex, rq, tq, tp, r)
    BY <1>0, <2>7, <2>8, WakingPlaces
  <2> DEFINE st == [u \in Thread |-> IF InQ(<<t>>, u) THEN "runnable" ELSE state[u]]
  <2>10. /\ DOMAIN Awake(t) = Thread /\ DOMAIN st = Thread
         /\ \A u \in Thread : Awake(t)[u] = st[u]
    BY <1>0, <1>2, <2>1 DEF Awake, Placed
  <2> HIDE DEF st
  <2>11. Placed(Awake(t), redex, rq, tq, tp, r)
    BY <2>9, <2>10 DEF Placed, st
  <2> QED BY <2>11 DEF rq, tq, tp, r
<1> QED BY <1>1, <1>2

LEMMA StaysCur ==
  ASSUME PlacedNow, Running, NEW t \in Thread
  PROVE  /\ Awake(t)[Cur] = "runnable" /\ Cur \in Thread
         /\ Queue(Tail(WithWoken(t)))
         /\ \A u : InQ(Tail(WithWoken(t)), u) <=> InQ(WithWoken(t), u) /\ u # Cur
<1>1. Cur \in Thread /\ state[Cur] = "runnable" /\ DOMAIN state = Thread /\ runq # <<>>
  BY Front DEF PlacedNow, Placed, Running
<1>2. Awake(t)[Cur] = "runnable"
  BY <1>1 DEF Awake, MayInterrupt
<1>3. Queue(runq) /\ Queue(WithWoken(t))
  BY Interrupting DEF PlacedNow, Placed
<1>4. WithWoken(t) # <<>> /\ Head(WithWoken(t)) = Cur
  BY <1>1, <1>3, HeadTailProperties, AppendProperties, EmptySeq, LenProperties DEF Cur, Queue, WithWoken
<1> QED BY <1>1, <1>2, <1>3, <1>4, TailQ DEF Queue

LEMMA ThrowPlaces ==
  ASSUME PlacedNow, NEW t \in Thread, NEW e, ThrowTo(t, e)
  PROVE  PlacedNow' /\ state' = Awake(t)
<1>1. /\ Running /\ redex' = [redex EXCEPT ![Cur] = NoRedex] /\ state' = Awake(t)
      /\ runq' = WithWoken(t) /\ timeq' = Left(timeq, t)
      /\ takeput' = LeftAll(takeput, t) /\ rd' = LeftAll(rd, t)
  BY DEF ThrowTo, ThreadIntr, Completes, Executes
<1>2. Placed(state', redex, runq', timeq', takeput', rd')
  BY <1>1, Interrupting
<1>3. Cur \in Thread /\ state'[Cur] = "runnable"
  BY <1>1, StaysCur
<1> QED BY <1>1, <1>2, <1>3, CompletingPlaces DEF PlacedNow

LEMMA ThrowWaitsPlaces ==
  ASSUME PlacedNow, NEW t \in Thread, NEW e, ThrowToWaits(t, e), ExnOf[t] \in MVar
  PROVE  PlacedNow' /\ \A u \in Thread : u # Cur => state'[u] = Awake(t)[u]
<1> DEFINE E == ExnOf[t]  x == Pending("put", E, e)
           tp == LeftAll(takeput, t)  rq == WithWoken(t)  st == Awake(t)
           tq == Left(timeq, t)  r == LeftAll(rd, t)
<1>1. /\ Running /\ redex' = [redex EXCEPT ![Cur] = x] /\ state' = [st EXCEPT ![Cur] = "wait_mvar"]
      /\ runq' = Tail(rq) /\ timeq' = tq
      /\ takeput' = [tp EXCEPT ![E] = Append(@, Cur)] /\ rd' = r
  BY DEF ThrowToWaits, ThreadIntr, Executes
<1>2. Placed(st, redex, rq, tq, tp, r)
  BY Interrupting
<1>3. /\ Cur \in Thread /\ st[Cur] = "runnable" /\ Queue(Tail(rq))
      /\ \A u : InQ(Tail(rq), u) <=> InQ(rq, u) /\ u # Cur
  BY <1>1, StaysCur
<1>4. x.prim = "put" /\ x.mv = E /\ E \in MVar
  BY DEF Pending
<1> HIDE DEF x, E, tp, rq, st, tq, r
<1>5. Queue(tp[E]) /\ ~InQ(tp[E], Cur)
  BY <1>2, <1>3, <1>4 DEF Placed
<1>6. /\ Queue(Append(tp[E], Cur))
      /\ \A u : InQ(Append(tp[E], Cur), u) <=> InQ(tp[E], u) \/ u = Cur
  BY <1>3, <1>5, Appending
<1>7. AreQueues(runq', timeq', takeput', rd')
  BY <1>1, <1>2, <1>3, <1>4, <1>6 DEF AreQueues, Placed
<1>8. Gone(Cur, "wait_mvar", x, rq, tq, tp, r, runq', timeq', takeput', rd')
  BY <1>1, <1>2, <1>3, <1>4, <1>6 DEF Gone, Placed
<1>9. Placed(state', redex', runq', timeq', takeput', rd')
  BY <1>1, <1>2, <1>3, <1>7, <1>8, LeavingPlaces
<1>10. \A u \in Thread : u # Cur => state'[u] = st[u]
  BY <1>1, <1>2 DEF Placed
<1> QED BY <1>9, <1>10 DEF PlacedNow, st

(* Raising what was thrown: the due sleepers and the throwers that wait    *)
(* for mt_exn become runnable.                                             *)
LEMMA RaisesPlaces ==
  ASSUME PlacedNow, Running, ExnOf[Cur] \in MVar, NEW n \in 0..Len(timeq), RaisesThrown(n)
  PROVE  PlacedNow' /\ \A t \in Thread : state'[t] # "runnable" => state'[t] = state[t]
<1> DEFINE E == ExnOf[Cur]  a == WokenBy(n)
           b == IF mval[Cur] = NIL THEN takeput[E] ELSE <<>>
           q == a \o b
<1>1. /\ Completes /\ Wakes(q) /\ timeq' = SubSeq(timeq, n + 1, Len(timeq)) /\ rd' = rd
      /\ mval[Cur] # NIL => takeput' = takeput
      /\ mval[Cur] = NIL => takeput' = [takeput EXCEPT ![E] = <<>>]
  BY DEF RaisesThrown
<1>2. runq' = runq \o q /\ state' = MadeRunnable(q)
  BY <1>1 DEF Wakes
<1>3. /\ Queue(a) /\ Queue(timeq')
      /\ \A t : InQ(a, t) => t \in Thread /\ state[t] = "wait_time"
      /\ \A t \in Thread : InQ(timeq', t) <=> InQ(timeq, t) /\ ~InQ(a, t)
  BY <1>1, Sleepers
<1>4. /\ Queue(b)
      /\ \A t : InQ(b, t) => t \in Thread /\ state[t] = "wait_mvar" /\ redex[t].mv = E
                             /\ redex[t].prim \in {"take", "put"}
  <2>1. CASE mval[Cur] = NIL
    <3>1. Queue(takeput[E]) /\ b = takeput[E]
      BY <2>1 DEF PlacedNow, Placed
    <3>2. \A t : InQ(b, t) => t \in Thread
      BY <3>1, Members DEF Queue
    <3> QED BY <3>1, <3>2 DEF PlacedNow, Placed
  <2>2. CASE mval[Cur] # NIL
    <3>1. b = <<>>
      BY <2>2
    <3> QED BY <3>1, Nobody
  <2> QED BY <2>1, <2>2
<1>5. \A m \in MVar, t \in Thread : InQ(takeput'[m], t) <=> InQ(takeput[m], t) /\ ~InQ(b, t)
  <2>1. CASE mval[Cur] = NIL
    BY <1>1, <2>1, Nobody DEF PlacedNow, Placed
  <2>2. CASE mval[Cur] # NIL
    BY <1>1, <2>2, Nobody
  <2> QED BY <2>1, <2>2
<1>6. DOMAIN takeput' = MVar /\ \A m \in MVar : Queue(takeput'[m])
  <2>1. CASE mval[Cur] = NIL
    BY <1>1, <2>1, Nobody DEF PlacedNow, Placed
  <2>2. CASE mval[Cur] # NIL
    BY <1>1, <2>2 DEF PlacedNow, Placed
  <2> QED BY <2>1, <2>2
<1> HIDE DEF E, a, b
<1>7. Queue(q) /\ \A t : InQ(q, t) <=> InQ(a, t) \/ InQ(b, t)
  <2>1. \A t : ~(InQ(a, t) /\ InQ(b, t))
    BY <1>3, <1>4
  <2> QED BY <1>3, <1>4, <2>1, Concatenating
<1> HIDE DEF q
<1>8. Queue(runq') /\ \A t : InQ(runq', t) <=> InQ(runq, t) \/ InQ(q, t)
  <2>1. Queue(runq) /\ \A t : ~(InQ(runq, t) /\ InQ(q, t))
    BY <1>3, <1>4, <1>7 DEF PlacedNow, Placed
  <2> QED BY <1>2, <1>7, <2>1, Concatenating
<1>9. AreQueues(runq', timeq', takeput', rd')
  BY <1>1, <1>3, <1>6, <1>8 DEF AreQueues, PlacedNow, Placed
<1>10. ASSUME NEW t \in Thread
       PROVE  /\ InQ(timeq', t) <=> InQ(timeq, t) /\ ~InQ(q, t)
              /\ \A m \in MVar :
                   /\ InQ(takeput'[m], t) <=> InQ(takeput[m], t) /\ ~InQ(q, t)
                   /\ InQ(rd'[m], t) <=> InQ(rd[m], t) /\ ~InQ(q, t)
  BY <1>1, <1>3, <1>4, <1>5, <1>7 DEF PlacedNow, Placed
<1>11. Woken(q, runq, timeq, takeput, rd, runq', timeq', takeput', rd')
  BY <1>8, <1>10 DEF Woken
<1> QED BY <1>1, <1>2, <1>9, <1>11, WakingStep

LEMMA ForkPlaces ==
  ASSUME PlacedNow, NEW t \in Thread, Fork(t)
  PROVE  PlacedNow' /\ \A u \in Thread : state'[u] # "runnable" => state'[u] = state[u]
<1>1. /\ state[t] = "unborn" /\ runq' = Append(runq, t) /\ state' = [state EXCEPT ![t] = "runnable"]
      /\ redex' = redex /\ timeq' = timeq /\ takeput' = takeput /\ rd' = rd
  BY DEF Fork, mvars
<1>2. Queue(runq) /\ ~InQ(runq, t) /\ DOMAIN state = Thread
  BY <1>1 DEF PlacedNow, Placed
<1>3. Queue(runq') /\ \A u : InQ(runq', u) <=> InQ(runq, u) \/ u = t
  BY <1>1, <1>2, Appending
<1>4. DOMAIN state' = Thread /\ state'[t] = "runnable" /\ \A u \in Thread : u # t => state'[u] = state[u]
  BY <1>1, <1>2
<1>5. PlacedNow'
  BY <1>1, <1>3, <1>4 DEF PlacedNow, Placed
<1> QED BY <1>4, <1>5

(* Take and put on an MVar of the program.                                 *)
LEMMA TakePlaces ==
  ASSUME PlacedNow, NEW m \in MVar, NEW v, TakeMVar(m, v)
  PROVE  PlacedNow' /\ \A t \in Thread : state'[t] # "runnable" => state'[t] = state[t]
<1>1. Running /\ Completes /\ timeq' = timeq /\ rd' = rd
  BY DEF TakeMVar, Executes, Taken
<1>2. CASE mval[Cur] # NIL
  BY <1>1, <1>2, QuietStep DEF TakeMVar, Taken
<1>3. CASE mval[Cur] = NIL
  BY <1>1, <1>3, TakeputStep DEF TakeMVar, Taken
<1> QED BY <1>2, <1>3

LEMMA PutPlaces ==
  ASSUME PlacedNow, NEW m \in MVar, NEW v, PutMVar(m, v)
  PROVE  PlacedNow' /\ \A t \in Thread : state'[t] # "runnable" => state'[t] = state[t]
<1>1. Running /\ Completes /\ timeq' = timeq /\ rd' = rd
  BY DEF PutMVar, Executes, Stored
<1>2. CASE takeput[m] = <<>> /\ rd[m] = <<>>
  BY <1>1, <1>2, QuietStep DEF PutMVar, Stored
<1>3. CASE ~(takeput[m] = <<>> /\ rd[m] = <<>>)
  BY <1>1, <1>3, TakeputStep DEF PutMVar, Stored
<1> QED BY <1>2, <1>3

----------------------------------------------------------------------------
(* The rest of the state.                                                  *)
LEMMA Rescheduling ==
  ASSUME AsyncInv, Cur \in Thread, Reschedules
  PROVE  frames' \in [Thread -> Seq(Frame)] /\ mask' = mask
<1> DEFINE f == frames[Cur]
           g == [i \in DOMAIN f |-> IF f[i].kind = "catch" THEN [f[i] EXCEPT !.saved = mask[Cur]] ELSE f[i]]
<1>1. f \in Seq(Frame) /\ mask[Cur] \in Mask
  BY DEF AsyncInv
<1>2. \A i \in 1..Len(f) : f[i] \in Frame /\ [f[i] EXCEPT !.saved = mask[Cur]] \in Frame
  <2>1. SUFFICES ASSUME NEW i \in 1..Len(f)
                 PROVE  f[i] \in Frame /\ [f[i] EXCEPT !.saved = mask[Cur]] \in Frame
    OBVIOUS
  <2>2. f[i] \in Frame
    BY <1>1
  <2> HIDE DEF f
  <2> QED BY <1>1, <2>2 DEF Frame
<1>3. DOMAIN f = 1..Len(f) /\ Len(f) \in Nat
  BY <1>1
<1> HIDE DEF f
<1>4. g \in [1..Len(f) -> Frame]
  BY <1>2, <1>3
<1>5. g \in Seq(Frame)
  BY <1>3, <1>4
<1>6. frames' = [frames EXCEPT ![Cur] = g]
  BY DEF Reschedules, Again, f
<1> QED BY <1>5, <1>6 DEF Reschedules, AsyncInv

(* Who runs after check_thrown may go to wait.                             *)
LEMMA Calm ==
  ASSUME AsyncInv, Running, ~Thrown(TRUE)
  PROVE  Cur \in Thread /\ (mask[Cur] = "uninterruptible" \/ data[ExnOf[Cur]] = NIL)
<1>1. Cur \in Thread
  BY Front DEF AsyncInv
<1>2. mask[Cur] \in Mask
  BY <1>1 DEF AsyncInv
<1> QED BY <1>1, <1>2 DEF Thrown, Mask

(* The running thread waits, after check_thrown.                           *)
LEMMA WaitingKeeps ==
  ASSUME AsyncInv, Running, ~Thrown(TRUE), Reschedules, PlacedNow', data' = data,
         \A t \in Thread : t # Cur => state'[t] = state[t]
  PROVE  AsyncInv'
<1>1. Cur \in Thread /\ (mask[Cur] = "uninterruptible" \/ data[ExnOf[Cur]] = NIL)
  BY Calm
<1>2. frames' \in [Thread -> Seq(Frame)] /\ mask' = mask
  BY <1>1, Rescheduling
<1>3. NobodySleepsOnIt'
  BY <1>1, <1>2, StaysAwake DEF AsyncInv
<1> QED BY <1>2, <1>3 DEF AsyncInv

(* Nobody starts to wait, and no exception is delivered.                   *)
LEMMA WakingKeeps ==
  ASSUME AsyncInv, PlacedNow', DOMAIN data' = MVar,
         \A t \in Thread : data[ExnOf[t]] = NIL => data'[ExnOf[t]] = NIL,
         mask' = mask, frames' \in [Thread -> Seq(Frame)],
         \A t \in Thread : state'[t] # "runnable" => state'[t] = state[t]
  PROVE  AsyncInv'
<1>1. NobodySleepsOnIt'
  BY StaysAwake DEF AsyncInv
<1> QED BY <1>1 DEF AsyncInv

(* A raised exception is gone from mt_exn.                                 *)
LEMMA RaisesKeeps ==
  ASSUME ExnAssumption, AsyncInv, Running, NEW n \in 0..Len(timeq), RaisesThrown(n)
  PROVE  AsyncInv'
<1>1. Cur \in Thread /\ ExnOf[Cur] \in MVar
  BY Front DEF AsyncInv, ExnAssumption
<1>2. PlacedNow' /\ \A t \in Thread : state'[t] # "runnable" => state'[t] = state[t]
  BY <1>1, RaisesPlaces DEF AsyncInv
<1>3. /\ mask' = mask /\ frames' = frames
      /\ data' = data \/ data' = [data EXCEPT ![ExnOf[Cur]] = NIL]
  BY DEF RaisesThrown
<1>4. DOMAIN data' = MVar /\ \A t \in Thread : data[ExnOf[t]] = NIL => data'[ExnOf[t]] = NIL
  BY <1>1, <1>3 DEF AsyncInv, ExnAssumption
<1> QED BY <1>2, <1>3, <1>4, WakingKeeps DEF AsyncInv

LEMMA BoxApart == Box \subseteq MVar /\ \A m \in Box, t \in Thread : ExnOf[t] # m
  BY DEF Box

(* The MVars of the program.                                               *)
LEMMA BoxKeeps ==
  ASSUME ExnAssumption, AsyncInv, NEW m \in Box,
         Take(m) \/ TakeWaits(m) \/ Read(m) \/ ReadWaits(m) \/ Put(m) \/ PutWaits(m)
  PROVE  AsyncInv'
<1>0. m \in MVar /\ \A t \in Thread : ExnOf[t] \in MVar /\ ExnOf[t] # m
  BY BoxApart DEF ExnAssumption
<1>1. CASE Take(m)
  <2>1. PICK v \in Value : TakeMVar(m, v)
    BY <1>1 DEF Take
  <2>2. PlacedNow' /\ \A t \in Thread : state'[t] # "runnable" => state'[t] = state[t]
    BY <1>0, <2>1, TakePlaces DEF AsyncInv
  <2>3. data' = data \/ data' = [data EXCEPT ![m] = NIL]
    BY <2>1 DEF TakeMVar, Taken
  <2>4. DOMAIN data' = MVar /\ \A t \in Thread : data[ExnOf[t]] = NIL => data'[ExnOf[t]] = NIL
    BY <1>0, <2>3 DEF AsyncInv
  <2> QED BY <1>1, <2>2, <2>4, WakingKeeps DEF Take, async, AsyncInv
<1>2. CASE TakeWaits(m)
  <2>1. /\ Running /\ ~Thrown(TRUE) /\ Reschedules /\ data' = data
        /\ Suspends("take", m, NIL, "wait_mvar") /\ takeput' = [takeput EXCEPT ![m] = Append(@, Cur)]
        /\ UNCHANGED <<timeq, rd>>
    BY <1>2 DEF TakeWaits, Asks, Uses, Runs, TakeMVarBlocks
  <2>2. PlacedNow' /\ \A t \in Thread : t # Cur => state'[t] = state[t]
    BY <1>0, <2>1, TakeputBlocks DEF AsyncInv
  <2> QED BY <2>1, <2>2, WaitingKeeps
<1>3. CASE Read(m)
  <2>1. /\ Running /\ Completes /\ UNCHANGED <<state, runq, timeq, takeput, rd, data>> /\ UNCHANGED async
    BY <1>3 DEF Read, Asks, Uses, Runs, ReadMVar, mvars
  <2>2. PlacedNow'
    BY <2>1, QuietStep DEF AsyncInv
  <2> QED BY <2>1, <2>2, WakingKeeps DEF AsyncInv, async
<1>4. CASE ReadWaits(m)
  <2>1. Running /\ ~Thrown(TRUE) /\ Reschedules /\ data' = data /\ ReadMVarBlocks(m)
    BY <1>4 DEF ReadWaits, Asks, Uses, Runs, ReadMVarBlocks
  <2>2. PlacedNow' /\ \A t \in Thread : t # Cur => state'[t] = state[t]
    BY <1>0, <2>1, RdBlocks DEF AsyncInv
  <2> QED BY <2>1, <2>2, WaitingKeeps
<1>5. CASE Put(m)
  <2>1. PICK v \in Msg : PutMVar(m, v)
    BY <1>5 DEF Put
  <2>2. PlacedNow' /\ \A t \in Thread : state'[t] # "runnable" => state'[t] = state[t]
    BY <1>0, <2>1, PutPlaces DEF AsyncInv
  <2>3. data' = data \/ data' = [data EXCEPT ![m] = v]
    BY <2>1 DEF PutMVar, Stored
  <2>4. DOMAIN data' = MVar /\ \A t \in Thread : data'[ExnOf[t]] = data[ExnOf[t]]
    BY <1>0, <2>3 DEF AsyncInv
  <2> QED BY <1>5, <2>2, <2>4, WakingKeeps DEF Put, async, AsyncInv
<1>6. CASE PutWaits(m)
  <2>1. PICK v \in Msg : PutMVarBlocks(m, v)
    BY <1>6 DEF PutWaits
  <2>2. /\ Running /\ ~Thrown(TRUE) /\ Reschedules /\ data' = data
        /\ Suspends("put", m, v, "wait_mvar") /\ takeput' = [takeput EXCEPT ![m] = Append(@, Cur)]
        /\ UNCHANGED <<timeq, rd>>
    BY <1>6, <2>1 DEF PutWaits, Asks, Uses, Runs, PutMVarBlocks
  <2>3. PlacedNow' /\ \A t \in Thread : t # Cur => state'[t] = state[t]
    BY <1>0, <2>2, TakeputBlocks DEF AsyncInv
  <2> QED BY <2>2, <2>3, WaitingKeeps
<1> QED BY <1>1, <1>2, <1>3, <1>4, <1>5, <1>6

(* throwTo.                                                                *)
LEMMA ThrowKeeps ==
  ASSUME ExnAssumption, AsyncInv, NEW t \in Thread, NEW e \in Exn,
         ThrowTo(t, e) \/ ThrowToWaits(t, e) \/ ThrowToDead(t, e)
  PROVE  AsyncInv'
<1>0. ExnOf[t] \in MVar /\ \A u \in Thread : u # t => ExnOf[u] # ExnOf[t]
  BY DEF ExnAssumption
<1>a. DOMAIN state = Thread
  BY DEF AsyncInv, PlacedNow, Placed
<1>1. CASE ThrowTo(t, e)
  <2>1. PlacedNow' /\ state' = Awake(t)
    BY <1>1, ThrowPlaces DEF AsyncInv
  <2>2. data' = [data EXCEPT ![ExnOf[t]] = e] /\ mask' = mask /\ frames' = frames
    BY <1>1 DEF ThrowTo
  <2>3. ASSUME NEW u \in Thread, state'[u] \in {"wait_mvar", "wait_time"}
        PROVE  \/ state'[u] = state[u] /\ mask'[u] = mask[u]
                  /\ (data[ExnOf[u]] = NIL => data'[ExnOf[u]] = NIL)
               \/ mask'[u] = "uninterruptible"
    <3>1. CASE u = t
      <4>1. ~MayInterrupt(t)
        BY <1>a, <2>1, <2>3, <3>1 DEF Awake
      <4>2. state'[t] = state[t]
        BY <2>1, <4>1 DEF Awake
      <4> QED BY <2>2, <2>3, <3>1, <4>1, <4>2 DEF MayInterrupt
    <3>2. CASE u # t
      <4>1. state'[u] = state[u]
        BY <1>a, <2>1, <3>2 DEF Awake
      <4>2. data'[ExnOf[u]] = data[ExnOf[u]]
        BY <1>0, <2>2, <3>2
      <4> QED BY <2>2, <4>1, <4>2
    <3> QED BY <3>1, <3>2
  <2>4. NobodySleepsOnIt'
    BY <2>3, StaysAwake DEF AsyncInv
  <2> QED BY <2>1, <2>2, <2>4 DEF AsyncInv
<1>2. CASE ThrowToWaits(t, e)
  <2>1. PlacedNow' /\ \A u \in Thread : u # Cur => state'[u] = Awake(t)[u]
    BY <1>0, <1>2, ThrowWaitsPlaces DEF AsyncInv
  <2>2. Running /\ ~Thrown(TRUE) /\ Reschedules /\ data' = data
    BY <1>2 DEF ThrowToWaits, Asks, Uses, Runs
  <2>3. /\ Cur \in Thread /\ (mask[Cur] = "uninterruptible" \/ data[ExnOf[Cur]] = NIL)
    BY <2>2, Calm
  <2>4. frames' \in [Thread -> Seq(Frame)] /\ mask' = mask
    BY <2>2, <2>3, Rescheduling
  <2>5. \A u \in Thread : u # Cur /\ state'[u] # "runnable" => state'[u] = state[u]
    BY <1>a, <2>1 DEF Awake
  <2>6. NobodySleepsOnIt'
    BY <2>2, <2>3, <2>4, <2>5, StaysAwake DEF AsyncInv
  <2> QED BY <2>1, <2>2, <2>4, <2>6 DEF AsyncInv
<1>3. CASE ThrowToDead(t, e)
  <2>1. /\ Running /\ Completes /\ UNCHANGED <<state, runq, timeq, takeput, rd, data>> /\ UNCHANGED async
    BY <1>3 DEF ThrowToDead, Executes, mvars
  <2>2. PlacedNow'
    BY <2>1, QuietStep DEF AsyncInv
  <2> QED BY <2>1, <2>2, WakingKeeps DEF AsyncInv, async
<1> QED BY <1>1, <1>2, <1>3

(* What a thread is inside of.                                             *)
LEMMA FramesKeep ==
  ASSUME AsyncInv, (\E l \in Mask : Masks(l)) \/ Catches \/ Leaves \/ Handles
  PROVE  AsyncInv'
<1>1. Running /\ UNCHANGED rts
  BY DEF Masks, Catches, Leaves, Handles, Enters, Starts
<1>2. Cur \in Thread /\ state[Cur] = "runnable"
  BY <1>1, Front DEF AsyncInv
<1>3. PlacedNow' /\ data' = data /\ state' = state
  BY <1>1 DEF rts, mvars, AsyncInv, PlacedNow
<1> DEFINE f == frames[Cur]
<1>4. f \in Seq(Frame) /\ Len(f) \in Nat /\ mask[Cur] \in Mask
  BY <1>2 DEF AsyncInv
<1>5. \A i \in 1..Len(f) : f[i] \in Frame /\ f[i].saved \in Mask /\ [f[i] EXCEPT !.kind = "handler"] \in Frame
  <2>1. SUFFICES ASSUME NEW i \in 1..Len(f)
                 PROVE  f[i] \in Frame /\ f[i].saved \in Mask /\ [f[i] EXCEPT !.kind = "handler"] \in Frame
    OBVIOUS
  <2>2. f[i] \in Frame
    BY <1>4
  <2> HIDE DEF f
  <2> QED BY <2>2 DEF Frame
<1>6. \A j \in 0..Len(f) : SubSeq(f, 1, j) \in Seq(Frame)
  BY <1>4, <1>5
<1> DEFINE Becomes(g, l) == frames' = [frames EXCEPT ![Cur] = g] /\ (mask' = mask \/ mask' = [mask EXCEPT ![Cur] = l])
<1>7. \E g \in Seq(Frame), l \in Mask : Becomes(g, l)
  <2>1. Around("mask") \in Frame /\ Around("catch") \in Frame
    BY <1>4 DEF Around, Frame
  <2> HIDE DEF f
  <2>2. ASSUME NEW l \in Mask, Masks(l)
        PROVE  \E g \in Seq(Frame) : Becomes(g, l)
    <3>1. Append(f, Around("mask")) \in Seq(Frame)
      BY <1>4, <2>1
    <3>2. Becomes(Append(f, Around("mask")), l)
      BY <2>2 DEF Masks, Enters, f
    <3> HIDE DEF Becomes
    <3> QED BY <3>1, <3>2
  <2>3. CASE Catches
    <3>1. Append(f, Around("catch")) \in Seq(Frame)
      BY <1>4, <2>1
    <3>2. Becomes(Append(f, Around("catch")), mask[Cur])
      BY <2>3 DEF Catches, Enters, f
    <3> HIDE DEF Becomes
    <3> QED BY <1>4, <3>1, <3>2
  <2>4. CASE Leaves
    <3>1. f # <<>>
      BY <2>4 DEF Leaves, f
    <3>2. Len(f) \in 1..Len(f) /\ Len(f) - 1 \in 0..Len(f)
      BY <1>4, <3>1, EmptySeq
    <3>3. SubSeq(f, 1, Len(f) - 1) \in Seq(Frame) /\ f[Len(f)].saved \in Mask
      BY <1>5, <1>6, <3>2
    <3>4. Becomes(SubSeq(f, 1, Len(f) - 1), f[Len(f)].saved)
      BY <2>4 DEF Leaves, f
    <3> HIDE DEF Becomes
    <3> QED BY <3>3, <3>4
  <2>5. CASE Handles
    <3>1. PICK i \in DOMAIN f :
            frames' = [frames EXCEPT ![Cur] = Append(SubSeq(f, 1, i - 1), [f[i] EXCEPT !.kind = "handler"])]
      BY <2>5 DEF Handles, f
    <3>2. i \in 1..Len(f) /\ i - 1 \in 0..Len(f)
      BY <1>4, <3>1
    <3>3. SubSeq(f, 1, i - 1) \in Seq(Frame) /\ [f[i] EXCEPT !.kind = "handler"] \in Frame
      BY <1>5, <1>6, <3>2
    <3> DEFINE g == Append(SubSeq(f, 1, i - 1), [f[i] EXCEPT !.kind = "handler"])
    <3>4. g \in Seq(Frame)
      BY <3>3, AppendProperties
    <3>5. "interruptible" \in Mask
      BY DEF Mask
    <3>6. Becomes(g, "interruptible")
      BY <2>5, <3>1 DEF Handles
    <3> HIDE DEF Becomes, g
    <3> QED BY <3>4, <3>5, <3>6
  <2> QED BY <2>2, <2>3, <2>4, <2>5
<1> HIDE DEF f
<1>8. /\ frames' \in [Thread -> Seq(Frame)] /\ mask' \in [Thread -> Mask]
      /\ \A t \in Thread : t # Cur => mask'[t] = mask[t]
  BY <1>2, <1>7 DEF AsyncInv
<1>9. NobodySleepsOnIt'
  BY <1>2, <1>3, <1>8, StaysAwake DEF AsyncInv
<1> QED BY <1>3, <1>8, <1>9 DEF AsyncInv

(* Fork and the end of a thread.                                           *)
LEMMA LifeKeeps ==
  ASSUME AsyncInv, ForkOne \/ Return \/ DiesOfIt
  PROVE  AsyncInv'
<1>0. Running /\ Cur \in Thread /\ state[Cur] = "runnable"
  <2>1. Running
    BY DEF ForkOne, Return, DiesOfIt, Uses, Runs
  <2> QED BY <2>1, Front DEF AsyncInv
<1>1. CASE ForkOne
  <2>1. PICK t \in Thread : Fork(t) /\ mask' = [mask EXCEPT ![t] = mask[Cur]]
    BY <1>1 DEF ForkOne
  <2>2. PlacedNow' /\ \A u \in Thread : state'[u] # "runnable" => state'[u] = state[u]
    BY <2>1, ForkPlaces DEF AsyncInv
  <2>3. state'[t] = "runnable" /\ data' = data /\ frames' = frames
    BY <1>1, <2>1 DEF Fork, mvars, ForkOne, AsyncInv, PlacedNow, Placed
  <2>4. mask' \in [Thread -> Mask] /\ \A u \in Thread : u # t => mask'[u] = mask[u]
    BY <1>0, <2>1 DEF AsyncInv
  <2>5. NobodySleepsOnIt'
    BY <2>2, <2>3, <2>4, StaysAwake DEF AsyncInv
  <2> QED BY <2>2, <2>3, <2>4, <2>5 DEF AsyncInv
<1>2. CASE Return \/ DiesOfIt
  <2>1. PICK s \in {"finished", "died"}, e \in {"main_done", "main_died"} : Ends(s, e)
    BY <1>2 DEF Return, DiesOfIt, Finish, Die
  <2>2. PlacedNow' /\ \A t \in Thread : t # Cur => state'[t] = state[t]
    BY <2>1, EndsPlaces DEF AsyncInv
  <2>3. state'[Cur] = s /\ data' = data
    BY <1>0, <2>1 DEF Ends, mvars, AsyncInv, PlacedNow, Placed
  <2>4. mask' = mask /\ frames' \in [Thread -> Seq(Frame)]
    <3>1. frames' = frames \/ frames' = [frames EXCEPT ![Cur] = <<>>]
      BY <1>2 DEF Return, DiesOfIt, async
    <3>2. <<>> \in Seq(Frame)
      OBVIOUS
    <3>3. mask' = mask
      BY <1>2 DEF Return, DiesOfIt, async
    <3> QED BY <1>0, <3>1, <3>2, <3>3 DEF AsyncInv
  <2>5. NobodySleepsOnIt'
    BY <2>2, <2>3, <2>4, StaysAwake DEF AsyncInv
  <2> QED BY <2>2, <2>3, <2>4, <2>5 DEF AsyncInv
<1> QED BY <1>1, <1>2

LEMMA DelayKeeps ==
  ASSUME AsyncInv, Delay \/ Wake
  PROVE  AsyncInv'
<1>1. CASE Delay
  <2>1. PICK u \in Usecs : DelayBegins(u)
    BY <1>1 DEF Delay
  <2>2. PlacedNow' /\ \A t \in Thread : t # Cur => state'[t] = state[t]
    BY <2>1, Sleeps DEF AsyncInv
  <2>3. Running /\ ~Thrown(TRUE) /\ Reschedules /\ data' = data
    BY <1>1, <2>1 DEF Delay, Asks, Uses, Runs, DelayBegins, mvars
  <2> QED BY <2>2, <2>3, WaitingKeeps
<1>2. CASE Wake
  <2>1. Running /\ Completes /\ UNCHANGED <<state, runq, timeq, takeput, rd, data>> /\ UNCHANGED async
    BY <1>2 DEF Wake, DelayReturns, Executes, mvars
  <2>2. PlacedNow'
    BY <2>1, QuietStep DEF AsyncInv
  <2> QED BY <2>1, <2>2, WakingKeeps DEF AsyncInv, async
<1> QED BY <1>1, <1>2

LEMMA SliceKeeps ==
  ASSUME ExnAssumption, AsyncInv, Slice
  PROVE  AsyncInv'
<1>0. Running
  BY DEF Slice, Runs
<1>1. CASE Thrown(FALSE)
  BY <1>0, <1>1, RaisesKeeps DEF Slice
<1>2. CASE ~Thrown(FALSE)
  <2>1. Rotates /\ redex' = redex /\ (UNCHANGED async \/ Reschedules)
    BY <1>2 DEF Slice, Preempt
  <2>2. PlacedNow' /\ \A t \in Thread : state'[t] # "runnable" => state'[t] = state[t]
    BY <1>0, <2>1, RotatesPlaces DEF AsyncInv
  <2>3. data' = data
    BY <2>1 DEF Rotates, mvars
  <2>4. mask' = mask /\ frames' \in [Thread -> Seq(Frame)]
    <3>1. Cur \in Thread
      BY <1>0, Front DEF AsyncInv
    <3> QED BY <2>1, <3>1, Rescheduling DEF async, AsyncInv
  <2> QED BY <2>2, <2>3, <2>4, WakingKeeps DEF AsyncInv
<1> QED BY <1>1, <1>2

----------------------------------------------------------------------------
(* The invariant is inductive.                                             *)
LEMMA InitHasAsyncInv == ExnAssumption /\ AInit => AsyncInv
<1> SUFFICES ASSUME ExnAssumption, AInit PROVE AsyncInv
  OBVIOUS
<1>1. Main \in Thread /\ ExnOf \in [Thread -> MVar]
  BY ThreadAssumption DEF ExnAssumption
<1>2. Queue(<<Main>>) /\ \A t : InQ(<<Main>>, t) <=> t = Main
  BY <1>1 DEF Queue, NoRepeat, InQ
<1>3. PlacedNow
  BY <1>1, <1>2, Nobody DEF AInit, Init, PlacedNow, Placed
<1>4. mask \in [Thread -> Mask] /\ frames \in [Thread -> Seq(Frame)] /\ DOMAIN data = MVar
  BY DEF AInit, Init, Mask
<1>5. NobodySleepsOnIt
  BY <1>1 DEF AInit, Init, NobodySleepsOnIt
<1> QED BY <1>3, <1>4, <1>5 DEF AsyncInv

LEMMA NextKeepsAsyncInv == ExnAssumption /\ AsyncInv /\ [Next]_vars => AsyncInv'
<1> SUFFICES ASSUME ExnAssumption, AsyncInv, [Next]_vars PROVE AsyncInv'
  OBVIOUS
<1>1. CASE \E m \in Box : Take(m) \/ TakeWaits(m) \/ Read(m) \/ ReadWaits(m) \/ Put(m) \/ PutWaits(m)
  BY <1>1, BoxKeeps
<1>2. CASE \E t \in Thread, e \in Exn : ThrowTo(t, e) \/ ThrowToWaits(t, e) \/ ThrowToDead(t, e)
  BY <1>2, ThrowKeeps
<1>3. CASE (\E l \in Mask : Masks(l)) \/ Catches \/ Leaves \/ Handles
  BY <1>3, FramesKeep
<1>4. CASE Thrower
  <2>1. Running /\ RaisesThrown(0)
    BY <1>4 DEF Thrower, Runs
  <2>2. 0 \in 0..Len(timeq)
    BY LenProperties DEF AsyncInv, PlacedNow, Placed, Queue
  <2> QED BY <2>1, <2>2, RaisesKeeps
<1>5. CASE Delay \/ Wake
  BY <1>5, DelayKeeps
<1>6. CASE Slice
  BY <1>6, SliceKeeps
<1>7. CASE ForkOne \/ Return \/ DiesOfIt
  BY <1>7, LifeKeeps
<1>8. CASE Pause
  <2>1. PlacedNow' /\ \A t \in Thread : state'[t] # "runnable" => state'[t] = state[t]
    BY <1>8, PausePlaces DEF Pause, AsyncInv
  <2>2. data' = data /\ mask' = mask /\ frames' = frames
    BY <1>8 DEF Pause, PauseExec, mvars, async
  <2> QED BY <2>1, <2>2, WakingKeeps DEF AsyncInv
<1>9. CASE GiveUp \/ Time \/ UNCHANGED vars
  <2>1. UNCHANGED <<state, redex, runq, timeq, takeput, rd, data, mask, frames>>
    BY <1>9 DEF GiveUp, Deadlock, Time, Tick, mvars, async, vars, rts
  <2>2. PlacedNow'
    BY <2>1, QuietStep DEF AsyncInv
  <2> QED BY <2>1, <2>2, WakingKeeps DEF AsyncInv
<1> QED BY <1>1, <1>2, <1>3, <1>4, <1>5, <1>6, <1>7, <1>8, <1>9 DEF Next

(* A thread stands in one queue, the one its state and its redex name,     *)
(* also when throwTo takes it out of that queue while it waits             *)
(* (thread_intr, find_and_unlink).                                         *)
THEOREM QueuesSurvive ==
  ASSUME ExnAssumption
  PROVE  Spec => []OneQueue
<1>1. AInit => AsyncInv
  BY InitHasAsyncInv
<1>2. AsyncInv /\ [Next]_vars => AsyncInv'
  BY NextKeepsAsyncInv
<1>3. AsyncInv => OneQueue
  BY PlacedIsOneQueue DEF AsyncInv
<1> QED BY <1>1, <1>2, <1>3, PTL DEF Spec

(* No thread that may be interrupted waits with an exception in its        *)
(* mt_exn: throwTo wakes it, and the primitives look before they block.    *)
THEOREM NobodyOversleeps ==
  ASSUME ExnAssumption
  PROVE  Spec => []NobodySleepsOnIt
<1>1. AInit => AsyncInv
  BY InitHasAsyncInv
<1>2. AsyncInv /\ [Next]_vars => AsyncInv'
  BY NextKeepsAsyncInv
<1>3. AsyncInv => NobodySleepsOnIt
  BY DEF AsyncInv
<1> QED BY <1>1, <1>2, <1>3, PTL DEF Spec
----------------------------------------------------------------------------
(* Sleepers that are woken before their time.  A thread whose delay has    *)
(* not passed, and who runs, was interrupted for an exception that is      *)
(* still there: nobody else takes it, and only the thread itself masks it. *)
WokenInv ==
  /\ AsyncInv /\ WokenForAReason
  /\ DOMAIN at = Thread
  /\ \A t \in Thread : state[t] = "unborn" => redex[t].prim # "delay"

Early(t) == state[t] = "runnable" /\ redex[t].prim = "delay" /\ at[t] # -1
Armed(t) == data[ExnOf[t]] # NIL /\ mask[t] # "uninterruptible"

LEMMA StaysEarly ==
  ASSUME WokenInv, AsyncInv', DOMAIN at' = Thread,
         \A t \in Thread : Early(t)' => Armed(t)' \/ (Early(t) /\ (Armed(t) => Armed(t)')),
         \A t \in Thread : state'[t] = "unborn" => state[t] = "unborn" /\ redex'[t] = redex[t]
  PROVE  WokenInv'
<1>1. WokenForAReason'
  BY DEF WokenInv, WokenForAReason, Early, Armed
<1> QED BY <1>1 DEF WokenInv

(* The running thread suspends, completes or ends: the others keep what    *)
(* they have, or were waiting for an MVar.                                 *)
LEMMA OthersEarly ==
  ASSUME WokenInv, AsyncInv', DOMAIN at' = Thread, NEW c \in Thread,
         redex'[c].prim # "delay" \/ state'[c] # "runnable", state'[c] # "unborn",
         \A t \in Thread \ {c} :
           /\ redex'[t] = redex[t] /\ at'[t] = at[t]
           /\ data'[ExnOf[t]] = data[ExnOf[t]] /\ mask'[t] = mask[t]
           /\ state'[t] = state[t] \/ (state'[t] = "runnable" /\ redex[t].prim # "delay")
  PROVE  WokenInv'
<1>1. ASSUME NEW t \in Thread, Early(t)'
      PROVE  Armed(t)' \/ (Early(t) /\ (Armed(t) => Armed(t)'))
  BY <1>1 DEF Early, Armed
<1>2. \A t \in Thread : state'[t] = "unborn" => state[t] = "unborn" /\ redex'[t] = redex[t]
  OBVIOUS
<1> QED BY <1>1, <1>2, StaysEarly

LEMMA DomainsOf ==
  ASSUME ExnAssumption, WokenInv
  PROVE  /\ DOMAIN state = Thread /\ DOMAIN redex = Thread /\ DOMAIN at = Thread
         /\ DOMAIN data = MVar /\ mask \in [Thread -> Mask]
         /\ ExnOf \in [Thread -> MVar] /\ \A t, u \in Thread : ExnOf[t] = ExnOf[u] => t = u
         /\ \A m \in MVar, t \in Thread : InQ(takeput[m], t) => redex[t].prim # "delay"
  BY DEF ExnAssumption, WokenInv, AsyncInv, PlacedNow, Placed

LEMMA NoDelay == NoRedex.prim # "delay"
  BY DEF NoRedex, Pending

(* The MVars of the program.                                               *)
LEMMA BoxEarly ==
  ASSUME ExnAssumption, WokenInv, NEW m \in Box,
         Take(m) \/ TakeWaits(m) \/ Read(m) \/ ReadWaits(m) \/ Put(m) \/ PutWaits(m)
  PROVE  WokenInv'
<1>1. AsyncInv' /\ Running
  <2>1. Running
    BY DEF Take, TakeWaits, Read, ReadWaits, Put, PutWaits, Asks, Uses, Runs
  <2> QED BY <2>1, BoxKeeps DEF WokenInv
<1>2. Cur \in Thread /\ state[Cur] = "runnable"
  BY <1>1, Front DEF WokenInv, AsyncInv
<1>3. m \in MVar /\ \A t \in Thread : ExnOf[t] \in MVar /\ ExnOf[t] # m
  BY BoxApart DEF ExnAssumption
<1>4. at' = at /\ mask' = mask
  BY DEF Take, TakeWaits, Read, ReadWaits, Put, PutWaits, TakeMVar, Taken, TakeMVarBlocks, ReadMVar,
         ReadMVarBlocks, PutMVar, Stored, PutMVarBlocks, Reschedules, async
<1>5. \E x : redex' = [redex EXCEPT ![Cur] = x] /\ (x.prim # "delay" \/ state'[Cur] # "runnable")
  <2>1. CASE Take(m) \/ Read(m) \/ Put(m)
    <3>1. redex' = [redex EXCEPT ![Cur] = NoRedex]
      BY <2>1 DEF Take, Read, Put, TakeMVar, ReadMVar, PutMVar, Completes
    <3> QED BY <3>1, NoDelay
  <2>2. CASE TakeWaits(m) \/ ReadWaits(m) \/ PutWaits(m)
    <3>1. \E v : Suspends("take", m, v, "wait_mvar") \/ Suspends("read", m, v, "wait_mvar")
                 \/ Suspends("put", m, v, "wait_mvar")
      BY <2>2 DEF TakeWaits, ReadWaits, PutWaits, TakeMVarBlocks, ReadMVarBlocks, PutMVarBlocks
    <3>2. PICK p, v : Suspends(p, m, v, "wait_mvar")
      BY <3>1
    <3>3. redex' = [redex EXCEPT ![Cur] = Pending(p, m, v)] /\ state'[Cur] # "runnable"
      BY <1>2, <3>2, DomainsOf DEF Suspends
    <3> QED BY <3>3
  <2> QED BY <2>1, <2>2
<1>6. data' = data \/ \E v : data' = [data EXCEPT ![m] = v]
  BY DEF Take, TakeWaits, Read, ReadWaits, Put, PutWaits, TakeMVar, Taken, TakeMVarBlocks, ReadMVar,
         ReadMVarBlocks, PutMVar, Stored, PutMVarBlocks, mvars
<1>7. \/ state' = state \/ state' = MadeRunnable(takeput[m])
      \/ state' = [state EXCEPT ![Cur] = "wait_mvar"]
  BY DEF Take, TakeWaits, Read, ReadWaits, Put, PutWaits, TakeMVar, Taken, TakeMVarBlocks, ReadMVar,
         ReadMVarBlocks, PutMVar, Stored, PutMVarBlocks, Wakes, Suspends
<1>8. /\ redex'[Cur].prim # "delay" \/ state'[Cur] # "runnable"
      /\ state'[Cur] # "unborn" /\ DOMAIN at' = Thread
  BY <1>2, <1>4, <1>5, <1>7, DomainsOf DEF MadeRunnable
<1>9. ASSUME NEW t \in Thread \ {Cur}
      PROVE  /\ redex'[t] = redex[t] /\ at'[t] = at[t]
             /\ data'[ExnOf[t]] = data[ExnOf[t]] /\ mask'[t] = mask[t]
             /\ state'[t] = state[t] \/ (state'[t] = "runnable" /\ redex[t].prim # "delay")
  <2>1. redex'[t] = redex[t]
    BY <1>5, DomainsOf
  <2>2. data'[ExnOf[t]] = data[ExnOf[t]]
    BY <1>3, <1>6, DomainsOf
  <2>3. state'[t] = state[t] \/ (state'[t] = "runnable" /\ InQ(takeput[m], t))
    BY <1>7, DomainsOf DEF MadeRunnable
  <2>4. InQ(takeput[m], t) => redex[t].prim # "delay"
    BY <1>3, DomainsOf
  <2> QED BY <1>4, <2>1, <2>2, <2>3, <2>4
<1> QED BY <1>1, <1>2, <1>8, <1>9, OthersEarly

(* throwTo: whoever is interrupted has an exception and may raise it.      *)
LEMMA ThrowEarly ==
  ASSUME ExnAssumption, WokenInv, NEW t \in Thread, NEW e \in Exn,
         ThrowTo(t, e) \/ ThrowToWaits(t, e) \/ ThrowToDead(t, e)
  PROVE  WokenInv'
<1>0. AsyncInv' /\ Running
  <2>1. Running
    BY DEF ThrowTo, ThrowToWaits, ThrowToDead, Asks, Uses, Runs
  <2> QED BY <2>1, ThrowKeeps DEF WokenInv
<1>1. Cur \in Thread /\ state[Cur] = "runnable"
  BY <1>0, Front DEF WokenInv, AsyncInv
<1>2. CASE ThrowToDead(t, e)
  <2>1. UNCHANGED <<state, at, data, mask>> /\ redex' = [redex EXCEPT ![Cur] = NoRedex]
    BY <1>2 DEF ThrowToDead, Completes, mvars, async
  <2>2. /\ redex'[Cur].prim # "delay" \/ state'[Cur] # "runnable"
        /\ state'[Cur] # "unborn" /\ DOMAIN at' = Thread
    BY <1>1, <2>1, DomainsOf DEF NoRedex, Pending
  <2>3. \A u \in Thread \ {Cur} : redex'[u] = redex[u]
    BY <2>1, DomainsOf
  <2> QED BY <1>0, <1>1, <2>1, <2>2, <2>3, OthersEarly
<1>3. CASE ThrowTo(t, e) \/ ThrowToWaits(t, e)
  <2>1. /\ at' = IF MayInterrupt(t) /\ state[t] = "wait_mvar" THEN [at EXCEPT ![t] = -1] ELSE at
        /\ mask' = mask
    BY <1>3 DEF ThrowTo, ThrowToWaits, ThreadIntr, Reschedules
  <2>2. data'[ExnOf[t]] # NIL /\ \A u \in Thread \ {t} : data'[ExnOf[u]] = data[ExnOf[u]]
    <3>1. e # NIL
      BY ValueAssumption DEF ExnAssumption
    <3>2. CASE ThrowTo(t, e)
      BY <3>1, <3>2, DomainsOf DEF ThrowTo
    <3>3. CASE ThrowToWaits(t, e)
      BY <3>3 DEF ThrowToWaits, FindsEmpty
    <3> QED BY <1>3, <3>2, <3>3
  <2>3. \E x : redex' = [redex EXCEPT ![Cur] = x] /\ (x.prim # "delay" \/ state'[Cur] # "runnable")
    <3>1. CASE ThrowTo(t, e)
      <4>1. redex' = [redex EXCEPT ![Cur] = NoRedex]
        BY <3>1 DEF ThrowTo, Completes
      <4> QED BY <4>1, NoDelay
    <3>2. CASE ThrowToWaits(t, e)
      <4>1. redex' = [redex EXCEPT ![Cur] = Pending("put", ExnOf[t], e)]
        BY <3>2 DEF ThrowToWaits
      <4>2. Pending("put", ExnOf[t], e).prim # "delay"
        BY DEF Pending
      <4> QED BY <4>1, <4>2
    <3> QED BY <1>3, <3>1, <3>2
  <2>4. \A u \in Thread : u # Cur => state'[u] = Awake(t)[u]
    BY <1>3, DomainsOf DEF ThrowTo, ThrowToWaits, Awake
  <2>5. state'[Cur] \in {"runnable", "wait_mvar"}
    <3>1. Awake(t)[Cur] = "runnable"
      BY <1>0, StaysCur DEF WokenInv, AsyncInv
    <3>2. DOMAIN Awake(t) = Thread
      BY DomainsOf DEF Awake
    <3> QED BY <1>1, <1>3, <3>1, <3>2 DEF ThrowTo, ThrowToWaits
  <2>6. redex'[Cur].prim # "delay" \/ state'[Cur] # "runnable"
    BY <1>1, <2>3, DomainsOf
  <2>7. ASSUME NEW u \in Thread, Early(u)'
        PROVE  Armed(u)' \/ (Early(u) /\ (Armed(u) => Armed(u)'))
    <3>1. u # Cur /\ redex'[u] = redex[u]
      BY <2>3, <2>6, <2>7, DomainsOf DEF Early
    <3>2. CASE u # t
      <4>1. state'[u] = state[u] /\ at'[u] = at[u]
        BY <2>1, <2>4, <3>1, <3>2, DomainsOf DEF Awake
      <4> QED BY <2>1, <2>2, <2>7, <3>1, <3>2, <4>1 DEF Early, Armed
    <3>3. CASE u = t /\ MayInterrupt(t)
      BY <2>1, <2>2, <3>3 DEF Armed, MayInterrupt
    <3>4. CASE u = t /\ ~MayInterrupt(t)
      <4>1. state'[u] = state[u] /\ at'[u] = at[u]
        BY <2>1, <2>4, <3>1, <3>4 DEF Awake
      <4> QED BY <2>1, <2>2, <2>7, <3>1, <3>4, <4>1 DEF Early, Armed
    <3> QED BY <3>2, <3>3, <3>4
  <2>8. \A u \in Thread : state'[u] = "unborn" => state[u] = "unborn" /\ redex'[u] = redex[u]
    BY <2>3, <2>4, <2>5, DomainsOf DEF Awake
  <2>9. DOMAIN at' = Thread
    BY <2>1, DomainsOf
  <2> QED BY <1>0, <2>7, <2>8, <2>9, StaysEarly
<1> QED BY <1>2, <1>3

(* What is raised is gone, and so is the redex of the thread it hit.       *)
LEMMA RaisesEarly ==
  ASSUME ExnAssumption, WokenInv, Running, NEW n \in 0..Len(timeq), RaisesThrown(n)
  PROVE  WokenInv'
<1>0. AsyncInv'
  BY RaisesKeeps DEF WokenInv
<1>1. Cur \in Thread /\ state[Cur] = "runnable"
  BY Front DEF WokenInv, AsyncInv
<1> DEFINE E == ExnOf[Cur]  a == WokenBy(n)
           b == IF mval[Cur] = NIL THEN takeput[E] ELSE <<>>
<1>2. /\ redex' = [redex EXCEPT ![Cur] = NoRedex] /\ mask' = mask
      /\ data' = data \/ data' = [data EXCEPT ![E] = NIL]
      /\ state' = MadeRunnable(a \o b)
      /\ at' = [t \in Thread |-> IF InQ(a, t) THEN -1 ELSE at[t]]
  BY DEF RaisesThrown, Completes, Wakes
<1>3. \A t : InQ(a \o b, t) <=> InQ(a, t) \/ InQ(b, t)
  <2>1. Queue(a) /\ \A t : InQ(a, t) => state[t] = "wait_time"
    BY Sleepers DEF WokenInv, AsyncInv
  <2>2. Queue(b) /\ \A t : InQ(b, t) => state[t] = "wait_mvar"
    <3>1. CASE mval[Cur] = NIL
      <4>1. Queue(takeput[E]) /\ b = takeput[E]
        BY <1>1, <3>1, DomainsOf DEF WokenInv, AsyncInv, PlacedNow, Placed
      <4>2. \A t : InQ(b, t) => t \in Thread
        BY <4>1, Members DEF Queue
      <4> QED BY <1>1, <4>1, <4>2, DomainsOf DEF WokenInv, AsyncInv, PlacedNow, Placed
    <3>2. CASE mval[Cur] # NIL
      <4>1. b = <<>>
        BY <3>2
      <4> QED BY <4>1, Nobody
    <3> QED BY <3>1, <3>2
  <2> HIDE DEF a, b
  <2> QED BY <2>1, <2>2, Concatenating
<1>4. \A t \in Thread : InQ(b, t) => redex[t].prim # "delay"
  <2>1. CASE mval[Cur] = NIL
    BY <1>1, <2>1, DomainsOf
  <2>2. CASE mval[Cur] # NIL
    BY <2>2, Nobody
  <2> QED BY <2>1, <2>2
<1> HIDE DEF a, b
<1>5. ASSUME NEW t \in Thread, Early(t)'
      PROVE  Armed(t)' \/ (Early(t) /\ (Armed(t) => Armed(t)'))
  <2>1. t # Cur /\ redex'[t] = redex[t]
    BY <1>1, <1>2, <1>5, DomainsOf DEF Early, NoRedex, Pending
  <2>2. ~InQ(a, t) /\ at'[t] = at[t]
    BY <1>2, <1>5 DEF Early
  <2>3. ~InQ(b, t)
    BY <1>4, <1>5, <2>1 DEF Early
  <2>4. state'[t] = state[t]
    BY <1>2, <1>3, <2>2, <2>3 DEF MadeRunnable
  <2>5. data'[ExnOf[t]] = data[ExnOf[t]]
    BY <1>1, <1>2, <2>1, DomainsOf DEF E
  <2> QED BY <1>2, <1>5, <2>1, <2>2, <2>4, <2>5 DEF Early, Armed
<1>6. \A t \in Thread : state'[t] = "unborn" => state[t] = "unborn" /\ redex'[t] = redex[t]
  BY <1>1, <1>2, DomainsOf DEF MadeRunnable
<1>7. DOMAIN at' = Thread
  BY <1>2
<1> QED BY <1>0, <1>5, <1>6, <1>7, StaysEarly

(* yield and pause_exec mark whom they wake.                               *)
LEMMA MarkedEarly ==
  ASSUME ExnAssumption, WokenInv, AsyncInv', NEW n, CheckTimeq(n),
         redex' = redex, data' = data, mask' = mask
  PROVE  WokenInv'
<1>1. /\ \A t \in Thread : state'[t] = IF InQ(WokenBy(n), t) THEN "runnable" ELSE state[t]
      /\ \A t \in Thread : at'[t] = IF InQ(WokenBy(n), t) THEN -1 ELSE at[t]
      /\ DOMAIN at' = Thread
  BY DEF CheckTimeq, MadeRunnable
<1>2. ASSUME NEW t \in Thread, Early(t)'
      PROVE  Armed(t)' \/ (Early(t) /\ (Armed(t) => Armed(t)'))
  BY <1>1, <1>2 DEF Early, Armed
<1>3. \A t \in Thread : state'[t] = "unborn" => state[t] = "unborn" /\ redex'[t] = redex[t]
  BY <1>1
<1> QED BY <1>1, <1>2, <1>3, StaysEarly

(* The running thread is not in a delay, or stays as it is.                *)
LEMMA FramesEarly ==
  ASSUME ExnAssumption, WokenInv, (\E l \in Mask : Masks(l)) \/ Catches \/ Leaves \/ Handles
  PROVE  WokenInv'
<1>0. AsyncInv'
  BY FramesKeep DEF WokenInv
<1>1. Running /\ UNCHANGED <<state, redex, at, data>>
  BY DEF Masks, Catches, Leaves, Handles, Enters, Starts, rts, mvars
<1>2. Cur \in Thread
  BY <1>1, Front DEF WokenInv, AsyncInv
<1>3. /\ \A t \in Thread : t # Cur => mask'[t] = mask[t]
      /\ redex[Cur].prim # "delay" \/ mask'[Cur] # "uninterruptible"
  <2>1. CASE \E l \in Mask : Masks(l)
    BY <1>2, <2>1, DomainsOf DEF Masks, Enters, Starts, NoRedex, Pending
  <2>2. CASE Catches
    BY <2>2 DEF Catches, Enters, Starts, NoRedex, Pending
  <2>3. CASE Leaves
    BY <1>2, <2>3, DomainsOf DEF Leaves, Starts, NoRedex, Pending
  <2>4. CASE Handles
    BY <1>2, <2>4, DomainsOf DEF Handles
  <2> QED BY <2>1, <2>2, <2>3, <2>4
<1>4. ASSUME NEW t \in Thread, Early(t)'
      PROVE  Armed(t)' \/ (Early(t) /\ (Armed(t) => Armed(t)'))
  BY <1>1, <1>3, <1>4 DEF Early, Armed
<1> QED BY <1>0, <1>1, <1>4, StaysEarly DEF WokenInv

LEMMA LifeEarly ==
  ASSUME ExnAssumption, WokenInv, ForkOne \/ Return \/ DiesOfIt
  PROVE  WokenInv'
<1>0. AsyncInv' /\ Running
  <2>1. Running
    BY DEF ForkOne, Return, DiesOfIt, Uses, Runs
  <2> QED BY <2>1, LifeKeeps DEF WokenInv
<1>1. Cur \in Thread /\ state[Cur] = "runnable"
  BY <1>0, Front DEF WokenInv, AsyncInv
<1>2. CASE ForkOne
  <2>1. PICK t \in Thread : Fork(t) /\ mask' = [mask EXCEPT ![t] = mask[Cur]]
    BY <1>2 DEF ForkOne
  <2>2. state[t] = "unborn" /\ state' = [state EXCEPT ![t] = "runnable"] /\ UNCHANGED <<redex, at, data>>
    BY <2>1 DEF Fork, mvars
  <2>3. redex[t].prim # "delay"
    BY <2>2 DEF WokenInv
  <2>4. ASSUME NEW u \in Thread, Early(u)'
        PROVE  Armed(u)' \/ (Early(u) /\ (Armed(u) => Armed(u)'))
    BY <2>1, <2>2, <2>3, <2>4, DomainsOf DEF Early, Armed
  <2>5. \A u \in Thread : state'[u] = "unborn" => state[u] = "unborn" /\ redex'[u] = redex[u]
    BY <2>2, DomainsOf
  <2> QED BY <1>0, <2>2, <2>4, <2>5, StaysEarly DEF WokenInv
<1>3. CASE Return \/ DiesOfIt
  <2>1. PICK s \in {"finished", "died"}, e \in {"main_done", "main_died"} : Ends(s, e)
    BY <1>3 DEF Return, DiesOfIt, Finish, Die
  <2>2. state' = [state EXCEPT ![Cur] = s] /\ UNCHANGED <<redex, at, data>>
    BY <2>1 DEF Ends, mvars
  <2>3. mask' = mask
    BY <1>3 DEF Return, DiesOfIt, async
  <2>4. state'[Cur] # "runnable" /\ state'[Cur] # "unborn"
    BY <1>1, <2>2, DomainsOf
  <2>5. \A u \in Thread \ {Cur} : state'[u] = state[u]
    BY <2>2, DomainsOf
  <2>6. DOMAIN at' = Thread
    BY <2>2, DomainsOf
  <2> QED BY <1>0, <1>1, <2>2, <2>3, <2>4, <2>5, <2>6, OthersEarly
<1> QED BY <1>2, <1>3

LEMMA DelayEarly ==
  ASSUME ExnAssumption, WokenInv, Delay \/ Wake
  PROVE  WokenInv'
<1>0. AsyncInv' /\ Running
  <2>1. Running
    BY DEF Delay, Wake, DelayBegins, DelayReturns, Executes
  <2> QED BY <2>1, DelayKeeps DEF WokenInv
<1>1. Cur \in Thread /\ state[Cur] = "runnable"
  BY <1>0, Front DEF WokenInv, AsyncInv
<1>2. /\ \E x : at' = [at EXCEPT ![Cur] = x]
      /\ data' = data /\ mask' = mask
      /\ \/ redex' = [redex EXCEPT ![Cur] = NoRedex] /\ state' = state
         \/ \E x : redex' = [redex EXCEPT ![Cur] = x] /\ state' = [state EXCEPT ![Cur] = "wait_time"]
  BY DEF Delay, Wake, DelayBegins, DelayReturns, Completes, Suspends, Reschedules, mvars, async
<1>3. /\ redex'[Cur].prim # "delay" \/ state'[Cur] # "runnable"
      /\ state'[Cur] # "unborn" /\ DOMAIN at' = Thread
  BY <1>1, <1>2, DomainsOf DEF NoRedex, Pending
<1>4. \A t \in Thread \ {Cur} : redex'[t] = redex[t] /\ at'[t] = at[t] /\ state'[t] = state[t]
  BY <1>2, DomainsOf
<1> QED BY <1>0, <1>1, <1>2, <1>3, <1>4, OthersEarly

LEMMA SliceEarly ==
  ASSUME ExnAssumption, WokenInv, Slice
  PROVE  WokenInv'
<1>0. Running /\ AsyncInv'
  BY SliceKeeps DEF Slice, Runs, WokenInv
<1>1. CASE Thrown(FALSE)
  BY <1>0, <1>1, RaisesEarly DEF Slice
<1>2. CASE ~Thrown(FALSE)
  <2>1. Rotates /\ redex' = redex /\ mask' = mask
    BY <1>2 DEF Slice, Preempt, Reschedules, async
  <2>2. data' = data /\ \E n \in 0..Len(timeq) : CheckTimeq(n)
    BY <2>1 DEF Rotates, mvars
  <2> QED BY <1>0, <2>1, <2>2, MarkedEarly
<1> QED BY <1>1, <1>2

LEMMA InitIsWoken == ExnAssumption /\ AInit => WokenInv
<1> SUFFICES ASSUME ExnAssumption, AInit PROVE WokenInv
  OBVIOUS
<1>1. AsyncInv
  BY InitHasAsyncInv
<1>2. \A t \in Thread : redex[t].prim # "delay"
  BY DEF AInit, Init, NoRedex, Pending
<1>3. DOMAIN at = Thread
  BY DEF AInit, Init
<1> QED BY <1>1, <1>2, <1>3 DEF WokenInv, WokenForAReason

LEMMA NextKeepsWoken == ExnAssumption /\ WokenInv /\ [Next]_vars => WokenInv'
<1> SUFFICES ASSUME ExnAssumption, WokenInv, [Next]_vars PROVE WokenInv'
  OBVIOUS
<1>0. AsyncInv'
  BY NextKeepsAsyncInv DEF WokenInv
<1>1. CASE \E m \in Box : Take(m) \/ TakeWaits(m) \/ Read(m) \/ ReadWaits(m) \/ Put(m) \/ PutWaits(m)
  BY <1>1, BoxEarly
<1>2. CASE \E t \in Thread, e \in Exn : ThrowTo(t, e) \/ ThrowToWaits(t, e) \/ ThrowToDead(t, e)
  BY <1>2, ThrowEarly
<1>3. CASE (\E l \in Mask : Masks(l)) \/ Catches \/ Leaves \/ Handles
  BY <1>3, FramesEarly
<1>4. CASE Thrower
  <2>1. Running /\ RaisesThrown(0)
    BY <1>4 DEF Thrower, Runs
  <2>2. 0 \in 0..Len(timeq)
    BY LenProperties DEF WokenInv, AsyncInv, PlacedNow, Placed, Queue
  <2> QED BY <2>1, <2>2, RaisesEarly
<1>5. CASE Delay \/ Wake
  BY <1>5, DelayEarly
<1>6. CASE Slice
  BY <1>6, SliceEarly
<1>7. CASE ForkOne \/ Return \/ DiesOfIt
  BY <1>7, LifeEarly
<1>8. CASE Pause
  <2>1. redex' = redex /\ data' = data /\ mask' = mask /\ \E n \in 1..Len(timeq) : CheckTimeq(n)
    BY <1>8 DEF Pause, PauseExec, mvars, async
  <2> QED BY <1>0, <2>1, MarkedEarly
<1>9. CASE GiveUp \/ Time \/ UNCHANGED vars
  <2>1. UNCHANGED <<state, redex, at, data, mask>>
    BY <1>9 DEF GiveUp, Deadlock, Time, Tick, mvars, async, vars, rts
  <2> QED BY <1>0, <2>1 DEF WokenInv, WokenForAReason
<1> QED BY <1>1, <1>2, <1>3, <1>4, <1>5, <1>6, <1>7, <1>8, <1>9 DEF Next

(* A sleeper that is woken before its time has an exception to raise, and  *)
(* does not mask it: a throwTo wakes nobody who would only sleep again     *)
(* (thread_intr leaves an uninterruptible thread where it is), and what    *)
(* was thrown is still there when the thread gets to run.                  *)
THEOREM SleepersWakeForAReason ==
  ASSUME ExnAssumption
  PROVE  Spec => []WokenForAReason
<1>1. AInit => WokenInv
  BY InitIsWoken
<1>2. WokenInv /\ [Next]_vars => WokenInv'
  BY NextKeepsWoken
<1>3. WokenInv => WokenForAReason
  BY DEF WokenInv
<1> QED BY <1>1, <1>2, <1>3, PTL DEF Spec
----------------------------------------------------------------------------
(* Exceptions are raised once: each is not thrown yet, or waits in one     *)
(* mt_exn, or has been raised.  A stash is never an exception, since       *)
(* nobody takes from an mt_exn.                                            *)
NowhereYet(e) == \A t \in Thread : data[ExnOf[t]] # e
HeldBy(e, t)  == \A u \in Thread : data[ExnOf[u]] = e <=> u = t
Accounted(e)  ==
  \/ e \notin thrown /\ raised[e] = 0 /\ NowhereYet(e)
  \/ e \in thrown /\ raised[e] = 1 /\ NowhereYet(e)
  \/ e \in thrown /\ raised[e] = 0 /\ \E t \in Thread : HeldBy(e, t)
CountInv ==
  /\ AsyncInv
  /\ raised \in [Value -> Nat] /\ thrown \subseteq Exn
  /\ DOMAIN mval = Thread /\ \A t \in Thread : mval[t] \in Msg \cup {NIL}
  /\ \A t \in Thread : data[ExnOf[t]] \in Exn \cup {NIL}
  /\ \A e \in Exn : Accounted(e)

LEMMA AccountsAreOnce ==
  ASSUME CountInv, NEW e \in thrown
  PROVE  raised[e] + Waits(e) = 1
<1> DEFINE W == {t \in Thread : data[ExnOf[t]] = e}
<1>1. e \in Exn /\ Accounted(e)
  BY DEF CountInv
<1>2. CASE raised[e] = 1 /\ NowhereYet(e)
  <2>1. W = {}
    BY <1>2 DEF NowhereYet
  <2>2. Cardinality(W) = 0
    BY <2>1, FS_EmptySet
  <2> QED BY <1>2, <2>2 DEF Waits
<1>3. ASSUME raised[e] = 0, NEW t \in Thread, HeldBy(e, t)
      PROVE  raised[e] + Waits(e) = 1
  <2>1. W = {t}
    BY <1>3 DEF HeldBy
  <2>2. Cardinality(W) = 1
    BY <2>1, FS_Singleton
  <2> QED BY <1>3, <2>2 DEF Waits
<1> QED BY <1>1, <1>2, <1>3 DEF Accounted

LEMMA ExnFacts ==
  ASSUME ExnAssumption
  PROVE  /\ ExnOf \in [Thread -> MVar] /\ \A t, u \in Thread : ExnOf[t] = ExnOf[u] => t = u
         /\ Exn \subseteq Value /\ NIL \notin Value
         /\ Msg \subseteq Value /\ Msg \cap Exn = {}
  BY ValueAssumption DEF ExnAssumption, Msg

(* A step that neither throws nor raises.                                  *)
LEMMA KeepsCount ==
  ASSUME CountInv, AsyncInv', raised' = raised, thrown' = thrown,
         DOMAIN mval' = Thread, \A t \in Thread : mval'[t] \in Msg \cup {NIL},
         \A t \in Thread : data'[ExnOf[t]] = data[ExnOf[t]]
  PROVE  CountInv'
<1>1. \A e \in Exn : Accounted(e)'
  BY DEF CountInv, Accounted, NowhereYet, HeldBy
<1> QED BY <1>1 DEF CountInv

(* The MVars of the program: what is stashed is a message.                 *)
LEMMA BoxCounts ==
  ASSUME ExnAssumption, CountInv, NEW m \in Box,
         Take(m) \/ TakeWaits(m) \/ Read(m) \/ ReadWaits(m) \/ Put(m) \/ PutWaits(m)
  PROVE  CountInv'
<1>1. AsyncInv' /\ Running
  <2>1. Running
    BY DEF Take, TakeWaits, Read, ReadWaits, Put, PutWaits, Asks, Uses, Runs
  <2> QED BY <2>1, BoxKeeps DEF CountInv
<1>2. m \in MVar /\ DOMAIN data = MVar /\ \A t \in Thread : ExnOf[t] \in MVar /\ ExnOf[t] # m
  BY BoxApart DEF ExnAssumption, CountInv, AsyncInv
<1>3. raised' = raised /\ thrown' = thrown
  BY DEF Take, TakeWaits, Read, ReadWaits, Put, PutWaits, Reschedules, async
<1>4. data' = data \/ \E v : data' = [data EXCEPT ![m] = v]
  BY DEF Take, TakeWaits, Read, ReadWaits, Put, PutWaits, TakeMVar, Taken, TakeMVarBlocks, ReadMVar,
         ReadMVarBlocks, PutMVar, Stored, PutMVarBlocks, mvars
<1>5. \/ mval' = mval \/ DropsStash
      \/ \E v \in Msg : mval' = [t \in Thread |-> IF InQ(takeput[m], t) THEN v ELSE mval[t]]
  BY DEF Take, TakeWaits, Read, ReadWaits, Put, PutWaits, TakeMVar, Taken, TakeMVarBlocks, ReadMVar,
         ReadMVarBlocks, PutMVar, Stored, PutMVarBlocks
<1>6. DOMAIN mval' = Thread /\ \A t \in Thread : mval'[t] \in Msg \cup {NIL}
  BY <1>5 DEF CountInv, DropsStash
<1>7. \A t \in Thread : data'[ExnOf[t]] = data[ExnOf[t]]
  BY <1>2, <1>4
<1> QED BY <1>1, <1>3, <1>6, <1>7, KeepsCount

LEMMA ThrowCounts ==
  ASSUME ExnAssumption, CountInv, NEW t \in Thread, NEW e \in Exn,
         ThrowTo(t, e) \/ ThrowToWaits(t, e) \/ ThrowToDead(t, e)
  PROVE  CountInv'
<1>0. AsyncInv' /\ mval' = mval
  <2>1. mval' = mval
    BY DEF ThrowTo, ThrowToWaits, ThrowToDead
  <2> QED BY <2>1, ThrowKeeps DEF CountInv
<1>1. CASE ThrowToWaits(t, e) \/ ThrowToDead(t, e)
  <2>1. raised' = raised /\ thrown' = thrown /\ data' = data
    BY <1>1 DEF ThrowToWaits, ThrowToDead, Reschedules, async, mvars
  <2> QED BY <1>0, <2>1, KeepsCount DEF CountInv
<1>2. CASE ThrowTo(t, e)
  <2>1. /\ data[ExnOf[t]] = NIL /\ data' = [data EXCEPT ![ExnOf[t]] = e]
        /\ thrown' = thrown \cup {e} /\ e \notin thrown /\ raised' = raised
    BY <1>2 DEF ThrowTo, FindsEmpty, Unthrown
  <2>2. /\ ExnOf[t] \in MVar /\ DOMAIN data = MVar
        /\ \A u \in Thread : ExnOf[u] \in MVar /\ (ExnOf[u] = ExnOf[t] => u = t)
    BY ExnFacts DEF CountInv, AsyncInv
  <2>3. \A u \in Thread : data'[ExnOf[u]] = IF u = t THEN e ELSE data[ExnOf[u]]
    BY <2>1, <2>2
  <2>4. ASSUME NEW f \in Exn PROVE Accounted(f)'
    <3>1. Accounted(f) /\ f # NIL
      BY ExnFacts DEF CountInv
    <3>2. CASE f = e
      <4>1. raised[f] = 0 /\ NowhereYet(f)
        BY <2>1, <3>1, <3>2 DEF Accounted
      <4>2. HeldBy(f, t)'
        BY <2>3, <3>2, <4>1 DEF HeldBy, NowhereYet
      <4> QED BY <2>1, <3>2, <4>1, <4>2 DEF Accounted
    <3>3. CASE f # e
      <4>1. f \in thrown' <=> f \in thrown
        BY <2>1, <3>3
      <4>2. NowhereYet(f) => NowhereYet(f)'
        BY <2>3, <3>3 DEF NowhereYet
      <4>3. \A u \in Thread : HeldBy(f, u) => HeldBy(f, u)'
        BY <2>1, <2>3, <3>1, <3>3 DEF HeldBy
      <4> QED BY <2>1, <3>1, <4>1, <4>2, <4>3 DEF Accounted
    <3> QED BY <3>2, <3>3
  <2>5. thrown' \subseteq Exn /\ \A u \in Thread : data'[ExnOf[u]] \in Exn \cup {NIL}
    BY <2>1, <2>3 DEF CountInv
  <2> QED BY <1>0, <2>1, <2>4, <2>5 DEF CountInv
<1> QED BY <1>1, <1>2

(* What is raised is the stash, or what the thread's mt_exn held.          *)
LEMMA RaisesCounts ==
  ASSUME ExnAssumption, CountInv, Running, Thrown(TRUE) \/ Thrown(FALSE),
         NEW n \in 0..Len(timeq), RaisesThrown(n)
  PROVE  CountInv'
<1>0. AsyncInv' /\ thrown' = thrown
  <2>1. thrown' = thrown
    BY DEF RaisesThrown
  <2> QED BY <2>1, RaisesKeeps DEF CountInv
<1>1. Cur \in Thread /\ ExnOf[Cur] \in MVar /\ DOMAIN data = MVar
  BY Front, ExnFacts DEF CountInv, AsyncInv
<1> DEFINE E == ExnOf[Cur]
<1>2. data[E] # NIL /\ data[E] \in Exn
  BY <1>1 DEF Thrown, CountInv
<1>3. DOMAIN mval' = Thread /\ \A t \in Thread : mval'[t] \in Msg \cup {NIL}
  BY DEF RaisesThrown, DropsStash, CountInv
<1>4. CASE mval[Cur] # NIL
  <2>1. mval[Cur] \in Msg /\ data' = data /\ raised' = [raised EXCEPT ![mval[Cur]] = @ + 1]
    BY <1>1, <1>4 DEF RaisesThrown, Available, CountInv
  <2>2. raised' \in [Value -> Nat] /\ \A e \in Exn : raised'[e] = raised[e]
    BY <2>1, ExnFacts DEF CountInv
  <2>3. \A e \in Exn : Accounted(e)'
    BY <1>0, <2>1, <2>2 DEF CountInv, Accounted, NowhereYet, HeldBy
  <2> QED BY <1>0, <1>3, <2>1, <2>2, <2>3 DEF CountInv
<1>5. CASE mval[Cur] = NIL
  <2>1. data' = [data EXCEPT ![E] = NIL] /\ raised' = [raised EXCEPT ![data[E]] = @ + 1]
    BY <1>5 DEF RaisesThrown, Available
  <2>2. \A u \in Thread : data'[ExnOf[u]] = IF u = Cur THEN NIL ELSE data[ExnOf[u]]
    BY <1>1, <2>1, ExnFacts
  <2>3. raised' \in [Value -> Nat] /\ \A f \in Exn : raised'[f] = IF f = data[E] THEN raised[f] + 1 ELSE raised[f]
    BY <1>2, <2>1, ExnFacts DEF CountInv
  <2>4. ASSUME NEW f \in Exn PROVE Accounted(f)'
    <3>1. Accounted(f) /\ f # NIL
      BY ExnFacts DEF CountInv
    <3>2. CASE f = data[E]
      <4>1. ~NowhereYet(f)
        BY <1>1, <3>2 DEF NowhereYet
      <4>2. PICK t \in Thread : HeldBy(f, t)
        BY <3>1, <4>1 DEF Accounted
      <4>3. t = Cur /\ f \in thrown /\ raised[f] = 0
        BY <1>1, <3>1, <3>2, <4>1, <4>2 DEF Accounted, HeldBy
      <4>4. NowhereYet(f)'
        BY <2>2, <3>1, <4>2, <4>3 DEF NowhereYet, HeldBy
      <4> QED BY <1>0, <2>3, <3>2, <4>3, <4>4 DEF Accounted
    <3>3. CASE f # data[E]
      <4>1. NowhereYet(f) => NowhereYet(f)'
        BY <2>2, <3>1 DEF NowhereYet
      <4>2. \A u \in Thread : HeldBy(f, u) => HeldBy(f, u)'
        BY <1>1, <2>2, <3>1, <3>3 DEF HeldBy
      <4> QED BY <1>0, <2>3, <3>1, <3>3, <4>1, <4>2 DEF Accounted
    <3> QED BY <3>2, <3>3
  <2>5. \A u \in Thread : data'[ExnOf[u]] \in Exn \cup {NIL}
    BY <2>2 DEF CountInv
  <2> QED BY <1>0, <1>3, <2>3, <2>4, <2>5 DEF CountInv
<1> QED BY <1>4, <1>5

LEMMA InitIsCounted == ExnAssumption /\ AInit => CountInv
<1> SUFFICES ASSUME ExnAssumption, AInit PROVE CountInv
  OBVIOUS
<1>1. AsyncInv
  BY InitHasAsyncInv
<1>2. /\ raised = [v \in Value |-> 0] /\ thrown = {} /\ mval = [t \in Thread |-> NIL]
      /\ data = [m \in MVar |-> NIL]
  BY DEF AInit, Init
<1>3. \A t \in Thread : data[ExnOf[t]] = NIL
  BY <1>2, ExnFacts
<1>4. \A e \in Exn : Accounted(e)
  BY <1>2, <1>3, ExnFacts DEF Accounted, NowhereYet
<1> QED BY <1>1, <1>2, <1>3, <1>4 DEF CountInv

LEMMA NextKeepsCount == ExnAssumption /\ CountInv /\ [Next]_vars => CountInv'
<1> SUFFICES ASSUME ExnAssumption, CountInv, [Next]_vars PROVE CountInv'
  OBVIOUS
<1>0. AsyncInv'
  BY NextKeepsAsyncInv DEF CountInv
<1>1. CASE \E m \in Box : Take(m) \/ TakeWaits(m) \/ Read(m) \/ ReadWaits(m) \/ Put(m) \/ PutWaits(m)
  BY <1>1, BoxCounts
<1>2. CASE \E t \in Thread, e \in Exn : ThrowTo(t, e) \/ ThrowToWaits(t, e) \/ ThrowToDead(t, e)
  BY <1>2, ThrowCounts
<1>3. CASE Thrower
  <2>1. Running /\ Thrown(TRUE) /\ RaisesThrown(0)
    BY <1>3 DEF Thrower, Runs
  <2>2. 0 \in 0..Len(timeq)
    BY LenProperties DEF CountInv, AsyncInv, PlacedNow, Placed, Queue
  <2> QED BY <2>1, <2>2, RaisesCounts
<1>4. CASE Slice /\ Thrown(FALSE)
  BY <1>4, RaisesCounts DEF Slice, Runs
<1>5. CASE \/ Slice /\ ~Thrown(FALSE)
           \/ (\E l \in Mask : Masks(l)) \/ Catches \/ Leaves \/ Handles
           \/ Delay \/ Wake \/ ForkOne \/ Return \/ DiesOfIt \/ Pause \/ GiveUp \/ Time
           \/ UNCHANGED vars
  <2>1. UNCHANGED <<mval, data, thrown, raised>>
    <3>1. CASE \/ Slice /\ ~Thrown(FALSE)
               \/ Delay \/ Wake \/ Pause
      BY <3>1 DEF Slice, Preempt, Rotates, Delay, DelayBegins, Wake, DelayReturns, Pause, PauseExec,
                  Reschedules, mvars, async
    <3>2. CASE (\E l \in Mask : Masks(l)) \/ Catches \/ Leaves \/ Handles
      BY <3>2 DEF Masks, Catches, Leaves, Handles, Enters, rts, mvars
    <3>3. CASE ForkOne \/ Return \/ DiesOfIt
      BY <3>3 DEF ForkOne, Fork, Return, Finish, DiesOfIt, Die, Ends, mvars, async
    <3>4. CASE GiveUp \/ Time \/ UNCHANGED vars
      BY <3>4 DEF GiveUp, Deadlock, Time, Tick, vars, rts, mvars, async
    <3> QED BY <1>5, <3>1, <3>2, <3>3, <3>4
  <2> QED BY <1>0, <2>1, KeepsCount DEF CountInv
<1> QED BY <1>1, <1>2, <1>3, <1>4, <1>5 DEF Next

(* No exception is lost or raised a second time: what a throwTo has        *)
(* delivered is raised once, or still waits in the mt_exn of one thread,   *)
(* whatever interrupts, masks or stops its target (check_thrown, throwTo). *)
THEOREM ExceptionsCount ==
  ASSUME ExnAssumption
  PROVE  Spec => []RaisedOnce
<1>1. AInit => CountInv
  BY InitIsCounted
<1>2. CountInv /\ [Next]_vars => CountInv'
  BY NextKeepsCount
<1>3. CountInv => RaisedOnce
  BY AccountsAreOnce DEF RaisedOnce
<1> QED BY <1>1, <1>2, <1>3, PTL DEF Spec
=============================================================================
