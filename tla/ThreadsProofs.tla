--------------------------- MODULE ThreadsProofs ---------------------------
(***************************************************************************)
(* The scheduler's invariant, the order of timeq and the delays, for every *)
(* client and any number of threads, MVars and values.                     *)
(***************************************************************************)
EXTENDS Threads, RtsProofs, FiniteSetTheorems

(* A step of the clients is a primitive of the runtime.                    *)
LEMMA StepKeepsRtsInv ==
  ASSUME RtsInv, [Next]_vars
  PROVE  RtsInv'
<1>1. ASSUME NEW m \in MVar, OnMVar(m)
      PROVE  RtsInv'
  <2>1. CASE Take(m)
    BY <2>1, TakeMVarOK DEF Take
  <2>2. CASE TakeWaits(m)
    BY <2>2, TakeMVarBlocksOK DEF TakeWaits
  <2>3. CASE TryTake(m)
    BY <2>3, TryTakeMVarOK DEF TryTake
  <2>4. CASE Read(m)
    BY <2>4, ReadMVarOK DEF Read
  <2>5. CASE ReadWaits(m)
    BY <2>5, ReadMVarBlocksOK DEF ReadWaits
  <2>6. CASE TryRead(m)
    BY <2>6, TryReadMVarOK DEF TryRead
  <2>7. CASE Put(m)
    BY <2>7, PutMVarOK DEF Put
  <2>8. CASE PutWaits(m)
    BY <2>8, PutMVarBlocksOK DEF PutWaits
  <2>9. CASE TryPut(m)
    BY <2>9, TryPutMVarOK DEF TryPut
  <2>10. QED
    BY <1>1, <2>1, <2>2, <2>3, <2>4, <2>5, <2>6, <2>7, <2>8, <2>9 DEF OnMVar
<1>2. CASE Delay
  BY <1>2, DelayBeginsOK, TimeAssumption DEF Delay
<1>3. CASE Wake
  BY <1>3, DelayReturnsOK DEF Wake
<1>4. CASE Yield
  BY <1>4, IOYieldOK DEF Yield
<1>5. CASE ForkOne
  BY <1>5, ForkOK DEF ForkOne
<1>6. CASE Return
  BY <1>6, EndsOK DEF Return, Finish
<1>7. CASE Raise
  BY <1>7, EndsOK DEF Raise, Die
<1>8. CASE Slice
  BY <1>8, PreemptOK DEF Slice
<1>9. CASE Pause
  BY <1>9, PauseExecOK DEF Pause
<1>10. CASE GiveUp
  BY <1>10, DeadlockOK DEF GiveUp
<1>11. CASE Time
  BY <1>11, TickOK DEF Time
<1>12. CASE UNCHANGED vars
  BY <1>12, RtsStutterOK DEF vars
<1>13. QED
  BY <1>1, <1>2, <1>3, <1>4, <1>5, <1>6, <1>7, <1>8, <1>9, <1>10, <1>11, <1>12
     DEF Next, Calls

(* Whoever runs and whatever they call, every thread stands in the queue   *)
(* its state names, an MVar's takeput queue holds takers when it is empty  *)
(* and putters when it is full, a handed-over value waits for a take, and  *)
(* an expired mark for its delay (take_mvar, put_mvar, check_timeq, yield).*)
THEOREM SchedulerInvariant == Spec => []RtsInv
<1>1. TInit => RtsInv
  BY RtsInitOK DEF TInit
<1>2. RtsInv /\ [Next]_vars => RtsInv'
  BY StepKeepsRtsInv
<1>3. QED BY <1>1, <1>2, PTL DEF Spec

(* The types of the runtime's variables.                                   *)
THEOREM Typing == Spec => []TypeOK
<1>1. RtsInv => TypeOK
  BY DEF RtsInv
<1>2. QED BY <1>1, SchedulerInvariant, PTL

(* No thread is ever on two queues or twice on one: the one link field     *)
(* mt_queue is enough.                                                     *)
THEOREM QueuesAreDisjoint == Spec => []OneQueue
<1>1. RtsInv => OneQueue
  BY DEF RtsInv
<1>2. QED BY <1>1, SchedulerInvariant, PTL

(* No taker waits at a full MVar and no putter at an empty one: no wake-up *)
(* of take_mvar or put_mvar is lost on the single queue they share.        *)
THEOREM NoLostWakeup == Spec => []OneKindWaits
<1>1. RtsInv => OneKindWaits
  BY DEF RtsInv
<1>2. QED BY <1>1, SchedulerInvariant, PTL

(* A value handed over by put_mvar is returned by the take it was handed   *)
(* to, never by a later operation on another MVar.                         *)
THEOREM StashGoesToTake == Spec => []StashIsForTake
<1>1. RtsInv => StashIsForTake
  BY DEF RtsInv
<1>2. QED BY <1>1, SchedulerInvariant, PTL

(* An expired mark is consumed by the threadDelay that earned it.          *)
THEOREM MarkGoesToDelay == Spec => []MarkIsForDelay
<1>1. RtsInv => MarkIsForDelay
  BY DEF RtsInv
<1>2. QED BY <1>1, SchedulerInvariant, PTL

----------------------------------------------------------------------------
LEMMA StepKeepsOrder ==
  ASSUME RtsInv, TimeqSorted, [Next]_vars
  PROVE  TimeqSorted'
<1>1. at' \in [Thread -> Int] /\ at \in [Thread -> Int]
  BY StepKeepsRtsInv DEF RtsInv, TypeOK
<1>2. ASSUME timeq' = timeq, at' = at
      PROVE  TimeqSorted'
  BY <1>2, <1>1, SameTimeqSorted
<1>3. ASSUME NEW m \in MVar, OnMVar(m)
      PROVE  TimeqSorted'
  <2>1. timeq' = timeq /\ at' = at
    BY <1>3 DEF OnMVar, Take, TakeWaits, TryTake, Read, ReadWaits, TryRead, Put, PutWaits,
       TryPut, TakeMVar, TakeMVarBlocks, TryTakeMVar, ReadMVar, ReadMVarBlocks, TryReadMVar,
       PutMVar, PutMVarBlocks, TryPutMVar, Taken, Stored
  <2>2. QED BY <2>1, <1>2
<1>4. CASE Delay
  BY <1>4, DelayBeginsSorted, TimeAssumption DEF Delay
<1>5. CASE Wake
  <2>1. Running /\ timeq' = timeq /\ at' = [at EXCEPT ![Cur] = 0]
    BY <1>5 DEF Wake, DelayReturns, Executes
  <2>2. \A t \in Thread : state[t] = "wait_time" => at'[t] = at[t]
    BY <2>1, <1>1, CurFacts
  <2>3. QED BY <2>1, <2>2, <1>1, SameTimeqSorted
<1>6. ASSUME NEW n \in 0..Len(timeq), CheckTimeq(n)
      PROVE  TimeqSorted'
  BY <1>6, SuffixSorted
<1>7. CASE Yield \/ Slice
  BY <1>6, <1>7 DEF Yield, Slice, IOYield, Preempt, Rotates
<1>8. CASE Pause
  <2>1. PICK n \in 1..Len(timeq) : CheckTimeq(n)
    BY <1>8 DEF Pause, PauseExec
  <2>2. n \in 0..Len(timeq)
    OBVIOUS
  <2>3. QED BY <2>1, <2>2, <1>6
<1>9. CASE ForkOne \/ Return \/ Raise \/ GiveUp \/ Time \/ UNCHANGED vars
  BY <1>2, <1>9 DEF ForkOne, Fork, Return, Raise, Finish, Die, Ends, GiveUp, Deadlock, Time,
     Tick, vars, rts
<1>10. QED
  BY <1>3, <1>4, <1>5, <1>7, <1>8, <1>9 DEF Next, Calls

(* check_timeq may stop at the first sleeper that is not due: the sorted   *)
(* insertion of threadDelay is never undone by the wake-ups in between.    *)
THEOREM SleepersInOrder == Spec => []TimeqSorted
<1>1. TInit => TimeqSorted
  BY DEF TInit, Init, TimeqSorted
<1>2. RtsInv /\ TimeqSorted /\ [Next]_vars => TimeqSorted'
  BY StepKeepsOrder
<1>3. QED BY <1>1, <1>2, SchedulerInvariant, PTL DEF Spec
----------------------------------------------------------------------------
(* What a step other than the start of a delay or a tick does to sleepers. *)
SleepersKept ==
  /\ clock' = clock /\ left' = left
  /\ \A t \in Thread :
       /\ state'[t] = "wait_time" => state[t] = "wait_time" /\ at'[t] = at[t]
       /\ state[t] = "wait_time" /\ state'[t] # "wait_time" => at[t] <= clock

LEMMA OnMVarKeepsSleepers ==
  ASSUME RtsInv, NEW m \in MVar, OnMVar(m)
  PROVE  SleepersKept
<1> USE DEF SleepersKept
<1>1. /\ state \in [Thread -> State] /\ runq \in Seq(Thread)
      /\ \A t \in Thread : InQ(takeput[m], t) => state[t] = "wait_mvar"
  BY DEF RtsInv, TypeOK, OneQueue
<1>2. clock' = clock /\ left' = left /\ at' = at
  BY DEF OnMVar, Take, TakeWaits, TryTake, Read, ReadWaits, TryRead, Put, PutWaits,
     TryPut, TakeMVar, TakeMVarBlocks, TryTakeMVar, ReadMVar, ReadMVarBlocks, TryReadMVar,
     PutMVar, PutMVarBlocks, TryPutMVar, Taken, Stored, hist
<1>3. ASSUME state' = state
      PROVE  SleepersKept
  BY <1>2, <1>3
<1>4. ASSUME Wakes(takeput[m])
      PROVE  SleepersKept
  BY <1>1, <1>2, <1>4 DEF Wakes, MadeRunnable
<1>5. ASSUME NEW p, NEW v, Running, Suspends(p, m, v, "wait_mvar")
      PROVE  SleepersKept
  <2>1. Cur \in Thread /\ state[Cur] = "runnable"
    BY <1>5, CurFacts
  <2>2. QED BY <2>1, <1>1, <1>2, <1>5 DEF Suspends
<1>6. CASE Take(m) \/ TryTake(m)
  BY <1>3, <1>4, <1>6 DEF Take, TryTake, TakeMVar, TryTakeMVar, Taken
<1>7. CASE TakeWaits(m)
  BY <1>5, <1>7 DEF TakeWaits, TakeMVarBlocks, Executes
<1>8. CASE Read(m) \/ TryRead(m)
  BY <1>3, <1>8 DEF Read, TryRead, ReadMVar, TryReadMVar
<1>9. CASE ReadWaits(m)
  BY <1>5, <1>9 DEF ReadWaits, ReadMVarBlocks, Executes
<1>10. CASE Put(m) \/ TryPut(m)
  BY <1>3, <1>4, <1>10 DEF Put, TryPut, PutMVar, TryPutMVar, Stored
<1>11. CASE PutWaits(m)
  BY <1>5, <1>11 DEF PutWaits, PutMVarBlocks, Executes
<1>12. QED
  BY <1>6, <1>7, <1>8, <1>9, <1>10, <1>11 DEF OnMVar

LEMMA CheckTimeqKeepsSleepers ==
  ASSUME RtsInv, NEW n \in 0..Len(timeq), CheckTimeq(n), clock' = clock, left' = left
  PROVE  SleepersKept
<1> DEFINE w == WokenBy(n)
<1>1. /\ state \in [Thread -> State] /\ at \in [Thread -> Int] /\ timeq \in Seq(Thread)
      /\ NoRepeat(timeq)
  BY DEF RtsInv, TypeOK, OneQueue
<1>2. \A t : InQ(w, t) => at[t] <= clock
  BY <1>1, SplitQ DEF CheckTimeq, DueN, Due, WokenBy, InQ
<1>3. \A t \in Thread : /\ state'[t] = IF InQ(w, t) THEN "runnable" ELSE state[t]
                        /\ at'[t] = IF InQ(w, t) THEN -1 ELSE at[t]
  BY <1>1 DEF CheckTimeq, MadeRunnable
<1>4. QED BY <1>2, <1>3 DEF SleepersKept

LEMMA StepKeepsSleepers ==
  ASSUME RtsInv, [Next]_vars
  PROVE  SleepersKept \/ Delay \/ Time
<1> USE DEF SleepersKept
<1>1. state \in [Thread -> State] /\ at \in [Thread -> Int] /\ MarkIsForDelay
  BY DEF RtsInv, TypeOK
<1>2. ASSUME NEW m \in MVar, OnMVar(m)
      PROVE  SleepersKept
  BY <1>2, OnMVarKeepsSleepers
<1>3. CASE Wake
  <2>1. Running /\ state' = state /\ at' = [at EXCEPT ![Cur] = 0] /\ clock' = clock /\ left' = left
    BY <1>3 DEF Wake, DelayReturns, Executes, hist
  <2>2. QED BY <2>1, <1>1, CurFacts
<1>4. CASE Yield \/ Slice
  <2>1. PICK n \in 0..Len(timeq) : CheckTimeq(n) /\ clock' = clock /\ left' = left
    BY <1>4 DEF Yield, Slice, IOYield, Preempt, Rotates, hist
  <2>2. QED BY <2>1, CheckTimeqKeepsSleepers
<1>5. CASE Pause
  <2>1. PICK n \in 1..Len(timeq) : CheckTimeq(n) /\ clock' = clock /\ left' = left
    BY <1>5 DEF Pause, PauseExec, hist
  <2>2. n \in 0..Len(timeq)
    OBVIOUS
  <2>3. QED BY <2>1, <2>2, CheckTimeqKeepsSleepers
<1>6. CASE ForkOne
  <2>1. PICK t \in Thread : Fork(t) /\ UNCHANGED hist
    BY <1>6 DEF ForkOne
  <2>2. QED BY <2>1, <1>1 DEF Fork, hist
<1>7. CASE Return \/ Raise
  <2>1. PICK s \in {"finished", "died"} :
          /\ Running /\ state' = [state EXCEPT ![Cur] = s] /\ at' = at
          /\ clock' = clock /\ left' = left
    BY <1>7 DEF Return, Raise, Finish, Die, Ends, Starts, hist
  <2>2. QED BY <2>1, <1>1, CurFacts
<1>8. CASE GiveUp \/ UNCHANGED vars
  BY <1>8 DEF GiveUp, Deadlock, vars, rts, hist
<1>9. QED
  BY <1>2, <1>3, <1>4, <1>5, <1>6, <1>7, <1>8 DEF Next, Calls

(* The start of a delay and a tick, in the same terms.                     *)
LEMMA DelayOnSleepers ==
  ASSUME RtsInv, left \in [Thread -> Nat], Delay
  PROVE  \E u \in Usecs :
           /\ clock' = clock /\ left' = [left EXCEPT ![Cur] = u] /\ u \in Nat
           /\ Cur \in Thread /\ state[Cur] = "runnable" /\ state'[Cur] = "wait_time"
           /\ at'[Cur] = clock + u
           /\ \A t \in Thread \ {Cur} : state'[t] = state[t] /\ at'[t] = at[t]
<1>1. PICK u \in Usecs : DelayBegins(u) /\ left' = [left EXCEPT ![Cur] = u]
  BY DEF Delay
<1>2. Cur \in Thread /\ state[Cur] = "runnable"
  BY <1>1, CurFacts DEF DelayBegins, Executes
<1>3. QED
  BY <1>1, <1>2, TimeAssumption DEF DelayBegins, Suspends, RtsInv, TypeOK

LEMMA StepKeepsDelays ==
  ASSUME RtsInv, left \in [Thread -> Nat], AtLeast, [Next]_vars
  PROVE  /\ left' \in [Thread -> Nat] /\ AtLeast'
         /\ \A t \in Thread : state[t] = "wait_time" /\ state'[t] # "wait_time" => left[t] = 0
<1> USE DEF AtLeast
<1>1. /\ state \in [Thread -> State] /\ at \in [Thread -> Int] /\ clock \in Nat
      /\ at' \in [Thread -> Int]
  BY StepKeepsRtsInv, ClockAssumption DEF RtsInv, TypeOK
<1>2. CASE SleepersKept
  BY <1>1, <1>2 DEF SleepersKept
<1>3. CASE Delay
  BY <1>1, <1>3, DelayOnSleepers
<1>4. CASE Time
  <2>1. /\ clock' = 0 \/ clock' = clock + 1
        /\ left' = [t \in Thread |-> IF left[t] > 0 THEN left[t] - 1 ELSE 0]
        /\ state' = state /\ at' = at
    <3>1. clock \in 0..(ClockMod - 1) /\ clock' = (clock + 1) % ClockMod
      BY <1>4 DEF Time, Tick, RtsInv, TypeOK
    <3>2. clock' = 0 \/ clock' = clock + 1
      BY <3>1, ClockAssumption
    <3>3. QED BY <3>2, <1>4 DEF Time, Tick
  <2>2. QED BY <2>1, <1>1
<1>5. QED BY <1>2, <1>3, <1>4, StepKeepsSleepers

(* threadDelay never returns early, even across a wrap of the timer: the   *)
(* wake-up time is computed in 64 bits, so a wrap can only make the sleep  *)
(* longer (thread_delay, check_timeq).                                     *)
THEOREM DelaysAreNeverShort == Spec => NeverEarly
<1> DEFINE I == RtsInv /\ left \in [Thread -> Nat] /\ AtLeast
<1>1. TInit => I
  BY RtsInitOK DEF TInit, Init, AtLeast
<1>2. I /\ [Next]_vars => I'
  BY StepKeepsRtsInv, StepKeepsDelays
<1>3. I /\ [Next]_vars
        => [\A t \in Thread : state[t] = "wait_time" /\ state'[t] # "wait_time" => left[t] = 0]_vars
  BY StepKeepsDelays
<1>4. QED BY <1>1, <1>2, <1>3, PTL DEF Spec, NeverEarly

LEMMA StepKeepsAtMost ==
  ASSUME ~Wraps, RtsInv, left \in [Thread -> Nat], AtMost, [Next]_vars
  PROVE  AtMost'
<1> USE DEF AtMost
<1>1. /\ state \in [Thread -> State] /\ at \in [Thread -> Int] /\ clock \in 0..(ClockMod - 1)
      /\ at' \in [Thread -> Int] /\ clock \in Nat
  BY StepKeepsRtsInv, ClockAssumption DEF RtsInv, TypeOK
<1>2. CASE SleepersKept
  BY <1>1, <1>2 DEF SleepersKept
<1>3. CASE Delay
  BY <1>1, <1>3, DelayOnSleepers
<1>4. CASE Time
  <2>1. clock + 1 < ClockMod /\ clock' = (clock + 1) % ClockMod
    BY <1>4 DEF Time, Tick
  <2>2. clock' = clock + 1
    BY <2>1, <1>1, ClockAssumption
  <2>3. QED BY <2>2, <1>1, <1>4 DEF Time, Tick
<1>5. QED BY <1>2, <1>3, <1>4, StepKeepsSleepers

(* Until the timer wraps, a preemption, the primitive yield and pause_exec *)
(* move every sleeper whose time is over to runq: check_timeq, which stops *)
(* at the first that is not due, leaves none behind.                       *)
THEOREM ChecksMoveExpired == ~Wraps => (Spec => ExpiredAreMoved)
<1> SUFFICES ASSUME ~Wraps PROVE Spec => ExpiredAreMoved
  OBVIOUS
<1> DEFINE I == RtsInv /\ TimeqSorted /\ left \in [Thread -> Nat] /\ AtLeast /\ AtMost
           Moves == Slice \/ Yield \/ Pause =>
                      \A t \in Thread : state[t] = "wait_time" /\ left[t] = 0
                                        => state'[t] = "runnable"
<1>1. TInit => I
  BY RtsInitOK DEF TInit, Init, AtLeast, AtMost, TimeqSorted
<1>2. I /\ [Next]_vars => I'
  BY StepKeepsRtsInv, StepKeepsDelays, StepKeepsAtMost, StepKeepsOrder
<1>3. ASSUME I, Slice \/ Yield \/ Pause, NEW t \in Thread, state[t] = "wait_time", left[t] = 0
      PROVE  state'[t] = "runnable"
  <2>1. PICK n \in 0..Len(timeq) : CheckTimeq(n)
    <3>1. CASE Slice \/ Yield
      BY <3>1 DEF Slice, Preempt, Yield, IOYield, Rotates
    <3>2. CASE Pause
      <4>1. PICK n \in 1..Len(timeq) : CheckTimeq(n)
        BY <3>2 DEF Pause, PauseExec
      <4>2. n \in 0..Len(timeq)
        BY <4>1
      <4>3. QED BY <4>1, <4>2
    <3>3. QED BY <1>3, <3>1, <3>2
  <2>2. /\ at \in [Thread -> Int] /\ clock \in Int /\ timeq \in Seq(Thread) /\ NoRepeat(timeq)
        /\ state \in [Thread -> State] /\ InQ(timeq, t) /\ at[t] <= clock
    BY <1>3, ClockAssumption DEF RtsInv, TypeOK, OneQueue, AtMost
  <2>3. PICK i \in 1..Len(timeq) : timeq[i] = t
    BY <2>2 DEF InQ
  <2>4. i <= n
    <3>1. SUFFICES ASSUME n < i PROVE FALSE
      BY <2>2, <2>3
    <3>2. n + 1 \in 1..Len(timeq) /\ n + 1 <= i /\ n < Len(timeq)
      BY <3>1, <2>2
    <3>3. at[timeq[n + 1]] <= at[timeq[i]]
      BY <3>2, <1>3 DEF TimeqSorted
    <3>4. ~(at[timeq[n + 1]] <= clock)
      BY <2>1, <3>2 DEF CheckTimeq, DueN, Due
    <3>5. timeq[n + 1] \in Thread
      BY <3>2, <2>2
    <3>6. QED BY <3>3, <3>4, <3>5, <2>2, <2>3
  <2>5. InQ(WokenBy(n), t)
    BY <2>2, <2>3, <2>4, SplitQ DEF WokenBy, InQ
  <2>6. QED BY <2>1, <2>2, <2>5 DEF CheckTimeq, MadeRunnable
<1>4. I /\ [Next]_vars => [Moves]_vars
  BY <1>3
<1>5. QED BY <1>1, <1>2, <1>4, PTL DEF Spec, ExpiredAreMoved
----------------------------------------------------------------------------
(* What a step does to the values: nothing; a take returns its stash, or   *)
(* empties an MVar; a put fills an MVar, or hands its value to everybody   *)
(* in mv_takeput.                                                          *)
ValuesKept == UNCHANGED <<data, mval, taken, sent>>
StashTaken(v) ==
  /\ Cur \in Thread /\ mval[Cur] = v
  /\ mval'  = [mval EXCEPT ![Cur] = NIL]
  /\ taken' = [taken EXCEPT ![v] = @ + 1]
  /\ UNCHANGED <<data, sent>>
MVarTaken(m, v) ==
  /\ data[m] = v
  /\ data'  = [data EXCEPT ![m] = NIL]
  /\ taken' = [taken EXCEPT ![v] = @ + 1]
  /\ UNCHANGED <<mval, sent>>
MVarFilled(m, v) ==
  /\ v \notin sent /\ data[m] = NIL
  /\ data' = [data EXCEPT ![m] = v]
  /\ sent' = sent \cup {v}
  /\ UNCHANGED <<mval, taken>>
HandedOver(m, v) ==
  /\ v \notin sent /\ data[m] = NIL /\ (takeput[m] # <<>> \/ rd[m] # <<>>)
  /\ mval' = [t \in Thread |-> IF InQ(takeput[m], t) THEN v ELSE mval[t]]
  /\ sent' = sent \cup {v}
  /\ UNCHANGED <<data, taken>>

LEMMA NothingStashed ==
  ASSUME RtsInv, Running, mval' = [mval EXCEPT ![Cur] = NIL],
         \/ redex[Cur] = NoRedex
         \/ redex[Cur].prim # "take"
  PROVE  mval' = mval /\ mval[Cur] = NIL
<1>1. Cur \in Thread /\ mval \in [Thread -> Value \cup {NIL}]
  BY CurFacts DEF RtsInv, TypeOK
<1>2. redex[Cur].prim # "take"
  BY DEF NoRedex, Pending
<1>3. mval[Cur] = NIL
  BY <1>1, <1>2 DEF RtsInv, StashIsForTake
<1>4. QED BY <1>1, <1>3

LEMMA TakeMovesOne ==
  ASSUME RtsInv, NEW m \in MVar, NEW v \in Value, Running, Taken(m, v),
         taken' = [taken EXCEPT ![v] = @ + 1], sent' = sent
  PROVE  StashTaken(v) \/ MVarTaken(m, v)
<1>1. Cur \in Thread /\ mval \in [Thread -> Value \cup {NIL}]
  BY CurFacts DEF RtsInv, TypeOK
<1>2. CASE mval[Cur] # NIL
  BY <1>1, <1>2 DEF Taken, Available, DropsStash, StashTaken
<1>3. CASE mval[Cur] = NIL
  <2>1. mval' = mval
    BY <1>1, <1>3 DEF Taken, DropsStash
  <2>2. QED BY <1>3, <2>1 DEF Taken, Available, MVarTaken
<1>4. QED BY <1>2, <1>3

LEMMA PutMovesOne ==
  ASSUME NEW m \in MVar, NEW v \in Value, Fresh(v), Stored(m, v),
         taken' = taken, sent' = sent \cup {v}
  PROVE  MVarFilled(m, v) \/ HandedOver(m, v)
BY DEF Fresh, Stored, MVarFilled, HandedOver

LEMMA StepOnValues ==
  ASSUME RtsInv, [Next]_vars
  PROVE  \/ ValuesKept
         \/ \E m \in MVar, v \in Value :
              StashTaken(v) \/ MVarTaken(m, v) \/ MVarFilled(m, v) \/ HandedOver(m, v)
<1>0. NIL \notin Value
  BY ValueAssumption
<1>1. ASSUME NEW m \in MVar, OnMVar(m)
      PROVE  ValuesKept \/ \E v \in Value :
               StashTaken(v) \/ MVarTaken(m, v) \/ MVarFilled(m, v) \/ HandedOver(m, v)
  <2>1. CASE Take(m)
    <3>1. PICK v \in Value : TakeMVar(m, v) /\ Counted(v) /\ sent' = sent
      BY <2>1 DEF Take
    <3>2. Running /\ Taken(m, v) /\ taken' = [taken EXCEPT ![v] = @ + 1]
      BY <3>1, <1>0 DEF TakeMVar, Executes, Counted
    <3>3. QED BY <3>1, <3>2, TakeMovesOne
  <2>2. CASE TryTake(m)
    <3>1. PICK v \in Value \cup {NIL} : TryTakeMVar(m, v) /\ Counted(v) /\ sent' = sent
      BY <2>2 DEF TryTake
    <3>2. CASE v = NIL
      BY <3>1, <3>2 DEF TryTakeMVar, Taken, Counted, ValuesKept, mvars
    <3>3. CASE v \in Value
      <4>1. Running /\ Taken(m, v) /\ taken' = [taken EXCEPT ![v] = @ + 1]
        BY <3>1, <3>3, <1>0 DEF TryTakeMVar, Starts, Counted
      <4>2. QED BY <3>1, <3>3, <4>1, TakeMovesOne
    <3>4. QED BY <3>2, <3>3
  <2>3. CASE Read(m)
    <3>1. PICK v \in Value : ReadMVar(m, v) /\ UNCHANGED hist
      BY <2>3 DEF Read
    <3>2. Running /\ mval' = [mval EXCEPT ![Cur] = NIL]
      BY <3>1 DEF ReadMVar, Executes, DropsStash
    <3>3. redex[Cur] = NoRedex \/ redex[Cur].prim # "take"
      BY <3>1 DEF ReadMVar, Executes, Pending
    <3>4. mval' = mval
      BY <3>2, <3>3, NothingStashed
    <3>5. QED BY <3>1, <3>4 DEF ReadMVar, ValuesKept, hist, mvars
  <2>4. CASE TryRead(m)
    <3>1. PICK v \in Value \cup {NIL} : TryReadMVar(m, v) /\ UNCHANGED hist
      BY <2>4 DEF TryRead
    <3>2. Running /\ mval' = [mval EXCEPT ![Cur] = NIL] /\ redex[Cur] = NoRedex
      BY <3>1 DEF TryReadMVar, Starts, DropsStash
    <3>3. mval' = mval
      BY <3>2, NothingStashed
    <3>4. QED BY <3>1, <3>3 DEF TryReadMVar, ValuesKept, hist, mvars
  <2>5. CASE Put(m)
    BY <2>5, PutMovesOne DEF Put, PutMVar
  <2>6. CASE TryPut(m)
    <3>1. PICK v \in Value, ok \in BOOLEAN :
            Fresh(v) /\ TryPutMVar(m, v, ok) /\ sent' = (IF ok THEN sent \cup {v} ELSE sent) /\ taken' = taken
      BY <2>6 DEF TryPut
    <3>2. CASE ok /\ Stored(m, v)
      BY <3>1, <3>2, PutMovesOne
    <3>3. CASE ~ok
      BY <3>1, <3>3 DEF TryPutMVar, ValuesKept, mvars
    <3>4. QED BY <3>1, <3>2, <3>3 DEF TryPutMVar
  <2>7. CASE TakeWaits(m) \/ ReadWaits(m) \/ PutWaits(m)
    BY <2>7 DEF TakeWaits, ReadWaits, PutWaits, TakeMVarBlocks, ReadMVarBlocks, PutMVarBlocks,
       ValuesKept, hist
  <2>8. QED
    BY <1>1, <2>1, <2>2, <2>3, <2>4, <2>5, <2>6, <2>7 DEF OnMVar
<1>2. CASE Delay \/ Wake \/ Yield \/ ForkOne \/ Return \/ Raise \/ Slice \/ Pause \/ GiveUp \/ Time
  BY <1>2 DEF Delay, Wake, Yield, ForkOne, Return, Raise, Slice, Pause, GiveUp, Time,
     DelayBegins, DelayReturns, IOYield, Rotates, Fork, Finish, Die, Ends, Preempt, PauseExec,
     Deadlock, Tick, ValuesKept, hist, mvars
<1>3. CASE UNCHANGED vars
  BY <1>3 DEF vars, rts, hist, mvars, ValuesKept
<1>4. QED BY <1>1, <1>2, <1>3 DEF Next, Calls

----------------------------------------------------------------------------
(* A value is in one place at most: the MVar it was put into, the stash of *)
(* the take it was handed to, or taken; and nowhere before it is put.      *)
OnePlace ==
  /\ taken \in [Value -> {0, 1}]
  /\ \A v \in Value :
       /\ \A m, n \in MVar : data[m] = v /\ data[n] = v => m = n
       /\ \A t, u \in Thread : mval[t] = v /\ mval[u] = v => t = u
       /\ \A m \in MVar, t \in Thread : ~(data[m] = v /\ mval[t] = v)
       /\ taken[v] = 1 => /\ \A m \in MVar : data[m] # v
                          /\ \A t \in Thread : mval[t] # v
       /\ v \notin sent => /\ taken[v] = 0
                           /\ \A m \in MVar : data[m] # v
                           /\ \A t \in Thread : mval[t] # v

LEMMA StepKeepsOnePlace ==
  ASSUME RtsInv, OneTakeWaits, OnePlace, [Next]_vars
  PROVE  OnePlace'
<1> USE DEF OnePlace
<1>1. /\ data \in [MVar -> Value \cup {NIL}] /\ mval \in [Thread -> Value \cup {NIL}]
      /\ NIL \notin Value
  BY ValueAssumption DEF RtsInv, TypeOK
<1>2. CASE ValuesKept
  BY <1>2 DEF ValuesKept
<1>3. ASSUME NEW v \in Value, StashTaken(v)
      PROVE  OnePlace'
  BY <1>1, <1>3 DEF StashTaken
<1>4. ASSUME NEW m \in MVar, NEW v \in Value, MVarTaken(m, v)
      PROVE  OnePlace'
  BY <1>1, <1>4 DEF MVarTaken
<1>5. ASSUME NEW m \in MVar, NEW v \in Value, MVarFilled(m, v)
      PROVE  OnePlace'
  BY <1>1, <1>5 DEF MVarFilled
<1>6. ASSUME NEW m \in MVar, NEW v \in Value, HandedOver(m, v)
      PROVE  OnePlace'
  BY <1>1, <1>6 DEF HandedOver, OneTakeWaits, OneTakeWaitsAt
<1>7. QED BY <1>2, <1>3, <1>4, <1>5, <1>6, StepOnValues

LEMMA OnePlaceIsNoDuplicate ==
  ASSUME OnePlace
  PROVE  NoDuplicate
<1>1. SUFFICES ASSUME NEW v \in Value PROVE Copies(v) <= 1
  BY DEF NoDuplicate
<1> DEFINE M == {m \in MVar : data[m] = v}
           T == {t \in Thread : mval[t] = v}
<1>2. taken[v] \in {0, 1} /\ Copies(v) = Cardinality(M) + Cardinality(T) + taken[v]
  BY DEF OnePlace, Copies
<1>3. M = {} \/ \E m : M = {m}
  <2>1. SUFFICES ASSUME NEW m \in M PROVE M = {m}
    OBVIOUS
  <2>2. \A n \in M : n = m
    BY DEF OnePlace
  <2>3. QED BY <2>2
<1>4. T = {} \/ \E t : T = {t}
  BY DEF OnePlace
<1>5. \/ M = {} /\ T = {}
      \/ M = {} /\ taken[v] = 0
      \/ T = {} /\ taken[v] = 0
  BY <1>2 DEF OnePlace
<1> HIDE DEF M, T
<1>6. Cardinality(M) \in {0, 1} /\ (M = {} => Cardinality(M) = 0)
  BY <1>3, FS_EmptySet, FS_Singleton
<1>7. Cardinality(T) \in {0, 1} /\ (T = {} => Cardinality(T) = 0)
  BY <1>4, FS_EmptySet, FS_Singleton
<1>8. QED BY <1>2, <1>5, <1>6, <1>7

(* As long as no two takes wait at the same MVar, no value is delivered    *)
(* twice: put_mvar hands its value to everybody in mv_takeput, and only    *)
(* then does it matter that "single wakeup" (eval.c 931) is not enforced.  *)
THEOREM NothingTwice == Spec /\ []OneTakeWaits => []NoDuplicate
<1>1. TInit => OnePlace
  BY ValueAssumption DEF TInit, Init, OnePlace
<1>2. RtsInv /\ OneTakeWaits /\ OnePlace /\ [Next]_vars => OnePlace'
  BY StepKeepsOnePlace
<1>3. OnePlace => NoDuplicate
  BY OnePlaceIsNoDuplicate
<1>4. QED BY <1>1, <1>2, <1>3, SchedulerInvariant, PTL DEF Spec

----------------------------------------------------------------------------
(* A value put is somewhere, and what was taken stays counted.             *)
Somewhere ==
  /\ taken \in [Value -> Nat] /\ sent \subseteq Value
  /\ \A v \in sent : \/ taken[v] > 0
                     \/ \E m \in MVar : data[m] = v
                     \/ \E t \in Thread : mval[t] = v

(* A blocking readMVar waits only where a take waits too.                  *)
NoReadWaitsAlone == \A m \in MVar : rd[m] # <<>> => takeput[m] # <<>>

LEMMA StepKeepsSomewhere ==
  ASSUME RtsInv, NoReadWaitsAlone, Somewhere, [Next]_vars
  PROVE  Somewhere'
<1> USE DEF Somewhere
<1>1. /\ data \in [MVar -> Value \cup {NIL}] /\ mval \in [Thread -> Value \cup {NIL}]
      /\ NIL \notin Value
  BY ValueAssumption DEF RtsInv, TypeOK
<1>2. CASE ValuesKept
  BY <1>2 DEF ValuesKept
<1>3. ASSUME NEW v \in Value, StashTaken(v)
      PROVE  Somewhere'
  BY <1>1, <1>3 DEF StashTaken
<1>4. ASSUME NEW m \in MVar, NEW v \in Value, MVarTaken(m, v)
      PROVE  Somewhere'
  BY <1>1, <1>4 DEF MVarTaken
<1>5. ASSUME NEW m \in MVar, NEW v \in Value, MVarFilled(m, v)
      PROVE  Somewhere'
  BY <1>1, <1>5 DEF MVarFilled
<1>6. ASSUME NEW m \in MVar, NEW v \in Value, HandedOver(m, v)
      PROVE  Somewhere'
  <2>1. takeput[m] \in Seq(Thread) /\ takeput[m] # <<>>
    BY <1>6 DEF HandedOver, NoReadWaitsAlone, RtsInv, TypeOK
  <2>2. PICK t \in Thread : InQ(takeput[m], t)
    BY <2>1, EmptySeq, LenProperties, ElementOfSeq DEF InQ
  <2>3. \A u \in Thread : InQ(takeput[m], u) => mval[u] = NIL
    BY DEF RtsInv, OneQueue, StashIsForTake
  <2>4. QED BY <1>1, <1>6, <2>2, <2>3 DEF HandedOver
<1>7. QED BY <1>2, <1>3, <1>4, <1>5, <1>6, StepOnValues

LEMMA NotEmptyCounts ==
  ASSUME NEW S, IsFiniteSet(S), NEW P \in SUBSET S
  PROVE  Cardinality(P) \in Nat /\ (P # {} => Cardinality(P) >= 1)
BY FS_Subset, FS_CardinalityType, FS_EmptySet

LEMMA SomewhereIsNoLoss ==
  ASSUME IsFiniteSet(Thread), IsFiniteSet(MVar), Somewhere
  PROVE  NoLoss
<1>1. SUFFICES ASSUME NEW v \in sent PROVE Copies(v) >= 1
  BY DEF NoLoss
<1> DEFINE M == {m \in MVar : data[m] = v}
           T == {t \in Thread : mval[t] = v}
<1>2. taken[v] \in Nat /\ Copies(v) = Cardinality(M) + Cardinality(T) + taken[v]
  BY DEF Somewhere, Copies
<1>3. taken[v] > 0 \/ M # {} \/ T # {}
  BY DEF Somewhere
<1> HIDE DEF M, T
<1>4. Cardinality(M) \in Nat /\ (M # {} => Cardinality(M) >= 1)
  BY NotEmptyCounts DEF M
<1>5. Cardinality(T) \in Nat /\ (T # {} => Cardinality(T) >= 1)
  BY NotEmptyCounts DEF T
<1>6. QED BY <1>2, <1>3, <1>4, <1>5

(* As long as no blocking readMVar waits where no take waits, no value is  *)
(* lost: put_mvar tests mv_read but hands the value to mv_takeput only.    *)
THEOREM NothingLost ==
  ASSUME IsFiniteSet(Thread), IsFiniteSet(MVar)
  PROVE  Spec /\ []NoReadWaitsAlone => []NoLoss
<1>1. TInit => Somewhere
  BY DEF TInit, Init, Somewhere
<1>2. RtsInv /\ NoReadWaitsAlone /\ Somewhere /\ [Next]_vars => Somewhere'
  BY StepKeepsSomewhere
<1>3. Somewhere => NoLoss
  BY SomewhereIsNoLoss
<1>4. QED BY <1>1, <1>2, <1>3, SchedulerInvariant, PTL DEF Spec

(* A discipline under which both hold: each MVar has an owner, the only    *)
(* thread that ever waits in takeMVar on it, and nobody waits in readMVar  *)
(* (whatever takes, reads and puts that need not wait anybody does).       *)
OnlyOwnersWait(owner) ==
  \A m \in MVar : (TakeWaits(m) => Cur = owner[m]) /\ ~ReadWaits(m)

(* Then a thread suspended in a takeMVar is the owner of that MVar.        *)
WaitsAsOwner(owner) ==
  \A t \in Thread : /\ redex[t].prim = "take" => t = owner[redex[t].mv]
                    /\ redex[t].prim # "read"

LEMMA StepKeepsOwners ==
  ASSUME NEW owner, RtsInv, WaitsAsOwner(owner), [Next]_vars,
         UNCHANGED vars \/ OnlyOwnersWait(owner)
  PROVE  WaitsAsOwner(owner)'
<1> USE DEF WaitsAsOwner
<1>1. redex \in [Thread -> Redex]
  BY DEF RtsInv, TypeOK
<1>2. ASSUME UNCHANGED redex
      PROVE  WaitsAsOwner(owner)'
  BY <1>2
<1>3. ASSUME Running, NEW r, redex' = [redex EXCEPT ![Cur] = r],
             r.prim = "take" => Cur = owner[r.mv], r.prim # "read"
      PROVE  WaitsAsOwner(owner)'
  BY <1>1, <1>3, CurFacts
<1>4. NoRedex.prim = "none" /\ \A p, m, v : Pending(p, m, v).prim = p /\ Pending(p, m, v).mv = m
  BY DEF NoRedex, Pending
<1>5. ASSUME Running, Completes
      PROVE  WaitsAsOwner(owner)'
  BY <1>3, <1>4, <1>5 DEF Completes
<1>6. ASSUME NEW p, NEW m, NEW v, NEW s, Running, Suspends(p, m, v, s),
             p = "take" => Cur = owner[m], p # "read"
      PROVE  WaitsAsOwner(owner)'
  BY <1>3, <1>4, <1>6 DEF Suspends
<1>7. CASE UNCHANGED vars
  BY <1>7, <1>2 DEF vars, rts
<1>8. CASE OnlyOwnersWait(owner)
  <2>1. ASSUME NEW m \in MVar, OnMVar(m)
        PROVE  WaitsAsOwner(owner)'
    <3>1. CASE Take(m) \/ TryTake(m) \/ Read(m) \/ TryRead(m) \/ Put(m) \/ TryPut(m)
      BY <3>1, <1>5 DEF Take, TryTake, Read, TryRead, Put, TryPut, TakeMVar, TryTakeMVar,
         ReadMVar, TryReadMVar, PutMVar, TryPutMVar, Executes, Starts
    <3>2. CASE TakeWaits(m)
      <4>1. Cur = owner[m]
        BY <1>8, <3>2 DEF OnlyOwnersWait
      <4>2. QED BY <3>2, <4>1, <1>6 DEF TakeWaits, TakeMVarBlocks, Executes
    <3>3. CASE ReadWaits(m)
      BY <1>8, <3>3 DEF OnlyOwnersWait
    <3>4. CASE PutWaits(m)
      BY <3>4, <1>6 DEF PutWaits, PutMVarBlocks, Executes
    <3>5. QED BY <2>1, <3>1, <3>2, <3>3, <3>4 DEF OnMVar
  <2>2. CASE Delay
    BY <2>2, <1>6 DEF Delay, DelayBegins, Executes
  <2>3. CASE Wake
    BY <2>3, <1>5 DEF Wake, DelayReturns, Executes
  <2>4. CASE Yield
    BY <2>4, <1>3, <1>4 DEF Yield, IOYield, Executes
  <2>5. CASE ForkOne \/ Return \/ Raise \/ Slice \/ Pause \/ GiveUp \/ Time
    BY <2>5, <1>2 DEF ForkOne, Return, Raise, Slice, Pause, GiveUp, Time, Fork, Finish, Die,
       Ends, Preempt, PauseExec, Deadlock, Tick
  <2>6. QED
    BY <1>7, <2>1, <2>2, <2>3, <2>4, <2>5 DEF Next, Calls
<1>9. QED BY <1>7, <1>8

(* With one thread waiting at each MVar, a value that was put is in        *)
(* exactly one place from then on: in its MVar, in the hands of the taker  *)
(* that was woken with it, or returned by one take (put_mvar, take_mvar).  *)
THEOREM OneTakerEach ==
  ASSUME NEW owner \in [MVar -> Thread], IsFiniteSet(Thread), IsFiniteSet(MVar)
  PROVE  Spec /\ [][OnlyOwnersWait(owner)]_vars => [](NoDuplicate /\ NoLoss)
<1>1. TInit => WaitsAsOwner(owner)
  <2>1. TInit => \A t \in Thread : redex[t] = NoRedex
    BY DEF TInit, Init
  <2>2. NoRedex.prim = "none"
    BY DEF NoRedex, Pending
  <2>3. QED BY <2>1, <2>2 DEF WaitsAsOwner
<1>2. RtsInv /\ WaitsAsOwner(owner) /\ [Next]_vars /\ [OnlyOwnersWait(owner)]_vars
        => WaitsAsOwner(owner)'
  BY StepKeepsOwners
<1>3. RtsInv /\ WaitsAsOwner(owner) => OneTakeWaits
  BY DEF RtsInv, OneQueue, OneKindWaits, WaitsAsOwner, OneTakeWaits, OneTakeWaitsAt
<1>4. RtsInv /\ WaitsAsOwner(owner) => NoReadWaitsAlone
  BY NoReaders DEF WaitsAsOwner, NoReadWaitsAlone
<1>5. QED
  BY <1>1, <1>2, <1>3, <1>4, SchedulerInvariant, NothingTwice, NothingLost, PTL DEF Spec
=============================================================================
