-------------------------------- MODULE Rts --------------------------------
(***************************************************************************)
(* The green-thread scheduler and the MVars of the runtime (c/eval.c) that *)
(* every Haskell part of the system runs on.  The module has the state and *)
(* one action per primitive; which thread calls which primitive is left to *)
(* the modules that EXTEND it.                                             *)
(*                                                                         *)
(* A thread has no program counter in C: it is a graph, evaluated again    *)
(* from its root whenever it is scheduled, so a primitive that blocks is   *)
(* EXECUTED AGAIN when its thread runs next.  redex[t] is that primitive,  *)
(* NoRedex while nothing is pending.  A primitive is one step: yield() is  *)
(* called between reductions only.                                         *)
(*                                                                         *)
(* Asynchronous exceptions (throwTo, masking), which no Haskell source of  *)
(* the system uses, are added in Async.                                    *)
(***************************************************************************)
EXTENDS Integers, Sequences

CONSTANTS
  Thread,     \* the threads that can exist (bound: forks stop when all do)
  Main,       \* the main thread, mt_id = MAIN_THREAD
  MVar,       \* the MVars
  Value,      \* what an MVar can hold
  NIL,        \* the empty MVar, no stash
  ClockMod    \* the microsecond timer wraps at ClockMod (2^32 in hardware)

ASSUME ThreadAssumption == Main \in Thread
ASSUME ValueAssumption  == NIL \notin Value /\ NIL \notin MVar
ASSUME ClockAssumption  == ClockMod \in Nat \ {0}

VARIABLES
  state,      \* mt_state
  redex,      \* the primitive at which the graph mt_root is suspended
  mval,       \* mt_mval, the value handed to a thread by a put
  at,         \* mt_at: wake-up time, -1 when it has passed, else 0
  runq,       \* the runnable threads; the head is the one that runs
  timeq,      \* the sleeping threads
  data,       \* mv_data
  takeput,    \* mv_takeput
  rd,         \* mv_read
  clock,      \* the microsecond timer
  exit        \* how start_exec ended, "no" while it runs

mvars == <<data, takeput, rd>>
rts   == <<state, redex, mval, at, runq, timeq, data, takeput, rd, clock, exit>>

State    == {"unborn", "runnable", "wait_mvar", "wait_time", "finished", "died"}
Blocking == {"take", "read", "put"}
Redex    == [prim : {"none", "yield", "delay"} \cup Blocking,
             mv   : MVar \cup {NIL},
             arg  : Value \cup {NIL}]
Pending(p, m, v) == [prim |-> p, mv |-> m, arg |-> v]
NoRedex          == Pending("none", NIL, NIL)

InQ(q, t) == \E i \in 1..Len(q) : q[i] = t

----------------------------------------------------------------------------
(* start_exec creates the main thread; every MVar starts empty (new_mvar). *)
Init ==
  /\ state   = [t \in Thread |-> IF t = Main THEN "runnable" ELSE "unborn"]
  /\ redex   = [t \in Thread |-> NoRedex]
  /\ mval    = [t \in Thread |-> NIL]
  /\ at      = [t \in Thread |-> 0]
  /\ runq    = <<Main>>
  /\ timeq   = <<>>
  /\ data    = [m \in MVar |-> NIL]
  /\ takeput = [m \in MVar |-> <<>>]
  /\ rd      = [m \in MVar |-> <<>>]
  /\ clock   = 0
  /\ exit    = "no"

Cur     == Head(runq)
Running == exit = "no" /\ runq # <<>>

(* The running thread starts primitive p, or comes back to the one it      *)
(* blocked in.                                                             *)
Executes(p, m, v) == Running /\ redex[Cur] \in {NoRedex, Pending(p, m, v)}
Starts            == Running /\ redex[Cur] = NoRedex
Completes         == redex' = [redex EXCEPT ![Cur] = NoRedex]

(* The running thread leaves runq for another queue; resched then runs the *)
(* next one.                                                               *)
Suspends(p, m, v, s) ==
  /\ redex' = [redex EXCEPT ![Cur] = Pending(p, m, v)]
  /\ state' = [state EXCEPT ![Cur] = s]
  /\ runq'  = Tail(runq)

(* Mutant: add_runq_tail that leaves mt_state alone.                       *)
KeepsStates(q) == state

(* Every thread queued in q becomes runnable, in order.                    *)
MadeRunnable(q) == [t \in Thread |-> IF InQ(q, t) THEN "runnable" ELSE state[t]]
Wakes(q)        == runq' = runq \o q /\ state' = MadeRunnable(q)

----------------------------------------------------------------------------
(* What take_mvar and read_mvar return: first the thread's stash, then the *)
(* contents, NIL when there is neither.                                    *)
Available(m) == IF mval[Cur] # NIL THEN mval[Cur] ELSE data[m]
KeepsStash   == UNCHANGED mval      \* mutant: mt_mval not cleared
DropsStash   == mval' = [mval EXCEPT ![Cur] = NIL]

(* Mutants of Taken: one waiting put is woken, the others are left; the    *)
(* value stays in the MVar.                                                *)
TakenWakesOne(m, v) ==
  /\ v = Available(m) /\ v # NIL
  /\ DropsStash
  /\ IF mval[Cur] # NIL
       THEN UNCHANGED <<data, takeput, runq, state>>
       ELSE /\ data'    = [data EXCEPT ![m] = NIL]
            /\ takeput' = [takeput EXCEPT ![m] = IF @ = <<>> THEN @ ELSE Tail(@)]
            /\ Wakes(IF takeput[m] = <<>> THEN <<>> ELSE <<Head(takeput[m])>>)
  /\ UNCHANGED <<at, timeq, rd, clock, exit>>
TakenStays(m, v) ==
  /\ v = Available(m) /\ v # NIL
  /\ DropsStash
  /\ UNCHANGED <<data, takeput, runq, state, at, timeq, rd, clock, exit>>

(* take_mvar that returns v.  From a full MVar it wakes every thread that  *)
(* waits to put; each of them will try again.                              *)
Taken(m, v) ==
  /\ v = Available(m) /\ v # NIL
  /\ DropsStash
  /\ IF mval[Cur] # NIL
       THEN UNCHANGED <<data, takeput, runq, state>>
       ELSE /\ data'    = [data EXCEPT ![m] = NIL]
            /\ takeput' = [takeput EXCEPT ![m] = <<>>]
            /\ Wakes(takeput[m])
  /\ UNCHANGED <<at, timeq, rd, clock, exit>>

TakeMVar(m, v) == Executes("take", m, NIL) /\ Completes /\ Taken(m, v)

TakeMVarBlocks(m) ==
  /\ Executes("take", m, NIL)
  /\ Available(m) = NIL
  /\ Suspends("take", m, NIL, "wait_mvar")
  /\ takeput' = [takeput EXCEPT ![m] = Append(@, Cur)]
  /\ UNCHANGED <<mval, at, timeq, data, rd, clock, exit>>

TryTakeMVar(m, v) ==
  /\ Starts
  /\ Completes
  /\ \/ Taken(m, v)
     \/ /\ v = NIL /\ Available(m) = NIL
        /\ UNCHANGED <<state, runq, mval, at, timeq, mvars, clock, exit>>

ReadMVar(m, v) ==
  /\ Executes("read", m, NIL)
  /\ v = Available(m) /\ v # NIL
  /\ Completes
  /\ DropsStash
  /\ UNCHANGED <<state, runq, at, timeq, mvars, clock, exit>>

ReadMVarBlocks(m) ==
  /\ Executes("read", m, NIL)
  /\ Available(m) = NIL
  /\ Suspends("read", m, NIL, "wait_mvar")
  /\ rd' = [rd EXCEPT ![m] = Append(@, Cur)]
  /\ UNCHANGED <<mval, at, timeq, data, takeput, clock, exit>>

TryReadMVar(m, v) ==
  /\ Starts
  /\ v = Available(m)
  /\ Completes
  /\ DropsStash
  /\ UNCHANGED <<state, runq, at, timeq, mvars, clock, exit>>

(* Mutant: put_mvar that does not look at mv_data.                         *)
StoredOver(m, v) ==
  /\ data' = [data EXCEPT ![m] = v]
  /\ UNCHANGED <<mval, takeput, runq, state, at, timeq, rd, clock, exit>>

(* put_mvar into an empty MVar.  With anybody waiting the value is handed  *)
(* to every thread of mv_takeput and is not stored; mv_read is looked at   *)
(* in the test only.                                                       *)
Stored(m, v) ==
  /\ data[m] = NIL
  /\ IF takeput[m] = <<>> /\ rd[m] = <<>>
       THEN /\ data' = [data EXCEPT ![m] = v]
            /\ UNCHANGED <<mval, takeput, runq, state>>
       ELSE /\ mval' = [t \in Thread |-> IF InQ(takeput[m], t) THEN v ELSE mval[t]]
            /\ takeput' = [takeput EXCEPT ![m] = <<>>]
            /\ Wakes(takeput[m])
            /\ UNCHANGED data
  /\ UNCHANGED <<at, timeq, rd, clock, exit>>

PutMVar(m, v) == Executes("put", m, v) /\ Completes /\ Stored(m, v)

PutMVarBlocks(m, v) ==
  /\ Executes("put", m, v)
  /\ data[m] # NIL
  /\ Suspends("put", m, v, "wait_mvar")
  /\ takeput' = [takeput EXCEPT ![m] = Append(@, Cur)]
  /\ UNCHANGED <<mval, at, timeq, data, rd, clock, exit>>

TryPutMVar(m, v, ok) ==
  /\ Starts
  /\ Completes
  /\ \/ ok /\ Stored(m, v)
     \/ /\ ~ok /\ data[m] # NIL
        /\ UNCHANGED <<state, runq, mval, at, timeq, mvars, clock, exit>>

----------------------------------------------------------------------------
(* check_timeq moves the sleepers at the front of timeq whose time has     *)
(* come, n of them, to the tail of runq.                                   *)
DueEarly(t) == at[t] <= clock + 1                 \* mutant: off by one
Due(t)  == at[t] <= clock
DueOne(n)   == n = IF timeq # <<>> /\ Due(Head(timeq)) THEN 1 ELSE 0   \* mutant: if for while
DueN(n) == /\ \A i \in 1..n : Due(timeq[i])
           /\ n < Len(timeq) => ~Due(timeq[n + 1])
WokenBy(n)    == SubSeq(timeq, 1, n)
CheckTimeq(n) ==
  /\ DueN(n)
  /\ timeq' = SubSeq(timeq, n + 1, Len(timeq))
  /\ state' = MadeRunnable(WokenBy(n))
  /\ at'    = [t \in Thread |-> IF InQ(WokenBy(n), t) THEN -1 ELSE at[t]]

(* Mutants of yield(): the thread stays in front; the sleepers are not     *)
(* looked at.                                                              *)
RotatesNot ==
  \E n \in 0..Len(timeq) :
    /\ CheckTimeq(n)
    /\ runq' = runq \o WokenBy(n)
    /\ UNCHANGED <<mval, mvars, clock, exit>>
RotatesOnly ==
  /\ runq' = Append(Tail(runq), Cur)
  /\ UNCHANGED <<state, at, timeq, mval, mvars, clock, exit>>

(* yield(): wake the sleepers that are due, then move the running thread   *)
(* to the tail (no change when it is alone).                               *)
Rotates ==
  \E n \in 0..Len(timeq) :
    /\ CheckTimeq(n)
    /\ runq' = Tail(runq \o WokenBy(n)) \o <<Cur>>
    /\ UNCHANGED <<mval, mvars, clock, exit>>
Alone == \A n \in 0..Len(timeq) : DueN(n) => Len(runq \o WokenBy(n)) = 1

(* The slice is used up or the timer interrupt has set preempt_pending.    *)
Preempt == Running /\ Rotates /\ UNCHANGED redex

(* The primitive yield.  It returns only when nobody else is runnable:     *)
(* otherwise the thread comes back to the same redex and yields again.     *)
IOYield ==
  /\ Executes("yield", NIL, NIL)
  /\ Rotates
  /\ redex' = [redex EXCEPT ![Cur] = IF Alone THEN NoRedex ELSE Pending("yield", NIL, NIL)]

(* threadDelay on its first execution: sorted insertion, in front of the   *)
(* sleepers with the same time.                                            *)
DelayBegins(usecs) ==
  /\ Executes("delay", NIL, NIL)
  /\ at[Cur] # -1
  /\ at' = [at EXCEPT ![Cur] = clock + usecs]
  /\ \E i \in 0..Len(timeq) :
       /\ \A j \in 1..i : at[timeq[j]] < clock + usecs
       /\ i < Len(timeq) => clock + usecs <= at[timeq[i + 1]]
       /\ timeq' = SubSeq(timeq, 1, i) \o <<Cur>> \o SubSeq(timeq, i + 1, Len(timeq))
  /\ Suspends("delay", NIL, NIL, "wait_time")
  /\ UNCHANGED <<mval, mvars, clock, exit>>

(* threadDelay executed again after check_timeq has marked the thread.     *)
DelayReturns ==
  /\ Executes("delay", NIL, NIL)
  /\ at[Cur] = -1
  /\ at' = [at EXCEPT ![Cur] = 0]
  /\ Completes
  /\ UNCHANGED <<state, mval, runq, timeq, mvars, clock, exit>>

----------------------------------------------------------------------------
Fork(t) ==
  /\ Starts
  /\ state[t] = "unborn"
  /\ runq'  = Append(runq, t)
  /\ state' = [state EXCEPT ![t] = "runnable"]
  /\ UNCHANGED <<redex, mval, at, timeq, mvars, clock, exit>>

(* The graph of the running thread is fully reduced, or an exception       *)
(* reached its root; the main thread ends the program either way.          *)
Ends(s, e) ==
  /\ Starts
  /\ runq'  = Tail(runq)
  /\ state' = [state EXCEPT ![Cur] = s]
  /\ exit'  = IF Cur = Main THEN e ELSE exit
  /\ UNCHANGED <<redex, mval, at, timeq, mvars, clock>>
Finish == Ends("finished", "main_done")
Die    == Ends("died", "main_died")

(* pause_exec: nobody is runnable, so wait for the first sleeper, or give  *)
(* up when there is none.                                                  *)
PauseExec ==
  /\ exit = "no" /\ runq = <<>> /\ timeq # <<>>
  /\ \E n \in 1..Len(timeq) : CheckTimeq(n) /\ runq' = WokenBy(n)
  /\ UNCHANGED <<redex, mval, mvars, clock, exit>>

Deadlock ==
  /\ exit = "no" /\ runq = <<>> /\ timeq = <<>>
  /\ exit' = "deadlock"
  /\ UNCHANGED <<state, redex, mval, at, runq, timeq, mvars, clock>>

(* The hardware timer: a 32-bit count, zero-extended by mhs_clock_get_usec.*)
Tick ==
  /\ exit = "no"
  /\ clock' = (clock + 1) % ClockMod
  /\ UNCHANGED <<state, redex, mval, at, runq, timeq, mvars, exit>>

----------------------------------------------------------------------------
TypeOK ==
  /\ state   \in [Thread -> State]
  /\ redex   \in [Thread -> Redex]
  /\ mval    \in [Thread -> Value \cup {NIL}]
  /\ at      \in [Thread -> Int]
  /\ runq    \in Seq(Thread)
  /\ timeq   \in Seq(Thread)
  /\ data    \in [MVar -> Value \cup {NIL}]
  /\ takeput \in [MVar -> Seq(Thread)]
  /\ rd      \in [MVar -> Seq(Thread)]
  /\ clock   \in 0..(ClockMod - 1)
  /\ exit    \in {"no", "main_done", "main_died", "deadlock"}

NoRepeat(q) == \A i, j \in 1..Len(q) : q[i] = q[j] => i = j

(* A thread has one link field, mt_queue, for all the queues, so it may    *)
(* stand in one queue only, once, and its mt_state must name that queue:   *)
(* thread_intr and the scheduler rely on it (eval.c 903-926, 1080-1111).   *)
OneQueue ==
  /\ NoRepeat(runq) /\ NoRepeat(timeq)
  /\ \A m \in MVar : NoRepeat(takeput[m]) /\ NoRepeat(rd[m])
  /\ \A t \in Thread :
       /\ InQ(runq, t)  <=> state[t] = "runnable"
       /\ InQ(timeq, t) <=> state[t] = "wait_time"
       /\ \A m \in MVar :
            /\ InQ(takeput[m], t) <=> /\ state[t] = "wait_mvar"
                                      /\ redex[t].prim \in {"take", "put"}
                                      /\ redex[t].mv = m
            /\ InQ(rd[m], t) <=> /\ state[t] = "wait_mvar"
                                 /\ redex[t].prim = "read"
                                 /\ redex[t].mv = m

(* mv_takeput holds the takers of an empty MVar or the putters of a full   *)
(* one, never the takers of a full one (a lost wake-up), and put_mvar may  *)
(* treat everybody it finds there as a taker (eval.c 1512, 1522).          *)
OneKindWaits ==
  \A m \in MVar, t \in Thread :
    InQ(takeput[m], t) => redex[t].prim = IF data[m] = NIL THEN "take" ELSE "put"

(* A stashed value belongs to a runnable thread about to execute again the *)
(* take it was woken from: take_mvar and read_mvar return the stash of     *)
(* whatever MVar they are called on (eval.c 1384, 1450), so a stash left   *)
(* over would surface as the contents of another MVar.                     *)
StashIsForTake ==
  \A t \in Thread : mval[t] # NIL => state[t] = "runnable" /\ redex[t].prim = "take"

(* The mark -1 in mt_at is consumed by the threadDelay that earned it      *)
(* (eval.c 1762): a mark left over would make the next delay return at     *)
(* once.  Only delays are in timeq.                                        *)
MarkIsForDelay ==
  \A t \in Thread :
    /\ at[t] = -1 => state[t] = "runnable" /\ redex[t].prim = "delay"
    /\ redex[t].prim = "delay" => at[t] = -1 \/ state[t] = "wait_time"
    /\ state[t] = "wait_time" => redex[t].prim = "delay" /\ at[t] >= 0

(* timeq is sorted, as check_timeq, which stops at the first sleeper that  *)
(* is not due, needs (eval.c 1193, "kept sorted in time order" 1566).      *)
TimeqSorted == \A i, j \in 1..Len(timeq) : i <= j => at[timeq[i]] <= at[timeq[j]]

(* The inductive invariant: who waits where, for what, and with which      *)
(* value in hand depend on each other.                                     *)
RtsInv == TypeOK /\ OneQueue /\ OneKindWaits /\ StashIsForTake /\ MarkIsForDelay

============================================================================
