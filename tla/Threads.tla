------------------------------ MODULE Threads ------------------------------
(***************************************************************************)
(* The scheduler under every client: each thread may call any primitive it *)
(* is allowed at any time.  What is proved here holds for every Haskell    *)
(* program, for it only restricts these behaviours.                        *)
(***************************************************************************)
EXTENDS Rts, FiniteSets

CONSTANTS
  May,        \* May[t]: the primitives thread t uses
  Usecs,      \* the delays asked for
  Wraps       \* FALSE: stop the clock before it wraps

ASSUME MayAssumption  == May \in [Thread -> SUBSET STRING]
ASSUME TimeAssumption == Usecs \subseteq Nat /\ Wraps \in BOOLEAN

VARIABLES
  sent,       \* the values whose put has completed; each is put once
  taken,      \* taken[v]: how many takes have returned v
  left        \* left[t]: real time until the delay of t is over

hist == <<sent, taken, left>>
vars == <<rts, hist>>

TInit ==
  /\ Init
  /\ sent  = {}
  /\ taken = [v \in Value |-> 0]
  /\ left  = [t \in Thread |-> 0]

Uses(p)     == Running /\ p \in May[Cur]
Fresh(v)    == v \notin sent /\ \A t \in Thread \ {Cur} : redex[t].arg # v
Counted(v)  == taken' = IF v = NIL THEN taken ELSE [taken EXCEPT ![v] = @ + 1]

Take(m) ==
  /\ Uses("take")
  /\ \E v \in Value : TakeMVar(m, v) /\ Counted(v)
  /\ UNCHANGED <<sent, left>>
TakeWaits(m) == Uses("take") /\ TakeMVarBlocks(m) /\ UNCHANGED hist
TryTake(m) ==
  /\ Uses("tryTake")
  /\ \E v \in Value \cup {NIL} : TryTakeMVar(m, v) /\ Counted(v)
  /\ UNCHANGED <<sent, left>>
Read(m) ==
  /\ Uses("read")
  /\ \E v \in Value : ReadMVar(m, v)
  /\ UNCHANGED hist
ReadWaits(m) == Uses("read") /\ ReadMVarBlocks(m) /\ UNCHANGED hist
TryRead(m) ==
  /\ Uses("tryRead")
  /\ \E v \in Value \cup {NIL} : TryReadMVar(m, v)
  /\ UNCHANGED hist
Put(m) ==
  /\ Uses("put")
  /\ \E v \in Value : Fresh(v) /\ PutMVar(m, v) /\ sent' = sent \cup {v}
  /\ UNCHANGED <<taken, left>>
PutWaits(m) ==
  /\ Uses("put")
  /\ \E v \in Value : Fresh(v) /\ PutMVarBlocks(m, v)
  /\ UNCHANGED hist
TryPut(m) ==
  /\ Uses("tryPut")
  /\ \E v \in Value, ok \in BOOLEAN :
       /\ Fresh(v)
       /\ TryPutMVar(m, v, ok)
       /\ sent' = IF ok THEN sent \cup {v} ELSE sent
  /\ UNCHANGED <<taken, left>>
Delay ==
  /\ Uses("delay")
  /\ \E u \in Usecs : /\ Wraps \/ clock + u < ClockMod
                      /\ DelayBegins(u)
                      /\ left' = [left EXCEPT ![Cur] = u]
  /\ UNCHANGED <<sent, taken>>
Wake      == Uses("delay") /\ DelayReturns /\ UNCHANGED hist
Yield     == Uses("yield") /\ IOYield /\ UNCHANGED hist
ForkOne   == Uses("fork") /\ (\E t \in Thread : Fork(t)) /\ UNCHANGED hist
Return    == Uses("finish") /\ Finish /\ UNCHANGED hist
Raise     == Uses("die") /\ Die /\ UNCHANGED hist
Slice     == Preempt /\ UNCHANGED hist
Pause     == PauseExec /\ UNCHANGED hist
GiveUp    == Deadlock /\ UNCHANGED hist
Time ==
  /\ Wraps \/ clock + 1 < ClockMod
  /\ Tick
  /\ left' = [t \in Thread |-> IF left[t] > 0 THEN left[t] - 1 ELSE 0]
  /\ UNCHANGED <<sent, taken>>

OnMVar(m) == \/ Take(m) \/ TakeWaits(m) \/ TryTake(m)
             \/ Read(m) \/ ReadWaits(m) \/ TryRead(m)
             \/ Put(m)  \/ PutWaits(m)  \/ TryPut(m)
Calls     == (\E m \in MVar : OnMVar(m)) \/ Delay \/ Wake \/ Yield \/ ForkOne \/ Return \/ Raise
Next      == Calls \/ Slice \/ Pause \/ GiveUp \/ Time

Spec == TInit /\ [][Next]_vars

(* The scheduler keeps going: a reduction step ends (the slice counts down *)
(* at every reduction, and the timer interrupt fires), the clock advances, *)
(* and pause_exec loops until a sleeper is due.                            *)
FairSpec == Spec /\ WF_vars(Slice) /\ WF_vars(Pause) /\ WF_vars(Time)

(* As FairSpec, and a thread that gets the processor again and again       *)
(* executes its primitive: start_exec gives it a full slice on top of the  *)
(* reductions it needs to reach the point where it left off (mt_slice).    *)
LiveSpec == FairSpec /\ \A t \in Thread : SF_vars(Running /\ Cur = t /\ Calls)

----------------------------------------------------------------------------
(* Where a value is: in an MVar, handed to a taker, or returned by a take. *)
Copies(v) == Cardinality({m \in MVar : data[m] = v}) + Cardinality({t \in Thread : mval[t] = v}) + taken[v]

(* mt_at against the real time a sleeper has left: never less (wrapped or  *)
(* not) and, on a clock that does not wrap, never more.                    *)
AtLeast == \A t \in Thread : state[t] = "wait_time" /\ left[t] > 0 => clock + left[t] <= at[t]
AtMost  == \A t \in Thread : state[t] = "wait_time" => at[t] <= clock + left[t]

(* A value put is never delivered twice: the wait queue of takes is "single*)
(* wakeup" (eval.c 931).                                                   *)
NoDuplicate == \A v \in Value : Copies(v) <= 1

(* A value put is somewhere until a take returns it (put_mvar, take_mvar). *)
NoLoss == \A v \in sent : Copies(v) >= 1

(* threadDelay never returns early: a sleeper leaves timeq only when its   *)
(* whole delay has gone by, wrapped clock or not (check_timeq).            *)
NeverEarly ==
  [][\A t \in Thread : state[t] = "wait_time" /\ state'[t] # "wait_time" => left[t] = 0]_vars

(* check_timeq looks at the front of timeq only.  Still, when it has been  *)
(* called, by yield() on a preemption or in the primitive (eval.c 1283) or *)
(* by pause_exec (1596), no sleeper whose time is over is left behind.     *)
ExpiredAreMoved ==
  [][Slice \/ Yield \/ Pause =>
       \A t \in Thread : state[t] = "wait_time" /\ left[t] = 0 => state'[t] = "runnable"]_vars

(* "The scheduler checks timeq on every context switch and moves expired   *)
(* threads back to runq" (README 179): the same of every step after which  *)
(* another thread runs.  It does not hold: a thread that blocks, sleeps or *)
(* ends goes through resched (1168), which does not look at timeq.         *)
Switches == Running /\ runq' # <<>> /\ Head(runq') # Cur
EverySwitchMoves ==
  [][Switches =>
       \A t \in Thread : state[t] = "wait_time" /\ left[t] = 0 => state'[t] = "runnable"]_vars

(* That sentence of the README, for a sleeper whose time is to come:   *)
(* check_timeq can find it expired one day only if the clock ever shows    *)
(* its wake-up time (thread_delay adds without wrapping, the timer wraps). *)
WakeTimeComes == \A t \in Thread : state[t] = "wait_time" => at[t] < ClockMod

(* Round robin: a runnable thread gets the processor, whatever the others  *)
(* do, unless the program ends.                                            *)
RunnableRuns ==
  \A t \in Thread : state[t] = "runnable" ~> (exit # "no" \/ (Running /\ Cur = t))

(* A sleeper wakes up, unless the program ends.                            *)
SleeperWakes ==
  \A t \in Thread : state[t] = "wait_time" ~> (exit # "no" \/ state[t] = "runnable")

(* A thread that yields goes on afterwards: "next time it runs,            *)
(* evali(mt_root) continues reduction from where it left off" (README 177).*)
YieldReturns ==
  \A t \in Thread : redex[t].prim = "yield" ~> (exit # "no" \/ redex[t].prim # "yield")
============================================================================
