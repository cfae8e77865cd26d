------------------------------- MODULE Process -------------------------------
(***************************************************************************)
(* The processes of hs/Process.hs: spawn, waitProc and the supervisor,     *)
(* with the children of hs/Main.hs: the heartbeat, which reads a shared    *)
(* MVar, and the shell, which swaps it.  swapMVar is takeMVar then putMVar *)
(* (the library's), each a step of its own.                                *)
(***************************************************************************)
EXTENDS Rts

CONSTANTS
  NChild,     \* the children are 1..NChild, in the order of the list
  St,         \* St[t]: procState of the process that thread t runs
  Hb,         \* heartbeatVar
  Programs    \* what main is and what the children do

Child  == 1..NChild
Bodies == {"beat", "swap", "end", "crash"}

ASSUME ProcAssumption ==
  /\ NChild \in Nat \ {0}
  /\ St \in [Thread -> MVar \ {Hb}] /\ Hb \in MVar
  /\ \A t, u \in Thread : St[t] = St[u] => t = u
  /\ {"Running", "Done", "on", "off"} \subseteq Value
  /\ Programs \subseteq [main : {"supervisor", "waiter"},
                         policy : [Child -> {"Permanent", "Temporary"}],
                         body : [Child -> SUBSET Bodies]]

VARIABLES
  prog,       \* the program that runs
  frame,      \* where a thread is, and the child it is at (main) or runs
  handle,     \* handle[c]: the thread of the ProcHandle of child c
  cut         \* the processor has been taken from a thread inside swapMVar

vars == <<rts, prog, frame, handle, cut>>

Frame(p, c) == [pc |-> p, ch |-> c]
Me          == frame[Cur]
At(p)       == Running /\ Me.pc = p
Becomes(f)  == frame' = [frame EXCEPT ![Cur] = f]
Goes(p)     == Becomes(Frame(p, Me.ch))
Unborn      == {t \in Thread : state[t] = "unborn"}
New         == CHOOSE t \in Unborn : TRUE       \* the next process

PInit ==
  /\ Init
  /\ prog \in Programs
  /\ frame  = [t \in Thread |-> Frame(IF t = Main THEN "new_hb" ELSE "none", 1)]
  /\ handle = [c \in Child |-> NIL]
  /\ cut    = FALSE

Else == UNCHANGED <<prog, handle, cut>>

(* takeMVar, putMVar and readMVar at pc p: wait there, or go on.           *)
Takes(p, m, f) ==
  /\ At(p)
  /\ \/ TakeMVarBlocks(m) /\ UNCHANGED frame
     \/ (\E v \in Value : TakeMVar(m, v)) /\ Becomes(f)
  /\ Else
Puts(p, m, v, f) ==
  /\ At(p)
  /\ \/ PutMVarBlocks(m, v) /\ UNCHANGED frame
     \/ PutMVar(m, v) /\ Becomes(f)
  /\ Else
ReadWaits(p, m) == At(p) /\ ReadMVarBlocks(m) /\ UNCHANGED frame /\ Else
(* threadDelay; no sleep across a wrap.                                    *)
Sleeps(p, f) ==
  /\ At(p)
  /\ \/ clock + 1 < ClockMod /\ DelayBegins(1) /\ UNCHANGED frame
     \/ DelayReturns /\ Becomes(f)
  /\ Else

----------------------------------------------------------------------------
(* Main: newMVar True, then spawn the children one by one.                 *)
NewHb == Puts("new_hb", Hb, "on", Frame("spawn", 1))

(* spawn: newMVar Running, then forkIO.  After the last child main goes on *)
(* to its loop; after a restart it checks the next child.                  *)
NextChild(p, c) ==
  IF c < NChild THEN Frame(p, c + 1)
                ELSE Frame(IF prog.main = "waiter" THEN "wait" ELSE "sleep", 1)
SpawnNew ==
  /\ Unborn # {}
  /\ \/ Puts("spawn", St[New], "Running", Frame("fork", Me.ch))
     \/ Puts("respawn", St[New], "Running", Frame("refork", Me.ch))
SpawnForks ==
  /\ At("fork") \/ At("refork")
  /\ Fork(New)
  /\ handle' = [handle EXCEPT ![Me.ch] = New]
  /\ frame' = [frame EXCEPT ![New] = Frame("action", Me.ch),
                            ![Cur] = NextChild(IF Me.pc = "fork" THEN "spawn" ELSE "check", Me.ch)]
  /\ UNCHANGED <<prog, cut>>

(* monitorLoop and checkChild.                                             *)
RestartsAny(c, v) == prog.policy[c] = "Permanent"         \* mutant: whatever the state
Restarts(c, v)    == v = "Done" /\ prog.policy[c] = "Permanent"
Monitors == Sleeps("sleep", Frame("check", 1))
ChecksFirst ==          \* mutant: only the first child is checked
  /\ At("check")
  /\ \E v \in Value :
       /\ ReadMVar(St[handle[Me.ch]], v)
       /\ Becomes(IF Restarts(Me.ch, v) THEN Frame("respawn", Me.ch) ELSE Frame("sleep", 1))
  /\ Else
Checks ==
  /\ At("check")
  /\ \E v \in Value :
       /\ ReadMVar(St[handle[Me.ch]], v)
       /\ Becomes(IF Restarts(Me.ch, v) THEN Frame("respawn", Me.ch)
                                        ELSE NextChild("check", Me.ch))
  /\ Else
CheckWaits == At("check") /\ ReadWaits("check", St[handle[Me.ch]])

(* waitProc, for one child after the other.                                *)
Waits ==
  /\ At("wait")
  /\ \E v \in Value :
       /\ ReadMVar(St[handle[Me.ch]], v)
       /\ Becomes(IF v = "Running"       THEN Frame("wait_sleep", Me.ch)
                  ELSE IF Me.ch < NChild THEN Frame("wait", Me.ch + 1)
                                         ELSE Frame("over", Me.ch))
  /\ Else
WaitWaits  == At("wait") /\ ReadWaits("wait", St[handle[Me.ch]])
WaitSleeps == Sleeps("wait_sleep", Frame("wait", Me.ch))

----------------------------------------------------------------------------
(* The children.  heartbeat: readMVar, sleep, again.                       *)
May(b)   == At("action") /\ b \in prog.body[Me.ch]
Beats    == /\ May("beat")
            /\ \E v \in Value : ReadMVar(Hb, v)
            /\ Goes("nap")
            /\ Else
BeatWaits == May("beat") /\ ReadWaits("action", Hb)
Naps     == Sleeps("nap", Frame("action", Me.ch))

(* The shell command heartbeat: swapMVar.                                  *)
Begins(b, p) == May(b) /\ Starts /\ Goes(p) /\ UNCHANGED rts /\ Else
SwapBegins == Begins("swap", "hb_take")
SwapTakes  == Takes("hb_take", Hb, Frame("hb_put", Me.ch))
SwapForgets == At("hb_put") /\ Starts /\ Goes("action") /\ UNCHANGED rts /\ Else   \* mutant: no put
SwapPuts   == \E v \in {"on", "off"} : Puts("hb_put", Hb, v, Frame("action", Me.ch))

(* A child ends: by itself, and its thread swaps Done in; or in the        *)
(* reducer, silently.                                                      *)
ActionEnds == Begins("end", "done_take")
Crashes    == May("crash") /\ Die /\ Goes("over") /\ Else
DoneTakes  == Takes("done_take", St[Cur], Frame("done_put", Me.ch))
DoneForgets == At("done_put") /\ Starts /\ Goes("over") /\ UNCHANGED rts /\ Else   \* mutant: no put
DonePuts   == Puts("done_put", St[Cur], "Done", Frame("over", Me.ch))
Return     == At("over") /\ Finish /\ UNCHANGED frame /\ Else

----------------------------------------------------------------------------
InSwap == Running /\ Me.pc \in {"hb_put", "done_put"}
Slice  == /\ Preempt
          /\ cut' = (cut \/ (InSwap /\ Head(runq') # Cur))
          /\ UNCHANGED <<prog, frame, handle>>
Pause  == PauseExec /\ UNCHANGED frame /\ Else
GiveUp == Deadlock /\ UNCHANGED frame /\ Else
(* Ticks that a sleeper sees, and the one that brings the clock back.      *)
Time ==
  /\ IF timeq # <<>> THEN clock + 1 < ClockMod ELSE clock > 0
  /\ Tick
  /\ UNCHANGED frame /\ Else

Ops ==
  \/ NewHb \/ SpawnNew \/ SpawnForks
  \/ Monitors \/ Checks \/ CheckWaits \/ Waits \/ WaitWaits \/ WaitSleeps
  \/ Beats \/ BeatWaits \/ Naps \/ SwapBegins \/ SwapTakes \/ SwapPuts
  \/ ActionEnds \/ Crashes \/ DoneTakes \/ DonePuts \/ Return

Next == Ops \/ Slice \/ Pause \/ GiveUp \/ Time

Spec == PInit /\ [][Next]_vars

(* As in Threads: the scheduler and the clock go on, and a thread that     *)
(* gets the processor again and again makes progress.                      *)
LiveSpec ==
  /\ Spec
  /\ WF_vars(Slice) /\ WF_vars(Pause) /\ WF_vars(Time)
  /\ \A t \in Thread : SF_vars(Running /\ Cur = t /\ Ops)

----------------------------------------------------------------------------
Pcs == {"none", "new_hb", "spawn", "fork", "respawn", "refork", "sleep", "check", "wait",
        "wait_sleep", "action", "nap", "hb_take", "hb_put", "done_take", "done_put", "over"}

ProcTypeOK ==
  /\ TypeOK
  /\ prog \in Programs
  /\ frame \in [Thread -> [pc : Pcs, ch : Child]]
  /\ handle \in [Child -> Thread \cup {NIL}]
  /\ cut \in BOOLEAN

(* Two instances of a child never run its action at the same time: the     *)
(* supervisor restarts it only after the previous one is through, however  *)
(* its check and the child's swap of the state interleave.                 *)
Alive(t)    == state[t] \notin {"unborn", "finished", "died"}
OneInstance ==
  \A t, u \in Thread \ {Main} :
    /\ Alive(t) /\ frame[t].pc \in {"action", "nap", "hb_take", "hb_put"}
    /\ Alive(u) /\ frame[u].pc \in {"action", "nap", "hb_take", "hb_put"}
    /\ frame[t].ch = frame[u].ch
    => t = u

(* "readMVar is nondestructive, so the shell can swapMVar without          *)
(* contention" (Main.hs 90): nobody ever waits for a shared MVar, as long  *)
(* as no switch falls between the take and the put of a swapMVar.          *)
NoContention == ~cut => \A t \in Thread : state[t] # "wait_mvar"

(* A process that has ended by itself.                                     *)
Ended(t)    == t # Main /\ state[t] = "finished"
Replaced(t) == handle[frame[t].ch] # t
Seen(t) ==
  IF prog.main = "waiter"
    THEN frame[Main].pc = "over" \/ frame[Main].ch > frame[t].ch
    ELSE prog.policy[frame[t].ch] = "Temporary" \/ Replaced(t) \/ Unborn = {}
Stopped == exit \in {"main_done", "main_died"}

(* waitProc returns and the supervisor restarts a Permanent child, once    *)
(* the child has ended by itself, unless a switch has hit a swapMVar.      *)
EndIsSeen == \A t \in Thread : Ended(t) ~> (Seen(t) \/ Stopped \/ cut)

(* The heartbeat goes on, whatever the shell does and whoever ends, unless *)
(* a switch has hit a swapMVar.                                            *)
HeartBeats ==
  \A t \in Thread :
    (frame[t].pc = "action" /\ prog.body[frame[t].ch] = {"beat"})
      ~> (frame[t].pc = "nap" \/ Stopped \/ cut)

(* "Permanent -- Always restart on exit" (Process.hs 143), "Wait for a     *)
(* process to complete" (Process.hs 128), wherever the switches fall.      *)
AlwaysRestarts == \A t \in Thread : Ended(t) ~> (Seen(t) \/ Stopped)
============================================================================
