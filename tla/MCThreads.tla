----------------------------- MODULE MCThreads -----------------------------
(* Instances of Threads for TLC.                                           *)
EXTENDS Threads, TLC

CONSTANTS t1, t2, t3, m1, m2

AllPrims == {"take", "tryTake", "read", "tryRead", "put", "tryPut",
             "delay", "yield", "fork", "finish", "die"}

(* Every thread does everything.                                           *)
AnyThread == [t \in Thread |-> AllPrims]

(* One thread blocks in takeMVar, the others put: the discipline under     *)
(* which no value is lost or duplicated.  All of them sleep, and the       *)
(* putters yield.                                                          *)
OneTaker == [t \in Thread |->
  IF t = t1 THEN {"take", "delay", "fork"}
            ELSE {"put", "tryPut", "tryTake", "tryRead", "delay", "yield"}]

(* Threads that poll for something and yield in between.                   *)
Yielders == [t \in Thread |-> IF t = t1 THEN {"yield", "fork"} ELSE {"yield"}]

Perms == Permutations(MVar) \cup Permutations(Value) \cup Permutations(Thread \ {Main})
============================================================================
