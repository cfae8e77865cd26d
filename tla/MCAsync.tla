------------------------------ MODULE MCAsync ------------------------------
(* Instances of Async for TLC.                                             *)
EXTENDS Async, TLC

CONSTANTS t1, t2, x1, x2, m1

All == {"take", "read", "put", "delay", "throw", "mask", "catch", "fork", "finish"}
ExnOf2 == t1 :> x1 @@ t2 :> x2
Anybody == [t \in Thread |-> All]

(* The first thread throws, puts and masks, the second does everything.    *)
Thrower1 == [t \in Thread |-> IF t = t1 THEN {"put", "throw", "mask", "fork"} ELSE All]
============================================================================
