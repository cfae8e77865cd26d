------------------------------- MODULE MCChan -------------------------------
(* Instances of Chan for TLC: two channels, MVars named by hand.           *)
EXTENDS Chan, TLC

CONSTANTS t1, t2, t3, t4, r1, r2, w1, w2

RdEnds == <<r1, r2>>
WrEnds == <<w1, w2>>
MVars  == Hole \cup {r1, r2, w1, w2}
Values == Hole \cup [val : Thread \X (1..MaxSends), next : Hole]

(* The disciplines under which a channel works: one reader that receives   *)
(* and polls with two writers; a selector of both channels; two readers.   *)
Disciplines ==
  { (t1 :> {<<"recv", 1>>, <<"tryRecv", 1>>}) @@ (t2 :> {<<"send", 1>>}) @@ (t3 :> {<<"send", 1>>}),
    (t1 :> {<<"select", 1>>}) @@ (t2 :> {<<"send", 1>>, <<"send", 2>>}) @@ (t3 :> {<<"send", 2>>}),
    (t1 :> {<<"recv", 1>>}) @@ (t2 :> {<<"recv", 1>>}) @@ (t3 :> {<<"send", 1>>}) }

(* Three writers.                                                          *)
ThreeSenders ==
  { (t1 :> {<<"recv", 1>>}) @@ (t2 :> {<<"send", 1>>}) @@ (t3 :> {<<"send", 1>>}) @@ (t4 :> {<<"send", 1>>}) }
============================================================================
