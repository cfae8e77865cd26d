------------------------------ MODULE MCProcess ------------------------------
(* Instances of Process for TLC: two children, four threads.               *)
EXTENDS Process, TLC

CONSTANTS t1, t2, t3, t4, hb, s2, s3, s4, s1

States == (t1 :> s1) @@ (t2 :> s2) @@ (t3 :> s3) @@ (t4 :> s4)
MVars  == {hb, s1, s2, s3, s4}
Values == {"Running", "Done", "on", "off"}

Program(m, p, b) == [main |-> m, policy |-> p, body |-> b]
Both(p)  == [c \in Child |-> p]
Shell    == {"swap", "end", "crash"}

(* The system of Main.hs; a supervisor with a Temporary child; a main that *)
(* waits for two processes, as the tests do.                               *)
Systems ==
  { Program("supervisor", Both("Permanent"), <<{"beat"}, Shell>>),
    Program("supervisor", <<"Permanent", "Temporary">>, <<{"end"}, {"end", "crash"}>>),
    Program("waiter", Both("Temporary"), <<{"end"}, {"swap", "end"}>>) }

(* The system of Main.hs with a shell that ends.                           *)
MainSystem == { Program("supervisor", Both("Permanent"), <<{"beat"}, {"swap", "end"}>>) }
============================================================================
