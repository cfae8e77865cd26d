------------------------------ MODULE MCFat32 ------------------------------
(* Instances of Fat32 for TLC.                                             *)
EXTENDS Fat32

(* Nothing, one cluster, two and three, all told apart.                    *)
Contents == {<<>>, <<"x">>, <<"y", "x">>, <<"x", "y", "y">>}
============================================================================
