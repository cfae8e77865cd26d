------------------------------ MODULE MCRadio ------------------------------
(***************************************************************************)
(* Bytes of 16 values, packets of eight, so words of 16 bits: every kind   *)
(* of message on its own, one-way and two-way traffic of short ones.       *)
(***************************************************************************)
EXTENDS Radio, Codec

MsgInt(n)     == [msg |-> "int", int |-> n]
MsgStr(s)     == [msg |-> "str", str |-> s]
MsgBytes(b)   == [msg |-> "bytes", bytes |-> b]
MsgPair(a, b) == [msg |-> "pair", fst |-> a, snd |-> b]
MsgTag(t, m)  == [msg |-> "tag", tag |-> t, of |-> m]

Plain == {MsgNone, MsgInt(0), MsgInt(-1), MsgInt(32767), MsgInt(-32768), MsgStr(<<>>), MsgStr(<<1, 0>>), MsgStr(<<17, 2>>),
          MsgStr(<<1, 2, 3, 4, 5, 6, 7>>), MsgBytes(<<0>>), MsgBytes(<<1, 2, 3, 4, 5, 6, 7>>),
          [msg |-> "word", word |-> 65535], [msg |-> "word", word |-> 258]}
Terms == Plain \cup {MsgPair(a, b) : a, b \in Plain} \cup {MsgTag(t, m) : t \in {<<>>, <<3>>, <<1, 2, 3, 4>>}, m \in Plain}
           \cup {MsgPair(MsgPair(MsgNone, a), MsgNone) : a \in Plain} \cup {MsgTag(<<1>>, MsgPair(MsgNone, a)) : a \in Plain}
Short(n) == MsgStr(<<n>>)
All      == Terms \cup {Short(1), Short(2)}

Sends(s, t, k) == [sides |-> <<s, t>>, losses |-> k]
Messages   == {Sends(<<m>>, <<>>, 0) : m \in Terms}
Exchanges  == {Sends(<<Short(1), Short(1)>>, <<>>, 4), Sends(<<MsgNone, Short(1)>>, <<>>, 2),
               Sends(<<Short(1)>>, <<Short(2)>>, 0)}
Everything == Messages \cup Exchanges
=============================================================================
