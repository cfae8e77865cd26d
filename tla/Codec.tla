-------------------------------- MODULE Codec --------------------------------
(***************************************************************************)
(* encode and decode of hs/NetChan.hs: a Msg as the bytes of one packet,   *)
(* a tag byte first, lengths before what has one.                          *)
(***************************************************************************)
EXTENDS Integers, SequencesExt

CONSTANTS
  Base,       \* values of a byte: 256 in the code
  MaxStr,     \* take 30
  MaxTag,     \* take 10
  PktSize     \* nrfPayloadSize

ASSUME CodecAssumption ==
  /\ Base \in Nat /\ Base > 6 /\ PktSize \in Nat \ {0}
  /\ MaxStr \in 0..Base - 1 /\ MaxTag \in 0..MaxStr

Word    == Base ^ 4                  \* of a Word32, and of an Int of the Pi
MsgNone    == [msg |-> "none"]          \* MsgNone
Nothing == [msg |-> "nothing"]       \* decode's Nothing

Keep(n, s)   == SubSeq(s, 1, IF n < Len(s) THEN n ELSE Len(s))      \* take n s
Chars(n, s)  == [i \in 1..Len(Keep(n, s)) |-> s[i] % Base]          \* fromIntegral . ord
EncWord32(w) == [i \in 1..4 |-> (w \div Base ^ (i - 1)) % Base]
DecWord32(b) == b[1] + b[2] * Base + b[3] * Base ^ 2 + b[4] * Base ^ 3
Signed(w)    == IF w >= Word \div 2 THEN w - Word ELSE w            \* Word32 to Int
Sized(t, s)  == <<t, Len(s) % Base>> \o s

RECURSIVE Encode(_)
Encode(m) ==
  CASE m.msg = "none"  -> <<0>>
    [] m.msg = "int"   -> <<1>> \o EncWord32(m.int % Word)
    [] m.msg = "str"   -> Sized(2, Chars(MaxStr, m.str))
    [] m.msg = "word"  -> <<3>> \o EncWord32(m.word)
    [] m.msg = "bytes" -> Sized(4, Keep(MaxStr, m.bytes))
    [] m.msg = "pair"  -> Sized(5, Encode(m.fst)) \o Encode(m.snd)
    [] m.msg = "tag"   -> Sized(6, Chars(MaxTag, m.tag)) \o Encode(m.of)

RECURSIVE Decode(_)
Decode(b) ==
  IF b = <<>> THEN Nothing ELSE
  LET words == Len(b) >= 5
      sized == Len(b) >= 2 /\ Len(b) - 2 >= b[2]
      one   == SubSeq(b, 3, b[2] + 2)
      two   == SubSeq(b, b[2] + 3, Len(b))
      word  == DecWord32(Tail(b))
  IN CASE b[1] = 0 -> MsgNone
       [] b[1] = 1 /\ words -> [msg |-> "int", int |-> Signed(word)]
       [] b[1] = 2 /\ sized -> [msg |-> "str", str |-> one]
       [] b[1] = 3 /\ words -> [msg |-> "word", word |-> word]
       [] b[1] = 4 /\ sized -> [msg |-> "bytes", bytes |-> one]
       [] b[1] = 5 /\ sized /\ Decode(one) # Nothing /\ Decode(two) # Nothing
            -> [msg |-> "pair", fst |-> Decode(one), snd |-> Decode(two)]
       [] b[1] = 6 /\ sized /\ Decode(two) # Nothing
            -> [msg |-> "tag", tag |-> one, of |-> Decode(two)]
       [] OTHER -> Nothing

(* What sendThread puts into a packet: cut to its size, or filled up.      *)
Zeros     == [i \in 1..PktSize |-> 0]
Packet(m) == Keep(PktSize, Encode(m) \o Zeros)

(* What a message means: strings cut to 30 characters of eight bits, tags  *)
(* to 10 (the comments at NetChan.hs 31-38).                               *)
RECURSIVE Meant(_)
Meant(m) ==
  CASE m.msg = "str"   -> [m EXCEPT !.str = Chars(MaxStr, @)]
    [] m.msg = "bytes" -> [m EXCEPT !.bytes = Keep(MaxStr, @)]
    [] m.msg = "pair"  -> [m EXCEPT !.fst = Meant(@), !.snd = Meant(@)]
    [] m.msg = "tag"   -> [m EXCEPT !.tag = Chars(MaxTag, @), !.of = Meant(@)]
    [] OTHER -> m
Fits(m) == Len(Encode(m)) <= PktSize
=============================================================================
