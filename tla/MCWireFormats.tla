--------------------------- MODULE MCWireFormats ---------------------------
(***************************************************************************)
(* Sessions of WireFormats for TLC, with bytes of four bits.  Records have *)
(* two bytes of header and IO values of one and two bytes, some negative,  *)
(* some under an id that comes twice; a session per way a packet or a      *)
(* frame can be damaged.                                                   *)
(***************************************************************************)
EXTENDS WireFormats, TLC

MCSizes == <<1, 2>>

\* A stand-in for CRC-16/IBM: it tells apart data fields that differ in one byte or in
\* the order of two.
MCCrc(data) ==
  FoldLeft(LAMBDA crc, byte : (3 * crc + byte) % (Base ^ 2), 1, data)

IO(id, value) == [id |-> id, value |-> value]
Var(id, payload) == [id |-> id, payload |-> payload]

\* Nothing but the header; values of both sizes, the last one of id 1 negative; the
\* variable elements of Codec 8 Extended, one of them empty.
Bare == [head |-> <<1, 2>>, event |-> 0, blocks |-> <<<<>>, <<>>>>, vars |-> <<>>]
Full == [head |-> <<3, 15>>, event |-> 1, vars |-> <<>>,
         blocks |-> <<<<IO(1, 7), IO(2, -3)>>, <<IO(1, -100)>>>>]
Wide == [head |-> <<0, 4>>, event |-> 17, vars |-> <<Var(18, <<5, 0>>), Var(3, <<>>)>>,
         blocks |-> <<<<IO(16, -8)>>, <<>>>>]

Packet(codec, recs) ==
  [codec |-> codec, recs |-> recs, first |-> Len(recs), last |-> Len(recs),
   preamble |-> 0, length |-> 0, crc |-> 0, cut |-> 0]

Two  == Packet(Codec, <<Bare, Full>>)
One  == Packet(Codec, <<Full>>)
None == Packet(Codec, <<>>)
Ext  == Packet(CodecE, <<Wide>>)

IMEI == <<3, 5>>

Teltonika(imei, packets) == [protocol |-> "codec8", imei |-> imei, packets |-> packets]

\* A damaged packet comes between two good ones.
Damaged == <<
  [One EXCEPT !.preamble = 1],
  [One EXCEPT !.length = MaxData],
  [None EXCEPT !.cut = 3],
  [One EXCEPT !.crc = 1],
  [One EXCEPT !.codec = 12],
  [One EXCEPT !.first = 2, !.last = 2],
  [One EXCEPT !.last = 2],
  [One EXCEPT !.cut = 1],
  [None EXCEPT !.cut = 1],
  [None EXCEPT !.cut = 2],
  [Ext EXCEPT !.cut = 4]>>

Frame(noise, text, ends) == [noise |-> noise, text |-> text, ends |-> ends]
Good(x) == Frame(<<>>, <<Header, x>>, TRUE)

HQ(frames) == [protocol |-> "hq", frames |-> frames]

MCSessions ==
  <<Teltonika(IMEI, <<Two, Ext>>), Teltonika(IMEI, <<None, One>>),
   Teltonika(<<>>, <<>>), Teltonika(<<1, 2, 3, 4>>, <<>>)>>
  \o [i \in DOMAIN Damaged |-> Teltonika(IMEI, <<One, Damaged[i], None>>)]
  \o <<HQ(<<Good("a"), Good("b"), Good("a")>>),
        HQ(<<Good("a"), Frame(<<"LF", "LF">>, <<Header, "b">>, TRUE), Good("c")>>),
        HQ(<<Frame(<<"x">>, <<Header, "a">>, TRUE), Good("b")>>),
        HQ(<<Frame(<<>>, <<"x">>, TRUE), Frame(<<>>, <<>>, TRUE), Good("b")>>),
        HQ(<<Good("a"), Frame(<<"LF", "LF">>, <<Header, "b", "c">>, TRUE), Good("b")>>),
        HQ(<<Good("a"), Frame(<<"LF", "LF", "LF">>, <<Header, "b", "c">>, TRUE), Good("b")>>),
        HQ(<<Good("a"), Frame(<<"LF", "LF", "LF">>, <<Header, "b", "c">>, FALSE)>>),
        HQ(<<Good("a"), Frame(<<>>, <<Header, "b">>, FALSE)>>)>>
=============================================================================
