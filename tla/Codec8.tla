------------------------------- MODULE Codec8 -------------------------------
(***************************************************************************)
(* The Teltonika Codec 8 and Codec 8 Extended data fields: what a tracker  *)
(* writes and what the gateway reads (iot/codec8.go).                      *)
(*                                                                         *)
(* Bytes are numbers below Base, the code's 256.  The widths are those of  *)
(* the code where they decide how a record is walked; the header of a      *)
(* record, fields at fixed offsets, is kept as the bytes it is.            *)
(***************************************************************************)
EXTENDS Integers, SequencesExt

CONSTANTS
  Base,       \* how many values a byte has
  Codec,      \* CodecID8
  CodecE,     \* CodecID8E
  HeaderLen,  \* bytes of a record before its IO elements (24)
  Sizes,      \* sizes of IO values, in the order of their blocks (1, 2, 4, 8)
  Crc(_)      \* the checksum of a data field (crc16IBM), below Base ^ 2

ASSUME CodecAssumption ==
  /\ Base \in Nat \ {0, 1} /\ HeaderLen \in Nat
  /\ {Codec, CodecE} \subseteq 0 .. Base - 1 /\ Codec # CodecE
  /\ Sizes \in Seq(Nat \ {0})

\* Widths of a record's event id and IO total together, of an IO id, of a count.
Layout(codec) == IF codec = Codec THEN [io |-> 2, id |-> 1, count |-> 1]
                                  ELSE [io |-> 4, id |-> 2, count |-> 2]

-----------------------------------------------------------------------------
(* The tracker *)

\* A number, big-endian, in w bytes; a negative one in two's complement.
Bytes(n, w) == [i \in 1 .. w |-> (n \div Base ^ (w - i)) % Base]

\* The blocks of a record: per size, the IO elements of that size.
WrittenBlocks(L, blocks) ==
  FlattenSeq([k \in DOMAIN Sizes |->
    Bytes(Len(blocks[k]), L.count) \o
    FlattenSeq([j \in DOMAIN blocks[k] |->
      Bytes(blocks[k][j].id, L.id) \o Bytes(blocks[k][j].value, Sizes[k])])])

\* The elements of variable length, which only Codec 8 Extended has.
WrittenVars(L, vars) ==
  Bytes(Len(vars), L.count) \o
  FlattenSeq([j \in DOMAIN vars |->
    Bytes(vars[j].id, L.id) \o Bytes(Len(vars[j].payload), 2) \o vars[j].payload])

WrittenRecord(codec, rec) ==
  LET L == Layout(codec)
  IN rec.head \o Bytes(rec.event, L.io \div 2) \o Bytes(0, L.io \div 2)
       \o WrittenBlocks(L, rec.blocks)
       \o IF codec = CodecE THEN WrittenVars(L, rec.vars) ELSE <<>>

\* A data field that says it has n records, first and last.
WrittenData(codec, first, recs, last) ==
  <<codec, first>> \o FlattenSeq([i \in DOMAIN recs |-> WrittenRecord(codec, recs[i])])
                   \o <<last>>

\* What a record says: of the elements with one id, the last.
Meaning(rec) ==
  LET all  == FlattenSeq(rec.blocks)
      last == [i \in {all[j].id : j \in DOMAIN all} |->
                 CHOOSE j \in DOMAIN all :
                   all[j].id = i /\ \A n \in DOMAIN all : all[n].id = i => n <= j]
  IN [head |-> rec.head, event |-> rec.event,
      ios  |-> [i \in DOMAIN last |-> all[last[i]].value],
      vars |-> [i \in {rec.vars[j].id : j \in {n \in DOMAIN rec.vars : rec.vars[n].payload # <<>>}} |->
                  (CHOOSE e \in {rec.vars[j] : j \in DOMAIN rec.vars} : e.id = i).payload]]

-----------------------------------------------------------------------------
(* The gateway.  Where the parts of a data field b start is found first:   *)
(* a position is a number of bytes before it, one beyond the data says the *)
(* data are too short.                                                     *)

Byte == 0 .. Base - 1

\* The number in w bytes.
Field(b, cur, w) ==
  LET upto[i \in 0 .. w] == IF i = 0 THEN 0 ELSE Base * upto[i - 1] + b[cur + i]
  IN upto[w]

\* readIntBE: the value of an IO element, in two's complement.
Signed(n, w) == IF 2 * n >= Base ^ w THEN n - Base ^ w ELSE n

Beyond(b) == Len(b) + 1

\* Where the blocks of IO elements start, and after them their end.
Blocks(b, L, cur) ==
  LET next[k \in DOMAIN Sizes, c \in Nat] ==
        IF c + L.count > Len(b) THEN Beyond(b)
        ELSE c + L.count + Field(b, c, L.count) * (L.id + Sizes[k])
      at[k \in 1 .. Len(Sizes) + 1] == IF k = 1 THEN cur ELSE next[k - 1, at[k - 1]]
  IN at

\* Where n elements of variable length start, and after them their end.
Variables(b, n, cur) ==
  LET next[c \in Nat] == IF c + 4 > Len(b) THEN Beyond(b) ELSE c + 4 + Field(b, c + 2, 2)
      at[j \in 1 .. n + 1] == IF j = 1 THEN cur ELSE next[at[j - 1]]
  IN at

\* The same for the elements of the record that starts at cur.
BlocksOf(b, codec, cur) == Blocks(b, Layout(codec), cur + HeaderLen + Layout(codec).io)

VariablesOf(b, codec, cur) ==
  LET end == BlocksOf(b, codec, cur)[Len(Sizes) + 1]
  IN IF codec = Codec THEN <<end>>
     ELSE IF end + 2 > Len(b) THEN <<Beyond(b)>>
     ELSE Variables(b, Field(b, end, 2), end + 2)

\* Where n records start, and after them their end.
Records(b, n) ==
  LET next[c \in Nat] ==
        IF c > Len(b) THEN Beyond(b)
        ELSE LET at == VariablesOf(b, b[1], c) IN at[Len(at)]
      at[i \in 1 .. n + 1] == IF i = 1 THEN 2 ELSE next[at[i - 1]]
  IN at

\* Mutant of InOrder: an id that is there is not overwritten.
InOrderFirst(values) ==
  [all \in Seq([id : Nat, value : values]) |->
     [i \in {all[j].id : j \in DOMAIN all} |->
        LET has == {j \in DOMAIN all : all[j].id = i}
        IN all[CHOOSE j \in has : \A m \in has : j <= m].value]]

\* Elements enter a map in their order: of those with one id the last stays.
InOrder(values) ==
  [all \in Seq([id : Nat, value : values]) |->
     [i \in {all[j].id : j \in DOMAIN all} |->
        LET has == {j \in DOMAIN all : all[j].id = i}
        IN all[CHOOSE j \in has : \A m \in has : m <= j].value]]

Elements(b, L, at) ==
  FlattenSeq([k \in DOMAIN Sizes |->
    [j \in 1 .. Field(b, at[k], L.count) |->
      LET p == at[k] + L.count + (j - 1) * (L.id + Sizes[k])
      IN [id    |-> Field(b, p, L.id),
          value |-> Signed(Field(b, p + L.id, Sizes[k]), Sizes[k])]]])

Payloads(b, at) ==
  [j \in 1 .. Len(at) - 1 |->
    [id |-> Field(b, at[j], 2), value |-> SubSeq(b, at[j] + 5, at[j + 1])]]

\* parseRecord: the record that starts at cur; an empty payload leaves no trace.
Record(b, codec, cur) ==
  LET L == Layout(codec)
  IN [head  |-> SubSeq(b, cur + 1, cur + HeaderLen),
      event |-> Field(b, cur + HeaderLen, L.io \div 2),
      ios   |-> InOrder(Int)[Elements(b, L, BlocksOf(b, codec, cur))],
      vars  |-> InOrder(Seq(Byte))[SelectSeq(Payloads(b, VariablesOf(b, codec, cur)),
                                            LAMBDA e : e.value # <<>>)]]

Rejected == [ok |-> FALSE, recs |-> <<>>]

\* Mutant of ParseData: the trailing count is not compared.
ParseDataUncounted ==
  [body \in Seq(Byte), crc \in Nat |->
     IF \/ Crc(body) # crc \/ body[1] \notin {Codec, CodecE} \/ Len(body) = 1 THEN Rejected
     ELSE LET n   == body[2]
              end == Records(body, n)[n + 1]
          IN IF end >= Len(body) THEN Rejected
             ELSE [ok |-> TRUE,
                   recs |-> [i \in 1 .. n |-> Record(body, body[1], Records(body, n)[i])]]]

\* ReadAVLPacket, from the data field and the CRC on.  A data field of one byte has
\* no count: reading it panics, which handle recovers from as from an error.
ParseData ==
  [body \in Seq(Byte), crc \in Nat |->
     IF \/ Crc(body) # crc \/ body[1] \notin {Codec, CodecE} \/ Len(body) = 1 THEN Rejected
     ELSE LET n   == body[2]
              end == Records(body, n)[n + 1]
          IN IF end >= Len(body) \/ body[end + 1] # n THEN Rejected
             ELSE [ok |-> TRUE,
                   recs |-> [i \in 1 .. n |-> Record(body, body[1], Records(body, n)[i])]]]
=============================================================================
