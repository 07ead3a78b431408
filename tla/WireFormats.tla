---------------------------- MODULE WireFormats ----------------------------
(***************************************************************************)
(* How the two TCP gateways cut a tracker's byte stream into messages:     *)
(* ReadHandshake and ReadAVLPacket of iot/codec8.go for the Teltonika port *)
(* and ScanHQFrames under a bufio.Scanner of iot/hq.go for the HQ port.    *)
(*                                                                         *)
(* TCP hands the stream over in pieces of any size, so a read ends in the  *)
(* middle of a length, of a record or of a frame.  The connection may be   *)
(* closed anywhere and its read deadline may pass.  What is handed on must *)
(* depend on the bytes alone.                                              *)
(***************************************************************************)
EXTENDS Codec8

CONSTANTS
  Sessions,  \* what a tracker may send over one connection, a sequence of alternatives
  MaxIMEI,   \* longest IMEI of a handshake (64)
  MaxData,   \* longest data field of a packet (1 << 20)
  MaxFrame,  \* maxHQFrame (1024)
  Header,    \* the text "HQ," at the start of a frame
  Star, Hash, \* the bytes that open and close a frame
  Blanks     \* the bytes strings.TrimSpace drops

ASSUME WireAssumption ==
  /\ {MaxIMEI, MaxData, MaxFrame} \subseteq Nat \ {0}
  /\ MaxIMEI < Base ^ 2 /\ MaxData < Base ^ 4
  /\ Star # Hash /\ {Star, Hash, Header} \cap Blanks = {}
  /\ Header \notin {Star, Hash}

-----------------------------------------------------------------------------
(* The tracker.  A unit is what it sends at one go: the IMEI, a packet, a  *)
(* frame.  A unit has its bytes, what it says and whether it makes the     *)
(* gateway hang up.                                                        *)

Unit(bytes, says, fatal) == [bytes |-> bytes, says |-> says, fatal |-> fatal]

IMEIUnit(imei) ==
  LET bad == Len(imei) \notin 1 .. MaxIMEI
  IN Unit(Bytes(Len(imei), 2) \o imei, IF bad THEN <<>> ELSE <<[imei |-> imei]>>, bad)

\* A packet as the tracker means it, but for its faults: a preamble, counts that are
\* not the number of records, bytes lost off the end of the data field before its CRC
\* was computed, a length or a CRC that is off.
PacketUnit(p) ==
  LET all   == WrittenData(p.codec, p.first, p.recs, p.last)
      data  == SubSeq(all, 1, Len(all) - p.cut)
      sound == /\ p.preamble = 0 /\ p.codec \in {Codec, CodecE}
               /\ p.first = Len(p.recs) /\ p.last = Len(p.recs)
               /\ p.cut = 0 /\ p.length = 0 /\ p.crc = 0
               /\ Len(data) <= MaxData
  IN Unit(Bytes(p.preamble, 4) \o Bytes(Len(data) + p.length, 4) \o data
            \o Bytes(Crc(data) + p.crc, 4),
          IF sound THEN <<[records |-> [i \in DOMAIN p.recs |-> Meaning(p.recs[i])]]>> ELSE <<>>,
          ~sound)

\* A frame: bytes before its star, its text, and its end unless that was lost.
FrameUnit(f) ==
  LET body == f.noise \o <<Star>> \o f.text
  IN Unit(body \o (IF f.ends THEN <<Hash>> ELSE <<>>),
          IF f.ends /\ ToSet(f.noise) \subseteq Blanks /\ f.text # <<>> /\ f.text[1] = Header
            THEN <<[frame |-> f.text]>> ELSE <<>>,
          Len(body) > MaxFrame)

Units(s) == IF s.protocol = "hq" THEN [i \in DOMAIN s.frames |-> FrameUnit(s.frames[i])]
            ELSE <<IMEIUnit(s.imei)>> \o [i \in DOMAIN s.packets |-> PacketUnit(s.packets[i])]

Sent == [s \in DOMAIN Sessions |-> Units(Sessions[s])]

Stream == [s \in DOMAIN Sessions |-> FlattenSeq([i \in DOMAIN Sent[s] |-> Sent[s][i].bytes])]

\* How many bytes the first n units of a session have.
Upto == [s \in DOMAIN Sessions |-> [n \in 0 .. Len(Sent[s]) |->
              FoldLeft(LAMBDA sum, u : sum + Len(u.bytes), 0, SubSeq(Sent[s], 1, n))]]

\* How many units were sent whole among the first n bytes, before a fatal one.
SoundUnits(s, n) ==
  CHOOSE k \in 0 .. Len(Sent[s]) :
    /\ Upto[s][k] <= n /\ \A i \in 1 .. k : ~Sent[s][i].fatal
    /\ k < Len(Sent[s]) => Sent[s][k + 1].fatal \/ Upto[s][k + 1] > n

\* What the first n bytes of a session say.
Said == [s \in DOMAIN Sessions |-> [n \in 0 .. Len(Stream[s]) |->
          FlattenSeq([i \in 1 .. SoundUnits(s, n) |-> Sent[s][i].says])]]

\* Among the first n bytes is a whole unit the gateway must hang up on.
Spoilt(s, n) == \E k \in DOMAIN Sent[s] : Sent[s][k].fatal /\ Upto[s][k] <= n

-----------------------------------------------------------------------------
(* The gateway *)

VARIABLES
  session,   \* the session the tracker has
  arrived,   \* bytes that reached the gateway
  consumed,  \* bytes the gateway has read
  stage,     \* what it reads next, or how the connection ended
  size,      \* length of the IMEI or of the data field it reads next
  taken      \* the messages it handed on

vars == <<session, arrived, consumed, stage, size, taken>>

Stages == {"imei length", "imei", "head", "body", "frames", "failed", "ended"}

Messages(s) == UNION {ToSet(Sent[s][i].says) : i \in DOMAIN Sent[s]}

\* A data field is never longer than what ReadAVLPacket allocates for it, and no more
\* is read than what arrived.
TypeOK ==
  /\ session \in DOMAIN Sessions /\ stage \in Stages
  /\ arrived \in 0 .. Len(Stream[session]) /\ consumed \in 0 .. arrived
  /\ size \in 0 .. MaxData
  /\ taken \in Seq(Messages(session))

Init ==
  /\ session \in DOMAIN Sessions
  /\ arrived = 0 /\ consumed = 0
  /\ stage = (IF Sessions[session].protocol = "hq" THEN "frames" ELSE "imei length")
  /\ size = 0 /\ taken = <<>>

Running == stage \notin {"failed", "ended"}

\* A byte more arrives; several at once are several steps of this in a row.
Arrive ==
  /\ Running /\ arrived < Len(Stream[session])
  /\ arrived' = arrived + 1
  /\ UNCHANGED <<session, consumed, stage, size, taken>>

Unread(n) == SubSeq(Stream[session], consumed + 1, consumed + n)

\* io.ReadFull of n bytes.
ReadFull(n) ==
  /\ arrived - consumed >= n
  /\ consumed' = consumed + n
  /\ UNCHANGED <<session, arrived>>

\* ReadHandshake: the length of the IMEI.
ReadIMEILength ==
  /\ stage = "imei length"
  /\ ReadFull(2)
  /\ LET n == Field(Unread(2), 0, 2)
     IN IF n \in 1 .. MaxIMEI THEN stage' = "imei" /\ size' = n
                              ELSE stage' = "failed" /\ UNCHANGED size
  /\ UNCHANGED taken

\* ReadHandshake: the IMEI, of a device that is known.
ReadIMEI ==
  /\ stage = "imei"
  /\ ReadFull(size)
  /\ taken' = Append(taken, [imei |-> Unread(size)])
  /\ stage' = "head" /\ size' = 0

\* Mutant of ReadHead: any length is believed.
ReadHeadUnchecked ==
  /\ stage = "head"
  /\ ReadFull(8)
  /\ LET preamble == Field(Unread(8), 0, 4)
         length   == Field(Unread(8), 4, 4)
     IN IF preamble = 0 THEN stage' = "body" /\ size' = length
                        ELSE stage' = "failed" /\ UNCHANGED size
  /\ UNCHANGED taken

\* ReadAVLPacket: preamble and length of the data field.
ReadHead ==
  /\ stage = "head"
  /\ ReadFull(8)
  /\ LET preamble == Field(Unread(8), 0, 4)
         length   == Field(Unread(8), 4, 4)
     IN IF preamble = 0 /\ length \in 1 .. MaxData
          THEN stage' = "body" /\ size' = length
          ELSE stage' = "failed" /\ UNCHANGED size
  /\ UNCHANGED taken

\* ReadAVLPacket: data field and CRC, of which the lower half counts.
ReadBody ==
  /\ stage = "body"
  /\ ReadFull(size + 4)
  /\ LET body   == Unread(size)
         packet == ParseData[body, Field(Unread(size + 4), size + 2, 2)]
     IN IF packet.ok
          THEN /\ stage' = "head"
               /\ taken' = Append(taken, [records |-> packet.recs])
          ELSE stage' = "failed" /\ UNCHANGED taken
  /\ size' = 0

-----------------------------------------------------------------------------
(* The HQ port: bufio.Scanner over a buffer of MaxFrame + 1 bytes. *)

Buffered == SubSeq(Stream[session], consumed + 1,
                   IF arrived - consumed > MaxFrame THEN consumed + MaxFrame + 1 ELSE arrived)

\* Mutant of Ends: the last byte is not looked at.
EndsButLast == {i \in DOMAIN Buffered : Buffered[i] = Hash /\ i < Len(Buffered)}

\* indexByte: where a frame ends.
Ends == {i \in DOMAIN Buffered : Buffered[i] = Hash}

\* strings.TrimSpace and strings.Trim: the text without blanks, stars and hashes at
\* either end.
Trimmed(token) ==
  LET kept == {i \in DOMAIN token : token[i] \notin Blanks \cup {Star, Hash}}
  IN IF kept = {} THEN <<>>
     ELSE SubSeq(token, CHOOSE i \in kept : \A j \in kept : i <= j,
                        CHOOSE i \in kept : \A j \in kept : j <= i)

\* ParseHQFrame, as far as it tells frames from noise.
ParseFrame(token) ==
  LET body == Trimmed(token)
  IN IF body # <<>> /\ body[1] = Header THEN <<[frame |-> body]>> ELSE <<>>

\* A hash ends a token: ScanHQFrames yields it, and what does not parse is dropped.
ScanFrame ==
  /\ stage = "frames" /\ Ends # {}
  /\ LET n == CHOOSE i \in Ends : \A j \in Ends : i <= j
     IN /\ consumed' = consumed + n
        /\ taken' = taken \o ParseFrame(Unread(n))
  /\ UNCHANGED <<session, arrived, stage, size>>

\* Mutant of TooLong: the hash is looked for after the length.
TooLongEarly ==
  /\ stage = "frames" /\ Len(Buffered) >= MaxFrame
  /\ stage' = "failed"
  /\ UNCHANGED <<session, arrived, consumed, size, taken>>

\* The buffer is full and has no hash: ErrHQFrameTooLong.
TooLong ==
  /\ stage = "frames" /\ Ends = {} /\ Len(Buffered) > MaxFrame
  /\ stage' = "failed"
  /\ UNCHANGED <<session, arrived, consumed, size, taken>>

-----------------------------------------------------------------------------

\* Either loop needs more bytes and waits for them in a read of the connection.
Waits ==
  \/ stage = "imei length" /\ arrived - consumed < 2
  \/ stage = "imei" /\ arrived - consumed < size
  \/ stage = "head" /\ arrived - consumed < 8
  \/ stage = "body" /\ arrived - consumed < size + 4
  \/ stage = "frames" /\ Ends = {} /\ Len(Buffered) <= MaxFrame

\* The read fails, for the tracker closed or the deadline passed: io.ReadFull has too
\* few bytes, the scanner drops what has no hash.
ReadError ==
  /\ Waits
  /\ stage' = "ended"
  /\ UNCHANGED <<session, arrived, consumed, size, taken>>

\* A connection that is over stays so.
Over == ~Running /\ UNCHANGED vars

Next ==
  \/ Arrive
  \/ ReadIMEILength \/ ReadIMEI \/ ReadHead \/ ReadBody
  \/ ScanFrame \/ TooLong
  \/ ReadError \/ Over

Spec == Init /\ [][Next]_vars

-----------------------------------------------------------------------------
(* Properties *)

\* However the stream is cut, the messages handed on are those the tracker sent, whole,
\* unaltered and in their order: none of a packet that is damaged in any of its parts,
\* and nothing that follows it.  A connection that is over has handed on all that
\* arrived before that, and it was broken off by a damaged packet only.
HandedOnIsSent ==
  /\ IsPrefix(taken, Said[session][arrived])
  /\ ~Running => taken = Said[session][arrived]
  /\ stage = "failed" => \E k \in DOMAIN Sent[session] :
       Sent[session][k].fatal /\ Upto[session][k - 1] < arrived

\* A loop that waits for bytes has handed on all that arrived whole: no message is held
\* back until the next one comes, and a damaged packet or an endless frame that is there
\* has broken the connection off.
NothingIsHeldBack ==
  Waits => taken = Said[session][arrived] /\ ~Spoilt(session, arrived)
=============================================================================
