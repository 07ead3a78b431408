---------------------------- MODULE MCDailyReport ----------------------------
(***************************************************************************)
(* A small instance of DailyReport for TLC.  The gaps between pings lie on *)
(* both sides of every threshold: 5, 20, 21 minutes and longer ones; so do *)
(* the levels: 95, 98, and 100 for a sensor that reads too much; a relay   *)
(* posts 104, and a speed below zero.                                      *)
(***************************************************************************)
EXTENDS DailyReport

\* The vehicle moves half a kilometre in the first five minutes and once more.
MCPlaceAt == [t \in Minutes |-> IF t = 0 THEN 0 ELSE IF t < 46 THEN 1 ELSE 2]

MCPingSpeeds == {-8, 0, 8}

NoMapping  == [io |-> 0, scale |-> 0, offset |-> 0]
OffByThree == [io |-> 270, scale |-> 1, offset |-> 3]

Reading(io, raw) == (io :> raw)
NoReading        == [io \in {} |-> 0]

\* Fast, slow, and of no known speed; with a level, one too high, and none.
MCRecords ==
  {[speed |-> {8}, row |-> NoMapping,  ios |-> Reading(Element, 95)],
   [speed |-> {8}, row |-> NoMapping,  ios |-> Reading(Element, 140)],
   [speed |-> {0}, row |-> OffByThree, ios |-> Reading(270, 95)],
   [speed |-> {},  row |-> NoMapping,  ios |-> NoReading]}

MCPosted == {[speed |-> {-8}, fuel |-> {104}]}
=============================================================================
