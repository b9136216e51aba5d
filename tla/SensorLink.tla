----------------------------- MODULE SensorLink -----------------------------
(***************************************************************************)
(* readThread_U1 and parsing_data of Serial.py byte by byte: the stream of *)
(* frames the sensors send over the serial line, the framer that cuts it   *)
(* into lines, and the parser that turns a line into a reading, on top of  *)
(* Collector's rounds.  A frame is                                         *)
(*                                                                         *)
(*    44 00 05 30 <sensor> <hi> <lo> <checksum> 43                         *)
(*                                                                         *)
(* and no byte in it is escaped.  A line is the bytes after a 44, up to    *)
(* and including a 43.                                                     *)
(***************************************************************************)
EXTENDS Collector

CONSTANTS Frames,     \* the frames [sensor, hi, lo] the sensors may send
          Heads,      \* what may be on the wire when the reader starts
          MaxFrames   \* bound: the number of frames sent

Byte == 0 .. 255

STX == 68        \* 0x44
ETX == 67        \* 0x43
Opcode == 48     \* 0x30

\* A sensor's number (0, 1 or 2) is neither of the bytes that mark a frame.
ASSUME SensorBytesAssumption == Sensors \subseteq Byte \ {STX, ETX}
ASSUME FramesAssumption == Frames \subseteq [sensor : Sensors, hi : Byte, lo : Byte]
ASSUME MaxFramesAssumption == MaxFrames \in Nat /\ MaxFrames <= MaxRows

VARIABLES
  wire,     \* the bytes sent and not read yet
  line,     \* the global "line"
  stxFlag,  \* readThread_U1's stxFlag
  sent,     \* history: the frames sent
  startedClean  \* history: nothing was on the wire at the start

linkVars == <<vars, wire, line, stxFlag, sent, startedClean>>
-----------------------------------------------------------------------------
\* The checksum the sensors put in: the sum of opcode, sensor and value.
Checksum(f) == (Opcode + f.sensor + f.hi + f.lo) % 256

Bytes(f) == <<STX, 0, 5, Opcode, f.sensor, f.hi, f.lo, Checksum(f), ETX>>

\* The reader starts between two frames or while one is being sent.
ASSUME HeadsAssumption ==
  Heads \subseteq {SubSeq(Bytes(f), k, 9) : f \in Frames, k \in 2 .. 10}

\* Collector's readings are what the frames carry, and what a line cut after
\* the high byte 43 leaves behind.
ASSUME LinkValuesAssumption ==
  {100 * f.hi + f.lo : f \in Frames} \cup {100 * ETX} \subseteq Values

\* Mutant: the two bytes of a value make a 16-bit number.
Decoded_Base256(hi, lo) == 256 * hi + lo

\* valueT1 = d4 * 100; valueT1 += d5
Decoded(hi, lo) == 100 * hi + lo

\* Whatever bytes arrive, what is decoded from them is a reading the sensors
\* can send, and the line holds bytes.
LinkTypeOK ==
  /\ TypeOK
  /\ wire \in Seq(Byte)
  /\ line \in Seq(Byte)
  /\ stxFlag \in BOOLEAN
  /\ sent \in Seq(Frames)
  /\ startedClean \in BOOLEAN

LinkInit ==
  /\ Init
  /\ wire \in Heads
  /\ line = <<>>
  /\ stxFlag = FALSE
  /\ sent = <<>>
  /\ startedClean = (wire = <<>>)
-----------------------------------------------------------------------------
\* A sensor sends a frame.  The wire is a queue read byte by byte, so a
\* second frame behind the first would be read no differently.
Transmit(f) ==
  /\ wire = <<>>
  /\ Len(sent) < MaxFrames
  /\ Len(data) < MaxRows
  /\ wire' = Bytes(f)
  /\ sent' = Append(sent, f)
  /\ UNCHANGED <<vars, line, stxFlag, startedClean>>

\* A line too short for data[1], data[2]: an IndexError, which the thread
\* does not catch.
TooShort(l) ==
  /\ Len(l) < 3
  /\ pc' = "diedParsing"
  /\ UNCHANGED <<roundVars, data, ser1, nCount>>

\* Another opcode, or a sensor there is no variable for: nothing happens.
\* (With the opcode there is always a data[3], since the line ends with 43.)
NotAReading(l) ==
  /\ Len(l) >= 3
  /\ l[3] = Opcode => l[4] \notin Sensors
  /\ UNCHANGED vars

\* Mutant: the exception is caught and the loop goes on.
Truncated_Caught(l) ==
  /\ Len(l) = 5
  /\ l[3] = Opcode /\ l[4] \in Sensors
  /\ ~setFlag[l[4]]
  /\ setFlag' = [setFlag EXCEPT ![l[4]] = TRUE]
  /\ timeoutEnableFlag' = TRUE
  /\ value' = [value EXCEPT ![l[4]] = Decoded(l[5], 0)]
  /\ UNCHANGED <<TimeoutCnt, data, ser1, pc, nCount>>

\* The flag is raised, data[4] is taken and data[5] is not there.
Truncated(l) ==
  /\ Len(l) = 5
  /\ l[3] = Opcode /\ l[4] \in Sensors
  /\ ~setFlag[l[4]]
  /\ setFlag' = [setFlag EXCEPT ![l[4]] = TRUE]
  /\ timeoutEnableFlag' = TRUE
  /\ value' = [value EXCEPT ![l[4]] = Decoded(l[5], 0)]
  /\ pc' = "diedParsing"
  /\ UNCHANGED <<TimeoutCnt, data, ser1, nCount>>

\* Mutant: the value is taken one byte too far.
Reading_Shifted(l) ==
  /\ Len(l) >= 5
  /\ l[3] = Opcode /\ l[4] \in Sensors
  /\ \/ Len(l) >= 7 /\ FirstReading(l[4], Decoded(l[6], l[7]))
     \/ RepeatedReading(l[4])

\* A reading, and all of it.
Reading(l) ==
  /\ Len(l) >= 5
  /\ l[3] = Opcode /\ l[4] \in Sensors
  /\ \/ Len(l) >= 6 /\ FirstReading(l[4], Decoded(l[5], l[6]))
     \/ RepeatedReading(l[4])

\* parsing_data(line): neither the length byte nor the checksum is looked at.
Parse(l) ==
  \/ TooShort(l)
  \/ NotAReading(l)
  \/ Truncated(l)
  \/ Reading(l)

\* Mutant: the line is not cleared at the start of a frame.
ReadByte_LineKept ==
  /\ pc = "idle"
  /\ wire # <<>>
  /\ wire' = Tail(wire)
  /\ stxFlag' = (stxFlag \/ Head(wire) = STX)
  /\ line' = IF stxFlag THEN Append(line, Head(wire)) ELSE line
  /\ IF Head(wire) = ETX THEN Parse(line') ELSE UNCHANGED vars
  /\ UNCHANGED <<sent, startedClean>>

\* One byte goes through the framer: kept if a frame has begun, emptying the
\* line if it is a 44, handing the line to the parser if it is a 43.
ReadByte ==
  /\ pc = "idle"
  /\ wire # <<>>
  /\ wire' = Tail(wire)
  /\ stxFlag' = (stxFlag \/ Head(wire) = STX)
  /\ line' = CASE Head(wire) = STX -> <<>>
               [] Head(wire) # STX /\ stxFlag -> Append(line, Head(wire))
               [] OTHER -> line
  /\ IF Head(wire) = ETX THEN Parse(line') ELSE UNCHANGED vars
  /\ UNCHANGED <<sent, startedClean>>

StoreRound ==
  /\ Update
  /\ UNCHANGED <<wire, line, stxFlag, sent, startedClean>>

LinkNext ==
  \/ \E f \in Frames : Transmit(f)
  \/ ReadByte
  \/ StoreRound

LinkSpec == LinkInit /\ [][LinkNext]_linkVars
-----------------------------------------------------------------------------
\* Reference: the rounds a sequence of frames makes, computed from the frames
\* alone.  A frame of a silent sensor joins the open round, a frame of any
\* other is dropped; the round is closed by that or by being complete.
Nothing == [s \in Sensors |-> {}]

Closed(open) == [s \in Sensors |-> IF open[s] = {} THEN 0
                                   ELSE CHOOSE v \in open[s] : TRUE]

Offer(rounds, f) ==
  LET joined == [rounds.open EXCEPT ![f.sensor] = @ \cup {100 * f.hi + f.lo}]
  IN  IF rounds.open[f.sensor] # {}
      THEN [open |-> Nothing, rows |-> Append(rounds.rows, Closed(rounds.open))]
      ELSE IF \A s \in Sensors : joined[s] # {}
      THEN [open |-> Nothing, rows |-> Append(rounds.rows, Closed(joined))]
      ELSE [open |-> joined, rows |-> rounds.rows]

Rounds(frames) ==
  LET after[k \in 0 .. Len(frames)] ==
        IF k = 0 THEN [open |-> Nothing, rows |-> <<>>]
        ELSE Offer(after[k - 1], frames[k])
  IN  after[Len(frames)]

\* No byte between the ends of a frame is a 43 or a 44, and the reader was
\* started between two frames.
Clean ==
  /\ \A k \in DOMAIN sent : \A i \in 2 .. 8 : Bytes(sent[k])[i] \notin {STX, ETX}
  /\ startedClean

\* As long as frames are clean, the bytes implement the readings: whatever a
\* byte does to the globals of the round is a step of Collector.
CleanLinkIsCollector == [][Clean' => Next \/ UNCHANGED vars]_linkVars

\* As long as frames are clean, once everything sent is read and stored, the
\* table holds the rounds of the frames, nothing lost, repeated or torn by
\* the framer.
TableIsRoundsOfFrames ==
  Clean /\ wire = <<>> /\ pc = "idle" =>
    [i \in DOMAIN data |-> data[i].vals] = Rounds(sent).rows

\* Whatever the bytes are, a value stored for a sensor was sent by it.
StoredReadingsGenuine ==
  \A i \in DOMAIN data, s \in Sensors :
    data[i].vals[s] # 0 =>
      \E k \in DOMAIN sent :
        sent[k].sensor = s /\ 100 * sent[k].hi + sent[k].lo = data[i].vals[s]

\* The reader goes round its loop until the program ends.
ReaderKeepsRunning == pc # "diedParsing"
=============================================================================
