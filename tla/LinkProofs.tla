----------------------------- MODULE LinkProofs -----------------------------
(***************************************************************************)
(* Theorems about SensorLink, for every set of sensors and of frames, and  *)
(* for every byte the frames may carry.                                    *)
(***************************************************************************)
EXTENDS SensorLink, CollectorProofs, SequenceTheorems, LeastNumber

-----------------------------------------------------------------------------
(***************************************************************************)
(* The framer.  Where it stands in a frame is told by the number of bytes  *)
(* still on the wire.                                                      *)
(***************************************************************************)

\* The wire holds the rest of the frame f.
RestOf(f) ==
  /\ Len(wire) <= 9
  /\ \A i \in 1 .. Len(wire) : wire[i] = Bytes(f)[9 - Len(wire) + i]

\* The line holds the bytes of f read so far, the leading 44 excepted.
LineHas(l, f) == \A i \in 1 .. Len(l) : l[i] = Bytes(f)[i + 1]

Whole(f) ==
  /\ sent # <<>> /\ stxFlag
  /\ Len(line) + Len(wire) = 8
  /\ LineHas(line, f)

\* The reader was started within f, or has met a 44 in it: what is left of f
\* is too short to be a reading.
Stump(f) ==
  /\ sent = <<>> \/ \E j \in 6 .. 8 : Bytes(f)[j] = STX
  /\ \/ ~stxFlag /\ line = <<>>
     \/ stxFlag /\ Len(line) + Len(wire) <= 3

LastSent == sent[Len(sent)]

WireInv ==
  \E f \in Frames :
    /\ sent # <<>> => f = LastSent
    /\ sent = <<>> /\ startedClean => wire = <<>>
    /\ RestOf(f)
    /\ Len(wire) = 9 => sent # <<>>
    /\ Len(wire) = 9 \/ Whole(f) \/ Stump(f)

\* The sensor s has sent the value v.
HasSent(s, v) ==
  \E k \in DOMAIN sent : sent[k].sensor = s /\ 100 * sent[k].hi + sent[k].lo = v

\* What the open round holds was sent, unless the reader died of it.
HeldGenuine ==
  pc # "diedParsing" =>
    \A s \in Sensors : value[s] # 0 => HasSent(s, value[s])

\* As long as frames are clean there is a frame for every row stored, for the
\* one about to be stored and for the bytes on the wire.
RowsHaveFrames ==
  Clean =>
    Len(data) + (IF wire # <<>> THEN 1 ELSE 0)
              + (IF pc \in {"count", "insert"} THEN 1 ELSE 0) <= Len(sent)

LinkInv == LinkTypeOK /\ Inv /\ WireInv /\ HeldGenuine /\ StoredReadingsGenuine
-----------------------------------------------------------------------------
(***************************************************************************)
(* The bytes of frames.                                                    *)
(***************************************************************************)

\* A frame is nine bytes.
LEMMA FrameBytes ==
  ASSUME NEW f \in Frames
  PROVE  /\ f.sensor \in Sensors /\ f.hi \in Byte /\ f.lo \in Byte
         /\ f.sensor \in Byte /\ f.sensor \notin {STX, ETX}
         /\ Checksum(f) \in Byte
         /\ Bytes(f) \in Seq(Byte) /\ Len(Bytes(f)) = 9
         /\ Bytes(f)[1] = STX /\ Bytes(f)[2] = 0 /\ Bytes(f)[3] = 5
         /\ Bytes(f)[4] = Opcode /\ Bytes(f)[5] = f.sensor
         /\ Bytes(f)[6] = f.hi /\ Bytes(f)[7] = f.lo
         /\ Bytes(f)[8] = Checksum(f) /\ Bytes(f)[9] = ETX
         /\ 100 * f.hi + f.lo \in Values
<1>1. f.sensor \in Sensors /\ f.hi \in Byte /\ f.lo \in Byte
  BY FramesAssumption
<1>2. f.sensor \in Byte /\ f.sensor \notin {STX, ETX}
  BY <1>1, SensorBytesAssumption
<1>3. Checksum(f) \in Byte
  <2>1. \A a, b, c \in 0 .. 255 : (48 + a + b + c) % 256 \in 0 .. 255
    OBVIOUS
  <2>2. f.sensor \in 0 .. 255 /\ f.hi \in 0 .. 255 /\ f.lo \in 0 .. 255
    BY <1>1, <1>2 DEF Byte
  <2>. QED BY <2>1, <2>2 DEF Checksum, Byte, Opcode
<1>4. STX \in Byte /\ ETX \in Byte /\ Opcode \in Byte /\ 0 \in Byte /\ 5 \in Byte
  BY DEF STX, ETX, Opcode, Byte
<1>5. Bytes(f) \in Seq(Byte)
  <2>. HIDE DEF Byte
  <2>. QED BY <1>1, <1>2, <1>3, <1>4 DEF Bytes
<1>6. /\ Len(Bytes(f)) = 9
      /\ Bytes(f)[1] = STX /\ Bytes(f)[2] = 0 /\ Bytes(f)[3] = 5
      /\ Bytes(f)[4] = Opcode /\ Bytes(f)[5] = f.sensor
      /\ Bytes(f)[6] = f.hi /\ Bytes(f)[7] = f.lo
      /\ Bytes(f)[8] = Checksum(f) /\ Bytes(f)[9] = ETX
  BY DEF Bytes
<1>7. 100 * f.hi + f.lo \in Values
  BY LinkValuesAssumption
<1>. QED BY <1>1, <1>2, <1>3, <1>5, <1>6, <1>7

\* Taking the first byte off the wire.
LEMMA HeadAndTail ==
  ASSUME NEW S, NEW q \in Seq(S), q # <<>>
  PROVE  /\ Head(q) \in S /\ Head(q) = q[1] /\ Len(q) \in Nat \ {0}
         /\ Tail(q) \in Seq(S) /\ Len(Tail(q)) = Len(q) - 1
         /\ \A i \in 1 .. Len(Tail(q)) : Tail(q)[i] = q[i + 1]
<1>1. Len(q) \in Nat /\ Len(q) # 0
  BY EmptySeq, LenProperties
<1>2. Head(q) = q[1] /\ q[1] \in S
  BY <1>1, ElementOfSeq
<1>. QED BY <1>1, <1>2, HeadTailProperties

\* A frame is put on an empty wire: nothing of it has been read.
LEMMA TransmitWire ==
  ASSUME LinkTypeOK, NEW f \in Frames, Transmit(f)
  PROVE  /\ sent' \in Seq(Frames) /\ Len(sent') = Len(sent) + 1
         /\ sent' # <<>> /\ LastSent' = f
         /\ \A k \in DOMAIN sent : k \in DOMAIN sent' /\ sent'[k] = sent[k]
         /\ wire' \in Seq(Byte) /\ wire' # <<>>
         /\ WireInv'
<1>1. sent \in Seq(Frames) /\ Len(sent) \in Nat /\ DOMAIN sent = 1 .. Len(sent)
  BY LenProperties DEF LinkTypeOK
<1>2. sent' = Append(sent, f) /\ wire' = Bytes(f)
  BY DEF Transmit
<1>3. /\ sent' \in Seq(Frames) /\ Len(sent') = Len(sent) + 1
      /\ \A k \in 1 .. Len(sent) : sent'[k] = sent[k]
      /\ sent'[Len(sent) + 1] = f
  BY <1>1, <1>2, AppendProperties
<1>4. sent' # <<>> /\ LastSent' = f
  BY <1>1, <1>3, EmptySeq DEF LastSent
<1>5. DOMAIN sent' = 1 .. Len(sent) + 1
  BY <1>3, LenProperties
<1>6. wire' \in Seq(Byte) /\ Len(wire') = 9 /\ wire' # <<>>
  BY <1>2, FrameBytes, EmptySeq
<1>7. RestOf(f)'
  BY <1>2, <1>6 DEF RestOf
<1>8. WireInv'
  BY <1>4, <1>6, <1>7 DEF WireInv
<1>. QED BY <1>1, <1>3, <1>4, <1>5, <1>6, <1>8

\* A 44 in a frame, its first byte apart, is in its value or its checksum.
LEMMA WhereSTX ==
  ASSUME NEW f \in Frames, NEW i \in 2 .. 9, Bytes(f)[i] = STX
  PROVE  i \in 6 .. 8
<1>1. i = 2 \/ i = 3 \/ i = 4 \/ i = 5 \/ i \in 6 .. 8 \/ i = 9
  OBVIOUS
<1>. QED BY <1>1, FrameBytes DEF STX, ETX, Opcode

\* What the framer does with a byte that is no 44.
LEMMA Framed ==
  ASSUME LinkTypeOK, ReadByte, NEW b, b = Head(wire), b \in Byte
  PROVE  /\ b = STX => stxFlag' = TRUE /\ line' = <<>>
         /\ b # STX /\ stxFlag =>
              /\ stxFlag' = TRUE /\ line' \in Seq(Byte) /\ Len(line') = Len(line) + 1
              /\ line'[Len(line) + 1] = b
              /\ \A i \in 1 .. Len(line) : line'[i] = line[i]
         /\ b # STX /\ ~stxFlag => stxFlag' = FALSE /\ line' = line
<1>1. line \in Seq(Byte) /\ stxFlag \in BOOLEAN
  BY DEF LinkTypeOK
<1>2. stxFlag' = (stxFlag \/ b = STX)
  BY DEF ReadByte
<1>3. line' = CASE b = STX -> <<>>
                [] b # STX /\ stxFlag -> Append(line, b)
                [] OTHER -> line
  BY DEF ReadByte
<1>4. CASE b = STX
  BY <1>2, <1>3, <1>4
<1>5. CASE b # STX /\ stxFlag
  <2>1. line' = Append(line, b)
    BY <1>3, <1>5
  <2>2. /\ Append(line, b) \in Seq(Byte) /\ Len(Append(line, b)) = Len(line) + 1
        /\ Append(line, b)[Len(line) + 1] = b
        /\ \A i \in 1 .. Len(line) : Append(line, b)[i] = line[i]
    BY <1>1, AppendProperties
  <2>. QED BY <1>2, <1>5, <2>1, <2>2
<1>6. CASE b # STX /\ ~stxFlag
  BY <1>1, <1>2, <1>3, <1>6
<1>. QED BY <1>4, <1>5, <1>6

\* A line handed to the parser.  It ends with the 43 that was read, unless no
\* frame had begun; it is what was read of the last frame sent, or too short
\* to be a reading.
LineOf(l, f) ==
  /\ l # <<>> => l[Len(l)] = ETX
  /\ Len(l) > 3 => sent # <<>> /\ LineHas(l, f)

\* Reading a byte keeps the framer in the frame.
LEMMA ReadWire ==
  ASSUME LinkTypeOK, WireInv, ReadByte
  PROVE  \E f \in Frames :
           /\ sent # <<>> => f = LastSent
           /\ wire # <<>> /\ wire' \in Seq(Byte) /\ Len(wire) \in Nat
           /\ Len(wire') = Len(wire) - 1
           /\ line' \in Seq(Byte) /\ stxFlag' \in BOOLEAN
           /\ Head(wire) = Bytes(f)[10 - Len(wire)]
           /\ WireInv'
           /\ Head(wire) = ETX => LineOf(line', f)
           /\ Whole(f)' \/ Stump(f)'
<1>1. PICK f \in Frames :
        /\ sent # <<>> => f = LastSent
        /\ sent = <<>> /\ startedClean => wire = <<>>
        /\ RestOf(f)
        /\ Len(wire) = 9 => sent # <<>>
        /\ Len(wire) = 9 \/ Whole(f) \/ Stump(f)
  BY DEF WireInv
<1>2. /\ wire \in Seq(Byte) /\ wire # <<>> /\ wire' = Tail(wire)
      /\ line \in Seq(Byte) /\ stxFlag \in BOOLEAN
      /\ UNCHANGED <<sent, startedClean>>
  BY DEF LinkTypeOK, ReadByte
<1>. DEFINE b == Head(wire)
            w == Len(wire)
<1>3. /\ b \in Byte /\ b = wire[1] /\ w \in Nat /\ w > 0
      /\ wire' \in Seq(Byte) /\ Len(wire') = w - 1
      /\ \A i \in 1 .. Len(wire') : wire'[i] = wire[i + 1]
  BY <1>2, HeadAndTail
<1>. HIDE DEF b, w
<1>4. w \in 1 .. 9 /\ \A i \in 1 .. w : wire[i] = Bytes(f)[9 - w + i]
  <2>1. w <= 9 /\ \A i \in 1 .. w : wire[i] = Bytes(f)[9 - w + i]
    BY <1>1 DEF RestOf, w
  <2>. QED BY <1>3, <2>1
<1>5. b = Bytes(f)[10 - w]
  BY <1>3, <1>4
<1>6. RestOf(f)'
  <2>1. ASSUME NEW i \in 1 .. w - 1
        PROVE  wire'[i] = Bytes(f)[9 - (w - 1) + i]
    <3>1. i + 1 \in 1 .. w /\ 9 - w + (i + 1) = 9 - (w - 1) + i
      BY <1>4
    <3>2. wire[i + 1] = Bytes(f)[9 - w + (i + 1)]
      BY <1>4, <3>1
    <3>. QED BY <1>3, <3>1, <3>2
  <2>. QED BY <1>3, <1>4, <2>1 DEF RestOf
<1>7. Len(line) \in Nat
  BY <1>2, LenProperties
<1>8. /\ b = STX => stxFlag' = TRUE /\ line' = <<>>
      /\ b # STX /\ stxFlag =>
           /\ stxFlag' = TRUE /\ line' \in Seq(Byte) /\ Len(line') = Len(line) + 1
           /\ line'[Len(line) + 1] = b
           /\ \A i \in 1 .. Len(line) : line'[i] = line[i]
      /\ b # STX /\ ~stxFlag => stxFlag' = FALSE /\ line' = line
  BY <1>3, Framed DEF b
<1>9. line' \in Seq(Byte) /\ stxFlag' \in BOOLEAN
  <2>1. <<>> \in Seq(Byte)
    OBVIOUS
  <2>. QED BY <1>2, <1>8, <2>1
<1>10. ASSUME b = STX
       PROVE  Whole(f)' \/ Stump(f)'
  <2>1. stxFlag' = TRUE /\ line' = <<>> /\ Len(line') = 0
    BY <1>8, <1>10
  <2>2. CASE w = 9
    BY <1>1, <1>2, <1>3, <2>1, <2>2 DEF w, Whole, LineHas
  <2>3. CASE w # 9
    <3>1. 10 - w \in 6 .. 8 /\ Bytes(f)[10 - w] = STX
      <4>1. 10 - w \in 2 .. 9 /\ Bytes(f)[10 - w] = STX
        BY <1>4, <1>5, <1>10, <2>3
      <4>. QED BY <4>1, WhereSTX
    <3>2. Len(line') + Len(wire') <= 3
      BY <1>3, <1>4, <2>1, <3>1
    <3>. QED BY <2>1, <3>1, <3>2 DEF Stump
  <2>. QED BY <2>2, <2>3
<1>11. ASSUME b # STX /\ Whole(f)
       PROVE  Whole(f)' \/ Stump(f)'
  <2>1. /\ sent # <<>> /\ stxFlag /\ Len(line) + w = 8
        /\ \A i \in 1 .. Len(line) : line[i] = Bytes(f)[i + 1]
    BY <1>11 DEF Whole, LineHas, w
  <2>2. /\ stxFlag' = TRUE /\ Len(line') = Len(line) + 1 /\ line'[Len(line) + 1] = b
        /\ \A i \in 1 .. Len(line) : line'[i] = line[i]
    BY <1>8, <1>11, <2>1
  <2>3. ASSUME NEW i \in 1 .. Len(line) + 1
        PROVE  line'[i] = Bytes(f)[i + 1]
    <3>1. CASE i \in 1 .. Len(line)
      BY <2>1, <2>2, <3>1
    <3>2. CASE i = Len(line) + 1
      <4>1. i + 1 = 10 - w
        BY <1>4, <1>7, <2>1, <3>2
      <4>. QED BY <1>5, <2>2, <3>2, <4>1
    <3>. QED BY <1>7, <3>1, <3>2
  <2>4. LineHas(line', f)
    BY <2>2, <2>3 DEF LineHas
  <2>5. Len(line') + Len(wire') = 8
    BY <1>3, <1>4, <1>7, <2>1, <2>2
  <2>. QED BY <1>2, <2>1, <2>2, <2>3, <2>4, <2>5 DEF Whole, LineHas
<1>12. ASSUME b # STX /\ Stump(f)
       PROVE  Whole(f)' \/ Stump(f)'
  BY <1>2, <1>3, <1>4, <1>7, <1>8, <1>12 DEF Stump, w
<1>13. w = 9 => b = STX
  BY <1>5, FrameBytes
<1>14. Whole(f)' \/ Stump(f)'
  BY <1>1, <1>10, <1>11, <1>12, <1>13 DEF w
<1>15. WireInv'
  <2>1. sent' # <<>> => f = LastSent'
    BY <1>1, <1>2 DEF LastSent
  <2>2. sent' = <<>> /\ startedClean' => wire' = <<>>
    BY <1>1, <1>2
  <2>3. Len(wire') # 9
    BY <1>3, <1>4
  <2>. QED BY <1>6, <1>14, <2>1, <2>2, <2>3 DEF WireInv
<1>16. ASSUME b = ETX
       PROVE  LineOf(line', f)
  <2>1. b # STX
    BY <1>16 DEF STX, ETX
  <2>2. line' # <<>> => line'[Len(line')] = ETX
    <3>1. CASE stxFlag
      BY <1>7, <1>8, <1>16, <2>1, <3>1
    <3>2. CASE ~stxFlag
      <4>1. line = <<>>
        BY <1>1, <1>13, <2>1, <3>2 DEF w, Whole, Stump
      <4>. QED BY <1>8, <2>1, <3>2, <4>1
    <3>. QED BY <1>2, <3>1, <3>2
  <2>3. Len(line') > 3 => sent # <<>> /\ LineHas(line', f)
    <3>1. CASE Whole(f)'
      <4>1. LineHas(line', f) /\ sent' # <<>>
        BY <3>1 DEF Whole, LineHas
      <4>. QED BY <1>2, <4>1
    <3>2. CASE Stump(f)'
      <4>1. (line' = <<>> /\ Len(line') = 0) \/ Len(line') + Len(wire') <= 3
        BY <3>2 DEF Stump
      <4>2. Len(line') \in Nat
        BY <1>9, LenProperties
      <4>. QED BY <1>3, <4>1, <4>2
    <3>. QED BY <1>14, <3>1, <3>2
  <2>. QED BY <2>2, <2>3 DEF LineOf
<1>. QED BY <1>1, <1>2, <1>3, <1>5, <1>9, <1>14, <1>15, <1>16 DEF b, w
-----------------------------------------------------------------------------
(***************************************************************************)
(* The parser and the rounds.                                              *)
(***************************************************************************)

\* Whatever line it is handed, parsing_data dies, does nothing, takes the
\* reading of the last frame sent, or raises the flag of its sensor and dies.
LEMMA ParseCases ==
  ASSUME NEW f \in Frames, NEW l \in Seq(Byte), LineOf(l, f), Parse(l)
  PROVE  \/ TooShort(l)
         \/ UNCHANGED vars
         \/ sent # <<>> /\ Truncated(l) /\ l[4] = f.sensor /\ f.hi = ETX /\ l[5] = ETX
         \/ sent # <<>> /\ FirstReading(f.sensor, 100 * f.hi + f.lo)
         \/ sent # <<>> /\ RepeatedReading(f.sensor)
<1>1. Len(l) \in Nat
  BY LenProperties
<1>2. ASSUME Len(l) >= 5
      PROVE  /\ sent # <<>> /\ l[3] = Opcode /\ l[4] = f.sensor /\ l[5] = f.hi
             /\ Len(l) >= 6 => l[6] = f.lo
             /\ l[Len(l)] = ETX
  <2>1. l # <<>> /\ Len(l) > 3
    BY <1>1, <1>2, EmptySeq
  <2>2. sent # <<>> /\ LineHas(l, f) /\ l[Len(l)] = ETX
    BY <2>1 DEF LineOf
  <2>3. \A i \in 1 .. Len(l) : l[i] = Bytes(f)[i + 1]
    BY <2>2 DEF LineHas
  <2>4. l[3] = Bytes(f)[4] /\ l[4] = Bytes(f)[5] /\ l[5] = Bytes(f)[6]
    BY <1>1, <1>2, <2>3
  <2>5. Len(l) >= 6 => l[6] = Bytes(f)[7]
    BY <1>1, <2>3
  <2>. QED BY <2>2, <2>4, <2>5, FrameBytes
<1>3. CASE NotAReading(l)
  BY <1>3 DEF NotAReading
<1>4. CASE Truncated(l)
  BY <1>1, <1>2, <1>4 DEF Truncated
<1>5. CASE Reading(l)
  <2>1. Len(l) >= 5
    BY <1>5 DEF Reading
  <2>2. CASE Len(l) >= 6 /\ FirstReading(l[4], Decoded(l[5], l[6]))
    BY <1>2, <2>1, <2>2 DEF Decoded
  <2>3. CASE RepeatedReading(l[4])
    BY <1>2, <2>1, <2>3
  <2>. QED BY <1>5, <2>2, <2>3 DEF Reading
<1>. QED BY <1>3, <1>4, <1>5 DEF Parse

\* The stages of UpdateDBData keep Collector's invariant.
LEMMA UpdateInv ==
  ASSUME TypeOK, Inv, Update
  PROVE  Inv'
<1>. USE DEF PcStates, Updating, Dead
<1>1. CASE CountRows
  <2>1. nCount' = Len(data)
    BY <1>1 DEF CountRows, TypeOK
  <2>. QED BY <1>1, <2>1, MoveInv DEF CountRows
<1>2. CASE DbRaises
  BY <1>2, MoveInv DEF DbRaises
<1>3. CASE PushRaises
  BY <1>3, MoveInv DEF PushRaises
<1>. QED BY <1>1, <1>2, <1>3, InsertRowInv, PushRowInv, ResetRoundInv DEF Update

\* A reader that dies in parsing_data, its round untouched.
LEMMA DiesInv ==
  ASSUME TypeOK, Inv, NEW l, TooShort(l), pc = "idle"
  PROVE  TypeOK' /\ Inv' /\ pc' = "diedParsing"
<1>1. "diedParsing" \in PcStates
  BY DEF PcStates, Dead
<1>2. UNCHANGED <<roundVars, data, ser1, nCount>>
  BY DEF TooShort
<1>3. Inv'
  BY <1>1, <1>2, MoveInv DEF TooShort
<1>4. TypeOK'
  BY <1>1, <1>2 DEF TypeOK, TooShort, roundVars
<1>. QED BY <1>3, <1>4 DEF TooShort

\* A reader that dies in parsing_data after it has raised a flag.
LEMMA DiesInReading ==
  ASSUME TypeOK, Inv, NEW l, l[4] \in Sensors, l[5] = ETX, Truncated(l), pc = "idle"
  PROVE  TypeOK' /\ Inv' /\ pc' = "diedParsing" /\ UNCHANGED data
<1>1. "diedParsing" \in PcStates
  BY DEF PcStates, Dead
<1>2. pc' = "diedParsing"
  BY DEF Truncated, Inv
<1>3. Decoded(l[5], 0) \in Readings
  BY LinkValuesAssumption DEF Decoded, Readings, ETX
<1>4. /\ setFlag' = [setFlag EXCEPT ![l[4]] = TRUE]
      /\ value' = [value EXCEPT ![l[4]] = Decoded(l[5], 0)]
      /\ timeoutEnableFlag' = TRUE
      /\ UNCHANGED <<TimeoutCnt, data, ser1, nCount>>
  BY DEF Truncated
<1>5. TypeOK'
  BY <1>1, <1>2, <1>3, <1>4 DEF TypeOK
<1>6. \A s \in Sensors : ~setFlag'[s] => value'[s] = 0
  BY <1>4 DEF TypeOK, Inv
<1>7. IndexIsPosition' /\ PushedRowsMatch'
  BY <1>4, UnchangedLog DEF Inv
<1>. QED BY <1>2, <1>4, <1>5, <1>6, <1>7 DEF Inv

\* A reading that is kept, or that ends the round, keeps the types and
\* Collector's invariant.
LEMMA ReadingInv ==
  ASSUME TypeOK, Inv, NEW s \in Sensors, NEW v \in Values,
         FirstReading(s, v) \/ RepeatedReading(s)
  PROVE  /\ TypeOK' /\ Inv' /\ UNCHANGED data
         /\ pc = "idle" /\ pc' # "diedParsing"
         /\ \A u \in Sensors : value'[u] = value[u] \/ (u = s /\ value'[u] = v)
<1>. USE DEF PcStates, Updating, Dead
<1>1. CASE FirstReading(s, v)
  <2>1. v \in Readings
    BY DEF Readings
  <2>2. TypeOK'
    BY <1>1, <2>1 DEF FirstReading, TypeOK
  <2>3. pc' = IF RoundComplete' THEN "count" ELSE "idle"
    BY <1>1 DEF FirstReading
  <2>4. \A u \in Sensors : value'[u] = value[u] \/ (u = s /\ value'[u] = v)
    BY <1>1 DEF FirstReading, TypeOK
  <2>5. Inv'
    BY <1>1, FirstReadingInv
  <2>6. pc' # "diedParsing"
    BY <2>3
  <2>7. pc = "idle" /\ UNCHANGED data
    BY <1>1 DEF FirstReading
  <2>. QED BY <2>2, <2>4, <2>5, <2>6, <2>7
<1>2. CASE RepeatedReading(s)
  <2>1. pc = "idle" /\ UNCHANGED <<roundVars, data, ser1>>
    BY <1>2 DEF RepeatedReading, roundVars
  <2>2. Inv'
    BY <1>2, <2>1, MoveInv DEF RepeatedReading
  <2>3. TypeOK'
    BY <1>2 DEF RepeatedReading, TypeOK
  <2>4. pc' = "count"
    BY <1>2 DEF RepeatedReading
  <2>. QED BY <1>2, <2>1, <2>2, <2>3, <2>4 DEF RepeatedReading
<1>. QED BY <1>1, <1>2

\* What has been sent stays sent.
LEMMA SentGrows ==
  ASSUME \A k \in DOMAIN sent : k \in DOMAIN sent' /\ sent'[k] = sent[k],
         NEW s, NEW v, HasSent(s, v)
  PROVE  HasSent(s, v)'
BY DEF HasSent

\* The stored rows stay genuine while the table is what it was.
LEMMA SameRowsGenuine ==
  ASSUME StoredReadingsGenuine, UNCHANGED data,
         \A k \in DOMAIN sent : k \in DOMAIN sent' /\ sent'[k] = sent[k]
  PROVE  StoredReadingsGenuine'
<1>1. ASSUME NEW i \in DOMAIN data', NEW s \in Sensors, NEW v,
             v = data'[i].vals[s], v # 0
      PROVE  HasSent(s, v)'
  <2>1. HasSent(s, v)
    BY <1>1 DEF StoredReadingsGenuine, HasSent
  <2>. QED BY <2>1, SentGrows
<1>. QED BY <1>1 DEF StoredReadingsGenuine, HasSent

\* A sensor that sends a frame keeps the invariant.
LEMMA TransmitInv ==
  ASSUME LinkInv, NEW f \in Frames, Transmit(f)
  PROVE  LinkInv'
<1>. USE DEF LinkInv
<1>1. UNCHANGED <<vars, line, stxFlag, startedClean>>
  BY DEF Transmit
<1>2. TypeOK'
  BY <1>1 DEF LinkTypeOK, TypeOK, vars
<1>3. LinkTypeOK'
  BY <1>1, <1>2, TransmitWire DEF LinkTypeOK
<1>4. Inv'
  <2>1. UNCHANGED <<data, ser1, pc, nCount, setFlag, value>>
    BY <1>1 DEF vars
  <2>2. IndexIsPosition' /\ PushedRowsMatch'
    BY <2>1, UnchangedLog DEF Inv
  <2>. QED BY <2>1, <2>2 DEF Inv, RoundComplete
<1>5. \A k \in DOMAIN sent : k \in DOMAIN sent' /\ sent'[k] = sent[k]
  BY TransmitWire
<1>6. StoredReadingsGenuine'
  BY <1>1, <1>5, SameRowsGenuine DEF vars
<1>7. HeldGenuine'
  <2>1. ASSUME NEW s \in Sensors, NEW v, v = value'[s],
               pc' # "diedParsing", v # 0
        PROVE  HasSent(s, v)'
    <3>1. HasSent(s, v)
      BY <1>1, <2>1 DEF HeldGenuine, vars
    <3>. QED BY <1>5, <3>1, SentGrows
  <2>. QED BY <2>1 DEF HeldGenuine, HasSent
<1>. QED BY <1>3, <1>4, <1>6, <1>7, TransmitWire

\* A byte read keeps the invariant.
LEMMA ReadInv ==
  ASSUME LinkInv, ReadByte
  PROVE  LinkInv'
<1>. USE DEF LinkInv
<1>0. LinkTypeOK /\ TypeOK /\ Inv /\ WireInv /\ pc = "idle"
  BY DEF LinkTypeOK, ReadByte
<1>1. PICK f \in Frames :
        /\ sent # <<>> => f = LastSent
        /\ wire' \in Seq(Byte) /\ line' \in Seq(Byte) /\ stxFlag' \in BOOLEAN
        /\ WireInv'
        /\ Head(wire) = ETX => LineOf(line', f)
  BY <1>0, ReadWire
<1>2. /\ sent' = sent /\ startedClean' = startedClean
      /\ sent \in Seq(Frames) /\ startedClean \in BOOLEAN
  BY DEF ReadByte, LinkTypeOK
<1>3. sent # <<>> => HasSent(f.sensor, 100 * f.hi + f.lo)
  <2>. SUFFICES ASSUME sent # <<>>
                PROVE  HasSent(f.sensor, 100 * f.hi + f.lo)
    OBVIOUS
  <2>1. Len(sent) \in DOMAIN sent
    BY <1>2, EmptySeq, LenProperties
  <2>. QED BY <1>1, <2>1 DEF HasSent, LastSent
<1>4. /\ TypeOK' /\ Inv' /\ UNCHANGED data
      /\ \/ pc' = "diedParsing"
         \/ \A u \in Sensors : value'[u] = value[u] \/ HasSent(u, value'[u])
  <2>1. CASE UNCHANGED vars
    <3>1. UNCHANGED <<data, ser1, pc, nCount, setFlag, value>>
      BY <2>1 DEF vars
    <3>2. IndexIsPosition' /\ PushedRowsMatch'
      BY <3>1, UnchangedLog DEF Inv
    <3>3. Inv'
      BY <3>1, <3>2 DEF Inv, RoundComplete
    <3>4. TypeOK'
      BY <1>0, <2>1 DEF TypeOK, vars
    <3>. QED BY <3>1, <3>3, <3>4
  <2>2. CASE Head(wire) = ETX /\ Parse(line')
    <3>1. CASE TooShort(line')
      BY <1>0, <3>1, DiesInv DEF TooShort
    <3>2. CASE /\ Truncated(line') /\ line'[4] = f.sensor /\ line'[5] = ETX
      BY <1>0, <3>2, DiesInReading, FrameBytes
    <3>3. CASE sent # <<>> /\ FirstReading(f.sensor, 100 * f.hi + f.lo)
      <4>1. f.sensor \in Sensors /\ 100 * f.hi + f.lo \in Values
        BY FrameBytes
      <4>. QED BY <1>0, <1>3, <3>3, <4>1, ReadingInv
    <3>4. CASE sent # <<>> /\ RepeatedReading(f.sensor)
      <4>1. f.sensor \in Sensors /\ 100 * f.hi + f.lo \in Values
        BY FrameBytes
      <4>. QED BY <1>0, <1>3, <3>4, <4>1, ReadingInv
    <3>. QED BY <1>1, <2>1, <2>2, <3>1, <3>2, <3>3, <3>4, ParseCases
  <2>. QED BY <2>1, <2>2 DEF ReadByte
<1>5. LinkTypeOK'
  BY <1>1, <1>2, <1>4 DEF LinkTypeOK
<1>6. StoredReadingsGenuine'
  BY <1>2, <1>4, SameRowsGenuine
<1>7. HeldGenuine'
  <2>1. ASSUME NEW s \in Sensors, pc' # "diedParsing", value'[s] # 0
        PROVE  HasSent(s, value'[s])
    BY <1>0, <1>4, <2>1 DEF HeldGenuine
  <2>. QED BY <1>2, <2>1 DEF HeldGenuine, HasSent
<1>. QED BY <1>1, <1>4, <1>5, <1>6, <1>7

\* A stage of UpdateDBData keeps the invariant: the row stored holds what the
\* round held.
LEMMA StoreInv ==
  ASSUME LinkInv, StoreRound
  PROVE  LinkInv'
<1>. USE DEF LinkInv
<1>0. LinkTypeOK /\ TypeOK /\ Inv /\ WireInv /\ Update
  BY DEF LinkTypeOK, StoreRound
<1>1. UNCHANGED <<wire, line, stxFlag, sent, startedClean>>
  BY DEF StoreRound
<1>2. TypeOK' /\ Inv'
  BY <1>0, UpdateType, UpdateInv
<1>3. LinkTypeOK'
  BY <1>1, <1>2 DEF LinkTypeOK
<1>4. WireInv'
  BY <1>0, <1>1 DEF WireInv, RestOf, Whole, Stump, LineHas, LastSent
<1>5. pc # "diedParsing" /\ \A s \in Sensors : value'[s] = value[s] \/ value'[s] = 0
  BY <1>0 DEF Update, CountRows, InsertRow, PushRow, ResetRound, DbRaises, CommitRaises,
              PushRaises, roundVars
<1>6. HeldGenuine'
  <2>1. ASSUME NEW s \in Sensors, value'[s] # 0
        PROVE  HasSent(s, value'[s])
    BY <1>5, <2>1 DEF HeldGenuine
  <2>. QED BY <1>1, <2>1 DEF HeldGenuine, HasSent
<1>7. StoredReadingsGenuine'
  <2>1. CASE InsertRow \/ CommitRaises
    <3>. DEFINE row == [vals |-> value, index |-> nCount]
    <3>1. row \in Row /\ data \in Seq(Row) /\ data' = Append(data, row) /\ row.vals = value
      BY <1>0, <2>1 DEF InsertRow, CommitRaises, TypeOK, Row
    <3>. HIDE DEF row
    <3>2. /\ \A i \in 1 .. Len(data) : data'[i] = data[i]
          /\ data'[Len(data) + 1] = row
          /\ DOMAIN data = 1 .. Len(data) /\ DOMAIN data' = 1 .. Len(data) + 1
          /\ Len(data) \in Nat
      BY <3>1, AppendElements, AppendType, LenProperties
    <3>3. ASSUME NEW i \in DOMAIN data', NEW s \in Sensors, data'[i].vals[s] # 0
          PROVE  HasSent(s, data'[i].vals[s])
      <4>1. CASE i \in 1 .. Len(data)
        BY <3>2, <3>3, <4>1 DEF StoredReadingsGenuine, HasSent
      <4>2. CASE i = Len(data) + 1
        BY <1>5, <3>1, <3>2, <3>3, <4>2 DEF HeldGenuine
      <4>. QED BY <3>2, <4>1, <4>2
    <3>. QED BY <1>1, <3>3 DEF StoredReadingsGenuine, HasSent
  <2>2. CASE UNCHANGED data
    BY <1>1, <2>2, SameRowsGenuine
  <2>. QED BY <1>0, <2>1, <2>2
           DEF Update, CountRows, PushRow, ResetRound, DbRaises, PushRaises
<1>. QED BY <1>2, <1>3, <1>4, <1>6, <1>7

\* The reader starts between two frames or within one.
LEMMA InitLink ==
  ASSUME LinkInit
  PROVE  LinkInv
<1>1. PICK f \in Frames, k \in 2 .. 10 : wire = SubSeq(Bytes(f), k, 9)
  BY HeadsAssumption DEF LinkInit
<1>2. Bytes(f) \in Seq(Byte) /\ Len(Bytes(f)) = 9
  BY FrameBytes
<1>3. /\ wire \in Seq(Byte) /\ Len(wire) = 10 - k
      /\ \A i \in 1 .. Len(wire) : wire[i] = Bytes(f)[9 - Len(wire) + i]
  <2>1. /\ SubSeq(Bytes(f), k, 9) \in Seq(Byte)
        /\ Len(SubSeq(Bytes(f), k, 9)) = 10 - k
        /\ \A i \in 1 .. 10 - k : SubSeq(Bytes(f), k, 9)[i] = Bytes(f)[k + i - 1]
    <3>1. \A i \in k .. 9 : Bytes(f)[i] \in Byte
      <4>1. \A i \in k .. 9 : i \in 1 .. 9
        OBVIOUS
      <4>. QED BY <1>2, <4>1, ElementOfSeq
    <3>2. k \in Int /\ 9 \in Int
      OBVIOUS
    <3>3. /\ SubSeq(Bytes(f), k, 9) \in Seq(Byte)
          /\ Len(SubSeq(Bytes(f), k, 9)) = IF k <= 9 THEN 9 - k + 1 ELSE 0
          /\ \A i \in 1 .. 9 - k + 1 : SubSeq(Bytes(f), k, 9)[i] = Bytes(f)[k + i - 1]
      BY <3>1, <3>2, SubSeqProperties
    <3>4. 9 - k + 1 = 10 - k /\ (~(k <= 9) => 10 - k = 0)
      OBVIOUS
    <3>. QED BY <3>3, <3>4
  <2>2. ASSUME NEW i \in 1 .. 10 - k
        PROVE  wire[i] = Bytes(f)[9 - (10 - k) + i]
    <3>1. k + i - 1 = 9 - (10 - k) + i
      OBVIOUS
    <3>. QED BY <1>1, <2>1, <3>1
  <2>. QED BY <1>1, <2>1, <2>2
<1>4. /\ sent = <<>> /\ line = <<>> /\ stxFlag = FALSE /\ startedClean \in BOOLEAN
      /\ startedClean => wire = <<>>
  BY DEF LinkInit
<1>5. WireInv
  BY <1>3, <1>4 DEF WireInv, RestOf, Stump
<1>6. LinkTypeOK
  <2>1. <<>> \in Seq(Byte) /\ <<>> \in Seq(Frames)
    OBVIOUS
  <2>. QED BY <1>3, <1>4, <2>1, InitType DEF LinkTypeOK, LinkInit
<1>7. HeldGenuine
  BY DEF HeldGenuine, LinkInit, Init
<1>8. StoredReadingsGenuine
  BY DEF StoredReadingsGenuine, LinkInit, Init
<1>. QED BY <1>5, <1>6, <1>7, <1>8, InitInv DEF LinkInv, LinkInit

\* Every step of the link keeps the invariant.
LEMMA NextLink ==
  ASSUME LinkInv, [LinkNext]_linkVars
  PROVE  LinkInv'
<1>1. CASE UNCHANGED linkVars
  <2>1. /\ UNCHANGED <<wire, line, stxFlag, sent, startedClean>>
        /\ UNCHANGED <<setFlag, value, timeoutEnableFlag, TimeoutCnt>>
        /\ UNCHANGED <<data, ser1, pc, nCount>>
    BY <1>1 DEF linkVars, vars
  <2>2. LinkTypeOK'
    BY <2>1 DEF LinkInv, LinkTypeOK, TypeOK
  <2>3. Inv'
    BY <2>1, UnchangedLog DEF LinkInv, Inv, RoundComplete
  <2>4. WireInv'
    BY <2>1 DEF LinkInv, WireInv, RestOf, Whole, Stump, LineHas, LastSent
  <2>5. HeldGenuine' /\ StoredReadingsGenuine'
    BY <2>1 DEF LinkInv, HeldGenuine, StoredReadingsGenuine, HasSent
  <2>. QED BY <2>2, <2>3, <2>4, <2>5 DEF LinkInv
<1>. QED BY <1>1, TransmitInv, ReadInv, StoreInv DEF LinkNext

\* Where the framer stands in a frame, what its line holds of it and what the
\* round and the rows hold fit together in every state: the inductive
\* invariant the theorems below follow from.
THEOREM LinkInvCorrect ==
  LinkSpec => []LinkInv
<1>1. LinkInit => LinkInv
  BY InitLink
<1>2. LinkInv /\ [LinkNext]_linkVars => LinkInv'
  BY NextLink
<1>. QED BY <1>1, <1>2, PTL DEF LinkSpec

\* Whatever bytes arrive, what is decoded from them is a reading the sensors
\* can send, and Collector's types hold.
THEOREM LinkTypeCorrect ==
  LinkSpec => []LinkTypeOK
<1>1. LinkInv => LinkTypeOK
  BY DEF LinkInv
<1>. QED BY <1>1, LinkInvCorrect, PTL

\* Whatever the values and the checksums are, and wherever in a frame the
\* reader starts, a value stored for a sensor was sent by that sensor: a frame
\* with a 43 or 44 in it may be lost, or end the thread, but leaves no row with
\* a reading nobody made.
THEOREM GenuineCorrect ==
  LinkSpec => []StoredReadingsGenuine
<1>1. LinkInv => StoredReadingsGenuine
  BY DEF LinkInv
<1>. QED BY <1>1, LinkInvCorrect, PTL

\* Collector's index promise holds on top of the bytes too: the index of a row
\* is its position.
THEOREM LinkIndexCorrect ==
  LinkSpec => []IndexIsPosition
<1>1. LinkInv => IndexIsPosition
  BY DEF LinkInv, Inv
<1>. QED BY <1>1, LinkInvCorrect, PTL
-----------------------------------------------------------------------------
(***************************************************************************)
(* Clean frames: the bytes implement the readings.                         *)
(***************************************************************************)

\* The rows stored do not outrun the frames, and the bound on these holds.
CleanInv == RowsHaveFrames /\ Len(sent) <= MaxFrames

\* If the frames are clean after a step they were clean before it.
LEMMA CleanBefore ==
  ASSUME LinkTypeOK, LinkNext \/ UNCHANGED linkVars, Clean'
  PROVE  Clean
<1>1. /\ startedClean' = startedClean
      /\ \A k \in DOMAIN sent : k \in DOMAIN sent' /\ sent'[k] = sent[k]
  <2>1. ASSUME NEW f \in Frames, Transmit(f)
        PROVE  /\ startedClean' = startedClean
               /\ \A k \in DOMAIN sent : k \in DOMAIN sent' /\ sent'[k] = sent[k]
    BY <2>1, TransmitWire DEF Transmit
  <2>2. CASE ReadByte \/ StoreRound \/ UNCHANGED linkVars
    BY <2>2 DEF ReadByte, StoreRound, linkVars
  <2>. QED BY <2>1, <2>2 DEF LinkNext
<1>2. startedClean
  BY <1>1 DEF Clean
<1>3. ASSUME NEW k \in DOMAIN sent, NEW i \in 2 .. 8
      PROVE  Bytes(sent[k])[i] \notin {STX, ETX}
  <2>1. k \in DOMAIN sent' /\ sent'[k] = sent[k]
    BY <1>1
  <2>2. Bytes(sent'[k])[i] \notin {STX, ETX}
    BY <2>1 DEF Clean
  <2>. QED BY <2>1, <2>2
<1>. QED BY <1>2, <1>3 DEF Clean

\* A byte of a clean frame is only kept, and with the last one the reading of
\* the frame is taken.
LEMMA CleanRead ==
  ASSUME LinkTypeOK, WireInv, ReadByte, Clean
  PROVE  /\ sent # <<>> /\ wire # <<>> /\ LastSent \in Frames
         /\ \/ wire' # <<>> /\ UNCHANGED vars
            \/ /\ wire' = <<>>
               /\ \/ FirstReading(LastSent.sensor, 100 * LastSent.hi + LastSent.lo)
                  \/ RepeatedReading(LastSent.sensor)
<1>1. wire # <<>> /\ startedClean /\ sent \in Seq(Frames) /\ sent' = sent
  BY DEF ReadByte, Clean, LinkTypeOK
<1>2. sent # <<>>
  BY <1>1 DEF WireInv
<1>3. PICK f \in Frames :
        /\ f = LastSent
        /\ wire' \in Seq(Byte) /\ Len(wire) \in Nat /\ Len(wire') = Len(wire) - 1
        /\ line' \in Seq(Byte)
        /\ Head(wire) = Bytes(f)[10 - Len(wire)]
        /\ Whole(f)' \/ Stump(f)'
  BY <1>2, ReadWire
<1>4. \A i \in 2 .. 8 : Bytes(f)[i] \notin {STX, ETX}
  <2>1. Len(sent) \in DOMAIN sent
    BY <1>1, <1>2, EmptySeq, LenProperties
  <2>. QED BY <1>3, <2>1 DEF Clean, LastSent
<1>5. Len(line') + Len(wire') = 8 /\ LineHas(line', f)
  <2>1. ~Stump(f)'
    BY <1>1, <1>2, <1>4 DEF Stump
  <2>. QED BY <1>3, <2>1 DEF Whole, LineHas
<1>6. Len(line') \in Nat /\ Len(wire') \in Nat
  BY <1>3, LenProperties
<1>7. 10 - Len(wire) \in 1 .. 9 /\ Len(wire') = Len(wire) - 1
  BY <1>3, <1>5, <1>6
<1>8. Head(wire) = ETX <=> Len(wire) = 1
  <2>1. 10 - Len(wire) = 1 \/ 10 - Len(wire) \in 2 .. 8 \/ 10 - Len(wire) = 9
    BY <1>7
  <2>2. Bytes(f)[1] # ETX /\ Bytes(f)[9] = ETX
    BY FrameBytes DEF STX, ETX
  <2>3. (10 - Len(wire) = 9) <=> (Len(wire) = 1)
    BY <1>3
  <2>4. Bytes(f)[10 - Len(wire)] = ETX <=> 10 - Len(wire) = 9
    BY <1>4, <2>1, <2>2
  <2>. QED BY <1>3, <2>3, <2>4
<1>9. wire' = <<>> <=> Len(wire) = 1
  BY <1>3, <1>7, EmptySeq
<1>10. CASE Head(wire) # ETX
  BY <1>1, <1>2, <1>3, <1>8, <1>9, <1>10 DEF ReadByte
<1>11. CASE Head(wire) = ETX
  <2>1. Len(line') = 8 /\ \A i \in 1 .. 8 : line'[i] = Bytes(f)[i + 1]
    <3>1. Len(line') = 8
      <4>1. Len(wire) = 1
        BY <1>8, <1>11
      <4>2. Len(wire') = 0
        BY <1>7, <4>1
      <4>. QED BY <1>5, <1>6, <4>2
    <3>. QED BY <1>5, <3>1 DEF LineHas
  <2>2. /\ line'[3] = Bytes(f)[4] /\ line'[4] = Bytes(f)[5]
        /\ line'[5] = Bytes(f)[6] /\ line'[6] = Bytes(f)[7]
    BY <2>1
  <2>3. /\ line'[3] = Opcode /\ line'[4] = f.sensor /\ f.sensor \in Sensors
        /\ line'[5] = f.hi /\ line'[6] = f.lo
    BY <2>2, FrameBytes
  <2>4. Parse(line')
    BY <1>11 DEF ReadByte
  <2>5. Reading(line')
    BY <2>1, <2>3, <2>4 DEF Parse, TooShort, NotAReading, Truncated
  <2>6. FirstReading(f.sensor, 100 * f.hi + f.lo) \/ RepeatedReading(f.sensor)
    BY <2>3, <2>5 DEF Reading, Decoded
  <2>. QED BY <1>1, <1>2, <1>3, <1>8, <1>9, <1>11, <2>6
<1>. QED BY <1>10, <1>11

\* The stages of UpdateDBData: only the insert adds a row, and it is one that
\* was due.
LEMMA StoreRows ==
  ASSUME TypeOK, Inv, Update
  PROVE  LET due(p) == IF p \in {"count", "insert"} THEN 1 ELSE 0
         IN  Len(data') + due(pc') <= Len(data) + due(pc)
<1>. DEFINE due(p) == IF p \in {"count", "insert"} THEN 1 ELSE 0
<1>0. data \in Seq(Row) /\ Len(data) \in Nat
  BY LenProperties DEF TypeOK
<1>1. CASE InsertRow \/ CommitRaises
  <2>1. [vals |-> value, index |-> nCount] \in Row
    BY DEF TypeOK, Row
  <2>2. Len(data') = Len(data) + 1
    BY <1>0, <1>1, <2>1, AppendElements DEF InsertRow, CommitRaises
  <2>3. pc = "insert" /\ pc' \in {"push", "diedStored"}
    BY <1>1 DEF InsertRow, CommitRaises
  <2>. QED BY <1>0, <2>2, <2>3
<1>2. CASE CountRows
  <2>1. pc = "count" /\ pc' = "insert" /\ data' = data
    BY <1>2 DEF CountRows
  <2>. QED BY <1>0, <2>1
<1>3. CASE PushRow \/ PushRaises \/ DbRaises \/ ResetRound
  <2>1. data' = data /\ pc' \in {"reset", "diedStored", "died", "idle"}
    BY <1>3 DEF PushRow, PushRaises, DbRaises, ResetRound
  <2>. QED BY <1>0, <2>1
<1>. QED BY <1>1, <1>2, <1>3 DEF Update

\* Every step of the link keeps the rows behind the frames.
LEMMA NextClean ==
  ASSUME LinkInv, CleanInv, [LinkNext]_linkVars
  PROVE  CleanInv'
<1>0. /\ LinkTypeOK /\ TypeOK /\ Inv /\ WireInv
      /\ Len(sent) \in Nat /\ Len(data) \in Nat
      /\ Len(sent) <= MaxFrames /\ MaxFrames \in Nat
  BY MaxFramesAssumption, LenProperties DEF LinkInv, LinkTypeOK, TypeOK, CleanInv
<1>. DEFINE owed(w) == IF w # <<>> THEN 1 ELSE 0
            due(p) == IF p \in {"count", "insert"} THEN 1 ELSE 0
<1>1. Clean => Len(data) + owed(wire) + due(pc) <= Len(sent)
  BY DEF CleanInv, RowsHaveFrames
<1>2. SUFFICES /\ Clean' => Len(data') + owed(wire') + due(pc') <= Len(sent')
               /\ Len(sent') <= MaxFrames
  BY DEF CleanInv, RowsHaveFrames
<1>3. Clean' => Clean
  BY <1>0, CleanBefore
<1>4. ASSUME NEW f \in Frames, Transmit(f)
      PROVE  /\ Clean => Len(data') + owed(wire') + due(pc') <= Len(sent')
             /\ Len(sent') <= MaxFrames
  <2>1. /\ wire = <<>> /\ wire' # <<>> /\ data' = data /\ pc' = pc
        /\ Len(sent) < MaxFrames /\ Len(sent') = Len(sent) + 1
    BY <1>0, <1>4, TransmitWire DEF Transmit, vars
  <2>. QED BY <1>0, <1>1, <2>1
<1>5. ASSUME ReadByte, Clean
      PROVE  Len(data') + owed(wire') + due(pc') <= Len(sent')
  <2>1. /\ wire # <<>> /\ LastSent \in Frames
        /\ \/ wire' # <<>> /\ UNCHANGED vars
           \/ /\ wire' = <<>>
              /\ \/ FirstReading(LastSent.sensor, 100 * LastSent.hi + LastSent.lo)
                 \/ RepeatedReading(LastSent.sensor)
    BY <1>0, <1>5, CleanRead
  <2>2. CASE wire' # <<>> /\ UNCHANGED vars
    BY <1>0, <1>1, <1>5, <2>1, <2>2 DEF vars, ReadByte
  <2>3. CASE wire' = <<>> /\ UNCHANGED data
    <3>1. due(pc) = 0 /\ due(pc') \in 0 .. 1 /\ sent' = sent
      BY <1>5 DEF ReadByte
    <3>. HIDE DEF due
    <3>. QED BY <1>0, <1>1, <1>5, <2>1, <2>3, <3>1
  <2>4. FirstReading(LastSent.sensor, 100 * LastSent.hi + LastSent.lo)
          \/ RepeatedReading(LastSent.sensor) => UNCHANGED data
    BY DEF FirstReading, RepeatedReading
  <2>. QED BY <2>1, <2>2, <2>3, <2>4
<1>6. ASSUME StoreRound, Clean
      PROVE  Len(data') + owed(wire') + due(pc') <= Len(sent')
  <2>1. Update /\ wire' = wire /\ sent' = sent
    BY <1>6 DEF StoreRound
  <2>2. Len(data') + due(pc') <= Len(data) + due(pc)
    BY <1>0, <2>1, StoreRows
  <2>3. /\ due(pc') \in 0 .. 1 /\ due(pc) \in 0 .. 1
        /\ owed(wire) \in 0 .. 1 /\ owed(wire') = owed(wire)
    BY <2>1
  <2>4. TypeOK' /\ Len(data') \in Nat
    <3>1. TypeOK'
      BY <1>0, <2>1, UpdateType
    <3>2. data' \in Seq(Row)
      BY <3>1 DEF TypeOK
    <3>. QED BY <3>1, <3>2, LenProperties
  <2>. HIDE DEF due, owed
  <2>. QED BY <1>0, <1>1, <1>6, <2>1, <2>2, <2>3, <2>4
<1>7. CASE UNCHANGED linkVars
  BY <1>0, <1>1, <1>3, <1>7 DEF linkVars, vars
<1>8. ReadByte \/ StoreRound => sent' = sent
  BY DEF ReadByte, StoreRound
<1>. QED BY <1>0, <1>3, <1>4, <1>5, <1>6, <1>7, <1>8 DEF LinkNext

\* A step that leaves the frames clean is a step of Collector's reader, or
\* one that Collector does not see.
LEMMA CleanStep ==
  ASSUME LinkInv, CleanInv, [LinkNext]_linkVars, Clean'
  PROVE  Next \/ UNCHANGED vars
<1>0. /\ LinkTypeOK /\ WireInv /\ Len(sent) <= MaxFrames /\ Clean
      /\ Len(sent) \in Nat /\ Len(data) \in Nat
  BY CleanBefore, LenProperties DEF LinkInv, LinkTypeOK, TypeOK, CleanInv
<1>1. CASE ReadByte
  <2>1. /\ wire # <<>> /\ LastSent \in Frames
        /\ \/ UNCHANGED vars
           \/ FirstReading(LastSent.sensor, 100 * LastSent.hi + LastSent.lo)
           \/ RepeatedReading(LastSent.sensor)
    BY <1>0, <1>1, CleanRead
  <2>2. Len(data) < MaxRows
    <3>1. Len(data) + 1 <= Len(sent)
      BY <1>0, <1>1, <2>1 DEF CleanInv, RowsHaveFrames, ReadByte
    <3>. QED BY <1>0, <3>1, MaxFramesAssumption, RowsAssumption
  <2>3. LastSent.sensor \in Sensors /\ 100 * LastSent.hi + LastSent.lo \in Values
    BY <2>1, FrameBytes
  <2>. QED BY <2>1, <2>2, <2>3 DEF Next, Arrival
<1>2. CASE StoreRound
  BY <1>2 DEF StoreRound, Next
<1>3. CASE UNCHANGED vars
  BY <1>3
<1>. QED BY <1>1, <1>2, <1>3 DEF LinkNext, Transmit, linkVars

\* As long as no byte within a frame is a 43 or a 44, the framer and the parser
\* implement the collector's readings: each frame is one reading of its sensor,
\* taken when its last byte arrives, and nothing else touches the round.
THEOREM CleanLinkCorrect == LinkSpec => CleanLinkIsCollector
<1>1. LinkSpec => []LinkInv
  BY LinkInvCorrect
<1>2. LinkInit => CleanInv
  <2>. SUFFICES ASSUME LinkInit
                PROVE  CleanInv
    OBVIOUS
  <2>1. sent = <<>> /\ Len(sent) = 0 /\ data = <<>> /\ Len(data) = 0
    BY DEF LinkInit, Init
  <2>2. Clean => wire = <<>>
    BY DEF LinkInit, Clean
  <2>3. pc = "idle"
    BY DEF LinkInit, Init
  <2>. QED BY <2>1, <2>2, <2>3, MaxFramesAssumption DEF CleanInv, RowsHaveFrames
<1>3. LinkInv /\ CleanInv /\ [LinkNext]_linkVars => CleanInv'
  BY NextClean
<1>4. LinkInv /\ CleanInv /\ [LinkNext]_linkVars
        => [Clean' => Next \/ UNCHANGED vars]_linkVars
  BY CleanStep
<1>. QED BY <1>1, <1>2, <1>3, <1>4, PTL DEF LinkSpec, CleanLinkIsCollector
-----------------------------------------------------------------------------
(***************************************************************************)
(* The reference: the rounds of a sequence of frames, frame by frame.      *)
(***************************************************************************)
NoRounds == [open |-> Nothing, rows |-> <<>>]

\* a[k] are the rounds of the first k of the frames q, for k up to n.
RoundsAfter(a, q, k) == IF k = 0 THEN NoRounds ELSE Offer(a[k - 1], q[k])

IsRun(a, q, n) == a = [k \in 0 .. n |-> RoundsAfter(a, q, k)]

\* The rounds can be computed frame by frame.
LEMMA RunExists ==
  ASSUME NEW q, NEW n \in Nat
  PROVE  \E a : IsRun(a, q, n)
<1>. DEFINE T == {m \in Nat : ~\E a : IsRun(a, q, m)}
<1>. SUFFICES ASSUME T # {} PROVE FALSE
  OBVIOUS
<1>1. PICK m \in T : \A y \in T : m <= y
  BY Least
<1>2. CASE m = 0
  <2>1. IsRun([k \in 0 .. 0 |-> NoRounds], q, 0)
    BY DEF IsRun, RoundsAfter
  <2>. QED BY <1>2, <2>1
<1>3. CASE m # 0
  <2>1. m - 1 \in Nat /\ m - 1 \notin T
    BY <1>1, <1>3
  <2>2. PICK b : IsRun(b, q, m - 1)
    BY <2>1
  <2>. DEFINE a == [k \in 0 .. m |-> IF k = m THEN Offer(b[m - 1], q[m]) ELSE b[k]]
  <2>3. ASSUME NEW k \in 0 .. m
        PROVE  a[k] = RoundsAfter(a, q, k)
    <3>1. CASE k = m
      BY <1>3, <2>1, <3>1 DEF RoundsAfter
    <3>2. CASE k # m
      <4>1. k \in 0 .. m - 1 /\ a[k] = b[k]
        BY <3>2
      <4>2. b[k] = RoundsAfter(b, q, k)
        BY <4>1, <2>2 DEF IsRun
      <4>3. k # 0 => k - 1 \in 0 .. m /\ k - 1 # m /\ a[k - 1] = b[k - 1]
        BY <4>1
      <4>. HIDE DEF a
      <4>. QED BY <4>1, <4>2, <4>3 DEF RoundsAfter
    <3>. QED BY <3>1, <3>2
  <2>4. a = [k \in 0 .. m |-> a[k]]
    OBVIOUS
  <2>5. IsRun(a, q, m)
    <3>. HIDE DEF a
    <3>. QED BY <2>3, <2>4 DEF IsRun
  <2>. QED BY <2>5
<1>. QED BY <1>2, <1>3

\* They depend on nothing but the frames.
LEMMA RunUnique ==
  ASSUME NEW q, NEW r, NEW n \in Nat, NEW m \in Nat, n <= m, NEW a, NEW b,
         IsRun(a, q, n), IsRun(b, r, m), \A k \in 1 .. n : q[k] = r[k]
  PROVE  a[n] = b[n]
<1>. DEFINE T == {k \in 0 .. n : a[k] # b[k]}
<1>1. ASSUME NEW k \in 0 .. n
      PROVE  /\ a[k] = RoundsAfter(a, q, k)
             /\ b[k] = RoundsAfter(b, r, k)
  <2>1. k \in 0 .. m
    OBVIOUS
  <2>2. a[k] = RoundsAfter(a, q, k)
    BY DEF IsRun
  <2>3. b[k] = RoundsAfter(b, r, k)
    BY <2>1 DEF IsRun
  <2>. QED BY <2>2, <2>3
<1>2. ASSUME T # {}
      PROVE  FALSE
  <2>0. T \subseteq Nat
    OBVIOUS
  <2>1. PICK k \in T : \A y \in T : k <= y
    <3>. HIDE DEF T
    <3>. QED BY <1>2, <2>0, Least
  <2>2. CASE k = 0
    BY <1>1, <2>1, <2>2 DEF RoundsAfter
  <2>3. CASE k # 0
    <3>1. k - 1 \in 0 .. n /\ k - 1 \notin T /\ k \in 1 .. n
      BY <2>1, <2>3
    <3>2. a[k - 1] = b[k - 1] /\ q[k] = r[k]
      BY <3>1
    <3>. QED BY <1>1, <2>1, <2>3, <3>2 DEF RoundsAfter
  <2>. QED BY <2>2, <2>3
<1>. QED BY <1>2

\* The reference computes such a run.
LEMMA RoundsAreRun ==
  ASSUME NEW q \in Seq(Frames)
  PROVE  \E a : IsRun(a, q, Len(q)) /\ Rounds(q) = a[Len(q)]
<1>1. Rounds(q) = (CHOOSE a : IsRun(a, q, Len(q)))[Len(q)]
  BY DEF Rounds, IsRun, RoundsAfter, NoRounds
<1>2. \E a : IsRun(a, q, Len(q))
  BY RunExists, LenProperties
<1>. QED BY <1>1, <1>2

\* Before the first frame there are no rounds.
LEMMA RoundsOfNone ==
  Rounds(<<>>) = NoRounds
<1>1. <<>> \in Seq(Frames) /\ Len(<<>>) = 0
  OBVIOUS
<1>2. PICK a : IsRun(a, <<>>, 0) /\ Rounds(<<>>) = a[0]
  BY <1>1, RoundsAreRun
<1>. QED BY <1>2 DEF IsRun, RoundsAfter

\* One more frame is offered to the rounds of those before it.
LEMMA RoundsOfMore ==
  ASSUME NEW q \in Seq(Frames), NEW f \in Frames
  PROVE  Rounds(Append(q, f)) = Offer(Rounds(q), f)
<1>. DEFINE r == Append(q, f)
            n == Len(q)
<1>1. /\ r \in Seq(Frames) /\ Len(r) = n + 1 /\ r[n + 1] = f /\ n \in Nat
      /\ \A k \in 1 .. n : r[k] = q[k]
  BY AppendProperties, LenProperties
<1>2. PICK a : IsRun(a, q, n) /\ Rounds(q) = a[n]
  BY RoundsAreRun
<1>3. PICK b : IsRun(b, r, n + 1) /\ Rounds(r) = b[n + 1]
  BY <1>1, RoundsAreRun
<1>. HIDE DEF r, n
<1>4. a[n] = b[n]
  BY <1>1, <1>2, <1>3, RunUnique
<1>5. b[n + 1] = Offer(b[n], f)
  BY <1>1, <1>3 DEF IsRun, RoundsAfter
<1>. QED BY <1>2, <1>3, <1>4, <1>5 DEF r
-----------------------------------------------------------------------------
(***************************************************************************)
(* Clean frames: the table is the rounds of the frames.                    *)
(***************************************************************************)
Vals(rows) == [i \in DOMAIN rows |-> rows[i].vals]

\* The flags and the values of a round, as the reference has them.
Held(flags, vals) == [s \in Sensors |-> IF flags[s] THEN {vals[s]} ELSE {}]

\* Where the reader is, the rounds r are the table and what it still does.
InStep(r) ==
  /\ pc = "idle" => r = [open |-> Held(setFlag, value), rows |-> Vals(data)]
  /\ pc \in {"count", "insert"} =>
       r = [open |-> Nothing, rows |-> Append(Vals(data), value)]
  /\ pc \in {"push", "reset"} => r = [open |-> Nothing, rows |-> Vals(data)]

\* q are the frames that were read: all that were sent but the one on the wire.
Read(q) ==
  /\ wire = <<>> => sent = q
  /\ wire # <<>> => sent = Append(q, LastSent)

TableInv == Clean => \E q \in Seq(Frames) : Read(q) /\ InStep(Rounds(q))

\* A closed round has the values of its sensors and 0 for the silent ones.
LEMMA ClosedHeld ==
  ASSUME NEW flags, NEW vals \in [Sensors -> Readings],
         \A s \in Sensors : ~flags[s] => vals[s] = 0
  PROVE  Closed(Held(flags, vals)) = vals
<1>1. ASSUME NEW s \in Sensors
      PROVE  Closed(Held(flags, vals))[s] = vals[s]
  BY DEF Closed, Held
<1>2. Closed(Held(flags, vals)) = [s \in Sensors |-> Closed(Held(flags, vals))[s]]
  BY DEF Closed
<1>. QED BY <1>1, <1>2

\* The values of a table and of one with a row more.
LEMMA ValsAppend ==
  ASSUME NEW rows \in Seq(Row), NEW row \in Row
  PROVE  Vals(Append(rows, row)) = Append(Vals(rows), row.vals)
<1>. DEFINE n == Len(rows)
            R == [Sensors -> Readings]
<1>1. /\ n \in Nat /\ DOMAIN rows = 1 .. n
      /\ Append(rows, row) \in Seq(Row) /\ DOMAIN Append(rows, row) = 1 .. n + 1
      /\ Append(rows, row)[n + 1] = row
      /\ \A i \in 1 .. n : Append(rows, row)[i] = rows[i]
  BY AppendProperties, LenProperties
<1>2. /\ row.vals \in R
      /\ \A i \in 1 .. n : rows[i].vals \in R
  <2>1. \A i \in 1 .. n : rows[i] \in Row
    BY ElementOfSeq
  <2>. QED BY <2>1 DEF Row
<1>. HIDE DEF n, R
<1>3. Vals(rows) \in Seq(R) /\ Len(Vals(rows)) = n
  BY <1>1, <1>2 DEF Vals
<1>4. /\ DOMAIN Append(Vals(rows), row.vals) = 1 .. n + 1
      /\ Append(Vals(rows), row.vals) \in Seq(R)
      /\ Append(Vals(rows), row.vals)[n + 1] = row.vals
      /\ \A i \in 1 .. n : Append(Vals(rows), row.vals)[i] = Vals(rows)[i]
  BY <1>1, <1>2, <1>3, AppendProperties, LenProperties
<1>5. DOMAIN Vals(Append(rows, row)) = 1 .. n + 1
  BY <1>1 DEF Vals
<1>6. ASSUME NEW i \in 1 .. n + 1
      PROVE  Vals(Append(rows, row))[i] = Append(Vals(rows), row.vals)[i]
  <2>1. Vals(Append(rows, row))[i] = Append(rows, row)[i].vals
    BY <1>1 DEF Vals
  <2>2. CASE i \in 1 .. n
    <3>1. Vals(rows)[i] = rows[i].vals
      BY <1>1, <2>2 DEF Vals
    <3>. QED BY <1>1, <1>4, <2>1, <2>2, <3>1
  <2>3. CASE i = n + 1
    BY <1>1, <1>4, <2>1, <2>3
  <2>4. i \in 1 .. n \/ i = n + 1
    BY <1>1
  <2>. QED BY <2>2, <2>3, <2>4
<1>7. /\ Vals(Append(rows, row)) = [i \in 1 .. n + 1 |-> Vals(Append(rows, row))[i]]
      /\ Append(Vals(rows), row.vals) = [i \in 1 .. n + 1 |-> Append(Vals(rows), row.vals)[i]]
  <2>1. Vals(Append(rows, row)) = [i \in 1 .. n + 1 |-> Vals(Append(rows, row))[i]]
    BY <1>1 DEF Vals
  <2>2. \A z \in Seq(R) : z = [i \in DOMAIN z |-> z[i]]
    OBVIOUS
  <2>. QED BY <1>4, <2>1, <2>2
<1>. QED BY <1>6, <1>7

\* What the reader does with a reading is what the reference does with the
\* frame.
LEMMA OfferReading ==
  ASSUME TypeOK, Inv, NEW f \in Frames, NEW s, s = f.sensor, NEW v, v = 100 * f.hi + f.lo,
         FirstReading(s, v) \/ RepeatedReading(s), NEW r, InStep(r)
  PROVE  InStep(Offer(r, f))'
<1>1. s \in Sensors /\ v \in Values /\ v \in Readings
  BY FrameBytes DEF Readings
<1>. DEFINE open == Held(setFlag, value)
            joined == [open EXCEPT ![s] = @ \cup {v}]
<1>2. pc = "idle" /\ data' = data
  BY DEF FirstReading, RepeatedReading
<1>3. r = [open |-> open, rows |-> Vals(data)] /\ r.open = open /\ r.rows = Vals(data)
  BY <1>2 DEF InStep
<1>4. /\ open \in [Sensors -> SUBSET Readings]
      /\ \A u \in Sensors : open[u] = IF setFlag[u] THEN {value[u]} ELSE {}
  BY DEF TypeOK, Held
<1>5. CASE FirstReading(s, v)
  <2>1. /\ ~setFlag[s] /\ setFlag' = [setFlag EXCEPT ![s] = TRUE]
        /\ value' = [value EXCEPT ![s] = v]
        /\ setFlag' \in [Sensors -> BOOLEAN] /\ value' \in [Sensors -> Readings]
        /\ pc' = IF RoundComplete' THEN "count" ELSE "idle"
    BY <1>1, <1>5 DEF FirstReading, TypeOK
  <2>2. open[s] = {}
    BY <1>1, <1>4, <2>1
  <2>3. joined = Held(setFlag', value')
    <3>1. ASSUME NEW u \in Sensors
          PROVE  joined[u] = Held(setFlag', value')[u]
      <4>1. CASE u = s
        <5>1. joined[u] = {v} /\ setFlag'[u] = TRUE /\ value'[u] = v
          BY <1>1, <1>4, <2>1, <2>2, <4>1 DEF TypeOK
        <5>. QED BY <5>1 DEF Held
      <4>2. CASE u # s
        <5>1. joined[u] = open[u] /\ setFlag'[u] = setFlag[u] /\ value'[u] = value[u]
          BY <1>1, <1>4, <2>1, <4>2 DEF TypeOK
        <5>. QED BY <1>4, <5>1 DEF Held
      <4>. QED BY <4>1, <4>2
    <3>2. joined = [u \in Sensors |-> joined[u]]
      BY <1>4
    <3>. HIDE DEF joined
    <3>. QED BY <3>1, <3>2 DEF Held
  <2>4. \A u \in Sensors : ~setFlag'[u] => value'[u] = 0
    BY <1>1, <2>1 DEF Inv, TypeOK
  <2>. HIDE DEF joined
  <2>5. Closed(joined) = value'
    <3>1. PICK flags, vals : flags = setFlag' /\ vals = value'
      OBVIOUS
    <3>2. vals \in [Sensors -> Readings] /\ \A u \in Sensors : ~flags[u] => vals[u] = 0
      BY <2>1, <2>4, <3>1
    <3>3. Closed(Held(flags, vals)) = vals
      BY <3>2, ClosedHeld
    <3>. QED BY <2>3, <3>1, <3>3
  <2>6. (\A u \in Sensors : joined[u] # {}) <=> RoundComplete'
    BY <2>3 DEF Held, RoundComplete
  <2>. HIDE DEF open
  <2>7. Offer(r, f) = IF \A u \in Sensors : joined[u] # {}
                      THEN [open |-> Nothing, rows |-> Append(r.rows, Closed(joined))]
                      ELSE [open |-> joined, rows |-> r.rows]
    BY <1>3, <2>2 DEF Offer, joined
  <2>8. CASE RoundComplete'
    <3>1. Offer(r, f) = [open |-> Nothing, rows |-> Append(Vals(data), value')]
      BY <1>3, <2>5, <2>6, <2>7, <2>8
    <3>2. pc' = "count"
      BY <2>1, <2>8
    <3>. QED BY <1>2, <3>1, <3>2 DEF InStep
  <2>9. CASE ~RoundComplete'
    <3>1. Offer(r, f) = [open |-> Held(setFlag', value'), rows |-> Vals(data)]
      BY <1>3, <2>3, <2>6, <2>7, <2>9
    <3>2. pc' = "idle"
      BY <2>1, <2>9
    <3>. QED BY <1>2, <3>1, <3>2 DEF InStep
  <2>. QED BY <2>8, <2>9
<1>6. CASE RepeatedReading(s)
  <2>1. setFlag[s] /\ value' = value /\ pc' = "count"
    BY <1>6 DEF RepeatedReading
  <2>2. open[s] # {}
    BY <1>1, <1>4, <2>1
  <2>3. Closed(open) = value
    BY ClosedHeld DEF Inv, TypeOK
  <2>. HIDE DEF open
  <2>4. Offer(r, f) = [open |-> Nothing, rows |-> Append(Vals(data), value)]
    BY <1>3, <2>2, <2>3 DEF Offer
  <2>. QED BY <1>2, <2>1, <2>4 DEF InStep
<1>. QED BY <1>5, <1>6

\* UpdateDBData brings the table to where the rounds are.
LEMMA StoreInStep ==
  ASSUME TypeOK, Inv, Update, NEW r, InStep(r)
  PROVE  InStep(r)'
<1>1. CASE CountRows
  <2>1. pc = "count" /\ pc' = "insert" /\ data' = data /\ value' = value
    BY <1>1 DEF CountRows, roundVars
  <2>. QED BY <2>1 DEF InStep
<1>2. CASE InsertRow
  <2>1. pc = "insert" /\ pc' = "push"
    BY <1>2 DEF InsertRow
  <2>2. [vals |-> value, index |-> nCount] \in Row /\ data \in Seq(Row)
    BY DEF TypeOK, Row
  <2>3. Vals(data') = Append(Vals(data), value)
    BY <1>2, <2>2, ValsAppend DEF InsertRow
  <2>. QED BY <2>1, <2>3 DEF InStep
<1>3. CASE PushRow
  <2>1. pc = "push" /\ pc' = "reset" /\ data' = data
    BY <1>3 DEF PushRow
  <2>. QED BY <2>1 DEF InStep
<1>4. CASE ResetRound
  <2>1. pc = "reset" /\ pc' = "idle" /\ data' = data
    BY <1>4 DEF ResetRound
  <2>2. Held(setFlag', value') = Nothing
    BY <1>4 DEF ResetRound, Held, Nothing
  <2>. QED BY <2>1, <2>2 DEF InStep
<1>5. CASE DbRaises \/ CommitRaises \/ PushRaises
  <2>1. pc' \in {"died", "diedStored"}
    BY <1>5 DEF DbRaises, CommitRaises, PushRaises
  <2>. QED BY <2>1 DEF InStep
<1>. QED BY <1>1, <1>2, <1>3, <1>4, <1>5 DEF Update

\* Every step of the link keeps the table in step with the frames read.
LEMMA NextTable ==
  ASSUME LinkInv, TableInv, [LinkNext]_linkVars
  PROVE  TableInv'
<1>. SUFFICES ASSUME Clean'
              PROVE  (\E q \in Seq(Frames) : Read(q) /\ InStep(Rounds(q)))'
  BY DEF TableInv
<1>0. LinkTypeOK /\ TypeOK /\ Inv /\ WireInv /\ Clean /\ sent \in Seq(Frames)
  BY CleanBefore DEF LinkInv, LinkTypeOK
<1>1. PICK q \in Seq(Frames) : Read(q) /\ InStep(Rounds(q))
  BY <1>0 DEF TableInv
<1>2. ASSUME UNCHANGED <<vars, sent>>, wire = <<>> <=> wire' = <<>>
      PROVE  Read(q)' /\ InStep(Rounds(q))'
  <2>1. Read(q)'
    BY <1>1, <1>2 DEF Read, LastSent
  <2>2. InStep(Rounds(q))'
    BY <1>1, <1>2 DEF InStep, vars
  <2>. QED BY <2>1, <2>2
<1>3. ASSUME NEW f \in Frames, Transmit(f)
      PROVE  Read(q)' /\ InStep(Rounds(q))'
  <2>1. wire = <<>> /\ sent' = Append(sent, f) /\ UNCHANGED vars
    BY <1>3 DEF Transmit
  <2>2. wire' # <<>> /\ LastSent' = f
    BY <1>0, <1>3, TransmitWire
  <2>3. sent = q
    BY <1>1, <2>1 DEF Read
  <2>4. Read(q)'
    BY <2>1, <2>2, <2>3 DEF Read
  <2>5. InStep(Rounds(q))'
    BY <1>1, <2>1 DEF InStep, vars
  <2>. QED BY <2>4, <2>5
<1>4. ASSUME ReadByte
      PROVE  \E p \in Seq(Frames) : Read(p)' /\ InStep(Rounds(p))'
  <2>1. /\ sent # <<>> /\ wire # <<>> /\ LastSent \in Frames /\ sent' = sent
        /\ \/ wire' # <<>> /\ UNCHANGED vars
           \/ /\ wire' = <<>>
              /\ \/ FirstReading(LastSent.sensor, 100 * LastSent.hi + LastSent.lo)
                 \/ RepeatedReading(LastSent.sensor)
    BY <1>0, <1>4, CleanRead DEF ReadByte
  <2>2. CASE wire' # <<>> /\ UNCHANGED vars
    BY <1>2, <2>1, <2>2
  <2>3. CASE /\ wire' = <<>>
             /\ \/ FirstReading(LastSent.sensor, 100 * LastSent.hi + LastSent.lo)
                \/ RepeatedReading(LastSent.sensor)
    <3>1. PICK f \in Frames : f = LastSent
      BY <2>1
    <3>2. sent = Append(q, f)
      BY <1>1, <2>1, <3>1 DEF Read
    <3>3. Read(sent)'
      BY <2>1, <2>3 DEF Read
    <3>4. InStep(Offer(Rounds(q), f))'
      BY <1>0, <1>1, <2>3, <3>1, OfferReading
    <3>5. Rounds(sent) = Offer(Rounds(q), f)
      BY <3>2, RoundsOfMore
    <3>6. PICK p \in Seq(Frames) : p = sent
      BY <1>0
    <3>7. Read(p)' /\ InStep(Rounds(p))'
      BY <2>1, <3>2, <3>3, <3>4, <3>5, <3>6 DEF Read
    <3>. QED BY <3>7
  <2>. QED BY <2>1, <2>2, <2>3
<1>5. ASSUME StoreRound
      PROVE  Read(q)' /\ InStep(Rounds(q))'
  <2>1. Read(q)'
    BY <1>1, <1>5 DEF StoreRound, Read, LastSent
  <2>2. InStep(Rounds(q))'
    BY <1>0, <1>1, <1>5, StoreInStep DEF StoreRound
  <2>. QED BY <2>1, <2>2
<1>6. CASE UNCHANGED linkVars
  BY <1>2, <1>6 DEF linkVars
<1>. QED BY <1>3, <1>4, <1>5, <1>6 DEF LinkNext

\* As long as frames are clean the table is what the frames make of it: when
\* everything sent is read and stored, the rows are the rounds of the frames,
\* computed from the frames alone, nothing lost, repeated or torn by framer,
\* parser or UpdateDBData, however many frames were sent and in what order.
THEOREM TableCorrect ==
  LinkSpec => []TableIsRoundsOfFrames
<1>1. LinkSpec => []LinkInv
  BY LinkInvCorrect
<1>2. LinkInit => TableInv
  <2>. SUFFICES ASSUME LinkInit, Clean
                PROVE  \E q \in Seq(Frames) : Read(q) /\ InStep(Rounds(q))
    BY DEF TableInv
  <2>1. wire = <<>> /\ sent = <<>> /\ pc = "idle" /\ data = <<>>
        /\ setFlag = [s \in Sensors |-> FALSE]
    BY DEF LinkInit, Clean, Init
  <2>2. Read(<<>>) /\ <<>> \in Seq(Frames)
    BY <2>1 DEF Read
  <2>3. Held(setFlag, value) = Nothing
    BY <2>1 DEF Held, Nothing
  <2>4. Vals(data) = <<>>
    <3>1. DOMAIN data = {}
      BY <2>1
    <3>. QED BY <3>1 DEF Vals
  <2>5. InStep(Rounds(<<>>))
    BY <2>1, <2>3, <2>4, RoundsOfNone DEF InStep, NoRounds
  <2>. QED BY <2>2, <2>5
<1>3. LinkInv /\ TableInv /\ [LinkNext]_linkVars => TableInv'
  BY NextTable
<1>4. TableInv => TableIsRoundsOfFrames
  <2>. SUFFICES ASSUME TableInv, Clean, wire = <<>>, pc = "idle"
                PROVE  [i \in DOMAIN data |-> data[i].vals] = Rounds(sent).rows
    BY DEF TableIsRoundsOfFrames
  <2>1. InStep(Rounds(sent))
    BY DEF TableInv, Read
  <2>. QED BY <2>1 DEF InStep, Vals
<1>. QED BY <1>1, <1>2, <1>3, <1>4, PTL DEF LinkSpec
=============================================================================
