-------------------------- MODULE CollectorProofs ---------------------------
(***************************************************************************)
(* Theorems about Collector, for every set of sensors and readings.        *)
(***************************************************************************)
EXTENDS Collector, TLAPS

\* The bytes of a frame are what the type invariant says of them.
LEMMA DigitsType ==
  ASSUME NEW f \in [Sensors -> Readings]
  PROVE  Frame(f) \in [Sensors -> Nat \X (0 .. 99)]
<1>1. Readings \subseteq Nat
  BY ValuesAssumption DEF Readings
<1>2. ASSUME NEW v \in Nat
      PROVE  Digits(v) \in Nat \X (0 .. 99)
  <2>1. v \div 100 \in Nat /\ v % 100 \in 0 .. 99
    OBVIOUS
  <2>. QED BY <2>1 DEF Digits
<1>. QED BY <1>1, <1>2 DEF Frame

\* Appending a well-typed element keeps the type of a sequence.
LEMMA AppendType ==
  ASSUME NEW S, NEW q \in Seq(S), NEW e \in S
  PROVE  Append(q, e) \in Seq(S)
OBVIOUS

\* The steps of UpdateDBData keep the types.
LEMMA UpdateType ==
  ASSUME TypeOK, Update
  PROVE  TypeOK'
<1>. USE DEF TypeOK, PcStates, Updating, Dead, roundVars
<1>1. CASE CountRows
  BY <1>1 DEF CountRows
<1>2. CASE InsertRow \/ CommitRaises
  <2>1. [vals |-> value, index |-> nCount] \in Row
    BY DEF Row
  <2>2. data' \in Seq(Row)
    <3>1. PICK r \in Row : data' = Append(data, r)
      BY <1>2, <2>1 DEF InsertRow, CommitRaises
    <3>2. data \in Seq(Row)
      OBVIOUS
    <3>. QED BY <3>1, <3>2, AppendType
  <2>. QED BY <1>2, <2>2 DEF InsertRow, CommitRaises
<1>3. CASE PushRow
  <2>1. ser1' \in Seq([Sensors -> Nat \X (0 .. 99)])
    BY <1>3, DigitsType, AppendType DEF PushRow
  <2>. QED BY <1>3, <2>1 DEF PushRow
<1>4. CASE ResetRound
  <2>1. setFlag' \in [Sensors -> BOOLEAN]
    BY <1>4 DEF ResetRound
  <2>2. value' \in [Sensors -> Readings]
    BY <1>4 DEF ResetRound, Readings
  <2>3. TimeoutCnt' \in 0 .. MaximumTimeout
    BY <1>4, TimeoutAssumption DEF ResetRound
  <2>. QED BY <1>4, <2>1, <2>2, <2>3 DEF ResetRound
<1>5. CASE DbRaises
  BY <1>5 DEF DbRaises
<1>6. CASE PushRaises
  BY <1>6 DEF PushRaises
<1>. QED BY <1>1, <1>2, <1>3, <1>4, <1>5, <1>6 DEF Update

\* The globals of Serial.py start well typed.
LEMMA InitType == Init => TypeOK
<1>. SUFFICES ASSUME Init
              PROVE  TypeOK
  OBVIOUS
<1>1. <<>> \in Seq(Row) /\ <<>> \in Seq([Sensors -> Nat \X (0 .. 99)])
  OBVIOUS
<1>2. setFlag \in [Sensors -> BOOLEAN]
  BY DEF Init
<1>3. value \in [Sensors -> Readings]
  BY DEF Init, Readings
<1>4. TimeoutCnt \in 0 .. MaximumTimeout
  BY TimeoutAssumption DEF Init
<1>. QED
  BY <1>1, <1>2, <1>3, <1>4 DEF Init, TypeOK, PcStates

\* No step breaks the types.
LEMMA NextType == TypeOK /\ [Next]_vars => TypeOK'
<1>. SUFFICES ASSUME TypeOK, [Next]_vars
              PROVE  TypeOK'
  OBVIOUS
<1>1. ASSUME NEW s \in Sensors, NEW v \in Values, FirstReading(s, v)
      PROVE  TypeOK'
  <2>1. v \in Readings
    BY DEF Readings
  <2>. QED BY <1>1, <2>1 DEF FirstReading, TypeOK, PcStates, Updating
<1>2. ASSUME NEW s \in Sensors, RepeatedReading(s)
      PROVE  TypeOK'
  BY <1>2 DEF RepeatedReading, TypeOK, PcStates, Updating
<1>3. CASE Update
  BY <1>3, UpdateType
<1>4. CASE UNCHANGED vars
  BY <1>4 DEF vars, TypeOK
<1>. QED
  BY <1>1, <1>2, <1>3, <1>4 DEF Next, Arrival

\* Type correctness: every stored reading is one a sensor sent or the 0 of a
\* silent sensor, and the second byte of a pushed pair is always below 100.
THEOREM TypeCorrect == Spec => []TypeOK
BY InitType, NextType, PTL DEF Spec
-----------------------------------------------------------------------------
\* The program starts with an empty log and an empty round.
LEMMA InitInv == Init => Inv
<1>. SUFFICES ASSUME Init
              PROVE  Inv
  OBVIOUS
<1>1. ~RoundComplete
  BY SensorsAssumption DEF Init, RoundComplete
<1>. QED
  BY <1>1 DEF Init, Inv, IndexIsPosition, PushedRowsMatch

\* Two bytes are enough for a value: the phone gets back what was stored.
LEMMA DigitsDecode ==
  ASSUME NEW v \in Nat
  PROVE  100 * Digits(v)[1] + Digits(v)[2] = v
BY DEF Digits

\* The last element of the longer sequence is the new one, the others stay.
LEMMA AppendElements ==
  ASSUME NEW S, NEW q \in Seq(S), NEW e \in S
  PROVE  /\ Len(Append(q, e)) = Len(q) + 1
         /\ Append(q, e)[Len(q) + 1] = e
         /\ \A i \in 1 .. Len(q) : Append(q, e)[i] = q[i]
OBVIOUS

\* Keeping the first reading of a sensor preserves the invariant.
LEMMA FirstReadingInv ==
  ASSUME TypeOK, Inv, NEW s \in Sensors, NEW v \in Values, FirstReading(s, v)
  PROVE  Inv'
BY DEF FirstReading, TypeOK, Inv, IndexIsPosition, PushedRowsMatch

\* What the two properties say of a log and a port that do not change.
LEMMA UnchangedLog ==
  ASSUME IndexIsPosition, PushedRowsMatch, UNCHANGED <<data, ser1>>
  PROVE  IndexIsPosition' /\ PushedRowsMatch'
BY DEF IndexIsPosition, PushedRowsMatch

\* The row inserted by UpdateDBData takes the position data_count announced.
LEMMA InsertRowInv ==
  ASSUME TypeOK, Inv, InsertRow \/ CommitRaises
  PROVE  Inv'
<1>. DEFINE row == [vals |-> value, index |-> nCount]
<1>0. pc' \in {"push", "diedStored"} /\ pc = "insert"
  BY DEF InsertRow, CommitRaises, Inv
<1>1. row \in Row /\ data \in Seq(Row) /\ data' = Append(data, row)
  BY DEF InsertRow, CommitRaises, TypeOK, Row
<1>2. /\ Len(data') = Len(data) + 1
      /\ data'[Len(data) + 1] = row
      /\ \A i \in 1 .. Len(data) : data'[i] = data[i]
  BY <1>1, AppendElements
<1>3. /\ DOMAIN data = 1 .. Len(data)
      /\ DOMAIN data' = 1 .. Len(data) + 1
      /\ Len(data) \in Nat
  BY <1>1, <1>2
<1>4. row.vals = value /\ row.index = Len(data)
  BY DEF InsertRow, CommitRaises, Inv
<1>. HIDE DEF row
<1>5. IndexIsPosition'
  <2>. SUFFICES ASSUME NEW i \in 1 .. Len(data) + 1
                PROVE  data'[i].index = i - 1
    BY <1>3 DEF IndexIsPosition
  <2>1. CASE i \in 1 .. Len(data)
    BY <1>2, <1>3, <2>1 DEF Inv, IndexIsPosition
  <2>2. CASE i = Len(data) + 1
    BY <1>2, <1>3, <1>4, <2>2
  <2>. QED BY <1>3, <2>1, <2>2
<1>6. /\ ser1' = ser1 /\ Len(ser1) = Len(data)
      /\ DOMAIN ser1 = 1 .. Len(ser1)
  <2>1. ser1 \in Seq([Sensors -> Nat \X (0 .. 99)])
    BY DEF TypeOK
  <2>. QED BY <1>0, <2>1 DEF InsertRow, CommitRaises, Inv
<1>7. PushedRowsMatch'
  <2>. SUFFICES ASSUME NEW i \in DOMAIN ser1, NEW s \in Sensors
                PROVE  100 * ser1[i][s][1] + ser1[i][s][2] = data'[i].vals[s]
    BY <1>2, <1>3, <1>6 DEF PushedRowsMatch
  <2>1. data'[i] = data[i]
    BY <1>2, <1>6
  <2>. QED BY <2>1 DEF Inv, PushedRowsMatch
<1>8. Len(data') > 0 /\ data'[Len(data')].vals = value'
  BY <1>2, <1>3, <1>4 DEF InsertRow, CommitRaises, roundVars
<1>9. Len(ser1') = Len(data') - 1
  BY <1>2, <1>3, <1>6
<1>10. \A s \in Sensors : ~setFlag'[s] => value'[s] = 0
  BY DEF InsertRow, CommitRaises, Inv, roundVars
<1>. QED
  BY <1>0, <1>5, <1>7, <1>8, <1>9, <1>10 DEF Inv

\* The frame pushed to the phone is the one of the row just inserted.
LEMMA PushRowInv ==
  ASSUME TypeOK, Inv, PushRow
  PROVE  Inv'
<1>0. pc' = "reset" /\ pc = "push"
  BY DEF PushRow, Inv
<1>1. /\ value \in [Sensors -> Readings] /\ data \in Seq(Row)
      /\ ser1 \in Seq([Sensors -> Nat \X (0 .. 99)])
  BY DEF TypeOK
<1>2. /\ Frame(value) \in [Sensors -> Nat \X (0 .. 99)]
      /\ ser1' = Append(ser1, Frame(value))
  BY <1>1, DigitsType DEF PushRow
<1>3. /\ Len(ser1') = Len(ser1) + 1
      /\ ser1'[Len(ser1) + 1] = Frame(value)
      /\ \A i \in 1 .. Len(ser1) : ser1'[i] = ser1[i]
  BY <1>1, <1>2, AppendElements
<1>4. /\ Len(ser1) = Len(data) - 1 /\ data' = data
      /\ Len(ser1) \in Nat /\ Len(data) \in Nat
      /\ DOMAIN ser1 = 1 .. Len(ser1)
      /\ DOMAIN ser1' = 1 .. Len(ser1) + 1
  BY <1>0, <1>1, <1>2, <1>3 DEF PushRow, Inv
<1>5. ASSUME NEW s \in Sensors
      PROVE  100 * Frame(value)[s][1] + Frame(value)[s][2] = value[s]
  <2>1. value[s] \in Readings /\ Readings \subseteq Nat
    BY <1>1, ValuesAssumption DEF Readings
  <2>. QED BY <2>1, DigitsDecode DEF Frame
<1>6. Len(data) > 0 /\ data[Len(data)].vals = value
  BY <1>0 DEF Inv
<1>7. ASSUME NEW i \in DOMAIN ser1', NEW s \in Sensors
      PROVE  100 * ser1'[i][s][1] + ser1'[i][s][2] = data[i].vals[s]
  <2>1. CASE i \in 1 .. Len(ser1)
    <3>1. ser1'[i] = ser1[i] /\ i \in DOMAIN ser1
      BY <1>3, <1>4, <2>1
    <3>. QED BY <3>1 DEF Inv, PushedRowsMatch
  <2>2. CASE i = Len(ser1) + 1
    <3>1. ser1'[i] = Frame(value) /\ i = Len(data)
      BY <1>3, <1>4, <2>2
    <3>. QED BY <1>5, <1>6, <3>1
  <2>. QED BY <1>4, <2>1, <2>2
<1>8. PushedRowsMatch'
  BY <1>3, <1>4, <1>7 DEF PushedRowsMatch
<1>9. IndexIsPosition'
  BY <1>4 DEF Inv, IndexIsPosition
<1>10. /\ \A s \in Sensors : ~setFlag'[s] => value'[s] = 0
       /\ data'[Len(data')].vals = value'
  BY <1>4, <1>6 DEF PushRow, Inv, roundVars
<1>. QED
  BY <1>0, <1>3, <1>4, <1>6, <1>8, <1>9, <1>10 DEF Inv

\* Clearing the flags and the values reopens an empty round.
LEMMA ResetRoundInv ==
  ASSUME TypeOK, Inv, ResetRound
  PROVE  Inv'
<1>1. ~RoundComplete'
  BY SensorsAssumption DEF ResetRound, RoundComplete
<1>. QED
  BY <1>1 DEF ResetRound, TypeOK, Inv, IndexIsPosition, PushedRowsMatch

\* The steps that only move the reader on.
LEMMA MoveInv ==
  ASSUME TypeOK, Inv, NEW x \in PcStates, UNCHANGED <<roundVars, data, ser1>>,
         pc' = x,
         x = "insert" => nCount' = Len(data),
         x # "idle", x \notin {"push", "reset"},
         pc \in {"push", "diedStored"} <=> x = "diedStored",
         pc # "reset"
  PROVE  Inv'
<1>1. pc' = x
  BY DEF Inv
<1>2. IndexIsPosition' /\ PushedRowsMatch'
  BY UnchangedLog DEF Inv
<1>. QED BY <1>1, <1>2 DEF Inv, roundVars

\* Every step preserves the invariant.
LEMMA NextInv ==
  ASSUME TypeOK, Inv, [Next]_vars
  PROVE  Inv'
<1>. USE DEF PcStates, Updating, Dead
<1>1. ASSUME NEW s \in Sensors, RepeatedReading(s)
      PROVE  Inv'
  <2>1. pc = "idle" /\ UNCHANGED <<roundVars, data, ser1>>
    BY <1>1 DEF RepeatedReading, roundVars
  <2>. QED BY <1>1, <2>1, MoveInv DEF RepeatedReading
<1>2. CASE CountRows
  <2>1. nCount' = Len(data)
    BY <1>2 DEF CountRows, TypeOK
  <2>. QED BY <1>2, <2>1, MoveInv DEF CountRows
<1>3. CASE DbRaises
  BY <1>3, MoveInv DEF DbRaises
<1>4. CASE PushRaises
  BY <1>4, MoveInv DEF PushRaises
<1>5. CASE UNCHANGED vars
  BY <1>5, UnchangedLog DEF vars, Inv, RoundComplete
<1>6. CASE Next
  BY <1>1, <1>2, <1>3, <1>4, <1>6,
     FirstReadingInv, InsertRowInv, PushRowInv, ResetRoundInv
  DEF Next, Arrival, Update
<1>. QED
  BY <1>5, <1>6 DEF Next

\* The place of the thread, the globals of the round, the table and the frames
\* pushed fit together in every state: the inductive invariant the two theorems
\* below follow from.
THEOREM InvCorrect == Spec => []Inv
<1>1. Spec => []TypeOK
  BY TypeCorrect
<1>2. TypeOK /\ Inv /\ [Next]_vars => Inv'
  BY NextInv
<1>. QED BY InitInv, <1>1, <1>2, PTL DEF Spec

\* The index of every row is its position in the table, however many rounds
\* are stored and whatever the database does.
THEOREM IndexCorrect == Spec => []IndexIsPosition
<1>1. Inv => IndexIsPosition
  BY DEF Inv
<1>. QED BY <1>1, InvCorrect, PTL

\* The frames pushed to the phone are the rows of the table in order, each
\* decoding to the values that were stored.
THEOREM PushCorrect == Spec => []PushedRowsMatch
<1>1. Inv => PushedRowsMatch
  BY DEF Inv
<1>. QED BY <1>1, InvCorrect, PTL
-----------------------------------------------------------------------------
(***************************************************************************)
(* Every step of the reader is a step of the abstract log or changes       *)
(* nothing in it.                                                          *)
(***************************************************************************)
LEMMA InitRefines == Init => Abstract!Init
BY SensorsAssumption
DEF Init, Abstract!Init, Abstract!Silent, OpenRound, RoundDue, RoundComplete

\* A first reading is the abstract acceptance of that reading.
LEMMA FirstReadingRefines ==
  ASSUME TypeOK, Inv, NEW s \in Sensors, NEW v \in Values, FirstReading(s, v)
  PROVE  Abstract!Accept(s, v)
<1>1. pc = "idle" /\ pc' = IF RoundComplete' THEN "count" ELSE "idle"
  BY DEF FirstReading, TypeOK
<1>2. RoundDue = FALSE /\ RoundDue' = FALSE
  BY <1>1 DEF RoundDue
<1>3. OpenRound[s] = {}
  BY DEF OpenRound, FirstReading
<1>4. OpenRound' = [OpenRound EXCEPT ![s] = {v}]
  BY <1>1 DEF OpenRound, FirstReading, TypeOK
<1>. QED BY <1>2, <1>3, <1>4 DEF Abstract!Accept, FirstReading

\* A repeated reading is the abstract end of the round.
LEMMA RepeatedReadingRefines ==
  ASSUME TypeOK, Inv, NEW s \in Sensors, RepeatedReading(s)
  PROVE  Abstract!Repeat(s)
<1>1. pc = "idle" /\ pc' = "count"
  BY DEF RepeatedReading, TypeOK
<1>2. ~RoundComplete'
  BY <1>1 DEF Inv, RepeatedReading, RoundComplete
<1>3. RoundDue' = TRUE
  BY <1>1, <1>2 DEF RoundDue
<1>4. OpenRound[s] # {} /\ OpenRound' = OpenRound
  BY <1>1 DEF OpenRound, RepeatedReading
<1>. QED BY <1>3, <1>4 DEF Abstract!Repeat, RepeatedReading

\* The insert is the moment at which the abstract round closes.
LEMMA InsertRowRefines ==
  ASSUME TypeOK, Inv, InsertRow \/ CommitRaises
  PROVE  Abstract!Close
<1>1. pc = "insert" /\ pc' \in {"push", "diedStored"}
  BY DEF InsertRow, CommitRaises, TypeOK
<1>2. \A s \in Sensors : OpenRound[s] = IF setFlag[s] THEN {value[s]} ELSE {}
  BY <1>1 DEF OpenRound
<1>3. RoundDue \/ Abstract!Complete
  BY <1>1, <1>2 DEF RoundDue, RoundComplete, Abstract!Complete
<1>4. value = [s \in Sensors |-> Abstract!Reading(OpenRound[s])]
  <2>1. ASSUME NEW s \in Sensors
        PROVE  value[s] = Abstract!Reading(OpenRound[s])
    BY <1>2 DEF Abstract!Reading, Inv
  <2>. QED BY <2>1 DEF TypeOK
<1>5. nCount = Len(data)
  BY <1>1 DEF Inv
<1>6. OpenRound' = Abstract!Silent
  BY <1>1 DEF OpenRound, Abstract!Silent
<1>7. RoundDue' = FALSE
  BY <1>1 DEF RoundDue
<1>. QED BY <1>3, <1>4, <1>5, <1>6, <1>7 DEF Abstract!Close, InsertRow, CommitRaises

\* Counting, pushing, clearing and dying leave the abstract state as it is.
LEMMA OtherStepsRefine ==
  ASSUME TypeOK, Inv,
         \/ CountRows \/ PushRow \/ ResetRound
         \/ DbRaises \/ PushRaises
  PROVE  UNCHANGED <<OpenRound, RoundDue, data>>
<1>1. CASE CountRows \/ DbRaises
  BY <1>1 DEF CountRows, DbRaises, OpenRound, RoundDue, RoundComplete, TypeOK, roundVars
<1>2. CASE PushRow \/ PushRaises
  BY <1>2 DEF PushRow, PushRaises, OpenRound, RoundDue, RoundComplete, TypeOK, roundVars
<1>3. CASE ResetRound
  BY <1>3 DEF ResetRound, OpenRound, RoundDue, TypeOK
<1>. QED BY <1>1, <1>2, <1>3

\* Every step of the reader is an abstract step or a stutter.
LEMMA StepRefines ==
  ASSUME TypeOK, Inv, [Next]_vars
  PROVE  [Abstract!Next]_(Abstract!vars)
<1>. USE DEF Abstract!Next, Abstract!vars
<1>1. CASE UNCHANGED vars
  BY <1>1 DEF vars, OpenRound, RoundDue, RoundComplete
<1>2. CASE Next
  BY <1>2, FirstReadingRefines, RepeatedReadingRefines, InsertRowRefines, OtherStepsRefine
  DEF Next, Arrival, Update
<1>. QED BY <1>1, <1>2 DEF Next

\* The program as started keeps the promise of RoundLog: what parsing_data and
\* UpdateDBData do with flags, values and a table is the closing of rounds.
THEOREM Refinement == Spec => AbstractSpec
<1>1. Spec => []TypeOK
  BY TypeCorrect
<1>2. Spec => []Inv
  BY InvCorrect
<1>3. TypeOK /\ Inv /\ [Next]_vars => [Abstract!Next]_(Abstract!vars)
  BY StepRefines
<1>. QED
  BY InitRefines, <1>1, <1>2, <1>3, PTL DEF Spec, AbstractSpec, Abstract!Spec
=============================================================================
