----------------------------- MODULE Collector -----------------------------
(***************************************************************************)
(* The part of Serial.py that turns sensor readings into rows:             *)
(* parsing_data, UpdateDBData and data_count.  A reading is a decoded      *)
(* (sensor, value) pair here; SensorLink adds the bytes.                   *)
(*                                                                         *)
(* All of it runs in the thread of readThread_U1.  The program also makes  *)
(* a thread of timeoutThread, the only other code that uses the globals    *)
(* below, and never starts it.  So nobody sees what the reader leaves      *)
(* between two assignments, and a step is the code between two calls that  *)
(* leave the interpreter (a database round trip, a write to the serial     *)
(* port, a sleep).                                                         *)
(***************************************************************************)
EXTENDS Integers, Sequences

CONSTANTS Sensors,         \* the sensor numbers nT the station knows (0, 1, 2)
          Values,          \* the readings the sensors report
          MaximumTimeout,  \* what TimeoutCnt is set to
          DbMayFail,       \* whether a database call may raise
          MaxRows          \* bound: no reading is taken from a full log

ASSUME SensorsAssumption == Sensors # {}
ASSUME ValuesAssumption  == Values \subseteq Nat
ASSUME TimeoutAssumption == MaximumTimeout \in Nat
ASSUME FailAssumption    == DbMayFail \in BOOLEAN
ASSUME RowsAssumption    == MaxRows \in Nat

VARIABLES
  setFlag,            \* setFlagT1..3: the sensor has reported in this round
  value,              \* valueT1..3
  timeoutEnableFlag,  \* timeout_enable_flag
  TimeoutCnt,         \* the countdown of timeoutThread, which never runs
  data,               \* the database table "data"
  ser1,               \* the frames written to the BLE port
  pc,                 \* where the thread is
  nCount              \* the local variable nCount of UpdateDBData

vars == <<setFlag, value, timeoutEnableFlag, TimeoutCnt, data, ser1, pc, nCount>>
roundVars == <<setFlag, value, timeoutEnableFlag, TimeoutCnt>>
-----------------------------------------------------------------------------
\* The thread is at rest, at one of the four stages of UpdateDBData, or dead of
\* an exception its loop does not catch: inside UpdateDBData before its row
\* was stored ("died") or after ("diedStored"), or inside parsing_data
\* ("diedParsing", which only SensorLink reaches).
Updating == {"count", "insert", "push", "reset"}
Dead     == {"died", "diedStored", "diedParsing"}
PcStates == {"idle"} \cup Updating \cup Dead

Readings == Values \cup {0}

Row == [vals : [Sensors -> Readings], index : Nat]

\* Mutant: the two digits in the other order.
Digits_Swapped(v) == <<v % 100, v \div 100>>

\* The two bytes a value takes in a frame (the checksum is never sent, and
\* the seven bytes of the date are left out).
Digits(v) == <<v \div 100, v % 100>>

Frame(f) == [s \in Sensors |-> Digits(f[s])]

\* bytes() of the serial library rejects a number above 255.
Sendable(f) == \A s \in Sensors : f[s] \div 100 <= 255

RoundComplete == \A s \in Sensors : setFlag[s]

\* The globals of the round stay what UpdateDBData can store and send: above
\* all the digits sent are digits.
TypeOK ==
  /\ setFlag \in [Sensors -> BOOLEAN]
  /\ value \in [Sensors -> Readings]
  /\ timeoutEnableFlag \in BOOLEAN
  /\ TimeoutCnt \in 0 .. MaximumTimeout
  /\ data \in Seq(Row)
  /\ ser1 \in Seq([Sensors -> Nat \X (0 .. 99)])
  /\ pc \in PcStates
  /\ nCount \in Nat

Init ==
  /\ setFlag = [s \in Sensors |-> FALSE]
  /\ value = [s \in Sensors |-> 0]
  /\ timeoutEnableFlag = FALSE
  /\ TimeoutCnt = MaximumTimeout
  /\ data = <<>>
  /\ ser1 = <<>>
  /\ pc = "idle"
  /\ nCount = 0
-----------------------------------------------------------------------------
\* Mutant: the latest reading of a sensor wins.
FirstReading_LatestWins(s, v) ==
  /\ pc = "idle"
  /\ setFlag' = [setFlag EXCEPT ![s] = TRUE]
  /\ timeoutEnableFlag' = TRUE
  /\ value' = [value EXCEPT ![s] = v]
  /\ pc' = IF RoundComplete' THEN "count" ELSE "idle"
  /\ UNCHANGED <<TimeoutCnt, data, ser1, nCount>>

\* parsing_data, a sensor's first reading of the round.  The test that ends
\* parsing_data follows at once: a complete round is stored.
FirstReading(s, v) ==
  /\ pc = "idle"
  /\ ~setFlag[s]
  /\ setFlag' = [setFlag EXCEPT ![s] = TRUE]
  /\ timeoutEnableFlag' = TRUE
  /\ value' = [value EXCEPT ![s] = v]
  /\ pc' = IF RoundComplete' THEN "count" ELSE "idle"
  /\ UNCHANGED <<TimeoutCnt, data, ser1, nCount>>

\* parsing_data, a further reading of a sensor: the round is stored as it is
\* and the reading itself is dropped.
RepeatedReading(s) ==
  /\ pc = "idle"
  /\ setFlag[s]
  /\ pc' = "count"
  /\ UNCHANGED <<setFlag, value, timeoutEnableFlag, TimeoutCnt, data, ser1, nCount>>

-----------------------------------------------------------------------------
\* Mutant: the table is counted once and the count is kept.
CountRows_Cached ==
  /\ pc = "count"
  /\ nCount' = IF nCount = 0 THEN Len(data) ELSE nCount
  /\ pc' = "insert"
  /\ UNCHANGED <<roundVars, data, ser1>>

\* UpdateDBData: data_count asks how many rows there are ...
CountRows ==
  /\ pc = "count"
  /\ nCount' = Len(data)
  /\ pc' = "insert"
  /\ UNCHANGED <<roundVars, data, ser1>>

\* ... the row is inserted with that number as its index ...
InsertRow ==
  /\ pc = "insert"
  /\ data' = Append(data, [vals |-> value, index |-> nCount])
  /\ pc' = "push"
  /\ UNCHANGED <<roundVars, ser1, nCount>>

\* ... sent to the phone, whoever is listening ...
PushRow ==
  /\ pc = "push"
  /\ Sendable(value)
  /\ ser1' = Append(ser1, Frame(value))
  /\ pc' = "reset"
  /\ UNCHANGED <<roundVars, data, nCount>>

\* Mutant: the flags stay up.
ResetRound_FlagsKept ==
  /\ pc = "reset"
  /\ value' = [s \in Sensors |-> 0]
  /\ timeoutEnableFlag' = FALSE
  /\ TimeoutCnt' = MaximumTimeout
  /\ pc' = "idle"
  /\ UNCHANGED <<setFlag, data, ser1, nCount>>

\* ... and the round starts afresh.  The test that ends parsing_data follows,
\* and finds every flag down.
ResetRound ==
  /\ pc = "reset"
  /\ setFlag' = [s \in Sensors |-> FALSE]
  /\ value' = [s \in Sensors |-> 0]
  /\ timeoutEnableFlag' = FALSE
  /\ TimeoutCnt' = MaximumTimeout
  /\ pc' = "idle"
  /\ UNCHANGED <<data, ser1, nCount>>

\* Mutant: the exception is swallowed and the row is sent all the same.
DbRaises_Swallowed ==
  /\ DbMayFail
  /\ pc \in {"count", "insert"}
  /\ pc' = "push"
  /\ UNCHANGED <<roundVars, data, ser1, nCount>>

\* A database call raises: the thread catches nothing but KeyboardInterrupt.
DbRaises ==
  /\ DbMayFail
  /\ pc \in {"count", "insert"}
  /\ pc' = "died"
  /\ UNCHANGED <<roundVars, data, ser1, nCount>>

\* The commit raises after the database has stored the row.
CommitRaises ==
  /\ DbMayFail
  /\ pc = "insert"
  /\ data' = Append(data, [vals |-> value, index |-> nCount])
  /\ pc' = "diedStored"
  /\ UNCHANGED <<roundVars, ser1, nCount>>

\* ser1.write raises on a reading of 25600 or more.
PushRaises ==
  /\ pc = "push"
  /\ ~Sendable(value)
  /\ pc' = "diedStored"
  /\ UNCHANGED <<roundVars, data, ser1, nCount>>

Update ==
  \/ CountRows
  \/ InsertRow
  \/ PushRow
  \/ ResetRound
  \/ DbRaises
  \/ CommitRaises
  \/ PushRaises
-----------------------------------------------------------------------------
\* A frame with a reading arrives from a sensor.
Arrival ==
  /\ Len(data) < MaxRows
  /\ \E s \in Sensors :
       \/ \E v \in Values : FirstReading(s, v)
       \/ RepeatedReading(s)

Next == Arrival \/ Update

Spec == Init /\ [][Next]_vars

\* The thread goes on as long as it can.  Nothing obliges a sensor to report:
\* there is no fairness on Arrival.
FairSpec == Spec /\ WF_vars(Update)
-----------------------------------------------------------------------------
\* The index column of a row is its position in the table: the phone's
\* synchronisation and the server's index search both count on it.  (The
\* index is read by data_count before the insert, in another transaction.)
IndexIsPosition == \A i \in DOMAIN data : data[i].index = i - 1

\* The phone hears of every row exactly once, in table order, and decodes
\* the values that were stored: only the row being stored may be missing.
PushedRowsMatch ==
  /\ Len(ser1) \in {Len(data), Len(data) - 1}
  /\ \A i \in DOMAIN ser1 : \A s \in Sensors :
       100 * ser1[i][s][1] + ser1[i][s][2] = data[i].vals[s]

\* What makes the two above inductive:
\* the count taken is still the length of the table when the row goes in,
\* silent sensors hold 0, and a row that was stored holds the values that are
\* about to be pushed.
Inv ==
  /\ pc = "idle" => ~RoundComplete
  /\ pc = "insert" => nCount = Len(data)
  /\ \A s \in Sensors : ~setFlag[s] => value[s] = 0
  /\ pc \in {"push", "reset", "diedStored"} =>
       Len(data) > 0 /\ data[Len(data)].vals = value
  /\ Len(ser1) = IF pc \in {"push", "diedStored"}
                   THEN Len(data) - 1 ELSE Len(data)
  /\ IndexIsPosition
  /\ PushedRowsMatch

\* Refinement mapping.  The round is gone once its row is stored, even though
\* its flags stay up until ResetRound, and it is due while a reader that met a
\* repeated reading has yet to store it.
OpenRound ==
  [s \in Sensors |->
     IF setFlag[s] /\ pc \notin {"push", "reset", "diedStored"}
     THEN {value[s]} ELSE {}]

RoundDue == pc \in {"count", "insert", "died"} /\ ~RoundComplete

Abstract == INSTANCE RoundLog WITH open <- OpenRound, due <- RoundDue, log <- data

\* The rows are the closed rounds: no row without a complete round or a
\* repeated reading, none twice, and each with exactly the readings of its
\* round and 0 for its silent sensors.
AbstractSpec == Abstract!Spec

\* A round whose sensors have all reported is stored and cleared, unless the
\* thread died storing it.
CompleteRoundIsStored == RoundComplete ~> (~RoundComplete \/ pc \in Dead)

\* What MaximumTimeout, five minutes "in units of 10 ms", is for: an open round
\* is closed some time after its first reading even if no sensor reports again,
\* unless the thread died.
OpenRoundCloses == timeoutEnableFlag ~> (~timeoutEnableFlag \/ pc \in Dead)
=============================================================================
