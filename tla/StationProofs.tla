--------------------------- MODULE StationProofs ---------------------------
(***************************************************************************)
(* Theorems about Station with BleSync, for every bound on the rows and on *)
(* the commands and whatever the two threads may come between.             *)
(***************************************************************************)
EXTENDS Station, TLAPS, SequenceTheorems

\* rows is only a name for two variables.
USE DEF rows

\* A row in a result is the row of its place, and in the table.
IsRows(r) ==
  /\ r \in Seq(Result)
  /\ \A i \in 1 .. Len(r) : r[i].kind = "row" => r[i].n = i /\ i <= table

\* Where the phone thread is tells what it has fetched.  A transfer is only
\* started with rows to send, which are counted before they are fetched.
ResultInv ==
  /\ IsRows(cur)
  /\ BLEresult = Unset \/ IsRows(BLEresult)
  /\ pcB \in {"build", "finish"} /\ op = 6 => IsRows(BLEresult)
  /\ BLEnum # 0 /\ pcB # "fetch" => IsRows(BLEresult)
  /\ pcB \in {"select", "fetch"} => op = 4
  /\ pcB = "build" => op # 5
  /\ pcB = "next" => op = 5 /\ BLEnum # 0
  /\ pcB = "finish" /\ op = 5 =>
       BLEnum # 0 /\ passCnt < Len(BLEresult) /\ BLEresult[passCnt + 1].kind = "row"

\* Where the reader is tells what it has counted: a count that reaches it was
\* made since it asked, and only the reader adds rows.
ReaderInv ==
  /\ pcR \in {"count", "fetchCount", "insert"} => table < MaxRows
  /\ pcR = "push" => table > 0
  /\ pcR = "fetchCount" => \A i \in 1 .. Len(cur) : cur[i].kind = "count" => cur[i].n = table
  /\ pcR = "insert" => nCount = table

\* No row that was sent is beyond Phonenum, which a transfer never falls
\* behind.
GotInv ==
  /\ \A i \in 1 .. Len(got) :
       got[i] <= Phonenum /\ (pcB = "finish" /\ op = 5 => got[i] < Phonenum)
  /\ \A i, j \in 1 .. Len(got) : i < j => got[i] < got[j]
  /\ pcB \in {"select", "fetch"} => got = <<>>
  /\ pcB = "next" => passCnt <= Phonenum
  /\ pcB = "finish" /\ op = 5 => Phonenum = passCnt + 1

\* A row that was sent is one of those fetched.
SentFetched ==
  /\ BLEresult = Unset => got = <<>>
  /\ \A i \in 1 .. Len(got) : got[i] <= Len(BLEresult)

\* The number announced is the one computed, or 0.
AnnouncedInv ==
  /\ announced \in {Unset, 0, BLEnum}
  /\ pcB \in {"select", "fetch"} => announced = Unset

Settled == {"idle", "build", "finish", "next"}

\* What Phonenum is ahead of the rows that were sent.
Ahead == IF pcB = "finish" /\ op = 5 THEN 1 ELSE 0

\* A reply or a row is written into the list it was begun in.
ListKept == pcB = "finish" => sedD

\* The rows sent follow those the phone has.
SentFollow == \A i \in 1 .. Len(got) : got[i] = asked + i /\ got[i] <= table

\* Nothing comes between the query of command 4 and its result.
Fetching ==
  pcB = "fetch" =>
    /\ pcR # "fetchCount" /\ Phonenum = asked /\ Len(cur) = table
    /\ BLEnum = IF table < asked THEN 0 ELSE table - asked

\* Phonenum counts on from what was asked, the rows fetched are those there
\* were then, and later ones are pushed.
Sending ==
  pcB \in Settled =>
    /\ Phonenum = asked + Len(got) + Ahead
    /\ BLEnum # 0 =>
         /\ Len(BLEresult) = asked + BLEnum
         /\ Phonenum <= Len(BLEresult)
         /\ \A i \in asked + BLEnum + 1 .. table : i \in live \/ AtPush(i)

\* Once there are rows to send, their number has been announced.
Told ==
  pcB \in Settled /\ BLEnum # 0 =>
    announced \in {0, BLEnum} \/ (op = 4 /\ pcB \in {"build", "finish"})

\* What is fetched are rows of the table, and only the last of them can be
\* pushed later.
Fresh(r) ==
  /\ Len(r) <= table
  /\ \A i \in 1 .. Len(r) : r[i].kind = "row"
  /\ \A i \in live : Len(r) <= i

FetchedFresh ==
  /\ pcB = "fetch" => Fresh(cur)
  /\ BLEresult # Unset => Fresh(BLEresult)

ApartInv ==
  Apart =>
    /\ ListKept /\ SentFollow /\ Fetching /\ Sending
    /\ Told /\ FetchedFresh /\ PhoneThreadSurvives
-----------------------------------------------------------------------------
\* The rows of the table are a result of the cursor, and so is their count.
LEMMA Results ==
  ASSUME TypeOK
  PROVE  /\ AllRows \in Seq(Result) /\ Len(AllRows) = table
         /\ \A i \in 1 .. table : AllRows[i] = [kind |-> "row", n |-> i]
         /\ <<CountOf(table)>> \in Seq(Result) /\ Len(<<CountOf(table)>>) = 1
         /\ <<CountOf(table)>>[1] = [kind |-> "count", n |-> table]
<1>1. table \in Nat
  BY RowsAssumption DEF TypeOK
<1>2. AllRows \in Seq(Result) /\ Len(AllRows) = table
  <2>1. \A i \in 1 .. table : RowOf(i) \in Result
    BY <1>1 DEF RowOf, Result
  <2>. QED BY <1>1, <2>1 DEF AllRows
<1>3. CountOf(table) \in Result
  BY <1>1 DEF CountOf, Result
<1>. QED BY <1>1, <1>2, <1>3 DEF AllRows, RowOf, CountOf

\* The types, apart from the two flags.
Numbers ==
  /\ table \in 0 .. MaxRows /\ oversized \subseteq 1 .. table
  /\ cur \in Seq(Result)
  /\ pcB \in Stages /\ pcR \in ReaderStages
  /\ op \in 0 .. 6
  /\ Phonenum \in Nat /\ BLEnum \in Nat
  /\ BLEresult = Unset \/ BLEresult \in Seq(Result)
  /\ passCnt \in Nat
  /\ commands \in 0 .. MaxCommands
  /\ asked \in Nat
  /\ announced \in Nat \cup {Unset}
  /\ got \in Seq(1 .. MaxRows)
  /\ live \subseteq 1 .. MaxRows
  /\ nCount \in Nat
  /\ interleave \in Interleavings

\* The two flags.
Flags == sedD \in BOOLEAN /\ BLEFlag \in BOOLEAN

\* The types are these and the flags'.
LEMMA TypeParts == StationTypeOK <=> Numbers /\ Flags
BY DEF StationTypeOK, TypeOK, Numbers, Flags

\* The station starts well typed.
LEMMA InitType == StationInit => StationTypeOK
<1>. SUFFICES ASSUME StationInit
              PROVE  Numbers /\ Flags
  BY TypeParts
<1>1. <<>> \in Seq(Result) /\ <<>> \in Seq(1 .. MaxRows)
  OBVIOUS
<1>2. Numbers
  BY <1>1, RowsAssumption, CommandsAssumption
  DEF StationInit, Init, Numbers, Stages, ReaderStages
<1>3. Flags
  BY DEF StationInit, Init, Flags
<1>. QED BY <1>2, <1>3

\* What the phone may ask keeps the types.
LEMMA CommandType ==
  ASSUME Numbers, PhoneCommand
  PROVE  Numbers'
<1>. USE DEF Numbers, Stages, PhoneCommand, Take, session
<1>0. commands < MaxCommands => commands + 1 \in 0 .. MaxCommands
  BY CommandsAssumption
<1>1. ASSUME NEW o \in 1 .. 3, Acknowledge(o)
      PROVE  Numbers'
  BY <1>0, <1>1 DEF Acknowledge
<1>2. ASSUME NEW p \in 0 .. MaxRows + 1, AskForRows(p)
      PROVE  Numbers'
  <2>1. <<>> \in Seq(1 .. MaxRows) /\ p \in Nat
    BY RowsAssumption
  <2>. QED BY <1>0, <1>2, <2>1 DEF AskForRows
<1>3. CASE StartTransfer
  BY <1>0, <1>3 DEF StartTransfer
<1>4. CASE EndOfSingle
  BY <1>0, <1>4 DEF EndOfSingle
<1>5. CASE AskForSingle
  BY <1>0, <1>5 DEF AskForSingle
<1>6. ASSUME NEW o \in {2, 3}, ShortFrame(o)
      PROVE  Numbers'
  BY <1>0, <1>6 DEF ShortFrame
<1>. QED BY <1>1, <1>2, <1>3, <1>4, <1>5, <1>6 DEF Command

\* A row that is sent is a row of the table.
LEMMA SentType ==
  ASSUME StationTypeOK, NEW r, IsRows(r), NEW i \in Nat, i < Len(r), r[i + 1].kind = "row"
  PROVE  /\ r[i + 1].n = i + 1 /\ i + 1 <= table
         /\ Append(got, r[i + 1].n) \in Seq(1 .. MaxRows)
<1>1. Len(r) \in Nat /\ i + 1 \in 1 .. Len(r)
  BY LenProperties DEF IsRows
<1>2. r[i + 1].n = i + 1 /\ i + 1 <= table
  BY <1>1 DEF IsRows
<1>3. i + 1 \in 1 .. MaxRows
  BY <1>2, RowsAssumption DEF StationTypeOK, TypeOK
<1>. QED BY <1>2, <1>3, AppendProperties DEF StationTypeOK, TypeOK

\* What the phone thread does keeps the types.
LEMMA PhoneType ==
  ASSUME StationTypeOK, Numbers, ResultInv, PhoneStep
  PROVE  Numbers'
<1>. USE DEF Numbers, Stages, PhoneStep, shared, session, history
<1>1. CASE Select
  BY <1>1, Results DEF StationTypeOK, Select
<1>2. CASE SelectShort
  BY <1>2, Results DEF StationTypeOK, SelectShort
<1>3. CASE Fetch
  <2>1. <<>> \in Seq(Result)
    OBVIOUS
  <2>. QED BY <1>3, <2>1 DEF Fetch
<1>4. CASE Build \/ FinishReply
  <2>1. announced' \in Nat \cup {Unset} /\ pcB' \in Stages
    BY <1>4 DEF Build, FinishReply
  <2>2. UNCHANGED <<rows, cur, op, session, passCnt, commands, asked, got, live>>
    BY <1>4 DEF Build, FinishReply
  <2>. QED BY <2>1, <2>2
<1>5. CASE FinishSingle
  <2>1. got' \in Seq(1 .. MaxRows)
    BY <1>5, SentType DEF FinishSingle, RowLeft, NextRow, ResultInv
  <2>. QED BY <1>5, <2>1 DEF FinishSingle
<1>6. CASE SkipRow \/ BeginRow
  <2>1. passCnt' \in Nat /\ Phonenum' \in Nat
    BY <1>6 DEF SkipRow, BeginRow
  <2>2. pcB' \in Stages /\ UNCHANGED <<BLEresult, got, live, cur>>
    BY <1>6 DEF SkipRow, BeginRow
  <2>3. UNCHANGED <<rows, op, BLEnum, commands, asked, announced>>
    BY <1>6 DEF SkipRow, BeginRow
  <2>. QED BY <2>1, <2>2, <2>3
<1>7. CASE FinishRow
  <2>1. got' \in Seq(1 .. MaxRows)
    BY <1>7, SentType DEF FinishRow, ResultInv
  <2>. QED BY <1>7, <2>1 DEF FinishRow
<1>8. CASE EndTransfer \/ NotARow
  BY <1>8 DEF EndTransfer, NotARow
<1>9. CASE WriteRaises
  <2>1. Phonenum' \in Nat
    BY <1>9 DEF WriteRaises
  <2>. QED BY <1>9, <2>1 DEF WriteRaises
<1>. QED BY <1>1, <1>2, <1>3, <1>4, <1>5, <1>6, <1>7, <1>8, <1>9 DEF BleStep

\* What the reader does keeps the types.
LEMMA ReaderType ==
  ASSUME StationTypeOK, Numbers, ReaderInv, UNCHANGED interleave,
         ReaderStep \/ Collide \/ SwapAnswers \/ \E closes \in BOOLEAN : SensorFrame(closes)
  PROVE  Numbers'
<1>. USE DEF Numbers, Stages, ReaderStages, shared, session, history, bleVars
<1>1. ASSUME NEW closes \in BOOLEAN, SensorFrame(closes)
      PROVE  Numbers'
  BY <1>1 DEF SensorFrame
<1>2. CASE ExecuteCount
  BY <1>2, Results DEF StationTypeOK, ExecuteCount
<1>3. <<>> \in Seq(Result)
  OBVIOUS
<1>4. CASE FetchCount
  <2>1. cur[1] \in Result
    <3>1. 1 \in 1 .. Len(cur)
      BY <1>4 DEF FetchCount
    <3>. QED BY <3>1, ElementOfSeq
  <2>2. nCount' \in Nat
    BY <1>4, <2>1 DEF FetchCount, Result
  <2>. QED BY <1>3, <1>4, <2>2 DEF FetchCount
<1>5. CASE FetchOther
  BY <1>3, <1>5 DEF FetchOther
<1>6. CASE InsertRow
  <2>1. table' \in 0 .. MaxRows /\ oversized' \subseteq 1 .. table'
    BY <1>6, RowsAssumption DEF InsertRow, AddRow, ReaderInv
  <2>. QED BY <1>3, <1>6, <2>1 DEF InsertRow
<1>7. CASE PushRow
  <2>1. table \in 1 .. MaxRows
    BY <1>7, RowsAssumption DEF PushRow, ReaderInv
  <2>2. live' \subseteq 1 .. MaxRows
    BY <1>7, <2>1 DEF PushRow
  <2>. QED BY <1>7, <2>2 DEF PushRow
<1>8. CASE PushRaises
  BY <1>8 DEF PushRaises
<1>9. CASE Collide \/ SwapAnswers
  <2>1. UNCHANGED rows \/ (pcR = "insert" /\ AddRow)
    BY <1>9 DEF Collide, SwapAnswers
  <2>2. table' \in 0 .. MaxRows /\ oversized' \subseteq 1 .. table'
    <3>1. CASE UNCHANGED rows
      BY <3>1
    <3>2. CASE pcR = "insert" /\ AddRow
      BY <3>2, RowsAssumption DEF AddRow, ReaderInv
    <3>. QED BY <2>1, <3>1, <3>2
  <2>3. cur' \in {cur, AllRows, <<CountOf(table)>>, <<>>}
    BY <1>9 DEF Collide, SwapAnswers
  <2>4. cur' \in Seq(Result)
    BY <2>3, Results, <1>3 DEF StationTypeOK
  <2>5. Phonenum' \in Nat /\ BLEnum' \in Nat
    BY <1>9 DEF Collide, SwapAnswers
  <2>6. pcB' \in Stages /\ pcR' \in ReaderStages /\ live' \subseteq 1 .. MaxRows
    BY <1>9 DEF Collide, SwapAnswers
  <2>7. UNCHANGED <<op, BLEresult, passCnt, commands, asked, announced, got, nCount>>
    BY <1>9 DEF Collide, SwapAnswers
  <2>. QED BY <2>2, <2>4, <2>5, <2>6, <2>7
<1>. QED BY <1>1, <1>2, <1>4, <1>5, <1>6, <1>7, <1>8, <1>9 DEF ReaderStep

\* Nothing else is ever stored in the flags.
LEMMA FlagsType ==
  ASSUME Flags, [StationNext]_stationVars
  PROVE  Flags'
BY DEF Flags, stationVars, vars, shared, bleVars, session, history, StationNext,
       SensorFrame, ReaderStep, ExecuteCount, FetchCount, FetchOther, InsertRow, AddRow, PushRow, PushRaises,
       Collide, SwapAnswers, PhoneStep, BleStep, Select, SelectShort, Fetch, Build, FinishReply,
       FinishSingle, SkipRow, BeginRow, FinishRow, EndTransfer, NotARow, WriteRaises, PhoneCommand,
       Command, Take, Acknowledge, AskForRows, StartTransfer, EndOfSingle, AskForSingle,
       ShortFrame

\* No step breaks the types.
LEMMA NextType ==
  StationTypeOK /\ ResultInv /\ ReaderInv /\ [StationNext]_stationVars => StationTypeOK'
<1>. SUFFICES ASSUME StationTypeOK, ResultInv, ReaderInv, [StationNext]_stationVars
              PROVE  StationTypeOK'
  OBVIOUS
<1>1. Numbers /\ Flags
  BY TypeParts
<1>2. Numbers'
  <2>1. CASE UNCHANGED stationVars
    BY <1>1, <2>1 DEF stationVars, vars, shared, bleVars, session, history, Numbers
  <2>2. CASE StationNext
    BY <1>1, <2>2, CommandType, PhoneType, ReaderType DEF StationNext, ReaderStep
  <2>. QED BY <2>1, <2>2
<1>3. Flags'
  BY <1>1, FlagsType
<1>. QED BY <1>2, <1>3 DEF StationTypeOK, TypeOK, Numbers, Flags
-----------------------------------------------------------------------------
\* Only the reader adds rows, one at a time; a result stays one of the table.
LEMMA TableGrows ==
  ASSUME Numbers, [StationNext]_stationVars
  PROVE  /\ table <= table' /\ table' \in Nat /\ table \in Nat
         /\ table' # table => pcR = "insert"
         /\ \A r : IsRows(r) => IsRows(r)'
<1>0. table \in Nat
  BY RowsAssumption DEF Numbers
<1>1. table' = table \/ (table' = table + 1 /\ pcR = "insert")
  <2>1. CASE UNCHANGED stationVars
    BY <2>1 DEF stationVars, vars, shared
  <2>2. CASE PhoneStep
    BY <2>2 DEF PhoneStep, BleStep, Select, SelectShort, Fetch, Build, FinishReply,
                FinishSingle, SkipRow, BeginRow, FinishRow, EndTransfer, NotARow, WriteRaises, shared
  <2>3. CASE PhoneCommand
    BY <2>3 DEF PhoneCommand, Command, Take, Acknowledge, AskForRows, StartTransfer,
                EndOfSingle, AskForSingle, ShortFrame
  <2>4. CASE ReaderStep \/ Collide \/ SwapAnswers \/ \E closes \in BOOLEAN : SensorFrame(closes)
    BY <2>4 DEF ReaderStep, ExecuteCount, FetchCount, FetchOther, InsertRow, AddRow, PushRow,
                PushRaises, Collide, SwapAnswers,
                SensorFrame, shared
  <2>. QED BY <2>1, <2>2, <2>3, <2>4 DEF StationNext
<1>2. table <= table' /\ table' \in Nat
  BY <1>0, <1>1
<1>3. ASSUME NEW r, IsRows(r)
      PROVE  IsRows(r)'
  <2>1. \A i \in 1 .. Len(r) : i \in Nat
    BY <1>3, LenProperties DEF IsRows
  <2>. QED BY <1>0, <1>2, <1>3, <2>1 DEF IsRows
<1>. QED BY <1>0, <1>1, <1>2, <1>3

\* What is asked of the reader's results and of the rows it adds.
LEMMA NextReader ==
  StationTypeOK /\ ReaderInv /\ [StationNext]_stationVars => ReaderInv'
<1>. SUFFICES ASSUME StationTypeOK, ReaderInv, [StationNext]_stationVars
              PROVE  ReaderInv'
  OBVIOUS
<1>0. Numbers /\ table \in Nat
  BY TypeParts, RowsAssumption DEF Numbers
<1>. USE DEF ReaderInv
<1>1. ASSUME UNCHANGED <<table, cur, pcR, nCount>>
      PROVE  ReaderInv'
  BY <1>1
<1>2. CASE UNCHANGED stationVars
  BY <1>1, <1>2 DEF stationVars, vars, shared
<1>3. ASSUME NEW closes \in BOOLEAN, SensorFrame(closes)
      PROVE  ReaderInv'
  BY <1>3 DEF SensorFrame
<1>4. CASE ExecuteCount
  BY <1>4, Results DEF ExecuteCount, StationTypeOK
<1>5. CASE FetchCount
  <2>1. 1 \in 1 .. Len(cur)
    BY <1>5 DEF FetchCount
  <2>. QED BY <1>5, <2>1 DEF FetchCount
<1>6. CASE FetchOther
  BY <1>6 DEF FetchOther
<1>7. CASE InsertRow
  BY <1>0, <1>7 DEF InsertRow, AddRow
<1>8. CASE PushRow \/ PushRaises \/ Collide
  BY <1>0, <1>8 DEF PushRow, PushRaises, Collide, AddRow, shared
<1>13. CASE SwapAnswers
  <2>1. CASE pcR = "count"
    <3>1. \A i \in 1 .. Len(cur') : cur'[i].kind = "count" => cur'[i].n = table
      BY <1>13, <2>1, Results DEF SwapAnswers, StationTypeOK, AddRow
    <3>. QED BY <1>13, <2>1, <3>1 DEF SwapAnswers
  <2>2. CASE pcR = "insert"
    BY <1>0, <1>13, <2>2 DEF SwapAnswers, AddRow
  <2>. QED BY <1>13, <2>1, <2>2 DEF SwapAnswers
<1>9. CASE (Select \/ SelectShort) /\ UNCHANGED <<pcR, nCount>>
  <2>1. cur' = AllRows /\ UNCHANGED table
    BY <1>9 DEF Select, SelectShort
  <2>2. \A i \in 1 .. Len(cur') : cur'[i].kind = "row"
    BY <2>1, Results DEF StationTypeOK
  <2>. QED BY <1>9, <2>1, <2>2
<1>10. CASE Fetch /\ UNCHANGED <<pcR, nCount>>
  <2>1. Len(cur') = 0 /\ UNCHANGED table
    BY <1>10 DEF Fetch
  <2>2. \A i \in 1 .. Len(cur') : FALSE
    BY <2>1
  <2>. QED BY <1>10, <2>1, <2>2
<1>11. CASE PhoneStep /\ ~Select /\ ~SelectShort /\ ~Fetch
  BY <1>1, <1>11 DEF PhoneStep, BleStep, Build, FinishReply, FinishSingle, SkipRow, BeginRow,
                     FinishRow, EndTransfer, NotARow, WriteRaises, shared
<1>12. CASE PhoneCommand
  BY <1>1, <1>12 DEF PhoneCommand, Command, Take, Acknowledge, AskForRows, StartTransfer,
                     EndOfSingle, AskForSingle, ShortFrame
<1>. QED BY <1>2, <1>3, <1>4, <1>5, <1>6, <1>7, <1>8, <1>9, <1>10, <1>11, <1>12,
            <1>13 DEF StationNext, ReaderStep, PhoneStep

\* What the threads may find in a result.
LEMMA NextResult ==
  StationTypeOK /\ ResultInv /\ [StationNext]_stationVars => ResultInv'
<1>. SUFFICES ASSUME StationTypeOK, ResultInv, [StationNext]_stationVars
              PROVE  ResultInv'
  OBVIOUS
<1>0. Numbers /\ \A r : IsRows(r) => IsRows(r)'
  BY TypeParts, TableGrows
<1>1. cur' = cur => IsRows(cur)'
  <2>1. PICK r : r = cur
    OBVIOUS
  <2>. QED BY <1>0, <2>1 DEF ResultInv, IsRows
<1>2. IsRows(BLEresult) /\ BLEresult' = BLEresult => IsRows(BLEresult)'
  BY <1>0, TableGrows DEF IsRows
<1>3. cur' = <<>> => IsRows(cur)'
  BY DEF IsRows
<1>4. cur' = AllRows /\ UNCHANGED table => IsRows(cur)'
  BY Results DEF StationTypeOK, IsRows
<1>5. cur' = <<CountOf(table)>> => IsRows(cur)'
  BY Results DEF StationTypeOK, IsRows
<1>6. ASSUME UNCHANGED bleVars, IsRows(cur)'
      PROVE  ResultInv'
  BY <1>2, <1>6 DEF ResultInv, bleVars, session
<1>7. CASE UNCHANGED stationVars
  BY <1>1, <1>6, <1>7 DEF stationVars, vars, shared
<1>8. ASSUME NEW closes \in BOOLEAN, SensorFrame(closes)
      PROVE  ResultInv'
  BY <1>1, <1>6, <1>8 DEF SensorFrame
<1>9. CASE ReaderStep
  BY <1>1, <1>3, <1>5, <1>6, <1>9
  DEF ReaderStep, ExecuteCount, FetchCount, FetchOther, InsertRow, AddRow, PushRow, PushRaises, shared
<1>10. CASE Collide
  BY <1>1, <1>2, <1>10 DEF Collide, ResultInv, shared, session
<1>20. CASE SwapAnswers
  <2>1. cur' \in {AllRows, <<CountOf(table)>>, <<>>} /\ UNCHANGED <<BLEresult, op>>
    BY <1>20 DEF SwapAnswers
  <2>2. IsRows(AllRows) /\ IsRows(<<CountOf(table)>>) /\ IsRows(<<>>)
    BY Results DEF StationTypeOK, IsRows
  <2>3. IsRows(cur)'
    <3>1. PICK r : r = cur' /\ IsRows(r)
      BY <2>1, <2>2
    <3>. QED BY <1>0, <3>1 DEF IsRows
  <2>. QED BY <1>2, <1>20, <2>1, <2>3 DEF SwapAnswers, ResultInv
<1>11. CASE Select /\ UNCHANGED pcR
  BY <1>2, <1>4, <1>11 DEF Select, ResultInv
<1>12. CASE SelectShort
  BY <1>2, <1>4, <1>12 DEF SelectShort, ResultInv, session
<1>13. CASE Fetch
  BY <1>0, <1>3, <1>13 DEF Fetch, ResultInv, IsRows
<1>14. CASE Build \/ FinishReply
  BY <1>1, <1>2, <1>14 DEF Build, FinishReply, ResultInv, shared, session
<1>15. CASE FinishSingle \/ SkipRow
  BY <1>1, <1>2, <1>15 DEF FinishSingle, SkipRow, ResultInv, shared, session
<1>16. CASE BeginRow
  BY <1>1, <1>2, <1>16 DEF BeginRow, ResultInv, shared, session
<1>17. CASE FinishRow
  BY <1>1, <1>2, <1>17 DEF FinishRow, ResultInv, shared, session
<1>18. CASE EndTransfer \/ NotARow \/ WriteRaises
  BY <1>1, <1>2, <1>18 DEF EndTransfer, NotARow, WriteRaises, ResultInv, shared, session
<1>19. CASE PhoneCommand
  <2>. USE <1>1, <1>2 DEF ResultInv, Take, session
  <2>1. ASSUME NEW o \in 1 .. 3, Acknowledge(o)
        PROVE  ResultInv'
    BY <2>1 DEF Acknowledge
  <2>2. ASSUME NEW p \in 0 .. MaxRows + 1, AskForRows(p)
        PROVE  ResultInv'
    BY <2>2 DEF AskForRows
  <2>3. CASE StartTransfer
    BY <2>3 DEF StartTransfer
  <2>4. CASE EndOfSingle
    BY <2>4 DEF EndOfSingle
  <2>5. CASE AskForSingle
    BY <2>5 DEF AskForSingle
  <2>6. ASSUME NEW o \in {2, 3}, ShortFrame(o)
        PROVE  ResultInv'
    BY <2>6 DEF ShortFrame
  <2>. QED BY <1>19, <2>1, <2>2, <2>3, <2>4, <2>5, <2>6 DEF PhoneCommand, Command
<1>. QED BY <1>7, <1>8, <1>9, <1>10, <1>11, <1>12, <1>13, <1>14, <1>15, <1>16, <1>17,
            <1>18, <1>19, <1>20 DEF StationNext, PhoneStep, BleStep

\* What the phone has been sent, with one row more.
LEMMA Appended ==
  ASSUME NEW v \in 1 .. MaxRows, Numbers
  PROVE  /\ Append(got, v) \in Seq(1 .. MaxRows)
         /\ Len(got) \in Nat /\ Len(Append(got, v)) = Len(got) + 1
         /\ \A i \in 1 .. Len(got) : Append(got, v)[i] = got[i] /\ got[i] \in Nat
         /\ Append(got, v)[Len(got) + 1] = v
         /\ v \in Nat
<1>1. got \in Seq(1 .. MaxRows) /\ \A i \in 1 .. Len(got) : got[i] \in 1 .. MaxRows
  BY ElementOfSeq DEF Numbers
<1>2. 1 .. MaxRows \subseteq Nat
  BY RowsAssumption
<1>. QED BY <1>1, <1>2, AppendProperties, LenProperties

\* A row behind all that were sent keeps them in order.
LEMMA SentInOrder ==
  ASSUME Numbers, GotInv, NEW v \in 1 .. MaxRows, got' = Append(got, v),
         \A i \in 1 .. Len(got) : got[i] < v
  PROVE  /\ \A i \in 1 .. Len(got') : got'[i] <= v
         /\ \A i, j \in 1 .. Len(got') : i < j => got'[i] < got'[j]
<1>1. \A i \in 1 .. Len(got') :
        /\ i \in Nat /\ (i \in 1 .. Len(got) \/ i = Len(got) + 1)
        /\ i \in 1 .. Len(got) => got'[i] = got[i] /\ got[i] \in Nat
        /\ i = Len(got) + 1 => got'[i] = v
  BY Appended
<1>2. \A i \in 1 .. Len(got') : got'[i] <= v
  BY <1>1, Appended
<1>3. ASSUME NEW i \in 1 .. Len(got'), NEW j \in 1 .. Len(got'), i < j
      PROVE  got'[i] < got'[j]
  <2>1. i \in 1 .. Len(got)
    BY <1>1, <1>3, Appended
  <2>. QED BY <1>1, <1>3, <2>1 DEF GotInv
<1>. QED BY <1>2, <1>3

\* The rows that are sent count on to Phonenum.
LEMMA NextGot ==
  StationTypeOK /\ ResultInv /\ GotInv /\ [StationNext]_stationVars => GotInv'
<1>. SUFFICES ASSUME StationTypeOK, ResultInv, GotInv, [StationNext]_stationVars
              PROVE  GotInv'
  OBVIOUS
<1>0. /\ Numbers /\ Phonenum \in Nat /\ passCnt \in Nat /\ Len(got) \in Nat
      /\ \A i \in 1 .. Len(got) : got[i] \in Nat
  <2>1. Numbers
    BY TypeParts
  <2>2. \A i \in 1 .. Len(got) : got[i] \in 1 .. MaxRows
    BY <2>1, ElementOfSeq DEF Numbers
  <2>. QED BY <2>1, <2>2, RowsAssumption, LenProperties DEF Numbers
<1>1. ASSUME UNCHANGED <<got, Phonenum, passCnt>>, UNCHANGED <<pcB, op>> \/ pcB' \in {"idle", "build", "died", "diedShort"}
      PROVE  GotInv'
  BY <1>1 DEF GotInv
<1>2. ASSUME got' = <<>>, pcB' \in {"select", "fetch"}
      PROVE  GotInv'
  <2>1. Len(got') = 0
    BY <1>2
  <2>2. \A i \in 1 .. Len(got') : FALSE
    BY <2>1
  <2>. QED BY <1>2, <2>2 DEF GotInv
<1>3. CASE UNCHANGED stationVars
  BY <1>1, <1>3 DEF stationVars, vars, bleVars, session, history
<1>4. ASSUME NEW closes \in BOOLEAN, SensorFrame(closes)
      PROVE  GotInv'
  BY <1>1, <1>4 DEF SensorFrame, bleVars, session, history
<1>5. CASE ReaderStep
  BY <1>1, <1>5 DEF ReaderStep, ExecuteCount, FetchCount, FetchOther, InsertRow, AddRow, PushRow, PushRaises,
                    bleVars, session, history
<1>6. CASE Collide \/ SelectShort \/ FinishReply \/ EndTransfer \/ NotARow
  BY <1>1, <1>6 DEF Collide, SelectShort, FinishReply, EndTransfer, NotARow, session, history
<1>15. CASE WriteRaises
  <2>1. UNCHANGED got /\ pcB' = "died" /\ Phonenum' \in {Phonenum, Phonenum + 1}
    BY <1>15 DEF WriteRaises, history
  <2>. QED BY <1>0, <2>1 DEF GotInv
<1>7. CASE Select \/ SwapAnswers
  BY <1>2, <1>7 DEF Select, SwapAnswers, GotInv
<1>8. CASE Fetch
  BY <1>1, <1>8 DEF Fetch, history
<1>9. CASE Build
  BY <1>9 DEF Build, GotInv, ResultInv, session, history
<1>10. CASE FinishSingle
  <2>1. CASE RowLeft /\ sedD
    <3>1. /\ NextRow.n = Phonenum + 1 /\ NextRow.n <= table
      BY <1>0, <1>10, <2>1, SentType DEF FinishSingle, RowLeft, NextRow, ResultInv
    <3>2. NextRow.n \in 1 .. MaxRows
      BY <1>0, <3>1, RowsAssumption DEF Numbers
    <3>3. /\ \A i \in 1 .. Len(got') : got'[i] <= NextRow.n
          /\ \A i, j \in 1 .. Len(got') : i < j => got'[i] < got'[j]
      BY <1>0, <1>10, <2>1, <3>1, <3>2, SentInOrder DEF FinishSingle, GotInv
    <3>. QED BY <1>10, <2>1, <3>1, <3>3 DEF FinishSingle, GotInv
  <2>2. CASE ~(RowLeft /\ sedD)
    BY <1>0, <1>10, <2>2 DEF FinishSingle, GotInv
  <2>. QED BY <2>1, <2>2
<1>11. CASE SkipRow
  BY <1>0, <1>11 DEF SkipRow, GotInv, session, history
<1>12. CASE BeginRow
  BY <1>0, <1>12 DEF BeginRow, GotInv, ResultInv, history
<1>13. CASE FinishRow
  <2>1. CASE sedD
    <3>. DEFINE v == BLEresult[passCnt + 1].n
    <3>1. v = passCnt + 1 /\ v <= table
      BY <1>0, <1>13, SentType DEF FinishRow, ResultInv
    <3>2. v \in 1 .. MaxRows
      BY <1>0, <3>1, RowsAssumption DEF Numbers
    <3>3. got' = Append(got, v) /\ \A i \in 1 .. Len(got) : got[i] < v
      BY <1>0, <1>13, <2>1, <3>1 DEF FinishRow, GotInv
    <3>. HIDE DEF v
    <3>4. /\ \A i \in 1 .. Len(got') : got'[i] <= v
          /\ \A i, j \in 1 .. Len(got') : i < j => got'[i] < got'[j]
      BY <1>0, <3>2, <3>3, SentInOrder
    <3>. QED BY <1>0, <1>13, <3>1, <3>4 DEF FinishRow, GotInv, session
  <2>2. CASE ~sedD
    BY <1>0, <1>13, <2>2 DEF FinishRow, GotInv, session
  <2>. QED BY <2>1, <2>2
<1>14. CASE PhoneCommand
  <2>1. CASE \E p \in 0 .. MaxRows + 1 : AskForRows(p)
    BY <1>2, <2>1 DEF AskForRows
  <2>2. CASE StartTransfer
    BY <1>0, <2>2 DEF StartTransfer, Take, GotInv, session
  <2>3. CASE EndOfSingle
    BY <1>1, <2>3 DEF EndOfSingle, Take, session
  <2>4. CASE \/ \E o \in 1 .. 3 : Acknowledge(o)
             \/ AskForSingle
             \/ \E o \in {2, 3} : ShortFrame(o)
    BY <1>1, <2>4 DEF Acknowledge, AskForSingle, ShortFrame, session
  <2>. QED BY <1>14, <2>1, <2>2, <2>3, <2>4 DEF PhoneCommand, Command
<1>. QED BY <1>3, <1>4, <1>5, <1>6, <1>7, <1>8, <1>9, <1>10, <1>11, <1>12, <1>13, <1>14,
            <1>15 DEF StationNext, PhoneStep, BleStep

\* Steps of the reader, which with the threads apart leaves the list and the
\* cursor to the phone thread while that is using them.
LEMMA ReaderKeeps ==
  ASSUME Apart, Fetching,
         ReaderStep \/ Collide \/ SwapAnswers \/ \E closes \in BOOLEAN : SensorFrame(closes)
  PROVE  /\ UNCHANGED <<bleVars, asked, announced, got>>
         /\ pcB = "finish" => UNCHANGED sedD
         /\ pcB = "fetch" => pcR # "fetchCount" /\ pcR' # "fetchCount" /\ UNCHANGED cur
         /\ oversized \subseteq oversized'
         /\ \/ UNCHANGED <<table, oversized, live>> /\ pcR \notin {"push", "died"}
            \/ /\ UNCHANGED live /\ pcR = "insert" /\ pcR' = "push" /\ pcB # "fetch"
               /\ table' = table + 1
            \/ UNCHANGED table /\ pcR = "push" /\ live' = live \cup {table}
            \/ UNCHANGED <<table, oversized, live>> /\ pcR = "push" /\ pcR' = "died" /\ table \in oversized
<1>1. ~Collide /\ ~SwapAnswers
  BY DEF Apart, Collide, SwapAnswers
<1>2. CASE \E closes \in BOOLEAN : SensorFrame(closes)
  BY <1>2 DEF SensorFrame, Apart, BufferFree, history
<1>3. CASE ExecuteCount \/ FetchCount \/ FetchOther
  BY <1>3 DEF ExecuteCount, FetchCount, FetchOther, Apart, CursorFree, Fetching, history
<1>4. CASE InsertRow
  BY <1>4 DEF InsertRow, AddRow, Apart, CursorFree, history
<1>5. CASE PushRow \/ PushRaises
  BY <1>5 DEF PushRow, PushRaises, shared, history
<1>. QED BY <1>1, <1>2, <1>3, <1>4, <1>5 DEF ReaderStep

\* So the rows it adds are pushed and nothing else changes for the phone.
LEMMA ReaderApart ==
  ASSUME Numbers, Apart, ListKept, SentFollow, Fetching, Sending,
         ReaderStep \/ Collide \/ SwapAnswers \/ \E closes \in BOOLEAN : SensorFrame(closes)
  PROVE  ListKept' /\ SentFollow' /\ Fetching' /\ Sending'
<1>0. table \in Nat /\ asked \in Nat /\ BLEnum \in Nat
  BY RowsAssumption DEF Numbers
<1>1. /\ UNCHANGED <<bleVars, asked, got>>
      /\ pcB = "finish" => UNCHANGED sedD
      /\ pcB = "fetch" => pcR # "fetchCount" /\ pcR' # "fetchCount" /\ UNCHANGED cur
  BY ReaderKeeps
<1>6. \/ UNCHANGED <<table, oversized, live>> /\ pcR \notin {"push", "died"}
      \/ UNCHANGED live /\ pcR = "insert" /\ pcR' = "push" /\ pcB # "fetch" /\ table' = table + 1
      \/ UNCHANGED table /\ pcR = "push" /\ live' = live \cup {table}
      \/ UNCHANGED <<table, oversized, live>> /\ pcR = "push" /\ pcR' = "died" /\ table \in oversized
  BY ReaderKeeps
<1>2. ListKept'
  BY <1>1 DEF ListKept, bleVars
<1>3. SentFollow'
  BY <1>0, <1>1, <1>6 DEF SentFollow
<1>4. Fetching'
  BY <1>0, <1>1, <1>6 DEF Fetching, bleVars, session
<1>5. Sending'
  <2>1. UNCHANGED Ahead
    BY <1>1 DEF Ahead, bleVars
  <2>2. pcB \in Settled /\ BLEnum # 0 =>
          \A i \in asked + BLEnum + 1 .. table' : i \in live' \/ AtPush(i)'
    BY <1>0, <1>6 DEF Sending, AtPush
  <2>. QED BY <1>1, <2>1, <2>2 DEF Sending, bleVars, session
<1>. QED BY <1>2, <1>3, <1>4, <1>5

\* Steps of the phone thread.
LEMMA PhoneApart ==
  ASSUME StationTypeOK, Numbers, ResultInv, GotInv, Apart,
         ListKept, SentFollow, Fetching, Sending, PhoneStep
  PROVE  ListKept' /\ SentFollow' /\ Fetching' /\ Sending'
<1>0. /\ table \in Nat /\ asked \in Nat /\ BLEnum \in Nat /\ Phonenum \in Nat
      /\ passCnt \in Nat /\ Len(got) \in Nat
      /\ \A i \in 1 .. Len(got) : i \in Nat
  BY RowsAssumption, LenProperties DEF Numbers
<1>1. UNCHANGED <<table, oversized, asked, pcR>> /\ (pcB = "select" => pcR # "fetchCount")
  BY DEF PhoneStep, BleStep, Select, SelectShort, Fetch, Build, FinishReply, FinishSingle,
         SkipRow, BeginRow, FinishRow, EndTransfer, NotARow, WriteRaises, CursorFree, Apart, shared, history
<1>2. ASSUME UNCHANGED got
      PROVE  SentFollow'
  BY <1>1, <1>2 DEF SentFollow
<1>3. ASSUME NEW v \in 1 .. MaxRows, got' = Append(got, v), v = asked + Len(got) + 1, v <= table
      PROVE  SentFollow' /\ Len(got') = Len(got) + 1
  <2>1. \A i \in 1 .. Len(got') :
          /\ i \in Nat /\ (i \in 1 .. Len(got) \/ i = Len(got) + 1)
          /\ i \in 1 .. Len(got) => got'[i] = got[i]
          /\ i = Len(got) + 1 => got'[i] = v
    BY <1>0, <1>3, Appended
  <2>2. Len(got') = Len(got) + 1
    BY <1>3, Appended
  <2>3. ASSUME NEW i \in 1 .. Len(got')
        PROVE  got'[i] = asked + i /\ got'[i] <= table
    <3>1. CASE i \in 1 .. Len(got)
      BY <2>1, <3>1 DEF SentFollow
    <3>2. CASE i = Len(got) + 1
      BY <1>0, <1>3, <2>1, <3>2
    <3>. QED BY <2>1, <3>1, <3>2
  <2>. QED BY <1>1, <2>2, <2>3 DEF SentFollow
<1>4. ASSUME UNCHANGED <<got, live, BLEnum, BLEresult>>, pcB \in Settled, pcB' \in Settled,
             Phonenum' + Ahead = Phonenum + Ahead', BLEnum # 0 => Phonenum' <= Len(BLEresult)
      PROVE  SentFollow' /\ Fetching' /\ Sending'
  <2>1. Ahead \in Nat /\ Ahead' \in Nat
    BY DEF Ahead
  <2>2. Phonenum' \in Nat
    BY <1>0 DEF PhoneStep, BleStep, Select, SelectShort, Fetch, Build, FinishReply,
                FinishSingle, SkipRow, BeginRow, FinishRow, EndTransfer, NotARow, WriteRaises, session
  <2>3. SentFollow'
    BY <1>2, <1>4
  <2>4. Fetching'
    BY <1>4 DEF Fetching, Settled
  <2>5. /\ Phonenum = asked + Len(got) + Ahead
        /\ BLEnum # 0 =>
             /\ Len(BLEresult) = asked + BLEnum
             /\ \A i \in asked + BLEnum + 1 .. table : i \in live \/ AtPush(i)
    BY <1>4 DEF Sending
  <2>6. Phonenum' = asked + Len(got) + Ahead'
    BY <1>0, <1>4, <2>1, <2>2, <2>5
  <2>7. Sending'
    BY <1>1, <1>4, <2>5, <2>6 DEF Sending, AtPush
  <2>. QED BY <2>3, <2>4, <2>7
<1>5. CASE Select
  <2>1. Len(cur') = table
    BY <1>5, Results DEF Select, StationTypeOK
  <2>. QED BY <1>1, <1>2, <1>5, <2>1 DEF Select, ListKept, Fetching, Sending, Settled
<1>6. CASE SelectShort \/ NotARow \/ WriteRaises
  BY <1>2, <1>6 DEF SelectShort, NotARow, WriteRaises, ListKept, Fetching, Sending, Settled, history
<1>7. CASE Fetch
  <2>1. Len(got) = 0 /\ op = 4
    BY <1>7 DEF Fetch, GotInv, ResultInv
  <2>2. Ahead' = 0
    BY <1>7 DEF Fetch, Ahead
  <2>. QED BY <1>0, <1>1, <1>2, <1>7, <2>1, <2>2
           DEF Fetch, ListKept, Fetching, Sending, Settled, history
<1>8. CASE Build
  <2>1. Ahead = 0 /\ Ahead' = 0
    BY <1>8 DEF Build, Ahead, ResultInv
  <2>. QED BY <1>4, <1>8, <2>1 DEF Build, ListKept, Sending, Settled, session, history
<1>9. CASE FinishReply
  <2>1. Ahead = 0 /\ Ahead' = 0
    BY <1>9 DEF FinishReply, Ahead
  <2>. QED BY <1>4, <1>9, <2>1 DEF FinishReply, ListKept, Sending, Settled, session, history
<1>10. CASE SkipRow \/ EndTransfer
  <2>1. Ahead = 0 /\ Ahead' = 0
    BY <1>10 DEF SkipRow, EndTransfer, Ahead
  <2>. QED BY <1>4, <1>10, <2>1
           DEF SkipRow, EndTransfer, ListKept, Sending, Settled, session, history
<1>11. CASE BeginRow
  <2>1. Ahead = 0 /\ Ahead' = 1
    BY <1>11 DEF BeginRow, Ahead, ResultInv
  <2>2. Phonenum = passCnt /\ Len(BLEresult) \in Nat
    BY <1>0, <1>11, LenProperties DEF BeginRow, GotInv, ResultInv, IsRows
  <2>. QED BY <1>0, <1>4, <1>11, <2>1, <2>2 DEF BeginRow, ListKept, Sending, Settled, history
<1>12. CASE FinishRow
  <2>. DEFINE v == BLEresult[passCnt + 1].n
  <2>1. v = passCnt + 1 /\ v <= table
    BY <1>0, <1>12, SentType DEF FinishRow, ResultInv
  <2>2. v \in 1 .. MaxRows
    BY <1>0, <2>1, RowsAssumption DEF Numbers
  <2>3. Ahead = 1 /\ Ahead' = 0
    BY <1>12 DEF FinishRow, Ahead
  <2>4. got' = Append(got, v)
    BY <1>12 DEF FinishRow, ListKept
  <2>5. Phonenum = asked + Len(got) + 1
    BY <1>0, <1>12, <2>3 DEF FinishRow, Sending, Settled
  <2>6. v = asked + Len(got) + 1
    BY <1>12, <2>1, <2>5 DEF FinishRow, GotInv
  <2>. HIDE DEF v
  <2>7. SentFollow' /\ Len(got') = Len(got) + 1
    BY <1>3, <2>1, <2>2, <2>4, <2>6
  <2>8. ListKept' /\ Fetching'
    BY <1>12 DEF FinishRow, ListKept, Fetching
  <2>9. Sending'
    BY <1>0, <1>1, <1>12, <2>3, <2>5, <2>7 DEF FinishRow, Sending, Settled, session, AtPush
  <2>. QED BY <2>7, <2>8, <2>9
<1>13. CASE FinishSingle
  <2>1. Ahead = 0 /\ Ahead' = 0
    BY <1>13 DEF FinishSingle, Ahead
  <2>2. Phonenum = asked + Len(got)
    BY <1>0, <1>13, <2>1 DEF FinishSingle, Sending, Settled
  <2>3. CASE RowLeft
    <3>. DEFINE v == NextRow.n
    <3>1. v = Phonenum + 1 /\ v <= table
      BY <1>0, <1>13, <2>3, SentType DEF FinishSingle, RowLeft, NextRow, ResultInv
    <3>2. v \in 1 .. MaxRows
      BY <1>0, <3>1, RowsAssumption DEF Numbers
    <3>3. got' = Append(got, v)
      BY <1>13, <2>3 DEF FinishSingle, ListKept
    <3>. HIDE DEF v
    <3>4. SentFollow' /\ Len(got') = Len(got) + 1
      BY <1>0, <1>3, <2>2, <3>1, <3>2, <3>3
    <3>5. ListKept' /\ Fetching'
      BY <1>13 DEF FinishSingle, ListKept, Fetching
    <3>6. Len(BLEresult) \in Nat /\ Phonenum + 1 <= Len(BLEresult)
      BY <1>0, <1>13, <2>3, LenProperties DEF FinishSingle, RowLeft, ResultInv, IsRows
    <3>7. Sending'
      BY <1>0, <1>1, <1>13, <2>1, <2>2, <2>3, <3>4, <3>6 DEF FinishSingle, Sending, Settled, AtPush
    <3>. QED BY <3>4, <3>5, <3>7
  <2>4. CASE ~RowLeft
    BY <1>4, <1>13, <2>1, <2>4 DEF FinishSingle, ListKept, Sending, Settled
  <2>. QED BY <2>3, <2>4
<1>. QED BY <1>5, <1>6, <1>7, <1>8, <1>9, <1>10, <1>11, <1>12, <1>13 DEF PhoneStep, BleStep

\* Commands find the thread between two of them.
LEMMA CommandApart ==
  ASSUME Numbers, SentFollow, Fetching, Sending, PhoneCommand
  PROVE  ListKept' /\ SentFollow' /\ Fetching' /\ Sending'
<1>1. pcB = "idle" /\ Ahead = 0 /\ UNCHANGED <<table, oversized, live, pcR>>
  BY DEF PhoneCommand, Command, Take, Acknowledge, AskForRows, StartTransfer, EndOfSingle,
         AskForSingle, ShortFrame, Ahead
<1>2. ASSUME NEW p \in 0 .. MaxRows + 1, AskForRows(p)
      PROVE  ListKept' /\ SentFollow' /\ Fetching' /\ Sending'
  <2>1. Len(got') = 0
    BY <1>2 DEF AskForRows
  <2>2. \A i \in 1 .. Len(got') : FALSE
    BY <2>1
  <2>. QED BY <1>2, <2>2 DEF AskForRows, ListKept, SentFollow, Fetching, Sending, Settled
<1>3. ASSUME UNCHANGED <<asked, got, Phonenum, BLEnum, BLEresult>>,
             pcB' \in {"idle", "build", "next", "died", "diedShort"}
      PROVE  ListKept' /\ SentFollow' /\ Fetching' /\ Sending'
  <2>1. Ahead' = 0
    BY <1>3 DEF Ahead
  <2>. QED BY <1>1, <1>3, <2>1 DEF ListKept, SentFollow, Fetching, Sending, Settled, AtPush
<1>4. CASE \E o \in 1 .. 3 : Acknowledge(o)
  BY <1>3, <1>4 DEF Acknowledge
<1>5. CASE \E o \in {2, 3} : ShortFrame(o)
  BY <1>3, <1>5 DEF ShortFrame, session
<1>6. CASE StartTransfer
  BY <1>3, <1>6 DEF StartTransfer, session
<1>7. CASE EndOfSingle
  BY <1>1, <1>3, <1>7 DEF EndOfSingle, session
<1>8. CASE AskForSingle
  BY <1>3, <1>8 DEF AskForSingle, session
<1>. QED BY <1>2, <1>4, <1>5, <1>6, <1>7, <1>8 DEF PhoneCommand, Command

\* The rows sent stay among those fetched: command 4 forgets both.
LEMMA NextSent ==
  StationTypeOK /\ ResultInv /\ GotInv /\ SentFetched /\ [StationNext]_stationVars
  => SentFetched'
<1>. SUFFICES ASSUME StationTypeOK, ResultInv, GotInv, SentFetched, [StationNext]_stationVars
              PROVE  SentFetched'
  OBVIOUS
<1>0. Numbers /\ Phonenum \in Nat /\ passCnt \in Nat
  BY TypeParts DEF Numbers
<1>1. ASSUME UNCHANGED <<got, BLEresult>>
      PROVE  SentFetched'
  BY <1>1 DEF SentFetched
<1>2. ASSUME got' = <<>>
      PROVE  SentFetched'
  <2>1. Len(got') = 0
    BY <1>2
  <2>2. \A i \in 1 .. Len(got') : FALSE
    BY <2>1
  <2>. QED BY <2>2 DEF SentFetched
<1>3. ASSUME NEW k \in Nat, k < Len(BLEresult), BLEresult[k + 1].kind = "row", IsRows(BLEresult),
             got' = Append(got, BLEresult[k + 1].n), UNCHANGED BLEresult
      PROVE  SentFetched'
  <2>. DEFINE v == BLEresult[k + 1].n
  <2>1. v = k + 1 /\ v <= table
    BY <1>3, SentType
  <2>2. v \in 1 .. MaxRows /\ v <= Len(BLEresult)
    <3>1. Len(BLEresult) \in Nat
      BY <1>3, LenProperties DEF IsRows
    <3>. QED BY <1>0, <1>3, <2>1, <3>1, RowsAssumption DEF Numbers
  <2>. HIDE DEF v
  <2>3. \A i \in 1 .. Len(got') :
          /\ i \in 1 .. Len(got) \/ i = Len(got) + 1
          /\ i \in 1 .. Len(got) => got'[i] = got[i]
          /\ i = Len(got) + 1 => got'[i] = v
    BY <1>0, <1>3, <2>2, Appended DEF v
  <2>. QED BY <1>3, <2>2, <2>3, UnsetAssumption DEF SentFetched, IsRows
<1>4. CASE UNCHANGED stationVars
  BY <1>1, <1>4 DEF stationVars, vars, bleVars, session, history
<1>5. CASE ReaderStep \/ Collide \/ SwapAnswers \/ \E closes \in BOOLEAN : SensorFrame(closes)
  BY <1>1, <1>5 DEF ReaderStep, Collide, SwapAnswers, SensorFrame, ExecuteCount, FetchCount,
                    FetchOther, InsertRow, PushRow, PushRaises, bleVars, session, history
<1>6. CASE Fetch
  BY <1>2, <1>6 DEF Fetch, GotInv, history
<1>7. CASE FinishSingle
  BY <1>0, <1>1, <1>3, <1>7 DEF FinishSingle, RowLeft, NextRow, ResultInv
<1>8. CASE FinishRow
  BY <1>0, <1>1, <1>3, <1>8 DEF FinishRow, ResultInv, session
<1>9. CASE PhoneStep /\ ~Fetch /\ ~FinishSingle /\ ~FinishRow
  BY <1>1, <1>9 DEF PhoneStep, BleStep, Select, SelectShort, Build, FinishReply, SkipRow,
                    BeginRow, EndTransfer, NotARow, WriteRaises, session, history
<1>10. CASE PhoneCommand
  BY <1>1, <1>2, <1>10 DEF PhoneCommand, Command, Acknowledge, AskForRows, StartTransfer,
                           EndOfSingle, AskForSingle, ShortFrame, session
<1>. QED BY <1>4, <1>5, <1>6, <1>7, <1>8, <1>9, <1>10 DEF StationNext

\* The number announced stays the one computed, or 0.
LEMMA NextAnnounced ==
  ResultInv /\ AnnouncedInv /\ [StationNext]_stationVars => AnnouncedInv'
<1>. SUFFICES ASSUME ResultInv, AnnouncedInv, [StationNext]_stationVars
              PROVE  AnnouncedInv'
  OBVIOUS
<1>1. ASSUME UNCHANGED <<announced, BLEnum>>, pcB' \in {"select", "fetch"} => pcB \in {"select", "fetch"}
      PROVE  AnnouncedInv'
  BY <1>1 DEF AnnouncedInv
<1>2. CASE UNCHANGED stationVars
  BY <1>1, <1>2 DEF stationVars, vars, bleVars, session, history
<1>3. CASE ReaderStep \/ Collide \/ \E closes \in BOOLEAN : SensorFrame(closes)
  BY <1>1, <1>3 DEF ReaderStep, Collide, SensorFrame, ExecuteCount, FetchCount,
                    FetchOther, InsertRow, PushRow, PushRaises, bleVars, session, history
<1>4. CASE Select \/ SwapAnswers
  BY <1>4 DEF Select, SwapAnswers, AnnouncedInv
<1>5. CASE FinishReply
  BY <1>5 DEF FinishReply, AnnouncedInv, session
<1>6. CASE PhoneStep /\ ~Select /\ ~FinishReply
  BY <1>1, <1>6 DEF PhoneStep, BleStep, SelectShort, Fetch, Build, FinishSingle, SkipRow,
                    BeginRow, FinishRow, EndTransfer, NotARow, WriteRaises, session, history
<1>7. CASE \E p \in 0 .. MaxRows + 1 : AskForRows(p)
  BY <1>7 DEF AskForRows, AnnouncedInv
<1>8. CASE PhoneCommand /\ ~\E p \in 0 .. MaxRows + 1 : AskForRows(p)
  BY <1>1, <1>8 DEF PhoneCommand, Command, Acknowledge, StartTransfer, EndOfSingle,
                    AskForSingle, ShortFrame, session
<1>. QED BY <1>2, <1>3, <1>4, <1>5, <1>6, <1>7, <1>8 DEF StationNext

\* A number is announced before a row is sent.
LEMMA NextTold ==
  ASSUME ResultInv, AnnouncedInv, Apart, ListKept, Fetching, Told, [StationNext]_stationVars
  PROVE  Told'
<1>1. ASSUME UNCHANGED <<announced, BLEnum>>, pcB \in Settled, pcB' \in Settled => pcB' \notin {"build", "finish"} \/ op' = op,
             pcB \in {"build", "finish"} /\ pcB' \notin {"build", "finish"} => op # 4 \/ pcB' \notin Settled
      PROVE  Told'
  BY <1>1 DEF Told
<1>2. ASSUME pcB' \notin Settled
      PROVE  Told'
  BY <1>2 DEF Told
<1>3. CASE UNCHANGED stationVars
  BY <1>3 DEF stationVars, vars, bleVars, session, history, Told
<1>4. CASE ReaderStep \/ Collide \/ SwapAnswers \/ \E closes \in BOOLEAN : SensorFrame(closes)
  BY <1>4, ReaderKeeps DEF bleVars, session, Told
<1>5. CASE Fetch
  BY <1>5 DEF Fetch, ResultInv, Told
<1>6. CASE Select \/ SelectShort \/ NotARow \/ WriteRaises
  BY <1>2, <1>6 DEF Select, SelectShort, NotARow, WriteRaises, Settled
<1>7. CASE FinishReply
  BY <1>7 DEF FinishReply, ListKept, Told, Settled, session
<1>8. CASE Build \/ FinishSingle
  BY <1>8 DEF Build, FinishSingle, Told, Settled, session, history
<1>9. CASE SkipRow \/ BeginRow \/ FinishRow \/ EndTransfer
  BY <1>9 DEF SkipRow, BeginRow, FinishRow, EndTransfer, ResultInv, Told, Settled, session, history
<1>10. CASE PhoneCommand
  BY <1>10 DEF PhoneCommand, Command, Take, Acknowledge, AskForRows, StartTransfer,
               EndOfSingle, AskForSingle, ShortFrame, Told, Settled, session
<1>. QED BY <1>3, <1>4, <1>5, <1>6, <1>7, <1>8, <1>9, <1>10 DEF StationNext, PhoneStep, BleStep

\* Results that stay in the cursor or with the phone thread get no older than
\* the rows pushed.
LEMMA NextFresh ==
  ASSUME StationTypeOK, Numbers, Apart, Fetching, FetchedFresh, [StationNext]_stationVars
  PROVE  FetchedFresh'
<1>0. table \in Nat /\ live \subseteq Nat
  BY RowsAssumption DEF Numbers
<1>1. ASSUME NEW r \in Seq(Result), Fresh(r), table' = table \/ table' = table + 1,
             live' \in {live, live \cup {table}, {}}
      PROVE  /\ Len(r) <= table' /\ \A i \in 1 .. Len(r) : r[i].kind = "row"
             /\ \A i \in live' : Len(r) <= i
  <2>1. Len(r) \in Nat
    BY LenProperties
  <2>. QED BY <1>0, <1>1, <2>1 DEF Fresh
<1>2. ASSUME table' = table \/ table' = table + 1, live' \in {live, live \cup {table}, {}},
             UNCHANGED BLEresult, pcB' = "fetch" => pcB = "fetch" /\ UNCHANGED cur
      PROVE  FetchedFresh'
  <2>1. pcB' = "fetch" => Fresh(cur)'
    <3>1. ASSUME pcB = "fetch"
          PROVE  /\ Len(cur) <= table' /\ \A i \in 1 .. Len(cur) : cur[i].kind = "row"
                 /\ \A i \in live' : Len(cur) <= i
      BY <1>1, <1>2, <3>1 DEF Numbers, FetchedFresh
    <3>. QED BY <1>2, <3>1 DEF Fresh
  <2>2. BLEresult' # Unset => Fresh(BLEresult)'
    <3>1. ASSUME BLEresult # Unset
          PROVE  /\ Len(BLEresult) <= table' /\ \A i \in 1 .. Len(BLEresult) : BLEresult[i].kind = "row"
                 /\ \A i \in live' : Len(BLEresult) <= i
      BY <1>1, <1>2, <3>1 DEF Numbers, FetchedFresh
    <3>. QED BY <1>2, <3>1 DEF Fresh
  <2>. QED BY <2>1, <2>2 DEF FetchedFresh
<1>3. CASE UNCHANGED stationVars
  BY <1>2, <1>3 DEF stationVars, vars, shared, bleVars, session, history
<1>4. CASE ReaderStep \/ Collide \/ SwapAnswers \/ \E closes \in BOOLEAN : SensorFrame(closes)
  BY <1>2, <1>4, ReaderKeeps DEF bleVars, session
<1>5. CASE Select
  <2>1. live' = {} /\ UNCHANGED <<table, BLEresult>> /\ cur' = AllRows
    BY <1>5 DEF Select
  <2>2. Fresh(cur)'
    BY <1>0, <2>1, Results DEF StationTypeOK, Fresh
  <2>3. BLEresult' # Unset => Fresh(BLEresult)'
    BY <2>1 DEF FetchedFresh, Fresh
  <2>. QED BY <2>2, <2>3 DEF FetchedFresh
<1>6. CASE Fetch
  <2>1. Fresh(BLEresult)'
    BY <1>6 DEF Fetch, FetchedFresh, Fresh, history
  <2>. QED BY <1>6, <2>1 DEF Fetch, FetchedFresh
<1>7. CASE PhoneStep /\ ~Select /\ ~Fetch
  BY <1>2, <1>7 DEF PhoneStep, BleStep, SelectShort, Build, FinishReply, FinishSingle, SkipRow,
                    BeginRow, FinishRow, EndTransfer, NotARow, WriteRaises, shared, session, history
<1>8. CASE PhoneCommand
  BY <1>2, <1>8 DEF PhoneCommand, Command, Take, Acknowledge, AskForRows, StartTransfer,
                    EndOfSingle, AskForSingle, ShortFrame, session
<1>. QED BY <1>3, <1>4, <1>5, <1>6, <1>7, <1>8 DEF StationNext

\* What ends the phone's thread.
LEMMA NextSurvives ==
  ASSUME Numbers, ResultInv, GotInv, Apart, UNCHANGED interleave, Fetching, FetchedFresh,
         PhoneThreadSurvives, [StationNext]_stationVars
  PROVE  PhoneThreadSurvives'
<1>0. Phonenum \in Nat /\ passCnt \in Nat
  BY DEF Numbers
<1>1. ASSUME pcB' = "died" => pcB = "died", UNCHANGED <<Phonenum, BLEresult>>, oversized \subseteq oversized'
      PROVE  PhoneThreadSurvives'
  BY <1>1 DEF PhoneThreadSurvives, Apart
<1>2. CASE UNCHANGED stationVars
  BY <1>1, <1>2 DEF stationVars, vars, shared, bleVars, session
<1>3. CASE ReaderStep \/ Collide \/ SwapAnswers \/ \E closes \in BOOLEAN : SensorFrame(closes)
  BY <1>1, <1>3, ReaderKeeps DEF bleVars, session
<1>4. CASE NotARow
  <2>1. CASE op = 6 /\ pcB = "finish" /\ RowLeft /\ NextRow.kind # "row"
    <3>1. IsRows(BLEresult)
      BY <2>1 DEF ResultInv
    <3>2. Phonenum + 1 \in 1 .. Len(BLEresult)
      BY <1>0, <2>1, <3>1, LenProperties DEF RowLeft, IsRows
    <3>3. BLEresult = Unset
      BY <2>1, <3>2 DEF FetchedFresh, Fresh, NextRow
    <3>. QED BY <1>4, <3>3 DEF NotARow, session, PhoneThreadSurvives
  <2>2. CASE pcB = "next" /\ passCnt < Len(BLEresult) /\ BLEresult[passCnt + 1].kind # "row"
    <3>1. IsRows(BLEresult)
      BY <2>2 DEF ResultInv
    <3>2. passCnt + 1 \in 1 .. Len(BLEresult)
      BY <1>0, <2>2, <3>1, LenProperties DEF IsRows
    <3>3. BLEresult = Unset
      BY <2>2, <3>2 DEF FetchedFresh, Fresh
    <3>. QED BY <1>4, <3>3 DEF NotARow, session, PhoneThreadSurvives
  <2>. QED BY <1>4, <2>1, <2>2 DEF NotARow
<1>5. CASE WriteRaises
  <2>1. CASE op = 5
    <3>1. /\ BLEresult[passCnt + 1].n \in oversized /\ UNCHANGED <<Phonenum, oversized>>
          /\ passCnt < Len(BLEresult) /\ BLEresult[passCnt + 1].kind = "row"
          /\ Phonenum = passCnt + 1 /\ IsRows(BLEresult)
      BY <1>5, <2>1 DEF WriteRaises, shared, GotInv, ResultInv
    <3>2. passCnt + 1 \in 1 .. Len(BLEresult)
      BY <1>0, <3>1, LenProperties DEF IsRows
    <3>3. Phonenum' \in oversized'
      BY <3>1, <3>2 DEF IsRows
    <3>. QED BY <3>3 DEF PhoneThreadSurvives
  <2>2. CASE op = 6
    <3>1. /\ NextRow.n \in oversized /\ Phonenum' = Phonenum + 1 /\ UNCHANGED oversized
          /\ RowLeft /\ NextRow.kind = "row" /\ IsRows(BLEresult)
      BY <1>5, <2>2 DEF WriteRaises, shared, ResultInv
    <3>2. Phonenum + 1 \in 1 .. Len(BLEresult)
      BY <1>0, <3>1, LenProperties DEF RowLeft, IsRows
    <3>3. Phonenum' \in oversized'
      BY <3>1, <3>2 DEF IsRows, NextRow
    <3>. QED BY <3>3 DEF PhoneThreadSurvives
  <2>. QED BY <1>5, <2>1, <2>2 DEF WriteRaises
<1>6. CASE PhoneStep /\ ~NotARow /\ ~WriteRaises
  <2>1. pcB' # "died"
    BY <1>6 DEF PhoneStep, BleStep, Select, SelectShort, Fetch, Build, FinishReply, FinishSingle,
                SkipRow, BeginRow, FinishRow, EndTransfer
  <2>. QED BY <2>1 DEF PhoneThreadSurvives
<1>7. CASE PhoneCommand
  <2>1. pcB' = "died" => BLEresult = Unset /\ UNCHANGED BLEresult
    BY <1>7 DEF PhoneCommand, Command, Take, Acknowledge, AskForRows, StartTransfer,
                EndOfSingle, AskForSingle, ShortFrame, session
  <2>. QED BY <2>1 DEF PhoneThreadSurvives
<1>. QED BY <1>2, <1>3, <1>4, <1>5, <1>6, <1>7 DEF StationNext

\* What holds while the threads stay apart.
LEMMA NextApart ==
  /\ StationTypeOK /\ ResultInv /\ GotInv /\ AnnouncedInv /\ ApartInv
  /\ [StationNext]_stationVars
  => ApartInv'
<1>. SUFFICES ASSUME StationTypeOK, ResultInv, GotInv, AnnouncedInv, ApartInv,
                     [StationNext]_stationVars, Apart'
              PROVE  ApartInv'
  BY DEF ApartInv
<1>1. UNCHANGED interleave
  BY DEF stationVars, StationNext, ReaderStep, PhoneStep, PhoneCommand
<1>2. /\ Apart /\ Numbers /\ ListKept /\ SentFollow /\ Fetching /\ Sending
      /\ Told /\ FetchedFresh /\ PhoneThreadSurvives
  BY <1>1, TypeParts DEF Apart, ApartInv
<1>3. ListKept' /\ SentFollow' /\ Fetching' /\ Sending'
  <2>1. CASE UNCHANGED stationVars
    <3>1. UNCHANGED Ahead
      BY <2>1 DEF stationVars, vars, bleVars, Ahead
    <3>. QED BY <1>2, <2>1, <3>1 DEF stationVars, vars, shared, bleVars, session, history,
                                     ListKept, SentFollow, Fetching, Sending, AtPush
  <2>2. CASE ReaderStep \/ Collide \/ SwapAnswers \/ \E closes \in BOOLEAN : SensorFrame(closes)
    BY <1>2, <2>2, ReaderApart
  <2>3. CASE PhoneStep
    BY <1>2, <2>3, PhoneApart
  <2>4. CASE PhoneCommand
    BY <1>2, <2>4, CommandApart
  <2>. QED BY <2>1, <2>2, <2>3, <2>4 DEF StationNext
<1>4. Told' /\ FetchedFresh' /\ PhoneThreadSurvives'
  BY <1>1, <1>2, NextTold, NextFresh, NextSurvives
<1>. QED BY <1>3, <1>4 DEF ApartInv
-----------------------------------------------------------------------------
\* The station starts with nothing fetched and nothing sent.
LEMMA InitParts ==
  StationInit => ResultInv /\ ReaderInv /\ GotInv /\ SentFetched /\ AnnouncedInv /\ ApartInv
<1>. SUFFICES ASSUME StationInit
              PROVE  ResultInv /\ ReaderInv /\ GotInv /\ SentFetched /\ AnnouncedInv /\ ApartInv
  OBVIOUS
<1>1. cur = <<>> /\ got = <<>> /\ Len(cur) = 0 /\ Len(got) = 0
  BY DEF StationInit, Init
<1>2. \A i \in 1 .. 0 : FALSE
  OBVIOUS
<1>3. IsRows(cur)
  BY <1>1, <1>2 DEF IsRows
<1>4. ResultInv /\ ReaderInv
  BY <1>3 DEF StationInit, Init, ResultInv, ReaderInv
<1>5. GotInv /\ SentFetched /\ AnnouncedInv
  BY <1>1, <1>2 DEF StationInit, Init, GotInv, SentFetched, AnnouncedInv
<1>6. ApartInv
  <2>1. Ahead = 0
    BY DEF StationInit, Init, Ahead
  <2>2. ListKept /\ SentFollow /\ Fetching /\ Sending
    BY <1>1, <1>2, <2>1 DEF StationInit, Init, ListKept, SentFollow, Fetching, Sending
  <2>3. Told /\ FetchedFresh /\ PhoneThreadSurvives
    BY DEF StationInit, Init, Told, FetchedFresh, PhoneThreadSurvives
  <2>. QED BY <2>2, <2>3 DEF ApartInv
<1>. QED BY <1>4, <1>5, <1>6

\* The inductive invariant of the station.
StationInv ==
  /\ StationTypeOK
  /\ ResultInv
  /\ ReaderInv
  /\ GotInv
  /\ SentFetched
  /\ AnnouncedInv
  /\ ApartInv

\* The threads keep the types, and the rows fetched, counted and sent in
\* step, however many rows and commands there are.
THEOREM StationInvCorrect == StationSpec => []StationInv
<1>1. StationInit => StationInv
  BY InitType, InitParts DEF StationInv
<1>2. StationInv /\ [StationNext]_stationVars => StationInv'
  BY NextType, NextResult, NextReader, NextGot, NextSent, NextAnnounced, NextApart DEF StationInv
<1>. QED BY <1>1, <1>2, PTL DEF StationSpec

\* What the two threads keep has the types of StationTypeOK; the
\* number in the reply to command 4, in particular, is never negative.
THEOREM StationTypeCorrect == StationSpec => []StationTypeOK
<1>1. StationInv => StationTypeOK
  BY DEF StationInv
<1>. QED BY <1>1, StationInvCorrect, PTL

\* With the threads apart the phone gets the rows it asked for, in order and
\* without a gap (RowsFollowAsked).
THEOREM RowsFollowCorrect == StationSpec => []RowsFollowAsked
<1>1. StationInv => RowsFollowAsked
  <2>1. StationTypeOK => DOMAIN got = 1 .. Len(got)
    BY DEF StationTypeOK, TypeOK
  <2>. QED BY <2>1 DEF StationInv, ApartInv, SentFollow, RowsFollowAsked
<1>. QED BY <1>1, StationInvCorrect, PTL

\* However the threads interleave, commands 5 and 6 send no row twice and none
\* before an older one (TransferAscends).
THEOREM TransferAscendsCorrect == StationSpec => []TransferAscends
<1>1. StationInv => TransferAscends
  <2>1. StationTypeOK => DOMAIN got = 1 .. Len(got)
    BY DEF StationTypeOK, TypeOK
  <2>. QED BY <2>1 DEF StationInv, GotInv, TransferAscends
<1>. QED BY <1>1, StationInvCorrect, PTL

\* With the threads apart, only the newest row that command 4 found can be
\* pushed as well as transferred (PushedTwiceIsNewest).
THEOREM PushedTwiceCorrect == StationSpec => []PushedTwiceIsNewest
<1>1. ASSUME StationInv, Apart, NEW k \in DOMAIN got, got[k] \in live
      PROVE  got[k] = Len(BLEresult)
  <2>1. k \in 1 .. Len(got) /\ got[k] \in 1 .. MaxRows
    <3>1. got \in Seq(1 .. MaxRows)
      BY <1>1 DEF StationInv, StationTypeOK, TypeOK
    <3>2. DOMAIN got = 1 .. Len(got)
      BY <3>1
    <3>. QED BY <1>1, <3>1, <3>2, ElementOfSeq
  <2>2. got[k] <= Len(BLEresult)
    BY <1>1, <2>1 DEF StationInv, SentFetched
  <2>3. BLEresult # Unset /\ BLEresult \in Seq(Result)
    <3>1. got # <<>>
      BY <2>1
    <3>2. SentFetched /\ TypeOK
      BY <1>1 DEF StationInv, StationTypeOK
    <3>. QED BY <3>1, <3>2 DEF SentFetched, TypeOK
  <2>4. Len(BLEresult) <= got[k] /\ Len(BLEresult) \in Nat
    BY <1>1, <2>3, LenProperties DEF StationInv, ApartInv, FetchedFresh, Fresh
  <2>. QED BY <2>1, <2>2, <2>4, RowsAssumption
<1>2. StationInv => PushedTwiceIsNewest
  BY <1>1 DEF PushedTwiceIsNewest
<1>. QED BY <1>2, StationInvCorrect, PTL

\* With the threads apart, what complete commands can end the phone's thread
\* with is a command 6 before any command 4, and an oversized row
\* (PhoneThreadSurvives).
THEOREM PhoneSurvivesCorrect == StationSpec => []PhoneThreadSurvives
<1>1. StationInv => PhoneThreadSurvives
  BY DEF StationInv, ApartInv, PhoneThreadSurvives
<1>. QED BY <1>1, StationInvCorrect, PTL

\* However the threads interleave, a row is stored with the index that is its
\* position (IndexIsPosition): a count that is not one is never inserted.
THEOREM IndexCorrect == StationSpec => IndexIsPosition
<1>1. StationInv /\ [StationNext]_stationVars => [table' # table => nCount = table]_stationVars
  <2>. SUFFICES ASSUME StationInv, [StationNext]_stationVars, table' # table
                PROVE  nCount = table
    OBVIOUS
  <2>1. pcR = "insert"
    BY TypeParts, TableGrows DEF StationInv
  <2>. QED BY <2>1 DEF StationInv, ReaderInv
<1>. QED BY <1>1, StationInvCorrect, PTL DEF StationSpec, IndexIsPosition

\* Only the end of a transfer sets the flag.
LEMMA DoneIsEnd ==
  ASSUME StationTypeOK, [StationNext]_stationVars, TransferDone
  PROVE  EndTransfer /\ UNCHANGED <<pcR, interleave>>
<1>1. BLEFlag' # BLEFlag
  BY DEF TransferDone
<1>2. CASE PhoneStep
  BY <1>1, <1>2 DEF PhoneStep, BleStep, Select, SelectShort, Fetch, Build, FinishReply,
                    FinishSingle, SkipRow, BeginRow, FinishRow, NotARow, WriteRaises, session
<1>3. CASE PhoneCommand
  BY <1>3 DEF TransferDone, PhoneCommand, Command, Acknowledge, AskForRows, StartTransfer,
              EndOfSingle, AskForSingle, ShortFrame, session
<1>4. CASE ReaderStep \/ Collide \/ SwapAnswers \/ \E closes \in BOOLEAN : SensorFrame(closes)
  BY <1>1, <1>4 DEF ReaderStep, Collide, SwapAnswers, SensorFrame, ExecuteCount, FetchCount,
                    FetchOther, InsertRow, AddRow, PushRow, PushRaises, bleVars, session
<1>. QED BY <1>1, <1>2, <1>3, <1>4 DEF StationNext, stationVars, vars, bleVars, session

\* A transfer of threads that stay apart has sent all that lacked.
LEMMA EndOfTransfer ==
  ASSUME StationInv, Apart, EndTransfer
  PROVE  /\ BLEnum # 0 /\ BLEnum \in Nat /\ asked \in Nat /\ table \in Nat
         /\ Len(got) = BLEnum /\ announced \in {0, BLEnum}
         /\ \A i \in 1 .. Len(got) : got[i] = asked + i
         /\ \A i \in asked + BLEnum + 1 .. table : i \in live \/ AtPush(i)
<1>1. /\ BLEnum \in Nat /\ asked \in Nat /\ table \in Nat /\ Len(got) \in Nat
      /\ Phonenum \in Nat /\ passCnt \in Nat
  BY RowsAssumption, LenProperties DEF StationInv, StationTypeOK, TypeOK
<1>2. ListKept /\ SentFollow /\ Fetching /\ Sending /\ Told
  BY DEF StationInv, ApartInv
<1>3. pcB = "next" /\ op = 5 /\ BLEnum # 0 /\ Ahead = 0
  BY DEF EndTransfer, StationInv, ResultInv, Ahead
<1>4. Phonenum = asked + Len(got) /\ Len(BLEresult) = asked + BLEnum /\ Phonenum <= Len(BLEresult)
  BY <1>1, <1>2, <1>3 DEF Sending, Settled
<1>5. passCnt = Len(BLEresult) /\ passCnt <= Phonenum
  BY <1>3 DEF EndTransfer, StationInv, GotInv
<1>6. Len(got) = BLEnum
  BY <1>1, <1>4, <1>5
<1>. QED BY <1>1, <1>2, <1>3, <1>6 DEF SentFollow, Sending, Settled, Told

\* With the threads apart, a transfer that has come to its end has sent as
\* many rows as command 4 found lacking, and that or 0 is what the reply said
\* (ApartLackedIsSent).
THEOREM LackedIsSentCorrect == StationSpec => ApartLackedIsSent
<1>1. StationInv /\ [StationNext]_stationVars
      => [Apart /\ TransferDone =>
            Len(got) = BLEnum /\ announced \in {0, Len(got)}]_stationVars
  BY DoneIsEnd, EndOfTransfer DEF StationInv
<1>. QED BY <1>1, StationInvCorrect, PTL DEF StationSpec, ApartLackedIsSent

\* With the threads apart, a phone that listens from its command 4 on misses no
\* row of the table but one the reader died of (NothingMissed).
THEOREM NothingMissedCorrect == StationSpec => NothingMissed
<1>1. ASSUME StationInv, [StationNext]_stationVars, Apart, TransferDone, NEW i \in 1 .. table
      PROVE  \/ i <= asked
             \/ \E k \in DOMAIN got : got[k] = i
             \/ i \in live
             \/ AtPush(i)
  <2>1. EndTransfer
    BY <1>1, DoneIsEnd DEF StationInv
  <2>2. /\ BLEnum \in Nat /\ asked \in Nat /\ table \in Nat
        /\ Len(got) = BLEnum /\ \A k \in 1 .. Len(got) : got[k] = asked + k
        /\ \A k \in asked + BLEnum + 1 .. table : k \in live \/ AtPush(k)
    BY <1>1, <2>1, EndOfTransfer
  <2>3. DOMAIN got = 1 .. Len(got)
    BY <1>1 DEF StationInv, StationTypeOK, TypeOK
  <2>4. CASE i \in asked + 1 .. asked + BLEnum
    <3>1. i - asked \in 1 .. Len(got) /\ asked + (i - asked) = i
      BY <2>2, <2>4
    <3>. QED BY <2>2, <2>3, <3>1
  <2>5. CASE i \in asked + BLEnum + 1 .. table
    BY <2>2, <2>5
  <2>. QED BY <2>2, <2>4, <2>5
<1>2. StationInv /\ [StationNext]_stationVars
      => [Apart /\ TransferDone =>
           \A i \in 1 .. table :
             \/ i <= asked
             \/ \E k \in DOMAIN got : got[k] = i
             \/ i \in live
             \/ AtPush(i)]_stationVars
  BY <1>1
<1>. QED BY <1>2, StationInvCorrect, PTL DEF StationSpec, NothingMissed
=============================================================================
