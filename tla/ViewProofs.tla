----------------------------- MODULE ViewProofs -----------------------------
(***************************************************************************)
(* Theorems about TrendView with TableClient, for every size of the        *)
(* windows, of the table and of a drag.                                    *)
(***************************************************************************)
EXTENDS TrendView, TLAPS, SequenceTheorems

\* Rows that follow each other, or none.
Interval(s) == s = <<>> \/ \E a, b \in 0 .. MaxRows : s = [i \in 1 .. b - a + 1 |-> a + i - 1]

\* The rows that the table has.
InTable(s) == s \in Seq(0 .. MaxRows) /\ \A i \in 1 .. Len(s) : s[i] < rows

\* An answer is there while it is read, no more of it than there is has come
\* in, and the length that is waited for is its own or more than any has.
AnswerInv ==
  /\ pcC # "idle" <=> op # "none"
  /\ pcC \in {"idle", "connect"} => answer = Unanswered
  /\ answer = Unanswered => arrived = 0
  /\ answer # Unanswered =>
       Len(answer) <= MaxRows /\ arrived <= Size(answer) /\ Interval(answer) /\ InTable(answer)
  /\ pcC = "body" => n = Garbage \/ (answer # Unanswered /\ n = Decoded(Size(answer)))

\* What has been handed on are rows that follow each other, read whole.
WholeInv ==
  /\ Interval(val1122.rows) /\ Interval(shown) /\ InTable(indexval)
  /\ ~CharSigned => Whole(val1122)

\* Once there was a list, something has been handed on.
ListInv == list112 # NoRow => val1122 # NoReply

\* The row a drag to the left comes to is among those of s, if four digits
\* can tell it and the table had it when the drag began.
InView(s) ==
  /\ Reached < Wrap
  /\ indexval # <<>>
  /\ Reached <= indexval[Len(indexval)]
  => Reached \in RowsOf(s)

\* What a drag has moved the chart by; the window asked for and the one shown
\* are that of the row a drag to the left comes to.
DragInv ==
  /\ pressed => proccedIndex <= touchedMoveCnt
  /\ pressed /\ proccedIndex > 0 => isTouchProcess = 1 /\ (steady => touchedMoveDir = 1)
  /\ op = "window" => pressed /\ proccedIndex > 0
  /\ op = "window" /\ steady => key = IF touchedIndex = NaN THEN 0 ELSE Reached
  /\ op = "window" /\ steady /\ answer # Unanswered => InView(answer)
  /\ op # "window" /\ pressed /\ proccedIndex > 0 /\ steady => InView(shown)
-----------------------------------------------------------------------------
\* What the table gives between two indices: the rows there are, in order.
LEMMA BetweenRows ==
  ASSUME rows \in 0 .. MaxRows, NEW x \in Int, NEW y \in Int
  PROVE  /\ Between(x, y) \in Seq(0 .. MaxRows) /\ InTable(Between(x, y))
         /\ Len(Between(x, y)) <= rows /\ Len(Between(x, y)) \in Nat
         /\ Interval(Between(x, y))
         /\ \A w \in x .. y : 0 <= w /\ w < rows => w \in RowsOf(Between(x, y))
<1>. DEFINE lo == IF x < 0 THEN 0 ELSE x
            hi == IF y > rows - 1 THEN rows - 1 ELSE y
            len == IF hi < lo THEN 0 ELSE hi - lo + 1
<1>1. /\ rows \in Nat /\ MaxRows \in Nat /\ rows <= MaxRows
      /\ lo \in Nat /\ hi \in Int /\ hi < rows /\ len \in Nat
  BY SizesAssumption
<1>2. Between(x, y) = [i \in 1 .. len |-> lo + i - 1]
  BY DEF Between
<1>3. \A i \in 1 .. len : lo + i - 1 \in 0 .. MaxRows /\ lo + i - 1 < rows
  BY <1>1
<1>4. len <= rows
  BY <1>1
<1>. HIDE DEF lo, hi, len
<1>5. Between(x, y) \in Seq(0 .. MaxRows) /\ Len(Between(x, y)) = len
  <2>1. [i \in 1 .. len |-> lo + i - 1] \in [1 .. len -> 0 .. MaxRows]
    BY <1>3
  <2>. QED BY <1>1, <1>2, <2>1
<1>6. InTable(Between(x, y))
  BY <1>2, <1>3, <1>5 DEF InTable
<1>7. Interval(Between(x, y))
  <2>1. CASE len = 0
    BY <1>5, <2>1, EmptySeq DEF Interval
  <2>2. CASE len # 0
    <3>1. lo \in 0 .. MaxRows /\ hi \in 0 .. MaxRows /\ len = hi - lo + 1
      BY <1>1, <2>2 DEF lo, hi, len
    <3>. QED BY <1>2, <3>1 DEF Interval
  <2>. QED BY <2>1, <2>2
<1>8. ASSUME NEW w \in x .. y, 0 <= w, w < rows
      PROVE  w \in RowsOf(Between(x, y))
  <2>1. w - lo + 1 \in 1 .. len /\ lo + (w - lo + 1) - 1 = w
    BY <1>1, <1>8 DEF lo, hi, len
  <2>. QED BY <1>2, <2>1 DEF RowsOf
<1>. QED BY <1>1, <1>4, <1>5, <1>6, <1>7, <1>8

\* What the server answers is such a list.
LEMMA ReplyRows ==
  ASSUME ClientTypeOK, op # "none"
  PROVE  /\ Reply \in Seq(0 .. MaxRows) /\ InTable(Reply) /\ Interval(Reply)
         /\ Len(Reply) <= rows /\ Len(Reply) \in Nat
<1>1. rows \in 0 .. MaxRows /\ rows \in Int /\ rows - 1 \in Int /\ rows - Latest \in Int
  BY SizesAssumption DEF ClientTypeOK
<1>2. Digits(key) \in Int /\ Digits(key) - Behind \in Int /\ Digits(key) + Ahead - 1 \in Int
  BY SizesAssumption DEF ClientTypeOK, Digits
<1>3. CASE op = "latest"
  <2>1. Reply = Between(rows - Latest, rows - 1)
    BY <1>3 DEF Reply
  <2>. QED BY <1>1, <2>1, BetweenRows
<1>4. CASE op = "window"
  <2>1. Reply = Between(Digits(key) - Behind, Digits(key) + Ahead - 1)
    BY <1>4 DEF Reply
  <2>. QED BY <1>1, <1>2, <2>1, BetweenRows
<1>5. CASE op = "list"
  <2>1. Reply = Between(0, rows - 1)
    BY <1>5 DEF Reply
  <2>. QED BY <1>1, <2>1, BetweenRows
<1>. QED BY <1>3, <1>4, <1>5 DEF ClientTypeOK

\* What a step does to the client.
ClientMoves ==
  \/ UNCHANGED clientVars
  \/ \E what \in {"latest", "window", "list"}, k \in Int : Ask(what, k)
  \/ StoreRow
  \/ Transfer
  \/ Complete
  \/ GiveUp

\* The client keeps its types.
LEMMA ClientType ==
  ASSUME ClientTypeOK, AnswerInv, ClientMoves
  PROVE  ClientTypeOK'
<1>. USE SizesAssumption DEF ClientTypeOK
<1>1. CASE UNCHANGED clientVars
  BY <1>1 DEF clientVars
<1>2. ASSUME NEW what \in {"latest", "window", "list"}, NEW k \in Int, Ask(what, k)
      PROVE  ClientTypeOK'
  BY <1>2 DEF Ask
<1>3. CASE StoreRow
  BY <1>3 DEF StoreRow
<1>4. CASE Connected
  BY <1>4 DEF Connected
<1>5. CASE ServerAnswers
  BY <1>5, ReplyRows DEF ServerAnswers, AnswerInv
<1>6. CASE LineArrives
  <2>1. arrived' \in 0 .. MaxRows + 1
    BY <1>6, LenProperties DEF LineArrives, AnswerInv, InTable, Size
  <2>. QED BY <1>6, <2>1 DEF LineArrives
<1>7. CASE ReadLength
  <2>1. answer # Unanswered => Size(answer) \in Nat
    BY LenProperties DEF AnswerInv, InTable, Size
  <2>2. \A size \in Nat : Decoded(size) \in Int
    BY DEF Decoded, Char
  <2>. QED BY <1>7, <2>1, <2>2 DEF ReadLength, Garbage
<1>8. CASE Complete
  <2>1. Input.rows = answer /\ Input.lines = arrived
    BY DEF Input, Read
  <2>. QED BY <1>8, <2>1 DEF Complete, Done, AnswerInv, InTable
<1>9. CASE GiveUp
  BY <1>9 DEF GiveUp, Done
<1>. QED BY <1>1, <1>2, <1>3, <1>4, <1>5, <1>6, <1>7, <1>8, <1>9 DEF ClientMoves, Transfer

\* The client keeps the answer with what is read of it.
LEMMA NextAnswer ==
  ASSUME ClientTypeOK, AnswerInv, ClientMoves
  PROVE  AnswerInv'
<1>. USE DEF AnswerInv
<1>0. rows \in Nat /\ rows <= MaxRows /\ arrived \in Nat /\ MaxRows \in Nat
  BY SizesAssumption DEF ClientTypeOK
<1>1. CASE UNCHANGED clientVars
  BY <1>1 DEF clientVars, InTable
<1>2. ASSUME NEW what \in {"latest", "window", "list"}, NEW k \in Int, Ask(what, k)
      PROVE  AnswerInv'
  BY <1>2 DEF Ask
<1>3. CASE StoreRow
  <2>1. \A s : InTable(s) => InTable(s)'
    <3>1. ASSUME NEW s, InTable(s)
          PROVE  InTable(s)'
      <4>1. \A i \in 1 .. Len(s) : s[i] \in 0 .. MaxRows
        BY <3>1, ElementOfSeq DEF InTable
      <4>. QED BY <1>0, <1>3, <3>1, <4>1 DEF InTable, StoreRow
    <3>. QED BY <3>1
  <2>. QED BY <1>3, <2>1 DEF StoreRow, InTable
<1>4. CASE Connected
  BY <1>4 DEF Connected
<1>5. CASE ServerAnswers
  BY <1>0, <1>5, ReplyRows DEF ServerAnswers, InTable, Size
<1>6. CASE LineArrives
  BY <1>0, <1>6 DEF LineArrives, InTable, Size
<1>7. CASE ReadLength
  BY <1>7 DEF ReadLength, InTable, Garbage
<1>8. CASE Complete \/ GiveUp
  BY <1>8 DEF Complete, GiveUp, Done
<1>. QED BY <1>1, <1>2, <1>3, <1>4, <1>5, <1>6, <1>7, <1>8 DEF ClientMoves, Transfer
-----------------------------------------------------------------------------
\* The types of the view, apart from the client's and the flags'.
ViewNumbers ==
  /\ shown \in Seq(0 .. MaxRows) /\ indexval \in Seq(0 .. MaxRows)
  /\ isTouchProcess \in 0 .. 1 /\ isTrans \in 0 .. 1
  /\ touchedIndex \in Nat \cup {NaN}
  /\ touchedMoveDir \in 0 .. 2
  /\ touchedMoveCnt \in 0 .. MaxSteps /\ proccedIndex \in 0 .. MaxSteps
  /\ page \in {"trend", "list"} /\ selectWindow \in 0 .. 1
  /\ position \in [0 .. 1 -> Nat]
  /\ strArrayScanData \in Seq(0 .. MaxRows)
  /\ getDataCountAll \in Nat
  /\ list112 \in {NoRow, Heading} \cup 0 .. MaxRows
  /\ events \in 0 .. MaxEvents

\* The view's flags.
ViewFlags == pressed \in BOOLEAN /\ bt_currnt \in BOOLEAN /\ steady \in BOOLEAN

\* The types are these and the client's.
LEMMA ViewTypeParts == ViewTypeOK <=> ClientTypeOK /\ ViewNumbers /\ ViewFlags
BY DEF ViewTypeOK, ViewNumbers, ViewFlags

\* The newest live row is a row, or NaN.
LEMMA NewestType ==
  ASSUME ViewNumbers
  PROVE  Newest \in Nat \cup {NaN}
<1>1. DOMAIN indexval = 1 .. Len(indexval)
  BY DEF ViewNumbers
<1>2. pointVar \in DOMAIN indexval => indexval[pointVar] \in 0 .. MaxRows
  BY <1>1, ElementOfSeq DEF ViewNumbers
<1>. QED BY <1>2, SizesAssumption DEF Newest

\* The arithmetic of the drag, of numbers or NaN.
LEMMA DragTypes ==
  ASSUME ViewNumbers, NEW start \in Nat \cup {NaN}, NEW count \in Nat, NEW dir \in 1 .. 2
  PROVE  ToInt(Wanted(dir, start, count)) \in Int
<1>1. Plus(start, -count) \in Int \cup {NaN} /\ Plus(start, count) \in Int \cup {NaN}
  BY DEF Plus
<1>2. Newest \in Int \cup {NaN}
  BY NewestType
<1>3. Wanted(dir, start, count) \in Int \cup {NaN}
  BY <1>1, <1>2 DEF Wanted
<1>. QED BY <1>3 DEF ToInt

\* Where a drag leaves the index there may be a row.
LEMMA ReachedType ==
  ASSUME ViewNumbers
  PROVE  Reached \in Nat \cup {NaN}
<1>1. touchedMoveCnt \in Nat /\ touchedIndex \in Nat \cup {NaN}
  BY StepsAssumption DEF ViewNumbers
<1>2. Plus(touchedIndex, touchedMoveCnt) \in Nat \cup {NaN}
  BY <1>1 DEF Plus
<1>3. Plus(touchedIndex, -touchedMoveCnt) \in Int \cup {NaN}
  BY <1>1 DEF Plus
<1>4. CASE touchedMoveDir = 0
  BY <1>1, <1>4 DEF Reached
<1>5. CASE touchedMoveDir = 1
  <2>1. Reached = IF Less(1, Plus(touchedIndex, -touchedMoveCnt))
                  THEN Plus(touchedIndex, -touchedMoveCnt) ELSE 1
    BY <1>5 DEF Reached
  <2>. QED BY <1>3, <2>1 DEF Less
<1>6. CASE touchedMoveDir = 2
  <2>1. Reached = IF Less(Plus(touchedIndex, touchedMoveCnt), Newest)
                  THEN Plus(touchedIndex, touchedMoveCnt) ELSE Newest
    BY <1>6 DEF Reached
  <2>. QED BY <1>2, <2>1, NewestType
<1>. QED BY <1>4, <1>5, <1>6 DEF ViewNumbers

\* Whatever a handler does, the client makes one of its moves or none.
LEMMA MovesOfClient ==
  ASSUME ViewNumbers, [Next]_vars
  PROVE  ClientMoves
<1>1. CASE UNCHANGED vars
  BY <1>1 DEF vars, ClientMoves
<1>2. CASE Timer
  BY <1>2 DEF Timer, ClientMoves
<1>3. CASE ClientStep
  BY <1>3 DEF ClientStep, LatestReturns, WindowReturns, ListReturns, ClientMoves
<1>4. CASE StoreRow
  BY <1>4 DEF ClientMoves
<1>5. ASSUME NEW dir \in 1 .. 2, NEW k \in 1 .. MaxSteps, Browse(dir, k)
      PROVE  ClientMoves
  <2>1. touchedIndex' \in Nat \cup {NaN} /\ touchedMoveCnt' \in Nat
    BY <1>5, NewestType, StepsAssumption DEF Browse, Drag, ViewNumbers
  <2>2. PICK start \in Nat \cup {NaN}, count \in Nat :
          start = touchedIndex' /\ count = touchedMoveCnt'
    BY <2>1
  <2>3. Ask("window", ToInt(Wanted(dir, start, count)))
    BY <1>5, <2>2 DEF Browse
  <2>. QED BY <2>3, DragTypes DEF ClientMoves
<1>6. CASE Scan
  BY <1>6 DEF Scan, ClientMoves
<1>7. CASE UserStep
  BY <1>5, <1>6, <1>7 DEF UserStep, Press, Nudge, Release, Current, OpenList,
     ScanWhileBrowsing, Up, Down, ListAt, CloseList, ClientMoves
<1>. QED BY <1>1, <1>2, <1>3, <1>4, <1>7 DEF Next

\* A line of a reply is a row or a heading.
LEMMA LineType ==
  ASSUME NEW list \in Seq(0 .. MaxRows), NEW i \in Nat
  PROVE  Line(list, i) \in {NoRow, Heading} \cup 0 .. MaxRows
BY LenProperties, ElementOfSeq DEF Line

\* What is shown of a reply, on the page of the list.
LEMMA ListType ==
  ASSUME ViewNumbers, NEW reply, reply.rows \in Seq(0 .. MaxRows), ShowList(reply)
  PROVE  /\ strArrayScanData' \in Seq(0 .. MaxRows) /\ getDataCountAll' \in Nat
         /\ position' \in [0 .. 1 -> Nat]
         /\ list112' \in {NoRow, Heading} \cup 0 .. MaxRows
<1>1. Len(reply.rows) \in Nat
  BY LenProperties
<1>2. CASE reply = NoReply
  BY <1>2 DEF ShowList, ViewNumbers
<1>3. CASE reply # NoReply
  <2>1. position' = Clamped(Len(reply.rows)) /\ list112' = Line(reply.rows, position'[selectWindow])
    BY <1>3 DEF ShowList
  <2>2. Clamped(Len(reply.rows)) \in [0 .. 1 -> Nat]
    BY <1>1 DEF Clamped, ViewNumbers
  <2>3. PICK i \in Nat : i = position'[selectWindow]
    BY <2>1, <2>2 DEF ViewNumbers
  <2>. QED BY <1>1, <1>3, <2>1, <2>2, <2>3, LineType DEF ShowList
<1>. QED BY <1>2, <1>3

\* A drag keeps the types.
LEMMA DragType ==
  ASSUME ViewNumbers, NEW dir \in 1 .. 2, NEW k \in 0 .. MaxSteps, Drag(dir, k)
  PROVE  /\ touchedMoveDir' \in 0 .. 2 /\ touchedMoveCnt' \in 0 .. MaxSteps
         /\ touchedIndex' \in Nat \cup {NaN}
         /\ isTouchProcess' \in 0 .. 1 /\ isTrans' \in 0 .. 1
         /\ events' \in 0 .. MaxEvents
         /\ UNCHANGED <<shown, indexval, listVars>>
BY NewestType, StepsAssumption DEF Drag, Event, ViewNumbers

\* The view keeps its types.
LEMMA NumbersType ==
  ASSUME ClientTypeOK, AnswerInv, ViewNumbers, [Next]_vars
  PROVE  ViewNumbers'
<1>. USE StepsAssumption DEF ViewNumbers
<1>0. events < MaxEvents => events + 1 \in 0 .. MaxEvents
  OBVIOUS
<1>1. CASE UNCHANGED vars
  BY <1>1 DEF vars, dragVars, chartVars, listVars
<1>2. CASE Timer
  BY <1>2 DEF Timer, dragVars, chartVars, listVars
<1>3. CASE Transfer /\ UNCHANGED <<dragVars, chartVars, listVars, events>>
  BY <1>3 DEF dragVars, chartVars, listVars
<1>4. CASE StoreRow /\ UNCHANGED <<dragVars, chartVars, listVars, events>>
  BY <1>4 DEF dragVars, chartVars, listVars
<1>5. CASE LatestReturns
  <2>1. shown' \in Seq(0 .. MaxRows) /\ indexval' \in Seq(0 .. MaxRows)
    BY <1>5 DEF LatestReturns, ShowLatest, Complete, Input, Read, AnswerInv, InTable
  <2>. QED BY <1>5, <2>1 DEF LatestReturns, dragVars, listVars
<1>6. val1122' \in {val1122} \/ val1122'.rows \in Seq(0 .. MaxRows)
  BY <1>1, MovesOfClient
     DEF ClientMoves, clientVars, Ask, StoreRow, Transfer, Connected, ServerAnswers,
         LineArrives, ReadLength, Complete, GiveUp, Input, Read, AnswerInv, InTable
<1>7. val1122'.rows \in Seq(0 .. MaxRows)
  BY <1>6 DEF ClientTypeOK
<1>8. CASE WindowReturns
  BY <1>7, <1>8 DEF WindowReturns, ShowWindow, listVars
<1>9. CASE ListReturns
  <2>1. PICK reply : reply = val1122'
    OBVIOUS
  <2>2. ShowList(reply)
    BY <1>9, <2>1 DEF ListReturns
  <2>. QED BY <1>7, <1>9, <2>1, <2>2, ListType DEF ListReturns, dragVars, chartVars
<1>10. CASE Press
  BY <1>0, <1>10 DEF Press, Event, chartVars, listVars
<1>11. ASSUME NEW dir \in 1 .. 2, NEW k \in 0 .. MaxSteps, Nudge(dir, k)
       PROVE  ViewNumbers'
  BY <1>11, DragType DEF Nudge, listVars
<1>12. ASSUME NEW dir \in 1 .. 2, NEW k \in 1 .. MaxSteps, Browse(dir, k)
       PROVE  ViewNumbers'
  <2>1. Drag(dir, k) /\ proccedIndex' = touchedMoveCnt'
    BY <1>12 DEF Browse
  <2>2. k \in 0 .. MaxSteps
    OBVIOUS
  <2>3. /\ touchedMoveDir' \in 0 .. 2 /\ touchedMoveCnt' \in 0 .. MaxSteps
        /\ touchedIndex' \in Nat \cup {NaN}
        /\ isTouchProcess' \in 0 .. 1 /\ isTrans' \in 0 .. 1
        /\ events' \in 0 .. MaxEvents
        /\ UNCHANGED <<shown, indexval, listVars>>
    BY <2>1, <2>2, DragType
  <2>. QED BY <2>1, <2>3 DEF listVars
<1>13. CASE Release
  BY <1>13, ReachedType DEF Release, chartVars, listVars
<1>14. CASE Current
  BY <1>0, <1>14 DEF Current, Event, listVars
<1>15. CASE \E w \in 0 .. 1 : OpenList(w)
  BY <1>0, <1>15 DEF OpenList, Event, dragVars, chartVars
<1>16. CASE Scan
  BY <1>0, <1>16 DEF Scan, Event, dragVars, chartVars, listVars
<1>17. CASE ScanWhileBrowsing
  <2>1. val1122.rows \in Seq(0 .. MaxRows)
    BY DEF ClientTypeOK
  <2>. QED BY <1>0, <1>17, <2>1, ListType DEF ScanWhileBrowsing, Event, dragVars, chartVars
<1>18. CASE Up \/ Down
  <2>1. PICK i \in Nat : ListAt(i)
    <3>1. position[selectWindow] \in Nat
      OBVIOUS
    <3>. QED BY <1>18, <3>1 DEF Up, Down
  <2>. QED BY <1>0, <2>1, LineType DEF ListAt, Event, dragVars, chartVars
<1>19. CASE CloseList
  BY <1>19 DEF CloseList, dragVars, chartVars
<1>. QED BY <1>1, <1>2, <1>3, <1>4, <1>5, <1>8, <1>9, <1>10, <1>11, <1>12, <1>13, <1>14,
            <1>15, <1>16, <1>17, <1>18, <1>19 DEF Next, UserStep, ClientStep

\* And its flags.
LEMMA FlagsType ==
  ASSUME ViewFlags, [Next]_vars
  PROVE  ViewFlags'
<1>1. UNCHANGED <<pressed, bt_currnt, steady>> \/ WindowReturns \/ UserStep
  BY DEF vars, dragVars, chartVars, Next, Timer, ClientStep, LatestReturns, ListReturns
<1>2. CASE WindowReturns
  BY <1>2 DEF ViewFlags, WindowReturns
<1>3. CASE UserStep
  BY <1>3 DEF ViewFlags, UserStep, Press, Nudge, Browse, Drag, Release, Current, OpenList,
     Scan, ScanWhileBrowsing, Up, Down, ListAt, CloseList, dragVars, chartVars
<1>. QED BY <1>1, <1>2, <1>3 DEF ViewFlags

\* No step breaks the types.
LEMMA NextType == ViewTypeOK /\ AnswerInv /\ [Next]_vars => ViewTypeOK'
<1>. SUFFICES ASSUME ViewTypeOK, AnswerInv, [Next]_vars
              PROVE  ViewTypeOK'
  OBVIOUS
<1>1. ClientTypeOK /\ ViewNumbers /\ ViewFlags
  BY ViewTypeParts
<1>2. ClientTypeOK'
  BY <1>1, MovesOfClient, ClientType
<1>3. ViewNumbers' /\ ViewFlags'
  BY <1>1, NumbersType, FlagsType
<1>. QED BY <1>2, <1>3 DEF ViewTypeOK, ViewNumbers, ViewFlags
-----------------------------------------------------------------------------
\* The table only grows: what it has it keeps.
LEMMA StaysInTable ==
  ASSUME ClientTypeOK, ClientMoves
  PROVE  rows <= rows' /\ \A s : InTable(s) => InTable(s)'
<1>1. rows <= rows'
  BY DEF ClientTypeOK, ClientMoves, clientVars, Ask, StoreRow, Transfer, Connected,
         ServerAnswers, LineArrives, ReadLength, Complete, GiveUp
<1>2. rows \in Int /\ rows' \in Int
  BY DEF ClientTypeOK, ClientMoves, clientVars, Ask, StoreRow, Transfer, Connected,
         ServerAnswers, LineArrives, ReadLength, Complete, GiveUp
<1>3. ASSUME NEW s, InTable(s)
      PROVE  InTable(s)'
  <2>1. \A i \in 1 .. Len(s) : s[i] \in 0 .. MaxRows
    BY <1>3, ElementOfSeq DEF InTable
  <2>. QED BY <1>1, <1>2, <1>3, <2>1, SizesAssumption DEF InTable
<1>. QED BY <1>1, <1>3

\* Where char is unsigned the client waits for the length that is sent.
LEMMA DecodedSize ==
  ASSUME ~CharSigned, NEW size \in Nat
  PROVE  Decoded(size) = size
<1>1. Decoded(size) = (size % Base) + Base * (size \div Base)
  BY DEF Decoded, Char
<1>2. Base \in Nat \ {0}
  BY SizesAssumption
<1>. QED BY <1>1, <1>2

\* A call that completes has an answer, and more of it than was waited for.
LEMMA CompleteReads ==
  ASSUME ClientTypeOK, AnswerInv, Complete
  PROVE  /\ answer # Unanswered /\ answer \in Seq(0 .. MaxRows)
         /\ Interval(answer) /\ InTable(answer)
         /\ n = Decoded(Size(answer)) /\ arrived >= n
         /\ arrived <= Size(answer) /\ Size(answer) \in Nat \ {0} /\ arrived \in Nat
         /\ Input.rows = answer /\ Input.lines = arrived
<1>1. answer # Unanswered /\ answer \in Seq(0 .. MaxRows) /\ Len(answer) \in Nat
  BY LenProperties DEF Complete, AnswerInv, InTable
<1>2. MaxRows \in Nat /\ arrived \in Nat /\ arrived <= MaxRows + 1
  BY SizesAssumption DEF ClientTypeOK
<1>3. n # Garbage
  BY <1>2 DEF Complete, Garbage
<1>. QED BY <1>1, <1>2, <1>3 DEF Complete, AnswerInv, Size, Input, Read

\* What has been handed on stays as it is until a call completes.
LEMMA HandedOn ==
  ASSUME ClientMoves
  PROVE  UNCHANGED val1122 \/ (Complete /\ op # "latest" /\ val1122' = Input)
BY DEF ClientMoves, clientVars, Ask, StoreRow, Transfer, Connected, ServerAnswers,
       LineArrives, ReadLength, Complete, GiveUp

\* The chart shows what it did or what has been read, and the live rows are
\* replaced with it.
LEMMA ShownNext ==
  ASSUME [Next]_vars
  PROVE  /\ \/ UNCHANGED shown
            \/ shown' = val1122'.rows
            \/ Complete /\ shown' = Input.rows
         /\ UNCHANGED indexval \/ (Complete /\ indexval' = Input.rows)
<1>1. CASE UNCHANGED vars
  BY <1>1 DEF vars, chartVars
<1>2. CASE LatestReturns
  BY <1>2 DEF LatestReturns, ShowLatest
<1>3. CASE WindowReturns
  BY <1>3 DEF WindowReturns, ShowWindow
<1>4. CASE UserStep
  BY <1>4 DEF UserStep, Press, Nudge, Browse, Drag, Release, Current, OpenList,
     Scan, ScanWhileBrowsing, Up, Down, ListAt, CloseList, chartVars
<1>. QED BY <1>1, <1>2, <1>3, <1>4 DEF Next, Timer, ClientStep, ListReturns, chartVars

\* Replies are handed on whole.
LEMMA NextWhole ==
  ViewTypeOK /\ AnswerInv /\ WholeInv /\ [Next]_vars => WholeInv'
<1>. SUFFICES ASSUME ViewTypeOK, AnswerInv, WholeInv, [Next]_vars
              PROVE  WholeInv'
  OBVIOUS
<1>1. ClientTypeOK /\ ClientMoves
  BY ViewTypeParts, MovesOfClient
<1>2. \A s : Interval(s) => Interval(s)'
  BY DEF Interval
<1>3. Interval(val1122'.rows)
  BY <1>1, HandedOn, CompleteReads DEF WholeInv
<1>4. Interval(shown')
  BY <1>1, <1>3, ShownNext, CompleteReads DEF WholeInv
<1>5. InTable(indexval)'
  <2>1. PICK s : s = indexval'
    OBVIOUS
  <2>2. InTable(s)
    BY <1>1, <2>1, ShownNext, CompleteReads DEF WholeInv
  <2>3. InTable(s)'
    BY <1>1, <2>2, StaysInTable
  <2>. QED BY <2>1, <2>3 DEF InTable
<1>6. ~CharSigned => Whole(val1122')
  <2>1. CASE UNCHANGED val1122
    BY <2>1 DEF WholeInv
  <2>2. CASE Complete /\ val1122' = Input
    <3>1. ~CharSigned => Input.lines = Size(Input.rows)
      BY <1>1, <2>2, CompleteReads, DecodedSize
    <3>. QED BY <2>2, <3>1 DEF Whole
  <2>. QED BY <1>1, <2>1, <2>2, HandedOn
<1>7. Interval(val1122.rows)' /\ Interval(shown)' /\ Whole(val1122)' = Whole(val1122')
  BY <1>3, <1>4 DEF Interval, Whole
<1>. QED BY <1>5, <1>6, <1>7 DEF WholeInv
-----------------------------------------------------------------------------
\* A call that completes hands on something, be it a reply without rows.
LEMMA SomethingRead ==
  ASSUME Base > 3, ClientTypeOK, AnswerInv, Complete
  PROVE  Input # NoReply
<1>1. CASE answer = <<>>
  <2>1. Size(answer) = 1
    BY <1>1 DEF Size
  <2>2. 1 % Base = 1 /\ 1 \div Base = 0 /\ Base \div 2 > 1
    BY SizesAssumption
  <2>3. Decoded(1) = 1
    BY <2>2, SizesAssumption DEF Decoded, Char
  <2>4. Input.lines # 0
    BY <2>1, <2>3, CompleteReads
  <2>. QED BY <2>4 DEF NoReply, Read
<1>2. CASE answer # <<>>
  BY <1>2 DEF Input, NoReply, Read
<1>. QED BY <1>1, <1>2

\* The page of the list, when it shows something.
Listed == ListInv /\ ListedAtPosition

\* A reply that is shown is shown at a position in it.
LEMMA ShowListed ==
  ASSUME ViewNumbers, Listed, NEW reply, reply.rows \in Seq(0 .. MaxRows),
         list112 # NoRow => reply # NoReply,
         ShowList(reply), UNCHANGED selectWindow
  PROVE  ListedAtPosition' /\ (list112' # NoRow => reply # NoReply)
<1>1. CASE reply = NoReply
  BY <1>1 DEF ShowList, ListedAtPosition
<1>2. CASE reply # NoReply
  <2>1. /\ position' = Clamped(Len(reply.rows))
        /\ list112' = Line(reply.rows, position'[selectWindow])
        /\ strArrayScanData' = reply.rows /\ getDataCountAll' = Len(reply.rows)
    BY <1>2 DEF ShowList
  <2>2. Len(reply.rows) \in Nat /\ position[selectWindow] \in Nat
    BY LenProperties DEF ViewNumbers
  <2>3. position'[selectWindow] \in 0 .. Len(reply.rows)
    BY <2>1, <2>2 DEF Clamped, ViewNumbers
  <2>. QED BY <1>2, <2>1, <2>3 DEF ListedAtPosition, Line
<1>. QED BY <1>1, <1>2

\* The row on the page stays the one at the position.
LEMMA NextListed ==
  ASSUME Base > 3, ViewTypeOK, AnswerInv, Listed, [Next]_vars
  PROVE  Listed'
<1>1. ClientTypeOK /\ ClientMoves /\ ViewNumbers
  BY ViewTypeParts, MovesOfClient
<1>2. val1122 # NoReply => val1122' # NoReply
  BY <1>1, HandedOn, SomethingRead
<1>3. val1122'.rows \in Seq(0 .. MaxRows)
  BY <1>1, HandedOn, CompleteReads DEF ClientTypeOK
<1>4. ASSUME UNCHANGED listVars
      PROVE  Listed'
  BY <1>2, <1>4 DEF listVars, Listed, ListInv, ListedAtPosition, Line
<1>5. CASE ListReturns
  <2>1. PICK reply : reply = val1122'
    OBVIOUS
  <2>2. ShowList(reply) /\ UNCHANGED selectWindow
    BY <1>5, <2>1 DEF ListReturns
  <2>3. ListedAtPosition' /\ (list112' # NoRow => reply # NoReply)
    BY <1>1, <1>2, <1>3, <2>1, <2>2, ShowListed DEF Listed, ListInv
  <2>. QED BY <2>1, <2>3 DEF Listed, ListInv
<1>6. CASE ScanWhileBrowsing
  <2>1. ListedAtPosition' /\ (list112' # NoRow => val1122 # NoReply)
    BY <1>1, <1>6, ShowListed DEF ScanWhileBrowsing, Listed, ListInv, ClientTypeOK
  <2>. QED BY <1>2, <2>1 DEF Listed, ListInv
<1>7. CASE \E w \in 0 .. 1 : OpenList(w)
  BY <1>7 DEF OpenList, Listed, ListInv, ListedAtPosition
<1>8. ASSUME NEW i, ListAt(i), list112 # NoRow => i \in 0 .. Len(strArrayScanData)
      PROVE  Listed'
  <2>1. position'[selectWindow] = i /\ list112 # NoRow
    BY <1>1, <1>8 DEF ListAt, ViewNumbers
  <2>. QED BY <1>2, <1>8, <2>1 DEF ListAt, Listed, ListInv, ListedAtPosition, Line
<1>9. CASE Up
  <2>1. /\ position[selectWindow] \in Nat /\ Len(strArrayScanData) \in Nat
    BY <1>1, LenProperties DEF ViewNumbers
  <2>. QED BY <1>8, <1>9, <2>1 DEF Up, Listed, ListedAtPosition
<1>10. CASE Down
  <2>1. /\ position[selectWindow] \in Nat /\ Len(strArrayScanData) \in Nat
    BY <1>1, LenProperties DEF ViewNumbers
  <2>. QED BY <1>8, <1>10, <2>1 DEF Down, Listed, ListedAtPosition
<1>11. CASE CloseList
  BY <1>2, <1>11 DEF CloseList, Listed, ListInv, ListedAtPosition, Line
<1>12. CASE \/ UNCHANGED vars
            \/ Timer
            \/ (StoreRow \/ Transfer) /\ UNCHANGED <<dragVars, chartVars, listVars, events>>
            \/ LatestReturns
            \/ WindowReturns
  BY <1>4, <1>12 DEF vars, Timer, LatestReturns, WindowReturns
<1>13. ASSUME UserStep, ~ScanWhileBrowsing, ~ \E w \in 0 .. 1 : OpenList(w), ~Up, ~Down, ~CloseList
       PROVE  Listed'
  <2>1. UNCHANGED listVars
    BY <1>13 DEF UserStep, Press, Nudge, Browse, Drag, Release, Current, Scan
  <2>. QED BY <1>4, <2>1
<1>. QED BY <1>5, <1>6, <1>7, <1>9, <1>10, <1>11, <1>12, <1>13 DEF Next, ClientStep
-----------------------------------------------------------------------------
\* Where a drag to the left comes to.
LEMMA ReachedLeft ==
  ASSUME ViewNumbers, touchedMoveDir = 1
  PROVE  /\ Reached \in Nat \ {0}
         /\ touchedIndex = NaN => Reached = 1
         /\ Reached = IF Less(1, Plus(touchedIndex, -touchedMoveCnt))
                      THEN Plus(touchedIndex, -touchedMoveCnt) ELSE 1
<1>1. Reached = IF Less(1, Plus(touchedIndex, -touchedMoveCnt))
                THEN Plus(touchedIndex, -touchedMoveCnt) ELSE 1
  BY DEF Reached
<1>2. Plus(touchedIndex, -touchedMoveCnt) \in Int \cup {NaN}
  BY StepsAssumption DEF ViewNumbers, Plus
<1>. QED BY <1>1, <1>2 DEF Less, Plus

\* The window the server answers a drag to the left with has the row.
LEMMA AnswerInView ==
  ASSUME Ahead > 1, ClientTypeOK, ViewNumbers, InTable(indexval), DragInv,
         op = "window", steady
  PROVE  InView(Reply)
<1>. SUFFICES ASSUME Reached < Wrap, indexval # <<>>, Reached <= indexval[Len(indexval)]
              PROVE  Reached \in RowsOf(Reply)
  BY DEF InView
<1>1. touchedMoveDir = 1 /\ key = IF touchedIndex = NaN THEN 0 ELSE Reached
  BY DEF DragInv
<1>2. Reached \in Nat \ {0} /\ (touchedIndex = NaN => Reached = 1)
  BY <1>1, ReachedLeft
<1>3. rows \in 0 .. MaxRows /\ rows \in Nat
  BY SizesAssumption DEF ClientTypeOK
<1>4. Reached < rows
  <2>1. Len(indexval) \in Nat /\ Len(indexval) # 0
    BY LenProperties, EmptySeq DEF ViewNumbers
  <2>2. Len(indexval) \in 1 .. Len(indexval)
    BY <2>1
  <2>3. indexval[Len(indexval)] \in 0 .. MaxRows
    BY <2>2, ElementOfSeq DEF ViewNumbers
  <2>. QED BY <1>2, <1>3, <2>2, <2>3, SizesAssumption DEF InTable
<1>5. Digits(key) = key /\ key \in Nat
  <2>1. key \in Nat /\ key < Wrap
    BY <1>1, <1>2, SizesAssumption
  <2>. QED BY <2>1, SizesAssumption DEF Digits
<1>6. /\ key - Behind \in Int /\ key + Ahead - 1 \in Int
      /\ Reached \in key - Behind .. key + Ahead - 1
  BY <1>1, <1>2, <1>5, SizesAssumption
<1>7. Reply = Between(key - Behind, key + Ahead - 1)
  BY <1>5 DEF Reply
<1>8. PICK x \in Int, y \in Int : x = key - Behind /\ y = key + Ahead - 1
  BY <1>6
<1>9. Reached \in x .. y /\ Reply = Between(x, y) /\ 0 <= Reached
  BY <1>2, <1>6, <1>7, <1>8
<1>10. \A w \in x .. y : 0 <= w /\ w < rows => w \in RowsOf(Between(x, y))
  BY <1>3, BetweenRows
<1>. QED BY <1>4, <1>9, <1>10

\* Steps that leave the drag and the chart alone.
LEMMA ClientDrag ==
  ASSUME Ahead > 1, ViewTypeOK, AnswerInv, WholeInv, DragInv,
         UNCHANGED <<dragVars, chartVars>>,
         \/ Ask("latest", 0)
         \/ Ask("list", 0)
         \/ StoreRow
         \/ Transfer
         \/ UNCHANGED clientVars
         \/ op = "list" /\ (Complete \/ GiveUp)
  PROVE  DragInv'
<1>0. UNCHANGED <<Reached, touchedIndex, touchedMoveDir, touchedMoveCnt, proccedIndex, pressed,
                  steady, shown, indexval, isTouchProcess>>
  BY DEF dragVars, chartVars, Reached, Newest, pointVar
<1>1. ASSUME UNCHANGED <<op, key, answer>>
      PROVE  DragInv'
  BY <1>0, <1>1 DEF DragInv, InView, RowsOf
<1>2. ASSUME op # "window", op' # "window"
      PROVE  DragInv'
  BY <1>0, <1>2 DEF DragInv, InView, RowsOf
<1>3. CASE Ask("latest", 0) \/ Ask("list", 0)
  BY <1>2, <1>3 DEF Ask, AnswerInv
<1>4. CASE StoreRow \/ Connected \/ LineArrives \/ ReadLength \/ UNCHANGED clientVars
  BY <1>1, <1>4 DEF StoreRow, Connected, LineArrives, ReadLength, clientVars
<1>5. CASE ServerAnswers
  <2>1. op = "window" /\ steady => InView(Reply)
    BY ViewTypeParts, AnswerInView DEF WholeInv
  <2>. QED BY <1>0, <1>5, <2>1 DEF ServerAnswers, DragInv, InView, RowsOf
<1>6. CASE op = "list" /\ (Complete \/ GiveUp)
  BY <1>2, <1>6 DEF Complete, GiveUp, Done
<1>. QED BY <1>3, <1>4, <1>5, <1>6 DEF Transfer

\* Calls that return.
LEMMA ReturnDrag ==
  ASSUME ViewTypeOK, AnswerInv, DragInv, LatestReturns \/ WindowReturns
  PROVE  DragInv'
<1>0. ClientTypeOK /\ ViewNumbers
  BY ViewTypeParts
<1>2. CASE LatestReturns
  <2>1. op' = "none" /\ op = "latest" /\ UNCHANGED dragVars /\ UNCHANGED isTouchProcess
    BY <1>2 DEF LatestReturns, Complete, GiveUp, Done
  <2>2. CASE pressed /\ proccedIndex > 0
    <3>1. UNCHANGED <<shown, indexval>>
      BY <1>2, <2>2 DEF LatestReturns, ShowLatest, Browsing, DragInv
    <3>2. UNCHANGED Reached
      BY <2>1, <3>1 DEF Reached, Newest, pointVar, dragVars
    <3>. QED BY <2>1, <3>1, <3>2 DEF DragInv, InView, RowsOf, dragVars
  <2>3. CASE ~(pressed /\ proccedIndex > 0)
    BY <2>1, <2>3 DEF DragInv, dragVars
  <2>. QED BY <2>2, <2>3
<1>3. CASE WindowReturns /\ GiveUp /\ steady' = FALSE
  <2>1. /\ op = "window" /\ op' = "none" /\ steady' = FALSE
        /\ UNCHANGED <<touchedMoveCnt, proccedIndex, pressed, isTouchProcess>>
    BY <1>3 DEF WindowReturns, GiveUp, Done
  <2>. QED BY <2>1 DEF DragInv
<1>4. CASE WindowReturns /\ Complete /\ UNCHANGED steady
  <2>1. /\ op = "window" /\ op' = "none"
        /\ UNCHANGED <<touchedIndex, touchedMoveDir, touchedMoveCnt, proccedIndex, pressed,
                       indexval, isTouchProcess>>
        /\ pressed /\ proccedIndex > 0
    BY <1>4 DEF WindowReturns, Complete, Done, DragInv
  <2>2. steady' => steady
    BY <1>4 DEF WindowReturns
  <2>3. val1122' = Input /\ Input = Read(answer, arrived) /\ answer # Unanswered
    BY <1>4 DEF WindowReturns, Complete, Input
  <2>4. answer = <<>> \/ shown' = answer
    BY <1>4, <2>3 DEF WindowReturns, ShowWindow, NoReply, Read
  <2>5. steady => InView(answer) /\ touchedMoveDir = 1
    BY <2>1, <2>3 DEF DragInv
  <2>6. steady => Reached' = Reached
    BY <2>1, <2>5 DEF Reached
  <2>7. steady => InView(shown')
    <3>1. RowsOf(<<>>) = {}
      BY DEF RowsOf
    <3>. QED BY <2>4, <2>5, <3>1 DEF InView
  <2>8. steady' => InView(shown)'
    BY <2>1, <2>2, <2>6, <2>7 DEF InView, RowsOf
  <2>. QED BY <2>1, <2>2, <2>8 DEF DragInv
<1>. QED BY <1>2, <1>3, <1>4 DEF WindowReturns

\* A move by which the chart does not change: it does not go further.
LEMMA NudgeDrag ==
  ASSUME ViewTypeOK, AnswerInv, DragInv, NEW dir \in 1 .. 2, NEW k \in 0 .. MaxSteps, Nudge(dir, k)
  PROVE  DragInv'
<1>0. /\ touchedMoveCnt \in Nat /\ proccedIndex \in Nat /\ k \in Nat
  BY StepsAssumption DEF ViewTypeOK
<1>1. /\ op = "none" /\ op' = "none" /\ pressed /\ pressed' /\ UNCHANGED <<proccedIndex, shown, indexval>>
      /\ touchedMoveCnt' = IF k > touchedMoveCnt THEN k ELSE touchedMoveCnt
  BY DEF Nudge, Drag, Event, clientVars, AnswerInv
<1>2. proccedIndex' <= touchedMoveCnt'
  BY <1>0, <1>1 DEF DragInv
<1>3. CASE proccedIndex = 0
  BY <1>1, <1>2, <1>3 DEF DragInv
<1>4. CASE proccedIndex > 0
  <2>1. isTouchProcess = 1 /\ isTouchProcess' = 1
    BY <1>1, <1>4 DEF DragInv, Nudge, Drag
  <2>2. ~(k > touchedMoveCnt)
    BY <1>0, <1>1, <2>1 DEF Nudge, DragInv
  <2>3. UNCHANGED <<touchedIndex, touchedMoveCnt>> /\ touchedMoveDir' = dir
    BY <2>2 DEF Nudge, Drag
  <2>4. steady' => steady /\ dir = 1 /\ touchedMoveDir = 1
    BY <1>1, <1>4 DEF Nudge, Drag, DragInv
  <2>5. steady' => Reached' = Reached
    BY <2>3, <2>4 DEF Reached
  <2>6. steady' => InView(shown)'
    BY <1>1, <1>4, <2>4, <2>5 DEF DragInv, InView, RowsOf
  <2>. QED BY <1>1, <1>2, <2>1, <2>3, <2>4, <2>6 DEF DragInv
<1>. QED BY <1>0, <1>3, <1>4

\* A move by which it does: the window asked for is that of the row.
LEMMA BrowseDrag ==
  ASSUME ViewTypeOK, AnswerInv, NEW dir \in 1 .. 2, NEW k \in 1 .. MaxSteps, Browse(dir, k)
  PROVE  DragInv'
<1>0. touchedMoveCnt \in Nat /\ k \in Nat \ {0} /\ ViewNumbers
  BY StepsAssumption, ViewTypeParts DEF ViewNumbers
<1>1. /\ op' = "window" /\ pressed' = pressed /\ pressed
      /\ proccedIndex' = touchedMoveCnt' /\ isTouchProcess' = 1 /\ touchedMoveDir' = dir
      /\ touchedMoveCnt' = IF k > touchedMoveCnt THEN k ELSE touchedMoveCnt
      /\ steady' => dir = 1
      /\ answer' = Unanswered
  BY DEF Browse, Drag, Ask, AnswerInv
<1>2. touchedMoveCnt' \in Nat \ {0}
  BY <1>0, <1>1
<1>3. touchedIndex' \in Nat \cup {NaN}
  BY <1>0, NewestType DEF Browse, Drag, ViewNumbers
<1>4. ASSUME steady'
      PROVE  key' = IF touchedIndex' = NaN THEN 0 ELSE Reached'
  <2>1. PICK start \in Nat \cup {NaN}, count \in Nat :
          start = touchedIndex' /\ count = touchedMoveCnt'
    BY <1>2, <1>3
  <2>2. key' = ToInt(Wanted(1, start, count))
    BY <1>1, <1>4, <2>1 DEF Browse, Ask
  <2>3. Wanted(1, start, count) = IF Less(Plus(start, -count), 1) THEN 1 ELSE Plus(start, -count)
    BY DEF Wanted
  <2>4. Reached' = IF Less(1, Plus(start, -count)) THEN Plus(start, -count) ELSE 1
    BY <1>1, <1>4, <2>1 DEF Reached, Less, Plus
  <2>5. CASE start = NaN
    BY <2>1, <2>2, <2>3, <2>5 DEF ToInt, Plus, Less
  <2>6. CASE start # NaN
    <3>1. Plus(start, -count) \in Int /\ Plus(start, -count) # NaN /\ NaN # 1
      BY <2>6, StepsAssumption DEF Plus
    <3>. QED BY <2>1, <2>2, <2>3, <2>4, <2>6, <3>1 DEF ToInt, Less
  <2>. QED BY <2>5, <2>6
<1>. QED BY <1>1, <1>2, <1>4 DEF DragInv

\* What a drag is at keeps to what the chart shows.
LEMMA NextDrag ==
  ASSUME Ahead > 1, ViewTypeOK, AnswerInv, WholeInv, DragInv, [Next]_vars
  PROVE  DragInv'
<1>1. CASE UNCHANGED vars \/ Timer
  BY <1>1, ClientDrag DEF vars, Timer
<1>2. CASE (StoreRow \/ Transfer) /\ UNCHANGED <<dragVars, chartVars, listVars, events>>
  BY <1>2, ClientDrag
<1>3. CASE ListReturns
  BY <1>3, ClientDrag DEF ListReturns
<1>4. CASE Scan \/ ScanWhileBrowsing \/ Up \/ Down \/ CloseList \/ \E w \in 0 .. 1 : OpenList(w)
  BY <1>4, ClientDrag DEF Scan, ScanWhileBrowsing, Up, Down, ListAt, CloseList, OpenList
<1>5. CASE Press
  <2>1. op' = "none" /\ proccedIndex' = 0 /\ touchedMoveCnt' = 0
    BY <1>5 DEF Press, Event, clientVars, AnswerInv
  <2>. QED BY <2>1 DEF DragInv
<1>6. CASE Release \/ Current
  <2>1. op' = "none" /\ pressed' = FALSE
    BY <1>6 DEF Release, Current, Event, clientVars, AnswerInv, ViewTypeOK
  <2>. QED BY <2>1 DEF DragInv
<1>. QED BY <1>1, <1>2, <1>3, <1>4, <1>5, <1>6, ReturnDrag, NudgeDrag, BrowseDrag
         DEF Next, UserStep, ClientStep
-----------------------------------------------------------------------------
\* The view starts with the latest rows on the chart.
LEMMA InitView ==
  Init => ViewTypeOK /\ AnswerInv /\ WholeInv /\ Listed /\ DragInv
<1>. SUFFICES ASSUME Init
              PROVE  ViewTypeOK /\ AnswerInv /\ WholeInv /\ Listed /\ DragInv
  OBVIOUS
<1>1. /\ shown \in Seq(0 .. MaxRows) /\ indexval \in Seq(0 .. MaxRows)
      /\ Interval(shown) /\ InTable(indexval)
  <2>1. rows \in 0 .. MaxRows /\ rows - Latest \in Int /\ rows - 1 \in Int
    BY SizesAssumption DEF Init, ClientInit
  <2>. QED BY <2>1, BetweenRows DEF Init
<1>2. val1122 = NoReply /\ val1122.rows = <<>> /\ val1122.lines = 0
  BY DEF Init, ClientInit, NoReply, Read
<1>3. ClientTypeOK
  BY <1>2, EmptySeq, SizesAssumption DEF Init, ClientInit, ClientTypeOK
<1>4. ViewNumbers
  BY <1>1, EmptySeq, StepsAssumption DEF Init, ViewNumbers
<1>5. ViewFlags
  BY DEF Init, ViewFlags
<1>6. AnswerInv
  BY DEF Init, ClientInit, AnswerInv
<1>7. WholeInv
  BY <1>1, <1>2 DEF WholeInv, Interval, Whole
<1>8. Listed
  BY DEF Init, Listed, ListInv, ListedAtPosition
<1>9. DragInv
  BY DEF Init, ClientInit, DragInv
<1>. QED BY <1>3, <1>4, <1>5, <1>6, <1>7, <1>8, <1>9, ViewTypeParts

\* The inductive invariant of what is read and handed on.
ViewInv == ViewTypeOK /\ AnswerInv /\ WholeInv

\* What is read keeps its types and is handed on as it was sent, however
\* slowly replies come in and whatever fails.
THEOREM ViewInvCorrect == Spec => []ViewInv
<1>1. Init => ViewInv
  BY InitView DEF ViewInv
<1>2. ViewInv /\ [Next]_vars => ViewInv'
  <2>. SUFFICES ASSUME ViewInv, [Next]_vars
                PROVE  ViewInv'
    OBVIOUS
  <2>1. ViewTypeOK' /\ WholeInv'
    BY NextType, NextWhole DEF ViewInv
  <2>2. AnswerInv'
    BY ViewTypeParts, MovesOfClient, NextAnswer DEF ViewInv
  <2>. QED BY <2>1, <2>2 DEF ViewInv
<1>. QED BY <1>1, <1>2, PTL DEF Spec

\* The variables of the view and of the client keep their types, of which NaN
\* is one for the index browsed to and none for the index asked for.
THEOREM ViewTypeCorrect == Spec => []ViewTypeOK
<1>1. ViewInv => ViewTypeOK
  BY DEF ViewInv
<1>. QED BY <1>1, ViewInvCorrect, PTL

\* Where char is unsigned, what the client hands on is a whole reply or
\* nothing, and what the chart shows are rows that follow each other.
THEOREM WholeCorrect == Spec => []ReplyIsWhole
<1>1. ViewInv => ReplyIsWhole
  BY DEF ViewInv, WholeInv, Interval, ReplyIsWhole
<1>. QED BY <1>1, ViewInvCorrect, PTL

\* The row on the page of the list is the one at the position, which stays in
\* the list; if a byte tells at least four numbers apart, so that the length
\* of an empty reply is read as it is even where char is signed.
THEOREM ListedCorrect ==
  ASSUME Base > 3
  PROVE  Spec => []ListedAtPosition
<1>1. Init => Listed
  BY InitView
<1>2. ViewInv /\ Listed /\ [Next]_vars => Listed'
  BY NextListed DEF ViewInv
<1>3. Listed => ListedAtPosition
  BY DEF Listed
<1>. QED BY <1>1, <1>2, <1>3, ViewInvCorrect, PTL DEF Spec

\* A drag to the left whose requests succeed leaves behind an index whose row
\* is on the chart; if a window has two rows from its index on, since a drag
\* from no row asks for row 0 and ends at row 1.
THEOREM InViewCorrect ==
  ASSUME Ahead > 1
  PROVE  Spec => IndexStaysInView
<1>1. Init => DragInv
  BY InitView
<1>2. ViewInv /\ DragInv /\ [Next]_vars => DragInv'
  BY NextDrag DEF ViewInv
<1>3. ViewInv /\ DragInv /\ [Next]_vars
      => [pressed /\ ~pressed' /\ steady /\ proccedIndex > 0
            /\ touchedIndex' < Wrap /\ indexval # <<>>
            /\ touchedIndex' <= indexval[Len(indexval)]
            => touchedIndex' \in RowsOf(shown)]_vars
  <2>. SUFFICES ASSUME ViewInv, DragInv, Next, pressed, ~pressed', steady, proccedIndex > 0,
                       touchedIndex' < Wrap, indexval # <<>>,
                       touchedIndex' <= indexval[Len(indexval)]
                PROVE  touchedIndex' \in RowsOf(shown)
    OBVIOUS
  <2>1. Release
    BY DEF Next, UserStep, Press, Nudge, Browse, Drag, Current, OpenList, Scan,
           ScanWhileBrowsing, Up, Down, ListAt, CloseList, Timer, ClientStep, LatestReturns,
           WindowReturns, ListReturns, dragVars
  <2>2. touchedIndex' = Reached /\ op # "window"
    BY <2>1 DEF Release, ViewInv, AnswerInv
  <2>. QED BY <2>2 DEF DragInv, InView
<1>. QED BY <1>1, <1>2, <1>3, ViewInvCorrect, PTL DEF Spec, IndexStaysInView
=============================================================================
