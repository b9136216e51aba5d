----------------------------- MODULE TrendView ------------------------------
(***************************************************************************)
(* main.qml: the trend chart, which shows the latest rows as a timer       *)
(* fetches them until it is dragged, and the page on which two rows are    *)
(* picked from the list of all.  The handlers run one after the other in   *)
(* the one thread of the program; one that asks the server goes on when    *)
(* the answer is there or the client has given up.                         *)
(*                                                                         *)
(* A drag is told in steps of 66 pixels from where it began: dir 1 is to   *)
(* the left, to older rows, dir 2 to the right.  The model begins when the *)
(* first rows are on the chart.  Left out: the difference of the two rows  *)
(* picked, the page of the alarm thresholds, and the drawing.              *)
(***************************************************************************)
EXTENDS TableClient

CONSTANTS NaN,        \* what arithmetic makes of an undefined value
          MaxSteps,   \* bound: how far a drag goes
          MaxEvents   \* bound: the drags, moves and clicks

ASSUME StepsAssumption == MaxSteps \in Nat /\ MaxEvents \in Nat /\ NaN \notin Int

VARIABLES
  shown,             \* pointValue and the others: the rows on the chart
  indexval,          \* the indices of the last live rows, not of a window
  isTouchProcess,    \* the chart is being browsed
  isTrans,           \* of ConnectEvent: lists may be fetched
  touchedIndex,      \* the index browsed to, 0 when none
  touchedMoveDir,    \* the direction of the last move; a press leaves it
  touchedMoveCnt,    \* how many steps the drag has gone
  proccedIndex,      \* how many of them the chart shows
  pressed,           \* the finger is down
  bt_currnt,         \* the button back to the latest rows is visible
  page,              \* "trend" or "list"
  selectWindow,      \* which of the two rows is being picked
  position,          \* indexCnt and indexCnt1
  strArrayScanData,  \* the list, as a sequence of rows
  getDataCountAll,   \* how many rows it has
  list112,           \* the row that is on the page, NoRow or Heading
  events,            \* the number of things the user has done
  steady             \* history: the drag went left only and no request failed

dragVars == <<touchedIndex, touchedMoveDir, touchedMoveCnt, proccedIndex, pressed, steady>>
chartVars == <<shown, indexval, isTouchProcess, isTrans, bt_currnt>>
listVars == <<page, selectWindow, position, strArrayScanData, getDataCountAll, list112>>
vars == <<clientVars, dragVars, chartVars, listVars, events>>

NoRow == -1      \* "-"
Heading == -2    \* the first line of a reply or the last, taken for a row

\* The types of the view's variables and of the client's.
ViewTypeOK ==
  /\ ClientTypeOK
  /\ shown \in Seq(0 .. MaxRows) /\ indexval \in Seq(0 .. MaxRows)
  /\ isTouchProcess \in 0 .. 1 /\ isTrans \in 0 .. 1
  /\ touchedIndex \in Nat \cup {NaN}
  /\ touchedMoveDir \in 0 .. 2
  /\ touchedMoveCnt \in 0 .. MaxSteps /\ proccedIndex \in 0 .. MaxSteps
  /\ pressed \in BOOLEAN /\ bt_currnt \in BOOLEAN /\ steady \in BOOLEAN
  /\ page \in {"trend", "list"} /\ selectWindow \in 0 .. 1
  /\ position \in [0 .. 1 -> Nat]
  /\ strArrayScanData \in Seq(0 .. MaxRows)
  /\ getDataCountAll \in Nat
  /\ list112 \in {NoRow, Heading} \cup 0 .. MaxRows
  /\ events \in 0 .. MaxEvents

Init ==
  /\ ClientInit
  /\ shown = Between(rows - Latest, rows - 1) /\ indexval = shown
  /\ isTouchProcess = 0 /\ isTrans = 1 /\ bt_currnt = FALSE
  /\ touchedIndex = 0 /\ touchedMoveDir = 0
  /\ touchedMoveCnt = 0 /\ proccedIndex = 0
  /\ pressed = FALSE /\ steady = FALSE
  /\ page = "trend" /\ selectWindow = 0
  /\ position = [w \in 0 .. 1 |-> 1]
  /\ strArrayScanData = <<>> /\ getDataCountAll = 1
  /\ list112 = NoRow
  /\ events = 0
-----------------------------------------------------------------------------
pointVar == Len(shown)

\* indexval[pointVar - 1]
Newest == IF pointVar \in DOMAIN indexval THEN indexval[pointVar] ELSE NaN

Plus(a, k) == IF a = NaN THEN NaN ELSE a + k

\* A comparison with NaN is false.
Less(a, b) == a # NaN /\ b # NaN /\ a < b

\* What becomes of a number that is passed to qmlIndexDataAll.
ToInt(a) == IF a = NaN THEN 0 ELSE a

\* The user does something; the program can only attend to it in between.
Event ==
  /\ pcC = "idle"
  /\ events < MaxEvents
  /\ events' = events + 1

\* Mutant: an index browsed to is taken for the chart being browsed.
Browsing_ByIndex == touchedIndex # 0

Browsing == isTouchProcess = 1

\* qmlSlotTestData; an empty string, or a touched chart, changes nothing.
ShowLatest(reply) ==
  IF Browsing \/ reply = NoReply
  THEN UNCHANGED <<shown, indexval>>
  ELSE shown' = reply.rows /\ indexval' = reply.rows

\* The end of onPositionChanged, with what val1122 then holds: the window, or
\* after a failure whatever there was.
ShowWindow(reply) == shown' = IF reply = NoReply THEN shown ELSE reply.rows

\* Line i of a reply, which begins with the number of rows and ends with an
\* empty line.
Line(list, i) == IF i \in DOMAIN list THEN list[i] ELSE Heading

\* Mutant: the other position is kept inside the list.
Clamped_Other(count) ==
  [position EXCEPT ![1 - selectWindow] = IF count < @ THEN count ELSE @]

Clamped(count) ==
  [position EXCEPT ![selectWindow] = IF count < @ THEN count ELSE @]

\* The end of SCAN, with what val1122 then holds.
ShowList(reply) ==
  /\ strArrayScanData' = reply.rows
  /\ IF reply = NoReply
     THEN UNCHANGED <<getDataCountAll, position, list112>>
     ELSE /\ getDataCountAll' = Len(reply.rows)
          /\ position' = Clamped(Len(reply.rows))
          /\ list112' = Line(reply.rows, position'[selectWindow])
-----------------------------------------------------------------------------
\* slotTimerAlarm, every 300 ms.
Timer ==
  /\ Ask("latest", 0)
  /\ UNCHANGED <<dragVars, chartVars, listVars, events>>

\* A call of the client returns and the handler that made it goes on.
LatestReturns ==
  /\ op = "latest"
  /\ \/ Complete /\ ShowLatest(Input)
     \/ GiveUp /\ UNCHANGED <<shown, indexval>>
  /\ UNCHANGED <<dragVars, listVars, events, isTouchProcess, isTrans, bt_currnt>>

WindowReturns ==
  /\ op = "window"
  /\ \/ Complete /\ UNCHANGED steady
     \/ GiveUp /\ steady' = FALSE
  /\ ShowWindow(val1122')
  /\ UNCHANGED <<touchedIndex, touchedMoveDir, touchedMoveCnt, proccedIndex, pressed>>
  /\ UNCHANGED <<listVars, events, indexval, isTouchProcess, isTrans, bt_currnt>>

ListReturns ==
  /\ op = "list"
  /\ Complete \/ GiveUp
  /\ ShowList(val1122')
  /\ UNCHANGED <<page, selectWindow, dragVars, chartVars, events>>

ClientStep ==
  \/ Transfer /\ UNCHANGED <<dragVars, chartVars, listVars, events>>
  \/ LatestReturns
  \/ WindowReturns
  \/ ListReturns
-----------------------------------------------------------------------------
\* onPressed
Press ==
  /\ page = "trend" /\ ~pressed
  /\ Event
  /\ pressed' = TRUE
  /\ touchedMoveCnt' = 0 /\ proccedIndex' = 0
  /\ steady' = TRUE
  /\ UNCHANGED <<clientVars, chartVars, listVars, touchedIndex, touchedMoveDir>>

\* onPositionChanged, k steps from where the drag began.  The count only
\* grows; the first step of a drag from the live chart starts at its newest
\* row.
Drag(dir, k) ==
  LET far   == k > touchedMoveCnt
      count == IF far THEN k ELSE touchedMoveCnt
      start == IF far /\ touchedIndex = 0 THEN Newest ELSE touchedIndex
  IN  /\ pressed
      /\ Event
      /\ touchedMoveDir' = dir
      /\ touchedMoveCnt' = count
      /\ touchedIndex' = start
      /\ isTouchProcess' = IF far THEN 1 ELSE isTouchProcess
      /\ isTrans' = IF far THEN 0 ELSE isTrans
      /\ bt_currnt' = (bt_currnt \/ isTouchProcess' = 1)
      /\ steady' = (steady /\ dir = 1)
      /\ UNCHANGED <<pressed, shown, indexval, listVars>>

\* Mutant: every drag is counted from the newest row.
Wanted_FromNewest(dir, start, count) ==
  IF dir = 1
  THEN IF Less(Plus(Newest, -count), 1) THEN 1 ELSE Plus(Newest, -count)
  ELSE IF Less(Newest, Plus(start, count)) THEN Newest ELSE Plus(start, count)

\* The index the chart is to show, between 1 and the newest it knows of.
Wanted(dir, start, count) ==
  IF dir = 1
  THEN IF Less(Plus(start, -count), 1) THEN 1 ELSE Plus(start, -count)
  ELSE IF Less(Newest, Plus(start, count)) THEN Newest ELSE Plus(start, count)

\* A move by which the chart does not change.
Nudge(dir, k) ==
  /\ Drag(dir, k)
  /\ isTouchProcess' = 1 => proccedIndex = touchedMoveCnt'
  /\ UNCHANGED <<clientVars, proccedIndex>>

\* One by which it does.
Browse(dir, k) ==
  /\ Drag(dir, k)
  /\ isTouchProcess' = 1 /\ proccedIndex # touchedMoveCnt'
  /\ proccedIndex' = touchedMoveCnt'
  /\ Ask("window", ToInt(Wanted(dir, touchedIndex', touchedMoveCnt')))

\* Mutant: the bound on the left is left out.
Reached_Unbounded ==
  CASE touchedMoveDir = 0 -> touchedIndex
    [] touchedMoveDir = 1 -> Plus(touchedIndex, -touchedMoveCnt)
    [] touchedMoveDir = 2 ->
         IF Less(Plus(touchedIndex, touchedMoveCnt), Newest)
         THEN Plus(touchedIndex, touchedMoveCnt) ELSE Newest

\* Where a drag leaves the index.
Reached ==
  CASE touchedMoveDir = 0 -> touchedIndex
    [] touchedMoveDir = 1 ->
         IF Less(1, Plus(touchedIndex, -touchedMoveCnt))
         THEN Plus(touchedIndex, -touchedMoveCnt) ELSE 1
    [] touchedMoveDir = 2 ->
         IF Less(Plus(touchedIndex, touchedMoveCnt), Newest)
         THEN Plus(touchedIndex, touchedMoveCnt) ELSE Newest

\* onReleased
Release ==
  /\ pressed
  /\ pcC = "idle"
  /\ pressed' = FALSE
  /\ touchedIndex' = Reached
  /\ UNCHANGED <<clientVars, chartVars, listVars, events>>
  /\ UNCHANGED <<touchedMoveDir, touchedMoveCnt, proccedIndex, steady>>

\* The button "current".
Current ==
  /\ page = "trend" /\ bt_currnt /\ ~pressed
  /\ Event
  /\ isTouchProcess' = 0 /\ isTrans' = 1 /\ bt_currnt' = FALSE
  /\ touchedIndex' = 0
  /\ UNCHANGED <<clientVars, listVars, shown, indexval>>
  /\ UNCHANGED <<touchedMoveDir, touchedMoveCnt, proccedIndex, pressed, steady>>
-----------------------------------------------------------------------------
\* One of the two buttons that open the page.
OpenList(w) ==
  /\ page = "trend" /\ ~pressed
  /\ Event
  /\ page' = "list" /\ selectWindow' = w /\ list112' = NoRow
  /\ UNCHANGED <<clientVars, dragVars, chartVars>>
  /\ UNCHANGED <<position, strArrayScanData, getDataCountAll>>

\* SCAN asks for the list ...
Scan ==
  /\ page = "list" /\ isTrans = 1
  /\ Event
  /\ Ask("list", 0)
  /\ UNCHANGED <<dragVars, chartVars, listVars>>

\* ... but not while the chart is browsed, when it shows what the last call
\* left behind.
ScanWhileBrowsing ==
  /\ page = "list" /\ isTrans = 0
  /\ Event
  /\ ShowList(val1122)
  /\ UNCHANGED <<clientVars, dragVars, chartVars, page, selectWindow>>

ListAt(i) ==
  /\ page = "list" /\ list112 # NoRow
  /\ Event
  /\ position' = [position EXCEPT ![selectWindow] = i]
  /\ list112' = Line(strArrayScanData, i)
  /\ UNCHANGED <<clientVars, dragVars, chartVars>>
  /\ UNCHANGED <<page, selectWindow, strArrayScanData, getDataCountAll>>

Up ==
  LET i == position[selectWindow]
  IN  ListAt(IF i + 1 <= getDataCountAll THEN i + 1 ELSE i)

Down ==
  LET i == position[selectWindow]
  IN  ListAt(IF i - 1 > 0 THEN i - 1 ELSE i)

\* OK and Cancel.
CloseList ==
  /\ page = "list"
  /\ pcC = "idle"
  /\ page' = "trend"
  /\ UNCHANGED <<clientVars, dragVars, chartVars, events>>
  /\ UNCHANGED <<selectWindow, position, strArrayScanData, getDataCountAll, list112>>

UserStep ==
  \/ Press
  \/ \E dir \in 1 .. 2, k \in 0 .. MaxSteps : Nudge(dir, k)
  \/ \E dir \in 1 .. 2, k \in 1 .. MaxSteps : Browse(dir, k)
  \/ Release
  \/ Current
  \/ \E w \in 0 .. 1 : OpenList(w)
  \/ Scan
  \/ ScanWhileBrowsing
  \/ Up
  \/ Down
  \/ CloseList

Next ==
  \/ UserStep
  \/ Timer
  \/ ClientStep
  \/ StoreRow /\ UNCHANGED <<dragVars, chartVars, listVars, events>>

\* The timer goes on and calls come to an end; the user need not do anything.
Spec == Init /\ [][Next]_vars /\ WF_vars(Timer) /\ WF_vars(ClientStep)
-----------------------------------------------------------------------------
\* What the client hands on is a whole reply or nothing, however slowly it
\* comes in and whatever fails, where char is unsigned.
ReplyIsWhole ==
  ~CharSigned =>
    /\ Whole(val1122)
    /\ shown = <<>> \/ \E a, b \in 0 .. MaxRows : shown = [i \in 1 .. b - a + 1 |-> a + i - 1]

RowsOf(s) == {s[i] : i \in DOMAIN s}

\* A drag to the left alone, all of whose requests succeed, leaves behind an
\* index whose row is on the chart, so that the next drag goes on from what
\* the user sees; if four digits can tell the index and the table had it
\* when the drag began.
IndexStaysInView ==
  [][pressed /\ ~pressed' /\ steady /\ proccedIndex > 0
       /\ touchedIndex' < Wrap /\ indexval # <<>>
       /\ touchedIndex' <= indexval[Len(indexval)]
       => touchedIndex' \in RowsOf(shown)]_vars

\* A row on the page is the one at the position in the list, and UP and DOWN
\* stay inside the list, though each button has its own position and a list
\* may be shorter than the one before.
ListedAtPosition ==
  list112 # NoRow =>
    /\ position[selectWindow] \in 0 .. Len(strArrayScanData)
    /\ list112 = Line(strArrayScanData, position[selectWindow])
    /\ getDataCountAll = Len(strArrayScanData)

LatestRows == Between(rows - Latest, rows - 1)

\* When the user leaves the chart alone it comes to show the latest rows, and
\* keeps to them; after failed requests too.
CatchesUp == <>[](isTouchProcess = 0) => <>[](shown = LatestRows)
=============================================================================
