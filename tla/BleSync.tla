------------------------------ MODULE BleSync -------------------------------
(***************************************************************************)
(* The thread of Serial.py that serves the phone: BLEparsing_data and the  *)
(* commands 1 to 6 of the BLE port.  The phone is not part of the          *)
(* repository: it sends any command at any time.  Rows are told apart by   *)
(* their position in the table; frames by what they carry.                 *)
(*                                                                         *)
(* The thread shares two globals with the reader thread: the database      *)
(* cursor "cur", whose result a later fetchall takes, and the list "sedD"  *)
(* in which replies are built.  What the reader does to them is left to    *)
(* the environment here and modelled by Station.                           *)
(***************************************************************************)
EXTENDS Integers, Sequences

CONSTANTS MaxRows,      \* bound: the rows of the table
          MaxCommands,  \* bound: the commands of the phone
          Unset         \* what a name never assigned to stands for

ASSUME RowsAssumption     == MaxRows \in Nat
ASSUME CommandsAssumption == MaxCommands \in Nat

VARIABLES
  table,       \* the number of rows in the table
  oversized,   \* those with a reading of 25600 or more, whose first digit is
               \* more than ser1.write takes for a byte
  cur,         \* the result the cursor holds
  sedD,        \* whether the global list holds the start of the reply
  pcB,         \* where the thread is
  op,          \* the command it is serving
  Phonenum,    \* how many rows the phone has, counted on during a transfer
  BLEnum,      \* how many rows it lacks
  BLEFlag,     \* the transfer is done
  BLEresult,   \* the rows fetched by command 4; Unset before the first, when
               \* its use raises a NameError
  passCnt,     \* local to command 5: the rows gone through
  commands,    \* the number of commands received
  asked,       \* history: the phone's number in the last command 4
  announced,   \* history: the number in the reply to it; Unset before that
  got,         \* history: the rows sent since, in order
  live         \* history: the rows pushed since

rows == <<table, oversized>>
shared == <<rows, cur, sedD>>
session == <<Phonenum, BLEnum, BLEFlag, BLEresult>>
history == <<asked, announced, got, live>>
bleVars == <<pcB, op, session, passCnt, commands>>
vars == <<shared, bleVars, history>>
-----------------------------------------------------------------------------
\* Results of the cursor: rows of the table, or the answer to a COUNT.
RowOf(i)   == [kind |-> "row", n |-> i]
CountOf(k) == [kind |-> "count", n |-> k]
Result == [kind : {"row", "count"}, n : Nat]

ASSUME UnsetAssumption == Unset \notin Seq(Result)

AllRows == [i \in 1 .. table |-> RowOf(i)]

Stages == {"idle", "select", "fetch", "build", "finish", "next", "died", "diedShort"}

\* The types of what the phone thread keeps; BLEnum in particular is never
\* negative, as the reply to command 4 splits it into bytes.
TypeOK ==
  /\ table \in 0 .. MaxRows /\ oversized \subseteq 1 .. table
  /\ cur \in Seq(Result)
  /\ sedD \in BOOLEAN
  /\ pcB \in Stages
  /\ op \in 0 .. 6
  /\ Phonenum \in Nat /\ BLEnum \in Nat /\ BLEFlag \in BOOLEAN
  /\ BLEresult = Unset \/ BLEresult \in Seq(Result)
  /\ passCnt \in Nat
  /\ commands \in 0 .. MaxCommands
  /\ asked \in Nat
  /\ announced \in Nat \cup {Unset}
  /\ got \in Seq(1 .. MaxRows)
  /\ live \subseteq 1 .. MaxRows

\* The table may hold the rows of earlier runs of the program.
Init ==
  /\ table \in 0 .. MaxRows
  /\ oversized \in SUBSET (1 .. table)
  /\ cur = <<>>
  /\ sedD = FALSE
  /\ pcB = "idle"
  /\ op = 0
  /\ Phonenum = 0 /\ BLEnum = 0 /\ BLEFlag = FALSE
  /\ BLEresult = Unset
  /\ passCnt = 0
  /\ commands = 0
  /\ asked = 0
  /\ announced = Unset
  /\ got = <<>>
  /\ live = {}
-----------------------------------------------------------------------------
\* A command is taken from the phone: sedD = [] begins every one.
Take(o) ==
  /\ pcB = "idle"
  /\ commands < MaxCommands
  /\ commands' = commands + 1
  /\ op' = o
  /\ sedD' = FALSE
  /\ UNCHANGED <<rows, cur, live>>

\* 1 opens a new transfer; 2 and 3 set the date and the clock.  All three are
\* acknowledged.
Acknowledge(o) ==
  /\ o \in 1 .. 3
  /\ Take(o)
  /\ BLEFlag' = IF o = 1 THEN FALSE ELSE BLEFlag
  /\ pcB' = "build"
  /\ UNCHANGED <<Phonenum, BLEnum, BLEresult, passCnt, asked, announced, got>>

\* 4 names the number of rows the phone has.
AskForRows(p) ==
  /\ Take(4)
  /\ asked' = p
  /\ announced' = Unset
  /\ got' = <<>>
  /\ pcB' = "select"
  /\ UNCHANGED <<session, passCnt>>

\* 5 starts the transfer, unless there is nothing to send or it was sent.
StartTransfer ==
  /\ Take(5)
  /\ passCnt' = 0
  /\ pcB' = IF BLEnum = 0 \/ BLEFlag THEN "idle" ELSE "next"
  /\ UNCHANGED <<session, asked, announced, got>>

\* 6 with the argument 1: the reply is built and not sent.
EndOfSingle ==
  /\ Take(6)
  /\ UNCHANGED <<session, passCnt, asked, announced, got, pcB>>

\* 6 otherwise: the next row, if there is one, in a frame of its own.
AskForSingle ==
  /\ Take(6)
  /\ pcB' = IF BLEresult = Unset THEN "died" ELSE "build"
  /\ UNCHANGED <<session, passCnt, asked, announced, got>>

\* A frame shorter than its command reads: an IndexError.  (A 43 among the
\* bytes of a command cuts it short: the framer is the one of SensorLink.)
ShortFrame(o) ==
  /\ o \in {2, 3}
  /\ Take(o)
  /\ pcB' = "diedShort"
  /\ UNCHANGED <<session, passCnt, asked, announced, got>>
-----------------------------------------------------------------------------
\* Mutant: a phone with more rows than the table is not considered.
Select_Unguarded ==
  /\ pcB = "select"
  /\ cur' = AllRows
  /\ Phonenum' = asked
  /\ BLEnum' = table - asked
  /\ live' = {}
  /\ pcB' = "fetch"
  /\ UNCHANGED <<rows, sedD, op, BLEFlag, BLEresult, passCnt, commands, asked, announced, got>>

\* cur.execute("select * ...") and the numbers computed from its result.
Select ==
  /\ pcB = "select"
  /\ cur' = AllRows
  /\ Phonenum' = asked
  /\ BLEnum' = IF table < asked THEN 0 ELSE table - asked
  /\ live' = {}
  /\ pcB' = "fetch"
  /\ UNCHANGED <<rows, sedD, op, BLEFlag, BLEresult, passCnt, commands, asked, announced, got>>

\* The command is too short for its three bytes, which are looked at only
\* after the query.
SelectShort ==
  /\ pcB = "select"
  /\ cur' = AllRows
  /\ pcB' = "diedShort"
  /\ UNCHANGED <<rows, sedD, op, session, passCnt, commands, history>>

\* BLEresult = cur.fetchall(): whatever the cursor still holds.
Fetch ==
  /\ pcB = "fetch"
  /\ BLEresult' = cur
  /\ cur' = <<>>
  /\ pcB' = "build"
  /\ UNCHANGED <<rows, sedD, op, Phonenum, BLEnum, BLEFlag, passCnt, commands, history>>

\* The first bytes of a reply go into sedD ...
Build ==
  /\ pcB = "build"
  /\ sedD' = TRUE
  /\ pcB' = "finish"
  /\ UNCHANGED <<rows, cur, op, session, passCnt, commands, history>>

\* Mutant: the number announced is the one of all rows.
FinishReply_AllRows ==
  /\ pcB = "finish" /\ op \in 1 .. 4
  /\ announced' = IF op = 4 /\ sedD THEN Len(BLEresult) ELSE announced
  /\ pcB' = "idle"
  /\ UNCHANGED <<shared, op, session, passCnt, commands, asked, got, live>>

\* ... then the rest, and it is written: an acknowledgement, or the number of
\* rows, which is 0 while the flag of an earlier transfer is up.
FinishReply ==
  /\ pcB = "finish" /\ op \in 1 .. 4
  /\ announced' = IF op = 4 /\ sedD THEN IF BLEFlag THEN 0 ELSE BLEnum
                  ELSE announced
  /\ pcB' = "idle"
  /\ UNCHANGED <<shared, op, session, passCnt, commands, asked, got, live>>

\* The row that command 6 sends, if there is one.
RowLeft == Phonenum < Len(BLEresult)
NextRow == BLEresult[Phonenum + 1]

\* Mutant: the row is sent again.
FinishSingle_NoAdvance ==
  /\ pcB = "finish" /\ op = 6
  /\ RowLeft => NextRow.kind = "row"
  /\ got' = IF RowLeft /\ sedD THEN Append(got, NextRow.n) ELSE got
  /\ pcB' = "idle"
  /\ UNCHANGED <<shared, op, session, passCnt, commands, asked, announced, live>>

\* The phone gets the row whole if sedD is still the list that was begun.
FinishSingle ==
  /\ pcB = "finish" /\ op = 6
  /\ RowLeft => NextRow.kind = "row" /\ (sedD => NextRow.n \notin oversized)
  /\ Phonenum' = IF RowLeft THEN Phonenum + 1 ELSE Phonenum
  /\ got' = IF RowLeft /\ sedD THEN Append(got, NextRow.n) ELSE got
  /\ pcB' = "idle"
  /\ UNCHANGED <<shared, op, BLEnum, BLEFlag, BLEresult, passCnt, commands, asked, announced, live>>

\* Command 5 goes through the rows from the first ...
SkipRow ==
  /\ pcB = "next"
  /\ passCnt < Len(BLEresult) /\ passCnt < Phonenum
  /\ passCnt' = passCnt + 1
  /\ UNCHANGED <<shared, pcB, op, session, commands, history>>

\* Mutant: the row is not counted as one the phone has.
BeginRow_NotCounted ==
  /\ pcB = "next"
  /\ passCnt < Len(BLEresult) /\ passCnt >= Phonenum
  /\ BLEresult[passCnt + 1].kind = "row"
  /\ sedD' = TRUE
  /\ pcB' = "finish"
  /\ UNCHANGED <<rows, cur, op, session, passCnt, commands, history>>

\* ... to those the phone lacks: for each a new list is begun ...
BeginRow ==
  /\ pcB = "next"
  /\ passCnt < Len(BLEresult) /\ passCnt >= Phonenum
  /\ BLEresult[passCnt + 1].kind = "row"
  /\ sedD' = TRUE
  /\ Phonenum' = Phonenum + 1
  /\ pcB' = "finish"
  /\ UNCHANGED <<rows, cur, op, BLEnum, BLEFlag, BLEresult, passCnt, commands, history>>

\* ... and written.
FinishRow ==
  /\ pcB = "finish" /\ op = 5
  /\ sedD => BLEresult[passCnt + 1].n \notin oversized
  /\ got' = IF sedD THEN Append(got, BLEresult[passCnt + 1].n) ELSE got
  /\ passCnt' = passCnt + 1
  /\ pcB' = "next"
  /\ UNCHANGED <<shared, op, session, commands, asked, announced, live>>

EndTransfer ==
  /\ pcB = "next"
  /\ passCnt = Len(BLEresult)
  /\ BLEFlag' = TRUE
  /\ pcB' = "idle"
  /\ UNCHANGED <<shared, op, Phonenum, BLEnum, BLEresult, passCnt, commands, history>>

\* v[0] of something that is not a row is not a date: a ValueError.
NotARow ==
  /\ \/ /\ pcB = "finish" /\ op = 6
        /\ RowLeft /\ NextRow.kind # "row"
     \/ /\ pcB = "next"
        /\ passCnt < Len(BLEresult) /\ passCnt >= Phonenum
        /\ BLEresult[passCnt + 1].kind # "row"
  /\ pcB' = "died"
  /\ UNCHANGED <<shared, op, session, passCnt, commands, history>>

\* ser1.write raises on an oversized row.  (It need not if the list was lost
\* after the digits went into it.)
WriteRaises ==
  /\ pcB = "finish"
  /\ \/ /\ op = 5
        /\ BLEresult[passCnt + 1].n \in oversized
        /\ UNCHANGED Phonenum
     \/ /\ op = 6
        /\ RowLeft /\ NextRow.kind = "row" /\ NextRow.n \in oversized
        /\ Phonenum' = Phonenum + 1
  /\ pcB' = "died"
  /\ UNCHANGED <<shared, op, BLEnum, BLEFlag, BLEresult, passCnt, commands, history>>

\* One command after the other.
BleStep ==
  \/ Select
  \/ SelectShort
  \/ Fetch
  \/ Build
  \/ FinishReply
  \/ FinishSingle
  \/ SkipRow
  \/ BeginRow
  \/ FinishRow
  \/ EndTransfer
  \/ NotARow
  \/ WriteRaises

Command ==
  \/ \E o \in 1 .. 3 : Acknowledge(o)
  \/ \E p \in 0 .. MaxRows + 1 : AskForRows(p)
  \/ StartTransfer
  \/ EndOfSingle
  \/ AskForSingle
  \/ \E o \in {2, 3} : ShortFrame(o)
=============================================================================
