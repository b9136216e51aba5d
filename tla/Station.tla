------------------------------ MODULE Station -------------------------------
(***************************************************************************)
(* The two threads Serial.py starts, together: the reader storing rounds   *)
(* (as in Collector, seen from its database calls) and the thread serving  *)
(* the phone (BleSync).  They use one database connection, one cursor and  *)
(* one list sedD without a lock.                                           *)
(*                                                                         *)
(* interleave says between which uses of a global by one thread the other  *)
(* thread may come in: "cursor", between execute and fetchall; "buffer",   *)
(* between the first and the last byte of a reply; "connection", between a *)
(* statement's way to the database and its answer's way back.  The program *)
(* excludes none.  It is one of Interleavings for good: the runs in which  *)
(* it is smaller tell what each of the three breaks.                       *)
(***************************************************************************)
EXTENDS BleSync

CONSTANT Interleavings

ASSUME InterleavingsAssumption == Interleavings \subseteq SUBSET {"cursor", "buffer", "connection"}

VARIABLES
  pcR,     \* where the reader is
  nCount,  \* local to UpdateDBData
  interleave

stationVars == <<vars, pcR, nCount, interleave>>

ReaderStages == {"idle", "count", "fetchCount", "insert", "push", "died"}

\* The types of the phone thread's and the reader's variables, composed.
StationTypeOK ==
  /\ TypeOK
  /\ pcR \in ReaderStages
  /\ nCount \in Nat
  /\ interleave \in Interleavings

StationInit ==
  /\ Init
  /\ pcR = "idle"
  /\ nCount = 0
  /\ interleave \in Interleavings

\* The other thread is between an execute and its fetchall.
CursorFree == "cursor" \in interleave \/ (pcB # "fetch" /\ pcR # "fetchCount")

\* The other thread has a reply half built.
BufferFree == "buffer" \in interleave \/ pcB # "finish"
-----------------------------------------------------------------------------
\* parsing_data: sedD = [], whatever the frame; some frames close a round.
SensorFrame(closes) ==
  /\ pcR = "idle"
  /\ table < MaxRows
  /\ BufferFree
  /\ sedD' = FALSE
  /\ pcR' = IF closes THEN "count" ELSE "idle"
  /\ UNCHANGED <<rows, cur, bleVars, history, nCount>>

\* data_count: execute ...
ExecuteCount ==
  /\ pcR = "count"
  /\ CursorFree
  /\ cur' = <<CountOf(table)>>
  /\ pcR' = "fetchCount"
  /\ UNCHANGED <<rows, sedD, bleVars, history, nCount>>

\* ... fetchall, and the digits of what it returns.
FetchCount ==
  /\ pcR = "fetchCount"
  /\ Len(cur) = 1 /\ cur[1].kind = "count"
  /\ nCount' = cur[1].n
  /\ cur' = <<>>
  /\ pcR' = "insert"
  /\ UNCHANGED <<rows, sedD, bleVars, history>>

\* Mutant: the database takes what is no number for 0.
FetchOther_Zero ==
  /\ pcR = "fetchCount"
  /\ ~(Len(cur) = 1 /\ cur[1].kind = "count")
  /\ cur' = <<>>
  /\ nCount' = 0
  /\ pcR' = "insert"
  /\ UNCHANGED <<rows, sedD, bleVars, history>>

\* Of any other result the digits are no number or several, and the insert
\* that is made of them is refused.
FetchOther ==
  /\ pcR = "fetchCount"
  /\ ~(Len(cur) = 1 /\ cur[1].kind = "count")
  /\ cur' = <<>>
  /\ pcR' = "died"
  /\ UNCHANGED <<rows, sedD, bleVars, history, nCount>>

\* A row more, which may be an oversized one.
AddRow ==
  /\ table' = table + 1
  /\ oversized' \in {oversized, oversized \cup {table + 1}}

\* An insert leaves the cursor without rows.
InsertRow ==
  /\ pcR = "insert"
  /\ CursorFree
  /\ AddRow
  /\ cur' = <<>>
  /\ pcR' = "push"
  /\ UNCHANGED <<sedD, bleVars, history, nCount>>

\* Mutant: the row is not sent while a transfer is going on.
PushRow_NotDuringTransfer ==
  /\ pcR = "push"
  /\ live' = IF pcB = "idle" THEN live \cup {table} ELSE live
  /\ pcR' = "idle"
  /\ UNCHANGED <<shared, bleVars, asked, announced, got, nCount>>

\* Mutant: the reader sends the whole table.
PushRow_WholeTable ==
  /\ pcR = "push"
  /\ live' = live \cup (1 .. table)
  /\ pcR' = "idle"
  /\ UNCHANGED <<shared, bleVars, asked, announced, got, nCount>>

\* The live frame is built in a list of its own.
PushRow ==
  /\ pcR = "push"
  /\ table \notin oversized
  /\ live' = live \cup {table}
  /\ pcR' = "idle"
  /\ UNCHANGED <<shared, bleVars, asked, announced, got, nCount>>

\* ser1.write raises on an oversized row.
PushRaises ==
  /\ pcR = "push"
  /\ table \in oversized
  /\ pcR' = "died"
  /\ UNCHANGED <<shared, bleVars, history, nCount>>

\* Two threads in a round trip on one connection, the reader in its count, its
\* insert or the commit after either: what they read are pieces of each
\* other's answers, and one of them or both get an exception.  The database
\* may have stored the row of an insert all the same.
Collide ==
  /\ "connection" \in interleave
  /\ pcR \in {"count", "insert"} /\ pcB = "select"
  /\ pcR' \in {pcR, "died"} /\ pcB' \in {pcB, "died"}
  /\ "died" \in {pcR', pcB'}
  /\ \/ UNCHANGED rows
     \/ pcR = "insert" /\ pcR' = "died" /\ AddRow
  /\ UNCHANGED <<cur, sedD, op, session, passCnt, commands, history, nCount>>

\* Or each reads the whole of the other's answer.  What the phone's query
\* reports is then one row, of the count or the insert, or none, of a commit;
\* the cursor is left with the rows of whichever came last.
SwapAnswers ==
  /\ "connection" \in interleave
  /\ pcR \in {"count", "insert"} /\ pcB = "select"
  /\ Phonenum' = asked
  /\ \E num \in {0, 1} : BLEnum' = IF num < asked THEN 0 ELSE num - asked
  /\ live' = {}
  /\ pcB' = "fetch"
  /\ \/ pcR = "count" /\ pcR' = "fetchCount" /\ UNCHANGED rows
        /\ cur' \in {AllRows, <<CountOf(table)>>}
     \/ pcR = "insert" /\ pcR' = "push" /\ AddRow
        /\ cur' \in {AllRows, <<>>}
  /\ UNCHANGED <<sedD, op, BLEFlag, BLEresult, passCnt, commands>>
  /\ UNCHANGED <<asked, announced, got, nCount>>

ReaderStep ==
  /\ \/ ExecuteCount
     \/ FetchCount
     \/ FetchOther
     \/ InsertRow
     \/ PushRow
     \/ PushRaises
  /\ UNCHANGED interleave

\* The thread serving the phone, which takes the cursor when it is free.
PhoneStep ==
  /\ pcB = "select" => CursorFree
  /\ BleStep
  /\ UNCHANGED <<pcR, nCount, interleave>>

PhoneCommand == Command /\ UNCHANGED <<pcR, nCount, interleave>>

StationNext ==
  \/ \E closes \in BOOLEAN : SensorFrame(closes) /\ UNCHANGED interleave
  \/ ReaderStep
  \/ PhoneStep
  \/ PhoneCommand
  \/ (Collide \/ SwapAnswers) /\ UNCHANGED interleave

\* Both threads go on as long as they can; neither the sensors nor the phone
\* have to send anything.
StationSpec ==
  /\ StationInit /\ [][StationNext]_stationVars
  /\ WF_stationVars(ReaderStep) /\ WF_stationVars(PhoneStep)
-----------------------------------------------------------------------------
\* The threads do not come between each other's uses of a global.
Apart == interleave = {}

\* With the threads apart, what the phone gets after a command 4 are the rows
\* that follow those it has, in order and without a gap, whether it asks for
\* all or for one.
RowsFollowAsked ==
  Apart => \A i \in DOMAIN got : got[i] = asked + i /\ got[i] <= table

TransferDone == BLEFlag' /\ ~BLEFlag

\* A transfer that has come to its end has sent as many rows as command 4
\* found the phone to lack ...
LackedIsSent == [][TransferDone => Len(got) = BLEnum]_stationVars

\* ... which is so only while the threads stay apart.  Command 4 has announced
\* that number, or 0 if the flag of an earlier transfer was still up: a phone
\* that takes the flag down only after command 4 gets rows it was not told of.
ApartLackedIsSent ==
  [][Apart /\ TransferDone =>
       Len(got) = BLEnum /\ announced \in {0, Len(got)}]_stationVars

\* The row is about to be pushed, or it is oversized and the reader died of it.
AtPush(i) == i = table /\ (pcR = "push" \/ (pcR = "died" /\ i \in oversized))

\* With the threads apart, a phone that listens from its command 4 on misses
\* nothing but a row the reader could not send: a row is among those it had,
\* those transferred, those pushed, or at its push.
NothingMissed ==
  [][Apart /\ TransferDone =>
       \A i \in 1 .. table :
         \/ i <= asked
         \/ \E k \in DOMAIN got : got[k] = i
         \/ i \in live
         \/ AtPush(i)]_stationVars

\* With the threads apart, at most one row is both pushed and transferred after
\* a command 4: the newest it found, whose push was still to come.
PushedTwiceIsNewest ==
  Apart => \A k \in DOMAIN got : got[k] \in live => got[k] = Len(BLEresult)

\* With the threads apart, complete commands end the phone's thread in two ways
\* only: a command 6 before any command 4, and an oversized row, whose number
\* Phonenum has then reached.
PhoneThreadSurvives ==
  Apart /\ pcB = "died" => BLEresult = Unset \/ Phonenum \in oversized

\* However the two threads interleave, the index a row is stored with is its
\* position: a count that is not one is refused by the database.
IndexIsPosition == [][table' # table => nCount = table]_stationVars

\* However they interleave, commands 5 and 6 send no row twice and none before
\* an older one.  (The reader may push a row that they also send.)
TransferAscends ==
  \A i, j \in DOMAIN got : i < j => got[i] < got[j]
=============================================================================
