---------------------------- MODULE TableClient -----------------------------
(***************************************************************************)
(* ConnectEvent.cpp: how the Qt program asks the table server.  Each of    *)
(* the three requests opens a connection, sends the request, waits for a   *)
(* length, reads as many bytes as it says and hands them on: slotTimerAlarm *)
(* (scan1, the latest rows) as a signal, qmlIndexDataAll (scan5, the rows  *)
(* around an index) and qmlTestDataAll (scan4, all rows) in val1122.  Every *)
(* wait ends after ten seconds at most.  The program has one thread, which *)
(* does nothing else meanwhile.                                            *)
(*                                                                         *)
(* A row is its index; a reply is the rows it lists.  Bytes are counted in *)
(* lines: one for the number of rows, which comes first, and one per row.  *)
(* The server answers as ReadServer has it for one client.  Scan1 and      *)
(* scan4 replies are sorted by time; here the times grow with the index,   *)
(* as they do while the collector's clock is not set back, so that order   *)
(* is the order of the indices.                                            *)
(***************************************************************************)
EXTENDS Integers, Sequences

CONSTANTS Latest,       \* rows in a scan1 reply (7)
          Behind,       \* rows before an index in a scan5 reply (3)
          Ahead,        \* rows from it on (4)
          Wrap,         \* the numbers that four digits can tell apart (10000)
          Base,         \* the numbers that a byte of a length can tell apart (256)
          CharSigned,   \* whether char is signed: on the ARM board it is not
          MaxRows,      \* bound: the rows of the table
          MaxFailures   \* bound: the requests that come to nothing

ASSUME SizesAssumption ==
  /\ Latest \in Nat \ {0} /\ Behind \in Nat /\ Ahead \in Nat
  /\ Wrap \in Nat \ {0} /\ Base \in Nat \ {0, 1}
  /\ CharSigned \in BOOLEAN
  /\ MaxRows \in Nat /\ MaxFailures \in Nat

VARIABLES
  rows,      \* the number of rows in the table; their indices are 0 .. rows - 1
  pcC,       \* where the client is
  op,        \* what it was asked for: "latest", "window", "list" or "none"
  key,       \* the index a window is asked for
  answer,    \* the rows the server has answered with, or Unanswered
  arrived,   \* how many lines of the answer have come in
  n,         \* how many the client waits for
  val1122,   \* what windows and lists are handed on in: a reply, or NoReply
  failures   \* the requests that have come to nothing

clientVars == <<rows, pcC, op, key, answer, arrived, n, val1122, failures>>

Unanswered == <<-1>>

\* What has been read of a reply.
Read(list, lines) == [rows |-> list, lines |-> lines]

NoReply == Read(<<>>, 0)

Size(list) == Len(list) + 1

\* A reply is whole if all its lines have been read.
Whole(reply) == reply = NoReply \/ reply.lines = Size(reply.rows)

ClientTypeOK ==
  /\ rows \in 0 .. MaxRows
  /\ pcC \in {"idle", "connect", "length", "body"}
  /\ op \in {"none", "latest", "window", "list"}
  /\ key \in Int
  /\ answer = Unanswered \/ answer \in Seq(0 .. MaxRows)
  /\ arrived \in 0 .. MaxRows + 1
  /\ n \in Int
  /\ val1122.rows \in Seq(0 .. MaxRows) /\ val1122.lines \in 0 .. MaxRows + 1
  /\ failures \in 0 .. MaxFailures

ClientInit ==
  /\ rows \in 0 .. MaxRows
  /\ pcC = "idle" /\ op = "none" /\ key = 0
  /\ answer = Unanswered /\ arrived = 0 /\ n = 0
  /\ val1122 = NoReply
  /\ failures = 0
-----------------------------------------------------------------------------
\* The indices from a to b that the table has, in order.
Between(a, b) ==
  LET lo == IF a < 0 THEN 0 ELSE a
      hi == IF b > rows - 1 THEN rows - 1 ELSE b
  IN  [i \in 1 .. (IF hi < lo THEN 0 ELSE hi - lo + 1) |-> lo + i - 1]

\* An index is sent as four digits.
Digits(k) == k % Wrap

\* ReadDB.py: what the server answers to the request there is, if the times of
\* the rows grow with their indices.
Reply ==
  CASE op = "latest" -> Between(rows - Latest, rows - 1)
    [] op = "window" -> Between(Digits(key) - Behind, Digits(key) + Ahead - 1)
    [] op = "list"   -> Between(0, rows - 1)

\* A char taken into an int.
Char(b) == IF CharSigned /\ b >= Base \div 2 THEN b - Base ELSE b

\* data[0] + (data[1] << 8) + ...
Decoded(size) == Char(size % Base) + Base * Char(size \div Base)

\* The request itself, left in the buffer where no length was read into it:
\* as a length, more than any reply has.
Garbage == MaxRows + 2
-----------------------------------------------------------------------------
Ask(what, k) ==
  /\ pcC = "idle"
  /\ op' = what /\ key' = k
  /\ pcC' = "connect"
  /\ UNCHANGED <<rows, answer, arrived, n, val1122, failures>>

StoreRow ==
  /\ rows < MaxRows
  /\ rows' = rows + 1
  /\ UNCHANGED <<pcC, op, key, answer, arrived, n, val1122, failures>>

Connected ==
  /\ pcC = "connect"
  /\ pcC' = "length"
  /\ UNCHANGED <<rows, op, key, answer, arrived, n, val1122, failures>>

\* The server sends the length and after it the lines, as they come.
ServerAnswers ==
  /\ pcC \in {"length", "body"} /\ answer = Unanswered
  /\ answer' = Reply
  /\ UNCHANGED <<rows, pcC, op, key, arrived, n, val1122, failures>>

LineArrives ==
  /\ pcC \in {"length", "body"} /\ answer # Unanswered
  /\ arrived < Size(answer)
  /\ arrived' = arrived + 1
  /\ UNCHANGED <<rows, pcC, op, key, answer, n, val1122, failures>>

\* The first waitForReadyRead ends; that it may have timed out is not seen.
ReadLength ==
  /\ pcC = "length"
  /\ n' = IF answer = Unanswered THEN Garbage ELSE Decoded(Size(answer))
  /\ pcC' = "body"
  /\ answer = Unanswered => failures < MaxFailures
  /\ UNCHANGED <<rows, op, key, answer, arrived, val1122, failures>>

\* Back in the event loop.
Done ==
  /\ pcC' = "idle" /\ op' = "none" /\ key' = 0
  /\ answer' = Unanswered /\ arrived' = 0 /\ n' = 0

\* What the client has read when it goes on, and when it does.
Input == Read(answer, arrived)

\* Mutant: what has come in is taken without waiting for the rest.
Complete_NoWait ==
  /\ pcC = "body" /\ answer # Unanswered
  /\ val1122' = IF op = "latest" THEN val1122 ELSE Input
  /\ Done
  /\ UNCHANGED <<rows, failures>>

\* As many bytes as expected have come in: readAll.
Complete ==
  /\ pcC = "body" /\ answer # Unanswered
  /\ arrived >= n
  /\ val1122' = IF op = "latest" THEN val1122 ELSE Input
  /\ Done
  /\ UNCHANGED <<rows, failures>>

\* The server cannot be reached, hangs up, or is silent for ten seconds: the
\* call returns and leaves val1122 as it was.
GiveUp ==
  /\ pcC = "connect" \/ (pcC = "body" /\ arrived < n)
  /\ failures < MaxFailures
  /\ failures' = failures + 1
  /\ Done
  /\ UNCHANGED <<rows, val1122>>

\* What goes on by itself during a call.
Transfer == Connected \/ ServerAnswers \/ LineArrives \/ ReadLength
=============================================================================
