----------------------------- MODULE ReadServer -----------------------------
(***************************************************************************)
(* ReadDB.py: the server on port 9999 that answers requests about the      *)
(* table.  Every client has a binder thread; all of them use one           *)
(* connection and one cursor.  A request is                                *)
(*                                                                         *)
(*    scan1        the latest rows          scan3   how many rows there are *)
(*    scan2 <time> the rows around a time   scan4   all rows                *)
(*    scan5 <n>    the rows around an index                                 *)
(*                                                                         *)
(* The rows are stored meanwhile by another process (Collector).  A row is *)
(* its index and its time.  The readings only matter where rows of one     *)
(* second are sorted: any order of those is possible.                      *)
(*                                                                         *)
(* A step is what a thread does between two calls on the connection; the   *)
(* calls of two threads alternate.  Two calls in flight at once, about     *)
(* which pymysql promises nothing, are left out.                           *)
(***************************************************************************)
EXTENDS Integers, Sequences, FiniteSets, Functions

CONSTANTS Clients,
          Latest,       \* rows in a scan1 reply (7)
          Ahead,        \* rows from the place asked for (4)
          Behind,       \* rows before it (3)
          Times,        \* the times rows are stored at
          Queried,      \* the times that are asked for
          MaxRows,      \* bound: the rows of the table
          MaxRequests   \* bound: the requests of all clients

ASSUME SizesAssumption ==
  /\ Latest \in Nat /\ Ahead \in Nat /\ Behind \in Nat
  /\ Times \subseteq Nat /\ Queried \subseteq Nat /\ MaxRows \in Nat /\ MaxRequests \in Nat

VARIABLES
  table,     \* the times of the rows; row i has the index i - 1
  cur,       \* the rows the cursor holds
  snap,      \* the rows the open transaction sees, or NoTransaction
  pc,        \* where each binder thread is
  req,       \* the request it serves
  num,       \* the sum of what execute returned
  result,    \* the rows fetched so far
  reply,     \* what the client got last
  asked,     \* history: the rows of the table when the request came
  seen,      \* history: the rows the first query saw
  requests   \* the number of requests made

vars == <<table, cur, snap, pc, req, num, result, reply, asked, seen, requests>>

NoTransaction == -1

Requests ==
  [scan : {1, 3, 4}, key : {0}]
    \cup [scan : {2}, key : Queried]
    \cup [scan : {5}, key : 0 .. MaxRows + 1]

None == [scan |-> 0, key |-> 0]

Rows == [index : Nat, time : Nat \cup {-1}]

\* The answer to a COUNT is no row.
CountRow(n) == [index |-> n, time |-> -1]

\* The types; a reply is one flat list of rows, out of one query or two.
TypeOK ==
  /\ table \in Seq(Times)
  /\ cur \in Seq(Rows)
  /\ snap \in {NoTransaction} \cup 0 .. Len(table)
  /\ pc \in [Clients -> {"idle", "first", "fetch", "second", "fetch2", "send", "closed"}]
  /\ req \in [Clients -> Requests \cup {None}]
  /\ num \in [Clients -> Nat]
  /\ result \in [Clients -> Seq(Rows)]
  /\ \A c \in Clients : reply[c].num \in Nat /\ reply[c].rows \in Seq(Rows)
  /\ \A c \in Clients : asked[c] \in 0 .. Len(table) /\ seen[c] \in 0 .. Len(table)
  /\ requests \in 0 .. MaxRequests

Init ==
  /\ table = <<>>
  /\ cur = <<>>
  /\ snap = NoTransaction
  /\ pc = [c \in Clients |-> "closed"]
  /\ req = [c \in Clients |-> None]
  /\ num = [c \in Clients |-> 0]
  /\ result = [c \in Clients |-> <<>>]
  /\ reply = [c \in Clients |-> [req |-> None, num |-> 0, rows |-> <<>>,
                              asked |-> 0, seen |-> 0]]
  /\ asked = [c \in Clients |-> 0]
  /\ seen = [c \in Clients |-> 0]
  /\ requests = 0
-----------------------------------------------------------------------------
\* What the database answers.  A transaction sees the rows there were at its
\* first query, until it commits.  Without an ORDER BY the rows come in the
\* order they were stored.
View == IF snap = NoTransaction THEN Len(table) ELSE snap

AtMost(n, s) == SubSeq(s, 1, IF Len(s) < n THEN Len(s) ELSE n)

Backwards(s) == [i \in 1 .. Len(s) |-> s[Len(s) + 1 - i]]

Stored == [i \in 1 .. View |-> [index |-> i - 1, time |-> table[i]]]

InTimeOrder(s) == \A i, j \in DOMAIN s : i < j => s[i].time <= s[j].time

\* Mutant: the rows are left as they came.
Sortings_AsFetched(rows) == {rows}

\* sorted: by time, and rows of one time by their readings.
Sortings(rows) ==
  {s \in {[i \in DOMAIN rows |-> rows[p[i]]] : p \in Bijection(DOMAIN rows, DOMAIN rows)} :
     InTimeOrder(s)}

\* The rows at the places of S, in the order they were stored.
RowsAt(S) ==
  [i \in 1 .. Cardinality(S) |->
     Stored[CHOOSE k \in S : Cardinality({j \in S : j <= k}) = i]]

After(t) == AtMost(Ahead, RowsAt({i \in 1 .. View : table[i] > t}))

\* The n rows at the places of S, or all, that a LIMIT may leave when the
\* latest come first: which of several of one time go is not said.
Limited(S, n) ==
  {RowsAt(K) : K \in {K \in SUBSET S :
                        /\ Cardinality(K) = IF Cardinality(S) < n THEN Cardinality(S) ELSE n
                        /\ \A i \in K, j \in S \ K : table[j] <= table[i]}}

\* Mutant: the oldest rows before t, not the nearest.
Before_Ascending(t, n) ==
  {AtMost(Ahead + Behind - n, RowsAt({i \in 1 .. View : table[i] < t}))}

\* "order by time desc limit 7 - num"
Before(t, n) == Limited({i \in 1 .. View : table[i] < t}, Ahead + Behind - n)

\* Mutant: the row before the one asked for is left out.
Below_Exclusive(n) ==
  AtMost(Behind, RowsAt({i \in 1 .. View : i - 1 \in (n - Behind) .. (n - 2)}))

\* "indexA BETWEEN n - 3 and n - 1"
Below(n) == AtMost(Behind, RowsAt({i \in 1 .. View : i - 1 \in (n - Behind) .. (n - 1)}))

FromIndex(n) == AtMost(Ahead, RowsAt({i \in 1 .. View : i - 1 >= n}))

FirstQuery(r) ==
  CASE r.scan = 1 -> AtMost(Latest, Backwards(Stored))
    [] r.scan = 2 -> After(r.key)
    [] r.scan = 3 -> <<CountRow(View)>>
    [] r.scan = 4 -> Backwards(Stored)
    [] r.scan = 5 -> Below(r.key)

\* The possible answers to the second query.
SecondQuery(r, n) == IF r.scan = 2 THEN Before(r.key, n) ELSE {FromIndex(r.key)}

\* Only scan5 keeps the order of the database.
Ordered(r, rows) == IF r.scan = 5 THEN {rows} ELSE Sortings(rows)
-----------------------------------------------------------------------------
\* The locals of the functions that have returned.
Forget(c) ==
  /\ req' = [req EXCEPT ![c] = None]
  /\ num' = [num EXCEPT ![c] = 0]
  /\ result' = [result EXCEPT ![c] = <<>>]
  /\ asked' = [asked EXCEPT ![c] = 0]
  /\ seen' = [seen EXCEPT ![c] = 0]

Goto(c, where) == pc' = [pc EXCEPT ![c] = where]

\* The collector stores a row, at any time: the phone may set its clock back.
StoreRow ==
  /\ Len(table) < MaxRows
  /\ \E t \in Times : table' = Append(table, t)
  /\ UNCHANGED <<cur, snap, pc, req, num, result, reply, asked, seen, requests>>

\* binder takes a request; one it does not know is skipped.
Request(c) ==
  /\ pc[c] = "idle"
  /\ requests < MaxRequests
  /\ \E r \in Requests : req' = [req EXCEPT ![c] = r]
  /\ Goto(c, "first")
  /\ requests' = requests + 1
  /\ asked' = [asked EXCEPT ![c] = Len(table)]
  /\ UNCHANGED <<table, cur, snap, num, result, reply, seen>>

\* The main loop accepts a connection: a thread for it.
Connect(c) ==
  /\ pc[c] = "closed"
  /\ Goto(c, "idle")
  /\ UNCHANGED <<table, cur, snap, req, num, result, reply, asked, seen, requests>>

\* A length of 0, an empty read or an exception: the thread ends.
Leave(c) ==
  /\ pc[c] = "idle"
  /\ Goto(c, "closed")
  /\ UNCHANGED <<table, cur, snap, req, num, result, reply, asked, seen, requests>>

ExecuteFirst(c) ==
  /\ pc[c] = "first"
  /\ cur' = FirstQuery(req[c])
  /\ num' = [num EXCEPT ![c] = Len(cur')]
  /\ snap' = View
  /\ seen' = [seen EXCEPT ![c] = View]
  /\ Goto(c, "fetch")
  /\ UNCHANGED <<table, req, result, reply, asked, requests>>

\* Mutant: data_count does not commit.
FetchFirst_CountOpen(c) ==
  /\ pc[c] = "fetch"
  /\ result' = [result EXCEPT ![c] = cur]
  /\ cur' = <<>>
  /\ snap' = IF req[c].scan \in {2, 5} THEN NoTransaction ELSE snap
  /\ Goto(c, IF req[c].scan \in {2, 5} THEN "second" ELSE "send")
  /\ UNCHANGED <<table, req, num, reply, asked, seen, requests>>

\* scan1 and scan4 commit only once the reply is made.
FetchFirst(c) ==
  /\ pc[c] = "fetch"
  /\ result' = [result EXCEPT ![c] = cur]
  /\ cur' = <<>>
  /\ snap' = IF req[c].scan \in {2, 3, 5} THEN NoTransaction ELSE snap
  /\ Goto(c, IF req[c].scan \in {2, 5} THEN "second" ELSE "send")
  /\ UNCHANGED <<table, req, num, reply, asked, seen, requests>>

\* Mutant: the second number replaces the first.
ExecuteSecond_NotAdded(c) ==
  /\ pc[c] = "second"
  /\ cur' \in SecondQuery(req[c], num[c])
  /\ num' = [num EXCEPT ![c] = Len(cur')]
  /\ snap' = View
  /\ Goto(c, "fetch2")
  /\ UNCHANGED <<table, req, result, reply, asked, seen, requests>>

\* Mutant: the second number is taken off the first, as in the limit.
ExecuteSecond_Subtracted(c) ==
  /\ pc[c] = "second"
  /\ cur' \in SecondQuery(req[c], num[c])
  /\ num' = [num EXCEPT ![c] = @ - Len(cur')]
  /\ snap' = View
  /\ Goto(c, "fetch2")
  /\ UNCHANGED <<table, req, result, reply, asked, seen, requests>>

ExecuteSecond(c) ==
  /\ pc[c] = "second"
  /\ cur' \in SecondQuery(req[c], num[c])
  /\ num' = [num EXCEPT ![c] = @ + Len(cur')]
  /\ snap' = View
  /\ Goto(c, "fetch2")
  /\ UNCHANGED <<table, req, result, reply, asked, seen, requests>>

FetchSecond(c) ==
  /\ pc[c] = "fetch2"
  /\ result' = [result EXCEPT ![c] = @ \o cur]
  /\ cur' = <<>>
  /\ Goto(c, "send")
  /\ UNCHANGED <<table, snap, req, num, reply, asked, seen, requests>>

\* A count among the rows has no v[1], and the exception comes before the
\* commit: the transaction stays open.
Printable(c) == req[c].scan = 3 \/ \A i \in DOMAIN result[c] : result[c][i].time >= 0

\* The commit that ends a search; data_count has had its own.
Commit(c) == snap' = IF req[c].scan = 3 THEN snap ELSE NoTransaction

Send(c) ==
  /\ pc[c] = "send"
  /\ Printable(c)
  /\ \E rows \in Ordered(req[c], result[c]) :
       reply' = [reply EXCEPT ![c] = [req   |-> req[c],
                                      num   |-> num[c],
                                      rows  |-> rows,
                                      asked |-> asked[c],
                                      seen  |-> seen[c]]]
  /\ Commit(c)
  /\ Forget(c)
  /\ Goto(c, "idle")
  /\ UNCHANGED <<table, cur, requests>>

\* The answer cannot be printed or the client is gone: the exception ends the
\* thread and closes the connection.
Fail(c) ==
  /\ pc[c] = "send"
  /\ IF Printable(c) THEN Commit(c) ELSE UNCHANGED snap
  /\ Forget(c)
  /\ Goto(c, "closed")
  /\ UNCHANGED <<table, cur, reply, requests>>

Serve(c) ==
  \/ ExecuteFirst(c)
  \/ FetchFirst(c)
  \/ ExecuteSecond(c)
  \/ FetchSecond(c)
  \/ Send(c)
  \/ Fail(c)

Next ==
  \/ StoreRow
  \/ \E c \in Clients : Connect(c) \/ Request(c) \/ Leave(c) \/ Serve(c)

Spec == Init /\ [][Next]_vars
-----------------------------------------------------------------------------
Indices(rows) == {rows[i].index : i \in DOMAIN rows}

\* The number in the first line of a reply is the number of the rows below it.
\* (A scan3 reply has no such line.)
HeaderCountsRows ==
  \A c \in Clients : reply[c].req.scan # 3 => reply[c].num = Len(reply[c].rows)

\* scan1 and scan4 give the newest rows of the table as the query found it,
\* none left out, none twice, and none before an earlier one.
LatestRows ==
  \A c \in Clients :
    LET rows == reply[c].rows  n == Len(rows)  s == reply[c].seen
    IN  reply[c].req.scan \in {1, 4} =>
          /\ n = IF reply[c].req.scan = 1 /\ s > Latest THEN Latest ELSE s
          /\ Indices(rows) = (s - n) .. (s - 1)
          /\ InTimeOrder(rows)

\* Around an index the table has, or is about to have, no row is left out,
\* though the two queries may see different tables.
WindowHasNoGap ==
  \A c \in Clients :
    LET rows == reply[c].rows  k == reply[c].req.key
    IN  reply[c].req.scan = 5 /\ k <= reply[c].seen =>
          /\ \A i \in 1 .. Len(rows) - 1 : rows[i + 1].index = rows[i].index + 1
          /\ k < reply[c].seen => k \in Indices(rows)

\* The rows were stored in the order of their times.
InOrder(T) == \A i, j \in 1 .. Len(T) : i <= j => T[i] <= T[j]

\* Around a time the rows come in the order of time, and none that there was
\* lies between an earlier one that is given and the time asked for, though
\* the second query may have to choose among rows of one time.  If the clock
\* has never gone back, no row of another time lies between two that are given,
\* though the two queries may see different tables; otherwise the rows after
\* the time need not be the nearest, for the first query asks for no order.
NeighboursOfTime ==
  \A c \in Clients :
    LET rows == reply[c].rows  t == reply[c].req.key
    IN  reply[c].req.scan = 2 =>
          /\ InTimeOrder(rows)
          /\ \A i \in Indices(rows), k \in 1 .. reply[c].seen :
               table[i + 1] < table[k] /\ table[k] < t => k - 1 \in Indices(rows)
          /\ InOrder(table) =>
               \A i, j \in Indices(rows), k \in DOMAIN table :
                 table[i + 1] < table[k] /\ table[k] < table[j + 1] /\ table[k] # t
                   => k - 1 \in Indices(rows)

\* A reply is not older than its request: no transaction is left open by an
\* earlier request for this one to read in.
RepliesAreFresh == \A c \in Clients : reply[c].seen >= reply[c].asked
=============================================================================
