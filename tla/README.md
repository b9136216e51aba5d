# A TLA+ model of LineProgram

LineProgram is the software of a small measuring station: three sensor boards
on a serial line, a Raspberry Pi that stores their readings in a MySQL table, a
phone reached over a BLE serial bridge, a BLE relay that answers phones out of the
table, and a touch-screen client; the last two read the table through a TCP server. This directory holds TLA+ modules translated from
that code, the TLC configurations that check them, and TLAPS proofs.

## 1. The system

| component | code | state it keeps | operations | modules |
|---|---|---|---|---|
| Round collector | `Serial.py`: `parsing_data`, `UpdateDBData`, `data_count` (`timeoutThread` is never started) | `setFlagT1..3`, `valueT1..3`, `timeout_enable_flag`, `TimeoutCnt`, the table `data` | take a reading, count, insert, push, reset | `RoundLog`, `Collector`, `CollectorProofs` |
| Sensor link | `Serial.py`: `readThread_U1`, head of `parsing_data` | `line`, `stxFlag` | read a byte, parse a line | `SensorLink`, `MCSensorLink`, `LinkProofs` |
| Phone service | `Serial.py`: `BLEreadThread_U1`, `BLEparsing_data` | `Phonenum`, `BLEnum`, `BLEFlag`, `BLEresult`, `sedD` | commands 1 to 6 | `BleSync` |
| Station | `Serial.py`, its two threads | the cursor `cur`, the connection `con`, `sedD` | interleaving of the two | `Station`, `StationProofs` |
| Table server | `ReadDB.py` | `cur`, `conn`, each thread's request | `scan1` to `scan5` | `ReadServer`, `ServerProofs` |
| Packet parser | `Parser/ChrisHost_DCComm.c` | the struct `DCComm` | parser, checksum, state control | `DCCommParser`, `DCCommProofs` |
| BLE relay | `rr.py` | `notifying`, the request being served | StartNotify, StopNotify, WriteValue, exit, restart | `BleRelay`, `MCBleRelay`, `RelayProofs` |
| GATT database | `source/bluez-5.50/src/gatt-database.c`, `shared/gatt-db.c`, `shared/gatt-server.c` | device states, `ntfy_cnt`, pending writes | subscribe, write, time out, notify, lose a link or the application | `GattDatabase` |
| Qt client | `QT/ConnectEvent.cpp` | the socket of a request, `val1122`, `isTrans` | fetch latest rows, a window, all rows | `TableClient` |
| Trend view | `QT/main.qml` | touch state, rows shown, index, list position | press, drag, release, current, SCAN, UP, DOWN, timer | `TrendView`, `ViewProofs` |
| Threshold and clock pages | `QT/main.qml`, `QT/setting.qml` | two numbers typed in | keypad | none |
| Request thread | `Serial.py` 218-254 | `sedD` | poll the sensors (never started) | none |
| Older variants | `SerialToDB/`, `AAA.py` | as above | as above | none |
| Vendored code | the rest of BlueZ, example scripts, build output | | | none |

How they interact:

* **Sensors → collector.** Frames `44 00 05 30 <sensor> <hi> <lo> <sum> 43` over
  a serial line. Nothing in a frame is escaped. A *round* collects one reading per
  sensor; it is stored as a row when all three have reported, or when one reports
  again.
* **Collector → table.** `UpdateDBData` counts the rows, inserts one with that
  count as its index, and commits.
* **Collector → phone.** Each stored row is written to the BLE port at once (the
  *live* frame). The phone fetches the rows it missed with commands 4, 5 and 6.
* **Collector ∥ phone service.** Two threads, with one database connection, one
  cursor and one reply list `sedD`, and no lock.
* **Table → table server → clients.** One thread per client; again one connection
  and one cursor. The relay and the Qt client are such clients.
* **Phone → bluetoothd → relay.** A phone subscribes to one characteristic and writes to
  another. bluetoothd keeps who has subscribed, gives each write five seconds, and tells
  the relay over D-Bus. The relay serves one call at a time, blocking in the table
  server's reply, and answers by notifications in two parts.
* **Trend view → Qt client → table server.** A timer fetches the latest rows every
  300 ms; a drag fetches the window around an index; the list page fetches all rows. The
  client blocks the one thread of the program until the reply is there or a wait of ten
  seconds has run out.

What is hard here: two threads on one cursor and one list; uncaught exceptions
that end a thread between two assignments; framing without escapes; a timeout
whose thread is not started; a transfer that goes on while new rows arrive; two
queries that see different tables; a parser that is not set back; a relay that stands
still while phones subscribe, time out and go away; a chart whose live rows, window and
drag index are three variables. `PROJECT.json`
lists these hazards at their lines with the properties that cover them.

What makes each component correct:

* collector — each row is exactly one closed round, numbered by its position and
  pushed once; complete rounds are stored; open rounds are closed eventually;
* sensor link — the table is what the frames sent make of it; no row holds a
  value that was not sent; the reader survives any input;
* phone service — the phone gets exactly the rows it lacks, in order, as many as it was
  told; nothing is missed between transfer and live frames and next to nothing comes twice;
  no phone's command ends the thread;
* table server — the head of a reply counts its rows; windows have no gaps;
  replies are not older than their requests; each request comes to an end;
* packet parser — its index follows the packet and stays in the buffer where the packet fits;
  packets are taken whole and acted on if and only if genuine;
* relay and GATT database — the count of subscribers is right and the relay knows it; a
  confirmed request has been answered in full; no request keeps the relay for good;
* Qt client and trend view — what is shown is a whole reply; the index of a drag stays
  with the rows on the chart; the list shows the row at its position; a chart left alone
  catches up.

## 2. The modules

**Steps.** In the Python modules a step is the code between two calls that leave
the interpreter: a database round trip, a write to a port, a read, a sleep. In
between a thread could be preempted too, but what it touches there is used by
no other thread that is started, except `sedD`, `cur` and `con`; their uses are steps of
their own in `Station` and `ReadServer`. (The round's flags and values are also used by
`timeoutThread`, which never runs. Were it started, `FirstReading` and `ResetRound` could
not be single steps.) In the C modules a step is a call of one of the two
functions, which run in one thread.

**RoundLog** is the abstract specification: readings join an open round, a repeated
reading makes it due, `Close` turns a complete or due round into a row. It has no
threads, flags, frames or exceptions.

**Collector** has the code's globals as variables. `FirstReading` and
`RepeatedReading` are the two branches of `parsing_data` for a sensor (its three
copies for T1..T3 are one, with the sensor as argument). `UpdateDBData` is four
steps: `CountRows`, `InsertRow`, `PushRow`, `ResetRound`. `DbRaises` is an exception of the
database before the row is stored, `CommitRaises` one after, `PushRaises` the `ValueError` of
the serial library for a digit above 255; all end the thread, as no loop catches them.
`TimeoutCnt` is set and counted by nobody. The refinement mapping
is in `OpenRound` and `RoundDue`: the round is gone when its row is in, though its flags
go down two steps later.

**SensorLink** extends Collector by the bytes: `wire` is what is sent and not read,
`line` and `stxFlag` the framer's state. `ReadByte` is one turn of
`readThread_U1`'s inner loop, with the parser call in it: `TooShort`, `NotAReading`,
`Truncated` and `Reading` are what `parsing_data` does with a line, sorted by where it
runs out of bytes. A sensor sends when the wire is empty; the wire is a queue that is
read one byte at a time, so a second frame behind the first would be read no
differently. The reader may start between two frames or within one (`Heads`); a sensor's number
is neither 43 nor 44, as the three numbers are 0, 1 and 2. `Rounds` is the reference: the
rows that a sequence of frames makes, computed from the frames one by one. `MCSensorLink`
gives the sets of frames.

**BleSync** is the phone thread. A row is its position in the table. `Take` begins a
command; `AskForRows`, `Select`, `Fetch`, `Build`, `FinishReply` are command 4;
`StartTransfer`, `SkipRow`, `BeginRow`, `FinishRow`, `EndTransfer` command 5 with its loop;
`AskForSingle`, `Build`, `FinishSingle` command 6. `sedD` is TRUE while the global list
still holds the head of the reply being built. `announced` is a history of the
number command 4 has sent. Rows in `oversized` have a reading of 25600 or more: `WriteRaises` is
what their transfer does to the thread. The phone is not part of the repository: it
sends any command at any time. **Station** composes it with the reader, seen from its
database calls (`AddRow`, `PushRow`, `PushRaises`), and lets the variable `interleave`, one of
`Interleavings` for good, choose which uses of shared globals the other thread may come
between: `"cursor"`, `"buffer"`, `"connection"`. The program excludes none; the smaller sets isolate
what each of them breaks. What happens when both threads are in a round trip on the
connection, the commits included, pymysql does not say. `Collide` is an exception in one of
them or both, the row of an insert stored or not; `SwapAnswers` is that each reads the
other's answer whole.

**ReadServer** has one binder thread per client. `snap` is the snapshot of the open
transaction: MySQL's default isolation level lets all queries up to the next commit see
the rows there were at the first. `data_read` and `data_read_all` commit after
formatting, the others after fetching as well. `Fail` is an exception between the queries and the
reply: the client is gone, or the answer belongs to another thread's query and cannot be
formatted, in which case the transaction stays open. Two calls in flight at once are left
out. `StoreRow` stores a row of any time: the phone sets the clock (`Serial.py:386-387`), so
times need not grow. The rows a query selects are a set of places in the table, which
`RowsAt` puts in order.

**GattDatabase** is the part of bluetoothd the relay rests on. `ccc` is the set of phones
whose device state has notifications on, connected or, when bonded, away; `ntfyCnt` is the
count the characteristic keeps. `toApp` and `fromApp` are the D-Bus messages under way,
each in order. `EnableNotify` and `DisableNotify` are `gatt_ccc_write_cb` with its callback
`ccc_write_cb`, `Disconnect` is `att_disconnected`, `ServiceRemoved` what follows when the
application's name leaves the bus. A write gets a number and a timer; the first of
`WriteReply`, `WriteTimeout`, `Disconnect` and `ServiceRemoved` ends it. `heard` and
`listening` are histories. **BleRelay** composes it with `rr.py`: `SetNotifying` and
`IgnoreValue` are calls that return at once, `WriteValue`, `SendRequest`, `FirstPart` and
`SecondPart` the places where the one thread can stand in a request; `Exit` ends the
process anywhere and `Restart` registers it again (in one step: nothing can be subscribed
to or written before). The table server appears as what it does to the relay: it refuses,
hangs up, answers with some length, or, for a request it does not know, stays silent.
`MCBleRelay` gives each phone its link size.

**TableClient** is one request of `ConnectEvent`, the same for all three but for what is
sent: `Ask`, `Connected`, `ReadLength`, then `Complete` or `GiveUp`. `ServerAnswers` takes the
reply from the table as it is at that moment and `LineArrives` lets it come in; `ReadLength`
may come before both, as the code does not look at the result of its first wait. A row is
its index, as all properties are about which rows are shown; the two requests whose rows the
server sorts by time give them in the order of indices, which supposes that times grow with
the index, as they do unless the clock is set back. `Digits` is the four digits
an index is sent as, `Decoded` the sum of chars a length is read from. **TrendView** extends
it by `main.qml`: `Nudge` and `Browse` are `onPositionChanged` without and with a request,
`Release` is `onReleased`; a handler that asks the client goes on in `WindowReturns` or
`ListReturns`, and since the thread is the only one, no other handler runs in between
(`Event` and `Timer` need `pcC = "idle"`). Distances are in steps of 66 pixels. `NaN` stands for
what JavaScript makes of an element an array does not have.

**DCCommParser** has `DCComm_Recv_MSG_Parser` as the disjunction `Parse`, one disjunct per
branch, and `DCComm_Recv_State_Control` as `Control`, one per return value. `since` is
a history of the bytes from the 44 on. `late` is a history that tells whether bytes have
come since the end of the packet that state control has yet to act on. Nothing checks the
length of a packet, in the code or in the model. Behind the buffer the C code stores
into members of `DCComm` that neither function reads and then into memory that is not its own;
`Store` leaves the buffer as it is then, and a checksum that reads from there is arbitrary
(`ChkCSum` is the set of what it may return, `Summed` the lengths that are summed inside).
A length of 0 counts down from `UINT_MAX`.

Operators named `<Action>_<Change>` are mutants: faulty variants of the action that
follows them, used to show that a property depends on the code it is about. No
specification uses them.

## 3. What the runs show

| run | properties | shows |
|---|---|---|
| `Collector_shipped` | `TypeOK`, `IndexIsPosition`, `PushedRowsMatch`, `Inv`, `AbstractSpec`, `CompleteRoundIsStored` | the collector as started implements `RoundLog`, with database errors at any call and values up to 25755, beyond what a frame can carry |
| `Collector_timeout` | `OpenRoundCloses`, *violated* | a round with a silent sensor stays open for ever |
| `SensorLink` | `LinkTypeOK`, `TableIsRoundsOfFrames`, `CleanLinkIsCollector`, `StoredReadingsGenuine` | while no frame has a 43 or 44 inside, the byte level implements `Collector` and the table is the one the frames make; when one has, no value is stored that was not sent |
| `SensorLink_survives` | `ReaderKeepsRunning`, *violated* | a well-formed frame with a 43 or 44 inside ends the reader |
| `Station` | `StationTypeOK`, `RowsFollowAsked`, `ApartLackedIsSent`, `NothingMissed`, `PushedTwiceIsNewest`, `PhoneThreadSurvives`, `TransferAscends`, `IndexIsPosition` | with all interleavings and with none: no transfer repeats a row or turns back, no row is stored under a wrong index however the threads interleave; while they keep apart the phone gets exactly the rows it lacks, misses only a row the reader died of, gets at most the newest twice, and only an oversized row or a command 6 too early ends the phone thread |
| `Station_cursor` | `LackedIsSent`, *violated* | what is lost when the reader uses the cursor between execute and fetchall |
| `ReadServer_alone` | `TypeOK`, `HeaderCountsRows`, `LatestRows`, `WindowHasNoGap`, `NeighboursOfTime`, `RepliesAreFresh` | the five replies, rows being stored between the queries and at times that go back |
| `ReadServer_mixed` | `HeaderCountsRows`, *violated* | two clients on one cursor: a reply is headed with a number that is not that of its rows |
| `DCCommParser_packets` | `TypeOK`, `IndexFollowsState`, `PacketIsTaken`, `ActsOnGenuinePackets`, `GenuinePacketsAnswered` | any lengths, state control in time or late: packets are taken whole and acted on if and only if genuine; the index leaves the buffer in packets that do not fit only |
| `DCCommParser_stuck` | `FinishedByPackets`, *violated* | a failed packet is finished by a later 43 |
| `BleRelay` | `RelayTypeOK`, `NotifyCountsSubscribers`, `NotifyingCatchesUp`, `AnswerArrivesWhole`, `StandsOnlyOverShort` | subscriptions, requests, timeouts, links lost and a relay stopped and started, in any order |
| `TrendView` | `ViewTypeOK`, `ReplyIsWhole`, `IndexStaysInView`, `ListedAtPosition`, `CatchesUp` | drags, releases and list pages in any order, while rows are stored, replies come in slowly and requests fail |

More divergences were met and have no run of their own. The same configurations show those
for which constants or a property are named, when these are changed as said:

* A reader started while a frame is on the wire dies at its 43, which comes before any 44
  (`SensorLink_survives` with `Heads <- AnyTail`).
* With `Interleavings = {{"buffer"}}` in `Station_cursor`, `LackedIsSent` is violated too: a sensor
  frame empties `sedD` while a reply is built, and the row goes out without its head.
* Command 6 before the first command 4 uses `BLEresult`, which nothing has assigned: a
  `NameError` ends the phone thread (`AskForSingle`, `pcB = "died"`).
* A row with a reading of 25600 or more is stored before its push ends the reader
  (`PushRaises`). It stays in the table and ends the phone thread whenever a transfer reaches
  it (`WriteRaises`); after each restart a phone gets the rows before it and no more. The framer
  passes readings up to 25755.
* A phone that sends command 4 while the flag of its last transfer is still up is told of 0
  rows; after command 1 and command 5 it gets them all the same. `ApartLackedIsSent` allows for it.
* A row stored and not yet pushed when command 4 fetches it reaches the phone twice, as the
  frames of lines 87-116 and 463-489 carry no index. `PushedTwiceIsNewest` says that it is the
  only one.
* When the phone has set the clock back (`Serial.py:386-387`), the rows `scan2` gives after a
  time need not be the nearest: `LIMIT` at `ReadDB.py:90` goes with no `ORDER BY`. With rows at 5, 9,
  6, 7 and 8, a request for 4 leaves out 8 and gives 9. `NeighboursOfTime` therefore claims the
  rows before the time for any clock, and those after it for a clock that never went back.
* A packet with a length of 0 does not end, and one longer than the buffer is stored behind it
  (`ChrisHost_DCComm.c:78-84`): `IndexFollowsState` says that it takes such a packet to do so. State control
  that comes late may act on a mix of two packets (112-114).
* With two clients, `RepliesAreFresh` is violated in `ReadServer`: a query made inside a transaction
  that another thread has not committed yet does not see the rows stored since.
* The last row of a `scan1` reply need not be the newest: rows of one second are put in the
  order of their values (`sorted`, `ReadDB.py:152`). `LatestRows` asks for the right rows
  in the order of time only.
* An answer of 0, 100 or 101 bytes makes `rr.py` raise an exception, since D-Bus has no type
  for an empty list; in the last two cases the answer was notified before (`SecondPart`).
  The phone is told that its write failed.
* A notification is cut to the link's MTU (`gatt-server.c:1641`). On links that do not carry
  the parts their ends are lost: without `Fits`, `AnswerArrivesWhole` is violated.
* A request of `scan2` or `scan5` without the two bytes the relay cuts off is one the server
  does not know; it does not answer and the relay waits for ever, and every phone with it
  until its timer fires. `StandsOnlyOverShort` shows that nothing else keeps the relay for good.
* The length of a reply is added up from chars. Where char is signed (`CharSigned = TRUE`, a
  desktop build) a length with a byte above 127 comes out too small and a reply may be taken
  before it is whole. On the board char is unsigned (`__CHAR_UNSIGNED__` in
  `build-Line_Program-Desktop-Debug/moc_predefs.h:75`).
* An index of 10000 or more is sent as its last four digits (`ConnectEvent.cpp:134`): the
  window is another one.
* A press with a move to the left of less than a step, or a tap after a drag to the left,
  sets `touchedIndex` to 1 on a live chart (`main.qml:169-172`), and the next drag begins at the
  oldest rows, whichever way it goes. A drag that turns round counts the steps it has made
  in the direction it ends in (178-216). `IndexStaysInView` is therefore about drags to the left.
* SCAN while the chart is browsed does not fetch (`isTrans`) and shows what the last call
  left in `val1122`, a window or an older list, as the list. On an empty table the line with
  the number of rows is taken for a row.
* The difference of the two rows picked is computed when the second button's row is accepted
  and not when the first one's is (`main.qml:1176`). Labels are not modelled.

**Bounds.** `MaxRows`, `MaxFrames`, `MaxCommands`, `MaxRequests` and `MaxSince` bound the
length of a run; `SensorLink` needs `MaxFrames <= MaxRows`, so that the bound on rows never
stops a reader that has a frame to store.

* Collector: 3 sensors as in the code, 3 rows (2 in `Collector_timeout`), `MaximumTimeout` 2
  for 30000. A round depends on the one before only through the reset, so two rounds in
  a row show every dependence, and a third shows that the second's reset is no worse
  than the first's. The values are 0 (same as silent), one with two different digits and one that
  cannot be sent.
* SensorLink: 6 frames are two full rounds, or a full round and a torn one. The dirty frames have 43 and 44 as high byte, as low byte and as checksum; the
  reader starts at every byte of a frame.
* Station: 3 rows, any of them oversized, and 5 commands are enough for a phone that has some,
  none and too many, for a transfer, a row stored during it, a second request and a repeat, and
  for the sequence 4, 5, 4, 1, 5 that sends rows after announcing 0.
* ReadServer: 4 rows, windows of 1 ahead and 2 behind and 3 latest rows in place of 4, 3 and
  7: the table reaches beyond each window on both sides. Three times of rows, in any order, so
  that rows may share one, and two times asked for, between them and after
  them. Two requests, by one thread or by two after each other.
* BleRelay: two phones, bonded with a large link and not bonded with a small one; 2 writes,
  so that a late answer meets the next request; 3 calls queued; answers of no byte, one
  part, the two lengths that go wrong (`Chunk` and `Chunk + 1`), and two parts; one exit and
  restart. A notification goes to all subscribers alike, so a third phone adds no case.
* TrendView: 5 rows, 3 latest, windows of 1 before and 2 from the index on, drags of up to 2
  steps, 4 user events: two drags that browse, or a drag and a list page with a fetch and a
  move. `Wrap` 4 and `Base` 8 stand for 10000 and 256, so that indices wrap; one request fails.
  The timer is not bounded.
* DCCommParser: a buffer of 6 bytes, in which packets of length 1 to 3 fit. The alphabet is 43,
  44, 255 (so that sums overflow), 0, 1 and 3, which are lengths, opcodes and sync bytes; as lengths, 0, 43, 44 and 255 do not fit. `MaxSince` bounds the
  bytes of one packet to 8, which lead behind the buffer; the number of packets is not bounded.

**Fairness.** `Collector!FairSpec`: the thread goes on with `UpdateDBData`. Sensors owe nothing:
there is no fairness on `Arrival`. `Station`: both threads finish what they have begun (the cursor is
never held for long by the other); neither the phone nor the sensors have to send. (Its properties are safety and do not
rest on that.) All of it
is weak fairness: the operating system runs runnable threads. `BleRelay`: the relay goes on with what is
there for it (a call, a connection, an answer); that bluetoothd delivers anything or times anything
out is not needed, and phones, exits and restarts are not assumed, nor that the table server
knows the request. `TrendView`: the timer fires again whenever the thread is free
(`timer->start(300)`), and a call comes to its end, since each of its waits has a timeout; the
user owes nothing. The other modules need none.

`CHECK_DEADLOCK FALSE` is set where the bound or a dead thread ends the run.

## 4. What is proved

Every safety property and every action property that a passing run checks, and the
refinement of `RoundLog`, is a theorem as well: the run shows it on a small instance, the
theorem for every value of the constants. All proofs have the same shape. The property is
seldom inductive; the module states the inductive invariant (`...Inv`), TLC has checked it on
the run's instance, one lemma per action or per conjunct shows that a step keeps it,
and the theorems follow. Action properties follow from the invariant in the state before
the step.

`CollectorProofs`, for any set of sensors, any values and any timeout:

* `TypeCorrect`: `Spec => []TypeOK`.
* `InvCorrect`, `IndexCorrect`, `PushCorrect`: `Inv`, `IndexIsPosition` and `PushedRowsMatch`. The last two
  are not inductive: `Inv` adds that the count taken is still the length of the table when the
  row goes in, that silent sensors hold 0, and that the row stored last holds the values about
  to be pushed. `TypeOK /\ Inv` is preserved action by action (`NextInv`).
* `Refinement`: `Spec => AbstractSpec`. `InsertRow` and `CommitRaises` are the steps that
  implement `RoundLog!Close`; `ResetRound` and `PushRow` stutter because the mapping takes the
  round for closed once its row is stored.

`LinkProofs`, for any sensors whose numbers are not 43 or 44, any frames, and any start of
the reader:

* `LinkInvCorrect`, with `LinkTypeCorrect`, `GenuineCorrect`, `LinkIndexCorrect`: `LinkInv`. Its
  centre is `WireInv`: what is on the wire is the end of one frame `f`, and the line is either
  all of `f` read so far (`Whole`) or a stump of it too short to be a reading (`Stump`). A
  reading is therefore made of whole frames only, or ends the reader before it could be
  stored; that the open round holds sent values only (`HeldGenuine`) is needed for the rows.
  Nothing is assumed of the bytes of a frame.
* `CleanLinkCorrect`: while frames are clean, a step of the byte level is a step of `Collector`
  or leaves it alone. `CleanInv` adds that there is a frame
  for each row, so that the bound on rows is never what stops the reader.
* `TableCorrect`: the table is `Rounds` of the frames read (`TableInv`).
  This is an induction over the frames, carried by `RoundsOfMore`: the rounds of one frame more are
  those of the frames before, and that frame offered to them.

`StationProofs`, for any numbers of rows and commands and any set of `Interleavings`:

* `StationInvCorrect`, with a theorem for each property of the run: `StationTypeCorrect`,
  `RowsFollowCorrect`, `LackedIsSentCorrect`, `NothingMissedCorrect`, `PushedTwiceCorrect`, `PhoneSurvivesCorrect`,
  `TransferAscendsCorrect`, `IndexCorrect`. `StationInv` says by the place of each thread what
  it has fetched (`ResultInv`, `ReaderInv`), that no row sent is ahead of `Phonenum` (`GotInv`), and,
  while the threads keep apart, how `Phonenum`, the rows asked for, fetched, announced, sent and
  pushed since fit together (`ApartInv`). `TransferAscends` and `IndexIsPosition` need no more than the first
  three, and so hold however the threads interleave; what the
  reader takes for its count is the count, which only its own rows can make wrong, or is no
  number, which the database refuses.

`ServerProofs`, for any windows, times and tables:

* `TypeCorrect`: the types, for any number of clients.
* `HeaderCorrect`, `FreshCorrect`, `LatestCorrect`, `WindowCorrect`, `NeighboursCorrect`, with
  one client (`OneClient`; with two, `ReadServer_mixed` shows that replies get mixed up).
  `ServeInv` says by the place of the thread how many rows it has and that no
  transaction is open between two searches. The last three add what the rows are: the
  newest of what the query saw (`LatestInv`), a run around the index (`WindowInv`, if `Ahead > 0`), the rows next to
  the time on both sides (`AroundInv`), though the table has grown between the queries. Nothing is
  assumed of the clock; what `NeighboursOfTime` claims for rows in the order of time is proved for
  those tables. Lemmas about
  ranks (`Rank`, `Place`) tell which rows the limit of a query leaves out.

`DCCommProofs`, for every buffer size above 4, any bytes and any lengths, state control being called
at any time:

* `TypeCorrect`, `IndexCorrect`: the types, and that index and counter follow the state, so that the
  index is in the buffer in every packet that fits. The two are proved together: that the counter does not
  run below 0 and wraps for length 0 only follows from its relation to the length byte in the buffer.
* `PacketCorrect`, `AnsweredCorrect`: a packet is taken whole, and none that is genuine and known is
  turned away. `SinceInv` says by the state how many bytes there were since the 44 and that the
  buffer holds them up to the checksum; a parser that waits for its 43 has not seen one since
  the checksum, so its bytes so far are no packet.
* `ActsCorrect`: what state control acts on in time, before further bytes come, is genuine (debug mode
  apart). `SumsAgree` shows that the 8-bit sum of `DCComm_Chk_CSum` is the sum modulo 256, for packets
  of any length that is summed inside the buffer.

`RelayProofs`, for any phones (finitely or infinitely many), link sizes, requests and lengths of
answers:

* `RelayTypeCorrect`, `CountCorrect`, `CatchesUpCorrect`: `RelayInv` adds to the properties that
  the phones subscribed are finitely many (`CountInv`), that the message that the relay has
  gone is the last it leaves behind (`GoneIsLast`), and that a relay off the bus has nothing to
  read (`DownIsEmpty`). Without the second, what an old relay has left behind could be counted for
  a new one.
* `AnswerCorrect`: `AnswersInv` says where the two parts of an answer are: in the
  queue before the success of its write, heard by the phone already, or one of each.

`ViewProofs`, for any sizes of windows, tables and drags:

* `ViewTypeCorrect`, `WholeCorrect`: `ViewInv` says how much of a reply is read and that what was handed
  on are rows that follow each other. `Wrap` and `Base` may be anything `SizesAssumption` allows.
* `ListedCorrect`, if `Base > 3` (256 in the code): the length of an empty reply is then read as it is
  even where char is signed.
* `InViewCorrect`, if `Ahead > 1` (4 in the code): a drag to the left that starts without an index
  asks for row 0 and ends at row 1, which a window of one row would not have.

`LeastNumber` holds the one lemma behind all inductions over data: a set of numbers has a least one.
The library's induction theorems take an operator as parameter, which the provers
cannot instantiate; so a claim about a recursive function (`Rounds`, `CSum`, `PacketSum`, the
ranks of `ServerProofs`) is proved by taking the least number for which it fails. That such a
function has a value at all is shown the same way (`RunExists`, `SumExists`).

## 5. What is only model-checked

Liveness (`CompleteRoundIsStored`, `StandsOnlyOverShort`,
`CatchesUp`): the prover does not do fairness arguments. The five properties that runs show to be violated
are counterexamples and stay with TLC.

## 6. What is not modelled

* The date and time in rows and frames, and their formatting; the printing.
* Damaged bytes on the serial line: checksums of readings are never looked at, so nothing
  could be said of the values stored.
* Short reads of `recv` in `ReadDB.py`, and the restart of the accept loop after an exception.
* `main` of the packet parser, which gives the parser a 44 and the bytes of its argument and then
  calls state control once.
* Two database calls in flight on one connection in `ReadServer`; in `Station` they are
  the actions `Collide` and `SwapAnswers`, which leave out answers torn in any other way.
* `timeoutThread`, which is never started.
* What the packet parser does to the memory behind its buffer, and the end of the process that
  may follow.
* In `GattDatabase`: reads, prepared writes, indications and acquired sockets, which the
  relay's service does not offer; unpairing a phone; the limit of `UINT_MAX` subscriptions;
  D-Bus error replies for a name that has left the bus (the writes they are for are refused
  by `ServiceRemoved`).
* In `TrendView`: labels, colours, drawing, and the values of the two rows picked.
* The components marked "none" in the table. `RequestThread` is never started. The older
  variants have the structure of the ones modelled. The threshold pages are keypads that
  write numbers nothing but the drawing reads.
* Vendored and generated code. Nearly all of the repository's C and C++ is a complete source
  tree of BlueZ 5.50 and `qrc_qml.cpp` files that a build generated; the project's own code is
  some 4000 lines of Python, C, C++ and QML. A model of the station covers a very small share
  of the repository's lines by necessity: of BlueZ, what the station uses is the GATT
  database above; the rest is profiles, tools and tests that it never runs.

Assumptions on what is outside the code: the database gives rows in the order of insertion
where no ORDER BY is given, refuses an index that is not a number, and runs at its default
isolation level with autocommit off; the serial ports deliver bytes in order; D-Bus keeps
the order of messages in each direction and reports a name that left the bus after what
it had sent.

## 7. Plan

Done: `RoundLog`, `Collector`, `SensorLink`, `BleSync`, `Station`, `ReadServer`, `DCCommParser`,
`GattDatabase`, `BleRelay`, `TableClient`, `TrendView`, and the proofs of all their safety and
action properties.

Next:

1. What liveness rests on, as far as it is safety: that a thread between two steps of
   `UpdateDBData`, a transfer or a request always has a step to take.
2. `ReadServer` with several clients whose requests do not overlap, in place of `OneClient`.
