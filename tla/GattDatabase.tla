---------------------------- MODULE GattDatabase ----------------------------
(***************************************************************************)
(* The part of bluetoothd (gatt-database.c and shared/gatt-db.c of the     *)
(* BlueZ in the repository) that stands between phones and an application  *)
(* that offers a service over D-Bus: who has switched notifications on,    *)
(* how the application is told, writes waiting for its answer, and what    *)
(* happens when a phone or the application goes away.                      *)
(*                                                                         *)
(* The service has one characteristic that notifies and one that is        *)
(* written.  D-Bus keeps the order of messages in each direction: toApp    *)
(* and fromApp.  Left out: reads, prepared writes and indications, which   *)
(* the service does not offer; forgetting a bonded phone; the limit of     *)
(* UINT_MAX on ntfyCnt; and a write's entry in the queues of a link that   *)
(* is gone, which nothing looks for any more.                              *)
(***************************************************************************)
EXTENDS Integers, Sequences, FiniteSets

CONSTANTS Phones,
          Bonded,     \* the phones that are paired
          Payload,    \* per phone, the bytes of a notification (MTU - 3)
          Requests,   \* what phones write
          MaxWrites,  \* bound: the writes of all phones
          MaxCalls    \* bound: phones wait while so many calls are queued

ASSUME BondedAssumption  == Bonded \subseteq Phones
ASSUME PayloadAssumption == Payload \in [Phones -> Nat]
ASSUME BoundsAssumption  == MaxWrites \in Nat /\ MaxCalls \in Nat

VARIABLES
  connected,   \* the phones with a link
  ccc,         \* the phones whose device state has notifications on
  ntfyCnt,     \* the count the characteristic keeps of them
  registered,  \* the service is in the database
  appUp,       \* the application is on the bus
  toApp,       \* calls to the application
  fromApp,     \* its signals and replies
  writeId,     \* the number of the last write
  pending,     \* per phone, the write it has no response to, or NoWrite
  heard,       \* history: the last two notifications it got meanwhile
  listening    \* history: it has had notifications on all that time

busVars     == <<toApp, fromApp>>
cccVars     == <<ccc, ntfyCnt>>
writeVars   == <<writeId, pending>>
heardVars   == <<heard, listening>>
gattVars    == <<connected, cccVars, registered, appUp, busVars, writeVars, heardVars>>

NoWrite == [id |-> 0, req |-> "none"]

\* A part of the answer to a write: its bytes "from" to "to" out of "of".
Part(id, from, to, of) == [id |-> id, from |-> from, to |-> to, of |-> of]

GattTypeOK ==
  /\ connected \subseteq Phones
  /\ ccc \subseteq Phones
  /\ ntfyCnt \in Nat
  /\ registered \in BOOLEAN /\ appUp \in BOOLEAN
  /\ writeId \in 0 .. MaxWrites
  /\ pending \in [Phones -> {NoWrite} \cup [id : 1 .. MaxWrites, req : Requests]]
  /\ \A p \in Phones : pending[p] # NoWrite => p \in connected
  /\ \A p \in Phones : Len(heard[p]) <= 2
  /\ listening \in [Phones -> BOOLEAN]

GattInit ==
  /\ connected = {} /\ ccc = {} /\ ntfyCnt = 0
  /\ registered = TRUE /\ appUp = TRUE
  /\ toApp = <<>> /\ fromApp = <<>>
  /\ writeId = 0
  /\ pending = [p \in Phones |-> NoWrite]
  /\ heard = [p \in Phones |-> <<>>]
  /\ listening = [p \in Phones |-> FALSE]
-----------------------------------------------------------------------------
\* A call on a name that has left the bus goes nowhere.
Call(msg) == toApp' = IF appUp THEN Append(toApp, msg) ELSE toApp

Method(name) == [kind |-> name, id |-> 0, req |-> "none"]

RoomForCalls == Len(toApp) < MaxCalls

\* ccc_write_cb, notifications off: the application is told when the last
\* one goes.
CountDown ==
  /\ ntfyCnt' = IF ntfyCnt = 0 THEN 0 ELSE ntfyCnt - 1
  /\ IF ntfyCnt = 1 THEN Call(Method("StopNotify")) ELSE UNCHANGED toApp

\* ccc_write_cb, notifications on: the application is told every time.
CountUp ==
  /\ ntfyCnt' = ntfyCnt + 1
  /\ Call(Method("StartNotify"))

\* A response, or none any more, to the writes of these phones.
Respond(phones) ==
  /\ pending'   = [p \in Phones |-> IF p \in phones THEN NoWrite ELSE pending[p]]
  /\ heard'     = [p \in Phones |-> IF p \in phones THEN <<>> ELSE heard[p]]
  /\ listening' = [p \in Phones |-> listening[p] /\ p \notin phones]

Connect(p) ==
  /\ p \notin connected
  /\ connected' = connected \cup {p}
  /\ UNCHANGED <<cccVars, registered, appUp, busVars, writeVars, heardVars>>

\* A write of the value there already is succeeds and changes nothing.
EnableNotify(p) ==
  /\ p \in connected /\ registered /\ RoomForCalls
  /\ p \notin ccc
  /\ ccc' = ccc \cup {p}
  /\ CountUp
  /\ UNCHANGED <<connected, registered, appUp, fromApp, writeVars, heardVars>>

DisableNotify(p) ==
  /\ p \in connected /\ registered /\ RoomForCalls
  /\ p \in ccc
  /\ ccc' = ccc \ {p}
  /\ CountDown
  /\ listening' = [listening EXCEPT ![p] = FALSE]
  /\ UNCHANGED <<connected, registered, appUp, fromApp, writeVars, heard>>

\* Mutant: what waits for a response is not told that the link has gone.
LinkLost_StillWaiting(p) ==
  /\ p \in connected /\ RoomForCalls
  /\ connected' = connected \ {p}
  /\ UNCHANGED <<registered, appUp, fromApp, writeVars, heardVars>>

\* The link ends and with it the wait for a response.
LinkLost(p) ==
  /\ p \in connected /\ RoomForCalls
  /\ connected' = connected \ {p}
  /\ Respond({p})
  /\ UNCHANGED <<registered, appUp, fromApp, writeId>>

\* Mutant: the device state goes without its notifications being counted off.
Disconnect_NotCounted(p) ==
  /\ LinkLost(p)
  /\ ccc' = IF p \in Bonded THEN ccc ELSE ccc \ {p}
  /\ UNCHANGED <<ntfyCnt, toApp>>

\* att_disconnected: the state of a bonded phone is kept, notifications
\* included; any other is removed, and what it had on is counted off.
Disconnect(p) ==
  /\ LinkLost(p)
  /\ IF p \in ccc /\ p \notin Bonded
     THEN ccc' = ccc \ {p} /\ CountDown
     ELSE UNCHANGED <<cccVars, toApp>>

\* A phone has one write at a time under way; it is numbered, timed and
\* passed on to the application.
Write(p, req) ==
  /\ p \in connected /\ registered /\ RoomForCalls
  /\ pending[p] = NoWrite
  /\ writeId < MaxWrites
  /\ writeId' = writeId + 1
  /\ pending' = [pending EXCEPT ![p] = [id |-> writeId', req |-> req]]
  /\ Call([kind |-> "WriteValue", id |-> writeId', req |-> req])
  /\ listening' = [listening EXCEPT ![p] = p \in ccc]
  /\ UNCHANGED <<connected, cccVars, registered, appUp, fromApp, heard>>

\* write_timeout, after five seconds; the application may still be at it.
WriteTimeout(p) ==
  /\ pending[p] # NoWrite
  /\ Respond({p})
  /\ UNCHANGED <<connected, cccVars, registered, appUp, busVars, writeId>>
-----------------------------------------------------------------------------
\* The next message of the application is of this kind.
Arrives(kinds) == fromApp # <<>> /\ Head(fromApp).kind \in kinds

LastTwo(s) == IF Len(s) > 2 THEN Tail(s) ELSE s

\* bt_gatt_server_send_notification cuts the value to the link's size.
CutTo(part, n) ==
  [part EXCEPT !.to = IF part.to - part.from + 1 > n THEN part.from + n - 1 ELSE part.to]

\* A changed value goes to every phone that is connected and has
\* notifications on.
PropertyChanged ==
  /\ Arrives({"Value"})
  /\ fromApp' = Tail(fromApp)
  /\ heard' = [p \in Phones |->
                 IF p \in ccc \cap connected /\ pending[p] # NoWrite
                 THEN LastTwo(Append(heard[p], CutTo(Head(fromApp).part, Payload[p])))
                 ELSE heard[p]]
  /\ UNCHANGED <<connected, cccVars, registered, appUp, toApp, writeVars, listening>>

\* write_reply_cb: a result for a write that was given up finds none to give
\* a response to.
WriteReply ==
  /\ Arrives({"ok", "error"})
  /\ fromApp' = Tail(fromApp)
  /\ Respond({p \in Phones : pending[p].id = Head(fromApp).id})
  /\ UNCHANGED <<connected, cccVars, registered, appUp, toApp, writeId>>

\* The application has left the bus: its writes are refused, the service and
\* its count are freed, and every device state loses what it had on for it.
ServiceRemoved ==
  /\ Arrives({"gone"})
  /\ fromApp' = Tail(fromApp)
  /\ registered' = FALSE
  /\ ccc' = {} /\ ntfyCnt' = 0
  /\ Respond(Phones)
  /\ UNCHANGED <<connected, appUp, toApp, writeId>>

\* What the phones may do.
PhoneStep ==
  \E p \in Phones :
    \/ Connect(p)
    \/ Disconnect(p)
    \/ EnableNotify(p)
    \/ DisableNotify(p)
    \/ \E req \in Requests : Write(p, req)

\* What bluetoothd does by itself.
Deliver == PropertyChanged \/ WriteReply \/ ServiceRemoved
=============================================================================
