------------------------------ MODULE BleRelay ------------------------------
(***************************************************************************)
(* rr.py: the application that offers the table server to phones.  A       *)
(* request written to one characteristic is sent to the server over a new  *)
(* connection; the answer is notified, in two parts when it is long, and   *)
(* only then does the write return.  One thread does it all, so that       *)
(* every other call waits meanwhile.                                       *)
(*                                                                         *)
(* Requests are "known" (scan1, scan3, and scan2 and scan5 with something  *)
(* to look for), "short" (scan2 or scan5 of which the two bytes cut off    *)
(* the end leave what the server does not know, so that it never answers), *)
(* or "other" (for which the relay does nothing).  Of an answer only its   *)
(* length matters.                                                         *)
(***************************************************************************)
EXTENDS GattDatabase

CONSTANTS Chunk,      \* the first part of an answer has Chunk + 1 bytes (100)
          Lengths,    \* the lengths of answers; 0 when the server gives none
          MaxExits    \* bound: how often the relay is stopped

ASSUME ChunkAssumption   == Chunk \in Nat \ {0}
ASSUME LengthsAssumption == Lengths \subseteq Nat
ASSUME ExitsAssumption   == MaxExits \in Nat

VARIABLES
  notifying,   \* of the characteristic that notifies
  pcA,         \* where the relay is
  job,         \* the write it is serving
  length,      \* of the answer it is passing on
  exits        \* how often it was stopped

appVars == <<notifying, pcA, job, length, exits>>
vars == <<gattVars, appVars>>

Places == {"idle", "connect", "recv", "sleep", "down"}

\* The relay's variables and bluetoothd's keep their types; the relay is off
\* the bus exactly when it is down.
RelayTypeOK ==
  /\ GattTypeOK
  /\ notifying \in BOOLEAN
  /\ pcA \in Places /\ (pcA = "down" <=> ~appUp)
  /\ job \in {NoWrite} \cup [id : 1 .. MaxWrites, req : Requests]
  /\ length \in Nat
  /\ exits \in 0 .. MaxExits

Init ==
  /\ GattInit
  /\ notifying = FALSE
  /\ pcA = "idle" /\ job = NoWrite /\ length = 0
  /\ exits = 0
-----------------------------------------------------------------------------
\* What a step of the relay leaves alone in bluetoothd.
GattUnchanged ==
  UNCHANGED <<connected, cccVars, registered, appUp, writeVars, heardVars>>

Signal(from, to, of) == [kind |-> "Value", id |-> job.id, part |-> Part(job.id, from, to, of)]

Reply(id, kind) == [kind |-> kind, id |-> id, part |-> Part(0, 0, 0, 0)]

\* Back to the main loop, with what is sent on the way.
Return(msgs) ==
  /\ fromApp' = fromApp \o msgs
  /\ pcA' = "idle"
  /\ job' = NoWrite
  /\ length' = 0

Calls(kinds) == pcA = "idle" /\ toApp # <<>> /\ Head(toApp).kind \in kinds

\* Mutant: the flag is turned over.
SetNotifying_Toggled ==
  /\ Calls({"StartNotify", "StopNotify"})
  /\ toApp' = Tail(toApp)
  /\ notifying' = ~notifying
  /\ UNCHANGED <<fromApp, pcA, job, length, exits>>
  /\ GattUnchanged

\* StartNotify and StopNotify.
SetNotifying ==
  /\ Calls({"StartNotify", "StopNotify"})
  /\ toApp' = Tail(toApp)
  /\ notifying' = (Head(toApp).kind = "StartNotify")
  /\ UNCHANGED <<fromApp, pcA, job, length, exits>>
  /\ GattUnchanged

\* WriteValue of something else returns at once; if it is not UTF-8 an exception
\* is an error to the phone.
IgnoreValue ==
  /\ Calls({"WriteValue"}) /\ Head(toApp).req = "other"
  /\ toApp' = Tail(toApp)
  /\ \E kind \in {"ok", "error"} : Return(<<Reply(Head(toApp).id, kind)>>)
  /\ UNCHANGED <<notifying, exits>>
  /\ GattUnchanged

WriteValue ==
  /\ Calls({"WriteValue"}) /\ Head(toApp).req # "other"
  /\ toApp' = Tail(toApp)
  /\ job' = [id |-> Head(toApp).id, req |-> Head(toApp).req]
  /\ pcA' = "connect"
  /\ UNCHANGED <<fromApp, notifying, length, exits>>
  /\ GattUnchanged

\* The request is sent ...
SendRequest ==
  /\ pcA = "connect"
  /\ pcA' = "recv"
  /\ UNCHANGED <<busVars, notifying, job, length, exits>>
  /\ GattUnchanged

\* ... unless the server is not there or what is behind the scan2 or scan5 is not
\* UTF-8: the same error.
Refused ==
  /\ pcA = "connect"
  /\ Return(<<Reply(job.id, "error")>>)
  /\ UNCHANGED <<toApp, notifying, exits>>
  /\ GattUnchanged

\* A request the server does not know gets no answer, and recv has no
\* timeout.
Answered == pcA = "recv" /\ job.req = "known"

\* An answer of no bytes, as the server gives by hanging up, cannot be
\* notified: D-Bus has no type for an empty list.
NoAnswer ==
  /\ Answered
  /\ 0 \in Lengths
  /\ Return(<<Reply(job.id, "error")>>)
  /\ UNCHANGED <<toApp, notifying, exits>>
  /\ GattUnchanged

\* BBB: the first part.
FirstPart(n) ==
  /\ Answered
  /\ n > 0
  /\ length' = n
  /\ fromApp' = Append(fromApp, Signal(1, IF n <= Chunk + 1 THEN n ELSE Chunk + 1, n))
  /\ pcA' = "sleep"
  /\ UNCHANGED <<toApp, notifying, job, exits>>
  /\ GattUnchanged

\* Mutant: the second part begins one byte late.
SecondPart_OffByOne ==
  /\ pcA = "sleep"
  /\ IF length < Chunk THEN Return(<<Reply(job.id, "ok")>>)
     ELSE IF length <= Chunk + 1 THEN Return(<<Reply(job.id, "error")>>)
     ELSE Return(<<Signal(Chunk + 3, length, length), Reply(job.id, "ok")>>)
  /\ UNCHANGED <<toApp, notifying, exits>>
  /\ GattUnchanged

\* Mutant: an exception over the second part is not passed on.
SecondPart_NotCaught ==
  /\ pcA = "sleep" /\ length \notin {Chunk, Chunk + 1}
  /\ IF length < Chunk THEN Return(<<Reply(job.id, "ok")>>)
     ELSE Return(<<Signal(Chunk + 2, length, length), Reply(job.id, "ok")>>)
  /\ UNCHANGED <<toApp, notifying, exits>>
  /\ GattUnchanged

\* After a tenth of a second the second part, if the answer is taken for a
\* long one.  With Chunk or Chunk + 1 bytes it is and nothing is left for the
\* second part: the same exception, although the answer has been notified.
SecondPart ==
  /\ pcA = "sleep"
  /\ IF length < Chunk THEN Return(<<Reply(job.id, "ok")>>)
     ELSE IF length <= Chunk + 1 THEN Return(<<Reply(job.id, "error")>>)
     ELSE Return(<<Signal(Chunk + 2, length, length), Reply(job.id, "ok")>>)
  /\ UNCHANGED <<toApp, notifying, exits>>
  /\ GattUnchanged

\* The relay ends or is stopped, wherever it is: the bus drops the calls it
\* had not read and tells bluetoothd after what the relay had sent.
Exit ==
  /\ pcA # "down"
  /\ exits < MaxExits
  /\ exits' = exits + 1
  /\ appUp' = FALSE
  /\ toApp' = <<>>
  /\ fromApp' = Append(fromApp, Reply(0, "gone"))
  /\ pcA' = "down" /\ notifying' = FALSE /\ job' = NoWrite /\ length' = 0
  /\ UNCHANGED <<connected, cccVars, registered, writeVars, heardVars>>

\* main: a new process registers the application again.
Restart ==
  /\ pcA = "down" /\ ~registered
  /\ appUp' = TRUE /\ registered' = TRUE
  /\ pcA' = "idle"
  /\ UNCHANGED <<connected, cccVars, busVars, writeVars, heardVars>>
  /\ UNCHANGED <<notifying, job, length, exits>>

RelayStep ==
  \/ SetNotifying
  \/ IgnoreValue
  \/ WriteValue
  \/ SendRequest
  \/ Refused
  \/ NoAnswer
  \/ \E n \in Lengths : FirstPart(n)
  \/ SecondPart

TimeOut(p) == WriteTimeout(p) /\ UNCHANGED appVars

Next ==
  \/ RelayStep
  \/ Exit \/ Restart
  \/ PhoneStep /\ UNCHANGED appVars
  \/ Deliver /\ UNCHANGED appVars
  \/ \E p \in Phones : TimeOut(p)

\* The relay goes on with what it can do.  Nobody else need do anything, and it
\* need not be stopped or started.
Spec == Init /\ [][Next]_vars /\ WF_vars(RelayStep)
-----------------------------------------------------------------------------
\* The count in the characteristic is the number of phones that have
\* notifications on, connected or, when bonded, not; through links lost in
\* any order and restarts of the relay.
NotifyCountsSubscribers ==
  ntfyCnt = Cardinality(ccc) /\ (~registered => ccc = {})

NotifyCalls == {i \in DOMAIN toApp : toApp[i].kind \in {"StartNotify", "StopNotify"}}

\* When the relay has taken the calls under way, it takes itself to be
\* notifying exactly if some phone has notifications on.
NotifyingCatchesUp ==
  appUp => IF NotifyCalls = {} THEN notifying = (ntfyCnt > 0)
           ELSE \E i \in NotifyCalls :
                  /\ \A j \in NotifyCalls : j <= i
                  /\ (toApp[i].kind = "StartNotify") = (ntfyCnt > 0)

\* The last that phone p has heard is all of the answer to write id.
HeardWhole(p, id) ==
  LET n == Len(heard[p])
      last == heard[p][n]
  IN  /\ n > 0 /\ last.id = id /\ last.to = last.of
      /\ \/ last.from = 1
         \/ n = 2 /\ heard[p][1] = Part(id, 1, last.from - 1, last.of)

\* The step that tells phone p that its write has succeeded.
Confirmed(p) ==
  /\ WriteReply
  /\ Head(fromApp).kind = "ok" /\ Head(fromApp).id = pending[p].id

\* What phone p can be notified of: the longer of two parts.
Fits(p) == \A n \in Lengths : Chunk + 1 <= Payload[p] /\ n - Chunk - 1 <= Payload[p]

\* To a phone that has notifications on and whose link carries the parts, a
\* confirmed request means that what it heard last is the whole answer to
\* it: not a part, not another phone's, and not that of a request it had
\* given up on.
AnswerArrivesWhole ==
  [][\A p \in Phones :
       Confirmed(p) /\ pending[p].req # "other" /\ listening[p] /\ Fits(p)
         => HeardWhole(p, pending[p].id)]_vars

\* The relay comes back from every call for good, whatever the server answers,
\* except from one over a request that was cut to what the server does not know.
StandsOnlyOverShort ==
  []<>(pcA \in {"idle", "down"}) \/ <>[](pcA = "recv" /\ job.req = "short")
=============================================================================
