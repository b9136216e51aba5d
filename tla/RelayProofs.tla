---------------------------- MODULE RelayProofs ----------------------------
(***************************************************************************)
(* Theorems about BleRelay with GattDatabase, for every set of phones, of  *)
(* requests and of lengths of answers.                                     *)
(***************************************************************************)
EXTENDS BleRelay, TLAPS, FiniteSetTheorems, SequenceTheorems

CallMsgs ==
  [kind : {"StartNotify", "StopNotify"}, id : {0}, req : {"none"}]
    \cup [kind : {"WriteValue"}, id : 1 .. MaxWrites, req : Requests]

Parts == [id : 0 .. MaxWrites, from : Int, to : Int, of : Int]

AppMsgs == [kind : {"Value", "ok", "error", "gone"}, id : 0 .. MaxWrites, part : Parts]

\* The messages in either direction are what the two sides expect.
QueuesTypeOK ==
  /\ toApp \in Seq(CallMsgs)
  /\ fromApp \in Seq(AppMsgs)
  /\ heard \in [Phones -> Seq(Parts)]
  /\ \A p \in Phones : Len(heard[p]) \in 0 .. 2
-----------------------------------------------------------------------------
\* The first element and the rest of a sequence, by their places.
LEMMA TailSeq ==
  ASSUME NEW S, NEW s \in Seq(S), s # <<>>
  PROVE  /\ Head(s) \in S /\ Head(s) = s[1]
         /\ Tail(s) \in Seq(S)
         /\ Len(Tail(s)) = Len(s) - 1
         /\ \A i \in 1 .. Len(s) - 1 : Tail(s)[i] = s[i + 1]
         /\ Len(s) >= 1
OBVIOUS

\* What LastTwo keeps: the new element and the one before it.
LEMMA LastTwoAppend ==
  ASSUME NEW S, NEW s \in Seq(S), Len(s) \in 0 .. 2, NEW e \in S
  PROVE  LET t == LastTwo(Append(s, e))
         IN  /\ t \in Seq(S)
             /\ Len(t) \in 1 .. 2
             /\ t[Len(t)] = e
             /\ Len(s) > 0 => Len(t) = 2 /\ t[1] = s[Len(s)]
<1>1. /\ Append(s, e) \in Seq(S)
      /\ Len(Append(s, e)) = Len(s) + 1
      /\ \A i \in 1 .. Len(s) : Append(s, e)[i] = s[i]
      /\ Append(s, e)[Len(s) + 1] = e
  BY AppendProperties
<1>2. CASE Len(s) = 2
  <2>1. LastTwo(Append(s, e)) = Tail(Append(s, e))
    BY <1>1, <1>2 DEF LastTwo
  <2>2. Append(s, e) # <<>>
    BY <1>1, <1>2
  <2>. QED BY <1>1, <1>2, <2>1, <2>2, TailSeq
<1>3. CASE Len(s) < 2
  BY <1>1, <1>3 DEF LastTwo
<1>. QED BY <1>2, <1>3

\* The part of a notification that fits the link is a part.
LEMMA CutToType ==
  ASSUME NEW part \in Parts, NEW n \in Nat
  PROVE  /\ CutTo(part, n) \in Parts
         /\ part.to - part.from + 1 <= n => CutTo(part, n) = part
BY DEF CutTo, Parts

\* A call in transit is well typed.
LEMMA CallType ==
  ASSUME toApp \in Seq(CallMsgs), NEW m \in CallMsgs, Call(m)
  PROVE  toApp' \in Seq(CallMsgs)
BY AppendProperties DEF Call

\* Every message either side sends is well typed.
LEMMA MethodType ==
  Method("StartNotify") \in CallMsgs /\ Method("StopNotify") \in CallMsgs
BY DEF Method, CallMsgs

\* An answer to a call.
LEMMA ReplyType ==
  ASSUME NEW id \in 0 .. MaxWrites, NEW kind \in {"ok", "error", "gone"}
  PROVE  Reply(id, kind) \in AppMsgs
BY BoundsAssumption DEF Reply, Part, AppMsgs, Parts

\* A part of an answer, notified.
LEMMA SignalType ==
  ASSUME job.id \in 0 .. MaxWrites, NEW f \in Int, NEW t \in Int, NEW n \in Int
  PROVE  Signal(f, t, n) \in AppMsgs
BY DEF Signal, Part, AppMsgs, Parts

\* What the application sends on its way back to the main loop, message
\* after message.
LEMMA SendOne ==
  ASSUME fromApp \in Seq(AppMsgs), NEW m \in AppMsgs, Return(<<m>>)
  PROVE  fromApp' = Append(fromApp, m) /\ fromApp' \in Seq(AppMsgs)
BY AppendIsConcat, AppendProperties DEF Return

\* Two messages at once.
LEMMA SendTwo ==
  ASSUME fromApp \in Seq(AppMsgs), NEW m \in AppMsgs, NEW n \in AppMsgs, Return(<<m, n>>)
  PROVE  fromApp' = Append(Append(fromApp, m), n) /\ fromApp' \in Seq(AppMsgs)
<1>1. fromApp \o <<m, n>> = Append(Append(fromApp, m), n)
  OBVIOUS
<1>. QED BY <1>1, AppendProperties DEF Return
-----------------------------------------------------------------------------
TypeOK == RelayTypeOK /\ QueuesTypeOK

\* The system starts well typed.
LEMMA InitType == Init => TypeOK
<1>. SUFFICES ASSUME Init
              PROVE  TypeOK
  OBVIOUS
<1>. USE BoundsAssumption, ExitsAssumption DEF Init, GattInit
<1>1. GattTypeOK
  <2>1. \A p \in Phones : Len(heard[p]) <= 2
    BY EmptySeq
  <2>2. /\ pending \in [Phones -> {NoWrite} \cup [id : 1 .. MaxWrites, req : Requests]]
        /\ \A p \in Phones : pending[p] = NoWrite
    OBVIOUS
  <2>. QED BY <2>1, <2>2 DEF GattTypeOK
<1>2. RelayTypeOK
  <2>1. pcA \in Places /\ (pcA = "down" <=> ~appUp) /\ notifying \in BOOLEAN
    BY DEF Places
  <2>2. job \in {NoWrite} \cup [id : 1 .. MaxWrites, req : Requests]
    OBVIOUS
  <2>3. length \in Nat /\ exits \in 0 .. MaxExits
    OBVIOUS
  <2>. QED BY <1>1, <2>1, <2>2, <2>3 DEF RelayTypeOK
<1>3. QueuesTypeOK
  <2>1. heard \in [Phones -> Seq(Parts)]
    OBVIOUS
  <2>2. \A p \in Phones : heard[p] = <<>>
    OBVIOUS
  <2>. QED BY <2>1, <2>2, EmptySeq DEF QueuesTypeOK
<1>. QED BY <1>2, <1>3 DEF TypeOK

\* What a step of bluetoothd must keep for the types to be kept.
LEMMA GattType ==
  ASSUME TypeOK, UNCHANGED <<appVars, appUp>>,
         connected' \subseteq Phones, ccc' \subseteq Phones, ntfyCnt' \in Nat,
         registered' \in BOOLEAN, writeId' \in 0 .. MaxWrites,
         toApp' \in Seq(CallMsgs), fromApp' \in Seq(AppMsgs),
         pending' \in [Phones -> {NoWrite} \cup [id : 1 .. MaxWrites, req : Requests]],
         listening' \in [Phones -> BOOLEAN],
         heard' \in [Phones -> Seq(Parts)],
         \A p \in Phones : Len(heard'[p]) \in 0 .. 2,
         \A p \in Phones : pending'[p] # NoWrite => p \in connected'
  PROVE  TypeOK'
<1>1. \A p \in Phones : Len(heard'[p]) <= 2
  <2>1. \A n \in 0 .. 2 : n <= 2
    OBVIOUS
  <2>. QED BY <2>1
<1>2. GattTypeOK'
  BY <1>1 DEF TypeOK, RelayTypeOK, GattTypeOK
<1>. QED BY <1>2 DEF TypeOK, RelayTypeOK, QueuesTypeOK, appVars, Places

\* Responding to phones keeps the types of what they wait for and hear.
LEMMA RespondType ==
  ASSUME TypeOK, NEW phones, Respond(phones)
  PROVE  /\ pending' \in [Phones -> {NoWrite} \cup [id : 1 .. MaxWrites, req : Requests]]
         /\ listening' \in [Phones -> BOOLEAN]
         /\ heard' \in [Phones -> Seq(Parts)]
         /\ \A p \in Phones : Len(heard'[p]) \in 0 .. 2
         /\ \A p \in Phones : pending'[p] # NoWrite => pending[p] # NoWrite /\ p \notin phones
<1>. USE DEF TypeOK, RelayTypeOK, GattTypeOK, QueuesTypeOK, Respond
<1>1. heard' \in [Phones -> Seq(Parts)]
  <2>1. <<>> \in Seq(Parts)
    OBVIOUS
  <2>. QED BY <2>1
<1>2. \A p \in Phones : Len(heard'[p]) \in 0 .. 2
  BY EmptySeq
<1>. QED BY <1>1, <1>2

\* What the application does keeps the types.
LEMMA RelayStepType ==
  ASSUME TypeOK, RelayStep
  PROVE  TypeOK'
<1>. USE DEF TypeOK, RelayTypeOK, GattTypeOK, QueuesTypeOK, Places,
             GattUnchanged, cccVars, writeVars, heardVars, busVars
<1>1. CASE SetNotifying \/ IgnoreValue \/ WriteValue
  <2>1. toApp # <<>> /\ toApp' = Tail(toApp)
    BY <1>1 DEF SetNotifying, IgnoreValue, WriteValue, Calls
  <2>2. Head(toApp) \in CallMsgs /\ toApp' \in Seq(CallMsgs)
    BY <2>1, TailSeq
  <2>3. CASE SetNotifying
    BY <2>2, <2>3 DEF SetNotifying, Calls
  <2>4. CASE IgnoreValue
    <3>1. PICK kind \in {"ok", "error"} : Return(<<Reply(Head(toApp).id, kind)>>)
      BY <2>4 DEF IgnoreValue
    <3>2. fromApp' \in Seq(AppMsgs)
      <4>1. Reply(Head(toApp).id, kind) \in AppMsgs
        BY <2>2, <2>4, ReplyType DEF IgnoreValue, Calls, CallMsgs
      <4>. QED BY <3>1, <4>1 DEF Return
    <3>. QED BY <2>2, <2>4, <3>2 DEF IgnoreValue, Calls, Return
  <2>5. CASE WriteValue
    <3>1. job' \in [id : 1 .. MaxWrites, req : Requests]
      BY <2>2, <2>5 DEF WriteValue, Calls, CallMsgs
    <3>. QED BY <2>2, <2>5, <3>1 DEF WriteValue, Calls
  <2>. QED BY <1>1, <2>3, <2>4, <2>5
<1>2. CASE SendRequest
  BY <1>2 DEF SendRequest
<1>3. job.id \in 0 .. MaxWrites
  BY BoundsAssumption DEF NoWrite
<1>4. CASE Refused \/ NoAnswer
  <2>1. Reply(job.id, "error") \in AppMsgs
    BY <1>3, ReplyType
  <2>2. fromApp' \in Seq(AppMsgs)
    BY <1>4, <2>1, SendOne DEF Refused, NoAnswer
  <2>. QED BY <1>4, <2>2 DEF Refused, NoAnswer, Answered, Return
<1>5. ASSUME NEW n \in Lengths, FirstPart(n)
      PROVE  TypeOK'
  <2>1. n \in Nat /\ Chunk \in Nat
    BY LengthsAssumption, ChunkAssumption
  <2>2. fromApp' \in Seq(AppMsgs)
    BY <1>3, <1>5, <2>1, SignalType DEF FirstPart
  <2>. QED BY <1>5, <2>1, <2>2 DEF FirstPart, Answered
<1>6. CASE SecondPart
  <2>1. /\ Reply(job.id, "ok") \in AppMsgs
        /\ Reply(job.id, "error") \in AppMsgs
        /\ Signal(Chunk + 2, length, length) \in AppMsgs
    BY <1>3, ReplyType, SignalType, ChunkAssumption
  <2>2. fromApp' \in Seq(AppMsgs)
    BY <1>6, <2>1, SendOne, SendTwo DEF SecondPart
  <2>. QED BY <1>6, <2>2 DEF SecondPart, Return
<1>. QED BY <1>1, <1>2, <1>4, <1>5, <1>6 DEF RelayStep

\* Being stopped and started keeps the types.
LEMMA ExitRestartType ==
  ASSUME TypeOK, Exit \/ Restart
  PROVE  TypeOK'
<1>. USE DEF TypeOK, RelayTypeOK, GattTypeOK, QueuesTypeOK, Places,
             cccVars, writeVars, heardVars, busVars
<1>1. CASE Exit
  <2>1. Reply(0, "gone") \in AppMsgs
    BY ReplyType, BoundsAssumption
  <2>2. fromApp' \in Seq(AppMsgs) /\ toApp' \in Seq(CallMsgs)
    BY <1>1, <2>1, AppendProperties, EmptySeq DEF Exit
  <2>3. exits' \in 0 .. MaxExits
    BY <1>1, ExitsAssumption DEF Exit
  <2>. QED BY <1>1, <2>2, <2>3 DEF Exit
<1>2. CASE Restart
  BY <1>2 DEF Restart
<1>. QED BY <1>1, <1>2

\* Counting notifications on and off keeps the types.
LEMMA CountType ==
  ASSUME TypeOK, CountUp \/ CountDown
  PROVE  ntfyCnt' \in Nat /\ toApp' \in Seq(CallMsgs)
<1>. USE DEF TypeOK, RelayTypeOK, GattTypeOK, QueuesTypeOK
<1>1. CASE CountUp
  BY <1>1, CallType, MethodType DEF CountUp
<1>2. CASE CountDown
  <2>1. toApp' \in Seq(CallMsgs)
    BY <1>2, CallType, MethodType DEF CountDown
  <2>2. ntfyCnt' \in Nat
    BY <1>2 DEF CountDown
  <2>. QED BY <2>1, <2>2
<1>. QED BY <1>1, <1>2

\* What phones do keeps the types.
LEMMA PhoneStepType ==
  ASSUME TypeOK, PhoneStep, UNCHANGED appVars
  PROVE  TypeOK'
<1>. USE DEF TypeOK, RelayTypeOK, GattTypeOK, QueuesTypeOK, appVars,
             cccVars, writeVars, heardVars, busVars
<1>1. PICK p \in Phones : \/ Connect(p) \/ Disconnect(p)
                          \/ EnableNotify(p) \/ DisableNotify(p)
                          \/ \E req \in Requests : Write(p, req)
  BY DEF PhoneStep
<1>2. CASE Connect(p)
  BY <1>2 DEF Connect
<1>3. CASE Disconnect(p)
  <2>1. LinkLost(p) /\ Respond({p})
    BY <1>3 DEF Disconnect, LinkLost
  <2>2. /\ pending' \in [Phones -> {NoWrite} \cup [id : 1 .. MaxWrites, req : Requests]]
        /\ listening' \in [Phones -> BOOLEAN]
        /\ heard' \in [Phones -> Seq(Parts)]
        /\ \A q \in Phones : Len(heard'[q]) \in 0 .. 2
        /\ \A q \in Phones : pending'[q] # NoWrite => pending[q] # NoWrite /\ q \notin {p}
    BY <2>1, RespondType
  <2>3. ccc' \subseteq Phones /\ ntfyCnt' \in Nat /\ toApp' \in Seq(CallMsgs)
    BY <1>3, CountType DEF Disconnect
  <2>. QED BY <2>1, <2>2, <2>3, GattType DEF LinkLost
<1>4. CASE EnableNotify(p)
  BY <1>4, CountType DEF EnableNotify
<1>5. CASE DisableNotify(p)
  BY <1>5, CountType DEF DisableNotify
<1>6. ASSUME NEW req \in Requests, Write(p, req)
      PROVE  TypeOK'
  <2>1. writeId' \in 1 .. MaxWrites
    BY <1>6, BoundsAssumption DEF Write
  <2>2. [kind |-> "WriteValue", id |-> writeId', req |-> req] \in CallMsgs
    BY <2>1 DEF CallMsgs
  <2>3. toApp' \in Seq(CallMsgs)
    BY <1>6, <2>2, CallType DEF Write
  <2>4. pending' \in [Phones -> {NoWrite} \cup [id : 1 .. MaxWrites, req : Requests]]
    BY <1>6, <2>1 DEF Write
  <2>5. \A q \in Phones : pending'[q] # NoWrite => q \in connected'
    BY <1>6 DEF Write
  <2>6. listening' \in [Phones -> BOOLEAN]
    BY <1>6 DEF Write
  <2>. QED BY <1>6, <2>1, <2>3, <2>4, <2>5, <2>6 DEF Write
<1>. QED BY <1>1, <1>2, <1>3, <1>4, <1>5, <1>6

\* What bluetoothd does by itself keeps the types.
LEMMA DeliverType ==
  ASSUME TypeOK, UNCHANGED appVars, Deliver \/ \E p \in Phones : WriteTimeout(p)
  PROVE  TypeOK'
<1>. USE DEF TypeOK, RelayTypeOK, GattTypeOK, QueuesTypeOK, appVars,
             cccVars, writeVars, heardVars, busVars
<1>1. ASSUME fromApp # <<>>
      PROVE  Head(fromApp) \in AppMsgs /\ Tail(fromApp) \in Seq(AppMsgs)
  BY <1>1, TailSeq
<1>2. CASE PropertyChanged
  <2>1. fromApp # <<>> /\ fromApp' = Tail(fromApp)
    BY <1>2 DEF PropertyChanged, Arrives
  <2>2. Head(fromApp).part \in Parts
    BY <1>1, <2>1 DEF AppMsgs
  <2>3. \A p \in Phones : CutTo(Head(fromApp).part, Payload[p]) \in Parts
    BY <2>2, CutToType, PayloadAssumption
  <2>4. \A p \in Phones : heard'[p] \in Seq(Parts) /\ Len(heard'[p]) \in 0 .. 2
    <3>1. TAKE p \in Phones
    <3>. DEFINE t == LastTwo(Append(heard[p], CutTo(Head(fromApp).part, Payload[p])))
    <3>2. t \in Seq(Parts) /\ Len(t) \in 1 .. 2
      BY <2>3, LastTwoAppend
    <3>3. heard'[p] = t \/ heard'[p] = heard[p]
      BY <1>2 DEF PropertyChanged
    <3>. QED BY <3>2, <3>3
  <2>5. heard' \in [Phones -> Seq(Parts)]
    BY <1>2, <2>4 DEF PropertyChanged
  <2>. QED BY <1>1, <1>2, <2>1, <2>4, <2>5, GattType DEF PropertyChanged
<1>3. ASSUME NEW phones, Respond(phones)
      PROVE  /\ pending' \in [Phones -> {NoWrite} \cup [id : 1 .. MaxWrites, req : Requests]]
             /\ listening' \in [Phones -> BOOLEAN]
             /\ heard' \in [Phones -> Seq(Parts)]
             /\ \A p \in Phones : Len(heard'[p]) \in 0 .. 2
             /\ \A p \in Phones : pending'[p] # NoWrite => pending[p] # NoWrite /\ p \notin phones
  BY <1>3, RespondType
<1>4. CASE WriteReply
  BY <1>1, <1>3, <1>4, GattType DEF WriteReply, Arrives
<1>5. CASE ServiceRemoved
  BY <1>1, <1>3, <1>5, GattType DEF ServiceRemoved, Arrives
<1>6. ASSUME NEW p \in Phones, WriteTimeout(p)
      PROVE  TypeOK'
  BY <1>3, <1>6, GattType DEF WriteTimeout
<1>. QED BY <1>2, <1>4, <1>5, <1>6 DEF Deliver

\* No step breaks the types.
LEMMA NextType == TypeOK /\ [Next]_vars => TypeOK'
<1>. SUFFICES ASSUME TypeOK, [Next]_vars
              PROVE  TypeOK'
  OBVIOUS
<1>1. CASE UNCHANGED vars
  BY <1>1 DEF vars, gattVars, appVars, cccVars, busVars, writeVars, heardVars,
              TypeOK, RelayTypeOK, GattTypeOK, QueuesTypeOK
<1>2. CASE Next
  BY <1>2, RelayStepType, ExitRestartType, PhoneStepType, DeliverType DEF Next, TimeOut
<1>. QED BY <1>1, <1>2

\* The relay's variables and bluetoothd's keep their types, and the relay is
\* off the bus exactly when it is down (RelayTypeOK); so do the messages in
\* both directions and what phones have heard.
THEOREM TypeCorrect == Spec => []TypeOK
BY InitType, NextType, PTL DEF Spec

\* The types of the relay and of bluetoothd, the property of the run.
THEOREM RelayTypeCorrect == Spec => []RelayTypeOK
BY TypeCorrect, PTL DEF TypeOK
-----------------------------------------------------------------------------
\* The count of phones and what the relay takes it to be.  The count goes down
\* by one for a phone that is in ccc, so ccc must be finite; it is forgotten
\* with the service, so bluetoothd must learn that the relay has gone before a
\* new one can be there, and from the last message of the old.
CountInv == IsFiniteSet(ccc) /\ NotifyCountsSubscribers

GoneIsLast ==
  /\ appUp => registered
  /\ \A i \in 1 .. Len(fromApp) :
       fromApp[i].kind = "gone" => registered /\ ~appUp /\ i = Len(fromApp)

DownIsEmpty == ~appUp => toApp = <<>> /\ ~notifying

\* The count and ccc stay together when one phone is counted on or off.
LEMMA CountStep ==
  ASSUME TypeOK, CountInv, registered' = registered, NEW p \in Phones,
         \/ p \notin ccc /\ registered /\ ccc' = ccc \cup {p} /\ CountUp
         \/ p \in ccc /\ ccc' = ccc \ {p} /\ CountDown
  PROVE  /\ CountInv'
         /\ ntfyCnt' > 0 <=> ccc' # {}
<1>. USE DEF CountInv, NotifyCountsSubscribers
<1>1. IsFiniteSet(ccc') /\ Cardinality(ccc') \in Nat
  BY FS_AddElement, FS_RemoveElement, FS_CardinalityType
<1>2. ntfyCnt' = Cardinality(ccc')
  <2>1. CASE p \notin ccc /\ ccc' = ccc \cup {p} /\ CountUp
    BY <2>1, FS_AddElement DEF CountUp
  <2>2. CASE p \in ccc /\ ccc' = ccc \ {p} /\ CountDown
    <3>1. ntfyCnt # 0
      BY <2>2, FS_EmptySet
    <3>2. Cardinality(ccc') = Cardinality(ccc) - 1
      BY <2>2, FS_RemoveElement
    <3>. QED BY <2>2, <3>1, <3>2 DEF CountDown
  <2>. QED BY <2>1, <2>2
<1>3. ~registered' => ccc' = {}
  OBVIOUS
<1>4. ntfyCnt' = 0 <=> ccc' = {}
  BY <1>1, <1>2, FS_EmptySet
<1>. QED BY <1>1, <1>2, <1>3, <1>4

\* No step takes the count and the set apart.
LEMMA NextCount == TypeOK /\ GoneIsLast /\ CountInv /\ [Next]_vars => CountInv'
<1>. SUFFICES ASSUME TypeOK, GoneIsLast, CountInv, [Next]_vars
              PROVE  CountInv'
  OBVIOUS
<1>. DEFINE Same == UNCHANGED <<ccc, ntfyCnt, registered>>
<1>1. ASSUME Same
      PROVE  CountInv'
  BY <1>1 DEF CountInv, NotifyCountsSubscribers
<1>2. CASE UNCHANGED vars
  BY <1>1, <1>2 DEF vars, gattVars, cccVars
<1>3. CASE RelayStep
  BY <1>1, <1>3 DEF RelayStep, SetNotifying, IgnoreValue, WriteValue, SendRequest, Refused,
                    NoAnswer, FirstPart, SecondPart, GattUnchanged, cccVars
<1>4. CASE Exit
  BY <1>1, <1>4 DEF Exit, cccVars
<1>5. CASE Restart
  BY <1>5 DEF Restart, cccVars, CountInv, NotifyCountsSubscribers
<1>6. ASSUME NEW p \in Phones, Connect(p)
      PROVE  CountInv'
  BY <1>1, <1>6 DEF Connect, cccVars
<1>7. ASSUME NEW p \in Phones, Disconnect(p)
      PROVE  CountInv'
  <2>1. CASE p \in ccc /\ p \notin Bonded
    BY <1>7, <2>1, CountStep DEF Disconnect, LinkLost
  <2>2. CASE ~(p \in ccc /\ p \notin Bonded)
    BY <1>1, <1>7, <2>2 DEF Disconnect, LinkLost, cccVars
  <2>. QED BY <2>1, <2>2
<1>8. ASSUME NEW p \in Phones, EnableNotify(p) \/ DisableNotify(p)
      PROVE  CountInv'
  BY <1>8, CountStep DEF EnableNotify, DisableNotify
<1>9. ASSUME NEW p \in Phones, NEW req \in Requests, Write(p, req)
      PROVE  CountInv'
  BY <1>1, <1>9 DEF Write, cccVars
<1>10. CASE PropertyChanged \/ WriteReply
  BY <1>1, <1>10 DEF PropertyChanged, WriteReply, cccVars
<1>11. CASE ServiceRemoved
  BY <1>11, FS_EmptySet DEF ServiceRemoved, CountInv, NotifyCountsSubscribers
<1>12. ASSUME NEW p \in Phones, TimeOut(p)
       PROVE  CountInv'
  BY <1>1, <1>12 DEF TimeOut, WriteTimeout, cccVars
<1>. QED BY <1>2, <1>3, <1>4, <1>5, <1>6, <1>7, <1>8, <1>9, <1>10, <1>11, <1>12
         DEF Next, PhoneStep, Deliver

\* The queue new has what old has, and after it nothing that says that the
\* relay has gone and nothing about a write after the n-th.
Continues(new, old, n) ==
  /\ new \in Seq(AppMsgs)
  /\ Len(old) <= Len(new)
  /\ \A i \in 1 .. Len(old) : new[i] = old[i]
  /\ \A i \in 1 .. Len(new) : i > Len(old) => new[i].kind # "gone" /\ new[i].id <= n

\* One more message continues a queue, and so do two.
LEMMA ContinuesByOne ==
  ASSUME NEW s \in Seq(AppMsgs), NEW m \in AppMsgs, m.kind # "gone",
         NEW n, m.id <= n
  PROVE  Continues(Append(s, m), s, n)
BY AppendProperties DEF Continues

\* A queue that continues one that continues a third continues that.
LEMMA ContinuesTwice ==
  ASSUME NEW s \in Seq(AppMsgs), NEW t, NEW u, NEW n,
         Continues(t, s, n), Continues(u, t, n)
  PROVE  Continues(u, s, n)
<1>1. u \in Seq(AppMsgs) /\ t \in Seq(AppMsgs)
  BY DEF Continues
<1>2. Len(s) \in Nat /\ Len(t) \in Nat /\ Len(u) \in Nat
  BY <1>1, LenProperties
<1>3. Len(s) <= Len(t) /\ Len(t) <= Len(u)
  BY DEF Continues
<1>4. \A i \in 1 .. Len(s) : i \in 1 .. Len(t) /\ t[i] = s[i] /\ u[i] = t[i]
  BY <1>2, <1>3 DEF Continues
<1>5. ASSUME NEW i \in 1 .. Len(u), i > Len(s)
      PROVE  u[i].kind # "gone" /\ u[i].id <= n
  <2>1. CASE i \in 1 .. Len(t)
    BY <1>5, <2>1 DEF Continues
  <2>2. CASE i > Len(t)
    BY <2>2 DEF Continues
  <2>. QED BY <1>2, <2>1, <2>2
<1>. QED BY <1>1, <1>2, <1>3, <1>4, <1>5 DEF Continues

\* What the relay sends in a step comes after what it sent before.
LEMMA RelayStepSends ==
  ASSUME TypeOK, RelayStep, NEW w \in Nat, job.id <= w,
         toApp # <<>> => Head(toApp).id <= w
  PROVE  Continues(fromApp', fromApp, w)
<1>1. fromApp \in Seq(AppMsgs) /\ job.id \in 0 .. MaxWrites
  BY BoundsAssumption DEF TypeOK, RelayTypeOK, QueuesTypeOK, NoWrite
<1>2. CASE SetNotifying \/ WriteValue \/ SendRequest
  <2>1. fromApp' = fromApp
    BY <1>2 DEF SetNotifying, WriteValue, SendRequest, busVars
  <2>. QED BY <1>1, <2>1, LenProperties DEF Continues
<1>3. ASSUME NEW m \in AppMsgs, m.kind # "gone", m.id <= w,
             Return(<<m>>) \/ fromApp' = Append(fromApp, m)
      PROVE  Continues(fromApp', fromApp, w)
  BY <1>1, <1>3, SendOne, ContinuesByOne
<1>4. CASE IgnoreValue
  <2>1. Head(toApp).id \in 0 .. MaxWrites
    BY <1>4, TailSeq, BoundsAssumption
    DEF IgnoreValue, Calls, CallMsgs, TypeOK, QueuesTypeOK
  <2>2. toApp # <<>>
    BY <1>4 DEF IgnoreValue, Calls
  <2>. QED BY <1>3, <1>4, <2>1, <2>2, ReplyType DEF IgnoreValue, Reply
<1>5. CASE Refused \/ NoAnswer
  BY <1>1, <1>3, <1>5, ReplyType DEF Refused, NoAnswer, Reply
<1>6. ASSUME NEW n \in Lengths, FirstPart(n)
      PROVE  Continues(fromApp', fromApp, w)
  <2>1. n \in Int /\ Chunk \in Int
    BY LengthsAssumption, ChunkAssumption
  <2>2. PICK k \in Int : fromApp' = Append(fromApp, Signal(1, k, n))
    BY <1>6, <2>1 DEF FirstPart
  <2>3. Signal(1, k, n) \in AppMsgs
    BY <1>1, <2>1, SignalType
  <2>4. Signal(1, k, n).kind = "Value" /\ Signal(1, k, n).id = job.id
    BY DEF Signal
  <2>. QED BY <1>3, <2>2, <2>3, <2>4
<1>7. CASE SecondPart
  <2>. DEFINE ok == Reply(job.id, "ok")
              error == Reply(job.id, "error")
              signal == Signal(Chunk + 2, length, length)
  <2>1. ok \in AppMsgs /\ error \in AppMsgs /\ signal \in AppMsgs
    BY <1>1, ReplyType, SignalType, ChunkAssumption DEF TypeOK, RelayTypeOK
  <2>2. /\ ok.kind = "ok" /\ error.kind = "error" /\ signal.kind = "Value"
        /\ ok.id = job.id /\ error.id = job.id /\ signal.id = job.id
    BY DEF Reply, Signal
  <2>. HIDE DEF ok, error, signal
  <2>3. CASE Return(<<signal, ok>>)
    <3>1. Continues(Append(fromApp, signal), fromApp, w)
      BY <1>1, <2>1, <2>2, ContinuesByOne
    <3>2. Continues(Append(Append(fromApp, signal), ok), Append(fromApp, signal), w)
      BY <1>1, <2>1, <2>2, AppendProperties, ContinuesByOne
    <3>. QED BY <1>1, <2>1, <2>3, <3>1, <3>2, SendTwo, ContinuesTwice
  <2>4. Return(<<ok>>) \/ Return(<<error>>) \/ Return(<<signal, ok>>)
    BY <1>7 DEF SecondPart, ok, error, signal
  <2>. QED BY <1>3, <2>1, <2>2, <2>3, <2>4
<1>. QED BY <1>2, <1>4, <1>5, <1>6, <1>7 DEF RelayStep

\* Being gone stays the last that bluetoothd hears of a relay.
LEMMA NextGone == TypeOK /\ GoneIsLast /\ [Next]_vars => GoneIsLast'
<1>. SUFFICES ASSUME TypeOK, GoneIsLast, [Next]_vars
              PROVE  GoneIsLast'
  OBVIOUS
<1>0. fromApp \in Seq(AppMsgs) /\ Len(fromApp) \in Nat
  BY LenProperties DEF TypeOK, QueuesTypeOK
<1>1. ASSUME UNCHANGED <<appUp, registered, fromApp>>
      PROVE  GoneIsLast'
  BY <1>1 DEF GoneIsLast
<1>2. CASE UNCHANGED vars
  BY <1>1, <1>2 DEF vars, gattVars, busVars
<1>3. CASE RelayStep
  <2>1. appUp /\ UNCHANGED <<appUp, registered>>
    BY <1>3 DEF RelayStep, SetNotifying, IgnoreValue, WriteValue, SendRequest, Refused,
                NoAnswer, FirstPart, SecondPart, GattUnchanged, Calls, Answered,
                TypeOK, RelayTypeOK
  <2>2. job.id <= MaxWrites /\ (toApp # <<>> => Head(toApp).id <= MaxWrites)
    BY TailSeq, BoundsAssumption
    DEF TypeOK, RelayTypeOK, QueuesTypeOK, CallMsgs, NoWrite
  <2>3. Continues(fromApp', fromApp, MaxWrites)
    BY <1>3, <2>2, RelayStepSends, BoundsAssumption
  <2>. QED BY <1>0, <2>1, <2>3 DEF GoneIsLast, Continues
<1>4. CASE Exit
  <2>1. registered /\ UNCHANGED registered /\ appUp' = FALSE /\ appUp
    BY <1>4 DEF Exit, GoneIsLast, TypeOK, RelayTypeOK, GattTypeOK
  <2>2. Reply(0, "gone") \in AppMsgs
    BY ReplyType, BoundsAssumption
  <2>3. fromApp' = Append(fromApp, Reply(0, "gone"))
    BY <1>4 DEF Exit
  <2>. QED BY <1>0, <2>1, <2>2, <2>3, AppendProperties DEF GoneIsLast
<1>5. CASE Restart
  BY <1>5 DEF Restart, busVars, GoneIsLast
<1>6. ASSUME NEW p \in Phones, Connect(p) \/ Disconnect(p) \/ EnableNotify(p) \/ DisableNotify(p)
      PROVE  GoneIsLast'
  BY <1>1, <1>6 DEF Connect, Disconnect, LinkLost, EnableNotify, DisableNotify, busVars
<1>7. ASSUME NEW p \in Phones, NEW req \in Requests, Write(p, req)
      PROVE  GoneIsLast'
  BY <1>1, <1>7 DEF Write
<1>8. CASE PropertyChanged \/ WriteReply
  <2>1. fromApp # <<>> /\ fromApp' = Tail(fromApp) /\ UNCHANGED <<appUp, registered>>
    BY <1>8 DEF PropertyChanged, WriteReply, Arrives
  <2>. QED BY <1>0, <2>1, TailSeq DEF GoneIsLast
<1>9. CASE ServiceRemoved
  <2>1. fromApp # <<>> /\ fromApp' = Tail(fromApp) /\ Head(fromApp).kind = "gone"
    BY <1>9 DEF ServiceRemoved, Arrives
  <2>2. ~appUp /\ Len(fromApp) = 1
    <3>1. 1 \in 1 .. Len(fromApp) /\ fromApp[1].kind = "gone"
      BY <1>0, <2>1, TailSeq
    <3>. QED BY <3>1 DEF GoneIsLast
  <2>3. Len(fromApp') = 0
    BY <1>0, <2>1, <2>2, TailSeq
  <2>4. \A i \in 1 .. Len(fromApp') : FALSE
    BY <2>3
  <2>5. ~appUp'
    BY <1>9, <2>2 DEF ServiceRemoved
  <2>. QED BY <2>4, <2>5 DEF GoneIsLast
<1>10. ASSUME NEW p \in Phones, TimeOut(p)
       PROVE  GoneIsLast'
  BY <1>1, <1>10 DEF TimeOut, WriteTimeout, busVars
<1>. QED BY <1>2, <1>3, <1>4, <1>5, <1>6, <1>7, <1>8, <1>9, <1>10
         DEF Next, PhoneStep, Deliver

\* Nothing is on the way to a relay that is down.
LEMMA NextDown == TypeOK /\ DownIsEmpty /\ [Next]_vars => DownIsEmpty'
<1>. SUFFICES ASSUME TypeOK, DownIsEmpty, [Next]_vars, ~appUp'
              PROVE  toApp' = <<>> /\ ~notifying'
  BY DEF DownIsEmpty
<1>. USE DEF DownIsEmpty, TypeOK, RelayTypeOK, GattTypeOK
<1>1. CASE UNCHANGED vars
  BY <1>1 DEF vars, gattVars, busVars, appVars
<1>2. CASE RelayStep
  BY <1>2 DEF RelayStep, SetNotifying, IgnoreValue, WriteValue, SendRequest, Refused,
              NoAnswer, FirstPart, SecondPart, GattUnchanged, Calls, Answered
<1>3. CASE Exit \/ Restart
  BY <1>3 DEF Exit, Restart
<1>4. CASE PhoneStep /\ UNCHANGED appVars
  <2>1. UNCHANGED <<appUp, notifying>>
    BY <1>4 DEF PhoneStep, Connect, Disconnect, LinkLost, EnableNotify, DisableNotify, Write,
                appVars
  <2>2. UNCHANGED toApp
    BY <1>4, <2>1 DEF PhoneStep, Connect, Disconnect, EnableNotify, DisableNotify, Write,
                      CountUp, CountDown, Call, busVars
  <2>. QED BY <2>1, <2>2
<1>5. CASE (Deliver /\ UNCHANGED appVars) \/ \E p \in Phones : TimeOut(p)
  <2>1. UNCHANGED <<appUp, toApp, notifying>>
    BY <1>5 DEF Deliver, PropertyChanged, WriteReply, ServiceRemoved, TimeOut, WriteTimeout,
                busVars, appVars
  <2>. QED BY <2>1
<1>. QED BY <1>1, <1>2, <1>3, <1>4, <1>5 DEF Next
-----------------------------------------------------------------------------
\* A call to start or stop at the end of the queue is the last word.
LEMMA NotifyAppended ==
  ASSUME TypeOK, NEW name \in {"StartNotify", "StopNotify"},
         toApp' = Append(toApp, Method(name)), (name = "StartNotify") <=> (ntfyCnt' > 0)
  PROVE  NotifyingCatchesUp'
<1>. DEFINE k == Len(toApp) + 1
<1>1. toApp \in Seq(CallMsgs) /\ Method(name) \in CallMsgs /\ Len(toApp) \in Nat
  BY MethodType, LenProperties DEF TypeOK, QueuesTypeOK
<1>2. /\ Len(toApp') = k /\ toApp'[k] = Method(name)
      /\ DOMAIN toApp' = 1 .. k
  BY <1>1, AppendProperties, LenProperties
<1>3. k \in NotifyCalls'
  BY <1>1, <1>2 DEF NotifyCalls, Method
<1>4. \A j \in NotifyCalls' : j <= k
  BY <1>1, <1>2 DEF NotifyCalls
<1>5. (toApp'[k].kind = "StartNotify") = (ntfyCnt' > 0)
  BY <1>2 DEF Method
<1>. HIDE DEF k
<1>. QED BY <1>3, <1>4, <1>5 DEF NotifyingCatchesUp

\* A write at the end of the queue is no word at all.
LEMMA WriteAppended ==
  ASSUME TypeOK, NotifyingCatchesUp, NEW m \in CallMsgs, m.kind = "WriteValue",
         toApp' = Append(toApp, m), UNCHANGED <<appUp, notifying, ntfyCnt>>
  PROVE  NotifyingCatchesUp'
<1>1. toApp \in Seq(CallMsgs) /\ Len(toApp) \in Nat
  BY LenProperties DEF TypeOK, QueuesTypeOK
<1>2. /\ DOMAIN toApp' = 1 .. Len(toApp) + 1 /\ toApp'[Len(toApp) + 1] = m
      /\ \A i \in 1 .. Len(toApp) : toApp'[i] = toApp[i]
      /\ DOMAIN toApp = 1 .. Len(toApp)
  BY <1>1, AppendProperties, LenProperties
<1>3. NotifyCalls' = NotifyCalls
  BY <1>1, <1>2 DEF NotifyCalls
<1>4. \A i \in NotifyCalls : toApp'[i] = toApp[i]
  BY <1>2 DEF NotifyCalls
<1>. QED BY <1>3, <1>4 DEF NotifyingCatchesUp

\* The relay takes a call: to start or stop, and it does, or another.
LEMMA CallTaken ==
  ASSUME TypeOK, NotifyingCatchesUp, toApp # <<>>, toApp' = Tail(toApp),
         UNCHANGED <<appUp, ntfyCnt>>,
         IF Head(toApp).kind \in {"StartNotify", "StopNotify"}
         THEN notifying' = (Head(toApp).kind = "StartNotify") ELSE UNCHANGED notifying
  PROVE  NotifyingCatchesUp'
<1>1. toApp \in Seq(CallMsgs) /\ Len(toApp) \in Nat /\ DOMAIN toApp = 1 .. Len(toApp)
  BY LenProperties DEF TypeOK, QueuesTypeOK
<1>2. /\ Head(toApp) = toApp[1] /\ DOMAIN toApp' = 1 .. Len(toApp) - 1
      /\ \A i \in 1 .. Len(toApp) - 1 : toApp'[i] = toApp[i + 1]
      /\ 1 \in 1 .. Len(toApp)
  BY <1>1, TailSeq, LenProperties
<1>3. \A i \in 1 .. Len(toApp) - 1 : i \in NotifyCalls' <=> i + 1 \in NotifyCalls
  BY <1>1, <1>2 DEF NotifyCalls
<1>4. NotifyCalls \subseteq 1 .. Len(toApp) /\ NotifyCalls' \subseteq 1 .. Len(toApp) - 1
  BY <1>1, <1>2 DEF NotifyCalls
<1>5. CASE NotifyCalls = {}
  <2>1. Head(toApp).kind \notin {"StartNotify", "StopNotify"}
    BY <1>1, <1>2, <1>5 DEF NotifyCalls
  <2>2. NotifyCalls' = {}
    BY <1>3, <1>4, <1>5
  <2>. QED BY <1>5, <2>1, <2>2 DEF NotifyingCatchesUp
<1>6. CASE NotifyCalls = {1}
  <2>1. Head(toApp).kind \in {"StartNotify", "StopNotify"}
    BY <1>1, <1>2, <1>6 DEF NotifyCalls
  <2>2. NotifyCalls' = {}
    BY <1>1, <1>3, <1>4, <1>6
  <2>3. appUp => (Head(toApp).kind = "StartNotify") = (ntfyCnt > 0)
    BY <1>2, <1>6 DEF NotifyingCatchesUp
  <2>. QED BY <2>1, <2>2, <2>3 DEF NotifyingCatchesUp
<1>7. ASSUME NEW k \in NotifyCalls, k # 1, appUp
      PROVE  NotifyingCatchesUp'
  <2>1. PICK i \in NotifyCalls : /\ \A j \in NotifyCalls : j <= i
                                 /\ (toApp[i].kind = "StartNotify") = (ntfyCnt > 0)
    BY <1>7 DEF NotifyingCatchesUp
  <2>2. i \in 2 .. Len(toApp)
    BY <1>1, <1>4, <1>7, <2>1
  <2>3. i - 1 \in NotifyCalls' /\ toApp'[i - 1] = toApp[i]
    BY <1>1, <1>2, <1>3, <2>1, <2>2
  <2>4. \A j \in NotifyCalls' : j <= i - 1
    BY <1>1, <1>3, <1>4, <2>1, <2>2
  <2>. QED BY <2>1, <2>3, <2>4 DEF NotifyingCatchesUp
<1>8. CASE ~appUp
  BY <1>8 DEF NotifyingCatchesUp
<1>. QED BY <1>5, <1>6, <1>7, <1>8

\* The relay is told when the count comes from nought or goes there.
LEMMA CountTold ==
  ASSUME TypeOK, NotifyingCatchesUp, UNCHANGED <<appUp, notifying>>,
         CountUp \/ (CountDown /\ ntfyCnt # 0)
  PROVE  NotifyingCatchesUp'
<1>. USE DEF TypeOK, RelayTypeOK, GattTypeOK
<1>1. CASE ~appUp
  BY <1>1 DEF NotifyingCatchesUp
<1>2. CASE appUp /\ CountUp
  <2>1. toApp' = Append(toApp, Method("StartNotify"))
    BY <1>2 DEF CountUp, Call
  <2>2. ntfyCnt' > 0
    BY <1>2 DEF CountUp
  <2>. QED BY <2>1, <2>2, NotifyAppended
<1>3. CASE appUp /\ CountDown /\ ntfyCnt = 1
  <2>1. toApp' = Append(toApp, Method("StopNotify"))
    BY <1>3 DEF CountDown, Call
  <2>2. ~(ntfyCnt' > 0)
    BY <1>3 DEF CountDown
  <2>. QED BY <2>1, <2>2, NotifyAppended
<1>4. CASE CountDown /\ ntfyCnt \notin {0, 1}
  <2>1. UNCHANGED toApp
    BY <1>4 DEF CountDown
  <2>2. ntfyCnt' > 0 /\ ntfyCnt > 0
    BY <1>4 DEF CountDown
  <2>3. NotifyCalls' = NotifyCalls
    BY <2>1 DEF NotifyCalls
  <2>. QED BY <2>1, <2>2, <2>3 DEF NotifyingCatchesUp
<1>. QED BY <1>1, <1>2, <1>3, <1>4

\* No step leaves the relay with a wrong last word.
LEMMA NextCatchesUp ==
  TypeOK /\ CountInv /\ GoneIsLast /\ DownIsEmpty /\ NotifyingCatchesUp /\ [Next]_vars
    => NotifyingCatchesUp'
<1>. SUFFICES ASSUME TypeOK, CountInv, GoneIsLast, DownIsEmpty, NotifyingCatchesUp, [Next]_vars
              PROVE  NotifyingCatchesUp'
  OBVIOUS
<1>1. ASSUME UNCHANGED <<appUp, toApp, notifying, ntfyCnt>>
      PROVE  NotifyingCatchesUp'
  BY <1>1 DEF NotifyingCatchesUp, NotifyCalls
<1>2. CASE UNCHANGED vars
  BY <1>1, <1>2 DEF vars, gattVars, busVars, cccVars, appVars
<1>3. CASE SetNotifying \/ IgnoreValue \/ WriteValue
  BY <1>3, CallTaken DEF SetNotifying, IgnoreValue, WriteValue, Calls, GattUnchanged, cccVars
<1>4. CASE SendRequest \/ Refused \/ NoAnswer \/ SecondPart \/ \E n \in Lengths : FirstPart(n)
  BY <1>1, <1>4 DEF SendRequest, Refused, NoAnswer, SecondPart, FirstPart, GattUnchanged,
                    busVars, cccVars
<1>5. CASE Exit
  BY <1>5 DEF Exit, NotifyingCatchesUp
<1>6. CASE Restart
  <2>1. toApp = <<>> /\ notifying = FALSE /\ UNCHANGED <<toApp, notifying, ntfyCnt>>
    BY <1>6 DEF Restart, DownIsEmpty, TypeOK, RelayTypeOK, busVars, cccVars
  <2>2. ntfyCnt = 0
    BY <1>6, FS_EmptySet DEF Restart, CountInv, NotifyCountsSubscribers
  <2>3. NotifyCalls' = {}
    BY <2>1 DEF NotifyCalls
  <2>4. (ntfyCnt' > 0) = FALSE
    BY <2>1, <2>2
  <2>. QED BY <2>1, <2>3, <2>4, Zenon DEF NotifyingCatchesUp
<1>7. ASSUME NEW p \in Phones, p \in ccc
      PROVE  ntfyCnt # 0
  BY <1>7, FS_EmptySet DEF CountInv, NotifyCountsSubscribers
<1>8. ASSUME NEW p \in Phones, UNCHANGED appVars,
             Connect(p) \/ Disconnect(p) \/ EnableNotify(p) \/ DisableNotify(p)
      PROVE  NotifyingCatchesUp'
  <2>1. UNCHANGED <<appUp, notifying>>
    BY <1>8 DEF Connect, Disconnect, LinkLost, EnableNotify, DisableNotify, appVars
  <2>. QED BY <1>1, <1>7, <1>8, <2>1, CountTold
           DEF Connect, Disconnect, EnableNotify, DisableNotify, busVars, cccVars
<1>9. ASSUME NEW p \in Phones, NEW req \in Requests, UNCHANGED appVars, Write(p, req)
      PROVE  NotifyingCatchesUp'
  <2>. DEFINE m == [kind |-> "WriteValue", id |-> writeId', req |-> req]
  <2>1. UNCHANGED <<appUp, notifying, ntfyCnt>>
    BY <1>9 DEF Write, appVars, cccVars
  <2>2. writeId' \in 1 .. MaxWrites
    BY <1>9, BoundsAssumption DEF Write, TypeOK, RelayTypeOK, GattTypeOK
  <2>3. m \in CallMsgs /\ m.kind = "WriteValue"
    BY <2>2 DEF CallMsgs
  <2>4. Call(m)
    BY <1>9 DEF Write
  <2>. QED BY <1>1, <2>1, <2>3, <2>4, WriteAppended DEF Call
<1>10. CASE (PropertyChanged \/ WriteReply) /\ UNCHANGED appVars
  BY <1>1, <1>10 DEF PropertyChanged, WriteReply, cccVars, appVars
<1>11. CASE ServiceRemoved
  <2>1. 1 \in 1 .. Len(fromApp) /\ fromApp[1].kind = "gone"
    BY <1>11, TailSeq, LenProperties DEF ServiceRemoved, Arrives, TypeOK, QueuesTypeOK
  <2>2. ~appUp /\ UNCHANGED appUp
    BY <1>11, <2>1 DEF ServiceRemoved, GoneIsLast
  <2>. QED BY <2>2 DEF NotifyingCatchesUp
<1>12. ASSUME NEW p \in Phones, TimeOut(p)
       PROVE  NotifyingCatchesUp'
  BY <1>1, <1>12 DEF TimeOut, WriteTimeout, appVars, busVars, cccVars
<1>. QED BY <1>2, <1>3, <1>4, <1>5, <1>6, <1>8, <1>9, <1>10, <1>11, <1>12
         DEF Next, RelayStep, PhoneStep, Deliver

\* The inductive invariant of the subscriptions.
RelayInv == TypeOK /\ GoneIsLast /\ DownIsEmpty /\ CountInv /\ NotifyingCatchesUp

\* A relay that is down, with nothing under way.
LEMMA InitRelayInv == Init => RelayInv
<1>. SUFFICES ASSUME Init
              PROVE  RelayInv
  OBVIOUS
<1>. USE DEF Init, GattInit
<1>1. GoneIsLast
  BY EmptySeq DEF GoneIsLast
<1>2. DownIsEmpty
  BY DEF DownIsEmpty
<1>3. CountInv
  BY FS_EmptySet DEF CountInv, NotifyCountsSubscribers
<1>4. NotifyCalls = {}
  BY DEF NotifyCalls
<1>5. NotifyingCatchesUp
  <2>1. notifying = FALSE /\ (ntfyCnt > 0) = FALSE
    OBVIOUS
  <2>. QED BY <1>4, <2>1, Zenon DEF NotifyingCatchesUp
<1>. QED BY <1>1, <1>2, <1>3, <1>5, InitType DEF RelayInv

\* Every step keeps the count and what is taken for it.
LEMMA NextRelayInv == RelayInv /\ [Next]_vars => RelayInv'
BY NextType, NextGone, NextDown, NextCount, NextCatchesUp DEF RelayInv

\* The count of phones with notifications on, how the relay learns of it and
\* what a relay leaves behind, in every state of every behaviour.
THEOREM RelayInvCorrect == Spec => []RelayInv
BY InitRelayInv, NextRelayInv, PTL DEF Spec

\* gatt-database.c never loses count: ntfyCnt is the number of phones that have
\* notifications on (NotifyCountsSubscribers).
THEOREM CountCorrect == Spec => []NotifyCountsSubscribers
<1>1. RelayInv => NotifyCountsSubscribers
  BY DEF RelayInv, CountInv
<1>. QED BY <1>1, RelayInvCorrect, PTL

\* rr.py is notifying, or about to be told so, exactly if some phone listens
\* (NotifyingCatchesUp).
THEOREM CatchesUpCorrect == Spec => []NotifyingCatchesUp
<1>1. RelayInv => NotifyingCatchesUp
  BY DEF RelayInv
<1>. QED BY <1>1, RelayInvCorrect, PTL
-----------------------------------------------------------------------------
\* How an answer reaches a phone.  What precedes place j of fromApp for phone p
\* is the queue before it and, before that, the last two it has heard.
First(id, n) == Part(id, 1, IF n <= Chunk + 1 THEN n ELSE Chunk + 1, n)

Rest(id, n) == Part(id, Chunk + 2, n, n)

PartAt(p, j, part) ==
  IF j > 0 THEN fromApp[j].kind = "Value" /\ fromApp[j].part = part
  ELSE Len(heard[p]) + j >= 1 /\ heard[p][Len(heard[p]) + j] = part

WholeBefore(p, i) ==
  \E n \in Lengths \ {0} :
    /\ n <= Chunk + 1 => PartAt(p, i - 1, First(pending[p].id, n))
    /\ n > Chunk + 1 => /\ PartAt(p, i - 2, First(pending[p].id, n))
                        /\ PartAt(p, i - 1, Rest(pending[p].id, n))

\* While the relay sleeps, the first part is the last that was sent; before
\* the success of a request stands the whole of its answer.
FirstSent(p) ==
  pcA = "sleep" /\ job.id = pending[p].id
    => PartAt(p, Len(fromApp), First(job.id, length))

WholeSent(p) ==
  \A i \in 1 .. Len(fromApp) :
    fromApp[i].kind = "ok" /\ fromApp[i].id = pending[p].id /\ pending[p].req # "other"
      => WholeBefore(p, i)

AnswerInv ==
  \A p \in Phones : listening[p] /\ Fits(p) => FirstSent(p) /\ WholeSent(p)

\* Only writes that were made are under way, as they were made.
WritesInv ==
  /\ \A i \in 1 .. Len(toApp) : toApp[i].id <= writeId
  /\ \A i \in 1 .. Len(fromApp) : fromApp[i].id <= writeId
  /\ job.id <= writeId
  /\ \A p \in Phones : pending[p].id <= writeId
  /\ \A i \in 1 .. Len(toApp), p \in Phones :
       toApp[i].id = pending[p].id /\ pending[p] # NoWrite => toApp[i].req = pending[p].req

\* A phone listens while it waits for a response, with a link and with
\* notifications on; the relay sleeps on an answer.
ListeningInv ==
  /\ \A p \in Phones : listening[p] => pending[p] # NoWrite /\ p \in ccc \cap connected
  /\ pcA = "sleep" => length \in Lengths \ {0}

\* Phones stop listening when they stop waiting, lose the link or switch
\* notifications off.
LEMMA NextListening == TypeOK /\ ListeningInv /\ [Next]_vars => ListeningInv'
<1>. SUFFICES ASSUME TypeOK, ListeningInv, [Next]_vars
              PROVE  ListeningInv'
  OBVIOUS
<1>. USE DEF ListeningInv, TypeOK, RelayTypeOK, GattTypeOK,
             cccVars, writeVars, heardVars, busVars
<1>1. ASSUME UNCHANGED <<listening, pending, ccc, connected>>,
             pcA' = "sleep" => length' \in Lengths \ {0}
      PROVE  ListeningInv'
  BY <1>1
<1>2. CASE UNCHANGED vars
  BY <1>1, <1>2 DEF vars, gattVars, appVars
<1>3. CASE RelayStep
  <2>1. UNCHANGED <<listening, pending, ccc, connected>>
    BY <1>3 DEF RelayStep, SetNotifying, IgnoreValue, WriteValue, SendRequest, Refused,
                NoAnswer, FirstPart, SecondPart, GattUnchanged
  <2>2. pcA' = "sleep" => length' \in Lengths \ {0}
    BY <1>3 DEF RelayStep, SetNotifying, IgnoreValue, WriteValue, SendRequest, Refused,
                NoAnswer, FirstPart, SecondPart, Return, Calls, Answered
  <2>. QED BY <1>1, <2>1, <2>2
<1>4. CASE Exit \/ Restart
  BY <1>1, <1>4 DEF Exit, Restart
<1>5. ASSUME NEW p \in Phones, UNCHANGED appVars,
             Connect(p) \/ EnableNotify(p) \/ DisableNotify(p)
      PROVE  ListeningInv'
  <2>1. UNCHANGED <<pending, pcA, length>>
    BY <1>5 DEF Connect, EnableNotify, DisableNotify, appVars
  <2>2. \A q \in Phones : listening'[q] => listening[q] /\ q \in ccc' \cap connected'
    BY <1>5 DEF Connect, EnableNotify, DisableNotify, appVars
  <2>. QED BY <2>1, <2>2
<1>6. ASSUME NEW p \in Phones, UNCHANGED appVars, Disconnect(p)
      PROVE  ListeningInv'
  <2>1. \A q \in Phones \ {p} : q \in ccc \cap connected => q \in ccc' \cap connected'
    BY <1>6 DEF Disconnect, LinkLost
  <2>2. \A q \in Phones : listening'[q] => listening[q] /\ q # p /\ pending'[q] = pending[q]
    BY <1>6 DEF Disconnect, LinkLost, Respond
  <2>3. UNCHANGED <<pcA, length>>
    BY <1>6 DEF appVars
  <2>. QED BY <2>1, <2>2, <2>3
<1>7. ASSUME NEW p \in Phones, NEW req \in Requests, UNCHANGED appVars, Write(p, req)
      PROVE  ListeningInv'
  <2>1. \A q \in Phones : q # p => pending'[q] = pending[q] /\ listening'[q] = listening[q]
    BY <1>7 DEF Write
  <2>2. pending'[p] = [id |-> writeId + 1, req |-> req] /\ listening'[p] = (p \in ccc)
    BY <1>7 DEF Write
  <2>3. pending'[p] # NoWrite
    BY <2>2 DEF NoWrite
  <2>4. p \in connected /\ UNCHANGED <<ccc, connected, pcA, length>>
    BY <1>7 DEF Write, appVars
  <2>. QED BY <2>1, <2>2, <2>3, <2>4
<1>8. CASE PropertyChanged /\ UNCHANGED appVars
  BY <1>1, <1>8 DEF PropertyChanged, appVars
<1>9. ASSUME NEW phones, Respond(phones), UNCHANGED <<ccc, connected, pcA, length>>
      PROVE  ListeningInv'
  BY <1>9 DEF Respond
<1>10. CASE WriteReply /\ UNCHANGED appVars
  BY <1>9, <1>10 DEF WriteReply, appVars
<1>11. CASE ServiceRemoved /\ UNCHANGED appVars
  BY <1>11 DEF ServiceRemoved, Respond, appVars
<1>12. ASSUME NEW p \in Phones, TimeOut(p)
       PROVE  ListeningInv'
  BY <1>9, <1>12 DEF TimeOut, WriteTimeout, appVars
<1>. QED BY <1>2, <1>3, <1>4, <1>5, <1>6, <1>7, <1>8, <1>10, <1>11, <1>12
         DEF Next, PhoneStep, Deliver

\* The relay and the queues only ever name writes that were made.
LEMMA NextWrites == TypeOK /\ WritesInv /\ [Next]_vars => WritesInv'
<1>. SUFFICES ASSUME TypeOK, WritesInv, [Next]_vars
              PROVE  WritesInv'
  OBVIOUS
<1>. USE DEF cccVars, writeVars, heardVars, busVars
<1>0. /\ toApp \in Seq(CallMsgs) /\ Len(toApp) \in Nat
      /\ fromApp \in Seq(AppMsgs) /\ Len(fromApp) \in Nat
      /\ writeId \in Nat
      /\ pending \in [Phones -> {NoWrite} \cup [id : 1 .. MaxWrites, req : Requests]]
  BY LenProperties, BoundsAssumption DEF TypeOK, RelayTypeOK, GattTypeOK, QueuesTypeOK
<1>a. \A i \in 1 .. Len(toApp) : toApp[i].id \in Nat
  BY <1>0, ElementOfSeq, BoundsAssumption DEF CallMsgs
<1>b. \A i \in 1 .. Len(fromApp) : fromApp[i].id \in Nat
  <2>1. \A m \in AppMsgs : m.id \in Nat
    BY BoundsAssumption DEF AppMsgs
  <2>. QED BY <1>0, <2>1, ElementOfSeq
<1>c. job.id \in Nat /\ \A p \in Phones : pending[p].id \in Nat
  BY <1>0 DEF NoWrite, TypeOK, RelayTypeOK
<1>1. ASSUME UNCHANGED <<toApp, fromApp, writeId, pending, job>>
      PROVE  WritesInv'
  BY <1>1 DEF WritesInv
<1>2. CASE UNCHANGED vars
  BY <1>1, <1>2 DEF vars, gattVars, appVars
<1>3. CASE RelayStep
  <2>1. UNCHANGED <<writeId, pending>>
    BY <1>3 DEF RelayStep, SetNotifying, IgnoreValue, WriteValue, SendRequest, Refused,
                NoAnswer, FirstPart, SecondPart, GattUnchanged
  <2>2. toApp # <<>> => Head(toApp).id <= writeId
    BY <1>0, TailSeq DEF WritesInv
  <2>3. Continues(fromApp', fromApp, writeId)
    BY <1>0, <1>3, <2>2, RelayStepSends DEF WritesInv
  <2>4. \A i \in 1 .. Len(fromApp') : fromApp'[i].id <= writeId
    BY <1>0, <2>3 DEF Continues, WritesInv
  <2>5. toApp' = toApp \/ (toApp # <<>> /\ toApp' = Tail(toApp))
    BY <1>3 DEF RelayStep, SetNotifying, IgnoreValue, WriteValue, SendRequest, Refused,
                NoAnswer, FirstPart, SecondPart, Calls
  <2>6. job' = job \/ job' = NoWrite \/ (toApp # <<>> /\ job'.id = Head(toApp).id)
    BY <1>3 DEF RelayStep, SetNotifying, IgnoreValue, WriteValue, SendRequest, Refused,
                NoAnswer, FirstPart, SecondPart, Calls, Return
  <2>7. job'.id <= writeId
    BY <1>0, <2>2, <2>6 DEF NoWrite, WritesInv
  <2>8. /\ \A i \in 1 .. Len(toApp') : toApp'[i].id <= writeId
        /\ \A i \in 1 .. Len(toApp'), p \in Phones :
             toApp'[i].id = pending[p].id /\ pending[p] # NoWrite
               => toApp'[i].req = pending[p].req
    <3>1. CASE toApp' = toApp
      BY <3>1 DEF WritesInv
    <3>2. CASE toApp # <<>> /\ toApp' = Tail(toApp)
      <4>1. \A i \in 1 .. Len(toApp') : i + 1 \in 1 .. Len(toApp) /\ toApp'[i] = toApp[i + 1]
        BY <1>0, <3>2, TailSeq
      <4>. QED BY <4>1 DEF WritesInv
    <3>. QED BY <2>5, <3>1, <3>2
  <2>. QED BY <2>1, <2>4, <2>7, <2>8 DEF WritesInv
<1>4. CASE Exit
  <2>0. Reply(0, "gone") \in AppMsgs
    BY ReplyType, BoundsAssumption
  <2>1. Reply(0, "gone").id = 0
    BY DEF Reply
  <2>2. \A i \in 1 .. Len(fromApp') : fromApp'[i].id <= writeId
    BY <1>0, <1>4, <2>0, <2>1, AppendProperties DEF Exit, WritesInv
  <2>3. \A i \in 1 .. Len(toApp') : FALSE
    BY <1>4, EmptySeq DEF Exit
  <2>4. job'.id = 0 /\ UNCHANGED <<writeId, pending>>
    BY <1>4 DEF Exit, NoWrite
  <2>. QED BY <1>0, <2>2, <2>3, <2>4 DEF WritesInv
<1>5. CASE Restart
  BY <1>1, <1>5 DEF Restart
<1>6. ASSUME UNCHANGED <<writeId, fromApp, job>>, UNCHANGED toApp \/ CountUp \/ CountDown,
             \A p \in Phones : pending'[p] = pending[p] \/ pending'[p] = NoWrite
      PROVE  WritesInv'
  <2>1. \A p \in Phones : pending'[p].id <= writeId
    BY <1>0, <1>6 DEF WritesInv, NoWrite
  <2>2. \A i \in 1 .. Len(toApp') :
          \/ i \in 1 .. Len(toApp) /\ toApp'[i] = toApp[i]
          \/ toApp'[i].id = 0
    <3>1. CASE UNCHANGED toApp
      BY <3>1
    <3>2. CASE ~UNCHANGED toApp
      <4>1. PICK m \in CallMsgs : toApp' = Append(toApp, m) /\ m.id = 0
        BY <1>6, <3>2, MethodType DEF CountUp, CountDown, Call, Method
      <4>. QED BY <1>0, <4>1, AppendProperties
    <3>. QED BY <3>1, <3>2
  <2>3. \A p \in Phones : pending'[p] # NoWrite => pending'[p] = pending[p] /\ pending[p].id # 0
    BY <1>0, <1>6
  <2>4. \A i \in 1 .. Len(toApp') : toApp'[i].id <= writeId
    BY <1>0, <2>2 DEF WritesInv
  <2>5. \A i \in 1 .. Len(toApp'), p \in Phones :
          toApp'[i].id = pending'[p].id /\ pending'[p] # NoWrite
            => toApp'[i].req = pending'[p].req
    BY <2>2, <2>3 DEF WritesInv
  <2>. QED BY <1>6, <2>1, <2>4, <2>5 DEF WritesInv
<1>7. ASSUME NEW p \in Phones, UNCHANGED appVars,
             Connect(p) \/ Disconnect(p) \/ EnableNotify(p) \/ DisableNotify(p)
      PROVE  WritesInv'
  <2>1. UNCHANGED <<writeId, fromApp, job>>
    BY <1>7 DEF Connect, Disconnect, LinkLost, EnableNotify, DisableNotify, appVars
  <2>2. UNCHANGED toApp \/ CountUp \/ CountDown
    BY <1>7 DEF Connect, Disconnect, EnableNotify, DisableNotify
  <2>3. \A q \in Phones : pending'[q] = pending[q] \/ pending'[q] = NoWrite
    BY <1>7 DEF Connect, Disconnect, LinkLost, EnableNotify, DisableNotify, Respond
  <2>. QED BY <1>6, <2>1, <2>2, <2>3
<1>8. ASSUME NEW p \in Phones, NEW req \in Requests, UNCHANGED appVars, Write(p, req)
      PROVE  WritesInv'
  <2>. DEFINE m == [kind |-> "WriteValue", id |-> writeId', req |-> req]
  <2>1. /\ writeId' = writeId + 1 /\ writeId' \in 1 .. MaxWrites
        /\ UNCHANGED <<fromApp, job>>
    BY <1>0, <1>8, BoundsAssumption DEF Write, appVars
  <2>2. /\ pending'[p].id = writeId' /\ pending'[p].req = req
        /\ \A q \in Phones \ {p} : pending'[q] = pending[q]
    BY <1>0, <1>8 DEF Write
  <2>3. \A i \in 1 .. Len(toApp') :
          (i \in 1 .. Len(toApp) /\ toApp'[i] = toApp[i]) \/ toApp'[i] = m
    <3>1. m \in CallMsgs
      BY <2>1 DEF CallMsgs
    <3>2. toApp' = toApp \/ toApp' = Append(toApp, m)
      BY <1>8 DEF Write, Call
    <3>. HIDE DEF m
    <3>. QED BY <1>0, <3>1, <3>2, AppendProperties
  <2>4. m.id = writeId + 1 /\ m.req = req
    BY <2>1
  <2>. HIDE DEF m
  <2>5. \A i \in 1 .. Len(toApp') : toApp'[i].id <= writeId'
    BY <1>0, <1>a, <2>1, <2>3, <2>4 DEF WritesInv
  <2>6. \A i \in 1 .. Len(toApp'), q \in Phones :
          toApp'[i].id = pending'[q].id /\ pending'[q] # NoWrite
            => toApp'[i].req = pending'[q].req
    <3>1. TAKE i \in 1 .. Len(toApp'), q \in Phones
    <3>2. CASE toApp'[i] = m
      BY <1>0, <2>1, <2>2, <2>4, <3>2 DEF WritesInv
    <3>3. CASE i \in 1 .. Len(toApp) /\ toApp'[i] = toApp[i]
      BY <1>0, <2>1, <2>2, <3>3 DEF WritesInv
    <3>. QED BY <2>3, <3>2, <3>3
  <2>7. /\ \A i \in 1 .. Len(fromApp') : fromApp'[i].id <= writeId'
        /\ job'.id <= writeId'
    BY <1>0, <1>b, <1>c, <2>1 DEF WritesInv
  <2>8. \A q \in Phones : pending'[q].id <= writeId'
    BY <1>0, <1>c, <2>1, <2>2 DEF WritesInv
  <2>. QED BY <2>5, <2>6, <2>7, <2>8 DEF WritesInv
<1>9. ASSUME NEW phones, Respond(phones) \/ UNCHANGED pending,
             UNCHANGED <<writeId, toApp, job>>,
             fromApp' = fromApp \/ (fromApp # <<>> /\ fromApp' = Tail(fromApp))
      PROVE  WritesInv'
  <2>1. \A p \in Phones : pending'[p] = pending[p] \/ pending'[p] = NoWrite
    BY <1>9 DEF Respond
  <2>2. \A p \in Phones : pending'[p].id <= writeId
    BY <1>0, <2>1 DEF WritesInv, NoWrite
  <2>3. \A i \in 1 .. Len(fromApp') : fromApp'[i].id <= writeId
    <3>1. CASE fromApp' = fromApp
      BY <3>1 DEF WritesInv
    <3>2. CASE fromApp # <<>> /\ fromApp' = Tail(fromApp)
      <4>1. \A i \in 1 .. Len(fromApp') :
              i + 1 \in 1 .. Len(fromApp) /\ fromApp'[i] = fromApp[i + 1]
        BY <1>0, <3>2, TailSeq
      <4>. QED BY <4>1 DEF WritesInv
    <3>. QED BY <1>9, <3>1, <3>2
  <2>. QED BY <1>9, <2>1, <2>2, <2>3 DEF WritesInv
<1>10. CASE Deliver /\ UNCHANGED appVars
  BY <1>9, <1>10 DEF Deliver, PropertyChanged, WriteReply, ServiceRemoved, Arrives, appVars
<1>11. ASSUME NEW p \in Phones, TimeOut(p)
       PROVE  WritesInv'
  BY <1>9, <1>11 DEF TimeOut, WriteTimeout, appVars
<1>. QED BY <1>2, <1>3, <1>4, <1>5, <1>7, <1>8, <1>10, <1>11 DEF Next, PhoneStep
-----------------------------------------------------------------------------
\* The parts of an answer are parts, and those that fit the link of a phone
\* reach it uncut.
LEMMA PartsFit ==
  ASSUME NEW p \in Phones, NEW id \in 0 .. MaxWrites, NEW n \in Lengths
  PROVE  /\ First(id, n) \in Parts /\ Rest(id, n) \in Parts
         /\ Fits(p) => /\ CutTo(First(id, n), Payload[p]) = First(id, n)
                       /\ CutTo(Rest(id, n), Payload[p]) = Rest(id, n)
<1>1. n \in Nat /\ Chunk \in Nat /\ Payload[p] \in Nat
  BY LengthsAssumption, ChunkAssumption, PayloadAssumption
<1>2. First(id, n) \in Parts /\ Rest(id, n) \in Parts
  BY <1>1 DEF First, Rest, Part, Parts
<1>3. ASSUME Fits(p)
      PROVE  /\ First(id, n).to - First(id, n).from + 1 <= Payload[p]
             /\ Rest(id, n).to - Rest(id, n).from + 1 <= Payload[p]
  BY <1>1, <1>3 DEF Fits, First, Rest, Part
<1>. QED BY <1>1, <1>2, <1>3, CutToType

\* A message that phone p hears leaves the queue and is the last it heard:
\* what precedes a place in the queue stays the same.
LEMMA HeardShift ==
  ASSUME TypeOK, PropertyChanged, NEW p \in Phones, p \in ccc \cap connected,
         pending[p] # NoWrite, NEW part \in Parts, CutTo(part, Payload[p]) = part,
         NEW j \in 0 .. Len(fromApp), PartAt(p, j, part)
  PROVE  PartAt(p, j - 1, part)'
<1>1. /\ fromApp \in Seq(AppMsgs) /\ fromApp # <<>> /\ fromApp' = Tail(fromApp)
      /\ heard \in [Phones -> Seq(Parts)] /\ Len(heard[p]) \in 0 .. 2
  BY DEF PropertyChanged, Arrives, TypeOK, QueuesTypeOK
<1>. DEFINE m == CutTo(Head(fromApp).part, Payload[p])
            t == LastTwo(Append(heard[p], m))
<1>2. /\ Head(fromApp) = fromApp[1] /\ Head(fromApp) \in AppMsgs
      /\ \A i \in 1 .. Len(fromApp) - 1 : fromApp'[i] = fromApp[i + 1]
      /\ Len(fromApp) \in Nat
  BY <1>1, TailSeq, LenProperties
<1>3. m \in Parts
  BY <1>2, CutToType, PayloadAssumption DEF AppMsgs
<1>4. heard'[p] = t
  BY DEF PropertyChanged
<1>5. /\ Len(t) \in 1 .. 2 /\ t[Len(t)] = m
      /\ Len(heard[p]) > 0 => Len(t) = 2 /\ t[1] = heard[p][Len(heard[p])]
  <2>1. heard[p] \in Seq(Parts)
    BY <1>1
  <2>. HIDE DEF m
  <2>. QED BY <1>1, <1>3, <2>1, LastTwoAppend
<1>. HIDE DEF t
<1>6. CASE j > 1
  <2>1. fromApp[j].kind = "Value" /\ fromApp[j].part = part
    BY <1>6 DEF PartAt
  <2>2. fromApp'[j - 1] = fromApp[j]
    BY <1>2, <1>6
  <2>. QED BY <1>6, <2>1, <2>2 DEF PartAt
<1>7. CASE j = 1
  <2>1. m = part
    BY <1>2, <1>7 DEF PartAt
  <2>2. Len(heard'[p]) \in 1 .. 2 /\ heard'[p][Len(heard'[p])] = part
    BY <1>4, <1>5, <2>1
  <2>3. \A n \in 1 .. 2 : n + (j - 1) = n /\ n >= 1
    BY <1>7
  <2>4. /\ Len(heard'[p]) + (j - 1) = Len(heard'[p])
        /\ Len(heard'[p]) + (j - 1) >= 1
    BY <2>2, <2>3
  <2>. QED BY <1>7, <2>2, <2>4 DEF PartAt
<1>8. CASE j = 0
  <2>1. Len(heard[p]) >= 1 /\ heard[p][Len(heard[p])] = part
    BY <1>1, <1>8 DEF PartAt
  <2>2. Len(t) = 2 /\ t[1] = part
    BY <1>1, <1>5, <2>1
  <2>3. Len(heard'[p]) + (-1) >= 1 /\ heard'[p][Len(heard'[p]) + (-1)] = part
    BY <1>4, <2>2
  <2>. QED BY <1>8, <2>3 DEF PartAt
<1>. QED BY <1>6, <1>7, <1>8, <1>2

\* Any other message that leaves the queue was no part.
LEMMA OtherShift ==
  ASSUME TypeOK, fromApp # <<>>, fromApp' = Tail(fromApp), Head(fromApp).kind # "Value",
         NEW p \in Phones, NEW part, NEW j \in 1 .. Len(fromApp), PartAt(p, j, part)
  PROVE  j > 1 /\ PartAt(p, j - 1, part)'
<1>1. fromApp \in Seq(AppMsgs) /\ Len(fromApp) \in Nat
  BY LenProperties DEF TypeOK, QueuesTypeOK
<1>2. fromApp[j].kind = "Value" /\ fromApp[j].part = part
  BY DEF PartAt
<1>3. j > 1
  BY <1>1, <1>2, TailSeq
<1>4. fromApp'[j - 1] = fromApp[j]
  BY <1>1, <1>3, TailSeq
<1>. QED BY <1>2, <1>3, <1>4 DEF PartAt

\* What is sent after a place leaves what precedes it.
LEMMA SentAfter ==
  ASSUME TypeOK, UNCHANGED <<heard, pending>>, Len(fromApp) <= Len(fromApp'),
         Len(fromApp') \in Nat,
         \A i \in 1 .. Len(fromApp) : fromApp'[i] = fromApp[i], NEW p \in Phones
  PROVE  /\ \A part : \A j \in Int : j <= Len(fromApp) /\ PartAt(p, j, part) => PartAt(p, j, part)'
         /\ WholeSent(p) =>
              \A i \in 1 .. Len(fromApp) :
                fromApp'[i].kind = "ok" /\ fromApp'[i].id = pending'[p].id /\ pending'[p].req # "other"
                  => WholeBefore(p, i)'
<1>0. Len(fromApp) \in Nat
  BY LenProperties DEF TypeOK, QueuesTypeOK
<1>1. ASSUME NEW part, NEW j \in Int, j <= Len(fromApp), PartAt(p, j, part)
      PROVE  PartAt(p, j, part)'
  BY <1>0, <1>1 DEF PartAt
<1>2. ASSUME NEW i \in 1 .. Len(fromApp), WholeBefore(p, i)
      PROVE  WholeBefore(p, i)'
  <2>1. i - 1 \in Int /\ i - 1 <= Len(fromApp) /\ i - 2 \in Int /\ i - 2 <= Len(fromApp)
    BY <1>0
  <2>. QED BY <1>1, <1>2, <2>1 DEF WholeBefore
<1>. QED BY <1>1, <1>2 DEF WholeSent

\* What phone p hears, or what others get a response to, leaves the queue.
LEMMA HeadLeaves ==
  ASSUME TypeOK, ListeningInv, NEW p \in Phones, Fits(p), listening[p], listening'[p],
         PropertyChanged \/ WriteReply, UNCHANGED appVars, FirstSent(p), WholeSent(p)
  PROVE  FirstSent(p)' /\ WholeSent(p)'
<1>0. fromApp \in Seq(AppMsgs) /\ fromApp # <<>> /\ fromApp' = Tail(fromApp)
  BY DEF PropertyChanged, WriteReply, Arrives, TypeOK, QueuesTypeOK
<1>1. /\ Len(fromApp) \in Nat /\ Len(fromApp) >= 1 /\ Len(fromApp') = Len(fromApp) - 1
      /\ \A i \in 1 .. Len(fromApp') : fromApp'[i] = fromApp[i + 1]
  BY <1>0, TailSeq, LenProperties
<1>2. UNCHANGED <<pcA, job, length>> /\ pending'[p] = pending[p]
  BY DEF PropertyChanged, WriteReply, Respond, appVars, writeVars
<1>3. p \in ccc \cap connected /\ pending[p] # NoWrite
  BY DEF ListeningInv
<1>4. PICK id \in 0 .. MaxWrites : id = pending[p].id /\ id = pending'[p].id
  BY <1>2, BoundsAssumption DEF TypeOK, RelayTypeOK, GattTypeOK, NoWrite
<1>5. ASSUME NEW n \in Lengths, NEW part \in {First(id, n), Rest(id, n)},
             NEW j \in 1 .. Len(fromApp), PartAt(p, j, part)
      PROVE  PartAt(p, j - 1, part)' /\ (WriteReply => j > 1)
  <2>1. CASE PropertyChanged
    <3>1. part \in Parts /\ CutTo(part, Payload[p]) = part
      BY <1>5, PartsFit
    <3>2. ~WriteReply
      BY <2>1 DEF PropertyChanged, WriteReply, Arrives
    <3>. QED BY <1>1, <1>3, <1>5, <2>1, <3>1, <3>2, HeardShift
  <2>2. CASE WriteReply
    <3>1. Head(fromApp).kind # "Value"
      BY <2>2 DEF WriteReply, Arrives
    <3>. QED BY <1>0, <1>5, <3>1, OtherShift
  <2>. QED BY <2>1, <2>2
<1>6. ASSUME NEW n \in Lengths, PropertyChanged, NEW j \in {0}, PartAt(p, j, First(id, n))
      PROVE  PartAt(p, j - 1, First(id, n))'
  <2>1. First(id, n) \in Parts /\ CutTo(First(id, n), Payload[p]) = First(id, n)
    BY PartsFit
  <2>2. j \in 0 .. Len(fromApp)
    BY <1>1
  <2>. QED BY <1>3, <1>6, <2>1, <2>2, HeardShift
<1>7. FirstSent(p)'
  <2>. SUFFICES ASSUME pcA' = "sleep", job'.id = pending'[p].id
                PROVE  PartAt(p, Len(fromApp), First(job.id, length))'
    BY DEF FirstSent
  <2>1. PICK n \in Lengths : n = length /\ n = length'
    BY <1>2 DEF ListeningInv
  <2>2. PICK j \in 1 .. Len(fromApp) : j = Len(fromApp) /\ j - 1 = Len(fromApp')
    BY <1>1
  <2>3. PartAt(p, j, First(id, n))
    BY <1>2, <1>4, <2>1, <2>2 DEF FirstSent
  <2>4. PartAt(p, j - 1, First(id, n))'
    BY <1>5, <2>3
  <2>. QED BY <1>4, <2>1, <2>2, <2>4
<1>8. ASSUME NEW i \in 1 .. Len(fromApp), i > 1, WholeBefore(p, i)
      PROVE  WholeBefore(p, i - 1)'
  <2>1. PICK n \in Lengths \ {0} :
          /\ n <= Chunk + 1 => PartAt(p, i - 1, First(id, n))
          /\ n > Chunk + 1 => PartAt(p, i - 2, First(id, n)) /\ PartAt(p, i - 1, Rest(id, n))
    BY <1>4, <1>8 DEF WholeBefore
  <2>2. i - 1 \in 1 .. Len(fromApp) /\ i - 2 \in 0 .. Len(fromApp) /\ (i - 1) - 1 = i - 2
    BY <1>1, <1>8
  <2>3. n \in Nat /\ Chunk \in Nat
    BY LengthsAssumption, ChunkAssumption
  <2>4. CASE n <= Chunk + 1
    <3>1. PartAt(p, (i - 1) - 1, First(id, n))'
      BY <1>5, <2>1, <2>2, <2>4
    <3>. QED BY <1>4, <2>3, <2>4, <3>1 DEF WholeBefore
  <2>5. CASE n > Chunk + 1
    <3>1. PartAt(p, (i - 1) - 1, Rest(id, n))' /\ (WriteReply => i - 1 > 1)
      BY <1>5, <2>1, <2>2, <2>5
    <3>2. PartAt(p, (i - 2) - 1, First(id, n))'
      <4>1. CASE i - 2 \in {0}
        <5>1. PropertyChanged
          BY <2>2, <3>1, <4>1
        <5>. QED BY <1>6, <2>1, <2>5, <4>1, <5>1
      <4>2. CASE i - 2 \in 1 .. Len(fromApp)
        BY <1>5, <2>1, <2>5, <4>2
      <4>. QED BY <2>2, <4>1, <4>2
    <3>3. (i - 1) - 2 = (i - 2) - 1
      OBVIOUS
    <3>. QED BY <1>4, <2>3, <2>5, <3>1, <3>2, <3>3 DEF WholeBefore
  <2>. QED BY <2>3, <2>4, <2>5
<1>9. WholeSent(p)'
  <2>. SUFFICES ASSUME NEW k \in 1 .. Len(fromApp'), fromApp'[k].kind = "ok",
                       fromApp'[k].id = pending'[p].id, pending'[p].req # "other"
                PROVE  WholeBefore(p, k)'
    BY DEF WholeSent
  <2>1. PICK i \in 1 .. Len(fromApp) : i = k + 1 /\ i > 1 /\ i - 1 = k
    BY <1>1
  <2>2. fromApp[i] = fromApp'[k]
    BY <1>1, <2>1
  <2>3. WholeBefore(p, i)
    BY <1>2, <2>2 DEF WholeSent
  <2>. QED BY <1>8, <2>1, <2>3
<1>. QED BY <1>7, <1>9

\* The relay's own steps: what it sends for a phone that listens.
LEMMA RelayStepAnswer ==
  ASSUME TypeOK, WritesInv, ListeningInv, RelayStep, NEW p \in Phones, listening[p],
         FirstSent(p), WholeSent(p)
  PROVE  FirstSent(p)' /\ WholeSent(p)'
<1>0. /\ fromApp \in Seq(AppMsgs) /\ Len(fromApp) \in Nat /\ job.id \in 0 .. MaxWrites
      /\ length \in Nat /\ Chunk \in Nat
  BY LenProperties, ChunkAssumption, BoundsAssumption
  DEF TypeOK, RelayTypeOK, QueuesTypeOK, NoWrite
<1>1. UNCHANGED <<pending, heard>>
  BY DEF RelayStep, SetNotifying, IgnoreValue, WriteValue, SendRequest, Refused, NoAnswer,
         FirstPart, SecondPart, GattUnchanged, writeVars, heardVars
<1>2. /\ fromApp' \in Seq(AppMsgs) /\ Len(fromApp') \in Nat
      /\ Len(fromApp) <= Len(fromApp')
      /\ \A i \in 1 .. Len(fromApp) : fromApp'[i] = fromApp[i]
  <2>1. job.id <= MaxWrites /\ (toApp # <<>> => Head(toApp).id <= MaxWrites)
    BY TailSeq, BoundsAssumption DEF TypeOK, RelayTypeOK, QueuesTypeOK, CallMsgs, NoWrite
  <2>. QED BY <2>1, RelayStepSends, BoundsAssumption, LenProperties DEF Continues
<1>3. \A part : \A j \in Int : j <= Len(fromApp) /\ PartAt(p, j, part) => PartAt(p, j, part)'
  BY <1>1, <1>2, SentAfter
<1>4. ASSUME \A i \in 1 .. Len(fromApp') :
               i > Len(fromApp) /\ fromApp'[i].kind = "ok" /\ fromApp'[i].id = pending[p].id
                 => pending[p].req = "other" \/ WholeBefore(p, i)'
      PROVE  WholeSent(p)'
  <2>. SUFFICES ASSUME NEW i \in 1 .. Len(fromApp'), fromApp'[i].kind = "ok",
                       fromApp'[i].id = pending'[p].id, pending'[p].req # "other"
                PROVE  WholeBefore(p, i)'
    BY DEF WholeSent
  <2>1. CASE i \in 1 .. Len(fromApp)
    BY <1>1, <1>2, <2>1, SentAfter
  <2>2. CASE i > Len(fromApp)
    BY <1>1, <1>4, <2>2
  <2>. QED BY <1>0, <2>1, <2>2
<1>5. CASE SetNotifying \/ WriteValue \/ SendRequest
  <2>1. pcA' # "sleep" /\ fromApp' = fromApp
    BY <1>5 DEF SetNotifying, WriteValue, SendRequest, Calls, busVars
  <2>. QED BY <1>0, <1>4, <2>1 DEF FirstSent
<1>6. ASSUME NEW m \in AppMsgs, Return(<<m>>), NEW k \in Nat, k = Len(fromApp) + 1,
             m.kind = "ok" /\ m.id = pending[p].id
               => pending[p].req = "other" \/ WholeBefore(p, k)'
      PROVE  FirstSent(p)' /\ WholeSent(p)'
  <2>1. pcA' = "idle" /\ fromApp' = Append(fromApp, m)
    BY <1>0, <1>6, SendOne DEF Return
  <2>2. Len(fromApp') = k /\ fromApp'[k] = m
    BY <1>0, <1>6, <2>1, AppendProperties
  <2>3. \A i \in 1 .. Len(fromApp') : i > Len(fromApp) => i = k
    BY <1>0, <1>6, <2>2
  <2>4. WholeSent(p)'
    BY <1>4, <1>6, <2>2, <2>3
  <2>. QED BY <2>1, <2>4 DEF FirstSent
<1>7. CASE IgnoreValue
  <2>0. PICK kind \in {"ok", "error"} : Return(<<Reply(Head(toApp).id, kind)>>)
    BY <1>7 DEF IgnoreValue
  <2>. DEFINE m == Reply(Head(toApp).id, kind)
  <2>1. /\ toApp # <<>> /\ Head(toApp).kind = "WriteValue" /\ Head(toApp).req = "other"
        /\ Return(<<m>>)
    BY <1>7, <2>0 DEF IgnoreValue, Calls
  <2>2. Head(toApp) \in CallMsgs /\ Head(toApp) = toApp[1] /\ 1 \in 1 .. Len(toApp)
    BY <2>1, TailSeq, LenProperties DEF TypeOK, QueuesTypeOK
  <2>3. m \in AppMsgs
    BY <2>1, <2>2, ReplyType DEF CallMsgs
  <2>4. m.id = Head(toApp).id
    BY DEF Reply
  <2>5. Head(toApp).id = pending[p].id => pending[p].req = "other"
    BY <2>1, <2>2 DEF WritesInv, ListeningInv
  <2>. HIDE DEF m
  <2>. QED BY <1>0, <1>6, <2>1, <2>3, <2>4, <2>5
<1>8. CASE Refused \/ NoAnswer
  <2>1. Reply(job.id, "error") \in AppMsgs
    BY <1>0, ReplyType
  <2>2. Reply(job.id, "error").kind = "error"
    BY DEF Reply
  <2>3. Return(<<Reply(job.id, "error")>>)
    BY <1>8 DEF Refused, NoAnswer
  <2>. QED BY <1>0, <1>6, <2>1, <2>2, <2>3
<1>9. ASSUME NEW n \in Lengths, FirstPart(n)
      PROVE  FirstSent(p)' /\ WholeSent(p)'
  <2>. DEFINE m == Signal(1, IF n <= Chunk + 1 THEN n ELSE Chunk + 1, n)
  <2>1. fromApp' = Append(fromApp, m) /\ length' = n /\ job' = job
    BY <1>9 DEF FirstPart
  <2>2. n \in Int
    BY LengthsAssumption
  <2>3. m \in AppMsgs
    BY <1>0, <2>2, SignalType
  <2>4. m.kind = "Value" /\ m.part = First(job.id, n)
    BY DEF Signal, First
  <2>. HIDE DEF m
  <2>5. Len(fromApp') = Len(fromApp) + 1 /\ fromApp'[Len(fromApp) + 1] = m
    BY <1>0, <2>1, <2>3, AppendProperties
  <2>6. FirstSent(p)'
    <3>1. PICK id \in 0 .. MaxWrites, k \in Nat :
            id = job.id /\ id = job'.id /\ k = Len(fromApp') /\ k > 0
      BY <1>0, <2>1, <2>5
    <3>2. fromApp'[k].kind = "Value" /\ fromApp'[k].part = First(id, n)
      BY <2>4, <2>5, <3>1
    <3>3. PartAt(p, k, First(id, n))'
      BY <3>1, <3>2 DEF PartAt, First
    <3>. QED BY <2>1, <3>1, <3>3 DEF FirstSent
  <2>7. \A i \in 1 .. Len(fromApp') : i > Len(fromApp) => fromApp'[i].kind # "ok"
    BY <1>0, <2>4, <2>5
  <2>. QED BY <1>4, <2>6, <2>7
<1>10. CASE SecondPart
  <2>. DEFINE ok == Reply(job.id, "ok")
              error == Reply(job.id, "error")
              signal == Signal(Chunk + 2, length, length)
  <2>1. ok \in AppMsgs /\ error \in AppMsgs /\ signal \in AppMsgs
    BY <1>0, ReplyType, SignalType
  <2>2. /\ ok.kind = "ok" /\ ok.id = job.id /\ error.kind = "error"
        /\ signal.kind = "Value" /\ signal.part = Rest(job.id, length)
    BY DEF Reply, Signal, Rest
  <2>3. length \in Lengths \ {0} /\ pcA = "sleep"
    BY <1>10 DEF SecondPart, ListeningInv
  <2>4. \/ length < Chunk /\ Return(<<ok>>)
        \/ Return(<<error>>)
        \/ length > Chunk + 1 /\ Return(<<signal, ok>>)
    BY <1>0, <1>10 DEF SecondPart
  <2>. HIDE DEF ok, error, signal
  <2>5. PICK n \in Lengths \ {0}, id \in 0 .. MaxWrites, k \in Nat :
          n = length /\ id = job.id /\ k = Len(fromApp)
    BY <1>0, <2>3
  <2>6. id = pending[p].id => PartAt(p, k, First(id, n))'
    BY <1>0, <1>3, <2>3, <2>5 DEF FirstSent
  <2>7. CASE Return(<<error>>)
    BY <1>0, <1>6, <2>1, <2>2, <2>7
  <2>8. CASE length < Chunk /\ Return(<<ok>>)
    <3>1. (k + 1) - 1 = k
      OBVIOUS
    <3>2. n <= Chunk + 1 /\ ~(n > Chunk + 1)
      BY <1>0, <2>5, <2>8
    <3>3. id = pending[p].id => WholeBefore(p, k + 1)'
      BY <1>1, <2>6, <3>1, <3>2 DEF WholeBefore
    <3>. QED BY <1>6, <2>1, <2>2, <2>5, <2>8, <3>3
  <2>9. CASE length > Chunk + 1 /\ Return(<<signal, ok>>)
    <3>. DEFINE s == Append(fromApp, signal)
    <3>1. fromApp' = Append(s, ok) /\ pcA' = "idle"
      BY <1>0, <2>1, <2>9, SendTwo DEF Return
    <3>2. s \in Seq(AppMsgs) /\ Len(s) = k + 1 /\ s[k + 1] = signal
      BY <1>0, <2>1, <2>5, AppendProperties
    <3>. HIDE DEF s
    <3>3. /\ Len(fromApp') = k + 2 /\ fromApp'[k + 2] = ok /\ fromApp'[k + 1] = signal
      BY <2>1, <2>5, <3>1, <3>2, AppendProperties
    <3>4. PartAt(p, k + 1, Rest(id, n))'
      <4>1. fromApp'[k + 1].kind = "Value" /\ fromApp'[k + 1].part = Rest(id, n)
        BY <2>2, <2>5, <3>3
      <4>2. k + 1 > 0
        OBVIOUS
      <4>. QED BY <4>1, <4>2 DEF PartAt, Rest
    <3>5. n > Chunk + 1 /\ ~(n <= Chunk + 1) /\ (k + 2) - 2 = k /\ (k + 2) - 1 = k + 1
      BY <1>0, <2>5, <2>9
    <3>6. id = pending[p].id => WholeBefore(p, k + 2)'
      BY <1>1, <2>5, <2>6, <3>4, <3>5 DEF WholeBefore
    <3>7. \A i \in 1 .. Len(fromApp') : i > Len(fromApp) => i = k + 1 \/ i = k + 2
      BY <2>5, <3>3
    <3>8. WholeSent(p)'
      BY <1>4, <2>2, <2>5, <3>3, <3>6, <3>7
    <3>. QED BY <3>1, <3>8 DEF FirstSent
  <2>. QED BY <2>4, <2>7, <2>8, <2>9
<1>. QED BY <1>5, <1>7, <1>8, <1>9, <1>10 DEF RelayStep

\* No step takes the success of a request away from the answer before it.
LEMMA NextAnswer ==
  TypeOK /\ WritesInv /\ ListeningInv /\ AnswerInv /\ [Next]_vars => AnswerInv'
<1>. SUFFICES ASSUME TypeOK, WritesInv, ListeningInv, AnswerInv, [Next]_vars,
                     NEW p \in Phones, listening'[p], Fits(p)
              PROVE  FirstSent(p)' /\ WholeSent(p)'
  BY DEF AnswerInv, Fits
<1>. USE DEF cccVars, writeVars, heardVars, busVars
<1>0. fromApp \in Seq(AppMsgs) /\ Len(fromApp) \in Nat
  BY LenProperties DEF TypeOK, QueuesTypeOK
<1>1. listening[p] => FirstSent(p) /\ WholeSent(p)
  BY DEF AnswerInv
<1>2. ASSUME listening[p], UNCHANGED fromApp,
             pending'[p] = pending[p], heard'[p] = heard[p],
             UNCHANGED <<pcA, job, length>> \/ pcA' # "sleep"
      PROVE  FirstSent(p)' /\ WholeSent(p)'
  BY <1>1, <1>2 DEF FirstSent, WholeSent, WholeBefore, PartAt
<1>3. CASE UNCHANGED vars
  BY <1>2, <1>3 DEF vars, gattVars, appVars
<1>4. CASE RelayStep
  <2>1. listening[p]
    BY <1>4 DEF RelayStep, SetNotifying, IgnoreValue, WriteValue, SendRequest, Refused,
                NoAnswer, FirstPart, SecondPart, GattUnchanged
  <2>. QED BY <1>1, <1>4, <2>1, RelayStepAnswer
<1>5. CASE Exit
  <2>. DEFINE m == Reply(0, "gone")
  <2>1. m \in AppMsgs
    BY ReplyType, BoundsAssumption
  <2>2. m.kind = "gone"
    BY DEF Reply
  <2>3. fromApp' = Append(fromApp, m)
    BY <1>5 DEF Exit
  <2>. HIDE DEF m
  <2>4. /\ Len(fromApp') \in Nat /\ Len(fromApp') = Len(fromApp) + 1
        /\ \A i \in 1 .. Len(fromApp) : fromApp'[i] = fromApp[i]
        /\ fromApp'[Len(fromApp) + 1].kind = "gone"
    BY <1>0, <2>1, <2>2, <2>3, AppendProperties
  <2>5. UNCHANGED <<listening, pending, heard>> /\ pcA' = "down"
    BY <1>5 DEF Exit
  <2>6. WholeSent(p)'
    <3>1. WholeSent(p) =>
            \A i \in 1 .. Len(fromApp) :
              fromApp'[i].kind = "ok" /\ fromApp'[i].id = pending'[p].id /\ pending'[p].req # "other"
                => WholeBefore(p, i)'
      BY <1>0, <2>4, <2>5, SentAfter
    <3>. QED BY <1>0, <1>1, <2>4, <2>5, <3>1 DEF WholeSent
  <2>. QED BY <2>5, <2>6 DEF FirstSent
<1>6. CASE Restart
  BY <1>2, <1>6 DEF Restart
<1>7. ASSUME NEW q \in Phones, UNCHANGED appVars,
             Connect(q) \/ Disconnect(q) \/ EnableNotify(q) \/ DisableNotify(q)
      PROVE  FirstSent(p)' /\ WholeSent(p)'
  <2>1. listening[p] /\ pending'[p] = pending[p] /\ heard'[p] = heard[p]
    BY <1>7 DEF Connect, Disconnect, LinkLost, Respond, EnableNotify, DisableNotify,
                TypeOK, RelayTypeOK, GattTypeOK
  <2>2. UNCHANGED <<fromApp, pcA, job, length>>
    BY <1>7 DEF Connect, Disconnect, LinkLost, EnableNotify, DisableNotify, appVars
  <2>. QED BY <1>2, <2>1, <2>2
<1>8. ASSUME NEW q \in Phones, NEW req \in Requests, UNCHANGED appVars, Write(q, req)
      PROVE  FirstSent(p)' /\ WholeSent(p)'
  <2>1. UNCHANGED <<fromApp, pcA, job, length>>
    BY <1>8 DEF Write, appVars
  <2>2. CASE p # q
    <3>1. listening[p] /\ pending'[p] = pending[p] /\ heard'[p] = heard[p]
      BY <1>8, <2>2 DEF Write
    <3>. QED BY <1>2, <2>1, <3>1
  <2>3. CASE p = q
    <3>1. pending'[p].id = writeId + 1 /\ writeId \in Nat
      BY <1>8, <2>3, BoundsAssumption DEF Write, TypeOK, RelayTypeOK, GattTypeOK
    <3>2. job.id # writeId + 1
      BY <3>1, BoundsAssumption DEF WritesInv, TypeOK, RelayTypeOK, NoWrite
    <3>3. \A i \in 1 .. Len(fromApp) : fromApp[i].id # writeId + 1
      <4>1. \A m \in AppMsgs : m.id \in Nat
        BY BoundsAssumption DEF AppMsgs
      <4>2. \A i \in 1 .. Len(fromApp) : fromApp[i].id \in Nat
        BY <1>0, <4>1, ElementOfSeq
      <4>. QED BY <3>1, <4>2 DEF WritesInv
    <3>. QED BY <2>1, <3>1, <3>2, <3>3 DEF FirstSent, WholeSent
  <2>. QED BY <2>2, <2>3
<1>9. CASE (PropertyChanged \/ WriteReply) /\ UNCHANGED appVars
  <2>1. listening[p]
    BY <1>9 DEF PropertyChanged, WriteReply, Respond
  <2>. QED BY <1>1, <1>9, <2>1, HeadLeaves
<1>10. CASE ServiceRemoved
  BY <1>10 DEF ServiceRemoved, Respond
<1>11. ASSUME NEW q \in Phones, TimeOut(q)
       PROVE  FirstSent(p)' /\ WholeSent(p)'
  <2>1. listening[p] /\ pending'[p] = pending[p] /\ heard'[p] = heard[p]
    BY <1>11 DEF TimeOut, WriteTimeout, Respond
  <2>. QED BY <1>2, <1>11, <2>1 DEF TimeOut, WriteTimeout, appVars
<1>. QED BY <1>3, <1>4, <1>5, <1>6, <1>7, <1>8, <1>9, <1>10, <1>11
         DEF Next, PhoneStep, Deliver

\* What precedes a success at the head of the queue has been heard.
LEMMA WholeIsHeard ==
  ASSUME TypeOK, AnswerInv, NEW p \in Phones, listening[p], Fits(p), Confirmed(p),
         pending[p].req # "other"
  PROVE  HeardWhole(p, pending[p].id)
<1>1. /\ fromApp \in Seq(AppMsgs) /\ fromApp # <<>>
      /\ Head(fromApp).kind = "ok" /\ Head(fromApp).id = pending[p].id
  BY DEF Confirmed, WriteReply, Arrives, TypeOK, QueuesTypeOK
<1>2. 1 \in 1 .. Len(fromApp) /\ Head(fromApp) = fromApp[1]
  BY <1>1, TailSeq, LenProperties
<1>3. WholeBefore(p, 1)
  BY <1>1, <1>2 DEF AnswerInv, WholeSent
<1>. DEFINE id == pending[p].id
<1>4. PICK n \in Lengths \ {0} :
        /\ n <= Chunk + 1 => PartAt(p, 0, First(id, n))
        /\ n > Chunk + 1 => PartAt(p, -1, First(id, n)) /\ PartAt(p, 0, Rest(id, n))
  BY <1>3 DEF WholeBefore
<1>5. n \in Nat /\ Chunk \in Nat /\ Len(heard[p]) \in 0 .. 2
  BY LengthsAssumption, ChunkAssumption DEF TypeOK, QueuesTypeOK
<1>6. CASE n <= Chunk + 1
  <2>1. PartAt(p, 0, Part(id, 1, n, n))
    BY <1>4, <1>6 DEF First
  <2>2. Len(heard[p]) > 0 /\ heard[p][Len(heard[p])] = Part(id, 1, n, n)
    BY <1>5, <2>1 DEF PartAt
  <2>. QED BY <2>2 DEF HeardWhole, Part
<1>7. CASE n > Chunk + 1
  <2>1. PartAt(p, -1, Part(id, 1, Chunk + 1, n)) /\ PartAt(p, 0, Part(id, Chunk + 2, n, n))
    BY <1>4, <1>5, <1>7 DEF First, Rest
  <2>2. Len(heard[p]) = 2
    BY <1>5, <2>1 DEF PartAt
  <2>3. heard[p][1] = Part(id, 1, Chunk + 1, n) /\ heard[p][2] = Part(id, Chunk + 2, n, n)
    BY <2>1, <2>2 DEF PartAt
  <2>4. (Chunk + 2) - 1 = Chunk + 1
    BY <1>5
  <2>. QED BY <2>2, <2>3, <2>4 DEF HeardWhole, Part
<1>. QED BY <1>5, <1>6, <1>7

\* The inductive invariant of the answers.
AnswersInv == TypeOK /\ WritesInv /\ ListeningInv /\ AnswerInv

\* At the start nobody has written anything.
LEMMA InitAnswersInv == Init => AnswersInv
<1>. SUFFICES ASSUME Init
              PROVE  AnswersInv
  OBVIOUS
<1>. USE DEF Init, GattInit
<1>1. \A p \in Phones : ~listening[p] /\ pending[p] = NoWrite
  OBVIOUS
<1>2. AnswerInv /\ ListeningInv
  BY <1>1 DEF AnswerInv, ListeningInv
<1>3. WritesInv
  BY <1>1, EmptySeq DEF WritesInv, NoWrite
<1>. QED BY <1>2, <1>3, InitType DEF AnswersInv

\* Every step keeps the answers whole.
LEMMA NextAnswersInv == AnswersInv /\ [Next]_vars => AnswersInv'
BY NextType, NextWrites, NextListening, NextAnswer DEF AnswersInv

\* What is under way between the relay and bluetoothd is what was asked, and
\* an answer is whole when its success is sent, in every state.
THEOREM AnswersInvCorrect == Spec => []AnswersInv
BY InitAnswersInv, NextAnswersInv, PTL DEF Spec

\* write_reply_cb tells a phone of success only after it was notified of the
\* whole answer (AnswerArrivesWhole).
THEOREM AnswerCorrect == Spec => AnswerArrivesWhole
<1>1. AnswersInv /\ [Next]_vars =>
        [\A p \in Phones :
           Confirmed(p) /\ pending[p].req # "other" /\ listening[p] /\ Fits(p)
             => HeardWhole(p, pending[p].id)]_vars
  BY WholeIsHeard DEF AnswersInv
<1>. QED BY <1>1, AnswersInvCorrect, PTL DEF Spec, AnswerArrivesWhole
=============================================================================
