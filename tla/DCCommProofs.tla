---------------------------- MODULE DCCommProofs ----------------------------
(***************************************************************************)
(* Theorems about DCCommParser, for every size of the buffer and every     *)
(* stream of bytes, whatever lengths it has.                               *)
(***************************************************************************)
EXTENDS DCCommParser, LeastNumber, SequenceTheorems

\* The index runs behind the bytes since the 44, and a length of 0 has its
\* counter so far from 1 that the packet does not end.
Bounded ==
  /\ u8RxBuffIndex <= MaxSince
  /\ u8RxStateMachine # "STX" => u8RxBuffIndex < Len(since)
  /\ u8RxStateMachine = "DATA" /\ u8RxBuff[1] = 0 =>
       \/ u8RxDataIndex = 0 /\ u8RxBuffIndex = 2
       \/ u8RxDataIndex + u8RxBuffIndex = UINT_MAX + 3

\* The buffer and its indices are only meaningful together.
Inv == TypeOK /\ IndexFollowsState /\ Bounded

\* The parser starts in the inductive invariant.
LEMMA InitInv ==
  ASSUME Init
  PROVE  Inv
<1>1. u8RxBuff \in [0 .. UARTBUFFSIZE - 1 -> Byte]
  BY DEF Init, Byte
<1>2. 0 \in 0 .. UINT_MAX /\ 0 \in -4 .. 11
  BY UintAssumption
<1>3. <<>> \in Seq(Byte) /\ Len(<<>>) <= MaxSince
  BY BoundAssumption, UintAssumption
<1>4. TypeOK
  BY <1>1, <1>2, <1>3 DEF Init, TypeOK, RxStates
<1>5. IndexFollowsState
  BY SizeAssumption DEF Init, IndexFollowsState
<1>6. Bounded
  BY BoundAssumption, UintAssumption DEF Init, Bounded
<1>. QED BY <1>4, <1>5, <1>6 DEF Inv

\* Storing a byte, in the buffer or behind it, keeps the buffer's type and its
\* other cells.
LEMMA StoreType ==
  ASSUME TypeOK, NEW b \in Bytes, Store(b)
  PROVE  /\ u8RxBuff' \in [0 .. UARTBUFFSIZE - 1 -> Byte]
         /\ u8RxBuffIndex \in 0 .. UARTBUFFSIZE - 1 => u8RxBuff'[u8RxBuffIndex] = b
         /\ \A i \in 0 .. UARTBUFFSIZE - 1 :
              i # u8RxBuffIndex => u8RxBuff'[i] = u8RxBuff[i]
<1>1. DOMAIN u8RxBuff = 0 .. UARTBUFFSIZE - 1
  BY DEF TypeOK
<1>. QED BY <1>1, BytesAssumption DEF TypeOK, Store

\* What is known of the numbers.
LEMMA Numbers ==
  ASSUME TypeOK
  PROVE  /\ UARTBUFFSIZE \in Nat /\ UARTBUFFSIZE > 4 /\ 1 \in 0 .. UARTBUFFSIZE - 1
         /\ UINT_MAX \in Nat /\ UINT_MAX > 255 /\ MaxSince \in Nat /\ MaxSince < UINT_MAX
         /\ u8RxBuffIndex \in Nat /\ u8RxDataIndex \in 0 .. UINT_MAX
         /\ u8RxBuff[1] \in 0 .. 255
         /\ since \in Seq(Byte) /\ Len(since) \in Nat /\ Len(since) <= MaxSince
BY SizeAssumption, UintAssumption, BoundAssumption, LenProperties DEF TypeOK, Byte

\* In the middle of the data the length byte is behind the index.
LEMMA InData ==
  ASSUME Inv, u8RxStateMachine = "DATA"
  PROVE  /\ u8RxBuffIndex >= 2
         /\ u8RxDataIndex = 1 => u8RxBuff[1] # 0 /\ u8RxBuffIndex = u8RxBuff[1] + 1
<1>1. PICK l \in 0 .. 255 : l = u8RxBuff[1]
  BY Numbers DEF Inv
<1>2. CASE u8RxDataIndex \in 1 .. l /\ u8RxBuffIndex = 2 + l - u8RxDataIndex
  BY <1>1, <1>2, Numbers DEF Inv
<1>3. CASE l = 0 /\ u8RxBuffIndex >= 2
  BY <1>1, <1>3, Numbers DEF Inv, Bounded
<1>. QED BY <1>1, <1>2, <1>3 DEF Inv, IndexFollowsState

\* A received byte moves the parser to a state that its index and its counter
\* agree with.
LEMMA ParseInv ==
  ASSUME Inv, NEW b \in Bytes, Receive(b)
  PROVE  /\ u8RxStateMachine' \in RxStates
         /\ u8RxBuff' \in [0 .. UARTBUFFSIZE - 1 -> Byte]
         /\ u8RxBuffIndex' \in 0 .. UINT_MAX
         /\ u8RxDataIndex' \in 0 .. UINT_MAX
         /\ bRxFinish' \in BOOLEAN
         /\ ret' \in -4 .. 11
         /\ IndexFollowsState' /\ Bounded'
<1>0. /\ TypeOK /\ b \in 0 .. 255
      /\ u8RxStateMachine \in RxStates /\ bRxFinish \in BOOLEAN
      /\ u8RxBuff \in [0 .. UARTBUFFSIZE - 1 -> Byte]
      /\ u8RxStateMachine = "STX" \/ Len(since) < MaxSince
  BY BytesAssumption DEF Inv, TypeOK, Byte, Receive
<1>1. /\ u8RxStateMachine # "STX" => Len(since') = Len(since) + 1
      /\ b = DEF_DCCOMM_STX /\ u8RxStateMachine = "STX" => Len(since') = 1
  <2>1. Len(Append(since, b)) = Len(since) + 1
    BY <1>0, Numbers, AppendProperties DEF Byte
  <2>. QED BY <2>1 DEF Receive
<1>2. PICK l \in 0 .. 255 : l = u8RxBuff[1]
  BY <1>0, Numbers
<1>3. CASE StartOfPacket(b)
  <2>1. /\ u8RxStateMachine' = "2NDSYNC" /\ u8RxBuffIndex' = 0 /\ ret' = 0
        /\ UNCHANGED <<u8RxBuff, u8RxDataIndex, bRxFinish>> /\ Len(since') = 1
    BY <1>1, <1>3 DEF StartOfPacket
  <2>2. IndexFollowsState' /\ Bounded'
    BY <1>0, <2>1, Numbers DEF IndexFollowsState, Bounded
  <2>. QED BY <1>0, <2>1, <2>2, Numbers DEF RxStates
<1>4. CASE SecondSync(b)
  <2>1. /\ u8RxStateMachine = "2NDSYNC" /\ u8RxBuffIndex = 0
        /\ u8RxStateMachine' = "LENGTH" /\ u8RxBuffIndex' = 1 /\ ret' = 0
        /\ Store(b) /\ UNCHANGED <<u8RxDataIndex, bRxFinish>>
    BY <1>4 DEF SecondSync, Advance, Inv, IndexFollowsState
  <2>2. u8RxBuff' \in [0 .. UARTBUFFSIZE - 1 -> Byte]
    BY <1>0, <2>1, StoreType
  <2>3. IndexFollowsState' /\ Bounded'
    BY <1>0, <1>1, <2>1, Numbers DEF IndexFollowsState, Bounded, Inv
  <2>. QED BY <1>0, <2>1, <2>2, <2>3, Numbers DEF RxStates
<1>5. CASE Length(b)
  <2>1. /\ u8RxStateMachine = "LENGTH" /\ u8RxBuffIndex = 1
        /\ u8RxStateMachine' = "DATA" /\ u8RxBuffIndex' = 2 /\ ret' = 0
        /\ Store(b) /\ u8RxDataIndex' = b /\ UNCHANGED bRxFinish
    BY <1>5 DEF Length, Advance, Inv, IndexFollowsState
  <2>2. u8RxBuff' \in [0 .. UARTBUFFSIZE - 1 -> Byte] /\ u8RxBuff'[1] = b
    BY <1>0, <2>1, StoreType, Numbers
  <2>3. IndexFollowsState' /\ Bounded'
    BY <1>0, <1>1, <2>1, <2>2, Numbers DEF IndexFollowsState, Bounded, Inv
  <2>. QED BY <1>0, <2>1, <2>2, <2>3, Numbers DEF RxStates
<1>6. ASSUME Data(b) \/ ChecksumByte(b)
      PROVE  /\ u8RxStateMachine = "DATA" /\ u8RxBuffIndex' = u8RxBuffIndex + 1
             /\ u8RxBuff' \in [0 .. UARTBUFFSIZE - 1 -> Byte] /\ u8RxBuff'[1] = l
             /\ u8RxBuffIndex >= 2 /\ u8RxBuffIndex' <= MaxSince
             /\ u8RxBuffIndex' < Len(since')
  <2>1. /\ u8RxStateMachine = "DATA" /\ u8RxBuffIndex' = u8RxBuffIndex + 1 /\ Store(b)
    BY <1>6 DEF Data, ChecksumByte, Advance
  <2>2. u8RxBuffIndex >= 2 /\ u8RxBuffIndex < Len(since)
    BY <2>1, InData DEF Inv, Bounded
  <2>3. u8RxBuff' \in [0 .. UARTBUFFSIZE - 1 -> Byte] /\ u8RxBuff'[1] = l
    BY <1>0, <1>2, <2>1, <2>2, StoreType, Numbers
  <2>. QED BY <1>0, <1>1, <2>1, <2>2, <2>3, Numbers
<1>7. CASE Data(b)
  <2>1. /\ u8RxDataIndex # 1 /\ ret' = 0 /\ u8RxStateMachine' = "DATA" /\ UNCHANGED bRxFinish
        /\ u8RxDataIndex' = IF u8RxDataIndex = 0 THEN UINT_MAX ELSE u8RxDataIndex - 1
    BY <1>7 DEF Data, CountDown
  <2>2. CASE u8RxDataIndex \in 1 .. l /\ u8RxBuffIndex = 2 + l - u8RxDataIndex
    <3>1. u8RxDataIndex' \in 1 .. l /\ u8RxBuffIndex' = 2 + l - u8RxDataIndex'
      BY <1>0, <1>6, <1>7, <2>1, <2>2, Numbers
    <3>2. IndexFollowsState'
      <4>1. u8RxBuffIndex' < UARTBUFFSIZE \/ l \notin Fitting
        <5>0. PICK left \in 1 .. l : u8RxBuffIndex' = 2 + l - left
          BY <3>1
        <5>1. u8RxBuffIndex' \in Nat /\ u8RxBuffIndex' <= l + 1
          BY <5>0
        <5>2. l \in Fitting => l <= UARTBUFFSIZE - 3
          BY DEF Fitting
        <5>. QED BY <5>1, <5>2, SizeAssumption
      <4>. QED BY <1>6, <1>7, <2>1, <3>1, <4>1 DEF IndexFollowsState
    <3>3. Bounded'
      BY <1>6, <1>7, <2>1, <3>1 DEF Bounded
    <3>4. u8RxDataIndex' \in 0 .. UINT_MAX /\ u8RxBuffIndex' \in 0 .. UINT_MAX
      <4>1. UINT_MAX \in Nat /\ UINT_MAX > 255 /\ u8RxBuffIndex \in Nat
            /\ MaxSince \in Nat /\ MaxSince < UINT_MAX
        BY <1>0, Numbers
      <4>2. u8RxDataIndex' \in 0 .. UINT_MAX
        BY <3>1, <4>1
      <4>3. u8RxBuffIndex' \in 0 .. UINT_MAX
        BY <1>6, <1>7, <4>1
      <4>. QED BY <4>2, <4>3
    <3>. QED BY <1>0, <1>6, <1>7, <2>1, <3>2, <3>3, <3>4 DEF RxStates
  <2>3. CASE l = 0 /\ u8RxBuffIndex >= 2
    <3>1. \/ u8RxDataIndex = 0 /\ u8RxBuffIndex = 2
          \/ u8RxDataIndex + u8RxBuffIndex = UINT_MAX + 3
      BY <1>2, <1>6, <1>7, <2>3 DEF Inv, Bounded
    <3>2. u8RxDataIndex' \in 0 .. UINT_MAX /\ u8RxDataIndex' + u8RxBuffIndex' = UINT_MAX + 3
      <4>1. u8RxBuffIndex \in Nat /\ u8RxDataIndex \in 0 .. UINT_MAX /\ UINT_MAX \in Nat
        BY <1>0, Numbers
      <4>2. u8RxBuffIndex' = u8RxBuffIndex + 1
        BY <1>6, <1>7
      <4>3. CASE u8RxDataIndex = 0
        <5>1. u8RxDataIndex' = UINT_MAX
          BY <2>1, <4>3
        <5>2. u8RxBuffIndex <= MaxSince /\ MaxSince \in Nat /\ MaxSince < UINT_MAX
          BY <1>0, <1>6, <1>7, <4>1, <4>2, Numbers
        <5>3. u8RxBuffIndex # UINT_MAX + 3
          BY <4>1, <5>2
        <5>4. u8RxBuffIndex = 2
          BY <3>1, <4>1, <4>3, <5>3
        <5>. QED BY <4>1, <4>2, <5>1, <5>4
      <4>4. CASE u8RxDataIndex # 0
        <5>1. u8RxDataIndex' = u8RxDataIndex - 1
          BY <2>1, <4>4
        <5>2. u8RxDataIndex + u8RxBuffIndex = UINT_MAX + 3
          BY <3>1, <4>4
        <5>. QED BY <4>1, <4>2, <4>4, <5>1, <5>2
      <4>. QED BY <4>3, <4>4
    <3>3. u8RxBuffIndex' \in Nat /\ u8RxBuffIndex' >= 2 /\ u8RxBuffIndex' \in 0 .. UINT_MAX
      BY <1>0, <1>6, <1>7, Numbers
    <3>4. IndexFollowsState'
      <4>1. l \notin Fitting
        BY <2>3 DEF Fitting
      <4>. QED BY <1>6, <1>7, <2>1, <2>3, <3>3, <4>1 DEF IndexFollowsState
    <3>5. Bounded'
      BY <1>6, <1>7, <2>1, <3>2 DEF Bounded
    <3>. QED BY <1>0, <1>6, <1>7, <2>1, <3>2, <3>3, <3>4, <3>5 DEF RxStates
  <2>. QED BY <1>2, <1>6, <1>7, <2>2, <2>3 DEF Inv, IndexFollowsState
<1>8. CASE ChecksumByte(b)
  <2>1. /\ u8RxDataIndex = 1 /\ ret' = 0 /\ u8RxStateMachine' = "ETX"
        /\ UNCHANGED <<u8RxDataIndex, bRxFinish>>
    BY <1>8 DEF ChecksumByte
  <2>2. l # 0 /\ u8RxBuffIndex = l + 1
    BY <1>2, <1>6, <1>8, <2>1, InData
  <2>3. IndexFollowsState' /\ Bounded'
    BY <1>0, <1>6, <1>8, <2>1, <2>2, Numbers DEF IndexFollowsState, Bounded, Fitting
  <2>. QED BY <1>0, <1>6, <1>8, <2>1, <2>3, Numbers DEF RxStates
<1>9. CASE EndOfPacket(b)
  <2>1. /\ u8RxStateMachine = "ETX" /\ u8RxStateMachine' = "STX" /\ ret' = 0
        /\ Store(b) /\ bRxFinish' = TRUE /\ UNCHANGED <<u8RxBuffIndex, u8RxDataIndex>>
    BY <1>9 DEF EndOfPacket
  <2>2. l # 0 /\ u8RxBuffIndex = l + 2
    BY <1>2, <2>1 DEF Inv, IndexFollowsState
  <2>3. u8RxBuff' \in [0 .. UARTBUFFSIZE - 1 -> Byte] /\ u8RxBuff'[1] = l
    <3>1. u8RxBuffIndex # 1 /\ 1 \in 0 .. UARTBUFFSIZE - 1
      BY <1>0, <2>2, Numbers
    <3>. QED BY <1>0, <1>2, <2>1, <3>1, StoreType
  <2>4. IndexFollowsState' /\ Bounded'
    BY <1>0, <1>2, <2>1, <2>2, <2>3, Numbers DEF IndexFollowsState, Bounded, Inv
  <2>. QED BY <1>0, <2>1, <2>3, <2>4, Numbers DEF RxStates, Inv, TypeOK
<1>10. CASE Failed(b)
  <2>1. UNCHANGED <<u8RxStateMachine, u8RxBuff, u8RxBuffIndex, u8RxDataIndex, bRxFinish>> /\ ret' = -1
        /\ u8RxStateMachine \in {"STX", "ETX"}
    BY <1>10 DEF Failed, parserVars
  <2>2. IndexFollowsState' /\ Bounded'
    BY <1>0, <1>1, <2>1, Numbers DEF IndexFollowsState, Bounded, Inv
  <2>. QED BY <1>0, <2>1, <2>2 DEF TypeOK
<1>. QED
  BY <1>3, <1>4, <1>5, <1>7, <1>8, <1>9, <1>10 DEF Parse, Receive

\* Acting on a packet, or answering it, preserves the inductive invariant.
LEMMA ControlInv ==
  ASSUME Inv, Control
  PROVE  Inv'
<1>1. ASSUME NEW code \in -4 .. 11, Answer(code)
      PROVE  /\ UNCHANGED <<parserVars, since>> /\ late' = FALSE
             /\ bRxFinish' = FALSE /\ ret' \in -4 .. 11
  BY <1>1 DEF Answer
<1>2. /\ \E code \in -4 .. 11 : Answer(code)
      /\ bDCCommDBGEnable' \in BOOLEAN
  <2>1. CASE NormalMessage
    BY <2>1 DEF NormalMessage, Inv, TypeOK
  <2>2. CASE DebugMessage
    BY <2>2 DEF DebugMessage
  <2>3. CASE BadChecksum \/ UnknownMessage \/ NothingToDo
    <3>1. Answer(-3) \/ Answer(-2) \/ Answer(-4)
      BY <2>3 DEF BadChecksum, UnknownMessage, NothingToDo
    <3>2. bDCCommDBGEnable' = bDCCommDBGEnable
      BY <2>3 DEF BadChecksum, UnknownMessage, NothingToDo
    <3>3. bDCCommDBGEnable \in BOOLEAN
      BY DEF Inv, TypeOK
    <3>. QED BY <3>1, <3>2, <3>3
  <2>. QED BY <2>1, <2>2, <2>3 DEF Control
<1>. QED
  BY <1>1, <1>2 DEF Inv, TypeOK, IndexFollowsState, Bounded, parserVars

\* A byte received preserves the inductive invariant.
LEMMA ReceiveInv ==
  ASSUME Inv, NEW b \in Bytes, Receive(b)
  PROVE  Inv'
<1>1. b \in Byte
  BY BytesAssumption
<1>2. since' \in Seq(Byte) /\ Len(since') <= MaxSince
  <2>1. since \in Seq(Byte) /\ Len(since) \in Nat /\ Len(since) <= MaxSince
    BY Numbers DEF Inv
  <2>2. /\ <<b>> \in Seq(Byte) /\ Len(<<b>>) = 1 /\ <<>> \in Seq(Byte) /\ Len(<<>>) = 0
        /\ 1 <= MaxSince /\ MaxSince \in Nat
    BY <1>1, BoundAssumption, UintAssumption
  <2>3. Append(since, b) \in Seq(Byte) /\ Len(Append(since, b)) = Len(since) + 1
    BY <1>1, <2>1, AppendProperties
  <2>. QED BY <2>1, <2>2, <2>3 DEF Receive
<1>3. late' \in BOOLEAN /\ bDCCommDBGEnable' \in BOOLEAN
  BY DEF Receive, Inv, TypeOK
<1>. QED
  BY <1>2, <1>3, ParseInv DEF Inv, TypeOK

\* The parser's index and counter agree with its state for ever: the inductive
\* invariant the theorems below follow from.
LEMMA InvCorrect ==
  Spec => []Inv
<1>1. Init => Inv
  BY InitInv
<1>2. Inv /\ [Next]_vars => Inv'
  <2>1. ASSUME Inv, UNCHANGED vars
        PROVE  Inv'
    BY <2>1 DEF Inv, TypeOK, IndexFollowsState, Bounded, vars, parserVars
  <2>. QED BY <2>1, ControlInv, ReceiveInv DEF Next
<1>. QED BY <1>1, <1>2, PTL DEF Spec

\* Whatever bytes are received and whenever state control is called, the
\* variables keep their types; the unsigned counters of a length of 0 do not
\* wrap a second time.
THEOREM TypeCorrect ==
  Spec => []TypeOK
<1>1. Inv => TypeOK
  BY DEF Inv
<1>. QED BY <1>1, InvCorrect, PTL

\* Whatever lengths are received, the index tells how much of the packet is
\* stored; it leaves the buffer only in packets that do not fit
\* (IndexFollowsState).
THEOREM IndexCorrect ==
  Spec => []IndexFollowsState
<1>1. Inv => IndexFollowsState
  BY DEF Inv
<1>. QED BY <1>1, InvCorrect, PTL
-----------------------------------------------------------------------------
(***************************************************************************)
(* The bytes since the last 44 and the buffer.                             *)
(***************************************************************************)

\* The buffer holds the bytes received since the 44, up to the n-th, as far as
\* it goes.
Holds(n) == \A i \in 2 .. n : i - 2 < UARTBUFFSIZE => u8RxBuff[i - 2] = since[i]

\* Where the parser is in the packet is told by the bytes since the 44.  After
\* the checksum it waits for a 43, whatever comes before that.
SinceInv ==
  /\ since # <<>> => since[1] = DEF_DCCOMM_STX
  /\ u8RxStateMachine = "2NDSYNC" => Len(since) = 1
  /\ u8RxStateMachine = "LENGTH" => Len(since) = 2 /\ Holds(2)
  /\ u8RxStateMachine = "DATA" => Len(since) = u8RxBuffIndex + 1 /\ Holds(u8RxBuffIndex + 1)
  /\ u8RxStateMachine = "ETX" =>
       /\ Len(since) >= u8RxBuff[1] + 3 /\ Holds(u8RxBuff[1] + 3)
       /\ \A i \in u8RxBuff[1] + 4 .. Len(since) : since[i] # DEF_DCCOMM_ETX
  /\ u8RxStateMachine = "STX" /\ since # <<>> =>
       /\ u8RxBuff[1] # 0
       /\ Len(since) >= u8RxBuff[1] + 4 /\ Holds(u8RxBuff[1] + 3)
       /\ since[Len(since)] = DEF_DCCOMM_ETX
       /\ u8RxBuff[1] \in Fitting => u8RxBuff[u8RxBuff[1] + 2] = DEF_DCCOMM_ETX
  /\ bRxFinish /\ ~late => u8RxStateMachine = "STX" /\ since # <<>>

\* A byte more is the last of those since the 44, the others stay.
LEMMA SinceAppend ==
  ASSUME NEW q \in Seq(Byte), NEW b \in Byte
  PROVE  /\ Len(q) \in Nat /\ Append(q, b) \in Seq(Byte) /\ Append(q, b) # <<>>
         /\ Len(Append(q, b)) = Len(q) + 1
         /\ Append(q, b)[Len(q) + 1] = b
         /\ \A i \in 1 .. Len(q) : Append(q, b)[i] = q[i]
<1>1. Len(q) \in Nat
  BY LenProperties
<1>2. /\ Append(q, b) \in Seq(Byte) /\ Len(Append(q, b)) = Len(q) + 1
      /\ Append(q, b)[Len(q) + 1] = b
      /\ \A i \in 1 .. Len(q) : Append(q, b)[i] = q[i]
  BY AppendProperties
<1>. QED BY <1>1, <1>2, EmptySeq

\* A sequence with an element is not the empty one.
LEMMA NotEmpty ==
  ASSUME NEW q \in Seq(Byte), Len(q) >= 1
  PROVE  q # <<>>
BY EmptySeq

\* A byte that is stored where the index is follows those the buffer holds.
LEMMA HoldsMore ==
  ASSUME Inv, NEW b \in Bytes, Store(b), since' = Append(since, b),
         NEW n \in Nat, n = Len(since), n = u8RxBuffIndex + 1, Holds(n)
  PROVE  Holds(n + 1)'
<1>0. /\ since \in Seq(Byte) /\ u8RxBuffIndex \in Nat /\ b \in Byte
      /\ Len(since) \in Nat /\ n \in Nat
  BY BytesAssumption, Numbers DEF Inv
<1>1. since'[n + 1] = b /\ \A i \in 1 .. n : since'[i] = since[i]
  <2>1. /\ Append(since, b)[Len(since) + 1] = b
        /\ \A i \in 1 .. Len(since) : Append(since, b)[i] = since[i]
    BY <1>0, SinceAppend
  <2>. QED BY <2>1
<1>2. ASSUME NEW i \in 2 .. n + 1, i - 2 < UARTBUFFSIZE
      PROVE  u8RxBuff'[i - 2] = since'[i]
  <2>1. CASE i = n + 1
    <3>1. i - 2 = u8RxBuffIndex /\ i - 2 \in 0 .. UARTBUFFSIZE - 1
      BY <1>0, <1>2, <2>1, SizeAssumption
    <3>2. u8RxBuff'[u8RxBuffIndex] = b
      BY <3>1, StoreType DEF Inv
    <3>. QED BY <1>1, <2>1, <3>1, <3>2
  <2>2. CASE i \in 2 .. n
    <3>1. i - 2 \in 0 .. UARTBUFFSIZE - 1 /\ i - 2 # u8RxBuffIndex /\ i \in 1 .. n
      BY <1>0, <1>2, <2>2, SizeAssumption
    <3>2. u8RxBuff'[i - 2] = u8RxBuff[i - 2]
      BY <3>1, StoreType DEF Inv
    <3>3. since'[i] = since[i]
      BY <1>1, <3>1
    <3>. QED BY <1>2, <2>2, <3>2, <3>3 DEF Holds
  <2>3. i = n + 1 \/ i \in 2 .. n
    OBVIOUS
  <2>. QED BY <2>1, <2>2, <2>3
<1>. QED BY <1>2 DEF Holds

\* What was held stays held when the next byte is stored behind it, or not at
\* all.
LEMMA HoldsStill ==
  ASSUME Inv, NEW b \in Bytes, Store(b) \/ u8RxBuff' = u8RxBuff,
         since' = Append(since, b), NEW n \in Nat, n <= Len(since), n <= u8RxBuffIndex + 1,
         Holds(n)
  PROVE  Holds(n)'
<1>0. /\ since \in Seq(Byte) /\ u8RxBuffIndex \in Nat /\ b \in Byte
      /\ Len(since) \in Nat
  BY BytesAssumption, Numbers DEF Inv
<1>1. ASSUME NEW i \in 2 .. n, i - 2 < UARTBUFFSIZE
      PROVE  u8RxBuff'[i - 2] = since'[i]
  <2>1. i - 2 \in 0 .. UARTBUFFSIZE - 1 /\ i - 2 # u8RxBuffIndex /\ i \in 1 .. Len(since)
    BY <1>0, <1>1, SizeAssumption
  <2>2. u8RxBuff'[i - 2] = u8RxBuff[i - 2]
    BY <2>1, StoreType DEF Inv
  <2>3. since'[i] = since[i]
    BY <1>0, <2>1, SinceAppend
  <2>. QED BY <1>1, <2>2, <2>3 DEF Holds
<1>. QED BY <1>1 DEF Holds

\* A received byte keeps the buffer and the bytes since the 44 together.
LEMMA ReceiveSince ==
  ASSUME Inv, SinceInv, NEW b \in Bytes, Receive(b)
  PROVE  SinceInv'
<1>0. /\ since \in Seq(Byte) /\ Len(since) \in Nat /\ b \in Byte
      /\ u8RxBuff \in [0 .. UARTBUFFSIZE - 1 -> Byte]
      /\ u8RxBuffIndex \in Nat /\ u8RxDataIndex \in Nat /\ bRxFinish \in BOOLEAN
      /\ UARTBUFFSIZE \in Nat /\ u8RxBuff[1] \in Nat
  <2>1. /\ TypeOK /\ b \in Byte /\ bRxFinish \in BOOLEAN
        /\ u8RxBuff \in [0 .. UARTBUFFSIZE - 1 -> Byte]
    BY BytesAssumption DEF Inv, TypeOK
  <2>2. u8RxDataIndex \in Nat
    BY <2>1, Numbers
  <2>3. /\ since \in Seq(Byte) /\ Len(since) \in Nat /\ u8RxBuffIndex \in Nat
        /\ UARTBUFFSIZE \in Nat
    BY <2>1, Numbers
  <2>4. u8RxBuff[1] \in 0 .. 255
    BY <2>1, Numbers
  <2>5. u8RxBuff[1] \in Nat
    BY <2>4
  <2>. QED BY <2>1, <2>2, <2>3, <2>5
<1>1. /\ Parse(b) /\ (u8RxStateMachine # "ETX" \/ b # DEF_DCCOMM_ETX => late' = bRxFinish)
      /\ since' = IF u8RxStateMachine = "STX"
                  THEN IF b = DEF_DCCOMM_STX THEN <<b>> ELSE <<>>
                  ELSE Append(since, b)
  <2>1. u8RxStateMachine # "ETX" \/ b # DEF_DCCOMM_ETX => late' = bRxFinish
    BY <1>0, Zenon DEF Receive
  <2>. QED BY <2>1 DEF Receive
<1>2. ASSUME u8RxStateMachine # "STX"
      PROVE  /\ since' = Append(since, b) /\ since' # <<>>
             /\ Len(since') = Len(since) + 1 /\ since'[Len(since) + 1] = b
             /\ \A i \in 1 .. Len(since) : since'[i] = since[i]
  BY <1>0, <1>1, <1>2, SinceAppend
<1>3. ASSUME u8RxStateMachine # "STX", Len(since) >= 1, since[1] = DEF_DCCOMM_STX
      PROVE  since'[1] = DEF_DCCOMM_STX
  BY <1>0, <1>2, <1>3
<1>4. CASE StartOfPacket(b)
  <2>1. since' = <<b>> /\ b = DEF_DCCOMM_STX
    BY <1>1, <1>4 DEF StartOfPacket
  <2>2. Len(since') = 1 /\ since'[1] = DEF_DCCOMM_STX
    BY <2>1
  <2>3. u8RxStateMachine = "STX" /\ u8RxStateMachine' = "2NDSYNC" /\ bRxFinish' = bRxFinish
    BY <1>4 DEF StartOfPacket
  <2>. QED BY <1>1, <2>2, <2>3 DEF SinceInv
<1>5. CASE SecondSync(b)
  <2>1. /\ u8RxStateMachine = "2NDSYNC" /\ u8RxStateMachine' = "LENGTH"
        /\ Store(b) /\ bRxFinish' = bRxFinish
    BY <1>5 DEF SecondSync
  <2>2. Len(since) = 1 /\ u8RxBuffIndex = 0 /\ since # <<>>
    <3>1. Len(since) = 1 /\ u8RxBuffIndex = 0
      BY <2>1 DEF SinceInv, Inv, IndexFollowsState
    <3>2. Len(since) >= 1
      BY <3>1
    <3>3. since # <<>>
      BY <1>0, <3>2, NotEmpty
    <3>. QED BY <3>1, <3>3
  <2>3. Holds(1)
    BY DEF Holds
  <2>4. Holds(1 + 1)'
    BY <1>2, <2>1, <2>2, <2>3, HoldsMore
  <2>5. since'[1] = DEF_DCCOMM_STX
    BY <1>3, <2>1, <2>2 DEF SinceInv
  <2>. QED BY <1>1, <1>2, <2>1, <2>2, <2>4, <2>5 DEF SinceInv
<1>6. CASE Length(b)
  <2>1. /\ u8RxStateMachine = "LENGTH" /\ u8RxStateMachine' = "DATA"
        /\ Store(b) /\ bRxFinish' = bRxFinish /\ u8RxBuffIndex' = u8RxBuffIndex + 1
    BY <1>6 DEF Length, Advance
  <2>2. Len(since) = 2 /\ u8RxBuffIndex = 1 /\ since # <<>> /\ Holds(2)
    <3>1. Len(since) = 2 /\ u8RxBuffIndex = 1 /\ Holds(2)
      BY <2>1 DEF SinceInv, Inv, IndexFollowsState
    <3>2. Len(since) >= 1
      BY <3>1
    <3>3. since # <<>>
      BY <1>0, <3>2, NotEmpty
    <3>. QED BY <3>1, <3>3
  <2>3. Holds(2 + 1)'
    BY <1>2, <2>1, <2>2, HoldsMore
  <2>4. Holds(u8RxBuffIndex + 1)'
    <3>1. u8RxBuffIndex' + 1 = 2 + 1
      BY <2>1, <2>2
    <3>. QED BY <2>3, <3>1 DEF Holds
  <2>5. since'[1] = DEF_DCCOMM_STX
    BY <1>3, <2>1, <2>2 DEF SinceInv
  <2>. QED BY <1>1, <1>2, <2>1, <2>2, <2>4, <2>5 DEF SinceInv
<1>7. ASSUME Data(b) \/ ChecksumByte(b)
      PROVE  /\ u8RxStateMachine = "DATA" /\ bRxFinish' = bRxFinish
             /\ u8RxBuffIndex' = u8RxBuffIndex + 1
             /\ Len(since') = u8RxBuffIndex + 2 /\ since'[1] = DEF_DCCOMM_STX
             /\ Holds(u8RxBuffIndex + 1)'
             /\ u8RxBuff'[1] = u8RxBuff[1]
             /\ u8RxDataIndex = 1 => u8RxBuffIndex = u8RxBuff[1] + 1
  <2>1. /\ u8RxStateMachine = "DATA"
        /\ Store(b) /\ bRxFinish' = bRxFinish /\ u8RxBuffIndex' = u8RxBuffIndex + 1
    BY <1>7 DEF Data, ChecksumByte, Advance
  <2>2. /\ u8RxBuffIndex >= 2
        /\ u8RxDataIndex = 1 => u8RxBuffIndex = u8RxBuff[1] + 1
    BY <2>1, InData
  <2>3. PICK n \in Nat : n = Len(since)
    BY <1>0
  <2>4. n = u8RxBuffIndex + 1 /\ Holds(n)
    BY <2>1, <2>3 DEF SinceInv
  <2>5. since # <<>> /\ n >= 1
    <3>1. n >= 1
      BY <1>0, <2>4
    <3>. QED BY <1>0, <2>3, <3>1, NotEmpty
  <2>6. Holds(n + 1)'
    BY <1>2, <2>1, <2>3, <2>4, HoldsMore
  <2>7. Holds(u8RxBuffIndex + 1)'
    <3>1. u8RxBuffIndex' + 1 = n + 1
      BY <1>0, <2>1, <2>4
    <3>. QED BY <2>6, <3>1 DEF Holds
  <2>8. since'[1] = DEF_DCCOMM_STX
    BY <1>3, <2>1, <2>3, <2>5 DEF SinceInv
  <2>9. u8RxBuff'[1] = u8RxBuff[1]
    <3>1. u8RxBuffIndex # 1 /\ 1 \in 0 .. UARTBUFFSIZE - 1
      BY <1>0, <2>2, SizeAssumption
    <3>. QED BY <2>1, <3>1, StoreType DEF Inv
  <2>10. Len(since') = u8RxBuffIndex + 2
    BY <1>0, <1>2, <2>1, <2>3, <2>4
  <2>. QED BY <2>1, <2>2, <2>7, <2>8, <2>9, <2>10
<1>8. CASE Data(b)
  <2>1. u8RxStateMachine' = "DATA"
    BY <1>8 DEF Data
  <2>2. Len(since') = u8RxBuffIndex' + 1
    BY <1>0, <1>7, <1>8
  <2>. QED BY <1>1, <1>7, <1>8, <2>1, <2>2 DEF SinceInv
<1>9. CASE ChecksumByte(b)
  <2>1. u8RxStateMachine' = "ETX" /\ u8RxDataIndex = 1
    BY <1>9 DEF ChecksumByte
  <2>2. PICK l \in Nat : l = u8RxBuff[1] /\ u8RxBuff'[1] = l
    BY <1>0, <1>7, <1>9
  <2>3. u8RxBuffIndex = l + 1 /\ u8RxBuffIndex' + 1 = l + 3 /\ Len(since') = l + 3
    BY <1>0, <1>7, <1>9, <2>1, <2>2
  <2>4. Holds(u8RxBuff[1] + 3)'
    BY <1>7, <1>9, <2>2, <2>3 DEF Holds
  <2>5. \A i \in u8RxBuff'[1] + 4 .. Len(since') : since'[i] # DEF_DCCOMM_ETX
    BY <2>2, <2>3
  <2>6. Len(since') >= u8RxBuff'[1] + 3
    BY <2>2, <2>3
  <2>7. since'[1] = DEF_DCCOMM_STX /\ late' = bRxFinish'
    BY <1>1, <1>7, <1>9
  <2>. QED BY <2>1, <2>4, <2>5, <2>6, <2>7 DEF SinceInv
<1>10. ASSUME u8RxStateMachine = "ETX", Store(b) \/ u8RxBuff' = u8RxBuff
       PROVE  /\ since[1] = DEF_DCCOMM_STX /\ since'[1] = DEF_DCCOMM_STX
              /\ u8RxBuff[1] # 0 /\ u8RxBuff'[1] = u8RxBuff[1]
              /\ u8RxBuffIndex = u8RxBuff[1] + 2
              /\ Len(since) >= u8RxBuff[1] + 3
              /\ Holds(u8RxBuff[1] + 3)'
  <2>1. u8RxBuff[1] # 0 /\ u8RxBuffIndex = u8RxBuff[1] + 2
    BY <1>10 DEF Inv, IndexFollowsState
  <2>2. PICK l \in Nat : l = u8RxBuff[1]
    BY <1>0
  <2>3. Len(since) >= l + 3 /\ Holds(l + 3) /\ since # <<>>
    BY <1>0, <1>10, <2>2, EmptySeq DEF SinceInv
  <2>4. Holds(l + 3)'
    <3>1. PICK m \in Nat : m = l + 3
      OBVIOUS
    <3>2. m <= Len(since) /\ m <= u8RxBuffIndex + 1 /\ Holds(m)
      BY <2>1, <2>2, <2>3, <3>1
    <3>3. since' = Append(since, b)
      BY <1>2, <1>10, <2>3
    <3>4. Holds(m)'
      BY <1>10, <3>2, <3>3, HoldsStill
    <3>. QED BY <3>1, <3>4
  <2>5. u8RxBuff'[1] = l
    <3>1. u8RxBuffIndex # 1 /\ 1 \in 0 .. UARTBUFFSIZE - 1
      BY <1>0, <2>1, SizeAssumption
    <3>. QED BY <1>10, <2>2, <3>1, StoreType DEF Inv
  <2>6. since[1] = DEF_DCCOMM_STX
    BY <2>3 DEF SinceInv
  <2>7. since'[1] = DEF_DCCOMM_STX
    BY <1>0, <1>3, <1>10, <2>2, <2>3, <2>6
  <2>. QED BY <2>1, <2>2, <2>3, <2>4, <2>5, <2>6, <2>7 DEF Holds
<1>11. CASE EndOfPacket(b)
  <2>1. /\ u8RxStateMachine = "ETX" /\ b = DEF_DCCOMM_ETX /\ Store(b)
        /\ u8RxStateMachine' = "STX"
    BY <1>11 DEF EndOfPacket
  <2>2. u8RxBuff'[1] \in Fitting => u8RxBuff'[u8RxBuff'[1] + 2] = DEF_DCCOMM_ETX
    <3>1. u8RxBuffIndex \in 0 .. UARTBUFFSIZE - 1 => u8RxBuff'[u8RxBuffIndex] = b
      BY <2>1, StoreType DEF Inv
    <3>. QED BY <1>0, <1>10, <2>1, <3>1 DEF Fitting
  <2>3. Len(since') >= u8RxBuff'[1] + 4 /\ since'[Len(since')] = DEF_DCCOMM_ETX
    BY <1>0, <1>2, <1>10, <2>1
  <2>. QED BY <1>2, <1>10, <2>1, <2>2, <2>3 DEF SinceInv
<1>12. CASE Failed(b)
  <2>1. UNCHANGED <<u8RxStateMachine, u8RxBuff, u8RxBuffIndex, bRxFinish>>
    BY <1>12 DEF Failed, parserVars
  <2>2. CASE u8RxStateMachine = "STX" /\ b # DEF_DCCOMM_STX
    <3>1. since' = <<>>
      BY <1>1, <2>2
    <3>. QED BY <1>1, <2>1, <2>2, <3>1 DEF SinceInv
  <2>3. CASE u8RxStateMachine = "ETX" /\ b # DEF_DCCOMM_ETX
    <3>1. ASSUME NEW i \in u8RxBuff[1] + 4 .. Len(since')
          PROVE  since'[i] # DEF_DCCOMM_ETX
      <4>1. CASE i = Len(since) + 1
        BY <1>2, <2>3, <4>1
      <4>2. CASE i # Len(since) + 1
        <5>1. i \in 1 .. Len(since) /\ i \in u8RxBuff[1] + 4 .. Len(since)
          BY <1>0, <1>2, <1>10, <2>1, <2>3, <4>2
        <5>. QED BY <1>2, <2>3, <5>1 DEF SinceInv
      <4>. QED BY <4>1, <4>2
    <3>2. Len(since') >= u8RxBuff'[1] + 3
      BY <1>0, <1>2, <1>10, <2>1, <2>3
    <3>3. ~(bRxFinish' /\ ~late')
      BY <1>1, <2>1, <2>3
    <3>. QED BY <1>2, <1>10, <2>1, <2>3, <3>1, <3>2, <3>3 DEF SinceInv
  <2>. QED BY <1>12, <2>2, <2>3 DEF Failed
<1>. QED BY <1>1, <1>4, <1>5, <1>6, <1>8, <1>9, <1>11, <1>12 DEF Parse

\* State control keeps what was received.
LEMMA ControlSince ==
  ASSUME SinceInv, Control
  PROVE  SinceInv'
<1>1. UNCHANGED <<parserVars, since>> /\ bRxFinish' = FALSE
  BY DEF Control, BadChecksum, NormalMessage, DebugMessage, UnknownMessage, NothingToDo, Answer
<1>. QED BY <1>1 DEF SinceInv, Holds, parserVars

\* At any time the buffer and the bytes since the 44 tell the same: the
\* inductive invariant of the theorems about packets.
LEMMA SinceCorrect ==
  Spec => [](Inv /\ SinceInv)
<1>1. Init => SinceInv
  BY DEF Init, SinceInv
<1>2. Inv /\ SinceInv /\ [Next]_vars => SinceInv'
  <2>1. ASSUME SinceInv, UNCHANGED vars
        PROVE  SinceInv'
    BY <2>1 DEF SinceInv, Holds, vars, parserVars
  <2>. QED BY <2>1, ControlSince, ReceiveSince DEF Next
<1>. QED BY <1>1, <1>2, InvCorrect, PTL DEF Spec

\* The bytes since the 44 are a packet only when the parser has just taken
\* it: before that it is too short, and after it there is no second 43 to wait
\* for.
LEMMA PacketTaken ==
  ASSUME Inv, SinceInv, IsPacket(since)
  PROVE  u8RxStateMachine = "STX" /\ Holds(Len(since))
<1>1. /\ since \in Seq(Byte) /\ Len(since) \in Nat /\ Len(since) >= 5 /\ since # <<>>
      /\ since[3] \in Byte /\ Len(since) = since[3] + 4
      /\ since[Len(since)] = DEF_DCCOMM_ETX
  <2>1. since \in Seq(Byte) /\ Len(since) \in Nat /\ Len(since) >= 5
        /\ Len(since) = since[3] + 4 /\ since[Len(since)] = DEF_DCCOMM_ETX
    BY LenProperties DEF Inv, TypeOK, IsPacket
  <2>2. since # <<>>
    <3>1. Len(since) >= 1
      BY <2>1
    <3>. QED BY <2>1, <3>1, NotEmpty
  <2>3. since[3] \in Byte
    BY <2>1, ElementOfSeq
  <2>. QED BY <2>1, <2>2, <2>3
<1>2. ASSUME NEW n \in Nat, n >= 3, Holds(n)
      PROVE  u8RxBuff[1] = since[3]
  <2>1. 3 \in 2 .. n /\ 3 - 2 = 1 /\ 1 < UARTBUFFSIZE
    BY <1>2, SizeAssumption
  <2>. QED BY <1>2, <2>1 DEF Holds
<1>3. /\ u8RxStateMachine \in RxStates /\ u8RxBuffIndex \in Nat /\ u8RxDataIndex \in Nat
      /\ u8RxBuff[1] \in Byte /\ UARTBUFFSIZE \in Nat
  <2>1. TypeOK /\ u8RxStateMachine \in RxStates
    BY DEF Inv, TypeOK
  <2>2. u8RxDataIndex \in Nat
    BY <2>1, Numbers
  <2>. QED BY <2>1, <2>2, Numbers DEF Byte
<1>4. u8RxStateMachine \notin {"2NDSYNC", "LENGTH"}
  BY <1>1 DEF SinceInv
<1>5. u8RxStateMachine # "DATA"
  <2>. SUFFICES ASSUME u8RxStateMachine = "DATA"
                PROVE  FALSE
    OBVIOUS
  <2>1. \/ u8RxDataIndex >= 1 /\ u8RxBuffIndex = 2 + u8RxBuff[1] - u8RxDataIndex
        \/ u8RxBuff[1] = 0
    BY DEF Inv, IndexFollowsState
  <2>2. Len(since) = u8RxBuffIndex + 1 /\ Holds(u8RxBuffIndex + 1)
    BY DEF SinceInv
  <2>3. u8RxBuff[1] = since[3]
    <3>1. u8RxBuffIndex + 1 \in Nat /\ u8RxBuffIndex + 1 >= 3
      BY <1>1, <1>3, <2>2
    <3>. QED BY <1>2, <2>2, <3>1
  <2>4. PICK l \in Nat : l = u8RxBuff[1]
    BY <1>3 DEF Byte
  <2>5. Len(since) = l + 4
    BY <1>1, <2>3, <2>4
  <2>. QED BY <1>1, <1>3, <2>1, <2>2, <2>4, <2>5
<1>6. u8RxStateMachine # "ETX"
  <2>. SUFFICES ASSUME u8RxStateMachine = "ETX"
                PROVE  FALSE
    OBVIOUS
  <2>1. u8RxBuff[1] \in Byte
    BY <1>3
  <2>2. /\ Len(since) >= u8RxBuff[1] + 3 /\ Holds(u8RxBuff[1] + 3)
        /\ \A i \in u8RxBuff[1] + 4 .. Len(since) : since[i] # DEF_DCCOMM_ETX
    BY DEF SinceInv
  <2>3. u8RxBuff[1] = since[3]
    <3>1. u8RxBuff[1] + 3 \in Nat /\ u8RxBuff[1] + 3 >= 3
      BY <2>1 DEF Byte
    <3>. QED BY <1>2, <2>2, <3>1
  <2>4. Len(since) \in u8RxBuff[1] + 4 .. Len(since)
    <3>1. Len(since) = u8RxBuff[1] + 4
      BY <1>1, <2>3
    <3>. QED BY <1>1, <3>1
  <2>. QED BY <1>1, <2>2, <2>4
<1>7. u8RxStateMachine = "STX"
  BY <1>3, <1>4, <1>5, <1>6 DEF RxStates
<1>8. Holds(Len(since))
  <2>1. /\ u8RxBuff[1] \in Byte
        /\ Holds(u8RxBuff[1] + 3)
        /\ u8RxBuff[1] \in Fitting => u8RxBuff[u8RxBuff[1] + 2] = DEF_DCCOMM_ETX
    BY <1>1, <1>3, <1>7 DEF SinceInv
  <2>2. u8RxBuff[1] = since[3]
    <3>1. u8RxBuff[1] + 3 \in Nat /\ u8RxBuff[1] + 3 >= 3
      BY <2>1 DEF Byte
    <3>. QED BY <1>2, <2>1, <3>1
  <2>3. PICK l \in Nat : l = u8RxBuff[1]
    BY <2>1 DEF Byte
  <2>4. Len(since) = l + 4
    BY <1>1, <2>2, <2>3
  <2>5. ASSUME NEW i \in 2 .. Len(since), i - 2 < UARTBUFFSIZE
        PROVE  u8RxBuff[i - 2] = since[i]
    <3>1. CASE i = Len(since)
      <4>1. i - 2 = l + 2 /\ l \in Fitting
        BY <1>1, <1>3, <2>4, <2>5, <3>1 DEF Fitting
      <4>. QED BY <1>1, <2>1, <2>3, <3>1, <4>1
    <3>2. CASE i # Len(since)
      <4>1. i \in 2 .. l + 3
        BY <2>4, <3>2
      <4>. QED BY <2>1, <2>3, <2>5, <4>1 DEF Holds
    <3>. QED BY <3>1, <3>2
  <2>. QED BY <2>5 DEF Holds
<1>. QED BY <1>7, <1>8

\* A packet that begins while the parser waits for one is in the buffer, byte
\* for byte and as far as the buffer goes, when its last byte has come.
THEOREM PacketCorrect ==
  Spec => []PacketIsTaken
<1>1. Inv /\ SinceInv => PacketIsTaken
  BY PacketTaken DEF PacketIsTaken, Holds
<1>. QED BY <1>1, SinceCorrect, PTL
-----------------------------------------------------------------------------
(***************************************************************************)
(* The 8-bit sum of the parser is the sum of the bytes modulo 256.         *)
(***************************************************************************)

\* a[k] is the sum of the bytes p[4] to p[k], for k up to n.
SumAfter(a, p, k) == IF k = 3 THEN 0 ELSE a[k - 1] + p[k]

IsSum(a, p, n) == a = [k \in 3 .. n |-> SumAfter(a, p, k)]

\* c[k] is the sum that the parser has added up to buff[k].
CSumAfter(c, buff, k) == IF k = 1 THEN 0 ELSE (c[k - 1] + buff[k]) % 256

IsCSum(c, buff, n) == c = [k \in 1 .. n |-> CSumAfter(c, buff, k)]

\* The bytes can be added one by one.
LEMMA SumExists ==
  ASSUME NEW p, NEW n \in Nat, n >= 3
  PROVE  \E a : IsSum(a, p, n)
<1>. DEFINE T == {m \in Nat : m >= 3 /\ ~\E a : IsSum(a, p, m)}
<1>. SUFFICES ASSUME T # {} PROVE FALSE
  OBVIOUS
<1>1. PICK m \in T : \A y \in T : m <= y
  BY Least
<1>2. CASE m = 3
  <2>1. IsSum([k \in 3 .. 3 |-> 0], p, 3)
    BY DEF IsSum, SumAfter
  <2>. QED BY <1>2, <2>1
<1>3. CASE m # 3
  <2>1. m - 1 \in Nat /\ m - 1 >= 3 /\ m - 1 \notin T
    BY <1>1, <1>3
  <2>2. PICK b : IsSum(b, p, m - 1)
    BY <2>1
  <2>. DEFINE a == [k \in 3 .. m |-> IF k = m THEN b[m - 1] + p[m] ELSE b[k]]
  <2>3. ASSUME NEW k \in 3 .. m
        PROVE  a[k] = SumAfter(a, p, k)
    <3>1. CASE k = m
      <4>1. a[k] = b[m - 1] + p[m] /\ a[m - 1] = b[m - 1]
        BY <2>1, <3>1
      <4>. HIDE DEF a
      <4>. QED BY <1>3, <3>1, <4>1 DEF SumAfter
    <3>2. CASE k # m
      <4>1. k \in 3 .. m - 1 /\ a[k] = b[k]
        BY <3>2
      <4>2. b[k] = SumAfter(b, p, k)
        BY <4>1, <2>2 DEF IsSum
      <4>3. k # 3 => a[k - 1] = b[k - 1]
        BY <4>1
      <4>. HIDE DEF a
      <4>. QED BY <4>1, <4>2, <4>3 DEF SumAfter
    <3>. QED BY <3>1, <3>2
  <2>4. a = [k \in 3 .. m |-> a[k]]
    OBVIOUS
  <2>5. IsSum(a, p, m)
    <3>. HIDE DEF a
    <3>. QED BY <2>3, <2>4 DEF IsSum
  <2>. QED BY <2>5
<1>. QED BY <1>2, <1>3

\* Adding modulo 256 forgets nothing but multiples of 256.
LEMMA ModSum ==
  ASSUME NEW x \in Nat, NEW y \in Nat
  PROVE  ((x % 256) + y) % 256 = (x + y) % 256
OBVIOUS

\* Bytes are numbers.
LEMMA ByteAt ==
  ASSUME NEW p \in Seq(Byte), NEW i \in 1 .. Len(p)
  PROVE  p[i] \in Nat
<1>1. p[i] \in Byte
  BY ElementOfSeq
<1>2. ASSUME NEW z \in Byte
      PROVE  z \in Nat
  BY DEF Byte
<1>. QED BY <1>1, <1>2

\* Every element of a sum of bytes is a number.
LEMMA SumIsNat ==
  ASSUME NEW p \in Seq(Byte), NEW n \in Nat, n <= Len(p), NEW a, IsSum(a, p, n),
         NEW k \in 3 .. n
  PROVE  a[k] \in Nat
<1>. DEFINE T == {m \in 3 .. n : a[m] \notin Nat}
<1>1. ASSUME NEW m \in 3 .. n
      PROVE  a[m] = SumAfter(a, p, m)
  BY DEF IsSum
<1>2. ASSUME T # {}
      PROVE  FALSE
  <2>0. T \subseteq Nat
    OBVIOUS
  <2>1. PICK m \in T : \A y \in T : m <= y
    <3>. HIDE DEF T
    <3>. QED BY <1>2, <2>0, Least
  <2>2. CASE m = 3
    BY <1>1, <2>1, <2>2 DEF SumAfter
  <2>3. CASE m # 3
    <3>1. m - 1 \in 3 .. n /\ m - 1 \notin T
      BY <2>1, <2>3
    <3>2. a[m - 1] \in Nat
      BY <3>1
    <3>3. p[m] \in Nat
      <4>1. m \in 1 .. Len(p)
        BY <2>1, LenProperties
      <4>. QED BY <4>1, ByteAt
    <3>. QED BY <1>1, <2>1, <2>3, <3>2, <3>3 DEF SumAfter
  <2>. QED BY <2>2, <2>3
<1>. QED BY <1>2

\* What the parser adds up is the sum of the bytes modulo 256.
LEMMA CSumIsSum ==
  ASSUME NEW p \in Seq(Byte), NEW n \in Nat, n + 2 <= Len(p), NEW buff,
         \A i \in 2 .. n : buff[i] = p[i + 2],
         NEW a, IsSum(a, p, n + 2), NEW c, IsCSum(c, buff, n), NEW k \in 1 .. n
  PROVE  c[k] = a[k + 2] % 256
<1>. DEFINE T == {m \in 1 .. n : c[m] # a[m + 2] % 256}
<1>1. ASSUME NEW m \in 1 .. n
      PROVE  /\ c[m] = CSumAfter(c, buff, m)
             /\ a[m + 2] = SumAfter(a, p, m + 2)
             /\ a[m + 2] \in Nat
  <2>1. c[m] = CSumAfter(c, buff, m)
    BY DEF IsCSum
  <2>2. m + 2 \in 3 .. n + 2
    OBVIOUS
  <2>3. a[m + 2] = SumAfter(a, p, m + 2)
    BY <2>2 DEF IsSum
  <2>4. a[m + 2] \in Nat
    BY <2>2, SumIsNat
  <2>. QED BY <2>1, <2>3, <2>4
<1>2. ASSUME T # {}
      PROVE  FALSE
  <2>0. T \subseteq Nat
    OBVIOUS
  <2>1. PICK m \in T : \A y \in T : m <= y
    <3>. HIDE DEF T
    <3>. QED BY <1>2, <2>0, Least
  <2>2. CASE m = 1
    <3>1. c[1] = 0 /\ a[3] = 0
      BY <1>1, <2>1, <2>2 DEF CSumAfter, SumAfter
    <3>. QED BY <2>1, <2>2, <3>1
  <2>3. CASE m # 1
    <3>0. m \in 1 .. n
      BY <2>1
    <3>1. m - 1 \in 1 .. n /\ m - 1 \notin T /\ m \in 2 .. n
      <4>1. m - 1 \in 1 .. n /\ m \in 2 .. n /\ ~(m <= m - 1)
        BY <2>3, <3>0
      <4>. HIDE DEF T
      <4>. QED BY <2>1, <4>1
    <3>2. PICK x \in Nat : x = a[m + 1]
      <4>1. (m - 1) + 2 = m + 1
        BY <3>1
      <4>. QED BY <1>1, <3>1, <4>1
    <3>3. c[m - 1] = x % 256
      <4>1. (m - 1) + 2 = m + 1
        BY <3>1
      <4>. QED BY <3>1, <3>2, <4>1
    <3>4. PICK y \in Nat : y = p[m + 2] /\ y = buff[m]
      <4>1. m + 2 \in 1 .. Len(p)
        BY <3>1, LenProperties
      <4>. QED BY <3>1, <4>1, ByteAt
    <3>5. c[m] = ((x % 256) + y) % 256
      BY <1>1, <3>1, <3>3, <3>4 DEF CSumAfter
    <3>6. a[m + 2] = x + y
      <4>1. m + 2 # 3 /\ (m + 2) - 1 = m + 1
        BY <3>1
      <4>2. SumAfter(a, p, m + 2) = a[m + 1] + p[m + 2]
        BY <4>1 DEF SumAfter
      <4>. QED BY <1>1, <3>1, <3>2, <3>4, <4>2
    <3>7. c[m] = (x + y) % 256
      BY <3>5, ModSum
    <3>. QED BY <2>1, <3>6, <3>7
  <2>. QED BY <2>2, <2>3
<1>. QED BY <1>2

\* The parser's sum exists: it is the sum of the bytes, reduced.
LEMMA CSumExists ==
  ASSUME NEW p \in Seq(Byte), NEW n \in Nat, n >= 1, n + 2 <= Len(p), NEW buff,
         \A i \in 2 .. n : buff[i] = p[i + 2],
         NEW a, IsSum(a, p, n + 2)
  PROVE  \E c : IsCSum(c, buff, n)
<1>. DEFINE c == [k \in 1 .. n |-> a[k + 2] % 256]
<1>1. ASSUME NEW k \in 1 .. n
      PROVE  c[k] = CSumAfter(c, buff, k)
  <2>1. k + 2 \in 3 .. n + 2 /\ c[k] = a[k + 2] % 256
    OBVIOUS
  <2>2. a[k + 2] = SumAfter(a, p, k + 2)
    BY <2>1 DEF IsSum
  <2>3. CASE k = 1
    <3>. HIDE DEF c
    <3>1. a[k + 2] = 0
      BY <2>2, <2>3 DEF SumAfter
    <3>. QED BY <2>1, <2>3, <3>1 DEF CSumAfter
  <2>4. CASE k # 1
    <3>1. k \in 2 .. n /\ k - 1 \in 1 .. n /\ k + 2 # 3 /\ (k + 2) - 1 = k + 1
          /\ (k - 1) + 2 = k + 1 /\ k + 1 \in 3 .. n + 2 /\ k + 2 \in 1 .. Len(p)
      BY <2>4, LenProperties
    <3>2. PICK x \in Nat : x = a[k + 1]
      BY <3>1, SumIsNat
    <3>3. c[k - 1] = x % 256
      BY <3>1, <3>2
    <3>4. PICK y \in Nat : y = p[k + 2] /\ y = buff[k]
      BY <3>1, ByteAt
    <3>. HIDE DEF c
    <3>5. a[k + 2] = x + y
      BY <2>2, <3>1, <3>2, <3>4 DEF SumAfter
    <3>6. CSumAfter(c, buff, k) = ((x % 256) + y) % 256
      BY <2>4, <3>3, <3>4 DEF CSumAfter
    <3>. QED BY <2>1, <3>5, <3>6, ModSum
  <2>. QED BY <2>3, <2>4
<1>2. c = [k \in 1 .. n |-> c[k]]
  OBVIOUS
<1>3. IsCSum(c, buff, n)
  <2>. HIDE DEF c
  <2>. QED BY <1>1, <1>2 DEF IsCSum
<1>. QED BY <1>3

\* A buffer that holds a packet has the packet's sum.
LEMMA SumsAgree ==
  ASSUME NEW p \in Seq(Byte), Len(p) >= 5, NEW buff, Len(p) = buff[1] + 4,
         buff[1] \in Nat, \A i \in 2 .. Len(p) - 1 : buff[i - 2] = p[i]
  PROVE  CSum(buff) = PacketSum(p)
<1>1. PICK n \in Nat : n = buff[1] /\ n >= 1 /\ Len(p) = n + 4 /\ Len(p) - 2 = n + 2
                     /\ n + 2 \in Nat /\ n + 2 >= 3 /\ n + 2 <= Len(p)
  BY LenProperties
<1>2. \A i \in 2 .. n : buff[i] = p[i + 2]
  <2>. SUFFICES ASSUME NEW i \in 2 .. n
                PROVE  buff[i] = p[i + 2]
    OBVIOUS
  <2>1. i + 2 \in 2 .. Len(p) - 1 /\ (i + 2) - 2 = i
    BY <1>1
  <2>. QED BY <2>1
<1>. DEFINE a == CHOOSE a : IsSum(a, p, n + 2)
            c == CHOOSE c : IsCSum(c, buff, n)
<1>3. PacketSum(p) = a[n + 2] % 256
  BY <1>1 DEF PacketSum, IsSum, SumAfter
<1>4. CSum(buff) = c[n]
  BY <1>1 DEF CSum, IsCSum, CSumAfter
<1>5. IsSum(a, p, n + 2)
  <2>1. n + 2 \in Nat /\ n + 2 >= 3
    BY <1>1
  <2>. QED BY <2>1, SumExists
<1>. HIDE DEF a
<1>6. IsCSum(c, buff, n)
  <2>1. \E d : IsCSum(d, buff, n)
    BY <1>1, <1>2, <1>5, CSumExists
  <2>. QED BY <2>1
<1>. HIDE DEF c
<1>7. c[n] = a[n + 2] % 256
  <2>1. n \in 1 .. n
    BY <1>1
  <2>2. n + 2 <= Len(p)
    BY <1>1
  <2>3. \A k \in 1 .. n : c[k] = a[k + 2] % 256
    BY <1>2, <1>5, <1>6, <2>2, CSumIsSum
  <2>. QED BY <2>1, <2>3
<1>. QED BY <1>3, <1>4, <1>7
-----------------------------------------------------------------------------
(***************************************************************************)
(* What state control acts on.                                             *)
(***************************************************************************)

\* The buffer holds the packet p up to its checksum.
Buffered(p) ==
  /\ p \in Seq(Byte) /\ IsPacket(p)
  /\ Len(p) >= 6
  /\ Len(p) = u8RxBuff[1] + 4 /\ u8RxBuff[1] \in Summed
  /\ \A i \in 2 .. Len(p) - 1 : u8RxBuff[i - 2] = p[i]

\* The bytes since the 44, when they are a packet, are in the buffer.
LEMMA PacketBuffered ==
  ASSUME Inv, SinceInv, IsPacket(since), since[3] \in Summed
  PROVE  Buffered(since)
<1>1. u8RxStateMachine = "STX" /\ Holds(Len(since))
  BY PacketTaken
<1>2. since \in Seq(Byte) /\ Len(since) \in Nat /\ Len(since) >= 5
      /\ Len(since) = since[3] + 4 /\ UARTBUFFSIZE \in Nat /\ 1 < UARTBUFFSIZE
  BY LenProperties, SizeAssumption DEF Inv, TypeOK, IsPacket
<1>3. u8RxBuff[1] = since[3]
  <2>1. 3 \in 2 .. Len(since) /\ 3 - 2 = 1
    BY <1>2
  <2>. QED BY <1>1, <1>2, <2>1 DEF Holds
<1>4. PICK l \in Nat : l = u8RxBuff[1] /\ l >= 2 /\ l <= UARTBUFFSIZE - 2
  BY <1>2, <1>3 DEF Summed
<1>5. Len(since) = l + 4 /\ Len(since) >= 6
  BY <1>2, <1>3, <1>4
<1>6. ASSUME NEW i \in 2 .. Len(since) - 1
      PROVE  u8RxBuff[i - 2] = since[i]
  <2>1. i \in 2 .. Len(since) /\ i - 2 < UARTBUFFSIZE
    BY <1>2, <1>4, <1>5
  <2>. QED BY <1>1, <2>1 DEF Holds
<1>. QED BY <1>2, <1>3, <1>4, <1>5, <1>6 DEF Buffered

\* When state control is prompt the buffer holds the bytes since the 44 up to
\* the checksum.
LEMMA PromptBuffered ==
  ASSUME Inv, SinceInv, ~late, bRxFinish, u8RxBuff[1] \in Summed
  PROVE  Buffered(SubSeq(since, 1, since[3] + 3) \o <<DEF_DCCOMM_ETX>>)
<1>1. /\ since \in Seq(Byte) /\ Len(since) \in Nat /\ since # <<>>
      /\ since[1] = DEF_DCCOMM_STX
      /\ Len(since) >= u8RxBuff[1] + 4 /\ Holds(u8RxBuff[1] + 3)
  BY LenProperties DEF SinceInv, Inv, TypeOK
<1>2. PICK l \in Nat : l = u8RxBuff[1] /\ l >= 2 /\ l <= UARTBUFFSIZE - 2 /\ UARTBUFFSIZE \in Nat
  <2>1. PICK l \in 0 .. 255 : l = u8RxBuff[1]
    BY Numbers DEF Inv
  <2>2. l \in Nat /\ UARTBUFFSIZE \in Nat
    BY SizeAssumption
  <2>3. l >= 2 /\ l <= UARTBUFFSIZE - 2
    BY <2>1, <2>2 DEF Summed
  <2>. QED BY <2>1, <2>2, <2>3
<1>3. since[3] = l
  <2>1. 3 \in 2 .. l + 3 /\ 3 - 2 = 1 /\ 1 < UARTBUFFSIZE
    BY <1>2, SizeAssumption
  <2>. QED BY <1>1, <1>2, <2>1 DEF Holds
<1>. DEFINE q == SubSeq(since, 1, l + 3)
            p == q \o <<DEF_DCCOMM_ETX>>
<1>4. q \in Seq(Byte) /\ Len(q) = l + 3 /\ \A i \in 1 .. l + 3 : q[i] = since[i]
  <2>1. \A i \in 1 .. l + 3 : since[i] \in Byte
    <3>1. \A i \in 1 .. l + 3 : i \in 1 .. Len(since)
      BY <1>1, <1>2
    <3>. QED BY <1>1, <3>1, ElementOfSeq
  <2>2. q \in Seq(Byte)
        /\ Len(q) = (IF 1 <= l + 3 THEN (l + 3) - 1 + 1 ELSE 0)
        /\ \A i \in 1 .. (l + 3) - 1 + 1 : q[i] = since[1 + i - 1]
    <3>. HIDE DEF p
    <3>. QED BY <2>1, SubSeqProperties
  <2>3. (l + 3) - 1 + 1 = l + 3 /\ 1 <= l + 3
    OBVIOUS
  <2>4. ASSUME NEW i \in 1 .. l + 3
        PROVE  q[i] = since[i]
    <3>1. 1 + i - 1 = i
      OBVIOUS
    <3>. HIDE DEF q
    <3>. QED BY <2>2, <2>3, <3>1
  <2>. HIDE DEF q
  <2>. QED BY <2>2, <2>3, <2>4
<1>. HIDE DEF q
<1>5. p \in Seq(Byte) /\ Len(p) = l + 4 /\ p[l + 4] = DEF_DCCOMM_ETX
      /\ \A i \in 1 .. l + 3 : p[i] = q[i]
  <2>1. <<DEF_DCCOMM_ETX>> \in Seq(Byte) /\ Len(<<DEF_DCCOMM_ETX>>) = 1
    BY DEF Byte, DEF_DCCOMM_ETX
  <2>2. p \in Seq(Byte) /\ Len(p) = Len(q) + 1
        /\ \A i \in 1 .. Len(q) + 1 :
             p[i] = IF i <= Len(q) THEN q[i] ELSE <<DEF_DCCOMM_ETX>>[i - Len(q)]
    BY <1>4, <2>1, ConcatProperties
  <2>. HIDE DEF p
  <2>3. ASSUME NEW i \in 1 .. l + 3
        PROVE  p[i] = q[i]
    BY <1>4, <2>2
  <2>4. p[l + 4] = DEF_DCCOMM_ETX
    BY <1>4, <2>2
  <2>5. Len(p) = l + 4
    BY <1>4, <2>2
  <2>. QED BY <2>2, <2>3, <2>4, <2>5
<1>. HIDE DEF p
<1>6. IsPacket(p)
  <2>1. p[1] = DEF_DCCOMM_STX /\ p[3] = l
    <3>1. 1 \in 1 .. l + 3 /\ 3 \in 1 .. l + 3
      BY <1>2
    <3>. QED BY <1>1, <1>3, <1>4, <1>5, <3>1
  <2>. QED BY <1>2, <1>5, <2>1 DEF IsPacket
<1>7. ASSUME NEW i \in 2 .. Len(p) - 1
      PROVE  u8RxBuff[i - 2] = p[i]
  <2>1. i \in 2 .. l + 3 /\ i \in 1 .. l + 3 /\ i - 2 < UARTBUFFSIZE
    BY <1>2, <1>5
  <2>2. u8RxBuff[i - 2] = since[i]
    BY <1>1, <1>2, <2>1 DEF Holds
  <2>. QED BY <1>4, <1>5, <2>1, <2>2
<1>8. Len(p) = u8RxBuff[1] + 4 /\ Len(p) >= 6
  BY <1>2, <1>5
<1>9. Buffered(p)
  BY <1>5, <1>6, <1>7, <1>8 DEF Buffered
<1>. QED BY <1>3, <1>9 DEF p, q

\* The parser's check of a packet it holds is that the packet is genuine; its
\* other bytes are where state control looks for them.
LEMMA BufferedChecked ==
  ASSUME NEW p, Buffered(p)
  PROVE  /\ (u8RxBuff[u8RxBuff[1] + 1] = CSum(u8RxBuff)) <=> Genuine(p)
         /\ u8RxBuff[0] = p[2] /\ u8RxBuff[2] = p[4]
<1>1. /\ p \in Seq(Byte) /\ Len(p) \in Nat /\ Len(p) >= 6
      /\ Len(p) = u8RxBuff[1] + 4 /\ u8RxBuff[1] \in Nat
      /\ \A i \in 2 .. Len(p) - 1 : u8RxBuff[i - 2] = p[i]
  BY LenProperties, SizeAssumption DEF Buffered, Summed
<1>2. CSum(u8RxBuff) = PacketSum(p)
  <2>1. Len(p) >= 5
    BY <1>1
  <2>. QED BY <1>1, <2>1, SumsAgree
<1>3. u8RxBuff[u8RxBuff[1] + 1] = p[Len(p) - 1]
  <2>1. Len(p) - 1 \in 2 .. Len(p) - 1 /\ (Len(p) - 1) - 2 = u8RxBuff[1] + 1
    BY <1>1
  <2>2. u8RxBuff[(Len(p) - 1) - 2] = p[Len(p) - 1]
    BY <1>1, <2>1
  <2>. QED BY <2>1, <2>2
<1>4. u8RxBuff[0] = p[2] /\ u8RxBuff[2] = p[4]
  <2>1. 2 \in 2 .. Len(p) - 1 /\ 4 \in 2 .. Len(p) - 1 /\ 2 - 2 = 0 /\ 4 - 2 = 2
    BY <1>1
  <2>. QED BY <1>1, <2>1
<1>. QED BY <1>2, <1>3, <1>4 DEF Genuine

\* A step that answers a packet, well or badly, is one of state control.
LEMMA AnswerStep ==
  ASSUME Inv, Next, ret' \notin {0, -1, -4}
  PROVE  \/ BadChecksum /\ ret' = -3
         \/ NormalMessage /\ ret' = u8RxBuff[2]
         \/ DebugMessage /\ ret' = 11
         \/ UnknownMessage /\ ret' = -2
<1>1. ASSUME NEW b \in Bytes, Receive(b)
      PROVE  ret' \in {0, -1}
  BY <1>1 DEF Receive, Parse, StartOfPacket, SecondSync, Length, Data, ChecksumByte,
              EndOfPacket, Failed
<1>2. Control
  BY <1>1 DEF Next
<1>. QED BY <1>2 DEF Control, BadChecksum, NormalMessage, DebugMessage, UnknownMessage,
                     NothingToDo, Answer

\* A packet that is turned away has a bad checksum or an unknown opcode.
LEMMA TurnedAway ==
  ASSUME Inv, SinceInv, Next, ret' \in {-2, -3}, IsPacket(since), since[3] \in Summed
  PROVE  ~(Genuine(since) /\ since[2] = 0 /\ since[4] \in 1 .. 6)
<1>1. Buffered(since)
  BY PacketBuffered
<1>2. \/ BadChecksum
      \/ NormalMessage /\ ret' = u8RxBuff[2]
      \/ UnknownMessage
  BY AnswerStep
<1>3. CASE BadChecksum
  BY <1>1, <1>3, BufferedChecked DEF BadChecksum, ChkCSum, Buffered
<1>4. CASE NormalMessage /\ ret' = u8RxBuff[2]
  BY <1>4 DEF NormalMessage
<1>5. CASE UnknownMessage
  BY <1>1, <1>5, BufferedChecked DEF UnknownMessage
<1>. QED BY <1>2, <1>3, <1>4, <1>5

\* A step that answers a received packet well has a packet to answer.
LEMMA ActedOn ==
  ASSUME Inv, SinceInv, Next, ret' \in 1 .. 11, ~late, u8RxBuff[1] \in Summed,
         NEW p, p = SubSeq(since, 1, since[3] + 3) \o <<DEF_DCCOMM_ETX>>
  PROVE  /\ IsPacket(p)
         /\ bDCCommDBGEnable \/ Genuine(p)
         /\ ret' = IF p[2] = 0 THEN p[4] ELSE 11
<1>1. \/ NormalMessage /\ ret' = u8RxBuff[2]
      \/ DebugMessage /\ ret' = 11
  BY AnswerStep
<1>2. bRxFinish /\ TRUE \in ChkCSum(u8RxBuff)
  BY <1>1 DEF NormalMessage, DebugMessage
<1>3. Buffered(p)
  BY <1>2, PromptBuffered
<1>4. bDCCommDBGEnable \/ Genuine(p)
  BY <1>2, <1>3, BufferedChecked DEF ChkCSum
<1>5. ret' = IF p[2] = 0 THEN p[4] ELSE 11
  BY <1>1, <1>3, BufferedChecked DEF NormalMessage, DebugMessage
<1>. QED BY <1>3, <1>4, <1>5 DEF Buffered

\* No packet with a good checksum and a known opcode is turned away by
\* DCComm_Recv_State_Control, be it prompt or late.
THEOREM AnsweredCorrect ==
  Spec => GenuinePacketsAnswered
<1>1. Inv /\ SinceInv /\ [Next]_vars
        => [ret' \in {-2, -3} /\ IsPacket(since) /\ since[3] \in Summed =>
              ~(Genuine(since) /\ since[2] = 0 /\ since[4] \in 1 .. 6)]_vars
  BY TurnedAway
<1>. QED BY <1>1, SinceCorrect, PTL DEF Spec, GenuinePacketsAnswered

\* Unless it comes late, DCComm_Recv_State_Control acts on the bytes that
\* followed the 44, and debug mode apart only if their checksum is right.
THEOREM ActsCorrect ==
  Spec => ActsOnGenuinePackets
<1>1. Inv /\ SinceInv /\ [Next]_vars
        => [ret' \in 1 .. 11 /\ ~late /\ u8RxBuff[1] \in Summed =>
              LET p == SubSeq(since, 1, since[3] + 3) \o <<DEF_DCCOMM_ETX>>
              IN  /\ IsPacket(p)
                  /\ bDCCommDBGEnable \/ Genuine(p)
                  /\ ret' = IF p[2] = 0 THEN p[4] ELSE 11]_vars
  BY ActedOn
<1>. QED BY <1>1, SinceCorrect, PTL DEF Spec, ActsOnGenuinePackets
=============================================================================
