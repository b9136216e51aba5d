---------------------------- MODULE DCCommParser ----------------------------
(***************************************************************************)
(* Parser/ChrisHost_DCComm.c: the parser that takes a packet               *)
(*                                                                         *)
(*    44 <second sync> <length> <length - 1 data bytes> <checksum> 43      *)
(*                                                                         *)
(* one byte at a time, and the state control that acts on a packet once    *)
(* the parser has raised bRxFinish.  The 44 is not stored.  Both functions *)
(* run in one thread; the caller decides when the second is called, and    *)
(* the main of this file calls it after all bytes.                         *)
(*                                                                         *)
(* The parser checks no length.  What it stores behind its buffer goes to  *)
(* members of DCComm and to memory that neither function uses otherwise:   *)
(* the store is left out, and what the checksum reads from there can be    *)
(* anything.  (Far enough behind it, the process is killed.)               *)
(***************************************************************************)
EXTENDS Integers, Sequences

CONSTANTS UARTBUFFSIZE,  \* size of the receive buffer (30 in the header)
          UINT_MAX,      \* the largest unsigned int
          Bytes,         \* the bytes that may be received
          MaxSince       \* bound: the bytes since a start of packet

DEF_DCCOMM_STX == 68   \* 0x44
DEF_DCCOMM_ETX == 67   \* 0x43

Byte == 0 .. 255

ASSUME SizeAssumption  == UARTBUFFSIZE \in Nat /\ UARTBUFFSIZE > 4
ASSUME UintAssumption  == UINT_MAX \in Nat /\ UINT_MAX > 255
ASSUME BytesAssumption == Bytes \subseteq Byte
ASSUME BoundAssumption == MaxSince \in 1 .. UINT_MAX - 1

VARIABLES
  u8RxStateMachine,
  u8RxBuff,           \* the receive buffer, indexed from 0 as in C
  u8RxBuffIndex,      \* unsigned ints, in spite of their names
  u8RxDataIndex,
  bRxFinish,          \* a packet is waiting for state control
  bDCCommDBGEnable,   \* checksums are not checked
  ret,                \* what the last call of either function returned
  since,              \* history: the bytes since the last 44 taken as a start
  late                \* history: bytes have come since the end of the packet
                      \* that is waiting

parserVars == <<u8RxStateMachine, u8RxBuff, u8RxBuffIndex, u8RxDataIndex>>
vars == <<parserVars, bRxFinish, bDCCommDBGEnable, ret, since, late>>

RxStates == {"STX", "2NDSYNC", "LENGTH", "DATA", "ETX"}
-----------------------------------------------------------------------------
\* The types of the parser's variables and of what its two functions return.
TypeOK ==
  /\ u8RxStateMachine \in RxStates
  /\ u8RxBuff \in [0 .. UARTBUFFSIZE - 1 -> Byte]
  /\ u8RxBuffIndex \in 0 .. UINT_MAX
  /\ u8RxDataIndex \in 0 .. UINT_MAX
  /\ bRxFinish \in BOOLEAN
  /\ bDCCommDBGEnable \in BOOLEAN
  /\ ret \in -4 .. 11
  /\ since \in Seq(Byte) /\ Len(since) <= MaxSince
  /\ late \in BOOLEAN

Init ==
  /\ u8RxStateMachine = "STX"
  /\ u8RxBuff = [i \in 0 .. UARTBUFFSIZE - 1 |-> 0]
  /\ u8RxBuffIndex = 0
  /\ u8RxDataIndex = 0
  /\ bRxFinish = FALSE
  /\ bDCCommDBGEnable = FALSE
  /\ ret = 0
  /\ since = <<>>
  /\ late = FALSE
-----------------------------------------------------------------------------
\* A store behind the buffer leaves it as it is.
Store(b) ==
  u8RxBuff' = [i \in DOMAIN u8RxBuff |-> IF i = u8RxBuffIndex THEN b ELSE u8RxBuff[i]]

Advance == u8RxBuffIndex' = u8RxBuffIndex + 1

StartOfPacket(b) ==
  /\ u8RxStateMachine = "STX" /\ b = DEF_DCCOMM_STX
  /\ u8RxBuffIndex' = 0
  /\ u8RxStateMachine' = "2NDSYNC"
  /\ ret' = 0
  /\ UNCHANGED <<u8RxBuff, u8RxDataIndex, bRxFinish>>

SecondSync(b) ==
  /\ u8RxStateMachine = "2NDSYNC"
  /\ u8RxStateMachine' = "LENGTH"
  /\ Store(b) /\ Advance
  /\ ret' = 0
  /\ UNCHANGED <<u8RxDataIndex, bRxFinish>>

Length(b) ==
  /\ u8RxStateMachine = "LENGTH"
  /\ u8RxStateMachine' = "DATA"
  /\ Store(b) /\ Advance
  /\ u8RxDataIndex' = b
  /\ ret' = 0
  /\ UNCHANGED bRxFinish

\* One less; a length of 0 counts down from the largest number.
CountDown == u8RxDataIndex' = IF u8RxDataIndex = 0 THEN UINT_MAX ELSE u8RxDataIndex - 1

\* Mutant: the last byte is not told from the others.
Data_NoEnd(b) ==
  /\ u8RxStateMachine = "DATA"
  /\ Store(b) /\ Advance
  /\ CountDown
  /\ ret' = 0
  /\ UNCHANGED <<u8RxStateMachine, bRxFinish>>

Data(b) ==
  /\ u8RxStateMachine = "DATA" /\ u8RxDataIndex # 1
  /\ Store(b) /\ Advance
  /\ CountDown
  /\ ret' = 0
  /\ UNCHANGED <<u8RxStateMachine, bRxFinish>>

ChecksumByte(b) ==
  /\ u8RxStateMachine = "DATA" /\ u8RxDataIndex = 1
  /\ u8RxStateMachine' = "ETX"
  /\ Store(b) /\ Advance
  /\ ret' = 0
  /\ UNCHANGED <<u8RxDataIndex, bRxFinish>>

\* Mutant: the state machine is not set back.
EndOfPacket_NotReset(b) ==
  /\ u8RxStateMachine = "ETX" /\ b = DEF_DCCOMM_ETX
  /\ Store(b)
  /\ bRxFinish' = TRUE
  /\ ret' = 0
  /\ UNCHANGED <<u8RxStateMachine, u8RxBuffIndex, u8RxDataIndex>>

EndOfPacket(b) ==
  /\ u8RxStateMachine = "ETX" /\ b = DEF_DCCOMM_ETX
  /\ Store(b)
  /\ bRxFinish' = TRUE
  /\ u8RxStateMachine' = "STX"
  /\ ret' = 0
  /\ UNCHANGED <<u8RxBuffIndex, u8RxDataIndex>>

\* The last branch: the statement that would set the state machine back comes
\* after the return and is never reached.
Failed(b) ==
  /\ \/ u8RxStateMachine = "STX" /\ b # DEF_DCCOMM_STX
     \/ u8RxStateMachine = "ETX" /\ b # DEF_DCCOMM_ETX
  /\ ret' = -1
  /\ UNCHANGED <<parserVars, bRxFinish>>

\* DCComm_Recv_MSG_Parser(u8Data)
Parse(b) ==
  \/ StartOfPacket(b)
  \/ SecondSync(b)
  \/ Length(b)
  \/ Data(b)
  \/ ChecksumByte(b)
  \/ EndOfPacket(b)
  \/ Failed(b)

Receive(b) ==
  /\ u8RxStateMachine = "STX" \/ Len(since) < MaxSince
  /\ Parse(b)
  /\ since' = IF u8RxStateMachine = "STX"
              THEN IF b = DEF_DCCOMM_STX THEN <<b>> ELSE <<>>
              ELSE Append(since, b)
  /\ late' = (bRxFinish /\ ~(u8RxStateMachine = "ETX" /\ b = DEF_DCCOMM_ETX))
  /\ UNCHANGED bDCCommDBGEnable
-----------------------------------------------------------------------------
\* The sum of the opcode and the data: buff[2] to buff[length], the length
\* being buff[1].  The bytes are added in an 8-bit variable.
CSum(buff) ==
  LET sum[k \in 1 .. buff[1]] ==
        IF k = 1 THEN 0 ELSE (sum[k - 1] + buff[k]) % 256
  IN  sum[buff[1]]

\* The lengths for which the sum is made, and compared, inside the buffer.  (The
\* loop that is left when the length is 1 goes round 255 or 256 times for 0 and
\* for 1.)
Summed == 2 .. UARTBUFFSIZE - 2

\* Mutant: the last data byte is left out of the sum.
ChkCSum_LastLeftOut(buff) ==
  LET sum[k \in 1 .. buff[1]] ==
        IF k = 1 THEN 0 ELSE (sum[k - 1] + buff[k]) % 256
  IN  IF bDCCommDBGEnable THEN {TRUE}
      ELSE IF buff[1] \in Summed THEN {buff[buff[1] + 1] = sum[buff[1] - 1]}
      ELSE BOOLEAN

\* What DCComm_Chk_CSum may return.  In debug mode every checksum is good.
ChkCSum(buff) ==
  IF bDCCommDBGEnable THEN {TRUE}
  ELSE IF buff[1] \in Summed THEN {buff[buff[1] + 1] = CSum(buff)}
  ELSE BOOLEAN

Answer(code) ==
  /\ bRxFinish' = FALSE
  /\ ret' = code
  /\ late' = FALSE
  /\ UNCHANGED <<parserVars, since>>

BadChecksum ==
  /\ bRxFinish
  /\ FALSE \in ChkCSum(u8RxBuff)
  /\ Answer(-3)
  /\ UNCHANGED bDCCommDBGEnable

\* Mutant: the opcode is returned whatever it is.
NormalMessage_AnyOpcode ==
  /\ bRxFinish
  /\ TRUE \in ChkCSum(u8RxBuff)
  /\ u8RxBuff[0] = 0
  /\ Answer(u8RxBuff[2])
  /\ UNCHANGED bDCCommDBGEnable

NormalMessage ==
  /\ bRxFinish
  /\ TRUE \in ChkCSum(u8RxBuff)
  /\ u8RxBuff[0] = 0 /\ u8RxBuff[2] \in 1 .. 6
  /\ Answer(u8RxBuff[2])
  /\ UNCHANGED bDCCommDBGEnable

DebugMessage ==
  /\ bRxFinish
  /\ TRUE \in ChkCSum(u8RxBuff)
  /\ u8RxBuff[0] = 1 /\ u8RxBuff[2] = 1
  /\ bDCCommDBGEnable' = ~bDCCommDBGEnable
  /\ Answer(11)

UnknownMessage ==
  /\ bRxFinish
  /\ TRUE \in ChkCSum(u8RxBuff)
  /\ ~(u8RxBuff[0] = 0 /\ u8RxBuff[2] \in 1 .. 6)
  /\ ~(u8RxBuff[0] = 1 /\ u8RxBuff[2] = 1)
  /\ Answer(-2)
  /\ UNCHANGED bDCCommDBGEnable

NothingToDo ==
  /\ ~bRxFinish
  /\ Answer(-4)
  /\ UNCHANGED bDCCommDBGEnable

\* DCComm_Recv_State_Control()
Control ==
  \/ BadChecksum
  \/ NormalMessage
  \/ DebugMessage
  \/ UnknownMessage
  \/ NothingToDo

Next ==
  \/ \E b \in Bytes : Receive(b)
  \/ Control

Spec == Init /\ [][Next]_vars
-----------------------------------------------------------------------------
\* The bytes p are a packet: they end where the length says.
IsPacket(p) ==
  /\ Len(p) >= 5
  /\ p[1] = DEF_DCCOMM_STX
  /\ Len(p) = p[3] + 4
  /\ p[Len(p)] = DEF_DCCOMM_ETX

\* The checksum of a packet, from its definition: the sum of everything
\* between the length and the checksum, modulo 256.
PacketSum(p) ==
  LET sum[k \in 3 .. Len(p) - 2] == IF k = 3 THEN 0 ELSE sum[k - 1] + p[k]
  IN  sum[Len(p) - 2] % 256

Genuine(p) == p[Len(p) - 1] = PacketSum(p)

\* The lengths of the packets that fit in the buffer.
Fitting == 1 .. UARTBUFFSIZE - 3

\* Where the parser is in the packet is told by its index and its counter, and
\* the index, at which bytes are stored, leaves the buffer only in a packet that
\* does not fit; one of length 0 does not end.
IndexFollowsState ==
  /\ u8RxStateMachine = "2NDSYNC" => u8RxBuffIndex = 0
  /\ u8RxStateMachine = "LENGTH" => u8RxBuffIndex = 1
  /\ u8RxStateMachine = "DATA" =>
       \/ /\ u8RxDataIndex \in 1 .. u8RxBuff[1]
          /\ u8RxBuffIndex = 2 + u8RxBuff[1] - u8RxDataIndex
       \/ u8RxBuff[1] = 0 /\ u8RxBuffIndex >= 2
  /\ u8RxStateMachine = "ETX" => u8RxBuff[1] # 0 /\ u8RxBuffIndex = u8RxBuff[1] + 2
  /\ u8RxBuffIndex < UARTBUFFSIZE \/ u8RxBuff[1] \notin Fitting

\* A packet that begins while the parser waits for one is taken whole, as far
\* as the buffer goes, and the parser is ready for the next.
PacketIsTaken ==
  IsPacket(since) =>
    /\ u8RxStateMachine = "STX"
    /\ \A i \in 2 .. Len(since) : i - 2 < UARTBUFFSIZE => u8RxBuff[i - 2] = since[i]

\* Unless it comes late, what state control acts on are the bytes that followed
\* the 44, up to the checksum, and debug mode apart only if the checksum is the
\* sum of the bytes; of lengths that are summed outside the buffer nothing can
\* be said.
ActsOnGenuinePackets ==
  [][ret' \in 1 .. 11 /\ ~late /\ u8RxBuff[1] \in Summed =>
       LET p == SubSeq(since, 1, since[3] + 3) \o <<DEF_DCCOMM_ETX>>
       IN  /\ IsPacket(p)
           /\ bDCCommDBGEnable \/ Genuine(p)
           /\ ret' = IF p[2] = 0 THEN p[4] ELSE 11]_vars

\* No packet with a good checksum and a known opcode is turned away.
GenuinePacketsAnswered ==
  [][ret' \in {-2, -3} /\ IsPacket(since) /\ since[3] \in Summed =>
       ~(Genuine(since) /\ since[2] = 0 /\ since[4] \in 1 .. 6)]_vars

\* bRxFinish is raised by packets: the bytes since the 44 are one, if no more
\* have come since.
FinishedByPackets == bRxFinish /\ ~late => IsPacket(since)
=============================================================================
