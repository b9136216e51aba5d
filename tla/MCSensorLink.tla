---------------------------- MODULE MCSensorLink ----------------------------
(***************************************************************************)
(* SensorLink on a small set of frames.                                    *)
(***************************************************************************)
EXTENDS SensorLink

F3(s, h, l) == [sensor |-> s, hi |-> h, lo |-> l]

\* Frames without a 43 or 44 between their ends, as in the comment at
\* Serial.py:152, and one with the value 0.
CleanFrames == {F3(0, 4, 44), F3(0, 0, 0), F3(1, 1, 44), F3(2, 6, 44)}

\* A 43 or 44 as high byte, low byte and checksum.
DirtyFrames ==
  {F3(0, 67, 10), F3(0, 68, 10), F3(1, 5, 67), F3(1, 5, 68),
   F3(2, 5, 12), F3(2, 5, 13)}

AllFrames == CleanFrames \cup DirtyFrames

\* The tails of a frame: the reader may be started while one is being sent.
AnyTail == {SubSeq(Bytes(F3(0, 4, 44)), k, 9) : k \in 2 .. 10}

NoTail == {<<>>}

\* The value 6700 is what a line cut after the high byte 43 leaves behind.
AllValues == {100 * f.hi + f.lo : f \in AllFrames} \cup {6700}
=============================================================================
