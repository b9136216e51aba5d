------------------------------ MODULE RoundLog ------------------------------
(***************************************************************************)
(* What the collecting station promises, without threads, flags or a      *)
(* database.  Readings of the sensors are grouped in rounds; a round that  *)
(* is complete, or one for which a second reading of the same sensor has   *)
(* arrived, is closed into exactly one row of the log.  A row carries its  *)
(* own position in the log and the readings of its round, 0 standing for a *)
(* sensor that was silent.                                                 *)
(***************************************************************************)
EXTENDS Naturals, Sequences

CONSTANTS Sensors,   \* the sensors that report readings
          Values     \* the readings a sensor can report

VARIABLES open,      \* the readings of the open round: {} or {v} per sensor
          due,       \* a sensor has repeated itself: the round must close
          log        \* the rows recorded so far

vars == <<open, due, log>>

Silent == [s \in Sensors |-> {}]

Complete == \A s \in Sensors : open[s] # {}

\* The reading a row keeps for a sensor of the closing round.
Reading(r) == IF r = {} THEN 0 ELSE CHOOSE v \in r : TRUE

Init ==
  /\ open = Silent
  /\ due = FALSE
  /\ log = <<>>

\* The first reading of a sensor in a round is kept.
Accept(s, v) ==
  /\ ~due
  /\ open[s] = {}
  /\ open' = [open EXCEPT ![s] = {v}]
  /\ UNCHANGED <<due, log>>

\* A further reading of a sensor is not kept; it ends the round.
Repeat(s) ==
  /\ open[s] # {}
  /\ due' = TRUE
  /\ UNCHANGED <<open, log>>

Close ==
  /\ due \/ Complete
  /\ log' = Append(log, [vals  |-> [s \in Sensors |-> Reading(open[s])],
                         index |-> Len(log)])
  /\ open' = Silent
  /\ due' = FALSE

Next ==
  \/ \E s \in Sensors, v \in Values : Accept(s, v)
  \/ \E s \in Sensors : Repeat(s)
  \/ Close

Spec == Init /\ [][Next]_vars
=============================================================================
