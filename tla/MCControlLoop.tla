--------------------------- MODULE MCControlLoop ---------------------------
(* An instance of ControlLoop for TLC. *)
EXTENDS ControlLoop

CONSTANTS p1, p2

(* Slower than a second, barely slower, barely faster, and idle; the other  *)
(* Pod is fast or does not answer.                                         *)
MCLoads == [p \in Pods |->
  IF p = p1
  THEN {[time |-> 1250, count |-> 2], [time |-> 1010, count |-> 1], [time |-> 990, count |-> 1],
        [time |-> 0, count |-> 0]}
  ELSE {[time |-> 100, count |-> 3]}]
=============================================================================
