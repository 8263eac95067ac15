------------------------------ MODULE MCChecked ------------------------------
(***************************************************************************)
(* An instance of CheckedRaft for TLC that starts further on than Init.    *)
(***************************************************************************)
EXTENDS CheckedRaft, MCRaft

(* InitFigure8, and what checkers that have looked after every event so    *)
(* far remember: two leaders, nothing committed, every server running.     *)
InitCheckedFigure8 ==
  /\ InitFigure8
  /\ check \in BOOLEAN
  /\ stride \in IF check THEN Strides ELSE {1}
  /\ observations = 0
  /\ violation = Nil
  /\ leaders = IF check THEN {<<1, n1>>, <<2, n2>>} ELSE {}
  /\ checked_terms = leaders
  /\ seen = [n \in Server |-> Nil]
  /\ committed = {}
  /\ first_applied = {}
  /\ high_water = [n \in Server |-> IF check THEN SENTINEL_INDEX ELSE Nil]

SpecCheckedFigure8 == InitCheckedFigure8 /\ [][CheckedNext]_<<vars, checkVars>>
=============================================================================
