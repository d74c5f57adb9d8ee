------------------------------- MODULE MCConsole -------------------------------
(* Three columns and two rows at scale 1, a single cell at scale 2. The keys are  *)
(* a, =, -, backspace, enter and one without a character, with their shifts.      *)
EXTENDS Console
Table(pairs) == [sc \in 0 .. 127 |->
  IF \E p \in pairs : p[1] = sc THEN (CHOOSE p \in pairs : p[1] = sc)[2] ELSE 0]
MCMap   == Table({<<30, 97>>, <<13, 61>>, <<12, 45>>, <<14, 8>>, <<28, 10>>})
MCShift == Table({<<30, 65>>, <<13, 43>>, <<12, 95>>, <<14, 8>>, <<28, 10>>})
================================================================================
