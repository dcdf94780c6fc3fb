--------------------------------- MODULE MCSleep ---------------------------------
(* Instances of Sleep for TLC. *)
EXTENDS Sleep

Of(presses, movements, bytes, failures) ==
  [press |-> presses, movement |-> movements, byte |-> bytes, failure |-> failures]

(* One press, or any two of the other events: presses reach the other tasks only *)
(* through the veto of their own task.                                           *)
PressOrPairs ==
  {Of(1, 0, 0, 0), Of(0, 2, 0, 0), Of(0, 0, 2, 0), Of(0, 0, 0, 2),
   Of(0, 1, 1, 0), Of(0, 1, 0, 1), Of(0, 0, 1, 1)}
===================================================================================
