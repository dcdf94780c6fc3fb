----------------------------- MODULE ConfigRegister -----------------------------
(***************************************************************************)
(* What the stored time format promises its users: one value that survives *)
(* power loss, and requests that are answered.  A request that succeeded   *)
(* is the value; one that failed, or was cut by a power loss, leaves the   *)
(* old value or has written the new one, never a third.                    *)
(***************************************************************************)
CONSTANT Formats

VARIABLES value,    \* the format a restart would find
          pending,  \* the format being saved, or "none"
          answer    \* the result of the last request: "none", "ok" or "failed"

vars == <<value, pending, answer>>

Init == value \in Formats /\ pending = "none" /\ answer = "none"

Request(f) ==
  /\ pending = "none"
  /\ pending' = f
  /\ answer' = "none"
  /\ UNCHANGED value

Write ==
  /\ pending # "none"
  /\ value' = pending
  /\ UNCHANGED <<pending, answer>>

Succeed ==
  /\ pending # "none" /\ value = pending
  /\ pending' = "none"
  /\ answer' = "ok"
  /\ UNCHANGED value

Fail ==
  /\ pending # "none"
  /\ pending' = "none"
  /\ answer' = "failed"
  /\ UNCHANGED value

PowerLoss ==
  /\ pending' = "none"
  /\ answer' = "none"
  /\ value' = value \/ (pending # "none" /\ value' = pending)

Next == (\E f \in Formats : Request(f)) \/ Write \/ Succeed \/ Fail \/ PowerLoss

Spec == Init /\ [][Next]_vars
=============================================================================
