------------------------------ MODULE AtomicFile ------------------------------
(***************************************************************************)
(* What a client of the file store is promised for one mutation of a file  *)
(* (an upload with its COMMIT, or a removal): the file changes as a whole, *)
(* at most once, and never again once the client has a definite answer.    *)
(* A client that gave up knows nothing: the change may still come, but not *)
(* after it has asked for the next one.                                    *)
(***************************************************************************)

CONSTANTS Files, Absent

VARIABLES
  file,      \* what a restart would find under the name
  target,    \* what the last request asks the file to become
  told,      \* what the client knows of that request
  applied    \* that request has taken effect

vars == <<file, target, told, applied>>

Answers == {"none", "waiting", "ok", "error", "unknown"}

Init ==
  /\ file \in Files /\ target \in Files
  /\ told = "none" /\ applied = FALSE

Ask(f) ==
  /\ told # "waiting"
  /\ target' = f /\ told' = "waiting" /\ applied' = FALSE
  /\ UNCHANGED file

Apply ==
  /\ told \in {"waiting", "unknown"} /\ ~applied
  /\ file' = target /\ applied' = TRUE
  /\ UNCHANGED <<target, told>>

Tell(answer) ==
  /\ told = "waiting"
  /\ answer = "ok" => applied
  /\ told' = answer
  /\ UNCHANGED <<file, target, applied>>

(* The next client starts without an answer, unless the last one left an   *)
(* open question.                                                          *)
NewClient ==
  /\ told \in {"none", "ok", "error"}
  /\ target' = Absent /\ told' = "none" /\ applied' = FALSE
  /\ UNCHANGED file

(* Someone at the console removes the file while no client is waiting.     *)
RemovedByHand ==
  /\ told # "waiting" /\ file' = Absent
  /\ UNCHANGED <<target, told, applied>>

Next ==
  \/ \E f \in Files : Ask(f)
  \/ Apply
  \/ \E answer \in {"ok", "error", "unknown"} : Tell(answer)
  \/ NewClient
  \/ RemovedByHand

Spec == Init /\ [][Next]_vars

===============================================================================
