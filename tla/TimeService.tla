------------------------------ MODULE TimeService ------------------------------
(* The time mailbox of app/clock_service.c.  debugTask has two front ends,  *)
(* TIME (LEGACY) and TIME2 / TIME? (PRECISE, QUERY); defaultTask, the only   *)
(* task that touches the RTC, serves one request at a time.  Every operator  *)
(* maps the record to the record after one critical section of the code.     *)
(* The value of the clock, the sync age and the memory fields are left out;  *)
(* the two token counters may coincide, so an answer is told by its kind.    *)

Clock ==
  [owner     : BOOLEAN,                       \* s_owner_task # NULL
   state     : {"IDLE", "PENDING", "APPLYING", "COMPLETE"},
   kind      : {"LEGACY", "PRECISE", "QUERY"},
   ok        : BOOLEAN,                       \* s_time_request.result = 0
   trustLost : BOOLEAN,                       \* s_rtc_trust_lost
   ready     : BOOLEAN]                       \* calendar_state = READY

ClockInit ==
  [owner |-> FALSE, state |-> "IDLE", kind |-> "LEGACY", ok |-> FALSE,
   trustLost |-> FALSE, ready |-> FALSE]

(* clock_service_request_*: -2 before defaultTask runs, -1 while in use.     *)
Accepts(c) == c.owner /\ c.state = "IDLE"
Requested(c, kind) == [c EXCEPT !.state = "PENDING", !.kind = kind]

(* clock_service_take_*_result: each front end takes its own kind only.      *)
Answers(c, kinds) == c.state = "COMPLETE" /\ c.kind \in kinds
Taken(c) == [c EXCEPT !.state = "IDLE"]

(* A reading of the RTC never restores trust that a failed write has lost.   *)
Reads(c) == {[c EXCEPT !.ready = good /\ ~c.trustLost] : good \in BOOLEAN}

(* A write that fails, or whose read-back is late, loses the trust.          *)
Writes(c) ==
  {[c EXCEPT !.ready = good, !.trustLost = ~good, !.ok = good] : good \in BOOLEAN}

(* A time that waited too long is refused before the RTC is touched.         *)
Refusals(c) == {[d EXCEPT !.ok = FALSE] : d \in Reads(c)}

(* A query is answered from the reading it makes.                            *)
Queries(c) == {[d EXCEPT !.ok = d.ready] : d \in Reads(c)}

Completed(cs) == {[c EXCEPT !.state = "COMPLETE"] : c \in cs}

(* Mutant of Served: the refusal of an old time leaves without an answer.    *)
ServedUnlessOld(c) ==
  CASE c.kind = "LEGACY"  -> Completed(Writes(c))
    [] c.kind = "PRECISE" -> Completed(Writes(c)) \cup Refusals(c)
    [] c.kind = "QUERY"   -> Completed(Queries(c))

Served(c) ==
  CASE c.kind = "LEGACY"  -> Completed(Writes(c))
    [] c.kind = "PRECISE" -> Completed(Writes(c) \cup Refusals(c))
    [] c.kind = "QUERY"   -> Completed(Queries(c))

=============================================================================
