--------------------------- MODULE WeatherFeedProofs ---------------------------
(***************************************************************************)
(* Proofs about WeatherFeed, for any set of reports, any number of lines,  *)
(* ids, readers and faults: types, what a reader draws, what a host was    *)
(* told, publication once, and the attention event.                        *)
(***************************************************************************)
EXTENDS WeatherFeed, FiniteSetTheorems, TLAPS

(* The types of alerts. *)

LEMMA AlertTypes ==
  ASSUME NEW x \in ShownAlert
  PROVE  /\ Content(x) \in Alert
         /\ x.alert.level \in Nat /\ x.alert.id \in Text
<1>1. x.alert \in Alert
  BY DEF ShownAlert
<1>2. ASSUME NEW a \in Alert
      PROVE  [a EXCEPT !.id = "", !.replaces = ""] \in Alert
  BY DEF Alert, Text
<1>3. x.alert.level \in Nat /\ x.alert.id \in Text
  BY <1>1 DEF Alert
<1> QED BY <1>1, <1>2, <1>3 DEF Content

LEMMA MarkedTypes ==
  ASSUME NEW x \in ShownAlert, NEW e \in BOOLEAN, NEW p \in BOOLEAN
  PROVE  LET y == [x EXCEPT !.expired = e, !.pending = p]
         IN  y \in ShownAlert /\ y.alert = x.alert /\ y.expired = e /\ y.pending = p
BY DEF ShownAlert

LEMMA StampedFacts ==
  ASSUME NEW x \in ShownAlert, NEW t
  PROVE  Stamped(x, t) \in ShownAlert /\ Stamped(x, t).alert = x.alert
<1> DEFINE over == x.alert.expires <= t
           late == x.alert.effective > t
<1>1. over \in BOOLEAN /\ (~over /\ late) \in BOOLEAN
  OBVIOUS
<1> HIDE DEF over, late
<1> QED BY <1>1, MarkedTypes DEF Stamped, over, late

LEMMA ExpiredFacts ==
  ASSUME NEW x \in ShownAlert
  PROVE  /\ Expired(x) \in ShownAlert /\ Expired(x).alert = x.alert
         /\ x.pending /\ ~Expired(x).pending /\ x.alert.important => InForce(Expired(x))
<1> DEFINE over == x.expired \/ x.alert.expires <= clock
           late == x.pending /\ (over \/ x.alert.effective > clock)
<1>1. over \in BOOLEAN /\ late \in BOOLEAN
  OBVIOUS
<1>2. Expired(x) = [x EXCEPT !.expired = over, !.pending = late]
  BY DEF Expired, ShownAlert
<1>3. x.pending /\ ~late => ~over
  OBVIOUS
<1> HIDE DEF over, late
<1> DEFINE y == Expired(x)
<1>4. y \in ShownAlert /\ y.alert = x.alert /\ y.expired = over /\ y.pending = late
  <2> HIDE DEF y
  <2>1. y = [x EXCEPT !.expired = over, !.pending = late]
    BY <1>2 DEF y
  <2> QED BY <1>1, <2>1 DEF ShownAlert
<1> HIDE DEF y
<1>5. x.pending /\ ~y.pending /\ x.alert.important => InForce(y)
  BY <1>3, <1>4 DEF InForce
<1> QED BY <1>4, <1>5 DEF y

(* An alert of highest priority exists, and so does a first one: a batch    *)
(* has at most three.                                                       *)
LEMMA ChosenIsCandidate ==
  ASSUME NEW alerts \in ShownAlerts, NEW c \in SUBSET DOMAIN alerts, c # {}
  PROVE  Chosen(alerts, c) \in c
<1> DEFINE Beats(i, j) == \/ alerts[i].alert.level > alerts[j].alert.level
                          \/ alerts[i].alert.level = alerts[j].alert.level /\ i <= j
<1>1. DOMAIN alerts \subseteq 1..3
  BY DEF ShownAlerts, WEATHER_FEED_MAX_ALERTS
<1>2. \A i \in DOMAIN alerts : alerts[i].alert.level \in Nat
  BY AlertTypes DEF ShownAlerts
<1>3. \E i \in c : \A j \in c : Beats(i, j)
  <2> DEFINE L == [i \in 1..3 |-> IF i \in DOMAIN alerts THEN alerts[i].alert.level ELSE 0]
  <2>1. L \in [1..3 -> Nat]
    BY <1>2
  <2>2. \E i \in c : \A j \in c : L[i] > L[j] \/ (L[i] = L[j] /\ i <= j)
    <3> HIDE DEF L
    <3>1. c \subseteq {1, 2, 3} /\ c # {}
      BY <1>1
    <3>2. L[1] \in Nat /\ L[2] \in Nat /\ L[3] \in Nat
      BY <2>1
    <3> QED BY <3>1, <3>2
  <2> QED BY <1>1, <2>2
<1> QED BY <1>3 DEF Chosen

LEMMA FirstIsMember ==
  ASSUME NEW c \in SUBSET (1..3), c # {}
  PROVE  (CHOOSE i \in c : \A j \in c : i <= j) \in c
<1>1. c \subseteq {1, 2, 3}
  OBVIOUS
<1>2. \E i \in c : \A j \in c : i <= j
  <2>1. CASE 1 \in c
    BY <1>1, <2>1
  <2>2. CASE 1 \notin c /\ 2 \in c
    BY <1>1, <2>2
  <2>3. CASE 1 \notin c /\ 2 \notin c
    <3>1. c = {3}
      BY <1>1, <2>3
    <3> QED BY <3>1
  <2> QED BY <2>1, <2>2, <2>3
<1> QED BY <1>2

-----------------------------------------------------------------------------
(* What a publication does. *)

LEMMA BodyTypes ==
  ASSUME NEW b \in Body
  PROVE  /\ b.alerts \in ShownAlerts /\ DOMAIN b.alerts \subseteq 1..3
         /\ \A i \in DOMAIN b.alerts : b.alerts[i] \in ShownAlert
BY DEF Body, ShownAlerts, WEATHER_FEED_MAX_ALERTS

LEMMA PublishedTypes ==
  ASSUME NEW new \in Body, NEW old \in Body
  PROVE  LET alerts == PublishedAlerts(new, old)
         IN  /\ alerts \in ShownAlerts
             /\ PublishedState(new, old, alerts) \in States
<1>1. [i \in DOMAIN new.alerts |-> Stamped(new.alerts[i], new.checked)] \in ShownAlerts
  <2>1. new.alerts \in Seq(ShownAlert) /\ Len(new.alerts) <= 3
    BY DEF Body, ShownAlerts, WEATHER_FEED_MAX_ALERTS
  <2>2. \A i \in DOMAIN new.alerts : Stamped(new.alerts[i], new.checked) \in ShownAlert
    BY BodyTypes, StampedFacts
  <2> DEFINE f == [i \in DOMAIN new.alerts |-> Stamped(new.alerts[i], new.checked)]
  <2>3. DOMAIN f = 1..Len(new.alerts) /\ Len(new.alerts) \in Nat
    BY <2>1
  <2>4. f \in Seq(ShownAlert) /\ Len(f) = Len(new.alerts)
    BY <2>2, <2>3
  <2> QED BY <2>1, <2>4 DEF ShownAlerts, WEATHER_FEED_MAX_ALERTS
<1>2. PublishedAlerts(new, old) \in ShownAlerts
  BY <1>1 DEF PublishedAlerts, Body
<1>3. \A a : PublishedState(new, old, a) \in States
  BY DEF PublishedState, Body, States
<1> QED BY <1>2, <1>3

(* The parts of Publish by name. *)
New    == slots[staging].body
Old    == IF active = FEED_NO_SLOT THEN NoBody ELSE slots[active].body
Alerts == PublishedAlerts(New, Old)
Shown  == [New EXCEPT !.alerts = Alerts, !.state = PublishedState(New, Old, Alerts)]
Rev    == IF Changed(Shown, Old) THEN revision + 1 ELSE revision
Newly  == NewAlerts(New, Old, Alerts)

LEMMA PublishParts ==
  ASSUME Publish
  PROVE  /\ revision' = Rev
         /\ slots' = [slots EXCEPT ![staging] =
                     [slots[staging] EXCEPT !.body = Shown, !.revision = Rev]]
         /\ Newly # {} => Announce(Alerts, Chosen(Alerts, Newly), Rev)
         /\ Newly = {} => KeepAttention(Alerts)
         /\ active' = staging /\ staging' = FEED_NO_SLOT /\ fresh' = TRUE
         /\ last' = [id |-> slots[staging].id, lines |-> lines]
         /\ UNCHANGED lines
BY DEF Publish, New, Old, Alerts, Shown, Rev, Newly

LEMMA NoBodyType == NoBody \in Body
<1>1. << >> \in ShownAlerts
  BY DEF ShownAlerts, WEATHER_FEED_MAX_ALERTS
<1>2. 0 \in 0..MaxTime
  BY BoundsAssumption
<1> QED BY <1>1, <1>2 DEF NoBody, Body, Text, States

LEMMA PublishTypes ==
  ASSUME TypeOK, staging # FEED_NO_SLOT
  PROVE  /\ New \in Body /\ Old \in Body /\ Shown \in Body
         /\ Alerts \in ShownAlerts /\ Newly \subseteq DOMAIN Alerts
         /\ Rev \in Nat /\ Rev >= revision
         /\ Shown.alerts = Alerts /\ Shown.city = New.city /\ Shown.now = New.now
<1>1. New \in Body /\ Old \in Body
  BY NoBodyType DEF TypeOK, Batch, New, Old
<1>2. Alerts \in ShownAlerts /\ PublishedState(New, Old, Alerts) \in States
  BY <1>1, PublishedTypes DEF Alerts
<1>3. Shown \in Body /\ Shown.alerts = Alerts /\ Shown.city = New.city /\ Shown.now = New.now
  BY <1>1, <1>2 DEF Shown, Body
<1>4. Newly \subseteq DOMAIN Alerts
  BY DEF Newly, NewAlerts
<1>5. Rev \in Nat /\ Rev >= revision
  BY DEF Rev, TypeOK
<1> QED BY <1>1, <1>2, <1>3, <1>4, <1>5

AttentionType ==
  /\ attention \in [revision : Nat, index : Nat, id : Text]
  /\ announced \subseteq Alert /\ event \in Nat

LEMMA AlertContents ==
  ASSUME NEW alerts \in ShownAlerts
  PROVE  {Content(alerts[j]) : j \in DOMAIN alerts} \subseteq Alert
BY AlertTypes DEF ShownAlerts

LEMMA AnnounceFacts ==
  ASSUME NEW alerts \in ShownAlerts, NEW i \in DOMAIN alerts, NEW rev \in Nat,
         AttentionType, Announce(alerts, i, rev)
  PROVE  /\ AttentionType'
         /\ attention'.revision = rev /\ attention'.index = i
         /\ attention'.id = alerts[i].alert.id /\ event' = rev
<1>1. alerts[i] \in ShownAlert /\ i \in Nat
  BY DEF ShownAlerts
<1>2. alerts[i].alert.id \in Text /\ Content(alerts[i]) \in Alert
  BY <1>1, AlertTypes
<1>3. attention' = [revision |-> rev, index |-> i, id |-> alerts[i].alert.id] /\ event' = rev
  BY DEF Announce
<1>4. announced' \subseteq Alert
  BY <1>2, AlertContents DEF Announce, AttentionType
<1> QED BY <1>1, <1>2, <1>3, <1>4 DEF AttentionType

LEMMA KeepFacts ==
  ASSUME NEW alerts \in ShownAlerts, AttentionType, KeepAttention(alerts)
  PROVE  /\ AttentionType' /\ event' = event
         /\ attention'.revision \in {0, attention.revision}
         /\ attention'.revision # 0 =>
              attention'.index \in Still(alerts) /\ attention'.id = attention.id
         /\ Still(alerts) # {} => attention'.revision = attention.revision
<1> DEFINE still == Still(alerts)
           first == CHOOSE i \in still : \A j \in still : i <= j
<1>1. still \subseteq 1..3
  BY DEF Still, ShownAlerts, WEATHER_FEED_MAX_ALERTS
<1>2. announced' \subseteq Alert /\ event' = event
  BY DEF KeepAttention, AttentionType
<1>3. CASE attention.revision # 0 /\ still # {}
  <2>1. first \in still
    BY <1>1, <1>3, FirstIsMember
  <2>2. attention' = [attention EXCEPT !.index = first]
    BY <1>3 DEF KeepAttention
  <2> HIDE DEF first, still
  <2>3. first \in Nat
    BY <1>1, <2>1
  <2>4. /\ attention' \in [revision : Nat, index : Nat, id : Text]
        /\ attention'.revision = attention.revision /\ attention'.index = first
        /\ attention'.id = attention.id
    BY <2>2, <2>3 DEF AttentionType
  <2> QED BY <1>2, <1>3, <2>1, <2>4 DEF still, AttentionType
<1>4. CASE ~(attention.revision # 0 /\ still # {})
  <2>1. attention' = [attention EXCEPT
            !.revision = 0, !.id = IF attention.revision # 0 THEN "" ELSE @]
    BY <1>4 DEF KeepAttention
  <2>2. attention' \in [revision : Nat, index : Nat, id : Text] /\ attention'.revision = 0
    BY <2>1 DEF AttentionType, Text
  <2> QED BY <1>2, <1>4, <2>2 DEF AttentionType
<1> QED BY <1>3, <1>4

-----------------------------------------------------------------------------
(* The parts of Expire by name. *)
Aged == [i \in DOMAIN Old.alerts |-> Expired(Old.alerts[i])]
Due  == {i \in DOMAIN Aged : /\ Old.alerts[i].pending /\ ~Aged[i].pending
                             /\ Aged[i].alert.important /\ Old.state = "ACTIVE"}
AllOver == Old.state = "ACTIVE" /\ \A i \in DOMAIN Aged : Aged[i].expired
OldBody == [Old EXCEPT !.alerts = Aged, !.state = IF AllOver THEN "CLEARED" ELSE @]

LEMMA ExpireParts ==
  ASSUME Expire
  PROVE  /\ active # FEED_NO_SLOT /\ pins[active] = 0
         /\ revision' = revision + 1
         /\ slots' = [slots EXCEPT ![active] =
                     [slots[active] EXCEPT !.body = OldBody, !.revision = revision + 1]]
         /\ Due # {} => Announce(Aged, Chosen(Aged, Due), revision + 1)
         /\ Due = {} => UNCHANGED attentionVars
         /\ UNCHANGED <<active, staging, lines, last, fresh, readerVars, clock, host, faults>>
BY DEF Expire, Undrawn, Old, Aged, Due, AllOver, OldBody

LEMMA ExpireTypes ==
  ASSUME TypeOK, active # FEED_NO_SLOT
  PROVE  /\ Old \in Body /\ OldBody \in Body /\ Aged \in ShownAlerts
         /\ Due \subseteq DOMAIN Aged /\ DOMAIN Aged = DOMAIN Old.alerts
         /\ \A i \in DOMAIN Aged : Aged[i].alert = Old.alerts[i].alert
         /\ \A i \in Due : InForce(Aged[i])
         /\ OldBody.alerts = Aged /\ OldBody.city = Old.city /\ OldBody.now = Old.now
<1>1. Old \in Body
  BY NoBodyType DEF TypeOK, Batch, Old
<1>2. \A i \in DOMAIN Old.alerts : Old.alerts[i] \in ShownAlert
  BY <1>1, BodyTypes
<1>3. /\ DOMAIN Aged = DOMAIN Old.alerts
      /\ \A i \in DOMAIN Aged : Aged[i] = Expired(Old.alerts[i])
  BY DEF Aged
<1>4. \A i \in DOMAIN Aged : Aged[i] \in ShownAlert /\ Aged[i].alert = Old.alerts[i].alert
  BY <1>2, <1>3, ExpiredFacts
<1>5. Aged \in ShownAlerts
  <2>1. Old.alerts \in Seq(ShownAlert) /\ Len(Old.alerts) <= 3
    BY <1>1 DEF Body, ShownAlerts, WEATHER_FEED_MAX_ALERTS
  <2> DEFINE f == [i \in DOMAIN Old.alerts |-> Expired(Old.alerts[i])]
  <2>2. \A i \in DOMAIN Old.alerts : Expired(Old.alerts[i]) \in ShownAlert
    BY <1>2, ExpiredFacts
  <2>3. DOMAIN f = 1..Len(Old.alerts) /\ Len(Old.alerts) \in Nat
    BY <2>1
  <2>4. f \in Seq(ShownAlert) /\ Len(f) = Len(Old.alerts)
    BY <2>2, <2>3
  <2> QED BY <2>1, <2>4 DEF Aged, ShownAlerts, WEATHER_FEED_MAX_ALERTS
<1>6. ASSUME NEW i \in Due PROVE InForce(Aged[i])
  <2>1. /\ i \in DOMAIN Old.alerts /\ Old.alerts[i].pending /\ ~Aged[i].pending
        /\ Old.alerts[i].alert.important
    BY <1>3, <1>4, <1>6 DEF Due
  <2> QED BY <2>1, <1>2, <1>3, ExpiredFacts
<1>7. OldBody \in Body /\ OldBody.alerts = Aged /\ OldBody.city = Old.city /\ OldBody.now = Old.now
  BY <1>1, <1>5 DEF OldBody, Body, States
<1> QED BY <1>1, <1>3, <1>4, <1>5, <1>6, <1>7 DEF Due

-----------------------------------------------------------------------------
(* Type correctness. *)

Hosts == [phase : Phases, id : 0..MaxId, report : Reports, checked : 0..MaxTime,
          sent : 0..Lines, begun : SUBSET Reports]

LEMMA AnswerFacts ==
  ASSUME TypeOK, NEW heard \in Heard, NEW next \in Hosts, Answer(heard, next)
  PROVE  host' \in Hosts /\ faults' \in 0..MaxFaults /\ host' \in {host, next}
<1>1. CASE faults > 0
  <2>1. faults - 1 \in 0..MaxFaults
    BY <1>1, BoundsAssumption DEF TypeOK
  <2>2. host' \in {host, next} /\ faults' \in {faults, faults - 1}
    BY DEF Answer
  <2> QED BY <2>1, <2>2 DEF TypeOK, Hosts
<1>2. CASE ~(faults > 0)
  <2>1. heard = TRUE
    BY <1>2 DEF Heard
  <2> QED BY <2>1 DEF Answer, TypeOK, Hosts
<1> QED BY <1>1, <1>2

LEMMA NextHosts ==
  ASSUME TypeOK
  PROVE  /\ StartsOver \in Hosts /\ IsDone \in Hosts
         /\ [host EXCEPT !.phase = "line", !.sent = 0] \in Hosts
         /\ [host EXCEPT !.phase = "begin", !.sent = 0] \in Hosts
         /\ [host EXCEPT !.phase = "conflict"] \in Hosts
         /\ host.sent < Lines => NextLine \in Hosts
<1>1. host \in Hosts /\ 0 \in 0..Lines
  BY LinesAssumption DEF TypeOK, Hosts
<1>2. ASSUME NEW p \in Phases, NEW n \in 0..Lines
      PROVE  /\ [host EXCEPT !.phase = p] \in Hosts
             /\ [host EXCEPT !.phase = p, !.sent = n] \in Hosts
             /\ [host EXCEPT !.sent = n, !.phase = p] \in Hosts
  BY <1>1 DEF Hosts
<1>3. ASSUME host.sent < Lines PROVE NextLine \in Hosts
  <2>1. host.sent + 1 \in 0..Lines
    BY <1>1, <1>3, LinesAssumption DEF Hosts
  <2> DEFINE p == IF host.sent + 1 = Lines THEN "commit" ELSE "line"
  <2>2. p \in Phases
    BY DEF Phases
  <2>3. NextLine = [host EXCEPT !.sent = host.sent + 1, !.phase = p]
    BY <1>1 DEF NextLine, Hosts
  <2> HIDE DEF p
  <2> QED BY <1>2, <2>1, <2>2, <2>3
<1> QED BY <1>1, <1>2, <1>3 DEF StartsOver, IsDone, Phases

LEMMA ReportTypes ==
  ASSUME NEW r \in Reports
  PROVE  /\ r.now \in Text /\ r.city \in Text /\ r.state \in States
         /\ [i \in DOMAIN r.alerts |->
               [alert |-> r.alerts[i], expired |-> FALSE, pending |-> FALSE]] \in ShownAlerts
         /\ r.state = "ACTIVE" <=> r.alerts # << >>
<1>1. /\ r \in Report /\ Len(r.alerts) <= 3
      /\ r.state = "ACTIVE" <=> r.alerts # << >>
  BY ReportsAssumption DEF WEATHER_FEED_MAX_ALERTS
<1>2. r.alerts \in Seq(Alert) /\ r.now \in Text /\ r.city \in Text /\ r.state \in States
  BY <1>1 DEF Report
<1> DEFINE A(i) == [alert |-> r.alerts[i], expired |-> FALSE, pending |-> FALSE]
           f == [i \in DOMAIN r.alerts |-> A(i)]
<1>3. \A i \in DOMAIN r.alerts : A(i) \in ShownAlert
  BY <1>2 DEF ShownAlert
<1>4. f \in ShownAlerts
  <2> HIDE DEF A
  <2>1. DOMAIN f = 1..Len(r.alerts) /\ Len(r.alerts) \in Nat
    BY <1>2
  <2>2. f \in Seq(ShownAlert) /\ Len(f) = Len(r.alerts)
    BY <1>3, <2>1
  <2> QED BY <1>1, <2>2 DEF ShownAlerts, WEATHER_FEED_MAX_ALERTS
<1> QED BY <1>1, <1>2, <1>4

LEMMA FilledType ==
  ASSUME NEW b \in Body, NEW k \in Nat, NEW r \in Reports
  PROVE  /\ Filled(b, k, r) \in Body
         /\ Filled(b, k, r).city = b.city /\ Filled(b, k, r).state = b.state
         /\ Filled(b, k, r).now = IF k = 0 THEN r.now ELSE b.now
         /\ Filled(b, k, r).alerts =
               IF k = Lines - 1
               THEN [i \in DOMAIN r.alerts |->
                       [alert |-> r.alerts[i], expired |-> FALSE, pending |-> FALSE]]
               ELSE b.alerts
<1> DEFINE al == [i \in DOMAIN r.alerts |->
                   [alert |-> r.alerts[i], expired |-> FALSE, pending |-> FALSE]]
           n  == IF k = 0 THEN r.now ELSE b.now
           a  == IF k = Lines - 1 THEN al ELSE b.alerts
<1>1. al \in ShownAlerts /\ r.now \in Text
  BY ReportTypes
<1> HIDE DEF al
<1>2. n \in Text /\ a \in ShownAlerts
  BY <1>1 DEF Body
<1>3. Filled(b, k, r) = [b EXCEPT !.now = n, !.alerts = a]
  BY DEF Filled, Body, al
<1> HIDE DEF n, a
<1>4. /\ [b EXCEPT !.now = n, !.alerts = a] \in Body
      /\ [b EXCEPT !.now = n, !.alerts = a].city = b.city
      /\ [b EXCEPT !.now = n, !.alerts = a].state = b.state
      /\ [b EXCEPT !.now = n, !.alerts = a].now = n
      /\ [b EXCEPT !.now = n, !.alerts = a].alerts = a
  BY <1>2 DEF Body
<1> QED BY <1>3, <1>4 DEF n, a, al

(* A data line of a report, and all of them. *)
LEMMA LineTypes ==
  ASSUME NEW r \in Reports
  PROVE  /\ \A k \in Nat : Line(k, r) \in DataLine
         /\ DataLines(r) \in Seq(DataLine) /\ Len(DataLines(r)) = Lines
         /\ \A i \in 1..Lines : DataLines(r)[i] = Line(i - 1, r)
<1>1. ASSUME NEW k \in Nat PROVE Line(k, r) \in DataLine
  <2>1. r.now \in Text /\ r.alerts \in Seq(Alert)
    BY ReportsAssumption DEF Report
  <2>2. "" \in Text /\ << >> \in Seq(Alert)
    BY DEF Text
  <2> QED BY <2>1, <2>2 DEF Line, DataLine
<1>2. \A i \in 1..Lines : Line(i - 1, r) \in DataLine
  BY <1>1, LinesAssumption
<1>3. DataLines(r) \in Seq(DataLine) /\ Len(DataLines(r)) = Lines
  <2> DEFINE f == [i \in 1..Lines |-> Line(i - 1, r)]
  <2>1. f \in Seq(DataLine) /\ Len(f) = Lines
    BY <1>2, LinesAssumption
  <2> QED BY <2>1 DEF DataLines
<1> QED BY <1>1, <1>3 DEF DataLines

(* Writing the body and the revision of a slot. *)
LEMMA SlotWritten ==
  ASSUME NEW f \in [Slots -> Batch], NEW s \in Slots, NEW b \in Body, NEW n \in Nat, NEW g,
         g = [f EXCEPT ![s] = [f[s] EXCEPT !.body = b, !.revision = n]]
  PROVE  /\ g \in [Slots -> Batch]
         /\ g[s].body = b /\ g[s].revision = n /\ g[s].id = f[s].id
         /\ \A t \in Slots \ {s} : g[t] = f[t]
BY DEF Batch

LEMMA SlotFilled ==
  ASSUME NEW f \in [Slots -> Batch], NEW s \in Slots, NEW b \in Body, NEW g,
         g = [f EXCEPT ![s].body = b]
  PROVE  /\ g \in [Slots -> Batch]
         /\ g[s].body = b /\ g[s].revision = f[s].revision /\ g[s].id = f[s].id
         /\ \A t \in Slots \ {s} : g[t] = f[t]
BY DEF Batch

(* A host that still has lines to send has not sent them all.               *)
SentInv == host.phase = "line" => host.sent < Lines
Typed == TypeOK /\ SentInv

LEMMA InitTyped == Init => Typed
<1> SUFFICES ASSUME Init PROVE Typed
  OBVIOUS
<1>1. slots \in [Slots -> Batch]
  BY NoBodyType DEF Init, Batch
<1>2. lines \in Seq(DataLine) /\ Len(lines) <= Lines /\ last \in [id : Nat, lines : Seq(DataLine)]
  <2>1. << >> \in Seq(DataLine) /\ Len(<< >>) = 0
    OBVIOUS
  <2>2. lines = << >> /\ last = [id |-> 0, lines |-> << >>]
    BY DEF Init
  <2>3. 0 <= Lines
    BY LinesAssumption
  <2> QED BY <2>1, <2>2, <2>3
<1>3. attention \in [revision : Nat, index : Nat, id : Text]
  BY DEF Init, Text
<1>4. look \in [Readers -> [revision : Nat, body : Body]]
  BY NoBodyType DEF Init
<1>5. host \in Hosts /\ host.phase = "idle"
  <2>1. PICK r \in Reports :
          host = [phase |-> "idle", id |-> 0, report |-> r, checked |-> 0, sent |-> 0,
                  begun |-> {}]
    BY DEF Init
  <2>2. 0 \in 0..MaxId /\ 0 \in 0..MaxTime /\ 0 \in 0..Lines
    BY LinesAssumption, BoundsAssumption
  <2> QED BY <2>1, <2>2 DEF Hosts, Phases
<1>6. /\ active \in Slots \cup {FEED_NO_SLOT} /\ staging \in Slots \cup {FEED_NO_SLOT}
      /\ revision \in Nat /\ fresh \in BOOLEAN /\ pins \in [Slots -> Nat]
      /\ lease \in [Readers -> Slots \cup {FEED_NO_SLOT}]
      /\ clock \in 0..MaxTime /\ faults \in 0..MaxFaults
      /\ announced \subseteq Alert /\ event \in Nat
  <2>1. 0 \in 0..MaxTime /\ MaxFaults \in 0..MaxFaults
    BY BoundsAssumption
  <2> QED BY <2>1 DEF Init
<1> QED BY <1>1, <1>2, <1>3, <1>4, <1>5, <1>6 DEF Typed, TypeOK, SentInv, Hosts

LEMMA BeginTyped ==
  ASSUME Typed, NEW heard \in Heard, Begin(heard)
  PROVE  Typed'
<1> USE DEF Typed
<1>1. /\ host' \in Hosts /\ faults' \in 0..MaxFaults
      /\ host' \in {host, [host EXCEPT !.phase = "line", !.sent = 0]}
  <2>1. [host EXCEPT !.phase = "line", !.sent = 0] \in Hosts
    BY NextHosts
  <2> QED BY <2>1, AnswerFacts DEF Begin
<1>2. SentInv'
  <2>1. host \in Hosts /\ 0 < Lines
    BY LinesAssumption DEF TypeOK, Hosts
  <2>2. CASE host' = host
    BY <2>2 DEF SentInv
  <2>3. CASE host' = [host EXCEPT !.phase = "line", !.sent = 0]
    BY <2>1, <2>3 DEF SentInv, Hosts
  <2> QED BY <1>1, <2>2, <2>3
<1> DEFINE body == [NoBody EXCEPT !.city = host.report.city, !.state = host.report.state,
                                  !.checked = host.checked]
           batch == [id |-> host.id, revision |-> 0, body |-> body]
<1>3. /\ body \in Body /\ body.city = host.report.city /\ body.state = host.report.state
  <2>1. /\ host.report.city \in Text /\ host.report.state \in States
        /\ host.checked \in 0..MaxTime
    BY ReportTypes DEF TypeOK
  <2> QED BY <2>1, NoBodyType DEF Body
<1>4. batch \in Batch
  <2> HIDE DEF body
  <2> QED BY <1>3 DEF Batch, TypeOK
<1>5. slots' \in [Slots -> Batch] /\ staging' \in Slots
  <2>1. slots' = [slots EXCEPT ![Spare] = batch] /\ staging' = Spare
    BY DEF Begin
  <2> HIDE DEF batch
  <2> QED BY <1>4, <2>1 DEF TypeOK, Spare, Slots
<1>6. lines' = << >> /\ UNCHANGED <<active, last, revision, attentionVars, fresh, readerVars, clock>>
  BY DEF Begin
<1> HIDE DEF body, batch
<1>7. lines' \in Seq(DataLine) /\ Len(lines') <= Lines
  <2>1. << >> \in Seq(DataLine) /\ Len(<< >>) = 0
    OBVIOUS
  <2> QED BY <2>1, <1>6, LinesAssumption
<1>8. TypeOK'
  BY <1>1, <1>5, <1>6, <1>7 DEF TypeOK, attentionVars, readerVars, Hosts
<1> QED BY <1>2, <1>8

LEMMA AcceptTyped ==
  ASSUME Typed, NEW heard \in Heard, AcceptLine(heard)
  PROVE  Typed'
<1> USE DEF Typed
<1>1. host.sent < Lines /\ host.sent = Len(lines) /\ staging \in Slots
  BY DEF AcceptLine, SentInv, Expected, Uploading, TypeOK
<1>2. host' \in Hosts /\ faults' \in 0..MaxFaults /\ host' \in {host, NextLine}
  BY <1>1, NextHosts, AnswerFacts DEF AcceptLine
<1>3. SentInv'
  <2>1. CASE host' = host
    BY <2>1, <1>1 DEF SentInv
  <2>2. CASE host' = NextLine
    BY <2>2, <1>1, LinesAssumption DEF NextLine, SentInv, TypeOK
  <2> QED BY <1>2, <2>1, <2>2
<1>4. slots' \in [Slots -> Batch]
  <2>1. slots[staging].body \in Body /\ host.sent \in Nat /\ host.report \in Reports
    BY <1>1 DEF TypeOK, Batch
  <2>2. Filled(slots[staging].body, host.sent, host.report) \in Body
    BY <2>1, FilledType
  <2>3. slots' = [slots EXCEPT ![staging].body =
                    Filled(slots[staging].body, host.sent, host.report)]
    BY <1>1 DEF AcceptLine, TypeOK, Batch
  <2> QED BY <2>2, <2>3, <1>1, SlotFilled DEF TypeOK
<1>5. lines' \in Seq(DataLine) /\ Len(lines') <= Lines
  <2>1. lines' = Append(lines, Line(host.sent, host.report))
    BY DEF AcceptLine
  <2>2. Line(host.sent, host.report) \in DataLine
    BY LineTypes DEF TypeOK
  <2>3. lines \in Seq(DataLine) /\ Len(lines) < Lines
    BY <1>1, LinesAssumption DEF TypeOK
  <2> QED BY <2>1, <2>2, <2>3, LinesAssumption
<1>6. UNCHANGED <<active, staging, last, revision, attentionVars, fresh, readerVars, clock>>
  BY DEF AcceptLine
<1>7. TypeOK'
  BY <1>2, <1>4, <1>5, <1>6 DEF TypeOK, attentionVars, readerVars, Hosts
<1> QED BY <1>3, <1>7

LEMMA PublishTyped ==
  ASSUME Typed, staging # FEED_NO_SLOT, Publish
  PROVE  /\ slots' \in [Slots -> Batch] /\ revision' \in Nat /\ AttentionType'
         /\ active' \in Slots /\ staging' = FEED_NO_SLOT /\ fresh' = TRUE /\ lines' = lines
         /\ last' \in [id : Nat, lines : Seq(DataLine)]
<1> USE DEF Typed
<1>1. AttentionType'
  <2>1. AttentionType
    BY DEF TypeOK, AttentionType
  <2>2. CASE Newly # {}
    <3>1. Chosen(Alerts, Newly) \in DOMAIN Alerts
      BY <2>2, PublishTypes, ChosenIsCandidate
    <3> QED BY <2>1, <2>2, <3>1, PublishParts, PublishTypes, AnnounceFacts
  <2>3. CASE Newly = {}
    BY <2>1, <2>3, PublishParts, PublishTypes, KeepFacts
  <2> QED BY <2>2, <2>3
<1>2. slots' \in [Slots -> Batch]
  <2>1. slots \in [Slots -> Batch] /\ staging \in Slots
    BY DEF TypeOK
  <2>2. slots' = [slots EXCEPT ![staging] =
                     [slots[staging] EXCEPT !.body = Shown, !.revision = Rev]]
    BY PublishParts
  <2>3. Shown \in Body /\ Rev \in Nat
    BY PublishTypes
  <2> QED BY <2>1, <2>2, <2>3, SlotWritten
<1>3. last' \in [id : Nat, lines : Seq(DataLine)]
  BY PublishParts DEF TypeOK, Batch
<1> QED BY <1>1, <1>2, <1>3, PublishParts, PublishTypes DEF TypeOK

LEMMA ExpireTyped ==
  ASSUME Typed, Expire
  PROVE  Typed'
<1> USE DEF Typed
<1>1. AttentionType'
  <2>1. AttentionType
    BY DEF TypeOK, AttentionType
  <2>2. CASE Due # {}
    <3>1. Chosen(Aged, Due) \in DOMAIN Aged
      BY <2>2, ExpireParts, ExpireTypes, ChosenIsCandidate
    <3>2. revision + 1 \in Nat
      BY DEF TypeOK
    <3> QED BY <2>1, <2>2, <3>1, <3>2, ExpireParts, ExpireTypes, AnnounceFacts
  <2>3. CASE Due = {}
    BY <2>1, <2>3, ExpireParts DEF AttentionType, attentionVars
  <2> QED BY <2>2, <2>3
<1> DEFINE n == revision + 1
<1>2. slots' \in [Slots -> Batch] /\ revision' \in Nat
  <2>1. slots \in [Slots -> Batch] /\ active \in Slots /\ n \in Nat
    BY ExpireParts DEF TypeOK
  <2>2. slots' = [slots EXCEPT ![active] =
                    [slots[active] EXCEPT !.body = OldBody, !.revision = n]]
    BY ExpireParts
  <2>3. OldBody \in Body
    BY ExpireParts, ExpireTypes
  <2>4. revision' = n
    BY ExpireParts
  <2> HIDE DEF n
  <2>5. slots' \in [Slots -> Batch]
    BY <2>1, <2>2, <2>3, SlotWritten
  <2> QED BY <2>1, <2>4, <2>5
<1> QED BY <1>1, <1>2, ExpireParts DEF TypeOK, AttentionType, SentInv, readerVars

-----------------------------------------------------------------------------
(* A pin for every lease. *)

Drawing(s) == {r \in Readers : lease[r] = s}
PinsInv == \A s \in Slots : pins[s] = Cardinality(Drawing(s))

LEMMA DrawingFinite ==
  \A s : IsFiniteSet(Drawing(s)) /\ Cardinality(Drawing(s)) \in Nat
BY ReadersAssumption, FS_Subset, FS_CardinalityType DEF Drawing

(* A slot without pins is not being drawn.                                  *)
LEMMA Unpinned ==
  ASSUME PinsInv, NEW s \in Slots, pins[s] = 0
  PROVE  \A r \in Readers : lease[r] # s
<1>1. Drawing(s) = {}
  BY DrawingFinite, FS_EmptySet DEF PinsInv
<1> QED BY <1>1 DEF Drawing

LEMMA Pinned ==
  ASSUME PinsInv, NEW r \in Readers, lease[r] \in Slots
  PROVE  pins[lease[r]] \in Nat /\ pins[lease[r]] >= 1
<1>1. pins[lease[r]] \in Nat
  BY DrawingFinite DEF PinsInv
<1>2. pins[lease[r]] # 0
  BY Unpinned
<1> QED BY <1>1, <1>2

LEMMA PinsNext ==
  ASSUME TypeOK, PinsInv, [Next]_vars
  PROVE  PinsInv'
<1>1. CASE UNCHANGED <<pins, lease>>
  BY <1>1 DEF PinsInv, Drawing
<1>2. ASSUME NEW r \in Readers, Acquire(r) PROVE PinsInv'
  <2>1. PICK t \in Slots :
          /\ lease' = [lease EXCEPT ![r] = t] /\ pins' = [pins EXCEPT ![t] = @ + 1]
          /\ lease[r] = FEED_NO_SLOT
    BY <1>2 DEF Acquire, Drawable
  <2> SUFFICES ASSUME NEW s \in Slots PROVE pins'[s] = Cardinality(Drawing(s)')
    BY DEF PinsInv
  <2>2. CASE s = t
    <3>1. Drawing(s)' = Drawing(s) \cup {r} /\ r \notin Drawing(s)
      BY <2>1, <2>2 DEF Drawing, TypeOK, Slots, FEED_NO_SLOT
    <3>2. Cardinality(Drawing(s)') = Cardinality(Drawing(s)) + 1
      BY <3>1, DrawingFinite, FS_AddElement
    <3> QED BY <2>1, <2>2, <3>2 DEF PinsInv, TypeOK
  <2>3. CASE s # t
    <3>1. Drawing(s)' = Drawing(s)
      BY <2>1, <2>3 DEF Drawing, TypeOK, Slots, FEED_NO_SLOT
    <3> QED BY <2>1, <2>3, <3>1 DEF PinsInv, TypeOK
  <2> QED BY <2>2, <2>3
<1>3. ASSUME NEW r \in Readers, Release(r) PROVE PinsInv'
  <2> DEFINE t == lease[r]
  <2>1. /\ lease' = [lease EXCEPT ![r] = FEED_NO_SLOT] /\ pins' = [pins EXCEPT ![t] = @ - 1]
        /\ t \in Slots
    BY <1>3 DEF Release, TypeOK
  <2> SUFFICES ASSUME NEW s \in Slots PROVE pins'[s] = Cardinality(Drawing(s)')
    BY DEF PinsInv
  <2>2. CASE s = t
    <3>1. Drawing(s)' = Drawing(s) \ {r} /\ r \in Drawing(s)
      BY <2>1, <2>2 DEF Drawing, TypeOK, Slots, FEED_NO_SLOT
    <3>2. Cardinality(Drawing(s)') = Cardinality(Drawing(s)) - 1
      BY <3>1, DrawingFinite, FS_RemoveElement
    <3> QED BY <2>1, <2>2, <3>2 DEF PinsInv, TypeOK
  <2>3. CASE s # t
    <3>1. Drawing(s)' = Drawing(s)
      BY <2>1, <2>3 DEF Drawing, TypeOK, Slots, FEED_NO_SLOT
    <3> QED BY <2>1, <2>3, <3>1 DEF PinsInv, TypeOK
  <2> QED BY <2>2, <2>3
<1>4. ASSUME NEW heard \in Heard, Command(heard) PROVE UNCHANGED <<pins, lease>>
  BY <1>4 DEF Command, Begin, BeginBusy, AcceptLine, RepeatLine, RefuseLine, Commit,
     CommitAgain, CommitConflict, CommitRefused, Cancel, readerVars
<1>5. Expire \/ DropUpload \/ GrowStale \/ Host \/ Tick => UNCHANGED <<pins, lease>>
  BY DEF Expire, DropUpload, GrowStale, Host, HostStart, HostConflict, HostRestart, Tick, readerVars
<1>6. ASSUME NEW r \in Readers, Look(r) \/ AcquireFails(r) PROVE UNCHANGED <<pins, lease>>
  BY <1>6 DEF Look, AcquireFails
<1>7. UNCHANGED vars => UNCHANGED <<pins, lease>>
  BY DEF vars, readerVars
<1> QED BY <1>1, <1>2, <1>3, <1>4, <1>5, <1>6, <1>7 DEF Next, DebugTask, Reader

LEMMA InitPins == Init => PinsInv
<1> SUFFICES ASSUME Init, NEW s \in Slots PROVE pins[s] = Cardinality(Drawing(s))
  BY DEF PinsInv
<1>1. Drawing(s) = {}
  <2>1. lease = [r \in Readers |-> FEED_NO_SLOT]
    BY DEF Init
  <2>2. s # FEED_NO_SLOT
    BY DEF Slots, FEED_NO_SLOT
  <2> QED BY <2>1, <2>2 DEF Drawing
<1>2. pins[s] = 0
  BY DEF Init
<1> QED BY <1>1, <1>2, FS_EmptySet

(* A publication or an answer alone leaves the rest of the types.           *)
LEMMA CommitTyped ==
  ASSUME Typed, NEW heard \in Heard, Commit(heard)
  PROVE  Typed'
<1>1. /\ staging # FEED_NO_SLOT /\ Publish /\ Answer(heard, IsDone)
      /\ UNCHANGED <<readerVars, clock>> /\ host.phase = "commit"
  BY DEF Commit, Complete, Uploading
<1>2. host' \in Hosts /\ faults' \in 0..MaxFaults /\ host' \in {host, IsDone}
  BY <1>1, NextHosts, AnswerFacts DEF Typed
<1>3. SentInv'
  BY <1>1, <1>2 DEF IsDone, SentInv, Typed, TypeOK
<1>4. TypeOK'
  BY <1>1, <1>2, PublishTyped DEF Typed, TypeOK, readerVars, AttentionType, Hosts
<1> QED BY <1>3, <1>4 DEF Typed

LEMMA AnsweredTyped ==
  ASSUME Typed, NEW heard \in Heard, NEW next \in Hosts, Answer(heard, next),
         next.phase = "line" => next.sent < Lines,
         staging' \in {staging, FEED_NO_SLOT},
         UNCHANGED <<slots, active, lines, last, revision, attentionVars, fresh, readerVars, clock>>
  PROVE  Typed'
<1>1. host' \in Hosts /\ faults' \in 0..MaxFaults /\ host' \in {host, next}
  BY AnswerFacts DEF Typed
<1>2. SentInv'
  BY <1>1 DEF SentInv, Typed
<1>3. TypeOK'
  BY <1>1 DEF Typed, TypeOK, attentionVars, readerVars, Hosts
<1> QED BY <1>2, <1>3 DEF Typed

LEMMA CommandTyped ==
  ASSUME Typed, NEW heard \in Heard, Command(heard)
  PROVE  Typed'
<1> USE DEF deviceVars, Typed
<1>1. CASE Begin(heard)
  BY <1>1, BeginTyped
<1>2. CASE AcceptLine(heard)
  BY <1>2, AcceptTyped
<1>3. CASE Commit(heard)
  BY <1>3, CommitTyped
<1>4. CASE BeginBusy(heard)
  <2>1. CASE staging # FEED_NO_SLOT
    BY <1>4, <2>1, NextHosts, AnsweredTyped DEF BeginBusy, StartsOver, TypeOK
  <2>2. CASE staging = FEED_NO_SLOT
    BY <1>4, <2>2, AnsweredTyped DEF BeginBusy, TypeOK, Hosts
  <2> QED BY <2>1, <2>2
<1>5. CASE RepeatLine(heard)
  <2>1. host.sent < Lines /\ NextLine \in Hosts
    BY <1>5, NextHosts DEF RepeatLine, SentInv
  <2>2. NextLine.phase = "line" => NextLine.sent < Lines
    BY <2>1, LinesAssumption DEF NextLine, TypeOK
  <2> QED BY <1>5, <2>1, <2>2, AnsweredTyped DEF RepeatLine
<1>6. CASE RefuseLine(heard) \/ CommitRefused(heard)
  <2>1. StartsOver \in Hosts /\ StartsOver.phase = "cancel"
    BY NextHosts DEF StartsOver, TypeOK
  <2> QED BY <1>6, <2>1, AnsweredTyped DEF RefuseLine, CommitRefused
<1>7. CASE CommitAgain(heard)
  <2>1. IsDone \in Hosts /\ IsDone.phase = "done"
    BY NextHosts DEF IsDone, TypeOK
  <2> QED BY <1>7, <2>1, AnsweredTyped DEF CommitAgain
<1>8. CASE CommitConflict(heard)
  <2> DEFINE next == [host EXCEPT !.phase = "conflict"]
  <2>1. next \in Hosts /\ next.phase = "conflict"
    BY NextHosts DEF TypeOK
  <2>2. Answer(heard, next) /\ UNCHANGED <<deviceVars, readerVars, clock>>
    BY <1>8 DEF CommitConflict
  <2> HIDE DEF next
  <2> QED BY <2>1, <2>2, AnsweredTyped
<1>9. CASE Cancel(heard)
  <2> DEFINE next == [host EXCEPT !.phase = "begin", !.sent = 0]
  <2>1. next \in Hosts /\ next.phase = "begin"
    BY NextHosts DEF TypeOK
  <2>2. /\ Answer(heard, next) /\ staging' = FEED_NO_SLOT
        /\ UNCHANGED <<slots, active, lines, last, revision, attentionVars, fresh,
                       readerVars, clock>>
    BY <1>9 DEF Cancel
  <2> HIDE DEF next
  <2> QED BY <2>1, <2>2, AnsweredTyped
<1> QED BY <1>1, <1>2, <1>3, <1>4, <1>5, <1>6, <1>7, <1>8, <1>9 DEF Command

LEMMA UploadTyped ==
  ASSUME Typed, NEW id \in 0..MaxId, NEW r \in Reports, NEW p \in Phases, p # "line",
         Upload(id, r, p), faults' \in {faults, faults - 1}, faults' # faults => faults > 0,
         UNCHANGED <<deviceVars, readerVars, clock>>
  PROVE  Typed'
<1> DEFINE used == {r} \cup IF id = host.id THEN host.begun ELSE {}
           next == [phase |-> p, id |-> id, report |-> r, checked |-> clock, sent |-> 0,
                    begun |-> used]
<1>0. used \in SUBSET Reports
  BY DEF Typed, TypeOK
<1>1. next \in Hosts /\ next.phase = p
  <2> HIDE DEF used
  <2> QED BY <1>0, LinesAssumption DEF Typed, TypeOK, Hosts
<1>2. host' = next
  BY DEF Upload
<1>3. faults' \in 0..MaxFaults
  BY BoundsAssumption DEF Typed, TypeOK
<1> HIDE DEF next
<1>4. TypeOK'
  BY <1>1, <1>2, <1>3 DEF Typed, TypeOK, deviceVars, attentionVars, readerVars, Hosts
<1> QED BY <1>1, <1>2, <1>4 DEF Typed, SentInv

LEMMA ReaderTyped ==
  ASSUME Typed, PinsInv, NEW r \in Readers, Reader(r)
  PROVE  Typed'
<1> USE DEF Typed
<1>1. UNCHANGED <<deviceVars, clock, host, faults>>
  BY DEF Reader, Look, Acquire, AcquireFails, Release
<1>2. /\ pins' \in [Slots -> Nat] /\ look' \in [Readers -> [revision : Nat, body : Body]]
      /\ lease' \in [Readers -> Slots \cup {FEED_NO_SLOT}]
  <2>1. CASE Look(r)
    <3>1. [revision |-> slots[active].revision, body |-> slots[active].body]
            \in [revision : Nat, body : Body]
      BY <2>1 DEF Look, TypeOK, Batch
    <3> QED BY <2>1, <3>1 DEF Look, TypeOK
  <2>2. CASE Acquire(r)
    <3>1. /\ pins \in [Slots -> Nat] /\ look \in [Readers -> [revision : Nat, body : Body]]
          /\ lease \in [Readers -> Slots \cup {FEED_NO_SLOT}]
      BY DEF TypeOK
    <3>2. PICK s \in Slots : /\ lease' = [lease EXCEPT ![r] = s]
                             /\ pins' = [pins EXCEPT ![s] = @ + 1] /\ look' = look
      BY <2>2 DEF Acquire, Drawable
    <3> HIDE DEF Typed
    <3> QED BY <3>1, <3>2
  <2>3. CASE AcquireFails(r)
    BY <2>3, NoBodyType DEF AcquireFails, NothingSeen, TypeOK
  <2>4. CASE Release(r)
    <3>1. lease[r] \in Slots /\ pins[lease[r]] - 1 \in Nat
      <4>1. lease[r] \in Slots
        BY <2>4 DEF Release, TypeOK
      <4> QED BY <4>1, Pinned
    <3> QED BY <2>4, <3>1, NoBodyType DEF Release, NothingSeen, TypeOK
  <2> QED BY <2>1, <2>2, <2>3, <2>4 DEF Reader
<1>3. TypeOK'
  BY <1>1, <1>2 DEF TypeOK, deviceVars, attentionVars
<1> QED BY <1>1, <1>3 DEF SentInv

LEMMA NextTyped ==
  ASSUME Typed, PinsInv, [Next]_vars
  PROVE  Typed'
<1>1. ASSUME NEW heard \in Heard, Command(heard) PROVE Typed'
  BY <1>1, CommandTyped
<1>2. CASE Expire
  BY <1>2, ExpireTyped
<1>3. CASE DropUpload
  <2>1. TypeOK'
    BY <1>3, BoundsAssumption DEF DropUpload, Typed, TypeOK, attentionVars, readerVars
  <2> QED BY <1>3, <2>1 DEF DropUpload, Typed, SentInv
<1>4. CASE GrowStale
  <2>1. TypeOK'
    BY <1>4 DEF GrowStale, Typed, TypeOK, attentionVars, readerVars
  <2> QED BY <1>4, <2>1 DEF GrowStale, Typed, SentInv
<1>5. CASE HostStart
  <2>1. PICK r \in Reports : Upload(host.id + 1, r, "begin")
    BY <1>5 DEF HostStart
  <2>2. host.id + 1 \in 0..MaxId /\ UNCHANGED <<deviceVars, readerVars, clock, faults>>
    BY <1>5, BoundsAssumption DEF HostStart, Typed, TypeOK
  <2> QED BY <2>1, <2>2, UploadTyped DEF Phases
<1>6. CASE HostConflict
  <2>1. host.id + 1 \in 0..MaxId /\ UNCHANGED <<deviceVars, readerVars, clock, faults>>
    BY <1>6, BoundsAssumption DEF HostConflict, Typed, TypeOK
  <2>2. host.report \in Reports /\ Upload(host.id + 1, host.report, "cancel")
    BY <1>6 DEF HostConflict, Typed, TypeOK
  <2> QED BY <2>1, <2>2, UploadTyped DEF Phases
<1>7. CASE HostRestart
  <2>1. PICK r \in Reports : Upload(host.id, r, "begin")
    BY <1>7 DEF HostRestart
  <2>2. /\ host.id \in 0..MaxId /\ faults > 0 /\ faults' = faults - 1
        /\ UNCHANGED <<deviceVars, readerVars, clock>>
    BY <1>7 DEF HostRestart, Typed, TypeOK
  <2> QED BY <2>1, <2>2, UploadTyped DEF Phases
<1>8. CASE Tick
  <2>1. clock' \in 0..MaxTime
    BY <1>8, BoundsAssumption DEF Tick, Typed, TypeOK
  <2>2. UNCHANGED <<slots, active, staging, lines, last, revision, attention, fresh, pins, look,
                    lease, host, faults, announced, event>>
    BY <1>8 DEF Tick, deviceVars, attentionVars, readerVars
  <2>3. TypeOK'
    BY <2>1, <2>2 DEF Typed, TypeOK
  <2> QED BY <2>2, <2>3 DEF Typed, SentInv
<1>9. ASSUME NEW r \in Readers, Reader(r) PROVE Typed'
  BY <1>9, ReaderTyped
<1>10. CASE UNCHANGED vars
  BY <1>10 DEF Typed, TypeOK, SentInv, vars, deviceVars, attentionVars, readerVars
<1> QED BY <1>1, <1>2, <1>3, <1>4, <1>5, <1>6, <1>7, <1>8, <1>9, <1>10
        DEF Next, DebugTask, Host

LEMMA TypedAlways == Spec => [](Typed /\ PinsInv)
<1>1. Init => Typed /\ PinsInv
  BY InitTyped, InitPins
<1>2. Typed /\ PinsInv /\ [Next]_vars => (Typed /\ PinsInv)'
  BY NextTyped, PinsNext DEF Typed
<1> QED BY <1>1, <1>2, PTL DEF Spec

(* The feed's slots, its counters, the readers' leases and the host's       *)
(* upload keep their types; in particular no pin is released twice.         *)
THEOREM TypeCorrect == Spec => []TypeOK
<1>1. Typed /\ PinsInv => TypeOK
  BY DEF Typed
<1> QED BY <1>1, TypedAlways, PTL

-----------------------------------------------------------------------------
(* What a reader draws. *)

(* The staged slot is not on display, not drawn, and has no revision a      *)
(* reader could ask for.                                                    *)
StagedInv ==
  staging # FEED_NO_SLOT =>
    staging # active /\ slots[staging].revision = 0 /\ pins[staging] = 0

RevisionInv ==
  /\ active # FEED_NO_SLOT => slots[active].revision = revision
  /\ \A s \in Slots : slots[s].revision <= revision

(* The revision a reader has seen names what it saw, wherever it still is.  *)
LookInv ==
  \A r \in Readers :
    /\ look[r].revision <= revision
    /\ look[r].revision # 0 =>
         \A s \in Slots : slots[s].revision = look[r].revision => slots[s].body = look[r].body

(* A revision never names two contents.                                     *)
NamedInv ==
  \A s, t \in Slots :
    slots[s].revision # 0 /\ slots[s].revision = slots[t].revision =>
      slots[s].body = slots[t].body

DrawInv == StagedInv /\ RevisionInv /\ NamedInv /\ LookInv /\ DrawsWhatItSaw
Base == Typed /\ PinsInv

(* Writing a slot nobody draws from disturbs no reader that draws.          *)
LEMMA UnreadWrite ==
  ASSUME Base, DrawsWhatItSaw, NEW s \in Slots, pins[s] = 0,
         \A t \in Slots \ {s} : slots'[t] = slots[t], UNCHANGED readerVars
  PROVE  DrawsWhatItSaw'
<1>1. \A r \in Readers : lease[r] # s
  BY Unpinned DEF Base
<1> QED BY <1>1 DEF DrawsWhatItSaw, readerVars, Base, Typed, TypeOK

(* Nor one that has looked, if the slot gets no revision, a new one, or     *)
(* that of a slot with the same contents.                                   *)
LEMMA UnseenWrite ==
  ASSUME Base, LookInv, RevisionInv, NamedInv, NEW s \in Slots, \A t \in Slots \ {s} : slots'[t] = slots[t],
         UNCHANGED look, revision' \in Nat, revision' >= revision,
         slots' \in [Slots -> Batch],
         \/ slots'[s].revision = 0
         \/ slots'[s].revision > revision
         \/ \E t \in Slots : /\ slots[t].revision = slots'[s].revision
                             /\ slots[t].body = slots'[s].body
  PROVE  LookInv' /\ NamedInv'
<1>6. \A t \in Slots : slots[t].revision \in Nat /\ slots[t].revision <= revision
  BY DEF RevisionInv, Base, Typed, TypeOK, Batch
<1>7. NamedInv'
  <2>1. \A t \in Slots \ {s} :
          slots'[s].revision # 0 /\ slots'[s].revision = slots'[t].revision =>
            slots'[s].body = slots'[t].body
    <3> SUFFICES ASSUME NEW t \in Slots \ {s}, slots'[s].revision # 0,
                        slots'[s].revision = slots'[t].revision
                 PROVE  slots'[s].body = slots'[t].body
      OBVIOUS
    <3>1. slots'[t] = slots[t] /\ t \in Slots /\ slots[t].revision \in Nat
      BY <1>6
    <3>2. ~(slots'[s].revision > revision)
      <4>1. slots[t].revision <= revision /\ revision \in Nat
        BY <1>6 DEF Base, Typed, TypeOK
      <4> QED BY <3>1, <4>1
    <3>3. PICK u \in Slots : /\ slots[u].revision = slots'[s].revision
                             /\ slots[u].body = slots'[s].body
      BY <3>2
    <3> QED BY <3>1, <3>3, Zenon DEF NamedInv
  <2>2. \A t, u \in Slots \ {s} :
          slots'[u].revision # 0 /\ slots'[u].revision = slots'[t].revision =>
            slots'[u].body = slots'[t].body
    BY DEF NamedInv
  <2> QED BY <2>1, <2>2 DEF NamedInv
<1> SUFFICES ASSUME NEW r \in Readers
             PROVE  /\ look[r].revision <= revision'
                    /\ look[r].revision # 0 =>
                         \A t \in Slots : slots'[t].revision = look[r].revision =>
                                           slots'[t].body = look[r].body
  BY <1>7 DEF LookInv
<1>1. look[r].revision \in Nat /\ look[r].revision <= revision /\ revision \in Nat
  BY DEF LookInv, Base, Typed, TypeOK
<1>2. slots'[s].revision \in Nat
  BY DEF Batch
<1>3. ASSUME look[r].revision # 0, slots'[s].revision = look[r].revision
      PROVE  slots'[s].body = look[r].body
  BY <1>1, <1>2, <1>3 DEF LookInv
<1>4. ASSUME look[r].revision # 0, NEW t \in Slots \ {s}, slots'[t].revision = look[r].revision
      PROVE  slots'[t].body = look[r].body
  BY <1>4 DEF LookInv
<1>5. look[r].revision <= revision'
  BY <1>1
<1> QED BY <1>3, <1>4, <1>5

LEMMA SpareSlot == active \in Slots \cup {FEED_NO_SLOT} => Spare \in Slots /\ Spare # active
BY DEF Spare, Slots, FEED_NO_SLOT

LEMMA BeginDraw ==
  ASSUME Base, DrawInv, NEW heard \in Heard, Begin(heard)
  PROVE  DrawInv'
<1>1. /\ staging' = Spare /\ pins[Spare] = 0 /\ Spare \in Slots /\ Spare # active
      /\ UNCHANGED <<active, revision, readerVars>>
  BY SpareSlot DEF Begin, Free, Base, Typed, TypeOK
<1>2. slots' \in [Slots -> Batch]
  BY BeginTyped DEF Base, Typed, TypeOK
<1>3. slots'[Spare].revision = 0 /\ \A t \in Slots \ {Spare} : slots'[t] = slots[t]
  BY <1>1 DEF Begin, Base, Typed, TypeOK
<1>4. StagedInv'
  BY <1>1, <1>3 DEF StagedInv, readerVars
<1>5. /\ revision \in Nat /\ revision' = revision /\ revision' >= revision /\ UNCHANGED look
      /\ active \in Slots \cup {FEED_NO_SLOT}
  BY <1>1 DEF readerVars, Base, Typed, TypeOK
<1>6. RevisionInv'
  <2>1. \A s \in Slots : slots[s].revision <= revision
    BY DEF DrawInv, RevisionInv
  <2>2. active # FEED_NO_SLOT => slots[active].revision = revision
    BY DEF DrawInv, RevisionInv
  <2> QED BY <1>1, <1>3, <1>5, <2>1, <2>2 DEF RevisionInv
<1>7. LookInv' /\ NamedInv'
  BY <1>1, <1>2, <1>3, <1>5, UnseenWrite DEF DrawInv
<1>8. DrawsWhatItSaw'
  BY <1>1, <1>3, UnreadWrite DEF DrawInv
<1> QED BY <1>4, <1>6, <1>7, <1>8 DEF DrawInv

LEMMA AcceptDraw ==
  ASSUME Base, DrawInv, NEW heard \in Heard, AcceptLine(heard)
  PROVE  DrawInv'
<1>1. /\ staging \in Slots /\ staging # active /\ slots[staging].revision = 0
      /\ pins[staging] = 0 /\ UNCHANGED <<active, staging, revision, readerVars>>
  BY DEF AcceptLine, Expected, Uploading, DrawInv, StagedInv, Base, Typed, TypeOK
<1>2. slots' \in [Slots -> Batch]
  BY AcceptTyped DEF Base, Typed, TypeOK
<1>3. slots'[staging].revision = 0 /\ \A t \in Slots \ {staging} : slots'[t] = slots[t]
  BY <1>1 DEF AcceptLine, Base, Typed, TypeOK, Batch
<1>4. StagedInv'
  BY <1>1, <1>3 DEF StagedInv, readerVars
<1>5. /\ revision \in Nat /\ revision' = revision /\ revision' >= revision /\ UNCHANGED look
      /\ active \in Slots \cup {FEED_NO_SLOT}
  BY <1>1 DEF readerVars, Base, Typed, TypeOK
<1>6. RevisionInv'
  <2>1. \A s \in Slots : slots[s].revision <= revision
    BY DEF DrawInv, RevisionInv
  <2>2. active # FEED_NO_SLOT => slots[active].revision = revision
    BY DEF DrawInv, RevisionInv
  <2> QED BY <1>1, <1>3, <1>5, <2>1, <2>2 DEF RevisionInv
<1>7. LookInv' /\ NamedInv'
  BY <1>1, <1>2, <1>3, <1>5, UnseenWrite DEF DrawInv
<1>8. DrawsWhatItSaw'
  BY <1>1, <1>3, UnreadWrite DEF DrawInv
<1> QED BY <1>4, <1>6, <1>7, <1>8 DEF DrawInv

(* The slots after a publication and after an expiry.                       *)
LEMMA PublishedSlots ==
  ASSUME Typed, staging # FEED_NO_SLOT, Publish
  PROVE  /\ staging \in Slots /\ slots' \in [Slots -> Batch]
         /\ slots'[staging].body = Shown /\ slots'[staging].revision = Rev
         /\ slots'[staging].id = slots[staging].id
         /\ \A t \in Slots \ {staging} : slots'[t] = slots[t]
<1>1. slots \in [Slots -> Batch] /\ staging \in Slots
  BY DEF Typed, TypeOK
<1>2. slots' = [slots EXCEPT ![staging] =
                  [slots[staging] EXCEPT !.body = Shown, !.revision = Rev]]
  BY PublishParts
<1>3. Shown \in Body /\ Rev \in Nat
  BY PublishTypes DEF Typed
<1> DEFINE g == slots'
<1>4. g = [slots EXCEPT ![staging] = [slots[staging] EXCEPT !.body = Shown, !.revision = Rev]]
  BY <1>2
<1> HIDE DEF g
<1>5. /\ g \in [Slots -> Batch]
      /\ g[staging].body = Shown /\ g[staging].revision = Rev
      /\ g[staging].id = slots[staging].id
      /\ \A t \in Slots \ {staging} : g[t] = slots[t]
  BY <1>1, <1>3, <1>4 DEF Batch
<1> QED BY <1>1, <1>5 DEF g

LEMMA ExpiredSlots ==
  ASSUME Typed, Expire
  PROVE  /\ active \in Slots /\ slots' \in [Slots -> Batch] /\ revision' = revision + 1
         /\ slots'[active].body = OldBody /\ slots'[active].revision = revision'
         /\ slots'[active].id = slots[active].id
         /\ \A t \in Slots \ {active} : slots'[t] = slots[t]
<1> DEFINE n == revision + 1
<1>1. slots \in [Slots -> Batch] /\ active \in Slots /\ n \in Nat
  BY ExpireParts DEF Typed, TypeOK
<1>2. slots' = [slots EXCEPT ![active] =
                  [slots[active] EXCEPT !.body = OldBody, !.revision = n]]
  BY ExpireParts
<1>3. OldBody \in Body
  BY ExpireParts, ExpireTypes DEF Typed
<1>4. revision' = n
  BY ExpireParts
<1> HIDE DEF n
<1>5. /\ slots' \in [Slots -> Batch]
      /\ slots'[active].body = OldBody /\ slots'[active].revision = n
      /\ slots'[active].id = slots[active].id
      /\ \A t \in Slots \ {active} : slots'[t] = slots[t]
  BY <1>1, <1>2, <1>3 DEF Batch
<1> QED BY <1>1, <1>4, <1>5 DEF n

LEMMA CommitDraw ==
  ASSUME Base, DrawInv, NEW heard \in Heard, Commit(heard)
  PROVE  DrawInv'
<1>1. staging # FEED_NO_SLOT /\ Publish /\ UNCHANGED readerVars
  BY DEF Commit, Complete, Uploading
<1>2. /\ staging \in Slots /\ staging # active /\ pins[staging] = 0
      /\ active' = staging /\ staging' = FEED_NO_SLOT /\ revision' = Rev
  BY <1>1, PublishParts DEF DrawInv, StagedInv, Base, Typed, TypeOK
<1>3. /\ slots' \in [Slots -> Batch]
      /\ slots'[staging].body = Shown /\ slots'[staging].revision = Rev
      /\ \A t \in Slots \ {staging} : slots'[t] = slots[t]
  BY <1>1, PublishedSlots DEF Base
<1>4. Rev \in Nat /\ Rev >= revision /\ revision \in Nat
  BY <1>1, PublishTypes DEF Base, Typed, TypeOK
<1>5. Rev > revision \/
        (active # FEED_NO_SLOT /\ Rev = revision /\ Shown = slots[active].body)
  BY DEF Rev, Changed, Old, Base, Typed, TypeOK
<1>6. \/ slots'[staging].revision > revision
      \/ \E t \in Slots : /\ slots[t].revision = slots'[staging].revision
                          /\ slots[t].body = slots'[staging].body
  BY <1>3, <1>5 DEF DrawInv, RevisionInv, Base, Typed, TypeOK
<1>7. StagedInv'
  BY <1>2 DEF StagedInv
<1>8. RevisionInv'
  <2>1. \A s \in Slots : slots[s].revision \in Nat /\ slots[s].revision <= revision
    BY DEF DrawInv, RevisionInv, Base, Typed, TypeOK, Batch
  <2>2. \A s \in Slots : slots'[s].revision <= Rev
    BY <1>3, <1>4, <2>1
  <2> QED BY <1>2, <1>3, <2>2 DEF RevisionInv
<1>9. LookInv' /\ NamedInv'
  BY <1>1, <1>2, <1>3, <1>4, <1>6, UnseenWrite DEF DrawInv, readerVars
<1>10. DrawsWhatItSaw'
  BY <1>1, <1>2, <1>3, UnreadWrite DEF DrawInv
<1> QED BY <1>7, <1>8, <1>9, <1>10 DEF DrawInv

LEMMA ExpireDraw ==
  ASSUME Base, DrawInv, Expire
  PROVE  DrawInv'
<1>1. /\ active \in Slots /\ pins[active] = 0 /\ UNCHANGED <<active, staging, readerVars>>
  BY ExpireParts, ExpiredSlots DEF Base
<1>2. /\ slots' \in [Slots -> Batch] /\ revision' = revision + 1
      /\ slots'[active].revision = revision'
      /\ \A t \in Slots \ {active} : slots'[t] = slots[t]
  BY ExpiredSlots DEF Base
<1>3. revision \in Nat /\ \A s \in Slots : slots[s].revision \in Nat
  BY DEF Base, Typed, TypeOK, Batch
<1>4. StagedInv'
  BY <1>1, <1>2 DEF StagedInv, DrawInv, Base, Typed, TypeOK, readerVars
<1>5. RevisionInv'
  <2>1. \A s \in Slots : slots[s].revision <= revision
    BY DEF DrawInv, RevisionInv
  <2> QED BY <1>1, <1>2, <1>3, <2>1 DEF RevisionInv
<1>6. LookInv' /\ NamedInv'
  BY <1>1, <1>2, <1>3, UnseenWrite DEF DrawInv, readerVars
<1>7. DrawsWhatItSaw'
  BY <1>1, <1>2, UnreadWrite DEF DrawInv
<1> QED BY <1>4, <1>5, <1>6, <1>7 DEF DrawInv

LEMMA ReaderDraw ==
  ASSUME Base, DrawInv, NEW r \in Readers, Reader(r)
  PROVE  DrawInv'
<1> USE DEF Base, Typed
<1>1. UNCHANGED <<slots, active, staging, revision>>
  BY DEF Reader, Look, Acquire, AcquireFails, Release, deviceVars
<1>2. revision \in Nat /\ \A s \in Slots : slots[s].revision \in Nat /\ slots[s].revision <= revision
  BY DEF TypeOK, Batch, DrawInv, RevisionInv
<1>3. RevisionInv'
  BY <1>1 DEF RevisionInv, DrawInv
<1>7. NamedInv'
  BY <1>1 DEF NamedInv, DrawInv
<1>4. CASE Look(r)
  <2>1. /\ lease[r] = FEED_NO_SLOT /\ active \in Slots /\ UNCHANGED <<pins, lease>>
        /\ look' = [look EXCEPT ![r] = [revision |-> slots[active].revision,
                                       body |-> slots[active].body]]
    BY <1>4 DEF Look, TypeOK
  <2>2. slots[active].revision = revision
    BY <1>4 DEF Look, DrawInv, RevisionInv
  <2>3. StagedInv'
    BY <1>1, <2>1 DEF StagedInv, DrawInv
  <2>4. LookInv'
    BY <1>1, <1>2, <2>1, <2>2 DEF LookInv, NamedInv, DrawInv, TypeOK
  <2>5. DrawsWhatItSaw'
    BY <1>1, <2>1 DEF DrawsWhatItSaw, DrawInv, TypeOK
  <2> QED BY <1>3, <1>7, <2>3, <2>4, <2>5 DEF DrawInv
<1>5. CASE Acquire(r)
  <2>1. PICK t \in Slots :
          /\ t # staging /\ slots[t].revision # 0 /\ slots[t].revision = look[r].revision
          /\ lease' = [lease EXCEPT ![r] = t] /\ pins' = [pins EXCEPT ![t] = @ + 1]
          /\ look' = look
    BY <1>5 DEF Acquire, Drawable
  <2>2. StagedInv'
    BY <1>1, <2>1 DEF StagedInv, DrawInv, TypeOK
  <2>3. LookInv'
    BY <1>1, <2>1 DEF LookInv, DrawInv
  <2>4. DrawsWhatItSaw'
    <3>1. slots[t].body = look[r].body
      BY <2>1 DEF LookInv, DrawInv
    <3>2. lease'[r] = t /\ \A q \in Readers \ {r} : lease'[q] = lease[q]
      BY <2>1 DEF TypeOK
    <3>3. \A q \in Readers : lease[q] # FEED_NO_SLOT =>
            slots[lease[q]].body = look[q].body /\ slots[lease[q]].revision = look[q].revision
      BY DEF DrawsWhatItSaw, DrawInv
    <3> QED BY <1>1, <2>1, <3>1, <3>2, <3>3 DEF DrawsWhatItSaw
  <2> QED BY <1>3, <1>7, <2>2, <2>3, <2>4 DEF DrawInv
<1>6. CASE AcquireFails(r) \/ Release(r)
  <2>1. /\ look' = [look EXCEPT ![r] = NothingSeen] /\ NothingSeen.revision = 0
        /\ lease' \in [Readers -> Slots \cup {FEED_NO_SLOT}] /\ lease'[r] = FEED_NO_SLOT
        /\ \A q \in Readers \ {r} : lease'[q] = lease[q]
    BY <1>6 DEF AcquireFails, Release, NothingSeen, TypeOK
  <2>2. StagedInv'
    <3>1. CASE pins' = pins
      BY <1>1, <3>1 DEF StagedInv, DrawInv
    <3>2. CASE lease[r] \in Slots /\ pins' = [pins EXCEPT ![lease[r]] = @ - 1]
      <4>1. pins[lease[r]] >= 1
        BY <3>2, Pinned
      <4>2. staging # FEED_NO_SLOT => lease[r] # staging
        BY <4>1 DEF StagedInv, DrawInv
      <4> QED BY <1>1, <3>2, <4>2 DEF StagedInv, DrawInv, TypeOK
    <3> QED BY <1>6, <3>1, <3>2 DEF AcquireFails, Release, TypeOK
  <2>3. LookInv'
    BY <1>1, <1>2, <2>1 DEF LookInv, DrawInv, TypeOK
  <2>4. DrawsWhatItSaw'
    BY <1>1, <2>1 DEF DrawsWhatItSaw, DrawInv, TypeOK
  <2> QED BY <1>3, <1>7, <2>2, <2>3, <2>4 DEF DrawInv
<1> QED BY <1>4, <1>5, <1>6 DEF Reader

(* The other steps leave the slots, the revision and the readers alone.     *)
LEMMA QuietDraw ==
  ASSUME Base, DrawInv, UNCHANGED <<slots, active, revision, readerVars>>,
         staging' \in {staging, FEED_NO_SLOT}
  PROVE  DrawInv'
BY DEF DrawInv, StagedInv, RevisionInv, NamedInv, LookInv, DrawsWhatItSaw, readerVars

LEMMA NextDraw ==
  ASSUME Base, DrawInv, [Next]_vars
  PROVE  DrawInv'
<1>1. ASSUME NEW heard \in Heard, Begin(heard) PROVE DrawInv'
  BY <1>1, BeginDraw
<1>2. ASSUME NEW heard \in Heard, AcceptLine(heard) PROVE DrawInv'
  BY <1>2, AcceptDraw
<1>3. ASSUME NEW heard \in Heard, Commit(heard) PROVE DrawInv'
  BY <1>3, CommitDraw
<1>4. ASSUME NEW heard \in Heard,
             \/ BeginBusy(heard) \/ RepeatLine(heard) \/ RefuseLine(heard) \/ CommitAgain(heard)
             \/ CommitConflict(heard) \/ CommitRefused(heard) \/ Cancel(heard)
      PROVE  DrawInv'
  BY <1>4, QuietDraw DEF BeginBusy, RepeatLine, RefuseLine, CommitAgain, CommitConflict,
     CommitRefused, Cancel, deviceVars
<1>5. CASE Expire
  BY <1>5, ExpireDraw
<1>6. CASE DropUpload \/ GrowStale \/ Host \/ Tick
  BY <1>6, QuietDraw DEF DropUpload, GrowStale, Host, HostStart, HostConflict, HostRestart, Tick,
     deviceVars
<1>7. ASSUME NEW r \in Readers, Reader(r) PROVE DrawInv'
  BY <1>7, ReaderDraw
<1>8. CASE UNCHANGED vars
  BY <1>8, QuietDraw DEF vars, deviceVars
<1> QED BY <1>1, <1>2, <1>3, <1>4, <1>5, <1>6, <1>7, <1>8 DEF Next, DebugTask, Command

LEMMA InitDraw == Init => DrawInv
<1> SUFFICES ASSUME Init PROVE DrawInv
  OBVIOUS
<1>1. /\ staging = FEED_NO_SLOT /\ active = FEED_NO_SLOT /\ revision = 0
      /\ \A s \in Slots : slots[s] = [id |-> 0, revision |-> 0, body |-> NoBody]
      /\ \A r \in Readers : look[r].revision = 0 /\ lease[r] = FEED_NO_SLOT
  BY DEF Init
<1> QED BY <1>1 DEF DrawInv, StagedInv, RevisionInv, NamedInv, LookInv, DrawsWhatItSaw

LEMMA DrawAlways == Spec => [](Base /\ DrawInv)
<1>1. Init => Base /\ DrawInv
  BY InitTyped, InitPins, InitDraw DEF Base
<1>2. Base /\ DrawInv /\ [Next]_vars => (Base /\ DrawInv)'
  BY NextTyped, PinsNext, NextDraw DEF Base, Typed
<1> QED BY <1>1, <1>2, PTL DEF Spec

(* Whatever the host sends and repeats, and however often batches expire, a *)
(* reader draws to the end the batch whose revision it asked for.           *)
THEOREM DrawsOneBatch == Spec => []DrawsWhatItSaw
<1>1. Base /\ DrawInv => DrawsWhatItSaw
  BY DEF DrawInv
<1> QED BY <1>1, DrawAlways, PTL

-----------------------------------------------------------------------------
(* What the host is told. *)

Unmarked(r) == [i \in DOMAIN r.alerts |->
                  [alert |-> r.alerts[i], expired |-> FALSE, pending |-> FALSE]]

(* What has been staged comes from the upload the host is sending now.      *)
UploadInv ==
  host.phase \in {"line", "commit"} /\ staging # FEED_NO_SLOT =>
    LET b == slots[staging].body IN
    /\ slots[staging].id = host.id
    /\ b.city = host.report.city /\ b.state = host.report.state
    /\ \A i \in 1..Len(lines) : lines[i] = Line(i - 1, host.report)
    /\ Len(lines) >= 1 => b.now = host.report.now
    /\ Len(lines) = Lines => b.alerts = Unmarked(host.report)

(* The batch on display shows a report with the data lines of the last      *)
(* COMMIT, which the host began under its id if that is still its id.       *)
LastInv ==
  /\ host.phase # "idle" => host.id >= 1 /\ host.report \in host.begun
  /\ last.id <= host.id
  /\ active = FEED_NO_SLOT => last.id = 0
  /\ active # FEED_NO_SLOT =>
       /\ slots[active].id = last.id
       /\ \E r \in Reports : /\ last.lines = DataLines(r)
                             /\ Shows(slots[active].body, r)
                             /\ last.id = host.id => r \in host.begun

HostInv == UploadInv /\ LastInv /\ HostTold
Drawn == Base /\ DrawInv

(* A batch published from a whole upload shows its report.                  *)
LEMMA ShownReport ==
  ASSUME Typed, UploadInv, host.phase = "commit", Complete
  PROVE  Shows(Shown, host.report)
<1> DEFINE r == host.report
<1>1. staging # FEED_NO_SLOT /\ lines = DataLines(r) /\ r \in Reports
  BY DEF Complete, Uploading, HostLines, Typed, TypeOK
<1>2. Len(lines) = Lines /\ Lines >= 1
  BY <1>1, LinesAssumption, LineTypes
<1>3. New.now = r.now /\ New.city = r.city /\ New.state = r.state /\ New.alerts = Unmarked(r)
  BY <1>1, <1>2 DEF UploadInv, New
<1>4. Shown.now = New.now /\ Shown.city = New.city /\ Shown.alerts = Alerts
  BY <1>1, PublishTypes DEF Typed
<1>5. ASSUME r.state = "ACTIVE"
      PROVE  [i \in DOMAIN Alerts |-> Alerts[i].alert] = r.alerts
  <2>1. Alerts = [i \in DOMAIN Unmarked(r) |-> Stamped(Unmarked(r)[i], New.checked)]
    BY <1>3, <1>5 DEF Alerts, PublishedAlerts
  <2>2. Unmarked(r) \in ShownAlerts
    BY <1>1, ReportTypes DEF Unmarked
  <2>3. \A i \in DOMAIN Unmarked(r) :
          Unmarked(r)[i] \in ShownAlert /\ Unmarked(r)[i].alert = r.alerts[i]
    <3>1. \A i \in DOMAIN Unmarked(r) : Unmarked(r)[i] \in ShownAlert
      BY <2>2 DEF ShownAlerts
    <3>2. \A i \in DOMAIN Unmarked(r) : Unmarked(r)[i].alert = r.alerts[i]
      BY DEF Unmarked
    <3> QED BY <3>1, <3>2
  <2>4. DOMAIN Alerts = DOMAIN r.alerts /\ \A i \in DOMAIN Alerts : Alerts[i].alert = r.alerts[i]
    <3>1. DOMAIN Alerts = DOMAIN Unmarked(r)
      BY <2>1
    <3>2. \A i \in DOMAIN Alerts : Alerts[i].alert = r.alerts[i]
      BY <2>1, <2>3, <3>1, StampedFacts
    <3> QED BY <3>1, <3>2 DEF Unmarked
  <2>5. r.alerts = [i \in DOMAIN r.alerts |-> r.alerts[i]]
    <3>1. r.alerts \in Seq(Alert)
      BY <1>1, ReportsAssumption DEF Report
    <3> QED BY <3>1
  <2> QED BY <2>4, <2>5
<1> QED BY <1>3, <1>4, <1>5 DEF Shows

(* Expiry marks alerts; it does not change what they say.                   *)
LEMMA AgedReport ==
  ASSUME Typed, active # FEED_NO_SLOT, NEW r, Shows(slots[active].body, r)
  PROVE  Shows(OldBody, r)
<1>1. Old = slots[active].body
  BY DEF Old
<1>2. /\ OldBody.alerts = Aged /\ OldBody.city = Old.city /\ OldBody.now = Old.now
      /\ DOMAIN Aged = DOMAIN Old.alerts
      /\ \A i \in DOMAIN Aged : Aged[i].alert = Old.alerts[i].alert
  BY ExpireTypes DEF Typed
<1>3. [i \in DOMAIN Aged |-> Aged[i].alert] = [i \in DOMAIN Old.alerts |-> Old.alerts[i].alert]
  BY <1>2
<1> QED BY <1>1, <1>2, <1>3 DEF Shows

LEMMA CommitHost ==
  ASSUME Drawn, HostInv, NEW heard \in Heard, Commit(heard)
  PROVE  /\ HostInv'
         /\ slots'[active'].id = host.id /\ host.id # last.id
<1> USE DEF Drawn, Base
<1>1. /\ host.phase = "commit" /\ Complete /\ host.id # last.id /\ Publish
      /\ host' \in {host, IsDone} /\ staging # FEED_NO_SLOT /\ slots[staging].id = host.id
      /\ lines = DataLines(host.report)
  BY DEF Commit, NewId, Answer, Complete, Uploading, HostLines
<1>2. /\ active' = staging /\ staging' = FEED_NO_SLOT /\ staging \in Slots
      /\ slots'[staging].body = Shown /\ slots'[staging].id = host.id
      /\ last' = [id |-> host.id, lines |-> lines]
  BY <1>1, PublishParts, PublishedSlots
<1>3. Shows(Shown, host.report)
  BY <1>1, ShownReport DEF HostInv
<1>4. /\ host'.id = host.id /\ host'.report = host.report /\ host'.begun = host.begun
      /\ host.id >= 1 /\ host.report \in host.begun
      /\ host.id \in Nat /\ host.report \in Reports
  BY <1>1 DEF IsDone, HostInv, LastInv, Typed, TypeOK
<1>5. UploadInv'
  BY <1>2 DEF UploadInv
<1>6. LastInv'
  <2>1. last'.lines = DataLines(host.report)
    BY <1>1, <1>2
  <2>2. active' # FEED_NO_SLOT
    BY <1>1, <1>2
  <2>3. last'.id = host.id /\ slots'[active'].id = host.id /\ slots'[active'].body = Shown
    BY <1>2
  <2> QED BY <1>3, <1>4, <2>1, <2>2, <2>3 DEF LastInv
<1>7. HostTold'
  BY <1>1, <1>2, <1>3, <1>4 DEF HostTold, HostLines
<1> QED BY <1>1, <1>2, <1>5, <1>6, <1>7 DEF HostInv

LEMMA ExpireHost ==
  ASSUME Drawn, HostInv, Expire
  PROVE  HostInv'
<1> USE DEF Drawn, Base
<1>1. /\ active \in Slots /\ UNCHANGED <<active, staging, lines, last, host>>
      /\ active # FEED_NO_SLOT
  BY ExpireParts, ExpiredSlots
<1>2. /\ slots'[active].body = OldBody /\ slots'[active].id = slots[active].id
      /\ \A t \in Slots \ {active} : slots'[t] = slots[t]
  BY ExpiredSlots
<1>3. UploadInv'
  BY <1>1, <1>2 DEF UploadInv, HostInv, DrawInv, StagedInv, Typed, TypeOK
<1>4. LastInv'
  <2>1. PICK r \in Reports : /\ last.lines = DataLines(r)
                             /\ Shows(slots[active].body, r)
                             /\ last.id = host.id => r \in host.begun
    BY <1>1 DEF HostInv, LastInv
  <2>2. Shows(OldBody, r)
    BY <1>1, <2>1, AgedReport
  <2>3. Shows(slots'[active'].body, r)
    BY <1>1, <1>2, <2>2
  <2>4. /\ host.phase # "idle" => host.id >= 1 /\ host.report \in host.begun
        /\ last.id <= host.id /\ slots'[active'].id = last.id
    BY <1>1, <1>2 DEF HostInv, LastInv
  <2> HIDE DEF Drawn, Base
  <2> QED BY <1>1, <2>1, <2>3, <2>4 DEF LastInv
<1>5. HostTold'
  BY <1>1, <1>2, AgedReport DEF HostInv, HostTold, HostLines
<1> QED BY <1>3, <1>4, <1>5 DEF HostInv

LEMMA BeginHost ==
  ASSUME Drawn, HostInv, NEW heard \in Heard, Begin(heard)
  PROVE  HostInv'
<1> USE DEF Drawn, Base
<1> DEFINE body == [NoBody EXCEPT !.city = host.report.city, !.state = host.report.state,
                                  !.checked = host.checked]
<1>1. /\ staging' = Spare /\ Spare \in Slots /\ Spare # active /\ lines' = << >>
      /\ UNCHANGED <<active, last>> /\ host.phase = "begin"
      /\ host' \in {host, [host EXCEPT !.phase = "line", !.sent = 0]}
  BY SpareSlot DEF Begin, Answer, Typed, TypeOK
<1>2. /\ slots'[Spare].id = host.id /\ slots'[Spare].body = body
      /\ \A t \in Slots \ {Spare} : slots'[t] = slots[t]
  BY <1>1 DEF Begin, Typed, TypeOK
<1>3. body.city = host.report.city /\ body.state = host.report.state
  BY NoBodyType DEF Body
<1> HIDE DEF body
<1>4. /\ host'.id = host.id /\ host'.report = host.report /\ host'.begun = host.begun
      /\ host'.phase \in {"begin", "line"}
  BY <1>1 DEF Typed, TypeOK
<1>5. UploadInv'
  <2>1. Len(lines') = 0 /\ Lines >= 1
    BY <1>1, LinesAssumption
  <2> QED BY <1>1, <1>2, <1>3, <1>4, <2>1 DEF UploadInv
<1>6. active # FEED_NO_SLOT => slots'[active] = slots[active]
  BY <1>1, <1>2 DEF Typed, TypeOK
<1>7. LastInv'
  BY <1>1, <1>4, <1>6 DEF HostInv, LastInv
<1>8. HostTold'
  BY <1>4 DEF HostTold
<1> QED BY <1>5, <1>7, <1>8 DEF HostInv

LEMMA AcceptHost ==
  ASSUME Drawn, HostInv, NEW heard \in Heard, AcceptLine(heard)
  PROVE  HostInv'
<1> USE DEF Drawn, Base
<1> DEFINE body == Filled(slots[staging].body, host.sent, host.report)
<1>1. /\ host.phase = "line" /\ staging \in Slots /\ staging # active
      /\ host.sent = Len(lines) /\ lines' = Append(lines, Line(host.sent, host.report))
      /\ UNCHANGED <<active, staging, last>> /\ host' \in {host, NextLine}
  BY DEF AcceptLine, Answer, Expected, Uploading, DrawInv, StagedInv, Typed, TypeOK
<1>2. /\ slots'[staging].id = slots[staging].id /\ slots'[staging].body = body
      /\ \A t \in Slots \ {staging} : slots'[t] = slots[t]
  BY <1>1 DEF AcceptLine, Typed, TypeOK, Batch
<1>3. /\ body.city = slots[staging].body.city /\ body.state = slots[staging].body.state
      /\ body.now = IF host.sent = 0 THEN host.report.now ELSE slots[staging].body.now
      /\ host.sent = Lines - 1 => body.alerts = Unmarked(host.report)
  <2>1. slots[staging].body \in Body /\ host.sent \in Nat /\ host.report \in Reports
    BY <1>1 DEF Typed, TypeOK, Batch
  <2> QED BY <2>1, FilledType DEF Unmarked
<1> HIDE DEF body
<1>4. /\ host'.id = host.id /\ host'.report = host.report /\ host'.begun = host.begun
      /\ host'.phase \in {"line", "commit"}
  BY <1>1 DEF NextLine, Typed, TypeOK
<1>5. UploadInv'
  <2>1. /\ lines \in Seq(DataLine) /\ Len(lines') = Len(lines) + 1
        /\ \A i \in 1..Len(lines) : lines'[i] = lines[i]
        /\ lines'[Len(lines) + 1] = Line(host.sent, host.report)
    BY <1>1 DEF Typed, TypeOK
  <2>2. \A i \in 1..Len(lines) : lines[i] = Line(i - 1, host.report)
    BY <1>1 DEF HostInv, UploadInv, Slots, FEED_NO_SLOT
  <2>3. \A i \in 1..Len(lines') : lines'[i] = Line(i - 1, host.report)
    <3>1. Len(lines) \in Nat /\ (Len(lines) + 1) - 1 = host.sent
      BY <1>1, <2>1
    <3> QED BY <2>1, <2>2, <3>1
  <2>4. Len(lines') = Lines => host.sent = Lines - 1
    BY <1>1, <2>1, LinesAssumption
  <2>5. /\ slots[staging].id = host.id /\ slots[staging].body.city = host.report.city
        /\ slots[staging].body.state = host.report.state
        /\ Len(lines) >= 1 => slots[staging].body.now = host.report.now
    BY <1>1 DEF HostInv, UploadInv, Slots, FEED_NO_SLOT
  <2>6. body.now = host.report.now
    BY <1>1, <1>3, <2>1, <2>5
  <2> QED BY <1>1, <1>2, <1>3, <1>4, <2>3, <2>4, <2>5, <2>6 DEF UploadInv
<1>6. active # FEED_NO_SLOT => slots'[active] = slots[active]
  BY <1>1, <1>2 DEF Typed, TypeOK
<1>7. LastInv'
  BY <1>1, <1>4, <1>6 DEF HostInv, LastInv
<1>8. HostTold'
  BY <1>4 DEF HostTold
<1> QED BY <1>5, <1>7, <1>8 DEF HostInv

LEMMA CommitAgainHost ==
  ASSUME Drawn, HostInv, NEW heard \in Heard, CommitAgain(heard)
  PROVE  HostInv'
<1> USE DEF Drawn, Base
<1>1. /\ host.phase = "commit" /\ last.id = host.id /\ last.lines = HostLines
      /\ staging' = FEED_NO_SLOT /\ UNCHANGED <<slots, active, lines, last>>
      /\ host' \in {host, IsDone}
  BY DEF CommitAgain, IsLast, Answer
<1>2. /\ host'.id = host.id /\ host'.report = host.report /\ host'.begun = host.begun
      /\ host'.phase \in {"commit", "done"} /\ host.id >= 1
  BY <1>1 DEF IsDone, HostInv, LastInv, Typed, TypeOK
<1>3. UploadInv'
  BY <1>1 DEF UploadInv
<1>4. LastInv'
  BY <1>1, <1>2 DEF HostInv, LastInv
<1>5. /\ active # FEED_NO_SLOT /\ slots[active].id = host.id
      /\ \E r \in host.begun : DataLines(r) = HostLines /\ Shows(slots[active].body, r)
  <2>1. active # FEED_NO_SLOT /\ slots[active].id = host.id
    BY <1>1, <1>2 DEF HostInv, LastInv
  <2>2. PICK r \in Reports : /\ last.lines = DataLines(r)
                             /\ Shows(slots[active].body, r)
                             /\ last.id = host.id => r \in host.begun
    BY <2>1 DEF HostInv, LastInv
  <2> HIDE DEF Drawn, Base
  <2> QED BY <1>1, <2>1, <2>2
<1>6. HostTold'
  BY <1>1, <1>2, <1>5 DEF HostTold, HostLines
<1> QED BY <1>3, <1>4, <1>6 DEF HostInv

(* An upload that goes on with the same lines, is dropped, or starts over.  *)
LEMMA QuietHost ==
  ASSUME Drawn, HostInv, UNCHANGED <<slots, active, lines, last>>,
         staging' \in {staging, FEED_NO_SLOT},
         host' = host \/ host'.phase \notin {"line", "commit", "done"} \/
           (/\ host'.id = host.id /\ host'.report = host.report
            /\ host.phase = "line" /\ host'.phase \in {"line", "commit"}),
         \/ host' = host
         \/ /\ host'.id \in Nat /\ host'.id >= 1 /\ host'.report \in host'.begun
            /\ \/ host'.id > host.id
               \/ host'.id = host.id /\ host.begun \subseteq host'.begun
  PROVE  HostInv'
<1> USE DEF Drawn, Base
<1>1. UploadInv'
  BY DEF UploadInv, HostInv
<1>2. LastInv'
  <2>1. host.id \in Nat /\ last.id \in Nat
    BY DEF Typed, TypeOK
  <2> QED BY <2>1 DEF HostInv, LastInv
<1>3. HostTold'
  BY DEF HostInv, HostTold, HostLines
<1> QED BY <1>1, <1>2, <1>3 DEF HostInv

LEMMA NextHost ==
  ASSUME Drawn, HostInv, [Next]_vars
  PROVE  HostInv'
<1> USE DEF Drawn, Base
<1>1. ASSUME NEW heard \in Heard, Begin(heard) PROVE HostInv'
  BY <1>1, BeginHost
<1>2. ASSUME NEW heard \in Heard, AcceptLine(heard) PROVE HostInv'
  BY <1>2, AcceptHost
<1>3. ASSUME NEW heard \in Heard, Commit(heard) PROVE HostInv'
  BY <1>3, CommitHost
<1>4. ASSUME NEW heard \in Heard, CommitAgain(heard) PROVE HostInv'
  BY <1>4, CommitAgainHost
<1>5. ASSUME NEW heard \in Heard,
             \/ BeginBusy(heard) \/ RefuseLine(heard)
             \/ CommitConflict(heard) \/ CommitRefused(heard) \/ Cancel(heard)
      PROVE  HostInv'
  <2>1. /\ UNCHANGED <<slots, active, lines, last>> /\ staging' \in {staging, FEED_NO_SLOT}
        /\ host.phase \notin {"idle", "done"}
        /\ \/ host' = host \/ host' = StartsOver
           \/ host' = [host EXCEPT !.phase = "conflict"]
           \/ host' = [host EXCEPT !.phase = "begin", !.sent = 0]
    BY <1>5 DEF BeginBusy, RefuseLine, CommitConflict, CommitRefused, Cancel, deviceVars, Answer
  <2>2. \/ host' = host
        \/ /\ host'.phase \notin {"line", "commit", "done"} /\ host'.id = host.id
           /\ host'.report = host.report /\ host'.begun = host.begun
    BY <2>1 DEF StartsOver, Typed, TypeOK
  <2>3. host.id >= 1 /\ host.id \in Nat /\ host.report \in host.begun
    BY <2>1 DEF HostInv, LastInv, Typed, TypeOK
  <2> QED BY <2>1, <2>2, <2>3, QuietHost
<1>6. ASSUME NEW heard \in Heard, RepeatLine(heard) PROVE HostInv'
  <2>1. /\ UNCHANGED <<slots, active, lines, last, staging>> /\ host.phase = "line"
        /\ host' \in {host, NextLine}
    BY <1>6 DEF RepeatLine, Answer, deviceVars
  <2>2. /\ host'.id = host.id /\ host'.report = host.report /\ host'.begun = host.begun
        /\ host'.phase \in {"line", "commit"}
    BY <2>1 DEF NextLine, Typed, TypeOK
  <2>3. host.id >= 1 /\ host.id \in Nat /\ host.report \in host.begun
    BY <2>1 DEF HostInv, LastInv, Typed, TypeOK
  <2> QED BY <2>1, <2>2, <2>3, QuietHost
<1>7. CASE Expire
  BY <1>7, ExpireHost
<1>8. CASE DropUpload \/ GrowStale \/ Tick \/ UNCHANGED vars
  <2>1. /\ UNCHANGED <<slots, active, lines, last, host>>
        /\ staging' \in {staging, FEED_NO_SLOT}
    BY <1>8 DEF DropUpload, GrowStale, Tick, vars, deviceVars
  <2> QED BY <2>1, QuietHost
<1>9. CASE Host
  <2>1. /\ UNCHANGED <<slots, active, lines, last, staging>>
        /\ host'.phase \in {"begin", "cancel"} /\ host'.id \in {host.id, host.id + 1}
        /\ host'.id = host.id => host.phase # "idle" /\ host.begun \subseteq host'.begun
        /\ host'.report \in host'.begun
    BY <1>9 DEF Host, HostStart, HostConflict, HostRestart, Upload, deviceVars, Typed, TypeOK
  <2>2. host.id \in Nat /\ (host.phase # "idle" => host.id >= 1)
    BY DEF HostInv, LastInv, Typed, TypeOK
  <2>3. /\ host'.id \in Nat /\ host'.id >= 1
        /\ host'.id > host.id \/ host'.id = host.id
    BY <2>1, <2>2
  <2> QED BY <2>1, <2>3, QuietHost
<1>10. ASSUME NEW r \in Readers, Reader(r) PROVE HostInv'
  <2>1. UNCHANGED <<slots, active, lines, last, staging, host>>
    BY <1>10 DEF Reader, Look, Acquire, AcquireFails, Release, deviceVars
  <2> QED BY <2>1, QuietHost
<1> QED BY <1>1, <1>2, <1>3, <1>4, <1>5, <1>6, <1>7, <1>8, <1>9, <1>10
        DEF Next, DebugTask, Command

LEMMA InitHost == Init => HostInv
<1> SUFFICES ASSUME Init PROVE HostInv
  OBVIOUS
<1>1. host.phase = "idle" /\ host.id = 0
  <2>1. PICK r \in Reports :
          host = [phase |-> "idle", id |-> 0, report |-> r, checked |-> 0, sent |-> 0,
                  begun |-> {}]
    BY DEF Init
  <2> QED BY <2>1
<1>2. active = FEED_NO_SLOT /\ last.id = 0
  BY DEF Init
<1> QED BY <1>1, <1>2 DEF HostInv, UploadInv, LastInv, HostTold

LEMMA HostAlways == Spec => [](Drawn /\ HostInv)
<1>1. Init => Drawn /\ HostInv
  BY InitTyped, InitPins, InitDraw, InitHost DEF Drawn, Base
<1>2. Drawn /\ HostInv /\ [Next]_vars => (Drawn /\ HostInv)'
  BY NextTyped, PinsNext, NextDraw, NextHost DEF Drawn, Base, Typed
<1> QED BY <1>1, <1>2, PTL DEF Spec

(* A host told OK for its COMMIT has its data lines on display, with the    *)
(* city of a batch it began under that id, whatever was lost, repeated,     *)
(* dropped or restarted on the way.                                         *)
THEOREM ToldIsShown == Spec => []HostTold
<1>1. Drawn /\ HostInv => HostTold
  BY DEF HostInv
<1> QED BY <1>1, HostAlways, PTL

(* Only a batch with a newer id turns the page or renews the three hours.   *)
THEOREM PublishesOnce == Spec => PublishedOnce
<1> DEFINE Step == (active' # active \/ (fresh' /\ ~fresh)) =>
                     /\ active' # FEED_NO_SLOT
                     /\ active # FEED_NO_SLOT => slots'[active'].id > slots[active].id
<1>1. Drawn /\ HostInv /\ [Next]_vars => [Step]_vars
  <2> SUFFICES ASSUME Drawn, HostInv, Next PROVE Step
    OBVIOUS
  <2> USE DEF Drawn, Base
  <2>1. ASSUME NEW heard \in Heard, Commit(heard) PROVE Step
    <3>1. slots'[active'].id = host.id /\ host.id # last.id
      BY <2>1, CommitHost
    <3>2. active' # FEED_NO_SLOT
      BY <2>1, PublishParts DEF Commit, Complete, Uploading
    <3>3. last.id <= host.id /\ (active # FEED_NO_SLOT => slots[active].id = last.id)
      BY DEF HostInv, LastInv
    <3>4. last.id \in Nat /\ host.id \in Nat
      BY DEF Typed, TypeOK
    <3> QED BY <3>1, <3>2, <3>3, <3>4
  <2>2. ASSUME NEW heard \in Heard,
               \/ Begin(heard) \/ BeginBusy(heard) \/ AcceptLine(heard) \/ RepeatLine(heard)
               \/ RefuseLine(heard) \/ CommitAgain(heard) \/ CommitConflict(heard)
               \/ CommitRefused(heard) \/ Cancel(heard)
        PROVE  UNCHANGED <<active, fresh>>
    BY <2>2 DEF Begin, BeginBusy, AcceptLine, RepeatLine, RefuseLine, CommitAgain,
       CommitConflict, CommitRefused, Cancel, deviceVars
  <2>3. ASSUME Expire \/ DropUpload \/ Host \/ Tick PROVE UNCHANGED <<active, fresh>>
    BY <2>3 DEF Expire, DropUpload, Host, HostStart, HostConflict, HostRestart, Tick, deviceVars
  <2>4. CASE GrowStale
    BY <2>4 DEF GrowStale
  <2>5. ASSUME NEW r \in Readers, Reader(r) PROVE UNCHANGED <<active, fresh>>
    BY <2>5 DEF Reader, Look, Acquire, AcquireFails, Release, deviceVars
  <2> QED BY <2>1, <2>2, <2>3, <2>4, <2>5 DEF Next, DebugTask, Command
<1> QED BY <1>1, HostAlways, PTL DEF Spec, PublishedOnce

-----------------------------------------------------------------------------
(* The attention event. *)

(* The last event is not newer than the batches, and the attention still    *)
(* shown is the last event.                                                 *)
EventInv ==
  /\ event <= revision
  /\ attention.revision # 0 => attention.revision = event

AttentionInv == AttentionPoints /\ EventInv

(* What AnnouncementIsNew says of an event.                                 *)
NewEvent ==
  /\ attention'.revision = revision'
  /\ \/ revision' > event
     \/ /\ revision' = revision
        /\ ReplacesListed(slots'[active'].body.alerts, attention'.index)

(* In a batch published unchanged only an alert listed after one it         *)
(* replaces counts as new: any other finds itself first.                    *)
LEMMA UnchangedBatch ==
  ASSUME Typed, staging # FEED_NO_SLOT, active # FEED_NO_SLOT, Shown = slots[active].body,
         NEW i \in Newly
  PROVE  ReplacesListed(Shown.alerts, i)
<1>1. Old = Shown /\ Shown.alerts = Alerts /\ Shown.city = New.city
  BY PublishTypes DEF Old, Typed
<1>2. i \in DOMAIN Alerts /\ ~Unchanged(Alerts[i], Alerts)
  <2>1. SameCity(New, Old) /\ Old.alerts = Alerts
    BY <1>1 DEF SameCity
  <2> QED BY <2>1 DEF Newly, NewAlerts
<1>3. Same(Alerts[i], Alerts[i])
  BY DEF Same
<1>4. \E k \in 1..i - 1 : Same(Alerts[i], Alerts[k])
  BY <1>2, <1>3 DEF Unchanged
<1> QED BY <1>1, <1>4 DEF ReplacesListed

LEMMA CommitAttention ==
  ASSUME Drawn, AttentionInv, NEW heard \in Heard, Commit(heard)
  PROVE  /\ AttentionInv'
         /\ Announces => NewEvent
<1> USE DEF Drawn, Base
<1>1. Publish /\ staging # FEED_NO_SLOT /\ staging \in Slots /\ AttentionType
  BY DEF Commit, Complete, Uploading, Typed, TypeOK, AttentionType
<1>2. /\ active' = staging /\ revision' = Rev
      /\ slots'[staging].body = Shown /\ slots'[staging].revision = Rev
      /\ Shown.alerts = Alerts /\ Alerts \in ShownAlerts /\ Newly \subseteq DOMAIN Alerts
      /\ Rev \in Nat /\ Rev >= revision /\ revision \in Nat /\ event \in Nat
      /\ attention.revision \in Nat
  BY <1>1, PublishParts, PublishedSlots, PublishTypes DEF Typed, TypeOK
<1>3. Rev > revision \/ (active # FEED_NO_SLOT /\ Rev = revision /\ Shown = slots[active].body)
  BY DEF Rev, Changed, Old, Typed, TypeOK
<1>5. CASE Newly # {}
  <2> DEFINE i == Chosen(Alerts, Newly)
  <2>1. i \in Newly /\ i \in DOMAIN Alerts
    BY <1>2, <1>5, ChosenIsCandidate
  <2>2. Announce(Alerts, i, Rev)
    BY <1>1, <1>5, PublishParts
  <2> HIDE DEF i
  <2>3. /\ attention'.revision = Rev /\ attention'.index = i
        /\ attention'.id = Alerts[i].alert.id /\ event' = Rev
    BY <1>1, <1>2, <2>1, <2>2, AnnounceFacts
  <2>4. AttentionPoints'
    BY <1>1, <1>2, <2>1, <2>3 DEF AttentionPoints
  <2>5. EventInv'
    BY <1>2, <2>3 DEF EventInv
  <2>6. Rev > event \/ (Rev = revision /\ ReplacesListed(Shown.alerts, i))
    <3>1. CASE Rev > revision
      BY <1>2, <3>1 DEF AttentionInv, EventInv
    <3>2. CASE active # FEED_NO_SLOT /\ Rev = revision /\ Shown = slots[active].body
      BY <1>1, <2>1, <3>2, UnchangedBatch
    <3> QED BY <1>3, <3>1, <3>2
  <2>7. NewEvent
    BY <1>2, <2>3, <2>6 DEF NewEvent
  <2> QED BY <2>4, <2>5, <2>7 DEF AttentionInv
<1>6. CASE Newly = {}
  <2>1. KeepAttention(Alerts)
    BY <1>1, <1>6, PublishParts
  <2>2. /\ event' = event /\ attention'.revision \in {0, attention.revision}
        /\ attention'.revision # 0 =>
             attention'.index \in Still(Alerts) /\ attention'.id = attention.id
    BY <1>1, <1>2, <2>1, KeepFacts
  <2>3. \A j \in Still(Alerts) :
          j \in DOMAIN Alerts /\ Alerts[j].alert.id = attention.id /\ InForce(Alerts[j])
    BY DEF Still
  <2>4. attention.revision <= revision
    BY <1>2 DEF AttentionInv, EventInv
  <2>5. AttentionPoints'
    BY <1>1, <1>2, <2>2, <2>3, <2>4 DEF AttentionPoints
  <2>7. EventInv'
    BY <1>2, <2>2 DEF EventInv, AttentionInv
  <2>8. ~Announces
    BY <2>2 DEF Announces
  <2> QED BY <2>5, <2>7, <2>8 DEF AttentionInv
<1> QED BY <1>5, <1>6

LEMMA ExpireAttention ==
  ASSUME Drawn, AttentionInv, Expire
  PROVE  /\ AttentionInv'
         /\ Announces => NewEvent
<1> USE DEF Drawn, Base
<1>1. /\ active # FEED_NO_SLOT /\ active' = active /\ AttentionType /\ Old = slots[active].body
      /\ revision \in Nat /\ event \in Nat /\ attention.revision \in Nat
  BY ExpireParts DEF Typed, TypeOK, AttentionType, Old
<1>2. /\ slots'[active].body = OldBody /\ slots'[active].revision = revision + 1
      /\ revision' = revision + 1 /\ revision + 1 \in Nat
  BY <1>1, ExpiredSlots
<1>3. /\ OldBody.alerts = Aged /\ Aged \in ShownAlerts /\ Due \subseteq DOMAIN Aged
      /\ DOMAIN Aged = DOMAIN Old.alerts
      /\ \A i \in DOMAIN Aged : Aged[i].alert = Old.alerts[i].alert
      /\ \A i \in Due : InForce(Aged[i])
  BY <1>1, ExpireTypes DEF Typed
<1>4. event <= revision
  BY DEF AttentionInv, EventInv
<1>5. CASE Due # {}
  <2> DEFINE i == Chosen(Aged, Due)
             n == revision + 1
  <2>1. i \in Due /\ i \in DOMAIN Aged
    BY <1>3, <1>5, ChosenIsCandidate
  <2>2. Announce(Aged, i, n)
    BY <1>5, ExpireParts
  <2>3. n \in Nat /\ n > event /\ n = revision'
    BY <1>1, <1>2, <1>4
  <2> HIDE DEF i, n
  <2>4. /\ attention'.revision = n /\ attention'.index = i
        /\ attention'.id = Aged[i].alert.id /\ event' = n
    BY <1>1, <1>3, <2>1, <2>2, <2>3, AnnounceFacts
  <2>5. AttentionPoints'
    BY <1>1, <1>2, <1>3, <2>1, <2>3, <2>4 DEF AttentionPoints
  <2>6. EventInv'
    BY <1>1, <1>2, <1>3, <2>1, <2>3, <2>4 DEF EventInv
  <2>7. NewEvent
    BY <2>3, <2>4 DEF NewEvent
  <2> QED BY <2>5, <2>6, <2>7 DEF AttentionInv
<1>6. CASE Due = {}
  <2>1. UNCHANGED <<attention, event>>
    BY <1>6, ExpireParts DEF attentionVars
  <2>2. AttentionPoints'
    BY <1>1, <1>2, <1>3, <1>4, <2>1 DEF AttentionPoints, AttentionInv, EventInv
  <2>3. EventInv'
    BY <1>1, <1>2, <1>4, <2>1 DEF EventInv, AttentionInv
  <2>4. ~Announces
    BY <2>1 DEF Announces
  <2> QED BY <2>2, <2>3, <2>4 DEF AttentionInv
<1> QED BY <1>5, <1>6

(* Every other step leaves the attention and the batch on display alone.    *)
LEMMA QuietAttention ==
  ASSUME AttentionInv, UNCHANGED <<active, revision, attentionVars>>,
         active # FEED_NO_SLOT => slots'[active] = slots[active]
  PROVE  AttentionInv' /\ ~Announces
<1>1. AttentionPoints'
  BY DEF AttentionInv, AttentionPoints, attentionVars
<1>2. EventInv'
  BY DEF AttentionInv, EventInv, attentionVars
<1> QED BY <1>1, <1>2 DEF AttentionInv, Announces, attentionVars

LEMMA NextAttention ==
  ASSUME Drawn, AttentionInv, [Next]_vars
  PROVE  /\ AttentionInv'
         /\ Announces => NewEvent
<1> USE DEF Drawn, Base
<1>1. ASSUME NEW heard \in Heard, Begin(heard)
      PROVE  AttentionInv' /\ ~Announces
  <2>1. /\ UNCHANGED <<active, revision, attentionVars>>
        /\ active # FEED_NO_SLOT => slots'[active] = slots[active]
    BY <1>1, SpareSlot DEF Begin, Typed, TypeOK
  <2> QED BY <2>1, QuietAttention
<1>2. ASSUME NEW heard \in Heard, AcceptLine(heard)
      PROVE  AttentionInv' /\ ~Announces
  <2>1. /\ UNCHANGED <<active, revision, attentionVars>>
        /\ active # FEED_NO_SLOT => slots'[active] = slots[active]
    BY <1>2 DEF AcceptLine, Expected, Uploading, DrawInv, StagedInv, Typed, TypeOK
  <2> QED BY <2>1, QuietAttention
<1>3. ASSUME NEW heard \in Heard,
             \/ BeginBusy(heard) \/ RepeatLine(heard) \/ RefuseLine(heard) \/ CommitAgain(heard)
             \/ CommitConflict(heard) \/ CommitRefused(heard) \/ Cancel(heard)
      PROVE  AttentionInv' /\ ~Announces
  <2>1. UNCHANGED <<active, revision, attentionVars, slots>>
    BY <1>3 DEF BeginBusy, RepeatLine, RefuseLine, CommitAgain, CommitConflict, CommitRefused,
       Cancel, deviceVars
  <2> QED BY <2>1, QuietAttention
<1>4. ASSUME DropUpload \/ GrowStale \/ Host \/ Tick \/ UNCHANGED vars
      PROVE  AttentionInv' /\ ~Announces
  <2>1. UNCHANGED <<active, revision, attentionVars, slots>>
    BY <1>4 DEF DropUpload, GrowStale, Host, HostStart, HostConflict, HostRestart, Tick, vars,
       deviceVars
  <2> QED BY <2>1, QuietAttention
<1>5. ASSUME NEW r \in Readers, Reader(r)
      PROVE  AttentionInv' /\ ~Announces
  <2>1. UNCHANGED <<active, revision, attentionVars, slots>>
    BY <1>5 DEF Reader, Look, Acquire, AcquireFails, Release, deviceVars
  <2> QED BY <2>1, QuietAttention
<1> QED BY <1>1, <1>2, <1>3, <1>4, <1>5, CommitAttention, ExpireAttention
        DEF Next, DebugTask, Command

LEMMA InitAttention == Init => AttentionInv
<1> SUFFICES ASSUME Init PROVE AttentionInv
  OBVIOUS
<1>1. attention.revision = 0 /\ event = 0 /\ revision = 0
  BY DEF Init
<1> QED BY <1>1 DEF AttentionInv, AttentionPoints, EventInv

LEMMA AttentionAlways == Spec => [](Drawn /\ AttentionInv)
<1>1. Init => Drawn /\ AttentionInv
  BY InitTyped, InitPins, InitDraw, InitAttention DEF Drawn, Base
<1>2. Drawn /\ AttentionInv /\ [Next]_vars => (Drawn /\ AttentionInv)'
  BY NextTyped, PinsNext, NextDraw, NextAttention DEF Drawn, Base, Typed
<1> QED BY <1>1, <1>2, PTL DEF Spec

(* The attention points at the alert that drew it, in the batch on display. *)
THEOREM AttentionSafe == Spec => []AttentionPoints
<1>1. Drawn /\ AttentionInv => AttentionPoints
  BY DEF AttentionInv
<1> QED BY <1>1, AttentionAlways, PTL

(* An event has a revision that no earlier event had, unless it belongs to  *)
(* an alert listed after the one it replaces in a batch sent again.         *)
THEOREM EventsAreNew == Spec => AnnouncementIsNew
<1>1. Drawn /\ AttentionInv /\ [Next]_vars => [Announces => NewEvent]_vars
  BY NextAttention
<1> QED BY <1>1, AttentionAlways, PTL DEF Spec, AnnouncementIsNew, NewEvent

=============================================================================
