------------------------------ MODULE WeatherFeed ------------------------------
(***************************************************************************)
(* app/weather_feed.c: a host uploads a weather batch line by line into    *)
(* the slot that is not on display, COMMIT publishes it, and displayTask   *)
(* draws from a slot it has pinned.  debugTask runs every command and      *)
(* weather_feed_expire; displayTask reads between any two of its critical  *)
(* sections.  A command is one action: what it does outside its critical   *)
(* section touches only the staged slot, which no reader can pin.          *)
(*                                                                         *)
(* The host is external: it follows docs/weather_feed_protocol.md, repeats *)
(* what was not answered, starts over when it is refused, and may restart. *)
(* BEGIN carries the city, the alert state and the time of the check; what *)
(* the CRC covers is the data lines alone.                                 *)
(***************************************************************************)
EXTENDS Integers, Sequences, FiniteSets

CONSTANTS
  Lines,       \* bound: data lines of a batch, each sent and answered alone
  Texts,       \* what the texts and values of a report may be
  Reports,     \* bound: the weather reports the host may have to send
  MaxId,       \* bound: batch ids the host uses, one after the other
  MaxTime,     \* bound: times of day that effective and expires tell apart
  MaxFaults,   \* bound: answers lost, receive errors, time-outs, host restarts
  Readers      \* tasks that draw from a lease

ASSUME LinesAssumption == Lines \in Nat \ {0}
ASSUME ReadersAssumption == IsFiniteSet(Readers)
ASSUME BoundsAssumption == MaxId \in Nat /\ MaxTime \in Nat /\ MaxFaults \in Nat

(* The stamps of an alert are times 0..MaxTime; effective = 0 and expires = *)
(* MaxTime + 1 stand for the stamps that were not given.                    *)
WEATHER_FEED_MAX_ALERTS == 3
Text == Texts \cup {""}
States == {"UNKNOWN", "ACTIVE", "NONE", "OFFLINE", "CLEARED"}
Alert == [id : Text, replaces : Text, text : Text, level : Nat, important : BOOLEAN,
          effective : 0..MaxTime, expires : 1..MaxTime + 1]
ShownAlert == [alert : Alert, expired : BOOLEAN, pending : BOOLEAN]
ShownAlerts == {a \in Seq(ShownAlert) : Len(a) <= WEATHER_FEED_MAX_ALERTS}
Report == [now : Text, city : Text, state : States, alerts : Seq(Alert)]
DataLine == [now : Text, alerts : Seq(Alert)]

(* s_begin and s_alert refuse other states and an empty id, s_complete two  *)
(* alerts of one id.                                                        *)
ASSUME ReportsAssumption ==
  \A r \in Reports :
    /\ r \in Report /\ Len(r.alerts) <= WEATHER_FEED_MAX_ALERTS
    /\ r.state = "ACTIVE" <=> r.alerts # << >>
    /\ \A i, j \in DOMAIN r.alerts :
         r.alerts[i].id # "" /\ (r.alerts[i].id = r.alerts[j].id => i = j)

VARIABLES
  slots,      \* s_batches
  active,     \* s_active
  staging,    \* s_staging
  lines,      \* the data lines s_crc, s_sequence and s_previous are made of
  last,       \* s_last_id and, for s_last_sequence and s_last_crc, its data lines
  revision,   \* s_revision
  attention,  \* s_attention_revision, s_attention_index and s_attention_id
  fresh,      \* s_expired is clear
  pins,       \* s_pins
  look,       \* what a reader's snapshot showed: its revision and the batch
  lease,      \* the slot of a reader's lease
  clock,      \* the time of day, in the RTC and at the host
  host,       \* the host's upload; begun: the reports it has used its id for
  faults,     \* faults left
  announced,  \* history: alerts that have drawn attention and are still there
  event       \* history: the revision of the last attention event

attentionVars == <<attention, announced, event>>
deviceVars == <<slots, active, staging, lines, last, revision, attentionVars, fresh>>
readerVars == <<pins, look, lease>>
vars == <<deviceVars, readerVars, clock, host, faults>>

FEED_NO_SLOT == 255
Slots == {0, 1}

Body == [now : Text, city : Text, state : States, checked : 0..MaxTime,
         alerts : ShownAlerts]
NoBody == [now |-> "", city |-> "", state |-> "UNKNOWN", checked |-> 0, alerts |-> << >>]
Batch == [id : Nat, revision : Nat, body : Body]
Phases == {"idle", "begin", "line", "commit", "cancel", "done", "conflict"}

TypeOK ==
  /\ slots \in [Slots -> Batch]
  /\ active \in Slots \cup {FEED_NO_SLOT}
  /\ staging \in Slots \cup {FEED_NO_SLOT}
  /\ lines \in Seq(DataLine) /\ Len(lines) <= Lines
  /\ last \in [id : Nat, lines : Seq(DataLine)]
  /\ revision \in Nat
  /\ attention \in [revision : Nat, index : Nat, id : Text]
  /\ fresh \in BOOLEAN
  /\ pins \in [Slots -> Nat]
  /\ look \in [Readers -> [revision : Nat, body : Body]]
  /\ lease \in [Readers -> Slots \cup {FEED_NO_SLOT}]
  /\ clock \in 0..MaxTime
  /\ host \in [phase : Phases, id : 0..MaxId, report : Reports, checked : 0..MaxTime,
               sent : 0..Lines, begun : SUBSET Reports]
  /\ faults \in 0..MaxFaults
  /\ announced \subseteq Alert /\ event \in Nat

Init ==
  /\ slots = [s \in Slots |-> [id |-> 0, revision |-> 0, body |-> NoBody]]
  /\ active = FEED_NO_SLOT /\ staging = FEED_NO_SLOT
  /\ lines = << >> /\ last = [id |-> 0, lines |-> << >>]
  /\ revision = 0
  /\ attention = [revision |-> 0, index |-> 0, id |-> ""]
  /\ fresh = TRUE
  /\ pins = [s \in Slots |-> 0]
  /\ look = [r \in Readers |-> [revision |-> 0, body |-> NoBody]]
  /\ lease = [r \in Readers |-> FEED_NO_SLOT]
  /\ clock = 0
  /\ \E r \in Reports :
       host = [phase |-> "idle", id |-> 0, report |-> r, checked |-> 0, sent |-> 0,
               begun |-> {}]
  /\ faults = MaxFaults
  /\ announced = {} /\ event = 0

-----------------------------------------------------------------------------
(* Alerts *)

(* s_alert_changed compares everything but id and replaces.                 *)
Content(x) == [x.alert EXCEPT !.id = "", !.replaces = ""]
Same(x, o) == x.alert.id = o.alert.id \/ x.alert.replaces = o.alert.id

(* The first old alert that this one is, or takes the place of, says the    *)
(* same as it does.                                                         *)
Unchanged(x, old) ==
  \E j \in DOMAIN old :
    /\ Same(x, old[j]) /\ \A k \in 1..j - 1 : ~Same(x, old[k])
    /\ Content(x) = Content(old[j])

InForce(x) == ~x.expired /\ ~x.pending /\ x.alert.important

(* s_alert_priority_higher, strict: the lowest index wins a tie.            *)
Chosen(alerts, candidates) ==
  CHOOSE i \in candidates :
    \A j \in candidates : \/ alerts[i].alert.level > alerts[j].alert.level
                          \/ alerts[i].alert.level = alerts[j].alert.level /\ i <= j

(* An attention event, and what the history makes of it.                    *)
Announce(alerts, i, rev) ==
  /\ attention' = [revision |-> rev, index |-> i, id |-> alerts[i].alert.id]
  /\ announced' = (announced \cap {Content(alerts[j]) : j \in DOMAIN alerts})
                    \cup {Content(alerts[i])}
  /\ event' = rev

-----------------------------------------------------------------------------
(* debugTask: publishing and expiry *)

(* The alerts and the state the new batch is published with (s_publish).    *)
Stamped(x, checked) ==
  LET over == x.alert.expires <= checked
  IN  [x EXCEPT !.expired = over, !.pending = ~over /\ x.alert.effective > checked]

SameCity(new, old) == active # FEED_NO_SLOT /\ new.city = old.city

PublishedAlerts(new, old) ==
  IF new.state = "OFFLINE" /\ SameCity(new, old) THEN old.alerts
  ELSE [i \in DOMAIN new.alerts |-> Stamped(new.alerts[i], new.checked)]

PublishedState(new, old, alerts) ==
  IF \/ new.state = "NONE" /\ SameCity(new, old) /\ old.alerts # << >>
     \/ new.state = "ACTIVE" /\ \A i \in DOMAIN alerts : alerts[i].expired
  THEN "CLEARED" ELSE new.state

(* An alert that is in force and was not in the old batch as it is.         *)
NewAlerts(new, old, alerts) ==
  {i \in DOMAIN alerts : /\ new.state = "ACTIVE" /\ InForce(alerts[i])
                         /\ ~(SameCity(new, old) /\ Unchanged(alerts[i], old.alerts))}

(* Mutant of Still: the old index is trusted.                               *)
StillAtIndex(alerts) == DOMAIN alerts \cap {attention.index}

(* Where the new batch has the alert that had the attention.                *)
Still(alerts) == {i \in DOMAIN alerts : alerts[i].alert.id = attention.id /\ InForce(alerts[i])}

KeepAttention(alerts) ==
  LET still == Still(alerts)
  IN  /\ IF attention.revision # 0 /\ still # {}
         THEN attention' = [attention EXCEPT !.index = CHOOSE i \in still : \A j \in still : i <= j]
         ELSE attention' = [attention EXCEPT
                !.revision = 0, !.id = IF attention.revision # 0 THEN "" ELSE @]
      /\ announced' = announced \cap {Content(alerts[j]) : j \in DOMAIN alerts}
      /\ UNCHANGED event

(* Mutant of Changed: only the values count.                                *)
ChangedValues(new, old) == active = FEED_NO_SLOT \/ new.now # old.now

Changed(new, old) == active = FEED_NO_SLOT \/ new # old

Publish ==
  LET new    == slots[staging].body
      old    == IF active = FEED_NO_SLOT THEN NoBody ELSE slots[active].body
      alerts == PublishedAlerts(new, old)
      body   == [new EXCEPT !.alerts = alerts, !.state = PublishedState(new, old, alerts)]
      rev    == IF Changed(body, old) THEN revision + 1 ELSE revision
      newly  == NewAlerts(new, old, alerts)
  IN  /\ revision' = rev
      /\ slots' = [slots EXCEPT ![staging] = [@ EXCEPT !.body = body, !.revision = rev]]
      /\ IF newly # {} THEN Announce(alerts, Chosen(alerts, newly), rev) ELSE KeepAttention(alerts)
      /\ active' = staging /\ staging' = FEED_NO_SLOT
      /\ fresh' = TRUE
      /\ last' = [id |-> slots[staging].id, lines |-> lines]
      /\ UNCHANGED lines

(* weather_feed_expire, in a pass of the debug loop that finds the RTC      *)
(* trusted; it leaves a batch that is being drawn alone.                    *)
Expired(x) ==
  LET over == x.expired \/ x.alert.expires <= clock
  IN  [x EXCEPT !.expired = over, !.pending = @ /\ (over \/ x.alert.effective > clock)]

(* Mutant of Undrawn: a batch is expired under the eyes of its reader.      *)
UndrawnOrNot == active # FEED_NO_SLOT

Undrawn == active # FEED_NO_SLOT /\ pins[active] = 0

Expire ==
  /\ Undrawn
  /\ LET old    == slots[active].body
         alerts == [i \in DOMAIN old.alerts |-> Expired(old.alerts[i])]
         due    == {i \in DOMAIN alerts : /\ old.alerts[i].pending /\ ~alerts[i].pending
                                          /\ alerts[i].alert.important /\ old.state = "ACTIVE"}
         over   == old.state = "ACTIVE" /\ \A i \in DOMAIN alerts : alerts[i].expired
     IN  /\ alerts # old.alerts
         /\ revision' = revision + 1
         /\ slots' = [slots EXCEPT
              ![active] = [@ EXCEPT
                !.body = [old EXCEPT !.alerts = alerts,
                                     !.state = IF over THEN "CLEARED" ELSE @],
                !.revision = revision']]
         /\ IF due # {} THEN Announce(alerts, Chosen(alerts, due), revision')
                        ELSE UNCHANGED attentionVars
  /\ UNCHANGED <<active, staging, lines, last, fresh, readerVars, clock, host, faults>>

-----------------------------------------------------------------------------
(* debugTask: the commands of the host's upload                             *)

(* The answer reaches the host, or is lost and the host sends the same line *)
(* again.                                                                   *)
Heard == IF faults > 0 THEN BOOLEAN ELSE {TRUE}
Answer(heard, next) ==
  /\ host' = IF heard THEN next ELSE host
  /\ faults' = IF heard THEN faults ELSE faults - 1

(* Refused, the host gives its upload up and starts over.                   *)
StartsOver == [host EXCEPT !.phase = "cancel"]
IsDone     == [host EXCEPT !.phase = "done"]

Spare == IF active = 0 THEN 1 ELSE 0

Free == staging = FEED_NO_SLOT /\ pins[Spare] = 0

Begin(heard) ==
  /\ host.phase = "begin"
  /\ Free
  /\ staging' = Spare
  /\ slots' = [slots EXCEPT ![Spare] =
       [id |-> host.id, revision |-> 0,
        body |-> [NoBody EXCEPT !.city = host.report.city, !.state = host.report.state,
                                !.checked = host.checked]]]
  /\ lines' = << >>
  /\ Answer(heard, [host EXCEPT !.phase = "line", !.sent = 0])
  /\ UNCHANGED <<active, last, revision, attentionVars, fresh, readerVars, clock>>

(* A STATUS tells the host which it is: it cancels an upload left behind,   *)
(* and tries again when the slot is only being drawn.                       *)
BeginBusy(heard) ==
  /\ host.phase = "begin"
  /\ ~Free
  /\ Answer(heard, IF staging # FEED_NO_SLOT THEN StartsOver ELSE host)
  /\ UNCHANGED <<deviceVars, readerVars, clock>>

Uploading == staging # FEED_NO_SLOT /\ slots[staging].id = host.id

(* The first data line stands for the values, the last one for the alerts.  *)
Line(k, r) == [now |-> IF k = 0 THEN r.now ELSE "",
               alerts |-> IF k = Lines - 1 THEN r.alerts ELSE << >>]
DataLines(r) == [i \in 1..Lines |-> Line(i - 1, r)]

Filled(body, k, r) ==
  [body EXCEPT
     !.now = IF k = 0 THEN r.now ELSE @,
     !.alerts = IF k = Lines - 1
                THEN [i \in DOMAIN r.alerts |->
                        [alert |-> r.alerts[i], expired |-> FALSE, pending |-> FALSE]]
                ELSE @]

(* Mutant of Expected: the sequence number is not looked at.                *)
ExpectedAnyway == Uploading

Expected == Uploading /\ host.sent = Len(lines)

NextLine ==
  [host EXCEPT !.sent = @ + 1, !.phase = IF host.sent + 1 = Lines THEN "commit" ELSE "line"]

AcceptLine(heard) ==
  /\ host.phase = "line" /\ Expected
  /\ slots' = [slots EXCEPT ![staging].body = Filled(@, host.sent, host.report)]
  /\ lines' = Append(lines, Line(host.sent, host.report))
  /\ Answer(heard, NextLine)
  /\ UNCHANGED <<active, staging, last, revision, attentionVars, fresh, readerVars, clock>>

(* The line before, sent again because its answer was lost: answered, not   *)
(* taken a second time.                                                     *)
Repeated == /\ Uploading
            /\ lines # << >> /\ host.sent = Len(lines) - 1
            /\ lines[Len(lines)] = Line(host.sent, host.report)

RepeatLine(heard) ==
  /\ host.phase = "line" /\ Repeated
  /\ Answer(heard, NextLine)
  /\ UNCHANGED <<deviceVars, readerVars, clock>>

RefuseLine(heard) ==
  /\ host.phase = "line"
  /\ ~Expected /\ ~Repeated
  /\ Answer(heard, StartsOver)
  /\ UNCHANGED <<deviceVars, readerVars, clock>>

(* The record count and the CRC of a COMMIT stand for the data lines; what  *)
(* BEGIN said is not in them.                                               *)
HostLines == DataLines(host.report)

(* Mutant of IsLast: a batch is known by its id alone.                      *)
IsLastById == last.id = host.id

IsLast == last = [id |-> host.id, lines |-> HostLines]
Complete == Uploading /\ lines = HostLines

(* Mutant of NewId: a batch sent again is published again.                  *)
NewIdOrNot == TRUE

NewId == host.id # last.id

Commit(heard) ==
  /\ host.phase = "commit" /\ Complete /\ NewId
  /\ Publish
  /\ Answer(heard, IsDone)
  /\ UNCHANGED <<readerVars, clock>>

(* A COMMIT repeated after its answer was lost, or a whole batch sent again *)
(* under its id: answered as before, nothing is published.                  *)
CommitAgain(heard) ==
  /\ host.phase = "commit" /\ IsLast
  /\ staging = FEED_NO_SLOT \/ Complete
  /\ staging' = FEED_NO_SLOT
  /\ Answer(heard, IsDone)
  /\ UNCHANGED <<slots, active, lines, last, revision, attentionVars, fresh,
                 readerVars, clock>>

CommitConflict(heard) ==
  /\ host.phase = "commit" /\ Complete /\ ~NewId /\ ~IsLast
  /\ Answer(heard, [host EXCEPT !.phase = "conflict"])
  /\ UNCHANGED <<deviceVars, readerVars, clock>>

CommitRefused(heard) ==
  /\ host.phase = "commit"
  /\ ~Complete /\ ~(staging = FEED_NO_SLOT /\ IsLast)
  /\ Answer(heard, StartsOver)
  /\ UNCHANGED <<deviceVars, readerVars, clock>>

Cancel(heard) ==
  /\ host.phase = "cancel"
  /\ staging' = FEED_NO_SLOT
  /\ Answer(heard, [host EXCEPT !.phase = "begin", !.sent = 0])
  /\ UNCHANGED <<slots, active, lines, last, revision, attentionVars, fresh,
                 readerVars, clock>>

(* Sixty seconds without a line (weather_feed_poll) or a receive error      *)
(* (weather_feed_set_console) drop the upload.                              *)
DropUpload ==
  /\ staging # FEED_NO_SLOT /\ faults > 0
  /\ staging' = FEED_NO_SLOT
  /\ faults' = faults - 1
  /\ UNCHANGED <<slots, active, lines, last, revision, attentionVars, fresh,
                 readerVars, clock, host>>

(* Three hours after the last publication.                                  *)
GrowStale ==
  /\ active # FEED_NO_SLOT /\ fresh
  /\ fresh' = FALSE
  /\ UNCHANGED <<slots, active, staging, lines, last, revision, attentionVars,
                 readerVars, clock, host, faults>>

-----------------------------------------------------------------------------
(* The host *)

Upload(id, r, phase) ==
  host' = [phase |-> phase, id |-> id, report |-> r, checked |-> clock, sent |-> 0,
           begun |-> {r} \cup IF id = host.id THEN host.begun ELSE {}]

HostStart ==
  /\ host.phase \in {"idle", "done"} /\ host.id < MaxId
  /\ \E r \in Reports : Upload(host.id + 1, r, "begin")
  /\ UNCHANGED <<deviceVars, readerVars, clock, faults>>

HostConflict ==
  /\ host.phase = "conflict" /\ host.id < MaxId
  /\ Upload(host.id + 1, host.report, "cancel")
  /\ UNCHANGED <<deviceVars, readerVars, clock, faults>>

(* It restarts without knowing how far it came, and uses its id again.      *)
HostRestart ==
  /\ host.phase \in {"begin", "line", "commit", "cancel"} /\ faults > 0
  /\ \E r \in Reports : Upload(host.id, r, "begin")
  /\ faults' = faults - 1
  /\ UNCHANGED <<deviceVars, readerVars, clock>>

Tick ==
  /\ clock < MaxTime
  /\ clock' = clock + 1
  /\ UNCHANGED <<deviceVars, readerVars, host, faults>>

-----------------------------------------------------------------------------
(* displayTask: weather_feed_get_snapshot, then acquire by its revision,    *)
(* draw and release                                                         *)

NothingSeen == [revision |-> 0, body |-> NoBody]

Look(r) ==
  /\ lease[r] = FEED_NO_SLOT /\ look[r].revision = 0
  /\ active # FEED_NO_SLOT
  /\ look' = [look EXCEPT ![r] = [revision |-> slots[active].revision,
                                  body |-> slots[active].body]]
  /\ UNCHANGED <<deviceVars, pins, lease, clock, host, faults>>

Drawable(rev) == {s \in Slots : s # staging /\ slots[s].revision # 0 /\ slots[s].revision = rev}

Acquire(r) ==
  /\ lease[r] = FEED_NO_SLOT /\ look[r].revision # 0
  /\ \E s \in Drawable(look[r].revision) :
       /\ \A t \in Drawable(look[r].revision) : s <= t
       /\ lease' = [lease EXCEPT ![r] = s]
       /\ pins' = [pins EXCEPT ![s] = @ + 1]
  /\ UNCHANGED <<deviceVars, look, clock, host, faults>>

(* The snapshot is too old: displayTask gives the drawing up.               *)
AcquireFails(r) ==
  /\ lease[r] = FEED_NO_SLOT /\ look[r].revision # 0
  /\ Drawable(look[r].revision) = {}
  /\ look' = [look EXCEPT ![r] = NothingSeen]
  /\ UNCHANGED <<deviceVars, pins, lease, clock, host, faults>>

(* Mutant of Release: the pin stays.                                        *)
ReleaseKeepsPin(r) ==
  /\ lease[r] # FEED_NO_SLOT
  /\ lease' = [lease EXCEPT ![r] = FEED_NO_SLOT]
  /\ look' = [look EXCEPT ![r] = NothingSeen]
  /\ UNCHANGED <<deviceVars, pins, clock, host, faults>>

Release(r) ==
  /\ lease[r] # FEED_NO_SLOT
  /\ pins' = [pins EXCEPT ![lease[r]] = @ - 1]
  /\ lease' = [lease EXCEPT ![r] = FEED_NO_SLOT]
  /\ look' = [look EXCEPT ![r] = NothingSeen]
  /\ UNCHANGED <<deviceVars, clock, host, faults>>

-----------------------------------------------------------------------------
Command(heard) ==
  \/ Begin(heard) \/ BeginBusy(heard)
  \/ AcceptLine(heard) \/ RepeatLine(heard) \/ RefuseLine(heard)
  \/ Commit(heard) \/ CommitAgain(heard) \/ CommitConflict(heard) \/ CommitRefused(heard)
  \/ Cancel(heard)

DebugTask == (\E heard \in Heard : Command(heard)) \/ Expire \/ DropUpload \/ GrowStale
Host == HostStart \/ HostConflict \/ HostRestart
Reader(r) == Look(r) \/ Acquire(r) \/ AcquireFails(r) \/ Release(r)

Next == DebugTask \/ Host \/ Tick \/ \E r \in Readers : Reader(r)

Spec == Init /\ [][Next]_vars

(* The host goes on, a lease is given back after the drawing, and BEGIN,    *)
(* tried again and again, finds the spare slot free between two drawings.   *)
Fairness ==
  /\ WF_vars(\E heard \in Heard : Command(heard))
  /\ SF_vars(Begin(TRUE))
  /\ WF_vars(HostConflict)
  /\ \A r \in Readers : WF_vars(Release(r))

FairSpec == Spec /\ Fairness

-----------------------------------------------------------------------------
(* Properties *)

(* What a reader draws through its lease is, until it releases it, exactly  *)
(* the batch its snapshot showed: no BEGIN, no data line, no expiry writes  *)
(* a slot that is being drawn, and a revision never names two contents.     *)
DrawsWhatItSaw ==
  \A r \in Readers : lease[r] # FEED_NO_SLOT =>
    /\ slots[lease[r]].body = look[r].body
    /\ slots[lease[r]].revision = look[r].revision

(* The display has the values, the city and the alerts of a report.         *)
Shows(body, r) ==
  /\ body.now = r.now /\ body.city = r.city
  /\ r.state = "ACTIVE" => [i \in DOMAIN body.alerts |-> body.alerts[i].alert] = r.alerts

(* A host that was told OK for its COMMIT sees its data lines on display,   *)
(* with the city of a batch it began under that id, however often it        *)
(* repeated or restarted the upload.  Under an id used for one report that  *)
(* is the report itself; OwnReportShown says what happens otherwise.        *)
HostTold ==
  host.phase = "done" =>
    /\ active # FEED_NO_SLOT /\ slots[active].id = host.id
    /\ \E r \in host.begun : DataLines(r) = HostLines /\ Shows(slots[active].body, r)

(* docs/weather_feed_protocol.md:33: the last batch, sent again whole, is   *)
(* answered OK; the same id with other contents is answered CONFLICT.  So   *)
(* OK means that the host's report is the one on display.                   *)
OwnReportShown ==
  host.phase = "done" => active # FEED_NO_SLOT /\ Shows(slots[active].body, host.report)

(* A batch is published once: only a batch with a newer id turns the page   *)
(* or renews the three hours.                                               *)
PublishedOnce ==
  [][(active' # active \/ (fresh' /\ ~fresh)) =>
       /\ active' # FEED_NO_SLOT
       /\ active # FEED_NO_SLOT => slots'[active'].id > slots[active].id]_vars

(* The attention points at an alert of the batch on display, the one that   *)
(* drew it, whatever was published or expired since.                        *)
AttentionPoints ==
  attention.revision # 0 =>
    /\ active # FEED_NO_SLOT
    /\ attention.index \in DOMAIN slots[active].body.alerts
    /\ slots[active].body.alerts[attention.index].alert.id = attention.id
    /\ attention.revision <= slots[active].revision

(* An event: the attention becomes another one.                             *)
Announces ==
  /\ attention'.revision # 0
  /\ <<attention'.revision, attention'.id>> # <<attention.revision, attention.id>>

(* The alert that has the attention replaces one listed before it.          *)
ReplacesListed(alerts, i) == \E k \in 1..i - 1 : Same(alerts[i], alerts[k])

(* displayTask tells events apart by their revision alone: an event has a   *)
(* revision no event had, but for one case.  In a batch that is sent again  *)
(* unchanged, and so keeps its revision, an alert listed after the one it   *)
(* replaces is compared with that one, and announced.                       *)
AnnouncementIsNew ==
  [][Announces =>
       /\ attention'.revision = revision'
       /\ \/ revision' > event
          \/ /\ revision' = revision
             /\ ReplacesListed(slots'[active'].body.alerts, attention'.index)]_vars

(* A host that keeps trying gets its batch published or is told that its id *)
(* is taken.                                                                *)
UploadFinishes == host.phase = "begin" ~> host.phase \in {"done", "conflict"}

(* docs/weather_feed_protocol.md:82: polling the same id and content does   *)
(* not raise the attention event again.                                     *)
AnnouncedOnce ==
  [][Announces /\ active # FEED_NO_SLOT
       /\ slots'[active'].body.city = slots[active].body.city =>
     Content(slots'[active'].body.alerts[attention'.index]) \notin announced]_vars

(* docs/weather_feed_protocol.md:82: nor does a batch that changes nothing. *)
PollIsQuiet == [][revision' = revision => ~Announces]_vars

(* docs/weather_feed_protocol.md:82: an important alert raises one event    *)
(* when it first appears, a pending one when it takes effect.  For batches  *)
(* of one alert: on display and in force, it has raised its event.          *)
AnnouncedInForce ==
  active # FEED_NO_SLOT =>
    LET shown == slots[active].body
    IN  shown.state = "ACTIVE" /\ Len(shown.alerts) = 1 /\ InForce(shown.alerts[1]) =>
          Content(shown.alerts[1]) \in announced

=============================================================================
