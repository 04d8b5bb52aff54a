----------------------------- MODULE FleetViews -----------------------------
(***************************************************************************)
(* The dashboard over a living fleet.  Units report their condition, fall  *)
(* silent, lose the network or their APU controller (gobi-agent main.c);   *)
(* the cloud stores rows, fault events and the shadow's link report; a     *)
(* browser polls /latest for its cards and asks for the data of the page   *)
(* it is on (hooks.js, the pages), while the user switches page, unit and  *)
(* period and any request may fail or be overtaken.  What a page makes of  *)
(* an answer is in TelemetryViews.                                         *)
(*                                                                         *)
(* A cycle's row and event reach the database together (FaultAlerts has    *)
(* the channel between); an API call reads when its answer arrives.        *)
(***************************************************************************)
EXTENDS TelemetryViews, Sequences

CONSTANTS
    Situations,     \* what may be the case at a unit: a condition of the APU
                    \* (a row without ts and hrs), or
    Silent, Off,    \* its controller does not answer; it has no power
    Linked,         \* units whose agent reports apu_link and raises 256
    Located,        \* units with an assigned location
    All,            \* the scope of the whole fleet
    Online,         \* the units that have a connection at first
    Batch,          \* SQLITE_FLUSH_BATCH: rows of a table sent per cycle
    MaxTime,        \* bound: reports of each unit
    MaxWork         \* bound: changes of the units, polls, the user's actions

(* What a controller reports of itself (its error register is a byte), the *)
(* rows made of it, and what a page holds: of a unit, and of an answer.    *)
Conditions == [err : 0 .. 255, batt : Nat, oil : BOOLEAN, on : BOOLEAN, mode : STRING]
RowType == [ts : Nat, err : 0 .. 255, batt : Nat, oil : BOOLEAN, on : BOOLEAN, mode : STRING,
            hrs : Nat]
LinkType == [apu : {"ok", "down"}, since : Nat \cup {Null}, hb : Nat]
TeleType == [row : RowType \cup {Null}, link : LinkType \cup {Null}]
KeyType == [units : (SUBSET Units) \cup {All}, range : {Day, Week}, all : BOOLEAN]

ASSUME FleetAssumption ==
    /\ IsFiniteSet(Units) /\ Units # {}
    /\ Linked \subseteq Units /\ Online \subseteq Units
    /\ {MaxTime, MaxWork} \subseteq Nat /\ Batch \in Nat \ {0}
    /\ Silent \notin Conditions /\ Off \notin Conditions
    /\ \A u \in Units : /\ Situations[u] \subseteq Conditions \cup {Silent, Off}
                        /\ Situations[u] \ {Silent, Off} # {}

ASSUME NullAssumption ==
    Null \notin Nat \cup {"No APU data", "Unit offline"} \cup RowType \cup TeleType
               \cup KeyType \cup [key : KeyType, content : [none : BOOLEAN]]

VARIABLES
    \* the units
    now,            \* the time
    at,             \* what is the case at a unit: a condition, Silent, Off
    net,            \* units with a connection
    hrs,            \* engine_hrs of a unit
    last,           \* prev_error: the code last published
    since,          \* when the controller stopped answering, or Null
    backlog,        \* rows and events buffered for the next connection
    \* the cloud
    rows, events, link,     \* of each unit
    recorded,       \* units with a maintenance record
    \* the browser
    units,          \* the unit list, Null before the first answer
    cache,          \* [pending, known, tele] of each unit: known is that an
                    \* answer came (react-query's data is not undefined)
    page, sel,      \* the page, the unit selected on every page
    list,           \* the units the page may select, as listed when it opened
    key,            \* what the page is to show: units, period, and whether
                    \* Alerts is in allMode
    shown,          \* the answer it shows: its key and content, or Null
    reqs,           \* its requests in flight
    loading, failed,\* a fetch is on; the last one failed
    posting,        \* the unit a record is being saved for, or Null
    \* observation
    was,            \* what was the case at each report
    raced,          \* the answer shown came while others were in flight
    work

device == <<now, at, net, hrs, last, since, backlog, was>>
cloud == <<rows, events, link>>
cards == <<units, cache>>
body == <<page, sel, list, key, shown, reqs, loading, failed, posting, raced, recorded>>
vars == <<device, cloud, cards, body, work>>

Row(t, c, h) == [ts |-> t, err |-> c.err, batt |-> c.batt, oil |-> c.oil, on |-> c.on,
                 mode |-> c.mode, hrs |-> h]
Link(apu, sinceT, hb) == [apu |-> apu, since |-> sinceT, hb |-> hb]
Empty == [rows |-> {}, events |-> {}]

Pages == {"alerts", "history", "maintenance", "reports", "log", "telemetry"}
KeyOf(us, range) == [units |-> us, range |-> range, all |-> FALSE]
AllUnits(us) == [units |-> us, range |-> Week, all |-> TRUE]

(* The event of a code other than the one last published.                  *)
EventOf(t, code, lastCode) ==
    IF code = lastCode THEN {}
    ELSE {[ts |-> t, code |-> code,
           state |-> CASE code = 0 -> "cleared"
                       [] code = STANDBY -> "standby"
                       [] OTHER -> "active"]}

(* The fleet has reported once, some units lost the network since; no      *)
(* browser is open.                                                        *)
Init ==
    /\ now = 1 /\ net = Online
    /\ at \in [Units -> UNION {Situations[u] : u \in Units}]
    /\ \A u \in Units : at[u] \in Situations[u] \ {Silent, Off}
    /\ hrs = [u \in Units |-> 0] /\ last = [u \in Units |-> at[u].err]
    /\ since = [u \in Units |-> Null] /\ backlog = [u \in Units |-> Empty]
    /\ was = [u \in Units |-> <<at[u]>>]
    /\ rows = [u \in Units |-> {Row(1, at[u], 0)}] 
    /\ events = [u \in Units |-> EventOf(1, at[u].err, 0)]
    /\ link = [u \in Units |-> IF u \in Linked THEN Link("ok", Null, 1) ELSE Null]
    /\ units = Null
    /\ cache = [u \in Units |-> [pending |-> TRUE, known |-> FALSE, tele |-> Null]]
    /\ page = "dashboard" /\ sel = (CHOOSE u \in Units : TRUE) /\ list = {}
    /\ key = Null /\ shown = Null
    /\ reqs = {} /\ loading = FALSE /\ failed = FALSE /\ posting = Null
    /\ raced = FALSE /\ recorded = {} /\ work = 0

Work == work < MaxWork /\ work' = work + 1

-----------------------------------------------------------------------------
(* The units.                                                              *)

Change ==
    /\ Work
    /\ \E u \in Units : \E c \in Situations[u] :
           c # at[u] /\ at' = [at EXCEPT ![u] = c]
    /\ UNCHANGED <<now, net, hrs, last, since, backlog, was, cloud, cards, body>>

(* A controller that was flashed anew counts from zero.                    *)
ResetHours ==
    /\ Work
    /\ \E u \in Units : hrs[u] > 0 /\ hrs' = [hrs EXCEPT ![u] = 0]
    /\ UNCHANGED <<now, at, net, last, since, backlog, was, cloud, cards, body>>

NetDown ==
    /\ Work
    /\ \E u \in net : net' = net \ {u}
    /\ UNCHANGED <<now, at, hrs, last, since, backlog, was, cloud, cards, body>>

(* db_flush() sends a batch of each table, the oldest first; on_connect()  *)
(* sends one, and every cycle after it another.                            *)
OldestOf(n, S) == {x \in S : Cardinality({y \in S : y.ts < x.ts}) < n}
Sent(u) == [rows |-> OldestOf(Batch, backlog[u].rows),
            events |-> OldestOf(Batch, backlog[u].events)]
Unsent(u) == [rows |-> backlog[u].rows \ Sent(u).rows,
              events |-> backlog[u].events \ Sent(u).events]

NetUp ==
    /\ \E u \in Units \ net :
           /\ net' = net \cup {u}
           /\ rows' = [rows EXCEPT ![u] = @ \cup Sent(u).rows]
           /\ events' = [events EXCEPT ![u] = @ \cup Sent(u).events]
           /\ backlog' = [backlog EXCEPT ![u] = Unsent(u)]
    /\ UNCHANGED <<now, at, hrs, last, since, was, link, cards, body, work>>

(* The agent's cycle: a row, or after a minute of silence the event 256;   *)
(* an event whenever the code changes.  What is new goes out at once, or   *)
(* to the buffer; then a batch of what was buffered follows it.            *)
Answers(u) == at[u] \notin {Silent, Off}
SilentSince(u, t) == IF at[u] # Silent THEN Null ELSE IF since[u] = Null THEN t ELSE since[u]
Code(u, t) ==
    IF Answers(u) THEN at[u].err
    ELSE IF at[u] = Silent /\ u \in Linked /\ t - SilentSince(u, t) >= Fresh THEN NoReply
    ELSE last[u]

NewRows(u, t) == IF Answers(u) THEN {Row(t, at[u], hrs'[u])} ELSE {}
NewEvents(u, t) == EventOf(t, Code(u, t), last[u])
NewLink(u, t) ==
    IF u \notin Linked \cap net \/ at[u] = Off THEN link[u]
    ELSE Link(IF Answers(u) THEN "ok" ELSE "down", SilentSince(u, t), t)

Tick ==
    /\ now < MaxTime /\ now' = now + 1
    /\ hrs' = [u \in Units |-> IF Answers(u) /\ at[u].on THEN hrs[u] + 1 ELSE hrs[u]]
    /\ since' = [u \in Units |-> SilentSince(u, now')]
    /\ last' = [u \in Units |-> Code(u, now')]
    /\ was' = [u \in Units |-> Append(was[u], at[u])]
    /\ rows' = [u \in Units |->
                    IF u \in net THEN rows[u] \cup NewRows(u, now') \cup Sent(u).rows ELSE rows[u]]
    /\ events' = [u \in Units |->
                    IF u \in net THEN events[u] \cup NewEvents(u, now') \cup Sent(u).events
                    ELSE events[u]]
    /\ backlog' = [u \in Units |->
                    IF u \in net THEN Unsent(u)
                    ELSE [rows |-> backlog[u].rows \cup NewRows(u, now'),
                          events |-> backlog[u].events \cup NewEvents(u, now')]]
    /\ link' = [u \in Units |-> NewLink(u, now')]
    /\ UNCHANGED <<at, net, cards, body, work>>

-----------------------------------------------------------------------------
(* The cards: polls that keep what they had when they fail.                *)

ListUnits ==
    /\ page = "dashboard"
    /\ units' = UnitsFlux(rows, now)
    /\ UNCHANGED <<device, cloud, cache, body, work>>

(* The queries of a page run while it is open; those of Alerts are of all  *)
(* the units it may select.                                                *)
Polled ==
    CASE page = "dashboard" -> IF units = Null THEN {} ELSE units
      [] page = "alerts" -> list
      [] page \in {"maintenance", "log", "telemetry"} -> {sel}
      [] OTHER -> {}

(* The read of the link may fail alone; the answer then has none.  A first *)
(* poll that fails leaves no data; one that answers without a row and a    *)
(* link leaves Null.                                                       *)
ReadLink(u) == {link[u], Null}
PollLatest ==
    /\ Work
    /\ \E u \in Polled :
           \/ \E l \in ReadLink(u) :
                  cache' = [cache EXCEPT ![u] =
                      [pending |-> FALSE, known |-> TRUE,
                       tele |-> LatestWithLink(GetLatest(rows[u], l, now))]]
           \/ cache[u].pending /\ cache' = [cache EXCEPT ![u].pending = FALSE]
    /\ UNCHANGED <<device, cloud, units, body>>

-----------------------------------------------------------------------------
(* The pages that fetch for themselves.                                    *)

(* Alerts and History drop the answers of an earlier selection (`live`),   *)
(* the unit's tabs keep them apart by their key; Maintenance and Reports   *)
(* take whatever arrives last.                                             *)
TakesAny(p) == p \in {"maintenance", "reports"}

(* Mutant: the cleanup of the effect is missing.                           *)
MutantStillAwaited(p) == reqs

StillAwaited(p) == IF TakesAny(p) THEN reqs ELSE {}

Request(k, others) ==
    [n |-> Min(1 .. Cardinality(others) + 1 \ {r.n : r \in others}), key |-> k]

Fetch(k) ==
    /\ key' = k
    /\ reqs' = StillAwaited(page) \cup {Request(k, StillAwaited(page))}
    /\ shown' = IF TakesAny(page) THEN shown ELSE Null
    /\ loading' = TRUE /\ failed' = FALSE

KeyAtOpen(p) ==
    CASE p = "alerts" -> AllUnits(UnitsFlux(rows, now))
      [] p \in {"history", "telemetry"} -> KeyOf({sel}, Day)
      [] p = "reports" -> KeyOf(All, Week)
      [] OTHER -> KeyOf({sel}, Week)

(* A page is left with all it had; a record being saved may be saved.  The *)
(* user has a fleet role: Alerts opens with the whole fleet.               *)
Open ==
    /\ Work
    /\ page' \in Pages
    /\ list' = UnitsFlux(rows, now)
    /\ key' = KeyAtOpen(page')
    /\ reqs' = {Request(key', {})} /\ shown' = Null
    /\ loading' = TRUE /\ failed' = FALSE /\ raced' = FALSE
    /\ posting' = Null
    /\ recorded' \in {recorded, IF posting = Null THEN recorded ELSE recorded \cup {posting}}
    /\ UNCHANGED <<device, cloud, cards, sel>>

SelectUnit ==
    /\ Work /\ page \in {"alerts", "history", "maintenance"}
    /\ \E u \in list :
           key # KeyOf({u}, key.range) /\ sel' = u /\ Fetch(KeyOf({u}, key.range))
    /\ UNCHANGED <<device, cloud, cards, page, list, posting, raced, recorded>>

(* On Alerts the scope may be the fleet again; the selected unit stays.    *)
SelectAll ==
    /\ Work /\ page = "alerts" /\ ~key.all
    /\ Fetch(AllUnits(list))
    /\ UNCHANGED <<device, cloud, cards, page, sel, list, posting, raced, recorded>>

SelectRange ==
    /\ Work /\ page \in {"history", "reports", "telemetry"}
    /\ \E range \in {Day, Week} \ {key.range} : Fetch(KeyOf(key.units, range))
    /\ UNCHANGED <<device, cloud, cards, page, sel, list, posting, raced, recorded>>

Refresh ==
    /\ Work /\ page = "reports" /\ ~loading
    /\ Fetch(key)
    /\ UNCHANGED <<device, cloud, cards, page, sel, list, posting, raced, recorded>>

Submit ==
    /\ Work /\ page = "maintenance" /\ posting = Null
    /\ posting' = sel
    /\ UNCHANGED <<device, cloud, cards, page, sel, list, key, shown, reqs, loading, failed,
                   raced, recorded>>

(* The saved record is followed by the fetch the form was rendered with:   *)
(* of the unit selected then.                                              *)
Submitted ==
    /\ posting # Null
    /\ posting' = Null
    /\ \/ /\ recorded' = recorded \cup {posting}
          /\ reqs' = reqs \cup {Request(KeyOf({posting}, Week), reqs)}
          /\ loading' = TRUE
       \/ UNCHANGED <<recorded, reqs, loading>>
    /\ UNCHANGED <<device, cloud, cards, page, sel, list, key, shown, failed, raced, work>>

(* What the API reads when it answers.                                     *)
GetFaults(u, range) == FaultsFlux(events[u], now, range, 100)
GetTelemetry(u, range) == TelemetryFlux(rows[u], now, range, 2)
GetTelemetrySeries(u, range) == BucketMeans(SeriesFlux(rows[u], now, range, 2), now, range, 2)
GetMaintenance(u) == {u} \cap recorded
GetReports(range) == BuildReports(rows, events, now, range)

Content(k) ==
    CASE page = "alerts" -> [faults |-> [u \in k.units |-> GetFaults(u, Week)]]
      [] page = "maintenance" -> [none |-> \A u \in k.units : GetMaintenance(u) = {}]
      [] page = "reports" -> [none |-> ZeroRuntime(GetReports(k.range))]
      [] page = "telemetry" ->
            [none |-> \A u \in k.units : LET m == GetTelemetrySeries(u, k.range)
                                         IN  \A b \in DOMAIN m : m[b] = Null]
      [] OTHER -> [none |-> \A u \in k.units : GetFaults(u, k.range) = {}]

(* Alerts waits for all units, the failed ones are noted.                  *)
Partly(c) ==
    {[faults |-> [u \in DOMAIN c.faults |-> IF u \in bad THEN Null ELSE c.faults[u]]] :
        bad \in SUBSET DOMAIN c.faults}

Answer ==
    /\ \E r \in reqs :
           /\ reqs' = reqs \ {r}
           /\ \E c \in IF page = "alerts" THEN Partly(Content(r.key)) ELSE {Content(r.key)} :
                  shown' = [key |-> r.key, content |-> c]
           /\ raced' = (reqs' # {} \/ r.key # key)
    /\ loading' = FALSE
    /\ UNCHANGED <<device, cloud, cards, page, sel, list, key, failed, posting, recorded, work>>

Fail ==
    /\ page # "alerts"
    /\ \E r \in reqs : reqs' = reqs \ {r}
    /\ loading' = FALSE /\ failed' = TRUE
    /\ UNCHANGED <<device, cloud, cards, page, sel, list, key, shown, posting, raced, recorded,
                   work>>

-----------------------------------------------------------------------------

Next ==
    \/ Change \/ ResetHours \/ NetDown \/ NetUp \/ Tick
    \/ ListUnits \/ PollLatest
    \/ Open \/ SelectUnit \/ SelectAll \/ SelectRange \/ Refresh \/ Submit \/ Submitted
    \/ Answer \/ Fail

Spec == Init /\ [][Next]_vars

-----------------------------------------------------------------------------
(* What the pages show.                                                    *)

(* The Dashboard: the sections of its cards; the tiles wait for all cards. *)
ViewOf(u) == IF cache[u].pending THEN Null ELSE UnitView(cache[u].tele, now)
Dashboard ==
    LET loaded == {u \in units : ViewOf(u) # Null}
    IN  [needs |-> {u \in loaded : ViewOf(u).attention},
         normal |-> {u \in loaded : ~ViewOf(u).attention},
         pending |-> units \ loaded,
         tiles |-> IF loaded = units THEN ToneCounts([u \in units |-> ViewOf(u)]) ELSE Null]

(* Fleet map: the side lists, and the tone of a pin.                       *)
MapSide == OrderMapRows(units, Located)
Pins == [u \in MapSide.placed |-> IF ViewOf(u) = Null THEN "off" ELSE ViewOf(u).tone]

(* Alerts: the rows of the table; in allMode why a fault may be old news,  *)
(* when there is an answer to tell; and whether the page says that there   *)
(* is none: for one unit not after a failure.                              *)
AlertRows == FleetFaultRows(shown.content.faults)
StaleNote(u) ==
    IF ~key.all \/ cache[u].pending \/ ~cache[u].known THEN Null
    ELSE LET v == UnitView(cache[u].tele, now)
         IN  IF ~v.stale THEN Null ELSE IF v.status = "No APU data" THEN v.status ELSE "Unit offline"
NoActiveFaults ==
    /\ \A u \in DOMAIN AlertRows.active : AlertRows.active[u] = {}
    /\ ~key.all => AlertRows.failed = {}

(* The pages that say in words that there is nothing.                      *)
MaintenanceEmpty == ~loading /\ (shown = Null \/ shown.content.none)
NoRuntime == shown # Null /\ shown.content.none
NoFaultEvents == shown # Null /\ shown.content.none
NoFaultLog == ~loading /\ (shown = Null \/ shown.content.none)
NoReadings == ~loading /\ (shown = Null \/ shown.content.none)
SaysNone ==
    \/ page = "maintenance" /\ MaintenanceEmpty
    \/ page = "reports" /\ NoRuntime
    \/ page = "history" /\ NoFaultEvents
    \/ page = "log" /\ NoFaultLog
    \/ page = "telemetry" /\ NoReadings

-----------------------------------------------------------------------------
(* Properties.                                                             *)

Recently(u) == {was[u][t] : t \in {s \in DOMAIN was[u] : now - s <= Fresh}}
Trouble(c) == c.err \notin {0, 7} \/ c.batt < 120 \/ ~c.oil
UpToDate(u) ==
    ~cache[u].pending /\ cache[u].known /\ cache[u].tele = LatestWithLink(GetLatest(rows[u], link[u], now))
Reported(u) == \E r \in rows[u] : now - r.ts <= Fresh

(* A card never claims more than the fleet has shown within a minute, by   *)
(* whatever polls were lost: Fault, Warning, Standby and Running are of a  *)
(* unit that was so, No APU data of one whose controller was silent, and   *)
(* an up-to-date card is Offline only when nothing came.  It asks for      *)
(* attention just when there is trouble (or no news of the unit), and a    *)
(* start is offered only of a unit that reported -- or, on the Remote tab, *)
(* of one the browser has no data of (contract.js:209-270,                 *)
(* flux.js:20-35, RemoteControlTab.jsx:16).                                *)
CardTells ==
    \A u \in Units : ViewOf(u) # Null =>
        LET v == ViewOf(u)
            tele == cache[u].tele
            so == Recently(u) \ {Silent, Off}
        IN  /\ v.status = "Fault" => \E c \in so : c.err = tele.row.err /\ c.err \notin {0, 7}
            /\ v.status = "Warning" => \E c \in so : c.err \in {0, 7} /\ Trouble(c)
            /\ v.status = "Running" => \E c \in so : c.on /\ ~Trouble(c)
            /\ v.status = "Standby" => \E c \in so : (~c.on \/ c.err = 7) /\ ~Trouble(c)
            /\ v.status = "No APU data" => Silent \in Recently(u)
            /\ UpToDate(u) /\ v.status \in {"Offline", "No data"} => ~Reported(u)
            /\ OverviewStarts(tele, now) # {} => so # {}
            /\ RemoteStarts(tele, now) # {} => so # {} \/ tele = Null
            /\ units # Null /\ u \in Dashboard.normal /\ UpToDate(u) =>
                   IF Reported(u) THEN ~Trouble(tele.row) ELSE v.status = "No data"

(* While a buffer is sent in batches, a row may be in the cloud before an  *)
(* event as old, or an event before a row.                                 *)
Overtaken(u) ==
    \/ \E y \in backlog[u].events, x \in rows[u] : y.ts <= x.ts
    \/ \E y \in backlog[u].rows, x \in events[u] : y.ts <= x.ts

(* Alerts and the cards of the same moment tell the same story of a unit   *)
(* whose buffer is not just being sent: a card's fault is the unit's       *)
(* newest event and, when that is no older than the seven days Alerts asks *)
(* for, an active fault there; an active fault is on the card, or the card *)
(* has no current data of the unit.  In allMode the row of the fault says  *)
(* so just then; with one unit selected the page has no such note, and the *)
(* fault of a unit that is offline or silent is listed without a reason.   *)
(* A fault that stands for longer than a week is on the card alone         *)
(* (AlertsPage.jsx:64-89, 118-176).                                        *)
PagesAgree ==
    page = "alerts" /\ shown # Null =>
        LET told == {u \in DOMAIN AlertRows.active :
                        /\ UpToDate(u) /\ ~Overtaken(u)
                        /\ shown.content.faults[u] = GetFaults(u, Week)}
            faulty == {u \in told : ViewOf(u).status = "Fault"}
            newest(u) == NewestOf(1, events[u])
            old == {u \in faulty : \A e \in newest(u) : now - e.ts > Week}
        IN  /\ \A u \in faulty : \E e \in newest(u) :
                   /\ e.code = cache[u].tele.row.err
                   /\ u \notin old => e \in AlertRows.active[u]
            /\ \A u \in told : \A e \in AlertRows.active[u] :
                   /\ ViewOf(u).stale \/ (ViewOf(u).status = "Fault" /\ e.code # NoReply)
                   /\ key.all => (StaleNote(u) # Null <=> ViewOf(u).stale)
            /\ NoActiveFaults => faulty = old
            /\ LET counts == SeverityCounts(AlertRows)
               IN  counts["err"] + counts["warn"] >= Cardinality(faulty \ old)

(* What a page shows, and what it says is missing, is the answer for what  *)
(* is selected.  Two pages show another unit's records or another period's *)
(* figures while they load, after a failed fetch and when answers overtook *)
(* each other; two say there is nothing after a fetch that failed          *)
(* (MaintenancePage.jsx:68-103, ReportsPage.jsx:19-26,                     *)
(* APUHistoryPage.jsx:33-47, AlertsPage.jsx:65-77).                        *)
AnswersSelected ==
    /\ shown # Null /\ shown.key # key => TakesAny(page) /\ (loading \/ raced \/ failed)
    /\ SaysNone =>
           \/ shown # Null /\ shown.key = key /\ shown.content.none
           \/ failed \/ raced \/ (loading /\ page = "reports")

(* The figures are those of the rows, however the tags split them into     *)
(* series: a bucket's mean is over all its rows, a period's faults are its *)
(* onsets, its hours are no more than the engine ran, every location is on *)
(* the map or among the orphans (series-view.js:13-37,                     *)
(* reports-view.js:19-60, locations.js:26-42).                             *)
FiguresAddUp ==
    /\ page = "telemetry" =>
           \A u \in Units :
               LET all == InRange(rows[u], now, Week)
                   series == GetTelemetrySeries(u, Week)
               IN  /\ GetTelemetry(u, Week) = NewestOf(2, all)
                   /\ \A r \in all :
                          LET same == {q \in all : q.ts \div 2 = r.ts \div 2}
                          IN  series[r.ts \div 2] =
                                  [sum |-> MapThenSumSet(LAMBDA q : q.batt, same),
                                   count |-> Cardinality(same)]
    /\ page = "reports" =>
           \A range \in {Day, Week} :
               LET report == GetReports(range)
                   ran(u) == Cardinality({t \in DOMAIN was[u] :
                       now - t <= range /\ was[u][t] \notin {Silent, Off} /\ was[u][t].on})
                   onsets(u) == {e \in events[u] : now - e.ts <= range /\ e.code \notin {0, 7}}
               IN  /\ report.runtime <= MapThenSumSet(ran, Units)
                   /\ report.faults = MapThenSumSet(LAMBDA u : Cardinality(onsets(u)), Units)
    /\ units # Null =>
           LET d == Dashboard
           IN  /\ d.tiles # Null => MapThenSumSet(LAMBDA t : d.tiles[t], DOMAIN d.tiles) = Cardinality(units)
               /\ Located = DOMAIN Pins \cup OrphanLocations(units, Located)
               /\ units = DOMAIN Pins \cup MapSide.unplaced
=============================================================================
