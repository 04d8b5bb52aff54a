--------------------------- MODULE TelemetryViews ---------------------------
(***************************************************************************)
(* What the dashboard makes of the stored telemetry, the fault events and  *)
(* the shadow's APU-link report of a unit: the Flux queries and folders of *)
(* the API (flux.js, series-view.js, reports-view.js, link-view.js) and    *)
(* the view model of the pages (contract.js).  No state; FleetViews is the *)
(* state machine around it.                                                *)
(*                                                                         *)
(* A row is [ts, err, batt, oil, on, mode, hrs]: error_n, batt_v in tenths *)
(* of a volt, oil_ok, engine running, mode, engine_hrs.  An event is       *)
(* [ts, code, state].  A link is [apu, since, hb].  What a page holds of a *)
(* unit is `tele`: Null or [row, link], either of them Null.  Time is      *)
(* counted in reports of the unit; the clocks of units, cloud and browser  *)
(* agree.                                                                  *)
(***************************************************************************)
EXTENDS Integers, FiniteSets, FiniteSetsExt

CONSTANTS
    Units,          \* the units of the fleet
    Null,           \* no value
    Fresh,          \* 60 s: how long a report is current
    Day,            \* 24 h: the range of /latest
    Week            \* 7 days: the range of the unit list and of Alerts

ASSUME ViewsAssumption ==
    {Fresh, Day, Week} \subseteq Nat /\ Fresh < Day /\ Day < Week

-----------------------------------------------------------------------------
(* The queries (flux.js).  Enum fields are tags: each combination of them  *)
(* is a series of its own, and a query starts from all of them.            *)

Tags(r) == <<r.mode, r.on, r.err>>
Series(rows) == {{r \in rows : Tags(r) = t} : t \in {Tags(r) : r \in rows}}

InRange(S, now, range) == {x \in S : now - x.ts <= range}
NewestOf(n, S) == {x \in S : Cardinality({y \in S : y.ts > x.ts}) < n}

(* tail(n) of each series, then group, sort and limit on the merged table. *)
TelemetryFlux(rows, now, range, n) ==
    NewestOf(n, UNION {NewestOf(n, s) : s \in Series(InRange(rows, now, range))})

(* Mutant: sort and limit run per series; the first table is any of them.  *)
MutantLatestFlux(rows, now) ==
    LET in == InRange(rows, now, Day)
    IN  IF in = {} THEN {} ELSE NewestOf(1, CHOOSE s \in Series(in) : TRUE)

LatestFlux(rows, now) ==
    NewestOf(1, UNION {NewestOf(1, s) : s \in Series(InRange(rows, now, Day))})

FaultsFlux(events, now, range, n) == NewestOf(n, InRange(events, now, range))

(* A unit silent for longer than a week drops off the list.                *)
UnitsFlux(rowsOf, now) == {u \in Units : InRange(rowsOf[u], now, Week) # {}}

-----------------------------------------------------------------------------
(* The folders.                                                            *)

(* The sum and the count of a field, per series and bucket.                *)
SeriesFlux(rows, now, range, every) ==
    {[at |-> b, tags |-> t,
      sum |-> MapThenSumSet(LAMBDA r : r.batt, {r \in s : r.ts \div every = b /\ Tags(r) = t}),
      count |-> Cardinality({r \in s : r.ts \div every = b /\ Tags(r) = t})] :
        b \in 0 .. (now \div every), t \in {Tags(r) : r \in rows},
        s \in {InRange(rows, now, range)}}

(* Mutant: the partial of another series replaces the one before it.       *)
MutantBucketMeans(partials, now, range, every) ==
    [b \in ((now - range) \div every) .. (now \div every) |->
        LET here == {p \in partials : p.at = b /\ p.count > 0}
        IN  IF here = {} THEN Null ELSE CHOOSE m \in {[sum |-> p.sum, count |-> p.count] : p \in here} : TRUE]

(* The mean of a bucket is sum over count; Null: a gap.                    *)
BucketMeans(partials, now, range, every) ==
    [b \in ((now - range) \div every) .. (now \div every) |->
        LET here == {p \in partials : p.at = b}
            n == MapThenSumSet(LAMBDA p : p.count, here)
        IN  IF n = 0 THEN Null
            ELSE [sum |-> MapThenSumSet(LAMBDA p : p.sum, here), count |-> n]]

(* The events whose `active` is true: onsets, not clears.                  *)
FaultCountFlux(events, now, range) ==
    Cardinality({e \in InRange(events, now, range) : e.state = "active"})

(* The hours of a unit are last - first of its counter, never negative.    *)
BuildReports(rowsOf, eventsOf, now, range) ==
    LET in(u) == InRange(rowsOf[u], now, range)
        last(u) == CHOOSE r \in in(u) : \A q \in in(u) : q.ts <= r.ts
        first(u) == CHOOSE r \in in(u) : \A q \in in(u) : q.ts >= r.ts
        accrued(u) == IF in(u) = {} \/ last(u).hrs < first(u).hrs THEN 0
                      ELSE last(u).hrs - first(u).hrs
        runtime == MapThenSumSet(accrued, Units)
        faults == MapThenSumSet(LAMBDA u : FaultCountFlux(eventsOf[u], now, range), Units)
    IN  [runtime |-> runtime, faults |-> faults,
         mtbf |-> IF faults > 0 THEN runtime \div faults ELSE runtime]

ZeroRuntime(report) == report.runtime = 0

(* GET /latest: the newest snapshot of the day, and the link report.       *)
GetLatest(rows, link, now) ==
    LET row == LatestFlux(rows, now)
    IN  [row |-> IF row = {} THEN Null ELSE CHOOSE r \in row : TRUE, link |-> link]

LatestWithLink(d) == IF d.row = Null /\ d.link = Null THEN Null ELSE d

-----------------------------------------------------------------------------
(* The view model of the pages (contract.js).                              *)

STANDBY == 7
NoReply == 256
Critical == {1, 2, 4, 5, 6, 8, 9, 10, NoReply}

IsStandby(r) == r.err = STANDBY
HasFault(r) == r.err # 0 /\ ~IsStandby(r)
FaultInfo(e) == IF e.code \in Critical THEN "err" ELSE "warn"

IsStale(tele, now) ==
    tele = Null \/ tele.row = Null \/ now - tele.row.ts > Fresh

(* The unit reports, its APU controller does not answer.                   *)
ApuSilent(tele, now) ==
    /\ tele # Null /\ tele.link # Null
    /\ tele.link.apu = "down" /\ now - tele.link.hb <= Fresh

View(tone, status, stale, attention) ==
    [tone |-> tone, status |-> status, stale |-> stale, attention |-> attention]

(* What the newest row says of a unit that reports.                        *)
RowView(r) ==
    IF HasFault(r) THEN View("err", "Fault", FALSE, TRUE)
    ELSE IF r.batt < 120 \/ ~r.oil THEN View("warn", "Warning", FALSE, TRUE)
    ELSE IF IsStandby(r) \/ ~r.on THEN View("ok", "Standby", FALSE, FALSE)
    ELSE View("ok", "Running", FALSE, FALSE)

NoRow(tele) ==
    IF tele = Null \/ tele.row = Null THEN View("off", "No data", TRUE, FALSE)
    ELSE View("off", "Offline", TRUE, TRUE)

(* Staleness outranks everything else; No data asks for no attention.      *)
UnitView(tele, now) ==
    IF ~IsStale(tele, now) THEN RowView(tele.row)
    ELSE IF ApuSilent(tele, now) THEN View("err", "No APU data", TRUE, TRUE)
    ELSE NoRow(tele)

(* The tiles of the Dashboard.                                             *)
ToneCounts(views) ==
    [t \in {"err", "warn", "off", "ok"} |-> Cardinality({u \in DOMAIN views : views[u].tone = t})]

(* The starts a unit is offered: Overview shows no button without data,    *)
(* the Remote tab takes a unit without data for one that reports.          *)
Starts(tele, offline) ==
    IF offline THEN {} ELSE {"climate", "battery"} \
        (IF tele = Null \/ tele.row = Null THEN {} ELSE {tele.row.mode})
OverviewStarts(tele, now) ==
    IF tele = Null THEN {} ELSE Starts(tele, UnitView(tele, now).stale)
RemoteStarts(tele, now) == Starts(tele, tele # Null /\ IsStale(tele, now))

(* Mutant: whatever was raised and is in the log is taken for active.      *)
MutantActiveFaults(events) == {e \in events : e.state = "active"}

(* One code at a time: the newest event is the state of the unit.          *)
ActiveFaults(events) ==
    {e \in NewestOf(1, events) : e.state = "active" /\ e.code \notin {0, STANDBY}}

(* The rows of the Alerts page, of the units whose answer came: Null for a *)
(* request that failed.                                                    *)
FleetFaultRows(results) ==
    LET loaded == {u \in DOMAIN results : results[u] # Null}
    IN  [active |-> [u \in loaded |-> ActiveFaults(results[u])],
         failed |-> DOMAIN results \ loaded]

SeverityCounts(rows) ==
    [t \in {"err", "warn"} |->
        Cardinality({u \in DOMAIN rows.active : \E e \in rows.active[u] : FaultInfo(e) = t})]

(* Map side list: units with a place, without one, places without a unit.  *)
OrderMapRows(units, located) == [placed |-> units \cap located, unplaced |-> units \ located]
OrphanLocations(units, located) == located \ units
=============================================================================
