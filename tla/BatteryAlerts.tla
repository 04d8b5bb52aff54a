---------------------------- MODULE BatteryAlerts ----------------------------
(***************************************************************************)
(* The low-battery rule.  Every telemetry reading of a unit is an          *)
(* invocation of the ingest Lambda, which stores the reading, loads the    *)
(* unit's alert record, steps the rule (stepBattery) and saves the record  *)
(* under its version; only an invocation whose save wins sends the email   *)
(* the rule asked for.  Invocations for one unit overlap, lose the race,   *)
(* fail and are killed.                                                    *)
(*                                                                         *)
(* The voltage is counted in steps of the unit's resolution, the time in   *)
(* ticks of which HoldMs and DailyMs are multiples.  A Lambda is killed    *)
(* after 30 s, far less than a tick: an invocation sees one tick at most.  *)
(***************************************************************************)
EXTENDS Integers, Sequences

CONSTANTS
    Workers,                    \* Lambda instances
    Volts,                      \* levels of batt_v
    Readings,                   \* <<batt_v or null, age of its timestamp>>
    LowV, StepV,                \* the thresholds
    HoldMs, DailyMs, ReplayMs,  \* the durations
    MaxNow,                     \* bound: the clock
    MaxReadings,                \* bound: invocations
    MaxStops                    \* bound: failures

ASSUME ReadingsAssumption ==
    /\ Volts \subseteq Nat /\ LowV \in Nat
    /\ StepV \in Nat \ {0}
    /\ Readings \subseteq (Volts \union {-1}) \X Nat

ASSUME DurationsAssumption ==
    /\ HoldMs \in Nat \ {0} /\ DailyMs \in Nat /\ ReplayMs \in Nat
    /\ HoldMs <= DailyMs

ASSUME BoundsAssumption ==
    MaxNow \in Nat /\ MaxReadings \in Nat /\ MaxStops \in Nat

\* An instance is no outcome of an email.
ASSUME WorkersAssumption ==
    Workers \intersect {"mailed", "logged", "stopped", "unanswered"} = {}

VARIABLES
    now,        \* arrival time
    rec,        \* the unit's item in the battery-alerts table
    call,       \* what each Lambda instance is doing
    decided,    \* emails decided by a winning save, and what became of them
    lastOk,     \* when the last counted reading at or above LowV arrived
    readings, stops

vars == <<now, rec, call, decided, lastOk, readings, stops>>

None == -1                      \* null

Initial ==
    [alerting |-> FALSE, lastV |-> None, lastSent |-> None,
     runKind |-> "none", runSince |-> None, runMax |-> None]

NoEmail == [kind |-> "none", v |-> None]

Idle == [pc |-> "idle", v |-> None, age |-> 0, at |-> None,
         ver |-> 0, old |-> Initial, next |-> Initial, email |-> NoEmail]

-----------------------------------------------------------------------------
(* The rule: stepBattery                                                   *)

MutantCondition(s, v) ==
    IF ~s.alerting THEN (IF v <= LowV THEN "low" ELSE "none")
    ELSE IF v <= s.lastV - StepV THEN "lower"
    ELSE IF v >= LowV THEN "high" ELSE "none"

(* conditionOf: the condition a reading meets.                             *)
Condition(s, v) ==
    IF ~s.alerting THEN (IF v < LowV THEN "low" ELSE "none")
    ELSE IF v <= s.lastV - StepV THEN "lower"
    ELSE IF v >= LowV THEN "high" ELSE "none"

MaxV(a, b) == IF a >= b THEN a ELSE b

EndRun(s) == [s EXCEPT !.runKind = "none", !.runSince = None, !.runMax = None]

(* The daily reminder: only an ordinary still-low reading gets it out.     *)
Reminder(s, v, t) ==
    [next |-> [EndRun(s) EXCEPT !.lastV = v, !.lastSent = t],
     email |-> [kind |-> "daily", v |-> v]]

MutantNewRun(s, kind, v, t) ==
    [next |-> [s EXCEPT !.runKind = kind, !.runSince = t, !.runMax = v],
     email |-> NoEmail]

(* The reading ends the run under way, and begins one if it meets another. *)
NewRun(s, kind, v, t) ==
    [next |-> IF kind = "none" THEN EndRun(s)
              ELSE [s EXCEPT !.runKind = kind, !.runSince = t, !.runMax = v],
     email |-> NoEmail]

MutantHold(s, kind, v, t) ==
    LET top == MaxV(s.runMax, v) IN
    IF kind = "high" THEN [next |-> Initial, email |-> [kind |-> "recovered", v |-> top]]
    ELSE [next |-> [EndRun(s) EXCEPT !.alerting = TRUE, !.lastV = top, !.lastSent = t],
          email |-> [kind |-> kind, v |-> top]]

(* A reading meets the condition of the run under way: the run is not yet  *)
(* long enough, or it completes and reports its highest reading.           *)
Hold(s, kind, v, t) ==
    LET top == MaxV(s.runMax, v) IN
    IF t - s.runSince < HoldMs
    THEN [next |-> [s EXCEPT !.runMax = top], email |-> NoEmail]
    ELSE IF kind = "high"
    THEN [next |-> Initial, email |-> [kind |-> "recovered", v |-> top]]
    ELSE [next |-> [EndRun(s) EXCEPT !.alerting = TRUE, !.lastV = top, !.lastSent = t],
          email |-> [kind |-> kind, v |-> top]]

(* A reading without a number, or replayed from the offline buffer.        *)
Skipped(v, age) == v = None \/ age > ReplayMs

Step(s, v, age, t) ==
    LET kind == Condition(s, v) IN
    IF Skipped(v, age) THEN [next |-> s, email |-> NoEmail]
    ELSE IF s.alerting /\ kind = "none" /\ t - s.lastSent >= DailyMs
    THEN Reminder(s, v, t)
    ELSE IF kind # s.runKind THEN NewRun(s, kind, v, t)
    ELSE IF kind # "none" THEN Hold(s, kind, v, t)
    ELSE [next |-> s, email |-> NoEmail]

-----------------------------------------------------------------------------

Init ==
    /\ now = 0
    /\ rec = [ver |-> 0, s |-> Initial]             \* version 0: no item yet
    /\ call = [w \in Workers |-> Idle]
    /\ decided = <<>> /\ lastOk = None
    /\ readings = 0 /\ stops = 0

-----------------------------------------------------------------------------
(* The ingest Lambda                                                       *)

Tick ==
    /\ now < MaxNow /\ now' = now + 1
    /\ \A w \in Workers : call[w].pc # "idle" => call[w].at = now
    /\ UNCHANGED <<rec, call, decided, lastOk, readings, stops>>

(* A message of age age is stored in InfluxDB; then Date.now() is read.    *)
Arrive(w, v, age) ==
    /\ call[w].pc = "idle" /\ readings < MaxReadings
    /\ readings' = readings + 1
    /\ call' = [call EXCEPT ![w] = [Idle EXCEPT !.pc = "load", !.v = v, !.age = age, !.at = now]]
    /\ UNCHANGED <<now, rec, decided, lastOk, stops>>

(* loadState and the rule; a rule that changes nothing ends the matter.    *)
Load(w) ==
    LET c == call[w]
        r == Step(rec.s, c.v, c.age, c.at)
    IN  /\ c.pc = "load"
        /\ call' = [call EXCEPT ![w] =
               IF r.next = rec.s THEN Idle
               ELSE [c EXCEPT !.pc = "save", !.ver = rec.ver, !.old = rec.s,
                              !.next = r.next, !.email = r.email]]
        /\ UNCHANGED <<now, rec, decided, lastOk, readings, stops>>

MutantUnversioned(w) == TRUE

(* The condition of the put: the record is the one that was loaded.        *)
Wins(w) == rec.ver = call[w].ver

(* The put, and what becomes of the email it entitles the winner to.       *)
Put(w, fate) ==
    LET c == call[w] IN
    /\ rec' = [ver |-> c.ver + 1, s |-> c.next]
    /\ decided' = IF c.email = NoEmail THEN decided
                  ELSE Append(decided, [kind |-> c.email.kind, v |-> c.email.v,
                                        at |-> c.at, fate |-> fate])
    /\ lastOk' = IF c.v >= LowV /\ c.at > lastOk THEN c.at ELSE lastOk

Save(w) ==
    /\ call[w].pc = "save" /\ Wins(w)
    /\ Put(w, w)
    /\ call' = [call EXCEPT ![w] =
           IF call[w].email = NoEmail THEN Idle ELSE [@ EXCEPT !.pc = "mail"]]
    /\ UNCHANGED <<now, readings, stops>>

(* Another invocation saved in between: this one's reading is dropped.     *)
LoseRace(w) ==
    /\ call[w].pc = "save" /\ ~Wins(w)
    /\ call' = [call EXCEPT ![w] = Idle]
    /\ UNCHANGED <<now, rec, decided, lastOk, readings, stops>>

(* The put lands and its answer is lost: the SDK repeats it (maxAttempts   *)
(* 2), its own version fails the condition, and saveState takes that for a *)
(* lost race.                                                              *)
SaveUnanswered(w) ==
    /\ call[w].pc = "save" /\ Wins(w) /\ stops < MaxStops
    /\ stops' = stops + 1
    /\ Put(w, "unanswered")
    /\ call' = [call EXCEPT ![w] = Idle]
    /\ UNCHANGED <<now, readings>>

Settle(w, fate) ==
    decided' = [i \in DOMAIN decided |->
        IF decided[i].fate = w THEN [decided[i] EXCEPT !.fate = fate] ELSE decided[i]]

(* sendAlert returns: every copy went out.                                 *)
Mail(w) ==
    /\ call[w].pc = "mail"
    /\ call' = [call EXCEPT ![w] = Idle]
    /\ Settle(w, "mailed")
    /\ UNCHANGED <<now, rec, lastOk, readings, stops>>

MutantMailFailsUnlogged(w) ==
    /\ call[w].pc = "mail" /\ stops < MaxStops
    /\ stops' = stops + 1
    /\ call' = [call EXCEPT ![w] = Idle]
    /\ UNCHANGED <<now, rec, decided, lastOk, readings>>

(* sendAlert throws or some copies fail: logged as ALERT EMAIL FAILED.     *)
MailFails(w) ==
    /\ call[w].pc = "mail" /\ stops < MaxStops
    /\ stops' = stops + 1
    /\ call' = [call EXCEPT ![w] = Idle]
    /\ Settle(w, "logged")
    /\ UNCHANGED <<now, rec, lastOk, readings>>

(* The table does not answer, or the instance is killed.                   *)
Stop(w) ==
    /\ call[w].pc # "idle" /\ stops < MaxStops
    /\ stops' = stops + 1
    /\ call' = [call EXCEPT ![w] = Idle]
    /\ Settle(w, "stopped")
    /\ UNCHANGED <<now, rec, lastOk, readings>>

-----------------------------------------------------------------------------

Next ==
    \/ Tick
    \/ \E w \in Workers :
        \/ \E r \in Readings : Arrive(w, r[1], r[2])
        \/ Load(w)
        \/ Save(w)
        \/ LoseRace(w)
        \/ SaveUnanswered(w)
        \/ Mail(w)
        \/ MailFails(w)
        \/ Stop(w)

Spec == Init /\ [][Next]_vars

-----------------------------------------------------------------------------
(* Properties                                                              *)

Kinds == {"low", "lower", "high"}
Emails == {"low", "lower", "daily", "recovered"}
Fates == Workers \union {"mailed", "logged", "stopped", "unanswered"}
Levels == Volts \union {None}
Times == {None} \union 0..MaxNow

States ==
    [alerting : BOOLEAN, lastV : Levels, lastSent : Times,
     runKind : Kinds \union {"none"}, runSince : Times, runMax : Levels]

Calls ==
    [pc : {"idle", "load", "save", "mail"}, v : Levels, age : Nat,
     at : Times, ver : Nat, old : States, next : States,
     email : [kind : Emails \union {"none"}, v : Levels]]

(* A state the rule can be in: an alerting unit has a level and a time of  *)
(* its last email, a run has a start and a highest reading, and there is   *)
(* no run of a condition the unit cannot meet.                             *)
Sound(s) ==
    /\ s.alerting <=> s.lastV # None
    /\ s.alerting <=> s.lastSent # None
    /\ s.alerting => s.lastV < LowV
    /\ s.runKind # "none" <=> s.runSince # None
    /\ s.runKind # "none" <=> s.runMax # None
    /\ s.runKind = "low" => ~s.alerting /\ s.runMax < LowV
    /\ s.runKind = "lower" => s.alerting /\ s.runMax <= s.lastV - StepV
    /\ s.runKind = "high" => s.alerting /\ s.runMax >= LowV

(* Every variable stays in its type, and the record in the states of the   *)
(* rule (battery-alert.js:stepBattery).                                    *)
TypeOK ==
    /\ now \in 0..MaxNow
    /\ rec \in [ver : Nat, s : States] /\ Sound(rec.s)
    /\ call \in [Workers -> Calls]
    /\ decided \in Seq([kind : Emails, v : Volts, at : 0..MaxNow, fate : Fates])
    /\ lastOk \in Times
    /\ readings \in 0..MaxReadings /\ stops \in 0..MaxStops

(* However the invocations of a unit overlap, its record moves as if they  *)
(* had run one after the other (battery-check.js:checkBattery): a save     *)
(* steps the record it replaces, never an older one.                       *)
Serial ==
    [][rec' # rec => \E w \in Workers :
          rec'.s = Step(rec.s, call[w].v, call[w].age, call[w].at).next]_vars

(* The emails tell a coherent story: low, then reminders and further falls *)
(* of a whole step, then a recovery, then low again.                       *)
Story ==
    \A i \in DOMAIN decided :
        LET d == decided[i] IN
        /\ d.kind = "low" <=> (i = 1 \/ decided[i - 1].kind = "recovered")
        /\ d.kind \in {"low", "daily"} => d.v < LowV
        /\ d.kind = "lower" => d.v <= decided[i - 1].v - StepV
        /\ d.kind = "daily" => d.v > decided[i - 1].v - StepV
        /\ d.kind = "recovered" => d.v >= LowV

(* Nobody is bothered by a crank or a glitch: whatever the interleaving,   *)
(* an email other than the reminder comes a hold time after the one before *)
(* it and no reading at or above LowV was counted in the hold time before  *)
(* "low"; the reminder comes a day after.  An overlap costs one tick.      *)
Patient ==
    [][\A i \in DOMAIN decided' \ DOMAIN decided :
          LET d == decided'[i]
              after == IF i = 1 THEN d.at ELSE d.at - decided[i - 1].at
          IN  /\ d.kind = "daily" => after >= DailyMs
              /\ d.kind # "daily" /\ i > 1 => after >= HoldMs - 1
              /\ d.kind = "low" /\ lastOk # None => d.at - lastOk >= HoldMs - 1]_vars

(* An email that was decided is being sent by exactly one invocation, or   *)
(* went out, or its failure was logged; it is lost in silence only when an *)
(* instance was killed or the put's answer was lost.                       *)
Told ==
    /\ \A i \in DOMAIN decided :
         decided[i].fate \in {"mailed", "logged", "stopped", "unanswered"}
             \/ \E w \in Workers : decided[i].fate = w /\ call[w].pc = "mail"
    /\ \A w \in Workers :
         call[w].pc = "mail" =>
             \E i \in DOMAIN decided :
                 /\ decided[i].fate = w /\ decided[i].at = call[w].at
                 /\ \A j \in DOMAIN decided \ {i} : decided[j].fate # w
=============================================================================
