------------------------- MODULE BatteryAlertsProofs -------------------------
(***************************************************************************)
(* Theorems about BatteryAlerts, for every set of Lambda instances, every  *)
(* threshold and duration and every bound.                                 *)
(***************************************************************************)
EXTENDS BatteryAlerts, SequenceTheorems, TLAPS

-----------------------------------------------------------------------------
(* What a step of the rule does that changes the state, case by case.      *)

Top(s, v) == MaxV(s.runMax, v)

Reminds(s, v, t, next, email) ==
    /\ s.alerting /\ Condition(s, v) = "none" /\ t - s.lastSent >= DailyMs
    /\ next = [EndRun(s) EXCEPT !.lastV = v, !.lastSent = t]
    /\ email = [kind |-> "daily", v |-> v]

EndsRun(s, v, next, email) ==
    /\ Condition(s, v) = "none" /\ next = EndRun(s) /\ email = NoEmail

BeginsRun(s, v, t, next, email) ==
    /\ Condition(s, v) # "none" /\ Condition(s, v) # s.runKind
    /\ next = [s EXCEPT !.runKind = Condition(s, v), !.runSince = t, !.runMax = v]
    /\ email = NoEmail

Prolongs(s, v, next, email) ==
    /\ Condition(s, v) # "none" /\ Condition(s, v) = s.runKind
    /\ next = [s EXCEPT !.runMax = Top(s, v)] /\ email = NoEmail

Warns(s, v, t, next, email) ==
    /\ Condition(s, v) \in {"low", "lower"} /\ Condition(s, v) = s.runKind
    /\ t - s.runSince >= HoldMs
    /\ next = [EndRun(s) EXCEPT !.alerting = TRUE, !.lastV = Top(s, v), !.lastSent = t]
    /\ email = [kind |-> Condition(s, v), v |-> Top(s, v)]

Recovers(s, v, t, next, email) ==
    /\ Condition(s, v) = "high" /\ s.runKind = "high"
    /\ t - s.runSince >= HoldMs
    /\ next = Initial /\ email = [kind |-> "recovered", v |-> Top(s, v)]

Moves(s, v, t, next, email) ==
    \/ Reminds(s, v, t, next, email)
    \/ EndsRun(s, v, next, email)
    \/ BeginsRun(s, v, t, next, email)
    \/ Prolongs(s, v, next, email)
    \/ Warns(s, v, t, next, email)
    \/ Recovers(s, v, t, next, email)

-----------------------------------------------------------------------------
(* The inductive invariant.                                                *)

(* An invocation holds the time it arrived, one tick ago at most.          *)
Prompt ==
    \A w \in Workers :
        call[w].pc # "idle" => call[w].at # None /\ call[w].at <= now /\ now <= call[w].at + 1

(* An invocation about to save carries a step of a state the rule can be   *)
(* in, and, unless the record has moved on, of the record itself.          *)
Loaded(c) ==
    /\ c.ver <= rec.ver
    /\ c.ver = rec.ver => c.old = rec.s
    /\ Sound(c.old) /\ c.next # c.old
    /\ c.next = Step(c.old, c.v, c.age, c.at).next
    /\ c.email = Step(c.old, c.v, c.age, c.at).email

Carries == \A w \in Workers : call[w].pc = "save" => Loaded(call[w])

(* The record is the one the last email left, and the run under way began  *)
(* after that email and after the last reading at or above LowV, but for   *)
(* the tick that an overlap costs.                                         *)
Linked(s, n, last, ok, t) ==
    /\ s.alerting <=> n # 0 /\ last.kind # "recovered"
    /\ s.alerting => last.v = s.lastV /\ last.at = s.lastSent
    /\ n # 0 => last.at <= t
    /\ s.runKind # "none" /\ n # 0 => s.runSince >= last.at - 1
    /\ ok <= t
    /\ s.runKind = "low" => s.runSince >= ok - 1

Follows == Linked(rec.s, Len(decided), decided[Len(decided)], lastOk, now)

IInv == TypeOK /\ Prompt /\ Carries /\ Follows /\ Story /\ Told

-----------------------------------------------------------------------------
(* Lemmas about the rule.                                                  *)

LEMMA ConditionProperties ==
    ASSUME NEW s \in States, NEW v \in Volts
    PROVE  /\ v \in Nat /\ s.lastV \in Int
           /\ Condition(s, v) \in Kinds \union {"none"}
           /\ Condition(s, v) = "low" <=> ~s.alerting /\ v < LowV
           /\ Condition(s, v) = "lower" <=> s.alerting /\ v <= s.lastV - StepV
           /\ Condition(s, v) = "high" => s.alerting /\ v >= LowV
           /\ Condition(s, v) = "none" =>
                  IF s.alerting THEN v > s.lastV - StepV /\ v < LowV ELSE v >= LowV
<1>1. v \in Nat /\ LowV \in Int /\ StepV \in Int
  BY ReadingsAssumption
<1>2. \A x \in Levels : x \in Int
  BY ReadingsAssumption DEF Levels, None
<1>3. s.lastV \in Int
  BY <1>2 DEF States
<1>4. s.alerting \in BOOLEAN
  BY DEF States
<1> QED
  BY <1>1, <1>3, <1>4 DEF Condition, Kinds

LEMMA TopProperties ==
    ASSUME NEW s \in States, NEW v \in Volts, s.runMax # None
    PROVE  /\ Top(s, v) \in Volts /\ Top(s, v) \in Int /\ s.runMax \in Int
           /\ Top(s, v) >= v /\ Top(s, v) >= s.runMax
           /\ Top(s, v) = v \/ Top(s, v) = s.runMax
<1>1. s.runMax \in Volts
  BY DEF States, Levels
<1>2. \A x \in Volts : x \in Int
  BY ReadingsAssumption
<1> QED
  BY <1>1, <1>2 DEF Top, MaxV

(* A step that changes the state is one of the six moves.                  *)
LEMMA StepMoves ==
    ASSUME NEW s \in States, NEW v \in Levels, NEW age, NEW t \in 0 .. MaxNow,
           Step(s, v, age, t).next # s
    PROVE  /\ v \in Volts
           /\ Moves(s, v, t, Step(s, v, age, t).next, Step(s, v, age, t).email)
<1>1. ~Skipped(v, age)
  BY DEF Step
<1>2. v \in Volts
  BY <1>1 DEF Skipped, Levels
<1>3. Condition(s, v) \in Kinds \union {"none"}
  BY <1>2, ConditionProperties
<1>4. CASE s.alerting /\ Condition(s, v) = "none" /\ t - s.lastSent >= DailyMs
  BY <1>1, <1>2, <1>4 DEF Step, Reminder, Reminds, Moves
<1>5. CASE /\ ~(s.alerting /\ Condition(s, v) = "none" /\ t - s.lastSent >= DailyMs)
           /\ Condition(s, v) # s.runKind
  BY <1>1, <1>2, <1>5 DEF Step, NewRun, EndsRun, BeginsRun, Moves
<1>6. CASE Condition(s, v) = s.runKind /\ Condition(s, v) # "none"
  <2>1. Step(s, v, age, t) = Hold(s, Condition(s, v), v, t)
    BY <1>1, <1>6 DEF Step
  <2>2. CASE t - s.runSince < HoldMs
    BY <1>2, <1>6, <2>1, <2>2 DEF Hold, Prolongs, Moves, Top
  <2>3. CASE ~(t - s.runSince < HoldMs)
    <3>1. t - s.runSince >= HoldMs
      BY <2>3, DurationsAssumption DEF States, Times, None
    <3> QED
      BY <1>2, <1>3, <1>6, <2>1, <2>3, <3>1 DEF Hold, Warns, Recovers, Moves, Top, Kinds
  <2> QED
    BY <2>2, <2>3
<1>7. CASE /\ ~(s.alerting /\ Condition(s, v) = "none" /\ t - s.lastSent >= DailyMs)
           /\ Condition(s, v) = s.runKind /\ Condition(s, v) = "none"
  BY <1>1, <1>7 DEF Step
<1> QED
  BY <1>4, <1>5, <1>6, <1>7

(* A sound state and a step of it that changes it: the next state is sound *)
(* again, and an email carries a level.                                    *)
LEMMA MovesKeepSound ==
    ASSUME NEW s \in States, Sound(s), NEW v \in Volts, NEW t \in 0 .. MaxNow,
           NEW next, NEW email, Moves(s, v, t, next, email)
    PROVE  /\ next \in States /\ Sound(next)
           /\ email = NoEmail \/ email \in [kind : Emails, v : Volts]
<1> DEFINE kind == Condition(s, v)
<1>1. /\ s = [alerting |-> s.alerting, lastV |-> s.lastV, lastSent |-> s.lastSent,
              runKind |-> s.runKind, runSince |-> s.runSince, runMax |-> s.runMax]
      /\ s.alerting \in BOOLEAN /\ s.lastV \in Levels /\ s.lastSent \in Times
      /\ s.runKind \in Kinds \union {"none"} /\ s.runSince \in Times /\ s.runMax \in Levels
  BY DEF States
<1>2. /\ v \in Nat /\ v # None /\ v \in Levels /\ t # None /\ t \in Times
      /\ None \in Levels /\ None \in Times /\ LowV \in Nat /\ StepV \in Nat
  BY ReadingsAssumption DEF Levels, Times, None
<1>3. /\ s.lastV \in Int
      /\ kind \in Kinds \union {"none"}
      /\ kind = "low" <=> ~s.alerting /\ v < LowV
      /\ kind = "lower" <=> s.alerting /\ v <= s.lastV - StepV
      /\ kind = "high" => s.alerting /\ v >= LowV
      /\ kind = "none" =>
             IF s.alerting THEN v > s.lastV - StepV /\ v < LowV ELSE v >= LowV
  BY ConditionProperties
<1>4. s.runKind # "none" =>
          /\ Top(s, v) \in Volts /\ Top(s, v) \in Int /\ s.runMax \in Int
          /\ Top(s, v) # None /\ Top(s, v) \in Levels
          /\ Top(s, v) >= v /\ Top(s, v) >= s.runMax
          /\ Top(s, v) = v \/ Top(s, v) = s.runMax
  <2> SUFFICES ASSUME s.runKind # "none" PROVE
          /\ Top(s, v) \in Volts /\ Top(s, v) \in Int /\ s.runMax \in Int
          /\ Top(s, v) # None /\ Top(s, v) \in Levels
          /\ Top(s, v) >= v /\ Top(s, v) >= s.runMax
          /\ Top(s, v) = v \/ Top(s, v) = s.runMax
    OBVIOUS
  <2>1. s.runMax # None
    BY DEF Sound
  <2>2. \A x \in Volts : x # None /\ x \in Levels
    BY ReadingsAssumption DEF None, Levels
  <2> QED
    BY <2>1, <2>2, TopProperties
<1> HIDE DEF kind
<1>5. CASE Reminds(s, v, t, next, email)
  <2>1. next = [alerting |-> TRUE, lastV |-> v, lastSent |-> t,
                runKind |-> "none", runSince |-> None, runMax |-> None]
    BY <1>1, <1>5 DEF Reminds, EndRun
  <2>2. next \in States
    BY <1>2, <2>1 DEF States
  <2>3. v < LowV
    BY <1>3, <1>5 DEF Reminds, kind
  <2>4. Sound(next)
    BY <1>2, <2>1, <2>3 DEF Sound
  <2> QED
    BY <1>5, <2>2, <2>4 DEF Reminds, Emails
<1>6. CASE EndsRun(s, v, next, email)
  <2>1. next = [alerting |-> s.alerting, lastV |-> s.lastV, lastSent |-> s.lastSent,
                runKind |-> "none", runSince |-> None, runMax |-> None]
    BY <1>1, <1>6 DEF EndsRun, EndRun
  <2>2. next \in States
    BY <1>1, <1>2, <2>1 DEF States
  <2>3. Sound(next)
    BY <2>1 DEF Sound
  <2> QED
    BY <1>6, <2>2, <2>3 DEF EndsRun
<1>7. CASE BeginsRun(s, v, t, next, email)
  <2>1. next = [alerting |-> s.alerting, lastV |-> s.lastV, lastSent |-> s.lastSent,
                runKind |-> kind, runSince |-> t, runMax |-> v]
    BY <1>1, <1>7 DEF BeginsRun, kind
  <2>2. next \in States
    BY <1>1, <1>2, <1>3, <2>1 DEF States
  <2>3. kind # "none"
    BY <1>7 DEF BeginsRun, kind
  <2>4. Sound(next)
    BY <1>2, <1>3, <2>1, <2>3 DEF Sound
  <2> QED
    BY <1>7, <2>2, <2>4 DEF BeginsRun
<1>8. CASE Prolongs(s, v, next, email)
  <2>1. next = [alerting |-> s.alerting, lastV |-> s.lastV, lastSent |-> s.lastSent,
                runKind |-> s.runKind, runSince |-> s.runSince, runMax |-> Top(s, v)]
    BY <1>1, <1>8 DEF Prolongs
  <2>2. kind # "none" /\ kind = s.runKind
    BY <1>8 DEF Prolongs, kind
  <2>3. next \in States
    BY <1>1, <1>4, <2>1, <2>2 DEF States
  <2>4. Sound(next)
    BY <1>2, <1>3, <1>4, <2>1, <2>2 DEF Sound
  <2> QED
    BY <1>8, <2>3, <2>4 DEF Prolongs
<1>9. CASE Warns(s, v, t, next, email)
  <2>1. next = [alerting |-> TRUE, lastV |-> Top(s, v), lastSent |-> t,
                runKind |-> "none", runSince |-> None, runMax |-> None]
    BY <1>1, <1>9 DEF Warns, EndRun
  <2>2. kind \in {"low", "lower"} /\ kind = s.runKind
    BY <1>9 DEF Warns, kind
  <2>3. next \in States
    BY <1>2, <1>4, <2>1, <2>2 DEF States
  <2>4. Top(s, v) < LowV
    BY <1>2, <1>3, <1>4, <2>2 DEF Sound
  <2>5. Sound(next)
    BY <1>2, <1>4, <2>1, <2>2, <2>4 DEF Sound
  <2>6. email \in [kind : Emails, v : Volts]
    BY <1>4, <1>9, <2>2 DEF Warns, Emails, kind
  <2> QED
    BY <2>3, <2>5, <2>6
<1>10. CASE Recovers(s, v, t, next, email)
  <2>1. next = Initial /\ s.runKind = "high"
    BY <1>10 DEF Recovers
  <2>2. next \in States /\ Sound(next)
    BY <1>2, <2>1 DEF States, Sound, Initial
  <2>3. email \in [kind : Emails, v : Volts]
    BY <1>4, <1>10, <2>1 DEF Recovers, Emails
  <2> QED
    BY <2>2, <2>3
<1> QED
  BY <1>5, <1>6, <1>7, <1>8, <1>9, <1>10 DEF Moves

-----------------------------------------------------------------------------
(* A save that wins: rec, decided and lastOk change together.              *)

Decision == [kind : Emails, v : Volts, at : 0 .. MaxNow, fate : Fates]

(* What is known of the record and of the invocation that replaces it.     *)
Replaces(c, s) ==
    /\ s = rec.s /\ s \in States /\ Sound(s)
    /\ c.v \in Volts /\ c.at \in 0 .. MaxNow
    /\ c.at <= now /\ now <= c.at + 1
    /\ c.next = Step(s, c.v, c.age, c.at).next
    /\ Moves(s, c.v, c.at, c.next, c.email)
    /\ c.next \in States /\ Sound(c.next)
    /\ c.email = NoEmail \/ c.email \in [kind : Emails, v : Volts]
    /\ c.ver = rec.ver

LEMMA WinnerReplaces ==
    ASSUME TypeOK, Prompt, Carries, NEW w \in Workers, call[w].pc = "save", Wins(w)
    PROVE  Replaces(call[w], rec.s)
<1> DEFINE c == call[w]
<1>1. rec.s \in States /\ Sound(rec.s)
  BY DEF TypeOK
<1>2. c \in Calls
  BY DEF TypeOK
<1>3. c.v \in Levels /\ c.at \in Times /\ c.pc = "save"
  BY <1>2 DEF Calls
<1>4. c.at # None /\ c.at <= now /\ now <= c.at + 1
  BY <1>3 DEF Prompt
<1>5. c.at \in 0 .. MaxNow
  BY <1>3, <1>4 DEF Times
<1>6. c.ver = rec.ver
  BY DEF Wins
<1>7. /\ c.next # rec.s
      /\ c.next = Step(rec.s, c.v, c.age, c.at).next
      /\ c.email = Step(rec.s, c.v, c.age, c.at).email
  BY <1>6 DEF Carries, Loaded
<1> HIDE DEF c
<1>8. c.v \in Volts /\ Moves(rec.s, c.v, c.at, c.next, c.email)
  BY <1>1, <1>3, <1>5, <1>7, StepMoves
<1>9. /\ c.next \in States /\ Sound(c.next)
      /\ c.email = NoEmail \/ c.email \in [kind : Emails, v : Volts]
  BY <1>1, <1>5, <1>8, MovesKeepSound
<1>10. Replaces(c, rec.s)
  BY <1>1, <1>4, <1>5, <1>6, <1>7, <1>8, <1>9 DEF Replaces
<1> QED
  BY <1>10 DEF c

(* The sequence of decided emails after the save.                          *)
Email(c, fate) == [kind |-> c.email.kind, v |-> c.email.v, at |-> c.at, fate |-> fate]

LEMMA PutAppends ==
    ASSUME TypeOK, NEW w \in Workers, Replaces(call[w], rec.s), NEW fate \in Fates, Put(w, fate)
    PROVE  LET c == call[w] IN
           /\ rec' = [ver |-> rec.ver + 1, s |-> c.next]
           /\ lastOk' = IF c.v >= LowV /\ c.at > lastOk THEN c.at ELSE lastOk
           /\ decided' \in Seq(Decision)
           /\ c.email = NoEmail => decided' = decided
           /\ c.email # NoEmail =>
                 /\ Len(decided') = Len(decided) + 1
                 /\ decided'[Len(decided) + 1] = Email(c, fate)
                 /\ \A i \in 1 .. Len(decided) : decided'[i] = decided[i]
<1> DEFINE c == call[w]
<1>1. decided \in Seq(Decision)
  BY DEF TypeOK, Decision
<1>2. /\ rec' = [ver |-> rec.ver + 1, s |-> c.next]
      /\ lastOk' = IF c.v >= LowV /\ c.at > lastOk THEN c.at ELSE lastOk
      /\ decided' = IF c.email = NoEmail THEN decided ELSE Append(decided, Email(c, fate))
  BY DEF Put, Replaces, Email
<1>3. CASE c.email = NoEmail
  BY <1>1, <1>2, <1>3
<1>4. CASE c.email # NoEmail
  <2>1. c.email \in [kind : Emails, v : Volts] /\ c.at \in 0 .. MaxNow
    BY <1>4 DEF Replaces
  <2>2. Email(c, fate) \in Decision
    BY <2>1 DEF Email, Decision
  <2>3. decided' = Append(decided, Email(c, fate))
    BY <1>2, <1>4
  <2> HIDE DEF c
  <2>4. /\ decided' \in Seq(Decision) /\ Len(decided') = Len(decided) + 1
        /\ decided'[Len(decided) + 1] = Email(c, fate)
        /\ \A i \in 1 .. Len(decided) : decided'[i] = decided[i]
    BY <1>1, <2>2, <2>3, AppendProperties
  <2> QED
    BY <1>2, <1>4, <2>4 DEF c
<1> QED
  BY <1>3, <1>4

-----------------------------------------------------------------------------
(* What a move does to the link between the record and the emails: one     *)
(* lemma for each kind of move that sends an email, one for the others.    *)

(* The new email continues the story, and comes late enough.               *)
Tells(n, last, e) ==
    /\ e.kind = "low" <=> (n = 0 \/ last.kind = "recovered")
    /\ e.kind \in {"low", "daily"} => e.v < LowV
    /\ e.kind = "lower" => e.v <= last.v - StepV
    /\ e.kind = "daily" => e.v > last.v - StepV
    /\ e.kind = "recovered" => e.v >= LowV

Waits(n, last, ok, e) ==
    /\ e.kind = "daily" => n # 0 /\ e.at - last.at >= DailyMs
    /\ e.kind # "daily" /\ n # 0 => e.at - last.at >= HoldMs - 1
    /\ e.kind = "low" /\ ok # None => e.at - ok >= HoldMs - 1

Ok(v, at, ok) == IF v >= LowV /\ at > ok THEN at ELSE ok

(* The situation in which a move is made.                                  *)
Ready(s, v, at, n, last, ok, t) ==
    /\ s \in States /\ Sound(s) /\ v \in Volts /\ at \in 0 .. MaxNow
    /\ n \in Nat /\ (n # 0 => last \in Decision) /\ ok \in Times
    /\ t \in Nat /\ at <= t /\ t <= at + 1
    /\ Linked(s, n, last, ok, t)

LEMMA ReadyProperties ==
    ASSUME NEW s, NEW v, NEW at, NEW n, NEW last, NEW ok, NEW t,
           Ready(s, v, at, n, last, ok, t)
    PROVE  /\ s.lastV \in Int /\ s.lastSent \in Int /\ s.runSince \in Int
           /\ v \in Int /\ at \in Int /\ ok \in Int /\ t \in Int
           /\ LowV \in Int /\ HoldMs \in Int /\ DailyMs \in Int
           /\ n # 0 => last.at \in Int /\ last.v \in Int
           /\ ok <= t /\ Ok(v, at, ok) <= t
           /\ Ok(v, at, ok) = ok \/ Ok(v, at, ok) = at
<1>1. \A x \in Levels : x \in Int
  BY ReadingsAssumption DEF Levels, None
<1>2. \A x \in Times : x \in Int
  BY DEF Times, None
<1>3. s.lastV \in Int /\ s.lastSent \in Int /\ s.runSince \in Int
  BY <1>1, <1>2 DEF Ready, States
<1>4. v \in Int /\ at \in Int /\ ok \in Int /\ t \in Int
  BY <1>1, <1>2 DEF Ready, Levels
<1>5. n # 0 => last.at \in Int /\ last.v \in Int
  BY <1>1 DEF Ready, Decision, Levels
<1>6. ok <= t /\ at <= t
  BY DEF Ready, Linked
<1> QED
  BY <1>3, <1>4, <1>5, <1>6, ReadingsAssumption, DurationsAssumption DEF Ok

LEMMA RemindLinks ==
    ASSUME NEW s, NEW v, NEW at, NEW n, NEW last, NEW ok, NEW t, NEW next, NEW email, NEW e,
           Ready(s, v, at, n, last, ok, t), Reminds(s, v, at, next, email),
           e.kind = email.kind, e.v = email.v, e.at = at
    PROVE  /\ Linked(next, n + 1, e, Ok(v, at, ok), t)
           /\ Tells(n, last, e) /\ Waits(n, last, ok, e)
<1>1. /\ next.alerting = TRUE /\ next.lastV = v /\ next.lastSent = at
      /\ next.runKind = "none" /\ e.kind = "daily" /\ e.v = v
  BY DEF Ready, States, Reminds, EndRun
<1>2. s.alerting /\ v > s.lastV - StepV /\ v < LowV /\ at - s.lastSent >= DailyMs
  BY ConditionProperties DEF Ready, Reminds
<1>3. /\ n # 0 /\ last.kind # "recovered" /\ last.v = s.lastV /\ last.at = s.lastSent
      /\ n \in Nat /\ at <= t
  BY <1>2 DEF Ready, Linked
<1> QED
  BY <1>1, <1>2, <1>3, ReadyProperties DEF Linked, Tells, Waits

LEMMA WarnLinks ==
    ASSUME NEW s, NEW v, NEW at, NEW n, NEW last, NEW ok, NEW t, NEW next, NEW email, NEW e,
           Ready(s, v, at, n, last, ok, t), Warns(s, v, at, next, email),
           e.kind = email.kind, e.v = email.v, e.at = at
    PROVE  /\ Linked(next, n + 1, e, Ok(v, at, ok), t)
           /\ Tells(n, last, e) /\ Waits(n, last, ok, e)
<1>1. /\ next.alerting = TRUE /\ next.lastV = Top(s, v) /\ next.lastSent = at
      /\ next.runKind = "none" /\ e.kind = s.runKind /\ e.v = Top(s, v)
      /\ s.runKind \in {"low", "lower"} /\ at - s.runSince >= HoldMs
  BY DEF Ready, States, Warns, EndRun
<1>2. /\ s.runKind = "low" <=> ~s.alerting /\ v < LowV
      /\ s.runKind = "lower" <=> s.alerting /\ v <= s.lastV - StepV
  BY ConditionProperties DEF Ready, Warns
<1>3. /\ Top(s, v) = v \/ Top(s, v) = s.runMax
      /\ s.runKind = "low" => s.runMax < LowV
      /\ s.runKind = "lower" => s.runMax <= s.lastV - StepV
  BY <1>1, TopProperties DEF Ready, Sound
<1>4. /\ s.alerting <=> n # 0 /\ last.kind # "recovered"
      /\ s.alerting => last.v = s.lastV
      /\ n # 0 => s.runSince >= last.at - 1
      /\ s.runKind = "low" => s.runSince >= ok - 1
      /\ n \in Nat /\ at <= t
  BY <1>1 DEF Ready, Linked
<1>5. Linked(next, n + 1, e, Ok(v, at, ok), t)
  BY <1>1, <1>4, ReadyProperties DEF Linked
<1>6. Tells(n, last, e)
  BY <1>1, <1>2, <1>3, <1>4 DEF Tells
<1>7. Waits(n, last, ok, e)
  BY <1>1, <1>4, ReadyProperties DEF Waits
<1> QED
  BY <1>5, <1>6, <1>7

LEMMA RecoverLinks ==
    ASSUME NEW s, NEW v, NEW at, NEW n, NEW last, NEW ok, NEW t, NEW next, NEW email, NEW e,
           Ready(s, v, at, n, last, ok, t), Recovers(s, v, at, next, email),
           e.kind = email.kind, e.v = email.v, e.at = at
    PROVE  /\ Linked(next, n + 1, e, Ok(v, at, ok), t)
           /\ Tells(n, last, e) /\ Waits(n, last, ok, e)
<1>1. /\ next = Initial /\ e.kind = "recovered" /\ e.v = Top(s, v)
      /\ s.runKind = "high" /\ at - s.runSince >= HoldMs
  BY DEF Recovers
<1>2. s.alerting /\ Top(s, v) >= LowV
  <2>1. s.alerting /\ v >= LowV
    BY ConditionProperties DEF Ready, Recovers
  <2>2. Top(s, v) >= v /\ Top(s, v) \in Int
    BY <1>1, TopProperties DEF Ready, Sound
  <2> QED
    BY <2>1, <2>2, ReadyProperties
<1>3. /\ n # 0 /\ last.kind # "recovered" /\ s.runSince >= last.at - 1
      /\ n \in Nat /\ at <= t
  BY <1>1, <1>2 DEF Ready, Linked
<1> QED
  BY <1>1, <1>2, <1>3, ReadyProperties DEF Linked, Tells, Waits, Initial

LEMMA QuietMoveLinks ==
    ASSUME NEW s, NEW v, NEW at, NEW n, NEW last, NEW ok, NEW t, NEW next, NEW email,
           Ready(s, v, at, n, last, ok, t),
           \/ EndsRun(s, v, next, email)
           \/ BeginsRun(s, v, at, next, email)
           \/ Prolongs(s, v, next, email)
    PROVE  Linked(next, n, last, Ok(v, at, ok), t)
<1>1. /\ s.alerting <=> n # 0 /\ last.kind # "recovered"
      /\ s.alerting => last.v = s.lastV /\ last.at = s.lastSent
      /\ n # 0 => last.at <= t
      /\ s.runKind # "none" /\ n # 0 => s.runSince >= last.at - 1
      /\ s.runKind = "low" => s.runSince >= ok - 1
      /\ n \in Nat /\ at <= t /\ t <= at + 1
  BY DEF Ready, Linked
<1>2. CASE EndsRun(s, v, next, email)
  <2>1. /\ next.alerting = s.alerting /\ next.lastV = s.lastV /\ next.lastSent = s.lastSent
        /\ next.runKind = "none"
    BY <1>2 DEF Ready, States, EndsRun, EndRun
  <2> QED
    BY <1>1, <2>1, ReadyProperties DEF Linked
<1>3. CASE BeginsRun(s, v, at, next, email)
  <2>1. /\ next.alerting = s.alerting /\ next.lastV = s.lastV /\ next.lastSent = s.lastSent
        /\ next.runSince = at
    BY <1>3 DEF Ready, States, BeginsRun
  <2> QED
    BY <1>1, <2>1, ReadyProperties DEF Linked
<1>4. CASE Prolongs(s, v, next, email)
  <2>1. /\ next.alerting = s.alerting /\ next.lastV = s.lastV /\ next.lastSent = s.lastSent
        /\ next.runKind = s.runKind /\ next.runSince = s.runSince
        /\ Condition(s, v) = s.runKind
    BY <1>4 DEF Ready, States, Prolongs
  <2>2. s.runKind = "low" => v < LowV
    BY <2>1, ConditionProperties DEF Ready
  <2>3. s.runKind = "low" => Ok(v, at, ok) = ok
    BY <2>2, ReadyProperties DEF Ok
  <2> QED
    BY <1>1, <2>1, <2>3, ReadyProperties DEF Linked
<1> QED
  BY <1>2, <1>3, <1>4

(* The six moves together.                                                 *)
LEMMA MoveLinks ==
    ASSUME NEW s, NEW v, NEW at, NEW n, NEW last, NEW ok, NEW t, NEW next, NEW email, NEW e,
           Ready(s, v, at, n, last, ok, t), Moves(s, v, at, next, email),
           e.kind = email.kind, e.v = email.v, e.at = at
    PROVE  /\ email = NoEmail => Linked(next, n, last, Ok(v, at, ok), t)
           /\ email # NoEmail =>
                 /\ Linked(next, n + 1, e, Ok(v, at, ok), t)
                 /\ Tells(n, last, e) /\ Waits(n, last, ok, e)
<1>1. CASE Reminds(s, v, at, next, email)
  <2>1. email # NoEmail
    BY <1>1 DEF Reminds, NoEmail
  <2> QED
    BY <1>1, <2>1, RemindLinks
<1>2. CASE Warns(s, v, at, next, email)
  <2>1. email # NoEmail
    BY <1>2 DEF Warns, NoEmail
  <2> QED
    BY <1>2, <2>1, WarnLinks
<1>3. CASE Recovers(s, v, at, next, email)
  <2>1. email # NoEmail
    BY <1>3 DEF Recovers, NoEmail
  <2> QED
    BY <1>3, <2>1, RecoverLinks
<1>4. CASE \/ EndsRun(s, v, next, email)
           \/ BeginsRun(s, v, at, next, email)
           \/ Prolongs(s, v, next, email)
  <2>1. email = NoEmail
    BY <1>4 DEF EndsRun, BeginsRun, Prolongs
  <2> QED
    BY <1>4, <2>1, QuietMoveLinks
<1> QED
  BY <1>1, <1>2, <1>3, <1>4 DEF Moves

(* What a winning save does to everything but call: the types of what it   *)
(* changes, and the link, the story and the patience.                      *)
Patience ==
    \A i \in DOMAIN decided' \ DOMAIN decided :
        LET d == decided'[i]
            after == IF i = 1 THEN d.at ELSE d.at - decided[i - 1].at
        IN  /\ d.kind = "daily" => after >= DailyMs
            /\ d.kind # "daily" /\ i > 1 => after >= HoldMs - 1
            /\ d.kind = "low" /\ lastOk # None => d.at - lastOk >= HoldMs - 1

LEMMA PutKeeps ==
    ASSUME IInv, NEW w \in Workers, call[w].pc = "save", Wins(w), now' = now,
           NEW fate \in Fates, Put(w, fate)
    PROVE  /\ rec' \in [ver : Nat, s : States] /\ Sound(rec'.s)
           /\ decided' \in Seq(Decision) /\ lastOk' \in Times
           /\ Follows' /\ Story' /\ Patience
<1> DEFINE c == call[w]
           s == rec.s
           n == Len(decided)
           last == decided[n]
           e == Email(c, fate)
<1>1. Replaces(c, s)
  BY WinnerReplaces DEF IInv
<1>2. /\ rec' = [ver |-> rec.ver + 1, s |-> c.next]
      /\ lastOk' = Ok(c.v, c.at, lastOk)
      /\ decided' \in Seq(Decision)
      /\ c.email = NoEmail => decided' = decided
      /\ c.email # NoEmail =>
            /\ Len(decided') = n + 1 /\ decided'[n + 1] = e
            /\ \A i \in 1 .. n : decided'[i] = decided[i]
  BY <1>1, PutAppends DEF IInv, Ok
<1>3. decided \in Seq(Decision) /\ rec \in [ver : Nat, s : States] /\ lastOk \in Times
      /\ now \in Nat
  BY DEF IInv, TypeOK, Decision
<1>4. n \in Nat /\ DOMAIN decided = 1 .. n /\ (n # 0 => last \in Decision)
  BY <1>3, LenProperties, ElementOfSeq
<1>5. Linked(s, n, last, lastOk, now)
  BY DEF IInv, Follows
<1>6. \A i \in 1 .. n :
         LET d == decided[i] IN
         /\ d.kind = "low" <=> (i = 1 \/ decided[i - 1].kind = "recovered")
         /\ d.kind \in {"low", "daily"} => d.v < LowV
         /\ d.kind = "lower" => d.v <= decided[i - 1].v - StepV
         /\ d.kind = "daily" => d.v > decided[i - 1].v - StepV
         /\ d.kind = "recovered" => d.v >= LowV
  BY <1>4 DEF IInv, Story
<1>7. e.kind = c.email.kind /\ e.v = c.email.v /\ e.at = c.at
  BY DEF Email
<1> HIDE DEF c, s, n, last, e
<1>8. Ready(s, c.v, c.at, n, last, lastOk, now)
  BY <1>1, <1>3, <1>4, <1>5 DEF Ready, Replaces
<1>9. /\ c.email = NoEmail => Linked(c.next, n, last, lastOk', now)
      /\ c.email # NoEmail =>
            /\ Linked(c.next, n + 1, e, lastOk', now)
            /\ Tells(n, last, e) /\ Waits(n, last, lastOk, e)
  <2>1. Moves(s, c.v, c.at, c.next, c.email)
    BY <1>1 DEF Replaces
  <2> QED
    BY <1>2, <1>7, <1>8, <2>1, MoveLinks
<1>10. rec' \in [ver : Nat, s : States] /\ Sound(rec'.s)
  BY <1>1, <1>2, <1>3 DEF Replaces
<1>11. lastOk' \in Times
  BY <1>1, <1>2, <1>3 DEF Replaces, Ok, Times
<1>12. DOMAIN decided' = 1 .. Len(decided')
  BY <1>2, LenProperties
<1>13. CASE c.email = NoEmail
  <2>1. decided' = decided
    BY <1>2, <1>13
  <2>2. Follows'
    BY <1>2, <1>9, <1>13, <2>1 DEF Follows, n, last
  <2>3. Story'
    BY <2>1 DEF IInv, Story
  <2>4. Patience
    BY <2>1 DEF Patience
  <2> QED
    BY <1>2, <1>10, <1>11, <2>2, <2>3, <2>4
<1>14. CASE c.email # NoEmail
  <2>1. /\ Len(decided') = n + 1 /\ decided'[n + 1] = e
        /\ \A i \in 1 .. n : decided'[i] = decided[i]
        /\ DOMAIN decided' = 1 .. (n + 1)
    BY <1>2, <1>12, <1>14
  <2>2. Follows'
    BY <1>2, <1>9, <1>14, <2>1 DEF Follows
  <2>3. Story'
    <3> SUFFICES ASSUME NEW i \in 1 .. (n + 1)
                 PROVE  LET d == decided'[i] IN
                        /\ d.kind = "low" <=> (i = 1 \/ decided'[i - 1].kind = "recovered")
                        /\ d.kind \in {"low", "daily"} => d.v < LowV
                        /\ d.kind = "lower" => d.v <= decided'[i - 1].v - StepV
                        /\ d.kind = "daily" => d.v > decided'[i - 1].v - StepV
                        /\ d.kind = "recovered" => d.v >= LowV
      BY <2>1 DEF Story
    <3>1. CASE i \in 1 .. n
      <4>1. i # 1 => i - 1 \in 1 .. n
        BY <1>4, <3>1
      <4> QED
        BY <1>6, <2>1, <3>1, <4>1
    <3>2. CASE i = n + 1
      <4>1. n # 0 => n \in 1 .. n
        BY <1>4
      <4>2. n # 0 => decided'[i - 1] = last
        BY <1>4, <2>1, <3>2, <4>1 DEF last
      <4>3. i = 1 <=> n = 0
        BY <1>4, <3>2
      <4> QED
        BY <1>9, <1>14, <2>1, <3>2, <4>2, <4>3 DEF Tells
    <3> QED
      BY <1>4, <3>1, <3>2
  <2>4. Patience
    <3>1. \A i \in DOMAIN decided' \ DOMAIN decided : i = n + 1
      BY <1>4, <2>1
    <3> QED
      BY <1>4, <1>9, <1>14, <2>1, <3>1 DEF Waits, Patience, last
  <2> QED
    BY <1>2, <1>10, <1>11, <2>2, <2>3, <2>4
<1> QED
  BY <1>13, <1>14

-----------------------------------------------------------------------------
(* What becomes of the invocations.                                        *)

LEMMA IdleIsCall == Idle \in Calls /\ Idle.pc = "idle" /\ NoEmail = [kind |-> "none", v |-> None]
<1>1. Initial \in States
  BY DEF Initial, States, Kinds, Levels, Times
<1>2. NoEmail \in [kind : Emails \union {"none"}, v : Levels]
  BY DEF NoEmail, Levels
<1> QED
  BY <1>1, <1>2 DEF Idle, Calls, Levels, Times, NoEmail

(* Only an invocation that is in "mail" is the fate of an email.           *)
LEMMA FateIsMailing ==
    ASSUME TypeOK, Told, NEW w \in Workers, call[w].pc # "mail"
    PROVE  \A i \in DOMAIN decided : decided[i].fate # w
<1> SUFFICES ASSUME NEW i \in DOMAIN decided, decided[i].fate = w PROVE FALSE
  OBVIOUS
<1>1. w \notin {"mailed", "logged", "stopped", "unanswered"}
  BY WorkersAssumption
<1> QED
  BY <1>1 DEF Told

(* The version of a record that was replaced tells the old ones apart.     *)
LEMMA CarriesKept ==
    ASSUME TypeOK, Carries, NEW w \in Workers,
           \A x \in Workers \ {w} : call'[x] = call[x],
           call'[w].pc # "save",
           \/ rec' = rec
           \/ rec'.ver = rec.ver + 1
    PROVE  Carries'
<1> SUFFICES ASSUME NEW x \in Workers, call'[x].pc = "save" PROVE Loaded(call[x])'
  BY DEF Carries
<1>1. x # w /\ call'[x] = call[x] /\ Loaded(call[x])
  BY DEF Carries
<1>2. call[x].ver \in Nat /\ rec.ver \in Nat
  BY DEF TypeOK, Calls
<1>3. CASE rec' = rec
  BY <1>1, <1>3 DEF Loaded
<1>4. CASE rec'.ver = rec.ver + 1
  <2>1. call[x].ver <= rec'.ver /\ call[x].ver # rec'.ver
    BY <1>1, <1>2, <1>4 DEF Loaded
  <2> QED
    BY <1>1, <2>1 DEF Loaded
<1> QED
  BY <1>3, <1>4

(* What an action that ends w's invocation leaves right.                   *)
LEMMA EndKeeps ==
    ASSUME TypeOK, Prompt, NEW w \in Workers, call' = [call EXCEPT ![w] = Idle], now' = now
    PROVE  /\ call' \in [Workers -> Calls] /\ Prompt'
           /\ \A x \in Workers \ {w} : call'[x] = call[x]
           /\ call'[w].pc = "idle"
<1>1. call \in [Workers -> Calls]
  BY DEF TypeOK
<1>2. call'[w] = Idle /\ \A x \in Workers \ {w} : call'[x] = call[x]
  BY <1>1
<1> QED
  BY <1>1, <1>2, IdleIsCall DEF Prompt

(* Settle touches nothing but the fate of w's email.                       *)
LEMMA SettleKeeps ==
    ASSUME IInv, NEW w \in Workers, NEW fate \in {"mailed", "logged", "stopped"},
           Settle(w, fate), call' = [call EXCEPT ![w] = Idle], UNCHANGED <<now, rec, lastOk>>
    PROVE  /\ decided' \in Seq(Decision) /\ DOMAIN decided' = DOMAIN decided
           /\ Follows' /\ Story' /\ Told'
<1> DEFINE n == Len(decided)
<1>1. decided \in Seq(Decision) /\ call \in [Workers -> Calls]
  BY DEF IInv, TypeOK, Decision
<1>2. n \in Nat /\ DOMAIN decided = 1 .. n /\ \A i \in 1 .. n : decided[i] \in Decision
  BY <1>1, LenProperties, ElementOfSeq
<1>3. decided' = [i \in 1 .. n |->
          IF decided[i].fate = w THEN [decided[i] EXCEPT !.fate = fate] ELSE decided[i]]
  BY <1>2 DEF Settle
<1> HIDE DEF n
<1>4. \A i \in 1 .. n :
         /\ decided'[i] \in Decision
         /\ decided'[i].kind = decided[i].kind /\ decided'[i].v = decided[i].v
         /\ decided'[i].at = decided[i].at
         /\ decided'[i].fate = IF decided[i].fate = w THEN fate ELSE decided[i].fate
  <2> SUFFICES ASSUME NEW i \in 1 .. n
               PROVE  /\ decided'[i] \in Decision
                      /\ decided'[i].kind = decided[i].kind /\ decided'[i].v = decided[i].v
                      /\ decided'[i].at = decided[i].at
                      /\ decided'[i].fate = IF decided[i].fate = w THEN fate ELSE decided[i].fate
    OBVIOUS
  <2>1. decided[i] \in Decision /\ fate \in Fates
    BY <1>2 DEF Fates
  <2>2. decided'[i] = IF decided[i].fate = w THEN [decided[i] EXCEPT !.fate = fate] ELSE decided[i]
    BY <1>3
  <2> QED
    BY <2>1, <2>2 DEF Decision
<1>5. decided' \in Seq(Decision) /\ Len(decided') = n
  <2>1. decided' \in [1 .. n -> Decision]
    BY <1>3, <1>4
  <2> QED
    BY <1>2, <2>1
<1>6. DOMAIN decided' = 1 .. n
  BY <1>3
<1>7. n # 0 => n \in 1 .. n
  BY <1>2
<1>8. Follows'
  <2>1. Linked(rec.s, n, decided[n], lastOk, now)
    BY DEF IInv, Follows, n
  <2>2. Linked(rec.s, n, decided'[n], lastOk, now)
    BY <1>4, <1>7, <2>1 DEF Linked
  <2> QED
    BY <1>5, <2>2 DEF Follows
<1>9. Story'
  <2>1. \A i \in 1 .. n : i # 1 => i - 1 \in 1 .. n
    BY <1>2
  <2> QED
    BY <1>2, <1>4, <1>6, <2>1 DEF IInv, Story
<1>10. Told'
  <2>1. call'[w].pc # "mail" /\ \A x \in Workers \ {w} : call'[x] = call[x]
    BY EndKeeps DEF IInv
  <2>2. ASSUME NEW i \in 1 .. n
        PROVE  \/ decided'[i].fate \in {"mailed", "logged", "stopped", "unanswered"}
               \/ \E x \in Workers : decided'[i].fate = x /\ call'[x].pc = "mail"
    <3>1. \/ decided[i].fate \in {"mailed", "logged", "stopped", "unanswered"}
          \/ \E x \in Workers : decided[i].fate = x /\ call[x].pc = "mail"
      BY <1>2 DEF IInv, Told
    <3> QED
      BY <1>4, <2>1, <3>1
  <2>3. ASSUME NEW x \in Workers, call'[x].pc = "mail"
        PROVE  \E i \in 1 .. n :
                   /\ decided'[i].fate = x /\ decided'[i].at = call'[x].at
                   /\ \A j \in (1 .. n) \ {i} : decided'[j].fate # x
    <3>1. x # w /\ call'[x] = call[x]
      BY <2>1, <2>3
    <3>2. PICK i \in 1 .. n :
              /\ decided[i].fate = x /\ decided[i].at = call[x].at
              /\ \A j \in (1 .. n) \ {i} : decided[j].fate # x
      BY <1>2, <2>3, <3>1 DEF IInv, Told
    <3>3. fate # x
      BY WorkersAssumption
    <3>4. decided'[i].fate = x /\ decided'[i].at = call'[x].at
      BY <1>4, <3>1, <3>2
    <3>5. \A j \in (1 .. n) \ {i} : decided'[j].fate # x
      BY <1>4, <3>1, <3>2, <3>3
    <3> QED
      BY <3>4, <3>5
  <2> QED
    BY <1>6, <2>2, <2>3 DEF Told
<1> QED
  BY <1>2, <1>5, <1>6, <1>8, <1>9, <1>10

-----------------------------------------------------------------------------
(* One lemma per action, or per group of actions with the same effect.     *)

LEMMA TickKeeps == IInv /\ Tick => IInv'
<1> SUFFICES ASSUME IInv, Tick PROVE IInv'
  OBVIOUS
<1>1. UNCHANGED <<rec, call, decided, lastOk, readings, stops>>
  BY DEF Tick
<1>2. now \in 0 .. MaxNow /\ now < MaxNow /\ now' = now + 1
  BY DEF IInv, TypeOK, Tick
<1>3. now' \in 0 .. MaxNow
  BY <1>2, BoundsAssumption
<1>4. TypeOK'
  BY <1>1, <1>3 DEF IInv, TypeOK
<1>5. Prompt'
  BY <1>1, <1>2 DEF IInv, Prompt, Tick
<1>6. Carries'
  BY <1>1 DEF IInv, Carries, Loaded
<1>7. Follows'
  <2>1. lastOk \in Int
    BY DEF IInv, TypeOK, Times, None
  <2>2. decided # <<>> => decided[Len(decided)].at \in Int
    <3>1. decided \in Seq(Decision)
      BY DEF IInv, TypeOK, Decision
    <3>2. decided # <<>> => Len(decided) \in 1 .. Len(decided)
      BY <3>1
    <3>3. decided # <<>> => decided[Len(decided)] \in Decision
      BY <3>1, <3>2, ElementOfSeq
    <3> QED
      BY <3>3 DEF Decision
  <2>3. Len(decided) # 0 => decided # <<>>
    BY DEF IInv, TypeOK
  <2> QED
    BY <1>1, <1>2, <2>1, <2>2, <2>3 DEF IInv, Follows, Linked
<1>8. Story' /\ Told'
  BY <1>1 DEF IInv, Story, Told
<1> QED
  BY <1>4, <1>5, <1>6, <1>7, <1>8 DEF IInv

LEMMA ArriveKeeps ==
    ASSUME IInv, NEW w \in Workers, NEW r \in Readings, Arrive(w, r[1], r[2])
    PROVE  IInv'
<1>1. UNCHANGED <<now, rec, decided, lastOk, stops>> /\ call[w].pc = "idle"
  BY DEF Arrive
<1>2. r[1] \in Levels /\ r[2] \in Nat
  BY ReadingsAssumption DEF Levels, None
<1>3. now \in Times /\ now \in Nat /\ now # None
  BY DEF IInv, TypeOK, Times, None
<1>4. call \in [Workers -> Calls]
  BY DEF IInv, TypeOK
<1> DEFINE new == [Idle EXCEPT !.pc = "load", !.v = r[1], !.age = r[2], !.at = now]
<1>5. new \in Calls /\ new.pc = "load" /\ new.at = now
  BY <1>2, <1>3, IdleIsCall DEF Calls
<1>6. call' = [call EXCEPT ![w] = new]
  BY DEF Arrive
<1> HIDE DEF new
<1>7. call'[w] = new /\ \A x \in Workers \ {w} : call'[x] = call[x]
  BY <1>4, <1>6
<1>8. readings' \in 0 .. MaxReadings
  BY BoundsAssumption DEF IInv, TypeOK, Arrive
<1>9. TypeOK'
  <2>1. call' \in [Workers -> Calls]
    BY <1>4, <1>5, <1>6
  <2> QED
    BY <1>1, <1>8, <2>1 DEF IInv, TypeOK
<1>10. Prompt'
  BY <1>1, <1>3, <1>5, <1>7 DEF IInv, Prompt
<1>11. Carries'
  BY <1>1, <1>5, <1>7, CarriesKept DEF IInv
<1>12. Follows' /\ Story'
  BY <1>1 DEF IInv, Follows, Story
<1>13. Told'
  BY <1>1, <1>5, <1>7 DEF IInv, Told
<1> QED
  BY <1>9, <1>10, <1>11, <1>12, <1>13 DEF IInv

LEMMA LoadKeeps ==
    ASSUME IInv, NEW w \in Workers, Load(w)
    PROVE  IInv'
<1> DEFINE c == call[w]
           r == Step(rec.s, c.v, c.age, c.at)
           new == [c EXCEPT !.pc = "save", !.ver = rec.ver, !.old = rec.s,
                            !.next = r.next, !.email = r.email]
<1>1. UNCHANGED <<now, rec, decided, lastOk, readings, stops>> /\ c.pc = "load"
  BY DEF Load
<1>2. call \in [Workers -> Calls] /\ c \in Calls /\ rec \in [ver : Nat, s : States] /\ Sound(rec.s)
  BY DEF IInv, TypeOK
<1>3. c.at # None /\ c.at <= now /\ now <= c.at + 1
  BY <1>1 DEF IInv, Prompt
<1>4. c.v \in Levels /\ c.at \in 0 .. MaxNow
  BY <1>2, <1>3 DEF Calls, Times
<1>5. CASE r.next = rec.s
  <2>1. call' = [call EXCEPT ![w] = Idle]
    BY <1>5 DEF Load
  <2>2. /\ call' \in [Workers -> Calls] /\ Prompt'
        /\ \A x \in Workers \ {w} : call'[x] = call[x]
        /\ call'[w].pc = "idle"
    BY <1>1, <2>1, EndKeeps DEF IInv
  <2>3. TypeOK'
    BY <1>1, <2>2 DEF IInv, TypeOK
  <2>4. Carries'
    BY <1>1, <2>2, CarriesKept DEF IInv
  <2>5. Follows' /\ Story'
    BY <1>1 DEF IInv, Follows, Story
  <2>6. Told'
    BY <1>1, <2>2 DEF IInv, Told
  <2> QED
    BY <2>2, <2>3, <2>4, <2>5, <2>6 DEF IInv
<1>6. CASE r.next # rec.s
  <2>1. call' = [call EXCEPT ![w] = new]
    BY <1>6 DEF Load
  <2>2. c.v \in Volts /\ Moves(rec.s, c.v, c.at, r.next, r.email)
    BY <1>2, <1>4, <1>6, StepMoves
  <2>3. r.next \in States /\ (r.email = NoEmail \/ r.email \in [kind : Emails, v : Volts])
    BY <1>2, <1>4, <2>2, MovesKeepSound
  <2> HIDE DEF r
  <2>4. r.email \in [kind : Emails \union {"none"}, v : Levels]
    BY <2>3 DEF NoEmail, Levels
  <2>5. /\ new \in Calls /\ new.pc = "save" /\ new.at = c.at /\ new.ver = rec.ver
        /\ new.old = rec.s /\ new.next = r.next /\ new.email = r.email
        /\ new.v = c.v /\ new.age = c.age
    <3> HIDE DEF c
    <3> QED
      BY <1>2, <2>3, <2>4 DEF Calls
  <2> HIDE DEF new
  <2>6. call'[w] = new /\ \A x \in Workers \ {w} : call'[x] = call[x]
    BY <1>2, <2>1
  <2>7. TypeOK'
    <3>1. call' \in [Workers -> Calls]
      BY <1>2, <2>1, <2>5
    <3> QED
      BY <1>1, <3>1 DEF IInv, TypeOK
  <2>8. Prompt'
    BY <1>1, <1>3, <2>5, <2>6 DEF IInv, Prompt
  <2>9. Carries'
    <3>1. ASSUME NEW x \in Workers \ {w}, call'[x].pc = "save" PROVE Loaded(call[x])'
      BY <1>1, <2>6, <3>1 DEF IInv, Carries, Loaded
    <3>2. Loaded(call[w])'
      BY <1>1, <1>2, <1>6, <2>5, <2>6 DEF Loaded, r
    <3> QED
      BY <3>1, <3>2 DEF Carries
  <2>10. Follows' /\ Story'
    BY <1>1 DEF IInv, Follows, Story
  <2>11. Told'
    BY <1>1, <2>5, <2>6 DEF IInv, Told
  <2> QED
    BY <2>7, <2>8, <2>9, <2>10, <2>11 DEF IInv
<1> QED
  BY <1>5, <1>6

LEMMA LoseRaceKeeps ==
    ASSUME IInv, NEW w \in Workers, LoseRace(w)
    PROVE  IInv'
<1>1. /\ UNCHANGED <<now, rec, decided, lastOk, readings, stops>> /\ call[w].pc = "save"
      /\ call' = [call EXCEPT ![w] = Idle]
  BY DEF LoseRace
<1>2. /\ call' \in [Workers -> Calls] /\ Prompt'
      /\ \A x \in Workers \ {w} : call'[x] = call[x]
      /\ call'[w].pc = "idle"
  BY <1>1, EndKeeps DEF IInv
<1>3. TypeOK'
  BY <1>1, <1>2 DEF IInv, TypeOK
<1>4. Carries'
  BY <1>1, <1>2, CarriesKept DEF IInv
<1>5. Follows' /\ Story'
  BY <1>1 DEF IInv, Follows, Story
<1>6. Told'
  BY <1>1, <1>2 DEF IInv, Told
<1> QED
  BY <1>2, <1>3, <1>4, <1>5, <1>6 DEF IInv

LEMMA SettlingKeeps ==
    ASSUME IInv, NEW w \in Workers, Mail(w) \/ MailFails(w) \/ Stop(w)
    PROVE  IInv' /\ DOMAIN decided' = DOMAIN decided
<1>1. /\ UNCHANGED <<now, rec, lastOk, readings>> /\ stops' \in 0 .. MaxStops
      /\ call' = [call EXCEPT ![w] = Idle]
      /\ \E fate \in {"mailed", "logged", "stopped"} : Settle(w, fate)
  BY BoundsAssumption DEF IInv, TypeOK, Mail, MailFails, Stop
<1>2. /\ call' \in [Workers -> Calls] /\ Prompt'
      /\ \A x \in Workers \ {w} : call'[x] = call[x]
      /\ call'[w].pc = "idle"
  BY <1>1, EndKeeps DEF IInv
<1>3. /\ decided' \in Seq(Decision) /\ DOMAIN decided' = DOMAIN decided
      /\ Follows' /\ Story' /\ Told'
  BY <1>1, SettleKeeps
<1>4. TypeOK'
  BY <1>1, <1>2, <1>3 DEF IInv, TypeOK, Decision
<1>5. Carries'
  BY <1>1, <1>2, CarriesKept DEF IInv
<1> QED
  BY <1>2, <1>3, <1>4, <1>5 DEF IInv

(* The new email of a winning save has one sender or is lost with the      *)
(* answer; the earlier emails keep theirs.                                 *)
LEMMA PutTold ==
    ASSUME IInv, NEW w \in Workers, call[w].pc = "save", Wins(w),
           NEW fate \in {w, "unanswered"}, Put(w, fate),
           call \in [Workers -> Calls],
           \A x \in Workers \ {w} : call'[x] = call[x],
           call'[w].pc = "mail" => call'[w].at = call[w].at,
           call'[w].pc = "mail" <=> call[w].email # NoEmail /\ fate = w
    PROVE  Told'
<1> DEFINE n == Len(decided)
           e == Email(call[w], fate)
           terminal == {"mailed", "logged", "stopped", "unanswered"}
<1>1. \A i \in DOMAIN decided : decided[i].fate # w
  BY FateIsMailing DEF IInv
<1>2. Replaces(call[w], rec.s)
  BY WinnerReplaces DEF IInv
<1>3. fate \in Fates
  BY DEF Fates
<1>4. /\ decided' \in Seq(Decision)
      /\ call[w].email = NoEmail => decided' = decided
      /\ call[w].email # NoEmail =>
            /\ Len(decided') = n + 1 /\ decided'[n + 1] = e
            /\ \A i \in 1 .. n : decided'[i] = decided[i]
  BY <1>2, <1>3, PutAppends DEF IInv
<1>5. DOMAIN decided = 1 .. n /\ n \in Nat /\ DOMAIN decided' = 1 .. Len(decided')
  <2>1. decided \in Seq(Decision)
    BY DEF IInv, TypeOK, Decision
  <2> QED
    BY <1>4, <2>1, LenProperties
<1>6. /\ \A i \in 1 .. n :
            decided[i].fate \in terminal \/ \E x \in Workers : decided[i].fate = x /\ call[x].pc = "mail"
      /\ \A x \in Workers :
            call[x].pc = "mail" =>
                \E i \in 1 .. n : /\ decided[i].fate = x /\ decided[i].at = call[x].at
                                  /\ \A j \in (1 .. n) \ {i} : decided[j].fate # x
  BY <1>5 DEF IInv, Told
<1>7. e.fate = fate /\ e.at = call[w].at
  BY DEF Email
<1> HIDE DEF n, e
<1>8. CASE call[w].email = NoEmail
  BY <1>4, <1>5, <1>6, <1>8 DEF Told
<1>9. CASE call[w].email # NoEmail
  <2>1. /\ DOMAIN decided' = 1 .. (n + 1) /\ decided'[n + 1] = e
        /\ \A i \in 1 .. n : decided'[i] = decided[i]
    BY <1>4, <1>5, <1>9
  <2>2. n + 1 \in 1 .. (n + 1) /\ 1 .. (n + 1) = (1 .. n) \union {n + 1}
    BY <1>5
  <2>3. ASSUME NEW i \in 1 .. (n + 1)
        PROVE  decided'[i].fate \in terminal
                   \/ \E x \in Workers : decided'[i].fate = x /\ call'[x].pc = "mail"
    <3>1. CASE i \in 1 .. n
      BY <1>6, <2>1, <3>1
    <3>2. CASE i = n + 1
      BY <1>7, <1>9, <2>1, <3>2
    <3> QED
      BY <2>2, <3>1, <3>2
  <2>4. ASSUME NEW x \in Workers, call'[x].pc = "mail"
        PROVE  \E i \in 1 .. (n + 1) :
                   /\ decided'[i].fate = x /\ decided'[i].at = call'[x].at
                   /\ \A j \in (1 .. (n + 1)) \ {i} : decided'[j].fate # x
    <3>1. CASE x = w
      <4>1. decided'[n + 1].fate = x /\ decided'[n + 1].at = call'[x].at
        BY <1>7, <2>1, <2>4, <3>1
      <4>2. \A j \in (1 .. (n + 1)) \ {n + 1} : decided'[j].fate # x
        BY <1>1, <1>5, <2>1, <2>2, <3>1
      <4> QED
        BY <2>2, <4>1, <4>2
    <3>2. CASE x # w
      <4>1. call'[x] = call[x]
        BY <3>2
      <4>2. PICK i \in 1 .. n : /\ decided[i].fate = x /\ decided[i].at = call[x].at
                                /\ \A j \in (1 .. n) \ {i} : decided[j].fate # x
        BY <1>6, <2>4, <4>1
      <4>3. fate # x
        BY <3>2, WorkersAssumption
      <4>4. decided'[i].fate = x /\ decided'[i].at = call'[x].at
        BY <2>1, <4>1, <4>2
      <4>5. \A j \in (1 .. (n + 1)) \ {i} : decided'[j].fate # x
        BY <1>7, <2>1, <2>2, <4>2, <4>3
      <4> QED
        BY <2>2, <4>4, <4>5
    <3> QED
      BY <3>1, <3>2
  <2> QED
    BY <2>1, <2>3, <2>4 DEF Told
<1> QED
  BY <1>8, <1>9

LEMMA SaveKeeps ==
    ASSUME IInv, NEW w \in Workers, Save(w)
    PROVE  IInv' /\ Patience
<1> DEFINE c == call[w]
<1>1. c.pc = "save" /\ Wins(w) /\ Put(w, w) /\ UNCHANGED <<now, readings, stops>>
  BY DEF Save
<1>2. call \in [Workers -> Calls] /\ c \in Calls
  BY DEF IInv, TypeOK
<1>3. /\ rec' \in [ver : Nat, s : States] /\ Sound(rec'.s)
      /\ decided' \in Seq(Decision) /\ lastOk' \in Times
      /\ Follows' /\ Story' /\ Patience
  BY <1>1, PutKeeps DEF Fates
<1>4. call'[w] = IF c.email = NoEmail THEN Idle ELSE [c EXCEPT !.pc = "mail"]
  BY <1>2 DEF Save
<1>5. /\ call'[w] \in Calls /\ call'[w].pc \in {"idle", "mail"}
      /\ call'[w].pc = "mail" => call'[w].at = c.at
      /\ call'[w].pc = "mail" <=> c.email # NoEmail
  BY <1>2, <1>4, IdleIsCall DEF Calls
<1>6. \A x \in Workers \ {w} : call'[x] = call[x]
  BY <1>2 DEF Save
<1>7. call' \in [Workers -> Calls]
  <2>1. call' = [call EXCEPT ![w] = call'[w]]
    BY <1>2 DEF Save
  <2> QED
    BY <1>2, <1>5, <2>1
<1>8. TypeOK'
  BY <1>1, <1>3, <1>7 DEF IInv, TypeOK, Decision
<1>9. Prompt'
  BY <1>1, <1>5, <1>6 DEF IInv, Prompt
<1>10. Carries'
  <2>1. rec'.ver = rec.ver + 1
    BY <1>1 DEF Put, Wins
  <2> QED
    BY <1>5, <1>6, <2>1, CarriesKept DEF IInv
<1>11. Told'
  BY <1>1, <1>2, <1>5, <1>6, PutTold
<1> QED
  BY <1>3, <1>8, <1>9, <1>10, <1>11 DEF IInv

LEMMA SaveUnansweredKeeps ==
    ASSUME IInv, NEW w \in Workers, SaveUnanswered(w)
    PROVE  IInv' /\ Patience
<1>1. /\ call[w].pc = "save" /\ Wins(w) /\ Put(w, "unanswered") /\ UNCHANGED <<now, readings>>
      /\ call' = [call EXCEPT ![w] = Idle] /\ stops' \in 0 .. MaxStops
  BY BoundsAssumption DEF IInv, TypeOK, SaveUnanswered
<1>2. /\ rec' \in [ver : Nat, s : States] /\ Sound(rec'.s)
      /\ decided' \in Seq(Decision) /\ lastOk' \in Times
      /\ Follows' /\ Story' /\ Patience
  BY <1>1, PutKeeps DEF Fates
<1>3. /\ call' \in [Workers -> Calls] /\ Prompt'
      /\ \A x \in Workers \ {w} : call'[x] = call[x]
      /\ call'[w].pc = "idle"
  BY <1>1, EndKeeps DEF IInv
<1>4. TypeOK'
  BY <1>1, <1>2, <1>3 DEF IInv, TypeOK, Decision
<1>5. Carries'
  <2>1. rec'.ver = rec.ver + 1
    BY <1>1 DEF Put, Wins
  <2> QED
    BY <1>3, <2>1, CarriesKept DEF IInv
<1>6. Told'
  <2>1. w # "unanswered" /\ call \in [Workers -> Calls]
    BY WorkersAssumption DEF IInv, TypeOK
  <2> QED
    BY <1>1, <1>3, <2>1, PutTold
<1> QED
  BY <1>2, <1>3, <1>4, <1>5, <1>6 DEF IInv

-----------------------------------------------------------------------------
(* The theorems.                                                           *)

LEMMA InitHolds == Init => IInv
<1> SUFFICES ASSUME Init PROVE IInv
  OBVIOUS
<1>1. Initial \in States /\ Sound(Initial) /\ Initial.alerting = FALSE /\ Initial.runKind = "none"
  BY DEF Initial, States, Sound, Kinds, Levels, Times
<1>2. decided \in Seq([kind : Emails, v : Volts, at : 0 .. MaxNow, fate : Fates])
      /\ Len(decided) = 0 /\ DOMAIN decided = {}
  BY EmptySeq DEF Init
<1>3. now = 0 /\ lastOk = None /\ None = -1 /\ readings = 0 /\ stops = 0
  BY DEF Init, None
<1>4. now \in 0 .. MaxNow /\ lastOk \in Times /\ readings \in 0 .. MaxReadings /\ stops \in 0 .. MaxStops
  BY <1>3, BoundsAssumption DEF Times
<1>5. call \in [Workers -> Calls] /\ \A w \in Workers : call[w].pc = "idle"
  BY IdleIsCall DEF Init
<1>6. rec \in [ver : Nat, s : States] /\ rec.s = Initial
  BY <1>1 DEF Init
<1>7. TypeOK
  BY <1>1, <1>2, <1>4, <1>5, <1>6 DEF TypeOK
<1>8. Prompt /\ Carries /\ Story /\ Told
  BY <1>2, <1>5 DEF Prompt, Carries, Story, Told
<1>9. Follows
  BY <1>1, <1>2, <1>3, <1>6 DEF Follows, Linked
<1> QED
  BY <1>7, <1>8, <1>9 DEF IInv

LEMMA StepKeeps == IInv /\ [Next]_vars => IInv'
<1> SUFFICES ASSUME IInv, [Next]_vars PROVE IInv'
  OBVIOUS
<1>1. CASE Tick
  BY <1>1, TickKeeps
<1>2. CASE \E w \in Workers, r \in Readings : Arrive(w, r[1], r[2])
  BY <1>2, ArriveKeeps
<1>3. CASE \E w \in Workers : Load(w)
  BY <1>3, LoadKeeps
<1>4. CASE \E w \in Workers : Save(w)
  BY <1>4, SaveKeeps
<1>5. CASE \E w \in Workers : LoseRace(w)
  BY <1>5, LoseRaceKeeps
<1>6. CASE \E w \in Workers : SaveUnanswered(w)
  BY <1>6, SaveUnansweredKeeps
<1>7. CASE \E w \in Workers : Mail(w) \/ MailFails(w) \/ Stop(w)
  BY <1>7, SettlingKeeps
<1>8. CASE UNCHANGED vars
  <2>1. UNCHANGED <<now, rec, call, decided, lastOk, readings, stops>>
    BY <1>8 DEF vars
  <2>2. TypeOK'
    BY <2>1 DEF IInv, TypeOK
  <2>3. Prompt' /\ Carries'
    BY <2>1 DEF IInv, Prompt, Carries, Loaded
  <2>4. Follows' /\ Story' /\ Told'
    BY <2>1 DEF IInv, Follows, Story, Told
  <2> QED
    BY <2>2, <2>3, <2>4 DEF IInv
<1> QED
  BY <1>1, <1>2, <1>3, <1>4, <1>5, <1>6, <1>7, <1>8 DEF Next

LEMMA Inductive == Spec => []IInv
<1> QED
  BY InitHolds, StepKeeps, PTL DEF Spec

(* Every variable keeps its type, and the stored record is always a state  *)
(* of the rule (battery-alert.js:stepBattery).                             *)
THEOREM TypeCorrect == Spec => []TypeOK
<1>1. IInv => TypeOK
  BY DEF IInv
<1> QED
  BY <1>1, Inductive, PTL

(* The emails of a unit tell a coherent story, however its invocations     *)
(* overlap, lose the race, fail or are killed (battery-check.js).          *)
THEOREM StoryCoherent == Spec => []Story
<1>1. IInv => Story
  BY DEF IInv
<1> QED
  BY <1>1, Inductive, PTL

(* Every email that was decided has one sender or a known outcome          *)
(* (battery-check.js:checkBattery, index.js:saveState).                    *)
THEOREM EveryEmailAccounted == Spec => []Told
<1>1. IInv => Told
  BY DEF IInv
<1> QED
  BY <1>1, Inductive, PTL

(* A save steps the record it replaces: the overlapping invocations of a   *)
(* unit are serialized by the version (index.js:saveState).                *)
THEOREM SavesAreSerial == Spec => Serial
<1> DEFINE Stepped == rec' # rec =>
               \E w \in Workers :
                   rec'.s = Step(rec.s, call[w].v, call[w].age, call[w].at).next
<1>1. IInv /\ [Next]_vars => [Stepped]_vars
  <2> SUFFICES ASSUME IInv, Next, rec' # rec
               PROVE  \E w \in Workers :
                          rec'.s = Step(rec.s, call[w].v, call[w].age, call[w].at).next
    OBVIOUS
  <2>1. PICK w \in Workers : Save(w) \/ SaveUnanswered(w)
    BY DEF Next, Tick, Arrive, Load, LoseRace, Mail, MailFails, Stop
  <2>2. call[w].pc = "save" /\ Wins(w) /\ rec' = [ver |-> call[w].ver + 1, s |-> call[w].next]
    BY <2>1 DEF Save, SaveUnanswered, Put
  <2>3. Replaces(call[w], rec.s)
    BY <2>2, WinnerReplaces DEF IInv
  <2> QED
    BY <2>2, <2>3 DEF Replaces
<1> QED
  BY <1>1, Inductive, PTL DEF Spec, Serial

(* The emails keep their distances, to within the tick an overlap costs    *)
(* (battery-alert.js:stepBattery).                                         *)
THEOREM EmailsArePatient == Spec => Patient
<1>1. IInv /\ [Next]_vars => [Patience]_vars
  <2> SUFFICES ASSUME IInv, Next PROVE Patience
    OBVIOUS
  <2>1. CASE \E w \in Workers : Save(w)
    BY <2>1, SaveKeeps
  <2>2. CASE \E w \in Workers : SaveUnanswered(w)
    BY <2>2, SaveUnansweredKeeps
  <2>3. CASE \E w \in Workers : Mail(w) \/ MailFails(w) \/ Stop(w)
    BY <2>3, SettlingKeeps DEF Patience
  <2>4. CASE decided' = decided
    BY <2>4 DEF Patience
  <2> QED
    BY <2>1, <2>2, <2>3, <2>4 DEF Next, Tick, Arrive, Load, LoseRace
<1> QED
  BY <1>1, Inductive, PTL DEF Spec, Patient, Patience
=============================================================================
