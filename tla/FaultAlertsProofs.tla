-------------------------- MODULE FaultAlertsProofs --------------------------
(***************************************************************************)
(* Theorems about FaultAlerts, for every set of faults, people and Lambda  *)
(* instances and every bound.                                              *)
(***************************************************************************)
EXTENDS FaultAlerts, SequenceTheorems, WellFoundedInduction, TLAPS

-----------------------------------------------------------------------------
(* The inductive invariant.                                                *)

Kinds == {"fault", "cleared"}
Mishaps == {"overlap", "gap", "logged", "resent", "unanswered", "stopped"}

(* Every variable has its type.                                            *)
Types ==
    /\ prev \in Codes /\ saved \in Codes
    /\ file \in {"saved", "due", "failed"} /\ torn \in BOOLEAN
    /\ log \in Seq(Codes) /\ Len(log) <= MaxEvents
    /\ calls \in 0 .. MaxCalls
    /\ store \subseteq Published /\ done \subseteq store
    /\ call \in [Workers -> [pc : {"idle", "write", "mail"},
                             ev : 0 .. MaxEvents, seen : 0 .. MaxEvents]]
    /\ mailed \in [Events -> [People -> Nat]]
    /\ kinds \in [Events -> SUBSET Kinds]
    /\ mishap \in [Events -> SUBSET Mishaps]
    /\ crashes \in 0 .. MaxCrashes /\ stops \in 0 .. MaxStops /\ resends \in 0 .. MaxResends

(* The agent: what it saved is what it published, but for the moment       *)
(* between the two and after a save that failed.                           *)
Remembers == file = "saved" => saved = prev

(* An invocation under way is one of a published event, has seen a record  *)
(* that is there, not younger than its event, and mails after its write.   *)
(* Unless records were missing, it has seen the event before its own, or   *)
(* its own.                                                                *)
Looked ==
    \A w \in Workers :
        IF call[w].pc = "idle" THEN call[w].ev = 0
        ELSE /\ call[w].ev \in Published
             /\ call[w].seen <= call[w].ev
             /\ call[w].seen \in store \union {0}
             /\ call[w].pc = "mail" => call[w].ev \in store
             /\ "gap" \notin mishap[call[w].ev] =>
                    call[w].seen = call[w].ev \/ call[w].seen = call[w].ev - 1

(* An invocation of e that found no record of e.                           *)
First(w, e) == call[w].ev = e /\ call[w].seen # e

(* Without an overlap at most one invocation of an event finds no record   *)
(* of it, nobody has the email before that one, and that one sends at most *)
(* two copies, the second by the SES client.                               *)
OneFirst ==
    \A e \in Events :
        "overlap" \notin mishap[e] =>
            /\ e \notin store => \A p \in People : mailed[e][p] = 0
            /\ \A p \in People :
                   mailed[e][p] <= 2 /\ (mailed[e][p] > 1 => "resent" \in mishap[e])
            /\ \A w \in Workers : First(w, e) =>
                   /\ \A p \in People : mailed[e][p] = 0
                   /\ \A v \in Workers : First(v, e) => v = w

(* Nobody mails of an event that is not published.                         *)
NothingEarly == \A e \in Events : e \notin Published => kinds[e] = {}

(* A recorded event that owes an email is still being announced, was       *)
(* announced to everyone, or met a mishap.                                 *)
Announced ==
    \A e \in store :
        Owed(e) # "silent" =>
            \/ \E w \in Workers : First(w, e) /\ call[w].pc = "mail"
            \/ \A p \in People : mailed[e][p] > 0
            \/ mishap[e] \intersect {"logged", "gap", "unanswered", "stopped"} # {}

IInv ==
    /\ Types
    /\ Remembers /\ ClearNotForgotten
    /\ Looked /\ OneFirst /\ NothingEarly /\ OnlyOwed /\ Announced

-----------------------------------------------------------------------------
(* Lemmas about the operators.                                             *)

(* A nonempty set of numbers up to n has a greatest one.                   *)
LEMMA HasMaximum ==
    ASSUME NEW n \in Nat, NEW S \in SUBSET (0 .. n), S # {}
    PROVE  \E m \in S : \A k \in S : k <= m
<1> DEFINE T == {n - k : k \in S}
           R == OpToRel(<, Nat)
<1>1. T \subseteq Nat /\ T # {}
  <2>1. \A k \in S : n - k \in Nat
    OBVIOUS
  <2>2. PICK k \in S : TRUE
    OBVIOUS
  <2>3. n - k \in T
    BY <2>2
  <2> QED
    BY <2>1, <2>3
<1>2. PICK x \in T : \A y \in T : <<y, x>> \notin R
  <2> HIDE DEF T, R
  <2>1. IsWellFoundedOn(R, Nat)
    BY NatLessThanWellFounded DEF R
  <2> QED
    BY <1>1, <2>1, WFMin
<1>3. \A y \in T : ~(y < x)
  BY <1>1, <1>2 DEF OpToRel
<1>4. PICK m \in S : x = n - m
  BY <1>2
<1>5. \A k \in S : k <= m
  <2> TAKE k \in S
  <2>1. ~(n - k < n - m)
    BY <1>3, <1>4
  <2> QED
    BY <2>1
<1> QED
  BY <1>5

(* The lookup finds the newest record that is not younger than the event.  *)
LEMMA NewestProperties ==
    ASSUME store \subseteq Nat, NEW e \in Nat
    PROVE  /\ NewestAt(e) \in store \union {0}
           /\ NewestAt(e) \in Nat /\ NewestAt(e) <= e
           /\ \A r \in store : r <= e => r <= NewestAt(e)
<1> DEFINE older == {r \in store : r <= e}
<1>1. CASE older = {}
  BY <1>1 DEF NewestAt
<1>2. CASE older # {}
  <2>1. older \in SUBSET (0 .. e)
    <3>1. \A r \in older : r \in Nat /\ r <= e
      OBVIOUS
    <3> HIDE DEF older
    <3> QED
      BY <3>1
  <2>2. \E m \in older : \A q \in older : q <= m
    <3> HIDE DEF older
    <3> QED
      BY <1>2, <2>1, HasMaximum
  <2>3. NewestAt(e) = CHOOSE r \in older : \A q \in older : q <= r
    BY <1>2 DEF NewestAt
  <2>4. NewestAt(e) \in older /\ \A q \in older : q <= NewestAt(e)
    <3> HIDE DEF older
    <3> QED
      BY <2>2, <2>3
  <2> QED
    BY <2>4
<1> QED
  BY <1>1, <1>2

(* With every older event recorded, the lookup finds the event before, or  *)
(* the event's own record.                                                 *)
LEMMA NewestWithoutGap ==
    ASSUME store \subseteq Nat, NEW e \in Nat \ {0},
           \A d \in 1 .. e - 1 : d \in store
    PROVE  NewestAt(e) = e \/ NewestAt(e) = e - 1
<1> DEFINE new == NewestAt(e)
<1>a. new \in Nat /\ new <= e
  BY NewestProperties
<1>b. \A r \in store : r <= e => r <= new
  BY NewestProperties
<1> HIDE DEF new
<1>1. CASE e = 1
  BY <1>a, <1>1 DEF new
<1>2. CASE e # 1
  <2>1. e - 1 \in store /\ e - 1 <= e /\ e - 1 \in Nat
    BY <1>2
  <2>2. e - 1 <= new
    BY <1>b, <2>1
  <2>3. new = e \/ new = e - 1
    BY <1>a, <2>2
  <2> QED
    BY <2>3 DEF new
<1> QED
  BY <1>1, <1>2

(* What an invocation mails: nothing for an event it found recorded, what  *)
(* the event owes if it saw the event before.                              *)
LEMMA MailsWhatIsOwed ==
    ASSUME NEW e \in Nat \ {0}
    PROVE  /\ AlertKind(e, e) = "silent"
           /\ AlertKind(e - 1, e) = Owed(e)
<1>1. e # e - 1 /\ (e - 1 = 0 <=> e = 1)
  OBVIOUS
<1> QED
  BY <1>1 DEF AlertKind, Owed

LEMMA KindProperties ==
    ASSUME NEW c, NEW b
    PROVE  Kind(c, b) \in Kinds \union {"silent"}
BY DEF Kind, Kinds

LEMMA AlertKindProperties ==
    ASSUME NEW n, NEW e
    PROVE  AlertKind(n, e) \in Kinds \union {"silent"}
BY KindProperties DEF AlertKind

-----------------------------------------------------------------------------
(* The unit.                                                               *)

LEMMA PublishKeeps ==
    ASSUME IInv, NEW c \in Codes, Publish(c)
    PROVE  IInv'
<1> USE BoundsAssumption DEF unit, lambda
<1>1. /\ log \in Seq(Codes) /\ Len(log) \in Nat /\ Len(log) < MaxEvents
      /\ log' = Append(log, c) /\ store' = store /\ call' = call
      /\ mailed' = mailed /\ kinds' = kinds /\ done' = done /\ mishap' = mishap
  BY LenProperties DEF IInv, Types, Publish
<1>2. /\ log' \in Seq(Codes) /\ Len(log') = Len(log) + 1 /\ log'[Len(log')] = c
      /\ \A i \in Published : log'[i] = log[i]
  BY <1>1, AppendProperties DEF Published
<1>3. Published \subseteq Published'
  BY <1>1, <1>2 DEF Published
<1>4. \A e \in Published : Owed(e)' = Owed(e)
  <2> SUFFICES ASSUME NEW e \in Published
               PROVE  Owed(e)' = Owed(e)
    OBVIOUS
  <2>1. e = 1 \/ e - 1 \in Published
    BY <1>1 DEF Published
  <2> QED
    BY <1>2, <2>1 DEF Owed
<1>5. Types'
  <2>1. prev' \in Codes /\ saved' \in Codes /\ file' \in {"saved", "due", "failed"}
    BY DEF IInv, Types, Publish
  <2>4. torn' \in BOOLEAN
    BY Zenon DEF IInv, Types, Publish
  <2>2. store' \subseteq Published' /\ done' \subseteq store'
    BY <1>1, <1>3 DEF IInv, Types
  <2>3. log' \in Seq(Codes) /\ Len(log') <= MaxEvents
    BY <1>1, <1>2
  <2> QED
    BY <1>1, <2>1, <2>2, <2>3, <2>4 DEF IInv, Types, Publish
<1>6. Remembers' /\ ClearNotForgotten'
  <2>1. log' # <<>>
    BY <1>1, <1>2
  <2> QED
    BY <1>2, <2>1 DEF Publish, Remembers, ClearNotForgotten, LastCode
<1>7. Looked'
  BY <1>1, <1>3 DEF IInv, Looked
<1>8. OneFirst'
  BY <1>1 DEF IInv, OneFirst, First
<1>9. OnlyOwed'
  <2> SUFFICES ASSUME NEW e \in Published', "gap" \notin mishap[e]
               PROVE  kinds[e] \subseteq {Owed(e)'}
    BY <1>1 DEF OnlyOwed
  <2>1. CASE e \in Published
    BY <1>4, <2>1 DEF IInv, OnlyOwed
  <2>2. CASE e \notin Published
    <3>1. e \in Events
      BY <1>1, <1>2 DEF Published, Events
    <3> QED
      BY <2>2, <3>1 DEF IInv, NothingEarly
  <2> QED
    BY <2>1, <2>2
<1>10. Announced'
  BY <1>1, <1>4 DEF IInv, Types, Announced, First
<1>11. NothingEarly'
  BY <1>1, <1>3 DEF IInv, NothingEarly
<1> QED
  BY <1>5, <1>6, <1>7, <1>8, <1>9, <1>10, <1>11 DEF IInv

LEMMA SaveOrRestartKeeps ==
    ASSUME IInv, Save \/ SaveFails \/ Restart
    PROVE  IInv'
<1> USE BoundsAssumption DEF lambda
<1>1. /\ log' = log /\ store' = store /\ call' = call /\ mailed' = mailed
      /\ kinds' = kinds /\ done' = done /\ mishap' = mishap /\ calls' = calls
  BY DEF Save, SaveFails, Restart
<1>2. Types'
  <2>1. /\ prev' \in Codes /\ saved' \in Codes
        /\ crashes' \in 0 .. MaxCrashes /\ stops' \in 0 .. MaxStops
        /\ resends' \in 0 .. MaxResends
    BY DEF IInv, Types, Save, SaveFails, Restart
  <2>2. file' \in {"saved", "due", "failed"} /\ torn' \in BOOLEAN
    BY Zenon DEF IInv, Types, Save, SaveFails, Restart
  <2> QED
    BY <1>1, <2>1, <2>2 DEF IInv, Types, Published
<1>3. Remembers' /\ ClearNotForgotten'
  BY DEF IInv, Types, Save, SaveFails, Restart, Remembers, ClearNotForgotten, LastCode
<1>4. Looked' /\ NothingEarly' /\ OneFirst'
  BY <1>1 DEF IInv, Looked, OneFirst, NothingEarly, First, Published
<1>5. OnlyOwed' /\ Announced'
  BY <1>1 DEF IInv, OnlyOwed, Announced, First, Owed, Published
<1> QED
  BY <1>2, <1>3, <1>4, <1>5 DEF IInv

-----------------------------------------------------------------------------
(* The fault Lambda.                                                       *)

LEMMA LookKeeps ==
    ASSUME IInv, NEW w \in Workers, NEW e \in Events, Look(w, e)
    PROVE  IInv'
<1> USE BoundsAssumption DEF unit
<1>1. /\ call[w] = Idle /\ e \in Published /\ log' = log /\ store' = store
      /\ mailed' = mailed /\ kinds' = kinds /\ done' = done /\ stops' = stops
      /\ resends' = resends /\ calls' = calls + 1 /\ calls < MaxCalls
      /\ call' = [call EXCEPT ![w] = [pc |-> "write", ev |-> e, seen |-> NewestAt(e)]]
      /\ \E marks \in SUBSET Mishaps :
           /\ mishap' = [mishap EXCEPT ![e] = @ \union marks]
           /\ "overlap" \notin marks =>
                \A v \in Workers : ~(call[v].pc = "write" /\ call[v].ev = e)
           /\ "gap" \notin marks => \A d \in 1 .. e - 1 : d \in store
  <2> DEFINE overlap == IF \E v \in Workers : call[v].pc = "write" /\ call[v].ev = e
                        THEN {"overlap"} ELSE {}
             gap == IF \E d \in 1 .. (e - 1) : d \notin store THEN {"gap"} ELSE {}
  <2>1. overlap \union gap \in SUBSET Mishaps
    BY DEF Mishaps
  <2>2. mishap' = [mishap EXCEPT ![e] = @ \union overlap \union gap]
    BY DEF Look
  <2>3. mishap' = [mishap EXCEPT ![e] = @ \union (overlap \union gap)]
    <3> HIDE DEF overlap, gap
    <3> QED
      BY <2>2
  <2> QED
    BY <2>1, <2>3 DEF Look
<1>2. PICK marks \in SUBSET Mishaps :
           /\ mishap' = [mishap EXCEPT ![e] = @ \union marks]
           /\ "overlap" \notin marks =>
                \A v \in Workers : ~(call[v].pc = "write" /\ call[v].ev = e)
           /\ "gap" \notin marks => \A d \in 1 .. e - 1 : d \in store
  BY <1>1
<1>3. store \subseteq Nat /\ e \in Nat \ {0} /\ Len(log) \in Nat /\ store \subseteq Events
  BY LenProperties DEF IInv, Types, Published, Events
<1>4. /\ NewestAt(e) \in store \union {0}
      /\ NewestAt(e) \in Nat /\ NewestAt(e) <= e
      /\ e \in store => NewestAt(e) = e
  <2>1. /\ NewestAt(e) \in store \union {0}
        /\ NewestAt(e) \in Nat /\ NewestAt(e) <= e
        /\ \A r \in store : r <= e => r <= NewestAt(e)
    BY <1>3, NewestProperties
  <2>2. ASSUME e \in store PROVE NewestAt(e) = e
    <3>1. e <= NewestAt(e)
      BY <1>3, <2>1, <2>2
    <3> QED
      BY <1>3, <2>1, <3>1
  <2> QED
    BY <2>1, <2>2
<1>5. /\ call'[w] = [pc |-> "write", ev |-> e, seen |-> NewestAt(e)]
      /\ \A v \in Workers \ {w} : call'[v] = call[v]
  BY <1>1 DEF IInv, Types
<1>6. /\ mishap'[e] = mishap[e] \union marks
      /\ \A d \in Events \ {e} : mishap'[d] = mishap[d]
      /\ \A d \in Events : mishap[d] \subseteq mishap'[d]
      /\ mishap' \in [Events -> SUBSET Mishaps]
  BY <1>2 DEF IInv, Types
<1>7. Types'
  <2>1. call' \in [Workers -> [pc : {"idle", "write", "mail"},
                               ev : 0 .. MaxEvents, seen : 0 .. MaxEvents]]
    <3>1. NewestAt(e) \in 0 .. MaxEvents
      BY <1>4 DEF Events
    <3> QED
      BY <1>1, <3>1 DEF IInv, Types, Events
  <2>2. calls' \in 0 .. MaxCalls
    BY <1>1 DEF IInv, Types
  <2> QED
    BY <1>1, <1>6, <2>1, <2>2 DEF IInv, Types, Look, Published
<1>8. Remembers' /\ ClearNotForgotten'
  BY <1>1 DEF IInv, Look, Remembers, ClearNotForgotten, LastCode
<1>9. Looked'
  <2> SUFFICES ASSUME NEW v \in Workers
               PROVE  IF call'[v].pc = "idle" THEN call'[v].ev = 0
                      ELSE /\ call'[v].ev \in Published
                           /\ call'[v].seen <= call'[v].ev
                           /\ call'[v].seen \in store \union {0}
                           /\ call'[v].pc = "mail" => call'[v].ev \in store
                           /\ "gap" \notin mishap'[call'[v].ev] =>
                                call'[v].seen = call'[v].ev \/ call'[v].seen = call'[v].ev - 1
    BY <1>1 DEF Looked, Published
  <2>1. CASE v = w
    <3>1. "gap" \notin mishap'[e] => NewestAt(e) = e \/ NewestAt(e) = e - 1
      BY <1>2, <1>3, <1>6, NewestWithoutGap
    <3> QED
      BY <1>1, <1>4, <1>5, <2>1, <3>1
  <2>2. CASE v # w
    <3>1. call'[v] = call[v]
      BY <1>5, <2>2
    <3>2. call[v].pc # "idle" => mishap[call[v].ev] \subseteq mishap'[call[v].ev]
      BY <1>6 DEF IInv, Types, Looked, Published, Events
    <3> QED
      BY <3>1, <3>2 DEF IInv, Looked
  <2> QED
    BY <2>1, <2>2
<1>10. OneFirst'
  <2> SUFFICES ASSUME NEW d \in Events, "overlap" \notin mishap'[d]
               PROVE  /\ d \notin store => \A p \in People : mailed[d][p] = 0
                      /\ \A p \in People :
                             mailed[d][p] <= 2 /\ (mailed[d][p] > 1 => "resent" \in mishap'[d])
                      /\ \A v \in Workers : First(v, d)' =>
                             /\ \A p \in People : mailed[d][p] = 0
                             /\ \A u \in Workers : First(u, d)' => u = v
    BY <1>1 DEF OneFirst
  <2>1. /\ d \notin store => \A p \in People : mailed[d][p] = 0
        /\ \A p \in People :
               mailed[d][p] <= 2 /\ (mailed[d][p] > 1 => "resent" \in mishap[d])
        /\ \A v \in Workers : First(v, d) =>
               /\ \A p \in People : mailed[d][p] = 0
               /\ \A u \in Workers : First(u, d) => u = v
        /\ mishap[d] \subseteq mishap'[d]
    BY <1>6 DEF IInv, OneFirst
  <2>2. \A v \in Workers \ {w} : First(v, d)' <=> First(v, d)
    BY <1>5 DEF First
  <2>3. First(w, d)' => d = e /\ e \notin store
    BY <1>4, <1>5 DEF First
  <2>4. ASSUME d = e, e \notin store, NEW v \in Workers
        PROVE  ~First(v, d)
    <3>1. "overlap" \notin marks
      BY <1>6, <2>4
    <3>2. ~(call[v].pc = "write" /\ call[v].ev = e)
      BY <1>2, <3>1
    <3>3. call[v].ev = e => call[v].pc = "write"
      BY <1>3, <2>4 DEF IInv, Types, Looked
    <3> QED
      BY <2>4, <3>2, <3>3 DEF First
  <2> QED
    BY <2>1, <2>2, <2>3, <2>4
<1>11. NothingEarly' /\ OnlyOwed'
  BY <1>1, <1>6 DEF IInv, NothingEarly, OnlyOwed, Owed, Published, Events, Types
<1>12. Announced'
  <2> SUFFICES ASSUME NEW d \in store, Owed(d) # "silent"
               PROVE  \/ \E v \in Workers : First(v, d)' /\ call'[v].pc = "mail"
                      \/ \A p \in People : mailed[d][p] > 0
                      \/ mishap'[d] \intersect {"logged", "gap", "unanswered", "stopped"} # {}
    BY <1>1 DEF Announced, Owed
  <2>1. mishap[d] \subseteq mishap'[d]
    BY <1>3, <1>6
  <2>2. \A v \in Workers : First(v, d) /\ call[v].pc = "mail" =>
                               First(v, d)' /\ call'[v].pc = "mail"
    <3>1. call[w].pc = Idle.pc
      BY <1>1
    <3>2. Idle.pc # "mail"
      BY DEF Idle
    <3> QED
      BY <1>5, <3>1, <3>2 DEF First
  <2> QED
    BY <2>1, <2>2 DEF IInv, Announced
<1> QED
  BY <1>7, <1>8, <1>9, <1>10, <1>11, <1>12 DEF IInv

(* What is known of an invocation under way.                               *)
LEMMA UnderWay ==
    ASSUME IInv, NEW w \in Workers, call[w].pc # "idle"
    PROVE  /\ call[w].ev \in Published /\ call[w].ev \in Events
           /\ call[w].ev \in Nat \ {0}
           /\ store \subseteq Events
           /\ \A v \in Workers : call[v].ev = call[w].ev => call[v].pc # "idle"
<1>1. call[w].ev \in Published /\ \A v \in Workers : call[v].pc = "idle" => call[v].ev = 0
  BY DEF IInv, Looked
<1>2. Published \subseteq Events /\ Events \subseteq Nat \ {0}
  BY BoundsAssumption, LenProperties DEF IInv, Types, Published, Events
<1>3. store \subseteq Published
  BY DEF IInv, Types
<1> QED
  BY <1>1, <1>2, <1>3

(* The steps that record an event: its write lands, with or without an     *)
(* answer.                                                                 *)
LEMMA WriteKeeps ==
    ASSUME IInv, NEW w \in Workers, Write(w)
    PROVE  IInv'
<1> DEFINE e == call[w].ev
<1> USE DEF unit
<1>1. /\ call[w].pc = "write" /\ log' = log /\ store' = store \union {e}
      /\ mailed' = mailed /\ kinds' = kinds /\ done' = done /\ mishap' = mishap
      /\ calls' = calls /\ stops' = stops /\ resends' = resends
      /\ call' = [call EXCEPT ![w].pc = "mail"]
  BY DEF Write
<1>2. /\ e \in Published /\ e \in Events /\ e \in Nat \ {0} /\ store \subseteq Events
  BY <1>1, UnderWay
<1> HIDE DEF e
<1>3. /\ call'[w] = [call[w] EXCEPT !.pc = "mail"]
      /\ call'[w].pc = "mail" /\ call'[w].ev = e /\ call'[w].seen = call[w].seen
      /\ \A v \in Workers \ {w} : call'[v] = call[v]
  BY <1>1 DEF IInv, Types, e
<1>4. Types'
  <2>1. call' \in [Workers -> [pc : {"idle", "write", "mail"},
                               ev : 0 .. MaxEvents, seen : 0 .. MaxEvents]]
    BY <1>1 DEF IInv, Types
  <2>2. store' \subseteq Published' /\ done' \subseteq store'
    BY <1>1, <1>2 DEF IInv, Types, Published
  <2> QED
    BY <1>1, <2>1, <2>2 DEF IInv, Types, Write, Published
<1>5. Remembers' /\ ClearNotForgotten'
  BY <1>1 DEF IInv, Write, Remembers, ClearNotForgotten, LastCode
<1>6. Looked'
  <2> SUFFICES ASSUME NEW v \in Workers
               PROVE  IF call'[v].pc = "idle" THEN call'[v].ev = 0
                      ELSE /\ call'[v].ev \in Published
                           /\ call'[v].seen <= call'[v].ev
                           /\ call'[v].seen \in store' \union {0}
                           /\ call'[v].pc = "mail" => call'[v].ev \in store'
                           /\ "gap" \notin mishap[call'[v].ev] =>
                                call'[v].seen = call'[v].ev \/ call'[v].seen = call'[v].ev - 1
    BY <1>1 DEF Looked, Published
  <2>1. CASE v = w
    BY <1>1, <1>2, <1>3, <2>1 DEF IInv, Looked, e
  <2>2. CASE v # w
    BY <1>1, <1>3, <2>2 DEF IInv, Looked
  <2> QED
    BY <2>1, <2>2
<1>7. \A v \in Workers, d \in Events : First(v, d)' <=> First(v, d)
  BY <1>3 DEF First, e
<1>8. OneFirst'
  BY <1>1, <1>7 DEF IInv, OneFirst
<1>9. NothingEarly' /\ OnlyOwed'
  BY <1>1 DEF IInv, NothingEarly, OnlyOwed, Owed, Published
<1>10. Announced'
  <2> SUFFICES ASSUME NEW d \in store', Owed(d) # "silent"
               PROVE  \/ \E v \in Workers : First(v, d)' /\ call'[v].pc = "mail"
                      \/ \A p \in People : mailed[d][p] > 0
                      \/ mishap[d] \intersect {"logged", "gap", "unanswered", "stopped"} # {}
    BY <1>1 DEF Announced, Owed
  <2>1. CASE d \in store
    <3>1. \A v \in Workers : First(v, d) /\ call[v].pc = "mail" =>
                               First(v, d)' /\ call'[v].pc = "mail"
      BY <1>1, <1>2, <1>3, <1>7, <2>1
    <3> QED
      BY <2>1, <3>1 DEF IInv, Announced
  <2>2. CASE d \notin store
    <3>1. d = e
      BY <1>1, <2>2
    <3>2. call[w].seen # e
      BY <1>1, <1>2, <2>2, <3>1 DEF IInv, Looked
    <3> QED
      BY <1>3, <3>1, <3>2 DEF First
  <2> QED
    BY <2>1, <2>2
<1> QED
  BY <1>4, <1>5, <1>6, <1>8, <1>9, <1>10 DEF IInv

(* Emailing nobody changes nothing.                                        *)
LEMMA SendNobody ==
    ASSUME Types, NEW e \in Events, NEW k, mailed' = mailed, kinds' = kinds, resends' = resends
    PROVE  Send(e, k, {}, {})
<1>1. mailed[e] \in [People -> Nat] /\ mailed \in [Events -> [People -> Nat]]
  BY DEF Types
<1>2. mailed[e] = [p \in People |-> mailed[e][p] + 0 + 0]
  <2>1. \A p \in People : mailed[e][p] + 0 + 0 = mailed[e][p]
    BY <1>1
  <2> QED
    BY <1>1, <2>1
<1>3. mailed' = [mailed EXCEPT ![e] = [p \in People |-> mailed[e][p] + 0 + 0]]
  BY <1>1, <1>2
<1> QED
  BY <1>3 DEF Send

(* Emailing some adds one copy each, and the kind of the email.            *)
LEMMA CopiesAreCounted ==
    ASSUME Types
    PROVE  \A e \in Events : mailed[e] \in [People -> Nat] /\ \A p \in People : mailed[e][p] \in Nat
BY DEF Types

LEMMA SendProperties ==
    ASSUME Types, NEW e \in Events, NEW k \in Kinds \union {"silent"},
           NEW reached \in SUBSET People, NEW twice \in SUBSET People,
           k = "silent" => reached = {}, Send(e, k, reached, twice)
    PROVE  /\ mailed' \in [Events -> [People -> Nat]]
           /\ kinds' \in [Events -> SUBSET Kinds]
           /\ resends' \in 0 .. MaxResends /\ twice \subseteq reached
           /\ \A d \in Events \ {e} : mailed'[d] = mailed[d] /\ kinds'[d] = kinds[d]
           /\ \A p \in People :
                 /\ p \notin reached => mailed'[e][p] = mailed[e][p]
                 /\ p \in reached \ twice => mailed'[e][p] = mailed[e][p] + 1
                 /\ p \in twice => mailed'[e][p] = mailed[e][p] + 2
           /\ kinds'[e] \subseteq kinds[e] \union ({k} \ {"silent"})
<1> DEFINE more(p) == mailed[e][p] + (IF p \in reached THEN 1 ELSE 0)
                                   + (IF p \in twice THEN 1 ELSE 0)
<1>1. mailed' = [mailed EXCEPT ![e] = [p \in People |-> more(p)]] /\ twice \subseteq reached
  BY DEF Send
<1>2. \A p \in People :
         /\ more(p) \in Nat
         /\ p \notin reached => more(p) = mailed[e][p]
         /\ p \in reached \ twice => more(p) = mailed[e][p] + 1
         /\ p \in twice => more(p) = mailed[e][p] + 2
  <2> TAKE p \in People
  <2>1. mailed[e][p] \in Nat
    BY CopiesAreCounted
  <2> QED
    BY <1>1, <2>1
<1> HIDE DEF more
<1>3. /\ mailed' \in [Events -> [People -> Nat]]
      /\ \A d \in Events \ {e} : mailed'[d] = mailed[d]
      /\ mailed'[e] = [p \in People |-> more(p)]
  <2>1. [p \in People |-> more(p)] \in [People -> Nat]
    BY <1>2, Zenon
  <2> QED
    BY <1>1, <2>1 DEF Types
<1>4. \A p \in People : mailed'[e][p] = more(p)
  BY <1>3
<1>5. resends' \in 0 .. MaxResends
  BY BoundsAssumption DEF Send, Types
<1>6. /\ kinds' \in [Events -> SUBSET Kinds]
      /\ \A d \in Events \ {e} : kinds'[d] = kinds[d]
      /\ kinds'[e] \subseteq kinds[e] \union ({k} \ {"silent"})
  <2>1. CASE reached = {}
    <3>1. kinds' = kinds
      BY <2>1 DEF Send
    <3> QED
      BY <3>1 DEF Types
  <2>2. CASE reached # {}
    <3>1. kinds' = [kinds EXCEPT ![e] = @ \union {k}] /\ k # "silent"
      BY <2>2 DEF Send
    <3> QED
      BY <3>1 DEF Types
  <2> QED
    BY <2>1, <2>2
<1> QED
  BY <1>1, <1>2, <1>3, <1>4, <1>5, <1>6

(* An invocation ends, whatever it had done: it has emailed some people    *)
(* (nobody before its write), and a mishap is noted where the event needs  *)
(* one.                                                                    *)
Ends(w, reached, twice, marks) ==
    LET e == call[w].ev
        k == AlertKind(call[w].seen, e)
    IN  /\ k = "silent" \/ call[w].pc = "write" => reached = {}
        /\ Send(e, k, reached, twice) /\ (twice # {} => "resent" \in marks)
        /\ call' = [call EXCEPT ![w] = Idle]
        /\ mishap' = [mishap EXCEPT ![e] = @ \union marks]
        /\ store' = store \/ (store' = store \union {e} /\ "unanswered" \in marks)
        /\ call[w].pc = "mail" /\ k # "silent" =>
               reached = People \/ marks \intersect {"logged", "stopped"} # {}
        /\ done' \subseteq store' /\ stops' \in 0 .. MaxStops
        /\ log' = log /\ calls' = calls /\ UNCHANGED unit

LEMMA EndKeeps ==
    ASSUME IInv, NEW w \in Workers, call[w].pc # "idle",
           NEW reached \in SUBSET People, NEW twice \in SUBSET People,
           NEW marks \in SUBSET Mishaps, Ends(w, reached, twice, marks)
    PROVE  IInv'
<1> DEFINE e == call[w].ev
           k == AlertKind(call[w].seen, e)
<1>k. AlertKind(call[w].seen, e) = k /\ call[w].ev = e
  OBVIOUS
<1>0. /\ k = "silent" => reached = {}
      /\ call[w].pc = "write" => reached = {}
      /\ Send(e, k, reached, twice) /\ (twice # {} => "resent" \in marks)
      /\ call' = [call EXCEPT ![w] = Idle]
      /\ mishap' = [mishap EXCEPT ![e] = @ \union marks]
      /\ store' = store \/ (store' = store \union {e} /\ "unanswered" \in marks)
      /\ call[w].pc = "mail" /\ k # "silent" =>
             reached = People \/ marks \intersect {"logged", "stopped"} # {}
      /\ done' \subseteq store' /\ stops' \in 0 .. MaxStops
      /\ log' = log /\ calls' = calls
      /\ prev' = prev /\ saved' = saved /\ file' = file /\ torn' = torn
      /\ crashes' = crashes
  BY DEF Ends, unit
<1>g. /\ e \in Published /\ e \in Events /\ e \in Nat \ {0} /\ store \subseteq Events
      /\ \A v \in Workers : call[v].ev = e => call[v].pc # "idle"
  BY UnderWay
<1>h. k \in Kinds \union {"silent"}
  BY AlertKindProperties
<1> HIDE DEF e, k
<1>1. /\ e \in Published /\ e \in Events /\ e \in Nat \ {0} /\ store \subseteq Events
      /\ \A v \in Workers : call[v].ev = e => call[v].pc # "idle"
  BY <1>g
<1>2. k \in Kinds \union {"silent"} /\ Types /\ (k = "silent" => reached = {})
  BY <1>h, <1>0 DEF IInv
<1>c. \A d \in Events, p \in People : mailed[d][p] \in Nat
  BY <1>2, CopiesAreCounted
<1>p. Published \subseteq Events
  BY <1>2, BoundsAssumption, LenProperties DEF Types, Published, Events
<1>3. /\ mailed' \in [Events -> [People -> Nat]]
      /\ kinds' \in [Events -> SUBSET Kinds]
      /\ resends' \in 0 .. MaxResends /\ twice \subseteq reached
      /\ \A d \in Events \ {e} : mailed'[d] = mailed[d] /\ kinds'[d] = kinds[d]
      /\ \A p \in People :
            /\ p \notin reached => mailed'[e][p] = mailed[e][p]
            /\ p \in reached \ twice => mailed'[e][p] = mailed[e][p] + 1
            /\ p \in twice => mailed'[e][p] = mailed[e][p] + 2
      /\ kinds'[e] \subseteq kinds[e] \union ({k} \ {"silent"})
  BY <1>0, <1>1, <1>2, SendProperties
<1>4. /\ mishap'[e] = mishap[e] \union marks
      /\ \A d \in Events \ {e} : mishap'[d] = mishap[d]
      /\ \A d \in Events : mishap[d] \subseteq mishap'[d]
      /\ mishap' \in [Events -> SUBSET Mishaps]
  BY <1>0, <1>1, <1>2 DEF Types
<1>5. /\ call'[w].pc = "idle" /\ call'[w].ev = 0
      /\ \A v \in Workers \ {w} : call'[v] = call[v]
      /\ call' \in [Workers -> [pc : {"idle", "write", "mail"},
                                ev : 0 .. MaxEvents, seen : 0 .. MaxEvents]]
  <2>1. Idle \in [pc : {"idle", "write", "mail"}, ev : 0 .. MaxEvents, seen : 0 .. MaxEvents]
    <3>1. 0 \in 0 .. MaxEvents
      BY BoundsAssumption
    <3> QED
      BY <3>1, Zenon DEF Idle
  <2>2. Idle.pc = "idle" /\ Idle.ev = 0
    BY DEF Idle
  <2>3. call'[w] = Idle
    BY <1>0, <1>2 DEF Types
  <2> QED
    BY <1>0, <1>2, <2>1, <2>2, <2>3 DEF Types
<1>6. store \subseteq store' /\ store' \subseteq Published' /\ Published' = Published
  BY <1>0, <1>1, <1>2 DEF Types, Published
<1>7. \A v \in Workers, d \in Events : First(v, d)' <=> First(v, d) /\ v # w
  BY <1>k, <1>1, <1>5 DEF First, Events
<1>8. Types'
  BY <1>0, <1>2, <1>3, <1>4, <1>5, <1>6 DEF Types
<1>9. Remembers' /\ ClearNotForgotten'
  BY <1>0 DEF IInv, Remembers, ClearNotForgotten, LastCode
<1>10. Looked'
  <2> SUFFICES ASSUME NEW v \in Workers
               PROVE  IF call'[v].pc = "idle" THEN call'[v].ev = 0
                      ELSE /\ call'[v].ev \in Published
                           /\ call'[v].seen <= call'[v].ev
                           /\ call'[v].seen \in store' \union {0}
                           /\ call'[v].pc = "mail" => call'[v].ev \in store'
                           /\ "gap" \notin mishap'[call'[v].ev] =>
                                call'[v].seen = call'[v].ev \/ call'[v].seen = call'[v].ev - 1
    BY <1>6 DEF Looked
  <2>1. CASE v = w
    BY <1>5, <2>1
  <2>2. CASE v # w
    <3>1. call'[v] = call[v]
      BY <1>5, <2>2
    <3>2. call[v].pc # "idle" => mishap[call[v].ev] \subseteq mishap'[call[v].ev]
      BY <1>4, <1>p DEF IInv, Looked
    <3> QED
      BY <1>6, <3>1, <3>2 DEF IInv, Looked
  <2> QED
    BY <2>1, <2>2
<1>11. OneFirst'
  <2> SUFFICES ASSUME NEW d \in Events, "overlap" \notin mishap'[d]
               PROVE  /\ d \notin store' => \A p \in People : mailed'[d][p] = 0
                      /\ \A p \in People :
                             mailed'[d][p] <= 2 /\ (mailed'[d][p] > 1 => "resent" \in mishap'[d])
                      /\ \A v \in Workers : First(v, d)' =>
                             /\ \A p \in People : mailed'[d][p] = 0
                             /\ \A u \in Workers : First(u, d)' => u = v
    BY DEF OneFirst
  <2>1. /\ d \notin store => \A p \in People : mailed[d][p] = 0
        /\ \A p \in People :
               mailed[d][p] <= 2 /\ (mailed[d][p] > 1 => "resent" \in mishap[d])
        /\ \A v \in Workers : First(v, d) =>
               /\ \A p \in People : mailed[d][p] = 0
               /\ \A u \in Workers : First(u, d) => u = v
        /\ mishap[d] \subseteq mishap'[d]
    BY <1>4 DEF IInv, OneFirst
  <2>2. CASE reached = {} \/ d # e
    <3>1. \A p \in People : mailed'[d][p] = mailed[d][p]
      BY <1>3, <2>2
    <3> QED
      BY <1>6, <1>7, <2>1, <3>1
  <2>3. CASE reached # {} /\ d = e
    <3>1. call[w].pc = "mail" /\ k # "silent"
      BY <1>0, <1>2, <2>3 DEF Types
    <3>2. e \in store
      BY <1>k, <3>1 DEF IInv, Looked
    <3>3. First(w, e)
      BY <1>k, <1>1, <3>1, MailsWhatIsOwed DEF First
    <3>4. \A p \in People : mailed[d][p] = 0
      BY <2>1, <2>3, <3>3
    <3>5. twice # {} => "resent" \in mishap'[d]
      BY <1>0, <1>4, <2>3
    <3>6. ASSUME NEW p \in People
          PROVE  mailed'[d][p] <= 2 /\ (mailed'[d][p] > 1 => "resent" \in mishap'[d])
      <4>1. CASE p \in twice
        BY <1>3, <2>3, <3>4, <3>5, <4>1
      <4>2. CASE p \notin twice
        BY <1>3, <2>3, <3>4, <4>2
      <4> QED
        BY <4>1, <4>2
    <3> QED
      BY <1>6, <1>7, <2>1, <2>3, <3>2, <3>3, <3>6
  <2> QED
    BY <2>2, <2>3
<1>12. NothingEarly'
  BY <1>1, <1>3, <1>6 DEF IInv, NothingEarly
<1>13. k # "silent" /\ "gap" \notin mishap'[e] => k = Owed(e) /\ call[w].seen = e - 1
  <2>1. "gap" \notin mishap'[e] => call[w].seen = e \/ call[w].seen = e - 1
    BY <1>k, <1>0, <1>1, <1>4 DEF IInv, Looked
  <2> QED
    BY <1>k, <1>1, <2>1, MailsWhatIsOwed
<1>14. OnlyOwed'
  <2> SUFFICES ASSUME NEW d \in Published, "gap" \notin mishap'[d]
               PROVE  kinds'[d] \subseteq {Owed(d)}
    BY <1>0, <1>6 DEF OnlyOwed, Owed
  <2>1. d \in Events
    BY <1>p
  <2>2. kinds[d] \subseteq {Owed(d)}
    BY <1>4, <2>1 DEF IInv, OnlyOwed
  <2> QED
    BY <1>3, <1>13, <2>1, <2>2
<1>15. Announced'
  <2> SUFFICES ASSUME NEW d \in store', Owed(d) # "silent",
                      mishap'[d] \intersect {"logged", "gap", "unanswered", "stopped"} = {}
               PROVE  \/ \E v \in Workers : First(v, d)' /\ call'[v].pc = "mail"
                      \/ \A p \in People : mailed'[d][p] > 0
    BY <1>0 DEF Announced, Owed
  <2>1. d \in store /\ d \in Events
    <3>1. d \in store
      BY <1>0, <1>1, <1>4
    <3> QED
      BY <1>1, <3>1
  <2>2. \/ \E v \in Workers : First(v, d) /\ call[v].pc = "mail"
        \/ \A p \in People : mailed[d][p] > 0
    <3>1. mishap[d] \subseteq mishap'[d]
      BY <1>4, <2>1
    <3> QED
      BY <2>1, <3>1 DEF IInv, Announced
  <2>3. CASE \A p \in People : mailed[d][p] > 0
    <3> SUFFICES ASSUME NEW p \in People PROVE mailed'[d][p] > 0
      OBVIOUS
    <3>1. mailed[d][p] \in Nat /\ mailed[d][p] > 0
      BY <1>c, <2>1, <2>3
    <3>2. mailed'[d][p] \in {mailed[d][p], mailed[d][p] + 1, mailed[d][p] + 2}
      BY <1>3, <2>1
    <3> QED
      BY <3>1, <3>2
  <2>4. CASE \E v \in Workers : First(v, d) /\ call[v].pc = "mail"
    <3> PICK v \in Workers : First(v, d) /\ call[v].pc = "mail"
      BY <2>4
    <3>1. CASE v # w
      BY <1>5, <1>7, <2>1, <3>1
    <3>2. CASE v = w
      <4>1. d = e /\ call[w].seen # e /\ call[w].pc = "mail"
        BY <1>k, <3>2 DEF First
      <4>2. "gap" \notin mishap'[e]
        BY <4>1
      <4>3. call[w].seen = e - 1
        BY <1>k, <1>1, <1>4, <4>1, <4>2 DEF IInv, Looked
      <4>4. k # "silent"
        BY <1>k, <1>1, <4>1, <4>3, MailsWhatIsOwed
      <4>5. reached = People
        BY <1>0, <1>4, <4>1, <4>4
      <4>6. \A p \in People : /\ mailed[e][p] \in Nat
                               /\ mailed'[e][p] \in {mailed[e][p] + 1, mailed[e][p] + 2}
        BY <1>1, <1>3, <1>c, <4>5
      <4> QED
        BY <4>1, <4>6
    <3> QED
      BY <3>1, <3>2
  <2> QED
    BY <2>2, <2>3, <2>4
<1> QED
  BY <1>8, <1>9, <1>10, <1>11, <1>12, <1>14, <1>15 DEF IInv

LEMMA MailKeeps ==
    ASSUME IInv, NEW w \in Workers, NEW reached \in SUBSET People, NEW twice \in SUBSET People,
           Mail(w, reached, twice) \/ StopMailing(w, reached, twice)
    PROVE  IInv'
<1> DEFINE e == call[w].ev
           k == AlertKind(call[w].seen, e)
<1>1. call[w].pc = "mail"
  BY DEF Mail, StopMailing
<1>2. e \in store /\ e \in Events
  BY <1>1, UnderWay DEF IInv, Looked
<1>3. /\ twice # {} => "resent" \in Resent(twice)
      /\ Resent(twice) \subseteq Mishaps /\ Logged(k, reached) \subseteq Mishaps
      /\ k # "silent" => reached = People \/ "logged" \in Logged(k, reached)
  <2> HIDE DEF k
  <2> QED
    BY DEF Resent, Logged, Mishaps
<1>4. \E marks \in SUBSET Mishaps : Ends(w, reached, twice, marks)
  <2>1. CASE StopMailing(w, reached, twice)
    <3> DEFINE marks == {"stopped"} \union Resent(twice)
    <3>1. done' \subseteq store' /\ stops' \in 0 .. MaxStops
      BY <2>1, BoundsAssumption DEF StopMailing, Fail, IInv, Types
    <3>2. /\ marks \in SUBSET Mishaps /\ marks \intersect {"logged", "stopped"} # {}
          /\ twice # {} => "resent" \in marks
      BY <1>3 DEF Mishaps
    <3>3. mishap' = [mishap EXCEPT ![e] = @ \union marks]
      BY <2>1 DEF StopMailing, Fail
    <3> HIDE DEF marks
    <3>4. Ends(w, reached, twice, marks)
      BY <1>1, <2>1, <3>1, <3>2, <3>3 DEF Ends, StopMailing, Fail
    <3> QED
      BY <3>2, <3>4
  <2>2. CASE Mail(w, reached, twice)
    <3>1. done' \subseteq store' /\ stops' \in 0 .. MaxStops
      BY <1>2, <2>2 DEF Mail, IInv, Types
    <3>2. mishap' = [mishap EXCEPT ![e] = @ \union (Resent(twice) \union Logged(k, reached))]
      <4>1. mishap' = [mishap EXCEPT ![e] = @ \union Resent(twice) \union Logged(k, reached)]
        BY <2>2 DEF Mail
      <4> HIDE DEF e, k
      <4> QED
        BY <4>1
    <3>3. Ends(w, reached, twice, Resent(twice) \union Logged(k, reached))
      BY <1>1, <1>3, <2>2, <3>1, <3>2 DEF Ends, Mail
    <3> QED
      BY <1>3, <3>3
  <2> QED
    BY <2>1, <2>2
<1> QED
  BY <1>1, <1>4, EndKeeps

LEMMA FailKeeps ==
    ASSUME IInv, NEW w \in Workers, FailBefore(w) \/ FailUnanswered(w)
    PROVE  IInv'
<1> DEFINE e == call[w].ev
           k == AlertKind(call[w].seen, e)
<1>1. call[w].pc = "write" /\ mailed' = mailed /\ kinds' = kinds /\ resends' = resends
  BY DEF FailBefore, FailUnanswered
<1>2. e \in Events
  BY <1>1, UnderWay
<1>3. Send(e, k, {}, {})
  <2> HIDE DEF e, k
  <2> QED
    BY <1>1, <1>2, SendNobody DEF IInv
<1>4. done' \subseteq store' /\ stops' \in 0 .. MaxStops
  BY BoundsAssumption DEF FailBefore, FailUnanswered, Fail, IInv, Types
<1>5. CASE FailBefore(w)
  <2>1. Ends(w, {}, {}, {})
    BY <1>1, <1>3, <1>4, <1>5 DEF Ends, FailBefore, Fail
  <2> QED
    BY <1>1, <2>1, EndKeeps
<1>6. CASE FailUnanswered(w)
  <2>1. Ends(w, {}, {}, {"unanswered"})
    BY <1>1, <1>3, <1>4, <1>6 DEF Ends, FailUnanswered, Fail
  <2> QED
    BY <1>1, <2>1, EndKeeps DEF Mishaps
<1> QED
  BY <1>5, <1>6

-----------------------------------------------------------------------------
(* The theorems.                                                           *)

LEMMA InitHolds == Init => IInv
<1> SUFFICES ASSUME Init PROVE IInv
  OBVIOUS
<1>1. Published = {} /\ LastCode = "none" /\ "none" \in Codes
  BY DEF Init, Published, LastCode, Codes
<1>2. Idle \in [pc : {"idle", "write", "mail"}, ev : 0 .. MaxEvents, seen : 0 .. MaxEvents]
      /\ Idle.pc = "idle" /\ Idle.ev = 0 /\ Idle.seen = 0
  <2>1. 0 \in 0 .. MaxEvents
    BY BoundsAssumption
  <2> QED
    BY <2>1 DEF Idle
<1>3. Types
  <2>1. log \in Seq(Codes) /\ Len(log) <= MaxEvents
    BY BoundsAssumption, EmptySeq DEF Init
  <2>2. prev \in Codes /\ saved \in Codes /\ file \in {"saved", "due", "failed"}
    BY <1>1 DEF Init
  <2>8. torn \in BOOLEAN
    BY Zenon DEF Init
  <2>3. /\ calls \in 0 .. MaxCalls /\ crashes \in 0 .. MaxCrashes
        /\ stops \in 0 .. MaxStops /\ resends \in 0 .. MaxResends
    BY BoundsAssumption DEF Init
  <2>4. store \subseteq Published /\ done \subseteq store
    BY DEF Init
  <2>5. call \in [Workers -> [pc : {"idle", "write", "mail"},
                             ev : 0 .. MaxEvents, seen : 0 .. MaxEvents]]
    BY <1>2 DEF Init
  <2>6. mailed \in [Events -> [People -> Nat]]
    BY DEF Init
  <2>7. kinds \in [Events -> SUBSET Kinds] /\ mishap \in [Events -> SUBSET Mishaps]
    BY DEF Init
  <2> QED
    BY <2>1, <2>2, <2>3, <2>4, <2>5, <2>6, <2>7, <2>8 DEF Types
<1>4. Remembers /\ ClearNotForgotten
  BY <1>1 DEF Init, Remembers, ClearNotForgotten
<1>5. Looked
  BY <1>2 DEF Init, Looked
<1>6. OneFirst
  BY <1>2 DEF Init, OneFirst, First, Events
<1>7. NothingEarly /\ OnlyOwed /\ Announced
  BY <1>1 DEF Init, NothingEarly, OnlyOwed, Announced
<1> QED
  BY <1>3, <1>4, <1>5, <1>6, <1>7 DEF IInv

LEMMA StepKeeps == IInv /\ [Next]_vars => IInv'
<1> SUFFICES ASSUME IInv, [Next]_vars PROVE IInv'
  OBVIOUS
<1>1. CASE \E c \in Codes : Publish(c)
  BY <1>1, PublishKeeps
<1>2. CASE Save \/ SaveFails \/ Restart
  BY <1>2, SaveOrRestartKeeps
<1>3. CASE \E w \in Workers, e \in Events : Look(w, e)
  BY <1>3, LookKeeps
<1>4. CASE \E w \in Workers : Write(w)
  BY <1>4, WriteKeeps
<1>5. CASE \E w \in Workers, reached, twice \in SUBSET People :
               Mail(w, reached, twice) \/ StopMailing(w, reached, twice)
  BY <1>5, MailKeeps
<1>6. CASE \E w \in Workers : FailBefore(w) \/ FailUnanswered(w)
  BY <1>6, FailKeeps
<1>7. CASE UNCHANGED vars
  <2>1. UNCHANGED <<prev, saved, file, torn, crashes, log, calls, store, call, mailed, kinds,
                    done, mishap, stops, resends>>
    BY <1>7 DEF vars, unit, lambda
  <2>2. Published' = Published /\ LastCode' = LastCode
    BY <2>1 DEF Published, LastCode
  <2>3. Types'
    BY <2>1, <2>2 DEF IInv, Types
  <2>4. Remembers' /\ ClearNotForgotten'
    BY <2>1, <2>2 DEF IInv, Remembers, ClearNotForgotten
  <2>5. Looked'
    BY <2>1, <2>2 DEF IInv, Looked
  <2>6. OneFirst'
    BY <2>1 DEF IInv, OneFirst, First
  <2>7. NothingEarly' /\ OnlyOwed'
    BY <2>1, <2>2 DEF IInv, NothingEarly, OnlyOwed, Owed
  <2>8. Announced'
    BY <2>1 DEF IInv, Announced, Owed, First
  <2> QED
    BY <2>3, <2>4, <2>5, <2>6, <2>7, <2>8 DEF IInv
<1> QED
  BY <1>1, <1>2, <1>3, <1>4, <1>5, <1>6, <1>7 DEF Next

LEMMA Inductive == Spec => []IInv
<1> QED
  BY InitHolds, StepKeeps, PTL DEF Spec

(* A unit that had its last code saved whenever it restarted knows what it *)
(* published last, so that the clear of a fault raised before a restart is *)
(* still published (main.c:1448).                                          *)
THEOREM RestartForgetsNothing == Spec => []ClearNotForgotten
<1>1. IInv => ClearNotForgotten
  BY DEF IInv
<1> QED
  BY <1>1, Inductive, PTL

(* However often an event is delivered and retried, by however many        *)
(* instances, a second copy of its email takes two invocations between     *)
(* their lookups and writes at once (fault-alert.js), or a second try of   *)
(* the SES client (net-limits.js:13), and a third one takes the former.    *)
THEOREM NobodyMailedTwice == Spec => []OneEmailEach
<1>1. IInv => OneEmailEach
  <2> SUFFICES ASSUME IInv, NEW e \in Events, NEW p \in People,
                      "overlap" \notin mishap[e]
               PROVE  ~(mailed[e][p] > 2) /\ (mailed[e][p] > 1 => "resent" \in mishap[e])
    BY DEF OneEmailEach
  <2>1. mailed[e][p] <= 2 /\ (mailed[e][p] > 1 => "resent" \in mishap[e])
    BY DEF IInv, OneFirst
  <2>2. mailed[e][p] \in Nat
    BY CopiesAreCounted DEF IInv
  <2> QED
    BY <2>1, <2>2
<1> QED
  BY <1>1, Inductive, PTL

(* An email says what the unit published, unless its event overtook an     *)
(* older one (fault-alert.js:alertKind).                                   *)
THEOREM EmailsSayWhatHappened == Spec => []OnlyOwed
<1>1. IInv => OnlyOwed
  BY DEF IInv
<1> QED
  BY <1>1, Inductive, PTL

(* Once an invocation of an event returned and none is under way, an email *)
(* it owes was sent to everyone, or the event met a mishap of the kinds    *)
(* named (fault-alert.js:handler).                                         *)
THEOREM OwedEmailsAreSent == Spec => []OwedIsSent
<1>1. IInv => OwedIsSent
  <2> SUFFICES ASSUME IInv, NEW e \in done, Owed(e) # "silent",
                      \A w \in Workers : call[w].ev # e
               PROVE  \/ \A p \in People : mailed[e][p] > 0
                      \/ mishap[e] \intersect {"logged", "gap", "unanswered", "stopped"} # {}
    BY DEF OwedIsSent
  <2>1. e \in store
    BY DEF IInv, Types
  <2> QED
    BY <2>1 DEF IInv, Announced, First
<1> QED
  BY <1>1, Inductive, PTL
=============================================================================
