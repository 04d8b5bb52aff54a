----------------------------- MODULE FaultAlerts -----------------------------
(***************************************************************************)
(* From a change of the APU's fault code to an email: the agent publishes  *)
(* the change and remembers in a file what it published; the message       *)
(* reaches the fault Lambda; the Lambda looks up the newest record, writes *)
(* its own, and emails everyone who wants it when a fault starts or        *)
(* clears.  The record doubles as the mark that the event was handled.     *)
(*                                                                         *)
(* Between the agent's publish and an invocation of the Lambda lie the     *)
(* MQTT client's memory, the SQLite rows (two threads flush them, the      *)
(* oldest give way at a cap), QoS 1 and the retries of AWS: together they  *)
(* deliver a message any number of times, in any order, or never.          *)
(*                                                                         *)
(* An event is the number of its publication, which stands for its         *)
(* timestamp: the unit's clock is assumed not to step back between two     *)
(* events.  Only one unit is modelled: units share no record.              *)
(***************************************************************************)
EXTENDS Naturals, Sequences, FiniteSets

CONSTANTS
    Faults,         \* codes that are faults, "APU not responding" among them
    People,         \* users-table items with email_alerts = true
    Workers,        \* Lambda instances
    MaxEvents,      \* bound: publications
    MaxCalls,       \* bound: invocations
    MaxCrashes,     \* bound: restarts of the agent
    MaxStops,       \* bound: invocations stopped or failed
    MaxResends      \* bound: invocations in which the SES client tried twice

ASSUME BoundsAssumption ==
    /\ MaxEvents \in Nat /\ MaxCalls \in Nat
    /\ MaxCrashes \in Nat /\ MaxStops \in Nat /\ MaxResends \in Nat

ASSUME CodesAssumption == "none" \notin Faults /\ "standby" \notin Faults

VARIABLES
    \* the unit
    prev, saved,    \* prev_error, and the copy in last-fault
    file,           \* last-fault: "saved", "due" (published, not yet saved) or "failed"
    \* the cloud
    log,            \* the code of each event, in publication order
    calls,          \* invocations started
    store,          \* events recorded in the bucket "faults"
    call,           \* what each Lambda instance is doing
    mailed,         \* copies of its email each person got, by event
    kinds,          \* the kinds of email sent, by event
    done,           \* events of which an invocation returned
    \* observation
    mishap,         \* what went wrong with an event
    torn,           \* the agent restarted without its last code in last-fault
    crashes, stops,
    resends

unit == <<prev, saved, file, torn, crashes>>
lambda == <<calls, store, call, mailed, kinds, done, resends>>
vars == <<unit, log, lambda, mishap, stops>>

Codes == Faults \union {"none", "standby"}
Events == 1..MaxEvents

(* isFault: standby is the interlock of a running truck engine.            *)
IsFault(c) == c \in Faults

Published == 1..Len(log)
LastCode == IF log = <<>> THEN "none" ELSE log[Len(log)]

Idle == [pc |-> "idle", ev |-> 0, seen |-> 0]

-----------------------------------------------------------------------------

Init ==
    /\ prev = "none" /\ saved = "none" /\ file = "saved"
    /\ log = <<>> /\ calls = 0
    /\ store = {} /\ call = [w \in Workers |-> Idle]
    /\ mailed = [e \in Events |-> [p \in People |-> 0]]
    /\ kinds = [e \in Events |-> {}] /\ done = {}
    /\ mishap = [e \in Events |-> {}] /\ torn = FALSE
    /\ crashes = 0 /\ stops = 0 /\ resends = 0

-----------------------------------------------------------------------------
(* The unit                                                                *)

(* The telemetry loop reads a code it has not published, or finds the APU  *)
(* silent for a minute (a fault code of the agent's own), and hands the    *)
(* message to the MQTT client or, while the link is down, to SQLite.       *)
Publish(c) ==
    /\ file # "due" /\ c # prev /\ Len(log) < MaxEvents
    /\ log' = Append(log, c)
    /\ prev' = c /\ file' = "due" /\ torn' = FALSE
    /\ UNCHANGED <<saved, crashes, lambda, mishap, stops>>

MutantSaveForgotten ==
    /\ file = "due" /\ file' = "saved"
    /\ UNCHANGED <<prev, saved, torn, crashes, log, lambda, mishap, stops>>

(* last_fault_save: the code is kept for the next start of the agent.      *)
Save ==
    /\ file = "due" /\ file' = "saved"
    /\ saved' = prev
    /\ UNCHANGED <<prev, torn, crashes, log, lambda, mishap, stops>>

(* The file cannot be written or renamed: the old one stays, the failure   *)
(* is only logged, and nothing tries again before the next change.         *)
SaveFails ==
    /\ file = "due" /\ file' = "failed"
    /\ UNCHANGED <<prev, saved, torn, crashes, log, lambda, mishap, stops>>

(* The agent restarts: last_fault_load reads the code saved last (a file   *)
(* that holds anything else counts as no fault).                           *)
Restart ==
    /\ crashes < MaxCrashes /\ crashes' = crashes + 1
    /\ prev' = saved /\ file' = "saved" /\ torn' = (torn \/ file # "saved")
    /\ UNCHANGED <<saved, log, lambda, mishap, stops>>

-----------------------------------------------------------------------------
(* The fault Lambda                                                        *)

MutantNewestBefore(e) ==
    LET older == {r \in store : r < e} IN
    IF older = {} THEN 0 ELSE CHOOSE r \in older : \A q \in older : q <= r

(* lastFault: the newest record at or before the event, 0 when none.       *)
NewestAt(e) ==
    LET older == {r \in store : r <= e} IN
    IF older = {} THEN 0 ELSE CHOOSE r \in older : \A q \in older : q <= r

(* alertKind: "fault", "cleared" or "silent" ('', no email), by the code   *)
(* before.                                                                 *)
Kind(code, before) ==
    IF IsFault(code)
    THEN IF before = code THEN "silent" ELSE "fault"
    ELSE IF IsFault(before) THEN "cleared" ELSE "silent"

MutantAlertKind(seen, e) ==
    IF seen = e THEN "silent"
    ELSE Kind(log[e], "none")

AlertKind(seen, e) ==
    IF seen = e THEN "silent"                   \* this event's own record
    ELSE Kind(log[e], IF seen = 0 THEN "none" ELSE log[seen])

(* An instance gets the event, for the first time or again, and looks up   *)
(* its predecessor.  Another invocation of it may be between lookup and    *)
(* write; and an older event may not be recorded yet, or never will be.    *)
Look(w, e) ==
    LET overlap == IF \E v \in Workers : call[v].pc = "write" /\ call[v].ev = e
                   THEN {"overlap"} ELSE {}
        gap == IF \E d \in 1..(e - 1) : d \notin store THEN {"gap"} ELSE {}
    IN  /\ call[w] = Idle /\ e \in Published /\ calls < MaxCalls
        /\ calls' = calls + 1
        /\ call' = [call EXCEPT ![w] = [pc |-> "write", ev |-> e, seen |-> NewestAt(e)]]
        /\ mishap' = [mishap EXCEPT ![e] = @ \union overlap \union gap]
        /\ UNCHANGED <<unit, log, store, mailed, kinds, done, stops, resends>>

Write(w) ==
    /\ call[w].pc = "write"
    /\ store' = store \union {call[w].ev}
    /\ call' = [call EXCEPT ![w].pc = "mail"]
    /\ UNCHANGED <<unit, log, calls, mailed, kinds, done, mishap, stops, resends>>

(* sendAlert: an email to each person, of which those in reached go out.   *)
(* The SES client tries a call again whose answer does not come in time    *)
(* (net-limits.js, maxAttempts 2): those in twice get it from both tries.  *)
Send(e, k, reached, twice) ==
    /\ twice \subseteq reached /\ (twice # {} => resends < MaxResends)
    /\ resends' = IF twice = {} THEN resends ELSE resends + 1
    /\ mailed' = [mailed EXCEPT ![e] = [p \in People |->
           @[p] + (IF p \in reached THEN 1 ELSE 0) + (IF p \in twice THEN 1 ELSE 0)]]
    /\ kinds' = IF reached = {} THEN kinds ELSE [kinds EXCEPT ![e] = @ \union {k}]

(* What to note of the second tries, and of emails that failed.            *)
Resent(twice) == IF twice = {} THEN {} ELSE {"resent"}
Logged(k, reached) == IF k = "silent" \/ reached = People THEN {} ELSE {"logged"}

MutantMailSilent(w, reached, twice) ==
    LET e == call[w].ev
        k == AlertKind(call[w].seen, e)
    IN  /\ call[w].pc = "mail" /\ (k = "silent" => reached = {})
        /\ call' = [call EXCEPT ![w] = Idle]
        /\ Send(e, k, reached, twice)
        /\ done' = done \union {e}
        /\ mishap' = [mishap EXCEPT ![e] = @ \union Resent(twice)]
        /\ UNCHANGED <<unit, log, calls, store, stops>>

(* The invocation ends: there was nothing to announce, or the emails were  *)
(* sent.  One that failed is logged (ALERT EMAIL FAILED), never retried.   *)
Mail(w, reached, twice) ==
    LET e == call[w].ev
        k == AlertKind(call[w].seen, e)
    IN  /\ call[w].pc = "mail" /\ (k = "silent" => reached = {})
        /\ call' = [call EXCEPT ![w] = Idle]
        /\ Send(e, k, reached, twice)
        /\ done' = done \union {e}
        /\ mishap' = [mishap EXCEPT ![e] = @ \union Resent(twice) \union Logged(k, reached)]
        /\ UNCHANGED <<unit, log, calls, store, stops>>

(* The invocation fails, or is stopped at its 30 s: AWS will try again.    *)
Fail(w, marks) ==
    /\ stops < MaxStops /\ stops' = stops + 1
    /\ call' = [call EXCEPT ![w] = Idle]
    /\ mishap' = [mishap EXCEPT ![call[w].ev] = @ \union marks]
    /\ UNCHANGED <<unit, log, calls, done>>

(* Before the write: no record, no email.                                  *)
FailBefore(w) ==
    /\ call[w].pc = "write"
    /\ Fail(w, {})
    /\ UNCHANGED <<store, mailed, kinds, resends>>

(* The write landed but its answer was lost: the next attempt finds the    *)
(* record of this one and takes itself for a redelivery.                   *)
FailUnanswered(w) ==
    /\ call[w].pc = "write"
    /\ store' = store \union {call[w].ev}
    /\ Fail(w, {"unanswered"})
    /\ UNCHANGED <<mailed, kinds, resends>>

(* After the write, while the emails go out.                               *)
StopMailing(w, reached, twice) ==
    LET e == call[w].ev
        k == AlertKind(call[w].seen, e)
    IN  /\ call[w].pc = "mail" /\ (k = "silent" => reached = {})
        /\ Send(e, k, reached, twice)
        /\ Fail(w, {"stopped"} \union Resent(twice))
        /\ UNCHANGED store

-----------------------------------------------------------------------------

Next ==
    \/ \E c \in Codes : Publish(c)
    \/ Save \/ SaveFails
    \/ Restart
    \/ \E w \in Workers :
        \/ \E e \in Events : Look(w, e)
        \/ Write(w)
        \/ \E reached, twice \in SUBSET People : Mail(w, reached, twice)
        \/ FailBefore(w)
        \/ FailUnanswered(w)
        \/ \E reached, twice \in SUBSET People : StopMailing(w, reached, twice)

Spec == Init /\ [][Next]_vars

-----------------------------------------------------------------------------
(* Properties                                                              *)

(* However often an event is delivered, published or retried, nobody gets  *)
(* its email twice (fault-alert.js:alertKind, redelivery), unless two      *)
(* invocations of it overlapped between lookup and write, or the SES       *)
(* client itself sent a second time what was accepted without an answer    *)
(* (net-limits.js:13): then nobody gets more than those two copies.        *)
OneEmailEach ==
    \A e \in Events, p \in People :
        /\ mailed[e][p] > 1 => mishap[e] \intersect {"overlap", "resent"} # {}
        /\ mailed[e][p] > 2 => "overlap" \in mishap[e]

(* The kind of email an event owes, by the codes the unit published.       *)
Owed(e) == Kind(log[e], IF e = 1 THEN "none" ELSE log[e - 1])

(* An email says what happened: a fault that a restarted agent publishes   *)
(* again is not announced again, and a recovery is announced only after a  *)
(* fault.  It can be wrong only for an event that overtook an older one.   *)
OnlyOwed ==
    \A e \in Published : kinds[e] \subseteq {Owed(e)} \/ "gap" \in mishap[e]

(* An email that is owed is sent to everyone once an invocation of its     *)
(* event returned (after which nothing retries it) and none is under way,  *)
(* unless a delivery failed and was logged, or the event met one of the    *)
(* ways in which the record exists and the email does not.                 *)
OwedIsSent ==
    \A e \in done :
        Owed(e) # "silent" /\ (\A w \in Workers : call[w].ev # e) =>
            \/ \A p \in People : mailed[e][p] > 0
            \/ mishap[e] \intersect {"logged", "gap", "unanswered", "stopped"} # {}

(* A restarted agent still knows what it published last, and so still      *)
(* publishes the clear of a fault raised before (main.c:1448), unless it   *)
(* died between publishing and saving, or could not save (main.c:1456) and *)
(* restarted before the next change.                                       *)
ClearNotForgotten == ~torn => prev = LastCode
=============================================================================
