--------------------------- MODULE HeaterCommands ---------------------------
(***************************************************************************)
(* The heater of a unit is commanded field by field: the Heater tab and    *)
(* the Overview send { on }, { level }, { setpoint_f } or { clear_fault }  *)
(* (HeaterTab.jsx, OverviewTab.jsx), the AWS shadow merges the bodies in   *)
(* desired.heater, and the agent merges what it receives with what it has  *)
(* not applied yet (shadow.c apply_desired), writes one register per field *)
(* (main.c, heater_ext.c) and has the cloud's copy nulled by its next      *)
(* report.  This path differs from the one of ShadowCommands in what a     *)
(* command is: not a value that replaces the last one but a partial        *)
(* function from fields to values, lost or kept field by field.            *)
(*                                                                         *)
(* heater_desired_seq is only compared for equality across one peek and    *)
(* its ack: `moved` says that it moved in between (2^32 commands during    *)
(* one write are left out; ShadowCommands has the wrap).                   *)
(***************************************************************************)
EXTENDS Naturals, SequencesExt, Functions

CONSTANTS
    Levels,         \* the levels the page offers, of 1 .. 10
    Setpoints,      \* the setpoints the page offers, of 41 .. 86
    Ext,            \* the controller's firmware has the registers 68 .. 75
    MaxCmds,        \* bound: bodies the dashboard sends
    MaxIn,          \* bound: shadow messages on their way to the agent
    MaxOut,         \* bound: messages of the agent waiting for their PUBACK
    MaxDrops,       \* bound: losses of the MQTT connection
    MaxRestarts     \* bound: restarts of the agent process

ASSUME HeaterAssumption ==
    /\ Levels \subseteq 1 .. 10 /\ Setpoints \subseteq 41 .. 86
    /\ Ext \in BOOLEAN
    /\ {MaxCmds, MaxIn, MaxOut, MaxDrops, MaxRestarts} \subseteq Nat

Fields == {"clear_fault", "setpoint_f", "level", "on"}
Values == [clear_fault |-> {1}, setpoint_f |-> Setpoints,
           level |-> Levels, on |-> {0, 1}]

(* A heater object: some of the fields, each with one of its values.       *)
Commands == UNION {{c \in [fs -> UNION {Values[f] : f \in fs}] :
                        \A f \in fs : c[f] \in Values[f]} : fs \in SUBSET Fields}

None == <<>>                                \* no field: null, or not valid
Merge(c, onto) == [f \in DOMAIN c \cup DOMAIN onto |->
                        IF f \in DOMAIN c THEN c[f] ELSE onto[f]]
Without(c, fs) == Restrict(c, DOMAIN c \ fs)

VARIABLES
    \* cloud and network
    desired,        \* desired.heater of the AWS shadow
    down,           \* deltas and get/accepted on their way to the agent
    up,             \* the agent's QoS-1 messages without a PUBACK
    connected,      \* the MQTT session
    \* shadow.c, under config_mutex
    pending,        \* config.heater_*: the fields that are not -1 (or false)
    clear,          \* clear_heater_desired
    \* telemetry thread (from peeked on: only while pc = "write")
    pc,             \* its place in the cycle
    ext,            \* t.heater_ext: reg 68 answered in this cycle
    peeked,         \* the command it peeked
    moved,          \* heater_desired_seq moved since that peek
    todo,           \* the writes of heater_plan_writes() still to do
    failed,         \* rc: one of the writes failed
    \* observation
    owed,           \* accepted by the agent, not written since, per field
    sent, drops, restarts

cloud == <<desired, down, up, connected>>
shadow == <<pending, clear>>
thread == <<pc, ext, peeked, moved, todo, failed>>
heaterBounds == <<sent, drops, restarts>>
heaterVars == <<cloud, shadow, thread, owed, heaterBounds>>

HeaterInit ==
    /\ desired = None /\ down = <<>> /\ up = <<>> /\ connected = FALSE
    /\ pending = None /\ clear = FALSE
    /\ pc = "report" /\ ext = FALSE /\ peeked = None /\ moved = FALSE
    /\ todo = <<>> /\ failed = FALSE
    /\ owed = None /\ sent = 0 /\ drops = 0 /\ restarts = 0

-----------------------------------------------------------------------------
(* The dashboard and the cloud.                                            *)

(* The buttons of the Heater tab, by what the last telemetry row says: the *)
(* heater runs, its coprocessor has a fault, it is set by temperature.     *)
(* Offline units get the same buttons here; the Overview's toggle, which   *)
(* refuses to start an offline unit, offers no other body.                 *)
Toggle(on, fault) ==
    IF on THEN {[on |-> 0]} ELSE IF fault THEN {} ELSE {[on |-> 1]}

Offers(on, fault, useSetpoint) ==
    Toggle(on, fault)
    \cup (IF fault THEN {[clear_fault |-> 1]} ELSE {})
    \cup (IF useSetpoint THEN {[setpoint_f |-> v] : v \in Setpoints}
                         ELSE {[level |-> v] : v \in Levels})

(* AWS sends the fields of desired.heater that reported.heater lacks or    *)
(* shows otherwise.  The agent reports the level the heater runs at and    *)
(* the setpoint, which may be the desired ones by chance, and never `on`   *)
(* or clear_fault.                                                         *)
Pushed(c, queue) ==
    {IF Without(c, same) = None THEN queue ELSE Append(queue, Without(c, same)) :
        same \in SUBSET {"level", "setpoint_f"}}

RoomDown == Len(down) < MaxIn

(* POST /fleet/units/{unit}/command: the Lambda updates desired, AWS       *)
(* merges the object key by key and tells an open session.                 *)
HandleCommand ==
    /\ sent < MaxCmds /\ RoomDown
    /\ sent' = sent + 1
    /\ \E on, fault, useSetpoint \in BOOLEAN :
           \E body \in Offers(on, fault /\ Ext, useSetpoint /\ Ext) :
               desired' = Merge(body, desired)
    /\ IF connected THEN down' \in Pushed(desired', down) ELSE down' = down
    /\ UNCHANGED <<up, connected, shadow, thread, owed, drops, restarts>>

(* The shadow takes a report, with or without the null of desired.heater,  *)
(* and answers with a delta; a get, with desired as it stands.             *)
Taken == desired' = IF Head(up) = "null" THEN None ELSE desired

ShadowService ==
    /\ connected /\ up # <<>> /\ RoomDown
    /\ Taken
    /\ IF Head(up) = "get"
         THEN down' = IF desired = None THEN down ELSE Append(down, desired)
         ELSE down' \in Pushed(desired', down)
    /\ up' = Tail(up)
    /\ UNCHANGED <<connected, shadow, thread, owed, heaterBounds>>

(* Clean session: what was on its way down is lost, what has no PUBACK is  *)
(* sent again, also when the broker had taken it.                          *)
Disconnect ==
    /\ connected /\ drops < MaxDrops
    /\ connected' = FALSE /\ down' = <<>> /\ drops' = drops + 1
    /\ desired' = desired \/ (up # <<>> /\ Taken)
    /\ UNCHANGED <<up, shadow, thread, owed, sent, restarts>>

OnConnect ==
    /\ ~connected
    /\ connected' = TRUE
    /\ up' \in {Append(up, "get"), Cons("get", up)}
    /\ UNCHANGED <<desired, down, shadow, thread, owed, heaterBounds>>

-----------------------------------------------------------------------------
(* The MQTT thread.                                                        *)

(* Mutant: every message starts from -1, also on top of a pending one.     *)
MutantAugmented(m) == m

(* apply_desired(): what is still pending is the seed of the new command.  *)
Augmented(m) == Merge(m, pending)

ApplyDesired ==
    /\ down # <<>>
    /\ pending' = Augmented(Head(down))
    /\ moved' = (pc = "write")
    /\ owed' = Merge(Head(down), owed)
    /\ down' = Tail(down)
    /\ UNCHANGED <<desired, up, connected, clear, pc, ext, peeked, todo, failed, heaterBounds>>

-----------------------------------------------------------------------------
(* The telemetry thread.                                                   *)

(* The report resets the clear flag; offline it may or may not be queued.  *)
PublishReported ==
    /\ pc = "report"
    /\ clear' = FALSE
    /\ \/ /\ Len(up) < MaxOut
          /\ up' = Append(up, IF clear THEN "null" ELSE "report")
       \/ ~connected /\ up' = up
    /\ UNCHANGED <<desired, down, connected, pending, peeked, moved, todo, failed,
                   owed, heaterBounds>>

(* The controller answered this cycle.  Whether reg 68 did, the best-effort*)
(* read that tells the firmware's age, is not retried and not remembered.  *)
ReportLinkUp ==
    /\ PublishReported
    /\ pc' = "peek" /\ ext' \in {Ext, FALSE}

ReportLinkDown == PublishReported /\ pc' = "report" /\ ext' = ext

If(cond, f) == IF cond THEN <<f>> ELSE <<>>

(* Mutant: the fields the command lacks (-1) are written all the same.     *)
MutantPlan(c) ==
    If(ext, "clear_fault") \o If(ext, "setpoint_f") \o <<"level", "on">>

(* heater_plan_writes(): this order, what needs the newer registers only   *)
(* when they answered.                                                     *)
Plan(c) ==
    If("clear_fault" \in DOMAIN c /\ ext, "clear_fault")
    \o If("setpoint_f" \in DOMAIN c /\ ext, "setpoint_f")
    \o If("level" \in DOMAIN c, "level") \o If("on" \in DOMAIN c, "on")

PeekNothing ==
    /\ pc = "peek" /\ pending = None
    /\ pc' = "report"
    /\ UNCHANGED <<cloud, shadow, ext, peeked, moved, todo, failed, owed, heaterBounds>>

Peek ==
    /\ pc = "peek" /\ pending # None
    /\ pc' = "write"
    /\ peeked' = pending /\ moved' = FALSE
    /\ todo' = Plan(pending) /\ failed' = FALSE
    /\ UNCHANGED <<cloud, shadow, ext, owed, heaterBounds>>

(* mb_write_reg() of the next register: a write that failed three times    *)
(* may have been taken, and does not keep the later ones from being tried. *)
Took(f) ==
    owed' = IF f \in DOMAIN owed /\ owed[f] = peeked[f] THEN Without(owed, {f}) ELSE owed

WriteField ==
    /\ pc = "write" /\ todo # <<>>
    /\ \/ Took(Head(todo)) /\ failed' = failed
       \/ (Took(Head(todo)) \/ owed' = owed) /\ failed' = TRUE
    /\ todo' = Tail(todo)
    /\ UNCHANGED <<cloud, shadow, pc, ext, peeked, moved, heaterBounds>>

(* Mutants: the ack forgets what came meanwhile; a failed write is acked.  *)
MutantAckUnchecked == ~failed
MutantAckFailed == ~moved

(* shadow_ack_heater_cmd(), if no write failed and the command is still    *)
(* the one that was peeked; what the thread knew of the cycle is gone.     *)
Applied == ~failed /\ ~moved

Ack ==
    /\ pc = "write" /\ todo = <<>>
    /\ pc' = "report"
    /\ IF Applied THEN pending' = None /\ clear' = TRUE ELSE UNCHANGED shadow
    /\ peeked' = None /\ moved' = FALSE /\ failed' = FALSE
    /\ UNCHANGED <<cloud, ext, todo, owed, heaterBounds>>

(* A restarted agent knows nothing of what it had accepted.                *)
Restart ==
    /\ restarts < MaxRestarts
    /\ restarts' = restarts + 1
    /\ down' = <<>> /\ up' = <<>> /\ connected' = FALSE
    /\ pending' = None /\ clear' = FALSE /\ owed' = None
    /\ pc' = "report" /\ ext' = FALSE /\ peeked' = None /\ moved' = FALSE
    /\ todo' = <<>> /\ failed' = FALSE
    /\ UNCHANGED <<desired, sent, drops>>

-----------------------------------------------------------------------------

HeaterNext ==
    \/ HandleCommand
    \/ ShadowService \/ Disconnect \/ OnConnect
    \/ ApplyDesired
    \/ ReportLinkUp \/ ReportLinkDown
    \/ PeekNothing \/ Peek \/ WriteField \/ Ack
    \/ Restart

HeaterSpec == HeaterInit /\ [][HeaterNext]_heaterVars

-----------------------------------------------------------------------------
(* Properties.                                                             *)

(* Every variable has its type, and no register is written whose field the *)
(* command lacks: -1 never reaches the controller.                         *)
HeaterTypeOK ==
    /\ {desired, pending, peeked, owed} \subseteq Commands
    /\ down \in Seq(Commands \ {None}) /\ up \in Seq({"report", "null", "get"})
    /\ pc \in {"report", "peek", "write"} /\ todo \in Seq(Fields)
    /\ Range(todo) \subseteq DOMAIN peeked
    /\ {connected, clear, ext, moved, failed} \subseteq BOOLEAN
    /\ sent \in 0 .. MaxCmds /\ drops \in 0 .. MaxDrops /\ restarts \in 0 .. MaxRestarts

(* What the agent owes the heater in the fields fs is still pending in it. *)
Kept(fs) ==
    \A f \in fs \cap DOMAIN owed : f \in DOMAIN pending /\ pending[f] = owed[f]

(* An accepted start, stop or level stays pending, with its latest value,  *)
(* until it has been written: neither a later partial message, nor the ack *)
(* of a command it overtook, nor a failed register, nor the age of the     *)
(* firmware makes the agent forget a remote stop (shadow.c:260-276,        *)
(* main.c:1506-1530).                                                      *)
StopKept == Kept({"on", "level"})

(* shadow.c:599-603 says of the heater command that it is nulled only once *)
(* it has actually been applied to the hardware; on firmware that has the  *)
(* registers, that includes the setpoint and the clearing of a fault.      *)
NulledOnlyOnceApplied == Ext => Kept(Fields)
=============================================================================
