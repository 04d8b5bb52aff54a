--------------------------- MODULE ShadowCommands ---------------------------
(***************************************************************************)
(* A whole-APU command travels from the dashboard to the APU controller:   *)
(*                                                                         *)
(*   dashboard -> AWS shadow (desired.apu_command) -> delta, get/accepted  *)
(*     -> MQTT thread (shadow.c apply_desired) -> config.apu_command       *)
(*     -> telemetry thread (main.c: peek, reg-10 write, ack)               *)
(*     -> next shadow report nulls desired.apu_command.                    *)
(*                                                                         *)
(* The two threads of the agent share config.apu_command, apu_command_seq  *)
(* and clear_apu_cmd_desired under config_mutex, which is released while   *)
(* the Modbus write runs.  MQTT is QoS 1 with a clean session; the AWS     *)
(* shadow and libmosquitto's queue are external and modelled from the use  *)
(* the agent makes of them.  A command is its issue number: only identity  *)
(* and age matter here, 0 stands for "none" (the empty string, or null).   *)
(***************************************************************************)
EXTENDS Naturals, SequencesExt

CONSTANTS
    MaxCmds,        \* bound: commands the dashboard issues
    MaxIn,          \* bound: shadow messages on their way to the agent
    MaxOut,         \* bound: reports waiting for their PUBACK
    MaxDrops,       \* bound: losses of the MQTT connection
    MaxRestarts,    \* bound: restarts of the agent process
    SeqWrap         \* apu_command_seq is unsigned: it wraps at SeqWrap (2^32)

ASSUME BoundsAssumption ==
    /\ MaxCmds \in Nat /\ MaxIn \in Nat /\ MaxOut \in Nat
    /\ MaxDrops \in Nat /\ MaxRestarts \in Nat
    /\ SeqWrap \in Nat /\ SeqWrap > 1

VARIABLES
    \* cloud and network
    desired,        \* desired.apu_command of the AWS shadow
    down,           \* deltas and get/accepted on their way to the agent
    up,             \* the agent's outgoing QoS-1 messages, not yet acknowledged
    connected,      \* g_mqtt_connected, and the broker's session
    \* shadow.c, under config_mutex
    pending,        \* config.apu_command
    seq,            \* apu_command_seq
    clear,          \* clear_apu_cmd_desired
    \* telemetry thread
    pc,             \* its place in the cycle
    peeked,         \* the command and sequence number it peeked
    window,         \* commands accepted since that peek
    \* observation
    issued,         \* the latest command issued
    written,        \* the commands written to reg 10
    lastWritten,    \* the one written last
    drops, restarts,
    overtook        \* a shadow message was delivered ahead of an older one

cloud == <<desired, down, up, connected>>
shadow == <<pending, seq, clear>>
thread == <<pc, peeked, window>>
observed == <<issued, written, lastWritten>>
faults == <<drops, restarts, overtook>>
vars == <<cloud, shadow, thread, observed, faults>>

Cmds == 1 .. MaxCmds
None == 0

InFlight == pc \in {"write", "ack"}     \* between the peek and the end of the ack

(* get/accepted and deltas carry the same field to the same function.      *)
Push(q, c) == IF c # None THEN Append(q, c) ELSE q

RoomDown == Len(down) < MaxIn

MutantBumpUnbounded(n) == n + 1

Bump(n) == IF n = SeqWrap - 1 THEN 0 ELSE n + 1    \* unsigned ++

-----------------------------------------------------------------------------

Init ==
    /\ desired = None /\ down = <<>> /\ up = <<>> /\ connected = FALSE
    /\ pending = None /\ seq = 0 /\ clear = FALSE
    /\ pc = "report" /\ peeked = [cmd |-> None, seq |-> 0] /\ window = 0
    /\ issued = 0 /\ written = {} /\ lastWritten = None
    /\ drops = 0 /\ restarts = 0 /\ overtook = FALSE

(* POST /fleet/units/{unit}/command: the Lambda sets desired.apu_command   *)
(* and the shadow publishes a delta, which only an open session receives.  *)
HandleCommand ==
    /\ issued < MaxCmds /\ RoomDown
    /\ issued' = issued + 1
    /\ desired' = issued + 1
    /\ down' = IF connected THEN Append(down, issued + 1) ELSE down
    /\ UNCHANGED <<up, connected, shadow, thread, written, lastWritten, faults>>

(* The shadow takes the agent's next message.  A report is answered with a *)
(* delta as long as desired.apu_command stands (the agent never reports    *)
(* it), a get with get/accepted.                                           *)
ShadowTakes ==
    /\ connected /\ up # <<>> /\ RoomDown
    /\ desired' = IF Head(up) = "null" THEN None ELSE desired
    /\ down' = Push(down, desired')

ShadowService ==
    /\ ShadowTakes
    /\ up' = Tail(up)
    /\ UNCHANGED <<connected, shadow, thread, observed, faults>>

(* Clean session: a lost connection loses what was on its way down; what   *)
(* the agent has no PUBACK for is sent again after the next CONNACK.       *)
LoseConnection ==
    /\ connected /\ drops < MaxDrops
    /\ connected' = FALSE /\ down' = <<>> /\ drops' = drops + 1
    /\ UNCHANGED <<shadow, thread, observed, restarts, overtook>>

Disconnect == LoseConnection /\ UNCHANGED <<desired, up>>

(* The broker took the message, the connection died before the PUBACK.     *)
DisconnectBeforePuback ==
    /\ LoseConnection
    /\ up # <<>>
    /\ desired' = IF Head(up) = "null" THEN None ELSE desired
    /\ UNCHANGED up

(* on_connect: subscribe, then shadow/get, which libmosquitto may send     *)
(* before or after the messages it still has to repeat.                    *)
OnConnect ==
    /\ ~connected
    /\ connected' = TRUE
    /\ up' \in {Append(up, "get"), Cons("get", up)}
    /\ UNCHANGED <<desired, down, shadow, thread, observed, faults>>

(* The i-th message on its way reaches the agent ahead of another command. *)
Overtakes(i) == \E j \in 1 .. i - 1 : down[j] # down[i]

(* Mutant: the agent queues what it receives and serves the queue from its *)
(* end; the network itself keeps the order.                                *)
MutantApplyNewest ==
    /\ down # <<>>
    /\ InFlight => window < SeqWrap - 1
    /\ pending' = Last(down)
    /\ seq' = Bump(seq)
    /\ window' = IF InFlight THEN window + 1 ELSE window
    /\ down' = Front(down)
    /\ UNCHANGED <<desired, up, connected, clear, pc, peeked, observed, faults>>

(* MQTT thread: a delta or get/accepted reaches apply_desired(), which     *)
(* accepts the command whatever the shadow version says and bumps the      *)
(* sequence number.  AWS IoT does not promise the order of delivery: any   *)
(* message on its way may come next.  Bound: fewer than SeqWrap commands    *)
(* arrive during one Modbus write.                                         *)
ApplyDesired ==
    \E i \in 1 .. Len(down) :
        /\ InFlight => window < SeqWrap - 1
        /\ pending' = down[i]
        /\ seq' = Bump(seq)
        /\ window' = IF InFlight THEN window + 1 ELSE window
        /\ down' = RemoveAt(down, i)
        /\ overtook' = (overtook \/ Overtakes(i))
        /\ UNCHANGED <<desired, up, connected, clear, pc, peeked, observed, drops, restarts>>

-----------------------------------------------------------------------------
(* The telemetry thread.                                                   *)

(* shadow_publish_reported(): the clear flag is read and reset, then the   *)
(* report leaves.  Offline, libmosquitto may or may not have queued it;    *)
(* the agent does not look at the return code.                             *)
PublishReported ==
    /\ pc = "report"
    /\ clear' = FALSE
    /\ LET m == IF clear THEN "null" ELSE "report"
       IN  \/ Len(up) < MaxOut /\ up' = Append(up, m)
           \/ ~connected /\ up' = up
    /\ UNCHANGED <<desired, down, connected, pending, seq, peeked, window, observed, faults>>

(* The APU answered this cycle's read: commands are applied after the      *)
(* report.  It did not: only the report is sent.                           *)
ReportLinkUp == PublishReported /\ pc' = "peek"
ReportLinkDown == PublishReported /\ pc' = "report"

(* shadow_peek_apu_command()                                               *)
PeekNothing ==
    /\ pc = "peek" /\ pending = None
    /\ pc' = "report"
    /\ UNCHANGED <<cloud, shadow, peeked, window, observed, faults>>

Peek ==
    /\ pc = "peek" /\ pending # None
    /\ pc' = "write"
    /\ peeked' = [cmd |-> pending, seq |-> seq]
    /\ window' = 0
    /\ UNCHANGED <<cloud, shadow, observed, faults>>

(* mb_write_reg(10, ...): the register took the value.  When all three     *)
(* replies are lost it may have taken it all the same.                     *)
Took ==
    /\ written' = written \cup {peeked.cmd}
    /\ lastWritten' = peeked.cmd
    /\ UNCHANGED issued

WriteOk ==
    /\ pc = "write"
    /\ Took
    /\ pc' = "ack"
    /\ UNCHANGED <<cloud, shadow, peeked, window, faults>>

WriteFail ==
    /\ pc = "write"
    /\ Took \/ UNCHANGED observed
    /\ pc' = "report"
    /\ UNCHANGED <<cloud, shadow, peeked, window, faults>>

(* Mutants: the sequence numbers not compared; the cloud never told.       *)
MutantAckUnchecked ==
    /\ pc = "ack"
    /\ pending' = None /\ clear' = TRUE
    /\ pc' = "report"
    /\ UNCHANGED <<cloud, seq, peeked, window, observed, faults>>

MutantAckNoNull ==
    /\ pc = "ack"
    /\ pending' = IF peeked.seq = seq THEN None ELSE pending
    /\ pc' = "report"
    /\ UNCHANGED <<cloud, seq, clear, peeked, window, observed, faults>>

(* shadow_ack_apu_command(seq): compare and clear.                         *)
Ack ==
    /\ pc = "ack"
    /\ IF peeked.seq = seq THEN pending' = None /\ clear' = TRUE
                           ELSE UNCHANGED <<pending, clear>>
    /\ pc' = "report"
    /\ UNCHANGED <<cloud, seq, peeked, window, observed, faults>>

(* systemd restarts the agent: all of the above is process memory.         *)
Restart ==
    /\ restarts < MaxRestarts
    /\ restarts' = restarts + 1
    /\ down' = <<>> /\ up' = <<>> /\ connected' = FALSE
    /\ pending' = None /\ seq' = 0 /\ clear' = FALSE
    /\ pc' = "report" /\ peeked' = [cmd |-> None, seq |-> 0] /\ window' = 0
    /\ UNCHANGED <<desired, observed, drops, overtook>>

-----------------------------------------------------------------------------

Next ==
    \/ HandleCommand
    \/ ShadowService \/ Disconnect \/ DisconnectBeforePuback \/ OnConnect
    \/ ApplyDesired
    \/ ReportLinkUp \/ ReportLinkDown
    \/ PeekNothing \/ Peek \/ WriteOk \/ WriteFail \/ Ack
    \/ Restart

Spec == Init /\ [][Next]_vars

(* The threads keep running and the network keeps moving; RS-485 errors    *)
(* are transient, so a read or a write tried again and again works once.   *)
Fairness ==
    /\ WF_vars(OnConnect) /\ WF_vars(ShadowService) /\ WF_vars(ApplyDesired)
    /\ SF_vars(ReportLinkUp)
    /\ WF_vars(PeekNothing) /\ WF_vars(Peek)
    /\ SF_vars(WriteOk) /\ WF_vars(Ack)

FairSpec == Spec /\ Fairness

-----------------------------------------------------------------------------
(* Properties.                                                             *)

CloudTypeOK ==
    /\ desired \in Cmds \cup {None} /\ connected \in BOOLEAN
    /\ down \in Seq(Cmds) /\ up \in Seq({"report", "null", "get"})

AgentTypeOK ==
    /\ pending \in Cmds \cup {None} /\ seq \in 0 .. SeqWrap - 1 /\ clear \in BOOLEAN

ThreadTypeOK ==
    /\ pc \in {"report", "peek", "write", "ack"}
    /\ peeked \in [cmd : Cmds \cup {None}, seq : 0 .. SeqWrap - 1]
    /\ InFlight => peeked.cmd \in Cmds
    /\ window \in 0 .. SeqWrap - 1

ObservedTypeOK ==
    /\ issued \in 0 .. MaxCmds /\ written \subseteq Cmds
    /\ lastWritten \in Cmds \cup {None}
    /\ drops \in 0 .. MaxDrops /\ restarts \in 0 .. MaxRestarts
    /\ overtook \in BOOLEAN

TypeOK == CloudTypeOK /\ AgentTypeOK /\ ThreadTypeOK /\ ObservedTypeOK

(* A running agent forgets a command only once that very command has been  *)
(* written to the controller, however many newer ones arrived while the    *)
(* write was in flight (shadow.c:676-684): a Stop chasing a Start survives *)
(* the ack of the Start.                                                   *)
AckOnlyWritten ==
    [][pending # None /\ pending' = None /\ restarts' = restarts
        => pending \in written]_vars

(* The controller is told commands in the order of their issue, across     *)
(* lost connections, repeated messages and restarts, until a shadow        *)
(* message overtakes an older one on its way to the unit: the agent does   *)
(* not look at the shadow version (shadow.c:365-382) and takes what comes  *)
(* last for the newest.  The abstract specification is implemented.        *)
Order == INSTANCE CommandOrder WITH ordered <- ~overtook
InOrder == Order!Spec

(* While neither the connection nor the process has failed and no shadow   *)
(* message has overtaken an older one, the latest command is written, or   *)
(* still somewhere on its way: the null the agent sends for an older       *)
(* command may reach the cloud after the newer one was set and wipe it     *)
(* there, but then its delta is on the way or accepted.  An older delta    *)
(* applied last (shadow.c:365-382 ignores the shadow version) does lose    *)
(* it: it replaces the newer command in the agent, and the null that       *)
(* follows its ack wipes the newer one in the cloud.                       *)
KeptWithoutFaults ==
    issued # 0 /\ drops = 0 /\ restarts = 0 /\ ~overtook =>
        \/ issued \in written
        \/ issued \in {pending, desired}
        \/ Contains(down, issued)

(* shadow.c:599-603 says of desired.apu_command that it is nulled only     *)
(* once the command has actually been applied to the hardware, so that a   *)
(* command is never lost while a Modbus write is pending or retrying.      *)
NulledOnlyOnceApplied ==
    [][desired # None /\ desired' = None => desired \in written]_vars

(* The shadow comes to rest: after the last command desired.apu_command is *)
(* nulled for good and the agent has nothing left to do, whatever reports  *)
(* were lost, repeated or sent just before a restart.  Provided the deltas *)
(* that answer the reports do not land inside every single Modbus write:   *)
(* one that does counts as a newer command, voids the ack (shadow.c:681)   *)
(* and has the same command written again in the next cycle.               *)
Settles ==
    <>[](window = 0) => <>[](desired = None /\ pending = None /\ down = <<>>)

(* Every command is written or superseded by a newer one, unless the       *)
(* connection or the process failed meanwhile, or a shadow message         *)
(* overtook an older one (see KeptWithoutFaults).                          *)
EachWritten ==
    \A c \in Cmds :
        issued = c ~> \/ c \in written \/ issued # c
                     \/ drops + restarts > 0 \/ overtook
=============================================================================
