---------------------------- MODULE UnitRequests ----------------------------
(***************************************************************************)
(* What an operator asks of one unit through its AWS shadow:               *)
(*                                                                         *)
(*   a reboot        SystemConfigPage -> POST /fleet/config                *)
(*   an update       FirmwareTab      -> POST .../command (firmware_target)*)
(*   its location    FleetMapPage     -> PATCH, DELETE .../location        *)
(*                                                                         *)
(* api.js checks and writes `desired' in separate calls; the agent applies *)
(* deltas and get/accepted on its MQTT thread (apply_desired, then the     *)
(* callback on_shadow_config, in steps) while its telemetry thread sends   *)
(* reports; the root worker gobi-ota-apply reboots or installs what the    *)
(* one-line request file says.  The guard that keeps one reboot request    *)
(* from rebooting the unit for ever, and the request file, live in the     *)
(* root slot, so an update leaves them behind.                             *)
(*                                                                         *)
(* A reboot request is known by the time stamp AWS gives it, here its      *)
(* number; 0 is no request, version 0 no target, place "none" no place.   *)
(* The shadow, the broker and agents older than the guard are external.    *)
(***************************************************************************)
EXTENDS Naturals, FiniteSets, Sequences, Permissions

CONSTANTS
    Versions,       \* releases in the OTA bucket; newer is greater
    RebootMin,      \* REBOOT_MIN_FW
    LocationMin,    \* LOCATION_MIN_FW
    Places,
    First,          \* the version the unit runs at first
    MaxAsked,       \* bound: requests of the operators
    MaxDown,        \* bound: shadow messages on their way to the unit
    MaxUp,          \* bound: reports not yet acknowledged
    MaxFaults       \* bound: lost connections, restarts and failed calls

ASSUME VersionsAssumption ==
    /\ Versions \subseteq Nat \ {0} /\ First \in Versions
    /\ RebootMin \in Nat /\ LocationMin \in Nat
    /\ Places # {} /\ "none" \notin Places
    /\ MaxAsked \in Nat /\ MaxDown \in Nat /\ MaxUp \in Nat /\ MaxFaults \in Nat

VARIABLES
    \* cloud
    desired,        \* the shadow's desired: reboot, target, location
    reported,       \* the shadow's reported: firmware version, location
    table,          \* the unit's place in the locations table
    jobs,           \* requests inside api.js, between two of its calls
    \* network
    connected, down, up,
    \* dashboard
    seen,           \* the firmware version useShadow() has cached
    told,           \* how the last location request ended for its operator
    \* agent: shadow.c and on_shadow_config
    config,         \* reboot_requested with its time stamp, firmware_target
    clearTarget,    \* clear_fw_target_desired
    known,          \* desired_location
    call,           \* the callback under way: its place and its snapshot
    \* unit, on disk
    slot, image, honored, request,
    stored,         \* the location file weather-fetch reads (on /data)
    misfiled,       \* the last place the unit was sent could not be stored
    worker,         \* gobi-ota-apply: the request it took
    trial,          \* the running slot has not been confirmed since its update
    \* observation
    issued,         \* reboot requests made
    reboots,        \* how often each was carried out
    excused,        \* requests whose guard was left behind, mislaid or never asked
    overlap,        \* two location writers met
    echoed,         \* the unit has reported since the last message it applied
    asked, faults   \* bounds

cloud == <<desired, reported, table, jobs>>
network == <<connected, down, up>>
dashboard == <<seen, told>>
agent == <<config, clearTarget, known, call>>
disk == <<slot, image, honored, request, stored, misfiled, worker, trial>>
observed == <<issued, reboots, excused, overlap, echoed>>
bounds == <<asked, faults>>
vars == <<cloud, network, dashboard, agent, disk, observed, bounds>>

Slots == {"a", "b"}
Other(s) == IF s = "a" THEN "b" ELSE "a"
Running == image[slot]
Requests == 1 .. MaxAsked

(* The version tests of the two gates (releases-view.js, locations-view.js)*)
(* and of the page (settings.js).                                          *)
SupportsRemoteReboot(v) == v >= RebootMin
UnitSupportsLocation(v) == v >= LocationMin

(* Objects of the shadow merge key by key.                                 *)
Merge(old, new) ==
    [k \in DOMAIN old \union DOMAIN new |-> IF k \in DOMAIN new THEN new[k] ELSE old[k]]
NoKeys == [k \in {} |-> "none"]
Differing(d, r) ==
    [k \in {x \in DOMAIN d : x \in DOMAIN r => r[x] # d[x]} |-> d[k]]

MutantLocationShadowDesired(p) ==
    IF p = "none" THEN NoKeys ELSE [assigned |-> TRUE, place |-> p]

LocationShadowDesired(p) ==
    IF p = "none" THEN [assigned |-> FALSE] ELSE [assigned |-> TRUE, place |-> p]

Idle == [at |-> "idle", reboot |-> 0, target |-> 0]
NoConfig == [reboot |-> 0, target |-> 0]
None == [do |-> "none", arg |-> 0]

-----------------------------------------------------------------------------

(* A unit that has connected and reported; no request made so far.         *)
Init ==
    /\ desired = [reboot |-> 0, target |-> 0, location |-> NoKeys]
    /\ reported = [fw |-> First, location |-> NoKeys]
    /\ table = "none" /\ jobs = {}
    /\ connected = TRUE /\ down = {} /\ up = <<>>
    /\ seen = First /\ told = "fine"
    /\ config = NoConfig /\ clearTarget = FALSE /\ known = NoKeys /\ call = Idle
    /\ slot = "a" /\ image \in {[s \in Slots |-> IF s = "a" THEN First ELSE v] : v \in Versions}
    /\ honored = [s \in Slots |-> 0] /\ request = [s \in Slots |-> None]
    /\ stored = "none" /\ misfiled = FALSE /\ worker = None /\ trial = FALSE
    /\ issued = 0 /\ reboots = [r \in Requests |-> 0] /\ excused = {}
    /\ overlap = FALSE /\ echoed = TRUE
    /\ asked = 0 /\ faults = 0

-----------------------------------------------------------------------------
(* The shadow                                                              *)

(* A delta carries what differs between desired and reported; the agent    *)
(* reports neither a target nor a reboot that is asked for.                *)
Delta(d, r) == [reboot |-> d.reboot, target |-> d.target,
                location |-> Differing(d.location, r.location)]

Whole(d) == [reboot |-> d.reboot, target |-> d.target, location |-> d.location]

Blank == [reboot |-> 0, target |-> 0, location |-> NoKeys]

Send(m) ==
    /\ (connected /\ m # Blank) => Cardinality(down) < MaxDown
    /\ down' = IF connected /\ m # Blank THEN down \cup {m} ELSE down

Update(d) == desired' = d /\ Send(Delta(d, reported))

(* What the agent sends: an empty get, or a report with the nulls of what  *)
(* it has dealt with.                                                      *)
Absorb(m) ==
    IF m.get
    THEN UNCHANGED <<desired, reported>>
    ELSE /\ desired' = [desired EXCEPT !.reboot = IF m.reboot THEN 0 ELSE @,
                                       !.target = IF m.target THEN 0 ELSE @]
         /\ reported' = [fw |-> m.fw, location |-> Merge(reported.location, m.location)]

ShadowTakes ==
    /\ connected /\ up # <<>>
    /\ Absorb(Head(up)) /\ up' = Tail(up)
    /\ Send(IF Head(up).get THEN Whole(desired) ELSE Delta(desired', reported'))
    /\ UNCHANGED <<table, jobs, connected, dashboard, agent, disk, observed, bounds>>

-----------------------------------------------------------------------------
(* api.js                                                                  *)

Ask == asked < MaxAsked /\ asked' = asked + 1

(* What the pages offer to a role: a reboot for the version cached, a push *)
(* of any release, older ones and the one the unit runs included, and the  *)
(* buttons that set and remove a place.                                    *)
RebootOffered(r) == CanWrite(r, "ota") /\ SupportsRemoteReboot(seen)
PushOffered(r) == CanWrite(r, "ota")
PlaceOffered(r) == CanWrite(r, "location")

MutantCheckReboot(r) ==
    /\ Ask
    /\ RebootOffered(r)
    /\ ValidConfig([reboot |-> TRUE]) /\ AuthorizeConfig(r, [reboot |-> TRUE])
    /\ jobs' = jobs \cup {[do |-> "reboot", place |-> "none", stale |-> reported.fw # Running]}
    /\ UNCHANGED <<desired, reported, table, network, dashboard, agent, disk, observed, faults>>

(* handleSetConfig, first half: the Lambda checks the role and reads the   *)
(* shadow.                                                                 *)
CheckReboot(r) ==
    /\ Ask
    /\ RebootOffered(r)
    /\ ValidConfig([reboot |-> TRUE]) /\ AuthorizeConfig(r, [reboot |-> TRUE])
    /\ SupportsRemoteReboot(reported.fw)
    /\ jobs' = jobs \cup {[do |-> "reboot", place |-> "none", stale |-> reported.fw # Running]}
    /\ UNCHANGED <<desired, reported, table, network, dashboard, agent, disk, observed, faults>>

(* Second half: desired.reboot = true, which AWS stamps with the time.     *)
RequestReboot(j) ==
    /\ j.do = "reboot" /\ jobs' = jobs \ {j}
    /\ issued' = issued + 1
    /\ Update([desired EXCEPT !.reboot = issued + 1])
    /\ excused' = IF j.stale THEN excused \cup {issued + 1} ELSE excused
    /\ UNCHANGED <<reported, table, connected, up, dashboard, agent, disk, reboots, overlap,
                   echoed, bounds>>

(* handleCommand with a firmware_target.                                   *)
Push(r, v) ==
    /\ Ask
    /\ PushOffered(r)
    /\ ValidCommand([firmware_target |-> v]) /\ AuthorizeCommand(r, [firmware_target |-> v])
    /\ Update([desired EXCEPT !.target = v])
    /\ UNCHANGED <<reported, table, jobs, connected, up, dashboard, agent, disk, observed, faults>>

LocationWriteGuard(r) == CanWrite(r, "location")

(* handleSetLocation and handleClearLocation, first half: the table, then  *)
(* the shadow, in calls of their own.                                      *)
TableWritten(p) ==
    /\ table' = p
    /\ overlap' = \E j \in jobs : j.do \in {"check", "sync"}
    /\ jobs' = jobs \cup {[do |-> "check", place |-> p, stale |-> FALSE]}
    /\ UNCHANGED <<desired, reported, network, dashboard, agent, disk, issued, reboots, excused,
                   echoed, faults>>

SetLocation(r, p) ==
    /\ Ask
    /\ PlaceOffered(r) /\ LocationWriteGuard(r)
    /\ TableWritten(p)

(* Clearing what is not there is refused, before anything is sent.         *)
ClearLocation(r) ==
    /\ Ask
    /\ PlaceOffered(r) /\ LocationWriteGuard(r)
    /\ table # "none"
    /\ TableWritten("none")

(* The page warns of a save that was not sent to the unit; of a clear that *)
(* was not it says nothing.                                                *)
Reply(j, synced) ==
    told' = IF synced THEN "fine" ELSE IF j.place = "none" THEN "silent" ELSE "warned"

(* syncLocationShadow: read the shadow, then write it.                     *)
CheckLocation(j) ==
    /\ j.do = "check"
    /\ IF UnitSupportsLocation(reported.fw)
       THEN jobs' = (jobs \ {j}) \cup {[j EXCEPT !.do = "sync"]} /\ UNCHANGED told
       ELSE jobs' = jobs \ {j} /\ Reply(j, FALSE)
    /\ UNCHANGED <<desired, reported, table, network, seen, agent, disk, observed, bounds>>

SyncLocation(j) ==
    /\ j.do = "sync" /\ jobs' = jobs \ {j}
    /\ Update([desired EXCEPT !.location = Merge(@, LocationShadowDesired(j.place))])
    /\ Reply(j, TRUE)
    /\ UNCHANGED <<reported, table, connected, up, seen, agent, disk, observed, bounds>>

(* A call to AWS fails, or the invocation is killed.                       *)
FailJob(j) ==
    /\ faults < MaxFaults /\ faults' = faults + 1
    /\ jobs' = jobs \ {j}
    /\ IF j.do = "reboot" THEN UNCHANGED told ELSE Reply(j, FALSE)
    /\ UNCHANGED <<desired, reported, table, network, seen, agent, disk, observed, asked>>

(* useShadow(): every 8 s, and after a request.                            *)
PollShadow ==
    /\ seen # reported.fw /\ seen' = reported.fw
    /\ UNCHANGED <<cloud, network, told, agent, disk, observed, bounds>>

-----------------------------------------------------------------------------
(* The agent, MQTT thread                                                  *)

Connect ==
    /\ ~connected /\ Len(up) < MaxUp
    /\ connected' = TRUE
    /\ up' = Append(up, [get |-> TRUE])
    /\ UNCHANGED <<cloud, down, dashboard, agent, disk, observed, bounds>>

(* A clean session: what was on its way down is lost.  What was not        *)
(* acknowledged is sent again, be it that the broker had taken it.         *)
Disconnect ==
    /\ connected /\ faults < MaxFaults /\ faults' = faults + 1
    /\ connected' = FALSE /\ down' = {}
    /\ \/ UNCHANGED <<desired, reported>>
       \/ up # <<>> /\ Absorb(Head(up))
    /\ UNCHANGED <<table, jobs, up, dashboard, agent, disk, observed, asked>>

(* location_from_desired makes something of what is known: a place, or     *)
(* none.  Anything else is ignored and keeps the file.                     *)
Parsed(l) == "assigned" \in DOMAIN l /\ (l.assigned => "place" \in DOMAIN l)

StoredAfter(l) ==
    IF ~Parsed(l) THEN stored ELSE IF l.assigned THEN l.place ELSE "none"

(* location_store cannot write, rename or remove the file: it is logged,   *)
(* the place is echoed all the same, and nothing tries again before the    *)
(* next message with a location, if only the answer to the next get.       *)
CannotStore(p) ==
    /\ p # stored /\ misfiled' = TRUE /\ UNCHANGED stored
    /\ faults < MaxFaults /\ faults' = faults + 1

ApplyLocation(l) ==
    IF l # NoKeys /\ UnitSupportsLocation(Running)
    THEN /\ known' = Merge(known, l)
         /\ \/ /\ stored' = StoredAfter(known')
               /\ misfiled' = (misfiled /\ ~Parsed(known'))
               /\ UNCHANGED faults
            \/ CannotStore(StoredAfter(known'))
    ELSE UNCHANGED <<known, stored, misfiled, faults>>

(* apply_desired: location first, then the configuration; the callback     *)
(* runs when the configuration changed, on a copy of it.                   *)
Deliver(m) ==
    /\ connected /\ call = Idle /\ m \in down
    /\ down' = down \ {m}
    /\ ApplyLocation(m.location)
    /\ config' = [reboot |-> IF m.reboot # 0 THEN m.reboot ELSE config.reboot,
                  target |-> IF m.target # 0 THEN m.target ELSE config.target]
    /\ call' = IF config' = config THEN Idle
               ELSE [at |-> "guard", reboot |-> config'.reboot, target |-> config'.target]
    /\ echoed' = FALSE
    /\ UNCHANGED <<cloud, connected, up, dashboard, clearTarget, slot, image, honored, request,
                   worker, trial, issued, reboots, excused, overlap, asked>>

Guarded == SupportsRemoteReboot(Running)      \* agents before it had no guard

ShouldHonor(ts, done) == ts # done

MutantGuard ==
    /\ call.at = "guard"
    /\ call' = [call EXCEPT !.at = IF call.reboot # 0 /\ (Guarded => ShouldHonor(call.reboot, honored[slot]))
                                   THEN "hand" ELSE "target"]
    /\ UNCHANGED <<cloud, network, dashboard, config, clearTarget, known, disk, observed, bounds>>

(* on_shadow_config: the time stamp is saved before the reboot is handed   *)
(* over; a request already carried out, or one that cannot be saved, is    *)
(* not.  Only the last one is kept: when one that a newer request overtook *)
(* on the way takes its place, none from it to the newer one is known.     *)
Save ==
    /\ honored' = IF Guarded THEN [honored EXCEPT ![slot] = call.reboot] ELSE honored
    /\ excused' = IF call.reboot < honored[slot] THEN excused \cup call.reboot .. honored[slot] ELSE excused
    /\ UNCHANGED faults

CannotSave ==
    /\ Guarded /\ faults < MaxFaults /\ faults' = faults + 1
    /\ UNCHANGED <<honored, excused>>

Guard ==
    /\ call.at = "guard"
    /\ IF call.reboot # 0 /\ (Guarded => ShouldHonor(call.reboot, honored[slot]))
       THEN \/ Save /\ call' = [call EXCEPT !.at = "hand"]
            \/ CannotSave /\ call' = [call EXCEPT !.at = "target"]
       ELSE call' = [call EXCEPT !.at = "target"] /\ UNCHANGED <<honored, excused, faults>>
    /\ UNCHANGED <<cloud, network, dashboard, config, clearTarget, known, slot, image, request,
                   stored, misfiled, worker, trial, issued, reboots, overlap, echoed, asked>>

(* write_ota_request replaces whatever line is there.                      *)
WriteRequest(q) == request' = [request EXCEPT ![slot] = q]

HandOver ==
    /\ call.at = "hand"
    /\ WriteRequest([do |-> "reboot", arg |-> call.reboot])
    /\ call' = [call EXCEPT !.at = "target"]
    /\ UNCHANGED <<cloud, network, dashboard, config, clearTarget, known, slot, image, honored,
                   stored, misfiled, worker, trial, observed, bounds>>

MutantOtaTrigger ==
    /\ call.at = "target" /\ call' = Idle
    /\ IF call.target # 0
       THEN WriteRequest([do |-> "install", arg |-> call.target])
       ELSE UNCHANGED request
    /\ UNCHANGED <<cloud, network, dashboard, config, clearTarget, known, slot, image, honored,
                   stored, misfiled, worker, trial, observed, bounds>>

(* ota_trigger: a target the unit already runs is dropped, unless a newer  *)
(* one took its place; any other becomes the worker's request.             *)
OtaTrigger ==
    /\ call.at = "target" /\ call' = Idle
    /\ IF call.target \notin {0, Running}
       THEN WriteRequest([do |-> "install", arg |-> call.target])
       ELSE UNCHANGED request
    /\ IF call.target = Running /\ config.target = Running
       THEN config' = [config EXCEPT !.target = 0] /\ clearTarget' = TRUE
       ELSE UNCHANGED <<config, clearTarget>>
    /\ UNCHANGED <<cloud, network, dashboard, known, slot, image, honored, stored, misfiled,
                   worker, trial, observed, bounds>>

-----------------------------------------------------------------------------
(* The agent, telemetry thread                                             *)

(* shadow_publish_reported: the location is echoed, the reboot and the     *)
(* satisfied target are nulled.                                            *)
Report ==
    /\ Len(up) < MaxUp
    /\ up' = Append(up, [get |-> FALSE, fw |-> Running, location |-> known,
                         reboot |-> config.reboot # 0, target |-> clearTarget])
    /\ config' = [config EXCEPT !.reboot = 0]
    /\ clearTarget' = FALSE /\ echoed' = TRUE
    /\ UNCHANGED <<cloud, connected, down, dashboard, known, call, disk, issued, reboots, excused,
                   overlap, bounds>>

-----------------------------------------------------------------------------
(* The root worker, and restarts                                           *)

TakeRequest ==
    /\ worker = None /\ request[slot] # None
    /\ worker' = request[slot]
    /\ WriteRequest(None)
    /\ UNCHANGED <<cloud, network, dashboard, agent, slot, image, honored, stored, misfiled,
                   trial, observed, bounds>>

(* The processes start anew: nothing in memory survives, and the tmp file  *)
(* system neither.                                                         *)
Boot(s) ==
    /\ connected' = FALSE /\ down' = {} /\ up' = <<>>
    /\ config' = NoConfig /\ clearTarget' = FALSE /\ known' = NoKeys /\ call' = Idle
    /\ worker' = None /\ slot' = s

(* A change of slot leaves the guard behind: every request made so far may *)
(* be met again by an agent that knows nothing of it.                      *)
ChangeSlot ==
    /\ excused' = excused \cup 1 .. issued
    /\ jobs' = {[j EXCEPT !.stale = j.do = "reboot"] : j \in jobs}

ColdReset ==
    /\ worker.do = "reboot"
    /\ reboots' = [reboots EXCEPT ![worker.arg] = IF @ < 2 THEN @ + 1 ELSE @]
    /\ Boot(slot)
    /\ UNCHANGED <<cloud, dashboard, image, honored, request, stored, misfiled, trial, issued,
                   excused, overlap, echoed, bounds>>

(* swupdate writes the other slot, which starts with an empty /var/lib;    *)
(* the unit comes up on it.                                                *)
Install ==
    /\ worker.do = "install" /\ worker.arg \in Versions
    /\ image' = [image EXCEPT ![Other(slot)] = worker.arg]
    /\ honored' = [honored EXCEPT ![Other(slot)] = 0]
    /\ request' = [request EXCEPT ![Other(slot)] = None]
    /\ trial' = TRUE
    /\ Boot(Other(slot)) /\ ChangeSlot
    /\ UNCHANGED <<desired, reported, table, dashboard, stored, misfiled, issued, reboots, overlap,
                   echoed, bounds>>

(* The download or swupdate fails: the unit stays, and the target stands.  *)
InstallFails ==
    /\ worker.do = "install" /\ faults < MaxFaults /\ faults' = faults + 1
    /\ worker' = None
    /\ UNCHANGED <<cloud, network, dashboard, agent, slot, image, honored, request, stored,
                   misfiled, trial, observed, asked>>

(* boot-confirm ends the trial, or the boot script goes back to the other  *)
(* slot (OtaSlots has the whole of it).                                    *)
Confirm == trial /\ trial' = FALSE
    /\ UNCHANGED <<cloud, network, dashboard, agent, slot, image, honored, request, stored,
                   misfiled, worker, observed, bounds>>

RollBack ==
    /\ trial /\ trial' = FALSE
    /\ faults < MaxFaults /\ faults' = faults + 1
    /\ Boot(Other(slot)) /\ ChangeSlot
    /\ UNCHANGED <<desired, reported, table, dashboard, image, honored, request, stored,
                   misfiled, issued, reboots, overlap, echoed, asked>>

(* Power goes, or the agent is restarted with the board.                   *)
PowerCut ==
    /\ faults < MaxFaults /\ faults' = faults + 1
    /\ Boot(slot)
    /\ UNCHANGED <<cloud, dashboard, image, honored, request, stored, misfiled, trial, observed,
                   asked>>

-----------------------------------------------------------------------------

Next ==
    \/ ShadowTakes
    \/ \E r \in Roles : CheckReboot(r)
    \/ \E r \in Roles, v \in Versions : Push(r, v)
    \/ \E r \in Roles, p \in Places : SetLocation(r, p)
    \/ \E r \in Roles : ClearLocation(r)
    \/ \E j \in jobs : RequestReboot(j)
    \/ \E j \in jobs : CheckLocation(j)
    \/ \E j \in jobs : SyncLocation(j)
    \/ \E j \in jobs : FailJob(j)
    \/ PollShadow
    \/ Connect
    \/ Disconnect
    \/ \E m \in down : Deliver(m)
    \/ Guard
    \/ HandOver
    \/ OtaTrigger
    \/ Report
    \/ TakeRequest
    \/ ColdReset
    \/ Install
    \/ InstallFails
    \/ Confirm
    \/ RollBack
    \/ PowerCut

Spec == Init /\ [][Next]_vars

-----------------------------------------------------------------------------
(* Properties                                                              *)

(* One request reboots the unit at most once, through lost connections,    *)
(* repeated and late messages, restarts and power cuts (reboot_guard.h):   *)
(* unless the unit changed root slot since, which leaves the guard behind, *)
(* or no longer ran the version that api.js:429 checked.                   *)
RebootOnce == \A r \in Requests : reboots[r] > 1 => r \in excused

(* No request is being handled, and nothing is on its way.                 *)
Quiet ==
    /\ jobs = {} /\ connected /\ up = <<>> /\ down = {} /\ echoed
    /\ UnitSupportsLocation(Running)

(* When all is quiet the unit's forecast uses the place the fleet map      *)
(* shows, or the map's operator was warned that it does not                *)
(* (api.js:776-817), but for a clear that did not reach the unit, which    *)
(* the page says nothing of, two operators who wrote at the same time, and *)
(* a unit that could not write its file (shadow.c:187): that one is only   *)
(* in the unit's log, and the place is reported as taken.                  *)
LocationAgrees ==
    Quiet => table = stored \/ told \in {"warned", "silent"} \/ overlap \/ misfiled

(* The worker never sets out to install the version the unit runs: a       *)
(* target left in the shadow is met again at every connection and every    *)
(* change (main.c:474-496).                                                *)
NoReinstall ==
    [][worker # worker' /\ worker'.do = "install" => worker'.arg # Running]_vars
=============================================================================
