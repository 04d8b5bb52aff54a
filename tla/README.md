# EcoFleet cortex-yocto: TLA+ models, checks and proofs

The repository is the gateway of a truck APU (auxiliary power unit): a C agent
(`gobi-agent`) on an i.MX8 board talks Modbus RTU to the APU controller and MQTT to
AWS IoT; Lambdas serve a fleet dashboard; A/B slots, a u-boot script and swupdate
carry firmware updates of the gateway; a bootloader protocol carries those of the
controller. `GA/` below stands for
`src/meta-ecofleet/recipes-ecofleet/gobi-agent/files/`.

`tlc -config X.cfg M` checks a model, `tlapm M.tla` a proof; `PROJECT.json` names
every run, theorem, hazard and the source lines every definition stands for.

## 1. Inventory

| component | state it keeps | operations | talks to | what makes it hard | what must hold |
|---|---|---|---|---|---|
| **Agent, MQTT thread** (`GA/shadow.c`, `GA/main.c` callbacks) | `config`, sequence numbers and one-shot clear flags under `config_mutex` | `apply_desired` on deltas and get/accepted, `on_connect`, `on_disconnect`, `on_shadow_config` | AWS shadow, telemetry thread, OTA mailbox | runs between the peek and the ack of the other thread; no version check; reconnects | no command lost, none after a newer one |
| **Agent, telemetry thread** (`GA/main.c` loop) | cycle state, `prev_error`, `last_fault` | Modbus read, report, peek / write / ack of commands, heater, panel commands, fault events, buffer flush | controller, shadow, SQLite, panel files | slow bus, reports sent before commands are applied, ignored return codes | shadow comes to rest, each fault told at least once |
| **AWS shadow, libmosquitto** (external) | desired, reported, queues | delta, get/accepted, QoS-1 resend | agent | loses deltas with the session, repeats reports | - |
| **Update slots** (`ecofleet-boot.cmd`, `scripts/pre-install.sh`, `scripts/post-install.sh`, `gobi-ota-apply`, `ecofleet-boot-confirm.sh`) | u-boot env `slot_active`, `upgrade_available`, `bootcount`; two slots | boot, count, roll back, install, switch, confirm | eMMC, PMIC | four writers, no transaction, power cuts | a working image stays, and is found |
| **Unit requests** (`on_shadow_config`, `reboot_guard.c`, `gobi-ota-apply`, `lambda/api`) | guard file, request file, location file, `desired`, locations table | check, request, deliver, honour, hand over, install, report | shadow, root worker, dashboard | re-fires on every config change, one-slot mailbox, guard per slot, two stores | one reboot per request, no install loop, map and forecast agree |
| **Heater commands** (`shadow.c`, `heater_ext.c`, `main.c`) | pending fields, `heater_desired_seq`, plan of writes | merge, peek, plan, write per register, ack | shadow, controller | partial bodies, partial writes | no accepted stop or level forgotten |
| **APU flashing** (`bl_session.c`, `bl_transport_serial.c`, `stm32_flash_task.c`) | session step, retry guard, manifest | enter, info, erase, data, verify, commit, version | controller bootloader over RS-485 | lost and late frames | never commit an unverified image |
| **Fault pipeline** (`main.c` fault and buffer code, `event_log.c`, `apu_silence.c`, `lambda/fault/`) | `last_fault` file, SQLite rows, fault records | store, flush, publish, record, email | AWS IoT rule, DynamoDB, SES | two flushers, crash windows, at-least-once | every fault recorded, one email per fault |
| **Battery alerts** (`lambda/ingest/`) | one record per unit, versioned | step, conditional save, email | DynamoDB, SES | concurrent Lambdas, replays | serial record, a coherent story of emails |
| **Fleet API, users** (`lambda/api/api.js`, `permissions.js`) | user pool, users table, tokens | login, refresh, create, update, delete, password | Cognito, DynamoDB | two stores without a transaction, tokens that outlive a role | accounts as granted |
| **Fleet API, reads** (`flux.js`, `series-view.js`, `reports-view.js`, `link-view.js`) | - | the Flux queries and their folders | InfluxDB, shadow | tags split a unit into series | figures add up |
| **Dashboard** (`cloud/frontend/src`) | tokens, role, query cache, page state | sign in and out, refresh, poll, fetch, save | Fleet API | late answers, failed fetches, closures | one person's data, the selected unit's data, no false all-clear |
| **Panel** (`gobi-ui`) | command files, models | write a command file, show snapshots | agent through `/run` | one-slot command files, renamed aside before they are read | not modelled |
| weather, tz, kernel module, provisioning | - | parsing, one-shot tools | - | little | not modelled |

The hazards, each with its source line and the properties that watch it, are in
`PROJECT.json`.

## 2. Plan, and where it stands

Modules in the order of the importance of what they watch. All listed are built and
checked; those marked *proved* have a proof module, `<name>Proofs` (`UnitProofs` for the
slots and the heater, both on the unit), with a theorem for every safety property that
their runs check.

1. `ShadowCommands`, refining `CommandOrder`; *proved*.
2. `OtaSlots`; *proved*.
3. `FlashSession` over a lossy bus, refining `ControllerImage`; *proved*.
4. `FaultAlerts`, `BatteryAlerts`: the two Lambdas that send email; *proved*.
5. `UserDirectory`, and `DashboardSession`, which composes one browser tab with it;
   *proved*, both in `DashboardSessionProofs`.
6. `Permissions`, `UnitRequests`: reboot, update and location, from the page to the
   root worker; the slots of `OtaSlots` appear as one action per boot; *proved*.
7. `HeaterCommands`; *proved*.
8. `TelemetryViews` (operators only), `FleetViews` (units, cloud, one browser); *proved*,
   all but the sums of `FiguresAddUp`.

Left: an abstract two-slot update refined by `OtaSlots`; the flash task above
`FlashSession`.

How every proof is laid out: the inductive invariant is a conjunction of named parts,
each of which TLC first checked as an invariant of the module's run; then lemmas about
the operators, lemmas per action (with a frame lemma for the actions that leave a part's
variables alone), and the theorems. The assumptions are the named ASSUMEs of the modules.

Every module takes its limits as CONSTANTS under a named ASSUME, has one action per
handler and no RECURSIVE operator, so that it can be proved about.

## 3. Remote commands: `ShadowCommands`, `CommandOrder`

**What is modelled.** One remote command ("start", "stop", ...) per issue number;
`desired` is the cloud's wish, `down` the deltas and get/accepted messages under way,
`up` the agent's QoS-1 messages not yet acknowledged; `pending`, `seq`, `clear` are
`config.apu_command`, `apu_command_seq`, `clear_apu_cmd_desired`; `pc`, `peeked` the
telemetry thread. `config_mutex` makes each shadow.c function one action and is
released during the register write, so the MQTT thread's `ApplyDesired` may run between
`Peek`, `WriteOk`/`WriteFail` and `Ack`. The shadow service sends a delta when desired
is set and again whenever a report leaves it standing; a clean session loses `down` with
the connection and libmosquitto repeats `up`. `ApplyDesired` takes any message of `down`:
AWS IoT does not promise their order and the agent ignores the shadow version
(shadow.c:365-382). `overtook` records that a message came ahead of an older one. A restart clears all process memory.

`WriteFail` may have written all the same (all replies lost). Offline, a publish may or
may not be queued by libmosquitto; the agent ignores the result in both cases.

`CommandOrder` is the promise to the dashboard: commands are told to the controller in
the order of their issue, repeats allowed, as long as no message overtakes an older one.
What an overtaking does is real and not repaired by the agent: an older delta applied last
takes the place of the newer command, is written and acked, and its null wipes the newer
one in the cloud. `InOrder`, `KeptWithoutFaults` and `EachWritten` therefore say "unless
`overtook`"; `AckOnlyWritten` and `Settles` hold in any order of delivery.

| run | shows |
|---|---|
| `MCShadowCommands.cfg` | `AckOnlyWritten` (a stale ack never wipes a newer command), `InOrder` (refinement of `CommandOrder`), `KeptWithoutFaults` (the latest command is always somewhere), and under fairness `EachWritten` and `Settles`; with 2 commands, deltas in any order, 1 lost connection, 1 restart, a counter wrapping at 3 |
| `NullShadowCommands.cfg` | the comment shadow.c:599-603 is not what the code does: see Findings |

**Bounds.** Two commands are what a race between an older and a newer one takes; two
messages down and two up allow a delta and its repeat, a report and a get. `SeqWrap` 3
makes the counter wrap in the run; the guard `window < SeqWrap - 1` states the one
assumption of the equality check, that fewer than 2^32 commands arrive during one write.

**Fairness.** Weak fairness of both threads' steps, of the network and of reconnecting:
both are endless loops and libmosquitto reconnects. Strong fairness of `ReportLinkUp`
and `WriteOk`: RS-485 errors are transient, so a read or write tried every cycle works
some time. `Settles` is under the hypothesis that from some time on no delta lands
inside a Modbus write (`window = 0`). It is needed: the report of a cycle leaves just
before the command is applied, AWS answers it with the same delta, and a delta inside
the write counts as a newer command; when that happened in every cycle, the command
would be written again in every cycle.

**Proved** (`ShadowCommandsProofs`), for all bounds, every `SeqWrap > 1`:
`TypeCorrect`, `AckSafe`, `OrderImplemented` and `Kept`. `AckSafe` rests on `AckInv`: in stage "ack" the peeked command is written, and an
unchanged sequence number (`window = 0` modulo `SeqWrap`) means an unchanged pending
command. `OrderImplemented` rests on `OrderInv`: everything held or on its way was
issued, and as long as no message overtook an older one everything held (pending, peeked,
desired, queued) is at least as new as `lastWritten`, and the queue is sorted and not
older than what the agent holds. A message that overtakes none is as good as the first of
the queue (`DeliveredInOrder`): those before it carry the same command. `Kept` needs that a standing null is for a command that
was written, or that the newer command's delta is still queued behind. Lemmas about
`RemoveAt`, `Push` and `Bump` are stated once. TLC checked every invariant first.

## 4. Update slots: `OtaSlots`

**What is modelled.** Each `saveenv` and `fw_setenv` is one step; `PowerCut` may come
between any two, `EnvLost` while one is under way (the environment is a single copy).
`stage` is u-boot's place in `ecofleet-boot.cmd` or "linux"; `worker` the next step of
`gobi-ota-apply`/swupdate; `confirm` that of boot-confirm. Images are good, sick (boots,
never healthy) or dead (does not load). Download and signature check are inside
`WriteImage`/`WriteFails`: they do not touch the environment.

Some things the scripts do not handle; each is recorded in `mishaps` when it happens,
and the properties say what holds while none did:

- `unproven`: an update started from a slot still on trial (pre-install.sh:19 does not
  look at `upgrade_available`) overwrites the only image known to work;
- `untried`, `miscounted`: post-install.sh stopped between its writes;
- `disarmed`: boot-confirm of the old slot ran after the new slot's trial was armed;
- `env_lost`: power lost inside an environment write.

| run | shows |
|---|---|
| `MCOtaSlots.cfg` | `KnownGoodKept`, `Recoverable`, `FullTrial`, `NoSpuriousRollBack` over 3 updates and 4 power cuts, bootlimit 2, and under fairness `EndsUpGood`: it ends up running a working image |
| `TornOtaSlots.cfg` | `UnconfirmedOnTrial` is violated: see Findings |

**Bounds.** Three updates reach a third one after a failed cold reset; four cuts exhaust
a trial of two boots and cut two scripts. `CHECK_DEADLOCK FALSE`: a unit with nothing to
install and no power cut left just runs. The last line of the boot script ("neither slot
could be booted") has no action: the theorem `NeverReflash` shows that it is never
reached, because what is running is never overwritten.

**Fairness.** u-boot always proceeds; a sick unit is restarted some time (hang plus
driver, or the watchdog of systemd). No fairness for installs, cuts or confirmation.

**Proved** (`UnitProofs`), for every boot limit and any number of updates and cuts:
`TypeCorrect`, `LastGoodKept`, `NeverReflash`, `AlwaysRecoverable`, `TrialIsFull`,
`ConfirmedStays`.
`KnownGoodKept` is strengthened by `KeptInv` (a proven slot holds a good image; the
worker writes only the slot that is not running and not proven; some slot is proven),
`NeverReflash` by
`BootsInv` (the running image loads, and so does one of the two), `Recoverable` by `RecoverInv` (a slot on trial has a good spare; an update runs from a
proven slot) and `TrialIsFull` by `CountInv` (passes follow the saved count).

## 5. Controller transfer: `FlashSession`, `ControllerImage`

**What is modelled.** `bl_session_flash` as it alternates between sending a request
(`Send`, with what the controller makes of it) and going on with the answer (`AfterEnter`
.. `AfterAbort`, one per step of the function). `try` is the loop counter of the step,
`off` the chunk, `img` the image picked from INFO, `heard` the local `any_response`.
The controller is the bootloader as `tests/fake_bootloader.c` plays it, except that it
resets when the fake's `wait_reset` would make it; it may also reset by itself, fail to
program a chunk, or program it wrongly. A session may find it in any state.

`wire` holds the replies on their way. `xfer` flushes the line before it sends, but a
reply that has not arrived yet survives the flush and is read as the answer to the next
request. What the parsers of `bl_frame.c` accept is all that tells the two apart.

`ControllerImage` is the promise to the flash task: the controller runs the old image
until it switches, once, to the complete new one; "OK" is true, and so are the failures
before COMMIT, which mean the old image. `COMMIT_FAIL` and `VERSION_MISMATCH` promise
nothing: a late NAK of a VERIFY attempt can be read as the answer to COMMIT. The flash
task knows (stm32_flash_task.c:344-351) and corrects its status from later telemetry.

| run | shows |
|---|---|
| `MCFlashSession.cfg` | `Programmed`, `CommitVerified` (no late ACK stands in for a lost chunk or a lost VERIFY), `RetriesSuffice` (no loop gives up early), `ImageSpec` (refinement of `ControllerImage`), `SessionEnds` |

**Bounds.** Two chunks let the ACK of one be taken for that of the other; the budgets of
attempts are the program's (INFO: 3 for 20, its loop only waits). Six disturbances
exhaust any loop and leave one for another step; one reset suffices, as nothing brings
the controller back into the bootloader. `CHECK_DEADLOCK FALSE`: the session returns.

**Fairness.** Weak fairness of the session's own steps: it waits for nothing but the bus
and every exchange has a deadline. None for the controller's resets.

**Proved** (`FlashSessionProofs`), for every image length, all budgets, any number of
disturbances and resets: `TypeCorrect`, `AllProgrammed`, `OnlyVerifiedCommitted`,
`Implements` (the refinement) and `GivesUpOnlyWhenSpent`. A lemma per exchange says
which reply it adds and what it does to the controller. The invariant `SafeInv` says
what each reply under way proves, whenever it is read (`FrameSound`: an ACK of a chunk
that the chunk is programmed, of VERIFY that the image is complete, ...), and what the
session has achieved at each step. `RetryInv` counts: at least one disturbance per
failed attempt, and one for the attempt under way unless its answer is next on the wire.
Both were model-checked first.

## 6. Fault emails: `FaultAlerts`

**What is modelled.** The agent publishes a change of the fault code and then saves it
in a file (`Publish`, `Save`, two steps); the save may fail, which is only logged and
leaves the old file (`SaveFails`); `Restart` reads the file. Everything between
the publish and an invocation of the Lambda (the MQTT client, the SQLite rows with their
two flushers and their cap, QoS 1, the retries of AWS) delivers an event any number of
times, in any order, or never: `Look(w, e)` is enabled for every published event. The
Lambda looks up the newest record at or before the event, writes its own, and emails;
the record doubles as the mark that the event was handled.

What the code does not handle is named per event in `mishap`, and the properties say
what holds without it: `overlap` (two invocations of one event between lookup and write:
two emails), `resent` (the SES client, `maxAttempts` 2 in net-limits.js, sent again what
had been accepted without an answer: two copies from one invocation), `gap` (the event overtook an older one), `logged` (a copy failed; it is
logged and never retried), `unanswered` (the write landed, its answer was lost; the retry
takes itself for a redelivery), `stopped` (between write and email).

`torn` records a restart of the agent with a file that is not up to date: it had died
between publishing and saving, or the save had failed. Such a unit does not know that a
clear is owed; the next change mends it.

`MCFaultAlerts.cfg`: `OneEmailEach`, `OnlyOwed`, `OwedIsSent`, `ClearNotForgotten`, over
two events of one fault, two people, two Lambda instances, four invocations in all, a
restart, a stopped invocation and one in which the SES client tried twice. Two events are
a fault and its end; four invocations are a retry of a retry beside the other event.
The unit's clock is assumed not to step back between two events (an event is its
timestamp here); battery-alert.js:10-11 notes that it can be wrong after a cold boot.

**Proved** (`FaultAlertsProofs`), for all faults, people, instances and bounds:
`RestartForgetsNothing`, `NobodyMailedTwice`, `EmailsSayWhatHappened`,
`OwedEmailsAreSent`. Only `ClearNotForgotten` and `OnlyOwed` appear in the invariant as
they stand, and not even these are inductive by themselves. `OneEmailEach` needs
`OneFirst`: without an overlap at most one invocation under way found no record of the
event, and until it mails nobody has the email, for it alone decides; what it sends is
one copy, or two where the SES client tried twice. `OnlyOwed` needs
`Looked`: without a gap an invocation saw the record of its event or of the one just
before, so that it compares the codes the unit compared. `OwedIsSent` needs `Announced`:
a recorded event is still in the hands of the invocation that found no record, or was
announced to all, or met a mishap. That the lookup finds a newest record rests on
`HasMaximum`, from the well-foundedness of the naturals. What owes no email is the kind
"silent".

## 7. Battery emails: `BatteryAlerts`

**What is modelled.** `stepBattery` with its runs, holds, reminder and step, as the
operator `Step`; an invocation of the ingest Lambda as `Arrive` (clock read), `Load`,
`Save` under the record's version, `Mail`. `LoseRace` drops a reading, `SaveUnanswered`
is the put that lands while its answer is lost: the SDK repeats it, it fails its own
condition and the email it had earned is dropped without a log line. `decided` is the
story of the emails, each with its fate.

`MCBatteryAlerts.cfg`: `TypeOK` (with `Sound`, the states the rule can be in), `Story`,
`Told`, and the action properties `Serial` and `Patient`; two instances, six readings
out of five kinds (at the limit, below, a step below, no number, replayed), six ticks
with a hold of two and a day of three: low, lower, reminder and recovery all occur. A
tick is longer than an invocation can live, so an overlap shifts a hold by one tick,
which `Patient` grants.

**Proved** (`BatteryAlertsProofs`), for all readings, thresholds, durations, instances and
bounds: `TypeCorrect`, `StoryCoherent`, `EveryEmailAccounted`, `SavesAreSerial`,
`EmailsArePatient`; assumed are a hold of at least a tick and at most a day, a positive
step, and that no instance is named like a fate. `StepMoves` splits `Step` into the six
moves of the rule, and every later proof goes by these. `Serial` needs `Carries`: the
result an invocation is about to save is `Step` of the record it loaded, and if the
version still matches, of the record as it is. `Story` and `Patient` need `Follows`,
which ties the record to the last email decided: alerting, level and time are that
email's, and the run under way began after it and after the last good reading, but for
the tick of an overlap (`Prompt`: no invocation holds an arrival time older than that).

## 8. Users and one browser tab: `UserDirectory`, `DashboardSession`

`UserDirectory` is the user pool and the users table: creating a user is three calls,
deleting two, any may fail; tokens carry the role of their signing for `Life`.
`DashboardSession` EXTENDS it with a tab: tokens, role, localStorage, one cached query
(the email-alerts switch), and calls whose answers come late or never. Admins act from
elsewhere meanwhile.

`MCDashboardSession.cfg`: `AsGranted` (who signs in gets the role last given to that
account, not that of an earlier account of the address), `RecentAdmin` (a role that was
taken away stops working within a token's life), `OnePerson` (nothing of the person
before is left in the tab) and `ShowsStored` (the switch shows what is stored), with an
admin, an end user, two admin requests, two calls of the tab and six acts or failures.
Two calls are a read and a save, or an answer of the old session and a call of the new.

A refresh that fails for any reason, and a request sent again that gets no response, ends
the session although the account lives (`Refresh`, `Expired`); a late one may end the
session of the next person.

Exceptions that the properties name: an operation that stopped half way; a new password
whose answer is lost (UsersPage closes the dialog with the only copy); the second call of
a delete that sweeps away the item of an account created for the address since; an
answer to a refresh or to a save that comes after sign-out (`crossed`: client.js takes
the token of the person before, `setQueryData` fills the cleared cache); a read overtaken
by a save; a re-read after a failed save that fails as well, at once or after its token
was refreshed.

**Proved** (`DashboardSessionProofs`), for all people, roles, operations, calls and bounds:
`RolesAsGranted`, `OnlyRecentAdmins`, `SessionOfOnePerson`, `SwitchShowsStored`. The
directory's invariant `DInv` holds in the middle of operations as well: an account without
a mishap has the role granted to it, or the operation that will write it is under way
(`InOrder`), and an admin's token ends within a life of the last moment the table said
"admin" (`Dated`, `Ending`). The tab's, `TInv`: refresh token and stored session are the
user's even when a late answer was taken (`SignedIn`), all else and all that calls of this
session will bring is the user's until then (`Own`), at most one save is under way
(`OneSave`), and the switch shows what is stored, or a save or a read that will put it
right is under way (`Fresh`). A read that fails after its token was refreshed puts nothing
right: looking for `Fresh` showed that `behind` has to count it.

## 9. Reboot, update and location: `Permissions`, `UnitRequests`

**What is modelled.** The pages offer, the API checks in one call and writes `desired` in
another (`CheckReboot`, `RequestReboot`; `SetLocation`, `CheckLocation`, `SyncLocation`),
the shadow merges key by key, the agent's MQTT thread applies a message (`Deliver`) and
runs `on_shadow_config` in steps (`Guard`, `HandOver`, `OtaTrigger`), the telemetry
thread reports, and the root worker takes the one-line request file. Guard file and
request file live in the root slot, the location file does not. That file may fail to be
written (`CannotStore`): the agent logs it, echoes the place as reported, and tries again
only at the next message with a location, if only the `get` of a reconnect. Power cuts,
lost connections, repeated reports, failed calls and roll-backs come between any two.

`MCUnitRequests.cfg`: `RebootOnce`, `LocationAgrees`, `NoReinstall`, for two releases
(one older than the guard and the location report), two places, two requests and two
faults, in 2.1 million states. Two requests are what lets one overtake another.

Exceptions the properties name: a change of root slot leaves the guard behind; the guard
compares with the last time stamp only (`ts # done`): when a request that a newer one
overtook takes its place, none from it to the newer one is known any more, and a repeated
message carries such a one out again (`Save` excuses them; with three requests that is
more than the late one and the newest, which are all there are in the run); the version
that api.js:429 checks is the *reported* one, which may be that of before an update; two
operators who place a unit at the same time leave table and shadow to different winners; a
clear that is not sent to the unit is not told to the operator, and cannot be retried
(there is nothing left to clear); a place that the unit could not write (`misfiled`, until
a later one is written) is known to its log alone. A reboot line in the request file may be replaced by an
install line before the worker reads it: the install restarts the unit as well.

**Proved** (`UnitRequestsProofs`), for all releases, places and bounds, any number of
requests included: `RebootsOnce`, `NeverReinstalls`, `ForecastFollowsMap`, from two
invariants. `RInv` counts for each request how often it was carried out or will be, as
things stand (`Carried`: the reboots done, plus the hand-over, the request file and the
worker that name it): without an excuse at most once, and if once the guard holds that
request or a newer one (`Once`). For that the slot that runs must have the guard for every
request that is not excused (`Checked`), and no request be met before it is made (`Made`).
`LInv` follows a key of the location from the shadow to the file: what is desired is known
to a connected agent, or in a message on its way down, or a get or a report on its way up
will bring one (`InHand`). The last case needs that the last report under way says what
the agent knows (`Echoed`), because the shadow answers a report with what differs; the
file needs `Filed` (the file holds what the agent knows, unless it could not be written),
the table `Alone` and `Agreed`. The theorem is about the moments when
all is quiet; that one comes is not claimed.

## 10. Heater: `HeaterCommands`

**What is modelled.** A command is a partial function from fields to values, merged in
the shadow, again in the agent with what is still pending, planned as writes and written
register by register, each of which may fail and may have been taken all the same; the
ack holds only if none failed and nothing came meanwhile.

| run | shows |
|---|---|
| `MCHeaterCommands.cfg` | `HeaterTypeOK` (no register is written whose field the command lacks), `StopKept`, for three bodies, a lost connection and a restart |
| `ExtHeaterCommands.cfg` | `NulledOnlyOnceApplied` is violated: see Findings |

One value per level and setpoint suffices: `on` has both of its own, and a body that
repeats a value is told from one that changes it by `on`. Three bodies are one written,
one merged during the write and one that overtakes.

**Proved** (`UnitProofs`), for all levels and setpoints, both ages of the
firmware and all bounds: `HeaterTypeCorrect` and `StopNeverForgotten`. `StopKept` says nothing
of a command in the middle of its writes, which the ack at the end wipes; `Writing` does:
while nothing came meanwhile, what is pending is what was peeked, and while no write failed
a basic field still owed is still to be written. `Plan` is a concatenation of at most one
write per register, so that its range is known without induction.

Left as they are, as observations: the agent never reports `heater_desired_seq`, so
"Pending..." in HeaterTab.jsx:25-26 is never followed by "Applied" (CONTRACT.md:124-126);
a desired level that equals the reported one makes no delta; a null that is lost leaves
`{on: 1}` standing, which a reconnect applies again; a repeated null can wipe a stop that
was set in the cloud while the unit was offline; the Heater tab offers a start to an
offline unit, the Overview's toggle does not.

## 11. What the pages say: `TelemetryViews`, `FleetViews`

**What is modelled.** `TelemetryViews` has no state: each Flux query as the set of rows
it selects from series split by tags, the folders of the API, and the view model of
contract.js. `FleetViews` is the machine around it: two units whose condition changes,
that fall silent, lose the network (rows and events are then buffered, and sent in batches of
`Batch` behind what is new: at the reconnect and at every report after it) or whose
controller stops answering (event 256 and the link report of the shadow); the cloud's
rows, events and links; one browser that polls cards and moves between pages, units and
periods, saves maintenance records, and whose fetches fail, overlap and are overtaken.
Alerts shows all units (`allMode`) or one: `key` says which, `list` the units it may show,
and only `allMode` has `StaleNote`, the reason why a fault may be old news. A page's claim
is an operator of its name: `NoActiveFaults`, `MaintenanceEmpty`,
`NoRuntime`, `NoFaultEvents`, `NoReadings`.

`MCFleetViews.cfg`: `CardTells` (a card claims nothing the fleet did not show within a
minute), `PagesAgree` (Alerts and cards of the same moment tell one story),
`AnswersSelected` (what is shown, or said to be missing, is the answer for what is
selected) and `FiguresAddUp` (tags do not change a mean, a count or an hour), in 2.0
million states. One report is a minute (`Fresh` 1), two a day, three the week of the
queries, five the bound, so that rows and a standing fault age out of every range. Units
start in any condition that reports, its event told. `MaxWork` 3 lets a unit change while
a page is opened, or a page be opened, another unit chosen and an answer be overtaken.
Unit a runs, fails, stands by or has a silent controller, its agent reports the link, and
it begins without the network (`Online`), so that its buffer, the fault before the end of
it included, is sent one by one (`Batch` 1) while live rows go out; unit b has an older
agent, rests on a low battery or has no power. A reconnect costs no work.

**Proved** (`FleetViewsProofs`), for every finite fleet, all situations of its units, any
`Fresh < Day < Week` and all bounds: `CardsHold` (`CardTells`), `PagesHold`
(`PagesAgree`), `SelectionHolds` (`AnswersSelected`), `FleetTypeCorrect`,
`EventsTellRows` and `NewestServed`. The invariant `FleetInv` has a part per concern:

- `RowsTrue`, `CardsTrue`: a row, wherever it is (buffered, stored, on a card), is what was
  the case at its time, and a link report that says down is of a silence. With the age
  check of the cards this is `CardTells`; a poll that fails or a link read that fails
  keeps it.
- `EventsTell`: what a unit has *said* (stored and buffered events together) leaves
  standing, at the time of each row, the row's error, and now the code it published last.
  `SilenceTold`: after a row, an event without a row in between is 256, of a silence
  longer than a minute. Of a unit none of whose rows has overtaken a buffered event, nor an
  event a buffered row (`~Overtaken`), the cloud's own events tell the cloud's own rows,
  and the newest event of such a unit, if its card is fresh, is the row's error:
  `PagesAgree`.
- `PagesTell`: a page that drops old answers has none in flight and shows none, of the
  other two an answer to something else is one of a race. `AnswersSelected` is the case
  split over the pages.

Of the queries, `SeriesTail` shows that the tail of every series followed by sort and limit
over the merged table is sort and limit over all rows, as the comment at flux.js:37-38
claims: were a newer row missing from the table, take the newest of those; its own series
had as many newer rows in the table as the limit. `NewestEvent` shows that the limit of a
hundred events does not hide the newest. Assumed of the constants: `Units` is finite and
not empty, an error register is a byte (`Conditions`; so it is never 256), every unit has a
condition that reports, and `Null` is no value that occurs.

The proof of `PagesAgree` is what showed that a fault standing for more than seven days is
on the card only: Alerts asks for the events of seven days, and the event of such a fault
is older. The page then says that there are no active faults; the property names this
exception, and the run reaches it, as it does the other: without `~Overtaken` the property
is violated, for while a buffer is being sent the card may show a fault that Alerts has no
event of, or Alerts one whose row is still to come.

Exceptions the properties name, all of them behaviour of the code: Maintenance and Reports have no
`live` flag and take whatever answer comes last, the fetch after a save included, which
is that of the unit selected when the form was rendered; both keep the former content
while they load; Maintenance, History and the tabs say "nothing" after a fetch that
failed; Alerts says "None across all units" beside a notice that some units failed; with one
unit selected it lists the fault of an offline or silent unit without saying so.

Observations: a card says Offline or No data when only the browser's own polls fail; a
unit with no data is listed under "Running normally", and the Remote tab offers it
starts; a non-critical fault is a "Warning" chip on Alerts and a "Fault" tile on the
Dashboard; Alerts never polls; the confirmation dialog of ApuControls is not checked
again when the unit goes offline; a unit silent for more than seven days drops off the
list, and its location becomes an orphan; the reports rely on `first()` and `last()`
after `group()` picking by time, which the storage, not the query, decides; ages compare
the unit's clock with the browser's, assumed equal here.

`Promise.all` of the rows and the link is one read. The tabs' caches are left out: a tab
opens empty.

## 12. Findings

- `null_shadow_commands`, `NulledOnlyOnceApplied`: the report that follows an ack nulls
  `desired.apu_command` unconditionally; a newer command set meanwhile is wiped in the
  cloud before it is applied and survives only in its delta and in the agent's memory.
- `ext_heater`, `NulledOnlyOnceApplied`: register 68 is read once per cycle, not retried
  and not remembered; when that read fails, `heater_plan_writes` drops the setpoint and
  the clearing of a fault, no write fails, and the command is acked and nulled.
- `torn_ota_slots`, `UnconfirmedOnTrial`: post-install.sh switches the slot before it arms
  the trial; a power cut in between leaves the new slot active with no trial, and no
  fall-back.

## 13. Out of reach, or left out

Model-checked only:

- liveness (`Settles`, `EachWritten`, `EndsUpGood`, `SessionEnds`): it needs ENABLED,
  which the prover does not reason about;
- `FleetViews`: `FiguresAddUp` is about sums over sets of rows, which takes induction over
  data that the installed provers cannot do; of its parts, what GET /telemetry returns is
  proved (`NewestServed`);
- the violations of section 12, which are counterexamples.

Every other property that a run checks is a theorem for every value of the constants. No fairness is assumed in
sections 6 to 11: their properties are safety properties, for emails and pages are
promised nothing by a time.

Not modelled, with the reason in `PROJECT.json`: the flash task above the session (what a
retry meets is decided by the trial and the session timeout of the controller's
bootloader, which is not in the repository), the panel's command files and its UI,
weather, time zone, kernel module, build and provisioning, password-reset wording, the
panel's own fault history. Poll interval and report mode are single assignments.
Formatting, logging, JSON layout and retry delays are abstracted away wherever no property
depends on them. The AWS shadow, libmosquitto, swupdate, InfluxDB, DynamoDB, Cognito, SES
and the power supply are modelled from how the code uses them.
