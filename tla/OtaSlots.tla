------------------------------ MODULE OtaSlots ------------------------------
(***************************************************************************)
(* Over-the-air updates of the gateway: two root slots, and the u-boot     *)
(* environment (slot_active, upgrade_available, bootcount) that four       *)
(* programs write without knowing of each other:                           *)
(*                                                                         *)
(*   ecofleet-boot.cmd       counts trial boots, rolls back, and tries the *)
(*                           other slot in the same pass                   *)
(*   pre-, post-install.sh   choose the slot to write; switch and arm the  *)
(*                           trial (run by swupdate, run by gobi-ota-apply)*)
(*   ecofleet-boot-confirm   ends the trial of a healthy boot              *)
(*                                                                         *)
(* Each saveenv or fw_setenv is a step of its own and power may go between *)
(* any two.  An image is "good", "sick" (booti takes it, but the unit      *)
(* never comes up healthy: a hang, a panic, a dead application) or "dead"  *)
(* (its kernel does not load, or booti returns).                           *)
(***************************************************************************)
EXTENDS Naturals

CONSTANTS
    BootLimit,      \* bootlimit (3 in the boot script)
    MaxInstalls,    \* bound: bundles installed
    MaxCuts         \* bound: power cuts

ASSUME BoundsAssumption ==
    /\ BootLimit \in Nat \ {0}
    /\ MaxInstalls \in Nat /\ MaxCuts \in Nat

VARIABLES
    \* u-boot environment
    slot,           \* slot_active
    trial,          \* upgrade_available = "1"
    count,          \* bootcount
    \* eMMC
    image,          \* what each slot holds
    \* the processor: u-boot, then Linux
    stage,          \* "start", "revert", "try1", "try2" (u-boot), "linux"
    running,        \* the slot Linux runs from; meaningful in stage "linux"
    worker,         \* gobi-ota-apply and swupdate: the step they do next
    next,           \* /tmp/next-slot, and the slot /dev/swupdate-inactive names
    confirm,        \* boot-confirm: "wait", "clear" (between its two writes), "done"
    \* observation
    proven,         \* the slots whose image was confirmed, or shipped, healthy
    passes,         \* passes of u-boot since the last switch was completed
    mishaps,        \* what went wrong that the scripts do not handle
    installs, cuts

env == <<slot, trial, count>>
linux == <<running, worker, next, confirm>>
observed == <<proven, passes, mishaps>>
bounds == <<installs, cuts>>
vars == <<env, image, stage, linux, observed, bounds>>

Slots == {"a", "b"}
Other(s) == IF s = "a" THEN "b" ELSE "a"

Kinds == {"good", "sick", "dead"}

(* Writing one variable of the environment.                                *)
SaveEnv(s, t, c) == slot' = s /\ trial' = t /\ count' = c

Up == stage = "linux"

-----------------------------------------------------------------------------

(* A unit from the factory: slot a flashed, slot b empty.                  *)
Init ==
    /\ slot = "a" /\ trial = FALSE /\ count = 0
    /\ image = [s \in Slots |-> IF s = "a" THEN "good" ELSE "dead"]
    /\ stage = "start" /\ running = "a"
    /\ worker = "idle" /\ next = "a" /\ confirm = "done"
    /\ proven = {"a"} /\ passes = 0 /\ mishaps = {}
    /\ installs = 0 /\ cuts = 0

-----------------------------------------------------------------------------
(* ecofleet-boot.cmd                                                       *)

MutantCountBootVolatile ==
    /\ stage = "start"
    /\ passes' = IF passes <= BootLimit THEN passes + 1 ELSE passes
    /\ stage' = IF trial /\ count + 1 > BootLimit THEN "revert" ELSE "try1"
    /\ UNCHANGED <<env, image, linux, proven, mishaps, bounds>>

(* The trial boot is counted, and saved, before anything is loaded.        *)
CountBoot ==
    /\ stage = "start"
    /\ passes' = IF passes <= BootLimit THEN passes + 1 ELSE passes
    /\ IF trial
       THEN /\ SaveEnv(slot, trial, count + 1)
            /\ stage' = IF count + 1 > BootLimit THEN "revert" ELSE "try1"
       ELSE stage' = "try1" /\ UNCHANGED env
    /\ UNCHANGED <<image, linux, proven, mishaps, bounds>>

RollBack ==
    /\ stage = "revert"
    /\ SaveEnv(Other(slot), FALSE, 0)
    /\ stage' = "try1"
    /\ UNCHANGED <<image, linux, observed, bounds>>

(* booti: the kernel runs from the slot, and boot-confirm starts waiting.  *)
Boot ==
    /\ stage \in {"try1", "try2"} /\ image[slot] # "dead"
    /\ stage' = "linux" /\ running' = slot
    /\ worker' = "idle" /\ confirm' = "wait"
    /\ UNCHANGED <<env, image, next, observed, bounds>>

MutantTryOtherUnnamed ==
    /\ stage = "try1" /\ image[slot] = "dead"
    /\ SaveEnv("", FALSE, 0)
    /\ stage' = "try2"
    /\ UNCHANGED <<image, linux, observed, bounds>>

(* The slot does not load, or booti returns.  When the other one does not  *)
(* either, the script ends at the u-boot prompt: AlwaysBoots says never.   *)
TryOther ==
    /\ stage = "try1" /\ image[slot] = "dead"
    /\ SaveEnv(Other(slot), FALSE, 0)
    /\ stage' = "try2"
    /\ UNCHANGED <<image, linux, observed, bounds>>

-----------------------------------------------------------------------------
(* gobi-ota-apply: pre-install, the image, post-install, the cold reset.   *)

MutantInstallAnywhere ==
    /\ Up /\ worker = "idle" /\ installs < MaxInstalls
    /\ next' = Other(slot)
    /\ worker' = "write"
    /\ image' \in {[image EXCEPT ![next'] = k] : k \in {"sick", "dead"}}
    /\ proven' = proven \ {next'}
    /\ mishaps' = IF running \in proven THEN mishaps ELSE mishaps \cup {"unproven"}
    /\ installs' = installs + 1
    /\ UNCHANGED <<env, stage, running, confirm, passes, cuts>>

(* pre-install.sh refuses to write the running root; otherwise the slot    *)
(* that is not slot_active is overwritten.  Nothing keeps an update from   *)
(* starting while the running slot is itself still unconfirmed.            *)
StartInstall ==
    /\ Up /\ worker = "idle" /\ installs < MaxInstalls
    /\ next' = Other(slot)
    /\ next' # running
    /\ worker' = "write"
    /\ image' \in {[image EXCEPT ![next'] = k] : k \in {"sick", "dead"}}
    /\ proven' = proven \ {next'}
    /\ mishaps' = IF running \in proven THEN mishaps ELSE mishaps \cup {"unproven"}
    /\ installs' = installs + 1
    /\ UNCHANGED <<env, stage, running, confirm, passes, cuts>>

WriteImage ==
    /\ Up /\ worker = "write"
    /\ \E k \in Kinds : image' = [image EXCEPT ![next] = k]
    /\ worker' = "slot_active"
    /\ UNCHANGED <<env, stage, running, next, confirm, observed, bounds>>

(* swupdate fails: the slot stays half written, the environment untouched. *)
WriteFails ==
    /\ Up /\ worker = "write"
    /\ worker' = "idle"
    /\ UNCHANGED <<env, image, stage, running, next, confirm, observed, bounds>>

(* post-install.sh: three writes.                                          *)
SwitchSlot ==
    /\ Up /\ worker = "slot_active"
    /\ SaveEnv(next, trial, count)
    /\ worker' = "upgrade_available"
    /\ UNCHANGED <<image, stage, running, next, confirm, observed, bounds>>

ArmTrial ==
    /\ Up /\ worker = "upgrade_available"
    /\ SaveEnv(slot, TRUE, count)
    /\ worker' = "bootcount"
    /\ UNCHANGED <<image, stage, running, next, confirm, observed, bounds>>

MutantResetCountForgotten ==
    /\ Up /\ worker = "bootcount"
    /\ passes' = 0
    /\ worker' = "reset"
    /\ UNCHANGED <<env, image, stage, running, next, confirm, proven, mishaps, bounds>>

ResetCount ==
    /\ Up /\ worker = "bootcount"
    /\ SaveEnv(slot, trial, 0)
    /\ passes' = 0
    /\ worker' = "reset"
    /\ UNCHANGED <<image, stage, running, next, confirm, proven, mishaps, bounds>>

(* What an interrupted post-install.sh leaves behind.                      *)
Torn ==
    IF Up /\ worker = "upgrade_available" THEN {"untried"}
    ELSE IF Up /\ worker = "bootcount" THEN {"miscounted"}
    ELSE {}

(* One of its writes fails and set -e ends it: the worker reports a failed *)
(* install "staying on current slot".                                      *)
PostInstallFails ==
    /\ Up /\ worker \in {"slot_active", "upgrade_available", "bootcount"}
    /\ mishaps' = mishaps \cup Torn
    /\ worker' = "idle"
    /\ UNCHANGED <<env, image, stage, running, next, confirm, proven, passes, bounds>>

(* gobi-cold-reboot: the PMIC resets the board, or i2cset fails and the    *)
(* unit stays on the slot it runs.                                         *)
ColdReset ==
    /\ Up /\ worker = "reset"
    /\ stage' = "start"
    /\ UNCHANGED <<env, image, linux, observed, bounds>>

ColdResetFails ==
    /\ Up /\ worker = "reset"
    /\ worker' = "idle"
    /\ UNCHANGED <<env, image, stage, running, next, confirm, observed, bounds>>

-----------------------------------------------------------------------------
(* ecofleet-boot-confirm.sh, 45 s after the applications were started.     *)

MutantConfirmCountFirst ==
    /\ Up /\ confirm = "wait" /\ image[running] = "good"
    /\ SaveEnv(slot, trial, 0)
    /\ proven' = proven \cup {running}
    /\ mishaps' = mishaps
    /\ confirm' = "clear"
    /\ UNCHANGED <<image, stage, running, worker, next, passes, bounds>>

(* Both applications run: the trial ends, whichever slot it is armed for.  *)
ConfirmHealthy ==
    /\ Up /\ confirm = "wait" /\ image[running] = "good"
    /\ SaveEnv(slot, FALSE, count)
    /\ proven' = proven \cup {running}
    /\ mishaps' = IF trial /\ slot # running THEN mishaps \cup {"disarmed"} ELSE mishaps
    /\ confirm' = "clear"
    /\ UNCHANGED <<image, stage, running, worker, next, passes, bounds>>

ConfirmClearsCount ==
    /\ Up /\ confirm = "clear"
    /\ SaveEnv(slot, trial, 0)
    /\ confirm' = "done"
    /\ UNCHANGED <<image, stage, running, worker, next, observed, bounds>>

(* An application is not up, or just being restarted.                      *)
ConfirmUnhealthy ==
    /\ Up /\ confirm = "wait"
    /\ confirm' = "done"
    /\ UNCHANGED <<env, image, stage, running, worker, next, observed, bounds>>

-----------------------------------------------------------------------------
(* Power.                                                                  *)

PowerCut ==
    /\ cuts < MaxCuts
    /\ cuts' = cuts + 1
    /\ stage' = "start"
    /\ mishaps' = mishaps \cup Torn
    /\ UNCHANGED <<env, image, linux, proven, passes, installs>>

(* The environment is a single copy: power lost while it is being written  *)
(* leaves u-boot with its defaults.                                        *)
WritingEnv ==
    \/ stage = "start" /\ trial
    \/ stage = "revert"
    \/ stage = "try1" /\ image[slot] = "dead"
    \/ Up /\ worker \in {"slot_active", "upgrade_available", "bootcount"}
    \/ Up /\ confirm = "wait" /\ image[running] = "good"
    \/ Up /\ confirm = "clear"

EnvLost ==
    /\ cuts < MaxCuts /\ WritingEnv
    /\ cuts' = cuts + 1
    /\ SaveEnv("a", FALSE, 0)
    /\ stage' = "start"
    /\ mishaps' = mishaps \cup {"env_lost"}
    /\ UNCHANGED <<image, linux, proven, passes, installs>>

(* A sick unit hangs, restarts or is switched off and on by its driver.    *)
SickRestart ==
    /\ Up /\ image[running] = "sick" /\ worker = "idle"
    /\ stage' = "start"
    /\ UNCHANGED <<env, image, linux, observed, bounds>>

-----------------------------------------------------------------------------

BootScript == CountBoot \/ RollBack \/ Boot \/ TryOther

Install ==
    \/ StartInstall \/ WriteImage \/ WriteFails
    \/ SwitchSlot \/ ArmTrial \/ ResetCount \/ PostInstallFails
    \/ ColdReset \/ ColdResetFails

Confirm == ConfirmHealthy \/ ConfirmClearsCount \/ ConfirmUnhealthy

Next ==
    \/ BootScript \/ Install \/ Confirm
    \/ PowerCut \/ EnvLost \/ SickRestart

Spec == Init /\ [][Next]_vars

(* u-boot runs, and a unit that is not healthy does not stay on for ever.  *)
FairSpec == Spec /\ WF_vars(BootScript) /\ WF_vars(SickRestart)

-----------------------------------------------------------------------------
(* Properties.                                                             *)

EnvTypeOK == slot \in Slots /\ trial \in BOOLEAN /\ count \in Nat

LinuxTypeOK ==
    /\ stage \in {"start", "revert", "try1", "try2", "linux"}
    /\ running \in Slots /\ next \in Slots
    /\ worker \in {"idle", "write", "slot_active", "upgrade_available", "bootcount", "reset"}
    /\ confirm \in {"wait", "clear", "done"}

ObservedTypeOK ==
    /\ proven \subseteq Slots /\ passes \in 0 .. BootLimit + 1
    /\ mishaps \subseteq {"unproven", "untried", "miscounted", "disarmed", "env_lost"}
    /\ installs \in 0 .. MaxInstalls /\ cuts \in 0 .. MaxCuts

TypeOK ==
    /\ EnvTypeOK /\ image \in [Slots -> Kinds] /\ LinuxTypeOK /\ ObservedTypeOK

(* No update, whatever becomes of it, destroys the last image known to     *)
(* work, as long as no update is started from an image not known to work:  *)
(* pre-install.sh:42-46 holds even after a cold reset that failed, when    *)
(* slot_active no longer names the running slot.                           *)
KnownGoodKept ==
    "unproven" \notin mishaps => \E s \in proven : image[s] = "good"

(* u-boot never comes to "neither slot could be booted; reflash required": *)
(* not even after an update started from an unproven slot, a torn switch   *)
(* or a lost environment, since what is running is never written.          *)
AlwaysBoots == stage = "try2" => image[slot] # "dead"

(* Whatever happens next, u-boot alone brings the unit back to an image    *)
(* that works: the active slot has one, or it will be left (its kernel     *)
(* does not load, or its trial runs out) for the other, which has one.     *)
(* While post-install.sh is between its first two writes this does not     *)
(* hold, and a power cut just then is the mishap "untried".                *)
Recoverable ==
    mishaps = {} =>
        \/ image[slot] = "good"
        \/ /\ image[Other(slot)] = "good"
           /\ image[slot] = "dead" \/ trial \/ Torn = {"untried"}

(* A slot on trial is given BootLimit passes of u-boot before it is rolled *)
(* back, also when the count left by an earlier trial was never cleared.   *)
FullTrial ==
    [][RollBack /\ mishaps = {} => passes > BootLimit]_vars

(* A slot once confirmed is only left for an update: no leftover of its    *)
(* trial rolls it back, wherever boot-confirm was cut off.                 *)
NoSpuriousRollBack ==
    [][slot' # slot /\ slot \in proven /\ mishaps' = {}
        => worker = "slot_active" /\ slot' = next]_vars

(* After the last update and the last power cut the unit ends up running   *)
(* an image that works, for good.                                          *)
EndsUpGood ==
    <>[](Up /\ image[running] = "good") \/ <>(mishaps # {})

(* 2026-10-07-boot-partition-design.md:101 "a slot that never confirms     *)
(* falls back after `bootlimit` boots": a slot not yet confirmed runs only *)
(* on trial.                                                               *)
UnconfirmedOnTrial ==
    Up /\ running = slot /\ slot \notin proven => trial
=============================================================================
