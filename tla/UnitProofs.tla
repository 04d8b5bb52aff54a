----------------------------- MODULE UnitProofs -----------------------------
(***************************************************************************)
(* Theorems about two small parts of the unit's software that share no     *)
(* state: OtaSlots, for every boot limit and every number of updates and   *)
(* power cuts, and HeaterCommands, for every set of levels and setpoints,  *)
(* either age of the firmware and every bound.                             *)
(***************************************************************************)
EXTENDS OtaSlots, HeaterCommands, SequenceTheorems, TLAPS

-----------------------------------------------------------------------------
(* OtaSlots.                                                               *)

(* There are two slots, each the other of the other.                       *)
LEMMA OtherSlot == \A s \in Slots : Other(s) \in Slots /\ Other(s) # s /\ Other(Other(s)) = s
BY DEF Slots, Other

-----------------------------------------------------------------------------
(* The type invariant.                                                     *)
THEOREM TypeCorrect == Spec => []TypeOK
<1> USE BoundsAssumption DEF TypeOK, EnvTypeOK, LinuxTypeOK, ObservedTypeOK
<1>1. Init => TypeOK
  <2> SUFFICES ASSUME Init PROVE TypeOK
    OBVIOUS
  <2>1. image \in [Slots -> Kinds]
    BY DEF Init, Kinds
  <2>2. slot \in Slots /\ running \in Slots /\ next \in Slots /\ proven \subseteq Slots
    BY DEF Init, Slots
  <2>3. trial \in BOOLEAN
    BY Zenon DEF Init
  <2> QED
    BY <2>1, <2>2, <2>3 DEF Init
<1>2. TypeOK /\ [Next]_vars => TypeOK'
  <2> SUFFICES ASSUME TypeOK, [Next]_vars PROVE TypeOK'
    OBVIOUS
  <2> USE OtherSlot DEF SaveEnv, env, linux, observed, bounds
  <2>1. CASE CountBoot
    BY <2>1 DEF CountBoot
  <2>2. CASE RollBack
    BY <2>2 DEF RollBack
  <2>3. CASE Boot
    BY <2>3 DEF Boot
  <2>4. CASE TryOther
    BY <2>4 DEF TryOther
  <2>5. CASE StartInstall
    <3>1. image' \in [Slots -> Kinds]
      BY <2>5 DEF StartInstall, Kinds
    <3>2. proven' \subseteq Slots /\ installs' \in 0 .. MaxInstalls
      BY <2>5 DEF StartInstall
    <3> QED
      BY <2>5, <3>1, <3>2 DEF StartInstall
  <2>6. CASE WriteImage
    <3>1. image' \in [Slots -> Kinds]
      BY <2>6 DEF WriteImage
    <3> QED
      BY <2>6, <3>1 DEF WriteImage
  <2>7. CASE WriteFails \/ SwitchSlot
    BY <2>7 DEF WriteFails, SwitchSlot
  <2>8. CASE ArmTrial
    BY <2>8 DEF ArmTrial
  <2>9. CASE ResetCount
    BY <2>9 DEF ResetCount
  <2>10. CASE PostInstallFails
    BY <2>10 DEF PostInstallFails, Torn
  <2>11. CASE ColdReset \/ ColdResetFails \/ SickRestart
    BY <2>11 DEF ColdReset, ColdResetFails, SickRestart
  <2>12. CASE ConfirmHealthy
    BY <2>12 DEF ConfirmHealthy
  <2>13. CASE ConfirmClearsCount \/ ConfirmUnhealthy
    <3>1. slot' = slot /\ trial' = trial /\ count' \in {count, 0} /\ confirm' = "done"
      BY <2>13 DEF ConfirmClearsCount, ConfirmUnhealthy
    <3>2. UNCHANGED <<image, stage, running, worker, next, observed, bounds>>
      BY <2>13 DEF ConfirmClearsCount, ConfirmUnhealthy
    <3> QED
      BY <3>1, <3>2
  <2>14. CASE PowerCut
    BY <2>14 DEF PowerCut, Torn
  <2>15. CASE EnvLost
    <3>1. slot' \in Slots /\ count' = 0
      BY <2>15 DEF EnvLost, Slots
    <3>2. trial' \in BOOLEAN
      BY <2>15, Zenon DEF EnvLost
    <3>3. cuts' \in 0 .. MaxCuts
      BY <2>15 DEF EnvLost
    <3>4. mishaps' \subseteq {"unproven", "untried", "miscounted", "disarmed", "env_lost"}
      BY <2>15 DEF EnvLost
    <3> QED
      BY <2>15, <3>1, <3>2, <3>3, <3>4 DEF EnvLost
  <2>16. CASE UNCHANGED vars
    BY <2>16 DEF vars
  <2> QED
    BY <2>1, <2>2, <2>3, <2>4, <2>5, <2>6, <2>7, <2>8, <2>9, <2>10, <2>11, <2>12,
       <2>13, <2>14, <2>15, <2>16 DEF Next, BootScript, Install, Confirm
<1> QED
  BY <1>1, <1>2, PTL DEF Spec

-----------------------------------------------------------------------------
(* The strengthening of KnownGoodKept: what is proven works, the slot      *)
(* being written is neither proven nor running, and something is proven    *)
(* until an update starts from an unproven slot.                           *)
Writing == Up /\ worker \in {"write", "slot_active", "upgrade_available", "bootcount"}

ProvenWorks == \A s \in proven : image[s] = "good"

WritesSpare == Writing => next # running /\ next \notin proven

SomeProven == "unproven" \notin mishaps => proven # {}

KeptInv == ProvenWorks /\ WritesSpare /\ SomeProven

LEMMA KeptInvInitial == Init => KeptInv
BY DEF Init, KeptInv, ProvenWorks, WritesSpare, SomeProven, Writing, Up, Slots

LEMMA KeptInvInductive == TypeOK /\ KeptInv /\ [Next]_vars => KeptInv'
<1> SUFFICES ASSUME TypeOK, KeptInv, [Next]_vars PROVE KeptInv'
  OBVIOUS
<1> USE DEF KeptInv, ProvenWorks, WritesSpare, SomeProven, Writing, Up
<1>0. image \in [Slots -> Kinds] /\ proven \subseteq Slots /\ next \in Slots /\ slot \in Slots
  BY DEF TypeOK, EnvTypeOK, LinuxTypeOK, ObservedTypeOK
<1>1. CASE StartInstall
  <2>1. /\ next' # running /\ next' \in Slots /\ proven' = proven \ {next'}
        /\ image' \in {[image EXCEPT ![next'] = k] : k \in {"sick", "dead"}}
        /\ running' = running /\ stage' = stage
    BY <1>0, <1>1, OtherSlot DEF StartInstall
  <2>2. ProvenWorks'
    BY <1>0, <2>1
  <2>3. SomeProven'
    BY <1>1, <2>1 DEF StartInstall
  <2> QED
    BY <2>1, <2>2, <2>3
<1>2. CASE WriteImage
  <2>1. /\ Up /\ worker = "write" /\ worker' = "slot_active"
        /\ UNCHANGED <<stage, running, next, proven, mishaps>>
        /\ \E k \in Kinds : image' = [image EXCEPT ![next] = k]
    BY <1>2 DEF WriteImage, observed
  <2>2. ProvenWorks'
    BY <1>0, <2>1
  <2> QED
    BY <2>1, <2>2
<1>3. CASE ConfirmHealthy
  <2>1. /\ Up /\ image[running] = "good" /\ proven' = proven \cup {running}
        /\ UNCHANGED <<image, stage, running, worker, next>>
    BY <1>3 DEF ConfirmHealthy
  <2> QED
    BY <2>1
<1>4. CASE PowerCut \/ EnvLost \/ PostInstallFails \/ ResetCount
  BY <1>4 DEF PowerCut, EnvLost, PostInstallFails, ResetCount, linux
<1>5. CASE BootScript
  BY <1>5 DEF BootScript, CountBoot, RollBack, Boot, TryOther, linux, observed
<1>6. CASE WriteFails \/ SwitchSlot \/ ArmTrial \/ ColdReset \/ ColdResetFails
  <2>1. UNCHANGED <<image, running, next, proven, mishaps>> /\ (Writing' => Writing)
    BY <1>6 DEF WriteFails, SwitchSlot, ArmTrial, ColdReset, ColdResetFails, linux, observed
  <2> QED
    BY <2>1
<1>7. CASE ConfirmClearsCount \/ ConfirmUnhealthy \/ SickRestart
  BY <1>7 DEF ConfirmClearsCount, ConfirmUnhealthy, SickRestart, linux, observed
<1>8. CASE UNCHANGED vars
  BY <1>8 DEF vars, linux, observed
<1> QED
  BY <1>1, <1>2, <1>3, <1>4, <1>5, <1>6, <1>7, <1>8 DEF Next, Install, Confirm

(* No update, whatever becomes of it, destroys the last image known to     *)
(* work, as long as none is started from an image not known to work: the   *)
(* guard of pre-install.sh:42-46 is enough.                                *)
THEOREM LastGoodKept == Spec => []KnownGoodKept
<1>1. KeptInv => KnownGoodKept
  BY DEF KeptInv, ProvenWorks, SomeProven, KnownGoodKept
<1> QED
  BY <1>1, TypeCorrect, KeptInvInitial, KeptInvInductive, PTL DEF Spec

-----------------------------------------------------------------------------
(* The strengthening of AlwaysBoots: some slot loads, the running one does *)
(* and is not the one being written, and u-boot only tries a second slot   *)
(* when the first did not load.                                            *)
BootsInv ==
    /\ \E s \in Slots : image[s] # "dead"
    /\ Up => image[running] # "dead"
    /\ stage = "try2" => image[Other(slot)] = "dead"

LEMMA BootsInvInitial == Init => BootsInv
BY DEF Init, BootsInv, Up, Slots

LEMMA BootsInvInductive == TypeOK /\ KeptInv /\ BootsInv /\ [Next]_vars => BootsInv'
<1> SUFFICES ASSUME TypeOK, KeptInv, BootsInv, [Next]_vars PROVE BootsInv'
  OBVIOUS
<1> USE OtherSlot DEF BootsInv, Up
<1>0. image \in [Slots -> Kinds] /\ next \in Slots /\ slot \in Slots /\ running \in Slots
  BY DEF TypeOK, EnvTypeOK, LinuxTypeOK
<1>1. CASE StartInstall
  <2>1. /\ Up /\ next' # running /\ UNCHANGED <<stage, running>>
        /\ image' \in {[image EXCEPT ![next'] = k] : k \in {"sick", "dead"}}
    BY <1>1 DEF StartInstall
  <2>2. image'[running] = image[running]
    BY <1>0, <2>1
  <2> QED
    BY <1>0, <2>1, <2>2
<1>2. CASE WriteImage
  <2>1. /\ Up /\ worker = "write" /\ UNCHANGED <<stage, running>>
        /\ \E k \in Kinds : image' = [image EXCEPT ![next] = k]
    BY <1>2 DEF WriteImage
  <2>2. next # running
    BY <2>1 DEF KeptInv, WritesSpare, Writing
  <2>3. image'[running] = image[running]
    BY <1>0, <2>1, <2>2
  <2> QED
    BY <1>0, <2>1, <2>3
<1>3. CASE TryOther
  BY <1>0, <1>3 DEF TryOther, SaveEnv
<1>4. CASE Boot
  BY <1>0, <1>4 DEF Boot, env
<1>5. CASE CountBoot \/ RollBack \/ PowerCut \/ EnvLost
  <2>1. image' = image /\ stage' \in {"start", "revert", "try1"}
    BY <1>5 DEF CountBoot, RollBack, PowerCut, EnvLost
  <2> QED
    BY <2>1
<1>6. CASE WriteFails \/ SwitchSlot \/ ArmTrial \/ ResetCount \/ PostInstallFails
  <2>1. Up /\ UNCHANGED <<image, stage, running>>
    BY <1>6 DEF WriteFails, SwitchSlot, ArmTrial, ResetCount, PostInstallFails
  <2> QED
    BY <2>1
<1>7. CASE ColdReset \/ ColdResetFails \/ SickRestart \/ Confirm
  <2>1. image' = image /\ running' = running /\ Up /\ stage' \in {"start", "linux"}
    BY <1>7 DEF ColdReset, ColdResetFails, SickRestart, Confirm, ConfirmHealthy,
                ConfirmClearsCount, ConfirmUnhealthy, linux
  <2> QED
    BY <2>1
<1>8. CASE UNCHANGED vars
  BY <1>8 DEF vars, env, linux
<1> QED
  BY <1>1, <1>2, <1>3, <1>4, <1>5, <1>6, <1>7, <1>8 DEF Next, BootScript, Install

(* u-boot never ends at its prompt, whatever mishaps happened.             *)
THEOREM NeverReflash == Spec => []AlwaysBoots
<1>1. TypeOK /\ BootsInv => AlwaysBoots
  <2> SUFFICES ASSUME TypeOK, BootsInv, stage = "try2" PROVE image[slot] # "dead"
    BY DEF AlwaysBoots
  <2>1. \A s \in Slots : s = slot \/ s = Other(slot)
    BY DEF TypeOK, EnvTypeOK, Slots, Other
  <2> QED
    BY <2>1 DEF BootsInv
<1> QED
  BY <1>1, TypeCorrect, KeptInvInitial, KeptInvInductive, BootsInvInitial,
     BootsInvInductive, PTL DEF Spec

-----------------------------------------------------------------------------
(* The strengthening of Recoverable, while nothing went wrong that the     *)
(* scripts do not handle: a trial is only ever armed over a spare that     *)
(* works, and an update in progress is run from an image known to work.    *)
TrialHasSpare == trial => slot \notin proven /\ image[Other(slot)] = "good"

UpdateFromProven ==
    /\ Writing => running \in proven
    /\ Up /\ worker \in {"write", "slot_active"} => slot = running
    /\ Up /\ worker \in {"upgrade_available", "bootcount"} => slot = next
    /\ Up /\ worker = "bootcount" => trial

RecoverInv ==
    /\ stage = "revert" => trial
    /\ mishaps = {} => TrialHasSpare /\ UpdateFromProven /\ Recoverable

LEMMA RecoverInvInitial == Init => RecoverInv
BY DEF Init, RecoverInv, TrialHasSpare, UpdateFromProven, Recoverable, Writing, Up, Slots

LEMMA RecoverInvInductive == TypeOK /\ KeptInv /\ RecoverInv /\ [Next]_vars => RecoverInv'
<1> SUFFICES ASSUME TypeOK, KeptInv, RecoverInv, [Next]_vars PROVE RecoverInv'
  OBVIOUS
<1> USE OtherSlot
    DEF RecoverInv, TrialHasSpare, UpdateFromProven, Recoverable, KeptInv, ProvenWorks,
        WritesSpare, Writing, Up, Torn, SaveEnv
<1>0. /\ image \in [Slots -> Kinds] /\ proven \subseteq Slots
      /\ next \in Slots /\ slot \in Slots /\ running \in Slots
      /\ \A s, t \in Slots : s # t => t = Other(s)
  BY DEF TypeOK, EnvTypeOK, LinuxTypeOK, ObservedTypeOK, Slots, Other
<1>1. CASE CountBoot \/ Boot
  BY <1>0, <1>1 DEF CountBoot, Boot, env, linux, observed
<1>2. CASE RollBack
  BY <1>0, <1>2 DEF RollBack, linux, observed
<1>3. CASE TryOther
  BY <1>0, <1>3 DEF TryOther, linux, observed
<1>4. CASE StartInstall
  <2>1. /\ next' = Other(slot) /\ next' # running /\ worker' = "write"
        /\ proven' = proven \ {next'}
        /\ image' \in {[image EXCEPT ![next'] = k] : k \in {"sick", "dead"}}
        /\ Up /\ UNCHANGED <<slot, trial, stage, running>>
        /\ mishaps' = {} => mishaps = {} /\ running \in proven
    BY <1>4 DEF StartInstall, env
  <2>2. slot = running
    BY <1>0, <2>1
  <2>3. image'[slot] = image[slot]
    BY <1>0, <2>1
  <2> QED
    BY <1>0, <2>1, <2>2, <2>3
<1>5. CASE WriteImage
  <2>1. /\ Up /\ worker = "write" /\ worker' = "slot_active"
        /\ UNCHANGED <<slot, trial, stage, running, next, proven, mishaps>>
        /\ \E k \in Kinds : image' = [image EXCEPT ![next] = k]
    BY <1>5 DEF WriteImage, env, observed
  <2>2. next # running
    BY <2>1
  <2>3. image'[running] = image[running]
    BY <1>0, <2>1, <2>2
  <2> QED
    BY <1>0, <2>1, <2>2, <2>3
<1>6. CASE WriteFails
  BY <1>0, <1>6 DEF WriteFails, env, observed
<1>7. CASE SwitchSlot
  BY <1>0, <1>7 DEF SwitchSlot, observed
<1>8. CASE ArmTrial
  BY <1>0, <1>8 DEF ArmTrial, observed
<1>9. CASE ResetCount \/ PostInstallFails
  BY <1>0, <1>9 DEF ResetCount, PostInstallFails, env
<1>10. CASE ColdReset \/ ColdResetFails \/ SickRestart
  BY <1>0, <1>10 DEF ColdReset, ColdResetFails, SickRestart, env, linux, observed
<1>11. CASE ConfirmHealthy
  BY <1>0, <1>11 DEF ConfirmHealthy
<1>12. CASE ConfirmClearsCount \/ ConfirmUnhealthy
  BY <1>0, <1>12 DEF ConfirmClearsCount, ConfirmUnhealthy, env, observed
<1>13. CASE PowerCut \/ EnvLost
  BY <1>0, <1>13 DEF PowerCut, EnvLost, env, linux
<1>14. CASE UNCHANGED vars
  BY <1>0, <1>14 DEF vars, env, linux, observed
<1> QED
  BY <1>1, <1>2, <1>3, <1>4, <1>5, <1>6, <1>7, <1>8, <1>9, <1>10, <1>11, <1>12,
     <1>13, <1>14 DEF Next, BootScript, Install, Confirm

(* As long as none of the recorded mishaps happens, u-boot alone can bring *)
(* the unit back to an image that works, at every moment of every update.  *)
THEOREM AlwaysRecoverable == Spec => []Recoverable
<1>1. Init => Recoverable
  BY DEF Init, Recoverable, Slots
<1>2. TypeOK /\ KeptInv /\ RecoverInv => Recoverable
  BY DEF RecoverInv, Recoverable
<1> QED
  BY <1>1, <1>2, TypeCorrect, KeptInvInitial, KeptInvInductive, RecoverInvInitial,
     RecoverInvInductive, PTL DEF Spec

(* A slot once confirmed is only left for an update, whatever boot-confirm *)
(* left undone when it was cut off.                                        *)
THEOREM ConfirmedStays == Spec => NoSpuriousRollBack
<1>1. TypeOK /\ KeptInv /\ RecoverInv /\ [Next]_vars
        => [slot' # slot /\ slot \in proven /\ mishaps' = {}
              => worker = "slot_active" /\ slot' = next]_vars
  <2> SUFFICES ASSUME TypeOK, KeptInv, RecoverInv, Next,
                      slot' # slot, slot \in proven, mishaps' = {}
               PROVE  worker = "slot_active" /\ slot' = next
    BY DEF vars
  <2> USE DEF SaveEnv, env, linux, observed
  <2>1. CASE SwitchSlot
    BY <2>1 DEF SwitchSlot
  <2>2. CASE RollBack
    <3>1. mishaps = {} /\ trial
      BY <2>2 DEF RollBack, RecoverInv
    <3> QED
      BY <3>1 DEF RecoverInv, TrialHasSpare
  <2>3. CASE TryOther
    BY <2>3 DEF TryOther, KeptInv, ProvenWorks
  <2>4. CASE EnvLost
    BY <2>4 DEF EnvLost
  <2>5. CASE CountBoot \/ Boot \/ Confirm \/ PowerCut \/ SickRestart
    BY <2>5 DEF CountBoot, Boot, Confirm, ConfirmHealthy, ConfirmClearsCount,
                ConfirmUnhealthy, PowerCut, SickRestart
  <2>6. CASE Install /\ ~SwitchSlot
    BY <2>6 DEF Install, StartInstall, WriteImage, WriteFails, ArmTrial, ResetCount,
                PostInstallFails, ColdReset, ColdResetFails
  <2> QED
    BY <2>1, <2>2, <2>3, <2>4, <2>5, <2>6 DEF Next, BootScript
<1> QED
  BY <1>1, TypeCorrect, KeptInvInitial, KeptInvInductive, RecoverInvInitial,
     RecoverInvInductive, PTL DEF Spec, NoSpuriousRollBack

-----------------------------------------------------------------------------
(* bootcount never runs ahead of the passes made since the switch, unless  *)
(* post-install.sh is just about to reset it.                              *)
CountInv ==
    /\ stage = "revert" => trial /\ count > BootLimit
    /\ mishaps = {} /\ trial =>
         \/ count <= passes
         \/ passes > BootLimit
         \/ Up /\ worker = "bootcount"

LEMMA CountInvInitial == Init => CountInv
BY DEF Init, CountInv

LEMMA CountInvInductive == TypeOK /\ CountInv /\ [Next]_vars => CountInv'
<1> USE BoundsAssumption
<1> SUFFICES ASSUME TypeOK, CountInv, [Next]_vars PROVE CountInv'
  OBVIOUS
<1> USE DEF CountInv, SaveEnv, Up
<1>0. count \in Nat /\ passes \in 0 .. BootLimit + 1
  BY DEF TypeOK, EnvTypeOK, ObservedTypeOK
<1>1. CASE CountBoot
  <2>1. /\ stage = "start" /\ trial' = trial /\ mishaps' = mishaps
        /\ passes' = IF passes <= BootLimit THEN passes + 1 ELSE passes
        /\ trial => count' = count + 1
        /\ stage' = "revert" => trial /\ count + 1 > BootLimit
    BY <1>1 DEF CountBoot, env
  <2>2. mishaps = {} /\ trial => count <= passes \/ passes > BootLimit
    BY <2>1
  <2>3. count <= passes => count + 1 <= passes' \/ passes' > BootLimit
    BY <1>0, <2>1
  <2>4. passes > BootLimit => passes' > BootLimit
    BY <1>0, <2>1
  <2> QED
    BY <2>1, <2>2, <2>3, <2>4
<1>2. CASE RollBack \/ TryOther \/ EnvLost
  <2>1. ~trial' /\ stage' # "revert"
    BY <1>2 DEF RollBack, TryOther, EnvLost
  <2> QED
    BY <2>1
<1>7. CASE ResetCount
  BY <1>0, <1>7 DEF ResetCount
<1>8. CASE PowerCut \/ PostInstallFails
  <2>1. /\ stage' # "revert" /\ UNCHANGED <<env, passes>>
        /\ mishaps' = mishaps \cup Torn
    BY <1>8 DEF PowerCut, PostInstallFails, linux
  <2>2. mishaps' = {} => mishaps = {} /\ ~(Up /\ worker = "bootcount")
    BY <2>1 DEF Torn
  <2> QED
    BY <2>1, <2>2 DEF env
<1>3. CASE Confirm
  BY <1>0, <1>3 DEF Confirm, ConfirmHealthy, ConfirmClearsCount, ConfirmUnhealthy,
                    env, observed
<1>4. CASE Boot \/ StartInstall \/ WriteImage \/ WriteFails \/ SwitchSlot
  <2>1. /\ ~(Up /\ worker = "bootcount") /\ stage' # "revert"
        /\ trial' = trial /\ count' = count /\ passes' = passes
        /\ mishaps' = {} => mishaps = {}
    BY <1>4 DEF Boot, StartInstall, WriteImage, WriteFails, SwitchSlot,
                env, observed
  <2> QED
    BY <2>1
<1>5. CASE ArmTrial \/ ColdReset \/ ColdResetFails \/ SickRestart
  BY <1>5 DEF ArmTrial, ColdReset, ColdResetFails, SickRestart, env, linux, observed
<1>6. CASE UNCHANGED vars
  BY <1>6 DEF vars, env, linux, observed
<1> QED
  BY <1>1, <1>2, <1>3, <1>4, <1>5, <1>6, <1>7, <1>8 DEF Next, BootScript, Install

(* A slot on trial is given all its passes, whatever count an earlier      *)
(* trial left in the environment.                                          *)
THEOREM TrialIsFull == Spec => FullTrial
<1>1. TypeOK /\ CountInv => [RollBack /\ mishaps = {} => passes > BootLimit]_vars
  <2> SUFFICES ASSUME TypeOK, CountInv, RollBack, mishaps = {} PROVE passes > BootLimit
    OBVIOUS
  <2>1. count \in Nat /\ passes \in 0 .. BootLimit + 1
    BY DEF TypeOK, EnvTypeOK, ObservedTypeOK
  <2> QED
    BY <2>1, BoundsAssumption DEF RollBack, CountInv, Up
<1> QED
  BY <1>1, TypeCorrect, CountInvInitial, CountInvInductive, PTL DEF Spec, FullTrial

-----------------------------------------------------------------------------
(* HeaterCommands.                                                         *)

-----------------------------------------------------------------------------
(* The inductive invariant.                                                *)

Basic == {"on", "level"}                    \* what every firmware has

(* While the thread writes a command that nothing has changed since, that  *)
(* command is what is pending; and as long as no write failed, a basic     *)
(* field of it is still to be written or is no longer owed.                *)
WritesPending ==
    pc = "write" /\ ~moved =>
        /\ pending = peeked
        /\ ~failed => \A f \in Basic \cap DOMAIN owed :
                          f \in DOMAIN peeked => f \in Range(todo)

HeaterInv == HeaterTypeOK /\ StopKept /\ WritesPending

-----------------------------------------------------------------------------
(* Lemmas about the operators.                                             *)

(* A command is a function from some of the fields to values of them.      *)
LEMMA CommandProperties ==
    ASSUME NEW c
    PROVE  c \in Commands <=> /\ c = [f \in DOMAIN c |-> c[f]]
                              /\ DOMAIN c \subseteq Fields
                              /\ \A f \in DOMAIN c : c[f] \in Values[f]
<1>1. ASSUME c \in Commands
      PROVE  /\ c = [f \in DOMAIN c |-> c[f]] /\ DOMAIN c \subseteq Fields
             /\ \A f \in DOMAIN c : c[f] \in Values[f]
  <2>1. PICK fs \in SUBSET Fields :
            c \in {d \in [fs -> UNION {Values[f] : f \in fs}] : \A f \in fs : d[f] \in Values[f]}
    BY <1>1 DEF Commands
  <2> QED
    BY <2>1
<1>2. ASSUME c = [f \in DOMAIN c |-> c[f]], DOMAIN c \subseteq Fields,
             \A f \in DOMAIN c : c[f] \in Values[f]
      PROVE  c \in Commands
  <2> DEFINE fs == DOMAIN c
             V == UNION {Values[f] : f \in fs}
  <2>1. \A f \in fs : c[f] \in V
    BY <1>2
  <2>2. c \in [fs -> V]
    <3> HIDE DEF V
    <3> QED
      BY <1>2, <2>1
  <2>3. c \in {d \in [fs -> V] : \A f \in fs : d[f] \in Values[f]}
    BY <1>2, <2>2
  <2> QED
    BY <1>2, <2>3 DEF Commands
<1> QED
  BY <1>1, <1>2

LEMMA NoneProperties ==
    /\ None \in Commands /\ DOMAIN None = {}
    /\ \A c \in Commands : DOMAIN c = {} => c = None
<1>1. DOMAIN None = {}
  BY DEF None
<1>2. None = [f \in {} |-> 0]
  BY DEF None
<1>3. None \in Commands
  BY <1>1, <1>2, CommandProperties
<1>4. ASSUME NEW c \in Commands, DOMAIN c = {} PROVE c = None
  <2>1. c = [f \in DOMAIN c |-> c[f]]
    BY CommandProperties
  <2> QED
    BY <1>2, <1>4, <2>1
<1> QED
  BY <1>1, <1>3, <1>4

LEMMA MergeProperties ==
    ASSUME NEW c \in Commands, NEW onto \in Commands
    PROVE  /\ Merge(c, onto) \in Commands
           /\ DOMAIN Merge(c, onto) = DOMAIN c \cup DOMAIN onto
           /\ \A f \in DOMAIN c \cup DOMAIN onto :
                  Merge(c, onto)[f] = IF f \in DOMAIN c THEN c[f] ELSE onto[f]
<1>1. /\ DOMAIN c \subseteq Fields /\ \A f \in DOMAIN c : c[f] \in Values[f]
      /\ DOMAIN onto \subseteq Fields /\ \A f \in DOMAIN onto : onto[f] \in Values[f]
  BY CommandProperties
<1> DEFINE m == Merge(c, onto)
<1>2. /\ DOMAIN m = DOMAIN c \cup DOMAIN onto /\ m = [f \in DOMAIN m |-> m[f]]
      /\ \A f \in DOMAIN c \cup DOMAIN onto : m[f] = IF f \in DOMAIN c THEN c[f] ELSE onto[f]
  BY DEF Merge
<1> HIDE DEF m
<1>3. m \in Commands
  BY <1>1, <1>2, CommandProperties
<1> QED
  BY <1>2, <1>3 DEF m

LEMMA WithoutProperties ==
    ASSUME NEW c \in Commands, NEW fs
    PROVE  /\ Without(c, fs) \in Commands
           /\ DOMAIN Without(c, fs) = DOMAIN c \ fs
           /\ \A f \in DOMAIN c \ fs : Without(c, fs)[f] = c[f]
<1>1. DOMAIN c \subseteq Fields /\ \A f \in DOMAIN c : c[f] \in Values[f]
  BY CommandProperties
<1> DEFINE m == Without(c, fs)
<1>2. /\ DOMAIN m = DOMAIN c \ fs /\ m = [f \in DOMAIN m |-> m[f]]
      /\ \A f \in DOMAIN c \ fs : m[f] = c[f]
  BY DEF Without, Restrict
<1> HIDE DEF m
<1>3. m \in Commands
  BY <1>1, <1>2, CommandProperties
<1> QED
  BY <1>2, <1>3 DEF m

(* The planned writes are of fields the command has, and the basic fields  *)
(* are always among them.                                                  *)
LEMMA PlanProperties ==
    ASSUME NEW c \in Commands
    PROVE  /\ Plan(c) \in Seq(Fields) /\ Range(Plan(c)) \subseteq DOMAIN c
           /\ Basic \cap DOMAIN c \subseteq Range(Plan(c))
<1> DEFINE D == DOMAIN c \cap Fields
<1>1. DOMAIN c \subseteq Fields
  BY CommandProperties
<1>2. ASSUME NEW cond, NEW f \in Fields, cond => f \in D
      PROVE  If(cond, f) \in Seq(D)
  <2> HIDE DEF D
  <2>1. CASE cond
    BY <1>2, <2>1 DEF If
  <2>2. CASE ~cond
    BY <2>2, EmptySeq DEF If
  <2> QED
    BY <2>1, <2>2
<1>3. /\ If("clear_fault" \in DOMAIN c /\ ext, "clear_fault") \in Seq(D)
      /\ If("setpoint_f" \in DOMAIN c /\ ext, "setpoint_f") \in Seq(D)
      /\ If("level" \in DOMAIN c, "level") \in Seq(D)
      /\ If("on" \in DOMAIN c, "on") \in Seq(D)
  BY <1>2 DEF Fields
<1>4. ASSUME NEW s \in Seq(D), NEW t \in Seq(D)
      PROVE  s \o t \in Seq(D) /\ Range(s \o t) = Range(s) \cup Range(t)
  <2>1. /\ s \o t \in Seq(D) /\ Len(s \o t) = Len(s) + Len(t)
        /\ Len(s) \in Nat /\ Len(t) \in Nat
        /\ DOMAIN s = 1 .. Len(s) /\ DOMAIN t = 1 .. Len(t)
        /\ DOMAIN (s \o t) = 1 .. (Len(s) + Len(t))
        /\ \A i \in 1 .. (Len(s) + Len(t)) :
              (s \o t)[i] = IF i <= Len(s) THEN s[i] ELSE t[i - Len(s)]
    BY ConcatProperties, LenProperties
  <2>2. ASSUME NEW x \in Range(s \o t) PROVE x \in Range(s) \cup Range(t)
    <3>1. PICK i \in 1 .. (Len(s) + Len(t)) : x = (s \o t)[i]
      BY <2>1 DEF Range
    <3>2. i <= Len(s) => i \in 1 .. Len(s)
      BY <2>1
    <3>3. ~(i <= Len(s)) => i - Len(s) \in 1 .. Len(t)
      BY <2>1
    <3> QED
      BY <2>1, <3>1, <3>2, <3>3 DEF Range
  <2>3. ASSUME NEW x \in Range(s) PROVE x \in Range(s \o t)
    <3>1. PICK i \in 1 .. Len(s) : x = s[i]
      BY <2>1 DEF Range
    <3>2. i \in 1 .. (Len(s) + Len(t)) /\ i <= Len(s)
      BY <2>1
    <3> QED
      BY <2>1, <3>1, <3>2 DEF Range
  <2>4. ASSUME NEW x \in Range(t) PROVE x \in Range(s \o t)
    <3>1. PICK i \in 1 .. Len(t) : x = t[i]
      BY <2>1 DEF Range
    <3>2. /\ i + Len(s) \in 1 .. (Len(s) + Len(t)) /\ ~(i + Len(s) <= Len(s))
          /\ (i + Len(s)) - Len(s) = i
      BY <2>1
    <3>3. (s \o t)[i + Len(s)] = t[i]
      BY <2>1, <3>2
    <3> QED
      BY <2>1, <3>1, <3>2, <3>3 DEF Range
  <2> QED
    BY <2>1, <2>2, <2>3, <2>4
<1>5. \A s \in Seq(D) : Range(s) \subseteq D
  BY LenProperties, ElementOfSeq DEF Range
<1>6. \A f : f \in Range(<<f>>)
  BY DEF Range
<1> DEFINE a == If("clear_fault" \in DOMAIN c /\ ext, "clear_fault")
           b == If("setpoint_f" \in DOMAIN c /\ ext, "setpoint_f")
           l == If("level" \in DOMAIN c, "level")
           o == If("on" \in DOMAIN c, "on")
<1>7. "level" \in DOMAIN c => "level" \in Range(l)
  BY <1>6 DEF If
<1>8. "on" \in DOMAIN c => "on" \in Range(o)
  BY <1>6 DEF If
<1>9. Plan(c) = ((a \o b) \o l) \o o
  BY DEF Plan
<1> HIDE DEF a, b, l, o
<1>10. Plan(c) \in Seq(D) /\ Range(l) \subseteq Range(Plan(c)) /\ Range(o) \subseteq Range(Plan(c))
  <2>1. a \in Seq(D) /\ b \in Seq(D) /\ l \in Seq(D) /\ o \in Seq(D)
    BY <1>3 DEF a, b, l, o
  <2> HIDE DEF D
  <2>2. a \o b \in Seq(D)
    BY <1>4, <2>1
  <2>3. (a \o b) \o l \in Seq(D) /\ Range((a \o b) \o l) = Range(a \o b) \cup Range(l)
    BY <1>4, <2>1, <2>2
  <2>4. /\ ((a \o b) \o l) \o o \in Seq(D)
        /\ Range(((a \o b) \o l) \o o) = Range((a \o b) \o l) \cup Range(o)
    BY <1>4, <2>1, <2>3
  <2> QED
    BY <1>9, <2>3, <2>4
<1>11. Plan(c) \in Seq(Fields)
  BY <1>10, SeqMonotonic
<1>12. Range(Plan(c)) \subseteq DOMAIN c
  BY <1>5, <1>10
<1> QED
  BY <1>7, <1>8, <1>10, <1>11, <1>12 DEF Basic

(* The first of a sequence and the rest of it.                             *)
LEMMA HeadTailRange ==
    ASSUME NEW S, NEW s \in Seq(S), s # <<>>
    PROVE  /\ Head(s) \in S /\ Tail(s) \in Seq(S)
           /\ Range(s) = {Head(s)} \cup Range(Tail(s))
<1>1. /\ Head(s) \in S /\ Tail(s) \in Seq(S) /\ Len(s) \in Nat \ {0}
      /\ Head(s) = s[1] /\ Len(Tail(s)) = Len(s) - 1
      /\ \A i \in 1 .. (Len(s) - 1) : Tail(s)[i] = s[i + 1]
  BY HeadTailProperties, EmptySeq
<1>2. DOMAIN s = 1 .. Len(s) /\ DOMAIN Tail(s) = 1 .. (Len(s) - 1)
  BY <1>1, LenProperties
<1>3. ASSUME NEW x \in Range(s) PROVE x \in {Head(s)} \cup Range(Tail(s))
  <2>1. PICK i \in 1 .. Len(s) : x = s[i]
    BY <1>2 DEF Range
  <2>2. i # 1 => i - 1 \in 1 .. (Len(s) - 1) /\ (i - 1) + 1 = i
    BY <1>1
  <2>3. i # 1 => x = Tail(s)[i - 1]
    BY <1>1, <2>1, <2>2
  <2> QED
    BY <1>1, <1>2, <2>1, <2>2, <2>3 DEF Range
<1>4. Head(s) \in Range(s)
  <2>1. 1 \in 1 .. Len(s)
    BY <1>1
  <2> QED
    BY <1>1, <1>2, <2>1 DEF Range
<1>5. ASSUME NEW x \in Range(Tail(s)) PROVE x \in Range(s)
  <2>1. PICK i \in 1 .. (Len(s) - 1) : x = Tail(s)[i]
    BY <1>2 DEF Range
  <2>2. i + 1 \in 1 .. Len(s) /\ x = s[i + 1]
    BY <1>1, <2>1
  <2> QED
    BY <1>2, <2>2 DEF Range
<1> QED
  BY <1>1, <1>3, <1>4, <1>5

-----------------------------------------------------------------------------
(* What an action of the cloud or the network can put on its way.          *)

Down == Seq(Commands \ {None})
Uplink == Seq({"report", "null", "get"})

LEMMA PushedProperties ==
    ASSUME NEW c \in Commands, NEW queue \in Down, NEW q \in Pushed(c, queue)
    PROVE  q \in Down
<1>1. PICK same \in SUBSET {"level", "setpoint_f"} :
          q = IF Without(c, same) = None THEN queue ELSE Append(queue, Without(c, same))
  BY DEF Pushed
<1>2. Without(c, same) \in Commands
  BY WithoutProperties
<1>3. CASE Without(c, same) = None
  BY <1>1, <1>3
<1>4. CASE Without(c, same) # None
  <2>1. Without(c, same) \in Commands \ {None}
    BY <1>2, <1>4
  <2> QED
    BY <1>1, <1>4, <2>1, AppendProperties DEF Down
<1> QED
  BY <1>3, <1>4

LEMMA BodiesAreCommands ==
    ASSUME NEW on, NEW fault, NEW useSetpoint, NEW body \in Offers(on, fault, useSetpoint)
    PROVE  body \in Commands
<1>1. ASSUME NEW v \in {0, 1} PROVE [on |-> v] \in Commands
  <2>1. DOMAIN [on |-> v] = {"on"} /\ [on |-> v]["on"] = v /\ [on |-> v] = [f \in {"on"} |-> v]
    OBVIOUS
  <2> QED
    BY <2>1, CommandProperties DEF Fields, Values
<1>2. [clear_fault |-> 1] \in Commands
  <2>1. /\ DOMAIN [clear_fault |-> 1] = {"clear_fault"} /\ [clear_fault |-> 1]["clear_fault"] = 1
        /\ [clear_fault |-> 1] = [f \in {"clear_fault"} |-> 1]
    OBVIOUS
  <2> QED
    BY <2>1, CommandProperties DEF Fields, Values
<1>3. ASSUME NEW v \in Setpoints PROVE [setpoint_f |-> v] \in Commands
  <2>1. /\ DOMAIN [setpoint_f |-> v] = {"setpoint_f"} /\ [setpoint_f |-> v]["setpoint_f"] = v
        /\ [setpoint_f |-> v] = [f \in {"setpoint_f"} |-> v]
    OBVIOUS
  <2> QED
    BY <2>1, CommandProperties DEF Fields, Values
<1>4. ASSUME NEW v \in Levels PROVE [level |-> v] \in Commands
  <2>1. /\ DOMAIN [level |-> v] = {"level"} /\ [level |-> v]["level"] = v
        /\ [level |-> v] = [f \in {"level"} |-> v]
    OBVIOUS
  <2> QED
    BY <2>1, CommandProperties DEF Fields, Values
<1> QED
  BY <1>1, <1>2, <1>3, <1>4 DEF Offers, Toggle

-----------------------------------------------------------------------------
(* One lemma per action, or per group of actions with the same effect.     *)

(* What the invariant says of the variables of the agent alone: it is kept *)
(* by whatever leaves them.                                                *)
LEMMA AgentUnchanged ==
    ASSUME StopKept, WritesPending, UNCHANGED <<pending, pc, peeked, moved, todo, failed, owed>>
    PROVE  StopKept' /\ WritesPending'
BY DEF StopKept, Kept, WritesPending

LEMMA CommandKeeps == HeaterInv /\ HandleCommand => HeaterInv'
<1> SUFFICES ASSUME HeaterInv, HandleCommand PROVE HeaterInv'
  OBVIOUS
<1>1. UNCHANGED <<up, connected, shadow, thread, owed, drops, restarts>>
  BY DEF HandleCommand
<1>2. PICK on, fault, useSetpoint \in BOOLEAN :
          \E body \in Offers(on, fault /\ Ext, useSetpoint /\ Ext) :
              desired' = Merge(body, desired)
  BY DEF HandleCommand
<1>3. PICK body \in Offers(on, fault /\ Ext, useSetpoint /\ Ext) : desired' = Merge(body, desired)
  BY <1>2
<1>4. body \in Commands
  BY BodiesAreCommands
<1>5. desired' \in Commands
  BY <1>3, <1>4, MergeProperties DEF HeaterInv, HeaterTypeOK
<1>6. down' \in Down
  <2>1. down \in Down
    BY DEF HeaterInv, HeaterTypeOK, Down
  <2> QED
    BY <1>5, <2>1, PushedProperties DEF HandleCommand
<1>7. sent' \in 0 .. MaxCmds
  BY HeaterAssumption DEF HeaterInv, HeaterTypeOK, HandleCommand
<1>8. HeaterTypeOK'
  BY <1>1, <1>5, <1>6, <1>7 DEF HeaterInv, HeaterTypeOK, shadow, thread, Down
<1>9. StopKept' /\ WritesPending'
  BY <1>1, AgentUnchanged DEF HeaterInv, shadow, thread
<1> QED
  BY <1>8, <1>9 DEF HeaterInv

LEMMA ShadowServiceKeeps == HeaterInv /\ ShadowService => HeaterInv'
<1> SUFFICES ASSUME HeaterInv, ShadowService PROVE HeaterInv'
  OBVIOUS
<1>1. UNCHANGED <<connected, shadow, thread, owed, heaterBounds>> /\ up # <<>>
  BY DEF ShadowService
<1>2. desired' \in Commands
  BY NoneProperties DEF HeaterInv, HeaterTypeOK, ShadowService, Taken
<1>3. down \in Down
  BY DEF HeaterInv, HeaterTypeOK, Down
<1>4. down' \in Down
  <2>1. CASE Head(up) = "get"
    <3>1. down' = IF desired = None THEN down ELSE Append(down, desired)
      BY <2>1 DEF ShadowService
    <3>2. desired # None => desired \in Commands \ {None}
      BY DEF HeaterInv, HeaterTypeOK
    <3> QED
      BY <1>3, <3>1, <3>2, AppendProperties DEF Down
  <2>2. CASE Head(up) # "get"
    BY <1>2, <1>3, <2>2, PushedProperties DEF ShadowService
  <2> QED
    BY <2>1, <2>2
<1>5. up' \in Uplink
  BY <1>1, HeadTailProperties DEF HeaterInv, HeaterTypeOK, ShadowService, Uplink
<1>6. HeaterTypeOK'
  BY <1>1, <1>2, <1>4, <1>5 DEF HeaterInv, HeaterTypeOK, shadow, thread, heaterBounds, Down, Uplink
<1>7. StopKept' /\ WritesPending'
  BY <1>1, AgentUnchanged DEF HeaterInv, shadow, thread
<1> QED
  BY <1>6, <1>7 DEF HeaterInv

LEMMA ConnectionKeeps == HeaterInv /\ (Disconnect \/ OnConnect) => HeaterInv'
<1> SUFFICES ASSUME HeaterInv, Disconnect \/ OnConnect PROVE HeaterInv'
  OBVIOUS
<1>1. UNCHANGED <<shadow, thread, owed, sent, restarts>>
  BY DEF Disconnect, OnConnect, heaterBounds
<1>2. desired' \in Commands
  BY NoneProperties DEF HeaterInv, HeaterTypeOK, Disconnect, OnConnect, Taken
<1>3. down' \in Down
  BY EmptySeq DEF HeaterInv, HeaterTypeOK, Disconnect, OnConnect, Down
<1>4. up' \in Uplink
  <2>1. up \in Uplink /\ <<"get">> \in Uplink
    BY DEF HeaterInv, HeaterTypeOK, Uplink
  <2>2. Append(up, "get") \in Uplink
    BY <2>1, AppendProperties DEF Uplink
  <2>3. Cons("get", up) \in Uplink
    BY <2>1, ConcatProperties DEF Cons, Uplink
  <2> QED
    BY <2>1, <2>2, <2>3 DEF Disconnect, OnConnect
<1>5. connected' \in BOOLEAN /\ drops' \in 0 .. MaxDrops
  <2>1. drops \in 0 .. MaxDrops /\ MaxDrops \in Nat
    BY HeaterAssumption DEF HeaterInv, HeaterTypeOK
  <2>2. CASE Disconnect
    <3>1. connected' = FALSE /\ drops < MaxDrops /\ drops' = drops + 1
      BY <2>2 DEF Disconnect
    <3>2. drops' \in 0 .. MaxDrops
      BY <2>1, <3>1
    <3> QED
      BY <3>1, <3>2
  <2>3. CASE OnConnect
    <3>1. connected' = TRUE /\ drops' = drops
      BY <2>3 DEF OnConnect, heaterBounds
    <3> QED
      BY <2>1, <3>1
  <2> QED
    BY <2>2, <2>3
<1>6. HeaterTypeOK'
  BY <1>1, <1>2, <1>3, <1>4, <1>5 DEF HeaterInv, HeaterTypeOK, shadow, thread, Down, Uplink
<1>7. StopKept' /\ WritesPending'
  BY <1>1, AgentUnchanged DEF HeaterInv, shadow, thread
<1> QED
  BY <1>6, <1>7 DEF HeaterInv

LEMMA ApplyKeeps == HeaterInv /\ ApplyDesired => HeaterInv'
<1> SUFFICES ASSUME HeaterInv, ApplyDesired PROVE HeaterInv'
  OBVIOUS
<1> DEFINE m == Head(down)
<1>1. /\ UNCHANGED <<desired, up, connected, clear, pc, ext, peeked, todo, failed, heaterBounds>>
      /\ pending' = Merge(m, pending) /\ owed' = Merge(m, owed)
      /\ moved' = (pc = "write") /\ down' = Tail(down) /\ down # <<>>
  BY DEF ApplyDesired, Augmented
<1>2. m \in Commands /\ down' \in Down
  <2>1. down \in Down
    BY DEF HeaterInv, HeaterTypeOK, Down
  <2> QED
    BY <1>1, <2>1, HeadTailProperties DEF Down
<1>3. pending \in Commands /\ owed \in Commands
  BY DEF HeaterInv, HeaterTypeOK
<1> HIDE DEF m
<1>4. /\ pending' \in Commands /\ DOMAIN pending' = DOMAIN m \cup DOMAIN pending
      /\ \A f \in DOMAIN pending' : pending'[f] = IF f \in DOMAIN m THEN m[f] ELSE pending[f]
  <2> DEFINE M == Merge(m, pending)
  <2>1. /\ M \in Commands /\ DOMAIN M = DOMAIN m \cup DOMAIN pending
        /\ \A f \in DOMAIN m \cup DOMAIN pending : M[f] = IF f \in DOMAIN m THEN m[f] ELSE pending[f]
    BY <1>2, <1>3, MergeProperties
  <2>2. pending' = M
    BY <1>1
  <2> HIDE DEF M
  <2> QED
    BY <2>1, <2>2
<1>5. /\ owed' \in Commands /\ DOMAIN owed' = DOMAIN m \cup DOMAIN owed
      /\ \A f \in DOMAIN owed' : owed'[f] = IF f \in DOMAIN m THEN m[f] ELSE owed[f]
  <2> DEFINE M == Merge(m, owed)
  <2>1. /\ M \in Commands /\ DOMAIN M = DOMAIN m \cup DOMAIN owed
        /\ \A f \in DOMAIN m \cup DOMAIN owed : M[f] = IF f \in DOMAIN m THEN m[f] ELSE owed[f]
    BY <1>2, <1>3, MergeProperties
  <2>2. owed' = M
    BY <1>1
  <2> HIDE DEF M
  <2> QED
    BY <2>1, <2>2
<1>6. HeaterTypeOK'
  BY <1>1, <1>2, <1>4, <1>5 DEF HeaterInv, HeaterTypeOK, heaterBounds, Down
<1>7. StopKept'
  BY <1>4, <1>5 DEF HeaterInv, StopKept, Kept
<1>8. WritesPending'
  BY <1>1 DEF WritesPending
<1> QED
  BY <1>6, <1>7, <1>8 DEF HeaterInv

LEMMA ReportKeeps == HeaterInv /\ (ReportLinkUp \/ ReportLinkDown) => HeaterInv'
<1> SUFFICES ASSUME HeaterInv, ReportLinkUp \/ ReportLinkDown PROVE HeaterInv'
  OBVIOUS
<1>1. /\ UNCHANGED <<desired, down, connected, pending, peeked, moved, todo, failed, owed, heaterBounds>>
      /\ pc = "report" /\ clear' = FALSE /\ pc' \in {"report", "peek"}
      /\ \/ up' = Append(up, IF clear THEN "null" ELSE "report")
         \/ up' = up
  BY DEF ReportLinkUp, ReportLinkDown, PublishReported
<1>2. ext' \in BOOLEAN
  BY HeaterAssumption DEF HeaterInv, HeaterTypeOK, ReportLinkUp, ReportLinkDown
<1>3. up' \in Uplink
  <2>1. up \in Uplink
    BY DEF HeaterInv, HeaterTypeOK, Uplink
  <2> QED
    BY <1>1, <2>1, AppendProperties DEF Uplink
<1>4. HeaterTypeOK'
  BY <1>1, <1>2, <1>3 DEF HeaterInv, HeaterTypeOK, heaterBounds, Uplink
<1>5. StopKept' /\ WritesPending'
  BY <1>1 DEF HeaterInv, StopKept, Kept, WritesPending
<1> QED
  BY <1>4, <1>5 DEF HeaterInv

LEMMA PeekKeeps == HeaterInv /\ (PeekNothing \/ Peek) => HeaterInv'
<1> SUFFICES ASSUME HeaterInv, PeekNothing \/ Peek PROVE HeaterInv'
  OBVIOUS
<1>1. CASE PeekNothing
  <2>1. UNCHANGED <<cloud, shadow, ext, peeked, moved, todo, failed, owed, heaterBounds>> /\ pc' = "report"
    BY <1>1 DEF PeekNothing
  <2>2. HeaterTypeOK'
    BY <2>1 DEF HeaterInv, HeaterTypeOK, cloud, shadow, heaterBounds
  <2>3. StopKept' /\ WritesPending'
    BY <2>1 DEF HeaterInv, StopKept, Kept, WritesPending, shadow
  <2> QED
    BY <2>2, <2>3 DEF HeaterInv
<1>2. CASE Peek
  <2>1. /\ UNCHANGED <<cloud, shadow, ext, owed, heaterBounds>>
        /\ pc' = "write" /\ peeked' = pending /\ moved' = FALSE
        /\ todo' = Plan(pending) /\ failed' = FALSE
    BY <1>2 DEF Peek
  <2>2. pending \in Commands
    BY DEF HeaterInv, HeaterTypeOK
  <2>3. /\ todo' \in Seq(Fields) /\ Range(todo') \subseteq DOMAIN peeked'
        /\ Basic \cap DOMAIN peeked' \subseteq Range(todo')
    BY <2>1, <2>2, PlanProperties
  <2>4. HeaterTypeOK'
    BY <2>1, <2>2, <2>3 DEF HeaterInv, HeaterTypeOK, cloud, shadow, heaterBounds
  <2>5. StopKept'
    BY <2>1 DEF HeaterInv, StopKept, Kept, shadow
  <2>6. WritesPending'
    BY <2>1, <2>3 DEF WritesPending, shadow
  <2> QED
    BY <2>4, <2>5, <2>6 DEF HeaterInv
<1> QED
  BY <1>1, <1>2

LEMMA WriteKeeps == HeaterInv /\ WriteField => HeaterInv'
<1> SUFFICES ASSUME HeaterInv, WriteField PROVE HeaterInv'
  OBVIOUS
<1> DEFINE h == Head(todo)
<1>1. /\ UNCHANGED <<cloud, shadow, pc, ext, peeked, moved, heaterBounds>>
      /\ pc = "write" /\ todo # <<>> /\ todo' = Tail(todo)
      /\ \/ Took(h) /\ failed' = failed
         \/ (Took(h) \/ owed' = owed) /\ failed' = TRUE
  BY DEF WriteField
<1>2. h \in Fields /\ todo' \in Seq(Fields) /\ Range(todo) = {h} \cup Range(todo')
  BY <1>1, HeadTailRange DEF HeaterInv, HeaterTypeOK
<1>3. owed \in Commands /\ failed' \in BOOLEAN
  BY <1>1 DEF HeaterInv, HeaterTypeOK
<1> HIDE DEF h
<1>4. /\ owed' \in Commands /\ DOMAIN owed' \subseteq DOMAIN owed
      /\ \A f \in DOMAIN owed' : owed'[f] = owed[f]
  <2> DEFINE W == Without(owed, {h})
  <2>1. owed' = W \/ owed' = owed
    BY <1>1 DEF Took
  <2>2. W \in Commands /\ DOMAIN W = DOMAIN owed \ {h} /\ \A f \in DOMAIN owed \ {h} : W[f] = owed[f]
    BY <1>3, WithoutProperties
  <2> HIDE DEF W
  <2> QED
    BY <1>3, <2>1, <2>2
<1>5. Took(h) => (h \in DOMAIN owed' => owed[h] # peeked[h])
  <2>1. DOMAIN Without(owed, {h}) = DOMAIN owed \ {h}
    BY <1>3, WithoutProperties
  <2> QED
    BY <2>1 DEF Took
<1>6. HeaterTypeOK'
  BY <1>1, <1>2, <1>3, <1>4 DEF HeaterInv, HeaterTypeOK, cloud, shadow, heaterBounds
<1>7. StopKept'
  BY <1>1, <1>4 DEF HeaterInv, StopKept, Kept, shadow
<1>8. WritesPending'
  <2> SUFFICES ASSUME ~moved, ~failed', NEW f \in Basic \cap DOMAIN owed', f \in DOMAIN peeked
               PROVE  f \in Range(todo')
    BY <1>1 DEF HeaterInv, WritesPending, shadow
  <2>1. Took(h) /\ ~failed
    BY <1>1
  <2>2. pending = peeked /\ f \in Range(todo)
    BY <1>1, <1>4, <2>1 DEF HeaterInv, WritesPending
  <2>3. owed[f] = pending[f]
    BY <1>4 DEF HeaterInv, StopKept, Kept, Basic
  <2>4. f # h
    BY <1>5, <2>1, <2>2, <2>3
  <2> QED
    BY <1>2, <2>2, <2>4
<1> QED
  BY <1>6, <1>7, <1>8 DEF HeaterInv

LEMMA AckKeeps == HeaterInv /\ Ack => HeaterInv'
<1> SUFFICES ASSUME HeaterInv, Ack PROVE HeaterInv'
  OBVIOUS
<1>1. /\ UNCHANGED <<cloud, ext, todo, owed, heaterBounds>>
      /\ pc = "write" /\ todo = <<>> /\ pc' = "report"
      /\ peeked' = None /\ moved' = FALSE /\ failed' = FALSE
  BY DEF Ack
<1>2. Range(todo) = {}
  BY <1>1 DEF Range
<1>3. HeaterTypeOK'
  <2>1. pending' \in Commands /\ clear' \in BOOLEAN
    BY NoneProperties DEF HeaterInv, HeaterTypeOK, Ack, shadow
  <2>2. Range(todo') \subseteq DOMAIN peeked'
    BY <1>1, <1>2
  <2> QED
    BY <1>1, <2>1, <2>2, NoneProperties DEF HeaterInv, HeaterTypeOK, cloud, heaterBounds
<1>4. StopKept'
  <2>1. CASE Applied
    <3>1. pending = peeked /\ \A f \in Basic \cap DOMAIN owed : f \notin DOMAIN peeked
      BY <1>1, <1>2, <2>1 DEF HeaterInv, WritesPending, Applied
    <3>2. Basic \cap DOMAIN owed = {}
      BY <3>1 DEF HeaterInv, StopKept, Kept, Basic
    <3> QED
      BY <1>1, <3>2 DEF StopKept, Kept, Basic
  <2>2. CASE ~Applied
    <3>1. pending' = pending
      BY <2>2 DEF Ack, shadow
    <3> QED
      BY <1>1, <3>1 DEF HeaterInv, StopKept, Kept
  <2> QED
    BY <2>1, <2>2
<1>5. WritesPending'
  BY <1>1 DEF WritesPending
<1> QED
  BY <1>3, <1>4, <1>5 DEF HeaterInv

LEMMA RestartKeeps == HeaterInv /\ Restart => HeaterInv'
<1> SUFFICES ASSUME HeaterInv, Restart PROVE HeaterInv'
  OBVIOUS
<1>1. /\ UNCHANGED <<desired, sent, drops>>
      /\ down' = <<>> /\ up' = <<>> /\ connected' = FALSE
      /\ pending' = None /\ clear' = FALSE /\ owed' = None
      /\ pc' = "report" /\ ext' = FALSE /\ peeked' = None /\ moved' = FALSE
      /\ todo' = <<>> /\ failed' = FALSE
  BY DEF Restart
<1>2. restarts' \in 0 .. MaxRestarts
  BY HeaterAssumption DEF HeaterInv, HeaterTypeOK, Restart
<1>3. Range(todo') = {}
  BY <1>1 DEF Range
<1>4. HeaterTypeOK'
  BY <1>1, <1>2, <1>3, NoneProperties, EmptySeq DEF HeaterInv, HeaterTypeOK
<1>5. StopKept' /\ WritesPending'
  BY <1>1, NoneProperties DEF StopKept, Kept, WritesPending
<1> QED
  BY <1>4, <1>5 DEF HeaterInv

-----------------------------------------------------------------------------
(* The theorems.                                                           *)

LEMMA HeaterInitHolds == HeaterInit => HeaterInv
<1> SUFFICES ASSUME HeaterInit PROVE HeaterInv
  OBVIOUS
<1>1. Range(todo) = {}
  BY DEF HeaterInit, Range
<1>2. HeaterTypeOK
  <2>1. sent \in 0 .. MaxCmds /\ drops \in 0 .. MaxDrops /\ restarts \in 0 .. MaxRestarts
    BY HeaterAssumption DEF HeaterInit
  <2>2. {desired, pending, peeked, owed} \subseteq Commands
    BY NoneProperties DEF HeaterInit
  <2>3. down \in Seq(Commands \ {None}) /\ up \in Seq({"report", "null", "get"}) /\ todo \in Seq(Fields)
    BY EmptySeq DEF HeaterInit
  <2>4. Range(todo) \subseteq DOMAIN peeked
    BY <1>1
  <2>5. pc \in {"report", "peek", "write"} /\ {connected, clear, ext, moved, failed} \subseteq BOOLEAN
    BY DEF HeaterInit
  <2> QED
    BY <2>1, <2>2, <2>3, <2>4, <2>5 DEF HeaterTypeOK
<1>3. StopKept /\ WritesPending
  BY NoneProperties DEF HeaterInit, StopKept, Kept, WritesPending
<1> QED
  BY <1>2, <1>3 DEF HeaterInv

LEMMA HeaterStepKeeps == HeaterInv /\ [HeaterNext]_heaterVars => HeaterInv'
<1> SUFFICES ASSUME HeaterInv, [HeaterNext]_heaterVars PROVE HeaterInv'
  OBVIOUS
<1>1. CASE HandleCommand
  BY <1>1, CommandKeeps
<1>2. CASE ShadowService
  BY <1>2, ShadowServiceKeeps
<1>3. CASE Disconnect \/ OnConnect
  BY <1>3, ConnectionKeeps
<1>4. CASE ApplyDesired
  BY <1>4, ApplyKeeps
<1>5. CASE ReportLinkUp \/ ReportLinkDown
  BY <1>5, ReportKeeps
<1>6. CASE PeekNothing \/ Peek
  BY <1>6, PeekKeeps
<1>7. CASE WriteField
  BY <1>7, WriteKeeps
<1>8. CASE Ack
  BY <1>8, AckKeeps
<1>9. CASE Restart
  BY <1>9, RestartKeeps
<1>10. CASE UNCHANGED heaterVars
  <2>1. UNCHANGED <<cloud, shadow, thread, owed, heaterBounds>>
    BY <1>10 DEF heaterVars
  <2>2. HeaterTypeOK'
    BY <2>1 DEF HeaterInv, HeaterTypeOK, cloud, shadow, thread, heaterBounds
  <2>3. StopKept' /\ WritesPending'
    BY <2>1, AgentUnchanged DEF HeaterInv, shadow, thread
  <2> QED
    BY <2>2, <2>3 DEF HeaterInv
<1> QED
  BY <1>1, <1>2, <1>3, <1>4, <1>5, <1>6, <1>7, <1>8, <1>9, <1>10 DEF HeaterNext

LEMMA HeaterInductive == HeaterSpec => []HeaterInv
<1> QED
  BY HeaterInitHolds, HeaterStepKeeps, PTL DEF HeaterSpec

(* Every variable keeps its type, and no register is written whose field   *)
(* the command lacks (heater_ext.c:heater_plan_writes).                    *)
THEOREM HeaterTypeCorrect == HeaterSpec => []HeaterTypeOK
<1>1. HeaterInv => HeaterTypeOK
  BY DEF HeaterInv
<1> QED
  BY <1>1, HeaterInductive, PTL

(* An accepted start, stop or level stays pending with its latest value    *)
(* until it has been written, whatever messages, failures and versions of  *)
(* the firmware it meets (shadow.c:260-316, 766-781).                      *)
THEOREM StopNeverForgotten == HeaterSpec => []StopKept
<1>1. HeaterInv => StopKept
  BY DEF HeaterInv
<1> QED
  BY <1>1, HeaterInductive, PTL
=============================================================================
