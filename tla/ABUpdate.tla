------------------------------ MODULE ABUpdate ------------------------------
(***************************************************************************)
(* The A/B update of the appliance: usr/bin/markos-update, the service     *)
(* boot-confirm and the part of S02markos-recovery that reverts a try, all *)
(* in os/board/markos/overlay, with `markos-engine --reboot-tryboot`.      *)
(*                                                                         *)
(* Two slots hold a root file system each.  /boot holds cmdline.txt, which *)
(* names the slot of a normal boot, and, once an update was armed,         *)
(* tryboot-cmdline.txt.  A step is one command of a script, split where a  *)
(* power cut in the middle leaves something else behind: a redirection and *)
(* cp truncate their file before they write it.  Power can fail and the    *)
(* watchdog can fire between any two steps.                                *)
(***************************************************************************)
EXTENDS Naturals

CONSTANTS
  Slots,  \* the two root partitions, 02 and 03
  None,   \* no file, no slot
  Empty,  \* a file that was truncated and not written
  Polls   \* the healthy answers in a row that boot-confirm asks for (18)

ASSUME UpdateAssumption ==
  /\ None \notin Slots
  /\ Empty \notin Slots
  /\ None # Empty
  /\ Polls \in Nat \ {0}
  /\ \E a, b \in Slots : a # b /\ Slots = {a, b}

VARIABLES
  rootfs,      \* what each slot holds
  cmdline,     \* the slot /boot/cmdline.txt names
  tryCmdline,  \* the slot /boot/tryboot-cmdline.txt names
  bootRW,      \* /boot is mounted read-write
  tryFlag,     \* the firmware's one-shot tryboot flag
  stage,       \* of the box: "off", "init" (init.d runs), "up" (services run)
  root,        \* the slot the running system was booted from
  ready,       \* the engine answers /readyz
  updater,     \* where markos-update stands
  plan,        \* its NEW_CMDLINE
  confirm,     \* where boot-confirm stands
  polls        \* its i

boot == <<cmdline, tryCmdline, bootRW>>
box == <<tryFlag, stage, root>>
confirmation == <<confirm, polls>>
vars == <<rootfs, boot, box, ready, updater, plan, confirmation>>

\* "good" comes up and answers, "bad" comes up and its engine never does,
\* "torn" is half an image: the kernel panics on it.
Images == {"good", "bad", "torn"}

Init ==
  /\ rootfs \in [Slots -> {"good"}]
  /\ cmdline \in Slots
  /\ tryCmdline = None
  /\ bootRW = FALSE
  /\ tryFlag = FALSE
  /\ stage = "off"
  /\ root = None
  /\ ready = FALSE
  /\ updater = "idle"
  /\ plan = None
  /\ confirm = "down"
  /\ polls = 0

-----------------------------------------------------------------------------
(* The box.                                                                *)

\* Everything that lives in memory is gone.
Down ==
  /\ stage' = "off"
  /\ root' = None
  /\ ready' = FALSE
  /\ updater' = "idle"
  /\ plan' = None
  /\ confirm' = "down"
  /\ polls' = 0
  /\ bootRW' = FALSE

\* A power cut, a hang the watchdog ends, a kernel panic, a plain reboot.
PowerCut ==
  /\ stage # "off" \/ tryFlag
  /\ tryFlag' = FALSE
  /\ Down
  /\ UNCHANGED <<rootfs, cmdline, tryCmdline>>

\* The firmware picks the command line; the flag counts for one boot.  A
\* kernel without a root, or with a torn one, panics and reboots.
Boot ==
  LET target == IF tryFlag /\ tryCmdline # None THEN tryCmdline ELSE cmdline
      boots == target \in Slots /\ rootfs[target] # "torn"
  IN /\ stage = "off"
     /\ boots \/ tryFlag
     /\ tryFlag' = FALSE
     /\ stage' = IF boots THEN "init" ELSE "off"
     /\ root' = IF boots THEN target ELSE None
     /\ UNCHANGED <<rootfs, boot, ready, updater, plan, confirmation>>

\* Fault: a reset that is honoured while the services run.
ResetAnyTime ==
  /\ stage # "off"
  /\ tryCmdline' = None
  /\ UNCHANGED <<rootfs, cmdline, bootRW, box, ready, updater, plan,
                 confirmation>>

\* do_reset, by the button or the trigger file: the try is reverted and the
\* box reboots.  What it does to /data/state is not in this module.
FactoryReset ==
  /\ stage = "init"
  /\ tryCmdline' = None
  /\ Down
  /\ UNCHANGED <<rootfs, cmdline, tryFlag>>

\* runsv starts the services; boot-confirm looks for a try, once.
StartServices ==
  /\ stage = "init"
  /\ stage' = "up"
  /\ confirm' = IF tryCmdline = None THEN "asleep" ELSE "proving"
  /\ polls' = 0
  /\ UNCHANGED <<rootfs, boot, tryFlag, root, ready, updater, plan>>

EngineReady ==
  /\ stage = "up"
  /\ rootfs[root] = "good"
  /\ ~ready
  /\ ready' = TRUE
  /\ UNCHANGED <<rootfs, boot, box, updater, plan, confirmation>>

\* The engine crashes or is restarted from the web UI.
EngineDown ==
  /\ ready
  /\ ready' = FALSE
  /\ UNCHANGED <<rootfs, boot, box, updater, plan, confirmation>>

-----------------------------------------------------------------------------
(* boot-confirm.                                                           *)

\* Fault: a slow answer starts the count again.
PollForgets ==
  /\ confirm = "proving"
  /\ polls < Polls
  /\ polls' = IF ready /\ polls = 0 THEN 1 ELSE 0
  /\ UNCHANGED <<rootfs, boot, box, ready, updater, plan, confirm>>

\* Fault: the bound of the loop is off by one.
PollOneMore ==
  /\ confirm = "proving"
  /\ polls <= Polls
  /\ polls' = IF ready THEN polls + 1 ELSE 0
  /\ UNCHANGED <<rootfs, boot, box, ready, updater, plan, confirm>>

\* One round of the loop: a healthy answer counts, any other starts over.
Poll ==
  /\ confirm = "proving"
  /\ polls < Polls
  /\ polls' = IF ready THEN polls + 1 ELSE 0
  /\ UNCHANGED <<rootfs, boot, box, ready, updater, plan, confirm>>

\* mount -o remount,rw /boot.
CommitMount ==
  /\ confirm = "proving"
  /\ polls = Polls
  /\ bootRW' = TRUE
  /\ confirm' = "mounted"
  /\ UNCHANGED <<rootfs, cmdline, tryCmdline, box, ready, updater, plan,
                 polls>>

\* cp opens its target: empty, unless /boot is read-only again.
CommitTruncate ==
  /\ confirm = "mounted"
  /\ cmdline' = IF bootRW THEN Empty ELSE cmdline
  /\ confirm' = IF bootRW THEN "copying" ELSE "copied"
  /\ UNCHANGED <<rootfs, tryCmdline, bootRW, box, ready, updater, plan, polls>>

CommitCopy ==
  /\ confirm = "copying"
  /\ cmdline' = tryCmdline
  /\ confirm' = "copied"
  /\ UNCHANGED <<rootfs, tryCmdline, bootRW, box, ready, updater, plan, polls>>

\* remount,ro, which fails while markos-update has a file open.  The script
\* ends, runsv starts it again, and the file is still there.
CommitUnmount ==
  /\ confirm = "copied"
  /\ bootRW' = (bootRW /\ updater = "arming")
  /\ confirm' = "proving"
  /\ polls' = 0
  /\ UNCHANGED <<rootfs, cmdline, tryCmdline, box, ready, updater, plan>>

-----------------------------------------------------------------------------
(* markos-update.                                                          *)

\* Fault: the active slot is taken from /boot/cmdline.txt.
InactiveByFile == CHOOSE s \in Slots : s # cmdline

\* The slot the kernel's own command line does not name.
Inactive == CHOOSE s \in Slots : s # root

\* The arguments and the checksum are right: dd starts.
WriteSlot ==
  /\ stage = "up"
  /\ updater = "idle"
  /\ rootfs' = [rootfs EXCEPT ![Inactive] = "torn"]
  /\ updater' = "writing"
  /\ UNCHANGED <<boot, box, ready, plan, confirmation>>

\* dd and sync are through, or dd failed and the script stops.
SlotWritten ==
  /\ updater = "writing"
  /\ \/ /\ \E image \in {"good", "bad"} :
             rootfs' = [rootfs EXCEPT ![Inactive] = image]
        /\ updater' = "written"
     \/ /\ updater' = "idle"
        /\ UNCHANGED rootfs
  /\ UNCHANGED <<boot, box, ready, plan, confirmation>>

\* NEW_CMDLINE is cmdline.txt with the other slot; remount,rw.
Plan ==
  /\ updater = "written"
  /\ plan' = IF cmdline = Empty THEN Empty ELSE Inactive
  /\ bootRW' = TRUE
  /\ updater' = "planned"
  /\ UNCHANGED <<rootfs, cmdline, tryCmdline, box, ready, confirmation>>

\* > /boot/tryboot-cmdline.txt opens the file.  On a /boot that is read-only
\* again it fails, and the script goes on.
ArmTruncate ==
  /\ updater = "planned"
  /\ tryCmdline' = IF bootRW THEN Empty ELSE tryCmdline
  /\ updater' = IF bootRW THEN "arming" ELSE "armed"
  /\ UNCHANGED <<rootfs, cmdline, bootRW, box, ready, plan, confirmation>>

ArmWrite ==
  /\ updater = "arming"
  /\ tryCmdline' = plan
  /\ updater' = "armed"
  /\ UNCHANGED <<rootfs, cmdline, bootRW, box, ready, plan, confirmation>>

\* remount,ro, which fails while boot-confirm's cp has a file open; then the
\* engine binary asks the kernel for a tryboot restart, which works...
RebootTryboot ==
  /\ updater = "armed"
  /\ tryFlag' = TRUE
  /\ Down
  /\ UNCHANGED <<rootfs, cmdline, tryCmdline>>

\* ... or does not, and the system runs on with the try armed.
RebootFails ==
  /\ updater = "armed"
  /\ bootRW' = (bootRW /\ confirm = "copying")
  /\ updater' = "idle"
  /\ plan' = None
  /\ UNCHANGED <<rootfs, cmdline, tryCmdline, box, ready, confirmation>>

-----------------------------------------------------------------------------

Confirm == Poll \/ CommitMount \/ CommitTruncate \/ CommitCopy \/ CommitUnmount

Next ==
  \/ PowerCut \/ Boot \/ FactoryReset \/ StartServices
  \/ EngineReady \/ EngineDown
  \/ Confirm
  \/ WriteSlot \/ SlotWritten \/ Plan \/ ArmTruncate \/ ArmWrite
  \/ RebootTryboot \/ RebootFails

Spec == Init /\ [][Next]_vars

\* The shell of boot-confirm runs, and so does the boot.
Fairness == WF_vars(Confirm) /\ WF_vars(Boot) /\ WF_vars(StartServices)

FairSpec == Spec /\ Fairness

-----------------------------------------------------------------------------
(* Properties.                                                             *)

\* Every variable holds a value of its kind.
TypeOK ==
  /\ rootfs \in [Slots -> Images]
  /\ cmdline \in Slots \cup {Empty}
  /\ tryCmdline \in Slots \cup {Empty, None}
  /\ bootRW \in BOOLEAN
  /\ tryFlag \in BOOLEAN
  /\ stage \in {"off", "init", "up"}
  /\ root \in Slots \cup {None}
  /\ ready \in BOOLEAN
  /\ updater \in {"idle", "writing", "written", "planned", "arming", "armed"}
  /\ plan \in Slots \cup {Empty, None}
  /\ confirm \in {"down", "asleep", "proving", "mounted", "copying", "copied"}
  /\ polls \in 0..Polls

\* dd never writes over the root file system that is mounted, also when the
\* update is run from a slot that is itself still on trial.
RunningRootIntact == stage # "off" => rootfs[root] # "torn"

\* The file boot-confirm proves and copies is there until it is done: a
\* factory reset cannot take it away underneath (cp would fail and the
\* service would believe it had committed).
TryStaysWhileProving ==
  confirm \in {"proving", "mounted", "copying"} => tryCmdline # None

\* An update whose engine stays healthy is committed: boot-confirm does not
\* keep counting for ever.
HealthyTryIsCommitted ==
  <>[](ready /\ tryCmdline = root /\ updater = "idle")
    => []<>(cmdline = root)

-----------------------------------------------------------------------------
(* What the scripts say of themselves and do not do.                       *)

\* "If the new root is healthy (engine ready) for 3 consecutive minutes, we
\* commit" (boot-confirm/run:5): the slot that becomes the default is the
\* one that was booted and proved.
CommitsTheProvedSlot ==
  [][confirm = "copying" /\ cmdline' \in Slots => cmdline' = root]_vars

\* "an update can never brick the box" (boot-confirm/run:7): whenever the
\* box is off, the next normal boot finds a root.
NeverBricked ==
  stage = "off" => cmdline \in Slots /\ rootfs[cmdline] # "torn"
=============================================================================
