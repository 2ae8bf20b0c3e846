------------------------------ MODULE Installer ------------------------------
(***************************************************************************)
(* The installer on the user's machine: its window (gui.rs) and its        *)
(* command line (cli.rs), the check of the configuration (config.rs), the  *)
(* assembly of the configured image (imagebuild.rs; FatImage looks inside  *)
(* the injection of one file) and the writing and read-back of a drive     *)
(* (flash.rs).  A configuration is what the checks and the file set can    *)
(* tell apart; an image is a base copy with a set of injected files.       *)
(***************************************************************************)
EXTENDS Integers, Sequences, FiniteSets, SequencesExt

CONSTANTS
  Fields,      \* fields with a format of their own, malformed until filled in
  Passwords, Switches,  \* passwords and check boxes that are tried in the window
  Arguments,   \* command lines, each a set of options
  Paths,       \* the names the system gives to disks (/dev/sdX, PhysicalDriveN)
  Disks, Small,  \* the machine's disks, and those too small for an image
  Sizeless,    \* disks whose size cannot be found out
  Blocks,      \* blocks of an image
  Retries      \* how often a block that differs is read again (5)

ASSUME InstallerAssumption ==
  /\ "none" \notin Paths \cup Disks
  /\ Small \subseteq Disks /\ Sizeless \subseteq Disks
  /\ Blocks \in Nat \ {0} /\ Retries \in Nat
  /\ Passwords \subseteq {"none", "short", "good"}
  /\ Switches \subseteq {"enabled", "console", "dhcp", "wifi"}

VARIABLES
  screen,    \* which screen is shown, or what the command line is doing
  cfg,       \* InstallConfig
  keyText,   \* what is in the window's text area for SSH keys
  errors,    \* App.errors: the fields the last validation refused
  base,      \* a base image was picked
  built,     \* App.built_image is set
  since,     \* what happened to the configuration or its image since it was
  todo,      \* files the build under way has still to inject
  out,       \* the file <stem>.configured.img
  attached,  \* the disks attached now, each with the path it has
  drives,    \* App.drives, as listed last: the paths, and whose they were
  gone,      \* the disks listed there that have been unplugged since
  sel,       \* App.selected_drive: a position in drives, 0 for none
  chosen,    \* the drive shown when it was selected
  erase,     \* ERASE is typed
  flash,     \* flash_image: [pc, path, disk, back, at, tries, verify, unread];
             \* disk is the one opened to be written, back the one read back
  media      \* blocks on each disk: "old", "bad" or "new"

gui == <<screen, cfg, keyText, errors, base, built, since>>
disk == <<drives, gone, sel, chosen, erase>>
vars == <<gui, todo, out, attached, disk, flash, media>>

Drives == [path : Paths, disk : Disks]
NoDrive == [path |-> "none", disk |-> "none"]
NoFlash == [pc |-> "none", path |-> "none", disk |-> "none", back |-> "none",
            at |-> 1, tries |-> 0, verify |-> FALSE, unread |-> FALSE]
Default == [password |-> "none", enabled |-> FALSE, keys |-> "none",
            console |-> FALSE, dhcp |-> FALSE, wifi |-> FALSE, bad |-> Fields]
NoImage == [cfg |-> Default, files |-> {}]
WindowDefault == [Default EXCEPT !.dhcp = TRUE]

\* The fields that count, which are those shown in the window.
Applies(c, f) == CASE f \in {"network.ip", "network.gateway"} -> ~c.dhcp
                   [] f \in {"wifi_ssid", "wifi_psk"} -> c.wifi
                   [] OTHER -> TRUE

\* validate: the errors, by field.  "password" is none, short or good; "keys"
\* is none, blank (only white space) or real.  The serial console counts as a
\* way in, although no file says so to the image: its own configuration turns
\* the console on or not.
Validate(c) ==
  LET hasKey == c.enabled /\ c.keys = "real"
  IN {f \in c.bad : Applies(c, f)}
     \cup (IF c.password = "short"
              \/ (c.password = "none" /\ ~hasKey /\ ~c.console)
           THEN {"admin_password"} ELSE {})

\* The files injected, in order; a blank key list still makes an empty file.
FilesOf(c) ==
  <<"provision.env", "net.conf">>
  \o (IF c.wifi THEN <<"wpa_supplicant.conf">> ELSE <<>>)
  \o (IF c.keys # "none" THEN <<"authorized_keys">> ELSE <<>>)
  \o (IF c.enabled THEN <<"ssh-enabled">> ELSE <<"ssh-disabled">>)

Init ==
  /\ screen = "start" /\ cfg = WindowDefault /\ keyText = "none"
  /\ errors = {} /\ base = FALSE /\ built = FALSE /\ since = {}
  /\ todo = <<>> /\ out = NoImage
  /\ attached = {}
  /\ drives = <<>> /\ gone = {} /\ sel = 0 /\ chosen = NoDrive /\ erase = FALSE
  /\ flash = NoFlash
  /\ media = [d \in Disks |-> [b \in 1..Blocks |-> "old"]]

\* A disk is plugged in, under any path that is free: one that is in an older
\* list as another disk's, too.
Plug ==
  /\ \E d \in Drives :
       /\ \A e \in attached : e.path # d.path /\ e.disk # d.disk
       /\ attached' = attached \cup {d}
  /\ UNCHANGED <<gui, todo, out, disk, flash, media>>

\* A disk is pulled out; if it is being written, the next write fails or, when
\* the writes went to a cache, the sync.
Unplug ==
  /\ \E d \in attached :
       /\ attached' = attached \ {d}
       /\ gone' = gone \cup {e.disk : e \in ToSet(drives) \cap {d}}
       /\ flash' = IF flash.pc = "write" /\ flash.disk = d.disk
                   THEN [flash EXCEPT !.pc = "err"] ELSE flash
  /\ UNCHANGED <<gui, todo, out, drives, sel, chosen, erase, media>>

-----------------------------------------------------------------------------
\* The window.

\* list_drives: the disks attached, in whatever order they are found.
ListDrives == drives' \in SetToSeqs(attached) /\ gone' = {}

\* Fault: the list is made anew and the selected position kept.
RefreshKeepsSelection == ListDrives /\ UNCHANGED <<sel, chosen>>

RefreshDrives == ListDrives /\ sel' = 0 /\ chosen' = NoDrive

OpenWindow ==
  /\ screen = "start"
  /\ screen' = "config" /\ cfg' = WindowDefault
  /\ UNCHANGED <<keyText, errors, base, built, since, todo, out, attached, disk,
                 flash, media>>

Edit ==
  /\ screen = "config"
  /\ \/ \E p \in Passwords : cfg' = [cfg EXCEPT !.password = p]
                                             /\ UNCHANGED keyText
     \/ \E f \in Switches :
          cfg' = [cfg EXCEPT ![f] = ~@] /\ UNCHANGED keyText
     \/ \E f \in Fields : /\ Applies(cfg, f)
                          /\ cfg' = [cfg EXCEPT !.bad = IF f \in @ THEN @ \ {f}
                                                          ELSE @ \cup {f}]
                          /\ UNCHANGED keyText
     \/ keyText' \in {"none", "real"} /\ UNCHANGED cfg
  /\ since' = since \cup {"edited"}
  /\ UNCHANGED <<screen, errors, base, built, todo, out, attached, disk, flash, media>>

PickBase ==
  /\ screen = "config" /\ base' = TRUE
  /\ UNCHANGED <<screen, cfg, keyText, errors, built, since, todo, out, attached,
                 disk, flash, media>>

\* App.validate: the configuration is checked before the keys in the text area
\* are copied into it.
Check ==
  /\ errors' = Validate(cfg) \cup (IF base THEN {} ELSE {"base image"})
  /\ cfg' = [cfg EXCEPT !.keys = keyText]

ClickValidate ==
  /\ screen = "config" /\ Check
  /\ screen' = IF errors' = {} THEN "review" ELSE "config"
  /\ UNCHANGED <<keyText, base, built, since, todo, out, attached, disk, flash, media>>

ClickRefresh ==
  /\ screen = "config" /\ RefreshDrives
  /\ UNCHANGED <<gui, erase, todo, out, attached, flash, media>>

\* Fault: the review screen trusts the validation of the screen before.
ReviewTrusts(next) == screen = "review" /\ screen' = next /\ UNCHANGED <<errors, cfg>>

\* The review screen validates again each time it is drawn, then handles clicks.
Review(next) == screen = "review" /\ Check /\ screen' = next

ClickBack ==
  /\ Review("config")
  /\ UNCHANGED <<keyText, base, built, since, todo, out, attached, disk, flash, media>>

StartBuild(c) == todo' = FilesOf(c) /\ out' = [cfg |-> c, files |-> {}]

ClickBuild ==
  /\ Review("building") /\ errors' = {} /\ base
  /\ StartBuild(cfg')
  /\ UNCHANGED <<keyText, base, built, since, attached, disk, flash, media>>

\* inject_provision writes the next file.
Inject ==
  /\ screen \in {"building", "cli build"} /\ todo # <<>>
  /\ todo' = Tail(todo) /\ out' = [out EXCEPT !.files = @ \cup {Head(todo)}]
  /\ UNCHANGED <<gui, attached, disk, flash, media>>

BuildOk ==
  /\ screen = "building" /\ todo = <<>>
  /\ screen' = "review" /\ built' = TRUE /\ since' = {} /\ RefreshDrives
  /\ UNCHANGED <<cfg, keyText, errors, base, erase, todo, out, attached, flash, media>>

\* Fault: the error is shown but the image is offered as built.
BuildFailsUnseen ==
  /\ screen = "building" /\ todo # <<>>
  /\ screen' = "review" /\ todo' = <<>> /\ built' = TRUE /\ since' = {}
  /\ UNCHANGED <<cfg, keyText, errors, base, out, attached, disk, flash, media>>

\* The copy of the base or a file fails: the output is what it is by then.
BuildFails ==
  /\ screen = "building" /\ todo # <<>>
  /\ screen' = "review" /\ todo' = <<>> /\ since' = since \cup {"failed"}
  /\ UNCHANGED <<cfg, keyText, errors, base, built, out, attached, disk, flash, media>>

Select ==
  /\ Review("review") /\ built
  /\ \E i \in DOMAIN drives : sel' = i /\ chosen' = drives[i]
  /\ UNCHANGED <<keyText, base, built, since, drives, gone, erase, todo, out,
                 attached, flash, media>>

TypeErase ==
  /\ Review("review") /\ built /\ erase' = TRUE
  /\ UNCHANGED <<keyText, base, built, since, drives, gone, sel, chosen, todo,
                 out, attached, flash, media>>

StartFlash(path, verify) ==
  flash' = [NoFlash EXCEPT !.pc = "open", !.path = path, !.verify = verify]

ClickWrite ==
  /\ Review("flashing") /\ built /\ erase /\ sel # 0
  /\ StartFlash(drives[sel].path, TRUE)
  /\ UNCHANGED <<keyText, base, built, since, todo, out, attached, disk, media>>

\* The button is there whatever the detached thread is doing.
ClickDone ==
  /\ screen = "flashing" /\ screen' = "done"
  /\ UNCHANGED <<cfg, keyText, errors, base, built, since, todo, out, attached,
                 disk, flash, media>>

\* The process is closed or killed, with the flash thread if there is one.
Quit ==
  /\ screen # "start"
  /\ screen' = "start" /\ cfg' = WindowDefault /\ keyText' = "none" /\ errors' = {}
  /\ base' = FALSE /\ built' = FALSE /\ since' = {} /\ todo' = <<>>
  /\ drives' = <<>> /\ gone' = {} /\ sel' = 0 /\ chosen' = NoDrive /\ erase' = FALSE
  /\ flash' = NoFlash
  /\ media' = [d \in Disks |-> [b \in 1..Blocks |-> "old"]]
  /\ UNCHANGED <<out, attached>>

-----------------------------------------------------------------------------
\* The command line.

\* apply_override, for the options given.  Each sets a field of its own, so the
\* order they are given in does not matter.
ApplyOverrides(c, given) ==
  [c EXCEPT
     !.password = IF "--admin-password" \in given THEN "good" ELSE @,
     !.keys = IF "--ssh-key" \in given THEN "real"
              ELSE IF "--ssh-key blank" \in given THEN "blank" ELSE @,
     !.console = @ \/ "--serial-console" \in given,
     !.dhcp = @ /\ "--static-ip" \notin given,
     !.wifi = @ \/ "--wifi" \in given,
     !.bad = {f \in @ : /\ f = "network.ip" => "--static-ip" \notin given
                        /\ f = "boot_media" => "--target" \notin given}]

\* parse_args and load_config.
LoadConfig(given) ==
  ApplyOverrides(IF "--config" \in given THEN [WindowDefault EXCEPT !.bad = {}]
                 ELSE Default, given)

RunCli ==
  /\ screen = "start"
  /\ \E given \in Arguments :
       LET c == LoadConfig(given) IN
       /\ cfg' = c /\ errors' = Validate(c)
       /\ IF errors' # {} \/ "--image" \notin given \/ "--dry-run" \in given
          THEN screen' = "exit" /\ UNCHANGED <<todo, out, flash, since>>
          ELSE /\ screen' = "cli build" /\ StartBuild(c) /\ since' = {}
               /\ flash' = IF "--write" \notin given THEN flash
                           ELSE [NoFlash EXCEPT !.pc = "list",
                                   !.verify = "--verify" \in given]
  /\ UNCHANGED <<keyText, base, built, attached, disk, media>>

CliBuildFails ==
  /\ screen = "cli build" /\ todo # <<>>
  /\ screen' = "exit" /\ todo' = <<>> /\ since' = {"failed"} /\ flash' = NoFlash
  /\ UNCHANGED <<cfg, keyText, errors, base, built, out, attached, disk, media>>

\* The image is built; --write goes on, after a countdown, only for a path that
\* is listed now.
CliBuildOk ==
  /\ screen = "cli build" /\ todo = <<>>
  /\ \/ /\ flash.pc = "none" /\ screen' = "exit"
        /\ UNCHANGED <<flash, drives, gone, chosen>>
     \/ /\ flash.pc = "list" /\ ListDrives
        /\ \/ \E d \in ToSet(drives') : /\ screen' = "cli flash" /\ chosen' = d
                                        /\ StartFlash(d.path, flash.verify)
           \/ screen' = "exit" /\ flash' = NoFlash /\ UNCHANGED chosen
  /\ UNCHANGED <<cfg, keyText, errors, base, built, since, sel, erase, todo, out,
                 attached, media>>

-----------------------------------------------------------------------------
\* flash_image.

Flashing(pc) == flash.pc = pc
Go(pc) == flash' = [flash EXCEPT !.pc = pc]
Rest == UNCHANGED <<gui, todo, out, attached, disk>>

\* Open whatever disk has the path now, and refuse one that is known to be too
\* small.
OpenDevice ==
  /\ Flashing("open") /\ Rest /\ UNCHANGED media
  /\ \/ \E d \in attached :
          /\ d.path = flash.path /\ (d.disk \in Small => d.disk \in Sizeless)
          /\ flash' = [flash EXCEPT !.pc = "write", !.disk = d.disk]
     \/ /\ \A d \in attached : d.path = flash.path => d.disk \in Small \ Sizeless
        /\ Go("err")

WriteBlock ==
  /\ Flashing("write") /\ flash.at <= Blocks /\ Rest
  /\ \/ /\ flash.disk \notin Small \/ flash.at < Blocks
        /\ \E b \in {"new", "bad"} : media' = [media EXCEPT ![flash.disk][flash.at] = b]
        /\ flash' = [flash EXCEPT !.at = @ + 1]
     \/ Go("err") /\ UNCHANGED media      \* reading or writing fails

Sync ==
  /\ Flashing("write") /\ flash.at = Blocks + 1 /\ Rest /\ UNCHANGED media
  /\ \/ flash' = [flash EXCEPT !.pc = IF flash.verify THEN "reopen" ELSE "ok", !.at = 1]
     \/ Go("err")

\* The read-back opens the path again, some seconds later.
OpenToVerify ==
  /\ Flashing("reopen") /\ Rest /\ UNCHANGED media
  /\ \/ \E d \in attached : /\ d.path = flash.path
                           /\ flash' = [flash EXCEPT !.pc = "verify", !.back = d.disk]
     \/ (\A d \in attached : d.path # flash.path) /\ Go("err")

\* What a read of the block returns: what is on the disk or, from a reader that
\* has not flushed yet or a disk pulled out, something else; another disk that
\* has got the path may hold an image of its own.
ReadBack == {"old", IF flash.back = flash.disk THEN media[flash.disk][flash.at] ELSE "new"}

\* Fault: one read too many, or after the last one the block is let pass.
VerifyOnceMore ==
  /\ Flashing("verify") /\ flash.at <= Blocks /\ Rest /\ UNCHANGED media
  /\ \E seen \in ReadBack :
       flash' = IF seen = "new" THEN [flash EXCEPT !.at = @ + 1, !.tries = 0]
                ELSE IF flash.tries <= Retries THEN [flash EXCEPT !.tries = @ + 1]
                ELSE [flash EXCEPT !.pc = "err"]
VerifyLetsPass ==
  /\ Flashing("verify") /\ flash.at <= Blocks /\ Rest /\ UNCHANGED media
  /\ \E seen \in ReadBack :
       flash' = IF seen = "new" \/ flash.tries = Retries
                THEN [flash EXCEPT !.at = @ + 1, !.tries = 0]
                ELSE [flash EXCEPT !.tries = @ + 1]

\* One block is read back; one that differs is read again up to Retries times.
VerifyBlock ==
  /\ Flashing("verify") /\ flash.at <= Blocks /\ Rest /\ UNCHANGED media
  /\ \E seen \in ReadBack :
       flash' = IF seen = "new" THEN [flash EXCEPT !.at = @ + 1, !.tries = 0]
                ELSE IF flash.tries < Retries THEN [flash EXCEPT !.tries = @ + 1]
                ELSE [flash EXCEPT !.pc = "err"]

\* read_full drops an error of the image file, so the loop takes it for its end.
ImageUnreadable ==
  /\ Flashing("verify") /\ flash.at <= Blocks /\ flash.tries = 0
  /\ Rest /\ UNCHANGED media
  /\ flash' = [flash EXCEPT !.pc = "ok", !.unread = TRUE]

Verified ==
  /\ Flashing("verify") /\ flash.at = Blocks + 1
  /\ Rest /\ UNCHANGED media /\ Go("ok")

CliReports ==
  /\ screen = "cli flash" /\ flash.pc \in {"ok", "err"} /\ screen' = "exit"
  /\ UNCHANGED <<cfg, keyText, errors, base, built, since, todo, out, attached,
                 disk, flash, media>>

Window == OpenWindow \/ Edit \/ PickBase \/ ClickValidate \/ ClickRefresh \/ ClickBack
          \/ ClickBuild \/ BuildOk \/ BuildFails \/ Select \/ TypeErase \/ ClickWrite
          \/ ClickDone
CommandLine == RunCli \/ CliBuildOk \/ CliBuildFails \/ CliReports
FlashImage == OpenDevice \/ WriteBlock \/ Sync \/ OpenToVerify \/ VerifyBlock
              \/ ImageUnreadable \/ Verified
Next == Window \/ CommandLine \/ FlashImage \/ Inject \/ Plug \/ Unplug \/ Quit

Spec == Init /\ [][Next]_vars

-----------------------------------------------------------------------------
TypeOK ==
  /\ screen \in {"start", "config", "review", "building", "flashing", "done",
                 "cli build", "cli flash", "exit"}
  /\ cfg.keys \in {"none", "blank", "real"} /\ cfg.bad \subseteq Fields
  /\ attached \subseteq Drives /\ gone \subseteq Disks /\ sel \in 0..Len(drives)
  /\ since \subseteq {"edited", "failed"}
  /\ flash.at \in 1..(Blocks + 1) /\ flash.tries \in 0..Retries
  /\ media \in [Disks -> [1..Blocks -> {"old", "bad", "new"}]]

\* "Validate everything BEFORE any disk is touched ... no headless box without a
\* way in" (config.rs:122-123): whatever is edited in whatever order, an image
\* is only ever assembled from a configuration without errors, with the keys it
\* was checked with.
BuildsOnlyValid == out # NoImage => Validate(out.cfg) = {}

\* A drive gets the image of the configuration shown, with every file in it,
\* unless the user went back and edited, or a rebuild failed, since the image
\* that is offered was built.
FlashesWhatIsShown ==
  flash.pc \notin {"none", "list"} /\ screen # "exit" /\ since = {} =>
    /\ out.cfg = cfg
    /\ out.files = ToSet(FilesOf(out.cfg))

\* The position kept for the chosen drive still means that drive, a list made
\* anew does not move the choice to another one, and the path written is the one
\* chosen.  The disk behind it, which is erased, is the one that was listed,
\* unless that one has been unplugged since: its path may then be another's.
WritesTheChosenDisk ==
  /\ sel # 0 => sel <= Len(drives) /\ drives[sel] = chosen
  /\ flash.path # "none" => flash.path = chosen.path
  /\ flash.disk # "none" => flash.disk = chosen.disk \/ chosen.disk \in gone

\* A flash that ends well has written every block, to a disk that could hold
\* them, and with verification every block was read back from it as the image
\* has it, up to where the image file itself could no longer be read, unless the
\* path became another disk's between the writing and the reading.
OkMeansOnTheDisk ==
  flash.pc = "ok" =>
    \A b \in 1..Blocks :
      /\ media[flash.disk][b] # "old"
      /\ /\ flash.verify /\ flash.back = flash.disk
         /\ flash.unread => b < flash.at
         => media[flash.disk][b] = "new"
=============================================================================
