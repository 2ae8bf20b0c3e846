--------------------------- MODULE InstallerProofs ---------------------------
(***************************************************************************)
(* Theorems about Installer, for every set of disks, fields and command    *)
(* lines, every size of an image and every number of retries.              *)
(*                                                                         *)
(* What is built, offered and written is decided on several screens, so    *)
(* the invariant says what each screen may rely on: Screens, which jobs    *)
(* can be under way on it; Checked, that the keys on it are those that     *)
(* were checked; Building, what the image under construction still needs;  *)
(* Offered, what the image offered is of; OnTheWay, how far a flash is.    *)
(***************************************************************************)
EXTENDS Installer, FiniteSetTheorems, SequenceTheorems, TLAPS

Keys == {"none", "blank", "real"}
Configs == [password : {"none", "short", "good"}, enabled : BOOLEAN, keys : Keys,
            console : BOOLEAN, dhcp : BOOLEAN, wifi : BOOLEAN, bad : SUBSET Fields]
Flashes == [pc : {"none", "list", "open", "write", "reopen", "verify", "ok", "err"},
            path : Paths \cup {"none"}, disk : Disks \cup {"none"},
            back : Disks \cup {"none"}, at : 1..(Blocks + 1), tries : 0..Retries,
            verify : BOOLEAN, unread : BOOLEAN]
FileNames == {"provision.env", "net.conf", "wpa_supplicant.conf", "authorized_keys",
              "ssh-enabled", "ssh-disabled"}
Images == [cfg : Configs, files : SUBSET FileNames]
Media == [Disks -> [1..Blocks -> {"old", "bad", "new"}]]

Typed ==
  /\ screen \in {"start", "config", "review", "building", "flashing", "done",
                 "cli build", "cli flash", "exit"}
  /\ cfg \in Configs /\ keyText \in {"none", "real"} /\ out \in Images
  /\ base \in BOOLEAN /\ built \in BOOLEAN /\ since \subseteq {"edited", "failed"}
  /\ attached \subseteq Drives /\ IsFiniteSet(attached)
  /\ drives \in Seq(Drives) /\ gone \subseteq Disks /\ sel \in 0..Len(drives)
  /\ erase \in BOOLEAN /\ todo \in Seq(FileNames)
  /\ flash \in Flashes /\ media \in Media

Written == {"open", "write", "reopen", "verify", "ok", "err"}

\* Nothing is built or flashed except on the screen for it.
Screens ==
  /\ screen \in {"start", "cli build", "cli flash", "exit"} => ~built /\ sel = 0
  /\ screen \in {"flashing", "done"} => built /\ flash.pc \in Written
  /\ screen = "cli flash" => flash.pc \in Written /\ since = {}
  /\ flash.pc \in Written =>
       screen \in {"flashing", "done", "cli flash", "exit"}
  /\ flash.pc = "list" => screen = "cli build"
  /\ flash.pc \in {"none", "list"} => flash.path = "none" /\ flash.disk = "none"
  /\ screen = "cli build" => since = {}

\* The keys of the text area have been checked with the rest.
Checked ==
  screen \in {"review", "building", "flashing", "done"} => cfg.keys = keyText

\* The image under construction is of the configuration shown, and lacks the
\* files still to do.
Building ==
  screen \in {"building", "cli build"} =>
    /\ out.cfg = cfg /\ Validate(cfg) = {}
    /\ out.files \cup ToSet(todo) = ToSet(FilesOf(out.cfg))

\* The image offered or written is complete, and of the configuration shown
\* unless something has happened since.
Complete == out.cfg = cfg /\ out.files = ToSet(FilesOf(out.cfg))
Offered ==
  /\ built /\ since = {} /\ screen # "building" => Complete /\ cfg.keys = keyText
  /\ screen = "cli flash" => Complete

\* A path is one disk's at a time; a drive that was listed has its path still,
\* or has been unplugged; and the path written is one of those listed.
Listed ==
  /\ \A d, e \in attached : d.path = e.path => d = e
  /\ \A d \in ToSet(drives) : d \in attached \/ d.disk \in gone
  /\ flash.pc \in Written => chosen \in ToSet(drives) /\ flash.path = chosen.path

\* How far the disk has been written, and read back.
OnTheWay ==
  /\ flash.pc \in {"write", "reopen", "verify", "ok"} => flash.disk \in Disks
  /\ flash.pc = "open" => flash.at = 1 /\ flash.disk = "none"
  /\ flash.pc \in {"open", "write", "reopen", "verify"} => ~flash.unread
  /\ flash.pc = "write" => \A b \in 1..Blocks : b < flash.at => media[flash.disk][b] # "old"
  /\ flash.pc = "reopen" => flash.verify /\ flash.at = 1
  /\ flash.pc \in {"reopen", "verify"} => \A b \in 1..Blocks : media[flash.disk][b] # "old"
  /\ flash.pc = "verify" =>
       /\ flash.verify
       /\ flash.back = flash.disk =>
            \A b \in 1..Blocks : b < flash.at => media[flash.disk][b] = "new"

IInv == /\ Typed /\ Screens /\ Checked /\ Building /\ Offered /\ Listed /\ OnTheWay
        /\ BuildsOnlyValid /\ WritesTheChosenDisk /\ OkMeansOnTheDisk

\* What the installer starts with.
LEMMA DefaultsTyped ==
  /\ Default \in Configs /\ WindowDefault \in Configs
  /\ NoFlash \in Flashes
  /\ [d \in Disks |-> [b \in 1..Blocks |-> "old"]] \in Media
<1>1. Default \in Configs
  BY DEF Default, Configs, Keys
<1>2. WindowDefault \in Configs
  BY <1>1 DEF WindowDefault, Configs
<1>3. NoFlash \in Flashes
  BY InstallerAssumption DEF NoFlash, Flashes
<1>4. QED
  BY <1>1, <1>2, <1>3 DEF Media

\* Any set of options makes a configuration.
LEMMA LoadedTyped == \A given : LoadConfig(given) \in Configs
<1>1. ASSUME NEW c \in Configs, NEW given
      PROVE  ApplyOverrides(c, given) \in Configs
  <2> DEFINE bad == {f \in c.bad : /\ f = "network.ip" => "--static-ip" \notin given
                                   /\ f = "boot_media" => "--target" \notin given}
             password == IF "--admin-password" \in given THEN "good" ELSE c.password
             keys == IF "--ssh-key" \in given THEN "real"
                     ELSE IF "--ssh-key blank" \in given THEN "blank" ELSE c.keys
             console == c.console \/ "--serial-console" \in given
             dhcp == c.dhcp /\ "--static-ip" \notin given
             wifi == c.wifi \/ "--wifi" \in given
  <2>1. bad \in SUBSET Fields /\ password \in {"none", "short", "good"} /\ keys \in Keys
    BY DEF Configs, Keys
  <2>2. console \in BOOLEAN /\ dhcp \in BOOLEAN /\ wifi \in BOOLEAN
    BY Zenon
  <2>3. ApplyOverrides(c, given) =
          [c EXCEPT !.password = password, !.keys = keys, !.console = console,
                    !.dhcp = dhcp, !.wifi = wifi, !.bad = bad]
    BY DEF ApplyOverrides
  <2> HIDE DEF bad, password, keys, console, dhcp, wifi
  <2>4. QED
    BY <2>1, <2>2, <2>3 DEF Configs
<1>2. [WindowDefault EXCEPT !.bad = {}] \in Configs
  BY DefaultsTyped DEF Configs
<1>3. QED
  BY <1>1, <1>2, DefaultsTyped DEF LoadConfig

\* A configuration makes a list of files.
LEMMA FilesTyped == \A c : FilesOf(c) \in Seq(FileNames)
<1> SUFFICES ASSUME NEW c PROVE FilesOf(c) \in Seq(FileNames)
  OBVIOUS
<1> DEFINE A == IF c.wifi THEN <<"wpa_supplicant.conf">> ELSE <<>>
           B == IF c.keys # "none" THEN <<"authorized_keys">> ELSE <<>>
           C == IF c.enabled THEN <<"ssh-enabled">> ELSE <<"ssh-disabled">>
           P == <<"provision.env", "net.conf">>
<1>1. A \in Seq(FileNames) /\ B \in Seq(FileNames) /\ C \in Seq(FileNames) /\ P \in Seq(FileNames)
  <2>1. /\ <<>> \in Seq(FileNames)
        /\ P \in Seq(FileNames)
        /\ <<"wpa_supplicant.conf">> \in Seq(FileNames)
        /\ <<"authorized_keys">> \in Seq(FileNames)
        /\ <<"ssh-enabled">> \in Seq(FileNames)
        /\ <<"ssh-disabled">> \in Seq(FileNames)
    BY DEF FileNames
  <2>2. QED
    BY <2>1, Zenon
<1>2. FilesOf(c) = P \o A \o B \o C
  BY DEF FilesOf
<1> HIDE DEF A, B, C, P
<1>3. QED
  BY <1>1, <1>2

\* A build takes the first file off its list.
LEMMA TakeFirst ==
  ASSUME NEW s \in Seq(FileNames), s # <<>>
  PROVE  Head(s) \in FileNames /\ Tail(s) \in Seq(FileNames) /\ ToSet(s) = {Head(s)} \cup ToSet(Tail(s))
<1>1. /\ Tail(s) \in Seq(FileNames) /\ Len(Tail(s)) = Len(s) - 1 /\ Len(s) \in Nat \ {0}
      /\ \A i \in 1..Len(Tail(s)) : Tail(s)[i] = s[i + 1]
  BY HeadTailProperties, EmptySeq
<1>2. ToSet(s) \subseteq {Head(s)} \cup ToSet(Tail(s))
  <2> SUFFICES ASSUME NEW i \in 1..Len(s), i # 1 PROVE s[i] \in ToSet(Tail(s))
    BY DEF ToSet
  <2>1. i - 1 \in DOMAIN Tail(s) /\ Tail(s)[i - 1] = s[i]
    BY <1>1
  <2>2. QED
    BY <2>1 DEF ToSet
<1>3. {Head(s)} \cup ToSet(Tail(s)) \subseteq ToSet(s)
  <2>1. 1 \in DOMAIN s /\ Head(s) = s[1]
    BY <1>1
  <2>2. ASSUME NEW i \in 1..Len(Tail(s)) PROVE i + 1 \in DOMAIN s /\ Tail(s)[i] = s[i + 1]
    BY <1>1
  <2>3. QED
    BY <1>1, <2>1, <2>2 DEF ToSet
<1>4. QED
  BY <1>1, <1>2, <1>3

\* A list of drives shows drives that are attached.
LEMMA ListTyped ==
  ASSUME Typed, ListDrives
  PROVE  drives' \in Seq(Drives) /\ ToSet(drives') \subseteq attached /\ gone' = {}
<1>1. drives' \in [1..Cardinality(attached) -> attached] /\ gone' = {}
  BY DEF ListDrives, SetToSeqs
<1>2. Cardinality(attached) \in Nat /\ attached \subseteq Drives
  BY FS_CardinalityType DEF Typed
<1>3. QED
  BY <1>1, <1>2 DEF ToSet

\* The first screen.
LEMMA InitInv == Init => IInv
<1> SUFFICES ASSUME Init PROVE IInv
  OBVIOUS
<1>1. Typed
  <2>1. attached \subseteq Drives /\ IsFiniteSet(attached)
    BY FS_EmptySet DEF Init
  <2>2. NoImage \in Images
    BY DefaultsTyped DEF NoImage, Images
  <2>3. <<>> \in Seq(FileNames) /\ <<>> \in Seq(Drives) /\ 0 \in 0..Len(<<>>)
    OBVIOUS
  <2>4. QED
    BY <2>1, <2>2, <2>3, DefaultsTyped DEF Init, Typed
<1>2. Screens /\ Checked /\ Building /\ Offered /\ Listed /\ OnTheWay
  BY DEF Init, Screens, Checked, Building, Offered, Listed, OnTheWay, NoFlash, Written, ToSet
<1>3. BuildsOnlyValid /\ WritesTheChosenDisk /\ OkMeansOnTheDisk
  BY DEF Init, NoFlash, BuildsOnlyValid, WritesTheChosenDisk, OkMeansOnTheDisk
<1>4. QED
  BY <1>1, <1>2, <1>3 DEF IInv

\* Copying the keys into a configuration, or clearing them, keeps it well typed.
LEMMA ValidTyped ==
  ASSUME NEW c \in Configs, NEW k \in {"none", "real"}
  PROVE  /\ [c EXCEPT !.keys = k] \in Configs
         /\ c.keys = k => [c EXCEPT !.keys = k] = c
  BY DEF Configs, Keys

\* The review screen shows what has been checked: drawing it again changes
\* nothing of the configuration.
LEMMA ReviewKeepsConfig ==
  ASSUME IInv, NEW next, Review(next)
  PROVE  cfg' = cfg
  BY ValidTyped DEF IInv, Typed, Checked, Review, Check

\* No step makes a configuration that is none.
LEMMA ConfigTyped == IInv /\ Next => cfg' \in Configs
<1> SUFFICES ASSUME IInv, Next PROVE cfg' \in Configs
  OBVIOUS
<1>0. cfg \in Configs /\ keyText \in {"none", "real"}
  BY DEF IInv, Typed
<1>1. CASE Check
  BY <1>0, <1>1, ValidTyped DEF Check
<1>2. CASE Edit
  <2>1. CASE \E p \in Passwords : cfg' = [cfg EXCEPT !.password = p]
    BY <1>0, <2>1, InstallerAssumption DEF Configs
  <2>2. ASSUME NEW f \in Switches, cfg' = [cfg EXCEPT ![f] = ~@] PROVE cfg' \in Configs
    <3>1. f \in {"enabled", "console", "dhcp", "wifi"}
      BY InstallerAssumption
    <3>2. (~cfg[f]) \in BOOLEAN
      BY Zenon
    <3>3. QED
      BY <1>0, <2>2, <3>1, <3>2 DEF Configs
  <2>3. ASSUME NEW f \in Fields,
               cfg' = [cfg EXCEPT !.bad = IF f \in @ THEN @ \ {f} ELSE @ \cup {f}]
        PROVE  cfg' \in Configs
    BY <1>0, <2>3 DEF Configs
  <2>4. QED
    BY <1>0, <1>2, <2>1, <2>2, <2>3 DEF Edit
<1>3. CASE OpenWindow \/ Quit
  BY <1>3, DefaultsTyped DEF OpenWindow, Quit
<1>4. CASE RunCli
  BY <1>4, LoadedTyped DEF RunCli
<1>5. CASE UNCHANGED cfg
  BY <1>0, <1>5
<1>6. QED
  BY <1>1, <1>2, <1>3, <1>4, <1>5
  DEF Next, Window, CommandLine, FlashImage, PickBase, ClickValidate, ClickRefresh,
      ClickBack, Review, ClickBuild, BuildOk, BuildFails, Select, TypeErase, ClickWrite,
      ClickDone, CliBuildOk, CliBuildFails, CliReports, OpenDevice, WriteBlock, Sync,
      OpenToVerify, VerifyBlock, ImageUnreadable, Verified, Inject, Plug, Unplug, Rest, gui

\* In the window the flash, if there is one, has left for a screen of its own,
\* so what is known of it is kept by whatever leaves it alone.
LEMMA FlashKept ==
  ASSUME IInv, UNCHANGED <<attached, flash, media>>,
         \/ UNCHANGED <<drives, gone, sel, chosen>>
         \/ ListDrives /\ sel' = 0 /\ flash.pc \notin Written
  PROVE  Listed' /\ OnTheWay' /\ OkMeansOnTheDisk' /\ WritesTheChosenDisk'
<1>1. OnTheWay'
  BY DEF IInv, OnTheWay
<1>2. OkMeansOnTheDisk'
  BY DEF IInv, OkMeansOnTheDisk
<1>3. CASE UNCHANGED <<drives, gone, sel, chosen>>
  BY <1>1, <1>2, <1>3 DEF IInv, Listed, WritesTheChosenDisk
<1>4. CASE ListDrives /\ sel' = 0 /\ flash.pc \notin Written
  <2>1. ToSet(drives') \subseteq attached
    BY <1>4, ListTyped DEF IInv
  <2>2. flash.pc \in {"none", "list"}
    BY <1>4 DEF IInv, Typed, Flashes, Written
  <2>3. flash.path = "none" /\ flash.disk = "none"
    BY <2>2 DEF IInv, Screens
  <2>4. Listed'
    BY <1>4, <2>1 DEF IInv, Listed
  <2>5. WritesTheChosenDisk'
    BY <1>4, <2>3 DEF WritesTheChosenDisk
  <2>6. QED
    BY <1>1, <1>2, <2>4, <2>5
<1>5. QED
  BY <1>3, <1>4

\* Edits and refreshes leave the disks alone and offer no image they should not.
LEMMA EditingStep ==
  ASSUME IInv, OpenWindow \/ Edit \/ PickBase \/ ClickValidate \/ ClickRefresh
  PROVE  IInv'
<1>0. cfg' \in Configs
  BY ConfigTyped DEF Next, Window
<1>1. flash.pc \notin Written /\ flash.disk = "none" /\ (screen = "start" => sel = 0)
  BY DEF IInv, Screens, Written, Typed, Flashes, OpenWindow, Edit, PickBase,
         ClickValidate, ClickRefresh
<1>2. CASE OpenWindow
  <2>1. /\ screen = "start" /\ screen' = "config"
        /\ UNCHANGED <<keyText, errors, base, built, since, todo, out, attached, drives, gone,
                       sel, chosen, erase, flash, media>>
    BY <1>2 DEF OpenWindow, disk
  <2>2. QED
    BY <1>0, <1>1, <2>1, FlashKept
    DEF IInv, Typed, Screens, Checked, Building, Offered, BuildsOnlyValid, Written
<1>3. CASE Edit
  <2>1. /\ screen = "config" /\ keyText' \in {"none", "real"}
        /\ since' \subseteq {"edited", "failed"} /\ since' # {}
        /\ UNCHANGED <<screen, base, built, todo, out, attached, drives, gone, sel, chosen,
                       erase, flash, media>>
    BY <1>3 DEF Edit, disk, IInv, Typed
  <2>2. QED
    BY <1>0, <1>1, <2>1, FlashKept
    DEF IInv, Typed, Screens, Checked, Building, Offered, BuildsOnlyValid, Written
<1>4. CASE PickBase
  <2>1. /\ screen = "config" /\ base'
        /\ UNCHANGED <<screen, cfg, keyText, built, since, todo, out, attached, drives, gone,
                       sel, chosen, erase, flash, media>>
    BY <1>4 DEF PickBase, disk
  <2>2. QED
    BY <1>0, <1>1, <2>1, FlashKept
    DEF IInv, Typed, Screens, Checked, Building, Offered, Complete, BuildsOnlyValid, Written
<1>5. CASE ClickValidate
  <2>1. /\ screen = "config" /\ screen' \in {"config", "review"}
        /\ cfg' = [cfg EXCEPT !.keys = keyText]
        /\ UNCHANGED <<keyText, base, built, since, todo, out, attached, drives, gone, sel,
                       chosen, erase, flash, media>>
    BY <1>5 DEF ClickValidate, Check, disk
  <2>2. cfg'.keys = keyText /\ (cfg.keys = keyText => cfg' = cfg)
    BY <2>1, ValidTyped DEF IInv, Typed, Configs
  <2>3. QED
    BY <1>0, <1>1, <2>1, <2>2, FlashKept
    DEF IInv, Typed, Screens, Checked, Building, Offered, Complete, BuildsOnlyValid, Written
<1>6. CASE ClickRefresh
  <2>1. /\ screen = "config" /\ sel' = 0 /\ ListDrives
        /\ UNCHANGED <<screen, cfg, keyText, base, built, since, todo, out, attached,
                       erase, flash, media>>
    BY <1>6 DEF ClickRefresh, RefreshDrives, gui
  <2>2. drives' \in Seq(Drives) /\ gone' = {} /\ sel' \in 0..Len(drives')
    BY <2>1, ListTyped DEF IInv
  <2>3. QED
    BY <1>0, <1>1, <2>1, <2>2, FlashKept
    DEF IInv, Typed, Screens, Checked, Building, Offered, Complete, BuildsOnlyValid, Written
<1>7. QED
  BY <1>2, <1>3, <1>4, <1>5, <1>6

\* The review screen, its build and its drive list.
LEMMA ReviewStep ==
  ASSUME IInv, ClickBack \/ Select \/ TypeErase \/ ClickWrite
  PROVE  IInv'
<1>1. /\ cfg' = cfg /\ screen = "review" /\ cfg.keys = keyText
      /\ UNCHANGED <<keyText, base, built, since, todo, out, attached, drives, media>>
  BY ReviewKeepsConfig DEF ClickBack, Select, TypeErase, ClickWrite, IInv, Checked, Review,
     disk
<1>2. flash.path = "none" /\ flash.disk = "none" /\ flash.pc \notin Written
  BY <1>1 DEF IInv, Screens, Written, Typed, Flashes
<1>3. screen' \in {"config", "review", "flashing"} /\ (screen' = "flashing" => ClickWrite)
  BY DEF ClickBack, Select, TypeErase, ClickWrite, Review
<1>4. CASE ClickWrite
  <2>1. /\ drives[sel] \in Drives /\ drives[sel] = chosen /\ built /\ screen' = "flashing"
        /\ UNCHANGED <<gone, sel, chosen, erase>>
    BY <1>4 DEF ClickWrite, Review, disk, IInv, Typed, WritesTheChosenDisk
  <2>2. /\ flash' \in Flashes /\ flash'.pc = "open" /\ flash'.at = 1 /\ ~flash'.unread
        /\ flash'.path = chosen.path /\ flash'.disk = "none"
    <3>1. chosen.path \in Paths
      BY <2>1 DEF Drives
    <3>2. flash' = [NoFlash EXCEPT !.pc = "open", !.path = chosen.path, !.verify = TRUE]
      BY <1>4, <2>1 DEF ClickWrite, StartFlash
    <3>3. QED
      BY <3>1, <3>2, DefaultsTyped DEF NoFlash, Flashes
  <2>3. chosen \in ToSet(drives)
    <3>1. drives \in Seq(Drives) /\ sel \in 1..Len(drives)
      <4>1. sel # 0 /\ sel \in 0..Len(drives) /\ drives \in Seq(Drives)
        BY <1>4 DEF ClickWrite, IInv, Typed
      <4>2. Len(drives) \in Nat
        BY <4>1
      <4>3. QED
        BY <4>1, <4>2
    <3>2. sel \in DOMAIN drives
      BY <3>1
    <3>3. QED
      BY <2>1, <3>2 DEF ToSet
  <2>4. Listed' /\ OnTheWay' /\ WritesTheChosenDisk' /\ OkMeansOnTheDisk'
    BY <1>1, <2>1, <2>2, <2>3
    DEF IInv, Listed, OnTheWay, WritesTheChosenDisk, OkMeansOnTheDisk
  <2>5. QED
    BY <1>1, <1>2, <2>1, <2>2, <2>4
    DEF IInv, Typed, Screens, Written, Checked, Building, Offered, Complete,
        BuildsOnlyValid
<1>5. CASE ~ClickWrite
  <2>1. flash' = flash /\ screen' \in {"config", "review"}
    BY <1>3, <1>5 DEF ClickBack, Select, TypeErase
  <2>2. drives \in Seq(Drives) /\ gone' = gone /\ erase \in BOOLEAN /\ sel \in 0..Len(drives)
    BY <1>5 DEF IInv, Typed, ClickBack, Select, TypeErase, disk
  <2>3. /\ sel' \in 0..Len(drives) /\ (sel' # 0 => drives[sel'] = chosen')
        /\ erase' \in BOOLEAN
    <3>1. CASE Select
      <4>1. PICK i \in 1..Len(drives) : sel' = i /\ chosen' = drives[i] /\ erase' = erase
        BY <2>2, <3>1 DEF Select
      <4>2. QED
        BY <2>2, <4>1
    <3>2. CASE ClickBack \/ TypeErase
      BY <2>2, <3>2 DEF ClickBack, TypeErase, disk, IInv, WritesTheChosenDisk
    <3>3. QED
      BY <1>5, <3>1, <3>2
  <2>4. /\ Typed' /\ Screens' /\ Checked' /\ Building' /\ Offered'
    BY <1>1, <1>2, <2>1, <2>2, <2>3
    DEF IInv, Typed, Screens, Written, Checked, Building, Offered, Complete
  <2>5. Listed' /\ OnTheWay' /\ OkMeansOnTheDisk'
    BY <1>1, <1>2, <2>1, <2>2 DEF IInv, Listed, OnTheWay, OkMeansOnTheDisk
  <2>6. BuildsOnlyValid' /\ WritesTheChosenDisk'
    BY <1>1, <1>2, <2>1, <2>3 DEF IInv, BuildsOnlyValid, WritesTheChosenDisk
  <2>7. QED
    BY <2>4, <2>5, <2>6 DEF IInv
<1>6. QED
  BY <1>4, <1>5

\* A build starts only from a configuration without errors, and ends with all
\* its files in the image.
LEMMA BuildStep ==
  ASSUME IInv, ClickBuild \/ BuildOk \/ BuildFails \/ Inject
  PROVE  IInv'
<1>0. out \in Images /\ cfg \in Configs
  BY DEF IInv, Typed
<1>1. CASE ClickBuild
  <2>1. /\ cfg' = cfg /\ cfg.keys = keyText /\ Validate(cfg) = {}
        /\ screen = "review" /\ screen' = "building"
        /\ out' = [cfg |-> cfg, files |-> {}] /\ todo' = FilesOf(cfg)
        /\ UNCHANGED <<keyText, base, built, since, attached, drives, gone, sel, chosen, erase,
                       flash, media>>
    BY <1>1, ReviewKeepsConfig DEF ClickBuild, Review, Check, StartBuild, IInv, Checked, disk
  <2>2. flash.pc \notin Written
    BY <2>1 DEF IInv, Screens, Written
  <2>3. out' \in Images /\ todo' \in Seq(FileNames)
    BY <1>0, <2>1, FilesTyped DEF Images
  <2>4. Typed' /\ Screens' /\ Checked' /\ Offered'
    BY <1>0, <2>1, <2>2, <2>3 DEF IInv, Typed, Screens, Checked, Offered
  <2>5. Building' /\ BuildsOnlyValid'
    BY <2>1 DEF Building, BuildsOnlyValid
  <2>6. QED
    BY <2>1, <2>4, <2>5, FlashKept DEF IInv
<1>2. CASE BuildOk
  <2>1. /\ screen = "building" /\ screen' = "review" /\ built' /\ built' \in BOOLEAN
        /\ since' = {} /\ ListDrives /\ sel' = 0 /\ todo = <<>>
        /\ UNCHANGED <<cfg, keyText, base, erase, todo, out, attached, flash, media>>
    BY <1>2 DEF BuildOk, RefreshDrives
  <2>2. flash.pc \notin Written /\ flash.disk = "none"
    BY <2>1 DEF IInv, Screens, Written, Typed, Flashes
  <2>3. drives' \in Seq(Drives) /\ gone' = {} /\ sel' \in 0..Len(drives')
    BY <2>1, ListTyped DEF IInv
  <2>4. Complete /\ cfg.keys = keyText
    <3>1. ToSet(<<>>) = {}
      BY DEF ToSet
    <3>2. QED
      BY <1>0, <2>1, <3>1 DEF Images, IInv, Building, Checked, Complete
  <2>5. Typed' /\ Screens' /\ Checked' /\ Building' /\ Offered' /\ BuildsOnlyValid'
    BY <2>1, <2>2, <2>3, <2>4
    DEF IInv, Typed, Screens, Checked, Building, Offered, Complete, BuildsOnlyValid
  <2>6. QED
    BY <2>1, <2>2, <2>5, FlashKept DEF IInv
<1>3. CASE BuildFails
  <2>1. /\ screen = "building" /\ screen' = "review" /\ todo' = <<>>
        /\ since' = since \cup {"failed"}
        /\ UNCHANGED <<cfg, keyText, base, built, out, attached, drives, gone, sel, chosen,
                       erase, flash, media>>
    BY <1>3 DEF BuildFails, disk
  <2>2. flash.pc \notin Written
    BY <2>1 DEF IInv, Screens, Written
  <2>3. Typed' /\ Screens' /\ Checked' /\ Building' /\ Offered' /\ BuildsOnlyValid'
    BY <2>1, <2>2 DEF IInv, Typed, Screens, Checked, Building, Offered, BuildsOnlyValid
  <2>4. QED
    BY <2>1, <2>3, FlashKept DEF IInv
<1>4. CASE Inject
  <2>1. /\ todo' \in Seq(FileNames) /\ Head(todo) \in FileNames
        /\ ToSet(todo) = {Head(todo)} \cup ToSet(todo')
    BY <1>4, TakeFirst DEF Inject, IInv, Typed
  <2>2. out' \in Images /\ out'.cfg = out.cfg /\ out'.files = out.files \cup {Head(todo)}
    BY <1>0, <1>4, <2>1 DEF Inject, Images
  <2>3. /\ screen \in {"building", "cli build"}
        /\ UNCHANGED <<screen, cfg, keyText, errors, base, built, since, attached, drives, gone,
                       sel, chosen, erase, flash, media>>
    BY <1>4 DEF Inject, gui, disk
  <2>4. out.cfg = cfg /\ Validate(cfg) = {}
    BY <2>3 DEF IInv, Building
  <2>5. Building' /\ BuildsOnlyValid'
    BY <2>1, <2>2, <2>3, <2>4 DEF IInv, Building, BuildsOnlyValid
  <2>6. Typed' /\ Screens' /\ Checked'
    BY <2>1, <2>2, <2>3 DEF IInv, Typed, Screens, Checked
  <2>7. Offered'
    BY <2>2, <2>3 DEF IInv, Screens, Offered
  <2>8. QED
    BY <2>3, <2>5, <2>6, <2>7, FlashKept DEF IInv
<1>5. QED
  BY <1>1, <1>2, <1>3, <1>4

\* The command line builds and writes what it has loaded and checked.
LEMMA CommandLineStep ==
  ASSUME IInv, CommandLine \/ ClickDone
  PROVE  IInv'
<1>0. cfg' \in Configs /\ flash \in Flashes
  BY ConfigTyped DEF Next, Window, IInv, Typed
<1>none. NoFlash \in Flashes /\ NoFlash.pc = "none" /\ NoFlash.path = "none" /\ NoFlash.disk = "none"
  BY DefaultsTyped DEF NoFlash
<1>1. CASE RunCli
  <2>1. /\ screen = "start" /\ ~built /\ sel = 0 /\ flash.pc = "none" /\ flash.path = "none" /\ flash.disk = "none"
    BY <1>0, <1>1 DEF RunCli, IInv, Screens, Written, Flashes
  <2>2. PICK given \in Arguments :
          /\ cfg' = LoadConfig(given) /\ errors' = Validate(cfg')
          /\ IF errors' # {} \/ "--image" \notin given \/ "--dry-run" \in given
             THEN screen' = "exit" /\ UNCHANGED <<todo, out, flash, since>>
             ELSE /\ screen' = "cli build" /\ StartBuild(cfg') /\ since' = {}
                  /\ flash' = IF "--write" \notin given THEN flash
                              ELSE [NoFlash EXCEPT !.pc = "list",
                                      !.verify = "--verify" \in given]
    BY <1>1 DEF RunCli
  <2>3. UNCHANGED <<keyText, base, built, attached, drives, gone, sel, chosen, erase, media>>
    BY <1>1 DEF RunCli, disk
  <2>4. CASE screen' = "exit"
    <3>1. UNCHANGED <<todo, out, flash, since>>
      BY <2>2, <2>4
    <3>2. Typed' /\ Screens' /\ Checked' /\ Building' /\ Offered' /\ BuildsOnlyValid'
      BY <1>0, <2>1, <2>3, <2>4, <3>1
      DEF IInv, Typed, Screens, Written, Checked, Building, Offered, BuildsOnlyValid
    <3>3. QED
      BY <2>3, <3>1, <3>2, FlashKept DEF IInv
  <2>5. CASE screen' # "exit"
    <3>1. /\ screen' = "cli build" /\ since' = {} /\ Validate(cfg') = {}
          /\ todo' = FilesOf(cfg') /\ out' = [cfg |-> cfg', files |-> {}]
      BY <2>2, <2>5 DEF StartBuild
    <3>2. /\ flash' \in Flashes /\ flash'.pc \in {"none", "list"} /\ flash'.path = "none" /\ flash'.disk = "none"
      <4>1. ("--verify" \in given) \in BOOLEAN
        OBVIOUS
      <4> DEFINE listed == [NoFlash EXCEPT !.pc = "list", !.verify = "--verify" \in given]
      <4>2. listed \in Flashes /\ listed.pc = "list" /\ listed.path = "none" /\ listed.disk = "none"
        <5>1. ASSUME NEW v \in BOOLEAN
              PROVE  LET l == [NoFlash EXCEPT !.pc = "list", !.verify = v]
                     IN l \in Flashes /\ l.pc = "list" /\ l.path = "none" /\ l.disk = "none"
          BY <1>none DEF Flashes
        <5>2. QED
          BY <4>1, <5>1, Zenon
      <4>3. flash' = flash \/ flash' = listed
        BY <2>2, <2>5
      <4> HIDE DEF listed
      <4>4. QED
        BY <1>0, <2>1, <4>2, <4>3
    <3>3. out' \in Images /\ todo' \in Seq(FileNames)
      BY <1>0, <3>1, FilesTyped DEF Images
    <3>4. Typed' /\ Screens' /\ Checked' /\ Offered'
      BY <1>0, <2>1, <2>3, <3>1, <3>2, <3>3
      DEF IInv, Typed, Screens, Written, Checked, Offered
    <3>5. Building' /\ BuildsOnlyValid'
      BY <3>1 DEF Building, BuildsOnlyValid
    <3>6. Listed' /\ OnTheWay' /\ OkMeansOnTheDisk' /\ WritesTheChosenDisk'
      BY <2>1, <2>3, <3>2 DEF IInv, Listed, Written, OnTheWay, OkMeansOnTheDisk, WritesTheChosenDisk
    <3>7. QED
      BY <3>4, <3>5, <3>6 DEF IInv
  <2>6. QED
    BY <2>4, <2>5
<1>2. CASE CliBuildOk
  <2>1. /\ screen = "cli build" /\ todo = <<>> /\ ~built /\ sel = 0 /\ since = {}
        /\ flash.pc \notin Written /\ flash.path = "none" /\ flash.disk = "none"
        /\ UNCHANGED <<cfg, keyText, base, built, since, sel, erase, todo, out, attached,
                       media>>
    BY <1>0, <1>2 DEF CliBuildOk, IInv, Screens, Written, Flashes
  <2>2. Complete /\ ToSet(<<>>) = {}
    <3>1. ToSet(<<>>) = {}
      BY DEF ToSet
    <3>2. out \in Images
      BY DEF IInv, Typed
    <3>3. QED
      BY <2>1, <3>1, <3>2 DEF Images, IInv, Building, Complete
  <2>3. /\ drives' \in Seq(Drives) /\ gone' \subseteq Disks /\ sel' \in 0..Len(drives')
        /\ \A d \in ToSet(drives') : d \in attached \/ d.disk \in gone'
    <3>1. CASE UNCHANGED <<drives, gone>>
      BY <2>1, <3>1 DEF IInv, Typed, Listed
    <3>2. CASE ListDrives
      <4>1. drives' \in Seq(Drives) /\ ToSet(drives') \subseteq attached /\ gone' = {}
        BY <3>2, ListTyped DEF IInv
      <4>2. Len(drives') \in Nat
        BY <4>1
      <4>3. sel' = 0
        BY <2>1
      <4>4. \A d \in ToSet(drives') : d \in attached
        BY <4>1
      <4>5. sel' \in 0..Len(drives')
        BY <4>2, <4>3
      <4>6. gone' \subseteq Disks
        BY <4>1
      <4>7. QED
        BY <4>1, <4>4, <4>5, <4>6
    <3>3. QED
      BY <1>2, <3>1, <3>2 DEF CliBuildOk
  <2>4. \/ /\ screen' = "exit" /\ flash' \in {flash, NoFlash}
        \/ /\ screen' = "cli flash" /\ chosen' \in ToSet(drives')
           /\ StartFlash(chosen'.path, flash.verify)
    <3>1. CASE flash.pc = "none"
      BY <1>2, <3>1 DEF CliBuildOk
    <3>2. CASE flash.pc = "list"
      BY <1>2, <3>2 DEF CliBuildOk
    <3>3. QED
      BY <1>2, <3>1, <3>2 DEF CliBuildOk
  <2>5. CASE screen' = "exit" /\ flash' \in {flash, NoFlash}
    <3>1. flash'.pc = "none" /\ flash'.path = "none" /\ flash'.disk = "none"
      <4>1. flash' = NoFlash \/ (flash' = flash /\ flash.pc = "none")
        BY <1>2, <2>1, <2>5 DEF CliBuildOk
      <4>2. QED
        BY <1>none, <2>1, <4>1
    <3>2. Typed' /\ Screens' /\ Checked' /\ Building' /\ Offered' /\ BuildsOnlyValid'
      BY <1>0, <1>none, <2>1, <2>3, <2>5, <3>1
      DEF IInv, Typed, Screens, Written, Checked, Building, Offered, BuildsOnlyValid
    <3>3. Listed' /\ OnTheWay' /\ OkMeansOnTheDisk' /\ WritesTheChosenDisk'
      BY <2>1, <2>3, <3>1
      DEF IInv, Listed, Written, OnTheWay, OkMeansOnTheDisk, WritesTheChosenDisk
    <3>4. QED
      BY <3>2, <3>3 DEF IInv
  <2>6. CASE /\ screen' = "cli flash" /\ chosen' \in ToSet(drives')
             /\ StartFlash(chosen'.path, flash.verify)
    <3>1. /\ flash' \in Flashes /\ flash'.pc = "open" /\ flash'.path = chosen'.path
          /\ flash'.disk = "none" /\ flash'.at = 1 /\ ~flash'.unread
      <4>1. flash.verify \in BOOLEAN /\ NoFlash.at = 1 /\ ~NoFlash.unread
        BY <1>0 DEF Flashes, NoFlash
      <4>2. QED
        <5>1. chosen'.path \in Paths
          <6>1. PICK i \in DOMAIN drives' : chosen' = drives'[i]
            BY <2>6 DEF ToSet
          <6>2. chosen' \in Drives
            BY <2>3, <6>1
          <6>3. QED
            BY <6>2 DEF Drives
        <5>2. QED
          BY <1>none, <2>6, <4>1, <5>1 DEF StartFlash, Flashes
    <3>2. Typed' /\ Screens' /\ Checked' /\ Building' /\ Offered' /\ BuildsOnlyValid'
      BY <1>0, <2>1, <2>2, <2>3, <2>6, <3>1
      DEF IInv, Typed, Screens, Written, Checked, Building, Offered, Complete,
          BuildsOnlyValid
    <3>3. Listed' /\ OnTheWay' /\ OkMeansOnTheDisk' /\ WritesTheChosenDisk'
      BY <2>1, <2>3, <2>6, <3>1
      DEF IInv, Listed, Written, OnTheWay, OkMeansOnTheDisk, WritesTheChosenDisk
    <3>4. QED
      BY <3>2, <3>3 DEF IInv
  <2>7. QED
    BY <2>4, <2>5, <2>6
<1>3. CASE CliBuildFails
  <2>1. /\ screen = "cli build" /\ screen' = "exit" /\ todo' = <<>> /\ since' = {"failed"}
        /\ flash' = NoFlash /\ ~built /\ sel = 0
        /\ UNCHANGED <<cfg, keyText, base, built, out, attached, drives, gone, sel, chosen,
                       erase, media>>
    BY <1>3 DEF CliBuildFails, disk, IInv, Screens
  <2>2. flash'.pc = "none" /\ flash'.path = "none" /\ flash'.disk = "none"
    BY <1>none, <2>1
  <2>3. Typed'
    <3>1. flash' \in Flashes /\ since' \subseteq {"edited", "failed"}
      BY <1>none, <2>1
    <3>2. <<>> \in Seq(FileNames)
      OBVIOUS
    <3>3. QED
      BY <1>0, <2>1, <3>1, <3>2 DEF IInv, Typed
  <2>4. Screens' /\ Checked' /\ Building' /\ Offered' /\ BuildsOnlyValid'
    BY <2>1, <2>2
    DEF IInv, Screens, Written, Checked, Building, Offered, BuildsOnlyValid
  <2>5. Listed' /\ OnTheWay' /\ OkMeansOnTheDisk' /\ WritesTheChosenDisk'
    BY <2>1, <2>2 DEF IInv, Listed, Written, OnTheWay, OkMeansOnTheDisk, WritesTheChosenDisk
  <2>6. QED
    BY <2>3, <2>4, <2>5 DEF IInv
<1>4. CASE CliReports \/ ClickDone
  <2>1. /\ \/ screen = "cli flash" /\ screen' = "exit"
           \/ screen = "flashing" /\ screen' = "done"
        /\ UNCHANGED <<cfg, keyText, base, built, since, todo, out, attached, drives, gone, sel,
                       chosen, erase, flash, media>>
    BY <1>4 DEF CliReports, ClickDone, disk
  <2>2. Typed' /\ Screens' /\ Checked' /\ Building' /\ Offered' /\ BuildsOnlyValid'
    BY <1>0, <2>1
    DEF IInv, Typed, Screens, Written, Checked, Building, Offered, Complete,
        BuildsOnlyValid
  <2>3. QED
    BY <2>1, <2>2, FlashKept DEF IInv
<1>5. QED
  BY <1>1, <1>2, <1>3, <1>4 DEF CommandLine

\* Writing and reading back: what is known of the blocks before at.
LEMMA FlashStep ==
  ASSUME IInv, FlashImage
  PROVE  IInv'
<1> USE InstallerAssumption
<1>1. /\ flash.pc \in {"open", "write", "reopen", "verify"}
      /\ flash.pc # "open" => flash.disk \in Disks
      /\ flash.at \in 1..(Blocks + 1) /\ flash.tries \in 0..Retries
      /\ flash \in Flashes /\ media \in Media /\ ~flash.unread
      /\ flash.verify \in BOOLEAN
  BY DEF FlashImage, OpenDevice, WriteBlock, Sync, OpenToVerify, VerifyBlock,
         ImageUnreadable, Verified, Flashing, IInv, Typed, OnTheWay, Flashes
<1>2. UNCHANGED <<screen, cfg, keyText, base, built, since, todo, out, attached, drives,
                  gone, sel, chosen, erase>>
  BY DEF FlashImage, OpenDevice, WriteBlock, Sync, OpenToVerify, VerifyBlock,
         ImageUnreadable, Verified, Rest, gui, disk
<1>3. ASSUME flash' \in Flashes, media' \in Media, flash'.path = flash.path,
             \/ flash'.disk = flash.disk
             \/ flash'.disk = chosen.disk \/ chosen.disk \in gone,
             flash'.pc \in Written, OnTheWay', OkMeansOnTheDisk'
      PROVE  IInv'
  <2>1. Typed'
    BY <1>2, <1>3 DEF IInv, Typed
  <2>2. Screens' /\ Checked' /\ Building' /\ Offered' /\ BuildsOnlyValid'
    BY <1>1, <1>2, <1>3
    DEF IInv, Screens, Written, Checked, Building, Offered, Complete, BuildsOnlyValid
  <2>3. Listed' /\ WritesTheChosenDisk'
    BY <1>1, <1>2, <1>3 DEF IInv, Listed, Written, WritesTheChosenDisk
  <2>4. QED
    BY <1>3, <2>1, <2>2, <2>3 DEF IInv
<1>4. ASSUME Go("err"), media' \in Media PROVE IInv'
  <2>1. flash' \in Flashes /\ flash'.disk = flash.disk /\ flash'.path = flash.path
        /\ flash'.pc = "err"
    BY <1>1, <1>4 DEF Go, Flashes
  <2>2. OnTheWay' /\ OkMeansOnTheDisk'
    BY <2>1 DEF OnTheWay, OkMeansOnTheDisk
  <2>3. QED
    BY <1>3, <1>4, <2>1, <2>2 DEF Written
<1>5. CASE OpenDevice
  <2>1. media' = media /\ flash.pc = "open"
    BY <1>5 DEF OpenDevice, Flashing
  <2>2. ASSUME NEW d \in attached, d.path = flash.path,
               flash' = [flash EXCEPT !.pc = "write", !.disk = d.disk]
        PROVE  IInv'
    <3>1. d.disk \in Disks
      BY DEF IInv, Typed, Drives
    <3>2. /\ flash' \in Flashes /\ flash'.disk = d.disk /\ flash'.pc = "write"
          /\ flash'.path = flash.path /\ flash'.at = flash.at
          /\ flash'.unread = flash.unread
      BY <1>1, <2>2, <3>1 DEF Flashes
    <3>3. flash.at = 1
      BY <2>1 DEF IInv, OnTheWay
    <3>4. OnTheWay' /\ OkMeansOnTheDisk'
      BY <1>1, <3>1, <3>2, <3>3 DEF OnTheWay, OkMeansOnTheDisk
    <3>5. d.disk = chosen.disk \/ chosen.disk \in gone
      <4>1. chosen \in ToSet(drives) /\ flash.path = chosen.path
        BY <2>1 DEF IInv, Listed, Written
      <4>2. chosen \in attached => d = chosen
        BY <2>2, <4>1 DEF IInv, Listed
      <4>3. QED
        BY <4>1, <4>2 DEF IInv, Listed
    <3>6. QED
      BY <1>1, <1>3, <2>1, <3>2, <3>4, <3>5 DEF Written
  <2>3. QED
    BY <1>1, <1>4, <1>5, <2>1, <2>2 DEF OpenDevice
<1>6. CASE WriteBlock
  <2>1. CASE Go("err") /\ UNCHANGED media
    BY <1>1, <1>4, <2>1
  <2>2. ASSUME NEW b \in {"new", "bad"}, flash.pc = "write", flash.at <= Blocks,
               media' = [media EXCEPT ![flash.disk][flash.at] = b],
               flash' = [flash EXCEPT !.at = @ + 1]
        PROVE  IInv'
    <3>1. /\ flash' \in Flashes /\ flash'.disk = flash.disk /\ flash'.pc = "write"
          /\ flash'.path = flash.path /\ flash'.at = flash.at + 1 /\ flash'.unread = flash.unread
      BY <1>1, <2>2 DEF Flashes
    <3>2. /\ media' \in Media
          /\ \A c \in 1..Blocks :
               media'[flash.disk][c] = IF c = flash.at THEN b ELSE media[flash.disk][c]
      BY <1>1, <2>2 DEF Media
    <3>3. OnTheWay'
      <4>1. ASSUME NEW c \in 1..Blocks, c < flash.at + 1
            PROVE  media'[flash.disk][c] # "old"
        BY <1>1, <2>2, <3>2, <4>1 DEF IInv, OnTheWay
      <4>2. QED
        BY <1>1, <2>2, <3>1, <4>1 DEF OnTheWay
    <3>4. QED
      BY <1>3, <3>1, <3>2, <3>3 DEF Written, OkMeansOnTheDisk
  <2>3. QED
    BY <1>6, <2>1, <2>2 DEF WriteBlock, Flashing
<1>7. CASE Sync
  <2>1. /\ flash.pc = "write" /\ flash.at = Blocks + 1 /\ media' = media
    BY <1>7 DEF Sync, Flashing
  <2>2. \A b \in 1..Blocks : media[flash.disk][b] # "old"
    BY <2>1 DEF IInv, OnTheWay
  <2>3. ASSUME flash' = [flash EXCEPT !.pc = IF flash.verify THEN "reopen" ELSE "ok",
                                      !.at = 1]
        PROVE  IInv'
    <3>1. /\ flash' \in Flashes /\ flash'.disk = flash.disk /\ flash'.at = 1
          /\ flash'.path = flash.path /\ flash'.verify = flash.verify /\ flash'.unread = flash.unread
          /\ flash'.pc = IF flash.verify THEN "reopen" ELSE "ok"
      <4> DEFINE pc == IF flash.verify THEN "reopen" ELSE "ok"
      <4>1. pc \in {"reopen", "ok"} /\ 1 \in 1..(Blocks + 1)
        OBVIOUS
      <4>2. flash' = [flash EXCEPT !.pc = pc, !.at = 1]
        BY <2>3
      <4> HIDE DEF pc
      <4>3. flash' \in Flashes /\ flash'.disk = flash.disk /\ flash'.at = 1
            /\ flash'.path = flash.path /\ flash'.verify = flash.verify /\ flash'.unread = flash.unread
            /\ flash'.pc = pc
        BY <1>1, <4>1, <4>2 DEF Flashes
      <4>4. QED
        BY <4>3 DEF pc
    <3>2. CASE flash.verify
      BY <1>1, <1>3, <2>1, <2>2, <3>1, <3>2 DEF Written, OnTheWay, OkMeansOnTheDisk
    <3>3. CASE ~flash.verify
      BY <1>1, <1>3, <2>1, <2>2, <3>1, <3>3 DEF Written, OnTheWay, OkMeansOnTheDisk
    <3>4. QED
      BY <3>2, <3>3
  <2>4. QED
    BY <1>1, <1>4, <1>7, <2>1, <2>3 DEF Sync
<1>reopen. CASE OpenToVerify
  <2>1. flash.pc = "reopen" /\ media' = media
    BY <1>reopen DEF OpenToVerify, Flashing
  <2>2. ASSUME NEW d \in attached,
               flash' = [flash EXCEPT !.pc = "verify", !.back = d.disk]
        PROVE  IInv'
    <3>1. /\ flash' \in Flashes /\ flash'.disk = flash.disk /\ flash'.pc = "verify"
          /\ flash'.path = flash.path /\ flash'.at = flash.at
          /\ flash'.verify = flash.verify /\ flash'.unread = flash.unread
      <4>1. d.disk \in Disks
        BY DEF IInv, Typed, Drives
      <4>2. QED
        BY <1>1, <2>2, <4>1 DEF Flashes
    <3>2. /\ flash.verify /\ flash.at = 1
          /\ \A b \in 1..Blocks : media[flash.disk][b] # "old"
      BY <2>1 DEF IInv, OnTheWay
    <3>3. OnTheWay' /\ OkMeansOnTheDisk'
      BY <1>1, <2>1, <3>1, <3>2 DEF OnTheWay, OkMeansOnTheDisk
    <3>4. QED
      BY <1>1, <1>3, <2>1, <3>1, <3>3 DEF Written
  <2>3. QED
    BY <1>1, <1>4, <1>reopen, <2>1, <2>2 DEF OpenToVerify
<1>8. CASE VerifyBlock
  <2>1. /\ flash.pc = "verify" /\ flash.at <= Blocks /\ media' = media /\ flash.verify
        /\ \A b \in 1..Blocks : media[flash.disk][b] # "old"
        /\ flash.back = flash.disk =>
             \A b \in 1..Blocks : b < flash.at => media[flash.disk][b] = "new"
    BY <1>8 DEF VerifyBlock, Flashing, IInv, OnTheWay
  <2>2. PICK seen \in ReadBack :
          flash' = IF seen = "new" THEN [flash EXCEPT !.at = @ + 1, !.tries = 0]
                   ELSE IF flash.tries < Retries THEN [flash EXCEPT !.tries = @ + 1]
                   ELSE [flash EXCEPT !.pc = "err"]
    BY <1>8 DEF VerifyBlock
  <2>3. CASE seen = "new"
    <3>1. /\ flash' \in Flashes /\ flash'.disk = flash.disk /\ flash'.pc = "verify"
          /\ flash'.path = flash.path /\ flash'.back = flash.back
          /\ flash'.at = flash.at + 1 /\ flash'.verify = flash.verify
          /\ flash'.unread = flash.unread
      <4>1. flash' = [flash EXCEPT !.at = flash.at + 1, !.tries = 0]
        BY <2>2, <2>3
      <4>2. flash.at + 1 \in 1..(Blocks + 1) /\ 0 \in 0..Retries
        BY <1>1, <2>1
      <4>3. QED
        BY <1>1, <2>1, <4>1, <4>2 DEF Flashes
    <3>2. flash.back = flash.disk => media[flash.disk][flash.at] = "new"
      BY <2>3 DEF ReadBack
    <3>3. OnTheWay' /\ OkMeansOnTheDisk'
      <4>1. ASSUME NEW b \in 1..Blocks, b < flash.at + 1, flash.back = flash.disk
            PROVE  media[flash.disk][b] = "new"
        BY <1>1, <2>1, <3>2, <4>1
      <4>2. QED
        BY <1>1, <2>1, <3>1, <4>1 DEF OnTheWay, OkMeansOnTheDisk
    <3>4. QED
      BY <1>1, <1>3, <2>1, <3>1, <3>3 DEF Written
  <2>4. CASE seen # "new" /\ flash.tries < Retries
    <3>1. /\ flash' \in Flashes /\ flash'.disk = flash.disk /\ flash'.pc = "verify"
          /\ flash'.path = flash.path /\ flash'.back = flash.back
          /\ flash'.at = flash.at /\ flash'.verify = flash.verify
          /\ flash'.unread = flash.unread
      <4>1. flash' = [flash EXCEPT !.tries = @ + 1] /\ flash.tries + 1 \in 0..Retries
        BY <1>1, <2>2, <2>4
      <4>2. QED
        BY <1>1, <2>1, <4>1 DEF Flashes
    <3>2. OnTheWay' /\ OkMeansOnTheDisk'
      BY <1>1, <2>1, <3>1 DEF OnTheWay, OkMeansOnTheDisk
    <3>3. QED
      BY <1>1, <1>3, <2>1, <3>1, <3>2 DEF Written
  <2>5. CASE seen # "new" /\ ~(flash.tries < Retries)
    BY <1>1, <1>4, <2>1, <2>2, <2>5 DEF Go
  <2>6. QED
    BY <2>3, <2>4, <2>5
<1>9. CASE ImageUnreadable \/ Verified
  <2>1. /\ flash.pc = "verify" /\ media' = media
        /\ \A b \in 1..Blocks : media[flash.disk][b] # "old"
        /\ flash.back = flash.disk =>
             \A b \in 1..Blocks : b < flash.at => media[flash.disk][b] = "new"
    BY <1>9 DEF ImageUnreadable, Verified, Flashing, IInv, OnTheWay
  <2>2. /\ flash' \in Flashes /\ flash'.disk = flash.disk /\ flash'.pc = "ok"
        /\ flash'.path = flash.path /\ flash'.back = flash.back
        /\ flash'.at = flash.at /\ (flash'.unread \/ flash.at = Blocks + 1)
    BY <1>1, <1>9 DEF ImageUnreadable, Verified, Go, Flashes
  <2>3. OnTheWay' /\ OkMeansOnTheDisk'
    BY <1>1, <2>1, <2>2 DEF OnTheWay, OkMeansOnTheDisk
  <2>4. QED
    BY <1>1, <1>3, <2>1, <2>2, <2>3 DEF Written
<1>10. QED
  BY <1>5, <1>6, <1>7, <1>reopen, <1>8, <1>9 DEF FlashImage

\* A disk comes or goes, or the process ends.
LEMMA EnvironmentStep ==
  ASSUME IInv, Plug \/ Unplug \/ Quit
  PROVE  IInv'
<1>0. flash \in Flashes /\ media \in Media /\ attached \subseteq Drives
      /\ IsFiniteSet(attached) /\ gone \subseteq Disks
  BY DEF IInv, Typed
<1>1. CASE Plug
  <2>1. PICK d \in Drives : /\ \A e \in attached : e.path # d.path
                            /\ attached' = attached \cup {d}
    BY <1>1 DEF Plug
  <2>2. UNCHANGED <<screen, cfg, keyText, base, built, since, todo, out, drives, gone, sel,
                    chosen, erase, flash, media>>
    BY <1>1 DEF Plug, gui, disk
  <2>3. attached' \subseteq Drives /\ IsFiniteSet(attached')
    BY <1>0, <2>1, FS_AddElement
  <2>4. Typed' /\ Screens' /\ Checked' /\ Building' /\ Offered' /\ BuildsOnlyValid'
    BY <2>2, <2>3 DEF IInv, Typed, Screens, Checked, Building, Offered, Complete,
                      BuildsOnlyValid
  <2>5. Listed'
    BY <2>1, <2>2 DEF IInv, Listed
  <2>6. OnTheWay' /\ OkMeansOnTheDisk' /\ WritesTheChosenDisk'
    BY <2>2 DEF IInv, OnTheWay, OkMeansOnTheDisk, WritesTheChosenDisk
  <2>7. QED
    BY <2>4, <2>5, <2>6 DEF IInv
<1>unplug. CASE Unplug
  <2>1. PICK d \in attached :
          /\ attached' = attached \ {d}
          /\ gone' = gone \cup {e.disk : e \in ToSet(drives) \cap {d}}
          /\ flash' = IF flash.pc = "write" /\ flash.disk = d.disk
                      THEN [flash EXCEPT !.pc = "err"] ELSE flash
    BY <1>unplug DEF Unplug
  <2>2. UNCHANGED <<screen, cfg, keyText, base, built, since, todo, out, drives, sel,
                    chosen, erase, media>>
    BY <1>unplug DEF Unplug, gui
  <2>3. attached' \subseteq Drives /\ IsFiniteSet(attached') /\ gone' \subseteq Disks
        /\ gone \subseteq gone' /\ (d \in ToSet(drives) => d.disk \in gone')
    BY <1>0, <2>1, FS_RemoveElement DEF Drives
  <2>4. /\ flash' \in Flashes /\ flash'.path = flash.path /\ flash'.disk = flash.disk
        /\ flash' = flash \/ (flash.pc = "write" /\ flash'.pc = "err")
    BY <1>0, <2>1 DEF Flashes
  <2>5. Typed' /\ Screens' /\ Checked' /\ Building' /\ Offered' /\ BuildsOnlyValid'
    BY <2>2, <2>3, <2>4
    DEF IInv, Typed, Screens, Written, Checked, Building, Offered, Complete,
        BuildsOnlyValid
  <2>6. Listed'
    BY <2>1, <2>2, <2>3, <2>4 DEF IInv, Listed, Written
  <2>7. OnTheWay' /\ OkMeansOnTheDisk'
    BY <2>2, <2>4 DEF IInv, OnTheWay, OkMeansOnTheDisk
  <2>8. WritesTheChosenDisk'
    BY <2>2, <2>3, <2>4 DEF IInv, WritesTheChosenDisk
  <2>9. QED
    BY <2>5, <2>6, <2>7, <2>8 DEF IInv
<1>2. CASE Quit
  <2>1. /\ screen' = "start" /\ cfg' = WindowDefault /\ keyText' = "none"
        /\ base' = FALSE /\ built' = FALSE /\ since' = {} /\ todo' = <<>>
        /\ drives' = <<>> /\ gone' = {} /\ sel' = 0 /\ erase' = FALSE
        /\ media' = [d \in Disks |-> [b \in 1..Blocks |-> "old"]]
        /\ UNCHANGED <<out, attached>>
    BY <1>2 DEF Quit
  <2>2. flash' \in Flashes /\ flash'.pc = "none" /\ flash'.path = "none"
        /\ flash'.disk = "none"
    BY <1>2, DefaultsTyped DEF Quit, NoFlash
  <2>3. <<>> \in Seq(FileNames) /\ <<>> \in Seq(Drives) /\ 0 \in 0..Len(<<>>)
    OBVIOUS
  <2>4. Typed'
    BY <2>1, <2>2, <2>3, DefaultsTyped DEF IInv, Typed
  <2>5. Screens' /\ Checked' /\ Building' /\ Offered' /\ BuildsOnlyValid'
    BY <2>1, <2>2 DEF IInv, Screens, Written, Checked, Building, Offered, BuildsOnlyValid
  <2>6. Listed' /\ OnTheWay' /\ OkMeansOnTheDisk' /\ WritesTheChosenDisk'
    BY <2>1, <2>2 DEF IInv, Listed, ToSet, Written, OnTheWay, OkMeansOnTheDisk,
                      WritesTheChosenDisk
  <2>7. QED
    BY <2>4, <2>5, <2>6 DEF IInv
<1>3. QED
  BY <1>1, <1>unplug, <1>2

\* The invariant, in every state.
LEMMA Invariance == Spec => []IInv
<1>1. ASSUME IInv, Next PROVE IInv'
  BY <1>1, EditingStep, ReviewStep, BuildStep, CommandLineStep, FlashStep, EnvironmentStep
  DEF Next, Window, CommandLine
<1>2. ASSUME IInv, UNCHANGED vars PROVE IInv'
  <2>1. UNCHANGED <<screen, cfg, keyText, base, built, since, todo, out, attached, drives, gone,
                    sel, chosen, erase, flash, media>>
    BY <1>2 DEF vars, gui, disk
  <2>2. Typed' /\ Screens' /\ Checked' /\ Building' /\ Offered' /\ BuildsOnlyValid'
    BY <1>2, <2>1 DEF IInv, Typed, Screens, Checked, Building, Offered, Complete,
                      BuildsOnlyValid
  <2>3. QED
    BY <1>2, <2>1, <2>2, FlashKept DEF IInv
<1>3. QED
  BY <1>1, <1>2, InitInv, PTL DEF Spec

\* Every state is well typed: no position or counter of the installer leaves
\* its range (the drive selected is always one of the list shown).
THEOREM StatesAreTyped == Spec => []TypeOK
<1>1. IInv => TypeOK
  BY DEF IInv, Typed, Configs, Keys, Flashes, Media, TypeOK
<1>2. QED
  BY <1>1, Invariance, PTL

\* No sequence of edits, clicks and command lines assembles an image from a
\* configuration with errors (gui.rs validates when the review is drawn, before
\* the build is clicked; cli.rs before it builds).
THEOREM OnlyValidIsBuilt == Spec => []BuildsOnlyValid
<1>1. QED
  BY Invariance, PTL DEF IInv

\* What a drive is given is the whole image of the configuration shown, unless
\* it was edited or its rebuild failed since the image offered was built.
THEOREM TheImageShownIsFlashed == Spec => []FlashesWhatIsShown
<1>1. IInv => FlashesWhatIsShown
  <2> SUFFICES ASSUME IInv, flash.pc \notin {"none", "list"}, screen # "exit", since = {}
               PROVE  Complete
    BY DEF FlashesWhatIsShown, Complete
  <2>1. flash.pc \in Written
    BY DEF IInv, Typed, Flashes, Written
  <2>2. QED
    BY <2>1 DEF IInv, Screens, Offered
<1>2. QED
  BY <1>1, Invariance, PTL

\* However disks come and go between the list and the click, the disk written
\* is the one that was shown when it was chosen.
THEOREM TheChosenDiskIsWritten == Spec => []WritesTheChosenDisk
<1>1. QED
  BY Invariance, PTL DEF IInv

\* A flash reported as done has every block on the disk, and with verification
\* every block was read back as the image has it, for any size of the image and
\* any number of retries (flash.rs).
THEOREM ReportedFlashIsOnDisk == Spec => []OkMeansOnTheDisk
<1>1. QED
  BY Invariance, PTL DEF IInv

=============================================================================
