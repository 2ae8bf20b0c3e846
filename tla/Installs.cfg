\* Edits of the password, the SSH and DHCP switches, two fields and the keys in
\* every order and every outcome of a command line, with one disk; three disks,
\* one of them too small, that come and go under two paths while one of them is
\* written, with one re-read of a block that differs.
CONSTANTS
  Fields = {"boot_media", "network.ip"}
  Passwords = {"none", "good"}
  Switches = {"enabled", "dhcp"}
  Arguments <- MCArguments
  Paths = {"sda", "sdb"}
  Disks = {"card", "stick", "ssd"}
  Small = {"stick"}
  Sizeless = {"stick"}
  Blocks = 2
  Retries = 1
SPECIFICATION Spec
CONSTRAINT Scope
INVARIANTS
  TypeOK
  BuildsOnlyValid
  FlashesWhatIsShown
  WritesTheChosenDisk
  OkMeansOnTheDisk
CHECK_DEADLOCK FALSE
