---------------------------- MODULE MCInstaller ----------------------------
(* Command lines of every outcome; configurations and disks one at a time.  *)
EXTENDS Installer

MCArguments == {
  {"--config", "--image"},                          \* no way in
  {"--ssh-key", "--target", "--static-ip", "--image"},  \* a key, but SSH is off
  {"--admin-password", "--target", "--image"},      \* no address
  {"--config", "--admin-password"},                 \* no base image
  {"--config", "--admin-password", "--image", "--dry-run"},
  {"--config", "--serial-console", "--ssh-key blank", "--image"},
  {"--admin-password", "--static-ip", "--target", "--wifi", "--image", "--write"},
  {"--config", "--admin-password", "--image", "--write", "--verify"}}

\* A drive is written and several disks come and go with the window filled in
\* one way, or as the command line says.  Until the device is opened, and with
\* one disk, the configuration is any.
FilledIn == [WindowDefault EXCEPT !.password = "good", !.bad = {}]
Scope ==
  \/ /\ cfg = FilledIn /\ keyText = "none"
     /\ out.cfg \in {Default, FilledIn} \/ screen = "cli build"
  \/ screen \in {"cli build", "cli flash"}
  \/ /\ attached \subseteq {[path |-> "sda", disk |-> "card"]} /\ gone = {}
     /\ flash.disk = "none"
=============================================================================
