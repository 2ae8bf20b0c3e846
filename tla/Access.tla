------------------------------- MODULE Access -------------------------------
(***************************************************************************)
(* Accounts and the ways in: provisioning at the start of the engine       *)
(* (provision.rs), users, sessions and the settings that decide who can    *)
(* reach the login (auth.rs, admin.rs, main.rs) with the store in memory   *)
(* and in markos.json, restarts, and the factory reset                     *)
(* (S02markos-recovery).                                                   *)
(*                                                                         *)
(* How markos.json is written is StorePersist's subject.  What is kept     *)
(* here is that saves overlap, may fail, and may leave a document that     *)
(* cannot be read when one renames the file another is still writing.      *)
(***************************************************************************)
EXTENDS Naturals, FiniteSets

CONSTANTS
  Users,       \* user names
  First,       \* MARKOS_ADMIN_USER of provision.env
  Browsers,    \* cookie jars, and the requests they have under way
  Nets,        \* bound: the server settings an admin may ask for
  TTL,         \* SESSION_TTL in ticks
  LoginTicks   \* bound: ticks a login may take

\* ServerConfig: the allow list lets some host in; some address for the web UI
\* can be bound.
Settings == [lets : BOOLEAN, binds : BOOLEAN]

ASSUME AccessAssumption ==
  First \in Users /\ Nets \subseteq Settings /\ TTL \in Nat /\ LoginTicks \in Nat

Forgot == TTL + LoginTicks + 1           \* longer ago than that is the same

VARIABLES
  role,       \* Store.users in memory
  saved,      \* and in markos.json
  net,        \* Store.engine.server in memory
  savedNet,   \* and in markos.json
  whole,      \* markos.json can be read
  env,        \* /boot/markos/provision.env is there
  boot,       \* where run_provisioning is; then "serving", or "deaf" without a
              \* listener for the web UI; "down" if the store cannot be read
  created,    \* its account is in markos.json by now (history)
  session,    \* Sessions, by browser: user, role at login, age
  request,    \* what a browser's request has under way
  lastAdmin,  \* ticks since a user was an admin (history)
  demoted     \* add_user took the role from the last admin (history)

history == <<lastAdmin, demoted>>
disk == <<saved, savedNet, whole>>
vars == <<role, net, disk, env, boot, created, session, request, history>>

None == [user |-> First, role |-> "none", age |-> 0]
NoRequest == [step |-> "none", login |-> None]
Nobody == [u \in Users |-> "none"]
Default == [lets |-> TRUE, binds |-> TRUE]
Admins(r) == {u \in Users : r[u] = "admin"}

\* A change of roles; the histories follow it.
SetRole(r, byAddUser) ==
  /\ role' = r
  /\ lastAdmin' = [u \in Users |-> IF r[u] = "admin" THEN 0 ELSE lastAdmin[u]]
  /\ demoted' = (Admins(r) = {} /\ (demoted \/ byAddUser))

Init ==
  /\ role = Nobody /\ saved = Nobody /\ env = TRUE /\ boot = "start"
  /\ net = Default /\ savedNet = Default /\ whole = TRUE
  /\ created = FALSE /\ session = [b \in Browsers |-> None]
  /\ request = [b \in Browsers |-> NoRequest]
  /\ lastAdmin = [u \in Users |-> Forgot] /\ demoted = FALSE

\* The process ends: requests and sessions are gone.
Forget ==
  /\ created' = FALSE /\ session' = [b \in Browsers |-> None]
  /\ request' = [b \in Browsers |-> NoRequest]

\* It starts again with what is on disk.
StartWith(roles, settings) ==
  /\ SetRole(roles, FALSE) /\ net' = settings /\ boot' = "start" /\ Forget

Restart == whole /\ StartWith(saved, savedNet) /\ UNCHANGED <<disk, env>>

\* EngineCtx::open cannot parse the store: the process ends at once, each time
\* the supervisor starts it.
StartFails ==
  /\ ~whole /\ SetRole(Nobody, FALSE) /\ net' = Default /\ boot' = "down" /\ Forget
  /\ UNCHANGED <<disk, env>>

\* The reset wipes /data/state.  What it restores there is a copy of
\* provision.env that the engine does not read.  A reset that is cut short
\* leaves the accounts as they were, which is Restart, or none.
FactoryReset ==
  /\ StartWith(Nobody, Default)
  /\ saved' = Nobody /\ savedNet' = Default /\ whole' = TRUE /\ UNCHANGED env

-----------------------------------------------------------------------------
\* main goes on: no address of the list can be bound, and nothing adds one.
Listen == boot' = IF net.binds THEN "serving" ELSE "deaf"

\* run_provisioning.  It may refuse the account (a short password), and the
\* persist may fail; both are notes in its summary.

Provision ==
  /\ boot = "start"
  /\ IF ~env \/ \E u \in Users : role[u] # "none"
     THEN Listen /\ UNCHANGED <<role, history>>
     ELSE /\ boot' = "persist"
          /\ \/ SetRole([role EXCEPT ![First] = "admin"], FALSE)
             \/ UNCHANGED <<role, history>>
  /\ UNCHANGED <<net, disk, env, created, session, request>>

\* Nobody else saves yet.
ProvisionPersist ==
  /\ boot = "persist" /\ boot' = "mark"
  /\ saved' \in {saved, role} /\ created' = (Admins(saved') # {})
  /\ UNCHANGED <<role, net, savedNet, whole, env, session, request, history>>

\* Fault: the file is renamed before the account is saved.
MarkEarly ==
  /\ boot \in {"persist", "mark"} /\ env' \in {env, FALSE}
  /\ IF boot = "mark" THEN Listen ELSE UNCHANGED boot
  /\ created' = FALSE
  /\ UNCHANGED <<role, net, disk, session, request, history>>

\* The rename to provision.done fails while /boot is mounted read-only.
ProvisionMark ==
  /\ boot = "mark" /\ Listen /\ env' \in {env, FALSE} /\ created' = FALSE
  /\ UNCHANGED <<role, net, disk, session, request, history>>

-----------------------------------------------------------------------------
\* login: the user is cloned under the read lock, the password is verified and
\* the session is created without it.

\* A request gets as far as a handler: ip_allowed asks the list in memory.
Received(b) == boot = "serving" /\ net.lets /\ request[b].step = "none"

LoginRead(b, u) ==
  /\ Received(b) /\ role[u] # "none"
  /\ request' = [request EXCEPT
       ![b] = [step |-> "verify", login |-> [user |-> u, role |-> role[u], age |-> 0]]]
  /\ UNCHANGED <<role, net, disk, env, boot, created, session, history>>

\* A wrong password ends in 401.
LoginEnd(b) ==
  /\ request[b].step = "verify" /\ request' = [request EXCEPT ![b] = NoRequest]
  /\ session' \in {session,
                   [session EXCEPT ![b] = [request[b].login EXCEPT !.age = 0]]}
  /\ UNCHANGED <<role, net, disk, env, boot, created, history>>

\* Sessions::get: a session older than the TTL is removed when it is looked up.
\* Fault: its age is not looked at.
ValidForever(b) == session[b].role # "none"
Valid(b) == session[b].role # "none" /\ session[b].age <= TTL

Drop(b) ==   \* logout, or a request with an old session
  /\ Received(b) /\ session[b].role # "none"
  /\ session' = [session EXCEPT ![b] = None]
  /\ UNCHANGED <<role, net, disk, env, boot, created, request, history>>

\* require_admin looks at the role the session was created with.
AdminCalls(b) == Received(b) /\ Valid(b) /\ session[b].role = "admin"

\* The write lock is to be had: no save holds the read lock.
Writable == \A b \in Browsers : request[b].step # "save"

\* The lock is given back, and the change is to be saved.
ToSave(b) == request' = [request EXCEPT ![b].step = "persist"]

\* ensure_user: creates the user, or replaces password and role.
AddUser(b, u, r) ==
  /\ AdminCalls(b) /\ Writable /\ SetRole([role EXCEPT ![u] = r], TRUE) /\ ToSave(b)
  /\ UNCHANGED <<net, disk, env, boot, created, session>>

\* Fault: the last admin may go.
DeleteAnyUser(b, u) ==
  /\ AdminCalls(b) /\ Writable /\ role[u] # "none"
  /\ SetRole([role EXCEPT ![u] = "none"], FALSE) /\ ToSave(b)
  /\ UNCHANGED <<net, disk, env, boot, created, session>>

DeleteUser(b, u) ==
  /\ AdminCalls(b) /\ Writable /\ role[u] # "none" /\ Admins(role) # {u}
  /\ SetRole([role EXCEPT ![u] = "none"], FALSE) /\ ToSave(b)
  /\ UNCHANGED <<net, disk, env, boot, created, session>>

\* update_server_config: the allow list counts from now on, the addresses from
\* the next start.  An error found after the addresses were set leaves them to
\* whoever saves next.
SetServer(b, n) ==
  /\ AdminCalls(b) /\ Writable
  /\ \/ net' = n /\ ToSave(b)
     \/ net' = [net EXCEPT !.binds = n.binds] /\ UNCHANGED request
  /\ UNCHANGED <<role, disk, env, boot, created, session, history>>

\* persist takes the read lock, which others may hold as well.
Persist(b) ==
  /\ request[b].step = "persist"
  /\ request' = [request EXCEPT ![b].step = "save"]
  /\ UNCHANGED <<role, net, disk, env, boot, created, session, history>>

Overlaps(b) == \E c \in Browsers \ {b} : request[c].step = "save"

\* Store::save: what is in memory is in markos.json, or the client gets 500.  A
\* saver that shares the temporary file with another renames it while the other
\* is still writing to it.
Save(b) ==
  /\ request[b].step = "save"
  /\ request' = [request EXCEPT ![b].step = "none"]
  /\ \/ saved' = role /\ savedNet' = net /\ whole' \in {TRUE, ~Overlaps(b)}
     \/ UNCHANGED disk
  /\ UNCHANGED <<role, net, env, boot, created, session, history>>

Tick ==
  /\ \A b \in Browsers :
       request[b].step = "verify" => request[b].login.age < LoginTicks
  /\ LET Older(s) == [s EXCEPT !.age = IF @ > TTL THEN @ ELSE @ + 1]
     IN /\ session' = [b \in Browsers |-> IF session[b] = None THEN None
                                         ELSE Older(session[b])]
        /\ request' = [b \in Browsers |->
                         IF request[b].step = "verify"
                         THEN [request[b] EXCEPT !.login.age = @ + 1]
                         ELSE request[b]]
  /\ lastAdmin' = [u \in Users |-> IF role[u] = "admin" THEN 0
                                  ELSE IF lastAdmin[u] >= Forgot THEN Forgot
                                  ELSE lastAdmin[u] + 1]
  /\ UNCHANGED <<role, net, disk, env, boot, created, demoted>>

Next ==
  \/ Restart \/ StartFails \/ FactoryReset \/ Provision \/ ProvisionPersist \/ ProvisionMark
  \/ Tick
  \/ \E b \in Browsers :
       \/ LoginEnd(b) \/ Drop(b) \/ Persist(b) \/ Save(b)
       \/ \E u \in Users : LoginRead(b, u) \/ DeleteUser(b, u)
                           \/ AddUser(b, u, "viewer") \/ AddUser(b, u, "admin")
       \/ \E n \in Nets : SetServer(b, n)

Spec == Init /\ [][Next]_vars

-----------------------------------------------------------------------------
Reachable(n) == n.lets /\ n.binds

\* Somebody can log in as an admin after the next start of the engine: it can
\* read its store, some host reaches the login, and an admin is in markos.json
\* or provision.env is still to be used.
WayIn ==
  /\ whole /\ Reachable(savedNet)
  /\ Admins(saved) # {} \/ (env /\ saved = Nobody)

\* That is lost in five ways only, and by no other crash or order of handlers,
\* and never by delete_user: the account was refused or not saved and the file
\* was marked done all the same; an admin saved a demotion of the last one with
\* add_user, or settings that keep every host out; two saves overlapped, so
\* that what the process reads if it ends now is torn (StorePersist); a factory
\* reset finds the file used up.
WayInLostOnlyBy ==
  [][WayIn /\ ~WayIn' =>
       \/ boot = "mark" /\ ~created
       \/ boot = "serving" /\ (demoted \/ ~Reachable(net))
       \/ ~whole' /\ \E b \in Browsers : request[b].step = "save" /\ Overlaps(b)
       \/ saved' = Nobody /\ boot' = "start" /\ ~env]_vars

\* "The engine always binds the web UI additionally on" the rescue address
\* (docs/recovery.md:9): an engine that is up listens for the web UI.
RescueIsBound == boot # "deaf"

\* Sessions keep the role they were created with (auth.rs:59-68): a user who is
\* no longer an admin can act as one for the life of a session, and the time of
\* a login that was under way, but no longer.
StaleRoleBounded ==
  \A b \in Browsers : AdminCalls(b) =>
    lastAdmin[session[b].user] <= TTL + LoginTicks
=============================================================================
