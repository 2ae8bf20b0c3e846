---------------------------- MODULE AccessProofs ----------------------------
(***************************************************************************)
(* Theorems about Access, for every set of users and browsers and every    *)
(* life of a session.                                                      *)
(*                                                                         *)
(* Neither property follows from the step that could break it: whether a   *)
(* stale role is still in use depends on logins that began earlier, and    *)
(* whether a save loses the last admin on how the roles in memory came     *)
(* about.  StaleLogins and StaleSessions carry the first, StartUp and      *)
(* NoAdminsNoCalls the second.                                             *)
(***************************************************************************)
EXTENDS Access, TLAPS

Roles == {"none", "viewer", "admin"}
Steps == {"none", "verify", "persist", "save"}
Sessions == [user : Users, role : Roles, age : Nat]

Typed ==
  /\ role \in [Users -> Roles]
  /\ saved \in [Users -> Roles]
  /\ net \in Settings /\ savedNet \in Settings /\ whole \in BOOLEAN
  /\ env \in BOOLEAN
  /\ boot \in {"start", "persist", "mark", "serving", "deaf", "down"}
  /\ created \in BOOLEAN
  /\ session \in [Browsers -> Sessions]
  /\ request \in [Browsers -> [step : Steps, login : Sessions]]
  /\ lastAdmin \in [Users -> Nat]
  /\ demoted \in BOOLEAN

\* The history tells who is an admin now.
AdminsAreRecent == \A u \in Users : role[u] = "admin" => lastAdmin[u] = 0

\* A login that is under way holds a role that was true when it began.
StaleLogins ==
  \A b \in Browsers : request[b].step = "verify" =>
    /\ request[b].login.age <= LoginTicks
    /\ request[b].login.role = "admin" =>
         lastAdmin[request[b].login.user] <= request[b].login.age

\* A session that is accepted holds a role that was true when its login began.
StaleSessions ==
  \A b \in Browsers : session[b].role = "admin" /\ session[b].age <= TTL =>
    lastAdmin[session[b].user] <= session[b].age + LoginTicks

\* Until the engine serves, the roles in memory are what provisioning made of
\* an empty store, the settings are those on disk, and no handler is under way.
StartUp ==
  /\ boot # "serving" => \A b \in Browsers : request[b].step = "none"
  /\ boot \in {"start", "persist", "mark"} => net = savedNet
  /\ boot = "persist" => env /\ (Admins(role) # {} \/ role = Nobody)
  /\ boot = "mark" /\ created => Admins(saved) # {}

\* If there is no admin, and none was demoted, nobody can act as one.
NoAdminsNoCalls ==
  Admins(role) = {} /\ ~demoted =>
    \A b \in Browsers :
      /\ session[b].role # "admin"
      /\ request[b].step = "verify" => request[b].login.role # "admin"
      /\ request[b].step \in {"none", "verify"}

IInv == /\ Typed /\ AdminsAreRecent /\ StaleLogins /\ StaleSessions
        /\ StartUp /\ NoAdminsNoCalls

\* The first state.
LEMMA InitInv == Init => IInv
<1> SUFFICES ASSUME Init PROVE IInv
  OBVIOUS
<1> USE AccessAssumption DEF Init
<1>1. Typed
  <2>1. /\ None \in Sessions
        /\ NoRequest \in [step : Steps, login : Sessions]
    BY DEF None, NoRequest, Roles, Sessions, Steps
  <2>2. Nobody \in [Users -> Roles] /\ Default \in Settings /\ Forgot \in Nat
    BY DEF Nobody, Roles, Forgot, Default, Settings
  <2>3. QED
    BY <2>1, <2>2 DEF Typed
<1>2. AdminsAreRecent /\ StaleLogins /\ StaleSessions
  BY DEF AdminsAreRecent, StaleLogins, StaleSessions, None, NoRequest, Nobody
<1>3. StartUp /\ NoAdminsNoCalls
  BY DEF StartUp, NoAdminsNoCalls, None, NoRequest, Nobody
<1>4. QED
  BY <1>1, <1>2, <1>3 DEF IInv

-----------------------------------------------------------------------------
(* Each part of the invariant, step by step.                               *)

\* Every variable keeps its kind.
LEMMA TypedStep ==
  ASSUME Typed, [Next]_vars
  PROVE  Typed'
<1> USE AccessAssumption DEF Typed, Roles, Sessions, Steps, disk
<1> DEFINE Kind(r) == r \in [Users -> Roles]
<1>1. ASSUME NEW r, Kind(r), NEW by \in BOOLEAN, SetRole(r, by)
      PROVE  /\ role' \in [Users -> Roles]
             /\ lastAdmin' \in [Users -> Nat]
             /\ demoted' \in BOOLEAN
  BY <1>1 DEF SetRole
<1>2. None \in Sessions /\ NoRequest \in [step : Steps, login : Sessions]
  BY DEF None, NoRequest
<1>3. Kind(Nobody) /\ Default \in Settings
  BY DEF Nobody, Default, Settings
<1>4. ASSUME NEW r, Kind(r), SetRole(r, FALSE), Forget, boot' \in {"start", "down"},
             net' \in Settings, saved' \in [Users -> Roles], savedNet' \in Settings,
             whole' \in BOOLEAN, env' \in BOOLEAN
      PROVE  Typed'
  BY <1>1, <1>2, <1>4 DEF Forget
<1>5. CASE Restart \/ StartFails
  BY <1>3, <1>4, <1>5 DEF Restart, StartFails, StartWith
<1>6. CASE FactoryReset
  BY <1>3, <1>4, <1>6 DEF FactoryReset, StartWith
<1>7. CASE Provision
  BY <1>1, <1>7 DEF Provision, Listen, history
<1>8. CASE ProvisionPersist
  BY <1>8 DEF ProvisionPersist, history
<1>9. CASE ProvisionMark
  BY <1>9 DEF ProvisionMark, Listen, history
<1>10. CASE Tick
  <2> DEFINE Requests == [step : Steps, login : Sessions]
  <2>1. session' \in [Browsers -> Sessions]
    <3>1. ASSUME NEW s \in Sessions
          PROVE  [s EXCEPT !.age = IF @ > TTL THEN @ ELSE @ + 1] \in Sessions
      OBVIOUS
    <3>2. None \in Sessions /\ session \in [Browsers -> Sessions]
      BY <1>2
    <3> HIDE DEF Sessions, Typed
    <3>3. QED
      BY <1>10, <3>1, <3>2 DEF Tick
  <2>2. request' \in [Browsers -> Requests]
    <3>1. ASSUME NEW q \in Requests
          PROVE  [q EXCEPT !.login.age = @ + 1] \in Requests
      <4>1. [q.login EXCEPT !.age = @ + 1] \in Sessions
        OBVIOUS
      <4> HIDE DEF Sessions
      <4>2. QED
        BY <4>1
    <3>2. request \in [Browsers -> Requests]
      OBVIOUS
    <3> HIDE DEF Requests, Typed
    <3>3. QED
      BY <1>10, <3>1, <3>2 DEF Tick
  <2>3. lastAdmin' \in [Users -> Nat]
    BY <1>10 DEF Tick, Forgot
  <2>4. QED
    BY <1>10, <2>1, <2>2, <2>3 DEF Tick
<1>11. ASSUME NEW b \in Browsers, LoginEnd(b) PROVE Typed'
  <2>1. request[b].login \in Sessions /\ [request[b].login EXCEPT !.age = 0] \in Sessions
    OBVIOUS
  <2>2. session' \in [Browsers -> Sessions]
    <3> HIDE DEF Sessions, Typed
    <3>1. session \in [Browsers -> Sessions]
      BY DEF Typed
    <3>2. QED
      BY <1>11, <2>1, <3>1 DEF LoginEnd
  <2>3. request' \in [Browsers -> [step : Steps, login : Sessions]]
    BY <1>2, <1>11 DEF LoginEnd
  <2>4. QED
    BY <1>11, <2>2, <2>3 DEF LoginEnd, history
<1>12. ASSUME NEW b \in Browsers, Drop(b) PROVE Typed'
  BY <1>2, <1>12 DEF Drop, history
<1>13. ASSUME NEW b \in Browsers, Persist(b) \/ Save(b) PROVE Typed'
  <2>1. request' \in [Browsers -> [step : Steps, login : Sessions]]
    <3>1. request' = [request EXCEPT ![b].step = "save"]
          \/ request' = [request EXCEPT ![b].step = "none"]
      <4> HIDE DEF Typed
      <4>1. QED
        BY <1>13 DEF Persist, Save
    <3>2. CASE request' = [request EXCEPT ![b].step = "save"]
      BY <3>2
    <3>3. CASE request' = [request EXCEPT ![b].step = "none"]
      BY <3>3
    <3>4. QED
      BY <3>1, <3>2, <3>3
  <2>2. saved' \in [Users -> Roles] /\ savedNet' \in Settings
    BY <1>13 DEF Persist, Save
  <2>3. whole' \in BOOLEAN
    <3>1. Overlaps(b) \in BOOLEAN
      BY DEF Overlaps
    <3> HIDE DEF Overlaps
    <3>2. CASE Persist(b)
      BY <3>2 DEF Persist
    <3>3. CASE Save(b)
      BY <3>1, <3>3 DEF Save
    <3>4. QED
      BY <1>13, <3>2, <3>3
  <2>4. QED
    BY <1>13, <2>1, <2>2, <2>3 DEF Persist, Save, history
<1>14. ASSUME NEW b \in Browsers, NEW u \in Users, LoginRead(b, u) PROVE Typed'
  BY <1>14 DEF LoginRead, history
<1>15. ASSUME NEW b \in Browsers, NEW u \in Users, DeleteUser(b, u) PROVE Typed'
  BY <1>1, <1>15 DEF DeleteUser, ToSave
<1>16. ASSUME NEW b \in Browsers, NEW u \in Users, NEW r \in {"viewer", "admin"},
              AddUser(b, u, r)
       PROVE  Typed'
  BY <1>1, <1>16 DEF AddUser, ToSave
<1>19. ASSUME NEW b \in Browsers, NEW n \in Nets, SetServer(b, n) PROVE Typed'
  <2>1. n \in Settings /\ [net EXCEPT !.binds = n.binds] \in Settings
    BY DEF Settings
  <2>2. request' \in [Browsers -> [step : Steps, login : Sessions]]
    BY <1>19 DEF SetServer, ToSave
  <2>3. QED
    BY <1>19, <2>1, <2>2 DEF SetServer, history
<1>17. CASE UNCHANGED vars
  BY <1>17 DEF vars, history
<1>18. QED
  BY <1>5, <1>6, <1>7, <1>8, <1>9, <1>10, <1>11, <1>12, <1>13, <1>14, <1>15, <1>16,
     <1>17, <1>19 DEF Next

\* A change of roles only makes the history of a user more recent.
LEMMA SetRoleFacts ==
  ASSUME Typed, AdminsAreRecent, NEW r \in [Users -> Roles], NEW by \in BOOLEAN,
         SetRole(r, by)
  PROVE  /\ AdminsAreRecent'
         /\ \A u \in Users : lastAdmin'[u] <= lastAdmin[u]
  BY DEF SetRole, Typed, AdminsAreRecent

\* A process that ends forgets who was using the engine.
LEMMA ForgetFacts ==
  ASSUME Typed, AdminsAreRecent, NEW r \in [Users -> Roles], SetRole(r, FALSE), Forget,
         boot' = "start" => net' = savedNet', boot' \in {"start", "down"}
  PROVE  (AdminsAreRecent /\ StaleLogins /\ StaleSessions /\ StartUp /\ NoAdminsNoCalls)'
<1>1. AdminsAreRecent'
  BY SetRoleFacts
<1>2. QED
  BY <1>1 DEF Forget, StaleLogins, StaleSessions, StartUp, NoAdminsNoCalls, None, NoRequest

\* A start, with or without a store that can be read, and a reset.
LEMMA StartFacts ==
  ASSUME Typed, AdminsAreRecent, Restart \/ StartFails \/ FactoryReset
  PROVE  (AdminsAreRecent /\ StaleLogins /\ StaleSessions /\ StartUp /\ NoAdminsNoCalls)'
<1>1. Nobody \in [Users -> Roles] /\ saved \in [Users -> Roles]
  BY DEF Nobody, Roles, Typed
<1>2. CASE Restart
  BY <1>1, <1>2, ForgetFacts DEF Restart, StartWith, disk
<1>3. CASE StartFails
  BY <1>1, <1>3, ForgetFacts DEF StartFails
<1>4. CASE FactoryReset
  BY <1>1, <1>4, ForgetFacts DEF FactoryReset, StartWith
<1>5. QED
  BY <1>2, <1>3, <1>4

\* The roles that logins and sessions hold are never older than the login is
\* long and the session old.
LEMMA StaleStep ==
  ASSUME IInv, [Next]_vars
  PROVE  (AdminsAreRecent /\ StaleLogins /\ StaleSessions)'
<1> USE AccessAssumption DEF IInv
<1> DEFINE Stale == AdminsAreRecent /\ StaleLogins /\ StaleSessions
<1> DEFINE Same(b) == /\ session'[b] = session[b] \/ session'[b] = None
                      /\ request'[b].login = request[b].login
                      /\ request'[b].step = "verify" => request[b].step = "verify"
<1>t. Typed' /\ \A b \in Browsers : session[b].user \in Users /\ session[b].age \in Nat
                                    /\ request[b].login.user \in Users
                                    /\ request[b].login.age \in Nat
  BY TypedStep DEF Typed, Sessions
\* A step of a handler, which changes at most the roles.
<1>1. ASSUME \A b \in Browsers : Same(b), AdminsAreRecent',
             \A u \in Users : lastAdmin'[u] <= lastAdmin[u]
      PROVE  Stale'
  <2>1. ASSUME NEW u \in Users
        PROVE  lastAdmin[u] \in Nat /\ lastAdmin'[u] \in Nat /\ lastAdmin'[u] <= lastAdmin[u]
    BY <1>1, <1>t DEF Typed
  <2>2. StaleLogins'
    BY <1>1, <1>t, <2>1 DEF StaleLogins
  <2>3. StaleSessions'
    BY <1>1, <1>t, <2>1 DEF StaleSessions, None
  <2>4. QED
    BY <1>1, <2>2, <2>3
<1>2. ASSUME NEW r \in [Users -> Roles], NEW by \in BOOLEAN, SetRole(r, by),
             \A b \in Browsers : Same(b)
      PROVE  Stale'
  BY <1>1, <1>2, SetRoleFacts
<1>3. ASSUME \A b \in Browsers : Same(b), UNCHANGED <<role, lastAdmin>>
      PROVE  Stale'
  BY <1>1, <1>3, <1>t DEF Typed, AdminsAreRecent
<1>5. CASE Restart \/ StartFails \/ FactoryReset
  BY <1>5, StartFacts
<1>7. CASE Provision
  <2>1. UNCHANGED <<session, request>>
    BY <1>7 DEF Provision
  <2>2. CASE UNCHANGED <<role, history>>
    BY <1>3, <2>1, <2>2 DEF history
  <2>3. CASE SetRole([role EXCEPT ![First] = "admin"], FALSE)
    BY <1>2, <2>1, <2>3 DEF Typed, Roles
  <2>4. QED
    BY <1>7, <2>2, <2>3 DEF Provision
<1>8. CASE ProvisionPersist \/ ProvisionMark
  BY <1>3, <1>8 DEF ProvisionPersist, ProvisionMark, history
<1>10. CASE Tick
  <2>1. AdminsAreRecent'
    BY <1>10 DEF Tick, AdminsAreRecent, Typed
  <2>2. \A u \in Users : lastAdmin'[u] <= lastAdmin[u] + 1
    BY <1>10 DEF Tick, Typed, Forgot
  <2>3. StaleLogins'
    <3> SUFFICES ASSUME NEW b \in Browsers, request'[b].step = "verify"
                 PROVE  /\ request'[b].login.age <= LoginTicks
                        /\ request'[b].login.role = "admin" =>
                             lastAdmin'[request'[b].login.user] <= request'[b].login.age
      BY DEF StaleLogins
    <3>1. /\ request[b].step = "verify" /\ request[b].login.age < LoginTicks
          /\ request'[b].login = [request[b].login EXCEPT !.age = @ + 1]
      BY <1>10 DEF Tick, Typed, Sessions
    <3>2. /\ request'[b].login.role = request[b].login.role
          /\ request'[b].login.user = request[b].login.user
          /\ request'[b].login.age = request[b].login.age + 1
      BY <3>1 DEF Typed, Sessions
    <3>3. lastAdmin[request[b].login.user] \in Nat /\ lastAdmin'[request[b].login.user] \in Nat
      BY <1>t DEF Typed
    <3>4. QED
      BY <1>t, <2>2, <3>1, <3>2, <3>3 DEF StaleLogins
  <2>4. StaleSessions'
    <3> SUFFICES ASSUME NEW b \in Browsers, session'[b].role = "admin", session'[b].age <= TTL
                 PROVE  lastAdmin'[session'[b].user] <= session'[b].age + LoginTicks
      BY DEF StaleSessions
    <3>1. session'[b] = [session[b] EXCEPT !.age = IF @ > TTL THEN @ ELSE @ + 1]
      BY <1>10 DEF Tick, None
    <3>2. /\ session'[b].role = session[b].role
          /\ session'[b].user = session[b].user
          /\ session'[b].age = session[b].age + 1 /\ session[b].age <= TTL
      BY <1>t, <3>1 DEF Typed, Sessions
    <3>3. lastAdmin[session[b].user] \in Nat /\ lastAdmin'[session[b].user] \in Nat
      BY <1>t DEF Typed
    <3>4. QED
      BY <1>t, <2>2, <3>2, <3>3 DEF StaleSessions
  <2>5. QED
    BY <2>1, <2>3, <2>4
<1>11. ASSUME NEW b \in Browsers, LoginEnd(b) PROVE Stale'
  <2>1. AdminsAreRecent' /\ UNCHANGED <<role, lastAdmin>>
    BY <1>11 DEF LoginEnd, history, AdminsAreRecent
  <2>2. StaleLogins'
    BY <1>11, <2>1 DEF LoginEnd, NoRequest, StaleLogins, Typed
  <2>3. StaleSessions'
    <3>1. request[b].step = "verify"
      BY <1>11 DEF LoginEnd
    <3>2. CASE session' = session
      BY <2>1, <3>2 DEF StaleSessions
    <3>3. CASE session' = [session EXCEPT ![b] = [request[b].login EXCEPT !.age = 0]]
      <4>1. /\ session'[b].role = request[b].login.role
            /\ session'[b].user = request[b].login.user
            /\ session'[b].age = 0
            /\ \A c \in Browsers \ {b} : session'[c] = session[c]
        BY <3>3 DEF Typed, Sessions
      <4>2. lastAdmin[request[b].login.user] \in Nat
        BY <1>t DEF Typed
      <4>3. session'[b].role = "admin" => lastAdmin'[session'[b].user] <= LoginTicks
        <5> SUFFICES ASSUME request[b].login.role = "admin"
                     PROVE  lastAdmin[request[b].login.user] <= LoginTicks
          BY <2>1, <4>1
        <5>1. /\ lastAdmin[request[b].login.user] <= request[b].login.age
              /\ request[b].login.age <= LoginTicks
          BY <3>1 DEF StaleLogins
        <5>2. QED
          BY <1>t, <4>2, <5>1
      <4>4. QED
        BY <2>1, <4>1, <4>3 DEF StaleSessions
    <3>4. QED
      BY <1>11, <3>2, <3>3 DEF LoginEnd
  <2>4. QED
    BY <2>1, <2>2, <2>3
<1>12. ASSUME NEW b \in Browsers, Drop(b) PROVE Stale'
  BY <1>3, <1>12 DEF Drop, history, Typed
<1>13. ASSUME NEW b \in Browsers, Persist(b) \/ Save(b) PROVE Stale'
  <2>1. \A c \in Browsers : Same(c)
    <3>1. CASE Persist(b)
      BY <3>1 DEF Persist, Typed
    <3>2. CASE Save(b)
      BY <3>2 DEF Save, Typed
    <3>3. QED
      BY <1>13, <3>1, <3>2
  <2>2. UNCHANGED <<role, lastAdmin>>
    BY <1>13 DEF Persist, Save, history
  <2>3. QED
    BY <1>3, <2>1, <2>2
<1>14. ASSUME NEW b \in Browsers, NEW u \in Users, LoginRead(b, u) PROVE Stale'
  <2>1. AdminsAreRecent' /\ StaleSessions' /\ UNCHANGED <<role, lastAdmin>>
    BY <1>14 DEF LoginRead, history, AdminsAreRecent, StaleSessions
  <2>2. StaleLogins'
    BY <1>14, <2>1 DEF LoginRead, AdminsAreRecent, StaleLogins, Typed
  <2>3. QED
    BY <2>1, <2>2
<1>15. ASSUME NEW b \in Browsers, NEW u \in Users, DeleteUser(b, u) PROVE Stale'
  BY <1>2, <1>15 DEF DeleteUser, ToSave, Typed, Roles
<1>16. ASSUME NEW b \in Browsers, NEW u \in Users, NEW r \in {"viewer", "admin"},
              AddUser(b, u, r)
       PROVE  Stale'
  BY <1>2, <1>16 DEF AddUser, ToSave, Typed, Roles
<1>19. ASSUME NEW b \in Browsers, NEW n \in Nets, SetServer(b, n) PROVE Stale'
  BY <1>3, <1>19 DEF SetServer, ToSave, history, Typed
<1>17. CASE UNCHANGED vars
  BY <1>3, <1>17 DEF vars, history
<1>18. QED
  BY <1>5, <1>7, <1>8, <1>10, <1>11, <1>12, <1>13, <1>14, <1>15, <1>16,
     <1>17, <1>19 DEF Next

\* How the engine starts, and what can be under way without an admin.
LEMMA NoAdminsStep ==
  ASSUME IInv, [Next]_vars
  PROVE  (StartUp /\ NoAdminsNoCalls)'
<1> USE AccessAssumption DEF IInv
<1> DEFINE Goal == StartUp /\ NoAdminsNoCalls
<1>5. CASE Restart \/ StartFails \/ FactoryReset
  BY <1>5, StartFacts
<1>7. CASE Provision
  BY <1>7 DEF Provision, Listen, StartUp, NoAdminsNoCalls, SetRole, history, disk, Admins,
              Typed, Nobody, Roles
<1>8. CASE ProvisionPersist
  BY <1>8 DEF ProvisionPersist, StartUp, NoAdminsNoCalls, history
<1>9. CASE ProvisionMark
  BY <1>9 DEF ProvisionMark, Listen, StartUp, NoAdminsNoCalls, history, disk
<1>10. CASE Tick
  BY <1>10 DEF Tick, disk, StartUp, NoAdminsNoCalls, Typed, Sessions, None
<1>11. ASSUME NEW b \in Browsers, LoginEnd(b) PROVE Goal'
  BY <1>11 DEF LoginEnd, StartUp, NoAdminsNoCalls, Typed, Sessions, NoRequest, None, history, disk
<1>12. ASSUME NEW b \in Browsers, Drop(b) PROVE Goal'
  BY <1>12 DEF Drop, Received, StartUp, NoAdminsNoCalls, Typed, None, history, disk
<1>13. ASSUME NEW b \in Browsers, Persist(b) \/ Save(b) PROVE Goal'
  BY <1>13 DEF Persist, Save, StartUp, NoAdminsNoCalls, Typed, history, disk
<1>14. ASSUME NEW b \in Browsers, NEW u \in Users, LoginRead(b, u) PROVE Goal'
  BY <1>14 DEF LoginRead, Received, StartUp, NoAdminsNoCalls, Typed, Sessions, history, disk,
               Admins
<1>15. ASSUME NEW b \in Browsers, NEW u \in Users, DeleteUser(b, u) PROVE Goal'
  BY <1>15 DEF DeleteUser, AdminCalls, Received, ToSave, SetRole, StartUp, NoAdminsNoCalls,
               Typed, Admins, disk
<1>16. ASSUME NEW b \in Browsers, NEW u \in Users, NEW r \in {"viewer", "admin"},
              AddUser(b, u, r)
       PROVE  Goal'
  BY <1>16 DEF AddUser, AdminCalls, Received, ToSave, SetRole, StartUp, NoAdminsNoCalls,
               Typed, Admins, disk
<1>19. ASSUME NEW b \in Browsers, NEW n \in Nets, SetServer(b, n) PROVE Goal'
  BY <1>19 DEF SetServer, AdminCalls, Received, ToSave, StartUp, NoAdminsNoCalls, Typed,
               history, disk
<1>17. CASE UNCHANGED vars
  BY <1>17 DEF vars, history, disk, StartUp, NoAdminsNoCalls
<1>18. QED
  BY <1>5, <1>7, <1>8, <1>9, <1>10, <1>11, <1>12, <1>13, <1>14, <1>15, <1>16,
     <1>17, <1>19 DEF Next

\* The invariant, in every state.
LEMMA Invariance == Spec => []IInv
<1>1. IInv /\ [Next]_vars => IInv'
  BY TypedStep, StaleStep, NoAdminsStep DEF IInv
<1>2. QED
  BY InitInv, <1>1, PTL DEF Spec

-----------------------------------------------------------------------------

\* Whatever logins, role changes, restarts and resets overlap, an admin call is
\* accepted only from somebody who was an admin at most the life of a session
\* and the time of a login ago (auth.rs:59-68).
THEOREM StaleRolesExpire == Spec => []StaleRoleBounded
<1>1. IInv => StaleRoleBounded
  BY AccessAssumption
     DEF IInv, Typed, Sessions, StaleSessions, StaleRoleBounded, AdminCalls, Received, Valid
<1>2. QED
  BY Invariance, <1>1, PTL

\* The way in is lost by a refused or unsaved account that is marked done, by a
\* demotion of the last admin or settings that keep every host out, which an
\* admin saved, by two saves that overlap, and by a reset; by no other crash or
\* order of handlers, and never by delete_user (provision.rs, auth.rs:121,
\* admin.rs:790, config.rs:286).
THEOREM WayInIsKept == Spec => WayInLostOnlyBy
<1> DEFINE Lost == WayIn /\ ~WayIn' =>
                     \/ boot = "mark" /\ ~created
                     \/ boot = "serving" /\ (demoted \/ ~Reachable(net))
                     \/ ~whole' /\ \E b \in Browsers : request[b].step = "save" /\ Overlaps(b)
                     \/ saved' = Nobody /\ boot' = "start" /\ ~env
<1>1. IInv /\ [Next]_vars => [Lost]_vars
  <2> SUFFICES ASSUME IInv, [Next]_vars PROVE Lost
    OBVIOUS
  <2>1. CASE UNCHANGED <<disk, env>>
    BY <2>1 DEF WayIn, Admins, disk, Reachable
  <2>2. CASE FactoryReset
    <3>1. saved' = Nobody /\ boot' = "start" /\ whole' /\ savedNet' = Default /\ env' = env
      BY <2>2 DEF FactoryReset, StartWith
    <3>2. Reachable(savedNet')
      BY <3>1 DEF Reachable, Default
    <3>3. QED
      BY <3>1, <3>2 DEF WayIn
  <2>3. CASE ProvisionPersist
    BY <2>3 DEF ProvisionPersist, IInv, StartUp, WayIn, Admins, Reachable
  <2>4. CASE ProvisionMark
    BY <2>4 DEF ProvisionMark, IInv, StartUp, WayIn, Admins, Reachable, disk
  <2>5. ASSUME NEW b \in Browsers, Save(b) PROVE Lost
    <3>1. CASE UNCHANGED disk
      BY <2>1, <2>5, <3>1 DEF Save
    <3>2. CASE saved' = role /\ savedNet' = net /\ whole' \in {TRUE, ~Overlaps(b)}
      <4>1. request[b].step = "save" /\ boot = "serving" /\ env' = env
        BY <2>5 DEF Save, IInv, StartUp
      <4>2. CASE ~whole'
        BY <3>2, <4>1, <4>2
      <4>3. CASE whole' /\ ~Reachable(net)
        BY <4>1, <4>3
      <4>4. CASE whole' /\ Reachable(net)
        <5>1. Admins(role) = {} => demoted
          BY <4>1 DEF IInv, NoAdminsNoCalls
        <5>2. QED
          BY <3>2, <4>1, <4>4, <5>1 DEF WayIn, Admins, Reachable
      <4>5. whole' \in BOOLEAN
        BY TypedStep DEF IInv, Typed
      <4>6. QED
        BY <4>2, <4>3, <4>4
    <3>3. QED
      BY <2>5, <3>1, <3>2 DEF Save
  <2>6. FactoryReset \/ ProvisionPersist \/ ProvisionMark \/ (\E b \in Browsers : Save(b))
          \/ UNCHANGED <<disk, env>>
    BY DEF Next, vars, Restart, StartFails, Provision, Tick, LoginEnd, Drop, LoginRead, DeleteUser,
           AddUser, SetServer, Persist
  <2>7. QED
    BY <2>1, <2>2, <2>3, <2>4, <2>5, <2>6
<1>2. QED
  BY Invariance, <1>1, PTL DEF Spec, WayInLostOnlyBy
=============================================================================
