----------------------------- MODULE MCAccess -----------------------------
\* Two users and two interchangeable browsers.
EXTENDS Access, TLC

AllNets == Settings
BrowserSymmetry == Permutations(Browsers)

\* Settings that are not the default are looked at only as long as nothing has
\* aged: who gets in does not depend on the clock beyond that.
Scope ==
  \/ net = Default /\ savedNet = Default
  \/ /\ \A b \in Browsers : session[b].age = 0 /\ request[b].login.age = 0
     /\ \A u \in Users : lastAdmin[u] \in {0, Forgot}
=============================================================================
