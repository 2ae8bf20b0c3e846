---------------------------- MODULE ModelService ----------------------------
(***************************************************************************)
(* What the model manager (engine/src/models.rs) promises to the threads   *)
(* that call it, with no slots, locks, queues or budgets in sight:         *)
(*                                                                         *)
(*   - a thread asks for a model and is either served or denied;           *)
(*   - a model serves at most one thread at a time;                        *)
(*   - a model that serves a thread is in memory and stays there until the *)
(*     thread gives it back;                                               *)
(*   - at most Capacity models are in memory.                              *)
(*                                                                         *)
(* ModelManager implements this specification (see Service there).         *)
(***************************************************************************)
EXTENDS Naturals, FiniteSets

CONSTANTS Threads,   \* the threads that ask for models
          Models,    \* the ids of the registered models
          NoModel,   \* the value of asked[t] when t asks for nothing
          Capacity   \* how many models may be in memory at once

VARIABLES phase,     \* "out", "asking" or "serving", per thread
          asked,     \* the model a thread asks for or is served by
          resident   \* the models in memory

svcVars == <<phase, asked, resident>>

ServedBy(m) == {t \in Threads : phase[t] = "serving" /\ asked[t] = m}

Init ==
  /\ phase = [t \in Threads |-> "out"]
  /\ asked = [t \in Threads |-> NoModel]
  /\ resident = {}

Ask(t, m) ==
  /\ phase[t] = "out"
  /\ phase' = [phase EXCEPT ![t] = "asking"]
  /\ asked' = [asked EXCEPT ![t] = m]
  /\ UNCHANGED resident

\* The model is in memory and free.
Admit(t) ==
  /\ phase[t] = "asking"
  /\ asked[t] \in resident
  /\ ServedBy(asked[t]) = {}
  /\ phase' = [phase EXCEPT ![t] = "serving"]
  /\ UNCHANGED <<asked, resident>>

\* The model is brought into memory for the thread that asked for it.
Load(t) ==
  /\ phase[t] = "asking"
  /\ asked[t] \notin resident
  /\ Cardinality(resident) < Capacity
  /\ resident' = resident \cup {asked[t]}
  /\ phase' = [phase EXCEPT ![t] = "serving"]
  /\ UNCHANGED asked

Deny(t) ==
  /\ phase[t] = "asking"
  /\ phase' = [phase EXCEPT ![t] = "out"]
  /\ asked' = [asked EXCEPT ![t] = NoModel]
  /\ UNCHANGED resident

GiveBack(t) ==
  /\ phase[t] = "serving"
  /\ phase' = [phase EXCEPT ![t] = "out"]
  /\ asked' = [asked EXCEPT ![t] = NoModel]
  /\ UNCHANGED resident

\* A model nobody is using may leave memory at any time.
Release(m) ==
  /\ m \in resident
  /\ ServedBy(m) = {}
  /\ resident' = resident \ {m}
  /\ UNCHANGED <<phase, asked>>

Next ==
  \/ \E t \in Threads : \/ \E m \in Models : Ask(t, m)
                        \/ Admit(t) \/ Load(t) \/ Deny(t) \/ GiveBack(t)
  \/ \E m \in Models : Release(m)

Spec == Init /\ [][Next]_svcVars
=============================================================================
