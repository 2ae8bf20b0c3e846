---------------------------- MODULE ModelManager ----------------------------
(***************************************************************************)
(* The model manager of the engine: engine/src/models.rs with the loader   *)
(* that engine/src/state.rs passes to it.                                  *)
(*                                                                         *)
(* The manager is a table of resident models behind one mutex and one      *)
(* condition variable.  A step of this module is one critical section of   *)
(* that mutex (or one step of a thread between two of them), so the        *)
(* interleavings are those of the threads at the lock.  `notify_all` is    *)
(* called right after the unlock; it is part of the step, and PollWake     *)
(* covers every other moment a waiter can wake.                            *)
(*                                                                         *)
(* The Vec of slots is searched by model id before every push and under    *)
(* the same lock, so it is a function from ids to slots, "absent" where    *)
(* there is none.  SlotState::Failed is never constructed (models.rs:10)   *)
(* and has no counterpart here.                                            *)
(***************************************************************************)
EXTENDS Naturals, FiniteSets, FiniteSetsExt

CONSTANTS
  Threads,      \* the threads that may call acquire at the same time
  Models,       \* the ids of the registered models
  NoModel,      \* want[t] of a thread outside acquire and its guard
  MaxResident,  \* EngineConfig.max_resident
  QueueDepth,   \* EngineConfig.queue_depth
  Usable,       \* sysinfo::usable_ram()
  Costs,        \* the totals estimate_ram may give for a model
  LoaderUnwinds \* a loader may panic

ASSUME ManagerAssumption ==
  /\ IsFiniteSet(Models)
  /\ IsFiniteSet(Threads)
  /\ NoModel \notin Models
  /\ MaxResident \in Nat
  /\ QueueDepth \in Nat
  /\ Usable \in Nat
  /\ Costs \subseteq Nat \ {0}
  /\ LoaderUnwinds \in BOOLEAN

VARIABLES
  slots,       \* Inner.slots: [state, busy, budget] per model id
  usedBefore,  \* the order of last_used: <<a, b>> if a was used before b
  waiters,     \* Inner.waiters
  pc,          \* where each thread stands
  want,        \* the model its call is about
  est,         \* the loader's RAM estimate, local to the loading thread
  late,        \* the threads whose deadline has passed
  result       \* what the last call of each thread returned

vars == <<slots, usedBefore, waiters, pc, want, est, late, result>>

-----------------------------------------------------------------------------
(* Slots and their order of use.                                           *)

Capacity == IF MaxResident = 0 THEN 1 ELSE MaxResident

Absent == [state |-> "absent", busy |-> FALSE, budget |-> 0]

SlotSet == [state : {"absent", "loading", "ready", "generating"},
            busy : BOOLEAN, budget : Costs \cup {0}]

Resident == {m \in Models : slots[m].state # "absent"}

\* Fault: the busy flag is not looked at.
IdleOrBusy(m) == slots[m].state = "ready"

\* A slot that can be handed out, evicted or unloaded.
Idle(m) == slots[m].state = "ready" /\ ~slots[m].busy

\* last_used := now.  Later than every other slot's.
Touch(m) ==
  {p \in usedBefore : p[1] # m /\ p[2] # m} \cup ((Resident \ {m}) \X {m})

\* The order without a slot that is removed.
Forget(m) == {p \in usedBefore : p[1] # m /\ p[2] # m}

\* Fault: an off-by-one at the capacity.
OverFull == Cardinality(Resident) > Capacity

Full == Cardinality(Resident) >= Capacity

\* Fault: a busy slot is a candidate too.
LeastRecentOfAll(m) ==
  /\ slots[m].state = "ready"
  /\ \A x \in Models : slots[x].state = "ready" => <<x, m>> \notin usedBefore

\* min_by_key(last_used) over the idle slots.
LeastRecent(m) ==
  /\ Idle(m)
  /\ \A x \in Models : Idle(x) => <<x, m>> \notin usedBefore

\* resident_bytes_excluding: a Loading slot counts from the moment its
\* provisional budget is recorded; until then its budget is 0.
BytesExcluding(m) == MapThenSumSet(LAMBDA x : slots[x].budget, Models \ {m})

-----------------------------------------------------------------------------
(* Threads.                                                                *)

PCs == {"idle", "entering", "waiting", "woken", "loading", "budgeted",
        "building", "refused", "dead", "holding", "generating", "finished",
        "panicked"}

Results == {"none", "ok", "queue_full", "timeout", "guardrail",
            "load_failed"}

Init ==
  /\ slots = [m \in Models |-> Absent]
  /\ usedBefore = {}
  /\ waiters = 0
  /\ pc = [t \in Threads |-> "idle"]
  /\ want = [t \in Threads |-> NoModel]
  /\ est = [t \in Threads |-> 0]
  /\ late = {}
  /\ result = [t \in Threads |-> "none"]

\* Fault: no notify_all.
NotifyNobody(t, next) == [pc EXCEPT ![t] = next]

\* pc after notify_all by t, which itself moves on to `next`.
NotifyAll(t, next) ==
  [u \in Threads |-> IF u = t THEN next
                     ELSE IF pc[u] = "waiting" THEN "woken" ELSE pc[u]]

Goto(t, next) == [pc EXCEPT ![t] = next]

\* The call of t is over with r.
Return(t, r) ==
  /\ want' = [want EXCEPT ![t] = NoModel]
  /\ est' = [est EXCEPT ![t] = 0]
  /\ late' = late \ {t}
  /\ result' = [result EXCEPT ![t] = r]

\* run_generation, load_model and auto_load call acquire for a model.
Request(t, m) ==
  /\ pc[t] = "idle"
  /\ pc' = Goto(t, "entering")
  /\ want' = [want EXCEPT ![t] = m]
  /\ result' = [result EXCEPT ![t] = "none"]
  /\ UNCHANGED <<slots, usedBefore, waiters, est, late>>

\* The clock passes the deadline of a call that still looks at it.
DeadlinePasses(t) ==
  /\ pc[t] \in {"entering", "waiting", "woken"}
  /\ t \notin late
  /\ late' = late \cup {t}
  /\ UNCHANGED <<slots, usedBefore, waiters, pc, want, est, result>>

\* wait_timeout returns without a notify: after at most 5 s, at the
\* deadline, or spuriously.
PollWake(t) ==
  /\ pc[t] = "waiting"
  /\ pc' = Goto(t, "woken")
  /\ UNCHANGED <<slots, usedBefore, waiters, want, est, late, result>>

-----------------------------------------------------------------------------
(* One iteration of the loop of acquire, with the mutex held: entered from *)
(* the call or an eviction ("entering"), or from queue_wait ("woken"),     *)
(* which first takes the thread out of the count of waiters.               *)

AtLoopTop(t) == pc[t] \in {"entering", "woken"}

\* Fault: queue_wait does not give its place in the count back.
WaitersKept(t) == waiters

\* saturating_sub(1) on the way out of queue_wait.
WaitersAt(t) == IF pc[t] = "woken" /\ waiters > 0 THEN waiters - 1
                                                  ELSE waiters

TimesOut(t) ==
  /\ AtLoopTop(t)
  /\ t \in late
  /\ waiters' = WaitersAt(t)
  /\ pc' = Goto(t, "idle")
  /\ Return(t, "timeout")
  /\ UNCHANGED <<slots, usedBefore>>

\* Ready and not busy: the thread gets the guard.
Admit(t) ==
  /\ AtLoopTop(t)
  /\ t \notin late
  /\ Idle(want[t])
  /\ slots' = [slots EXCEPT ![want[t]].busy = TRUE]
  /\ usedBefore' = Touch(want[t])
  /\ waiters' = WaitersAt(t)
  /\ pc' = Goto(t, "holding")
  /\ UNCHANGED <<want, est, late, result>>

\* Not resident and there is room: push a Loading slot, run the loader.
StartLoad(t) ==
  /\ AtLoopTop(t)
  /\ t \notin late
  /\ want[t] \notin Resident
  /\ ~Full
  /\ slots' = [slots EXCEPT ![want[t]] =
                 [state |-> "loading", busy |-> TRUE, budget |-> 0]]
  /\ usedBefore' = Touch(want[t])
  /\ waiters' = WaitersAt(t)
  /\ pc' = Goto(t, "loading")
  /\ UNCHANGED <<want, est, late, result>>

\* Not resident, no room, an idle slot: evict it and go round again, after
\* letting go of the mutex.
Evict(t) ==
  /\ AtLoopTop(t)
  /\ t \notin late
  /\ want[t] \notin Resident
  /\ Full
  /\ \E v \in Models :
       /\ LeastRecent(v)
       /\ slots' = [slots EXCEPT ![v] = Absent]
       /\ usedBefore' = Forget(v)
  /\ waiters' = WaitersAt(t)
  /\ pc' = NotifyAll(t, "entering")
  /\ UNCHANGED <<want, est, late, result>>

\* The conditions under which the loop reaches queue_wait.
MustQueue(m) ==
  IF m \in Resident THEN ~Idle(m)
                    ELSE Full /\ \A x \in Models : ~Idle(x)

\* Fault: the bound on the queue is off by one.
EnqueueOneMore(t) ==
  /\ AtLoopTop(t)
  /\ t \notin late
  /\ MustQueue(want[t])
  /\ WaitersAt(t) <= QueueDepth
  /\ waiters' = WaitersAt(t) + 1
  /\ pc' = Goto(t, "waiting")
  /\ UNCHANGED <<slots, usedBefore, want, est, late, result>>

\* Fault: the deadline is not looked at before queueing again.
EnqueueLate(t) ==
  /\ AtLoopTop(t)
  /\ MustQueue(want[t])
  /\ WaitersAt(t) < QueueDepth
  /\ waiters' = WaitersAt(t) + 1
  /\ pc' = Goto(t, "waiting")
  /\ UNCHANGED <<slots, usedBefore, want, est, late, result>>

Enqueue(t) ==
  /\ AtLoopTop(t)
  /\ t \notin late
  /\ MustQueue(want[t])
  /\ WaitersAt(t) < QueueDepth
  /\ waiters' = WaitersAt(t) + 1
  /\ pc' = Goto(t, "waiting")
  /\ UNCHANGED <<slots, usedBefore, want, est, late, result>>

Overflow(t) ==
  /\ AtLoopTop(t)
  /\ t \notin late
  /\ MustQueue(want[t])
  /\ WaitersAt(t) >= QueueDepth
  /\ waiters' = WaitersAt(t)
  /\ pc' = Goto(t, "idle")
  /\ Return(t, "queue_full")
  /\ UNCHANGED <<slots, usedBefore>>

-----------------------------------------------------------------------------
(* The loader (EngineCtx::load_backend), outside the lock except for the   *)
(* two calls it makes back into the manager.                               *)

\* slots.iter_mut().find(model id) and an update of what is found.
Update(m, slot) == IF m \in Resident THEN [slots EXCEPT ![m] = slot] ELSE slots

\* The pc behind an expect() or a match whose other arm is panic!().
Expecting(condition, next) == IF condition THEN next ELSE "panicked"

\* Fault: the budget becomes known only when the slot is Ready.
KeepBudgetToItself(t) ==
  /\ pc[t] = "loading"
  /\ \E c \in Costs : est' = [est EXCEPT ![t] = c]
  /\ pc' = Goto(t, "budgeted")
  /\ UNCHANGED <<slots, usedBefore, waiters, want, late, result>>

\* The file is read, the estimate exists: set_loading_budget.
SetLoadingBudget(t) ==
  /\ pc[t] = "loading"
  /\ \E c \in Costs :
       /\ est' = [est EXCEPT ![t] = c]
       /\ slots' = Update(want[t], [slots[want[t]] EXCEPT !.budget = c])
  /\ pc' = Goto(t, "budgeted")
  /\ UNCHANGED <<usedBefore, waiters, want, late, result>>

\* est <= usable_ram().saturating_sub(others); est is never 0.
Fits(t) == est[t] + BytesExcluding(want[t]) <= Usable

CheckBudget(t) ==
  /\ pc[t] = "budgeted"
  /\ pc' = Goto(t, IF Fits(t) THEN "building" ELSE "refused")
  /\ UNCHANGED <<slots, usedBefore, waiters, want, est, late, result>>

\* open_gguf succeeded: the slot becomes Ready, still busy, with its guard.
\* Panics with "our Loading slot vanished" if it has.
LoadOk(t) ==
  /\ pc[t] = "building"
  /\ slots' = Update(want[t], [slots[want[t]] EXCEPT !.state = "ready",
                                                    !.budget = est[t]])
  /\ usedBefore' = Touch(want[t])
  /\ pc' = NotifyAll(t, Expecting(want[t] \in Resident, "holding"))
  /\ UNCHANGED <<waiters, want, est, late, result>>

\* Fault: a refusal returns early and leaves the Loading slot behind.
LoadErrLeaks(t) ==
  /\ pc[t] \in {"loading", "building", "refused"}
  /\ slots' = IF pc[t] = "refused" THEN slots
                                   ELSE [slots EXCEPT ![want[t]] = Absent]
  /\ usedBefore' = Forget(want[t])
  /\ pc' = NotifyAll(t, "idle")
  /\ Return(t, IF pc[t] = "refused" THEN "guardrail" ELSE "load_failed")
  /\ UNCHANGED waiters

\* No file or no GGUF ("loading"), the guardrail refused ("refused"), or
\* open_gguf failed ("building"): the slot, looked up with the same
\* expect, is removed.
LoadErr(t) ==
  /\ pc[t] \in {"loading", "building", "refused"}
  /\ slots' = [slots EXCEPT ![want[t]] = Absent]
  /\ usedBefore' = Forget(want[t])
  /\ pc' = NotifyAll(t, Expecting(want[t] \in Resident, "idle"))
  /\ Return(t, IF pc[t] = "refused" THEN "guardrail" ELSE "load_failed")
  /\ UNCHANGED waiters

\* The loader panics: n_ctx.clamp(1, n_ctx_train) with a context_length of
\* 0 in the file ("loading"), or the initialisation of the backend
\* ("building").  Nothing on the way out of acquire knows of the slot.
Unwind(t) ==
  /\ LoaderUnwinds
  /\ pc[t] \in {"loading", "building"}
  /\ pc' = Goto(t, "dead")
  /\ UNCHANGED <<slots, usedBefore, waiters, want, est, late, result>>

-----------------------------------------------------------------------------
(* The guard.                                                              *)

\* with_backend takes the backend out of the slot.  Panics if there is no
\* slot ("guard holds a live slot") or no backend in it ("slot not ready
\* while guarded").
CheckOut(t) ==
  /\ pc[t] = "holding"
  /\ slots' = IF slots[want[t]].state = "ready"
              THEN [slots EXCEPT ![want[t]].state = "generating"] ELSE slots
  /\ pc' = Goto(t, Expecting(slots[want[t]].state = "ready", "generating"))
  /\ UNCHANGED <<usedBefore, waiters, want, est, late, result>>

\* The closure returned: the backend goes back.  The slot stays busy.
\* Panics if there is no slot.
CheckIn(t) ==
  /\ pc[t] = "generating"
  /\ slots' = Update(want[t], [slots[want[t]] EXCEPT !.state = "ready"])
  /\ pc' = Goto(t, Expecting(want[t] \in Resident, "finished"))
  /\ UNCHANGED <<usedBefore, waiters, want, est, late, result>>

\* Fault: dropping the guard does not count as a use.
DropUntouched(t) ==
  /\ pc[t] \in {"holding", "generating", "finished"}
  /\ slots' = Update(want[t],
                [slots[want[t]] EXCEPT
                   !.busy = FALSE,
                   !.state = IF pc[t] = "generating" THEN "ready" ELSE @])
  /\ pc' = NotifyAll(t, "idle")
  /\ Return(t, "ok")
  /\ UNCHANGED <<usedBefore, waiters>>

\* Drop for AcquiredGuard: after a generation ("finished"), without one
\* (load_model, "holding"), or while the closure unwinds ("generating"),
\* when the backend is still checked out and is put back.
DropGuard(t) ==
  /\ pc[t] \in {"holding", "generating", "finished"}
  /\ slots' = Update(want[t],
                [slots[want[t]] EXCEPT
                   !.busy = FALSE,
                   !.state = IF pc[t] = "generating" THEN "ready" ELSE @])
  /\ usedBefore' = IF want[t] \in Resident THEN Touch(want[t]) ELSE usedBefore
  /\ pc' = NotifyAll(t, "idle")
  /\ Return(t, "ok")
  /\ UNCHANGED waiters

\* Fault: a busy slot is unloaded too.
UnloadBusy(m) ==
  /\ m \in Resident
  /\ slots' = [slots EXCEPT ![m] = Absent]
  /\ usedBefore' = Forget(m)
  /\ pc' = [u \in Threads |-> IF pc[u] = "waiting" THEN "woken" ELSE pc[u]]
  /\ UNCHANGED <<waiters, want, est, late, result>>

\* Manager::unload, called by delete_model and by the unload route: an idle
\* slot goes, a busy one is an error, an absent one a no-op.
Unload(m) ==
  /\ m \in Resident
  /\ ~slots[m].busy
  /\ slots' = [slots EXCEPT ![m] = Absent]
  /\ usedBefore' = Forget(m)
  /\ pc' = [u \in Threads |-> IF pc[u] = "waiting" THEN "woken" ELSE pc[u]]
  /\ UNCHANGED <<waiters, want, est, late, result>>

-----------------------------------------------------------------------------

\* What a thread does on its own once it is scheduled.
Step(t) ==
  \/ TimesOut(t) \/ Admit(t) \/ StartLoad(t) \/ Evict(t)
  \/ Enqueue(t) \/ Overflow(t)
  \/ SetLoadingBudget(t) \/ CheckBudget(t) \/ LoadOk(t) \/ LoadErr(t)
  \/ CheckOut(t) \/ CheckIn(t) \/ DropGuard(t)

Next ==
  \/ \E t \in Threads : \/ \E m \in Models : Request(t, m)
                        \/ DeadlinePasses(t)
                        \/ PollWake(t)
                        \/ Unwind(t)
                        \/ Step(t)
  \/ \E m \in Models : Unload(m)

Spec == Init /\ [][Next]_vars

\* The scheduler runs every thread that can run, the loader and the
\* generation come to an end, and a waiter that was notified gets the
\* mutex.  Nobody has to make a new request, and neither the 5 s poll nor
\* a deadline is needed to come.
Fairness == \A t \in Threads : WF_vars(Step(t))

FairSpec == Spec /\ Fairness

\* Real time goes on as well: waits end after 5 s and deadlines pass.
ClockFairness ==
  \A t \in Threads : WF_vars(PollWake(t)) /\ WF_vars(DeadlinePasses(t))

-----------------------------------------------------------------------------
(* Properties.                                                             *)

InAcquire(t) == pc[t] \in {"entering", "waiting", "woken", "loading",
                           "budgeted", "building", "refused"}

\* A thread that died in the loader still stands for its slot.
InLoader == {"loading", "budgeted", "building", "refused", "dead"}
WithGuard == {"holding", "generating", "finished"}

\* The threads that are responsible for clearing the busy flag of m: the one
\* that loads it (or died doing so), or the one that has its guard.
Owners(m) == {t \in Threads : want[t] = m /\ pc[t] \in InLoader \cup WithGuard}

Queued == {t \in Threads : pc[t] \in {"waiting", "woken"}}

\* Every variable holds a value of its kind; the waiters counter stays
\* between 0 and queue_depth (models.rs:277-290).
TypeOK ==
  /\ slots \in [Models -> SlotSet]
  /\ usedBefore \subseteq Models \X Models
  /\ waiters \in 0..QueueDepth
  /\ pc \in [Threads -> PCs]
  /\ want \in [Threads -> Models \cup {NoModel}]
  /\ est \in [Threads -> Costs \cup {0}]
  /\ late \subseteq Threads
  /\ result \in [Threads -> Results]

\* No interleaving of acquires, loads, generations, drops, evictions and
\* unloads reaches one of the manager's assertions: "our Loading slot
\* vanished", "guard holds a live slot", "slot not ready while guarded"
\* (models.rs:227, 391, 400, 413).
NeverPanics == \A t \in Threads : pc[t] # "panicked"

\* A slot is busy exactly while one thread, and no second one, loads it or
\* holds its guard, or after one died loading it: no other path leaks the
\* flag (the model would be unservable and un-unloadable for good) and none
\* drops it early (models.rs:360, "Exclusive access to a model slot;
\* releases on drop").
BusyExactlyWhileOwned ==
  \A m \in Models : /\ slots[m].busy <=> Owners(m) # {}
                    /\ \A t, u \in Owners(m) : t = u

\* Slots being loaded, serving or idle never outnumber max_resident, also
\* when several threads evict and load at once.
WithinCapacity == Cardinality(Resident) <= Capacity

\* A backend that exists, or that a loader has been cleared to build.
Committed(m) ==
  \/ slots[m].state \in {"ready", "generating"}
  \/ \E t \in Owners(m) : pc[t] = "building"

\* The budgets of all backends that exist or are under construction fit in
\* the usable memory together: two loads that run at the same time cannot
\* both pass the guardrail (models.rs:103-105).
BudgetsFit ==
  MapThenSumSet(LAMBDA m : slots[m].budget, {m \in Models : Committed(m)})
    <= Usable

\* The waiters counter is the number of threads in the queue, whatever way
\* they leave it: admitted, loading, evicting, timed out, queued again or
\* refused.
WaitersCounted == waiters = Cardinality(Queued)

\* "LRU eviction of idle models when a new load needs room" (models.rs:3-4):
\* the idle models keep the order in which they were given back, whatever
\* loads, admissions and unloads happen around them, and making room takes
\* the first of them.
EvictsFirstReleased ==
  [][\A x, y \in Models :
       LET before == <<x, y>> \in usedBefore
       IN x # y /\ Idle(x) =>
            /\ Idle(x)' /\ Idle(y)' /\ (Idle(y) => before) => before'
            /\ (\E t \in Threads : Evict(t)) /\ ~Idle(x)' /\ Idle(y) => before]_vars

\* A model that is busy becomes free again: no load, failed load, refused
\* load, generation or unwinding generation leaves it locked, as long as no
\* loader panics.
BusyIsReleased == \A m \in Models : slots[m].busy ~> ~slots[m].busy

\* No lost wakeup and no deadlock: if a call never returns although threads
\* keep running, it is because other calls get to load or to use a model
\* again and again.  The notifications alone achieve this, without the 5 s
\* poll and the deadline.
OnlyOvertakingStarves ==
  \A t \in Threads :
    <>[]InAcquire(t)
      => []<>(\E u \in Threads \ {t} : pc[u] \in {"loading", "holding"})

\* With the clock running every acquire returns, however many other callers
\* overtake it: the deadline is looked at on every way round the loop.
CallReturns ==
  ClockFairness => \A t \in Threads : InAcquire(t) ~> ~InAcquire(t)

\* The manager is an implementation of ModelService: a thread is served from
\* the moment it has its guard, and a model is in memory from the moment its
\* slot is Ready.
Service == INSTANCE ModelService WITH
  phase <- [t \in Threads |->
              IF pc[t] \in {"idle", "panicked"} THEN "out"
              ELSE IF pc[t] \in WithGuard THEN "serving" ELSE "asking"],
  asked <- want,
  resident <- {m \in Models : slots[m].state \in {"ready", "generating"}}

ImplementsService == Service!Spec

-----------------------------------------------------------------------------
(* What the documentation says and the code does not do.                   *)

\* "Request queue depth per model before 429" (config.rs:58): a call about m
\* is turned away only when queue_depth calls wait for m.
QueueDepthIsPerModel ==
  [][\A t \in Threads :
       result[t] # "queue_full" /\ result'[t] = "queue_full"
         => Cardinality({u \in Queued : want[u] = want[t]}) >= QueueDepth]_vars

\* "bounded FIFO queue" (models.rs:4): a call that has just arrived is not
\* admitted to a model others are queueing for.
QueueIsFIFO ==
  [][\A t \in Threads :
       pc[t] = "entering" /\ pc'[t] = "holding"
         => ~\E u \in Queued : want[u] = want[t]]_vars

\* "When a load would exceed the budget, the manager evicts the
\* least-recently-used idle resident model automatically [...] if nothing
\* can be evicted the load is refused" (docs/design.md:232-234).
RefusedOnlyIfNothingIdle ==
  [][\A t \in Threads :
       pc[t] = "budgeted" /\ pc'[t] = "refused"
         => \A m \in Models : ~Idle(m)]_vars

\* "Provisional guardrail budget for a Loading slot [...] Cleared implicitly
\* when the slot resolves" (models.rs:129-131), and "malformed input yields
\* `Err`, never a panic" (gguf.rs:6): a slot that is Loading is so for a time.
LoadingResolves ==
  \A m \in Models : slots[m].state = "loading" ~> slots[m].state # "loading"
=============================================================================
