------------------------- MODULE ModelManagerProofs -------------------------
(***************************************************************************)
(* Theorems about ModelManager, for every number of threads and models and *)
(* every configuration.                                                    *)
(*                                                                         *)
(* NeverPanics and BusyExactlyWhileOwned are not inductive: whether a step *)
(* preserves them depends on what the slot of an owner looks like.         *)
(* OwnerSees and SlotShape say that, and the four are inductive together   *)
(* with the types.  BudgetsFit needs BudgetKnown besides, and the lemmas   *)
(* about sums before it; EvictsFirstReleased needs Ordered.                *)
(***************************************************************************)
EXTENDS ModelManager, FiniteSetTheorems, WellFoundedInduction, TLAPS

\* A thread in a call or with a guard knows its model; one outside has none.
WantsSomething == \A t \in Threads : pc[t] # "idle" <=> want[t] \in Models

\* The state in which an owner finds its slot.
OwnerSees ==
  \A t \in Threads :
    /\ pc[t] \in InLoader => slots[want[t]].state = "loading"
    /\ pc[t] \in {"holding", "finished"} => slots[want[t]].state = "ready"
    /\ pc[t] = "generating" => slots[want[t]].state = "generating"

\* Only a slot in memory or on its way there is busy, and one without its
\* backend always is.
SlotShape ==
  \A m \in Models :
    /\ slots[m].state = "absent" => slots[m] = Absent
    /\ slots[m].state \in {"loading", "generating"} => slots[m].busy

\* BusyExactlyWhileOwned, thread by thread.
OneOwner ==
  \A m \in Models : \A t, u \in Threads :
    t \in Owners(m) /\ u \in Owners(m) => t = u

BusyOwned == \A m \in Models : slots[m].busy <=> \E t \in Threads : t \in Owners(m)

IInv ==
  /\ TypeOK
  /\ NeverPanics
  /\ WantsSomething
  /\ OwnerSees
  /\ SlotShape
  /\ OneOwner
  /\ BusyOwned

USE DEF InLoader, WithGuard

\* The first state.
LEMMA InitInv == Init => IInv
  BY ManagerAssumption
  DEF Init, IInv, TypeOK, NeverPanics, WantsSomething, OwnerSees, SlotShape,
      OneOwner, BusyOwned, Owners, SlotSet, Absent, PCs, Results

\* There is room for one model at least.
LEMMA CapacityType == Capacity \in Nat \ {0}
  BY ManagerAssumption DEF Capacity

\* The count a thread finds at the top of the loop.
LEMMA WaitersAtType ==
  ASSUME TypeOK, NEW t \in Threads
  PROVE  WaitersAt(t) \in 0..QueueDepth
  BY ManagerAssumption DEF WaitersAt, TypeOK

\* The order of last use stays an order on models.
LEMMA TouchType ==
  ASSUME TypeOK, NEW m \in Models
  PROVE  /\ Touch(m) \subseteq Models \X Models
         /\ Forget(m) \subseteq Models \X Models
  BY DEF Touch, Forget, Resident, TypeOK

-----------------------------------------------------------------------------
(* Type correctness of each step.                                          *)

\* Every step keeps the types.
LEMMA TypeStep ==
  ASSUME IInv, [Next]_vars
  PROVE  TypeOK'
<1> USE ManagerAssumption, WaitersAtType, TouchType
    DEF IInv, TypeOK, PCs, Results, SlotSet, Absent, Goto, NotifyAll, Return
<1>1. ASSUME NEW t \in Threads, NEW m \in Models, Request(t, m)
      PROVE  TypeOK'
  BY <1>1 DEF Request
<1>2. ASSUME NEW t \in Threads, DeadlinePasses(t) PROVE TypeOK'
  BY <1>2 DEF DeadlinePasses
<1>3. ASSUME NEW t \in Threads, PollWake(t) PROVE TypeOK'
  BY <1>3 DEF PollWake
<1>4. ASSUME NEW t \in Threads, TimesOut(t) PROVE TypeOK'
  BY <1>4 DEF TimesOut
<1>5. ASSUME NEW t \in Threads, Admit(t) PROVE TypeOK'
  BY <1>5 DEF Admit, AtLoopTop, WantsSomething
<1>6. ASSUME NEW t \in Threads, StartLoad(t) PROVE TypeOK'
  BY <1>6 DEF StartLoad, AtLoopTop, WantsSomething
<1>7. ASSUME NEW t \in Threads, Evict(t) PROVE TypeOK'
  BY <1>7 DEF Evict
<1>8. ASSUME NEW t \in Threads, Enqueue(t) PROVE TypeOK'
  BY <1>8 DEF Enqueue
<1>9. ASSUME NEW t \in Threads, Overflow(t) PROVE TypeOK'
  BY <1>9 DEF Overflow
<1>10. ASSUME NEW t \in Threads, SetLoadingBudget(t) PROVE TypeOK'
  <2>1. PICK c \in Costs :
          /\ est' = [est EXCEPT ![t] = c]
          /\ slots' = Update(want[t], [slots[want[t]] EXCEPT !.budget = c])
    BY <1>10 DEF SetLoadingBudget
  <2>2. est' \in [Threads -> Costs \cup {0}]
    BY <2>1
  <2>3. slots' \in [Models -> SlotSet]
    BY <2>1 DEF Update, Resident
  <2>4. QED
    BY <1>10, <2>2, <2>3 DEF SetLoadingBudget
<1>11. ASSUME NEW t \in Threads, CheckBudget(t) PROVE TypeOK'
  BY <1>11 DEF CheckBudget
<1>12. ASSUME NEW t \in Threads, LoadOk(t) PROVE TypeOK'
  BY <1>12 DEF LoadOk, Update, Expecting, WantsSomething
<1>13. ASSUME NEW t \in Threads, LoadErr(t) PROVE TypeOK'
  BY <1>13 DEF LoadErr, Expecting, WantsSomething
<1>14. ASSUME NEW t \in Threads, CheckOut(t) PROVE TypeOK'
  BY <1>14 DEF CheckOut, Expecting
<1>15. ASSUME NEW t \in Threads, CheckIn(t) PROVE TypeOK'
  BY <1>15 DEF CheckIn, Update, Expecting
<1>16. ASSUME NEW t \in Threads, DropGuard(t) PROVE TypeOK'
  BY <1>16 DEF DropGuard, Update, WantsSomething
<1>17. ASSUME NEW m \in Models, Unload(m) PROVE TypeOK'
  BY <1>17 DEF Unload
<1>18. ASSUME NEW t \in Threads, Unwind(t) PROVE TypeOK'
  BY <1>18 DEF Unwind
<1>19. CASE UNCHANGED vars
  BY <1>19 DEF vars
<1>20. QED
  BY <1>1, <1>2, <1>3, <1>4, <1>5, <1>6, <1>7, <1>8, <1>9, <1>10, <1>11,
     <1>12, <1>13, <1>14, <1>15, <1>16, <1>17, <1>18, <1>19 DEF Next, Step

-----------------------------------------------------------------------------
(* Preservation of the rest of the invariant.                              *)

Owning == InLoader \cup WithGuard

\* The invariant, as far as it is about the thread t and the slot of m.
Agree(t, m) ==
  /\ pc[t] # "panicked"
  /\ pc[t] # "idle" <=> want[t] \in Models
  /\ pc[t] \in Owning => want[t] = m
  /\ pc[t] \in InLoader => slots[m].state = "loading"
  /\ pc[t] \in {"holding", "finished"} => slots[m].state = "ready"
  /\ pc[t] = "generating" => slots[m].state = "generating"
  /\ slots[m].busy <=> pc[t] \in Owning
  /\ slots[m].state = "absent" => slots[m] = Absent
  /\ slots[m].state \in {"loading", "generating"} => slots[m].busy

\* Everybody but t stays where it is or is woken, every slot but that of m
\* stays as it is.
Frame(t, m) ==
  /\ \A u \in Threads \ {t} : /\ want'[u] = want[u]
                              /\ \/ pc'[u] = pc[u]
                                 \/ pc[u] = "waiting" /\ pc'[u] = "woken"
  /\ \A x \in Models \ {m} : slots'[x] = slots[x]

\* A step of the only possible owner of a slot preserves the invariant if it
\* leaves this owner and its slot in agreement.
LEMMA OwnerStep ==
  ASSUME IInv, TypeOK', NEW t \in Threads, NEW m \in Models,
         \A u \in Threads : u \in Owners(m) => u = t,
         pc[t] \in Owning => want[t] = m,
         Frame(t, m), Agree(t, m)'
  PROVE  IInv'
<1> USE DEF Owning
<1>1. \A u \in Threads \ {t} :
        /\ pc'[u] \in Owning <=> pc[u] \in Owning
        /\ pc'[u] \in Owning => pc'[u] = pc[u] /\ want[u] \in Models \ {m}
  BY DEF Frame, Owners, IInv, WantsSomething
<1>2. \A x \in Models \ {m}, u \in Threads :
        u \in Owners(x)' <=> u \in Owners(x)
  BY <1>1 DEF Frame, Owners, Agree
<1>3. \A u \in Threads : u \in Owners(m)' <=> u = t /\ pc'[t] \in Owning
  BY <1>1 DEF Frame, Owners, Agree
<1>4. NeverPanics'
  BY DEF IInv, NeverPanics, Frame, Agree
<1>5. WantsSomething'
  BY DEF IInv, WantsSomething, Frame, Agree
<1>6. OwnerSees'
  <2>1. SUFFICES ASSUME NEW u \in Threads \ {t}, pc'[u] \in Owning
                 PROVE  slots'[want'[u]] = slots[want[u]] /\ pc'[u] = pc[u]
    BY DEF IInv, OwnerSees, Agree
  <2>2. QED
    BY <1>1, <2>1 DEF Frame
<1>7. SlotShape'
  BY DEF IInv, SlotShape, Frame, Agree
<1>8. OneOwner'
  BY <1>2, <1>3 DEF IInv, OneOwner
<1>9. BusyOwned'
  BY <1>2, <1>3 DEF IInv, BusyOwned, Frame, Agree
<1>10. QED
  BY <1>4, <1>5, <1>6, <1>7, <1>8, <1>9 DEF IInv

\* Every step keeps what the threads know of their slots.
LEMMA InvStep ==
  ASSUME IInv, [Next]_vars
  PROVE  IInv'
<1> USE ManagerAssumption DEF Owning, Resident
<1>0. TypeOK'
  BY TypeStep
<1>t. TypeOK
  BY DEF IInv
<1> USE <1>t DEF TypeOK, SlotSet, PCs
<1>1. ASSUME NEW t \in Threads, NEW m \in Models, Request(t, m) PROVE IInv'
  BY <1>0, <1>1
  DEF Request, IInv, NeverPanics, WantsSomething, OwnerSees, SlotShape,
      OneOwner, BusyOwned, Owners, Absent, Goto, NotifyAll, Return, AtLoopTop
<1>2. ASSUME NEW t \in Threads, DeadlinePasses(t) PROVE IInv'
  BY <1>0, <1>2
  DEF DeadlinePasses, IInv, NeverPanics, WantsSomething, OwnerSees, SlotShape,
      OneOwner, BusyOwned, Owners, Absent, Goto, NotifyAll, Return, AtLoopTop
<1>3. ASSUME NEW t \in Threads, PollWake(t) PROVE IInv'
  BY <1>0, <1>3
  DEF PollWake, IInv, NeverPanics, WantsSomething, OwnerSees, SlotShape,
      OneOwner, BusyOwned, Owners, Absent, Goto, NotifyAll, Return, AtLoopTop
<1>4. ASSUME NEW t \in Threads, TimesOut(t) PROVE IInv'
  BY <1>0, <1>4
  DEF TimesOut, IInv, NeverPanics, WantsSomething, OwnerSees, SlotShape,
      OneOwner, BusyOwned, Owners, Absent, Goto, NotifyAll, Return, AtLoopTop
<1>5. ASSUME NEW t \in Threads, Admit(t) PROVE IInv'
  <2>0. PICK m \in Models : m = want[t]
    BY <1>5 DEF Admit, IInv, WantsSomething, AtLoopTop
  <2>1. /\ pc[t] \notin Owning
        /\ ~slots[m].busy
        /\ slots[m].state = "ready"
    BY <2>0, <1>5 DEF Admit, IInv, WantsSomething, AtLoopTop, Idle, SlotShape, Absent
  <2>2. \A u \in Threads : u \notin Owners(m)
    BY <2>0, <2>1 DEF IInv, BusyOwned
  <2>3. Frame(t, m)
    BY <2>0, <1>5, <2>1 DEF Admit, Frame, Goto
  <2>4. Agree(t, m)'
    BY <2>0, <1>5, <2>1 DEF Admit, Agree, Goto
  <2>5. QED
    BY <2>0, <1>0, <2>1, <2>2, <2>3, <2>4, OwnerStep
<1>6. ASSUME NEW t \in Threads, StartLoad(t) PROVE IInv'
  <2>0. PICK m \in Models : m = want[t]
    BY <1>6 DEF StartLoad, IInv, WantsSomething, AtLoopTop
  <2>1. /\ pc[t] \notin Owning
        /\ ~slots[m].busy
    BY <2>0, <1>6 DEF StartLoad, IInv, WantsSomething, AtLoopTop, SlotShape, Absent
  <2>2. \A u \in Threads : u \notin Owners(m)
    BY <2>0, <2>1 DEF IInv, BusyOwned
  <2>3. Frame(t, m)
    BY <2>0, <1>6, <2>1 DEF StartLoad, Frame, Goto
  <2>4. Agree(t, m)'
    BY <2>0, <1>6, <2>1 DEF StartLoad, Agree, Goto
  <2>5. QED
    BY <2>0, <1>0, <2>1, <2>2, <2>3, <2>4, OwnerStep
<1>7. ASSUME NEW t \in Threads, Evict(t) PROVE IInv'
  BY <1>0, <1>7
  DEF Evict, LeastRecent, Idle, IInv, NeverPanics, WantsSomething, OwnerSees, SlotShape,
      OneOwner, BusyOwned, Owners, Absent, Goto, NotifyAll, Return, AtLoopTop
<1>8. ASSUME NEW t \in Threads, Enqueue(t) PROVE IInv'
  BY <1>0, <1>8
  DEF Enqueue, IInv, NeverPanics, WantsSomething, OwnerSees, SlotShape,
      OneOwner, BusyOwned, Owners, Absent, Goto, NotifyAll, Return, AtLoopTop
<1>9. ASSUME NEW t \in Threads, Overflow(t) PROVE IInv'
  BY <1>0, <1>9
  DEF Overflow, IInv, NeverPanics, WantsSomething, OwnerSees, SlotShape,
      OneOwner, BusyOwned, Owners, Absent, Goto, NotifyAll, Return, AtLoopTop
<1>10. ASSUME NEW t \in Threads, SetLoadingBudget(t) PROVE IInv'
  <2>0. PICK m \in Models : m = want[t]
    BY <1>10 DEF SetLoadingBudget, IInv, WantsSomething
  <2>1. /\ pc[t] \in Owning
        /\ slots[m].state = "loading"
    BY <2>0, <1>10 DEF SetLoadingBudget, IInv, WantsSomething, OwnerSees
  <2>2. \A u \in Threads : u \in Owners(m) => u = t
    BY <2>0, <2>1 DEF IInv, OneOwner, Owners
  <2>3. slots[m].busy
    BY <2>0, <2>1 DEF IInv, BusyOwned, Owners
  <2>4. Frame(t, m)
    BY <2>0, <1>10, <2>1 DEF SetLoadingBudget, Frame, Goto, NotifyAll, Return, Update
  <2>5. Agree(t, m)'
    BY <2>0, <1>10, <2>1, <2>3 DEF SetLoadingBudget, Agree, Goto, NotifyAll, Return, Absent, Update
  <2>6. QED
    BY <2>0, <1>0, <2>1, <2>2, <2>4, <2>5, OwnerStep
<1>11. ASSUME NEW t \in Threads, CheckBudget(t) PROVE IInv'
  <2>0. PICK m \in Models : m = want[t]
    BY <1>11 DEF CheckBudget, IInv, WantsSomething
  <2>1. /\ pc[t] \in Owning
        /\ slots[m].state = "loading"
    BY <2>0, <1>11 DEF CheckBudget, IInv, WantsSomething, OwnerSees
  <2>2. \A u \in Threads : u \in Owners(m) => u = t
    BY <2>0, <2>1 DEF IInv, OneOwner, Owners
  <2>3. slots[m].busy
    BY <2>0, <2>1 DEF IInv, BusyOwned, Owners
  <2>4. Frame(t, m)
    BY <2>0, <1>11, <2>1 DEF CheckBudget, Frame, Goto, NotifyAll, Return
  <2>5. Agree(t, m)'
    BY <2>0, <1>11, <2>1, <2>3 DEF CheckBudget, Agree, Goto, NotifyAll, Return, Absent
  <2>6. QED
    BY <2>0, <1>0, <2>1, <2>2, <2>4, <2>5, OwnerStep
<1>12. ASSUME NEW t \in Threads, LoadOk(t) PROVE IInv'
  <2>0. PICK m \in Models : m = want[t]
    BY <1>12 DEF LoadOk, IInv, WantsSomething
  <2>1. /\ pc[t] \in Owning
        /\ slots[m].state = "loading"
    BY <2>0, <1>12 DEF LoadOk, IInv, WantsSomething, OwnerSees
  <2>2. \A u \in Threads : u \in Owners(m) => u = t
    BY <2>0, <2>1 DEF IInv, OneOwner, Owners
  <2>3. slots[m].busy
    BY <2>0, <2>1 DEF IInv, BusyOwned, Owners
  <2>4. Frame(t, m)
    BY <2>0, <1>12, <2>1 DEF LoadOk, Frame, Goto, NotifyAll, Return, Update, Expecting
  <2>5. Agree(t, m)'
    BY <2>0, <1>12, <2>1, <2>3 DEF LoadOk, Agree, Goto, NotifyAll, Return, Absent, Update, Expecting
  <2>6. QED
    BY <2>0, <1>0, <2>1, <2>2, <2>4, <2>5, OwnerStep
<1>13. ASSUME NEW t \in Threads, LoadErr(t) PROVE IInv'
  <2>0. PICK m \in Models : m = want[t]
    BY <1>13 DEF LoadErr, IInv, WantsSomething
  <2>1. /\ pc[t] \in Owning
        /\ slots[m].state = "loading"
    BY <2>0, <1>13 DEF LoadErr, IInv, WantsSomething, OwnerSees
  <2>2. \A u \in Threads : u \in Owners(m) => u = t
    BY <2>0, <2>1 DEF IInv, OneOwner, Owners
  <2>3. slots[m].busy
    BY <2>0, <2>1 DEF IInv, BusyOwned, Owners
  <2>4. Frame(t, m)
    BY <2>0, <1>13, <2>1 DEF LoadErr, Frame, Goto, NotifyAll, Return, Expecting
  <2>5. Agree(t, m)'
    BY <2>0, <1>13, <2>1, <2>3 DEF LoadErr, Agree, Goto, NotifyAll, Return, Absent, Expecting
  <2>6. QED
    BY <2>0, <1>0, <2>1, <2>2, <2>4, <2>5, OwnerStep
<1>14. ASSUME NEW t \in Threads, CheckOut(t) PROVE IInv'
  <2>0. PICK m \in Models : m = want[t]
    BY <1>14 DEF CheckOut, IInv, WantsSomething
  <2>1. /\ pc[t] \in Owning
        /\ slots[m].state = "ready"
    BY <2>0, <1>14 DEF CheckOut, IInv, WantsSomething, OwnerSees
  <2>2. \A u \in Threads : u \in Owners(m) => u = t
    BY <2>0, <2>1 DEF IInv, OneOwner, Owners
  <2>3. slots[m].busy
    BY <2>0, <2>1 DEF IInv, BusyOwned, Owners
  <2>4. Frame(t, m)
    BY <2>0, <1>14, <2>1 DEF CheckOut, Frame, Goto, NotifyAll, Return, Expecting
  <2>5. Agree(t, m)'
    BY <2>0, <1>14, <2>1, <2>3 DEF CheckOut, Agree, Goto, NotifyAll, Return, Absent, Expecting
  <2>6. QED
    BY <2>0, <1>0, <2>1, <2>2, <2>4, <2>5, OwnerStep
<1>15. ASSUME NEW t \in Threads, CheckIn(t) PROVE IInv'
  <2>0. PICK m \in Models : m = want[t]
    BY <1>15 DEF CheckIn, IInv, WantsSomething
  <2>1. /\ pc[t] \in Owning
        /\ slots[m].state = "generating"
    BY <2>0, <1>15 DEF CheckIn, IInv, WantsSomething, OwnerSees
  <2>2. \A u \in Threads : u \in Owners(m) => u = t
    BY <2>0, <2>1 DEF IInv, OneOwner, Owners
  <2>3. slots[m].busy
    BY <2>0, <2>1 DEF IInv, BusyOwned, Owners
  <2>4. Frame(t, m)
    BY <2>0, <1>15, <2>1 DEF CheckIn, Frame, Goto, NotifyAll, Return, Update, Expecting
  <2>5. Agree(t, m)'
    BY <2>0, <1>15, <2>1, <2>3
    DEF CheckIn, Agree, Goto, NotifyAll, Return, Absent, Update, Expecting
  <2>6. QED
    BY <2>0, <1>0, <2>1, <2>2, <2>4, <2>5, OwnerStep
<1>16. ASSUME NEW t \in Threads, DropGuard(t) PROVE IInv'
  <2>0. PICK m \in Models : m = want[t]
    BY <1>16 DEF DropGuard, IInv, WantsSomething
  <2>1. /\ pc[t] \in Owning
        /\ slots[m].state = IF pc[t] = "generating" THEN "generating"
                                                      ELSE "ready"
    BY <2>0, <1>16 DEF DropGuard, IInv, WantsSomething, OwnerSees
  <2>2. \A u \in Threads : u \in Owners(m) => u = t
    BY <2>0, <2>1 DEF IInv, OneOwner, Owners
  <2>3. slots[m].busy
    BY <2>0, <2>1 DEF IInv, BusyOwned, Owners
  <2>4. Frame(t, m)
    BY <2>0, <1>16, <2>1 DEF DropGuard, Frame, Goto, NotifyAll, Return, Update
  <2>5. Agree(t, m)'
    BY <2>0, <1>16, <2>1, <2>3 DEF DropGuard, Agree, Goto, NotifyAll, Return, Absent, Update
  <2>6. QED
    BY <2>0, <1>0, <2>1, <2>2, <2>4, <2>5, OwnerStep
<1>17. ASSUME NEW m \in Models, Unload(m) PROVE IInv'
  BY <1>0, <1>17
  DEF Unload, IInv, NeverPanics, WantsSomething, OwnerSees, SlotShape,
      OneOwner, BusyOwned, Owners, Absent, Goto, NotifyAll, Return, AtLoopTop
<1>18. ASSUME NEW t \in Threads, Unwind(t) PROVE IInv'
  <2>0. PICK m \in Models : m = want[t]
    BY <1>18 DEF Unwind, IInv, WantsSomething
  <2>1. /\ pc[t] \in Owning
        /\ slots[m].state = "loading"
    BY <2>0, <1>18 DEF Unwind, IInv, WantsSomething, OwnerSees
  <2>2. \A u \in Threads : u \in Owners(m) => u = t
    BY <2>0, <2>1 DEF IInv, OneOwner, Owners
  <2>3. slots[m].busy
    BY <2>0, <2>1 DEF IInv, BusyOwned, Owners
  <2>4. Frame(t, m)
    BY <2>0, <1>18, <2>1 DEF Unwind, Frame, Goto
  <2>5. Agree(t, m)'
    BY <2>0, <1>18, <2>1, <2>3 DEF Unwind, Agree, Goto, Absent
  <2>6. QED
    BY <2>0, <1>0, <2>1, <2>2, <2>4, <2>5, OwnerStep
<1>19. CASE UNCHANGED vars
  BY <1>19
  DEF vars, IInv, NeverPanics, WantsSomething, OwnerSees, SlotShape, OneOwner,
      BusyOwned, Owners, Absent
<1>20. QED
  BY <1>1, <1>2, <1>3, <1>4, <1>5, <1>6, <1>7, <1>8, <1>9, <1>10, <1>11,
     <1>12, <1>13, <1>14, <1>15, <1>16, <1>17, <1>18, <1>19 DEF Next, Step

\* The invariant, in every state.
LEMMA Invariance == Spec => []IInv
<1>1. IInv /\ [Next]_vars => IInv'
  BY InvStep
<1>2. QED
  BY InitInv, <1>1, PTL DEF Spec

-----------------------------------------------------------------------------
(* The number of resident models.                                          *)

\* Only StartLoad brings a model into the table.
LEMMA OthersBringNothing ==
  ASSUME IInv, [Next]_vars, \A t \in Threads : ~StartLoad(t)
  PROVE  Resident' \subseteq Resident
<1> SUFFICES ASSUME NEW m \in Models, slots[m].state = "absent"
             PROVE  slots'[m].state = "absent"
  BY DEF Resident
<1> USE DEF IInv, TypeOK, SlotSet, Resident, Absent
<1>1. ASSUME NEW t \in Threads, NEW x \in Models, Request(t, x)
      PROVE  slots'[m].state = "absent"
  BY <1>1 DEF Request
<1>2. ASSUME NEW t \in Threads, DeadlinePasses(t) \/ PollWake(t) \/ Unwind(t)
      PROVE  slots'[m].state = "absent"
  BY <1>2 DEF DeadlinePasses, PollWake, Unwind
<1>3. ASSUME NEW t \in Threads,
             TimesOut(t) \/ Enqueue(t) \/ Overflow(t) \/ CheckBudget(t)
      PROVE  slots'[m].state = "absent"
  BY <1>3 DEF TimesOut, Enqueue, Overflow, CheckBudget
<1>4. ASSUME NEW t \in Threads, Admit(t) PROVE slots'[m].state = "absent"
  BY <1>4 DEF Admit, Idle
<1>5. ASSUME NEW t \in Threads, Evict(t) PROVE slots'[m].state = "absent"
  BY <1>5 DEF Evict
<1>6. ASSUME NEW t \in Threads, SetLoadingBudget(t)
      PROVE  slots'[m].state = "absent"
  BY <1>6 DEF SetLoadingBudget, Update
<1>7. ASSUME NEW t \in Threads, LoadOk(t) PROVE slots'[m].state = "absent"
  BY <1>7 DEF LoadOk, Update
<1>8. ASSUME NEW t \in Threads, LoadErr(t) PROVE slots'[m].state = "absent"
  BY <1>8 DEF LoadErr
<1>9. ASSUME NEW t \in Threads, CheckOut(t) PROVE slots'[m].state = "absent"
  BY <1>9 DEF CheckOut
<1>10. ASSUME NEW t \in Threads, CheckIn(t) PROVE slots'[m].state = "absent"
  BY <1>10 DEF CheckIn, Update
<1>11. ASSUME NEW t \in Threads, DropGuard(t) PROVE slots'[m].state = "absent"
  BY <1>11 DEF DropGuard, Update
<1>12. ASSUME NEW x \in Models, Unload(x) PROVE slots'[m].state = "absent"
  BY <1>12 DEF Unload
<1>13. CASE UNCHANGED vars
  BY <1>13 DEF vars
<1>14. QED
  BY <1>1, <1>2, <1>3, <1>4, <1>5, <1>6, <1>7, <1>8, <1>9, <1>10, <1>11,
     <1>12, <1>13 DEF Next, Step

\* A slot is added only where there is room.
LEMMA CapacityStep ==
  ASSUME IInv, WithinCapacity, [Next]_vars
  PROVE  WithinCapacity'
<1>1. IsFiniteSet(Resident) /\ Cardinality(Resident) \in Nat
  BY ManagerAssumption, FS_Subset, FS_CardinalityType DEF Resident
<1>2. ASSUME NEW t \in Threads, StartLoad(t) PROVE WithinCapacity'
  <2>1. Resident' \subseteq Resident \cup {want[t]}
    BY <1>2 DEF StartLoad, Resident, IInv, TypeOK
  <2>2. /\ IsFiniteSet(Resident \cup {want[t]})
        /\ Cardinality(Resident \cup {want[t]}) = Cardinality(Resident) + 1
    BY <1>1, <1>2, FS_AddElement DEF StartLoad
  <2>3. Cardinality(Resident') <= Cardinality(Resident \cup {want[t]})
        /\ Cardinality(Resident') \in Nat
    BY <2>1, <2>2, FS_Subset, FS_CardinalityType
  <2>4. Cardinality(Resident) < Capacity
    BY <1>1, <1>2, CapacityType DEF StartLoad, Full
  <2>5. QED
    BY <1>1, <2>2, <2>3, <2>4, CapacityType DEF WithinCapacity, Capacity
<1>3. CASE \A t \in Threads : ~StartLoad(t)
  <2>1. Cardinality(Resident') <= Cardinality(Resident)
        /\ Cardinality(Resident') \in Nat
    BY <1>1, <1>3, OthersBringNothing, FS_Subset, FS_CardinalityType
  <2>2. QED
    BY <1>1, <2>1, CapacityType DEF WithinCapacity, Capacity
<1>4. QED
  BY <1>2, <1>3

-----------------------------------------------------------------------------
(* The count of waiters.                                                   *)

\* A thread at the top of the loop takes itself out of the count.
LEMMA QueueWithout ==
  ASSUME TypeOK, WaitersCounted, NEW t \in Threads, AtLoopTop(t)
  PROVE  /\ IsFiniteSet(Queued \ {t})
         /\ Cardinality(Queued \ {t}) = WaitersAt(t)
<1>1. IsFiniteSet(Queued) /\ Cardinality(Queued) \in Nat
  BY ManagerAssumption, FS_Subset, FS_CardinalityType DEF Queued
<1>2. CASE t \in Queued
  <2>1. /\ IsFiniteSet(Queued \ {t})
        /\ Cardinality(Queued \ {t}) = Cardinality(Queued) - 1
        /\ Cardinality(Queued \ {t}) \in Nat
    BY <1>1, <1>2, FS_RemoveElement, FS_CardinalityType
  <2>2. pc[t] = "woken"
    BY <1>2 DEF Queued, AtLoopTop
  <2>3. QED
    BY <1>1, <2>1, <2>2 DEF WaitersAt, WaitersCounted
<1>3. CASE t \notin Queued
  <2>1. Queued \ {t} = Queued
    BY <1>3
  <2>2. pc[t] # "woken"
    BY <1>3 DEF Queued
  <2>3. QED
    BY <1>1, <2>1, <2>2 DEF WaitersAt, WaitersCounted
<1>4. QED
  BY <1>2, <1>3

\* A thread counts itself in when it begins to wait and out when it ends.
LEMMA WaitersStep ==
  ASSUME IInv, WaitersCounted, [Next]_vars
  PROVE  WaitersCounted'
<1>t. TypeOK
  BY DEF IInv
<1> USE <1>t DEF TypeOK, PCs, Goto, NotifyAll, AtLoopTop
<1>1. ASSUME NEW t \in Threads,
             \/ TimesOut(t) \/ Admit(t) \/ StartLoad(t) \/ Evict(t)
             \/ Overflow(t)
      PROVE  WaitersCounted'
  <2>1. AtLoopTop(t) /\ waiters' = WaitersAt(t)
    BY <1>1 DEF TimesOut, Admit, StartLoad, Evict, Overflow
  <2>2. Queued' = Queued \ {t}
    BY <1>1 DEF TimesOut, Admit, StartLoad, Evict, Overflow, Queued
  <2>3. QED
    BY <2>1, <2>2, QueueWithout DEF WaitersCounted
<1>2. ASSUME NEW t \in Threads, Enqueue(t) PROVE WaitersCounted'
  <2>1. AtLoopTop(t) /\ waiters' = WaitersAt(t) + 1
    BY <1>2 DEF Enqueue
  <2>2. Queued' = (Queued \ {t}) \cup {t}
    BY <1>2 DEF Enqueue, Queued
  <2>3. QED
    BY <2>1, <2>2, QueueWithout, FS_AddElement DEF WaitersCounted
<1>3. ASSUME waiters' = waiters, Queued' = Queued PROVE WaitersCounted'
  BY <1>3 DEF WaitersCounted
<1>4. ASSUME NEW t \in Threads, NEW m \in Models, Request(t, m)
      PROVE  WaitersCounted'
  BY <1>3, <1>4 DEF Request, Queued
<1>5. ASSUME NEW t \in Threads, DeadlinePasses(t) \/ PollWake(t) \/ Unwind(t)
      PROVE  WaitersCounted'
  BY <1>3, <1>5 DEF DeadlinePasses, PollWake, Unwind, Queued
<1>6. ASSUME NEW t \in Threads,
             \/ SetLoadingBudget(t) \/ CheckBudget(t) \/ LoadOk(t)
             \/ LoadErr(t) \/ CheckOut(t) \/ CheckIn(t) \/ DropGuard(t)
      PROVE  WaitersCounted'
  <2>1. waiters' = waiters
    BY <1>6 DEF SetLoadingBudget, CheckBudget, LoadOk, LoadErr, CheckOut,
                CheckIn, DropGuard
  <2>2. Queued' = Queued
    BY <1>6 DEF SetLoadingBudget, CheckBudget, LoadOk, LoadErr, CheckOut,
                CheckIn, DropGuard, Expecting, Queued
  <2>3. QED
    BY <1>3, <2>1, <2>2
<1>7. ASSUME NEW m \in Models, Unload(m) PROVE WaitersCounted'
  BY <1>3, <1>7 DEF Unload, Queued
<1>8. CASE UNCHANGED vars
  BY <1>3, <1>8 DEF vars, Queued
<1>9. QED
  BY <1>1, <1>2, <1>4, <1>5, <1>6, <1>7, <1>8 DEF Next, Step

-----------------------------------------------------------------------------
(* Sums of budgets.  MapThenSumSet takes the elements of a set in an order *)
(* of its own; what is known of it follows by taking a smallest set for    *)
(* which it would fail.                                                    *)

SumOf(s, S) == MapThenSumSet(LAMBDA m : s[m].budget, S)

First(S) == CHOOSE x \in S : TRUE
Sums(s, S) ==
  CHOOSE f : f = [T \in SUBSET S |-> IF T = {} THEN 0
                                     ELSE s[First(T)].budget + f[T \ {First(T)}]]

\* SumOf by the functions that make it.
LEMMA SumOfIs == \A s, S : SumOf(s, S) = Sums(s, S)[S]
  BY DEF SumOf, Sums, First, MapThenSumSet, MapThenFoldSet

\* Every non-empty set of naturals has a least element.
LEMMA LeastNat ==
  ASSUME NEW T \in SUBSET Nat, T # {}
  PROVE  \E x \in T : \A y \in T : x <= y
<1> DEFINE R == OpToRel(<, Nat)
<1>1. \A x, y \in Nat : <<x, y>> \in R <=> x < y
  BY DEF OpToRel
<1>2. \E x \in T : \A y \in T : ~(<<y, x>> \in R)
  <2>1. IsWellFoundedOn(R, Nat)
    BY NatLessThanWellFounded
  <2> HIDE DEF R
  <2>2. QED
    BY <2>1, WFMin
<1>3. PICK x \in T : \A y \in T : ~(<<y, x>> \in R)
  BY <1>2
<1>4. \A y \in T : ~(y < x)
  BY <1>1, <1>3
<1>5. QED
  BY <1>4

\* Among sets of models there is a smallest one.
LEMMA SmallestSet ==
  ASSUME NEW Bad \in SUBSET SUBSET Models, Bad # {}
  PROVE  \E S \in Bad : \A T \in Bad : T \subseteq S => T = S
<1>1. \A S \in SUBSET Models : IsFiniteSet(S) /\ Cardinality(S) \in Nat
  BY ManagerAssumption, FS_Subset, FS_CardinalityType
<1> DEFINE sizes == {Cardinality(S) : S \in Bad}
<1>2. sizes \in SUBSET Nat /\ sizes # {}
  BY <1>1
<1>3. PICK n \in sizes : \A k \in sizes : n <= k
  BY <1>2, LeastNat
<1>4. PICK S \in Bad : Cardinality(S) = n
  OBVIOUS
<1>5. ASSUME NEW T \in Bad, T \subseteq S PROVE T = S
  <2>1. IsFiniteSet(S) /\ T \in SUBSET S /\ Cardinality(T) \in Nat /\ Cardinality(S) \in Nat
    BY <1>1, <1>5
  <2>2. Cardinality(T) <= Cardinality(S) /\ (Cardinality(S) = Cardinality(T) => S = T)
    BY <2>1, FS_Subset
  <2>3. Cardinality(S) <= Cardinality(T)
    BY <1>3, <1>4, <1>5
  <2>4. QED
    BY <2>1, <2>2, <2>3
<1>6. QED
  BY <1>5

Budgeted == [Models -> SlotSet]

\* A slot has a budget.
LEMMA BudgetType == \A s \in Budgeted, m \in Models : s[m].budget \in Nat
<1> TAKE s \in Budgeted, m \in Models
<1>1. s[m] \in SlotSet
  BY DEF Budgeted
<1>2. s[m].budget \in Costs \cup {0}
  BY <1>1 DEF SlotSet
<1>3. Costs \cup {0} \subseteq Nat
  BY ManagerAssumption
<1>4. QED
  BY <1>2, <1>3

\* f gives the sums of all subsets of S.
AreSums(f, s, S) ==
  f = [T \in SUBSET S |-> IF T = {} THEN 0 ELSE s[First(T)].budget + f[T \ {First(T)}]]

\* The element taken first is one of the set.
LEMMA FirstIn == \A S : S # {} => First(S) \in S
  BY DEF First

\* What it gives for a subset does not depend on the set it is part of.
LEMMA SumsAgree ==
  ASSUME NEW s, NEW S \in SUBSET Models, NEW T \in SUBSET S,
         NEW f, NEW g, AreSums(f, s, S), AreSums(g, s, T)
  PROVE  \A U \in SUBSET T : f[U] = g[U]
<1> DEFINE Bad == {U \in SUBSET T : f[U] # g[U]}
<1>1. SUFFICES ASSUME Bad # {} PROVE FALSE
  OBVIOUS
<1>2. Bad \in SUBSET SUBSET Models
  OBVIOUS
<1>3. PICK U \in Bad : \A V \in Bad : V \subseteq U => V = U
  BY <1>1, <1>2, SmallestSet
<1>4. U \in SUBSET S /\ U \in SUBSET T /\ f[U] # g[U]
  OBVIOUS
<1>5. /\ f[U] = IF U = {} THEN 0 ELSE s[First(U)].budget + f[U \ {First(U)}]
      /\ g[U] = IF U = {} THEN 0 ELSE s[First(U)].budget + g[U \ {First(U)}]
  BY <1>4 DEF AreSums
<1>6. U # {} /\ First(U) \in U
  BY <1>4, <1>5, FirstIn
<1>7. f[U \ {First(U)}] = g[U \ {First(U)}]
  <2>1. U \ {First(U)} \notin Bad
    BY <1>3, <1>6
  <2>2. QED
    BY <1>4, <2>1
<1>8. QED
  BY <1>4, <1>5, <1>6, <1>7

\* The function that sums the subsets of S is one of them.
LEMMA SumsExist ==
  ASSUME NEW s, NEW S \in SUBSET Models
  PROVE  AreSums(Sums(s, S), s, S)
<1> DEFINE Bad == {T \in SUBSET Models : ~AreSums(Sums(s, T), s, T)}
<1>1. SUFFICES ASSUME Bad # {} PROVE FALSE
  OBVIOUS
<1>0. Bad \in SUBSET SUBSET Models
  OBVIOUS
<1>2. PICK T \in Bad : \A V \in Bad : V \subseteq T => V = T
  BY <1>0, <1>1, SmallestSet
<1>3. \A V \in SUBSET T : V # T => AreSums(Sums(s, V), s, V)
  BY <1>2
<1> DEFINE part(V) == V \ {First(V)}
           sum(V) == IF V = {} THEN 0 ELSE s[First(V)].budget + Sums(s, part(V))[part(V)]
           f == [V \in SUBSET T |-> sum(V)]
<1>4. ASSUME NEW V \in SUBSET T, V # T PROVE Sums(s, V)[V] = sum(V)
  <2>1. AreSums(Sums(s, V), s, V)
    BY <1>3, <1>4
  <2>2. Sums(s, V)[V] = IF V = {} THEN 0 ELSE s[First(V)].budget + Sums(s, V)[part(V)]
    BY <2>1 DEF AreSums
  <2>3. CASE V = {}
    BY <2>2, <2>3
  <2>4. CASE V # {}
    <3>1. part(V) \in SUBSET V /\ part(V) \in SUBSET T /\ part(V) # T
      BY <2>4, FirstIn
    <3>2. AreSums(Sums(s, part(V)), s, part(V))
      BY <1>3, <3>1
    <3>3. Sums(s, V)[part(V)] = Sums(s, part(V))[part(V)]
      <4>1. V \in SUBSET Models
        OBVIOUS
      <4> HIDE DEF part
      <4>2. QED
        BY <2>1, <3>1, <3>2, <4>1, SumsAgree
    <3>4. QED
      BY <2>2, <2>4, <3>3
  <2>5. QED
    BY <2>3, <2>4
<1>5. AreSums(f, s, T)
  <2>1. ASSUME NEW V \in SUBSET T
        PROVE  f[V] = IF V = {} THEN 0 ELSE s[First(V)].budget + f[V \ {First(V)}]
    <3>1. CASE V = {}
      BY <3>1
    <3>2. CASE V # {}
      <4>1. part(V) \in SUBSET T /\ part(V) # T
        BY <3>2, FirstIn
      <4>2. f[part(V)] = Sums(s, part(V))[part(V)]
        <5>1. f[part(V)] = sum(part(V))
          BY <4>1
        <5> HIDE DEF f, part, sum
        <5>2. QED
          BY <1>4, <4>1, <5>1
      <4>3. QED
        BY <3>2, <4>2
    <3>3. QED
      BY <3>1, <3>2
  <2> HIDE DEF sum
  <2>2. f = [V \in SUBSET T |-> f[V]]
    OBVIOUS
  <2> HIDE DEF f
  <2>3. QED
    BY <2>1, <2>2 DEF AreSums
<1> HIDE DEF f
<1>6. AreSums(Sums(s, T), s, T)
  BY <1>5 DEF AreSums, Sums
<1>7. QED
  BY <1>2, <1>6

\* The sum, one model at a time.
LEMMA SumFirst ==
  ASSUME NEW s, NEW S \in SUBSET Models
  PROVE  SumOf(s, S) = IF S = {} THEN 0
                       ELSE s[First(S)].budget + SumOf(s, S \ {First(S)})
<1>1. AreSums(Sums(s, S), s, S)
  BY SumsExist
<1>2. Sums(s, S)[S] = IF S = {} THEN 0
                      ELSE s[First(S)].budget + Sums(s, S)[S \ {First(S)}]
  BY <1>1 DEF AreSums
<1>3. CASE S = {}
  BY <1>2, <1>3, SumOfIs
<1>4. CASE S # {}
  <2> DEFINE T == S \ {First(S)}
  <2>1. T \in SUBSET Models /\ T \in SUBSET S
    OBVIOUS
  <2> HIDE DEF T
  <2>2. AreSums(Sums(s, T), s, T)
    BY <2>1, SumsExist
  <2>3. Sums(s, S)[T] = Sums(s, T)[T]
    BY <1>1, <2>1, <2>2, SumsAgree
  <2>4. QED
    BY <1>2, <1>4, <2>3, SumOfIs DEF T
<1>5. QED
  BY <1>3, <1>4

\* A sum of budgets is a number.
LEMMA SumType ==
  ASSUME NEW s \in Budgeted
  PROVE  \A S \in SUBSET Models : SumOf(s, S) \in Nat
<1> DEFINE Bad == {S \in SUBSET Models : SumOf(s, S) \notin Nat}
<1>1. SUFFICES ASSUME Bad # {} PROVE FALSE
  OBVIOUS
<1>0. Bad \in SUBSET SUBSET Models
  OBVIOUS
<1>2. PICK S \in Bad : \A V \in Bad : V \subseteq S => V = S
  BY <1>0, <1>1, SmallestSet
<1>3. S # {} /\ First(S) \in S /\ S \in SUBSET Models
  <2>1. S \in SUBSET Models /\ SumOf(s, S) \notin Nat
    BY <1>2
  <2>2. S = {} => SumOf(s, S) = 0
    BY <2>1, SumFirst
  <2>3. S # {}
    BY <2>1, <2>2
  <2>4. QED
    BY <2>1, <2>3, FirstIn
<1>4. SumOf(s, S \ {First(S)}) \in Nat
  BY <1>2, <1>3
<1>5. s[First(S)].budget \in Nat
  BY <1>3, BudgetType
<1>6. SumOf(s, S) = s[First(S)].budget + SumOf(s, S \ {First(S)})
  BY <1>3, SumFirst
<1>7. QED
  BY <1>2, <1>4, <1>5, <1>6

\* Any model may be the first.
LEMMA SumTake ==
  ASSUME NEW s \in Budgeted
  PROVE  \A S \in SUBSET Models, m \in Models :
           m \in S => SumOf(s, S) = s[m].budget + SumOf(s, S \ {m})
<1> DEFINE Bad == {S \in SUBSET Models :
                     \E m \in S : SumOf(s, S) # s[m].budget + SumOf(s, S \ {m})}
<1>1. SUFFICES ASSUME Bad # {} PROVE FALSE
  OBVIOUS
<1>0. Bad \in SUBSET SUBSET Models
  OBVIOUS
<1>2. PICK S \in Bad : \A V \in Bad : V \subseteq S => V = S
  BY <1>0, <1>1, SmallestSet
<1>3. PICK m \in S : SumOf(s, S) # s[m].budget + SumOf(s, S \ {m})
  BY <1>2
<1> DEFINE x == First(S)
<1>4. x \in S /\ S \in SUBSET Models
  BY <1>3, FirstIn
<1>5. SumOf(s, S) = s[x].budget + SumOf(s, S \ {x})
  BY <1>3, <1>4, SumFirst
<1> HIDE DEF x
<1>6. m # x
  BY <1>3, <1>5
<1>7. SumOf(s, S \ {x}) = s[m].budget + SumOf(s, (S \ {x}) \ {m})
  <2>1. S \ {x} \notin Bad
    BY <1>2, <1>4
  <2>2. S \ {x} \in SUBSET Models /\ m \in S \ {x}
    BY <1>3, <1>4, <1>6
  <2>3. QED
    BY <2>1, <2>2
<1>8. SumOf(s, S \ {m}) = s[x].budget + SumOf(s, (S \ {m}) \ {x})
  <2>1. S \ {m} \notin Bad
    BY <1>2, <1>3
  <2>2. S \ {m} \in SUBSET Models /\ x \in S \ {m}
    BY <1>3, <1>4, <1>6
  <2>3. QED
    BY <2>1, <2>2
<1>9. (S \ {x}) \ {m} = (S \ {m}) \ {x}
  OBVIOUS
<1>10. /\ SumOf(s, (S \ {m}) \ {x}) \in Nat
       /\ s[x].budget \in Nat /\ s[m].budget \in Nat
  <2>1. (S \ {m}) \ {x} \in SUBSET Models
    BY <1>4
  <2>2. QED
    BY <1>3, <1>4, <2>1, SumType, BudgetType
<1> DEFINE rest == SumOf(s, (S \ {m}) \ {x})
<1>11. /\ SumOf(s, S) = s[x].budget + (s[m].budget + rest)
       /\ SumOf(s, S \ {m}) = s[x].budget + rest
  BY <1>5, <1>7, <1>8, <1>9
<1>12. s[x].budget + (s[m].budget + rest) = s[m].budget + (s[x].budget + rest)
  BY <1>10
<1>13. QED
  BY <1>3, <1>11, <1>12

\* More models have no smaller sum.
LEMMA SumMonotone ==
  ASSUME NEW s \in Budgeted, NEW T \in SUBSET Models
  PROVE  \A S \in SUBSET Models : T \subseteq S => SumOf(s, T) <= SumOf(s, S)
<1> DEFINE Bad == {S \in SUBSET Models : T \subseteq S /\ ~(SumOf(s, T) <= SumOf(s, S))}
<1>1. SUFFICES ASSUME Bad # {} PROVE FALSE
  OBVIOUS
<1>0. Bad \in SUBSET SUBSET Models
  OBVIOUS
<1>2. PICK S \in Bad : \A V \in Bad : V \subseteq S => V = S
  BY <1>0, <1>1, SmallestSet
<1>3. S \in SUBSET Models /\ T \subseteq S /\ ~(SumOf(s, T) <= SumOf(s, S))
  BY <1>2
<1>4. SumOf(s, T) \in Nat /\ SumOf(s, S) \in Nat
  BY <1>3, SumType
<1>5. PICK m \in S : m \notin T
  BY <1>3, <1>4
<1>6. S \ {m} \in SUBSET Models /\ T \subseteq S \ {m} /\ S \ {m} \notin Bad
  BY <1>2, <1>3, <1>5
<1>7. SumOf(s, T) <= SumOf(s, S \ {m}) /\ SumOf(s, S \ {m}) \in Nat
  BY <1>6, SumType
<1>8. SumOf(s, S) = s[m].budget + SumOf(s, S \ {m}) /\ s[m].budget \in Nat
  BY <1>3, <1>5, SumTake, BudgetType
<1>9. QED
  BY <1>3, <1>4, <1>7, <1>8

\* Equal budgets have equal sums.
LEMMA SumSame ==
  ASSUME NEW s, NEW r
  PROVE  \A S \in SUBSET Models :
           (\A m \in S : s[m].budget = r[m].budget) => SumOf(s, S) = SumOf(r, S)
<1> DEFINE Bad == {S \in SUBSET Models : /\ \A m \in S : s[m].budget = r[m].budget
                                         /\ SumOf(s, S) # SumOf(r, S)}
<1>1. SUFFICES ASSUME Bad # {} PROVE FALSE
  OBVIOUS
<1>0. Bad \in SUBSET SUBSET Models
  OBVIOUS
<1>2. PICK S \in Bad : \A V \in Bad : V \subseteq S => V = S
  BY <1>0, <1>1, SmallestSet
<1>3. /\ S \in SUBSET Models /\ SumOf(s, S) # SumOf(r, S)
      /\ \A m \in S : s[m].budget = r[m].budget
  BY <1>2
<1>4. S # {} /\ First(S) \in S
  BY <1>3, SumFirst, FirstIn
<1>5. S \ {First(S)} \in SUBSET Models /\ S \ {First(S)} \notin Bad
  BY <1>2, <1>3, <1>4
<1>6. SumOf(s, S \ {First(S)}) = SumOf(r, S \ {First(S)})
  BY <1>3, <1>5
<1>7. QED
  BY <1>3, <1>4, <1>6, SumFirst

-----------------------------------------------------------------------------
(* The budgets of what is in memory or being built.                        *)

\* The estimate a loader has passed on is the budget of its slot.
BudgetKnown ==
  \A t \in Threads : pc[t] \in {"budgeted", "building"} => slots[want[t]].budget = est[t]

CommittedModels == {m \in Models : Committed(m)}

\* BudgetsFit, in terms of sums.
LEMMA BudgetsAsSum == BudgetsFit <=> SumOf(slots, CommittedModels) <= Usable
  BY DEF BudgetsFit, SumOf, CommittedModels

\* The same, after a step.
LEMMA BudgetsAsSumNext == BudgetsFit' <=> SumOf(slots', CommittedModels') <= Usable
  BY DEF BudgetsFit, SumOf, CommittedModels, MapThenSumSet, MapThenFoldSet

\* Nothing more is committed, and what is has the budget it had.
NothingCommitted ==
  \A m \in Models : Committed(m)' => Committed(m) /\ slots'[m].budget = slots[m].budget

\* A step that commits nothing keeps within the memory.
LEMMA StillFit ==
  ASSUME IInv, BudgetsFit, NothingCommitted
  PROVE  BudgetsFit'
<1>1. CommittedModels' \subseteq CommittedModels /\ CommittedModels \in SUBSET Models
      /\ CommittedModels' \in SUBSET Models
  BY DEF NothingCommitted, CommittedModels
<1>2. slots \in Budgeted
  BY DEF IInv, TypeOK, Budgeted
<1>3. \A m \in CommittedModels' : slots'[m].budget = slots[m].budget
  BY DEF NothingCommitted, CommittedModels
<1>4. SumOf(slots', CommittedModels') = SumOf(slots, CommittedModels')
  BY <1>1, <1>3, SumSame
<1>5. SumOf(slots, CommittedModels') <= SumOf(slots, CommittedModels)
  BY <1>1, <1>2, SumMonotone
<1>6. SumOf(slots, CommittedModels') \in Nat /\ SumOf(slots, CommittedModels) \in Nat
  BY <1>1, <1>2, SumType
<1>7. QED
  BY <1>4, <1>5, <1>6, BudgetsAsSum, BudgetsAsSumNext, ManagerAssumption

\* A load that passes the guardrail was compared with all the budgets there are.
LEMMA ClearedFits ==
  ASSUME IInv, BudgetKnown, NEW t \in Threads, CheckBudget(t), Fits(t)
  PROVE  BudgetsFit'
<1> DEFINE m == want[t]
<1>1. m \in Models /\ slots[m].budget = est[t]
  BY DEF CheckBudget, IInv, WantsSomething, BudgetKnown
<1>2. slots \in Budgeted /\ slots' = slots
  BY DEF IInv, TypeOK, Budgeted, CheckBudget
<1>3. est[t] + SumOf(slots, Models \ {m}) <= Usable
  BY DEF Fits, BytesExcluding, SumOf
<1> HIDE DEF m
<1>4. SumOf(slots, Models) = est[t] + SumOf(slots, Models \ {m})
  BY <1>1, <1>2, SumTake
<1>5. CommittedModels' \in SUBSET Models
  BY DEF CommittedModels
<1>6. SumOf(slots, CommittedModels') <= SumOf(slots, Models)
  BY <1>2, <1>5, SumMonotone
<1>7. SumOf(slots, CommittedModels') \in Nat /\ SumOf(slots, Models) \in Nat
  BY <1>2, <1>5, SumType
<1>8. QED
  BY <1>2, <1>3, <1>4, <1>6, <1>7, BudgetsAsSumNext, ManagerAssumption

\* A budget is entered before it is checked, so that of two loads at a time the
\* one that checks last has the other's in its sum.
LEMMA BudgetsStep ==
  ASSUME IInv, BudgetKnown, BudgetsFit, [Next]_vars
  PROVE  BudgetKnown' /\ BudgetsFit'
<1> DEFINE Goal == BudgetKnown' /\ NothingCommitted
<1>t. /\ slots \in [Models -> SlotSet] /\ pc \in [Threads -> PCs]
      /\ want \in [Threads -> Models \cup {NoModel}] /\ est \in [Threads -> Costs \cup {0}]
  BY DEF IInv, TypeOK
\* A loader is the only owner of its slot, which is busy and loading.
<1>a. \A u \in Threads : pc[u] \in InLoader =>
        want[u] \in Models /\ slots[want[u]].state = "loading" /\ slots[want[u]].busy
  BY DEF IInv, OwnerSees, WantsSomething, BusyOwned, Owners
<1>b. \A u, v \in Threads : pc[u] \in InLoader /\ pc[v] \in InLoader \cup WithGuard
                            /\ want[u] = want[v] => u = v
  BY <1>a DEF IInv, OneOwner, Owners
<1>c. \A u \in Threads : pc[u] \in WithGuard =>
        want[u] \in Models /\ slots[want[u]].state \in {"ready", "generating"}
  BY DEF IInv, OwnerSees, WantsSomething
<1> USE <1>t DEF SlotSet, PCs, Committed, BudgetKnown, NothingCommitted, Owners, Resident,
                 Goto, NotifyAll, Return
<1>1. ASSUME NEW t \in Threads, NEW m \in Models, Request(t, m) PROVE Goal
  BY <1>1 DEF Request
<1>2. ASSUME NEW t \in Threads, DeadlinePasses(t) \/ PollWake(t) \/ Unwind(t) PROVE Goal
  BY <1>2 DEF DeadlinePasses, PollWake, Unwind
<1>3. ASSUME NEW t \in Threads, TimesOut(t) \/ Enqueue(t) \/ Overflow(t) PROVE Goal
  BY <1>3 DEF TimesOut, Enqueue, Overflow
<1>4. ASSUME NEW t \in Threads, Admit(t) PROVE Goal
  BY <1>4, <1>a DEF Admit, AtLoopTop, Idle
<1>5. ASSUME NEW t \in Threads, StartLoad(t) PROVE Goal
  BY <1>5, <1>a DEF StartLoad, AtLoopTop
<1>6. ASSUME NEW t \in Threads, Evict(t) PROVE Goal
  BY <1>6, <1>a DEF Evict, AtLoopTop, LeastRecent, Idle, Absent
<1>7. ASSUME NEW t \in Threads, SetLoadingBudget(t) PROVE Goal
  BY <1>7, <1>a, <1>b DEF SetLoadingBudget, Update
<1>8. ASSUME NEW t \in Threads, CheckBudget(t) PROVE BudgetKnown'
  BY <1>8 DEF CheckBudget
<1>9. ASSUME NEW t \in Threads, CheckBudget(t), ~Fits(t) PROVE Goal
  BY <1>9 DEF CheckBudget
<1>10. ASSUME NEW t \in Threads, LoadOk(t) PROVE Goal
  BY <1>10, <1>a, <1>b DEF LoadOk, Update, Expecting
<1>11. ASSUME NEW t \in Threads, LoadErr(t) PROVE Goal
  BY <1>11, <1>a, <1>b DEF LoadErr, Absent, Expecting
<1>12. ASSUME NEW t \in Threads, CheckOut(t) PROVE Goal
  BY <1>12, <1>a, <1>c DEF CheckOut, Expecting
<1>13. ASSUME NEW t \in Threads, CheckIn(t) PROVE Goal
  BY <1>13, <1>a, <1>c DEF CheckIn, Update, Expecting
<1>14. ASSUME NEW t \in Threads, DropGuard(t) PROVE Goal
  BY <1>14, <1>a, <1>c DEF DropGuard, Update
<1>15. ASSUME NEW m \in Models, Unload(m) PROVE Goal
  BY <1>15, <1>a DEF Unload, Absent
<1>16. ASSUME UNCHANGED vars PROVE Goal
  <2>1. UNCHANGED <<slots, pc, want, est>>
    BY <1>16 DEF vars
  <2>2. \A m \in Models : Committed(m)' <=> Committed(m)
    BY <2>1
  <2>3. QED
    BY <2>1, <2>2
<1> HIDE DEF SlotSet, PCs, Committed, BudgetKnown, NothingCommitted, Owners, Resident,
             Goto, NotifyAll, Return, Goal
<1>17. ASSUME NEW t \in Threads, CheckBudget(t) PROVE BudgetsFit'
  <2>1. CASE Fits(t)
    BY <1>17, <2>1, ClearedFits
  <2>2. CASE ~Fits(t)
    BY <1>9, <1>17, <2>2, StillFit DEF Goal
  <2>3. QED
    BY <2>1, <2>2
<1>18. CASE \E t \in Threads : CheckBudget(t)
  BY <1>8, <1>17, <1>18
<1>19. CASE \A t \in Threads : ~CheckBudget(t)
  <2>1. Goal
    BY <1>1, <1>2, <1>3, <1>4, <1>5, <1>6, <1>7, <1>10, <1>11, <1>12, <1>13, <1>14,
       <1>15, <1>16, <1>19 DEF Next, Step
  <2>2. QED
    BY <2>1, StillFit DEF Goal
<1>20. QED
  BY <1>18, <1>19

-----------------------------------------------------------------------------
(* The order of last use.                                                  *)

\* Of two models in the table one was used before the other.
Ordered ==
  \A x, y \in Resident : x # y => <<x, y>> \in usedBefore \/ <<y, x>> \in usedBefore

\* A model that is given back goes to the end of the order.
LEMMA OrderedStep ==
  ASSUME IInv, Ordered, [Next]_vars
  PROVE  Ordered'
<1>t. slots \in [Models -> SlotSet] /\ pc \in [Threads -> PCs]
      /\ \A t \in Threads : pc[t] # "idle" => want[t] \in Models
  BY DEF IInv, TypeOK, WantsSomething
<1>1. ASSUME Resident' \subseteq Resident, UNCHANGED usedBefore PROVE Ordered'
  BY <1>1 DEF Ordered
<1>2. ASSUME NEW m \in Models, Resident' \subseteq Resident \cup {m}, usedBefore' = Touch(m)
      PROVE  Ordered'
  BY <1>2 DEF Ordered, Touch
<1>3. ASSUME NEW m \in Models, Resident' \subseteq Resident \ {m}, usedBefore' = Forget(m)
      PROVE  Ordered'
  BY <1>3 DEF Ordered, Forget
<1> USE <1>t DEF PCs
<1>4. ASSUME NEW t \in Threads, StartLoad(t) PROVE Ordered'
  <2>1. want[t] \in Models
    BY <1>4 DEF StartLoad, AtLoopTop
  <2>2. Resident' \subseteq Resident \cup {want[t]}
    BY <1>4 DEF StartLoad, Resident
  <2>3. QED
    BY <1>2, <1>4, <2>1, <2>2 DEF StartLoad
<1>5. CASE \A t \in Threads : ~StartLoad(t)
  <2>1. Resident' \subseteq Resident
    BY <1>5, OthersBringNothing
  <2>2. ASSUME NEW t \in Threads, Admit(t) \/ LoadOk(t) \/ DropGuard(t) PROVE Ordered'
    <3>1. want[t] \in Models
      BY <2>2 DEF Admit, LoadOk, DropGuard, AtLoopTop
    <3>2. QED
      BY <1>1, <1>2, <2>1, <2>2, <3>1 DEF Admit, LoadOk, DropGuard
  <2>3. ASSUME NEW t \in Threads, Evict(t) PROVE Ordered'
    <3>1. PICK v \in Models : slots' = [slots EXCEPT ![v] = Absent] /\ usedBefore' = Forget(v)
      BY <2>3 DEF Evict
    <3>2. v \notin Resident'
      BY <3>1 DEF Resident, Absent
    <3>3. QED
      BY <1>3, <2>1, <3>1, <3>2
  <2>4. ASSUME NEW t \in Threads, LoadErr(t) PROVE Ordered'
    <3>1. want[t] \in Models
      BY <2>4 DEF LoadErr
    <3>2. want[t] \notin Resident'
      BY <2>4, <3>1 DEF LoadErr, Resident, Absent
    <3>3. QED
      BY <1>3, <2>1, <2>4, <3>1, <3>2 DEF LoadErr
  <2>5. ASSUME NEW m \in Models, Unload(m) PROVE Ordered'
    <3>1. m \notin Resident'
      BY <2>5 DEF Unload, Resident, Absent
    <3>2. QED
      BY <1>3, <2>1, <2>5, <3>1 DEF Unload
  <2>6. ASSUME NEW t \in Threads,
               \/ \E m \in Models : Request(t, m)
               \/ DeadlinePasses(t) \/ PollWake(t) \/ Unwind(t) \/ TimesOut(t) \/ Enqueue(t)
               \/ Overflow(t) \/ SetLoadingBudget(t) \/ CheckBudget(t) \/ CheckOut(t)
               \/ CheckIn(t)
        PROVE  Ordered'
    BY <1>1, <2>1, <2>6
    DEF Request, DeadlinePasses, PollWake, Unwind, TimesOut, Enqueue, Overflow,
        SetLoadingBudget, CheckBudget, CheckOut, CheckIn
  <2>7. CASE UNCHANGED vars
    BY <1>1, <2>1, <2>7 DEF vars
  <2>8. QED
    BY <1>5, <2>2, <2>3, <2>4, <2>5, <2>6, <2>7 DEF Next, Step
<1>6. QED
  BY <1>4, <1>5

\* The model that is evicted was used before every other idle one.
LEMMA FirstIsEvicted ==
  ASSUME IInv, Ordered, NEW t \in Threads, Evict(t),
         NEW x \in Models, NEW y \in Models, x # y, Idle(x), ~Idle(x)', Idle(y)
  PROVE  <<x, y>> \in usedBefore
<1>1. PICK v \in Models : LeastRecent(v) /\ slots' = [slots EXCEPT ![v] = Absent]
  BY DEF Evict
<1>2. v = x
  BY <1>1 DEF Idle, IInv, TypeOK
<1>3. <<y, x>> \notin usedBefore
  BY <1>1, <1>2 DEF LeastRecent
<1>4. QED
  BY <1>3 DEF Ordered, Resident, Idle

\* Idle models that stay idle keep their order; one that becomes idle comes
\* after those that were.
LEMMA ReleaseOrder ==
  ASSUME IInv, [Next]_vars,
         NEW x \in Models, NEW y \in Models, x # y, Idle(x), Idle(x)', Idle(y)',
         Idle(y) => <<x, y>> \in usedBefore
  PROVE  <<x, y>> \in usedBefore'
<1>t. slots \in [Models -> SlotSet] /\ pc \in [Threads -> PCs]
  BY DEF IInv, TypeOK
<1>a. \A t \in Threads : pc[t] \in InLoader \cup WithGuard =>
        want[t] \in Models /\ slots[want[t]].busy
  BY DEF IInv, WantsSomething, BusyOwned, Owners
<1>1. ASSUME NEW m, m # x, m # y, Idle(y), usedBefore' = Touch(m) \/ usedBefore' = Forget(m)
      PROVE  <<x, y>> \in usedBefore'
  BY <1>1 DEF Touch, Forget
<1> USE <1>t DEF PCs, SlotSet, Idle
<1>2. ASSUME NEW t \in Threads, Admit(t) PROVE <<x, y>> \in usedBefore'
  BY <1>1, <1>2 DEF Admit
<1>3. ASSUME NEW t \in Threads, StartLoad(t) PROVE <<x, y>> \in usedBefore'
  BY <1>1, <1>3 DEF StartLoad
<1>4. ASSUME NEW t \in Threads, LoadOk(t) PROVE <<x, y>> \in usedBefore'
  BY <1>1, <1>4, <1>a DEF LoadOk, Update
<1>5. ASSUME NEW t \in Threads, Evict(t) PROVE <<x, y>> \in usedBefore'
  <2>1. PICK v \in Models : slots' = [slots EXCEPT ![v] = Absent] /\ usedBefore' = Forget(v)
    BY <1>5 DEF Evict
  <2>2. QED
    BY <1>1, <2>1 DEF Absent
<1>6. ASSUME NEW t \in Threads, LoadErr(t) PROVE <<x, y>> \in usedBefore'
  BY <1>1, <1>6, <1>a DEF LoadErr, Absent
<1>7. ASSUME NEW m \in Models, Unload(m) PROVE <<x, y>> \in usedBefore'
  BY <1>1, <1>7 DEF Unload, Absent
<1>8. ASSUME NEW t \in Threads, DropGuard(t) PROVE <<x, y>> \in usedBefore'
  <2>1. want[t] \in Models /\ want[t] # x
    BY <1>8, <1>a DEF DropGuard
  <2>2. CASE want[t] = y
    <3>1. usedBefore' = Touch(y)
      BY <1>8, <2>2 DEF DropGuard, Update, Resident
    <3>2. x \in Resident \ {y}
      BY DEF Resident
    <3>3. QED
      BY <3>1, <3>2 DEF Touch
  <2>3. CASE want[t] # y
    <3>1. Idle(y)
      BY <1>8, <2>1, <2>3 DEF DropGuard, Update
    <3>2. QED
      BY <1>1, <1>8, <2>1, <2>3, <3>1 DEF DropGuard
  <2>4. QED
    BY <2>2, <2>3
<1>9. ASSUME NEW t \in Threads,
             \/ \E m \in Models : Request(t, m)
             \/ DeadlinePasses(t) \/ PollWake(t) \/ Unwind(t) \/ TimesOut(t) \/ Enqueue(t)
             \/ Overflow(t) \/ CheckBudget(t)
      PROVE  <<x, y>> \in usedBefore'
  BY <1>9 DEF Request, DeadlinePasses, PollWake, Unwind, TimesOut, Enqueue, Overflow,
              CheckBudget
<1>10. ASSUME NEW t \in Threads, SetLoadingBudget(t) PROVE <<x, y>> \in usedBefore'
  BY <1>10, <1>a DEF SetLoadingBudget, Update
<1>11. ASSUME NEW t \in Threads, CheckOut(t) \/ CheckIn(t) PROVE <<x, y>> \in usedBefore'
  BY <1>11, <1>a DEF CheckOut, CheckIn, Update
<1>12. CASE UNCHANGED vars
  BY <1>12 DEF vars
<1>13. QED
  BY <1>2, <1>3, <1>4, <1>5, <1>6, <1>7, <1>8, <1>9, <1>10, <1>11, <1>12 DEF Next, Step

-----------------------------------------------------------------------------
(* The theorems.                                                           *)

\* Type correctness, with the waiters counter between 0 and queue_depth
\* (models.rs:277-294): no path through acquire counts a waiter twice in or
\* lets more than queue_depth of them in.
THEOREM TypeCorrect == Spec => []TypeOK
<1>1. IInv => TypeOK
  BY DEF IInv
<1>2. QED
  BY Invariance, <1>1, PTL

\* The assertions of acquire and of the guard ("our Loading slot vanished",
\* "guard holds a live slot", "slot not ready while guarded") hold in every
\* interleaving of any number of callers.
THEOREM AssertionsHold == Spec => []NeverPanics
<1>1. IInv => NeverPanics
  BY DEF IInv
<1>2. QED
  BY Invariance, <1>1, PTL

\* A slot is busy exactly while one thread loads it or has its guard: access
\* is exclusive, and no path leaks the flag or drops it early.
THEOREM ExclusiveAccess == Spec => []BusyExactlyWhileOwned
<1>1. IInv => BusyExactlyWhileOwned
  BY DEF IInv, OneOwner, BusyOwned, BusyExactlyWhileOwned, Owners
<1>2. QED
  BY Invariance, <1>1, PTL

\* Loading, serving and idle slots together never exceed max_resident.
THEOREM CapacityRespected == Spec => []WithinCapacity
<1>1. Init => WithinCapacity
  <2>1. Init => Resident = {}
    BY DEF Init, Resident, Absent
  <2>2. QED
    BY <2>1, CapacityType, FS_EmptySet DEF WithinCapacity
<1>2. IInv /\ WithinCapacity /\ [Next]_vars => WithinCapacity'
  BY CapacityStep
<1>3. QED
  BY Invariance, <1>1, <1>2, PTL DEF Spec

\* The waiters counter is the number of threads in the queue.
THEOREM CountExact == Spec => []WaitersCounted
<1>1. Init => WaitersCounted
  <2>1. Init => Queued = {}
    BY DEF Init, Queued
  <2>2. QED
    BY <2>1, FS_EmptySet DEF WaitersCounted, Init
<1>2. IInv /\ WaitersCounted /\ [Next]_vars => WaitersCounted'
  BY WaitersStep
<1>3. QED
  BY Invariance, <1>1, <1>2, PTL DEF Spec

\* The budgets of all backends that exist or are being built fit in the usable
\* memory, however many loads run at a time (models.rs:103-105).
THEOREM MemoryFits == Spec => []BudgetsFit
<1>1. Init => BudgetKnown /\ BudgetsFit
  <2> SUFFICES ASSUME Init PROVE BudgetKnown /\ BudgetsFit
    OBVIOUS
  <2>1. BudgetKnown
    BY DEF Init, BudgetKnown
  <2>2. CommittedModels = {}
    BY DEF Init, CommittedModels, Committed, Owners, Absent
  <2>3. SumOf(slots, CommittedModels) = 0
    BY <2>2, SumFirst
  <2>4. QED
    BY <2>1, <2>3, BudgetsAsSum, ManagerAssumption
<1>2. IInv /\ BudgetKnown /\ BudgetsFit /\ [Next]_vars => BudgetKnown' /\ BudgetsFit'
  BY BudgetsStep
<1>3. QED
  BY Invariance, <1>1, <1>2, PTL DEF Spec

\* Eviction is least recently used (models.rs:3-4): idle models keep the order
\* in which they were given back, and making room takes the first of them.
THEOREM EvictionIsLRU == Spec => EvictsFirstReleased
<1>1. Init => Ordered
  BY DEF Init, Ordered, Resident, Absent
<1>2. IInv /\ Ordered /\ [Next]_vars => Ordered'
  BY OrderedStep
<1>3. ASSUME IInv, Ordered, [Next]_vars
      PROVE  \A x, y \in Models :
               LET before == <<x, y>> \in usedBefore
               IN x # y /\ Idle(x) =>
                    /\ Idle(x)' /\ Idle(y)' /\ (Idle(y) => before) => before'
                    /\ (\E t \in Threads : Evict(t)) /\ ~Idle(x)' /\ Idle(y) => before
  <2> TAKE x \in Models, y \in Models
  <2> DEFINE before == <<x, y>> \in usedBefore
  <2> SUFFICES ASSUME x # y, Idle(x)
               PROVE  /\ Idle(x)' /\ Idle(y)' /\ (Idle(y) => before) => before'
                      /\ (\E t \in Threads : Evict(t)) /\ ~Idle(x)' /\ Idle(y) => before
    OBVIOUS
  <2>1. ASSUME Idle(x)', Idle(y)', Idle(y) => before PROVE before'
    BY <1>3, <2>1, ReleaseOrder
  <2>2. ASSUME NEW t \in Threads, Evict(t), ~Idle(x)', Idle(y) PROVE before
    BY <1>3, <2>2, FirstIsEvicted
  <2>3. QED
    BY <2>1, <2>2
<1>4. QED
  BY Invariance, <1>1, <1>2, <1>3, PTL DEF Spec, EvictsFirstReleased

-----------------------------------------------------------------------------
(* Refinement.                                                             *)

\* ModelService counts with its own instance of FiniteSets.
LEMMA SameCount == \A S : Service!Cardinality(S) = Cardinality(S)
  BY Zenon DEF Service!Cardinality, Cardinality

\* A slot that is not busy serves nobody.
LEMMA NobodyServedBy ==
  ASSUME IInv, NEW m \in Models, ~slots[m].busy
  PROVE  Service!ServedBy(m) = {}
  BY DEF IInv, BusyOwned, Owners, Service!ServedBy

\* Each step of the manager is one of the service, or none.
LEMMA StepSimulates ==
  ASSUME IInv, WithinCapacity, [Next]_vars, IInv'
  PROVE  [Service!Next]_(Service!svcVars)
<1>t. TypeOK /\ TypeOK'
  BY DEF IInv
<1> USE <1>t DEF TypeOK, PCs, SlotSet, Goto, NotifyAll, AtLoopTop
<1>1. ASSUME NEW t \in Threads, NEW m \in Models, Request(t, m)
      PROVE  Service!Ask(t, m)
  BY <1>1 DEF Request, Service!Ask
<1>2. ASSUME NEW t \in Threads, TimesOut(t) \/ Overflow(t)
      PROVE  Service!Deny(t)
  BY <1>2 DEF TimesOut, Overflow, Return, Service!Deny
<1>3. ASSUME NEW t \in Threads, LoadErr(t) PROVE Service!Deny(t)
  <2>1. want[t] \in Models /\ slots[want[t]].state = "loading"
    BY <1>3 DEF LoadErr, IInv, OwnerSees, WantsSomething
  <2>2. \A m \in Models : slots'[m].state \in {"ready", "generating"}
                          <=> slots[m].state \in {"ready", "generating"}
    BY <1>3, <2>1 DEF LoadErr, Absent
  <2>3. QED
    BY <1>3, <2>1, <2>2 DEF LoadErr, Return, Expecting, Resident, Service!Deny
<1>4. ASSUME NEW t \in Threads, Admit(t) PROVE Service!Admit(t)
  <2>1. want[t] \in Models /\ slots[want[t]].state = "ready"
        /\ ~slots[want[t]].busy
    BY <1>4 DEF Admit, Idle, IInv, WantsSomething
  <2>2. Service!ServedBy(want[t]) = {}
    BY <2>1, NobodyServedBy
  <2>3. \A m \in Models : slots'[m].state = slots[m].state
    BY <1>4, <2>1 DEF Admit
  <2>4. QED
    BY <1>4, <2>1, <2>2, <2>3 DEF Admit, Service!Admit
<1>5. ASSUME NEW t \in Threads, LoadOk(t) PROVE Service!Load(t)
  <2>1. want[t] \in Models /\ slots[want[t]].state = "loading"
    BY <1>5 DEF LoadOk, IInv, OwnerSees, WantsSomething
  <2> DEFINE Serving == {m \in Models : slots[m].state \in {"ready", "generating"}}
  <2>2. Serving' = Serving \cup {want[t]}
    BY <1>5, <2>1 DEF LoadOk, Update, Resident
  <2>3. /\ IsFiniteSet(Serving) /\ want[t] \notin Serving
        /\ Serving \cup {want[t]} \subseteq Resident
    BY <2>1, ManagerAssumption, FS_Subset DEF Resident
  <2>4. /\ Cardinality(Serving \cup {want[t]}) = Cardinality(Serving) + 1
        /\ Cardinality(Serving) \in Nat
    BY <2>3, FS_AddElement, FS_CardinalityType
  <2>5. /\ Cardinality(Serving \cup {want[t]}) <= Cardinality(Resident)
        /\ Cardinality(Resident) \in Nat
    BY <2>3, ManagerAssumption, FS_Subset, FS_CardinalityType DEF Resident
  <2> HIDE DEF Serving
  <2>6. Cardinality(Serving) < Capacity
    BY <2>4, <2>5, CapacityType DEF WithinCapacity
  <2>7. QED
    BY <1>5, <2>1, <2>2, <2>3, <2>6, SameCount
    DEF Serving, LoadOk, Expecting, Resident, Service!Load
<1>6. ASSUME NEW t \in Threads, Evict(t)
      PROVE  \E m \in Models : Service!Release(m)
  <2>1. PICK v \in Models : /\ LeastRecent(v)
                            /\ slots' = [slots EXCEPT ![v] = Absent]
    BY <1>6 DEF Evict
  <2>2. Service!ServedBy(v) = {}
    BY <2>1, NobodyServedBy DEF LeastRecent, Idle
  <2>3. QED
    BY <1>6, <2>1, <2>2
    DEF Evict, LeastRecent, Idle, Absent, Service!Release
<1>7. ASSUME NEW t \in Threads, DropGuard(t) PROVE Service!GiveBack(t)
  <2>1. want[t] \in Models /\ slots[want[t]].state \in {"ready", "generating"}
    BY <1>7 DEF DropGuard, IInv, OwnerSees, WantsSomething
  <2>2. \A m \in Models : slots'[m].state \in {"ready", "generating"}
                          <=> slots[m].state \in {"ready", "generating"}
    BY <1>7, <2>1 DEF DropGuard, Update, Resident
  <2>3. QED
    BY <1>7, <2>1, <2>2 DEF DropGuard, Return, Service!GiveBack
<1>8. ASSUME NEW m \in Models, Unload(m) PROVE Service!Release(m)
  <2>1. slots[m].state = "ready"
    BY <1>8 DEF Unload, IInv, SlotShape, Resident
  <2>2. Service!ServedBy(m) = {}
    BY <1>8, NobodyServedBy DEF Unload
  <2>3. QED
    BY <1>8, <2>1, <2>2 DEF Unload, Absent, Service!Release
<1>9. ASSUME want' = want,
             \A u \in Threads : \/ pc'[u] = pc[u]
                                \/ /\ pc[u] \notin WithGuard \cup {"idle", "panicked"}
                                   /\ pc'[u] \notin WithGuard \cup {"idle", "panicked"}
                                \/ pc[u] \in WithGuard /\ pc'[u] \in WithGuard,
             \A m \in Models : slots'[m].state \in {"ready", "generating"}
                          <=> slots[m].state \in {"ready", "generating"}
      PROVE  UNCHANGED Service!svcVars
  BY <1>9 DEF Service!svcVars
<1>10. ASSUME NEW t \in Threads,
              \/ DeadlinePasses(t) \/ PollWake(t) \/ Enqueue(t)
              \/ CheckBudget(t) \/ Unwind(t)
       PROVE  UNCHANGED Service!svcVars
  BY <1>9, <1>10 DEF DeadlinePasses, PollWake, Enqueue, CheckBudget, Unwind
<1>11. ASSUME NEW t \in Threads, StartLoad(t)
       PROVE  UNCHANGED Service!svcVars
  BY <1>9, <1>11 DEF StartLoad, Resident, IInv, WantsSomething
<1>12. ASSUME NEW t \in Threads, SetLoadingBudget(t)
       PROVE  UNCHANGED Service!svcVars
  BY <1>9, <1>12 DEF SetLoadingBudget, Update, Resident
<1>13. ASSUME NEW t \in Threads, CheckOut(t)
       PROVE  UNCHANGED Service!svcVars
  BY <1>9, <1>13 DEF CheckOut, Expecting, IInv, OwnerSees, WantsSomething
<1>14. ASSUME NEW t \in Threads, CheckIn(t)
       PROVE  UNCHANGED Service!svcVars
  BY <1>9, <1>14 DEF CheckIn, Update, Expecting, Resident, IInv, OwnerSees,
                     WantsSomething
<1>15. CASE UNCHANGED vars
  BY <1>9, <1>15 DEF vars
<1>16. QED
  BY <1>1, <1>2, <1>3, <1>4, <1>5, <1>6, <1>7, <1>8, <1>10, <1>11, <1>12,
     <1>13, <1>14, <1>15 DEF Next, Step, Service!Next

\* Whatever the manager does with slots, queues, budgets and evictions, its
\* callers see a ModelService: one thread served per model, served models in
\* memory, at most max_resident of them.
THEOREM Refinement == Spec => ImplementsService
<1>1. Init => Service!Init
  BY DEF Init, Service!Init, Absent
<1>2. IInv /\ IInv' /\ WithinCapacity /\ [Next]_vars
        => [Service!Next]_(Service!svcVars)
  BY StepSimulates
<1>3. QED
  BY Invariance, CapacityRespected, <1>1, <1>2, PTL
  DEF Spec, ImplementsService, Service!Spec
=============================================================================
