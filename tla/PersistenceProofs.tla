------------------------- MODULE PersistenceProofs --------------------------
(***************************************************************************)
(* Theorems about what a MarkOS box keeps when its engine ends or its      *)
(* power is cut: the engine's document (StorePersist), for any number of   *)
(* handlers, documents of any number of writes and any number of changes,  *)
(* and the root file systems and boot files of an update (ABUpdate), for   *)
(* any number of polls.                                                    *)
(*                                                                         *)
(* The document: savers exclude writers, so while one of them has a file   *)
(* open the store stands still, every open file, and the file that will be *)
(* renamed or was renamed last, holds the version of the store; and the    *)
(* saver that began it last has it complete, or is at it, or has given up. *)
(*                                                                         *)
(* The update: neither property is inductive.  That dd spares the running  *)
(* root needs to know that a script only runs on a box that is up and      *)
(* knows its root, and that the try file stays needs to know that          *)
(* markos-update never writes one without a plan.                          *)
(***************************************************************************)
EXTENDS StorePersist, ABUpdate, TLAPS

-----------------------------------------------------------------------------
(* The document of the engine.                                             *)

StoreTyped ==
  /\ store \in 0..MaxVersion
  /\ content \in [Inodes -> Document]
  /\ json \in Inodes
  /\ tmp \in (Inodes \ {json}) \cup {NoFile}
  /\ pc \in [Handlers -> {"idle", "changed", "locked", "writing"}]
  /\ fd \in [Handlers -> Inodes \cup {NoFile}]
  /\ pos \in [Handlers -> 0..Chunks]
  /\ acked \in 0..MaxVersion
  /\ spoiled \subseteq Inodes

\* Handlers run in the engine process.
Alive == (\E h \in Handlers : pc[h] # "idle") => up

\* A handler that writes has a file, which holds the version of the store.
OpenIsStore ==
  \A h \in Handlers :
    pc[h] = "writing" => fd[h] \in Inodes /\ content[fd[h]].version = store

\* The file that the saver's rename acts on, or another one's has acted on.
Current == IF tmp = NoFile THEN json ELSE tmp

CurrentIsStore ==
  (\E h \in Handlers : pc[h] = "writing") => content[Current].version = store

\* The running engine, and markos.json, whole or not, know everything that
\* was acknowledged.
NothingForgotten ==
  /\ up => store >= acked
  /\ content[json].version >= acked

StoreIInv ==
  StoreTyped /\ Alive /\ OpenIsStore /\ CurrentIsStore /\ NothingForgotten

\* The first state.
LEMMA StoreInitInv == StoreInit => StoreIInv
  BY StoreAssumption
  DEF StoreInit, StoreIInv, StoreTyped, Alive, OpenIsStore, CurrentIsStore, Current,
      NothingForgotten, Document

\* Every step of a handler or saver keeps the invariant, and so does an exit.
LEMMA StoreStep ==
  ASSUME StoreIInv, [StoreNext]_storeVars
  PROVE  StoreIInv'
<1> USE StoreAssumption
    DEF StoreIInv, StoreTyped, Alive, OpenIsStore, CurrentIsStore, Current,
        NothingForgotten, Document, files
<1>1. ASSUME NEW h \in Handlers, Change(h) \/ ChangeRefused(h) PROVE StoreIInv'
  <2>1. \A g \in Handlers : pc[g] \notin {"locked", "writing"}
    BY <1>1 DEF Change, ChangeRefused, Writable, Saving
  <2>2. \A g \in Handlers : pc'[g] # "writing"
    BY <1>1, <2>1 DEF Change, ChangeRefused
  <2>3. up /\ store' = store + 1 /\ store' \in 0..MaxVersion
    BY <1>1 DEF Change, ChangeRefused
  <2>4. StoreTyped'
    BY <1>1, <2>3 DEF Change, ChangeRefused
  <2>5. OpenIsStore' /\ CurrentIsStore'
    BY <2>2
  <2>6. content' = content /\ json' = json /\ acked' = acked
    BY <1>1 DEF Change, ChangeRefused
  <2>7. NothingForgotten'
    BY <2>3, <2>6
  <2>8. Alive'
    BY <1>1, <2>3 DEF Change, ChangeRefused
  <2>9. QED
    BY <2>4, <2>5, <2>7, <2>8
<1>2. ASSUME NEW h \in Handlers, Persist(h) PROVE StoreIInv'
  BY <1>2 DEF Persist
<1>3. ASSUME NEW h \in Handlers, CreateTmp(h) PROVE StoreIInv'
  <2>1. PICK i \in Inodes :
          /\ IF tmp = NoFile THEN i # json /\ \A g \in Handlers : fd[g] # i
                             ELSE i = tmp
          /\ content' = [content EXCEPT ![i] = [version |-> store, chunks |-> {}]]
          /\ tmp' = i
          /\ fd' = [fd EXCEPT ![h] = i]
    BY <1>3 DEF CreateTmp
  <2>2. i # json /\ i # NoFile
    BY <2>1
  <2>3. StoreTyped'
    BY <1>3, <2>1, <2>2 DEF CreateTmp
  <2>4. OpenIsStore'
    BY <1>3, <2>1, <2>2 DEF CreateTmp
  <2>5. CurrentIsStore' /\ NothingForgotten' /\ Alive'
    BY <1>3, <2>1, <2>2 DEF CreateTmp
  <2>6. QED
    BY <2>3, <2>4, <2>5
<1>4. ASSUME NEW h \in Handlers, WriteChunk(h) PROVE StoreIInv'
  <2>1. up /\ fd[h] \in Inodes /\ pos[h] + 1 \in 1..Chunks
    BY <1>4 DEF WriteChunk
  <2>2. content' = [content EXCEPT ![fd[h]] =
          [version |-> store, chunks |-> content[fd[h]].chunks \cup {pos[h] + 1}]]
    BY <1>4 DEF WriteChunk
  <2>3. StoreTyped'
    <3>1. content' \in [Inodes -> Document]
      BY <2>1, <2>2
    <3>2. pos' \in [Handlers -> 0..Chunks]
      BY <1>4, <2>1 DEF WriteChunk
    <3>3. QED
      BY <1>4, <3>1, <3>2 DEF WriteChunk
  <2>4. \A i \in Inodes : content'[i].version
                            = IF i = fd[h] THEN store ELSE content[i].version
    BY <2>1, <2>2
  <2>5. QED
    BY <1>4, <2>1, <2>3, <2>4 DEF WriteChunk
<1>5. ASSUME NEW h \in Handlers, WriteFails(h) \/ RenameFails(h) PROVE StoreIInv'
  BY <1>5 DEF WriteFails, RenameFails, Answer
<1>6. ASSUME NEW h \in Handlers, Rename(h) PROVE StoreIInv'
  BY <1>6 DEF Rename, Answer
<1>7. CASE Exit
  BY <1>7 DEF Exit
<1>8. CASE Open
  <2>1. \A h \in Handlers : pc[h] = "idle"
    BY <1>8 DEF Open
  <2>2. QED
    BY <1>8, <2>1 DEF Open
<1>9. CASE UNCHANGED storeVars
  BY <1>9 DEF storeVars
<1>10. QED
  BY <1>1, <1>2, <1>3, <1>4, <1>5, <1>6, <1>7, <1>8, <1>9 DEF StoreNext, Handler

\* The invariant, in every state.
LEMMA StoreInvariance == StoreSpec => []StoreIInv
<1>1. StoreIInv /\ [StoreNext]_storeVars => StoreIInv'
  BY StoreStep
<1>2. QED
  BY StoreInitInv, <1>1, PTL DEF StoreSpec

-----------------------------------------------------------------------------

\* Type correctness: among the rest, markos.json and its temporary file are
\* never the same inode.
THEOREM StoreTypeCorrect == StoreSpec => []StoreTypeOK
<1>1. StoreInit => up \in BOOLEAN
  BY Zenon DEF StoreInit
<1>2. up \in BOOLEAN /\ [StoreNext]_storeVars => (up \in BOOLEAN)'
  BY Zenon DEF StoreNext, Handler, Change, ChangeRefused, Persist, CreateTmp,
               WriteChunk, WriteFails, Rename, RenameFails, Exit, Open, storeVars
<1>3. StoreIInv /\ up \in BOOLEAN => StoreTypeOK
  BY Zenon DEF StoreIInv, StoreTyped, StoreTypeOK
<1>4. QED
  BY StoreInvariance, <1>1, <1>2, <1>3, PTL DEF StoreSpec

\* What a client was told is saved is in markos.json whenever that file can
\* be read: no order of overlapping saves, failures, exits and restarts puts
\* an older document over a newer one.
THEOREM NothingAcknowledgedIsLost == StoreSpec => []AcknowledgedIsSaved
<1>1. StoreIInv => AcknowledgedIsSaved
  BY DEF StoreIInv, NothingForgotten, AcknowledgedIsSaved
<1>2. QED
  BY StoreInvariance, <1>1, PTL

\* A file is whole or given up, or a saver is at it that has found nothing
\* taken away of what it has written so far.
Settled(i) ==
  \/ Whole(i)
  \/ i \in spoiled
  \/ \E g \in Handlers :
       pc[g] = "writing" /\ fd[g] = i /\ 1..pos[g] \subseteq content[i].chunks

\* The two files that have a name, while the engine runs.
FilesSettled == up => Settled(json) /\ (tmp # NoFile => Settled(tmp))

\* Every step keeps that: who truncates a file starts it anew, who has written
\* its last chunk leaves it whole.
LEMMA SettledStep ==
  ASSUME StoreIInv, FilesSettled, [StoreNext]_storeVars
  PROVE  FilesSettled'
<1> USE StoreAssumption
    DEF StoreIInv, StoreTyped, FilesSettled, Settled, Whole, Document, files
<1>1. ASSUME NEW h \in Handlers,
             Change(h) \/ ChangeRefused(h) \/ Persist(h)
      PROVE  FilesSettled'
  <2>1. \A g \in Handlers : pc[g] = "writing" => pc'[g] = "writing"
    BY <1>1 DEF Change, ChangeRefused, Persist
  <2>2. UNCHANGED <<up, content, json, tmp, fd, pos, spoiled>>
    BY <1>1 DEF Change, ChangeRefused, Persist
  <2>3. QED
    BY <2>1, <2>2
<1>2. ASSUME NEW h \in Handlers, CreateTmp(h) PROVE FilesSettled'
  <2>1. PICK i \in Inodes :
          /\ IF tmp = NoFile THEN i # json /\ \A g \in Handlers : fd[g] # i
                             ELSE i = tmp
          /\ content' = [content EXCEPT ![i] = [version |-> store, chunks |-> {}]]
          /\ tmp' = i
          /\ fd' = [fd EXCEPT ![h] = i]
          /\ spoiled' = spoiled \ {i}
    BY <1>2 DEF CreateTmp
  <2>2. i # json
    BY <2>1
  <2>3. Settled(i)'
    <3>1. pc'[h] = "writing" /\ fd'[h] = i /\ pos'[h] = 0
      BY <1>2, <2>1 DEF CreateTmp
    <3>2. 1..0 = {}
      OBVIOUS
    <3>3. QED
      BY <3>1, <3>2
  <2>4. up => Settled(json)'
    <3>1. content'[json] = content[json] /\ (json \in spoiled => json \in spoiled')
      BY <2>1, <2>2
    <3>2. \A g \in Handlers : pc[g] = "writing" =>
            pc'[g] = "writing" /\ fd'[g] = fd[g] /\ pos'[g] = pos[g]
      BY <1>2, <2>1 DEF CreateTmp
    <3>3. json' = json
      BY <1>2 DEF CreateTmp
    <3>4. QED
      BY <3>1, <3>2, <3>3
  <2>5. up' = up /\ json' = json /\ tmp' = i
    BY <1>2, <2>1 DEF CreateTmp
  <2>6. QED
    BY <2>3, <2>4, <2>5
<1>3. ASSUME NEW h \in Handlers, WriteChunk(h) PROVE FilesSettled'
  <2>1. /\ fd[h] \in Inodes /\ pos[h] \in 0..Chunks /\ pos[h] < Chunks
        /\ content' = [content EXCEPT ![fd[h]] =
             [version |-> store, chunks |-> content[fd[h]].chunks \cup {pos[h] + 1}]]
        /\ pos' = [pos EXCEPT ![h] = pos[h] + 1]
        /\ UNCHANGED <<up, json, tmp, pc, fd, spoiled>>
    BY <1>3 DEF WriteChunk, OpenIsStore
  <2>2. \A i \in Inodes :
          content[i].chunks \subseteq content'[i].chunks
          /\ content'[i].chunks \subseteq 1..Chunks
    BY <2>1
  <2>3. ASSUME NEW i \in Inodes, Settled(i) PROVE Settled(i)'
    <3>1. CASE Whole(i) \/ i \in spoiled
      BY <2>1, <2>2, <3>1
    <3>2. ASSUME NEW g \in Handlers, pc[g] = "writing", fd[g] = i,
                 1..pos[g] \subseteq content[i].chunks
          PROVE  Settled(i)'
      <4>1. CASE g = h
        <5>1. 1..(pos[h] + 1) = (1..pos[h]) \cup {pos[h] + 1}
          BY <2>1
        <5>2. 1..pos'[g] \subseteq content'[i].chunks
          BY <2>1, <3>2, <4>1, <5>1
        <5>3. QED
          BY <2>1, <3>2, <5>2
      <4>2. CASE g # h
        BY <2>1, <2>2, <3>2, <4>2
      <4>3. QED
        BY <4>1, <4>2
    <3>3. QED
      BY <2>3, <3>1, <3>2
  <2>4. QED
    BY <2>1, <2>3
<1>4. ASSUME NEW h \in Handlers, WriteFails(h) PROVE FilesSettled'
  BY <1>4 DEF WriteFails, Answer
<1>5. ASSUME NEW h \in Handlers, pos[h] = Chunks, NEW i \in Inodes,
             Settled(i), Answer(h), content' = content,
             i \in spoiled => i \in spoiled'
      PROVE  Settled(i)'
  BY <1>5 DEF Answer
<1>6. ASSUME NEW h \in Handlers, Rename(h) PROVE FilesSettled'
  BY <1>5, <1>6 DEF Rename
<1>7. ASSUME NEW h \in Handlers, RenameFails(h) PROVE FilesSettled'
  BY <1>5, <1>7 DEF RenameFails
<1>8. CASE Exit
  BY <1>8 DEF Exit
<1>9. CASE Open
  BY <1>9 DEF Open
<1>10. CASE UNCHANGED storeVars
  BY <1>10 DEF storeVars
<1>11. QED
  BY <1>1, <1>2, <1>3, <1>4, <1>6, <1>7, <1>8, <1>9, <1>10 DEF StoreNext, Handler

\* The error that a saver gets when another one has renamed the shared
\* temporary file is never the sign of a lost change: the whole document is in
\* markos.json, or another saver is completing it, or one has the disk's error.
THEOREM RenameErrorIsHarmless == StoreSpec => FailedRenameIsHarmless
<1>1. ASSUME StoreIInv, FilesSettled, NEW h \in Handlers,
             pc[h] = "writing", pos[h] = Chunks, tmp = NoFile
      PROVE  OnItsWay(h)
  <2>1. content[json].version = store
    BY <1>1 DEF StoreIInv, CurrentIsStore, Current
  <2>2. up
    BY <1>1 DEF StoreIInv, Alive
  <2>3. ASSUME fd[h] = json, 1..pos[h] \subseteq content[json].chunks
        PROVE  Whole(json)
    BY <1>1, <2>3 DEF StoreIInv, StoreTyped, Document, Whole
  <2>4. QED
    BY <1>1, <2>1, <2>2, <2>3 DEF FilesSettled, Settled, OnItsWay
<1>2. StoreIInv /\ FilesSettled /\ [StoreNext]_storeVars =>
        [\A h \in Handlers :
           pc[h] = "writing" /\ pos[h] = Chunks /\ tmp = NoFile /\ pc'[h] = "idle"
             /\ up'
             => OnItsWay(h)]_storeVars
  BY <1>1
<1>3. StoreInit => FilesSettled
  BY DEF StoreInit, FilesSettled, Settled, Whole
<1>4. StoreIInv /\ FilesSettled /\ [StoreNext]_storeVars => FilesSettled'
  BY SettledStep
<1>5. QED
  BY StoreInvariance, <1>2, <1>3, <1>4, PTL DEF StoreSpec, FailedRenameIsHarmless

-----------------------------------------------------------------------------
(* The update.                                                             *)

\* What lives only as long as the box is up.
Volatile ==
  /\ stage = "off" => root = None
  /\ stage # "off" => root \in Slots
  /\ stage # "up" => updater = "idle" /\ confirm = "down"

\* From NEW_CMDLINE on, markos-update has one.
PlanMade == updater \in {"planned", "arming", "armed"} => plan # None

\* TryStaysWhileProving, and on to the end of the script, which runs again.
TryStays ==
  confirm \in {"proving", "mounted", "copying", "copied"} => tryCmdline # None

\* TypeOK in two parts: the provers want the flags by themselves.
Flags == bootRW \in BOOLEAN /\ tryFlag \in BOOLEAN /\ ready \in BOOLEAN

Typed ==
  /\ rootfs \in [Slots -> Images]
  /\ cmdline \in Slots \cup {Empty}
  /\ tryCmdline \in Slots \cup {Empty, None}
  /\ stage \in {"off", "init", "up"}
  /\ root \in Slots \cup {None}
  /\ updater \in {"idle", "writing", "written", "planned", "arming", "armed"}
  /\ plan \in Slots \cup {Empty, None}
  /\ confirm \in {"down", "asleep", "proving", "mounted", "copying", "copied"}
  /\ polls \in 0..Polls

IInv == Typed /\ Volatile /\ PlanMade /\ TryStays /\ RunningRootIntact

USE UpdateAssumption DEF Images

\* markos-update writes the slot that is not the running root.
LEMMA InactiveSpares ==
  ASSUME root \in Slots
  PROVE  Inactive \in Slots /\ Inactive # root
<1>1. \E s \in Slots : s # root
  BY Zenon
<1>2. QED
  BY <1>1, Zenon DEF Inactive

\* The first state.
LEMMA InitInv == Init => IInv
  BY DEF Init, IInv, Typed, Volatile, PlanMade, TryStays, RunningRootIntact

\* Every command of either script keeps the invariant, and so does a power cut.
LEMMA InvStep ==
  ASSUME IInv, [Next]_vars
  PROVE  IInv'
<1> USE DEF IInv, Typed, Volatile, PlanMade, TryStays, RunningRootIntact,
            boot, box, confirmation
<1>1. CASE PowerCut
  BY <1>1 DEF PowerCut, Down
<1>2. CASE Boot
  BY <1>2 DEF Boot
<1>3. CASE FactoryReset
  BY <1>3 DEF FactoryReset, Down
<1>4. CASE StartServices
  BY <1>4 DEF StartServices
<1>5. CASE EngineReady \/ EngineDown
  BY <1>5 DEF EngineReady, EngineDown
<1>6. CASE Poll
  BY <1>6 DEF Poll
<1>7. CASE CommitMount
  BY <1>7 DEF CommitMount
<1>8. CASE CommitTruncate
  BY <1>8 DEF CommitTruncate
<1>9. CASE CommitCopy
  BY <1>9 DEF CommitCopy
<1>10. CASE CommitUnmount
  BY <1>10 DEF CommitUnmount
<1>11. CASE WriteSlot
  BY <1>11, InactiveSpares DEF WriteSlot
<1>12. CASE SlotWritten
  <2>1. stage = "up" /\ Inactive \in Slots /\ Inactive # root
    BY <1>12, InactiveSpares DEF SlotWritten
  <2>2. QED
    BY <1>12, <2>1 DEF SlotWritten
<1>13. CASE Plan
  <2>1. stage = "up" /\ Inactive \in Slots
    BY <1>13, InactiveSpares DEF Plan
  <2>2. QED
    BY <1>13, <2>1 DEF Plan
<1>14. CASE ArmTruncate
  BY <1>14 DEF ArmTruncate
<1>15. CASE ArmWrite
  BY <1>15 DEF ArmWrite
<1>16. CASE RebootTryboot
  BY <1>16 DEF RebootTryboot, Down
<1>17. CASE RebootFails
  BY <1>17 DEF RebootFails
<1>18. CASE UNCHANGED vars
  BY <1>18 DEF vars
<1>19. QED
  BY <1>1, <1>2, <1>3, <1>4, <1>5, <1>6, <1>7, <1>8, <1>9, <1>10, <1>11,
     <1>12, <1>13, <1>14, <1>15, <1>16, <1>17, <1>18 DEF Next, Confirm

\* The invariant, in every state.
LEMMA Invariance == Spec => []IInv
<1>1. IInv /\ [Next]_vars => IInv'
  BY InvStep
<1>2. QED
  BY InitInv, <1>1, PTL DEF Spec

-----------------------------------------------------------------------------
(* The flags.                                                              *)

\* The three switches are Booleans.
LEMMA FlagsStep ==
  ASSUME Flags, [Next]_vars
  PROVE  Flags'
<1> USE DEF Flags, boot, box
<1>1. CASE PowerCut
  BY <1>1, Zenon DEF PowerCut, Down
<1>2. CASE Boot
  BY <1>2, Zenon DEF Boot
<1>3. CASE FactoryReset
  BY <1>3, Zenon DEF FactoryReset, Down
<1>4. CASE StartServices
  BY <1>4, Zenon DEF StartServices
<1>5. CASE EngineReady \/ EngineDown
  BY <1>5, Zenon DEF EngineReady, EngineDown
<1>6. CASE Confirm
  BY <1>6, Zenon DEF Confirm, Poll, CommitMount, CommitTruncate, CommitCopy,
                     CommitUnmount
<1>7. CASE WriteSlot \/ SlotWritten \/ Plan \/ ArmTruncate \/ ArmWrite
  BY <1>7, Zenon DEF WriteSlot, SlotWritten, Plan, ArmTruncate, ArmWrite
<1>8. CASE RebootTryboot \/ RebootFails
  BY <1>8, Zenon DEF RebootTryboot, RebootFails, Down
<1>9. CASE UNCHANGED vars
  BY <1>9, Zenon DEF vars
<1>10. QED
  BY <1>1, <1>2, <1>3, <1>4, <1>5, <1>6, <1>7, <1>8, <1>9, Zenon DEF Next

-----------------------------------------------------------------------------
(* The theorems.                                                           *)

\* Type correctness: among the rest, cmdline.txt always names a slot or is
\* empty, and boot-confirm never counts past its bound.
THEOREM TypeCorrect == Spec => []TypeOK
<1>1. Init => Flags
  BY Zenon DEF Init, Flags
<1>2. Flags /\ [Next]_vars => Flags'
  BY FlagsStep
<1>3. IInv /\ Flags => TypeOK
  BY Zenon DEF IInv, Typed, Flags, TypeOK
<1>4. QED
  BY Invariance, <1>1, <1>2, <1>3, PTL DEF Spec

\* markos-update never writes over the root file system that is mounted,
\* whatever was committed, tried, reset or cut off before.
THEOREM RootSpared == Spec => []RunningRootIntact
<1>1. IInv => RunningRootIntact
  BY DEF IInv
<1>2. QED
  BY Invariance, <1>1, PTL

\* What boot-confirm proves and copies is there until it is done.
THEOREM TryFileStays == Spec => []TryStaysWhileProving
<1>1. IInv => TryStaysWhileProving
  BY DEF IInv, TryStays, TryStaysWhileProving
<1>2. QED
  BY Invariance, <1>1, PTL
=============================================================================
