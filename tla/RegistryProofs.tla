--------------------------- MODULE RegistryProofs ---------------------------
(***************************************************************************)
(* Theorems about Registry, for every set of models, files, .part names,   *)
(* download threads and bounds: what is found under a model's final name,  *)
(* that the header cache never serves another content, what a deletion may *)
(* leave in memory, and what the header reader makes of a part of a file.  *)
(*                                                                         *)
(* The first three rest on how names, inodes and downloads are tied        *)
(* together: an inode has one name at most, one that has left a final name *)
(* never gets a name again, and the inode a .part name leads to belongs to *)
(* the one download that is under way for that name, or is marked as       *)
(* shared.  The fourth goes through the reader's loops: each reads a       *)
(* well-formed item up to its end, or fails because the end is missing.    *)
(***************************************************************************)
EXTENDS Headers, WellFoundedInduction, FiniteSetTheorems, TLAPS

PieceValues == Files \cup {NoPiece}
Downloads == [pc : {"idle", "spawned", "curl", "rename", "orphan"}, id : Ids,
              direct : BOOLEAN, ino : 0..Inodes, at : Nat \ {0}]
Keys == (0..Inodes) \X Nat
Probes == [pc : {"idle", "read"}, file : Probed \cup {"none"}, key : Keys,
           meta : [Pieces -> PieceValues]]

Typed ==
  /\ {models, saved, asked, resident, raced} \subseteq SUBSET Ids
  /\ deleting \in [Ids -> {"none", "unloaded", "removed", "unlinked"}]
  /\ name \in [Names -> 0..Inodes] /\ mtime \in [1..Inodes -> Nat]
  /\ data \in [1..Inodes -> [Pieces -> PieceValues]]
  /\ tags \in [1..Inodes -> SUBSET {"shared", "direct"}]
  /\ dl \in [Threads -> Downloads]
  /\ cache \in [Probed -> Probes] /\ probe \in Probes

\* The downloads that have opened their file and may still write or rename it.
Active(t) == dl[t].pc \in {"curl", "rename", "orphan"}

\* An inode has one name at most, and what has a name has been written.
OneName ==
  /\ \A m, n \in Names : name[m] # 0 /\ name[m] = name[n] => m = n
  /\ \A n \in Names : name[n] # 0 => mtime[name[n]] > 0

\* A download's inode is under its own target, has been renamed from there, or
\* has no name; only what went to the .part name is renamed.
OwnInode ==
  \A t \in Threads :
    /\ dl[t].pc = "rename" => ~dl[t].direct /\ dl[t].at \notin Pieces
    /\ Active(t) =>
         /\ dl[t].ino # 0 /\ mtime[dl[t].ino] > 0
         /\ \A n \in Names : name[n] = dl[t].ino => n = Target(t) \/ n \in Files

\* The pieces received so far are those of the file asked for.
InOrder(t) ==
  \A k \in Pieces : k < dl[t].at => data[dl[t].ino][k] = FileOf[dl[t].id]

\* While no other download shares it, what a .part name leads to is written by
\* the one download that has it as its target; under a final name nobody writes.
Undisturbed ==
  /\ \A f \in Files : name[f] # 0 /\ tags[name[f]] = {} =>
       /\ Content(f) = WholeOf(f)
       /\ \A t \in Threads : dl[t].pc \in {"curl", "orphan"} => dl[t].ino # name[f]
  /\ \A n \in Names \ Files : name[n] # 0 /\ tags[name[n]] = {} =>
       \A t \in Threads : Active(t) /\ Target(t) = n =>
         /\ dl[t].ino = name[n] /\ InOrder(t)
         /\ \A u \in Threads : Active(u) /\ Target(u) = n => u = t

\* A stat is of an inode that has had this file's name and no other since.
OfFile(key, f) ==
  /\ key[1] # 0 /\ mtime[key[1]] > 0 /\ key[2] <= mtime[key[1]]
  /\ \A n \in Names : name[n] = key[1] => n = f

CacheSound ==
  /\ \A f \in Probed : cache[f].pc # "idle" =>
       /\ OfFile(cache[f].key, f)
       /\ name[f] = cache[f].key[1] /\ mtime[cache[f].key[1]] = cache[f].key[2]
            => cache[f].meta = data[cache[f].key[1]]
  /\ probe.pc = "read" => probe.file \in Probed /\ OfFile(probe.key, probe.file)

\* Who may still bring a deleted model back into memory.
Requested ==
  /\ (resident \cup asked) \ models \subseteq raced
  /\ \A id \in Ids : deleting[id] = "unloaded" /\ id \in resident \cup asked
                       => id \in raced

RInv == Typed /\ OneName /\ OwnInode /\ Undisturbed /\ CacheSound /\ Requested

-----------------------------------------------------------------------------
(* Files and names. *)

\* What the assumption says, in the form the proofs use.
LEMMA Constants ==
  /\ Inodes \in Nat
  /\ \A id \in Ids : FileOf[id] \in Files
  /\ \A f \in Files : f \in Names /\ PartOf[f] \in Names \ Files
  /\ Preseed \in Ids
  /\ \A k \in Pieces : k \in Nat \ {0} /\ 1..k \subseteq Pieces
  BY RegistryAssumption DEF Names, Pieces

\* A download writes to the final name or to its .part name.
LEMMA Targets ==
  ASSUME Typed, NEW t \in Threads
  PROVE  /\ dl[t].id \in Ids /\ FileOf[dl[t].id] \in Files
         /\ dl[t].direct => Target(t) = FileOf[dl[t].id]
         /\ ~dl[t].direct => Target(t) = PartOf[FileOf[dl[t].id]] /\ Target(t) \in Names \ Files
         /\ Target(t) \in Names
<1>1. dl[t].id \in Ids /\ dl[t].direct \in BOOLEAN
  BY DEF Typed, Downloads
<1>2. QED
  BY <1>1, Constants DEF Target

\* A step of a download that leaves its file alone: it ends, or goes on as the
\* process that waits for it does.
GoesOn(t) ==
  \/ dl'[t].pc \in {"idle", "spawned"}
  \/ /\ Active(t) /\ dl'[t].id = dl[t].id /\ dl'[t].direct = dl[t].direct
     /\ dl'[t].ino = dl[t].ino /\ dl'[t].at = dl[t].at
     /\ dl'[t].pc \in {"curl", "orphan"} => dl[t].pc \in {"curl", "orphan"}
     /\ dl'[t].pc = "rename" => ~dl[t].direct /\ dl[t].at \notin Pieces

\* Names may disappear and downloads end at any time: nothing that is known of
\* the files that remain is lost.
LEMMA NamesRemoved ==
  ASSUME RInv, UNCHANGED <<data, mtime, tags>>,
         \A n \in Names : name'[n] = name[n] \/ name'[n] = 0,
         \A t \in Threads : GoesOn(t)
  PROVE  /\ OneName' /\ OwnInode' /\ Undisturbed'
         /\ UNCHANGED <<cache, probe>> => CacheSound'
<1>1. \A n \in Names : name'[n] # 0 => name'[n] = name[n]
  OBVIOUS
<1>2. \A t \in Threads : Active(t)' => /\ Active(t) /\ Target(t)' = Target(t)
                                       /\ dl'[t].id = dl[t].id /\ dl'[t].direct = dl[t].direct
                                       /\ dl'[t].ino = dl[t].ino /\ dl'[t].at = dl[t].at
  BY DEF GoesOn, Active, Target
<1>3. \A t \in Threads : dl'[t].pc \in {"curl", "orphan"} =>
        dl[t].pc \in {"curl", "orphan"} /\ dl'[t].ino = dl[t].ino
  BY DEF GoesOn
<1>4. OneName'
  BY <1>1 DEF RInv, OneName
<1>5. OwnInode'
  <2> SUFFICES ASSUME NEW t \in Threads
               PROVE  /\ dl'[t].pc = "rename" => ~dl'[t].direct /\ dl'[t].at \notin Pieces
                      /\ Active(t)' =>
                           /\ dl'[t].ino # 0 /\ mtime[dl'[t].ino] > 0
                           /\ \A n \in Names : name'[n] = dl'[t].ino =>
                                                 n = Target(t)' \/ n \in Files
    BY DEF OwnInode
  <2>1. dl'[t].pc = "rename" => ~dl'[t].direct /\ dl'[t].at \notin Pieces
    BY DEF GoesOn
  <2>2. QED
    BY <1>1, <1>2, <2>1 DEF RInv, OwnInode
<1>6. Undisturbed'
  <2>1. ASSUME NEW f \in Files, name'[f] # 0, tags[name'[f]] = {}
        PROVE  /\ Content(f)' = WholeOf(f)
               /\ \A t \in Threads : dl'[t].pc \in {"curl", "orphan"} => dl'[t].ino # name'[f]
    <3>1. name'[f] = name[f] /\ name[f] # 0
      BY <1>1, <2>1, Constants
    <3>2. QED
      BY <1>3, <2>1, <3>1 DEF RInv, Undisturbed, Content
  <2>2. ASSUME NEW n \in Names \ Files, name'[n] # 0, tags[name'[n]] = {},
               NEW t \in Threads, Active(t)', Target(t)' = n
        PROVE  /\ dl'[t].ino = name'[n] /\ InOrder(t)'
               /\ \A u \in Threads : Active(u)' /\ Target(u)' = n => u = t
    <3>1. name'[n] = name[n] /\ name[n] # 0 /\ Active(t) /\ Target(t) = n
      BY <1>1, <1>2, <2>2
    <3>2. /\ dl[t].ino = name[n] /\ InOrder(t)
          /\ \A u \in Threads : Active(u) /\ Target(u) = n => u = t
      BY <2>2, <3>1 DEF RInv, Undisturbed
    <3>3. InOrder(t)'
      BY <1>2, <2>2, <3>2 DEF InOrder
    <3>4. QED
      BY <1>2, <2>2, <3>1, <3>2, <3>3
  <2>3. QED
    BY <2>1, <2>2 DEF Undisturbed, WholeOf
<1>7. ASSUME UNCHANGED <<cache, probe>> PROVE CacheSound'
  <2>1. ASSUME NEW key, NEW f, OfFile(key, f) PROVE OfFile(key, f)'
    BY <1>1, <2>1 DEF OfFile
  <2>2. \A f \in Probed : f \in Names
    BY Constants, RegistryAssumption
  <2>3. ASSUME NEW f \in Probed, cache[f].pc # "idle"
        PROVE  /\ OfFile(cache[f].key, f)'
               /\ name'[f] = cache[f].key[1] /\ mtime[cache[f].key[1]] = cache[f].key[2]
                    => cache[f].meta = data[cache[f].key[1]]
    <3>1. OfFile(cache[f].key, f) /\ OfFile(cache[f].key, f)'
      <4>1. OfFile(cache[f].key, f)
        BY <2>3 DEF RInv, CacheSound
      <4>2. QED
        BY <1>1, <1>7, <4>1 DEF OfFile
    <3>2. name'[f] = cache[f].key[1] => name[f] = cache[f].key[1]
      BY <1>1, <2>2, <3>1 DEF OfFile
    <3>3. QED
      BY <2>3, <3>1, <3>2 DEF RInv, CacheSound
  <2>4. probe.pc = "read" => probe.file \in Probed /\ OfFile(probe.key, probe.file)'
    BY <1>1, <1>7 DEF RInv, CacheSound, OfFile
  <2>5. QED
    BY <1>7, <2>3, <2>4 DEF CacheSound
<1>8. QED
  BY <1>4, <1>5, <1>6, <1>7

-----------------------------------------------------------------------------
(* Types. *)

\* The first state.
LEMMA InitTyped == ASSUME Init PROVE Typed
<1> USE RegistryAssumption
<1>1. Empty \in [Pieces -> PieceValues]
  BY DEF Empty, PieceValues
<1>2. Idle \in Downloads
  BY Constants DEF Idle, Downloads
<1>3. NoProbe \in Probes
  BY <1>1, Constants DEF NoProbe, Probes, Keys
<1>4. {models, saved, asked, resident, raced} \subseteq SUBSET Ids
  BY DEF Init
<1>5. deleting \in [Ids -> {"none", "unloaded", "removed", "unlinked"}]
  BY DEF Init
<1>6. name \in [Names -> 0..Inodes] /\ mtime \in [1..Inodes -> Nat]
  BY Constants DEF Init
<1>7. /\ data \in [1..Inodes -> [Pieces -> PieceValues]]
      /\ tags \in [1..Inodes -> SUBSET {"shared", "direct"}]
  BY <1>1 DEF Init
<1>8. dl \in [Threads -> Downloads] /\ cache \in [Probed -> Probes] /\ probe \in Probes
  BY <1>2, <1>3 DEF Init
<1>9. QED
  BY <1>4, <1>5, <1>6, <1>7, <1>8 DEF Typed

\* Starting a download takes an idle thread.
LEMMA Spawned ==
  ASSUME Typed, NEW id \in Ids, NEW direct \in BOOLEAN, Spawn(id, direct)
  PROVE  /\ dl' \in [Threads -> Downloads]
         /\ \A t \in Threads : dl'[t] = dl[t] \/ dl'[t].pc = "spawned"
<1>1. FreeThread \in Threads
  BY DEF Spawn, FreeThread
<1> DEFINE d == [Idle EXCEPT !.pc = "spawned", !.id = id, !.direct = direct]
<1>2. d \in Downloads /\ d.pc = "spawned"
  <2>1. Idle \in Downloads
    BY Constants DEF Idle, Downloads
  <2>2. QED
    BY <2>1 DEF Downloads
<1>3. dl' = [dl EXCEPT ![FreeThread] = d]
  BY DEF Spawn
<1> HIDE DEF d
<1>4. QED
  BY <1>1, <1>2, <1>3 DEF Typed

\* A step of a download keeps the types.
LEMMA DownloadTyped ==
  ASSUME Typed, NEW t \in Threads, Download(t)
  PROVE  Typed'
<1> USE Constants
<1>1. /\ dl[t] \in Downloads /\ dl[t].id \in Ids /\ dl[t].ino \in 0..Inodes
      /\ dl[t].at \in Nat \ {0} /\ FileOf[dl[t].id] \in Names /\ Target(t) \in Names
      /\ FileOf[dl[t].id] \in PieceValues
  BY Targets DEF Typed, Downloads, PieceValues
<1>2. ASSUME dl' \in [Threads -> Downloads],
             /\ name' \in [Names -> 0..Inodes] /\ mtime' \in [1..Inodes -> Nat]
             /\ data' \in [1..Inodes -> [Pieces -> PieceValues]]
             /\ tags' \in [1..Inodes -> SUBSET {"shared", "direct"}],
             UNCHANGED <<registry, serving, cache, probe>>
      PROVE  Typed'
  BY <1>2 DEF Typed, registry, serving
<1>3. ASSUME NEW pc \in {"idle", "spawned", "curl", "rename", "orphan"}, To(t, pc)
      PROVE  dl' \in [Threads -> Downloads]
  BY <1>1, <1>3 DEF To, Typed, Downloads
<1>4. CASE Open(t)
  <2>1. PICK i, tag : /\ i = 0 \/ i \in 1..Inodes
                      /\ i # 0 /\ tag \in SUBSET {"shared", "direct"}
                      /\ name' = [name EXCEPT ![Target(t)] = i]
                      /\ data' = [data EXCEPT ![i] = Empty]
                      /\ mtime' = [mtime EXCEPT ![i] = @ + 1]
                      /\ tags' = [tags EXCEPT ![i] = tag]
                      /\ dl' = [dl EXCEPT ![t] = [@ EXCEPT !.pc = "curl", !.ino = i, !.at = 1]]
    <3> DEFINE old == name[Target(t)]
               i == IF old # 0 THEN old ELSE CHOOSE j \in 1..Inodes : mtime[j] = 0
               rivals == {u \in Threads \ {t} : dl[u].pc \notin {"idle", "spawned"}
                                                /\ Target(u) = Target(t)}
               tag == (IF dl[t].direct THEN {"direct"} ELSE {})
                        \cup (IF rivals # {} THEN {"shared"} ELSE {})
    <3>1. old \in 0..Inodes
      BY <1>1 DEF Typed
    <3>2. old # 0 \/ \E j \in 1..Inodes : mtime[j] = 0
      BY <1>4 DEF Open
    <3>3. i \in 1..Inodes
      BY <3>1, <3>2
    <3>4. tag \in SUBSET {"shared", "direct"}
      OBVIOUS
    <3>5. /\ name' = [name EXCEPT ![Target(t)] = i]
          /\ data' = [data EXCEPT ![i] = Empty]
          /\ mtime' = [mtime EXCEPT ![i] = @ + 1]
          /\ tags' = [tags EXCEPT ![i] = tag]
          /\ dl' = [dl EXCEPT ![t] = [@ EXCEPT !.pc = "curl", !.ino = i, !.at = 1]]
      BY <1>4 DEF Open
    <3> HIDE DEF i, tag
    <3>6. i # 0
      BY <3>3
    <3>7. QED
      BY <3>3, <3>4, <3>5, <3>6
  <2>2. i \in 1..Inodes /\ i \in 0..Inodes
    BY <2>1
  <2>3. Empty \in [Pieces -> PieceValues]
    BY DEF Empty, PieceValues
  <2>4. dl' \in [Threads -> Downloads]
    <3> DEFINE d == [dl[t] EXCEPT !.pc = "curl", !.ino = i, !.at = 1]
    <3>1. d \in Downloads
      <4> DEFINE curl == [dl[t] EXCEPT !.pc = "curl"]
                 there == [curl EXCEPT !.ino = i]
      <4>1. curl \in Downloads
        BY <1>1 DEF Downloads
      <4> HIDE DEF curl
      <4>2. there \in Downloads
        BY <2>2, <4>1 DEF Downloads
      <4> HIDE DEF there
      <4>3. [there EXCEPT !.at = 1] \in Downloads
        BY <4>2 DEF Downloads
      <4>4. QED
        BY <4>3 DEF there, curl
    <3>2. dl' = [dl EXCEPT ![t] = d]
      BY <2>1 DEF Typed
    <3> HIDE DEF d
    <3>3. QED
      BY <3>1, <3>2 DEF Typed
  <2>5. /\ name' \in [Names -> 0..Inodes] /\ mtime' \in [1..Inodes -> Nat]
        /\ data' \in [1..Inodes -> [Pieces -> PieceValues]]
        /\ tags' \in [1..Inodes -> SUBSET {"shared", "direct"}]
    BY <1>1, <2>1, <2>2, <2>3 DEF Typed
  <2>6. QED
    BY <1>2, <1>4, <2>4, <2>5 DEF Open
<1>5. CASE Receive(t)
  <2>1. dl' \in [Threads -> Downloads]
    <3> DEFINE d == [dl[t] EXCEPT !.at = @ + 1]
    <3>1. d \in Downloads
      BY <1>1 DEF Downloads
    <3>2. dl' = [dl EXCEPT ![t] = d]
      BY <1>5 DEF Receive, Typed
    <3> HIDE DEF d
    <3>3. QED
      BY <3>1, <3>2 DEF Typed
  <2>2. mtime' \in [1..Inodes -> Nat]
    <3>1. mtime \in [1..Inodes -> Nat] /\ mtime' = [mtime EXCEPT ![dl[t].ino] = @ + 1]
      BY <1>5 DEF Receive, Typed
    <3>2. \A j \in 1..Inodes : mtime'[j] \in Nat
      BY <3>1
    <3>3. mtime' = [j \in 1..Inodes |-> mtime'[j]]
      BY <3>1
    <3>4. QED
      BY <3>2, <3>3
  <2>3. data' \in [1..Inodes -> [Pieces -> PieceValues]]
    BY <1>1, <1>5 DEF Receive, Typed
  <2>4. QED
    BY <1>2, <1>5, <2>1, <2>2, <2>3 DEF Receive, Typed
<1>6. CASE Rename(t)
  <2>1. name' \in [Names -> 0..Inodes]
    BY <1>1, <1>6 DEF Rename, Typed
  <2>2. QED
    BY <1>2, <1>3, <1>6, <2>1 DEF Rename, Typed
<1>7. CASE CurlOk(t)
  BY <1>2, <1>3, <1>7 DEF CurlOk, Typed, disk
<1>8. CASE CurlFails(t)
  <2>1. name' \in [Names -> 0..Inodes]
    BY <1>1, <1>8 DEF CurlFails, Typed
  <2>2. QED
    BY <1>2, <1>3, <1>8, <2>1 DEF CurlFails, Typed
<1>9. CASE OrphanEnds(t)
  BY <1>2, <1>3, <1>9 DEF OrphanEnds, Typed, disk
<1>10. QED
  BY <1>4, <1>5, <1>6, <1>7, <1>8, <1>9 DEF Download

\* A step of a handler keeps the types.
LEMMA HandlerTyped ==
  ASSUME Typed, NEW id \in Ids, Handlers(id)
  PROVE  Typed'
<1> USE Constants DEF registry, disk, jobs, serving
<1>1. CASE AddPush(id)
  BY <1>1 DEF AddPush, Typed
<1>2. CASE AddPersist(id)
  BY <1>2 DEF AddPersist, Typed
<1>3. CASE AddSpawn(id)
  <2>1. dl' \in [Threads -> Downloads]
    BY <1>3, Spawned DEF AddSpawn
  <2>2. QED
    BY <1>3, <2>1 DEF AddSpawn, Typed
<1>4. CASE Ask(id)
  BY <1>4 DEF Ask, Typed
<1>5. CASE Load(id)
  BY <1>5 DEF Load, Typed
<1>6. CASE UiUnload(id)
  BY <1>6 DEF UiUnload, Typed
<1>7. CASE DeleteUnload(id)
  BY <1>7 DEF DeleteUnload, Typed
<1>8. CASE DeleteEntry(id)
  BY <1>8 DEF DeleteEntry, Typed
<1>9. CASE DeleteFile(id)
  <2>1. name' \in [Names -> 0..Inodes]
    <3>1. name \in [Names -> 0..Inodes] /\ name' = [name EXCEPT ![FileOf[id]] = 0]
      BY <1>9 DEF DeleteFile, Typed
    <3>2. QED
      BY <3>1
  <2>2. deleting' \in [Ids -> {"none", "unloaded", "removed", "unlinked"}]
    BY <1>9 DEF DeleteFile, Typed
  <2>3. QED
    BY <1>9, <2>1, <2>2 DEF DeleteFile, Typed
<1>10. CASE DeletePersist(id)
  BY <1>10 DEF DeletePersist, Typed
<1>11. QED
  BY <1>1, <1>2, <1>3, <1>4, <1>5, <1>6, <1>7, <1>8, <1>9, <1>10 DEF Handlers

\* Every step keeps the types.
LEMMA NextTyped ==
  ASSUME Typed, [Next]_vars
  PROVE  Typed'
<1> USE Constants DEF registry, disk, jobs, serving
<1>1. NoProbe \in Probes
  <2>1. Empty \in [Pieces -> PieceValues]
    BY DEF Empty, PieceValues
  <2>2. QED
    BY <2>1 DEF NoProbe, Probes, Keys
<1>2. CASE Restart
  <2>1. Idle \in Downloads
    BY DEF Idle, Downloads
  <2>2. dl' \in [Threads -> Downloads]
    <3>1. ASSUME NEW t \in Threads PROVE [dl[t] EXCEPT !.pc = "orphan"] \in Downloads
      <4>1. dl[t] \in Downloads
        BY DEF Typed
      <4>2. QED
        BY <4>1 DEF Downloads
    <3>2. QED
      BY <1>2, <2>1, <3>1 DEF Restart
  <2>3. cache' \in [Probed -> Probes] /\ probe' \in Probes
    BY <1>1, <1>2 DEF Restart
  <2>4. QED
    BY <1>2, <2>2, <2>3 DEF Restart, Typed
<1>3. CASE BootAccount
  BY <1>3 DEF BootAccount, Typed
<1>4. CASE BootPreseed
  <2>1. dl' \in [Threads -> Downloads]
    BY <1>4, Spawned DEF BootPreseed
  <2>2. QED
    BY <1>4, <2>1 DEF BootPreseed, Typed
<1>5. CASE BootMark
  BY <1>5 DEF BootMark, Typed
<1>6. CASE ProbeStat
  <2>1. PICK f \in Probed : name[f] # 0 /\ probe' = [NoProbe EXCEPT !.pc = "read", !.file = f,
                                                                 !.key = Stat(f)]
    BY <1>6 DEF ProbeStat
  <2>2. f \in Names
    BY RegistryAssumption
  <2>3. Stat(f) \in Keys
    BY <2>1, <2>2 DEF Typed, Stat, Keys
  <2>4. probe' \in Probes
    BY <1>1, <2>1, <2>3 DEF Probes
  <2>5. QED
    BY <1>6, <2>4 DEF ProbeStat, Typed
<1>7. CASE ProbeRead
  <2>1. ASSUME probe.file \in Probed, name[probe.file] # 0
        PROVE  [probe EXCEPT !.meta = Content(probe.file)] \in Probes
    <3>1. probe.file \in Names
      BY <2>1, RegistryAssumption
    <3>2. Content(probe.file) \in [Pieces -> PieceValues]
      BY <2>1, <3>1 DEF Typed, Content
    <3>3. QED
      BY <3>2 DEF Typed, Probes
  <2>2. cache' \in [Probed -> Probes]
    <3>1. CASE cache' = cache
      BY <3>1 DEF Typed
    <3>2. CASE probe.file \in Probed /\ name[probe.file] # 0
               /\ cache' = [cache EXCEPT ![probe.file] = [probe EXCEPT !.meta = Content(probe.file)]]
      BY <2>1, <3>2 DEF Typed
    <3>3. CASE probe.file \notin Probed
      BY <1>7, <3>3 DEF ProbeRead, Typed
    <3>4. QED
      BY <1>7, <3>1, <3>2, <3>3 DEF ProbeRead
  <2>3. QED
    BY <1>1, <1>7, <2>2 DEF ProbeRead, Typed
<1>8. CASE \E id \in Ids : Handlers(id)
  BY <1>8, HandlerTyped
<1>9. CASE \E t \in Threads : Download(t)
  BY <1>9, DownloadTyped
<1>10. CASE UNCHANGED vars
  BY <1>10 DEF vars, Typed
<1>11. QED
  BY <1>2, <1>3, <1>4, <1>5, <1>6, <1>7, <1>8, <1>9, <1>10 DEF Next

-----------------------------------------------------------------------------
(* Requests for a model that is being deleted. *)

\* A model comes to memory by a request for an entry.
LEMMA NextRequested ==
  ASSUME Typed, Requested, [Next]_vars
  PROVE  Requested'
<1> USE DEF Requested, registry, disk, jobs, serving
<1>1. ASSUME UNCHANGED <<deleting, serving>>, models \subseteq models' PROVE Requested'
  BY <1>1
<1>2. CASE Restart
  BY <1>2 DEF Restart
<1>3. CASE BootAccount \/ BootPreseed \/ BootMark \/ ProbeStat \/ ProbeRead \/ UNCHANGED vars
  BY <1>1, <1>3 DEF BootAccount, BootPreseed, BootMark, ProbeStat, ProbeRead, vars
<1>4. ASSUME NEW t \in Threads, Download(t) PROVE Requested'
  BY <1>1, <1>4 DEF Download, Open, Receive, CurlOk, Rename, CurlFails, OrphanEnds
<1>5. ASSUME NEW id \in Ids, Handlers(id) PROVE Requested'
  <2>1. CASE AddPush(id) \/ AddPersist(id) \/ AddSpawn(id)
    BY <1>1, <2>1 DEF AddPush, AddPersist, AddSpawn
  <2>2. CASE Ask(id)
    BY <2>2 DEF Ask
  <2>3. CASE Load(id)
    BY <2>3 DEF Load
  <2>4. CASE UiUnload(id)
    BY <2>4 DEF UiUnload
  <2>5. CASE DeleteUnload(id)
    BY <2>5 DEF DeleteUnload, Typed
  <2>6. CASE DeleteEntry(id)
    BY <2>6 DEF DeleteEntry, Typed
  <2>7. CASE DeleteFile(id) \/ DeletePersist(id)
    BY <2>7 DEF DeleteFile, DeletePersist, Typed
  <2>8. QED
    BY <1>5, <2>1, <2>2, <2>3, <2>4, <2>5, <2>6, <2>7 DEF Handlers
<1>6. QED
  BY <1>2, <1>3, <1>4, <1>5 DEF Next

-----------------------------------------------------------------------------
(* The steps of a download that write to the disk. *)

\* curl opens its target: the inode that is there, or one nobody has used, is
\* emptied and belongs to this download, unless another has the same target.
LEMMA OpenKeeps ==
  ASSUME RInv, NEW t \in Threads, Open(t)
  PROVE  OneName' /\ OwnInode' /\ Undisturbed' /\ CacheSound'
<1> USE Constants
<1> DEFINE target == Target(t)
           old == name[target]
           i == IF old # 0 THEN old ELSE CHOOSE j \in 1..Inodes : mtime[j] = 0
           rivals == {u \in Threads \ {t} : dl[u].pc \notin {"idle", "spawned"}
                                            /\ Target(u) = target}
           tag == (IF dl[t].direct THEN {"direct"} ELSE {})
                    \cup (IF rivals # {} THEN {"shared"} ELSE {})
<1>1. Typed /\ OneName /\ OwnInode /\ Undisturbed /\ CacheSound
  BY DEF RInv
<1>2. target \in Names /\ (target \in Files => dl[t].direct)
  BY <1>1, Targets DEF Typed, Downloads
<1>3. i \in 1..Inodes /\ (old # 0 => i = old) /\ (old = 0 => mtime[i] = 0)
  <2>1. old \in 0..Inodes
    BY <1>1, <1>2 DEF Typed
  <2>2. old # 0 \/ \E j \in 1..Inodes : mtime[j] = 0
    BY DEF Open
  <2>3. QED
    BY <2>1, <2>2
<1>4. /\ name' = [name EXCEPT ![target] = i]
      /\ data' = [data EXCEPT ![i] = Empty]
      /\ mtime' = [mtime EXCEPT ![i] = @ + 1]
      /\ tags' = [tags EXCEPT ![i] = tag]
      /\ dl' = [dl EXCEPT ![t] = [@ EXCEPT !.pc = "curl", !.ino = i, !.at = 1]]
      /\ UNCHANGED <<cache, probe>>
  BY DEF Open
<1>5. /\ dl[t].direct => tag # {}
      /\ tag = {} => \A u \in Threads \ {t} : ~(Active(u) /\ Target(u) = target)
  BY DEF Active
<1>6. /\ dl'[t].pc = "curl" /\ dl'[t].ino = i /\ dl'[t].at = 1
      /\ dl'[t].id = dl[t].id /\ dl'[t].direct = dl[t].direct
      /\ \A u \in Threads : u # t => dl'[u] = dl[u]
  BY <1>1, <1>4 DEF Typed, Downloads
<1>7. \A u \in Threads : Target(u)' = Target(u)
  BY <1>6 DEF Target
<1> HIDE DEF target, old, i, rivals, tag
<1>8. /\ name'[target] = i /\ \A n \in Names : n # target => name'[n] = name[n]
      /\ \A j \in 1..Inodes : j # i => data'[j] = data[j] /\ mtime'[j] = mtime[j]
                                       /\ tags'[j] = tags[j]
      /\ mtime'[i] = mtime[i] + 1 /\ tags'[i] = tag
      /\ \A j \in 1..Inodes : mtime[j] \in Nat /\ mtime'[j] \in Nat /\ mtime'[j] >= mtime[j]
      /\ \A n \in Names : name[n] \in 0..Inodes
  BY <1>1, <1>2, <1>3, <1>4 DEF Typed
<1>9. \A n \in Names : n # target => name[n] # i
  BY <1>1, <1>2, <1>3 DEF OneName, old
<1>10. \A n \in Names : name'[n] = i => n = target
  BY <1>8, <1>9
\* an inode that has been written before was found under this name
<1>11. ASSUME mtime[i] > 0 PROVE name[target] = i
  BY <1>3, <1>11 DEF old
<1>12. OneName'
  <2>1. ASSUME NEW m \in Names, NEW n \in Names, name'[m] # 0, name'[m] = name'[n] PROVE m = n
    BY <1>1, <1>8, <1>9, <2>1 DEF OneName
  <2>2. ASSUME NEW n \in Names, name'[n] # 0 PROVE mtime'[name'[n]] > 0
    BY <1>1, <1>3, <1>8, <2>2 DEF OneName
  <2>3. QED
    BY <2>1, <2>2 DEF OneName
<1>13. OwnInode'
  <2> SUFFICES ASSUME NEW u \in Threads
               PROVE  /\ dl'[u].pc = "rename" => ~dl'[u].direct /\ dl'[u].at \notin Pieces
                      /\ Active(u)' =>
                           /\ dl'[u].ino # 0 /\ mtime'[dl'[u].ino] > 0
                           /\ \A n \in Names : name'[n] = dl'[u].ino =>
                                                 n = Target(u)' \/ n \in Files
    BY DEF OwnInode
  <2>1. CASE u = t
    BY <1>3, <1>6, <1>7, <1>8, <1>10, <2>1 DEF target
  <2>2. CASE u # t
    <3>1. /\ dl[u].pc = "rename" => ~dl[u].direct /\ dl[u].at \notin Pieces
          /\ Active(u) => /\ dl[u].ino # 0 /\ mtime[dl[u].ino] > 0
                          /\ \A n \in Names : name[n] = dl[u].ino =>
                                                n = Target(u) \/ n \in Files
      BY <1>1 DEF OwnInode
    <3>2. dl[u].ino \in 0..Inodes /\ dl'[u] = dl[u]
      BY <1>1, <1>6, <2>2 DEF Typed, Downloads
    <3>3. ASSUME Active(u), NEW n \in Names, name'[n] = dl[u].ino
          PROVE  n = Target(u) \/ n \in Files
      BY <1>8, <1>11, <3>1, <3>3
    <3>4. ASSUME Active(u) PROVE dl[u].ino # 0 /\ mtime'[dl[u].ino] > 0
      BY <1>8, <3>1, <3>2, <3>4
    <3>5. Active(u)' => Active(u)
      BY <3>2 DEF Active
    <3>6. QED
      BY <1>7, <3>1, <3>2, <3>3, <3>4, <3>5
  <2>3. QED
    BY <2>1, <2>2
<1>14. Undisturbed'
  <2>1. ASSUME NEW f \in Files, name'[f] # 0, tags'[name'[f]] = {}
        PROVE  /\ Content(f)' = WholeOf(f)
               /\ \A u \in Threads : dl'[u].pc \in {"curl", "orphan"} => dl'[u].ino # name'[f]
    <3>1. f # target
      BY <1>2, <1>5, <1>8, <2>1
    <3>2. name'[f] = name[f] /\ name[f] # i /\ name[f] \in 1..Inodes
      BY <1>8, <1>9, <2>1, <3>1
    <3>3. tags[name[f]] = {} /\ data'[name[f]] = data[name[f]]
      BY <1>8, <2>1, <3>2
    <3>4. /\ Content(f) = WholeOf(f)
          /\ \A u \in Threads : dl[u].pc \in {"curl", "orphan"} => dl[u].ino # name[f]
      BY <1>1, <2>1, <3>2, <3>3 DEF Undisturbed
    <3>5. QED
      BY <1>6, <3>2, <3>3, <3>4 DEF Content
  <2>2. ASSUME NEW n \in Names \ Files, name'[n] # 0, tags'[name'[n]] = {},
               NEW u \in Threads, Active(u)', Target(u)' = n
        PROVE  /\ dl'[u].ino = name'[n] /\ InOrder(u)'
               /\ \A v \in Threads : Active(v)' /\ Target(v)' = n => v = u
    <3>1. \A v \in Threads : v # t /\ Active(v)' => Active(v)
      BY <1>6 DEF Active
    <3>2. CASE n = target
      <4>1. u = t
        BY <1>5, <1>7, <1>8, <2>2, <3>1, <3>2
      <4>2. InOrder(t)'
        BY <1>6 DEF InOrder
      <4>3. QED
        BY <1>5, <1>6, <1>7, <1>8, <2>2, <3>1, <3>2, <4>1, <4>2
    <3>3. CASE n # target
      <4>1. u # t /\ Active(u) /\ Target(u) = n /\ dl'[u] = dl[u]
        BY <1>6, <1>7, <2>2, <3>1, <3>3 DEF target
      <4>2. name'[n] = name[n] /\ name[n] # i /\ name[n] \in 1..Inodes
        BY <1>8, <1>9, <2>2, <3>3
      <4>3. tags[name[n]] = {} /\ data'[name[n]] = data[name[n]]
        BY <1>8, <2>2, <4>2
      <4>4. /\ dl[u].ino = name[n] /\ InOrder(u)
            /\ \A v \in Threads : Active(v) /\ Target(v) = n => v = u
        BY <1>1, <2>2, <4>1, <4>2, <4>3 DEF Undisturbed
      <4>5. InOrder(u)'
        BY <4>1, <4>3, <4>4 DEF InOrder
      <4>6. \A v \in Threads : Active(v)' /\ Target(v)' = n => v = u
        BY <1>7, <3>1, <3>3, <4>4 DEF target
      <4>7. QED
        BY <4>1, <4>2, <4>4, <4>5, <4>6
    <3>4. QED
      BY <3>2, <3>3
  <2>3. QED
    BY <2>1, <2>2 DEF Undisturbed, WholeOf
<1>15. ASSUME NEW key \in Keys, NEW f, OfFile(key, f)
       PROVE  OfFile(key, f)'
  <2>1. key[1] \in 1..Inodes /\ key[2] \in Nat
    BY <1>15 DEF Keys, OfFile
  <2>2. mtime'[key[1]] > 0 /\ key[2] <= mtime'[key[1]]
    BY <1>8, <1>15, <2>1 DEF OfFile
  <2>3. \A n \in Names : name'[n] = key[1] => n = f
    BY <1>8, <1>11, <1>15, <1>2 DEF OfFile
  <2>4. QED
    BY <1>15, <2>2, <2>3 DEF OfFile
<1>16. CacheSound'
  <2>1. ASSUME NEW f \in Probed, cache[f].pc # "idle"
        PROVE  /\ OfFile(cache[f].key, f)'
               /\ name'[f] = cache[f].key[1] /\ mtime'[cache[f].key[1]] = cache[f].key[2]
                    => cache[f].meta = data'[cache[f].key[1]]
    <3> DEFINE key == cache[f].key
    <3>1. /\ OfFile(key, f)
          /\ name[f] = key[1] /\ mtime[key[1]] = key[2] => cache[f].meta = data[key[1]]
      BY <1>1, <2>1 DEF CacheSound
    <3>2. key \in Keys
      BY <1>1 DEF Typed, Probes
    <3> HIDE DEF key
    <3>3. key[1] \in 1..Inodes /\ key[2] \in Nat /\ key[2] <= mtime[key[1]]
      BY <3>1, <3>2 DEF Keys, OfFile
    <3>4. f \in Names
      BY RegistryAssumption
    <3>5. ASSUME name'[f] = key[1], mtime'[key[1]] = key[2] PROVE cache[f].meta = data'[key[1]]
      <4>1. key[1] # i
        BY <1>3, <1>8, <3>3, <3>5
      <4>2. name[f] = key[1]
        BY <1>8, <3>4, <3>5, <4>1
      <4>3. QED
        BY <1>8, <3>1, <3>3, <3>5, <4>1, <4>2
    <3>6. OfFile(key, f)'
      <4>1. key' = key
        BY <1>4 DEF key
      <4>2. QED
        BY <1>15, <3>1, <3>2, <4>1 DEF OfFile
    <3>7. QED
      BY <3>5, <3>6, <1>4 DEF key
  <2>2. ASSUME probe.pc = "read"
        PROVE  probe.file \in Probed /\ OfFile(probe.key, probe.file)'
    <3>1. probe.file \in Probed /\ OfFile(probe.key, probe.file) /\ probe.key \in Keys
      BY <1>1, <2>2 DEF CacheSound, Typed, Probes
    <3>2. QED
      BY <1>4, <1>15, <3>1 DEF OfFile
  <2>3. QED
    BY <1>4, <2>1, <2>2 DEF CacheSound
<1>17. QED
  BY <1>12, <1>13, <1>14, <1>16

\* A piece goes to the inode the download has, which no final name leads to
\* unless it is marked.
LEMMA ReceiveKeeps ==
  ASSUME RInv, NEW t \in Threads, Receive(t)
  PROVE  OneName' /\ OwnInode' /\ Undisturbed' /\ CacheSound'
<1> USE Constants
<1> DEFINE i == dl[t].ino
           at == dl[t].at
<1>1. Typed /\ OneName /\ OwnInode /\ Undisturbed /\ CacheSound
  BY DEF RInv
<1>2. dl[t].pc \in {"curl", "orphan"} /\ Active(t) /\ at \in Pieces
  BY DEF Receive, Active
<1>3. i \in 1..Inodes
  BY <1>1, <1>2 DEF Typed, Downloads, OwnInode
<1>4. /\ data' = [data EXCEPT ![i][at] = FileOf[dl[t].id]]
      /\ mtime' = [mtime EXCEPT ![i] = @ + 1]
      /\ dl' = [dl EXCEPT ![t].at = @ + 1]
      /\ UNCHANGED <<name, tags, cache, probe>>
  BY DEF Receive
<1>5. /\ dl'[t].pc = dl[t].pc /\ dl'[t].ino = i /\ dl'[t].at = at + 1
      /\ dl'[t].id = dl[t].id /\ dl'[t].direct = dl[t].direct
      /\ \A u \in Threads : u # t => dl'[u] = dl[u]
  BY <1>1, <1>4 DEF Typed, Downloads
<1>6. \A u \in Threads : Target(u)' = Target(u) /\ (Active(u)' <=> Active(u))
                         /\ dl'[u].ino = dl[u].ino /\ dl'[u].pc = dl[u].pc
  BY <1>5 DEF Target, Active
<1> HIDE DEF i, at
<1>7. /\ \A j \in 1..Inodes : j # i => data'[j] = data[j] /\ mtime'[j] = mtime[j]
      /\ mtime'[i] = mtime[i] + 1
      /\ \A j \in 1..Inodes : mtime[j] \in Nat /\ mtime'[j] \in Nat /\ mtime'[j] >= mtime[j]
      /\ \A n \in Names : name[n] \in 0..Inodes
  BY <1>1, <1>3, <1>4 DEF Typed
<1>8. data'[i][at] = FileOf[dl[t].id] /\ \A k \in Pieces : k # at => data'[i][k] = data[i][k]
  BY <1>1, <1>2, <1>3, <1>4 DEF Typed
<1>9. OneName'
  BY <1>1, <1>4, <1>7 DEF OneName
<1>10. OwnInode'
  <2> SUFFICES ASSUME NEW u \in Threads
               PROVE  /\ dl'[u].pc = "rename" => ~dl'[u].direct /\ dl'[u].at \notin Pieces
                      /\ Active(u)' =>
                           /\ dl'[u].ino # 0 /\ mtime'[dl'[u].ino] > 0
                           /\ \A n \in Names : name'[n] = dl'[u].ino =>
                                                 n = Target(u)' \/ n \in Files
    BY DEF OwnInode
  <2>1. /\ dl[u].pc = "rename" => ~dl[u].direct /\ dl[u].at \notin Pieces
        /\ Active(u) => /\ dl[u].ino # 0 /\ mtime[dl[u].ino] > 0
                        /\ \A n \in Names : name[n] = dl[u].ino => n = Target(u) \/ n \in Files
    BY <1>1 DEF OwnInode
  <2>2. dl[u].ino \in 0..Inodes
    BY <1>1 DEF Typed, Downloads
  <2>3. dl'[u].pc = "rename" => ~dl'[u].direct /\ dl'[u].at \notin Pieces
    BY <1>2, <1>5, <2>1
  <2>4. QED
    BY <1>4, <1>6, <1>7, <2>1, <2>2, <2>3
<1>11. Undisturbed'
  <2>1. ASSUME NEW f \in Files, name'[f] # 0, tags'[name'[f]] = {}
        PROVE  /\ Content(f)' = WholeOf(f)
               /\ \A u \in Threads : dl'[u].pc \in {"curl", "orphan"} => dl'[u].ino # name'[f]
    <3>1. /\ Content(f) = WholeOf(f)
          /\ \A u \in Threads : dl[u].pc \in {"curl", "orphan"} => dl[u].ino # name[f]
      BY <1>1, <1>4, <2>1 DEF Undisturbed
    <3>2. name[f] # i /\ name[f] \in 1..Inodes
      <4>1. name[f] # 0 /\ f \in Names
        BY <1>4, <2>1
      <4>2. QED
        BY <1>2, <1>7, <3>1, <4>1 DEF i
    <3>3. QED
      BY <1>4, <1>6, <1>7, <3>1, <3>2 DEF Content
  <2>2. ASSUME NEW n \in Names \ Files, name'[n] # 0, tags'[name'[n]] = {},
               NEW u \in Threads, Active(u)', Target(u)' = n
        PROVE  /\ dl'[u].ino = name'[n] /\ InOrder(u)'
               /\ \A v \in Threads : Active(v)' /\ Target(v)' = n => v = u
    <3>1. /\ dl[u].ino = name[n] /\ InOrder(u) /\ Active(u) /\ Target(u) = n
          /\ \A v \in Threads : Active(v) /\ Target(v) = n => v = u
      BY <1>1, <1>4, <1>6, <2>2 DEF Undisturbed
    <3>2. CASE u = t
      <4>1. ASSUME NEW k \in Pieces, k < at + 1 PROVE data'[i][k] = FileOf[dl[t].id]
        <5>1. k = at \/ k < at
          BY <1>2, <4>1
        <5>2. QED
          BY <1>8, <3>1, <3>2, <5>1 DEF InOrder, i, at
      <4>2. InOrder(t)'
        BY <1>5, <4>1 DEF InOrder
      <4>3. QED
        BY <1>4, <1>6, <3>1, <3>2, <4>2
    <3>3. CASE u # t
      <4>1. dl[u].ino # i
        BY <1>1, <1>2, <3>1, <3>3 DEF OwnInode, i
      <4>2. dl[u].ino \in 1..Inodes
        BY <1>4, <1>7, <2>2, <3>1
      <4>3. InOrder(u)'
        BY <1>5, <1>7, <3>1, <3>3, <4>1, <4>2 DEF InOrder
      <4>4. QED
        BY <1>4, <1>6, <3>1, <4>3
    <3>4. QED
      BY <3>2, <3>3
  <2>3. QED
    BY <2>1, <2>2 DEF Undisturbed, WholeOf
<1>12. ASSUME NEW key \in Keys, NEW f, OfFile(key, f)
       PROVE  OfFile(key, f)'
  <2>1. key[1] \in 1..Inodes /\ key[2] \in Nat
    BY <1>12 DEF Keys, OfFile
  <2>2. QED
    BY <1>4, <1>7, <1>12, <2>1 DEF OfFile
<1>13. CacheSound'
  <2>1. ASSUME NEW f \in Probed, cache[f].pc # "idle"
        PROVE  /\ OfFile(cache[f].key, f)'
               /\ name'[f] = cache[f].key[1] /\ mtime'[cache[f].key[1]] = cache[f].key[2]
                    => cache[f].meta = data'[cache[f].key[1]]
    <3> DEFINE key == cache[f].key
    <3>1. /\ OfFile(key, f)
          /\ name[f] = key[1] /\ mtime[key[1]] = key[2] => cache[f].meta = data[key[1]]
      BY <1>1, <2>1 DEF CacheSound
    <3>2. key \in Keys
      BY <1>1 DEF Typed, Probes
    <3> HIDE DEF key
    <3>3. key[1] \in 1..Inodes /\ key[2] \in Nat /\ key[2] <= mtime[key[1]]
      BY <3>1, <3>2 DEF Keys, OfFile
    <3>4. ASSUME name'[f] = key[1], mtime'[key[1]] = key[2] PROVE cache[f].meta = data'[key[1]]
      BY <1>3, <1>4, <1>7, <3>1, <3>3, <3>4
    <3>5. OfFile(key, f)'
      <4>1. key' = key
        BY <1>4 DEF key
      <4>2. QED
        BY <1>12, <3>1, <3>2, <4>1 DEF OfFile
    <3>6. QED
      BY <3>4, <3>5, <1>4 DEF key
  <2>2. ASSUME probe.pc = "read"
        PROVE  probe.file \in Probed /\ OfFile(probe.key, probe.file)'
    <3>1. probe.file \in Probed /\ OfFile(probe.key, probe.file) /\ probe.key \in Keys
      BY <1>1, <2>2 DEF CacheSound, Typed, Probes
    <3>2. QED
      BY <1>4, <1>12, <3>1 DEF OfFile
  <2>3. QED
    BY <1>4, <2>1, <2>2 DEF CacheSound
<1>14. QED
  BY <1>9, <1>10, <1>11, <1>13

\* A finished download takes its .part to the final name.  If nobody else was at
\* it, the inode there is the download's own and holds every piece.
LEMMA RenameKeeps ==
  ASSUME RInv, NEW t \in Threads, Rename(t), name[Target(t)] # 0
  PROVE  OneName' /\ OwnInode' /\ Undisturbed' /\ CacheSound'
<1> USE Constants
<1> DEFINE part == Target(t)
           final == FileOf[dl[t].id]
           j == name[part]
<1>1. Typed /\ OneName /\ OwnInode /\ Undisturbed /\ CacheSound
  BY DEF RInv
<1>2. dl[t].pc = "rename" /\ Active(t) /\ ~dl[t].direct /\ dl[t].at \notin Pieces
  BY <1>1 DEF Rename, Active, OwnInode
<1>3. final \in Files /\ final \in Names /\ part \in Names \ Files /\ final # part
  BY <1>1, <1>2, Targets
<1>4. j \in 1..Inodes
  BY <1>1, <1>3 DEF Typed
<1>5. /\ name' = [name EXCEPT ![final] = j, ![part] = 0]
      /\ dl' = [dl EXCEPT ![t].pc = "idle"]
      /\ UNCHANGED <<data, mtime, tags, cache, probe>>
  BY DEF Rename, To
<1>6. /\ name'[final] = j /\ name'[part] = 0
      /\ \A n \in Names : n # final /\ n # part => name'[n] = name[n]
  BY <1>1, <1>3, <1>5 DEF Typed
<1>7. /\ dl'[t].pc = "idle"
      /\ \A u \in Threads : u # t => dl'[u] = dl[u]
  BY <1>1, <1>5 DEF Typed, Downloads
<1>8. \A u \in Threads : Active(u)' => u # t /\ Active(u) /\ Target(u)' = Target(u)
                                       /\ dl'[u] = dl[u]
  BY <1>7 DEF Active, Target
<1>9. \A n \in Names : name[n] = j => n = part
  BY <1>1, <1>3, <1>4 DEF OneName
<1>10. j = name[part] /\ part = Target(t)
  OBVIOUS
<1> HIDE DEF part, final, j
<1>11. OneName'
  <2>1. ASSUME NEW m \in Names, NEW n \in Names, name'[m] # 0, name'[m] = name'[n] PROVE m = n
    BY <1>1, <1>4, <1>6, <1>9, <2>1 DEF OneName
  <2>2. ASSUME NEW n \in Names, name'[n] # 0 PROVE mtime'[name'[n]] > 0
    BY <1>1, <1>3, <1>4, <1>5, <1>6, <1>10, <2>2 DEF OneName
  <2>3. QED
    BY <2>1, <2>2 DEF OneName
<1>12. OwnInode'
  <2> SUFFICES ASSUME NEW u \in Threads
               PROVE  /\ dl'[u].pc = "rename" => ~dl'[u].direct /\ dl'[u].at \notin Pieces
                      /\ Active(u)' =>
                           /\ dl'[u].ino # 0 /\ mtime'[dl'[u].ino] > 0
                           /\ \A n \in Names : name'[n] = dl'[u].ino =>
                                                 n = Target(u)' \/ n \in Files
    BY DEF OwnInode
  <2>1. dl'[u].pc = "rename" => ~dl'[u].direct /\ dl'[u].at \notin Pieces
    BY <1>1, <1>7 DEF OwnInode
  <2>2. ASSUME Active(u)'
        PROVE  /\ dl'[u].ino # 0 /\ mtime'[dl'[u].ino] > 0
               /\ \A n \in Names : name'[n] = dl'[u].ino => n = Target(u)' \/ n \in Files
    <3>1. /\ dl[u].ino # 0 /\ mtime[dl[u].ino] > 0
          /\ \A n \in Names : name[n] = dl[u].ino => n = Target(u) \/ n \in Files
      BY <1>1, <1>8, <2>2 DEF OwnInode
    <3>2. QED
      BY <1>3, <1>5, <1>6, <1>8, <2>2, <3>1
  <2>3. QED
    BY <2>1, <2>2
<1>13. Undisturbed'
  <2>1. ASSUME NEW f \in Files, name'[f] # 0, tags'[name'[f]] = {}
        PROVE  /\ Content(f)' = WholeOf(f)
               /\ \A u \in Threads : dl'[u].pc \in {"curl", "orphan"} => dl'[u].ino # name'[f]
    <3>1. CASE f = final
      <4>1. name'[f] = j /\ tags[j] = {}
        BY <1>5, <1>6, <2>1, <3>1
      <4>2. /\ dl[t].ino = j /\ InOrder(t)
            /\ \A u \in Threads : Active(u) /\ Target(u) = part => u = t
        BY <1>1, <1>2, <1>3, <1>4, <1>10, <4>1 DEF Undisturbed
      <4>3. \A k \in Pieces : data[j][k] = final
        <5>1. dl[t].at \in Nat \ {0}
          BY <1>1 DEF Typed, Downloads
        <5>2. \A k \in Pieces : k < dl[t].at
          BY <1>2, <5>1
        <5>3. QED
          BY <4>2, <5>2 DEF InOrder, final
      <4>4. data[j] = WholeOf(final)
        <5>1. data[j] \in [Pieces -> PieceValues]
          BY <1>1, <1>4 DEF Typed
        <5>2. QED
          BY <4>3, <5>1 DEF WholeOf
      <4>5. ASSUME NEW u \in Threads, dl'[u].pc \in {"curl", "orphan"}, dl'[u].ino = j
            PROVE  FALSE
        <5>1. Active(u)'
          BY <4>5 DEF Active
        <5>2. Active(u) /\ u # t /\ dl[u].ino = j
          BY <1>8, <4>5, <5>1
        <5>3. Target(u) = part
          BY <1>1, <1>3, <1>10, <5>2 DEF OwnInode
        <5>4. QED
          BY <4>2, <5>2, <5>3
      <4>6. QED
        BY <1>5, <3>1, <4>1, <4>4, <4>5 DEF Content
    <3>2. CASE f # final
      <4>1. name'[f] = name[f]
        BY <1>3, <1>6, <3>2
      <4>2. /\ Content(f) = WholeOf(f)
            /\ \A u \in Threads : dl[u].pc \in {"curl", "orphan"} => dl[u].ino # name[f]
        BY <1>1, <1>5, <2>1, <4>1 DEF Undisturbed
      <4>3. QED
        BY <1>5, <1>7, <4>1, <4>2 DEF Content
    <3>3. QED
      BY <3>1, <3>2
  <2>2. ASSUME NEW n \in Names \ Files, name'[n] # 0, tags'[name'[n]] = {},
               NEW u \in Threads, Active(u)', Target(u)' = n
        PROVE  /\ dl'[u].ino = name'[n] /\ InOrder(u)'
               /\ \A v \in Threads : Active(v)' /\ Target(v)' = n => v = u
    <3>1. name'[n] = name[n]
      BY <1>3, <1>6, <2>2
    <3>2. /\ dl[u].ino = name[n] /\ InOrder(u)
          /\ \A v \in Threads : Active(v) /\ Target(v) = n => v = u
      <4>1. name[n] # 0 /\ tags[name[n]] = {} /\ Active(u) /\ Target(u) = n
        BY <1>5, <1>8, <2>2, <3>1
      <4>2. QED
        BY <1>1, <4>1 DEF Undisturbed
    <3>3. InOrder(u)'
      <4>1. dl'[u] = dl[u] /\ data' = data
        BY <1>5, <1>8, <2>2
      <4>2. QED
        BY <3>2, <4>1 DEF InOrder
    <3>4. QED
      BY <1>8, <2>2, <3>1, <3>2, <3>3
  <2>3. QED
    BY <2>1, <2>2 DEF Undisturbed, WholeOf
<1>14. ASSUME NEW key, NEW f \in Probed, OfFile(key, f)
       PROVE  /\ \A n \in Names : name'[n] = key[1] => n = f /\ name[f] = key[1]
              /\ OfFile(key, f)'
  <2>1. f \in Files
    BY RegistryAssumption
  <2>2. key[1] # j
    BY <1>3, <1>10, <1>14, <2>1 DEF OfFile
  <2>3. \A n \in Names : name'[n] = key[1] => n = f /\ name[f] = key[1]
    BY <1>6, <1>14, <2>2 DEF OfFile
  <2>4. QED
    BY <1>5, <1>14, <2>3 DEF OfFile
<1>15. CacheSound'
  <2>1. ASSUME NEW f \in Probed, cache[f].pc # "idle"
        PROVE  /\ OfFile(cache[f].key, f)'
               /\ name'[f] = cache[f].key[1] /\ mtime'[cache[f].key[1]] = cache[f].key[2]
                    => cache[f].meta = data'[cache[f].key[1]]
    <3> DEFINE key == cache[f].key
    <3>1. /\ OfFile(key, f)
          /\ name[f] = key[1] /\ mtime[key[1]] = key[2] => cache[f].meta = data[key[1]]
      BY <1>1, <2>1 DEF CacheSound
    <3>2. key' = key /\ f \in Names
      BY <1>5, RegistryAssumption DEF key
    <3> HIDE DEF key
    <3>3. OfFile(key, f)'
      BY <1>14, <3>1, <3>2 DEF OfFile
    <3>4. QED
      BY <1>5, <1>14, <3>1, <3>2, <3>3 DEF key
  <2>2. ASSUME probe.pc = "read"
        PROVE  probe.file \in Probed /\ OfFile(probe.key, probe.file)'
    <3>1. probe.file \in Probed /\ OfFile(probe.key, probe.file)
      BY <1>1, <2>2 DEF CacheSound
    <3> DEFINE key == probe.key
               f == probe.file
    <3>2. key' = key /\ f' = f /\ f \in Probed /\ OfFile(key, f)
      BY <1>5, <3>1
    <3> HIDE DEF key, f
    <3>3. OfFile(key, f)'
      BY <1>14, <3>2 DEF OfFile
    <3>4. QED
      BY <3>1, <3>3 DEF key, f
  <2>3. QED
    BY <1>5, <2>1, <2>2 DEF CacheSound
<1>16. QED
  BY <1>11, <1>12, <1>13, <1>15

-----------------------------------------------------------------------------
(* The header cache. *)

\* The stat is taken while the name leads to an inode it has led to alone.
LEMMA StatKeeps ==
  ASSUME RInv, ProbeStat
  PROVE  CacheSound'
<1>1. PICK f \in Probed : name[f] # 0 /\ probe' = [NoProbe EXCEPT !.pc = "read", !.file = f,
                                                               !.key = Stat(f)]
  BY DEF ProbeStat
<1>2. f \in Names
  BY Constants, RegistryAssumption
<1>3. probe'.file = f /\ probe'.key = <<name[f], mtime[name[f]]>>
  BY <1>1 DEF NoProbe, Stat
<1>4. name[f] \in 1..Inodes /\ mtime[name[f]] \in Nat
  BY <1>1, <1>2, Constants DEF RInv, Typed
<1>5. OfFile(<<name[f], mtime[name[f]]>>, f)
  BY <1>1, <1>2, <1>4 DEF RInv, OneName, OfFile
<1>6. UNCHANGED <<name, data, mtime, cache>>
  BY DEF ProbeStat, disk
<1>7. OfFile(probe.key, probe.file)'
  BY <1>3, <1>5, <1>6 DEF OfFile
<1>8. \A g \in Probed : cache[g].pc # "idle" =>
        /\ OfFile(cache[g].key, g)'
        /\ name[g] = cache[g].key[1] /\ mtime[cache[g].key[1]] = cache[g].key[2]
             => cache[g].meta = data[cache[g].key[1]]
  BY <1>6 DEF RInv, CacheSound, OfFile
<1>9. QED
  BY <1>3, <1>6, <1>7, <1>8 DEF CacheSound, OfFile

\* What was read goes in under the stat taken before the reading: if the file
\* has changed since, the entry never matches again.
LEMMA ReadKeeps ==
  ASSUME RInv, ProbeRead
  PROVE  CacheSound'
<1>1. probe.pc = "read" /\ probe' = NoProbe /\ UNCHANGED <<name, data, mtime>>
  BY DEF ProbeRead, disk
<1>2. probe'.pc = "idle"
  BY <1>1 DEF NoProbe
<1>3. probe.file \in Probed /\ OfFile(probe.key, probe.file)
  BY <1>1 DEF RInv, CacheSound
<1> DEFINE entry == [probe EXCEPT !.meta = Content(probe.file)]
<1>4. entry.key = probe.key /\ entry.meta = data[name[probe.file]]
  BY DEF RInv, Typed, Probes, Content
<1> HIDE DEF entry
<1>5. \A g \in Probed : cache'[g] = cache[g] \/ (g = probe.file /\ cache'[g] = entry)
  BY DEF ProbeRead, RInv, Typed, entry
<1>6. ASSUME NEW g \in Probed, cache'[g].pc # "idle"
      PROVE  /\ OfFile(cache[g].key, g)'
             /\ name[g] = cache'[g].key[1] /\ mtime[cache'[g].key[1]] = cache'[g].key[2]
                  => cache'[g].meta = data[cache'[g].key[1]]
  <2>1. CASE cache'[g] = cache[g]
    BY <1>1, <1>6, <2>1 DEF RInv, CacheSound, OfFile
  <2>2. CASE g = probe.file /\ cache'[g] = entry
    BY <1>1, <1>3, <1>4, <2>2 DEF OfFile
  <2>3. QED
    BY <1>5, <2>1, <2>2
<1>7. QED
  BY <1>1, <1>2, <1>6 DEF CacheSound, OfFile

-----------------------------------------------------------------------------
(* The invariant. *)

\* The first state.
LEMMA InitHolds == ASSUME Init PROVE RInv
<1> USE Constants
<1>1. Typed
  BY InitTyped
<1>2. \A n \in Names : name[n] = 0
  BY DEF Init
<1>3. \A t \in Threads : dl[t].pc = "idle"
  BY DEF Init, Idle
<1>4. probe.pc = "idle" /\ \A f \in Probed : cache[f].pc = "idle"
  BY DEF Init, NoProbe
<1>5. OneName /\ OwnInode /\ Undisturbed
  BY <1>2, <1>3 DEF OneName, OwnInode, Undisturbed, Active
<1>6. CacheSound
  BY <1>4 DEF CacheSound
<1>7. Requested
  BY DEF Init, Requested
<1>8. QED
  BY <1>1, <1>5, <1>6, <1>7 DEF RInv

\* A download whose thread does nothing in a step goes on.
LEMMA Waits ==
  ASSUME RInv, NEW t \in Threads, dl'[t] = dl[t]
  PROVE  GoesOn(t)
<1>1. dl[t].pc \in {"idle", "spawned", "curl", "rename", "orphan"}
  BY DEF RInv, Typed, Downloads
<1>2. dl[t].pc = "rename" => ~dl[t].direct /\ dl[t].at \notin Pieces
  BY DEF RInv, OwnInode
<1>3. QED
  BY <1>1, <1>2 DEF GoesOn, Active

\* A step of a download, for the files.
LEMMA DownloadKeeps ==
  ASSUME RInv, NEW t \in Threads, Download(t)
  PROVE  OneName' /\ OwnInode' /\ Undisturbed' /\ CacheSound'
<1> USE Constants
<1>1. Typed /\ dl[t] \in Downloads /\ Target(t) \in Names
  BY Targets DEF RInv, Typed
<1>2. ASSUME NEW pc, To(t, pc),
             pc = "idle" \/ (pc = "rename" /\ dl[t].pc = "curl" /\ ~dl[t].direct
                                           /\ dl[t].at \notin Pieces)
      PROVE  \A u \in Threads : GoesOn(u)
  <2>1. \A u \in Threads \ {t} : GoesOn(u)
    BY <1>2, Waits DEF To
  <2>2. /\ dl'[t].pc = pc /\ dl'[t].id = dl[t].id /\ dl'[t].direct = dl[t].direct
        /\ dl'[t].ino = dl[t].ino /\ dl'[t].at = dl[t].at
    BY <1>1, <1>2 DEF To, Typed, Downloads
  <2>3. GoesOn(t)
    BY <1>2, <2>2 DEF GoesOn, Active
  <2>4. QED
    BY <2>1, <2>3
<1>3. ASSUME UNCHANGED <<data, mtime, tags, cache, probe>>,
             \A n \in Names : name'[n] = name[n] \/ name'[n] = 0,
             \A u \in Threads : GoesOn(u)
      PROVE  OneName' /\ OwnInode' /\ Undisturbed' /\ CacheSound'
  BY <1>3, NamesRemoved
<1>4. CASE Open(t)
  BY <1>4, OpenKeeps
<1>5. CASE Receive(t)
  BY <1>5, ReceiveKeeps
<1>6. CASE CurlOk(t)
  <2>1. \A u \in Threads : GoesOn(u)
    BY <1>1, <1>2, <1>6 DEF CurlOk, Downloads
  <2>2. QED
    BY <1>3, <1>6, <2>1 DEF CurlOk, disk
<1>7. CASE Rename(t) /\ name[Target(t)] # 0
  BY <1>7, RenameKeeps
<1>8. CASE Rename(t) /\ name[Target(t)] = 0
  <2>1. \A u \in Threads : GoesOn(u)
    BY <1>2, <1>8 DEF Rename
  <2>2. QED
    BY <1>3, <1>8, <2>1 DEF Rename
<1>9. CASE CurlFails(t)
  <2>1. \A u \in Threads : GoesOn(u)
    BY <1>2, <1>9 DEF CurlFails
  <2>2. \A n \in Names : name'[n] = name[n] \/ name'[n] = 0
    BY <1>1, <1>9 DEF CurlFails, Typed
  <2>3. QED
    BY <1>3, <1>9, <2>1, <2>2 DEF CurlFails
<1>10. CASE OrphanEnds(t)
  <2>1. \A u \in Threads : GoesOn(u)
    BY <1>2, <1>10 DEF OrphanEnds
  <2>2. QED
    BY <1>3, <1>10, <2>1 DEF OrphanEnds, disk
<1>11. QED
  BY <1>4, <1>5, <1>6, <1>7, <1>8, <1>9, <1>10 DEF Download

\* Every step, for the files.
LEMMA DiskKeeps ==
  ASSUME RInv, [Next]_vars
  PROVE  OneName' /\ OwnInode' /\ Undisturbed' /\ CacheSound'
<1> USE Constants DEF disk, jobs
<1>1. Typed
  BY DEF RInv
<1>2. ASSUME UNCHANGED <<disk, dl>>
      PROVE  OneName' /\ OwnInode' /\ Undisturbed' /\ (UNCHANGED <<cache, probe>> => CacheSound')
  <2>1. \A t \in Threads : GoesOn(t)
    BY <1>2, Waits
  <2>2. QED
    BY <1>2, <2>1, NamesRemoved
<1>3. ASSUME UNCHANGED <<disk, cache, probe>>, NEW id \in Ids, NEW direct \in BOOLEAN,
             Spawn(id, direct)
      PROVE  OneName' /\ OwnInode' /\ Undisturbed' /\ CacheSound'
  <2>1. \A t \in Threads : GoesOn(t)
    BY <1>1, <1>3, Waits, Spawned DEF GoesOn
  <2>2. QED
    BY <1>3, <2>1, NamesRemoved
<1>4. CASE Restart
  <2>1. ASSUME NEW t \in Threads PROVE GoesOn(t)
    <3>1. dl[t] \in Downloads
      BY <1>1 DEF Typed
    <3>2. dl'[t] = Idle \/ (dl[t].pc \in {"curl", "orphan"}
                            /\ dl'[t] = [dl[t] EXCEPT !.pc = "orphan"])
      BY <1>4 DEF Restart
    <3>3. CASE dl'[t] = Idle
      BY <3>3 DEF GoesOn, Idle
    <3>4. CASE dl[t].pc \in {"curl", "orphan"} /\ dl'[t] = [dl[t] EXCEPT !.pc = "orphan"]
      BY <3>1, <3>4 DEF GoesOn, Downloads, Active
    <3>5. QED
      BY <3>2, <3>3, <3>4
  <2>2. OneName' /\ OwnInode' /\ Undisturbed'
    BY <1>4, <2>1, NamesRemoved DEF Restart
  <2>3. probe'.pc = "idle" /\ \A f \in Probed : cache'[f].pc = "idle"
    BY <1>4 DEF Restart, NoProbe
  <2>4. CacheSound'
    BY <2>3 DEF CacheSound
  <2>5. QED
    BY <2>2, <2>4
<1>5. CASE BootAccount \/ BootMark \/ UNCHANGED vars
  BY <1>2, <1>5 DEF BootAccount, BootMark, vars
<1>6. CASE BootPreseed
  BY <1>3, <1>6 DEF BootPreseed
<1>7. ASSUME NEW id \in Ids, Handlers(id)
      PROVE  OneName' /\ OwnInode' /\ Undisturbed' /\ CacheSound'
  <2>1. CASE AddPush(id) \/ AddPersist(id)
    BY <1>2, <2>1 DEF AddPush, AddPersist
  <2>2. CASE AddSpawn(id)
    BY <1>3, <2>2 DEF AddSpawn
  <2>3. CASE Ask(id) \/ Load(id) \/ UiUnload(id)
    BY <1>2, <2>3 DEF Ask, Load, UiUnload
  <2>4. CASE DeleteUnload(id) \/ DeleteEntry(id) \/ DeletePersist(id)
    BY <1>2, <2>4 DEF DeleteUnload, DeleteEntry, DeletePersist
  <2>5. CASE DeleteFile(id)
    <3>1. \A t \in Threads : GoesOn(t)
      BY <2>5, Waits DEF DeleteFile
    <3>2. \A n \in Names : name'[n] = name[n] \/ name'[n] = 0
      BY <1>1, <2>5 DEF DeleteFile, Typed
    <3>3. QED
      BY <2>5, <3>1, <3>2, NamesRemoved DEF DeleteFile
  <2>6. QED
    BY <1>7, <2>1, <2>2, <2>3, <2>4, <2>5 DEF Handlers
<1>8. CASE \E t \in Threads : Download(t)
  BY <1>8, DownloadKeeps
<1>9. CASE ProbeStat
  BY <1>2, <1>9, StatKeeps DEF ProbeStat
<1>10. CASE ProbeRead
  BY <1>2, <1>10, ReadKeeps DEF ProbeRead
<1>11. QED
  BY <1>4, <1>5, <1>6, <1>7, <1>8, <1>9, <1>10 DEF Next

\* The invariant, in every state.
LEMMA RInvInductive ==
  Spec => []RInv
<1>1. Init => RInv
  BY InitHolds
<1>2. RInv /\ [Next]_vars => RInv'
  <2> SUFFICES ASSUME RInv, [Next]_vars PROVE RInv'
    OBVIOUS
  <2>1. Typed' /\ Requested'
    BY NextTyped, NextRequested DEF RInv
  <2>2. OneName' /\ OwnInode' /\ Undisturbed' /\ CacheSound'
    BY DiskKeeps
  <2>3. QED
    BY <2>1, <2>2 DEF RInv
<1>3. QED
  BY <1>1, <1>2, PTL DEF Spec

-----------------------------------------------------------------------------
\* What lies under a model's final name is all of the file the server has for
\* it, through every failure, deletion and restart, unless the download was the
\* pre-seed's or shared its .part name (FinalFileIsWhole): download_model writes
\* beside the name and renames when curl is done (admin.rs, provision.rs).
THEOREM FinalNameIsWhole ==
  Spec => []FinalFileIsWhole
<1>1. RInv => FinalFileIsWhole
  BY DEF RInv, Undisturbed, FinalFileIsWhole
<1>2. QED
  BY <1>1, RInvInductive, PTL

\* The cache of parsed headers never answers for a content the file no longer
\* has (CacheExact): GgufMeta::cached takes the stat before it reads (gguf.rs).
THEOREM CacheNeverStale ==
  Spec => []CacheExact
<1>1. RInv => CacheExact
  <2> SUFFICES ASSUME RInv, NEW f \in Probed, name[f] # 0, cache[f].pc # "idle",
                      cache[f].key = Stat(f)
               PROVE  cache[f].meta = Content(f)
    BY DEF CacheExact
  <2>1. cache[f].key[1] = name[f] /\ cache[f].key[2] = mtime[name[f]]
    BY DEF Stat
  <2>2. QED
    BY <2>1 DEF RInv, CacheSound, Content
<1>2. QED
  BY <1>1, RInvInductive, PTL

\* Only a model that was asked for while it was being deleted can be resident
\* without an entry (OrphanOnlyByRace): delete_model unloads first and removes
\* the entry after it (admin.rs), acquire works on a clone of the entry.
THEOREM DeletionLeavesNothing ==
  Spec => []OrphanOnlyByRace
<1>1. RInv => OrphanOnlyByRace
  BY DEF RInv, Requested, OrphanOnlyByRace
<1>2. QED
  BY <1>1, RInvInductive, PTL

-----------------------------------------------------------------------------
(* Loops: what holds at their start and is passed on holds at their end. *)

\* Every non-empty set of naturals has a least element.
LEMMA LeastNat ==
  ASSUME NEW T \in SUBSET Nat, T # {}
  PROVE  \E x \in T : \A y \in T : x <= y
<1> DEFINE R == OpToRel(<, Nat)
<1>1. \A x, y \in Nat : <<x, y>> \in R <=> x < y
  BY DEF OpToRel
<1>2. \E x \in T : \A y \in T : ~(<<y, x>> \in R)
  <2>1. IsWellFoundedOn(R, Nat)
    BY NatLessThanWellFounded
  <2> HIDE DEF R
  <2>2. QED
    BY <2>1, WFMin
<1>3. PICK x \in T : \A y \in T : ~(<<y, x>> \in R)
  BY <1>2
<1>4. \A y \in T : ~(y < x)
  BY <1>1, <1>3
<1>5. QED
  BY <1>4

\* What holds of 0 and is passed on holds up to n.
LEMMA UpTo ==
  ASSUME NEW n \in Nat, NEW T, 0 \in T, \A i \in 0..(n - 1) : i \in T => i + 1 \in T
  PROVE  \A i \in 0..n : i \in T
<1> DEFINE Bad == {i \in 0..n : i \notin T}
<1>1. SUFFICES ASSUME Bad # {} PROVE FALSE
  OBVIOUS
<1>2. PICK x \in Bad : \A y \in Bad : x <= y
  <2>1. Bad \in SUBSET Nat
    OBVIOUS
  <2> HIDE DEF Bad
  <2>2. QED
    BY <1>1, <2>1, LeastNat
<1>3. x \in 0..n /\ x \notin T /\ x # 0
  BY <1>2
<1>4. x - 1 \in 0..(n - 1)
  BY <1>3
<1>5. x - 1 \in T
  BY <1>2, <1>3, <1>4
<1>6. QED
  BY <1>3, <1>4, <1>5

-----------------------------------------------------------------------------
(* The loops of the reader. *)

\* What read makes of the item at p.
ItemAt(read, p, vt) == read[p][vt]

\* The loop over the elements of an array.
ElementsOf(at, read, pos, vt, n) ==
  at = [k \in 0..n |-> IF k = 0 THEN Skip(pos, 0)
         ELSE IF at[k - 1].ok /\ vt \in Types THEN ItemAt(read, at[k - 1].pos, vt)
              ELSE Err]

LEMMA ElementsLoop ==
  ASSUME NEW read, NEW pos, NEW vt, NEW n \in Nat
  PROVE  \E at : ElementsOf(at, read, pos, vt, n) /\ Elements(read, pos, vt, n) = at[n]
<1> DEFINE Further(r) == IF r.ok /\ vt \in Types THEN ItemAt(read, r.pos, vt) ELSE Err
           Base == Skip(pos, 0)
           Is(m, at) == at = [k \in 0..m |-> IF k = 0 THEN Base ELSE Further(at[k - 1])]
           T == {m \in 0..n : \E at : Is(m, at)}
           all == CHOOSE at : Is(n, at)
<1>1. 0 \in T
  <2>1. Is(0, [k \in 0..0 |-> Base])
    OBVIOUS
  <2> HIDE DEF Is
  <2>2. QED
    BY <2>1
<1>2. ASSUME NEW m \in 0..(n - 1), m \in T PROVE m + 1 \in T
  <2> HIDE DEF T, Is
  <2>0. m \in Nat /\ m + 1 \in 0..n
    BY <1>2
  <2>1. PICK g : Is(m, g)
    BY <1>2 DEF T
  <2> USE DEF Is
  <2> HIDE DEF Further, Base
  <2> DEFINE h == [k \in 0..(m + 1) |-> IF k = m + 1 THEN Further(g[m]) ELSE g[k]]
  <2>2. \A k \in 0..(m + 1) : h[k] = IF k = 0 THEN Base ELSE Further(h[k - 1])
    BY <2>0, <2>1
  <2>3. Is(m + 1, h)
    BY <2>2
  <2> HIDE DEF Is, h
  <2>4. QED
    BY <2>0, <2>3 DEF T
<1>3. Is(n, all)
  <2> HIDE DEF T, Is
  <2>1. \A i \in 0..n : i \in T
    BY <1>1, <1>2, UpTo
  <2>2. QED
    BY <2>1 DEF T
<1>4. Elements(read, pos, vt, n) = all[n]
  BY DEF Elements, ItemAt
<1>5. ElementsOf(all, read, pos, vt, n)
  BY <1>3 DEF ElementsOf
<1> HIDE DEF all
<1>6. QED
  BY <1>4, <1>5

\* The loop over the pairs.
PairsOf(at, f, pos, n) ==
  at = [k \in 0..n |-> IF k = 0 THEN [ok |-> TRUE, pos |-> pos, kv |-> <<>>]
         ELSE IF at[k - 1].ok THEN ReadPair(f, at[k - 1]) ELSE NoPairs]

LEMMA PairsLoop ==
  ASSUME NEW f, NEW pos, NEW n \in Nat
  PROVE  \E at : PairsOf(at, f, pos, n) /\ ReadKvs(f, pos, n) = at[n]
<1> DEFINE Further(r) == IF r.ok THEN ReadPair(f, r) ELSE NoPairs
           Base == [ok |-> TRUE, pos |-> pos, kv |-> <<>>]
           Is(m, at) == at = [k \in 0..m |-> IF k = 0 THEN Base ELSE Further(at[k - 1])]
           T == {m \in 0..n : \E at : Is(m, at)}
           all == CHOOSE at : Is(n, at)
<1>1. 0 \in T
  <2>1. Is(0, [k \in 0..0 |-> Base])
    OBVIOUS
  <2> HIDE DEF Is
  <2>2. QED
    BY <2>1
<1>2. ASSUME NEW m \in 0..(n - 1), m \in T PROVE m + 1 \in T
  <2> HIDE DEF T, Is
  <2>0. m \in Nat /\ m + 1 \in 0..n
    BY <1>2
  <2>1. PICK g : Is(m, g)
    BY <1>2 DEF T
  <2> USE DEF Is
  <2> HIDE DEF Further, Base
  <2> DEFINE h == [k \in 0..(m + 1) |-> IF k = m + 1 THEN Further(g[m]) ELSE g[k]]
  <2>2. \A k \in 0..(m + 1) : h[k] = IF k = 0 THEN Base ELSE Further(h[k - 1])
    BY <2>0, <2>1
  <2>3. Is(m + 1, h)
    BY <2>2
  <2> HIDE DEF Is, h
  <2>4. QED
    BY <2>0, <2>3 DEF T
<1>3. Is(n, all)
  <2> HIDE DEF T, Is
  <2>1. \A i \in 0..n : i \in T
    BY <1>1, <1>2, UpTo
  <2>2. QED
    BY <2>1 DEF T
<1>4. ReadKvs(f, pos, n) = all[n]
  BY DEF ReadKvs
<1>5. PairsOf(all, f, pos, n)
  BY <1>3 DEF PairsOf
<1> HIDE DEF all
<1>6. QED
  BY <1>4, <1>5

\* The loop over the dimensions of a tensor.
DimsOf(at, f, pos, n) ==
  at = [k \in 0..n |-> IF k = 0 THEN Kept(pos, 1)
         ELSE IF at[k - 1].ok /\ Exact(f, at[k - 1].pos).ok
               THEN Kept(Exact(f, at[k - 1].pos).pos, at[k - 1].val * Exact(f, at[k - 1].pos).val)
               ELSE Err]

LEMMA DimsLoop ==
  ASSUME NEW f, NEW pos, NEW n \in Nat
  PROVE  \E at : DimsOf(at, f, pos, n) /\ ReadDims(f, pos, n) = at[n]
<1> DEFINE Further(r) ==
             IF r.ok /\ Exact(f, r.pos).ok
             THEN Kept(Exact(f, r.pos).pos, r.val * Exact(f, r.pos).val) ELSE Err
           Base == Kept(pos, 1)
           Is(m, at) == at = [k \in 0..m |-> IF k = 0 THEN Base ELSE Further(at[k - 1])]
           T == {m \in 0..n : \E at : Is(m, at)}
           all == CHOOSE at : Is(n, at)
<1>1. 0 \in T
  <2>1. Is(0, [k \in 0..0 |-> Base])
    OBVIOUS
  <2> HIDE DEF Is
  <2>2. QED
    BY <2>1
<1>2. ASSUME NEW m \in 0..(n - 1), m \in T PROVE m + 1 \in T
  <2> HIDE DEF T, Is
  <2>0. m \in Nat /\ m + 1 \in 0..n
    BY <1>2
  <2>1. PICK g : Is(m, g)
    BY <1>2 DEF T
  <2> USE DEF Is
  <2> HIDE DEF Further, Base
  <2> DEFINE h == [k \in 0..(m + 1) |-> IF k = m + 1 THEN Further(g[m]) ELSE g[k]]
  <2>2. \A k \in 0..(m + 1) : h[k] = IF k = 0 THEN Base ELSE Further(h[k - 1])
    BY <2>0, <2>1
  <2>3. Is(m + 1, h)
    BY <2>2
  <2> HIDE DEF Is, h
  <2>4. QED
    BY <2>0, <2>3 DEF T
<1>3. Is(n, all)
  <2> HIDE DEF T, Is
  <2>1. \A i \in 0..n : i \in T
    BY <1>1, <1>2, UpTo
  <2>2. QED
    BY <2>1 DEF T
<1>4. ReadDims(f, pos, n) = all[n]
  BY DEF ReadDims
<1>5. DimsOf(all, f, pos, n)
  BY <1>3 DEF DimsOf
<1> HIDE DEF all
<1>6. QED
  BY <1>4, <1>5

\* The loop over the tensors.
TensorsOf(at, f, pos, n) ==
  at = [k \in 0..n |-> IF k = 0 THEN [ok |-> TRUE, pos |-> pos, need |-> 0]
         ELSE IF at[k - 1].ok THEN ReadTensor(f, at[k - 1]) ELSE NoTensors]

LEMMA TensorsLoop ==
  ASSUME NEW f, NEW pos, NEW n \in Nat
  PROVE  \E at : TensorsOf(at, f, pos, n) /\ ReadTensors(f, pos, n) = at[n]
<1> DEFINE Further(r) == IF r.ok THEN ReadTensor(f, r) ELSE NoTensors
           Base == [ok |-> TRUE, pos |-> pos, need |-> 0]
           Is(m, at) == at = [k \in 0..m |-> IF k = 0 THEN Base ELSE Further(at[k - 1])]
           T == {m \in 0..n : \E at : Is(m, at)}
           all == CHOOSE at : Is(n, at)
<1>1. 0 \in T
  <2>1. Is(0, [k \in 0..0 |-> Base])
    OBVIOUS
  <2> HIDE DEF Is
  <2>2. QED
    BY <2>1
<1>2. ASSUME NEW m \in 0..(n - 1), m \in T PROVE m + 1 \in T
  <2> HIDE DEF T, Is
  <2>0. m \in Nat /\ m + 1 \in 0..n
    BY <1>2
  <2>1. PICK g : Is(m, g)
    BY <1>2 DEF T
  <2> USE DEF Is
  <2> HIDE DEF Further, Base
  <2> DEFINE h == [k \in 0..(m + 1) |-> IF k = m + 1 THEN Further(g[m]) ELSE g[k]]
  <2>2. \A k \in 0..(m + 1) : h[k] = IF k = 0 THEN Base ELSE Further(h[k - 1])
    BY <2>0, <2>1
  <2>3. Is(m + 1, h)
    BY <2>2
  <2> HIDE DEF Is, h
  <2>4. QED
    BY <2>0, <2>3 DEF T
<1>3. Is(n, all)
  <2> HIDE DEF T, Is
  <2>1. \A i \in 0..n : i \in T
    BY <1>1, <1>2, UpTo
  <2>2. QED
    BY <2>1 DEF T
<1>4. ReadTensors(f, pos, n) = all[n]
  BY DEF ReadTensors
<1>5. TensorsOf(all, f, pos, n)
  BY <1>3 DEF TensorsOf
<1> HIDE DEF all
<1>6. QED
  BY <1>4, <1>5

\* The levels of skip_value.
SkippingsOf(at, f) ==
  at = [k \in 0..(Depth + 1) |-> IF k = 0 THEN Hopeless
         ELSE SkipAround(f, at[k - 1])]

LEMMA SkippingsLoop ==
  ASSUME NEW f
  PROVE  \E at : SkippingsOf(at, f) /\ Skipping(f, 1) = at[IF 1 > Depth THEN 0 ELSE Depth + 1 - 1]
<1> DEFINE Further(r) == SkipAround(f, r)
           Base == Hopeless
           Is(m, at) == at = [k \in 0..m |-> IF k = 0 THEN Base ELSE Further(at[k - 1])]
           T == {m \in 0..(Depth + 1) : \E at : Is(m, at)}
           all == CHOOSE at : Is(Depth + 1, at)
<1>1. 0 \in T
  <2>1. Is(0, [k \in 0..0 |-> Base])
    OBVIOUS
  <2> HIDE DEF Is
  <2>2. QED
    BY <2>1, GgufAssumption
<1>2. ASSUME NEW m \in 0..(Depth + 1 - 1), m \in T PROVE m + 1 \in T
  <2> HIDE DEF T, Is
  <2>0. m \in Nat /\ m + 1 \in 0..(Depth + 1)
    BY <1>2, GgufAssumption
  <2>1. PICK g : Is(m, g)
    BY <1>2 DEF T
  <2> USE DEF Is
  <2> HIDE DEF Further, Base
  <2> DEFINE h == [k \in 0..(m + 1) |-> IF k = m + 1 THEN Further(g[m]) ELSE g[k]]
  <2>2. \A k \in 0..(m + 1) : h[k] = IF k = 0 THEN Base ELSE Further(h[k - 1])
    BY <2>0, <2>1
  <2>3. Is(m + 1, h)
    BY <2>2
  <2> HIDE DEF Is, h
  <2>4. QED
    BY <2>0, <2>3 DEF T
<1>3. Is(Depth + 1, all)
  <2> HIDE DEF T, Is
  <2>1. \A i \in 0..(Depth + 1) : i \in T
    BY <1>1, <1>2, UpTo, GgufAssumption
  <2>2. QED
    BY <2>1, GgufAssumption DEF T
<1>4. Skipping(f, 1) = all[IF 1 > Depth THEN 0 ELSE Depth + 1 - 1]
  BY DEF Skipping
<1>5. SkippingsOf(all, f)
  BY <1>3 DEF SkippingsOf
<1> HIDE DEF all
<1>6. QED
  BY <1>4, <1>5

\* The levels of read_value.
ReadingsOf(at, f) ==
  at = [k \in 0..Len(f) |-> IF k = 0 THEN Hopeless
         ELSE ReadAround(f, at[k - 1], Len(f) - k)]

LEMMA ReadingsLoop ==
  ASSUME NEW f, Len(f) \in Nat
  PROVE  \E at : ReadingsOf(at, f) /\ Reading(f) = at[Len(f)]
<1> DEFINE Further(r, k) == ReadAround(f, r, Len(f) - k)
           Base == Hopeless
           Is(m, at) == at = [k \in 0..m |-> IF k = 0 THEN Base ELSE Further(at[k - 1], k)]
           T == {m \in 0..Len(f) : \E at : Is(m, at)}
           all == CHOOSE at : Is(Len(f), at)
<1>1. 0 \in T
  <2>1. Is(0, [k \in 0..0 |-> Base])
    OBVIOUS
  <2> HIDE DEF Is
  <2>2. QED
    BY <2>1
<1>2. ASSUME NEW m \in 0..(Len(f) - 1), m \in T PROVE m + 1 \in T
  <2> HIDE DEF T, Is
  <2>0. m \in Nat /\ m + 1 \in 0..Len(f)
    BY <1>2
  <2>1. PICK g : Is(m, g)
    BY <1>2 DEF T
  <2> USE DEF Is
  <2> HIDE DEF Further, Base
  <2> DEFINE h == [k \in 0..(m + 1) |-> IF k = m + 1 THEN Further(g[m], m + 1) ELSE g[k]]
  <2>2. \A k \in 0..(m + 1) : h[k] = IF k = 0 THEN Base ELSE Further(h[k - 1], k)
    BY <2>0, <2>1
  <2>3. Is(m + 1, h)
    BY <2>2
  <2> HIDE DEF Is, h
  <2>4. QED
    BY <2>0, <2>3 DEF T
<1>3. Is(Len(f), all)
  <2> HIDE DEF T, Is
  <2>1. \A i \in 0..Len(f) : i \in T
    BY <1>1, <1>2, UpTo
  <2>2. QED
    BY <2>1 DEF T
<1>4. Reading(f) = all[Len(f)]
  BY DEF Reading
<1>5. ReadingsOf(all, f)
  BY <1>3 DEF ReadingsOf
<1> HIDE DEF all
<1>6. QED
  BY <1>4, <1>5

\* Where the pairs of a header end.
PairEndsOf(at, w) ==
  at = [k \in 0..w[4] |-> IF k = 0 THEN 4
         ELSE PairEnd(w, at[k - 1])]

LEMMA PairEndsLoop ==
  ASSUME NEW w, w[4] \in Nat
  PROVE  \E at : PairEndsOf(at, w) /\ PairEnds(w) = at
<1> DEFINE Further(r) == PairEnd(w, r)
           Base == 4
           Is(m, at) == at = [k \in 0..m |-> IF k = 0 THEN Base ELSE Further(at[k - 1])]
           T == {m \in 0..w[4] : \E at : Is(m, at)}
           all == CHOOSE at : Is(w[4], at)
<1>1. 0 \in T
  <2>1. Is(0, [k \in 0..0 |-> Base])
    OBVIOUS
  <2> HIDE DEF Is
  <2>2. QED
    BY <2>1
<1>2. ASSUME NEW m \in 0..(w[4] - 1), m \in T PROVE m + 1 \in T
  <2> HIDE DEF T, Is
  <2>0. m \in Nat /\ m + 1 \in 0..w[4]
    BY <1>2
  <2>1. PICK g : Is(m, g)
    BY <1>2 DEF T
  <2> USE DEF Is
  <2> HIDE DEF Further, Base
  <2> DEFINE h == [k \in 0..(m + 1) |-> IF k = m + 1 THEN Further(g[m]) ELSE g[k]]
  <2>2. \A k \in 0..(m + 1) : h[k] = IF k = 0 THEN Base ELSE Further(h[k - 1])
    BY <2>0, <2>1
  <2>3. Is(m + 1, h)
    BY <2>2
  <2> HIDE DEF Is, h
  <2>4. QED
    BY <2>0, <2>3 DEF T
<1>3. Is(w[4], all)
  <2> HIDE DEF T, Is
  <2>1. \A i \in 0..w[4] : i \in T
    BY <1>1, <1>2, UpTo
  <2>2. QED
    BY <2>1 DEF T
<1>4. PairEnds(w) = all
  BY DEF PairEnds
<1>5. PairEndsOf(all, w)
  BY <1>3 DEF PairEndsOf
<1> HIDE DEF all
<1>6. QED
  BY <1>4, <1>5

\* Where its tensors end.
TensorEndsOf(at, w) ==
  at = [k \in 0..w[3] |-> IF k = 0 THEN PairEnds(w)[w[4]]
         ELSE TensorEnd(w, at[k - 1])]

LEMMA TensorEndsLoop ==
  ASSUME NEW w, w[3] \in Nat
  PROVE  \E at : TensorEndsOf(at, w) /\ TensorEnds(w) = at
<1> DEFINE Further(r) == TensorEnd(w, r)
           Base == PairEnds(w)[w[4]]
           Is(m, at) == at = [k \in 0..m |-> IF k = 0 THEN Base ELSE Further(at[k - 1])]
           T == {m \in 0..w[3] : \E at : Is(m, at)}
           all == CHOOSE at : Is(w[3], at)
<1>1. 0 \in T
  <2>1. Is(0, [k \in 0..0 |-> Base])
    OBVIOUS
  <2> HIDE DEF Is
  <2>2. QED
    BY <2>1
<1>2. ASSUME NEW m \in 0..(w[3] - 1), m \in T PROVE m + 1 \in T
  <2> HIDE DEF T, Is
  <2>0. m \in Nat /\ m + 1 \in 0..w[3]
    BY <1>2
  <2>1. PICK g : Is(m, g)
    BY <1>2 DEF T
  <2> USE DEF Is
  <2> HIDE DEF Further, Base
  <2> DEFINE h == [k \in 0..(m + 1) |-> IF k = m + 1 THEN Further(g[m]) ELSE g[k]]
  <2>2. \A k \in 0..(m + 1) : h[k] = IF k = 0 THEN Base ELSE Further(h[k - 1])
    BY <2>0, <2>1
  <2>3. Is(m + 1, h)
    BY <2>2
  <2> HIDE DEF Is, h
  <2>4. QED
    BY <2>0, <2>3 DEF T
<1>3. Is(w[3], all)
  <2> HIDE DEF T, Is
  <2>1. \A i \in 0..w[3] : i \in T
    BY <1>1, <1>2, UpTo
  <2>2. QED
    BY <2>1 DEF T
<1>4. TensorEnds(w) = all
  BY DEF TensorEnds
<1>5. TensorEndsOf(all, w)
  BY <1>3 DEF TensorEndsOf
<1> HIDE DEF all
<1>6. QED
  BY <1>4, <1>5

-----------------------------------------------------------------------------
(* Reading the first m fields of w. *)

\* f is what has arrived of w.
Prefix(f, w, m) == m \in Nat /\ Len(f) = m /\ \A i \in 1..m : f[i] = w[i]

\* A reading that ends well ends at e, and if e fields are there it ends well.
Ends(r, m, e) == r.ok \in BOOLEAN /\ (r.ok => r.pos = e) /\ (e <= m => r.ok)

\* It has kept this value, or none.
Reads(r, m, e, kept, val) == Ends(r, m, e) /\ (r.ok => r.kept = kept /\ r.val = val)

\* exact reads a field that is there.
LEMMA ExactReads ==
  ASSUME NEW f, NEW w, NEW m, Prefix(f, w, m), NEW a \in Nat
  PROVE  /\ Reads(Exact(f, a), m, a + 1, TRUE, w[a + 1])
         /\ Exact(f, a).ok => a + 1 <= m
<1>1. CASE a >= m
  <2>1. Exact(f, a) = Err /\ ~Err.ok /\ Err.ok \in BOOLEAN
    BY <1>1 DEF Exact, Err, Prefix
  <2>2. ~(a + 1 <= m)
    BY <1>1 DEF Prefix
  <2>3. QED
    BY <2>1, <2>2 DEF Reads, Ends
<1>2. CASE a < m
  <2>1. a + 1 \in 1..m /\ f[a + 1] = w[a + 1] /\ ~(a >= Len(f))
    BY <1>2 DEF Prefix
  <2>2. Exact(f, a) = Kept(a + 1, w[a + 1])
    BY <2>1 DEF Exact
  <2>3. QED
    BY <2>1, <2>2 DEF Reads, Ends, Kept
<1>3. a < m \/ a >= m
  BY DEF Prefix
<1>4. QED
  BY <1>1, <1>2, <1>3

\* string reads its length and its text.
LEMMA StringReads ==
  ASSUME NEW f, NEW w, NEW m, Prefix(f, w, m), NEW a \in Nat, IsString(w, a)
  PROVE  /\ Reads(ReadString(f, a), m, a + 2, TRUE, w[a + 2])
         /\ ReadString(f, a).ok => a + 2 <= m
<1> DEFINE len == Exact(f, a)
<1>1. Reads(len, m, a + 1, TRUE, w[a + 1]) /\ (len.ok => a + 1 <= m)
  BY ExactReads
<1>2. ReadString(f, a) = IF ~len.ok THEN Err ELSE IF len.val > StringCap THEN Err
                         ELSE Exact(f, len.pos)
  BY DEF ReadString
<1> HIDE DEF len
<1>3. CASE len.ok
  <2>1. len.pos = a + 1 /\ len.val = w[a + 1] /\ ~(w[a + 1] > StringCap)
    BY <1>1, <1>3, GgufAssumption DEF Reads, Ends, IsString
  <2>2. ReadString(f, a) = Exact(f, a + 1)
    BY <1>2, <1>3, <2>1
  <2> HIDE DEF Reads
  <2>0. a + 1 \in Nat
    OBVIOUS
  <2>3. /\ Reads(Exact(f, a + 1), m, (a + 1) + 1, TRUE, w[(a + 1) + 1])
        /\ Exact(f, a + 1).ok => (a + 1) + 1 <= m
    BY <2>0, ExactReads
  <2>4. (a + 1) + 1 = a + 2
    OBVIOUS
  <2>5. QED
    BY <2>2, <2>3, <2>4
<1>4. CASE ~len.ok
  <2>1. ReadString(f, a) = Err /\ ~Err.ok /\ Err.ok \in BOOLEAN
    BY <1>2, <1>4 DEF Err
  <2>2. ~(a + 2 <= m)
    BY <1>1, <1>4 DEF Reads, Ends, Prefix
  <2>3. QED
    BY <2>1, <2>2 DEF Reads, Ends
<1>5. QED
  BY <1>3, <1>4

\* A number or a string is skipped up to its end.
LEMMA SkipElement ==
  ASSUME NEW f, NEW w, NEW m, Prefix(f, w, m), NEW a \in Nat, NEW inner,
         NEW t \in {"u", "s"}, t = "s" => IsString(w, a)
  PROVE  Ends(SkipValue(f, inner, a, t), m, ValueEnd(w, a, t))
<1>1. CASE t = "u"
  <2>1. SkipValue(f, inner, a, t) = Skip(a, 1) /\ ValueEnd(w, a, t) = a + 1
    BY <1>1 DEF SkipValue, ValueEnd
  <2>2. QED
    BY <2>1 DEF Ends, Skip
<1>2. CASE t = "s"
  <2> DEFINE len == Exact(f, a)
  <2>1. Reads(len, m, a + 1, TRUE, w[a + 1])
    BY ExactReads
  <2>2. /\ SkipValue(f, inner, a, t)
             = IF ~len.ok THEN Err ELSE IF len.val > StringCap THEN Err ELSE Skip(len.pos, 1)
        /\ ValueEnd(w, a, t) = a + 2
    BY <1>2 DEF SkipValue, ValueEnd
  <2> HIDE DEF len
  <2>3. CASE len.ok
    <3>1. len.pos = a + 1 /\ len.val = w[a + 1] /\ ~(w[a + 1] > StringCap)
      BY <1>2, <2>1, <2>3, GgufAssumption DEF Reads, Ends, IsString
    <3>2. SkipValue(f, inner, a, t) = Skip(a + 1, 1) /\ (a + 1) + 1 = a + 2
      BY <2>2, <2>3, <3>1
    <3>3. Skip(a + 1, 1).ok /\ Skip(a + 1, 1).pos = (a + 1) + 1
      BY DEF Skip
    <3>4. QED
      BY <2>2, <3>2, <3>3 DEF Ends
  <2>4. CASE ~len.ok
    <3>1. SkipValue(f, inner, a, t) = Err /\ ~Err.ok /\ Err.ok \in BOOLEAN
      BY <2>2, <2>4 DEF Err
    <3>2. ~(a + 2 <= m)
      BY <2>1, <2>4 DEF Reads, Ends, Prefix
    <3>3. QED
      BY <2>2, <3>1, <3>2 DEF Ends
  <2>5. QED
    BY <2>3, <2>4
<1>3. QED
  BY <1>1, <1>2

\* The value of a number or a string is read up to its end.
LEMMA ReadElement ==
  ASSUME NEW f, NEW w, NEW m, Prefix(f, w, m), NEW a \in Nat, NEW inner, NEW d,
         NEW t \in {"u", "s"}, t = "s" => IsString(w, a)
  PROVE  Reads(ReadValue(f, inner, a, t, d), m, ValueEnd(w, a, t), TRUE,
               IF t = "u" THEN w[a + 1] ELSE w[a + 2])
<1>1. CASE t = "u"
  <2>1. ReadValue(f, inner, a, t, d) = Exact(f, a) /\ ValueEnd(w, a, t) = a + 1
    BY <1>1 DEF ReadValue, ValueEnd
  <2>2. QED
    BY <1>1, <2>1, ExactReads
<1>2. CASE t = "s"
  <2>1. ReadValue(f, inner, a, t, d) = ReadString(f, a) /\ ValueEnd(w, a, t) = a + 2
    BY <1>2 DEF ReadValue, ValueEnd
  <2>2. QED
    BY <1>2, <2>1, StringReads
<1>3. QED
  BY <1>1, <1>2

\* Elements that end at the E[j] are read up to E[n].
LEMMA ElementsRead ==
  ASSUME NEW n \in Nat, NEW m \in Nat, NEW E \in [0..n -> Nat], NEW read, NEW vt \in Types,
         \A j \in 1..n : E[j - 1] <= E[j] /\ Ends(ItemAt(read, E[j - 1], vt), m, E[j])
  PROVE  Ends(Elements(read, E[0], vt, n), m, E[n])
<1>1. PICK at : ElementsOf(at, read, E[0], vt, n) /\ Elements(read, E[0], vt, n) = at[n]
  BY ElementsLoop
<1>2. at[0] = Skip(E[0], 0)
  BY <1>1 DEF ElementsOf
<1>3. \A i \in 0..(n - 1) :
        at[i + 1] = IF at[i].ok THEN ItemAt(read, at[i].pos, vt) ELSE Err
  <2>1. \A k \in 0..n : at[k] = IF k = 0 THEN Skip(E[0], 0)
                                ELSE IF at[k - 1].ok THEN ItemAt(read, at[k - 1].pos, vt) ELSE Err
    BY <1>1 DEF ElementsOf
  <2>2. ASSUME NEW i \in 0..(n - 1) PROVE i + 1 \in 0..n /\ i + 1 # 0 /\ (i + 1) - 1 = i
    OBVIOUS
  <2>3. QED
    BY <2>1, <2>2
<1>4. \A i \in 0..(n - 1) : E[i] \in Nat /\ E[i + 1] \in Nat /\ E[i] <= E[i + 1]
                            /\ Ends(ItemAt(read, E[i], vt), m, E[i + 1])
  <2>1. ASSUME NEW i \in 0..(n - 1)
        PROVE  i \in 0..n /\ i + 1 \in 0..n /\ i + 1 \in 1..n /\ (i + 1) - 1 = i
    OBVIOUS
  <2>2. QED
    BY <2>1
<1> DEFINE T == {k \in 0..n : Ends(at[k], m, E[k])}
<1>5. 0 \in T
  <2>1. Skip(E[0], 0).ok = TRUE /\ Skip(E[0], 0).pos = E[0] + 0
    BY DEF Skip
  <2>2. E[0] + 0 = E[0] /\ 0 \in 0..n
    OBVIOUS
  <2>3. Ends(at[0], m, E[0])
    BY <1>2, <2>1, <2>2 DEF Ends
  <2>4. QED
    BY <2>2, <2>3
<1>6. ASSUME NEW i \in 0..(n - 1), i \in T PROVE i + 1 \in T
  <2>1. Ends(at[i], m, E[i])
    BY <1>6
  <2> HIDE DEF T
  <2>2. CASE at[i].ok
    <3>1. at[i + 1] = ItemAt(read, E[i], vt)
      BY <1>3, <2>1, <2>2 DEF Ends
    <3>2. QED
      BY <1>4, <3>1 DEF T
  <2>3. CASE ~at[i].ok
    <3>1. at[i + 1] = Err /\ ~Err.ok /\ Err.ok \in BOOLEAN
      BY <1>3, <2>3 DEF Err
    <3>2. ~(E[i] <= m) /\ E[i] <= E[i + 1] /\ E[i] \in Nat /\ E[i + 1] \in Nat
      BY <1>4, <2>1, <2>3 DEF Ends
    <3>3. ~(E[i + 1] <= m)
      BY <3>2
    <3>4. Ends(at[i + 1], m, E[i + 1])
      BY <3>1, <3>3 DEF Ends
    <3>5. i + 1 \in 0..n
      OBVIOUS
    <3>6. QED
      BY <3>4, <3>5 DEF T
  <2>4. QED
    BY <2>2, <2>3
<1>7. n \in T
  <2> HIDE DEF T
  <2>1. \A i \in 0..n : i \in T
    BY <1>5, <1>6, UpTo
  <2>2. n \in 0..n
    OBVIOUS
  <2>3. QED
    BY <2>1, <2>2
<1>8. QED
  BY <1>1, <1>7

\* Flat elements, each read up to its end, are read up to the end of the array.
LEMMA ArrayRead ==
  ASSUME NEW w, NEW m \in Nat, NEW a \in Nat, NEW read, IsValue(w, a, "a"),
         \A p \in Nat : (w[a + 1] = "s" => IsString(w, p)) =>
           Ends(ItemAt(read, p, w[a + 1]), m, ValueEnd(w, p, w[a + 1]))
  PROVE  Ends(Elements(read, a + 2, w[a + 1], w[a + 2]), m, ValueEnd(w, a, "a"))
<1> DEFINE vt == w[a + 1]
           n == w[a + 2]
           E == [j \in 0..n |-> IF vt = "s" THEN a + 2 + 2 * j ELSE a + 2 + j]
<1>1. n \in Nat /\ vt \in {"u", "s"} /\ vt \in Types
  BY DEF IsValue, Types
<1>2. vt = "s" => \A j \in 0..(n - 1) : IsString(w, a + 2 + 2 * j)
  BY DEF IsValue
<1>3. ValueEnd(w, a, "a") = a + 2 + (IF vt = "s" THEN 2 * n ELSE n)
  BY DEF ValueEnd
<1>4. \A p \in Nat : ValueEnd(w, p, vt) = IF vt = "s" THEN p + 2 ELSE p + 1
  BY <1>1 DEF ValueEnd
<1>5. \A p \in Nat : (vt = "s" => IsString(w, p)) =>
        Ends(ItemAt(read, p, vt), m, ValueEnd(w, p, vt))
  OBVIOUS
<1> HIDE DEF vt, n
<1>6. E \in [0..n -> Nat] /\ E[0] = a + 2 /\ E[n] = ValueEnd(w, a, "a")
  BY <1>1, <1>3
<1>7. ASSUME NEW j \in 1..n
      PROVE  E[j - 1] <= E[j] /\ Ends(ItemAt(read, E[j - 1], vt), m, E[j])
  <2>1. j - 1 \in 0..(n - 1) /\ j - 1 \in 0..n /\ j \in 0..n
    BY <1>1
  <2>2. E[j - 1] \in Nat /\ E[j - 1] <= E[j]
    BY <1>1, <2>1
  <2>3. E[j] = ValueEnd(w, E[j - 1], vt)
    BY <1>1, <1>4, <2>1
  <2>4. vt = "s" => IsString(w, E[j - 1])
    BY <1>2, <2>1
  <2> HIDE DEF E
  <2>5. QED
    BY <1>5, <2>2, <2>3, <2>4
<1> HIDE DEF E
<1>8. Ends(Elements(read, E[0], vt, n), m, E[n])
  BY <1>1, <1>6, <1>7, ElementsRead
<1>9. QED
  BY <1>6, <1>8 DEF vt, n

\* Elements of an array that is not kept are skipped as skip_value does.
LEMMA SkippingAt ==
  ASSUME NEW f
  PROVE  \E inner : \A p \in Nat, t \in Types :
           ItemAt(Skipping(f, 1), p, t) = SkipValue(f, inner, p, t)
<1>1. PICK at : SkippingsOf(at, f) /\ Skipping(f, 1) = at[IF 1 > Depth THEN 0 ELSE Depth + 1 - 1]
  BY SkippingsLoop
<1>2. Depth \in 0..(Depth + 1) /\ Depth # 0 /\ ~(1 > Depth) /\ Depth + 1 - 1 = Depth
  BY GgufAssumption
<1>3. Skipping(f, 1) = SkipAround(f, at[Depth - 1])
  BY <1>1, <1>2 DEF SkippingsOf
<1>4. \A p \in Nat, t \in Types :
        ItemAt(SkipAround(f, at[Depth - 1]), p, t) = SkipValue(f, at[Depth - 1], p, t)
  BY DEF SkipAround, ItemAt
<1>5. QED
  BY <1>3, <1>4

\* A value is read as read_value does, and with at least two fields its elements are.
LEMMA ReadingAt ==
  ASSUME NEW f, Len(f) \in Nat, Len(f) > 0
  PROVE  \E inner :
           /\ \A p \in Nat, t \in Types : ItemAt(Reading(f), p, t) = ReadValue(f, inner, p, t, 0)
           /\ Len(f) > 1 => \E deeper : \A p \in Nat, t \in Types :
                ItemAt(inner, p, t) = ReadValue(f, deeper, p, t, 1)
<1>1. PICK at : ReadingsOf(at, f) /\ Reading(f) = at[Len(f)]
  BY ReadingsLoop
<1> DEFINE L == Len(f)
<1>2. \A k \in 0..L : k # 0 => at[k] = ReadAround(f, at[k - 1], L - k)
  BY <1>1 DEF ReadingsOf
<1>3. /\ L \in 0..L /\ L # 0 /\ L - L = 0
      /\ L > 1 => L - 1 \in 0..L /\ L - 1 # 0 /\ L - (L - 1) = 1
  <2>1. L \in Nat /\ L > 0
    OBVIOUS
  <2> HIDE DEF L
  <2>2. QED
    BY <2>1
<1>4. \A r, d : \A p \in Nat, t \in Types :
        ItemAt(ReadAround(f, r, d), p, t) = ReadValue(f, r, p, t, d)
  <2>1. SUFFICES ASSUME NEW r, NEW d, NEW p \in Nat, NEW t \in Types
                 PROVE  ItemAt(ReadAround(f, r, d), p, t) = ReadValue(f, r, p, t, d)
    OBVIOUS
  <2>2. QED
    BY DEF ReadAround, ItemAt
<1> HIDE DEF L
<1>5. \A p \in Nat, t \in Types :
        ItemAt(Reading(f), p, t) = ReadValue(f, at[L - 1], p, t, 0)
  BY <1>1, <1>2, <1>3, <1>4 DEF L
<1>6. L > 1 => \A p \in Nat, t \in Types :
        ItemAt(at[L - 1], p, t) = ReadValue(f, at[(L - 1) - 1], p, t, 1)
  BY <1>2, <1>3, <1>4
<1>7. QED
  BY <1>5, <1>6 DEF L

\* A value is read up to its end, and kept or passed over as it should be.
LEMMA ValueRead ==
  ASSUME NEW f, NEW w, NEW m, Prefix(f, w, m), m > 0, NEW a \in Nat,
         NEW t \in Types, IsValue(w, a, t)
  PROVE  /\ Ends(ItemAt(Reading(f), a, t), m, ValueEnd(w, a, t))
         /\ ItemAt(Reading(f), a, t).ok =>
              /\ ItemAt(Reading(f), a, t).kept = ~Unkept(w, a, t)
              /\ ItemAt(Reading(f), a, t).val = IF Unkept(w, a, t) THEN 0 ELSE Meaning(w, a, t)
<1> DEFINE v == ItemAt(Reading(f), a, t)
<1>1. m \in Nat /\ Len(f) = m
  BY DEF Prefix
<1>2. PICK inner :
        /\ \A p \in Nat, u \in Types : ItemAt(Reading(f), p, u) = ReadValue(f, inner, p, u, 0)
        /\ m > 1 => \E deeper : \A p \in Nat, u \in Types :
             ItemAt(inner, p, u) = ReadValue(f, deeper, p, u, 1)
  BY <1>1, ReadingAt
<1>3. v = ReadValue(f, inner, a, t, 0)
  BY <1>2
<1> HIDE DEF v
<1>4. CASE t = "u" \/ t = "s"
  <2>1. t = "s" => IsString(w, a)
    BY <1>4 DEF IsValue
  <2>2. Reads(v, m, ValueEnd(w, a, t), TRUE, IF t = "u" THEN w[a + 1] ELSE w[a + 2])
    BY <1>3, <1>4, <2>1, ReadElement
  <2>3. ~Unkept(w, a, t) /\ Meaning(w, a, t) = IF t = "u" THEN w[a + 1] ELSE w[a + 2]
    BY <1>4 DEF Unkept, Meaning
  <2>4. QED
    BY <2>2, <2>3 DEF Reads, v
<1>5. CASE t = "a"
  <2> DEFINE evt == Exact(f, a)
             count == Exact(f, evt.pos)
             vt == w[a + 1]
             n == w[a + 2]
             passed == SkipMany(Skipping(f, 1), a + 2, vt, n)
             kept == ReadMany(inner, a + 2, vt, n)
             e == ValueEnd(w, a, "a")
  <2>1. v = IF ~evt.ok \/ ~count.ok THEN Err
            ELSE IF count.val > Materialize
                 THEN SkipMany(Skipping(f, 1), count.pos, evt.val, count.val)
            ELSE ReadMany(inner, count.pos, evt.val, count.val)
    <3>1. 0 + 1 = 1
      OBVIOUS
    <3>2. QED
      BY <1>3, <1>5, <3>1 DEF ReadValue
  <2>2. n \in Nat /\ vt \in {"u", "s"} /\ vt \in Types /\ IsValue(w, a, "a")
    BY <1>5 DEF IsValue, Types
  <2>3. e \in Nat /\ e >= a + 2
    BY <2>2 DEF ValueEnd
  <2>4. Reads(evt, m, a + 1, TRUE, vt) /\ (evt.ok => a + 1 <= m)
    BY ExactReads
  <2>5. evt.ok => Reads(count, m, a + 2, TRUE, n) /\ (count.ok => a + 2 <= m)
    <3>1. ASSUME evt.ok PROVE count = Exact(f, a + 1)
      BY <2>4, <3>1 DEF Reads, Ends
    <3>2. a + 1 \in Nat /\ (a + 1) + 1 = a + 2
      OBVIOUS
    <3>3. /\ Reads(Exact(f, a + 1), m, (a + 1) + 1, TRUE, w[(a + 1) + 1])
          /\ Exact(f, a + 1).ok => (a + 1) + 1 <= m
      BY <3>2, ExactReads
    <3> HIDE DEF evt, count
    <3>4. QED
      BY <3>1, <3>2, <3>3
  <2> HIDE DEF evt, count, vt, n, e
  <2>6. CASE ~evt.ok \/ ~count.ok
    <3>1. v = Err /\ ~Err.ok /\ Err.ok \in BOOLEAN
      BY <2>1, <2>6 DEF Err
    <3>2. ~(a + 2 <= m)
      <4>1. CASE ~evt.ok
        <5>1. ~(a + 1 <= m)
          BY <2>4, <4>1 DEF Reads, Ends
        <5>2. QED
          BY <1>1, <5>1
      <4>2. CASE evt.ok /\ ~count.ok
        BY <2>5, <4>2 DEF Reads, Ends
      <4>3. QED
        BY <2>6, <4>1, <4>2
    <3>3. ~(e <= m)
      BY <1>1, <2>3, <3>2
    <3>4. Ends(v, m, e) /\ ~v.ok
      BY <3>1, <3>3 DEF Ends
    <3>5. QED
      BY <1>5, <3>4 DEF e, v
  <2>7. CASE evt.ok /\ count.ok
    <3>1. /\ evt.val = vt /\ count.val = n /\ count.pos = a + 2 /\ m > 1
          /\ v = IF n > Materialize THEN passed ELSE kept
      <4>1. evt.val = vt /\ count.val = n /\ count.pos = a + 2 /\ a + 2 <= m
        BY <2>4, <2>5, <2>7 DEF Reads, Ends
      <4>2. m > 1
        BY <1>1, <4>1
      <4>3. QED
        BY <2>1, <2>7, <4>1, <4>2
    <3>2. CASE n > Materialize
      <4>1. PICK in : \A p \in Nat, u \in Types :
                        ItemAt(Skipping(f, 1), p, u) = SkipValue(f, in, p, u)
        BY SkippingAt
      <4>2. ASSUME NEW p \in Nat, vt = "s" => IsString(w, p)
            PROVE  Ends(ItemAt(Skipping(f, 1), p, vt), m, ValueEnd(w, p, vt))
        <5>1. Ends(SkipValue(f, in, p, vt), m, ValueEnd(w, p, vt))
          BY <2>2, <4>2, SkipElement
        <5>2. QED
          BY <2>2, <4>1, <5>1
      <4>3. Ends(Elements(Skipping(f, 1), a + 2, vt, n), m, e)
        BY <1>1, <2>2, <4>2, ArrayRead DEF vt, n, e
      <4> DEFINE last == Elements(Skipping(f, 1), a + 2, vt, n)
      <4>4. v = IF last.ok THEN Skip(last.pos, 0) ELSE Err
        BY <3>1, <3>2 DEF SkipMany
      <4> HIDE DEF last
      <4>5. Ends(v, m, e) /\ (v.ok => v.kept = FALSE /\ v.val = 0)
        <5>1. CASE last.ok
          <6>1. last.pos = e /\ e + 0 = e
            BY <2>3, <4>3, <5>1 DEF Ends, last
          <6>2. v = Skip(e, 0) /\ Skip(e, 0).ok = TRUE /\ Skip(e, 0).pos = e + 0
                /\ Skip(e, 0).kept = FALSE /\ Skip(e, 0).val = 0
            BY <4>4, <5>1, <6>1 DEF Skip
          <6>3. QED
            BY <6>1, <6>2 DEF Ends
        <5>2. CASE ~last.ok
          <6>1. v = Err /\ Err.ok = FALSE
            BY <4>4, <5>2 DEF Err
          <6>2. QED
            BY <4>3, <5>2, <6>1 DEF Ends, last
        <5>3. QED
          BY <5>1, <5>2
      <4>6. Unkept(w, a, t)
        BY <1>5, <3>2 DEF Unkept, n
      <4>7. QED
        BY <1>5, <4>5, <4>6 DEF e, v
    <3>3. CASE ~(n > Materialize)
      <4>1. PICK deeper : \A p \in Nat, u \in Types :
                        ItemAt(inner, p, u) = ReadValue(f, deeper, p, u, 1)
        BY <1>2, <3>1
      <4>2. ASSUME NEW p \in Nat, vt = "s" => IsString(w, p)
            PROVE  Ends(ItemAt(inner, p, vt), m, ValueEnd(w, p, vt))
        <5>1. Ends(ReadValue(f, deeper, p, vt, 1), m, ValueEnd(w, p, vt))
          BY <2>2, <4>2, ReadElement DEF Reads
        <5>2. QED
          BY <2>2, <4>1, <5>1
      <4>3. Ends(Elements(inner, a + 2, vt, n), m, e)
        BY <1>1, <2>2, <4>2, ArrayRead DEF vt, n, e
      <4> DEFINE last == Elements(inner, a + 2, vt, n)
      <4>4. v = IF last.ok THEN Kept(last.pos, "joined") ELSE Err
        BY <3>1, <3>3 DEF ReadMany
      <4> HIDE DEF last
      <4>5. Ends(v, m, e) /\ (v.ok => v.kept = TRUE /\ v.val = "joined")
        <5>1. CASE last.ok
          <6>1. last.pos = e
            BY <4>3, <5>1 DEF Ends, last
          <6>2. QED
            BY <4>4, <5>1, <6>1 DEF Ends, Kept
        <5>2. CASE ~last.ok
          <6>1. v = Err /\ Err.ok = FALSE
            BY <4>4, <5>2 DEF Err
          <6>2. QED
            BY <4>3, <5>2, <6>1 DEF Ends, last
        <5>3. QED
          BY <5>1, <5>2
      <4>6. ~Unkept(w, a, t) /\ Meaning(w, a, t) = "joined"
        BY <1>5, <3>3 DEF Unkept, Meaning, n
      <4>7. QED
        BY <1>5, <4>5, <4>6 DEF e, v
    <3>4. QED
      BY <3>2, <3>3
  <2>8. QED
    BY <2>6, <2>7
<1>6. QED
  BY <1>4, <1>5 DEF Types

-----------------------------------------------------------------------------
(* Pairs. *)

\* A pair takes at least four fields.
LEMMA PairTakes ==
  ASSUME NEW w, NEW a \in Nat, IsPair(w, a)
  PROVE  /\ PairEnd(w, a) \in Nat /\ PairEnd(w, a) >= a + 4
         /\ IsString(w, a) /\ w[a + 3] \in Types /\ IsValue(w, a + 3, w[a + 3])
         /\ PairEnd(w, a) = ValueEnd(w, a + 3, w[a + 3])
<1> DEFINE t == w[a + 3]
<1>1. IsString(w, a) /\ IsValue(w, a + 3, t)
  BY DEF IsPair
<1>2. PairEnd(w, a) = ValueEnd(w, a + 3, t)
  BY DEF PairEnd
<1> HIDE DEF t
<1>3. t \in Types
  BY <1>1 DEF IsValue, Types
<1>4. t = "a" => w[(a + 3) + 2] \in Nat
  BY <1>1 DEF IsValue
<1>5. ValueEnd(w, a + 3, t) \in Nat /\ ValueEnd(w, a + 3, t) >= a + 4
  BY <1>3, <1>4 DEF ValueEnd, Types
<1>6. QED
  BY <1>1, <1>2, <1>3, <1>5 DEF t

\* What a reader that has gone through the pairs up to one does with it.
LEMMA PairRead ==
  ASSUME NEW f, NEW w, NEW m, Prefix(f, w, m), NEW r, r.pos \in Nat, IsPair(w, r.pos)
  PROVE  /\ Ends(ReadPair(f, r), m, PairEnd(w, r.pos))
         /\ ReadPair(f, r).ok => \E v :
              /\ ReadPair(f, r).kv = AddPair(r.kv, Key(w, r.pos), v)
              /\ v.kept = ~PassedOver(w, r.pos) /\ v.val = Says(w, r.pos)
<1> DEFINE a == r.pos
           key == ReadString(f, r.pos)
           vt == Exact(f, key.pos)
           v == IF vt.val \in Types THEN ItemAt(Reading(f), vt.pos, vt.val) ELSE Err
           q == ReadPair(f, r)
           t == w[a + 3]
           e == PairEnd(w, a)
<1>1. q = IF ~key.ok \/ ~vt.ok THEN NoPairs ELSE IF ~v.ok THEN NoPairs
          ELSE [ok |-> TRUE, pos |-> v.pos, kv |-> AddPair(r.kv, key.val, v)]
  <2> DEFINE there == ItemAt(Reading(f), vt.pos, vt.val)
  <2>1. q = IF ~key.ok THEN NoPairs ELSE IF ~(vt.ok /\ vt.val \in Types) THEN NoPairs
            ELSE IF ~there.ok THEN NoPairs
            ELSE [ok |-> TRUE, pos |-> there.pos, kv |-> AddPair(r.kv, key.val, there)]
    BY DEF ReadPair, ItemAt
  <2>2. v = (IF vt.val \in Types THEN there ELSE Err) /\ ~Err.ok
    BY DEF Err
  <2> HIDE DEF q, key, vt, v, there
  <2>3. QED
    BY <2>1, <2>2
<1>2. /\ a \in Nat /\ e \in Nat /\ e >= a + 4 /\ IsString(w, a) /\ t \in Types
      /\ IsValue(w, a + 3, t) /\ e = ValueEnd(w, a + 3, t) /\ m \in Nat
  BY PairTakes DEF Prefix
<1>3. Reads(key, m, a + 2, TRUE, Key(w, a)) /\ (key.ok => a + 2 <= m)
  BY <1>2, StringReads DEF Key
<1>4. key.ok => Reads(vt, m, a + 3, TRUE, t) /\ (vt.ok => a + 3 <= m)
  <2>1. ASSUME key.ok PROVE vt = Exact(f, a + 2)
    BY <1>3, <2>1 DEF Reads, Ends
  <2>2. a + 2 \in Nat /\ (a + 2) + 1 = a + 3
    BY <1>2
  <2>3. /\ Reads(Exact(f, a + 2), m, (a + 2) + 1, TRUE, w[(a + 2) + 1])
        /\ Exact(f, a + 2).ok => (a + 2) + 1 <= m
    BY <2>2, ExactReads
  <2> HIDE DEF key, vt
  <2>4. QED
    BY <2>1, <2>2, <2>3
<1> HIDE DEF a, key, vt, q, t, e
<1>5. CASE key.ok /\ vt.ok
  <2>1. vt.val = t /\ vt.pos = a + 3 /\ key.val = Key(w, a) /\ a + 3 <= m
    BY <1>3, <1>4, <1>5 DEF Reads, Ends
  <2>2. v = ItemAt(Reading(f), a + 3, t)
    BY <1>2, <2>1
  <2>3. a + 3 \in Nat /\ m > 0
    BY <1>2, <2>1
  <2>4. /\ Ends(v, m, e)
        /\ v.ok => /\ v.kept = ~Unkept(w, a + 3, t)
                   /\ v.val = IF Unkept(w, a + 3, t) THEN 0 ELSE Meaning(w, a + 3, t)
    BY <1>2, <2>2, <2>3, ValueRead
  <2> HIDE DEF v
  <2>5. CASE v.ok
    <3>1. q = [ok |-> TRUE, pos |-> v.pos, kv |-> AddPair(r.kv, Key(w, a), v)]
      BY <1>1, <1>5, <2>1, <2>5
    <3>2. Ends(q, m, e) /\ q.kv = AddPair(r.kv, Key(w, a), v)
      BY <2>4, <2>5, <3>1 DEF Ends
    <3>3. v.kept = ~PassedOver(w, a) /\ v.val = Says(w, a)
      BY <2>4, <2>5 DEF PassedOver, Says, t
    <3>4. QED
      BY <3>2, <3>3 DEF q, a, e
  <2>6. CASE ~v.ok
    <3>1. q = NoPairs /\ NoPairs.ok = FALSE
      BY <1>1, <1>5, <2>6 DEF NoPairs
    <3>2. Ends(q, m, e) /\ ~q.ok
      BY <2>4, <2>6, <3>1 DEF Ends
    <3>3. QED
      BY <3>2 DEF q, a, e
  <2>7. QED
    BY <2>5, <2>6
<1>6. CASE ~key.ok \/ ~vt.ok
  <2>1. q = NoPairs /\ NoPairs.ok = FALSE
    BY <1>1, <1>6 DEF NoPairs
  <2>2. ~(a + 3 <= m)
    <3>1. CASE ~key.ok
      <4>1. ~(a + 2 <= m)
        BY <1>3, <3>1 DEF Reads, Ends
      <4>2. QED
        BY <1>2, <4>1
    <3>2. CASE key.ok /\ ~vt.ok
      BY <1>4, <3>2 DEF Reads, Ends
    <3>3. QED
      BY <1>6, <3>1, <3>2
  <2>3. ~(e <= m)
    BY <1>2, <2>2
  <2>4. Ends(q, m, e) /\ ~q.ok
    BY <2>1, <2>3 DEF Ends
  <2>5. QED
    BY <2>4 DEF q, a, e
<1>7. QED
  BY <1>5, <1>6

\* One pair more.
LEMMA OneMore ==
  ASSUME NEW w, NEW b, NEW n \in Nat, NEW v,
         v.kept = ~PassedOver(w, b[n]), v.val = Says(w, b[n])
  PROVE  Metadata(w, b, n + 1) = AddPair(Metadata(w, b, n), Key(w, b[n]), v)
<1> DEFINE key == Key(w, b[n])
           over == PassedOver(w, b[n])
           old == Metadata(w, b, n)
           KeyAt(i) == Key(w, b[i - 1])
           OverAt(i) == PassedOver(w, b[i - 1])
           SaysAt(i) == Says(w, b[i - 1])
           Keeps(j, k) == KeptPairs(w, b, j, k)
<1>1. (n + 1) - 1 = n
  OBVIOUS
<1>2. KeyAt(n + 1) = key /\ OverAt(n + 1) = over /\ SaysAt(n + 1) = v.val
  BY <1>1
<1>3. \A j, k : Keeps(j, k) = {i \in 1..j : KeyAt(i) = k /\ ~OverAt(i)}
  BY DEF KeptPairs
<1>4. \A j : /\ KeysOf(w, b, j) = {KeyAt(i) : i \in 1..j}
             /\ Metadata(w, b, j)
                = [k \in KeysOf(w, b, j) |-> IF Keeps(j, k) = {} THEN 0 ELSE SaysAt(LastOf(Keeps(j, k)))]
  BY DEF KeysOf, Metadata
<1>5. v.kept = ~over
  OBVIOUS
<1> HIDE DEF key, over, old, KeyAt, OverAt, SaysAt, Keeps
<1>6. 1..(n + 1) = 1..n \cup {n + 1} /\ n + 1 \notin 1..n
  OBVIOUS
<1>7. KeysOf(w, b, n + 1) = KeysOf(w, b, n) \cup {key}
  BY <1>2, <1>4, <1>6
<1>8. DOMAIN old = KeysOf(w, b, n)
  BY <1>4 DEF old
<1>9. \A k : k # key \/ over => Keeps(n + 1, k) = Keeps(n, k)
  BY <1>2, <1>3, <1>6
<1>10. ~over => LastOf(Keeps(n + 1, key)) = n + 1 /\ n + 1 \in Keeps(n + 1, key)
  <2>1. SUFFICES ASSUME ~over
                 PROVE  LastOf(Keeps(n + 1, key)) = n + 1 /\ n + 1 \in Keeps(n + 1, key)
    OBVIOUS
  <2>2. n + 1 \in Keeps(n + 1, key)
    BY <1>2, <1>3, <1>6, <2>1
  <2>3. \A j \in Keeps(n + 1, key) : j \in Nat /\ j <= n + 1
    BY <1>3
  <2>4. \A i \in Keeps(n + 1, key) : (\A j \in Keeps(n + 1, key) : j <= i) => i = n + 1
    BY <2>2, <2>3
  <2>5. QED
    BY <2>2, <2>3, <2>4 DEF LastOf
<1>11. \A k \in KeysOf(w, b, n) \cup {key} :
         (IF Keeps(n + 1, k) = {} THEN 0 ELSE SaysAt(LastOf(Keeps(n + 1, k))))
         = (IF k = key /\ (v.kept \/ key \notin DOMAIN old) THEN v.val ELSE old[k])
  <2>1. SUFFICES ASSUME NEW k \in KeysOf(w, b, n) \cup {key}
                 PROVE  (IF Keeps(n + 1, k) = {} THEN 0 ELSE SaysAt(LastOf(Keeps(n + 1, k))))
                        = (IF k = key /\ (v.kept \/ key \notin DOMAIN old) THEN v.val ELSE old[k])
    OBVIOUS
  <2>2. k \in DOMAIN old =>
          old[k] = IF Keeps(n, k) = {} THEN 0 ELSE SaysAt(LastOf(Keeps(n, k)))
    BY <1>4, <1>8 DEF old
  <2>3. CASE k # key
    BY <1>8, <1>9, <2>2, <2>3
  <2>4. CASE k = key /\ ~over
    BY <1>2, <1>5, <1>10, <2>4
  <2>5. CASE k = key /\ over
    <3>1. CASE k \in DOMAIN old
      BY <1>5, <1>9, <2>2, <2>5, <3>1
    <3>2. CASE k \notin DOMAIN old
      <4>1. \A i \in 1..n : KeyAt(i) # k
        BY <1>4, <1>8, <3>2
      <4>2. Keeps(n + 1, k) = {}
        BY <1>3, <1>9, <2>5, <4>1
      <4>3. v.val = 0
        BY <2>5 DEF Says, over
      <4>4. QED
        BY <2>5, <3>2, <4>2, <4>3
    <3>3. QED
      BY <3>1, <3>2
  <2>6. QED
    BY <2>3, <2>4, <2>5
<1>12. Metadata(w, b, n + 1)
       = [k \in KeysOf(w, b, n) \cup {key} |->
            IF k = key /\ (v.kept \/ key \notin DOMAIN old) THEN v.val ELSE old[k]]
  BY <1>4, <1>7, <1>11
<1>13. QED
  BY <1>8, <1>12 DEF AddPair, old, key

\* Pairs that end at b are read up to the last end, and say what they say.
LEMMA KvsRead ==
  ASSUME NEW f, NEW w, NEW m, Prefix(f, w, m), NEW n \in Nat, NEW b, b[0] = 4,
         \A i \in 1..n : IsPair(w, b[i - 1]) /\ b[i] = PairEnd(w, b[i - 1])
  PROVE  /\ b[n] \in Nat /\ b[n] >= 4
         /\ Ends(ReadKvs(f, 4, n), m, b[n])
         /\ ReadKvs(f, 4, n).ok => ReadKvs(f, 4, n).kv = Metadata(w, b, n)
<1>1. PICK at : PairsOf(at, f, 4, n) /\ ReadKvs(f, 4, n) = at[n]
  BY PairsLoop
<1>2. at[0] = [ok |-> TRUE, pos |-> 4, kv |-> <<>>]
  BY <1>1 DEF PairsOf
<1>3. \A i \in 0..(n - 1) : at[i + 1] = IF at[i].ok THEN ReadPair(f, at[i]) ELSE NoPairs
  <2>1. \A k \in 0..n : at[k] = IF k = 0 THEN [ok |-> TRUE, pos |-> 4, kv |-> <<>>]
                                ELSE IF at[k - 1].ok THEN ReadPair(f, at[k - 1]) ELSE NoPairs
    BY <1>1 DEF PairsOf
  <2>2. ASSUME NEW i \in 0..(n - 1) PROVE i + 1 \in 0..n /\ i + 1 # 0 /\ (i + 1) - 1 = i
    OBVIOUS
  <2>3. QED
    BY <2>1, <2>2
<1>4. \A i \in 0..(n - 1) : IsPair(w, b[i]) /\ b[i + 1] = PairEnd(w, b[i])
  <2>1. ASSUME NEW i \in 0..(n - 1) PROVE i + 1 \in 1..n /\ (i + 1) - 1 = i
    OBVIOUS
  <2>2. QED
    BY <2>1
<1> DEFINE Good(k) == /\ b[k] \in Nat /\ b[k] >= 4 /\ Ends(at[k], m, b[k])
                      /\ at[k].ok => at[k].kv = Metadata(w, b, k)
           T == {k \in 0..n : Good(k)}
<1>5. 0 \in T
  <2>1. Ends(at[0], m, 4)
    BY <1>2 DEF Ends
  <2>2. at[0].kv = Metadata(w, b, 0)
    <3>1. KeysOf(w, b, 0) = {}
      BY DEF KeysOf
    <3>2. Metadata(w, b, 0) = <<>>
      BY <3>1 DEF Metadata
    <3>3. QED
      BY <1>2, <3>2
  <2>3. Good(0)
    BY <2>1, <2>2
  <2> HIDE DEF Good
  <2>4. QED
    BY <2>3
<1>6. ASSUME NEW i \in 0..(n - 1), i \in T PROVE i + 1 \in T
  <2>1. Good(i)
    BY <1>6
  <2>2. b[i] \in Nat /\ b[i] >= 4 /\ Ends(at[i], m, b[i])
        /\ (at[i].ok => at[i].kv = Metadata(w, b, i))
    BY <2>1
  <2> HIDE DEF T, Good
  <2>3. b[i + 1] \in Nat /\ b[i + 1] >= b[i] + 4 /\ b[i + 1] = PairEnd(w, b[i])
    BY <1>4, <2>2, PairTakes
  <2>4. i + 1 \in 0..n /\ i \in Nat /\ b[i + 1] >= 4 /\ m \in Nat
    BY <2>2, <2>3 DEF Prefix
  <2>5. Ends(at[i + 1], m, b[i + 1]) /\ (at[i + 1].ok => at[i + 1].kv = Metadata(w, b, i + 1))
    <3>1. CASE at[i].ok
      <4>1. at[i].pos = b[i] /\ at[i].kv = Metadata(w, b, i) /\ at[i + 1] = ReadPair(f, at[i])
        BY <1>3, <2>2, <3>1 DEF Ends
      <4>2. at[i].pos \in Nat /\ IsPair(w, at[i].pos)
        BY <1>4, <2>2, <4>1
      <4>3. /\ Ends(ReadPair(f, at[i]), m, PairEnd(w, at[i].pos))
            /\ ReadPair(f, at[i]).ok => \E v :
                 /\ ReadPair(f, at[i]).kv = AddPair(at[i].kv, Key(w, at[i].pos), v)
                 /\ v.kept = ~PassedOver(w, at[i].pos) /\ v.val = Says(w, at[i].pos)
        BY <4>2, PairRead
      <4>4. Ends(at[i + 1], m, b[i + 1])
        BY <2>3, <4>1, <4>3
      <4>5. ASSUME at[i + 1].ok PROVE at[i + 1].kv = Metadata(w, b, i + 1)
        <5>1. PICK v : /\ at[i + 1].kv = AddPair(Metadata(w, b, i), Key(w, b[i]), v)
                       /\ v.kept = ~PassedOver(w, b[i]) /\ v.val = Says(w, b[i])
          BY <4>1, <4>3, <4>5
        <5>2. QED
          BY <2>4, <5>1, OneMore
      <4>6. QED
        BY <4>4, <4>5
    <3>2. CASE ~at[i].ok
      <4>1. at[i + 1] = NoPairs /\ NoPairs.ok = FALSE
        BY <1>3, <3>2 DEF NoPairs
      <4>2. ~(b[i] <= m)
        BY <2>2, <3>2 DEF Ends
      <4>3. ~(b[i + 1] <= m)
        BY <2>2, <2>3, <2>4, <4>2
      <4>4. QED
        BY <4>1, <4>3 DEF Ends
    <3>3. QED
      BY <3>1, <3>2
  <2>6. Good(i + 1)
    BY <2>3, <2>4, <2>5 DEF Good
  <2>7. QED
    BY <2>4, <2>6 DEF T
<1>7. Good(n)
  <2> HIDE DEF T, Good
  <2>1. \A i \in 0..n : i \in T
    BY <1>5, <1>6, UpTo
  <2>2. n \in 0..n
    OBVIOUS
  <2>3. QED
    BY <2>1, <2>2 DEF T
<1>8. QED
  BY <1>1, <1>7

-----------------------------------------------------------------------------
(* Tensors. *)

\* Dimensions are numbers, one field each.
LEMMA DimsRead ==
  ASSUME NEW f, NEW w, NEW m, Prefix(f, w, m), NEW a \in Nat, NEW n \in Nat,
         \A j \in 1..n : w[a + j] \in Nat
  PROVE  /\ Ends(ReadDims(f, a, n), m, a + n)
         /\ ReadDims(f, a, n).ok => ReadDims(f, a, n).val \in Nat
<1>1. PICK at : DimsOf(at, f, a, n) /\ ReadDims(f, a, n) = at[n]
  BY DimsLoop
<1> DEFINE D(p) == Exact(f, p)
<1>2. at[0] = Kept(a, 1)
  BY <1>1 DEF DimsOf
<1>3. \A i \in 0..(n - 1) :
        at[i + 1] = IF at[i].ok /\ D(at[i].pos).ok
                    THEN Kept(D(at[i].pos).pos, at[i].val * D(at[i].pos).val) ELSE Err
  <2>1. \A k \in 0..n : at[k] = IF k = 0 THEN Kept(a, 1)
                                ELSE IF at[k - 1].ok /\ D(at[k - 1].pos).ok
                    THEN Kept(D(at[k - 1].pos).pos, at[k - 1].val * D(at[k - 1].pos).val) ELSE Err
    BY <1>1 DEF DimsOf
  <2>2. ASSUME NEW i \in 0..(n - 1) PROVE i + 1 \in 0..n /\ i + 1 # 0 /\ (i + 1) - 1 = i
    OBVIOUS
  <2> HIDE DEF D
  <2>3. QED
    BY <2>1, <2>2
<1> DEFINE Good(k) == Ends(at[k], m, a + k) /\ (at[k].ok => at[k].val \in Nat)
           T == {k \in 0..n : Good(k)}
<1>5. 0 \in T
  <2>1. a + 0 = a /\ 1 \in Nat /\ 0 \in 0..n
    OBVIOUS
  <2>2. at[0].ok = TRUE /\ at[0].pos = a /\ at[0].val = 1
    BY <1>2 DEF Kept
  <2>3. Good(0)
    BY <2>1, <2>2 DEF Ends
  <2> HIDE DEF Good
  <2>4. QED
    BY <2>1, <2>3
<1>6. ASSUME NEW i \in 0..(n - 1), i \in T PROVE i + 1 \in T
  <2>1. Good(i)
    BY <1>6
  <2>2. Ends(at[i], m, a + i) /\ (at[i].ok => at[i].val \in Nat)
    BY <2>1
  <2> HIDE DEF T, Good
  <2>3. /\ a + i \in Nat /\ a + (i + 1) = (a + i) + 1 /\ i + 1 \in 1..n /\ i + 1 \in 0..n
        /\ m \in Nat
    BY DEF Prefix
  <2>4. Reads(Exact(f, a + i), m, a + (i + 1), TRUE, w[a + (i + 1)])
        /\ w[a + (i + 1)] \in Nat
    <3>1. Reads(Exact(f, a + i), m, (a + i) + 1, TRUE, w[(a + i) + 1])
      BY <2>3, ExactReads
    <3>2. w[a + (i + 1)] \in Nat
      BY <2>3
    <3>3. QED
      BY <2>3, <3>1, <3>2
  <2>5. CASE at[i].ok
    <3>1. at[i].pos = a + i /\ at[i].val \in Nat
      BY <2>2, <2>5 DEF Ends
    <3> DEFINE d == Exact(f, a + i)
    <3>2. at[i + 1] = IF d.ok THEN Kept(d.pos, at[i].val * d.val) ELSE Err
      BY <1>3, <2>5, <3>1
    <3> HIDE DEF d
    <3>3. CASE d.ok
      <4>1. d.pos = a + (i + 1) /\ d.val \in Nat
        BY <2>4, <3>3 DEF Reads, Ends, d
      <4>2. at[i].val * d.val \in Nat
        BY <3>1, <4>1
      <4> DEFINE x == at[i].val * d.val
      <4>3. at[i + 1] = Kept(a + (i + 1), x) /\ x \in Nat
        BY <3>2, <3>3, <4>1, <4>2
      <4> HIDE DEF x
      <4>4. Good(i + 1)
        BY <4>3 DEF Kept, Good, Ends
      <4>5. QED
        BY <2>3, <4>4 DEF T
    <3>4. CASE ~d.ok
      <4>1. at[i + 1] = Err /\ Err.ok = FALSE
        BY <3>2, <3>4 DEF Err
      <4>2. Good(i + 1)
        BY <2>4, <3>4, <4>1 DEF Reads, Ends, d, Good
      <4>3. QED
        BY <2>3, <4>2 DEF T
    <3>5. QED
      BY <3>3, <3>4
  <2>6. CASE ~at[i].ok
    <3>1. at[i + 1] = Err /\ Err.ok = FALSE
      BY <1>3, <2>6 DEF Err
    <3>2. ~(a + i <= m)
      BY <2>2, <2>6 DEF Ends
    <3>3. ~(a + (i + 1) <= m)
      BY <2>3, <3>2
    <3>4. Good(i + 1)
      BY <3>1, <3>3 DEF Ends, Good
    <3>5. QED
      BY <2>3, <3>4 DEF T
  <2>7. QED
    BY <2>5, <2>6
<1>7. Good(n)
  <2> HIDE DEF T, Good
  <2>1. \A i \in 0..n : i \in T
    BY <1>5, <1>6, UpTo
  <2>2. n \in 0..n
    OBVIOUS
  <2>3. QED
    BY <2>1, <2>2 DEF T
<1>8. QED
  BY <1>1, <1>7

\* A tensor's record is read up to its end.
LEMMA TensorRead ==
  ASSUME NEW f, NEW w, NEW m, Prefix(f, w, m), NEW r, r.pos \in Nat, IsTensor(w, r.pos)
  PROVE  /\ TensorEnd(w, r.pos) \in Nat /\ TensorEnd(w, r.pos) >= r.pos + 5
         /\ Ends(ReadTensor(f, r), m, TensorEnd(w, r.pos))
         /\ ReadTensor(f, r).ok => TensorEnd(w, r.pos) <= m
<1> DEFINE a == r.pos
           nd == w[a + 3]
           e == TensorEnd(w, a)
           called == ReadString(f, r.pos)
           ndims == Exact(f, called.pos)
           dims == ReadDims(f, ndims.pos, ndims.val)
           dtype == Exact(f, dims.pos)
           offset == Exact(f, dtype.pos)
           end == offset.val + (IF dims.val = 0 THEN 1 ELSE dims.val)
           need == IF end > r.need THEN end ELSE r.need
           q == ReadTensor(f, r)
<1>1. q = IF ~called.ok \/ ~ndims.ok THEN NoTensors ELSE IF ndims.val > 4 THEN NoTensors
          ELSE IF ~dims.ok \/ ~dtype.ok \/ ~offset.ok THEN NoTensors
          ELSE [ok |-> TRUE, pos |-> offset.pos, need |-> need]
  BY DEF ReadTensor
<1>2. a \in Nat /\ IsString(w, a) /\ nd \in 0..4 /\ m \in Nat
  BY DEF IsTensor, Prefix
<1>3. \A j \in 1..nd : w[(a + 3) + j] \in Nat
  BY DEF IsTensor
<1>4. e = a + 5 + nd
  BY DEF TensorEnd
<1> HIDE DEF need
<1>5. Reads(called, m, a + 2, TRUE, w[a + 2])
  BY <1>2, StringReads
<1> HIDE DEF a, called
<1>6. called.ok => Reads(ndims, m, a + 3, TRUE, nd)
  <2>1. ASSUME called.ok PROVE ndims = Exact(f, a + 2)
    BY <1>5, <2>1 DEF Reads, Ends
  <2>2. a + 2 \in Nat /\ (a + 2) + 1 = a + 3
    BY <1>2
  <2>3. Reads(Exact(f, a + 2), m, (a + 2) + 1, TRUE, w[(a + 2) + 1])
    BY <2>2, ExactReads
  <2> HIDE DEF ndims
  <2>4. QED
    BY <2>1, <2>2, <2>3
<1> HIDE DEF ndims
<1>7. called.ok /\ ndims.ok => Ends(dims, m, a + 3 + nd)
  <2>1. ASSUME called.ok, ndims.ok PROVE dims = ReadDims(f, a + 3, nd)
    BY <1>6, <2>1 DEF Reads, Ends
  <2>2. a + 3 \in Nat /\ nd \in Nat
    BY <1>2
  <2> HIDE DEF nd
  <2>3. Ends(ReadDims(f, a + 3, nd), m, (a + 3) + nd)
    BY <1>3, <2>2, DimsRead
  <2> HIDE DEF dims
  <2>4. QED
    BY <2>1, <2>3
<1> HIDE DEF dims, nd
<1>8. called.ok /\ ndims.ok /\ dims.ok => Ends(dtype, m, a + 4 + nd)
  <2>1. ASSUME called.ok, ndims.ok, dims.ok PROVE dtype = Exact(f, a + 3 + nd)
    BY <1>7, <2>1 DEF Ends
  <2>2. a + 3 + nd \in Nat /\ (a + 3 + nd) + 1 = a + 4 + nd
    BY <1>2
  <2>3. Ends(Exact(f, a + 3 + nd), m, (a + 3 + nd) + 1)
    BY <2>2, ExactReads DEF Reads
  <2> HIDE DEF dtype
  <2>4. QED
    BY <2>1, <2>2, <2>3
<1> HIDE DEF dtype
<1>9. called.ok /\ ndims.ok /\ dims.ok /\ dtype.ok => Ends(offset, m, e) /\ (offset.ok => e <= m)
  <2>1. ASSUME called.ok, ndims.ok, dims.ok, dtype.ok PROVE offset = Exact(f, a + 4 + nd)
    BY <1>8, <2>1 DEF Ends
  <2>2. a + 4 + nd \in Nat /\ (a + 4 + nd) + 1 = e
    BY <1>2, <1>4
  <2>3. /\ Ends(Exact(f, a + 4 + nd), m, (a + 4 + nd) + 1)
        /\ Exact(f, a + 4 + nd).ok => (a + 4 + nd) + 1 <= m
    BY <2>2, ExactReads DEF Reads
  <2> HIDE DEF offset, e
  <2>4. QED
    BY <2>1, <2>2, <2>3
<1> HIDE DEF offset, e, q
<1>10. e \in Nat /\ e >= a + 5
  BY <1>2, <1>4
<1>11. CASE called.ok /\ ndims.ok /\ dims.ok /\ dtype.ok /\ offset.ok
  <2>1. ~(ndims.val > 4)
    BY <1>2, <1>6, <1>11 DEF Reads
  <2>2. q = [ok |-> TRUE, pos |-> offset.pos, need |-> need]
    BY <1>1, <1>11, <2>1
  <2>3. Ends(q, m, e) /\ e <= m
    BY <1>9, <1>11, <2>2 DEF Ends
  <2>4. QED
    BY <1>10, <2>3 DEF q, a, e
<1>12. CASE ~(called.ok /\ ndims.ok /\ dims.ok /\ dtype.ok /\ offset.ok)
  <2>1. q = NoTensors /\ NoTensors.ok = FALSE
    BY <1>1, <1>12 DEF NoTensors
  <2>2. ~(e <= m)
    <3>1. called.ok \/ ~(a + 2 <= m)
      BY <1>5 DEF Reads, Ends
    <3>2. called.ok => ndims.ok \/ ~(a + 3 <= m)
      BY <1>6 DEF Reads, Ends
    <3>3. called.ok /\ ndims.ok => dims.ok \/ ~(a + 3 + nd <= m)
      BY <1>7 DEF Ends
    <3>4. called.ok /\ ndims.ok /\ dims.ok => dtype.ok \/ ~(a + 4 + nd <= m)
      BY <1>8 DEF Ends
    <3>5. called.ok /\ ndims.ok /\ dims.ok /\ dtype.ok => offset.ok \/ ~(e <= m)
      BY <1>9 DEF Ends
    <3>6. e <= m => a + 2 <= m /\ a + 3 <= m /\ a + 3 + nd <= m /\ a + 4 + nd <= m
      BY <1>2, <1>4
    <3>7. QED
      BY <1>12, <3>1, <3>2, <3>3, <3>4, <3>5, <3>6
  <2>3. Ends(q, m, e) /\ ~q.ok
    BY <2>1, <2>2 DEF Ends
  <2>4. QED
    BY <1>10, <2>3 DEF q, a, e
<1>13. QED
  BY <1>11, <1>12

\* Tensors that end at c are read up to the last end.
LEMMA TensorsRead ==
  ASSUME NEW f, NEW w, NEW m, Prefix(f, w, m), NEW n \in Nat, NEW c, c[0] \in Nat,
         \A i \in 1..n : IsTensor(w, c[i - 1]) /\ c[i] = TensorEnd(w, c[i - 1])
  PROVE  /\ c[n] \in Nat /\ c[n] >= c[0]
         /\ Ends(ReadTensors(f, c[0], n), m, c[n])
         /\ n > 0 /\ ReadTensors(f, c[0], n).ok => c[n] <= m
<1>1. PICK at : TensorsOf(at, f, c[0], n) /\ ReadTensors(f, c[0], n) = at[n]
  BY TensorsLoop
<1>2. at[0] = [ok |-> TRUE, pos |-> c[0], need |-> 0]
  BY <1>1 DEF TensorsOf
<1>3. \A i \in 0..(n - 1) : at[i + 1] = IF at[i].ok THEN ReadTensor(f, at[i]) ELSE NoTensors
  <2>1. \A k \in 0..n : at[k] = IF k = 0 THEN [ok |-> TRUE, pos |-> c[0], need |-> 0]
                                ELSE IF at[k - 1].ok THEN ReadTensor(f, at[k - 1]) ELSE NoTensors
    BY <1>1 DEF TensorsOf
  <2>2. ASSUME NEW i \in 0..(n - 1) PROVE i + 1 \in 0..n /\ i + 1 # 0 /\ (i + 1) - 1 = i
    OBVIOUS
  <2>3. QED
    BY <2>1, <2>2
<1>4. \A i \in 0..(n - 1) : IsTensor(w, c[i]) /\ c[i + 1] = TensorEnd(w, c[i])
  <2>1. ASSUME NEW i \in 0..(n - 1) PROVE i + 1 \in 1..n /\ (i + 1) - 1 = i
    OBVIOUS
  <2>2. QED
    BY <2>1
<1> DEFINE Good(k) == /\ c[k] \in Nat /\ c[k] >= c[0] /\ Ends(at[k], m, c[k])
                      /\ k > 0 /\ at[k].ok => c[k] <= m
           T == {k \in 0..n : Good(k)}
<1>5. 0 \in T
  <2>1. Ends(at[0], m, c[0]) /\ c[0] >= c[0] /\ 0 \in 0..n /\ ~(0 > 0)
    BY <1>2 DEF Ends
  <2>2. Good(0)
    BY <2>1
  <2> HIDE DEF Good
  <2>3. QED
    BY <2>1, <2>2
<1>6. ASSUME NEW i \in 0..(n - 1), i \in T PROVE i + 1 \in T
  <2>1. Good(i)
    BY <1>6
  <2>2. c[i] \in Nat /\ c[i] >= c[0] /\ Ends(at[i], m, c[i])
    BY <2>1
  <2> HIDE DEF T, Good
  <2>3. i + 1 \in 0..n /\ m \in Nat
    BY DEF Prefix
  <2> DEFINE r == IF at[i].ok THEN at[i] ELSE [pos |-> c[i]]
  <2>4. r.pos = c[i] /\ (at[i].ok => r = at[i])
    BY <2>2 DEF Ends
  <2> HIDE DEF r
  <2>5. /\ c[i + 1] \in Nat /\ c[i + 1] >= c[i] + 5 /\ c[i + 1] = TensorEnd(w, c[i])
        /\ Ends(ReadTensor(f, r), m, c[i + 1]) /\ (ReadTensor(f, r).ok => c[i + 1] <= m)
    <3>1. r.pos \in Nat /\ IsTensor(w, r.pos)
      BY <1>4, <2>2, <2>4
    <3>2. /\ TensorEnd(w, r.pos) \in Nat /\ TensorEnd(w, r.pos) >= r.pos + 5
          /\ Ends(ReadTensor(f, r), m, TensorEnd(w, r.pos))
          /\ ReadTensor(f, r).ok => TensorEnd(w, r.pos) <= m
      BY <3>1, TensorRead
    <3>3. QED
      BY <1>4, <2>4, <3>2
  <2>6. Ends(at[i + 1], m, c[i + 1]) /\ (at[i + 1].ok => c[i + 1] <= m)
    <3>1. CASE at[i].ok
      BY <1>3, <2>4, <2>5, <3>1
    <3>2. CASE ~at[i].ok
      <4>1. at[i + 1] = NoTensors /\ NoTensors.ok = FALSE
        BY <1>3, <3>2 DEF NoTensors
      <4>2. ~(c[i] <= m)
        BY <2>2, <3>2 DEF Ends
      <4>3. ~(c[i + 1] <= m)
        BY <2>2, <2>3, <2>5, <4>2
      <4>4. QED
        BY <4>1, <4>3 DEF Ends
    <3>3. QED
      BY <3>1, <3>2
  <2>7. c[i + 1] >= c[0]
    BY <2>2, <2>5
  <2>8. Good(i + 1)
    BY <2>5, <2>6, <2>7 DEF Good
  <2>9. QED
    BY <2>3, <2>8 DEF T
<1>7. Good(n)
  <2> HIDE DEF T, Good
  <2>1. \A i \in 0..n : i \in T
    BY <1>5, <1>6, UpTo
  <2>2. n \in 0..n
    OBVIOUS
  <2>3. QED
    BY <2>1, <2>2 DEF T
<1>8. QED
  BY <1>1, <1>7

-----------------------------------------------------------------------------
(* Whole headers. *)

\* The part of a file that has arrived is a prefix of it.
LEMMA PartIsPrefix ==
  ASSUME NEW w, w = [i \in 1..Len(w) |-> w[i]], Len(w) \in Nat, NEW m \in 0..Len(w)
  PROVE  Prefix(SubSeq(w, 1, m), w, m)
<1> DEFINE S == {w[i] : i \in 1..Len(w)}
           L == Len(w)
<1>1. w \in Seq(S)
  <2>1. L \in Nat /\ w = [i \in 1..L |-> w[i]]
    OBVIOUS
  <2>2. \A i \in 1..L : w[i] \in S
    OBVIOUS
  <2> HIDE DEF S, L
  <2>3. [i \in 1..L |-> w[i]] \in Seq(S)
    BY <2>1, <2>2
  <2>4. QED
    BY <2>1, <2>3
<1> HIDE DEF S
<1>2. Len(SubSeq(w, 1, m)) = m /\ \A i \in 1..m : SubSeq(w, 1, m)[i] = w[i]
  BY <1>1
<1>3. QED
  BY <1>2 DEF Prefix

\* from_file accepts what has arrived of a file when the header is in it, and reports what
\* the header says.
LEMMA FileDecides ==
  ASSUME NEW f, NEW w, NEW m, Prefix(f, w, m), NEW len, NEW kv, IsHeader(w, len, kv)
  PROVE  /\ len \in Nat /\ len > 4
         /\ FromFile(f).ok \in BOOLEAN /\ (FromFile(f).ok <=> len <= m)
         /\ FromFile(f).ok => FromFile(f).kv = kv
<1> DEFINE b == PairEnds(w)
           c == TensorEnds(w)
           head == [i \in 1..4 |-> Exact(f, i - 1)]
           kvs == ReadKvs(f, 4, head[4].val)
           ts == ReadTensors(f, kvs.pos, head[3].val)
           nk == w[4]
           nt == w[3]
           q == FromFile(f)
<1>1. /\ w = [i \in 1..Len(w) |-> w[i]] /\ Len(w) \in Nat
      /\ w[1] = Magic /\ w[2] \in {2, 3} /\ nt \in 1..CountCap /\ nk \in 0..CountCap
      /\ \A i \in 1..nk : IsPair(w, b[i - 1])
      /\ \A i \in 1..nt : IsTensor(w, c[i - 1])
      /\ len = c[nt] /\ kv = Metadata(w, b, nk)
  BY DEF IsHeader
<1>2. Prefix(f, w, m) /\ m \in Nat
  BY DEF Prefix
<1>3. nt \in Nat /\ nt > 0 /\ nk \in Nat /\ ~(nt > CountCap) /\ ~(nk > CountCap)
  <2> HIDE DEF nt, nk
  <2>1. QED
    BY <1>1, GgufAssumption
<1>4. b[0] = 4 /\ \A i \in 1..nk : b[i] = PairEnd(w, b[i - 1])
  <2>1. PICK at : PairEndsOf(at, w) /\ b = at
    BY <1>3, PairEndsLoop
  <2>2. \A i \in 0..nk : at[i] = IF i = 0 THEN 4 ELSE PairEnd(w, at[i - 1])
    BY <2>1 DEF PairEndsOf
  <2> HIDE DEF b, nk
  <2>3. 0 \in 0..nk /\ \A i \in 1..nk : i \in 0..nk /\ i # 0
    BY <1>3
  <2>4. QED
    BY <2>1, <2>2, <2>3
<1>5. c[0] = b[nk] /\ \A i \in 1..nt : c[i] = TensorEnd(w, c[i - 1])
  <2>1. PICK at : TensorEndsOf(at, w) /\ c = at
    BY <1>3, TensorEndsLoop
  <2>2. \A i \in 0..nt : at[i] = IF i = 0 THEN b[nk] ELSE TensorEnd(w, at[i - 1])
    BY <2>1 DEF TensorEndsOf
  <2> HIDE DEF b, c, nt, nk
  <2>3. 0 \in 0..nt /\ \A i \in 1..nt : i \in 0..nt /\ i # 0
    BY <1>3
  <2>4. QED
    BY <2>1, <2>2, <2>3
<1>6. q = IF \E i \in 1..4 : ~head[i].ok THEN Err
          ELSE IF head[1].val # Magic \/ head[2].val \notin {2, 3} THEN Err
          ELSE IF \E i \in 3..4 : head[i].val > CountCap THEN Err
          ELSE IF ~kvs.ok THEN Err ELSE IF ~ts.ok THEN Err
          ELSE [ok |-> TRUE, kv |-> kvs.kv, end |-> ts.pos, need |-> ts.need]
  <2>1. ~(0 > 0)
    OBVIOUS
  <2>2. q = IF \E i \in 1..4 : ~head[i].ok THEN Err
          ELSE IF head[1].val # Magic \/ head[2].val \notin {2, 3} THEN Err
          ELSE IF \E i \in 3..4 : head[i].val > CountCap THEN Err
          ELSE IF ~kvs.ok THEN Err
          ELSE IF ~ts.ok \/ (ts.pos + ts.need > 0 /\ 0 > 0) THEN Err
          ELSE [ok |-> TRUE, kv |-> kvs.kv, end |-> ts.pos, need |-> ts.need]
    BY DEF FromFile, FromReader
  <2> HIDE DEF q, head, kvs, ts
  <2>3. QED
    BY <2>1, <2>2
<1>7. \A i \in 1..4 : Reads(head[i], m, i, TRUE, w[i])
  <2>1. SUFFICES ASSUME NEW i \in 1..4 PROVE Reads(head[i], m, i, TRUE, w[i])
    OBVIOUS
  <2>2. head[i] = Exact(f, i - 1) /\ i - 1 \in Nat /\ (i - 1) + 1 = i
    OBVIOUS
  <2> HIDE DEF head
  <2>3. Reads(Exact(f, i - 1), m, (i - 1) + 1, TRUE, w[(i - 1) + 1])
    BY <1>2, <2>2, ExactReads
  <2>4. QED
    BY <2>2, <2>3
<1> HIDE DEF b, c, head, kvs, ts, nt, nk, q
<1>8. /\ b[nk] \in Nat /\ b[nk] >= 4 /\ Ends(ReadKvs(f, 4, nk), m, b[nk])
      /\ ReadKvs(f, 4, nk).ok => ReadKvs(f, 4, nk).kv = kv
  BY <1>1, <1>2, <1>3, <1>4, KvsRead
<1>9. /\ c[nt] \in Nat /\ c[nt] >= b[nk] /\ Ends(ReadTensors(f, b[nk], nt), m, c[nt])
      /\ ReadTensors(f, b[nk], nt).ok => c[nt] <= m
  BY <1>1, <1>2, <1>3, <1>5, <1>8, TensorsRead
<1>10. len \in Nat /\ len > 4 /\ len >= b[nk]
  <2>1. len \in Nat /\ len >= b[nk]
    BY <1>1, <1>9
  <2>2. c[nt] > 4
    <3>1. nt \in 1..nt /\ IsTensor(w, c[nt - 1]) /\ c[nt] = TensorEnd(w, c[nt - 1])
      BY <1>1, <1>3, <1>5
    <3>2. nt - 1 \in Nat /\ \A i \in 1..(nt - 1) : i \in 1..nt
      BY <1>3
    <3>3. c[nt - 1] \in Nat /\ c[nt - 1] >= b[nk]
      BY <1>1, <1>2, <1>5, <1>8, <3>2, TensorsRead
    <3> DEFINE r == [pos |-> c[nt - 1]]
    <3>4. r.pos \in Nat /\ IsTensor(w, r.pos) /\ r.pos = c[nt - 1]
      BY <3>1, <3>3
    <3> HIDE DEF r
    <3>5. c[nt] >= c[nt - 1] + 5
      BY <1>2, <3>1, <3>4, TensorRead
    <3>6. QED
      BY <1>8, <1>9, <3>3, <3>5
  <2>3. QED
    BY <1>1, <2>1, <2>2
<1>11. CASE \A i \in 1..4 : head[i].ok
  <2>1. head[1].val = Magic /\ head[2].val \in {2, 3} /\ head[3].val = nt /\ head[4].val = nk
    BY <1>1, <1>7, <1>11 DEF Reads, nt, nk
  <2>2. ~\E i \in 3..4 : head[i].val > CountCap
    <3>1. \A i \in 3..4 : i = 3 \/ i = 4
      OBVIOUS
    <3>2. QED
      BY <1>3, <2>1, <3>1
  <2>3. kvs = ReadKvs(f, 4, nk)
    BY <2>1 DEF kvs
  <2>4. kvs.ok => ts = ReadTensors(f, b[nk], nt)
    BY <1>8, <2>1, <2>3 DEF Ends, ts
  <2>5. q = IF ~kvs.ok THEN Err ELSE IF ~ts.ok THEN Err
            ELSE [ok |-> TRUE, kv |-> kvs.kv, end |-> ts.pos, need |-> ts.need]
    BY <1>6, <1>11, <2>1, <2>2
  <2>6. CASE kvs.ok /\ ts.ok
    <3>1. q.ok = TRUE /\ q.kv = kvs.kv
      BY <2>5, <2>6
    <3>2. len <= m /\ kvs.kv = kv
      BY <1>1, <1>8, <1>9, <2>3, <2>4, <2>6
    <3>3. QED
      BY <1>10, <3>1, <3>2 DEF q
  <2>7. CASE ~(kvs.ok /\ ts.ok)
    <3>1. q.ok = FALSE
      BY <2>5, <2>7 DEF Err
    <3>2. ~(b[nk] <= m) \/ ~(c[nt] <= m)
      BY <1>8, <1>9, <2>3, <2>4, <2>7 DEF Ends
    <3>3. ~(len <= m)
      BY <1>1, <1>2, <1>8, <1>10, <3>2
    <3>4. QED
      BY <1>10, <3>1, <3>3 DEF q
  <2>8. QED
    BY <2>6, <2>7
<1>12. CASE ~\A i \in 1..4 : head[i].ok
  <2>1. q.ok = FALSE
    BY <1>6, <1>12 DEF Err
  <2>2. PICK i \in 1..4 : ~(i <= m)
    BY <1>7, <1>12 DEF Reads, Ends
  <2>3. ~(len <= m)
    BY <1>2, <1>10, <2>2
  <2>4. QED
    BY <1>10, <2>1, <2>3 DEF q
<1>13. QED
  BY <1>11, <1>12

\* A reader finds the part of a server's file that has arrived, or nothing.
LEMMA FieldsArePart ==
  ASSUME NEW d \in [Pieces -> PieceValues]
  PROVE  \/ FieldsOf(d) = <<>>
         \/ d[1] \in Files /\ \E m \in 0..Len(Image[d[1]]) :
              FieldsOf(d) = SubSeq(Image[d[1]], 1, m)
<1> DEFINE whole == {k \in Pieces : \A j \in 1..k : d[j] = d[1] /\ d[j] # NoPiece}
           f == d[1]
           n == Cardinality(whole)
<1>1. FieldsOf(d) = IF whole = {} THEN <<>> ELSE SubSeq(Image[f], 1, Cuts[f][n])
  BY DEF FieldsOf
<1>2. SUFFICES ASSUME whole # {}
               PROVE  f \in Files /\ Cuts[f][n] \in 0..Len(Image[f])
  <2> HIDE DEF whole, f, n
  <2>1. QED
    BY <1>1 DEF f
<1>3. f \in Files
  <2>1. PICK k \in Pieces : \A j \in 1..k : d[j] = d[1] /\ d[j] # NoPiece
    BY <1>2
  <2>2. 1 \in 1..k /\ 1 \in Pieces
    BY <2>1, Constants
  <2>3. d[1] # NoPiece /\ d[1] \in PieceValues
    BY <2>1, <2>2
  <2>4. QED
    BY <2>3 DEF PieceValues
<1> DEFINE L == Len(Cuts[FileOf[Preseed]])
<1>4. L \in Nat /\ Pieces = 1..L /\ DOMAIN Cuts[f] = 1..L
  <2>1. FileOf[Preseed] \in Files
    BY Constants
  <2>2. \A g \in Files : Cuts[g] \in Seq(Nat) /\ Len(Cuts[g]) = L
    BY RegistryAssumption
  <2>3. \A g \in Files : DOMAIN Cuts[g] = 1..L /\ L \in Nat
    <3>1. SUFFICES ASSUME NEW g \in Files PROVE DOMAIN Cuts[g] = 1..L /\ L \in Nat
      OBVIOUS
    <3> DEFINE s == Cuts[g]
    <3>2. s \in Seq(Nat) /\ Len(s) = L
      BY <2>2
    <3> HIDE DEF s, L
    <3>3. DOMAIN s = 1..L /\ L \in Nat
      BY <3>2
    <3>4. QED
      BY <3>3 DEF s
  <2> HIDE DEF L
  <2>4. QED
    BY <1>3, <2>1, <2>3 DEF Pieces
<1>5. n \in 1..L
  <2> HIDE DEF L
  <2>1. whole \subseteq 1..L
    BY <1>4
  <2>2. IsFiniteSet(1..L) /\ Cardinality(1..L) = L
    BY <1>4, FS_Interval
  <2>3. IsFiniteSet(whole) /\ Cardinality(whole) <= L
    BY <2>1, <2>2, FS_Subset
  <2> HIDE DEF whole
  <2>4. Cardinality(whole) \in Nat /\ Cardinality(whole) # 0
    BY <1>2, <2>3, FS_CardinalityType, FS_EmptySet
  <2>5. QED
    BY <1>4, <2>3, <2>4
<1> HIDE DEF whole, f, n, L
<1>6. QED
  BY <1>3, <1>4, <1>5, HeaderAssumption

-----------------------------------------------------------------------------

\* from_file (gguf.rs) accepts exactly the files whose whole header has arrived,
\* wherever they are cut, and reports the metadata that header holds: for every
\* set of files that are well-formed models.
THEOREM ReaderDecides == Spec => []HeaderDecides
<1>1. ASSUME Typed PROVE HeaderDecides
  <2>1. SUFFICES ASSUME NEW i \in 1..Inodes
                 PROVE  LET fields == FieldsOf(data[i])
                            f == data[i][1]
                            m == ReadHeader(fields)
                        IN IF fields = <<>> THEN ~m.ok
                           ELSE /\ m.ok = (Len(fields) >= HeaderLen[f])
                                /\ m.ok => m.kv = HeaderKv[f]
    BY DEF HeaderDecides
  <2> DEFINE fields == FieldsOf(data[i])
             f == data[i][1]
             h == ReadHeader(fields)
  <2>2. data[i] \in [Pieces -> PieceValues]
    BY <1>1 DEF Typed
  <2>3. ASSUME NEW g \in Files, NEW k \in 0..Len(Image[g])
        PROVE  /\ HeaderLen[g] \in Nat /\ HeaderLen[g] > 4
               /\ ReadHeader(SubSeq(Image[g], 1, k)).ok \in BOOLEAN
               /\ ReadHeader(SubSeq(Image[g], 1, k)).ok <=> HeaderLen[g] <= k
               /\ ReadHeader(SubSeq(Image[g], 1, k)).ok
                    => ReadHeader(SubSeq(Image[g], 1, k)).kv = HeaderKv[g]
               /\ Len(SubSeq(Image[g], 1, k)) = k
    <3> DEFINE p == SubSeq(Image[g], 1, k)
    <3>1. IsHeader(Image[g], HeaderLen[g], HeaderKv[g]) /\ ReadHeader(p) = FromFile(p)
      BY HeaderAssumption
    <3>2. Prefix(p, Image[g], k)
      BY <3>1, PartIsPrefix DEF IsHeader
    <3> HIDE DEF p
    <3>3. /\ HeaderLen[g] \in Nat /\ HeaderLen[g] > 4
          /\ FromFile(p).ok \in BOOLEAN /\ (FromFile(p).ok <=> HeaderLen[g] <= k)
          /\ FromFile(p).ok => FromFile(p).kv = HeaderKv[g]
      BY <3>1, <3>2, FileDecides
    <3>4. Len(p) = k
      BY <3>2 DEF Prefix
    <3>5. QED
      BY <3>1, <3>3, <3>4 DEF p
  <2>4. CASE fields = <<>>
    <3>1. PICK g \in Files : IsHeader(Image[g], HeaderLen[g], HeaderKv[g])
      BY Constants, HeaderAssumption
    <3>2. 0 \in 0..Len(Image[g])
      BY <3>1 DEF IsHeader
    <3> DEFINE p == SubSeq(Image[g], 1, 0)
    <3>3. p = <<>>
      OBVIOUS
    <3>4. ~ReadHeader(p).ok
      <4>1. HeaderLen[g] \in Nat /\ HeaderLen[g] > 4 /\ (ReadHeader(p).ok <=> HeaderLen[g] <= 0)
        BY <2>3, <3>2
      <4> HIDE DEF p
      <4>2. QED
        BY <4>1
    <3>5. QED
      BY <2>4, <3>3, <3>4
  <2>5. CASE fields # <<>>
    <3>1. f \in Files /\ \E k \in 0..Len(Image[f]) : fields = SubSeq(Image[f], 1, k)
      BY <2>2, <2>5, FieldsArePart
    <3> HIDE DEF fields, f
    <3>2. PICK k \in 0..Len(Image[f]) : fields = SubSeq(Image[f], 1, k)
      BY <3>1
    <3>3. Len(Image[f]) \in Nat
      BY <3>1, HeaderAssumption DEF IsHeader
    <3>4. /\ HeaderLen[f] \in Nat /\ h.ok \in BOOLEAN /\ (h.ok <=> HeaderLen[f] <= k)
          /\ h.ok => h.kv = HeaderKv[f]
          /\ Len(fields) = k /\ k \in Nat
      BY <2>3, <3>1, <3>2, <3>3
    <3>5. h.ok <=> Len(fields) >= HeaderLen[f]
      BY <3>4
    <3>6. QED
      BY <2>5, <3>4, <3>5 DEF fields, f
  <2>6. QED
    BY <2>4, <2>5
<1>2. RInv => Typed
  BY DEF RInv
<1>3. QED
  BY <1>1, <1>2, RInvInductive, PTL
=============================================================================
