---------------------------- MODULE StorePersist ----------------------------
(***************************************************************************)
(* The persisted document of the engine: Store::save and Store::load in    *)
(* engine/src/config.rs, EngineCtx::open and ::persist in                  *)
(* engine/src/state.rs, and the handlers of engine/src/admin.rs and        *)
(* engine/src/provision.rs that change the store and persist it.           *)
(*                                                                         *)
(* A handler changes the store under the write lock, lets go of it, and    *)
(* then saves under a read lock: several handlers save at the same time,   *)
(* all through the same markos.json.tmp.  Files are inodes, because a      *)
(* saver goes on writing to the file it opened after another saver renamed *)
(* it.  The document is written in Chunks writes (BufWriter).  Versions    *)
(* stand for the contents of the store.  What survives is what the kernel  *)
(* was told: the engine process can end between any two steps, the disk    *)
(* itself does not lose writes.                                            *)
(***************************************************************************)
EXTENDS Naturals

CONSTANTS
  Handlers,    \* the threads that run admin handlers and provisioning
  Inodes,      \* enough files for json, tmp and every open descriptor
  NoFile,
  Chunks,      \* writes per document
  MaxVersion   \* bounds the number of changes

ASSUME StoreAssumption ==
  /\ NoFile \notin Inodes
  /\ Chunks \in Nat \ {0}
  /\ MaxVersion \in Nat

VARIABLES
  up,       \* the engine process runs
  store,    \* ctx.store, as a version
  content,  \* per inode: the version it holds and the chunks of it
  json,     \* the inode of markos.json
  tmp,      \* the inode of markos.json.tmp
  pc,       \* where each handler stands
  fd,       \* the inode it writes to
  pos,      \* the chunks it has written
  acked,    \* the newest version some client was told is saved
  spoiled   \* of json and tmp: given up by a saver, not begun anew since (history)

files == <<content, json, tmp>>
storeVars == <<up, store, files, pc, fd, pos, acked, spoiled>>

Document == [version : 0..MaxVersion, chunks : SUBSET (1..Chunks)]

Whole(i) == content[i].chunks = 1..Chunks

\* After the first start, which wrote the defaults.
StoreInit ==
  /\ up = TRUE
  /\ store = 0
  /\ json \in Inodes
  /\ content = [i \in Inodes |->
       [version |-> 0, chunks |-> IF i = json THEN 1..Chunks ELSE {}]]
  /\ tmp = NoFile
  /\ pc = [h \in Handlers |-> "idle"]
  /\ fd = [h \in Handlers |-> NoFile]
  /\ pos = [h \in Handlers |-> 0]
  /\ acked = 0
  /\ spoiled = {}

Saving == {h \in Handlers : pc[h] \in {"locked", "writing"}}

\* Fault: a change does not wait for the saves that are under way.
LockIsFree == TRUE

\* The write lock: no save is under way.
Writable == Saving = {}

\* A handler that changes the store; the write guard is dropped.
Change(h) ==
  /\ up
  /\ pc[h] = "idle"
  /\ Writable
  /\ store < MaxVersion
  /\ store' = store + 1
  /\ pc' = [pc EXCEPT ![h] = "changed"]
  /\ UNCHANGED <<up, files, fd, pos, acked, spoiled>>

\* update_server_config answers 400 after it has set the fields before the
\* bad one: the store is changed and nothing is saved.
ChangeRefused(h) ==
  /\ up
  /\ pc[h] = "idle"
  /\ Writable
  /\ store < MaxVersion
  /\ store' = store + 1
  /\ UNCHANGED <<up, files, pc, fd, pos, acked, spoiled>>

\* persist() has the read lock.
Persist(h) ==
  /\ pc[h] = "changed"
  /\ pc' = [pc EXCEPT ![h] = "locked"]
  /\ UNCHANGED <<up, store, files, fd, pos, acked, spoiled>>

\* File::create: a new file, or the one that is there, truncated.
CreateTmp(h) ==
  /\ pc[h] = "locked"
  /\ \E i \in Inodes :
       /\ IF tmp = NoFile THEN i # json /\ \A g \in Handlers : fd[g] # i
                          ELSE i = tmp
       /\ content' = [content EXCEPT ![i] = [version |-> store, chunks |-> {}]]
       /\ tmp' = i
       /\ fd' = [fd EXCEPT ![h] = i]
       /\ spoiled' = spoiled \ {i}
  /\ pos' = [pos EXCEPT ![h] = 0]
  /\ pc' = [pc EXCEPT ![h] = "writing"]
  /\ UNCHANGED <<up, store, json, acked>>

\* One write(2) of the BufWriter, at the handler's own offset.
WriteChunk(h) ==
  /\ pc[h] = "writing"
  /\ pos[h] < Chunks
  /\ content' = [content EXCEPT ![fd[h]] =
       [version |-> store, chunks |-> @.chunks \cup {pos[h] + 1}]]
  /\ pos' = [pos EXCEPT ![h] = @ + 1]
  /\ UNCHANGED <<up, store, json, tmp, pc, fd, acked, spoiled>>

\* The descriptor is closed, the read guard dropped, the answer sent.
Answer(h) ==
  /\ pc' = [pc EXCEPT ![h] = "idle"]
  /\ fd' = [fd EXCEPT ![h] = NoFile]
  /\ pos' = [pos EXCEPT ![h] = 0]

\* The disk is full: 500.
WriteFails(h) ==
  /\ pc[h] = "writing"
  /\ pos[h] < Chunks
  /\ spoiled' = spoiled \cup ({fd[h]} \cap {json, tmp})
  /\ Answer(h)
  /\ UNCHANGED <<up, store, files, acked>>

\* Fault: the temporary file is copied, and stays.
RenameCopies(h) ==
  /\ pc[h] = "writing"
  /\ pos[h] = Chunks
  /\ tmp # NoFile
  /\ json' = tmp
  /\ acked' = store
  /\ Answer(h)
  /\ UNCHANGED <<up, store, content, tmp, spoiled>>

\* Fault: before the BufWriter is flushed.
RenameEarly(h) ==
  /\ pc[h] = "writing"
  /\ pos[h] + 1 >= Chunks
  /\ tmp # NoFile
  /\ json' = tmp
  /\ tmp' = NoFile
  /\ acked' = store
  /\ spoiled' = spoiled \ {json}
  /\ Answer(h)
  /\ UNCHANGED <<up, store, content>>

Rename(h) ==
  /\ pc[h] = "writing"
  /\ pos[h] = Chunks
  /\ tmp # NoFile
  /\ json' = tmp
  /\ tmp' = NoFile
  /\ acked' = store
  /\ spoiled' = spoiled \ {json}
  /\ Answer(h)
  /\ UNCHANGED <<up, store, content>>

\* Somebody else has renamed the file: 500.
RenameFails(h) ==
  /\ pc[h] = "writing"
  /\ pos[h] = Chunks
  /\ tmp = NoFile
  /\ Answer(h)
  /\ UNCHANGED <<up, store, files, acked, spoiled>>

\* system_restart (process::exit), SIGTERM, a crash.
Exit ==
  /\ up
  /\ up' = FALSE
  /\ store' = 0
  /\ pc' = [h \in Handlers |-> "idle"]
  /\ fd' = [h \in Handlers |-> NoFile]
  /\ pos' = [h \in Handlers |-> 0]
  /\ spoiled' = {}
  /\ UNCHANGED <<files, acked>>

\* runsv starts the engine again.  Store::load must parse the file, or open
\* fails and the engine ends.  open then saves what it has read, before any
\* other thread exists.
Open ==
  /\ ~up
  /\ Whole(json)
  /\ up' = TRUE
  /\ store' = content[json].version
  /\ tmp' = NoFile
  /\ UNCHANGED <<content, json, pc, fd, pos, acked, spoiled>>

Handler(h) ==
  \/ Change(h) \/ ChangeRefused(h) \/ Persist(h) \/ CreateTmp(h)
  \/ WriteChunk(h) \/ WriteFails(h) \/ Rename(h) \/ RenameFails(h)

StoreNext == (\E h \in Handlers : Handler(h)) \/ Exit \/ Open

StoreSpec == StoreInit /\ [][StoreNext]_storeVars

-----------------------------------------------------------------------------

\* Every variable holds a value of its kind.
StoreTypeOK ==
  /\ up \in BOOLEAN
  /\ store \in 0..MaxVersion
  /\ content \in [Inodes -> Document]
  /\ json \in Inodes
  /\ tmp \in (Inodes \ {json}) \cup {NoFile}
  /\ pc \in [Handlers -> {"idle", "changed", "locked", "writing"}]
  /\ fd \in [Handlers -> Inodes \cup {NoFile}]
  /\ pos \in [Handlers -> 0..Chunks]
  /\ acked \in 0..MaxVersion
  /\ spoiled \subseteq Inodes

\* Whenever markos.json can be read, everything a client was told is saved
\* is in it: savers that overlap, fail or die never put an older document
\* over a newer one.
AcknowledgedIsSaved == Whole(json) => content[json].version >= acked

\* The whole document of this version is in markos.json, or a saver is still
\* writing it there, or a saver that had begun to was told that the disk is full.
OnItsWay(h) ==
  /\ content[json].version = store
  /\ \/ Whole(json)
     \/ \E g \in Handlers \ {h} : pc[g] = "writing" /\ fd[g] = json
     \/ json \in spoiled

\* A handler that is told its rename failed, because another saver took the
\* shared markos.json.tmp, need not save again: its change is in markos.json,
\* or it is the business of another saver, which will complete the file or is
\* the one that must report the failure.
FailedRenameIsHarmless ==
  [][\A h \in Handlers :
       pc[h] = "writing" /\ pos[h] = Chunks /\ tmp = NoFile /\ pc'[h] = "idle" /\ up'
         => OnItsWay(h)]_storeVars

\* "single file, atomic replace" (config.rs:268): markos.json is at any time
\* a whole document.
AtomicReplace == Whole(json)
=============================================================================
