------------------------------ MODULE Registry ------------------------------
(***************************************************************************)
(* The model registry: registration, downloads in the background, the      *)
(* pre-seed of the first boot, deletion, loading and the header cache      *)
(* (admin.rs, provision.rs, state.rs, gguf.rs), with the process killed    *)
(* and started again at any step.  A file name leads to an inode: a        *)
(* download keeps writing to the inode it opened whatever becomes of the   *)
(* name.                                                                   *)
(***************************************************************************)
EXTENDS Integers, Sequences, FiniteSets

CONSTANTS
  Ids,        \* model ids
  Preseed,    \* the id provision.env asks for
  Files,      \* final file names in models_dir
  FileOf,     \* FileOf[id]: the file of a model
  PartOf,     \* PartOf[f]: f.with_extension("part")
  Image,      \* Image[f]: the fields of the file the server has for f,
  HeaderLen,  \* how many of them are its header, and
  HeaderKv,   \* the metadata that header holds
  ReadHeader(_),    \* what GgufMeta::from_file makes of a file's fields: [ok, kv]
  LoadFits(_, _),   \* whether the guardrail lets metadata and a file size pass
  Cuts,       \* Cuts[f]: f arrives in pieces that end after these fields
  Threads,    \* download threads
  Inodes,     \* bound: files created in a behaviour
  Opens,      \* bound: downloads started in a behaviour
  Restarts,   \* bound: restarts
  InFlight,   \* bound: add_model and delete_model handlers at a time
  Asked,      \* bound: the models requests are for
  Probed      \* bound: the files whose header is looked up through the cache

ASSUME RegistryAssumption ==
  /\ Preseed \in Ids /\ Asked \subseteq Ids /\ Probed \subseteq Files
  /\ \A id \in Ids : FileOf[id] \in Files
  /\ \A f \in Files : PartOf[f] \notin Files
  /\ Inodes \in Nat /\ Opens \in Nat /\ {Restarts, InFlight} \subseteq Nat
  /\ \A f \in Files : /\ Cuts[f] \in Seq(Nat)
                       /\ Len(Cuts[f]) = Len(Cuts[FileOf[Preseed]])

Pieces == DOMAIN Cuts[FileOf[Preseed]]
Names == Files \cup {PartOf[f] : f \in Files}
NoPiece == "-"
Empty == [k \in Pieces |-> NoPiece]
WholeOf(f) == [k \in Pieces |-> f]
Idle == [pc |-> "idle", id |-> Preseed, direct |-> FALSE, ino |-> 0, at |-> 1]

VARIABLES
  models,     \* Store.models in memory
  saved,      \* and in markos.json
  users,      \* whether there is an account, in markos.json
  env,        \* provision.env is still there under that name
  boot,       \* how far run_provisioning has come
  adding,     \* add_model handlers after the push, by id
  deleting,   \* delete_model handlers after the unload, by id
  name,       \* directory: file name -> inode, 0 when absent
  data,       \* inode -> which server file each piece came from
  mtime,      \* inode -> how often it was written
  tags,       \* inode -> how it was downloaded (history): "shared", "direct"
  opens,      \* downloads and
  restarts,   \* restarts so far
  dl,         \* download threads and the curl each waits for
  asked,      \* requests that hold a clone of the entry, by id
  resident,   \* the models loaded
  raced,      \* ids asked for while they were deleted (history)
  cache,      \* GgufMeta::cached: file -> the stat and the content parsed
  probe       \* a cached() call in progress

registry == <<models, saved, users, env, boot, adding, deleting>>
disk == <<name, data, mtime, tags, restarts>>
jobs == <<dl, opens>>
serving == <<asked, resident, raced>>
vars == <<registry, disk, jobs, serving, cache, probe>>

Content(f) == data[name[f]]
\* stat: (mtime, size); no two writes give a file the same.
Stat(f) == <<name[f], mtime[name[f]]>>
NoProbe == [pc |-> "idle", file |-> "none", key |-> <<0, 0>>, meta |-> Empty]

\* The fields a reader finds: the pieces up to the first that is missing or
\* comes from another file than the piece before it.
FieldsOf(c) ==
  LET whole == {k \in Pieces : \A j \in 1..k : c[j] = c[1] /\ c[j] # NoPiece}
  IN IF whole = {} THEN <<>>
     ELSE SubSeq(Image[c[1]], 1, Cuts[c[1]][Cardinality(whole)])

Init ==
  /\ models = {} /\ saved = {} /\ users = FALSE
  /\ env = TRUE /\ name = [n \in Names |-> 0]
  /\ data = [i \in 1..Inodes |-> Empty] /\ mtime = [i \in 1..Inodes |-> 0]
  /\ tags = [i \in 1..Inodes |-> {}] /\ opens = 0 /\ restarts = 0
  /\ dl = [t \in Threads |-> Idle]
  /\ boot = "start" /\ adding = [i \in Ids |-> "none"]
  /\ deleting = [i \in Ids |-> "none"]
  /\ asked = {} /\ resident = {} /\ raced = {}
  /\ cache = [f \in Probed |-> NoProbe] /\ probe = NoProbe

\* What is not on disk is gone; without a power cut (the web UI restarts the
\* process) the curl processes live on, and nobody waits for them.
Restart ==
  /\ restarts < Restarts /\ restarts' = restarts + 1
  /\ models' = saved
  /\ \E power \in BOOLEAN :
       dl' = [t \in Threads |-> IF ~power /\ dl[t].pc \in {"curl", "orphan"}
                                THEN [dl[t] EXCEPT !.pc = "orphan"] ELSE Idle]
  /\ boot' = "start" /\ adding' = [i \in Ids |-> "none"]
  /\ deleting' = [i \in Ids |-> "none"]
  /\ asked' = {} /\ resident' = {} /\ raced' = {}
  /\ cache' = [f \in Probed |-> NoProbe] /\ probe' = NoProbe
  /\ UNCHANGED <<saved, users, env, name, data, mtime, tags, opens>>

-----------------------------------------------------------------------------
\* run_provisioning, before anything is served.

FreeThread == CHOOSE t \in Threads : dl[t].pc = "idle"
Spawn(id, direct) ==
  /\ \E t \in Threads : dl[t].pc = "idle"
  /\ opens < Opens /\ opens' = opens + 1
  /\ dl' = [dl EXCEPT ![FreeThread] =
                        [Idle EXCEPT !.pc = "spawned", !.id = id, !.direct = direct]]

BootAccount ==
  /\ boot = "start"
  /\ IF ~env \/ users THEN boot' = "done" /\ UNCHANGED users
     ELSE /\ boot' = "preseed"
          /\ users' \in {users, TRUE}   \* or refused
  /\ UNCHANGED <<models, saved, env, adding, deleting, disk, jobs, serving,
                 cache, probe>>

BootPreseed ==
  /\ boot = "preseed" /\ boot' = "mark"
  /\ models' = models \cup {Preseed} /\ saved' = models'
  /\ Spawn(Preseed, TRUE)
  /\ UNCHANGED <<users, env, adding, deleting, disk, serving, cache, probe>>

\* The rename to provision.done may fail: /boot is read-only by then.
BootMark ==
  /\ boot = "mark" /\ boot' = "done" /\ env' \in {env, FALSE}
  /\ UNCHANGED <<models, saved, users, adding, deleting, disk, jobs, serving,
                 cache, probe>>

-----------------------------------------------------------------------------
\* add_model: push under the write lock, persist, start the download.

HandlerFree == Cardinality({i \in Ids : adding[i] # "none"})
               + Cardinality({i \in Ids : deleting[i] # "none"}) < InFlight

AddPush(id) ==
  /\ boot = "done" /\ id \notin models /\ adding[id] = "none" /\ HandlerFree /\ opens < Opens
  /\ models' = models \cup {id} /\ adding' = [adding EXCEPT ![id] = "pushed"]
  /\ UNCHANGED <<saved, users, env, boot, deleting, disk, jobs, serving, cache,
                 probe>>

AddPersist(id) ==
  /\ adding[id] = "pushed" /\ adding' = [adding EXCEPT ![id] = "saved"]
  /\ saved' = models
  /\ UNCHANGED <<models, users, env, boot, deleting, disk, jobs, serving, cache,
                 probe>>

AddSpawn(id) ==
  /\ adding[id] = "saved" /\ adding' = [adding EXCEPT ![id] = "none"]
  /\ Spawn(id, FALSE)
  /\ UNCHANGED <<models, saved, users, env, boot, deleting, disk, serving,
                 cache, probe>>

\* A download thread: the pre-seed's goes straight to the final name, the
\* others to the .part name, renamed when curl has succeeded.
Target(t) == IF dl[t].direct THEN FileOf[dl[t].id] ELSE PartOf[FileOf[dl[t].id]]
To(t, pc) == dl' = [dl EXCEPT ![t].pc = pc]

\* curl -o opens the name: it truncates the file that is there.
Open(t) ==
  /\ dl[t].pc = "spawned"
  /\ LET old == name[Target(t)]
         i == IF old # 0 THEN old ELSE CHOOSE j \in 1..Inodes : mtime[j] = 0
         rivals == {u \in Threads \ {t} : dl[u].pc \notin {"idle", "spawned"}
                                          /\ Target(u) = Target(t)}
     IN /\ old # 0 \/ \E j \in 1..Inodes : mtime[j] = 0
        /\ name' = [name EXCEPT ![Target(t)] = i]
        /\ data' = [data EXCEPT ![i] = Empty] /\ mtime' = [mtime EXCEPT ![i] = @ + 1]
        /\ tags' = [tags EXCEPT ![i] = (IF dl[t].direct THEN {"direct"} ELSE {})
                                       \cup (IF rivals # {} THEN {"shared"} ELSE {})]
        /\ dl' = [dl EXCEPT ![t] = [@ EXCEPT !.pc = "curl", !.ino = i, !.at = 1]]
  /\ UNCHANGED <<opens, registry, restarts, serving, cache, probe>>

Receive(t) ==
  /\ dl[t].pc \in {"curl", "orphan"} /\ dl[t].at \in Pieces
  /\ data' = [data EXCEPT ![dl[t].ino][dl[t].at] = FileOf[dl[t].id]]
  /\ mtime' = [mtime EXCEPT ![dl[t].ino] = @ + 1]
  /\ dl' = [dl EXCEPT ![t].at = @ + 1]
  /\ UNCHANGED <<opens, registry, name, tags, restarts, serving, cache, probe>>

\* Fault: the exit status is not looked at.
CurlAnyExit(t) ==
  /\ dl[t].pc = "curl" /\ To(t, IF dl[t].direct THEN "idle" ELSE "rename")
  /\ UNCHANGED <<opens, registry, disk, serving, cache, probe>>

CurlOk(t) ==
  /\ dl[t].pc = "curl" /\ dl[t].at \notin Pieces
  /\ To(t, IF dl[t].direct THEN "idle" ELSE "rename")
  /\ UNCHANGED <<opens, registry, disk, serving, cache, probe>>

\* rename(...).ok(): it fails when another download took the .part away.
Rename(t) ==
  /\ dl[t].pc = "rename" /\ To(t, "idle")
  /\ name' = IF name[Target(t)] = 0 THEN name
             ELSE [name EXCEPT ![FileOf[dl[t].id]] = name[Target(t)], ![Target(t)] = 0]
  /\ UNCHANGED <<opens, registry, data, mtime, tags, restarts, serving, cache, probe>>

CurlFails(t) ==
  /\ dl[t].pc = "curl" /\ To(t, "idle")
  /\ name' = IF dl[t].direct THEN name ELSE [name EXCEPT ![Target(t)] = 0]
  /\ UNCHANGED <<opens, registry, data, mtime, tags, restarts, serving, cache, probe>>

\* A curl that outlived its process ends, or fails; the .part stays.
OrphanEnds(t) ==
  /\ dl[t].pc = "orphan" /\ To(t, "idle")
  /\ UNCHANGED <<opens, registry, disk, serving, cache, probe>>

Download(t) == \/ Open(t) \/ Receive(t) \/ CurlOk(t) \/ Rename(t) \/ CurlFails(t)
               \/ OrphanEnds(t)

-----------------------------------------------------------------------------
\* A request clones the entry, and may have to load the model with it later
\* (acquire; ModelManager has the steps of a load, and the refusal to unload
\* during one).

Ask(id) ==
  /\ boot = "done" /\ id \in (models \cap Asked) \ (asked \cup resident)
  /\ asked' = asked \cup {id}
  /\ raced' = IF deleting[id] = "unloaded" THEN raced \cup {id} ELSE raced
  /\ UNCHANGED <<registry, disk, jobs, resident, cache, probe>>

\* load_backend: the file must be there, its header must parse and its estimate
\* fit; the backend may refuse it all the same.
Loadable(f) ==
  /\ name[f] # 0
  /\ LET fields == FieldsOf(Content(f))
         m == ReadHeader(fields)
     IN m.ok /\ LoadFits(m.kv, Len(fields))
Load(id) ==
  /\ id \in asked /\ asked' = asked \ {id}
  /\ resident' \in {resident} \cup (IF Loadable(FileOf[id])
                                    THEN {resident \cup {id}} ELSE {})
  /\ UNCHANGED <<registry, disk, jobs, raced, cache, probe>>

UiUnload(id) ==
  /\ boot = "done" /\ id \in resident /\ resident' = resident \ {id}
  /\ UNCHANGED <<registry, disk, jobs, asked, raced, cache, probe>>

\* Fault: delete_model does not unload.
DeleteKeepsLoaded(id) ==
  /\ boot = "done" /\ deleting[id] = "none" /\ HandlerFree
  /\ deleting' = [deleting EXCEPT ![id] = "unloaded"]
  /\ raced' = IF id \in asked THEN raced \cup {id} ELSE raced \ {id}
  /\ UNCHANGED <<models, saved, users, env, boot, adding, disk, jobs, asked, resident,
                 cache, probe>>

\* delete_model: unload, remove the entry, remove the file, persist.
DeleteUnload(id) ==
  /\ boot = "done" /\ deleting[id] = "none" /\ HandlerFree
  /\ deleting' = [deleting EXCEPT ![id] = "unloaded"]
  /\ resident' = resident \ {id}
  /\ raced' = IF id \in asked THEN raced \cup {id} ELSE raced \ {id}
  /\ UNCHANGED <<models, saved, users, env, boot, adding, disk, jobs, asked, cache, probe>>

DeleteEntry(id) ==
  /\ deleting[id] = "unloaded" /\ models' = models \ {id}
  /\ deleting' = [deleting EXCEPT ![id] = IF id \in models THEN "removed" ELSE "none"]
  /\ UNCHANGED <<saved, users, env, boot, adding, disk, jobs, serving, cache,
                 probe>>

DeleteFile(id) ==
  /\ deleting[id] = "removed" /\ deleting' = [deleting EXCEPT ![id] = "unlinked"]
  /\ name' = [name EXCEPT ![FileOf[id]] = 0]
  /\ UNCHANGED <<models, saved, users, env, boot, adding, data, mtime, tags, restarts,
                 jobs, serving, cache, probe>>

DeletePersist(id) ==
  /\ deleting[id] = "unlinked" /\ deleting' = [deleting EXCEPT ![id] = "none"]
  /\ saved' = models
  /\ UNCHANGED <<models, users, env, boot, adding, disk, jobs, serving, cache,
                 probe>>

-----------------------------------------------------------------------------
\* GgufMeta::cached: stat, look up, read the header, insert under the stat.

ProbeStat ==
  /\ probe.pc = "idle"
  /\ \E f \in Probed : /\ name[f] # 0
                       /\ cache[f].pc = "idle" \/ cache[f].key # Stat(f)
                       /\ probe' = [NoProbe EXCEPT !.pc = "read", !.file = f,
                                                  !.key = Stat(f)]
  /\ UNCHANGED <<registry, disk, jobs, serving, cache>>

\* Fault: the stat is taken after the header was read.
ProbeReadThenStat ==
  /\ probe.pc = "read" /\ name[probe.file] # 0
  /\ probe' = IF probe.key # <<0, 1>>
              THEN [probe EXCEPT !.key = <<0, 1>>, !.meta = Content(probe.file)]
              ELSE NoProbe
  /\ cache' = IF probe.key = <<0, 1>> /\ ReadHeader(FieldsOf(probe.meta)).ok
              THEN [cache EXCEPT ![probe.file] =
                                   [probe EXCEPT !.key = Stat(probe.file)]]
              ELSE cache
  /\ UNCHANGED <<registry, disk, jobs, serving>>

ProbeRead ==
  /\ probe.pc = "read" /\ probe' = NoProbe
  /\ cache' = IF /\ name[probe.file] # 0
                 /\ ReadHeader(FieldsOf(Content(probe.file))).ok
              THEN [cache EXCEPT ![probe.file] =
                                   [probe EXCEPT !.meta = Content(probe.file)]]
              ELSE cache
  /\ UNCHANGED <<registry, disk, jobs, serving>>

Handlers(id) == \/ AddPush(id) \/ AddPersist(id) \/ AddSpawn(id)
                \/ Ask(id) \/ Load(id) \/ UiUnload(id)
                \/ DeleteUnload(id) \/ DeleteEntry(id) \/ DeleteFile(id)
                \/ DeletePersist(id)
Next == \/ Restart \/ BootAccount \/ BootPreseed \/ BootMark
        \/ \E id \in Ids : Handlers(id)
        \/ \E t \in Threads : Download(t)
        \/ ProbeStat \/ ProbeRead

Spec == Init /\ [][Next]_vars

-----------------------------------------------------------------------------
\* What lies under a model's final name is the complete file the server has for
\* it, whatever failed, was killed or was deleted meanwhile, unless the pre-seed
\* wrote there directly or two downloads had the same .part name at a time (two
\* entries whose names differ in the extension, or one deleted and added again).
FinalFileIsWhole ==
  \A f \in Files : name[f] # 0 =>
    Content(f) = WholeOf(f) \/ tags[name[f]] # {}

\* The reader accepts exactly the files whose whole header has arrived, wherever
\* the file is cut, and then reports the metadata the header holds, the values
\* after an array too long to keep included.
HeaderDecides ==
  \A i \in 1..Inodes :
    LET fields == FieldsOf(data[i])
        f == data[i][1]
        m == ReadHeader(fields)
    IN IF fields = <<>> THEN ~m.ok
       ELSE /\ m.ok = (Len(fields) >= HeaderLen[f])
            /\ m.ok => m.kv = HeaderKv[f]

\* "Models are immutable once downloaded, so a stat-only invalidation is exact"
\* (gguf.rs:386-387): an answer served for the content a file has now was read
\* from that content, also while a download is writing the file.
CacheExact ==
  \A f \in Probed : name[f] # 0 /\ cache[f].pc # "idle" /\ cache[f].key = Stat(f)
                     => cache[f].meta = Content(f)

\* A model that is resident but no longer registered was asked for while it was
\* being deleted; otherwise deletion leaves nothing in memory.
OrphanOnlyByRace ==
  resident \ models \subseteq raced
=============================================================================
