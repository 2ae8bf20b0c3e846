# A verification project for MarkOS

MarkOS is a headless LLM appliance for the Raspberry Pi 5: an inference engine
in Rust (`engine/`), the operating system image that carries it (`os/`), and an
installer that flashes the image and injects its configuration (`installer/`).
This directory holds TLA+ specifications of the parts whose correctness depends
on interleavings, crashes, bounds and the order of operations, TLC configurations that check them on
small instances, and TLAPS proofs of their most important invariants.

`tlc -config <run>.cfg <module>.tla` checks a run, `tlapm <module>.tla` a
proof module. `PROJECT.json` lists components, runs, mutants, the map from
definitions to source lines, findings, hazards and theorems.

## 1. Inventory

| component | state it keeps | operations | hard behaviour | modules |
|---|---|---|---|---|
| **Model manager** `engine/src/models.rs` | slots (state, busy, last_used, budget), waiters; one mutex, one condvar | `acquire`, `queue_wait`, `set_loading_budget`, `unload`, `with_backend`, drop of the guard | threads interleave at the lock; loading and generating run outside it; eviction; timeouts; panics | ModelService, ModelManager |
| **Engine context, loader** `state.rs`, `guard.rs`, `sysinfo.rs` | the store, downloads, the manager | `open`, `persist`, `load_backend`, `auto_load`, `inventory` | the loader calls back into the manager; it can fail or panic half-way | ModelManager, StorePersist, Registry |
| **Persisted store** `config.rs` | `markos.json`, `markos.json.tmp` | `load`, `save` | parallel savers, process exit between steps, full disk | StorePersist |
| **Admin API** `admin.rs` | users, models, server settings, downloads | some thirty handlers | change under a lock, save after it; downloads in the background; delete against load | StorePersist, Registry, Access |
| **Inference API** `api.rs` | gauges | chat, completions, models | one request after the other on a kept context | ModelManager, Generation |
| **HTTP server** `http.rs`, `tls.rs` | connection gate, per-connection buffer | accept, keep-alive, parsing, chunked bodies | gate at its limit, lost notification, leaked slot, bytes of the next request | HttpServer |
| **Process** `main.rs` | listeners | routing, allow list, readiness, `--reboot-tryboot` | exit by signal, an address that cannot be bound | Access, StorePersist, ABUpdate |
| **Auth** `auth.rs` | sessions, users and roles | login, `ensure_user`, logout | expiry, a role that changes during a session, settings that shut everyone out | Access |
| **Provisioning** `provision.rs` | `provision.env`, first user, pre-seed | `run_provisioning` | crash between its steps, read-only `/boot` | Access, Registry |
| **Metrics** `metrics.rs` | ring of entries, token samples | `record`, `note_token`, `tokps_window` | threads append samples out of order | none |
| **Backends** `backend/*.rs` | KV cache, last tokens | `generate` | prefix reuse, batches, errors half-way, stop strings across tokens | Generation |
| **GGUF reader** `gguf.rs` | header cache | `from_reader`, `shape`, `cached` | malformed and truncated input, a file that is being written | Gguf, Registry |
| **A/B update** `markos-update`, `boot-confirm` | two root slots, two command lines on `/boot` | write, arm, try, prove, commit | power cut at each command; two scripts at once; stale files | ABUpdate |
| **Recovery** `S02markos-recovery`, `markos-factory-reset` | `/data/state`, the try | reset | crash in the middle | ABUpdate, Access |
| **Watchdog, boot scripts** | | | | a cause of `PowerCut` in ABUpdate |
| **Installer: image** `installer/src/fat.rs` | FAT32 partition: two tables, directories, free count | `write_file`, `resolve_dir` | chains reused, cut and extended; kill between two writes | FatWriter, FatImage |
| **Installer: build and flash** `gui.rs`, `cli.rs`, `config.rs`, `imagebuild.rs`, `flash.rs` | configuration, list of drives, built image, flash | edit, validate, build, select, write, verify | stale positions and images, paths that become another disk's, readers that serve old blocks | Installer |
| **Templates, web UI, C shim, image build, dev scripts** | | | | none |

How they interact: an HTTP thread runs a handler of the inference or admin API.
An inference handler calls `Manager::acquire` with a loader that is
`EngineCtx::load_backend`; the loader reads the GGUF file and calls back into
the manager for the memory budget. The generation runs in
`AcquiredGuard::with_backend` on the same thread. Admin handlers change the
store under a `RwLock` and call `persist`; they call `Manager::unload` and
`acquire` as well. The engine is a supervised service: it may exit at any time
and starts again from `markos.json`. `boot-confirm` asks the engine's
`/readyz`, and `markos-update` restarts the box through the engine binary.

`PROJECT.json` lists under `hazards` what is hard to test in this code, each at
its line, with the properties that cover it.

## 2. Modules

| module | models | state |
|---|---|---|
| `ModelService` | what the manager promises, abstractly | phase of each thread, the model it asks for, the models in memory |
| `ModelManager` | `models.rs` with the loader of `state.rs` | `slots`, `usedBefore` (the order of `last_used`), `waiters`; per thread its place `pc`, model `want`, estimate `est`, `late` and `result` |
| `ABUpdate` | `markos-update`, `boot-confirm`, the revert of a try, the boot | slots, two command lines, mount state, tryboot flag, stage of the box, places of the two scripts |
| `StorePersist` | `Store::save`, `load`, `EngineCtx::open`, `persist`, handlers that change the store | the store's version, inodes and their contents, the names `json` and `tmp`, places of the handlers |
| `Gguf` | the header reader and the RAM estimate, as operators | none |
| `Registry` | registration, pre-seed, downloads, deletion, loads, header cache | the registry in memory and saved, directory, inodes, download threads, handlers between two steps, residents, cache |
| `Headers` | `Registry` composed with `Gguf`; what a GGUF header is, apart from any reader | none of its own |
| `Access` | provisioning, users, sessions, server settings, restart, factory reset | roles and settings in memory and saved, whether `markos.json` can be read, `provision.env`, sessions, requests under way |
| `HttpServer` | accept loop, gate, framing of a connection's requests | the loop's step, `active`, per connection its step, unread bytes, buffer, requests handled |
| `Generation` | `generate` of llama.rs and axcl.rs over a series of requests | cells, history, batch, tokens, pending bytes, text, answer |
| `FatWriter` | `write_file` and what it calls, `read_file`, as operators | none: an opened partition is a record |
| `FatImage` | a series of `write_file` calls whose writes reach the disk one at a time | the disk, the opened partition with its writes still to land, the call, the expected contents |
| `Installer` | window, command line, validation, build, flash | screen, configuration, disks and the paths they have, drives as listed and the selected position, built image, flash, contents of the disks |
| `MC...` | instances for TLC: symmetry, scripts, prompts, images | |
| `...Proofs` | proofs about ModelManager, Registry, Access, HttpServer, Generation, FatImage, Installer; `PersistenceProofs` about StorePersist and ABUpdate | |

### ModelManager

One step is one critical section of the manager's mutex, or one step of a
thread between two of them. A thread in `acquire` is at the loop's top either
from outside (`entering`) or out of `wait_timeout` (`woken`); the six actions
there (`TimesOut`, `Admit`, `StartLoad`, `Evict`, `Enqueue`, `Overflow`) are
the ways through one iteration. `Evict` ends with the mutex free, as the code
drops it to notify and locks it again. The loader is `SetLoadingBudget`,
`CheckBudget` and then `LoadOk` or `LoadErr`, or `Unwind` when it panics.
`CheckOut` and `CheckIn` are the two critical sections of `with_backend`, with
the generation between them; `DropGuard` is the destructor, also out of an
unwinding generation. `Unload` is the admin's. Each `expect` and `panic!` of
the code is a branch to the place `panicked`.

Abstractions: `last_used` is kept as an order, which is all that
`min_by_key` looks at; a panicked loader's thread stays at `dead` and
represents the slot it leaked; a budget is one of `Costs`; the file and the
model are not looked into. `SlotState::Failed` is never constructed in the code
and is left out. `notify_all` comes right after the unlock in the code and is
part of the step; a wake-up at any other time is `PollWake`.

### ABUpdate

One step is one command of a script. A redirection and `cp` are two steps,
because they truncate their target first. `PowerCut` stands for a power
failure, a reboot, a kernel panic and the watchdog, between any two steps, and
clears everything in memory. An image is good, bad (boots, the engine never
answers) or torn (half written). `mount -o remount,ro` fails while the other
script has a file open for writing. The firmware is external: it uses
`tryboot-cmdline.txt` for one boot after the engine asked the kernel for it.
The wipe of `/data/state` in the factory reset is in `Access`, as one step.

### StorePersist

Files are inodes and `json` and `tmp` are names, because a saver goes on
writing to the file it opened when another has renamed it. The contents of the
store are a version number; a document is written in `Chunks` writes. A
handler takes the write lock only when no saver has the read lock, changes the
store, lets go, and saves later. The specification is `StoreSpec`, with
`StoreInit`, `StoreNext` and `StoreTypeOK`. `ChangeRefused` is the handler that answers
400 after it has changed the store. `Exit` ends the process anywhere; the disk
keeps what the kernel was told. The loss of written data by the disk in a power
cut is not modelled (the code does not call fsync). The history `spoiled` names
the files a saver has given up when a write failed.

### Gguf and Registry

A file is a sequence of fields (a magic, a count, a string's length, its text,
a value), one position each, and a truncated file is a prefix. `FromReader`
follows `from_reader`: `Exact` fails at the end of the file, `Skip` does not
notice it, kept and skipped arrays take different ways. `Registry` gives the
reader what a download has written so far: a file arrives in pieces that end at
chosen places in the header, and pieces of two servers' files can be mixed when
two curls write to one `.part` name. A name leads to an inode, so that a curl
keeps writing to the file it opened when the name has moved or is gone.
`add_model` is `AddPush`, `AddPersist` and `AddSpawn`; `delete_model` is
`DeleteUnload`, `DeleteEntry`, `DeleteFile` and `DeletePersist`; `Restart` may
come between any two of them, with the power gone or with the curls living on.
What a reader makes of a file is a parameter of `Registry` (`ReadHeader`,
`LoadFits`); the run gives it `Gguf`'s `FromFile` and `Admits`. `skip_value` and
`read_value` nest: `Skipping` and `Reading` are functions on the number of levels
that are left, which is `skip_value`'s limit of depth for the one and, for the
other, which has no limit, the number of fields, as an array takes two.
`Headers` states what `HeaderDecides` compares with: a header as a layout of
pairs and tensors (`IsHeader`), without a reader, and what its pairs say
(`Metadata`: the last value of a key that is kept).
`Ask` and `Load` stand for the steps of `ModelManager`. The histories `tags`
(how a file was downloaded) and `raced` (asked for while being deleted) serve
the properties only. Left out: the map of download states the page shows and
the alignment of the data.

### Access

One step is a critical section of the store's lock, or a save. `LoginRead`
clones the user, `LoginEnd` comes after the password check, which takes time
(`LoginTicks`), and creates the session with the role read before.
`require_admin` looks at the session's role. `Provision`, `ProvisionPersist`
and `ProvisionMark` are the steps of `run_provisioning`; the account may be
refused, the save and the rename may fail. Of the server settings two facts are
kept: the allow list lets some host in (which counts at once), and some address
for the web UI can be bound (which counts at the next start). `SetServer` is
`update_server_config`, with the error it returns after it has changed the
addresses. `Persist` takes the read lock and `Save` is the whole of `Store::save`,
as `StorePersist` has its steps: what matters here is that savers overlap, that a
save may fail, and that one which overlaps another may leave a `markos.json`
that cannot be read. Then the engine does not start (`StartFails`, for ever, as
the supervisor starts it again). `Restart` keeps what is on disk,
`FactoryReset` empties it; a reset that is cut short does the one or the other.
An engine that can bind no address for the web UI is `"deaf"`: it goes on with
the API.

### HttpServer

A stream is a sequence of items (request line, blank line, body item, chunk
size); a read returns any number of those that have arrived, up to a block.
`Parse` and `Chunked` are `read_request` and `read_chunked` on what the buffer
holds, and what they leave is the next request's. `Enter`, `Wait` and
`TimedOut` are `ConnGate::enter` with its mutex; `Leave` and `Notify` are the
two halves of `leave`, which does not take it. A handler that panics unwinds
past `leave` (`Panic`). Left out: a thread that cannot be spawned (the stream
is dropped, the slot stays taken), TLS.

### Generation

One handle serves one request after the other. `Trim` removes the cells after
the prefix shared with `last_tokens`, or all of them; `Prefill` decodes one
batch; `Sample` and `Feed` are one turn of the decode loop; `CleanUp` is the
error path. llama.cpp is external: a decode appends its batch to the cells or
fails after any part of it, and the sampler may pick any token. Bytes are
letters, with a two-byte character that tokens may split. `apply_stops`, which
`api.rs` runs over the whole output, is what the tail scan (`View`) is
compared with. A byte that belongs to no character, or comes in the wrong place,
stays in `pending` with what follows it, as `emit_utf8` leaves it. A prompt may
have no token at all: `/v1/completions` passes an empty text on, and a vocabulary
need not add a BOS token. Nothing is decoded for it, so `logits` are still those of
the last request, or `NoLogits` on a context that has decoded nothing.

### FatWriter and FatImage

`WriteFile` computes on a record of the opened partition, as `write_file` does
on the table in memory, and collects the writes it makes to the image in the
order it makes them; `LandNext` lets them reach the disk one at a time, and
every state between two of them is what a killed installer leaves behind. A
directory is a sequence of slots, a name takes one short entry and some long
ones, and a file's size is counted in clusters. The operators take their
intermediate partitions as arguments, one operator per branch of the code; the
loops of `read_chain`, `write_chain` and `resolve_dir` are recursive functions
on the number of turns. Content written over an empty
file goes through cluster 0, whose address is the end of the second table: such a
write is logged as `Astray`, and `Scrawl` says which cells of the table on the disk
it goes over, and what they then say. `Sound` says what `fsck` would ask of a partition, and
`CallsAssumption` asks it of the images a series of calls starts from.

### Installer

The configuration is what validation and the set of injected files can tell
apart. The window's screens are the variable `screen`, with the `Check` that
`gui.rs` runs when it draws the review screen as a part of every action there.
The command line is a set of options, because each override sets a field of its
own and the order makes no difference. A flash runs on its own (`FlashImage`)
while disks are plugged in and out and the window moves on. A drive is a path and
the disk that has it: `Plug` gives a disk any free path, one that is still in an
older list as another's included. `OpenDevice` opens whatever disk has the path by
then, and `OpenToVerify` opens the path once more. A block read back may be what was
there before, as long as the reader likes, or another disk's; `VerifyBlock` reads it
again up to `Retries` times. The history `gone` names the listed disks that have
been unplugged since.

## 3. Runs

| run | instance | what it checks |
|---|---|---|
| `Manager` | 4 threads, 3 models, 2 resident, queue of 2, costs 2 and 3 of 4, loader may panic, symmetry; 166 k states | types; no assertion of the code fails; busy exactly while one thread owns the slot; slots within max_resident; budgets within memory; waiters counted; idle models are evicted in the order they were given back; implements `ModelService` |
| `ManagerLive` | 3 threads, 2 models, 1 resident, no loader panic; 25 k states | every busy slot is released; a caller that never returns is being overtaken for ever; with the clock running every acquire returns |
| `Update` | 2 slots, 2 polls; 3.4 k states | types; the running root is never written; the try under proof stays; a healthy try is committed |
| `StoreSafety` | 3 handlers, 5 files, 2 chunks, 3 changes, symmetry; 283 k states | types; a readable file holds what was acknowledged; a version whose rename failed is whole under that name, or a saver is still at it |
| `FatWrites` | 8 clusters of 4 slots, a root directory filled to each level with or without a directory, 4 calls of 0 to 2 clusters; 330 k states | a kill harms only the file being written, in the second table except while a write through cluster 0 is in it; no cluster shared or leaked; sizes match chains; tables, free count and memory agree |
| `Installs` | 3 disks, one too small and of unknown size, 2 paths, 2 blocks, 1 retry, 8 command lines; 3.6 M states | types; only valid configurations are built; what is flashed is what was shown; the chosen path is written, and the disk listed there unless it was unplugged; a flash that ends well is on the disk |
| `Registry` | 2 ids whose files share the `.part` name, 2 download threads, 2 inodes, 1 restart; 1.4 M states | files under final names are whole; the reader accepts exactly whole headers; the cache is exact; residents are registered |
| `Access` | 2 users, 2 browsers, every setting, a session life and a login of 1 tick; 5.0 M states | an old role is usable no longer than a session; the way in is lost by five named causes only |
| `Http` | 3 clients for 2 slots, 2 requests each, blocks of 3 items, 1 panic; 239 k states | slots accounted; requests framed in order; the accept loop never hangs |
| `Generates` | llama, axcl and NPU handle, context of 5, batch of 2, 4 tokens, prompts of 0 to 4 and one too long; 291 k states | sampled from the request's own text, the first token of an empty prompt excepted; history is the cells; stops found; every byte emitted once, as soon as it ends a character |

Each of these properties has a mutant: a definition of the model changed the
way a plausible bug would change the code, for which TLC finds the property
violated. The mutated forms stand before the definitions they replace and
their comments begin with "Fault:".

Several properties name an exception, because the code has the behaviour the
exception describes: `FinalFileIsWhole` excepts the pre-seed and two downloads
to one `.part` name, `OrphanOnlyByRace` a request during a deletion,
`FailedRenameIsHarmless` a saver whose disk is full, `WayInLostOnlyBy` five causes,
`SamplesFromOwnText` the first token of an empty prompt, `KillSparesBystanders` and
`ClustersOwnedOnce` entries that are hidden or were struck (section 5) and the
second table after a write through cluster 0, `FlashesWhatIsShown` an edit or a
failed rebuild after the image was built, and `WritesTheChosenDisk` and
`OkMeansOnTheDisk` a disk that was unplugged after it was listed, or between the
writing and the reading. What the properties say is
that nothing else leads there.

### Where the code and its documentation differ

| run | what the documentation says | what the code does |
|---|---|---|
| `UpdateBricks` | "an update can never brick the box" (boot-confirm/run:7) | `cp` truncates the default command line before it writes it (boot-confirm/run:28) |
| `LlamaPrefill` | "Prefill the uncached suffix in n_batch chunks" (llama.rs:305) | the batch is not cleared between chunks, so a second chunk does not fit (llama.rs:311) |

### Bounds

**Manager.** Two resident models and three wanted is the smallest instance in
which an eviction has a choice and a caller competes for the room it made. Four
threads fill two models and a queue of two, so overflow happens while others
hold, load or wait. `Costs` 2 and 3 with 4 usable make one pair of models fit,
one not, and every single model fit. The liveness runs need only the switching
of one place between two models, and three threads so that two can overtake
the third. **Update.** Two polls distinguish the first healthy answer from the
last; the code's 18 differ only in length, and the proofs hold for any number.
**Store.** Two chunks make a document that can be half written; with three
handlers one saver can truncate, one rename and one fail. `MaxVersion` bounds
the number of changes, in the guards of `Change` and `ChangeRefused`. Five
inodes are one for each open descriptor and one for each name.

**FatWrites.** The fillings of the root decide whether an entry fits, fits
exactly, leaves a gap or grows the directory; sizes 0, 1 and 2 give every
transition of a chain (none, cut, kept, extended), and four calls allow a
file to be created, emptied, filled and followed by another. The table is small
enough to run full. `Scrawl` makes the stray write end one
free cell's chain and lead another into a bystander. **Installs.** One disk to
choose, one to confuse it with and one that is too small, under two paths, so that
a path becomes another disk's; two blocks make a first and a last; one retry
distinguishes none, the last and one too many (`Retries` is 5 in the code). The
command lines reach each outcome of `RunCli`. `Scope`, a constraint of `MCInstaller`,
keeps the product of the two halves small: the configuration is edited at will while
one disk is attached or none and no device is open, and several disks come and go
while the window is filled in, or the command line runs. **Registry.** `Opens`, `Restarts`, `Inodes`, `InFlight`,
`Asked` and `Probed` bound the numbers of downloads, restarts, files, handlers
at a time, models asked for and files probed; two downloads, with one process
dying, are what it takes for a curl to outlive its process and meet a second
one. The images have an array too long to keep, a doubled key and cuts inside
the pairs and the tensors. The reader's limits are small enough for that: an array
of three elements is too long, and four pairs are as many as a header may have.
**Access.** One tick of session life and one of
login separate "still valid", "expired" and "longer ago than any session";
two users are the last admin and another. Two browsers are two savers that
overlap, of which one may be the demoted user's. `Scope`, a constraint of
`MCAccess`, takes settings other than the default only as long as nothing has aged;
who gets in depends on the clock only through the life of a session, which the
default settings go through. **Http.** Three clients on two slots
make one wait; blocks of three items cut requests anywhere; `Panics` bounds
the leaked slots, so that one of two may be gone. **Generates.** Prompts are empty or share
nothing, a part, all but the last token or everything with the one before; the
uncached part is shorter, as long as and longer than a batch; the context can
be full before `max_tokens`.

`CHECK_DEADLOCK FALSE` is set where the system or its bounds really stop: a box
whose default command line names no root, an engine that cannot parse
`markos.json` or has used its `MaxVersion` changes, the last allowed
`write_file`, a command line that has ended, a registry that has used its
downloads and restarts, and a server whose scripted clients are done.

### Fairness

`FairSpec` of `ModelManager` asks that every thread that can go on does: the OS
runs threads, loaders and generations end, and a notified waiter gets the
mutex. It asks neither for new requests nor for the 5 s poll or the deadline,
so what holds under it the notifications alone achieve. `ClockFairness`, that
waits end after 5 s and deadlines pass, is a hypothesis of `CallReturns` only.
`FairSpec` of `ABUpdate` asks that the shell of `boot-confirm`, the boot and
the start of services go on; power cuts and updates may happen and need not.
`Fairness` of `HttpServer` asks that the accept loop and each connection's
thread are scheduled, that handlers return or panic, and that the gate's wait
of 5 s ends, which is what resolves an accepted connection when the
notification was lost. It does not ask for clients to send anything.

## 4. Proofs

TLC checks the instances above; the proof modules prove for all values of the
constants, under the named assumptions of the modules:

| assumption | what it asks | why the code justifies it |
|---|---|---|
| `ManagerAssumption` | finite sets of threads and models, positive costs | threads of one process, files of one disk; an estimate is never 0 |
| `UpdateAssumption`, `StoreAssumption` | two distinct slots, a positive number of polls and of chunks | constants of the scripts; a document is not empty |
| `RegistryAssumption` | a `.part` name is no model's final name; all files arrive in the same number of pieces | a final name ends in `.gguf`, except that a client may ask for any name in `file`: one that ends in `.part` is left out (section 5); the pieces are the model's, cut where one likes |
| `GgufAssumption` | the reader's limits are numbers, and one level of nesting is allowed | 4096, 100 000 000, 4 MiB, 100 000 and 4 |
| `HeaderAssumption` | the server's files begin with a well-formed header that has a tensor and whose arrays hold numbers or strings; `ReadHeader` is `Gguf`'s reader on what has arrived of them | the files are models, and no key of the GGUF specification nests arrays; without a tensor the reader would not notice a last value that is skipped and missing, as `skip` does not notice the end of a file (gguf.rs:268) |
| `AccessAssumption` | a session's life and a login's time are numbers; what an admin asks for are settings | `SESSION_TTL` |
| `HttpAssumption` | finite scripts of requests; a chunked body without its last line comes last | what follows such a body could not be told from its trailers |
| `GenerationAssumption` | prompts are finite sequences, the empty one included; the stop strings of a request are finitely many and UTF-8 | a list of Rust `String`s |
| `GeometryAssumption` | a root and another cluster; a name and its long-name slots fit in a cluster; a stray write goes over cells of clusters and leaves entries there | a FAT32 volume has 65525 clusters or more; the names are the installer's own, of some twenty characters at most |
| `CallsAssumption` | at least two slots in a cluster; a path names a file in the root or in one directory of it; the image to start from is a consistent file system whose two tables agree | a cluster has 512 bytes or more, a slot 32; `build_configured_image` writes to `markos/` only (imagebuild.rs:28-51); the image is fresh from mkdosfs and mtools (fat.rs:8) |
| `InstallerAssumption` | at least one block; any set of disks and of paths | an image is not empty |

- **ModelManagerProofs**: `TypeCorrect`, `AssertionsHold`, `ExclusiveAccess`,
  `CapacityRespected`, `CountExact` and `Refinement`. The invariant `IInv` adds
  to the properties what each thread knows: a thread inside `acquire` or with a
  guard wants a model (`WantsSomething`); where it stands determines the state
  of its slot (`OwnerSees`); a slot without its backend is busy (`SlotShape`);
  two owners of one model are the same thread (`OneOwner`); and a busy slot has
  one (`BusyOwned`). Without `OwnerSees` the `expect` of the loader could fail
  in a state with a vanished slot; without `OneOwner` a second owner could
  remove it. The lemma `OwnerStep` carries the common case: a step moves one
  thread, the slots of other threads' models are untouched. Capacity and the
  count of waiters are separate invariants on top, by cardinality facts.
  `MemoryFits` needs that the estimate a loader has passed on is the budget of
  its slot (`BudgetKnown`): `set_loading_budget` enters it in the table before
  the sum is compared, so that two loaders that pass at once have each counted
  the other. `EvictionIsLRU` needs that the order of last use is total on what
  is resident (`Ordered`).
  `Refinement` maps each action to a step of `ModelService` or to a stutter.
- **PersistenceProofs**, about `ABUpdate`: `TypeCorrect`, `RootSpared`,
  `TryFileStays`. The invariant adds that a box that is off has nothing in
  memory (`Volatile`), that a script which arms has a plan (`PlanMade`) and that
  the file under proof exists (`TryStays`). About `StorePersist`:
  `StoreTypeCorrect`, `NothingAcknowledgedIsLost`, `RenameErrorIsHarmless`. The
  key facts are that while a saver holds the read lock the store does not
  change, so everything it opened has the store's version (`OpenIsStore`), that
  the file the next rename acts on, or the last one acted on, has it as well
  (`CurrentIsStore`), that a file with a name is whole, given up, or at the hands of
  a saver who has found nothing taken away of what it wrote (`FilesSettled`), and that neither the running engine nor `markos.json` is
  older than what was acknowledged (`NothingForgotten`).
- **RegistryProofs**: `FinalNameIsWhole`, `CacheNeverStale`,
  `DeletionLeavesNothing`, `ReaderDecides`. An inode has one name at most (`OneName`); a
  download's inode is under its own target, renamed from there, or without a
  name (`OwnInode`); what a `.part` name leads to has one writer while nobody
  shares it, and what a final name leads to has none (`Undisturbed`), whence the
  first theorem. A stat in the cache is of an inode that had this file's name
  and no other since, and if it still fits the content is the one that was read
  (`CacheSound`). What is resident or asked for without an entry was asked for
  during the deletion (`Requested`). `ReaderDecides` is about every well-formed
  header and every cut: reading an item that ends at `e` in a file of which `m`
  fields have arrived ends at `e` if it succeeds, and succeeds if `e <= m`
  (`Ends`). The lemmas go from a field to a string, a value, an array
  (`ArrayRead`), a pair, all pairs (`KvsRead`, with `OneMore` for what one pair
  adds to what the pairs before it say) and all tensors. The converse, that a
  reading which succeeds had all its fields, does not hold of values, because
  `skip` does not notice the end; it holds of a tensor (`TensorRead`), and so of
  a header that has one.
- **AccessProofs**: `StaleRolesExpire`, `WayInIsKept`. A login under way holds a
  role that was true when it began (`StaleLogins`), and so does a session for
  as long as it is accepted (`StaleSessions`): the two durations add up. A way in
  may go with the roles, with the settings, with the document or with
  `provision.env`. `StartUp` says that until the engine serves the roles are what
  provisioning made, the settings are those on disk and nobody saves, so that only a
  refused or unsaved account remains; `NoAdminsNoCalls`, that later it takes a
  demotion, as without an admin there is no call of one under way to save anything.
- **HttpServerProofs**: `GateIsExact`, `RequestsAreFramed`. For the gate, the
  connection the loop holds is the only one at the gate and not yet served
  (`LoopHolds`). For the framing, what is in the buffer followed by what is
  still on the wire is the wire of the requests not yet handled (`Framed`),
  and how far the answers are tells whether a next request may be read
  (`Progress`). `ParseReads` and the lemmas before it say what `Parse` makes
  of any part of a wire that starts with a request: it takes that request, or
  wants more, or refuses a garbled one.
- **GenerationProofs**: `OwnTextIsSampled`, `HistoryIsKept`, `NoStopIsMissed`.
  `Cells` says at each phase what part of the prompt and
  the output the cells, the history and the batch are (`Prefilling` while the prompt
  goes in, if there is one). `ViewMissesNone`, on the
  operators alone: if neither the text before a piece nor the bytes that `View`
  looks at contain a stop string, the whole text does not.
- **FatImageProofs**: `SparesBystanders`, `OwnedOnceAlways`,
  `SizesMatchAlways`, `DiskAgreesAlways`; described below.
- **InstallerProofs**: `StatesAreTyped`, `OnlyValidIsBuilt`,
  `TheImageShownIsFlashed`, `TheChosenDiskIsWritten`, `ReportedFlashIsOnDisk`.
  The invariant says what each screen may rely on: which jobs run on it
  (`Screens`), that its keys are those that were checked (`Checked`), what the
  image under construction lacks (`Building`), what the one offered is of
  (`Offered`), that a listed drive has its path still or was unplugged (`Listed`),
  and how far a disk has been written and read back (`OnTheWay`).

### The proofs about FatImage

Whether a path reads the same after a call depends on whole chains and whole
directories, and none of the four invariants is inductive. What is, `IInv`, has
two parts. `Typed` is what the variables are. `Stage` is where a call stands:

- `Rest`: memory and disk agree, the partition is described by runs and
  directories (below), and every path reads what is expected of it, or is hidden
  or struck.
- `Landing`: writes to clusters are still to land. Both tables of the disk are
  the old ones, and *every* content of the clusters that the rest of the call
  passes through lets the other paths read the same through the old table
  (`Trail` through `Spares`); after the last of these writes the new table, if
  the call succeeds, gives every path what is expected of it (`Stored`). A call
  that fails ends here, with both tables as they were.
- `Second` and `Third`: the first table is new, then both are. While they
  differ the old one still spares the others.

A write astray lands like one to a cluster that no chain has, except that the second
table is then out of the invariant (`intact`) until it is flushed.

The quantification over the contents still to come is what makes `Landing`
inductive: a write that lands is the first step of a trail and leaves the rest
of it. The work is then in one lemma per operator of `FatWriter`:

1. *Runs.* `Heap(fat, r)`: the chains that start at the cells `DOMAIN r` end,
   do not meet, and are all there is. `alloc_cluster`, `free_chain`, extension
   and cutting turn one such `r` into another, and `Chain` computes `r[h]`. The
   runs exist because a chain that follows a table without repetition is no
   longer than the number of clusters. Cell 0 has a run of its own, as
   `write_chain` of a struck entry hangs its clusters there.
2. *Directories.* `Tree(r, D)`: every entry in the slots `D[d]` has its run, one
   of its size, every run but those of the root and of cell 0 has an entry, and
   no cell has two. `Held` says that the clusters contain these slots. `add_entry`, the
   two patches and the creation of a directory are lemmas about `Tree`.
3. *What a call passes through.* A write to a cluster that the old table counts
   as free changes no path; one to a cluster of the file written changes only
   that file; one to a directory leaves, slot by slot, the old value, a part of
   the new entry or a slot that no scan gets to, so that `Lookup` of any other
   name finds what it found (`Allowed`). The clusters a call writes are of these
   three kinds because `alloc_cluster` takes only free ones and every chain freed
   in memory is the file's own.

`WriteFile` is then a case distinction: directory found or created, file absent,
emptied or replaced, room in the directory or not, space exhausted at each
allocation. `IInvStep` is the induction step, `OkLanding` the moment a call
returns.

### Induction

Sums over a set of models, joined sequences and the scan for a stop string are
recursive functions of the community modules; the loops of `FatWriter` and
`Gguf` are their own. What the proofs need of them is not an induction over data: a
counterexample would have a least size, and the least element of a set of
numbers exists because `<` is well-founded (`LeastNat`, `SmallestSet`; from
`NatLessThanWellFounded` and `WFMin`).

Only model-checked:
- liveness and everything that depends on ENABLED (`BusyIsReleased`,
  `OnlyOvertakingStarves`, `CallReturns`, `HealthyTryIsCommitted`,
  `AcceptedIsResolved`), out of the prover's reach;
- that no byte of a text is lost (`NoByteIsLost`), which is about joined sequences of
  pieces;
- headers that are not well-formed or whose arrays nest: no theorem says what
  the reader makes of them;
- the two disagreements of section 3, which are counterexamples.

## 5. What the code does that a reader should know

Behaviour met while modelling. The definitions named here stand in the modules
as statements of what a doc, a comment or a user would expect; they do not
hold, and no run lists them.

Engine:
- `QueueDepthIsPerModel`: config.rs:58 says the queue depth is per model, the
  counter is one for all (models.rs:277). `QueueIsFIFO`: models.rs:4 says FIFO,
  but whoever has the mutex first is admitted (models.rs:184).
- `RefusedOnlyIfNothingIdle`: design.md:232 says a load over the budget evicts
  idle models; it is refused (state.rs:114).
- `LoadingResolves`: `clamp` panics on a context length of 0 (state.rs:106), and
  the slot stays Loading until the engine restarts.
- `AtomicReplace`: parallel savers share one temporary file (config.rs:294), so
  `markos.json` can be a torn document.
- The download's `.part` name drops the extension of the final name, so two
  entries can write to one file; the pre-seed writes to the final name
  (provision.rs:154). A `file` that ends in `.part` would be its own temporary
  name (admin.rs:425). Curl processes outlive a restart of the engine.
- The size check at the end of the GGUF header never fires: the file's size is
  filled in after `from_reader` has used it.
- `/boot` is mounted read-only when `provision.env` is to be renamed, and the
  error is dropped. When the rename does work, a factory reset leaves no file to
  make an admin from: what it restores is a copy the engine does not read.
- The allow list can exclude everybody. `RescueIsBound`: docs/recovery.md:9 says the
  web UI is always bound on the link-local address as well, but main binds what
  `ui_binds` lists (main.rs:255), and `update_server_config` replaces that list
  (admin.rs:822).
- A process that ends while two saves overlap may leave a `markos.json` it cannot
  read. It then ends at every start, and only a factory reset helps; that leaves no
  admin once `provision.env` is used up. An admin's own demotion and settings that
  shut everyone out are saved as they are.
- `LogitsAreFresh`: llama.rs:270 forces a prefill "so the sampler reads fresh
  logits", but an empty prompt leaves none to force (llama.rs:272): on a vocabulary
  without a BOS token the first token is sampled from the logits of the request
  before, or from a null pointer if there was none (llama.rs:331, axcl.rs:351).
- An expired session's age is looked at when the session is used, and its role
  is the one of the login.
- `OnlyATailIsHeld`: llama.rs:31 keeps "any partial multi-byte tail", but a byte that
  belongs to no character stops the emission of text for the rest
  of the request as well (`valid_up_to` stays 0, llama.rs:45). A generation that reaches the end of
  the context ends in 502 and not in "length". Streamed text contains the stop
  string which the other kind of answer trims. No code sets the cancel flag of
  a request (api.rs:176).
- `tokps_window` may subtract a larger count from a smaller one when two threads
  append their samples in the other order (metrics.rs:107).

Operating system:
- `CommitsTheProvedSlot`: `boot-confirm` takes the existence of
  `tryboot-cmdline.txt` for a try in progress, and a root that is not the one
  on trial commits it (boot-confirm/run:10).
- `S05markos-firstboot` takes the first disk that exists, `S01markos-mounts` the
  first with a fourth partition; with a second medium in the box these differ.
- A try whose engine never answers but keeps the box alive stays in the loop of
  `boot-confirm` for ever.

Installer:
- `EveryFileIsFound`: a directory whose zero tail is too short for a new entry
  grows by a cluster and keeps the tail, where every later scan stops: the entry
  is written and never found (`Hidden`).
- Two names with the same generated short name are one file to `lookup`.
- Content written over a file of size 0 goes to a chain that hangs off entry 0
  of the table and is lost (`Struck`). Its first block is written to the address of
  cluster 0: a debug build panics at the subtraction (fat.rs:171), a release build
  writes over the end of the second table, where it stays until the tables are flushed.
- A file that becomes empty has its size and its first cluster patched in two
  writes of the directory.
- The path of a disk is opened long after the disk was listed (gui.rs:400, and
  cli.rs:317 after a countdown of 5 s). If it was unplugged and the path was given
  to another, that one is erased; the read-back may read yet another.
- The serial console counts as a way in for the validation (config.rs:150), but
  nothing the installer writes tells the image to turn it on.
- `--ssh-key` does not enable SSH, although the usage text says so
  (cli.rs:39). The window validates before it copies the keys of the text area.
- An image built earlier is still offered after an edit or a failed rebuild.
  The window drops the result of a flash.
- The verification ends as a success when the image file cannot be read any
  more.

## 6. What is not modelled

- **Metrics, chat templates, web UI, static assets, C shim and llama.cpp,
  static OS configuration, image build, development scripts**: presentation,
  text, foreign code or straight-line commands, with no state that anything
  else depends on. llama.cpp, curl, the firmware and the kernel are external.
- **Boot scripts** (mounts, network and host keys, growth of the data
  partition): run anew at every boot, one system tool after the other. Of the
  state that a factory reset wipes only the accounts are modelled.
- **The watchdog's timer**: its reboot is a `PowerCut`.
- **TLS, password hashing, the API key, routing, wire formats**: libraries or
  pure functions of one request.
- **Accelerator probing and engine sets** (`accel.rs`, `axsets.rs`), `sysinfo`:
  they read files and report.
- **Loss of written data by the disk in a power cut**: the code does not call
  fsync, and in `StorePersist`, `Registry` and `FatImage` the disk keeps what
  the kernel was told.
- **Some error paths**: the branches of `add_model` and `delete_model` whose persist
  fails, an unparsable Content-Length (read as 0), a chunk size so large that its
  sum overflows (the handler's thread panics, as in `Panic`).
- **The granularity of writes**: a table of the FAT is one write, as is a directory
  cluster; a stat in `CacheExact` tells two contents apart that time and size of a
  real file may not.
- **Liveness of recovery**: nothing says that a try which was never booted is not
  committed; it may be (`CommitsTheProvedSlot`).
- **Widths of integers**: the estimate is 64-bit arithmetic on numbers of the
  header, which could wrap; the bounded headers stay far below that.
