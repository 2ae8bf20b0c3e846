------------------------------ MODULE FatImage ------------------------------
(***************************************************************************)
(* An image on disk while the installer writes files into its boot         *)
(* partition one after the other (installer/src/fat.rs, write_file under   *)
(* inject_provision).  The writes of a call reach the disk one at a time:  *)
(* every state between two of them is what a killed installer leaves.      *)
(***************************************************************************)
EXTENDS FatWriter

CONSTANTS
  Paths,     \* the paths written or read, [dirs, name]
  Sizes,     \* sizes of contents, in clusters
  Bases,     \* images to start from
  MaxCalls   \* calls of write_file in a behaviour

-----------------------------------------------------------------------------
(* What a partition is made of, and when fsck has nothing to say about it.  *)

Cells == {0} \cup Clusters                   \* places of the table; 0 is in no file
Fats == [Cells -> Cells \cup {Eoc}]
Shorts == {Short[n] : n \in Names} \cup {".", ".."}
Slots == {Zero, Long}
         \cup [kind : {"entry"}, short : Shorts, cluster : Cells, size : Nat, dir : BOOLEAN]
         \cup [kind : {"data"}, tag : Nat, part : Nat]
Blocks == [1..SlotsPer -> Slots]
Datas == [Clusters -> Blocks]
Images == [data : Datas, fats : [1..2 -> Fats], free : Nat]

Real(s) == s.kind = "entry" /\ s.short \notin {".", ".."}

\* The directories, and the places <<d, k>> of their entries, those no scan
\* gets to included.
Dirs(fat, data) ==
  {Root} \cup {s.cluster : s \in {x \in ToSet(DirSlots(fat, data, Root)) : Real(x) /\ x.dir}}
EntryAt(fat, data, x) == DirSlots(fat, data, x[1])[x[2]]
Places(fat, data) ==
  UNION {{<<d, k>> : k \in {j \in DOMAIN DirSlots(fat, data, d) :
                              Real(DirSlots(fat, data, d)[j])}} : d \in Dirs(fat, data)}

\* r[h] is the chain that starts at cell h: the chains in r end, do not meet,
\* and are all there is.
Runs(fat, r) ==
  /\ \A h \in DOMAIN r :
       /\ r[h] # <<>> /\ r[h][1] = h
       /\ \A i \in 1..Len(r[h]) :
            fat[r[h][i]] = IF i < Len(r[h]) THEN r[h][i + 1] ELSE Eoc
  /\ \A g, h \in DOMAIN r : \A i \in 1..Len(r[g]), j \in 1..Len(r[h]) :
       r[g][i] = r[h][j] => g = h /\ i = j
  /\ \A c \in Clusters : fat[c] # Free =>
       \E h \in DOMAIN r : \E i \in 1..Len(r[h]) : r[h][i] = c

RunFrom(fat, h) == IF h = 0 THEN <<0>> \o Chain(fat, fat[0]) ELSE Chain(fat, h)

\* Chains start at the root, at an entry or at cell 0, at one of these only; a
\* file's is as long as its size; directories are in the root.
Sound(fat, data) ==
  LET ps == Places(fat, data)
      e(x) == EntryAt(fat, data, x)
  IN /\ Runs(fat, [h \in {0, Root} \cup {e(x).cluster : x \in ps} |-> RunFrom(fat, h)])
     /\ \A x \in ps : /\ e(x).cluster # Root
                      /\ e(x).dir => x[1] = Root /\ e(x).cluster # 0
                      /\ ~e(x).dir /\ e(x).cluster # 0 =>
                           Len(Chain(fat, e(x).cluster)) = e(x).size
     /\ \A x, y \in ps : e(x).cluster = e(y).cluster /\ e(x).cluster # 0 => x = y

\* The installer starts from an image as mkdosfs and mtools make it, and all
\* its files go to the directory markos (imagebuild.rs:28-51).
ASSUME CallsAssumption ==
  /\ MaxCalls \in Nat /\ Sizes \subseteq Nat
  /\ SlotsPer >= 2 /\ \A n \in Names : Short[n] \notin {".", ".."}
  /\ \A q \in Paths : q.name \in Names /\ q.dirs \in {<<>>} \cup {<<n>> : n \in Names}
  /\ \A b \in Bases : b \in Images /\ b.fats[1] = b.fats[2] /\ Sound(b.fats[1], b.data)

VARIABLES
  image,     \* the disk: [data, fats, free]
  part,      \* the opened FatPartition, with its writes still to land
  call,      \* the call under way or done last: [path, tag, size]
  calls,     \* how many calls were made
  expected,  \* what each path should read, by the calls that returned Ok
  intact     \* the tables that no write has gone astray over since they were
             \* written last (history)

vars == <<image, part, call, calls, expected, intact>>

Idle == part.log = <<>>
Shortened(p) == [i \in DOMAIN p.dirs |-> Short[p.dirs[i]]]
SameFile(p, q) == Shortened(p) = Shortened(q) /\ Short[p.name] = Short[q.name]
Content(c) == [i \in 1..c.size |-> Chunk(c.tag, i)]
NoCall == [path |-> [dirs |-> <<"none">>, name |-> "none"], tag |-> 0, size |-> 0]

\* What path reads on the disk through table i.
OnDisk(i, path) == ReadFile(image.fats[i], image.data, path)

Init ==
  /\ image \in Bases
  /\ part = OpenPartition(image)
  /\ call = NoCall /\ calls = 0
  /\ expected = [q \in Paths |-> OnDisk(1, q)]
  /\ intact = {1, 2}

Write(path, size) ==
  /\ Idle /\ part.ok /\ calls < MaxCalls
  /\ calls' = calls + 1
  /\ call' = [path |-> path, tag |-> calls + 1, size |-> size]
  /\ part' = WriteFile(part, path, call')
  /\ UNCHANGED <<image, expected, intact>>

\* The next write of the call reaches the disk; after the last one the call
\* returns.
LandNext ==
  /\ ~Idle
  /\ image' = Land(image, Head(part.log))
  /\ part' = [part EXCEPT !.log = Tail(@)]
  /\ expected' = [q \in Paths |->
       IF Len(part.log) = 1 /\ part.ok /\ SameFile(q, call.path)
       THEN Content(call) ELSE expected[q]]
  /\ LET w == Head(part.log)
     IN intact' = IF w.kind = "fat" THEN intact \cup {w.at}
                  ELSE IF w.kind = "astray" THEN intact \ {2} ELSE intact
  /\ UNCHANGED <<call, calls>>

Next == LandNext \/ \E path \in Paths, size \in Sizes : Write(path, size)

Spec == Init /\ [][Next]_vars

-----------------------------------------------------------------------------
Settled == Idle /\ part.ok

\* add_entry left an entry of this name behind a free slot of directory d, where
\* no scan gets to.
HiddenIn(fat, data, d, n) ==
  LET s == DirSlots(fat, data, d)
  IN \E k \in EndOf(s)..Len(s) : s[k].kind = "entry" /\ s[k].short = Short[n]

\* q, or the directory it is in, is hidden so in table i.
Hidden(i, q) ==
  LET fat == image.fats[i]
      d == FindDir(fat, image.data, q.dirs)
  IN IF d = 0 THEN HiddenIn(fat, image.data, Root, q.dirs[1])
     ELSE HiddenIn(fat, image.data, d, q.name)

\* write_file put content over q's entry while that owned no cluster.
Struck(i, q) ==
  LET fat == image.fats[i]
      d == FindDir(fat, image.data, q.dirs)
      s == DirSlots(fat, image.data, d)
      k == Lookup(s, q.name)
  IN d # 0 /\ k # 0 /\ s[k].cluster = 0 /\ expected[q] # <<>>

\* A kill at any moment costs at most the file being written: every other file
\* still reads what the calls that returned left in it.  That holds of whoever
\* reads table 1, and of the installer itself, which reads table 2, except
\* between the write for cluster 0 of a call that gives content to an empty
\* file and the flush of that call.
KillSparesBystanders ==
  \A q \in Paths, i \in {1} \cup intact :
    \/ ~Settled /\ SameFile(q, call.path)
    \/ OnDisk(i, q) = expected[q]
    \/ Hidden(i, q) \/ Struck(i, q)

\* No cluster belongs to two files or directories, and every allocated one
\* belongs to one, or hangs off entry 0 of the table, where write_file puts
\* what it writes over an entry that owned no cluster.
ClustersOwnedOnce ==
  Settled =>
    LET own(c) == ToSet(Chain(part.fat, c))
        stray == own(part.fat[0])
        ps == Places(part.fat, image.data)
        e(x) == EntryAt(part.fat, image.data, x)
        owned == own(Root) \cup UNION {own(e(x).cluster) : x \in ps}
    IN /\ \A x, y \in ps : x # y => own(e(x).cluster) \cap own(e(y).cluster) = {}
       /\ \A x \in ps : own(e(x).cluster) \cap (own(Root) \cup stray) = {}
       /\ owned \cup stray = {c \in Clusters : part.fat[c] # Free}

\* An entry of size 0 owns no cluster and any other owns exactly the clusters
\* its size needs (fsck and the Pi bootloader reject anything else,
\* fat.rs:575-577).
SizeMatchesChain ==
  Settled =>
    \A x \in Places(part.fat, image.data) :
      LET e == EntryAt(part.fat, image.data, x)
      IN \/ e.dir
         \/ Len(Chain(part.fat, e.cluster)) = e.size
         \/ e.cluster = 0                     \* Struck

\* Between calls the disk's two tables and its free count say what the
\* partition in memory says (a stale count made the bootloader refuse the
\* partition, fat.rs:231-235).
DiskAgrees ==
  Settled /\ calls > 0 =>
    /\ image.fats = <<part.fat, part.fat>>
    /\ image.free = Cardinality({c \in Clusters : part.fat[c] = Free})
    /\ image.data = part.data

\* add_entry creates "a new directory cluster if the current one is full"
\* (fat.rs:433-435): what was written is found again.
EveryFileIsFound ==
  Settled => \A q \in Paths : OnDisk(1, q) = expected[q] \/ Struck(1, q)
=============================================================================
