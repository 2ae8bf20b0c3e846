----------------------------- MODULE FatWriter -----------------------------
(***************************************************************************)
(* The installer's FAT32 writer (installer/src/fat.rs): cluster chains,    *)
(* directories with long-name slots, creation and replacement of files.    *)
(*                                                                         *)
(* A call computes on an opened partition p, whose table is in memory      *)
(* (p.fat) and whose clusters are the image's; every write to the image is *)
(* also appended to p.log, so that the image can be looked at between any  *)
(* two writes.  A file's size is counted in clusters, its bytes are tags.  *)
(***************************************************************************)
EXTENDS Integers, Sequences, FiniteSetsExt, SequencesExt

CONSTANTS
  MaxCluster,      \* the data clusters are 2..MaxCluster
  SlotsPer,  \* 32-byte directory slots in a cluster
  Names,     \* names of files and directories
  Short,     \* Short[n]: the 8.3 name ShortName::encode gives n
  Lfn,       \* Lfn[n]: how many long-name slots n takes
  Scrawl     \* what cells at the end of a table say with file content over them

Clusters == 2..MaxCluster
Root == 2
Free == 0
Eoc == MaxCluster + 1     \* any entry that ends a chain

ASSUME GeometryAssumption ==
  /\ MaxCluster \in Nat /\ MaxCluster >= 3 /\ SlotsPer \in Nat
  /\ \A n \in Names : Lfn[n] \in Nat /\ Lfn[n] + 1 \in 1..SlotsPer
  /\ DOMAIN Scrawl \subseteq Clusters
  /\ \A c \in DOMAIN Scrawl : Scrawl[c] \in {Free} \cup Clusters \cup {Eoc}

Zero == [kind |-> "zero"]
Long == [kind |-> "lfn"]
Entry(short, c, size, dir) ==
  [kind |-> "entry", short |-> short, cluster |-> c, size |-> size, dir |-> dir]
Blank == [j \in 1..SlotsPer |-> Zero]
Chunk(tag, i) == [j \in 1..SlotsPer |-> [kind |-> "data", tag |-> tag, part |-> i]]

\* The chain that starts at c: nothing for 0, as read_chain has it.
Chain(fat, c) ==
  LET walk[k \in 1..MaxCluster] ==
        IF k = 1 THEN <<c>>
        ELSE LET s == walk[k - 1] IN
             IF fat[s[Len(s)]] \in Clusters THEN Append(s, fat[s[Len(s)]]) ELSE s
  IN IF c \in Clusters THEN walk[MaxCluster] ELSE <<>>

\* A write to a cluster.  cluster_offset(0) wraps in a release build, to two
\* clusters before the data area: the block goes over the end of table 2.  (A
\* debug build panics there, which is a kill before this write.)
Astray(val) == [kind |-> "astray", at |-> 0, val |-> val]
Put(p, c, val) ==
  IF c \in Clusters
  THEN [p EXCEPT !.data[c] = val,
                 !.log = Append(@, [kind |-> "cluster", at |-> c, val |-> val])]
  ELSE [p EXCEPT !.log = Append(@, Astray(val))]

\* Fault: the cluster after the last one used is taken without a look at the
\* table.
AllocUnchecked(p) ==
  LET c == IF p.hint \in Clusters THEN p.hint ELSE Root + 1
  IN Put([p EXCEPT !.fat[c] = Eoc, !.hint = c + 1, !.got = c], c, Blank)

\* alloc_cluster: the first free cluster from the hint on, else from the start,
\* marked as an end and zeroed.
Alloc(p) ==
  LET free == {c \in Clusters : p.fat[c] = Free}
      ahead == {c \in free : c >= p.hint}
      c == Min(IF ahead # {} THEN ahead ELSE free)
  IN IF free = {} THEN [p EXCEPT !.ok = FALSE]
     ELSE Put([p EXCEPT !.fat[c] = Eoc, !.hint = c + 1, !.got = c], c, Blank)

\* Fault: only the first cluster of a chain is given back.
FreeFirst(fat, c) == [x \in DOMAIN fat |-> IF x = c THEN Free ELSE fat[x]]

FreeChain(fat, c) ==
  [x \in DOMAIN fat |-> IF x \in ToSet(Chain(fat, c)) THEN Free ELSE fat[x]]

\* One more cluster for the chain g.cs: the next one it has, or a new one.
Grow(g) ==
  LET c == Last(g.cs)
      a == Alloc(g.p)
  IN IF ~g.p.ok THEN g
     ELSE IF g.p.fat[c] \in Clusters THEN [g EXCEPT !.cs = Append(@, g.p.fat[c])]
     ELSE IF a.ok THEN [p |-> [a EXCEPT !.fat[c] = a.got], cs |-> Append(g.cs, a.got)]
     ELSE [g EXCEPT !.p = a]

\* The chain at start with n clusters.
Reserve(p, start, n) ==
  LET grown[k \in 1..n] ==
        IF k = 1 THEN [p |-> p, cs |-> <<start>>] ELSE Grow(grown[k - 1])
  IN grown[n]

\* What follows cluster c in its chain is freed, and c ends it.
CutAfter(p, c) == [p EXCEPT !.fat = [FreeChain(@, @[c]) EXCEPT ![c] = Eoc]]

\* The blocks written to the clusters cs one after the other.
PutAll(p, cs, vals) ==
  LET put[k \in 0..Len(vals)] ==
        IF k = 0 THEN p ELSE Put(put[k - 1], cs[k], vals[k])
  IN put[Len(vals)]

Fill(g, vals) ==
  IF ~g.p.ok THEN g.p ELSE PutAll(CutAfter(g.p, Last(g.cs)), g.cs, vals)

\* write_chain: reuse the chain at start, extend it, free what is left of it,
\* and only then write the clusters.
WriteChain(p, start, vals) == Fill(Reserve(p, start, Len(vals)), vals)

\* A directory as one sequence of slots, and back.
DirSlots(fat, data, d) ==
  LET ch == Chain(fat, d) IN
  [k \in 1..(Len(ch) * SlotsPer) |->
     data[ch[(k - 1) \div SlotsPer + 1]][((k - 1) % SlotsPer) + 1]]
WriteDir(p, d, slots) ==
  WriteChain(p, d, [i \in 1..(Len(slots) \div SlotsPer) |->
                      [j \in 1..SlotsPer |-> slots[(i - 1) * SlotsPer + j]]])

\* Where the directory ends: every scan stops at the first zero slot.
EndOf(slots) == Min({k \in DOMAIN slots : slots[k] = Zero} \cup {Len(slots) + 1})

\* The slot of the entry that matches name n, 0 if there is none.
Lookup(slots, n) ==
  LET hits == {k \in 1..(EndOf(slots) - 1) :
                 slots[k].kind = "entry" /\ slots[k].short = Short[n]}
  IN IF hits = {} THEN 0 ELSE Min(hits)

\* The slots t with the entry and its long-name slots put at slot at.
Splice(t, at, total, e) ==
  [k \in DOMAIN t |-> IF k = at + total - 1 THEN e
                      ELSE IF k \in at..(at + total - 2) THEN Long ELSE t[k]]

\* One more cluster, which the chain of d is joined to by its last one.
Join(p, d) ==
  LET a == Alloc(p)
  IN IF a.ok THEN [a EXCEPT !.fat[Last(Chain(p.fat, d))] = a.got] ELSE a

\* add_entry at the end of the directory's slots s, in a new cluster if what
\* is left of them is too short or not all zero.
PutEntry(p, d, s, total, e) ==
  LET joined == Join(p, d)
  IN IF /\ EndOf(s) + total - 1 <= Len(s)
        /\ \A k \in EndOf(s)..Len(s) : s[k] = Zero
     THEN WriteDir(p, d, Splice(s, EndOf(s), total, e))
     ELSE IF ~joined.ok THEN joined
     ELSE WriteDir(WriteDir(joined, d, s \o Blank), d,
                   Splice(s \o Blank, Len(s) + 1, total, e))
AddEntry(p, d, n, c, size, dir) ==
  PutEntry(p, d, DirSlots(p.fat, p.data, d), Lfn[n] + 1,
           Entry(Short[n], c, size, dir))

\* The directory n in d, created when it is not found; p.got is its cluster.
ChildDir(p, d, n) ==
  LET s == DirSlots(p.fat, p.data, d)
      k == Lookup(s, n)
      a == Alloc(p)
      up == IF d = Root THEN 0 ELSE d
      dots == [Blank EXCEPT ![1] = Entry(".", a.got, 0, TRUE),
                            ![2] = Entry("..", up, 0, TRUE)]
  IN IF k # 0 THEN IF s[k].dir THEN [p EXCEPT !.got = s[k].cluster]
                   ELSE [p EXCEPT !.ok = FALSE]
     ELSE IF ~a.ok THEN a
     ELSE [AddEntry(Put(a, a.got, dots), d, n, a.got, 0, TRUE) EXCEPT !.got = a.got]

ResolveDir(p, dirs) ==
  LET Down(q, n) == IF q.ok THEN ChildDir(q, q.got, n) ELSE q
      at[k \in 0..Len(dirs)] ==
        IF k = 0 THEN [p EXCEPT !.hint = 2, !.got = Root] ELSE Down(at[k - 1], dirs[k])
  IN at[Len(dirs)]

\* Fault: only the size field is patched.
PatchSize(p, d, k, e) ==
  WriteDir(p, d, [DirSlots(p.fat, p.data, d) EXCEPT ![k].size = e.size])

\* Rewrite the entry at slot k of directory d.
Patch(p, d, k, e) ==
  WriteDir(p, d, [DirSlots(p.fat, p.data, d) EXCEPT ![k] = e])

\* Fault: the free count is left as mkdosfs wrote it.
FlushTables(p) ==
  IF ~p.ok THEN p
  ELSE [p EXCEPT !.log = @ \o << [kind |-> "fat", at |-> 1, val |-> p.fat],
                                 [kind |-> "fat", at |-> 2, val |-> p.fat] >>]

\* Both tables, then the free count of the FSInfo sector.
FlushFat(p) ==
  IF ~p.ok THEN p
  ELSE [p EXCEPT !.log = @ \o
          << [kind |-> "fat", at |-> 1, val |-> p.fat],
             [kind |-> "fat", at |-> 2, val |-> p.fat],
             [kind |-> "free", at |-> 0,
              val |-> Cardinality({c \in Clusters : p.fat[c] = Free})] >>]

\* write_file over the entry e at slot k, with nothing: the entry is rewritten
\* twice, first without its size and then without its cluster.
Truncate(p, d, k, e) ==
  Patch(Patch([p EXCEPT !.fat = FreeChain(@, e.cluster)], d, k, [e EXCEPT !.size = 0]),
        d, k, [e EXCEPT !.size = 0, !.cluster = 0])

\* The same with clusters: its chain is rewritten, then its size.
Replace(p, d, k, e, vals) ==
  LET w == WriteChain(p, e.cluster, vals)
  IN IF w.ok THEN Patch(w, d, k, [e EXCEPT !.size = Len(vals)]) ELSE w

\* A new file: its clusters first, then its entry.
Create(p, d, n, vals) ==
  LET a == Alloc(p)
      w == WriteChain(a, a.got, vals)
  IN IF vals = <<>> THEN AddEntry(p, d, n, 0, 0, FALSE)
     ELSE IF ~a.ok THEN a
     ELSE IF w.ok THEN AddEntry(w, d, n, a.got, Len(vals), FALSE) ELSE w

\* write_file in directory p.got, whose slots are s; k is the name's slot.
WriteEntry(p, s, k, n, vals) ==
  IF ~p.ok THEN p
  ELSE IF k = 0 THEN Create(p, p.got, n, vals)
  ELSE IF s[k].dir THEN [p EXCEPT !.ok = FALSE]
  ELSE IF vals = <<>> THEN Truncate(p, p.got, k, s[k])
  ELSE Replace(p, p.got, k, s[k], vals)
WriteNamed(p, s, n, vals) == WriteEntry(p, s, Lookup(s, n), n, vals)
WriteUnder(p, n, vals) == WriteNamed(p, DirSlots(p.fat, p.data, p.got), n, vals)

\* write_file: content is a tag and a number of clusters.
WriteFile(p, path, content) ==
  FlushFat(WriteUnder(ResolveDir(p, path.dirs), path.name,
                      [i \in 1..content.size |-> Chunk(content.tag, i)]))

\* find_dir: a directory's first cluster, 0 if it is not there.
FindDir(fat, data, dirs) ==
  LET Child(s, k) == IF k = 0 THEN 0 ELSE IF s[k].dir THEN s[k].cluster ELSE 0
      Named(s, n) == Child(s, Lookup(s, n))
      at[k \in 0..Len(dirs)] ==
        IF k = 0 THEN Root ELSE Named(DirSlots(fat, data, at[k - 1]), dirs[k])
  IN at[Len(dirs)]

\* read_file: the chain is cut to the size in the entry.
Absent == <<[j \in 1..SlotsPer |-> Long]>>   \* no content is that
ReadFile(fat, data, path) ==
  LET d == FindDir(fat, data, path.dirs)
      s == DirSlots(fat, data, d)
      k == Lookup(s, path.name)
      ch == Chain(fat, s[k].cluster)
      n == IF s[k].size < Len(ch) THEN s[k].size ELSE Len(ch)
  IN IF d = 0 \/ k = 0 THEN Absent
     ELSE IF s[k].dir THEN Absent ELSE [i \in 1..n |-> data[ch[i]]]

\* One write of the log reaches the image.
Scrawled(fat) ==
  [c \in DOMAIN fat |-> IF c \in DOMAIN Scrawl THEN Scrawl[c] ELSE fat[c]]
Land(image, w) ==
  CASE w.kind = "cluster" -> [image EXCEPT !.data[w.at] = w.val]
    [] w.kind = "fat"     -> [image EXCEPT !.fats[w.at] = w.val]
    [] w.kind = "free"    -> [image EXCEPT !.free = w.val]
    [] w.kind = "astray"  -> [image EXCEPT !.fats[2] = Scrawled(image.fats[2])]

\* open_boot_partition: the table is read twice into the same buffer, so it
\* is the second copy that is kept.
OpenPartition(image) ==
  [fat |-> image.fats[2], data |-> image.data, log |-> <<>>,
   hint |-> 2, got |-> 0, ok |-> TRUE]
=============================================================================
