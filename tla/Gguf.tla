-------------------------------- MODULE Gguf --------------------------------
(***************************************************************************)
(* The GGUF header reader and what the guardrail computes from it          *)
(* (gguf.rs, guard.rs).  A file is a sequence of fields, one position      *)
(* each; a truncated file is a prefix of one.                              *)
(***************************************************************************)
EXTENDS Integers, Sequences, FiniteSets

CONSTANTS
  Materialize,   \* arrays with more elements are skipped, not kept (4096)
  ArrayCap,      \* skipped arrays may have no more elements (100 000 000)
  StringCap,     \* strings may be no longer (4 MiB)
  CountCap,      \* tensors or pairs a header may have (100 000)
  Depth,         \* nesting at which skipping gives up (4)
  NCtx, NBatch, UsableRam   \* the configuration and the budget of a load

ASSUME GgufAssumption ==
  {Materialize, ArrayCap, StringCap, CountCap, Depth} \subseteq Nat /\ Depth >= 1

Magic == 7
Err == [ok |-> FALSE, pos |-> 0, kept |-> FALSE, val |-> 0]

Kept(pos, val) == [ok |-> TRUE, pos |-> pos, kept |-> TRUE, val |-> val]

\* Reader: pos fields are consumed.  exact fails at the end of the file.
Exact(f, pos) ==
  IF pos >= Len(f) THEN Err
  ELSE Kept(pos + 1, f[pos + 1])
\* skip copies up to n fields to nowhere and does not notice the end.
Skip(pos, n) == [ok |-> TRUE, pos |-> pos + n, kept |-> FALSE, val |-> 0]
ReadString(f, pos) ==
  LET len == Exact(f, pos) IN
  IF ~len.ok THEN Err ELSE IF len.val > StringCap THEN Err
  ELSE Exact(f, len.pos)

Types == {"u", "s", "a"}   \* a number, a string, an array

\* n values of type vt one after the other; read[p][vt] reads the one at p.
Elements(read, pos, vt, n) ==
  LET Further(r) == IF r.ok /\ vt \in Types THEN read[r.pos][vt] ELSE Err
      at[k \in 0..n] == IF k = 0 THEN Skip(pos, 0) ELSE Further(at[k - 1])
  IN at[n]
SkipMany(read, pos, vt, n) ==
  LET last == Elements(read, pos, vt, n) IN IF last.ok THEN Skip(last.pos, 0) ELSE Err
\* A kept array is the text of its elements.
ReadMany(read, pos, vt, n) ==
  LET last == Elements(read, pos, vt, n)
  IN IF last.ok THEN Kept(last.pos, "joined") ELSE Err

\* skip_value; inner skips the elements of an array.
SkipValue(f, inner, pos, vt) ==
  CASE vt = "u" -> Skip(pos, 1)
    [] vt = "s" -> LET len == Exact(f, pos) IN
                   IF ~len.ok THEN Err ELSE IF len.val > StringCap THEN Err
                   ELSE Skip(len.pos, 1)
    [] vt = "a" -> LET evt == Exact(f, pos)
                       count == Exact(f, evt.pos)
                   IN IF ~evt.ok \/ ~count.ok THEN Err
                      ELSE IF count.val > ArrayCap THEN Err
                      ELSE SkipMany(inner, count.pos, evt.val, count.val)
    [] OTHER -> Err
Hopeless == [p \in Nat |-> [t \in Types |-> Err]]
SkipAround(f, inner) == [p \in Nat |-> [t \in Types |-> SkipValue(f, inner, p, t)]]
\* The values of arrays nested to this depth, too deep ones included.
Skipping(f, depth) ==
  LET left[n \in 0..(Depth + 1)] ==
        IF n = 0 THEN Hopeless ELSE SkipAround(f, left[n - 1])
  IN left[IF depth > Depth THEN 0 ELSE Depth + 1 - depth]

\* read_value; inner reads the elements of an array that is kept.
ReadValue(f, inner, pos, vt, depth) ==
  CASE vt = "u" -> Exact(f, pos)
    [] vt = "s" -> ReadString(f, pos)
    [] vt = "a" -> LET evt == Exact(f, pos)
                       count == Exact(f, evt.pos)
                   IN IF ~evt.ok \/ ~count.ok THEN Err
                      ELSE IF count.val > Materialize
                           THEN SkipMany(Skipping(f, depth + 1), count.pos, evt.val, count.val)
                      ELSE ReadMany(inner, count.pos, evt.val, count.val)
    [] OTHER -> Err
ReadAround(f, inner, depth) ==
  [p \in Nat |-> [t \in Types |-> ReadValue(f, inner, p, t, depth)]]
\* read_value does not look at the depth, which the number of fields bounds.
Reading(f) ==
  LET left[n \in 0..Len(f)] ==
        IF n = 0 THEN Hopeless ELSE ReadAround(f, left[n - 1], Len(f) - n)
  IN left[Len(f)]

\* n key-value pairs; a later pair with the same key wins, unless it is skipped.
NoPairs == [ok |-> FALSE, pos |-> 0, kv |-> <<>>]
AddPair(kv, key, v) ==
  [k \in DOMAIN kv \cup {key} |->
     IF k = key /\ (v.kept \/ key \notin DOMAIN kv) THEN v.val ELSE kv[k]]
ReadPair(f, r) ==
  LET Add(key, v) ==
        IF v.ok THEN [ok |-> TRUE, pos |-> v.pos, kv |-> AddPair(r.kv, key.val, v)]
        ELSE NoPairs
      Value(key, vt) ==
        IF vt.ok /\ vt.val \in Types THEN Add(key, Reading(f)[vt.pos][vt.val]) ELSE NoPairs
      Pair(key) == IF key.ok THEN Value(key, Exact(f, key.pos)) ELSE NoPairs
  IN Pair(ReadString(f, r.pos))
ReadKvs(f, pos, n) ==
  LET Further(r) == IF r.ok THEN ReadPair(f, r) ELSE NoPairs
      at[k \in 0..n] ==
        IF k = 0 THEN [ok |-> TRUE, pos |-> pos, kv |-> <<>>] ELSE Further(at[k - 1])
  IN at[n]

\* n tensor records, each a name, its dimensions, a type and an offset; the
\* result's need is the highest end of a tensor in the data.
ReadDims(f, pos, n) ==
  LET Times(r, d) == IF r.ok /\ d.ok THEN Kept(d.pos, r.val * d.val) ELSE Err
      Further(r) == Times(r, Exact(f, r.pos))
      at[k \in 0..n] == IF k = 0 THEN Kept(pos, 1) ELSE Further(at[k - 1])
  IN at[n]
NoTensors == [ok |-> FALSE, pos |-> 0, need |-> 0]
ReadTensor(f, r) ==
  LET name == ReadString(f, r.pos)
      ndims == Exact(f, name.pos)
      dims == ReadDims(f, ndims.pos, ndims.val)
      dtype == Exact(f, dims.pos)
      offset == Exact(f, dtype.pos)
      end == offset.val + (IF dims.val = 0 THEN 1 ELSE dims.val)
  IN IF ~name.ok \/ ~ndims.ok THEN NoTensors ELSE IF ndims.val > 4 THEN NoTensors
     ELSE IF ~dims.ok \/ ~dtype.ok \/ ~offset.ok THEN NoTensors
     ELSE [ok |-> TRUE, pos |-> offset.pos, need |-> IF end > r.need THEN end ELSE r.need]
ReadTensors(f, pos, n) ==
  LET Further(r) == IF r.ok THEN ReadTensor(f, r) ELSE NoTensors
      at[k \in 0..n] ==
        IF k = 0 THEN [ok |-> TRUE, pos |-> pos, need |-> 0] ELSE Further(at[k - 1])
  IN at[n]

\* Fault: the tensor records are not read.
FromKvsOnly(f, fileSize) ==
  LET head == [i \in 1..4 |-> Exact(f, i - 1)]
      kvs == ReadKvs(f, 4, head[4].val)
  IN IF \E i \in 1..4 : ~head[i].ok THEN Err
     ELSE IF head[1].val # Magic \/ head[2].val \notin {2, 3} THEN Err
     ELSE IF \E i \in 3..4 : head[i].val > CountCap THEN Err ELSE IF ~kvs.ok THEN Err
     ELSE [ok |-> TRUE, kv |-> kvs.kv, end |-> kvs.pos, need |-> 0]

\* from_reader.  fileSize is 0: from_file fills it in after the header is read,
\* so the last check never looks at the length of the file.
FromReader(f, fileSize) ==
  LET head == [i \in 1..4 |-> Exact(f, i - 1)]   \* magic, version, tensors, pairs
      Whole(kvs, ts) ==
        IF ~ts.ok \/ (ts.pos + ts.need > fileSize /\ fileSize > 0) THEN Err
        ELSE [ok |-> TRUE, kv |-> kvs.kv, end |-> ts.pos, need |-> ts.need]
      Tensors(kvs) ==
        IF kvs.ok THEN Whole(kvs, ReadTensors(f, kvs.pos, head[3].val)) ELSE Err
  IN IF \E i \in 1..4 : ~head[i].ok THEN Err
     ELSE IF head[1].val # Magic \/ head[2].val \notin {2, 3} THEN Err
     ELSE IF \E i \in 3..4 : head[i].val > CountCap THEN Err
     ELSE Tensors(ReadKvs(f, 4, head[4].val))
FromFile(f) == FromReader(f, 0)

\* shape: what the guardrail needs, defaulted; three keys must be there.
Lookup(kv, key, default) == IF key \in DOMAIN kv THEN kv[key] ELSE default
AtLeast1(n) == IF n < 1 THEN 1 ELSE n
HasShape(kv) ==
  {"architecture", "block_count", "embedding_length"} \subseteq DOMAIN kv
Shape(kv) ==
  LET embd == kv["embedding_length"]
      head == AtLeast1(Lookup(kv, "head_count", 1))
  IN [layers |-> kv["block_count"], embd |-> embd,
      headKv |-> AtLeast1(Lookup(kv, "head_count_kv", head)),
      headDim |-> AtLeast1(Lookup(kv, "key_length", embd \div head)),
      ctxTrain |-> Lookup(kv, "context_length", 4096),
      vocab |-> Lookup(kv, "vocab_size", 32000)]

\* estimate_ram: weights, KV cache, compute buffers and 15 % on top.
BytesPer16Elems == [F16 |-> 32, Q8_0 |-> 17, Q4_0 |-> 9]
EstimateRam(shape, weights, nCtx, nBatch, quant) ==
  LET batch == IF nBatch > 4096 THEN 4096 ELSE AtLeast1(nBatch)
      elems == 2 * shape.layers * shape.headKv * shape.headDim * AtLeast1(nCtx)
      kv == (elems * BytesPer16Elems[quant] + 15) \div 16
      compute == 4 * AtLeast1(shape.vocab) * batch
                 + 36 * batch * AtLeast1(shape.embd) + shape.layers * 96 * 1024
      base == weights + kv + compute
  IN base + (base \div 100) * 15

\* The guardrail of a load with nothing else resident.  n_ctx is clamped to
\* what the model was trained for, which panics when that is 0 (Unwind in
\* ModelManager).
Admits(kv, weights) ==
  /\ HasShape(kv) /\ Shape(kv).ctxTrain >= 1
  /\ LET shape == Shape(kv)
         nCtx == IF NCtx > shape.ctxTrain THEN shape.ctxTrain ELSE AtLeast1(NCtx)
     IN EstimateRam(shape, weights, nCtx, NBatch, "F16") <= UsableRam
=============================================================================
