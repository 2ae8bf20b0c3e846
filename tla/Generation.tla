----------------------------- MODULE Generation -----------------------------
(***************************************************************************)
(* One resident model's backend handle (llama.rs, axcl.rs) over the        *)
(* requests run_generation (api.rs) gives it one after the other: the      *)
(* context is kept between requests, and a request prefills only what its  *)
(* prompt does not share with the tokens of the request before.            *)
(* llama.cpp is external: a decode appends the batch to the KV cells or    *)
(* fails, and the sampler may pick any token.                              *)
(***************************************************************************)
EXTENDS Naturals, Sequences, SequencesExt, FiniteSetsExt

CONSTANTS
  Kinds,      \* of handle: "llama", "axcl", "npu" (axcl with npu_layer)
  Prompts,    \* tokenized prompts; an empty text has no token in a vocabulary
              \* without a BOS token
  Tokens,     \* tokens the sampler may pick, besides the end token
  Piece,      \* Piece[t]: the bytes of t: "a", "b"; "L" leads a character, "c" ends it
  StopSets,   \* the stop lists of requests, as sets of byte strings
  MaxTokens,  \* the max_tokens values of requests
  NCtx, NBatch

Bytes == {"a", "b", "L", "c"}
Vocabulary == Tokens \cup UNION {ToSet(p) : p \in Prompts}

\* A whole character is "a", "b" or an "L" with its "c".
Valid(s) == \A i \in DOMAIN s : /\ s[i] = "L" => i < Len(s) /\ s[i + 1] = "c"
                                /\ s[i] = "c" => i > 1 /\ s[i - 1] = "L"

ASSUME GenerationAssumption ==
  /\ NCtx \in Nat \ {0} /\ NBatch \in Nat \ {0} /\ MaxTokens \subseteq Nat
  /\ Prompts \subseteq Seq(Vocabulary)
  /\ Piece \in [Tokens -> Seq(Bytes)]
  /\ \A stops \in StopSets : /\ IsFiniteSet(stops) /\ stops \subseteq Seq(Bytes)
                              /\ \A stop \in stops : Valid(stop)   \* a String is UTF-8

VARIABLES
  kind,       \* which backend the handle is
  kv,         \* tokens in the cells of sequence 0, by position
  logits,     \* the cells when the logits to sample from were computed, which is
              \* at the last decode: of whichever request
  last,       \* last_tokens
  phase, req,
  at,         \* prompt tokens that are in the cells
  batch,      \* tokens in the batch
  gen,        \* tokens sampled for the request
  pending,    \* their bytes that are not emitted yet
  out,        \* the text given to on_token
  reply       \* of the last request

vars == <<kind, kv, logits, last, phase, req, at, batch, gen, pending, out, reply>>
text == <<gen, pending, out>>

NoReply == [status |-> 0, why |-> "none", output |-> <<>>]
NoLogits == <<"none computed">>   \* sampling then reads a null pointer
NoReq == [prompt |-> <<>>, stop |-> {}, max |-> 1]

Init ==
  /\ kind \in Kinds
  /\ kv = <<>> /\ logits = NoLogits /\ last = <<>>
  /\ phase = "idle" /\ req = NoReq /\ at = 0 /\ batch = <<>>
  /\ gen = <<>> /\ pending = <<>> /\ out = <<>> /\ reply = NoReply

-----------------------------------------------------------------------------
(* Text. *)

\* emit_utf8 emits the longest valid prefix of pending.
Utf8Prefix(s) == SubSeq(s, 1, Max({n \in 0..Len(s) : Valid(SubSeq(s, 1, n))}))

\* Fault: what could not be emitted is cleared with the rest.
KeptNone(bytes, emitted) == <<>>
\* And keeps what follows it, which need not be the beginning of a character.
Kept(bytes, emitted) == SubSeq(bytes, Len(emitted) + 1, Len(bytes))

FindsAt(s, stop, i) == i + Len(stop) - 1 <= Len(s) /\ SubSeq(s, i, i + Len(stop) - 1) = stop
Finds(s, stop) == \E i \in DOMAIN s : FindsAt(s, stop, i)
Fires(s, stops) == \E stop \in stops : stop # <<>> /\ Finds(s, stop)

apply_stops(s, stops) ==
  LET hits == {i \in DOMAIN s : \E stop \in stops : stop # <<>> /\ FindsAt(s, stop, i)}
  IN IF hits = {} THEN s ELSE SubSeq(s, 1, Min(hits) - 1)

\* Fault: only the new piece is searched.
ScanPiece(before, stops) == before
\* The search starts stop_max - 1 bytes before the new piece.
ScanFrom(before, stops) ==
  LET stop_max == Max({Len(stop) : stop \in stops} \cup {1})
  IN IF before > stop_max - 1 THEN before - (stop_max - 1) ELSE 0

\* The bytes from there on, from the next character boundary.
View(text_, before, stops) ==
  LET from == ScanFrom(before, stops)
      start == IF from < Len(text_) /\ text_[from + 1] = "c" THEN from + 1 ELSE from
  IN SubSeq(text_, start + 1, Len(text_))

-----------------------------------------------------------------------------
(* A request. *)

\* The handle's lock is given back and the client gets its answer.
Answer(status, why, output) ==
  /\ phase' = "idle" /\ reply' = [status |-> status, why |-> why, output |-> output]

\* The guard is acquired; the context is created on first use.
Request(prompt, stop, max) ==
  /\ phase = "idle" /\ phase' = "trim"
  /\ req' = [prompt |-> prompt, stop |-> stop, max |-> max]
  /\ at' = 0 /\ batch' = <<>> /\ gen' = <<>> /\ pending' = <<>> /\ out' = <<>>
  /\ reply' = NoReply
  /\ UNCHANGED <<kind, kv, logits, last>>

\* No context, no tokens, or more tokens than the context holds.
Refuse ==
  /\ phase = "trim"
  /\ \/ Answer(502, "setup", <<>>)
     \/ Len(req.prompt) > NCtx /\ Answer(400, "overflow", <<>>)
  /\ UNCHANGED <<kind, kv, logits, last, req, at, batch, text>>

Least(a, b) == IF a < b THEN a ELSE b

\* Fault: an identical prompt is reused whole.
CommonWhole(old, prompt) == Len(LongestCommonPrefix({old, prompt}))
\* Tokens shared with the last request; one at least, if there is any, is left
\* to prefill.
Common(old, prompt) ==
  IF prompt = <<>> THEN 0
  ELSE Least(Len(LongestCommonPrefix({old, prompt})), Len(prompt) - 1)

\* The cells after the shared prefix are removed, or all of them where there
\* is nothing to share or the memory cannot be trimmed (the NPU's never can).
Trim ==
  /\ phase = "trim" /\ Len(req.prompt) <= NCtx
  /\ \E common \in {0} \cup (IF kind = "npu" THEN {} ELSE {Common(last, req.prompt)}) :
       /\ kv' = SubSeq(kv, 1, common) /\ last' = SubSeq(last, 1, common)
       /\ at' = common
  /\ phase' = "prefill"
  /\ UNCHANGED <<kind, logits, req, batch, text, reply>>

\* axcl.rs, before the first chunk: no batch or no sampler; the cells stay.
AllocFails ==
  /\ kind # "llama" /\ phase = "prefill" /\ at = Len(last) /\ Answer(502, "setup", <<>>)
  /\ UNCHANGED <<kind, kv, logits, last, req, at, batch, text>>

\* Part of a batch may have reached the cells when a decode fails.
DecodeFails(b) ==
  /\ b # <<>>
  /\ \E n \in 0..Len(b) : kv' = kv \o SubSeq(b, 1, n)
  /\ phase' = "failed" /\ UNCHANGED <<logits, last>>

\* Nothing to decode computes no logits.
Decodes(b) ==
  /\ Len(kv) + Len(b) <= NCtx
  /\ kv' = kv \o b /\ logits' = IF b = <<>> THEN logits ELSE kv'

\* The next n_batch tokens of the prompt; after the last ones the prompt is
\* recorded.  llama.rs does not clear the batch after a decode, so the chunk
\* after a full one finds no space in it.
Prefill ==
  /\ phase = "prefill"
  /\ LET end == Least(Len(req.prompt), at + NBatch)
         b == batch \o SubSeq(req.prompt, at + 1, end)
     IN \/ /\ Len(b) <= NBatch /\ Decodes(b) /\ at' = end
           /\ batch' = IF kind = "llama" THEN b ELSE <<>>
           /\ IF end = Len(req.prompt)
              THEN phase' = "sample" /\ last' = last \o SubSeq(req.prompt, Len(last) + 1, end)
              ELSE UNCHANGED <<phase, last>>
           /\ UNCHANGED <<kind, req, text, reply>>
        \/ Len(b) <= NBatch /\ DecodeFails(b) /\ UNCHANGED <<kind, req, at, batch, text, reply>>
        \/ /\ Len(b) > NBatch /\ phase' = "failed" /\ reply' = [NoReply EXCEPT !.why = "batch"]
           /\ UNCHANGED <<kind, kv, logits, last, req, at, batch, text>>

Done(why) == Answer(200, why, apply_stops(out', req.stop))

\* The end token: whatever part of a character is pending is dropped.
SampleEnd ==
  /\ phase = "sample" /\ UNCHANGED out /\ Done("stop")
  /\ UNCHANGED <<kind, kv, logits, last, req, at, batch, gen, pending>>

\* A token: its complete characters are emitted, and the request ends where a
\* stop string shows or max_tokens is reached.
Sample(t) ==
  LET bytes == pending \o Piece[t]
      emitted == Utf8Prefix(bytes)
  IN /\ phase = "sample"
     /\ gen' = Append(gen, t) /\ out' = out \o emitted
     /\ pending' = Kept(bytes, emitted)
     /\ IF Fires(View(out', Len(out), req.stop), req.stop) THEN Done("stop")
        ELSE IF Len(gen') >= Max({req.max, 1}) THEN Done("length")
        ELSE phase' = "feed" /\ UNCHANGED reply
     /\ UNCHANGED <<kind, kv, logits, last, req, at, batch>>

\* The token goes back into the context; at its end that cannot work.
Feed ==
  /\ phase = "feed" /\ batch' = <<Last(gen)>>
  /\ \/ Decodes(batch') /\ last' = Append(last, Last(gen)) /\ phase' = "sample"
     \/ DecodeFails(batch')
  /\ UNCHANGED <<kind, req, at, text, reply>>

\* Fault: the history is forgotten, the cells are not.
CleanUpHalf ==
  /\ phase = "failed" /\ last' = <<>>
  /\ Answer(502, IF reply.why = "batch" THEN "batch" ELSE "decode", <<>>)
  /\ UNCHANGED <<kind, kv, logits, req, at, batch, text>>

\* After an error nothing is known of the cells.
CleanUp ==
  /\ phase = "failed" /\ kv' = <<>> /\ last' = <<>>
  /\ Answer(502, IF reply.why = "batch" THEN "batch" ELSE "decode", <<>>)
  /\ UNCHANGED <<kind, logits, req, at, batch, text>>

Next ==
  \/ \E p \in Prompts, s \in StopSets, n \in MaxTokens : Request(p, s, n)
  \/ Refuse \/ Trim \/ AllocFails \/ Prefill
  \/ SampleEnd \/ (\E t \in Tokens : Sample(t)) \/ Feed \/ CleanUp

Spec == Init /\ [][Next]_vars

-----------------------------------------------------------------------------
\* A token is sampled from logits computed over the request's own text: its
\* prompt and the tokens generated for it, and nothing another request left in
\* the cells or in the logits of an identical prompt (llama.rs:264-285).  The
\* first token of an empty prompt is the exception: nothing was decoded for it.
SamplesFromOwnText ==
  phase = "sample" /\ req.prompt \o gen # <<>> => logits = req.prompt \o gen

\* "Force at least one prefill step so the sampler reads fresh logits"
\* (llama.rs:270-271): whatever is sampled from was computed for the request.
LogitsAreFresh == phase = "sample" => logits = req.prompt \o gen

\* Between requests last_tokens is exactly what is in the cells, however the
\* request ended; the next prefix comparison relies on it.
HistoryIsTheCells == phase = "idle" => last = kv

\* A finished answer is the generated text up to its first stop string, and
\* only an answer that reports "stop" was cut: the tail scan misses no stop
\* string, across tokens, inside a token or after a split character.
StopsAreFound ==
  reply.status = 200 =>
    /\ IsPrefix(reply.output, out) /\ ~Fires(reply.output, req.stop)
    /\ reply.why = "length" => reply.output = out

\* However tokens split the characters, what on_token has been given is at every
\* moment the longest piece of the text generated that ends with a character,
\* and the rest is still held: no byte is lost on the way, none comes twice.
NoByteIsLost ==
  LET bytes == FlattenSeq([i \in DOMAIN gen |-> Piece[gen[i]]]) IN
  /\ out \o pending = bytes
  /\ \A n \in 0..Len(bytes) : Valid(SubSeq(bytes, 1, n)) => n <= Len(out)

\* "keeping any partial multi-byte tail buffered so streamed characters stay
\* intact" (llama.rs:31-32): what is held back is the beginning of a character.
OnlyATailIsHeld == pending \in {<<>>, <<"L">>}

\* The prompt is prefilled "in n_batch chunks" (llama.rs:305): no prompt that
\* fits the context is refused for its length.
ChunksArePrefilled == reply.why # "batch"
=============================================================================
