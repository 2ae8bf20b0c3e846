---------------------------- MODULE MCRegistry ----------------------------
\* Two entries for two files on the server; the .part name is the same for
\* both ("m.gguf" and "m.bin").  The first file has an array too long to keep,
\* and the second the same key twice.
EXTENDS Headers

MCFileOf == [p |-> "m.gguf", b |-> "m.bin"]
MCPartOf == [f \in Files |-> "m.part"]
\* A string is its length and its text; strings of this instance are one long.
Str(s) == <<1, s>>
Header(tensors, pairs) == <<Magic, 3, tensors, pairs>>
Arch == Str("architecture") \o <<"s">> \o Str("llama")
Tensor == <<1, "t", 2, 2, 3, "f16", 5>>
MCImage ==
  [f \in Files |->
     IF f = "m.gguf"
     THEN Header(1, 4) \o Arch \o Str("block_count") \o <<"u", 2>>
          \o Str("tokens") \o <<"a", "s", 3>> \o Str("x") \o Str("y") \o Str("z")
          \o Str("embedding_length") \o <<"u", 4>> \o Tensor \o <<"data">>
     ELSE Header(1, 4) \o Str("embedding_length") \o <<"u", 3>>
          \o Str("embedding_length") \o <<"u", 4>> \o Arch
          \o Str("block_count") \o <<"u", 2>> \o Tensor \o <<"data">>]
MCHeaderLen == [f \in Files |-> IF f = "m.gguf" THEN 35 ELSE 28]
MCHeaderKv ==
  [f \in Files |->
     [k \in {"architecture", "block_count", "embedding_length"}
            \cup (IF f = "m.gguf" THEN {"tokens"} ELSE {}) |->
        CASE k = "architecture" -> "llama" [] k = "block_count" -> 2
          [] k = "embedding_length" -> 4 [] k = "tokens" -> 0]]
\* In the header (before the tensors' end, in a pair), and at the end.
MCCuts == [f \in Files |-> IF f = "m.gguf" THEN <<30, 36>> ELSE <<7, 29>>]
=============================================================================
