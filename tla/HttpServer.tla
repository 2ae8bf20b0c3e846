----------------------------- MODULE HttpServer -----------------------------
(***************************************************************************)
(* One listener of http.rs: the accept loop behind the connection gate,    *)
(* and a thread per connection that frames requests off the stream and     *)
(* hands them to the dispatcher (main.rs).  A stream is a sequence of      *)
(* items: request lines, blank lines, body items, chunk sizes.             *)
(***************************************************************************)
EXTENDS Naturals, Sequences, SequencesExt, FiniteSetsExt

CONSTANTS
  Conns,      \* connections
  Script,     \* Script[c]: the requests client c sends, back to back
  MaxConns,   \* Server::new(max_conns)
  Block,      \* most items one read returns
  Panics      \* bound: handler panics in a behaviour

\* A request of a script: id, body length, whether it asks to close, and how
\* the length is told: "length", "chunked" in chunks of one item, "unended"
\* (chunked, the last line missing, so that nothing can follow it) or "garbled"
\* (chunked, a size unreadable).
Requests == [id : Nat, len : Nat, close : BOOLEAN,
             enc : {"length", "chunked", "unended", "garbled"}]

ASSUME HttpAssumption ==
  /\ IsFiniteSet(Conns)
  /\ MaxConns \in Nat \ {0} /\ Block \in Nat \ {0} /\ Panics \in Nat
  /\ \A c \in Conns : /\ Script[c] \in Seq(Requests)
                      /\ \A k \in 1..Len(Script[c]) :
                           Script[c][k].enc = "unended" => k = Len(Script[c])

Item(t, r, n) == [t |-> t, r |-> r, n |-> n]
BodyOf(r) == [k \in 1..r.len |-> Item("body", r, k)]
Chunk(x) == <<Item("size", x.r, 1), x, Item("crlf", x.r, 0)>>
Chunks(r) == FlattenSeq([k \in 1..r.len |-> Chunk(BodyOf(r)[k])])
Ends(r) ==
  CASE r.enc = "garbled" -> <<Item("junk", r, 0)>>
    [] r.enc = "unended" -> <<Item("size", r, 0)>>
    [] OTHER -> <<Item("size", r, 0), Item("crlf", r, 0)>>
WireOfOne(r) ==
  <<Item("line", r, 0), Item("blank", r, 0)>>
  \o (IF r.enc = "length" THEN BodyOf(r) ELSE Chunks(r) \o Ends(r))
WireOf(script) == FlattenSeq([k \in DOMAIN script |-> WireOfOne(script[k])])

VARIABLES
  loop,       \* the accept loop: its step and the connection it holds
  active,     \* ConnGate.active
  conn,       \* each connection's step
  wire,       \* what its client sent and the server has not read
  buf,        \* bytes read and not yet used, kept between requests
  handled,    \* requests given to the handler, with their bodies, in order
  answered,   \* how many of them were answered
  keep,       \* whether the connection goes on after the answer
  total,      \* metrics.requests_total
  panics      \* handlers that panicked

vars == <<loop, active, conn, wire, buf, handled, answered, keep, total, panics>>
gate == <<loop, active>>
stream == <<wire, buf, handled, answered, keep, total, panics>>

Init ==
  /\ loop = [step |-> "accept", c |-> "none"] /\ active = 0
  /\ conn = [c \in Conns |-> "backlog"] /\ wire = [c \in Conns |-> WireOf(Script[c])]
  /\ buf = [c \in Conns |-> <<>>] /\ handled = [c \in Conns |-> <<>>]
  /\ answered = [c \in Conns |-> 0] /\ keep = [c \in Conns |-> TRUE]
  /\ total = 0 /\ panics = 0

-----------------------------------------------------------------------------
\* The accept loop and ConnGate::enter.

Loop(step, c) == loop' = [step |-> step, c |-> c]
To(c, step) == conn' = [conn EXCEPT ![c] = step]

Accept(c) ==
  /\ loop.step = "accept" /\ conn[c] = "backlog"
  /\ Loop("check", c) /\ To(c, "gate") /\ UNCHANGED <<active, stream>>

\* Under the mutex: take a slot, or wait.  leave() does not take the mutex, so
\* it may come between the check and the wait.
Enter ==
  /\ loop.step = "check"
  /\ IF active < MaxConns THEN active' = active + 1 /\ Loop("spawn", loop.c)
     ELSE UNCHANGED active /\ Loop("towait", loop.c)
  /\ UNCHANGED <<conn, stream>>

Wait == /\ loop.step = "towait" /\ Loop("waiting", loop.c)
        /\ UNCHANGED <<active, conn, stream>>

\* Fault: the wait has no timeout.
NeverTimesOut == loop.step = "waiting" /\ FALSE /\ UNCHANGED vars

\* Five seconds without a notification: give up only if it is still full.
TimedOut ==
  /\ loop.step = "waiting"
  /\ IF active >= MaxConns THEN Loop("accept", "none") /\ To(loop.c, "dropped")
     ELSE Loop("check", loop.c) /\ UNCHANGED conn
  /\ UNCHANGED <<active, stream>>

\* A thread of its own; spawn failures (they drop the stream, and keep the slot)
\* are left out.
Spawn ==
  /\ loop.step = "spawn" /\ Loop("accept", "none") /\ To(loop.c, "reading")
  /\ UNCHANGED <<active, stream>>

\* ConnGate::leave, in two steps.  Fault: a slot is kept.
LeaveKeeping(c) ==
  /\ conn[c] = "leaving" /\ To(c, "notify") /\ UNCHANGED <<gate, stream>>
Leave(c) ==
  /\ conn[c] = "leaving" /\ To(c, "notify") /\ active' = active - 1
  /\ UNCHANGED <<loop, stream>>
Notify(c) ==
  /\ conn[c] = "notify" /\ To(c, "gone")
  /\ loop' = IF loop.step = "waiting" THEN [loop EXCEPT !.step = "check"] ELSE loop
  /\ UNCHANGED <<active, stream>>

-----------------------------------------------------------------------------
\* read_request, on what the buffer holds.

\* More: n is the most the next read may take.  Ending: a chunked body whose
\* last line has not arrived; the end of the stream does for it.
More(n) == [st |-> "more", n |-> n]
Bad == [st |-> "bad"]
\* Fault (Forgetting): what was read beyond the request is thrown away.
Forgetting(r, body, rest) == [st |-> "ok", req |-> [r |-> r, body |-> body], rest |-> <<>>]
Got(r, body, rest) == [st |-> "ok", req |-> [r |-> r, body |-> body], rest |-> rest]
Ending(r, body) == [Got(r, body, <<>>) EXCEPT !.st = "ending"]

\* read_chunked: whole chunks, each a size, its data and an end of line, up to
\* the chunk of size 0 and the line after it.
Chunked(r, s) ==
  LET whole(k) == 3 * k + 3 <= Len(s) /\ s[3 * k + 1].t = "size" /\ s[3 * k + 1].n # 0
      chunks == Min({k \in 0..Len(s) : ~whole(k)})
      body == [k \in 1..chunks |-> s[3 * k - 1]]
      rest == SubSeq(s, 3 * chunks + 1, Len(s))
  IN IF rest = <<>> THEN More(Block)
     ELSE IF Head(rest).t # "size" THEN Bad
     ELSE IF Head(rest).n # 0 THEN More(Block)
     ELSE IF Len(rest) = 1 THEN Ending(r, body)
     ELSE Got(r, body, SubSeq(rest, 3, Len(rest)))

Parse(b) ==
  LET ends == {k \in DOMAIN b : b[k].t = "blank"}
      rest == SubSeq(b, 3, Len(b))
      r == b[1].r
  IN IF ends = {} THEN More(Block)
     ELSE IF b[1].t # "line" THEN Bad
     ELSE IF r.enc # "length" THEN Chunked(r, rest)
     ELSE IF Len(rest) < r.len THEN More(r.len - Len(rest))
     ELSE Got(r, SubSeq(rest, 1, r.len), SubSeq(rest, r.len + 1, Len(rest)))

Lacks(c) == conn[c] = "reading" /\ Parse(buf[c]).st \in {"more", "ending"}

\* One read, of as much as has arrived; at the end of the stream the connection
\* is done, mid-request after a best-effort 400.
Read(c) ==
  /\ Lacks(c)
  /\ LET p == Parse(buf[c])
         most == IF p.st = "more" THEN p.n ELSE Block
     IN IF wire[c] = <<>>
        THEN p.st = "more" /\ To(c, "leaving") /\ UNCHANGED <<wire, buf>>
        ELSE /\ UNCHANGED conn
             /\ \E n \in 1..most :
                  /\ n <= Len(wire[c])
                  /\ buf' = [buf EXCEPT ![c] = @ \o SubSeq(wire[c], 1, n)]
                  /\ wire' = [wire EXCEPT ![c] = SubSeq(@, n + 1, Len(@))]
  /\ UNCHANGED <<gate, handled, answered, keep, total, panics>>

\* A read that fails (300 s, or the client is gone) ends the connection too.
ReadFails(c) ==
  /\ Lacks(c) /\ To(c, "leaving")
  /\ UNCHANGED <<gate, stream>>

Malformed(c) ==
  /\ conn[c] = "reading" /\ Parse(buf[c]).st = "bad" /\ To(c, "leaving")
  /\ UNCHANGED <<gate, stream>>

Handle(c) ==
  LET p == Parse(buf[c]) IN
  /\ conn[c] = "reading" /\ To(c, "handling")
  /\ p.st = "ok" \/ (p.st = "ending" /\ wire[c] = <<>>)
  /\ buf' = [buf EXCEPT ![c] = p.rest]
  /\ handled' = [handled EXCEPT ![c] = Append(@, p.req)]
  /\ keep' = [keep EXCEPT ![c] = ~p.req.r.close] /\ total' = total + 1
  /\ UNCHANGED <<gate, wire, answered, panics>>

\* The handler starts a stream of events: the answer has no length.
BeginStream(c) ==
  /\ conn[c] = "handling" /\ keep[c] /\ keep' = [keep EXCEPT ![c] = FALSE]
  /\ UNCHANGED <<gate, conn, wire, buf, handled, answered, total, panics>>

\* finish: the answer is on the wire, or the client is gone.
Finish(c) ==
  /\ conn[c] = "handling"
  /\ \/ /\ answered' = [answered EXCEPT ![c] = @ + 1]
        /\ To(c, IF keep[c] THEN "reading" ELSE "leaving")
     \/ To(c, "leaving") /\ UNCHANGED answered
  /\ UNCHANGED <<gate, wire, buf, handled, keep, total, panics>>

\* A panic unwinds the thread past gate.leave().
Panic(c) ==
  /\ conn[c] = "handling" /\ panics < Panics /\ panics' = panics + 1
  /\ To(c, "gone")
  /\ UNCHANGED <<gate, wire, buf, handled, answered, keep, total>>

Serving(c) == Read(c) \/ Handle(c) \/ Malformed(c) \/ Finish(c) \/ Leave(c) \/ Notify(c)
Next ==
  \/ Enter \/ Wait \/ TimedOut \/ Spawn
  \/ \E c \in Conns : Accept(c) \/ Serving(c) \/ ReadFails(c) \/ BeginStream(c)
                      \/ Panic(c)

\* The accept loop and each connection's thread are scheduled, handlers return,
\* and a wait of five seconds ends.
Fairness == /\ WF_vars(Enter \/ Wait \/ TimedOut \/ Spawn)
            /\ \A c \in Conns : WF_vars(Accept(c)) /\ WF_vars(Serving(c))
Spec == Init /\ [][Next]_vars /\ Fairness

-----------------------------------------------------------------------------
\* The gate counts the connections that hold a slot: those with a thread, the
\* one being given to its thread, and those whose handler panicked, which hold
\* it for ever; so no more than MaxConns are served at a time.
SlotsAccounted ==
  /\ active = Cardinality({c \in Conns : conn[c] \in {"reading", "handling", "leaving"}})
              + (IF loop.step = "spawn" THEN 1 ELSE 0) + panics
  /\ active <= MaxConns

\* However the stream is cut into reads, the handler gets the requests the
\* client sent, in order, each with its own body, and answers them in order;
\* nothing is handled after an answer that closes, and no byte is lost between
\* two requests.
FramedInOrder ==
  \A c \in Conns :
    /\ WireOf(SubSeq(Script[c], 1, Len(handled[c]))) \o buf[c] \o wire[c]
         = WireOf(Script[c])
    /\ answered[c] <= Len(handled[c])
    /\ \A k \in DOMAIN handled[c] :
         /\ handled[c][k].r = Script[c][k]
         /\ handled[c][k].body = BodyOf(Script[c][k])
         /\ k < Len(handled[c]) => ~Script[c][k].close /\ answered[c] >= k

\* A connection the loop has accepted is served or dropped, although the
\* notification of a free slot can fall between the check and the wait: the
\* accept loop never hangs.
AcceptedIsResolved ==
  \A c \in Conns : conn[c] = "gate" ~> conn[c] # "gate"
=============================================================================
