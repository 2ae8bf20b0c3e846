--------------------------- MODULE MCHttpServer ---------------------------
\* Three clients for two slots: requests back to back with a body each way and
\* the last line missing, one followed by another after it asked to close, and
\* one followed by a garbled one.
EXTENDS HttpServer

Req(id, len, enc, close) == [id |-> id, len |-> len, enc |-> enc, close |-> close]
MCScript ==
  [c1 |-> <<Req(1, 2, "length", FALSE), Req(2, 1, "unended", FALSE)>>,
   c2 |-> <<Req(1, 0, "chunked", TRUE), Req(2, 0, "length", FALSE)>>,
   c3 |-> <<Req(1, 0, "length", FALSE), Req(2, 0, "garbled", FALSE)>>]
=============================================================================
