---------------------------- MODULE MCHTTPServer ----------------------------
(* Streams of two requests: with a body that holds the boundary, with and  *)
(* without Connection: close, malformed, and with a body that is one       *)
(* character of two bytes; and next to it a connection that sends nothing. *)
EXTENDS HTTPServer

Request(p, c, body) == [path |-> p, close |-> c, body |-> body]
Text == <<"text", "x">>

MCStreams == <<
  {<<Request("a", FALSE, <<CRLF, CRLF>>), Request("b", TRUE, <<>>)>>,
   <<Request("a", TRUE, <<>>), Request("a", FALSE, <<Text>>)>>,
   <<Request("none", FALSE, <<Text>>), Request("a", FALSE, <<>>)>>,
   <<Request("a", FALSE, TwoBytes), Request("a", FALSE, <<>>)>>},
  {<<>>} >>
=============================================================================
