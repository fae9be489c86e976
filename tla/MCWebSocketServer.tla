-------------------------- MODULE MCWebSocketServer --------------------------
(* Two clients.  The first sends a masked text, a close and another text,  *)
(* or a ping and a text with an extended length that the callback refuses, *)
(* or does not ask for an upgrade; the second only listens.                *)
EXTENDS WebSocketServer

Upgrade == <<<<"upgrade">>, CRLF, <<"key">>, CRLF, CRLF>>
MCUpgrades == <<{Upgrade, <<<<"key">>, CRLF, CRLF>>}, {Upgrade}>>
Frame(opcode, extended, key, payload) ==
  [opcode |-> opcode, extended |-> extended, key |-> key, payload |-> payload]
MCFrames == <<
  {<<Frame(1, 0, <<5, 6, 7, 8>>, <<3>>), Frame(8, 0, <<>>, <<>>), Frame(1, 0, <<>>, <<4>>)>>,
   <<Frame(9, 0, <<>>, <<>>), Frame(1, 2, <<>>, <<0>>)>>},
  {<<>>}>>
MCCuts == <<{4, 7, 9, 12, 17}, {5}>>
MCRefused == {<<0>>}
MCAnnouncements == {<<2>>}
=============================================================================
