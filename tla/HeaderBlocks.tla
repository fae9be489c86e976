----------------------------- MODULE HeaderBlocks -----------------------------
(***************************************************************************)
(* What projects/01-http-server and projects/02-websocket-chat both do with*)
(* the bytes in front of a body: find the empty line behind the headers.   *)
(* The bytes are tokens, CRLF stands for "\r\n".                           *)
(***************************************************************************)
EXTENDS Integers, Sequences

CRLF == <<"CRLF">>

(* The first place of "\r\n\r\n", or none.                                 *)
Boundary(b) == {i \in 1..Len(b) - 1 : b[i] = CRLF /\ b[i + 1] = CRLF /\
                 \A j \in 1..i - 1 : ~(b[j] = CRLF /\ b[j + 1] = CRLF)}
HeadersBlock(b) == SubSeq(b, 1, (CHOOSE i \in Boundary(b) : TRUE) - 1)

(* What is behind it.                                                      *)
BehindHeaders(b) == SubSeq(b, Len(HeadersBlock(b)) + 3, Len(b))
=============================================================================
