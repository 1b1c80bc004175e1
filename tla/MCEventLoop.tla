----------------------------- MODULE MCEventLoop -----------------------------
(* EventLoop on small instances for TLC.  The kernel is scaled down with   *)
(* the requests: buffers of 2 units and of 2 bytes make every receive and  *)
(* every send a partial one, as 1023-byte reads do for real requests.      *)
EXTENDS EventLoop, TLC

CONSTANTS c1, c2, c3

(* Descriptors 4 and up follow the listening socket, 3.                    *)
MCServerFd == 3
OneFd      == {4}
TwoFds     == {4, 5}

(* A head in one piece; one whose text comes before its blank line.        *)
Plain  == <<"text", "CRLF", "CRLF">>
(* ... one that is never completed ...                                     *)
Cut    == <<"text", "CRLF">>
(* ... one that a body follows, or a second request ...                    *)
Body   == <<"CRLF", "CRLF", "text">>
(* ... and one in which a NUL keeps two line ends apart.                   *)
Nul    == <<"CRLF", "NUL", "CRLF">>

SafetyStreams == {Plain, Cut, Body, Nul}
LiveStreams   == {<<"CRLF", "CRLF">>}
PlainStreams  == {Plain}
BodyStreams   == {Body}

Peers2 == {c1, c2}
AnyPeer == Permutations(Peers2)
=============================================================================
