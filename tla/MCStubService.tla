---------------------------- MODULE MCStubService ----------------------------
(* Instances of StubService for TLC.                                         *)
EXTENDS StubService, TLC

CONSTANTS u, t

\* One asks over UDP, one over TCP.
Doors == [c \in Clients |-> IF c = t THEN <<"tcp", "v4">> ELSE <<"udp", "v4">>]
OneSocket == {<<"tcp", "v4">>}
=============================================================================
