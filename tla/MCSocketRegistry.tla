--------------------------- MODULE MCSocketRegistry ---------------------------
(* Two sockets of one user, connected to two processes, and a socket of      *)
(* another user on the first process.                                        *)
EXTENDS SocketRegistry

CONSTANTS s1, s2, s3, u1, u2, p1, p2

MCSockets == {s1, s2, s3}
MCUsers == {u1, u2}
MCServers == {p1, p2}

MCUser == [s \in MCSockets |-> IF s = s3 THEN u2 ELSE u1]
MCHost == [s \in MCSockets |-> IF s = s2 THEN p2 ELSE p1]

===============================================================================
