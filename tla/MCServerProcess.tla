--------------------------- MODULE MCServerProcess ---------------------------
(* ServerProcess with the main thread and two I/O threads *)
EXTENDS ServerProcess

CONSTANTS w1, w2

MCCaller == {Main, w1, w2}
(* Two I/O threads do the same things; the signal meets one of them *)
MCTarget == {Main, Beat, w1}
MCMaxTask == <<2, 1>>
=============================================================================
