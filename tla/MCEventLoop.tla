----------------------------- MODULE MCEventLoop -----------------------------
(***************************************************************************)
(* EventLoop with one more client than the loop keeps, one of each command *)
(* and one whose line comes in two pieces.                                 *)
(***************************************************************************)
EXTENDS EventLoop

CONSTANTS adds, lists, syncs

MCCommand ==
  [c \in Clients |-> IF c = adds THEN "ADD" ELSE IF c = syncs THEN "SYNC" ELSE "LIST"]

MCPieces == [c \in Clients |-> IF c = adds THEN 2 ELSE 1]
=============================================================================
