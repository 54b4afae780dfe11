----------------------------- MODULE MCObserver -----------------------------
(***************************************************************************)
(* An instance of Observer for TLC: two websockets of one client, one of   *)
(* another and one that is refused; one http request that awaits metrics   *)
(* and one that nobody answers.                                            *)
(***************************************************************************)
EXTENDS Observer

CONSTANTS c1, c2, c3, c4, o1, o2, x1, x2

MCIdOf == [c \in Conn |-> CASE c = c3 -> x2 [] c = c4 -> NoId [] OTHER -> x1]

MCKindOf ==
  [c \in Conn \union Other |->
     CASE c = o1 -> "/metrics" [] c = o2 -> "other" [] OTHER -> "websocket"]
=============================================================================
