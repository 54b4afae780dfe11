--------------------------- MODULE SampleChannel ---------------------------
(***************************************************************************)
(* What an ObserverServiceClient promises to the monitor that gives it     *)
(* samples: a channel to the observer that may lose samples and may keep   *)
(* them back, but never repeats or reorders them.  Samples are numbered in *)
(* the order of the calls of send; they leave the client in that order, in *)
(* blocks, and a block arrives as a whole or is lost with its websocket.   *)
(***************************************************************************)
EXTENDS Naturals, Sequences

VARIABLES
  offered,  \* samples given to send
  left,     \* samples that left the client: 1 .. left
  wire      \* samples that reached an open websocket, in order

vars == <<offered, left, wire>>

Init ==
  /\ offered = 0
  /\ left = 0
  /\ wire = <<>>

Block(from, upto) == [i \in 1 .. upto - from |-> from + i]

\* send: the sample is kept, or leaves with everything kept before it.
Send ==
  /\ offered' = offered + 1
  /\ \/ UNCHANGED <<left, wire>>
     \/ /\ left' = offered'
        /\ \/ wire' = wire \o Block(left, offered')
           \/ UNCHANGED wire

Spec == Init /\ [][Send]_vars
=============================================================================
