------------------------------ MODULE MCRooms ------------------------------
(***************************************************************************)
(* An instance of Rooms for TLC: c1, c2 and c3 come to one room with       *)
(* different clientIds, c4 comes with the clientId of c3, c5 to another    *)
(* room and c6 without a roomId.                                           *)
(***************************************************************************)
EXTENDS Rooms

CONSTANTS c1, c2, c3, c4, c5, c6, r1, r2, i1, i2, i3

MCRoomOf == [c \in Conn |-> CASE c = c5 -> r2 [] c = c6 -> NoRoom [] OTHER -> r1]

MCIdOf == [c \in Conn |-> CASE c = c1 -> i1 [] c = c2 -> i2 [] OTHER -> i3]
=============================================================================
