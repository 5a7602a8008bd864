--------------------------- MODULE MCThreadsShop ---------------------------
(* Two customers, two shelves and amounts of one: the loader goes on until *)
(* both have met needs of two or three.                                    *)
EXTENDS ThreadsShop

CONSTANTS c1, c2

MCCustomers == {c1, c2}
MCOne == {1}
MCNeeds == {2, 3}
MCNeed == {2}
MCShelves == {0, 1}
============================================================================
