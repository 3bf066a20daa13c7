--------------------------- MODULE MCURLTestSelect ---------------------------
(* Instances of URLTestSelect for TLC. *)
EXTENDS URLTestSelect, TLC

CONSTANTS x, y, z

\* y supports tcp only.
TcpOnlyY == [t \in UtTag \cup {UtOutboundless} |-> IF t = y THEN {"tcp"} ELSE Network]

Three     == {<<x, y, z>>}
Shrinking == {<<x, y, z>>, <<y>>, <<>>}
Losing  == {<<x, y>>, <<y>>, <<>>}

\* Calls and connections are interchangeable.
UtSymmetry == Permutations(Checker) \cup Permutations(UtConn)
=============================================================================
