------------------------------ MODULE MCNetSync ------------------------------
(* Models of NetSync for TLC: two peers. *)
EXTENDS NetSync

CONSTANTS p, q

TwoPeers == <<p, q>>

\* Heads of the peers: below 4, a little above it, or with an irreversible block above it.
At(i, j) == [x \in {p, q} |-> IF x = p THEN i ELSE j]
AnyHeads == {At(i, j) : i \in {3, 5, 7}, j \in {3, 5, 7}}
BothFar == {At(7, 7)}
NearAndFar == {At(5, 8), At(8, 5)}
=============================================================================
