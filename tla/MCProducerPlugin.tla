-------------------------- MODULE MCProducerPlugin --------------------------
(* Model of ProducerPlugin for TLC. *)
EXTENDS ProducerPlugin
TwoProducers == <<"a", "me">>

Never(b) == FALSE
Anything(b) == TRUE

\* Two chains on which the schedule that adds the producer is promoted at
\* different heights: after block 2 of the first, after block 4 of the second.
FirstChain == <<0, 1, 2>>
SecondChain == <<0, 3, 4, 5, 8, 9>>
OnTwoChains(b) == IsPrefix(b, FirstChain) \/ IsPrefix(b, SecondChain)
AtBlockTwoOrFour(b) == b = Ancestor(FirstChain, 2) \/ b = Ancestor(SecondChain, 4)
=============================================================================
