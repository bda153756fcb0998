----------------------------- MODULE BlockTrees -----------------------------
(***************************************************************************)
(* Block trees for the models of Controller.  They are real ones: a tree   *)
(* gives for each block its parent, the slots skipped before it, the       *)
(* number of blocks its header confirms and the schedule it announces, and *)
(* BlockHeaderState computes the rest and checks that every header is      *)
(* accepted.                                                               *)
(***************************************************************************)
EXTENDS Controller

H == INSTANCE BlockHeaderState WITH
        producer_repetitions <- 1, maximum_tracked_dpos_confirmations <- 8

\* A block of a tree: parent, skipped slots, confirmed, announced producers.
B(p, s, c) == [parent |-> p, skip |-> s, confirmed |-> c, producers |-> <<>>]

\* The first blocks of every tree: sys produces 2, 3 and 4; 3 announces the
\* schedule and 4 makes it active.
Trunk(producers) == [b2 |-> B("g", 0, 0),
                     b3 |-> [B("b2", 0, 0) EXCEPT !.producers = producers],
                     b4 |-> B("b3", 0, 0)]

BlocksOf(tree) == {"g"} \cup DOMAIN tree

ChainOf(tree) ==
    LET path[d \in Nat, b \in BlocksOf(tree)] ==
            IF b = "g" \/ d = 0 THEN <<"g">>
            ELSE Append(path[d - 1, tree[b].parent], b)
    IN  [b \in BlocksOf(tree) |-> path[20, b]]

HeaderFor(hs, t) ==
    LET when == hs.timestamp + 1 + t.skip
    IN  [timestamp |-> when,
         producer |-> H!get_scheduled_producer(hs, when),
         confirmed |-> t.confirmed,
         schedule_version |-> hs.active_schedule.version,
         new_producers |-> IF t.producers = <<>> THEN <<>>
                           ELSE <<[version |-> hs.active_schedule.version + 1,
                                   producers |-> t.producers]>>]

StatesOf(tree) ==
    LET state[d \in Nat, b \in BlocksOf(tree)] ==
            IF b = "g" \/ d = 0 THEN H!genheader("sys", 0)
            ELSE LET hs == state[d - 1, tree[b].parent]
                 IN  H!next(hs, HeaderFor(hs, tree[b]))
    IN  [b \in BlocksOf(tree) |-> state[20, b]]

\* lib and chains are those of the tree, whose headers are all accepted.
Describes(chains, lib, tree) ==
    LET hs == StatesOf(tree)
    IN  /\ DOMAIN lib = BlocksOf(tree)
        /\ \A b \in BlocksOf(tree) : lib[b] = hs[b].dpos_irreversible_blocknum
        /\ chains = ChainOf(tree)
        /\ \A b \in DOMAIN tree :
              H!NextAccepts(hs[tree[b].parent], HeaderFor(hs[tree[b].parent], tree[b]))

(***************************************************************************)
(* Two producers.  u6 ties with 6, both of them a's.  u8 is longer than 7  *)
(* and has a lower irreversible number.  9 moves the irreversible block by *)
(* two, past the block at which the branches part, which stays in the fork *)
(* database for a while.  y7 has a successor, so that a switch meets it in *)
(* the middle of a branch, after a block that is fine.                     *)
(***************************************************************************)
ForkTree == Extend(Trunk(<<"a", "b">>),
    [b5 |-> B("b4", 0, 1),   \* a
     b6 |-> B("b5", 1, 0),   \* a
     b7 |-> B("b6", 0, 2),   \* b
     b8 |-> B("b7", 0, 1),   \* a
     b9 |-> B("b8", 0, 1),   \* b
     u6 |-> B("b5", 3, 0),   \* a, and so are the next ones
     u7 |-> B("u6", 1, 0),
     u8 |-> B("u7", 1, 0),
     y7 |-> B("u6", 3, 0),
     y8 |-> B("y7", 1, 0)])

ForkBlocks == {"g", "b2", "b3", "b4", "b5", "b6", "b7", "b8", "b9",
               "u6", "u7", "u8", "y7", "y8"}

ForkLib == [g |-> 0, b2 |-> 0, b3 |-> 2, b4 |-> 3, b5 |-> 3, b6 |-> 3, b7 |-> 4,
            b8 |-> 4, b9 |-> 6, u6 |-> 3, u7 |-> 3, u8 |-> 3, y7 |-> 3, y8 |-> 3]

ForkMain == <<"g", "b2", "b3", "b4", "b5", "b6", "b7", "b8", "b9">>
ForkLong == <<"g", "b2", "b3", "b4", "b5", "u6", "u7", "u8">>

M(k) == SubSeq(ForkMain, 1, k)
U(k) == SubSeq(ForkLong, 1, k)
ForkChain == [g |-> M(1), b2 |-> M(2), b3 |-> M(3), b4 |-> M(4), b5 |-> M(5),
              b6 |-> M(6), b7 |-> M(7), b8 |-> M(8), b9 |-> M(9),
              u6 |-> U(6), u7 |-> U(7), u8 |-> U(8),
              y7 |-> U(6) \o <<"y7">>, y8 |-> U(6) \o <<"y7", "y8">>]

ASSUME Describes(ForkChain, ForkLib, ForkTree)

\* The tree meets LibGrows, which the proofs about Controller assume.
ASSUME \A b \in ForkBlocks : \A k \in 1..Len(ForkChain[b]) :
          ForkLib[ForkChain[b][k]] <= ForkLib[b]

(***************************************************************************)
(* A schedule of four shrinks to three while c is silent: 11, the block    *)
(* after the change, has a lower irreversible number than its parent, and  *)
(* 13 moves it by four.                                                    *)
(***************************************************************************)
ShrinkTree == Extend(Trunk(<<"a", "b", "c", "d">>),
    [b5  |-> [B("b4", 1, 1) EXCEPT !.producers = <<"a", "b", "c">>],   \* b
     b6  |-> B("b5", 0, 2),   \* c
     b7  |-> B("b6", 0, 3),   \* d
     b8  |-> B("b7", 0, 4),   \* a
     b9  |-> B("b8", 0, 3),   \* b
     b10 |-> B("b9", 1, 2),   \* d
     b11 |-> B("b10", 0, 2),  \* a
     b12 |-> B("b11", 0, 2),  \* b
     b13 |-> B("b12", 0, 6),  \* c
     c11 |-> B("b10", 2, 4)]) \* c

ShrinkBlocks == {"g", "b2", "b3", "b4", "b5", "b6", "b7", "b8", "b9", "b10",
                 "b11", "b12", "b13", "c11"}

ShrinkLib == [g |-> 0, b2 |-> 0, b3 |-> 2, b4 |-> 3, b5 |-> 3, b6 |-> 3, b7 |-> 4,
              b8 |-> 4, b9 |-> 4, b10 |-> 5, b11 |-> 4, b12 |-> 4, b13 |-> 8, c11 |-> 5]

ShrinkMain == <<"g", "b2", "b3", "b4", "b5", "b6", "b7", "b8", "b9", "b10",
                "b11", "b12", "b13">>

S(k) == SubSeq(ShrinkMain, 1, k)
ShrinkChain == [g |-> S(1), b2 |-> S(2), b3 |-> S(3), b4 |-> S(4), b5 |-> S(5),
                b6 |-> S(6), b7 |-> S(7), b8 |-> S(8), b9 |-> S(9), b10 |-> S(10),
                b11 |-> S(11), b12 |-> S(12), b13 |-> S(13), c11 |-> Append(S(10), "c11")]

ASSUME Describes(ShrinkChain, ShrinkLib, ShrinkTree)
=============================================================================
