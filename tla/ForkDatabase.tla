---------------------------- MODULE ForkDatabase ----------------------------
(***************************************************************************)
(* The fork database (libraries/chain/fork_database.cpp): the tree of      *)
(* blocks above the last irreversible one, its best block and the flags    *)
(* each block carries.                                                     *)
(*                                                                         *)
(* A block is identified with its hash-linked chain: chain[b] is the       *)
(* sequence of blocks from genesis to b.  Its header state enters only     *)
(* through Lib[b], its dpos_irreversible_blocknum.  bft_irreversible_      *)
(* blocknum, the second ordering key, is 0 for every block: it changes     *)
(* only through push_confirmation, which no plugin calls.                  *)
(***************************************************************************)
EXTENDS Integers, Sequences, FiniteSets

CONSTANTS
    Blocks,    \* every block that exists
    Genesis,   \* the genesis block
    chain,     \* chain[b][k] is the block numbered k below or at b
    Lib        \* Lib[b] is b's dpos_irreversible_blocknum

num(b) == Len(chain[b])
prev(b) == chain[b][num(b) - 1]
On(a, b) == num(a) <= num(b) /\ chain[b][num(a)] = a  \* b is a or built on a

ASSUME TreeAssumption ==
    /\ Genesis \in Blocks
    /\ chain \in [Blocks -> Seq(Blocks)]
    /\ chain[Genesis] = <<Genesis>>
    /\ \A b \in Blocks :
          /\ num(b) >= 1
          /\ chain[b][1] = Genesis
          /\ chain[b][num(b)] = b
          /\ \A k \in 1..num(b) : chain[chain[b][k]] = SubSeq(chain[b], 1, k)

ASSUME LibAssumption ==
    /\ Lib \in [Blocks -> Nat]
    /\ \A b \in Blocks : Lib[b] < num(b)

(***************************************************************************)
(* A fork database is a record: index, the blocks it holds; older, the     *)
(* pairs <<a, b>> of blocks with the same number, a inserted before b (the *)
(* order of others never decides anything); in_current_chain and           *)
(* validated, the blocks with that flag; head.                             *)
(*                                                                         *)
(* index.get<by_lib_block_num>().begin(): highest irreversible number,     *)
(* then highest number, then first inserted.                               *)
(***************************************************************************)
Better(a, b) == Lib[a] > Lib[b] \/ (Lib[a] = Lib[b] /\ num(a) > num(b))

IsFirst(a, index, older) ==
    /\ a \in index
    /\ \A b \in index \ {a} : Better(a, b) \/ (~ Better(b, a) /\ <<a, b>> \in older)

First(index, older) == CHOOSE a \in index : IsFirst(a, index, older)

\* index.get<by_block_num>().begin(): lowest number, current chain first.
Before(a, b, fdb) ==
    \/ num(a) < num(b)
    \/ /\ num(a) = num(b)
       /\ \/ a \in fdb.in_current_chain /\ b \notin fdb.in_current_chain
          \/ /\ (a \in fdb.in_current_chain) = (b \in fdb.in_current_chain)
             /\ <<a, b>> \in fdb.older

Oldest(fdb) == CHOOSE a \in fdb.index : \A b \in fdb.index \ {a} : Before(a, b, fdb)

Insert(fdb, b) ==
    [fdb EXCEPT !.index = @ \cup {b},
                !.older = @ \cup ({a \in fdb.index : num(a) = num(b)} \X {b})]

Keep(fdb, S) ==
    [fdb EXCEPT !.index = @ \cap S,
                !.older = @ \cap (S \X S),
                !.in_current_chain = @ \cap S,
                !.validated = @ \cap S]

WithHead(fdb) == [fdb EXCEPT !.head = First(fdb.index, fdb.older)]

(***************************************************************************)
(* remove: the block, every block built on it, and a new head.             *)
(***************************************************************************)
remove(fdb, bad) ==
    WithHead(Keep(fdb, {b \in fdb.index : ~ On(bad, b)}))

(***************************************************************************)
(* prune: the irreversible signal is raised for h, which leaves the index; *)
(* the other blocks with its number are removed with all that is built on  *)
(* them, which recomputes head.                                            *)
(***************************************************************************)
Siblings(fdb, h) == {b \in fdb.index \ {h} : num(b) = num(h)}

prune(fdb, h) ==
    LET kept == Keep(fdb, {b \in fdb.index \ {h} :
                              \A s \in Siblings(fdb, h) : ~ On(s, b)})
    IN  IF Siblings(fdb, h) = {} THEN kept ELSE WithHead(kept)

(***************************************************************************)
(* add: insert, choose the head, and prune the oldest block if it is below *)
(* the head's irreversible number.  Pruned(f, b) is the optional block the *)
(* irreversible signal is raised for.                                      *)
(***************************************************************************)
\* Mutant of Inserted: the block that came last becomes the head.
InsertedOnTop(fdb, b) == [Insert(fdb, b) EXCEPT !.head = b]

Inserted(fdb, b) == WithHead(Insert(fdb, b))

\* Mutant of Pruned: everything below head is pruned.
PrunedBelowHead(fdb, b) ==
    LET f == Inserted(fdb, b)
    IN  IF num(Oldest(f)) < num(f.head) THEN <<Oldest(f)>> ELSE <<>>

Pruned(fdb, b) ==
    LET f == Inserted(fdb, b)
    IN  IF num(Oldest(f)) < Lib[f.head] THEN <<Oldest(f)>> ELSE <<>>

add(fdb, b) ==
    LET f == Inserted(fdb, b)
    IN  IF Pruned(fdb, b) = <<>> THEN f ELSE prune(f, Oldest(f))

\* set, called once on a new fork database by initialize_fork_db.
GenesisForkDb == [index |-> {Genesis}, older |-> {}, in_current_chain |-> {},
                  validated |-> {}, head |-> Genesis]

\* The first block numbered n in the order of Before, if in the current chain.
get_block_in_current_chain_by_num(fdb, n) ==
    {b \in fdb.in_current_chain : /\ num(b) = n
                                  /\ \A c \in fdb.index \ {b} :
                                        num(c) = n => Before(b, c, fdb)}

(***************************************************************************)
(* fetch_branch_from(new, old): the branches are chain[new] and chain[old] *)
(* from ForkNum upwards, the first number at which they may differ.  When  *)
(* one block is built on the other, that number is the lower one's, whose  *)
(* block is then in both branches.                                         *)
(***************************************************************************)
Lower(m, n) == IF m <= n THEN m ELSE n

ForkNum(new, old) ==
    CHOOSE k \in 2..Lower(num(new), num(old)) :
        /\ chain[new][k - 1] = chain[old][k - 1]
        /\ \A i \in (k + 1)..Lower(num(new), num(old)) :
              chain[new][i - 1] # chain[old][i - 1]
=============================================================================
