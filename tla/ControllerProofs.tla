-------------------------- MODULE ControllerProofs --------------------------
(***************************************************************************)
(* Proofs about Controller, for every tree of blocks that meets its        *)
(* assumptions, any invalid blocks, crashes and orders of arrival.         *)
(***************************************************************************)
EXTENDS Controller, FiniteSetTheorems, WellFoundedInduction, TLAPS

\* What the proofs assume of the environment.  The last part is about ties:
\* a restart may reorder tied blocks, and if the best block is then found
\* invalid, the saved head may be another block than the one whose state is
\* kept, which the next clean start does not notice.
Environment ==
    /\ LibGrows /\ InvalidMovesNothing
    /\ MaxCloses <= 1 \/ Invalid = {}

(***************************************************************************)
(* The fork database.                                                      *)
(***************************************************************************)
ForkDbs == [index : SUBSET Blocks, older : SUBSET (Blocks \X Blocks),
            in_current_chain : SUBSET Blocks, validated : SUBSET Blocks, head : Blocks]

\* Blocks with the same number are in one order, that of their insertion.
Ordered(S, older) ==
    /\ older \subseteq S \X S
    /\ \A a, b \in S : <<a, b>> \in older => num(a) = num(b) /\ <<b, a>> \notin older
    /\ \A a, b \in S : a # b /\ num(a) = num(b) => <<a, b>> \in older \/ <<b, a>> \in older
    /\ \A a, b, c \in S : <<a, b>> \in older /\ <<b, c>> \in older => <<a, c>> \in older

BestIn(a, S) == a \in S /\ \A b \in S : ~ Better(b, a)

\* With a block the index has every block below it down to number n.
Rooted(S, n) == \A b \in S : n <= num(b) /\ \A k \in n..num(b) : chain[b][k] \in S

ForkShape(fdb, n) ==
    /\ fdb \in ForkDbs /\ IsFiniteSet(fdb.index)
    /\ Ordered(fdb.index, fdb.older) /\ Rooted(fdb.index, n)
    /\ fdb.in_current_chain \subseteq fdb.index
    /\ fdb.validated \subseteq fdb.index \ Invalid

ForkInv(fdb, n) == ForkShape(fdb, n) /\ BestIn(fdb.head, fdb.index)

\* The chain of head h: the best one there is, valid and flagged.  Only what
\* h holds irreversible has left the index.
ChainInv(fdb, h, n) ==
    /\ BestIn(h, fdb.index) /\ ValidChain(h)
    /\ n = 1 \/ n <= Lib[h]
    /\ \A c \in fdb.in_current_chain : On(c, h)
    /\ \A k \in n..num(h) : k > 1 => chain[h][k] \in fdb.in_current_chain

NodeInv(fdb, h, n) == ForkInv(fdb, n) /\ ChainInv(fdb, h, n)

(***************************************************************************)
(* The durable files hold the chain of a valid block d.                    *)
(***************************************************************************)
Files(log, rev, d) ==
    /\ log \in Seq(Blocks) /\ 1 <= Len(log) /\ Len(log) <= num(d)
    /\ \A k \in 1..Len(log) : log[k] = chain[d][k]
    /\ DOMAIN rev \subseteq 1..num(d) /\ (Len(log) + 1)..num(d) \subseteq DOMAIN rev
    /\ \A k \in DOMAIN rev : rev[k] = chain[d][k]

\* Unless they were damaged, the reversible blocks end at d, and d holds
\* irreversible what is in the log.
Undamaged(log, rev, d) ==
    ~ Damage => /\ DOMAIN rev = {} \/ num(d) \in DOMAIN rev
                /\ Len(log) = 1 \/ Len(log) <= Lib[d]

FilesInv == \E d \in Blocks :
    /\ ValidChain(d) /\ On(head, d)
    /\ Files(blog, reversible, d) /\ Undamaged(blog, reversible, d)
    /\ status \in {"up", "closed"} => d = head

(***************************************************************************)
(* The chain state: a session for every block that is not in the log.      *)
(***************************************************************************)
IsDb(d) ==
    /\ d = [state |-> d.state, revision |-> d.revision, undo |-> d.undo]
    /\ d.state \in Blocks /\ d.revision \in Nat
    /\ \A r \in DOMAIN d.undo : r \in Nat /\ d.undo[r] \in Blocks

Sessions(d, log, h) ==
    /\ d.state = h /\ d.revision = num(h)
    /\ DOMAIN d.undo = (Len(log) + 1)..num(h)
    /\ \A r \in DOMAIN d.undo : d.undo[r] = chain[h][r - 1]

Started == fork_db = GenesisForkDb /\ head = Genesis /\ db = GenesisDb

PhaseInv ==
    /\ status \in {"up", "closed", "replay_reversible"} => Sessions(db, blog, head)
    /\ status = "replay_irreversible" =>
          /\ db.state = head /\ num(head) <= Len(blog)
          /\ IF disable_replay_opts THEN db.revision = num(head) ELSE DOMAIN db.undo = {}
    /\ status = "replay_reversible" => num(head) >= Len(blog)
    /\ status \in {"crashed", "finish"} => Started
    /\ status = "finish" => Len(blog) = 1
    /\ status \in {"replay_irreversible", "replay_reversible"} =>
          \A c \in fork_db.index : On(c, head)

\* The fork database's head is the controller's, but for the case that
\* Environment is about.
HeadInv ==
    /\ stops.close = 0 => fork_db.head = head /\ IsFirst(head, fork_db.index, fork_db.older)
    /\ Invalid = {} \/ status = "closed" => fork_db.head = head
    /\ status = "closed" => stops.close > 0

PendingInv ==
    pending = <<>> \/ \E b \in LocalBlocks : /\ pending = <<b>> /\ status = "up"
                                             /\ b \notin fork_db.index /\ prev(b) = head

EndInv ==
    /\ status = "broken" => Damage \/ ~ SwitchesInTime
    /\ status = "failed" => Damage \/ disable_replay_opts \/ Len(blog) = 1

Statuses == {"up", "closed", "crashed", "replay_irreversible", "replay_reversible",
             "finish", "failed", "broken"}

ControllerInv ==
    /\ status \in Statuses /\ stops \in [crash : Nat, close : Nat] /\ IsDb(db)
    /\ \E n \in 1..num(head) : NodeInv(fork_db, head, n) /\ n <= Len(blog) + 1
    /\ FilesInv /\ PhaseInv /\ HeadInv /\ PendingInv /\ EndInv

-----------------------------------------------------------------------------
(***************************************************************************)
(* The tree of blocks.                                                     *)
(***************************************************************************)
LEMMA BlockFacts ==
    ASSUME NEW b \in Blocks
    PROVE  /\ chain[b] \in Seq(Blocks) /\ num(b) \in Nat /\ 1 <= num(b)
           /\ chain[b][num(b)] = b /\ chain[b][1] = Genesis
           /\ Lib[b] \in Nat /\ Lib[b] < num(b)
  BY TreeAssumption, LibAssumption DEF num

LEMMA Below ==
    ASSUME NEW b \in Blocks, NEW k \in 1..num(b)
    PROVE  /\ chain[b][k] \in Blocks /\ num(chain[b][k]) = k /\ On(chain[b][k], b)
           /\ \A i \in 1..k : chain[chain[b][k]][i] = chain[b][i]
<1> DEFINE s == chain[b]
<1>1. s \in Seq(Blocks) /\ num(b) = Len(s) /\ Len(s) \in Nat /\ k \in 1..Len(s)
  BY BlockFacts DEF num
<1>2. chain[s[k]] = SubSeq(s, 1, k)
  BY TreeAssumption
<1> HIDE DEF s
<1>3. /\ s[k] \in Blocks /\ Len(SubSeq(s, 1, k)) = k
      /\ \A i \in 1..k : SubSeq(s, 1, k)[i] = s[i]
  BY <1>1
<1>4. num(s[k]) = k
  BY <1>2, <1>3 DEF num
<1> QED BY <1>1, <1>2, <1>3, <1>4 DEF On, s

LEMMA GenesisFacts == /\ Genesis \in Blocks /\ num(Genesis) = 1
                      /\ \A b \in Blocks : num(b) = 1 <=> b = Genesis
<1>1. Genesis \in Blocks /\ num(Genesis) = 1
  BY TreeAssumption DEF num
<1> QED BY <1>1, BlockFacts

LEMMA PrevFacts ==
    ASSUME NEW b \in Blocks, b # Genesis
    PROVE  /\ 2 <= num(b) /\ prev(b) \in Blocks /\ num(prev(b)) = num(b) - 1
           /\ prev(b) = chain[b][num(b) - 1]
           /\ \A i \in 1..(num(b) - 1) : chain[prev(b)][i] = chain[b][i]
<1>1. 2 <= num(b)
  BY BlockFacts, GenesisFacts
<1>2. num(b) - 1 \in 1..num(b)
  BY <1>1, BlockFacts
<1> QED BY <1>1, <1>2, Below DEF prev

\* Chains that have a block in common have all blocks below it in common.
LEMMA Agree ==
    ASSUME NEW a \in Blocks, NEW b \in Blocks, NEW k \in 1..num(a), k <= num(b),
           chain[a][k] = chain[b][k]
    PROVE  \A i \in 1..k : chain[a][i] = chain[b][i]
<1>1. k \in 1..num(b)
  BY BlockFacts
<1> QED BY <1>1, Below

LEMMA OnFacts ==
    ASSUME NEW a \in Blocks, NEW b \in Blocks, On(a, b)
    PROVE  num(a) <= num(b) /\ \A i \in 1..num(a) : chain[a][i] = chain[b][i]
<1>1. num(a) \in 1..num(b) /\ chain[b][num(a)] = a
  BY BlockFacts DEF On
<1> QED BY <1>1, Below DEF On

LEMMA OnSelf == \A a \in Blocks : On(a, a)
  BY BlockFacts DEF On

LEMMA OnTransitive ==
    ASSUME NEW a \in Blocks, NEW b \in Blocks, NEW c \in Blocks, On(a, b), On(b, c)
    PROVE  On(a, c)
<1>1. num(a) \in 1..num(b)
  BY BlockFacts DEF On
<1>2. chain[b][num(a)] = chain[c][num(a)]
  BY <1>1, OnFacts
<1>3. num(a) \in Nat /\ num(b) \in Nat /\ num(c) \in Nat
  BY BlockFacts
<1> QED BY <1>2, <1>3 DEF On

LEMMA OnPrev ==
    ASSUME NEW b \in Blocks, b # Genesis
    PROVE  /\ On(prev(b), b)
           /\ \A a \in Blocks : On(a, b) /\ a # b => On(a, prev(b))
<1>1. /\ 2 <= num(b) /\ prev(b) \in Blocks /\ num(prev(b)) = num(b) - 1
      /\ prev(b) = chain[b][num(b) - 1]
      /\ \A i \in 1..(num(b) - 1) : chain[prev(b)][i] = chain[b][i]
  BY PrevFacts
<1>2. num(b) \in Nat /\ chain[b][num(b)] = b
  BY BlockFacts
<1>3. On(prev(b), b)
  BY <1>1, <1>2 DEF On
<1>4. ASSUME NEW a \in Blocks, On(a, b), a # b PROVE On(a, prev(b))
  <2>1. num(a) \in Nat /\ 1 <= num(a)
    BY BlockFacts
  <2>2. num(a) <= num(b) /\ chain[b][num(a)] = a
    BY <1>4 DEF On
  <2>3. num(a) # num(b)
    BY <1>2, <1>4, <2>2
  <2>4. num(a) \in 1..(num(b) - 1)
    BY <1>2, <2>1, <2>2, <2>3
  <2> QED BY <1>1, <2>1, <2>2, <2>4 DEF On
<1> QED BY <1>3, <1>4

LEMMA BetterOrder ==
    ASSUME NEW a \in Blocks, NEW b \in Blocks
    PROVE  /\ ~ Better(a, a) /\ ~ (Better(a, b) /\ Better(b, a))
           /\ ~ Better(a, b) /\ ~ Better(b, a) <=> Lib[a] = Lib[b] /\ num(a) = num(b)
           /\ ~ Better(b, a) => Lib[b] <= Lib[a]
           /\ Better(a, b) => Lib[b] <= Lib[a]
  BY BlockFacts DEF Better

LEMMA BetterTransitive ==
    ASSUME NEW a \in Blocks, NEW b \in Blocks, NEW c \in Blocks, ~ Better(b, a)
    PROVE  /\ Better(b, c) => Better(a, c)
           /\ Better(a, b) /\ ~ Better(c, b) => Better(a, c)
           /\ ~ Better(c, b) => ~ Better(c, a)
  BY BlockFacts DEF Better

-----------------------------------------------------------------------------
(***************************************************************************)
(* The first block of an index.                                            *)
(***************************************************************************)
LEMMA FirstUnique ==
    ASSUME NEW S \in SUBSET Blocks, NEW older, Ordered(S, older),
           NEW a, NEW b, IsFirst(a, S, older), IsFirst(b, S, older)
    PROVE  a = b
<1>1. a \in S /\ b \in S
  BY DEF IsFirst
<1> SUFFICES ASSUME a # b PROVE FALSE
  OBVIOUS
<1>2. Better(a, b) \/ (~ Better(b, a) /\ <<a, b>> \in older)
  BY <1>1 DEF IsFirst
<1>3. Better(b, a) \/ (~ Better(a, b) /\ <<b, a>> \in older)
  BY <1>1 DEF IsFirst
<1>4. a \in Blocks /\ b \in Blocks
  BY <1>1
<1>5. ~ (Better(a, b) /\ Better(b, a))
  BY <1>4, BetterOrder
<1>6. <<a, b>> \in older => <<b, a>> \notin older
  BY <1>1 DEF Ordered
<1> QED BY <1>2, <1>3, <1>5, <1>6

\* One more block: the first is that block or the first of the others.
LEMMA FirstOfMore ==
    ASSUME NEW S \in SUBSET Blocks, NEW older, Ordered(S, older),
           NEW x \in S, NEW a, IsFirst(a, S \ {x}, older)
    PROVE  IsFirst(a, S, older) \/ IsFirst(x, S, older)
<1>1. a \in S /\ a # x /\ a \in Blocks /\ x \in Blocks
  BY DEF IsFirst
<1>2. CASE Better(a, x) \/ (~ Better(x, a) /\ <<a, x>> \in older)
  BY <1>1, <1>2 DEF IsFirst
<1>3. CASE ~ (Better(a, x) \/ (~ Better(x, a) /\ <<a, x>> \in older))
  <2>1. Better(x, a) \/ (~ Better(x, a) /\ ~ Better(a, x) /\ <<x, a>> \in older)
    <3>1. ~ Better(x, a) => num(a) = num(x)
      BY <1>1, <1>3, BetterOrder
    <3> QED BY <1>1, <1>3, <3>1 DEF Ordered
  <2>2. ASSUME NEW c \in S \ {x}, c # a
        PROVE  Better(x, c) \/ (~ Better(c, x) /\ <<x, c>> \in older)
    <3>1. Better(a, c) \/ (~ Better(c, a) /\ <<a, c>> \in older)
      BY <2>2, <1>1 DEF IsFirst
    <3>2. c \in Blocks
      OBVIOUS
    <3>3. CASE Better(x, a)
      <4>1. ~ Better(c, a)
        BY <3>1, <3>2, <1>1, BetterOrder
      <4>2. ~ Better(a, x)
        BY <3>3, <1>1, BetterOrder
      <4> QED BY <4>1, <4>2, <3>2, <3>3, <1>1, BetterTransitive
    <3>4. CASE ~ Better(x, a) /\ ~ Better(a, x) /\ <<x, a>> \in older
      <4>1. CASE Better(a, c)
        BY <4>1, <3>2, <3>4, <1>1, BetterTransitive
      <4>2. CASE ~ Better(c, a) /\ <<a, c>> \in older
        <5>1. <<x, c>> \in older
          BY <4>2, <3>4, <1>1 DEF Ordered
        <5>2. ~ Better(c, x)
          BY <4>2, <3>2, <3>4, <1>1, BetterTransitive
        <5> QED BY <5>1, <5>2
      <4> QED BY <3>1, <4>1, <4>2
    <3> QED BY <2>1, <3>3, <3>4
  <2>3. \A c \in S \ {x} : Better(x, c) \/ (~ Better(c, x) /\ <<x, c>> \in older)
    <3>1. Better(x, a) \/ (~ Better(a, x) /\ <<x, a>> \in older)
      BY <2>1
    <3> QED BY <2>2, <3>1
  <2> QED BY <2>3 DEF IsFirst
<1> QED BY <1>2, <1>3

LEMMA OrderedSubset ==
    ASSUME NEW S, NEW older, Ordered(S, older), NEW T \in SUBSET S
    PROVE  /\ Ordered(T, older \cap (T \X T))
           /\ \A a : IsFirst(a, T, older \cap (T \X T)) <=> IsFirst(a, T, older)
<1>1. Ordered(T, older \cap (T \X T))
  BY DEF Ordered
<1>2. ASSUME NEW a PROVE IsFirst(a, T, older \cap (T \X T)) <=> IsFirst(a, T, older)
  <2>1. \A b \in T \ {a} : a \in T => (<<a, b>> \in older \cap (T \X T) <=> <<a, b>> \in older)
    OBVIOUS
  <2> QED BY <2>1 DEF IsFirst
<1> QED BY <1>1, <1>2

LEMMA FirstExists ==
    ASSUME NEW S \in SUBSET Blocks, IsFiniteSet(S), S # {}, NEW older, Ordered(S, older)
    PROVE  IsFirst(First(S, older), S, older)
<1> DEFINE None == {X \in SUBSET S : X # {} /\ ~ \E a : IsFirst(a, X, older)}
           R == StrictSubsetOrdering(S)
<1>1. None = {}
  <2> SUFFICES ASSUME None # {} PROVE FALSE
    OBVIOUS
  <2>1. IsWellFoundedOn(R, FiniteSubsetsOf(S))
    BY FS_StrictSubsetOrderingWellFounded, Zenon
  <2>2. None \subseteq FiniteSubsetsOf(S)
    BY FS_Subset DEF FiniteSubsetsOf
  <2>3. PICK X \in None : \A Y \in None : <<Y, X>> \notin R
    <3> HIDE DEF None, R
    <3> QED BY <2>1, <2>2, WFMin, Zenon
  <2>4. X \in SUBSET S /\ X # {} /\ ~ \E a : IsFirst(a, X, older)
    BY <2>3
  <2>5. PICK x : x \in X
    BY <2>4
  <2>6. CASE X \ {x} = {}
    <3>1. IsFirst(x, X, older)
      BY <2>5, <2>6 DEF IsFirst
    <3> QED BY <2>4, <3>1
  <2>7. CASE X \ {x} # {}
    <3>1. <<X \ {x}, X>> \in R
      <4>1. X \ {x} \in SUBSET S /\ X \in SUBSET S /\ X \ {x} \subseteq X /\ X \ {x} # X
        BY <2>4, <2>5
      <4> QED BY <4>1 DEF StrictSubsetOrdering
    <3>2. PICK a : IsFirst(a, X \ {x}, older)
      <4>1. X \ {x} \notin None
        BY <2>3, <3>1
      <4> QED BY <4>1, <2>4, <2>7
    <3>3. IsFirst(a, X, older) \/ IsFirst(x, X, older)
      <4>1. X \in SUBSET Blocks /\ Ordered(X, older \cap (X \X X)) /\ X \ {x} \in SUBSET X
        BY <2>4, OrderedSubset
      <4>2. IsFirst(a, X \ {x}, older \cap (X \X X))
        BY <3>2 DEF IsFirst
      <4>3. \/ IsFirst(a, X, older \cap (X \X X))
            \/ IsFirst(x, X, older \cap (X \X X))
        BY <4>1, <4>2, <2>5, FirstOfMore
      <4> QED BY <4>3 DEF IsFirst
    <3> QED BY <2>4, <3>3
  <2> QED BY <2>6, <2>7
<1>2. PICK a : IsFirst(a, S, older)
  BY <1>1
<1>3. a \in S
  BY <1>2 DEF IsFirst
<1> QED BY <1>2, <1>3 DEF First

LEMMA FirstIsBest ==
    ASSUME NEW S \in SUBSET Blocks, NEW older, NEW a, IsFirst(a, S, older)
    PROVE  BestIn(a, S)
<1>1. a \in S
  BY DEF IsFirst
<1>2. ASSUME NEW b \in S PROVE ~ Better(b, a)
  <2>1. a \in Blocks /\ b \in Blocks
    BY <1>1
  <2>2. CASE a = b
    BY <2>1, <2>2, BetterOrder
  <2>3. CASE a # b
    <3>1. Better(a, b) \/ ~ Better(b, a)
      BY <2>3 DEF IsFirst
    <3> QED BY <3>1, <2>1, BetterOrder
  <2> QED BY <2>2, <2>3
<1> QED BY <1>1, <1>2 DEF BestIn

\* The first block stays the first when others leave.
LEMMA FirstOfFewer ==
    ASSUME NEW S, NEW older, NEW a, IsFirst(a, S, older), NEW T \in SUBSET S, a \in T
    PROVE  IsFirst(a, T, older)
  BY DEF IsFirst

-----------------------------------------------------------------------------
(***************************************************************************)
(* The operations of the fork database.                                    *)
(***************************************************************************)
LEMMA ForkDbFields ==
    ASSUME NEW fdb \in ForkDbs
    PROVE  /\ fdb.index \in SUBSET Blocks /\ fdb.older \in SUBSET (Blocks \X Blocks)
           /\ fdb.in_current_chain \in SUBSET Blocks /\ fdb.validated \in SUBSET Blocks
           /\ fdb.head \in Blocks
  BY DEF ForkDbs

LEMMA KeepShape ==
    ASSUME NEW fdb, NEW n, ForkShape(fdb, n), NEW S, NEW m, Rooted(fdb.index \cap S, m)
    PROVE  /\ ForkShape(Keep(fdb, S), m)
           /\ Keep(fdb, S).index = fdb.index \cap S
           /\ \A a : IsFirst(a, fdb.index \cap S, fdb.older)
                     => IsFirst(a, Keep(fdb, S).index, Keep(fdb, S).older)
           /\ \A x, y \in Keep(fdb, S).index :
                 <<x, y>> \in fdb.older => <<x, y>> \in Keep(fdb, S).older
           /\ Keep(fdb, S).in_current_chain = fdb.in_current_chain \cap S
           /\ Keep(fdb, S).validated = fdb.validated \cap S
           /\ Keep(fdb, S).head = fdb.head
<1> DEFINE T == fdb.index \cap S
           g == Keep(fdb, S)
<1>1. /\ fdb \in ForkDbs /\ IsFiniteSet(fdb.index) /\ Ordered(fdb.index, fdb.older)
      /\ fdb.in_current_chain \subseteq fdb.index /\ fdb.validated \subseteq fdb.index \ Invalid
  BY DEF ForkShape
<1>2. /\ g.index = T /\ g.older = fdb.older \cap (S \X S)
      /\ g.in_current_chain = fdb.in_current_chain \cap S
      /\ g.validated = fdb.validated \cap S /\ g.head = fdb.head /\ g \in ForkDbs
  BY <1>1 DEF Keep, ForkDbs
<1>3. fdb.older \cap (S \X S) = fdb.older \cap (T \X T)
  BY <1>1 DEF Ordered
<1>4. /\ Ordered(T, fdb.older \cap (T \X T))
      /\ \A a : IsFirst(a, T, fdb.older \cap (T \X T)) <=> IsFirst(a, T, fdb.older)
  BY <1>1, OrderedSubset
<1>5. IsFiniteSet(T)
  BY <1>1, FS_Subset
<1> HIDE DEF T, g
<1>6. g.in_current_chain \subseteq T /\ g.validated \subseteq T \ Invalid
  BY <1>1, <1>2 DEF T
<1>7. Rooted(T, m)
  BY DEF T
<1>8. ForkShape(g, m)
  BY <1>2, <1>3, <1>4, <1>5, <1>6, <1>7 DEF ForkShape
<1>9. \A a : IsFirst(a, T, fdb.older) => IsFirst(a, g.index, g.older)
  BY <1>2, <1>3, <1>4
<1>10. \A x, y \in g.index : <<x, y>> \in fdb.older => <<x, y>> \in g.older
  BY <1>2, <1>3
<1> QED BY <1>2, <1>8, <1>9, <1>10 DEF T, g

LEMMA WithHeadInv ==
    ASSUME NEW fdb, NEW n, ForkShape(fdb, n), fdb.index # {}
    PROVE  /\ ForkInv(WithHead(fdb), n)
           /\ WithHead(fdb) = [fdb EXCEPT !.head = WithHead(fdb).head]
           /\ WithHead(fdb).index = fdb.index /\ WithHead(fdb).older = fdb.older
           /\ WithHead(fdb).in_current_chain = fdb.in_current_chain
           /\ WithHead(fdb).validated = fdb.validated
           /\ IsFirst(WithHead(fdb).head, fdb.index, fdb.older)
<1> DEFINE a == First(fdb.index, fdb.older)
           g == WithHead(fdb)
<1>1. /\ fdb \in ForkDbs /\ IsFiniteSet(fdb.index) /\ Ordered(fdb.index, fdb.older)
      /\ fdb.index \in SUBSET Blocks
  BY ForkDbFields DEF ForkShape
<1>2. IsFirst(a, fdb.index, fdb.older)
  BY <1>1, FirstExists
<1>3. BestIn(a, fdb.index) /\ a \in Blocks
  BY <1>1, <1>2, FirstIsBest DEF IsFirst
<1> HIDE DEF a
<1>4. g = [fdb EXCEPT !.head = a]
  BY DEF WithHead, a
<1>5. /\ g.index = fdb.index /\ g.older = fdb.older /\ g.head = a
      /\ g.in_current_chain = fdb.in_current_chain /\ g.validated = fdb.validated
      /\ g \in ForkDbs
  BY <1>1, <1>3, <1>4 DEF ForkDbs
<1> HIDE DEF g
<1>6. ForkShape(g, n)
  BY <1>5 DEF ForkShape
<1>7. ForkInv(g, n)
  BY <1>3, <1>5, <1>6 DEF ForkInv
<1> QED BY <1>2, <1>4, <1>5, <1>7 DEF g

NotOn(S, bad) == {b \in S : ~ On(bad, b)}

LEMMA RemoveInv ==
    ASSUME NEW fdb, NEW n \in Nat \ {0}, ForkShape(fdb, n), NEW bad \in Blocks,
           NEW h \in fdb.index, ~ On(bad, h)
    PROVE  /\ ForkInv(remove(fdb, bad), n)
           /\ remove(fdb, bad).index = NotOn(fdb.index, bad)
           /\ \A a : IsFirst(a, remove(fdb, bad).index, fdb.older)
                     => IsFirst(a, remove(fdb, bad).index, remove(fdb, bad).older)
           /\ remove(fdb, bad).in_current_chain = NotOn(fdb.in_current_chain, bad)
           /\ IsFirst(remove(fdb, bad).head, remove(fdb, bad).index, remove(fdb, bad).older)
<1> DEFINE S == {b \in fdb.index : ~ On(bad, b)}
           k == Keep(fdb, S)
           g == WithHead(k)
<1>1. /\ fdb.index \in SUBSET Blocks /\ Rooted(fdb.index, n) /\ fdb.index \cap S = S
      /\ fdb.in_current_chain \subseteq fdb.index
  BY ForkDbFields DEF ForkShape
<1>2. Rooted(S, n)
  <2> SUFFICES ASSUME NEW b \in S, NEW i \in n..num(b) PROVE n <= num(b) /\ chain[b][i] \in S
    BY <1>1 DEF Rooted
  <2>1. b \in Blocks /\ n <= num(b) /\ chain[b][i] \in fdb.index /\ i \in 1..num(b)
    BY <1>1, BlockFacts DEF Rooted
  <2>2. chain[b][i] \in Blocks /\ On(chain[b][i], b)
    BY <2>1, Below
  <2>3. ~ On(bad, chain[b][i])
    BY <2>1, <2>2, OnTransitive
  <2> QED BY <2>1, <2>3
<1>3. /\ ForkShape(k, n) /\ k.index = S
      /\ \A a : IsFirst(a, S, fdb.older) => IsFirst(a, S, k.older)
      /\ k.in_current_chain = fdb.in_current_chain \cap S
  <2>1. Rooted(fdb.index \cap S, n)
    BY <1>1, <1>2
  <2>2. /\ ForkShape(Keep(fdb, S), n) /\ Keep(fdb, S).index = fdb.index \cap S
        /\ \A a : IsFirst(a, fdb.index \cap S, fdb.older)
                  => IsFirst(a, Keep(fdb, S).index, Keep(fdb, S).older)
        /\ Keep(fdb, S).in_current_chain = fdb.in_current_chain \cap S
    BY <2>1, KeepShape
  <2> HIDE DEF S
  <2> QED BY <1>1, <2>2
<1>4. h \in S
  OBVIOUS
<1>5. remove(fdb, bad) = g
  BY DEF remove
<1>6. fdb.in_current_chain \cap S = {b \in fdb.in_current_chain : ~ On(bad, b)}
  BY <1>1
<1> HIDE DEF S, k
<1>7. /\ ForkInv(g, n) /\ g.index = S /\ g.older = k.older
      /\ g.in_current_chain = k.in_current_chain /\ IsFirst(g.head, g.index, g.older)
  BY <1>3, <1>4, WithHeadInv
<1> HIDE DEF g
<1> QED BY <1>3, <1>5, <1>6, <1>7 DEF S, NotOn

LEMMA InsertInv ==
    ASSUME NEW fdb, NEW n \in Nat \ {0}, ForkShape(fdb, n),
           NEW b \in Blocks, b \notin fdb.index, b # Genesis, prev(b) \in fdb.index
    PROVE  /\ ForkInv(Inserted(fdb, b), n)
           /\ Inserted(fdb, b).index = fdb.index \cup {b}
           /\ Inserted(fdb, b).in_current_chain = fdb.in_current_chain
           /\ IsFirst(Inserted(fdb, b).head, Inserted(fdb, b).index, Inserted(fdb, b).older)
           /\ Inserted(fdb, b).older \cap (fdb.index \X fdb.index) = fdb.older
<1> DEFINE I == fdb.index
           new == {a \in I : num(a) = num(b)} \X {b}
           g == Insert(fdb, b)
           J == I \cup {b}
           o == fdb.older \cup new
<1>1. /\ fdb \in ForkDbs /\ IsFiniteSet(I) /\ Ordered(I, fdb.older) /\ Rooted(I, n)
      /\ fdb.in_current_chain \subseteq I /\ fdb.validated \subseteq I \ Invalid
      /\ I \in SUBSET Blocks /\ fdb.older \in SUBSET (Blocks \X Blocks)
  BY ForkDbFields DEF ForkShape
<1>2. /\ g.index = J /\ g.older = o /\ g.in_current_chain = fdb.in_current_chain
      /\ g.validated = fdb.validated /\ g \in ForkDbs
  <2>1. J \in SUBSET Blocks /\ o \in SUBSET (Blocks \X Blocks)
    BY <1>1
  <2>2. g = [fdb EXCEPT !.index = J, !.older = o]
    BY DEF Insert
  <2> HIDE DEF J, o, g
  <2> QED BY <1>1, <2>1, <2>2 DEF ForkDbs
<1>3. IsFiniteSet(J)
  BY <1>1, FS_AddElement
<1>4. Ordered(J, o)
  <2>1. \A x, y : <<x, y>> \in new <=> x \in I /\ num(x) = num(b) /\ y = b
    OBVIOUS
  <2>2. fdb.older \subseteq I \X I /\ b \notin I
    BY <1>1 DEF Ordered
  <2>3. \A x, y : <<x, y>> \in o <=> <<x, y>> \in fdb.older \/ <<x, y>> \in new
    OBVIOUS
  <2>4. o \subseteq J \X J
    BY <2>2
  <2>5. \A x, y \in J : <<x, y>> \in fdb.older => x \in I /\ y \in I
    BY <2>2
  <2> HIDE DEF o, new
  <2>6. \A x, y \in J : <<x, y>> \in o => num(x) = num(y) /\ <<y, x>> \notin o
    BY <2>1, <2>2, <2>3, <2>5, <1>1 DEF Ordered
  <2>7. \A x, y \in J : x # y /\ num(x) = num(y) => <<x, y>> \in o \/ <<y, x>> \in o
    BY <2>1, <2>2, <2>3, <1>1 DEF Ordered
  <2>8. ASSUME NEW x \in J, NEW y \in J, NEW z \in J, <<x, y>> \in o, <<y, z>> \in o
        PROVE  <<x, z>> \in o
    <3>1. <<x, y>> \in fdb.older /\ x \in I /\ y \in I
      BY <2>1, <2>2, <2>3, <2>5, <2>8
    <3>2. CASE <<y, z>> \in fdb.older
      <4>1. z \in I
        BY <2>5, <3>2
      <4> QED BY <2>3, <3>1, <3>2, <4>1, <1>1 DEF Ordered
    <3>3. CASE <<y, z>> \in new
      <4>1. z = b /\ num(y) = num(b) /\ num(x) = num(y)
        BY <2>1, <3>1, <3>3, <1>1 DEF Ordered
      <4> QED BY <2>1, <2>3, <3>1, <4>1
    <3> QED BY <2>3, <2>8, <3>2, <3>3
  <2> QED BY <2>4, <2>6, <2>7, <2>8 DEF Ordered
<1>5. Rooted(J, n)
  <2> SUFFICES ASSUME NEW c \in J PROVE n <= num(c) /\ \A k \in n..num(c) : chain[c][k] \in J
    BY DEF Rooted
  <2>1. CASE c \in I
    BY <2>1, <1>1 DEF Rooted
  <2>2. CASE c = b
    <3>1. /\ num(prev(b)) = num(b) - 1 /\ num(b) \in Nat /\ chain[b][num(b)] = b
          /\ \A i \in 1..(num(b) - 1) : chain[prev(b)][i] = chain[b][i]
      BY PrevFacts, BlockFacts
    <3>2. n <= num(prev(b)) /\ \A k \in n..num(prev(b)) : chain[prev(b)][k] \in I
      BY <1>1 DEF Rooted
    <3>3. \A k \in n..num(b) : k = num(b) \/ (k \in n..num(prev(b)) /\ k \in 1..(num(b) - 1))
      BY <3>1
    <3> QED BY <2>2, <3>1, <3>2, <3>3
  <2> QED BY <2>1, <2>2
<1>6. o \cap (I \X I) = fdb.older
  BY <1>1 DEF Ordered
<1>7. g.in_current_chain \subseteq g.index /\ g.validated \subseteq g.index \ Invalid
  BY <1>1, <1>2
<1> HIDE DEF g, o, J
<1>8. ForkShape(g, n)
  BY <1>2, <1>3, <1>4, <1>5, <1>7 DEF ForkShape
<1>9. g.index # {}
  BY <1>2 DEF J
<1>10. Inserted(fdb, b) = WithHead(g)
  BY DEF Inserted, g
<1>11. /\ ForkInv(WithHead(g), n) /\ WithHead(g).index = J /\ WithHead(g).older = o
       /\ WithHead(g).in_current_chain = fdb.in_current_chain
       /\ IsFirst(WithHead(g).head, WithHead(g).index, WithHead(g).older)
  BY <1>2, <1>8, <1>9, WithHeadInv
<1> QED BY <1>6, <1>10, <1>11 DEF J

\* The oldest block is the one of head's chain.
LEMMA OldestIs ==
    ASSUME NEW fdb, NEW n \in Nat \ {0}, NEW h \in fdb.index, fdb.index \in SUBSET Blocks,
           Rooted(fdb.index, n), \A c \in fdb.in_current_chain : On(c, h),
           \A k \in n..num(h) : k > 1 => chain[h][k] \in fdb.in_current_chain
    PROVE  Oldest(fdb) = chain[h][n] /\ n \in 1..num(h)
<1> DEFINE x == chain[h][n]
<1>1. h \in Blocks /\ num(h) \in Nat /\ n <= num(h) /\ x \in fdb.index
  BY BlockFacts DEF Rooted
<1>2. n \in 1..num(h)
  BY <1>1
<1>3. num(x) = n
  BY <1>1, <1>2, Below
<1>4. n > 1 => x \in fdb.in_current_chain
  BY <1>1
<1>5. ASSUME NEW c \in fdb.index, num(c) = n, c # x
      PROVE  x \in fdb.in_current_chain /\ c \notin fdb.in_current_chain
  <2>1. c \in Blocks /\ x \in Blocks
    BY <1>1
  <2>2. n # 1
    BY <2>1, <1>3, <1>5, GenesisFacts
  <2>3. ~ On(c, h)
    BY <1>5 DEF On
  <2> QED BY <1>4, <2>2, <2>3
<1>6. \A c \in fdb.index : num(c) \in Nat /\ n <= num(c)
  BY BlockFacts DEF Rooted
<1> HIDE DEF x
<1>7. \A c \in fdb.index \ {x} : Before(x, c, fdb)
  BY <1>3, <1>5, <1>6 DEF Before
<1>8. ASSUME NEW a \in fdb.index, \A c \in fdb.index \ {a} : Before(a, c, fdb) PROVE a = x
  <2> SUFFICES ASSUME a # x PROVE FALSE
    OBVIOUS
  <2>1. Before(a, x, fdb)
    BY <1>1, <1>8
  <2>2. num(a) = n
    BY <2>1, <1>3, <1>6 DEF Before
  <2>3. x \in fdb.in_current_chain /\ a \notin fdb.in_current_chain
    BY <2>2, <1>5
  <2> QED BY <2>1, <2>2, <2>3, <1>3 DEF Before
<1>9. Oldest(fdb) = x
  BY <1>1, <1>7, <1>8 DEF Oldest
<1> QED BY <1>2, <1>9 DEF x

\* What add makes of fdb with head h: the index grows by b, or loses what is
\* not above the pruned block too.
AddedTo(fdb, h, b, f, m) ==
    /\ ForkInv(f, m) /\ IsFirst(f.head, f.index, f.older)
    /\ h \in f.index /\ f.index \subseteq fdb.index \cup {b}
    /\ f.in_current_chain = fdb.in_current_chain \cap f.index
    /\ f.head = b \/ f.head \in fdb.index
    /\ ~ Better(b, f.head)
    /\ m = 1 \/ m <= Lib[f.head]
    /\ \A x, y \in f.index \cap fdb.index : <<x, y>> \in fdb.older => <<x, y>> \in f.older
    /\ IsFirst(h, fdb.index, fdb.older) => f.head \in {h, b}

LEMMA InsertedOutcome ==
    ASSUME NEW fdb, NEW h, NEW n \in Nat \ {0}, NodeInv(fdb, h, n),
           NEW b \in Blocks, b \notin fdb.index, b # Genesis, prev(b) \in fdb.index
    PROVE  /\ AddedTo(fdb, h, b, Inserted(fdb, b), n)
           /\ Inserted(fdb, b).index = fdb.index \cup {b}
           /\ Oldest(Inserted(fdb, b)) = chain[h][n] /\ n \in 1..num(h)
<1> DEFINE f == Inserted(fdb, b)
           I == fdb.index
<1>1. /\ ForkShape(fdb, n) /\ BestIn(h, I) /\ (n = 1 \/ n <= Lib[h])
      /\ \A c \in fdb.in_current_chain : On(c, h)
      /\ \A k \in n..num(h) : k > 1 => chain[h][k] \in fdb.in_current_chain
  BY DEF NodeInv, ForkInv, ChainInv
<1>2. /\ I \in SUBSET Blocks /\ Ordered(I, fdb.older) /\ fdb.in_current_chain \subseteq I
      /\ h \in I
  BY <1>1, ForkDbFields DEF ForkShape, BestIn
<1>3. /\ ForkInv(f, n) /\ f.index = I \cup {b} /\ f.in_current_chain = fdb.in_current_chain
      /\ IsFirst(f.head, f.index, f.older) /\ f.older \cap (I \X I) = fdb.older
  BY <1>1, InsertInv
<1> HIDE DEF f
<1>4. f.head \in I \cup {b} /\ BestIn(f.head, I \cup {b}) /\ Rooted(f.index, n)
  BY <1>3 DEF ForkInv, ForkShape, BestIn
<1>5. n = 1 \/ n <= Lib[f.head]
  <2>1. h \in Blocks /\ f.head \in Blocks /\ ~ Better(h, f.head)
    BY <1>2, <1>4 DEF BestIn
  <2>2. Lib[h] <= Lib[f.head]
    BY <2>1, BetterOrder
  <2> QED BY <1>1, <2>1, <2>2, BlockFacts
<1>6. \A x, y \in f.index \cap I : <<x, y>> \in fdb.older => <<x, y>> \in f.older
  BY <1>3
<1>7. ASSUME IsFirst(h, I, fdb.older) PROVE f.head \in {h, b}
  <2> SUFFICES ASSUME f.head # b PROVE f.head = h
    OBVIOUS
  <2>1. f.head \in I
    BY <1>4
  <2>2. \A c \in I \ {f.head} : <<f.head, c>> \in f.older => <<f.head, c>> \in fdb.older
    BY <1>3, <2>1
  <2>3. IsFirst(f.head, I, f.older)
    BY <1>3, <2>1, FirstOfFewer
  <2>4. IsFirst(f.head, I, fdb.older)
    BY <2>1, <2>2, <2>3 DEF IsFirst
  <2> QED BY <1>2, <1>7, <2>4, FirstUnique
<1>8. AddedTo(fdb, h, b, f, n)
  <2>1. f.in_current_chain = fdb.in_current_chain \cap f.index /\ h \in f.index
    BY <1>2, <1>3
  <2>2. ~ Better(b, f.head)
    BY <1>4 DEF BestIn
  <2> QED BY <1>3, <1>4, <1>5, <1>6, <1>7, <2>1, <2>2 DEF AddedTo
<1>9. Oldest(f) = chain[h][n] /\ n \in 1..num(h)
  <2>1. h \in f.index /\ f.index \in SUBSET Blocks
    BY <1>2, <1>3
  <2> QED BY <1>1, <1>3, <1>4, <2>1, OldestIs
<1> QED BY <1>3, <1>8, <1>9 DEF f

LEMMA PrunedOutcome ==
    ASSUME NEW fdb, NEW h, NEW n \in Nat \ {0}, NodeInv(fdb, h, n),
           NEW b \in Blocks, b \notin fdb.index, b # Genesis, prev(b) \in fdb.index,
           n < Lib[Inserted(fdb, b).head]
    PROVE  /\ AddedTo(fdb, h, b, prune(Inserted(fdb, b), chain[h][n]), n + 1)
           /\ n < num(h)
           /\ prune(Inserted(fdb, b), chain[h][n]).head = Inserted(fdb, b).head
<1> DEFINE f == Inserted(fdb, b)
           I == fdb.index
           x == chain[h][n]
           nh == f.head
           K == {c \in f.index \ {x} : \A s \in Siblings(f, x) : ~ On(s, c)}
           g == Keep(f, K)
<1>1. /\ BestIn(h, I) /\ (n = 1 \/ n <= Lib[h]) /\ I \in SUBSET Blocks /\ h \in I
  BY ForkDbFields DEF NodeInv, ForkInv, ForkShape, ChainInv, BestIn
<1>2. AddedTo(fdb, h, b, f, n) /\ f.index = I \cup {b} /\ n \in 1..num(h)
  BY InsertedOutcome
<1> HIDE DEF f
<1>3. /\ ForkShape(f, n) /\ IsFirst(nh, f.index, f.older) /\ h \in f.index /\ nh \in f.index
      /\ Rooted(f.index, n) /\ f.index \in SUBSET Blocks /\ h \in Blocks /\ nh \in Blocks
      /\ BestIn(nh, f.index) /\ Ordered(f.index, f.older)
  BY <1>1, <1>2, ForkDbFields DEF AddedTo, ForkInv, ForkShape, BestIn
<1>4. /\ Lib[nh] \in Nat /\ Lib[h] \in Nat /\ num(nh) \in Nat /\ num(h) \in Nat
      /\ Lib[nh] < num(nh) /\ Lib[h] < num(h) /\ n < Lib[nh]
  BY <1>3, BlockFacts DEF f
<1>5. x \in Blocks /\ num(x) = n /\ x \in f.index
  BY <1>2, <1>3, Below DEF Rooted
<1>6. chain[nh][n] = x
  <2>1. CASE n = 1
    BY <2>1, <1>3, BlockFacts
  <2>2. CASE n <= Lib[h]
    <3>1. n \in 1..Lower(Lib[nh], Lib[h])
      BY <2>2, <1>4 DEF Lower
    <3> QED BY <3>1, <1>3, LibAgreement
  <2> QED BY <1>1, <2>1, <2>2
<1>7. n < num(h)
  <2> SUFFICES ASSUME num(h) = n PROVE FALSE
    BY <1>2, <1>4
  <2>1. n = 1 /\ h = Genesis /\ Lib[h] = 0
    BY <1>1, <1>3, <1>4, GenesisFacts
  <2>2. nh \notin I
    <3> SUFFICES ASSUME nh \in I PROVE FALSE
      OBVIOUS
    <3>1. ~ Better(nh, h)
      BY <1>1 DEF BestIn
    <3> QED BY <3>1, <2>1, <1>3, <1>4, BetterOrder
  <2>3. nh = b
    BY <1>2, <1>3, <2>2
  <2>4. /\ prev(b) \in Blocks /\ num(prev(b)) = num(b) - 1 /\ Lib[prev(b)] \in Nat
        /\ num(prev(b)) \in Nat
    BY PrevFacts, BlockFacts
  <2>5. ~ Better(prev(b), h)
    BY <1>1 DEF BestIn
  <2>6. num(prev(b)) <= 1
    BY <2>1, <2>4, <2>5, <1>4, GenesisFacts DEF Better
  <2> QED BY <2>1, <2>3, <2>4, <2>6, <1>4
<1>8. \A c \in f.index : c \in K <=> n + 1 <= num(c) /\ chain[c][n] = x
  <2> SUFFICES ASSUME NEW c \in f.index PROVE c \in K <=> n + 1 <= num(c) /\ chain[c][n] = x
    OBVIOUS
  <2>1. /\ c \in Blocks /\ num(c) \in Nat /\ n <= num(c) /\ chain[c][n] \in f.index
        /\ chain[c][num(c)] = c /\ n \in 1..num(c)
    BY <1>2, <1>3, BlockFacts DEF Rooted
  <2>2. num(chain[c][n]) = n /\ On(chain[c][n], c)
    BY <2>1, Below
  <2>3. ASSUME chain[c][n] # x PROVE c \notin K
    <3>1. chain[c][n] \in Siblings(f, x)
      BY <2>1, <2>2, <2>3, <1>5 DEF Siblings
    <3> QED BY <2>2, <3>1
  <2>4. ASSUME chain[c][n] = x PROVE \A s \in Siblings(f, x) : ~ On(s, c)
    BY <2>4, <1>5 DEF Siblings, On
  <2>5. chain[c][n] = x => (c # x <=> n + 1 <= num(c))
    BY <2>1, <1>5
  <2> QED BY <2>3, <2>4, <2>5
<1>9. f.index \cap K = K
  OBVIOUS
<1>10. Rooted(K, n + 1)
  <2> SUFFICES ASSUME NEW c \in K
               PROVE  n + 1 <= num(c) /\ \A k \in (n + 1)..num(c) : chain[c][k] \in K
    BY DEF Rooted
  <2>1. c \in f.index /\ n + 1 <= num(c) /\ chain[c][n] = x /\ c \in Blocks /\ num(c) \in Nat
    BY <1>3, <1>8, BlockFacts
  <2>2. ASSUME NEW k \in (n + 1)..num(c) PROVE chain[c][k] \in K
    <3>1. k \in n..num(c) /\ k \in 1..num(c) /\ n \in 1..k /\ k \in Nat
      BY <2>1
    <3>2. /\ chain[c][k] \in f.index /\ num(chain[c][k]) = k
          /\ chain[chain[c][k]][n] = chain[c][n]
      BY <2>1, <3>1, <1>3, Below DEF Rooted
    <3> QED BY <2>1, <3>1, <3>2, <1>8
  <2> QED BY <2>1, <2>2
<1>11. h \in K /\ nh \in K
  BY <1>3, <1>4, <1>6, <1>7, <1>8
<1>12. K \subseteq f.index
  OBVIOUS
<1> HIDE DEF K
<1>13. /\ ForkShape(g, n + 1) /\ g.index = K /\ g.head = nh
       /\ IsFirst(nh, K, f.older) => IsFirst(nh, K, g.older)
       /\ \A y, z \in K : <<y, z>> \in f.older => <<y, z>> \in g.older
       /\ g.in_current_chain = f.in_current_chain \cap K
  <2>1. Rooted(f.index \cap K, n + 1)
    BY <1>9, <1>10
  <2>2. /\ ForkShape(g, n + 1) /\ g.index = f.index \cap K /\ g.head = f.head
        /\ \A a : IsFirst(a, f.index \cap K, f.older) => IsFirst(a, g.index, g.older)
        /\ \A y, z \in g.index : <<y, z>> \in f.older => <<y, z>> \in g.older
        /\ g.in_current_chain = f.in_current_chain \cap K
    BY <1>3, <2>1, KeepShape
  <2> HIDE DEF g
  <2> QED BY <1>9, <2>2
<1>14. prune(f, x) = IF Siblings(f, x) = {} THEN g ELSE WithHead(g)
  BY DEF prune, K
<1> HIDE DEF g
<1>15. IsFirst(nh, K, g.older)
  BY <1>3, <1>11, <1>12, <1>13, FirstOfFewer
<1>16. AddedTo(fdb, h, b, g, n + 1)
  <2>1. BestIn(nh, K)
    BY <1>3, <1>11, <1>12 DEF BestIn
  <2>2. ForkInv(g, n + 1)
    BY <1>13, <2>1 DEF ForkInv
  <2>3. n + 1 <= Lib[nh]
    BY <1>4
  <2>4. g.in_current_chain = fdb.in_current_chain \cap g.index
    BY <1>2, <1>12, <1>13 DEF AddedTo
  <2>5. \A y, z \in g.index \cap I : <<y, z>> \in fdb.older => <<y, z>> \in g.older
    BY <1>2, <1>12, <1>13 DEF AddedTo
  <2>6. nh = b \/ nh \in I
    BY <1>2, <1>3
  <2>7. IsFirst(h, I, fdb.older) => nh \in {h, b}
    BY <1>2 DEF AddedTo
  <2>8. h \in g.index /\ g.index \subseteq I \cup {b}
    BY <1>2, <1>11, <1>12, <1>13
  <2>9. ~ Better(b, nh)
    BY <1>2 DEF AddedTo
  <2> QED BY <1>13, <1>15, <2>2, <2>3, <2>4, <2>5, <2>6, <2>7, <2>8, <2>9 DEF AddedTo
<1>17. WithHead(g) = g
  <2>1. g.index # {}
    BY <1>11, <1>13
  <2>2. /\ WithHead(g) = [g EXCEPT !.head = WithHead(g).head]
        /\ IsFirst(WithHead(g).head, g.index, g.older)
    BY <1>13, <2>1, WithHeadInv
  <2>3. g \in ForkDbs /\ g.index \in SUBSET Blocks /\ Ordered(g.index, g.older)
    BY <1>13, ForkDbFields DEF ForkShape
  <2>4. WithHead(g).head = nh
    BY <1>13, <1>15, <2>2, <2>3, FirstUnique
  <2>5. [g EXCEPT !.head = nh] = g
    BY <2>3, <1>13 DEF ForkDbs
  <2> QED BY <2>2, <2>4, <2>5
<1> QED BY <1>7, <1>13, <1>14, <1>16, <1>17 DEF f

LEMMA AddOutcome ==
    ASSUME NEW fdb, NEW h, NEW n \in Nat \ {0}, NodeInv(fdb, h, n),
           NEW b \in Blocks, b \notin fdb.index, b # Genesis, prev(b) \in fdb.index
    PROVE  /\ n \in 1..num(h)
           /\ \/ Pruned(fdb, b) = <<>> /\ AddedTo(fdb, h, b, add(fdb, b), n)
              \/ /\ Pruned(fdb, b) = <<chain[h][n]>> /\ n < num(h)
                 /\ AddedTo(fdb, h, b, add(fdb, b), n + 1)
<1> DEFINE f == Inserted(fdb, b)
<1>1. /\ AddedTo(fdb, h, b, f, n) /\ Oldest(f) = chain[h][n] /\ n \in 1..num(h)
  BY InsertedOutcome
<1>2. h \in Blocks /\ num(chain[h][n]) = n
  <2>1. h \in Blocks
    BY ForkDbFields DEF NodeInv, ForkInv, ForkShape, ChainInv, BestIn
  <2> QED BY <2>1, <1>1, Below
<1>3. /\ Pruned(fdb, b) = IF n < Lib[f.head] THEN <<chain[h][n]>> ELSE <<>>
      /\ add(fdb, b) = IF Pruned(fdb, b) = <<>> THEN f ELSE prune(f, chain[h][n])
  BY <1>1, <1>2 DEF Pruned, add
<1>4. CASE n < Lib[f.head]
  <2>1. AddedTo(fdb, h, b, prune(f, chain[h][n]), n + 1) /\ n < num(h)
    BY <1>4, PrunedOutcome
  <2>2. Pruned(fdb, b) = <<chain[h][n]>> /\ Pruned(fdb, b) # <<>>
    BY <1>3, <1>4
  <2> QED BY <1>1, <1>3, <2>1, <2>2
<1>5. CASE ~ (n < Lib[f.head])
  BY <1>1, <1>3, <1>5
<1> QED BY <1>4, <1>5

-----------------------------------------------------------------------------
(***************************************************************************)
(* The new head, and what each outcome of maybe_switch_forks leaves.       *)
(***************************************************************************)
LEMMA NewHead ==
    ASSUME NEW fdb, NEW h, NEW n, NodeInv(fdb, h, n),
           NEW b \in Blocks, b \notin fdb.index, NEW f, NEW m, AddedTo(fdb, h, b, f, m)
    PROVE  /\ h \in Blocks /\ f.head \in Blocks /\ h # b /\ Lib[h] <= Lib[f.head]
           /\ f.index \in SUBSET Blocks /\ f.head \in f.index /\ h \in f.index
           /\ ~ Better(h, f.head)
           /\ f.head # b => /\ Lib[f.head] = Lib[h] /\ num(f.head) = num(h)
                            /\ ~ Better(f.head, h)
           /\ f.head # Genesis /\ prev(f.head) = h => f.head = b
<1>1. BestIn(h, fdb.index) /\ fdb.index \in SUBSET Blocks
  BY ForkDbFields DEF NodeInv, ForkInv, ForkShape, ChainInv
<1>2. BestIn(f.head, f.index) /\ f.index \in SUBSET Blocks /\ h \in f.index
  BY ForkDbFields DEF AddedTo, ForkInv, ForkShape
<1>3. h \in Blocks /\ f.head \in Blocks /\ f.head \in f.index /\ ~ Better(h, f.head) /\ h # b
  BY <1>1, <1>2 DEF BestIn
<1>4. Lib[h] <= Lib[f.head]
  BY <1>3, BetterOrder
<1>5. ASSUME f.head # b
      PROVE  Lib[f.head] = Lib[h] /\ num(f.head) = num(h) /\ ~ Better(f.head, h)
  <2>1. f.head \in fdb.index
    BY <1>5 DEF AddedTo
  <2>2. ~ Better(f.head, h)
    BY <1>1, <2>1 DEF BestIn
  <2> QED BY <1>3, <2>2, BetterOrder
<1>6. ASSUME f.head # Genesis, prev(f.head) = h, f.head # b PROVE FALSE
  <2>1. num(h) = num(f.head) - 1 /\ num(h) \in Nat /\ num(f.head) \in Nat
    BY <1>3, <1>6, PrevFacts, BlockFacts
  <2> QED BY <2>1, <1>5, <1>6
<1> QED BY <1>2, <1>3, <1>4, <1>5, <1>6

\* A block that is not valid moves the irreversible number of nobody.
LEMMA NothingMoves ==
    ASSUME Environment,
           NEW fdb, NEW h, NEW n, NodeInv(fdb, h, n),
           NEW b \in Blocks, b \notin fdb.index, b # Genesis, prev(b) \in fdb.index,
           NEW f, NEW m, AddedTo(fdb, h, b, f, m), ~ ValidChain(f.head)
    PROVE  Lib[f.head] <= Lib[h]
<1>1. /\ h \in Blocks /\ f.head \in Blocks
      /\ f.head # b => Lib[f.head] = Lib[h]
  BY NewHead
<1>2. CASE f.head # b
  BY <1>1, <1>2, BlockFacts
<1>3. CASE f.head = b
  <2>1. PICK a \in Blocks : On(a, b) /\ ValidChain(a) /\ Lib[b] <= Lib[a]
    BY <1>3 DEF Environment, InvalidMovesNothing
  <2>2. a # b
    BY <2>1, <1>3
  <2>3. On(a, prev(b)) /\ prev(b) \in Blocks
    BY <2>1, <2>2, OnPrev, PrevFacts
  <2>4. Lib[a] <= Lib[prev(b)]
    <3>1. num(a) \in 1..num(prev(b)) /\ chain[prev(b)][num(a)] = a
      BY <2>3, BlockFacts DEF On
    <3> QED BY <2>3, <3>1 DEF Environment, LibGrows
  <2>5. ~ Better(prev(b), h)
    BY DEF NodeInv, ChainInv, BestIn
  <2>6. Lib[prev(b)] <= Lib[h]
    BY <1>1, <2>3, <2>5, BetterOrder
  <2> QED BY <1>1, <1>3, <2>1, <2>3, <2>4, <2>6, BlockFacts
<1> QED BY <1>2, <1>3

LEMMA FlagsKept ==
    ASSUME NEW fdb, NEW h, NEW n \in Nat \ {0}, NodeInv(fdb, h, n),
           NEW b \in Blocks, b \notin fdb.index, NEW f, NEW m \in {n, n + 1},
           AddedTo(fdb, h, b, f, m)
    PROVE  /\ \A c \in f.in_current_chain : On(c, h)
           /\ \A k \in m..num(h) : k > 1 => chain[h][k] \in f.in_current_chain
<1>1. /\ h \in f.index /\ Rooted(f.index, m) /\ f.in_current_chain = fdb.in_current_chain \cap f.index
  BY DEF AddedTo, ForkInv, ForkShape
<1>2. /\ \A c \in fdb.in_current_chain : On(c, h)
      /\ \A k \in n..num(h) : k > 1 => chain[h][k] \in fdb.in_current_chain
  BY DEF NodeInv, ChainInv
<1>3. ASSUME NEW k \in m..num(h), k > 1 PROVE chain[h][k] \in f.in_current_chain
  <2>1. k \in n..num(h)
    OBVIOUS
  <2>2. chain[h][k] \in f.index
    BY <1>1 DEF Rooted
  <2> QED BY <1>1, <1>2, <1>3, <2>1, <2>2
<1> QED BY <1>1, <1>2, <1>3

\* f with the current chain C and the blocks V found valid.
Flagged(f, C, V) == [f EXCEPT !.in_current_chain = C, !.validated = f.validated \cup V]

LEMMA FlaggedInv ==
    ASSUME NEW f, NEW m, ForkInv(f, m), NEW C \in SUBSET f.index,
           NEW V \in SUBSET (f.index \ Invalid)
    PROVE  /\ ForkInv(Flagged(f, C, V), m)
           /\ Flagged(f, C, V).index = f.index /\ Flagged(f, C, V).older = f.older
           /\ Flagged(f, C, V).head = f.head /\ Flagged(f, C, V).in_current_chain = C
<1> DEFINE g == Flagged(f, C, V)
<1>1. f \in ForkDbs /\ f.index \in SUBSET Blocks /\ f.validated \subseteq f.index \ Invalid
  BY ForkDbFields DEF ForkInv, ForkShape
<1>2. /\ g.index = f.index /\ g.older = f.older /\ g.head = f.head
      /\ g.in_current_chain = C /\ g.validated = f.validated \cup V /\ g \in ForkDbs
  <2>1. C \in SUBSET Blocks /\ f.validated \cup V \in SUBSET Blocks
    BY <1>1
  <2> QED BY <1>1, <2>1 DEF ForkDbs, Flagged
<1> HIDE DEF g
<1>3. ForkShape(g, m)
  <2>1. g.validated \subseteq g.index \ Invalid
    BY <1>1, <1>2
  <2> QED BY <1>2, <2>1 DEF ForkInv, ForkShape
<1>4. ForkInv(g, m)
  BY <1>2, <1>3 DEF ForkInv
<1> QED BY <1>2, <1>4 DEF g

\* Nothing better arrived.
LEMMA SameHead ==
    ASSUME NEW fdb, NEW h, NEW n \in Nat \ {0}, NodeInv(fdb, h, n),
           NEW b \in Blocks, b \notin fdb.index, NEW f, NEW m \in {n, n + 1},
           AddedTo(fdb, h, b, f, m), f.head = h
    PROVE  NodeInv(f, h, m)
<1>1. ForkInv(f, m) /\ BestIn(h, f.index) /\ (m = 1 \/ m <= Lib[h])
  BY DEF AddedTo, ForkInv
<1>2. ValidChain(h)
  BY DEF NodeInv, ChainInv
<1> QED BY <1>1, <1>2, FlagsKept DEF NodeInv, ChainInv

\* The new head was rejected because of bad, a block of its chain; V are
\* the blocks below it that were found valid.
ValidIn(V, S) == V \in SUBSET (S \ Invalid)
RejectedDb(f, V, bad) == remove(Flagged(f, f.in_current_chain, V), bad)

LEMMA Rejected ==
    ASSUME Environment,
           NEW fdb, NEW h, NEW n \in Nat \ {0}, NodeInv(fdb, h, n),
           NEW b \in Blocks, b \notin fdb.index, b # Genesis, prev(b) \in fdb.index,
           NEW f, NEW m \in {n, n + 1}, AddedTo(fdb, h, b, f, m),
           NEW V, ValidIn(V, f.index), NEW bad \in Invalid, On(bad, f.head),
           NEW g, g = RejectedDb(f, V, bad)
    PROVE  /\ NodeInv(g, h, m)
           /\ IsFirst(h, fdb.index, fdb.older) => g.head = h /\ IsFirst(h, g.index, g.older)
<1> DEFINE e == Flagged(f, f.in_current_chain, V)
           I == fdb.index
<1>1. /\ h \in Blocks /\ f.head \in Blocks /\ h # b /\ f.head \in f.index
      /\ f.head # b => ~ Better(f.head, h)
      /\ f.index \in SUBSET Blocks /\ h \in f.index
  BY NewHead
<1>2. bad \in Blocks
  BY BlocksAssumption
<1>3. ASSUME NEW c \in Blocks, On(bad, c) PROVE ~ ValidChain(c)
  <2>1. num(bad) \in 1..num(c) /\ chain[c][num(bad)] = bad
    BY <1>2, <1>3, BlockFacts DEF On
  <2> QED BY <2>1 DEF ValidChain
<1>4. ValidChain(h) /\ BestIn(h, I)
  BY DEF NodeInv, ChainInv
<1>5. ~ On(bad, h) /\ f.head # h
  BY <1>1, <1>3, <1>4
<1>6. ForkInv(f, m) /\ f.in_current_chain \in SUBSET f.index
  BY DEF AddedTo, ForkInv, ForkShape
<1>7. /\ ForkInv(e, m) /\ e.index = f.index /\ e.older = f.older
      /\ e.in_current_chain = f.in_current_chain
  BY <1>6, FlaggedInv DEF ValidIn
<1> HIDE DEF e
<1>8. /\ ForkInv(g, m) /\ g.index = {c \in f.index : ~ On(bad, c)}
      /\ \A a : IsFirst(a, g.index, e.older) => IsFirst(a, g.index, g.older)
      /\ g.in_current_chain = {c \in f.in_current_chain : ~ On(bad, c)}
      /\ IsFirst(g.head, g.index, g.older)
  <2>1. ForkShape(e, m) /\ h \in e.index /\ m \in Nat \ {0}
    BY <1>1, <1>7 DEF ForkInv
  <2>2. g = remove(e, bad)
    BY DEF RejectedDb, e
  <2>3. /\ ForkInv(g, m) /\ g.index = NotOn(e.index, bad)
        /\ \A a : IsFirst(a, g.index, e.older) => IsFirst(a, g.index, g.older)
        /\ g.in_current_chain = NotOn(e.in_current_chain, bad)
        /\ IsFirst(g.head, g.index, g.older)
    BY <1>2, <1>5, <2>1, <2>2, RemoveInv
  <2> QED BY <1>7, <2>3 DEF NotOn
<1>9. ASSUME NEW c \in g.index PROVE ~ Better(c, h)
  <2>1. c \in f.index /\ c \in Blocks /\ ~ On(bad, c)
    BY <1>1, <1>8
  <2>2. CASE c \in I
    BY <2>2, <1>4 DEF BestIn
  <2>3. CASE c = b
    <3>1. f.head # b
      BY <2>1, <2>3
    <3>2. ~ Better(b, f.head)
      BY DEF AddedTo
    <3> QED BY <2>3, <3>1, <3>2, <1>1, BetterTransitive
  <2> QED BY <2>1, <2>2, <2>3 DEF AddedTo
<1>10. h \in g.index
  BY <1>1, <1>5, <1>8
<1>11. m = 1 \/ m <= Lib[h]
  <2>1. Lib[f.head] <= Lib[h]
    BY <1>1, <1>3, NothingMoves
  <2>2. m = 1 \/ m <= Lib[f.head]
    BY DEF AddedTo
  <2> QED BY <1>1, <2>1, <2>2, BlockFacts
<1>12. \A c \in g.in_current_chain : On(c, h)
  BY <1>8, FlagsKept
<1>13. ASSUME NEW k \in m..num(h), k > 1 PROVE chain[h][k] \in g.in_current_chain
  <2>1. chain[h][k] \in f.in_current_chain
    BY <1>13, FlagsKept
  <2>2. k \in 1..num(h)
    BY <1>1, BlockFacts
  <2>3. chain[h][k] \in Blocks /\ On(chain[h][k], h)
    BY <1>1, <2>2, Below
  <2>4. ~ On(bad, chain[h][k])
    BY <1>1, <1>2, <1>5, <2>3, OnTransitive
  <2> QED BY <1>8, <2>1, <2>4
<1>14. NodeInv(g, h, m)
  BY <1>4, <1>8, <1>9, <1>10, <1>11, <1>12, <1>13 DEF NodeInv, ChainInv, BestIn
<1>15. ASSUME IsFirst(h, I, fdb.older)
       PROVE  g.head = h /\ IsFirst(h, g.index, g.older)
  <2>1. f.head = b
    BY <1>5, <1>15 DEF AddedTo
  <2>2. g.index \subseteq I \cap f.index
    BY <1>8, <2>1 DEF AddedTo
  <2>3. \A c \in g.index \ {h} : <<h, c>> \in fdb.older => <<h, c>> \in f.older
    BY <2>2, <1>10 DEF AddedTo
  <2>4. IsFirst(h, g.index, e.older)
    BY <2>2, <2>3, <1>7, <1>10, <1>15 DEF IsFirst
  <2>5. IsFirst(h, g.index, g.older)
    BY <1>8, <2>4
  <2>6. g.index \in SUBSET Blocks /\ Ordered(g.index, g.older)
    BY <1>8, ForkDbFields DEF ForkInv, ForkShape
  <2> QED BY <1>8, <2>5, <2>6, FirstUnique
<1> QED BY <1>14, <1>15

\* A block on head is better than head, and becomes the fork database's head.
LEMMA ChildIsBetter ==
    ASSUME Environment, NEW b \in Blocks, b # Genesis
    PROVE  Better(b, prev(b)) /\ Lib[prev(b)] <= Lib[b]
<1>1. /\ prev(b) \in Blocks /\ num(prev(b)) = num(b) - 1 /\ prev(b) = chain[b][num(b) - 1]
      /\ 2 <= num(b) /\ num(b) \in Nat /\ Lib[b] \in Nat
  BY PrevFacts, BlockFacts
<1>2. num(b) - 1 \in 1..num(b) /\ Lib[prev(b)] \in Nat
  BY <1>1, BlockFacts
<1>3. Lib[prev(b)] <= Lib[b]
  BY <1>1, <1>2 DEF Environment, LibGrows
<1> QED BY <1>1, <1>2, <1>3 DEF Better

LEMMA ChildBecomesHead ==
    ASSUME Environment, NEW fdb, NEW h, NEW n, NodeInv(fdb, h, n),
           NEW b \in Blocks, b \notin fdb.index, b # Genesis, prev(b) = h,
           NEW f, NEW m, AddedTo(fdb, h, b, f, m)
    PROVE  f.head = b
<1> SUFFICES ASSUME f.head # b PROVE FALSE
  OBVIOUS
<1>1. h \in Blocks /\ f.head \in Blocks /\ ~ Better(f.head, h)
  BY NewHead
<1>2. ~ Better(b, f.head) /\ Better(b, h)
  BY ChildIsBetter DEF AddedTo
<1>3. ~ Better(b, h)
  BY <1>1, <1>2, BetterTransitive
<1> QED BY <1>2, <1>3

\* The new head is on head and valid.
ExtendedDb(f, b) == Flagged(f, f.in_current_chain \cup {b}, {b})

LEMMA Extended ==
    ASSUME NEW fdb, NEW h, NEW n \in Nat \ {0}, NodeInv(fdb, h, n),
           NEW b \in Blocks, b \notin fdb.index, b # Genesis, prev(b) = h, b \notin Invalid,
           NEW f, NEW m \in {n, n + 1}, AddedTo(fdb, h, b, f, m), f.head = b,
           NEW g, g = ExtendedDb(f, b)
    PROVE  NodeInv(g, b, m) /\ g.head = b /\ IsFirst(b, g.index, g.older)
<1>1. /\ h \in Blocks /\ b \in f.index /\ num(h) = num(b) - 1 /\ num(b) \in Nat
      /\ chain[b][num(b)] = b /\ On(h, b)
      /\ \A i \in 1..(num(b) - 1) : chain[h][i] = chain[b][i]
  BY NewHead, PrevFacts, BlockFacts, OnPrev
<1>2. /\ ForkInv(f, m) /\ f.in_current_chain \cup {b} \in SUBSET f.index
      /\ {b} \in SUBSET (f.index \ Invalid) /\ IsFirst(b, f.index, f.older)
      /\ BestIn(b, f.index) /\ (m = 1 \/ m <= Lib[b])
  BY <1>1 DEF AddedTo, ForkInv, ForkShape
<1>3. /\ ForkInv(g, m) /\ g.index = f.index /\ g.older = f.older /\ g.head = b
      /\ g.in_current_chain = f.in_current_chain \cup {b}
  BY <1>2, FlaggedInv DEF ExtendedDb
<1>4. ValidChain(b)
  <2>1. ValidChain(h)
    BY DEF NodeInv, ChainInv
  <2>2. \A k \in 1..num(b) : k = num(b) \/ (k \in 1..(num(b) - 1) /\ k \in 1..num(h))
    BY <1>1
  <2> QED BY <1>1, <2>1, <2>2 DEF ValidChain
<1>5. ASSUME NEW c \in g.in_current_chain PROVE On(c, b)
  <2>1. CASE c = b
    BY <2>1, OnSelf
  <2>2. CASE c \in f.in_current_chain
    <3>1. On(c, h) /\ c \in Blocks
      BY <2>2, <1>2, FlagsKept, ForkDbFields DEF ForkInv, ForkShape
    <3> QED BY <3>1, <1>1, OnTransitive
  <2> QED BY <2>1, <2>2, <1>3
<1>6. ASSUME NEW k \in m..num(b), k > 1 PROVE chain[b][k] \in g.in_current_chain
  <2>1. CASE k = num(b)
    BY <2>1, <1>1, <1>3
  <2>2. CASE k # num(b)
    <3>1. k \in m..num(h) /\ k \in 1..(num(b) - 1)
      BY <2>2, <1>1, <1>6
    <3>2. chain[h][k] \in f.in_current_chain
      BY <3>1, <1>6, FlagsKept
    <3> QED BY <3>1, <3>2, <1>1, <1>3
  <2> QED BY <2>1, <2>2
<1>7. BestIn(b, g.index)
  BY <1>2, <1>3
<1> QED BY <1>2, <1>3, <1>4, <1>5, <1>6, <1>7 DEF NodeInv, ChainInv

\* The new head is on another branch, all of it valid.
NoneBad(j, b) == BadNums(j, b) = {}
SwitchedDb(f, h, j) ==
    Flagged(f, (f.in_current_chain \ ChainFrom(j, h)) \cup ChainFrom(j, f.head),
            ChainFrom(j, f.head))

LEMMA Switched ==
    ASSUME NEW fdb, NEW h, NEW n \in Nat \ {0}, NodeInv(fdb, h, n),
           NEW b \in Blocks, b \notin fdb.index,
           NEW f, NEW m \in {n, n + 1}, AddedTo(fdb, h, b, f, m),
           NEW j \in 2..num(h), j <= num(f.head), chain[f.head][j - 1] = chain[h][j - 1],
           chain[h][j - 1] \in f.index, NoneBad(j, f.head),
           NEW g, g = SwitchedDb(f, h, j)
    PROVE  /\ NodeInv(g, f.head, m) /\ g.head = f.head /\ IsFirst(f.head, g.index, g.older)
<1> DEFINE new == f.head
           C == (f.in_current_chain \ ChainFrom(j, h)) \cup ChainFrom(j, new)
<1>1. /\ h \in Blocks /\ new \in Blocks /\ new \in f.index /\ f.index \in SUBSET Blocks
      /\ num(h) \in Nat /\ num(new) \in Nat /\ j \in Nat /\ 2 <= j /\ h \in f.index
  BY NewHead, BlockFacts
<1>2. /\ ForkInv(f, m) /\ f.in_current_chain \in SUBSET f.index /\ Rooted(f.index, m)
      /\ IsFirst(new, f.index, f.older) /\ BestIn(new, f.index)
      /\ m = 1 \/ m <= Lib[new]
  BY DEF AddedTo, ForkInv, ForkShape
<1>3. /\ j - 1 \in 1..num(h) /\ j - 1 \in 1..num(new)
      /\ \A i \in 1..(j - 1) : chain[new][i] = chain[h][i]
  <2>1. j - 1 \in 1..num(h) /\ j - 1 \in 1..num(new) /\ j - 1 <= num(h)
    BY <1>1
  <2> QED BY <1>1, <2>1, Agree
<1>4. m <= j - 1 /\ m \in Nat \ {0}
  <2>1. num(chain[h][j - 1]) = j - 1
    BY <1>1, <1>3, Below
  <2> QED BY <1>2, <2>1 DEF Rooted
<1>5. ChainFrom(j, new) \in SUBSET (f.index \ Invalid)
  <2>1. ASSUME NEW k \in j..num(new) PROVE chain[new][k] \in f.index \ Invalid
    <3>1. k \in m..num(new)
      BY <1>1, <1>4
    <3>2. chain[new][k] \in f.index
      BY <3>1, <1>1, <1>2 DEF Rooted
    <3>3. chain[new][k] \notin Invalid
      BY DEF BadNums, NoneBad
    <3> QED BY <3>2, <3>3
  <2> QED BY <2>1 DEF ChainFrom
<1>6. /\ ForkInv(g, m) /\ g.index = f.index /\ g.older = f.older /\ g.head = new
      /\ g.in_current_chain = C
  <2>1. C \in SUBSET f.index
    BY <1>2, <1>5
  <2> HIDE DEF C
  <2>2. g = Flagged(f, C, ChainFrom(j, new))
    BY DEF C, SwitchedDb
  <2> QED BY <1>2, <1>5, <2>1, <2>2, FlaggedInv
<1>7. ValidChain(new)
  <2>1. ValidChain(h)
    BY DEF NodeInv, ChainInv
  <2> SUFFICES ASSUME NEW k \in 1..num(new) PROVE chain[new][k] \notin Invalid
    BY DEF ValidChain
  <2>2. CASE k <= j - 1
    <3>1. k \in 1..(j - 1) /\ k \in 1..num(h)
      BY <2>2, <1>1, <1>3
    <3> QED BY <3>1, <2>1, <1>3 DEF ValidChain
  <2>3. CASE ~ (k <= j - 1)
    <3>1. k \in j..num(new)
      BY <2>3, <1>1
    <3> QED BY <3>1 DEF BadNums, NoneBad
  <2> QED BY <2>2, <2>3
<1>8. ASSUME NEW c \in C PROVE On(c, new)
  <2>1. CASE c \in ChainFrom(j, new)
    <3>1. PICK k \in j..num(new) : c = chain[new][k]
      BY <2>1 DEF ChainFrom
    <3>2. k \in 1..num(new)
      BY <1>1
    <3> QED BY <3>1, <3>2, <1>1, Below
  <2>2. CASE c \in f.in_current_chain /\ c \notin ChainFrom(j, h)
    <3>1. On(c, h) /\ c \in Blocks
      BY <2>2, <1>1, <1>2, FlagsKept
    <3>2. num(c) \in Nat /\ 1 <= num(c) /\ num(c) <= num(h) /\ chain[h][num(c)] = c
      BY <3>1, BlockFacts DEF On
    <3>3. num(c) \notin j..num(h)
      BY <2>2, <3>2 DEF ChainFrom
    <3>4. num(c) \in 1..(j - 1) /\ num(c) <= num(new)
      BY <3>2, <3>3, <1>1
    <3> QED BY <3>2, <3>4, <1>3 DEF On
  <2> QED BY <2>1, <2>2
<1>9. ASSUME NEW k \in m..num(new), k > 1 PROVE chain[new][k] \in C
  <2>1. CASE k >= j
    <3>1. k \in j..num(new)
      BY <2>1, <1>1
    <3> QED BY <3>1 DEF ChainFrom
  <2>2. CASE ~ (k >= j)
    <3>1. k \in 1..(j - 1) /\ k \in m..num(h) /\ k \in 1..num(h)
      BY <2>2, <1>1, <1>3, <1>4
    <3>2. chain[new][k] = chain[h][k] /\ num(chain[h][k]) = k
      BY <3>1, <1>1, <1>3, Below
    <3>3. chain[h][k] \in f.in_current_chain
      BY <3>1, <1>9, FlagsKept
    <3>4. ASSUME NEW i \in j..num(h) PROVE chain[h][i] # chain[h][k]
      <4>1. i \in 1..num(h)
        BY <1>1
      <4>2. num(chain[h][i]) = i
        BY <4>1, <1>1, Below
      <4> QED BY <4>2, <3>2, <2>2
    <3>5. chain[h][k] \notin ChainFrom(j, h)
      BY <3>4 DEF ChainFrom
    <3> QED BY <3>2, <3>3, <3>5
  <2> QED BY <2>1, <2>2
<1> HIDE DEF C, new
<1>10. NodeInv(g, new, m)
  BY <1>2, <1>6, <1>7, <1>8, <1>9 DEF NodeInv, ChainInv
<1> QED BY <1>2, <1>6, <1>10 DEF new

-----------------------------------------------------------------------------
(***************************************************************************)
(* Where two branches part.                                                *)
(***************************************************************************)
LEMMA Minimum ==
    ASSUME NEW S \in SUBSET Nat, S # {}
    PROVE  \E d \in S : \A k \in S : d <= k
<1> DEFINE R == OpToRel(<, Nat)
<1>1. IsWellFoundedOn(R, Nat)
  BY NatLessThanWellFounded, Zenon
<1>2. \A k, m \in Nat : <<k, m>> \notin R => m <= k
  BY DEF OpToRel
<1>3. PICK x : x \in S
  OBVIOUS
<1> HIDE DEF R
<1>4. PICK d \in S : \A k \in S : <<k, d>> \notin R
  BY <1>1, <1>3, WFMin, Zenon
<1> QED BY <1>2, <1>4

LEMMA Maximum ==
    ASSUME NEW n \in Nat, NEW S \in SUBSET (0..n), S # {}
    PROVE  \E d \in S : \A k \in S : k <= d
<1> DEFINE T == {d \in 0..n : n - d \in S}
<1>1. PICK x : x \in S /\ x \in 0..n
  OBVIOUS
<1>2. n - x \in T
  BY <1>1
<1>3. T \in SUBSET Nat /\ T # {}
  BY <1>2
<1>4. PICK d \in T : \A k \in T : d <= k
  BY <1>3, Minimum
<1>5. n - d \in S /\ d \in 0..n
  BY <1>4
<1>6. ASSUME NEW y \in S PROVE y <= n - d
  <2>1. n - y \in T /\ y \in 0..n
    OBVIOUS
  <2>2. d <= n - y
    BY <1>4, <2>1
  <2> QED BY <1>5, <2>1, <2>2
<1> QED BY <1>5, <1>6

LEMMA ForkNumIs ==
    ASSUME NEW a \in Blocks, NEW h \in Blocks,
           NEW k \in 2..Lower(num(a), num(h)), chain[a][k - 1] = chain[h][k - 1]
    PROVE  /\ ForkNum(a, h) \in k..num(h) /\ ForkNum(a, h) <= num(a)
           /\ chain[a][ForkNum(a, h) - 1] = chain[h][ForkNum(a, h) - 1]
<1> DEFINE u == Lower(num(a), num(h))
           S == {i \in 2..u : chain[a][i - 1] = chain[h][i - 1]}
<1>1. u \in Nat /\ u <= num(a) /\ u <= num(h) /\ num(a) \in Nat /\ num(h) \in Nat
  BY BlockFacts DEF Lower
<1>2. k \in S
  OBVIOUS
<1> HIDE DEF u
<1>3. S \in SUBSET (0..u) /\ S # {}
  BY <1>1, <1>2
<1>4. PICK j \in S : \A i \in S : i <= j
  <2> HIDE DEF S
  <2> QED BY <1>1, <1>3, Maximum
<1>5. /\ j \in 2..u /\ chain[a][j - 1] = chain[h][j - 1]
      /\ \A i \in (j + 1)..u : chain[a][i - 1] # chain[h][i - 1]
  <2>1. ASSUME NEW i \in (j + 1)..u PROVE i \in 2..u /\ ~ (i <= j)
    BY <1>1, <1>4
  <2> QED BY <1>4, <2>1
<1>6. /\ ForkNum(a, h) \in 2..u
      /\ chain[a][ForkNum(a, h) - 1] = chain[h][ForkNum(a, h) - 1]
      /\ \A i \in (ForkNum(a, h) + 1)..u : chain[a][i - 1] # chain[h][i - 1]
  BY <1>5 DEF ForkNum, u
<1>7. ~ (ForkNum(a, h) < k)
  BY <1>1, <1>2, <1>6
<1> QED BY <1>1, <1>2, <1>6, <1>7

LEMMA FirstBadIs ==
    ASSUME NEW a \in Blocks, NEW j \in Nat \ {0}, BadNums(j, a) # {}
    PROVE  /\ FirstBad(j, a) \in j..num(a) /\ chain[a][FirstBad(j, a)] \in Invalid
           /\ \A k \in j..(FirstBad(j, a) - 1) : chain[a][k] \notin Invalid
<1>1. num(a) \in Nat
  BY BlockFacts
<1>2. BadNums(j, a) \in SUBSET Nat
  BY <1>1 DEF BadNums
<1>3. \E d \in BadNums(j, a) : \A k \in BadNums(j, a) : d <= k
  BY <1>2, Minimum
<1>4. /\ FirstBad(j, a) \in BadNums(j, a)
      /\ \A k \in BadNums(j, a) : FirstBad(j, a) <= k
  BY <1>3 DEF FirstBad
<1>5. ASSUME NEW k \in j..(FirstBad(j, a) - 1) PROVE chain[a][k] \notin Invalid
  <2>1. FirstBad(j, a) \in j..num(a)
    BY <1>4 DEF BadNums
  <2>2. k \in j..num(a) /\ ~ (FirstBad(j, a) <= k)
    BY <1>1, <2>1
  <2> QED BY <1>4, <2>2 DEF BadNums
<1> QED BY <1>4, <1>5 DEF BadNums

\* The branches part above everything that has left the fork database and
\* everything that is in the log (a log of L blocks).
LEMMA PartAbove ==
    ASSUME Environment, SwitchesInTime,
           NEW fdb, NEW h, NEW n \in Nat \ {0}, NodeInv(fdb, h, n),
           NEW b \in Blocks, b \notin fdb.index, b # Genesis, prev(b) \in fdb.index,
           NEW f, NEW m \in {n, n + 1}, AddedTo(fdb, h, b, f, m),
           f.head # h, prev(f.head) # h, NEW L \in Nat, L = 1 \/ L <= Lib[h]
    PROVE  \E k \in 2..Lower(num(f.head), num(h)) :
               chain[f.head][k - 1] = chain[h][k - 1] /\ m <= k - 1 /\ L <= k - 1
<1> DEFINE new == f.head
<1>1. /\ h \in Blocks /\ new \in Blocks /\ h # b /\ Lib[h] <= Lib[new]
      /\ new # b => Lib[new] = Lib[h] /\ num(new) = num(h)
  BY NewHead
<1>2. /\ num(h) \in Nat /\ num(new) \in Nat /\ Lib[h] \in Nat /\ Lib[new] \in Nat
      /\ Lib[h] < num(h) /\ Lib[new] < num(new) /\ 1 <= num(h) /\ 1 <= num(new)
  BY <1>1, BlockFacts
<1>3. m = 1 \/ m <= Lib[new]
  BY DEF AddedTo
<1>4. BestIn(h, fdb.index) /\ ValidChain(h) /\ Rooted(fdb.index, n)
  BY DEF NodeInv, ForkInv, ForkShape, ChainInv
<1>5. /\ prev(b) \in Blocks /\ num(prev(b)) = num(b) - 1 /\ ~ Better(prev(b), h)
      /\ Lib[prev(b)] \in Nat /\ num(prev(b)) \in Nat
  BY <1>4, PrevFacts, BlockFacts DEF BestIn
<1>6. 2 <= num(h) /\ 2 <= num(new)
  <2>1. num(h) # 1
    <3> SUFFICES ASSUME num(h) = 1 PROVE FALSE
      OBVIOUS
    <3>1. new = b /\ h = Genesis
      BY <1>1, GenesisFacts
    <3>2. num(prev(b)) <= 1
      BY <1>2, <1>5 DEF Better
    <3>3. prev(b) = Genesis
      BY <1>5, <3>2, BlockFacts, GenesisFacts
    <3> QED BY <3>1, <3>3
  <2>2. num(new) # 1
    <3> SUFFICES ASSUME num(new) = 1 PROVE FALSE
      OBVIOUS
    <3>1. new = Genesis
      BY <1>1, GenesisFacts
    <3> QED BY <1>1, <2>1, <3>1, GenesisFacts
  <2> QED BY <1>2, <2>1, <2>2
<1>7. CASE m = 1 \/ m <= Lib[h]
  <2>1. CASE Lib[h] = 0
    <3>1. 2 \in 2..Lower(num(new), num(h))
      BY <1>2, <1>6 DEF Lower
    <3>2. chain[new][2 - 1] = chain[h][2 - 1]
      BY <1>1, BlockFacts
    <3>3. m <= 2 - 1 /\ L <= 2 - 1
      BY <2>1, <1>7
    <3> QED BY <3>1, <3>2, <3>3
  <2>2. CASE Lib[h] # 0
    <3>1. Lib[h] + 1 \in 2..Lower(num(new), num(h)) /\ Lib[h] \in 1..Lower(Lib[new], Lib[h])
      BY <1>1, <1>2, <2>2 DEF Lower
    <3>2. chain[new][Lib[h]] = chain[h][Lib[h]]
      BY <1>1, <3>1, LibAgreement
    <3>3. m <= (Lib[h] + 1) - 1 /\ L <= (Lib[h] + 1) - 1 /\ (Lib[h] + 1) - 1 = Lib[h]
      BY <1>2, <2>2, <1>7
    <3> QED BY <3>1, <3>2, <3>3
  <2> QED BY <2>1, <2>2
<1>8. CASE ~ (m = 1 \/ m <= Lib[h])
  <2>1. new = b /\ m <= Lib[b] /\ Lib[h] < Lib[b] /\ Better(b, h)
    BY <1>1, <1>2, <1>3, <1>8 DEF Better
  <2>2. ~ On(h, b)
    <3> SUFFICES ASSUME On(h, b) PROVE FALSE
      OBVIOUS
    <3>1. On(h, prev(b))
      BY <1>1, OnPrev
    <3>2. num(h) \in 1..num(prev(b)) /\ chain[prev(b)][num(h)] = h
      BY <3>1, <1>2 DEF On
    <3>3. Lib[h] <= Lib[prev(b)]
      BY <3>2, <1>5 DEF Environment, LibGrows
    <3>4. num(h) # num(prev(b))
      BY <2>1, <3>2, <1>5, BlockFacts
    <3> QED BY <3>2, <3>3, <3>4, <1>2, <1>5 DEF Better
  <2>3. PICK c \in Blocks : On(c, h) /\ On(c, b) /\ Lib[b] <= num(c)
    BY <2>1, <2>2, <1>1, <1>4, <1>5 DEF SwitchesInTime
  <2>4. /\ num(c) \in Nat /\ num(c) <= num(h) /\ num(c) <= num(b)
        /\ chain[h][num(c)] = c /\ chain[b][num(c)] = c
    BY <2>3, BlockFacts DEF On
  <2>5. num(c) # num(h)
    BY <2>2, <2>3, <2>4, <1>1, BlockFacts
  <2>6. num(c) # num(b)
    <3> SUFFICES ASSUME num(c) = num(b) PROVE FALSE
      OBVIOUS
    <3>1. c = b
      BY <2>4, BlockFacts
    <3>2. num(b) \in n..num(h) /\ h \in fdb.index
      BY <2>1, <2>3, <2>4, <3>1, <1>2, <1>4 DEF BestIn
    <3>3. b \in fdb.index
      BY <2>4, <3>1, <3>2, <1>4 DEF Rooted
    <3> QED BY <3>3
  <2>7. /\ num(c) + 1 \in 2..Lower(num(new), num(h)) /\ (num(c) + 1) - 1 = num(c)
        /\ m <= num(c) /\ L <= num(c)
    BY <2>1, <2>3, <2>4, <2>5, <2>6, <1>2, <1>8 DEF Lower
  <2> QED BY <2>1, <2>4, <2>7
<1> QED BY <1>7, <1>8

-----------------------------------------------------------------------------
(***************************************************************************)
(* The files: what on_irreversible and the recording of a branch leave.    *)
(***************************************************************************)
LEMMA LogStep ==
    ASSUME Environment, NEW h \in Blocks, NEW n \in 1..num(h), n = 1 \/ n <= Lib[h],
           n <= Len(blog) + 1, NEW s, s = <<>> \/ (s = <<chain[h][n]>> /\ n < num(h)),
           NEW d \in Blocks, On(h, d),
           Files(blog, reversible, d), Undamaged(blog, reversible, d)
    PROVE  /\ LinksToLog(s)
           /\ Files(LogIrreversible(s), reversible, d)
           /\ Undamaged(LogIrreversible(s), reversible, d)
           /\ Files(LogIrreversible(s), TrimReversible(s), d)
           /\ Undamaged(LogIrreversible(s), TrimReversible(s), d)
           /\ \/ LogIrreversible(s) = blog
              \/ /\ LogIrreversible(s) = Append(blog, chain[h][n]) /\ chain[h][n] \in Blocks
                 /\ Len(LogIrreversible(s)) = n /\ n <= Lib[h]
           /\ Len(LogIrreversible(s)) \in Nat /\ Len(blog) <= Len(LogIrreversible(s))
           /\ Len(blog) <= num(h) => Len(LogIrreversible(s)) <= num(h)
           /\ s # <<>> => n <= Len(LogIrreversible(s))
           /\ Len(LogIrreversible(s)) = Len(blog)
                 \/ (s # <<>> /\ Len(LogIrreversible(s)) = n)
<1>1. /\ num(h) \in Nat /\ Lib[h] \in Nat /\ num(d) \in Nat /\ Lib[d] \in Nat /\ Lib[h] < num(h)
      /\ num(h) <= num(d) /\ \A i \in 1..num(h) : chain[h][i] = chain[d][i]
  BY BlockFacts, OnFacts
<1>2. chain[h][n] \in Blocks /\ num(chain[h][n]) = n
  BY Below
<1>3. /\ blog \in Seq(Blocks) /\ Len(blog) \in Nat /\ 1 <= Len(blog) /\ Len(blog) <= num(d)
      /\ \A k \in 1..Len(blog) : blog[k] = chain[d][k]
      /\ DOMAIN reversible \subseteq 1..num(d)
      /\ (Len(blog) + 1)..num(d) \subseteq DOMAIN reversible
      /\ \A k \in DOMAIN reversible : reversible[k] = chain[d][k]
  BY DEF Files
<1>4. CASE Logged(s)
  <2>1. s # <<>> => n <= Len(blog)
    <3> SUFFICES ASSUME s = <<chain[h][n]>> PROVE n <= Len(blog)
      OBVIOUS
    <3>1. 1 \in 1..Len(s) /\ s[1] = chain[h][n]
      OBVIOUS
    <3> QED BY <1>2, <1>4, <3>1 DEF Logged
  <2>2. LogIrreversible(s) = blog /\ TrimReversible(s) = reversible /\ LinksToLog(s)
    BY <1>4 DEF LogIrreversible, TrimReversible, LinksToLog
  <2> QED BY <1>3, <2>1, <2>2
<1>5. CASE ~ Logged(s)
  <2> DEFINE log == Append(blog, chain[h][n])
             rev == Only(reversible, {k \in DOMAIN reversible : k > n})
  <2>1. s # <<>> /\ s = <<chain[h][n]>> /\ n < num(h) /\ s[1] = chain[h][n] /\ Len(s) = 1
    <3>1. s # <<>>
      BY <1>5 DEF Logged
    <3> QED BY <3>1
  <2>2. n = Len(blog) + 1 /\ n # 1
    <3>1. ~ (n <= Len(blog))
      BY <1>2, <1>5, <2>1 DEF Logged
    <3> QED BY <1>3, <3>1
  <2>3. /\ LogIrreversible(s) = log /\ TrimReversible(s) = rev
    BY <1>2, <1>5, <2>1 DEF LogIrreversible, TrimReversible
  <2>4. /\ log \in Seq(Blocks) /\ Len(log) = n
        /\ \A k \in 1..n : log[k] = IF k = n THEN chain[h][n] ELSE blog[k]
    BY <1>2, <1>3, <2>2
  <2> HIDE DEF log
  <2>5. \A k \in 1..n : log[k] = chain[d][k]
    <3> SUFFICES ASSUME NEW k \in 1..n PROVE log[k] = chain[d][k]
      OBVIOUS
    <3>1. CASE k = n
      BY <3>1, <2>4, <1>1
    <3>2. CASE k # n
      BY <3>2, <2>2, <2>4, <1>3
    <3> QED BY <3>1, <3>2
  <2>6. LinksToLog(s)
    <3>1. chain[h][n] # Genesis
      BY <1>2, <2>2, GenesisFacts
    <3>2. n - 1 \in 1..n /\ n - 1 = Len(blog) /\ n - 1 \in 1..Len(blog) /\ n - 1 \in 1..num(h)
      BY <1>1, <1>3, <2>2
    <3>3. chain[chain[h][n]][n - 1] = chain[h][n - 1]
      BY <3>2, Below
    <3>4. prev(chain[h][n]) = chain[h][n - 1]
      BY <1>2, <3>3 DEF prev
    <3>5. blog[Len(blog)] = chain[h][n - 1]
      BY <3>2, <1>1, <1>3
    <3> QED BY <3>4, <3>5, <1>2, <2>1, <2>2 DEF LinksToLog
  <2>7. /\ DOMAIN rev = {k \in DOMAIN reversible : k > n}
        /\ \A k \in DOMAIN rev : rev[k] = reversible[k]
    BY DEF Only
  <2> HIDE DEF rev
  <2>8. \A k \in (n + 1)..num(d) : k \in (Len(blog) + 1)..num(d) /\ k > n
    BY <1>1, <2>2
  <2>9. Files(log, reversible, d)
    BY <1>1, <1>3, <2>1, <2>4, <2>5, <2>8 DEF Files
  <2>10. Files(log, rev, d)
    <3>1. DOMAIN rev \subseteq 1..num(d) /\ (n + 1)..num(d) \subseteq DOMAIN rev
      BY <1>3, <2>7, <2>8
    <3>2. \A k \in DOMAIN rev : rev[k] = chain[d][k]
      BY <1>3, <2>7
    <3> QED BY <1>1, <2>1, <2>4, <2>5, <3>1, <3>2 DEF Files
  <2>11. n <= Lib[d]
    <3>1. num(h) \in 1..num(d) /\ chain[d][num(h)] = h
      BY <1>1 DEF On
    <3>2. Lib[h] <= Lib[d]
      BY <3>1 DEF Environment, LibGrows
    <3> QED BY <1>1, <2>2, <3>2
  <2>12. Undamaged(log, reversible, d)
    BY <2>4, <2>11 DEF Undamaged
  <2>13. num(d) \in DOMAIN rev
    <3>1. num(d) \in (n + 1)..num(d)
      BY <1>1, <2>1
    <3> QED BY <3>1, <2>4, <2>10 DEF Files
  <2>14. Undamaged(log, rev, d)
    BY <2>4, <2>11, <2>13 DEF Undamaged
  <2>15. /\ Len(log) = n /\ n \in Nat /\ Len(blog) <= n /\ n <= num(h) /\ n <= Lib[h]
         /\ log = Append(blog, chain[h][n])
    BY <1>1, <1>3, <2>1, <2>2, <2>4 DEF log
  <2>16. /\ Files(LogIrreversible(s), reversible, d)
         /\ Undamaged(LogIrreversible(s), reversible, d)
         /\ Files(LogIrreversible(s), TrimReversible(s), d)
         /\ Undamaged(LogIrreversible(s), TrimReversible(s), d)
    BY <2>3, <2>9, <2>10, <2>12, <2>14
  <2>17. Len(LogIrreversible(s)) = n /\ LogIrreversible(s) = Append(blog, chain[h][n])
    BY <2>3, <2>15
  <2> HIDE DEF rev
  <2> QED BY <1>2, <2>1, <2>6, <2>15, <2>16, <2>17
<1> QED BY <1>4, <1>5

LEMMA RecordedFiles ==
    ASSUME NEW h \in Blocks, NEW new \in Blocks, NEW log, NEW rev, Files(log, rev, h),
           Undamaged(log, rev, h), Lib[h] <= Lib[new],
           NEW j \in 2..num(new), j - 1 <= num(h), chain[new][j - 1] = chain[h][j - 1],
           Len(log) < j
    PROVE  /\ Files(log, Recorded(rev, j, new, TRUE), new)
           /\ Undamaged(log, Recorded(rev, j, new, TRUE), new)
<1> DEFINE r == Recorded(rev, j, new, TRUE)
<1>1. /\ num(h) \in Nat /\ num(new) \in Nat /\ Lib[h] \in Nat /\ Lib[new] \in Nat
      /\ j - 1 \in 1..num(h) /\ j - 1 \in 1..num(new)
  BY BlockFacts
<1>2. \A i \in 1..(j - 1) : chain[new][i] = chain[h][i]
  BY <1>1, Agree
<1>3. /\ DOMAIN r = {k \in DOMAIN rev : k < j} \cup (j..num(new))
      /\ \A k \in DOMAIN r : r[k] = IF k \in j..num(new) THEN chain[new][k] ELSE rev[k]
  BY DEF Recorded, Extend, Only
<1> HIDE DEF r
<1>4. /\ log \in Seq(Blocks) /\ Len(log) \in Nat /\ 1 <= Len(log)
      /\ \A k \in 1..Len(log) : log[k] = chain[h][k]
      /\ DOMAIN rev \subseteq 1..num(h) /\ (Len(log) + 1)..num(h) \subseteq DOMAIN rev
      /\ \A k \in DOMAIN rev : rev[k] = chain[h][k]
  BY DEF Files
<1>5. \A k \in DOMAIN r : k \in 1..num(new) /\ r[k] = chain[new][k]
  <2> SUFFICES ASSUME NEW k \in DOMAIN r PROVE k \in 1..num(new) /\ r[k] = chain[new][k]
    OBVIOUS
  <2>1. CASE k \in j..num(new)
    BY <2>1, <1>1, <1>3
  <2>2. CASE k \notin j..num(new)
    <3>1. k \in DOMAIN rev /\ k < j /\ k \in 1..num(h)
      BY <2>2, <1>3, <1>4
    <3>2. k \in 1..(j - 1)
      BY <3>1, <1>1
    <3> QED BY <2>2, <3>1, <3>2, <1>1, <1>2, <1>3, <1>4
  <2> QED BY <2>1, <2>2
<1>6. (Len(log) + 1)..num(new) \subseteq DOMAIN r
  <2> SUFFICES ASSUME NEW k \in (Len(log) + 1)..num(new) PROVE k \in DOMAIN r
    OBVIOUS
  <2>1. k \in j..num(new) \/ (k < j /\ k \in (Len(log) + 1)..num(h))
    BY <1>1, <1>4
  <2> QED BY <2>1, <1>3, <1>4
<1>7. \A k \in 1..Len(log) : log[k] = chain[new][k]
  <2>1. \A k \in 1..Len(log) : k \in 1..(j - 1)
    BY <1>1, <1>4
  <2> QED BY <2>1, <1>2, <1>4
<1>8. Files(log, r, new)
  <2>1. DOMAIN r \subseteq 1..num(new) /\ Len(log) <= num(new)
    BY <1>1, <1>4, <1>5
  <2> QED BY <1>4, <1>5, <1>6, <1>7, <2>1 DEF Files
<1>9. num(new) \in DOMAIN r
  BY <1>1, <1>3
<1>10. Undamaged(log, r, new)
  BY <1>1, <1>4, <1>9 DEF Undamaged
<1> QED BY <1>8, <1>10 DEF r

\* What the recovery of damaged reversible blocks leaves is a chain as well.
LEMMA RecoveredFiles ==
    ASSUME NEW log, NEW rev, NEW d \in Blocks, ValidChain(d), Files(log, rev, d),
           Undamaged(log, rev, d), NEW r \in Recovered(rev)
    PROVE  \E e \in Blocks : ValidChain(e) /\ Files(log, r, e) /\ Undamaged(log, r, e)
<1>1. CASE ~ Damage
  BY <1>1 DEF Recovered
<1>2. CASE Damage
  <2>1. PICK m \in {0} \cup DOMAIN rev : r = Only(rev, {k \in DOMAIN rev : k <= m})
    BY <1>2 DEF Recovered
  <2>2. /\ log \in Seq(Blocks) /\ Len(log) \in Nat /\ 1 <= Len(log) /\ Len(log) <= num(d)
        /\ \A k \in 1..Len(log) : log[k] = chain[d][k]
        /\ DOMAIN rev \subseteq 1..num(d) /\ (Len(log) + 1)..num(d) \subseteq DOMAIN rev
        /\ \A k \in DOMAIN rev : rev[k] = chain[d][k]
    BY DEF Files
  <2>3. num(d) \in Nat /\ m \in Nat /\ m <= num(d)
    BY <2>2, BlockFacts
  <2>4. PICK t : t \in Nat /\ t = IF m <= Len(log) THEN Len(log) ELSE m
    BY <2>2, <2>3
  <2>5. t \in 1..num(d) /\ Len(log) <= t /\ m <= t /\ (t = Len(log) \/ t = m)
    BY <2>2, <2>3, <2>4
  <2> DEFINE e == chain[d][t]
  <2>6. e \in Blocks /\ num(e) = t /\ \A i \in 1..t : chain[e][i] = chain[d][i]
    BY <2>5, Below
  <2> HIDE DEF e
  <2>7. /\ DOMAIN r = {k \in DOMAIN rev : k <= m}
        /\ \A k \in DOMAIN r : r[k] = rev[k]
    BY <2>1 DEF Only
  <2>8. \A k \in DOMAIN r : k \in 1..t /\ r[k] = chain[d][k]
    BY <2>2, <2>3, <2>5, <2>7
  <2>9. \A k \in (Len(log) + 1)..t : k \in (Len(log) + 1)..num(d) /\ k <= m
    BY <2>2, <2>3, <2>5
  <2>10. \A k \in 1..Len(log) : k \in 1..t
    BY <2>2, <2>5
  <2>11. Files(log, r, e)
    <3>1. DOMAIN r \subseteq 1..t /\ (Len(log) + 1)..t \subseteq DOMAIN r
      BY <2>2, <2>7, <2>8, <2>9
    <3>2. \A k \in DOMAIN r : r[k] = chain[e][k]
      BY <2>6, <2>8
    <3>3. \A k \in 1..Len(log) : log[k] = chain[e][k]
      BY <2>2, <2>6, <2>10
    <3> QED BY <2>2, <2>5, <2>6, <3>1, <3>2, <3>3 DEF Files
  <2>12. ValidChain(e)
    <3>1. \A k \in 1..t : k \in 1..num(d)
      BY <2>3, <2>5
    <3> QED BY <2>6, <3>1 DEF ValidChain
  <2> QED BY <1>2, <2>6, <2>11, <2>12 DEF Undamaged
<1> QED BY <1>1, <1>2

-----------------------------------------------------------------------------
(***************************************************************************)
(* The undo sessions.                                                      *)
(***************************************************************************)
LEMMA CommitSessions ==
    ASSUME NEW d, IsDb(d), NEW s, NEW n \in Nat, s # <<>> => num(s[1]) = n
    PROVE  /\ IsDb(CommitIrreversible(d, s))
           /\ CommitIrreversible(d, s).state = d.state
           /\ CommitIrreversible(d, s).revision = d.revision
           /\ DOMAIN CommitIrreversible(d, s).undo \subseteq DOMAIN d.undo
           /\ \A log, log2, h : Sessions(d, log, h) /\ Len(log) \in Nat /\ num(h) \in Nat
                 /\ Len(log2) \in Nat /\ Len(log) <= Len(log2)
                 /\ (s # <<>> => n <= Len(log2))
                 /\ (Len(log2) = Len(log) \/ (s # <<>> /\ Len(log2) = n))
                 => Sessions(CommitIrreversible(d, s), log2, h)
<1>1. CASE s = <<>>
  <2>1. CommitIrreversible(d, s) = d
    BY <1>1 DEF CommitIrreversible
  <2> QED BY <1>1, <2>1 DEF Sessions
<1>2. CASE s # <<>>
  <2> DEFINE c == CommitIrreversible(d, s)
  <2>1. c = [state |-> d.state, revision |-> d.revision,
             undo |-> Only(d.undo, {r \in DOMAIN d.undo : r > n})]
    BY <1>2 DEF CommitIrreversible, Commit, IsDb
  <2>2. /\ c.state = d.state /\ c.revision = d.revision
        /\ DOMAIN c.undo = {r \in DOMAIN d.undo : r > n}
        /\ \A r \in DOMAIN c.undo : c.undo[r] = d.undo[r]
        /\ c = [state |-> c.state, revision |-> c.revision, undo |-> c.undo]
    BY <2>1 DEF Only
  <2> HIDE DEF c
  <2>3. IsDb(c)
    BY <2>2 DEF IsDb
  <2>4. ASSUME NEW log, NEW log2, NEW h, Sessions(d, log, h), Len(log) \in Nat, num(h) \in Nat,
               Len(log2) \in Nat, Len(log) <= Len(log2), n <= Len(log2),
               Len(log2) = Len(log) \/ Len(log2) = n
        PROVE  Sessions(c, log2, h)
    <3>1. \A r : r \in DOMAIN c.undo <=> r \in (Len(log2) + 1)..num(h)
      BY <2>2, <2>4 DEF Sessions
    <3> QED BY <2>2, <2>4, <3>1 DEF Sessions
  <2> QED BY <1>2, <2>2, <2>3, <2>4 DEF c
<1> QED BY <1>1, <1>2

LEMMA ApplyIs ==
    ASSUME NEW d, IsDb(d), NEW b \in Blocks, NEW j \in 2..num(b)
    PROVE  /\ IsDb(Apply(d, j, b))
           /\ Apply(d, j, b).state = b /\ Apply(d, j, b).revision = num(b)
           /\ DOMAIN Apply(d, j, b).undo = DOMAIN d.undo \cup (j..num(b))
           /\ \A r \in DOMAIN Apply(d, j, b).undo :
                 Apply(d, j, b).undo[r] = IF r \in j..num(b) THEN chain[b][r - 1] ELSE d.undo[r]
<1> DEFINE c == Apply(d, j, b)
<1>1. /\ c.state = b /\ c.revision = num(b)
      /\ DOMAIN c.undo = DOMAIN d.undo \cup (j..num(b))
      /\ \A r \in DOMAIN c.undo :
            c.undo[r] = IF r \in j..num(b) THEN chain[b][r - 1] ELSE d.undo[r]
      /\ c = [state |-> c.state, revision |-> c.revision, undo |-> c.undo]
  BY DEF Apply, Extend
<1> HIDE DEF c
<1>2. num(b) \in Nat
  BY BlockFacts
<1>3. \A r \in DOMAIN c.undo : r \in Nat /\ c.undo[r] \in Blocks
  <2> SUFFICES ASSUME NEW r \in DOMAIN c.undo PROVE r \in Nat /\ c.undo[r] \in Blocks
    OBVIOUS
  <2>1. CASE r \in j..num(b)
    <3>1. r - 1 \in 1..num(b) /\ r \in Nat
      BY <2>1, <1>2
    <3> QED BY <2>1, <3>1, <1>1, Below
  <2>2. CASE r \notin j..num(b)
    BY <2>2, <1>1 DEF IsDb
  <2> QED BY <2>1, <2>2
<1>4. IsDb(c)
  BY <1>1, <1>2, <1>3 DEF IsDb
<1> QED BY <1>1, <1>4 DEF c

LEMMA ExtendSessions ==
    ASSUME NEW d, IsDb(d), NEW b \in Blocks, b # Genesis, NEW log, Len(log) \in Nat,
           1 <= Len(log), Len(log) <= num(prev(b)), Sessions(d, log, prev(b))
    PROVE  Sessions(Apply(d, num(b), b), log, b)
<1> DEFINE c == Apply(d, num(b), b)
<1>1. /\ num(b) \in Nat /\ 2 <= num(b) /\ num(prev(b)) = num(b) - 1
      /\ prev(b) = chain[b][num(b) - 1]
      /\ \A i \in 1..(num(b) - 1) : chain[prev(b)][i] = chain[b][i]
  BY PrevFacts, BlockFacts
<1>2. num(b) \in 2..num(b)
  BY <1>1
<1>3. /\ c.state = b /\ c.revision = num(b)
      /\ DOMAIN c.undo = DOMAIN d.undo \cup (num(b)..num(b))
      /\ \A r \in DOMAIN c.undo :
            c.undo[r] = IF r \in num(b)..num(b) THEN chain[b][r - 1] ELSE d.undo[r]
  BY <1>2, ApplyIs
<1> HIDE DEF c
<1>4. /\ DOMAIN d.undo = (Len(log) + 1)..(num(b) - 1)
      /\ \A r \in DOMAIN d.undo : d.undo[r] = chain[prev(b)][r - 1]
  BY <1>1 DEF Sessions
<1>5. DOMAIN c.undo = (Len(log) + 1)..num(b)
  BY <1>1, <1>3, <1>4
<1>6. ASSUME NEW r \in DOMAIN c.undo PROVE c.undo[r] = chain[b][r - 1]
  <2>1. CASE r = num(b)
    BY <2>1, <1>1, <1>3
  <2>2. CASE r # num(b)
    <3>1. r \in DOMAIN d.undo /\ r - 1 \in 1..(num(b) - 1) /\ r \notin num(b)..num(b)
      BY <2>2, <1>1, <1>4, <1>5
    <3> QED BY <3>1, <1>1, <1>3, <1>4
  <2> QED BY <2>1, <2>2
<1> QED BY <1>3, <1>5, <1>6 DEF Sessions, c

LEMMA SwitchSessions ==
    ASSUME NEW d, IsDb(d), NEW h \in Blocks, NEW new \in Blocks, NEW log, Len(log) \in Nat,
           1 <= Len(log), Sessions(d, log, h), NEW j \in 2..num(new), j <= num(h), Len(log) < j,
           chain[new][j - 1] = chain[h][j - 1]
    PROVE  /\ Sessions(Apply(UndoTo(d, j), j, new), log, new)
           /\ IsDb(Apply(UndoTo(d, j), j, new))
<1> DEFINE u == UndoTo(d, j)
           c == Apply(u, j, new)
<1>1. /\ num(h) \in Nat /\ num(new) \in Nat /\ j \in Nat
      /\ j - 1 \in 1..num(h) /\ j - 1 \in 1..num(new) /\ j - 1 \in Nat
  BY BlockFacts
<1>2. \A i \in 1..(j - 1) : chain[new][i] = chain[h][i]
  BY <1>1, Agree
<1>3. /\ DOMAIN d.undo = (Len(log) + 1)..num(h)
      /\ \A r \in DOMAIN d.undo : d.undo[r] = chain[h][r - 1] /\ d.undo[r] \in Blocks
  BY DEF Sessions, IsDb
<1>4. /\ u.state = d.undo[j] /\ u.revision = j - 1
      /\ DOMAIN u.undo = {r \in DOMAIN d.undo : r < j}
      /\ \A r \in DOMAIN u.undo : u.undo[r] = d.undo[r]
      /\ u = [state |-> u.state, revision |-> u.revision, undo |-> u.undo]
  BY DEF UndoTo, Only
<1> HIDE DEF u
<1>5. IsDb(u)
  <2>1. j \in DOMAIN d.undo
    BY <1>1, <1>3
  <2>2. \A r \in DOMAIN u.undo : r \in Nat /\ u.undo[r] \in Blocks
    BY <1>3, <1>4
  <2> QED BY <1>1, <1>3, <1>4, <2>1, <2>2 DEF IsDb
<1>6. /\ IsDb(c) /\ c.state = new /\ c.revision = num(new)
      /\ DOMAIN c.undo = DOMAIN u.undo \cup (j..num(new))
      /\ \A r \in DOMAIN c.undo :
            c.undo[r] = IF r \in j..num(new) THEN chain[new][r - 1] ELSE u.undo[r]
  BY <1>5, ApplyIs
<1> HIDE DEF c
<1>7. DOMAIN c.undo = (Len(log) + 1)..num(new)
  BY <1>1, <1>3, <1>4, <1>6
<1>8. ASSUME NEW r \in DOMAIN c.undo PROVE c.undo[r] = chain[new][r - 1]
  <2>1. CASE r \in j..num(new)
    BY <2>1, <1>6
  <2>2. CASE r \notin j..num(new)
    <3>1. r \in DOMAIN u.undo /\ r \in DOMAIN d.undo /\ r - 1 \in 1..(j - 1)
      BY <2>2, <1>1, <1>3, <1>4, <1>6
    <3> QED BY <2>2, <3>1, <1>2, <1>3, <1>4, <1>6
  <2> QED BY <2>1, <2>2
<1> QED BY <1>6, <1>7, <1>8 DEF Sessions, c, u

-----------------------------------------------------------------------------
(***************************************************************************)
(* The steps.  The log grows by blocks that head holds irreversible, and   *)
(* while the node runs or restarts cleanly no step lowers head's           *)
(* irreversible number.                                                    *)
(***************************************************************************)
StepInv ==
    /\ blog' = blog \/ (Len(blog') <= Lib[head] /\ \E x \in Blocks : blog' = Append(blog, x))
    /\ status \in {"up", "closed"} /\ status' \in {"up", "closed"} => Lib[head] <= Lib[head']

LEMMA NodeFacts ==
    ASSUME NEW fdb, NEW h, NEW n \in Nat \ {0}, NodeInv(fdb, h, n)
    PROVE  /\ h \in Blocks /\ h \in fdb.index /\ n \in 1..num(h) /\ (n = 1 \/ n <= Lib[h])
           /\ fdb \in ForkDbs /\ fdb.index \in SUBSET Blocks /\ ValidChain(h)
           /\ num(h) \in Nat /\ Lib[h] \in Nat /\ 1 <= num(h)
<1>1. h \in fdb.index /\ fdb \in ForkDbs /\ fdb.index \in SUBSET Blocks /\ Rooted(fdb.index, n)
  BY ForkDbFields DEF NodeInv, ForkInv, ForkShape, ChainInv, BestIn
<1>2. h \in Blocks /\ num(h) \in Nat /\ Lib[h] \in Nat /\ 1 <= num(h)
  BY <1>1, BlockFacts
<1>3. n \in 1..num(h)
  BY <1>1, <1>2 DEF Rooted
<1> QED BY <1>1, <1>2, <1>3 DEF NodeInv, ChainInv

\* A state in which the node is up.
LEMMA UpState ==
    ASSUME status' = "up", stops' \in [crash : Nat, close : Nat], PendingInv', HeadInv',
           NEW m \in Nat \ {0}, NodeInv(fork_db', head', m), m <= Len(blog') + 1,
           IsDb(db'), Sessions(db', blog', head'),
           Files(blog', reversible', head'), Undamaged(blog', reversible', head')
    PROVE  ControllerInv'
<1>1. head' \in Blocks /\ m \in 1..num(head') /\ ValidChain(head')
  BY NodeFacts
<1>2. FilesInv'
  BY <1>1, OnSelf DEF FilesInv
<1>3. PhaseInv' /\ EndInv' /\ status' \in Statuses
  BY DEF PhaseInv, EndInv, Statuses
<1> QED BY <1>1, <1>2, <1>3 DEF ControllerInv

LEMMA UpIs ==
    ASSUME ControllerInv, status = "up"
    PROVE  /\ \E n \in Nat \ {0} : NodeInv(fork_db, head, n) /\ n <= Len(blog) + 1
           /\ Files(blog, reversible, head) /\ Undamaged(blog, reversible, head)
           /\ Sessions(db, blog, head) /\ IsDb(db) /\ head \in Blocks
           /\ stops \in [crash : Nat, close : Nat] /\ HeadInv /\ PendingInv
<1>1. PICK n \in 1..num(head) : NodeInv(fork_db, head, n) /\ n <= Len(blog) + 1
  BY DEF ControllerInv
<1>2. n \in Nat \ {0}
  OBVIOUS
<1> QED BY <1>1, <1>2, NodeFacts DEF ControllerInv, FilesInv, PhaseInv

LEMMA FlaggedSame ==
    ASSUME NEW f \in ForkDbs
    PROVE  /\ Flagged(f, f.in_current_chain, {}) = f
           /\ \A V : [f EXCEPT !.validated = @ \cup V] = Flagged(f, f.in_current_chain, V)
  BY DEF Flagged, ForkDbs

\* What a block does that is put into the fork database, before the switch.
LEMMA AddStep ==
    ASSUME Environment, NEW n \in Nat \ {0}, NodeInv(fork_db, head, n), n <= Len(blog) + 1,
           NEW d \in Blocks, On(head, d), Files(blog, reversible, d),
           Undamaged(blog, reversible, d), IsDb(db),
           NEW b \in Blocks, Linkable(b), NEW irr, irr = Pruned(fork_db, b)
    PROVE  \E m \in {n, n + 1} :
             LET log == LogIrreversible(irr)
                 dd == CommitIrreversible(db, irr)
             IN  /\ AddedTo(fork_db, head, b, add(fork_db, b), m)
                 /\ m <= Len(log) + 1 /\ LinksToLog(irr)
                 /\ Files(log, reversible, d) /\ Undamaged(log, reversible, d)
                 /\ Files(log, TrimReversible(irr), d) /\ Undamaged(log, TrimReversible(irr), d)
                 /\ log = blog \/ (Len(log) <= Lib[head] /\ \E x \in Blocks : log = Append(blog, x))
                 /\ Len(log) \in Nat /\ 1 <= Len(log) /\ Len(blog) <= Len(log)
                 /\ Len(blog) <= num(head) => Len(log) <= num(head)
                 /\ IsDb(dd) /\ dd.state = db.state /\ dd.revision = db.revision
                 /\ DOMAIN dd.undo \subseteq DOMAIN db.undo
                 /\ Sessions(db, blog, head) => Sessions(dd, log, head)
<1> DEFINE log == LogIrreversible(irr)
           dd == CommitIrreversible(db, irr)
<1>1. head \in Blocks /\ n \in 1..num(head) /\ (n = 1 \/ n <= Lib[head]) /\ num(head) \in Nat
  BY NodeFacts
<1>2. b \notin fork_db.index /\ b # Genesis /\ prev(b) \in fork_db.index
  BY DEF Linkable
<1>3. PICK m \in {n, n + 1} :
         /\ AddedTo(fork_db, head, b, add(fork_db, b), m)
         /\ (irr = <<>> /\ m = n) \/ (irr = <<chain[head][n]>> /\ n < num(head) /\ m = n + 1)
  BY <1>2, AddOutcome
<1>4. irr = <<>> \/ (irr = <<chain[head][n]>> /\ n < num(head))
  BY <1>3
<1>5. /\ LinksToLog(irr)
      /\ Files(log, reversible, d) /\ Undamaged(log, reversible, d)
      /\ Files(log, TrimReversible(irr), d) /\ Undamaged(log, TrimReversible(irr), d)
      /\ \/ log = blog
         \/ log = Append(blog, chain[head][n]) /\ chain[head][n] \in Blocks
            /\ Len(log) = n /\ n <= Lib[head]
      /\ Len(log) \in Nat /\ Len(blog) <= Len(log)
      /\ Len(blog) <= num(head) => Len(log) <= num(head)
      /\ irr # <<>> => n <= Len(log)
      /\ Len(log) = Len(blog) \/ (irr # <<>> /\ Len(log) = n)
  BY <1>1, <1>4, LogStep
<1>6. irr # <<>> => num(irr[1]) = n
  BY <1>1, <1>4, Below
<1>7. Len(blog) \in Nat /\ 1 <= Len(log)
  BY <1>5 DEF Files
<1>8. /\ IsDb(dd) /\ dd.state = db.state /\ dd.revision = db.revision
      /\ DOMAIN dd.undo \subseteq DOMAIN db.undo
      /\ Sessions(db, blog, head) => Sessions(dd, log, head)
  BY <1>1, <1>5, <1>6, <1>7, CommitSessions
<1>9. m <= Len(log) + 1
  <2> HIDE DEF log, dd
  <2>1. CASE m = n
    BY <2>1, <1>5, <1>7
  <2>2. CASE m = n + 1
    <3>1. m # n /\ <<chain[head][n]>> # <<>>
      BY <2>2
    <3>2. irr # <<>>
      BY <3>1, <1>3
    <3> QED BY <2>2, <3>2, <1>5
  <2> QED BY <2>1, <2>2
<1> HIDE DEF log, dd
<1>10. log = blog \/ (Len(log) <= Lib[head] /\ \E x \in Blocks : log = Append(blog, x))
  BY <1>5
<1> QED BY <1>3, <1>5, <1>7, <1>8, <1>9, <1>10 DEF log, dd

\* The fork database's new head is one step ahead of head, or elsewhere.
LEMMA NotGenesis ==
    ASSUME NEW fdb, NEW h, NEW n, NodeInv(fdb, h, n), NEW b \in Blocks, b \notin fdb.index,
           b # Genesis, NEW f, NEW m, AddedTo(fdb, h, b, f, m), f.head # h
    PROVE  f.head # Genesis /\ (prev(f.head) = h => f.head = b)
<1>1. /\ h \in Blocks /\ f.head \in Blocks
      /\ f.head # b => num(f.head) = num(h)
      /\ f.head # Genesis /\ prev(f.head) = h => f.head = b
  BY NewHead
<1> QED BY <1>1, GenesisFacts

LEMMA IncomingBlock ==
    ASSUME Environment, ControllerInv, NEW b \in Blocks, on_incoming_block(b)
    PROVE  ControllerInv' /\ StepInv
<1> DEFINE irr == Pruned(fork_db, b)
           f == add(fork_db, b)
           log == LogIrreversible(irr)
           rev == TrimReversible(irr)
           dd == CommitIrreversible(db, irr)
           new == f.head
           j == ForkNum(new, head)
<1>1. /\ status = "up" /\ pending' = <<>> /\ Linkable(b) /\ stops' = stops
      /\ IF LinksToLog(irr)
         THEN blog' = log /\ MaybeSwitchForks(f, dd, rev, TRUE, TRUE)
         ELSE TRUE
  BY DEF on_incoming_block, Push
<1>2. PICK n \in Nat \ {0} : NodeInv(fork_db, head, n) /\ n <= Len(blog) + 1
  BY <1>1, UpIs
<1>3. /\ Files(blog, reversible, head) /\ Undamaged(blog, reversible, head)
      /\ Sessions(db, blog, head) /\ IsDb(db) /\ head \in Blocks
      /\ stops \in [crash : Nat, close : Nat] /\ HeadInv
  BY <1>1, UpIs
<1>4. b \notin fork_db.index /\ b # Genesis /\ prev(b) \in fork_db.index
  BY <1>1 DEF Linkable
<1>5. PICK m \in {n, n + 1} :
         /\ AddedTo(fork_db, head, b, f, m) /\ m <= Len(log) + 1 /\ LinksToLog(irr)
         /\ Files(log, reversible, head) /\ Undamaged(log, reversible, head)
         /\ Files(log, rev, head) /\ Undamaged(log, rev, head)
         /\ log = blog \/ (Len(log) <= Lib[head] /\ \E x \in Blocks : log = Append(blog, x))
         /\ Len(log) \in Nat /\ 1 <= Len(log)
         /\ IsDb(dd) /\ Sessions(dd, log, head)
  <2>1. On(head, head)
    BY <1>3, OnSelf
  <2> QED BY <1>1, <1>2, <1>3, <2>1, AddStep
<1>6. blog' = log /\ MaybeSwitchForks(f, dd, rev, TRUE, TRUE)
  BY <1>1, <1>5
<1>7. /\ new \in Blocks /\ Lib[head] <= Lib[new] /\ Lib[head] \in Nat /\ new \in f.index
      /\ num(head) \in Nat /\ num(new) \in Nat
  BY <1>2, <1>4, <1>5, NewHead, BlockFacts
<1>8. m \in Nat \ {0} /\ PendingInv' /\ f \in ForkDbs
  BY <1>1, <1>5 DEF PendingInv, AddedTo, ForkInv, ForkShape
<1>9. dd.state = head /\ dd.revision = num(head) /\ DOMAIN dd.undo = (Len(log) + 1)..num(head)
  BY <1>5 DEF Sessions
<1>10. Len(log) <= num(head)
  BY <1>5 DEF Files
<1>20. NodeInv(fork_db, head, n) /\ AddedTo(fork_db, head, b, f, m)
  BY <1>2, <1>5
<1> HIDE DEF irr, f, log, rev, dd
\* The block was rejected: the invalid block leaves, the rest is as before.
<1>11. ASSUME NEW V, ValidIn(V, f.index), NEW bad \in Invalid, On(bad, new),
              fork_db' = RejectedDb(f, V, bad),
              db' = dd, reversible' = rev, head' = head, status' = status
       PROVE  ControllerInv' /\ StepInv
  <2>1. /\ NodeInv(fork_db', head, m)
        /\ IsFirst(head, fork_db.index, fork_db.older) =>
              fork_db'.head = head /\ IsFirst(head, fork_db'.index, fork_db'.older)
    BY <1>4, <1>11, <1>20, Rejected
  <2>2. HeadInv'
    BY <1>1, <1>3, <1>11, <2>1 DEF HeadInv
  <2>3. ControllerInv'
    BY <1>1, <1>3, <1>5, <1>6, <1>8, <1>11, <2>1, <2>2, UpState
  <2> QED BY <2>3, <1>5, <1>6, <1>7, <1>11 DEF StepInv
\* The node moved to the new head.
<1>12. ASSUME status' = status, head' = new, NodeInv(fork_db', new, m), fork_db'.head = new,
              IsFirst(new, fork_db'.index, fork_db'.older), IsDb(db'), Sessions(db', log, new),
              Files(log, reversible', new), Undamaged(log, reversible', new)
       PROVE  ControllerInv' /\ StepInv
  <2>1. HeadInv'
    BY <1>1, <1>12 DEF HeadInv
  <2>2. ControllerInv'
    BY <1>1, <1>3, <1>5, <1>6, <1>8, <1>12, <2>1, UpState
  <2> QED BY <2>2, <1>5, <1>6, <1>7, <1>12 DEF StepInv
<1>13. CASE new # head /\ prev(new) = head
  <2>1. new = b
    BY <1>2, <1>4, <1>5, <1>13, NotGenesis
  <2>2. ExtendHead(f, dd, rev, TRUE, TRUE)
    BY <1>6, <1>13 DEF MaybeSwitchForks
  <2>3. CASE new \in Invalid
    <3>1. /\ fork_db' = remove(f, new) /\ db' = dd /\ reversible' = rev
          /\ head' = head /\ status' = status
      BY <2>2, <2>3, <1>9 DEF ExtendHead
    <3>2. f = Flagged(f, f.in_current_chain, {}) /\ On(new, new)
      BY <1>7, <1>8, FlaggedSame, OnSelf
    <3>3. fork_db' = RejectedDb(f, {}, new) /\ ValidIn({}, f.index)
      BY <3>1, <3>2 DEF RejectedDb, ValidIn
    <3> QED BY <3>1, <3>2, <3>3, <2>3, <1>11
  <2>4. CASE new \notin Invalid
    <3>1. /\ fork_db' = ExtendedDb(f, new)
          /\ head' = new /\ db' = Apply(dd, num(new), new)
          /\ reversible' = Recorded(rev, num(new), new, TRUE) /\ status' = status
      BY <2>2, <2>4, <1>9 DEF ExtendHead, Flagged, ExtendedDb
    <3>2. /\ NodeInv(fork_db', new, m) /\ fork_db'.head = new
          /\ IsFirst(new, fork_db'.index, fork_db'.older)
      <4>1. /\ prev(b) = head /\ b \notin Invalid /\ f.head = b
            /\ fork_db' = ExtendedDb(f, b)
        BY <1>13, <2>1, <2>4, <3>1
      <4>2. NodeInv(fork_db', b, m) /\ fork_db'.head = b /\ IsFirst(b, fork_db'.index, fork_db'.older)
        BY <1>4, <1>20, <4>1, Extended
      <4> QED BY <2>1, <4>2
    <3>3. /\ num(new) \in 2..num(new) /\ num(new) - 1 = num(head) /\ new # Genesis
          /\ chain[new][num(new) - 1] = head /\ chain[head][num(new) - 1] = head
      BY <1>3, <1>4, <1>7, <1>13, <2>1, PrevFacts, BlockFacts
    <3>4. Sessions(db', log, new) /\ IsDb(db')
      BY <1>5, <1>7, <1>10, <1>13, <3>1, <3>3, ExtendSessions, ApplyIs
    <3>5. Files(log, reversible', new) /\ Undamaged(log, reversible', new)
      <4>1. /\ num(new) - 1 <= num(head) /\ Len(log) < num(new)
            /\ chain[new][num(new) - 1] = chain[head][num(new) - 1]
        BY <1>5, <1>7, <1>10, <3>3
      <4>2. Files(log, rev, head) /\ Undamaged(log, rev, head)
        BY <1>5
      <4> QED BY <1>3, <1>7, <3>1, <3>3, <4>1, <4>2, RecordedFiles
    <3> QED BY <3>1, <3>2, <3>4, <3>5, <1>12
  <2> QED BY <2>3, <2>4
<1>14. CASE new = head
  <2>1. /\ fork_db' = f /\ db' = dd /\ reversible' = rev /\ head' = head /\ status' = status
    BY <1>6, <1>14 DEF MaybeSwitchForks
  <2>2. NodeInv(f, head, m) /\ IsFirst(head, f.index, f.older)
    BY <1>2, <1>4, <1>5, <1>14, SameHead DEF AddedTo
  <2> QED BY <2>1, <2>2, <1>5, <1>12, <1>14
<1>15. CASE new # head /\ prev(new) # head /\ CanSwitch(f, dd, new)
  <2>1. SwitchForks(f, dd, rev, TRUE)
    BY <1>6, <1>15 DEF MaybeSwitchForks
  <2>2. /\ j \in 2..num(head) /\ j <= num(new) /\ chain[new][j - 1] = chain[head][j - 1]
        /\ chain[head][j - 1] \in f.index /\ j..num(head) \subseteq DOMAIN dd.undo
    <3>1. PICK k \in 2..Lower(num(new), num(head)) : chain[new][k - 1] = chain[head][k - 1]
      BY <1>15 DEF CanSwitch
    <3>2. /\ j \in k..num(head) /\ j <= num(new) /\ chain[new][j - 1] = chain[head][j - 1]
      BY <3>1, <1>3, <1>7, ForkNumIs
    <3>3. chain[head][j - 1] \in f.index /\ j..num(head) \subseteq DOMAIN dd.undo
      BY <1>15 DEF CanSwitch
    <3> HIDE DEF j
    <3> QED BY <3>1, <3>2, <3>3
  <2>3. j \in Nat \ {0} /\ j \in 2..num(new) /\ Len(log) < j /\ j - 1 <= num(head)
    <3> HIDE DEF j
    <3>1. j \in (Len(log) + 1)..num(head)
      BY <2>2, <1>7, <1>9
    <3> QED BY <2>2, <3>1, <1>5, <1>7
  <2>4. CASE BadNums(j, new) # {}
    <3> DEFINE bad == FirstBad(j, new)
               V == {chain[new][k] : k \in j..(bad - 1)}
    <3>1. /\ fork_db' = remove([f EXCEPT !.validated = @ \cup V], chain[new][bad])
          /\ db' = dd /\ reversible' = rev /\ head' = head /\ status' = status
      BY <2>1, <2>4 DEF SwitchForks
    <3>2. /\ bad \in j..num(new) /\ chain[new][bad] \in Invalid
          /\ \A k \in j..(bad - 1) : chain[new][k] \notin Invalid
      BY <2>3, <2>4, <1>7, FirstBadIs
    <3> HIDE DEF bad, j
    <3>3. On(chain[new][bad], new)
      <4>1. bad \in 1..num(new)
        BY <2>3, <3>2, <1>7
      <4> QED BY <4>1, <1>7, Below
    <3>4. m <= j - 1
      <4>1. j - 1 \in 1..num(head)
        BY <2>2, <2>3, <1>7
      <4>2. num(chain[head][j - 1]) = j - 1
        BY <4>1, <1>3, Below
      <4> QED BY <4>2, <2>2, <1>5 DEF AddedTo, ForkInv, ForkShape, Rooted
    <3>5. ValidIn(V, f.index)
      <4> SUFFICES ASSUME NEW k \in j..(bad - 1) PROVE chain[new][k] \in f.index \ Invalid
        BY DEF ValidIn
      <4>1. k \in m..num(new)
        BY <2>3, <3>2, <3>4, <1>7
      <4>2. chain[new][k] \in f.index
        BY <4>1, <1>5, <1>7 DEF AddedTo, ForkInv, ForkShape, Rooted
      <4> QED BY <4>2, <3>2
    <3> HIDE DEF V
    <3>6. fork_db' = RejectedDb(f, V, chain[new][bad])
      BY <3>1, <1>8, FlaggedSame DEF RejectedDb
    <3> QED BY <3>1, <3>2, <3>3, <3>5, <3>6, <1>11
  <2>5. CASE BadNums(j, new) = {}
    <3>1. /\ fork_db' = SwitchedDb(f, head, j) /\ NoneBad(j, new)
          /\ head' = new /\ db' = Apply(UndoTo(dd, j), j, new)
          /\ reversible' = Recorded(rev, j, new, TRUE) /\ status' = status
      BY <2>1, <2>5 DEF SwitchForks, Flagged, SwitchedDb, NoneBad
    <3> HIDE DEF j
    <3>2. /\ NodeInv(fork_db', new, m) /\ fork_db'.head = new
          /\ IsFirst(new, fork_db'.index, fork_db'.older)
      BY <1>4, <1>20, <2>2, <3>1, Switched
    <3>3. Sessions(db', log, new) /\ IsDb(db')
      BY <1>3, <1>5, <1>7, <2>2, <2>3, <3>1, SwitchSessions
    <3>4. Files(log, reversible', new) /\ Undamaged(log, reversible', new)
      BY <1>3, <1>5, <1>7, <2>2, <2>3, <3>1, RecordedFiles
    <3> QED BY <3>1, <3>2, <3>3, <3>4, <1>12
  <2> QED BY <2>4, <2>5
<1>16. CASE new # head /\ prev(new) # head /\ ~ CanSwitch(f, dd, new)
  <2>1. /\ status' = "broken" /\ fork_db' = fork_db /\ head' = head /\ db' = db
        /\ reversible' = reversible
    BY <1>6, <1>16 DEF MaybeSwitchForks
  <2>2. Damage \/ ~ SwitchesInTime
    <3> SUFFICES ASSUME ~ Damage, SwitchesInTime PROVE FALSE
      OBVIOUS
    <3>1. Len(log) = 1 \/ Len(log) <= Lib[head]
      BY <1>5 DEF Undamaged
    <3>2. PICK k \in 2..Lower(num(new), num(head)) :
             chain[new][k - 1] = chain[head][k - 1] /\ m <= k - 1 /\ Len(log) <= k - 1
      <4>1. PICK L \in Nat : L = Len(log)
        BY <1>5
      <4>2. /\ f.head # head /\ prev(f.head) # head /\ (L = 1 \/ L <= Lib[head])
        BY <1>16, <3>1, <4>1
      <4>3. \E k \in 2..Lower(num(f.head), num(head)) :
               chain[f.head][k - 1] = chain[head][k - 1] /\ m <= k - 1 /\ L <= k - 1
        BY <1>4, <1>20, <4>2, PartAbove
      <4> QED BY <4>1, <4>3
    <3>3. /\ j \in k..num(head) /\ j <= num(new) /\ chain[new][j - 1] = chain[head][j - 1]
      BY <3>2, <1>3, <1>7, ForkNumIs
    <3>4. chain[head][j - 1] \in f.index
      <4> HIDE DEF j
      <4>1. j - 1 \in m..num(head)
        BY <3>2, <3>3, <1>7, <1>8
      <4> QED BY <4>1, <1>5 DEF AddedTo, ForkInv, ForkShape, Rooted
    <3>5. j..num(head) \subseteq DOMAIN dd.undo
      <4> HIDE DEF j
      <4> QED BY <3>2, <3>3, <1>5, <1>7, <1>9
    <3>6. CanSwitch(f, dd, new)
      BY <3>2, <3>4, <3>5 DEF CanSwitch
    <3> QED BY <3>6, <1>16
  <2>3. FilesInv'
    BY <1>3, <1>5, <1>6, <2>1, OnSelf, <1>2, NodeFacts DEF FilesInv
  <2>4. n \in 1..num(head) /\ n <= Len(log) + 1
    BY <1>2, <1>5, NodeFacts
  <2>5. PhaseInv' /\ EndInv' /\ HeadInv' /\ status' \in Statuses
    BY <1>1, <1>3, <2>1, <2>2 DEF PhaseInv, EndInv, HeadInv, Statuses
  <2>6. ControllerInv'
    BY <1>1, <1>2, <1>3, <1>6, <1>8, <2>1, <2>3, <2>4, <2>5 DEF ControllerInv
  <2> QED BY <2>1, <2>6, <1>5, <1>6 DEF StepInv
<1> QED BY <1>13, <1>14, <1>15, <1>16

LEMMA StartBlockStep ==
    ASSUME ControllerInv, NEW b \in LocalBlocks, start_block(b)
    PROVE  ControllerInv' /\ StepInv
<1>1. /\ status = "up" /\ pending' = <<b>> /\ b \notin fork_db.index /\ prev(b) = head
      /\ status' = IF db.revision = num(head) THEN "up" ELSE "broken"
      /\ UNCHANGED <<fork_db, head, db, blog, reversible, stops>>
  BY DEF start_block
<1>2. db.revision = num(head) /\ head \in Blocks
  BY <1>1, UpIs DEF Sessions
<1>3. status' = "up"
  BY <1>1, <1>2
<1>4. PendingInv'
  BY <1>1, <1>3 DEF PendingInv
<1>5. HeadInv' /\ FilesInv' /\ PhaseInv' /\ EndInv'
  BY <1>1, <1>3 DEF ControllerInv, HeadInv, FilesInv, PhaseInv, EndInv, Started
<1>6. ControllerInv'
  BY <1>1, <1>3, <1>4, <1>5 DEF ControllerInv
<1>7. StepInv
  BY <1>1, <1>2, BlockFacts DEF StepInv
<1> QED BY <1>6, <1>7

LEMMA AbortBlockStep ==
    ASSUME ControllerInv, abort_block
    PROVE  ControllerInv' /\ StepInv
<1>1. /\ status = "up" /\ pending' = <<>>
      /\ UNCHANGED <<status, fork_db, head, db, blog, reversible, stops>>
  BY DEF abort_block
<1>2. head \in Blocks
  BY <1>1, UpIs
<1>3. HeadInv' /\ FilesInv' /\ PhaseInv' /\ EndInv' /\ PendingInv'
  BY <1>1 DEF ControllerInv, HeadInv, FilesInv, PhaseInv, EndInv, Started, PendingInv
<1>4. ControllerInv'
  BY <1>1, <1>3 DEF ControllerInv
<1>5. StepInv
  BY <1>1, <1>2, BlockFacts DEF StepInv
<1> QED BY <1>4, <1>5

LEMMA CommitBlockStep ==
    ASSUME Environment, ControllerInv, commit_block
    PROVE  ControllerInv' /\ StepInv
<1>1. PICK n \in Nat \ {0} : NodeInv(fork_db, head, n) /\ n <= Len(blog) + 1
  BY UpIs DEF commit_block
<1>2. /\ Files(blog, reversible, head) /\ Undamaged(blog, reversible, head)
      /\ Sessions(db, blog, head) /\ IsDb(db) /\ head \in Blocks /\ status = "up"
      /\ stops \in [crash : Nat, close : Nat] /\ HeadInv /\ PendingInv
  BY UpIs DEF commit_block
<1>3. PICK b \in LocalBlocks : pending = <<b>> /\ b \notin fork_db.index /\ prev(b) = head
  BY <1>2 DEF PendingInv, commit_block
<1>4. b \in Blocks /\ b # Genesis /\ b \notin Invalid /\ pending[1] = b
  BY <1>3, BlocksAssumption
<1>5. Linkable(b) /\ prev(b) \in fork_db.index
  BY <1>1, <1>3, <1>4, NodeFacts DEF Linkable
<1> DEFINE irr == Pruned(fork_db, b)
           f == add(fork_db, b)
           log == LogIrreversible(irr)
           rev == TrimReversible(irr)
           dd == CommitIrreversible(db, irr)
<1>6. /\ status' = IF LinksToLog(irr) THEN "up" ELSE "broken"
      /\ fork_db' = [f EXCEPT !.in_current_chain = @ \cup {b}, !.validated = @ \cup {b}]
      /\ blog' = log /\ head' = f.head
      /\ db' = IF f.head = b THEN Apply(dd, num(b), b) ELSE dd
      /\ reversible' = IF f.head = b THEN Recorded(rev, num(b), b, TRUE) ELSE rev
      /\ pending' = <<>> /\ stops' = stops
  BY <1>4 DEF commit_block
<1>7. PICK m \in {n, n + 1} :
         /\ AddedTo(fork_db, head, b, f, m) /\ m <= Len(log) + 1 /\ LinksToLog(irr)
         /\ Files(log, rev, head) /\ Undamaged(log, rev, head)
         /\ log = blog \/ (Len(log) <= Lib[head] /\ \E x \in Blocks : log = Append(blog, x))
         /\ Len(log) \in Nat /\ 1 <= Len(log)
         /\ IsDb(dd) /\ Sessions(dd, log, head)
  <2>1. On(head, head)
    BY <1>2, OnSelf
  <2> QED BY <1>1, <1>2, <1>4, <1>5, <2>1, AddStep
<1>8. Len(log) <= num(head)
  BY <1>7 DEF Files
<1> HIDE DEF irr, f, log, rev, dd
<1>9. f.head = b
  BY <1>1, <1>3, <1>4, <1>7, ChildBecomesHead
<1>10. /\ status' = "up" /\ head' = b /\ db' = Apply(dd, num(b), b)
       /\ reversible' = Recorded(rev, num(b), b, TRUE) /\ fork_db' = ExtendedDb(f, b)
  BY <1>6, <1>7, <1>9 DEF ExtendedDb, Flagged
<1>11. NodeInv(fork_db, head, n) /\ AddedTo(fork_db, head, b, f, m)
  BY <1>1, <1>7
<1>12. NodeInv(fork_db', b, m) /\ fork_db'.head = b /\ IsFirst(b, fork_db'.index, fork_db'.older)
  BY <1>3, <1>4, <1>9, <1>10, <1>11, Extended
<1>13. /\ num(b) \in 2..num(b) /\ num(b) - 1 = num(head) /\ num(head) \in Nat
       /\ chain[b][num(b) - 1] = head /\ chain[head][num(b) - 1] = head
       /\ Lib[head] <= Lib[b] /\ Lib[head] \in Nat
  BY <1>2, <1>3, <1>4, PrevFacts, BlockFacts, ChildIsBetter
<1>14. Sessions(db', log, b) /\ IsDb(db')
  BY <1>3, <1>4, <1>7, <1>8, <1>10, <1>13, ExtendSessions, ApplyIs
<1>15. Files(log, reversible', b) /\ Undamaged(log, reversible', b)
  <2>1. /\ num(b) - 1 <= num(head) /\ Len(log) < num(b)
        /\ chain[b][num(b) - 1] = chain[head][num(b) - 1]
    BY <1>7, <1>8, <1>13
  <2>2. Files(log, rev, head) /\ Undamaged(log, rev, head)
    BY <1>7
  <2> QED BY <1>2, <1>4, <1>10, <1>13, <2>1, <2>2, RecordedFiles
<1>16. HeadInv' /\ PendingInv' /\ m \in Nat \ {0}
  BY <1>6, <1>10, <1>12 DEF HeadInv, PendingInv
<1>17. ControllerInv'
  BY <1>2, <1>6, <1>7, <1>10, <1>12, <1>14, <1>15, <1>16, UpState
<1>18. StepInv
  BY <1>6, <1>7, <1>10, <1>13 DEF StepInv
<1> QED BY <1>17, <1>18

LEMMA CloseStep ==
    ASSUME Environment, ControllerInv, close
    PROVE  ControllerInv' /\ StepInv
<1> DEFINE oldest == Oldest(fork_db)
           irr == IF num(oldest) <= Lib[fork_db.head] THEN <<oldest>> ELSE <<>>
           log == LogIrreversible(irr)
           rev == TrimReversible(irr)
           dd == CommitIrreversible(db, irr)
<1>1. /\ status = "up" /\ stops.close < MaxCloses /\ stops' = [stops EXCEPT !.close = @ + 1]
      /\ status' = (IF LinksToLog(irr) THEN "closed" ELSE "broken")
      /\ pending' = <<>> /\ db' = dd /\ blog' = log /\ reversible' = rev
      /\ fork_db' = fork_db /\ head' = head
  BY DEF close
<1>2. PICK n \in Nat \ {0} : NodeInv(fork_db, head, n) /\ n <= Len(blog) + 1
  BY <1>1, UpIs
<1>3. /\ Files(blog, reversible, head) /\ Undamaged(blog, reversible, head)
      /\ Sessions(db, blog, head) /\ IsDb(db) /\ head \in Blocks
      /\ stops \in [crash : Nat, close : Nat] /\ HeadInv
  BY <1>1, UpIs
<1>4. /\ n \in 1..num(head) /\ (n = 1 \/ n <= Lib[head]) /\ num(head) \in Nat /\ ValidChain(head)
  BY <1>2, NodeFacts
<1>5. stops.close \in Nat /\ stops'.close = stops.close + 1 /\ stops' \in [crash : Nat, close : Nat]
  BY <1>1, <1>3
<1>6. fork_db.head = head
  <2>1. CASE Invalid = {}
    BY <2>1, <1>3 DEF HeadInv
  <2>2. CASE Invalid # {}
    <3>1. MaxCloses <= 1 /\ MaxCloses \in Nat
      BY <2>2, BlocksAssumption DEF Environment
    <3>2. stops.close = 0
      BY <3>1, <1>1, <1>5
    <3> QED BY <3>2, <1>3 DEF HeadInv
  <2> QED BY <2>1, <2>2
<1>7. oldest = chain[head][n] /\ num(oldest) = n
  <2>1. /\ head \in fork_db.index /\ fork_db.index \in SUBSET Blocks /\ Rooted(fork_db.index, n)
        /\ \A c \in fork_db.in_current_chain : On(c, head)
        /\ \A k \in n..num(head) : k > 1 => chain[head][k] \in fork_db.in_current_chain
    BY <1>2, NodeFacts DEF NodeInv, ForkInv, ForkShape, ChainInv
  <2>2. oldest = chain[head][n]
    BY <2>1, OldestIs
  <2> QED BY <2>2, <1>3, <1>4, Below
<1>8. irr = <<>> \/ (irr = <<chain[head][n]>> /\ n < num(head))
  <2>1. Lib[head] \in Nat /\ Lib[head] < num(head)
    BY <1>3, BlockFacts
  <2> QED BY <2>1, <1>4, <1>6, <1>7
<1> HIDE DEF irr
<1>9. /\ LinksToLog(irr) /\ Files(log, rev, head) /\ Undamaged(log, rev, head)
      /\ \/ log = blog
         \/ log = Append(blog, chain[head][n]) /\ chain[head][n] \in Blocks
            /\ Len(log) = n /\ n <= Lib[head]
      /\ Len(log) \in Nat /\ Len(blog) <= Len(log)
      /\ irr # <<>> => n <= Len(log)
      /\ Len(log) = Len(blog) \/ (irr # <<>> /\ Len(log) = n)
  <2>1. On(head, head)
    BY <1>3, OnSelf
  <2> QED BY <1>2, <1>3, <1>4, <1>8, <2>1, LogStep
<1>10. irr # <<>> => num(irr[1]) = n
  BY <1>3, <1>4, <1>8, Below
<1>11. Len(blog) \in Nat
  BY <1>3 DEF Files
<1>12. IsDb(dd) /\ Sessions(dd, log, head)
  BY <1>3, <1>4, <1>9, <1>10, <1>11, CommitSessions
<1>13. status' = "closed"
  BY <1>1, <1>9
<1> HIDE DEF log, rev, dd
<1>14. n <= Len(blog') + 1
  BY <1>1, <1>2, <1>9, <1>11
<1>15. FilesInv'
  BY <1>1, <1>3, <1>4, <1>9, OnSelf DEF FilesInv
<1>16. PhaseInv' /\ EndInv' /\ PendingInv' /\ status' \in Statuses
  BY <1>1, <1>12, <1>13 DEF PhaseInv, EndInv, PendingInv, Statuses
<1>17. HeadInv'
  BY <1>1, <1>5, <1>6, <1>13 DEF HeadInv
<1>18. ControllerInv'
  BY <1>1, <1>2, <1>4, <1>5, <1>12, <1>14, <1>15, <1>16, <1>17 DEF ControllerInv
<1>19. StepInv
  BY <1>1, <1>3, <1>9, BlockFacts DEF StepInv
<1> QED BY <1>18, <1>19

\* The hash table's order is one order of the blocks with the same number.
LEMMA ReorderedIsOrder ==
    ASSUME NEW S, NEW older, Ordered(S, older), NEW o \in Reordered(older)
    PROVE  Ordered(S, o)
<1>1. PICK s \in SUBSET older : o = (older \ s) \cup {<<p[2], p[1]>> : p \in s} /\ IsOrder(o)
  BY DEF Reordered
<1>2. older \subseteq S \X S
  BY DEF Ordered
<1>3. \A a, b : <<a, b>> \in {<<p[2], p[1]>> : p \in s} <=> <<b, a>> \in s
  <2> SUFFICES ASSUME NEW a, NEW b
               PROVE  <<a, b>> \in {<<p[2], p[1]>> : p \in s} <=> <<b, a>> \in s
    OBVIOUS
  <2>1. ASSUME <<b, a>> \in s PROVE <<a, b>> \in {<<p[2], p[1]>> : p \in s}
    <3>1. <<b, a>>[2] = a /\ <<b, a>>[1] = b
      OBVIOUS
    <3> QED BY <2>1, <3>1
  <2>2. ASSUME NEW p \in s, <<a, b>> = <<p[2], p[1]>> PROVE <<b, a>> \in s
    <3>1. p \in S \X S
      BY <1>2
    <3>2. p = <<p[1], p[2]>>
      BY <3>1
    <3> QED BY <2>2, <3>2
  <2> QED BY <2>1, <2>2
<1>4. \A a, b : <<a, b>> \in o <=> (<<a, b>> \in older /\ <<a, b>> \notin s) \/ <<b, a>> \in s
  BY <1>1, <1>3
<1>5. o \subseteq S \X S
  <2>1. \A q \in o : q \in older \/ \E p \in s : q = <<p[2], p[1]>>
    BY <1>1
  <2>2. \A p \in s : p \in S \X S
    BY <1>2
  <2> QED BY <1>2, <2>1, <2>2
<1>6. \A a, b : <<a, b>> \in s => <<a, b>> \in older
  OBVIOUS
<1>7. \A a, b \in S : <<a, b>> \in o => num(a) = num(b) /\ <<b, a>> \notin o
  BY <1>4, <1>6 DEF Ordered
<1>8. \A a, b \in S : a # b /\ num(a) = num(b) => <<a, b>> \in o \/ <<b, a>> \in o
  BY <1>4, <1>6 DEF Ordered
<1>9. ASSUME NEW a \in S, NEW b \in S, NEW c \in S, <<a, b>> \in o, <<b, c>> \in o
      PROVE  <<a, c>> \in o
  <2>1. <<a, b>>[2] = <<b, c>>[1] => <<(<<a, b>>[1]), (<<b, c>>[2])>> \in o
    BY <1>1, <1>9 DEF IsOrder
  <2> QED BY <2>1
<1> QED BY <1>5, <1>7, <1>8, <1>9 DEF Ordered

LEMMA StartupStep ==
    ASSUME ControllerInv, startup
    PROVE  ControllerInv' /\ StepInv
<1>1. PICK older \in Reordered(fork_db.older) : fork_db' = [fork_db EXCEPT !.older = older]
  BY DEF startup
<1>2. /\ status = "closed" /\ head' = fork_db.head
      /\ status' = IF Consistent(fork_db.head, db, reversible) THEN "up" ELSE "failed"
      /\ db' = IF Consistent(fork_db.head, db, reversible) /\ db.revision > num(fork_db.head)
               THEN UndoTo(db, num(fork_db.head) + 1) ELSE db
      /\ UNCHANGED <<blog, reversible, pending, stops>>
  BY DEF startup
<1>3. PICK n \in 1..num(head) : NodeInv(fork_db, head, n) /\ n <= Len(blog) + 1
  BY DEF ControllerInv
<1>4. /\ head \in Blocks /\ ValidChain(head) /\ num(head) \in Nat /\ fork_db \in ForkDbs
      /\ n \in Nat \ {0} /\ Lib[head] \in Nat
  BY <1>3, NodeFacts
<1>5. /\ Files(blog, reversible, head) /\ Undamaged(blog, reversible, head)
      /\ Sessions(db, blog, head) /\ IsDb(db) /\ fork_db.head = head /\ stops.close > 0
      /\ stops \in [crash : Nat, close : Nat] /\ pending = <<>>
  BY <1>2 DEF ControllerInv, FilesInv, PhaseInv, HeadInv, PendingInv
<1>6. head' = head /\ db' = db
  BY <1>2, <1>4, <1>5 DEF Sessions
<1>7. NodeInv(fork_db', head, n) /\ fork_db'.head = head
  <2>1. Ordered(fork_db.index, older)
    BY <1>1, <1>3, ReorderedIsOrder DEF NodeInv, ForkInv, ForkShape
  <2>2. older \in SUBSET (Blocks \X Blocks)
    <3>1. fork_db.index \in SUBSET Blocks
      BY <1>4, ForkDbFields
    <3> QED BY <2>1, <3>1 DEF Ordered
  <2>3. /\ fork_db'.index = fork_db.index /\ fork_db'.older = older
        /\ fork_db'.in_current_chain = fork_db.in_current_chain
        /\ fork_db'.validated = fork_db.validated /\ fork_db'.head = fork_db.head
        /\ fork_db' \in ForkDbs
    BY <1>1, <1>4, <2>2 DEF ForkDbs
  <2>4. ForkInv(fork_db', n)
    BY <1>3, <2>1, <2>3 DEF NodeInv, ForkInv, ForkShape
  <2>5. ChainInv(fork_db', head, n)
    BY <1>3, <2>3 DEF NodeInv, ChainInv
  <2> QED BY <1>5, <2>3, <2>4, <2>5 DEF NodeInv
<1>8. Damage \/ status' = "up"
  <2> SUFFICES ASSUME ~ Damage PROVE Consistent(head, db, reversible)
    BY <1>2, <1>5
  <2>1. DOMAIN reversible = {} \/ num(head) \in DOMAIN reversible
    BY <1>5 DEF Undamaged
  <2>2. /\ DOMAIN reversible \subseteq 1..num(head) /\ Len(blog) \in Nat /\ Len(blog) <= num(head)
        /\ (Len(blog) + 1)..num(head) \subseteq DOMAIN reversible
    BY <1>5 DEF Files
  <2>3. DOMAIN reversible = {} => Len(blog) = num(head)
    <3>1. Len(blog) < num(head) => num(head) \in (Len(blog) + 1)..num(head)
      BY <1>4, <2>2
    <3> QED BY <1>4, <2>2, <3>1
  <2>4. db.revision >= num(head)
    BY <1>4, <1>5 DEF Sessions
  <2>5. \A k \in DOMAIN reversible : k <= num(head)
    BY <1>4, <2>2
  <2> QED BY <2>1, <2>3, <2>4, <2>5 DEF Consistent
<1>9. FilesInv'
  BY <1>2, <1>4, <1>5, <1>6, OnSelf DEF FilesInv
<1>10. status' \in {"up", "failed"} /\ (status' = "failed" => Damage)
  BY <1>2, <1>8
<1>11. PhaseInv' /\ EndInv' /\ PendingInv' /\ status' \in Statuses
  BY <1>2, <1>5, <1>6, <1>10 DEF PhaseInv, EndInv, PendingInv, Statuses
<1>12. HeadInv'
  BY <1>2, <1>5, <1>6, <1>7, <1>10 DEF HeadInv
<1>13. ControllerInv'
  BY <1>2, <1>3, <1>5, <1>6, <1>7, <1>9, <1>11, <1>12 DEF ControllerInv
<1>14. StepInv
  BY <1>2, <1>4, <1>6 DEF StepInv
<1> QED BY <1>13, <1>14

\* A fork database that holds genesis only.
LEMMA GenesisNode ==
    /\ NodeInv(GenesisForkDb, Genesis, 1) /\ IsDb(GenesisDb)
    /\ GenesisForkDb.head = Genesis /\ \A c \in GenesisForkDb.index : c = Genesis
    /\ IsFirst(Genesis, GenesisForkDb.index, GenesisForkDb.older)
    /\ GenesisDb.state = Genesis /\ GenesisDb.revision = 1 /\ DOMAIN GenesisDb.undo = {}
<1> DEFINE g == GenesisForkDb
<1>1. /\ g.index = {Genesis} /\ g.older = {} /\ g.in_current_chain = {} /\ g.validated = {}
      /\ g.head = Genesis /\ Genesis \in Blocks /\ num(Genesis) = 1 /\ chain[Genesis][1] = Genesis
      /\ Genesis \notin Invalid /\ g \in ForkDbs
  BY GenesisFacts, BlockFacts, BlocksAssumption DEF GenesisForkDb, ForkDbs
<1> HIDE DEF g
<1>2. IsFirst(Genesis, g.index, g.older)
  BY <1>1 DEF IsFirst
<1>3. BestIn(Genesis, g.index)
  BY <1>1, <1>2, FirstIsBest
<1>4. IsFiniteSet(g.index) /\ Ordered(g.index, g.older)
  BY <1>1, FS_Singleton DEF Ordered
<1>5. Rooted(g.index, 1)
  BY <1>1 DEF Rooted
<1>6. ForkInv(g, 1)
  BY <1>1, <1>3, <1>4, <1>5 DEF ForkInv, ForkShape
<1>7. ValidChain(Genesis)
  BY <1>1 DEF ValidChain
<1>8. ChainInv(g, Genesis, 1)
  BY <1>1, <1>3, <1>7 DEF ChainInv
<1>9. /\ GenesisDb.state = Genesis /\ GenesisDb.revision = 1 /\ DOMAIN GenesisDb.undo = {}
      /\ IsDb(GenesisDb)
  BY <1>1 DEF GenesisDb, IsDb
<1> QED BY <1>1, <1>2, <1>6, <1>8, <1>9 DEF NodeInv, g

\* A state in which only the files are left.
LEMMA LostState ==
    ASSUME Lost, status' \in {"crashed", "replay_irreversible", "finish"},
           status' = "finish" => Len(blog') = 1, stops' \in [crash : Nat, close : Nat],
           NEW e \in Blocks, ValidChain(e), Files(blog', reversible', e),
           Undamaged(blog', reversible', e)
    PROVE  ControllerInv'
<1>1. /\ fork_db' = GenesisForkDb /\ head' = Genesis /\ db' = GenesisDb /\ pending' = <<>>
  BY DEF Lost
<1>2. Genesis \in Blocks /\ num(Genesis) = 1 /\ On(Genesis, e) /\ On(Genesis, Genesis)
  BY GenesisFacts, BlockFacts, OnSelf DEF On
<1>3. Len(blog') \in Nat /\ 1 <= Len(blog') /\ 1 \in 1..1
  BY DEF Files
<1>4. FilesInv'
  BY <1>1, <1>2 DEF FilesInv
<1>5. PhaseInv'
  BY <1>1, <1>2, <1>3, GenesisNode DEF PhaseInv, Started
<1>6. HeadInv' /\ PendingInv' /\ EndInv' /\ status' \in Statuses
  BY <1>1, GenesisNode DEF HeadInv, PendingInv, EndInv, Statuses
<1>7. NodeInv(fork_db', head', 1) /\ 1 \in 1..num(head') /\ 1 <= Len(blog') + 1 /\ IsDb(db')
  BY <1>1, <1>2, <1>3, GenesisNode
<1> QED BY <1>4, <1>5, <1>6, <1>7 DEF ControllerInv

LEMMA CrashStep ==
    ASSUME ControllerInv, crash
    PROVE  ControllerInv' /\ StepInv
<1>1. /\ stops' = [stops EXCEPT !.crash = @ + 1] /\ status' = "crashed"
      /\ reversible' \in Recovered(reversible) /\ Lost /\ blog' = blog
  BY DEF crash
<1>2. PICK d \in Blocks : /\ ValidChain(d) /\ Files(blog, reversible, d)
                          /\ Undamaged(blog, reversible, d)
  BY DEF ControllerInv, FilesInv
<1>3. PICK e \in Blocks : /\ ValidChain(e) /\ Files(blog, reversible', e)
                          /\ Undamaged(blog, reversible', e)
  BY <1>1, <1>2, RecoveredFiles
<1>4. stops' \in [crash : Nat, close : Nat]
  BY <1>1 DEF ControllerInv
<1>5. ControllerInv'
  BY <1>1, <1>3, <1>4, LostState
<1> QED BY <1>1, <1>5 DEF StepInv

LEMMA CrashInOnIrreversibleStep ==
    ASSUME Environment, ControllerInv, NEW b \in Blocks, crash_in_on_irreversible(b)
    PROVE  ControllerInv' /\ StepInv
<1> DEFINE irr == Pruned(fork_db, b)
           log == LogIrreversible(irr)
<1>1. /\ status = "up" /\ Linkable(b) /\ stops' = [stops EXCEPT !.crash = @ + 1]
      /\ status' = "crashed" /\ blog' = log
      /\ reversible' \in Recovered(reversible) /\ Lost
  BY DEF crash_in_on_irreversible
<1>2. PICK n \in Nat \ {0} : NodeInv(fork_db, head, n) /\ n <= Len(blog) + 1
  BY <1>1, UpIs
<1>3. /\ Files(blog, reversible, head) /\ Undamaged(blog, reversible, head)
      /\ IsDb(db) /\ head \in Blocks /\ stops \in [crash : Nat, close : Nat]
  BY <1>1, UpIs
<1>4. ValidChain(head) /\ On(head, head)
  BY <1>2, <1>3, NodeFacts, OnSelf
<1>5. /\ Files(log, reversible, head) /\ Undamaged(log, reversible, head)
      /\ log = blog \/ (Len(log) <= Lib[head] /\ \E x \in Blocks : log = Append(blog, x))
  BY <1>1, <1>2, <1>3, <1>4, AddStep
<1> HIDE DEF log
<1>6. PICK e \in Blocks : /\ ValidChain(e) /\ Files(log, reversible', e)
                          /\ Undamaged(log, reversible', e)
  BY <1>1, <1>3, <1>4, <1>5, RecoveredFiles
<1>7. stops' \in [crash : Nat, close : Nat]
  BY <1>1, <1>3
<1>8. ControllerInv'
  BY <1>1, <1>6, <1>7, LostState
<1> QED BY <1>1, <1>5, <1>8 DEF StepInv

LEMMA StartReplayStep ==
    ASSUME ControllerInv, start_replay
    PROVE  ControllerInv' /\ StepInv
<1>1. /\ status = "crashed" /\ Lost /\ blog' = blog /\ reversible' = reversible /\ stops' = stops
      /\ status' = IF Len(blog) > 1 THEN "replay_irreversible" ELSE "finish"
  BY DEF start_replay
<1>2. PICK d \in Blocks : /\ ValidChain(d) /\ Files(blog, reversible, d)
                          /\ Undamaged(blog, reversible, d)
  BY DEF ControllerInv, FilesInv
<1>3. status' = "finish" => Len(blog) = 1
  <2>1. PICK k \in Nat : k = Len(blog) /\ 1 <= k
    BY <1>2 DEF Files
  <2>2. k > 1 \/ k = 1
    BY <2>1
  <2> QED BY <1>1, <2>1, <2>2
<1>4. stops' \in [crash : Nat, close : Nat]
  BY <1>1 DEF ControllerInv
<1>5. ControllerInv'
  BY <1>1, <1>2, <1>3, <1>4, LostState
<1> QED BY <1>1, <1>5 DEF StepInv

\* A replayed block is the next one of the chain in the files.
LEMMA NextBlock ==
    ASSUME NEW h \in Blocks, NEW d \in Blocks, On(h, d), ValidChain(d), num(h) + 1 <= num(d),
           NEW b, b = chain[d][num(h) + 1]
    PROVE  /\ b \in Blocks /\ b # Genesis /\ b \notin Invalid /\ prev(b) = h /\ On(b, d)
           /\ num(b) = num(h) + 1 /\ ~ On(b, h) /\ On(h, b)
<1>1. /\ num(h) \in Nat /\ 1 <= num(h) /\ num(d) \in Nat /\ chain[d][num(h)] = h
      /\ num(h) + 1 \in 1..num(d) /\ num(h) \in 1..(num(h) + 1) /\ num(h) + 1 # 1
  BY BlockFacts DEF On
<1>2. /\ b \in Blocks /\ num(b) = num(h) + 1 /\ On(b, d)
      /\ \A i \in 1..(num(h) + 1) : chain[b][i] = chain[d][i]
  BY <1>1, Below
<1>3. b # Genesis /\ b \notin Invalid
  BY <1>1, <1>2, GenesisFacts DEF ValidChain
<1>4. prev(b) = h
  <2>1. num(b) - 1 = num(h)
    BY <1>1, <1>2
  <2> QED BY <2>1, <1>1, <1>2 DEF prev
<1>5. ~ On(b, h)
  BY <1>1, <1>2 DEF On
<1>6. On(h, b)
  BY <1>2, <1>3, <1>4, OnPrev
<1> QED BY <1>2, <1>3, <1>4, <1>5, <1>6

LEMMA ReplayStep ==
    ASSUME Environment, ControllerInv,
           status \in {"replay_irreversible", "replay_reversible"},
           NEW d \in Blocks, ValidChain(d), On(head, d), Files(blog, reversible, d),
           Undamaged(blog, reversible, d), num(head) + 1 <= num(d),
           NEW b, b = chain[d][num(head) + 1],
           NEW sessions \in BOOLEAN, sessions => db.revision = num(head), Replay(b, sessions)
    PROVE  /\ status' = status /\ stops' = stops /\ pending' = pending
           /\ head' = b /\ num(b) = num(head) + 1 /\ On(b, d)
           /\ \E m \in 1..num(b) : NodeInv(fork_db', b, m) /\ m <= Len(blog') + 1
           /\ fork_db'.head = b /\ IsFirst(b, fork_db'.index, fork_db'.older)
           /\ \A c \in fork_db'.index : On(c, b)
           /\ Files(blog', reversible', d) /\ Undamaged(blog', reversible', d)
           /\ blog' = blog \/ (Len(blog') <= Lib[head] /\ \E x \in Blocks : blog' = Append(blog, x))
           /\ Len(blog) <= Len(blog') /\ Len(blog') \in Nat
           /\ Len(blog) <= num(head) => Len(blog') <= num(head)
           /\ IsDb(db') /\ db'.state = b
           /\ sessions => db'.revision = num(b)
           /\ ~ sessions => DOMAIN db'.undo \subseteq DOMAIN db.undo
           /\ sessions /\ Sessions(db, blog, head) /\ Len(blog) <= num(head)
                 => Sessions(db', blog', b)
<1> DEFINE irr == Pruned(fork_db, b)
           f == add(fork_db, b)
           log == LogIrreversible(irr)
           rev == TrimReversible(irr)
           dd == CommitIrreversible(db, irr)
<1>1. PICK n \in 1..num(head) : NodeInv(fork_db, head, n) /\ n <= Len(blog) + 1
  BY DEF ControllerInv
<1>2. /\ n \in Nat \ {0} /\ head \in Blocks /\ head \in fork_db.index /\ num(head) \in Nat
      /\ 1 <= num(head)
  BY <1>1, NodeFacts
<1>3. /\ IsDb(db) /\ \A c \in fork_db.index : On(c, head)
  BY DEF ControllerInv, PhaseInv
<1>4. /\ b \in Blocks /\ b # Genesis /\ b \notin Invalid /\ prev(b) = head /\ On(b, d)
      /\ num(b) = num(head) + 1 /\ ~ On(b, head) /\ On(head, b)
  BY <1>2, NextBlock
<1>5. Linkable(b) /\ b \notin fork_db.index /\ prev(b) \in fork_db.index
  BY <1>2, <1>3, <1>4 DEF Linkable
<1>6. /\ pending' = pending /\ stops' = stops
      /\ LinksToLog(irr) => blog' = log /\ MaybeSwitchForks(f, dd, rev, sessions, FALSE)
  BY <1>4, <1>5 DEF Replay, Push
<1>7. PICK m \in {n, n + 1} :
         /\ AddedTo(fork_db, head, b, f, m) /\ m <= Len(log) + 1 /\ LinksToLog(irr)
         /\ Files(log, rev, d) /\ Undamaged(log, rev, d)
         /\ log = blog \/ (Len(log) <= Lib[head] /\ \E x \in Blocks : log = Append(blog, x))
         /\ Len(log) \in Nat /\ 1 <= Len(log) /\ Len(blog) <= Len(log)
         /\ Len(blog) <= num(head) => Len(log) <= num(head)
         /\ IsDb(dd) /\ dd.state = db.state /\ dd.revision = db.revision
         /\ DOMAIN dd.undo \subseteq DOMAIN db.undo
         /\ Sessions(db, blog, head) => Sessions(dd, log, head)
  BY <1>1, <1>2, <1>3, <1>4, <1>5, AddStep
<1> HIDE DEF irr, f, log, rev, dd
<1>8. NodeInv(fork_db, head, n) /\ AddedTo(fork_db, head, b, f, m)
  BY <1>1, <1>7
<1>9. f.head = b /\ b # head
  BY <1>4, <1>5, <1>8, ChildBecomesHead, <1>2
<1>10. blog' = log /\ ExtendHead(f, dd, rev, sessions, FALSE)
  BY <1>4, <1>6, <1>7, <1>9 DEF MaybeSwitchForks
<1>11. ~ (sessions /\ dd.revision # num(head))
  BY <1>7
<1>12. /\ fork_db' = ExtendedDb(f, b) /\ head' = b /\ reversible' = rev /\ status' = status
       /\ db' = IF sessions THEN Apply(dd, num(b), b) ELSE ApplyWithoutSession(dd, b)
  BY <1>4, <1>9, <1>10, <1>11 DEF ExtendHead, ExtendedDb, Flagged
<1>13. NodeInv(fork_db', b, m) /\ fork_db'.head = b /\ IsFirst(b, fork_db'.index, fork_db'.older)
  BY <1>2, <1>4, <1>5, <1>8, <1>9, <1>12, Extended
<1>14. m \in 1..num(b)
  <2>1. m \in Nat \ {0}
    BY <1>2
  <2> QED BY <1>13, <2>1, NodeFacts
<1>15. \A c \in fork_db'.index : On(c, b)
  <2> SUFFICES ASSUME NEW c \in fork_db'.index PROVE On(c, b)
    OBVIOUS
  <2>1. fork_db'.index = f.index
    <3>1. f \in ForkDbs
      BY <1>8 DEF AddedTo, ForkInv, ForkShape
    <3> QED BY <1>12, <3>1 DEF ExtendedDb, Flagged, ForkDbs
  <2>2. c \in fork_db.index \/ c = b
    BY <1>8, <2>1 DEF AddedTo
  <2>3. c \in Blocks
    BY <1>1, <1>2, <1>4, <2>2, NodeFacts
  <2> QED BY <1>2, <1>3, <1>4, <2>2, <2>3, OnTransitive, OnSelf
<1>16. CASE sessions
  <2>1. db' = Apply(dd, num(b), b) /\ num(b) \in 2..num(b)
    BY <1>2, <1>4, <1>12, <1>16
  <2>2. IsDb(db') /\ db'.state = b /\ db'.revision = num(b)
    BY <1>4, <1>7, <2>1, ApplyIs
  <2>3. ASSUME Sessions(db, blog, head), Len(blog) <= num(head)
        PROVE  Sessions(db', log, b)
    <3>1. Sessions(dd, log, head) /\ Len(log) <= num(head)
      BY <1>7, <2>3
    <3> QED BY <1>4, <1>7, <2>1, <3>1, ExtendSessions
  <2> QED BY <1>4, <1>6, <1>7, <1>10, <1>12, <1>13, <1>14, <1>15, <1>16, <2>2, <2>3
<1>17. CASE ~ sessions
  <2>1. db' = [dd EXCEPT !.state = b]
    BY <1>12, <1>17 DEF ApplyWithoutSession
  <2>2. IsDb(db') /\ db'.state = b /\ db'.undo = dd.undo
    BY <1>4, <1>7, <2>1 DEF IsDb
  <2>3. DOMAIN db'.undo \subseteq DOMAIN db.undo
    BY <1>7, <2>2
  <2> QED BY <1>4, <1>6, <1>7, <1>10, <1>12, <1>13, <1>14, <1>15, <1>17, <2>2, <2>3
<1> QED BY <1>16, <1>17

LEMMA ReplayIrreversibleStep ==
    ASSUME Environment, ControllerInv, replay_irreversible
    PROVE  ControllerInv' /\ StepInv
<1>1. /\ status = "replay_irreversible" /\ num(head) < Len(blog)
      /\ Replay(blog[num(head) + 1], disable_replay_opts)
  BY DEF replay_irreversible
<1>2. PICK d \in Blocks : /\ ValidChain(d) /\ On(head, d) /\ Files(blog, reversible, d)
                          /\ Undamaged(blog, reversible, d)
  BY DEF ControllerInv, FilesInv
<1>3. head \in Blocks /\ num(head) \in Nat
  <2>1. PICK n \in 1..num(head) : NodeInv(fork_db, head, n)
    BY DEF ControllerInv
  <2>2. n \in Nat \ {0}
    OBVIOUS
  <2> QED BY <2>1, <2>2, NodeFacts
<1>4. /\ Len(blog) \in Nat /\ Len(blog) <= num(d) /\ num(d) \in Nat
      /\ \A k \in 1..Len(blog) : blog[k] = chain[d][k]
  BY <1>2, BlockFacts DEF Files
<1>5. num(head) + 1 <= num(d) /\ blog[num(head) + 1] = chain[d][num(head) + 1]
  <2>1. num(head) + 1 \in 1..Len(blog)
    BY <1>1, <1>3, <1>4
  <2> QED BY <1>3, <1>4, <2>1
<1>6. /\ disable_replay_opts \in BOOLEAN /\ (disable_replay_opts => db.revision = num(head))
      /\ ~ disable_replay_opts => DOMAIN db.undo = {}
  BY <1>1, BlocksAssumption DEF ControllerInv, PhaseInv
<1>7. PICK b : b = chain[d][num(head) + 1]
  OBVIOUS
<1>8. Replay(b, disable_replay_opts)
  BY <1>1, <1>5, <1>7
<1>9. /\ status' = status /\ stops' = stops /\ pending' = pending
      /\ head' = b /\ num(b) = num(head) + 1 /\ On(b, d)
      /\ \E m \in 1..num(b) : NodeInv(fork_db', b, m) /\ m <= Len(blog') + 1
      /\ fork_db'.head = b /\ IsFirst(b, fork_db'.index, fork_db'.older)
      /\ \A c \in fork_db'.index : On(c, b)
      /\ Files(blog', reversible', d) /\ Undamaged(blog', reversible', d)
      /\ blog' = blog \/ (Len(blog') <= Lib[head] /\ \E x \in Blocks : blog' = Append(blog, x))
      /\ Len(blog) <= Len(blog') /\ Len(blog') \in Nat
      /\ IsDb(db') /\ db'.state = b
      /\ disable_replay_opts => db'.revision = num(b)
      /\ ~ disable_replay_opts => DOMAIN db'.undo \subseteq DOMAIN db.undo
  BY <1>1, <1>2, <1>5, <1>6, <1>7, <1>8, ReplayStep
<1>10. FilesInv' /\ status' \in Statuses /\ stops' \in [crash : Nat, close : Nat]
  BY <1>1, <1>2, <1>9 DEF ControllerInv, FilesInv, Statuses
<1>11. PhaseInv'
  <2>1. num(b) <= Len(blog')
    BY <1>1, <1>3, <1>4, <1>9
  <2>2. ~ disable_replay_opts => DOMAIN db'.undo = {}
    BY <1>6, <1>9
  <2> QED BY <1>1, <1>9, <2>1, <2>2 DEF PhaseInv
<1>12. HeadInv' /\ PendingInv' /\ EndInv'
  BY <1>1, <1>9 DEF ControllerInv, HeadInv, PendingInv, EndInv
<1>13. ControllerInv'
  BY <1>9, <1>10, <1>11, <1>12 DEF ControllerInv
<1> QED BY <1>1, <1>9, <1>13 DEF StepInv

LEMMA ReplayReversibleStep ==
    ASSUME Environment, ControllerInv, replay_reversible
    PROVE  ControllerInv' /\ StepInv
<1>1. /\ status = "replay_reversible" /\ num(head) + 1 \in DOMAIN reversible
      /\ Replay(reversible[num(head) + 1], TRUE)
  BY DEF replay_reversible
<1>2. PICK d \in Blocks : /\ ValidChain(d) /\ On(head, d) /\ Files(blog, reversible, d)
                          /\ Undamaged(blog, reversible, d)
  BY DEF ControllerInv, FilesInv
<1>3. head \in Blocks /\ num(head) \in Nat
  <2>1. PICK n \in 1..num(head) : NodeInv(fork_db, head, n)
    BY DEF ControllerInv
  <2>2. n \in Nat \ {0}
    OBVIOUS
  <2> QED BY <2>1, <2>2, NodeFacts
<1>4. /\ num(head) + 1 <= num(d) /\ reversible[num(head) + 1] = chain[d][num(head) + 1]
      /\ Len(blog) \in Nat
  <2>1. /\ DOMAIN reversible \subseteq 1..num(d) /\ num(d) \in Nat
        /\ \A k \in DOMAIN reversible : reversible[k] = chain[d][k]
    BY <1>2, BlockFacts DEF Files
  <2>2. num(head) + 1 \in 1..num(d)
    BY <1>1, <2>1
  <2> QED BY <1>1, <1>2, <2>1, <2>2 DEF Files
<1>5. Sessions(db, blog, head) /\ Len(blog) <= num(head) /\ db.revision = num(head)
  BY <1>1, <1>3, <1>4 DEF ControllerInv, PhaseInv, Sessions
<1>6. PICK b : b = chain[d][num(head) + 1]
  OBVIOUS
<1>7. Replay(b, TRUE) /\ TRUE \in BOOLEAN
  BY <1>1, <1>4, <1>6
<1>8. /\ status' = status /\ stops' = stops /\ pending' = pending
      /\ head' = b /\ num(b) = num(head) + 1 /\ On(b, d)
      /\ \E m \in 1..num(b) : NodeInv(fork_db', b, m) /\ m <= Len(blog') + 1
      /\ fork_db'.head = b /\ IsFirst(b, fork_db'.index, fork_db'.older)
      /\ \A c \in fork_db'.index : On(c, b)
      /\ Files(blog', reversible', d) /\ Undamaged(blog', reversible', d)
      /\ blog' = blog \/ (Len(blog') <= Lib[head] /\ \E x \in Blocks : blog' = Append(blog, x))
      /\ Len(blog') \in Nat /\ Len(blog') <= num(head)
      /\ IsDb(db') /\ Sessions(db', blog', b)
  BY <1>1, <1>2, <1>4, <1>5, <1>6, <1>7, ReplayStep
<1>9. FilesInv' /\ status' \in Statuses /\ stops' \in [crash : Nat, close : Nat]
  BY <1>1, <1>2, <1>8 DEF ControllerInv, FilesInv, Statuses
<1>10. PhaseInv'
  <2>1. num(b) >= Len(blog')
    BY <1>3, <1>8
  <2> QED BY <1>1, <1>8, <2>1 DEF PhaseInv
<1>11. HeadInv' /\ PendingInv' /\ EndInv'
  BY <1>1, <1>8 DEF ControllerInv, HeadInv, PendingInv, EndInv
<1>12. ControllerInv'
  BY <1>8, <1>9, <1>10, <1>11 DEF ControllerInv
<1> QED BY <1>1, <1>8, <1>12 DEF StepInv

LEMMA SetRevisionStep ==
    ASSUME ControllerInv, set_revision
    PROVE  ControllerInv' /\ StepInv
<1>1. /\ status = "replay_irreversible" /\ num(head) = Len(blog)
      /\ status' = IF DOMAIN db.undo = {} THEN "replay_reversible" ELSE "failed"
      /\ db' = IF DOMAIN db.undo = {} THEN [db EXCEPT !.revision = num(head)] ELSE db
      /\ UNCHANGED <<fork_db, head, blog, reversible, pending, stops>>
  BY DEF set_revision
<1>2. PICK n \in 1..num(head) : NodeInv(fork_db, head, n) /\ n <= Len(blog) + 1
  BY DEF ControllerInv
<1>3. head \in Blocks /\ num(head) \in Nat
  <2>1. n \in Nat \ {0}
    OBVIOUS
  <2> QED BY <1>2, <2>1, NodeFacts
<1>4. /\ IsDb(db) /\ db.state = head /\ \A c \in fork_db.index : On(c, head)
      /\ DOMAIN db.undo # {} => disable_replay_opts
  BY <1>1 DEF ControllerInv, PhaseInv
<1>5. /\ IsDb(db') /\ db'.state = head
      /\ DOMAIN db.undo = {} => DOMAIN db'.undo = {} /\ db'.revision = num(head)
  BY <1>1, <1>3, <1>4 DEF IsDb
<1>6. status' = "replay_reversible" => Sessions(db', blog', head')
  <2> SUFFICES ASSUME DOMAIN db.undo = {} PROVE Sessions(db', blog', head')
    BY <1>1
  <2>1. (Len(blog) + 1)..num(head) = {}
    BY <1>1, <1>3
  <2> QED BY <1>1, <1>5, <2>1 DEF Sessions
<1>7. PhaseInv' /\ EndInv' /\ status' \in Statuses
  <2>1. num(head) >= Len(blog)
    BY <1>1, <1>3
  <2> QED BY <1>1, <1>4, <1>6, <2>1 DEF PhaseInv, EndInv, Statuses
<1>8. FilesInv' /\ HeadInv' /\ PendingInv'
  BY <1>1 DEF ControllerInv, FilesInv, HeadInv, PendingInv
<1>9. ControllerInv'
  BY <1>1, <1>2, <1>5, <1>7, <1>8 DEF ControllerInv
<1> QED BY <1>1, <1>9 DEF StepInv

LEMMA FinishInitStep ==
    ASSUME ControllerInv, finish_init
    PROVE  ControllerInv' /\ StepInv
<1>1. /\ \/ status = "finish"
         \/ status = "replay_reversible" /\ num(head) + 1 \notin DOMAIN reversible
      /\ status' = IF Consistent(head, db, reversible) THEN "up" ELSE "failed"
      /\ UNCHANGED <<fork_db, head, db, blog, reversible, pending, stops>>
  BY DEF finish_init
<1>2. PICK n \in 1..num(head) : NodeInv(fork_db, head, n) /\ n <= Len(blog) + 1
  BY DEF ControllerInv
<1>3. head \in Blocks /\ num(head) \in Nat /\ 1 <= num(head)
  <2>1. n \in Nat \ {0}
    OBVIOUS
  <2> QED BY <1>2, <2>1, NodeFacts
<1>4. PICK d \in Blocks : /\ ValidChain(d) /\ On(head, d) /\ Files(blog, reversible, d)
                          /\ Undamaged(blog, reversible, d)
  BY DEF ControllerInv, FilesInv
<1>5. /\ num(d) \in Nat /\ Len(blog) \in Nat /\ 1 <= Len(blog) /\ Len(blog) <= num(d)
      /\ num(head) <= num(d) /\ chain[d][num(head)] = head /\ chain[d][num(d)] = d
      /\ DOMAIN reversible \subseteq 1..num(d)
      /\ (Len(blog) + 1)..num(d) \subseteq DOMAIN reversible
  BY <1>4, BlockFacts DEF Files, On
<1>6. Sessions(db, blog, head) /\ Len(blog) <= num(head)
  <2>1. CASE status = "finish"
    <3>1. head = Genesis /\ db = GenesisDb /\ Len(blog) = 1
      BY <2>1 DEF ControllerInv, PhaseInv, Started
    <3>2. num(head) = 1 /\ (Len(blog) + 1)..num(head) = {}
      BY <3>1, GenesisFacts
    <3> QED BY <3>1, <3>2, GenesisNode DEF Sessions
  <2>2. CASE status = "replay_reversible"
    BY <1>3, <1>5, <2>2 DEF ControllerInv, PhaseInv
  <2> QED BY <1>1, <2>1, <2>2
<1>7. num(d) \in (Len(blog) + 1)..num(d) \/ num(d) = Len(blog)
  BY <1>5
<1>8. status' = "up" => d = head
  <2> SUFFICES ASSUME Consistent(head, db, reversible) PROVE d = head
    BY <1>1
  <2>1. num(d) = num(head)
    BY <1>3, <1>5, <1>6, <1>7 DEF Consistent
  <2> QED BY <2>1, <1>5
<1>9. status' = "failed" => Damage \/ Len(blog) = 1
  <2> SUFFICES ASSUME ~ Damage, status = "replay_reversible",
                      num(head) + 1 \notin DOMAIN reversible
               PROVE  Consistent(head, db, reversible)
    <3>1. status = "finish" => Len(blog) = 1
      BY DEF ControllerInv, PhaseInv
    <3> QED BY <1>1, <3>1
  <2>1. num(d) = num(head) /\ d = head
    <3>1. ~ (num(head) + 1 <= num(d))
      <4> SUFFICES ASSUME num(head) + 1 <= num(d) PROVE FALSE
        OBVIOUS
      <4>1. num(head) + 1 \in (Len(blog) + 1)..num(d)
        BY <1>3, <1>5, <1>6
      <4> QED BY <1>5, <4>1
    <3> QED BY <1>3, <1>5, <3>1
  <2>2. DOMAIN reversible = {} \/ num(d) \in DOMAIN reversible
    BY <1>4 DEF Undamaged
  <2>3. db.revision >= num(head)
    BY <1>3, <1>6 DEF Sessions
  <2>4. \A k \in DOMAIN reversible : k <= num(head)
    BY <1>5, <2>1
  <2>5. DOMAIN reversible = {} => Len(blog) = num(head)
    BY <1>5, <1>7, <2>1
  <2> QED BY <2>1, <2>2, <2>3, <2>4, <2>5 DEF Consistent
<1>10. FilesInv'
  BY <1>1, <1>4, <1>8 DEF FilesInv
<1>11. status' \in {"up", "failed"} /\ status' \in Statuses
  BY <1>1 DEF Statuses
<1>12. PhaseInv'
  BY <1>1, <1>6, <1>11 DEF PhaseInv
<1>13. HeadInv' /\ PendingInv'
  BY <1>1, <1>11 DEF ControllerInv, HeadInv, PendingInv
<1>14. EndInv'
  BY <1>1, <1>9, <1>11 DEF EndInv
<1>15. ControllerInv'
  BY <1>1, <1>2, <1>10, <1>11, <1>12, <1>13, <1>14 DEF ControllerInv
<1> QED BY <1>1, <1>15 DEF StepInv

LEMMA InitInv ==
    ASSUME Init
    PROVE  ControllerInv
<1>1. /\ status = "up" /\ fork_db = GenesisForkDb /\ head = Genesis /\ db = GenesisDb
      /\ blog = <<Genesis>> /\ DOMAIN reversible = {} /\ pending = <<>>
      /\ stops = [crash |-> 0, close |-> 0]
  BY DEF Init
<1>2. /\ Genesis \in Blocks /\ num(Genesis) = 1 /\ On(Genesis, Genesis)
      /\ chain[Genesis][1] = Genesis /\ ValidChain(Genesis)
  BY GenesisFacts, BlockFacts, OnSelf, GenesisNode DEF NodeInv, ChainInv
<1>3. /\ Len(blog) = 1 /\ blog \in Seq(Blocks) /\ blog[1] = Genesis
  BY <1>1, <1>2
<1>4. Files(blog, reversible, Genesis)
  BY <1>1, <1>2, <1>3 DEF Files
<1>5. Undamaged(blog, reversible, Genesis)
  BY <1>1, <1>3 DEF Undamaged
<1>6. FilesInv
  BY <1>1, <1>2, <1>4, <1>5 DEF FilesInv
<1>7. Sessions(db, blog, head)
  <2>1. (Len(blog) + 1)..num(head) = {}
    BY <1>1, <1>2, <1>3
  <2> QED BY <1>1, <1>2, <2>1, GenesisNode DEF Sessions
<1>8. PhaseInv /\ HeadInv /\ PendingInv /\ EndInv /\ status \in Statuses
  BY <1>1, <1>7, GenesisNode DEF PhaseInv, HeadInv, PendingInv, EndInv, Statuses
<1>9. stops \in [crash : Nat, close : Nat]
  BY <1>1
<1>10. NodeInv(fork_db, head, 1) /\ 1 \in 1..num(head) /\ 1 <= Len(blog) + 1 /\ IsDb(db)
  BY <1>1, <1>2, <1>3, GenesisNode
<1> QED BY <1>6, <1>8, <1>9, <1>10 DEF ControllerInv

LEMMA NextInv ==
    ASSUME Environment, ControllerInv, [Next]_vars
    PROVE  ControllerInv' /\ (StepInv \/ UNCHANGED vars)
<1>1. CASE UNCHANGED vars
  BY <1>1 DEF vars, ControllerInv, FilesInv, PhaseInv, Started, HeadInv, PendingInv, EndInv
<1>2. CASE PushBlock
  BY <1>2, IncomingBlock DEF PushBlock
<1>3. CASE StartBlock
  BY <1>3, StartBlockStep DEF StartBlock
<1>4. CASE abort_block
  BY <1>4, AbortBlockStep
<1>5. CASE commit_block
  BY <1>5, CommitBlockStep
<1>6. CASE close
  BY <1>6, CloseStep
<1>7. CASE crash
  BY <1>7, CrashStep
<1>8. CASE CrashInOnIrreversible
  BY <1>8, CrashInOnIrreversibleStep DEF CrashInOnIrreversible
<1>9. CASE startup
  BY <1>9, StartupStep
<1>10. CASE start_replay
  BY <1>10, StartReplayStep
<1>11. CASE replay_irreversible
  BY <1>11, ReplayIrreversibleStep
<1>12. CASE set_revision
  BY <1>12, SetRevisionStep
<1>13. CASE replay_reversible
  BY <1>13, ReplayReversibleStep
<1>14. CASE finish_init
  BY <1>14, FinishInitStep
<1> QED BY <1>1, <1>2, <1>3, <1>4, <1>5, <1>6, <1>7, <1>8, <1>9, <1>10, <1>11, <1>12, <1>13,
           <1>14 DEF Next, Recover

-----------------------------------------------------------------------------
(***************************************************************************)
(* The theorems.                                                           *)
(***************************************************************************)

(***************************************************************************)
(* The inductive invariant: whatever blocks arrive, whatever fails, and    *)
(* wherever the node stops, the fork database, the head, the undo sessions *)
(* and the two files agree on one valid chain.                             *)
(***************************************************************************)
THEOREM ControllerInductive == Environment /\ Spec => []ControllerInv
<1> SUFFICES ASSUME Environment PROVE Spec => []ControllerInv
  OBVIOUS
<1>1. Init => ControllerInv
  BY InitInv
<1>2. ControllerInv /\ [Next]_vars => ControllerInv'
  BY NextInv
<1> QED BY <1>1, <1>2, PTL DEF Spec

LEMMA InvTypeOK == ASSUME ControllerInv PROVE TypeOK
<1>1. PICK n \in 1..num(head) : NodeInv(fork_db, head, n)
  BY DEF ControllerInv
<1>2. PICK d \in Blocks : Files(blog, reversible, d)
  BY DEF ControllerInv, FilesInv
<1>3. n \in Nat \ {0}
  OBVIOUS
<1>4. /\ head \in Blocks /\ head \in fork_db.index /\ fork_db.index \in SUBSET Blocks
  BY <1>1, <1>3, NodeFacts
<1>5. /\ fork_db.head \in fork_db.index /\ fork_db.in_current_chain \subseteq fork_db.index
      /\ fork_db.older \subseteq fork_db.index \X fork_db.index
      /\ fork_db.validated \subseteq fork_db.index
  BY <1>1 DEF NodeInv, ForkInv, ForkShape, BestIn, Ordered
<1>6. ASSUME NEW k \in DOMAIN reversible PROVE num(reversible[k]) = k
  <2>1. k \in 1..num(d) /\ reversible[k] = chain[d][k]
    BY <1>2 DEF Files
  <2> QED BY <2>1, Below
<1>7. blog \in Seq(Blocks)
  BY <1>2 DEF Files
<1>8. /\ db.state \in Blocks /\ db.revision \in Nat
      /\ \A r \in DOMAIN db.undo : db.undo[r] \in Blocks
  BY DEF ControllerInv, IsDb
<1>9. pending = <<>> \/ \E b \in LocalBlocks : pending = <<b>>
  BY DEF ControllerInv, PendingInv
<1>10. status \in Statuses
  BY DEF ControllerInv
<1> QED BY <1>4, <1>5, <1>6, <1>7, <1>8, <1>9, <1>10 DEF TypeOK, Statuses

(***************************************************************************)
(* TypeOK: the shape of the state.                                         *)
(***************************************************************************)
THEOREM TypeCorrect == Environment /\ Spec => []TypeOK
<1>1. ControllerInv => TypeOK
  BY InvTypeOK
<1> QED BY <1>1, ControllerInductive, PTL

(***************************************************************************)
(* HeadIsBest: maybe_switch_forks leaves the node on a chain that no block *)
(* of the fork database beats, after switches that failed and restarts     *)
(* too.                                                                    *)
(***************************************************************************)
THEOREM AlwaysOnBest == Environment /\ Spec => []HeadIsBest
<1>1. ControllerInv => HeadIsBest
  BY DEF ControllerInv, NodeInv, ChainInv, BestIn, HeadIsBest
<1> QED BY <1>1, ControllerInductive, PTL

(***************************************************************************)
(* StateMatchesHead: the chain state is head's and so is the revision      *)
(* (apply_block, pop_block, init).                                         *)
(***************************************************************************)
THEOREM StateIsHeads == Environment /\ Spec => []StateMatchesHead
<1>1. ControllerInv => StateMatchesHead
  BY DEF ControllerInv, PhaseInv, Sessions, StateMatchesHead, Up
<1> QED BY <1>1, ControllerInductive, PTL

LEMMA InvFetch == ASSUME ControllerInv PROVE FetchByNumber
<1> SUFFICES ASSUME status = "up" PROVE FetchByNumber
  BY DEF FetchByNumber, Up
<1>1. PICK n \in Nat \ {0} : NodeInv(fork_db, head, n) /\ n <= Len(blog) + 1
  BY UpIs
<1>2. Files(blog, reversible, head) /\ head \in Blocks
  BY UpIs
<1>3. /\ num(head) \in Nat /\ Len(blog) \in Nat /\ Len(blog) <= num(head) /\ 1 <= Len(blog)
      /\ \A k \in 1..Len(blog) : blog[k] = chain[head][k]
  BY <1>2, BlockFacts DEF Files
<1>4. /\ \A c \in fork_db.in_current_chain : On(c, head) /\ c \in fork_db.index
      /\ \A k \in n..num(head) : k > 1 => chain[head][k] \in fork_db.in_current_chain
      /\ \A c \in fork_db.index : n <= num(c)
  BY <1>1 DEF NodeInv, ForkInv, ForkShape, ChainInv, Rooted
<1>5. ASSUME NEW k \in 1..num(head) PROVE fetch_block_by_number(k) = {chain[head][k]}
  <2> DEFINE x == chain[head][k]
             flagged == get_block_in_current_chain_by_num(fork_db, k)
  <2>1. num(x) = k
    BY <1>2, Below
  <2>2. \A c \in fork_db.in_current_chain : num(c) = k => c = x
    BY <1>4 DEF On
  <2>3. flagged \subseteq {x}
    BY <2>2 DEF get_block_in_current_chain_by_num
  <2>4. CASE x \in fork_db.in_current_chain
    <3>1. \A c \in fork_db.index \ {x} : num(c) = k => Before(x, c, fork_db)
      BY <2>1, <2>2, <2>4 DEF Before
    <3>2. x \in flagged
      BY <2>1, <2>4, <3>1 DEF get_block_in_current_chain_by_num
    <3>3. flagged = {x}
      BY <2>3, <3>2
    <3> QED BY <3>3 DEF fetch_block_by_number
  <2>5. CASE x \notin fork_db.in_current_chain
    <3>1. flagged = {}
      BY <2>2, <2>5 DEF get_block_in_current_chain_by_num
    <3>2. k \in 1..Len(blog)
      BY <1>1, <1>3, <1>4, <2>5
    <3>3. blog[k] = x /\ k <= Len(blog)
      BY <1>3, <3>2
    <3> QED BY <3>1, <3>3 DEF fetch_block_by_number
  <2> QED BY <2>4, <2>5
<1> QED BY <1>4, <1>5 DEF FetchByNumber

(***************************************************************************)
(* FetchByNumber: fetch_block_by_number returns head's chain, in the fork  *)
(* database or in the log, and nothing else.                               *)
(***************************************************************************)
THEOREM FetchesHeadsChain == Environment /\ Spec => []FetchByNumber
<1>1. ControllerInv => FetchByNumber
  BY InvFetch
<1> QED BY <1>1, ControllerInductive, PTL

LEMMA InvDurable == ASSUME ControllerInv PROVE DurableChain
<1>1. PICK d \in Blocks : /\ Files(blog, reversible, d)
                          /\ status \in {"up", "closed"} => d = head
  BY DEF ControllerInv, FilesInv
<1>2. /\ num(d) \in Nat /\ Len(blog) \in Nat /\ 1 <= Len(blog) /\ Len(blog) <= num(d)
      /\ chain[d][num(d)] = d /\ \A k \in 1..Len(blog) : blog[k] = chain[d][k]
      /\ DOMAIN reversible \subseteq 1..num(d)
      /\ (Len(blog) + 1)..num(d) \subseteq DOMAIN reversible
      /\ \A k \in DOMAIN reversible : reversible[k] = chain[d][k]
  BY <1>1, BlockFacts DEF Files
<1> DEFINE tops == {k \in DOMAIN reversible : \A i \in DOMAIN reversible : i <= k}
<1>3. Durable = d
  <2>1. CASE Len(blog) < num(d)
    <3>1. num(d) \in DOMAIN reversible
      BY <1>2, <2>1
    <3>2. num(d) \in tops /\ num(d) > Len(blog)
      BY <1>2, <2>1, <3>1
    <3>3. \A k \in tops : k = num(d)
      <4> SUFFICES ASSUME NEW k \in tops PROVE k = num(d)
        OBVIOUS
      <4>1. k \in 1..num(d) /\ num(d) <= k
        BY <1>2, <3>1
      <4> QED BY <1>2, <4>1
    <3> HIDE DEF tops
    <3>4. (CHOOSE k \in tops : TRUE) = num(d)
      BY <3>2, <3>3
    <3>5. reversible[num(d)] = d /\ \E k \in tops : k > Len(blog)
      BY <1>2, <3>1, <3>2
    <3> QED BY <3>4, <3>5 DEF Durable, tops
  <2>2. CASE ~ (Len(blog) < num(d))
    <3>1. Len(blog) = num(d) /\ Len(blog) \in 1..Len(blog)
      BY <1>2, <2>2
    <3>2. blog[Len(blog)] = d
      BY <1>2, <3>1
    <3>3. ~ \E k \in tops : k > Len(blog)
      BY <1>2, <3>1
    <3> QED BY <3>2, <3>3 DEF Durable
  <2> QED BY <2>1, <2>2
<1>4. \A k \in 1..Len(blog) : k <= num(d)
  BY <1>2
<1> HIDE DEF tops
<1> QED BY <1>1, <1>2, <1>3, <1>4 DEF DurableChain, Up

(***************************************************************************)
(* DurableChain: in every state the log and the reversible blocks are one  *)
(* chain without gap, head's while the node is up, so that a crash         *)
(* anywhere, in on_irreversible and in a replay too, can be recovered.     *)
(***************************************************************************)
THEOREM FilesAreOneChain == Environment /\ Spec => []DurableChain
<1>1. ControllerInv => DurableChain
  BY InvDurable
<1> QED BY <1>1, ControllerInductive, PTL

LEMMA InvRevert == ASSUME ControllerInv PROVE CanRevertToLib
<1> SUFFICES ASSUME status = "up", NEW k \in 2..num(head), k > Lib[head], k > Len(blog)
             PROVE  /\ k \in DOMAIN db.undo /\ db.undo[k] = chain[head][k - 1]
                    /\ chain[head][k - 1] \in fork_db.index
  BY DEF CanRevertToLib, Up
<1>1. PICK n \in Nat \ {0} : NodeInv(fork_db, head, n) /\ n <= Len(blog) + 1
  BY UpIs
<1>2. /\ n \in 1..num(head) /\ (n = 1 \/ n <= Lib[head]) /\ head \in fork_db.index
      /\ num(head) \in Nat /\ Lib[head] \in Nat
  BY <1>1, NodeFacts
<1>3. Sessions(db, blog, head) /\ Files(blog, reversible, head)
  BY UpIs
<1>4. k \in DOMAIN db.undo /\ db.undo[k] = chain[head][k - 1]
  <2>1. Len(blog) \in Nat
    BY <1>3 DEF Files
  <2>2. k \in (Len(blog) + 1)..num(head)
    BY <1>2, <2>1
  <2> QED BY <1>3, <2>2 DEF Sessions
<1>5. k - 1 \in n..num(head)
  BY <1>2
<1>6. chain[head][k - 1] \in fork_db.index
  BY <1>1, <1>2, <1>5 DEF NodeInv, ForkInv, ForkShape, Rooted
<1> QED BY <1>4, <1>6

(***************************************************************************)
(* CanRevertToLib: every block above the irreversible one can be popped    *)
(* (pop_block).                                                            *)
(***************************************************************************)
THEOREM AlwaysRevertible == Environment /\ Spec => []CanRevertToLib
<1>1. ControllerInv => CanRevertToLib
  BY InvRevert
<1> QED BY <1>1, ControllerInductive, PTL

LEMMA InvValid == ASSUME ControllerInv PROVE InvalidNeverKept
<1> SUFFICES ASSUME status = "up" PROVE InvalidNeverKept
  BY DEF InvalidNeverKept, Up
<1>1. PICK n \in Nat \ {0} : NodeInv(fork_db, head, n)
  BY UpIs
<1>2. ValidChain(head) /\ fork_db.validated \cap Invalid = {}
  BY <1>1 DEF NodeInv, ForkInv, ForkShape, ChainInv
<1>3. \A k \in DOMAIN reversible : k \in 1..num(head) /\ reversible[k] = chain[head][k]
  BY UpIs DEF Files
<1> QED BY <1>2, <1>3 DEF InvalidNeverKept, ValidChain

(***************************************************************************)
(* InvalidNeverKept: a block that fails validation, alone or in the middle *)
(* of a switch, leaves no trace on the chain or in the files.              *)
(***************************************************************************)
THEOREM InvalidLeavesNoTrace == Environment /\ Spec => []InvalidNeverKept
<1>1. ControllerInv => InvalidNeverKept
  BY InvValid
<1> QED BY <1>1, ControllerInductive, PTL

(***************************************************************************)
(* NeverBroken: if forks overtake in time and a crash damages nothing, no  *)
(* assert on the way of a block fires: pop_block finds the parent and the  *)
(* session, every irreversible block links to the log.                     *)
(***************************************************************************)
THEOREM NoAssertFires ==
    Environment /\ SwitchesInTime /\ ~ Damage /\ Spec => []NeverBroken
<1> SUFFICES ASSUME Environment, SwitchesInTime, ~ Damage PROVE Spec => []NeverBroken
  OBVIOUS
<1>1. ControllerInv => NeverBroken
  BY DEF ControllerInv, EndInv, NeverBroken
<1> QED BY <1>1, ControllerInductive, PTL

(***************************************************************************)
(* RestartSucceeds: with the default replay options, what a crash at any   *)
(* point or a shutdown leaves passes every check of init, once the log     *)
(* holds more than genesis.                                                *)
(***************************************************************************)
THEOREM InitNeverThrows ==
    Environment /\ ~ Damage /\ ~ disable_replay_opts /\ Spec => []RestartSucceeds
<1> SUFFICES ASSUME Environment, ~ Damage, ~ disable_replay_opts PROVE Spec => []RestartSucceeds
  OBVIOUS
<1>1. ControllerInv => RestartSucceeds
  BY DEF ControllerInv, EndInv, RestartSucceeds
<1> QED BY <1>1, ControllerInductive, PTL

LEMMA StepKeeps ==
    ASSUME ControllerInv, TypeOK', StepInv \/ UNCHANGED vars
    PROVE  /\ status \in {"up", "closed"} /\ status' \in {"up", "closed"} => KeepsIrreversible
           /\ Len(blog) <= Len(blog') /\ SubSeq(blog', 1, Len(blog)) = blog
           /\ Up /\ blog' # blog /\ status' \in {"up", "closed"} => Len(blog') <= Lib[head']
<1>1. head \in Blocks /\ blog \in Seq(Blocks) /\ Len(blog) \in Nat
  BY InvTypeOK DEF TypeOK
<1>2. head' \in Blocks
  BY DEF TypeOK
<1>3. /\ Lib[head] \in Nat /\ Lib[head'] \in Nat /\ Lib[head'] < num(head') /\ num(head') \in Nat
  BY <1>1, <1>2, BlockFacts
<1>4. status \in {"up", "closed"} /\ status' \in {"up", "closed"} => Lib[head] <= Lib[head']
  BY <1>3 DEF StepInv, vars
<1>5. ASSUME status \in {"up", "closed"}, status' \in {"up", "closed"} PROVE KeepsIrreversible
  <2> SUFFICES ASSUME NEW k \in 1..Lib[head]
               PROVE  k <= num(head') /\ chain[head'][k] = chain[head][k]
    BY DEF KeepsIrreversible
  <2>1. k \in 1..Lower(Lib[head'], Lib[head]) /\ k <= num(head')
    BY <1>3, <1>4, <1>5 DEF Lower
  <2> QED BY <1>1, <1>2, <2>1, LibAgreement
<1>6. blog' = blog \/ (Len(blog') <= Lib[head] /\ \E x \in Blocks : blog' = Append(blog, x))
  BY DEF StepInv, vars
<1>7. Len(blog) <= Len(blog') /\ SubSeq(blog', 1, Len(blog)) = blog
  <2>1. CASE blog' = blog
    BY <1>1, <2>1
  <2>2. CASE blog' # blog
    <3>1. PICK x \in Blocks : blog' = Append(blog, x)
      BY <1>6, <2>2
    <3> QED BY <1>1, <3>1
  <2> QED BY <2>1, <2>2
<1>8. ASSUME Up, blog' # blog, status' \in {"up", "closed"} PROVE Len(blog') <= Lib[head']
  <2>1. Len(blog') <= Lib[head] /\ Lib[head] <= Lib[head']
    BY <1>4, <1>6, <1>8 DEF Up
  <2>2. Len(blog') \in Nat
    BY DEF TypeOK
  <2> QED BY <1>3, <2>1, <2>2
<1> QED BY <1>5, <1>7, <1>8

(***************************************************************************)
(* IrreversibleStays: no fork and no clean restart reverts a block that    *)
(* was irreversible on this node's chain, and the log is only appended to, *)
(* by a crash in on_irreversible too.                                      *)
(***************************************************************************)
THEOREM IrreversibleNeverReverted == Environment /\ Spec => IrreversibleStays
<1> SUFFICES ASSUME Environment PROVE Spec => IrreversibleStays
  OBVIOUS
<1>1. ControllerInv /\ TypeOK' /\ [Next]_vars =>
        [/\ status \in {"up", "closed"} /\ status' \in {"up", "closed"} => KeepsIrreversible
         /\ Len(blog) <= Len(blog') /\ SubSeq(blog', 1, Len(blog)) = blog]_vars
  BY NextInv, StepKeeps
<1> QED BY <1>1, ControllerInductive, TypeCorrect, PTL DEF Spec, IrreversibleStays

(***************************************************************************)
(* LogsOnlyIrreversible: on_irreversible writes to the log only what is    *)
(* irreversible on the chain the call leaves the node on, although add     *)
(* prunes by the header of a block that may still be rejected.             *)
(***************************************************************************)
THEOREM LogIsIrreversible == Environment /\ Spec => LogsOnlyIrreversible
<1> SUFFICES ASSUME Environment PROVE Spec => LogsOnlyIrreversible
  OBVIOUS
<1>1. ControllerInv /\ TypeOK' /\ [Next]_vars =>
        [Up /\ blog' # blog /\ status' \in {"up", "closed"} => Len(blog') <= Lib[head']]_vars
  BY NextInv, StepKeeps
<1> QED BY <1>1, ControllerInductive, TypeCorrect, PTL DEF Spec, LogsOnlyIrreversible

=============================================================================
