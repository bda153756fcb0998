------------------------ MODULE TransactionPoolProofs ------------------------
(***************************************************************************)
(* Proofs about TransactionPool, for any transactions, requests, forks and *)
(* chains: nothing is applied twice, nothing is lost by forks and aborts,  *)
(* and every request has at most one response.                             *)
(*                                                                         *)
(* record_transaction refuses a transaction only if its object is still in *)
(* the chain state, and objects are removed when transactions expire.  The *)
(* argument is therefore about two checks together: a transaction whose    *)
(* object is gone is expired and refused for that (Fresh).  The rest is    *)
(* about where the pieces of two chains go when the node switches: the     *)
(* blocks they share are disjoint from everything that becomes unapplied.  *)
(***************************************************************************)
EXTENDS TransactionPool, FiniteSetTheorems, WellFoundedInduction, TLAPS

Blocks == [trxs : SUBSET Trx, retired : SUBSET Deferred, time : Nat,
           own : BOOLEAN, bad : BOOLEAN]

\* No two blocks of the chain share a transaction or retire the same one.
Disjoint(c) ==
    \A i, j \in 1..Len(c) :
        i # j => c[i].trxs \cap c[j].trxs = {} /\ c[i].retired \cap c[j].retired = {}

\* Block b repeats nothing of chain c.
Fresh(c, b) == /\ b.trxs \cap TrxsIn(Range(c)) = {}
               /\ b.retired \cap RetiredIn(Range(c)) = {}

Looping == {"persistent", "unapplied", "scheduled", "last"}

\* The chains: every block in the fork database extends a disjoint chain.
ChainsInv ==
    /\ head \in known
    /\ \A c \in known : c \in Seq(Blocks) /\ Disjoint(c)

\* A pending block p on chain c, if there is one.
PendingOn(c, p) == p = <<>> \/ (p = <<p[1]>> /\ p[1] \in Blocks /\ Fresh(c, p[1]))

\* What is unapplied is neither in chain c nor in the pending block p.
UnappliedOn(c, p, u) == u \subseteq Trx /\ u \cap TrxsIn(Range(c) \cup Range(p)) = {}

PendingInv == PendingOn(head, pending) /\ (phase \in Looping => pending # <<>>)

LoopInv ==
    /\ phase \in Looping \cup {"idle", "loop"}
    /\ phase \in {"persistent", "unapplied"} => todo \subseteq Trx
    /\ phase = "scheduled" => todo \subseteq Deferred \ RetiredIn(Range(head))

UnappliedInv == UnappliedOn(head, pending, unapplied)

\* A request is queued at most once, and then not answered.
RequestsInv ==
    /\ incoming \in Seq(Requests) /\ answered \in [Requests -> {0, 1}]
    /\ \A i, j \in 1..Len(incoming) : incoming[i] = incoming[j] => i = j
    /\ \A i \in 1..Len(incoming) : answered[incoming[i]] = 0

PoolInv == /\ now \in Nat
           /\ ChainsInv /\ PendingInv /\ LoopInv /\ UnappliedInv /\ RequestsInv

-----------------------------------------------------------------------------
(***************************************************************************)
(* What chains contain.                                                    *)
(***************************************************************************)

LEMMA InBlocks ==
    ASSUME NEW bs, NEW t
    PROVE  /\ t \in TrxsIn(bs) <=> \E b \in bs : t \in b.trxs
           /\ t \in RetiredIn(bs) <=> \E b \in bs : t \in b.retired
           /\ t \in Recaptured(bs) <=> \E b \in bs : b.own /\ t \in b.trxs
  BY DEF TrxsIn, RetiredIn, Recaptured

\* A transaction in a chain is in the block at some position of it.
LEMMA InChainAt ==
    ASSUME NEW c \in Seq(Blocks), NEW t
    PROVE  /\ t \in TrxsIn(Range(c)) <=> \E i \in 1..Len(c) : t \in c[i].trxs
           /\ t \in RetiredIn(Range(c)) <=> \E i \in 1..Len(c) : t \in c[i].retired
<1>1. DOMAIN c = 1..Len(c)
  OBVIOUS
<1>2. \A b : b \in Range(c) <=> \E i \in 1..Len(c) : b = c[i]
  BY <1>1 DEF Range
<1>3. /\ t \in TrxsIn(Range(c)) <=> \E b \in Range(c) : t \in b.trxs
      /\ t \in RetiredIn(Range(c)) <=> \E b \in Range(c) : t \in b.retired
  BY InBlocks
<1> QED BY <1>2, <1>3

\* The same for a part of a chain.
LEMMA InSlice ==
    ASSUME NEW c, NEW m, NEW n, NEW t
    PROVE  /\ t \in TrxsIn({c[i] : i \in m..n}) <=> \E i \in m..n : t \in c[i].trxs
           /\ t \in Recaptured({c[i] : i \in m..n}) <=>
                 \E i \in m..n : c[i].own /\ t \in c[i].trxs
  BY DEF TrxsIn, Recaptured

LEMMA InPool ==
    ASSUME NEW c, NEW p, NEW t
    PROVE  t \in TrxsIn(Range(c) \cup Range(p)) <=>
              t \in TrxsIn(Range(c)) \/ t \in TrxsIn(Range(p))
  BY DEF TrxsIn

LEMMA InPending ==
    ASSUME NEW b, NEW t
    PROVE  /\ t \in TrxsIn(Range(<<b>>)) <=> t \in b.trxs
           /\ t \notin TrxsIn(Range(<<>>))
<1>1. Range(<<b>>) = {b} /\ Range(<<>>) = {}
  BY DEF Range
<1> QED BY <1>1, InBlocks, Zenon

\* A chain grows by a fresh block.
LEMMA AppendFresh ==
    ASSUME NEW c \in Seq(Blocks), NEW b \in Blocks, Disjoint(c), Fresh(c, b)
    PROVE  /\ Append(c, b) \in Seq(Blocks) /\ Disjoint(Append(c, b))
           /\ \A t : t \in TrxsIn(Range(Append(c, b))) <=>
                        t \in TrxsIn(Range(c)) \/ t \in b.trxs
<1> DEFINE c1 == Append(c, b)
           N == Len(c)
<1>1. /\ c1 \in Seq(Blocks) /\ N \in Nat /\ Len(c1) = N + 1 /\ c1[N + 1] = b
      /\ \A i \in 1..N : c1[i] = c[i]
  OBVIOUS
<1>2. \A i \in 1..(N + 1) : i \in 1..N \/ i = N + 1
  BY <1>1
<1>3. \A i \in 1..N : /\ c[i].trxs \cap b.trxs = {} /\ c[i].retired \cap b.retired = {}
                      /\ b.trxs \cap c[i].trxs = {} /\ b.retired \cap c[i].retired = {}
  BY InChainAt DEF Fresh
<1> HIDE DEF c1
<1>4. Disjoint(c1)
  <2> SUFFICES ASSUME NEW i \in 1..(N + 1), NEW j \in 1..(N + 1), i # j
               PROVE  c1[i].trxs \cap c1[j].trxs = {} /\ c1[i].retired \cap c1[j].retired = {}
    BY <1>1 DEF Disjoint
  <2>1. CASE i \in 1..N /\ j \in 1..N
    BY <2>1, <1>1 DEF Disjoint
  <2>2. CASE i = N + 1 /\ j \in 1..N
    BY <2>2, <1>1, <1>3
  <2>3. CASE i \in 1..N /\ j = N + 1
    BY <2>3, <1>1, <1>3
  <2> QED BY <2>1, <2>2, <2>3, <1>2
<1>5. ASSUME NEW t
      PROVE  t \in TrxsIn(Range(c1)) <=> t \in TrxsIn(Range(c)) \/ t \in b.trxs
  <2>1. t \in TrxsIn(Range(c1)) <=> \E i \in 1..(N + 1) : t \in c1[i].trxs
    BY <1>1, InChainAt
  <2>2. t \in TrxsIn(Range(c)) <=> \E i \in 1..N : t \in c[i].trxs
    BY InChainAt
  <2>3. N + 1 \in 1..(N + 1) /\ \A i \in 1..N : i \in 1..(N + 1)
    BY <1>1
  <2> QED BY <2>1, <2>2, <2>3, <1>1, <1>2
<1> QED BY <1>1, <1>4, <1>5 DEF c1

-----------------------------------------------------------------------------
(***************************************************************************)
(* Two chains.                                                             *)
(***************************************************************************)

LEMMA PrefixAt ==
    ASSUME NEW S, NEW a \in Seq(S), NEW b \in Seq(S), NEW n \in 0..Len(a)
    PROVE  IsPrefix(SubSeq(a, 1, n), b) <=> n <= Len(b) /\ \A i \in 1..n : a[i] = b[i]
<1> DEFINE x == SubSeq(a, 1, n)
<1>1. n \in Nat /\ n <= Len(a) /\ Len(a) \in Nat /\ Len(b) \in Nat
  OBVIOUS
<1>2. x \in Seq(S) /\ Len(x) = n /\ \A i \in 1..n : x[i] = a[i]
  BY <1>1
<1>3. SubSeq(x, 1, n) = x
  BY <1>1, <1>2
<1> HIDE DEF x
<1>4. CASE n <= Len(b)
  <2> DEFINE y == SubSeq(b, 1, n)
  <2>1. y \in Seq(S) /\ Len(y) = n /\ \A i \in 1..n : y[i] = b[i]
    BY <1>1, <1>4
  <2> HIDE DEF y
  <2>2. x = y <=> \A i \in 1..n : x[i] = y[i]
    BY <2>1, <1>2
  <2>3. IsPrefix(x, b) <=> x = y
    BY <1>2, <1>3, <1>4 DEF IsPrefix, y
  <2> QED BY <2>1, <2>2, <2>3, <1>2, <1>4 DEF x
<1>5. CASE ~ (n <= Len(b))
  BY <1>2, <1>5 DEF IsPrefix, x
<1> QED BY <1>4, <1>5

\* Common finds the last block that the chains share.
LEMMA CommonIs ==
    ASSUME NEW a \in Seq(Blocks), NEW b \in Seq(Blocks)
    PROVE  /\ Common(a, b) \in 0..Len(a) /\ Common(a, b) <= Len(b)
           /\ \A i \in 1..Common(a, b) : a[i] = b[i]
           /\ \A n \in 0..Len(a) :
                 n <= Len(b) /\ (\A i \in 1..n : a[i] = b[i]) => n <= Common(a, b)
<1> DEFINE N == Len(a)
           Shared(n) == IsPrefix(SubSeq(a, 1, n), b)
           T == {d \in 0..N : Shared(N - d)}
           R == OpToRel(<, Nat)
<1>1. N \in Nat /\ T \in SUBSET Nat
  OBVIOUS
<1>2. Shared(0)
  <2>1. 0 \in 0..Len(a) /\ 0 <= Len(b)
    OBVIOUS
  <2> QED BY <2>1, PrefixAt
<1>3. N \in T
  <2>1. N - N = 0 /\ N \in 0..N
    BY <1>1
  <2> QED BY <2>1, <1>2
<1>4. IsWellFoundedOn(R, Nat)
  BY NatLessThanWellFounded, Zenon
<1>5. \A k, m \in Nat : <<k, m>> \notin R => m <= k
  BY DEF OpToRel
<1> HIDE DEF T, R, N, Shared
<1>6. PICK d \in T : \A k \in T : <<k, d>> \notin R
  BY <1>1, <1>3, <1>4, WFMin, Zenon
<1>7. \A k \in T : d <= k
  BY <1>1, <1>5, <1>6
<1>8. d \in 0..N /\ Shared(N - d) /\ N - d \in 0..N
  BY <1>1, <1>6 DEF T
<1>9. \A i \in 0..N : Shared(i) => i <= N - d
  <2> SUFFICES ASSUME NEW i \in 0..N, Shared(i) PROVE i <= N - d
    OBVIOUS
  <2>1. N - i \in 0..N /\ N - (N - i) = i
    BY <1>1
  <2>2. N - i \in T
    BY <2>1 DEF T
  <2>3. d <= N - i
    BY <2>2, <1>7
  <2> QED BY <2>3, <1>1, <1>8
<1>10. Common(a, b) = CHOOSE k \in 0..N : Shared(k) /\ \A i \in 0..N : Shared(i) => i <= k
  BY DEF Common, N, Shared
<1>11. /\ Common(a, b) \in 0..N /\ Shared(Common(a, b))
       /\ \A i \in 0..N : Shared(i) => i <= Common(a, b)
  BY <1>8, <1>9, <1>10
<1>12. \A n \in 0..N : Shared(n) <=> n <= Len(b) /\ \A i \in 1..n : a[i] = b[i]
  BY PrefixAt DEF N, Shared
<1> QED BY <1>11, <1>12 DEF N

-----------------------------------------------------------------------------
(***************************************************************************)
(* The operations on transactions.                                         *)
(***************************************************************************)

\* Not expired and without an object in the chain state: not in the chain.
LEMMA NotInChain ==
    ASSUME NEW c, NEW t \in Trx, NEW time \in Nat, ~ (Expiration[t] < time),
           t \notin clear_expired_input_transactions(c, time)
    PROVE  t \notin TrxsIn(Range(c))
<1>1. Expiration[t] \in Nat
  BY FunctionsAssumption
<1>2. ~ (time > Expiration[t])
  BY <1>1
<1> QED BY <1>2 DEF clear_expired_input_transactions

\* push_transaction keeps the pending block fresh and the sets apart.
LEMMA PushTransaction ==
    ASSUME PoolInv, pending # <<>>, NEW t \in Trx, NEW result, push_transaction(t, result)
    PROVE  /\ pending' # <<>> /\ PendingOn(head, pending')
           /\ UnappliedOn(head, pending', unapplied')
<1>1. /\ PendingOn(head, pending) /\ UnappliedOn(head, pending, unapplied)
  BY DEF PoolInv, PendingInv, UnappliedInv
<1>2. PICK b \in Blocks : pending = <<b>> /\ b = pending[1] /\ Fresh(head, b)
  BY <1>1 DEF PendingOn
<1>3. CASE result = "ok"
  <2>1. ~ (Expiration[t] < b.time) /\ t \notin clear_expired_input_transactions(head, b.time)
    BY <1>2, <1>3 DEF push_transaction, Results, is_known_unexpired_transaction
  <2>2. t \notin TrxsIn(Range(head))
    <3>1. b.time \in Nat
      BY DEF Blocks
    <3> QED BY <2>1, <3>1, NotInChain
  <2> DEFINE b1 == [b EXCEPT !.trxs = @ \cup {t}]
  <2>3. /\ pending' = [pending EXCEPT ![1].trxs = @ \cup {t}]
        /\ unapplied' = unapplied \ {t}
    BY <1>3 DEF push_transaction
  <2>4. pending' = <<b1>>
    BY <2>3, <1>2
  <2>5. b1 \in Blocks /\ b1.trxs = b.trxs \cup {t} /\ b1.retired = b.retired
    BY DEF Blocks
  <2> HIDE DEF b1
  <2>6. Fresh(head, b1)
    BY <2>2, <2>5, <1>2 DEF Fresh
  <2>7. \A x \in unapplied' : x \in Trx /\ x \notin TrxsIn(Range(head) \cup Range(pending'))
    <3> TAKE x \in unapplied'
    <3>1. x \in unapplied /\ x # t
      BY <2>3
    <3>2. x \in Trx /\ x \notin TrxsIn(Range(head) \cup Range(pending))
      BY <3>1, <1>1 DEF UnappliedOn
    <3>3. x \notin TrxsIn(Range(head)) /\ x \notin b.trxs
      BY <3>2, <1>2, InPool, InPending
    <3>4. x \notin TrxsIn(Range(pending'))
      BY <3>1, <3>3, <2>4, <2>5, InPending
    <3> QED BY <3>2, <3>3, <3>4, InPool
  <2>8. UnappliedOn(head, pending', unapplied')
    BY <2>7 DEF UnappliedOn
  <2>9. pending'[1] = b1 /\ pending' # <<>>
    BY <2>4
  <2> QED BY <2>4, <2>5, <2>6, <2>8, <2>9 DEF PendingOn
<1>4. CASE result # "ok"
  <2>1. pending' = pending /\ unapplied' \subseteq unapplied
    BY <1>4 DEF push_transaction
  <2> QED BY <2>1, <1>1 DEF UnappliedOn
<1> QED BY <1>3, <1>4

\* abort_block: what the pending block held becomes unapplied.
LEMMA AbortBlock ==
    ASSUME NEW c, NEW p, NEW u, PendingOn(c, p), UnappliedOn(c, p, u)
    PROVE  UnappliedOn(c, <<>>, u \cup TrxsIn(Range(p)))
<1> SUFFICES ASSUME NEW x \in u \cup TrxsIn(Range(p))
             PROVE  x \in Trx /\ x \notin TrxsIn(Range(c) \cup Range(<<>>))
  BY DEF UnappliedOn
<1>1. x \notin TrxsIn(Range(<<>>))
  BY InPending
<1>2. CASE x \in u
  BY <1>1, <1>2, InPool DEF UnappliedOn
<1>3. CASE x \in TrxsIn(Range(p))
  <2>1. p # <<>>
    BY <1>3, InPending
  <2>2. PICK b \in Blocks : p = <<b>> /\ Fresh(c, b)
    BY <2>1 DEF PendingOn
  <2>3. x \in b.trxs
    BY <2>2, <1>3, InPending
  <2>4. x \in Trx /\ x \notin TrxsIn(Range(c))
    BY <2>2, <2>3 DEF Fresh, Blocks
  <2> QED BY <2>4, <1>1, InPool
<1> QED BY <1>2, <1>3

\* A request: the pending block and the unapplied transactions.
LEMMA RequestBlocks ==
    ASSUME PoolInv, NEW r \in Requests, NEW result, NEW rest,
           on_incoming_transaction_async(r, result, rest)
    PROVE  /\ pending # <<>> => pending' # <<>>
           /\ PendingOn(head, pending') /\ UnappliedOn(head, pending', unapplied')
<1>1. TrxOf[r] \in Trx
  BY FunctionsAssumption
<1>2. CASE pending' = pending /\ unapplied' = unapplied
  BY <1>2 DEF PoolInv, PendingInv, UnappliedInv
<1>3. CASE pending # <<>> /\ push_transaction(TrxOf[r], result)
  BY <1>1, <1>3, PushTransaction
<1> QED BY <1>2, <1>3 DEF on_incoming_transaction_async, TryRequest

\* A request: it is answered or queued again.
LEMMA RequestAnswer ==
    ASSUME PoolInv, NEW r \in Requests, NEW result, NEW rest \in Seq(Requests),
           \A i, j \in 1..Len(rest) : rest[i] = rest[j] => i = j,
           \A i \in 1..Len(rest) : rest[i] # r /\ answered[rest[i]] = 0,
           answered[r] = 0,
           on_incoming_transaction_async(r, result, rest)
    PROVE  RequestsInv'
<1>1. answered \in [Requests -> {0, 1}]
  BY DEF PoolInv, RequestsInv
<1>2. CASE incoming' = Append(rest, r) /\ answered' = answered
  <2> DEFINE q == Append(rest, r)
  <2>1. /\ q \in Seq(Requests) /\ Len(rest) \in Nat /\ Len(q) = Len(rest) + 1
        /\ q[Len(rest) + 1] = r /\ \A i \in 1..Len(rest) : q[i] = rest[i]
    OBVIOUS
  <2> HIDE DEF q
  <2>2. \A i \in 1..Len(q) : i \in 1..Len(rest) \/ i = Len(rest) + 1
    BY <2>1
  <2>3. \A i, j \in 1..Len(q) : q[i] = q[j] => i = j
    BY <2>1, <2>2
  <2>4. \A i \in 1..Len(q) : answered[q[i]] = 0
    BY <2>1, <2>2
  <2>5. incoming' = q
    BY <1>2 DEF q
  <2> QED BY <2>1, <2>3, <2>4, <2>5, <1>1, <1>2 DEF RequestsInv
<1>3. CASE incoming' = rest /\ answered' = [answered EXCEPT ![r] = @ + 1]
  <2>1. answered' \in [Requests -> {0, 1}]
    BY <1>1, <1>3
  <2>2. \A i \in 1..Len(rest) : answered'[rest[i]] = 0
    BY <1>1, <1>3
  <2> QED BY <2>1, <2>2, <1>3 DEF RequestsInv
<1> QED BY <1>2, <1>3 DEF on_incoming_transaction_async, TryRequest, Requeue, Enqueue, Answer

\* A queued request gets its turn.
LEMMA PopAnswer ==
    ASSUME PoolInv, PopRequest
    PROVE  /\ RequestsInv'
           /\ pending # <<>> => pending' # <<>>
           /\ PendingOn(head, pending') /\ UnappliedOn(head, pending', unapplied')
<1> DEFINE r == Head(incoming)
           rest == Tail(incoming)
<1>1. incoming # <<>> /\ RequestsInv
  BY DEF PopRequest, PoolInv
<1>2. PICK result \in AllResults : on_incoming_transaction_async(r, result, rest)
  BY DEF PopRequest
<1>3. /\ incoming \in Seq(Requests) /\ r \in Requests /\ rest \in Seq(Requests)
      /\ Len(incoming) \in Nat \ {0} /\ Len(rest) = Len(incoming) - 1 /\ r = incoming[1]
      /\ \A i \in 1..Len(rest) : rest[i] = incoming[i + 1]
  BY <1>1 DEF RequestsInv
<1> HIDE DEF r, rest
<1>4. \A i \in 1..Len(rest) : i + 1 \in 1..Len(incoming) /\ i + 1 # 1
  BY <1>3
<1>5. 1 \in 1..Len(incoming)
  BY <1>3
<1>6. \A i, j \in 1..Len(rest) : rest[i] = rest[j] => i = j
  <2> TAKE i, j \in 1..Len(rest)
  <2>1. rest[i] = rest[j] => i + 1 = j + 1
    BY <1>1, <1>3, <1>4 DEF RequestsInv
  <2> QED BY <2>1
<1>7. \A i \in 1..Len(rest) : rest[i] # r /\ answered[rest[i]] = 0
  BY <1>1, <1>3, <1>4, <1>5 DEF RequestsInv
<1>8. answered[r] = 0
  BY <1>1, <1>3, <1>5 DEF RequestsInv
<1> QED BY <1>2, <1>3, <1>6, <1>7, <1>8, RequestAnswer, RequestBlocks

-----------------------------------------------------------------------------
(***************************************************************************)
(* Fork switches, from chain a to chain c.                                 *)
(***************************************************************************)

Popped(a, c, u) == u \cup Recaptured(BlocksAfter(a, Common(a, c)))

\* What is unapplied after the switch to c has succeeded.
AfterSwitch(a, c, u) == Applied(Popped(a, c, u), c, Common(a, c), Len(c))

\* What is unapplied after block j of c has failed and a was applied again.
AfterFailure(a, c, u, j) ==
    Applied(Applied(Popped(a, c, u), c, Common(a, c), j - 1)
              \cup c[j].trxs
              \cup Recaptured({c[i] : i \in (Common(a, c) + 1)..(j - 1)}),
            a, Common(a, c), Len(a))

\* A transaction of a block of chain c that was not made here.
Received(c, t) == \E b \in Range(c) : ~ b.own /\ t \in b.trxs

LEMMA ReceivedAt ==
    ASSUME NEW c \in Seq(Blocks), NEW t, NEW i \in 1..Len(c), ~ c[i].own, t \in c[i].trxs
    PROVE  Received(c, t)
  BY DEF Received, Range

LEMMA SwitchWorks ==
    ASSUME NEW a \in Seq(Blocks), NEW c \in Seq(Blocks), Disjoint(a), Disjoint(c),
           NEW u, UnappliedOn(a, <<>>, u)
    PROVE  /\ UnappliedOn(c, <<>>, AfterSwitch(a, c, u))
           /\ \A t : t \in u \/ t \in TrxsIn(Range(a)) =>
                 t \in AfterSwitch(a, c, u) \/ t \in TrxsIn(Range(c)) \/ Received(a, t)
<1> DEFINE k == Common(a, c)
           v == AfterSwitch(a, c, u)
<1>1. /\ k \in Nat /\ k <= Len(a) /\ k <= Len(c) /\ Len(a) \in Nat /\ Len(c) \in Nat
      /\ \A i \in 1..k : a[i] = c[i]
  <2>1. Len(a) \in Nat /\ Len(c) \in Nat
    OBVIOUS
  <2>2. /\ k \in 0..Len(a) /\ k <= Len(c) /\ \A i \in 1..k : a[i] = c[i]
    BY CommonIs
  <2> QED BY <2>1, <2>2
<1>2. /\ \A i \in 1..Len(a) : i \in 1..k \/ i \in (k + 1)..Len(a)
      /\ \A i \in 1..Len(c) : i \in 1..k \/ i \in (k + 1)..Len(c)
      /\ \A i \in (k + 1)..Len(a) : i \in 1..Len(a) /\ i \notin 1..k
      /\ \A i \in (k + 1)..Len(c) : i \in 1..Len(c) /\ i \notin 1..k
      /\ \A i \in 1..k : i \in 1..Len(a) /\ i \in 1..Len(c)
  BY <1>1
<1>3. ASSUME NEW t
      PROVE  t \in v <=> /\ \/ t \in u
                            \/ \E i \in (k + 1)..Len(a) : a[i].own /\ t \in a[i].trxs
                         /\ ~ \E i \in (k + 1)..Len(c) : t \in c[i].trxs
  BY InSlice DEF AfterSwitch, Applied, Popped, BlocksAfter
<1> HIDE DEF k, v
<1>4. ASSUME NEW t, t \in u
      PROVE  t \in Trx /\ \A i \in 1..Len(a) : t \notin a[i].trxs
  <2>1. t \in Trx /\ t \notin TrxsIn(Range(a))
    BY <1>4, InPool DEF UnappliedOn
  <2> QED BY <2>1, InChainAt
<1>5. ASSUME NEW t \in v
      PROVE  t \in Trx /\ t \notin TrxsIn(Range(c))
  <2>1. t \in Trx /\ \A i \in 1..k : t \notin a[i].trxs
    <3>1. CASE t \in u
      BY <3>1, <1>2, <1>4
    <3>2. CASE \E i \in (k + 1)..Len(a) : a[i].own /\ t \in a[i].trxs
      <4>1. PICK i \in (k + 1)..Len(a) : t \in a[i].trxs
        BY <3>2
      <4>2. i \in 1..Len(a) /\ \A j \in 1..k : j \in 1..Len(a) /\ i # j
        BY <1>2
      <4>3. a[i] \in Blocks
        BY <4>2
      <4> QED BY <4>1, <4>2, <4>3 DEF Disjoint, Blocks
    <3> QED BY <3>1, <3>2, <1>3
  <2>2. \A i \in 1..Len(c) : t \notin c[i].trxs
    BY <2>1, <1>1, <1>2, <1>3
  <2> QED BY <2>1, <2>2, InChainAt
<1>6. UnappliedOn(c, <<>>, v)
  BY <1>5, InPool, InPending DEF UnappliedOn
<1>7. ASSUME NEW t, t \in u \/ t \in TrxsIn(Range(a)), ~ Received(a, t)
      PROVE  t \in v \/ t \in TrxsIn(Range(c))
  <2>1. CASE t \in u
    <3>1. t \in v \/ \E i \in 1..Len(c) : t \in c[i].trxs
      BY <2>1, <1>2, <1>3
    <3> QED BY <3>1, InChainAt
  <2>2. CASE t \in TrxsIn(Range(a))
    <3>1. PICK i \in 1..Len(a) : t \in a[i].trxs
      BY <2>2, InChainAt
    <3>2. a[i].own
      BY <3>1, <1>7, ReceivedAt
    <3>3. t \in v \/ \E j \in 1..Len(c) : t \in c[j].trxs
      <4>1. CASE i \in 1..k
        BY <4>1, <3>1, <1>1, <1>2
      <4>2. CASE i \in (k + 1)..Len(a)
        BY <4>2, <3>1, <3>2, <1>2, <1>3
      <4> QED BY <4>1, <4>2, <1>2
    <3> QED BY <3>3, InChainAt
  <2> QED BY <2>1, <2>2, <1>7
<1> QED BY <1>6, <1>7 DEF v

LEMMA SwitchFails ==
    ASSUME NEW a \in Seq(Blocks), NEW c \in Seq(Blocks), Disjoint(a), Disjoint(c),
           NEW u, UnappliedOn(a, <<>>, u), NEW j \in (Common(a, c) + 1)..Len(c)
    PROVE  /\ UnappliedOn(a, <<>>, AfterFailure(a, c, u, j))
           /\ \A t \in u : \/ t \in AfterFailure(a, c, u, j)
                           \/ \E i \in 1..(j - 1) : ~ c[i].own /\ t \in c[i].trxs
           /\ ~ IsPrefix(SubSeq(c, 1, j), a)
<1> DEFINE k == Common(a, c)
           v == AfterFailure(a, c, u, j)
<1>1. /\ k \in Nat /\ k <= Len(a) /\ k <= Len(c) /\ Len(a) \in Nat /\ Len(c) \in Nat
      /\ \A i \in 1..k : a[i] = c[i]
  <2>1. Len(a) \in Nat /\ Len(c) \in Nat
    OBVIOUS
  <2>2. /\ k \in 0..Len(a) /\ k <= Len(c) /\ \A i \in 1..k : a[i] = c[i]
    BY CommonIs
  <2> QED BY <2>1, <2>2
<1>2. j \in Nat /\ k < j /\ j <= Len(c) /\ j \in 1..Len(c)
  BY <1>1
<1>3. /\ \A i \in 1..Len(a) : i \in 1..k \/ i \in (k + 1)..Len(a)
      /\ \A i \in (k + 1)..Len(a) : i \in 1..Len(a) /\ i \notin 1..k
      /\ \A i \in (k + 1)..(j - 1) : i \in 1..Len(c) /\ i \notin 1..k /\ i \in 1..(j - 1)
      /\ \A i \in 1..k : i \in 1..Len(a) /\ i \in 1..Len(c) /\ i # j
  BY <1>1, <1>2
<1>4. ASSUME NEW t
      PROVE  t \in v <=>
                /\ \/ /\ \/ t \in u
                         \/ \E i \in (k + 1)..Len(a) : a[i].own /\ t \in a[i].trxs
                      /\ ~ \E i \in (k + 1)..(j - 1) : t \in c[i].trxs
                   \/ t \in c[j].trxs
                   \/ \E i \in (k + 1)..(j - 1) : c[i].own /\ t \in c[i].trxs
                /\ ~ \E i \in (k + 1)..Len(a) : t \in a[i].trxs
  BY InSlice DEF AfterFailure, Applied, Popped, BlocksAfter
<1>5. ASSUME IsPrefix(SubSeq(c, 1, j), a)
      PROVE  FALSE
  <2>1. j \in 0..Len(c)
    BY <1>1, <1>2
  <2>2. j <= Len(a) /\ \A i \in 1..j : c[i] = a[i]
    BY <2>1, <1>5, PrefixAt
  <2>3. j \in 0..Len(a) /\ \A i \in 1..j : a[i] = c[i]
    BY <2>2, <1>1, <1>2
  <2>4. j <= k
    BY <2>3, <1>2, CommonIs
  <2> QED BY <2>4, <1>1, <1>2
<1> HIDE DEF k, v
<1>6. ASSUME NEW t, t \in u
      PROVE  t \in Trx /\ \A i \in 1..Len(a) : t \notin a[i].trxs
  <2>1. t \in Trx /\ t \notin TrxsIn(Range(a))
    BY <1>6, InPool DEF UnappliedOn
  <2> QED BY <2>1, InChainAt
<1>7. ASSUME NEW t, NEW i \in 1..Len(c), t \in c[i].trxs, i \notin 1..k
      PROVE  t \in Trx /\ \A n \in 1..k : t \notin a[n].trxs
  <2>1. c[i] \in Blocks
    OBVIOUS
  <2>2. \A n \in 1..k : n \in 1..Len(c) /\ n # i /\ a[n] = c[n]
    BY <1>1, <1>3, <1>7
  <2> QED BY <2>1, <2>2, <1>7 DEF Disjoint, Blocks
<1>8. ASSUME NEW t \in v
      PROVE  t \in Trx /\ t \notin TrxsIn(Range(a))
  <2>1. \A i \in (k + 1)..Len(a) : t \notin a[i].trxs
    BY <1>4
  <2>2. t \in Trx /\ \A i \in 1..k : t \notin a[i].trxs
    <3>1. CASE t \in u
      BY <3>1, <1>3, <1>6
    <3>2. CASE t \in c[j].trxs
      BY <3>2, <1>2, <1>3, <1>7
    <3>3. CASE \E i \in (k + 1)..(j - 1) : c[i].own /\ t \in c[i].trxs
      BY <3>3, <1>3, <1>7
    <3> QED BY <3>1, <3>2, <3>3, <2>1, <1>4
  <2>3. \A i \in 1..Len(a) : t \notin a[i].trxs
    BY <2>1, <2>2, <1>3
  <2> QED BY <2>2, <2>3, InChainAt
<1>9. UnappliedOn(a, <<>>, v)
  BY <1>8, InPool, InPending DEF UnappliedOn
<1>10. ASSUME NEW t \in u
       PROVE  t \in v \/ \E i \in 1..(j - 1) : ~ c[i].own /\ t \in c[i].trxs
  <2>1. \A i \in (k + 1)..Len(a) : t \notin a[i].trxs
    BY <1>3, <1>6
  <2> QED BY <2>1, <1>3, <1>4
<1> QED BY <1>5, <1>9, <1>10 DEF k, v

-----------------------------------------------------------------------------
(***************************************************************************)
(* Received blocks.                                                        *)
(***************************************************************************)

\* A valid block of another producer repeats nothing of its chain.
LEMMA ForeignFresh ==
    ASSUME NEW c, NEW b \in Blocks, Foreign(c, b)
    PROVE  Fresh(c, b)
<1>1. ASSUME NEW t \in b.trxs
      PROVE  t \notin TrxsIn(Range(c))
  <2>1. t \in Trx /\ b.time \in Nat /\ Expiration[t] \in Nat
    BY FunctionsAssumption DEF Blocks
  <2>2. ~ (Expiration[t] < b.time)
    BY <2>1 DEF Foreign
  <2>3. t \notin clear_expired_input_transactions(c, b.time)
    BY DEF Foreign
  <2> QED BY <2>1, <2>2, <2>3, NotInChain
<1>2. ASSUME NEW d \in b.retired
      PROVE  d \notin RetiredIn(Range(c))
  <2>1. d \in Waiting(c, {Block(b.trxs, {}, 0, FALSE, FALSE)})
    BY DEF Foreign
  <2>2. d \notin RetiredIn(Range(c) \cup {Block(b.trxs, {}, 0, FALSE, FALSE)})
    BY <2>1 DEF Waiting
  <2> QED BY <2>2 DEF RetiredIn
<1> QED BY <1>1, <1>2 DEF Fresh

Aborted == unapplied \cup TrxsIn(Range(pending))

\* The three outcomes of a received block that makes chain c.
Adopted(c) == /\ head' = c /\ known' = known \cup {c}
              /\ unapplied' = AfterSwitch(head, c, Aborted)
Rejected(c) == \E j \in (Common(head, c) + 1)..Len(c) :
    /\ head' = head /\ known' = {x \in known : ~ IsPrefix(SubSeq(c, 1, j), x)}
    /\ unapplied' = AfterFailure(head, c, Aborted, j)
Stored(c) == /\ head' = head /\ known' = known \cup {c}
             /\ unapplied' = Aborted

LEMMA IncomingOutcome ==
    ASSUME PoolInv, NEW c \in known, NEW x \in Contents,
           on_incoming_block(c, Block(x.trxs, x.retired, now + 1, FALSE, x.bad))
    PROVE  \E b \in Blocks :
              /\ Fresh(c, b)
              /\ Adopted(Append(c, b)) \/ Rejected(Append(c, b)) \/ Stored(Append(c, b))
<1> DEFINE b == Block(x.trxs, x.retired, now + 1, FALSE, x.bad)
           c1 == Append(c, b)
           k == Common(head, c1)
           First == FirstBad(c1, k)
<1>1. b \in Blocks
  <2>1. x \in [trxs : SUBSET Trx, retired : SUBSET Deferred, bad : BOOLEAN] /\ now + 1 \in Nat
    BY BoundsAssumption DEF PoolInv
  <2> QED BY <2>1 DEF Block, Blocks
<1>2. Fresh(c, b)
  BY <1>1, ForeignFresh DEF on_incoming_block
<1>3. switch_to(c1, Aborted) \/ Stored(c1)
  BY DEF on_incoming_block, Stored, Aborted
<1>4. ASSUME switch_to(c1, Aborted), First = {}
      PROVE  Adopted(c1)
  BY <1>4 DEF switch_to, Adopted, AfterSwitch, Popped
<1>5. ASSUME switch_to(c1, Aborted), First # {}
      PROVE  Rejected(c1)
  <2> DEFINE j == CHOOSE i \in First : TRUE
  <2>1. j \in First
    BY <1>5
  <2>2. j \in (k + 1)..Len(c1)
    BY <2>1 DEF FirstBad
  <2>3. /\ head' = head /\ known' = {y \in known : ~ IsPrefix(SubSeq(c1, 1, j), y)}
        /\ unapplied' = AfterFailure(head, c1, Aborted, j)
    BY <1>5 DEF switch_to, AfterFailure, Popped
  <2> HIDE DEF j, c1
  <2> QED BY <2>2, <2>3 DEF Rejected
<1> QED BY <1>1, <1>2, <1>3, <1>4, <1>5

LEMMA IncomingBlockKeeps ==
    ASSUME PoolInv, IncomingBlock
    PROVE  PoolInv'
<1>1. PICK c \in known, x \in Contents :
         on_incoming_block(c, Block(x.trxs, x.retired, now + 1, FALSE, x.bad))
  BY DEF IncomingBlock
<1>2. PICK b \in Blocks :
         /\ Fresh(c, b)
         /\ Adopted(Append(c, b)) \/ Rejected(Append(c, b)) \/ Stored(Append(c, b))
  BY <1>1, IncomingOutcome
<1> DEFINE c1 == Append(c, b)
<1>3. /\ head \in Seq(Blocks) /\ Disjoint(head) /\ head \in known
      /\ c \in Seq(Blocks) /\ Disjoint(c)
      /\ \A y \in known : y \in Seq(Blocks) /\ Disjoint(y)
  BY DEF PoolInv, ChainsInv
<1>4. c1 \in Seq(Blocks) /\ Disjoint(c1)
  BY <1>2, <1>3, AppendFresh
<1>5. UnappliedOn(head, <<>>, Aborted)
  BY AbortBlock DEF PoolInv, PendingInv, UnappliedInv, Aborted
<1>6. /\ pending' = <<>> /\ phase' = "loop" /\ now' = now
      /\ incoming' = incoming /\ answered' = answered
  BY <1>1 DEF on_incoming_block, queues
<1> HIDE DEF c1
<1>7. ChainsInv' /\ UnappliedOn(head', <<>>, unapplied')
  <2>1. CASE Adopted(c1)
    <3>1. UnappliedOn(c1, <<>>, AfterSwitch(head, c1, Aborted))
      BY <1>3, <1>4, <1>5, SwitchWorks
    <3> QED BY <3>1, <2>1, <1>3, <1>4 DEF Adopted, ChainsInv
  <2>2. CASE Rejected(c1)
    <3>1. PICK j \in (Common(head, c1) + 1)..Len(c1) :
             /\ head' = head /\ known' = {y \in known : ~ IsPrefix(SubSeq(c1, 1, j), y)}
             /\ unapplied' = AfterFailure(head, c1, Aborted, j)
      BY <2>2 DEF Rejected
    <3>2. /\ UnappliedOn(head, <<>>, AfterFailure(head, c1, Aborted, j))
          /\ ~ IsPrefix(SubSeq(c1, 1, j), head)
      BY <1>3, <1>4, <1>5, SwitchFails
    <3>3. head' \in known' /\ known' \subseteq known
      BY <3>1, <3>2, <1>3
    <3>4. \A y \in known' : y \in Seq(Blocks) /\ Disjoint(y)
      BY <3>3, <1>3
    <3>5. ChainsInv'
      BY <3>3, <3>4 DEF ChainsInv
    <3> QED BY <3>1, <3>2, <3>5
  <2>3. CASE Stored(c1)
    BY <2>3, <1>3, <1>4, <1>5 DEF Stored, ChainsInv
  <2> QED BY <2>1, <2>2, <2>3, <1>2 DEF c1
<1>8. PendingInv' /\ UnappliedInv'
  BY <1>6, <1>7 DEF PendingInv, PendingOn, UnappliedInv, Looping
<1>9. LoopInv'
  BY <1>6 DEF LoopInv
<1>10. RequestsInv' /\ now' \in Nat
  BY <1>6 DEF PoolInv, RequestsInv
<1> QED BY <1>7, <1>8, <1>9, <1>10 DEF PoolInv

-----------------------------------------------------------------------------
(***************************************************************************)
(* The other steps.  Most leave the chains or the requests alone.          *)
(***************************************************************************)

LEMMA SameChains ==
    ASSUME PoolInv, now' = now, UNCHANGED chains
    PROVE  ChainsInv' /\ now' \in Nat
  BY DEF PoolInv, ChainsInv, chains

LEMMA SameRequests ==
    ASSUME PoolInv, incoming' = incoming, answered' = answered
    PROVE  RequestsInv'
  BY DEF PoolInv, RequestsInv

LEMMA ReceiveTransactionKeeps ==
    ASSUME PoolInv, NEW r \in Requests, receive_transaction(r)
    PROVE  PoolInv'
<1>1. PICK result \in AllResults : on_incoming_transaction_async(r, result, incoming)
  BY DEF receive_transaction
<1>2. /\ phase' = "idle" /\ now' = now /\ UNCHANGED chains /\ head' = head
  BY DEF receive_transaction, chains
<1>3. PendingOn(head, pending') /\ UnappliedOn(head, pending', unapplied')
  BY <1>1, RequestBlocks
<1>4. RequestsInv /\ answered[r] = 0 /\ r \notin Range(incoming)
  BY DEF PoolInv, receive_transaction
<1>5. /\ incoming \in Seq(Requests)
      /\ \A i, j \in 1..Len(incoming) : incoming[i] = incoming[j] => i = j
      /\ \A i \in 1..Len(incoming) : answered[incoming[i]] = 0
  BY <1>4 DEF RequestsInv
<1>6. \A i \in 1..Len(incoming) : incoming[i] # r
  <2>1. DOMAIN incoming = 1..Len(incoming)
    BY <1>5
  <2> QED BY <2>1, <1>4 DEF Range
<1>7. RequestsInv'
  BY <1>1, <1>4, <1>5, <1>6, RequestAnswer
<1>8. PendingInv' /\ UnappliedInv' /\ LoopInv'
  BY <1>2, <1>3 DEF PendingInv, UnappliedInv, LoopInv, Looping
<1> QED BY <1>2, <1>7, <1>8, SameChains DEF PoolInv

LEMMA StartBlockEndsKeeps ==
    ASSUME PoolInv, start_block_waits \/ start_block_fails
    PROVE  PoolInv'
<1>1. /\ phase' = "idle" /\ now' = now /\ UNCHANGED chains /\ head' = head
      /\ incoming' = incoming /\ answered' = answered
  BY DEF start_block_waits, start_block_fails, chains, queues
<1>2. PendingOn(head, pending) /\ UnappliedOn(head, pending, unapplied)
  BY DEF PoolInv, PendingInv, UnappliedInv
<1>3. PendingOn(head, pending') /\ UnappliedOn(head, pending', unapplied')
  <2>1. CASE start_block_waits
    BY <2>1, <1>2 DEF start_block_waits
  <2>2. CASE start_block_fails
    <3>1. pending' = <<>> /\ unapplied' = unapplied \cup TrxsIn(Range(pending))
      BY <2>2 DEF start_block_fails, abort_block
    <3> QED BY <3>1, <1>2, AbortBlock DEF PendingOn
  <2> QED BY <2>1, <2>2
<1>4. PendingInv' /\ UnappliedInv' /\ LoopInv'
  BY <1>1, <1>3 DEF PendingInv, UnappliedInv, LoopInv, Looping
<1> QED BY <1>1, <1>4, SameChains, SameRequests DEF PoolInv

LEMMA StartBlockKeeps ==
    ASSUME PoolInv, StartBlock
    PROVE  PoolInv'
<1> DEFINE b == Block({}, {}, PendingTime, TRUE, FALSE)
<1>1. PICK m : start_block(m)
  BY DEF StartBlock
<1>2. /\ phase' = "persistent" /\ now' = now /\ UNCHANGED chains /\ head' = head
      /\ incoming' = incoming /\ answered' = answered
      /\ pending' = <<b>> /\ unapplied' = unapplied \cup TrxsIn(Range(pending))
      /\ todo' \subseteq unapplied'
  BY <1>1 DEF start_block, chains
<1>3. PendingTime \in Nat
  <2>1. now \in Nat /\ head \in Seq(Blocks)
    BY DEF PoolInv, ChainsInv
  <2>2. TimeOf(head) \in Nat
    <3>1. CASE head = <<>>
      BY <3>1 DEF TimeOf
    <3>2. CASE head # <<>>
      <4>1. Len(head) \in 1..Len(head)
        BY <2>1, <3>2
      <4>2. Last(head) \in Blocks
        BY <2>1, <4>1 DEF Last
      <4> QED BY <4>2, <3>2 DEF TimeOf, Blocks
    <3> QED BY <3>1, <3>2
  <2> QED BY <2>1, <2>2 DEF PendingTime
<1>4. b \in Blocks /\ b.trxs = {} /\ b.retired = {}
  BY <1>3 DEF Block, Blocks
<1> HIDE DEF b
<1>5. Fresh(head, b)
  BY <1>4 DEF Fresh
<1>6. PendingOn(head, pending') /\ pending' # <<>>
  <2>1. pending'[1] = b
    BY <1>2
  <2> QED BY <2>1, <1>2, <1>4, <1>5 DEF PendingOn
<1>7. UnappliedOn(head, <<>>, unapplied')
  BY <1>2, AbortBlock DEF PoolInv, PendingInv, UnappliedInv
<1>8. UnappliedOn(head, pending', unapplied')
  <2> SUFFICES ASSUME NEW x \in unapplied'
               PROVE  x \in Trx /\ x \notin TrxsIn(Range(head) \cup Range(pending'))
    BY DEF UnappliedOn
  <2>1. x \in Trx /\ x \notin TrxsIn(Range(head))
    BY <1>7, InPool DEF UnappliedOn
  <2>2. x \notin TrxsIn(Range(pending'))
    BY <1>2, <1>4, InPending
  <2> QED BY <2>1, <2>2, InPool
<1>9. PendingInv' /\ UnappliedInv'
  BY <1>2, <1>6, <1>8 DEF PendingInv, UnappliedInv
<1>10. LoopInv'
  BY <1>2, <1>8 DEF LoopInv, Looping, UnappliedOn
<1> QED BY <1>2, <1>9, <1>10, SameChains, SameRequests DEF PoolInv

LEMMA LoopStepKeeps ==
    ASSUME PoolInv, push_persistent \/ push_unapplied
    PROVE  PoolInv'
<1>1. /\ phase \in {"persistent", "unapplied"} /\ phase' = phase /\ now' = now
      /\ UNCHANGED chains /\ head' = head /\ incoming' = incoming /\ answered' = answered
      /\ todo' \subseteq todo
  BY DEF push_persistent, push_unapplied, chains, queues
<1>2. todo \subseteq Trx /\ pending # <<>> /\ PendingOn(head, pending)
      /\ UnappliedOn(head, pending, unapplied)
  BY <1>1 DEF PoolInv, LoopInv, PendingInv, UnappliedInv, Looping
<1>3. /\ pending' # <<>> /\ PendingOn(head, pending')
      /\ UnappliedOn(head, pending', unapplied')
  <2>1. CASE \E t \in todo, result \in AllResults : push_transaction(t, result)
    BY <2>1, <1>2, PushTransaction
  <2>2. CASE \E t \in todo : drop_unapplied_transaction(t)
    <3>1. pending' = pending /\ unapplied' \subseteq unapplied
      BY <2>2 DEF drop_unapplied_transaction
    <3> QED BY <3>1, <1>2 DEF UnappliedOn
  <2> QED BY <2>1, <2>2 DEF push_persistent, push_unapplied, AllResults
<1>4. PendingInv' /\ UnappliedInv'
  BY <1>1, <1>3 DEF PendingInv, UnappliedInv
<1>5. LoopInv'
  BY <1>1, <1>2 DEF LoopInv, Looping
<1> QED BY <1>1, <1>4, <1>5, SameChains, SameRequests DEF PoolInv

\* The loops that end: the blocks and the queues stay.
LEMMA LoopEndKeeps ==
    ASSUME PoolInv, persistent_done \/ unapplied_done \/ scheduled_done \/ exhausted
    PROVE  PoolInv'
<1>1. /\ phase \in Looping /\ phase' \in Looping \cup {"idle"} /\ now' = now
      /\ UNCHANGED chains /\ head' = head /\ incoming' = incoming /\ answered' = answered
      /\ pending' = pending /\ unapplied' = unapplied
  BY DEF persistent_done, unapplied_done, scheduled_done, exhausted, chains, queues, Looping
<1>2. PendingInv' /\ UnappliedInv'
  BY <1>1 DEF PoolInv, PendingInv, UnappliedInv
<1>3. LoopInv'
  <2>1. CASE persistent_done
    <3>1. phase' \in {"unapplied", "last"} /\ (phase' = "unapplied" => todo' \subseteq unapplied)
      BY <2>1 DEF persistent_done
    <3> QED BY <3>1 DEF LoopInv, Looping, PoolInv, UnappliedInv, UnappliedOn
  <2>2. CASE unapplied_done
    <3>1. phase' = "scheduled" /\ todo' = Waiting(head, Range(pending))
      BY <2>2 DEF unapplied_done
    <3>2. \A d \in todo' : d \in Deferred /\ d \notin RetiredIn(Range(head))
      BY <3>1 DEF Waiting, RetiredIn
    <3> QED BY <3>1, <3>2, <1>1 DEF LoopInv, Looping
  <2>3. CASE scheduled_done \/ exhausted
    <3>1. phase' \in {"last", "idle"}
      BY <2>3 DEF scheduled_done, exhausted
    <3> QED BY <3>1 DEF LoopInv, Looping
  <2> QED BY <2>1, <2>2, <2>3
<1> QED BY <1>1, <1>2, <1>3, SameChains, SameRequests DEF PoolInv

LEMMA PushScheduledKeeps ==
    ASSUME PoolInv, push_scheduled
    PROVE  PoolInv'
<1>1. /\ phase = "scheduled" /\ phase' = phase /\ now' = now /\ UNCHANGED chains
      /\ head' = head /\ incoming' = incoming /\ answered' = answered
      /\ unapplied' = unapplied /\ todo' \subseteq todo
  BY DEF push_scheduled, chains
<1>2. /\ todo \subseteq Deferred \ RetiredIn(Range(head))
      /\ pending # <<>> /\ PendingOn(head, pending) /\ UnappliedOn(head, pending, unapplied)
  BY <1>1 DEF PoolInv, LoopInv, PendingInv, UnappliedInv, Looping
<1>3. PICK b \in Blocks : pending = <<b>> /\ Fresh(head, b)
  BY <1>2 DEF PendingOn
<1>4. /\ pending' # <<>> /\ PendingOn(head, pending')
      /\ UnappliedOn(head, pending', unapplied')
  <2>1. CASE pending' = pending
    BY <2>1, <1>1, <1>2
  <2>2. ASSUME NEW d \in todo, Retire(d)
        PROVE  /\ pending' # <<>> /\ PendingOn(head, pending')
               /\ UnappliedOn(head, pending', unapplied')
    <3> DEFINE b1 == [b EXCEPT !.retired = @ \cup {d}]
    <3>1. pending' = <<b1>>
      BY <2>2, <1>3 DEF Retire
    <3>2. b1 \in Blocks /\ b1.trxs = b.trxs /\ b1.retired = b.retired \cup {d}
      BY <1>2 DEF Blocks
    <3> HIDE DEF b1
    <3>3. Fresh(head, b1)
      BY <3>2, <1>2, <1>3 DEF Fresh
    <3>4. pending'[1] = b1 /\ pending' # <<>>
      BY <3>1
    <3>5. \A x \in unapplied' : x \in Trx /\ x \notin TrxsIn(Range(head) \cup Range(pending'))
      <4> TAKE x \in unapplied'
      <4>1. x \in Trx /\ x \notin TrxsIn(Range(head) \cup Range(pending))
        BY <1>1, <1>2 DEF UnappliedOn
      <4>2. x \notin TrxsIn(Range(head)) /\ x \notin b.trxs
        BY <4>1, <1>3, InPool, InPending
      <4>3. x \notin TrxsIn(Range(pending'))
        BY <4>2, <3>1, <3>2, InPending
      <4> QED BY <4>1, <4>2, <4>3, InPool
    <3> QED BY <3>1, <3>2, <3>3, <3>4, <3>5 DEF PendingOn, UnappliedOn
  <2> QED BY <2>1, <2>2 DEF push_scheduled
<1>5. PendingInv' /\ UnappliedInv' /\ LoopInv'
  BY <1>1, <1>2, <1>4 DEF PendingInv, UnappliedInv, LoopInv, Looping
<1> QED BY <1>1, <1>5, SameChains, SameRequests DEF PoolInv

LEMMA PushIncomingKeeps ==
    ASSUME PoolInv, push_incoming_between \/ push_incoming
    PROVE  PoolInv'
<1>1. /\ phase \in {"scheduled", "last"} /\ phase' \in {phase, "idle"} /\ now' = now
      /\ UNCHANGED chains /\ head' = head /\ todo' = todo
  BY DEF push_incoming_between, push_incoming, chains
<1>2. pending # <<>>
  BY <1>1 DEF PoolInv, PendingInv, Looping
<1>3. /\ RequestsInv' /\ pending' # <<>> /\ PendingOn(head, pending')
      /\ UnappliedOn(head, pending', unapplied')
  <2>1. CASE PopRequest
    BY <2>1, <1>2, PopAnswer
  <2>2. CASE UNCHANGED <<pending, unapplied, persistent, incoming, answered>>
    BY <2>2, <1>2, SameRequests DEF PoolInv, PendingInv, UnappliedInv
  <2> QED BY <2>1, <2>2 DEF push_incoming_between, push_incoming
<1>4. PendingInv' /\ UnappliedInv'
  BY <1>1, <1>3 DEF PendingInv, UnappliedInv
<1>5. LoopInv'
  BY <1>1 DEF PoolInv, LoopInv, Looping
<1> QED BY <1>1, <1>3, <1>4, <1>5, SameChains DEF PoolInv

\* The two outcomes of produce_block.
Committed == head' = head \o pending /\ known' = known \cup {head'} /\ unapplied' = unapplied
GivenUp == abort_block /\ UNCHANGED chains

LEMMA ProduceOutcome ==
    ASSUME produce_block
    PROVE  /\ Committed \/ GivenUp
           /\ pending # <<>> /\ pending' = <<>> /\ phase' = "loop" /\ now' = now
           /\ incoming' = incoming /\ answered' = answered
  BY DEF produce_block, Committed, GivenUp, abort_block, queues

LEMMA ProduceBlockKeeps ==
    ASSUME PoolInv, produce_block
    PROVE  PoolInv'
<1>1. /\ Committed \/ GivenUp
      /\ pending # <<>> /\ pending' = <<>> /\ phase' = "loop" /\ now' = now
      /\ incoming' = incoming /\ answered' = answered
  BY ProduceOutcome
<1>2. PendingOn(head, pending) /\ UnappliedOn(head, pending, unapplied)
  BY DEF PoolInv, PendingInv, UnappliedInv
<1>3. PICK b \in Blocks : pending = <<b>> /\ Fresh(head, b)
  BY <1>1, <1>2 DEF PendingOn
<1>4. /\ head \in Seq(Blocks) /\ Disjoint(head)
      /\ \A y \in known : y \in Seq(Blocks) /\ Disjoint(y)
  BY DEF PoolInv, ChainsInv
<1>5. ChainsInv' /\ UnappliedOn(head', <<>>, unapplied')
  <2>1. CASE Committed
    <3>1. head' = Append(head, b)
      BY <2>1, <1>3, <1>4 DEF Committed
    <3>2. /\ head' \in Seq(Blocks) /\ Disjoint(head')
          /\ \A t : t \in TrxsIn(Range(head')) <=> t \in TrxsIn(Range(head)) \/ t \in b.trxs
      BY <3>1, <1>3, <1>4, AppendFresh
    <3>3. ChainsInv'
      BY <3>2, <2>1, <1>4 DEF Committed, ChainsInv
    <3>4. \A x \in unapplied' : x \in Trx /\ x \notin TrxsIn(Range(head') \cup Range(<<>>))
      <4> TAKE x \in unapplied'
      <4>1. x \in Trx /\ x \notin TrxsIn(Range(head) \cup Range(pending))
        BY <2>1, <1>2 DEF UnappliedOn, Committed
      <4>2. x \notin TrxsIn(Range(head)) /\ x \notin b.trxs
        BY <4>1, <1>3, InPool, InPending
      <4> QED BY <4>1, <4>2, <3>2, InPool, InPending
    <3> QED BY <3>3, <3>4 DEF UnappliedOn
  <2>2. CASE GivenUp
    <3>1. /\ head' = head /\ UNCHANGED chains
          /\ unapplied' = unapplied \cup TrxsIn(Range(pending))
      BY <2>2 DEF GivenUp, abort_block, chains
    <3> QED BY <3>1, <1>1, <1>2, AbortBlock, SameChains
  <2> QED BY <2>1, <2>2, <1>1
<1>6. PendingInv' /\ UnappliedInv' /\ LoopInv'
  BY <1>1, <1>5 DEF PendingInv, PendingOn, UnappliedInv, LoopInv, Looping
<1> QED BY <1>1, <1>5, <1>6, SameRequests DEF PoolInv

-----------------------------------------------------------------------------
(***************************************************************************)
(* The invariant is inductive: it holds at the start, and every step of    *)
(* the pool, the production loop and the block handlers keeps it.          *)
(***************************************************************************)
THEOREM PoolInductive == Spec => []PoolInv
<1>1. Init => PoolInv
  <2> SUFFICES ASSUME Init PROVE PoolInv
    OBVIOUS
  <2>1. <<>> \in Seq(Blocks) /\ Disjoint(<<>>)
    BY DEF Disjoint
  <2>2. ChainsInv
    BY <2>1 DEF Init, ChainsInv
  <2>3. PendingInv /\ LoopInv /\ UnappliedInv /\ now \in Nat
    BY DEF Init, PendingInv, PendingOn, LoopInv, Looping, UnappliedInv, UnappliedOn
  <2>4. RequestsInv
    BY DEF Init, RequestsInv
  <2> QED BY <2>2, <2>3, <2>4 DEF PoolInv
<1>2. PoolInv /\ [Next]_vars => PoolInv'
  <2> SUFFICES ASSUME PoolInv, [Next]_vars PROVE PoolInv'
    OBVIOUS
  <2>1. CASE \E r \in Requests : receive_transaction(r)
    BY <2>1, ReceiveTransactionKeeps
  <2>2. CASE start_block_waits \/ start_block_fails
    BY <2>2, StartBlockEndsKeeps
  <2>3. CASE StartBlock
    BY <2>3, StartBlockKeeps
  <2>4. CASE push_persistent \/ push_unapplied
    BY <2>4, LoopStepKeeps
  <2>5. CASE persistent_done \/ unapplied_done \/ scheduled_done \/ exhausted
    BY <2>5, LoopEndKeeps
  <2>6. CASE push_scheduled
    BY <2>6, PushScheduledKeeps
  <2>7. CASE push_incoming_between \/ push_incoming
    BY <2>7, PushIncomingKeeps
  <2>8. CASE produce_block
    BY <2>8, ProduceBlockKeeps
  <2>9. CASE IncomingBlock
    BY <2>9, IncomingBlockKeeps
  <2>10. CASE Tick
    <3>1. /\ now' = now + 1 /\ UNCHANGED <<head, known, pending, unapplied, phase, todo>>
          /\ incoming' = incoming /\ answered' = answered
      BY <2>10 DEF Tick, chains, queues
    <3>2. ChainsInv' /\ PendingInv' /\ LoopInv' /\ UnappliedInv' /\ now' \in Nat
      BY <3>1 DEF PoolInv, ChainsInv, PendingInv, LoopInv, UnappliedInv
    <3> QED BY <3>1, <3>2, SameRequests DEF PoolInv
  <2>11. CASE UNCHANGED vars
    <3>1. /\ UNCHANGED <<now, head, known, pending, unapplied, phase, todo>>
          /\ incoming' = incoming /\ answered' = answered
      BY <2>11 DEF vars, chains, queues
    <3>2. ChainsInv' /\ PendingInv' /\ LoopInv' /\ UnappliedInv' /\ now' \in Nat
      BY <3>1 DEF PoolInv, ChainsInv, PendingInv, LoopInv, UnappliedInv
    <3> QED BY <3>1, <3>2, SameRequests DEF PoolInv
  <2> QED BY <2>1, <2>2, <2>3, <2>4, <2>5, <2>6, <2>7, <2>8, <2>9, <2>10, <2>11 DEF Next
<1> QED BY <1>1, <1>2, PTL DEF Spec

(***************************************************************************)
(* AppliedOnce: no transaction is applied twice on the node's chain and    *)
(* pending block, no deferred one retired twice, and none that is applied  *)
(* counts as unapplied (record_transaction, push_scheduled_transaction,    *)
(* pop_block, abort_block), for all transactions, forks and bad blocks.    *)
(***************************************************************************)
THEOREM NothingAppliedTwice == Spec => []AppliedOnce
<1>1. PoolInv => AppliedOnce
  <2> SUFFICES ASSUME PoolInv PROVE AppliedOnce
    OBVIOUS
  <2>1. head \in Seq(Blocks) /\ Disjoint(head) /\ PendingOn(head, pending)
    BY DEF PoolInv, ChainsInv, PendingInv
  <2>2. Disjoint(head \o pending)
    <3>1. CASE pending = <<>>
      <4>1. head \o pending = head
        BY <3>1, <2>1
      <4> QED BY <4>1, <2>1
    <3>2. CASE pending # <<>>
      <4>1. PICK b \in Blocks : pending = <<b>> /\ Fresh(head, b)
        BY <3>2, <2>1 DEF PendingOn
      <4>2. head \o pending = Append(head, b)
        BY <4>1, <2>1
      <4> QED BY <4>1, <4>2, <2>1, AppendFresh
    <3> QED BY <3>1, <3>2
  <2>3. unapplied \cap InChain = {}
    BY DEF PoolInv, UnappliedInv, UnappliedOn, InChain
  <2> QED BY <2>2, <2>3 DEF AppliedOnce, Disjoint
<1> QED BY <1>1, PoolInductive, PTL

(***************************************************************************)
(* AnsweredOnce: a call of on_incoming_transaction_async has one response  *)
(* or waits in the queue once, however often start_block sends it back.    *)
(***************************************************************************)
THEOREM NothingAnsweredTwice == Spec => []AnsweredOnce
<1>1. PoolInv => AnsweredOnce
  <2> SUFFICES ASSUME PoolInv, NEW r \in Requests
               PROVE  answered[r] + Cardinality({i \in DOMAIN incoming : incoming[i] = r}) <= 1
    BY DEF AnsweredOnce
  <2> DEFINE S == {i \in DOMAIN incoming : incoming[i] = r}
  <2>1. /\ DOMAIN incoming = 1..Len(incoming) /\ answered[r] \in {0, 1}
        /\ \A i, j \in 1..Len(incoming) : incoming[i] = incoming[j] => i = j
        /\ \A i \in 1..Len(incoming) : answered[incoming[i]] = 0
    BY DEF PoolInv, RequestsInv
  <2>2. CASE S = {}
    <3>1. Cardinality(S) = 0
      BY <2>2, FS_EmptySet
    <3> QED BY <3>1, <2>1
  <2>3. CASE S # {}
    <3>1. PICK i : i \in S
      BY <2>3
    <3>2. S = {i}
      BY <3>1, <2>1
    <3>3. Cardinality(S) = 1
      BY <3>2, FS_Singleton
    <3>4. answered[r] = 0
      BY <3>1, <2>1
    <3> QED BY <3>3, <3>4
  <2> QED BY <2>2, <2>3
<1> QED BY <1>1, PoolInductive, PTL

LEMMA InHeld ==
    ASSUME NEW t
    PROVE  /\ t \in Held <=> \/ t \in TrxsIn(Range(head)) \/ t \in TrxsIn(Range(pending))
                             \/ t \in unapplied
           /\ t \in Held' <=> \/ t \in TrxsIn(Range(head')) \/ t \in TrxsIn(Range(pending'))
                              \/ t \in unapplied'
<1>1. /\ t \in Held <=> t \in TrxsIn(Range(head) \cup Range(pending)) \/ t \in unapplied
      /\ t \in Held' <=> t \in TrxsIn(Range(head') \cup Range(pending')) \/ t \in unapplied'
  BY DEF Held, InChain
<1> QED BY <1>1, InPool

\* A received block loses only transactions of other received blocks.
LEMMA IncomingLosesNothing ==
    ASSUME PoolInv, IncomingBlock, NEW t \in Held
    PROVE  t \in Held' \/ InReceivedBlock(t)
<1>1. PICK c \in known, x \in Contents :
         on_incoming_block(c, Block(x.trxs, x.retired, now + 1, FALSE, x.bad))
  BY DEF IncomingBlock
<1>2. PICK b \in Blocks :
         /\ Fresh(c, b)
         /\ Adopted(Append(c, b)) \/ Rejected(Append(c, b)) \/ Stored(Append(c, b))
  BY <1>1, IncomingOutcome
<1> DEFINE c1 == Append(c, b)
<1>3. /\ head \in Seq(Blocks) /\ Disjoint(head) /\ head \in known
      /\ c \in Seq(Blocks) /\ Disjoint(c)
  BY DEF PoolInv, ChainsInv
<1>4. c1 \in Seq(Blocks) /\ Disjoint(c1)
  BY <1>2, <1>3, AppendFresh
<1>5. Len(c) \in Nat /\ Len(c1) = Len(c) + 1 /\ \A i \in 1..Len(c) : c1[i] = c[i]
  BY <1>3
<1>6. UnappliedOn(head, <<>>, Aborted)
  BY AbortBlock DEF PoolInv, PendingInv, UnappliedInv, Aborted
<1>7. t \in Aborted \/ t \in TrxsIn(Range(head))
  BY InHeld DEF Aborted
<1>8. \A y \in known : Received(y, t) => InReceivedBlock(t)
  BY DEF Received, InReceivedBlock
<1> HIDE DEF c1
<1>9. CASE Adopted(c1)
  <2>1. \/ t \in AfterSwitch(head, c1, Aborted) \/ t \in TrxsIn(Range(c1))
        \/ Received(head, t)
    BY <1>3, <1>4, <1>6, <1>7, SwitchWorks
  <2>2. head' = c1 /\ unapplied' = AfterSwitch(head, c1, Aborted)
    BY <1>9 DEF Adopted
  <2> QED BY <2>1, <2>2, <1>3, <1>8, InHeld
<1>10. CASE Rejected(c1)
  <2>1. PICK j \in (Common(head, c1) + 1)..Len(c1) :
           head' = head /\ unapplied' = AfterFailure(head, c1, Aborted, j)
    BY <1>10 DEF Rejected
  <2>2. CASE t \in TrxsIn(Range(head))
    BY <2>1, <2>2, InHeld
  <2>3. CASE t \in Aborted
    <3>1. \/ t \in AfterFailure(head, c1, Aborted, j)
          \/ \E i \in 1..(j - 1) : ~ c1[i].own /\ t \in c1[i].trxs
      BY <2>3, <1>3, <1>4, <1>6, SwitchFails
    <3>2. CASE t \in AfterFailure(head, c1, Aborted, j)
      BY <3>2, <2>1, InHeld
    <3>3. CASE \E i \in 1..(j - 1) : ~ c1[i].own /\ t \in c1[i].trxs
      <4>1. PICK i \in 1..(j - 1) : ~ c1[i].own /\ t \in c1[i].trxs
        BY <3>3
      <4>2. i \in 1..Len(c)
        <5>1. Common(head, c1) \in 0..Len(head) /\ Len(head) \in Nat
          BY <1>3, <1>4, CommonIs
        <5>2. PICK k \in Nat : k = Common(head, c1)
          BY <5>1
        <5>3. PICK n \in Nat : n = Len(c)
          BY <1>5
        <5>4. j \in (k + 1)..(n + 1)
          BY <5>2, <5>3, <1>5
        <5> QED BY <5>3, <5>4
      <4>3. Received(c, t)
        BY <4>1, <4>2, <1>3, <1>5, ReceivedAt
      <4> QED BY <4>3, <1>8
    <3> QED BY <3>1, <3>2, <3>3
  <2> QED BY <2>2, <2>3, <1>7
<1>11. CASE Stored(c1)
  BY <1>7, <1>11, InHeld DEF Stored
<1> QED BY <1>2, <1>9, <1>10, <1>11 DEF c1

\* A step that neither applies nor drops anything keeps what is held.
LEMMA OtherLosesNothing ==
    ASSUME PoolInv, ~ Tries, Next, ~ IncomingBlock, NEW t \in Held
    PROVE  t \in Held'
<1>1. phase \in {"idle", "loop"} /\ answered' = answered
  BY DEF Tries
<1>2. CASE UNCHANGED <<head, pending, unapplied>>
  BY <1>2, InHeld
<1>3. CASE head' = head /\ unapplied' = unapplied \cup TrxsIn(Range(pending))
  BY <1>3, InHeld
<1>4. CASE \E r \in Requests : receive_transaction(r)
  <2>1. PICK r \in Requests, result \in AllResults :
           /\ on_incoming_transaction_async(r, result, incoming) /\ head' = head
    BY <1>4 DEF receive_transaction, chains
  <2>2. answered' # [answered EXCEPT ![r] = @ + 1]
    <3>1. answered \in [Requests -> {0, 1}]
      BY DEF PoolInv, RequestsInv
    <3>2. [answered EXCEPT ![r] = @ + 1][r] = answered[r] + 1 /\ answered[r] \in {0, 1}
      BY <3>1
    <3>3. [answered EXCEPT ![r] = @ + 1][r] # answered[r]
      BY <3>2
    <3> QED BY <3>3, <1>1
  <2>3. UNCHANGED <<pending, unapplied>>
    BY <2>1, <2>2 DEF on_incoming_transaction_async, TryRequest, Answer, push_transaction
  <2> QED BY <2>1, <2>3, <1>2
<1>5. CASE produce_block
  <2>1. Committed \/ GivenUp
    BY <1>5, ProduceOutcome
  <2>2. CASE Committed
    <3>1. PICK b \in Blocks : pending = <<b>> /\ Fresh(head, b)
      BY <1>5, ProduceOutcome DEF PoolInv, PendingInv, PendingOn
    <3>2. head \in Seq(Blocks) /\ Disjoint(head)
      BY DEF PoolInv, ChainsInv
    <3>3. head' = Append(head, b) /\ unapplied' = unapplied
      BY <2>2, <3>1, <3>2 DEF Committed
    <3>4. t \in TrxsIn(Range(head')) <=> t \in TrxsIn(Range(head)) \/ t \in b.trxs
      BY <3>1, <3>2, <3>3, AppendFresh
    <3> QED BY <3>1, <3>3, <3>4, InHeld, InPending
  <2>3. CASE GivenUp
    BY <2>3, <1>3 DEF GivenUp, abort_block, chains
  <2> QED BY <2>1, <2>2, <2>3
<1>6. CASE start_block_fails
  BY <1>3, <1>6 DEF start_block_fails, abort_block, chains
<1>7. CASE StartBlock
  BY <1>3, <1>7 DEF StartBlock, start_block, chains
<1>8. CASE start_block_waits \/ Tick
  BY <1>2, <1>8 DEF start_block_waits, Tick, chains
<1>9. ~ (\/ push_persistent \/ persistent_done \/ push_unapplied \/ unapplied_done
         \/ push_scheduled \/ push_incoming_between \/ scheduled_done \/ push_incoming
         \/ exhausted)
  BY <1>1 DEF push_persistent, persistent_done, push_unapplied, unapplied_done,
              push_scheduled, push_incoming_between, scheduled_done, push_incoming, exhausted
<1> QED BY <1>4, <1>5, <1>6, <1>7, <1>8, <1>9 DEF Next

(***************************************************************************)
(* NothingLost: building, aborting, committing and switching blocks, also  *)
(* a switch that fails half way, keep every transaction the node holds     *)
(* (abort_block, pop_block, maybe_switch_forks).                           *)
(***************************************************************************)
THEOREM NothingIsLost == Spec => NothingLost
<1>1. PoolInv /\ [Next]_vars =>
         [\A t \in Held : t \in Held' \/ Tries \/ InReceivedBlock(t)]_vars
  <2> SUFFICES ASSUME PoolInv, Next, NEW t \in Held
               PROVE  t \in Held' \/ Tries \/ InReceivedBlock(t)
    OBVIOUS
  <2> QED BY IncomingLosesNothing, OtherLosesNothing
<1> QED BY <1>1, PoolInductive, PTL DEF Spec, NothingLost
=============================================================================
