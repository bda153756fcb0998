-------------------------- MODULE HeaderChainProofs --------------------------
(***************************************************************************)
(* Proofs about HeaderChain, for every set of accounts, every proposal,    *)
(* every confirmation policy and chains of any length.                     *)
(***************************************************************************)
EXTENDS HeaderChain, FiniteSetTheorems, WellFoundedInduction, TLAPS

-----------------------------------------------------------------------------
(***************************************************************************)
(* Arithmetic.                                                             *)
(***************************************************************************)

\* Every nonempty set of naturals has a least element.
LEMMA LeastNat ==
    ASSUME NEW T \in SUBSET Nat, T # {}
    PROVE  \E m \in T : \A k \in T : m <= k
<1> DEFINE R == OpToRel(<, Nat)
<1>1. IsWellFoundedOn(R, Nat)
  BY NatLessThanWellFounded, Zenon
<1>2. \E m \in T : \A k \in T : <<k, m>> \notin R
  <2> HIDE DEF R
  <2> QED BY <1>1, WFMin, Zenon
<1>3. \A k, m \in Nat : <<k, m>> \notin R => m <= k
  BY DEF OpToRel
<1> HIDE DEF R
<1> QED BY <1>2, <1>3

\* get_scheduled_producer never indexes outside a nonempty schedule.
LEMMA SlotIndex ==
    ASSUME NEW n \in Nat \ {0}, NEW r \in Nat \ {0}, NEW slot \in Nat
    PROVE  (slot % (n * r)) \div r + 1 \in 1..n
<1> DEFINE x == slot % (n * r)
<1>0. n * r \in Nat \ {0}
  OBVIOUS
<1>1. x \in Nat /\ x < n * r
  BY <1>0
<1> HIDE DEF x
<1>2. PICK q \in Nat : q = x \div r /\ q * r <= x
  BY <1>1
<1>3. q < n
  <2>1. CASE q >= n
    <3>1. q * r >= n * r
      BY <2>1
    <3> QED BY <3>1, <1>1, <1>2
  <2> QED BY <2>1
<1> QED BY <1>2, <1>3 DEF x

-----------------------------------------------------------------------------
(***************************************************************************)
(* calc_dpos_last_irreversible.                                            *)
(***************************************************************************)

\* The sorted numbers have a k-th one.
LEMMA NthExists ==
    ASSUME NEW irb, IsFiniteSet(DOMAIN irb), irb \in [DOMAIN irb -> Nat],
           NEW n \in Nat, \A p \in DOMAIN irb : irb[p] <= n,
           NEW k \in Nat, k < Cardinality(DOMAIN irb)
    PROVE  \E p \in DOMAIN irb : IsNth(irb, k, irb[p])
<1> DEFINE T == {m \in Nat : Cardinality(AtMost(irb, m)) > k}
<1>1. AtMost(irb, n) = DOMAIN irb
  BY DEF AtMost
<1>2. PICK m \in T : \A i \in T : m <= i
  <2>1. n \in T
    BY <1>1
  <2> QED BY <2>1, LeastNat
<1>3. \A v \in Int : /\ IsFiniteSet(AtMost(irb, v)) /\ IsFiniteSet(Below(irb, v))
                     /\ Cardinality(AtMost(irb, v)) \in Nat
                     /\ Cardinality(Below(irb, v)) \in Nat
  <2> TAKE v \in Int
  <2>1. AtMost(irb, v) \subseteq DOMAIN irb /\ Below(irb, v) \subseteq DOMAIN irb
    BY DEF AtMost, Below
  <2> QED BY <2>1, FS_Subset, FS_CardinalityType
<1>4. Below(irb, m) = AtMost(irb, m - 1)
  BY <1>2 DEF Below, AtMost
<1>5. Cardinality(Below(irb, m)) <= k
  <2>1. CASE m = 0
    <3>1. Below(irb, m) = {}
      BY <2>1 DEF Below
    <3> QED BY <3>1, FS_EmptySet
  <2>2. CASE m > 0
    <3>1. m - 1 \in Nat /\ m - 1 \notin T
      BY <2>2, <1>2
    <3> QED BY <3>1, <1>3, <1>4
  <2> QED BY <2>1, <2>2, <1>2
<1>6. Cardinality(AtMost(irb, m)) > k
  BY <1>2
<1>7. AtMost(irb, m) # Below(irb, m)
  BY <1>3, <1>5, <1>6, <1>2
<1>8. PICK p \in DOMAIN irb : irb[p] = m
  BY <1>7, <1>2 DEF AtMost, Below
<1> QED BY <1>5, <1>6, <1>8 DEF IsNth

\* Under these conditions the number calculated is an implied number, and the
\* one at index (size - 1) / 3.
LEMMA CalcIsNth ==
    ASSUME NEW irb, IsFiniteSet(DOMAIN irb), irb \in [DOMAIN irb -> Nat],
           NEW n \in Nat, \A p \in DOMAIN irb : irb[p] <= n,
           DOMAIN irb # {}
    PROVE  /\ IsNth(irb, (Cardinality(DOMAIN irb) - 1) \div 3,
                    calc_dpos_last_irreversible(irb))
           /\ calc_dpos_last_irreversible(irb) \in Nat
           /\ calc_dpos_last_irreversible(irb) <= n
<1> DEFINE N == Cardinality(DOMAIN irb)
           k == (N - 1) \div 3
           S == {irb[p] : p \in DOMAIN irb}
<1>1. N \in Nat /\ N # 0
  BY FS_CardinalityType, FS_EmptySet
<1>2. k \in Nat /\ k < N
  BY <1>1
<1>3. \E v \in S : IsNth(irb, k, v)
  <2> HIDE DEF k
  <2> QED BY <1>2, NthExists
<1>4. calc_dpos_last_irreversible(irb) = CHOOSE v \in S : IsNth(irb, k, v)
  BY DEF calc_dpos_last_irreversible
<1> HIDE DEF k, N
<1>5. calc_dpos_last_irreversible(irb) \in S /\ IsNth(irb, k, calc_dpos_last_irreversible(irb))
  BY <1>3, <1>4
<1> QED BY <1>5 DEF k, N

\* It does not decrease when implied numbers grow.
LEMMA CalcMonotone ==
    ASSUME NEW f, NEW g, IsFiniteSet(DOMAIN f), DOMAIN f = DOMAIN g, DOMAIN f # {},
           f \in [DOMAIN f -> Nat], g \in [DOMAIN g -> Nat],
           \A p \in DOMAIN f : f[p] <= g[p],
           NEW n \in Nat, \A p \in DOMAIN g : g[p] <= n
    PROVE  calc_dpos_last_irreversible(f) <= calc_dpos_last_irreversible(g)
<1> DEFINE k == (Cardinality(DOMAIN f) - 1) \div 3
           v == calc_dpos_last_irreversible(f)
           w == calc_dpos_last_irreversible(g)
<1>1. \A p \in DOMAIN f : f[p] <= n
  OBVIOUS
<1>2. IsNth(f, k, v) /\ v \in Nat
  BY <1>1, CalcIsNth
<1>3. IsNth(g, k, w) /\ w \in Nat
  BY CalcIsNth
<1> HIDE DEF k, v, w
<1>4. SUFFICES ASSUME w < v PROVE FALSE
  BY <1>2, <1>3 DEF v, w
<1>5. AtMost(g, w) \subseteq Below(f, v)
  BY <1>2, <1>3, <1>4 DEF AtMost, Below
<1>6. Below(f, v) \subseteq DOMAIN f
  BY DEF Below
<1>7. IsFiniteSet(Below(f, v)) /\ Cardinality(Below(f, v)) \in Nat
  BY <1>6, FS_Subset, FS_CardinalityType
<1>8. /\ Cardinality(AtMost(g, w)) <= Cardinality(Below(f, v))
      /\ Cardinality(AtMost(g, w)) \in Nat
  BY <1>5, <1>7, FS_Subset, FS_CardinalityType
<1>9. k \in Int
  <2>1. Cardinality(DOMAIN f) \in Nat
    BY FS_CardinalityType
  <2> QED BY <2>1 DEF k
<1> QED BY <1>2, <1>3, <1>7, <1>8, <1>9 DEF IsNth
-----------------------------------------------------------------------------
(***************************************************************************)
(* The operations on header states, field by field.                        *)
(***************************************************************************)

\* The producer of a slot belongs to the active schedule.
LEMMA ScheduledProducer ==
    ASSUME NEW hs, IsHeaderState(hs), hs.active_schedule.producers # <<>>,
           NEW when \in Nat
    PROVE  /\ get_scheduled_producer(hs, when) \in Names(hs.active_schedule)
           /\ get_scheduled_producer(hs, when) \in Accounts
<1> DEFINE producers == hs.active_schedule.producers
           n == Len(producers)
           i == (when % (n * producer_repetitions)) \div producer_repetitions + 1
<1>1. producers \in Seq(Accounts) /\ n \in Nat \ {0}
  BY DEF IsHeaderState, Schedules
<1>2. i \in 1..n
  BY <1>1, SlotIndex, RepetitionsAssumption
<1>3. get_scheduled_producer(hs, when) = producers[i]
  BY DEF get_scheduled_producer
<1> HIDE DEF i
<1> QED BY <1>1, <1>2, <1>3 DEF Names

\* generate_next: the fields of the template.
LEMMA GenerateNextFields ==
    ASSUME NEW hs, DOMAIN hs = HeaderFields, NEW when
    PROVE  LET t == generate_next(hs, when)
               producer == get_scheduled_producer(hs, when)
           IN  /\ DOMAIN t = HeaderFields
               /\ t.block_num = hs.block_num + 1
               /\ t.timestamp = when
               /\ t.producer = producer
               /\ t.confirmed = 1
               /\ t.schedule_version = hs.active_schedule.version
               /\ t.new_producers = <<>>
               /\ t.dpos_proposed_irreversible_blocknum = hs.dpos_proposed_irreversible_blocknum
               /\ t.dpos_irreversible_blocknum =
                     calc_dpos_last_irreversible(t.producer_to_last_implied_irb)
               /\ t.pending_schedule_lib_num = hs.pending_schedule_lib_num
               /\ t.pending_schedule = hs.pending_schedule
               /\ t.active_schedule = hs.active_schedule
               /\ t.producer_to_last_produced =
                     Put(hs.producer_to_last_produced, producer, hs.block_num + 1)
               /\ t.producer_to_last_implied_irb =
                     Put(hs.producer_to_last_implied_irb, producer,
                         hs.dpos_proposed_irreversible_blocknum)
               /\ t.confirm_count = GrowConfirmCount(hs.confirm_count,
                     required_confs(Len(hs.active_schedule.producers)))
  BY DEF generate_next, HeaderFields

\* A map to block numbers stays one when an account's number is put into it.
LEMMA PutType ==
    ASSUME NEW f, IsBlockNums(f), NEW p \in Accounts, NEW v \in Nat
    PROVE  /\ IsBlockNums(Put(f, p, v))
           /\ DOMAIN Put(f, p, v) = DOMAIN f \cup {p}
           /\ Put(f, p, v)[p] = v
           /\ \A x \in DOMAIN f : x # p => Put(f, p, v)[x] = f[x]
  BY DEF IsBlockNums, Put

\* confirm_count keeps its type and grows by at most one entry.
LEMMA GrowType ==
    ASSUME NEW cc \in Seq(Nat), NEW r \in Nat
    PROVE  /\ GrowConfirmCount(cc, r) \in Seq(Nat)
           /\ Len(GrowConfirmCount(cc, r)) <= Len(cc) + 1
<1>1. CASE Len(cc) < maximum_tracked_dpos_confirmations
  BY <1>1 DEF GrowConfirmCount
<1>2. CASE ~ (Len(cc) < maximum_tracked_dpos_confirmations)
  <2>1. cc # <<>>
    BY <1>2, TrackedAssumption
  <2>2. Tail(cc) \in Seq(Nat) /\ Len(Tail(cc)) = Len(cc) - 1
    BY <2>1
  <2> QED BY <1>2, <2>2 DEF GrowConfirmCount
<1> QED BY <1>1, <1>2

LEMMA RequiredConfsType ==
    ASSUME NEW n \in Nat
    PROVE  required_confs(n) \in Nat
<1>1. (n * 2) \div 3 \in Nat
  OBVIOUS
<1> QED BY <1>1 DEF required_confs

\* What generate_next guarantees: the template is a header state, its implied
\* numbers stay behind the proposed block, and so does its irreversible one.
LEMMA GenerateNext ==
    ASSUME NEW hs, HeaderInv(hs), NEW when \in Nat
    PROVE  LET t == generate_next(hs, when)
           IN  /\ IsHeaderState(t)
               /\ ConfirmWindow(t)
               /\ ImpliedBehindProposed(t)
               /\ DOMAIN t.producer_to_last_implied_irb =
                     IF AtGenesis(hs) THEN {system_account} ELSE Names(t.active_schedule)
<1> DEFINE t == generate_next(hs, when)
           producer == get_scheduled_producer(hs, when)
           prop == hs.dpos_proposed_irreversible_blocknum
           irb == hs.producer_to_last_implied_irb
           irb2 == Put(irb, producer, prop)
<1>0. IsHeaderState(hs) /\ DOMAIN hs = HeaderFields
  BY DEF HeaderInv, IsHeaderState
<1>1. producer \in Names(hs.active_schedule) /\ producer \in Accounts
  BY <1>0, ScheduledProducer DEF HeaderInv
<1>2. /\ IsBlockNums(irb2) /\ DOMAIN irb2 = DOMAIN irb \cup {producer}
      /\ \A x \in DOMAIN irb2 : irb2[x] <= prop
  <2>1. IsBlockNums(irb) /\ prop \in Nat /\ \A x \in DOMAIN irb : irb[x] <= prop
    BY <1>0 DEF IsHeaderState, HeaderInv, ImpliedBehindProposed
  <2> HIDE DEF producer, prop, irb
  <2> QED BY <2>1, <1>1, PutType
<1>3. /\ calc_dpos_last_irreversible(irb2) \in Nat
      /\ calc_dpos_last_irreversible(irb2) <= prop
  <2>1. prop \in Nat
    BY <1>0 DEF IsHeaderState
  <2>2. IsFiniteSet(DOMAIN irb2) /\ irb2 \in [DOMAIN irb2 -> Nat] /\ DOMAIN irb2 # {}
    <3>1. DOMAIN irb2 \subseteq Accounts /\ irb2 \in [DOMAIN irb2 -> Nat]
      BY <1>2 DEF IsBlockNums
    <3> HIDE DEF irb2, producer
    <3> QED BY <3>1, <1>2, AccountsAssumption, FS_Subset
  <2> HIDE DEF irb2, prop
  <2> QED BY <2>1, <2>2, <1>2, CalcIsNth
<1>4. IsBlockNums(Put(hs.producer_to_last_produced, producer, hs.block_num + 1))
  <2>1. IsBlockNums(hs.producer_to_last_produced) /\ hs.block_num + 1 \in Nat
    BY <1>0 DEF IsHeaderState
  <2> QED BY <2>1, <1>1, PutType
<1>5. LET cc == GrowConfirmCount(hs.confirm_count,
                    required_confs(Len(hs.active_schedule.producers)))
      IN  cc \in Seq(Nat) /\ Len(cc) <= Len(hs.confirm_count) + 1
  <2>1. hs.confirm_count \in Seq(Nat) /\ Len(hs.active_schedule.producers) \in Nat
    BY <1>0 DEF IsHeaderState, Schedules
  <2>2. required_confs(Len(hs.active_schedule.producers)) \in Nat
    BY <2>1, RequiredConfsType
  <2> QED BY <2>1, <2>2, GrowType
<1> HIDE DEF t, producer, prop, irb, irb2
<1>6. /\ DOMAIN t = HeaderFields
      /\ t.block_num = hs.block_num + 1
      /\ t.timestamp = when
      /\ t.producer = producer
      /\ t.confirmed = 1
      /\ t.schedule_version = hs.active_schedule.version
      /\ t.new_producers = <<>>
      /\ t.dpos_proposed_irreversible_blocknum = prop
      /\ t.dpos_irreversible_blocknum = calc_dpos_last_irreversible(irb2)
      /\ t.pending_schedule_lib_num = hs.pending_schedule_lib_num
      /\ t.pending_schedule = hs.pending_schedule
      /\ t.active_schedule = hs.active_schedule
      /\ t.producer_to_last_produced =
            Put(hs.producer_to_last_produced, producer, hs.block_num + 1)
      /\ t.producer_to_last_implied_irb = irb2
      /\ t.confirm_count = GrowConfirmCount(hs.confirm_count,
            required_confs(Len(hs.active_schedule.producers)))
  BY <1>0, GenerateNextFields DEF t, producer, prop, irb, irb2
<1>7. IsHeaderState(t)
  <2>1. /\ t.block_num \in Nat \ {0}
        /\ t.confirmed \in Nat
        /\ t.dpos_irreversible_blocknum \in Nat
        /\ t.schedule_version \in Nat
    <3>1. hs.block_num \in Nat \ {0} /\ hs.active_schedule.version \in Nat
      BY <1>0 DEF IsHeaderState, Schedules
    <3> QED BY <3>1, <1>3, <1>6
  <2>2. t.producer \in Accounts \cup {NoName} /\ t.new_producers \in Seq(Schedules)
    BY <1>1, <1>6
  <2>3. t.timestamp \in Nat /\ t.confirm_count \in Seq(Nat)
    BY <1>5, <1>6
  <2>4. /\ IsBlockNums(t.producer_to_last_produced)
        /\ IsBlockNums(t.producer_to_last_implied_irb)
    BY <1>2, <1>4, <1>6
  <2>5. /\ t.dpos_proposed_irreversible_blocknum \in Nat
        /\ t.pending_schedule_lib_num \in Nat
        /\ t.pending_schedule \in Schedules
        /\ t.active_schedule \in Schedules
    BY <1>0, <1>6 DEF IsHeaderState, prop
  <2> QED BY <1>6, <2>1, <2>2, <2>3, <2>4, <2>5 DEF IsHeaderState
<1>8. ConfirmWindow(t)
  <2>1. prop + Len(hs.confirm_count) <= hs.block_num
    BY DEF HeaderInv, ConfirmWindow, prop
  <2>2. /\ prop \in Nat /\ hs.block_num \in Nat
        /\ hs.confirm_count \in Seq(Nat) /\ t.confirm_count \in Seq(Nat)
    BY <1>0, <1>7 DEF IsHeaderState, prop
  <2>3. Len(hs.confirm_count) \in Nat /\ Len(t.confirm_count) \in Nat
    BY <2>2
  <2> QED BY <2>1, <2>2, <2>3, <1>5, <1>6 DEF ConfirmWindow
<1>9. ImpliedBehindProposed(t)
  BY <1>2, <1>3, <1>6 DEF ImpliedBehindProposed
<1>10. DOMAIN irb2 = IF AtGenesis(hs) THEN {system_account} ELSE Names(t.active_schedule)
  <2>1. CASE AtGenesis(hs)
    <3>1. DOMAIN irb = {} /\ Names(hs.active_schedule) = {system_account}
      BY <2>1 DEF AtGenesis, genheader, irb, Names
    <3> QED BY <3>1, <2>1, <1>1, <1>2
  <2>2. CASE ~ AtGenesis(hs)
    <3>1. DOMAIN irb = Names(hs.active_schedule)
      BY <2>2 DEF HeaderInv, ScheduleInForce, irb
    <3> QED BY <3>1, <2>2, <1>1, <1>2, <1>6
  <2> QED BY <2>1, <2>2
<1> QED BY <1>6, <1>7, <1>8, <1>9, <1>10 DEF t
\* The walk of set_confirmed has a newest hit: the CHOOSE of set_confirmed
\* denotes it.
LEMMA NewestHit ==
    ASSUME NEW n \in Nat, NEW hits \in SUBSET (1..n), hits # {}
    PROVE  (CHOOSE i \in hits : \A j \in hits : j <= i) \in 1..n
<1> DEFINE T == {n - i : i \in hits}
<1>1. T \in SUBSET Nat /\ T # {}
  <2>1. \A i \in hits : n - i \in Nat
    OBVIOUS
  <2>2. PICK i \in hits : TRUE
    OBVIOUS
  <2>3. n - i \in T
    BY <2>2
  <2> QED BY <2>1, <2>3
<1>2. PICK m \in T : \A k \in T : m <= k
  BY <1>1, LeastNat
<1>3. PICK i \in hits : m = n - i
  BY <1>2
<1>4. \A j \in hits : j <= i
  <2> TAKE j \in hits
  <2>1. n - j \in T
    OBVIOUS
  <2>2. n - i <= n - j
    BY <2>1, <1>2, <1>3
  <2> QED BY <2>2
<1> QED BY <1>4

\* set_confirmed touches three fields; the proposed number never decreases
\* and stays below the blocks still tracked.
LEMMA SetConfirmed ==
    ASSUME NEW t, IsHeaderState(t), ConfirmWindow(t), NEW confirmed \in Nat
    PROVE  LET c == set_confirmed(t, confirmed)
           IN  /\ DOMAIN c = HeaderFields
               /\ \A f \in HeaderFields \ {"confirmed", "confirm_count",
                                             "dpos_proposed_irreversible_blocknum"} :
                     c[f] = t[f]
               /\ c.confirmed = confirmed
               /\ c.confirm_count \in Seq(Nat)
               /\ Len(c.confirm_count) <= Len(t.confirm_count)
               /\ c.dpos_proposed_irreversible_blocknum \in Nat
               /\ c.dpos_proposed_irreversible_blocknum >=
                     t.dpos_proposed_irreversible_blocknum
               /\ c.dpos_proposed_irreversible_blocknum + Len(c.confirm_count)
                     <= t.block_num
<1> DEFINE cc == t.confirm_count
           n == Len(cc)
           hits == Hits(cc, confirmed)
           hit == CHOOSE i \in hits : \A j \in hits : j <= i
           prop == t.dpos_proposed_irreversible_blocknum
           rest == [i \in 1..(n - hit) |-> Dec8(cc[hit + i])]
           walked == [i \in 1..n |->
                IF i >= Oldest(cc, confirmed) THEN Dec8(cc[i]) ELSE cc[i]]
           c == set_confirmed(t, confirmed)
<1>1. /\ DOMAIN t = HeaderFields /\ cc \in Seq(Nat) /\ n \in Nat
      /\ prop \in Nat /\ t.block_num \in Nat /\ prop + n <= t.block_num
  <2>1. DOMAIN t = HeaderFields /\ cc \in Seq(Nat) /\ prop \in Nat /\ t.block_num \in Nat
    BY DEF IsHeaderState
  <2>2. prop + n <= t.block_num
    BY DEF ConfirmWindow
  <2> HIDE DEF cc, prop
  <2> QED BY <2>1, <2>2
<1>2. \A x \in Nat : Dec8(x) \in Nat
  BY DEF Dec8
<1>3. hits \in SUBSET (1..n)
  <2>1. Oldest(cc, confirmed) \in Nat \ {0}
    <3> HIDE DEF cc, n
    <3>1. Len(cc) \in Nat
      BY <1>1 DEF n
    <3> QED BY <3>1 DEF Oldest
  <2> HIDE DEF cc
  <2> QED BY <2>1, <1>1 DEF Hits
<1>4. hits # {} => hit \in 1..n
  <2> HIDE DEF hits, n
  <2> QED BY <1>1, <1>3, NewestHit
<1>5. IF hits = {}
      THEN c = [t EXCEPT !.confirmed = confirmed, !.confirm_count = walked]
      ELSE c = [t EXCEPT !.confirmed = confirmed,
                         !.dpos_proposed_irreversible_blocknum = t.block_num - (n - hit),
                         !.confirm_count = rest]
  BY DEF set_confirmed
<1> HIDE DEF hit, hits, c
<1>6. CASE hits = {}
  <2>1. walked \in Seq(Nat) /\ Len(walked) = n
    <3> HIDE DEF cc, n
    <3>1. \A i \in 1..n : cc[i] \in Nat
      BY <1>1 DEF n
    <3>2. \A i \in 1..n : walked[i] \in Nat
      BY <3>1, <1>2
    <3> HIDE DEF walked
    <3>3. walked \in [1..n -> Nat]
      BY <3>2 DEF walked
    <3> QED BY <3>3, <1>1
  <2> HIDE DEF walked, n
  <2>2. /\ DOMAIN c = HeaderFields
        /\ \A f \in HeaderFields \ {"confirmed", "confirm_count"} : c[f] = t[f]
        /\ c.confirmed = confirmed /\ c.confirm_count = walked
    BY <1>1, <1>5, <1>6 DEF HeaderFields
  <2>3. c.dpos_proposed_irreversible_blocknum = prop
    BY <2>2 DEF HeaderFields
  <2> HIDE DEF prop
  <2>4. prop >= prop /\ n <= n
    BY <1>1
  <2> QED BY <1>1, <2>1, <2>2, <2>3, <2>4 DEF c, prop, n
<1>7. CASE hits # {}
  <2>0. hit \in 1..n
    BY <1>4, <1>7
  <2>1. rest \in Seq(Nat) /\ Len(rest) = n - hit
    <3> HIDE DEF cc, n
    <3>1. n - hit \in Nat
      BY <2>0, <1>1
    <3>2. \A i \in 1..(n - hit) : rest[i] \in Nat
      <4> TAKE i \in 1..(n - hit)
      <4>1. hit + i \in 1..n
        BY <2>0, <1>1
      <4>2. cc[hit + i] \in Nat
        BY <4>1, <1>1 DEF n
      <4> QED BY <4>2, <1>2
    <3> HIDE DEF rest
    <3>3. rest \in [1..(n - hit) -> Nat]
      BY <3>2 DEF rest
    <3> QED BY <3>1, <3>3
  <2> HIDE DEF rest, n
  <2>2. /\ DOMAIN c = HeaderFields
        /\ \A f \in HeaderFields \ {"confirmed", "confirm_count",
                                      "dpos_proposed_irreversible_blocknum"} : c[f] = t[f]
        /\ c.confirmed = confirmed /\ c.confirm_count = rest
        /\ c.dpos_proposed_irreversible_blocknum = t.block_num - (n - hit)
    BY <1>1, <1>5, <1>7 DEF HeaderFields
  <2> HIDE DEF prop
  <2>3. /\ t.block_num - (n - hit) \in Nat /\ t.block_num - (n - hit) >= prop
        /\ t.block_num - (n - hit) + (n - hit) <= t.block_num /\ n - hit <= n
    BY <1>1, <2>0
  <2> QED BY <2>1, <2>2, <2>3 DEF c, prop, n
<1> QED BY <1>6, <1>7

\* A map carried over to a new set of producers.
LEMMA CarryType ==
    ASSUME NEW f, IsBlockNums(f), NEW names \in SUBSET Accounts,
           NEW default \in Nat, NEW bound \in Nat, default <= bound,
           \A p \in DOMAIN f : f[p] <= bound
    PROVE  /\ IsBlockNums(Carry(f, names, default))
           /\ DOMAIN Carry(f, names, default) = names
           /\ \A p \in names : Carry(f, names, default)[p] <= bound
  BY DEF IsBlockNums, Carry

\* A map carried over to the producers it already has is unchanged.
LEMMA CarrySame ==
    ASSUME NEW f, IsBlockNums(f), NEW default
    PROVE  Carry(f, DOMAIN f, default) = f
  BY DEF IsBlockNums, Carry

\* maybe_promote_pending: the fields it changes when it promotes.
LEMMA PromoteFields ==
    ASSUME NEW c, DOMAIN c = HeaderFields, CanPromote(c)
    PROVE  LET m == maybe_promote_pending(c)
               names == Names(c.pending_schedule)
               lib == c.dpos_irreversible_blocknum
           IN  /\ DOMAIN m = HeaderFields
               /\ \A f \in HeaderFields \ {"active_schedule", "pending_schedule",
                        "producer_to_last_produced", "producer_to_last_implied_irb"} :
                     m[f] = c[f]
               /\ m.active_schedule = c.pending_schedule
               /\ m.pending_schedule = [c.pending_schedule EXCEPT !.producers = <<>>]
               /\ m.producer_to_last_produced =
                     Put(Carry(c.producer_to_last_produced, names, lib),
                         c.producer, c.block_num)
               /\ m.producer_to_last_implied_irb =
                     Carry(c.producer_to_last_implied_irb, names, lib)
  BY DEF maybe_promote_pending, HeaderFields

\* A promoted header state is one, and its implied numbers are those of the
\* schedule that just became active.
LEMMA Promote ==
    ASSUME NEW c, IsHeaderState(c), ConfirmWindow(c), ImpliedBehindProposed(c),
           c.producer \in Accounts, CanPromote(c)
    PROVE  LET m == maybe_promote_pending(c)
           IN  /\ IsHeaderState(m)
               /\ m.active_schedule.producers # <<>>
               /\ ConfirmWindow(m)
               /\ ImpliedBehindProposed(m)
               /\ DOMAIN m.producer_to_last_implied_irb = Names(m.active_schedule)
               /\ m.pending_schedule.producers = <<>>
<1> DEFINE m == maybe_promote_pending(c)
           names == Names(c.pending_schedule)
           lib == c.dpos_irreversible_blocknum
           prop == c.dpos_proposed_irreversible_blocknum
           produced == c.producer_to_last_produced
           irb == c.producer_to_last_implied_irb
<1>0. DOMAIN c = HeaderFields
  BY DEF IsHeaderState
<1>1. c.pending_schedule \in Schedules /\ c.pending_schedule.producers # <<>>
  <2>1. c.pending_schedule \in Schedules
    BY DEF IsHeaderState
  <2> QED BY <2>1 DEF CanPromote
<1>2. names \in SUBSET Accounts
  BY <1>1 DEF Names, Schedules
<1>3. /\ lib \in Nat /\ prop \in Nat /\ c.block_num \in Nat
      /\ IsBlockNums(produced) /\ IsBlockNums(irb)
  BY DEF IsHeaderState
<1>4. lib <= prop /\ \A p \in DOMAIN irb : irb[p] <= prop
  BY DEF ImpliedBehindProposed
<1>5. /\ IsBlockNums(Carry(irb, names, lib))
      /\ DOMAIN Carry(irb, names, lib) = names
      /\ \A p \in names : Carry(irb, names, lib)[p] <= prop
  <2> HIDE DEF irb, names, lib, prop
  <2> QED BY <1>2, <1>3, <1>4, CarryType
<1>6. IsBlockNums(Carry(produced, names, lib))
  <2> HIDE DEF produced, names, lib
  <2> QED BY <1>2, <1>3 DEF Carry, IsBlockNums
<1>7. IsBlockNums(Put(Carry(produced, names, lib), c.producer, c.block_num))
  BY <1>3, <1>6, PutType
<1>8. /\ DOMAIN m = HeaderFields
      /\ \A f \in HeaderFields \ {"active_schedule", "pending_schedule",
               "producer_to_last_produced", "producer_to_last_implied_irb"} :
            m[f] = c[f]
      /\ m.active_schedule = c.pending_schedule
      /\ m.pending_schedule = [c.pending_schedule EXCEPT !.producers = <<>>]
      /\ m.producer_to_last_produced = Put(Carry(produced, names, lib), c.producer, c.block_num)
      /\ m.producer_to_last_implied_irb = Carry(irb, names, lib)
  BY <1>0, PromoteFields
<1>9. m.pending_schedule \in Schedules /\ m.pending_schedule.producers = <<>>
  <2>1. PICK s \in Schedules : s = c.pending_schedule
    BY <1>1
  <2>2. [s EXCEPT !.producers = <<>>] = [version |-> s.version, producers |-> <<>>]
    BY DEF Schedules
  <2>3. s.version \in Nat /\ <<>> \in Seq(Accounts)
    BY DEF Schedules
  <2>4. [version |-> s.version, producers |-> <<>>] \in Schedules
    BY <2>3 DEF Schedules
  <2> QED BY <2>1, <2>2, <2>4, <1>8
<1> HIDE DEF m
<1>10. /\ m.block_num = c.block_num /\ m.timestamp = c.timestamp
       /\ m.producer = c.producer /\ m.confirmed = c.confirmed
       /\ m.schedule_version = c.schedule_version /\ m.new_producers = c.new_producers
       /\ m.dpos_proposed_irreversible_blocknum = prop
       /\ m.dpos_irreversible_blocknum = lib
       /\ m.pending_schedule_lib_num = c.pending_schedule_lib_num
       /\ m.confirm_count = c.confirm_count
  BY <1>8 DEF HeaderFields
<1>11. IsHeaderState(m)
  BY <1>1, <1>5, <1>7, <1>8, <1>9, <1>10 DEF IsHeaderState
<1>12. ConfirmWindow(m)
  BY <1>10 DEF ConfirmWindow
<1>13. ImpliedBehindProposed(m)
  <2> HIDE DEF names, lib, prop, irb
  <2> QED BY <1>4, <1>5, <1>8, <1>10 DEF ImpliedBehindProposed
<1> QED BY <1>1, <1>5, <1>8, <1>9, <1>11, <1>12, <1>13 DEF m
\* What is known of the block c being built on hs, before any promotion.
BeforePromotion(hs, c) ==
    /\ IsHeaderState(c) /\ ConfirmWindow(c) /\ ImpliedBehindProposed(c)
    /\ DOMAIN c.producer_to_last_implied_irb =
          IF AtGenesis(hs) THEN {system_account} ELSE Names(c.active_schedule)
    /\ c.producer \in Accounts
    /\ c.block_num = hs.block_num + 1
    /\ c.active_schedule = hs.active_schedule
    /\ c.pending_schedule = hs.pending_schedule
    /\ c.pending_schedule_lib_num = hs.pending_schedule_lib_num
    /\ c.schedule_version = hs.active_schedule.version
    /\ c.producer_to_last_implied_irb =
          Put(hs.producer_to_last_implied_irb, c.producer,
              hs.dpos_proposed_irreversible_blocknum)
    /\ c.dpos_irreversible_blocknum =
          calc_dpos_last_irreversible(c.producer_to_last_implied_irb)

LEMMA Confirmed ==
    ASSUME NEW hs, HeaderInv(hs), NEW when \in Nat, NEW confirmed \in Nat
    PROVE  BeforePromotion(hs, set_confirmed(generate_next(hs, when), confirmed))
<1> DEFINE t == generate_next(hs, when)
           c == set_confirmed(t, confirmed)
<1>0. DOMAIN hs = HeaderFields /\ IsHeaderState(hs) /\ hs.active_schedule.producers # <<>>
  BY DEF HeaderInv, IsHeaderState
<1>1. /\ IsHeaderState(t) /\ ConfirmWindow(t) /\ ImpliedBehindProposed(t)
      /\ DOMAIN t.producer_to_last_implied_irb =
            IF AtGenesis(hs) THEN {system_account} ELSE Names(t.active_schedule)
  BY GenerateNext
<1>2. /\ t.producer = get_scheduled_producer(hs, when)
      /\ t.block_num = hs.block_num + 1
      /\ t.active_schedule = hs.active_schedule
      /\ t.pending_schedule = hs.pending_schedule
      /\ t.pending_schedule_lib_num = hs.pending_schedule_lib_num
      /\ t.schedule_version = hs.active_schedule.version
      /\ t.producer_to_last_implied_irb =
            Put(hs.producer_to_last_implied_irb, t.producer,
                hs.dpos_proposed_irreversible_blocknum)
      /\ t.dpos_irreversible_blocknum =
            calc_dpos_last_irreversible(t.producer_to_last_implied_irb)
  BY <1>0, GenerateNextFields
<1>3. t.producer \in Accounts
  BY <1>0, <1>2, ScheduledProducer
<1> HIDE DEF t
<1>4. /\ DOMAIN c = HeaderFields
      /\ \A f \in HeaderFields \ {"confirmed", "confirm_count",
                                    "dpos_proposed_irreversible_blocknum"} :
            c[f] = t[f]
      /\ c.confirmed = confirmed
      /\ c.confirm_count \in Seq(Nat)
      /\ c.dpos_proposed_irreversible_blocknum \in Nat
      /\ c.dpos_proposed_irreversible_blocknum >= t.dpos_proposed_irreversible_blocknum
      /\ c.dpos_proposed_irreversible_blocknum + Len(c.confirm_count) <= t.block_num
  BY <1>1, SetConfirmed
<1> HIDE DEF c
<1>5. /\ c.block_num = t.block_num /\ c.timestamp = t.timestamp
      /\ c.producer = t.producer /\ c.schedule_version = t.schedule_version
      /\ c.new_producers = t.new_producers
      /\ c.dpos_irreversible_blocknum = t.dpos_irreversible_blocknum
      /\ c.pending_schedule_lib_num = t.pending_schedule_lib_num
      /\ c.pending_schedule = t.pending_schedule
      /\ c.active_schedule = t.active_schedule
      /\ c.producer_to_last_produced = t.producer_to_last_produced
      /\ c.producer_to_last_implied_irb = t.producer_to_last_implied_irb
  BY <1>4 DEF HeaderFields
<1>6. IsHeaderState(c)
  BY <1>1, <1>4, <1>5 DEF IsHeaderState
<1>7. ConfirmWindow(c)
  BY <1>4, <1>5 DEF ConfirmWindow
<1>8. ImpliedBehindProposed(c)
  <2>1. /\ t.dpos_irreversible_blocknum \in Nat
        /\ t.dpos_proposed_irreversible_blocknum \in Nat
        /\ IsBlockNums(t.producer_to_last_implied_irb)
    BY <1>1 DEF IsHeaderState
  <2>2. \A p \in DOMAIN t.producer_to_last_implied_irb :
           t.producer_to_last_implied_irb[p] \in Nat
    BY <2>1 DEF IsBlockNums
  <2>3. /\ t.dpos_irreversible_blocknum <= t.dpos_proposed_irreversible_blocknum
        /\ \A p \in DOMAIN t.producer_to_last_implied_irb :
              t.producer_to_last_implied_irb[p] <= t.dpos_proposed_irreversible_blocknum
    BY <1>1 DEF ImpliedBehindProposed
  <2> QED BY <1>4, <1>5, <2>1, <2>2, <2>3 DEF ImpliedBehindProposed
<1>9. BeforePromotion(hs, c)
  BY <1>1, <1>2, <1>3, <1>5, <1>6, <1>7, <1>8 DEF BeforePromotion
<1> QED BY <1>9 DEF c, t

\* The genesis block's successor always promotes the initial schedule.
LEMMA GenesisPromotes ==
    ASSUME NEW hs, AtGenesis(hs), NEW c, IsHeaderState(c),
           c.pending_schedule = hs.pending_schedule,
           c.pending_schedule_lib_num = hs.pending_schedule_lib_num
    PROVE  /\ CanPromote(c)
           /\ Names(c.pending_schedule) = {system_account}
           /\ hs.active_schedule = hs.pending_schedule
           /\ hs.active_schedule.version = 0
           /\ hs.dpos_irreversible_blocknum = 0
<1>1. /\ hs.pending_schedule = [version |-> 0, producers |-> <<system_account>>]
      /\ hs.active_schedule = [version |-> 0, producers |-> <<system_account>>]
      /\ hs.pending_schedule_lib_num = 0
      /\ hs.dpos_irreversible_blocknum = 0
  BY DEF AtGenesis, genheader
<1>2. c.dpos_irreversible_blocknum \in Nat
  BY DEF IsHeaderState
<1> QED BY <1>1, <1>2 DEF CanPromote, Names

\* The last irreversible number of a block is not below its parent's, unless
\* the parent changed the schedule.
LEMMA IrreversibleGrows ==
    ASSUME NEW hs, HeaderInv(hs), ~ JustPromoted(hs),
           NEW p \in Accounts,
           NEW irb, irb = Put(hs.producer_to_last_implied_irb, p,
                              hs.dpos_proposed_irreversible_blocknum),
           DOMAIN irb = IF AtGenesis(hs) THEN {system_account} ELSE Names(hs.active_schedule),
           calc_dpos_last_irreversible(irb) \in Nat
    PROVE  calc_dpos_last_irreversible(irb) >= hs.dpos_irreversible_blocknum
<1>1. CASE AtGenesis(hs)
  <2>1. hs.dpos_irreversible_blocknum = 0
    BY <1>1 DEF AtGenesis, genheader
  <2> QED BY <2>1
<1>2. CASE ~ AtGenesis(hs)
  <2> DEFINE f == hs.producer_to_last_implied_irb
             prop == hs.dpos_proposed_irreversible_blocknum
  <2>1. /\ DOMAIN f = Names(hs.active_schedule)
        /\ hs.dpos_irreversible_blocknum = calc_dpos_last_irreversible(f)
    BY <1>2 DEF HeaderInv, ScheduleInForce, IrreversibleIsImplied
  <2>2. /\ IsBlockNums(f) /\ prop \in Nat /\ hs.active_schedule \in Schedules
        /\ hs.active_schedule.producers # <<>>
        /\ \A x \in DOMAIN f : f[x] <= prop
    BY DEF HeaderInv, IsHeaderState, ImpliedBehindProposed
  <2>3. DOMAIN f # {}
    <3>1. 1 \in 1..Len(hs.active_schedule.producers)
      BY <2>2 DEF Schedules
    <3> QED BY <3>1, <2>1 DEF Names
  <2> HIDE DEF f, prop
  <2>4. IsBlockNums(irb) /\ irb[p] = prop /\ \A x \in DOMAIN f : x # p => irb[x] = f[x]
    <3>1. irb = Put(f, p, prop)
      BY DEF f, prop
    <3>2. /\ IsBlockNums(Put(f, p, prop)) /\ Put(f, p, prop)[p] = prop
          /\ \A x \in DOMAIN f : x # p => Put(f, p, prop)[x] = f[x]
      <4>1. IsBlockNums(f) /\ prop \in Nat
        BY <2>2
      <4> QED BY <4>1, PutType, Zenon
    <3> QED BY <3>1, <3>2, Zenon
  <2>5. DOMAIN irb = DOMAIN f
    BY <1>2, <2>1
  <2>6. /\ f \in [DOMAIN f -> Nat] /\ irb \in [DOMAIN irb -> Nat] /\ IsFiniteSet(DOMAIN f)
    <3>1. f \in [DOMAIN f -> Nat] /\ irb \in [DOMAIN irb -> Nat] /\ DOMAIN f \subseteq Accounts
      BY <2>2, <2>4 DEF IsBlockNums
    <3> QED BY <3>1, AccountsAssumption, FS_Subset
  <2>7. \A x \in DOMAIN f : f[x] <= irb[x] /\ irb[x] <= prop
    <3> TAKE x \in DOMAIN f
    <3>1. f[x] \in Nat /\ f[x] <= prop
      BY <2>2, <2>6
    <3>2. irb[x] = prop \/ irb[x] = f[x]
      BY <2>4
    <3> QED BY <3>1, <3>2, <2>2
  <2>8. calc_dpos_last_irreversible(f) <= calc_dpos_last_irreversible(irb)
    BY <2>2, <2>3, <2>5, <2>6, <2>7, CalcMonotone
  <2>9. hs.dpos_irreversible_blocknum \in Nat
    BY DEF HeaderInv, IsHeaderState
  <2> QED BY <2>1, <2>8, <2>9
<1> QED BY <1>1, <1>2
-----------------------------------------------------------------------------
(***************************************************************************)
(* The steps.                                                              *)
(***************************************************************************)

\* A block started on the head satisfies the invariant of pending blocks.
LEMMA StartedBlockInv ==
    ASSUME HeaderInv(head), ProposalInv(gpo, head),
           NEW when \in Nat, NEW confirmed \in Nat
    PROVE  PendingInv(StartedBlock(when, confirmed))
<1> DEFINE c == ConfirmedState(when, confirmed)
           m == maybe_promote_pending(c)
           b == StartedBlock(when, confirmed)
<1>1. /\ IsHeaderState(c) /\ ConfirmWindow(c) /\ ImpliedBehindProposed(c)
      /\ DOMAIN c.producer_to_last_implied_irb =
            IF AtGenesis(head) THEN {system_account} ELSE Names(c.active_schedule)
      /\ c.producer \in Accounts
      /\ c.block_num = head.block_num + 1
      /\ c.active_schedule = head.active_schedule
      /\ c.pending_schedule = head.pending_schedule
      /\ c.pending_schedule_lib_num = head.pending_schedule_lib_num
      /\ c.schedule_version = head.active_schedule.version
      /\ c.producer_to_last_implied_irb =
            Put(head.producer_to_last_implied_irb, c.producer,
                head.dpos_proposed_irreversible_blocknum)
      /\ c.dpos_irreversible_blocknum =
            calc_dpos_last_irreversible(c.producer_to_last_implied_irb)
  <2>1. BeforePromotion(head, c)
    BY Confirmed DEF ConfirmedState
  <2> HIDE DEF c
  <2> QED BY <2>1 DEF BeforePromotion
<1>2. IF PromotesProposed(m, CanPromote(c))
      THEN b = [hs |-> set_new_producers(m, gpo.proposed_schedule), gpo |-> NoProposal]
      ELSE b = [hs |-> m, gpo |-> gpo]
  BY DEF StartedBlock
<1> HIDE DEF c, b
<1>3. JustPromoted(head) \/ BecomesHead(c)
  <2> SUFFICES ASSUME ~ JustPromoted(head) PROVE BecomesHead(c)
    OBVIOUS
  <2>1. c.dpos_irreversible_blocknum \in Nat
    BY <1>1 DEF IsHeaderState
  <2>2. calc_dpos_last_irreversible(c.producer_to_last_implied_irb) >= head.dpos_irreversible_blocknum
    BY <1>1, <2>1, IrreversibleGrows
  <2> QED BY <1>1, <2>2 DEF BecomesHead
<1>4. c.block_num > 1 /\ head.block_num \in Nat
  <2>1. head.block_num \in Nat \ {0}
    BY DEF HeaderInv, IsHeaderState
  <2> QED BY <1>1, <2>1
<1>5. ASSUME CanPromote(c)
      PROVE  /\ b = [hs |-> m, gpo |-> gpo]
             /\ HeaderInv(m) /\ ProposalInv(gpo, m)
             /\ m.block_num = head.block_num + 1
             /\ m.dpos_irreversible_blocknum = c.dpos_irreversible_blocknum
  <2>1. b = [hs |-> m, gpo |-> gpo]
    BY <1>2, <1>5 DEF PromotesProposed
  <2>2. /\ IsHeaderState(m) /\ m.active_schedule.producers # <<>>
        /\ ConfirmWindow(m) /\ ImpliedBehindProposed(m)
        /\ DOMAIN m.producer_to_last_implied_irb = Names(m.active_schedule)
        /\ m.pending_schedule.producers = <<>>
    BY <1>1, <1>5, Promote
  <2>3. /\ m.block_num = c.block_num
        /\ m.schedule_version = c.schedule_version
        /\ m.dpos_irreversible_blocknum = c.dpos_irreversible_blocknum
        /\ m.active_schedule = c.pending_schedule
        /\ m.producer_to_last_implied_irb =
              Carry(c.producer_to_last_implied_irb, Names(c.pending_schedule),
                    c.dpos_irreversible_blocknum)
    <3>1. DOMAIN c = HeaderFields
      BY <1>1 DEF IsHeaderState
    <3> QED BY <3>1, <1>5, PromoteFields DEF HeaderFields
  <2> HIDE DEF m
  <2>4. ScheduleInForce(m)
    BY <2>2 DEF ScheduleInForce
  <2>5. IrreversibleIsImplied(m)
    <3>1. CASE AtGenesis(head)
      <4>1. Names(c.pending_schedule) = DOMAIN c.producer_to_last_implied_irb
        BY <3>1, <1>1, GenesisPromotes
      <4>2. IsBlockNums(c.producer_to_last_implied_irb)
        BY <1>1 DEF IsHeaderState
      <4>3. m.producer_to_last_implied_irb = c.producer_to_last_implied_irb
        BY <4>1, <4>2, <2>3, CarrySame
      <4> QED BY <4>3, <2>3, <1>1 DEF IrreversibleIsImplied
    <3>2. CASE ~ AtGenesis(head)
      <4>1. /\ head.pending_schedule.producers # <<>>
            /\ head.pending_schedule \in Schedules /\ head.active_schedule \in Schedules
        <5>1. head.pending_schedule \in Schedules /\ head.active_schedule \in Schedules
          BY DEF HeaderInv, IsHeaderState
        <5>2. Len(head.pending_schedule.producers) > 0
          BY <1>1, <1>5 DEF CanPromote
        <5> QED BY <5>1, <5>2
      <4>2. head.pending_schedule.version = head.active_schedule.version + 1
        BY <4>1, <3>2 DEF HeaderInv, ScheduleInForce
      <4>3. head.active_schedule.version \in Nat
        BY <4>1 DEF Schedules
      <4>4. JustPromoted(m)
        BY <4>2, <4>3, <2>3, <1>1 DEF JustPromoted
      <4> QED BY <4>4 DEF IrreversibleIsImplied
    <3> QED BY <3>1, <3>2
  <2>6. HeaderInv(m)
    BY <2>2, <2>3, <2>4, <2>5, <1>4 DEF HeaderInv
  <2>7. LastSchedule(m).version = LastSchedule(head).version
    <3>1. LastSchedule(m) = head.pending_schedule
      BY <2>2, <2>3, <1>1 DEF LastSchedule
    <3>2. head.pending_schedule.producers # <<>>
      <4>1. head.pending_schedule \in Schedules
        BY DEF HeaderInv, IsHeaderState
      <4>2. Len(head.pending_schedule.producers) > 0
        BY <1>1, <1>5 DEF CanPromote
      <4> QED BY <4>1, <4>2
    <3> QED BY <3>1, <3>2 DEF LastSchedule
  <2>8. ProposalInv(gpo, m)
    <3>1. gpo \in Proposed
      BY DEF ProposalInv
    <3>2. gpo.proposed_schedule_block_num \in Nat
      BY <3>1 DEF Proposed
    <3> QED BY <3>1, <3>2, <2>3, <2>7, <1>1, <1>4 DEF ProposalInv
  <2> QED BY <2>1, <2>3, <2>6, <2>8, <1>1
<1>6. ASSUME ~ CanPromote(c)
      PROVE  /\ m = c /\ HeaderInv(c) /\ LastSchedule(c) = LastSchedule(head)
             /\ ~ AtGenesis(head) /\ ScheduleInForce(c) /\ IrreversibleIsImplied(c)
  <2>1. m = c
    BY <1>6 DEF maybe_promote_pending
  <2>2. ~ AtGenesis(head)
    BY <1>1, <1>6, GenesisPromotes
  <2>3. ScheduleInForce(c)
    BY <2>2, <1>1 DEF HeaderInv, ScheduleInForce
  <2>4. IrreversibleIsImplied(c)
    BY <1>1 DEF IrreversibleIsImplied
  <2>5. HeaderInv(c)
    BY <2>3, <2>4, <1>1, <1>4 DEF HeaderInv
  <2>6. LastSchedule(c) = LastSchedule(head)
    BY <1>1 DEF LastSchedule
  <2> QED BY <2>1, <2>2, <2>3, <2>4, <2>5, <2>6
<1>7. CASE CanPromote(c)
  <2>1. b.hs = m /\ b.gpo = gpo /\ DOMAIN b = {"hs", "gpo"}
    BY <1>5, <1>7
  <2>2. JustPromoted(head) \/ BecomesHead(m)
    BY <1>3, <1>5, <1>7 DEF BecomesHead
  <2> HIDE DEF m
  <2> QED BY <2>1, <2>2, <1>5, <1>7 DEF PendingInv, b
<1>8. CASE ~ CanPromote(c) /\ ~ PromotesProposed(m, CanPromote(c))
  <2>1. b.hs = c /\ b.gpo = gpo /\ DOMAIN b = {"hs", "gpo"}
    BY <1>2, <1>6, <1>8
  <2>2. ProposalInv(gpo, c)
    <3>1. gpo \in Proposed
      BY DEF ProposalInv
    <3>2. gpo.proposed_schedule_block_num \in Nat
      BY <3>1 DEF Proposed
    <3> QED BY <3>1, <3>2, <1>1, <1>4, <1>6, <1>8 DEF ProposalInv
  <2> QED BY <2>1, <2>2, <1>1, <1>3, <1>6, <1>8 DEF PendingInv, b
<1>9. CASE ~ CanPromote(c) /\ PromotesProposed(m, CanPromote(c))
  <2> DEFINE sched == gpo.proposed_schedule
             s == set_new_producers(c, sched)
  <2>1. b.hs = s /\ b.gpo = NoProposal /\ DOMAIN b = {"hs", "gpo"}
    BY <1>2, <1>6, <1>9
  <2>2. sched \in Schedules
    BY DEF ProposalInv, Proposed
  <2>3. sched.version = head.active_schedule.version + 1
    <3>1. gpo.proposed_schedule_block_num # 0 /\ c.pending_schedule.producers = <<>>
      BY <1>6, <1>9 DEF PromotesProposed
    <3>2. LastSchedule(head) = head.active_schedule
      BY <3>1, <1>1 DEF LastSchedule
    <3> QED BY <3>1, <3>2 DEF ProposalInv
  <2>4. /\ DOMAIN s = HeaderFields
        /\ \A f \in HeaderFields \ {"new_producers", "pending_schedule",
                                      "pending_schedule_lib_num"} : s[f] = c[f]
        /\ s.new_producers = <<sched>> /\ s.pending_schedule = sched
        /\ s.pending_schedule_lib_num = c.block_num
    <3>1. DOMAIN c = HeaderFields
      BY <1>1 DEF IsHeaderState
    <3> QED BY <3>1 DEF set_new_producers, HeaderFields
  <2> HIDE DEF s, sched
  <2>5. /\ s.block_num = c.block_num /\ s.timestamp = c.timestamp
        /\ s.producer = c.producer /\ s.confirmed = c.confirmed
        /\ s.schedule_version = c.schedule_version
        /\ s.dpos_proposed_irreversible_blocknum = c.dpos_proposed_irreversible_blocknum
        /\ s.dpos_irreversible_blocknum = c.dpos_irreversible_blocknum
        /\ s.active_schedule = c.active_schedule
        /\ s.producer_to_last_produced = c.producer_to_last_produced
        /\ s.producer_to_last_implied_irb = c.producer_to_last_implied_irb
        /\ s.confirm_count = c.confirm_count
    BY <2>4 DEF HeaderFields
  <2>6. IsHeaderState(s)
    <3>1. <<sched>> \in Seq(Schedules)
      BY <2>2
    <3> QED BY <3>1, <2>2, <2>4, <2>5, <1>1 DEF IsHeaderState
  <2>7. ConfirmWindow(s) /\ ImpliedBehindProposed(s)
    BY <2>5, <1>1 DEF ConfirmWindow, ImpliedBehindProposed
  <2>8. ScheduleInForce(s)
    BY <2>3, <2>4, <2>5, <1>1, <1>6, <1>9 DEF ScheduleInForce
  <2>9. IrreversibleIsImplied(s)
    BY <2>5, <1>6, <1>9 DEF IrreversibleIsImplied, JustPromoted
  <2>10. HeaderInv(s)
    <3>1. s.active_schedule.producers # <<>>
      BY <2>5, <1>1 DEF HeaderInv
    <3> QED BY <3>1, <2>5, <2>6, <2>7, <2>8, <2>9, <1>4 DEF HeaderInv
  <2>11. ProposalInv(NoProposal, s)
    BY DEF ProposalInv, NoProposal, Proposed, Schedules
  <2>12. JustPromoted(head) \/ BecomesHead(s)
    BY <2>5, <1>3 DEF BecomesHead
  <2> QED BY <2>1, <2>5, <2>10, <2>11, <2>12, <1>1 DEF PendingInv, b
<1> QED BY <1>7, <1>8, <1>9 DEF b
\* The genesis state.
LEMMA InitInv == Init => IInv
<1> SUFFICES ASSUME Init PROVE IInv
  OBVIOUS
<1>1. head = genheader(system_account, 0) /\ gpo = NoProposal /\ pending = <<>>
  BY DEF Init
<1>2. /\ DOMAIN head = HeaderFields
      /\ head.block_num = 1 /\ head.timestamp = 0 /\ head.producer = NoName
      /\ head.confirmed = 1 /\ head.schedule_version = 0 /\ head.new_producers = <<>>
      /\ head.dpos_proposed_irreversible_blocknum = 0
      /\ head.dpos_irreversible_blocknum = 0 /\ head.pending_schedule_lib_num = 0
      /\ head.pending_schedule = [version |-> 0, producers |-> <<system_account>>]
      /\ head.active_schedule = [version |-> 0, producers |-> <<system_account>>]
      /\ head.producer_to_last_produced = [p \in {} |-> 0]
      /\ head.producer_to_last_implied_irb = [p \in {} |-> 0]
      /\ head.confirm_count = <<>>
  BY <1>1 DEF genheader, HeaderFields
<1>3. IsBlockNums([p \in {} |-> 0])
  BY DEF IsBlockNums
<1>4. <<system_account>> \in Seq(Accounts)
  BY AccountsAssumption
<1>5. [version |-> 0, producers |-> <<system_account>>] \in Schedules
  BY <1>4 DEF Schedules
<1>6. IsHeaderState(head)
  BY <1>2, <1>3, <1>5 DEF IsHeaderState
<1>7. HeaderInv(head)
  <2>1. head.active_schedule.producers # <<>>
    BY <1>2, <1>4
  <2>2. ConfirmWindow(head) /\ ImpliedBehindProposed(head)
    BY <1>2 DEF ConfirmWindow, ImpliedBehindProposed
  <2>3. AtGenesis(head)
    BY <1>1, <1>2 DEF AtGenesis
  <2> QED BY <1>6, <2>1, <2>2, <2>3 DEF HeaderInv
<1>8. ProposalInv(gpo, head)
  BY <1>1 DEF ProposalInv, NoProposal, Proposed, Schedules
<1>9. chain \in Seq([producer : Accounts \cup {NoName}, confirmed : Nat, required : Nat])
  BY DEF Init
<1> QED BY <1>1, <1>7, <1>8, <1>9 DEF IInv

\* start_block.
LEMMA StartBlockInv == IInv /\ StartBlock => IInv'
<1> SUFFICES ASSUME IInv, StartBlock PROVE IInv'
  OBVIOUS
<1>1. HeaderInv(head) /\ ProposalInv(gpo, head)
  BY DEF IInv
<1>2. PICK skip \in 0..(MaxSkipped - SkippedSlots) :
         LET when == head.timestamp + 1 + skip
         IN  \E confirmed \in ConfirmChoices(head, get_scheduled_producer(head, when)) \cap (0..max_uint16) :
                start_block(when, confirmed)
  BY DEF StartBlock
<1> DEFINE when == head.timestamp + 1 + skip
<1>3. PICK confirmed \in Nat : start_block(when, confirmed)
  BY <1>2
<1>4. when \in Nat
  <2>1. head.timestamp \in Nat
    BY <1>1 DEF HeaderInv, IsHeaderState
  <2>2. skip \in Nat
    OBVIOUS
  <2> QED BY <2>1, <2>2
<1> HIDE DEF when
<1>5. PICK b : b = StartedBlock(when, confirmed) /\ PendingInv(b)
  BY <1>1, <1>4, StartedBlockInv
<1>6. pending' = <<b>> /\ head' = head /\ gpo' = gpo /\ chain' = chain
  BY <1>3, <1>5 DEF start_block
<1>7. PendingInv(b)'
  BY <1>5, <1>6 DEF PendingInv, BecomesHead
<1>8. pending' = <<pending'[1]>> /\ pending'[1] = b
  BY <1>6
<1>9. PendingInv(pending[1])'
  BY <1>7, <1>8, <1>6 DEF PendingInv, BecomesHead
<1> QED BY <1>6, <1>8, <1>9 DEF IInv

\* set_proposed_producers.
LEMMA SetProposedProducersInv == IInv /\ SetProposedProducers => IInv'
<1> SUFFICES ASSUME IInv, NEW producers \in Proposals, set_proposed_producers(producers)
             PROVE  IInv'
  BY DEF SetProposedProducers
<1> DEFINE g == [proposed_schedule_block_num |-> head.block_num + 1,
                 proposed_schedule |->
                    [version |-> LastSchedule(pending[1].hs).version + 1,
                     producers |-> producers]]
           b == [pending[1] EXCEPT !.gpo = g]
<1>1. pending' = <<b>> /\ head' = head /\ gpo' = gpo /\ chain' = chain /\ pending # <<>>
  BY DEF set_proposed_producers
<1>2. PendingInv(pending[1])
  BY <1>1 DEF IInv
<1>3. /\ DOMAIN b = {"hs", "gpo"} /\ b.hs = pending[1].hs /\ b.gpo = g
  BY <1>2 DEF PendingInv
<1>4. LastSchedule(pending[1].hs) \in Schedules /\ head.block_num \in Nat
  BY <1>2 DEF PendingInv, HeaderInv, IsHeaderState, LastSchedule, IInv
<1>5. ProposalInv(g, pending[1].hs)
  <2>1. producers \in Seq(Accounts)
    BY ProposalsAssumption
  <2>2. LastSchedule(pending[1].hs).version + 1 \in Nat
    BY <1>4 DEF Schedules
  <2>3. g \in Proposed
    BY <2>1, <2>2, <1>4 DEF Proposed, Schedules
  <2>4. pending[1].hs.block_num = head.block_num + 1
    BY <1>2 DEF PendingInv
  <2>5. /\ g.proposed_schedule_block_num = head.block_num + 1
        /\ g.proposed_schedule.version = LastSchedule(pending[1].hs).version + 1
    OBVIOUS
  <2> HIDE DEF g
  <2> QED BY <2>3, <2>4, <2>5, <1>4 DEF ProposalInv
<1> HIDE DEF b, g
<1>6. PendingInv(b)
  BY <1>2, <1>3, <1>5 DEF PendingInv
<1>7. pending' = <<pending'[1]>> /\ pending'[1] = b
  BY <1>1
<1>8. PendingInv(pending[1])'
  BY <1>1, <1>6, <1>7 DEF PendingInv, BecomesHead
<1> QED BY <1>1, <1>7, <1>8 DEF IInv

\* commit_block and abort_block.
LEMMA CommitInv == IInv /\ CommitBlock => IInv'
<1> SUFFICES ASSUME IInv, NEW add \in BOOLEAN, commit_block(add) PROVE IInv'
  BY DEF CommitBlock
<1>1. /\ pending # <<>> /\ pending' = <<>>
      /\ head' = pending[1].hs /\ gpo' = pending[1].gpo
  BY DEF commit_block
<1>2. HeaderInv(pending[1].hs) /\ ProposalInv(pending[1].gpo, pending[1].hs)
  BY <1>1 DEF IInv, PendingInv
<1>3. chain' \in Seq([producer : Accounts \cup {NoName}, confirmed : Nat, required : Nat])
  <2> DEFINE C == [producer : Accounts \cup {NoName}, confirmed : Nat, required : Nat]
             e == [producer |-> pending[1].hs.producer,
                   confirmed |-> pending[1].hs.confirmed,
                   required |-> required_confs(Len(head.active_schedule.producers))]
  <2>1. /\ pending[1].hs.producer \in Accounts \cup {NoName}
        /\ pending[1].hs.confirmed \in Nat
    BY <1>2 DEF HeaderInv, IsHeaderState
  <2>2. Len(head.active_schedule.producers) \in Nat
    BY DEF IInv, HeaderInv, IsHeaderState, Schedules
  <2>3. required_confs(Len(head.active_schedule.producers)) \in Nat
    BY <2>2, RequiredConfsType
  <2>4. e \in C
    BY <2>1, <2>3
  <2>5. chain \in Seq(C) /\ chain' = Append(chain, e)
    BY DEF IInv, commit_block
  <2> HIDE DEF C, e
  <2>6. chain' \in Seq(C)
    BY <2>4, <2>5
  <2> QED BY <2>6 DEF C
<1> QED BY <1>1, <1>2, <1>3 DEF IInv

LEMMA AbortInv == IInv /\ abort_block => IInv'
  BY DEF IInv, abort_block

LEMMA StutterInv == IInv /\ UNCHANGED vars => IInv'
<1> SUFFICES ASSUME IInv, UNCHANGED vars PROVE IInv'
  OBVIOUS
<1>1. head' = head /\ gpo' = gpo /\ pending' = pending /\ chain' = chain
  BY DEF vars
<1>2. PendingInv(pending[1])' <=> PendingInv(pending[1])
  BY <1>1 DEF PendingInv, BecomesHead
<1> QED BY <1>1, <1>2 DEF IInv

-----------------------------------------------------------------------------
(***************************************************************************)
(* The theorems.                                                           *)
(***************************************************************************)

(***************************************************************************)
(* The inductive invariant: every step of block production                 *)
(* (controller_impl::start_block, set_proposed_producers, commit_block,    *)
(* abort_block) keeps the header state of the head and of the pending      *)
(* block consistent, for every schedule, confirmation policy and length.   *)
(***************************************************************************)
THEOREM Inductive == Spec => []IInv
<1>1. IInv /\ [Next]_vars => IInv'
  BY StartBlockInv, SetProposedProducersInv, CommitInv, AbortInv, StutterInv DEF Next
<1> QED BY InitInv, <1>1, PTL DEF Spec

(***************************************************************************)
(* The header state that generate_next, set_confirmed and                  *)
(* maybe_promote_pending compute is always well formed.                    *)
(***************************************************************************)
THEOREM TypeCorrect == Spec => []TypeOK
<1>1. IInv => TypeOK
  BY DEF IInv, TypeOK, HeaderInv, ProposalInv, PendingInv
<1> QED BY Inductive, <1>1, PTL

(***************************************************************************)
(* calc_dpos_last_irreversible never passes the proposed irreversible      *)
(* block of set_confirmed, and that one stays behind every block whose     *)
(* confirmations are still counted.                                        *)
(***************************************************************************)
THEOREM IrreversibleSafe == Spec => []IrreversibleBehindProposed
<1>1. IInv => IrreversibleBehindProposed
  <2> SUFFICES ASSUME IInv PROVE IrreversibleBehindProposed
    OBVIOUS
  <2>1. /\ head.dpos_proposed_irreversible_blocknum \in Nat /\ head.block_num \in Nat
        /\ head.confirm_count \in Seq(Nat)
    BY DEF IInv, HeaderInv, IsHeaderState
  <2>2. Len(head.confirm_count) \in Nat
    BY <2>1
  <2>3. /\ head.dpos_irreversible_blocknum <= head.dpos_proposed_irreversible_blocknum
        /\ head.dpos_proposed_irreversible_blocknum + Len(head.confirm_count) <= head.block_num
    BY DEF IInv, HeaderInv, ImpliedBehindProposed, ConfirmWindow
  <2> QED BY <2>1, <2>2, <2>3 DEF IrreversibleBehindProposed
<1> QED BY Inductive, <1>1, PTL

(***************************************************************************)
(* After any sequence of promotions the thirds that                        *)
(* calc_dpos_last_irreversible counts are thirds of the active schedule.   *)
(***************************************************************************)
THEOREM ThirdsOfActive == Spec => []ImpliedByActive
<1>1. IInv => ImpliedByActive
  BY DEF IInv, HeaderInv, ImpliedByActive, AtGenesis, ScheduleInForce
<1> QED BY Inductive, <1>1, PTL

(***************************************************************************)
(* set_new_producers' assertions hold whenever start_block would promote a *)
(* proposal, so schedule changes can never stop block production.          *)
(***************************************************************************)
THEOREM ProposalsFollow == Spec => []ProposalFollows
<1>1. IInv => ProposalFollows
  BY DEF IInv, ProposalInv, ProposalFollows
<1> QED BY Inductive, <1>1, PTL

(***************************************************************************)
(* The last assert of commit_block can only fail in the block right after  *)
(* a schedule change.                                                      *)
(***************************************************************************)
THEOREM CommitFails == Spec => []CommitFailsOnlyAfterPromotion
<1>1. IInv => CommitFailsOnlyAfterPromotion
  <2> SUFFICES ASSUME IInv, NEW i \in 1..Len(pending)
               PROVE  JustPromoted(head) \/ BecomesHead(pending[i].hs)
    BY DEF CommitFailsOnlyAfterPromotion
  <2>1. CASE pending = <<>>
    BY <2>1
  <2>2. CASE pending = <<pending[1]>> /\ PendingInv(pending[1])
    <3>1. Len(pending) = 1
      BY <2>2
    <3>2. i = 1
      BY <3>1
    <3> QED BY <2>2, <3>2 DEF PendingInv
  <2> QED BY <2>1, <2>2 DEF IInv
<1> QED BY Inductive, <1>1, PTL
=============================================================================
