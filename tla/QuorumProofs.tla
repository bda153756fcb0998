---------------------------- MODULE QuorumProofs ----------------------------
(***************************************************************************)
(* Proofs about the confirmations of HeaderChain: the counters of          *)
(* set_confirmed are exact, a block proposed irreversible has its quorum,  *)
(* and block_header_state::next accepts and recomputes what start_block    *)
(* built.                                                                  *)
(*                                                                         *)
(* The counters can only be exact if no producer confirms a block twice.   *)
(* The check of next prevents that as long as no header makes it wrap      *)
(* (InRange).  It compares with producer_to_last_produced, which           *)
(* promotions rebuild: the invariant says what that map still knows of     *)
(* producers that left the schedule (NotForgotten).                        *)
(***************************************************************************)
EXTENDS HeaderChainProofs, SequenceTheorems

Entry == [producer : Accounts \cup {NoName}, confirmed : Nat, required : Nat]

\* Confirmers of HeaderChain, for any chain ch.
ConfirmersIn(ch, k) ==
    {ch[j].producer : j \in {i \in k..Len(ch) : i - ch[i].confirmed <= k}}

CountsExact(cc, ch) ==
    \A i \in 1..Len(cc) :
        /\ cc[i] > 0
        /\ cc[i] = ch[Len(ch) - Len(cc) + i].required
                      - Cardinality(ConfirmersIn(ch, Len(ch) - Len(cc) + i))

HasQuorum(ch, k) ==
    k > 0 => Cardinality(ConfirmersIn(ch, k)) >= ch[k].required

\* The map knows the last block of every producer it has; a producer it lost
\* has no block above the one that announced the pending schedule, so the
\* default it would get when that schedule is promoted is not too low.
NotForgotten(hs, ch) ==
    \A j \in 2..Len(ch) :
        IF ch[j].producer \in DOMAIN hs.producer_to_last_produced
        THEN j <= hs.producer_to_last_produced[ch[j].producer]
        ELSE \/ hs.pending_schedule.producers = <<>>
             \/ j <= hs.pending_schedule_lib_num

\* CountsInRange of HeaderChain, for any chain ch.
InRange(ch) == \A j \in 1..Len(ch) : ~ Wraps(j, ch[j].confirmed)

Short(sched) == Len(sched.producers) <= max_producers

\* What holds of the header state hs of the last block of chain ch.
TrackInv(hs, ch) ==
    /\ ch \in Seq(Entry) /\ Len(ch) = hs.block_num
    /\ \A j \in 1..Len(ch) : ch[j].required <= 255
    /\ Len(hs.confirm_count) < hs.block_num
    /\ NotForgotten(hs, ch)
    /\ hs.block_num > 1 =>
          Names(hs.active_schedule) \subseteq DOMAIN hs.producer_to_last_produced
    /\ Short(hs.active_schedule) /\ Short(hs.pending_schedule)
    /\ InRange(ch) => /\ CountsExact(hs.confirm_count, ch)
                      /\ HasQuorum(ch, hs.dpos_proposed_irreversible_blocknum)

\* The chain that commits header state hs on the head.
ChainWith(hs) ==
    Append(chain, [producer |-> hs.producer, confirmed |-> hs.confirmed,
                   required |-> required_confs(Len(head.active_schedule.producers))])

\* The pending block is one that start_block built.
Started(hs) ==
    \E when, confirmed \in Nat :
        /\ when > head.timestamp
        /\ NoDoubleConfirm(head, get_scheduled_producer(head, when), confirmed)
        /\ hs = StartedBlock(when, confirmed).hs

QuorumInv ==
    /\ IInv
    /\ TrackInv(head, chain)
    /\ Short(gpo.proposed_schedule)
    /\ pending # <<>> =>
          /\ TrackInv(pending[1].hs, ChainWith(pending[1].hs))
          /\ Short(pending[1].gpo.proposed_schedule)
          /\ Started(pending[1].hs)

-----------------------------------------------------------------------------
(***************************************************************************)
(* Who confirmed a block.                                                  *)
(***************************************************************************)

\* A block adds its producer to the confirmers of itself and of the blocks it
\* confirms, and changes no others.
LEMMA ConfirmersStep ==
    ASSUME NEW ch \in Seq(Entry), NEW e \in Entry, NEW k \in 1..(Len(ch) + 1)
    PROVE  ConfirmersIn(Append(ch, e), k) =
              IF Len(ch) + 1 - e.confirmed <= k
              THEN ConfirmersIn(ch, k) \cup {e.producer} ELSE ConfirmersIn(ch, k)
<1> DEFINE N == Len(ch)
           ch1 == Append(ch, e)
           old == {i \in k..N : i - ch[i].confirmed <= k}
           new == {i \in k..(N + 1) : i - ch1[i].confirmed <= k}
<1>1. /\ N \in Nat /\ Len(ch1) = N + 1 /\ ch1[N + 1] = e
      /\ \A i \in 1..N : ch1[i] = ch[i]
  OBVIOUS
<1>2. e.confirmed \in Nat
  BY DEF Entry
<1>3. /\ ConfirmersIn(ch1, k) = {ch1[j].producer : j \in new}
      /\ ConfirmersIn(ch, k) = {ch[j].producer : j \in old}
  BY <1>1 DEF ConfirmersIn
<1> HIDE DEF ch1, N
<1>4. k \in Nat /\ k >= 1 /\ k <= N + 1
  BY <1>1 DEF N
<1>5. new = IF N + 1 - e.confirmed <= k THEN old \cup {N + 1} ELSE old
  <2>1. \A i \in k..N : ch1[i] = ch[i] /\ i # N + 1 /\ i \in k..(N + 1)
    BY <1>1, <1>4
  <2>2. \A i \in k..(N + 1) : i \in k..N \/ i = N + 1
    BY <1>1, <1>4
  <2>3. N + 1 \in k..(N + 1)
    BY <1>1, <1>4
  <2>4. \A i : i \in new <=> i \in k..(N + 1) /\ i - ch1[i].confirmed <= k
    BY Zenon
  <2>5. \A i : i \in old <=> i \in k..N /\ i - ch[i].confirmed <= k
    BY Zenon
  <2> HIDE DEF old, new
  <2>6. \A i : i \in old => i \in new
    BY <2>1, <2>4, <2>5, Zenon
  <2>7. \A i : i \in new => i \in old \/ i = N + 1
    BY <2>1, <2>2, <2>4, <2>5, Zenon
  <2>8. N + 1 \in new <=> N + 1 - e.confirmed <= k
    <3>1. PICK x : x = N + 1
      OBVIOUS
    <3>2. x \in new <=> x \in k..(N + 1) /\ x - ch1[x].confirmed <= k
      BY <2>4, Zenon
    <3>3. x \in k..(N + 1)
      BY <2>3, <3>1
    <3>4. ch1[x] = e
      BY <1>1, <3>1
    <3>5. x \in new <=> x - e.confirmed <= k
      BY <3>2, <3>3, <3>4, Zenon
    <3> QED BY <3>1, <3>5, <1>1, <1>2, <1>4
  <2>9. CASE N + 1 - e.confirmed <= k
    <3>1. new = old \cup {N + 1}
      BY <2>6, <2>7, <2>8, <2>9, Zenon
    <3> QED BY <2>9, <3>1, Zenon
  <2>10. CASE ~ (N + 1 - e.confirmed <= k)
    <3>1. new = old
      BY <2>6, <2>7, <2>8, <2>10, Zenon
    <3> QED BY <2>10, <3>1, Zenon
  <2> QED BY <2>9, <2>10, Zenon
<1>6. \A j \in old : ch1[j] = ch[j]
  <2>1. \A j \in old : j \in 1..N
    BY <1>1, <1>4
  <2> QED BY <2>1, <1>1
<1> HIDE DEF old, new
<1>7. {ch1[j].producer : j \in old} = {ch[j].producer : j \in old}
  BY <1>6
<1>8. {ch1[j].producer : j \in old \cup {N + 1}} =
         {ch1[j].producer : j \in old} \cup {e.producer}
  BY <1>1
<1> QED BY <1>3, <1>5, <1>7, <1>8 DEF N, ch1

\* They are finitely many.
LEMMA ConfirmersFinite ==
    ASSUME NEW ch \in Seq(Entry), NEW k \in Nat \ {0}
    PROVE  /\ IsFiniteSet(ConfirmersIn(ch, k))
           /\ Cardinality(ConfirmersIn(ch, k)) \in Nat
<1>1. ConfirmersIn(ch, k) \subseteq Accounts \cup {NoName}
  <2>1. \A j \in k..Len(ch) : ch[j] \in Entry
    OBVIOUS
  <2> QED BY <2>1 DEF ConfirmersIn, Entry
<1>2. IsFiniteSet(Accounts \cup {NoName})
  BY AccountsAssumption, FS_Singleton, FS_Union
<1> QED BY <1>1, <1>2, FS_Subset, FS_CardinalityType

\* A quorum is never lost.
LEMMA QuorumStays ==
    ASSUME NEW ch \in Seq(Entry), NEW e \in Entry, NEW k \in Nat, k <= Len(ch),
           HasQuorum(ch, k)
    PROVE  HasQuorum(Append(ch, e), k)
<1> SUFFICES ASSUME k > 0
             PROVE  Cardinality(ConfirmersIn(Append(ch, e), k)) >= Append(ch, e)[k].required
  BY DEF HasQuorum
<1>1. Append(ch, e) \in Seq(Entry) /\ Append(ch, e)[k] = ch[k] /\ ch[k] \in Entry
  OBVIOUS
<1>2. k \in 1..(Len(ch) + 1) /\ k \in Nat \ {0}
  OBVIOUS
<1>3. ConfirmersIn(ch, k) \subseteq ConfirmersIn(Append(ch, e), k)
  BY <1>2, ConfirmersStep
<1>4. /\ IsFiniteSet(ConfirmersIn(Append(ch, e), k))
      /\ Cardinality(ConfirmersIn(Append(ch, e), k)) \in Nat
      /\ Cardinality(ConfirmersIn(ch, k)) \in Nat
  BY <1>1, <1>2, ConfirmersFinite
<1>5. Cardinality(ConfirmersIn(ch, k)) <= Cardinality(ConfirmersIn(Append(ch, e), k))
  BY <1>3, <1>4, FS_Subset
<1>6. Cardinality(ConfirmersIn(ch, k)) >= ch[k].required /\ ch[k].required \in Nat
  BY <1>1 DEF HasQuorum, Entry
<1> QED BY <1>1, <1>4, <1>5, <1>6

-----------------------------------------------------------------------------
(***************************************************************************)
(* The walk of set_confirmed.                                              *)
(***************************************************************************)

\* The walk reaches its end: the newest confirmed + 1 counters are decremented.
WalksOn(c, t, cc, confirmed) ==
    /\ c.dpos_proposed_irreversible_blocknum = t.dpos_proposed_irreversible_blocknum
    /\ c.confirm_count \in Seq(Nat) /\ Len(c.confirm_count) = Len(cc)
    /\ \A i \in 1..Len(cc) : IF i + confirmed >= Len(cc)
          THEN cc[i] # 1 /\ c.confirm_count[i] = cc[i] - 1
          ELSE c.confirm_count[i] = cc[i]

\* It stops at an entry whose counter is one, the newest of those it walks.
StopsAt(c, t, cc, confirmed, hit) ==
    /\ c.dpos_proposed_irreversible_blocknum = t.block_num - (Len(cc) - hit)
    /\ hit + confirmed >= Len(cc) /\ cc[hit] = 1
    /\ c.confirm_count \in Seq(Nat) /\ Len(c.confirm_count) = Len(cc) - hit
    /\ \A i \in 1..(Len(cc) - hit) :
          cc[hit + i] # 1 /\ c.confirm_count[i] = cc[hit + i] - 1

\* A uint8_t counter above zero is decremented without wrapping around.
LEMMA Uint8 == /\ \A x \in Nat : x > 0 /\ x <= 255 => x \in 1..255
               /\ \A x \in 1..255 : Dec8(x) = x - 1 /\ x \in Nat /\ x - 1 \in Nat
<1>1. \A x \in Nat : x > 0 /\ x <= 255 => x \in 1..255
  OBVIOUS
<1>2. \A x \in 1..255 : x \in Nat /\ x - 1 \in Nat
  OBVIOUS
<1>3. \A x \in 1..255 : (x - 1) % 256 = x - 1
  OBVIOUS
<1> QED BY <1>1, <1>2, <1>3, Zenon DEF Dec8

\* These are the only outcomes when no counter can wrap around.
LEMMA Walk ==
    ASSUME NEW t, DOMAIN t = HeaderFields, NEW confirmed \in Nat,
           NEW u \in Seq(Nat), t.confirm_count = u,
           \A i \in 1..Len(u) : u[i] > 0 /\ u[i] <= 255
    PROVE  \/ WalksOn(set_confirmed(t, confirmed), t, u, confirmed)
           \/ \E hit \in 1..Len(u) : StopsAt(set_confirmed(t, confirmed), t, u, confirmed, hit)
<1> DEFINE c == set_confirmed(t, confirmed)
           cc == t.confirm_count
           n == Len(cc)
           old == Oldest(cc, confirmed)
           hits == Hits(cc, confirmed)
           hit == CHOOSE i \in hits : \A j \in hits : j <= i
           rest == [i \in 1..(n - hit) |-> Dec8(cc[hit + i])]
           walked == [i \in 1..n |-> IF i >= old THEN Dec8(cc[i]) ELSE cc[i]]
<1>1. n \in Nat /\ \A i \in 1..n : cc[i] \in 1..255
  <2> HIDE DEF cc
  <2>1. cc \in Seq(Nat) /\ \A i \in 1..Len(cc) : cc[i] > 0 /\ cc[i] <= 255
    BY DEF cc
  <2>2. ASSUME NEW i \in 1..Len(cc) PROVE cc[i] \in 1..255
    <3>1. cc[i] \in Nat /\ cc[i] > 0 /\ cc[i] <= 255
      BY <2>1
    <3> QED BY <3>1, Uint8, Zenon
  <2>3. Len(cc) \in Nat
    BY <2>1
  <2> QED BY <2>2, <2>3
<1>2. \A x \in 1..255 : Dec8(x) = x - 1 /\ x \in Nat /\ x - 1 \in Nat
  BY Uint8, Zenon
<1>3. old \in Nat \ {0} /\ \A i \in 1..n : i >= old <=> i + confirmed >= n
  <2> HIDE DEF cc
  <2> QED BY <1>1 DEF Oldest
<1>4. IF hits = {}
      THEN c = [t EXCEPT !.confirmed = confirmed, !.confirm_count = walked]
      ELSE c = [t EXCEPT !.confirmed = confirmed,
                         !.dpos_proposed_irreversible_blocknum = t.block_num - (n - hit),
                         !.confirm_count = rest]
  BY DEF set_confirmed
<1>5. hits = {i \in old..n : Dec8(cc[i]) = 0}
  BY DEF Hits
<1> HIDE DEF cc, n, old, hits, c
<1>6. hits = {i \in 1..n : i + confirmed >= n /\ cc[i] = 1}
  <2>1. \A i \in old..n : i \in 1..n /\ i >= old
    BY <1>1, <1>3
  <2>2. \A i \in 1..n : i >= old => i \in old..n
    BY <1>1, <1>3
  <2>3. ASSUME NEW i \in 1..n PROVE Dec8(cc[i]) = 0 <=> cc[i] = 1
    <3>1. cc[i] \in 1..255
      BY <1>1
    <3>2. Dec8(cc[i]) = cc[i] - 1
      BY <3>1, <1>2
    <3> QED BY <3>1, <3>2
  <2> QED BY <2>1, <2>2, <2>3, <1>3, <1>5
<1>7. CASE hits = {}
  <2>1. \A i \in 1..n : walked[i] = IF i + confirmed >= n THEN cc[i] - 1 ELSE cc[i]
    BY <1>1, <1>2, <1>3
  <2>2. ASSUME NEW i \in 1..n PROVE walked[i] \in Nat
    <3>1. cc[i] \in 1..255
      BY <1>1
    <3>2. cc[i] \in Nat /\ cc[i] - 1 \in Nat
      BY <3>1, <1>2, Zenon
    <3>3. walked[i] = cc[i] - 1 \/ walked[i] = cc[i]
      BY <2>1
    <3> HIDE DEF walked
    <3> QED BY <3>2, <3>3, Zenon
  <2>3. walked \in Seq(Nat) /\ Len(walked) = n
    <3> HIDE DEF walked
    <3>1. walked \in [1..n -> Nat]
      BY <2>2 DEF walked
    <3> QED BY <3>1, <1>1
  <2>4. \A i \in 1..n : i + confirmed >= n => cc[i] # 1
    BY <1>6, <1>7
  <2> HIDE DEF walked
  <2>5. /\ c.confirm_count = walked
        /\ c.dpos_proposed_irreversible_blocknum = t.dpos_proposed_irreversible_blocknum
    BY <1>4, <1>7 DEF HeaderFields
  <2>6. WalksOn(c, t, cc, confirmed)
    BY <2>1, <2>3, <2>4, <2>5 DEF n, WalksOn
  <2> QED BY <2>6 DEF c, cc
<1>8. CASE hits # {}
  <2>1. PICK h \in hits : \A j \in hits : j <= h
    <3> DEFINE T == {n - i : i \in hits}
    <3>1. T \in SUBSET Nat /\ T # {}
      <4>1. \A i \in hits : n - i \in Nat
        BY <1>1, <1>6
      <4>2. PICK i \in hits : TRUE
        BY <1>8
      <4>3. n - i \in T
        BY <4>2
      <4> QED BY <4>1, <4>3
    <3>2. PICK m \in T : \A k \in T : m <= k
      BY <3>1, LeastNat
    <3>3. PICK i \in hits : m = n - i
      BY <3>2
    <3>4. \A j \in hits : j <= i
      <4> TAKE j \in hits
      <4>1. n - j \in T /\ i \in Int /\ j \in Int
        BY <1>6
      <4>2. n - i <= n - j
        BY <4>1, <3>2, <3>3
      <4> QED BY <4>1, <4>2, <1>1
    <3> QED BY <3>4
  <2>2. hit \in hits /\ \A j \in hits : j <= hit
    BY <2>1
  <2> HIDE DEF hit
  <2>3. hit \in 1..n /\ hit + confirmed >= n /\ cc[hit] = 1
    BY <2>2, <1>6
  <2>4. \A i \in 1..(n - hit) : /\ hit + i \in 1..n /\ cc[hit + i] # 1
                               /\ rest[i] = cc[hit + i] - 1 /\ rest[i] \in Nat
    <3> TAKE i \in 1..(n - hit)
    <3>1. hit + i \in 1..n /\ hit + i > hit /\ hit + i + confirmed >= n
      BY <2>3, <1>1
    <3>2. hit + i \notin hits
      BY <3>1, <2>2, <2>3, <1>1
    <3>3. cc[hit + i] # 1
      BY <3>1, <3>2, <1>6
    <3>4. cc[hit + i] \in 1..255
      BY <3>1, <1>1
    <3>5. Dec8(cc[hit + i]) = cc[hit + i] - 1 /\ cc[hit + i] - 1 \in Nat
      BY <3>4, <1>2, Zenon
    <3>6. rest[i] = Dec8(cc[hit + i])
      OBVIOUS
    <3> HIDE DEF rest
    <3> QED BY <3>1, <3>3, <3>5, <3>6, Zenon
  <2>5. rest \in Seq(Nat) /\ Len(rest) = n - hit
    <3>1. n - hit \in Nat
      BY <2>3, <1>1
    <3>2. rest \in [1..(n - hit) -> Nat]
      <4>1. \A i \in 1..(n - hit) : rest[i] \in Nat
        BY <2>4, Zenon
      <4> HIDE DEF rest
      <4> QED BY <4>1 DEF rest
    <3> HIDE DEF rest
    <3> QED BY <3>1, <3>2
  <2> HIDE DEF rest
  <2>6. /\ c.confirm_count = rest
        /\ c.dpos_proposed_irreversible_blocknum = t.block_num - (n - hit)
    BY <1>4, <1>8 DEF HeaderFields
  <2>7. StopsAt(c, t, cc, confirmed, hit)
    BY <2>3, <2>4, <2>5, <2>6 DEF n, StopsAt
  <2> QED BY <2>3, <2>7 DEF c, cc, n
<1> QED BY <1>7, <1>8

\* The counters generate_next hands to the walk: exact for the blocks before
\* the new one, and the full requirement for the new one.
LEMMA GrownCounts ==
    ASSUME NEW ch \in Seq(Entry), NEW e \in Entry, NEW cc \in Seq(Nat),
           Len(cc) < Len(ch), CountsExact(cc, ch),
           \A j \in 1..Len(ch) : ch[j].required <= 255,
           e.required > 0, e.required <= 255
    PROVE  LET cc1 == GrowConfirmCount(cc, e.required)
               base == Len(ch) + 1 - Len(cc1)
           IN  /\ cc1 \in Seq(Nat) /\ base \in Nat \ {0}
               /\ \A i \in 1..Len(cc1) :
                     /\ cc1[i] > 0 /\ cc1[i] <= 255
                     /\ cc1[i] = Append(ch, e)[base + i].required
                                    - Cardinality(ConfirmersIn(ch, base + i))
<1> DEFINE N == Len(ch)
           r == e.required
           cc1 == GrowConfirmCount(cc, r)
           n1 == Len(cc1)
           base == N + 1 - n1
           ch1 == Append(ch, e)
           Exact(i) == /\ cc1[i] > 0 /\ cc1[i] <= 255
                       /\ cc1[i] = ch1[base + i].required
                                      - Cardinality(ConfirmersIn(ch, base + i))
<1>1. /\ N \in Nat /\ r \in Nat /\ ch1[N + 1] = e
      /\ Len(cc) \in Nat /\ \A j \in 1..N : ch1[j] = ch[j] /\ ch[j] \in Entry
  <2>1. r \in Nat
    BY DEF Entry
  <2> HIDE DEF r
  <2> QED BY <2>1
<1>2. /\ cc1 \in Seq(Nat) /\ n1 \in Nat \ {0} /\ cc1[n1] = r /\ n1 <= Len(cc) + 1
      /\ \A i \in 1..(n1 - 1) : /\ Len(cc) + 1 - n1 + i \in 1..Len(cc)
                                /\ cc1[i] = cc[Len(cc) + 1 - n1 + i]
  <2>1. CASE Len(cc) < maximum_tracked_dpos_confirmations
    <3>1. cc1 = Append(cc, r)
      BY <2>1 DEF GrowConfirmCount
    <3>2. n1 = Len(cc) + 1
      BY <3>1, <1>1
    <3> QED BY <3>1, <3>2, <1>1
  <2>2. CASE ~ (Len(cc) < maximum_tracked_dpos_confirmations)
    <3>1. cc # <<>> /\ Len(cc) # 0
      BY <2>2, <1>1, TrackedAssumption
    <3>2. /\ Tail(cc) \in Seq(Nat) /\ Len(Tail(cc)) = Len(cc) - 1
          /\ \A i \in 1..(Len(cc) - 1) : Tail(cc)[i] = cc[i + 1]
      BY <3>1, <1>1
    <3>3. cc1 = Append(Tail(cc), r)
      BY <2>2 DEF GrowConfirmCount
    <3>4. cc1 \in Seq(Nat) /\ n1 = Len(cc) /\ cc1[n1] = r
      BY <3>2, <3>3, <1>1
    <3>5. \A i \in 1..(Len(cc) - 1) : cc1[i] = Tail(cc)[i]
      BY <3>2, <3>3, <1>1
    <3> HIDE DEF cc1, n1
    <3>6. \A i \in 1..(n1 - 1) : Len(cc) + 1 - n1 + i = i + 1 /\ i + 1 \in 1..Len(cc)
      BY <3>4, <1>1
    <3> QED BY <3>1, <3>2, <3>4, <3>5, <3>6, <1>1
  <2> QED BY <2>1, <2>2
<1>3. base \in Nat \ {0}
  <2> HIDE DEF cc1, n1
  <2> QED BY <1>1, <1>2
<1>4. ASSUME NEW i \in 1..n1 PROVE Exact(i)
  <2> HIDE DEF cc1, n1, ch1
  <2>1. CASE i = n1
    <3>1. base + i = N + 1
      BY <2>1, <1>1, <1>2
    <3>2. ConfirmersIn(ch, N + 1) = {}
      BY <1>1 DEF ConfirmersIn
    <3>3. Cardinality(ConfirmersIn(ch, base + i)) = 0
      BY <3>1, <3>2, FS_EmptySet
    <3> QED BY <2>1, <3>1, <3>3, <1>1, <1>2
  <2>2. CASE i # n1
    <3> DEFINE o == Len(cc) + 1 - n1 + i
    <3>1. i \in 1..(n1 - 1)
      BY <2>2, <1>2
    <3>2. o \in 1..Len(cc) /\ cc1[i] = cc[o]
      BY <3>1, <1>2
    <3>3. N - Len(cc) + o = base + i /\ base + i \in 1..N
      BY <3>1, <1>1, <1>2
    <3>4. cc[o] > 0 /\ cc[o] = ch[N - Len(cc) + o].required
                                  - Cardinality(ConfirmersIn(ch, N - Len(cc) + o))
      BY <3>2 DEF CountsExact
    <3> HIDE DEF o
    <3>5. /\ cc[o] > 0 /\ cc[o] = ch[base + i].required
                                     - Cardinality(ConfirmersIn(ch, base + i))
      BY <3>3, <3>4
    <3>6. ch1[base + i] = ch[base + i] /\ ch[base + i].required \in Nat
          /\ ch[base + i].required <= 255
      BY <3>3, <1>1 DEF Entry
    <3>7. Cardinality(ConfirmersIn(ch, base + i)) \in Nat
      <4>1. base + i \in Nat \ {0}
        BY <3>3, <1>1
      <4> QED BY <4>1, ConfirmersFinite
    <3>8. PICK a \in Nat, q \in Nat : /\ a = ch[base + i].required /\ a <= 255
                                      /\ q = Cardinality(ConfirmersIn(ch, base + i))
      BY <3>6, <3>7
    <3>9. cc1[i] = a - q /\ cc1[i] > 0
      BY <3>2, <3>5, <3>8
    <3>10. a - q <= 255
      BY <3>8
    <3> QED BY <3>6, <3>8, <3>9, <3>10
  <2> QED BY <2>1, <2>2
<1> QED BY <1>2, <1>3, <1>4

\* set_confirmed keeps the counters exact and proposes only blocks that have
\* their quorum, if the producer has not confirmed the walked blocks before.
LEMMA WalkedCounts ==
    ASSUME NEW ch \in Seq(Entry), NEW e \in Entry, NEW cc \in Seq(Nat),
           Len(cc) < Len(ch), CountsExact(cc, ch),
           \A j \in 1..Len(ch) : ch[j].required <= 255,
           e.required > 0, e.required <= 255,
           NEW t, DOMAIN t = HeaderFields, t.block_num = Len(ch) + 1,
           t.confirm_count = GrowConfirmCount(cc, e.required),
           t.dpos_proposed_irreversible_blocknum \in Nat,
           t.dpos_proposed_irreversible_blocknum <= Len(ch),
           HasQuorum(ch, t.dpos_proposed_irreversible_blocknum),
           \A k \in 2..Len(ch) :
              Len(ch) + 1 - e.confirmed <= k => e.producer \notin ConfirmersIn(ch, k)
    PROVE  LET c == set_confirmed(t, e.confirmed)
           IN  /\ CountsExact(c.confirm_count, Append(ch, e))
               /\ Len(c.confirm_count) <= Len(ch)
               /\ HasQuorum(Append(ch, e), c.dpos_proposed_irreversible_blocknum)
<1> DEFINE N == Len(ch)
           cc1 == GrowConfirmCount(cc, e.required)
           n == Len(cc1)
           base == N + 1 - n
           ch1 == Append(ch, e)
           c == set_confirmed(t, e.confirmed)
           Q(k) == Cardinality(ConfirmersIn(ch1, k))
<1>1. /\ cc1 \in Seq(Nat) /\ base \in Nat \ {0}
      /\ \A i \in 1..n : /\ cc1[i] > 0 /\ cc1[i] <= 255
                         /\ cc1[i] = ch1[base + i].required
                                        - Cardinality(ConfirmersIn(ch, base + i))
  BY GrownCounts
<1>2. /\ N \in Nat /\ e.confirmed \in Nat /\ ch1 \in Seq(Entry) /\ Len(ch1) = N + 1
      /\ \A j \in 1..(N + 1) : ch1[j] \in Entry
  <2>1. e.confirmed \in Nat
    BY DEF Entry
  <2>2. ch1 \in Seq(Entry) /\ N \in Nat /\ Len(ch1) = N + 1
    OBVIOUS
  <2> HIDE DEF ch1, N
  <2> QED BY <2>1, <2>2
<1> HIDE DEF cc1, N, ch1
<1>3. n \in Nat /\ n + base = N + 1
  <2>1. n \in Nat
    BY <1>1
  <2> HIDE DEF n
  <2> QED BY <2>1, <1>2
<1> HIDE DEF n, base
\* The requirement left by the producers that confirmed block base + i once the
\* new block is counted.
<1>4. ASSUME NEW i \in 1..n
      PROVE  /\ base + i \in 2..(N + 1)
             /\ cc1[i] \in Nat /\ Q(base + i) \in Nat /\ ch1[base + i].required \in Nat
             /\ i + e.confirmed >= n => Q(base + i) = ch1[base + i].required - (cc1[i] - 1)
             /\ ~ (i + e.confirmed >= n) => Q(base + i) = ch1[base + i].required - cc1[i]
  <2> DEFINE k == base + i
  <2>1. k \in 2..(N + 1) /\ k \in 1..(N + 1) /\ k \in Nat \ {0}
    BY <1>1, <1>2, <1>3
  <2>2. i + e.confirmed >= n <=> N + 1 - e.confirmed <= k
    BY <1>1, <1>2, <1>3
  <2> HIDE DEF k
  <2>3. ConfirmersIn(ch1, k) =
           IF N + 1 - e.confirmed <= k
           THEN ConfirmersIn(ch, k) \cup {e.producer} ELSE ConfirmersIn(ch, k)
    BY <2>1, ConfirmersStep DEF N, ch1
  <2>4. /\ IsFiniteSet(ConfirmersIn(ch, k)) /\ Cardinality(ConfirmersIn(ch, k)) \in Nat
        /\ Q(k) \in Nat
    BY <2>1, <1>2, ConfirmersFinite
  <2>5. /\ cc1[i] \in Nat /\ ch1[k].required \in Nat
        /\ cc1[i] = ch1[k].required - Cardinality(ConfirmersIn(ch, k))
    <3>1. cc1[i] \in Nat
      BY <1>1 DEF n
    <3>2. ch1[k] \in Entry
      BY <2>1, <1>2
    <3> QED BY <3>1, <3>2, <1>1 DEF Entry, k
  <2>6. CASE N + 1 - e.confirmed <= k
    <3>1. e.producer \notin ConfirmersIn(ch, k)
      <4>1. CASE k = N + 1
        BY <4>1, <1>2 DEF ConfirmersIn, N
      <4>2. CASE k # N + 1
        <5>1. k \in 2..Len(ch)
          BY <4>2, <2>1, <1>2 DEF N
        <5> QED BY <5>1, <2>6 DEF N
      <4> QED BY <4>1, <4>2
    <3>2. ConfirmersIn(ch1, k) = ConfirmersIn(ch, k) \cup {e.producer}
      BY <2>3, <2>6
    <3>3. Q(k) = Cardinality(ConfirmersIn(ch, k)) + 1
      BY <3>1, <3>2, <2>4, FS_AddElement
    <3>4. PICK a \in Nat, q \in Nat : a = ch1[k].required /\ q = Cardinality(ConfirmersIn(ch, k))
      BY <2>4, <2>5
    <3>5. Q(k) = q + 1 /\ cc1[i] = a - q
      BY <3>3, <3>4, <2>5
    <3>6. Q(k) = a - (cc1[i] - 1)
      BY <3>4, <3>5
    <3> QED BY <3>4, <3>6, <2>1, <2>2, <2>4, <2>5, <2>6 DEF k
  <2>7. CASE ~ (N + 1 - e.confirmed <= k)
    <3>1. ConfirmersIn(ch1, k) = ConfirmersIn(ch, k)
      BY <2>3, <2>7
    <3>2. PICK a \in Nat, q \in Nat : a = ch1[k].required /\ q = Cardinality(ConfirmersIn(ch, k))
      BY <2>4, <2>5
    <3>3. Q(k) = q /\ cc1[i] = a - q
      BY <3>1, <3>2, <2>5
    <3>4. Q(k) = a - cc1[i]
      BY <3>2, <3>3
    <3> QED BY <3>2, <3>4, <2>1, <2>2, <2>4, <2>5, <2>7 DEF k
  <2> QED BY <2>6, <2>7
<1>5. WalksOn(c, t, cc1, e.confirmed) \/ \E hit \in 1..n : StopsAt(c, t, cc1, e.confirmed, hit)
  <2>1. t.confirm_count = cc1
    BY DEF cc1
  <2>2. \A i \in 1..Len(cc1) : cc1[i] > 0 /\ cc1[i] <= 255
    BY <1>1 DEF n
  <2>3. e.confirmed \in Nat
    BY <1>2
  <2> QED BY <2>1, <2>2, <2>3, <1>1, Walk DEF n
<1> HIDE DEF c
<1>6. CASE WalksOn(c, t, cc1, e.confirmed)
  <2>0. /\ c.dpos_proposed_irreversible_blocknum = t.dpos_proposed_irreversible_blocknum
        /\ c.confirm_count \in Seq(Nat) /\ Len(c.confirm_count) = n
        /\ \A i \in 1..n : IF i + e.confirmed >= n
              THEN cc1[i] # 1 /\ c.confirm_count[i] = cc1[i] - 1
              ELSE c.confirm_count[i] = cc1[i]
    BY <1>6 DEF WalksOn, n
  <2>1. HasQuorum(ch1, c.dpos_proposed_irreversible_blocknum)
    BY <2>0, QuorumStays DEF ch1
  <2>2. n <= N
    BY <1>1, <1>2, <1>3
  <2>3. ASSUME NEW i \in 1..n
        PROVE  /\ c.confirm_count[i] > 0
               /\ c.confirm_count[i] = ch1[base + i].required - Q(base + i)
    <3>2. PICK a \in Nat, q \in Nat, x \in Nat :
             a = ch1[base + i].required /\ q = Q(base + i) /\ x = cc1[i]
      BY <1>4
    <3>3. x > 0
      BY <3>2, <1>1
    <3>4. CASE i + e.confirmed >= n
      <4>1. q = a - (x - 1)
        BY <3>2, <3>4, <1>4
      <4>2. x # 1 /\ c.confirm_count[i] = x - 1
        BY <3>2, <3>4, <2>0
      <4>3. x - 1 > 0 /\ x - 1 = a - q
        BY <4>1, <4>2, <3>3
      <4> QED BY <3>2, <4>2, <4>3
    <3>5. CASE ~ (i + e.confirmed >= n)
      <4>1. q = a - x
        BY <3>2, <3>5, <1>4
      <4>2. c.confirm_count[i] = x
        BY <3>2, <3>5, <2>0
      <4>3. x = a - q
        BY <4>1
      <4> QED BY <3>2, <3>3, <4>2, <4>3
    <3> QED BY <3>4, <3>5
  <2>4. CountsExact(c.confirm_count, ch1)
    <3>1. Len(ch1) - Len(c.confirm_count) = base
      BY <1>1, <1>2, <1>3, <2>0
    <3>2. Len(c.confirm_count) = n
      BY <2>0
    <3> QED BY <3>1, <3>2, <2>3, Zenon DEF CountsExact
  <2> QED BY <2>0, <2>1, <2>2, <2>4 DEF c, ch1, N
<1>7. ASSUME NEW hit \in 1..n, StopsAt(c, t, cc1, e.confirmed, hit)
      PROVE  /\ CountsExact(c.confirm_count, ch1)
             /\ Len(c.confirm_count) <= N
             /\ HasQuorum(ch1, c.dpos_proposed_irreversible_blocknum)
  <2>0. /\ c.dpos_proposed_irreversible_blocknum = t.block_num - (n - hit)
        /\ hit + e.confirmed >= n /\ cc1[hit] = 1
        /\ c.confirm_count \in Seq(Nat) /\ Len(c.confirm_count) = n - hit
        /\ \A i \in 1..(n - hit) :
              cc1[hit + i] # 1 /\ c.confirm_count[i] = cc1[hit + i] - 1
    BY <1>7 DEF StopsAt, n
  <2>1. HasQuorum(ch1, c.dpos_proposed_irreversible_blocknum)
    <3>1. c.dpos_proposed_irreversible_blocknum = base + hit
      <4>1. t.block_num = N + 1
        BY DEF N
      <4> QED BY <4>1, <1>1, <1>2, <1>3, <2>0
    <3>2. PICK a \in Nat, q \in Nat : a = ch1[base + hit].required /\ q = Q(base + hit)
      BY <1>4
    <3>3. q = a - (1 - 1)
      BY <3>2, <1>4, <2>0
    <3>4. q >= a
      BY <3>3
    <3> QED BY <3>1, <3>2, <3>4 DEF HasQuorum
  <2>2. n - hit <= N
    BY <1>1, <1>2, <1>3
  <2>3. ASSUME NEW i \in 1..(n - hit)
        PROVE  /\ c.confirm_count[i] > 0
               /\ c.confirm_count[i] = ch1[base + hit + i].required - Q(base + hit + i)
    <3>0. PICK o \in Nat : o = hit + i
      BY <1>3
    <3>1. o \in 1..n /\ base + hit + i = base + o
      BY <3>0, <1>1, <1>3
    <3>2. o + e.confirmed >= n
      <4>1. PICK d \in Nat : d = e.confirmed
        BY <1>2
      <4>2. hit + d >= n
        BY <4>1, <2>0
      <4> QED BY <3>0, <4>1, <4>2, <1>3
    <3>3. cc1[o] # 1 /\ c.confirm_count[i] = cc1[o] - 1
      BY <3>0, <2>0
    <3>4. PICK a \in Nat, q \in Nat, x \in Nat :
             a = ch1[base + o].required /\ q = Q(base + o) /\ x = cc1[o]
      BY <3>1, <1>4
    <3>5. x > 0 /\ x # 1
      BY <3>1, <3>3, <3>4, <1>1
    <3>6. q = a - (x - 1)
      BY <3>1, <3>2, <3>4, <1>4
    <3>7. x - 1 > 0 /\ x - 1 = a - q
      BY <3>5, <3>6
    <3> QED BY <3>1, <3>3, <3>4, <3>7
  <2>4. CountsExact(c.confirm_count, ch1)
    <3>1. Len(ch1) - Len(c.confirm_count) = base + hit
      BY <1>1, <1>2, <1>3, <2>0
    <3>2. Len(c.confirm_count) = n - hit
      BY <2>0
    <3> QED BY <3>1, <3>2, <2>3, Zenon DEF CountsExact
  <2> QED BY <2>0, <2>1, <2>2, <2>4
<1> QED BY <1>5, <1>6, <1>7 DEF c, ch1, N

-----------------------------------------------------------------------------
(***************************************************************************)
(* start_block, one operation at a time.                                   *)
(***************************************************************************)

LEMMA RequiredShort ==
    ASSUME NEW sched \in Schedules, Short(sched)
    PROVE  LET r == required_confs(Len(sched.producers)) IN r \in Nat /\ r > 0 /\ r <= 255
<1>1. PICK n \in Nat : n = Len(sched.producers) /\ n <= 125
  BY DEF Schedules, Short, max_producers
<1>2. PICK x \in Nat : x = n * 2 /\ x <= 250
  BY <1>1
<1>3. PICK q \in Nat : q = x \div 3 /\ q * 3 <= x
  BY <1>2
<1>4. q <= 83
  BY <1>2, <1>3
<1>5. required_confs(Len(sched.producers)) = q + 1
  BY <1>1, <1>2, <1>3 DEF required_confs
<1> QED BY <1>4, <1>5

\* The double-confirm check of next does its work: the blocks that the walk
\* reaches have not been confirmed by this producer.
LEMMA NotConfirmedBefore ==
    ASSUME NEW hs, NEW ch, HeaderInv(hs), TrackInv(hs, ch),
           NEW when \in Nat, NEW confirmed \in Nat,
           NoDoubleConfirm(hs, get_scheduled_producer(hs, when), confirmed),
           ~ Wraps(Len(ch) + 1, confirmed),
           NEW k \in 2..Len(ch), Len(ch) + 1 - confirmed <= k
    PROVE  get_scheduled_producer(hs, when) \notin ConfirmersIn(ch, k)
<1> DEFINE p == get_scheduled_producer(hs, when)
           lp == hs.producer_to_last_produced
<1>1. /\ ch \in Seq(Entry) /\ Len(ch) = hs.block_num /\ hs.block_num \in Nat
      /\ NotForgotten(hs, ch) /\ IsBlockNums(lp)
  BY DEF TrackInv, HeaderInv, IsHeaderState
<1>2. p \in Names(hs.active_schedule)
  BY ScheduledProducer DEF HeaderInv
<1> HIDE DEF p, lp
<1>3. k \in Nat /\ k >= 2 /\ k <= Len(ch) /\ Len(ch) \in Nat /\ hs.block_num > 1
  BY <1>1
<1>4. p \in DOMAIN lp
  BY <1>2, <1>3 DEF TrackInv, lp
<1>5. lp[p] < Len(ch) + 1 - confirmed /\ lp[p] \in Nat
  <2>1. lp[p] \in Nat
    BY <1>1, <1>4 DEF IsBlockNums
  <2>2. lp[p] < hs.block_num + 1 - confirmed
    BY <1>1, <1>4 DEF NoDoubleConfirm, p, lp
  <2> QED BY <2>1, <2>2, <1>1
<1>6. SUFFICES ASSUME p \in ConfirmersIn(ch, k) PROVE FALSE
  BY DEF p
<1>7. PICK j \in k..Len(ch) : ch[j].producer = p
  BY <1>6 DEF ConfirmersIn
<1>8. j \in 2..Len(ch) /\ j \in Nat
  BY <1>3
<1>9. j <= lp[p]
  BY <1>1, <1>4, <1>7, <1>8 DEF NotForgotten, lp
<1> QED BY <1>3, <1>5, <1>8, <1>9

\* The confirmed template.
LEMMA ConfirmedTrack ==
    ASSUME NEW hs, NEW ch, HeaderInv(hs), TrackInv(hs, ch),
           NEW when \in Nat, NEW confirmed \in Nat,
           NoDoubleConfirm(hs, get_scheduled_producer(hs, when), confirmed)
    PROVE  LET c == set_confirmed(generate_next(hs, when), confirmed)
               e == [producer |-> get_scheduled_producer(hs, when),
                     confirmed |-> confirmed,
                     required |-> required_confs(Len(hs.active_schedule.producers))]
           IN  /\ TrackInv(c, Append(ch, e))
               /\ c.producer = e.producer /\ c.confirmed = confirmed
               /\ c.timestamp = when /\ c.new_producers = <<>>
<1> DEFINE t == generate_next(hs, when)
           c == set_confirmed(t, confirmed)
           p == get_scheduled_producer(hs, when)
           r == required_confs(Len(hs.active_schedule.producers))
           e == [producer |-> p, confirmed |-> confirmed, required |-> r]
           ch1 == Append(ch, e)
           N == Len(ch)
           lp == hs.producer_to_last_produced
<1>1. /\ IsHeaderState(hs) /\ DOMAIN hs = HeaderFields
      /\ ch \in Seq(Entry) /\ N = hs.block_num /\ N \in Nat \ {0}
      /\ \A j \in 1..N : ch[j].required <= 255
      /\ Len(hs.confirm_count) < N /\ hs.confirm_count \in Seq(Nat)
      /\ NotForgotten(hs, ch)
      /\ N > 1 => Names(hs.active_schedule) \subseteq DOMAIN lp
      /\ Short(hs.active_schedule) /\ Short(hs.pending_schedule)
      /\ InRange(ch) => /\ CountsExact(hs.confirm_count, ch)
                        /\ HasQuorum(ch, hs.dpos_proposed_irreversible_blocknum)
      /\ hs.dpos_proposed_irreversible_blocknum \in Nat
      /\ hs.active_schedule \in Schedules /\ IsBlockNums(lp)
  BY DEF TrackInv, HeaderInv, IsHeaderState
<1>2. hs.dpos_proposed_irreversible_blocknum <= N
  <2>1. hs.dpos_proposed_irreversible_blocknum + Len(hs.confirm_count) <= hs.block_num
    BY DEF HeaderInv, ConfirmWindow
  <2>2. Len(hs.confirm_count) \in Nat
    BY <1>1
  <2> QED BY <2>1, <2>2, <1>1
<1>3. p \in Names(hs.active_schedule) /\ p \in Accounts
  BY <1>1, ScheduledProducer DEF HeaderInv
<1>4. r \in Nat /\ r > 0 /\ r <= 255
  BY <1>1, RequiredShort
<1>5. /\ t.block_num = N + 1 /\ t.timestamp = when /\ t.producer = p
      /\ t.new_producers = <<>>
      /\ t.dpos_proposed_irreversible_blocknum = hs.dpos_proposed_irreversible_blocknum
      /\ t.pending_schedule_lib_num = hs.pending_schedule_lib_num
      /\ t.pending_schedule = hs.pending_schedule
      /\ t.active_schedule = hs.active_schedule
      /\ t.producer_to_last_produced = Put(lp, p, N + 1)
      /\ t.confirm_count = GrowConfirmCount(hs.confirm_count, r)
  BY <1>1, GenerateNextFields
<1>6. IsHeaderState(t) /\ ConfirmWindow(t) /\ DOMAIN t = HeaderFields
  BY GenerateNext DEF IsHeaderState
<1> HIDE DEF t, p, r, N, lp
<1>7. /\ e \in Entry /\ e.producer = p /\ e.confirmed = confirmed /\ e.required = r
  BY <1>3, <1>4 DEF Entry
<1> HIDE DEF e
<1>8. ASSUME ~ Wraps(Len(ch) + 1, confirmed)
      PROVE  \A k \in 2..Len(ch) :
                Len(ch) + 1 - confirmed <= k => p \notin ConfirmersIn(ch, k)
  BY <1>8, NotConfirmedBefore DEF p
<1>9. ASSUME InRange(ch1)
      PROVE  /\ CountsExact(c.confirm_count, ch1)
             /\ HasQuorum(ch1, c.dpos_proposed_irreversible_blocknum)
  <2>0. InRange(ch) /\ ~ Wraps(Len(ch) + 1, confirmed)
    <3>1. /\ Len(ch1) = N + 1 /\ ch1[N + 1] = e
          /\ \A j \in 1..N : ch1[j] = ch[j] /\ j \in 1..(N + 1)
      BY <1>1, <1>7 DEF N
    <3>2. N + 1 \in 1..(N + 1)
      BY <1>1
    <3> QED BY <3>1, <3>2, <1>7, <1>9 DEF InRange, N
  <2>1. /\ e.required > 0 /\ e.required <= 255 /\ t.block_num = Len(ch) + 1
        /\ t.confirm_count = GrowConfirmCount(hs.confirm_count, e.required)
        /\ t.dpos_proposed_irreversible_blocknum \in Nat
        /\ t.dpos_proposed_irreversible_blocknum <= Len(ch)
        /\ HasQuorum(ch, t.dpos_proposed_irreversible_blocknum)
        /\ Len(hs.confirm_count) < Len(ch)
        /\ \A j \in 1..Len(ch) : ch[j].required <= 255
        /\ \A k \in 2..Len(ch) :
              Len(ch) + 1 - e.confirmed <= k => e.producer \notin ConfirmersIn(ch, k)
    BY <2>0, <1>1, <1>2, <1>4, <1>5, <1>7, <1>8 DEF N
  <2>2. c = set_confirmed(t, e.confirmed)
    BY <1>7
  <2> HIDE DEF c
  <2> QED BY <2>0, <2>1, <2>2, <1>1, <1>6, <1>7, WalkedCounts
<1>10. /\ DOMAIN c = HeaderFields
       /\ \A f \in HeaderFields \ {"confirmed", "confirm_count",
                                     "dpos_proposed_irreversible_blocknum"} : c[f] = t[f]
       /\ c.confirmed = confirmed /\ c.confirm_count \in Seq(Nat)
       /\ Len(c.confirm_count) <= Len(t.confirm_count)
  BY <1>6, SetConfirmed
<1> HIDE DEF c
<1>11. /\ c.block_num = N + 1 /\ c.timestamp = when /\ c.producer = p
       /\ c.new_producers = <<>>
       /\ c.pending_schedule_lib_num = hs.pending_schedule_lib_num
       /\ c.pending_schedule = hs.pending_schedule
       /\ c.active_schedule = hs.active_schedule
       /\ c.producer_to_last_produced = Put(lp, p, N + 1)
  BY <1>5, <1>10 DEF HeaderFields
<1>12. /\ ch1 \in Seq(Entry) /\ Len(ch1) = N + 1 /\ ch1[N + 1] = e
       /\ \A j \in 1..N : ch1[j] = ch[j]
  BY <1>1, <1>7 DEF N
<1> HIDE DEF ch1
<1>13. \A j \in 1..(N + 1) : j \in 1..N \/ j = N + 1
  BY <1>1
<1>14. \A j \in 1..(N + 1) : ch1[j].required <= 255
  BY <1>1, <1>4, <1>7, <1>12, <1>13
<1>15. Len(c.confirm_count) < c.block_num
  <2>1. Len(c.confirm_count) <= Len(ch)
    <3>1. Len(t.confirm_count) <= Len(hs.confirm_count) + 1
      BY <1>1, <1>4, <1>5, GrowType
    <3>2. Len(t.confirm_count) \in Nat /\ Len(hs.confirm_count) \in Nat
      <4>1. t.confirm_count \in Seq(Nat)
        BY <1>6 DEF IsHeaderState
      <4> QED BY <4>1, <1>1
    <3>3. Len(c.confirm_count) <= Len(t.confirm_count) /\ Len(c.confirm_count) \in Nat
      BY <1>10
    <3> QED BY <3>1, <3>2, <3>3, <1>1 DEF N
  <2>2. Len(c.confirm_count) \in Nat
    BY <1>10
  <2> QED BY <2>1, <2>2, <1>1, <1>11 DEF N
<1>16. /\ DOMAIN c.producer_to_last_produced = DOMAIN lp \cup {p}
       /\ c.producer_to_last_produced[p] = N + 1
       /\ \A x \in DOMAIN lp : x # p => c.producer_to_last_produced[x] = lp[x]
  <2>1. N + 1 \in Nat
    BY <1>1
  <2>2. IsBlockNums(lp) /\ p \in Accounts
    BY <1>1, <1>3
  <2>3. /\ DOMAIN Put(lp, p, N + 1) = DOMAIN lp \cup {p}
        /\ Put(lp, p, N + 1)[p] = N + 1
        /\ \A x \in DOMAIN lp : x # p => Put(lp, p, N + 1)[x] = lp[x]
    BY <2>1, <2>2, PutType, Zenon
  <2> QED BY <2>3, <1>11, Zenon
<1>17. NotForgotten(c, ch1)
  <2> SUFFICES ASSUME NEW j \in 2..(N + 1)
               PROVE  IF ch1[j].producer \in DOMAIN c.producer_to_last_produced
                      THEN j <= c.producer_to_last_produced[ch1[j].producer]
                      ELSE \/ c.pending_schedule.producers = <<>>
                           \/ j <= c.pending_schedule_lib_num
    BY <1>12 DEF NotForgotten
  <2>1. j \in Nat /\ j <= N + 1
    BY <1>1
  <2>2. CASE ch1[j].producer = p
    BY <2>1, <2>2, <1>1, <1>16
  <2>3. CASE ch1[j].producer # p
    <3>1. j # N + 1
      BY <2>3, <1>7, <1>12
    <3>2. j \in 2..Len(ch) /\ ch1[j] = ch[j]
      BY <2>1, <3>1, <1>1, <1>12 DEF N
    <3>3. IF ch[j].producer \in DOMAIN lp
          THEN j <= lp[ch[j].producer]
          ELSE \/ hs.pending_schedule.producers = <<>>
               \/ j <= hs.pending_schedule_lib_num
      BY <3>2, <1>1 DEF NotForgotten, lp
    <3> QED BY <2>3, <3>2, <3>3, <1>11, <1>16
  <2> QED BY <2>2, <2>3
<1>18. Names(c.active_schedule) \subseteq DOMAIN c.producer_to_last_produced
  <2>1. CASE N > 1
    BY <2>1, <1>1, <1>11, <1>16
  <2>2. CASE ~ (N > 1)
    <3>1. AtGenesis(hs)
      BY <2>2, <1>1 DEF HeaderInv
    <3>2. Names(hs.active_schedule) = {system_account}
      BY <3>1 DEF AtGenesis, genheader, Names
    <3> QED BY <3>2, <1>3, <1>11, <1>16
  <2> QED BY <2>1, <2>2
<1>19. TrackInv(c, ch1)
  BY <1>1, <1>9, <1>11, <1>12, <1>14, <1>15, <1>17, <1>18 DEF TrackInv
<1> QED BY <1>7, <1>10, <1>11, <1>19 DEF c, t, e, ch1, p, r

\* The promotion of the pending schedule: a producer that returns starts at the
\* last irreversible block, which is not below its own last block.
LEMMA PromotedTrack ==
    ASSUME NEW c, NEW ch, IsHeaderState(c), c.producer \in Accounts,
           TrackInv(c, ch), CanPromote(c)
    PROVE  TrackInv(maybe_promote_pending(c), ch)
<1> DEFINE m == maybe_promote_pending(c)
           names == Names(c.pending_schedule)
           lib == c.dpos_irreversible_blocknum
           lp == c.producer_to_last_produced
           f == Carry(lp, names, lib)
           q == c.producer
<1>1. /\ DOMAIN c = HeaderFields /\ c.block_num \in Nat /\ lib \in Nat
      /\ IsBlockNums(lp) /\ c.pending_schedule \in Schedules
      /\ c.pending_schedule_lib_num \in Nat /\ Len(ch) = c.block_num
  BY DEF IsHeaderState, TrackInv
<1>2. /\ m.block_num = c.block_num /\ m.confirm_count = c.confirm_count
      /\ m.dpos_proposed_irreversible_blocknum = c.dpos_proposed_irreversible_blocknum
      /\ m.active_schedule = c.pending_schedule
      /\ m.pending_schedule = [c.pending_schedule EXCEPT !.producers = <<>>]
      /\ m.producer_to_last_produced = Put(f, q, c.block_num)
  BY <1>1, PromoteFields DEF HeaderFields
<1>3. m.pending_schedule.producers = <<>>
  BY <1>1, <1>2 DEF Schedules
<1>4. names \in SUBSET Accounts
  BY <1>1 DEF Names, Schedules
<1>5. c.pending_schedule.producers # <<>> /\ c.pending_schedule_lib_num <= lib
  BY <1>1 DEF CanPromote, Schedules
<1> HIDE DEF m, names, lib, lp, q
<1>6. /\ IsBlockNums(f) /\ DOMAIN f = names
      /\ \A x \in names : f[x] = IF x \in DOMAIN lp THEN lp[x] ELSE lib
  BY <1>1, <1>4 DEF Carry, IsBlockNums
<1> HIDE DEF f
<1>7. /\ DOMAIN m.producer_to_last_produced = names \cup {q}
      /\ m.producer_to_last_produced[q] = c.block_num
      /\ \A x \in names : x # q => m.producer_to_last_produced[x] = f[x]
  <2>1. q \in Accounts
    BY DEF q
  <2>2. c.block_num \in Nat
    BY <1>1
  <2>3. /\ DOMAIN Put(f, q, c.block_num) = DOMAIN f \cup {q}
        /\ Put(f, q, c.block_num)[q] = c.block_num
        /\ \A x \in DOMAIN f : x # q => Put(f, q, c.block_num)[x] = f[x]
    <3>1. IsBlockNums(f)
      BY <1>6
    <3> QED BY <2>1, <2>2, <3>1, PutType, Zenon
  <2>4. m.producer_to_last_produced = Put(f, q, c.block_num) /\ DOMAIN f = names
    BY <1>2, <1>6, Zenon
  <2> HIDE DEF m
  <2> QED BY <2>3, <2>4, Zenon
<1>8. NotForgotten(m, ch)
  <2> SUFFICES ASSUME NEW j \in 2..Len(ch), ch[j].producer \in names \cup {q}
               PROVE  j <= m.producer_to_last_produced[ch[j].producer]
    BY <1>3, <1>7 DEF NotForgotten
  <2>1. j \in Nat /\ j <= c.block_num
    BY <1>1
  <2>2. CASE ch[j].producer = q
    BY <2>1, <2>2, <1>7
  <2>3. CASE ch[j].producer # q
    <3>1. m.producer_to_last_produced[ch[j].producer] =
             IF ch[j].producer \in DOMAIN lp THEN lp[ch[j].producer] ELSE lib
      BY <2>3, <1>6, <1>7
    <3>2. IF ch[j].producer \in DOMAIN lp
          THEN j <= lp[ch[j].producer] ELSE j <= c.pending_schedule_lib_num
      BY <1>5 DEF TrackInv, NotForgotten, lp
    <3>3. j <= c.pending_schedule_lib_num => j <= lib
      BY <2>1, <1>1, <1>5
    <3> QED BY <3>1, <3>2, <3>3
  <2> QED BY <2>2, <2>3
<1>9. Names(m.active_schedule) \subseteq DOMAIN m.producer_to_last_produced
  BY <1>2, <1>7 DEF names
<1>10. Short(m.active_schedule) /\ Short(m.pending_schedule)
  <2>1. Short(c.pending_schedule)
    BY DEF TrackInv
  <2>2. Len(m.pending_schedule.producers) = 0
    BY <1>3
  <2> QED BY <2>1, <2>2, <1>2 DEF Short, max_producers
<1>11. TrackInv(m, ch)
  BY <1>2, <1>8, <1>9, <1>10 DEF TrackInv
<1> QED BY <1>11 DEF m

\* A proposed schedule becomes pending.
LEMMA ProposedTrack ==
    ASSUME NEW c, NEW ch, IsHeaderState(c), TrackInv(c, ch), NEW sched, Short(sched)
    PROVE  TrackInv(set_new_producers(c, sched), ch)
<1> DEFINE s == set_new_producers(c, sched)
<1>1. DOMAIN c = HeaderFields /\ c.block_num \in Nat
  BY DEF IsHeaderState
<1>2. /\ s.block_num = c.block_num /\ s.confirm_count = c.confirm_count
      /\ s.dpos_proposed_irreversible_blocknum = c.dpos_proposed_irreversible_blocknum
      /\ s.active_schedule = c.active_schedule /\ s.pending_schedule = sched
      /\ s.pending_schedule_lib_num = c.block_num
      /\ s.producer_to_last_produced = c.producer_to_last_produced
  BY <1>1 DEF set_new_producers, HeaderFields
<1> HIDE DEF s
<1>3. NotForgotten(s, ch)
  <2>1. NotForgotten(c, ch) /\ Len(ch) = c.block_num
    BY DEF TrackInv
  <2>2. \A j \in 2..Len(ch) : j <= c.block_num
    BY <2>1, <1>1
  <2> QED BY <2>1, <2>2, <1>2 DEF NotForgotten
<1>4. TrackInv(s, ch)
  BY <1>2, <1>3 DEF TrackInv
<1> QED BY <1>4 DEF s

\* The block that start_block builds, with the chain it will be committed to.
LEMMA StartedTrack ==
    ASSUME HeaderInv(head), TrackInv(head, chain), ProposalInv(gpo, head),
           Short(gpo.proposed_schedule), NEW when \in Nat, NEW confirmed \in Nat,
           NoDoubleConfirm(head, get_scheduled_producer(head, when), confirmed)
    PROVE  LET b == StartedBlock(when, confirmed)
           IN  /\ TrackInv(b.hs, ChainWith(b.hs))
               /\ Short(b.gpo.proposed_schedule)
<1> DEFINE c == ConfirmedState(when, confirmed)
           m == maybe_promote_pending(c)
           b == StartedBlock(when, confirmed)
           p == get_scheduled_producer(head, when)
           ch1 == Append(chain,
                    [producer |-> p, confirmed |-> confirmed,
                     required |-> required_confs(Len(head.active_schedule.producers))])
<1>1. /\ TrackInv(c, ch1) /\ c.producer = p /\ c.confirmed = confirmed
  BY ConfirmedTrack DEF ConfirmedState
<1>2. IsHeaderState(c) /\ c.producer \in Accounts
  BY Confirmed DEF ConfirmedState, BeforePromotion
<1>3. IF PromotesProposed(m, CanPromote(c))
      THEN b = [hs |-> set_new_producers(m, gpo.proposed_schedule), gpo |-> NoProposal]
      ELSE b = [hs |-> m, gpo |-> gpo]
  BY DEF StartedBlock
<1> HIDE DEF c, b, ch1
<1>4. /\ TrackInv(m, ch1) /\ m.producer = c.producer /\ m.confirmed = c.confirmed
      /\ ~ CanPromote(c) => m = c
  <2>1. CASE CanPromote(c)
    <3>1. DOMAIN c = HeaderFields
      BY <1>2 DEF IsHeaderState
    <3>2. m.producer = c.producer /\ m.confirmed = c.confirmed
      BY <2>1, <3>1, PromoteFields DEF HeaderFields
    <3> QED BY <2>1, <3>2, <1>1, <1>2, PromotedTrack
  <2>2. CASE ~ CanPromote(c)
    <3>1. m = c
      BY <2>2 DEF maybe_promote_pending
    <3> QED BY <2>2, <3>1, <1>1
  <2> QED BY <2>1, <2>2
<1>5. CASE PromotesProposed(m, CanPromote(c))
  <2>1. m = c
    BY <1>4, <1>5 DEF PromotesProposed
  <2>2. b.hs = set_new_producers(c, gpo.proposed_schedule) /\ b.gpo = NoProposal
    BY <2>1, <1>3, <1>5
  <2>3. b.hs.producer = p /\ b.hs.confirmed = confirmed
    <3>1. DOMAIN c = HeaderFields
      BY <1>2 DEF IsHeaderState
    <3> QED BY <2>2, <3>1, <1>1 DEF set_new_producers, HeaderFields
  <2>4. TrackInv(b.hs, ch1)
    BY <2>2, <1>1, <1>2, ProposedTrack
  <2>5. ChainWith(b.hs) = ch1
    BY <2>3 DEF ChainWith, ch1
  <2>6. Short(NoProposal.proposed_schedule)
    BY DEF Short, NoProposal, max_producers
  <2> QED BY <2>2, <2>4, <2>5, <2>6 DEF b
<1>6. CASE ~ PromotesProposed(m, CanPromote(c))
  <2>1. b.hs = m /\ b.gpo = gpo
    BY <1>3, <1>6
  <2> HIDE DEF m
  <2>2. ChainWith(b.hs) = ch1
    BY <2>1, <1>1, <1>4 DEF ChainWith, ch1
  <2> QED BY <2>1, <2>2, <1>4 DEF b
<1> QED BY <1>5, <1>6

(***************************************************************************)
(* block_header_state::next, on the header that start_block produced.      *)
(***************************************************************************)
LEMMA ValidatorAgrees ==
    ASSUME HeaderInv(head), ProposalInv(gpo, head), NEW hs, Started(hs)
    PROVE  NextAccepts(head, HeaderOf(hs)) /\ next(head, HeaderOf(hs)) = hs
<1>1. PICK when \in Nat, confirmed \in Nat :
         /\ when > head.timestamp
         /\ NoDoubleConfirm(head, get_scheduled_producer(head, when), confirmed)
         /\ hs = StartedBlock(when, confirmed).hs
  BY DEF Started
<1> DEFINE t == generate_next(head, when)
           c == set_confirmed(t, confirmed)
           m == maybe_promote_pending(c)
           p == get_scheduled_producer(head, when)
           sched == gpo.proposed_schedule
           h == HeaderOf(hs)
<1>2. /\ DOMAIN head = HeaderFields
  BY DEF HeaderInv, IsHeaderState
<1>3. t.producer = p /\ t.timestamp = when /\ t.new_producers = <<>>
      /\ t.schedule_version = head.active_schedule.version
      /\ t.active_schedule = head.active_schedule
      /\ t.pending_schedule = head.pending_schedule
  BY <1>2, GenerateNextFields
<1>4. IsHeaderState(t) /\ ConfirmWindow(t)
  BY GenerateNext
<1> HIDE DEF t
<1>5. /\ DOMAIN c = HeaderFields
      /\ \A f \in HeaderFields \ {"confirmed", "confirm_count",
                                    "dpos_proposed_irreversible_blocknum"} : c[f] = t[f]
      /\ c.confirmed = confirmed
  BY <1>4, SetConfirmed
<1> HIDE DEF c
<1>6. /\ c.producer = p /\ c.timestamp = when /\ c.new_producers = <<>>
      /\ c.schedule_version = t.schedule_version
      /\ c.active_schedule = head.active_schedule
      /\ c.pending_schedule = head.pending_schedule
  BY <1>3, <1>5 DEF HeaderFields
<1>7. /\ m.producer = p /\ m.timestamp = when /\ m.new_producers = <<>>
      /\ m.schedule_version = t.schedule_version /\ m.confirmed = confirmed
      /\ ~ CanPromote(c) => m = c
  <2>1. CASE CanPromote(c)
    <3>1. /\ m.producer = c.producer /\ m.timestamp = c.timestamp
          /\ m.new_producers = c.new_producers /\ m.confirmed = c.confirmed
          /\ m.schedule_version = c.schedule_version
      <4>1. DOMAIN c = HeaderFields
        BY <1>5
      <4>2. \A f \in HeaderFields \ {"active_schedule", "pending_schedule",
                  "producer_to_last_produced", "producer_to_last_implied_irb"} : m[f] = c[f]
        BY <2>1, <4>1, PromoteFields
      <4> HIDE DEF m
      <4> QED BY <4>2 DEF HeaderFields
    <3> HIDE DEF m
    <3> QED BY <2>1, <3>1, <1>5, <1>6
  <2>2. CASE ~ CanPromote(c)
    BY <2>2, <1>5, <1>6 DEF maybe_promote_pending
  <2> QED BY <2>1, <2>2
<1>8. hs = IF PromotesProposed(m, CanPromote(c)) THEN set_new_producers(m, sched) ELSE m
  <2>1. ConfirmedState(when, confirmed) = c
    BY DEF ConfirmedState, c, t
  <2>2. StartedBlock(when, confirmed) =
           IF PromotesProposed(m, CanPromote(c))
           THEN [hs |-> set_new_producers(m, sched), gpo |-> NoProposal]
           ELSE [hs |-> m, gpo |-> gpo]
    BY <2>1 DEF StartedBlock
  <2> HIDE DEF m
  <2> QED BY <2>2, <1>1
<1> HIDE DEF m, sched
<1>9. /\ h.timestamp = hs.timestamp /\ h.producer = hs.producer
      /\ h.confirmed = hs.confirmed /\ h.schedule_version = hs.schedule_version
      /\ h.new_producers = hs.new_producers
  BY DEF HeaderOf
<1>10. /\ hs.timestamp = when /\ hs.producer = p /\ hs.confirmed = confirmed
       /\ hs.schedule_version = t.schedule_version
       /\ IF PromotesProposed(m, CanPromote(c))
          THEN hs.new_producers = <<sched>> ELSE hs.new_producers = <<>>
  <2>1. CASE PromotesProposed(m, CanPromote(c))
    <3>1. m = c
      BY <2>1, <1>7 DEF PromotesProposed
    <3>2. hs = set_new_producers(c, sched)
      BY <2>1, <3>1, <1>8
    <3>3. /\ hs.timestamp = c.timestamp /\ hs.producer = c.producer
          /\ hs.confirmed = c.confirmed /\ hs.schedule_version = c.schedule_version
          /\ hs.new_producers = <<sched>>
      BY <3>2, <1>5 DEF set_new_producers, HeaderFields
    <3> QED BY <2>1, <3>3, <1>5, <1>6
  <2>2. CASE ~ PromotesProposed(m, CanPromote(c))
    BY <2>2, <1>7, <1>8
  <2> QED BY <2>1, <2>2
<1> HIDE DEF h, p
<1>11. generate_next(head, h.timestamp) = t /\ set_confirmed(t, h.confirmed) = c
  BY <1>9, <1>10 DEF t, c
<1>12. CASE PromotesProposed(m, CanPromote(c))
  <2>1. /\ ~ CanPromote(c) /\ m = c /\ c.pending_schedule.producers = <<>>
        /\ gpo.proposed_schedule_block_num # 0
    BY <1>7, <1>12 DEF PromotesProposed
  <2>2. h.new_producers = <<sched>> /\ h.new_producers # <<>> /\ h.new_producers[1] = sched
    <3>1. h.new_producers = <<sched>>
      BY <1>9, <1>10, <1>12
    <3> QED BY <3>1
  <2>3. sched.version = c.active_schedule.version + 1
    <3>1. LastSchedule(head) = head.active_schedule
      BY <2>1, <1>6 DEF LastSchedule
    <3> QED BY <2>1, <3>1, <1>6 DEF ProposalInv, sched
  <2>4. CanSetNewProducers(c, h.new_producers[1])
    BY <2>1, <2>2, <2>3 DEF CanSetNewProducers
  <2>5. next(head, h) = set_new_producers(m, sched)
    BY <2>2, <1>11 DEF next, m
  <2>6. NextAccepts(head, h)
    BY <2>1, <2>4, <1>1, <1>3, <1>9, <1>10, <1>11 DEF NextAccepts, p
  <2> QED BY <2>5, <2>6, <1>8, <1>12 DEF h
<1>13. CASE ~ PromotesProposed(m, CanPromote(c))
  <2>1. h.new_producers = <<>>
    BY <1>9, <1>10, <1>13
  <2>2. next(head, h) = m
    BY <2>1, <1>11 DEF next, m
  <2>3. NextAccepts(head, h)
    BY <2>1, <1>1, <1>3, <1>9, <1>10, <1>11 DEF NextAccepts, p
  <2> QED BY <2>2, <2>3, <1>8, <1>13 DEF h
<1> QED BY <1>12, <1>13

-----------------------------------------------------------------------------
(***************************************************************************)
(* The steps.                                                              *)
(***************************************************************************)

LEMMA QuorumInit == Init => QuorumInv
<1> SUFFICES ASSUME Init PROVE QuorumInv
  OBVIOUS
<1>1. IInv
  BY InitInv
<1> DEFINE e == [producer |-> NoName, confirmed |-> 0, required |-> 1]
<1>2. /\ head.block_num = 1 /\ head.confirm_count = <<>>
      /\ head.pending_schedule = [version |-> 0, producers |-> <<system_account>>]
      /\ head.active_schedule = [version |-> 0, producers |-> <<system_account>>]
      /\ head.dpos_proposed_irreversible_blocknum = 0
      /\ chain = <<e>> /\ pending = <<>>
      /\ gpo.proposed_schedule.producers = <<>>
  BY DEF Init, genheader, NoProposal
<1>3. e \in Entry
  BY DEF Entry
<1>4. chain \in Seq(Entry) /\ Len(chain) = 1 /\ chain[1].required = 1
  BY <1>2, <1>3
<1>5. NotForgotten(head, chain)
  BY <1>4 DEF NotForgotten
<1>6. CountsExact(head.confirm_count, chain) /\ Len(head.confirm_count) = 0
  BY <1>2 DEF CountsExact
<1>7. HasQuorum(chain, head.dpos_proposed_irreversible_blocknum)
  BY <1>2 DEF HasQuorum
<1>8. /\ Short(head.active_schedule) /\ Short(head.pending_schedule)
      /\ Short(gpo.proposed_schedule)
  BY <1>2 DEF Short, max_producers
<1>9. \A j \in 1..Len(chain) : chain[j].required <= 255
  BY <1>4
<1> HIDE DEF e
<1>10. TrackInv(head, chain)
  BY <1>2, <1>4, <1>5, <1>6, <1>7, <1>8, <1>9 DEF TrackInv
<1> QED BY <1>1, <1>2, <1>8, <1>10 DEF QuorumInv

LEMMA QuorumStartBlock == QuorumInv /\ StartBlock => QuorumInv'
<1> SUFFICES ASSUME QuorumInv, StartBlock PROVE QuorumInv'
  OBVIOUS
<1>1. /\ IInv /\ HeaderInv(head) /\ ProposalInv(gpo, head) /\ TrackInv(head, chain)
      /\ Short(gpo.proposed_schedule)
  BY DEF QuorumInv, IInv
<1>2. PICK skip \in 0..(MaxSkipped - SkippedSlots) :
         LET when == head.timestamp + 1 + skip
         IN  \E confirmed \in ConfirmChoices(head, get_scheduled_producer(head, when)) \cap (0..max_uint16) :
                start_block(when, confirmed)
  BY DEF StartBlock
<1> DEFINE when == head.timestamp + 1 + skip
<1>3. PICK confirmed \in Nat : start_block(when, confirmed)
  BY <1>2
<1>4. when \in Nat /\ when > head.timestamp
  <2>1. head.timestamp \in Nat
    BY <1>1 DEF HeaderInv, IsHeaderState
  <2>2. skip \in Nat
    OBVIOUS
  <2> QED BY <2>1, <2>2
<1> HIDE DEF when
<1>5. /\ pending' = <<StartedBlock(when, confirmed)>>
      /\ head' = head /\ gpo' = gpo /\ chain' = chain
      /\ NoDoubleConfirm(head, get_scheduled_producer(head, when), confirmed)
  BY <1>3 DEF start_block
<1>6. PICK b : /\ b = StartedBlock(when, confirmed)
               /\ TrackInv(b.hs, ChainWith(b.hs)) /\ Short(b.gpo.proposed_schedule)
  BY <1>1, <1>4, <1>5, StartedTrack
<1>7. Started(b.hs)
  BY <1>4, <1>5, <1>6 DEF Started
<1>8. IInv'
  BY <1>1, StartBlockInv
<1>9. pending'[1] = b
  BY <1>5, <1>6
<1>10. TrackInv(pending[1].hs, ChainWith(pending[1].hs))'
  BY <1>5, <1>6, <1>9 DEF TrackInv, ChainWith
<1>11. Started(pending[1].hs)'
  BY <1>5, <1>7, <1>9 DEF Started, StartedBlock, ConfirmedState, PromotesProposed
<1>12. Short(pending'[1].gpo.proposed_schedule) /\ Short(gpo'.proposed_schedule)
  BY <1>1, <1>5, <1>6, <1>9
<1>13. TrackInv(head, chain)'
  BY <1>1, <1>5
<1> QED BY <1>8, <1>10, <1>11, <1>12, <1>13 DEF QuorumInv

LEMMA QuorumSetProposed == QuorumInv /\ SetProposedProducers => QuorumInv'
<1> SUFFICES ASSUME QuorumInv, NEW producers \in Proposals, set_proposed_producers(producers)
             PROVE  QuorumInv'
  BY DEF SetProposedProducers
<1>1. IInv /\ IInv'
  <2>1. SetProposedProducers
    BY DEF SetProposedProducers
  <2> QED BY <2>1, SetProposedProducersInv DEF QuorumInv
<1> DEFINE g == [proposed_schedule_block_num |-> head.block_num + 1,
                 proposed_schedule |->
                    [version |-> LastSchedule(pending[1].hs).version + 1,
                     producers |-> producers]]
           b == [pending[1] EXCEPT !.gpo = g]
<1>2. pending' = <<b>> /\ head' = head /\ gpo' = gpo /\ chain' = chain /\ pending # <<>>
  BY DEF set_proposed_producers
<1>3. /\ DOMAIN pending[1] = {"hs", "gpo"}
      /\ TrackInv(pending[1].hs, ChainWith(pending[1].hs)) /\ Started(pending[1].hs)
      /\ TrackInv(head, chain) /\ Short(gpo.proposed_schedule)
  BY <1>1, <1>2 DEF QuorumInv, IInv, PendingInv
<1>4. b.hs = pending[1].hs /\ b.gpo.proposed_schedule.producers = producers
  BY <1>3
<1>5. Short(b.gpo.proposed_schedule)
  BY <1>4, ProposalsAssumption DEF Short
<1> HIDE DEF b
<1>6. pending'[1] = b
  BY <1>2
<1>7. TrackInv(pending[1].hs, ChainWith(pending[1].hs))'
  BY <1>2, <1>3, <1>4, <1>6 DEF TrackInv, ChainWith
<1>8. Started(pending[1].hs)'
  BY <1>2, <1>3, <1>4, <1>6 DEF Started, StartedBlock, ConfirmedState, PromotesProposed
<1> QED BY <1>1, <1>2, <1>3, <1>5, <1>6, <1>7, <1>8 DEF QuorumInv

LEMMA QuorumCommit == QuorumInv /\ CommitBlock => QuorumInv'
<1> SUFFICES ASSUME QuorumInv, NEW add \in BOOLEAN, commit_block(add) PROVE QuorumInv'
  BY DEF CommitBlock
<1>1. IInv'
  BY CommitInv DEF QuorumInv, CommitBlock
<1>2. /\ pending # <<>> /\ pending' = <<>> /\ head' = pending[1].hs
      /\ gpo' = pending[1].gpo /\ chain' = ChainWith(pending[1].hs)
  BY DEF commit_block, ChainWith
<1>3. TrackInv(head, chain)' /\ Short(gpo'.proposed_schedule)
  BY <1>2 DEF QuorumInv
<1> QED BY <1>1, <1>2, <1>3 DEF QuorumInv

LEMMA QuorumAbort == QuorumInv /\ abort_block => QuorumInv'
<1> SUFFICES ASSUME QuorumInv, abort_block PROVE QuorumInv'
  OBVIOUS
<1>1. IInv'
  BY AbortInv DEF QuorumInv
<1>2. pending' = <<>> /\ head' = head /\ gpo' = gpo /\ chain' = chain
  BY DEF abort_block
<1> QED BY <1>1, <1>2 DEF QuorumInv

LEMMA QuorumStutter == QuorumInv /\ UNCHANGED vars => QuorumInv'
<1> SUFFICES ASSUME QuorumInv, UNCHANGED vars PROVE QuorumInv'
  OBVIOUS
<1>1. IInv'
  BY StutterInv DEF QuorumInv
<1>2. head' = head /\ gpo' = gpo /\ pending' = pending /\ chain' = chain
  BY DEF vars
<1>3. ChainWith(pending[1].hs)' = ChainWith(pending[1].hs)
  BY <1>2 DEF ChainWith
<1>4. Started(pending[1].hs)' <=> Started(pending[1].hs)
  BY <1>2 DEF Started, StartedBlock, ConfirmedState, PromotesProposed
<1> QED BY <1>1, <1>2, <1>3, <1>4 DEF QuorumInv

(***************************************************************************)
(* The theorems.                                                           *)
(***************************************************************************)

(***************************************************************************)
(* The inductive invariant of the confirmations: start_block,              *)
(* set_proposed_producers, commit_block and abort_block keep the counters, *)
(* and what producer_to_last_produced remembers, consistent with the       *)
(* chain; the counters as long as no header makes the check of next wrap,  *)
(* the rest whatever the headers confirm.                                  *)
(***************************************************************************)
THEOREM QuorumInductive == Spec => []QuorumInv
<1>1. QuorumInv /\ [Next]_vars => QuorumInv'
  BY QuorumStartBlock, QuorumSetProposed, QuorumCommit, QuorumAbort, QuorumStutter DEF Next
<1> QED BY QuorumInit, <1>1, PTL DEF Spec

(***************************************************************************)
(* As long as no header confirms more blocks than its number (and so makes *)
(* the double-confirm check of next wrap), set_confirmed's uint8 counters  *)
(* never wrap around and never count a producer twice: each is exactly     *)
(* what the block still needs, through every change of schedule and for    *)
(* schedules of up to 125 producers.                                       *)
(***************************************************************************)
THEOREM CountersExact == Spec => []ConfirmCountExact
<1>1. QuorumInv => ConfirmCountExact
  <2> SUFFICES ASSUME QuorumInv, CountsInRange, NEW i \in 1..Len(head.confirm_count)
               PROVE  /\ head.confirm_count[i] > 0
                      /\ head.confirm_count[i] = chain[TrackedBlock(i)].required
                            - Cardinality(Confirmers(TrackedBlock(i)))
    BY DEF ConfirmCountExact
  <2>1. TrackedBlock(i) = Len(chain) - Len(head.confirm_count) + i
    BY DEF TrackedBlock, QuorumInv, TrackInv
  <2>2. Confirmers(TrackedBlock(i)) = ConfirmersIn(chain, TrackedBlock(i))
    BY DEF Confirmers, ConfirmersIn
  <2>3. CountsExact(head.confirm_count, chain)
    BY DEF QuorumInv, TrackInv, InRange, CountsInRange
  <2> QED BY <2>1, <2>2, <2>3 DEF CountsExact
<1> QED BY QuorumInductive, <1>1, PTL

(***************************************************************************)
(* Under the same condition a block that set_confirmed proposes            *)
(* irreversible was confirmed by more than two thirds of the producers     *)
(* scheduled when it was built, all different, whatever schedules came     *)
(* after it.                                                               *)
(***************************************************************************)
THEOREM ProposedHasQuorum == Spec => []QuorumBehindProposed
<1>1. QuorumInv => QuorumBehindProposed
  BY DEF QuorumInv, TrackInv, HasQuorum, QuorumBehindProposed, Confirmers, ConfirmersIn,
         InRange, CountsInRange
<1> QED BY QuorumInductive, <1>1, PTL

(***************************************************************************)
(* Whatever start_block builds, next on the same parent accepts and        *)
(* computes the same header state: producers and validators cannot         *)
(* disagree on a header.                                                   *)
(***************************************************************************)
THEOREM ValidatorsAgree == Spec => []ProducerValidatorAgree
<1>1. QuorumInv => ProducerValidatorAgree
  <2> SUFFICES ASSUME QuorumInv, NEW i \in 1..Len(pending)
               PROVE  /\ NextAccepts(head, HeaderOf(pending[i].hs))
                      /\ next(head, HeaderOf(pending[i].hs)) = pending[i].hs
    BY DEF ProducerValidatorAgree
  <2>1. pending # <<>> /\ i = 1
    <3>1. CASE pending = <<>>
      BY <3>1
    <3>2. CASE pending = <<pending[1]>>
      <4>1. Len(pending) = 1
        BY <3>2
      <4> QED BY <3>2, <4>1
    <3> QED BY <3>1, <3>2 DEF QuorumInv, IInv
  <2>2. Started(pending[1].hs) /\ HeaderInv(head) /\ ProposalInv(gpo, head)
    BY <2>1 DEF QuorumInv, IInv
  <2> QED BY <2>1, <2>2, ValidatorAgrees
<1> QED BY QuorumInductive, <1>1, PTL
=============================================================================
