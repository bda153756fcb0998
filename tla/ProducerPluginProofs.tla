------------------------ MODULE ProducerPluginProofs ------------------------
(***************************************************************************)
(* Proofs about ProducerPlugin, for any schedule, forks, faults, crashes   *)
(* and any number of slots: the production loop never dies, wakes up in    *)
(* time, lets a handler ship only the block it was set for, and lets a     *)
(* producer that is in the schedule from the start sign nothing that       *)
(* contradicts what it signed before.                                      *)
(*                                                                         *)
(* Every handler that changes the head, the watermark or the pending block *)
(* ends in schedule_production_loop, so that one lemma about it            *)
(* (ScheduleKeeps) carries most of the argument.                           *)
(***************************************************************************)
EXTENDS ProducerPlugin, WellFoundedInduction, TLAPS

\* Chains of slots that start at genesis.
Chains == {b \in Seq(Nat) : b # <<>> /\ b[1] = 0}

PendingBlocks == [slot : Nat, confirmed : Nat]

IsPending(p) == p = <<>> \/ \E b \in PendingBlocks : p = <<b>>

Handlers == queued \cup Range(timer)

StateInv ==
    /\ now \in Nat /\ epoch \in Nat /\ watermark \in Nat
    /\ head \in blocks /\ blocks \subseteq Chains
    /\ IsPending(pending) /\ mode \in {"producing", "speculating"}

\* One handler at most is queued, one at most is set.
TimersInv == /\ queued = {} \/ \E h : queued = {h}
             /\ timer = <<>> \/ \E h : timer = <<h>>

\* The handler that may ship the pending block was set for it, and the block
\* confirms what the head and the watermark allow.
OwnInv ==
    mode = "producing" /\ pending # <<>> =>
        /\ watermark <= num(head)
        /\ pending[1].confirmed = blocks_to_confirm(head, watermark, TRUE)
        /\ \A h \in Handlers : IsCurrent(h) /\ h.kind = "produce" => h.slot = pending[1].slot

\* A node that produces, or may, has a handler that will act.  The first part
\* is what resume relies on when it leaves the loop alone.
AliveInv ==
    mode = "producing" \/ (~ DisabledByPolicy(enabled, paused) /\ ActiveAt(head))
       => \E h \in Handlers : IsCurrent(h)

\* What was signed; the watermark covers what was signed since the restart.
SignedInv ==
    \A x \in signed :
        /\ x.block \in Chains /\ x.confirmed \in Nat /\ x.confirmed < num(x.block)
        /\ x.epoch \in Nat /\ x.epoch <= epoch
        /\ ~ JoinsLater /\ x.epoch = epoch => num(x.block) <= watermark

ContradictionInv == ~ JoinsLater => NoContradiction

PluginInv == /\ StateInv /\ TimersInv /\ OwnInv /\ AliveInv /\ WakesInTime
             /\ SignedInv /\ ShippedByOwnTimer /\ ContradictionInv

-----------------------------------------------------------------------------
(***************************************************************************)
(* Chains, slots and the largest element of a set.                         *)
(***************************************************************************)

LEMMA ChainFacts ==
    ASSUME NEW b \in Chains
    PROVE  /\ b \in Seq(Nat) /\ num(b) \in Nat \ {0} /\ slot(b) \in Nat
           /\ \A s \in Nat : /\ Append(b, s) \in Chains /\ num(Append(b, s)) = num(b) + 1
                             /\ slot(Append(b, s)) = s
           /\ \A k \in 1..num(b) : Ancestor(b, k) \in Chains /\ num(Ancestor(b, k)) = k
<1>1. b \in Seq(Nat) /\ Len(b) \in Nat /\ Len(b) # 0 /\ b[1] = 0
  BY DEF Chains
<1>2. Last(b) \in Nat
  BY <1>1 DEF Last
<1>3. ASSUME NEW s \in Nat
      PROVE  /\ Append(b, s) \in Seq(Nat) /\ Len(Append(b, s)) = Len(b) + 1
             /\ Append(b, s)[1] = 0 /\ Append(b, s)[Len(b) + 1] = s
  BY <1>1
<1>4. ASSUME NEW k \in 1..Len(b)
      PROVE  /\ SubSeq(b, 1, k) \in Seq(Nat) /\ Len(SubSeq(b, 1, k)) = k
             /\ SubSeq(b, 1, k)[1] = 0 /\ k # 0
  BY <1>1
<1>5. ASSUME NEW s \in Nat
      PROVE  /\ Append(b, s) \in Chains /\ num(Append(b, s)) = num(b) + 1
             /\ slot(Append(b, s)) = s
  <2> DEFINE c == Append(b, s)
  <2>1. c \in Seq(Nat) /\ Len(c) = Len(b) + 1 /\ c[1] = 0 /\ c[Len(b) + 1] = s
    BY <1>3
  <2> HIDE DEF c
  <2>2. c # <<>> /\ Last(c) = s
    BY <2>1, <1>1 DEF Last
  <2>3. c \in Chains /\ num(c) = num(b) + 1 /\ slot(c) = s
    BY <2>1, <2>2 DEF Chains, num, slot
  <2> QED BY <2>3 DEF c
<1>6. ASSUME NEW k \in 1..num(b)
      PROVE  Ancestor(b, k) \in Chains /\ num(Ancestor(b, k)) = k
  <2>1. k \in 1..Len(b)
    BY DEF num
  <2>2. /\ SubSeq(b, 1, k) \in Seq(Nat) /\ Len(SubSeq(b, 1, k)) = k
        /\ SubSeq(b, 1, k)[1] = 0 /\ k # 0
    BY <2>1, <1>4
  <2>3. SubSeq(b, 1, k) # <<>>
    BY <2>2
  <2> QED BY <2>2, <2>3 DEF Chains, num, Ancestor
<1> QED BY <1>1, <1>2, <1>5, <1>6 DEF num, slot

LEMMA MaxIn ==
    ASSUME NEW n \in Nat, NEW S, S \subseteq 0..n, S # {}
    PROVE  Max(S) \in S
<1> DEFINE T == {d \in 0..n : n - d \in S}
           R == OpToRel(<, Nat)
<1>1. T \in SUBSET Nat
  OBVIOUS
<1>2. PICK x : x \in S
  OBVIOUS
<1>3. n - x \in T
  BY <1>2
<1>4. IsWellFoundedOn(R, Nat)
  BY NatLessThanWellFounded, Zenon
<1>5. \A k, m \in Nat : <<k, m>> \notin R => m <= k
  BY DEF OpToRel
<1> HIDE DEF T, R
<1>6. PICK d \in T : \A k \in T : <<k, d>> \notin R
  BY <1>1, <1>3, <1>4, WFMin, Zenon
<1>7. \A k \in T : d <= k
  BY <1>1, <1>5, <1>6
<1>8. n - d \in S /\ d \in 0..n
  BY <1>6 DEF T
<1>9. \A y \in S : n - d >= y
  <2> TAKE y \in S
  <2>1. n - y \in T /\ y \in 0..n
    BY DEF T
  <2>2. d <= n - y
    BY <2>1, <1>7
  <2> QED BY <2>1, <2>2, <1>8
<1> QED BY <1>8, <1>9 DEF Max

\* The new correlation id is not the one of a handler that is queued.
LEMMA FreshIdIs ==
    ASSUME TimersInv
    PROVE  \A h \in queued : h.cid # FreshId
<1> DEFINE S == {1, 2} \ {h.cid : h \in queued}
<1>1. S # {} /\ S \subseteq 0..2
  <2>1. CASE queued = {}
    BY <2>1
  <2>2. CASE \E h : queued = {h}
    BY <2>2
  <2> QED BY <2>1, <2>2 DEF TimersInv
<1>2. Min(S) \in S
  <2>1. \E x \in S : \A y \in S : x <= y
    BY <1>1
  <2> QED BY <2>1 DEF Min
<1> QED BY <1>2 DEF FreshId

-----------------------------------------------------------------------------
(***************************************************************************)
(* Whose slot it is.                                                       *)
(***************************************************************************)

LEMMA Remainder ==
    ASSUME NEW b \in Nat \ {0}, NEW q \in Nat, NEW r \in Nat, r < b
    PROVE  (b * q + r) % b = r
  OBVIOUS

\* The place in its round, of L turns of R slots each, of the turn of slot s.
Turn(s, L, R) == (s % (L * R)) \div R

\* Slot s is in turn q, which is turn i of round t.
IsAt(s, q, r, t, i, L, R) == r < R /\ s = R * q + r /\ i < L /\ q = L * t + i

LEMMA TurnIs ==
    ASSUME NEW L \in Nat \ {0}, NEW R \in Nat \ {0}, NEW s \in Nat, NEW q \in Nat,
           NEW r \in Nat, NEW t \in Nat, NEW i \in Nat, IsAt(s, q, r, t, i, L, R)
    PROVE  Turn(s, L, R) = i
<1> DEFINE B == L * R
           x == R * i + r
<1>0. r < R /\ s = R * q + r /\ i < L /\ q = L * t + i
  BY DEF IsAt
<1>1. B \in Nat \ {0}
  OBVIOUS
<1>2. x \in Nat
  OBVIOUS
<1>3. x < B
  <2>1. i + 1 <= L
    BY <1>0
  <2>2. R * (i + 1) <= R * L
    BY <2>1
  <2> QED BY <2>2, <1>0
<1>4. s = B * t + x
  BY <1>0
<1>5. (B * t + x) % B = x
  <2> HIDE DEF B, x
  <2> QED BY <1>1, <1>2, <1>3, Remainder
<1>6. s % B = x
  BY <1>4, <1>5
<1>7. (R * i + r) \div R = i
  BY <1>0
<1> QED BY <1>6, <1>7 DEF Turn

LEMMA DivMod ==
    ASSUME NEW a \in Nat, NEW b \in Nat \ {0}
    PROVE  \E q \in Nat, r \in Nat : r < b /\ a = b * q + r /\ a % b = r
<1>1. a % b \in Nat /\ a % b < b
  OBVIOUS
<1>2. a % b = a - b * (a \div b)
  OBVIOUS
<1>3. PICK q \in Nat : q = a \div b
  OBVIOUS
<1>4. PICK r \in Nat : r = a % b
  BY <1>1
<1>5. r < b /\ a = b * q + r /\ a % b = r
  BY <1>1, <1>2, <1>3, <1>4
<1> QED BY <1>5

\* From slot m in the turn im of a round, the first slot of turn i is d turns
\* on: no slot before it is in turn i.
LEMMA NoTurnBefore ==
    ASSUME NEW L \in Nat \ {0}, NEW R \in Nat \ {0}, NEW m \in Nat, NEW i \in Nat, i < L,
           Turn(m, L, R) # i,
           NEW d, d = (IF i < Turn(m, L, R) THEN i - Turn(m, L, R) + L ELSE i - Turn(m, L, R)),
           NEW s \in Nat, m <= s, s < m - (m % R) + d * R
    PROVE  Turn(s, L, R) # i
<1>1. PICK q \in Nat, r \in Nat : r < R /\ m = R * q + r /\ m % R = r
  BY DivMod, Zenon
<1>2. PICK t \in Nat, j \in Nat : j < L /\ q = L * t + j /\ q % L = j
  BY DivMod, Zenon
<1>3. Turn(m, L, R) = j
  <2>1. IsAt(m, q, r, t, j, L, R)
    BY <1>1, <1>2 DEF IsAt
  <2> QED BY <2>1, TurnIs
<1>4. PICK qs \in Nat, rs \in Nat : rs < R /\ s = R * qs + rs /\ s % R = rs
  BY DivMod, Zenon
<1>5. d \in Nat
  BY <1>2, <1>3
<1>6. s < R * (q + d)
  BY <1>1, <1>5
<1>7. qs < q + d
  <2>1. CASE qs >= q + d
    <3>1. R * qs >= R * (q + d)
      BY <2>1, <1>5
    <3> QED BY <3>1, <1>4, <1>5, <1>6
  <2> QED BY <2>1, <1>5
<1>8. qs >= q
  <2>1. CASE qs + 1 <= q
    <3>1. R * (qs + 1) <= R * q
      BY <2>1
    <3> QED BY <3>1, <1>1, <1>4
  <2> QED BY <2>1
<1>9. PICK e \in Nat : qs = q + e /\ e < d
  <2>1. qs - q \in Nat /\ qs = q + (qs - q) /\ qs - q < d
    BY <1>5, <1>7, <1>8
  <2> QED BY <2>1
<1>10. CASE j + e < L
  <2>1. PICK n \in Nat : n = j + e
    OBVIOUS
  <2>2. qs = L * t + n
    BY <2>1, <1>2, <1>9
  <2>3. IsAt(s, qs, rs, t, n, L, R)
    BY <2>1, <2>2, <1>4, <1>10 DEF IsAt
  <2>4. Turn(s, L, R) = n
    BY <2>3, TurnIs
  <2> QED BY <2>1, <2>4, <1>2, <1>3, <1>9
<1>11. CASE j + e >= L
  <2>1. PICK n \in Nat : n = j + e - L /\ n < L
    <3>1. j + e - L \in Nat /\ j + e - L < L
      BY <1>2, <1>3, <1>9, <1>11
    <3> QED BY <3>1
  <2>2. PICK t1 \in Nat : t1 = t + 1
    OBVIOUS
  <2>3. qs = L * t1 + n
    BY <2>1, <2>2, <1>2, <1>9
  <2>4. IsAt(s, qs, rs, t1, n, L, R)
    BY <2>1, <2>3, <1>4 DEF IsAt
  <2>5. Turn(s, L, R) = n
    BY <2>4, TurnIs
  <2> QED BY <2>1, <2>5, <1>2, <1>3, <1>9, <1>11
<1> QED BY <1>2, <1>10, <1>11

LEMMA TurnIn ==
    ASSUME NEW L \in Nat \ {0}, NEW R \in Nat \ {0}, NEW s \in Nat
    PROVE  Turn(s, L, R) \in Nat /\ Turn(s, L, R) < L
<1>1. PICK q \in Nat, r \in Nat : r < R /\ s = R * q + r /\ s % R = r
  BY DivMod, Zenon
<1>2. PICK t \in Nat, i \in Nat : i < L /\ q = L * t + i /\ q % L = i
  BY DivMod, Zenon
<1>3. IsAt(s, q, r, t, i, L, R)
  BY <1>1, <1>2 DEF IsAt
<1>4. Turn(s, L, R) = i
  BY <1>3, TurnIs
<1> QED BY <1>2, <1>4

LEMMA OrderFacts ==
    /\ Len(Order) \in Nat \ {0} /\ producer_repetitions \in Nat \ {0}
    /\ MyIndex \in Nat /\ MyIndex < Len(Order) /\ Order[MyIndex + 1] = Me
    /\ \A i \in Nat : i < Len(Order) /\ Order[i + 1] = Me => i = MyIndex
<1>1. Order \in Seq(STRING) /\ DOMAIN Order = 1..Len(Order) /\ Len(Order) \in Nat
  BY OrderAssumption
<1>2. PICK j \in 1..Len(Order) : Order[j] = Me
  BY <1>1, OrderAssumption DEF Range
<1>3. j - 1 \in 0..(Len(Order) - 1) /\ Order[(j - 1) + 1] = Me
  BY <1>1, <1>2
<1>4. MyIndex \in 0..(Len(Order) - 1) /\ Order[MyIndex + 1] = Me
  BY <1>3 DEF MyIndex
<1>5. producer_repetitions \in Nat \ {0} /\ Len(Order) # 0
  BY <1>2, SlotsAssumption
<1>6. PICK n \in Nat : n = MyIndex /\ n < Len(Order)
  BY <1>1, <1>4
<1>7. ASSUME NEW i \in Nat, i < Len(Order), Order[i + 1] = Me
      PROVE  i = n
  <2>1. i + 1 \in DOMAIN Order /\ n + 1 \in DOMAIN Order
    BY <1>1, <1>6, <1>7
  <2>2. i + 1 = n + 1
    BY <2>1, <1>4, <1>6, <1>7, OrderAssumption DEF IsInjective
  <2> QED BY <2>2
<1> QED BY <1>1, <1>4, <1>5, <1>6, <1>7

\* calculate_next_block_time skips no slot that the watermark allows.
LEMMA NextBlockTime ==
    ASSUME NEW h \in Chains, ActiveAt(h), NEW wm \in Nat, NEW n \in {0, 1}, NEW cur \in Nat,
           NEW s \in (cur + 1)..(calculate_next_block_time(h, wm, n = 1, cur) - 1),
           get_scheduled_producer(h, s) = Me
    PROVE  wm >= num(h) + n + (s - cur)
<1> DEFINE L == Len(Order)
           R == producer_repetitions
           m == MinimumSlot(h, wm, n = 1, cur)
           next == calculate_next_block_time(h, wm, n = 1, cur)
           im == Turn(m, L, R)
           d == IF MyIndex < im THEN MyIndex - im + L ELSE MyIndex - im
<1>1. L \in Nat \ {0} /\ R \in Nat \ {0} /\ MyIndex \in Nat /\ MyIndex < L
  BY OrderFacts
<1>2. num(h) \in Nat
  BY ChainFacts
<1>3. m = cur + (IF wm > num(h) + n THEN wm - (num(h) + n) + 1 ELSE 1)
  BY DEF MinimumSlot
<1>4. m \in Nat
  BY <1>2, <1>3
<1>5. im \in Nat /\ im < L
  BY <1>1, <1>4, TurnIn
<1>6. next = IF im = MyIndex THEN m ELSE m - (m % R) + d * R
  BY DEF calculate_next_block_time, Turn
<1>7. d \in Nat
  BY <1>1, <1>5
<1>8. m % R \in Nat
  BY <1>1, <1>4
<1> HIDE DEF L, R, m, next, im, d
<1>9. next \in Int
  <2>1. d * R \in Int
    BY <1>1, <1>7
  <2> QED BY <2>1, <1>4, <1>6, <1>8
<1>10. s \in Nat /\ cur < s /\ s < next
  BY <1>9 DEF next
<1>11. Turn(s, L, R) = MyIndex
  <2>1. get_scheduled_producer(h, s) = Order[Turn(s, L, R) + 1]
    BY DEF get_scheduled_producer, Turn, L, R
  <2>2. Turn(s, L, R) \in Nat /\ Turn(s, L, R) < L
    BY <1>1, <1>10, TurnIn
  <2> QED BY <2>1, <2>2, OrderFacts DEF L
<1>12. s < m
  <2> SUFFICES ASSUME m <= s PROVE FALSE
    BY <1>4, <1>10
  <2>1. im # MyIndex
    BY <1>4, <1>6, <1>10
  <2>2. s < m - (m % R) + d * R
    BY <2>1, <1>6, <1>10
  <2>3. Turn(s, L, R) # MyIndex
    BY <2>1, <2>2, <1>1, <1>4, <1>10, NoTurnBefore DEF im, d
  <2> QED BY <2>3, <1>11
<1> QED BY <1>2, <1>3, <1>10, <1>12

-----------------------------------------------------------------------------
(***************************************************************************)
(* schedule_production_loop, on head h with watermark wm.                  *)
(***************************************************************************)

\* A block is started that will be shipped.
Producing(h, wm, en, pa, s) ==
    /\ MayProduce(h, wm, en, pa, s) /\ mode' = "producing"
    /\ pending' = <<[slot |-> s, confirmed |-> blocks_to_confirm(h, wm, TRUE)]>>
    /\ \E at : Arm("produce", at, s, s)

\* The block could not be started.
Failing(s) == /\ mode' \in {"producing", "speculating"} /\ pending' = <<>>
              /\ Arm("loop", now, s, s)

\* The node waits for its turn, with a speculative block or with none.
Waits(h, wm, en, pa, p, s) ==
    /\ mode' = "speculating"
    /\ pending' = p \/ pending' = <<[slot |-> s, confirmed |-> 0]>>
    /\ IF DisabledByPolicy(en, pa) THEN Disarm
       ELSE schedule_delayed_production_loop(h, wm, pending' # <<>>, s)

LEMMA ScheduleOutcome ==
    ASSUME now \in Nat, NEW h \in Chains, NEW wm \in Nat, NEW en, NEW pa, NEW p, NEW f,
           schedule_production_loop(h, wm, en, pa, p, f)
    PROVE  \E s \in Nat : \/ Producing(h, wm, en, pa, s) \/ Failing(s)
                          \/ Waits(h, wm, en, pa, p, s)
<1>1. PICK late \in BOOLEAN, fails \in BOOLEAN :
        LET s == PendingSlot(h, late)
            producing == MayProduce(h, wm, en, pa, s)
            started == <<[slot |-> s, confirmed |-> blocks_to_confirm(h, wm, producing)]>>
        IN  /\ late => MayBeLate(h)
            /\ mode' = IF producing THEN "producing" ELSE "speculating"
            /\ IF ~ producing /\ now - slot(h) > StaleAge
               THEN /\ ~ fails /\ pending' = p
                    /\ IF DisabledByPolicy(en, pa)
                       THEN Disarm
                       ELSE schedule_delayed_production_loop(h, wm, p # <<>>, s)
               ELSE IF fails
               THEN f < MaxFaults /\ pending' = <<>> /\ Arm("loop", now, s, s)
               ELSE /\ pending' = started
                    /\ IF producing
                       THEN \E exhausted \in BOOLEAN : Arm("produce", IF exhausted THEN s - 1 ELSE s, s, s)
                       ELSE IF DisabledByPolicy(en, pa)
                       THEN Disarm
                       ELSE schedule_delayed_production_loop(h, wm, TRUE, s)
            /\ faults' = IF fails THEN f + 1 ELSE f
  BY DEF schedule_production_loop
<1> DEFINE s == PendingSlot(h, late)
<1>2. s \in Nat
  <2>1. PICK a \in Nat : a = slot(h)
    BY ChainFacts
  <2>2. s = (IF now > a THEN now ELSE a) + (IF late THEN 2 ELSE 1)
    BY <2>1 DEF PendingSlot
  <2> QED BY <2>2
<1>3. CASE MayProduce(h, wm, en, pa, s)
  BY <1>1, <1>2, <1>3 DEF Producing, Failing
<1>4. CASE ~ MayProduce(h, wm, en, pa, s)
  <2>1. blocks_to_confirm(h, wm, MayProduce(h, wm, en, pa, s)) = 0
    BY <1>4 DEF blocks_to_confirm
  <2>2. mode' = "speculating"
    BY <1>1, <1>4
  <2>3. CASE now - slot(h) > StaleAge
    <3>1. /\ pending' = p
          /\ IF DisabledByPolicy(en, pa) THEN Disarm
             ELSE schedule_delayed_production_loop(h, wm, p # <<>>, s)
      BY <1>1, <1>4, <2>3
    <3> QED BY <3>1, <2>2, <1>2 DEF Waits
  <2>4. CASE ~ (now - slot(h) > StaleAge) /\ ~ fails
    <3>1. /\ pending' = <<[slot |-> s, confirmed |-> 0]>>
          /\ IF DisabledByPolicy(en, pa) THEN Disarm
             ELSE schedule_delayed_production_loop(h, wm, TRUE, s)
      BY <1>1, <1>4, <2>1, <2>4
    <3>2. pending' # <<>>
      BY <3>1
    <3>3. (pending' # <<>>) = TRUE
      BY <3>2
    <3> HIDE DEF s
    <3>4. IF DisabledByPolicy(en, pa) THEN Disarm
          ELSE schedule_delayed_production_loop(h, wm, pending' # <<>>, s)
      BY <3>1, <3>3
    <3> QED BY <3>1, <3>4, <2>2, <1>2 DEF Waits
  <2>5. CASE ~ (now - slot(h) > StaleAge) /\ fails
    BY <1>1, <1>2, <1>4, <2>5 DEF Failing
  <2> QED BY <2>3, <2>4, <2>5
<1> QED BY <1>3, <1>4

\* Of the handlers that are left after a new one was set only that one acts.
LEMMA ArmFacts ==
    ASSUME TimersInv, queued' \subseteq queued, NEW kind, NEW at, NEW from, NEW s,
           Arm(kind, at, from, s)
    PROVE  \E t : /\ timer' = <<t>> /\ Range(timer') = {t}
                  /\ t.kind = kind /\ t.from = from /\ t.slot = s /\ t.cid = cid'
                  /\ t \in Handlers' /\ \A h \in Handlers' : h.cid = cid' => h = t
<1> DEFINE t == Handler(FreshId, kind, at, from, s)
<1>1. timer' = <<t>> /\ cid' = FreshId
  BY DEF Arm
<1>2. t.kind = kind /\ t.from = from /\ t.slot = s /\ t.cid = FreshId
  BY DEF Handler
<1> HIDE DEF t
<1>3. Range(timer') = {t}
  BY <1>1 DEF Range
<1>4. Handlers' = queued' \cup {t}
  BY <1>3 DEF Handlers
<1>5. \A h \in queued' : h.cid # cid'
  BY <1>1, FreshIdIs
<1> QED BY <1>1, <1>2, <1>3, <1>4, <1>5

LEMMA ConfirmCount ==
    ASSUME NEW h \in Chains, NEW wm \in Nat, wm <= num(h)
    PROVE  /\ blocks_to_confirm(h, wm, TRUE) \in Nat
           /\ blocks_to_confirm(h, wm, TRUE) <= num(h) - wm
           /\ wm = 0 => blocks_to_confirm(h, wm, TRUE) = 0
<1>1. num(h) \in Nat /\ uint16_range \in Nat \ {0}
  BY ChainFacts, SlotsAssumption
<1>2. PICK a \in Nat : a = num(h) - wm
  BY <1>1
<1>3. a % uint16_range \in Nat /\ a % uint16_range <= a
  BY <1>1, <1>2
<1> QED BY <1>1, <1>2, <1>3 DEF blocks_to_confirm

LEMMA ScheduleKeeps ==
    ASSUME now \in Nat, TimersInv, queued' \subseteq queued,
           NEW h \in Chains, NEW wm \in Nat, NEW en, NEW pa, NEW p, IsPending(p), NEW f,
           head' = h, watermark' = wm, enabled' = en, paused' = pa,
           schedule_production_loop(h, wm, en, pa, p, f)
    PROVE  /\ mode' \in {"producing", "speculating"} /\ IsPending(pending')
           /\ TimersInv' /\ OwnInv' /\ AliveInv' /\ WakesInTime'
<1>1. PICK s \in Nat : \/ Producing(h, wm, en, pa, s) \/ Failing(s)
                       \/ Waits(h, wm, en, pa, p, s)
  BY ScheduleOutcome
<1>2. mode' \in {"producing", "speculating"}
  BY <1>1 DEF Producing, Failing, Waits
<1>3. queued' = {} \/ \E x : queued' = {x}
  BY DEF TimersInv
<1>4. num(h) \in Nat
  BY ChainFacts
<1>5. \A x : IsCurrent(x)' <=> x.cid = cid'
  BY DEF IsCurrent
<1>6. ASSUME NEW kind, NEW at, NEW from \in Nat, NEW to, Arm(kind, at, from, to)
      PROVE  /\ TimersInv' /\ AliveInv'
             /\ \A x \in Handlers' : IsCurrent(x)' => x.kind = kind /\ x.slot = to
             /\ \A x \in Range(timer') : x.from = from /\ x.slot = to
  <2>1. PICK t : /\ timer' = <<t>> /\ Range(timer') = {t}
                 /\ t.kind = kind /\ t.from = from /\ t.slot = to /\ t.cid = cid'
                 /\ t \in Handlers' /\ \A x \in Handlers' : x.cid = cid' => x = t
    BY <1>6, ArmFacts
  <2>2. TimersInv'
    BY <2>1, <1>3 DEF TimersInv
  <2>3. AliveInv'
    BY <2>1 DEF AliveInv, IsCurrent
  <2> QED BY <2>1, <2>2, <2>3, <1>5
<1>7. CASE Producing(h, wm, en, pa, s)
  <2>1. PICK at : Arm("produce", at, s, s)
    BY <1>7 DEF Producing
  <2>2. /\ TimersInv' /\ AliveInv'
        /\ \A x \in Handlers' : IsCurrent(x)' => x.kind = "produce" /\ x.slot = s
        /\ \A x \in Range(timer') : x.from = s /\ x.slot = s
    BY <2>1, <1>6
  <2> DEFINE n == blocks_to_confirm(h, wm, TRUE)
             b == [slot |-> s, confirmed |-> n]
  <2>3. wm <= num(h)
    BY <1>4, <1>7 DEF Producing, MayProduce
  <2>4. n \in Nat
    BY <2>3, ConfirmCount
  <2>5. pending' = <<b>> /\ mode' = "producing"
    BY <1>7 DEF Producing
  <2>6. b \in PendingBlocks /\ b.slot = s /\ b.confirmed = n
    BY <2>4 DEF PendingBlocks
  <2> HIDE DEF b
  <2>7. IsPending(pending') /\ pending'[1] = b
    BY <2>5, <2>6 DEF IsPending
  <2>8. OwnInv'
    BY <2>2, <2>3, <2>6, <2>7, Zenon DEF OwnInv
  <2>9. WakesInTime'
    <3>1. (s + 1)..(s - 1) = {}
      OBVIOUS
    <3> QED BY <3>1, <2>2 DEF WakesInTime
  <2> QED BY <2>2, <2>7, <2>8, <2>9, <1>2
<1>8. CASE Failing(s)
  <2>1. /\ TimersInv' /\ AliveInv' /\ \A x \in Range(timer') : x.from = s /\ x.slot = s
    BY <1>6, <1>8 DEF Failing
  <2>2. IsPending(pending') /\ OwnInv'
    BY <1>8 DEF Failing, IsPending, OwnInv
  <2>3. WakesInTime'
    <3>1. (s + 1)..(s - 1) = {}
      OBVIOUS
    <3> QED BY <3>1, <2>1 DEF WakesInTime
  <2> QED BY <2>1, <2>2, <2>3, <1>2
<1>9. CASE Waits(h, wm, en, pa, p, s)
  <2>1. IsPending(pending') /\ OwnInv' /\ mode' = "speculating"
    <3>1. [slot |-> s, confirmed |-> 0] \in PendingBlocks
      BY DEF PendingBlocks
    <3> QED BY <3>1, <1>9 DEF Waits, IsPending, OwnInv
  <2>2. CASE Disarm /\ (DisabledByPolicy(en, pa) \/ ~ ActiveAt(h))
    <3>1. timer' = <<>> /\ Range(timer') = {}
      BY <2>2 DEF Disarm, Range
    <3>2. TimersInv' /\ WakesInTime'
      BY <3>1, <1>3 DEF TimersInv, WakesInTime
    <3>3. AliveInv'
      BY <2>1, <2>2 DEF AliveInv
    <3> QED BY <3>2, <3>3, <2>1
  <2>3. CASE ~ DisabledByPolicy(en, pa) /\ ActiveAt(h)
    <3>1. Len(pending') \in {0, 1} /\ ((Len(pending') = 1) = (pending' # <<>>))
      BY <2>1 DEF IsPending
    <3>2. PICK next : next = calculate_next_block_time(h, wm, pending' # <<>>, s)
      OBVIOUS
    <3>3. \E at : Arm("loop", at, s, next)
      BY <3>2, <2>3, <1>9 DEF Waits, schedule_delayed_production_loop
    <3>4. /\ TimersInv' /\ AliveInv' /\ \A x \in Range(timer') : x.from = s /\ x.slot = next
      BY <3>3, <1>6
    <3>5. ASSUME NEW i \in (s + 1)..(next - 1), get_scheduled_producer(h, i) = Me
          PROVE  wm >= num(h) + Len(pending') + (i - s)
      <4>1. next = calculate_next_block_time(h, wm, Len(pending') = 1, s)
        BY <3>1, <3>2
      <4> QED BY <4>1, <3>1, <3>5, <2>3, NextBlockTime
    <3>6. WakesInTime'
      BY <3>4, <3>5 DEF WakesInTime
    <3> QED BY <3>4, <3>6, <2>1
  <2> QED BY <2>2, <2>3, <1>9 DEF Waits, schedule_delayed_production_loop
<1> QED BY <1>1, <1>7, <1>8, <1>9

-----------------------------------------------------------------------------
(***************************************************************************)
(* Statements the producer signs.                                          *)
(***************************************************************************)

LEMMA ConfirmsFacts ==
    ASSUME NEW x, x.block \in Chains, x.confirmed \in Nat, x.confirmed < num(x.block),
           NEW a \in Confirms(x)
    PROVE  /\ num(a) \in Nat /\ num(a) <= num(x.block)
           /\ num(a) >= num(x.block) - x.confirmed /\ a = Ancestor(x.block, num(a))
<1>1. PICK n \in Nat : n = num(x.block)
  BY ChainFacts
<1>2. PICK c \in Nat : c = x.confirmed
  OBVIOUS
<1>3. PICK k \in (n - c)..n : a = Ancestor(x.block, k)
  BY <1>1, <1>2 DEF Confirms
<1>4. k \in 1..n
  BY <1>1, <1>2
<1>5. num(a) = k
  BY <1>1, <1>3, <1>4, ChainFacts
<1> QED BY <1>1, <1>2, <1>3, <1>5

\* The block that is shipped says nothing about the numbers below the
\* watermark, and so nothing about what was signed since the restart.
LEMMA NewStatement ==
    ASSUME StateInv, SignedInv, ContradictionInv, ShippedByOwnTimer, watermark <= num(head),
           NEW z, z.block \in Chains, num(z.block) = num(head) + 1, z.epoch = epoch,
           z.confirmed = blocks_to_confirm(head, watermark, TRUE), z.timer = slot(z.block),
           signed' = signed \cup {z}, watermark' = num(z.block), epoch' = epoch
    PROVE  SignedInv' /\ ContradictionInv' /\ ShippedByOwnTimer'
<1>1. PICK n \in Nat : n = num(head)
  BY ChainFacts DEF StateInv
<1>2. watermark \in Nat /\ epoch \in Nat /\ head \in Chains
  BY DEF StateInv
<1>3. PICK w \in Nat : w = watermark
  BY <1>2
<1>4. PICK c \in Nat : c = z.confirmed /\ c <= n - w /\ (w = 0 => c = 0)
  BY <1>1, <1>2, <1>3, ConfirmCount
<1>5. w <= n
  BY <1>1, <1>3
<1>6. c <= n - w /\ (w = 0 => c = 0)
  BY <1>4
<1>7. c < n + 1
  BY <1>5, <1>6
<1>8. num(z.block) = n + 1
  BY <1>1
<1>9. z.confirmed \in Nat /\ z.confirmed < num(z.block) /\ num(z.block) = n + 1
  BY <1>4, <1>7, <1>8
<1>10. ASSUME NEW x \in signed'
      PROVE  /\ x.block \in Chains /\ x.confirmed \in Nat /\ x.confirmed < num(x.block)
             /\ x.epoch \in Nat /\ x.epoch <= epoch
             /\ ~ JoinsLater /\ x.epoch = epoch => num(x.block) <= num(z.block)
             /\ x.timer = slot(x.block)
  <2>1. CASE x \in signed
    <3>1. /\ x.block \in Chains /\ x.confirmed \in Nat /\ x.confirmed < num(x.block)
          /\ x.epoch \in Nat /\ x.epoch <= epoch
          /\ ~ JoinsLater /\ x.epoch = epoch => num(x.block) <= watermark
          /\ x.timer = slot(x.block)
      BY <2>1 DEF SignedInv, ShippedByOwnTimer
    <3>2. PICK m \in Nat : m = num(x.block)
      BY <3>1, ChainFacts
    <3>3. m <= watermark => m <= n + 1
      BY <1>1, <1>2
    <3> QED BY <3>1, <3>2, <3>3, <1>9
  <2>2. CASE x = z
    <3>1. epoch <= epoch /\ num(z.block) <= num(z.block)
      BY <1>2, <1>9
    <3> QED BY <2>2, <3>1, <1>2, <1>9
  <2> QED BY <2>1, <2>2
<1>11. SignedInv'
  BY <1>10 DEF SignedInv
<1>12. ShippedByOwnTimer'
  BY <1>10 DEF ShippedByOwnTimer
<1>13. ASSUME ~ JoinsLater, NEW y \in signed, y.epoch = epoch,
             NEW a \in Confirms(z), NEW b \in Confirms(y)
      PROVE  num(a) # num(b)
  <2>1. /\ y.block \in Chains /\ y.confirmed \in Nat /\ y.confirmed < num(y.block)
        /\ num(y.block) <= watermark
    BY <1>13 DEF SignedInv
  <2>2. PICK m \in Nat \ {0} : m = num(y.block)
    BY <2>1, ChainFacts
  <2>3. PICK j \in Nat : j = num(b) /\ j <= m
    BY <2>1, <2>2, ConfirmsFacts
  <2>4. PICK i \in Nat : i = num(a) /\ i >= (n + 1) - c
    BY <1>4, <1>9, ConfirmsFacts
  <2>5. m <= w
    BY <2>1, <2>2, <1>3
  <2>6. j <= m /\ i >= (n + 1) - c
    BY <2>3, <2>4
  <2>7. j < i
    BY <2>5, <2>6, <1>6
  <2> QED BY <2>3, <2>4, <2>7
<1>14. ContradictionInv'
  <2> SUFFICES ASSUME ~ JoinsLater, NEW x \in signed', NEW y \in signed', x.epoch = y.epoch,
                      NEW a \in Confirms(x), NEW b \in Confirms(y), num(a) = num(b)
               PROVE  a = b
    BY DEF ContradictionInv, NoContradiction
  <2>1. CASE x \in signed /\ y \in signed
    BY <2>1 DEF ContradictionInv, NoContradiction
  <2>2. CASE x = z /\ y = z
    <3>1. a = Ancestor(z.block, num(a)) /\ b = Ancestor(z.block, num(b))
      BY <2>2, <1>9, ConfirmsFacts
    <3> QED BY <3>1, Zenon
  <2>3. CASE x = z /\ y \in signed
    BY <2>3, <1>13
  <2>4. CASE x \in signed /\ y = z
    BY <2>4, <1>13
  <2> QED BY <2>1, <2>2, <2>3, <2>4
<1> QED BY <1>11, <1>12, <1>14

\* Steps that sign nothing.
LEMMA NothingSigned ==
    ASSUME SignedInv, ContradictionInv, ShippedByOwnTimer, signed' = signed, epoch' = epoch,
           ~ JoinsLater => watermark' = watermark
    PROVE  SignedInv' /\ ContradictionInv' /\ ShippedByOwnTimer'
<1>1. SignedInv'
  BY DEF SignedInv
<1>2. ContradictionInv' /\ ShippedByOwnTimer'
  BY DEF ContradictionInv, NoContradiction, ShippedByOwnTimer
<1> QED BY <1>1, <1>2

-----------------------------------------------------------------------------
(***************************************************************************)
(* The steps.                                                              *)
(***************************************************************************)

\* The watermark after blocks were applied.
LEMMA CommonType ==
    ASSUME NEW a \in Chains, NEW h \in Chains
    PROVE  Common(a, h) \in Nat
<1> DEFINE S == {k \in 1..num(a) : k <= num(h) /\ Ancestor(a, k) = Ancestor(h, k)}
<1>1. num(a) \in Nat \ {0} /\ num(h) \in Nat \ {0}
  BY ChainFacts
<1>2. 1 \in S
  <2>1. \A b \in Chains : \E c \in Seq(Nat) : c = Ancestor(b, 1) /\ Len(c) = 1 /\ c[1] = 0
    <3> TAKE b \in Chains
    <3>1. b \in Seq(Nat) /\ b[1] = 0 /\ Len(b) >= 1
      BY DEF Chains
    <3>2. /\ SubSeq(b, 1, 1) \in Seq(Nat) /\ Len(SubSeq(b, 1, 1)) = 1
          /\ SubSeq(b, 1, 1)[1] = 0
      BY <3>1
    <3> QED BY <3>2 DEF Ancestor
  <2>2. \A c, d \in Seq(Nat) : Len(c) = 1 /\ Len(d) = 1 /\ c[1] = d[1] => c = d
    OBVIOUS
  <2>3. Ancestor(a, 1) = Ancestor(h, 1)
    BY <2>1, <2>2
  <2> QED BY <2>3, <1>1
<1>3. S \subseteq 0..num(a)
  BY <1>1
<1>4. Max(S) \in S
  BY <1>1, <1>2, <1>3, MaxIn
<1> QED BY <1>1, <1>4 DEF Common

LEMMA WatermarkIs ==
    ASSUME NEW h \in Chains, NEW from \in Nat, NEW ls, NEW wm \in Nat
    PROVE  /\ WatermarkAfter(h, from, ls, wm) \in Nat
           /\ ~ JoinsLater => WatermarkAfter(h, from, ls, wm) = wm
<1> DEFINE promoting == {k \in Considered(h, from, ls) : Joins(Ancestor(h, k))}
<1>1. num(h) \in Nat \ {0}
  BY ChainFacts
<1>2. promoting \subseteq 0..num(h)
  BY <1>1 DEF Considered
<1>3. WatermarkAfter(h, from, ls, wm) = IF promoting = {} THEN wm ELSE Max(promoting)
  BY DEF WatermarkAfter
<1>4. promoting # {} => Max(promoting) \in Nat
  <2>1. promoting # {} => Max(promoting) \in promoting
    BY <1>1, <1>2, MaxIn
  <2> QED BY <2>1, <1>1, <1>2
<1>5. ~ JoinsLater => promoting = {}
  BY DEF Joins
<1> QED BY <1>3, <1>4, <1>5

\* Steps after which the same handlers act.
LEMMA SameLoop ==
    ASSUME PluginInv, Handlers' \subseteq Handlers, Range(timer') \subseteq Range(timer),
           \A h \in Handlers : IsCurrent(h) => h \in Handlers',
           UNCHANGED <<cid, mode, pending, head, watermark>>,
           DisabledByPolicy(enabled, paused) => DisabledByPolicy(enabled, paused)'
    PROVE  OwnInv' /\ AliveInv' /\ WakesInTime'
<1>1. \A h : IsCurrent(h)' = IsCurrent(h)
  BY DEF IsCurrent
<1>2. OwnInv'
  BY <1>1 DEF PluginInv, OwnInv
<1>3. AliveInv'
  BY <1>1 DEF PluginInv, AliveInv
<1>4. WakesInTime'
  BY DEF PluginInv, WakesInTime
<1> QED BY <1>2, <1>3, <1>4

\* Steps that end in schedule_production_loop.
LEMMA Rescheduled ==
    ASSUME PluginInv, now' = now, queued' \subseteq queued, NEW p, IsPending(p), NEW f,
           UNCHANGED <<blocks, head, enabled, watermark, signed, epoch>>,
           schedule_production_loop(head, watermark, enabled, paused', p, f)
    PROVE  PluginInv'
<1>1. /\ StateInv /\ TimersInv /\ SignedInv /\ ShippedByOwnTimer /\ ContradictionInv
  BY DEF PluginInv
<1>2. now \in Nat /\ head \in Chains /\ watermark \in Nat
  BY <1>1 DEF StateInv
<1>3. /\ mode' \in {"producing", "speculating"} /\ IsPending(pending') /\ TimersInv'
      /\ OwnInv' /\ AliveInv' /\ WakesInTime'
  BY <1>1, <1>2, ScheduleKeeps
<1>4. StateInv'
  BY <1>1, <1>3 DEF StateInv
<1>5. SignedInv' /\ ContradictionInv' /\ ShippedByOwnTimer'
  BY <1>1, NothingSigned
<1> QED BY <1>3, <1>4, <1>5 DEF PluginInv

LEMMA QuietSteps ==
    ASSUME PluginInv, Tick \/ pause \/ UNCHANGED vars
    PROVE  PluginInv'
<1>1. /\ now' \in Nat
      /\ UNCHANGED <<blocks, head, enabled, watermark, queued, signed, epoch,
                     mode, pending, timer, cid>>
  BY DEF PluginInv, StateInv, Tick, pause, vars, loop
<1>2. DisabledByPolicy(enabled, paused) => DisabledByPolicy(enabled, paused)'
  BY DEF Tick, pause, vars, DisabledByPolicy
<1>3. OwnInv' /\ AliveInv' /\ WakesInTime'
  BY <1>1, <1>2, SameLoop DEF Handlers
<1>4. StateInv' /\ TimersInv'
  BY <1>1 DEF PluginInv, StateInv, TimersInv
<1>5. SignedInv' /\ ContradictionInv' /\ ShippedByOwnTimer'
  BY <1>1, NothingSigned DEF PluginInv
<1> QED BY <1>3, <1>4, <1>5 DEF PluginInv

LEMMA TimerSteps ==
    ASSUME PluginInv, Expire \/ \E h \in queued : DropHandler(h)
    PROVE  PluginInv'
<1>1. /\ UNCHANGED <<now, blocks, head, enabled, paused, watermark, signed, epoch,
                     mode, pending, cid>>
  BY DEF Expire, DropHandler, loop
<1>2. /\ TimersInv' /\ Handlers' \subseteq Handlers /\ Range(timer') \subseteq Range(timer)
      /\ \A h \in Handlers : IsCurrent(h) => h \in Handlers'
  <2>1. CASE Expire
    <3>1. PICK t : timer = <<t>> /\ queued = {} /\ timer' = <<>> /\ queued' = {t}
      BY <2>1 DEF Expire, PluginInv, TimersInv
    <3>2. Range(timer) = {t} /\ Range(timer') = {}
      BY <3>1 DEF Range
    <3> QED BY <3>1, <3>2 DEF TimersInv, Handlers
  <2>2. CASE \E h \in queued : DropHandler(h)
    <3>1. PICK h \in queued : ~ IsCurrent(h) /\ queued' = queued \ {h} /\ timer' = timer
      BY <2>2 DEF DropHandler, Dequeue, loop
    <3>2. TimersInv'
      BY <3>1 DEF PluginInv, TimersInv
    <3> QED BY <3>1, <3>2 DEF Handlers
  <2> QED BY <2>1, <2>2
<1>3. OwnInv' /\ AliveInv' /\ WakesInTime'
  <2>1. DisabledByPolicy(enabled, paused) => DisabledByPolicy(enabled, paused)'
    BY <1>1 DEF DisabledByPolicy
  <2> QED BY <2>1, <1>1, <1>2, SameLoop
<1>4. StateInv'
  BY <1>1 DEF PluginInv, StateInv
<1>5. SignedInv' /\ ContradictionInv' /\ ShippedByOwnTimer'
  BY <1>1, NothingSigned DEF PluginInv
<1> QED BY <1>2, <1>3, <1>4, <1>5 DEF PluginInv

LEMMA LoopHandlerKeeps ==
    ASSUME PluginInv, NEW h \in queued, LoopHandler(h)
    PROVE  PluginInv'
<1>1. /\ now' = now /\ queued' \subseteq queued /\ paused' = paused
      /\ UNCHANGED <<blocks, head, enabled, watermark, signed, epoch>>
      /\ schedule_production_loop(head, watermark, enabled, paused, pending, faults)
  BY DEF LoopHandler, Dequeue
<1>2. IsPending(pending)
  BY DEF PluginInv, StateInv
<1> QED BY <1>1, <1>2, Rescheduled

LEMMA ProduceHandlerKeeps ==
    ASSUME PluginInv, NEW h \in queued, ProduceHandler(h)
    PROVE  PluginInv'
<1>1. /\ IsCurrent(h) /\ h.kind = "produce" /\ queued' \subseteq queued
      /\ UNCHANGED <<now, enabled, paused, epoch>>
  BY DEF ProduceHandler, Dequeue
<1>2. IsPending(<<>>)
  BY DEF IsPending
<1>3. CASE mode = "producing" /\ pending # <<>>
  <2> DEFINE b == Append(head, pending[1].slot)
             z == [block |-> b, confirmed |-> pending[1].confirmed,
                   timer |-> h.slot, epoch |-> epoch]
  <2>1. /\ head' = b /\ blocks' = blocks \cup {b} /\ watermark' = num(b)
        /\ signed' = signed \cup {z}
        /\ schedule_production_loop(b, num(b), enabled, paused, <<>>, faults)
    BY <1>3 DEF ProduceHandler
  <2>2. /\ watermark <= num(head) /\ h.slot = pending[1].slot
        /\ pending[1].confirmed = blocks_to_confirm(head, watermark, TRUE)
    BY <1>1, <1>3 DEF PluginInv, OwnInv, Handlers
  <2>3. pending[1].slot \in Nat
    BY <1>3 DEF PluginInv, StateInv, IsPending, PendingBlocks
  <2>4. head \in Chains /\ now \in Nat
    BY DEF PluginInv, StateInv
  <2>5. b \in Chains /\ num(b) = num(head) + 1 /\ slot(b) = pending[1].slot
    BY <2>3, <2>4, ChainFacts
  <2>6. num(b) \in Nat
    BY <2>5, ChainFacts
  <2>7. /\ z.block = b /\ z.confirmed = pending[1].confirmed /\ z.timer = h.slot
        /\ z.epoch = epoch
    OBVIOUS
  <2> HIDE DEF b, z
  <2>8. SignedInv' /\ ContradictionInv' /\ ShippedByOwnTimer'
    <3>1. StateInv /\ SignedInv /\ ContradictionInv /\ ShippedByOwnTimer
      BY DEF PluginInv
    <3>2. z.block \in Chains /\ num(z.block) = num(head) + 1 /\ z.timer = slot(z.block)
      BY <2>2, <2>5, <2>7
    <3> QED BY <3>1, <3>2, <2>1, <2>2, <2>7, <1>1, NewStatement
  <2>9. /\ mode' \in {"producing", "speculating"} /\ IsPending(pending') /\ TimersInv'
        /\ OwnInv' /\ AliveInv' /\ WakesInTime'
    <3>1. TimersInv /\ enabled' = enabled /\ paused' = paused
      BY <1>1 DEF PluginInv
    <3> QED BY <3>1, <2>1, <2>4, <2>5, <2>6, <1>1, <1>2, ScheduleKeeps
  <2>10. StateInv'
    BY <2>1, <2>5, <2>6, <2>9, <1>1 DEF PluginInv, StateInv
  <2> QED BY <2>8, <2>9, <2>10 DEF PluginInv
<1>4. CASE ~ (mode = "producing" /\ pending # <<>>)
  <2>1. /\ schedule_production_loop(head, watermark, enabled, paused, <<>>, faults)
        /\ UNCHANGED <<head, blocks, watermark, signed>>
    BY <1>4 DEF ProduceHandler
  <2> QED BY <2>1, <1>1, <1>2, Rescheduled
<1> QED BY <1>3, <1>4

LEMMA IncomingBlockKeeps ==
    ASSUME PluginInv, IncomingBlock
    PROVE  PluginInv'
<1>1. PICK x \in blocks, s \in 1..(now + MaxAhead), raisesLib \in BOOLEAN :
         on_incoming_block(Append(x, s), raisesLib)
  BY DEF IncomingBlock
<1> DEFINE b == Append(x, s)
           h == IF num(b) > num(head) \/ raisesLib THEN b ELSE head
           wm == WatermarkAfter(h, Common(head, h), last_signed, watermark)
           en == enabled \/ slot(h) + 1 >= now
<1>2. StateInv /\ TimersInv /\ SignedInv /\ ContradictionInv /\ ShippedByOwnTimer
  BY DEF PluginInv
<1>3. now \in Nat /\ x \in Chains /\ head \in Chains /\ s \in Nat /\ watermark \in Nat
  BY <1>2, SlotsAssumption DEF StateInv
<1>4. b \in Chains
  BY <1>3, ChainFacts
<1>5. h \in Chains /\ h \in blocks \cup {b}
  BY <1>2, <1>3, <1>4 DEF StateInv
<1>6. wm \in Nat /\ (~ JoinsLater => wm = watermark)
  BY <1>3, <1>5, CommonType, WatermarkIs
<1>7. /\ blocks' = blocks \cup {b} /\ head' = h /\ watermark' = wm /\ enabled' = en
      /\ schedule_production_loop(h, wm, en, paused, <<>>, faults)
      /\ UNCHANGED <<now, paused, queued, signed, epoch>>
  BY <1>1 DEF on_incoming_block
<1>8. IsPending(<<>>) /\ queued' \subseteq queued
  BY <1>7 DEF IsPending
<1> HIDE DEF b, h, wm, en
<1>9. /\ mode' \in {"producing", "speculating"} /\ IsPending(pending') /\ TimersInv'
      /\ OwnInv' /\ AliveInv' /\ WakesInTime'
  BY <1>2, <1>3, <1>5, <1>6, <1>7, <1>8, ScheduleKeeps
<1>10. StateInv'
  BY <1>2, <1>4, <1>5, <1>6, <1>7, <1>9 DEF StateInv
<1>11. SignedInv' /\ ContradictionInv' /\ ShippedByOwnTimer'
  BY <1>2, <1>6, <1>7, NothingSigned
<1> QED BY <1>9, <1>10, <1>11 DEF PluginInv

LEMMA RejectedKeeps ==
    ASSUME PluginInv, rejected_block
    PROVE  PluginInv'
<1>1. PICK b \in blocks :
         LET from == Common(head, b)
             ls == SignedThrough(b, from, last_signed)
             wm == WatermarkAfter(head, from, ls, WatermarkAfter(b, from, last_signed, watermark))
         IN  /\ watermark' = wm
             /\ schedule_production_loop(head, wm, enabled, paused, <<>>, faults + 1)
  BY DEF rejected_block
<1> DEFINE from == Common(head, b)
           ls == SignedThrough(b, from, last_signed)
           seen == WatermarkAfter(b, from, last_signed, watermark)
           wm == WatermarkAfter(head, from, ls, seen)
<1>2. StateInv /\ TimersInv /\ SignedInv /\ ContradictionInv /\ ShippedByOwnTimer
  BY DEF PluginInv
<1>3. now \in Nat /\ b \in Chains /\ head \in Chains /\ watermark \in Nat
  BY <1>2 DEF StateInv
<1>4. from \in Nat
  BY <1>3, CommonType
<1> HIDE DEF from
<1>5. seen \in Nat /\ (~ JoinsLater => seen = watermark)
  BY <1>3, <1>4, WatermarkIs
<1> HIDE DEF seen, ls
<1>6. wm \in Nat /\ (~ JoinsLater => wm = watermark)
  BY <1>3, <1>4, <1>5, WatermarkIs
<1>7. /\ watermark' = wm /\ schedule_production_loop(head, wm, enabled, paused, <<>>, faults + 1)
      /\ UNCHANGED <<now, blocks, head, enabled, paused, queued, signed, epoch>>
  BY <1>1 DEF rejected_block, seen, ls, from
<1>8. IsPending(<<>>) /\ queued' \subseteq queued
  BY <1>7 DEF IsPending
<1> HIDE DEF wm
<1>9. /\ mode' \in {"producing", "speculating"} /\ IsPending(pending') /\ TimersInv'
      /\ OwnInv' /\ AliveInv' /\ WakesInTime'
  BY <1>2, <1>3, <1>6, <1>7, <1>8, ScheduleKeeps
<1>10. StateInv'
  BY <1>2, <1>6, <1>7, <1>9 DEF StateInv
<1>11. SignedInv' /\ ContradictionInv' /\ ShippedByOwnTimer'
  BY <1>2, <1>6, <1>7, NothingSigned
<1> QED BY <1>9, <1>10, <1>11 DEF PluginInv

LEMMA ResumeKeeps ==
    ASSUME PluginInv, resume
    PROVE  PluginInv'
<1>1. UNCHANGED <<now, blocks, head, enabled, watermark, queued, signed, epoch>>
  BY DEF resume
<1>2. IsPending(<<>>)
  BY DEF IsPending
<1>3. CASE resume /\ mode = "speculating"
  <2>1. schedule_production_loop(head, watermark, enabled, paused', <<>>, faults)
    BY <1>3 DEF resume
  <2> QED BY <2>1, <1>1, <1>2, Rescheduled
<1>4. CASE resume /\ mode # "speculating"
  <2>1. UNCHANGED <<mode, pending, timer, cid>>
    BY <1>4 DEF resume, loop
  <2>2. mode = "producing"
    BY <1>4 DEF PluginInv, StateInv
  <2>3. StateInv' /\ TimersInv' /\ OwnInv' /\ WakesInTime'
    BY <2>1, <1>1 DEF PluginInv, StateInv, TimersInv, OwnInv, WakesInTime, Handlers, IsCurrent
  <2>4. AliveInv'
    BY <2>1, <2>2, <1>1 DEF PluginInv, AliveInv, Handlers, IsCurrent
  <2>5. SignedInv' /\ ContradictionInv' /\ ShippedByOwnTimer'
    BY <1>1, NothingSigned DEF PluginInv
  <2> QED BY <2>3, <2>4, <2>5 DEF PluginInv
<1> QED BY <1>3, <1>4

LEMMA CrashKeeps ==
    ASSUME PluginInv, crash
    PROVE  PluginInv'
<1> DEFINE t == Handler(1, "loop", now, now, now)
<1>1. PICK k \in 1..num(head) :
         head' = Ancestor(head, k) /\ blocks' = {Ancestor(head, i) : i \in 1..k}
  BY DEF crash
<1>2. /\ epoch' = epoch + 1 /\ watermark' = 0 /\ mode' = "speculating" /\ pending' = <<>>
      /\ cid' = 1 /\ timer' = <<t>> /\ queued' = {} /\ now' = now /\ signed' = signed
  BY DEF crash
<1>3. t.cid = 1 /\ t.from = now /\ t.slot = now
  BY DEF Handler
<1> HIDE DEF t
<1>4. StateInv /\ SignedInv /\ ContradictionInv /\ ShippedByOwnTimer
  BY DEF PluginInv
<1>5. now \in Nat /\ epoch \in Nat /\ head \in Chains
  BY <1>4 DEF StateInv
<1>6. num(head) \in Nat
  BY <1>5, ChainFacts
<1>7. k \in 1..k /\ \A i \in 1..k : i \in 1..num(head)
  BY <1>6
<1>8. StateInv'
  <2>1. head' \in blocks'
    BY <1>1, <1>7
  <2>2. blocks' \subseteq Chains
    BY <1>1, <1>5, <1>7, ChainFacts
  <2> QED BY <2>1, <2>2, <1>2, <1>5 DEF StateInv, IsPending
<1>9. Range(timer') = {t} /\ Handlers' = {t}
  BY <1>2 DEF Range, Handlers
<1>10. TimersInv' /\ OwnInv' /\ AliveInv'
  BY <1>2, <1>3, <1>9 DEF TimersInv, OwnInv, AliveInv, IsCurrent
<1>11. WakesInTime'
  <2>1. (now + 1)..(now - 1) = {}
    BY <1>5
  <2> QED BY <2>1, <1>3, <1>9 DEF WakesInTime
<1>12. SignedInv'
  <2> SUFFICES ASSUME NEW x \in signed
               PROVE  /\ x.block \in Chains /\ x.confirmed \in Nat
                      /\ x.confirmed < num(x.block)
                      /\ x.epoch \in Nat /\ x.epoch <= epoch + 1 /\ x.epoch # epoch + 1
    BY <1>2 DEF SignedInv
  <2>1. /\ x.block \in Chains /\ x.confirmed \in Nat /\ x.confirmed < num(x.block)
        /\ x.epoch \in Nat /\ x.epoch <= epoch
    BY <1>4 DEF SignedInv
  <2>2. PICK e \in Nat : e = x.epoch /\ e <= epoch
    BY <2>1
  <2>3. e <= epoch + 1 /\ e # epoch + 1
    BY <2>2, <1>5
  <2> QED BY <2>1, <2>2, <2>3
<1>13. ContradictionInv' /\ ShippedByOwnTimer'
  BY <1>2, <1>4 DEF ContradictionInv, NoContradiction, ShippedByOwnTimer
<1> QED BY <1>8, <1>10, <1>11, <1>12, <1>13 DEF PluginInv

-----------------------------------------------------------------------------
(***************************************************************************)
(* The invariant is inductive: every handler, fault and crash keeps it.    *)
(***************************************************************************)
THEOREM PluginInductive == Spec => []PluginInv
<1>1. Init => PluginInv
  <2> SUFFICES ASSUME Init PROVE PluginInv
    OBVIOUS
  <2> DEFINE t == Handler(1, "loop", 0, 0, 0)
  <2>1. timer = <<t>> /\ t.cid = 1 /\ t.from = 0 /\ t.slot = 0
    BY DEF Init, Handler
  <2> HIDE DEF t
  <2>2. Range(timer) = {t} /\ Handlers = {t}
    BY <2>1 DEF Init, Range, Handlers
  <2>3. StateInv
    <3>1. <<0>> \in Chains
      BY DEF Chains
    <3> QED BY <3>1 DEF Init, StateInv, IsPending, Genesis
  <2>4. TimersInv /\ OwnInv /\ AliveInv
    BY <2>1, <2>2 DEF Init, TimersInv, OwnInv, AliveInv, IsCurrent
  <2>5. WakesInTime
    <3>1. (0 + 1)..(0 - 1) = {}
      OBVIOUS
    <3> QED BY <3>1, <2>1, <2>2 DEF WakesInTime
  <2>6. SignedInv /\ ShippedByOwnTimer /\ ContradictionInv
    BY DEF Init, SignedInv, ShippedByOwnTimer, ContradictionInv, NoContradiction
  <2> QED BY <2>3, <2>4, <2>5, <2>6 DEF PluginInv
<1>2. PluginInv /\ [Next]_vars => PluginInv'
  <2> SUFFICES ASSUME PluginInv, [Next]_vars PROVE PluginInv'
    OBVIOUS
  <2>1. CASE Tick \/ pause \/ UNCHANGED vars
    BY <2>1, QuietSteps
  <2>2. CASE Expire
    BY <2>2, TimerSteps
  <2>3. CASE RunHandler
    BY <2>3, TimerSteps, LoopHandlerKeeps, ProduceHandlerKeeps DEF RunHandler
  <2>4. CASE IncomingBlock
    BY <2>4, IncomingBlockKeeps
  <2>5. CASE resume \/ rejected_block
    BY <2>5, ResumeKeeps, RejectedKeeps
  <2>6. CASE crash
    BY <2>6, CrashKeeps
  <2> QED BY <2>1, <2>2, <2>3, <2>4, <2>5, <2>6 DEF Next
<1> QED BY <1>1, <1>2, PTL DEF Spec

(***************************************************************************)
(* NoContradiction: a producer that is in the schedule from the start      *)
(* signs, between two restarts, no two statements that contradict each     *)
(* other (the watermark rules of start_block), whatever the forks and      *)
(* schedules and although the confirmed count wraps at uint16_range.  For  *)
(* a producer that joins later it is false: on_block may set its watermark *)
(* back.                                                                   *)
(***************************************************************************)
THEOREM NeverContradicts == ~ JoinsLater /\ Spec => []NoContradiction
<1> SUFFICES ASSUME ~ JoinsLater PROVE Spec => []NoContradiction
  OBVIOUS
<1>1. PluginInv => NoContradiction
  BY DEF PluginInv, ContradictionInv
<1> QED BY <1>1, PluginInductive, PTL

(***************************************************************************)
(* ShippedByOwnTimer: a block is shipped by the handler that was set for   *)
(* it, although a handler that has expired cannot be cancelled (the        *)
(* correlation id of schedule_production_loop).                            *)
(***************************************************************************)
THEOREM ShipsOwnBlock == Spec => []ShippedByOwnTimer
<1>1. PluginInv => ShippedByOwnTimer
  BY DEF PluginInv
<1> QED BY <1>1, PluginInductive, PTL

(***************************************************************************)
(* LoopAlive: a node that may produce always has a handler that will act   *)
(* (schedule_production_loop, maybe_produce_block, resume).                *)
(***************************************************************************)
THEOREM LoopNeverDies == Spec => []LoopAlive
<1>1. PluginInv => LoopAlive
  BY DEF PluginInv, AliveInv, LoopAlive, Handlers
<1> QED BY <1>1, PluginInductive, PTL

(***************************************************************************)
(* WakesInTime: for every schedule and number of repetitions, no slot that *)
(* the watermark allows is slept through (calculate_next_block_time).      *)
(***************************************************************************)
THEOREM NeverSleepsIn == Spec => []WakesInTime
<1>1. PluginInv => WakesInTime
  BY DEF PluginInv
<1> QED BY <1>1, PluginInductive, PTL
=============================================================================
