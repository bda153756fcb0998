--------------------------- MODULE ProducerPlugin ---------------------------
(***************************************************************************)
(* The production loop of one node with one configured producer            *)
(* (plugins/producer_plugin/producer_plugin.cpp): when it starts, ships    *)
(* and abandons blocks, which timer handlers may act, and what its         *)
(* watermark lets the producer sign across forks.                          *)
(*                                                                         *)
(* Time is counted in slots of one block interval.  A block is the         *)
(* sequence of the slots of its chain, genesis first: its number is the    *)
(* length, its timestamp the last slot, and the slot and the schedule give *)
(* its producer.  Of two chains the one with the higher irreversible       *)
(* number wins, then the longer one; irreversible numbers are not computed *)
(* here, so a received block may also win over a longer chain.             *)
(***************************************************************************)
EXTENDS Integers, Sequences, FiniteSets, SequencesExt

CONSTANTS
    Me,                    \* the producer configured on this node
    Order,                 \* the active schedule, a sequence of producers
    producer_repetitions,  \* consecutive slots of one producer
    uint16_range,          \* 2^16: the confirmed count wraps at this value
    StaleAge,              \* slots after which a head is too old to speculate on
    MaxAhead,              \* slots a received block may be ahead of the clock (7 seconds: 14)
    JoinsLater,            \* FALSE: Me is in the schedule from the start, TRUE: it joins
    Promotes(_),           \* the block after this one promotes the schedule that adds Me
    MayArrive(_),          \* blocks of other producers that may arrive
    MaxSlot,               \* bound: time
    MaxForeign,            \* bound: blocks of other producers
    MaxFaults              \* bound: failed starts, rejected blocks, pauses and crashes

\* set_proposed_producers refuses a schedule that names a producer twice.
ASSUME OrderAssumption == /\ Order \in Seq(STRING) /\ IsInjective(Order)
                          /\ Me \in Range(Order)
ASSUME SlotsAssumption == /\ {producer_repetitions, uint16_range, StaleAge} \subseteq Nat \ {0}
                          /\ {MaxAhead, MaxSlot, MaxForeign, MaxFaults} \subseteq Nat
                          /\ JoinsLater \in BOOLEAN

VARIABLES
    now,          \* the current slot
    blocks,       \* the blocks this node knows
    head,         \* head block
    pending,      \* <<>> or <<[slot, confirmed]>>: the pending block
    mode,         \* _pending_block_mode
    enabled,      \* _production_enabled
    paused,       \* _pause_production
    watermark,    \* _producer_watermarks[Me], 0 if there is none
    last_signed,  \* _last_signed_block_num and _last_signed_block_time
    cid,          \* _timer_corelation_id
    timer,        \* <<>> or <<handler>>: _timer with the handler that waits on it
    queued,       \* the handler that has expired and cannot be cancelled any more, if any
    signed,       \* history: blocks Me signed, with their confirmed count
    epoch,        \* number of restarts
    foreign,      \* blocks of other producers so far
    faults        \* failed starts, rejected blocks, pauses and crashes so far

loop == <<mode, pending, timer, cid, faults>>
vars == <<now, blocks, head, pending, mode, enabled, paused, watermark,
          last_signed, cid, timer, queued, signed, epoch, foreign, faults>>

Genesis == <<0>>
num(b) == Len(b)
slot(b) == Last(b)
Ancestor(b, k) == SubSeq(b, 1, k)

\* A schedule that block k + 1 promotes has a say in who makes block k + 2.
ActiveAt(b) == ~ JoinsLater \/ \E k \in 1..(num(b) - 1) : Promotes(Ancestor(b, k))
Joins(b) == JoinsLater /\ Promotes(b) /\ ~ ActiveAt(b)

get_scheduled_producer(b, s) ==
    LET schedule == IF ActiveAt(b) THEN Order ELSE SelectSeq(Order, LAMBDA p : p # Me)
        index == s % (Len(schedule) * producer_repetitions)
    IN  schedule[index \div producer_repetitions + 1]

Producer(b) == get_scheduled_producer(Front(b), slot(b))

\* calculate_pending_block_time: the next slot, or the one after it when less
\* than a tenth of the interval is left (late), which takes a head that is not
\* ahead of the clock.
MayBeLate(h) == now >= slot(h)
PendingSlot(h, late) == (IF now > slot(h) THEN now ELSE slot(h)) + (IF late THEN 2 ELSE 1)

(***************************************************************************)
(* calculate_next_block_time: the first slot of Me after the slot cur at   *)
(* which the watermark lets it produce if no slot is skipped.              *)
(***************************************************************************)
MinimumSlot(h, wm, hasPending, cur) ==
    LET block_num == num(h) + (IF hasPending THEN 1 ELSE 0)
    IN  cur + (IF wm > block_num THEN wm - block_num + 1 ELSE 1)

MyIndex == CHOOSE i \in 0..(Len(Order) - 1) : Order[i + 1] = Me

\* Mutant of calculate_next_block_time: does not go back to the first slot of a producer's turn
NextTurnNotAligned(h, wm, hasPending, cur) ==
    LET minimum_slot == MinimumSlot(h, wm, hasPending, cur)
        index == (minimum_slot % (Len(Order) * producer_repetitions)) \div producer_repetitions
        distance == IF MyIndex < index THEN MyIndex - index + Len(Order) ELSE MyIndex - index
    IN  minimum_slot + distance * producer_repetitions

calculate_next_block_time(h, wm, hasPending, cur) ==
    LET minimum_slot == MinimumSlot(h, wm, hasPending, cur)
        index == (minimum_slot % (Len(Order) * producer_repetitions)) \div producer_repetitions
        distance == IF MyIndex < index THEN MyIndex - index + Len(Order) ELSE MyIndex - index
    IN  IF index = MyIndex
        THEN minimum_slot
        ELSE minimum_slot - (minimum_slot % producer_repetitions)
                + distance * producer_repetitions

(***************************************************************************)
(* start_block and schedule_production_loop, on head h with watermark wm.  *)
(* The armed timer is cancelled; a handler that is queued already is not.  *)
(***************************************************************************)
Handler(id, kind, at, from, s) ==
    [cid |-> id, kind |-> kind, at |-> at, from |-> from, slot |-> s]

\* ++_timer_corelation_id: a number that no handler still queued has.
FreshId == Min({1, 2} \ {h.cid : h \in queued})

Arm(kind, at, from, s) == /\ cid' = FreshId
                          /\ timer' = <<Handler(FreshId, kind, at, from, s)>>
Disarm == timer' = <<>> /\ UNCHANGED cid

schedule_delayed_production_loop(h, wm, hasPending, cur) ==
    IF ActiveAt(h)
    THEN LET next_block == calculate_next_block_time(h, wm, hasPending, cur)
         IN  Arm("loop", next_block - 1, cur, next_block)
    ELSE Disarm

\* The limit on the age of the irreversible block, off by default, is left out
\* here and in MayProduce.
DisabledByPolicy(en, pa) == ~ en \/ pa

MayProduce(h, wm, en, pa, s) ==
    /\ ~ DisabledByPolicy(en, pa)
    /\ get_scheduled_producer(h, s) = Me
    /\ wm < num(h) + 1

\* Mutant of blocks_to_confirm: confirms the block at the watermark again
ConfirmFromWatermark(h, wm, producing) ==
    IF producing /\ wm > 0 /\ wm <= num(h) THEN (num(h) - wm + 1) % uint16_range ELSE 0

blocks_to_confirm(h, wm, producing) ==
    IF producing /\ wm > 0 /\ wm < num(h) THEN (num(h) - wm) % uint16_range ELSE 0

\* p is the pending block before the call, f the number of faults so far.
schedule_production_loop(h, wm, en, pa, p, f) ==
    \E late \in BOOLEAN, fails \in BOOLEAN :
        LET s == PendingSlot(h, late)
            producing == MayProduce(h, wm, en, pa, s)
            started == <<[slot |-> s, confirmed |-> blocks_to_confirm(h, wm, producing)]>>
        IN  /\ late => MayBeLate(h)
            /\ mode' = IF producing THEN "producing" ELSE "speculating"
            /\ IF ~ producing /\ now - slot(h) > StaleAge
               THEN /\ ~ fails /\ pending' = p   \* waiting
                    /\ IF DisabledByPolicy(en, pa)
                       THEN Disarm
                       ELSE schedule_delayed_production_loop(h, wm, p # <<>>, s)
               ELSE IF fails
               THEN f < MaxFaults /\ pending' = <<>> /\ Arm("loop", now, s, s)
               ELSE /\ pending' = started
                    /\ IF producing
                       THEN \E exhausted \in BOOLEAN : Arm("produce", IF exhausted THEN s - 1 ELSE s, s, s)
                       ELSE IF DisabledByPolicy(en, pa)
                       THEN Disarm
                       ELSE schedule_delayed_production_loop(h, wm, TRUE, s)
            /\ faults' = IF fails THEN f + 1 ELSE f

(***************************************************************************)
(* on_block, for the blocks numbered from + 1 to num(b) of the chain b,    *)
(* which are applied one after the other.  Numbers and slots grow along    *)
(* the chain, so the early returns of each see only the last signed block  *)
(* ls from before.  Signing a confirmation of another producer's block     *)
(* records it; a block whose successor promotes Me sets the watermark wm.  *)
(***************************************************************************)
Considered(b, from, ls) == {k \in (from + 1)..num(b) : k > ls.num /\ b[k] > ls.slot}

SignedThrough(b, from, ls) ==
    LET confirmed == {k \in Considered(b, from, ls) : /\ ActiveAt(Ancestor(b, k))
                                                      /\ Producer(Ancestor(b, k)) # Me}
    IN  IF confirmed = {} THEN ls ELSE [num |-> Max(confirmed), slot |-> b[Max(confirmed)]]

WatermarkAfter(b, from, ls, wm) ==
    LET promoting == {k \in Considered(b, from, ls) : Joins(Ancestor(b, k))}
    IN  IF promoting = {} THEN wm ELSE Max(promoting)

\* Common(a, b): the number of the last block that is in both chains.
Common(a, b) == Max({k \in 1..num(a) : k <= num(b) /\ Ancestor(a, k) = Ancestor(b, k)})

Init ==
    /\ now = 0
    /\ blocks = {Genesis}
    /\ head = Genesis
    /\ watermark = 0
    /\ last_signed = [num |-> 0, slot |-> 0]
    /\ enabled \in BOOLEAN       \* --enable-stale-production
    /\ paused = FALSE
    /\ mode = "speculating"
    /\ pending = <<>>
    /\ cid = 1                    \* plugin_startup has called the loop
    /\ timer = <<Handler(1, "loop", 0, 0, 0)>>
    /\ queued = {}
    /\ signed = {}
    /\ epoch = 0
    /\ foreign = 0
    /\ faults = 0

Tick == /\ now < MaxSlot
        /\ now' = now + 1
        /\ UNCHANGED <<blocks, head, enabled, paused, watermark, last_signed,
                       queued, signed, epoch, foreign, loop>>

\* The timer expires: its handler waits in the io_service and cannot be
\* cancelled any more.  Handlers run in the order they were queued in, so one
\* that is out of date is gone before the next one of the same timer can run.
Expire ==
    /\ timer # <<>> /\ queued = {}
    /\ timer[1].at <= now
    /\ queued' = queued \cup {timer[1]}
    /\ timer' = <<>>
    /\ UNCHANGED <<now, blocks, head, pending, mode, enabled, paused, watermark,
                   last_signed, cid, signed, epoch, foreign, faults>>

\* Mutant of IsCurrent: no check of the correlation id
AnyHandler(h) == h \in queued \cup Range(timer)

\* The check of the correlation id that every handler begins with.
IsCurrent(h) == h.cid = cid

Dequeue(h) == queued' = queued \ {h}

DropHandler(h) ==
    /\ ~ IsCurrent(h)
    /\ Dequeue(h)
    /\ UNCHANGED <<now, blocks, head, enabled, paused, watermark, last_signed,
                   signed, epoch, foreign, loop>>

LoopHandler(h) ==
    /\ IsCurrent(h) /\ h.kind = "loop"
    /\ Dequeue(h)
    /\ schedule_production_loop(head, watermark, enabled, paused, pending, faults)
    /\ UNCHANGED <<now, blocks, head, enabled, paused, watermark, last_signed,
                   signed, epoch, foreign>>

\* maybe_produce_block; if produce_block's asserts fail the block is aborted.
ProduceHandler(h) ==
    /\ IsCurrent(h) /\ h.kind = "produce"
    /\ Dequeue(h)
    /\ IF mode = "producing" /\ pending # <<>>
       THEN LET b == Append(head, pending[1].slot)
            IN  /\ head' = b
                /\ blocks' = blocks \cup {b}
                /\ watermark' = num(b)
                /\ signed' = signed \cup {[block |-> b, confirmed |-> pending[1].confirmed,
                                           timer |-> h.slot, epoch |-> epoch]}
                /\ schedule_production_loop(b, num(b), enabled, paused, <<>>, faults)
       ELSE /\ schedule_production_loop(head, watermark, enabled, paused, <<>>, faults)
            /\ UNCHANGED <<head, blocks, watermark, signed>>
    /\ UNCHANGED <<now, enabled, paused, last_signed, epoch, foreign>>

RunHandler == \E h \in queued : DropHandler(h) \/ LoopHandler(h) \/ ProduceHandler(h)

(***************************************************************************)
(* on_incoming_block: another producer's block b on a known block.  The    *)
(* other producers sign one block per slot.  The pending block is aborted, *)
(* the block pushed, and the loop scheduled whatever happens.              *)
(***************************************************************************)
Foreign(b) ==
    /\ Front(b) \in blocks
    /\ slot(b) > slot(Front(b))
    /\ Producer(b) # Me /\ MayArrive(b)
    /\ \A x \in blocks : slot(x) # slot(b)

on_incoming_block(b, raisesLib) ==
    /\ foreign < MaxForeign
    /\ foreign' = foreign + 1
    /\ Foreign(b)
    /\ blocks' = blocks \cup {b}
    /\ LET h == IF num(b) > num(head) \/ raisesLib THEN b ELSE head
           from == Common(head, h)
           wm == WatermarkAfter(h, from, last_signed, watermark)
           en == enabled \/ slot(h) + 1 >= now
       IN  /\ head' = h
           /\ last_signed' = SignedThrough(h, from, last_signed)
           /\ watermark' = wm
           /\ enabled' = en
           /\ schedule_production_loop(h, wm, en, paused, <<>>, faults)
    /\ UNCHANGED <<now, paused, queued, signed, epoch>>

(***************************************************************************)
(* push_block throws: the block is forgotten, the loop goes on.  If the    *)
(* block was the end of a fork, on_block has seen the blocks of the fork   *)
(* before it, up to b, and sees those of this node's chain once more.      *)
(***************************************************************************)
rejected_block ==
    /\ faults < MaxFaults
    /\ \E b \in blocks :
          LET from == Common(head, b)
              ls == SignedThrough(b, from, last_signed)
              wm == WatermarkAfter(head, from, ls, WatermarkAfter(b, from, last_signed, watermark))
          IN  /\ last_signed' = SignedThrough(head, from, ls)
              /\ watermark' = wm
              /\ schedule_production_loop(head, wm, enabled, paused, <<>>, faults + 1)
    /\ UNCHANGED <<now, blocks, head, enabled, paused, queued, signed, epoch, foreign>>

IncomingBlock ==
    \E x \in blocks, s \in 1..(now + MaxAhead), raisesLib \in BOOLEAN :
        on_incoming_block(Append(x, s), raisesLib)

pause ==
    /\ ~ paused /\ faults < MaxFaults
    /\ faults' = faults + 1
    /\ paused' = TRUE
    /\ UNCHANGED <<now, blocks, head, enabled, watermark, last_signed, queued,
                   signed, epoch, foreign, mode, pending, timer, cid>>

\* Mutant of resume: resumes without restarting the loop
ResumeOnly ==
    /\ paused
    /\ paused' = FALSE
    /\ UNCHANGED <<now, blocks, head, enabled, watermark, last_signed, queued,
                   signed, epoch, foreign, loop>>

resume ==
    /\ paused
    /\ paused' = FALSE
    /\ IF mode = "speculating"
       THEN schedule_production_loop(head, watermark, enabled, FALSE, <<>>, faults)
       ELSE UNCHANGED loop
    /\ UNCHANGED <<now, blocks, head, enabled, watermark, last_signed, queued,
                   signed, epoch, foreign>>

(***************************************************************************)
(* A crash after which the node comes back on its chain, or on an earlier  *)
(* block of it when reversible blocks are lost; what the plugin kept in    *)
(* memory, the watermark included, is gone.                                *)
(***************************************************************************)
crash ==
    /\ faults < MaxFaults
    /\ faults' = faults + 1
    /\ epoch' = epoch + 1
    /\ \E k \in 1..num(head) :
          /\ head' = Ancestor(head, k)
          /\ blocks' = {Ancestor(head, i) : i \in 1..k}
    /\ watermark' = 0
    /\ last_signed' = [num |-> 0, slot |-> now]   \* _start_time
    /\ enabled' \in BOOLEAN
    /\ paused' = FALSE
    /\ mode' = "speculating"
    /\ pending' = <<>>
    /\ cid' = 1
    /\ timer' = <<Handler(1, "loop", now, now, now)>>
    /\ queued' = {}
    /\ UNCHANGED <<now, signed, foreign>>

Next == \/ Tick \/ Expire \/ RunHandler \/ IncomingBlock \/ rejected_block
        \/ pause \/ resume \/ crash

Spec == Init /\ [][Next]_vars
-----------------------------------------------------------------------------
\* The blocks a signed block confirms: its confirmed predecessors and itself.
Confirms(x) == {Ancestor(x.block, k) : k \in (num(x.block) - x.confirmed)..num(x.block)}

(***************************************************************************)
(* Between two restarts the producer never signs two statements that       *)
(* contradict each other: different blocks with the same number            *)
(* (block_header.hpp, confirmed; the watermark rules of start_block).      *)
(***************************************************************************)
NoContradiction ==
    \A x, y \in signed :
        x.epoch = y.epoch =>
            \A a \in Confirms(x), b \in Confirms(y) : num(a) = num(b) => a = b

(***************************************************************************)
(* A block is shipped by the handler that was set for it, never by one of  *)
(* an earlier round of the loop that could not be cancelled in time.       *)
(***************************************************************************)
ShippedByOwnTimer == \A x \in signed : x.timer = slot(x.block)

(***************************************************************************)
(* The loop never dies: a node that may produce has a handler that will    *)
(* act, set or already queued, whatever was cancelled, paused, aborted and *)
(* received (schedule_production_loop, maybe_produce_block, resume).       *)
(***************************************************************************)
LoopAlive ==
    ~ DisabledByPolicy(enabled, paused) /\ ActiveAt(head)
       => \E h \in queued \cup Range(timer) : IsCurrent(h)

(***************************************************************************)
(* A node that waits for its turn wakes up in time: between the slot it    *)
(* counts from and the one it wakes up for, its producer has no slot that  *)
(* its watermark allows if no block is missed (calculate_next_block_time). *)
(***************************************************************************)
WakesInTime ==
    \A h \in Range(timer) :
        \A s \in (h.from + 1)..(h.slot - 1) :
            get_scheduled_producer(head, s) = Me
              => watermark >= num(head) + Len(pending) + (s - h.from)
=============================================================================
