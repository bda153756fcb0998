-------------------------- MODULE BlockHeaderState --------------------------
(***************************************************************************)
(* The pure part of block production and validation: how one block header  *)
(* state is derived from the one before it                                 *)
(* (libraries/chain/block_header_state.cpp).                               *)
(*                                                                         *)
(* A header state is a record whose fields keep the names of the C++       *)
(* struct.  A producer schedule is [version, producers]; the signing keys  *)
(* are abstracted (a block by p is a block signed with p's key).  Digests  *)
(* and merkle roots carry no control and are left out.  An optional value  *)
(* is a sequence of length at most one.                                    *)
(***************************************************************************)
EXTENDS Integers, Sequences, FiniteSets

CONSTANTS
    producer_repetitions,                \* consecutive slots of one producer
    maximum_tracked_dpos_confirmations   \* longest confirm_count

ASSUME RepetitionsAssumption == producer_repetitions \in Nat \ {0}
ASSUME TrackedAssumption == maximum_tracked_dpos_confirmations \in Nat \ {0}

\* The default account name, the producer of the genesis block.
NoName == ""

Names(sched) == {sched.producers[i] : i \in 1..Len(sched.producers)}

\* flat_map::operator[] as an assignment: overwrite or insert.
Put(f, k, v) == [x \in DOMAIN f \cup {k} |-> IF x = k THEN v ELSE f[x]]

(***************************************************************************)
(* The producer of a slot under the active schedule.                       *)
(***************************************************************************)
get_scheduled_producer(hs, slot) ==
    LET producers == hs.active_schedule.producers
        index == slot % (Len(producers) * producer_repetitions)
    IN  producers[index \div producer_repetitions + 1]

(***************************************************************************)
(* blocknums[(size-1)/3] of the sorted implied irreversible block numbers: *)
(* the value with at most (size-1)/3 numbers below it and more than that   *)
(* many at or below it; 0 if there are none.                               *)
(***************************************************************************)
Below(irb, v)  == {p \in DOMAIN irb : irb[p] < v}
AtMost(irb, v) == {p \in DOMAIN irb : irb[p] <= v}

IsNth(irb, k, v) == /\ \E p \in DOMAIN irb : irb[p] = v
                    /\ Cardinality(Below(irb, v)) <= k
                    /\ Cardinality(AtMost(irb, v)) > k

calc_dpos_last_irreversible(irb) ==
    IF DOMAIN irb = {} THEN 0
    ELSE CHOOSE v \in {irb[p] : p \in DOMAIN irb} :
            IsNth(irb, (Cardinality(DOMAIN irb) - 1) \div 3, v)

\* Mutant of required_confs: two confirmations fewer.
required_confs_short(n) == (n * 2) \div 3 - 1

\* Confirmations a block needs, from the size of the schedule it is built on.
required_confs(n) == (n * 2) \div 3 + 1

\* Mutant of GrowConfirmCount: one confirmation fewer, but at least one.
GrowConfirmCountShort(cc, required) ==
    LET fewer == IF required > 1 THEN required - 1 ELSE 1
    IN  IF Len(cc) < maximum_tracked_dpos_confirmations
        THEN Append(cc, fewer)
        ELSE Append(Tail(cc), fewer)

\* confirm_count gains the new block and forgets the oldest one when full.
GrowConfirmCount(cc, required) ==
    IF Len(cc) < maximum_tracked_dpos_confirmations
    THEN Append(cc, required)
    ELSE Append(Tail(cc), required)

(***************************************************************************)
(* The template of the block at slot when, on top of hs.                   *)
(***************************************************************************)
generate_next(hs, when) ==
    LET producer == get_scheduled_producer(hs, when)
        irb == Put(hs.producer_to_last_implied_irb, producer,
                   hs.dpos_proposed_irreversible_blocknum)
    IN  [hs EXCEPT
           !.block_num = hs.block_num + 1,
           !.timestamp = when,
           !.producer = producer,
           !.confirmed = 1,
           !.schedule_version = hs.active_schedule.version,
           !.new_producers = <<>>,
           !.producer_to_last_produced =
                Put(hs.producer_to_last_produced, producer, hs.block_num + 1),
           !.producer_to_last_implied_irb = irb,
           !.dpos_irreversible_blocknum = calc_dpos_last_irreversible(irb),
           !.confirm_count = GrowConfirmCount(hs.confirm_count,
                required_confs(Len(hs.active_schedule.producers)))]

(***************************************************************************)
(* set_confirmed walks confirm_count from the newest block back over       *)
(* confirmed + 1 entries, decrementing each, and stops at the first that   *)
(* reaches zero: that block is proposed irreversible and it and everything *)
(* older is forgotten.  Hits is the set of entries that would reach zero,  *)
(* so the walk stops at its newest member.  Entries are uint8_t.           *)
(***************************************************************************)
Dec8(x) == (x - 1) % 256

\* Mutant of Oldest: the walk stops one block early.
OldestShort(cc, confirmed) == IF Len(cc) > confirmed THEN Len(cc) - confirmed + 1 ELSE 1

Oldest(cc, confirmed) == IF Len(cc) > confirmed + 1 THEN Len(cc) - confirmed ELSE 1

Hits(cc, confirmed) == {i \in Oldest(cc, confirmed)..Len(cc) : Dec8(cc[i]) = 0}

\* Mutants of set_confirmed: the number of the proposed block is one too high;
\* it is lost by a block that brings no other block to its quorum.
set_confirmed_off_by_one(hs, confirmed) ==
    LET cc == hs.confirm_count
        n == Len(cc)
        hits == Hits(cc, confirmed)
        hit == CHOOSE i \in hits : \A j \in hits : j <= i
    IN  IF hits = {}
        THEN [hs EXCEPT !.confirmed = confirmed,
                        !.confirm_count = [i \in 1..n |->
                            IF i >= Oldest(cc, confirmed) THEN Dec8(cc[i]) ELSE cc[i]]]
        ELSE [hs EXCEPT !.confirmed = confirmed,
                        !.dpos_proposed_irreversible_blocknum = hs.block_num - (n - hit) + 1,
                        !.confirm_count = [i \in 1..(n - hit) |-> Dec8(cc[hit + i])]]

set_confirmed_resets(hs, confirmed) ==
    LET cc == hs.confirm_count
        n == Len(cc)
        hits == Hits(cc, confirmed)
        hit == CHOOSE i \in hits : \A j \in hits : j <= i
    IN  IF hits = {}
        THEN [hs EXCEPT !.confirmed = confirmed,
                        !.dpos_proposed_irreversible_blocknum = 0,
                        !.confirm_count = [i \in 1..n |->
                            IF i >= Oldest(cc, confirmed) THEN Dec8(cc[i]) ELSE cc[i]]]
        ELSE [hs EXCEPT !.confirmed = confirmed,
                        !.dpos_proposed_irreversible_blocknum = hs.block_num - (n - hit),
                        !.confirm_count = [i \in 1..(n - hit) |-> Dec8(cc[hit + i])]]

set_confirmed(hs, confirmed) ==
    LET cc == hs.confirm_count
        n == Len(cc)
        hits == Hits(cc, confirmed)
        hit == CHOOSE i \in hits : \A j \in hits : j <= i
    IN  IF hits = {}
        THEN [hs EXCEPT
                !.confirmed = confirmed,
                !.confirm_count = [i \in 1..n |->
                    IF i >= Oldest(cc, confirmed) THEN Dec8(cc[i]) ELSE cc[i]]]
        ELSE [hs EXCEPT
                !.confirmed = confirmed,
                !.dpos_proposed_irreversible_blocknum = hs.block_num - (n - hit),
                !.confirm_count = [i \in 1..(n - hit) |-> Dec8(cc[hit + i])]]

(***************************************************************************)
(* The pending schedule becomes active once the block that announced it is *)
(* irreversible.  Producers that stay keep their numbers, new ones start   *)
(* at the last irreversible block; the producer of this very block keeps   *)
(* its last_produced even when it leaves the schedule.  The moved-from     *)
(* pending schedule keeps its version and loses its producers.             *)
(***************************************************************************)
CanPromote(hs) == /\ Len(hs.pending_schedule.producers) > 0
                  /\ hs.dpos_irreversible_blocknum >= hs.pending_schedule_lib_num

\* Mutant of Carry: producers that leave the schedule are kept.
CarryAll(f, names, default) ==
    [p \in names \cup DOMAIN f |-> IF p \in DOMAIN f THEN f[p] ELSE default]

Carry(f, names, default) ==
    [p \in names |-> IF p \in DOMAIN f THEN f[p] ELSE default]

maybe_promote_pending(hs) ==
    IF CanPromote(hs)
    THEN LET names == Names(hs.pending_schedule)
             lib == hs.dpos_irreversible_blocknum
         IN [hs EXCEPT
               !.active_schedule = hs.pending_schedule,
               !.pending_schedule = [hs.pending_schedule EXCEPT !.producers = <<>>],
               !.producer_to_last_produced =
                    Put(Carry(hs.producer_to_last_produced, names, lib),
                        hs.producer, hs.block_num),
               !.producer_to_last_implied_irb =
                    Carry(hs.producer_to_last_implied_irb, names, lib)]
    ELSE hs

\* The asserts of set_new_producers, and its effect.
CanSetNewProducers(hs, sched) ==
    /\ sched.version = hs.active_schedule.version + 1
    /\ hs.pending_schedule.producers = <<>>

set_new_producers(hs, sched) ==
    [hs EXCEPT !.new_producers = <<sched>>,
               !.pending_schedule = sched,
               !.pending_schedule_lib_num = hs.block_num]

(***************************************************************************)
(* Validation of a received header h against the state hs of its parent:   *)
(* the asserts of next, then the state it computes.                        *)
(***************************************************************************)
HeaderOf(hs) == [timestamp |-> hs.timestamp, producer |-> hs.producer,
                 confirmed |-> hs.confirmed,
                 schedule_version |-> hs.schedule_version,
                 new_producers |-> hs.new_producers]

\* num - confirmed in uint32_t: a count above num wraps to a number above that
\* of any block (block numbers stay below 2^32 - 2^16, confirmed is uint16_t).
Wraps(num, confirmed) == confirmed > num

\* Mutant of NoDoubleConfirm: the producer's own last block may be confirmed again.
NoDoubleConfirmOffByOne(hs, producer, confirmed) ==
    producer \in DOMAIN hs.producer_to_last_produced =>
        \/ Wraps(hs.block_num + 1, confirmed)
        \/ hs.producer_to_last_produced[producer] <= hs.block_num + 1 - confirmed

NoDoubleConfirm(hs, producer, confirmed) ==
    producer \in DOMAIN hs.producer_to_last_produced =>
        \/ Wraps(hs.block_num + 1, confirmed)
        \/ hs.producer_to_last_produced[producer] < hs.block_num + 1 - confirmed

next(hs, h) ==
    LET promoted == maybe_promote_pending(
                        set_confirmed(generate_next(hs, h.timestamp), h.confirmed))
    IN  IF h.new_producers = <<>>
        THEN promoted
        ELSE set_new_producers(promoted, h.new_producers[1])

NextAccepts(hs, h) ==
    LET template == generate_next(hs, h.timestamp)
        confirmed == set_confirmed(template, h.confirmed)
    IN  /\ h.timestamp > hs.timestamp
        /\ h.producer = template.producer
        /\ h.schedule_version = template.schedule_version
        /\ NoDoubleConfirm(hs, h.producer, h.confirmed)
        /\ h.new_producers # <<>> =>
              /\ ~ CanPromote(confirmed)
              /\ CanSetNewProducers(confirmed, h.new_producers[1])

(***************************************************************************)
(* controller_impl::initialize_fork_db: the genesis state, whose initial   *)
(* schedule is both active and pending, so that block 2 promotes it.       *)
(***************************************************************************)
genheader(system_account, initial_timestamp) ==
    LET initial_schedule == [version |-> 0, producers |-> <<system_account>>]
    IN  [block_num |-> 1,
         timestamp |-> initial_timestamp,
         producer |-> NoName,
         confirmed |-> 1,
         schedule_version |-> 0,
         new_producers |-> <<>>,
         dpos_proposed_irreversible_blocknum |-> 0,
         dpos_irreversible_blocknum |-> 0,
         pending_schedule_lib_num |-> 0,
         pending_schedule |-> initial_schedule,
         active_schedule |-> initial_schedule,
         producer_to_last_produced |-> [p \in {} |-> 0],
         producer_to_last_implied_irb |-> [p \in {} |-> 0],
         confirm_count |-> <<>>]
=============================================================================
