----------------------------- MODULE HeaderChain -----------------------------
(***************************************************************************)
(* One chain of blocks growing from genesis: the header state of its head, *)
(* the schedule proposed in the chain state (global_property_object), and  *)
(* the block under construction.  A block is built by                      *)
(* controller_impl::start_block, may run set_proposed_producers any number *)
(* of times, and is either committed or aborted; an abort undoes what its  *)
(* transactions wrote.                                                     *)
(*                                                                         *)
(* confirmed is any count that the double-confirm check of a validating    *)
(* node lets through, the wrapped ones included, and a received block may  *)
(* lower the irreversible number, so a chain of this module is any chain   *)
(* that every node accepts, whatever its producers' policies, skipped      *)
(* slots and schedules.                                                    *)
(***************************************************************************)
EXTENDS BlockHeaderState

CONSTANTS
    Accounts,        \* accounts that may produce blocks
    system_account,  \* the producer of the initial schedule
    Proposals,       \* producer sequences a privileged contract may propose
    ConfirmChoices(_, _),  \* counts a producer may try to confirm on a head
    MaxBlockNum,     \* bound on the length of the chain
    MaxSkipped       \* bound on the slots skipped in the whole chain

Schedules == [version : Nat, producers : Seq(Accounts)]

ASSUME AccountsAssumption ==
    /\ system_account \in Accounts
    /\ NoName \notin Accounts
    /\ IsFiniteSet(Accounts)

\* wasm_interface.cpp: at most max_producers names, all different.
max_producers == 125

ASSUME ProposalsAssumption ==
    /\ Proposals \subseteq Seq(Accounts)
    /\ \A s \in Proposals :
          /\ Len(s) <= max_producers
          /\ \A i, j \in 1..Len(s) : s[i] = s[j] => i = j

ASSUME BoundsAssumption == MaxBlockNum \in Nat /\ MaxSkipped \in Nat

VARIABLES
    head,     \* header state of the head block
    gpo,      \* proposed_schedule_block_num (0: not valid), proposed_schedule
    pending,  \* <<>> or <<[hs, gpo]>>: the block under construction
    chain     \* history: the header of every block and its required_confs

vars == <<head, gpo, pending, chain>>

NoProposal == [proposed_schedule_block_num |-> 0,
               proposed_schedule |-> [version |-> 0, producers |-> <<>>]]

Init == /\ head = genheader(system_account, 0)
        /\ gpo = NoProposal
        /\ pending = <<>>
        /\ chain = <<[producer |-> NoName, confirmed |-> 0, required |-> 1]>>

(***************************************************************************)
(* start_block: the template, the confirmations, the promotion of the      *)
(* pending schedule and then, if a proposed schedule has become            *)
(* irreversible and there is room, its promotion to pending.               *)
(***************************************************************************)
ConfirmedState(when, confirmed) ==
    set_confirmed(generate_next(head, when), confirmed)

\* Mutant of PromotesProposed: a schedule may become pending in the block that
\* promoted the one before it.
PromotesProposedAtOnce(hs, promoted) ==
    /\ gpo.proposed_schedule_block_num # 0
    /\ gpo.proposed_schedule_block_num <= hs.dpos_irreversible_blocknum
    /\ hs.pending_schedule.producers = <<>>

PromotesProposed(hs, promoted) ==
    /\ gpo.proposed_schedule_block_num # 0
    /\ gpo.proposed_schedule_block_num <= hs.dpos_irreversible_blocknum
    /\ hs.pending_schedule.producers = <<>>
    /\ ~ promoted

StartedBlock(when, confirmed) ==
    LET template == ConfirmedState(when, confirmed)
        hs == maybe_promote_pending(template)
    IN  IF PromotesProposed(hs, CanPromote(template))
        THEN [hs |-> set_new_producers(hs, gpo.proposed_schedule), gpo |-> NoProposal]
        ELSE [hs |-> hs, gpo |-> gpo]

start_block(when, confirmed) ==
    /\ pending = <<>>
    /\ head.block_num < MaxBlockNum
    /\ NoDoubleConfirm(head, get_scheduled_producer(head, when), confirmed)
    /\ pending' = <<StartedBlock(when, confirmed)>>
    /\ UNCHANGED <<head, gpo, chain>>

\* Mutant of LastSchedule: the pending schedule is overlooked.
LastScheduleActive(hs) == hs.active_schedule

(***************************************************************************)
(* set_proposed_producers: returns without effect if an earlier block's    *)
(* proposal waits, if this block already proposed the same list, or if the *)
(* schedule would not change.                                              *)
(***************************************************************************)
LastSchedule(hs) == IF hs.pending_schedule.producers = <<>>
                    THEN hs.active_schedule
                    ELSE hs.pending_schedule

set_proposed_producers(producers) ==
    /\ pending # <<>>
    /\ LET p == pending[1]
           cur_block_num == head.block_num + 1
       IN  /\ p.gpo.proposed_schedule_block_num # 0 =>
                 /\ p.gpo.proposed_schedule_block_num = cur_block_num
                 /\ producers # p.gpo.proposed_schedule.producers
           /\ producers # LastSchedule(p.hs).producers
           /\ pending' = <<[p EXCEPT !.gpo =
                 [proposed_schedule_block_num |-> cur_block_num,
                  proposed_schedule |->
                     [version |-> LastSchedule(p.hs).version + 1,
                      producers |-> producers]]]>>
    /\ UNCHANGED <<head, gpo, chain>>

(***************************************************************************)
(* commit_block of a block built here adds it to the fork database and     *)
(* asserts that it became the head there.  The fork database orders blocks *)
(* by irreversible number first: the block must not lower it, or else      *)
(* commit_block aborts it.  apply_block commits a received block, which is *)
(* in the fork database already, without that assert: a block that lowers  *)
(* the number is applied when a later block makes its branch the best.     *)
(***************************************************************************)
BecomesHead(hs) == hs.dpos_irreversible_blocknum >= head.dpos_irreversible_blocknum

commit_block(add_to_fork_db) ==
    /\ pending # <<>>
    /\ add_to_fork_db => BecomesHead(pending[1].hs)
    /\ head' = pending[1].hs
    /\ gpo' = pending[1].gpo
    /\ pending' = <<>>
    /\ chain' = Append(chain,
          [producer |-> pending[1].hs.producer,
           confirmed |-> pending[1].hs.confirmed,
           required |-> required_confs(Len(head.active_schedule.producers))])

abort_block ==
    /\ pending # <<>>
    /\ pending' = <<>>
    /\ UNCHANGED <<head, gpo, chain>>

\* Every block takes one slot; the others were skipped.
SkippedSlots == head.timestamp - head.block_num + 1

\* The width of a header's confirmed.
max_uint16 == 65535

StartBlock ==
    \E skip \in 0..(MaxSkipped - SkippedSlots) :
        LET when == head.timestamp + 1 + skip
            counts == ConfirmChoices(head, get_scheduled_producer(head, when))
        IN  \E confirmed \in counts \cap (0..max_uint16) : start_block(when, confirmed)

SetProposedProducers == \E producers \in Proposals : set_proposed_producers(producers)

CommitBlock == \E add_to_fork_db \in BOOLEAN : commit_block(add_to_fork_db)

Next == StartBlock \/ SetProposedProducers \/ CommitBlock \/ abort_block

Spec == Init /\ [][Next]_vars

-----------------------------------------------------------------------------
(***************************************************************************)
(* Properties                                                              *)
(***************************************************************************)

HeaderFields ==
    {"block_num", "timestamp", "producer", "confirmed", "schedule_version",
     "new_producers", "dpos_proposed_irreversible_blocknum",
     "dpos_irreversible_blocknum", "pending_schedule_lib_num", "pending_schedule",
     "active_schedule", "producer_to_last_produced",
     "producer_to_last_implied_irb", "confirm_count"}

IsBlockNums(f) == DOMAIN f \subseteq Accounts /\ f \in [DOMAIN f -> Nat]

IsHeaderState(hs) ==
    /\ DOMAIN hs = HeaderFields
    /\ hs.block_num \in Nat \ {0}
    /\ hs.timestamp \in Nat
    /\ hs.producer \in Accounts \cup {NoName}
    /\ hs.confirmed \in Nat
    /\ hs.schedule_version \in Nat
    /\ hs.new_producers \in Seq(Schedules)
    /\ hs.dpos_proposed_irreversible_blocknum \in Nat
    /\ hs.dpos_irreversible_blocknum \in Nat
    /\ hs.pending_schedule_lib_num \in Nat
    /\ hs.pending_schedule \in Schedules
    /\ hs.active_schedule \in Schedules
    /\ IsBlockNums(hs.producer_to_last_produced)
    /\ IsBlockNums(hs.producer_to_last_implied_irb)
    /\ hs.confirm_count \in Seq(Nat)

Proposed == [proposed_schedule_block_num : Nat, proposed_schedule : Schedules]

\* The shape of the header state, of the proposal and of the pending block.
TypeOK ==
    /\ IsHeaderState(head)
    /\ gpo \in Proposed
    /\ pending = <<>> \/
          /\ pending = <<pending[1]>> /\ DOMAIN pending[1] = {"hs", "gpo"}
          /\ IsHeaderState(pending[1].hs) /\ pending[1].gpo \in Proposed
    /\ chain \in Seq([producer : Accounts \cup {NoName}, confirmed : Nat, required : Nat])

\* Producers whose blocks in this chain confirm block k: block j confirms
\* itself and the confirmed blocks before it.
Confirmers(k) == {chain[j].producer : j \in {i \in k..Len(chain) : i - chain[i].confirmed <= k}}

\* confirm_count[i] belongs to the block with this number.
TrackedBlock(i) == head.block_num - Len(head.confirm_count) + i

(***************************************************************************)
(* No header of the chain claims to confirm more blocks than its number.   *)
(* producer_plugin::start_block writes no such count (it never exceeds the *)
(* blocks above the irreversible one), but next accepts one from another   *)
(* producer, because its check wraps; that producer can then be counted    *)
(* again for every block still tracked.                                    *)
(***************************************************************************)
CountsInRange == \A j \in 1..Len(chain) : ~ Wraps(j, chain[j].confirmed)

(***************************************************************************)
(* set_confirmed and the double-confirm check of next: as long as no       *)
(* header makes that check wrap, the uint8 counter of every tracked block  *)
(* is exactly what the distinct producers who confirmed it have left to    *)
(* confirm, and never reaches zero unnoticed; this survives skipped slots, *)
(* schedule changes and a producer that leaves the schedule and returns.   *)
(***************************************************************************)
ConfirmCountExact ==
    CountsInRange => \A i \in 1..Len(head.confirm_count) :
        LET k == TrackedBlock(i)
        IN  /\ head.confirm_count[i] > 0
            /\ head.confirm_count[i] = chain[k].required - Cardinality(Confirmers(k))

(***************************************************************************)
(* A block proposed irreversible was confirmed by more than two thirds of  *)
(* the schedule it was built on, each producer counted once, as long as no *)
(* header makes the double-confirm check wrap.                             *)
(***************************************************************************)
QuorumBehindProposed ==
    LET k == head.dpos_proposed_irreversible_blocknum
    IN  CountsInRange /\ k > 0 => Cardinality(Confirmers(k)) >= chain[k].required

(***************************************************************************)
(* The irreversible block never overtakes the proposed one and neither     *)
(* overtakes the blocks that still wait for confirmations.                 *)
(***************************************************************************)
IrreversibleBehindProposed ==
    /\ head.dpos_irreversible_blocknum <= head.dpos_proposed_irreversible_blocknum
    /\ head.dpos_proposed_irreversible_blocknum <=
          head.block_num - Len(head.confirm_count)

(***************************************************************************)
(* The thirds of calc_dpos_last_irreversible are thirds of the active      *)
(* schedule: after promotions and drops the implied irreversible numbers   *)
(* belong to exactly the active producers.                                 *)
(***************************************************************************)
ImpliedByActive ==
    head.block_num > 1 =>
        DOMAIN head.producer_to_last_implied_irb = Names(head.active_schedule)

(***************************************************************************)
(* start_block cannot fail in set_new_producers: whenever a proposal waits *)
(* its version follows the last schedule announced (controller.cpp would   *)
(* otherwise throw on every attempt to build a block).                     *)
(***************************************************************************)
ProposalFollows ==
    gpo.proposed_schedule_block_num # 0 =>
        /\ gpo.proposed_schedule_block_num <= head.block_num
        /\ gpo.proposed_schedule.version = LastSchedule(head).version + 1

(***************************************************************************)
(* Producer and validator agree: the header of a block built by            *)
(* start_block is accepted by block_header_state::next on the same parent, *)
(* which computes the same header state from it.                           *)
(***************************************************************************)
ProducerValidatorAgree ==
    \A i \in 1..Len(pending) :
        LET h == HeaderOf(pending[i].hs)
        IN  NextAccepts(head, h) /\ next(head, h) = pending[i].hs

\* The block of header state hs promoted the pending schedule to active.
JustPromoted(hs) == hs.schedule_version # hs.active_schedule.version

(***************************************************************************)
(* The assert of commit_block (controller.cpp: "committed block did not    *)
(* become the new head in fork database") can fail only in the block right *)
(* after a change of schedule, where the implied numbers of the departed   *)
(* producers no longer count; everywhere else a block never lowers the     *)
(* last irreversible block of its parent.                                  *)
(***************************************************************************)
CommitFailsOnlyAfterPromotion ==
    \A i \in 1..Len(pending) : JustPromoted(head) \/ BecomesHead(pending[i].hs)

-----------------------------------------------------------------------------
(***************************************************************************)
(* The inductive invariant behind the theorems of HeaderChainProofs, as a  *)
(* conjunction of what holds of any header state of the chain.             *)
(***************************************************************************)

\* The initial schedule is still pending: block 2 promotes it.
AtGenesis(hs) == hs.block_num = 1 /\ hs = genheader(system_account, 0)

\* The tracked blocks are the newest ones, all above the proposed one.
ConfirmWindow(hs) ==
    hs.dpos_proposed_irreversible_blocknum + Len(hs.confirm_count) <= hs.block_num

ImpliedBehindProposed(hs) ==
    /\ hs.dpos_irreversible_blocknum <= hs.dpos_proposed_irreversible_blocknum
    /\ \A p \in DOMAIN hs.producer_to_last_implied_irb :
          hs.producer_to_last_implied_irb[p] <= hs.dpos_proposed_irreversible_blocknum

ScheduleInForce(hs) ==
    /\ DOMAIN hs.producer_to_last_implied_irb = Names(hs.active_schedule)
    /\ hs.pending_schedule.producers # <<>> =>
          hs.pending_schedule.version = hs.active_schedule.version + 1

\* Away from a change of schedule the irreversible number is the one that the
\* implied numbers give.
IrreversibleIsImplied(hs) ==
    JustPromoted(hs) \/ hs.dpos_irreversible_blocknum =
        calc_dpos_last_irreversible(hs.producer_to_last_implied_irb)

HeaderInv(hs) ==
    /\ IsHeaderState(hs)
    /\ hs.active_schedule.producers # <<>>
    /\ ConfirmWindow(hs)
    /\ ImpliedBehindProposed(hs)
    /\ AtGenesis(hs) \/ (hs.block_num > 1 /\ ScheduleInForce(hs) /\ IrreversibleIsImplied(hs))

\* A proposal g waiting on top of hs.
ProposalInv(g, hs) ==
    /\ g \in Proposed
    /\ g.proposed_schedule_block_num # 0 =>
          /\ g.proposed_schedule_block_num <= hs.block_num
          /\ g.proposed_schedule.version = LastSchedule(hs).version + 1

PendingInv(p) ==
    /\ DOMAIN p = {"hs", "gpo"}
    /\ HeaderInv(p.hs)
    /\ ProposalInv(p.gpo, p.hs)
    /\ p.hs.block_num = head.block_num + 1
    /\ JustPromoted(head) \/ BecomesHead(p.hs)

IInv == /\ HeaderInv(head)
        /\ ProposalInv(gpo, head)
        /\ pending = <<>> \/ (pending = <<pending[1]>> /\ PendingInv(pending[1]))
        /\ chain \in Seq([producer : Accounts \cup {NoName}, confirmed : Nat, required : Nat])
=============================================================================
