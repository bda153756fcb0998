# TLA+ models of BitEOS

BitEOS is a DPOS blockchain node (a fork of EOSIO). These modules model how
blocks and transactions become part of the chain on one node: the header state
that producers and validators derive from block to block, the fork database and
the controller that switches between forks, makes blocks irreversible and
recovers from crashes, the undo sessions of the chain state, the production loop,
the queues of transactions, and the way a node catches up with its peers. Paths
below are relative to the repository; `PROJECT.json` maps every definition to
lines.

## 1. Inventory of the system

| Component | State | Operations | Interacts with |
|---|---|---|---|
| block header state (`libraries/chain/block_header_state.cpp`) | block number, slot, active and pending schedule, `producer_to_last_produced`, `producer_to_last_implied_irb`, `confirm_count`, proposed and irreversible numbers | `generate_next`, `set_confirmed`, `maybe_promote_pending`, `set_new_producers`, `next` | called by the controller (producing) and by the fork database (validating) |
| producer schedule proposals (`controller.cpp`, `wasm_interface.cpp`) | `global_property_object`: proposed schedule and the block that proposed it | `set_proposed_producers`; promotion in `start_block` | privileged contract, header state |
| fork database (`fork_database.cpp`) | tree of block states, head, flags `in_current_chain` and `validated` | `add`, `remove`, `prune`, `set_validity`, `mark_in_current_chain`, `fetch_branch_from`, `close`, reload | raises `irreversible`, which the controller handles inside `add` |
| controller, block level (`controller.cpp`) | head, pending block, reversible block database | `push_block`, `maybe_switch_forks`, `pop_block`, `apply_block`, `start_block`, `commit_block`, `abort_block`, `on_irreversible`, `init` | all others |
| chain state (`libraries/chainbase`) | objects, revision, undo stack | `emplace`, `modify`, `remove`, `start_undo_session`, `undo`, `squash`, `commit`, `set_revision` | controller, transactions |
| block log (`block_log.cpp`) | append-only file and its index | `append`, `read_head`, `read_block_by_num`, `open`, `repair_log` | controller |
| chain_plugin | options | start, replay, recovery of reversible blocks | controller |
| producer_plugin, production loop | pending block mode, watermarks, timer and its correlation id | `schedule_production_loop`, `start_block`, `produce_block`, `on_block`, `on_incoming_block`, `pause`, `resume` | controller, net_plugin |
| unapplied and deferred transactions (`controller.cpp`, `producer_plugin.cpp`) | unapplied, generated, persistent, blacklisted and queued transactions | `on_incoming_transaction_async`, the loops of `start_block`, `push_transaction`, `push_scheduled_transaction`, `pop_block`, `abort_block` | controller, producer_plugin |
| transaction execution (`transaction_context.cpp`, `apply_context.cpp`) | nested sessions, action queues | `exec`, `finalize`, `squash`, deferred, `onerror` | chain state, resource limits, authorization |
| net_plugin (`plugins/net_plugin`) | connections, sync manager, what each peer has | handshakes, notices, chunk requests, timeouts, reassignment, broadcast | producer_plugin through channels |
| resource limits, authorization, native actions | usage objects, permissions | accounting, `check_authorization` | transactions |
| merkle trees, ABI serializer | none | pure functions | header state, tools |
| WASM runtimes | module cache | interpretation | transactions |
| bnet_plugin, history, mongo, HTTP, wallet, API, test plugins; programs; contracts | their own | see `PROJECT.json` | observers or front ends |

What is hard to test here:

- **forks**: the order in which blocks of several branches, some of them
  invalid, arrive; a switch that fails half way; ties;
- **irreversibility**: it is decided by confirmations of a changing set of
  producers, acted on by `add` before the block is validated, and makes undo
  impossible;
- **crashes and restarts** at any point, including inside `on_irreversible` and
  during replay, with four stores (chain state, fork database, reversible
  blocks, log) that are written at different times;
- **schedule changes**, where counters, maps and versions change together and
  producers and validators must compute the same;
- **timers** that have expired and cannot be cancelled while another handler
  moves the loop on, and a loop that every path must keep alive;
- **watermarks** that must keep a producer from contradicting itself on forks;
- **queues** that are emptied and refilled from inside the same loop, and
  transactions that go back and forth between pending block, chain and queue;
- **peers** that are slow, gone, late or behind in the middle of a chunk.

All handlers run on the main thread of appbase, so handlers do not interleave
inside; the concurrency is in the order of handlers, messages and timers, and in
the crashes between and inside them. The full list, each at its line, is
`hazards` in `PROJECT.json`.

## 2. Modules

| Module | Models |
|---|---|
| `BlockHeaderState` | the pure functions of `block_header_state.cpp` |
| `HeaderChain` | one chain growing from genesis: header state, proposal, block under construction |
| `HeaderChainProofs`, `QuorumProofs` | theorems about `HeaderChain` |
| `ForkDatabase` | the fork database as a record, its operations as operators |
| `Controller` | one node: fork database, head, chain state, log, reversible blocks, pending block; every action is one call |
| `BlockTrees` | block trees for `Controller`, computed and checked by `BlockHeaderState` |
| `UndoStack` | one chainbase index with its stack of differences |
| `Snapshots` | what chainbase promises: a stack of snapshots. `UndoStack` implements it, `Controller` uses it |
| `ProducerPlugin` | the production loop of one producer: modes, timer, watermark, signatures |
| `TransactionPool` | where transactions wait on one node, through blocks, forks and bad blocks |
| `NetSync` | the sync manager of `net_plugin` with its peers |
| `ControllerProofs`, `UndoStackProofs`, `ProducerPluginProofs`, `TransactionPoolProofs`, `NetSyncProofs` | theorems about the module of that name |
| `MC...` | models for TLC |

`BlockHeaderState` and `ForkDatabase` are composed by `HeaderChain` and by
`Controller`. `BlockTrees` joins the two: the irreversible numbers that
`Controller` takes as the constant `Lib` are not invented, an `ASSUME` recomputes
them from parents, skipped slots, confirmed counts and schedules with
`BlockHeaderState` and checks that every header is accepted.

### BlockHeaderState and HeaderChain

A header state is a record with the fields of the struct. `producers` is a
sequence of names; keys, digests and merkle roots are left out.
`calc_dpos_last_irreversible` sorts and indexes in the code; here it is the value
with at most `(n-1)/3` numbers below and more than that at or below. `set_confirmed`
walks back over `confirm_count` and stops at the first counter that becomes zero;
here `Hits` are the counters that would, and the walk ends at the newest of them.
Counters are `uint8_t` (`Dec8`). The check against double confirmation subtracts
unsigned numbers: for a count above the block number (`Wraps`) it accepts the header.

Actions: `StartBlock` (`controller_impl::start_block` with any slot and any count
that validators accept, wrapped ones included), `SetProposedProducers`,
`CommitBlock`, `abort_block`. `commit_block(add_to_fork_db)` is the producer's, with
its assert that the block becomes head, or the one at the end of `apply_block`, which
has none: a chain of this module is any chain that validators accept, a falling
irreversible number included.
`chain` is a history variable: producer, confirmed and required confirmations of
every block. `ConfirmChoices` is the policy for the confirmed count; the proofs
leave it open, the models use every count (`AnyCount`) or the watermark rule of
`producer_plugin` (`SinceWatermark`).

### ForkDatabase and Controller

A block is identified with its chain, `chain[b]`. The order of insertion, which
decides ties in the multi-index, is the relation `older` between blocks of equal
number. `db.state` is the block whose state chainbase holds and `db.undo[r]` the
state that undoing revision `r` restores. `blog` is a sequence, `reversible` a
function from numbers to blocks.

| Action | Code |
|---|---|
| `on_incoming_block(b)` | `producer_plugin_impl::on_incoming_block`, `push_block`, `fork_database::add` and `prune`, `on_irreversible`, `maybe_switch_forks` with a failed switch and its reversal |
| `start_block`, `commit_block`, `abort_block` | local production |
| `close`, `startup` | clean shutdown and start, with the reload of the fork database |
| `crash`, `crash_in_on_irreversible` | loss of everything but log and reversible blocks |
| `start_replay`, `replay_irreversible`, `set_revision`, `replay_reversible`, `finish_init` | `init` |

`status` is `"failed"` when `init` throws and `"broken"` when an assert on the
way of a block fails; nothing happens after that.

### UndoStack and Snapshots

`indices` maps ids to objects with a unique key and other data. A session holds
the fields of `undo_state`; the three loops of `undo` are `RestoreOld`, `EraseNew`
and `RestoreRemoved`, in the order of the code, and `UndoFits` says when one of
their inserts would throw. `Merged` is the table of `squash`. `saved`, the
snapshots, is history. One index stands for all: `chainbase::database` calls each
of its indices in turn. `key` is the part of the unique keys that no `modify`
changes. The chain does modify other parts of composite keys (`linkauth` the
`required_permission`, `besio_contract.cpp:327`; contracts their secondary keys,
`apply_context.hpp:243`), but there the unchanged part is unique by itself, so no
`modify` meets a taken key. `next_id` grows until `undo` gives it back.

### ProducerPlugin

Time is counted in slots. A block is the sequence of the slots of its chain;
slot and schedule give its producer. `schedule_production_loop` is
`start_block` and what follows it, with the choice of being late for a slot, a
start that fails, and a block that is exhausted. `timer` is the armed handler,
`queued` one that has expired and can no longer be cancelled. Every handler first
compares its correlation id (`IsCurrent`). Ids are reused once no handler has
them; the code's counter does not repeat. `on_block` runs for every block a switch
applies, also when the switch fails later and the old branch is applied again
(`rejected_block`). A received block may be `MaxAhead` slots ahead of the clock (7 s,
14 slots, in the code). Which of two chains wins by irreversible number is a free choice
(`raisesLib`). `signed` is history.

### TransactionPool

A chain is a sequence of blocks, a block the sets of transactions it applied and
of deferred ones it retired. `start_block` of the plugin is a loop over several
queues, so it is several steps (`phase`), one per transaction; other handlers run
only in phase `idle`. A pushed transaction succeeds, fails objectively (the
controller forgets it), by a limit (the plugin gives up on it), or subjectively
(the block is full, it is tried again): which of them is a free choice, except
that expired and duplicate transactions fail objectively. A transaction has one name
for its `id`, which the duplicate check uses, and its `signed_id`, the key of
`unapplied_transactions`: the same transaction with other signatures is not told
apart. The `onramusage` transaction that `push_transaction` pushes inside another one
(`controller.cpp:811`) has no signature and is not marked implicit; it fails at its
own authority check and leaves nothing. Received blocks are
valid or found bad after the transactions in them were applied.

### NetSync

All nodes are on one chain, so a block is its number and `lib(head)` a constant
distance below it. `node` is this node: its head, the fields of `sync_manager`
and its connections with what it has queued to each; a handler is a function from
`node` to the next one, as the handlers call each other. The peers run the same
plugin; how they answer is translated from it, how they get blocks from elsewhere
is one step (`PeerAdvances`, `PeerFollows`). `request_next_chunk`'s search for a
source is `Ring`, `Available` and `NextSource`; `spins` is set when the loop does
not end.

A request's timer runs (`wait`), or it has expired and its handler is queued
(`expired`), which `cancel_wait` and `close` do not take back: `sync_timeout` may run
after the answer, after a new request or after the connection was closed. `cancel_sync`
flushes what is not being written yet, any number of the messages on their way; on a
closed connection its empty request closes it once more. A write that a close aborts
runs its handler later (`write_aborted`), closes again, and stays in `out_queue`
(`writes` becomes `"stuck"`), after which nothing is written to that connection. A
peer skips a block it does not have and goes on with the next completed write
(`PeerWrote`), be it only that of a keepalive. It broadcasts and greets only on a
connection on which it has read this node's handshake.

### Assumptions

Constants: `Accounts` finite; a proposal has at most 125 different names, as
`wasm_interface.cpp` checks; `producer_repetitions` and
`maximum_tracked_dpos_confirmations` positive; no name is twice in the schedule of
`ProducerPlugin` (the same check); `Connections` of `NetSync` is a sequence of peers
without repetitions; block trees are trees. About the environment of one node:

- `LibAgreement`: two chains agree on what both hold irreversible. It is what the
  producers' watermarks are for. It stays an assumption: `watermark_lowered` and
  the loss of watermarks at a restart show that the code alone does not provide
  it, and a network of producers with forks and schedule changes deep enough to
  break or keep it is beyond the bounds TLC reaches.
- `InvalidMovesNothing`: an invalid block has no higher irreversible number than
  the valid blocks below it. `add` prunes by headers that are not validated.
- `SwitchesInTime`: a fork wins before its base is below its irreversible
  number. `add` prunes the base before the switch pops to it.

- `LibGrows`: no block has a lower irreversible number than a block below it. Only
  the proofs about `Controller` assume it. A schedule that shrinks can break it
  (`CommitFailsOnlyAfterPromotion`); `schedule_shrink` and `replay_after_shrink` are
  about a tree where it does.
- At most one clean shutdown, or no invalid block (`MaxCloses <= 1 \/ Invalid = {}`),
  again in the proofs about `Controller` only: a restart may reorder tied blocks, and
  if the best one is then found invalid a second shutdown saves the wrong head.

`MCController` assumes `InvalidMovesNothing` and `SwitchesInTime`, and `BlockTrees`
checks `LibGrows` for the tree of `forks`, so that run meets every hypothesis of
the theorems. Section 3 says what the code does without them.

## 3. Runs

| Run | Bounds | Shows |
|---|---|---|
| `header_chain` | 3 producers and the system account, schedules of 3 and 2, every confirmed count and in every second block a wrapped one, 2 skipped slots, block 9, 4 tracked counters | counters exact and a quorum behind every proposed block unless a count wrapped; irreversible behind proposed, implied numbers of the active producers, proposals follow, producer and validator agree, `IInv` |
| `schedule_changes` | schedules of 4, 3 and 0 producers, watermark rule, 2 skipped slots, block 17 | counters exact over several completed schedule changes; `commit_block` fails only right after one |
| `forks` | 14 blocks, three branches with a tie, one invalid block with a successor, a longer branch with a lower irreversible number, production at two heights, 2 crashes, 1 shutdown, fairness | head is best, state matches head, lookup by number, durable chain, undo available, nothing invalid kept, no assert, restart works, only irreversible blocks logged, irreversible blocks stay, the node comes back up and converges |
| `schedule_shrink` | 14 blocks around a change from 4 to 3 producers, damaged reversible blocks, 1 crash, 2 shutdowns | state and durable files where a produced block does not become head |
| `undo_stack` | 3 ids, 2 keys, 2 other values, 3 open sessions, revisions up to 4 | undo restores, never throws, and the stack implements `Snapshots` |
| `production_loop` | 2 producers with turns of 2 slots, time 6, 2 received blocks up to 2 slots ahead, 1 fault (failed start, rejected block or failed switch, pause or crash), confirmed count modulo 2 | no contradiction between restarts, blocks shipped by their own timer, loop alive, wakes up in time |
| `transaction_pool` | 2 transactions in 2 requests, one persistent, 1 deferred, 3 blocks, time 2 (the expiration), fairness | applied once, answered once, nothing lost, every request answered |
| `net_sync` | 2 peers, each with its head below, just above or far above the node's, in all nine combinations, chunks of 3, 1 event (lost connection, early timeout, new block), late timeouts, aborted writes, fairness | no hole, a request loses its timer in one way only, the node catches up unless `Wedged` |

Why the bounds are enough. A schedule change needs the proposal, its becoming
irreversible, the announcement and its becoming irreversible: block 9 completes
one with two producers, block 17 several with three and four. `(n-1)/3` and
`n*2/3+1` take different values for 2, 3 and 4 producers, and 4 is the least for
which a producer can be silent without stopping the chain. Four tracked counters
overflow within nine blocks; a count of the block number plus one is the least that
wraps. The fork tree is the smallest that has a tie, an
invalid block in the middle of a branch, a jump of the irreversible number by two
past the base of a fork that is still known, and a longer branch that must lose.
Two crashes let one hit the replay after the other. Three sessions are the least
in which a merged session is merged again, three ids and two keys the least in
which a key changes hands. Six slots are a whole round and half of the next; one
queued handler suffices because handlers of one timer run in order; two slots ahead
put a received block into the next producer's turn; a confirmed
count that wraps at 2 wraps within the run. The transactions expire inside the
run, so that the duplicate check is met on both sides of its boundary. A chunk of
3 is shorter than what a far peer has to serve and leaves a rest; `Lag` is 2 so
that a peer can be ahead by head only or by its irreversible block. `NoHole` and
`Watched` are proved for any chunk and any number of events. `CatchesUp` is a
conditional property. Four things can leave the node behind for good, and it is about
the behaviours in which none of them happens (`Wedged`): a far peer's notice that is
read while the node follows a near head (`stays_behind`), a search for a source that
does not end (`source_search`), a write that was aborted (`out_queue` is never
cleared), and a peer that has moved on when it reads the request for its latest
blocks, which then do not link (`Overtaken`). The run reaches all four with its one
event. Outside of the runs, peers at 5 and 7 were checked with two events (560,000
states, without aborted writes), and no fifth thing was found.

`CHECK_DEADLOCK` is off where the model ends with its bounds (chains, trees, time,
events); `undo_stack` and `transaction_pool` are checked for deadlock.

Fairness:

- `Controller`: weak fairness of the steps of `init` (a stopped node is started
  again and `init` is a loop without waiting) and of the delivery of a valid block
  that links to the fork database (peers offer their blocks until they are taken),
  with the enabling conditions written out (`Resumable`, `Deliverable`). Nothing is
  assumed of crashes, invalid blocks or production. `ConvergesToBest` allows a node
  to be refused by `init`, which happens with only genesis in the log (see below);
  `ComesBackUp` is about all other cases.
- `TransactionPool`: the loops of `start_block` are weakly fair, being plain loops;
  so is calling it, as a producing node always has a timer set. Strong fairness of
  `Tick` (time passes between handlers) and, as an assumption on the load, of
  speculative blocks and of reaching the end of `start_block`: a node whose every
  block is full answers no queued request.
- `NetSync`: weak fairness of connecting again (`connection_monitor`), of receiving
  what was sent, of peers answering and completing their writes (a keepalive goes out
  on every open connection), of a timer whose answer is not on its way, and of queued
  handlers, which asio runs. Nothing obliges a peer to advance, a connection to fail or a timer to be early.

Every property of a passing run has a mutant: a plausible error in one definition
(`...OffByOne`, `...KeepsFlags`, `RecaptureNothing`) that makes TLC report it
violated.

### Where code and statement disagree

Each of these runs ends in a counterexample; `findings` in `PROJECT.json` quotes
the lines.

| Run | What TLC finds |
|---|---|
| `replay_after_shrink` | after a schedule shrinks the irreversible number may fall, the next block does not become head, and such a chain cannot be replayed: the block is pushed twice and `init` throws |
| `watermark_lowered` | a producer that joins the schedule at different heights of two forks has its watermark lowered and contradicts its signature |
| `source_search` | with two or more connections, none of them current, and no source, the search for a source does not end; a timeout that expired before its connection was lost and runs after leads there |
| `stays_behind` | told of a near head first, the node does not enter sync mode for a far peer and stays behind its irreversible block |

More that the models show, without a run of their own. Of the controller:

- on the chain of `replay_after_shrink` the assert of `commit_block`
  (`controller.cpp:479`) rejects the node's own block;
- without `InvalidMovesNothing`, blocks are pruned and logged on the word of an
  unvalidated header, while `fork_database.hpp:60` says pruning follows validation;
- without `SwitchesInTime`, the base of the winning fork is pruned before the
  switch and `pop_block` throws "attempt to pop beyond last irreversible block";
- a restart may reorder tied blocks; if the best one is then found invalid, a
  second restart takes the other as head with the wrong state, unnoticed
  (`controller.cpp:311` compares numbers only). The tree of `forks` has an invalid
  block that ties with a valid one, but only one shutdown, and this takes two;
- `--disable-replay-opts` replays with undo sessions and `set_revision` throws
  (`controller.cpp:277`);
- `set_confirmed` confirms the block itself too (`block_header_state.cpp:200`),
  while `block_header.hpp:19` says that a producer confirms only prior blocks;
- the check against double confirmation (`block_header_state.cpp:158`) wraps for a
  header that confirms more blocks than its number, and accepts it: a producer can
  then be counted for a block it has confirmed, and the counters no longer say how
  many producers did. `producer_plugin.cpp:951` never writes such a count;
  `ConfirmCountExact` and `QuorumBehindProposed` are about the chains without one
  (`CountsInRange`), the other properties of `HeaderChain` about all;
- `fork_database::add` prunes one block per block added, while
  `fork_database.hpp:17` says that all blocks below the irreversible one are freed;
- a replay with only genesis in the log does not look at the reversible blocks
  (`controller.cpp:259`) and is refused by the check after it
  (`controller.cpp:302`); `RestartSucceeds` excepts this case;
- after a replay that lost the reversible blocks, a fork from below the log's head
  pops blocks without undo sessions: `NeverBroken` fails on `ForkTree` with
  `Damage = TRUE`.

Of chainbase:

- `squash` of the only session keeps the revision number, while the comment at
  `chainbase.hpp:341` speaks of one less; `Snapshots` states what the code does;
- `undo` would throw if a `modify` had exchanged unique keys of two objects; the
  chain's objects cannot, as a part of each of their unique keys is never modified
  and unique by itself.

Of production and transactions:

- watermarks are lost at a restart (`producer_plugin.cpp:945`), so
  `NoContradiction` holds between restarts only;
- ways through the loop that set no timer leave the correlation id as it is, so a
  handler that could not be cancelled still counts as current; it only calls the
  loop again, or finds that nothing is being produced;
- `pop_block` gives back the transactions of blocks this node built only
  (`controller.cpp:130`; `block_state::trxs` is empty in received blocks), while
  `controller.cpp:113` describes the list as the transactions undone by pop_block or abort_block. `NothingLost`
  excepts them, and with them transactions that a branch had applied before the
  switch to it failed;
- unapplied transactions that expired are dropped only while producing
  (`producer_plugin.cpp:1016`);
- one queued request is tried per call of `start_block` (`producer_plugin.cpp:1115`).

Of the sync manager:

- when the source is lost after all that is known was requested,
  `request_next_chunk` takes a new source and asks it for nothing
  (`net_plugin.cpp:1373`): the blocks that are still missing have no timer, and the
  node waits until a block it does not expect, a new handshake or a lost connection
  makes it ask again. `Watched` names this, with the change of source, as the only
  exception;
- the handler of a failed write returns without clearing `out_queue`
  (`net_plugin.cpp:1015`), and `do_queue_write` returns while something is in it
  (`net_plugin.cpp:982`): after the connection is opened again nothing is written to
  it, not even a handshake;
- the answer to a request for the latest blocks starts at the peer's irreversible
  block; if that has passed this node's head meanwhile, no block of it links, the node
  goes back to `in_sync`, and nothing makes it ask for the blocks between;
- a queued timeout is not taken back by `cancel_wait` (`net_plugin.cpp:1113`): run
  late, it cancels a request that is being answered and asks another peer;
- with `sync_req_span` not above the distance of head and irreversible block,
  a chunk may lie below head and be asked for again and again;
- the loop of `verify_catchup` leaves after the first connection
  (`net_plugin.cpp:1505-1528`), and `recv_block` clears the fork head of the sender
  instead of the connection it compared (`net_plugin.cpp:1578`);
- a block that does not link is dropped without an exception, so the sync manager
  counts it as received; `NoHole` shows that in `lib_catchup` it never relies on one.

## 4. Proofs

Every theorem is about the module TLC runs, for all values of its constants that
meet the named assumptions: any accounts, schedules, chains, forks, chunk sizes,
depths and numbers of events. `MaxBlockNum` and its like, which bound the runs, are
arbitrary numbers in the proofs, with the one exception of `MaxCloses` (see
`Environment` below).

| Theorem | States |
|---|---|
| `HeaderChainProofs`: `Inductive`, `TypeCorrect` | `IInv`, `TypeOK` |
| `IrreversibleSafe`, `ThirdsOfActive`, `ProposalsFollow` | `IrreversibleBehindProposed`, `ImpliedByActive`, `ProposalFollows` |
| `CommitFails` | `CommitFailsOnlyAfterPromotion` |
| `QuorumProofs`: `QuorumInductive` | `QuorumInv` |
| `CountersExact`, `ProposedHasQuorum`, `ValidatorsAgree` | `ConfirmCountExact`, `QuorumBehindProposed`, `ProducerValidatorAgree` |
| `ControllerProofs`: `ControllerInductive`, `TypeCorrect` | `ControllerInv`, `TypeOK` |
| `AlwaysOnBest`, `StateIsHeads`, `FetchesHeadsChain` | `HeadIsBest`, `StateMatchesHead`, `FetchByNumber` |
| `FilesAreOneChain`, `AlwaysRevertible`, `InvalidLeavesNoTrace` | `DurableChain`, `CanRevertToLib`, `InvalidNeverKept` |
| `NoAssertFires` | `NeverBroken`, with `SwitchesInTime` and without `Damage` |
| `InitNeverThrows` | `RestartSucceeds`, without `Damage` and `disable_replay_opts` |
| `IrreversibleNeverReverted`, `LogIsIrreversible` | the action properties `IrreversibleStays`, `LogsOnlyIrreversible` |
| `UndoStackProofs`: `TypeCorrect`, `RestoresAlways`, `NeverThrows` | `TypeOK`, `Restores`, `UndoNeverThrows` |
| `Refinement` | `ImplementsSnapshots` |
| `TransactionPoolProofs`: `PoolInductive` | `PoolInv` |
| `NothingAppliedTwice`, `NothingAnsweredTwice`, `NothingIsLost` | `AppliedOnce`, `AnsweredOnce`, `NothingLost` |
| `ProducerPluginProofs`: `PluginInductive` | `PluginInv` |
| `NeverContradicts` | `NoContradiction`, of a producer that is in the schedule from the start (`~JoinsLater`); `watermark_lowered` is the counterexample for one that joins later |
| `ShipsOwnBlock`, `LoopNeverDies`, `NeverSleepsIn` | `ShippedByOwnTimer`, `LoopAlive`, `WakesInTime` |
| `NetSyncProofs`: `SyncInductive` | `SyncInv` |
| `LeavesNoHole`, `StaysWatched` | `NoHole`, `Watched` |

None of the properties is inductive as it stands. The invariants, and why each is
needed:

**`IInv`** of the header chain adds

- `HeaderInv` of head: tracked blocks lie above the proposed one
  (`ConfirmWindow`), every implied number is at most the proposed one
  (`ImpliedBehindProposed`), the implied numbers belong to the active producers
  and a pending schedule has the next version (`ScheduleInForce`), and away from
  schedule changes the irreversible number is the one the implied numbers give
  (`IrreversibleIsImplied`);
- `ProposalInv` of the proposal: its version follows the last schedule;
- `PendingInv` of the block under construction: the same of it, and it does not
  lower the irreversible number unless head changed the schedule.

`SlotIndex` and `ScheduledProducer` show that a slot has a producer of the active
schedule. `NthExists` and `CalcIsNth` show that the selection in
`calc_dpos_last_irreversible` is defined and returns one of the implied numbers,
hence at most the proposed one. `CalcMonotone` shows that raising one implied
number does not lower the result; `IrreversibleGrows` applies it to
`generate_next`, which raises the producer's number to the proposed one.
`SetConfirmed` shows that the proposed number moves up to a tracked block and the
window moves with it. `Promote` carries the invariant over a schedule change,
where only `IrreversibleIsImplied` is lost, which is why `commit_block` may fail
in the next block and in no other. `IInv` is also an invariant of the run
`header_chain`.

**`QuorumInv`** adds the history of confirmations. A counter is exact only if no
producer confirms a block twice. The check against that compares with
`producer_to_last_produced`, which a promotion rebuilds for the new producers only,
so a producer may leave, come back and find its last block forgotten. `NotForgotten`
says why this does no harm: whoever is missing from the map has no block above the
one that announced the pending schedule, and the default it gets on return is not
below that. Counters and quorum are claimed as long as `CountsInRange` holds, that is,
no header has made the check wrap; the map and agreement with validators need no such
condition. `Walk` and `WalkedCounts` treat the backward walk of `set_confirmed` with
its 8 bit counters; `QuorumStays` says that later blocks only add confirmers. The
block under construction is known to be one `start_block` built (`Started`), from
which `ValidatorAgrees` derives that `next` accepts and recomputes it.

**`ControllerInv`** is proved under `Environment`, which is `LibGrows`,
`InvalidMovesNothing` and the restriction on shutdowns; `LibAgreement` and the shape
of the tree are assumptions of `Controller`. Damaged reversible blocks, both replay
options and forks that overtake late are included, except in the two theorems that
say otherwise. Its parts:

- `NodeInv`: for some number `n` the index has every branch down to `n`, blocks of
  one number are ordered by insertion, head is a best block, its chain is valid and
  exactly its blocks are flagged, and what was pruned is irreversible on head;
- `FilesInv`: log and reversible blocks are the chain of one valid block, which is
  head while the node is up and lies above head during a replay;
- `PhaseInv`: a session for every block above the log, and what `init` has
  established in each of its phases;
- `HeadInv`: the fork database's head is the controller's. Unlike the rest it needs
  the restriction on shutdowns: a reorder of ties followed by a rejected block
  separates the two, and `close` saves the one that is not the state's;
- `PendingInv` and `EndInv`: the block being produced is head's child and unknown to
  the fork database; and the only ways into `"broken"` and `"failed"`.

`AddOutcome` says what `add` with its pruning does to an index. `Rejected`,
`Extended` and `Switched` are the three ways `maybe_switch_forks` ends, for the fork
database; `SwitchSessions` follows the undo sessions through popping one branch and
applying the other. `PartAbove` is the heart of it: two branches part above
everything pruned or logged, which follows from `LibAgreement` and, when the new
block prunes past head's own irreversible number, from `SwitchesInTime`. `LogStep` shows that the block `add`
prunes links to the log and is irreversible on head; `RecordedFiles` and
`RecoveredFiles` follow the files through a switch and through damage. There is one
lemma per action (`IncomingBlock`, `CloseStep`, `ReplayIrreversibleStep`, ...).
Each also proves `StepInv`, that head's irreversible number does not fall and the log
grows by one irreversible block at most; with `LibAgreement` that gives the two
action properties. TLC confirms `ControllerInv` on the constants of `forks`.

**`UndoStack`**'s invariant is the relation `Records` between a session and two
states, the one it began with and the one the next session began with: exactly which
ids are new, which are gone, and what was kept of those that changed. One lemma per
operation shows that writing extends the relation, `MergeRecords` that the table of
`squash` composes it, `UndoRestores` that `undo` inverts it and meets no key that is
taken. The refinement maps the stack to the snapshots, which are history.

**`PoolInv`**: every chain in the fork database is free of repetitions; what is
unapplied is in neither the chain nor the pending block; a request in the queue is
there once and unanswered. `record_transaction` refuses only transactions whose
object is still there, and objects are removed when they expire: `NotInChain` puts
that check and the one of the expiration together. `SwitchWorks` and `SwitchFails`
follow the transactions of two chains through a switch and its reversal.

**`PluginInv`**: at most one handler is set and one queued (`TimersInv`), the current
one was set for the pending block (`OwnInv`), there is one whenever the node
produces or may (`AliveInv`), and the watermark covers what was signed since the
start (`SignedInv`). `AliveInv` is stronger than `LoopAlive`: `resume` leaves the loop
alone while the mode is producing and relies on a handler being there. `NoTurnBefore`
is the arithmetic of `calculate_next_block_time`; `ScheduleKeeps` is one lemma about
`schedule_production_loop`, in which nearly every handler ends; `NewStatement`
compares a new signature with all earlier ones, with the 16 bit wrap of the
confirmed count.

**`SyncInv`**: nothing beyond what is known to exist was requested, while catching up
the next expected block links, and a node in sync that has a source knows of nothing
it lacks (`Settled`). The last part is needed for `Watched`: a notice could otherwise
turn the node's old, unwatched request into one that counts. Handlers are functions of the node, so
each has a lemma (`...Outcome`) that it keeps `NodeInv` and either leaves no watched
request unwatched (`Keeps`) or took another source without asking it (`Moved`).
`ReassignOutcome` is the late timeout, with any part of the queue flushed.

The theorems conclude with propositional temporal logic.

Only model-checked are the liveness properties (`ConvergesToBest`, `ComesBackUp`,
`EventuallyAnswered`, `CatchesUp`): liveness under fairness is out of the prover's
reach. That the numbers `Lib` of a tree are those the header states give is
evaluated by TLC for the trees of `BlockTrees`; that they satisfy `LibAgreement` in
every tree is an assumption (section 2).

## 5. What is not modelled

The execution of actions, resource limits, authorization and contracts: a
transaction succeeds or fails in one of four ways, a block of `Controller` is
applied or rejected as a whole. Read mode `IRREVERSIBLE`. BFT confirmations: no
plugin sends them, `bft_irreversible_blocknum` is 0 throughout. The limit on the age
of the irreversible block (`max-irreversible-block-age`, `producer_plugin.cpp:408`,
`914`), which is off by default. The throw of a `modify` that meets a taken key
(`chainbase.hpp:230`). The block log's index and repair. Two crashes that both damage the reversible blocks.
Several producers on one node. Forks among the peers of `NetSync`, the dispatch of
single transactions and blocks with its bookkeeping of what a peer has, and
`bnet_plugin`. Byte code interpretation, serialization, HTTP, wallets and tools,
which are input and output or out of TLC's reach; most of the repository's lines
are of this kind, vendored libraries and contract toolchains included.

## 6. Plan

Proofs: every invariant and action property of a passing run has its theorem. Next
are the properties of `Controller` that hold without `LibGrows` (those that
`schedule_shrink` checks), and new modules as they are written.

Models: the dispatch manager of `net_plugin`; the block log's index; pure
algorithms against a reference (incremental merkle tree, resource usage averages,
authority checker); `besio.msig` and `besio.token`.
