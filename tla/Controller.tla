----------------------------- MODULE Controller -----------------------------
(***************************************************************************)
(* The block-level state machine of one node                               *)
(* (libraries/chain/controller.cpp): blocks arrive from peers or are       *)
(* produced locally, the node switches to the best fork, moves             *)
(* irreversible blocks to the block log, and survives shutdowns and        *)
(* crashes.  Every action is one call into the controller; calls run to    *)
(* completion on the application's main thread.                            *)
(*                                                                         *)
(* The chain state (chainbase) is represented by the block it results      *)
(* from, db.state.  db.undo[r] is the state the undo session of revision r *)
(* restores.                                                               *)
(***************************************************************************)
EXTENDS ForkDatabase

CONSTANTS
    Invalid,             \* blocks that apply_block rejects on their parent
    LocalBlocks,         \* blocks this node's producers may produce
    disable_replay_opts, \* the configuration flag
    Damage,              \* whether a crash may damage the reversible blocks
    MaxCrashes,          \* bound on the crashes
    MaxCloses            \* bound on the clean shutdowns

ASSUME BlocksAssumption ==
    /\ Invalid \subseteq Blocks \ {Genesis}
    /\ LocalBlocks \subseteq Blocks \ (Invalid \cup {Genesis})
    /\ disable_replay_opts \in BOOLEAN /\ Damage \in BOOLEAN
    /\ MaxCrashes \in Nat /\ MaxCloses \in Nat

(***************************************************************************)
(* Two chains never disagree on a block that both hold irreversible.  This *)
(* is what the confirmation rules of the producers provide (HeaderChain,   *)
(* producer_plugin); the controller relies on it.                          *)
(***************************************************************************)
ASSUME LibAgreement ==
    \A a, b \in Blocks : \A k \in 1..Lower(Lib[a], Lib[b]) :
        chain[a][k] = chain[b][k]

\* b and every block below it pass apply_block.
ValidChain(b) == \A k \in 1..num(b) : chain[b][k] \notin Invalid

(***************************************************************************)
(* Two assumptions on the environment that the code relies on and does not *)
(* check; they are conditions of the passing runs.                         *)
(*                                                                         *)
(* A block that fails validation, or is built on one that does, has no     *)
(* higher irreversible number than the valid blocks below it:              *)
(* fork_database::add prunes by headers that are not validated yet.        *)
(***************************************************************************)
InvalidMovesNothing ==
    \A b \in Blocks : ~ ValidChain(b) =>
        \E a \in Blocks : On(a, b) /\ ValidChain(a) /\ Lib[b] <= Lib[a]

(***************************************************************************)
(* A fork overtakes another one before the block they part at is below its *)
(* irreversible number: add prunes that block before the switch pops down  *)
(* to it.                                                                  *)
(***************************************************************************)
SwitchesInTime ==
    \A a, b \in Blocks :
        ValidChain(a) /\ ~ On(a, b) /\ Better(b, a) /\ ~ Better(prev(b), a) =>
            \E f \in Blocks : On(f, a) /\ On(f, b) /\ Lib[b] <= num(f)

(***************************************************************************)
(* No block has a lower irreversible number than a block below it.  A      *)
(* schedule that shrinks may break this in the block after the change      *)
(* (HeaderChain: CommitFailsOnlyAfterPromotion); the proofs assume that    *)
(* none does, the run schedule_shrink is about a tree where one does.      *)
(***************************************************************************)
LibGrows == \A b \in Blocks : \A k \in 1..num(b) : Lib[chain[b][k]] <= Lib[b]

VARIABLES
    status,      \* "up", "closed", "crashed", a phase of init, "failed" if a
                 \* check of init failed, "broken" if another assert did
    fork_db,     \* the fork database
    head,        \* the head block
    db,          \* the chain state: state, revision, undo
    blog,        \* the block log, blog[k] being the block numbered k
    reversible,  \* the reversible block database, by block number
    pending,     \* <<>> or the block under construction
    stops        \* number of crashes and of clean shutdowns so far

vars == <<status, fork_db, head, db, blog, reversible, pending, stops>>

GenesisDb == [state |-> Genesis, revision |-> 1, undo |-> [r \in {} |-> Genesis]]

Init == /\ status = "up"
        /\ fork_db = GenesisForkDb
        /\ head = Genesis
        /\ db = GenesisDb
        /\ blog = <<Genesis>>
        /\ reversible = [n \in {} |-> Genesis]
        /\ pending = <<>>
        /\ stops = [crash |-> 0, close |-> 0]

-----------------------------------------------------------------------------
(***************************************************************************)
(* The pieces an action composes.  Only(f, S) restricts a function.        *)
(***************************************************************************)
Only(f, S) == [x \in DOMAIN f \cap S |-> f[x]]
Extend(f, g) == [x \in DOMAIN f \cup DOMAIN g |-> IF x \in DOMAIN g THEN g[x] ELSE f[x]]

\* chainbase: undo and commit, and the block sessions from number j to b.
Commit(d, n) == [d EXCEPT !.undo = Only(@, {r \in DOMAIN d.undo : r > n})]

UndoTo(d, j) == [state |-> d.undo[j], revision |-> j - 1,
                 undo |-> Only(d.undo, {r \in DOMAIN d.undo : r < j})]

\* Mutant of Apply: the session is opened after the block has written.
ApplySessionLate(d, j, b) ==
    [state |-> b, revision |-> num(b),
     undo |-> Extend(d.undo, [r \in j..num(b) |-> chain[b][r]])]

Apply(d, j, b) ==
    [state |-> b, revision |-> num(b),
     undo |-> Extend(d.undo, [r \in j..num(b) |-> chain[b][r - 1]])]

\* Without an undo session the state advances and nothing else.
ApplyWithoutSession(d, b) == [d EXCEPT !.state = b]

(***************************************************************************)
(* on_irreversible for the optional block s: commit its undo session; if   *)
(* the log does not have it yet, assert that it links to the log's head,   *)
(* append it and drop it from the reversible blocks.                       *)
(***************************************************************************)
Logged(s) == \A i \in 1..Len(s) : num(s[i]) <= Len(blog)

LinksToLog(s) ==
    Logged(s) \/ (num(s[1]) = Len(blog) + 1 /\ prev(s[1]) = blog[Len(blog)])

\* Mutant of CommitIrreversible: commits every session there is.
CommitToHead(d, s) == IF s = <<>> THEN d ELSE Commit(d, d.revision)

CommitIrreversible(d, s) == IF s = <<>> THEN d ELSE Commit(d, num(s[1]))
LogIrreversible(s) == IF Logged(s) THEN blog ELSE Append(blog, s[1])

\* Mutant of TrimReversible: drops the first block that is still reversible.
TrimReversibleTooFar(s) ==
    IF Logged(s) THEN reversible
    ELSE Only(reversible, {n \in DOMAIN reversible : n > num(s[1]) + 1})

TrimReversible(s) ==
    IF Logged(s) THEN reversible
    ELSE Only(reversible, {n \in DOMAIN reversible : n > num(s[1])})

(***************************************************************************)
(* The first block at or above number j on b's chain that is invalid.      *)
(***************************************************************************)
\* Mutant of BadNums: only the tip of the new branch is validated.
BadTip(j, b) == {k \in {num(b)} : chain[b][k] \in Invalid}

BadNums(j, b) == {k \in j..num(b) : chain[b][k] \in Invalid}
FirstBad(j, b) == CHOOSE k \in BadNums(j, b) : \A i \in BadNums(j, b) : k <= i

ChainFrom(j, b) == {chain[b][k] : k \in j..num(b)}

(***************************************************************************)
(* Switching from head to another branch pops head's blocks down to the    *)
(* fork and applies the other branch's.  It relies on the fork database    *)
(* still holding the block the fork starts from ("attempt to pop beyond    *)
(* last irreversible block") and on an undo session for every popped block *)
(* ("db revision is not on par with head block").                          *)
(***************************************************************************)
CanSwitch(f, d, new) ==
    /\ \E k \in 2..Lower(num(new), num(head)) : chain[new][k - 1] = chain[head][k - 1]
    /\ LET j == ForkNum(new, head)
       IN  /\ chain[head][j - 1] \in f.index
           /\ j..num(head) \subseteq DOMAIN d.undo

(***************************************************************************)
(* push_block: add b to the fork database, raising the irreversible signal *)
(* for at most one block, then maybe_switch_forks.  sessions is false for  *)
(* blocks replayed from the block log; record is false while replaying.    *)
(***************************************************************************)
\* Mutant of Recorded: blocks are filed under the number of their successor.
RecordedOffByOne(r, j, b, record) ==
    IF record THEN Extend(Only(r, {n \in DOMAIN r : n < j}),
                          [n \in (j + 1)..(num(b) + 1) |-> chain[b][n - 1]])
    ELSE Only(r, {n \in DOMAIN r : n < j \/ n > num(head)})

Recorded(r, j, b, record) ==
    IF record THEN Extend(Only(r, {n \in DOMAIN r : n < j}),
                          [n \in j..num(b) |-> chain[b][n]])
    ELSE Only(r, {n \in DOMAIN r : n < j \/ n > num(head)})

\* Mutant of ExtendHead: the session of a block that failed is kept.
ExtendHeadKeepsSession(f, d, r, sessions, record) ==
    LET new == f.head
    IN  /\ fork_db' = IF new \in Invalid THEN remove(f, new)
                      ELSE [f EXCEPT !.in_current_chain = @ \cup {new},
                                     !.validated = @ \cup {new}]
        /\ head' = IF new \in Invalid THEN head ELSE new
        /\ db' = IF sessions THEN Apply(d, num(new), new) ELSE ApplyWithoutSession(d, new)
        /\ reversible' = IF record /\ new \notin Invalid
                         THEN Recorded(r, num(new), new, TRUE) ELSE r
        /\ UNCHANGED status

\* new_head->header.previous == head->id: apply one block; start_block asserts
\* that the revision is head's number before it opens a session.
ExtendHead(f, d, r, sessions, record) ==
    LET new == f.head
    IN  IF sessions /\ d.revision # num(head)
        THEN /\ status' = "broken"
             /\ UNCHANGED <<fork_db, head, db, reversible>>
        ELSE IF new \in Invalid
        THEN /\ fork_db' = remove(f, new)
             /\ db' = d
             /\ reversible' = r
             /\ UNCHANGED <<head, status>>
        ELSE /\ fork_db' = [f EXCEPT !.in_current_chain = @ \cup {new},
                                     !.validated = @ \cup {new}]
             /\ head' = new
             /\ db' = IF sessions THEN Apply(d, num(new), new)
                      ELSE ApplyWithoutSession(d, new)
             /\ reversible' = IF record THEN Recorded(r, num(new), new, TRUE) ELSE r
             /\ UNCHANGED status

\* Mutant of SwitchForks: the popped blocks stay flagged.
SwitchForksKeepsFlags(f, d, r, record) ==
    LET new == f.head
        j == ForkNum(new, head)
    IN  /\ BadNums(j, new) = {}
        /\ fork_db' = [f EXCEPT !.in_current_chain = @ \cup ChainFrom(j, new),
                                !.validated = @ \cup ChainFrom(j, new)]
        /\ head' = new
        /\ db' = Apply(UndoTo(d, j), j, new)
        /\ reversible' = Recorded(r, j, new, record)
        /\ UNCHANGED status

\* Pop head's branch, apply the other; on an invalid block pop what was
\* applied, apply the old branch again and remove the invalid block.
SwitchForks(f, d, r, record) ==
    LET new == f.head
        j == ForkNum(new, head)
        bad == FirstBad(j, new)
    IN  IF BadNums(j, new) # {}
        THEN /\ fork_db' = remove([f EXCEPT !.validated = @ \cup
                                      {chain[new][k] : k \in j..(bad - 1)}],
                                  chain[new][bad])
             /\ db' = d
             /\ reversible' = r
             /\ UNCHANGED <<head, status>>
        ELSE /\ fork_db' = [f EXCEPT
                    !.in_current_chain = (@ \ ChainFrom(j, head)) \cup ChainFrom(j, new),
                    !.validated = @ \cup ChainFrom(j, new)]
             /\ head' = new
             /\ db' = Apply(UndoTo(d, j), j, new)
             /\ reversible' = Recorded(r, j, new, record)
             /\ UNCHANGED status

\* Mutant of MaybeSwitchForks: a branch that is not longer is left alone.
SwitchToLongerOnly(f, d, r, sessions, record) ==
    LET new == f.head
    IN  IF new # head /\ prev(new) = head THEN ExtendHead(f, d, r, sessions, record)
        ELSE IF num(new) > num(head) THEN SwitchForks(f, d, r, record)
        ELSE fork_db' = f /\ db' = d /\ reversible' = r /\ UNCHANGED <<head, status>>

MaybeSwitchForks(f, d, r, sessions, record) ==
    LET new == f.head
    IN  IF new # head /\ prev(new) = head
        THEN ExtendHead(f, d, r, sessions, record)
        ELSE IF new = head
        THEN /\ fork_db' = f
             /\ db' = d
             /\ reversible' = r
             /\ UNCHANGED <<head, status>>
        ELSE IF CanSwitch(f, d, new)
        THEN SwitchForks(f, d, r, record)
        ELSE /\ status' = "broken"
             /\ UNCHANGED <<fork_db, head, db, reversible>>

\* The block is new and its parent is known.
\* Mutant of Linkable: only a block on the head is taken.
LinksToHead(b) == b \notin fork_db.index /\ b # Genesis /\ prev(b) = head

Linkable(b) == b \notin fork_db.index /\ b # Genesis /\ prev(b) \in fork_db.index

Push(b, sessions, record) ==
    LET irr == Pruned(fork_db, b)
    IN  /\ Linkable(b)
        /\ IF LinksToLog(irr)
           THEN /\ blog' = LogIrreversible(irr)
                /\ MaybeSwitchForks(add(fork_db, b), CommitIrreversible(db, irr),
                                    TrimReversible(irr), sessions, record)
           ELSE /\ status' = "broken"
                /\ UNCHANGED <<fork_db, head, db, blog, reversible>>
        /\ UNCHANGED stops

\* producer_plugin: a block the node does not have aborts the pending block.
\* One whose parent is unknown does nothing more than that.
on_incoming_block(b) ==
    /\ status = "up"
    /\ pending' = <<>>
    /\ Push(b, TRUE, TRUE)

-----------------------------------------------------------------------------
(***************************************************************************)
(* Local production.  start_block opens an undo session on top of head,    *)
(* which abort_block undoes and commit_block keeps.                        *)
(***************************************************************************)
start_block(b) ==
    /\ status = "up"
    /\ pending = <<>>
    /\ b \notin fork_db.index
    /\ prev(b) = head
    /\ pending' = <<b>>
    /\ status' = IF db.revision = num(head) THEN "up" ELSE "broken"
    /\ UNCHANGED <<fork_db, head, db, blog, reversible, stops>>

abort_block ==
    /\ status = "up"
    /\ pending # <<>>
    /\ pending' = <<>>
    /\ UNCHANGED <<status, fork_db, head, db, blog, reversible, stops>>

\* Mutant of commit_block: the session is pushed although the assert failed.
commit_block_pushes_always ==
    /\ status = "up"
    /\ pending # <<>>
    /\ LET b == pending[1]
           irr == Pruned(fork_db, b)
           f == add(fork_db, b)
       IN  /\ fork_db' = [f EXCEPT !.in_current_chain = @ \cup {b},
                                   !.validated = @ \cup {b}]
           /\ blog' = LogIrreversible(irr)
           /\ head' = f.head
           /\ db' = Apply(CommitIrreversible(db, irr), num(b), b)
           /\ reversible' = Recorded(TrimReversible(irr), num(b), b, TRUE)
    /\ pending' = <<>>
    /\ UNCHANGED <<status, stops>>

(***************************************************************************)
(* commit_block(true): the pending block enters the fork database already  *)
(* flagged; the fork database's head becomes the controller's.  If that is *)
(* not the new block ("committed block did not become the new head in fork *)
(* database") the pending block is aborted, the flags stay.                *)
(***************************************************************************)
commit_block ==
    /\ status = "up"
    /\ pending # <<>>
    /\ LET b == pending[1]
           irr == Pruned(fork_db, b)
           f == add(fork_db, b)
           d == CommitIrreversible(db, irr)
           r == TrimReversible(irr)
       IN  /\ status' = IF LinksToLog(irr) THEN "up" ELSE "broken"
           /\ fork_db' = [f EXCEPT !.in_current_chain = @ \cup {b},
                                   !.validated = @ \cup {b}]
           /\ blog' = LogIrreversible(irr)
           /\ head' = f.head
           /\ db' = IF f.head = b THEN Apply(d, num(b), b) ELSE d
           /\ reversible' = IF f.head = b THEN Recorded(r, num(b), b, TRUE) ELSE r
    /\ pending' = <<>>
    /\ UNCHANGED stops

-----------------------------------------------------------------------------
(***************************************************************************)
(* ~controller: the fork database is written out, and then its oldest      *)
(* block is pruned if it is irreversible.                                  *)
(***************************************************************************)
close ==
    LET oldest == Oldest(fork_db)
        irr == IF num(oldest) <= Lib[fork_db.head] THEN <<oldest>> ELSE <<>>
    IN  /\ status = "up"
        /\ stops.close < MaxCloses
        /\ stops' = [stops EXCEPT !.close = @ + 1]
        /\ status' = IF LinksToLog(irr) THEN "closed" ELSE "broken"
        /\ pending' = <<>>
        /\ db' = CommitIrreversible(db, irr)
        /\ blog' = LogIrreversible(irr)
        /\ reversible' = TrimReversible(irr)
        /\ UNCHANGED <<fork_db, head>>

(***************************************************************************)
(* The end of init: the reversible blocks, or else the log, must end at    *)
(* head, and the state must not be behind it.                              *)
(***************************************************************************)
Consistent(h, d, r) ==
    /\ IF DOMAIN r # {}
       THEN num(h) \in DOMAIN r /\ \A n \in DOMAIN r : n <= num(h)
       ELSE Len(blog) = num(h)
    /\ d.revision >= num(h)

\* The orders of blocks with the same number.
IsOrder(older) == \A p, q \in older : p[2] = q[1] => <<p[1], q[2]>> \in older

Reordered(older) ==
    {o \in {(older \ s) \cup {<<p[2], p[1]>> : p \in s} : s \in SUBSET older} : IsOrder(o)}

(***************************************************************************)
(* Start after a clean shutdown: the fork database is read back, in the    *)
(* order of its hash table, with the saved head.                           *)
(***************************************************************************)
startup ==
    /\ status = "closed"
    /\ \E older \in Reordered(fork_db.older) :
          fork_db' = [fork_db EXCEPT !.older = older]
    /\ head' = fork_db.head
    /\ status' = IF Consistent(fork_db.head, db, reversible) THEN "up" ELSE "failed"
    /\ db' = IF Consistent(fork_db.head, db, reversible) /\ db.revision > num(fork_db.head)
             THEN UndoTo(db, num(fork_db.head) + 1) ELSE db
    /\ UNCHANGED <<blog, reversible, pending, stops>>

(***************************************************************************)
(* A crash leaves the block log and the reversible blocks, recovered by    *)
(* chain_plugin up to the first damaged entry.  A crash in the middle of a *)
(* fork switch leaves a prefix as well, of the old branch or of the new    *)
(* one.  It may also hit on_irreversible between the append to the log and *)
(* the removal of the reversible block.                                    *)
(***************************************************************************)
Recovered(r) ==
    IF Damage THEN {Only(r, {n \in DOMAIN r : n <= m}) : m \in {0} \cup DOMAIN r}
    ELSE {r}

Lost == /\ fork_db' = GenesisForkDb
        /\ head' = Genesis
        /\ db' = GenesisDb
        /\ pending' = <<>>

crash ==
    /\ status \in {"up", "replay_irreversible", "replay_reversible"}
    /\ stops.crash < MaxCrashes
    /\ stops' = [stops EXCEPT !.crash = @ + 1]
    /\ status' = "crashed"
    /\ reversible' \in Recovered(reversible)
    /\ Lost
    /\ UNCHANGED blog

crash_in_on_irreversible(b) ==
    /\ status = "up"
    /\ Linkable(b)
    /\ ~ Logged(Pruned(fork_db, b))
    /\ stops.crash < MaxCrashes
    /\ stops' = [stops EXCEPT !.crash = @ + 1]
    /\ status' = "crashed"
    /\ blog' = LogIrreversible(Pruned(fork_db, b))
    /\ reversible' \in Recovered(reversible)
    /\ Lost

\* Mutant of start_replay: a log of two blocks is not replayed.
start_replay_off_by_one ==
    /\ status = "crashed"
    /\ status' = IF Len(blog) > 2 THEN "replay_irreversible" ELSE "finish"
    /\ Lost
    /\ UNCHANGED <<blog, reversible, stops>>

(***************************************************************************)
(* Replay (--replay-blockchain): start from genesis, push the blocks of    *)
(* the log, set the revision, push the reversible blocks, finish init.     *)
(* With only genesis in the log, init goes straight to its final checks.   *)
(***************************************************************************)
start_replay ==
    /\ status = "crashed"
    /\ status' = IF Len(blog) > 1 THEN "replay_irreversible" ELSE "finish"
    /\ Lost
    /\ UNCHANGED <<blog, reversible, stops>>

\* push_block throws, and init with it, on a block that the fork database has
\* already or cannot link, and on one that fails validation.
Replay(b, sessions) ==
    /\ IF Linkable(b) /\ b \notin Invalid
       THEN Push(b, sessions, FALSE)
       ELSE /\ status' = "failed"
            /\ UNCHANGED <<fork_db, head, db, blog, reversible, stops>>
    /\ UNCHANGED pending

replay_irreversible ==
    /\ status = "replay_irreversible"
    /\ num(head) < Len(blog)
    /\ Replay(blog[num(head) + 1], disable_replay_opts)

\* db.set_revision throws if there is an undo session.
set_revision ==
    /\ status = "replay_irreversible"
    /\ num(head) = Len(blog)
    /\ status' = IF DOMAIN db.undo = {} THEN "replay_reversible" ELSE "failed"
    /\ db' = IF DOMAIN db.undo = {} THEN [db EXCEPT !.revision = num(head)] ELSE db
    /\ UNCHANGED <<fork_db, head, blog, reversible, pending, stops>>

replay_reversible ==
    /\ status = "replay_reversible"
    /\ num(head) + 1 \in DOMAIN reversible
    /\ Replay(reversible[num(head) + 1], TRUE)

finish_init ==
    /\ \/ status = "finish"
       \/ status = "replay_reversible" /\ num(head) + 1 \notin DOMAIN reversible
    /\ status' = IF Consistent(head, db, reversible) THEN "up" ELSE "failed"
    /\ UNCHANGED <<fork_db, head, db, blog, reversible, pending, stops>>

PushBlock == \E b \in Blocks : on_incoming_block(b)
StartBlock == \E b \in LocalBlocks : start_block(b)
CrashInOnIrreversible == \E b \in Blocks : crash_in_on_irreversible(b)

Recover == startup \/ start_replay \/ replay_irreversible \/ set_revision
           \/ replay_reversible \/ finish_init

Next == \/ PushBlock
        \/ StartBlock \/ abort_block \/ commit_block
        \/ close \/ crash \/ CrashInOnIrreversible
        \/ Recover

Spec == Init /\ [][Next]_vars

(***************************************************************************)
(* Fairness: a node that stopped is started again and its init runs to the *)
(* end; while peers have a valid block that links to the node's fork       *)
(* database, one is delivered some day.  Both are weak fairness, WF_vars,  *)
(* with the enabling conditions written out.                               *)
(***************************************************************************)
Deliverable(b) == status = "up" /\ Linkable(b)

Resumable == status \in {"closed", "crashed", "replay_irreversible",
                         "replay_reversible", "finish"}

ValidBlocks == {b \in Blocks : ValidChain(b)}

FairSpec ==
    /\ Spec
    /\ []<>(~ Resumable) \/ []<><<Recover>>_vars
    /\ \/ []<>(\A b \in ValidBlocks : ~ Deliverable(b))
       \/ []<><<\E b \in ValidBlocks : on_incoming_block(b)>>_vars

-----------------------------------------------------------------------------
(***************************************************************************)
(* Properties                                                              *)
(***************************************************************************)
Up == status = "up"

\* The longest chain that the durable files hold.
Durable == LET tops == {n \in DOMAIN reversible : \A m \in DOMAIN reversible : m <= n}
           IN  IF \E n \in tops : n > Len(blog)
               THEN reversible[CHOOSE n \in tops : TRUE] ELSE blog[Len(blog)]

fetch_block_by_number(n) ==
    LET flagged == get_block_in_current_chain_by_num(fork_db, n)
    IN  IF flagged # {} THEN flagged
        ELSE IF n <= Len(blog) THEN {blog[n]} ELSE {}

\* The shape of the state; every undo session restores some block's state.
TypeOK ==
    /\ status \in {"up", "closed", "crashed", "replay_irreversible",
                   "replay_reversible", "finish", "failed", "broken"}
    /\ fork_db.index \subseteq Blocks /\ fork_db.index # {}
    /\ fork_db.head \in fork_db.index
    /\ fork_db.older \subseteq fork_db.index \X fork_db.index
    /\ fork_db.in_current_chain \subseteq fork_db.index
    /\ fork_db.validated \subseteq fork_db.index
    /\ head \in Blocks
    /\ db.state \in Blocks /\ db.revision \in Nat
    /\ \A r \in DOMAIN db.undo : db.undo[r] \in Blocks
    /\ blog \in Seq(Blocks)
    /\ \A n \in DOMAIN reversible : num(reversible[n]) = n
    /\ pending = <<>> \/ \E b \in LocalBlocks : pending = <<b>>

(***************************************************************************)
(* maybe_switch_forks: whatever the order of arrival, after forks that     *)
(* failed in the middle and after restarts, the node is on a chain that no *)
(* block of the fork database beats.                                       *)
(***************************************************************************)
HeadIsBest == Up => head \in fork_db.index /\ \A b \in fork_db.index : ~ Better(b, head)

(***************************************************************************)
(* apply_block, pop_block and init: the chain state is the one head        *)
(* results from, and the revision is head's number, which start_block      *)
(* ("db revision is not on par with head block") relies on.                *)
(***************************************************************************)
StateMatchesHead == Up => db.state = head /\ db.revision = num(head)

(***************************************************************************)
(* fetch_block_by_number finds the blocks of head's chain and no others,   *)
(* in the fork database or in the log: the current-chain flags survive     *)
(* switches, failed switches, pruning and restarts.                        *)
(***************************************************************************)
FetchByNumber ==
    Up => /\ \A n \in 1..num(head) : fetch_block_by_number(n) = {chain[head][n]}
          /\ \A b \in fork_db.in_current_chain : On(b, head)

(***************************************************************************)
(* The block log and the reversible blocks together are one chain without  *)
(* gap, in every state, so that a crash at any point can be recovered by   *)
(* replay; while the node is up that chain is head's.                      *)
(***************************************************************************)
DurableChain ==
    /\ \A k \in 1..Len(blog) : k <= num(Durable) /\ blog[k] = chain[Durable][k]
    /\ \A n \in DOMAIN reversible : reversible[n] = chain[Durable][n]
    /\ (Len(blog) + 1)..num(Durable) \subseteq DOMAIN reversible
    /\ Up => Durable = head

(***************************************************************************)
(* Any block that is neither irreversible nor logged can still be popped:  *)
(* its undo session exists and restores its parent's state, and the parent *)
(* is in the fork database (pop_block).                                    *)
(***************************************************************************)
CanRevertToLib ==
    Up => \A k \in 2..num(head) :
             k > Lib[head] /\ k > Len(blog) =>
                /\ k \in DOMAIN db.undo
                /\ db.undo[k] = chain[head][k - 1]
                /\ chain[head][k - 1] \in fork_db.index

(***************************************************************************)
(* A block that fails validation never stays: it is not on head's chain,   *)
(* not logged, not flagged as validated, and nothing built on it is left   *)
(* on the chain (set_validity and the reversal of a failed switch).        *)
(***************************************************************************)
InvalidNeverKept ==
    Up => /\ ValidChain(head)
          /\ fork_db.validated \cap Invalid = {}
          /\ \A n \in DOMAIN reversible : reversible[n] \notin Invalid

(***************************************************************************)
(* No assert on the way of a block fires: "attempt to pop beyond last      *)
(* irreversible block", "irreversible doesn't link to block log head", "db *)
(* revision is not on par with head block", "loss of sync".                *)
(***************************************************************************)
NeverBroken == status # "broken"

(***************************************************************************)
(* Nothing a crash or a shutdown leaves makes init throw, neither its      *)
(* replay nor its final checks, once the log holds more than genesis.      *)
(***************************************************************************)
RestartSucceeds == status = "failed" => Len(blog) = 1

(***************************************************************************)
(* A block once irreversible on this node's chain is never reverted while  *)
(* the node runs or restarts cleanly, whatever forks it is shown, and the  *)
(* log is only appended to.                                                *)
(***************************************************************************)
KeepsIrreversible ==
    \A k \in 1..Lib[head] : k <= num(head') /\ chain[head'][k] = chain[head][k]

IrreversibleStays ==
    [][/\ status \in {"up", "closed"} /\ status' \in {"up", "closed"} => KeepsIrreversible
       /\ Len(blog) <= Len(blog') /\ SubSeq(blog', 1, Len(blog)) = blog]_vars

(***************************************************************************)
(* on_irreversible writes to the log only what is irreversible on the      *)
(* chain the node is on once the call has ended, failed switches included. *)
(***************************************************************************)
LogsOnlyIrreversible ==
    [][Up /\ blog' # blog /\ status' \in {"up", "closed"} => Len(blog') <= Lib[head']]_vars

(***************************************************************************)
(* A node whose log has passed genesis always comes back up, whenever it   *)
(* crashed, during replay too.                                             *)
(***************************************************************************)
ComesBackUp == Len(blog) > 1 ~> Up

(***************************************************************************)
(* Whatever order the blocks arrive in and whatever fails on the way, the  *)
(* node ends up on the best valid chain, unless init refused to start.     *)
(***************************************************************************)
BestValid == {b \in ValidBlocks : \A a \in ValidBlocks : ~ Better(a, b)}

ConvergesToBest == <>[](status = "failed") \/ <>[](head \in BestValid)

=============================================================================
