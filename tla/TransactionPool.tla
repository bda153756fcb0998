--------------------------- MODULE TransactionPool ---------------------------
(***************************************************************************)
(* Where transactions wait on one node with a configured producer: the     *)
(* controller's unapplied_transactions and generated transactions, and the *)
(* producer plugin's persistent, blacklisted and pending incoming ones,    *)
(* while blocks are built, produced, received, forked away and found bad.  *)
(*                                                                         *)
(* A chain is the sequence of its blocks.  A block has the transactions it *)
(* applied, the deferred ones it retired, its time, whether it was made    *)
(* here, and whether it is bad: a bad block fails after the transactions   *)
(* listed in it have been applied.  The longer chain wins.                 *)
(*                                                                         *)
(* One call of the production loop is several steps (phase), one per       *)
(* transaction tried; no other handler runs in between.                    *)
(***************************************************************************)
EXTENDS Integers, Sequences, FiniteSets, SequencesExt

CONSTANTS
    Trx,         \* input transactions
    Expiration,  \* their expirations, a function on Trx
    Deferred,    \* deferred transactions
    Creator,     \* the transaction that creates each of them
    Requests,    \* calls of on_incoming_transaction_async
    TrxOf,       \* the transaction each of them brings
    Persist,     \* those with persist_until_expired
    Contents,    \* bound: what received blocks contain
    MaxTime,     \* bound: time
    MaxBlocks    \* bound: blocks made

ASSUME FunctionsAssumption == /\ Expiration \in [Trx -> Nat]
                              /\ Creator \in [Deferred -> Trx]
                              /\ TrxOf \in [Requests -> Trx]
                              /\ Persist \subseteq Requests
ASSUME BoundsAssumption == 
    /\ Contents \subseteq [trxs : SUBSET Trx, retired : SUBSET Deferred, bad : BOOLEAN]
    /\ MaxTime \in Nat /\ MaxBlocks \in Nat

VARIABLES
    now,         \* time
    head,        \* the chain of the head block
    known,       \* the chains of the blocks in the fork database
    made,        \* number of blocks made so far
    pending,     \* <<>> or <<block>>: the pending block
    mode,        \* _pending_block_mode
    unapplied,   \* unapplied_transactions
    persistent,  \* _persistent_transactions
    blacklist,   \* _blacklisted_transactions
    incoming,    \* _pending_incoming_transactions, a sequence of requests
    quota,       \* orig_pending_txn_size
    phase,       \* where the production loop is; "idle": other handlers may run
    todo,        \* transactions the current loop of start_block has not tried yet
    answered     \* number of responses to each request

chains == <<head, known, made>>
queues == <<persistent, blacklist, incoming, quota, answered>>
vars == <<now, chains, pending, mode, unapplied, queues, phase, todo>>

Block(trxs, retired, time, own, bad) ==
    [trxs |-> trxs, retired |-> retired, time |-> time, own |-> own, bad |-> bad]

BlocksAfter(c, k) == {c[i] : i \in (k + 1)..Len(c)}
TrxsIn(bs) == UNION {b.trxs : b \in bs}
RetiredIn(bs) == UNION {b.retired : b \in bs}
TimeOf(c) == IF c = <<>> THEN 0 ELSE Last(c).time

\* Mutant of clear_expired_input_transactions: one block too early.
clear_at_expiration(c, time) == {t \in TrxsIn(Range(c)) : Expiration[t] > time}

\* The transaction objects that are left for a block with this time on chain c.
clear_expired_input_transactions(c, time) ==
    {t \in TrxsIn(Range(c)) : ~ (time > Expiration[t])}

\* The generated transactions in the state after chain c and the blocks more.
Waiting(c, more) ==
    {d \in Deferred : /\ Creator[d] \in TrxsIn(Range(c) \cup more)
                      /\ d \notin RetiredIn(Range(c) \cup more)}

is_known_unexpired_transaction(t) ==
    \/ t \in clear_expired_input_transactions(head, pending[1].time)
    \/ t \in pending[1].trxs

Init ==
    /\ now = 0
    /\ head = <<>> /\ known = {<<>>} /\ made = 0
    /\ pending = <<>> /\ mode = "speculating"
    /\ unapplied = {} /\ persistent = {} /\ blacklist = {}
    /\ incoming = <<>> /\ quota = 0
    /\ phase = "idle" /\ todo = {}
    /\ answered = [r \in Requests |-> 0]
-----------------------------------------------------------------------------
(* push_transaction into the pending block.  "objective" failures are those  *)
(* the controller takes for final, "limit" those it takes for subjective and *)
(* the plugin does not (transaction time, black lists), "subjective" those   *)
(* both do.  A transaction has one name here for its id, which the check for *)
(* duplicates uses, and its signed_id, the key of unapplied_transactions.    *)
(* The onramusage transaction pushed inside another one is neither signed    *)
(* nor marked implicit, fails at its own authority check and leaves nothing. *)

AllResults == {"ok", "objective", "limit", "subjective"}

Results(t) ==
    IF Expiration[t] < pending[1].time \/ is_known_unexpired_transaction(t)
    THEN {"objective"}
    ELSE AllResults

push_transaction(t, result) ==
    /\ result \in Results(t)
    /\ pending' = IF result = "ok" THEN [pending EXCEPT ![1].trxs = @ \cup {t}] ELSE pending
    /\ unapplied' = IF result \in {"ok", "objective"} THEN unapplied \ {t} ELSE unapplied

abort_block ==
    /\ unapplied' = unapplied \cup TrxsIn(Range(pending))
    /\ pending' = <<>>

Answer(r) == answered' = [answered EXCEPT ![r] = @ + 1]

(***************************************************************************)
(* on_incoming_transaction_async for request r, when the requests rest are *)
(* the ones still queued.                                                  *)
(***************************************************************************)
Enqueue(r, rest) == incoming' = Append(rest, r)

\* Mutant of Requeue: a request that will be tried again is answered as well.
RequeueAndAnswer(r, rest) == Enqueue(r, rest) /\ Answer(r)

Requeue(r, rest) == Enqueue(r, rest) /\ UNCHANGED answered

TryRequest(r, result, rest) ==
    LET t == TrxOf[r] IN
    /\ push_transaction(t, result)
    /\ IF result = "subjective"
       THEN Requeue(r, rest)
       ELSE Answer(r) /\ incoming' = rest
    /\ persistent' = IF result = "ok" /\ r \in Persist THEN persistent \cup {t} ELSE persistent

on_incoming_transaction_async(r, result, rest) ==
    IF pending = <<>>
    THEN /\ result = "ok" /\ Requeue(r, rest)
         /\ UNCHANGED <<pending, unapplied, persistent>>
    ELSE IF Expiration[TrxOf[r]] < pending[1].time \/ is_known_unexpired_transaction(TrxOf[r])
    THEN /\ result = "ok" /\ Answer(r) /\ incoming' = rest
         /\ UNCHANGED <<pending, unapplied, persistent>>
    ELSE TryRequest(r, result, rest)

receive_transaction(r) ==
    /\ phase = "idle"
    /\ answered[r] = 0 /\ r \notin Range(incoming)
    /\ \E result \in AllResults : on_incoming_transaction_async(r, result, incoming)
    /\ UNCHANGED <<now, chains, mode, blacklist, quota, phase, todo>>
-----------------------------------------------------------------------------
(* The production loop: start_block of the plugin and its loops.             *)

\* Called at the end of other handlers, or by the timer that is always set in
\* a node with a producer.
MayStart == phase \in {"loop", "idle"}

\* The head is too old to speculate on: nothing is started.
start_block_waits ==
    /\ MayStart
    /\ mode' = "speculating"
    /\ phase' = "idle"
    /\ UNCHANGED <<now, chains, pending, unapplied, queues, todo>>

start_block_fails ==
    /\ MayStart
    /\ abort_block
    /\ mode' = "speculating"     \* not read while there is no pending block
    /\ phase' = "idle"
    /\ UNCHANGED <<now, chains, queues, todo>>

PendingTime == (IF now > TimeOf(head) THEN now ELSE TimeOf(head)) + 1

start_block(m) ==
    /\ MayStart
    /\ mode' = m
    /\ unapplied' = unapplied \cup TrxsIn(Range(pending))   \* chain.abort_block
    /\ pending' = <<Block({}, {}, PendingTime, TRUE, FALSE)>>
    /\ persistent' = {t \in persistent : Expiration[t] > PendingTime}
    /\ quota' = Len(incoming)
    /\ todo' = unapplied' \cap persistent'
    /\ phase' = "persistent"
    /\ UNCHANGED <<now, chains, blacklist, incoming, answered>>

\* Persisted transactions are tried without a deadline, whatever the mode.
push_persistent ==
    /\ phase = "persistent"
    /\ \E t \in todo, result \in AllResults :
          /\ push_transaction(t, result)
          /\ todo' = todo \ {t}
    /\ UNCHANGED <<now, chains, mode, queues, phase>>

persistent_done ==
    /\ phase = "persistent" /\ todo = {}
    /\ phase' = IF mode = "producing" THEN "unapplied" ELSE "last"
    /\ todo' = IF mode = "producing" THEN unapplied \ persistent ELSE {}
    /\ UNCHANGED <<now, chains, pending, mode, unapplied, queues>>

\* The time of the block has come, or the block is full.
exhausted ==
    /\ phase \in {"unapplied", "scheduled", "last"}
    /\ phase' = "idle"
    /\ todo' = {} /\ quota' = 0
    /\ blacklist' \in IF phase = "unapplied" THEN SUBSET blacklist ELSE {blacklist}
    /\ UNCHANGED <<now, chains, pending, mode, unapplied, persistent, incoming, answered>>

\* A transaction that is not applied is dropped, unless the block is full.
drop_unapplied_transaction(t) ==
    /\ unapplied' = unapplied \ {t}
    /\ UNCHANGED pending

push_unapplied ==
    /\ phase = "unapplied"
    /\ \E t \in todo :
          /\ todo' = todo \ {t}
          /\ \/ drop_unapplied_transaction(t)
             \/ push_transaction(t, "ok")
    /\ UNCHANGED <<now, chains, mode, queues, phase>>

unapplied_done ==
    /\ phase = "unapplied" /\ todo = {}
    /\ phase' = "scheduled"
    /\ todo' = Waiting(head, Range(pending))   \* get_scheduled_transactions
    /\ blacklist' \in SUBSET blacklist         \* entries that have expired leave
    /\ UNCHANGED <<now, chains, pending, mode, unapplied, persistent, incoming, quota,
                   answered>>

Retire(d) == pending' = [pending EXCEPT ![1].retired = @ \cup {d}]

\* push_scheduled_transaction: executed, failed (with or without onerror) and
\* expired ones are retired; after a subjective failure the session is undone
\* and the transaction waits on, black listed here if it took too long.
push_scheduled ==
    /\ phase = "scheduled"
    /\ \E d \in todo :
          /\ todo' = todo \ {d}
          /\ \/ d \in blacklist /\ UNCHANGED <<pending, blacklist>>
             \/ d \notin blacklist /\ Retire(d) /\ UNCHANGED blacklist
             \/ d \notin blacklist /\ blacklist' = blacklist \cup {d} /\ UNCHANGED pending
    /\ UNCHANGED <<now, chains, mode, unapplied, persistent, incoming, quota, phase,
                   answered>>

\* Between deferred transactions queued requests get their turn, by weight.
PopRequest ==
    /\ quota > 0 /\ incoming # <<>>
    /\ \E result \in AllResults :
          on_incoming_transaction_async(Head(incoming), result, Tail(incoming))

push_incoming_between ==
    /\ phase = "scheduled" /\ todo # {}
    /\ PopRequest
    /\ quota' = quota - 1
    /\ UNCHANGED <<now, chains, mode, blacklist, phase, todo>>

scheduled_done ==
    /\ phase = "scheduled" /\ todo = {}
    /\ phase' = "last"
    /\ UNCHANGED <<now, chains, pending, mode, unapplied, queues, todo>>

\* Mutant of push_incoming: queued requests are left to the loop above.
push_incoming_never ==
    /\ phase = "last"
    /\ phase' = "idle" /\ quota' = 0
    /\ UNCHANGED <<now, chains, pending, mode, unapplied, persistent, blacklist,
                   incoming, answered, todo>>

\* At the end at most one queued request is tried.
push_incoming ==
    /\ phase = "last"
    /\ IF quota > 0 /\ incoming # <<>>
       THEN PopRequest
       ELSE UNCHANGED <<pending, unapplied, persistent, incoming, answered>>
    /\ phase' = "idle" /\ quota' = 0
    /\ UNCHANGED <<now, chains, mode, blacklist, todo>>
-----------------------------------------------------------------------------
(* Blocks.                                                                   *)

\* maybe_produce_block; a block that cannot be committed is aborted.
produce_block ==
    /\ phase = "idle" /\ mode = "producing" /\ pending # <<>>
    /\ \/ /\ made < MaxBlocks
          /\ made' = made + 1
          /\ head' = head \o pending
          /\ known' = known \cup {head'}
          /\ pending' = <<>>
          /\ UNCHANGED unapplied
       \/ abort_block /\ UNCHANGED chains
    /\ phase' = "loop"
    /\ UNCHANGED <<now, mode, queues, todo>>

Common(a, b) == CHOOSE k \in 0..Len(a) :
    /\ IsPrefix(SubSeq(a, 1, k), b)
    /\ \A i \in 0..Len(a) : IsPrefix(SubSeq(a, 1, i), b) => i <= k

\* The position of the first bad block of chain c after position k, if any.
FirstBad(c, k) == {i \in (k + 1)..Len(c) : c[i].bad /\ \A j \in (k + 1)..(i - 1) : ~ c[j].bad}

\* Mutant of Recaptured: a fork switch drops what the popped blocks held.
RecaptureNothing(bs) == TrxsIn({b \in bs : FALSE})

\* pop_block: only blocks made here have their transactions at hand.
Recaptured(bs) == TrxsIn({b \in bs : b.own})

\* apply_block for the blocks of c from k + 1 to n, all good: what they apply
\* is not unapplied any more.
Applied(u, c, k, n) == u \ TrxsIn({c[i] : i \in (k + 1)..n})

(***************************************************************************)
(* maybe_switch_forks to chain c; u is what is unapplied before.           *)
(***************************************************************************)
switch_to(c, u) ==
    LET k == Common(head, c)
        old == BlocksAfter(head, k)
        popped == u \cup Recaptured(old)
    IN  IF FirstBad(c, k) = {}
        THEN /\ head' = c
             /\ known' = known \cup {c}
             /\ unapplied' = Applied(popped, c, k, Len(c))
        ELSE LET j == CHOOSE i \in FirstBad(c, k) : TRUE
                 undone == {c[i] : i \in (k + 1)..(j - 1)}
             IN  /\ head' = head
                 /\ known' = {x \in known : ~ IsPrefix(SubSeq(c, 1, j), x)}
                 /\ unapplied' = Applied(Applied(popped, c, k, j - 1)
                                           \cup c[j].trxs \cup Recaptured(undone),
                                         head, k, Len(head))

\* Blocks of other producers are valid on their chain or found bad.
Foreign(c, b) ==
    /\ b.time > TimeOf(c)
    /\ \A t \in b.trxs : Expiration[t] >= b.time
    /\ b.trxs \cap clear_expired_input_transactions(c, b.time) = {}
    /\ b.retired \subseteq Waiting(c, {Block(b.trxs, {}, 0, FALSE, FALSE)})

on_incoming_block(c, b) ==
    /\ phase = "idle" /\ made < MaxBlocks
    /\ Foreign(c, b) /\ Append(c, b) \notin known
    /\ made' = made + 1
    /\ pending' = <<>>
    /\ LET u == unapplied \cup TrxsIn(Range(pending))   \* chain.abort_block
       IN  IF Len(c) + 1 > Len(head)
           THEN switch_to(Append(c, b), u)
           ELSE /\ known' = known \cup {Append(c, b)}
                /\ unapplied' = u
                /\ UNCHANGED head
    /\ phase' = "loop"
    /\ UNCHANGED <<now, mode, queues, todo>>

Tick == /\ phase = "idle" /\ now < MaxTime
        /\ now' = now + 1
        /\ UNCHANGED <<chains, pending, mode, unapplied, queues, phase, todo>>

IncomingBlock ==
    \E c \in known, x \in Contents :
        on_incoming_block(c, Block(x.trxs, x.retired, now + 1, FALSE, x.bad))

StartBlock == \E m \in {"producing", "speculating"} : start_block(m)

Next ==
    \/ \E r \in Requests : receive_transaction(r)
    \/ start_block_waits \/ start_block_fails \/ StartBlock
    \/ push_persistent \/ persistent_done \/ push_unapplied \/ unapplied_done
    \/ push_scheduled \/ push_incoming_between \/ scheduled_done \/ push_incoming
    \/ exhausted \/ produce_block \/ IncomingBlock \/ Tick

Spec == Init /\ [][Next]_vars

(***************************************************************************)
(* The timer is always set in a node that produces; each loop of           *)
(* start_block ends; time passes; and again and again a speculative block  *)
(* is started that is not full when the queued requests have their turn.   *)
(***************************************************************************)
Fairness ==
    /\ SF_vars(Tick)
    /\ WF_vars(push_persistent \/ persistent_done \/ push_unapplied \/ unapplied_done
                 \/ push_scheduled \/ scheduled_done)
    /\ WF_vars(start_block_waits \/ start_block_fails \/ StartBlock)
    /\ SF_vars(start_block("speculating"))
    /\ SF_vars(push_incoming)

FairSpec == Spec /\ Fairness
-----------------------------------------------------------------------------
InChain == TrxsIn(Range(head) \cup Range(pending))

(***************************************************************************)
(* No transaction is applied twice on the node's chain and pending block,  *)
(* no deferred one retired twice, and none that is applied still counts as *)
(* unapplied, across retries, forks and bad blocks (record_transaction,    *)
(* clear_expired_input_transactions, push_scheduled_transaction, pop_block).*)
(***************************************************************************)
AppliedOnce ==
    LET c == head \o pending IN
    /\ \A i, j \in 1..Len(c) :
          i # j => c[i].trxs \cap c[j].trxs = {} /\ c[i].retired \cap c[j].retired = {}
    /\ unapplied \cap InChain = {}

Held == InChain \cup unapplied

\* A step that tries transactions, and so may find that one fails for good.
Tries == phase \notin {"idle", "loop"} \/ answered' # answered

(***************************************************************************)
(* A transaction the node has applied stays on its chain, in the pending   *)
(* block or among the unapplied ones until it expires or fails for good:   *)
(* building, aborting, committing and switching lose nothing (abort_block, *)
(* pop_block, maybe_switch_forks).  Transactions of received blocks are    *)
(* excepted: pop_block has them only for blocks this node built.           *)
(***************************************************************************)
InReceivedBlock(t) == \E c \in known \cup known' : \E b \in Range(c) : ~ b.own /\ t \in b.trxs

NothingLost ==
    [][\A t \in Held : t \in Held' \/ Tries \/ InReceivedBlock(t)]_vars

(***************************************************************************)
(* Every request has one response or is still queued, once                 *)
(* (on_incoming_transaction_async and its calls from start_block).         *)
(***************************************************************************)
AnsweredOnce ==
    \A r \in Requests :
        answered[r] + Cardinality({i \in DOMAIN incoming : incoming[i] = r}) <= 1

(***************************************************************************)
(* Every request is answered at last, although start_block tries only one  *)
(* queued request per call and full blocks send requests back to the queue.*)
(***************************************************************************)
EventuallyAnswered == \A r \in Requests : (r \in Range(incoming)) ~> (answered[r] > 0)
=============================================================================
