------------------------------- MODULE NetSync -------------------------------
(***************************************************************************)
(* The net plugin's sync_manager on one node: how the node finds out from  *)
(* its peers that it is behind, asks them for the blocks it lacks chunk by *)
(* chunk, moves on to another peer when one is slow or gone, and follows   *)
(* the head once it has caught up.                                         *)
(*                                                                         *)
(* All nodes are on one chain, so that a block is its number; the fork     *)
(* database's head and irreversible block are head and lib(head).  The     *)
(* peers run the same plugin: what they answer is translated from it, but  *)
(* their own catching up (from others, or from this node) is one step.     *)
(* The connections are configured ones, which connection_monitor opens     *)
(* again when they were closed.                                            *)
(*                                                                         *)
(* A handler of the plugin is a function from the node's state to its next *)
(* one, with the messages to each peer queued in the state.                *)
(***************************************************************************)
EXTENDS Integers, Sequences, FiniteSets, SequencesExt

CONSTANTS
    Connections,    \* the peers, in the order of the set `connections'
    None,           \* no connection
    sync_req_span,  \* blocks in one request
    Lag,            \* blocks between head and the last irreversible one
    Heads,          \* heads this node may start with
    PeerHeads,      \* heads the peers may start with: functions on the peers
    MaxEvents       \* bound: events

Peers == Range(Connections)

ASSUME SyncAssumption ==
    /\ Connections \in Seq(Peers) /\ IsInjective(Connections) /\ Connections # <<>>
    /\ None \notin Peers
    /\ sync_req_span \in Nat \ {0} /\ Lag \in Nat
    /\ \A h \in Heads : h \in Nat /\ h > Lag
    /\ \A f \in PeerHeads : \A p \in Peers : f[p] \in Nat /\ f[p] > Lag
    /\ MaxEvents \in Nat

VARIABLES
    node,      \* this node: its head, the sync_manager and the connections
    peer,      \* what each peer knows: head, current to it or syncing, what it serves
    from,      \* messages on their way from each peer
    writes,    \* each connection's write: "alive", aborted by a close, or stuck for ever
    events     \* number of peers' new blocks, lost connections and early timeouts so far

vars == <<node, peer, from, writes, events>>

lib(head) == head - Lag

Handshake(head, first) == [type |-> "handshake", head |-> head, first |-> first]
CatchUp(head) == [type |-> "catch_up", head |-> head]          \* notice_message
LastIrrCatchUp(head) == [type |-> "last_irr", head |-> head]   \* notice_message
Request(mode) == [type |-> "request", mode |-> mode]           \* request_message
SyncRequest(start, end) == [type |-> "sync", start |-> start, end |-> end]
SignedBlock(n) == [type |-> "block", num |-> n]
Branch(head) == [type |-> "branch", head |-> head]             \* all of blk_send_branch

Closed == [sock |-> "closed", syncing |-> FALSE, lib |-> 0, fork_head |-> 0,
           wait |-> FALSE, expired |-> FALSE, out |-> <<>>]

Init ==
    /\ \E h \in Heads :
          node = [head |-> h, known_lib |-> 0, last_requested |-> 0, next_expected |-> 1,
                  source |-> None, state |-> "in_sync", spins |-> FALSE,
                  conn |-> [p \in Peers |-> Closed]]
    /\ \E f \in PeerHeads :
          peer = [p \in Peers |-> [head |-> f[p], greeted |-> FALSE, syncing |-> FALSE, serve |-> <<>>]]
    /\ from = [p \in Peers |-> <<>>]
    /\ writes = [p \in Peers |-> "alive"]
    /\ events = 0

-----------------------------------------------------------------------------
\* The connection.

connected(m, p) == m.conn[p].sock = "open"

current(m, p) == connected(m, p) /\ ~m.conn[p].syncing

enqueue(m, p, msg) == [m EXCEPT !.conn[p].out = Append(@, msg)]

\* response_expected.  Neither takes back a handler that is queued already (expired).
sync_wait(m, p) == [m EXCEPT !.conn[p].wait = TRUE]

cancel_wait(m, p) == [m EXCEPT !.conn[p].wait = FALSE]

-----------------------------------------------------------------------------
\* Which peer is asked next, and for what.

\* The connections the search visits, in order: all from the first one if there is
\* no source, otherwise those after the source and then those before it.
Ring(m) ==
    IF m.source = None THEN Connections
    ELSE LET i == CHOOSE k \in DOMAIN Connections : Connections[k] = m.source
         IN  SubSeq(Connections, i + 1, Len(Connections)) \o SubSeq(Connections, 1, i - 1)

Available(m) == {i \in DOMAIN Ring(m) : current(m, Ring(m)[i])}

NextSource(m) ==
    CASE Len(Connections) = 1 -> Connections[1]
      [] Len(Connections) > 1 /\ Available(m) # {} -> Ring(m)[Min(Available(m))]
      [] OTHER -> m.source

\* Without a source the search ends at connections.end(), but the iterator goes back
\* to the first connection before it is compared with it.
Spins(m) == Len(Connections) > 1 /\ m.source = None /\ Available(m) = {}

\* Mutant of RequestRange: no timer watches the request.
RequestUnwatched(m) ==
    LET start == m.next_expected
        end == IF start + sync_req_span - 1 > m.known_lib THEN m.known_lib
               ELSE start + sync_req_span - 1
    IN  IF m.source = None \/ ~current(m, m.source)
        THEN [m EXCEPT !.known_lib = lib(m.head), !.last_requested = 0, !.state = "in_sync"]
        ELSE IF m.last_requested # m.known_lib /\ end > 0 /\ end >= start
        THEN enqueue([m EXCEPT !.last_requested = end], m.source, SyncRequest(start, end))
        ELSE m

\* The end of request_next_chunk: ask the source, if it can be asked.
RequestRange(m) ==
    LET start == m.next_expected
        end == IF start + sync_req_span - 1 > m.known_lib THEN m.known_lib
               ELSE start + sync_req_span - 1
    IN  IF m.source = None \/ ~current(m, m.source)
        THEN [m EXCEPT !.known_lib = lib(m.head), !.last_requested = 0, !.state = "in_sync"]
        ELSE IF m.last_requested # m.known_lib /\ end > 0 /\ end >= start
        THEN sync_wait(enqueue([m EXCEPT !.last_requested = end],
                               m.source, SyncRequest(start, end)), m.source)
        ELSE m

request_next_chunk(m, c) ==
    IF m.head < m.last_requested /\ m.source # None /\ current(m, m.source) THEN m
    ELSE IF c # None /\ current(m, c) THEN RequestRange([m EXCEPT !.source = c])
    ELSE IF Spins(m) THEN [m EXCEPT !.spins = TRUE]
    ELSE RequestRange([m EXCEPT !.source = NextSource(m)])

reset_lib_num(m, c) ==
    LET m1 == IF m.state = "in_sync" THEN [m EXCEPT !.source = None] ELSE m
    IN  IF current(m1, c)
        THEN [m1 EXCEPT !.known_lib = IF m1.conn[c].lib > @ THEN m1.conn[c].lib ELSE @]
        ELSE IF c = m1.source
        THEN request_next_chunk([m1 EXCEPT !.last_requested = 0], None)
        ELSE m1

close(m, c) ==
    reset_lib_num([m EXCEPT !.conn[c] = [Closed EXCEPT !.fork_head = m.conn[c].fork_head,
                                                       !.expired = m.conn[c].expired]], c)

sync_required(m) == m.last_requested < m.known_lib \/ m.head < m.last_requested

start_sync(m, c, target) ==
    LET m1 == IF target > m.known_lib THEN [m EXCEPT !.known_lib = target] ELSE m
        m2 == IF m1.state # "in_sync" THEN m1
              ELSE [m1 EXCEPT !.state = "lib_catchup", !.next_expected = lib(m.head) + 1]
    IN  IF sync_required(m1) THEN request_next_chunk(m2, c) ELSE m1

\* cancel_sync: of the messages to c the first kept ones are being written, the others
\* are flushed.  The empty request closes a connection that is closed once more,
\* unless do_queue_write returns because an aborted write blocks it.
cancel_sync(m, c, kept, write) ==
    LET m1 == [cancel_wait(m, c) EXCEPT !.conn[c].out = SubSeq(@, 1, kept)]
    IN  CASE m.conn[c].sock # "closed" -> enqueue(m1, c, SyncRequest(0, 0))
          [] m.conn[c].sock = "closed" /\ write = "alive" -> close(m1, c)
          [] m.conn[c].sock = "closed" /\ write # "alive" -> m1

\* Mutant of reassign_fetch: the cancelled request still counts as made.
reassign_keeping_request(m, c, kept, write) ==
    IF c = m.source THEN request_next_chunk(cancel_sync(m, c, kept, write), None) ELSE m

reassign_fetch(m, c, kept, write) ==
    IF c = m.source
    THEN request_next_chunk([cancel_sync(m, c, kept, write) EXCEPT !.last_requested = 0], None)
    ELSE m

send_handshakes(m) ==
    [m EXCEPT !.conn = [p \in Peers |->
        IF current(m, p) THEN [m.conn[p] EXCEPT !.out = Append(@, Handshake(m.head, FALSE))]
        ELSE m.conn[p]]]

-----------------------------------------------------------------------------
\* What the node does with a message.

\* The loop over the connections ends after the first one.
verify_catchup(m, c, num) ==
    IF m.conn[Connections[1]].fork_head >= num
    THEN enqueue([m EXCEPT !.conn[c].fork_head = 0], c, Request("none"))
    ELSE LET m1 == [m EXCEPT !.conn[c].fork_head = num]
         IN  IF m.state = "lib_catchup" THEN m1
             ELSE enqueue([m1 EXCEPT !.state = "head_catchup"], c, Request("catch_up"))

recv_handshake(m, c, head) ==
    LET m1 == [reset_lib_num(m, c) EXCEPT !.conn[c].syncing = FALSE]
        Notify(note) == [enqueue(m1, c, note) EXCEPT !.conn[c].syncing = TRUE]
    IN  CASE m.head = head -> m1                                  \* 0
          [] m.head < lib(head) -> m1                             \* 1: a notice follows
          [] lib(m.head) > head -> Notify(LastIrrCatchUp(m.head)) \* 2
          [] m.head < head /\ m.head >= lib(head) -> verify_catchup(m1, c, head)  \* 3
          [] OTHER -> Notify(CatchUp(m.head))                     \* 4

\* The peer's irreversible block becomes the one of its last handshake.
recv_last_irr_notice(m, c, head) ==
    start_sync(reset_lib_num([m EXCEPT !.conn[c].lib = lib(head)], c), c, head)

\* In head_catchup, the connections are visited in order and it is the sender's fork
\* head that is cleared, whichever connection was caught up with.
FollowHead(m, c, num) ==
    LET fork_head(i) == m.conn[Connections[i]].fork_head
        reached == {i \in DOMAIN Connections : fork_head(i) \in 1..num}
        beyond == {i \in DOMAIN Connections : /\ fork_head(i) > num
                                              /\ Connections[i] = c => \A j \in reached : j > i}
    IN  [m EXCEPT !.state = IF beyond = {} THEN "in_sync" ELSE "head_catchup",
                  !.source = None,
                  !.conn[c].fork_head = IF reached = {} THEN @ ELSE 0]

\* Mutant of recv_block: blocks are taken in any order.
recv_any_block(m, c, num) ==
    LET m1 == [m EXCEPT !.next_expected = num + 1]
    IN  CASE m.state = "in_sync" -> m
          [] m.state = "head_catchup" -> FollowHead(m, c, num)
          [] m.state = "lib_catchup" ->
                CASE num = m.known_lib -> send_handshakes([m1 EXCEPT !.state = "in_sync"])
                  [] num # m.known_lib /\ num = m.last_requested -> request_next_chunk(m1, None)
                  [] OTHER -> sync_wait(m1, c)

recv_block(m, c, num) ==
    LET m1 == [m EXCEPT !.next_expected = num + 1]
    IN  CASE m.state = "in_sync" -> m
          [] m.state = "head_catchup" -> FollowHead(m, c, num)
          [] m.state = "lib_catchup" /\ num # m.next_expected -> close(m, c)
          [] m.state = "lib_catchup" /\ num = m.next_expected ->
                CASE num = m.known_lib -> send_handshakes([m1 EXCEPT !.state = "in_sync"])
                  [] num # m.known_lib /\ num = m.last_requested -> request_next_chunk(m1, None)
                  [] OTHER -> sync_wait(m1, c)

\* A block that does not link is refused by the producer plugin without an exception.
accept_block(m, num) == IF num = m.head + 1 THEN [m EXCEPT !.head = num] ELSE m

handle_message(m, c, msg) ==
    CASE msg.type = "handshake" ->
            recv_handshake([m EXCEPT !.conn[c].sock = "open", !.conn[c].lib = lib(msg.head)],
                           c, msg.head)
      [] msg.type = "catch_up" -> verify_catchup([m EXCEPT !.conn[c].sock = "open"], c, msg.head)
      [] msg.type = "last_irr" -> recv_last_irr_notice([m EXCEPT !.conn[c].sock = "open"], c, msg.head)
      [] msg.type = "request" -> [enqueue(m, c, Branch(m.head)) EXCEPT !.conn[c].syncing = FALSE]
      [] msg.type = "block" -> recv_block(accept_block(cancel_wait(m, c), msg.num), c, msg.num)

-----------------------------------------------------------------------------
\* The steps of the node.

Event == events < MaxEvents /\ events' = events + 1

\* A connection this node closed is closed for the peer too, with all that was on its
\* way.  A write in progress on it is aborted, or it failed and was the reason.
Hangup(left, reasons) ==
    LET gone == {p \in Peers : node'.conn[p].sock = "closed"}
        now == {p \in gone : node.conn[p].sock # "closed" /\ writes[p] = "alive"}
    IN  /\ \E f \in [now -> reasons] :
               writes' = [p \in Peers |-> IF p \in now THEN f[p] ELSE writes[p]]
        /\ peer' = [p \in Peers |->
               IF p \in gone
               THEN [peer[p] EXCEPT !.greeted = FALSE, !.syncing = FALSE, !.serve = <<>>]
               ELSE peer[p]]
        /\ from' = [p \in Peers |-> IF p \in gone THEN <<>> ELSE left[p]]

connect(p) ==
    /\ ~node.spins
    /\ node.conn[p].sock = "closed" /\ writes[p] # "aborted"
    /\ node' = enqueue([node EXCEPT !.conn[p].sock = "connecting"], p, Handshake(node.head, TRUE))
    /\ UNCHANGED <<peer, from, writes, events>>

Receive(p) ==
    /\ ~node.spins
    /\ from[p] # <<>>
    /\ node' = handle_message(node, p, Head(from[p]))
    /\ Hangup([from EXCEPT ![p] = Tail(@)], {"alive", "aborted"})
    /\ UNCHANGED events

Answering(p) == \/ from[p] # <<>> \/ peer[p].serve # <<>>
                \/ node.conn[p].out # <<>> /\ writes[p] # "stuck"

\* response_expected runs out: its handler is queued.
TimerExpires(p) ==
    /\ ~node.spins
    /\ node.conn[p].wait /\ ~node.conn[p].expired
    /\ IF Answering(p) THEN Event ELSE UNCHANGED events
    /\ node' = [node EXCEPT !.conn[p].wait = FALSE, !.conn[p].expired = TRUE]
    /\ UNCHANGED <<peer, from, writes>>

\* The first handshake is written as soon as it is queued; of later messages any number
\* may still be in write_queue.
IsFirstHandshake(msg) == msg.type = "handshake" /\ msg.first

BeingWritten(queue) ==
    (IF queue # <<>> /\ IsFirstHandshake(Head(queue)) THEN 1 ELSE 0)..Len(queue)

\* The handler runs, at once or after the answer, a new request or a close.
sync_timeout(p) ==
    /\ ~node.spins
    /\ node.conn[p].expired
    /\ \E kept \in BeingWritten(node.conn[p].out) :
          node' = reassign_fetch([node EXCEPT !.conn[p].expired = FALSE], p, kept, writes[p])
    /\ Hangup(from, {"alive", "aborted"})
    /\ UNCHANGED events

\* The socket fails.
Drop(p) ==
    /\ ~node.spins
    /\ Event
    /\ node.conn[p].sock # "closed"
    /\ node' = close(node, p)
    /\ Hangup(from, {"alive", "aborted", "stuck"})

\* The handler of an aborted write closes the connection once more.  It leaves the
\* write in out_queue, and do_queue_write writes nothing while something is there.
write_aborted(p) ==
    /\ ~node.spins
    /\ writes[p] = "aborted"
    /\ node' = close(node, p)
    /\ writes' = [writes EXCEPT ![p] = "stuck"]
    /\ UNCHANGED <<peer, from, events>>

-----------------------------------------------------------------------------
\* The steps of a peer.

Send(p, msgs) == from' = [from EXCEPT ![p] = @ \o msgs]

Blocks(first, last) == [i \in 1..(last - first + 1) |-> SignedBlock(first + i - 1)]

PeerRecvHandshake(p, msg) ==
    LET head == peer[p].head
        hello == IF msg.first /\ ~peer[p].greeted THEN <<Handshake(head, TRUE)>> ELSE <<>>
        Tell(syncing, msgs) == /\ peer' = [peer EXCEPT ![p].syncing = syncing, ![p].greeted = TRUE]
                               /\ Send(p, hello \o msgs)
    IN  CASE head = msg.head \/ head < lib(msg.head) -> Tell(FALSE, <<>>)
          [] lib(head) > msg.head -> Tell(TRUE, <<LastIrrCatchUp(head)>>)
          [] head < msg.head /\ head >= lib(msg.head) -> Tell(FALSE, <<Request("catch_up")>>)
          [] OTHER -> Tell(TRUE, <<CatchUp(head)>>)

\* The next block of what p serves after number last, up to end.  A block that is not
\* there is skipped without a word; the request goes on with the next write.
enqueue_sync_block(p, last, end) ==
    /\ peer' = [peer EXCEPT ![p].serve = IF last + 1 = end THEN <<>> ELSE <<last + 1, end>>]
    /\ Send(p, IF last + 1 <= peer[p].head THEN <<SignedBlock(last + 1)>> ELSE <<>>)

\* A cancelled request also takes back what is queued behind the write in progress.
PeerRecvSyncRequest(p, msg) ==
    \/ /\ msg.end = 0
       /\ peer' = [peer EXCEPT ![p].serve = <<>>]
       /\ \E kept \in BeingWritten(from[p]) :
             from' = [from EXCEPT ![p] = SubSeq(@, 1, kept)]
    \/ msg.end # 0 /\ enqueue_sync_block(p, msg.start - 1, msg.end)

\* The peer has followed this node.
PeerFollows(p, head, msgs) ==
    /\ peer' = [peer EXCEPT ![p].head = IF head > @ THEN head ELSE @]
    /\ Send(p, msgs)

\* After a synchronization it greets the connections that are current.
PeerSynced(p, head) ==
    PeerFollows(p, head, IF peer[p].syncing THEN <<>> ELSE <<Handshake(head, FALSE)>>)

PeerReceive(p) ==
    /\ node.conn[p].out # <<>> /\ writes[p] # "stuck"
    /\ node' = [node EXCEPT !.conn[p].out = Tail(@)]
    /\ LET msg == Head(node.conn[p].out)
       IN  \/ msg.type = "handshake" /\ PeerRecvHandshake(p, msg)
           \/ msg.type = "sync" /\ PeerRecvSyncRequest(p, msg)
           \/ /\ msg.type = "request" /\ msg.mode = "catch_up"
              /\ peer' = [peer EXCEPT ![p].syncing = FALSE]
              /\ Send(p, Blocks(lib(peer[p].head) + 1, peer[p].head))
           \/ /\ msg.type = "request" /\ msg.mode = "none"
              /\ peer' = [peer EXCEPT ![p].syncing = FALSE]
              /\ UNCHANGED from
           \/ msg.type = "catch_up" /\ PeerFollows(p, 0, <<Request("catch_up")>>)
           \/ msg.type = "branch" /\ PeerFollows(p, msg.head, <<>>)
           \/ msg.type = "last_irr" /\ PeerSynced(p, msg.head)
    /\ UNCHANGED <<writes, events>>

\* A write to this node is complete: one of the answer itself, or of the keepalive that
\* ticker sends on every open connection.
PeerWrote(p) ==
    /\ peer[p].serve # <<>>
    /\ enqueue_sync_block(p, peer[p].serve[1], peer[p].serve[2])
    /\ UNCHANGED <<node, writes, events>>

\* The peer gets the next block from elsewhere, broadcasts it, and after a
\* synchronization of its own greets its peers again: all if the connection is current,
\* that is, if the peer has read this node's handshake and is not ahead of it.
PeerAdvances(p) ==
    /\ Event
    /\ LET head == peer[p].head + 1
       IN  /\ peer' = [peer EXCEPT ![p].head = head]
           /\ \/ /\ peer[p].greeted /\ ~peer[p].syncing
                 /\ \E greeting \in {<<>>, <<Handshake(head, FALSE)>>} :
                       Send(p, <<SignedBlock(head)>> \o greeting)
              \/ /\ ~peer[p].greeted \/ peer[p].syncing
                 /\ UNCHANGED from
    /\ UNCHANGED <<node, writes>>

Next ==
    \E p \in Peers : \/ connect(p) \/ Receive(p) \/ Drop(p) \/ write_aborted(p)
                     \/ TimerExpires(p) \/ sync_timeout(p)
                     \/ PeerReceive(p) \/ PeerWrote(p) \/ PeerAdvances(p)

Spec == Init /\ [][Next]_vars

(***************************************************************************)
(* Fairness: connection_monitor tries every closed connection again, a     *)
(* socket that is not lost delivers, a peer answers what it has read, a    *)
(* timer that waits for nothing runs out, and a queued handler runs.       *)
(* Nothing obliges a peer to get new blocks, a connection to fail or a     *)
(* timer to be early.                                                      *)
(***************************************************************************)
FairSpec ==
    /\ Spec
    /\ \A p \in Peers : /\ WF_vars(connect(p)) /\ WF_vars(Receive(p))
                        /\ WF_vars(PeerReceive(p)) /\ WF_vars(PeerWrote(p))
                        /\ WF_vars(~Answering(p) /\ TimerExpires(p))
                        /\ WF_vars(sync_timeout(p)) /\ WF_vars(write_aborted(p))

-----------------------------------------------------------------------------
(***************************************************************************)
(* recv_block: while the node catches up, the block it asks for next links *)
(* to its head or is one it has, whatever was requested twice, cancelled   *)
(* or delivered late: blocks that do not link are dropped without a word,  *)
(* and a hole would never be filled.                                       *)
(***************************************************************************)
NoHole == node.state = "lib_catchup" => node.next_expected <= node.head + 1

\* A request of which blocks are missing, and its source's timer.
Unfilled(m) == m.state = "lib_catchup" /\ m.last_requested >= m.next_expected
Timed(m) == m.source # None /\ (m.conn[m.source].wait \/ m.conn[m.source].expired)

(***************************************************************************)
(* request_sync_blocks, recv_block, sync_timeout: no step, be it a late    *)
(* timeout, a lost connection, an answer or a block of another peer,       *)
(* leaves a request that is not filled without the timer of its source, so *)
(* that a silent peer is found out (a timer of another connection would do *)
(* nothing).  There is one way to lose it: request_next_chunk takes        *)
(* another source and asks it for nothing, because all that is known was   *)
(* requested once, and nothing else will.                                  *)
(***************************************************************************)
Watched ==
    [][Unfilled(node') /\ ~Timed(node') /\ ~node'.spins =>
          /\ node'.last_requested = node.last_requested
          /\ \/ Unfilled(node) /\ ~Timed(node)
             \/ /\ node'.source # node.source
                /\ node'.last_requested = node'.known_lib]_vars

\* A far peer's notice is about to be read while the node follows a near head.
SyncWhileFollowing ==
    /\ node.state = "head_catchup"
    /\ \E p \in Peers : from[p] # <<>> /\ Head(from[p]).type = "last_irr"

\* A peer's irreversible block has passed this node's head when the peer reads the
\* request for its latest blocks.
Overtaken ==
    \E p \in Peers : /\ node.conn[p].out # <<>> /\ Head(node.conn[p].out) = Request("catch_up")
                     /\ node.head < lib(peer[p].head)

\* What can leave the node behind for good.
Wedged == SyncWhileFollowing \/ Overtaken \/ node.spins \/ \E p \in Peers : writes[p] # "alive"

(***************************************************************************)
(* sync_timeout, reassign_fetch, connection_monitor, recv_handshake: the   *)
(* node gets all irreversible blocks of its peers in the end, unless one   *)
(* of four things happens on the way, each of which can leave it behind    *)
(* for good: a far peer's notice while it follows a near head, a request   *)
(* for the latest blocks that a peer reads when they do not link any more, *)
(* a search for a source that does not end, or an aborted write.  Other    *)
(* lost connections, early and late timeouts, cancelled answers and new    *)
(* blocks do not keep it behind.                                           *)
(***************************************************************************)
CatchesUp == []~Wedged => <>[](\A p \in Peers : node.head >= lib(peer[p].head))

-----------------------------------------------------------------------------
(***************************************************************************)
(* Statements of the sources that the code does not keep.                  *)
(***************************************************************************)

\* net_plugin.cpp, request_next_chunk: "either source advanced or the whole list was
\* checked and the old source is reused": the search for a source ends.
SearchEnds == ~node.spins

\* protocol.hpp: "if my head block < the LIB of a peer [...] then enter sync mode".
Behind == \E p \in Peers : connected(node, p) /\ node.head < lib(peer[p].head)

EntersSyncMode == Behind ~> node.state = "lib_catchup" \/ ~Behind
=============================================================================
