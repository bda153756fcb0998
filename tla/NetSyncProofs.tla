---------------------------- MODULE NetSyncProofs ----------------------------
(***************************************************************************)
(* Proofs about NetSync, for any connections, chunk size, distance of head *)
(* and irreversible block, and any number of events.                       *)
(*                                                                         *)
(* The handlers are functions of the node's state, so the proofs are about *)
(* those functions: one lemma for each says that it keeps NodeInv and what *)
(* it does to a request that waits for blocks (Keeps).  The one way to     *)
(* lose the timer is the case Moved of request_next_chunk: another source  *)
(* is taken, because the old one is not current, and not asked, because    *)
(* all that is known was requested before.  That it is another one than    *)
(* before the whole handler needs Settled.                                 *)
(***************************************************************************)
EXTENDS NetSync, WellFoundedInduction, TLAPS

\* Messages to the node and to the peers.
ToNode ==
    [type : {"handshake"}, head : Int, first : BOOLEAN]
        \cup [type : {"catch_up", "last_irr"}, head : Int]
        \cup [type : {"request"}, mode : {"none", "catch_up"}]
        \cup [type : {"block"}, num : Int]

ToPeer ==
    [type : {"handshake"}, head : Int, first : BOOLEAN]
        \cup [type : {"catch_up", "last_irr", "branch"}, head : Int]
        \cup [type : {"request"}, mode : {"none", "catch_up"}]
        \cup [type : {"sync"}, start : Int, end : Int]

Conn == [sock : {"closed", "connecting", "open"}, syncing : BOOLEAN, lib : Int,
         fork_head : Int, wait : BOOLEAN, expired : BOOLEAN, out : Seq(ToPeer)]

Node == [head : Int, known_lib : Int, last_requested : Int, next_expected : Int,
         source : Peers \cup {None}, state : {"in_sync", "lib_catchup", "head_catchup"},
         spins : BOOLEAN, conn : [Peers -> Conn]]

Peer == [head : Int, greeted : BOOLEAN, syncing : BOOLEAN, serve : {<<>>} \cup (Int \X Int)]

Writes == {"alive", "aborted", "stuck"}

\* A node in sync has all that it knows to exist.
Settled(m) == m.state = "in_sync" => m.known_lib <= m.head

(***************************************************************************)
(* The node: what was requested is not above what is known to exist, the   *)
(* block it expects next links, and while it is in sync it keeps a source  *)
(* only if nothing is missing: a notice that finds it in sync with its     *)
(* source therefore loses no timer.                                        *)
(***************************************************************************)
NodeInv(m) ==
    /\ m \in Node
    /\ m.head > Lag
    /\ 0 <= m.last_requested /\ m.last_requested <= m.known_lib
    /\ 1 <= m.next_expected
    /\ m.state = "lib_catchup" => m.next_expected <= m.head + 1
    /\ m.source # None => Settled(m)

SyncInv ==
    /\ NodeInv(node)
    /\ peer \in [Peers -> Peer]
    /\ from \in [Peers -> Seq(ToNode)]
    /\ writes \in [Peers -> Writes]

-----------------------------------------------------------------------------
\* What the handlers do to a request that waits for blocks.

\* Blocks are missing, and the timer of the source does not run.
Unwatched(m) == Unfilled(m) /\ ~Timed(m) /\ ~m.spins

\* A step from m to n leaves no request unwatched that was watched.
Keeps(m, n) ==
    Unwatched(n) => Unwatched(m) /\ n.last_requested = m.last_requested

\* A step that does not touch the request.
Quiet(m, n) ==
    /\ n.head = m.head /\ n.known_lib = m.known_lib /\ n.last_requested = m.last_requested
    /\ n.next_expected = m.next_expected /\ n.source = m.source /\ n.spins = m.spins
    /\ n.state = "lib_catchup" => m.state = "lib_catchup"
    /\ \A p \in Peers : /\ n.conn[p].wait = m.conn[p].wait
                        /\ n.conn[p].expired = m.conn[p].expired

SourceCurrent(m) == m.source # None /\ current(m, m.source)

\* The three outcomes of a request.
GaveUp(n) == n.state = "in_sync" /\ n.last_requested = 0 /\ ~SourceCurrent(n)

Asked(n) == SourceCurrent(n) /\ n.conn[n.source].wait

Moved(m, n) ==
    /\ n.head = m.head /\ n.known_lib = m.known_lib /\ n.last_requested = m.last_requested
    /\ n.next_expected = m.next_expected /\ n.spins = m.spins /\ n.state = m.state
    /\ n.conn = m.conn /\ SourceCurrent(n)
    /\ m.last_requested = m.known_lib \/ m.known_lib < m.next_expected

-----------------------------------------------------------------------------
LEMMA Fields ==
    ASSUME NEW m \in Node
    PROVE  /\ m.head \in Int /\ m.known_lib \in Int /\ m.last_requested \in Int
           /\ m.next_expected \in Int /\ m.source \in Peers \cup {None}
           /\ m.state \in {"in_sync", "lib_catchup", "head_catchup"}
           /\ m.spins \in BOOLEAN /\ m.conn \in [Peers -> Conn]
           /\ \A p \in Peers : m.conn[p] \in Conn
BY DEF Node

LEMMA MessagesToPeer ==
    /\ \A h \in Int, b \in BOOLEAN : Handshake(h, b) \in ToPeer
    /\ \A h \in Int : CatchUp(h) \in ToPeer /\ LastIrrCatchUp(h) \in ToPeer /\ Branch(h) \in ToPeer
    /\ \A k \in {"none", "catch_up"} : Request(k) \in ToPeer
    /\ \A i, j \in Int : SyncRequest(i, j) \in ToPeer
BY DEF ToPeer, Handshake, CatchUp, LastIrrCatchUp, Branch, Request, SyncRequest

LEMMA MessagesToNode ==
    /\ \A h \in Int, b \in BOOLEAN : Handshake(h, b) \in ToNode
    /\ \A h \in Int : CatchUp(h) \in ToNode /\ LastIrrCatchUp(h) \in ToNode
    /\ \A k \in {"none", "catch_up"} : Request(k) \in ToNode
    /\ \A i \in Int : SignedBlock(i) \in ToNode
BY DEF ToNode, Handshake, CatchUp, LastIrrCatchUp, Request, SignedBlock

LEMMA ReadByNode ==
    ASSUME NEW msg \in ToNode
    PROVE  \/ msg.type \in {"handshake", "catch_up", "last_irr"} /\ msg.head \in Int
           \/ msg.type = "request"
           \/ msg.type = "block" /\ msg.num \in Int
BY DEF ToNode

LEMMA ReadByPeer ==
    ASSUME NEW msg \in ToPeer
    PROVE  \/ msg.type = "handshake" /\ msg.head \in Int /\ msg.first \in BOOLEAN
           \/ msg.type \in {"catch_up", "last_irr", "branch"} /\ msg.head \in Int
           \/ msg.type = "request"
           \/ msg.type = "sync" /\ msg.start \in Int /\ msg.end \in Int
BY DEF ToPeer

\* A connection record of a node is replaced, all else stays.
LEMMA ConnChanged ==
    ASSUME NEW m \in Node, NEW p \in Peers, NEW c \in Conn
    PROVE  LET n == [m EXCEPT !.conn[p] = c]
           IN  /\ n \in Node /\ n.conn[p] = c
               /\ \A q \in Peers : q # p => n.conn[q] = m.conn[q]
               /\ n.head = m.head /\ n.known_lib = m.known_lib
               /\ n.last_requested = m.last_requested /\ n.next_expected = m.next_expected
               /\ n.source = m.source /\ n.state = m.state /\ n.spins = m.spins
BY DEF Node

\* The nested forms of the handlers are such replacements.
LEMMA ConnForms ==
    ASSUME NEW m \in Node, NEW p \in Peers
    PROVE  /\ \A x : [m EXCEPT !.conn[p].out = x] = [m EXCEPT !.conn[p] = [m.conn[p] EXCEPT !.out = x]]
           /\ \A x : [m EXCEPT !.conn[p].wait = x] = [m EXCEPT !.conn[p] = [m.conn[p] EXCEPT !.wait = x]]
           /\ \A x : [m EXCEPT !.conn[p].expired = x] = [m EXCEPT !.conn[p] = [m.conn[p] EXCEPT !.expired = x]]
           /\ \A x : [m EXCEPT !.conn[p].sock = x] = [m EXCEPT !.conn[p] = [m.conn[p] EXCEPT !.sock = x]]
           /\ \A x : [m EXCEPT !.conn[p].lib = x] = [m EXCEPT !.conn[p] = [m.conn[p] EXCEPT !.lib = x]]
           /\ \A x : [m EXCEPT !.conn[p].syncing = x] = [m EXCEPT !.conn[p] = [m.conn[p] EXCEPT !.syncing = x]]
           /\ \A x : [m EXCEPT !.conn[p].fork_head = x] = [m EXCEPT !.conn[p] = [m.conn[p] EXCEPT !.fork_head = x]]
BY DEF Node, Conn

-----------------------------------------------------------------------------
\* Small changes of one connection.

LEMMA QuietKeeps ==
    ASSUME NEW m \in Node, NEW n \in Node, Quiet(m, n)
    PROVE  Keeps(m, n)
BY Fields DEF Quiet, Keeps, Unwatched, Unfilled, Timed

LEMMA KeepsTransitive ==
    ASSUME NEW m, NEW n, NEW k, Keeps(m, n), Keeps(n, k)
    PROVE  Keeps(m, k)
BY DEF Keeps

LEMMA EnqueueQuiet ==
    ASSUME NEW m, NodeInv(m), NEW p \in Peers, NEW msg \in ToPeer
    PROVE  LET n == enqueue(m, p, msg)
           IN  /\ NodeInv(n) /\ Quiet(m, n) /\ n.state = m.state
               /\ \A q \in Peers : current(n, q) <=> current(m, q)
<1> DEFINE c == [m.conn[p] EXCEPT !.out = Append(@, msg)]
           n == [m EXCEPT !.conn[p] = c]
<1>1. m \in Node /\ m.conn[p] \in Conn
  BY Fields DEF NodeInv
<1>2. /\ c \in Conn /\ c.wait = m.conn[p].wait /\ c.sock = m.conn[p].sock
      /\ c.syncing = m.conn[p].syncing /\ c.expired = m.conn[p].expired
  <2>1. m.conn[p].out \in Seq(ToPeer)
    BY <1>1 DEF Conn
  <2>2. Append(m.conn[p].out, msg) \in Seq(ToPeer)
    BY <2>1
  <2> QED BY <1>1, <2>2 DEF Conn
<1>3. enqueue(m, p, msg) = n
  BY <1>1 DEF enqueue, Node, Conn
<1> HIDE DEF c
<1>4. /\ n \in Node /\ n.conn[p] = c
      /\ \A q \in Peers : q # p => n.conn[q] = m.conn[q]
      /\ n.head = m.head /\ n.known_lib = m.known_lib
      /\ n.last_requested = m.last_requested /\ n.next_expected = m.next_expected
      /\ n.source = m.source /\ n.state = m.state /\ n.spins = m.spins
  BY <1>1, <1>2, ConnChanged
<1> HIDE DEF n
<1> QED BY <1>2, <1>3, <1>4 DEF NodeInv, Settled, Quiet, current, connected

LEMMA SyncWaits ==
    ASSUME NEW m, NodeInv(m), NEW p \in Peers
    PROVE  LET n == sync_wait(m, p)
           IN  /\ NodeInv(n) /\ n.conn[p].wait
               /\ \A q \in Peers : q # p => n.conn[q].wait = m.conn[q].wait
               /\ \A q \in Peers : n.conn[q].expired = m.conn[q].expired
               /\ \A q \in Peers : current(n, q) <=> current(m, q)
               /\ n.head = m.head /\ n.known_lib = m.known_lib
               /\ n.last_requested = m.last_requested /\ n.next_expected = m.next_expected
               /\ n.source = m.source /\ n.state = m.state /\ n.spins = m.spins
<1> DEFINE c == [m.conn[p] EXCEPT !.wait = TRUE]
           n == [m EXCEPT !.conn[p] = c]
<1>1. m \in Node /\ m.conn[p] \in Conn
  BY Fields DEF NodeInv
<1>2. /\ c \in Conn /\ c.wait = TRUE /\ c.sock = m.conn[p].sock
      /\ c.syncing = m.conn[p].syncing /\ c.expired = m.conn[p].expired
      /\ c.out = m.conn[p].out
  BY <1>1 DEF Conn
<1>3. sync_wait(m, p) = n
  BY <1>1 DEF sync_wait, Node, Conn
<1> HIDE DEF c
<1>4. /\ n \in Node /\ n.conn[p] = c
      /\ \A q \in Peers : q # p => n.conn[q] = m.conn[q]
      /\ n.head = m.head /\ n.known_lib = m.known_lib
      /\ n.last_requested = m.last_requested /\ n.next_expected = m.next_expected
      /\ n.source = m.source /\ n.state = m.state /\ n.spins = m.spins
  BY <1>1, <1>2, ConnChanged
<1> HIDE DEF n
<1> QED BY <1>2, <1>3, <1>4 DEF NodeInv, Settled, current, connected

LEMMA CancelsWait ==
    ASSUME NEW m, NodeInv(m), NEW p \in Peers
    PROVE  LET n == cancel_wait(m, p)
           IN  /\ NodeInv(n) /\ \A q \in Peers : q # p => n.conn[q] = m.conn[q]
               /\ n.conn[p].sock = m.conn[p].sock /\ n.conn[p].out = m.conn[p].out
               /\ n.conn[p].expired = m.conn[p].expired
               /\ \A q \in Peers : current(n, q) <=> current(m, q)
               /\ n.head = m.head /\ n.known_lib = m.known_lib
               /\ n.last_requested = m.last_requested /\ n.next_expected = m.next_expected
               /\ n.source = m.source /\ n.state = m.state /\ n.spins = m.spins
<1> DEFINE c == [m.conn[p] EXCEPT !.wait = FALSE]
           n == [m EXCEPT !.conn[p] = c]
<1>1. m \in Node /\ m.conn[p] \in Conn
  BY Fields DEF NodeInv
<1>2. /\ c \in Conn /\ c.wait = FALSE /\ c.sock = m.conn[p].sock
      /\ c.syncing = m.conn[p].syncing /\ c.expired = m.conn[p].expired
      /\ c.out = m.conn[p].out
  BY <1>1 DEF Conn
<1>3. cancel_wait(m, p) = n
  BY <1>1 DEF cancel_wait, Node, Conn
<1> HIDE DEF c
<1>4. /\ n \in Node /\ n.conn[p] = c
      /\ \A q \in Peers : q # p => n.conn[q] = m.conn[q]
      /\ n.head = m.head /\ n.known_lib = m.known_lib
      /\ n.last_requested = m.last_requested /\ n.next_expected = m.next_expected
      /\ n.source = m.source /\ n.state = m.state /\ n.spins = m.spins
  BY <1>1, <1>2, ConnChanged
<1> HIDE DEF n
<1> QED BY <1>2, <1>3, <1>4 DEF NodeInv, Settled, current, connected

\* The fields that neither timers nor queues depend on.
LEMMA ConnQuiet ==
    ASSUME NEW m, NodeInv(m), NEW p \in Peers, NEW c \in Conn, c.wait = m.conn[p].wait,
           c.expired = m.conn[p].expired
    PROVE  LET n == [m EXCEPT !.conn[p] = c]
           IN  /\ NodeInv(n) /\ Quiet(m, n) /\ n.state = m.state /\ n.conn[p] = c
               /\ \A q \in Peers : q # p => n.conn[q] = m.conn[q]
<1> DEFINE n == [m EXCEPT !.conn[p] = c]
<1>1. m \in Node
  BY DEF NodeInv
<1>2. /\ n \in Node /\ n.conn[p] = c
      /\ \A q \in Peers : q # p => n.conn[q] = m.conn[q]
      /\ n.head = m.head /\ n.known_lib = m.known_lib
      /\ n.last_requested = m.last_requested /\ n.next_expected = m.next_expected
      /\ n.source = m.source /\ n.state = m.state /\ n.spins = m.spins
  BY <1>1, ConnChanged
<1> HIDE DEF n
<1>3. NodeInv(n) /\ Quiet(m, n)
  BY <1>2 DEF NodeInv, Settled, Quiet
<1> QED BY <1>2, <1>3 DEF n

LEMMA OutSet ==
    ASSUME NEW m, NodeInv(m), NEW p \in Peers, NEW x \in Seq(ToPeer)
    PROVE  LET n == [m EXCEPT !.conn[p].out = x]
           IN  NodeInv(n) /\ Quiet(m, n) /\ n.state = m.state
<1> DEFINE c == [m.conn[p] EXCEPT !.out = x]
<1>1. m \in Node /\ m.conn[p] \in Conn
  BY Fields DEF NodeInv
<1>2. c \in Conn /\ c.wait = m.conn[p].wait /\ c.expired = m.conn[p].expired
  BY <1>1 DEF Conn
<1>3. [m EXCEPT !.conn[p].out = x] = [m EXCEPT !.conn[p] = c]
  BY <1>1, ConnForms
<1> HIDE DEF c
<1> QED BY <1>2, <1>3, ConnQuiet

LEMMA SockSet ==
    ASSUME NEW m, NodeInv(m), NEW p \in Peers, NEW x \in {"closed", "connecting", "open"}
    PROVE  LET n == [m EXCEPT !.conn[p].sock = x]
           IN  NodeInv(n) /\ Quiet(m, n) /\ n.state = m.state
<1> DEFINE c == [m.conn[p] EXCEPT !.sock = x]
<1>1. m \in Node /\ m.conn[p] \in Conn
  BY Fields DEF NodeInv
<1>2. c \in Conn /\ c.wait = m.conn[p].wait /\ c.expired = m.conn[p].expired
  BY <1>1 DEF Conn
<1>3. [m EXCEPT !.conn[p].sock = x] = [m EXCEPT !.conn[p] = c]
  BY <1>1, ConnForms
<1> HIDE DEF c
<1> QED BY <1>2, <1>3, ConnQuiet

LEMMA LibSet ==
    ASSUME NEW m, NodeInv(m), NEW p \in Peers, NEW x \in Int
    PROVE  LET n == [m EXCEPT !.conn[p].lib = x]
           IN  NodeInv(n) /\ Quiet(m, n) /\ n.state = m.state
<1> DEFINE c == [m.conn[p] EXCEPT !.lib = x]
<1>1. m \in Node /\ m.conn[p] \in Conn
  BY Fields DEF NodeInv
<1>2. c \in Conn /\ c.wait = m.conn[p].wait /\ c.expired = m.conn[p].expired
  BY <1>1 DEF Conn
<1>3. [m EXCEPT !.conn[p].lib = x] = [m EXCEPT !.conn[p] = c]
  BY <1>1, ConnForms
<1> HIDE DEF c
<1> QED BY <1>2, <1>3, ConnQuiet

LEMMA SyncingSet ==
    ASSUME NEW m, NodeInv(m), NEW p \in Peers, NEW x \in BOOLEAN
    PROVE  LET n == [m EXCEPT !.conn[p].syncing = x]
           IN  NodeInv(n) /\ Quiet(m, n) /\ n.state = m.state
<1> DEFINE c == [m.conn[p] EXCEPT !.syncing = x]
<1>1. m \in Node /\ m.conn[p] \in Conn
  BY Fields DEF NodeInv
<1>2. c \in Conn /\ c.wait = m.conn[p].wait /\ c.expired = m.conn[p].expired
  BY <1>1 DEF Conn
<1>3. [m EXCEPT !.conn[p].syncing = x] = [m EXCEPT !.conn[p] = c]
  BY <1>1, ConnForms
<1> HIDE DEF c
<1> QED BY <1>2, <1>3, ConnQuiet

LEMMA ForkHeadSet ==
    ASSUME NEW m, NodeInv(m), NEW p \in Peers, NEW x \in Int
    PROVE  LET n == [m EXCEPT !.conn[p].fork_head = x]
           IN  NodeInv(n) /\ Quiet(m, n) /\ n.state = m.state
<1> DEFINE c == [m.conn[p] EXCEPT !.fork_head = x]
<1>1. m \in Node /\ m.conn[p] \in Conn
  BY Fields DEF NodeInv
<1>2. c \in Conn /\ c.wait = m.conn[p].wait /\ c.expired = m.conn[p].expired
  BY <1>1 DEF Conn
<1>3. [m EXCEPT !.conn[p].fork_head = x] = [m EXCEPT !.conn[p] = c]
  BY <1>1, ConnForms
<1> HIDE DEF c
<1> QED BY <1>2, <1>3, ConnQuiet

-----------------------------------------------------------------------------
\* The search for a source.

LEMMA MinIn ==
    ASSUME NEW S \in SUBSET Nat, S # {}
    PROVE  Min(S) \in S
<1> DEFINE R == OpToRel(<, Nat)
<1>1. IsWellFoundedOn(R, Nat)
  BY NatLessThanWellFounded, Zenon
<1>2. \A k, m \in Nat : <<k, m>> \notin R => m <= k
  BY DEF OpToRel
<1>3. PICK x : x \in S
  OBVIOUS
<1> HIDE DEF R
<1>4. PICK d \in S : \A k \in S : <<k, d>> \notin R
  BY <1>1, <1>3, WFMin, Zenon
<1>5. \A k \in S : d <= k
  BY <1>2, <1>4
<1> QED BY <1>4, <1>5 DEF Min

LEMMA ConnectionsArePeers ==
    /\ Connections \in Seq(Peers) /\ Len(Connections) \in Nat \ {0}
    /\ \A i \in 1..Len(Connections) : Connections[i] \in Peers
    /\ None \notin Peers
<1>1. Connections \in Seq(Peers) /\ Connections # <<>> /\ None \notin Peers
  BY SyncAssumption
<1> HIDE DEF Peers
<1> QED BY <1>1

LEMMA RingType ==
    ASSUME NEW m \in Node
    PROVE  Ring(m) \in Seq(Peers)
<1>1. CASE m.source = None
  BY <1>1, ConnectionsArePeers DEF Ring
<1>2. CASE m.source # None
  <2> DEFINE i == CHOOSE k \in DOMAIN Connections : Connections[k] = m.source
  <2>1. m.source \in Peers
    BY <1>2, Fields
  <2>2. \E k \in DOMAIN Connections : Connections[k] = m.source
    BY <2>1 DEF Peers, Range
  <2>3. i \in DOMAIN Connections
    BY <2>2
  <2>4. i \in 1..Len(Connections)
    BY <2>3, ConnectionsArePeers
  <2> HIDE DEF i
  <2>5. SubSeq(Connections, i + 1, Len(Connections)) \in Seq(Peers)
    BY <2>4, ConnectionsArePeers
  <2>6. SubSeq(Connections, 1, i - 1) \in Seq(Peers)
    BY <2>4, ConnectionsArePeers
  <2>7. Ring(m) = SubSeq(Connections, i + 1, Len(Connections)) \o SubSeq(Connections, 1, i - 1)
    BY <1>2 DEF Ring, i
  <2> QED BY <2>5, <2>6, <2>7
<1> QED BY <1>1, <1>2

LEMMA NextSourceType ==
    ASSUME NEW m \in Node
    PROVE  NextSource(m) \in Peers \cup {None}
<1>1. CASE Len(Connections) = 1
  BY <1>1, ConnectionsArePeers DEF NextSource
<1>2. CASE Len(Connections) > 1 /\ Available(m) # {}
  <2>1. Ring(m) \in Seq(Peers)
    BY RingType
  <2>2. Available(m) \subseteq DOMAIN Ring(m) /\ DOMAIN Ring(m) \subseteq Nat
    BY <2>1 DEF Available
  <2>3. Min(Available(m)) \in DOMAIN Ring(m)
    BY <1>2, <2>2, MinIn
  <2>4. Ring(m)[Min(Available(m))] \in Peers
    BY <2>1, <2>3
  <2>5. NextSource(m) = Ring(m)[Min(Available(m))]
    BY <1>2 DEF NextSource
  <2> QED BY <2>4, <2>5
<1>3. CASE Len(Connections) # 1 /\ ~(Len(Connections) > 1 /\ Available(m) # {})
  BY <1>3, Fields DEF NextSource
<1> QED BY <1>1, <1>2, <1>3

-----------------------------------------------------------------------------
\* Requests.

LEMMA SourceSet ==
    ASSUME NEW m, NodeInv(m), NEW s \in Peers \cup {None}, s # None => Settled(m)
    PROVE  LET n == [m EXCEPT !.source = s]
           IN  /\ NodeInv(n) /\ n.source = s /\ n.conn = m.conn
               /\ n.head = m.head /\ n.known_lib = m.known_lib
               /\ n.last_requested = m.last_requested /\ n.next_expected = m.next_expected
               /\ n.state = m.state /\ n.spins = m.spins
BY DEF NodeInv, Node, Settled

LEMMA RequestRangeOutcome ==
    ASSUME NEW m, NodeInv(m)
    PROVE  LET n == RequestRange(m)
           IN  /\ NodeInv(n) /\ n.head = m.head /\ n.spins = m.spins
               /\ n.source = m.source /\ (Settled(m) => Settled(n))
               /\ GaveUp(n) \/ (Asked(n) /\ n.state = m.state) \/ Moved(m, n)
<1> USE DEF SourceCurrent
<1> DEFINE start == m.next_expected
           end == IF start + sync_req_span - 1 > m.known_lib THEN m.known_lib
                  ELSE start + sync_req_span - 1
<1>1. m \in Node
  BY DEF NodeInv
<1>2. CASE ~SourceCurrent(m)
  <2> DEFINE n == [m EXCEPT !.known_lib = lib(m.head), !.last_requested = 0, !.state = "in_sync"]
  <2>1. RequestRange(m) = n
    BY <1>2 DEF RequestRange
  <2>2. NodeInv(n) /\ Settled(n) /\ n.head = m.head /\ n.spins = m.spins /\ n.source = m.source
        /\ n.conn = m.conn /\ n.state = "in_sync" /\ n.last_requested = 0
    <3>1. Lag \in Nat /\ m.head \in Int /\ m.head > Lag
      BY <1>1, Fields, SyncAssumption DEF NodeInv
    <3>2. lib(m.head) \in Int /\ 0 <= lib(m.head) /\ lib(m.head) <= m.head
      BY <3>1 DEF lib
    <3> DEFINE i == lib(m.head)
               z == 0
               x == "in_sync"
               r == [m EXCEPT !.known_lib = i, !.last_requested = z, !.state = x]
    <3>3. i \in Int /\ 0 <= i /\ i <= m.head /\ z \in Int /\ z = 0 /\ x = "in_sync" /\ r = n
      BY <3>2
    <3>4. x \in {"in_sync", "lib_catchup", "head_catchup"}
      OBVIOUS
    <3> HIDE DEF i, z, x
    <3>5. /\ r \in Node /\ r.known_lib = i /\ r.last_requested = z /\ r.state = x
          /\ r.head = m.head /\ r.spins = m.spins /\ r.source = m.source
          /\ r.conn = m.conn /\ r.next_expected = m.next_expected
      BY <1>1, <3>3, <3>4 DEF Node
    <3> HIDE DEF r
    <3> HIDE DEF n
    <3> QED BY <3>3, <3>5 DEF NodeInv, Settled
  <2> HIDE DEF n
  <2>3. GaveUp(n)
    BY <1>2, <2>2 DEF GaveUp, current, connected
  <2> QED BY <2>1, <2>2, <2>3
<1>3. CASE SourceCurrent(m) /\ m.last_requested # m.known_lib /\ end > 0 /\ end >= start
  <2> DEFINE k == [m EXCEPT !.last_requested = end]
             r == enqueue(k, m.source, SyncRequest(start, end))
             n == sync_wait(r, m.source)
  <2>1. m.source \in Peers /\ start \in Int /\ end \in Int /\ end <= m.known_lib
    BY <1>1, <1>3, Fields, SyncAssumption
  <2>2. RequestRange(m) = n
    BY <1>3 DEF RequestRange
  <2> HIDE DEF start, end
  <2>3. /\ NodeInv(k) /\ k.head = m.head /\ k.spins = m.spins /\ k.source = m.source
        /\ k.state = m.state /\ k.conn = m.conn /\ k.known_lib = m.known_lib
    BY <1>3, <2>1 DEF NodeInv, Node, Settled
  <2> HIDE DEF k
  <2>4. SyncRequest(start, end) \in ToPeer
    BY <2>1, MessagesToPeer
  <2>5. /\ NodeInv(r) /\ Quiet(k, r) /\ r.state = k.state
        /\ \A q \in Peers : current(r, q) <=> current(k, q)
    BY <2>1, <2>3, <2>4, EnqueueQuiet
  <2> HIDE DEF r
  <2>6. /\ NodeInv(n) /\ n.conn[m.source].wait
        /\ \A q \in Peers : current(n, q) <=> current(r, q)
        /\ n.head = r.head /\ n.source = r.source /\ n.state = r.state /\ n.spins = r.spins
        /\ n.known_lib = r.known_lib
    BY <2>1, <2>5, SyncWaits
  <2> HIDE DEF n
  <2>7. current(n, m.source)
    BY <1>3, <2>1, <2>3, <2>5, <2>6 DEF current, connected
  <2>8. /\ Asked(n) /\ n.head = m.head /\ n.spins = m.spins /\ n.state = m.state
        /\ n.source = m.source /\ n.known_lib = m.known_lib
    BY <1>3, <2>3, <2>5, <2>6, <2>7 DEF Asked, Quiet
  <2> QED BY <2>2, <2>6, <2>8 DEF Settled
<1>4. CASE SourceCurrent(m) /\ ~(m.last_requested # m.known_lib /\ end > 0 /\ end >= start)
  <2>1. RequestRange(m) = m
    BY <1>4 DEF RequestRange
  <2>2. m.last_requested = m.known_lib \/ m.known_lib < m.next_expected
    BY <1>1, <1>4, Fields, SyncAssumption DEF NodeInv
  <2> QED BY <1>4, <2>1, <2>2 DEF Moved
<1> QED BY <1>2, <1>3, <1>4

LEMMA ChunkOutcome ==
    ASSUME NEW m, NodeInv(m), Settled(m), NEW c \in Peers \cup {None}
    PROVE  LET n == request_next_chunk(m, c)
           IN  /\ NodeInv(n) /\ Settled(n) /\ n.head = m.head
               /\ \/ n = m /\ m.head < m.last_requested /\ SourceCurrent(m)
                  \/ n.spins /\ m.source = None /\ n.last_requested = m.last_requested
                  \/ /\ ~(m.head < m.last_requested /\ SourceCurrent(m)) /\ n.spins = m.spins
                     /\ GaveUp(n) \/ (Asked(n) /\ n.state = m.state) \/ Moved(m, n)
<1>1. m \in Node
  BY DEF NodeInv
<1>2. CASE m.head < m.last_requested /\ SourceCurrent(m)
  <2>1. request_next_chunk(m, c) = m
    BY <1>2 DEF request_next_chunk, SourceCurrent
  <2> QED BY <1>2, <2>1
<1>3. ASSUME NEW s \in Peers \cup {None}, ~(m.head < m.last_requested /\ SourceCurrent(m)),
             request_next_chunk(m, c) = RequestRange([m EXCEPT !.source = s])
      PROVE  LET n == request_next_chunk(m, c)
             IN  /\ NodeInv(n) /\ Settled(n) /\ n.head = m.head
                 /\ ~(m.head < m.last_requested /\ SourceCurrent(m)) /\ n.spins = m.spins
                 /\ GaveUp(n) \/ (Asked(n) /\ n.state = m.state) \/ Moved(m, n)
  <2> DEFINE k == [m EXCEPT !.source = s]
             n == RequestRange(k)
  <2>1. /\ NodeInv(k) /\ k.head = m.head /\ k.known_lib = m.known_lib
        /\ k.last_requested = m.last_requested /\ k.next_expected = m.next_expected
        /\ k.state = m.state /\ k.spins = m.spins /\ k.conn = m.conn
    BY SourceSet
  <2> HIDE DEF k
  <2>2. /\ NodeInv(n) /\ (Settled(k) => Settled(n)) /\ n.head = k.head /\ n.spins = k.spins
        /\ GaveUp(n) \/ (Asked(n) /\ n.state = k.state) \/ Moved(k, n)
    BY <2>1, RequestRangeOutcome
  <2>3. request_next_chunk(m, c) = n
    BY <1>3 DEF k
  <2> HIDE DEF n
  <2>4. Moved(k, n) => Moved(m, n)
    BY <2>1 DEF Moved
  <2> QED BY <1>3, <2>1, <2>2, <2>3, <2>4 DEF Settled
<1>4. CASE ~(m.head < m.last_requested /\ SourceCurrent(m)) /\ c # None /\ current(m, c)
  <2>1. request_next_chunk(m, c) = RequestRange([m EXCEPT !.source = c])
    BY <1>4 DEF request_next_chunk, SourceCurrent
  <2> QED BY <1>3, <1>4, <2>1
<1>5. CASE /\ ~(m.head < m.last_requested /\ SourceCurrent(m)) /\ ~(c # None /\ current(m, c))
           /\ Spins(m)
  <2> DEFINE n == [m EXCEPT !.spins = TRUE]
  <2>1. request_next_chunk(m, c) = n
    BY <1>5 DEF request_next_chunk, SourceCurrent
  <2>2. NodeInv(n) /\ Settled(n) /\ n.head = m.head /\ n.spins /\ n.last_requested = m.last_requested
    BY DEF NodeInv, Node, Settled
  <2> QED BY <1>5, <2>1, <2>2 DEF Spins
<1>6. CASE /\ ~(m.head < m.last_requested /\ SourceCurrent(m)) /\ ~(c # None /\ current(m, c))
           /\ ~Spins(m)
  <2>1. request_next_chunk(m, c) = RequestRange([m EXCEPT !.source = NextSource(m)])
    BY <1>6 DEF request_next_chunk, SourceCurrent
  <2>2. NextSource(m) \in Peers \cup {None}
    BY <1>1, NextSourceType
  <2> QED BY <1>3, <1>6, <2>1, <2>2
<1> QED BY <1>2, <1>4, <1>5, <1>6

\* A request that starts anew is watched, or there is none.
LEMMA StartedAnew ==
    ASSUME NEW m, NodeInv(m), Settled(m)
    PROVE  LET k == [m EXCEPT !.last_requested = 0]
               n == request_next_chunk(k, None)
           IN  /\ NodeInv(n) /\ Settled(n) /\ n.head = m.head /\ ~Unwatched(n)
               /\ m.source # None => n.spins = m.spins
               /\ m.state # "in_sync" /\ m.source # None /\ n.state = "in_sync" => ~SourceCurrent(n)
               /\ n.last_requested = 0 \/ SourceCurrent(n)
<1> DEFINE k == [m EXCEPT !.last_requested = 0]
           n == request_next_chunk(k, None)
<1>1. /\ NodeInv(k) /\ Settled(k) /\ k.head = m.head /\ k.last_requested = 0 /\ k.spins = m.spins
      /\ k.state = m.state /\ k.source = m.source
  BY DEF NodeInv, Node, Settled
<1> HIDE DEF k
<1>2. /\ NodeInv(n) /\ Settled(n) /\ n.head = k.head
      /\ \/ n = k /\ k.head < k.last_requested /\ SourceCurrent(k)
         \/ n.spins /\ k.source = None /\ n.last_requested = k.last_requested
         \/ /\ ~(k.head < k.last_requested /\ SourceCurrent(k)) /\ n.spins = k.spins
            /\ GaveUp(n) \/ (Asked(n) /\ n.state = k.state) \/ Moved(k, n)
  BY <1>1, ChunkOutcome
<1> HIDE DEF n
<1>3. Lag \in Nat /\ k.head \in Int /\ k.head > Lag /\ n.next_expected \in Int /\ n.next_expected >= 1
  BY <1>1, <1>2, Fields, SyncAssumption DEF NodeInv
<1>4. \/ n.spins /\ k.source = None /\ n.last_requested = 0
      \/ n.spins = k.spins /\ (GaveUp(n) \/ (Asked(n) /\ n.state = k.state) \/ Moved(k, n))
  BY <1>1, <1>2, <1>3
<1> DEFINE Goal == /\ ~Unwatched(n)
                   /\ m.source # None => n.spins = m.spins
                   /\ m.state # "in_sync" /\ m.source # None /\ n.state = "in_sync" =>
                         ~SourceCurrent(n)
                   /\ n.last_requested = 0 \/ SourceCurrent(n)
<1>5. n.spins = k.spins /\ GaveUp(n) => Goal
  BY <1>1 DEF GaveUp, Unwatched, Unfilled
<1>6. n.spins = k.spins /\ Asked(n) /\ n.state = k.state => Goal
  BY <1>1 DEF Asked, SourceCurrent, Unwatched, Timed
<1>7. n.spins = k.spins /\ Moved(k, n) => Goal
  BY <1>1, <1>3 DEF Moved, Unwatched, Unfilled
<1>8. n.spins /\ k.source = None /\ n.last_requested = 0 => Goal
  BY <1>1 DEF Unwatched
<1>9. Goal
  BY <1>4, <1>5, <1>6, <1>7, <1>8
<1> QED BY <1>1, <1>2, <1>9 DEF n, k

-----------------------------------------------------------------------------
\* Lost connections and new irreversible blocks.

LEMMA ResetOutcome ==
    ASSUME NEW m, NodeInv(m), NEW c \in Peers
    PROVE  LET n == reset_lib_num(m, c)
           IN  /\ NodeInv(n) /\ n.head = m.head /\ n.spins = m.spins /\ Keeps(m, n)
               /\ n.state = "in_sync" => ~SourceCurrent(n)
               /\ \/ n.last_requested = 0 \/ SourceCurrent(n)
                  \/ /\ n.last_requested = m.last_requested
                     /\ n.source = m.source \/ m.state = "in_sync"
               /\ m.source = c /\ ~current(m, c) => ~Unwatched(n)
               /\ Settled(m) /\ ~current(m, c) => Settled(n)
<1> DEFINE k == IF m.state = "in_sync" THEN [m EXCEPT !.source = None] ELSE m
           n == reset_lib_num(m, c)
           Goal == /\ NodeInv(n) /\ n.head = m.head /\ n.spins = m.spins /\ Keeps(m, n)
                   /\ n.state = "in_sync" => ~SourceCurrent(n)
                   /\ \/ n.last_requested = 0 \/ SourceCurrent(n)
                      \/ /\ n.last_requested = m.last_requested
                         /\ n.source = m.source \/ m.state = "in_sync"
                   /\ m.source = c /\ ~current(m, c) => ~Unwatched(n)
                   /\ Settled(m) /\ ~current(m, c) => Settled(n)
<1> SUFFICES Goal
  OBVIOUS
<1>1. m \in Node /\ c # None
  BY ConnectionsArePeers DEF NodeInv
<1>2. /\ NodeInv(k) /\ k.head = m.head /\ k.known_lib = m.known_lib /\ k.conn = m.conn
      /\ k.last_requested = m.last_requested /\ k.next_expected = m.next_expected
      /\ k.state = m.state /\ k.spins = m.spins
      /\ IF m.state = "in_sync" THEN k.source = None ELSE k.source = m.source
  BY SourceSet
<1>3. n = IF current(k, c)
          THEN [k EXCEPT !.known_lib = IF k.conn[c].lib > @ THEN k.conn[c].lib ELSE @]
          ELSE IF c = k.source
          THEN request_next_chunk([k EXCEPT !.last_requested = 0], None)
          ELSE k
  BY DEF reset_lib_num
<1> HIDE DEF k, n
<1>4. current(k, c) <=> current(m, c)
  BY <1>2 DEF current, connected
<1>5. CASE current(k, c)
  <2> DEFINE x == IF k.conn[c].lib > k.known_lib THEN k.conn[c].lib ELSE k.known_lib
  <2>1. n = [k EXCEPT !.known_lib = x]
    BY <1>3, <1>5
  <2>2. x \in Int /\ x >= k.known_lib
    BY <1>2, Fields DEF NodeInv, Conn
  <2> HIDE DEF x
  <2>3. /\ NodeInv(n) /\ n.head = k.head /\ n.spins = k.spins /\ n.state = k.state
        /\ n.source = k.source /\ n.conn = k.conn /\ n.last_requested = k.last_requested
        /\ n.next_expected = k.next_expected
    <3>1. k.source # None => k.state # "in_sync"
      BY <1>2
    <3> QED BY <1>2, <2>1, <2>2, <3>1 DEF NodeInv, Node, Settled
  <2> QED BY <1>2, <1>4, <1>5, <2>3 DEF Keeps, Unwatched, Unfilled, Timed, SourceCurrent
<1>6. CASE ~current(k, c) /\ c = k.source
  <2>1. k.source # None /\ m.state # "in_sync" /\ m.source = c
    BY <1>1, <1>2, <1>6
  <2>2. n = request_next_chunk([k EXCEPT !.last_requested = 0], None)
    BY <1>3, <1>6
  <2>3. /\ NodeInv(n) /\ Settled(n) /\ n.head = k.head /\ n.spins = k.spins /\ ~Unwatched(n)
        /\ n.state = "in_sync" => ~SourceCurrent(n)
        /\ n.last_requested = 0 \/ SourceCurrent(n)
    <3>1. Settled(k)
      BY <1>2, <2>1 DEF Settled
    <3> QED BY <1>2, <2>1, <2>2, <3>1, StartedAnew
  <2> QED BY <1>2, <2>1, <2>3 DEF Keeps
<1>7. CASE ~current(k, c) /\ c # k.source
  <2>1. n = k
    BY <1>3, <1>7
  <2>2. m.state = "in_sync" \/ m.source # c
    BY <1>2, <1>7
  <2> QED BY <1>2, <2>1, <2>2 DEF Keeps, Unwatched, Unfilled, Timed, SourceCurrent, Settled
<1> QED BY <1>5, <1>6, <1>7

LEMMA CloseOutcome ==
    ASSUME NEW m, NodeInv(m), NEW c \in Peers
    PROVE  LET n == close(m, c)
           IN  /\ NodeInv(n) /\ n.head = m.head /\ n.spins = m.spins /\ Keeps(m, n)
               /\ m.source = c => ~Unwatched(n)
               /\ Settled(m) => Settled(n)
<1> DEFINE r == [Closed EXCEPT !.fork_head = m.conn[c].fork_head, !.expired = m.conn[c].expired]
           k == [m EXCEPT !.conn[c] = r]
           n == reset_lib_num(k, c)
<1>1. m \in Node /\ m.conn[c] \in Conn
  BY Fields DEF NodeInv
<1>2. m.conn[c].fork_head \in Int /\ m.conn[c].expired \in BOOLEAN /\ <<>> \in Seq(ToPeer)
  BY <1>1 DEF Conn
<1>3. r \in Conn /\ r.sock = "closed" /\ ~r.wait
  <2> DEFINE d == Closed
             h == m.conn[c].fork_head
             b == m.conn[c].expired
             e == [d EXCEPT !.fork_head = h, !.expired = b]
  <2>1. d \in Conn /\ d.sock = "closed" /\ ~d.wait
    BY <1>2 DEF Closed, Conn
  <2>2. h \in Int /\ b \in BOOLEAN /\ r = e
    BY <1>2
  <2> HIDE DEF d, h, b
  <2>3. e \in Conn /\ e.sock = d.sock /\ e.wait = d.wait
    BY <2>1, <2>2 DEF Conn
  <2> QED BY <2>1, <2>2, <2>3
<1>4. close(m, c) = n
  BY DEF close
<1> HIDE DEF r
<1>5. /\ k \in Node /\ k.conn[c] = r
      /\ \A q \in Peers : q # c => k.conn[q] = m.conn[q]
      /\ k.head = m.head /\ k.known_lib = m.known_lib
      /\ k.last_requested = m.last_requested /\ k.next_expected = m.next_expected
      /\ k.source = m.source /\ k.state = m.state /\ k.spins = m.spins
  BY <1>1, <1>3, ConnChanged
<1> HIDE DEF k
<1>6. NodeInv(k) /\ ~current(k, c)
  BY <1>3, <1>5 DEF NodeInv, Settled, current, connected
<1>7. /\ NodeInv(n) /\ n.head = k.head /\ n.spins = k.spins /\ Keeps(k, n)
      /\ k.source = c /\ ~current(k, c) => ~Unwatched(n)
      /\ Settled(k) /\ ~current(k, c) => Settled(n)
  BY <1>6, ResetOutcome
<1> HIDE DEF n
<1>8. Unwatched(k) /\ k.source # c => Unwatched(m)
  BY <1>1, <1>5, Fields DEF Unwatched, Unfilled, Timed
<1> QED BY <1>4, <1>5, <1>6, <1>7, <1>8 DEF Keeps, Settled

\* The one way to lose the timer: all that is known was requested before.
LEMMA StartSyncOutcome ==
    ASSUME NEW m, NodeInv(m), NEW c \in Peers, NEW target \in Int,
           m.state = "in_sync" => ~SourceCurrent(m)
    PROVE  LET n == start_sync(m, c, target)
           IN  /\ NodeInv(n)
               /\ Unwatched(n) =>
                     /\ n.last_requested = m.last_requested
                     /\ \/ Unwatched(m)
                        \/ /\ n.last_requested = n.known_lib /\ m.head < m.last_requested
                           /\ ~SourceCurrent(m) /\ SourceCurrent(n) /\ n.source # m.source
<1> DEFINE m1 == IF target > m.known_lib THEN [m EXCEPT !.known_lib = target] ELSE m
           m2 == IF m1.state # "in_sync" THEN m1
                 ELSE [m1 EXCEPT !.state = "lib_catchup", !.next_expected = lib(m.head) + 1]
           n == start_sync(m, c, target)
           Goal == /\ NodeInv(n)
                   /\ Unwatched(n) =>
                         /\ n.last_requested = m.last_requested
                         /\ \/ Unwatched(m)
                            \/ /\ n.last_requested = n.known_lib /\ m.head < m.last_requested
                               /\ ~SourceCurrent(m) /\ SourceCurrent(n) /\ n.source # m.source
<1> SUFFICES Goal
  OBVIOUS
<1>1. m \in Node /\ m.known_lib \in Int /\ Lag \in Nat /\ m.head \in Int /\ m.head > Lag
  BY Fields, SyncAssumption DEF NodeInv
<1>2. /\ m1 \in Node /\ m1.head = m.head /\ m1.last_requested = m.last_requested
      /\ m1.next_expected = m.next_expected /\ m1.state = m.state /\ m1.spins = m.spins
      /\ m1.source = m.source /\ m1.conn = m.conn
      /\ m1.known_lib \in Int /\ m1.known_lib >= m.known_lib
      /\ target > m.known_lib => m1.known_lib = target
      /\ ~(target > m.known_lib) => m1 = m
  BY <1>1 DEF Node
<1>3. n = IF sync_required(m1) THEN request_next_chunk(m2, c) ELSE m1
  BY DEF start_sync
<1> HIDE DEF m1
<1>4. /\ NodeInv(m2) /\ m2.head = m.head /\ m2.last_requested = m.last_requested
      /\ m2.known_lib = m1.known_lib /\ m2.spins = m.spins
      /\ m2.source = m.source /\ m2.conn = m.conn
      /\ m.state # "in_sync" => m2 = m1
      /\ Settled(m2)
  <2>1. CASE m1.state # "in_sync"
    <3>1. m2 = m1
      BY <2>1
    <3>2. m.last_requested \in Int
      BY <1>1, Fields
    <3>3. NodeInv(m1)
      BY <1>1, <1>2, <2>1, <3>2 DEF NodeInv, Settled
    <3> QED BY <1>2, <2>1, <3>1, <3>3 DEF Settled
  <2>2. CASE m1.state = "in_sync"
    <3> DEFINE x == lib(m.head) + 1
               y == "lib_catchup"
               r == [m1 EXCEPT !.state = y, !.next_expected = x]
    <3>1. x \in Int /\ 1 <= x /\ x <= m.head + 1 /\ y = "lib_catchup"
      BY <1>1 DEF lib
    <3>2. m2 = r
      BY <2>2
    <3> HIDE DEF x, y
    <3>3. /\ r \in Node /\ r.head = m1.head /\ r.last_requested = m1.last_requested
          /\ r.known_lib = m1.known_lib /\ r.spins = m1.spins /\ r.state = y
          /\ r.source = m1.source /\ r.conn = m1.conn /\ r.next_expected = x
      BY <1>2, <3>1 DEF Node
    <3> HIDE DEF r, m2
    <3>4. m.last_requested \in Int /\ m.last_requested <= m.known_lib /\ 0 <= m.last_requested
      BY <1>1, Fields DEF NodeInv
    <3> QED BY <1>1, <1>2, <2>2, <3>1, <3>2, <3>3, <3>4 DEF NodeInv, Settled
  <2> QED BY <2>1, <2>2
<1> HIDE DEF m2, n
<1>5. CASE ~sync_required(m1)
  <2>1. n = m1
    BY <1>3, <1>5
  <2>2. m.last_requested \in Int /\ m.last_requested <= m.known_lib
    BY <1>1, Fields DEF NodeInv
  <2>3. n = m
    BY <1>1, <1>2, <1>5, <2>1, <2>2 DEF sync_required
  <2> QED BY <2>3
<1>6. CASE sync_required(m1)
  <2>1. n = request_next_chunk(m2, c)
    BY <1>3, <1>6
  <2>2. /\ NodeInv(n) /\ n.head = m2.head
        /\ \/ n = m2 /\ m2.head < m2.last_requested /\ SourceCurrent(m2)
           \/ n.spins
           \/ /\ ~(m2.head < m2.last_requested /\ SourceCurrent(m2)) /\ n.spins = m2.spins
              /\ GaveUp(n) \/ (Asked(n) /\ n.state = m2.state) \/ Moved(m2, n)
    BY <1>4, <2>1, ChunkOutcome
  <2>3. SourceCurrent(m2) <=> SourceCurrent(m)
    BY <1>4 DEF SourceCurrent, current, connected
  <2>4. CASE n = m2 /\ m2.head < m2.last_requested /\ SourceCurrent(m2)
    <3>1. m.state # "in_sync"
      BY <2>3, <2>4
    <3>2. n = m1
      BY <1>4, <2>4, <3>1
    <3> QED BY <1>2, <2>2, <3>2 DEF Unwatched, Unfilled, Timed
  <2>5. CASE n.spins
    BY <2>2, <2>5 DEF Unwatched
  <2>6. CASE GaveUp(n)
    BY <2>2, <2>6 DEF GaveUp, Unwatched, Unfilled
  <2>7. CASE Asked(n)
    BY <2>2, <2>7 DEF Asked, SourceCurrent, Unwatched, Timed
  <2>8. CASE ~(m2.head < m2.last_requested /\ SourceCurrent(m2)) /\ Moved(m2, n)
    <3>1. SUFFICES ASSUME Unwatched(n)
                   PROVE  /\ n.last_requested = m.last_requested
                          /\ n.last_requested = n.known_lib /\ m.head < m.last_requested
                          /\ ~SourceCurrent(m) /\ SourceCurrent(n) /\ n.source # m.source
      BY <2>2
    <3>2. n.last_requested >= n.next_expected
      BY <3>1 DEF Unwatched, Unfilled
    <3>3. /\ n.last_requested \in Int /\ n.known_lib \in Int /\ n.next_expected \in Int
          /\ n.last_requested <= n.known_lib
      BY <2>2, Fields DEF NodeInv
    <3>4. n.last_requested = n.known_lib /\ n.last_requested = m.last_requested
          /\ n.known_lib = m1.known_lib
      BY <1>4, <2>8, <3>2, <3>3 DEF Moved
    <3>5. m.head < m.last_requested
      <4>1. m1.last_requested < m1.known_lib \/ m1.head < m1.last_requested
        BY <1>6 DEF sync_required
      <4>2. m1.last_requested = n.last_requested /\ m1.known_lib = n.last_requested
        BY <1>2, <3>4
      <4>3. ~(m1.last_requested < m1.known_lib)
        BY <3>3, <4>2
      <4> QED BY <1>2, <4>1, <4>3
    <3>6. SourceCurrent(n) /\ n.conn = m.conn
      BY <1>4, <2>8 DEF Moved
    <3>7. ~SourceCurrent(m)
      BY <1>4, <2>3, <2>8, <3>5
    <3>8. n.source # m.source
      BY <3>6, <3>7 DEF SourceCurrent, current, connected
    <3> QED BY <3>4, <3>5, <3>6, <3>7, <3>8
  <2> QED BY <2>2, <2>4, <2>5, <2>6, <2>7, <2>8
<1> QED BY <1>5, <1>6

-----------------------------------------------------------------------------
\* The handlers.

\* A step from m to n as Watched allows it.
WatchedStep(m, n) ==
    Unwatched(n) => /\ n.last_requested = m.last_requested
                    /\ \/ Unwatched(m)
                       \/ n.source # m.source /\ n.last_requested = n.known_lib

LEMMA QuietTransitive ==
    ASSUME NEW m, NEW n, NEW k, Quiet(m, n), Quiet(n, k)
    PROVE  Quiet(m, k)
BY DEF Quiet

LEMMA CancelSyncInv ==
    ASSUME NEW m, NodeInv(m), Settled(m), NEW c \in Peers, NEW kept \in 0..Len(m.conn[c].out),
           NEW write
    PROVE  LET n == cancel_sync(m, c, kept, write)
           IN  NodeInv(n) /\ Settled(n)
<1> DEFINE k == cancel_wait(m, c)
           q == SubSeq(k.conn[c].out, 1, kept)
           m1 == [k EXCEPT !.conn[c].out = q]
           n == cancel_sync(m, c, kept, write)
<1> SUFFICES NodeInv(n) /\ Settled(n)
  OBVIOUS
<1>1. m \in Node /\ m.conn[c].out \in Seq(ToPeer)
  BY Fields DEF NodeInv, Conn
<1>2. /\ NodeInv(k) /\ k.conn[c].out = m.conn[c].out
      /\ k.head = m.head /\ k.known_lib = m.known_lib /\ k.state = m.state
  BY CancelsWait
<1>3. q \in Seq(ToPeer)
  <2>1. SubSeq(m.conn[c].out, 1, kept) \in Seq(ToPeer)
    BY <1>1
  <2> QED BY <1>2, <2>1
<1>4. n = m1 \/ n = enqueue(m1, c, SyncRequest(0, 0)) \/ n = close(m1, c)
  BY DEF cancel_sync
<1> HIDE DEF k, q, n
<1>5. NodeInv(m1) /\ Quiet(k, m1) /\ m1.state = k.state
  BY <1>2, <1>3, OutSet
<1>6. Settled(m1)
  BY <1>2, <1>5 DEF Settled, Quiet
<1> HIDE DEF m1
<1>7. CASE n = m1
  BY <1>5, <1>6, <1>7
<1>8. CASE n = enqueue(m1, c, SyncRequest(0, 0))
  <2>1. SyncRequest(0, 0) \in ToPeer
    BY MessagesToPeer
  <2>2. NodeInv(n) /\ Quiet(m1, n) /\ n.state = m1.state
    BY <1>5, <1>8, <2>1, EnqueueQuiet
  <2> QED BY <1>6, <2>2 DEF Settled, Quiet
<1>9. CASE n = close(m1, c)
  BY <1>5, <1>6, <1>9, CloseOutcome
<1> QED BY <1>4, <1>7, <1>8, <1>9

\* The timer's handler: what it forgets of the timer is about a request that it replaces.
LEMMA ReassignOutcome ==
    ASSUME NEW m, NodeInv(m), NEW c \in Peers, NEW kept \in 0..Len(m.conn[c].out), NEW write
    PROVE  LET n == reassign_fetch([m EXCEPT !.conn[c].expired = FALSE], c, kept, write)
           IN  NodeInv(n) /\ Keeps(m, n)
<1> DEFINE d == [m.conn[c] EXCEPT !.expired = FALSE]
           k == [m EXCEPT !.conn[c] = d]
           n == reassign_fetch([m EXCEPT !.conn[c].expired = FALSE], c, kept, write)
<1> SUFFICES NodeInv(n) /\ Keeps(m, n)
  OBVIOUS
<1>1. m \in Node /\ m.conn[c] \in Conn
  BY Fields DEF NodeInv
<1>2. d \in Conn /\ d.wait = m.conn[c].wait /\ d.out = m.conn[c].out
  BY <1>1 DEF Conn
<1>3. [m EXCEPT !.conn[c].expired = FALSE] = k
  BY <1>1, ConnForms
<1>4. n = IF c = k.source
          THEN request_next_chunk([cancel_sync(k, c, kept, write) EXCEPT !.last_requested = 0], None)
          ELSE k
  BY <1>3 DEF reassign_fetch
<1> HIDE DEF d, n
<1>5. /\ k \in Node /\ k.conn[c] = d
      /\ \A q \in Peers : q # c => k.conn[q] = m.conn[q]
      /\ k.head = m.head /\ k.known_lib = m.known_lib
      /\ k.last_requested = m.last_requested /\ k.next_expected = m.next_expected
      /\ k.source = m.source /\ k.state = m.state /\ k.spins = m.spins
  BY <1>1, <1>2, ConnChanged
<1> HIDE DEF k
<1>6. NodeInv(k) /\ c # None /\ k.source \in Peers \cup {None}
  BY <1>5, Fields, ConnectionsArePeers DEF NodeInv, Settled
<1>7. CASE c # k.source
  <2>1. n = k
    BY <1>4, <1>7
  <2> QED BY <1>5, <1>6, <1>7, <2>1 DEF Keeps, Unwatched, Unfilled, Timed
<1>8. CASE c = k.source
  <2> DEFINE r == cancel_sync(k, c, kept, write)
             z == [r EXCEPT !.last_requested = 0]
  <2>1. Settled(k)
    BY <1>6, <1>8 DEF NodeInv
  <2>2. kept \in 0..Len(k.conn[c].out)
    BY <1>2, <1>5
  <2>3. NodeInv(r) /\ Settled(r)
    BY <1>6, <2>1, <2>2, CancelSyncInv
  <2>4. n = request_next_chunk(z, None)
    BY <1>4, <1>8
  <2> HIDE DEF r
  <2>5. NodeInv(request_next_chunk(z, None)) /\ ~Unwatched(request_next_chunk(z, None))
    BY <2>3, StartedAnew
  <2> HIDE DEF z
  <2> QED BY <2>4, <2>5 DEF Keeps
<1> QED BY <1>7, <1>8

LEMMA SendHandshakesInv ==
    ASSUME NEW m, NodeInv(m)
    PROVE  NodeInv(send_handshakes(m)) /\ send_handshakes(m).state = m.state
<1> DEFINE f == [p \in Peers |->
                   IF current(m, p) THEN [m.conn[p] EXCEPT !.out = Append(@, Handshake(m.head, FALSE))]
                   ELSE m.conn[p]]
           n == [m EXCEPT !.conn = f]
<1>1. m \in Node /\ m.head \in Int /\ Handshake(m.head, FALSE) \in ToPeer
  BY Fields, MessagesToPeer DEF NodeInv
<1>2. ASSUME NEW p \in Peers
      PROVE  [m.conn[p] EXCEPT !.out = Append(@, Handshake(m.head, FALSE))] \in Conn
  <2> DEFINE x == Append(m.conn[p].out, Handshake(m.head, FALSE))
  <2>1. m.conn[p] \in Conn
    BY <1>1, Fields
  <2>2. m.conn[p].out \in Seq(ToPeer)
    BY <2>1 DEF Conn
  <2>3. x \in Seq(ToPeer)
    <3> DEFINE q == m.conn[p].out
               h == Handshake(m.head, FALSE)
    <3>1. q \in Seq(ToPeer) /\ h \in ToPeer
      BY <1>1, <2>2
    <3> HIDE DEF q, h
    <3>2. Append(q, h) \in Seq(ToPeer)
      BY <3>1
    <3> QED BY <3>2 DEF q, h
  <2> HIDE DEF x
  <2>4. [m.conn[p] EXCEPT !.out = x] \in Conn
    BY <2>1, <2>3 DEF Conn
  <2> QED BY <2>4 DEF x
<1>3. f \in [Peers -> Conn]
  BY <1>1, <1>2, Fields
<1>4. send_handshakes(m) = n
  BY DEF send_handshakes
<1> HIDE DEF f
<1>5. /\ n \in Node /\ n.head = m.head /\ n.known_lib = m.known_lib /\ n.state = m.state
      /\ n.last_requested = m.last_requested /\ n.next_expected = m.next_expected
  BY <1>1, <1>3 DEF Node
<1>6. n.source = m.source
  BY <1>1 DEF Node
<1> HIDE DEF n
<1> QED BY <1>4, <1>5, <1>6 DEF NodeInv, Settled

LEMMA VerifyCatchupQuiet ==
    ASSUME NEW m, NodeInv(m), NEW c \in Peers, NEW num \in Int
    PROVE  LET n == verify_catchup(m, c, num)
           IN  NodeInv(n) /\ Quiet(m, n)
<1> DEFINE x == [m EXCEPT !.conn[c].fork_head = 0]
           m1 == [m EXCEPT !.conn[c].fork_head = num]
           h == [m1 EXCEPT !.state = "head_catchup"]
           n == verify_catchup(m, c, num)
<1> SUFFICES NodeInv(n) /\ Quiet(m, n)
  OBVIOUS
<1>1. n = IF m.conn[Connections[1]].fork_head >= num
          THEN enqueue(x, c, Request("none"))
          ELSE IF m.state = "lib_catchup" THEN m1
          ELSE enqueue(h, c, Request("catch_up"))
  BY DEF verify_catchup
<1>2. NodeInv(x) /\ Quiet(m, x)
  BY ForkHeadSet
<1>3. NodeInv(m1) /\ Quiet(m, m1)
  BY ForkHeadSet
<1> HIDE DEF x, m1, n
<1>4. NodeInv(h) /\ Quiet(m1, h)
  BY <1>3 DEF NodeInv, Node, Quiet, Settled
<1> HIDE DEF h
<1>5. Request("none") \in ToPeer /\ Request("catch_up") \in ToPeer
  BY MessagesToPeer
<1>6. CASE n = enqueue(x, c, Request("none"))
  <2>1. NodeInv(n) /\ Quiet(x, n)
    BY <1>2, <1>5, <1>6, EnqueueQuiet
  <2> QED BY <1>2, <2>1, QuietTransitive
<1>7. CASE n = m1
  BY <1>3, <1>7
<1>8. CASE n = enqueue(h, c, Request("catch_up"))
  <2>1. NodeInv(n) /\ Quiet(h, n)
    BY <1>4, <1>5, <1>8, EnqueueQuiet
  <2> QED BY <1>3, <1>4, <2>1, QuietTransitive
<1> QED BY <1>1, <1>6, <1>7, <1>8

LEMMA HandshakeOutcome ==
    ASSUME NEW m, NodeInv(m), NEW c \in Peers, NEW head \in Int
    PROVE  LET n == recv_handshake(m, c, head)
           IN  NodeInv(n) /\ Keeps(m, n)
<1> DEFINE r == reset_lib_num(m, c)
           m1 == [r EXCEPT !.conn[c].syncing = FALSE]
           Notify(note) == [enqueue(m1, c, note) EXCEPT !.conn[c].syncing = TRUE]
           n == recv_handshake(m, c, head)
<1> SUFFICES NodeInv(n) /\ Keeps(m, n)
  OBVIOUS
<1>1. m \in Node /\ m.head \in Int /\ Lag \in Nat
  BY Fields, SyncAssumption DEF NodeInv
<1>2. \/ n = m1 \/ n = Notify(LastIrrCatchUp(m.head)) \/ n = verify_catchup(m1, c, head)
      \/ n = Notify(CatchUp(m.head))
  BY <1>1 DEF recv_handshake
<1>3. NodeInv(r) /\ Keeps(m, r)
  BY ResetOutcome
<1> HIDE DEF r
<1>4. NodeInv(m1) /\ Quiet(r, m1)
  BY <1>3, SyncingSet
<1> HIDE DEF m1
<1>5. ASSUME NEW note \in ToPeer
      PROVE  NodeInv(Notify(note)) /\ Quiet(m1, Notify(note))
  <2> DEFINE e == enqueue(m1, c, note)
             k == [e EXCEPT !.conn[c].syncing = TRUE]
  <2>1. NodeInv(e) /\ Quiet(m1, e)
    BY <1>4, EnqueueQuiet
  <2> HIDE DEF e
  <2>2. NodeInv(k) /\ Quiet(e, k)
    BY <2>1, SyncingSet
  <2>3. k = Notify(note)
    BY DEF e
  <2> HIDE DEF k
  <2> QED BY <2>1, <2>2, <2>3, QuietTransitive
<1>6. LastIrrCatchUp(m.head) \in ToPeer /\ CatchUp(m.head) \in ToPeer
  BY <1>1, MessagesToPeer
<1>7. NodeInv(verify_catchup(m1, c, head)) /\ Quiet(m1, verify_catchup(m1, c, head))
  BY <1>4, VerifyCatchupQuiet
<1> HIDE DEF n, Notify
<1>8. NodeInv(n) /\ Quiet(r, n)
  BY <1>2, <1>4, <1>5, <1>6, <1>7, QuietTransitive
<1>9. Keeps(r, n)
  BY <1>3, <1>8, QuietKeeps DEF NodeInv
<1> QED BY <1>3, <1>8, <1>9, KeepsTransitive

LEMMA NoticeOutcome ==
    ASSUME NEW m, NodeInv(m), NEW c \in Peers, NEW head \in Int
    PROVE  LET n == recv_last_irr_notice(m, c, head)
           IN  NodeInv(n) /\ WatchedStep(m, n)
<1> DEFINE x == lib(head)
           l == [m EXCEPT !.conn[c].lib = x]
           r == reset_lib_num(l, c)
           n == start_sync(r, c, head)
<1> SUFFICES NodeInv(n) /\ WatchedStep(m, n)
  BY DEF recv_last_irr_notice
<1>1. x \in Int
  BY SyncAssumption DEF lib
<1> HIDE DEF x
<1>2. NodeInv(l) /\ Quiet(m, l) /\ l \in Node
  BY <1>1, LibSet DEF NodeInv
<1> HIDE DEF l
<1>3. /\ NodeInv(r) /\ r.head = l.head /\ Keeps(l, r)
      /\ r.state = "in_sync" => ~SourceCurrent(r)
      /\ \/ r.last_requested = 0 \/ SourceCurrent(r)
         \/ /\ r.last_requested = l.last_requested
            /\ r.source = l.source \/ l.state = "in_sync"
  BY <1>2, ResetOutcome
<1> HIDE DEF r
<1>4. /\ NodeInv(n)
      /\ Unwatched(n) =>
            /\ n.last_requested = r.last_requested
            /\ \/ Unwatched(r)
               \/ /\ n.last_requested = n.known_lib /\ r.head < r.last_requested
                  /\ ~SourceCurrent(r) /\ SourceCurrent(n) /\ n.source # r.source
  BY <1>3, StartSyncOutcome
<1> HIDE DEF n
<1>5. Keeps(m, l)
  BY <1>2, QuietKeeps DEF NodeInv
<1>6. CASE Unwatched(n) /\ Unwatched(r)
  BY <1>2, <1>3, <1>4, <1>5, <1>6 DEF WatchedStep, Keeps, Quiet
<1>7. CASE Unwatched(n) /\ ~Unwatched(r)
  <2>1. /\ n.last_requested = r.last_requested /\ n.last_requested = n.known_lib
        /\ r.head < r.last_requested
        /\ ~SourceCurrent(r) /\ SourceCurrent(n) /\ n.source # r.source
    BY <1>4, <1>7
  <2>2. n.last_requested # 0
    BY <1>4, <1>7, Fields DEF NodeInv, Unwatched, Unfilled
  <2>3. r.last_requested = l.last_requested /\ (r.source = l.source \/ l.state = "in_sync")
    BY <1>3, <2>1, <2>2
  <2>4. n.source # l.source
    <3>1. CASE r.source = l.source
      BY <2>1, <3>1
    <3>2. CASE l.state = "in_sync"
      <4>1. /\ l.head \in Int /\ l.known_lib \in Int /\ l.last_requested \in Int
            /\ l.last_requested <= l.known_lib
        BY <1>2, Fields DEF NodeInv
      <4>2. l.source = None
        BY <1>2, <1>3, <2>1, <2>3, <3>2, <4>1 DEF NodeInv, Settled
      <4> QED BY <2>1, <4>2 DEF SourceCurrent
    <3> QED BY <2>3, <3>1, <3>2
  <2> QED BY <1>2, <1>4, <2>1, <2>3, <2>4 DEF WatchedStep, Quiet
<1>8. CASE ~Unwatched(n)
  BY <1>4, <1>8 DEF WatchedStep
<1> QED BY <1>4, <1>6, <1>7, <1>8

LEMMA FollowHeadInv ==
    ASSUME NEW m, NodeInv(m), NEW c \in Peers, NEW num \in Int
    PROVE  LET n == FollowHead(m, c, num)
           IN  NodeInv(n) /\ ~Unwatched(n)
<1> DEFINE fork_head(i) == m.conn[Connections[i]].fork_head
           reached == {i \in DOMAIN Connections : fork_head(i) \in 1..num}
           beyond == {i \in DOMAIN Connections : /\ fork_head(i) > num
                                                 /\ Connections[i] = c => \A j \in reached : j > i}
           x == IF beyond = {} THEN "in_sync" ELSE "head_catchup"
           y == IF reached = {} THEN m.conn[c].fork_head ELSE 0
           d == [m.conn[c] EXCEPT !.fork_head = y]
           k == [m EXCEPT !.conn[c] = d]
           n == [k EXCEPT !.state = x, !.source = None]
<1>1. m \in Node /\ m.conn[c] \in Conn
  BY Fields DEF NodeInv
<1>2. x \in {"in_sync", "head_catchup"}
  OBVIOUS
<1>3. y \in Int
  BY <1>1 DEF Conn
<1>4. FollowHead(m, c, num) = [m EXCEPT !.state = x, !.source = None, !.conn[c].fork_head = y]
  BY DEF FollowHead
<1> HIDE DEF x, y
<1>5. d \in Conn /\ d.wait = m.conn[c].wait /\ d.expired = m.conn[c].expired
  BY <1>1, <1>3 DEF Conn
<1>6. [m EXCEPT !.state = x, !.source = None, !.conn[c].fork_head = y] = n
  BY <1>1 DEF Node, Conn
<1> HIDE DEF d
<1>7. NodeInv(k)
  BY <1>5, ConnQuiet
<1> HIDE DEF k
<1>8. NodeInv(n) /\ n.state = x
  BY <1>2, <1>7 DEF NodeInv, Node, Settled
<1> HIDE DEF n
<1> QED BY <1>2, <1>4, <1>6, <1>8 DEF Unwatched, Unfilled

LEMMA BlockOutcome ==
    ASSUME NEW m, NodeInv(m), NEW c \in Peers, NEW num \in Int,
           m.state = "lib_catchup" /\ num = m.next_expected => num <= m.head
    PROVE  LET n == recv_block(m, c, num)
           IN  NodeInv(n) /\ (Unwatched(n) => /\ n.last_requested = m.last_requested
                                              /\ Unwatched(m) /\ m.source # c)
<1> DEFINE m1 == [m EXCEPT !.next_expected = num + 1]
           s == [m1 EXCEPT !.state = "in_sync"]
           n == recv_block(m, c, num)
           Goal == NodeInv(n) /\ (Unwatched(n) => /\ n.last_requested = m.last_requested
                                                  /\ Unwatched(m) /\ m.source # c)
<1> SUFFICES Goal
  OBVIOUS
<1>1. m \in Node /\ m.state \in {"in_sync", "lib_catchup", "head_catchup"}
      /\ m.source \in Peers \cup {None} /\ None \notin Peers
  BY Fields, ConnectionsArePeers DEF NodeInv
<1>2. CASE m.state = "in_sync"
  <2>1. n = m
    BY <1>2 DEF recv_block
  <2> QED BY <1>2, <2>1 DEF Unwatched, Unfilled
<1>3. CASE m.state = "head_catchup"
  <2>1. n = FollowHead(m, c, num)
    BY <1>3 DEF recv_block
  <2> QED BY <2>1, FollowHeadInv
<1>4. CASE m.state = "lib_catchup" /\ num # m.next_expected
  <2>1. n = close(m, c)
    BY <1>4 DEF recv_block
  <2> QED BY <2>1, CloseOutcome DEF Keeps
<1>5. CASE m.state = "lib_catchup" /\ num = m.next_expected
  <2>1. n = CASE num = m.known_lib -> send_handshakes(s)
              [] num # m.known_lib /\ num = m.last_requested -> request_next_chunk(m1, None)
              [] OTHER -> sync_wait(m1, c)
    BY <1>5 DEF recv_block
  <2>2. /\ NodeInv(m1) /\ m1.next_expected = num + 1 /\ m1.head = m.head /\ m1.conn = m.conn
        /\ m1.known_lib = m.known_lib /\ m1.last_requested = m.last_requested
        /\ m1.source = m.source /\ m1.state = m.state /\ m1.spins = m.spins
    BY <1>5 DEF NodeInv, Node, Settled
  <2> HIDE DEF m1, n
  <2>3. Settled(m1)
    BY <1>5, <2>2 DEF Settled
  <2>4. CASE num = m.known_lib
    <3>1. n = send_handshakes(s)
      BY <2>1, <2>4
    <3>2. NodeInv(s) /\ s.state = "in_sync"
      BY <1>5, <2>2, <2>4 DEF NodeInv, Node, Settled
    <3> HIDE DEF s
    <3> QED BY <3>1, <3>2, SendHandshakesInv DEF Unwatched, Unfilled
  <2>5. CASE num # m.known_lib /\ num = m.last_requested
    <3>1. n = request_next_chunk(m1, None)
      BY <2>1, <2>5
    <3>2. /\ NodeInv(n)
          /\ \/ n = m1 /\ m1.head < m1.last_requested /\ SourceCurrent(m1)
             \/ n.spins
             \/ GaveUp(n) \/ Asked(n) \/ Moved(m1, n)
      BY <2>2, <2>3, <3>1, ChunkOutcome
    <3>3. ~(m1.head < m1.last_requested)
      BY <1>5, <2>2, <2>5, Fields DEF NodeInv
    <3>4. ~Unwatched(n)
      BY <2>2, <2>5, <3>2, <3>3
      DEF GaveUp, Asked, Moved, SourceCurrent, Unwatched, Unfilled, Timed
    <3> QED BY <3>2, <3>4
  <2>6. CASE num # m.known_lib /\ num # m.last_requested
    <3>1. n = sync_wait(m1, c)
      BY <2>1, <2>6
    <3>2. /\ NodeInv(n) /\ n.conn[c].wait
          /\ \A q \in Peers : q # c => n.conn[q].wait = m1.conn[q].wait
          /\ \A q \in Peers : n.conn[q].expired = m1.conn[q].expired
          /\ n.last_requested = m1.last_requested /\ n.next_expected = m1.next_expected
          /\ n.source = m1.source /\ n.state = m1.state /\ n.spins = m1.spins
      BY <2>2, <3>1, SyncWaits
    <3>3. m.last_requested \in Int
      BY <1>1, Fields
    <3> QED BY <1>1, <1>5, <2>2, <3>2, <3>3 DEF Unwatched, Unfilled, Timed
  <2> QED BY <2>4, <2>5, <2>6
<1> QED BY <1>1, <1>2, <1>3, <1>4, <1>5

LEMMA AcceptedBlock ==
    ASSUME NEW m, NodeInv(m), NEW c \in Peers, NEW num \in Int
    PROVE  LET n == recv_block(accept_block(cancel_wait(m, c), num), c, num)
           IN  NodeInv(n) /\ Keeps(m, n)
<1> DEFINE k == cancel_wait(m, c)
           a == accept_block(k, num)
           n == recv_block(a, c, num)
<1> SUFFICES NodeInv(n) /\ Keeps(m, n)
  OBVIOUS
<1>1. /\ NodeInv(k)
      /\ \A q \in Peers : q # c => k.conn[q] = m.conn[q]
      /\ k.last_requested = m.last_requested /\ k.next_expected = m.next_expected
      /\ k.source = m.source /\ k.state = m.state /\ k.spins = m.spins
  BY CancelsWait
<1> HIDE DEF k
<1>2. a = IF num = k.head + 1 THEN [k EXCEPT !.head = num] ELSE k
  BY DEF accept_block
<1> HIDE DEF a
<1>3. /\ NodeInv(a) /\ a.conn = k.conn
      /\ a.last_requested = k.last_requested /\ a.next_expected = k.next_expected
      /\ a.source = k.source /\ a.state = k.state /\ a.spins = k.spins
      /\ IF num = k.head + 1 THEN a.head = num ELSE a.head = k.head
  <2>1. CASE num # k.head + 1
    BY <1>1, <1>2, <2>1
  <2>2. CASE num = k.head + 1
    <3> DEFINE b == [k EXCEPT !.head = num]
    <3>1. k \in Node /\ a = b
      BY <1>1, <1>2, <2>2 DEF NodeInv
    <3>2. /\ b \in Node /\ b.conn = k.conn /\ b.head = num /\ b.known_lib = k.known_lib
          /\ b.last_requested = k.last_requested /\ b.next_expected = k.next_expected
          /\ b.source = k.source /\ b.state = k.state /\ b.spins = k.spins
      BY <3>1 DEF Node
    <3> HIDE DEF b
    <3>3. k.head \in Int /\ k.next_expected \in Int /\ Lag \in Nat
      BY <3>1, Fields, SyncAssumption
    <3>4. NodeInv(b)
      <4>1. k.known_lib \in Int
        BY <3>1, Fields
      <4> QED BY <1>1, <2>2, <3>2, <3>3, <4>1 DEF NodeInv, Settled
    <3> QED BY <2>2, <3>1, <3>2, <3>4
  <2> QED BY <2>1, <2>2
<1>4. a.state = "lib_catchup" /\ num = a.next_expected => num <= a.head
  BY <1>1, <1>3, Fields DEF NodeInv
<1>5. NodeInv(n) /\ (Unwatched(n) => n.last_requested = a.last_requested /\ Unwatched(a) /\ a.source # c)
  BY <1>3, <1>4, BlockOutcome
<1> HIDE DEF n
<1>6. m \in Node /\ m.source \in Peers \cup {None}
  BY Fields DEF NodeInv
<1> QED BY <1>1, <1>3, <1>5, <1>6 DEF Keeps, Unwatched, Unfilled, Timed

\* The whole handler of a message.
LEMMA HandleOutcome ==
    ASSUME NEW m, NodeInv(m), NEW c \in Peers, NEW msg \in ToNode
    PROVE  LET n == handle_message(m, c, msg)
           IN  NodeInv(n) /\ WatchedStep(m, n)
<1> DEFINE x == lib(msg.head)
           o == [m EXCEPT !.conn[c].sock = "open"]
           ol == [o EXCEPT !.conn[c].lib = x]
           n == handle_message(m, c, msg)
<1> SUFFICES NodeInv(n) /\ WatchedStep(m, n)
  OBVIOUS
<1>1. m \in Node
  BY DEF NodeInv
<1>2. ASSUME NEW k, NodeInv(k), Keeps(m, k)
      PROVE  WatchedStep(m, k)
  BY <1>2 DEF Keeps, WatchedStep
<1>3. NodeInv(o) /\ Quiet(m, o)
  BY SockSet
<1>4. Keeps(m, o)
  BY <1>1, <1>3, QuietKeeps DEF NodeInv
<1>5. CASE msg.type = "handshake" /\ msg.head \in Int
  <2>1. x \in Int
    BY <1>5, SyncAssumption DEF lib
  <2>2. n = recv_handshake([m EXCEPT !.conn[c].sock = "open", !.conn[c].lib = x], c, msg.head)
    BY <1>5 DEF handle_message
  <2> HIDE DEF x, n
  <2>3. [m EXCEPT !.conn[c].sock = "open", !.conn[c].lib = x] = ol
    BY <1>1 DEF Node, Conn
  <2> HIDE DEF o
  <2>4. NodeInv(ol) /\ Quiet(o, ol)
    BY <1>3, <2>1, LibSet
  <2> HIDE DEF ol
  <2>5. Keeps(m, ol)
    BY <1>1, <1>3, <2>4, QuietTransitive, QuietKeeps DEF NodeInv
  <2>6. NodeInv(n) /\ Keeps(ol, n)
    BY <1>5, <2>2, <2>3, <2>4, HandshakeOutcome
  <2> QED BY <1>2, <2>5, <2>6, KeepsTransitive
<1>6. CASE msg.type = "catch_up" /\ msg.head \in Int
  <2>1. n = verify_catchup(o, c, msg.head)
    BY <1>6 DEF handle_message
  <2> HIDE DEF o, n
  <2>2. NodeInv(n) /\ Quiet(o, n)
    BY <1>3, <1>6, <2>1, VerifyCatchupQuiet
  <2>3. Keeps(m, n)
    BY <1>1, <1>3, <2>2, QuietTransitive, QuietKeeps DEF NodeInv
  <2> QED BY <1>2, <2>2, <2>3
<1>7. CASE msg.type = "last_irr" /\ msg.head \in Int
  <2>1. n = recv_last_irr_notice(o, c, msg.head)
    BY <1>7 DEF handle_message
  <2> HIDE DEF o, n
  <2>2. NodeInv(n) /\ WatchedStep(o, n)
    BY <1>3, <1>7, <2>1, NoticeOutcome
  <2> QED BY <1>3, <1>4, <2>2 DEF WatchedStep, Keeps, Quiet
<1>8. CASE msg.type = "request"
  <2> DEFINE e == enqueue(m, c, Branch(m.head))
             k == [e EXCEPT !.conn[c].syncing = FALSE]
  <2>1. n = k
    BY <1>8 DEF handle_message
  <2>2. Branch(m.head) \in ToPeer
    BY <1>1, Fields, MessagesToPeer
  <2>3. NodeInv(e) /\ Quiet(m, e)
    BY <2>2, EnqueueQuiet
  <2> HIDE DEF e, n
  <2>4. NodeInv(k) /\ Quiet(e, k)
    BY <2>3, SyncingSet
  <2> HIDE DEF k
  <2>5. Keeps(m, k)
    BY <1>1, <2>3, <2>4, QuietTransitive, QuietKeeps DEF NodeInv
  <2> QED BY <1>2, <2>1, <2>4, <2>5
<1>9. CASE msg.type = "block" /\ msg.num \in Int
  <2>1. n = recv_block(accept_block(cancel_wait(m, c), msg.num), c, msg.num)
    BY <1>9 DEF handle_message
  <2> HIDE DEF n
  <2>2. NodeInv(n) /\ Keeps(m, n)
    BY <1>9, <2>1, AcceptedBlock
  <2> QED BY <1>2, <2>2
<1> QED BY <1>5, <1>6, <1>7, <1>8, <1>9, ReadByNode

-----------------------------------------------------------------------------
\* The steps.

LEMMA InitInv == Init => SyncInv
<1> SUFFICES ASSUME Init PROVE SyncInv
  OBVIOUS
<1>1. PICK h \in Heads :
         node = [head |-> h, known_lib |-> 0, last_requested |-> 0, next_expected |-> 1,
                 source |-> None, state |-> "in_sync", spins |-> FALSE,
                 conn |-> [p \in Peers |-> Closed]]
  BY DEF Init
<1>2. h \in Int /\ h > Lag /\ Lag \in Nat
  BY SyncAssumption
<1>3. Closed \in Conn
  <2>1. <<>> \in Seq(ToPeer)
    OBVIOUS
  <2> QED BY <2>1 DEF Closed, Conn
<1>4. NodeInv(node)
  BY <1>1, <1>2, <1>3 DEF NodeInv, Node, Settled
<1>5. PICK f \in PeerHeads :
         peer = [p \in Peers |-> [head |-> f[p], greeted |-> FALSE, syncing |-> FALSE, serve |-> <<>>]]
  BY DEF Init
<1>6. \A p \in Peers : f[p] \in Int
  BY SyncAssumption
<1>7. peer \in [Peers -> Peer]
  BY <1>5, <1>6 DEF Peer
<1>8. from \in [Peers -> Seq(ToNode)]
  <2>1. <<>> \in Seq(ToNode)
    OBVIOUS
  <2> QED BY <2>1 DEF Init
<1>9. writes \in [Peers -> Writes]
  BY DEF Init, Writes
<1> QED BY <1>4, <1>7, <1>8, <1>9 DEF SyncInv

LEMMA HangupType ==
    ASSUME peer \in [Peers -> Peer], writes \in [Peers -> Writes],
           NEW left \in [Peers -> Seq(ToNode)], NEW reasons \in SUBSET Writes, Hangup(left, reasons)
    PROVE  /\ peer' \in [Peers -> Peer] /\ from' \in [Peers -> Seq(ToNode)]
           /\ writes' \in [Peers -> Writes]
<1> DEFINE gone == {p \in Peers : node'.conn[p].sock = "closed"}
           now == {p \in gone : node.conn[p].sock # "closed" /\ writes[p] = "alive"}
           r(p) == [peer[p] EXCEPT !.greeted = FALSE, !.syncing = FALSE, !.serve = <<>>]
<1>1. /\ peer' = [p \in Peers |-> IF p \in gone THEN r(p) ELSE peer[p]]
      /\ from' = [p \in Peers |-> IF p \in gone THEN <<>> ELSE left[p]]
  BY DEF Hangup
<1>2. \A p \in Peers : r(p) \in Peer
  BY DEF Peer
<1>3. <<>> \in Seq(ToNode)
  OBVIOUS
<1>4. PICK f \in [now -> reasons] :
         writes' = [p \in Peers |-> IF p \in now THEN f[p] ELSE writes[p]]
  BY DEF Hangup
<1> HIDE DEF gone, now, r
<1>5. writes' \in [Peers -> Writes]
  BY <1>4
<1> QED BY <1>1, <1>2, <1>3, <1>5

LEMMA SendType ==
    ASSUME from \in [Peers -> Seq(ToNode)], NEW p \in Peers, NEW msgs \in Seq(ToNode),
           Send(p, msgs)
    PROVE  from' \in [Peers -> Seq(ToNode)]
<1>1. from[p] \in Seq(ToNode)
  OBVIOUS
<1>2. from[p] \o msgs \in Seq(ToNode)
  BY <1>1
<1> QED BY <1>2 DEF Send

LEMMA ConnectStep ==
    ASSUME SyncInv, NEW p \in Peers, connect(p)
    PROVE  SyncInv' /\ WatchedStep(node, node')
<1> DEFINE o == [node EXCEPT !.conn[p].sock = "connecting"]
           h == Handshake(node.head, TRUE)
<1>1. NodeInv(node) /\ node \in Node /\ node.head \in Int
  BY Fields DEF SyncInv, NodeInv
<1>2. node' = enqueue(o, p, h) /\ UNCHANGED <<peer, from, writes>>
  BY DEF connect
<1>3. h \in ToPeer
  BY <1>1, MessagesToPeer
<1>4. NodeInv(o) /\ Quiet(node, o)
  BY <1>1, SockSet
<1> HIDE DEF o, h
<1>5. NodeInv(node') /\ Quiet(o, node')
  BY <1>2, <1>3, <1>4, EnqueueQuiet
<1>6. Keeps(node, node')
  BY <1>1, <1>4, <1>5, QuietTransitive, QuietKeeps DEF NodeInv
<1> QED BY <1>2, <1>5, <1>6 DEF SyncInv, Keeps, WatchedStep

LEMMA ReceiveStep ==
    ASSUME SyncInv, NEW p \in Peers, Receive(p)
    PROVE  SyncInv' /\ WatchedStep(node, node')
<1> DEFINE left == [from EXCEPT ![p] = Tail(@)]
<1>1. NodeInv(node) /\ from[p] \in Seq(ToNode) /\ from[p] # <<>>
  BY DEF SyncInv, Receive
<1>2. Head(from[p]) \in ToNode /\ Tail(from[p]) \in Seq(ToNode)
  BY <1>1
<1>3. node' = handle_message(node, p, Head(from[p])) /\ Hangup(left, {"alive", "aborted"})
  BY DEF Receive
<1>4. left \in [Peers -> Seq(ToNode)]
  BY <1>2 DEF SyncInv
<1> HIDE DEF left
<1>5. NodeInv(node') /\ WatchedStep(node, node')
  BY <1>1, <1>2, <1>3, HandleOutcome
<1>6. {"alive", "aborted"} \in SUBSET Writes
  BY DEF Writes
<1>7. /\ peer' \in [Peers -> Peer] /\ from' \in [Peers -> Seq(ToNode)]
      /\ writes' \in [Peers -> Writes]
  BY <1>3, <1>4, <1>6, HangupType DEF SyncInv
<1> QED BY <1>5, <1>7 DEF SyncInv

LEMMA ExpireStep ==
    ASSUME SyncInv, NEW p \in Peers, TimerExpires(p)
    PROVE  SyncInv' /\ WatchedStep(node, node')
<1> DEFINE c == [node.conn[p] EXCEPT !.wait = FALSE, !.expired = TRUE]
<1>1. NodeInv(node) /\ node \in Node /\ node.conn[p] \in Conn
  BY Fields DEF SyncInv, NodeInv
<1>2. /\ node' = [node EXCEPT !.conn[p].wait = FALSE, !.conn[p].expired = TRUE]
      /\ UNCHANGED <<peer, from, writes>>
  BY DEF TimerExpires
<1>3. c \in Conn /\ c.expired
  BY <1>1 DEF Conn
<1>4. node' = [node EXCEPT !.conn[p] = c]
  BY <1>1, <1>2 DEF Node, Conn
<1> HIDE DEF c
<1>5. /\ node' \in Node /\ node'.conn[p] = c
      /\ \A q \in Peers : q # p => node'.conn[q] = node.conn[q]
      /\ node'.head = node.head /\ node'.known_lib = node.known_lib
      /\ node'.last_requested = node.last_requested
      /\ node'.next_expected = node.next_expected
      /\ node'.source = node.source /\ node'.state = node.state /\ node'.spins = node.spins
  BY <1>1, <1>3, <1>4, ConnChanged
<1>6. NodeInv(node')
  BY <1>1, <1>5 DEF NodeInv, Settled
<1>7. node.source \in Peers \cup {None}
  BY <1>1, Fields
<1>8. Keeps(node, node')
  BY <1>3, <1>5, <1>7 DEF Keeps, Unwatched, Unfilled, Timed
<1> QED BY <1>2, <1>6, <1>8 DEF SyncInv, Keeps, WatchedStep

LEMMA WithinQueue ==
    ASSUME NEW T, NEW queue \in Seq(T), NEW kept \in BeingWritten(queue)
    PROVE  kept \in 0..Len(queue)
BY DEF BeingWritten

LEMMA TimeoutStep ==
    ASSUME SyncInv, NEW p \in Peers, sync_timeout(p)
    PROVE  SyncInv' /\ WatchedStep(node, node')
<1>1. /\ NodeInv(node) /\ node.conn[p].out \in Seq(ToPeer)
      /\ peer \in [Peers -> Peer] /\ from \in [Peers -> Seq(ToNode)]
      /\ writes \in [Peers -> Writes]
  BY Fields DEF SyncInv, NodeInv, Conn
<1>2. PICK kept \in BeingWritten(node.conn[p].out) :
         node' = reassign_fetch([node EXCEPT !.conn[p].expired = FALSE], p, kept, writes[p])
  BY DEF sync_timeout
<1>3. kept \in 0..Len(node.conn[p].out)
  BY <1>1, WithinQueue
<1>4. NodeInv(node') /\ Keeps(node, node')
  BY <1>1, <1>2, <1>3, ReassignOutcome
<1>5. Hangup(from, {"alive", "aborted"}) /\ {"alive", "aborted"} \in SUBSET Writes
  BY DEF sync_timeout, Writes
<1>6. /\ peer' \in [Peers -> Peer] /\ from' \in [Peers -> Seq(ToNode)]
      /\ writes' \in [Peers -> Writes]
  BY <1>1, <1>5, HangupType
<1> QED BY <1>4, <1>6 DEF SyncInv, Keeps, WatchedStep

LEMMA DropStep ==
    ASSUME SyncInv, NEW p \in Peers, Drop(p)
    PROVE  SyncInv' /\ WatchedStep(node, node')
<1>1. /\ NodeInv(node) /\ peer \in [Peers -> Peer] /\ from \in [Peers -> Seq(ToNode)]
      /\ writes \in [Peers -> Writes]
  BY DEF SyncInv
<1>2. /\ node' = close(node, p) /\ Hangup(from, {"alive", "aborted", "stuck"})
      /\ {"alive", "aborted", "stuck"} \in SUBSET Writes
  BY DEF Drop, Writes
<1>3. NodeInv(node') /\ Keeps(node, node')
  BY <1>1, <1>2, CloseOutcome
<1>4. /\ peer' \in [Peers -> Peer] /\ from' \in [Peers -> Seq(ToNode)]
      /\ writes' \in [Peers -> Writes]
  BY <1>1, <1>2, HangupType
<1> QED BY <1>3, <1>4 DEF SyncInv, Keeps, WatchedStep

LEMMA AbortStep ==
    ASSUME SyncInv, NEW p \in Peers, write_aborted(p)
    PROVE  SyncInv' /\ WatchedStep(node, node')
<1>1. NodeInv(node)
  BY DEF SyncInv
<1>2. /\ node' = close(node, p) /\ UNCHANGED <<peer, from>>
      /\ writes' = [writes EXCEPT ![p] = "stuck"]
  BY DEF write_aborted
<1>3. NodeInv(node') /\ Keeps(node, node')
  BY <1>1, <1>2, CloseOutcome
<1>4. writes' \in [Peers -> Writes]
  BY <1>2 DEF SyncInv, Writes
<1> QED BY <1>2, <1>3, <1>4 DEF SyncInv, Keeps, WatchedStep

LEMMA PeerHandshakeType ==
    ASSUME peer \in [Peers -> Peer], from \in [Peers -> Seq(ToNode)], NEW p \in Peers,
           NEW msg \in ToPeer, msg.type = "handshake", PeerRecvHandshake(p, msg)
    PROVE  peer' \in [Peers -> Peer] /\ from' \in [Peers -> Seq(ToNode)]
<1> DEFINE head == peer[p].head
           first == Handshake(head, TRUE)
           hello == IF msg.first /\ ~peer[p].greeted THEN <<first>> ELSE <<>>
           irr == LastIrrCatchUp(head)
           near == CatchUp(head)
           req == Request("catch_up")
<1>1. peer[p] \in Peer /\ head \in Int /\ msg.head \in Int /\ Lag \in Nat
  BY ReadByPeer, SyncAssumption DEF Peer
<1>2. first \in ToNode /\ irr \in ToNode /\ near \in ToNode /\ req \in ToNode
  BY <1>1, MessagesToNode
<1>3. PICK x \in BOOLEAN, msgs \in {<<>>, <<irr>>, <<req>>, <<near>>} :
         /\ peer' = [peer EXCEPT ![p].syncing = x, ![p].greeted = TRUE]
         /\ Send(p, hello \o msgs)
  BY <1>1 DEF PeerRecvHandshake
<1> HIDE DEF head, first, irr, near, req
<1>4. hello \in Seq(ToNode)
  BY <1>2
<1>5. msgs \in Seq(ToNode)
  <2>1. \A y \in ToNode : <<y>> \in Seq(ToNode)
    OBVIOUS
  <2>2. <<>> \in Seq(ToNode)
    OBVIOUS
  <2>3. msgs = <<>> \/ msgs = <<irr>> \/ msgs = <<req>> \/ msgs = <<near>>
    OBVIOUS
  <2> QED BY <1>2, <2>1, <2>2, <2>3, Zenon
<1> HIDE DEF hello
<1>6. hello \o msgs \in Seq(ToNode)
  BY <1>4, <1>5
<1>7. from' \in [Peers -> Seq(ToNode)]
  BY <1>3, <1>6, SendType
<1>8. peer' \in [Peers -> Peer]
  BY <1>1, <1>3 DEF Peer
<1> QED BY <1>7, <1>8

LEMMA PeerFollowsType ==
    ASSUME peer \in [Peers -> Peer], from \in [Peers -> Seq(ToNode)], NEW p \in Peers,
           NEW head \in Int, NEW msgs \in Seq(ToNode), PeerFollows(p, head, msgs)
    PROVE  peer' \in [Peers -> Peer] /\ from' \in [Peers -> Seq(ToNode)]
<1>1. Send(p, msgs) /\ peer' = [peer EXCEPT ![p].head = IF head > @ THEN head ELSE @]
  BY DEF PeerFollows
<1>2. from' \in [Peers -> Seq(ToNode)]
  BY <1>1, SendType
<1>3. peer' \in [Peers -> Peer]
  BY <1>1 DEF Peer
<1> QED BY <1>2, <1>3

LEMMA SyncBlockType ==
    ASSUME peer \in [Peers -> Peer], from \in [Peers -> Seq(ToNode)], NEW p \in Peers,
           NEW last \in Int, NEW end \in Int, enqueue_sync_block(p, last, end)
    PROVE  peer' \in [Peers -> Peer] /\ from' \in [Peers -> Seq(ToNode)]
<1> DEFINE num == last + 1
           s == IF num = end THEN <<>> ELSE <<num, end>>
           msgs == IF num <= peer[p].head THEN <<SignedBlock(num)>> ELSE <<>>
<1>1. num \in Int
  OBVIOUS
<1>2. peer' = [peer EXCEPT ![p].serve = s] /\ Send(p, msgs)
  BY DEF enqueue_sync_block
<1>3. SignedBlock(num) \in ToNode
  BY <1>1, MessagesToNode
<1>4. msgs \in Seq(ToNode)
  BY <1>3
<1> HIDE DEF num
<1>5. s \in {<<>>} \cup (Int \X Int)
  BY <1>1
<1> HIDE DEF s, msgs
<1>6. peer' \in [Peers -> Peer]
  BY <1>2, <1>5 DEF Peer
<1>7. from' \in [Peers -> Seq(ToNode)]
  BY <1>2, <1>4, SendType
<1> QED BY <1>6, <1>7

LEMMA PeerSyncRequestType ==
    ASSUME peer \in [Peers -> Peer], from \in [Peers -> Seq(ToNode)], NEW p \in Peers,
           NEW msg \in ToPeer, msg.type = "sync", PeerRecvSyncRequest(p, msg)
    PROVE  peer' \in [Peers -> Peer] /\ from' \in [Peers -> Seq(ToNode)]
<1>1. msg.start \in Int /\ msg.end \in Int /\ from[p] \in Seq(ToNode)
  BY ReadByPeer
<1>2. CASE msg.end = 0
  <2>1. peer' = [peer EXCEPT ![p].serve = <<>>]
    BY <1>2 DEF PeerRecvSyncRequest
  <2>2. PICK n \in BeingWritten(from[p]) : from' = [from EXCEPT ![p] = SubSeq(@, 1, n)]
    BY <1>2 DEF PeerRecvSyncRequest
  <2>3. n \in 0..Len(from[p])
    BY <1>1, <2>2, WithinQueue
  <2>4. SubSeq(from[p], 1, n) \in Seq(ToNode)
    BY <1>1, <2>3
  <2> QED BY <2>1, <2>2, <2>4 DEF Peer
<1>3. CASE msg.end # 0
  <2>1. enqueue_sync_block(p, msg.start - 1, msg.end)
    BY <1>3 DEF PeerRecvSyncRequest
  <2>2. msg.start - 1 \in Int
    BY <1>1
  <2> QED BY <1>1, <2>1, <2>2, SyncBlockType
<1> QED BY <1>2, <1>3

LEMMA BlocksType ==
    ASSUME NEW h \in Int
    PROVE  Blocks(lib(h) + 1, h) \in Seq(ToNode)
<1> DEFINE b == [i \in 1..Lag |-> SignedBlock(lib(h) + 1 + i - 1)]
<1>1. Lag \in Nat /\ lib(h) \in Int /\ h - (lib(h) + 1) + 1 = Lag
  BY SyncAssumption DEF lib
<1>2. Blocks(lib(h) + 1, h) = b
  BY <1>1 DEF Blocks
<1>3. \A i \in 1..Lag : SignedBlock(lib(h) + 1 + i - 1) \in ToNode
  BY <1>1, MessagesToNode
<1> QED BY <1>1, <1>2, <1>3

LEMMA PeerReceiveStep ==
    ASSUME SyncInv, NEW p \in Peers, PeerReceive(p)
    PROVE  SyncInv' /\ WatchedStep(node, node')
<1> DEFINE msg == Head(node.conn[p].out)
           t == Tail(node.conn[p].out)
           c == [node.conn[p] EXCEPT !.out = t]
<1>1. /\ NodeInv(node) /\ node \in Node /\ node.conn[p] \in Conn
      /\ peer \in [Peers -> Peer] /\ from \in [Peers -> Seq(ToNode)]
  BY Fields DEF SyncInv, NodeInv
<1>2. node.conn[p].out \in Seq(ToPeer) /\ node.conn[p].out # <<>>
  BY <1>1 DEF Conn, PeerReceive
<1>3. msg \in ToPeer /\ t \in Seq(ToPeer)
  BY <1>2
<1>4. node' = [node EXCEPT !.conn[p].out = t]
  BY DEF PeerReceive
<1>5. \/ msg.type = "handshake" /\ PeerRecvHandshake(p, msg)
      \/ msg.type = "sync" /\ PeerRecvSyncRequest(p, msg)
      \/ /\ peer' = [peer EXCEPT ![p].syncing = FALSE]
         /\ Send(p, Blocks(lib(peer[p].head) + 1, peer[p].head))
      \/ peer' = [peer EXCEPT ![p].syncing = FALSE] /\ UNCHANGED from
      \/ PeerFollows(p, 0, <<Request("catch_up")>>)
      \/ msg.type = "branch" /\ PeerFollows(p, msg.head, <<>>)
      \/ msg.type = "last_irr" /\ PeerFollows(p, msg.head, <<>>)
      \/ msg.type = "last_irr" /\ PeerFollows(p, msg.head, <<Handshake(msg.head, FALSE)>>)
  BY DEF PeerReceive, PeerSynced
<1> HIDE DEF msg, t
<1>6. c \in Conn /\ c.wait = node.conn[p].wait /\ c.expired = node.conn[p].expired
  BY <1>1, <1>3 DEF Conn
<1>7. node' = [node EXCEPT !.conn[p] = c]
  BY <1>1, <1>4 DEF Node, Conn
<1> HIDE DEF c
<1>8. NodeInv(node') /\ Quiet(node, node')
  BY <1>1, <1>6, <1>7, ConnQuiet
<1>9. Keeps(node, node')
  BY <1>1, <1>8, QuietKeeps DEF NodeInv
<1>10. peer[p].head \in Int
  BY <1>1 DEF Peer
<1>11. peer' \in [Peers -> Peer] /\ from' \in [Peers -> Seq(ToNode)]
  <2>1. CASE msg.type = "handshake" /\ PeerRecvHandshake(p, msg)
    BY <1>1, <1>3, <2>1, PeerHandshakeType
  <2>2. CASE msg.type = "sync" /\ PeerRecvSyncRequest(p, msg)
    BY <1>1, <1>3, <2>2, PeerSyncRequestType
  <2>3. CASE /\ peer' = [peer EXCEPT ![p].syncing = FALSE]
             /\ Send(p, Blocks(lib(peer[p].head) + 1, peer[p].head))
    <3>1. peer' \in [Peers -> Peer]
      BY <1>1, <2>3 DEF Peer
    <3>2. Blocks(lib(peer[p].head) + 1, peer[p].head) \in Seq(ToNode)
      BY <1>10, BlocksType
    <3> QED BY <1>1, <2>3, <3>1, <3>2, SendType
  <2>4. CASE peer' = [peer EXCEPT ![p].syncing = FALSE] /\ UNCHANGED from
    BY <1>1, <2>4 DEF Peer
  <2>5. CASE PeerFollows(p, 0, <<Request("catch_up")>>)
    <3>1. Request("catch_up") \in ToNode
      BY MessagesToNode
    <3> DEFINE r == Request("catch_up")
               z == 0
    <3>2. z \in Int /\ r \in ToNode /\ PeerFollows(p, z, <<r>>)
      BY <2>5, <3>1
    <3> HIDE DEF r, z
    <3>3. <<r>> \in Seq(ToNode)
      BY <3>2
    <3> QED BY <1>1, <3>2, <3>3, PeerFollowsType
  <2>6. CASE msg.type \in {"branch", "last_irr"} /\ PeerFollows(p, msg.head, <<>>)
    <3>1. msg.head \in Int /\ <<>> \in Seq(ToNode)
      BY <1>3, <2>6, ReadByPeer
    <3> QED BY <1>1, <2>6, <3>1, PeerFollowsType
  <2>7. CASE msg.type = "last_irr" /\ PeerFollows(p, msg.head, <<Handshake(msg.head, FALSE)>>)
    <3>1. msg.head \in Int
      BY <1>3, <2>7, ReadByPeer
    <3> DEFINE r == Handshake(msg.head, FALSE)
    <3>2. r \in ToNode /\ PeerFollows(p, msg.head, <<r>>)
      BY <2>7, <3>1, MessagesToNode
    <3> HIDE DEF r
    <3>3. <<r>> \in Seq(ToNode)
      BY <3>2
    <3> QED BY <1>1, <3>1, <3>2, <3>3, PeerFollowsType
  <2> QED BY <1>5, <2>1, <2>2, <2>3, <2>4, <2>5, <2>6, <2>7
<1>12. UNCHANGED writes
  BY DEF PeerReceive
<1> QED BY <1>8, <1>9, <1>11, <1>12 DEF SyncInv, Keeps, WatchedStep

LEMMA ServeStep ==
    ASSUME SyncInv, NEW p \in Peers, PeerWrote(p)
    PROVE  SyncInv' /\ WatchedStep(node, node')
<1>1. peer \in [Peers -> Peer] /\ from \in [Peers -> Seq(ToNode)] /\ peer[p] \in Peer
  BY DEF SyncInv
<1>2. peer[p].serve \in Int \X Int
  BY <1>1 DEF Peer, PeerWrote
<1>3. /\ enqueue_sync_block(p, peer[p].serve[1], peer[p].serve[2])
      /\ UNCHANGED <<node, writes>>
  BY DEF PeerWrote
<1>4. peer[p].serve[1] \in Int /\ peer[p].serve[2] \in Int
  BY <1>2
<1>5. peer' \in [Peers -> Peer] /\ from' \in [Peers -> Seq(ToNode)]
  BY <1>1, <1>3, <1>4, SyncBlockType
<1> QED BY <1>3, <1>5 DEF SyncInv, WatchedStep

LEMMA AdvanceStep ==
    ASSUME SyncInv, NEW p \in Peers, PeerAdvances(p)
    PROVE  SyncInv' /\ WatchedStep(node, node')
<1> DEFINE head == peer[p].head + 1
           b == SignedBlock(head)
           h == Handshake(head, FALSE)
<1>1. peer \in [Peers -> Peer] /\ from \in [Peers -> Seq(ToNode)] /\ head \in Int
  BY DEF SyncInv, Peer
<1>2. b \in ToNode /\ h \in ToNode
  BY <1>1, MessagesToNode
<1>3. UNCHANGED <<node, writes>>
  BY DEF PeerAdvances
<1>4. /\ peer' = [peer EXCEPT ![p].head = head]
      /\ \/ \E greeting \in {<<>>, <<h>>} : Send(p, <<b>> \o greeting)
         \/ UNCHANGED from
  BY DEF PeerAdvances
<1> HIDE DEF head, b, h
<1>5. from' \in [Peers -> Seq(ToNode)]
  <2>1. ASSUME NEW greeting \in {<<>>, <<h>>}, Send(p, <<b>> \o greeting)
        PROVE  from' \in [Peers -> Seq(ToNode)]
    <3>1. greeting \in Seq(ToNode) /\ <<b>> \in Seq(ToNode)
      <4>1. <<h>> \in Seq(ToNode) /\ <<b>> \in Seq(ToNode)
        BY <1>2
      <4>2. <<>> \in Seq(ToNode)
        OBVIOUS
      <4> QED BY <4>1, <4>2, Zenon
    <3>2. <<b>> \o greeting \in Seq(ToNode)
      BY <3>1
    <3> QED BY <1>1, <2>1, <3>2, SendType
  <2> QED BY <1>1, <1>4, <2>1
<1>6. peer' \in [Peers -> Peer]
  BY <1>1, <1>4 DEF Peer
<1> QED BY <1>3, <1>5, <1>6 DEF SyncInv, WatchedStep

LEMMA StepInv ==
    ASSUME SyncInv, [Next]_vars
    PROVE  SyncInv' /\ WatchedStep(node, node')
<1>1. CASE Next
  <2>1. PICK p \in Peers : \/ connect(p) \/ Receive(p) \/ Drop(p) \/ write_aborted(p)
                           \/ TimerExpires(p) \/ sync_timeout(p)
                           \/ PeerReceive(p) \/ PeerWrote(p) \/ PeerAdvances(p)
    BY <1>1 DEF Next
  <2> QED BY <2>1, ConnectStep, ReceiveStep, DropStep, AbortStep, ExpireStep, TimeoutStep,
             PeerReceiveStep, ServeStep, AdvanceStep
<1>2. CASE UNCHANGED vars
  BY <1>2 DEF vars, SyncInv, WatchedStep
<1> QED BY <1>1, <1>2

-----------------------------------------------------------------------------
(***************************************************************************)
(* The inductive invariant of sync_manager: what was requested is not      *)
(* above what is known to exist, the block expected next links to head or  *)
(* is below it while catching up, a source is kept in sync only if nothing *)
(* is missing, and messages and records have their types.                  *)
(***************************************************************************)
THEOREM SyncInductive == Spec => []SyncInv
BY InitInv, StepInv, PTL DEF Spec

(***************************************************************************)
(* recv_block: while the node catches up it never expects a block beyond   *)
(* the one after its head, whatever was requested twice, cancelled or      *)
(* delivered late, and from whichever peer a block comes.                  *)
(***************************************************************************)
THEOREM LeavesNoHole == Spec => []NoHole
<1>1. SyncInv => NoHole
  BY DEF SyncInv, NodeInv, NoHole
<1> QED BY <1>1, SyncInductive, PTL

(***************************************************************************)
(* request_sync_blocks, recv_block, sync_timeout: a request stays watched  *)
(* by the timer of its source, running or with its handler queued, except  *)
(* where request_next_chunk takes another source and asks it for nothing.  *)
(***************************************************************************)
THEOREM StaysWatched == Spec => Watched
<1> DEFINE Step == Unfilled(node') /\ ~Timed(node') /\ ~node'.spins =>
                      /\ node'.last_requested = node.last_requested
                      /\ \/ Unfilled(node) /\ ~Timed(node)
                         \/ /\ node'.source # node.source
                            /\ node'.last_requested = node'.known_lib
<1>1. ASSUME SyncInv, [Next]_vars
      PROVE  [Step]_vars
  <2>1. WatchedStep(node, node')
    BY <1>1, StepInv
  <2> QED BY <2>1 DEF WatchedStep, Unwatched
<1>2. Spec => [][Step]_vars
  BY <1>1, SyncInductive, PTL DEF Spec
<1> QED BY <1>2 DEF Watched

=============================================================================
