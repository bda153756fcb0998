------------------------------ MODULE Snapshots ------------------------------
(***************************************************************************)
(* What chainbase promises its users: a state, and a stack of the states   *)
(* at which the open undo sessions began. Ending a session either goes     *)
(* back to its snapshot, or keeps the state and forgets a snapshot.        *)
(* UndoStack, which keeps differences instead of snapshots, implements it. *)
(***************************************************************************)
EXTENDS Integers, Sequences

CONSTANT Revisions   \* the numbers commit and set_revision are called with

VARIABLES state,     \* the objects of the database and the next free id
          revision,  \* number of the newest session
          saved      \* the state at the start of each open session, oldest first

vars == <<state, revision, saved>>

Init == revision = 0 /\ saved = <<>>

\* The snapshot at position i belongs to the session with this number.
RevisionOf(i) == revision - Len(saved) + i

Write == state' # state /\ UNCHANGED <<revision, saved>>

Start ==
  /\ saved' = Append(saved, state)
  /\ revision' = revision + 1
  /\ UNCHANGED state

Undo ==
  /\ saved # <<>>
  /\ state' = saved[Len(saved)]
  /\ saved' = SubSeq(saved, 1, Len(saved) - 1)
  /\ revision' = revision - 1

\* The newest session becomes part of the one before it; the only session is
\* given up without giving its number back.
Squash ==
  /\ saved # <<>>
  /\ saved' = SubSeq(saved, 1, Len(saved) - 1)
  /\ revision' = IF Len(saved) = 1 THEN revision ELSE revision - 1
  /\ UNCHANGED state

\* No session up to revision r can be undone any more, every later one can.
Commit(r) ==
  /\ \E k \in 0..Len(saved) :
       /\ \A i \in 1..Len(saved) : i <= k <=> RevisionOf(i) <= r
       /\ saved' = SubSeq(saved, k + 1, Len(saved))
  /\ UNCHANGED <<state, revision>>

SetRevision(r) ==
  /\ saved = <<>>
  /\ revision' = r
  /\ UNCHANGED <<state, saved>>

Next ==
  \/ Write
  \/ Start
  \/ Undo
  \/ Squash
  \/ \E r \in Revisions : Commit(r) \/ SetRevision(r)

Spec == Init /\ [][Next]_vars
==============================================================================
