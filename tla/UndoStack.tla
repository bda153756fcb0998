------------------------------ MODULE UndoStack ------------------------------
(***************************************************************************)
(* The undo stack of one chainbase index (generic_index): objects with an  *)
(* id and a unique key, and for every open session the differences needed  *)
(* to go back: the old values of what was modified, the values of what was *)
(* removed, and the ids of what was created.                               *)
(*                                                                         *)
(* The variable saved is history: the state at the start of each session,  *)
(* which the code does not keep. It is what undo has to restore.           *)
(***************************************************************************)
EXTENDS Integers, Sequences, Functions

CONSTANTS Keys,        \* values of an object's unique key
          Data,        \* values of the rest of an object
          MaxId,       \* bound: ids handed out
          MaxDepth,    \* bound: open sessions
          MaxRevision  \* bound: session numbers

ASSUME BoundsAssumption ==
  MaxId \in Nat /\ MaxDepth \in Nat /\ MaxRevision \in Nat

VARIABLES indices,   \* the objects, by id (_indices)
          next_id,   \* _next_id
          stack,     \* _stack, oldest session first
          revision,  \* _revision
          thrown,    \* undo met a violated uniqueness constraint
          saved      \* history: [indices, next_id] at the start of each session

vars == <<indices, next_id, stack, revision, thrown, saved>>

Ids == 0..(MaxId - 1)
Values == [key : Keys, data : Data]
Empty == [i \in {} |-> 0]
Over(f, g) == [i \in DOMAIN f \union DOMAIN g |-> IF i \in DOMAIN f THEN f[i] ELSE g[i]]
Without(f, S) == Restrict(f, DOMAIN f \ S)
Single(i, v) == [j \in {i} |-> v]

enabled == stack # <<>>
Top == Len(stack)

Init ==
  /\ indices = Empty
  /\ next_id = 0
  /\ stack = <<>>
  /\ revision = 0
  /\ thrown = FALSE
  /\ saved = <<>>
------------------------------------------------------------------------------
(* What a session records.                                                  *)

on_create(s, i) == [s EXCEPT !.new_ids = @ \union {i}]

\* Mutant of on_modify: keeps the latest old value instead of the first
OverwriteOld(s, i) ==
  IF i \in s.new_ids
  THEN s
  ELSE [s EXCEPT !.old_values = Over(Single(i, indices[i]), @)]

on_modify(s, i) ==
  IF i \in s.new_ids \/ i \in DOMAIN s.old_values
  THEN s
  ELSE [s EXCEPT !.old_values = Over(@, Single(i, indices[i]))]

on_remove(s, i) ==
  IF i \in s.new_ids
  THEN [s EXCEPT !.new_ids = @ \ {i}]
  ELSE IF i \in DOMAIN s.old_values
  THEN [s EXCEPT !.removed_values = Over(@, Single(i, s.old_values[i])),
                 !.old_values = Without(@, {i})]
  ELSE IF i \in DOMAIN s.removed_values
  THEN s
  ELSE [s EXCEPT !.removed_values = Over(@, Single(i, indices[i]))]

Record(On(_, _), i) ==
  stack' = IF enabled THEN [stack EXCEPT ![Top] = On(@, i)] ELSE stack

KeyFree(objs, k) == \A i \in DOMAIN objs : objs[i].key # k

\* Mutant of emplace: skips an id
SkipId(v) ==
  /\ next_id < MaxId
  /\ KeyFree(indices, v.key)
  /\ indices' = Over(indices, Single(next_id, v))
  /\ next_id' = next_id + 2
  /\ Record(on_create, next_id)
  /\ UNCHANGED <<revision, thrown, saved>>

\* Inserting an object whose key is taken throws and changes nothing.
emplace(v) ==
  /\ next_id < MaxId
  /\ KeyFree(indices, v.key)
  /\ indices' = Over(indices, Single(next_id, v))
  /\ next_id' = next_id + 1
  /\ Record(on_create, next_id)
  /\ UNCHANGED <<revision, thrown, saved>>

\* key stands for the part of the unique keys that no modify changes.  Where
\* the chain modifies another part (linkauth the required_permission, contracts
\* a secondary key), the unchanged part is unique by itself, so no modify meets
\* a taken key, and the throw for one is left out.
modify(i, d) ==
  /\ i \in DOMAIN indices
  /\ indices' = [indices EXCEPT ![i].data = d]
  /\ Record(on_modify, i)
  /\ UNCHANGED <<next_id, revision, thrown, saved>>

remove(i) ==
  /\ i \in DOMAIN indices
  /\ indices' = Without(indices, {i})
  /\ Record(on_remove, i)
  /\ UNCHANGED <<next_id, revision, thrown, saved>>
------------------------------------------------------------------------------
(* Sessions.                                                                *)

start_undo_session ==
  /\ Top < MaxDepth /\ revision < MaxRevision
  /\ stack' = Append(stack, [old_values |-> Empty, removed_values |-> Empty,
                             new_ids |-> {}, old_next_id |-> next_id,
                             revision |-> revision + 1])
  /\ revision' = revision + 1
  /\ saved' = Append(saved, [indices |-> indices, next_id |-> next_id])
  /\ UNCHANGED <<indices, next_id, thrown>>

\* The three loops of undo, in the order of the code.
RestoreOld(s, objs) == [i \in DOMAIN objs |->
                          IF i \in DOMAIN s.old_values THEN s.old_values[i] ELSE objs[i]]
EraseNew(s, objs) == Without(objs, s.new_ids)
RestoreRemoved(s, objs) == Over(s.removed_values, objs)
Undone(s, objs) == RestoreRemoved(s, EraseNew(s, RestoreOld(s, objs)))

\* Old values are restored one by one in the order of their ids, while the
\* objects with higher ids still have their new values.
HalfRestored(s, objs, i) ==
  [j \in DOMAIN objs \ {i} |->
     IF j \in DOMAIN s.old_values /\ j < i THEN s.old_values[j] ELSE objs[j]]
OldFits(s, objs) ==
  \A i \in DOMAIN s.old_values :
    i \in DOMAIN objs /\ KeyFree(HalfRestored(s, objs, i), s.old_values[i].key)
RemovedFits(s, objs) ==
  \A i \in DOMAIN s.removed_values :
    /\ i \notin DOMAIN objs
    /\ KeyFree(Over(Without(s.removed_values, {i}), objs), s.removed_values[i].key)
\* Mutant of UndoFits: inserts what was removed before it erases what is new
RemovedFirst(s, objs) ==
  /\ OldFits(s, objs)
  /\ s.new_ids \subseteq DOMAIN objs
  /\ RemovedFits(s, RestoreOld(s, objs))

UndoFits(s, objs) ==
  /\ OldFits(s, objs)
  /\ s.new_ids \subseteq DOMAIN objs
  /\ RemovedFits(s, EraseNew(s, RestoreOld(s, objs)))

\* (undo_all is this action until the stack is empty.)
undo ==
  /\ enabled
  /\ IF UndoFits(stack[Top], indices)
     THEN /\ indices' = Undone(stack[Top], indices)
          /\ next_id' = stack[Top].old_next_id
          /\ stack' = SubSeq(stack, 1, Top - 1)
          /\ revision' = revision - 1
          /\ saved' = SubSeq(saved, 1, Top - 1)
          /\ UNCHANGED thrown
     ELSE thrown' = TRUE /\ UNCHANGED <<indices, next_id, stack, revision, saved>>

\* The differences of the newer session s merged into those of the older one p.
MergedOld(p, s) ==
  Over(p.old_values, Without(s.old_values, p.new_ids))
MergedNew(p, s) == p.new_ids \union s.new_ids
WasOld(p, s) == (DOMAIN s.removed_values \intersect DOMAIN MergedOld(p, s)) \ MergedNew(p, s)
Merged(p, s) ==
  [p EXCEPT !.old_values = Without(MergedOld(p, s), WasOld(p, s)),
            !.new_ids = MergedNew(p, s) \ DOMAIN s.removed_values,
            !.removed_values = Over(@, Over(Restrict(MergedOld(p, s), WasOld(p, s)),
                                            Without(s.removed_values, MergedNew(p, s))))]

\* The only session is dropped without giving its revision back.
squash ==
  /\ enabled
  /\ IF Top = 1
     THEN stack' = <<>> /\ UNCHANGED revision
     ELSE /\ stack' = [SubSeq(stack, 1, Top - 1) EXCEPT ![Top - 1] = Merged(@, stack[Top])]
          /\ revision' = revision - 1
  /\ saved' = SubSeq(saved, 1, Top - 1)
  /\ UNCHANGED <<indices, next_id, thrown>>

\* Mutant of commit: keeps the session with revision r
CommitBefore(r) ==
  /\ \E k \in 0..Top :
       /\ \A i \in 1..k : stack[i].revision < r
       /\ k < Top => stack[k + 1].revision >= r
       /\ stack' = SubSeq(stack, k + 1, Top)
       /\ saved' = SubSeq(saved, k + 1, Top)
  /\ UNCHANGED <<indices, next_id, revision, thrown>>

\* pop_front while the oldest session is not newer than r
commit(r) ==
  /\ \E k \in 0..Top :
       /\ \A i \in 1..k : stack[i].revision <= r
       /\ k < Top => stack[k + 1].revision > r
       /\ stack' = SubSeq(stack, k + 1, Top)
       /\ saved' = SubSeq(saved, k + 1, Top)
  /\ UNCHANGED <<indices, next_id, revision, thrown>>

set_revision(r) ==
  /\ ~enabled
  /\ revision' = r
  /\ UNCHANGED <<indices, next_id, stack, thrown, saved>>

Next ==
  \/ \E v \in Values : emplace(v)
  \/ \E i \in Ids, d \in Data : modify(i, d)
  \/ \E i \in Ids : remove(i)
  \/ start_undo_session
  \/ undo
  \/ squash
  \/ \E r \in 0..MaxRevision : commit(r) \/ set_revision(r)

Spec == Init /\ [][Next]_vars
------------------------------------------------------------------------------
SessionStates ==
  [old_values : UNION {[I -> Values] : I \in SUBSET Ids},
   removed_values : UNION {[I -> Values] : I \in SUBSET Ids},
   new_ids : SUBSET Ids, old_next_id : 0..MaxId, revision : Int]

\* Objects, sessions and counters have their types.
TypeOK ==
  /\ indices \in UNION {[I -> Values] : I \in SUBSET Ids}
  /\ next_id \in 0..MaxId
  /\ stack \in Seq(SessionStates)
  /\ revision \in Int
  /\ thrown \in BOOLEAN
  /\ Len(saved) = Len(stack)

\* The objects at the end of session i: those at the start of the next one.
ObjectsAt(i) == IF i = Top THEN indices ELSE saved[i + 1].indices

\* Undoing session after session gives back, for each, exactly the objects and
\* the next id it began with, whatever was created, modified, removed, squashed
\* and committed since (generic_index::undo, squash, on_modify, on_remove).
Restores ==
  \A i \in 1..Top : /\ Undone(stack[i], ObjectsAt(i)) = saved[i].indices
                    /\ stack[i].old_next_id = saved[i].next_id

\* undo never meets a key that is still taken, nor an object that is not there:
\* it runs in destructors, where an exception ends the program.
UndoNeverThrows == ~thrown

Snap == INSTANCE Snapshots WITH
          state <- [indices |-> indices, next_id |-> next_id],
          Revisions <- 0..MaxRevision

\* The stack of differences implements the stack of snapshots: undo and squash
\* act on the newest session, commit(r) on exactly those up to the revision the
\* caller names, and the revision numbers count the open sessions
\* (generic_index::undo, squash, commit).
ImplementsSnapshots ==
  /\ Snap!Spec
  /\ [][\A r \in 0..MaxRevision : commit(r) => Snap!Commit(r)]_vars
==============================================================================
