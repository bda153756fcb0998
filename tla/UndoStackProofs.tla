--------------------------- MODULE UndoStackProofs ---------------------------
(***************************************************************************)
(* Proofs about UndoStack, for all keys, data, depths and numbers of ids:  *)
(* undo gives back what a session began with, never throws, and the stack  *)
(* of differences implements the stack of snapshots.                       *)
(*                                                                         *)
(* The invariant relates every session to two states: the one it began     *)
(* with and the one the next session began with (or the current one).      *)
(***************************************************************************)
EXTENDS UndoStack, SequenceTheorems, TLAPS

\* Objects by id, and no key twice.
IsObjects(f) == DOMAIN f \subseteq Ids /\ f \in [DOMAIN f -> Values]
UniqueKeys(f) == \A i, j \in DOMAIN f : f[i].key = f[j].key => i = j

\* A state of the index: its objects A and its next id n.
IsState(A, n) ==
  /\ IsObjects(A) /\ UniqueKeys(A)
  /\ n \in 0..MaxId
  /\ \A i \in DOMAIN A : i < n

\* Session s holds the differences between the state (A, na) it began with and
\* the later state (B, nb).
Records(s, A, na, B, nb) ==
  /\ s.new_ids = DOMAIN B \ DOMAIN A
  /\ DOMAIN s.removed_values = DOMAIN A \ DOMAIN B
  /\ \A i \in DOMAIN s.removed_values : s.removed_values[i] = A[i]
  /\ DOMAIN s.old_values \subseteq DOMAIN A \cap DOMAIN B
  /\ \A i \in DOMAIN s.old_values : s.old_values[i] = A[i]
  /\ \A i \in DOMAIN A \cap DOMAIN B : /\ A[i].key = B[i].key
                                       /\ i \notin DOMAIN s.old_values => A[i] = B[i]
  /\ s.old_next_id = na
  /\ na <= nb
  /\ \A i \in DOMAIN B \ DOMAIN A : na <= i

\* A session's type, its maps being objects by id.
IsSession(s) ==
  /\ s = [old_values |-> s.old_values, removed_values |-> s.removed_values,
          new_ids |-> s.new_ids, old_next_id |-> s.old_next_id, revision |-> s.revision]
  /\ IsObjects(s.old_values) /\ IsObjects(s.removed_values)
  /\ s.new_ids \subseteq Ids /\ s.old_next_id \in 0..MaxId /\ s.revision \in Int
-----------------------------------------------------------------------------
(***************************************************************************)
(* The operations of one session.                                          *)
(***************************************************************************)

LEMMA ObjectsType ==
    ASSUME NEW f
    PROVE  f \in UNION {[I -> Values] : I \in SUBSET Ids} <=> IsObjects(f)
<1>1. ASSUME f \in UNION {[I -> Values] : I \in SUBSET Ids} PROVE IsObjects(f)
  <2>1. PICK I \in SUBSET Ids : f \in [I -> Values]
    BY <1>1
  <2> QED BY <2>1 DEF IsObjects
<1>2. ASSUME IsObjects(f) PROVE f \in UNION {[I -> Values] : I \in SUBSET Ids}
  <2>1. DOMAIN f \in SUBSET Ids /\ f \in [DOMAIN f -> Values]
    BY <1>2 DEF IsObjects
  <2> QED BY <2>1, Zenon
<1> QED BY <1>1, <1>2

LEMMA SessionType ==
    ASSUME NEW s
    PROVE  s \in SessionStates <=> IsSession(s)
  BY ObjectsType DEF SessionStates, IsSession

\* undo: the session gives back exactly the objects it began with, and on the
\* way no key is taken and no object missing.
LEMMA UndoRestores ==
    ASSUME NEW s, NEW A, NEW na, NEW B, NEW nb,
           IsState(A, na), IsState(B, nb), Records(s, A, na, B, nb)
    PROVE  Undone(s, B) = A /\ UndoFits(s, B)
<1> DEFINE R == RestoreOld(s, B)
           E == EraseNew(s, R)
<1>0. /\ A = [i \in DOMAIN A |-> A[i]] /\ B = [i \in DOMAIN B |-> B[i]]
      /\ UniqueKeys(A) /\ UniqueKeys(B)
  BY DEF IsState, IsObjects
<1>1. DOMAIN R = DOMAIN B /\ \A i \in DOMAIN A \cap DOMAIN B : R[i] = A[i]
  BY DEF Records, RestoreOld
<1>2. E = [i \in DOMAIN A \cap DOMAIN B |-> A[i]]
  <2>1. DOMAIN R \ s.new_ids = DOMAIN A \cap DOMAIN B
    BY <1>1 DEF Records
  <2>2. E = [i \in DOMAIN R \ s.new_ids |-> R[i]]
    BY DEF EraseNew, Without, Restrict
  <2> HIDE DEF R, E
  <2> QED BY <1>1, <2>1, <2>2
<1>3. Undone(s, B) = A
  <2>1. Undone(s, B) = Over(s.removed_values, E)
    BY DEF Undone, RestoreRemoved
  <2>2. DOMAIN s.removed_values \cup DOMAIN E = DOMAIN A
    BY <1>2 DEF Records
  <2>3. \A i \in DOMAIN A : (IF i \in DOMAIN s.removed_values THEN s.removed_values[i] ELSE E[i]) = A[i]
    BY <1>2 DEF Records
  <2> HIDE DEF E
  <2> QED BY <1>0, <2>1, <2>2, <2>3 DEF Over
<1>4. OldFits(s, B)
  <2> SUFFICES ASSUME NEW i \in DOMAIN s.old_values
               PROVE  i \in DOMAIN B /\ KeyFree(HalfRestored(s, B, i), s.old_values[i].key)
    BY DEF OldFits
  <2>1. i \in DOMAIN A \cap DOMAIN B /\ s.old_values[i].key = B[i].key
    BY DEF Records
  <2>2. ASSUME NEW j \in DOMAIN B \ {i}
        PROVE  HalfRestored(s, B, i)[j].key = B[j].key
    BY DEF Records, HalfRestored
  <2>3. DOMAIN HalfRestored(s, B, i) = DOMAIN B \ {i}
    BY DEF HalfRestored
  <2> QED BY <1>0, <2>1, <2>2, <2>3 DEF KeyFree, UniqueKeys
<1>5. s.new_ids \subseteq DOMAIN B
  BY DEF Records
<1>6. RemovedFits(s, E)
  <2> SUFFICES ASSUME NEW i \in DOMAIN s.removed_values
               PROVE  /\ i \notin DOMAIN E
                      /\ KeyFree(Over(Without(s.removed_values, {i}), E), s.removed_values[i].key)
    BY DEF RemovedFits
  <2> DEFINE W == Without(s.removed_values, {i})
             O == Over(W, E)
  <2>1. /\ DOMAIN W = (DOMAIN A \ DOMAIN B) \ {i}
        /\ \A j \in DOMAIN W : W[j] = A[j]
    BY DEF Records, Without, Restrict
  <2>2. DOMAIN O = DOMAIN W \cup DOMAIN E /\ \A j \in DOMAIN O : O[j] = A[j]
    <3> HIDE DEF W, E
    <3> QED BY <1>2, <2>1 DEF Over
  <2>3. i \in DOMAIN A /\ s.removed_values[i] = A[i] /\ i \notin DOMAIN E /\ i \notin DOMAIN W
    BY <1>2, <2>1 DEF Records
  <2>4. DOMAIN O \subseteq DOMAIN A
    BY <1>2, <2>1, <2>2
  <2> HIDE DEF O, E, W
  <2>5. KeyFree(O, A[i].key)
    BY <1>0, <2>2, <2>3, <2>4 DEF KeyFree, UniqueKeys
  <2> QED BY <2>3, <2>5 DEF O, W
<1> QED BY <1>3, <1>4, <1>5, <1>6 DEF UndoFits

\* emplace: the new object is recorded, and the objects stay well formed.
LEMMA CreateRecords ==
    ASSUME NEW B, NEW nb, IsState(B, nb), nb < MaxId,
           NEW v \in Values, KeyFree(B, v.key)
    PROVE  LET C == Over(B, Single(nb, v)) IN
           /\ IsState(C, nb + 1)
           /\ \A s, A, na : IsState(A, na) /\ IsSession(s) /\ Records(s, A, na, B, nb) =>
                 /\ IsSession(on_create(s, nb))
                 /\ on_create(s, nb).revision = s.revision
                 /\ Records(on_create(s, nb), A, na, C, nb + 1)
<1> DEFINE C == Over(B, Single(nb, v))
<1>0. /\ nb \in Nat /\ nb + 1 \in 0..MaxId /\ nb \in Ids /\ nb \notin DOMAIN B
      /\ DOMAIN B \subseteq Ids /\ \A i \in Ids : i \in Int
      /\ \A i \in DOMAIN B : B[i] \in Values /\ i < nb
  BY BoundsAssumption DEF IsState, IsObjects, Ids
<1>1. /\ DOMAIN C = DOMAIN B \cup {nb}
      /\ \A i \in DOMAIN B : C[i] = B[i]
      /\ C[nb] = v
      /\ C = [i \in DOMAIN C |-> C[i]]
  BY <1>0 DEF Over, Single
<1> HIDE DEF C
<1>2. IsState(C, nb + 1)
  <2>1. IsObjects(C)
    BY <1>0, <1>1 DEF IsObjects
  <2>2. UniqueKeys(C)
    BY <1>0, <1>1 DEF UniqueKeys, KeyFree, IsState
  <2>3. \A i \in DOMAIN C : i < nb + 1
    BY <1>0, <1>1
  <2> QED BY <1>0, <2>1, <2>2, <2>3 DEF IsState
<1>3. ASSUME NEW s, NEW A, NEW na, IsState(A, na), IsSession(s), Records(s, A, na, B, nb)
      PROVE  /\ IsSession(on_create(s, nb))
             /\ on_create(s, nb).revision = s.revision
             /\ Records(on_create(s, nb), A, na, C, nb + 1)
  <2>1. on_create(s, nb) = [old_values |-> s.old_values, removed_values |-> s.removed_values,
                            new_ids |-> s.new_ids \cup {nb}, old_next_id |-> s.old_next_id,
                            revision |-> s.revision]
    BY <1>3 DEF IsSession, on_create
  <2>2. na \in Int /\ na <= nb /\ nb \notin DOMAIN A
    <3>1. na \in 0..MaxId /\ (\A i \in DOMAIN A : i < na) /\ DOMAIN A \subseteq Ids /\ na <= nb
      BY <1>3 DEF IsState, IsObjects, Records
    <3> QED BY <1>0, <3>1, BoundsAssumption
  <2>3. IsSession(on_create(s, nb))
    BY <1>0, <1>3, <2>1 DEF IsSession
  <2>4. Records(on_create(s, nb), A, na, C, nb + 1)
    BY <1>0, <1>1, <1>3, <2>1, <2>2 DEF Records
  <2> QED BY <2>1, <2>3, <2>4
<1> QED BY <1>2, <1>3 DEF C

\* modify: the first old value is kept, later ones are not.
LEMMA ModifyRecords ==
    ASSUME NEW B, NEW nb, IsState(B, nb), indices = B,
           NEW i \in DOMAIN B, NEW d \in Data
    PROVE  LET C == [B EXCEPT ![i].data = d] IN
           /\ IsState(C, nb)
           /\ \A s, A, na : IsState(A, na) /\ IsSession(s) /\ Records(s, A, na, B, nb) =>
                 /\ IsSession(on_modify(s, i))
                 /\ on_modify(s, i).revision = s.revision
                 /\ Records(on_modify(s, i), A, na, C, nb)
<1> DEFINE C == [B EXCEPT ![i].data = d]
<1>0. /\ B = [j \in DOMAIN B |-> B[j]] /\ DOMAIN B \subseteq Ids
      /\ \A j \in DOMAIN B : B[j] \in Values
  BY DEF IsState, IsObjects
<1>1. /\ DOMAIN C = DOMAIN B /\ C = [j \in DOMAIN C |-> C[j]]
      /\ \A j \in DOMAIN B : C[j] \in Values /\ C[j].key = B[j].key
      /\ \A j \in DOMAIN B \ {i} : C[j] = B[j]
  <2>1. PICK v \in Values : v = B[i]
    BY <1>0
  <2>2. [v EXCEPT !.data = d] = [key |-> v.key, data |-> d]
    BY DEF Values
  <2>3. [key |-> v.key, data |-> d] \in Values
    BY DEF Values
  <2> QED BY <1>0, <2>1, <2>2, <2>3
<1> HIDE DEF C
<1>2. IsState(C, nb)
  BY <1>0, <1>1 DEF IsState, IsObjects, UniqueKeys
<1>3. ASSUME NEW s, NEW A, NEW na, IsState(A, na), IsSession(s), Records(s, A, na, B, nb)
      PROVE  /\ IsSession(on_modify(s, i))
             /\ on_modify(s, i).revision = s.revision
             /\ Records(on_modify(s, i), A, na, C, nb)
  <2>1. CASE i \in s.new_ids \/ i \in DOMAIN s.old_values
    <3>1. on_modify(s, i) = s
      BY <2>1 DEF on_modify
    <3> QED BY <1>1, <1>3, <2>1, <3>1 DEF Records
  <2>2. CASE ~ (i \in s.new_ids \/ i \in DOMAIN s.old_values)
    <3> DEFINE old == Over(s.old_values, Single(i, B[i]))
    <3>1. on_modify(s, i) = [old_values |-> old, removed_values |-> s.removed_values,
                             new_ids |-> s.new_ids, old_next_id |-> s.old_next_id,
                             revision |-> s.revision]
      BY <1>3, <2>2 DEF IsSession, on_modify
    <3>2. /\ DOMAIN old = DOMAIN s.old_values \cup {i} /\ old = [j \in DOMAIN old |-> old[j]]
          /\ \A j \in DOMAIN s.old_values : old[j] = s.old_values[j]
          /\ old[i] = B[i]
      BY <2>2 DEF Over, Single
    <3>3. i \in DOMAIN A /\ A[i] = B[i]
      BY <1>3, <2>2 DEF Records
    <3> HIDE DEF old
    <3>4. IsObjects(old)
      BY <1>0, <1>3, <3>2 DEF IsObjects, IsSession
    <3>5. IsSession(on_modify(s, i))
      BY <1>3, <3>1, <3>4 DEF IsSession
    <3>6. Records(on_modify(s, i), A, na, C, nb)
      BY <1>1, <1>3, <3>1, <3>2, <3>3 DEF Records
    <3> QED BY <3>1, <3>5, <3>6
  <2> QED BY <2>1, <2>2
<1> QED BY <1>2, <1>3 DEF C

\* remove: an object the session created leaves no trace, of any other the value
\* at the start of the session is kept.
LEMMA RemoveRecords ==
    ASSUME NEW B, NEW nb, IsState(B, nb), indices = B,
           NEW i \in DOMAIN B
    PROVE  LET C == Without(B, {i}) IN
           /\ IsState(C, nb)
           /\ \A s, A, na : IsState(A, na) /\ IsSession(s) /\ Records(s, A, na, B, nb) =>
                 /\ IsSession(on_remove(s, i))
                 /\ on_remove(s, i).revision = s.revision
                 /\ Records(on_remove(s, i), A, na, C, nb)
<1> DEFINE C == Without(B, {i})
<1>0. /\ B = [j \in DOMAIN B |-> B[j]] /\ DOMAIN B \subseteq Ids
      /\ \A j \in DOMAIN B : B[j] \in Values
  BY DEF IsState, IsObjects
<1>1. /\ DOMAIN C = DOMAIN B \ {i} /\ C = [j \in DOMAIN C |-> C[j]]
      /\ \A j \in DOMAIN C : C[j] = B[j]
  BY DEF Without, Restrict
<1> HIDE DEF C
<1>2. IsState(C, nb)
  BY <1>0, <1>1 DEF IsState, IsObjects, UniqueKeys
<1>3. ASSUME NEW s, NEW A, NEW na, IsState(A, na), IsSession(s), Records(s, A, na, B, nb)
      PROVE  /\ IsSession(on_remove(s, i))
             /\ on_remove(s, i).revision = s.revision
             /\ Records(on_remove(s, i), A, na, C, nb)
  <2>0. i \notin DOMAIN s.removed_values
    BY <1>3 DEF Records
  <2>1. CASE i \in s.new_ids
    <3>1. on_remove(s, i) = [old_values |-> s.old_values, removed_values |-> s.removed_values,
                             new_ids |-> s.new_ids \ {i}, old_next_id |-> s.old_next_id,
                             revision |-> s.revision]
      BY <1>3, <2>1 DEF IsSession, on_remove
    <3>2. IsSession(on_remove(s, i))
      BY <1>3, <3>1 DEF IsSession
    <3>3. Records(on_remove(s, i), A, na, C, nb)
      BY <1>1, <1>3, <2>1, <3>1 DEF Records
    <3> QED BY <3>1, <3>2, <3>3
  <2>2. CASE i \notin s.new_ids /\ i \in DOMAIN s.old_values
    <3> DEFINE old == Without(s.old_values, {i})
               removed == Over(s.removed_values, Single(i, s.old_values[i]))
    <3>1. on_remove(s, i) = [old_values |-> old, removed_values |-> removed,
                             new_ids |-> s.new_ids, old_next_id |-> s.old_next_id,
                             revision |-> s.revision]
      BY <1>3, <2>2 DEF IsSession, on_remove
    <3>2. /\ DOMAIN old = DOMAIN s.old_values \ {i} /\ old = [j \in DOMAIN old |-> old[j]]
          /\ \A j \in DOMAIN old : old[j] = s.old_values[j]
      BY DEF Without, Restrict
    <3>3. /\ DOMAIN removed = DOMAIN s.removed_values \cup {i}
          /\ removed = [j \in DOMAIN removed |-> removed[j]]
          /\ \A j \in DOMAIN s.removed_values : removed[j] = s.removed_values[j]
          /\ removed[i] = s.old_values[i]
      BY <2>0 DEF Over, Single
    <3> HIDE DEF old, removed
    <3>4. IsObjects(old) /\ IsObjects(removed)
      BY <1>0, <1>3, <2>2, <3>2, <3>3 DEF IsObjects, IsSession
    <3>5. IsSession(on_remove(s, i))
      BY <1>3, <3>1, <3>4 DEF IsSession
    <3>6. Records(on_remove(s, i), A, na, C, nb)
      BY <1>1, <1>3, <2>2, <3>1, <3>2, <3>3 DEF Records
    <3> QED BY <3>1, <3>5, <3>6
  <2>3. CASE i \notin s.new_ids /\ i \notin DOMAIN s.old_values
    <3> DEFINE removed == Over(s.removed_values, Single(i, B[i]))
    <3>1. on_remove(s, i) = [old_values |-> s.old_values, removed_values |-> removed,
                             new_ids |-> s.new_ids, old_next_id |-> s.old_next_id,
                             revision |-> s.revision]
      BY <1>3, <2>0, <2>3 DEF IsSession, on_remove
    <3>2. /\ DOMAIN removed = DOMAIN s.removed_values \cup {i}
          /\ removed = [j \in DOMAIN removed |-> removed[j]]
          /\ \A j \in DOMAIN s.removed_values : removed[j] = s.removed_values[j]
          /\ removed[i] = B[i]
      BY <2>0 DEF Over, Single
    <3>3. i \in DOMAIN A /\ A[i] = B[i]
      BY <1>3, <2>3 DEF Records
    <3> HIDE DEF removed
    <3>4. IsObjects(removed)
      BY <1>0, <1>3, <3>2 DEF IsObjects, IsSession
    <3>5. IsSession(on_remove(s, i))
      BY <1>3, <3>1, <3>4 DEF IsSession
    <3>6. Records(on_remove(s, i), A, na, C, nb)
      BY <1>1, <1>3, <2>3, <3>1, <3>2, <3>3 DEF Records
    <3> QED BY <3>1, <3>5, <3>6
  <2> QED BY <2>1, <2>2, <2>3
<1> QED BY <1>2, <1>3 DEF C

\* squash: the differences of two sessions in a row merge into those between
\* the first and the last of the three states.  An id is never used twice.
LEMMA MergeRecords ==
    ASSUME NEW p, NEW s, IsSession(p), IsSession(s),
           NEW A, NEW na, NEW B, NEW nb, NEW C, NEW nc,
           IsState(A, na), IsState(B, nb), IsState(C, nc),
           Records(p, A, na, B, nb), Records(s, B, nb, C, nc)
    PROVE  /\ IsSession(Merged(p, s))
           /\ Merged(p, s).revision = p.revision
           /\ Records(Merged(p, s), A, na, C, nc)
<1> DEFINE M == MergedOld(p, s)
           W == WasOld(p, s)
           N == MergedNew(p, s)
           old == Without(M, W)
           gone == Without(s.removed_values, N)
           inner == Over(Restrict(M, W), gone)
           removed == Over(p.removed_values, inner)
<1>0. /\ na \in Int /\ nb \in Int /\ nc \in Int
      /\ \A i \in DOMAIN A \cup DOMAIN B \cup DOMAIN C : i \in Int
      /\ \A i \in DOMAIN A : i < na
      /\ \A i \in DOMAIN A : A[i] \in Values
      /\ DOMAIN A \cup DOMAIN B \cup DOMAIN C \subseteq Ids
  BY BoundsAssumption DEF IsState, IsObjects, Ids
<1>1. /\ na <= nb /\ nb <= nc
      /\ \A i \in DOMAIN B \ DOMAIN A : na <= i
      /\ \A i \in DOMAIN C \ DOMAIN B : nb <= i
  BY DEF Records
<1>2. (DOMAIN A \ DOMAIN B) \cap DOMAIN C = {}
  BY <1>0, <1>1
<1>3. /\ DOMAIN M = DOMAIN p.old_values \cup (DOMAIN s.old_values \ p.new_ids)
      /\ DOMAIN M \subseteq DOMAIN A \cap DOMAIN B
      /\ \A i \in DOMAIN M : M[i] = A[i]
  <2> DEFINE Q == Without(s.old_values, p.new_ids)
  <2>1. DOMAIN Q = DOMAIN s.old_values \ p.new_ids /\ \A i \in DOMAIN Q : Q[i] = s.old_values[i]
    BY DEF Without, Restrict
  <2>2. M = Over(p.old_values, Q)
    BY DEF MergedOld
  <2> HIDE DEF Q, M
  <2>3. /\ DOMAIN M = DOMAIN p.old_values \cup DOMAIN Q
        /\ \A i \in DOMAIN M : M[i] = IF i \in DOMAIN p.old_values THEN p.old_values[i] ELSE Q[i]
    BY <2>2 DEF Over
  <2>4. DOMAIN M \subseteq DOMAIN A \cap DOMAIN B
    BY <2>1, <2>3 DEF Records
  <2> QED BY <2>1, <2>3, <2>4 DEF Records
<1>4. N = (DOMAIN B \ DOMAIN A) \cup (DOMAIN C \ DOMAIN B)
  BY DEF MergedNew, Records
<1>5. W = DOMAIN M \ DOMAIN C
  <2>1. W = (DOMAIN s.removed_values \cap DOMAIN M) \ N
    BY DEF WasOld
  <2> HIDE DEF W, M, N
  <2> QED BY <1>3, <1>4, <2>1 DEF Records
<1> HIDE DEF M, W, N
<1>6. /\ DOMAIN old = DOMAIN M \cap DOMAIN C /\ old = [i \in DOMAIN old |-> old[i]]
      /\ \A i \in DOMAIN old : old[i] = A[i]
  BY <1>3, <1>5 DEF Without, Restrict
<1>7. /\ DOMAIN gone = (DOMAIN A \cap DOMAIN B) \ DOMAIN C
      /\ \A i \in DOMAIN gone : gone[i] = B[i]
  BY <1>4 DEF Without, Restrict, Records
<1> HIDE DEF old, gone
<1>8. /\ DOMAIN inner = (DOMAIN A \cap DOMAIN B) \ DOMAIN C
      /\ \A i \in DOMAIN inner : inner[i] = A[i]
  <2>1. /\ DOMAIN inner = W \cup DOMAIN gone
        /\ \A i \in DOMAIN inner : inner[i] = IF i \in W THEN M[i] ELSE gone[i]
    BY DEF Over, Restrict
  <2> HIDE DEF inner
  <2>2. DOMAIN inner = (DOMAIN A \cap DOMAIN B) \ DOMAIN C
    BY <1>3, <1>5, <1>7, <2>1
  <2>3. ASSUME NEW i \in DOMAIN inner, i \notin W PROVE gone[i] = A[i]
    <3>1. i \notin DOMAIN p.old_values /\ i \in DOMAIN A \cap DOMAIN B
      BY <1>3, <1>5, <2>2, <2>3
    <3> QED BY <1>7, <2>2, <3>1 DEF Records
  <2> QED BY <1>3, <1>5, <2>1, <2>2, <2>3
<1> HIDE DEF inner
<1>9. /\ DOMAIN removed = DOMAIN A \ DOMAIN C /\ removed = [i \in DOMAIN removed |-> removed[i]]
      /\ \A i \in DOMAIN removed : removed[i] = A[i]
  <2>1. /\ DOMAIN removed = DOMAIN p.removed_values \cup DOMAIN inner
        /\ removed = [i \in DOMAIN removed |-> removed[i]]
        /\ \A i \in DOMAIN removed :
              removed[i] = IF i \in DOMAIN p.removed_values THEN p.removed_values[i] ELSE inner[i]
    BY DEF Over
  <2> HIDE DEF removed
  <2> QED BY <1>2, <1>8, <2>1 DEF Records
<1> HIDE DEF removed
<1>10. Merged(p, s) = [old_values |-> old, removed_values |-> removed,
                       new_ids |-> N \ DOMAIN s.removed_values,
                       old_next_id |-> p.old_next_id, revision |-> p.revision]
  <2>1. Merged(p, s) = [p EXCEPT !.old_values = old, !.new_ids = N \ DOMAIN s.removed_values,
                                 !.removed_values = removed]
    BY DEF Merged, old, removed, inner, gone, M, W, N
  <2> QED BY <2>1 DEF IsSession
<1>11. N \ DOMAIN s.removed_values = DOMAIN C \ DOMAIN A
  BY <1>2, <1>4 DEF Records
<1>12. IsObjects(old) /\ IsObjects(removed)
  BY <1>0, <1>3, <1>6, <1>9 DEF IsObjects
<1>13. IsSession(Merged(p, s))
  <2>1. N \ DOMAIN s.removed_values \subseteq Ids
    BY <1>0, <1>11
  <2> QED BY <1>10, <1>12, <2>1 DEF IsSession
<1>14. ASSUME NEW i \in DOMAIN A \cap DOMAIN C
       PROVE  A[i].key = C[i].key /\ (i \notin DOMAIN old => A[i] = C[i])
  <2>1. i \in DOMAIN B
    BY <1>2
  <2>2. A[i].key = C[i].key
    BY <2>1 DEF Records
  <2>3. ASSUME i \notin DOMAIN old PROVE A[i] = C[i]
    <3>1. i \notin DOMAIN p.old_values /\ i \notin DOMAIN s.old_values
      BY <1>3, <1>6, <2>1, <2>3 DEF Records
    <3> QED BY <2>1, <3>1 DEF Records
  <2> QED BY <2>2, <2>3
<1>15. Records(Merged(p, s), A, na, C, nc)
  <2>1. na <= nc /\ \A i \in DOMAIN C \ DOMAIN A : na <= i
    BY <1>0, <1>1
  <2>2. p.old_next_id = na
    BY DEF Records
  <2> QED BY <1>3, <1>6, <1>9, <1>10, <1>11, <1>14, <2>1, <2>2 DEF Records
<1> QED BY <1>10, <1>13, <1>15
-----------------------------------------------------------------------------
(***************************************************************************)
(* The inductive invariant.                                                *)
(***************************************************************************)
States == [indices : UNION {[I -> Values] : I \in SUBSET Ids}, next_id : 0..MaxId]

NextIdAt(i) == IF i = Top THEN next_id ELSE saved[i + 1].next_id

Shape ==
  /\ stack \in Seq(SessionStates) /\ saved \in Seq(States)
  /\ Len(saved) = Len(stack) /\ revision \in Int

\* Every session records the way from its state to the next one; sessions are
\* numbered in a row, the newest one with the revision of the index.
SessionInv(i) ==
  /\ IsState(saved[i].indices, saved[i].next_id)
  /\ Records(stack[i], saved[i].indices, saved[i].next_id, ObjectsAt(i), NextIdAt(i))
  /\ stack[i].revision = revision - Top + i

IInv ==
  /\ Shape
  /\ IsState(indices, next_id)
  /\ \A i \in 1..Top : SessionInv(i)
  /\ thrown = FALSE

\* What a step that writes objects has to show: the newest session, if there
\* is one, records the new state as well.
LEMMA WriteStep ==
    ASSUME IInv, IsState(indices', next_id'), UNCHANGED <<revision, thrown, saved>>,
           NEW t, stack' = IF enabled THEN [stack EXCEPT ![Top] = t] ELSE stack,
           enabled => /\ IsSession(t) /\ t.revision = stack[Top].revision
                      /\ Records(t, saved[Top].indices, saved[Top].next_id, indices', next_id')
    PROVE  IInv'
<1>0. stack \in Seq(SessionStates) /\ Top \in Nat /\ (enabled <=> Top # 0) /\ Len(saved) = Top
  BY DEF IInv, Shape, Top, enabled
<1>1. CASE ~ enabled
  <2>1. Top = 0 /\ stack' = stack /\ Top' = 0
    BY <1>0, <1>1 DEF Top
  <2>2. Shape'
    BY <2>1 DEF IInv, Shape
  <2>3. 1..Top' = {}
    BY <2>1
  <2> QED BY <2>1, <2>2, <2>3 DEF IInv
<1>2. CASE enabled
  <2>1. /\ t \in SessionStates /\ Top \in 1..Top
        /\ stack' = [stack EXCEPT ![Top] = t]
    BY <1>0, <1>2, SessionType
  <2>2. /\ stack' \in Seq(SessionStates) /\ Len(stack') = Len(stack)
        /\ stack'[Top] = t
        /\ \A i \in 1..Top : i # Top => stack'[i] = stack[i]
    BY <1>0, <2>1 DEF Top
  <2>3. Top' = Top
    BY <2>2 DEF Top
  <2>4. Shape'
    BY <2>2 DEF IInv, Shape
  <2>5. ASSUME NEW i \in 1..Top PROVE SessionInv(i)'
    <3>1. SessionInv(i) /\ SessionInv(Top)
      BY <2>1, <2>5 DEF IInv
    <3>2. CASE i = Top
      <4>1. ObjectsAt(i)' = indices' /\ NextIdAt(i)' = next_id'
        BY <2>3, <3>2 DEF ObjectsAt, NextIdAt
      <4> QED BY <1>2, <2>2, <2>3, <3>1, <3>2, <4>1 DEF SessionInv
    <3>3. CASE i # Top
      <4>1. ObjectsAt(i)' = ObjectsAt(i) /\ NextIdAt(i)' = NextIdAt(i)
        BY <2>3, <3>3 DEF ObjectsAt, NextIdAt
      <4> QED BY <2>2, <2>3, <3>1, <3>3, <4>1 DEF SessionInv
    <3> QED BY <3>2, <3>3
  <2> QED BY <2>3, <2>4, <2>5 DEF IInv
<1> QED BY <1>1, <1>2

\* The facts about the newest session that the steps below need.
LEMMA NewestSession ==
    ASSUME IInv, enabled
    PROVE  /\ Top \in Nat \ {0} /\ Len(saved) = Top
           /\ IsSession(stack[Top])
           /\ IsState(saved[Top].indices, saved[Top].next_id)
           /\ Records(stack[Top], saved[Top].indices, saved[Top].next_id, indices, next_id)
           /\ stack[Top].revision = revision
<1>1. stack \in Seq(SessionStates) /\ Top \in Nat \ {0} /\ Len(saved) = Top /\ revision \in Int
  BY DEF IInv, Shape, Top, enabled
<1>2. stack[Top] \in SessionStates /\ Top \in 1..Top
  BY <1>1 DEF Top
<1>3. SessionInv(Top)
  BY <1>2 DEF IInv
<1>4. ObjectsAt(Top) = indices /\ NextIdAt(Top) = next_id
  BY DEF ObjectsAt, NextIdAt
<1>5. stack[Top].revision = revision
  BY <1>1, <1>3 DEF SessionInv
<1> QED BY <1>1, <1>2, <1>3, <1>4, <1>5, SessionType DEF SessionInv

LEMMA EmplaceStep ==
    ASSUME IInv, NEW v \in Values, emplace(v)
    PROVE  IInv'
<1> DEFINE t == on_create(stack[Top], next_id)
<1>0. IsState(indices, next_id) /\ next_id < MaxId /\ KeyFree(indices, v.key)
  BY DEF IInv, emplace
<1>1. /\ IsState(indices', next_id') /\ UNCHANGED <<revision, thrown, saved>>
      /\ stack' = IF enabled THEN [stack EXCEPT ![Top] = t] ELSE stack
  BY <1>0, CreateRecords DEF emplace, Record
<1>2. enabled => /\ IsSession(t) /\ t.revision = stack[Top].revision
                 /\ Records(t, saved[Top].indices, saved[Top].next_id, indices', next_id')
  <2>1. \A s, A, na : IsState(A, na) /\ IsSession(s) /\ Records(s, A, na, indices, next_id) =>
           /\ IsSession(on_create(s, next_id))
           /\ on_create(s, next_id).revision = s.revision
           /\ Records(on_create(s, next_id), A, na, indices', next_id')
    BY <1>0, CreateRecords DEF emplace
  <2> QED BY <2>1, NewestSession
<1> HIDE DEF t
<1> QED BY <1>1, <1>2, WriteStep

LEMMA ModifyStep ==
    ASSUME IInv, NEW i \in Ids, NEW d \in Data, modify(i, d)
    PROVE  IInv'
<1> DEFINE t == on_modify(stack[Top], i)
<1>0. IsState(indices, next_id) /\ i \in DOMAIN indices
  BY DEF IInv, modify
<1>1. /\ IsState(indices', next_id') /\ UNCHANGED <<revision, thrown, saved>>
      /\ stack' = IF enabled THEN [stack EXCEPT ![Top] = t] ELSE stack
  BY <1>0, ModifyRecords DEF modify, Record
<1>2. enabled => /\ IsSession(t) /\ t.revision = stack[Top].revision
                 /\ Records(t, saved[Top].indices, saved[Top].next_id, indices', next_id')
  <2>1. \A s, A, na : IsState(A, na) /\ IsSession(s) /\ Records(s, A, na, indices, next_id) =>
           /\ IsSession(on_modify(s, i))
           /\ on_modify(s, i).revision = s.revision
           /\ Records(on_modify(s, i), A, na, indices', next_id')
    <3> DEFINE C == [indices EXCEPT ![i].data = d]
    <3>1. indices' = C /\ next_id' = next_id
      BY DEF modify
    <3>2. \A s, A, na : IsState(A, na) /\ IsSession(s) /\ Records(s, A, na, indices, next_id) =>
             /\ IsSession(on_modify(s, i))
             /\ on_modify(s, i).revision = s.revision
             /\ Records(on_modify(s, i), A, na, C, next_id)
      BY <1>0, ModifyRecords, Zenon
    <3> HIDE DEF C
    <3> QED BY <3>1, <3>2
  <2> QED BY <2>1, NewestSession
<1> HIDE DEF t
<1> QED BY <1>1, <1>2, WriteStep

LEMMA RemoveStep ==
    ASSUME IInv, NEW i \in Ids, remove(i)
    PROVE  IInv'
<1> DEFINE t == on_remove(stack[Top], i)
<1>0. IsState(indices, next_id) /\ i \in DOMAIN indices
  BY DEF IInv, remove
<1>1. /\ IsState(indices', next_id') /\ UNCHANGED <<revision, thrown, saved>>
      /\ stack' = IF enabled THEN [stack EXCEPT ![Top] = t] ELSE stack
  BY <1>0, RemoveRecords DEF remove, Record
<1>2. enabled => /\ IsSession(t) /\ t.revision = stack[Top].revision
                 /\ Records(t, saved[Top].indices, saved[Top].next_id, indices', next_id')
  <2>1. \A s, A, na : IsState(A, na) /\ IsSession(s) /\ Records(s, A, na, indices, next_id) =>
           /\ IsSession(on_remove(s, i))
           /\ on_remove(s, i).revision = s.revision
           /\ Records(on_remove(s, i), A, na, indices', next_id')
    BY <1>0, RemoveRecords DEF remove
  <2> QED BY <2>1, NewestSession
<1> HIDE DEF t
<1> QED BY <1>1, <1>2, WriteStep

\* SubSeq: the elements from m to n.
LEMMA Slice ==
    ASSUME NEW S, NEW q \in Seq(S), NEW m \in Nat \ {0}, NEW n \in 0..Len(q), m <= n + 1
    PROVE  /\ SubSeq(q, m, n) \in Seq(S)
           /\ Len(SubSeq(q, m, n)) = n - m + 1
           /\ \A i \in 1..(n - m + 1) : SubSeq(q, m, n)[i] = q[m + i - 1]
<1>1. \A i \in m..n : q[i] \in S
  OBVIOUS
<1>2. Len(q) \in Nat /\ n \in Nat
  OBVIOUS
<1>3. CASE m <= n
  BY <1>1, <1>2, <1>3, SubSeqProperties
<1>4. CASE m = n + 1
  BY <1>1, <1>2, <1>4
<1> QED BY <1>3, <1>4

\* start_undo_session: an empty session records that nothing has changed.
LEMMA StartStep ==
    ASSUME IInv, start_undo_session
    PROVE  IInv'
<1> DEFINE s == [old_values |-> Empty, removed_values |-> Empty, new_ids |-> {},
                 old_next_id |-> next_id, revision |-> revision + 1]
           st == [indices |-> indices, next_id |-> next_id]
<1>0. /\ stack \in Seq(SessionStates) /\ saved \in Seq(States) /\ revision \in Int
      /\ Top \in Nat /\ Len(saved) = Top /\ Len(stack) = Top
      /\ IsState(indices, next_id) /\ next_id \in 0..MaxId
  BY DEF IInv, Shape, Top, IsState
<1>1. DOMAIN Empty = {} /\ IsObjects(Empty)
  BY DEF Empty, IsObjects
<1>2. IsSession(s) /\ s \in SessionStates
  <2>1. IsSession(s)
    BY <1>0, <1>1 DEF IsSession
  <2> HIDE DEF s
  <2> QED BY <2>1, SessionType
<1>3. st \in States
  BY <1>0, ObjectsType DEF States, IsState
<1>4. Records(s, indices, next_id, indices, next_id) /\ s.revision = revision + 1
  BY <1>0, <1>1 DEF Records
<1>5. st.indices = indices /\ st.next_id = next_id
  OBVIOUS
<1>6. /\ stack' = Append(stack, s) /\ saved' = Append(saved, st) /\ revision' = revision + 1
      /\ indices' = indices /\ next_id' = next_id /\ thrown' = thrown
  BY DEF start_undo_session
<1> HIDE DEF s, st
<1>7. /\ stack' \in Seq(SessionStates) /\ saved' \in Seq(States)
      /\ Len(stack') = Top + 1 /\ Len(saved') = Top + 1 /\ Top' = Top + 1
      /\ \A i \in 1..Top : stack'[i] = stack[i] /\ saved'[i] = saved[i]
      /\ stack'[Top + 1] = s /\ saved'[Top + 1] = st
  BY <1>0, <1>2, <1>3, <1>6 DEF Top
<1>8. Shape'
  BY <1>0, <1>6, <1>7 DEF Shape
<1>9. ASSUME NEW i \in 1..(Top + 1) PROVE SessionInv(i)'
  <2>1. CASE i = Top + 1
    <3>1. ObjectsAt(i)' = indices /\ NextIdAt(i)' = next_id
      BY <1>6, <1>7, <2>1 DEF ObjectsAt, NextIdAt
    <3>2. stack'[i].revision = revision' - Top' + i
      BY <1>0, <1>4, <1>6, <1>7, <2>1
    <3> QED BY <1>0, <1>4, <1>5, <1>7, <2>1, <3>1, <3>2 DEF SessionInv
  <2>2. CASE i \in 1..Top
    <3>1. SessionInv(i)
      BY <2>2 DEF IInv
    <3>2. ObjectsAt(i)' = ObjectsAt(i) /\ NextIdAt(i)' = NextIdAt(i)
      <4>1. CASE i = Top
        BY <1>0, <1>5, <1>7, <4>1 DEF ObjectsAt, NextIdAt
      <4>2. CASE i # Top
        <5>1. i + 1 \in 1..Top /\ i # Top'
          BY <1>0, <1>7, <2>2, <4>2
        <5> QED BY <1>7, <4>2, <5>1 DEF ObjectsAt, NextIdAt
      <4> QED BY <4>1, <4>2
    <3>3. revision' - Top' + i = revision - Top + i
      BY <1>0, <1>6, <1>7, <2>2
    <3> QED BY <1>7, <2>2, <3>1, <3>2, <3>3 DEF SessionInv
  <2> QED BY <1>0, <2>1, <2>2
<1> QED BY <1>0, <1>6, <1>7, <1>8, <1>9 DEF IInv

\* undo does not throw, and gives back the state and all older sessions.
LEMMA UndoEffect ==
    ASSUME IInv, undo
    PROVE  /\ indices' = saved[Top].indices /\ next_id' = saved[Top].next_id
           /\ stack' = SubSeq(stack, 1, Top - 1) /\ saved' = SubSeq(saved, 1, Top - 1)
           /\ revision' = revision - 1 /\ thrown' = thrown
<1>1. enabled
  BY DEF undo
<1>2. Undone(stack[Top], indices) = saved[Top].indices /\ UndoFits(stack[Top], indices)
  BY <1>1, NewestSession, UndoRestores DEF IInv
<1>3. stack[Top].old_next_id = saved[Top].next_id
  BY <1>1, NewestSession DEF Records
<1> QED BY <1>2, <1>3 DEF undo

LEMMA UndoStep ==
    ASSUME IInv, undo
    PROVE  IInv'
<1>0. /\ stack \in Seq(SessionStates) /\ saved \in Seq(States) /\ revision \in Int
      /\ Top \in Nat \ {0} /\ Len(saved) = Top /\ Len(stack) = Top
  BY NewestSession DEF IInv, Shape, Top, undo
<1> DEFINE n == Top - 1
<1>1. n \in 0..Top /\ n \in Nat /\ Top = n + 1 /\ Top - 1 = n
  BY <1>0
<1> HIDE DEF n
<1>2. /\ stack' \in Seq(SessionStates) /\ saved' \in Seq(States)
      /\ Len(stack') = n /\ Len(saved') = n /\ Top' = n
      /\ \A i \in 1..n : stack'[i] = stack[i] /\ saved'[i] = saved[i]
  <2>1. stack' = SubSeq(stack, 1, n) /\ saved' = SubSeq(saved, 1, n)
    BY <1>1, UndoEffect
  <2>2. /\ stack' \in Seq(SessionStates) /\ Len(stack') = n - 1 + 1
        /\ \A i \in 1..(n - 1 + 1) : stack'[i] = stack[1 + i - 1]
    BY <1>0, <1>1, <2>1, Slice
  <2>3. /\ saved' \in Seq(States) /\ Len(saved') = n - 1 + 1
        /\ \A i \in 1..(n - 1 + 1) : saved'[i] = saved[1 + i - 1]
    BY <1>0, <1>1, <2>1, Slice
  <2> QED BY <1>1, <2>2, <2>3 DEF Top
<1>3. revision' = revision - 1 /\ thrown' = thrown
  BY UndoEffect
<1>4. IsState(indices', next_id')
  <2>1. SessionInv(Top)
    BY <1>0 DEF IInv
  <2> QED BY <2>1, UndoEffect DEF SessionInv
<1>5. ASSUME NEW i \in 1..n PROVE SessionInv(i)'
  <2>1. SessionInv(i) /\ i \in 1..Top /\ i # Top
    BY <1>0, <1>1, <1>5 DEF IInv
  <2>2. ObjectsAt(i)' = ObjectsAt(i) /\ NextIdAt(i)' = NextIdAt(i)
    <3>1. CASE i = n
      <4>1. i + 1 = Top /\ i = Top' /\ i # Top
        BY <1>1, <1>2, <2>1, <3>1
      <4> QED BY <4>1, UndoEffect DEF ObjectsAt, NextIdAt
    <3>2. CASE i # n
      <4>1. i + 1 \in 1..n /\ i # Top' /\ i # Top
        BY <1>1, <1>2, <1>5, <3>2, <2>1
      <4> QED BY <1>2, <4>1 DEF ObjectsAt, NextIdAt
    <3> QED BY <3>1, <3>2
  <2>3. revision' - Top' + i = revision - Top + i
    BY <1>0, <1>1, <1>2, <1>3
  <2> QED BY <1>2, <1>5, <2>1, <2>2, <2>3 DEF SessionInv
<1>6. Shape'
  BY <1>0, <1>2, <1>3 DEF Shape
<1> QED BY <1>2, <1>3, <1>4, <1>5, <1>6 DEF IInv

LEMMA SquashStep ==
    ASSUME IInv, squash
    PROVE  IInv'
<1>0. /\ stack \in Seq(SessionStates) /\ saved \in Seq(States) /\ revision \in Int
      /\ Top \in Nat \ {0} /\ Len(saved) = Top /\ Len(stack) = Top
      /\ saved' = SubSeq(saved, 1, Top - 1)
      /\ indices' = indices /\ next_id' = next_id /\ thrown' = thrown
  BY NewestSession DEF IInv, Shape, Top, squash
<1>1. CASE Top = 1
  <2>1. stack' = <<>> /\ revision' = revision
    BY <1>1 DEF squash
  <2>2. saved' \in Seq(States) /\ Len(saved') = 0
    <3>1. Top - 1 \in 0..Len(saved) /\ 1 <= (Top - 1) + 1 /\ (Top - 1) - 1 + 1 = 0
      BY <1>0, <1>1
    <3> QED BY <1>0, <3>1, Slice
  <2>3. Top' = 0 /\ 1..Top' = {}
    BY <2>1 DEF Top
  <2>4. Shape'
    BY <1>0, <2>1, <2>2 DEF Shape
  <2> QED BY <1>0, <2>3, <2>4 DEF IInv
<1>2. CASE Top # 1
  <2> DEFINE n == Top - 1
             q == SubSeq(stack, 1, n)
             p == stack[n]
             m == Merged(p, stack[Top])
  <2>1. n \in Nat \ {0} /\ Top = n + 1 /\ n \in 1..Top /\ n # Top
    BY <1>0, <1>2
  <2>2. /\ q \in Seq(SessionStates) /\ Len(q) = n /\ \A i \in 1..n : q[i] = stack[i]
        /\ saved' \in Seq(States) /\ Len(saved') = n /\ \A i \in 1..n : saved'[i] = saved[i]
    <3> HIDE DEF n
    <3>1. n \in 0..Len(stack) /\ 1 <= n + 1 /\ n - 1 + 1 = n /\ \A i \in 1..n : 1 + i - 1 = i
      BY <1>0, <2>1
    <3>2. /\ q \in Seq(SessionStates) /\ Len(q) = n
          /\ \A i \in 1..n : q[i] = stack[i]
      BY <1>0, <2>1, <3>1, Slice
    <3>3. saved' = SubSeq(saved, 1, n)
      BY <1>0 DEF n
    <3>4. /\ saved' \in Seq(States) /\ Len(saved') = n
          /\ \A i \in 1..n : saved'[i] = saved[i]
      BY <1>0, <2>1, <3>1, <3>3, Slice
    <3> QED BY <3>2, <3>4
  <2>3. stack' = [q EXCEPT ![n] = m] /\ revision' = revision - 1
    <3>1. /\ stack' = [q EXCEPT ![n] = Merged(q[n], stack[Top])]
          /\ revision' = revision - 1
      BY <1>2 DEF squash
    <3>2. q[n] = p
      BY <2>1, <2>2
    <3> QED BY <3>1, <3>2
  <2>4. /\ SessionInv(n) /\ SessionInv(Top)
        /\ ObjectsAt(n) = saved[Top].indices /\ NextIdAt(n) = saved[Top].next_id
    BY <1>0, <2>1 DEF IInv, ObjectsAt, NextIdAt
  <2>5. /\ IsSession(m) /\ m.revision = p.revision
        /\ Records(m, saved[n].indices, saved[n].next_id, indices, next_id)
    <3> HIDE DEF n
    <3>1. IsSession(p)
      BY <1>0, <2>1, SessionType DEF Top
    <3>2. enabled
      BY DEF squash
    <3> HIDE DEF p
    <3>3. /\ IsSession(stack[Top])
          /\ IsState(saved[Top].indices, saved[Top].next_id) /\ IsState(indices, next_id)
          /\ Records(stack[Top], saved[Top].indices, saved[Top].next_id, indices, next_id)
      BY <3>2, NewestSession DEF IInv
    <3>4. /\ IsState(saved[n].indices, saved[n].next_id)
          /\ Records(p, saved[n].indices, saved[n].next_id,
                     saved[Top].indices, saved[Top].next_id)
      BY <2>4 DEF SessionInv, p
    <3> QED BY <3>1, <3>3, <3>4, MergeRecords
  <2>6. p.revision = revision - Top + n
    BY <2>4 DEF SessionInv
  <2> HIDE DEF m, p, q, n
  <2>7. /\ stack' \in Seq(SessionStates) /\ Len(stack') = n /\ Top' = n
        /\ stack'[n] = m /\ \A i \in 1..n : i # n => stack'[i] = stack[i]
    <3>1. m \in SessionStates
      BY <2>5, SessionType
    <3> QED BY <2>1, <2>2, <2>3, <3>1 DEF Top
  <2>8. Shape'
    BY <1>0, <2>2, <2>3, <2>7 DEF Shape
  <2>9. ASSUME NEW i \in 1..n PROVE SessionInv(i)'
    <3>1. CASE i = n
      <4>1. ObjectsAt(i)' = indices /\ NextIdAt(i)' = next_id
        BY <1>0, <2>7, <3>1 DEF ObjectsAt, NextIdAt
      <4>2. stack'[i].revision = revision' - Top' + i
        BY <1>0, <2>1, <2>3, <2>5, <2>6, <2>7, <3>1
      <4>3. IsState(saved'[i].indices, saved'[i].next_id)
        BY <2>2, <2>4, <2>9, <3>1 DEF SessionInv
      <4> QED BY <2>2, <2>5, <2>7, <2>9, <3>1, <4>1, <4>2, <4>3 DEF SessionInv
    <3>2. CASE i # n
      <4>1. SessionInv(i) /\ i + 1 \in 1..n /\ i # Top /\ i # Top'
        BY <1>0, <2>1, <2>7, <2>9, <3>2 DEF IInv
      <4>2. ObjectsAt(i)' = ObjectsAt(i) /\ NextIdAt(i)' = NextIdAt(i)
        BY <2>2, <4>1 DEF ObjectsAt, NextIdAt
      <4>3. revision' - Top' + i = revision - Top + i
        BY <1>0, <2>1, <2>3, <2>7, <2>9
      <4> QED BY <2>2, <2>7, <2>9, <3>2, <4>1, <4>2, <4>3 DEF SessionInv
    <3> QED BY <3>1, <3>2
  <2> QED BY <1>0, <2>7, <2>8, <2>9 DEF IInv
<1> QED BY <1>1, <1>2

\* commit forgets the k oldest sessions and renumbers the positions.
LEMMA CommitStep ==
    ASSUME IInv, NEW r \in Int, commit(r)
    PROVE  IInv'
<1>0. /\ stack \in Seq(SessionStates) /\ saved \in Seq(States) /\ revision \in Int
      /\ Top \in Nat /\ Len(saved) = Top /\ Len(stack) = Top
      /\ indices' = indices /\ next_id' = next_id /\ thrown' = thrown /\ revision' = revision
  BY DEF IInv, Shape, Top, commit
<1>1. PICK k \in 0..Top : /\ stack' = SubSeq(stack, k + 1, Top)
                          /\ saved' = SubSeq(saved, k + 1, Top)
  BY DEF commit
<1> DEFINE n == Top - k
<1>2. /\ n \in Nat /\ k + 1 \in Nat \ {0} /\ k + 1 <= Top + 1 /\ Top - (k + 1) + 1 = n
      /\ \A i \in 1..n : (k + 1) + i - 1 = k + i /\ k + i \in 1..Top
      /\ Top \in 0..Top
  BY <1>0
<1>3. /\ stack' \in Seq(SessionStates) /\ Len(stack') = n
      /\ \A i \in 1..n : stack'[i] = stack[k + i]
  <2> HIDE DEF n
  <2> QED BY <1>0, <1>1, <1>2, Slice
<1>4. /\ saved' \in Seq(States) /\ Len(saved') = n
      /\ \A i \in 1..n : saved'[i] = saved[k + i]
  <2> HIDE DEF n
  <2> QED BY <1>0, <1>1, <1>2, Slice
<1>5. Top' = n
  BY <1>3 DEF Top
<1>6. Shape'
  BY <1>0, <1>3, <1>4 DEF Shape
<1>7. ASSUME NEW i \in 1..n PROVE SessionInv(i)'
  <2>1. SessionInv(k + i)
    BY <1>2, <1>7 DEF IInv
  <2>2. ObjectsAt(i)' = ObjectsAt(k + i) /\ NextIdAt(i)' = NextIdAt(k + i)
    <3>1. CASE i = n
      BY <1>0, <1>5, <3>1 DEF ObjectsAt, NextIdAt
    <3>2. CASE i # n
      <4>1. i + 1 \in 1..n /\ k + i # Top /\ k + (i + 1) = k + i + 1
        BY <1>0, <1>2, <1>7, <3>2
      <4>2. saved'[i + 1] = saved[k + i + 1]
        BY <1>4, <4>1
      <4> QED BY <1>5, <3>2, <4>1, <4>2 DEF ObjectsAt, NextIdAt
    <3> QED BY <3>1, <3>2
  <2>3. revision' - Top' + i = revision - Top + (k + i)
    BY <1>0, <1>5, <1>7
  <2> QED BY <1>3, <1>4, <1>7, <2>1, <2>2, <2>3 DEF SessionInv
<1> QED BY <1>0, <1>5, <1>6, <1>7 DEF IInv

LEMMA SetRevisionStep ==
    ASSUME IInv, NEW r \in Int, set_revision(r)
    PROVE  IInv'
<1>1. /\ stack = <<>> /\ UNCHANGED <<indices, next_id, stack, thrown, saved>> /\ revision' = r
  BY DEF set_revision, enabled
<1>2. 1..Top' = {}
  BY <1>1 DEF Top
<1> QED BY <1>1, <1>2 DEF IInv, Shape

LEMMA InitIInv == Init => IInv
<1> SUFFICES ASSUME Init PROVE IInv
  OBVIOUS
<1>1. IsState(indices, next_id)
  BY BoundsAssumption DEF Init, IsState, IsObjects, UniqueKeys, Empty
<1>2. 1..Top = {}
  BY DEF Init, Top
<1>3. Shape
  BY DEF Init, Shape
<1> QED BY <1>1, <1>2, <1>3 DEF Init, IInv

LEMMA NextIInv == IInv /\ [Next]_vars => IInv'
<1> SUFFICES ASSUME IInv, [Next]_vars PROVE IInv'
  OBVIOUS
<1>1. ASSUME NEW v \in Values, emplace(v) PROVE IInv'
  BY <1>1, EmplaceStep
<1>2. ASSUME NEW i \in Ids, NEW d \in Data, modify(i, d) PROVE IInv'
  BY <1>2, ModifyStep
<1>3. ASSUME NEW i \in Ids, remove(i) PROVE IInv'
  BY <1>3, RemoveStep
<1>4. CASE start_undo_session
  BY <1>4, StartStep
<1>5. CASE undo
  BY <1>5, UndoStep
<1>6. CASE squash
  BY <1>6, SquashStep
<1>7. ASSUME NEW r \in 0..MaxRevision, commit(r) PROVE IInv'
  BY <1>7, CommitStep
<1>8. ASSUME NEW r \in 0..MaxRevision, set_revision(r) PROVE IInv'
  BY <1>8, SetRevisionStep
<1>9. CASE UNCHANGED vars
  BY <1>9 DEF vars, IInv, Shape, SessionInv, ObjectsAt, NextIdAt, Top
<1> QED BY <1>1, <1>2, <1>3, <1>4, <1>5, <1>6, <1>7, <1>8, <1>9 DEF Next

LEMMA Invariance == Spec => []IInv
  BY InitIInv, NextIInv, PTL DEF Spec
-----------------------------------------------------------------------------
(***************************************************************************)
(* The theorems.                                                           *)
(***************************************************************************)

\* The index, the sessions and the counters always have their types.
THEOREM TypeCorrect == Spec => []TypeOK
<1>1. IInv => TypeOK
  BY ObjectsType DEF IInv, Shape, IsState, TypeOK
<1> QED BY <1>1, Invariance, PTL

\* generic_index::undo gives back what each session began with, for any number
\* of objects and sessions.
THEOREM RestoresAlways == Spec => []Restores
<1>1. IInv => Restores
  <2> SUFFICES ASSUME IInv, NEW i \in 1..Top
               PROVE  /\ Undone(stack[i], ObjectsAt(i)) = saved[i].indices
                      /\ stack[i].old_next_id = saved[i].next_id
    BY DEF Restores
  <2>1. SessionInv(i)
    BY DEF IInv
  <2>2. IsState(ObjectsAt(i), NextIdAt(i))
    <3>1. Top \in Nat
      BY DEF IInv, Shape, Top
    <3>2. i # Top => i + 1 \in 1..Top
      BY <3>1
    <3>3. i # Top => SessionInv(i + 1)
      BY <3>2 DEF IInv
    <3> QED BY <3>3 DEF IInv, SessionInv, ObjectsAt, NextIdAt
  <2> QED BY <2>1, <2>2, UndoRestores DEF SessionInv, Records
<1> QED BY <1>1, Invariance, PTL

\* generic_index::undo never throws: an undone object's key is always free
\* and the object to restore is always there.
THEOREM NeverThrows == Spec => []UndoNeverThrows
<1>1. IInv => UndoNeverThrows
  BY DEF IInv, UndoNeverThrows
<1> QED BY <1>1, Invariance, PTL

\* A commit up to revision r forgets exactly the snapshots numbered up to r.
LEMMA CommitRefines ==
    ASSUME IInv, NEW r \in Int, commit(r)
    PROVE  Snap!Commit(r)
<1>0. Top \in Nat /\ Len(saved) = Top /\ Len(stack) = Top /\ revision \in Int
  BY DEF IInv, Shape, Top
<1>1. PICK k \in 0..Top : /\ \A i \in 1..k : stack[i].revision <= r
                          /\ k < Top => stack[k + 1].revision > r
                          /\ saved' = SubSeq(saved, k + 1, Top)
  BY DEF commit
<1>2. \A i \in 1..Top : stack[i].revision = Snap!RevisionOf(i)
  BY <1>0 DEF IInv, SessionInv, Snap!RevisionOf
<1>3. \A i \in 1..Top : Snap!RevisionOf(i) = revision - Top + i
  BY <1>0 DEF Snap!RevisionOf
<1>4. ASSUME NEW i \in 1..Top PROVE i <= k <=> Snap!RevisionOf(i) <= r
  <2>1. CASE i <= k
    <3>1. i \in 1..k
      BY <1>0, <2>1
    <3> QED BY <1>1, <1>2, <2>1, <3>1
  <2>2. CASE ~ (i <= k)
    <3>1. k < Top /\ k + 1 \in 1..Top /\ k + 1 <= i
      BY <1>0, <2>2
    <3>2. revision - Top + (k + 1) > r
      BY <1>1, <1>2, <1>3, <3>1
    <3>3. revision - Top + i > r
      BY <1>0, <3>1, <3>2
    <3> QED BY <1>0, <1>3, <2>2, <3>3
  <2> QED BY <2>1, <2>2
<1>5. UNCHANGED <<indices, next_id, revision>>
  BY DEF commit
<1> QED BY <1>0, <1>1, <1>4, <1>5 DEF Snap!Commit

\* Every step of the undo stack is a step of the stack of snapshots.
LEMMA StepRefines == IInv /\ [Next]_vars => [Snap!Next]_(Snap!vars)
<1> SUFFICES ASSUME IInv, [Next]_vars PROVE [Snap!Next]_(Snap!vars)
  OBVIOUS
<1> DEFINE state == [indices |-> indices, next_id |-> next_id]
<1>0. /\ Top \in Nat /\ Len(saved) = Top /\ Len(stack) = Top /\ saved \in Seq(States)
      /\ (enabled <=> saved # <<>>)
  BY DEF IInv, Shape, Top, enabled
<1>1. ASSUME UNCHANGED <<revision, saved>> PROVE [Snap!Next]_(Snap!vars)
  <2>1. CASE state' = state
    BY <1>1, <2>1 DEF Snap!vars
  <2>2. CASE state' # state
    BY <1>1, <2>2 DEF Snap!Next, Snap!Write
  <2> QED BY <2>1, <2>2
<1>2. ASSUME NEW v \in Values, emplace(v) PROVE [Snap!Next]_(Snap!vars)
  BY <1>1, <1>2 DEF emplace
<1>3. ASSUME NEW i \in Ids, NEW d \in Data, modify(i, d) PROVE [Snap!Next]_(Snap!vars)
  BY <1>1, <1>3 DEF modify
<1>4. ASSUME NEW i \in Ids, remove(i) PROVE [Snap!Next]_(Snap!vars)
  BY <1>1, <1>4 DEF remove
<1>5. CASE start_undo_session
  BY <1>5 DEF start_undo_session, Snap!Next, Snap!Start
<1>6. CASE undo
  <2>1. enabled
    BY <1>6 DEF undo
  <2>2. saved[Top] = [indices |-> saved[Top].indices, next_id |-> saved[Top].next_id]
    <3>1. Top \in 1..Len(saved)
      BY <1>0, <2>1 DEF enabled, Top
    <3>2. saved[Top] \in States
      BY <1>0, <3>1, ElementOfSeq
    <3> QED BY <3>2 DEF States
  <2>3. Snap!Undo
    BY <1>0, <1>6, <2>1, <2>2, UndoEffect DEF Snap!Undo
  <2> QED BY <2>3 DEF Snap!Next
<1>7. CASE squash
  <2>1. enabled /\ saved' = SubSeq(saved, 1, Top - 1) /\ UNCHANGED <<indices, next_id>>
        /\ revision' = IF Top = 1 THEN revision ELSE revision - 1
    BY <1>7 DEF squash
  <2>2. Snap!Squash
    BY <1>0, <2>1 DEF Snap!Squash
  <2> QED BY <2>2 DEF Snap!Next
<1>8. ASSUME NEW r \in 0..MaxRevision, commit(r) PROVE [Snap!Next]_(Snap!vars)
  <2>1. Snap!Commit(r)
    BY <1>8, CommitRefines
  <2> QED BY <2>1 DEF Snap!Next
<1>9. ASSUME NEW r \in 0..MaxRevision, set_revision(r) PROVE [Snap!Next]_(Snap!vars)
  <2>1. Snap!SetRevision(r)
    BY <1>0, <1>9 DEF set_revision, Snap!SetRevision
  <2> QED BY <2>1 DEF Snap!Next
<1>10. CASE UNCHANGED vars
  BY <1>1, <1>10 DEF vars
<1> QED BY <1>2, <1>3, <1>4, <1>5, <1>6, <1>7, <1>8, <1>9, <1>10 DEF Next

\* chainbase keeps its promise: a stack of differences behaves as a stack of
\* snapshots, and commit(r) forgets exactly the sessions up to revision r.
THEOREM Refinement == Spec => ImplementsSnapshots
<1>1. Init => Snap!Init
  BY DEF Init, Snap!Init
<1>2. IInv => \A r \in 0..MaxRevision : commit(r) => Snap!Commit(r)
  BY CommitRefines
<1> QED BY <1>1, <1>2, StepRefines, Invariance, PTL DEF Spec, Snap!Spec, ImplementsSnapshots
=============================================================================
