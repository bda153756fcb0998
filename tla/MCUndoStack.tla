----------------------------- MODULE MCUndoStack -----------------------------
EXTENDS UndoStack, TLC
Symmetry == Permutations(Keys) \union Permutations(Data)
==============================================================================
