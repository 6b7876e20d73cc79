---------------------------- MODULE MCSheetCache ----------------------------
(* SheetCache with up to two users, one with an English and one with a     *)
(* German browser: their data sheets are cached under different hashes.    *)
EXTENDS SheetCache, TLC

CONSTANTS anna, otto, english, german

Languages == [r \in Readers |-> IF r = anna THEN english ELSE german]

(* The users can be exchanged, provided that their languages are, too. *)
Symmetry ==
  {f \in Permutations(Readers \cup Hashes) :
     \A r \in Readers : f[r] \in Readers /\ HashOf[f[r]] = f[HashOf[r]]}
=============================================================================
