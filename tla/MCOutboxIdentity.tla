-------------------------- MODULE MCOutboxIdentity --------------------------
(* Identity against everything else: an account that disconnects or is     *)
(* given another source, a reply whose target moves or vanishes, and a     *)
(* retry: with a third row and a third key it meets a row that is pending, *)
(* an edit after its parent was dispatched, or a second try of the parent. *)
EXTENDS Outbox, TLC
Symmetry == Permutations(Rows) \cup Permutations(Keys) \cup Permutations(Sources)
=============================================================================
