-------------------------- MODULE MCOutboxApproval --------------------------
(* Approval against edits: one draft edited while its rows wait for, hold  *)
(* or use an approval; two sessions, so that a token meets the wrong one;  *)
(* one retry after a wait.  The send contract is checked along the way.    *)
EXTENDS OutboxContract, TLC
Symmetry == Permutations(Rows) \cup Permutations(Tokens) \cup Permutations(Sessions)
            \cup Permutations(Keys) \cup Permutations(Bodies)
=============================================================================
