-------------------------- MODULE MCOutboxDelivery --------------------------
(* Two workers over a moving wall clock: claims that expire and are taken  *)
(* over, late answers, recovery, searches, human decisions and one retry.  *)
EXTENDS Outbox, TLC
Symmetry == Permutations(Rows) \cup Permutations(Tokens) \cup Permutations(Keys)
            \cup Permutations(Workers)
=============================================================================
