--------------------------- MODULE OutboxContract ---------------------------
(* The outbox implements the send contract: one message for each row.      *)
EXTENDS Outbox

\* What a row's status says of its message.
PhaseOf(row) ==
  CASE row.status = "absent" -> "none"
    [] row.status = "pending_approval" -> "asking"
    [] row.status \in {"approved", "claimed"} -> "authorised"
    [] row.status \in {"rejected", "stale"} -> "withdrawn"
    [] row.status = "dispatched" -> "attempted"
    [] row.status = "unknown" -> "unsure"
    [] row.status = "human_decision" -> "asked"
    [] row.status = "failed" -> "refused"
    [] row.status = "sent" -> (IF row.basis = "provider" THEN "delivered" ELSE "presumed")
    [] row.status = "cancelled" -> (IF row.reason = "retry" THEN "resent" ELSE "withdrawn")

Contract == INSTANCE SendContract WITH
  Messages <- Rows,
  phase <- [r \in Rows |-> PhaseOf(outbox[r])],
  held <- {r \in Rows : delivered[r] > 0},
  origin <- [r \in Rows |-> outbox[r].retryOf]

(* Every step of the outbox, whatever edits, claims, expiries and late     *)
(* answers it interleaves, is a step of the contract or leaves it alone:   *)
(* no message reaches the provider unapproved or twice for one approval,   *)
(* none is reported refused that may still arrive, and a resend is always  *)
(* a person's answer to a question.                                        *)
ImplementsContract == Contract!Spec
=============================================================================
