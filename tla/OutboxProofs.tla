---------------------------- MODULE OutboxProofs ----------------------------
(***************************************************************************)
(* Invariants of the outbox for every set of accounts, drafts, rows,       *)
(* sessions and workers, every duration and every bound: types, readable   *)
(* rows, exact attention, at most one attempt, true outcomes, current      *)
(* sends.  They are proved together, as one inductive invariant: a retry   *)
(* is current because no row is ever ahead of its draft, an outcome is     *)
(* true because at most one call was licensed, and a call is licensed once *)
(* because a readable row carries its history id from the dispatch on.     *)
(***************************************************************************)
EXTENDS OutboxContract, FiniteSetTheorems, TLAPS

Kinds == {"approval_required", "send_unknown"}

(* What the invariants say of one row, and that it is never ahead of its   *)
(* draft, live or settled.                                                 *)
RowFact(r) ==
  /\ RowReadable(outbox[r])
  /\ <<r, "approval_required">> \in attention <=> outbox[r].status = "pending_approval"
  /\ <<r, "send_unknown">> \in attention <=> outbox[r].status = "human_decision"
  /\ calls[r] + delivered[r] + (IF refused[r] THEN 1 ELSE 0) <= 1
  /\ ~outbox[r].history => calls[r] = 0 /\ delivered[r] = 0 /\ ~refused[r]
  /\ outbox[r].basis = "provider" => delivered[r] = 1
  /\ outbox[r].status = "failed" => delivered[r] = 0 /\ calls[r] = 0
  /\ outbox[r].status \in Live /\ outbox[r].retryOf = None
     => /\ outbox[r].revision = drafts[outbox[r].draft].revision
        /\ outbox[r].content = drafts[outbox[r].draft].content
  /\ outbox[r].status # "absent" => outbox[r].revision <= drafts[outbox[r].draft].revision

(* A draft that exists has content.                                        *)
DraftsWritten == \A d \in Drafts : drafts[d].revision > 0 => drafts[d].content # None

IInv == TypeOK /\ DraftsWritten /\ \A r \in Rows : RowFact(r)

(* The invariant says of each row what the properties say of all.          *)
LEMMA InvariantIsEnough ==
  ASSUME IInv
  PROVE  /\ RowsReadable /\ AttentionIsExact /\ AtMostOneAttempt
         /\ OutcomeIsTrue /\ LiveSendsAreCurrent
<1>1. RowsReadable /\ AttentionIsExact /\ AtMostOneAttempt /\ OutcomeIsTrue
  BY DEF IInv, RowFact, RowsReadable, AttentionIsExact, AtMostOneAttempt, OutcomeIsTrue
<1>2. LiveSendsAreCurrent
  BY DEF IInv, RowFact, LiveSendsAreCurrent, Live
<1> QED BY <1>1, <1>2

(* A row that the invariant holds of has its type and can be read back.    *)
LEMMA ReadRow ==
  ASSUME IInv, NEW r \in Rows
  PROVE  outbox[r] \in Row /\ RowReadable(outbox[r])
BY DEF IInv, TypeOK, RowFact

(* Replacing one row replaces that row.                                    *)
LEMMA OneRow ==
  ASSUME NEW r \in Rows, NEW row, outbox \in [Rows -> Row],
         outbox' = [outbox EXCEPT ![r] = row]
  PROVE  /\ outbox'[r] = row
         /\ \A q \in Rows \ {r} : outbox'[q] = outbox[q]
         /\ row \in Row => outbox' \in [Rows -> Row]
OBVIOUS

-----------------------------------------------------------------------------
(* Row r may become row: same text and no new life, no attempt gained or   *)
(* lost, and an outcome only if the provider's evidence supports it.       *)
Advances(r, row) ==
  /\ row \in Row /\ RowReadable(row) /\ row.status # "absent"
  /\ outbox[r].status # "absent"
  /\ row.draft = outbox[r].draft /\ row.revision = outbox[r].revision
  /\ row.content = outbox[r].content /\ row.retryOf = outbox[r].retryOf
  /\ row.history = outbox[r].history
  /\ row.status \in Live => outbox[r].status \in Live
  /\ row.status = "sent" /\ row.basis = "provider" => delivered[r] = 1
  /\ row.status = "failed" => delivered[r] = 0 /\ calls[r] = 0

Announced(r, status) ==
  /\ <<r, "approval_required">> \in attention' <=> status = "pending_approval"
  /\ <<r, "send_unknown">> \in attention' <=> status = "human_decision"

(* The attention items after a step that moves row r only, to status.      *)
Announces(r, status) ==
  /\ attention' \subseteq Rows \X Kinds
  /\ \A q \in Rows \ {r}, k \in Kinds : <<q, k>> \in attention' <=> <<q, k>> \in attention
  /\ Announced(r, status)

(* A row that advances while its attention is kept exact keeps its facts.  *)
LEMMA Advanced ==
  ASSUME IInv, NEW r \in Rows, NEW row, outbox'[r] = row, Advances(r, row),
         Announced(r, row.status), UNCHANGED <<drafts, calls, delivered, refused>>
  PROVE  RowFact(r)'
<1>1. RowFact(r)
  BY DEF IInv
<1>2. row.basis = "provider" => row.status = "sent"
  BY NoneIsNull DEF Advances, RowReadable
<1>3. RowReadable(outbox'[r])
  BY DEF Advances
<1>4. RowReadable(outbox[r])'
  BY <1>3 DEF RowReadable, NoRow
<1> QED BY <1>1, <1>2, <1>4 DEF RowFact, Advances, Announced, Live

(* A row that a step leaves alone keeps its facts.                         *)
LEMMA Unmoved ==
  ASSUME IInv, NEW r \in Rows, outbox'[r] = outbox[r],
         \A k \in Kinds : <<r, k>> \in attention' <=> <<r, k>> \in attention,
         UNCHANGED <<drafts, calls, delivered, refused>>
  PROVE  RowFact(r)'
<1>1. RowFact(r)
  BY DEF IInv
<1>2. RowReadable(outbox[r])'
  BY <1>1 DEF RowFact, RowReadable, NoRow
<1> QED BY <1>1, <1>2 DEF RowFact, Kinds

(* A row that advances, its attention announced, keeps the invariant.      *)
LEMMA AdvanceKeepsFacts ==
  ASSUME IInv, NEW r \in Rows, NEW row,
         outbox' = [outbox EXCEPT ![r] = row], Advances(r, row), Announces(r, row.status),
         UNCHANGED <<drafts, calls, delivered, refused>>
  PROVE  /\ outbox' \in [Rows -> Row] /\ attention' \subseteq Rows \X Kinds
         /\ DraftsWritten' /\ \A q \in Rows : RowFact(q)'
<1>1. outbox \in [Rows -> Row]
  BY DEF IInv, TypeOK
<1>2. /\ outbox'[r] = row
      /\ \A q \in Rows \ {r} : outbox'[q] = outbox[q]
      /\ outbox' \in [Rows -> Row]
  BY <1>1, OneRow DEF Advances
<1>3. RowFact(r)'
  BY <1>2, Advanced DEF Announces
<1>4. ASSUME NEW q \in Rows \ {r} PROVE RowFact(q)'
  BY <1>2, Unmoved DEF Announces
<1>5. DraftsWritten'
  BY DEF IInv, DraftsWritten
<1> QED BY <1>2, <1>3, <1>4, <1>5 DEF Announces

(* Evidence about the only call settles what the provider did with it.     *)
LEMMA OneAttempt ==
  ASSUME IInv, NEW r \in Rows
  PROVE  /\ delivered[r] > 0 => delivered[r] = 1
         /\ refused[r] => delivered[r] = 0 /\ calls[r] = 0
<1>1. /\ calls[r] \in Nat /\ delivered[r] \in Nat /\ refused[r] \in BOOLEAN
      /\ calls[r] + delivered[r] + (IF refused[r] THEN 1 ELSE 0) <= 1
  BY DEF IInv, TypeOK, RowFact
<1>2. CASE refused[r]
  BY <1>1, <1>2
<1>3. CASE ~refused[r]
  BY <1>1, <1>3
<1> QED BY <1>2, <1>3

-----------------------------------------------------------------------------
(* The steps that move one row.  Each lemma says which row it becomes.     *)

(* A new token leaves its row pending.                                     *)
LEMMA IssueApprovalCapabilityStep ==
  ASSUME IInv, NEW r \in Rows, NEW s \in Sessions, NEW t \in Tokens, NEW ttl \in TTLs, IssueApprovalCapability(r, s, t, ttl)
  PROVE  IInv'
<1> DEFINE row == [outbox[r] EXCEPT !.cap = [token |-> t, session |-> s, expires |-> Deadline(now, ttl)]]
<1>1. outbox[r] \in Row /\ RowReadable(outbox[r])
  BY ReadRow
<1>2. row.cap \in Capability
  BY BoundsAreNatural, DurationsArePositive DEF Deadline, Time, IInv, TypeOK, Capability
<1>3. row.status = "pending_approval" /\ row \in Row
  <2>1. "pending_approval" \in Statuses
    BY DEF Statuses
  <2> QED BY <1>1, <2>1, <1>2 DEF Row, IssueApprovalCapability
<1>4. RowReadable(row)
  BY <1>1, <1>2, NoneIsNull DEF Row, RowReadable, Attempted, IssueApprovalCapability
<1>5. Advances(r, row)
  BY <1>1, <1>3, <1>4 DEF Advances, Row, Live, IssueApprovalCapability
<1>6. outbox' = [outbox EXCEPT ![r] = row]
  BY <1>1 DEF IssueApprovalCapability, IInv, TypeOK, Row
<1>7. Announces(r, "pending_approval")
  BY DEF Announces, IssueApprovalCapability, IInv, TypeOK, RowFact, Kinds, Announced
<1>8. /\ outbox' \in [Rows -> Row] /\ attention' \subseteq Rows \X Kinds
      /\ DraftsWritten' /\ \A q \in Rows : RowFact(q)'
  BY <1>3, <1>5, <1>6, <1>7, AdvanceKeepsFacts DEF IssueApprovalCapability, provider
<1>9. grants' \in [Tokens -> Grant \cup {None}]
  <2>1. [row |-> r, session |-> s, expires |-> Deadline(now, ttl), replaced |-> FALSE] \in Grant
    BY BoundsAreNatural, DurationsArePositive DEF Deadline, Time, IInv, TypeOK, Grant
  <2>2. \A u \in Tokens : grants[u] \in Grant \cup {None}
    BY DEF IInv, TypeOK
  <2>3. \A u \in Tokens : grants[u] # None => [grants[u] EXCEPT !.replaced = TRUE] \in Grant
    BY <2>2 DEF Grant
  <2> QED BY <2>1, <2>2, <2>3 DEF IssueApprovalCapability
<1> QED BY <1>8, <1>9 DEF IssueApprovalCapability, IInv, TypeOK, Kinds, provider

(* An approval resolves the row's request and spends its token.            *)
LEMMA ApproveStep ==
  ASSUME IInv, NEW r \in Rows, NEW s \in Sessions, NEW t \in Tokens, Approve(r, t, s)
  PROVE  IInv'
<1> DEFINE row == [outbox[r] EXCEPT !.status = "approved", !.cap = None, !.consumed = TRUE]
<1>1. outbox[r] \in Row /\ RowReadable(outbox[r])
  BY ReadRow
<1>2. row.status = "approved" /\ row \in Row
  <2>1. "approved" \in Statuses
    BY DEF Statuses
  <2>2. row \in Row
    BY <1>1, <2>1 DEF Row
  <2>3. row.status = "approved"
    BY <1>1 DEF Row
  <2> QED BY <2>2, <2>3
<1>3. RowReadable(row)
  BY <1>1, NoneIsNull DEF Row, RowReadable, Attempted, Approve, Capability
<1>4. Advances(r, row)
  BY <1>1, <1>2, <1>3 DEF Advances, Row, Live, Approve, Capability
<1>5. outbox' = [outbox EXCEPT ![r] = row]
  BY <1>1 DEF Approve, IInv, TypeOK, Row
<1>6. Announces(r, "approved")
  BY DEF Announces, Approve, Capability, IInv, TypeOK, RowFact, Kinds, Announced
<1>7. /\ outbox' \in [Rows -> Row] /\ attention' \subseteq Rows \X Kinds
      /\ DraftsWritten' /\ \A q \in Rows : RowFact(q)'
  BY <1>2, <1>4, <1>5, <1>6, AdvanceKeepsFacts DEF Approve, provider
<1>8. approval' \in [Rows -> Approval \cup {None}]
  <2>1. [token |-> t, session |-> s, at |-> now] \in Approval
    BY BoundsAreNatural DEF Time, IInv, TypeOK, Approval
  <2> QED BY <2>1 DEF Approve, IInv, TypeOK
<1> QED BY <1>7, <1>8 DEF Approve, IInv, TypeOK, Kinds, provider

(* A rejection resolves the row's request.                                 *)
LEMMA RejectStep ==
  ASSUME IInv, NEW r \in Rows, Reject(r)
  PROVE  IInv'
<1> DEFINE row == [outbox[r] EXCEPT !.status = "rejected", !.cap = None]
<1>1. outbox[r] \in Row /\ RowReadable(outbox[r])
  BY ReadRow
<1>2. row.status = "rejected" /\ row \in Row
  <2>1. "rejected" \in Statuses
    BY DEF Statuses
  <2>2. row \in Row
    BY <1>1, <2>1 DEF Row
  <2>3. row.status = "rejected"
    BY <1>1 DEF Row
  <2> QED BY <2>2, <2>3
<1>3. RowReadable(row)
  BY <1>1, NoneIsNull DEF Row, RowReadable, Attempted, Reject
<1>4. Advances(r, row)
  BY <1>1, <1>2, <1>3 DEF Advances, Row, Live, Reject
<1>5. outbox' = [outbox EXCEPT ![r] = row]
  BY <1>1 DEF Reject, IInv, TypeOK, Row
<1>6. Announces(r, "rejected")
  BY DEF Announces, Reject, IInv, TypeOK, RowFact, Kinds, Announced
<1>7. /\ outbox' \in [Rows -> Row] /\ attention' \subseteq Rows \X Kinds
      /\ DraftsWritten' /\ \A q \in Rows : RowFact(q)'
  BY <1>2, <1>4, <1>5, <1>6, AdvanceKeepsFacts DEF Reject, provider
<1> QED BY <1>7 DEF Reject, IInv, TypeOK, Kinds, authority, provider

(* A row is cancelled by its user only before its dispatch.                *)
LEMMA CancelStep ==
  ASSUME IInv, NEW r \in Rows, Cancel(r)
  PROVE  IInv'
<1> DEFINE row == [outbox[r] EXCEPT !.status = "cancelled", !.lease = None, !.reason = "cancelled"]
<1>1. outbox[r] \in Row /\ RowReadable(outbox[r])
  BY ReadRow
<1>2. row.status = "cancelled" /\ row \in Row
  <2>1. "cancelled" \in Statuses
    BY DEF Statuses
  <2>2. row \in Row
    BY <1>1, <2>1 DEF Row
  <2>3. row.status = "cancelled"
    BY <1>1 DEF Row
  <2> QED BY <2>2, <2>3
<1>3. RowReadable(row)
  BY <1>1, NoneIsNull DEF Row, RowReadable, Attempted, Cancel
<1>4. Advances(r, row)
  BY <1>1, <1>2, <1>3 DEF Advances, Row, Live, Cancel
<1>5. outbox' = [outbox EXCEPT ![r] = row]
  BY <1>1 DEF Cancel, IInv, TypeOK, Row
<1>6. Announces(r, "cancelled")
  BY DEF Announces, Cancel, IInv, TypeOK, RowFact, Kinds, Announced
<1>7. /\ outbox' \in [Rows -> Row] /\ attention' \subseteq Rows \X Kinds
      /\ DraftsWritten' /\ \A q \in Rows : RowFact(q)'
  BY <1>2, <1>4, <1>5, <1>6, AdvanceKeepsFacts DEF Cancel, provider
<1> QED BY <1>7 DEF Cancel, IInv, TypeOK, Kinds, authority, provider

(* A claim gives an approved row, or one whose claim expired, a new lease. *)
LEMMA ClaimRowStep ==
  ASSUME IInv, NEW r \in Rows, NEW w \in Workers, NEW lease \in Leases, ClaimRow(r, w, lease)
  PROVE  IInv'
<1> DEFINE row == [outbox[r] EXCEPT !.status = "claimed",
                            !.lease = [owner |-> w, expires |-> Deadline(now, lease)]]
<1>1. outbox[r] \in Row /\ RowReadable(outbox[r])
  BY ReadRow
<1>2. row.lease \in Lease
  BY BoundsAreNatural, DurationsArePositive DEF Deadline, Time, IInv, TypeOK, Lease
<1>3. row.status = "claimed" /\ row \in Row
  <2>1. "claimed" \in Statuses
    BY DEF Statuses
  <2>2. row \in Row
    BY <1>1, <2>1, <1>2 DEF Row
  <2>3. row.status = "claimed"
    BY <1>1 DEF Row
  <2> QED BY <2>2, <2>3
<1>4. RowReadable(row)
  BY <1>1, <1>2, NoneIsNull DEF Row, RowReadable, Attempted, ClaimRow, Claimable
<1>5. Advances(r, row)
  BY <1>1, <1>3, <1>4 DEF Advances, Row, Live, ClaimRow, Claimable
<1>6. outbox' = [outbox EXCEPT ![r] = row]
  BY <1>1 DEF ClaimRow, IInv, TypeOK, Row
<1>7. Announces(r, "claimed")
  BY DEF Announces, ClaimRow, Claimable, IInv, TypeOK, RowFact, Kinds, Announced
<1>8. /\ outbox' \in [Rows -> Row] /\ attention' \subseteq Rows \X Kinds
      /\ DraftsWritten' /\ \A q \in Rows : RowFact(q)'
  BY <1>3, <1>5, <1>6, <1>7, AdvanceKeepsFacts DEF ClaimRow, provider
<1> QED BY <1>8 DEF ClaimRow, IInv, TypeOK, Kinds, authority, provider

(* A worker reports what the provider accepted.                            *)
LEMMA MarkSentStep ==
  ASSUME IInv, NEW r \in Rows, NEW w \in Workers, MarkSent(r, w)
  PROVE  IInv'
<1> DEFINE row == [outbox[r] EXCEPT !.status = "sent", !.lease = None, !.basis = "provider"]
<1>1. outbox[r] \in Row /\ RowReadable(outbox[r])
  BY ReadRow
<1>2. delivered[r] > 0
  BY DEF MarkSent
<1>3. delivered[r] = 1
  BY <1>2, OneAttempt
<1>4. row.status = "sent" /\ row \in Row
  <2>1. "sent" \in Statuses
    BY DEF Statuses
  <2>2. row \in Row
    BY <1>1, <2>1 DEF Row
  <2>3. row.status = "sent"
    BY <1>1 DEF Row
  <2> QED BY <2>2, <2>3
<1>5. RowReadable(row)
  BY <1>1, NoneIsNull DEF Row, RowReadable, Attempted, MarkSent, Reports
<1>6. Advances(r, row)
  BY <1>1, <1>4, <1>5, <1>3 DEF Advances, Row, Live, MarkSent, Reports
<1>7. outbox' = [outbox EXCEPT ![r] = row]
  BY <1>1 DEF MarkSent, IInv, TypeOK, Row
<1>8. Announces(r, "sent")
  BY DEF Announces, MarkSent, Reports, IInv, TypeOK, RowFact, Kinds, Announced
<1>9. /\ outbox' \in [Rows -> Row] /\ attention' \subseteq Rows \X Kinds
      /\ DraftsWritten' /\ \A q \in Rows : RowFact(q)'
  BY <1>4, <1>6, <1>7, <1>8, AdvanceKeepsFacts DEF MarkSent, provider
<1> QED BY <1>9 DEF MarkSent, IInv, TypeOK, Kinds, authority, provider

(* A worker reports what the provider refused.                             *)
LEMMA MarkFailedStep ==
  ASSUME IInv, NEW r \in Rows, NEW w \in Workers, MarkFailed(r, w)
  PROVE  IInv'
<1> DEFINE row == [outbox[r] EXCEPT !.status = "failed", !.lease = None, !.failure = TRUE]
<1>1. outbox[r] \in Row /\ RowReadable(outbox[r])
  BY ReadRow
<1>2. refused[r]
  BY DEF MarkFailed
<1>3. delivered[r] = 0 /\ calls[r] = 0
  BY <1>2, OneAttempt
<1>4. row.status = "failed" /\ row \in Row
  <2>1. "failed" \in Statuses
    BY DEF Statuses
  <2>2. row \in Row
    BY <1>1, <2>1 DEF Row
  <2>3. row.status = "failed"
    BY <1>1 DEF Row
  <2> QED BY <2>2, <2>3
<1>5. RowReadable(row)
  BY <1>1, NoneIsNull DEF Row, RowReadable, Attempted, MarkFailed, Reports
<1>6. Advances(r, row)
  BY <1>1, <1>4, <1>5, <1>3 DEF Advances, Row, Live, MarkFailed, Reports
<1>7. outbox' = [outbox EXCEPT ![r] = row]
  BY <1>1 DEF MarkFailed, IInv, TypeOK, Row
<1>8. Announces(r, "failed")
  BY DEF Announces, MarkFailed, Reports, IInv, TypeOK, RowFact, Kinds, Announced
<1>9. /\ outbox' \in [Rows -> Row] /\ attention' \subseteq Rows \X Kinds
      /\ DraftsWritten' /\ \A q \in Rows : RowFact(q)'
  BY <1>4, <1>6, <1>7, <1>8, AdvanceKeepsFacts DEF MarkFailed, provider
<1> QED BY <1>9 DEF MarkFailed, IInv, TypeOK, Kinds, authority, provider

(* A worker that got no answer starts the reconciliation.                  *)
LEMMA MarkUnknownStep ==
  ASSUME IInv, NEW r \in Rows, NEW w \in Workers, NEW wait \in Waits, MarkUnknown(r, w, wait)
  PROVE  IInv'
<1> DEFINE row == Reconciling(outbox[r], wait)
<1>1. outbox[r] \in Row /\ RowReadable(outbox[r])
  BY ReadRow
<1>2. row.recon = [deadline |-> Deadline(now, wait), next |-> now] /\ now \in Nat
  BY <1>1, BoundsAreNatural DEF Row, Reconciling, Time, IInv, TypeOK
<1>3. row.recon \in Reconciliation /\ row.recon.next # None
  BY <1>2, NoneIsNull, DurationsArePositive DEF Deadline, Reconciliation
<1>4. row.status = "unknown" /\ row \in Row
  <2>1. "unknown" \in Statuses
    BY DEF Statuses
  <2>2. row \in Row
    BY <1>1, <2>1, <1>3 DEF Row, Reconciling
  <2>3. row.status = "unknown"
    BY <1>1 DEF Row, Reconciling
  <2> QED BY <2>2, <2>3
<1>5. RowReadable(row)
  BY <1>1, <1>3, NoneIsNull DEF Row, RowReadable, Attempted, MarkUnknown, Reports, Reconciling
<1>6. Advances(r, row)
  BY <1>1, <1>4, <1>5 DEF Advances, Row, Live, MarkUnknown, Reports, Reconciling
<1>7. outbox' = [outbox EXCEPT ![r] = row]
  BY <1>1 DEF MarkUnknown, IInv, TypeOK, Row
<1>8. Announces(r, "unknown")
  BY DEF Announces, MarkUnknown, Reports, Reconciling, IInv, TypeOK, RowFact, Kinds, Announced
<1>9. /\ outbox' \in [Rows -> Row] /\ attention' \subseteq Rows \X Kinds
      /\ DraftsWritten' /\ \A q \in Rows : RowFact(q)'
  BY <1>4, <1>6, <1>7, <1>8, AdvanceKeepsFacts DEF MarkUnknown, provider
<1> QED BY <1>9 DEF MarkUnknown, IInv, TypeOK, Kinds, authority, provider

(* A search that finds the message settles the row on evidence.            *)
LEMMA ReconciliationFoundStep ==
  ASSUME IInv, NEW r \in Rows, ReconciliationFound(r)
  PROVE  IInv'
<1> DEFINE row == [outbox[r] EXCEPT !.status = "sent", !.recon = None, !.basis = "provider"]
<1>1. outbox[r] \in Row /\ RowReadable(outbox[r])
  BY ReadRow
<1>2. delivered[r] > 0
  BY DEF ReconciliationFound
<1>3. delivered[r] = 1
  BY <1>2, OneAttempt
<1>4. row.status = "sent" /\ row \in Row
  <2>1. "sent" \in Statuses
    BY DEF Statuses
  <2>2. row \in Row
    BY <1>1, <2>1 DEF Row
  <2>3. row.status = "sent"
    BY <1>1 DEF Row
  <2> QED BY <2>2, <2>3
<1>5. RowReadable(row)
  BY <1>1, NoneIsNull DEF Row, RowReadable, Attempted, ReconciliationFound, Searchable
<1>6. Advances(r, row)
  BY <1>1, <1>4, <1>5, <1>3 DEF Advances, Row, Live, ReconciliationFound, Searchable
<1>7. outbox' = [outbox EXCEPT ![r] = row]
  BY <1>1 DEF ReconciliationFound, IInv, TypeOK, Row
<1>8. Announces(r, "sent")
  BY DEF Announces, ReconciliationFound, Searchable, IInv, TypeOK, RowFact, Kinds, Announced
<1>9. /\ outbox' \in [Rows -> Row] /\ attention' \subseteq Rows \X Kinds
      /\ DraftsWritten' /\ \A q \in Rows : RowFact(q)'
  BY <1>4, <1>6, <1>7, <1>8, AdvanceKeepsFacts DEF ReconciliationFound, provider
<1> QED BY <1>9 DEF ReconciliationFound, IInv, TypeOK, Kinds, authority, provider

(* A search that misses before the deadline is planned again.              *)
LEMMA ReconciliationMissStep ==
  ASSUME IInv, NEW r \in Rows, NEW backoff \in Backoffs, ReconciliationMiss(r, backoff)
  PROVE  IInv'
<1> DEFINE row == [outbox[r] EXCEPT !.recon =
                  [outbox[r].recon EXCEPT !.next = Earlier(now + backoff, outbox[r].recon.deadline)]]
<1>1. outbox[r] \in Row /\ RowReadable(outbox[r])
  BY ReadRow
<1>2. row.recon \in Reconciliation /\ row.recon.next # None
  BY <1>1, NoneIsNull, BoundsAreNatural, DurationsArePositive
  DEF Row, RowReadable, Due, Reconciliation, Earlier, Time, IInv, TypeOK, ReconciliationMiss
<1>3. row.status = "unknown" /\ row \in Row
  <2>1. "unknown" \in Statuses
    BY DEF Statuses
  <2> QED BY <1>1, <2>1, <1>2 DEF Row, ReconciliationMiss, Due
<1>4. RowReadable(row)
  BY <1>1, <1>2, NoneIsNull DEF Row, RowReadable, Attempted, ReconciliationMiss, Due, Earlier
<1>5. Advances(r, row)
  BY <1>1, <1>3, <1>4 DEF Advances, Row, Live, ReconciliationMiss, Due, Earlier
<1>6. outbox' = [outbox EXCEPT ![r] = row]
  BY <1>1 DEF ReconciliationMiss, IInv, TypeOK, Row
<1>7. Announces(r, "unknown")
  BY DEF Announces, ReconciliationMiss, Due, Earlier, IInv, TypeOK, RowFact, Kinds, Announced
<1>8. /\ outbox' \in [Rows -> Row] /\ attention' \subseteq Rows \X Kinds
      /\ DraftsWritten' /\ \A q \in Rows : RowFact(q)'
  BY <1>3, <1>5, <1>6, <1>7, AdvanceKeepsFacts DEF ReconciliationMiss, provider
<1> QED BY <1>8 DEF ReconciliationMiss, IInv, TypeOK, Kinds, authority, provider

(* A search that misses at the deadline hands the row to the user.         *)
LEMMA ReconciliationGivesUpStep ==
  ASSUME IInv, NEW r \in Rows, ReconciliationGivesUp(r)
  PROVE  IInv'
<1> DEFINE row == [outbox[r] EXCEPT !.status = "human_decision",
                            !.recon = [outbox[r].recon EXCEPT !.next = None]]
<1>1. outbox[r] \in Row /\ RowReadable(outbox[r])
  BY ReadRow
<1>2. outbox[r].status = "unknown"
  BY DEF ReconciliationGivesUp, Due
<1>3. <<r, "approval_required">> \notin attention
  BY <1>2 DEF IInv, RowFact
<1>4. row.recon \in Reconciliation /\ row.recon.next = None
  BY <1>1 DEF Row, RowReadable, Due, Reconciliation, ReconciliationGivesUp
<1>5. row.status = "human_decision" /\ row \in Row
  <2>1. "human_decision" \in Statuses
    BY DEF Statuses
  <2>2. row \in Row
    BY <1>1, <2>1, <1>4 DEF Row, ReconciliationGivesUp, Due
  <2>3. row.status = "human_decision"
    BY <1>1 DEF Row
  <2> QED BY <2>2, <2>3
<1>6. RowReadable(row)
  BY <1>1, <1>4, NoneIsNull DEF Row, RowReadable, Attempted, ReconciliationGivesUp, Due
<1>7. Advances(r, row)
  BY <1>1, <1>5, <1>6 DEF Advances, Row, Live, ReconciliationGivesUp, Due
<1>8. outbox' = [outbox EXCEPT ![r] = row]
  BY <1>1 DEF ReconciliationGivesUp, IInv, TypeOK, Row
<1>9. Announces(r, "human_decision")
  BY <1>3 DEF Announces, ReconciliationGivesUp, Due, IInv, TypeOK, RowFact, Kinds, Announced
<1>10. /\ outbox' \in [Rows -> Row] /\ attention' \subseteq Rows \X Kinds
      /\ DraftsWritten' /\ \A q \in Rows : RowFact(q)'
  BY <1>5, <1>7, <1>8, <1>9, AdvanceKeepsFacts DEF ReconciliationGivesUp, provider
<1> QED BY <1>10 DEF ReconciliationGivesUp, IInv, TypeOK, Kinds, authority, provider

(* The user sends the row back to the search.                              *)
LEMMA KeepWaitingStep ==
  ASSUME IInv, NEW r \in Rows, NEW wait \in Waits, KeepWaiting(r, wait)
  PROVE  IInv'
<1> DEFINE row == [outbox[r] EXCEPT !.status = "unknown",
                            !.recon = [deadline |-> Deadline(now, wait), next |-> now]]
<1>1. outbox[r] \in Row /\ RowReadable(outbox[r])
  BY ReadRow
<1>2. row.recon = [deadline |-> Deadline(now, wait), next |-> now] /\ now \in Nat
  BY <1>1, BoundsAreNatural DEF Row, Time, IInv, TypeOK
<1>3. row.recon \in Reconciliation /\ row.recon.next # None
  BY <1>2, NoneIsNull, DurationsArePositive DEF Deadline, Reconciliation
<1>4. row.status = "unknown" /\ row \in Row
  <2>1. "unknown" \in Statuses
    BY DEF Statuses
  <2>2. row \in Row
    BY <1>1, <2>1, <1>3 DEF Row
  <2>3. row.status = "unknown"
    BY <1>1 DEF Row
  <2> QED BY <2>2, <2>3
<1>5. RowReadable(row)
  BY <1>1, <1>3, NoneIsNull DEF Row, RowReadable, Attempted, KeepWaiting
<1>6. Advances(r, row)
  BY <1>1, <1>4, <1>5 DEF Advances, Row, Live, KeepWaiting
<1>7. outbox' = [outbox EXCEPT ![r] = row]
  BY <1>1 DEF KeepWaiting, IInv, TypeOK, Row
<1>8. Announces(r, "unknown")
  BY DEF Announces, KeepWaiting, IInv, TypeOK, RowFact, Kinds, Announced
<1>9. /\ outbox' \in [Rows -> Row] /\ attention' \subseteq Rows \X Kinds
      /\ DraftsWritten' /\ \A q \in Rows : RowFact(q)'
  BY <1>4, <1>6, <1>7, <1>8, AdvanceKeepsFacts DEF KeepWaiting, provider
<1> QED BY <1>9 DEF KeepWaiting, IInv, TypeOK, Kinds, authority, provider

(* The user settles the row; the provider's evidence is not claimed.       *)
LEMMA MarkHumanSentStep ==
  ASSUME IInv, NEW r \in Rows, MarkHumanSent(r)
  PROVE  IInv'
<1> DEFINE row == [outbox[r] EXCEPT !.status = "sent", !.recon = None, !.basis = "human"]
<1>1. outbox[r] \in Row /\ RowReadable(outbox[r])
  BY ReadRow
<1>2. row.status = "sent" /\ row \in Row
  <2>1. "sent" \in Statuses
    BY DEF Statuses
  <2>2. row \in Row
    BY <1>1, <2>1 DEF Row
  <2>3. row.status = "sent"
    BY <1>1 DEF Row
  <2> QED BY <2>2, <2>3
<1>3. RowReadable(row)
  BY <1>1, NoneIsNull DEF Row, RowReadable, Attempted, MarkHumanSent
<1>4. Advances(r, row)
  BY <1>1, <1>2, <1>3 DEF Advances, Row, Live, MarkHumanSent
<1>5. outbox' = [outbox EXCEPT ![r] = row]
  BY <1>1 DEF MarkHumanSent, IInv, TypeOK, Row
<1>6. Announces(r, "sent")
  BY DEF Announces, MarkHumanSent, IInv, TypeOK, RowFact, Kinds, Announced
<1>7. /\ outbox' \in [Rows -> Row] /\ attention' \subseteq Rows \X Kinds
      /\ DraftsWritten' /\ \A q \in Rows : RowFact(q)'
  BY <1>2, <1>4, <1>5, <1>6, AdvanceKeepsFacts DEF MarkHumanSent, provider
<1> QED BY <1>7 DEF MarkHumanSent, IInv, TypeOK, Kinds, authority, provider

(* The dispatch licenses the only call: no call was made before it.        *)
LEMMA MarkDispatchedStep ==
  ASSUME IInv, NEW r \in Rows, NEW w \in Workers, MarkDispatched(r, w)
  PROVE  IInv'
<1> DEFINE row == [outbox[r] EXCEPT !.status = "dispatched", !.history = TRUE]
<1>1. /\ outbox[r] \in Row /\ RowReadable(outbox[r]) /\ outbox[r].status = "claimed"
      /\ RowFact(r) /\ outbox \in [Rows -> Row]
  BY ReadRow DEF MarkDispatched, IInv, TypeOK
<1>2. row.status = "dispatched" /\ row \in Row
  <2>1. "dispatched" \in Statuses
    BY DEF Statuses
  <2>2. row \in Row
    BY <1>1, <2>1 DEF Row
  <2>3. row.status = "dispatched"
    BY <1>1 DEF Row
  <2> QED BY <2>2, <2>3
<1>3. RowReadable(row)
  BY <1>1, NoneIsNull DEF Row, RowReadable, Attempted
<1>4. outbox' = [outbox EXCEPT ![r] = row]
  BY <1>1 DEF MarkDispatched, Row
<1>5. /\ outbox'[r] = row /\ outbox' \in [Rows -> Row]
      /\ \A q \in Rows \ {r} : outbox'[q] = outbox[q]
  BY <1>1, <1>2, <1>4, OneRow
<1>6. calls[r] = 0 /\ delivered[r] = 0 /\ ~refused[r]
  BY <1>1 DEF RowFact, RowReadable, Attempted
<1>7. calls'[r] = 1 /\ delivered'[r] = 0 /\ ~refused'[r]
  BY <1>6 DEF MarkDispatched, IInv, TypeOK
<1>8. RowFact(r)'
  <2>1. RowReadable(outbox[r])'
    BY <1>3, <1>5 DEF RowReadable, NoRow
  <2>2. /\ row.draft = outbox[r].draft /\ row.revision = outbox[r].revision
        /\ row.content = outbox[r].content /\ row.retryOf = outbox[r].retryOf
        /\ row.basis = outbox[r].basis /\ row.history /\ row.status = "dispatched"
    BY <1>1, <1>2 DEF Row
  <2>3. UNCHANGED <<drafts, attention>>
    BY DEF MarkDispatched
  <2> QED BY <1>1, <1>5, <1>6, <1>7, <2>1, <2>2, <2>3 DEF RowFact, Live
<1>9. ASSUME NEW q \in Rows \ {r} PROVE RowFact(q)'
  <2>1. RowFact(q)
    BY DEF IInv
  <2>2. outbox'[q] = outbox[q] /\ calls'[q] = calls[q]
    BY <1>5 DEF MarkDispatched, IInv, TypeOK
  <2>3. RowReadable(outbox[q])'
    BY <2>1, <2>2 DEF RowFact, RowReadable, NoRow
  <2> QED BY <2>1, <2>2, <2>3 DEF RowFact, MarkDispatched
<1> QED BY <1>5, <1>8, <1>9 DEF MarkDispatched, IInv, TypeOK, DraftsWritten, authority

-----------------------------------------------------------------------------
(* The steps that make a row.                                              *)

(* Row r may begin as row: pending, and of its draft or of an attempt.     *)
Begins(r, row) ==
  /\ row \in Row /\ RowReadable(row) /\ row.status = "pending_approval"
  /\ outbox[r].status = "absent" /\ row.basis = None
  /\ row.retryOf = None => row.revision = drafts[row.draft].revision
                           /\ row.content = drafts[row.draft].content
  /\ row.revision <= drafts[row.draft].revision

(* A row that begins, its attention announced, keeps the invariant.        *)
LEMMA Begun ==
  ASSUME IInv, NEW r \in Rows, NEW row, outbox'[r] = row, Begins(r, row),
         Announced(r, "pending_approval"), UNCHANGED <<drafts, calls, delivered, refused>>
  PROVE  RowFact(r)'
<1>1. ~outbox[r].history
  BY ReadRow DEF RowReadable, NoRow, Begins
<1>2. calls[r] = 0 /\ delivered[r] = 0 /\ ~refused[r]
  BY <1>1 DEF IInv, RowFact
<1>3. RowReadable(outbox[r])'
  BY DEF Begins, RowReadable, NoRow
<1> QED BY <1>2, <1>3, NoneIsNull DEF RowFact, Begins, Announced

(* A pending row made from a revision of a draft is a readable row.        *)
LEMMA PendingRowFits ==
  ASSUME IInv, NEW d \in Drafts, NEW n \in Nat \ {0}, NEW c \in Content, NEW k \in Keys,
         NEW parent \in Rows \cup {None}, NEW row, row = PendingRow(d, n, c, k, parent)
  PROVE  /\ row \in Row /\ RowReadable(row) /\ row.status = "pending_approval"
         /\ row.draft = d /\ row.revision = n /\ row.content = c /\ row.retryOf = parent
         /\ row.basis = None
<1>1. row = [status |-> "pending_approval", draft |-> d, revision |-> n, content |-> c,
             key |-> k, retryOf |-> parent, created |-> now, cap |-> None, consumed |-> FALSE,
             lease |-> None, history |-> FALSE, recon |-> None, basis |-> None,
             failure |-> FALSE, reason |-> None]
  BY DEF PendingRow, NoRow
<1>2. now \in Nat /\ "pending_approval" \in Statuses
  BY BoundsAreNatural DEF IInv, TypeOK, Time, Statuses
<1>3. row \in Row
  BY <1>1, <1>2 DEF Row
<1>4. d # None /\ c # None /\ k # None
  BY NoneIsNull
<1>5. RowReadable(row)
  BY <1>1, <1>4 DEF RowReadable, Attempted
<1> QED BY <1>1, <1>3, <1>5

(* An enqueued row is new, pending and current.                            *)
LEMMA EnqueueStep ==
  ASSUME IInv, NEW d \in Drafts, NEW k \in Keys, NEW r \in Rows, Enqueue(d, k, r)
  PROVE  IInv'
<1>1. drafts[d].revision \in Nat \ {0} /\ drafts[d].content \in Content
  BY DEF Enqueue, IInv, TypeOK, DraftsWritten
<1>2. PICK row : row = PendingRow(d, drafts[d].revision, drafts[d].content, k, None)
  OBVIOUS
<1>3. Begins(r, row)
  <2>1. /\ row \in Row /\ RowReadable(row) /\ row.status = "pending_approval"
        /\ row.draft = d /\ row.revision = drafts[d].revision /\ row.content = drafts[d].content
        /\ row.retryOf = None /\ row.basis = None
    <3>1. None \in Rows \cup {None}
      OBVIOUS
    <3> QED BY <1>1, <1>2, <3>1, PendingRowFits
  <2>2. outbox[r].status = "absent"
    BY DEF Enqueue, NoRow
  <2> QED BY <1>1, <2>1, <2>2 DEF Begins
<1>4. outbox \in [Rows -> Row] /\ outbox' = [outbox EXCEPT ![r] = row]
  BY <1>2 DEF Enqueue, IInv, TypeOK
<1>5. /\ outbox'[r] = row /\ outbox' \in [Rows -> Row]
      /\ \A q \in Rows \ {r} : outbox'[q] = outbox[q]
  BY <1>3, <1>4, OneRow DEF Begins
<1>6. Announces(r, "pending_approval")
  <2>1. <<r, "send_unknown">> \notin attention
    BY DEF Enqueue, IInv, RowFact
  <2> QED BY <2>1 DEF Announces, Announced, Kinds, Enqueue, IInv, TypeOK
<1>7. RowFact(r)'
  BY <1>3, <1>5, <1>6, Begun DEF Enqueue, Announces, provider
<1>8. ASSUME NEW q \in Rows \ {r} PROVE RowFact(q)'
  BY <1>5, <1>6, Unmoved DEF Enqueue, Announces, provider
<1> QED BY <1>5, <1>6, <1>7, <1>8
        DEF Enqueue, IInv, TypeOK, DraftsWritten, Kinds, Announces, authority, provider

(* A retry cancels its parent and begins a pending row with the same text. *)
LEMMA RetryStep ==
  ASSUME IInv, NEW p \in Rows, NEW k \in Keys, NEW r \in Rows, Retry(p, k, r)
  PROVE  IInv'
<1>1. /\ outbox \in [Rows -> Row] /\ outbox[p] \in Row /\ RowReadable(outbox[p]) /\ RowFact(p)
      /\ outbox[p].status = "human_decision" /\ outbox[r].status = "absent" /\ p # r
  BY ReadRow DEF Retry, IInv, TypeOK
<1>2. PICK parent : parent = [outbox[p] EXCEPT !.status = "cancelled", !.recon = None,
                                               !.reason = "retry"]
  OBVIOUS
<1>3. PICK child : child = Resend(p, k)
  OBVIOUS
<1>4. parent \in Row /\ parent.status = "cancelled"
  <2>1. "cancelled" \in Statuses
    BY DEF Statuses
  <2> QED BY <1>1, <1>2, <2>1 DEF Row
<1>5. RowReadable(parent)
  BY <1>1, <1>2, NoneIsNull DEF Row, RowReadable, Attempted
<1>6. Advances(p, parent)
  BY <1>1, <1>2, <1>4, <1>5 DEF Advances, Row, Live
<1>7. outbox[p].draft \in Drafts /\ outbox[p].revision \in Nat \ {0} /\ outbox[p].content \in Content
  BY <1>1, NoneIsNull DEF Row, RowReadable
<1>8. Begins(r, child)
  <2>1. p # None
    BY NoneIsNull
  <2>2. outbox[p].revision <= drafts[outbox[p].draft].revision
    BY <1>1 DEF RowFact
  <2> QED BY <1>1, <1>3, <1>7, <2>1, <2>2, PendingRowFits DEF Begins, Resend
<1>9. outbox' = [outbox EXCEPT ![p] = parent, ![r] = child]
  BY <1>2, <1>3 DEF Retry
<1>10. /\ outbox'[p] = parent /\ outbox'[r] = child /\ outbox' \in [Rows -> Row]
       /\ \A q \in Rows \ {p, r} : outbox'[q] = outbox[q]
  <2>1. child \in Row
    BY <1>8 DEF Begins
  <2> QED BY <1>1, <1>4, <1>9, <2>1
<1>11. /\ attention' \subseteq Rows \X Kinds
       /\ Announced(p, "cancelled") /\ Announced(r, "pending_approval")
       /\ \A q \in Rows \ {p, r}, kind \in Kinds : <<q, kind>> \in attention' <=> <<q, kind>> \in attention
  <2>1. <<r, "send_unknown">> \notin attention /\ <<p, "approval_required">> \notin attention
    BY <1>1 DEF IInv, RowFact
  <2> QED BY <1>1, <2>1 DEF Announced, Kinds, Retry, IInv, TypeOK
<1>12. RowFact(p)'
  BY <1>4, <1>6, <1>10, <1>11, Advanced DEF Retry, provider
<1>13. RowFact(r)'
  BY <1>8, <1>10, <1>11, Begun DEF Retry, provider
<1>14. ASSUME NEW q \in Rows \ {p, r} PROVE RowFact(q)'
  BY <1>10, <1>11, Unmoved DEF Retry, provider
<1> QED BY <1>10, <1>11, <1>12, <1>13, <1>14
        DEF Retry, IInv, TypeOK, DraftsWritten, Kinds, authority, provider

-----------------------------------------------------------------------------
(* The steps that move a draft, or many rows.                              *)

(* A new draft has no rows, so it leaves every row's facts alone.          *)
LEMMA CreateDraftStep ==
  ASSUME IInv, NEW d \in Drafts, NEW c \in Content, CreateDraft(d, c)
  PROVE  IInv'
<1>1. /\ drafts'[d] = [revision |-> 1, content |-> c]
      /\ \A e \in Drafts \ {d} : drafts'[e] = drafts[e]
      /\ drafts' \in [Drafts -> [revision : Nat, content : Content \cup {None}]]
  BY DEF CreateDraft, IInv, TypeOK
<1>2. DraftsWritten'
  BY <1>1, NoneIsNull DEF IInv, DraftsWritten
<1>3. ASSUME NEW q \in Rows PROVE RowFact(q)'
  <2>1. outbox[q] \in Row /\ RowReadable(outbox[q]) /\ RowFact(q)
    BY ReadRow DEF IInv
  <2>2. outbox[q].status # "absent" => outbox[q].draft \in Drafts \ {d}
    <3>1. outbox[q].status # "absent"
          => outbox[q].draft \in Drafts /\ outbox[q].revision \in Nat \ {0}
             /\ outbox[q].revision <= drafts[outbox[q].draft].revision
      BY <2>1 DEF Row, RowReadable, RowFact
    <3> QED BY <3>1 DEF CreateDraft
  <2>3. outbox[q].status # "absent" => drafts'[outbox[q].draft] = drafts[outbox[q].draft]
    BY <1>1, <2>2
  <2>4. RowReadable(outbox[q])'
    BY <2>1 DEF RowReadable, NoRow, CreateDraft
  <2> QED BY <2>1, <2>3, <2>4 DEF RowFact, Live, CreateDraft, provider
<1> QED BY <1>1, <1>2, <1>3 DEF CreateDraft, IInv, TypeOK, authority, provider

(* An edit makes every live row of the draft stale, its requests resolved. *)
LEMMA EditDraftStep ==
  ASSUME IInv, NEW d \in Drafts, NEW c \in Content, EditDraft(d, c)
  PROVE  IInv'
<1>1. /\ drafts'[d] = [revision |-> drafts[d].revision + 1, content |-> c]
      /\ drafts[d].revision \in Nat
      /\ \A e \in Drafts \ {d} : drafts'[e] = drafts[e]
      /\ drafts' \in [Drafts -> [revision : Nat, content : Content \cup {None}]]
  <2>1. drafts \in [Drafts -> [revision : Nat, content : Content \cup {None}]]
    BY DEF IInv, TypeOK
  <2>2. drafts' = [drafts EXCEPT ![d] = [revision |-> drafts[d].revision + 1, content |-> c]]
    BY DEF EditDraft
  <2> QED BY <2>1, <2>2
<1>2. DraftsWritten'
  BY <1>1, NoneIsNull DEF IInv, DraftsWritten
<1>3. ASSUME NEW q \in Rows
      PROVE  /\ outbox'[q] \in Row /\ RowReadable(outbox'[q])
             /\ RowFact(q)'
  <2>1. outbox[q] \in Row /\ RowReadable(outbox[q]) /\ RowFact(q)
    BY ReadRow DEF IInv
  <2>2. outbox[q].status # "absent"
        => /\ outbox[q].draft \in Drafts /\ outbox[q].revision \in Nat
           /\ outbox[q].revision <= drafts[outbox[q].draft].revision
           /\ outbox[q].revision <= drafts'[outbox[q].draft].revision
    <3>1. outbox[q].status # "absent"
          => /\ outbox[q].draft \in Drafts /\ outbox[q].revision \in Nat
             /\ outbox[q].revision <= drafts[outbox[q].draft].revision
      BY <2>1 DEF Row, RowReadable, RowFact
    <3>2. CASE outbox[q].draft = d
      BY <1>1, <3>1, <3>2
    <3>3. CASE outbox[q].draft # d
      BY <1>1, <3>1, <3>3
    <3> QED BY <3>1, <3>2, <3>3
  <2>3. CASE q \in Superseded(d)
    <3>1. PICK row : row = [outbox[q] EXCEPT !.status = "stale", !.cap = None, !.lease = None]
      OBVIOUS
    <3>2. outbox'[q] = row
      BY <2>3, <3>1 DEF EditDraft
    <3>3. row.status = "stale" /\ row \in Row
      <4>1. "stale" \in Statuses
        BY DEF Statuses
      <4> QED BY <2>1, <3>1, <4>1 DEF Row
    <3>4. RowReadable(row)
      BY <2>1, <2>3, <3>1, NoneIsNull DEF Row, RowReadable, Superseded, Live, Attempted
    <3>5. Announced(q, "stale")
      BY <2>1, <2>3, <3>2, <3>3 DEF Announced, EditDraft, Superseded, Live, RowFact
    <3>6. RowReadable(outbox[q])'
      BY <3>2, <3>4 DEF RowReadable, NoRow
    <3>7. row.revision = outbox[q].revision /\ row.draft = outbox[q].draft
          /\ row.history = outbox[q].history /\ row.basis = outbox[q].basis
      BY <2>1, <3>1 DEF Row
    <3> QED BY <2>1, <2>2, <2>3, <3>2, <3>3, <3>4, <3>5, <3>6, <3>7
            DEF RowFact, Announced, Live, Superseded, EditDraft, provider
  <2>4. CASE q \notin Superseded(d)
    <3>1. outbox'[q] = outbox[q]
      BY <2>4 DEF EditDraft
    <3>2. \A k \in Kinds : <<q, k>> \in attention' <=> <<q, k>> \in attention
      BY <2>1, <3>1 DEF EditDraft, RowFact, Kinds
    <3>3. outbox[q].status \in Live => drafts'[outbox[q].draft] = drafts[outbox[q].draft]
      BY <1>1, <2>2, <2>4 DEF Superseded, Live
    <3>4. RowReadable(outbox[q])'
      BY <2>1, <3>1 DEF RowReadable, NoRow
    <3> QED BY <2>1, <2>2, <3>1, <3>2, <3>3, <3>4 DEF RowFact, Kinds, Live, EditDraft, provider
  <2> QED BY <2>3, <2>4
<1>4. outbox' \in [Rows -> Row]
  BY <1>3 DEF EditDraft
<1>5. attention' \subseteq Rows \X Kinds
  BY DEF EditDraft, IInv, TypeOK, Kinds
<1> QED BY <1>1, <1>2, <1>3, <1>4, <1>5 DEF EditDraft, IInv, TypeOK, Kinds, authority, provider

(* Every dispatch whose lease expired becomes unknown, none a guess.       *)
LEMMA RecoverExpiredStep ==
  ASSUME IInv, RecoverExpired
  PROVE  IInv'
<1>1. now \in Nat /\ now # None
  BY BoundsAreNatural, NoneIsNull DEF IInv, TypeOK, Time
<1>2. ASSUME NEW q \in Rows PROVE outbox'[q] \in Row /\ RowFact(q)'
  <2>1. outbox[q] \in Row /\ RowReadable(outbox[q])
    BY ReadRow
  <2>2. CASE q \in ExpiredDispatches
    <3>1. PICK row : row = Reconciling(outbox[q], ReconcileDeadline)
      OBVIOUS
    <3>2. outbox'[q] = row
      BY <2>2, <3>1 DEF RecoverExpired
    <3>3. row.recon = [deadline |-> Deadline(now, ReconcileDeadline), next |-> now]
      BY <2>1, <3>1 DEF Reconciling, Row
    <3>4. row.recon \in Reconciliation /\ row.recon # None
      BY <1>1, <3>3, NoneIsNull, DurationsArePositive DEF Reconciliation, Deadline
    <3>5. row.status = "unknown" /\ row \in Row
      <4>1. "unknown" \in Statuses
        BY DEF Statuses
      <4> QED BY <2>1, <3>1, <3>4, <4>1 DEF Reconciling, Row
    <3>6. RowReadable(row)
      BY <1>1, <2>1, <2>2, <3>1, <3>3, <3>4, NoneIsNull
      DEF Reconciling, Row, RowReadable, ExpiredDispatches, Attempted
    <3>7. Advances(q, row)
      BY <2>1, <2>2, <3>1, <3>5, <3>6 DEF Advances, Reconciling, ExpiredDispatches, Row, Live
    <3>8. Announced(q, "unknown")
      BY <2>2 DEF Announced, RecoverExpired, ExpiredDispatches, IInv, RowFact
    <3> QED BY <3>2, <3>5, <3>7, <3>8, Advanced DEF RecoverExpired, provider
  <2>3. CASE q \notin ExpiredDispatches
    <3>1. outbox'[q] = outbox[q]
      BY <2>3 DEF RecoverExpired
    <3> QED BY <2>1, <3>1, Unmoved DEF RecoverExpired, provider
  <2> QED BY <2>2, <2>3
<1>3. outbox' \in [Rows -> Row]
  BY <1>2 DEF RecoverExpired
<1> QED BY <1>2, <1>3 DEF RecoverExpired, IInv, TypeOK, DraftsWritten, authority, provider

-----------------------------------------------------------------------------
(* The steps outside the store.                                            *)

(* The provider acts once, on a call that was licensed.                    *)
LEMMA ProviderStep ==
  ASSUME IInv, NEW r \in Rows, ProviderAccepts(r) \/ ProviderRefuses(r)
  PROVE  IInv'
<1>1. /\ calls[r] \in Nat /\ delivered[r] \in Nat /\ refused[r] \in BOOLEAN /\ calls[r] > 0
      /\ calls \in [Rows -> Nat] /\ delivered \in [Rows -> Nat] /\ refused \in [Rows -> BOOLEAN]
  BY DEF IInv, TypeOK, ProviderAccepts, ProviderRefuses
<1>2. /\ RowFact(r) /\ outbox' = outbox /\ attention' = attention /\ drafts' = drafts
      /\ DraftsWritten'
  BY DEF IInv, ProviderAccepts, ProviderRefuses, DraftsWritten
<1>3. ~refused[r] /\ calls[r] = 1 /\ delivered[r] = 0
  <2>1. CASE refused[r]
    BY <1>1, <1>2, <2>1 DEF RowFact
  <2>2. CASE ~refused[r]
    BY <1>1, <1>2, <2>2 DEF RowFact
  <2> QED BY <2>1, <2>2
<1>4. ASSUME NEW q \in Rows \ {r} PROVE RowFact(q)'
  <2>1. calls'[q] = calls[q] /\ delivered'[q] = delivered[q] /\ refused'[q] = refused[q]
    BY <1>1 DEF ProviderAccepts, ProviderRefuses
  <2>2. RowFact(q)
    BY DEF IInv
  <2>3. RowReadable(outbox[q])'
    BY <1>2, <2>2 DEF RowFact, RowReadable, NoRow
  <2> QED BY <1>2, <2>1, <2>2, <2>3 DEF RowFact
<1>5. RowReadable(outbox[r])' /\ outbox[r].history /\ outbox[r].basis # "provider"
      /\ outbox[r].status # "failed"
  BY <1>2, <1>3 DEF RowFact, RowReadable, NoRow
<1>6. CASE ProviderAccepts(r)
  <2>1. calls'[r] = 0 /\ delivered'[r] = 1 /\ ~refused'[r]
    BY <1>1, <1>3, <1>6 DEF ProviderAccepts
  <2>2. RowFact(r)'
    BY <1>2, <1>5, <2>1 DEF RowFact
  <2>3. calls' \in [Rows -> Nat] /\ delivered' \in [Rows -> Nat] /\ refused' \in [Rows -> BOOLEAN]
    BY <1>1, <1>3, <1>6 DEF ProviderAccepts
  <2> QED BY <1>2, <1>4, <1>6, <2>2, <2>3 DEF ProviderAccepts, IInv, TypeOK, authority
<1>7. CASE ProviderRefuses(r)
  <2>1. calls'[r] = 0 /\ delivered'[r] = 0 /\ refused'[r]
    BY <1>1, <1>3, <1>7 DEF ProviderRefuses
  <2>2. RowFact(r)'
    BY <1>2, <1>5, <2>1 DEF RowFact
  <2>3. calls' \in [Rows -> Nat] /\ delivered' \in [Rows -> Nat] /\ refused' \in [Rows -> BOOLEAN]
    BY <1>1, <1>3, <1>7 DEF ProviderRefuses
  <2> QED BY <1>2, <1>4, <1>7, <2>2, <2>3 DEF ProviderRefuses, IInv, TypeOK, authority
<1> QED BY <1>6, <1>7

(* Accounts, the archive and the clock are read by no fact about a row.    *)
LEMMA SurroundingsStep ==
  ASSUME IInv, TypeOK', UNCHANGED <<drafts, outbox, attention, provider>>
  PROVE  IInv'
<1>1. ASSUME NEW q \in Rows PROVE RowFact(q)'
  BY Unmoved DEF provider
<1> QED BY <1>1 DEF IInv, DraftsWritten

(* Nothing is stored yet.                                                  *)
LEMMA InitialState == Init => IInv
<1> SUFFICES ASSUME Init PROVE IInv
  OBVIOUS
<1>1. NoRow \in Row
  BY DEF NoRow, Row
<1>2. TypeOK
  BY <1>1, BoundsAreNatural DEF Init, TypeOK, Time
<1>3. DraftsWritten
  BY DEF Init, DraftsWritten
<1>4. RowReadable(NoRow)
  BY NoneIsNull DEF RowReadable, NoRow, Attempted
<1>5. ASSUME NEW q \in Rows PROVE RowFact(q)
  BY <1>4, NoneIsNull DEF Init, RowFact, NoRow, Live
<1> QED BY <1>2, <1>3, <1>5 DEF IInv

-----------------------------------------------------------------------------
(* Every step keeps the invariant: one case per operation.                 *)
LEMMA NextStep == IInv /\ [Next]_vars => IInv'
<1> SUFFICES ASSUME IInv, [Next]_vars PROVE IInv'
  OBVIOUS
<1>1. CASE Environment
  <2>1. ASSUME NEW a \in Accounts, NEW source \in Sources, NEW sendAs \in SUBSET Addresses,
               NEW up \in BOOLEAN, UpsertAccount(a, source, sendAs, up)
        PROVE  IInv'
    <3>1. TypeOK'
      BY <2>1 DEF UpsertAccount, IInv, TypeOK, Account, authority, provider
    <3> QED BY <2>1, <3>1, SurroundingsStep DEF UpsertAccount
  <2>2. ASSUME NEW m \in Messages, NEW target \in Target \cup {None}, VaultChanges(m, target)
        PROVE  IInv'
    <3>1. TypeOK'
      BY <2>2 DEF VaultChanges, IInv, TypeOK, authority, provider
    <3> QED BY <2>2, <3>1, SurroundingsStep DEF VaultChanges
  <2>3. ASSUME NEW t \in Time, ClockMoves(t) PROVE IInv'
    <3>1. TypeOK'
      BY <2>3 DEF ClockMoves, IInv, TypeOK, authority, provider
    <3> QED BY <2>3, <3>1, SurroundingsStep DEF ClockMoves
  <2> QED BY <1>1, <2>1, <2>2, <2>3, ProviderStep DEF Environment
<1>2. CASE Authoring
  BY <1>2, CreateDraftStep, EditDraftStep, EnqueueStep, IssueApprovalCapabilityStep,
     ApproveStep, RejectStep, CancelStep DEF Authoring
<1>3. CASE Sending
  BY <1>3, ClaimRowStep, MarkDispatchedStep, MarkSentStep, MarkFailedStep, MarkUnknownStep,
     RecoverExpiredStep DEF Sending, Claim, ClaimNext
<1>4. CASE Settling
  BY <1>4, ReconciliationFoundStep, ReconciliationGivesUpStep, MarkHumanSentStep,
     ReconciliationMissStep, KeepWaitingStep, RetryStep DEF Settling
<1>5. CASE UNCHANGED vars
  <2>1. /\ accounts' = accounts /\ vault' = vault /\ drafts' = drafts /\ outbox' = outbox
        /\ attention' = attention /\ now' = now /\ grants' = grants /\ approval' = approval
        /\ calls' = calls /\ delivered' = delivered /\ refused' = refused
    BY <1>5 DEF vars
  <2>2. TypeOK'
    BY <2>1 DEF IInv, TypeOK
  <2> QED BY <2>1, <2>2, SurroundingsStep DEF provider
<1> QED BY <1>1, <1>2, <1>3, <1>4, <1>5 DEF Next

(* The inductive invariant holds in every reachable state.                 *)
THEOREM Invariant == Spec => []IInv
BY InitialState, NextStep, PTL DEF Spec

(* Every operation keeps the database in the types of its columns.         *)
THEOREM TypeCorrect == Spec => []TypeOK
<1>1. IInv => TypeOK
  BY DEF IInv
<1> QED BY <1>1, Invariant, PTL

(* No transition, of any row, ever violates a CHECK of mail_outbox or      *)
(* leaves a row that decodeOutbox rejects.                                 *)
THEOREM RowsAlwaysReadable == Spec => []RowsReadable
BY InvariantIsEnough, Invariant, PTL

(* The open attention items are exactly the decisions the user owes.       *)
THEOREM AttentionAlwaysExact == Spec => []AttentionIsExact
BY InvariantIsEnough, Invariant, PTL

(* However many workers claim, dispatch, crash and reclaim, the provider   *)
(* is called at most once per approved row.                                *)
THEOREM AttemptedAtMostOnce == Spec => []AtMostOneAttempt
BY InvariantIsEnough, Invariant, PTL

(* A row settled on provider evidence was delivered once; a failed one     *)
(* never was and never will be.                                            *)
THEOREM OutcomesAlwaysTrue == Spec => []OutcomeIsTrue
BY InvariantIsEnough, Invariant, PTL

(* No pending, approved or claimed row sends text its draft no longer has, *)
(* a deliberate retry excepted.                                            *)
THEOREM LiveSendsAlwaysCurrent == Spec => []LiveSendsAreCurrent
BY InvariantIsEnough, Invariant, PTL

-----------------------------------------------------------------------------
(* Which rows belong together, and by whose authority: keys name one row,  *)
(* retries form chains, the backlog is bounded, approvals were granted,    *)
(* searches come in time and leases exclude.  All of it follows from how a *)
(* step may move a row: only an enqueue or a retry begins one, only a      *)
(* retry ends one as retried, only issuing and approving touch a           *)
(* capability.                                                             *)

(* Row r keeps what identifies it, and is not newly pending or retried.    *)
Moves(r) ==
  /\ outbox'[r].status = "absent" <=> outbox[r].status = "absent"
  /\ outbox'[r].key = outbox[r].key /\ outbox'[r].content = outbox[r].content
  /\ outbox'[r].draft = outbox[r].draft /\ outbox'[r].revision = outbox[r].revision
  /\ outbox'[r].retryOf = outbox[r].retryOf
  /\ outbox'[r].status = "pending_approval" => outbox[r].status = "pending_approval"
  /\ outbox'[r].reason = "retry" <=> outbox[r].reason = "retry"

(* Nothing is granted or approved; the capability of row r stays as it is  *)
(* or is withdrawn.                                                        *)
Honours(r) ==
  /\ UNCHANGED authority
  /\ outbox'[r].consumed = outbox[r].consumed
  /\ outbox'[r].cap \in {outbox[r].cap, None}

(* The search of row r is planned as before, or in time.                   *)
Plans(r) ==
  outbox'[r].status = "unknown" =>
    \/ outbox[r].status = "unknown" /\ outbox'[r].recon = outbox[r].recon
    \/ outbox'[r].recon.next <= outbox'[r].recon.deadline

(* A claim of row r replaces none whose lease runs.                        *)
Excludes(r) ==
  outbox[r].status = "claimed" /\ outbox[r].lease.expires > now
  /\ outbox'[r].status \in {"claimed", "dispatched"} => outbox'[r].lease = outbox[r].lease

(* Row r was absent and is now pending, with content c under key k, as a   *)
(* retry of p if p is a row.                                               *)
Starts(r, c, k, p) ==
  /\ outbox[r].status = "absent" /\ outbox[r].key = None /\ outbox[r].retryOf = None
  /\ outbox[r].reason = None /\ outbox[r].cap = None /\ outbox[r].consumed = FALSE
  /\ outbox'[r].status = "pending_approval" /\ outbox'[r].key = k /\ outbox'[r].retryOf = p
  /\ outbox'[r].reason = None /\ outbox'[r].cap = None /\ outbox'[r].consumed = FALSE
  /\ outbox'[r].content = c

Ordinary(r) == Moves(r) /\ Honours(r) /\ Plans(r) /\ Excludes(r)

(* What is known of one row before a step.                                 *)
LEMMA RowIsTyped ==
  ASSUME IInv, NEW r \in Rows
  PROVE  /\ outbox \in [Rows -> Row]
         /\ outbox[r].status = "absent" => outbox[r] = NoRow
         /\ outbox[r].reason # None => outbox[r].status = "cancelled"
         /\ outbox[r].status = "cancelled" => outbox[r].reason # None
         /\ outbox[r].status \in {"claimed", "dispatched"} => outbox[r].lease \in Lease
         /\ outbox[r].status \in {"unknown", "human_decision"} => outbox[r].recon \in Reconciliation
         /\ outbox[r].status = "unknown" => outbox[r].recon.next \in Nat
         /\ now \in Nat
<1>1. outbox \in [Rows -> Row] /\ now \in Nat
  BY BoundsAreNatural DEF IInv, TypeOK, Time
<1>2. outbox[r] \in Row /\ RowReadable(outbox[r])
  BY ReadRow
<1>3. outbox[r].status = "unknown" => outbox[r].recon.next \in Nat
  BY <1>2 DEF RowReadable, Row, Reconciliation
<1> QED BY <1>1, <1>2, <1>3 DEF RowReadable, Row

(* Every step but an enqueue and a retry moves every row in an ordinary    *)
(* way.                                                                    *)
LEMMA OrdinaryStep ==
  ASSUME IInv, [Next]_vars, NEW q \in Rows
  PROVE  \/ Ordinary(q)
         \/ \E r \in Rows, s \in Sessions, t \in Tokens, ttl \in TTLs :
              IssueApprovalCapability(r, s, t, ttl)
         \/ \E r \in Rows, s \in Sessions, t \in Tokens : Approve(r, t, s)
         \/ \E d \in Drafts, k \in Keys, r \in Rows : Enqueue(d, k, r)
         \/ \E p, r \in Rows, k \in Keys : Retry(p, k, r)
<1> USE RowIsTyped
<1>1. outbox'[q] = outbox[q] /\ UNCHANGED authority => Ordinary(q)
  BY DEF Ordinary, Moves, Honours, Plans, Excludes
<1>2. CASE Environment \/ UNCHANGED vars
  BY <1>1, <1>2 DEF Environment, UpsertAccount, VaultChanges, ClockMoves, ProviderAccepts,
                    ProviderRefuses, vars, authority
<1>3. ASSUME NEW d \in Drafts, NEW c \in Content, CreateDraft(d, c) \/ EditDraft(d, c)
      PROVE  Ordinary(q)
  <2>1. CASE outbox'[q] = outbox[q]
    BY <1>1, <1>3, <2>1 DEF CreateDraft, EditDraft
  <2>2. CASE outbox'[q] # outbox[q]
    <3>1. outbox[q].status \in Live /\ outbox[q] \in Row
      BY <1>3, <2>2 DEF CreateDraft, EditDraft, Superseded
    <3>2. outbox'[q] = [outbox[q] EXCEPT !.status = "stale", !.cap = None, !.lease = None]
          /\ UNCHANGED authority
      BY <1>3, <2>2 DEF CreateDraft, EditDraft
    <3> QED BY <3>1, <3>2 DEF Live, Row, Ordinary, Moves, Honours, Plans, Excludes
  <2> QED BY <2>1, <2>2
<1>4. ASSUME NEW r \in Rows, Reject(r) PROVE Ordinary(q)
  BY <1>4 DEF Reject, Ordinary, Moves, Honours, Plans, Excludes, Row
<1>5. ASSUME NEW r \in Rows, Cancel(r) PROVE Ordinary(q)
  BY <1>5 DEF Cancel, Ordinary, Moves, Honours, Plans, Excludes, Row
<1>6. ASSUME NEW r \in Rows, NEW w \in Workers, NEW lease \in Leases, ClaimRow(r, w, lease)
      PROVE  Ordinary(q)
  BY <1>6 DEF ClaimRow, Claimable, Ordinary, Moves, Honours, Plans, Excludes, Row, Lease
<1>7. ASSUME NEW r \in Rows, NEW w \in Workers,
             MarkDispatched(r, w) \/ MarkSent(r, w) \/ MarkFailed(r, w)
      PROVE  Ordinary(q)
  BY <1>7 DEF MarkDispatched, MarkSent, MarkFailed, Reports, Ordinary, Moves, Honours, Plans,
              Excludes, Row
<1>8. ASSUME NEW r \in Rows, NEW w \in Workers, NEW wait \in Waits, MarkUnknown(r, w, wait)
      PROVE  Ordinary(q)
  BY <1>8, DurationsArePositive
     DEF MarkUnknown, Reports, Reconciling, Deadline, Ordinary, Moves, Honours, Plans, Excludes, Row
<1>9. CASE RecoverExpired
  <2>1. CASE outbox'[q] = outbox[q]
    BY <1>1, <1>9, <2>1 DEF RecoverExpired
  <2>2. CASE outbox'[q] # outbox[q]
    <3>1. outbox[q].status = "dispatched" /\ outbox[q] \in Row
      BY <1>9, <2>2 DEF RecoverExpired, ExpiredDispatches
    <3>2. outbox'[q] = Reconciling(outbox[q], ReconcileDeadline) /\ UNCHANGED authority
      BY <1>9, <2>2 DEF RecoverExpired
    <3> QED BY <3>1, <3>2, DurationsArePositive
            DEF Reconciling, Deadline, Row, Ordinary, Moves, Honours, Plans, Excludes
  <2> QED BY <2>1, <2>2
<1>10. ASSUME NEW r \in Rows, ReconciliationFound(r) \/ ReconciliationGivesUp(r) \/ MarkHumanSent(r)
       PROVE  Ordinary(q)
  BY <1>10 DEF ReconciliationFound, ReconciliationGivesUp, MarkHumanSent, Searchable, Due,
               Ordinary, Moves, Honours, Plans, Excludes, Row
<1>11. ASSUME NEW r \in Rows, NEW backoff \in Backoffs, ReconciliationMiss(r, backoff)
       PROVE  Ordinary(q)
  BY <1>11, DurationsArePositive
     DEF ReconciliationMiss, Due, Earlier, Ordinary, Moves, Honours, Plans, Excludes, Row,
         Reconciliation
<1>12. ASSUME NEW r \in Rows, NEW wait \in Waits, KeepWaiting(r, wait) PROVE Ordinary(q)
  BY <1>12, DurationsArePositive
     DEF KeepWaiting, Deadline, Ordinary, Moves, Honours, Plans, Excludes, Row
<1> QED
  BY <1>2, <1>3, <1>4, <1>5, <1>6, <1>7, <1>8, <1>9, <1>10, <1>11, <1>12
     DEF Next, Authoring, Sending, Settling, Claim, ClaimNext

(* A capability issued or used moves every row in the other ordinary ways. *)
LEMMA IssueMoves ==
  ASSUME IInv, NEW r \in Rows, NEW s \in Sessions, NEW t \in Tokens, NEW ttl \in TTLs, NEW q \in Rows,
         IssueApprovalCapability(r, s, t, ttl)
  PROVE  Moves(q) /\ Plans(q) /\ Excludes(q)
BY RowIsTyped DEF IssueApprovalCapability, Moves, Plans, Excludes, Row

LEMMA ApproveMoves ==
  ASSUME IInv, NEW r \in Rows, NEW s \in Sessions, NEW t \in Tokens, NEW q \in Rows, Approve(r, t, s)
  PROVE  Moves(q) /\ Plans(q) /\ Excludes(q)
BY RowIsTyped DEF Approve, Moves, Plans, Excludes, Row

(* An enqueue starts one row.                                              *)
LEMMA EnqueueStarts ==
  ASSUME IInv, NEW d \in Drafts, NEW k \in Keys, NEW r \in Rows, Enqueue(d, k, r)
  PROVE  /\ Starts(r, drafts[d].content, k, None)
         /\ \A q \in Rows \ {r} : outbox'[q] = outbox[q]
<1>1. outbox[r] = NoRow
  BY RowIsTyped DEF Enqueue
<1>2. /\ outbox'[r] = PendingRow(d, drafts[d].revision, drafts[d].content, k, None)
      /\ \A q \in Rows \ {r} : outbox'[q] = outbox[q]
  BY RowIsTyped DEF Enqueue
<1> QED BY <1>1, <1>2 DEF Starts, PendingRow, NoRow

(* A retry starts one too, and ends its parent.                            *)
Ends(p) ==
  /\ outbox[p].status = "human_decision" /\ outbox[p].reason = None
  /\ outbox'[p].status = "cancelled" /\ outbox'[p].reason = "retry"
  /\ outbox'[p].key = outbox[p].key /\ outbox'[p].content = outbox[p].content
  /\ outbox'[p].draft = outbox[p].draft /\ outbox'[p].revision = outbox[p].revision
  /\ outbox'[p].retryOf = outbox[p].retryOf
  /\ outbox'[p].cap = outbox[p].cap /\ outbox'[p].consumed = outbox[p].consumed

LEMMA RetryStarts ==
  ASSUME IInv, NEW p \in Rows, NEW r \in Rows, NEW k \in Keys, Retry(p, k, r)
  PROVE  /\ p # r /\ Ends(p)
         /\ Starts(r, outbox[p].content, k, p)
         /\ outbox'[r].draft = outbox[p].draft /\ outbox'[r].revision = outbox[p].revision
         /\ \A q \in Rows \ {p, r} : outbox'[q] = outbox[q]
<1>1. outbox[r] = NoRow /\ p # r /\ outbox[p].status = "human_decision" /\ outbox[p].reason = None
  BY RowIsTyped DEF Retry
<1>2. /\ outbox'[r] = Resend(p, k)
      /\ \A q \in Rows \ {p, r} : outbox'[q] = outbox[q]
  BY <1>1, RowIsTyped DEF Retry
<1>3. outbox'[p] = [outbox[p] EXCEPT !.status = "cancelled", !.recon = None, !.reason = "retry"]
  BY <1>1, RowIsTyped DEF Retry
<1>4. outbox[p] \in Row
  BY RowIsTyped
<1>5. Ends(p)
  BY <1>1, <1>3, <1>4 DEF Ends, Row
<1> QED BY <1>1, <1>2, <1>5 DEF Starts, Resend, PendingRow, NoRow

(* So a step moves every row, or begins one.                               *)
LEMMA MovesOrBegins ==
  ASSUME IInv, [Next]_vars
  PROVE  \/ \A q \in Rows : Moves(q)
         \/ \E d \in Drafts, k \in Keys, r \in Rows : Enqueue(d, k, r)
         \/ \E p, r \in Rows, k \in Keys : Retry(p, k, r)
<1>1. CASE \E r \in Rows, s \in Sessions, t \in Tokens, ttl \in TTLs :
             IssueApprovalCapability(r, s, t, ttl)
  BY <1>1, IssueMoves
<1>2. CASE \E r \in Rows, s \in Sessions, t \in Tokens : Approve(r, t, s)
  BY <1>2, ApproveMoves
<1> QED BY <1>1, <1>2, OrdinaryStep DEF Ordinary

(* And its search and its lease are respected by every step.               *)
LEMMA PlansAndExcludes ==
  ASSUME IInv, [Next]_vars, NEW q \in Rows
  PROVE  Plans(q) /\ Excludes(q)
<1>1. ASSUME NEW d \in Drafts, NEW k \in Keys, NEW r \in Rows, Enqueue(d, k, r)
      PROVE  Plans(q) /\ Excludes(q)
  <2>1. Starts(r, drafts[d].content, k, None) /\ \A x \in Rows \ {r} : outbox'[x] = outbox[x]
    BY <1>1, EnqueueStarts
  <2>2. CASE q = r
    BY <2>1, <2>2 DEF Plans, Excludes, Starts
  <2>3. CASE q # r
    <3>1. outbox'[q] = outbox[q]
      BY <2>1, <2>3
    <3> QED BY <3>1 DEF Plans, Excludes
  <2> QED BY <2>2, <2>3
<1>2. ASSUME NEW p \in Rows, NEW r \in Rows, NEW k \in Keys, Retry(p, k, r)
      PROVE  Plans(q) /\ Excludes(q)
  <2>1. CASE q = p
    BY <1>2, <2>1, RetryStarts DEF Plans, Excludes, Ends
  <2>2. CASE q # p
    <3>1. outbox'[q] = outbox[q] \/ Starts(q, outbox[p].content, k, p)
      BY <1>2, <2>2, RetryStarts
    <3> QED BY <3>1 DEF Plans, Excludes, Starts
  <2> QED BY <2>1, <2>2
<1> QED BY <1>1, <1>2, OrdinaryStep, IssueMoves, ApproveMoves DEF Ordinary

-----------------------------------------------------------------------------
(* Keys.                                                                   *)

LEMMA KeysStep ==
  ASSUME IInv, OperationKeysAreUnique, [Next]_vars
  PROVE  OperationKeysAreUnique'
<1>1. CASE \A q \in Rows : Moves(q)
  BY <1>1 DEF Moves, OperationKeysAreUnique
<1>2. ASSUME NEW d \in Drafts, NEW k \in Keys, NEW r \in Rows, Enqueue(d, k, r)
      PROVE  OperationKeysAreUnique'
  <2>1. \A q \in Rows : outbox[q].status # "absent" /\ outbox[q].key = k
                        => outbox[q].content.account # drafts[d].content.account
    BY <1>2 DEF Enqueue, Operation
  <2>2. /\ outbox'[r].key = k /\ outbox'[r].content = drafts[d].content
        /\ \A q \in Rows \ {r} : outbox'[q] = outbox[q]
    <3>1. Starts(r, drafts[d].content, k, None) /\ \A q \in Rows \ {r} : outbox'[q] = outbox[q]
      BY <1>2, EnqueueStarts
    <3> QED BY <3>1 DEF Starts
  <2> QED BY <2>1, <2>2 DEF OperationKeysAreUnique
<1>3. ASSUME NEW p \in Rows, NEW r \in Rows, NEW k \in Keys, Retry(p, k, r)
      PROVE  OperationKeysAreUnique'
  <2>1. \A q \in Rows : outbox[q].status # "absent" /\ outbox[q].key = k
                        => outbox[q].content.account # outbox[p].content.account
    BY <1>3 DEF Retry, Operation
  <2>2. /\ outbox'[r].key = k /\ outbox'[r].content = outbox[p].content
        /\ outbox'[p].key = outbox[p].key /\ outbox'[p].content = outbox[p].content
        /\ outbox[p].status # "absent"
        /\ \A q \in Rows \ {p, r} : outbox'[q] = outbox[q]
    <3>1. /\ Starts(r, outbox[p].content, k, p) /\ Ends(p)
          /\ \A q \in Rows \ {p, r} : outbox'[q] = outbox[q]
      BY <1>3, RetryStarts
    <3> QED BY <3>1 DEF Starts, Ends
  <2> QED BY <2>1, <2>2 DEF OperationKeysAreUnique
<1> QED BY <1>1, <1>2, <1>3, MovesOrBegins

(* An operation key names one row of its account, for ever.                *)
THEOREM KeysStayUnique == Spec => []OperationKeysAreUnique
<1>1. Init => OperationKeysAreUnique
  BY DEF Init, NoRow, OperationKeysAreUnique
<1> QED BY <1>1, KeysStep, Invariant, PTL DEF Spec

-----------------------------------------------------------------------------
(* Retries.                                                                *)

LEMMA ChainsStep ==
  ASSUME IInv, RetriesFormChains, [Next]_vars
  PROVE  RetriesFormChains'
<1> DEFINE Parented(r) == outbox[r].retryOf # None =>
                            /\ outbox[r].retryOf \in Rows
                            /\ outbox[outbox[r].retryOf].reason = "retry"
                            /\ outbox[outbox[r].retryOf].draft = outbox[r].draft
                            /\ outbox[outbox[r].retryOf].revision = outbox[r].revision
                            /\ outbox[outbox[r].retryOf].content = outbox[r].content
<1>1. \A r \in Rows : Parented(r)
  BY RowIsTyped DEF RetriesFormChains, Row
<1>2. CASE \A q \in Rows : Moves(q)
  BY <1>1, <1>2 DEF Moves, RetriesFormChains
<1>3. ASSUME NEW d \in Drafts, NEW k \in Keys, NEW r \in Rows, Enqueue(d, k, r)
      PROVE  RetriesFormChains'
  <2>1. /\ outbox[r].reason = None /\ outbox'[r].reason = None /\ outbox'[r].retryOf = None
        /\ outbox[r].retryOf = None
        /\ \A q \in Rows \ {r} : outbox'[q] = outbox[q]
    <3>1. Starts(r, drafts[d].content, k, None) /\ \A q \in Rows \ {r} : outbox'[q] = outbox[q]
      BY <1>3, EnqueueStarts
    <3> QED BY <3>1 DEF Starts
  <2>2. \A q \in Rows : outbox[q].retryOf # r
    BY <1>1, <2>1, NoneIsNull
  <2> QED BY <1>1, <2>1, <2>2, NoneIsNull DEF RetriesFormChains
<1>4. ASSUME NEW p \in Rows, NEW r \in Rows, NEW k \in Keys, Retry(p, k, r)
      PROVE  RetriesFormChains'
  <2>1. /\ outbox[r].reason = None /\ outbox'[r].reason = None /\ outbox[r].retryOf = None
        /\ outbox'[r].retryOf = p /\ outbox'[r].draft = outbox[p].draft
        /\ outbox'[r].revision = outbox[p].revision /\ outbox'[r].content = outbox[p].content
    <3>1. /\ Starts(r, outbox[p].content, k, p)
          /\ outbox'[r].draft = outbox[p].draft /\ outbox'[r].revision = outbox[p].revision
      BY <1>4, RetryStarts
    <3> QED BY <3>1 DEF Starts
  <2>2. /\ outbox[p].reason = None /\ outbox'[p].reason = "retry"
        /\ outbox'[p].draft = outbox[p].draft /\ outbox'[p].revision = outbox[p].revision
        /\ outbox'[p].content = outbox[p].content /\ outbox'[p].retryOf = outbox[p].retryOf
    BY <1>4, RetryStarts DEF Ends
  <2>3. \A q \in Rows : outbox[q].retryOf # p /\ outbox[q].retryOf # r
    BY <1>1, <2>1, <2>2, NoneIsNull
  <2>4. \A q \in Rows \ {p, r} : outbox'[q] = outbox[q]
    BY <1>4, RetryStarts
  <2>5. ASSUME NEW q \in Rows PROVE Parented(q)'
    <3>1. CASE q = r
      BY <2>1, <2>2, <3>1
    <3>2. CASE q # r
      BY <1>1, <2>1, <2>2, <2>3, <2>4, <3>2
    <3> QED BY <3>1, <3>2
  <2>6. ASSUME NEW q \in Rows, outbox'[q].reason = "retry"
        PROVE  \E c \in Rows : outbox'[c].retryOf = q
    <3>1. CASE q = p
      BY <2>1, <3>1
    <3>2. CASE q # p
      <4>1. PICK c \in Rows : outbox[c].retryOf = q
        BY <2>1, <2>4, <2>6, <3>2, NoneIsNull DEF RetriesFormChains
      <4>2. c # r
        BY <2>1, <4>1, NoneIsNull
      <4> QED BY <2>2, <2>4, <4>1, <4>2
    <3> QED BY <3>1, <3>2
  <2>7. ASSUME NEW c \in Rows, NEW q \in Rows, outbox'[c].retryOf # None,
               outbox'[c].retryOf = outbox'[q].retryOf
        PROVE  c = q
    BY <2>1, <2>2, <2>3, <2>4, <2>7 DEF RetriesFormChains
  <2> QED BY <2>5, <2>6, <2>7 DEF RetriesFormChains
<1> QED BY <1>2, <1>3, <1>4, MovesOrBegins

(* Retries form chains: every child has its parent's text, every parent    *)
(* that was cancelled for a retry has one child.                           *)
THEOREM RetriesAlwaysFormChains == Spec => []RetriesFormChains
<1>1. Init => RetriesFormChains
  BY NoneIsNull DEF Init, NoRow, RetriesFormChains
<1> QED BY <1>1, ChainsStep, Invariant, PTL DEF Spec

-----------------------------------------------------------------------------
(* Authority.                                                              *)

(* Token t is the last one granted for row r, to session s.                *)
Granted(r, t, s) ==
  /\ grants[t] # None
  /\ grants[t].row = r /\ grants[t].session = s /\ ~grants[t].replaced

(* What is known of the approval of row r; the capability it holds is the  *)
(* last one that was granted to it, and is what its approval will be.      *)
Authorised(r) ==
  /\ outbox[r].consumed <=> approval[r] # None
  /\ approval[r] # None => /\ Granted(r, approval[r].token, approval[r].session)
                           /\ approval[r].at < grants[approval[r].token].expires
  /\ outbox[r].cap # None => /\ Granted(r, outbox[r].cap.token, outbox[r].cap.session)
                             /\ grants[outbox[r].cap.token].expires = outbox[r].cap.expires

AllAuthorised == \A r \in Rows : Authorised(r)

LEMMA AuthorityIsTyped ==
  ASSUME IInv
  PROVE  /\ grants \in [Tokens -> Grant \cup {None}]
         /\ approval \in [Rows -> Approval \cup {None}]
         /\ outbox \in [Rows -> Row]
         /\ \A r \in Rows : outbox[r].consumed \in BOOLEAN /\ outbox[r].cap \in Capability \cup {None}
BY DEF IInv, TypeOK, Row

(* A row keeps its authority when nothing is granted, and its capability   *)
(* at most withdrawn.                                                      *)
LEMMA AuthorityKept ==
  ASSUME IInv, NEW q \in Rows, Authorised(q), UNCHANGED authority,
         outbox'[q].consumed = outbox[q].consumed, outbox'[q].cap \in {outbox[q].cap, None}
  PROVE  Authorised(q)'
BY DEF Authorised, Granted, authority

LEMMA AuthorityStep ==
  ASSUME IInv, AllAuthorised, [Next]_vars
  PROVE  AllAuthorised'
<1> SUFFICES ASSUME NEW q \in Rows PROVE Authorised(q)'
  BY DEF AllAuthorised
<1>0. Authorised(q)
  BY DEF AllAuthorised
<1>1. CASE Ordinary(q)
  BY <1>0, <1>1, AuthorityKept DEF Ordinary, Honours
<1>2. ASSUME NEW d \in Drafts, NEW k \in Keys, NEW r \in Rows, Enqueue(d, k, r)
      PROVE  Authorised(q)'
  <2>1. outbox'[q].consumed = outbox[q].consumed /\ outbox'[q].cap = outbox[q].cap
    <3>1. outbox'[q] = outbox[q] \/ Starts(q, drafts[d].content, k, None)
      BY <1>2, EnqueueStarts
    <3> QED BY <3>1 DEF Starts
  <2>2. UNCHANGED authority
    BY <1>2 DEF Enqueue
  <2> QED BY <1>0, <2>1, <2>2, AuthorityKept
<1>3. ASSUME NEW p \in Rows, NEW r \in Rows, NEW k \in Keys, Retry(p, k, r)
      PROVE  Authorised(q)'
  <2>1. outbox'[q].consumed = outbox[q].consumed /\ outbox'[q].cap = outbox[q].cap
    <3>1. outbox'[q] = outbox[q] \/ Starts(q, outbox[p].content, k, p) \/ Ends(q)
      BY <1>3, RetryStarts
    <3> QED BY <3>1 DEF Starts, Ends
  <2>2. UNCHANGED authority
    BY <1>3 DEF Retry
  <2> QED BY <1>0, <2>1, <2>2, AuthorityKept
<1>4. ASSUME NEW r \in Rows, NEW s \in Sessions, NEW t \in Tokens, NEW ttl \in TTLs,
             IssueApprovalCapability(r, s, t, ttl)
      PROVE  Authorised(q)'
  <2>1. grants[t] = None /\ approval' = approval
    BY <1>4 DEF IssueApprovalCapability
  <2>2. Granted(r, t, s)' /\ grants'[t].expires = Deadline(now, ttl)
    <3>1. grants'[t] = [row |-> r, session |-> s, expires |-> Deadline(now, ttl), replaced |-> FALSE]
      BY <1>4 DEF IssueApprovalCapability
    <3>2. grants'[t] # None
      <4>1. now \in Nat /\ ttl \in Nat
        BY RowIsTyped, DurationsArePositive
      <4>2. grants'[t] \in Grant
        BY <3>1, <4>1 DEF Deadline, Grant
      <4> QED BY <4>2, NoneIsNull
    <3> QED BY <3>1, <3>2 DEF Granted
  <2>3. CASE q = r
    <3>1. /\ outbox'[q].consumed = outbox[q].consumed /\ outbox'[q].cap.token = t
          /\ outbox'[q].cap.session = s /\ outbox'[q].cap.expires = Deadline(now, ttl)
      BY <1>4, <2>3, RowIsTyped DEF IssueApprovalCapability, Row
    <3>2. ~outbox[q].consumed
      BY <1>4, <2>3, ReadRow DEF IssueApprovalCapability, RowReadable
    <3> QED BY <1>0, <2>1, <2>2, <2>3, <3>1, <3>2 DEF Authorised
  <2>4. CASE q # r
    <3>1. outbox'[q] = outbox[q]
      BY <1>4, <2>4, RowIsTyped DEF IssueApprovalCapability
    <3>2. ASSUME NEW u \in Tokens, NEW v, Granted(q, u, v)
          PROVE  Granted(q, u, v)' /\ grants'[u] = grants[u]
      BY <1>4, <2>1, <2>4, <3>2 DEF IssueApprovalCapability, Granted
    <3>3. /\ approval[q] # None => approval[q].token \in Tokens
          /\ outbox[q].cap # None => outbox[q].cap.token \in Tokens
      BY AuthorityIsTyped DEF Capability, Approval
    <3> QED BY <1>0, <2>1, <3>1, <3>2, <3>3 DEF Authorised
  <2> QED BY <2>3, <2>4
<1>5. ASSUME NEW r \in Rows, NEW s \in Sessions, NEW t \in Tokens, Approve(r, t, s)
      PROVE  Authorised(q)'
  <2>1. grants' = grants /\ approval' = [approval EXCEPT ![r] = [token |-> t, session |-> s, at |-> now]]
    BY <1>5 DEF Approve
  <2>2. CASE q = r
    <3>1. outbox'[q].consumed = TRUE /\ outbox'[q].cap = None
      BY <1>5, <2>2, RowIsTyped DEF Approve, Row
    <3>2. approval'[q] = [token |-> t, session |-> s, at |-> now]
      BY <2>1, <2>2, AuthorityIsTyped
    <3>3. approval'[q] # None
      <4>1. approval'[q] \in Approval
        BY <3>2, RowIsTyped DEF Approval
      <4> QED BY <4>1, NoneIsNull
    <3>4. Granted(q, t, s) /\ now < grants[t].expires
      BY <1>0, <1>5, <2>2 DEF Approve, CapabilityAdmits, Authorised
    <3> QED BY <2>1, <3>1, <3>2, <3>3, <3>4 DEF Authorised, Granted
  <2>3. CASE q # r
    <3>1. outbox'[q] = outbox[q] /\ approval'[q] = approval[q]
      BY <1>5, <2>1, <2>3, RowIsTyped, AuthorityIsTyped DEF Approve
    <3> QED BY <1>0, <2>1, <3>1 DEF Authorised, Granted
  <2> QED BY <2>2, <2>3
<1> QED BY <1>1, <1>2, <1>3, <1>4, <1>5, OrdinaryStep

(* In every reachable state.                                               *)
LEMMA AlwaysAuthorised == Spec => []AllAuthorised
<1>1. Init => AllAuthorised
  BY DEF Init, NoRow, AllAuthorised, Authorised
<1> QED BY <1>1, AuthorityStep, Invariant, PTL DEF Spec

(* Every approval came from its own token, granted for that row to that    *)
(* session, in time and not replaced by a newer one (OutboxMachine.ts,     *)
(* approve), and no row is past its approval without one.                  *)
THEOREM ApprovalsStayAuthorised == Spec => []ApprovalsAreAuthorised
<1>1. AllAuthorised => ApprovalsAreAuthorised
  BY DEF AllAuthorised, Authorised, Granted, ApprovalsAreAuthorised
<1> QED BY <1>1, AlwaysAuthorised, PTL

(* Only a dispatch licenses a call to the provider.                        *)
LEMMA LicencesAreDispatches ==
  ASSUME IInv, [Next]_vars, NEW r \in Rows, calls'[r] > calls[r]
  PROVE  \E w \in Workers : MarkDispatched(r, w)
<1>1. calls \in [Rows -> Nat]
  BY DEF IInv, TypeOK
<1>2. calls' # calls
  BY <1>1
<1>3. CASE Environment
  <2>1. PICK q \in Rows : ProviderAccepts(q) \/ ProviderRefuses(q)
    BY <1>2, <1>3 DEF Environment, UpsertAccount, VaultChanges, ClockMoves, provider
  <2>2. calls' = [calls EXCEPT ![q] = @ - 1]
    BY <2>1 DEF ProviderAccepts, ProviderRefuses
  <2> QED BY <1>1, <2>2
<1>4. CASE Authoring
  BY <1>2, <1>4 DEF Authoring, CreateDraft, EditDraft, Enqueue, IssueApprovalCapability, Approve,
     Reject, Cancel, provider
<1>5. CASE Sending
  <2>1. PICK q \in Rows, w \in Workers : MarkDispatched(q, w)
    BY <1>2, <1>5 DEF Sending, Claim, ClaimNext, ClaimRow, MarkSent, MarkFailed, MarkUnknown,
       RecoverExpired, provider
  <2>2. calls' = [calls EXCEPT ![q] = @ + 1]
    BY <2>1 DEF MarkDispatched
  <2>3. q = r
    BY <1>1, <2>2
  <2> QED BY <2>1, <2>3
<1>6. CASE Settling
  BY <1>2, <1>6 DEF Settling, ReconciliationFound, ReconciliationGivesUp, MarkHumanSent,
     ReconciliationMiss, KeepWaiting, Retry, provider
<1>7. CASE UNCHANGED vars
  BY <1>2, <1>7 DEF vars, provider
<1> QED BY <1>3, <1>4, <1>5, <1>6, <1>7 DEF Next

(* What is handed to the provider is at that moment approved, current and  *)
(* the account's to send, whatever was edited, disconnected or moved since *)
(* the claim (OutboxMachine.ts, markDispatched).                           *)
THEOREM DispatchesAlwaysCurrent == Spec => DispatchesAreCurrent
<1> DEFINE Licensed(r) ==
      /\ approval[r] # None
      /\ outbox[r].retryOf = None => outbox[r].content = drafts[outbox[r].draft].content
      /\ IdentityOK(outbox[r].content)
<1>1. IInv /\ AllAuthorised /\ [Next]_vars => \A r \in Rows : calls'[r] > calls[r] => Licensed(r)
  <2> SUFFICES ASSUME IInv, AllAuthorised, [Next]_vars, NEW r \in Rows, calls'[r] > calls[r]
               PROVE  Licensed(r)
    OBVIOUS
  <2>1. outbox[r].status = "claimed" /\ IdentityOK(outbox[r].content)
    BY LicencesAreDispatches DEF MarkDispatched
  <2>2. approval[r] # None
    <3>1. RowReadable(outbox[r])
      BY ReadRow
    <3> QED BY <2>1, <3>1 DEF RowReadable, AllAuthorised, Authorised
  <2>3. outbox[r].retryOf = None => outbox[r].content = drafts[outbox[r].draft].content
    BY <2>1 DEF IInv, RowFact, Live
  <2> QED BY <2>1, <2>2, <2>3
<1> QED BY <1>1, AlwaysAuthorised, Invariant, PTL DEF Spec, DispatchesAreCurrent

-----------------------------------------------------------------------------
(* The backlog.                                                            *)

LEMMA PendingIsFinite ==
  ASSUME NEW a \in Accounts
  PROVE  IsFiniteSet(Pending(a)) /\ Cardinality(Pending(a)) \in Nat
<1>1. Pending(a) \subseteq Rows
  BY DEF Pending
<1>2. IsFiniteSet(Pending(a))
  BY <1>1, RowsAreFinite, FS_Subset
<1> QED BY <1>2, FS_CardinalityType

(* No more are pending when none is new.                                   *)
LEMMA FewerPending ==
  ASSUME BacklogIsBounded, NEW a \in Accounts, Pending(a)' \subseteq Pending(a)
  PROVE  Cardinality(Pending(a)') <= MaxPending
<1>1. Cardinality(Pending(a)') <= Cardinality(Pending(a)) /\ Cardinality(Pending(a)') \in Nat
  BY PendingIsFinite, FS_Subset, FS_CardinalityType
<1> QED BY <1>1, PendingIsFinite, LimitIsPositive DEF BacklogIsBounded

(* One more are pending where there was room.                              *)
LEMMA OneMorePending ==
  ASSUME NEW a \in Accounts, NEW r, BelowBacklog(a), Pending(a)' \subseteq Pending(a) \cup {r}
  PROVE  Cardinality(Pending(a)') <= MaxPending
<1>1. /\ IsFiniteSet(Pending(a) \cup {r})
      /\ Cardinality(Pending(a) \cup {r}) <= Cardinality(Pending(a)) + 1
      /\ Cardinality(Pending(a) \cup {r}) \in Nat
  <2>1. IsFiniteSet(Pending(a)) /\ Cardinality(Pending(a)) \in Nat
    BY PendingIsFinite
  <2>2. /\ IsFiniteSet(Pending(a) \cup {r})
        /\ Cardinality(Pending(a) \cup {r})
             = IF r \in Pending(a) THEN Cardinality(Pending(a)) ELSE Cardinality(Pending(a)) + 1
    BY <2>1, FS_AddElement
  <2> QED BY <2>1, <2>2
<1>2. Cardinality(Pending(a)') <= Cardinality(Pending(a) \cup {r}) /\ Cardinality(Pending(a)') \in Nat
  BY <1>1, FS_Subset, FS_CardinalityType
<1> QED BY <1>1, <1>2, PendingIsFinite, LimitIsPositive DEF BelowBacklog

LEMMA BacklogStep ==
  ASSUME IInv, BacklogIsBounded, [Next]_vars
  PROVE  BacklogIsBounded'
<1> SUFFICES ASSUME NEW a \in Accounts PROVE Cardinality(Pending(a)') <= MaxPending
  BY DEF BacklogIsBounded
<1>1. CASE \A q \in Rows : Moves(q)
  <2>1. Pending(a)' \subseteq Pending(a)
    BY <1>1 DEF Moves, Pending
  <2> QED BY <2>1, FewerPending
<1>2. ASSUME NEW d \in Drafts, NEW k \in Keys, NEW r \in Rows, Enqueue(d, k, r)
      PROVE  Cardinality(Pending(a)') <= MaxPending
  <2>1. /\ Starts(r, drafts[d].content, k, None) /\ \A q \in Rows \ {r} : outbox'[q] = outbox[q]
        /\ BelowBacklog(drafts[d].content.account)
    BY <1>2, EnqueueStarts DEF Enqueue
  <2>2. CASE drafts[d].content.account = a
    <3>1. Pending(a)' \subseteq Pending(a) \cup {r}
      BY <2>1 DEF Pending
    <3> QED BY <2>1, <2>2, <3>1, OneMorePending
  <2>3. CASE drafts[d].content.account # a
    <3>1. Pending(a)' \subseteq Pending(a)
      BY <2>1, <2>3 DEF Pending, Starts
    <3> QED BY <3>1, FewerPending
  <2> QED BY <2>2, <2>3
<1>3. ASSUME NEW p \in Rows, NEW r \in Rows, NEW k \in Keys, Retry(p, k, r)
      PROVE  Cardinality(Pending(a)') <= MaxPending
  <2>1. /\ Starts(r, outbox[p].content, k, p) /\ Ends(p)
        /\ \A q \in Rows \ {p, r} : outbox'[q] = outbox[q]
        /\ BelowBacklog(outbox[p].content.account)
    BY <1>3, RetryStarts DEF Retry
  <2>2. CASE outbox[p].content.account = a
    <3>1. Pending(a)' \subseteq Pending(a) \cup {r}
      BY <2>1 DEF Pending, Ends
    <3> QED BY <2>1, <2>2, <3>1, OneMorePending
  <2>3. CASE outbox[p].content.account # a
    <3>1. Pending(a)' \subseteq Pending(a)
      BY <2>1, <2>3 DEF Pending, Starts, Ends
    <3> QED BY <3>1, FewerPending
  <2> QED BY <2>2, <2>3
<1> QED BY <1>1, <1>2, <1>3, MovesOrBegins

(* An account never has more than MaxPending rows pending.                 *)
THEOREM BacklogStaysBounded == Spec => []BacklogIsBounded
<1>1. Init => BacklogIsBounded
  <2> SUFFICES ASSUME Init, NEW a \in Accounts PROVE Cardinality(Pending(a)) <= MaxPending
    BY DEF BacklogIsBounded
  <2>1. Pending(a) = {}
    BY DEF Init, NoRow, Pending
  <2> QED BY <2>1, FS_EmptySet, LimitIsPositive
<1> QED BY <1>1, BacklogStep, Invariant, PTL DEF Spec

-----------------------------------------------------------------------------
(* Time.                                                                   *)

(* A search is never planned after the deadline of its row.                *)
THEOREM SearchesComeInTime == Spec => []SearchBeforeDeadline
<1>1. Init => SearchBeforeDeadline
  BY DEF Init, NoRow, SearchBeforeDeadline
<1>2. IInv /\ SearchBeforeDeadline /\ [Next]_vars => SearchBeforeDeadline'
  BY PlansAndExcludes DEF Plans, SearchBeforeDeadline
<1> QED BY <1>1, <1>2, Invariant, PTL DEF Spec

(* While a lease runs, no claim replaces it.                               *)
THEOREM LeasesExclude == Spec => LeaseIsExclusive
<1>1. IInv /\ [Next]_vars =>
        \A r \in Rows :
          outbox[r].status = "claimed" /\ outbox[r].lease.expires > now
          /\ outbox'[r].status \in {"claimed", "dispatched"}
          => outbox'[r].lease = outbox[r].lease
  BY PlansAndExcludes DEF Excludes
<1> QED BY <1>1, Invariant, PTL DEF Spec, LeaseIsExclusive
-----------------------------------------------------------------------------
(***************************************************************************)
(* The outbox implements the send contract, for every instance: its        *)
(* initial states are the contract's, and each of its steps is a step of   *)
(* the contract or leaves the contract's variables alone.  That the        *)
(* contract's guards hold rests on the inductive invariant: evidence is    *)
(* delivery, a failure is none, and nothing arrives unattempted.           *)
(***************************************************************************)

(* Row r passes from a phase to another; nothing else does.                *)
Turns(r, from, to) ==
  /\ PhaseOf(outbox[r]) \in from /\ PhaseOf(outbox'[r]) = to
  /\ outbox'[r].retryOf = outbox[r].retryOf
  /\ \A q \in Rows \ {r} : outbox'[q] = outbox[q]
  /\ delivered' = delivered

(* The rows of S do.                                                       *)
AllTurn(S, from, to) ==
  /\ \A r \in S : /\ PhaseOf(outbox[r]) \in from /\ PhaseOf(outbox'[r]) = to
                  /\ outbox'[r].retryOf = outbox[r].retryOf
  /\ \A q \in Rows \ S : outbox'[q] = outbox[q]
  /\ delivered' = delivered

(* What the contract knows besides the phases does not change.             *)
LEMMA NothingElse ==
  ASSUME delivered' = delivered, \A q \in Rows : outbox'[q].retryOf = outbox[q].retryOf
  PROVE  /\ UNCHANGED {r \in Rows : delivered[r] > 0}
         /\ UNCHANGED [r \in Rows |-> outbox[r].retryOf]
OBVIOUS

(* Then the contract moves that message, and no other.                     *)
LEMMA OneMoves ==
  ASSUME NEW r \in Rows, NEW from, NEW to, Turns(r, from, to)
  PROVE  /\ Contract!Move(r, from, to)
         /\ UNCHANGED {q \in Rows : delivered[q] > 0}
         /\ UNCHANGED [q \in Rows |-> outbox[q].retryOf]
<1>1. Contract!Move(r, from, to)
  BY DEF Turns, Contract!Move
<1>2. \A q \in Rows : outbox'[q].retryOf = outbox[q].retryOf
  BY DEF Turns
<1> QED BY <1>1, <1>2, NothingElse DEF Turns

LEMMA ManyMove ==
  ASSUME NEW S \in SUBSET Rows, NEW from, NEW to, AllTurn(S, from, to)
  PROVE  /\ Contract!MoveAll(S, from, to)
         /\ UNCHANGED {q \in Rows : delivered[q] > 0}
         /\ UNCHANGED [q \in Rows |-> outbox[q].retryOf]
<1>1. Contract!MoveAll(S, from, to)
  BY DEF AllTurn, Contract!MoveAll
<1>2. \A q \in Rows : outbox'[q].retryOf = outbox[q].retryOf
  BY DEF AllTurn
<1> QED BY <1>1, <1>2, NothingElse DEF AllTurn

(* A step that moves no row to another phase is none of the contract.      *)
LEMMA NoStep ==
  ASSUME delivered' = delivered,
         \A q \in Rows : outbox'[q].retryOf = outbox[q].retryOf
                         /\ PhaseOf(outbox'[q]) = PhaseOf(outbox[q])
  PROVE  UNCHANGED Contract!vars
BY NothingElse DEF Contract!vars

-----------------------------------------------------------------------------
(* Operations that the contract does not see.                              *)

LEMMA SurroundingsHide ==
  ASSUME UNCHANGED <<outbox, delivered>>
  PROVE  UNCHANGED Contract!vars
BY NoStep

LEMMA IssueHides ==
  ASSUME IInv, NEW r \in Rows, NEW s \in Sessions, NEW t \in Tokens, NEW ttl \in TTLs,
         IssueApprovalCapability(r, s, t, ttl)
  PROVE  UNCHANGED Contract!vars
<1>1. outbox \in [Rows -> Row] /\ delivered' = delivered
  BY DEF IInv, TypeOK, IssueApprovalCapability, provider
<1>2. ASSUME NEW q \in Rows
      PROVE  /\ outbox'[q].status = outbox[q].status /\ outbox'[q].basis = outbox[q].basis
             /\ outbox'[q].reason = outbox[q].reason /\ outbox'[q].retryOf = outbox[q].retryOf
  BY <1>1 DEF IssueApprovalCapability, Row
<1> QED BY <1>1, <1>2, NoStep DEF PhaseOf

LEMMA ClaimHides ==
  ASSUME IInv, NEW r \in Rows, NEW w \in Workers, NEW lease \in Leases, ClaimRow(r, w, lease)
  PROVE  UNCHANGED Contract!vars
<1>1. outbox \in [Rows -> Row] /\ delivered' = delivered
  BY DEF IInv, TypeOK, ClaimRow, provider
<1>2. outbox[r].status \in {"approved", "claimed"} /\ outbox'[r].status = "claimed"
      /\ outbox'[r].retryOf = outbox[r].retryOf /\ \A q \in Rows \ {r} : outbox'[q] = outbox[q]
  BY <1>1 DEF ClaimRow, Claimable, Row
<1>3. PhaseOf(outbox[r]) = "authorised" /\ PhaseOf(outbox'[r]) = "authorised"
  BY <1>2 DEF PhaseOf
<1> QED BY <1>1, <1>2, <1>3, NoStep

LEMMA MissHides ==
  ASSUME IInv, NEW r \in Rows, NEW backoff \in Backoffs, ReconciliationMiss(r, backoff)
  PROVE  UNCHANGED Contract!vars
<1>1. outbox \in [Rows -> Row] /\ delivered' = delivered
  BY DEF IInv, TypeOK, ReconciliationMiss, provider
<1>2. ASSUME NEW q \in Rows
      PROVE  /\ outbox'[q].status = outbox[q].status /\ outbox'[q].basis = outbox[q].basis
             /\ outbox'[q].reason = outbox[q].reason /\ outbox'[q].retryOf = outbox[q].retryOf
  BY <1>1 DEF ReconciliationMiss, Row
<1> QED BY <1>1, <1>2, NoStep DEF PhaseOf

-----------------------------------------------------------------------------
(* Operations that move one message.                                       *)

(* An approval authorises the message.                                     *)
LEMMA ApproveTurns ==
  ASSUME IInv, NEW r \in Rows, NEW s \in Sessions, NEW t \in Tokens, Approve(r, t, s)
  PROVE  Turns(r, {"asking"}, "authorised")
<1>1. outbox \in [Rows -> Row] /\ delivered' = delivered
  BY DEF IInv, TypeOK, Approve, provider
<1>2. /\ PhaseOf(outbox[r]) \in {"asking"} /\ PhaseOf(outbox'[r]) = "authorised"
      /\ outbox'[r].retryOf = outbox[r].retryOf /\ \A q \in Rows \ {r} : outbox'[q] = outbox[q]
  BY <1>1, NoneIsNull DEF PhaseOf, Approve, Row
<1> QED BY <1>1, <1>2 DEF Turns

(* A rejection withdraws it.                                               *)
LEMMA RejectTurns ==
  ASSUME IInv, NEW r \in Rows, Reject(r)
  PROVE  Turns(r, {"asking", "authorised"}, "withdrawn")
<1>1. outbox \in [Rows -> Row] /\ delivered' = delivered
  BY DEF IInv, TypeOK, Reject, provider
<1>2. /\ PhaseOf(outbox[r]) \in {"asking", "authorised"} /\ PhaseOf(outbox'[r]) = "withdrawn"
      /\ outbox'[r].retryOf = outbox[r].retryOf /\ \A q \in Rows \ {r} : outbox'[q] = outbox[q]
  BY <1>1, NoneIsNull DEF PhaseOf, Reject, Row
<1> QED BY <1>1, <1>2 DEF Turns

(* So does a cancellation, before the dispatch only.                       *)
LEMMA CancelTurns ==
  ASSUME IInv, NEW r \in Rows, Cancel(r)
  PROVE  Turns(r, {"asking", "authorised"}, "withdrawn")
<1>1. outbox \in [Rows -> Row] /\ delivered' = delivered
  BY DEF IInv, TypeOK, Cancel, provider
<1>2. /\ PhaseOf(outbox[r]) \in {"asking", "authorised"} /\ PhaseOf(outbox'[r]) = "withdrawn"
      /\ outbox'[r].retryOf = outbox[r].retryOf /\ \A q \in Rows \ {r} : outbox'[q] = outbox[q]
  BY <1>1, NoneIsNull DEF PhaseOf, Cancel, Row
<1> QED BY <1>1, <1>2 DEF Turns

(* The dispatch is the one attempt.                                        *)
LEMMA DispatchTurns ==
  ASSUME IInv, NEW r \in Rows, NEW w \in Workers, MarkDispatched(r, w)
  PROVE  Turns(r, {"authorised"}, "attempted")
<1>1. outbox \in [Rows -> Row] /\ delivered' = delivered
  BY DEF IInv, TypeOK, MarkDispatched
<1>2. /\ PhaseOf(outbox[r]) \in {"authorised"} /\ PhaseOf(outbox'[r]) = "attempted"
      /\ outbox'[r].retryOf = outbox[r].retryOf /\ \A q \in Rows \ {r} : outbox'[q] = outbox[q]
  BY <1>1, NoneIsNull DEF PhaseOf, MarkDispatched, Row
<1> QED BY <1>1, <1>2 DEF Turns

(* Its worker reports it sent.                                             *)
LEMMA SentTurns ==
  ASSUME IInv, NEW r \in Rows, NEW w \in Workers, MarkSent(r, w)
  PROVE  Turns(r, {"attempted", "unsure", "asked"}, "delivered")
<1>1. outbox \in [Rows -> Row] /\ delivered' = delivered
  BY DEF IInv, TypeOK, MarkSent, Reports, provider
<1>2. /\ PhaseOf(outbox[r]) \in {"attempted", "unsure", "asked"} /\ PhaseOf(outbox'[r]) = "delivered"
      /\ outbox'[r].retryOf = outbox[r].retryOf /\ \A q \in Rows \ {r} : outbox'[q] = outbox[q]
  BY <1>1, NoneIsNull DEF PhaseOf, MarkSent, Reports, Row
<1> QED BY <1>1, <1>2 DEF Turns

(* Its worker reports it refused.                                          *)
LEMMA FailedTurns ==
  ASSUME IInv, NEW r \in Rows, NEW w \in Workers, MarkFailed(r, w)
  PROVE  Turns(r, {"attempted"}, "refused")
<1>1. outbox \in [Rows -> Row] /\ delivered' = delivered
  BY DEF IInv, TypeOK, MarkFailed, Reports, provider
<1>2. /\ PhaseOf(outbox[r]) \in {"attempted"} /\ PhaseOf(outbox'[r]) = "refused"
      /\ outbox'[r].retryOf = outbox[r].retryOf /\ \A q \in Rows \ {r} : outbox'[q] = outbox[q]
  BY <1>1, NoneIsNull DEF PhaseOf, MarkFailed, Reports, Row
<1> QED BY <1>1, <1>2 DEF Turns

(* A search finds it.                                                      *)
LEMMA FoundTurns ==
  ASSUME IInv, NEW r \in Rows, ReconciliationFound(r)
  PROVE  Turns(r, {"attempted", "unsure", "asked"}, "delivered")
<1>1. outbox \in [Rows -> Row] /\ delivered' = delivered
  BY DEF IInv, TypeOK, ReconciliationFound, Searchable, provider
<1>2. /\ PhaseOf(outbox[r]) \in {"attempted", "unsure", "asked"} /\ PhaseOf(outbox'[r]) = "delivered"
      /\ outbox'[r].retryOf = outbox[r].retryOf /\ \A q \in Rows \ {r} : outbox'[q] = outbox[q]
  BY <1>1, NoneIsNull DEF PhaseOf, ReconciliationFound, Searchable, Row
<1> QED BY <1>1, <1>2 DEF Turns

(* The search gives up and asks the user.                                  *)
LEMMA GivesUpTurns ==
  ASSUME IInv, NEW r \in Rows, ReconciliationGivesUp(r)
  PROVE  Turns(r, {"unsure"}, "asked")
<1>1. outbox \in [Rows -> Row] /\ delivered' = delivered
  BY DEF IInv, TypeOK, ReconciliationGivesUp, Due, provider
<1>2. /\ PhaseOf(outbox[r]) \in {"unsure"} /\ PhaseOf(outbox'[r]) = "asked"
      /\ outbox'[r].retryOf = outbox[r].retryOf /\ \A q \in Rows \ {r} : outbox'[q] = outbox[q]
  BY <1>1, NoneIsNull DEF PhaseOf, ReconciliationGivesUp, Due, Row
<1> QED BY <1>1, <1>2 DEF Turns

(* The user sends it back to the search.                                   *)
LEMMA WaitTurns ==
  ASSUME IInv, NEW r \in Rows, NEW wait \in Waits, KeepWaiting(r, wait)
  PROVE  Turns(r, {"asked"}, "unsure")
<1>1. outbox \in [Rows -> Row] /\ delivered' = delivered
  BY DEF IInv, TypeOK, KeepWaiting, provider
<1>2. /\ PhaseOf(outbox[r]) \in {"asked"} /\ PhaseOf(outbox'[r]) = "unsure"
      /\ outbox'[r].retryOf = outbox[r].retryOf /\ \A q \in Rows \ {r} : outbox'[q] = outbox[q]
  BY <1>1, NoneIsNull DEF PhaseOf, KeepWaiting, Row
<1> QED BY <1>1, <1>2 DEF Turns

(* The user presumes it sent.                                              *)
LEMMA PresumeTurns ==
  ASSUME IInv, NEW r \in Rows, MarkHumanSent(r)
  PROVE  Turns(r, {"asked"}, "presumed")
<1>1. outbox \in [Rows -> Row] /\ delivered' = delivered
  BY DEF IInv, TypeOK, MarkHumanSent, provider
<1>2. /\ PhaseOf(outbox[r]) \in {"asked"} /\ PhaseOf(outbox'[r]) = "presumed"
      /\ outbox'[r].retryOf = outbox[r].retryOf /\ \A q \in Rows \ {r} : outbox'[q] = outbox[q]
  BY <1>1, NoneIsNull DEF PhaseOf, MarkHumanSent, Row
<1> QED BY <1>1, <1>2 DEF Turns

(* An enqueued row asks.                                                   *)
LEMMA EnqueueTurns ==
  ASSUME IInv, NEW d \in Drafts, NEW k \in Keys, NEW r \in Rows, Enqueue(d, k, r)
  PROVE  Turns(r, {"none"}, "asking")
<1>1. outbox \in [Rows -> Row] /\ outbox[r] = NoRow /\ delivered' = delivered
  BY ReadRow DEF IInv, TypeOK, Enqueue, provider, RowReadable
<1>2. PICK row : row = PendingRow(d, drafts[d].revision, drafts[d].content, k, None)
  OBVIOUS
<1>3. row.status = "pending_approval" /\ row.retryOf = None
  BY <1>2 DEF PendingRow, NoRow
<1>4. outbox' = [outbox EXCEPT ![r] = row]
  BY <1>2 DEF Enqueue
<1>5. outbox'[r] = row /\ \A q \in Rows \ {r} : outbox'[q] = outbox[q]
  BY <1>1, <1>4
<1>6. PhaseOf(outbox[r]) = "none" /\ PhaseOf(outbox'[r]) = "asking" /\ outbox[r].retryOf = None
  BY <1>1, <1>3, <1>5 DEF PhaseOf, NoRow
<1> QED BY <1>1, <1>3, <1>5, <1>6 DEF Turns

(* A dispatch of which its worker knows nothing is in doubt.               *)
LEMMA UnknownTurns ==
  ASSUME IInv, NEW r \in Rows, NEW w \in Workers, NEW wait \in Waits, MarkUnknown(r, w, wait)
  PROVE  AllTurn({r}, {"attempted"}, "unsure")
<1>1. outbox \in [Rows -> Row] /\ outbox[r] \in Row /\ delivered' = delivered
  BY DEF IInv, TypeOK, MarkUnknown, provider
<1>2. PICK row : row = Reconciling(outbox[r], wait)
  OBVIOUS
<1>3. row.status = "unknown" /\ row.retryOf = outbox[r].retryOf
  BY <1>1, <1>2 DEF Reconciling, Row
<1>4. outbox'[r] = row /\ \A q \in Rows \ {r} : outbox'[q] = outbox[q]
  BY <1>1, <1>2 DEF MarkUnknown
<1>5. PhaseOf(outbox[r]) = "attempted" /\ PhaseOf(outbox'[r]) = "unsure"
  BY <1>3, <1>4 DEF PhaseOf, MarkUnknown, Reports
<1> QED BY <1>1, <1>3, <1>4, <1>5 DEF AllTurn

(* So is every dispatch whose lease expired.                               *)
LEMMA RecoverTurns ==
  ASSUME IInv, RecoverExpired
  PROVE  AllTurn(ExpiredDispatches, {"attempted"}, "unsure")
<1>1. outbox \in [Rows -> Row] /\ delivered' = delivered
  BY DEF IInv, TypeOK, RecoverExpired, provider
<1>2. ASSUME NEW r \in ExpiredDispatches
      PROVE  /\ PhaseOf(outbox[r]) \in {"attempted"} /\ PhaseOf(outbox'[r]) = "unsure"
             /\ outbox'[r].retryOf = outbox[r].retryOf
  <2>1. outbox[r].status = "dispatched" /\ outbox[r] \in Row /\ r \in Rows
    BY <1>1 DEF ExpiredDispatches
  <2>2. PICK row : row = Reconciling(outbox[r], ReconcileDeadline)
    OBVIOUS
  <2>3. row.status = "unknown" /\ row.retryOf = outbox[r].retryOf
    BY <2>1, <2>2 DEF Reconciling, Row
  <2>4. outbox'[r] = row
    BY <2>1, <2>2 DEF RecoverExpired
  <2> QED BY <2>1, <2>3, <2>4 DEF PhaseOf
<1>3. \A q \in Rows \ ExpiredDispatches : outbox'[q] = outbox[q]
  BY DEF RecoverExpired
<1> QED BY <1>1, <1>2, <1>3 DEF AllTurn

(* An edit withdraws the messages of the text it replaces.                 *)
LEMMA EditTurns ==
  ASSUME IInv, NEW d \in Drafts, NEW c \in Content, EditDraft(d, c)
  PROVE  AllTurn(Superseded(d), {"asking", "authorised"}, "withdrawn")
<1>1. outbox \in [Rows -> Row] /\ delivered' = delivered
  BY DEF IInv, TypeOK, EditDraft, provider
<1>2. ASSUME NEW r \in Superseded(d)
      PROVE  /\ PhaseOf(outbox[r]) \in {"asking", "authorised"} /\ PhaseOf(outbox'[r]) = "withdrawn"
             /\ outbox'[r].retryOf = outbox[r].retryOf
  <2>1. outbox[r].status \in Live /\ outbox[r] \in Row /\ r \in Rows
    BY <1>1 DEF Superseded
  <2>2. PICK row : row = [outbox[r] EXCEPT !.status = "stale", !.cap = None, !.lease = None]
    OBVIOUS
  <2>3. row.status = "stale" /\ row.retryOf = outbox[r].retryOf
    BY <2>1, <2>2 DEF Row
  <2>4. outbox'[r] = row
    BY <2>1, <2>2 DEF EditDraft
  <2> QED BY <2>1, <2>3, <2>4 DEF PhaseOf, Live
<1>3. \A q \in Rows \ Superseded(d) : outbox'[q] = outbox[q]
  BY DEF EditDraft
<1> QED BY <1>1, <1>2, <1>3 DEF AllTurn

-----------------------------------------------------------------------------
(* Steps of the contract of their own kind.                                *)

(* What arrives was attempted, and arrives once.                           *)
LEMMA AcceptArrives ==
  ASSUME IInv, NEW r \in Rows, ProviderAccepts(r)
  PROVE  Contract!Arrive(r)
<1>1. /\ calls[r] \in Nat /\ delivered \in [Rows -> Nat] /\ calls[r] > 0 /\ refused[r] \in BOOLEAN
      /\ outbox' = outbox /\ delivered' = [delivered EXCEPT ![r] = @ + 1]
  BY DEF IInv, TypeOK, ProviderAccepts
<1>2. RowFact(r) /\ outbox[r] \in Row /\ RowReadable(outbox[r])
  BY ReadRow DEF IInv
<1>3. delivered[r] = 0
  <2>1. calls[r] + delivered[r] + (IF refused[r] THEN 1 ELSE 0) <= 1
    BY <1>2 DEF RowFact
  <2> QED BY <1>1, <2>1
<1>4. outbox[r].history /\ outbox[r].basis # "provider" /\ outbox[r].status # "failed"
  BY <1>1, <1>2, <1>3 DEF RowFact
<1>5. PhaseOf(outbox[r]) \in {"attempted", "unsure", "asked", "presumed", "resent"}
  BY <1>2, <1>4 DEF RowReadable, Attempted, PhaseOf
<1>6. {q \in Rows : delivered'[q] > 0} = {q \in Rows : delivered[q] > 0} \cup {r}
  BY <1>1, <1>3
<1>7. r \notin {q \in Rows : delivered[q] > 0}
  BY <1>3
<1> QED BY <1>1, <1>5, <1>6, <1>7 DEF Contract!Arrive

(* Only the message the user was asked about is resent, as a new one.      *)
LEMMA RetryResends ==
  ASSUME IInv, NEW p \in Rows, NEW k \in Keys, NEW r \in Rows, Retry(p, k, r)
  PROVE  Contract!Resend(p, r)
<1>1. /\ outbox \in [Rows -> Row] /\ outbox[p] \in Row /\ delivered' = delivered
      /\ outbox[p].status = "human_decision" /\ outbox[r].status = "absent" /\ p # r
  BY DEF IInv, TypeOK, Retry, provider
<1>2. PICK parent : parent = [outbox[p] EXCEPT !.status = "cancelled", !.recon = None,
                                               !.reason = "retry"]
  OBVIOUS
<1>3. PICK child : child = Resend(p, k)
  OBVIOUS
<1>4. /\ parent.status = "cancelled" /\ parent.reason = "retry"
      /\ parent.retryOf = outbox[p].retryOf
  BY <1>1, <1>2 DEF Row
<1>5. child.status = "pending_approval" /\ child.retryOf = p
  BY <1>3 DEF Resend, PendingRow, NoRow
<1>6. outbox' = [outbox EXCEPT ![p] = parent, ![r] = child]
  BY <1>2, <1>3 DEF Retry
<1>7. /\ outbox'[p] = parent /\ outbox'[r] = child
      /\ \A q \in Rows \ {p, r} : outbox'[q] = outbox[q]
  BY <1>1, <1>6
<1>8. PhaseOf(outbox[p]) = "asked" /\ PhaseOf(outbox[r]) = "none"
  BY <1>1 DEF PhaseOf
<1>9. PhaseOf(outbox'[p]) = "resent" /\ PhaseOf(outbox'[r]) = "asking"
  BY <1>4, <1>5, <1>7 DEF PhaseOf
<1>10. [q \in Rows |-> PhaseOf(outbox'[q])]
       = [[q \in Rows |-> PhaseOf(outbox[q])] EXCEPT ![p] = "resent", ![r] = "asking"]
  BY <1>1, <1>7, <1>9
<1>11. [q \in Rows |-> outbox'[q].retryOf]
       = [[q \in Rows |-> outbox[q].retryOf] EXCEPT ![r] = p]
  BY <1>1, <1>4, <1>5, <1>7
<1> QED BY <1>1, <1>8, <1>10, <1>11 DEF Contract!Resend

-----------------------------------------------------------------------------
(* The refinement.                                                         *)

(* Nothing is asked yet, and the provider has nothing.                     *)
LEMMA ContractInit == Init => Contract!Init
BY DEF Init, NoRow, PhaseOf, Contract!Init

(* A message that turns as one step of the contract allows takes it.       *)
LEMMA OneStep ==
  ASSUME NEW r \in Rows,
         \/ Turns(r, {"none"}, "asking")
         \/ Turns(r, {"asking"}, "authorised")
         \/ Turns(r, {"authorised"}, "attempted")
         \/ Turns(r, {"unsure"}, "asked")
         \/ Turns(r, {"asked"}, "unsure")
         \/ Turns(r, {"asked"}, "presumed")
  PROVE  Contract!Next
<1>1. \/ Contract!Ask(r) \/ Contract!Authorise(r) \/ Contract!Attempt(r)
      \/ Contract!AskHuman(r) \/ Contract!Wait(r) \/ Contract!Presume(r)
  BY OneMoves DEF Contract!Ask, Contract!Authorise, Contract!Attempt, Contract!AskHuman,
                  Contract!Wait, Contract!Presume
<1> QED BY <1>1 DEF Contract!Next

(* Evidence confirms only what the provider has.                           *)
LEMMA ConfirmStep ==
  ASSUME IInv, NEW r \in Rows, delivered[r] > 0,
         Turns(r, {"attempted", "unsure", "asked"}, "delivered")
  PROVE  Contract!Next
<1>1. r \in {q \in Rows : delivered[q] > 0}
  OBVIOUS
<1>2. Contract!Confirm(r)
  BY <1>1, OneMoves DEF Contract!Confirm
<1> QED BY <1>2 DEF Contract!Next

(* A refusal is reported only of what the provider does not have.          *)
LEMMA RefuseStep ==
  ASSUME IInv, NEW r \in Rows, NEW w \in Workers, MarkFailed(r, w)
  PROVE  Contract!Next
<1>1. r \notin {q \in Rows : delivered[q] > 0}
  BY OneAttempt DEF MarkFailed
<1>2. Contract!Refuse(r)
  BY <1>1, FailedTurns, OneMoves DEF Contract!Refuse
<1> QED BY <1>2 DEF Contract!Next

(* Rejections, cancellations and edits withdraw.                           *)
LEMMA WithdrawStep ==
  ASSUME NEW S \in SUBSET Rows, AllTurn(S, {"asking", "authorised"}, "withdrawn")
  PROVE  Contract!Next
<1>1. Contract!Withdraw(S)
  BY ManyMove DEF Contract!Withdraw
<1> QED BY <1>1 DEF Contract!Next

LEMMA DoubtStep ==
  ASSUME NEW S \in SUBSET Rows, AllTurn(S, {"attempted"}, "unsure")
  PROVE  Contract!Next
<1>1. Contract!Doubt(S)
  BY ManyMove DEF Contract!Doubt
<1> QED BY <1>1 DEF Contract!Next

LEMMA OneIsMany ==
  ASSUME NEW r \in Rows, NEW from, NEW to, Turns(r, from, to)
  PROVE  {r} \in SUBSET Rows /\ AllTurn({r}, from, to)
BY DEF Turns, AllTurn

(* Every operation is a step of the contract, or hidden from it.           *)
LEMMA ContractNext == IInv /\ [Next]_vars => [Contract!Next]_(Contract!vars)
<1> SUFFICES ASSUME IInv, [Next]_vars PROVE Contract!Next \/ UNCHANGED Contract!vars
  OBVIOUS
<1>1. CASE Environment
  <2>1. ASSUME NEW r \in Rows, ProviderAccepts(r) PROVE Contract!Next
    BY <2>1, AcceptArrives DEF Contract!Next
  <2>2. ASSUME NEW r \in Rows, ProviderRefuses(r) PROVE UNCHANGED Contract!vars
    BY <2>2, SurroundingsHide DEF ProviderRefuses
  <2> QED BY <1>1, <2>1, <2>2, SurroundingsHide
          DEF Environment, UpsertAccount, VaultChanges, ClockMoves, provider
<1>2. CASE Authoring
  <2>1. ASSUME NEW d \in Drafts, NEW c \in Content, CreateDraft(d, c) PROVE UNCHANGED Contract!vars
    BY <2>1, SurroundingsHide DEF CreateDraft, provider
  <2>2. ASSUME NEW d \in Drafts, NEW c \in Content, EditDraft(d, c) PROVE Contract!Next
    <3>1. Superseded(d) \in SUBSET Rows
      BY DEF Superseded
    <3> QED BY <2>2, <3>1, EditTurns, WithdrawStep
  <2>3. ASSUME NEW r \in Rows, Reject(r) \/ Cancel(r) PROVE Contract!Next
    BY <2>3, RejectTurns, CancelTurns, OneIsMany, WithdrawStep
  <2> QED BY <1>2, <2>1, <2>2, <2>3, EnqueueTurns, ApproveTurns, OneStep, IssueHides DEF Authoring
<1>3. CASE Sending
  <2>1. ASSUME NEW r \in Rows, NEW w \in Workers, MarkSent(r, w) PROVE Contract!Next
    BY <2>1, SentTurns, ConfirmStep DEF MarkSent
  <2>2. ASSUME NEW r \in Rows, NEW w \in Workers, NEW wait \in Waits, MarkUnknown(r, w, wait)
        PROVE  Contract!Next
    <3>1. {r} \in SUBSET Rows
      OBVIOUS
    <3> QED BY <2>2, <3>1, UnknownTurns, DoubtStep
  <2>3. ASSUME RecoverExpired PROVE Contract!Next
    <3>1. ExpiredDispatches \in SUBSET Rows
      BY DEF ExpiredDispatches
    <3> QED BY <2>3, <3>1, RecoverTurns, DoubtStep
  <2> QED BY <1>3, <2>1, <2>2, <2>3, ClaimHides, DispatchTurns, OneStep, RefuseStep
          DEF Sending, Claim, ClaimNext
<1>4. CASE Settling
  <2>1. ASSUME NEW r \in Rows, ReconciliationFound(r) PROVE Contract!Next
    BY <2>1, FoundTurns, ConfirmStep DEF ReconciliationFound
  <2>2. ASSUME NEW p \in Rows, NEW r \in Rows, NEW k \in Keys, Retry(p, k, r) PROVE Contract!Next
    BY <2>2, RetryResends DEF Contract!Next
  <2> QED BY <1>4, <2>1, <2>2, GivesUpTurns, PresumeTurns, WaitTurns, OneStep, MissHides DEF Settling
<1>5. CASE UNCHANGED vars
  BY <1>5, SurroundingsHide DEF vars
<1> QED BY <1>1, <1>2, <1>3, <1>4, <1>5 DEF Next

(* The outbox keeps its promise, whatever edits, claims, expiries and late *)
(* answers interleave: nothing arrives unapproved or twice, nothing that   *)
(* may arrive is reported refused, and only a person has a message resent. *)
THEOREM OutboxKeepsTheContract == Spec => ImplementsContract
BY Invariant, ContractInit, ContractNext, PTL DEF Spec, ImplementsContract, Contract!Spec
=============================================================================
