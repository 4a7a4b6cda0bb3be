------------------------------- MODULE Outbox -------------------------------
(***************************************************************************)
(* The durable outbox: accounts, drafts, send rows and attention items in  *)
(* one SQLite database.  Every operation of the source runs in one         *)
(* BEGIN IMMEDIATE transaction of the single storage process, so every     *)
(* operation is one action; a call that fails rolls back and is no step.   *)
(* A crash loses nothing (all of this state is on disk) and takes nothing  *)
(* away from the behaviours below: a caller may stop between any two steps.*)
(*                                                                         *)
(* External, modelled from how the code uses them: the msgvault archive    *)
(* (the reply targets it resolves), the wall clock, the send worker and    *)
(* the mail provider behind it.                                            *)
(***************************************************************************)
EXTENDS Integers, FiniteSets

CONSTANTS
  Accounts, Addresses, Sources, \* product accounts, send-as addresses, vault sources
  Messages, RfcIds,             \* vault messages a draft may reply to, RFC 822 ids
  Bodies,                       \* recipients, subject, body, attachments, as one value
  Drafts, Rows, Keys,           \* draft paths, outbox row ids, operation keys
  Sessions, Tokens, Workers,    \* browser sessions, approval tokens, send workers
  None,                         \* SQL NULL
  MaxPending,                   \* pending approvals per account (5 in the code)
  ReconcileDeadline,            \* wait that recoverExpired grants
  TTLs, Leases, Waits, Backoffs,\* durations callers pass
  MaxTime, MaxRevision          \* bounds of the model: clock values, draft revisions

VARIABLES
  accounts,   \* mail_accounts
  vault,      \* external: what resolveReplyTarget answers
  drafts,     \* mail_drafts, by path; revision 0 is no row
  outbox,     \* mail_outbox; status "absent" is no row
  attention,  \* the unresolved rows of mail_attention
  now,        \* external: Date.now()
  grants,     \* history: what each approval token was issued for
  approval,   \* history: the token and session that approved a row, and when
  calls,      \* external: provider calls a worker may still make for a row
  delivered,  \* external: messages the provider accepted for a row
  refused     \* external: the provider definitely refused the row's message

vars == <<accounts, vault, drafts, outbox, attention, now,
          grants, approval, calls, delivered, refused>>
provider == <<calls, delivered, refused>>
authority == <<grants, approval>>

ASSUME LimitIsPositive == MaxPending \in Nat \ {0}
ASSUME BoundsAreNatural == MaxTime \in Nat /\ MaxRevision \in Nat
ASSUME DurationsArePositive ==
  /\ ReconcileDeadline \in Nat \ {0}
  /\ TTLs \cup Leases \cup Waits \cup Backoffs \subseteq Nat \ {0}
ASSUME RowsAreFinite == IsFiniteSet(Rows)

Time == 0 .. MaxTime
Target == [source : Sources, rfc : RfcIds]
Reply == [message : Messages, target : Target]
Content == [account : Accounts, sendAs : Addresses, reply : Reply \cup {None}, body : Bodies]
Account == [source : Sources, sendAs : SUBSET Addresses, connected : BOOLEAN]

Statuses == {"pending_approval", "approved", "claimed", "dispatched", "unknown",
             "human_decision", "sent", "failed", "rejected", "cancelled", "stale"}
Live == {"pending_approval", "approved", "claimed"}
Attempted == {"dispatched", "unknown", "human_decision", "sent", "failed"}

Capability == [token : Tokens, session : Sessions, expires : Nat]
Lease == [owner : Workers, expires : Nat]
Reconciliation == [deadline : Nat, next : Nat \cup {None}]
Grant == [row : Rows, session : Sessions, expires : Nat, replaced : BOOLEAN]
Approval == [token : Tokens, session : Sessions, at : Nat]
ASSUME NoneIsNull ==
  /\ None \notin Accounts \cup Sources \cup Drafts \cup Rows \cup Keys \cup Tokens \cup Sessions
  /\ None \notin Content \cup Capability \cup Lease \cup Reconciliation
  /\ None \notin Grant \cup Approval
  /\ None \notin Nat \cup {"provider", "human", "cancelled", "retry"}

Row == [status : Statuses \cup {"absent"}, draft : Drafts \cup {None}, revision : Nat,
        content : Content \cup {None}, key : Keys \cup {None}, retryOf : Rows \cup {None},
        created : Nat, cap : Capability \cup {None}, consumed : BOOLEAN,
        lease : Lease \cup {None}, history : BOOLEAN, recon : Reconciliation \cup {None},
        basis : {"provider", "human", None}, failure : BOOLEAN,
        reason : {"cancelled", "retry", None}]
NoRow == [status |-> "absent", draft |-> None, revision |-> 0, content |-> None,
          key |-> None, retryOf |-> None, created |-> 0, cap |-> None, consumed |-> FALSE,
          lease |-> None, history |-> FALSE, recon |-> None, basis |-> None,
          failure |-> FALSE, reason |-> None]

TypeOK ==
  /\ accounts \in [Accounts -> Account \cup {None}]
  /\ vault \in [Messages -> Target \cup {None}]
  /\ drafts \in [Drafts -> [revision : Nat, content : Content \cup {None}]]
  /\ outbox \in [Rows -> Row]
  /\ attention \subseteq Rows \X {"approval_required", "send_unknown"}
  /\ now \in Time
  /\ grants \in [Tokens -> Grant \cup {None}]
  /\ approval \in [Rows -> Approval \cup {None}]
  /\ calls \in [Rows -> Nat] /\ delivered \in [Rows -> Nat] /\ refused \in [Rows -> BOOLEAN]

Init ==
  /\ accounts = [a \in Accounts |-> None]
  /\ vault \in [Messages -> Target \cup {None}]
  /\ drafts = [d \in Drafts |-> [revision |-> 0, content |-> None]]
  /\ outbox = [r \in Rows |-> NoRow]
  /\ attention = {}
  /\ now = 0
  /\ grants = [t \in Tokens |-> None]
  /\ approval = [r \in Rows |-> None]
  /\ calls = [r \in Rows |-> 0] /\ delivered = [r \in Rows |-> 0]
  /\ refused = [r \in Rows |-> FALSE]

-----------------------------------------------------------------------------
(* Accounts, the archive and the clock.                                    *)

\* assertIdentity: the account is known, connected and may send as the address,
\* and a reply still belongs to the account's own source in the archive.
IdentityOK(c) ==
  /\ accounts[c.account] # None
  /\ accounts[c.account].connected
  /\ c.sendAs \in accounts[c.account].sendAs
  /\ c.reply # None => /\ accounts[c.account].source = c.reply.target.source
                       /\ vault[c.reply.message] = c.reply.target

\* upsertAccount, also how a host disconnects an account or withdraws an
\* address.  provider_source_id is UNIQUE: a source of another account fails.
UpsertAccount(a, source, sendAs, connected) ==
  /\ sendAs # {}
  /\ \A b \in Accounts \ {a} : accounts[b] # None => accounts[b].source # source
  /\ accounts' = [accounts EXCEPT ![a] =
                   [source |-> source, sendAs |-> sendAs, connected |-> connected]]
  /\ UNCHANGED <<vault, drafts, outbox, attention, now, authority, provider>>

\* A synchronisation adds, moves or removes a message of the archive.
VaultChanges(m, target) ==
  /\ vault' = [vault EXCEPT ![m] = target]
  /\ UNCHANGED <<accounts, drafts, outbox, attention, now, authority, provider>>

\* Date.now() is the wall clock: it advances, jumps and may be set back.
ClockMoves(t) ==
  /\ t # now
  /\ now' = t
  /\ UNCHANGED <<accounts, vault, drafts, outbox, attention, authority, provider>>

\* context.deadline: every lease, capability and search deadline.
Deadline(t, duration) == t + duration

-----------------------------------------------------------------------------
(* Drafts.  A reply's account and target are looked up in the same call, so *)
(* the content saved is one that assertIdentity accepts.  Saving identical  *)
(* content changes nothing and is no step.                                  *)

CreateDraft(d, c) ==
  /\ IdentityOK(c)
  /\ drafts[d].revision = 0
  /\ drafts' = [drafts EXCEPT ![d] = [revision |-> 1, content |-> c]]
  /\ UNCHANGED <<accounts, vault, outbox, attention, now, authority, provider>>

\* The rows an edit of d makes stale: not yet dispatched.
SupersededUnclaimed(d) ==
  {r \in Rows : outbox[r].draft = d /\ outbox[r].status \in {"pending_approval", "approved"}}
Superseded(d) == {r \in Rows : outbox[r].draft = d /\ outbox[r].status \in Live}

EditDraftSilently(d, c) ==
  /\ IdentityOK(c)
  /\ drafts[d].revision \in 1 .. MaxRevision - 1
  /\ drafts[d].content # c
  /\ outbox' = [r \in Rows |->
       IF r \in Superseded(d)
       THEN [outbox[r] EXCEPT !.status = "stale", !.cap = None, !.lease = None]
       ELSE outbox[r]]
  /\ drafts' = [drafts EXCEPT ![d] = [revision |-> drafts[d].revision + 1, content |-> c]]
  /\ UNCHANGED <<accounts, vault, attention, now, authority, provider>>
EditDraft(d, c) ==
  /\ IdentityOK(c)
  /\ drafts[d].revision \in 1 .. MaxRevision - 1
  /\ drafts[d].content # c
  /\ outbox' = [r \in Rows |->
       IF r \in Superseded(d)
       THEN [outbox[r] EXCEPT !.status = "stale", !.cap = None, !.lease = None]
       ELSE outbox[r]]
  /\ attention' = {i \in attention : ~ /\ i[2] = "approval_required"
                                       /\ outbox[i[1]].draft = d
                                       /\ outbox'[i[1]].status = "stale"}
  /\ drafts' = [drafts EXCEPT ![d] = [revision |-> drafts[d].revision + 1, content |-> c]]
  /\ UNCHANGED <<accounts, vault, now, authority, provider>>

-----------------------------------------------------------------------------
(* Approval.                                                               *)

Pending(a) == {r \in Rows : outbox[r].status = "pending_approval" /\ outbox[r].content.account = a}
AtBacklog(a) == Cardinality(Pending(a)) <= MaxPending
BelowBacklog(a) == Cardinality(Pending(a)) < MaxPending

\* operation(account, key): the rows that already used the key.
LiveOperation(a, k) == {r \in Rows : outbox[r].status \in Live /\ outbox[r].key = k
                                     /\ outbox[r].content.account = a}
Operation(a, k) == {r \in Rows : outbox[r].status # "absent" /\ outbox[r].key = k
                                 /\ outbox[r].content.account = a}

PendingRow(d, revision, c, k, retryOf) ==
  [NoRow EXCEPT !.status = "pending_approval", !.draft = d, !.revision = revision,
                !.content = c, !.key = k, !.retryOf = retryOf, !.created = now]

\* The first enqueue of a key.  A replay returns the row the key already has,
\* or fails, and changes nothing.
Enqueue(d, k, r) ==
  /\ drafts[d].revision > 0
  /\ IdentityOK(drafts[d].content)
  /\ Operation(drafts[d].content.account, k) = {}
  /\ BelowBacklog(drafts[d].content.account)
  /\ outbox[r].status = "absent"
  /\ outbox' = [outbox EXCEPT ![r] = PendingRow(d, drafts[d].revision, drafts[d].content, k, None)]
  /\ attention' = attention \cup {<<r, "approval_required">>}
  /\ UNCHANGED <<accounts, vault, drafts, now, authority, provider>>

\* A fresh random token replaces whatever capability the row had.
IssueApprovalCapability(r, s, t, ttl) ==
  /\ outbox[r].status = "pending_approval"
  /\ grants[t] = None
  /\ outbox' = [outbox EXCEPT ![r].cap = [token |-> t, session |-> s, expires |-> Deadline(now, ttl)]]
  /\ grants' = [u \in Tokens |->
       IF u = t THEN [row |-> r, session |-> s, expires |-> Deadline(now, ttl), replaced |-> FALSE]
       ELSE IF grants[u] # None /\ grants[u].row = r THEN [grants[u] EXCEPT !.replaced = TRUE]
       ELSE grants[u]]
  /\ UNCHANGED <<accounts, vault, drafts, attention, now, approval, provider>>

\* The stored verifier is a hash of token, session, row, content and expiry:
\* token t and session s match it only if they are the ones it was made for.
AnyGrantAdmits(r, t, s) ==
  /\ grants[t] # None
  /\ grants[t].expires > now
  /\ grants[t].row = r /\ grants[t].session = s
CapabilityAdmits(r, t, s) ==
  /\ outbox[r].cap # None
  /\ outbox[r].cap.expires > now
  /\ outbox[r].cap.token = t
  /\ outbox[r].cap.session = s

Approve(r, t, s) ==
  /\ outbox[r].status = "pending_approval"
  /\ IdentityOK(outbox[r].content)
  /\ CapabilityAdmits(r, t, s)
  /\ outbox' = [outbox EXCEPT ![r].status = "approved", ![r].cap = None, ![r].consumed = TRUE]
  /\ attention' = attention \ {<<r, "approval_required">>}
  /\ approval' = [approval EXCEPT ![r] = [token |-> t, session |-> s, at |-> now]]
  /\ UNCHANGED <<accounts, vault, drafts, now, grants, provider>>

Reject(r) ==
  /\ outbox[r].status = "pending_approval"
  /\ outbox' = [outbox EXCEPT ![r].status = "rejected", ![r].cap = None]
  /\ attention' = attention \ {<<r, "approval_required">>}
  /\ UNCHANGED <<accounts, vault, drafts, now, authority, provider>>

Cancel(r) ==
  /\ outbox[r].status \in {"approved", "claimed"}
  /\ outbox' = [outbox EXCEPT ![r].status = "cancelled", ![r].lease = None, ![r].reason = "cancelled"]
  /\ UNCHANGED <<accounts, vault, drafts, attention, now, authority, provider>>

-----------------------------------------------------------------------------
(* Claim and dispatch.                                                     *)

ClaimableAfterDispatch(r) ==
  \/ outbox[r].status = "approved"
  \/ outbox[r].status \in {"claimed", "dispatched"} /\ outbox[r].lease.expires <= now
Claimable(r) == \/ outbox[r].status = "approved"
                \/ outbox[r].status = "claimed" /\ outbox[r].lease.expires <= now

ClaimRow(r, w, lease) ==
  /\ Claimable(r)
  /\ IdentityOK(outbox[r].content)
  /\ outbox' = [outbox EXCEPT ![r].status = "claimed",
                              ![r].lease = [owner |-> w, expires |-> Deadline(now, lease)]]
  /\ UNCHANGED <<accounts, vault, drafts, attention, now, authority, provider>>

Claim(r, w, lease) == ClaimRow(r, w, lease)

\* claimNext takes the oldest row, skipping those whose identity is revoked;
\* rows of the same millisecond come in the order of their random ids.
ClaimNext(r, w, lease) ==
  /\ \A q \in Rows : Claimable(q) /\ outbox[q].created < outbox[r].created
                     => ~IdentityOK(outbox[q].content)
  /\ ClaimRow(r, w, lease)

\* A successful markDispatched is the worker's licence to call the provider.
DispatchesUnchecked(r, w) ==
  /\ outbox[r].status = "claimed"
  /\ outbox[r].lease.owner = w
  /\ outbox[r].lease.expires > now
  /\ outbox' = [outbox EXCEPT ![r].status = "dispatched", ![r].history = TRUE]
  /\ calls' = [calls EXCEPT ![r] = @ + 1]
  /\ UNCHANGED <<accounts, vault, drafts, attention, now, authority, delivered, refused>>
MarkDispatched(r, w) ==
  /\ outbox[r].status = "claimed"
  /\ outbox[r].lease.owner = w
  /\ outbox[r].lease.expires > now
  /\ IdentityOK(outbox[r].content)
  /\ outbox' = [outbox EXCEPT ![r].status = "dispatched", ![r].history = TRUE]
  /\ calls' = [calls EXCEPT ![r] = @ + 1]
  /\ UNCHANGED <<accounts, vault, drafts, attention, now, authority, delivered, refused>>

\* External: the worker's call reaches the provider, at any time after the
\* licence, whatever became of the row meanwhile; or the worker died first.
ProviderAccepts(r) ==
  /\ calls[r] > 0
  /\ calls' = [calls EXCEPT ![r] = @ - 1]
  /\ delivered' = [delivered EXCEPT ![r] = @ + 1]
  /\ UNCHANGED <<accounts, vault, drafts, outbox, attention, now, authority, refused>>

ProviderRefuses(r) ==
  /\ calls[r] > 0
  /\ calls' = [calls EXCEPT ![r] = @ - 1]
  /\ refused' = [refused EXCEPT ![r] = TRUE]
  /\ UNCHANGED <<accounts, vault, drafts, outbox, attention, now, authority, delivered>>

\* dispatchedResult: only the owner of the dispatched row reports, with or
\* without an expired lease.  It reports what the provider answered.
Reports(r, w) == outbox[r].status = "dispatched" /\ outbox[r].lease.owner = w

MarkSent(r, w) ==
  /\ Reports(r, w)
  /\ delivered[r] > 0
  /\ outbox' = [outbox EXCEPT ![r].status = "sent", ![r].lease = None, ![r].basis = "provider"]
  /\ UNCHANGED <<accounts, vault, drafts, attention, now, authority, provider>>

MarkFailed(r, w) ==
  /\ Reports(r, w)
  /\ refused[r]
  /\ outbox' = [outbox EXCEPT ![r].status = "failed", ![r].lease = None, ![r].failure = TRUE]
  /\ UNCHANGED <<accounts, vault, drafts, attention, now, authority, provider>>

ReconcilingWithLease(row, wait) ==
  [row EXCEPT !.status = "unknown", !.recon = [deadline |-> Deadline(now, wait), next |-> now]]
AssumedFailed(row, wait) == [row EXCEPT !.status = "failed", !.lease = None, !.failure = TRUE]
Reconciling(row, wait) ==
  [row EXCEPT !.status = "unknown", !.lease = None,
              !.recon = [deadline |-> Deadline(now, wait), next |-> now]]

MarkUnknown(r, w, wait) ==
  /\ Reports(r, w)
  /\ outbox' = [outbox EXCEPT ![r] = Reconciling(outbox[r], wait)]
  /\ UNCHANGED <<accounts, vault, drafts, attention, now, authority, provider>>

ExpiredDispatches == {r \in Rows : outbox[r].status = "dispatched" /\ outbox[r].lease.expires <= now}

RecoverExpired ==
  /\ ExpiredDispatches # {}
  /\ outbox' = [r \in Rows |-> IF r \in ExpiredDispatches
                               THEN Reconciling(outbox[r], ReconcileDeadline) ELSE outbox[r]]
  /\ UNCHANGED <<accounts, vault, drafts, attention, now, authority, provider>>

-----------------------------------------------------------------------------
(* Reconciliation and the human decision.                                  *)

Searchable(r) == outbox[r].status \in {"unknown", "human_decision"}

\* The reconciler searched the provider and found the message.
ReconciliationFound(r) ==
  /\ Searchable(r)
  /\ delivered[r] > 0
  /\ outbox' = [outbox EXCEPT ![r].status = "sent", ![r].recon = None, ![r].basis = "provider"]
  /\ attention' = attention \ {<<r, "send_unknown">>}
  /\ UNCHANGED <<accounts, vault, drafts, now, authority, provider>>

IgnoreDeadline(s, t) == s
Earlier(s, t) == IF s <= t THEN s ELSE t

Due(r) == outbox[r].status = "unknown" /\ outbox[r].recon.next <= now

\* A search that found nothing, which proves nothing: the index may lag.
ReconciliationMiss(r, backoff) ==
  /\ Due(r)
  /\ now < outbox[r].recon.deadline
  /\ outbox' = [outbox EXCEPT ![r].recon.next = Earlier(now + backoff, outbox[r].recon.deadline)]
  /\ UNCHANGED <<accounts, vault, drafts, attention, now, authority, provider>>

\* The same call at or after the deadline: the row is handed to a human.
ReconciliationGivesUp(r) ==
  /\ Due(r)
  /\ now >= outbox[r].recon.deadline
  /\ outbox' = [outbox EXCEPT ![r].status = "human_decision", ![r].recon.next = None]
  /\ attention' = attention \cup {<<r, "send_unknown">>}
  /\ UNCHANGED <<accounts, vault, drafts, now, authority, provider>>

KeepWaiting(r, wait) ==
  /\ outbox[r].status = "human_decision"
  /\ outbox' = [outbox EXCEPT ![r].status = "unknown",
                              ![r].recon = [deadline |-> Deadline(now, wait), next |-> now]]
  /\ attention' = attention \ {<<r, "send_unknown">>}
  /\ UNCHANGED <<accounts, vault, drafts, now, authority, provider>>

MarkHumanSent(r) ==
  /\ outbox[r].status = "human_decision"
  /\ outbox' = [outbox EXCEPT ![r].status = "sent", ![r].recon = None, ![r].basis = "human"]
  /\ attention' = attention \ {<<r, "send_unknown">>}
  /\ UNCHANGED <<accounts, vault, drafts, now, authority, provider>>

ResendLatest(p, k) ==
  LET d == outbox[p].draft IN PendingRow(d, drafts[d].revision, drafts[d].content, k, p)
Resend(p, k) == PendingRow(outbox[p].draft, outbox[p].revision, outbox[p].content, k, p)

\* The human asks for another attempt: a new row, pending a new approval.
\* A replay of the key returns the child it made, or fails, and is no step.
RetryReusesKeys(p, k, r) ==
  LET parent == outbox[p] IN
  /\ parent.status = "human_decision"
  /\ BelowBacklog(parent.content.account)
  /\ outbox[r].status = "absent"
  /\ outbox' = [outbox EXCEPT
       ![p] = [parent EXCEPT !.status = "cancelled", !.recon = None, !.reason = "retry"],
       ![r] = Resend(p, k)]
  /\ attention' = (attention \ {<<p, "send_unknown">>}) \cup {<<r, "approval_required">>}
  /\ UNCHANGED <<accounts, vault, drafts, now, authority, provider>>
RetryBeyondBacklog(p, k, r) ==
  LET parent == outbox[p] IN
  /\ parent.status = "human_decision"
  /\ Operation(parent.content.account, k) = {}
  /\ outbox[r].status = "absent"
  /\ outbox' = [outbox EXCEPT
       ![p] = [parent EXCEPT !.status = "cancelled", !.recon = None, !.reason = "retry"],
       ![r] = Resend(p, k)]
  /\ attention' = (attention \ {<<p, "send_unknown">>}) \cup {<<r, "approval_required">>}
  /\ UNCHANGED <<accounts, vault, drafts, now, authority, provider>>
Retry(p, k, r) ==
  LET parent == outbox[p] IN
  /\ parent.status = "human_decision"
  /\ Operation(parent.content.account, k) = {}
  /\ BelowBacklog(parent.content.account)
  /\ outbox[r].status = "absent"
  /\ outbox' = [outbox EXCEPT
       ![p] = [parent EXCEPT !.status = "cancelled", !.recon = None, !.reason = "retry"],
       ![r] = Resend(p, k)]
  /\ attention' = (attention \ {<<p, "send_unknown">>}) \cup {<<r, "approval_required">>}
  /\ UNCHANGED <<accounts, vault, drafts, now, authority, provider>>

-----------------------------------------------------------------------------
Environment ==
  \/ \E a \in Accounts, source \in Sources, sendAs \in SUBSET Addresses, up \in BOOLEAN :
       UpsertAccount(a, source, sendAs, up)
  \/ \E m \in Messages, target \in Target \cup {None} : VaultChanges(m, target)
  \/ \E t \in Time : ClockMoves(t)
  \/ \E r \in Rows : ProviderAccepts(r) \/ ProviderRefuses(r)

Authoring ==
  \/ \E d \in Drafts, c \in Content : CreateDraft(d, c) \/ EditDraft(d, c)
  \/ \E d \in Drafts, k \in Keys, r \in Rows : Enqueue(d, k, r)
  \/ \E r \in Rows, s \in Sessions, t \in Tokens, ttl \in TTLs :
       IssueApprovalCapability(r, s, t, ttl)
  \/ \E r \in Rows, s \in Sessions, t \in Tokens : Approve(r, t, s)
  \/ \E r \in Rows : Reject(r) \/ Cancel(r)

Sending ==
  \/ \E r \in Rows, w \in Workers, lease \in Leases : Claim(r, w, lease) \/ ClaimNext(r, w, lease)
  \/ \E r \in Rows, w \in Workers : MarkDispatched(r, w) \/ MarkSent(r, w) \/ MarkFailed(r, w)
  \/ \E r \in Rows, w \in Workers, wait \in Waits : MarkUnknown(r, w, wait)
  \/ RecoverExpired

Settling ==
  \/ \E r \in Rows : ReconciliationFound(r) \/ ReconciliationGivesUp(r) \/ MarkHumanSent(r)
  \/ \E r \in Rows, backoff \in Backoffs : ReconciliationMiss(r, backoff)
  \/ \E r \in Rows, wait \in Waits : KeepWaiting(r, wait)
  \/ \E p, r \in Rows, k \in Keys : Retry(p, k, r)

Next == Environment \/ Authoring \/ Sending \/ Settling

Spec == Init /\ [][Next]_vars

-----------------------------------------------------------------------------
(* Properties.                                                             *)

(* Every transition leaves a row that satisfies the CHECK constraints of   *)
(* mail_outbox and that decodeOutbox can read back: a row outside them     *)
(* makes the call fail and leaves a send that no later call can load.      *)
RowReadable(row) ==
  /\ row.status = "absent" => row = NoRow
  /\ row.status # "absent" => /\ row.draft # None /\ row.content # None
                              /\ row.key # None /\ row.revision > 0
  /\ row.cap # None => row.status = "pending_approval"
  /\ row.status \in {"pending_approval", "rejected", "absent"} => ~row.consumed
  /\ row.consumed \/ row.status \in {"pending_approval", "rejected", "stale", "absent"}
  /\ (row.lease # None) <=> row.status \in {"claimed", "dispatched"}
  /\ row.history <=> \/ row.status \in Attempted
                     \/ row.status = "cancelled" /\ row.reason = "retry"
  /\ (row.recon # None) <=> row.status \in {"unknown", "human_decision"}
  /\ row.recon # None => ((row.recon.next = None) <=> row.status = "human_decision")
  /\ (row.basis # None) <=> row.status = "sent"
  /\ row.failure <=> row.status = "failed"
  /\ (row.reason # None) <=> row.status = "cancelled"
RowsReadable == \A r \in Rows : RowReadable(outbox[r])

(* What the user is asked to do is exactly what is waiting for the user:   *)
(* an open approval_required item for every pending row and no other, an   *)
(* open send_unknown item for every human_decision row and no other, in    *)
(* whatever order edits, approvals, searches and retries touch the row.    *)
AttentionIsExact ==
  \A r \in Rows :
    /\ <<r, "approval_required">> \in attention <=> outbox[r].status = "pending_approval"
    /\ <<r, "send_unknown">> \in attention <=> outbox[r].status = "human_decision"

(* A row that may still be sent carries the current revision and content   *)
(* of its draft: no edit leaves an approved or claimed send of the old     *)
(* text behind.  A retry deliberately resends the text that was attempted, *)
(* which the draft may have left behind, but never one ahead of it.        *)
LiveSendsAreCurrent ==
  \A r \in Rows :
    outbox[r].status \in Live =>
      LET draft == drafts[outbox[r].draft] IN
      IF outbox[r].retryOf = None
      THEN outbox[r].revision = draft.revision /\ outbox[r].content = draft.content
      ELSE outbox[r].revision <= draft.revision

(* D12, one provider attempt per approval: however many workers claim and  *)
(* reclaim a row, at most one call was ever licensed, and none before the  *)
(* row's dispatch is recorded.                                             *)
AtMostOneAttempt ==
  \A r \in Rows :
    /\ calls[r] + delivered[r] + (IF refused[r] THEN 1 ELSE 0) <= 1
    /\ ~outbox[r].history => calls[r] = 0 /\ delivered[r] = 0 /\ ~refused[r]

(* What a settled row says about the message is true: provider evidence    *)
(* means the provider has it, a failure means it never will.  Lease expiry *)
(* and late answers must end in "unknown", not in a guess.                 *)
OutcomeIsTrue ==
  \A r \in Rows :
    /\ outbox[r].basis = "provider" => delivered[r] = 1
    /\ outbox[r].status = "failed" => delivered[r] = 0 /\ calls[r] = 0

(* An operation key names one row of its account, across enqueues, retries *)
(* and the rows of earlier revisions.                                      *)
OperationKeysAreUnique ==
  \A q, r \in Rows :
    /\ outbox[q].status # "absent" /\ outbox[r].status # "absent"
    /\ outbox[q].key = outbox[r].key
    /\ outbox[q].content.account = outbox[r].content.account
    => q = r

(* Retries form chains: a child belongs to a parent cancelled for it, for  *)
(* the same draft, revision and content; such a parent has one child, and  *)
(* only it.                                                                *)
RetriesFormChains ==
  /\ \A r \in Rows :
       outbox[r].retryOf # None =>
         LET parent == outbox[outbox[r].retryOf] IN
         /\ parent.reason = "retry"
         /\ parent.draft = outbox[r].draft
         /\ parent.revision = outbox[r].revision
         /\ parent.content = outbox[r].content
  /\ \A p \in Rows : outbox[p].reason = "retry" => \E r \in Rows : outbox[r].retryOf = p
  /\ \A q, r \in Rows : outbox[q].retryOf # None /\ outbox[q].retryOf = outbox[r].retryOf => q = r

(* An account never has more than MaxPending rows pending, whether they    *)
(* came from enqueues or from retries of rows it dispatched before.        *)
BacklogIsBounded == \A a \in Accounts : Cardinality(Pending(a)) <= MaxPending

(* Each approval came from its own token, issued for that row to that      *)
(* session, not yet expired and not replaced by a newer one; a token never *)
(* approves two rows, and no row is past approval without one.             *)
ApprovalsAreAuthorised ==
  \A r \in Rows :
    /\ outbox[r].consumed <=> approval[r] # None
    /\ approval[r] # None =>
         /\ grants[approval[r].token] # None
         /\ grants[approval[r].token].row = r
         /\ grants[approval[r].token].session = approval[r].session
         /\ approval[r].at < grants[approval[r].token].expires
         /\ ~grants[approval[r].token].replaced

(* The next search is never planned after the deadline, so a due search    *)
(* always comes in time to hand the row to a human.                        *)
SearchBeforeDeadline ==
  \A r \in Rows : outbox[r].status = "unknown" => outbox[r].recon.next <= outbox[r].recon.deadline

(* While a claim's lease runs, no claim, not even by the same worker,      *)
(* replaces it: only its owner can dispatch.                               *)
LeaseIsExclusive ==
  [][\A r \in Rows :
       outbox[r].status = "claimed" /\ outbox[r].lease.expires > now
       /\ outbox'[r].status \in {"claimed", "dispatched"}
       => outbox'[r].lease = outbox[r].lease]_vars

(* What a worker is licensed to hand to the provider is, at that moment,   *)
(* approved, what the draft says (unless it is a retry), and still the     *)
(* account's to send: an edit, a disconnected account, a withdrawn address *)
(* or a moved reply target after the claim all keep it back.               *)
DispatchesAreCurrent ==
  [][\A r \in Rows :
       calls'[r] > calls[r] =>
         /\ approval[r] # None
         /\ outbox[r].retryOf = None => outbox[r].content = drafts[outbox[r].draft].content
         /\ IdentityOK(outbox[r].content)]_vars
=============================================================================
