----------------------------- MODULE MailArchive -----------------------------
(***************************************************************************)
(* What the readers of boring-mail see of the msgvault database: messages, *)
(* the conversations that hold them, and the Gmail sources with their      *)
(* addresses.  msgvault itself writes it from other processes; a reader    *)
(* works on the snapshot of one read transaction.                          *)
(*                                                                         *)
(* Times are naturals.  An even one stands for a timestamp in whole        *)
(* seconds, the odd one after it for a timestamp of the same second that   *)
(* carries a fraction; NoTime is NULL.  The binary order of the canonical  *)
(* text ("+" sorts before ".") is the order of these numbers.              *)
(***************************************************************************)
EXTENDS Integers, FiniteSets

CONSTANTS
  Messages,       \* ids of messages
  Sources,        \* ids of Gmail sources
  Conversations,
  Times,          \* the timestamps messages may carry
  RfcIds,         \* correlatable Message-IDs
  Addresses,
  Bodies,         \* body texts, [chars, width]: characters, bytes of each
  RecipientLists, \* [rows, refused]: rows, and how many of the first are refused
  Attachments,    \* how many attachments a message may have
  None

NoTime == 0

ASSUME IdsAreNumbers ==
  /\ Messages \subseteq Nat /\ IsFiniteSet(Messages)
  /\ Sources \subseteq Nat
  /\ Times \subseteq Nat \ {NoTime, 1}

ASSUME NoneIsNoValue == None \notin RfcIds \cup Addresses

(* row: what any list of messages decodes; header: subject and sender;     *)
(* body: its text and metadata.                                            *)
Flaws == {"none", "row", "header", "body"}

Message == [
  source       : Sources,
  conversation : Conversations,
  email        : BOOLEAN,                 \* message_type = 'email'
  sent         : Times \cup {NoTime},     \* sent_at
  received     : Times \cup {NoTime},     \* received_at, else internal_date
  rfc          : RfcIds \cup {None},      \* None: absent or not correlatable
  to           : Addresses \cup {None},   \* an address it was sent to
  flaw         : Flaws,                   \* the stored fields that cannot be decoded
  body         : Bodies \cup {None},
  recipients   : RecipientLists,
  attachments  : Attachments ]

(* live: neither deleted_at nor deleted_from_source_at is set.  A source   *)
(* is present when it has an address; owner is the source of a             *)
(* conversation of type email_thread, None for the other types.            *)
Archive == [
  mail    : [Messages -> Message],
  live    : SUBSET Messages,
  sources : [Sources -> SUBSET Addresses],
  owner   : [Conversations -> Sources \cup {None}] ]

Time(a, m) == IF a.mail[m].sent # NoTime THEN a.mail[m].sent ELSE a.mail[m].received

Replyable(a, m) ==
  /\ m \in a.live
  /\ a.mail[m].email
  /\ a.owner[a.mail[m].conversation] = a.mail[m].source

(* A catalog of connected sources is a function from their ids to their    *)
(* addresses; it is what limits every read.                                *)
Catalog == UNION {[S -> SUBSET Addresses] : S \in SUBSET Sources}

Eligible(a, E) == {m \in Messages : Replyable(a, m) /\ a.mail[m].source \in DOMAIN E}
=============================================================================
