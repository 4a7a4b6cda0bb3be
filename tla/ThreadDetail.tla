---------------------------- MODULE ThreadDetail ----------------------------
(***************************************************************************)
(* The detail of one thread: the selected message and its recent           *)
(* neighbours from the same source, within fixed budgets for body bytes    *)
(* and for recipients and attachments; and the bounded JSON the browser    *)
(* gets of it.  Texts are measured, not spelled: a body has a number of    *)
(* characters of one width, and is cut between two characters.             *)
(***************************************************************************)
EXTENDS MailArchive, Sequences, Functions

CONSTANTS
  MaxMessages,       \* MAX_MESSAGES and RECENT_WINDOW
  CandidateLimit,    \* CANDIDATE_LIMIT: one row more than are inspected
  BodyTotal,         \* BODY_TOTAL_BYTES
  BodyCap,           \* BODY_PER_MESSAGE_BYTES and BODY_SELECTED_RESERVE_BYTES
  MetadataCap,       \* PER_MESSAGE_METADATA_LIMIT
  MetadataTotal,     \* RECIPIENT_GLOBAL_LIMIT and ATTACHMENT_GLOBAL_LIMIT
  OutputMax,         \* OUTPUT_MAX_BYTES
  Escaped,           \* bytes of JSON per byte of text, at most
  EnvelopeJson,      \* JSON of a message without body and metadata
  MetadataJson       \* JSON of one recipient or attachment

Smaller(x, y) == IF x < y THEN x ELSE y

ASSUME BudgetsAreSound ==
  /\ MaxMessages \in Nat \ {0} /\ CandidateLimit \in Nat \ {0}
  /\ BodyTotal \in Nat /\ BodyCap \in 0 .. BodyTotal
  /\ MetadataCap \in Nat /\ MetadataTotal \in Nat
  /\ OutputMax \in Nat /\ Escaped \in Nat /\ EnvelopeJson \in Nat /\ MetadataJson \in Nat

(* Of the recipients only the first MetadataCap rows are looked at.        *)
ASSUME ContentsAreMeasured ==
  /\ Bodies \subseteq [chars : Nat, width : Nat \ {0}] /\ None \notin [chars : Nat, width : Nat \ {0}]
  /\ \A list \in RecipientLists : /\ DOMAIN list = {"rows", "refused"} /\ list.rows \in Nat
                                 /\ list.refused \in 0 .. Smaller(list.rows, MetadataCap)
  /\ Attachments \subseteq Nat

(* The selected message alone always fits: 64 KiB of body and 20 + 20      *)
(* metadata entries, escaped, stay below 480 KiB.                          *)
ASSUME OneMessageFits ==
  EnvelopeJson + Escaped * BodyCap + 2 * MetadataCap * MetadataJson < OutputMax

Bytes(body) == IF body = None THEN 0 ELSE body.chars * body.width

Cut(body, limit) ==
  IF body = None THEN None ELSE [body EXCEPT !.chars = Smaller(@, limit \div body.width)]

(* ORDER BY sent_at DESC, id ASC: NULL comes last. *)
Newer(a, m, n) ==
  \/ a.mail[m].sent > a.mail[n].sent
  \/ a.mail[m].sent = a.mail[n].sent /\ m < n

Newest(a, S, n) == {m \in S : Cardinality({x \in S : Newer(a, x, m)}) < n}

(* The order of the answer compares timestamps with localeCompare, which   *)
(* sorts "." before "+": within one second the fraction comes first.       *)
Second(t) == t \div 2

ShownBefore(a, m, n) ==
  LET s == a.mail[m].sent  t == a.mail[n].sent IN
  \/ Second(s) < Second(t)
  \/ Second(s) = Second(t) /\ s > t
  \/ s = t /\ m < n

(* What may be selected: a live e-mail of a connected source, in a          *)
(* conversation of that source.                                            *)
SelectableIfAddressed(a, E, m) ==
  /\ a.mail[m].source \in DOMAIN E
  /\ a.mail[m].to \in E[a.mail[m].source]
  /\ Replyable(a, m)
Selectable(a, E, m) ==
  LET msg == a.mail[m] IN
  /\ msg.source \in DOMAIN E
  /\ a.owner[msg.conversation] = msg.source
  /\ msg.email
  /\ m \in a.live

Candidates(a, sel) ==
  {m \in Messages : a.mail[m].conversation = a.mail[sel].conversation}

(* The live mail of the selected source among the candidates looked at.    *)
Inspected(a, sel) ==
  {m \in Newest(a, Candidates(a, sel), CandidateLimit - 1) :
     /\ a.mail[m].source = a.mail[sel].source
     /\ m \in a.live
     /\ a.mail[m].email}

Recent(a, sel) == Newest(a, Inspected(a, sel), MaxMessages)

Retained(a, sel) ==
  IF sel \in Recent(a, sel)
  THEN Recent(a, sel)
  ELSE Newest(a, Inspected(a, sel), MaxMessages - 1) \cup {sel}

Decodable(a, sel) ==
  /\ \A m \in Inspected(a, sel) : a.mail[m].flaw # "row"
  /\ \A m \in Retained(a, sel) : a.mail[m].flaw = "none"

DecodedQuietly(a, m) ==
  LET msg == a.mail[m] IN
  [ body          |-> Cut(msg.body, BodyCap),
    unavailable   |-> msg.body = None,
    bodyCut       |-> Bytes(msg.body) > Bytes(Cut(msg.body, BodyCap)),
    recipients    |-> Smaller(msg.recipients.rows, MetadataCap) - msg.recipients.refused,
    attachments   |-> Smaller(msg.attachments, MetadataCap),
    metadataCut   |-> msg.recipients.rows > MetadataCap \/ msg.attachments > MetadataCap ]
Decoded(a, m) ==
  LET msg == a.mail[m]
      kept == Smaller(msg.recipients.rows, MetadataCap)
  IN [ body          |-> Cut(msg.body, BodyCap),
       unavailable   |-> msg.body = None,
       bodyCut       |-> Bytes(msg.body) > Bytes(Cut(msg.body, BodyCap)),
       recipients    |-> kept - msg.recipients.refused,
       attachments   |-> Smaller(msg.attachments, MetadataCap),
       metadataCut   |-> \/ msg.recipients.rows > MetadataCap
                         \/ msg.recipients.refused > 0
                         \/ msg.attachments > MetadataCap ]

(* The selected message first, then from the end of the thread backwards.  *)
Sooner(a, sel, m, n) == n # sel /\ (m = sel \/ ShownBefore(a, n, m))

Priority(a, sel) ==
  LET S == Retained(a, sel)
  IN CHOOSE order \in [1 .. Cardinality(S) -> S] :
       \A i, j \in DOMAIN order : i < j => Sooner(a, sel, order[i], order[j])

(* What the first i messages in order of priority leave of a budget when   *)
(* each asks for wanted[i], at most a cap, and what each then gets.        *)
BodyLeft(wanted) ==
  LET left[i \in 0 .. Len(wanted)] ==
        IF i = 0 THEN BodyTotal
        ELSE left[i - 1] - Bytes(Cut(wanted[i], Smaller(BodyCap, left[i - 1])))
  IN left
BodyShares(wanted) ==
  LET left == BodyLeft(wanted) IN [i \in 1 .. Len(wanted) |-> Smaller(BodyCap, left[i - 1])]

MetadataLeft(wanted) ==
  LET left[i \in 0 .. Len(wanted)] ==
        IF i = 0 THEN MetadataTotal ELSE left[i - 1] - Smaller(wanted[i], left[i - 1])
  IN left
MetadataShares(wanted) ==
  LET left == MetadataLeft(wanted) IN [i \in 1 .. Len(wanted) |-> Smaller(wanted[i], left[i - 1])]

(* getUnifiedThreadInSnapshot on a selected message that may be read.      *)
Detail(a, sel) ==
  LET order  == Priority(a, sel)
      raw    == [i \in DOMAIN order |-> Decoded(a, order[i])]
      share  == BodyShares([i \in DOMAIN order |-> raw[i].body])
      people == MetadataShares([i \in DOMAIN order |-> raw[i].recipients])
      files  == MetadataShares([i \in DOMAIN order |-> raw[i].attachments])
      place(m) == CHOOSE i \in DOMAIN order : order[i] = m
      shown(m, i) ==
        [ body        |-> Cut(raw[i].body, share[i]),
          unavailable |-> raw[i].unavailable,
          bodyCut     |-> \/ raw[i].bodyCut
                          \/ Bytes(raw[i].body) > Bytes(Cut(raw[i].body, share[i]))
                          \/ m # sel /\ share[i] = 0,
          recipients  |-> people[i],
          attachments |-> files[i],
          metadataCut |-> \/ raw[i].metadataCut
                          \/ raw[i].recipients > people[i]
                          \/ raw[i].attachments > files[i] ]
  IN [ selected |-> sel,
       messages |-> [m \in Retained(a, sel) |-> shown(m, place(m))],
       historyCut |-> \/ Cardinality(Candidates(a, sel)) >= CandidateLimit
                      \/ Cardinality(Inspected(a, sel)) > Cardinality(Retained(a, sel))
                      \/ sel \notin Recent(a, sel),
       outside  |-> sel \notin Recent(a, sel) ]

(* What validateInternalThreadDetail and the bridge contract refuse.       *)
WithinBudgets(d) ==
  LET ms == d.messages IN
  /\ d.selected \in DOMAIN ms
  /\ Cardinality(DOMAIN ms) \in 1 .. MaxMessages
  /\ \A m \in DOMAIN ms : /\ Bytes(ms[m].body) <= BodyCap
                          /\ ms[m].recipients <= MetadataCap
                          /\ ms[m].attachments <= MetadataCap
  /\ SumFunction([m \in DOMAIN ms |-> Bytes(ms[m].body)]) <= BodyTotal
  /\ SumFunction([m \in DOMAIN ms |-> ms[m].recipients]) <= MetadataTotal
  /\ SumFunction([m \in DOMAIN ms |-> ms[m].attachments]) <= MetadataTotal

Json(d) ==
  SumFunction([m \in DOMAIN d.messages |->
         LET x == d.messages[m] IN
         EnvelopeJson + Escaped * Bytes(x.body) + MetadataJson * (x.recipients + x.attachments)])

Others(d) == DOMAIN d.messages \ {d.selected}

(* Whether the first k steps of trimToJsonBudget, which pass over the      *)
(* others in the order they are shown, reached m in that pass.             *)
Reached(a, d, k, pass, m) ==
  /\ m \in Others(d)
  /\ pass * Cardinality(Others(d)) + Cardinality({x \in Others(d) : ~ShownBefore(a, m, x)}) <= k

Trim(a, d, k, m) ==
  LET x == d.messages[m]
      noBody == Reached(a, d, k, 0, m) /\ Bytes(x.body) > 0
      noMeta == Reached(a, d, k, 1, m) /\ x.recipients + x.attachments > 0
  IN [x EXCEPT !.body = IF noBody THEN Cut(@, 0) ELSE @,
               !.bodyCut = @ \/ noBody,
               !.recipients = IF noMeta THEN 0 ELSE @,
               !.attachments = IF noMeta THEN 0 ELSE @,
               !.metadataCut = @ \/ noMeta]

(* After k steps: oldest first and never the selected message, they empty  *)
(* every body, then every metadata list, and then drop whole messages.     *)
TrimmedBy(a, d, k) ==
  LET kept == {m \in DOMAIN d.messages : ~Reached(a, d, k, 2, m)}
  IN [d EXCEPT !.messages = [m \in kept |-> Trim(a, d, k, m)],
               !.historyCut = @ \/ kept # DOMAIN d.messages]

Trimmed(a, d) ==
  LET steps == 3 * Cardinality(Others(d))
      fits  == {k \in 0 .. steps : Json(TrimmedBy(a, d, k)) < OutputMax}
  IN TrimmedBy(a, d, IF fits = {} THEN steps ELSE CHOOSE k \in fits : \A j \in fits : k <= j)

(* mapUnifiedThreadToBrowserThread of what the store answered.             *)
ThreadAnswer(a, E, m) ==
  IF ~Selectable(a, E, m) THEN [status |-> "not_found"]
  ELSE IF ~Decodable(a, m) THEN [status |-> "corrupt_data"]
  ELSE LET d == Detail(a, m)
           t == Trimmed(a, d)
       IN IF WithinBudgets(d) /\ WithinBudgets(t) /\ Json(t) < OutputMax
          THEN [status |-> "ok", thread |-> t]
          ELSE [status |-> "over_budget"]
=============================================================================
