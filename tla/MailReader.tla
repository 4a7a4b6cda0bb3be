----------------------------- MODULE MailReader -----------------------------
(***************************************************************************)
(* One reader of the unified inbox over a moving archive.  msgvault        *)
(* commits messages and sources from its own processes; the storage        *)
(* process answers one request at a time from the snapshot of a read       *)
(* transaction, reconciling its catalog of sources with that snapshot      *)
(* first; the client walks the inbox page by page with the cursor of the   *)
(* last page, opens threads, and connects or disconnects sources.          *)
(***************************************************************************)
EXTENDS UnifiedInbox, ThreadDetail

CONSTANTS
  InitialArchives,   \* the archives a behaviour may start with
  Moving,            \* those among them whose behaviours see commits and restarts
  Limits,            \* page sizes the client asks for
  MaxEvents          \* bound: commits and restarts of one behaviour

ASSUME InputsAreTyped ==
  /\ InitialArchives \subseteq Archive /\ Moving \subseteq InitialArchives
  /\ Limits \subseteq Nat \ {0}
  /\ MaxEvents \in Nat

VARIABLES
  archive,    \* what msgvault has committed
  moving,     \* whether this behaviour sees commits and restarts
  events,     \* how many it has seen
  version,    \* PRAGMA data_version as the storage process would read it now
  scope,      \* the identity of the storage process, in every cursor it makes
  catalog,    \* mail_read_sources of the product database
  request,    \* what the storage process works on, with its snapshot
  walk,       \* the client: its cursor and what it was served so far
  answer,     \* the answer just given, NoAnswer after any other step
  choice      \* history: what the user last chose for each source

vars == <<archive, moving, events, version, scope, catalog, request, walk, answer, choice>>

Place == [scope : Nat, version : Nat, digest : Catalog]

Cursor == [scope : Nat, version : Nat, digest : Catalog, key : Key]

ASSUME NoneIsNoCursor == None \notin Cursor \cup Key

Request ==
  [kind : {"list", "open", "reconcile"}, limit : Limits \cup {None}, cursor : Cursor \cup {None},
   message : Messages \cup {None}, snapshot : Archive, version : Nat]

(* got: the messages served since the walk began, in so many rows;         *)
(* listing: the representatives there were when it did; at: what its last  *)
(* page was read from.                                                     *)
Walk ==
  [cursor : Cursor \cup {None}, begun : BOOLEAN, complete : BOOLEAN,
   at : Place \cup {None}, got : SUBSET Messages, rows : Nat, listing : SUBSET Messages]

ReadSource ==
  [known : BOOLEAN, enabled : BOOLEAN, present : BOOLEAN, identities : SUBSET Addresses]

Unknown == [known |-> FALSE, enabled |-> TRUE, present |-> FALSE, identities |-> {}]

FreshWalk == [cursor |-> None, begun |-> FALSE, complete |-> FALSE,
              at |-> None, got |-> {}, rows |-> 0, listing |-> {}]

NoAnswer == [kind |-> "none"]

Init ==
  /\ archive \in InitialArchives
  /\ moving = (archive \in Moving)
  /\ events = 0
  /\ version = 1
  /\ scope = 1
  /\ catalog = [s \in Sources |-> Unknown]
  /\ request = None
  /\ walk = FreshWalk
  /\ answer = NoAnswer
  /\ choice = [s \in Sources |-> TRUE]

(***************************************************************************)
(* msgvault                                                                *)
(***************************************************************************)
Commit(next) ==
  /\ moving /\ events < MaxEvents
  /\ events' = events + 1
  /\ archive' = next
  /\ version' = version + 1
  /\ answer' = NoAnswer
  /\ UNCHANGED <<moving, scope, catalog, request, walk, choice>>

SyncMessage(m) ==
  LET live == IF m \in archive.live THEN archive.live \ {m} ELSE archive.live \cup {m}
  IN Commit([archive EXCEPT !.live = live])

ChangeSource(s, addresses) ==
  /\ addresses # archive.sources[s]
  /\ Commit([archive EXCEPT !.sources[s] = addresses])

(***************************************************************************)
(* The catalog of sources                                                  *)
(***************************************************************************)
(* readMsgvaultGmailReadSourceSnapshot refuses two sources that share an   *)
(* address.                                                                *)
Collides(a) ==
  \E s, t \in Sources : s # t /\ a.sources[s] \cap a.sources[t] # {}

(* A new source is enabled; a known one keeps what the user chose, also    *)
(* while it is gone.                                                       *)
ReconciledAnew(a) ==
  [s \in Sources |->
     [known |-> catalog[s].known \/ a.sources[s] # {},
      enabled |-> IF a.sources[s] # {} /\ ~catalog[s].present THEN TRUE ELSE catalog[s].enabled,
      present |-> a.sources[s] # {},
      identities |-> IF a.sources[s] # {} THEN a.sources[s] ELSE catalog[s].identities]]
Reconciled(a) ==
  [s \in Sources |->
     IF a.sources[s] # {}
     THEN [known |-> TRUE, enabled |-> catalog[s].enabled, present |-> TRUE,
           identities |-> a.sources[s]]
     ELSE [catalog[s] EXCEPT !.present = FALSE]]

Connected(c) ==
  [s \in {s \in Sources : c[s].known /\ c[s].enabled /\ c[s].present} |-> c[s].identities]

SetEnabled(s, enabled) ==
  /\ request = None
  /\ catalog[s].known
  /\ catalog' = [catalog EXCEPT ![s].enabled = enabled]
  /\ choice' = [choice EXCEPT ![s] = enabled]
  /\ answer' = NoAnswer
  /\ UNCHANGED <<archive, moving, events, version, scope, request, walk>>

(***************************************************************************)
(* Requests                                                                *)
(***************************************************************************)
(* BEGIN DEFERRED and the first read of data_version fix the snapshot.     *)
Begin(kind, limit, cursor, m) ==
  /\ request = None
  /\ request' = [kind |-> kind, limit |-> limit, cursor |-> cursor, message |-> m,
                 snapshot |-> archive, version |-> version]
  /\ answer' = NoAnswer
  /\ UNCHANGED <<archive, moving, events, version, scope, catalog, choice>>

BeginFirstPage(limit) ==
  /\ Begin("list", limit, None, None)
  /\ walk' = FreshWalk

BeginNextPage(limit) ==
  /\ walk.cursor # None
  /\ Begin("list", limit, walk.cursor, None)
  /\ UNCHANGED walk

BeginOpen(m) ==
  /\ Begin("open", None, None, m)
  /\ UNCHANGED walk

BeginReconcile ==
  /\ Begin("reconcile", None, None, None)
  /\ UNCHANGED walk

(* What every request does with its snapshot before it reads mail.  The    *)
(* catalog it leaves is committed even when the answer then fails.         *)
CatalogNow == IF Collides(request.snapshot) THEN catalog ELSE Reconciled(request.snapshot)

Capture(kind) ==
  /\ request # None
  /\ request.kind = kind
  /\ request' = None
  /\ catalog' = CatalogNow
  /\ UNCHANGED <<archive, moving, events, version, scope, choice>>

(* COMMIT, and the second look at data_version. *)
Disturbed == Collides(request.snapshot) \/ version # request.version

Here(E) == [scope |-> scope, version |-> request.version, digest |-> E]

Stale(E) ==
  request.cursor # None /\ Here(E) # [f \in {"scope", "version", "digest"} |-> request.cursor[f]]

ListRows(E) ==
  LET key == IF request.cursor = None THEN None ELSE request.cursor.key
  IN IF DOMAIN E = {} THEN {} ELSE PageRows(request.snapshot, E, key, request.limit + 1)

ListItems(E) == First(request.snapshot, ListRows(E), request.limit)

NextCursor(E) ==
  IF Cardinality(ListRows(E)) > request.limit
  THEN LET last == CHOOSE m \in ListItems(E) :
                     \A n \in ListItems(E) \ {m} : Before(request.snapshot, n, m)
       IN [scope |-> scope, version |-> request.version, digest |-> E,
           key |-> [time |-> Time(request.snapshot, last), id |-> last]]
  ELSE None

ListFails(E) ==
  \/ Disturbed
  \/ Stale(E)
  \/ \E m \in ListItems(E) : request.snapshot.mail[m].flaw \in {"row", "header"}

FinishList ==
  LET E == Connected(CatalogNow) IN
  /\ Capture("list")
  /\ IF ListFails(E)
     THEN /\ answer' = [kind |-> "page", status |-> "failed"]
          /\ UNCHANGED walk
     ELSE /\ answer' = [kind |-> "page", status |-> "ok", items |-> ListItems(E)]
          /\ walk' =
               [cursor   |-> NextCursor(E),
                begun    |-> TRUE,
                complete |-> NextCursor(E) = None,
                at       |-> Here(E),
                got      |-> walk.got \cup ListItems(E),
                rows     |-> walk.rows + Cardinality(ListItems(E)),
                listing  |-> IF walk.begun THEN walk.listing
                             ELSE Representatives(request.snapshot, E)]

FinishOpen ==
  LET E == Connected(CatalogNow) IN
  /\ Capture("open")
  /\ \E told \in {IF Disturbed THEN [status |-> "failed"]
                  ELSE ThreadAnswer(request.snapshot, E, request.message)} :
       answer' = [kind |-> "thread", message |-> request.message, at |-> Here(E),
                  status |-> told.status,
                  thread |-> IF told.status = "ok" THEN told.thread ELSE None]
  /\ UNCHANGED walk

FinishReconcile ==
  /\ Capture("reconcile")
  /\ answer' = NoAnswer
  /\ UNCHANGED walk

(* The storage process dies; the next one opens the same databases.        *)
Restart ==
  /\ moving /\ events < MaxEvents
  /\ events' = events + 1
  /\ scope' = scope + 1
  /\ version' = 1
  /\ request' = None
  /\ answer' = NoAnswer
  /\ UNCHANGED <<archive, moving, catalog, walk, choice>>

Next ==
  \/ \E m \in Messages : SyncMessage(m) \/ BeginOpen(m)
  \/ \E s \in Sources, addresses \in SUBSET Addresses : ChangeSource(s, addresses)
  \/ \E s \in Sources, enabled \in BOOLEAN : SetEnabled(s, enabled)
  \/ \E limit \in Limits : BeginFirstPage(limit) \/ BeginNextPage(limit)
  \/ BeginReconcile
  \/ FinishList
  \/ FinishOpen
  \/ FinishReconcile
  \/ Restart

Spec == Init /\ [][Next]_vars

-----------------------------------------------------------------------------
TypeOK ==
  /\ archive \in Archive /\ moving \in BOOLEAN
  /\ events \in Nat /\ version \in Nat /\ scope \in Nat
  /\ catalog \in [Sources -> ReadSource]
  /\ request \in Request \cup {None}
  /\ walk \in Walk
  /\ choice \in [Sources -> BOOLEAN]

(* The pages of one walk, put together, are a beginning of the listing     *)
(* that existed when it began: in order, without a gap, no row twice, and  *)
(* all of it when the last page says there is no more; wherever the        *)
(* recency window ends, whatever has no timestamp, and whatever commits,   *)
(* toggles and restarts happen in between.                                 *)
WalkIsTheListing ==
  /\ walk.got \subseteq walk.listing
  /\ walk.rows = Cardinality(walk.got)
  /\ \A m \in walk.got, n \in walk.listing : Before(archive, n, m) => n \in walk.got
  /\ walk.complete => walk.got = walk.listing

(* A message of a page opens as long as nothing changed since that page:   *)
(* the two projections agree on what a connected source lets the user see, *)
(* and no conversation, whatever it holds, exceeds the budgets its detail  *)
(* is checked against.                                                     *)
ListedItemsOpen ==
  answer.kind = "thread" /\ answer.at = walk.at /\ answer.message \in walk.got =>
    /\ answer.status \notin {"not_found", "over_budget"}
    /\ answer.status = "ok" => answer.message \in DOMAIN answer.thread.messages

ShownSources(ans) ==
  LET shown == IF ans.kind = "page" /\ ans.status = "ok" THEN ans.items
               ELSE IF ans.kind = "thread" /\ ans.status = "ok" THEN DOMAIN ans.thread.messages
               ELSE {}
  IN {archive.mail[m].source : m \in shown}

(* No page and no thread shows mail of a source whose last choice by the   *)
(* user was to disable it, however often the source vanished from the      *)
(* archive, came back, or the storage process restarted.                   *)
HiddenStaysHidden ==
  [][answer' # answer => \A s \in ShownSources(answer') : choice[s]]_vars

Untold(a, thread) ==
  LET sel == thread.selected
      mail == {m \in Candidates(a, sel) :
                 m \in a.live /\ a.mail[m].email /\ a.mail[m].source = a.mail[sel].source}
  IN \/ mail # DOMAIN thread.messages /\ ~thread.historyCut
     \/ \E m \in DOMAIN thread.messages :
          LET x == thread.messages[m]  stored == a.mail[m] IN
          \/ Bytes(x.body) < Bytes(stored.body) /\ ~x.bodyCut
          \/ x.recipients < stored.recipients.rows /\ ~x.metadataCut
          \/ x.attachments < stored.attachments /\ ~x.metadataCut

(* Whatever a thread leaves out of the conversation, it says so: messages  *)
(* outside its window, bodies and metadata that the budgets or the JSON    *)
(* bound cut; and the selected message is never cut for the others' sake.  *)
ThreadsTellWhatTheyOmit ==
  [][answer' # answer /\ answer'.kind = "thread" /\ answer'.status = "ok" =>
       LET thread == answer'.thread
           sel == thread.selected
       IN /\ ~Untold(request.snapshot, thread)
          /\ Bytes(thread.messages[sel].body)
               = Bytes(Cut(request.snapshot.mail[sel].body, BodyCap))]_vars
=============================================================================
