# A verification development of boring-mail

TLA+ models of the parts of `hachej/boring-mail` that carry its protocol logic,
TLC configurations that check them on small instances, and TLAPS proofs of the
most important invariants. The sources are TypeScript under
`boring-mail/src/mail` (the mail package) and `app/src` (a standalone host).

- [The system](#the-system): components, state, operations, what is hard
- [Modules](#modules): what each models and how it corresponds to the code
- [Runs](#runs): what each checks, its bounds, the fairness
- [Findings](#findings)
- [Proofs](#proofs): what is proved and how
- [Limits](#limits): what is only model-checked, what is left out
- [Plan](#plan)

`PROJECT.json` maps every definition to the lines it models and lists the runs,
the mutants that each property must catch, the hazards and the theorems.

## The system

boring-mail is a local mail client over an archive kept by an external program,
msgvault. It reads msgvault's SQLite database, keeps its own product database
(drafts, outbox, read sources), runs `msgvault sync` for each Gmail account, and
shows mail in a browser workspace. Sending is prepared end to end in the outbox;
the loop that calls a mail provider is not in the source yet.

| Component | State | Operations | Talks to |
|---|---|---|---|
| **Outbox** (`store/product/OutboxMachine.ts`, `ProductStore.ts`, `context.ts`, `codec.ts`, `migrations.ts`) | SQLite: accounts, drafts with revisions, send rows, attention items | saveDraft, enqueue, issueApprovalCapability, approve, reject, claim(Next), markDispatched, markSent/Failed/Unknown, cancel, recoverExpired, reconciliation, keepWaiting, markHumanSent, retry | a send worker and a provider (external), msgvault for reply targets, the wall clock |
| **Read-source registry** (`ProductStore.ts`, `msgvaultSnapshot.ts`) | SQLite: per source enabled, present, identities | reconcile, setReadSourceEnabled, connectedInboxSources | the archive snapshot, the projections |
| **Mail store RPC** (`MailStore.ts`, `mailStoreWorker.ts`, `mailStoreProtocol.ts`) | a registry of storage processes, pending calls, timers | open, call, close; ready, timeouts, exit | one storage process per directory |
| **Sync supervisor** (`sync/msgvaultSyncSupervisor.ts`, `safeTimer.ts`) | accounts with timers, runs and follow-ups; one maintenance wave; a heartbeat | start, syncNow, stop; timer, run, discovery and heartbeat callbacks | discovery of accounts, the sync runner |
| **Sync runtime** (`sync/msgvaultSyncRuntime.ts`, `msgvaultArchiveLock.ts`, `msgvaultContract.ts`, `msgvaultSyncRunner.ts`) | a registry of entries with reference counts; four flocks on inherited descriptors; a FIFO of runs | acquire, release; startup, probe, spawn, shutdown | the flock holder, msgvault children, other processes over the same archive |
| **Projections** (`store/msgvault/*.ts`, `msgvaultAdapter.ts`) | none but a cursor authority per storage process | listUnifiedInbox, getUnifiedThread | the archive snapshot |
| **Bridge contracts** (`bridge/*.ts`) | none | map a page or a thread to bounded JSON | the browser |
| **Host auth** (`app/src/server/standaloneHostAuth.ts`) | token, proof, disposed, the upgrade gate | authorise a request or an upgrade, recognise the proof, dispose | Vite's server, the bridge policy |
| **Agent tool and autosave** (`server/mailAgentTool.ts`, `boring-ui/server.ts`, `client/MailDraftEditor.tsx`, `MailDraftFilePanel.tsx`) | draft files, the editor's payload, timer and state | create, update, delete, move, mock_send; open, edit, autosave, close | the file system, the host |
| **Client panels, plugin wiring, scripts** | a selection | render mock data; smoke tests, benchmarks | |

How they interact. The storage process runs one handler at a time over both
databases, so an outbox operation is one transaction; callers reach it through
RPC and can lose an answer. The sync runtime owns the archive, starts one
supervisor per process and archive, and every run of the supervisor passes
through the runtime's FIFO. Projections read the archive that the syncs write,
from another process, in WAL snapshots.

What is hard, and what makes each part correct:

- **Outbox**: workers that stall and are replaced, answers that come late or never,
  edits under an approval, clocks that jump, replays of operation keys.
  Correct: one provider attempt per approval; nothing is sent that was not approved
  by the session it was asked of, or that was edited since; a doubtful
  attempt is settled by evidence or by a person, never by a guess; what the user is
  asked is exactly what is open; every row can be read back.
- **Supervisor**: callbacks of timers, runs, discoveries and callers interleave; timers
  can fail to arm. Correct: no account is orphaned, a request made
  during a run gets a run, a removed account finishes and nothing more, a
  stop drains, a failure is reported.
- **Runtime**: leases and shutdowns race, startup fails half way, the process dies
  while a child writes. Correct: one writer over the archive, under all
  locks, ever; a lease is live; ownership is neither leaked nor released early.
- **RPC**: requests that time out after they were committed; opens that race
  disposals. Correct: one storage process per directory, every call answered
  once, a retry with the same operation key harmless.
- **Read sources, projections**: archive and catalog change between pages. Correct:
  a listing over one state is complete and without repetition, any change makes a
  cursor stale, a disabled source stays disabled.
- **Host auth**: nothing unauthorised passes before or after disposal.
- **Draft files**: the editor and the agent write the same files, call by call of the file
  system. Correct: "saved" means the text is in the file, unless another write overtook the last; sending never loses it.

`hazards` in `PROJECT.json` has these at their lines.

## Modules

| Module | Models | Role |
|---|---|---|
| `Outbox` | the outbox state machine and drafts | component |
| `SendContract` | what the outbox promises of each message | abstract specification |
| `OutboxContract` | refinement mapping from `Outbox` to `SendContract` | composition |
| `OutboxProofs` | invariants of `Outbox`, and that it implements `SendContract` | TLAPS |
| `SyncSupervisor` | the supervisor | component |
| `SyncSupervisorProofs` | invariants of `SyncSupervisor` | TLAPS |
| `SyncRuntime` | runtime registry, archive locks, FIFO, crashes | component |
| `SyncRuntimeProofs` | one writer, live and counted leases; the detector finds what the expression finds | TLAPS |
| `SyncOutput` | the streaming error detector and the expression it stands for | algorithm |
| `MailStoreRpc` | the store registry, the RPC client and the storage process | component |
| `StoreContract` | what a mail store promises its callers | abstract specification |
| `MailStoreContract` | refinement mapping from `MailStoreRpc` to `StoreContract` | composition |
| `MailStoreProofs` | one owner, the registry as a barrier, references, opens | TLAPS |
| `MailStoreCallProofs` | true answers, late effects, and that the store implements `StoreContract` | TLAPS, on top of `MailStoreProofs` |
| `MailArchive` | what readers see of msgvault's database | environment |
| `UnifiedInbox` | coalescing, the adaptive page query, keyset pages | algorithm |
| `ThreadDetail` | thread windows, budgets, truncation flags, the JSON bound | algorithm |
| `MailReader` | reads of both projections, cursors, the catalog of read sources | component, composes the three above |
| `ThreadDetailProofs` | details keep their budgets, fit the JSON bound and tell what they omit | TLAPS |
| `MailReaderProofs` | pages are the listing, disabled sources stay hidden, listed mail opens | TLAPS, on top of `ThreadDetailProofs` |
| `HostAuth` | the standalone host's gates | component |
| `DraftFiles` | draft files, the editor, the mail tool | component |
| `Standalone` | the editor behind the host | composition |
| `StandaloneProofs` | who passes, what "saved" means, what sending keeps | TLAPS |
| `MCOutbox*`, `MCSync`, `MCRuntime`, `MCMailStore`, `MCMailReader`, `MCStandalone` | instances | TLC |

### Outbox

One variable per table (`accounts`, `drafts`, `outbox`, `attention`: the unresolved
items), the archive's reply targets (`vault`) and the wall clock (`now`). One action per method; since
every method runs in one `BEGIN IMMEDIATE` transaction of one process, it is
atomic, and a call that throws rolls back and is no step. `Row` has the nullable columns
as records or `None`, so that the CHECK constraints and `decodeOutbox` become
the predicate `RowReadable`: a transition that violates it would make the real call fail,
or leave a row nothing can load.

A crash of the process needs no action: everything is on disk, and a caller
may always take no further step. What the worker and the provider did is
external: `MarkDispatched` is the worker's licence for one call (`calls`), and
`ProviderAccepts` and `ProviderRefuses` use it up at any later time, in particular after the row
was declared unknown, found, or retried. `grants` and `approval` are history variables that
record who was given which token, whether a newer one replaced it, and who used it when. `ClockMoves` sets any time,
backwards too: the code reads `Date.now()`.

Abstracted: MIME bytes, digests and addresses are values; the digest check
always succeeds (the same bytes are stored and read); the `corrupt_data` errors concern
databases the program did not write.

`SendContract` says what all this is for, per message: asked, authorised,
attempted once, then delivered, refused, unsure, asked again, presumed or
resent. `OutboxContract` maps each row's status to a phase, and `delivered` to the
messages the provider holds.

### SyncSupervisor

JavaScript runs to completion between awaits, so an action is a whole
continuation. `Quiet` says that none is runnable: timers, msgvault's
exit, and a finished discovery are events and come only then. `EagerCallers`
makes `syncNow` and `stop` also callable from within continuations: `sync_liveness` includes that,
`sync_schedule` does not, because `RequestsAreServed` holds for calls that are events of their own
(timers, heartbeats, requests from outside). A continuation that called `syncNow` between the run loop's last test of
`followUp` and the `finally` that clears `inFlight`, one microtask later, would join a run that
has ended; no caller in the source does. A timer is `none`
or armed with a pace; that it may fire at any time replaces durations and
jitter. `TimersFail` makes every arming fail or not. `owed`, `missed` and `tried` are history
variables: requests not yet followed by a run, accounts without a run since
the last "all" trigger, the spelling of the last run.

One `account` record stands for an `AccountState` and for its presence in the
map; `run = "settling"` is the moment between the loop's exit and the
`finally` that clears `inFlight`, which is a microtask of its own. A wave that waits holds the set of
accounts whose run it awaits. Discovery answers with any map from accounts to
spellings: `discoverMsgvaultGmailAccounts` rejects two spellings of one account.

Bounds: `empty` counts up to `IdleAfter` and stays; the code only compares it.

### SyncRuntime

`entry` is the entry object with the two promises others await (`ready`, `closing`);
`registry` is each process's map for one archive. A caller is a run of
`acquireMsgvaultSyncRuntime` and its lease. Everything between two awaits
is one action.

Ownership is `locked` and `open`: a flock belongs to an open file description,
which the process, its flock holder, the version probe and every sync child have open;
the locks go when the last of them closes (`Closed`). `Crash` closes what the process
had and leaves the rest: the holder exits when its standard input ends, children run on. An entry whose
descriptors could not be closed stays registered, with its ownership, until the process is gone. The
supervisor is reduced to what the runtime uses: whether it runs, the runs it asked for,
at most one per account, and a stop that resolves when they have drained; `SyncSupervisor`'s
`StopCompletes` and `StoppedIsDrained` justify that. `daemon` is another
msgvault with its own two locks, which it takes when nobody has them.

Entry objects are reused when nothing refers to them, which keeps the state finite. Identity and
permission checks of files appear as failures (`CannotAcquire`, `ProbeFails`, `SpawnFails`).

### MailStoreRpc

`registry` is each host's `storageRegistry`; `entry` is a `RegistryEntry` with its `RpcClient`
(state, references, disposal, the `ready` promise, `stopped`); `storage` is its child process
with the flocks it holds; `inbox` and `outbox` are the two directions of the IPC
channel, in order; `client` is a run of `openWithFactory` and the facade it returned; `call` is a
request. `Quiet` means what it means in the supervisor, for each host; `EagerClients` lets opens,
calls and closes come from within continuations.

The storage process takes a lock on the directory, then one on the inode of the database, opens it,
and handles requests one by one. It may stop taking steps at any point (a
synchronous SQLite call that hangs), die, or be killed; its locks go with it. When its host dies
it loses the channel, but handles what was already sent. `Renamed` exchanges the database
files of two directories: only the lock on the inode then keeps a second owner out. `rows` and `effect` record
which operations took effect and for which call.

Durations are left out: an armed timer may fire at any time, so a timeout races every answer.
An open with other settings than the entry's is refused and is no step. Canonical paths, the metadata of
the owner file and the protocol's decoding are left out. Verifying the database, opening it
and checking its identity again is one step. Operations are keys: what a handler does with one is
`Outbox`'s matter.

`StoreContract` says what all this is for, without processes, entries or messages: a call is answered,
refused or lost; success means the operation is in the database, an error or a refusal that the call
changed nothing; a lost call is in doubt, and may take effect once, until it is over; nobody is
served a database while a call to it is in doubt. `MailStoreContract` maps a lost call to "doubtful"
while it is on its way to a storage process, and a database to "served" while somebody has it open in an entry
that has not stopped and whose process lives.

### SyncOutput

`Pushed` is `pushCharacter`, with the detector's fields as a record; `Seen` is what it has seen after each character of a text.
Chunks do not appear, because the detector keeps no state per chunk but a decoder of the bytes.
`Reported` says that `/\bErrors:\s*(\d+)\b/gi` has a match with a positive count. The alphabet has the
letters of the token, one other letter, a zero and another digit, one space, the colon and one other
character: what the detector tells apart. The token is a constant, shorter in the run.

### MailReader

`archive` is what msgvault has committed, `version` SQLite's data version, `catalog` the table
`mail_read_sources`, `scope` the identity of the storage process that is in every cursor it makes. A request
takes its snapshot when it begins (`Begin`), and is answered later from it (`FinishList`, `FinishOpen`,
`FinishReconcile`); commits come in between, and the second look at the data version
(`Disturbed`) refuses the answer if one did. The catalog is reconciled with the snapshot and
kept even when the answer then fails. `walk` is a client that pages through the inbox; its `listing` is the
history variable the pages are compared with, `choice` another that remembers what the user chose.

In `UnifiedInbox` a result of a query is a set and `LIMIT` keeps its first elements, because
`ORDER BY` is total. Times are naturals with the order of their canonical text: an even one is a whole
second, the odd one after it has a fraction of the same second, 0 is `NULL`.
`ThreadDetail` measures texts in characters of one width and escaped JSON by its largest size. A `flaw` says
which stored fields cannot be decoded. `ThreadAnswer` goes through the detail, the checks of
`validateInternalThreadDetail` and the trimming of the bridge contract. The order of the
messages is the one `localeCompare` gives.

### HostAuth, DraftFiles, Standalone

A handler of the host runs to its end. The owner's token and "zeros" (what a client can present once the
secrets are cleared) are the two that could match. An upgrade that arrives before
the gate is installed or after it is removed is Vite's own; the server listens only in between. `BridgeResolves`
is `getPrincipal` in the backend, possibly after the disposal.

In `DraftFiles` each call of the file system is a step: `writeFile` truncates, then writes at offset 0, so
two writers on one file may leave a torn text; open files follow a rename. The editor
starts with no remembered payload, and posts 250 ms after the last change; an autosave is posted, passes the host,
opens, writes and is answered. A failed call of the tool leaves what it has done. `sending`
is a history variable that says when nobody else wrote while a draft is sent. `newest` is another, the autosave posted last
until it is answered, and `crossed` says that somebody overtook it: the tool wrote, or an earlier autosave wrote while it
wrote or after it, or was heard of after it. Earlier autosaves that come in their turn, fail or are refused while it is on its way do not
cross it. `Standalone` lets loading a draft and
every autosave pass the host: after its disposal they are refused and the editor shows an error.

## Runs

Every passing run is exhaustive. Deadlock is checked in the outbox runs; in the sync runs the system
may stop for good (after `stop()`), so it is not.

| Run | Question | Instance |
|---|---|---|
| `outbox_approval` | Do edits, approvals, tokens, sessions and retries keep attention, currency and authority right, and implement `SendContract`? | 1 draft, 2 revisions, 2 rows, 2 sessions, 2 tokens, clock 0..1, a wait and a retry |
| `outbox_delivery` | Is every row readable, attempted once and truthfully settled, through takeovers and late answers? | 2 rows, 2 workers, 2 tokens, clock 0..2, a wait of 2, a backoff past the deadline |
| `outbox_identity` | Do keys stay unique, retries single children, the backlog bounded and dispatches current when accounts and reply targets change? Recovery, human decisions and a retry beside another row included | 1 account, 2 sources, a reply, 2 revisions, 3 rows, 3 keys, a backlog of 1, clock 0..1, a wait |
| `sync_schedule` | Are accounts tended, requests followed by a run, new spellings tried, failures reported, stops drained? | 2 accounts, 2 spellings, failing timers |
| `sync_liveness` | Does stop complete and an account keep synchronising? | 1 account, failing timers, eager callers, fairness |
| `sync_resume` | the finding below | 1 account |
| `runtime_archive` | One writer, under all locks? Are leases live and counted, is the owner in a process the registered one? Does every shutdown and crash give the archive back? And does the output detector find what the expression finds? | 2 processes, 3 callers, 2 configurations, 2 entries, 2 accounts, fairness; texts of at most 6 characters, a token of 3 |
| `store_owner` | Does a database have one storage process, and does a registry entry outlive its own? | 2 hosts, 2 directories whose databases are exchanged, 2 entries |
| `store_calls` | Does the store implement `StoreContract`, are references exact, and lost calls final before the store is open again? | 1 host, 2 clients, 2 calls with one key, 2 entries |
| `store_liveness` | Does every call, disposal and open end, whatever the storage process does? | 1 host, 2 clients, 2 directories whose databases are exchanged, 1 call, 1 entry, fairness |
| `mail_reader` | Do pages add up to the listing, does listed mail open, do disabled sources stay hidden, is every omission told? | 5 messages, 2 sources, 2 conversations, 1132 archives, pages of 1 and 2, 2 commits or restarts |
| `standalone` | Who passes the host while it is disposed, is "saved" true unless the last autosave was overtaken, does sending keep the text? | 1 request, 1 draft, 2 texts, 2 autosaves, 1 call of the tool |

Why these bounds. In the outbox, rows interact only through a draft, an account's
backlog and keys, and a retry's parent, all pairs: two rows and one or two of everything else
reach each of them. A retry at the limit of the backlog needs three, its parent, its child and the row that is
pending: `outbox_identity` has them. It has one account, since keys and backlogs are each account's own; that they stay so
when a draft moves to another account is proved, for any accounts, not run. A wait that is over within the clock lets a row be declared
unknown, handed to a human and retried. A clock of three values has a lease that lapses before
the deadline of a search, and a search whose backoff passes it. Two workers are the one that is slow and
the one that takes over. `MaxPending` is 1 instead of 5, so that the limit is met by the second row. In the supervisor,
accounts meet only in waves, which two accounts exercise; `IdleAfter` is 1
instead of 3, so that the idle pace is reached. In the runtime, a crash, its orphan and a
successor need two processes and two entries (the orphan's and the successor's); an entry that
is over is used again. In the store, processes meet over one directory two by two: a
crashed host's orphan and its successor, or the old and the new owner of a renamed database;
`MaxPendingRequests` is 2 or 1 instead of 100, so that the close after the calls meets the cap. The
liveness run has a single entry, which the next open takes once it is free.

The archives of `mail_reader` are four families. `Listings` has copies of a message in two sources, sent to
one of them or the other, with times that tie, differ or are missing, next to mail without
an id and under a chat message that takes a place in the recent window; with `MinRecentScan` 2 and
`MaxRecentCopies` 1 the window is too short, just long enough or unsafe. `Neighbours`
puts the selected message inside and outside the thread's window of 3 (25 in the code) and the candidate limit of 5
(501), with one odd message: a chat, another source's, or one that cannot be decoded. `Filled` exhausts
each budget. `Traded` is the family whose behaviours also see commits and restarts, at most `MaxEvents`:
two sources share a message and may trade their addresses, vanish and return. In
`standalone`, `MaxCalls` bounds the calls of the tool that change files; one of them and two
autosaves make every pair of writers overlap. No truncated or torn file is loaded into an editor there.
The token of the detector has three characters instead of seven, so that a text of six holds a false start, a
token, a space, a count and what follows it.

Fairness. In the supervisor, continuations run (weak fairness); timers that are armed, answers
of discovery and ends of a sync are events that the event loop takes in turn with all
others, so they cannot be overtaken forever although other events interrupt
their being enabled (strong fairness). Nobody has to call
anything. In the runtime, awaited steps and spawned programs make progress (weak fairness): this assumes that a
`msgvault sync` child ends. The runner has no timeout, so if one hangs, the FIFO, every later
sync and `stop()` hang with it; nothing in the code prevents this. In the store, continuations run (weak fairness),
armed timers and noticed exits take their turn with other events (strong fairness), and SIGKILL
ends a process; the storage process owes nothing else, so it may hang. Clients call only as events in that
run: a client that opens and closes in an endless chain of microtasks would starve every timer.

## Findings

One run shows a violation; what follows it was met while modelling and is stated by the
models, without a run of its own.

- **A failed resume wave is forgotten** (`sync_resume`, `ResumeReachesAll`). After a suspend a
  heartbeat asks for an "all" wave. If its discovery fails, the wave is over and the
  mode is lost; the next heartbeat's "additions" wave clears `discoveryError` and
  asks for no account. The plan promises an immediate sync on
  resume; the accounts wait for their own timers instead, and the health report is clean.

- **Order within a second.** `docs/issues/9/plan.md:277` says that the retained messages of a thread are sorted
  chronologically. `compareMessageSort` (`threadDetailProjection.ts:386`) compares timestamps with
  `localeCompare`, for which "." comes before "+": within one second a message with a fraction comes before one
  without. The SQL order is binary, and has them the other way round. `ShownBefore` models it; it
  also decides who gets the body budget first.
- **mock_send of a sent file.** The tool accepts any draft path, `sent/` included, writes the sent copy onto
  the file itself and then removes it: the text is gone. Two drafts of one basename share a
  sent copy. `SendKeepsTheText` is therefore about drafts.
- **Overlapping autosaves.** `MailDraftEditor` (lines 56-64) neither orders nor cancels its requests, and takes every answer for the last
  one. Two that are in flight together may be written in reverse order; or the later fails and the earlier is answered after it. The file then
  has the older text, the editor's state is "saved", "Could not save draft" is not shown, and since `lastPayloadRef` has the newer text
  nothing is posted again until the next change. No document or test says what two autosaves do, so no run states it;
  `SavedMeansSaved` excludes this, by `crossed`, and nothing else that an autosave may do.
- **Opening a draft rewrites it.** The editor remembers no payload when it opens, so 250 ms later it posts
  the text as it stands, with the kind `draft` even for a file in `sent/`.

## Proofs

Eight modules, each about every instance: any sets, any durations, any bounds. Each has an inductive
invariant, three facts about it (it holds at first, every step keeps it, it implies the property) and
theorems that cite it.

| Module | Theorem | States |
|---|---|---|
| `OutboxProofs` | `TypeCorrect` | `TypeOK` |
| | `RowsAlwaysReadable` | no operation violates a CHECK or leaves an undecodable row |
| | `AttentionAlwaysExact` | open items are exactly the decisions owed |
| | `AttemptedAtMostOnce` | one provider attempt per row |
| | `OutcomesAlwaysTrue` | evidence means delivered, failed means never |
| | `LiveSendsAlwaysCurrent` | no live row sends text its draft no longer has |
| | `KeysStayUnique` | two rows never share an operation key |
| | `RetriesAlwaysFormChains` | a row is retried at most once, by a row of its draft, revision and content |
| | `ApprovalsStayAuthorised` | every approval used a token issued for its row to its session, in time and not replaced |
| | `DispatchesAlwaysCurrent` | what is dispatched is approved, as its draft has it (or a retry), and still its account's to send |
| | `BacklogStaysBounded` | the limit of pending rows holds per account |
| | `SearchesComeInTime` | no search is planned beyond its deadline |
| | `LeasesExclude` | a claim with time left is taken over by nobody |
| | `OutboxKeepsTheContract` | every behaviour of `Outbox` is one of `SendContract` |
| `SyncSupervisorProofs` | `AccountsAlwaysTended` | a known account has something that will run it, or a reported failure |
| | `RemovedAccountsAlwaysFinish` | a removed account finishes and starts nothing |
| | `RequestsAlwaysServed` | a request is followed by a run, if `~EagerCallers` |
| | `LatestSpellingAlwaysTried` | a new spelling is tried |
| | `StoppedAlwaysDrained` | a finished stop leaves nothing behind |
| `SyncRuntimeProofs` | `AlwaysOneWriter` | one process writes the archive, orphans included |
| | `WritersAlwaysHoldTheLocks` | whatever writes has all four locks |
| | `LeasesAlwaysLive` | a lease is on an entry that is up, registered and of its configuration |
| | `OwnersAlwaysRegistered` | what owns the archive in a process is registered there, also when it could not give it up |
| | `LeasesAlwaysCounted` | the count of an entry is the number of its holders |
| | `DetectorFindsErrors` | the detector reports a text exactly when the expression matches in it |
| `MailStoreProofs` | `AlwaysOneOwner` | a database is open in one process at most |
| | `DisposalAlwaysABarrier` | an entry is registered until its process is over |
| | `ReferencesAlwaysCounted` | the count of an entry is the number of its clients |
| | `OpenedStoresAlwaysWork` | an open never hands out a failed store |
| `MailStoreCallProofs` | `AnswersAlwaysTrue` | success means done, an error or refusal not done, one effect per key |
| | `LateEffectsAlwaysPrecedeReopen` | a lost call takes effect before its database is open again in a process that lives, or never |
| | `StoreKeepsTheContract` | every behaviour of `MailStoreRpc` is one of `StoreContract` |
| `MailReaderProofs` | `WalksAreTheListing` | the pages of a walk are a beginning of the listing it began with, and all of it at its end |
| | `TypeCorrect` | `TypeOK`, cursors included |
| | `QueriesAgree` | the bounded query, when it fills a page, finds what the complete one would |
| | `PagesAreFirst` | a page is the first rows after its cursor |
| | `HiddenSourcesStayHidden` | nothing shown is of a source whose last choice was to disable it |
| | `ThreadsAlwaysTell` | whatever a thread leaves out, its flags say so |
| | `ListedItemsAlwaysOpen` | a message of a page opens while nothing has changed since |
| `ThreadDetailProofs` | `DetailsKeepBudgets` | what the projection builds passes the checks of the contract |
| | `ThreadsOpen` | no thread is refused for its size, before or after it is trimmed |
| `StandaloneProofs` | `OnlyTheOwnerEverPasses` | only the owner's bridge calls and upgrades pass, none after the disposal |
| | `SavedAlwaysMeansSaved` | "saved" means the text is in the file, unless the tool wrote or an earlier autosave overtook the last |
| | `SendAlwaysKeepsTheText` | sending a draft keeps the text in one of the two files, while nobody else writes |

Assumptions are the named `ASSUME`s of the modules, and TLC evaluates them in the runs. Most say that a bound is
natural or positive, that `None` is none of the values it stands beside, or that a caller belongs to a process. Those
worth knowing: rows, callers, clients and messages are finite (counts are cardinalities); there is a spelling
(`SpellingsExist`); the copy of a draft in `sent/` is no draft itself
(`SentIsApart`); ids are numbers and every timestamp is later than `NULL` sorts (`IdsAreNumbers`); a body
cap is no larger than the total and one full message fits the JSON bound (`BudgetsAreSound`,
`OneMessageFits`); texts have characters of a positive width (`ContentsAreMeasured`);
the detector's token is letters and one colon, at its end (`TokenIsAWord`).

**Outbox.** None of the properties is inductive alone. `IInv` is the type invariant, "a draft that
exists has content", and `RowFact` for each row, which has the properties row by row and one fact
more: *no row is ahead of its draft's revision*. It is needed because an edit makes stale what
is live, and a retry may revive a revision; without it a retried row could later look
current by coincidence. At most one attempt holds because `MarkDispatched`
leaves `history` set for ever, and `RowReadable` says that a row without it was never dispatched. An
outcome is true because evidence exists only for the one licensed call.

Most operations move one row. `Advances` says what such a row may become and keep, and one lemma
(`AdvanceKeepsFacts`) shows that this preserves `IInv`; each `...Step` lemma only says which row its
operation makes. New rows are `Begins`; edits, recoveries and the provider's steps move many
rows or none and are proved directly. `NextStep` has one case per group of `Next`. Keys, chains, approvals, backlog
and deadlines are invariants on top of `IInv`, each from what `Advances` and `Begins` leave alone: an identity is
written once, when a row is made. That a dispatch is current needs `IInv` (a claimed row was approved and is what its draft says) and the
guard of `MarkDispatched` for the identity, which the world may change at any time.

**The contract.** `OutboxKeepsTheContract` takes each step of `Outbox` to a step of
`SendContract` or a stutter: rows turn from phase to phase (`Turns`) under the mapping. The guards of the contract (an outcome needs a
delivery, a refusal none, nothing arrives unattempted) come from `IInv`, and that a retry starts afresh
from the chain of retries.

**Supervisor.** `AccountFact` ties each account's timer, run and follow-up to the wave and to the progress of `start()` and
`stop()`. What makes it inductive: an account owes its being tended to one of four
(`Tended`), and a wave that is about to ask never meets a run that is settling. `RequestsAlwaysServed`
needs `~EagerCallers`: see [SyncSupervisor](#syncsupervisor).

**Runtime.** `LockInv`: the locks of two entries are disjoint, an entry at work has all four and its process keeps
them open, and a child belongs to an entry with a run in its FIFO or to a crashed one, whose locks it keeps open itself. So two
children are never of two entries. `OwnerInv`: an entry at work, and one that kept its ownership, is registered for its process; a step that
takes it out of the registry takes the ownership first. `LeaseInv`: an entry that serves is registered and
somebody holds or awaits it, and its promise says what has become of it.

**Detector.** What the expression asks of the end of a prefix is put into words of its own: the text ends within the token
(`AtToken`), in the spaces after it (`AtSpace`), in the digits after those (`AtDigits`), with a positive count (`AtCount`), or a match is over
(`Over`). Each of them goes on by one character exactly as the detector's stages do, the stages exclude each other, and
induction over the length (`NumbersInduct`, see *Thread detail*) makes them agree. That only one candidate need be followed
rests on the token: after its first letter comes no word boundary before the colon, so no second candidate begins inside one.

**Mail store.** Three layers: shapes; `LockInv`, which asks of the registry only that an entry is not used again while
its process lives; `OwnerInv`, the life of an entry and what its clients wait for. `CallInv` adds where the copies of a
call are: in one inbox at most, and once; an answer is made when the call leaves the inbox and read before its entry stops, or never.
`LateEffectsPrecedeReopen` speaks of a client that has a database open in an entry whose process lives: a call to that
database that takes effect is then in the inbox of that very process, because two live owners of one database
would contradict `OneOwner`.

The store's contract needs one fact more, `SentFact`: only a process that has both locks ever has calls in its inbox.
So if a lost call were in doubt while its database is served, its process and the one that serves would
hold the same lock; they are one process, its entry has not stopped, and the call is not lost (`SentIsClear`). Most steps
only take away (`Waning`: requests leave, calls are lost, stores end) and are `Break` in the contract or nothing
(`WaningBreaks`). Those that are more, a request made, executed or answered and a store opened, have a lemma each.

**Reader.** `First(S, n)` keeps the elements of `S` with fewer than `n` before them. In a beginning of `S` every row has the place it has
in `S` (`FirstOfBeginning`). The recent window is a beginning of everything live, so what it has of the representatives is a
beginning of them, and when that fills the page it is the page (`WindowIsABeginning`): the two ways of a query agree. The rows with a time are
all before those without, so a page that runs on is one page (`TwoPhases`). Hence a page is the first rows after its key (`PagesAreFirst`), and
one more page of a walk that served a beginning serves a longer one (`NextPage`). The invariant says that a cursor honoured
here and now has the listing it was made for (`CursorFact`), because a commit or a restart changes the version or the scope, and
that a snapshot of the current version is the archive (`RequestFact`). `PlaceFact` stands on top of it: what a walk was served is
eligible for as long as the place of its last page is here and now; so a message opened from there may be selected
(`ListedItemsAlwaysOpen`), and the rest is the detail's matter.

**Thread detail.** Sums and shares are recursive, and the provers have no induction rule over an operator. They can
take the least number of a set, though (`Least`, from the well-foundedness of `<`), so induction is stated of sets:
`NumbersInduct`, `SetsInduct`, and `Recursion`, which gives a recursive function its equations. With these, a sum
does not depend on the order of its terms (`SumIs`), and shares that are differences of what is left add up to no
more than the total (`SumOfShares`): `DetailsKeepBudgets`. `Trim` never adds and sets a flag for what it takes, so
budgets and flags survive every step of the trimming; after the last one only the selected message is left, which
fits (`OneMessageFits`).

**Standalone.** `HostInv` is small: the gate is there whenever the server can be reached. `NewestInv` follows the autosave posted last, as long as
nobody overtakes it: what it will write, that nobody else has the file open once it has, that the file holds what it wrote, and
that an editor which no longer waits for it and is told "saved" has its text in the file. Earlier autosaves may be anywhere until then, because each of
their steps either touches no file or comes before the newest opens it; that is where the definition of `crossed` comes from.
`SendInv` follows an undisturbed `mock_send` step by step.

## Limits

Only model-checked: liveness (`StopCompletes`,
`AccountsKeepSyncing`, `OwnershipEnds`, `CallsSettle`, `OpensSettle`), since TLAPS 1.4.5 proves neither ENABLED nor
liveness from fairness. Only proved: the `TypeCorrect` theorems and `LeasesExclude`, which leave nothing to ask of a run
beside the properties that rest on them.

Abstracted everywhere: wording, redaction and logging; durations and jitter;
path, inode and executable identity in the locks (modelled as failures); byte contents.

Not modelled:

- the tail of a sync's output and the wording that classifies it as changed or empty, which only sets
  the pace of the next timer (`SyncSupervisor` takes either);
- the checks of the archive's schema and indexes and of the product database before a store is open: they
  appear as a failed start;
- bounded text fields of a row (subject, sender, snippet), the counts of copies and of unread ones, and the list
  contract of the bridge, which maps fields one by one;
- the refusal of a `message_type` that is not stored as text (`threadDetailProjection.ts:445-447`): in a column `TEXT NOT NULL`
  only a BLOB is one;
- what a forwarded request does at a route that does not check the host's proof: `LetThrough` means a bridge
  call that was served or an upgrade;
- the checks of deployment, topology, plugin order and token file before the host exists; CSRF headers and
  the parsing of `Basic` credentials;
- the owner metadata file of the storage process, which nothing reads;
- the loop that claims and sends: the source has none yet, so nothing can be said of its fairness;
- SQL text and index plans, UI components with mock data, scripts: not to be modelled.

## Plan

Done: the outbox with its contract and proofs; the supervisor; the runtime with the detector; the mail
store with its contract; the readers; the standalone host with the draft files.

Left, in this order:

1. A composition of `StoreContract` with the outbox's operation keys: an enqueue whose answer is lost is retried with its
   key and makes one row.
2. `SyncService`, an abstract supervisor (runs, requests, drain) that `SyncSupervisor` implements
   and `SyncRuntime` uses.
