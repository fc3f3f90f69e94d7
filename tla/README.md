# KajianQ in TLA+

KajianQ answers questions about the Qur'an and hadith through a
retrieval-augmented pipeline, keeps the conversation and a trace of every
answer in Postgres, and promises its anonymous users that they can erase
everything. This directory models the parts of it whose correctness depends on
the order in which things happen, checks them with TLC and proves the central
ones with TLAPS.

## The system

One Bun process (`apps/api`) serves HTTP behind nginx; one Postgres database
holds all durable state; systemd timers run two further processes every night,
the reclamation (`apps/api/src/cleanup.ts`) and the backup
(`provision/vps/backup/kajianq-backup.mjs`); operators deploy, migrate, restore
and ingest from the command line; a React client (`apps/web`) keeps a token and a
session id in browser storage, and an evaluation client (`packages/eval`) asks the
deployed API. Handlers are `async` functions: each `await` of a store call is a
point where any other handler may run.

| component | state | operations | what is hard | correct when |
|---|---|---|---|---|
| chat turn `routes/chat.ts` | rows of `chat_sessions`, `chat_messages`, `answer_traces` | authenticate, check owner or open a session, store question, run pipeline, store trace, store answer, stream | five separate autocommitted writes; an unawaited write of a failed run's trace | an answer is stored before it is streamed, always with its trace, never in another user's conversation |
| sessions and erasure `routes/auth.ts`, `rag-store-postgres-session.ts`, `-erasure.ts` | `users`, `sessions` | mint, resolve token, erase the user's tree | the sweeps of one transaction run while turns insert | after `{deleted: true}` nothing of the user exists or appears; all or nothing |
| nightly job `lib/scheduled.ts` | the same rows | delete expired tokens, then users without a token | a second deleting transaction, in the opposite lock order | takes only the expired, and all of them eventually |
| feedback `routes/feedback.ts` | `feedback` | check target and anchor, upsert verdict | target read before, and not bound to, the insert | verdicts stay attached to their author's own trace, one per element |
| admin access `lib/admin-*.ts` | signed token, denylist, access log | login, probe, read, logout, purge | denylist check against concurrent logout; log before serve; two purges | a signed-out token serves nothing, every read is logged |
| rate limiter `packages/rate` | one window per counter, bounded map | check, mint a bypass token | eviction at capacity, window boundary, shared digests | what it admits is what its windows promise; only the oldest counter is ever dropped |
| boot and model-config mirror `boot-sequence.ts`, `model-config-boot.ts` | `model_configs`, the bound socket | upsert + delete, drift check, deadline | two processes' transactions; a sync that lands after the deadline | a reported mirror is the configuration; the process comes to serve |
| providers, engine and chat pipeline `infra/providers`, `rag-core/run.ts`, `kajianq-domain/chat-*.ts` | the run: draft, attempts, trace | call, retry, fall back, stream; route, retrieve, decline, generate, validate, review | a call that fails is retried, replaced or done without, in every stage | every paid attempt is on the trail; only vetted text is delivered |
| retrieval `chat-retriever.ts` and its reads | the context under construction, its events | search, relax filters, expand, look up labels, read chains, give the caller priority | six bounded reads over overlapping rows | the trace tells which record each search ran with and what was cut off |
| citations of an answer `chat-citation-*.ts`, `chat-weak-warning.ts`, `lib/chat-citations.ts` | the run's chunks and chain evidence, the delivered text, the frame | ground, refuse, warn, derive the chips live and at every rehydration | ranges and joined numbers name more than they write; the rows change under the transcript | no delivered citation without its retrieved source, no chip without its passage, no weak one unflagged |
| ingestion `rag-ingest`, `sanadset-ingest-*.ts` | documents, embeddings, pairs, chains | pass over a book, pilot of the chain archive | a stop between any two statements, a rerun with a new edition or new groups | a report of a whole book is true; a rerun leaves its plan and loses no evidence |
| backup and restore `provision/vps/backup` | dumps, repository, record of the last run | dump, snapshot, forget, record; load, verify, re-apply erasures | overlapping runs and killed ones; users erased since the dump | the record is backed by a snapshot; a restore brings back nobody it must not |
| deploy and migrations `provision/vps/deploy`, `db-migrate.mjs` | served tree, uploaded archive, ledger | preflights, upload, swap, proof; up, down | two deploys with one archive name; two runs of up | no tree without the schema it needs or without a proven backup |
| evaluation `packages/eval` | results, `eval_runs`, `eval_results`, bill | sample, ask, retry, score, record, decide | frames and rows that are missing, a budget that ends the run | green is earned, and the ledger tells the same story as the report |
| web client `apps/web/src/lib` | token, session id, transcript, epochs | send, rehydrate, new conversation, open from history, consent | late frames and snapshots, two tabs, 401 re-bootstrap | a finished turn is never hidden; consent withdrawn leaves nothing |

## Modules

| module | models |
|---|---|
| `ChatTables` | tables, keys, foreign keys and cascades of the conversational schema (`packages/infra/migrations/0001_init.sql`, `0003_feedback_dedup.sql`) |
| `ChatStore` | the handlers and transactions over these tables |
| `UserData` | the abstract promise: a user's data appears, grows, and goes as a whole |
| `AdminAccess` | admin sessions, denylist, access log, and the nightly purges of both |
| `RateLimiter` | the fixed-window limiter and the middleware that keys it |
| `ModelMirror` | the boot: the mirror's transaction, its deadline, killed processes |
| `AnswerRun` | one run of the pipeline: stages, vendor calls, cost trail, delivery |
| `Retrieval` | one retrieval: searches with relaxation, then the bounded reads |
| `CitationGate` | the citations of one answer: gate, weak warning, citations frame, over a changing corpus |
| `EvalRun` | one run of the evaluation client |
| `CorpusIngest` | ingestion passes and runs of the Sanadset pilot over one book |
| `Backups` | nightly backups of a changing store, and restores |
| `Release` | EXTENDS `Backups`: deploys, which read the backup's record, and migrations |
| `WebChat` | the chat page of the web client: turns, rehydration, query cache, drawer |
| `ConsentStorage` | the reader's consent and the chat's keys in the tabs of one browser |
| `MCChatStore`, `MCApiProcess`, `MCOperations`, `MCWebChat`, `MCLiveness`, `MCEvalRun` | instances for TLC, see Runs |
| `MCRetention` | the documents' statements about retention and failed erasures, with a history variable |
| `ChatStoreProofs`, `ChatCustodyProofs`, `AdminAccessProofs`, `ApiProcessProofs`, `AnswerRunProofs`, `OperationsProofs`, `WebProofs`, `EvidenceProofs` | theorems |

An operator whose name continues another's after an underscore
(`Upserted_KeepsVectors` before `Upserted`) is a plausible bug of it, beside the
original for comparison: putting it in the original's place breaks a property of a
run. No specification uses one.

### Tables (`ChatTables`)

A row is a record with its table, key and references; content is left out.
`chat_messages.answer_trace_id` is nullable and `ON DELETE SET NULL`; it is a
row of its own that is there exactly when the column is not NULL, so that
clearing the column is an ordinary cascade. Rows with a NULL owner are not
modelled: no route writes one.

### Handlers and transactions (`ChatStore`)

`db` is the committed database. `deleted[x]` is what the open transaction `x`
has deleted: others still see these rows, but may neither delete them nor
insert a row that refers to them until `x` ends — Postgres' row locks under
READ COMMITTED. A blocked statement is taken to start when its locks are free,
which is what Postgres' re-evaluation of the rows amounts to for these
statements (each selects by key or owner, columns no update changes).

* `Mint` is `createSession`, one transaction of two inserts.
* `AuthTurn`, `CheckOwner` / `OpenChat`, `StoreQuestion`, `RunPipeline`,
  `StoreTrace`, `StoreAnswer`, `Reply` follow the chat handler from await to
  await; `StoreLateTrace` is the trace of a failed run, written by a promise
  nobody awaits. An insert a foreign key or unique index refuses ends the
  handler (`failed`). Reading the history and deriving frames change nothing and
  are left out, as is the transcript route. A supplied session id is any turn's,
  which includes unknown and foreign ones.
* `AuthVote`, `FindTarget`, `StoreVote` are the feedback handler. Whether a
  flag's anchor is grounded in the trace depends on data that is not modelled,
  so the handler may always reject; a citation label can only be accepted with
  the answer's text in the table. A vote whose store call fails is a vote that
  stops, and is not a step of its own.
* `AuthErase`, `Sweep`, `Verify`, `CommitErase` execute `eraseUserTree` one
  statement at a time, including the two checks that raise; `RollBack` is the
  driver's error path. `LoseCommitAck` is a COMMIT that took effect but whose
  acknowledgement was lost. (The mirror case, an acknowledgement for a COMMIT
  that did not happen, is not something Postgres does.)
* `StartNightly`, `Reclaim`, `CommitNightly` are the nightly job. Its clock and
  the token check's are one variable: API, job and database share one host.
* `GiveUpWaiting` is `statement_timeout` or deadlock detection ending a wait;
  `FailTurn` and `FailTxn` are failing store calls and dying processes, at most
  `MaxFaults` of them.

### The promise (`UserData`)

Per user a set of items; `Appear`, `Write`, `Forget` (some users lose
everything) and `Erase` (the user is told). `ChatStore` implements it with the
keys of a user's rows as items (`ImplementsPromise`).

### Admin surface (`AdminAccess`)

A token carries its own expiry and a session id; the server keeps nothing of it
until it is signed out. A token is its session id here, and a request may present
any token ever issued, since a cookie can be copied and a request in flight
carries the cookie of when it was sent. Shape, signature, credential, Origin and
CSRF checks decide whether a request is one of these at all and are left out.

* `Login` is a `POST` of `/v1/admin/session` that passed its checks.
* `Guard`, `CheckRevoked`, `RecordAccess`, `Serve` follow a read through
  `adminGuard`, `withAdminRead` and the route, one step per store call. A
  malformed query, a missing trace, an unreadable trace and a mirror that
  disagrees are `refused`. The session probe takes the first two steps and serves
  no content. `FailRead` is a failing store call.
* `PresentLogout`, `Revoke`, `FailRevoke` are the `DELETE`.
* `StartJob`, `CleanSessions`, `PurgeLog`, `PurgeDenylist`, `FailJob` are the
  nightly job. The session cleanup is one step here; `ChatStore` has its detail,
  and the two share no state. `PurgeLog` includes the trigger on the log, which
  aborts the whole `DELETE` when it meets a row it protects.

Lost acknowledgements are modelled: a record or a revocation may be in its table
although the call failed. The clock is one variable, since API, job and database
share one host; the cutoff of the denylist purge is read when the job starts, as in
the code. `recordedAt` and `logout[l].session` are history kept by the model.

### Rate limiter (`RateLimiter`)

`window[k]` is the Map's entry of a counter, a surface (`ip`, `admin-login`,
`admin-read`) with the digest of an address; a count of 0 is a key the Map does not
hold. `Request` is the middleware: a bypass token that has not expired skips the
public surface, every other request is one `Check`, which ticks its window and, for
a new key at capacity, prunes and evicts (`PruneAndEvict`; the Map's order decides
between equal ages, so any of them may go). `MintBypass` is the route that mints
tokens. `granted` is history: the admissions less than a window old, per counter,
restarted when the counter loses a live window.

### Boot (`ModelMirror`)

`Start`, `Expire` and `Bind` are `bootSequence`: the sync begins, the deadline passes
or not, the listener binds. `Upsert`, `Scan`, `Delete`, `Commit` and `List` are the
sync: one transaction whose `DELETE` has a snapshot (`Scan`) and waits for row locks
(`Delete`), under READ COMMITTED, then a read of the table that reports `synced` or
`drift`. `Kill` leaves the transaction to the server, which ends it later (`Reap`),
and a COMMIT on the wire may count in both. systemd keeps one process running, so a
boot starts only when the others are off or killed.

### Pipeline (`AnswerRun`)

`stage` follows the runner through the five stages. Router, embedding, rerank,
pre-gate and reviewer are calls without a body (`Succeeds`), generation and its
re-read are streams (`OpenStream`, `EndsStream`, `CutStream`). `FailAttempt` is one
attempt that fails, with `perKindRetrySchedule`, the walk of the candidates, and what
`GiveUp` does: three of the calls are optional, a failure of the others fails the run.
An attempt is known by its number. `superseded` and `unlisted` are history: the two
kinds of attempts the code drops from the trail. A draft is the shape that the citation
validator and the refusal grammar read in it; evidence is none, one or several chunks.

### Retrieval (`Retrieval`)

`SearchTrack`, `Probe`, `GiveUpProbing` are the searches of every sub-query on two
tracks, and the probing that drops filter dimensions when a search finds nothing. After
`Fuse`: `ExpandNamed`, `CompleteSurah`, `LookUpLabel`, `ReadNeighbours`, `ReadChains`,
`Prioritise`, one action per read. A row is a parent and an ordinal; an approximate
search may return any rows up to its limit. What a read records of its budget is
`reads`, `chainEvidence` and `unread`.

### Citations (`CitationGate`)

`Retrieve` and `ConsultChains` fix what the run holds: its chunks, what it read of them,
and the chain evidence of its trace. A draft is the set of its citations with the
refusal sentence and a warning of its own; `ScreenDraft` is the deterministic gate with
the four rows of the refusal decision, `PassDraft` and `FailDraft` the reviewer behind
it, and `WithRules` the weak warning. `SendFrames` derives the citations frame of the
turn, `Rehydrate` derives it again at any later read of the transcript, from the rows
the corpus holds then or from none when the read fails; `WriteRow` rewrites or deletes a
row at any time. A citation is its address with the numbers joined to it: `Scanned`,
`RangeAddresses` and `GroundingLabels` are what the grammar makes of them, `ReadAs` what
a reader does. The spellings that fold onto one address are left out, and so is the
trace panel.

### Evaluation client (`EvalRun`)

`SelectSample`, `AwaitHealth`, `CreateRun` begin the run; a question is answered and
scored (`Score`), breaks off (`BreakOff`), is refused by the edge (`Reject`, which may
have run the turn behind it), fails fast when the retries are spent (`FailFast`), loses
its trace (`LoseTrace`) or meets the cost cap (`StopAtCap`); `SaveResult` and `FailSave`
write its row; `RefreshRun` and `Exit` decide. A reply is which labels it cites, which
were retrieved, and which of its frames arrived. `earned` is history: the questions
whose reply deserves a pass, judged by `Deserves` without any of the fallbacks. A
question that names source types is owed its citations from what was retrieved; only a
question that names none, or a refusal, is backed by the text of the reply (`Basis`).
A question that requires no citation is owed none: the shipped Golden Set has one
(`gs-v0-018`, `golden-set-v0.json:204-211`), an answer to it is green without any, and
`WellFormed` asks of a fixture no more than the contract does.

### Corpus (`CorpusIngest`)

`StartPass`, `WriteParent`, `WriteChildren`, `WritePair`, `EndPass` are an ingestion
pass over one edition of a book; `PlanPilot`, `ReadStored`, `WriteExtras`, `EndChildren`,
`WriteChains`, `EndChains`, `DeleteStale` are a run of the pilot. Every statement
commits on its own, and `StopPass` and `StopPilot` may follow any of them. A text stands
for itself, an embedding for the text it was computed of. One pass and one pilot at a
time, but they may overlap.

`PlanPilot` chooses an archive, one of the `Groupings` of its rows and a target for each
group. A grouping gives every row the representative of its group, as the cascade does
row by row: a row joins the group of the first row with its normalized text (`FoldOf`),
else a group with an earlier row it scores against at 0.90 or more (`Alike`), else it
starts one, or is quarantined. Only the representative is matched (`Targets`): an equal
text decides, then an equal normalized text, which needs no evidence; else a score may
name a child the containment evidence accepts (`Near`), or refuse the group. Every row's
chain goes to its group's child, with the narrators of the row's own text (`ChildOf`).

`NarrationsStayApart` says of a chain just what follows from that: the raw text of its
child is accepted for a row of the chain's `Lineage`, the rows its group may have come
from. The stricter statement, that it is accepted for the row's own text, does not hold:
a row that joined by its score may hang on a child that its text was never compared
with, which the model reaches and the code allows.

### Backups and releases (`Backups`, `Release`)

A user stands for the row with its subtree (`UserData` is the model of the subtree), a
row count for the number of users, and the clock counts days. `StartUnit`,
`StartByHand`, `Begin`, `Dump`, `CountTables`, `Upload`, `Forget`, `Finish` are a backup,
one step per command; `FailRun` is `fail()` with its exit handler, `Kill` a death without
one. `Writes` is the record, which is replaced whole or not at all. `StartRestore`,
`LoadArchive`, `VerifyCounts`, `Reapply`, `EraseNamed`, `FailRestore` are a restore into
the scratch database. `begun` is history: the unit's runs that have not reported.

`Release` adds `CheckMigrations`, `CheckBackup`, `ShipTree`, `Swap`, `ProveCron`,
`Verify` with their failures for a deploy, and `ReadLedger`, `ApplyFile`, `StopUp`,
`ReadLast`, `RollBackFile` for `db-migrate`. `Proven` is what the preflight reads of the
record. Revision r ships the migrations 1..r. `waived` and `undone` are history: an
operator skipped the check or rolled a file back, which the claims except.

### Chat page (`WebChat`)

One browser tab. The page is mounted at most once at a time, which is what
`use-chat.ts` supports, and can be left and mounted again while requests and turns
are under way. The server is reduced to what the page can tell apart: users it
minted and still accepts, the owner of a conversation, the answers stored in it.

* `turn[t]` follows `askChat`: token or mint, request, one retry after a 401, the
  stream (`Meta`, `FinishTurn`), `FailTurn`. The callbacks of a turn whose page is
  gone change nothing there (`Here`), but the session id is stored all the same.
* `request[<<w, c>>]` follows `rehydrateSession`, for the page through the query
  cache and for a row of the drawer. `Fetch` and `Arrive` are the query, `Fetch`
  with the mount's one recovery; `ShowTranscript` is the effect that reads the
  result, with its three tests `Forgets`, `Usable` and `Outdated`.
* `view` is the state of the mounted page: session id and the ref beside it, turns
  on screen, busy, the count of turns that ended (`epoch`), the applied results
  (`seen`, which stands for `dataUpdatedAt`), and the recovery flag.
* `NewSession`, `OpenHistory`, `ArriveDrawer`, `Mount`, `Unmount`, `Reload` are the
  reader; none of them waits for a turn, since the code gates only `Send`.
* A row of the drawer is absent, kept or expired; an expired row stays expired when
  it is archived again.

What the query library does is external: it keeps a result under its conversation,
asks once at a time, retries a failed query only when the browser is back online,
and may cancel a request of a conversation the page has left or let it run on
(`Abandoning` allows both, wherever the page leaves one: unmounting, "New conversation",
a 404 that forgets it, another row of the drawer).
`mine` and `owed` are history: the turns this page asked, in the conversation it
shows, and has not left, and those that were finished when it was mounted. A turn on
screen is its answer; the question that stays after a failure is not tracked.

`mine` leaves one turn out. The late `onMeta` of a turn that "New conversation" left
behind renames the ref of the page (the finding of `web_fresh`) while the page already
shows another conversation; a question asked then is answered in the old one, and the
next transcript of the conversation on screen takes it off the page. It needs three
turns, more than the run has: the proof of `FinishedTurnsStay` showed it, and a larger
instance confirmed it. `Readable` asks for the conversation's owner, not only for one
that is still valid, for a like reason: two mints under way at once leave the page with
a token that is not the owner's.

A mount recovers only once (`recovered`), for whichever conversation needs it first. If a
request the page has left ran on, its result could later stand in the cache for the
conversation on screen when that one recovery is gone, and the page would wait for good:
TLC finds such a behaviour with two conversations. The query library does not let it run
on: the query consumes the `signal` it is given (`use-chat.ts`), and React Query cancels
such a query when its last observer leaves. `ComposerReturns` is therefore checked with
one conversation, where it holds either way, and `WaitingHasAWayOut` proves for any
number that with cancellation the page always has a request under way or may make one.

### Consent and storage (`ConsentStorage`)

The tabs of one browser share `record`, the reader's answer, and `kept`, the chat's keys
in localStorage; each has `memory`, the map that lasts as long as its page, and
`tabChoice`, its answer where the record refused the write. `Value` and `Set` are
`storageGet` and `storageSet` behind the gate `Allowed`; `Archive`, `RemoveEntry` and
`MarkExpired` read the list of conversations, change it and write it back; `Grant` and
`Withdraw` are the card and the switch of the drawer, whose view of the record may lag
behind another tab's answer. A handler is one step, which browsers promise only to tabs
of one process. `WebChat` takes the storage of its one tab as a token, a session id and
a list.

`Without` is the filter of the list, described by positions, which the proofs can follow
where the library's `Remove`, a recursive selection, is out of their reach.
`MaxRefusals` counts the writes localStorage refuses; storage that cannot even be read
leaves only the map and is not modelled. One key stands for token and session id, which
the code treats alike, and the list holds one entry, so that its cap is met.

## Runs

| run | module | shows |
|---|---|---|
| `chat` | `MCChatStore` | schema, erasure, traced answers, isolation, grounded verdicts, only asked or expired, refinement of `UserData` |
| `api_process` | `MCApiProcess` | admin surface, limiter, boot, pipeline, retrieval, citations and evaluation client |
| `operations` | `MCOperations` | backups, restores, record, migrations, deploys, ingestion |
| `web` | `MCWebChat` | a finished turn stays on screen; a return shows what was finished before; a late 404 forgets only what is lost; an answer to the storage question counts in every tab and takes nothing off the screen |
| `liveness` | `MCLiveness` | under fairness: erasures end, expired users are reclaimed, the composer comes back |
| `retention_notice`, `erasure_failure` | `MCRetention` | violated: see findings |
| `web_fresh`, `web_lost` | `WebChat` | violated: see findings |
| `failed_trace` | `AnswerRun` | violated: see findings |
| `rolling_window` | `Backups` | violated: see findings |
| `paid_retry` | `MCEvalRun` | violated: see findings |

### Sides

Modules that share no variable would only multiply in one instance. The large runs
therefore hold several *sides*: the first state chooses one, the variable `side` keeps
it, and the steps of the others are not taken. A side is a sub-behaviour of the
module's specification, so a property that holds in the module holds on it; what is
cut off is named here.

* `chat`: *erasure* is one user, two turns, an erasure, the nightly job and a failure,
  where a failure, an expiry and a second turn do not all three meet; *isolation* is
  two users and two turns without failure; *feedback* is one user, one turn and two
  verdicts against an erasure, the verdicts starting when the turn is over.
* `api_process`: *admin* (one session, two reads, one logout, lifetime and retention 1,
  clock to 2, one failure), *rate* (three clients on two digests and three surfaces, two
  keys at most, windows of 2, clock to 3), *boot* (three configurations that change a
  price, add and remove a model, three faults), *run* (two candidates, one retry of each
  kind, one re-read, five failing attempts), *search* (two sub-queries, one row a
  search, every set of filters), *context* (three surahs of 3, 2 and 1 verses and two
  hadiths with 2 and 1 chains, at most two rows found, all budgets 1 but the scope's 2),
  *gate* (a surah of three verses and three hadiths on four children with two versions
  each, four contexts, thirteen drafts, evidence of one child and one row, one rewrite),
  *eval* (three Golden Sets of three questions, one of which has an answer that requires
  no citation and a question without source types; samples of 2 and 3, three hold-out lists,
  one retry, a cap of 1, at most one failed write of a result).
* `operations`: *restore* (two users minted, expiring, erased and reclaimed around one
  backup and restores of it), *record* (two overlapping backups and a changed unit),
  *migrate* (two runs of up and down over three files), *release* (two deploys and two
  runs of up over two revisions, one backup), *book* (two passes over two editions, the
  second of which lost its first hadith, with and without summaries), *corpus* (the same
  passes without summaries, and two pilots over archives of three and of two rows); one stop,
  batches and chunks of 1. One fault each; a window of one day, clock to 1.
* `web`: *failing* is one user's conversation with one failure or reload, *switching* is
  two users who switch between two conversations, both of them lost only while there is
  one conversation; two turns and two mounts each.
* `liveness`: *store* (one user, one turn, one erasure, one failure) and *page* (two
  users, one conversation, one turn, two mounts, one failure or reload).

### Why the bounds are enough

Nothing in the code of the store counts users or turns: a handler touches its own rows,
rows of the conversation it names, and its user's. Two turns give a turn that continues
the other's conversation, two writers under one user row, and a failed run next to a
good one; one erasure with the nightly job gives two deleting transactions in opposite
order; a clock of 0 and 1 with lifetime 1 gives a live and an expired token, and the
boundary between them. All of these are reached: the two deleting transactions do wait
for each other, the first check of the erasure does raise (a message committed between
sweep and check), and the last never does. One failure reaches every point where a
failure can strike; later ones repeat it on a state the first left. Handlers and users
are interchangeable, and so are deploys, so the safety runs use symmetry; the liveness run
does not.

For the admin surface, no operation relates two sessions, so one is enough; two reads
give a record that is old while another is fresh; the theorems cover any number of
logouts and any clock. The limiter compares a window's age with one constant, so two
windows in a row and one key more than fit give every case of it: a boundary, a lapsed
and a live eviction, a shared digest. A sync meets one predecessor's transaction in its
snapshot and one in its locks, which takes three boots. Five failing attempts exhaust
both candidates after a retry, and leave one for the call after. A retrieval's budgets
are compared with counts one below, at, and one above them. For the citations, three
verses give a range with an interior that may be missing, and two hadiths a weak one that
is cited beside a sound one, or only retrieved; a frame is derived from the rows of one
moment, so one rewrite shows every difference between two of them. In the evaluation client a
set of three questions has one per class, so a sample of two has to choose.

A backup's window is compared with whole days, and two runs are enough for one to finish
inside the other. Migrations have holes only from three files on. Two deploys give one
archive uploaded over the other's. For the pilot there are four texts: two of the book, A
and B; C, which no edition holds and the evidence accepts for B; and D, which is
normalized like A and scores like C. The rows of one archive are D, B and C: D may find A
in the book by its normalized text or be a child of its own, and C joins D, starts a
group, which B may take, or is quarantined between the two groups before it. Those of the
other are A and D: D joins A by its normalized text. So a rerun over the other archive
regroups, changes representatives, and meets children and chains of the first, one of them
of a row that is gone; and a chain does reach a child its own text was never compared
with. The stop lies between any two statements.

One subtlety is in the statement of `SignedOutReadsNothing`: the guard and the
denylist check read the clock and the table at different times. A request whose
token expires between the two can find the denylist entry already reclaimed, or
never written because the logout found the token expired; the property therefore
excepts tokens that no longer verify.

For the chat page, two users give a token and its replacement, two mounts a result
of an earlier mount, two turns one that ended and one under way when a snapshot
arrives. Two conversations are needed only where the reader switches, and that side
leaves failures out to stay small. A third mount or turn meets the same cache entry
and the same comparison of epochs. A model that has run out of users or
conversations refuses like the mint limit does, so that the bound leaves nobody
waiting. The reader may leave for good, an operator may stop, and a run ends, so only
the `chat` run and the two of `MCRetention` check for deadlock.

### Fairness

Admitted handlers and the transactions' statements keep running (weak): they are
promise continuations and statements in flight. The timer starts the job again and
again (weak, `Persistent=true`). A wait ends (weak): the statement timeout is 30 s. The
steps of an erasure are strongly fair because Postgres queues row locks, so a waiting
sweep cannot be overtaken for ever by nightly transactions that start later. Clients,
the clock and failures owe nothing. In the page, a request is answered or fails, a
stream ends, and effects run (weak): the browser's, the server's and React's part. The
reader owes nothing, and neither does the reconnection after a failed load. On the
admin side the steps of the job are weakly fair, which the timer and the per-step error
boundary of `scheduled.ts` justify. A booting process owes only its own timer and its
bind (weak); that the store ever answers is not assumed, and `BootsToServe` does not
need it.

### Findings

* `retention_notice`: `expires_at` is fixed when the session is minted and no
  request extends it, so a user in constant use is reclaimed after 30 days. The
  privacy notice (`apps/web/src/lib/privacy-notice-retention.ts:21`) and the
  Article 30 record (`docs/GDPR-ARTICLE-30-RECORD.md:143`) say 30 days of
  inactivity.
* `erasure_failure`: the description of the 500 of `DELETE /v1/auth/me`
  (`apps/api/src/routes/auth.ts:71`) says the transaction rolled back and the
  rows are untouched; when the acknowledgement of COMMIT is lost they are gone.
* `web_fresh`: New conversation is not gated on a turn under way and aborts nothing.
  The turn's late `meta` frame sets the live session back (`use-chat.ts:202`), so
  the next question, asked on an empty page, continues the conversation just left;
  `chat-store.ts:33` says that it creates a fresh session.
* `web_lost`: when the token has expired, the retry runs as a fresh user, who owns
  nothing, so it always meets a 404; being outside the `try` (`chat-store.ts:97`),
  that 404 becomes a failed load, and the dead id stays stored. The comment on
  `rehydrateSession` promises a fresh start.
* `failed_trace`: when a stage of the chat fails, `recordFailedAttemptCosts`
  (`rag-core/src/run.ts:255`) looks for a `ProviderError` directly below the
  `StageError`, but every stage wraps it once more, so none of the paid attempts
  reaches the trace, which `run.ts:181` says may never happen.
* `rolling_window`: `restic forget` groups by host and paths, and both paths of a
  snapshot are inside a fresh directory and carry the run's label, so every snapshot is
  alone in its group and is kept; `provision/vps/backup/lib.mjs:42` says that older ones
  are deleted for real.
* `paid_retry`: a 502, 503 or 504 makes the smoke of a deploy ask again
  (`packages/eval/scripts/readiness.mjs:99`), although the API runs and stores the turn
  before it answers and the edge may have given up on it; lines 19-21 say that nothing
  was spent.

Further places where the code and what is said of it part, met while reading, without a
run of their own. Where a definition is named, it is in the module and can be checked.

* `providerCauseOf` (`rag-core/src/errors.ts:118`) stops one wrapper short as well, so a
  throttled vendor is answered as a 500: the same root as `failed_trace`.
* `AnswerRun.ErrorListsItsAttempts`: an outright refusal by a later candidate drops the
  attempts of those before it; `infra/src/providers/provider-factory.ts:131-135` says
  that the error lists every attempt.
* `CorpusIngest.RawIsItsOwn`: `contracts/src/types.ts:21-23` and `0001_init.sql:55` call
  the raw text immutable and the source of the derived one; a pass over an edition whose
  ordinals moved updates the derived columns only (`hadith-ingest.ts:204-218`).
* `Backups.DumpIsRemoved`: `kajianq-backup.mjs:334` removes the plaintext dump in a
  `finally` block that `process.exit` in `fail()` (51-54) does not run; under systemd the
  private temporary directory covers it, by hand nothing does.
* `Backups.MismatchIsUnfaithful`: `lib.mjs:108-109` calls a difference from the manifest
  an unfaithful restore; the manifest's counts are read outside the dump's snapshot, so a
  user minted in between makes a faithful archive fail.
* `chat-reviewer-pregate.ts:69` says that an item of the pre-gate holds the passages the
  citation points at; `passagesByCitation` (`chat-citation-claims.ts:74`) is keyed by the
  labels of single verses, so a range is judged against an empty passage.
* `scanCitations` (`chat-citation-normalize.ts:235`) keeps the first occurrence of a
  label, so a second claim under the same citation is not judged by the pre-gate.
* `chat-citations.ts:70` projects the chains from the run's own record, by child id; an
  upsert keeps the id (`rag-store-postgres-batch.ts:77`), so after an edition that moves
  the hadiths, an old chip may show the recorded chains beside another hadith's text.
* `docs/CORPUS-INGEST.md:76` describes a `require` that `cmdRequire` of `db-snapshot.mjs`
  does not perform; the snapshot's verification is of row counts only (lines 4-6).
* `apps/web/src/lib/consent.ts:20-21` lets an answer whose write is refused hold "for the
  tab"; a refused withdrawal does not, since the record still says `store` and is read
  first (28-31), so the keys are erased and the next write stores them again.
* `apps/web/src/lib/chat-storage.ts:42` says that a refused write keeps the value for the
  page; where an older value is stored, `storageGet` (29) prefers that one.
* `apps/web/src/lib/chat-history.ts:107`: a list cleared in one tab comes back with the
  next entry another tab adds while it may not read localStorage.
* `chat-surah-completion.ts`: skipped targets are always reported as truncated
  (121-131), also when their children are already in the context.
* `harness-outcomes.ts:146` calls a question "never asked" whose trace could not be read
  after a paid answer.
* `packages/eval/src/api-client.ts:84-88` says that an entry without a label makes the
  whole frame null; the code skips the entry (98).

## Proofs

### `ChatStoreProofs`

Proved for any number of users, turns, votes, erasures and failures, from
`ConstantsAssumption` alone:

* `TypeCorrect`: `Spec => []TypeOK`;
* `SchemaAlwaysHolds`: `Spec => []SchemaHolds`;
* `ErasureFinal`: `Spec => []ErasureIsFinal`;
* `FinalCheckNeverRaises`: `Spec => []FinalCheckPasses`.

None of the last three is inductive alone. A delete removes a set closed under
the foreign keys *of what its transaction sees*; that the commit leaves no
dangling row needs that nobody inserted below a deleted row meanwhile, that two
transactions never delete the same row, and that each deleted set stays closed
in the committed tables. These make up `DbOK`. The erasure's part, `EraseInv`,
adds that from its last sweep on the transaction has deleted the user row, and
that an erased user's row is gone and never minted again; `NoUserNoRows` turns
this into the absence of every other row: under the schema's foreign keys, no
user row means no owned row at all. `Inv` is the conjunction, with the types.

`CascadeClosed` shows that three rounds of following foreign keys are enough,
by a rank on tables (`users` 0, owned tables 1, messages 2, the trace-id column
3) that every reference descends. `InsertKeepsDb`, `ReplaceKeepsDb`,
`DeleteKeepsDb`, `CommitKeepsDb` and `RollBackKeepsDb` are the five ways a step
changes the tables; the step lemmas reduce each action to one of them.

### `AdminAccessProofs`

For any sets of sessions and requests, any lifetime and retention, and an
unbounded clock, from `AdminAssumption`: `AdminTypeCorrect`, `SignedOutStaysDead`
(`Spec => []SignedOutIsDead`), `SignedOutReadsNoContent` (the action property
`SignedOutReadsNothing`) and `ServedStaysLogged` (`Spec => []ServedIsLogged`).

Type correctness needs `LogoutsNameIssued`: what goes onto the denylist is a session
id. That a signed-out token stays dead needs `CutoffIsPast`, the job's clock is never
ahead of the guard's, so that a reclaimed entry is of an expired token, and that an
id is never issued twice, so that an expired token stays expired. The record of a
read is proved from the step that writes it on (`LoggedBeforeServed`), because
`ServedIsLogged` alone says nothing before the content is out.

### `ChatCustodyProofs`

Whose data is whose. The schema does not say it: `feedback.message_id` has no foreign
key, the owner of a conversation is checked when its turn begins and used when it ends,
and the nightly job deletes tokens and users in separate statements. `Custody`, the
inductive invariant on top of `Inv`, has one part for each such gap: every row has one
owner and refers only to rows of the same owner (`RowsOwned`); a turn past its owner
check writes into a conversation of its user, and what it wrote is there while the user
is (`TurnCustody`, `AnswerCustody`); a vote that found its target keeps standing on it
(`VoteCustody`, `VerdictCustody`); a live user has a token (`TokenCustody`); an erasure
deletes only its user's rows, and the nightly job, when it commits, takes expired users
whole (`EraseCustody`, `NightlyCustody`). `StepSteady` is what every step keeps: owners,
and that rows go only with their owner (but for the withdrawn feedback).

From it: `TurnsStay`, `VerdictsGrounded`, `AnswersTraced`, `NobodyElseLosesData` (the
action property `OnlyAskedOrExpired`), and `StoreImplementsPromise`, that `ChatStore`
implements `UserData`. The refinement goes step by step: `MintAppears`, `TurnWrites`,
`VoteWrites`, `CommitErases` and `TxnForgets` map each kind of step to `StepWrites`,
`StepForgets` or `StepStutters`.

`PromiseKept` carries the promise's own two properties back along the refinement: who
was answered `{deleted: true}` has nothing left (`ToldIsGone`), and who has nothing left
never has anything stored again (`GoneForGood`). `OverdueGoWhole` is the safety that
`ExpiredAreReclaimed` rests on: when the nightly job commits, nothing is left of any user
whose token had expired by its cutoff. The job deletes tokens and orphaned users in
separate statements and others commit between them, so it needs `NightlyReach`, what the
job no longer sees after each of its statements.

### `ApiProcessProofs`

The rate limiter, for any limits, clients and windows: `RateTypeCorrect` and
`LimitHolds`. A counter stores a window's start and a count, which says nothing of what
was let through in the *last* window's length when a boundary falls into it.
`SoundAccount` therefore relates each admission to the window that counted it;
`SoundIsBounded` counts an injective rank of them.

The mirror of the model configuration, for any number of boots that sync at once:
`MirrorTypeCorrect` and `BootReportsHold`. `LocksCover`, `ScanIsCurrent` and
`ReportHolds` follow what each sync has locked and read until another commits in
between.

`ApiImplementsParts`: a behaviour of the checked composition `ApiSpec` is one of each of
its parts, so every theorem here, in `AdminAccessProofs`, in `AnswerRunProofs` and in
`EvidenceProofs` holds of the process as it is checked; `ApiTypeCorrect` is the first.

### `AnswerRunProofs`

One run of the pipeline, for any number of candidates, retries and re-reads:
`RunTypeCorrect`, `TraceTold` (every paid attempt is in the trace once, in order) and
`AssertionsVetted`. An attempt goes to the trace, to the chain of the call under way or
to its candidate's list, and what is inductive is the three together (`SoundTrail`),
with where a call stands in its stage (`CallAtStage`) and what the later stages may
assume of the draft (`DraftAtStage`).

### `OperationsProofs`

Backups and restores, for any users, runs and days, and a finite set of users:
`BackupTypeCorrect`, `ProofBacked` and `RestoreFaithful`. `UsersAccounted`,
`SnapshotsOfRuns`, `RecordHolds` and `RestoreHolds` follow a snapshot from the run that
made it to the restore that uses it. Deploys and migrations: `DeploysKeepBackups` (a
`ReleaseSpec` is a `BackupSpec`: a deploy only reads what backups write),
`ReleaseTypeCorrect`, `TreeMigrated` and `TreesProven` (the action property
`OnlyProvenTrees`). `LedgerHolds` says that the ledger has no hole, and none once the
files a run of up still holds are added (`NoHole`); `ArtifactHolds` and `DeployHolds` follow the
artifact, which another deploy may swap in.

The corpus, for any editions, archives and numbers of passes and pilots:
`IngestTypeCorrect`, `BookSearchable`, `NarrationsApart`, `RerunsConverge` and
`OnlyRefusedGo` (the action property `OnlyRefusedChainsGo`). `PassHolds` says how far a
pass is, and that the rows behind it are the edition's and embedded. The pilot writes
children and chains in separate statements and may stop between any two, so `ExtrasHold`
is about what any number of stopped runs leave, and `PilotHolds` about what the plan of
the present one may assume of it. The hard part is that the ordinals of a plan are
distinct and each free or the text's own already (`OrdinalsFit`), which needs that `n`
runs never fill more than `n` times the texts there are (`Room`), and that the deletion
of stale chains leaves those of the plan (`DeleteLeavesThePlan`). For the chains,
`RepresentativeIsKin` shows that the representative of a row is in the row's lineage: in
any set closed under joining, the first row of the group joined none, so it started the
group. `ChildIs` says what the child of a chain is, and the representative's own match
then gives `Attributed`.

`HostImplementsParts` and `HostTypeCorrect` do the same for the composition, from
`HostAssumption`: the record's first run is one of the runs.

### `WebProofs`

The chat page, for any users, conversations, turns and mounts: `PageTypeCorrect`,
`FinishedStay` and `TranscriptsKeep` (the action property `TranscriptsLoseNothing`).
`WebInv` says what late news still covers: every conversation named anywhere has begun
(`Named`), at most one turn of a mount is under way (`TurnsHere`), the page owes only
what was answered (`Owed`), no count in hand is ahead of the page's (`Epochs`), a 404 in
hand is about a conversation that is lost (`Lost`), and a transcript asked for by this
mount holds what the page owes and the turns it finished before (`Fresh`).

What the return of the composer rests on: `BusyMeansATurn` (a busy page has a turn of its
present mount under way) and, where the query library cancels what the page leaves
(`Cancels`), `WaitingHasAWayOut` (a page that waits for a transcript has a request of its
own or may make one). `Composer` is the invariant: a request under way is this mount's,
for the conversation on screen, and once the mount has recovered, that recovery is under
way, has brought the mount's own result, or has failed.

Storage, for any tabs, keys and conversations: `ConsentHonoured` (the action property
`ConsentIsHonoured`), from `ConsentInv`: a recorded refusal leaves nothing in
localStorage, whichever tab writes; and `ConsentTypeCorrect`, with `ListNamesOnce`: the
list of conversations names none twice and keeps to its cap. `WithoutLeavesAList` carries
it: the positions that a removal leaves, counted in order (`PlacesTaken`), are those of a
list. `WebImplementsParts` and `WebTypeCorrect` are about page and storage together.

### `EvidenceProofs`

Citations, for any corpus, contexts and drafts: `GateTypeCorrect` and `CitationsHonest`.
The key lemma is `GroundedAsRead`: what grounds a citation in the gate is what its reader
takes it for. It needs that the numbers written into a label have a least and a greatest
(`WrittenBounds`, by a minimal counterexample). `GateInv` adds that the
evidence recorded is that of the rows carried, though an upsert may rewrite them
meanwhile, and that a delivered text has no ungrounded citation.

Searches, for any filters and numbers of sub-queries: `SearchesReconstructible`.
`Unsettled` says what the probes before the first conclusion were; after it nothing is
relaxed, and `AppendTells` extends the trace event by event.

The context of a retrieval, for any corpus, question, hits and budgets:
`RetrievalTypeCorrect` and `ContextTellsCuts`, from `RetrievalAssumption`: the corpus is
finite, a verse's ordinal is within its surah, and there is a sub-query (`retrieve`
returns at once when there is none). `OrderedByLists` is what every read rests
on: rows in a total order are listed once each, `AmongLists`, `ChildrenLists` and
`AroundLists` are its uses, and `LeadingTakes` says that a read that was cut left a row
out and that one that was not left none. `ContextInv` adds to the property what the reads
after may assume: which origins a phase can have brought (`InTurn`), and that a
completion that was cut has used the budget up (`CutsHold`), without which a later
completion would make its event untrue. The neighbours are the counting argument: a limit
of the budget, the rows in context and one more cannot be used up by rows the context
holds already, so that an uncut read has seen every neighbour. `CallerFirst` shows that
the last step only reorders.

The evaluation client, for any Golden Set the contract allows, sample size, cap and
hold-out:
`EvalTypeCorrect`, `LedgerAgrees` and `GreenEarned`. `RankReached` and `FilledIs` say
what the round-robin sampling fills, `EvalInv` what each phase of the client may assume
of the results, the ledger's row and the report.

## What is only model-checked

* Liveness under fairness (`ErasuresEnd`, `ExpiredAreReclaimed`, `RetentionIsKept`,
  `ComposerReturns`, `BootsToServe`): out of the prover's reach. Of `ComposerReturns`, the
  two invariants it rests on are proved (see `WebProofs`); of `ExpiredAreReclaimed`, what
  a job that commits has taken is (`OverdueGoWhole`).

Every invariant and every action property that a passing run checks is proved.

Induction over data is not available to the provers, so where a definition is about
sequences the modules describe them by their positions; the facts proved are about every
length.

## Not modelled

* The transcript read (`GET /v1/chat/sessions/:id`) beyond what the page sees of it: a
  query without an effect.
* The corpus parsers and the identity of a hadith text: pure functions on text, which
  the ingestion takes as given.
* The restore drill: a linear script over a throw-away cluster. What it compares is in
  `Backups`.
* The arithmetic of the reported evaluation figures, and the benches: no state.
* Wire contracts, rendering and wording, the repository's own tooling.
* The pool of ten connections: nothing in the code tells one connection from another, and
  a wait for one is bounded by a timeout of the driver.

## What is left

Of the passing runs, only the liveness properties have no proof. Beyond them, the parts
under *Not modelled* are what a further module would be about; the restore drill, which
runs a real restore against a throw-away cluster, would be the first.

