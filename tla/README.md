# Specifications of Sulion

Sulion runs terminal sessions with coding agents on a server and shows them in a
browser: a terminal per session, a timeline made from the transcripts the agents
write, the state of repositories, and secrets that are lent to a terminal for a
while. This directory holds TLA+ models of the parts of the backend where steps
of several tasks, requests and processes meet, the TLC configurations that check
them, and TLAPS proofs of the main results. Paths below are relative to
`src/backend/src/` unless they begin with another directory of `src/`.

## 1. Inventory

| Component | State | Operations | Interacts with |
|---|---|---|---|
| Transcript ingester (`ingest/ingester.rs`, `ingest/file_scan.rs`) | `events`, `claude_sessions`, `ingester_state`; the locals of one polling task | scan, read, insert a line, commit an offset, rebuild | reads the agents' JSONL files; the only writer of events |
| Canonical events (`ingest/canonical/`) | none | a record of either agent into one event with its blocks; tool names and inputs into one vocabulary | called by the ingester and by the repair |
| Timeline projection (`ingest/timeline/`, `ingest/projection/`) | `timeline_turns` and its children, `timeline_session_state.revision` | full and incremental rebuild: grouping in turns, tool pairs, chunks, document, signals, subagents, file touches | called by the ingester, by reindex and by startup maintenance; read by routes |
| Timeline views (`ingest/projection.rs`, `src/frontend/src/components/TimelinePane.tsx`) | what the browser holds: a list under a revision, a detail under a fingerprint | poll, read the list, read the detail, filter | read the turns while they are replaced |
| PTY manager (`pty.rs`, `secret_pty.rs`) | `pty_sessions`; the map of live sessions; child processes | spawn, list, delete, mark dead, reconcile at startup | routes, terminal streaming, secret broker |
| Agent runtime (`agent.rs`, `correlate.rs`, `api/session_routes.rs`) | `agent_runtime_*` columns; the launcher process in the shell | start request, reports "running" and "exited" over a Unix socket | the row of the session, which the PTY manager also writes |
| Terminal streaming (`api/ws.rs`, `emulator.rs`) | shadow emulator, broadcast channel, two tasks per connection | attach with snapshot, forward output, take input and resizes | reader task of the PTY, browsers |
| Secret broker (`secret_broker.rs`, `credential_helper.rs`) | secrets, grants, public keys of PTYs, nonces, audit table | put, delete, unlock, revoke, register and revoke a key, redeem | browser, PTY manager, the wrappers `with-cred` and `aws` |
| Workspaces (`worktree.rs`, `api/workspace_routes.rs`) | `workspaces`, `workspace_dirty_paths`, worktrees and branches in Git | ensure main, create, delete, reconcile | sessions are created in a workspace; deletion counts them |
| Repository state (`repo_state.rs`, `git.rs`) | `repo_runtime_state`, `repo_dirty_paths` | scan, reconcile when due, request a refresh | file and Git routes request refreshes |
| Reindex and maintenance (`ingest/reset.rs`, `ingest/maintenance.rs`, `ingester.rs`) | the derived columns and tables, `ingest_projection_versions` | clear, fill in the canonical columns again, rebuild the turns, mark the versions | a reindex runs beside the ingester, the maintenance before it |
| Codex lineage, compaction, facts (`ingest/ingester.rs`, `ingest/metadata.rs`) | `parent_session_uuid`, `agent_session_metadata`; the context a pass carries | read the context back, complete a record from it, set the parent once, follow the chain of ancestors | timelines of ancestors show events of their descendants |
| Future prompts, library (`future_prompts.rs`, `library.rs`) | one Markdown file per entry | create, update, delete, list | routes |
| Container runner (`container_runner.rs`) | none | filters a docker command line and runs it | wrapper in the PTY |
| Browser application (`src/frontend/src/`) | tabs in local storage; what was polled last | open, move, rebind tabs; reconnect | all routes, the WebSocket |

What is hard in it, with the lines, is the list of hazards in `PROJECT.json`.
In short:

* **No lock spans two statements.** Almost every operation is a sequence of
  awaits (a query, a Git command, a broker call, a signal) and each may be
  followed by a step of anything else. State read before one is used after it.
* **Requests are dropped.** When a client hangs up, its handler ends at its next
  await and nothing it has done is undone.
* **The backend dies** between any two statements, and its shells die with it.
* **Reports are late, lost or doubled**: those of agent launchers, with a
  timeout of 750 ms, and the signed requests of the wrappers.
* **Readers are slow**: a browser that does not read must not hold up a shell.
* **Files are written while they are read**, cut off anywhere, truncated, or
  replaced.

What makes each component correct:

* *Ingester*: every complete record becomes one row, at its byte offset and
  unchanged, in order; the committed offset stays on a line boundary and never
  passes a record that is not stored; what is stored survives a rotated file.
* *Projection*: an incremental rebuild gives what a full one would; a timeline
  is never torn; what is shown of a turn in two forms tells the same.
* *Lineage*: what a record means does not depend on which pass came to it; who
  the parent is is not forgotten; a parent's timeline has its subagent's log.
* *Reindex*: no row stays without its columns; the timeline is complete again.
* *Views*: list and open turn are the timeline of one moment.
* *PTY manager*: a row only moves forward; a live row is supervised; a deleted
  session has no shell; a session that is over has no usable key.
* *Agent runtime*: the row shows an agent exactly when one runs.
* *Terminal*: a client sees the output in order, and "dead" last; nobody delays
  the emulator; no task is left over.
* *Broker*: a signed request is redeemed once, all of its use is audited, and a
  locked secret is unlocked by a new grant only.
* *Workspaces*: no worktree is removed from under a session; no work is lost
  unless a request forces it; a deleted workspace is off the disk, and stays
  deleted. (The first and the last are not so: section 6.)

`PROJECT.json` lists every component, with the reason where it is not modelled.

## 2. Modules

```
TurnGrouping <- Ingester <- IngesterProperties <- MCIngester
     ^                          |     ^
TurnGroupingProofs       TranscriptLog  IngesterProofs (uses TurnGroupingProofs)

PtyLifecycle <- AgentRuntime <- PtyProperties <- MCPty, PtyProofs
Terminal <- TerminalProperties <- MCTerminal, TerminalProofs
SecretBroker <- SecretBrokerProperties <- MCSecretBroker, SecretBrokerProofs
Workspaces <- WorkspacesProperties <- MCWorkspaces, WorkspacesProofs

CanonicalEvents <- CodexLineage <- TurnProjection <- TimelineStore <- TimelineProperties <- MCTimeline
                                                                             ^      |
                     TimelineProofs ----> TurnProjectionProofs --------------+      |
                                                            TurnGrouping (INSTANCE) +
```

A component's module has its state and one action per statement, handler or step;
its `...Properties` module what it promises; `MC...` the instances for TLC; the
`...Proofs` module the theorems. A definition commented `Mutant:` is a plausible
wrong version of the definition it stands before. No action uses it; it is there
to show that a property can tell the difference.

### 2.1 TurnGrouping, Ingester, TranscriptLog

One task polls. `Scan` is `dirty_transcript_files`; for each dirty file
`process_file` is `OpenFile` (or `ResetOffset` when the file is shorter than the
committed offset), then for each line `InsertEvent` or `SkipLine`, then
`CommitOffset`, and when a row was new `LoadProjection` and `CommitProjection`,
the read and the write of `rebuild_session_projection_after_insert`. Every
statement or transaction is an action; `SkipFile`, `InsertFails`,
`CommitOffsetFails` and `RebuildFails` are their error paths as the code
handles them: logged, or returned to the loop. `Crash` is the
end of the process, or a panic of the task, at any point, and the restart by
`run_ingester_supervisor`: the locals are lost, database and files stay.

A file is a sequence of bytes of three sorts: a byte of `Openers` begins a
well-formed record and is its kind, `NL` ends a line, any other byte (`Filler`)
continues a record. That is what the ingester's control depends on: where lines
end, and whether a line parses. An agent appends any of `Chunks`, so that
the last line may be incomplete; `Replace` puts a different file in its place.
Timestamps matter in their order only. That of a record is the `version` of the file
it was read from: an agent stamps what it appends in order, and what stands in a file
that was written anew is later than what was stored from the one before. A file that
is truncated is taken as such a file too.

`TurnGrouping` has the cut of a session's events into turns (a prompt of the user
starts one) and the two ways to rebuild them. A full rebuild takes all events in the
order of their timestamps, then of their offsets (`GroupInTime`, which is
`load_projection_source_events`). An incremental one has an anchor, the turn into which
the first new offset falls; the events at offsets from there on are read, in the order
of the offsets, and their turns numbered on (`SuffixPlan`). `ApplyPlan` stores either. `TranscriptLog` is the abstract specification: records are
written at growing offsets and the log takes over, in their order, every one that
the database does not refuse. `IngesterProperties!Log` instantiates it with
`written` := the records of the file, `stored` := the rows and `refused` :=
the offsets whose insert failed, which the code only logs.

### 2.2 PtyLifecycle, AgentRuntime

Four things are known of a session: its row, its entry in the manager's map, its
shell and its key at the broker. `spawn()` is `RegisterCredential`,
`StartShell`, `InsertRow`, `AdoptSession`; the supervisor task is `Reap` and
`mark_dead`'s `Unmap`, `RecordDead`, `RevokeAfterExit`; `delete()` is
`BeginDelete`, `EnsureGone` (SIGTERM, the wait, SIGKILL), `RecordDeleted`,
`RevokeAfterDelete`; `Crash` and `Restart` are the death of the backend and
`reconcile_orphans_on_startup`. `Abandon...` is a dropped request or a
failed statement. An interactive shell ignores SIGTERM, so that `EnsureGone` is the
only thing that ends one.

`AgentRuntime` extends it with the launcher in the shell (`Launch`, `RunAgent`,
`AgentEnds`, `Leave`), its reports on the wire (`ApplyReport`, `ReportLost`) and
`start_session_agent` (`CheckStart`, `MarkStarting`, `TypeCommand`,
`ReadCommand`). The two are composed in `Next`: a step of the PTY comes
with `AgentsFollow`, which says what it does to the agents (no launcher outlives its
shell), every other step leaves the PTY variables it does not name alone.

`Mishaps` says what may go wrong in an instance:

| Mishap | Meaning |
|---|---|
| `crash` | the backend dies |
| `hangup`, `hangup_create` | the client of a DELETE or start, or of a create request hangs up |
| `db`, `broker` | a statement, or a call of the broker, fails |
| `eager` | a client acts on a session while `spawn()` is not done with it |
| `early` | the launcher reports before the row is inserted |
| `slow` | a report times out or is lost, and the launcher goes on |

### 2.3 Terminal

Chunks of output are numbered. The emulator and the broadcast channel are
therefore counters (`screen`, `sent`), a snapshot is the number of chunks in it,
and a receiver is the number of the next chunk it would give; it skips to the
oldest one the channel still holds (`Oldest`) when it lags. The reader task is
`Read` (into the emulator), `Send` (broadcast), `ReadEnds`. A connection is
`Attach`, `TakeSnapshot`, `Subscribe`, then the outbound task (`Forward`,
`TellDead`) and the inbound task (`InboundEnds`, `InputFails`) until `HandlerEnds`.
`Open` says who holds a sender: the reader task, and the session as long as the
map or a handler has it. Browsers go away (`Disconnect`) or stop reading at
any point, and the test hook may drop a socket (`DropSocket`).

### 2.4 SecretBroker

Clocks: `Tick` moves one clock that stands for those of broker, database and
terminals; a wrapper's clock may be ahead by up to `Window`. `Register`,
`RevokeCredential`, `Put`, `Delete`, `Unlock`, `RevokeGrant` are the routes, one
transaction each. `Sign` is the wrapper: it signs a request once, and the
request may then be delivered to any number of tasks of the broker. A
delivery is `Check` (timestamp, key, signature), `Purge` of old nonces, the
`INSERT` of its own (`Accept` or `RefuseReplay`), the `SELECT` over grants and
secrets (`Load` or `RefuseRows`), one `Audit` per secret and `Answer`; after
each it may end (`Abandon`). Bundles are the sets of their variables' names,
which is what the conflict check looks at.

Signatures are ideal: a message that is accepted is one that was signed. The
module assumes `Stall + 2 * Window <= Retention`, where `Stall` bounds the time
between the check of a timestamp and the `INSERT` of its nonce. In the code
`Window` is 60 s, and nonces are kept for five minutes, which leaves three minutes
for `Stall`; the pool gives up on a connection after 10 s (`db.rs`).

### 2.5 Workspaces

A workspace is known in three places that nothing keeps in step: its row (`row`,
and `named` for `branch_name`), the disk (`tree`, `head`) and the repository
(`registered`, `branches`, and `ahead`: which heads have commits that are not in
`base_sha`). A session is created in a new workspace by `AddWorktree`, `InsertRow`,
`LoadCreated`, or in an existing one by `ResolveExisting`; then come `StartShell` and
`InsertSession`, which are `spawn()` seen from here. A shell edits, commits and
switches branches. `delete_workspace` is `BeginDelete` (the row is loaded, and with
it the branch that may be deleted), `CountSessions`, `CheckStatus`, `CheckBranch`,
`FindWorktree`, `RemoveWorktree`, `DeleteBranch`, `CommitDelete`; each of them
may refuse, as the code or Git does. The reconciling task takes a batch of active
rows (`LoadDue`), looks whether the directory is there (`LookAt`), then either
marks the row (`MarkMissing`) or reads the status and writes it (`ReadStatus`,
`CommitStatus`), which includes the branch.

`session` and `delete` are slots: a session or request that is over leaves its slot
free for the next one, so that there may be any number of them over time.

| Mishap | Meaning |
|---|---|
| `hangup` | a request is dropped, or a statement of it fails |
| `crash` | the backend dies; live sessions are orphaned when it is back |
| `vanish` | someone removes a directory by hand |
| `git` | a Git command of `read_status` fails, which reads as "clean" and "no branch" |
| `detach` | someone commits on a detached HEAD in a worktree |
| `race` | a session is created in a workspace while a request deletes it |

A session whose creation is dropped, or that is deleted, takes its shell with it
here. `PtyLifecycle` has the cases in which it does not.

### 2.6 CanonicalEvents, CodexLineage, TurnProjection

Three modules of operators, without state, each a layer over the one before.
A record is a record of TLA+ with the fields the code reads; a text is a value, a
text put together from others the sequence of them, a path its components.

`CanonicalEvents` is `ingest/canonical/`: `ParseClaude` and `ParseCodex` make of
a record one event with speaker, kinds of content and blocks; `CanonicalToolName`
and `CanonicalToolInput` translate the tools of both agents, with the edits in a
patch and the cases in which a key, an id or a text is missing.

`CodexLineage` is what `ingester.rs` adds to a Codex record: `UpdateContext` walks
along a transcript, `LoadContext` reads the same back from the rows with two
queries, `Enrich` gives a record its identifier, the event it belongs to and the
sidechain flag; `DetectParent` says which session it continues (for Claude Code: a
compaction) and `MetadataKeys` which facts about the session it carries.

`TurnProjection` is `ingest/timeline/`: `SessionProjection` cuts the events into
turns and makes of each (`ProjectTurn`) its tool pairs, chunks, document, preview,
signals, the log of a subagent and the files it touched; `FilterChunks` is the filter of
a view. `ProjectionPanics` tells the texts on which the code would panic.

### 2.7 TimelineStore

The tables between a transcript and the browser, and the three processes that
meet in them. `Ingester` knows of a record only where it begins; here a record
is all of its content, a file is a sequence of whole records, and offsets are
committed in records.

* The pass: `OpenFile` (row of the session, context read back), for each record
  `InsertRow` or `InsertFails`, then `AddFacts` and `SetParent`, which are the three
  statements of `insert_event`; `CommitOffset`; and for the session and, with
  Codex, its ancestors `LoadProjection`, then `StoreProjection` or `StoreRefused`.
  `Panic` is a projection that panics: the supervisor starts the pass again.
* The repair: `ListSessions` and `Clear` begin a reindex, `StartMaintenance` the
  maintenance after an upgrade, which runs before `StartIngester`. Both go on to
  `FindBare`, `WalkSession`, `WalkRow`, `SessionWalked`, `Walked`
  (`backfill_canonical_blocks`, row by row, each with the context of the rows
  before it) and `FindMissing`, `LoadRepair`, `StoreRepair`, until `RepairEnds` or
  `RepairFails`.
* The view: `Poll` learns of a new revision; `ReadTotal`, `ReadRows`, `ReadBadges`
  are the three statements of the list, `ReadTurn`, `ReadOperations`,
  `ReadTouches` those of the open turn.
* `Write` is the agent, `LinkSession` and `Correlate` are the two statements of
  `correlate::apply`, `Crash` the end of the backend, `HangUp` a dropped
  reindex. `Mishap` says which of these may happen in a story, and counts them.

A *story* (`story`, one of `Stories`) is what the agents write, what an earlier
release left of it, and what may go wrong. `WellFormed` says which stories are
assumed: rows are a prefix of what is written, records start at growing
offsets, the parts of a message are a list, timestamps are numbers, and `KindsAgree`,
that the kind a row is stored under tells what `update_codex_context` makes of its
record: an agent does not write an `event_msg` of subtype `session_meta`, say. There
are finitely many `Sessions`, and no session has the id `Nil`, which is no number
either: it is the NULL of a column.

## 3. Runs

All runs pass but the four marked *violation*, which show that the program does
not do what a comment, a test or a page of its documentation says (section 6).

| Run | Asks | Instance |
|---|---|---|
| `IngestMishaps` | types; boundary; rows are records; nothing skipped; timeline never torn; a committed rebuild is complete; every record is stored or refused in the end; refinement of `TranscriptLog` | 1 session, files of up to 6 bytes, 2 mishaps of any kind but replacement; fair |
| `IngestRotation` | rows survive a replaced file; between ticks every stored prompt begins one turn and lies in no other | up to 4 bytes, 2 replacements |
| `IngestCrashShown` | *violation*: after a crash the timeline catches up | 1 crash |
| `PtyMishaps` | types; rows move forward; no agent after the end | 1 session, 2 deletes, 1 start, 2 agents, all mishaps |
| `PtyOrderly` | live rows are supervised; a delete ends the shell; no phantom agent; a running agent is recorded; an exit reaches its row; keys are revoked while the backend stays up | 1 session, 2 deletes, 2 agents; crash; fair |
| `TerminalStream` | order of the stream; dead is last; the emulator is fed; tasks end | 2 clients, channel of 1 chunk, 2 chunks; fair |
| `TerminalDead` | *violation*: an attached client is told that the PTY is dead | 1 client that reads |
| `Redemption` | types; redeemed once; audited; stays locked | 1 PTY, 2 secrets, 1 request delivered twice, 2 grants, 4 ticks |
| `WorkspaceMishaps` | types; only force loses work; deleted is off the disk | 1 workspace, 2 sessions and 2 deletes at a time, any options; dropped requests, crashes, removed directories, failing Git |
| `WorkspaceRaced` | *violation*: no worktree is removed while a live or orphaned session is bound to it | 1 workspace, 1 session, 1 delete; `race` |
| `WorkspaceRevived` | *violation*: a deleted workspace stays deleted | 1 workspace, 1 session, 1 delete, no mishap |
| `Timeline` | types; a row means the same whoever parsed it; columns, lineage and facts are taken over; between passes the turns are those of a full rebuild and those of `TurnGrouping`; conversation and document of a turn agree; a timeline does not depend on the agent; a subagent's words are in its caller's timeline; the view is of one moment | 2 sessions, 356 stories, 2 mishaps |

**Why the bounds are enough.** *Ingester*: what the task does to a
session depends only on that session's file, rows and offset, and it handles one
file at a time, so one session shows what can happen to a file; the proofs are
for any number. Six bytes hold a record, a blank line, a malformed line and the beginning
of another record; two mishaps are enough for a replay that meets another
one. `MaxMishaps` bounds the count of mishaps and `MaxLen` the length of a file.
*PTY*: sessions meet only in `up`, which a crash clears for all of them alike, so that one
shows what can happen to any; the proofs are for any number. Two deletes race each other as well
as the supervisor. Nothing is counted, so the state space is
finite without a bound. *Terminal*: with a capacity of one, any chunk that is
not read at once makes a receiver lag; `MaxOutput` is the bound. Clients
meet only through the reader task. *Broker*: with `Window` 1, `Stall` 1 and `Retention`
3 the assumption holds with equality, so that a nonce kept one tick less would be
one too few, and four ticks take a request from the earliest to the latest moment
at which it passes the check. `MaxTime`, `MaxGrants` are the bounds.
*Workspaces*: workspaces share nothing but the batch of the reconciling task,
which handles one row at a time, so one workspace with a batch of one shows what
can happen to any. Two deletes race each other, the reconciling task and the
sessions; two sessions are one that holds the workspace and one that comes or
goes. Nothing is counted. Slots are alike and swapped by symmetry.
*Timeline*: a story is 13 scenarios and all 343 sequences of three
records of seven shapes (prompt, blank prompt, text, thinking, call, result,
bookkeeping). The scenarios are one for each of: a sidechain; a compaction; Codex turns
read in one, two or three passes, repaired, or reindexed meanwhile; rows
of an earlier release; a caller and its subagent in files of their own, with equal
and with different offsets; one conversation told by both agents; a text that panics;
a late link to the PTY; an open turn that grows, or goes in a reindex. Two mishaps are
enough for a reindex and the loss of its request. Three records are enough for
what the fold of a turn carries from one event to the next (what is pending, and
whether a result was seen), two sessions for lineage; a chain of three is left
to `AncestorChain` itself. `MaxMishaps` bounds the mishaps; the proofs are for any number.

Deadlock is checked for the ingester, whose poll loop never ends. It is not for the
others: sessions, connections, deliveries, the ids of workspaces and the records of a story
come from a finite supply and end.

**Fairness.** `Ingester!FairSpec` has weak fairness of the task's own steps: its
loop catches every error and `main.rs` restarts it when it ends. Agents and
mishaps are not fair. `PtyProperties!Fairness` has it for what the runtime
schedules: the rest of `spawn()` after the row, the supervisor, the steps of a
delete request (bounded by its grace period) and the restart of the backend by
its container. A shell may run for ever, and a client need never send a request.
In `Terminal`, the reader task and the end of a handler are fair, since the runtime
schedules them and nobody outside can hold them up. A write to a socket is fair only once
the connection is gone, when it fails: a browser that does not read may block
its outbound task for as long as it stays. The inbound task is fair only once the
PTY is over, since it may wait in a full input queue before. `ReadingSpec`
adds that browsers read; it is used for `TerminalDead`, where the client is not
at fault. `TimelineStore` states no fairness: that a pass comes to every record is
checked in `Ingester`, and what is claimed here is claimed of the moments between passes.

## 4. Proofs

The proofs hold for all values of the constants that meet the `ASSUME`s of the
modules. Each follows the same scheme: an inductive invariant, one lemma per
action or group of actions that keeps it, and a last step in temporal logic.

* **`TurnGroupingProofs`**, `IncrementalRebuildIsFull`: if the stored timeline
  groups the events below some offset, replacing its turns from the anchor on
  gives the grouping of all events, provided that times rise with offsets
  (`TimesRise`): only then do the two ways to rebuild take the events in the same order
  (`TimeOrderIsOffsetOrder`, by way of `SortedEvents`). Without that,
  `RebuildFromFirstIsFull` says of a timeline which groups any set of events that
  leaves out none before the first inserted one: a rebuild yields the grouping of all
  events by offset or that by time, and nothing in between. `StartsBelow`, `StartsFrom`, `TurnBelow` and
  `TurnFrom` split the grouping at the anchor; `SuffixReplaced` is the step that both
  share: whatever the old turns were made of, it is enough that those below the
  anchor are turns of the new events as well.
* **`IngesterProofs`**. Under `AppendOnly` (no replaced files), `Invariance`
  is `IInv` with `OneVersion`, which says that all rows are of one version of their
  file, so that their times rise with the offsets (`TimesOfOneVersion`). None of the
  properties is inductive by itself. That the
  offset is at a boundary needs that the cursor is (`ViewFaithful`); that
  nothing is skipped needs that every record before the cursor *and before any
  stored row* was decided (`InOrder`), since a crash leaves rows beyond the
  offset; that the timeline is not torn needs that a rebuild runs only when all rows
  are behind the offset (`RebuildReady`). `QueueFaithful` says that the
  offsets the scan took are still those of the database, which makes
  `ResetOffset` impossible. From `IInv` follow `Boundary`,
  `NoRowInvented`, `NoRecordSkipped`, `TimelineNeverTorn` and
  `CommittedRebuildIsFull`. `Refinement` shows every step to be a
  `Write`, a `Store`, a `Refuse` or a stutter of `TranscriptLog`: by `CursorIsDue`,
  which is `InOrder` at the cursor, the task is always at the record whose turn it is.
  When files are truncated or written anew, the boundary, the rows and the order
  are those of another file and `IInv` is lost. What is left is proved without
  `AppendOnly`: `Types` and `NoRowLost` under every mishap, and `PromptsKeepTheirTurns`
  from `RotationInv`. Two parts of it carry the argument: of the session being read,
  only prompts which this pass inserted may lack a turn, and none of them lies before
  `first` (`PromptsKept`); and a plan that was loaded has a turn for every prompt from
  its first turn on (`PlanCovers`). That the anchor lies at or before `first` is what
  makes a replaced suffix take in all that the pass has inserted, in either order:
  `OffsetGroupsTell` and `TimeGroupsTell` say that a grouping has a turn for each prompt and
  that no turn runs across one. It assumes `PassesComplete` (no `crash`, `rebuild`
  or `set_offset`): who is stopped between an insert and the rebuild leaves a timeline
  behind that no later pass is told of, which `IngestCrashShown` shows. Of events that
  are no prompts the like is false (section 5).
* **`PtyProofs`**: `Types`; `Lifecycle` and `NoAgentAfterEnd` under every mishap.
  `Supervised` without hang-ups of create requests and failing statements; `Gone` under
  `Orderly`. Their invariants are `RowInv`, which ties a row to the progress of
  `spawn()`, and `ReachInv`: a shell that runs is in the map, or someone is about
  to end it. `NoPhantom` and `RunningShown` follow from `ToldInv`. A launcher has at
  most one report under way, the one it waits for (`LauncherInv`), and once that was
  delivered the row says what the launcher is doing (`TellsInv`); before there is a row
  the launcher of a session created with an agent has not reported yet, and after a
  crash there is none (`DownInv`). They assume `Answered`: no start requests, and none of
  `early` and `slow`, with which a launcher reports before the row is there or goes on
  without an answer. Without that they are false (section 5); crashes,
  broker failures, hang-ups, failing statements and eager clients are allowed, also
  those that `PtyOrderly` leaves out.
* **`TerminalProofs`**: `Types`; `InvAlways` is `TerminalInv`: the reader is at most one
  chunk ahead of the channel (`ReaderInv`), a client's stream lies below its
  receiver's position (`StreamInv`), and who was told of the end has an outbound task that is over and a
  channel with nothing left (`DeadInv`). `InOrder` and `DeadLast` follow.
* **`SecretBrokerProofs`**: `Once` rests on `NonceInv`. An accepted message has
  a nonce until its deadline, the last moment at which a delivery that passed the check
  can still be at work; the assumption on `Retention` is what a `Purge` needs to keep it.
  `Audits` and `Locked` have small invariants of their own (`AuditInv`;
  `GrantsInv`: no grant without its secret).

* **`WorkspacesProofs`**: `DeletedHasGone` holds under every mishap; its `GoneInv`
  says of a delete past `RemoveWorktree` that the worktree is gone already.
  `WorkIsKept` assumes `OnBranches` (no `detach`) and `Exclusive` (no `race`). Nothing in
  the code provides the latter, and `WorkspaceRaced` shows what happens without it; what is
  proved is that the checks before the removal are enough against everything else: a
  second delete, the reconciling task and the stale branch name it writes, dropped
  requests, a restart. `AloneInv` is that who has passed the count is alone in the
  workspace until it ends, and `KeptInv` adds that the branch that was checked has
  nothing of its own until it is deleted.

* **`TurnProjectionProofs`** is about the operators of `CodexLineage`, `TurnProjection` and
  `TimelineStore`, in one state. `ContextIsDetermined` says that the context with
  which a walk of the rows ends is the one `LoadContext` reads back. The walk is
  described by `Follows`: of each half of the context (the session with its parent, and
  the turn) it is `Known` which row it comes from. `KnownNext` and
  `FollowsNext` take one row more, `KnownGrow` and `FollowsGrow` a row that
  comes later. `ProjectedTurnsAgree` says of every list of events whose messages have
  blocks that the conversation (chunks) and the document (markdown) of each
  turn projected from it tell the same texts and the same calls. The two are made by
  different walks: the document takes a text or a call at once, the chunks
  hold items back until something ends their run. The
  induction over the events says that what the chunks have, with what is pending added,
  is what the document has.

  The rest of the module is about the rebuild of a suffix. `SeedsConcat` says that
  events cut where a turn starts have the turns of the two parts, `PanicsOfParts` that a
  part panics only where the whole does, `LastingSame` that what is to last of a turn
  is the same whatever other events it was projected with. `AnchorSplits` finds the cut: the
  turn that `projection_rebuild_anchor` takes is the last one below the first new event,
  its ordinal the number of turns before it. With `PlanMakes`, what is kept and what is
  projected anew make up the turns of all events. `SuffixIsRight` puts these together
  for the rows of a session: when the stored turns are those of the first *m* records,
  the plan after the insert of the records from *m + 1* to *n* leaves those of the first
  *n*; `FullIsRight` says so of a full plan.
* **`TimelineProofs`**: `Types` is `TInv`. `Parsed` needs that the rows of a session
  are those of its first records (`Prefix`), that the context of the pass and that
  of the walk follow the rows before them, and, after a crash, that rows which
  an earlier pass stored beyond the offset say the same; the insert is the hard step
  (`ParsedNew`, `ParsedAgain`). `LineageIsSettled` rests on `Settled`: no record
  that the offset or the pass has passed names a parent while the lineage is missing.
  `NoneLeftBare` is `BInv`: what is bare lies ahead of the walk. `TakenOver` adds
  the facts: in `FInv` nothing is stored beyond what was read, so that what is inserted is
  the last record, and each fact is that of the last record whose facts were added. It
  assumes `ParsesToEvent`, that a parsed record is not `Nil`. `ViewFresh` is
  `ViewInv`: what was read since the poll is of the polled revision, or that revision
  is over. `RenderedTheSame` takes `ProjectedTurnsAgree` to what is stored:
  turns are projected in one step and stored in another, with crashes,
  deletes and other writers in between, and a rebuild keeps turns below
  its cut. `RInv` therefore adds to `RenderingsAgree` that a plan under way is
  `Sound` and that the events of all rows that are not bare are `Borne`, that is, were
  made by the parser from a record of a transcript.

  `TurnsStayCurrent` says that between passes the turns of a session are those of
  a full rebuild, and those of `TurnGrouping` for its prompts (`GroupsTold`), for
  *plain* stories: nothing was stored by an earlier release and no record names a parent
  session. `CInv` holds of these as long as nothing went wrong. Its
  main part: the turns of the records up to the committed offset are `Made`, except in a
  session whose rebuild is due (`Waiting`), where those up to some earlier record
  are, namely the one before the first that the pass inserted (`FirstNew`); and a plan
  under way is `Right` although rows and links come in meanwhile (`PlanLoaded`). Each part is of
  sessions in the order of time whose turns can be projected, which a session can cease
  to be but not become by what is added to it (`GoodBack`): a rebuild that panicked is of a session
  of which nothing is claimed again.

Those of the timeline are for any sessions, stories and number of mishaps, under
`WellFormed`.

Only model-checked:

* everything under fairness (`EveryRecordStored`, `ExitIsRecorded`,
  `CredentialIsRevoked`, `EmulatorFed`, `TasksEnd`): TLAPS does not reach `ENABLED`;
* `TurnsAreCurrent` of stories that are not plain. It is not true of every story that
  `WellFormed` allows: a startup repair that fails at one session leaves those behind it
  in its queue as they are, and the rebuild of a subagent with a parent of Claude's does
  not rebuild that parent. `Calm` excepts what the instances can meet. Of the 356 stories
  of the instance seven are not plain;
* `AgentAgnostic` and `SubagentShown`: each compares what the whole program makes of one
  particular pair of transcripts. They are statements about the stories of the instance;
* of `ViewIsCurrent` the second half, `DetailIsOfItsSummary` (the first is
  `ViewFresh`). It is no consequence of how the detail is read: a fingerprint does not
  determine a turn, for the touches of its files are not in it. It holds of the
  stories, in which two turns with one fingerprint differ in logs only.

## 5. What is not modelled

Inside the modelled components: two files of one session uuid; labels, pins and
colours; input and resizes of a terminal; prompting and interrupting an agent; values
of secrets and their encryption. Reuse of process ids is not modelled, a shell is its
own process. Of the timeline: the timeline of a repository, which concatenates those
of its sessions, the trace of a file, the filter by file path, labels of sessions, wording,
truncation and the text of diffs; a terminal whose current session changes to one with an
equal revision, which the browser, whose list is keyed by the revision alone, would
not notice; requests of a view that fail, for the list or for the detail, and what the
browser goes on to show; two repairs at once; cycles of parents, on which
`codex_parent_session_chain` would not end. A rebuild reads in one step
and both backfills take their lists at once. Rows of an earlier release are
reduced to rows without canonical columns. That `set_offset` fails is in `Ingester` only.
The components without a module are in the table of section 1 and,
with reasons, in `PROJECT.json`; the runner's filter, authentication and views have no
concurrency worth a state machine.

Known limits that follow from the code and that no run claims:

* Output broadcast between a client's snapshot and its subscription is in
  neither. `StreamInOrder` says what does hold.
* A record whose insert the database refuses is lost; `NothingSkipped` excepts
  it, in `dropped`.
* `mark_agent_starting` does not repeat the check made before it, so that with
  start requests the row may name an agent that does not run, until the next
  report. `NoPhantomAgent` and `RunningIsRecorded` are checked without them; what
  `PtyMishaps` shows with them is that no agent comes back in a session that ended.
* A launcher that reports before the row of its session is inserted is not
  recorded (`early`); nor is, until its next report, one that goes on without an answer
  (`slow`).
* A create request that is dropped after the `INSERT` leaves a live row without a
  session in the map and without a supervisor: `LiveIsSupervised` is violated with
  `hangup_create`. A DELETE or start request that comes between the `INSERT` and the
  map finds no shell (`eager`): `DeletedIsGone` and `NoPhantomAgent` are violated.
* Sessions orphaned by a restart keep their keys at the broker, and so does a session
  whose revocation the broker does not answer. `CredentialIsRevoked` speaks of a backend
  that stays up, and is checked with a broker that answers.
* A transcript that is truncated and has grown past the committed offset again by
  the next poll leaves the offset inside a line, although the head of
  `ingester.rs` says that it never is. `OffsetAtLineBoundary` is
  checked and proved for append-only files.
* A full rebuild sorts by time, an incremental one loads by offset. After a file was
  written anew, a record at a low offset is later in time than an old prompt at a
  higher one. The full rebuild puts it into the turn of that prompt, and the next
  incremental rebuild from that turn on drops it: it is stored and in no turn, until
  the session is rebuilt in full. For example, the file `NL P NL` is stored with the
  prompt at offset 1, then written anew as `R NL`, and then a prompt is appended.
  `PromptsBeginTurns` therefore speaks of prompts.
* A DELETE dropped in its grace period has taken the session out of the map, and no
  SIGKILL follows; the next one finds nothing to signal and marks the row deleted while
  the shell, which ignores SIGTERM, runs on. `DeletedIsGone` is checked and proved
  without such hang-ups and is violated with `hangup`.
* A session that is created in a workspace during a delete also loses what its shell
  changed or committed meanwhile, unforced: `OnlyForceLoses` is violated with `race` too
  (`WorkspaceRaced`, section 6).
* Commits on a detached HEAD go with the worktree, unforced (`detach`).
* `git_branch_exists` takes every failure of `git show-ref` for "no such branch". Were
  it to fail once, the check of the history would be passed over; `git` does not
  include that.
* The branch a delete removes is the one the reconciling task saw checked out last,
  which need not be the one made for the workspace.
* A creation that is dropped between `git worktree add` and the `INSERT` leaves a
  worktree and a branch without a row.
* Facts of a session are lost when the backend dies between the insert of a record and
  `AddFacts`: the replay finds the row. A crash there followed by a failing
  insert of the same record loses its lineage.
* A reindex removes the turns without a new revision, and it clears all sessions at
  once: a crash or a dropped request leaves rows without canonical columns until the
  next repair. Whether timelines are complete after a reindex during which records are
  stored depends on who commits last; `TurnsAreCurrent` claims it of sessions at rest.
* A record without a timestamp is stored as that of now, so that events may be
  out of order by time; an incremental rebuild then loses some (`InOrder`).
* Turns of a caller and of its subagent are told apart by the offset of their prompt,
  which is one in each file: when two are equal the rebuild is refused (`CanCommit`).
* A prompt in a sidechain opens a turn that list and document hide, and what follows it
  in the main chain goes with it until the next prompt.
* The result of a `collab_agent_spawn_end` overwrites the caller's model with that of the
  subagent.
* The preview of a turn is cut at a byte: within a character the projection panics. The
  ingester comes to the same turn again and again, and the maintenance at start
  takes the ingester with it.
* The log of a subagent grows without a change of the fingerprint of its caller's turn, so
  that an open turn does not show it; a detail read during a reindex is kept.
* A session that is linked to its PTY after its first records has no touches for them until
  a full rebuild.
* A relative path in a tool call is resolved from the root of the repository before
  the working directory is tried, where the name of a test in `file_touches.rs` says "working
  directory"; an absolute path with ".." is not cleaned.

## 6. Where the program differs from its comments

* `IngestCrashShown`: a crash (or a failing `set_offset`) between the inserts and the
  rebuild leaves the rows out of the timeline until another record is
  inserted: the replay inserts nothing and so rebuilds nothing.
* `TerminalDead`: the handler of an attached client holds a sender of the channel
  whose end its own task waits for; the client is never told.
* `WorkspaceRaced`: sessions are counted before several Git commands, and nothing keeps
  one from being created in the workspace meanwhile; its worktree is removed from
  under its shell. The changelog promises protection of live and orphaned sessions.
* `WorkspaceRevived`: the reconciling task, which took the row while it was active,
  finds the directory gone in the middle of a delete and marks the row missing after the
  delete has marked it deleted. The workspace is listed again, and another
  delete is needed.

## 7. Plan

Done, in this order: 1. `TurnGrouping`, `Ingester`, `TranscriptLog`;
2. `PtyLifecycle`, `AgentRuntime`; 3. `Terminal`; 4. `SecretBroker`;
5. `Workspaces`; 6. `CanonicalEvents`, `CodexLineage`, `TurnProjection` and
`TimelineStore`: contents of the timeline, lineage, reindex and views; each with its
proofs. To do:

7. `RepoState` (`repo_state.rs`, the status part of `worktree.rs`, main workspaces, and
   the browser's `RepoStore`, which polls it): revisions, dirty paths that are loaded in
   two statements, refreshes requested while one is under way, answers that overtake
   one another. Safety: what is shown under the current revision is current; liveness
   under fair polling: the browser catches up when the repository rests.
8. Session creation and prompts: the input queue with prompts typed in two parts,
   resumption.
9. `FuturePrompts`; the browser's `TabStore` with its persisted copy; reconnecting
   composed with `Terminal`.

Proofs to follow: types and the main invariant of each new module.
