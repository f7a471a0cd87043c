---------------------------- MODULE TimelineStore ----------------------------
(***************************************************************************)
(* The stored side of the timeline: the events of each session with their  *)
(* canonical columns, the facts derived from them, the turns, and the      *)
(* three writers of these tables: the ingester, the reindex an             *)
(* administrator asks for, and the maintenance at start.  A viewer reads   *)
(* them over several statements.                                           *)
(*                                                                         *)
(* Steps are database transactions.  The transcript bytes, partial lines   *)
(* and rotations are the subject of Ingester; here a transcript is a       *)
(* sequence of records that start at given offsets.                        *)
(***************************************************************************)
EXTENDS TurnProjection

CONSTANTS
    Sessions,       \* transcripts, and rows of claude_sessions
    Stories,        \* a sequence of stories
    MaxMishaps      \* bound: failures, crashes and reindexes of a behaviour

-----------------------------------------------------------------------------
(* What a story may be: what was stored of a transcript, and what is       *)
(* written, are prefixes of it, records start one after another, the kind  *)
(* a row is stored under says what the record is, its parts are a list and *)
(* its timestamp is a number.                                              *)

Listed(r) == r.ts \in Nat /\ (r.parts # Nil => Len(r.parts) \in Nat)

WellFormed(t) ==
    /\ t.begun \in [Sessions -> Nat] /\ t.legacy \in [Sessions -> Nat]
    /\ t.current \subseteq Sessions /\ t.correlates \subseteq Sessions
    /\ t.viewed \in Sessions \cup {Nil}
    /\ \A s \in Sessions :
        /\ t.legacy[s] <= t.begun[s] /\ t.begun[s] <= Len(t.records[s])
        /\ Len(t.records[s]) \in Nat
        /\ \A i \in 1..Len(t.records[s]) :
            KindsAgree(t.records[s][i]) /\ Listed(t.records[s][i])
        /\ \A i \in 1..(Len(t.records[s]) + 1) :
            t.starts[s][i] \in Nat /\ \A j \in 1..(i - 1) : t.starts[s][j] < t.starts[s][i]

ASSUME StoriesAssumption == \A n \in DOMAIN Stories : WellFormed(Stories[n])
ASSUME SessionsAssumption ==
    /\ Nil \notin Sessions /\ IsFiniteSet(Sessions)
    /\ \A s \in Sessions : SessionId(s) # Nil
ASSUME MishapsAssumption == MaxMishaps \in Nat

VARIABLES
    story,          \* what the agents write, and what may happen meanwhile
    written,        \* session -> records in the transcript
    known,          \* sessions with a row in claude_sessions
    current,        \* sessions that are the current session of a pty
    linked,         \* claude_sessions.pty_session_id is set
    lineage,        \* claude_sessions.parent_session_uuid
    metadata,       \* agent_session_metadata
    offset,         \* ingester_state, in records
    rows,           \* events and event_blocks: session -> offset -> row
    turns,          \* timeline_turns and its children: session -> turn id -> turn
    revision,       \* timeline_session_state.revision
    versions,       \* ingest_projection_versions that are current
    task,           \* the ingester
    repair,         \* the reindex or the maintenance at start
    viewer,         \* a timeline view of the browser
    mishaps,        \* bound
    dropped         \* history: session -> offsets whose insert failed

rowVars  == <<known, lineage, metadata, offset, rows, dropped>>
shownVars == <<turns, revision>>
outside  == <<story, written, current>>
vars == <<outside, linked, rowVars, shownVars, versions, task, repair, viewer, mishaps>>

Agent(s) == story.agent[s]

\* The offset of the i-th record; of the end of the file after the last one.
At(s, i) == story.starts[s][i]

-----------------------------------------------------------------------------
(* What the tables say.                                                    *)

Payloads(s) == [o \in DOMAIN rows[s] |-> rows[s][o].payload]

Earlier(s, o) == {q \in DOMAIN rows[s] : q < o}

\* The context of a Codex transcript before the record at offset o.
ContextBefore(s, o) == LoadContext(Restrict(Payloads(s), Earlier(s, o)), s)

\* Utc::now(): later than whatever was written.
Now ==
    1 + Max({0} \cup UNION {{story.records[s][i].ts : i \in 1..written[s]}
                            \cup {rows[s][o].ts : o \in DOMAIN rows[s]} : s \in Sessions})

\* A row whose canonical columns are NULL.
IsBare(row) == row.event = Nil

\* f with the fields of g.
Joined(f, g) == [x \in DOMAIN f \cup DOMAIN g |-> IF x \in DOMAIN g THEN g[x] ELSE f[x]]

\* load_session_events: the row as the projection sees it.
StoredEvent(o, row) ==
    Joined(IF IsBare(row)
           THEN [NoEvent EXCEPT !.agent = row.payload.agent, !.speaker = Nil, !.content = Nil]
           ELSE row.event,
           [offset |-> o, ts |-> row.ts, kind |-> StoredKind(row.payload)])

EventsFrom(s, first) ==
    LET offsets == Where([i \in 1..written[s] |-> At(s, i)],
                         LAMBDA o : o >= first /\ o \in DOMAIN rows[s])
    IN  [i \in 1..Len(offsets) |-> StoredEvent(offsets[i], rows[s][offsets[i]])]

Children(s) == {c \in known : lineage[c] = SessionId(s)}

\* descendant_session_ids: nearest first.
Descendants(s) ==
    LET level[n \in 0..Cardinality(Sessions)] ==
            IF n = 0 THEN Children(s) ELSE UNION {Children(c) : c \in level[n - 1]}
    IN  IF s \in known
        THEN FlattenSeq([n \in 1..Cardinality(Sessions) |-> SetToSeq(level[n - 1])]) ELSE <<>>

Uuids(events) == {events[i].uuid : i \in DOMAIN events} \ {Nil}

\* filter_descendant_projection_events: what hangs from the descendant itself
\* by a chain of parents.
DescendantEvents(events, seen, d) ==
    LET at == DOMAIN events
        seeds == {events[i].uuid : i \in {j \in at : /\ events[j].side
                                                     /\ events[j].parent = SessionId(d)}}
        included[n \in 0..Len(events)] ==
            IF n = 0 THEN seeds \ (seen \cup {Nil})
            ELSE included[n - 1] \cup Uuids(SelectSeq(events, LAMBDA e : e.parent \in included[n - 1]))
        all == included[Len(events)]
    IN  Where(events, LAMBDA e : e.uuid \in all \/ e.parent \in all)

Before(a, b) == a.ts < b.ts \/ (a.ts = b.ts /\ a.offset < b.offset)

Inserted(sorted, e) ==
    LET After(x) == Before(e, x)
        NotAfter(x) == ~Before(e, x)
    IN  Append(Where(sorted, NotAfter), e) \o Where(sorted, After)

\* By timestamp, then offset; a stable sort.
ByTime(events) ==
    LET sorted[i \in 0..Len(events)] ==
            IF i = 0 THEN <<>> ELSE Inserted(sorted[i - 1], events[i])
    IN  sorted[Len(events)]

WithDescendant(events, d) ==
    events \o DescendantEvents(EventsFrom(d, 0), Uuids(events), d)

\* load_projection_source_events.
SourceEvents(s) ==
    LET below == Descendants(s)
        loaded[n \in 0..Len(below)] ==
            IF n = 0 THEN EventsFrom(s, 0) ELSE WithDescendant(loaded[n - 1], below[n])
    IN  ByTime(loaded[Len(below)])

\* load_file_touch_context.
TouchContext(s) == IF s \in linked THEN story.context[s] ELSE Nil

-----------------------------------------------------------------------------
(* Rebuilding the turns of a session: what is projected, then stored.      *)

\* Turns numbered from ord, to replace those with an id of at least from; from
\* is Nil when all are replaced.
Numbered(projected, ord) ==
    [k \in DOMAIN projected |-> Joined(projected[k], [ord |-> ord + k - 1])]

Plan(s, from, ord, events) ==
    [session |-> s, from |-> from,
     turns |-> Numbered(SessionProjection(events, TouchContext(s)), ord)]

FullPlan(s) == Plan(s, Nil, 0, SourceEvents(s))

Anchors(s, first) == {id \in DOMAIN turns[s] : id <= first}

\* Mutant: whatever other sessions have to add.
IsIncrementalAlone(s, first) ==
    Anchors(s, first) # {} /\ EventsFrom(s, Max(Anchors(s, first))) # <<>>

\* rebuild_session_projection_after_insert takes the suffix.
IsIncremental(s, first) ==
    Children(s) = {} /\ Anchors(s, first) # {} /\ EventsFrom(s, Max(Anchors(s, first))) # <<>>

\* The events that a rebuild projects; first is Nil for a full one.
EventsToProject(s, first) ==
    IF first # Nil /\ IsIncremental(s, first)
    THEN EventsFrom(s, Max(Anchors(s, first))) ELSE SourceEvents(s)

PlanFor(s, first) ==
    IF first # Nil /\ IsIncremental(s, first)
    THEN LET anchor == Max(Anchors(s, first))
         IN  Plan(s, anchor, turns[s][anchor].ord, EventsFrom(s, anchor))
    ELSE FullPlan(s)

PlanIds(plan) == {plan.turns[k].turn.id : k \in DOMAIN plan.turns}

Kept(plan) ==
    IF plan.from = Nil THEN {} ELSE {id \in DOMAIN turns[plan.session] : id < plan.from}

\* The primary key of timeline_turns, and the foreign key to claude_sessions.
CanCommit(plan) ==
    /\ plan.session \in known
    /\ Cardinality(PlanIds(plan)) = Len(plan.turns)
    /\ PlanIds(plan) \cap Kept(plan) = {}

TurnsAfter(plan) ==
    [id \in Kept(plan) \cup PlanIds(plan) |->
        IF id \in Kept(plan) THEN turns[plan.session][id]
        ELSE plan.turns[CHOOSE k \in DOMAIN plan.turns : plan.turns[k].turn.id = id]]

CommitPlan(plan) ==
    /\ CanCommit(plan)
    /\ turns' = [turns EXCEPT ![plan.session] = TurnsAfter(plan)]
    /\ revision' = [revision EXCEPT ![plan.session] = @ + 1]

-----------------------------------------------------------------------------
(* Before: rows and turns that an earlier release left.                    *)

NoTask ==
    [pc |-> "boot", session |-> Nil, upto |-> 0, cursor |-> 0, ctx |-> Nil,
     inserted |-> FALSE, first |-> Nil, queue |-> <<>>, plan |-> Nil]

NoRepair ==
    [pc |-> "none", by |-> Nil, bare |-> {}, session |-> Nil, below |-> 0, ctx |-> Nil,
     queue |-> <<>>, plan |-> Nil]

NoViewer ==
    [pc |-> "idle", polled |-> Nil, total |-> 0, rows |-> <<>>, loaded |-> Nil, shown |-> Nil,
     fetch |-> "idle", print |-> Nil, row |-> Nil, pairs |-> <<>>, detail |-> Nil]

BareRow(r) == [payload |-> r, ts |-> r.ts, event |-> Nil]

\* The lineage of Claude sessions is older than the canonical columns.
LegacyParent(s) ==
    LET named == {i \in 1..story.legacy[s] : DetectParent(story.records[s][i], s) # Nil}
    IN  IF Agent(s) = "codex" \/ named = {} THEN Nil
        ELSE DetectParent(story.records[s][Min(named)], s)

Init ==
    /\ \E n \in DOMAIN Stories : story = Stories[n]
    /\ written = story.begun
    /\ known = {s \in Sessions : story.legacy[s] > 0}
    /\ current = story.current
    /\ linked = known \cap current
    /\ lineage = [s \in Sessions |-> LegacyParent(s)]
    /\ metadata = [s \in Sessions |-> <<>>]
    /\ offset = story.legacy
    /\ rows = [s \in Sessions |->
                  [o \in {At(s, i) : i \in 1..story.legacy[s]} |->
                      BareRow(story.records[s][CHOOSE i \in 1..story.legacy[s] : At(s, i) = o])]]
    /\ turns = [s \in Sessions |-> <<>>]
    /\ revision = [s \in Sessions |-> 0]
    /\ versions = IF known = {} THEN {"blocks", "timeline"} ELSE {}
    /\ task = NoTask
    /\ repair = NoRepair
    /\ viewer = NoViewer
    /\ mishaps = 0
    /\ dropped = [s \in Sessions |-> {}]

\* A thing that may go wrong in this story, within the bound.
Mishap(kind) == kind \in story.may /\ mishaps < MaxMishaps /\ mishaps' = mishaps + 1

\* The agent of session s writes its next record.
Write(s) ==
    /\ written[s] < Len(story.records[s])
    /\ written' = [written EXCEPT ![s] = @ + 1]
    /\ UNCHANGED <<story, current, linked, rowVars, shownVars, versions, task, repair, viewer, mishaps>>

\* correlate::apply, its two statements: the row of the session is linked to the
\* pty, then the session becomes the current one of the pty.
LinkSession(s) ==
    /\ s \in story.correlates \ linked
    /\ known' = known \cup {s}
    /\ linked' = linked \cup {s}
    /\ UNCHANGED <<outside, lineage, metadata, offset, rows, dropped>>
    /\ UNCHANGED <<shownVars, versions, task, repair, viewer, mishaps>>

Correlate(s) ==
    /\ s \in (story.correlates \cap linked) \ current
    /\ current' = current \cup {s}
    /\ UNCHANGED <<story, written, linked, rowVars, shownVars, versions, task, repair, viewer, mishaps>>

-----------------------------------------------------------------------------
(* The ingester.                                                           *)

IngesterKeeps == UNCHANGED <<outside, versions, repair, viewer>>

\* Mutant: the session is linked to its pty before it has a row.
OpenFileUnregistered(s) ==
    /\ task.pc = "idle" /\ written[s] > offset[s]
    /\ linked' = IF s \in current THEN linked \cup {s} ELSE linked
    /\ task' = [task EXCEPT !.pc = "insert", !.session = s, !.upto = written[s],
                            !.cursor = offset[s], !.first = Nil, !.queue = <<>>,
                            !.ctx = LoadContext(Payloads(s), s)]
    /\ IngesterKeeps
    /\ UNCHANGED <<known, lineage, metadata, offset, rows, dropped, shownVars, mishaps>>

\* process_file begins: the session row, the bytes to read and the context.
OpenFile(s) ==
    /\ task.pc = "idle" /\ written[s] > offset[s]
    /\ known' = known \cup {s}
    /\ linked' = IF s \in current THEN linked \cup {s} ELSE linked
    /\ task' = [task EXCEPT !.pc = "insert", !.session = s, !.upto = written[s],
                            !.cursor = offset[s], !.first = Nil, !.queue = <<>>,
                            !.ctx = LoadContext(Payloads(s), s)]
    /\ IngesterKeeps
    /\ UNCHANGED <<lineage, metadata, offset, rows, dropped, shownVars, mishaps>>

Record == story.records[task.session][task.cursor + 1]
Offset == At(task.session, task.cursor + 1)

\* insert_event, its transaction: ON CONFLICT DO NOTHING.
InsertRow ==
    LET s == task.session
        new == Offset \notin DOMAIN rows[s]
        row == [payload |-> Record, ts |-> IF Record.ts = 0 THEN Now ELSE Record.ts,
                event |-> ParseEvent(Record, Offset, s, task.ctx)]
        stored == [o \in DOMAIN rows[s] \cup {Offset} |-> IF o = Offset THEN row ELSE rows[s][o]]
    IN  /\ task.pc = "insert" /\ task.cursor < task.upto
        /\ rows' = IF new THEN [rows EXCEPT ![s] = stored] ELSE rows
        /\ task' = [task EXCEPT !.pc = "facts", !.inserted = new,
                                !.first = IF new /\ @ = Nil THEN Offset ELSE @]
        /\ IngesterKeeps
        /\ UNCHANGED <<linked, known, lineage, metadata, offset, dropped, shownVars, mishaps>>

\* The database refuses the insert: the walk goes on with the next record.
InsertFails ==
    /\ task.pc = "insert" /\ task.cursor < task.upto
    /\ Mishap("insert")
    /\ dropped' = [dropped EXCEPT ![task.session] = @ \cup {Offset}]
    /\ task' = [task EXCEPT !.cursor = @ + 1]
    /\ IngesterKeeps
    /\ UNCHANGED <<linked, known, lineage, metadata, offset, rows, shownVars>>

\* The facts, of a record this pass stored; then the context.
AddFacts ==
    /\ task.pc = "facts"
    /\ metadata' = IF task.inserted
                   THEN [metadata EXCEPT ![task.session] = UpsertMetadata(@, Record)]
                   ELSE metadata
    /\ task' = [task EXCEPT !.pc = "parent", !.ctx = UpdateContext(@, Record, task.session)]
    /\ IngesterKeeps
    /\ UNCHANGED <<linked, known, lineage, offset, rows, dropped, shownVars, mishaps>>

\* set_parent_session: once.
LineageWith(s, r) ==
    IF lineage[s] = Nil THEN [lineage EXCEPT ![s] = DetectParent(r, s)] ELSE lineage

\* Mutant: only of a record this pass stored.
SetParentWhenInserted ==
    /\ task.pc = "parent"
    /\ lineage' = IF task.inserted THEN LineageWith(task.session, Record) ELSE lineage
    /\ task' = [task EXCEPT !.pc = "insert", !.cursor = @ + 1]
    /\ IngesterKeeps
    /\ UNCHANGED <<linked, known, metadata, offset, rows, dropped, shownVars, mishaps>>

SetParent ==
    /\ task.pc = "parent"
    /\ lineage' = LineageWith(task.session, Record)
    /\ task' = [task EXCEPT !.pc = "insert", !.cursor = @ + 1]
    /\ IngesterKeeps
    /\ UNCHANGED <<linked, known, metadata, offset, rows, dropped, shownVars, mishaps>>

\* set_offset at the end of what was read, then the rebuilds that are due.
CommitOffset ==
    /\ task.pc = "insert" /\ task.cursor = task.upto
    /\ offset' = [offset EXCEPT ![task.session] = task.upto]
    /\ task' = [task EXCEPT
                    !.pc = IF task.first = Nil THEN "idle" ELSE "rebuild",
                    !.queue = IF task.first = Nil THEN <<>>
                              ELSE <<[session |-> task.session, first |-> task.first]>>]
    /\ IngesterKeeps
    /\ UNCHANGED <<linked, known, lineage, metadata, rows, dropped, shownVars, mishaps>>

\* codex_parent_session_chain.
AncestorChain(s) ==
    LET up[n \in 0..Cardinality(Sessions)] ==
            IF n = 0 THEN <<s>>
            ELSE up[n - 1] \o
                 SetToSeq({p \in Sessions : lineage[Last(up[n - 1])] = SessionId(p)}
                          \ ToSet(up[n - 1]))
    IN  Tail(up[Cardinality(Sessions)])

\* The rebuild of the head of the queue is over: after that of the session
\* itself come, for Codex, those of its ancestors.
NextRebuild ==
    LET rest == IF Head(task.queue).first # Nil /\ Agent(task.session) = "codex"
                THEN LET chain == AncestorChain(task.session)
                     IN  [i \in DOMAIN chain |-> [session |-> chain[i], first |-> Nil]]
                ELSE Tail(task.queue)
    IN  task' = [task EXCEPT !.pc = IF rest = <<>> THEN "idle" ELSE "rebuild",
                             !.queue = rest, !.plan = Nil]

LoadProjection ==
    LET d == Head(task.queue)
    IN  /\ task.pc = "rebuild"
        /\ ~ProjectionPanics(EventsToProject(d.session, d.first))
        /\ task' = [task EXCEPT !.pc = "store", !.plan = PlanFor(d.session, d.first)]
        /\ IngesterKeeps
        /\ UNCHANGED <<linked, rowVars, shownVars, mishaps>>

\* The projection panics: the supervisor starts the ingester anew.
Panic ==
    LET d == Head(task.queue)
    IN  /\ task.pc = "rebuild"
        /\ ProjectionPanics(EventsToProject(d.session, d.first))
        /\ task' = [NoTask EXCEPT !.pc = "idle"]
        /\ IngesterKeeps
        /\ UNCHANGED <<linked, rowVars, shownVars, mishaps>>

StoreProjection ==
    /\ task.pc = "store"
    /\ CommitPlan(task.plan)
    /\ NextRebuild
    /\ IngesterKeeps
    /\ UNCHANGED <<linked, rowVars, mishaps>>

\* A statement of the rebuild is refused: it is logged.
StoreRefused ==
    /\ task.pc = "store"
    /\ \/ ~CanCommit(task.plan) /\ UNCHANGED mishaps
       \/ Mishap("rebuild")
    /\ NextRebuild
    /\ IngesterKeeps
    /\ UNCHANGED <<linked, rowVars, shownVars>>

-----------------------------------------------------------------------------
(* Repair: backfill_canonical_blocks, then full rebuilds.                  *)

RepairKeeps == UNCHANGED <<outside, known, metadata, offset, dropped, viewer>>

BareSessions == {s \in Sessions : \E o \in DOMAIN rows[s] : IsBare(rows[s][o])}

EventSessions == {s \in Sessions : rows[s] # <<>>}

\* rebuild_ingest_derivatives: which sessions there are.
ListSessions ==
    /\ repair.pc = "none"
    /\ Mishap("reindex")
    /\ repair' = [NoRepair EXCEPT !.pc = "clear", !.by = "reindex",
                                  !.queue = SetToSeq(EventSessions)]
    /\ RepairKeeps
    /\ UNCHANGED <<linked, lineage, rows, shownVars, versions, task>>

\* One transaction: the turns go, and the columns a projection is made from.
Clear ==
    /\ repair.pc = "clear"
    /\ turns' = [s \in Sessions |-> <<>>]
    /\ rows' = [s \in Sessions |-> [o \in DOMAIN rows[s] |-> [rows[s][o] EXCEPT !.event = Nil]]]
    /\ linked' = linked \cup (current \cap known)
    /\ repair' = [repair EXCEPT !.pc = "bare"]
    /\ RepairKeeps
    /\ UNCHANGED <<lineage, revision, versions, task, mishaps>>

\* run_required_startup_maintenance, when the version of the blocks is behind.
StartMaintenance ==
    /\ task.pc = "boot" /\ repair.pc = "none"
    /\ versions # {"blocks", "timeline"}
    /\ repair' = [NoRepair EXCEPT !.pc = IF "blocks" \in versions THEN "missing" ELSE "bare",
                                  !.by = "startup"]
    /\ RepairKeeps
    /\ UNCHANGED <<linked, lineage, rows, shownVars, versions, task, mishaps>>

\* backfill_canonical_blocks finds the sessions it has to walk.
FindBare ==
    /\ repair.pc = "bare"
    /\ repair' = [repair EXCEPT !.pc = "walk", !.bare = BareSessions, !.session = Nil]
    /\ RepairKeeps
    /\ UNCHANGED <<linked, lineage, rows, shownVars, versions, task, mishaps>>

\* The next of them, the ones of Codex first.
WalkSession(s) ==
    /\ repair.pc = "walk" /\ repair.session = Nil /\ s \in repair.bare
    /\ Agent(s) = "codex" \/ \A q \in repair.bare : Agent(q) # "codex"
    /\ repair' = [repair EXCEPT !.bare = @ \ {s}, !.session = s, !.below = 0,
                                !.ctx = NewContext(s)]
    /\ RepairKeeps
    /\ UNCHANGED <<linked, lineage, rows, shownVars, versions, task, mishaps>>

\* The row the walk has come to, if there is one: rows are walked in the order
\* of their offsets.
WalkAt(o) ==
    /\ repair.pc = "walk" /\ repair.session # Nil
    /\ o \in DOMAIN rows[repair.session] /\ o >= repair.below
    /\ \A q \in DOMAIN rows[repair.session] : q >= repair.below => o <= q

RewrittenRow(row, o) ==
    IF IsBare(row)
    THEN [payload |-> row.payload, ts |-> row.ts,
          event |-> ParseEvent(row.payload, o, repair.session, repair.ctx)]
    ELSE row

\* One row: rewritten when it is bare, and part of the context either way.
WalkRow(o) ==
    LET s == repair.session
        row == rows[s][o]
    IN  /\ WalkAt(o)
        /\ rows' = [rows EXCEPT ![s][o] = RewrittenRow(row, o)]
        /\ lineage' = IF IsBare(row) /\ Agent(s) = "codex" THEN LineageWith(s, row.payload)
                      ELSE lineage
        /\ repair' = [repair EXCEPT !.below = o + 1, !.ctx = UpdateContext(@, row.payload, s)]
        /\ RepairKeeps
        /\ UNCHANGED <<linked, shownVars, versions, task, mishaps>>

SessionWalked ==
    /\ repair.pc = "walk" /\ repair.session # Nil
    /\ \A o \in DOMAIN rows[repair.session] : o < repair.below
    /\ repair' = [repair EXCEPT !.session = Nil]
    /\ RepairKeeps
    /\ UNCHANGED <<linked, lineage, rows, shownVars, versions, task, mishaps>>

\* All rows are complete: a reindex rebuilds the sessions it listed.
Walked ==
    /\ repair.pc = "walk" /\ repair.session = Nil /\ repair.bare = {}
    /\ repair' = [repair EXCEPT !.pc = IF repair.by = "startup" THEN "missing" ELSE "rebuild"]
    /\ versions' = IF repair.by = "startup" THEN versions \cup {"blocks"} ELSE versions
    /\ RepairKeeps
    /\ UNCHANGED <<linked, lineage, rows, shownVars, task, mishaps>>

\* backfill_timeline_projection: the sessions that have events and no turn.
FindMissing ==
    /\ repair.pc = "missing"
    /\ repair' = [repair EXCEPT !.pc = "rebuild",
                                !.queue = SetToSeq({s \in EventSessions : turns[s] = <<>>})]
    /\ RepairKeeps
    /\ UNCHANGED <<linked, lineage, rows, shownVars, versions, task, mishaps>>

LoadRepair ==
    /\ repair.pc = "rebuild" /\ repair.queue # <<>>
    /\ ~ProjectionPanics(SourceEvents(Head(repair.queue)))
    /\ repair' = [repair EXCEPT !.pc = "store", !.plan = FullPlan(Head(repair.queue))]
    /\ RepairKeeps
    /\ UNCHANGED <<linked, lineage, rows, shownVars, versions, task, mishaps>>

StoreRepair ==
    /\ repair.pc = "store"
    /\ CommitPlan(repair.plan)
    /\ repair' = [repair EXCEPT !.pc = "rebuild", !.plan = Nil, !.queue = Tail(@)]
    /\ RepairKeeps
    /\ UNCHANGED <<linked, lineage, rows, versions, task, mishaps>>

\* An error ends the repair.  A panic does too, and that of the maintenance
\* takes the ingester with it, which would have started after it.
RepairPanics ==
    /\ repair.pc = "rebuild" /\ repair.queue # <<>>
    /\ ProjectionPanics(SourceEvents(Head(repair.queue)))

RepairFails ==
    /\ RepairPanics \/ (repair.pc = "store" /\ ~CanCommit(repair.plan))
    /\ task' = CASE repair.by # "startup" -> task
                 [] repair.by = "startup" /\ RepairPanics -> [task EXCEPT !.pc = "gone"]
                 [] OTHER -> [task EXCEPT !.pc = "idle"]
    /\ repair' = NoRepair
    /\ RepairKeeps
    /\ UNCHANGED <<linked, lineage, rows, shownVars, versions, mishaps>>

\* The request for the reindex is dropped with its connection.
HangUp ==
    /\ repair.by = "reindex"
    /\ Mishap("hangup")
    /\ repair' = NoRepair
    /\ RepairKeeps
    /\ UNCHANGED <<linked, lineage, rows, shownVars, versions, task>>

\* mark_projection_versions_current, or the version of the timeline.
RepairEnds ==
    /\ repair.pc = "rebuild" /\ repair.queue = <<>>
    /\ versions' = {"blocks", "timeline"}
    /\ task' = IF repair.by = "startup" THEN [task EXCEPT !.pc = "idle"] ELSE task
    /\ repair' = NoRepair
    /\ RepairKeeps
    /\ UNCHANGED <<linked, lineage, rows, shownVars, mishaps>>

\* Nothing to maintain: the ingester starts.
StartIngester ==
    /\ task.pc = "boot" /\ versions = {"blocks", "timeline"}
    /\ repair.by # "startup"
    /\ task' = [task EXCEPT !.pc = "idle"]
    /\ UNCHANGED <<outside, linked, rowVars, shownVars, versions, repair, viewer, mishaps>>

\* The backend stops at any moment and is started again.
Crash ==
    /\ Mishap("crash")
    /\ task' = NoTask /\ repair' = NoRepair
    /\ UNCHANGED <<outside, linked, rowVars, shownVars, versions, viewer>>

-----------------------------------------------------------------------------
(* A view of the timeline of one session, with its filters and, below the  *)
(* list of turns, the detail of the turn that is open.                     *)

Viewed == story.viewed

ViewerKeeps == UNCHANGED <<outside, linked, rowVars, shownVars, versions, task, repair, mishaps>>

\* ORDER BY turn_ord.
TurnOrder(stored) ==
    SortSeq(FoldSet(LAMBDA id, ids : Append(ids, id), <<>>, DOMAIN stored),
            LAMBDA a, b : stored[a].ord < stored[b].ord)

EventTotal(stored) == FoldSet(LAMBDA id, n : n + stored[id].turn.events, 0, DOMAIN stored)

\* The turns a view with these filters shows.
Shows(t, filters) ==
    /\ filters.errors => t.turn.errors
    /\ filters.sidechain \/ ~t.sidechain

\* load_projected_turn_summary_rows, without the badges.
SummaryRows(stored, filters) ==
    LET ids == SelectSeq(TurnOrder(stored), LAMBDA id : Shows(stored[id], filters))
    IN  [i \in DOMAIN ids |->
            LET t == stored[ids[i]].turn
            IN  [id |-> t.id, preview |-> t.preview, end |-> t.end, duration |-> t.duration,
                 events |-> t.events, operations |-> t.operations, thinking |-> t.thinking,
                 errors |-> t.errors]]

\* load_projected_operation_badge_rows: how often each type of tool was called.
BadgesOf(stored, id) ==
    IF id \notin DOMAIN stored THEN <<>>
    ELSE LET pairs == stored[id].turn.pairs
         IN  [type \in {pairs[i].type : i \in DOMAIN pairs} |->
                 CountWhere(pairs, LAMBDA p : p.type = type)]

Badged(stored, summary) ==
    [i \in DOMAIN summary |-> Joined(summary[i], [badges |-> BadgesOf(stored, summary[i].id)])]

Summary(stored, filters) ==
    [total |-> EventTotal(stored), turns |-> Badged(stored, SummaryRows(stored, filters))]

\* turnSummaryFingerprint.
Fingerprint(t) == <<t.end, t.duration, t.events, t.operations, t.thinking, t.errors>>

\* The fingerprint of the open turn in a summary; Nil when it is not there.
OpenPrint(summary) ==
    LET opened == SelectSeq(summary.turns, LAMBDA t : t.id = story.opened)
    IN  IF opened = <<>> THEN Nil ELSE Fingerprint(opened[1])

\* A pair as it is read back: a result with nothing in it is none.
ReadPair(p) ==
    IF p.result # Nil /\ p.result.content = Nil /\ p.result.payload = Nil
    THEN [p EXCEPT !.result = Nil] ELSE p

\* load_timeline_turn_detail: what its three statements found, put together.
Detail(row, pairs, touches) ==
    LET read == [row EXCEPT !.pairs =
                    [i \in DOMAIN pairs |->
                        [ReadPair(pairs[i]) EXCEPT
                            !.touches = IF i \in DOMAIN touches THEN touches[i] ELSE <<>>]]]
    IN  [read EXCEPT !.chunks = FilterChunks(read, story.filters)]

PairsOf(s, id) == IF id \in DOMAIN turns[s] THEN turns[s][id].turn.pairs ELSE <<>>
TouchesOf(s, id) == [i \in DOMAIN PairsOf(s, id) |-> PairsOf(s, id)[i].touches]

\* The poll of the application state; a new revision abandons a request in flight.
Poll ==
    /\ Viewed # Nil
    /\ viewer.polled # revision[Viewed]
    /\ viewer' = [viewer EXCEPT !.polled = revision[Viewed], !.pc = "total", !.total = 0, !.rows = <<>>]
    /\ ViewerKeeps

\* load_timeline_summary_response: three statements.
ReadTotal ==
    /\ viewer.pc = "total"
    /\ viewer' = [viewer EXCEPT !.pc = "rows", !.total = EventTotal(turns[Viewed])]
    /\ ViewerKeeps

ReadRows ==
    /\ viewer.pc = "rows"
    /\ viewer' = [viewer EXCEPT !.pc = "badges",
                                !.rows = SummaryRows(turns[Viewed], story.filters)]
    /\ ViewerKeeps

\* The summary is shown as that of a revision.  A request for the detail is
\* abandoned, and made anew unless what is cached has the fingerprint of the turn.
Show(loaded) ==
    LET summary == [total |-> viewer.total, turns |-> Badged(turns[Viewed], viewer.rows)]
        print == OpenPrint(summary)
        cached == viewer.detail # Nil /\ viewer.detail.print = print
    IN  [NoViewer EXCEPT
            !.polled = loaded, !.loaded = loaded, !.shown = summary, !.detail = viewer.detail,
            !.fetch = IF print # Nil /\ ~cached THEN "row" ELSE "idle",
            !.print = IF print # Nil /\ ~cached THEN print ELSE Nil]

\* Mutant: the answer is kept as that of the revision there is now.
ReadBadgesLatest ==
    /\ viewer.pc = "badges"
    /\ viewer' = Show(revision[Viewed])
    /\ ViewerKeeps

\* The answer is that of the revision whose poll asked for it.
ReadBadges ==
    /\ viewer.pc = "badges"
    /\ viewer' = Show(viewer.polled)
    /\ ViewerKeeps

\* The row of the open turn.
ReadTurn ==
    /\ viewer.fetch = "row"
    /\ story.opened \in DOMAIN turns[Viewed] /\ Shows(turns[Viewed][story.opened], story.filters)
    /\ viewer' = [viewer EXCEPT !.fetch = "operations",
                                !.row = [turns[Viewed][story.opened].turn EXCEPT !.pairs = <<>>]]
    /\ ViewerKeeps

\* 404: nothing asks again before the next summary.
TurnNotFound ==
    /\ viewer.fetch = "row"
    /\ story.opened \in DOMAIN turns[Viewed] => ~Shows(turns[Viewed][story.opened], story.filters)
    /\ viewer' = [viewer EXCEPT !.fetch = "idle", !.print = Nil]
    /\ ViewerKeeps

ReadOperations ==
    /\ viewer.fetch = "operations"
    /\ viewer' = [viewer EXCEPT !.fetch = "touches", !.pairs = PairsOf(Viewed, story.opened)]
    /\ ViewerKeeps

\* The detail is cached under the fingerprint it was asked for.
ReadTouches ==
    LET turn == Detail(viewer.row, viewer.pairs, TouchesOf(Viewed, story.opened))
    IN  /\ viewer.fetch = "touches"
        /\ viewer' = [viewer EXCEPT !.fetch = "idle", !.print = Nil, !.row = Nil, !.pairs = <<>>,
                                    !.detail = [print |-> viewer.print, turn |-> turn]]
        /\ ViewerKeeps

-----------------------------------------------------------------------------
Ingest ==
    \/ \E s \in Sessions : OpenFile(s)
    \/ InsertRow \/ AddFacts \/ SetParent \/ CommitOffset
    \/ LoadProjection \/ Panic \/ StoreProjection \/ StoreRefused

Walk ==
    \/ \E s \in Sessions : WalkSession(s)
    \/ repair.session # Nil /\ \E o \in DOMAIN rows[repair.session] : WalkRow(o)
    \/ SessionWalked \/ Walked

Repair ==
    \/ Clear \/ StartMaintenance \/ FindBare \/ Walk \/ FindMissing
    \/ LoadRepair \/ StoreRepair \/ RepairFails \/ RepairEnds \/ StartIngester

View ==
    \/ Poll \/ ReadTotal \/ ReadRows \/ ReadBadges
    \/ ReadTurn \/ TurnNotFound \/ ReadOperations \/ ReadTouches

Next ==
    \/ \E s \in Sessions : Write(s) \/ LinkSession(s) \/ Correlate(s)
    \/ Ingest \/ InsertFails
    \/ ListSessions \/ Repair \/ HangUp \/ Crash
    \/ View

Spec == Init /\ [][Next]_vars
=============================================================================
