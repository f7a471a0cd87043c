------------------------------ MODULE Ingester ------------------------------
(***************************************************************************)
(* The transcript ingester: agents append to one JSONL file per session,   *)
(* a single task polls the files, stores each complete line as an event    *)
(* row keyed by (session, byte offset), commits the offset it has read up  *)
(* to, and rebuilds the session's timeline.  Every database statement or   *)
(* transaction of the code is one action here, so that a crash or a        *)
(* database error can fall between any two of them.                        *)
(*                                                                         *)
(* A file is a sequence of bytes.  Bytes are coarse: a byte of Openers     *)
(* begins a well-formed record and stands for its kind, NL ends a line,    *)
(* any other byte continues a record.  A line is blank when it is empty,   *)
(* a record when it begins with an opener, malformed otherwise; reading    *)
(* from the middle of a record therefore sees a malformed line.  Agents    *)
(* stamp their records as they write them: the timestamps in a file rise   *)
(* with the offsets, and a file that is written anew has later ones, so    *)
(* that the version of the file is all that is kept of a timestamp.        *)
(***************************************************************************)
EXTENDS TurnGrouping, Sequences

CONSTANTS
    Sessions,       \* session uuids, one transcript file each
    Openers,        \* first bytes of well-formed records: the record's kind
    Filler,         \* bytes that only continue a record
    NL,             \* the newline
    Chunks,         \* what an agent may append in one write
    Contents,       \* what a file may be replaced with
    MaxLen,         \* bound on the length of a file
    Mishaps,        \* which of MishapKinds may happen
    MaxMishaps      \* bound on how many happen

MishapKinds == {"crash", "replace", "open", "insert", "set_offset", "rebuild"}

Bytes == Openers \cup Filler \cup {NL}

ASSUME BytesAssumption ==
    /\ NL \notin Openers \cup Filler
    /\ Prompts \subseteq Openers
ASSUME ChunksAssumption == Chunks \subseteq Seq(Bytes) /\ Contents \subseteq Seq(Bytes)
ASSUME BoundsAssumption ==
    MaxLen \in Nat /\ MaxMishaps \in Nat /\ Mishaps \subseteq MishapKinds

None == -1          \* no event inserted yet in this pass over a file

VARIABLES
    file,           \* file[s]: the bytes of the session's transcript on disk
    version,        \* version[s]: how often it was written anew
    sessionRows,    \* sessions with a claude_sessions row
    offset,         \* ingester_state.last_committed_byte_offset, 0 without a row
    rows,           \* rows[s]: the events table, byte offset -> record kind
    times,          \* times[s]: events.timestamp of these rows
    timeline,       \* timeline[s]: the timeline_turns rows
    pc,             \* where the ingester task is
    queue,          \* dirty files of this tick still to process
    cur,            \* the dirty file being processed
    view,           \* the bytes read from it
    viewed,         \* the version of the file they are from
    cursor,         \* line_start, as an offset in the file
    first,          \* first_inserted_offset
    plan,           \* the projection computed, not yet written
    mishaps,        \* how many mishaps happened (bound)
    dropped         \* history: offsets whose insert failed in the database

fileVars  == <<file, version>>
eventVars == <<rows, times>>
viewVars  == <<view, viewed>>
dbVars    == <<sessionRows, offset, eventVars, timeline>>
taskVars  == <<pc, queue, cur, viewVars, cursor, first, plan>>
vars      == <<fileVars, dbVars, taskVars, mishaps, dropped>>

-----------------------------------------------------------------------------
(* Lines and records of a file.                                            *)

AtLineBoundary(f, o) == o = 0 \/ (o \in 1..Len(f) /\ f[o] = NL)

HasNewline(f, o) == \E e \in (o + 1)..Len(f) : f[e] = NL

\* Mutant: the unterminated tail of the file is taken for a line.
LineEndsOrEof(f, o) ==
    {e \in (o + 1)..Len(f) : (f[e] = NL \/ e = Len(f)) /\ \A i \in (o + 1)..(e - 1) : f[i] # NL}

\* Mutant: any newline after the offset is taken, not the first one.
LineEndsAny(f, o) == {e \in (o + 1)..Len(f) : f[e] = NL}

\* The byte offsets that follow the newline ending the line that starts at o.
LineEnds(f, o) ==
    {e \in (o + 1)..Len(f) : f[e] = NL /\ \A i \in (o + 1)..(e - 1) : f[i] # NL}

\* Offsets at which a complete, well-formed line starts.
RecordOffsets(f) ==
    {o \in 0..(Len(f) - 1) :
        AtLineBoundary(f, o) /\ f[o + 1] \in Openers /\ HasNewline(f, o)}

Records(f) == [o \in RecordOffsets(f) |-> f[o + 1]]

EmptyRows == [o \in {} |-> NL]

DirtyFile == [session : Sessions, committed : Nat, len : Nat]

Init ==
    /\ file = [s \in Sessions |-> <<>>]
    /\ version = [s \in Sessions |-> 0]
    /\ sessionRows = {}
    /\ offset = [s \in Sessions |-> 0]
    /\ rows = [s \in Sessions |-> EmptyRows]
    /\ times = [s \in Sessions |-> EmptyRows]
    /\ timeline = [s \in Sessions |-> {}]
    /\ pc = "idle"
    /\ queue = {}
    /\ cur \in [session : Sessions, committed : {0}, len : {0}]
    /\ view = <<>>
    /\ viewed = 0
    /\ cursor = 0
    /\ first = None
    /\ plan = NoPlan
    /\ mishaps = 0
    /\ dropped = [s \in Sessions |-> {}]

-----------------------------------------------------------------------------
(* The agents' side.                                                       *)

\* An agent appends; a write may end in the middle of a line.
AgentWrites(s, chunk) ==
    /\ Len(file[s]) + Len(chunk) <= MaxLen
    /\ file' = [file EXCEPT ![s] = @ \o chunk]
    /\ UNCHANGED <<version, dbVars, taskVars, mishaps, dropped>>

Mishap(kind) ==
    /\ kind \in Mishaps
    /\ mishaps < MaxMishaps
    /\ mishaps' = mishaps + 1

\* The file is truncated or written anew, the case process_file resets for.
\* What is in it then is later than all that was.
Replace(s, content) ==
    /\ Mishap("replace")
    /\ Len(content) <= MaxLen
    /\ file' = [file EXCEPT ![s] = content]
    /\ version' = [version EXCEPT ![s] = @ + 1]
    /\ UNCHANGED <<dbVars, taskVars, dropped>>

-----------------------------------------------------------------------------
(* The ingester task.                                                      *)

\* dirty_transcript_files: a file is dirty when its length is not the offset.
Dirty(s) == Len(file[s]) # offset[s]

Scan ==
    /\ pc = "idle"
    /\ queue' = {[session |-> s, committed |-> offset[s], len |-> Len(file[s])] :
                    s \in {x \in Sessions : Dirty(x)}}
    /\ pc' = IF queue' = {} THEN "idle" ELSE "file"
    /\ UNCHANGED <<fileVars, dbVars, cur, viewVars, cursor, first, plan, mishaps,
                   dropped>>

NextFile == IF queue = {} THEN "idle" ELSE "file"

\* Start of process_file on a file that is not shorter than its offset.
OpenFile(d) ==
    /\ pc = "file"
    /\ d \in queue
    /\ d.len >= d.committed
    /\ sessionRows' = sessionRows \cup {d.session}
    /\ queue' = queue \ {d}
    /\ cur' = d
    /\ view' = file[d.session]
    /\ viewed' = version[d.session]
    /\ cursor' = d.committed
    /\ first' = None
    /\ pc' = "lines"
    /\ UNCHANGED <<fileVars, offset, eventVars, timeline, plan, mishaps, dropped>>

\* "File truncated or replaced -- reset and try again on next tick."
ResetOffset(d) ==
    /\ pc = "file"
    /\ d \in queue
    /\ d.len < d.committed
    /\ sessionRows' = sessionRows \cup {d.session}
    /\ offset' = [offset EXCEPT ![d.session] = 0]
    /\ queue' = queue \ {d}
    /\ pc' = IF queue' = {} THEN "idle" ELSE "file"
    /\ UNCHANGED <<fileVars, eventVars, timeline, cur, viewVars, cursor, first, plan,
                   mishaps, dropped>>

\* upsert_agent_session, open, seek, read or the resetting set_offset fails:
\* the file is left for the next tick.
SkipFile(d) ==
    /\ pc = "file"
    /\ d \in queue
    /\ Mishap("open")
    /\ queue' = queue \ {d}
    /\ sessionRows' \in {sessionRows, sessionRows \cup {d.session}}
    /\ pc' = IF queue' = {} THEN "idle" ELSE "file"
    /\ UNCHANGED <<fileVars, offset, eventVars, timeline, cur, viewVars, cursor, first,
                   plan, dropped>>

\* Mutant: blank and malformed lines are not left out.
HoldsAnything(o) == TRUE

HoldsRecord(o) == view[o + 1] \in Openers

\* Mutant: ON CONFLICT DO UPDATE.
UpsertRow(stored, o, kind) ==
    [q \in DOMAIN stored \cup {o} |-> IF q = o THEN kind ELSE stored[q]]

\* ON CONFLICT DO NOTHING.
InsertRow(stored, o, kind) ==
    [q \in DOMAIN stored \cup {o} |-> IF q \in DOMAIN stored THEN stored[q] ELSE kind]

\* The line at the cursor is a record: insert ... ON CONFLICT DO NOTHING.
InsertEvent ==
    LET s == cur.session IN
    /\ pc = "lines"
    /\ \E e \in LineEnds(view, cursor) :
          /\ HoldsRecord(cursor)
          /\ rows' = [rows EXCEPT ![s] = InsertRow(@, cursor, view[cursor + 1])]
          /\ times' = [times EXCEPT ![s] = InsertRow(@, cursor, viewed)]
          /\ first' = IF cursor \notin DOMAIN rows[s] /\ first = None
                      THEN cursor ELSE first
          /\ cursor' = e
    /\ UNCHANGED <<fileVars, sessionRows, offset, timeline, pc, queue, cur, viewVars,
                   plan, mishaps, dropped>>

\* The insert fails in the database: logged, and the cursor moves on.
InsertFails ==
    /\ pc = "lines"
    /\ Mishap("insert")
    /\ \E e \in LineEnds(view, cursor) :
          /\ HoldsRecord(cursor)
          /\ dropped' = [dropped EXCEPT ![cur.session] = @ \cup {cursor}]
          /\ cursor' = e
    /\ UNCHANGED <<fileVars, dbVars, pc, queue, cur, viewVars, first, plan>>

\* A blank line, or one that does not parse: skipped.
SkipLine ==
    /\ pc = "lines"
    /\ \E e \in LineEnds(view, cursor) :
          /\ ~HoldsRecord(cursor)
          /\ cursor' = e
    /\ UNCHANGED <<fileVars, dbVars, pc, queue, cur, viewVars, first, plan, mishaps,
                   dropped>>

AfterLines == IF first = None THEN NextFile ELSE "rebuild"

\* Mutant: the length seen by the scan is committed, not the end of the last line.
CommitScanLength ==
    /\ pc = "lines"
    /\ ~HasNewline(view, cursor)
    /\ offset' = [offset EXCEPT ![cur.session] = cur.len]
    /\ pc' = AfterLines
    /\ UNCHANGED <<fileVars, sessionRows, eventVars, timeline, queue, cur, viewVars,
                   cursor, first, plan, mishaps, dropped>>

\* No newline left: the tail is left in the file, the offset is committed.
CommitOffset ==
    /\ pc = "lines"
    /\ ~HasNewline(view, cursor)
    /\ offset' = IF cursor = cur.committed THEN offset
                 ELSE [offset EXCEPT ![cur.session] = cursor]
    /\ pc' = AfterLines
    /\ UNCHANGED <<fileVars, sessionRows, eventVars, timeline, queue, cur, viewVars,
                   cursor, first, plan, mishaps, dropped>>

\* set_offset fails: process_file returns the error before any rebuild.
CommitOffsetFails ==
    /\ pc = "lines"
    /\ ~HasNewline(view, cursor)
    /\ cursor # cur.committed
    /\ Mishap("set_offset")
    /\ pc' = NextFile
    /\ UNCHANGED <<fileVars, dbVars, queue, cur, viewVars, cursor, first, plan, dropped>>

\* rebuild_session_projection_after_insert reads the anchor and the events ...
LoadProjection ==
    LET s == cur.session IN
    /\ pc = "rebuild"
    /\ plan' = PlanAfterInsert(timeline[s], rows[s], times[s], first)
    /\ pc' = "commit"
    /\ UNCHANGED <<fileVars, dbVars, queue, cur, viewVars, cursor, first, mishaps,
                   dropped>>

\* ... and then clears and inserts the turns in one transaction.
CommitProjection ==
    /\ pc = "commit"
    /\ timeline' = [timeline EXCEPT ![cur.session] = ApplyPlan(@, plan)]
    /\ pc' = NextFile
    /\ UNCHANGED <<fileVars, sessionRows, offset, eventVars, queue, cur, viewVars,
                   cursor, first, plan, mishaps, dropped>>

\* The rebuild fails: logged, nothing is retried.
RebuildFails ==
    /\ pc \in {"rebuild", "commit"}
    /\ Mishap("rebuild")
    /\ pc' = NextFile
    /\ UNCHANGED <<fileVars, dbVars, queue, cur, viewVars, cursor, first, plan, dropped>>

\* The backend dies and restarts, or the task panics and the supervisor
\* restarts it: the task's locals are gone, the database and files stay.
Crash ==
    /\ Mishap("crash")
    /\ pc' = "idle"
    /\ queue' = {}
    /\ view' = <<>>
    /\ viewed' = 0
    /\ cursor' = 0
    /\ first' = None
    /\ plan' = NoPlan
    /\ UNCHANGED <<fileVars, dbVars, cur, dropped>>

IngesterStep ==
    \/ Scan
    \/ \E d \in queue : OpenFile(d) \/ ResetOffset(d)
    \/ InsertEvent
    \/ SkipLine
    \/ CommitOffset
    \/ LoadProjection
    \/ CommitProjection

MishapStep ==
    \/ \E s \in Sessions, content \in Contents : Replace(s, content)
    \/ \E d \in queue : SkipFile(d)
    \/ InsertFails
    \/ CommitOffsetFails
    \/ RebuildFails
    \/ Crash

AgentStep == \E s \in Sessions, chunk \in Chunks : AgentWrites(s, chunk)

Next == AgentStep \/ IngesterStep \/ MishapStep

Spec == Init /\ [][Next]_vars

\* The supervisor restarts the task whenever it ends and the poll loop never
\* returns, so a step the task can take is eventually taken.
FairSpec == Spec /\ WF_vars(IngesterStep)
=============================================================================
