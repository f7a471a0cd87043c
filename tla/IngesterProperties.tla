------------------------- MODULE IngesterProperties -------------------------
(***************************************************************************)
(* What has to hold of the ingester, and the history-free views of its     *)
(* state the properties are stated with.                                   *)
(***************************************************************************)
EXTENDS Ingester

\* The abstract event log this module implements.
Log == INSTANCE TranscriptLog WITH
            Kinds   <- Openers,
            written <- [s \in Sessions |-> Records(file[s])],
            stored  <- rows,
            refused <- dropped

\* Rows are keyed on (session, offset) and record kinds; turns are what
\* GroupIntoTurns makes; the task's locals are well-formed.
TypeOK ==
    /\ file \in [Sessions -> Seq(Bytes)]
    /\ version \in [Sessions -> Nat]
    /\ sessionRows \subseteq Sessions
    /\ offset \in [Sessions -> Nat]
    /\ rows = [s \in Sessions |-> rows[s]]
    /\ \A s \in Sessions :
          DOMAIN rows[s] \subseteq Nat /\ rows[s] \in [DOMAIN rows[s] -> Openers]
    /\ times = [s \in Sessions |-> times[s]]
    /\ \A s \in Sessions : times[s] \in [DOMAIN rows[s] -> Nat]
    /\ DOMAIN timeline = Sessions
    /\ pc \in {"idle", "file", "lines", "rebuild", "commit"}
    /\ queue \subseteq DirtyFile
    /\ cur \in DirtyFile
    /\ view \in Seq(Bytes)
    /\ viewed \in Nat
    /\ cursor \in Nat
    /\ first \in Nat \cup {None}
    /\ mishaps \in 0..MaxMishaps
    /\ dropped \in [Sessions -> SUBSET Nat]

\* "last_committed_byte_offset is ALWAYS at a line boundary" (header of
\* ingester.rs): whatever interleaving of appends, partial lines, crashes and
\* failing statements led here, the committed offset is 0 or follows a newline.
OffsetAtLineBoundary == \A s \in Sessions : AtLineBoundary(file[s], offset[s])

\* No event row is invented: a row is the record that stands in the transcript
\* at the row's byte offset, also after replays and half-written lines.
RowsAreRecords ==
    \A s \in Sessions : \A o \in DOMAIN rows[s] :
        o \in RecordOffsets(file[s]) /\ rows[s][o] = file[s][o + 1]

\* The committed offset never moves past a record that is not stored, but for
\* the inserts the database refused: what is behind the offset is never read again.
NothingSkipped ==
    \A s \in Sessions : \A o \in RecordOffsets(file[s]) :
        o < offset[s] => o \in DOMAIN rows[s] \cup dropped[s]

\* Between ticks every stored prompt begins one turn, and no turn runs across a
\* prompt or is there twice, also when a file written anew brought records to
\* offsets before, between and after those of the stored ones: the anchor that
\* projection_rebuild_anchor picks lies before all that this tick has stored, and
\* from there on the two orders of rebuilding both see every prompt.  Which turn
\* the other events of such a session fall to depends on the order, and some of them
\* fall to none once a suffix is rebuilt by offset after all was rebuilt by time.
PromptsBeginTurns ==
    pc = "idle" => \A s \in Sessions :
        /\ \A o \in DOMAIN rows[s] : rows[s][o] \in Prompts => \E t \in timeline[s] : t.id = o
        /\ \A t \in timeline[s] : \A o \in t.events : rows[s][o] \in Prompts => o = t.id
        /\ \A t, u \in timeline[s] : t.id = u.id => t = u

\* Even after crashes and failed rebuilds the timeline is never torn: it is the
\* grouping of the stored events up to some point, with no turn cut short inside,
\* duplicated or misnumbered, although a rebuild only rewrites its suffix.
TimelineIsPrefix ==
    \A s \in Sessions :
        \E k \in 0..offset[s] :
            timeline[s] = GroupIntoTurns(EventsBelow(rows[s], k))

\* The strengthening that makes the invariants above inductive while files are
\* only appended to.  The queue and the file being read agree with the committed
\* offsets, which nobody else moves ...
QueueFaithful ==
    /\ \A d \in queue :
          /\ d.committed = offset[d.session]
          /\ d.committed <= d.len
          /\ pc = "lines" => d.session # cur.session
    /\ \A d, e \in queue : d.session = e.session => d = e

\* ... what was read is a prefix of the file and the cursor stands at a line ...
ViewFaithful ==
    pc = "lines" =>
        /\ Len(view) <= Len(file[cur.session])
        /\ \A i \in 1..Len(view) : view[i] = file[cur.session][i]
        /\ AtLineBoundary(view, cursor)
        /\ cur.committed = offset[cur.session]
        /\ offset[cur.session] <= cursor
        /\ \A o \in DOMAIN rows[cur.session] : o < Len(view) /\ HasNewline(view, o)

\* ... every record before the cursor, and before any stored record, was decided ...
Frontier(s) == IF pc = "lines" /\ cur.session = s THEN cursor ELSE offset[s]

Decided(s) == DOMAIN rows[s] \cup dropped[s]

InOrder ==
    \A s \in Sessions : \A o \in RecordOffsets(file[s]) :
        /\ o < Frontier(s) => o \in Decided(s)
        /\ \A q \in DOMAIN rows[s] : o < q => o \in Decided(s)

\* ... and a rebuild only runs once all stored events are behind the offset.
RebuildReady ==
    /\ pc \in {"rebuild", "commit"} =>
          \A o \in DOMAIN rows[cur.session] : o < offset[cur.session]
    /\ pc = "rebuild" => first # None
    /\ pc = "commit" =>
          ApplyPlan(timeline[cur.session], plan) = GroupIntoTurns(rows[cur.session])

IInv ==
    /\ TypeOK
    /\ OffsetAtLineBoundary
    /\ RowsAreRecords
    /\ TimelineIsPrefix
    /\ QueueFaithful
    /\ ViewFaithful
    /\ InOrder
    /\ RebuildReady

\* Beside it: all that is stored is from the one version of the file there is, and
\* its times do not fall.
OneVersion ==
    /\ viewed = 0
    /\ \A s \in Sessions : version[s] = 0 /\ \A o \in DOMAIN rows[s] : times[s][o] = 0

\* The strengthening that makes PromptsBeginTurns inductive through rotations of
\* the file.  Of the session being read only prompts that this pass inserted may
\* lack a turn, and none of them lies before the first event it inserted ...
InPass(s) == pc \in {"lines", "rebuild", "commit"} /\ cur.session = s

PromptsFrom(s, o) == {q \in DOMAIN rows[s] : o <= q /\ rows[s][q] \in Prompts}

Untold(s) ==
    CASE ~InPass(s) \/ first = None -> {}
      [] OTHER                      -> PromptsFrom(s, first)

PromptsKept ==
    /\ \A s \in Sessions : \A o \in DOMAIN rows[s] :
          rows[s][o] \in Prompts => o \in Untold(s) \/ \E t \in timeline[s] : t.id = o
    /\ pc = "lines" => first <= cursor
    /\ pc \in {"rebuild", "commit"} => first # None

\* ... and turns, those about to be written as well, are made of stored events,
\* begin at the offset they are named by and run across no prompt.
WellMade(t, E) ==
    /\ t.id \in t.events /\ t.events \subseteq DOMAIN E
    /\ \A o \in t.events : E[o] \in Prompts => o = t.id

Unique(turns) == \A t, u \in turns : t.id = u.id => t = u

PlanCovers ==
    LET s == cur.session IN
    pc = "commit" =>
        /\ plan.from \in Nat /\ Unique(plan.turns)
        /\ \A t \in plan.turns : plan.from <= t.id /\ WellMade(t, rows[s])
        /\ \A o \in PromptsFrom(s, plan.from) : \E t \in plan.turns : t.id = o
        /\ plan.from <= first

RotationInv ==
    /\ TypeOK
    /\ \A s \in Sessions :
          /\ IsFiniteSet(DOMAIN rows[s])
          /\ Unique(timeline[s]) /\ \A t \in timeline[s] : WellMade(t, rows[s])
    /\ PromptsKept
    /\ PlanCovers

\* A committed rebuild, also one of a suffix alone, leaves what a full one would:
\* the session's timeline is up to date with every stored event, also with those
\* an earlier, crashed pass left out.
RebuildCatchesUp ==
    [][CommitProjection =>
        timeline'[cur.session] = GroupInTime(rows[cur.session], times[cur.session])]_vars

\* "A missing or rotated JSONL file cannot destroy the database copy" (reset.rs):
\* no step changes or removes an event row, also when the offset is reset and the
\* file read again has other records at the same offsets.
RowsSurviveRotation ==
    [][\A s \in Sessions : Log!Extends(rows'[s], rows[s])]_vars

\* The event log takes the records over in order, once each and unchanged, and
\* passes over those only whose insert the database refused (process_file).
RefinesTranscriptLog == Log!Spec

\* Once the agents stop, every complete record ends up stored, but for those
\* the database refused, whatever crashed (Ingester::run, process_file).
EveryRecordStored ==
    <>[](\A s \in Sessions : DOMAIN rows[s] \cup dropped[s] = RecordOffsets(file[s]))

\* ... and shown in the timeline.
EveryRecordShown ==
    <>[](\A s \in Sessions : timeline[s] = GroupIntoTurns(Records(file[s])))
=============================================================================
