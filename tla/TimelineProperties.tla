------------------------- MODULE TimelineProperties -------------------------
(***************************************************************************)
(* What has to hold of the stored events, the turns made from them and     *)
(* what a browser shows of them.                                           *)
(***************************************************************************)
EXTENDS TimelineStore

\* Rows stand where records do, turns under the id of their first event, and
\* the three processes are where their code can be.
TypeOK ==
    /\ written \in [Sessions -> Nat] /\ offset \in [Sessions -> Nat]
    /\ revision \in [Sessions -> Nat]
    /\ known \subseteq Sessions /\ current \subseteq Sessions /\ linked \subseteq known
    /\ \A s \in Sessions : DOMAIN rows[s] \subseteq {At(s, i) : i \in 1..written[s]}
    /\ \A s \in Sessions : \A id \in DOMAIN turns[s] : turns[s][id].turn.id = id
    /\ versions \subseteq {"blocks", "timeline"}
    /\ task.pc \in {"boot", "idle", "insert", "facts", "parent", "rebuild", "store", "gone"}
    /\ task.pc \in {"insert", "facts", "parent"} =>
          task.session \in Sessions /\ task.cursor <= task.upto /\ task.upto <= written[task.session]
    /\ repair.pc \in {"none", "clear", "bare", "walk", "missing", "rebuild", "store"}
    /\ viewer.pc \in {"idle", "total", "rows", "badges"}
    /\ mishaps \in 0..MaxMishaps

-----------------------------------------------------------------------------
(* Events.                                                                 *)

\* Whoever filled in the canonical columns of a row - the pass that stored it,
\* one that began in the middle of the transcript, or a repair that walked the
\* rows again - they say what the record means after all the records before it.
ParsedInContext ==
    \A s \in Sessions : \A o \in DOMAIN rows[s] :
        LET row == rows[s][o]
        IN  dropped[s] = {} /\ ~IsBare(row) =>
                row.event = ParseEvent(row.payload, o, s, ContextBefore(s, o))

\* The columns a projection reads are missing only until the repair that cleared
\* or found them has walked the rows, as long as that repair is not interrupted.
BareOnlyInRepair ==
    (\E s \in Sessions : \E o \in DOMAIN rows[s] : IsBare(rows[s][o])) =>
        \/ "blocks" \notin versions
        \/ repair.pc \in {"bare", "walk"}
        \/ {"crash", "hangup"} \cap story.may # {}

\* The committed offset does not pass a record that names the session this one
\* continues without the lineage being set: a crash between the statements
\* reads the record again (and only a failing insert of it then passes it over).
LineageSettled ==
    \A s \in Sessions : \A o \in DOMAIN rows[s] \ dropped[s] :
        /\ o < At(s, offset[s] + 1)
        /\ ~IsBare(rows[s][o])
        /\ DetectParent(rows[s][o].payload, s) # Nil
        => lineage[s] # Nil

\* A fact of a session is that of the last record that carries it (without a
\* crash between the two statements that store a record).
Carriers(s, key) ==
    {o \in DOMAIN rows[s] : LET r == rows[s][o].payload
                            IN  key \in MetadataKeys(r) \cap DOMAIN r.facts}

FactsAreLatest ==
    \A s \in Sessions : \A key \in UNION {DOMAIN rows[s][o].payload.facts : o \in DOMAIN rows[s]} :
        /\ task.pc # "facts" /\ "crash" \notin story.may
        /\ story.legacy[s] = 0 /\ Carriers(s, key) # {}
        => /\ key \in DOMAIN metadata[s]
           /\ metadata[s][key] = rows[s][LastIn(Carriers(s, key))].payload.facts[key]

\* What follows from a stored record for its session is done, whichever writer
\* came to it and whatever stopped one half-way.
RecordsTakenOver ==
    /\ BareOnlyInRepair
    /\ LineageSettled
    /\ FactsAreLatest

-----------------------------------------------------------------------------
(* Turns.                                                                  *)

InOrder(s) == \A o, q \in DOMAIN rows[s] : o < q => rows[s][o].ts <= rows[s][q].ts

\* Nothing went wrong so far; a reindex of sessions that nothing is added to is
\* nothing wrong.
Calm ==
    \/ mishaps = 0
    \/ story.may = {"reindex"} /\ \A s \in Sessions : story.legacy[s] = Len(story.records[s])

Quiet(s) == task.pc = "idle" /\ repair.pc = "none" /\ rows[s] # <<>>

\* What an incremental rebuild is to leave as a full one would: not the logs of
\* subagents, nor the touches of a session linked after its first events.
LastingCall(s, pair) ==
    [pair EXCEPT !.subagent = Nil, !.touches = IF s \in story.current THEN @ ELSE <<>>]

Lasting(s, t) ==
    LET pairs == t.turn.pairs
    IN  [t EXCEPT !.turn.pairs = [i \in DOMAIN pairs |-> LastingCall(s, pairs[i])]]

LastingTurns(s, stored) == [id \in DOMAIN stored |-> Lasting(s, stored[id])]

IsStored(s, plan) ==
    CanCommit(plan) =>
        LastingTurns(s, turns[s])
        = LastingTurns(s, [id \in PlanIds(plan) |->
              plan.turns[CHOOSE k \in DOMAIN plan.turns : plan.turns[k].turn.id = id]])

\* Between passes the turns of a session are what a full rebuild makes of its
\* events and of those of its subagents, although passes only rebuild a suffix.
CurrentWhenQuiet ==
    \A s \in Sessions :
        Quiet(s) /\ Calm /\ InOrder(s) /\ ~ProjectionPanics(SourceEvents(s))
            => IsStored(s, FullPlan(s))

\* The abstraction of the events that Ingester groups: a prompt or another event.
Grouping == INSTANCE TurnGrouping WITH Prompts <- {TRUE}

Kinds(s) == [o \in DOMAIN rows[s] |-> IsPrompt(StoredEvent(o, rows[s][o]))]

\* A turn starts at a prompt and lasts up to the next one: between passes the
\* stored turns are those of TurnGrouping, whatever the records are made of.
TurnsAreGroups ==
    \A s \in Sessions :
        Quiet(s) /\ Calm /\ InOrder(s) /\ Children(s) = {} /\ ~ProjectionPanics(SourceEvents(s)) =>
            {[id |-> id, ord |-> turns[s][id].ord, events |-> turns[s][id].turn.events]
                : id \in DOMAIN turns[s]}
            = {[id |-> t.id, ord |-> t.ord, events |-> Cardinality(t.events)]
                : t \in Grouping!GroupIntoTurns(Kinds(s))}

\* Between passes the timeline of a session is complete and cut at its prompts.
TurnsAreCurrent ==
    /\ CurrentWhenQuiet
    /\ TurnsAreGroups

ItemTexts(items) ==
    LET said == Where(items, LAMBDA it : ~IsBlank(it.text))
    IN  [j \in DOMAIN said |-> said[j].text]

ChunkTexts(chunks) == FlattenSeq([i \in 1..Len(chunks) |-> ItemTexts(chunks[i].items)])

ChunkTools(chunks) ==
    LET tools == Where(chunks, LAMBDA c : c.kind = "tool")
    IN  [i \in DOMAIN tools |-> tools[i].pair]

MarkdownTexts(parts) ==
    LET said == Where(parts, LAMBDA p : p.text # Nil)
    IN  [i \in DOMAIN said |-> said[i].text]

MarkdownTools(parts) ==
    LET tools == Where(parts, LAMBDA p : p.pair # Nil)
    IN  [i \in DOMAIN tools |-> tools[i].pair]

RenderedAlike(turn) ==
    /\ ChunkTexts(turn.chunks) = MarkdownTexts(turn.markdown)
    /\ ChunkTools(turn.chunks) = MarkdownTools(turn.markdown)

\* The conversation and the document made of a turn tell the same: the same
\* texts of the assistant and the same tool calls, each in the same order.
RenderingsAgree ==
    \A s \in Sessions : \A id \in DOMAIN turns[s] : RenderedAlike(turns[s][id].turn)

\* What a reader is told of a turn, whoever wrote the transcript.
Told(turn) ==
    [prompt |-> turn.prompt, preview |-> turn.preview, markdown |-> turn.markdown,
     chunks |-> SelectSeq(turn.chunks, LAMBDA c : ~c.meta),
     operations |-> turn.operations, thinking |-> turn.thinking, errors |-> turn.errors,
     pairs |-> [i \in DOMAIN turn.pairs |-> [turn.pairs[i] EXCEPT !.uuid = Nil]]]

ToldOf(s) ==
    LET prompted == SelectSeq(TurnOrder(turns[s]), LAMBDA id : turns[s][id].turn.prompt # Nil)
    IN  [i \in DOMAIN prompted |-> Told(turns[s][prompted[i]].turn)]

Ingested(s) == task.pc = "idle" /\ repair.pc = "none" /\ offset[s] = Len(story.records[s])

\* A projection reads the same whether Claude Code or Codex wrote down the same
\* conversation ("agent-agnostic", canonical/mod.rs).
AgentAgnostic ==
    \A s, q \in story.twins :
        Ingested(s) /\ Ingested(q) /\ mishaps = 0 => ToldOf(s) = ToldOf(q)

TextsIn(turnSeq) == UNION {ToSet(MarkdownTexts(turnSeq[i].markdown)) : i \in DOMAIN turnSeq}

SubagentTexts(s) ==
    UNION {UNION {TextsIn(p.subagent.turns) : p \in {x \in ToSet(turns[s][id].turn.pairs) :
                                                        x.subagent # Nil}}
             : id \in DOMAIN turns[s]}

SaidBy(s) ==
    UNION {ToSet(TextsOf(StoredEvent(o, rows[s][o]), "text"))
             : o \in {x \in DOMAIN rows[s] : IsAssistant(StoredEvent(x, rows[s][x]))}}

\* What a subagent said in a transcript of its own is in the log of the call
\* that started it, in the timeline of the session that made the call (unless
\* two turns there would have the same id, an offset in each transcript).
SubagentShown ==
    \A s \in Sessions : \A c \in story.subagents :
        /\ Quiet(s) /\ Calm /\ story.calls[s] = c
        /\ offset[s] = Len(story.records[s]) /\ CanCommit(FullPlan(s))
        => SaidBy(c) \subseteq SubagentTexts(s)

-----------------------------------------------------------------------------
(* The view.                                                               *)

\* A view that holds the present revision shows the present turns: the revision
\* is read before them, so that what changes meanwhile is asked for again.  (A
\* reindex removes the turns without a new revision.)
ViewIsOfItsRevision ==
    /\ Viewed # Nil /\ viewer.loaded # Nil
    /\ viewer.loaded = revision[Viewed] /\ turns[Viewed] # <<>>
    => viewer.shown = Summary(turns[Viewed], story.filters)

\* The detail of the open turn is read over three statements and kept as long as
\* the fingerprint of the turn does not change: when it is that of the present
\* summary it is the present turn, not a mixture of two, apart from the logs of
\* subagents (whose growth the fingerprint does not tell) and from what a reindex
\* removes meanwhile.
DetailIsOfItsSummary ==
    /\ Viewed # Nil /\ viewer.loaded # Nil /\ viewer.detail # Nil
    /\ viewer.loaded = revision[Viewed] /\ turns[Viewed] # <<>> /\ "reindex" \notin story.may
    /\ viewer.detail.print = OpenPrint(viewer.shown)
    => LET stored == turns[Viewed][story.opened].turn
           Logless(t) == [t EXCEPT !.pairs = [i \in DOMAIN @ |-> [@[i] EXCEPT !.subagent = Nil]]]
       IN  Logless(viewer.detail.turn)
           = Logless(Detail(stored, stored.pairs, TouchesOf(Viewed, story.opened)))

\* What a browser shows is the timeline of one moment, list and open turn.
ViewIsCurrent ==
    /\ ViewIsOfItsRevision
    /\ DetailIsOfItsSummary
=============================================================================
