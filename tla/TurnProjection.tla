--------------------------- MODULE TurnProjection ---------------------------
(***************************************************************************)
(* How the stored events of a session become the turns of its timeline:    *)
(* what each turn says, the tool calls it pairs with their results, the    *)
(* log of the subagent a call started, the files a call touched and the    *)
(* signals the activity views count.                                       *)
(*                                                                         *)
(* An event is a canonical event with the offset, timestamp and kind of    *)
(* its row; the events of a session are a sequence in the order they are   *)
(* projected.  A text put together from others is the sequence of them.    *)
(***************************************************************************)
EXTENDS CodexLineage, SequencesExt, FiniteSetsExt

CONSTANTS
    Operations,     \* tool_category_rules: tool name -> [type, category]
    Uncuttable,     \* texts a cut at the preview's length would split a character of
    Directories     \* paths of the repository that are directories

BookkeepingKinds ==
    {"file-history-snapshot", "permission-mode", "last-prompt", "queue-operation", "attachment"}

NoFilters ==
    [speakers |-> {}, categories |-> {}, errors |-> FALSE, bookkeeping |-> FALSE,
     sidechain |-> FALSE]

-----------------------------------------------------------------------------
(* Sequences.                                                              *)

\* The elements of s at the indices in at, in order.
Picked(s, at) ==
    LET picked[i \in 0..Len(s)] ==
            IF i = 0 THEN <<>>
            ELSE IF i \in at THEN Append(picked[i - 1], s[i]) ELSE picked[i - 1]
    IN  picked[Len(s)]

\* SelectSeq, put so that a proof can look inside it: filter over an iterator.
Where(s, Test(_)) == Picked(s, {i \in DOMAIN s : Test(s[i])})

-----------------------------------------------------------------------------
(* Events.                                                                 *)

\* event_speaker: rows from before the speaker column fall back to their kind.
SpeakerOf(e) ==
    CASE e.speaker # Nil -> e.speaker
      [] e.speaker = Nil /\ e.kind \in {"assistant", "user", "system", "summary"} -> e.kind
      [] OTHER -> "other"

BlocksOf(e, kind) == Where(e.blocks, LAMBDA b : b.kind = kind)

TextsOf(e, kind) ==
    LET bs == SelectSeq(BlocksOf(e, kind), LAMBDA b : b.text # Nil)
    IN  [i \in 1..Len(bs) |-> bs[i].text]

ThinkingOf(e) == SelectSeq(TextsOf(e, "thinking"), LAMBDA t : ~IsBlank(t))

IsToolResult(e) == BlocksOf(e, "tool_result") # <<>>
IsAssistant(e) == SpeakerOf(e) = "assistant"
IsPrompt(e) == SpeakerOf(e) = "user" /\ ~IsToolResult(e)

SpeakerFacet(e) ==
    CASE IsAssistant(e) -> "assistant"
      [] ~IsAssistant(e) /\ IsToolResult(e) -> "tool_result"
      [] IsPrompt(e) -> "user"
      [] OTHER -> Nil

EventVisible(e, filters) == SpeakerFacet(e) \notin filters.speakers

-----------------------------------------------------------------------------
(* Turns.                                                                  *)

\* Where a turn starts: at every prompt, and at the first event.
Starts(events) ==
    Where([i \in 1..Len(events) |-> i], LAMBDA i : i = 1 \/ IsPrompt(events[i]))

\* group_into_turns: the events of each turn.
Seeds(events) ==
    LET starts == Starts(events)
        Until(k) == IF k < Len(starts) THEN starts[k + 1] - 1 ELSE Len(events)
    IN  [k \in 1..Len(starts) |-> SubSeq(events, starts[k], Until(k))]

PromptOf(seed) == IF IsPrompt(seed[1]) THEN seed[1] ELSE Nil

\* The events of a turn its prompt is not one of.
Answers(seed) == IF IsPrompt(seed[1]) THEN Tail(seed) ELSE seed

Gather(seed, Of(_)) == FlattenSeq([i \in 1..Len(seed) |-> Of(seed[i])])

UsesIn(e) ==
    IF IsAssistant(e)
    THEN LET bs == BlocksOf(e, "tool_use")
         IN  [i \in 1..Len(bs) |-> [block |-> bs[i], uuid |-> e.uuid]]
    ELSE <<>>

Results(seed) == Gather(seed, LAMBDA e : BlocksOf(e, "tool_result"))

\* A later result of the same call replaces an earlier one.
LastResult(results, id) ==
    LET found == SelectSeq(results, LAMBDA b : b.tool = id)
    IN  IF found = <<>> THEN Nil ELSE Last(found)

OperationOf(name) ==
    IF name \in DOMAIN Operations THEN Operations[name] ELSE [type |-> name, category |-> "other"]

PairFor(use, results) ==
    LET b == use.block
        result == LastResult(results, b.tool)
    IN  [id |-> b.tool, uuid |-> use.uuid, name |-> b.name,
         type |-> OperationOf(b.name).type, category |-> OperationOf(b.name).category,
         input |-> b.input,
         result |-> IF result = Nil THEN Nil
                    ELSE [content |-> result.text, payload |-> result.output, err |-> result.err],
         err |-> result # Nil /\ result.err, pending |-> result = Nil,
         touches |-> <<>>, subagent |-> Nil]

\* The tool calls of a turn, each with its result, without subagents.
BarePairs(seed) ==
    LET uses == Gather(seed, UsesIn)
        results == Results(seed)
    IN  [i \in 1..Len(uses) |-> PairFor(uses[i], results)]

\* pair_by_id: of two calls with one id the later one.
HasPair(pairs, id) == \E i \in DOMAIN pairs : pairs[i].id = id
PairById(pairs, id) == pairs[Max({i \in DOMAIN pairs : pairs[i].id = id})]

PairVisible(pair, filters) == pair.category \notin filters.categories

-----------------------------------------------------------------------------
(* Chunks: what the conversation view shows of a turn, in order.           *)

NoChunk ==
    [kind |-> Nil, items |-> <<>>, thinking |-> <<>>, pair |-> Nil, subtype |-> Nil,
     text |-> <<>>, meta |-> FALSE, label |-> Nil, blocks |-> <<>>]

TextItem(text) == [text |-> text, pair |-> Nil]
ToolItem(id) == [text |-> Nil, pair |-> id]

\* The items an assistant event adds, tools that are hidden left out.
ItemsIn(e, pairs, filters) ==
    LET Shown(b) ==
            \/ b.kind = "text" /\ b.text \notin {Nil, ""}
            \/ /\ b.kind = "tool_use" /\ b.tool # Nil
               /\ HasPair(pairs, b.tool) /\ PairVisible(PairById(pairs, b.tool), filters)
        bs == Where(e.blocks, Shown)
    IN  [i \in 1..Len(bs) |->
            IF bs[i].kind = "text" THEN TextItem(bs[i].text) ELSE ToolItem(bs[i].tool)]

HasText(items) == \E i \in DOMAIN items : items[i].text # Nil
ToolsIn(items) == Where(items, LAMBDA it : it.pair # Nil)

NothingPending == [chunks |-> <<>>, items |-> <<>>, thinking |-> <<>>]

\* What is pending becomes a chunk when it has a text or a thought.
Flush(acc) ==
    [NothingPending EXCEPT !.chunks =
        IF HasText(acc.items) \/ acc.thinking # <<>>
        THEN Append(acc.chunks, [NoChunk EXCEPT !.kind = "assistant", !.items = acc.items,
                                                !.thinking = acc.thinking])
        ELSE acc.chunks]

\* An assistant event is pending until it calls a tool that is shown.
AddAssistant(acc, e, pairs, filters) ==
    LET items == ItemsIn(e, pairs, filters)
        tools == ToolsIn(items)
        added == [acc EXCEPT !.items = @ \o items, !.thinking = @ \o ThinkingOf(e)]
        calls == [i \in 1..Len(tools) |-> [NoChunk EXCEPT !.kind = "tool", !.pair = tools[i].pair]]
    IN  IF tools = <<>> THEN added
        ELSE [Flush(added) EXCEPT !.chunks = @ \o calls]

\* An event of neither the user nor the assistant.
OtherChunk(e) ==
    CASE SpeakerOf(e) = "summary" ->
            [NoChunk EXCEPT !.kind = "summary", !.subtype = e.subtype, !.text = TextsOf(e, "text")]
      [] SpeakerOf(e) = "system" ->
            [NoChunk EXCEPT !.kind = "system", !.subtype = e.subtype,
                            !.text = TextsOf(e, "text"), !.meta = e.meta]
      [] OTHER ->
            [NoChunk EXCEPT !.kind = "generic", !.label = e.kind, !.subtype = e.subtype,
                            !.blocks = e.blocks]

\* Mutant: what is pending goes when another event comes.
AddEventUnflushed(acc, e, pairs, filters) ==
    CASE IsToolResult(e) \/ ~EventVisible(e, filters) -> acc
      [] ~IsToolResult(e) /\ EventVisible(e, filters) /\ IsAssistant(e) ->
            AddAssistant(acc, e, pairs, filters)
      [] OTHER -> [NothingPending EXCEPT !.chunks = Append(acc.chunks, OtherChunk(e))]

AddEvent(acc, e, pairs, filters) ==
    CASE IsToolResult(e) \/ ~EventVisible(e, filters) -> acc
      [] ~IsToolResult(e) /\ EventVisible(e, filters) /\ IsAssistant(e) ->
            AddAssistant(acc, e, pairs, filters)
      [] OTHER -> LET flushed == Flush(acc)
                  IN  [flushed EXCEPT !.chunks = Append(@, OtherChunk(e))]

AddEvents(events, pairs, filters) ==
    LET after[i \in 0..Len(events)] ==
            IF i = 0 THEN NothingPending ELSE AddEvent(after[i - 1], events[i], pairs, filters)
    IN  after[Len(events)]

\* build_chunks.
Chunks(seed, pairs, filters) == Flush(AddEvents(Answers(seed), pairs, filters)).chunks

-----------------------------------------------------------------------------
(* The same turn as a document.                                            *)

\* The key of the input that the one-line summary of a tool shows.
SummaryKeys(type) ==
    CASE type \in {"edit", "write", "multi_edit", "read"} -> <<"path">>
      [] type = "bash" -> <<"command">>
      [] type = "exec_command" -> <<"cmd", "command">>
      [] type \in {"grep", "glob"} -> <<"pattern">>
      [] type = "task" -> <<"description", "agent">>
      [] type = "web_fetch" -> <<"url">>
      [] type = "web_search" -> <<"query">>
      [] OTHER -> <<>>

InputOr(input, keys, default) == IF input = Nil THEN default ELSE FirstOr(input, keys, default)

ToolStatus(pair) ==
    CASE pair.pending -> "pending" [] ~pair.pending /\ pair.err -> "error" [] OTHER -> ""

\* format_tool_input: what stands under the header of a tool.
ToolBody(pair) ==
    LET edits == InputOr(pair.input, <<"file_edits">>, <<>>)
    IN  CASE pair.input = Nil -> <<>>
          [] edits # <<>> ->
                [i \in 1..Len(edits) |-> [operation |-> edits[i].operation,
                     path |-> edits[i].path, from |-> edits[i].old_path]]
          [] edits = <<>> /\ pair.type \in {"bash", "exec_command"} ->
                <<InputOr(pair.input, <<"command", "cmd">>, Nil)>>
          [] edits = <<>> /\ pair.type = "write" -> <<InputOr(pair.input, <<"content">>, Nil)>>
          [] edits = <<>> /\ pair.type = "todo_write" -> InputOr(pair.input, <<"todos">>, <<>>)
          [] OTHER -> <<pair.input>>

MarkdownPart ==
    [text |-> Nil, pair |-> Nil, type |-> Nil, summary |-> Nil, status |-> "", body |-> <<>>,
     result |-> Nil]

ToolMarkdown(pair) ==
    [MarkdownPart EXCEPT
        !.pair = pair.id, !.type = pair.type,
        !.summary = InputOr(pair.input, SummaryKeys(pair.type), Nil),
        !.status = ToolStatus(pair), !.body = ToolBody(pair),
        !.result = IF pair.result = Nil THEN Nil ELSE pair.result.content]

AssistantMarkdown(e, pairs) ==
    LET Written(b) == \/ b.kind = "text" /\ ~IsBlank(b.text)
                      \/ b.kind = "tool_use" /\ b.tool # Nil /\ HasPair(pairs, b.tool)
        bs == Where(e.blocks, Written)
    IN  [i \in 1..Len(bs) |->
            IF bs[i].kind = "text" THEN [MarkdownPart EXCEPT !.text = bs[i].text]
            ELSE ToolMarkdown(PairById(pairs, bs[i].tool))]

\* format_turn_markdown, the quoted prompt left to the prompt of the turn.
Markdown(seed, pairs) ==
    Gather(Where(Answers(seed), LAMBDA e : ~IsToolResult(e) /\ IsAssistant(e)),
           LAMBDA e : AssistantMarkdown(e, pairs))

\* A joined text is empty when it has no part, or a single empty one.
EmptyText(texts) == texts \in {<<>>, <<"">>}

\* turn_preview: the texts it is cut from, by whom.
Preview(seed) ==
    LET said == Where(seed, IsAssistant)
        prompt == IF PromptOf(seed) = Nil THEN <<>> ELSE TextsOf(PromptOf(seed), "text")
        answer == IF said = <<>> THEN <<>> ELSE TextsOf(said[1], "text")
    IN  CASE ~EmptyText(prompt) -> [by |-> "user", text |-> prompt]
          [] EmptyText(prompt) /\ ~EmptyText(answer) -> [by |-> "assistant", text |-> answer]
          [] OTHER -> [by |-> Nil, text |-> <<>>]

\* first_paragraph cuts at a byte: it panics within a character.
PreviewPanics(seed) == \E i \in DOMAIN Preview(seed).text : Preview(seed).text[i] \in Uncuttable

ProjectionPanics(events) == \E k \in DOMAIN Seeds(events) : PreviewPanics(Seeds(events)[k])

-----------------------------------------------------------------------------
(* Turns and the subagents they started.                                   *)

TurnFrom(seed, pairs, filters) ==
    [id |-> seed[1].offset,
     prompt |-> IF PromptOf(seed) = Nil THEN Nil ELSE TextsOf(PromptOf(seed), "text"),
     preview |-> Preview(seed),
     start |-> seed[1].ts, end |-> Last(seed).ts,
     duration |-> Max({0, Last(seed).ts - seed[1].ts}),
     events |-> Len(seed), operations |-> Len(pairs), pairs |-> pairs,
     thinking |-> Len(SelectSeq(seed, LAMBDA e : IsAssistant(e) /\ ThinkingOf(e) # <<>>)),
     errors |-> \E i \in DOMAIN Results(seed) : Results(seed)[i].err = TRUE,
     markdown |-> Markdown(seed, pairs), chunks |-> Chunks(seed, pairs, filters)]

\* The uuids reached from a tool call over the parents of sidechain events.
Lineage(events, id, uuid) ==
    LET at == DOMAIN events
        seeds == {uuid} \cup {events[i].uuid : i \in {j \in at : events[j].related = id}}
        reached[n \in 0..Len(events)] ==
            IF n = 0 THEN seeds \ {Nil}
            ELSE reached[n - 1] \cup
                 {events[i].uuid : i \in {j \in at : /\ events[j].side /\ events[j].uuid # Nil
                                                     /\ events[j].parent \in reached[n - 1]}}
    IN  reached[Len(events)]

\* Mutant: the events reached from those of the subagent are not followed.
SubagentEventsDirect(events, id, uuid) ==
    SelectSeq(events, LAMBDA e : (e.side /\ e.parent = uuid) \/ e.related = id)

\* collect_subagent_events.
SubagentEvents(events, id, uuid) ==
    LET lineage == Lineage(events, id, uuid)
    IN  SelectSeq(events, LAMBDA e : (e.side /\ e.uuid \in lineage) \/ e.related = id)

SubagentOf(pair, events) ==
    LET selected == SubagentEvents(events, pair.id, pair.uuid)
        seeds == Seeds(selected)
    IN  IF pair.type # "task" \/ pair.id = EmptyId \/ selected = <<>> THEN Nil
        ELSE [title |-> InputOr(pair.input, <<"description", "agent">>, Nil),
              events |-> Len(selected),
              turns |-> [k \in 1..Len(seeds) |->
                            TurnFrom(seeds[k], BarePairs(seeds[k]), NoFilters)]]

\* project_turn with the links to subagents, looked for among all the events.
ProjectTurn(seed, events, filters) ==
    LET bare == BarePairs(seed)
        pairs == [i \in 1..Len(bare) |-> [bare[i] EXCEPT !.subagent = SubagentOf(bare[i], events)]]
    IN  TurnFrom(seed, pairs, filters)

-----------------------------------------------------------------------------
(* The files a tool call touched.  A path is [root, at, slash]: root is    *)
(* "abs", "rel", "word" (relative, and not like a path) or "none" (an      *)
(* option, a URL, a variable), at its components, slash whether it ends in *)
(* one.  A command is the sequence of its tokens.                          *)

PathsAt(obj, keys) ==
    LET here == SelectSeq(keys, LAMBDA key : key \in DOMAIN obj /\ obj[key] # Nil)
    IN  [i \in 1..Len(here) |-> obj[here[i]]]

EditPaths(edits) ==
    FlattenSeq([i \in 1..Len(edits) |-> PathsAt(edits[i], <<"path", "old_path">>)])

IsCommand(pair) == pair.type \in {"bash", "exec_command"}

CommandPaths(pair) ==
    IF IsCommand(pair)
    THEN SelectSeq(FirstOr(pair.input, <<"command", "cmd">>, <<>>), LAMBDA p : p.root # "word")
    ELSE <<>>

Candidates(pair) ==
    IF pair.input = Nil THEN <<>>
    ELSE PathsAt(pair.input, <<"path", "file_path", "old_path", "new_path">>)
         \o FirstOr(pair.input, <<"paths">>, <<>>) \o FirstOr(pair.input, <<"files">>, <<>>)
         \o EditPaths(FirstOr(pair.input, <<"file_edits">>, <<>>))
         \o CommandPaths(pair)

\* Walk from a directory along the components of a path; Nil once it would
\* leave the root of the repository or of the file system.
WalkStep(root, at, component) ==
    CASE at = Nil -> Nil
      [] at # Nil /\ component = "." -> at
      [] at # Nil /\ component = ".." -> IF at \in {root, <<>>} THEN Nil ELSE Front(at)
      [] OTHER -> Append(at, component)

Below(root, path) ==
    IF path # Nil /\ IsStrictPrefix(root, path) THEN SubSeq(path, Len(root) + 1, Len(path)) ELSE Nil

Relative(root, base, path) ==
    Below(root, FoldLeft(LAMBDA at, c : WalkStep(root, at, c), base, path.at))

\* normalize_candidate: a relative path is looked for from the root of the
\* repository, and from the working directory only when that leaves it.
NormalPath(context, path) ==
    LET rel == CASE path.root = "none" -> Nil
                 [] path.root = "abs" -> Below(context.root, path.at)
                 [] path.root \in {"rel", "word"} /\ path.slash -> Nil
                 [] OTHER -> OrElse(Relative(context.root, context.root, path),
                                    Relative(context.root, context.dir, path))
    IN  IF rel \in Directories THEN Nil ELSE rel

Writes == {"write", "edit", "multi_edit", "apply_patch", "create", "update", "delete", "add",
           "remove"}

TouchKind(pair) ==
    CASE pair.type \in Writes -> "write" [] IsCommand(pair) -> "command" [] OTHER -> "inspect"

\* push_touch: each file once.
PushTouch(touches, path, pair) ==
    IF path = Nil \/ \E i \in DOMAIN touches : touches[i].path = path THEN touches
    ELSE Append(touches, [path |-> path, kind |-> TouchKind(pair), write |-> pair.type \in Writes])

\* extract_file_touches.
FileTouches(pair, context) ==
    IF context = Nil THEN <<>>
    ELSE FoldLeft(LAMBDA touches, p : PushTouch(touches, NormalPath(context, p), pair),
                  <<>>, Candidates(pair))

-----------------------------------------------------------------------------
(* What is stored of a turn.                                               *)

Signal(type, value, count) == [type |-> type, value |-> value, count |-> count]

CountWhere(seq, Test(_)) == Cardinality({i \in DOMAIN seq : Test(seq[i])})

Categories == <<"create_content", "delegate", "inspect", "other", "research", "utility",
                "workflow">>

\* build_activity_signals: those with a count, categories in alphabetical order.
Signals(turn, sidechain) ==
    LET OfCategory(c) == CountWhere(turn.pairs, LAMBDA p : p.category = c)
        all ==
            <<Signal("speaker", "user",
                     IF turn.prompt # Nil /\ \E i \in DOMAIN turn.prompt : ~IsBlank(turn.prompt[i])
                     THEN 1 ELSE 0),
              Signal("speaker", "assistant",
                     CountWhere(turn.chunks, LAMBDA c : c.kind = "assistant")),
              Signal("speaker", "tool_result", CountWhere(turn.pairs, LAMBDA p : p.result # Nil))>>
            \o [i \in 1..Len(Categories) |->
                   Signal("operation_category", Categories[i], OfCategory(Categories[i]))]
            \o <<Signal("thinking", Nil, turn.thinking),
                 Signal("error", Nil, IF turn.errors
                                      THEN Max({1, CountWhere(turn.pairs, LAMBDA p : p.err)})
                                      ELSE 0),
                 Signal("sidechain", Nil, IF sidechain THEN 1 ELSE 0)>>
    IN  Where(all, LAMBDA s : s.count > 0)

\* apply_operation_file_touches.
WithTouches(pairs, context) ==
    [i \in DOMAIN pairs |->
        LET call == [type |-> pairs[i].type, input |-> pairs[i].input]
        IN  [pairs[i] EXCEPT !.touches = FileTouches(call, context)]]

\* One turn of build_session_projection.
WithDerived(turn, sidechain, context) ==
    [turn |-> [turn EXCEPT !.pairs = WithTouches(turn.pairs, context)],
     sidechain |-> sidechain, signals |-> Signals(turn, sidechain)]

StoredTurn(seed, events, context) ==
    WithDerived(ProjectTurn(seed, events, NoFilters), seed[1].side, context)

SessionProjection(events, context) ==
    LET seeds == Seeds(events)
    IN  [k \in 1..Len(seeds) |-> StoredTurn(seeds[k], events, context)]

-----------------------------------------------------------------------------
(* Filters applied to a stored turn when it is read.                       *)

FilterItems(items, pairs, filters) ==
    SelectSeq(items, LAMBDA it : \/ it.pair = Nil
                                 \/ /\ HasPair(pairs, it.pair)
                                    /\ PairVisible(PairById(pairs, it.pair), filters))

\* filter_chunk, on a chunk whose items were filtered.
ChunkPasses(c, pairs, filters) ==
    CASE c.kind = "assistant" ->
            /\ "assistant" \notin filters.speakers
            /\ c.items # <<>> \/ c.thinking # <<>>
      [] c.kind = "tool" ->
            /\ "assistant" \notin filters.speakers
            /\ HasPair(pairs, c.pair) /\ PairVisible(PairById(pairs, c.pair), filters)
      [] c.kind = "system" -> filters.bookkeeping \/ ~c.meta
      [] c.kind = "generic" -> filters.bookkeeping \/ c.label \notin BookkeepingKinds
      [] OTHER -> TRUE

FilterChunks(turn, filters) ==
    SelectSeq([i \in 1..Len(turn.chunks) |->
                  [turn.chunks[i] EXCEPT !.items = FilterItems(@, turn.pairs, filters)]],
              LAMBDA c : ChunkPasses(c, turn.pairs, filters))
=============================================================================
