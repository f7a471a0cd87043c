--------------------------- MODULE CanonicalEvents ---------------------------
(***************************************************************************)
(* How one record of a transcript, in the format of the agent that wrote   *)
(* it, becomes a canonical event: a speaker, a list of blocks and a tool   *)
(* vocabulary that do not depend on the agent.                             *)
(*                                                                         *)
(* A raw record is a TLA+ record with one field per JSON field the parsers *)
(* look at, Nil where the JSON has none (or one of another type); NoRecord *)
(* is the record with no field at all.  A JSON object (the input of a      *)
(* tool, its result) is a function from the keys it has.  Texts are short  *)
(* words: "" is empty, Blank has nothing but white space.  An identifier   *)
(* is a tuple, so that the ones the code makes up from others are tuples   *)
(* too.                                                                    *)
(***************************************************************************)
EXTENDS Sequences, Integers, TLC

CONSTANTS
    Nil,            \* a JSON field, or an Option, that is not there
    Blank,          \* a text of white space only
    SnakeCase       \* to_snake_case, on the names the transcripts use

ASSUME NilAssumption == Nil \notin Nat

NoRecord ==
    [agent |-> Nil, ts |-> 0, type |-> Nil, sub |-> Nil,
     role |-> Nil,              \* Codex: payload.role
     parts |-> Nil,             \* the content array, a sequence of parts
     text |-> Nil,              \* content as a string; summary; output; reasoning
     id |-> Nil, parent |-> Nil, call |-> Nil, turn |-> Nil,
     name |-> Nil, input |-> Nil, payload |-> Nil, err |-> FALSE,
     side |-> FALSE, meta |-> FALSE, compact |-> FALSE,
     forked |-> Nil, spawned |-> Nil, thread |-> Nil, leaf |-> Nil, session |-> Nil,
     facts |-> <<>>]            \* what the metadata upsert reads

NoPart ==
    [type |-> Nil, text |-> Nil, id |-> Nil, name |-> Nil, input |-> Nil, err |-> FALSE]

OrElse(x, default) == IF x = Nil THEN default ELSE x

EmptyId == <<"">>

\* str::trim().is_empty() of a text that may be missing.
IsBlank(text) == text \in {Nil, "", Blank}

-----------------------------------------------------------------------------
(* The tool vocabulary.                                                    *)

\* The raw names that have a canonical one of their own.
ToolAliases ==
    [read           |-> {"Read", "read_file"},
     write          |-> {"Write", "write_file"},
     edit           |-> {"Edit", "apply_diff"},
     multi_edit     |-> {"MultiEdit"},
     bash           |-> {"Bash", "shell", "execute_shell"},
     grep           |-> {"Grep", "grep_search"},
     glob           |-> {"Glob", "glob_files"},
     task           |-> {"Task", "spawn_agent"},
     todo_write     |-> {"TodoWrite", "todo_update"},
     web_fetch      |-> {"WebFetch", "fetch_url"},
     web_search     |-> {"WebSearch", "web_search_query"},
     notebook_edit  |-> {"NotebookEdit"},
     bash_output    |-> {"BashOutput"},
     kill_shell     |-> {"KillShell", "killShell"},
     exit_plan_mode |-> {"ExitPlanMode", "exitPlanMode"}]

Renamed(aliases, raw) ==
    IF \E c \in DOMAIN aliases : raw \in aliases[c]
    THEN CHOOSE c \in DOMAIN aliases : raw \in aliases[c]
    ELSE SnakeCase[raw]

CanonicalToolName(raw) == Renamed(ToolAliases, raw)

\* The first of the keys that the object has.
HasFirst(obj, keys) == \E i \in DOMAIN keys : keys[i] \in DOMAIN obj

First(obj, keys) ==
    obj[keys[CHOOSE i \in DOMAIN keys :
                /\ keys[i] \in DOMAIN obj
                /\ \A j \in DOMAIN keys : j < i => keys[j] \notin DOMAIN obj]]

FirstOr(obj, keys, default) == IF HasFirst(obj, keys) THEN First(obj, keys) ELSE default

\* copy_first and copy_key: what is kept of a tool's input, under which key.
KeptKeys ==
    [read       |-> [path |-> <<"path", "file_path">>, offset |-> <<"offset">>,
                     limit |-> <<"limit">>],
     write      |-> [path |-> <<"path", "file_path">>, content |-> <<"content">>],
     bash       |-> [command |-> <<"command">>, description |-> <<"description">>],
     grep       |-> [pattern |-> <<"pattern">>, path |-> <<"path", "glob">>,
                     mode |-> <<"mode", "output_mode">>],
     glob       |-> [pattern |-> <<"pattern">>, path |-> <<"path">>],
     task       |-> [agent |-> <<"agent", "subagent_type">>,
                     description |-> <<"description">>, prompt |-> <<"prompt">>],
     todo_write |-> [todos |-> <<"todos">>],
     web_fetch  |-> [url |-> <<"url">>, prompt |-> <<"prompt">>],
     web_search |-> [query |-> <<"query">>, prompt |-> <<"prompt">>]]

CopyKept(obj, kept) ==
    [key \in {k \in DOMAIN kept : HasFirst(obj, kept[k])} |-> First(obj, kept[key])]

InputPath(obj) == FirstOr(obj, <<"path", "file_path">>, Nil)

NoEdit ==
    [path |-> Nil, operation |-> Nil, old_path |-> Nil, old_text |-> Nil,
     new_text |-> Nil, replace_all |-> Nil]

\* One edit in the shape all editing tools share.
FileEdit(path, obj) ==
    [NoEdit EXCEPT
        !.path = path, !.operation = "update",
        !.old_text = FirstOr(obj, <<"old_text", "old_string">>, ""),
        !.new_text = FirstOr(obj, <<"new_text", "new_string">>, ""),
        !.replace_all = FirstOr(obj, <<"replace_all">>, Nil)]

\* A patch is the sequence of its file directives [head, path, to], the diff
\* under each left out.
PatchOperation ==
    ("Update File" :> "update") @@ ("Add File" :> "add") @@
    ("Delete File" :> "delete") @@ ("Move File" :> "move")

DirectiveEdit(line) ==
    LET moved == line.head = "Move File"
    IN  [NoEdit EXCEPT
            !.path = IF moved THEN OrElse(line.to, line.path) ELSE line.path,
            !.operation = PatchOperation[line.head],
            !.old_path = IF moved THEN line.path ELSE Nil]

\* parse_apply_patch: one edit per file directive.
PatchEdits(patch) ==
    LET directives == SelectSeq(patch, LAMBDA line : line.head \in DOMAIN PatchOperation)
    IN  [i \in 1..Len(directives) |-> DirectiveEdit(directives[i])]

\* An input that is a JSON string has the one pseudo key "patch"; Nil is null.
CanonicalToolInput(tool, input) ==
    CASE input = Nil -> Nil
      [] input # Nil /\ "patch" \in DOMAIN input ->
            IF tool = "apply_patch"
            THEN [file_edits |-> PatchEdits(input.patch)] ELSE input
      [] input # Nil /\ tool = "edit" ->
            [file_edits |-> <<FileEdit(InputPath(input), input)>>]
      [] input # Nil /\ tool = "multi_edit" ->
            LET edits == FirstOr(input, <<"edits">>, <<>>)
            IN  [file_edits |-> [i \in 1..Len(edits) |-> FileEdit(InputPath(input), edits[i])]]
      [] input # Nil /\ tool \in DOMAIN KeptKeys -> CopyKept(input, KeptKeys[tool])
      [] OTHER -> input

\* canonicalize_tool_result_payload: the keys of a result are renamed.
ResultAliases ==
    [path |-> {"filePath", "file_path"}, old_text |-> {"oldString", "old_string"},
     new_text |-> {"newString", "new_string"}, replace_all |-> {"replaceAll", "replace_all"},
     original_file |-> {"originalFile", "original_file"},
     structured_patch |-> {"structuredPatch", "structured_patch"},
     user_modified |-> {"userModified", "user_modified"}]

CanonicalResult(payload) ==
    [key \in {Renamed(ResultAliases, raw) : raw \in DOMAIN payload} |->
        payload[CHOOSE raw \in DOMAIN payload : Renamed(ResultAliases, raw) = key]]

-----------------------------------------------------------------------------
(* Blocks.                                                                 *)

NoBlock ==
    [kind |-> "unknown", text |-> Nil, tool |-> Nil, name |-> Nil,
     input |-> Nil, output |-> Nil, err |-> Nil]

TextBlock(text) == [NoBlock EXCEPT !.kind = "text", !.text = text]

ThinkingBlock(text) == [NoBlock EXCEPT !.kind = "thinking", !.text = text]

ToolUseBlock(id, raw, input) ==
    [NoBlock EXCEPT !.kind = "tool_use", !.tool = id,
                    !.name = CanonicalToolName(raw),
                    !.input = CanonicalToolInput(CanonicalToolName(raw), input)]

ToolResultBlock(id, text, err, output) ==
    [NoBlock EXCEPT !.kind = "tool_result", !.tool = id, !.text = text,
                    !.err = err, !.output = output]

KindsOf(blocks) == {blocks[i].kind : i \in DOMAIN blocks} \ {"unknown"}

ContentKindOf(blocks) ==
    LET kinds == KindsOf(blocks)
    IN  CASE kinds = {} -> "none"
          [] \E k \in kinds : kinds = {k} -> CHOOSE k \in kinds : TRUE
          [] OTHER -> "mixed"

NoEvent ==
    [agent |-> Nil, speaker |-> "other", content |-> "none", uuid |-> Nil, parent |-> Nil,
     related |-> Nil, side |-> FALSE, meta |-> FALSE, subtype |-> Nil, blocks |-> <<>>]

WithBlocks(event, blocks) ==
    [event EXCEPT !.blocks = blocks, !.content = ContentKindOf(blocks)]

-----------------------------------------------------------------------------
(* Claude Code.                                                            *)

\* Only the first tool_result of a record carries toolUseResult.
FirstResultPart(parts, i) ==
    \A j \in DOMAIN parts : j < i => parts[j].type # "tool_result"

PartBlock(parts, i, payload) ==
    LET p == parts[i]
        output == IF payload # Nil /\ FirstResultPart(parts, i)
                  THEN CanonicalResult(payload) ELSE Nil
    IN  CASE p.type = "text" -> TextBlock(OrElse(p.text, ""))
          [] p.type = "thinking" -> ThinkingBlock(OrElse(p.text, ""))
          [] p.type = "tool_use" ->
                ToolUseBlock(OrElse(p.id, EmptyId), OrElse(p.name, ""), p.input)
          [] p.type = "tool_result" ->
                ToolResultBlock(OrElse(p.id, EmptyId), p.text, p.err, output)
          [] OTHER -> NoBlock

ParseBlocks(parts, payload) == [i \in 1..Len(parts) |-> PartBlock(parts, i, payload)]

ClaudeBlocks(r) ==
    CASE r.parts # Nil /\ r.parts # <<>> -> ParseBlocks(r.parts, r.payload)
      [] r.parts = Nil /\ r.text # Nil /\ r.type # "summary" -> <<TextBlock(r.text)>>
      [] r.parts \in {Nil, <<>>} /\ r.text # Nil /\ r.type = "summary" ->
            <<TextBlock(r.text)>>
      [] OTHER -> <<>>

ParseClaude(r) ==
    WithBlocks(
        [NoEvent EXCEPT
            !.agent = "claude-code",
            !.speaker = IF r.type \in {"user", "assistant", "system", "summary"}
                        THEN r.type ELSE "other",
            !.uuid = r.id, !.parent = r.parent, !.related = r.call,
            !.side = r.side, !.meta = r.meta, !.subtype = r.sub],
        ClaudeBlocks(r))

-----------------------------------------------------------------------------
(* Codex.                                                                  *)

\* Mutant: what the assistant says has a type of its own.
InputBlock(p) == IF p.type = "input_text" THEN TextBlock(OrElse(p.text, "")) ELSE NoBlock

MessageBlock(p) ==
    IF p.type \in {"input_text", "output_text"} THEN TextBlock(OrElse(p.text, "")) ELSE NoBlock

MessageBlocks(r) ==
    CASE r.parts # Nil -> [i \in 1..Len(r.parts) |-> MessageBlock(r.parts[i])]
      [] r.parts = Nil /\ r.text # Nil -> <<TextBlock(r.text)>>
      [] OTHER -> <<>>

MessageSpeaker(role) ==
    CASE role \in {"user", "assistant"} -> role
      [] role \in {"developer", "system"} -> "system"
      [] OTHER -> "other"

CodexCalls == {"function_call", "custom_tool_call"}
CodexOutputs == {"function_call_output", "custom_tool_call_output"}

ParseResponseItem(r) ==
    LET sub  == OrElse(r.sub, "response_item")
        call == OrElse(r.call, EmptyId)
        e    == [NoEvent EXCEPT !.agent = "codex", !.subtype = sub]
    IN  CASE sub = "message" ->
                WithBlocks([e EXCEPT !.speaker = MessageSpeaker(r.role),
                                     !.meta = r.role \in {"developer", "system"}],
                           MessageBlocks(r))
          [] sub = "reasoning" ->
                WithBlocks([e EXCEPT !.speaker = "assistant"],
                           <<ThinkingBlock(OrElse(r.text, ""))>>)
          [] sub \in CodexCalls ->
                WithBlocks([e EXCEPT !.speaker = "assistant"],
                           <<ToolUseBlock(call, OrElse(r.name, sub), r.input)>>)
          [] sub \in CodexOutputs ->
                WithBlocks([e EXCEPT !.speaker = "system", !.related = call],
                           <<ToolResultBlock(call, r.text, r.err, Nil)>>)
          [] OTHER -> [e EXCEPT !.speaker = "system", !.meta = TRUE]

CodexMeta == {"session_meta", "turn_context", "compacted"}

ParseCodex(r) ==
    LET e == [NoEvent EXCEPT !.agent = "codex", !.speaker = "system", !.meta = TRUE]
    IN  CASE r.type = "response_item" -> ParseResponseItem(r)
          [] r.type = "event_msg" ->
                [e EXCEPT !.subtype = OrElse(r.sub, "event_msg"), !.related = r.call]
          [] r.type \in CodexMeta -> [e EXCEPT !.subtype = r.type]
          [] OTHER ->
                [e EXCEPT !.speaker = "other", !.subtype = OrElse(r.type, ""),
                          !.blocks = <<NoBlock>>]

Parse(r) == IF r.agent = "codex" THEN ParseCodex(r) ELSE ParseClaude(r)
=============================================================================
