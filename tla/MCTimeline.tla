----------------------------- MODULE MCTimeline -----------------------------
(***************************************************************************)
(* Instances of TimelineStore for TLC: what the agents write, and what may *)
(* happen while it is stored.                                              *)
(***************************************************************************)
EXTENDS TimelineProperties

MCSnakeCase ==
    [exec_command |-> "exec_command", apply_patch |-> "apply_patch", custom |-> "custom"]

MCOperations ==
    [bash         |-> [type |-> "bash", category |-> "utility"],
     exec_command |-> [type |-> "exec_command", category |-> "utility"],
     read         |-> [type |-> "read", category |-> "inspect"],
     edit         |-> [type |-> "edit", category |-> "create_content"],
     apply_patch  |-> [type |-> "apply_patch", category |-> "create_content"],
     task         |-> [type |-> "task", category |-> "delegate"]]

InTree(at) == [root |-> "rel", at |-> at, slash |-> FALSE]
Word(w) == [root |-> "word", at |-> <<w>>, slash |-> FALSE]
MCDirectories == {<<"src">>}

InRepo == [root |-> <<"repo">>, dir |-> <<"repo", "sub">>]

-----------------------------------------------------------------------------
(* Records.  The i-th record of a session has the timestamp 10 * i.          *)

Id(x, i) == <<x, i>>

Claude(i, type) ==
    [NoRecord EXCEPT !.agent = "claude-code", !.type = type, !.id = Id("e", i), !.ts = 10 * i,
                     !.parent = Id("e", i - 1), !.facts = [model |-> Id("m", i)]]

Said(text) == [NoPart EXCEPT !.type = "text", !.text = text]
Thought(text) == [NoPart EXCEPT !.type = "thinking", !.text = text]
Use(id, name, input) ==
    [NoPart EXCEPT !.type = "tool_use", !.id = id, !.name = name, !.input = input]
Result(id, text, err) ==
    [NoPart EXCEPT !.type = "tool_result", !.id = id, !.text = text, !.err = err]

Prompt(i) == [Claude(i, "user") EXCEPT !.text = "ask"]
Answer(i, parts) == [Claude(i, "assistant") EXCEPT !.parts = parts]
Outcome(i, parts) == [Claude(i, "user") EXCEPT !.parts = parts]
Sidechain(r, id, parent) == [r EXCEPT !.side = TRUE, !.id = id, !.parent = parent]

Reads == [file_path |-> InTree(<<"src", "b">>)]
Shell(c) == [command |-> <<Word(c), InTree(<<"src", "a">>)>>]

Codex(i, type, sub) ==
    [NoRecord EXCEPT !.agent = "codex", !.type = type, !.sub = sub, !.ts = 10 * i]

Meta(i, id, spawned) ==
    [Codex(i, "session_meta", Nil) EXCEPT !.id = id, !.spawned = spawned,
                                          !.facts = [cli_version |-> 1]]
Turn(i, id) ==
    [Codex(i, "turn_context", Nil) EXCEPT !.turn = id, !.facts = [model |-> id]]
Started(i, id) == [Codex(i, "event_msg", "task_started") EXCEPT !.turn = id]
Message(i, role, text) ==
    [Codex(i, "response_item", "message") EXCEPT !.role = role,
        !.parts = <<[NoPart EXCEPT !.type = "output_text", !.text = text]>>]
Reasoning(i, text) == [Codex(i, "response_item", "reasoning") EXCEPT !.text = text]
Call(i, id, name, input) ==
    [Codex(i, "response_item", "function_call") EXCEPT !.call = id, !.name = name, !.input = input]
Output(i, id, text) ==
    [Codex(i, "response_item", "function_call_output") EXCEPT !.call = id, !.text = text]
Spawned(i, call, thread) ==
    [Codex(i, "event_msg", "collab_agent_spawn_end") EXCEPT !.call = call, !.thread = thread,
        !.facts = [model |-> <<"child">>]]

-----------------------------------------------------------------------------
(* Stories.                                                                *)

CONSTANTS root, child      \* the sessions: of the root, of its child or its twin

\* Offsets of records that are as long as each other.
Every(length) == [i \in 1..12 |-> (i - 1) * length]

NoStory ==
    [records |-> [s \in {root, child} |-> <<>>], starts |-> [s \in {root, child} |-> Every(1)],
     agent |-> [s \in {root, child} |-> "claude-code"], legacy |-> [s \in {root, child} |-> 0],
     begun |-> [s \in {root, child} |-> 0],
     current |-> {root, child}, correlates |-> {}, context |-> [s \in {root, child} |-> InRepo],
     may |-> {}, viewed |-> Nil, opened |-> Nil, filters |-> NoFilters, twins |-> {}, subagents |-> {},
     calls |-> [s \in {root, child} |-> Nil]]

One(agent, records) ==
    [NoStory EXCEPT !.records[root] = records, !.agent[root] = agent]

\* One kind of record of a single-session Claude transcript.
Shape(kind, i) ==
    CASE kind = "prompt"  -> Prompt(i)
      [] kind = "blank"   -> [Prompt(i) EXCEPT !.text = ""]
      [] kind = "text"    -> Answer(i, <<Said("one"), Said(Blank), Said("two")>>)
      [] kind = "think"   -> Answer(i, <<Thought("hm")>>)
      [] kind = "call"    -> Answer(i, <<Use(Id("t", 1), "Bash", Shell("ls")), Said("then")>>)
      [] kind = "result"  -> Outcome(i, <<Result(Id("t", 1), "out", TRUE)>>)
      [] kind = "system"  -> [Claude(i, "system") EXCEPT !.text = "note", !.sub = "hook"]

Shapes == <<"prompt", "blank", "text", "think", "call", "result", "system">>

Sequence(a, b, d) == One("claude-code", <<Shape(a, 1), Shape(b, 2), Shape(d, 3)>>)

\* The n-th sequence of three records.
Nth(n) == Sequence(Shapes[(n % 7) + 1], Shapes[((n \div 7) % 7) + 1], Shapes[(n \div 49) + 1])

\* Claude Code: a call of Task, its sidechain, another prompt after it.
ClaudeTask ==
    <<Prompt(1),
      Answer(2, <<Use(Id("t", 2), "Task", [description |-> "look", prompt |-> "find it"])>>),
      Sidechain(Prompt(3), Id("e", 3), Id("e", 2)),
      Sidechain(Answer(4, <<Said("found")>>), Id("e", 4), Id("e", 3)),
      Outcome(5, <<Result(Id("t", 2), "found", FALSE)>>),
      Prompt(6)>>

\* The head of a transcript that goes on after a compaction.
Compacted ==
    <<[Claude(1, "summary") EXCEPT !.text = "before", !.leaf = SessionId(child)],
      Prompt(2), Answer(3, <<Said("after")>>)>>

Growing ==
    <<Prompt(1), Answer(2, <<Use(Id("t", 1), "Bash", Shell("ls")), Use(Id("t", 2), "Read", Reads)>>),
      Outcome(3, <<Result(Id("t", 1), "out", TRUE)>>), Answer(4, <<Said("done")>>)>>

CodexTurns ==
    <<Meta(1, SessionId(root), Nil), Turn(2, Id("turn", 1)), Message(3, "user", "ask"),
      Turn(4, Id("turn", 2)), Message(5, "assistant", "done")>>

Root ==
    <<Meta(1, SessionId(root), Nil), Message(2, "user", "ask"),
      Call(3, Id("t", 3), "spawn_agent", [agent |-> "helper"]),
      Spawned(4, Id("t", 3), SessionId(child)), Output(10, Id("t", 3), "ok")>>
Child ==
    <<Meta(5, SessionId(child), SessionId(root)), Started(6, Id("turn", 6)),
      Message(7, "assistant", "found"), Message(8, "assistant", "really")>>

RootAndChild ==
    [NoStory EXCEPT !.records[root] = Root, !.records[child] = Child, !.agent[root] = "codex",
                    !.agent[child] = "codex", !.starts[child] = Every(7), !.begun[root] = 3, !.begun[child] = 1,
                    !.subagents = {child}, !.calls[root] = child]

Twins ==
    [NoStory EXCEPT
        !.records[root] =
            <<Prompt(1), Answer(2, <<Thought("hm")>>), Answer(3, <<Said("one")>>),
              Answer(4, <<Use(Id("t", 4), "Bash", Shell("ls"))>>),
              Outcome(5, <<Result(Id("t", 4), "out", FALSE)>>),
              Answer(6, <<Said("two")>>), Prompt(7), Answer(8, <<Said("three")>>)>>,
        !.records[child] =
            <<Meta(1, SessionId(child), Nil), Turn(1, Id("turn", 1)), Message(1, "user", "ask"),
              Reasoning(2, "hm"), Message(3, "assistant", "one"),
              Call(4, Id("t", 4), "shell", Shell("ls")), Output(5, Id("t", 4), "out"),
              Message(6, "assistant", "two"), Message(7, "user", "ask"),
              Message(8, "assistant", "three")>>,
        !.agent[child] = "codex", !.begun[root] = 7, !.begun[child] = 10, !.twins = {root, child}]

MCScenarios ==
    <<[One("claude-code", ClaudeTask) EXCEPT !.begun[root] = 3, !.viewed = root],
      [One("claude-code", Compacted) EXCEPT !.may = {"crash", "insert"}],
      [One("codex", CodexTurns) EXCEPT !.begun[root] = 2, !.may = {"crash", "rebuild"}],
      [One("codex", CodexTurns) EXCEPT !.begun[root] = 3, !.may = {"reindex", "hangup"}],
      \* Rows of an earlier release, then two records more.
      [One("codex", CodexTurns) EXCEPT !.legacy[root] = 4, !.begun[root] = 4, !.may = {"crash"}],
      [One("claude-code", ClaudeTask) EXCEPT !.legacy[root] = 6, !.begun[root] = 6, !.viewed = root,
                                             !.opened = 0, !.may = {"reindex"}],
      RootAndChild,
      [RootAndChild EXCEPT !.legacy[root] = 5, !.begun[root] = 5, !.may = {"crash"}],
      Twins,
      \* A prompt whose preview would be cut within a character.
      [One("claude-code", <<Prompt(1), [Prompt(2) EXCEPT !.text = "e'"], Prompt(3)>>)
          EXCEPT !.legacy[root] = 1, !.begun[root] = 1, !.may = {"reindex"}],
      \* A prompt of the child at the offset of a turn of its root.
      [RootAndChild EXCEPT !.starts[child] = Every(1), !.records[child][2] = Message(6, "user", "go")],
      [Sequence("prompt", "call", "result") EXCEPT !.current = {}, !.correlates = {root}],
      \* A view with the first turn open, while it grows.
      [One("claude-code", Growing) EXCEPT !.begun[root] = 2, !.viewed = root, !.opened = 0,
                                          !.filters.categories = {"inspect"}]>>

MCStories == MCScenarios \o [n \in 1..343 |-> Nth(n - 1)]
=============================================================================
