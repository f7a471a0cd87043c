---------------------------- MODULE CodexLineage ----------------------------
(***************************************************************************)
(* What the ingester adds to a Codex record that the record alone does not *)
(* say: identifiers, the event it belongs to and whether it is that of a   *)
(* subagent.  They come from a context carried along the transcript, which *)
(* a pass that does not begin at its start reads back from the rows stored *)
(* before.  Also the session a record continues, and the facts about a     *)
(* session that its records carry.                                         *)
(*                                                                         *)
(* E maps the byte offset of each stored record of a session to that       *)
(* record.                                                                 *)
(***************************************************************************)
EXTENDS CanonicalEvents

SessionId(s) == <<s>>

SyntheticId(s, o) == <<"codex", s, o>>

OutputId(id, o) == id \o <<"output", o>>

NewContext(s) == [session |-> SessionId(s), parent |-> Nil, turn |-> Nil]

\* codex_parent_session_string: the session forked from, or the thread that
\* spawned this one.
ParentSession(r) == OrElse(r.forked, r.spawned)

OpensCodexTurn(r) ==
    r.type = "turn_context" \/ (r.type = "event_msg" /\ r.sub = "task_started")

\* update_codex_context.
UpdateContext(ctx, r, s) ==
    CASE r.type = "session_meta" ->
            [ctx EXCEPT !.session = OrElse(r.id, SessionId(s)), !.parent = ParentSession(r)]
      [] OpensCodexTurn(r) -> [ctx EXCEPT !.turn = r.turn]
      [] OTHER -> ctx

\* stored_event_kind: the value of events.kind.
StoredKind(r) ==
    IF r.agent # "codex" THEN OrElse(r.type, "unknown")
    ELSE IF r.type \in {"response_item", "event_msg"} THEN OrElse(r.sub, r.type)
    ELSE IF r.type \in {Nil, ""} THEN "unknown" ELSE r.type

\* The kind says what update_codex_context would make of the record: an agent
\* gives no other record one of these subtypes.
KindsAgree(r) ==
    /\ StoredKind(r) = "session_meta" <=> r.type = "session_meta"
    /\ StoredKind(r) \in {"turn_context", "task_started"} <=> OpensCodexTurn(r)

OfKind(E, kinds) == {o \in DOMAIN E : StoredKind(E[o]) \in kinds}

LastIn(offsets) == CHOOSE o \in offsets : \A q \in offsets : q <= o

UpdateWithLast(ctx, E, offsets, s) ==
    IF offsets = {} THEN ctx ELSE UpdateContext(ctx, E[LastIn(offsets)], s)

\* Mutant: the turn is not read back.
LoadSessionOnly(E, s) == UpdateWithLast(NewContext(s), E, OfKind(E, {"session_meta"}), s)

\* load_codex_context: the last session_meta row, then the last row that opens
\* a turn.
LoadContext(E, s) ==
    UpdateWithLast(
        UpdateWithLast(NewContext(s), E, OfKind(E, {"session_meta"}), s),
        E, OfKind(E, {"turn_context", "task_started"}), s)

\* What a record of this subtype hangs from: its turn, or the session.
Holder(ctx) == OrElse(ctx.turn, ctx.session)

FirstTool(blocks) ==
    IF \E i \in DOMAIN blocks : blocks[i].tool # Nil
    THEN blocks[CHOOSE i \in DOMAIN blocks :
                    blocks[i].tool # Nil /\ \A j \in DOMAIN blocks : j < i => blocks[j].tool = Nil].tool
    ELSE Nil

EnrichResponse(e, o, s, ctx) ==
    LET made == SyntheticId(s, o)
    IN  [e EXCEPT
            !.parent = Holder(ctx),
            !.side = ctx.parent # Nil,
            !.uuid = CASE e.subtype \in CodexCalls -> OrElse(FirstTool(e.blocks), made)
                       [] e.subtype \in CodexOutputs -> OutputId(e.related, o)
                       [] OTHER -> made]

EnrichEventMsg(e, r, o, s, ctx) ==
    LET made == SyntheticId(s, o)
    IN  CASE e.subtype = "task_started" ->
                [e EXCEPT !.uuid = OrElse(r.turn, made), !.parent = ctx.session,
                          !.side = ctx.parent # Nil]
          [] e.subtype = "collab_agent_spawn_end" ->
                [e EXCEPT !.uuid = OrElse(r.thread, made), !.parent = Holder(ctx),
                          !.side = FALSE]
          [] OTHER ->
                [e EXCEPT !.uuid = made, !.parent = OrElse(r.turn, Holder(ctx)),
                          !.side = ctx.parent # Nil]

\* enrich_codex_lineage.
Enrich(e, r, o, s, ctx) ==
    CASE r.type = "session_meta" ->
            [e EXCEPT !.uuid = OrElse(r.id, ctx.session), !.parent = ParentSession(r),
                      !.side = ParentSession(r) # Nil]
      [] r.type = "turn_context" ->
            [e EXCEPT !.uuid = OrElse(r.turn, SyntheticId(s, o)), !.parent = ctx.session,
                      !.side = ctx.parent # Nil]
      [] r.type = "response_item" -> EnrichResponse(e, o, s, ctx)
      [] r.type = "event_msg" -> EnrichEventMsg(e, r, o, s, ctx)
      [] OTHER -> e

\* parse_canonical_event.
ParseEvent(r, o, s, ctx) ==
    IF r.agent = "codex" THEN Enrich(Parse(r), r, o, s, ctx) ELSE Parse(r)

\* The sessions this record may name as the one its own session continues, in
\* the order they are looked at.  A leafUuid counts in a summary only.
ParentHints(r) ==
    CASE r.agent = "codex" -> <<ParentSession(r)>>
      [] r.agent # "codex" /\ (r.compact \/ r.type \in {"summary", "compact_summary"}) ->
            <<r.leaf, r.session>>
      [] OTHER -> <<r.session>>

\* detect_compaction_parent and detect_codex_parent_session: the first that is
\* not the session itself.
DetectParent(r, s) ==
    LET hints == SelectSeq(ParentHints(r), LAMBDA h : h \notin {Nil, SessionId(s)})
    IN  IF hints = <<>> THEN Nil ELSE Head(hints)

\* extract_metadata: which facts a record carries.
MetadataKeys(r) ==
    CASE r.agent # "codex" -> {"model", "cli_version", "cwd"}
      [] r.agent = "codex" /\ r.type = "session_meta" ->
            {"model_provider", "cli_version", "cwd"}
      [] r.agent = "codex" /\ r.type = "turn_context" -> {"model", "reasoning_effort", "cwd"}
      [] r.agent = "codex" /\ r.type = "event_msg" /\ r.sub = "task_started" ->
            {"model_context_window"}
      [] r.agent = "codex" /\ r.type = "event_msg" /\ r.sub = "collab_agent_spawn_end" ->
            {"model", "reasoning_effort"}
      [] OTHER -> {}

\* upsert_from_event: each column keeps its value when the record has none.
UpsertMetadata(metadata, r) ==
    LET own == MetadataKeys(r) \cap DOMAIN r.facts
    IN  [key \in own \cup DOMAIN metadata |-> IF key \in own THEN r.facts[key] ELSE metadata[key]]
=============================================================================
