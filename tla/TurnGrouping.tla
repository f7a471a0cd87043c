---------------------------- MODULE TurnGrouping ----------------------------
(***************************************************************************)
(* How the stored events of one agent session become timeline turns, and   *)
(* how the incremental rebuild re-derives only the suffix of them.         *)
(*                                                                         *)
(* The events of a session are a function E from byte offset to the kind   *)
(* of the record, with a function T from byte offset to its timestamp.  A  *)
(* turn keeps the offset of the event it starts with                       *)
(* (timeline_turns.turn_id), its position (turn_ord) and the offsets of    *)
(* the events it covers; everything else the row carries (preview,         *)
(* markdown, counters) is derived from those events.                       *)
(*                                                                         *)
(* Grouping goes by the keys of E.  A suffix is grouped in the order of    *)
(* the offsets; a full rebuild sorts the events by timestamp first, and    *)
(* groups them by their places in that order.                              *)
(***************************************************************************)
EXTENDS Integers, FiniteSets

CONSTANT Prompts    \* the record kinds that are a real user prompt

\* A prompt always opens a turn; any other event does only when no turn is open.
StartsTurn(E, o) == E[o] \in Prompts \/ \A q \in DOMAIN E : o <= q

TurnStarts(E) == {o \in DOMAIN E : StartsTurn(E, o)}

\* The events that fall to the turn t: from t up to the next turn's start.
TurnEvents(E, t) ==
    {o \in DOMAIN E : t <= o /\ \A u \in TurnStarts(E) : u <= o => u <= t}

TurnOrd(E, t) == Cardinality({u \in TurnStarts(E) : u < t})

Turn(E, t) == [id |-> t, ord |-> TurnOrd(E, t), events |-> TurnEvents(E, t)]

GroupIntoTurns(E) == {Turn(E, t) : t \in TurnStarts(E)}

\* The order of load_projection_source_events: by timestamp, then by offset.
Earlier(T, p, q) == T[p] < T[q] \/ (T[p] = T[q] /\ p < q)

Place(E, T, o) == Cardinality({q \in DOMAIN E : Earlier(T, q, o)})

OffsetAt(E, T, i) == CHOOSE o \in DOMAIN E : Place(E, T, o) = i

\* The events by their places in that order, from 0 on.
Sorted(E, T) == [i \in {Place(E, T, o) : o \in DOMAIN E} |-> E[OffsetAt(E, T, i)]]

\* The turns of the events so sorted: a turn's id is the offset of its first event.
GroupInTime(E, T) ==
    {[id |-> OffsetAt(E, T, t.id), ord |-> t.ord,
      events |-> {OffsetAt(E, T, i) : i \in t.events}] : t \in GroupIntoTurns(Sorted(E, T))}

\* Mutant: the event at the offset itself is not loaded.
EventsAfter(E, o) == [q \in {x \in DOMAIN E : o < x} |-> E[q]]

\* load_direct_session_events_from: the events at or after an offset.
EventsFrom(E, o) == [q \in {x \in DOMAIN E : o <= x} |-> E[q]]

EventsBelow(E, k) == [q \in {x \in DOMAIN E : x < k} |-> E[q]]

\* Mutant: the last turn, wherever the inserted events lie.
LatestTurn(turns, first) == {a \in turns : \A b \in turns : b.id <= a.id}

\* projection_rebuild_anchor: the last stored turn that starts at or before the
\* first inserted offset (a set of at most one turn).
RebuildAnchor(turns, first) ==
    {a \in turns : a.id <= first /\ \A b \in turns : b.id <= first => b.id <= a.id}

\* What one rebuild writes: delete the turns from "from" on, insert "turns".
Plan == [from : Nat, turns : SUBSET [id : Nat, ord : Nat, events : SUBSET Nat]]

NoPlan == [from |-> 0, turns |-> {}]

\* rebuild_session_projection clears the session and groups all its events.
FullPlan(E, T) == [from |-> 0, turns |-> GroupInTime(E, T)]

\* Mutant: the suffix is numbered from 0 again.
SuffixPlanFromZero(E, anchor) ==
    [from |-> anchor.id, turns |-> GroupIntoTurns(EventsFrom(E, anchor.id))]

SuffixPlan(E, anchor) ==
    [from  |-> anchor.id,
     turns |-> {[t EXCEPT !.ord = anchor.ord + @] :
                   t \in GroupIntoTurns(EventsFrom(E, anchor.id))}]

\* rebuild_session_projection_after_insert, up to the start of its transaction.
PlanAfterInsert(turns, E, T, first) ==
    LET anchors == RebuildAnchor(turns, first)
        anchor  == CHOOSE a \in anchors : TRUE
    IN  IF anchors = {} \/ DOMAIN EventsFrom(E, anchor.id) = {}
        THEN FullPlan(E, T)
        ELSE SuffixPlan(E, anchor)

\* The transaction: clear from the plan's first turn on, insert its turns.
ApplyPlan(turns, plan) == {t \in turns : t.id < plan.from} \cup plan.turns
=============================================================================
