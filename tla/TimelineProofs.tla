--------------------------- MODULE TimelineProofs ---------------------------
(***************************************************************************)
(* Proofs of what TimelineProperties states, for any number of sessions    *)
(* and any story.                                                          *)
(***************************************************************************)
EXTENDS TurnProjectionProofs

-----------------------------------------------------------------------------
(* Types: TypeOK with what makes it inductive, in parts that a step either *)
(* leaves alone or concerns.                                               *)

StoryOK == \E n \in DOMAIN Stories : story = Stories[n]

SetsOK ==
    /\ known \subseteq Sessions /\ current \subseteq Sessions /\ linked \subseteq known
    /\ versions \subseteq {"blocks", "timeline"}
    /\ mishaps \in 0..MaxMishaps

\* What is to be read of a transcript is in it.
LogOK ==
    /\ written \in [Sessions -> Nat] /\ offset \in [Sessions -> Nat]
    /\ \A s \in Sessions : offset[s] <= written[s] /\ written[s] <= Len(story.records[s])

RowsOK ==
    /\ DOMAIN rows = Sessions
    /\ \A s \in Sessions : DOMAIN rows[s] \subseteq {At(s, i) : i \in 1..written[s]}

TurnsOK ==
    /\ revision \in [Sessions -> Nat]
    /\ DOMAIN turns = Sessions
    /\ \A s \in Sessions : \A id \in DOMAIN turns[s] : turns[s][id].turn.id = id

TaskOK ==
    /\ DOMAIN task = DOMAIN NoTask
    /\ task.pc \in {"boot", "idle", "insert", "facts", "parent", "rebuild", "store", "gone"}
    /\ task.pc \in {"insert", "facts", "parent"} =>
          /\ task.session \in Sessions /\ task.cursor \in Nat /\ task.upto \in Nat
          /\ task.cursor <= task.upto /\ task.upto <= written[task.session]
    /\ task.pc \in {"facts", "parent"} => task.cursor < task.upto

RepairOK ==
    /\ DOMAIN repair = DOMAIN NoRepair
    /\ repair.pc \in {"none", "clear", "bare", "walk", "missing", "rebuild", "store"}
    /\ repair.session \in Sessions \cup {Nil}

ViewerOK ==
    /\ DOMAIN viewer = DOMAIN NoViewer
    /\ viewer.pc \in {"idle", "total", "rows", "badges"}

TInv ==
    /\ StoryOK /\ SetsOK /\ LogOK /\ RowsOK
    /\ TurnsOK /\ TaskOK /\ RepairOK /\ ViewerOK

LEMMA StoryFormed ==
    ASSUME StoryOK
    PROVE  WellFormed(story)
<1> QED BY StoriesAssumption DEF StoryOK

LEMMA TypesInit == Init => TInv
<1> SUFFICES ASSUME Init PROVE TInv
  OBVIOUS
<1>0. PICK n \in DOMAIN Stories : story = Stories[n]
  BY DEF Init
<1>1. WellFormed(story) /\ StoryOK
  BY <1>0, StoriesAssumption DEF StoryOK
<1>2. SetsOK /\ TaskOK /\ RepairOK /\ ViewerOK
  BY <1>1, MishapsAssumption DEF Init, WellFormed, SetsOK, TaskOK, RepairOK, ViewerOK, NoTask, NoRepair, NoViewer
<1>3. LogOK
  BY <1>1 DEF Init, WellFormed, LogOK
<1>4. RowsOK
  <2>1. ASSUME NEW s \in Sessions PROVE 1..story.legacy[s] \subseteq 1..written[s]
    BY <1>1 DEF Init, WellFormed
  <2> QED BY <2>1 DEF Init, RowsOK
<1>5. TurnsOK
  BY DEF Init, TurnsOK
<1> QED BY <1>1, <1>2, <1>3, <1>4, <1>5 DEF TInv

\* A step keeps the parts whose variables it leaves alone.
LEMMA Frame ==
    ASSUME TInv, UNCHANGED story
    PROVE  /\ StoryOK'
           /\ UNCHANGED <<known, current, linked, versions, mishaps>> => SetsOK'
           /\ UNCHANGED <<written, offset>> => LogOK'
           /\ UNCHANGED <<written, rows>> => RowsOK'
           /\ UNCHANGED <<revision, turns>> => TurnsOK'
           /\ UNCHANGED <<written, task>> => TaskOK'
           /\ UNCHANGED repair => RepairOK'
           /\ UNCHANGED viewer => ViewerOK'
<1>1. StoryOK' /\ (UNCHANGED <<known, current, linked, versions, mishaps>> => SetsOK')
  BY DEF TInv, StoryOK, SetsOK
<1>2. UNCHANGED <<written, offset>> => LogOK'
  BY DEF TInv, LogOK
<1>3. UNCHANGED <<written, rows>> => RowsOK'
  BY DEF TInv, RowsOK, At
<1>4. /\ UNCHANGED <<revision, turns>> => TurnsOK'
      /\ UNCHANGED <<written, task>> => TaskOK'
  BY DEF TInv, TurnsOK, TaskOK
<1>5. (UNCHANGED repair => RepairOK') /\ (UNCHANGED viewer => ViewerOK')
  BY DEF TInv, RepairOK, ViewerOK
<1> QED BY <1>1, <1>2, <1>3, <1>4, <1>5

\* The agents, the hook, and what looks at the tables only.
LEMMA TypesOutside ==
    ASSUME TInv, \/ \E s \in Sessions : Write(s) \/ LinkSession(s) \/ Correlate(s)
                 \/ View
    PROVE  TInv'
<1> USE DEF outside, rowVars, shownVars
<1>1. ASSUME NEW s \in Sessions, Write(s) PROVE TInv'
  <2>1. LogOK' /\ RowsOK' /\ TaskOK'
    BY <1>1 DEF Write, TInv, LogOK, RowsOK, TaskOK, At
  <2> QED BY <1>1, <2>1, Frame DEF Write, TInv
<1>2. ASSUME NEW s \in Sessions, LinkSession(s) \/ Correlate(s) PROVE TInv'
  <2>1. UNCHANGED <<story, written, offset, rows, revision, turns, task, repair, viewer>>
    BY <1>2 DEF LinkSession, Correlate
  <2>2. SetsOK'
    BY <1>2, StoryFormed DEF TInv, LinkSession, Correlate, SetsOK, WellFormed
  <2> QED BY <2>1, <2>2, Frame DEF TInv
<1>3. CASE View
  <2>1. ViewerKeeps
    BY <1>3 DEF View, Poll, ReadTotal, ReadRows, ReadBadges, ReadTurn, TurnNotFound,
                ReadOperations, ReadTouches
  <2>2. ViewerOK'
    <3> USE DEF TInv, ViewerOK, NoViewer
    <3>1. CASE Poll \/ ReadTotal \/ ReadRows
      BY <3>1 DEF Poll, ReadTotal, ReadRows
    <3>2. CASE ReadBadges
      BY <3>2 DEF ReadBadges, Show
    <3>3. CASE ReadTurn \/ TurnNotFound \/ ReadOperations \/ ReadTouches
      BY <3>3 DEF ReadTurn, TurnNotFound, ReadOperations, ReadTouches
    <3> QED BY <1>3, <3>1, <3>2, <3>3 DEF View
  <2> QED BY <2>1, <2>2, Frame DEF ViewerKeeps, TInv
<1> QED BY <1>1, <1>2, <1>3

\* What a rebuild stores.
LEMMA TypesCommit ==
    ASSUME TInv, NEW plan, CommitPlan(plan)
    PROVE  TurnsOK'
<1> USE DEF TInv, TurnsOK
<1> DEFINE p == plan.session
<1>1. p \in Sessions
  BY DEF CommitPlan, CanCommit, SetsOK
<1>2. ASSUME NEW id \in DOMAIN TurnsAfter(plan)
      PROVE TurnsAfter(plan)[id].turn.id = id
  <2>1. CASE id \in Kept(plan)
    BY <1>1, <2>1 DEF TurnsAfter, Kept
  <2>2. CASE id \notin Kept(plan)
    BY <1>2, <2>2 DEF TurnsAfter, PlanIds
  <2> QED BY <2>1, <2>2
<1> QED BY <1>1, <1>2 DEF CommitPlan

LEMMA TypesIngest ==
    ASSUME TInv, Ingest \/ InsertFails
    PROVE  TInv'
<1> USE DEF IngesterKeeps, outside, rowVars, shownVars
<1>1. ASSUME NEW s \in Sessions, OpenFile(s) PROVE TInv'
  <2>1. SetsOK' /\ TaskOK'
    BY <1>1 DEF OpenFile, TInv, SetsOK, TaskOK, LogOK, NoTask
  <2> QED BY <1>1, <2>1, Frame DEF OpenFile, TInv
<1>2. CASE InsertRow
  <2>1. Offset \in {At(task.session, i) : i \in 1..written[task.session]}
    <3>1. /\ task.session \in Sessions /\ written[task.session] \in Nat
          /\ task.cursor + 1 \in 1..written[task.session]
      BY <1>2 DEF InsertRow, TInv, TaskOK, LogOK
    <3> QED BY <3>1 DEF Offset
  <2>2. RowsOK'
    BY <1>2, <2>1 DEF InsertRow, TInv, TaskOK, RowsOK, At
  <2>3. TaskOK'
    BY <1>2 DEF InsertRow, TInv, TaskOK
  <2> QED BY <1>2, <2>2, <2>3, Frame DEF InsertRow, TInv
<1>3. CASE InsertFails
  <2>1. SetsOK' /\ TaskOK'
    BY <1>3, MishapsAssumption DEF InsertFails, Mishap, TInv, TaskOK, LogOK, SetsOK, NoTask
  <2> QED BY <1>3, <2>1, Frame DEF InsertFails, TInv
<1>4. CASE AddFacts \/ SetParent
  <2>1. CASE AddFacts
    <3>1. TaskOK'
      BY <2>1 DEF AddFacts, TInv, TaskOK, NoTask
    <3> QED BY <2>1, <3>1, Frame DEF AddFacts, TInv
  <2>2. CASE SetParent
    <3>1. TaskOK'
      BY <2>2 DEF SetParent, TInv, TaskOK, NoTask
    <3> QED BY <2>2, <3>1, Frame DEF SetParent, TInv
  <2> QED BY <1>4, <2>1, <2>2
<1>5. CASE CommitOffset
  <2>1. LogOK' /\ TaskOK'
    BY <1>5 DEF CommitOffset, TInv, TaskOK, LogOK
  <2> QED BY <1>5, <2>1, Frame DEF CommitOffset, TInv
<1>6. CASE LoadProjection \/ Panic
  <2>1. TaskOK'
    BY <1>6 DEF LoadProjection, Panic, TInv, TaskOK, NoTask
  <2> QED BY <1>6, <2>1, Frame DEF LoadProjection, Panic, TInv
<1>7. CASE StoreProjection
  <2>1. TaskOK'
    BY <1>7 DEF StoreProjection, NextRebuild, TInv, TaskOK
  <2> QED BY <1>7, <2>1, Frame, TypesCommit DEF StoreProjection, TInv
<1>8. CASE StoreRefused
  <2>1. SetsOK' /\ TaskOK'
    BY <1>8, MishapsAssumption DEF StoreRefused, NextRebuild, Mishap, TInv, TaskOK, SetsOK, NoTask
  <2> QED BY <1>8, <2>1, Frame DEF StoreRefused, TInv
<1> QED BY <1>1, <1>2, <1>3, <1>4, <1>5, <1>6, <1>7, <1>8 DEF Ingest

LEMMA TypesRepair ==
    ASSUME TInv, Repair \/ ListSessions \/ HangUp \/ Crash
    PROVE  TInv'
<1> USE DEF RepairKeeps, outside, rowVars, shownVars
<1>1. CASE ListSessions \/ HangUp \/ Crash
  <2>1. SetsOK'
    BY <1>1, MishapsAssumption DEF ListSessions, HangUp, Crash, Mishap, TInv, SetsOK
  <2>2. TaskOK'
    <3>1. CASE Crash
      BY <3>1 DEF Crash, TaskOK, NoTask
    <3>2. CASE ListSessions \/ HangUp
      BY <3>2, Frame DEF ListSessions, HangUp
    <3> QED BY <1>1, <3>1, <3>2
  <2>3. RepairOK'
    <3>1. CASE ListSessions
      BY <3>1 DEF ListSessions, RepairOK, NoRepair
    <3>2. CASE HangUp \/ Crash
      BY <3>2 DEF HangUp, Crash, RepairOK, NoRepair
    <3> QED BY <1>1, <3>1, <3>2
  <2> QED BY <1>1, <2>1, <2>2, <2>3, Frame DEF ListSessions, HangUp, Crash, TInv
<1>2. CASE Clear
  <2>1. SetsOK' /\ RepairOK' /\ TurnsOK'
    BY <1>2 DEF Clear, TInv, SetsOK, RepairOK, TurnsOK
  <2>2. RowsOK'
    BY <1>2 DEF Clear, TInv, RowsOK, At
  <2> QED BY <1>2, <2>1, <2>2, Frame DEF Clear, TInv
<1>3. CASE StartMaintenance \/ FindBare \/ FindMissing \/ LoadRepair
  <2>1. RepairOK'
    BY <1>3 DEF StartMaintenance, FindBare, FindMissing, LoadRepair, TInv, RepairOK, NoRepair
  <2> QED BY <1>3, <2>1, Frame DEF StartMaintenance, FindBare, FindMissing, LoadRepair, TInv
<1>4. CASE Walk
  <2>1. CASE (\E s \in Sessions : WalkSession(s)) \/ SessionWalked \/ Walked
    <3>0. RepairOK /\ SetsOK
      BY DEF TInv
    <3>1. RepairOK' /\ SetsOK'
      <4>1. CASE \E s \in Sessions : WalkSession(s)
        BY <3>0, <4>1 DEF WalkSession, RepairKeeps, RepairOK, SetsOK, NoRepair
      <4>2. CASE SessionWalked
        BY <3>0, <4>2 DEF SessionWalked, RepairKeeps, RepairOK, SetsOK, NoRepair
      <4>3. CASE Walked
        BY <3>0, <4>3 DEF Walked, RepairKeeps, RepairOK, SetsOK, NoRepair
      <4> QED BY <2>1, <4>1, <4>2, <4>3
    <3> QED BY <2>1, <3>1, Frame DEF WalkSession, SessionWalked, Walked, TInv
  <2>2. ASSUME NEW o \in DOMAIN rows[repair.session], WalkRow(o) PROVE TInv'
    <3>1. RepairOK'
      BY <2>2 DEF WalkRow, WalkAt, TInv, RepairOK
    <3>2. RowsOK'
      BY <2>2 DEF WalkRow, TInv, RowsOK, At
    <3> QED BY <2>2, <3>1, <3>2, Frame DEF WalkRow, TInv
  <2> QED BY <1>4, <2>1, <2>2 DEF Walk
<1>5. CASE StoreRepair
  <2>1. RepairOK'
    BY <1>5 DEF StoreRepair, TInv, RepairOK
  <2> QED BY <1>5, <2>1, Frame, TypesCommit DEF StoreRepair, TInv
<1>6. CASE RepairFails
  <2>1. TaskOK' /\ RepairOK'
    BY <1>6 DEF RepairFails, TInv, TaskOK, RepairOK, NoRepair
  <2> QED BY <1>6, <2>1, Frame DEF RepairFails, TInv
<1>7. CASE RepairEnds \/ StartIngester
  <2>1. SetsOK' /\ TaskOK' /\ RepairOK'
    BY <1>7 DEF RepairEnds, StartIngester, TInv, SetsOK, TaskOK, RepairOK, NoRepair, NoTask
  <2> QED BY <1>7, <2>1, Frame DEF RepairEnds, StartIngester, TInv
<1> QED BY <1>1, <1>2, <1>3, <1>4, <1>5, <1>6, <1>7 DEF Repair

LEMMA TypesNext == TInv /\ [Next]_vars => TInv'
<1> SUFFICES ASSUME TInv, [Next]_vars PROVE TInv'
  OBVIOUS
<1>1. CASE UNCHANGED vars
  BY <1>1, Frame DEF vars, outside, rowVars, shownVars, TInv
<1> QED BY <1>1, TypesOutside, TypesIngest, TypesRepair DEF Next

LEMMA TypesHold == Spec => []TInv
<1> QED BY TypesInit, TypesNext, PTL DEF Spec

\* Rows stand where records do and turns under the id of their first event, for
\* any stories.
THEOREM Types == Spec => []TypeOK
<1>1. TInv => TypeOK
  BY DEF TInv, TypeOK, StoryOK, SetsOK, LogOK, RowsOK, TurnsOK, TaskOK, RepairOK, ViewerOK
<1> QED BY <1>1, TypesHold, PTL

-----------------------------------------------------------------------------
(* Events.  Unless an insert failed the rows of a session are those of its *)
(* first records; the pass and the walk then know the context that the     *)
(* rows before them give, the pass also when rows beyond it were stored by *)
(* one that a crash stopped.                                               *)

\* The rows of a session are those of its first n records.
Prefix(s, n) ==
    /\ DOMAIN Payloads(s) = {At(s, i) : i \in 1..n}
    /\ \A i \in 1..n : Payloads(s)[At(s, i)] = story.records[s][i]

LEMMA PrefixKept ==
    ASSUME NEW s \in Sessions, NEW n \in Nat, UNCHANGED story,
           Payloads(s)' = Payloads(s), Prefix(s, n)
    PROVE  Prefix(s, n)'
<1> QED BY DEF Prefix, At

Reading(s) == task.pc \in {"insert", "facts", "parent"} /\ task.session = s

\* How many records the pass has stored, and how many its context has seen.
StoredSoFar == IF task.pc = "insert" THEN task.cursor ELSE task.cursor + 1
SeenSoFar == IF task.pc = "parent" THEN task.cursor + 1 ELSE task.cursor

PrefixInv ==
    \A s \in Sessions : dropped[s] = {} =>
        \E n \in 0..written[s] :
            Prefix(s, n) /\ offset[s] <= n /\ (Reading(s) => StoredSoFar <= n)

TaskContext ==
    \A s \in Sessions : dropped[s] = {} /\ Reading(s) =>
        Follows(task.ctx, Payloads(s), s, At(s, SeenSoFar + 1))

WalkContext ==
    \A s \in Sessions : dropped[s] = {} /\ repair.pc = "walk" /\ repair.session = s /\ s # Nil =>
        /\ repair.below \in Nat
        /\ repair.below = 0 \/ repair.below - 1 \in DOMAIN rows[s]
        /\ repair.ctx = ContextBefore(s, repair.below)

PInv == DOMAIN dropped = Sessions /\ PrefixInv /\ TaskContext /\ WalkContext /\ ParsedInContext

\* Offsets are in the order of the records.
LEMMA StartsInOrder ==
    ASSUME StoryOK, NEW s \in Sessions
    PROVE  /\ Len(story.records[s]) \in Nat
           /\ \A i \in 1..(Len(story.records[s]) + 1) : At(s, i) \in Nat
           /\ \A i, j \in 1..(Len(story.records[s]) + 1) : i < j => At(s, i) < At(s, j)
<1>1. WellFormed(story)
  BY StoryFormed
<1>2. \A i \in 1..(Len(story.records[s]) + 1) :
          At(s, i) \in Nat /\ \A j \in 1..(i - 1) : At(s, j) < At(s, i)
  BY <1>1 DEF WellFormed, At
<1>3. Len(story.records[s]) \in Nat
  BY <1>1 DEF WellFormed
<1>4. ASSUME NEW i \in 1..(Len(story.records[s]) + 1), NEW j \in 1..(Len(story.records[s]) + 1), i < j
      PROVE  At(s, i) < At(s, j)
  <2>1. i \in 1..(j - 1)
    BY <1>3, <1>4
  <2> QED BY <1>2, <2>1
<1> QED BY <1>2, <1>3, <1>4

LEMMA PrefixRows ==
    ASSUME TInv, NEW s \in Sessions, NEW n \in 0..written[s], Prefix(s, n)
    PROVE  /\ Rows(Payloads(s), At(s, n + 1))
           /\ \A q \in DOMAIN Payloads(s) : q < At(s, n + 1)
           /\ n \in Nat /\ n + 1 \in 1..(Len(story.records[s]) + 1)
<1> DEFINE L == Len(story.records[s])
<1>0. /\ L \in Nat /\ \A i \in 1..(L + 1) : At(s, i) \in Nat
      /\ \A i, j \in 1..(L + 1) : i < j => At(s, i) < At(s, j)
  <2>1. StoryOK
    BY DEF TInv
  <2> QED BY <2>1, StartsInOrder
<1>1. n \in Nat /\ n <= L /\ L \in Nat
  <2>1. written[s] \in Nat /\ written[s] <= L
    BY DEF TInv, LogOK
  <2> HIDE DEF L
  <2> QED BY <1>0, <2>1
<1>2. At(s, n + 1) \in Nat /\ \A i \in 1..n : At(s, i) \in Nat /\ At(s, i) < At(s, n + 1)
  <2> HIDE DEF L
  <2>1. n + 1 \in 1..(L + 1) /\ \A i \in 1..n : i \in 1..(L + 1) /\ i < n + 1
    BY <1>1
  <2> QED BY <1>0, <2>1
<1>3. \A i \in 1..n : KindsAgree(story.records[s][i])
  BY <1>1, StoryFormed DEF TInv, WellFormed
<1>4. \A q \in DOMAIN Payloads(s) : q \in Nat /\ q < At(s, n + 1) /\ KindsAgree(Payloads(s)[q])
  BY <1>2, <1>3 DEF Prefix
<1> QED BY <1>1, <1>2, <1>4 DEF Rows

\* The context before an offset is that of the rows before it.
LEMMA ContextKept ==
    ASSUME NEW s \in Sessions, NEW o,
           Earlier(s, o)' = Earlier(s, o),
           \A q \in Earlier(s, o) : Payloads(s)'[q] = Payloads(s)[q]
    PROVE  ContextBefore(s, o)' = ContextBefore(s, o)
<1>1. Restrict(Payloads(s), Earlier(s, o))' = Restrict(Payloads(s), Earlier(s, o))
  BY DEF Restrict
<1> QED BY <1>1 DEF ContextBefore

\* Steps that leave what is stored of a transcript, and the pass or its context.
LEMMA PrefixFrame ==
    ASSUME TInv, PrefixInv, TaskContext, UNCHANGED <<story, offset>>,
           \A s \in Sessions :
               /\ Payloads(s)' = Payloads(s)
               /\ dropped'[s] = {} => dropped[s] = {}
               /\ written'[s] \in Nat /\ written[s] <= written'[s],
           UNCHANGED task \/ task'.pc \notin {"insert", "facts", "parent"}
    PROVE  PrefixInv' /\ TaskContext'
<1>1. \A s \in Sessions :
          Reading(s)' => /\ Reading(s) /\ task' = task
                         /\ StoredSoFar' = StoredSoFar /\ SeenSoFar' = SeenSoFar
  BY DEF Reading, StoredSoFar, SeenSoFar
<1>2. PrefixInv'
  <2> SUFFICES ASSUME NEW s \in Sessions, dropped'[s] = {}
               PROVE  \E n \in 0..written'[s] :
                          Prefix(s, n)' /\ offset'[s] <= n /\ (Reading(s)' => StoredSoFar' <= n)
    BY DEF PrefixInv
  <2>0. dropped[s] = {} /\ written[s] \in Nat /\ written'[s] \in Nat /\ written[s] <= written'[s]
    BY DEF TInv, LogOK
  <2>1. PICK n \in 0..written[s] :
              Prefix(s, n) /\ offset[s] <= n /\ (Reading(s) => StoredSoFar <= n)
    BY <2>0 DEF PrefixInv
  <2>2. n \in 0..written'[s]
    BY <2>0
  <2>3. Payloads(s)' = Payloads(s) /\ \A i : At(s, i)' = At(s, i)
    BY DEF At
  <2>4. Prefix(s, n)'
    BY <2>1, <2>3 DEF Prefix
  <2> QED BY <1>1, <2>1, <2>2, <2>4
<1>3. TaskContext'
  <2> SUFFICES ASSUME NEW s \in Sessions, dropped'[s] = {}, Reading(s)'
               PROVE  Follows(task.ctx, Payloads(s), s, At(s, SeenSoFar + 1))'
    BY DEF TaskContext
  <2>1. dropped[s] = {} /\ Reading(s) /\ task' = task /\ SeenSoFar' = SeenSoFar
    BY <1>1
  <2>2. Follows(task.ctx, Payloads(s), s, At(s, SeenSoFar + 1))
    BY <2>1 DEF TaskContext
  <2>3. Payloads(s)' = Payloads(s) /\ At(s, SeenSoFar + 1)' = At(s, SeenSoFar + 1)
    BY <2>1 DEF At
  <2> QED BY <2>1, <2>2, <2>3
<1> QED BY <1>2, <1>3

\* Steps that change no row.
LEMMA ParsedFrame ==
    ASSUME ParsedInContext, UNCHANGED rows, \A s \in Sessions : dropped'[s] = {} => dropped[s] = {}
    PROVE  ParsedInContext'
<1>1. \A s \in Sessions : \A o : ContextBefore(s, o)' = ContextBefore(s, o)
  BY DEF ContextBefore, Payloads, Earlier
<1> QED BY <1>1 DEF ParsedInContext, IsBare

LEMMA WalkFrame ==
    ASSUME WalkContext, UNCHANGED rows, \A s \in Sessions : dropped'[s] = {} => dropped[s] = {},
           UNCHANGED repair \/ repair'.pc # "walk" \/ repair'.session = Nil
    PROVE  WalkContext'
<1>1. \A s \in Sessions : \A o : ContextBefore(s, o)' = ContextBefore(s, o)
  BY DEF ContextBefore, Payloads, Earlier
<1> QED BY <1>1 DEF WalkContext

\* Steps that leave the rows, and go on neither with a pass nor with a walk.
LEMMA ParsedKept ==
    ASSUME TInv, TInv', PInv, UNCHANGED <<story, offset, rows, dropped>>,
           \A s \in Sessions : written[s] <= written'[s],
           UNCHANGED task \/ task'.pc \notin {"insert", "facts", "parent"},
           UNCHANGED repair \/ repair'.pc # "walk" \/ repair'.session = Nil
    PROVE  PInv'
<1>1. \A s \in Sessions : Payloads(s)' = Payloads(s) /\ written'[s] \in Nat
  BY DEF Payloads, TInv, LogOK
<1>2. PrefixInv' /\ TaskContext'
  BY <1>1, PrefixFrame DEF PInv
<1> QED BY <1>2, ParsedFrame, WalkFrame DEF PInv

LEMMA ParsedInit ==
    ASSUME Init
    PROVE  PInv
<1>1. TInv
  BY TypesInit
<1>2. PrefixInv
  <2> SUFFICES ASSUME NEW s \in Sessions
               PROVE  LET n == story.legacy[s]
                      IN  n \in 0..written[s] /\ Prefix(s, n) /\ offset[s] <= n /\ ~Reading(s)
    BY DEF PrefixInv
  <2> DEFINE n == story.legacy[s]
  <2>1. /\ n \in 0..written[s] /\ n \in Nat /\ n + 1 \in 1..(Len(story.records[s]) + 1)
        /\ Len(story.records[s]) \in Nat
    BY <1>1, StoryFormed DEF Init, WellFormed, TInv
  <2>2. ASSUME NEW i \in 1..n
        PROVE  (CHOOSE j \in 1..n : At(s, j) = At(s, i)) = i
    <3>1. \A j, k \in 1..n : j < k => At(s, j) < At(s, k)
      BY <1>1, <2>1, StartsInOrder DEF TInv
    <3>2. \A j \in 1..n : At(s, j) \in Nat
      BY <1>1, <2>1, StartsInOrder DEF TInv
    <3> HIDE DEF n
    <3>3. \A j \in 1..n : At(s, j) = At(s, i) => j = i
      BY <2>1, <3>1, <3>2
    <3> QED BY <3>3
  <2>3. Prefix(s, n)
    BY <2>2 DEF Init, Prefix, Payloads, BareRow
  <2> QED BY <2>1, <2>3 DEF Init, Reading, NoTask
<1> QED BY <1>2 DEF Init, PInv, TaskContext, Reading, NoTask, WalkContext, NoRepair, ParsedInContext,
                    IsBare, BareRow

LEMMA ParsedOpen ==
    ASSUME TInv, TInv', PInv, NEW s \in Sessions, OpenFile(s)
    PROVE  PInv'
<1> USE DEF OpenFile, IngesterKeeps, outside, rowVars, shownVars
<1>0. /\ UNCHANGED <<story, written, offset, rows, dropped, repair>>
      /\ \A q \in Sessions : Payloads(q)' = Payloads(q)
      /\ \A q \in Sessions, i \in Nat : At(q, i)' = At(q, i)
  BY DEF Payloads, At
<1>1. /\ task'.pc = "insert" /\ task'.session = s /\ task'.cursor = offset[s]
      /\ task'.ctx = LoadContext(Payloads(s), s)
  BY DEF TInv, TaskOK, NoTask
<1>2. PrefixInv'
  <2> SUFFICES ASSUME NEW q \in Sessions, dropped[q] = {}
               PROVE  \E n \in 0..written[q] :
                          Prefix(q, n)' /\ offset[q] <= n /\ (Reading(q)' => StoredSoFar' <= n)
    BY <1>0 DEF PrefixInv
  <2>1. PICK n \in 0..written[q] : Prefix(q, n) /\ offset[q] <= n
    BY DEF PInv, PrefixInv
  <2>2. Prefix(q, n)'
    <3>1. \A i \in 1..n : At(q, i)' = At(q, i)
      BY DEF At
    <3> QED BY <1>0, <2>1, <3>1 DEF Prefix
  <2>3. Reading(q)' => StoredSoFar' = offset[q]
    BY <1>1 DEF Reading, StoredSoFar
  <2> QED BY <2>1, <2>2, <2>3
<1>3. TaskContext'
  <2> SUFFICES ASSUME dropped[s] = {}
               PROVE  Follows(LoadContext(Payloads(s), s), Payloads(s), s, At(s, offset[s] + 1))
    BY <1>0, <1>1 DEF TaskContext, Reading, SeenSoFar, TInv, LogOK, At
  <2>1. PICK n \in 0..written[s] : Prefix(s, n) /\ offset[s] <= n
    BY DEF PInv, PrefixInv
  <2>2. Rows(Payloads(s), At(s, n + 1))
    BY <2>1, PrefixRows
  <2>3. offset[s] + 1 \in 1..(Len(story.records[s]) + 1)
    BY StartsInOrder DEF TInv, LogOK
  <2>4. At(s, offset[s] + 1) \in Nat
    BY <2>3, StartsInOrder DEF TInv
  <2> QED BY <2>2, <2>4, LoadedFollows
<1> QED BY <1>0, <1>2, <1>3, ParsedFrame, WalkFrame DEF PInv

\* The record that the pass has come to: it is stored already, or comes after all
\* that are.
LEMMA NextRecord ==
    ASSUME TInv, NEW s \in Sessions, s = task.session, task.pc \in {"insert", "facts", "parent"},
           task.cursor < task.upto, NEW n \in 0..written[s], Prefix(s, n), task.cursor <= n
    PROVE  /\ task.cursor \in Nat /\ n \in Nat /\ task.cursor + 1 <= written[s]
           /\ Offset \in Nat
           /\ Offset \in DOMAIN Payloads(s) => task.cursor + 1 <= n
           /\ Offset \notin DOMAIN Payloads(s) =>
                 n = task.cursor /\ \A q \in DOMAIN Payloads(s) : q < Offset
<1> DEFINE L == Len(story.records[s])
<1>1. /\ task.cursor \in Nat /\ n \in Nat /\ L \in Nat /\ task.cursor + 1 <= written[s]
      /\ written[s] <= L /\ written[s] \in Nat
  BY StartsInOrder DEF TInv, TaskOK, LogOK
<1>2. /\ \A i \in 1..(L + 1) : At(s, i) \in Nat
      /\ \A i, j \in 1..(L + 1) : i < j => At(s, i) < At(s, j)
  BY StartsInOrder DEF TInv
<1> HIDE DEF L
<1>3. Offset = At(s, task.cursor + 1) /\ task.cursor + 1 \in 1..(L + 1) /\ Offset \in Nat
  BY <1>1, <1>2 DEF Offset
<1>4. CASE task.cursor + 1 <= n
  <2>1. Offset \in DOMAIN Payloads(s)
    BY <1>1, <1>3, <1>4 DEF Prefix
  <2> QED BY <1>1, <1>3, <1>4, <2>1
<1>5. CASE n = task.cursor
  <2>1. \A i \in 1..n : At(s, i) < Offset /\ At(s, i) \in Nat
    BY <1>1, <1>2, <1>3, <1>5
  <2>2. \A q \in DOMAIN Payloads(s) : q < Offset /\ q \in Nat
    BY <2>1 DEF Prefix
  <2> QED BY <1>1, <1>3, <1>5, <2>2
<1> QED BY <1>1, <1>4, <1>5

LEMMA ParsedFacts ==
    ASSUME TInv, TInv', PInv, AddFacts
    PROVE  PInv'
<1> USE DEF AddFacts, IngesterKeeps, outside, rowVars, shownVars
<1> DEFINE s == task.session
<1>0. /\ UNCHANGED <<story, written, offset, rows, dropped, repair>>
      /\ \A q \in Sessions : Payloads(q)' = Payloads(q)
      /\ \A q \in Sessions, i \in Nat : At(q, i)' = At(q, i)
  BY DEF Payloads, At
<1>1. /\ task.pc = "facts" /\ s \in Sessions /\ task.cursor \in Nat /\ task.cursor < task.upto
      /\ task'.pc = "parent" /\ task'.session = s /\ task'.cursor = task.cursor
      /\ task'.ctx = UpdateContext(task.ctx, Record, s)
  BY DEF TInv, TaskOK, NoTask
<1>2. PrefixInv'
  <2>1. \A q \in Sessions : (Reading(q)' <=> Reading(q)) /\ StoredSoFar' = StoredSoFar
    BY <1>1 DEF Reading, StoredSoFar
  <2>2. \A q \in Sessions, n \in Nat : Prefix(q, n) => Prefix(q, n)'
    BY <1>0 DEF Prefix
  <2> QED BY <1>0, <2>1, <2>2 DEF PInv, PrefixInv
<1>3. TaskContext'
  <2> SUFFICES ASSUME dropped[s] = {}
               PROVE  Follows(UpdateContext(task.ctx, Record, s), Payloads(s), s, At(s, task.cursor + 2))
    BY <1>0, <1>1 DEF TaskContext, Reading, SeenSoFar
  <2>1. PICK n \in 0..written[s] : Prefix(s, n) /\ task.cursor + 1 <= n
    BY <1>1 DEF PInv, PrefixInv, Reading, StoredSoFar
  <2>2. Rows(Payloads(s), At(s, n + 1)) /\ n \in Nat /\ n + 1 \in 1..(Len(story.records[s]) + 1)
    BY <1>1, <2>1, PrefixRows
  <2>3. Offset \in DOMAIN Payloads(s) /\ Payloads(s)[Offset] = Record
    BY <1>1, <2>1, <2>2 DEF Prefix, Offset, Record
  <2>4. Follows(task.ctx, Payloads(s), s, Offset)
    BY <1>1 DEF PInv, TaskContext, Reading, SeenSoFar, Offset
  <2> DEFINE next == At(s, task.cursor + 2)
  <2>5. next \in Nat /\ \A q \in DOMAIN Payloads(s) : q > Offset => q >= next
    <3> DEFINE L == Len(story.records[s])
    <3>1. /\ L \in Nat /\ \A i \in 1..(L + 1) : At(s, i) \in Nat
          /\ \A i, j \in 1..(L + 1) : i < j => At(s, i) < At(s, j)
      BY <1>1, StartsInOrder DEF TInv
    <3> DEFINE c == task.cursor
    <3>2. c \in Nat /\ n \in Nat /\ c + 1 <= n /\ n + 1 \in 1..(L + 1)
      BY <1>1, <2>1, <2>2
    <3> HIDE DEF L, c
    <3>5. n + 1 <= L + 1 /\ c + 2 \in 1..(L + 1) /\ c + 1 \in 1..(L + 1)
      BY <3>1, <3>2
    <3> USE DEF c
    <3>3. next \in Nat
      BY <3>1, <3>5
    <3>4. ASSUME NEW i \in 1..n, At(s, i) > Offset PROVE At(s, i) >= next
      <4>1. i \in 1..(L + 1) /\ i \in Nat /\ At(s, i) \in Nat /\ Offset \in Nat
        BY <2>2, <3>1, <3>5 DEF Offset
      <4>2. ~(i < task.cursor + 1) /\ i # task.cursor + 1
        BY <3>1, <3>5, <3>4, <4>1 DEF Offset
      <4>3. i = task.cursor + 2 \/ task.cursor + 2 < i
        BY <1>1, <4>1, <4>2
      <4> QED BY <3>1, <3>5, <4>1, <4>3
    <3> QED BY <2>1, <3>3, <3>4 DEF Prefix
  <2> QED BY <2>2, <2>3, <2>4, <2>5, FollowsNext
<1> QED BY <1>0, <1>2, <1>3, ParsedFrame, WalkFrame DEF PInv

LEMMA ParsedParent ==
    ASSUME TInv, TInv', PInv, SetParent
    PROVE  PInv'
<1> USE DEF SetParent, IngesterKeeps, outside, rowVars, shownVars
<1>0. /\ UNCHANGED <<story, written, offset, rows, dropped, repair>>
      /\ \A q \in Sessions : Payloads(q)' = Payloads(q)
      /\ \A q \in Sessions, i \in Nat : At(q, i)' = At(q, i)
  BY DEF Payloads, At
<1>1. /\ task'.pc = "insert" /\ task'.session = task.session /\ task'.ctx = task.ctx
      /\ task'.cursor = task.cursor + 1 /\ task.pc = "parent" /\ task.cursor \in Nat
  BY DEF TInv, TaskOK, NoTask
<1>2. /\ \A q \in Sessions : Reading(q)' <=> Reading(q)
      /\ StoredSoFar' = StoredSoFar /\ SeenSoFar' = SeenSoFar
  BY <1>1 DEF Reading, StoredSoFar, SeenSoFar
<1>3. PrefixInv'
  <2>1. \A q \in Sessions, n \in Nat : Prefix(q, n) => Prefix(q, n)'
    BY <1>0 DEF Prefix
  <2> QED BY <1>0, <1>2, <2>1 DEF PInv, PrefixInv
<1>4. TaskContext'
  BY <1>0, <1>1, <1>2 DEF PInv, TaskContext, At
<1> QED BY <1>0, <1>3, <1>4, ParsedFrame, WalkFrame DEF PInv

LEMMA ParsedCommit ==
    ASSUME TInv, TInv', PInv, CommitOffset
    PROVE  PInv'
<1> USE DEF CommitOffset, IngesterKeeps, outside, rowVars, shownVars
<1> DEFINE s == task.session
<1>0. /\ UNCHANGED <<story, written, rows, dropped, repair>>
      /\ \A q \in Sessions : Payloads(q)' = Payloads(q)
      /\ \A q \in Sessions, i \in Nat : At(q, i)' = At(q, i)
  BY DEF Payloads, At
<1>1. /\ \A q \in Sessions : ~Reading(q)'
      /\ \A q \in Sessions : offset'[q] = IF q = s THEN task.cursor ELSE offset[q]
  BY DEF TInv, TaskOK, LogOK, NoTask, Reading
<1>2. PrefixInv'
  <2> SUFFICES ASSUME NEW q \in Sessions, dropped[q] = {}
               PROVE  \E n \in 0..written[q] : Prefix(q, n)' /\ offset'[q] <= n
    BY <1>0, <1>1 DEF PrefixInv
  <2>1. PICK n \in 0..written[q] :
              Prefix(q, n) /\ offset[q] <= n /\ (Reading(q) => StoredSoFar <= n)
    BY DEF PInv, PrefixInv
  <2>2. q = s => task.cursor <= n
    BY <2>1 DEF Reading, StoredSoFar
  <2>3. written[q] \in Nat
    BY DEF TInv, LogOK
  <2>4. n \in Nat /\ Prefix(q, n)
    BY <2>1, <2>3
  <2>5. Prefix(q, n)'
    BY <1>0, <2>4, PrefixKept
  <2> QED BY <1>1, <2>1, <2>2, <2>5
<1>3. TaskContext'
  BY <1>1 DEF TaskContext
<1> QED BY <1>0, <1>2, <1>3, ParsedFrame, WalkFrame DEF PInv

\* A record whose insert fails: nothing is claimed of its session any more.
LEMMA ParsedFails ==
    ASSUME TInv, TInv', PInv, InsertFails
    PROVE  PInv'
<1> USE DEF InsertFails, IngesterKeeps, outside, rowVars, shownVars
<1> DEFINE s == task.session
<1>0. /\ UNCHANGED <<story, written, offset, rows, repair>>
      /\ \A q \in Sessions : Payloads(q)' = Payloads(q)
      /\ \A q \in Sessions, i \in Nat : At(q, i)' = At(q, i)
  BY DEF Payloads, At
<1>1. /\ DOMAIN dropped' = Sessions /\ dropped'[s] # {}
      /\ \A q \in Sessions : dropped'[q] = {} => dropped[q] = {} /\ q # s
  BY DEF PInv, TInv, TaskOK
<1>2. task'.session = s /\ task.session = s
  BY DEF TInv, TaskOK, NoTask
<1>3. PrefixInv'
  <2>1. \A q \in Sessions, n \in Nat : Prefix(q, n) => Prefix(q, n)'
    BY <1>0 DEF Prefix
  <2> QED BY <1>0, <1>1, <1>2, <2>1 DEF PInv, PrefixInv, Reading
<1>4. TaskContext'
  BY <1>1, <1>2 DEF TaskContext, Reading
<1> QED BY <1>0, <1>1, <1>3, <1>4, ParsedFrame, WalkFrame DEF PInv

\* A row of a record that is stored already stays as it is.
LEMMA ParsedAgain ==
    ASSUME TInv, TInv', PInv, InsertRow, Offset \in DOMAIN rows[task.session]
    PROVE  PInv'
<1> USE DEF IngesterKeeps, outside, rowVars, shownVars
<1> DEFINE s == task.session
<1>0. /\ UNCHANGED <<story, written, offset, rows, dropped, repair>>
      /\ \A q \in Sessions : Payloads(q)' = Payloads(q)
      /\ \A q \in Sessions, i \in Nat : At(q, i)' = At(q, i)
  BY DEF InsertRow, Payloads, At
<1>1. /\ task.pc = "insert" /\ s \in Sessions /\ task.cursor \in Nat /\ task.cursor < task.upto
      /\ task'.pc = "facts" /\ task'.session = s /\ task'.cursor = task.cursor
      /\ task'.ctx = task.ctx
  BY DEF InsertRow, TInv, TaskOK, NoTask
<1>2. PrefixInv'
  <2> SUFFICES ASSUME NEW q \in Sessions, dropped[q] = {}
               PROVE  \E n \in 0..written[q] :
                          Prefix(q, n)' /\ offset[q] <= n /\ (Reading(q)' => StoredSoFar' <= n)
    BY <1>0 DEF PrefixInv
  <2>1. PICK n \in 0..written[q] :
              Prefix(q, n) /\ offset[q] <= n /\ (Reading(q) => StoredSoFar <= n)
    BY DEF PInv, PrefixInv
  <2>2. Prefix(q, n)'
    <3>1. \A i \in 1..n : At(q, i)' = At(q, i)
      BY <1>0 DEF At
    <3> QED BY <1>0, <2>1, <3>1 DEF Prefix
  <2>3. Reading(q)' => task.cursor + 1 <= n
    <3> SUFFICES ASSUME q = s PROVE task.cursor + 1 <= n
      BY <1>1 DEF Reading
    <3>1. task.cursor <= n
      BY <1>1, <2>1 DEF Reading, StoredSoFar
    <3>2. Offset \in DOMAIN Payloads(q)
      BY DEF Payloads
    <3> QED BY <1>1, <2>1, <3>1, <3>2, NextRecord
  <2> QED BY <1>1, <2>1, <2>2, <2>3 DEF StoredSoFar
<1>3. TaskContext'
  BY <1>0, <1>1 DEF PInv, TaskContext, Reading, SeenSoFar, At
<1> QED BY <1>0, <1>2, <1>3, ParsedFrame, WalkFrame DEF PInv

\* A new row: beyond all rows of its session, which the context of the pass has
\* seen by then.
LEMMA ParsedNew ==
    ASSUME TInv, TInv', PInv, InsertRow,
           NEW s \in Sessions, s = task.session, NEW o, o = Offset, o \notin DOMAIN rows[s]
    PROVE  PInv'
<1> USE DEF IngesterKeeps, outside, rowVars, shownVars
<1> DEFINE row == [payload |-> Record, ts |-> IF Record.ts = 0 THEN Now ELSE Record.ts,
                   event |-> ParseEvent(Record, o, s, task.ctx)]
           stored == [q \in DOMAIN rows[s] \cup {o} |-> IF q = o THEN row ELSE rows[s][q]]
<1>0. /\ UNCHANGED <<story, written, offset, dropped, repair>>
      /\ \A q \in Sessions, i \in Nat : At(q, i)' = At(q, i)
  BY DEF InsertRow, At
<1>1. /\ task.pc = "insert" /\ s \in Sessions /\ task.cursor \in Nat /\ task.cursor < task.upto
      /\ task'.pc = "facts" /\ task'.session = s /\ task'.cursor = task.cursor
      /\ task'.ctx = task.ctx
  BY DEF InsertRow, TInv, TaskOK, NoTask
<1>2. /\ rows'[s] = stored /\ \A q \in Sessions : q # s => rows'[q] = rows[q]
      /\ DOMAIN rows' = Sessions
  BY <1>1 DEF InsertRow, TInv, RowsOK
<1> HIDE DEF row
<1>3. /\ DOMAIN Payloads(s)' = DOMAIN Payloads(s) \cup {o}
      /\ Payloads(s)'[o] = row.payload
      /\ \A q \in DOMAIN Payloads(s) : q # o => Payloads(s)'[q] = Payloads(s)[q]
      /\ o \notin DOMAIN Payloads(s)
      /\ \A q \in Sessions : q # s => Payloads(q)' = Payloads(q)
  BY <1>1, <1>2 DEF Payloads
<1>4. row.payload = Record /\ row.event = ParseEvent(Record, o, s, task.ctx)
  BY DEF row
\* The session of the pass.
<1>5. ASSUME dropped[s] = {}
      PROVE  /\ o \in Nat /\ \A q \in DOMAIN Payloads(s) : q < o
             /\ task.cursor + 1 \in 0..written[s] /\ offset[s] <= task.cursor + 1
             /\ \E n \in Nat : n = task.cursor /\ Prefix(s, n + 1)'
             /\ Follows(task.ctx, Payloads(s), s, o)
             /\ \E b : Rows(Payloads(s), b)
  <2>1. PICK n \in 0..written[s] : Prefix(s, n) /\ offset[s] <= n /\ task.cursor <= n
    BY <1>1, <1>5 DEF PInv, PrefixInv, Reading, StoredSoFar
  <2>2. /\ n = task.cursor /\ o \in Nat /\ task.cursor + 1 <= written[s]
        /\ \A q \in DOMAIN Payloads(s) : q < o
    BY <1>1, <1>3, <2>1, NextRecord
  <2>3. Prefix(s, n + 1)'
    <3>1. \A i \in 1..(n + 1) : At(s, i)' = At(s, i)
      BY DEF InsertRow, At
    <3>2. o = At(s, n + 1) /\ Record = story.records[s][n + 1]
      BY <2>2 DEF Offset, Record
    <3>3. n \in Nat /\ 1..(n + 1) = 1..n \cup {n + 1}
      BY <2>1, <2>2, <1>1
    <3>4. DOMAIN Payloads(s)' = {At(s, i) : i \in 1..(n + 1)}
      BY <1>3, <2>1, <3>2, <3>3 DEF Prefix
    <3>5. \A i \in 1..(n + 1) : Payloads(s)'[At(s, i)] = story.records[s][i]
      BY <1>3, <1>4, <2>1, <3>2, <3>3 DEF Prefix
    <3>6. {At(s, i)' : i \in 1..(n + 1)} = {At(s, i) : i \in 1..(n + 1)}
      BY <3>1
    <3> QED BY <1>0, <3>1, <3>4, <3>5, <3>6 DEF Prefix
  <2>4. Follows(task.ctx, Payloads(s), s, o)
    BY <1>1, <1>5 DEF PInv, TaskContext, Reading, SeenSoFar, Offset
  <2>5. Rows(Payloads(s), At(s, n + 1))
    BY <1>1, <2>1, PrefixRows
  <2>6. offset[s] <= task.cursor + 1 /\ task.cursor + 1 \in 0..written[s]
    BY <1>1, <2>1, <2>2 DEF TInv, LogOK
  <2>7. /\ \E b : Rows(Payloads(s), b)
        /\ \E c \in Nat : c = task.cursor /\ Prefix(s, c + 1)'
    BY <1>1, <2>2, <2>3, <2>5
  <2> QED BY <2>2, <2>3, <2>4, <2>6, <2>7
<1>6. PrefixInv'
  <2> SUFFICES ASSUME NEW q \in Sessions, dropped[q] = {}
               PROVE  \E n \in 0..written[q] :
                          Prefix(q, n)' /\ offset[q] <= n /\ (Reading(q)' => StoredSoFar' <= n)
    BY <1>0 DEF PrefixInv
  <2>1. CASE q = s
    <3>1. StoredSoFar' = task.cursor + 1
      BY <1>1 DEF StoredSoFar
    <3> QED BY <1>1, <1>5, <2>1, <3>1
  <2>2. CASE q # s
    <3>1. PICK n \in 0..written[q] : Prefix(q, n) /\ offset[q] <= n
      BY DEF PInv, PrefixInv
    <3>2. n \in Nat /\ UNCHANGED story
      BY <1>0, <3>1 DEF TInv, LogOK
    <3>3. Prefix(q, n)'
      BY <1>3, <2>2, <3>1, <3>2, PrefixKept
    <3> QED BY <1>1, <2>2, <3>1, <3>3 DEF Reading
  <2> QED BY <2>1, <2>2
<1>7. TaskContext'
  <2> SUFFICES ASSUME dropped[s] = {}
               PROVE  Follows(task.ctx, Payloads(s)', s, o)
    BY <1>0, <1>1 DEF TaskContext, Reading, SeenSoFar, Offset
  <2>1. PICK b : Rows(Payloads(s), b)
    BY <1>5
  <2>2. KindsAgree(Record)
    <3>1. task.cursor + 1 \in 1..Len(story.records[s])
      BY <1>1, <1>5, StartsInOrder DEF TInv, LogOK
    <3> QED BY <1>1, <3>1, StoryFormed DEF TInv, WellFormed, Record
  <2>3. Rows(Payloads(s)', o)
    <3>1. DOMAIN Payloads(s)' \subseteq 0..o
      BY <1>3, <1>5, <2>1 DEF Rows
    <3>2. \A q \in DOMAIN Payloads(s)' : KindsAgree(Payloads(s)'[q])
      BY <1>3, <1>4, <2>1, <2>2 DEF Rows
    <3> QED BY <1>5, <3>1, <3>2 DEF Rows
  <2>4. \A q \in DOMAIN Payloads(s) : Payloads(s)'[q] = Payloads(s)[q]
    BY <1>3
  <2>5. \A q \in DOMAIN Payloads(s)' \ DOMAIN Payloads(s) : q >= o
    BY <1>3, <1>5
  <2> DEFINE E == Payloads(s)
             F == Payloads(s)'
  <2>6. Follows(task.ctx, E, s, o) /\ DOMAIN E \subseteq DOMAIN F /\ o \in Nat
    BY <1>3, <1>5
  <2> HIDE DEF E, F
  <2> QED BY <2>3, <2>4, <2>5, <2>6, FollowsGrow DEF E, F
\* What comes before an offset up to the new one.
<1>8. ASSUME NEW q \in Sessions, dropped[q] = {}, NEW k \in Nat, q = s => k <= o
      PROVE  ContextBefore(q, k)' = ContextBefore(q, k)
  <2>1. CASE q = s
    <3>1. Earlier(s, k)' = Earlier(s, k)
      <4>1. DOMAIN rows'[s] = DOMAIN rows[s] \cup {o}
        BY <1>2
      <4>2. ~(o < k)
        BY <1>5, <1>8, <2>1
      <4> QED BY <4>1, <4>2 DEF Earlier
    <3>2. \A x \in Earlier(s, k) : Payloads(s)'[x] = Payloads(s)[x]
      BY <1>3 DEF Earlier, Payloads
    <3> QED BY <1>1, <2>1, <3>1, <3>2, ContextKept
  <2>2. CASE q # s
    BY <1>2, <1>3, <2>2 DEF ContextBefore, Earlier
  <2> QED BY <2>1, <2>2
<1>9. WalkContext'
  <2> SUFFICES ASSUME NEW q \in Sessions, dropped[q] = {}, repair.pc = "walk", repair.session = q, q # Nil
               PROVE  /\ repair.below \in Nat
                      /\ repair.below = 0 \/ repair.below - 1 \in DOMAIN rows'[q]
                      /\ repair.ctx = ContextBefore(q, repair.below)'
    BY <1>0 DEF WalkContext
  <2>1. /\ repair.below \in Nat
        /\ repair.below = 0 \/ repair.below - 1 \in DOMAIN rows[q]
        /\ repair.ctx = ContextBefore(q, repair.below)
    BY DEF PInv, WalkContext
  <2>2. q = s => repair.below <= o
    BY <1>5, <2>1 DEF Payloads
  <2>3. DOMAIN rows[q] \subseteq DOMAIN rows'[q]
    BY <1>2
  <2>4. PICK k \in Nat : k = repair.below
    BY <2>1
  <2>5. ContextBefore(q, k)' = ContextBefore(q, k)
    BY <1>8, <2>2, <2>4
  <2> QED BY <1>0, <2>1, <2>3, <2>4, <2>5
<1>10. ParsedInContext'
  <2> SUFFICES ASSUME NEW q \in Sessions, NEW k \in DOMAIN rows'[q], dropped[q] = {},
                      rows'[q][k].event # Nil
               PROVE  rows'[q][k].event = ParseEvent(rows'[q][k].payload, k, q, ContextBefore(q, k)')
    BY <1>0 DEF ParsedInContext, IsBare
  <2>1. CASE q = s /\ k = o
    <3>1. rows'[q][k] = row
      BY <1>2, <2>1
    <3>2. ContextBefore(s, o) = LoadContext(Payloads(s), s)
      <4>1. Restrict(Payloads(s), Earlier(s, o)) = Payloads(s)
        BY <1>5, <2>1 DEF Restrict, Earlier, Payloads
      <4> QED BY <4>1 DEF ContextBefore
    <3>3. task.ctx = LoadContext(Payloads(s), s)
      BY <1>5, <2>1, ContextIsDetermined
    <3>4. ContextBefore(q, k)' = ContextBefore(q, k)
      BY <1>5, <1>8, <2>1
    <3> QED BY <1>4, <2>1, <3>1, <3>2, <3>3, <3>4
  <2>2. CASE ~(q = s /\ k = o)
    <3>1. k \in DOMAIN rows[q] /\ rows'[q][k] = rows[q][k]
      BY <1>2, <2>2
    <3>2. k \in Nat
      <4>1. PICK n \in 0..written[q] : Prefix(q, n)
        BY DEF PInv, PrefixInv
      <4>2. Rows(Payloads(q), At(q, n + 1)) /\ k \in DOMAIN Payloads(q)
        BY <3>1, <4>1, PrefixRows DEF Payloads
      <4> QED BY <4>2 DEF Rows
    <3>3. q = s => k <= o
      BY <1>5, <3>1, <3>2 DEF Payloads
    <3>4. rows[q][k].event = ParseEvent(rows[q][k].payload, k, q, ContextBefore(q, k))
      BY <3>1 DEF PInv, ParsedInContext, IsBare
    <3> QED BY <1>8, <3>1, <3>2, <3>3, <3>4
  <2> QED BY <2>1, <2>2
<1> QED BY <1>0, <1>6, <1>7, <1>9, <1>10 DEF PInv

\* The context after a row.
LEMMA ContextNext ==
    ASSUME TInv, PInv, NEW s \in Sessions, dropped[s] = {}, NEW o \in DOMAIN rows[s]
    PROVE  /\ o \in Nat
           /\ ContextBefore(s, o + 1) = UpdateContext(ContextBefore(s, o), rows[s][o].payload, s)
<1> DEFINE P == Payloads(s)
           E == Restrict(P, Earlier(s, o + 1))
           F == Restrict(P, Earlier(s, o))
<1>1. PICK b : Rows(P, b)
  <2>1. PICK n \in 0..written[s] : Prefix(s, n)
    BY DEF PInv, PrefixInv
  <2> QED BY <2>1, PrefixRows
<1>2. o \in Nat /\ DOMAIN rows[s] \subseteq Nat
  BY <1>1 DEF Rows, Payloads
<1>3. /\ DOMAIN E = Earlier(s, o + 1) /\ DOMAIN F = Earlier(s, o)
      /\ Earlier(s, o + 1) = Earlier(s, o) \cup {o}
      /\ Earlier(s, o + 1) \subseteq DOMAIN P
  BY <1>2 DEF Restrict, Earlier, Payloads
<1>4. \A q \in DOMAIN E : E[q] = P[q] /\ KindsAgree(E[q])
  BY <1>1, <1>3 DEF Restrict, Rows
<1>5. \A q \in DOMAIN F : F[q] = E[q]
  BY <1>3 DEF Restrict
<1>6. E[o] = rows[s][o].payload
  BY <1>3 DEF Restrict, Payloads
<1>7. \A q \in DOMAIN E : q \in 0..o
  BY <1>2, <1>3 DEF Earlier
<1> HIDE DEF E, F
<1>8. Rows(E, o) /\ Rows(F, o)
  BY <1>2, <1>3, <1>4, <1>5, <1>7 DEF Rows
<1>9. Follows(LoadContext(F, s), F, s, o)
  BY <1>2, <1>8, LoadedFollows
<1>10. Follows(LoadContext(F, s), E, s, o)
  BY <1>2, <1>3, <1>5, <1>8, <1>9, FollowsGrow
<1>11. Follows(UpdateContext(LoadContext(F, s), E[o], s), E, s, o + 1)
  <2>1. o \in DOMAIN E /\ o + 1 \in Nat /\ \A q \in DOMAIN E : q > o => q >= o + 1
    BY <1>2, <1>3, <1>7
  <2> QED BY <1>8, <1>10, <2>1, FollowsNext
<1>12. UpdateContext(LoadContext(F, s), E[o], s) = LoadContext(E, s)
  <2>1. o + 1 \in Nat /\ \A q \in DOMAIN E : q < o + 1
    BY <1>2, <1>7
  <2> QED BY <1>8, <1>11, <2>1, ContextIsDetermined
<1> QED BY <1>2, <1>6, <1>12 DEF ContextBefore, E, F

\* Steps of a repair that keep the records of all rows.
LEMMA ContextsKept ==
    ASSUME \A s \in Sessions : Payloads(s)' = Payloads(s)
    PROVE  \A s \in Sessions : /\ DOMAIN rows'[s] = DOMAIN rows[s]
                               /\ \A o : Earlier(s, o)' = Earlier(s, o)
                               /\ \A o : ContextBefore(s, o)' = ContextBefore(s, o)
<1>1. \A s \in Sessions : DOMAIN rows'[s] = DOMAIN rows[s]
  <2>1. \A s \in Sessions : DOMAIN Payloads(s)' = DOMAIN rows'[s] /\ DOMAIN Payloads(s) = DOMAIN rows[s]
    BY DEF Payloads
  <2> QED BY <2>1
<1>2. \A s \in Sessions : \A o : Earlier(s, o)' = Earlier(s, o)
  BY <1>1 DEF Earlier
<1>3. \A s \in Sessions : \A o : ContextBefore(s, o)' = ContextBefore(s, o)
  BY <1>2 DEF ContextBefore
<1> QED BY <1>1, <1>2, <1>3

LEMMA ParsedClear ==
    ASSUME TInv, TInv', PInv, Clear
    PROVE  PInv'
<1> USE DEF Clear, RepairKeeps, outside, rowVars, shownVars
<1>1. \A s \in Sessions : Payloads(s)' = Payloads(s)
  BY DEF Payloads, TInv, RowsOK
<1>2. PrefixInv' /\ TaskContext'
  <2>1. \A s \in Sessions : written'[s] \in Nat /\ written[s] <= written'[s]
    BY DEF TInv, LogOK
  <2> QED BY <1>1, <2>1, PrefixFrame DEF PInv
<1>3. WalkContext'
  BY DEF WalkContext, TInv, RepairOK, NoRepair
<1>4. ParsedInContext'
  BY DEF ParsedInContext, IsBare, TInv, RowsOK
<1> QED BY <1>2, <1>3, <1>4 DEF PInv

LEMMA ParsedWalkSession ==
    ASSUME TInv, TInv', PInv, NEW s \in Sessions, WalkSession(s)
    PROVE  PInv'
<1> USE DEF WalkSession, RepairKeeps, outside, rowVars, shownVars
<1>1. \A q \in Sessions : Payloads(q)' = Payloads(q)
  BY DEF Payloads
<1>2. PrefixInv' /\ TaskContext'
  <2>1. \A q \in Sessions : written'[q] \in Nat /\ written[q] <= written'[q]
    BY DEF TInv, LogOK
  <2> QED BY <1>1, <2>1, PrefixFrame DEF PInv
<1>3. WalkContext'
  <2>1. repair'.session = s /\ repair'.below = 0 /\ repair'.ctx = NewContext(s)
    BY DEF TInv, RepairOK, NoRepair
  <2> SUFFICES ASSUME dropped[s] = {} PROVE NewContext(s) = ContextBefore(s, 0)
    BY <1>1, <2>1, ContextsKept DEF WalkContext
  <2>2. PICK n \in 0..written[s] : Prefix(s, n)
    BY DEF PInv, PrefixInv
  <2>3. PICK b : Rows(Payloads(s), b)
    BY <2>2, PrefixRows
  <2>4. Earlier(s, 0) = {}
    BY <2>3 DEF Earlier, Rows, Payloads
  <2>5. \A kinds : OfKind(Restrict(Payloads(s), Earlier(s, 0)), kinds) = {}
    BY <2>4 DEF OfKind, Restrict
  <2> QED BY <2>5 DEF ContextBefore, LoadContext, UpdateWithLast
<1>4. ParsedInContext'
  BY ParsedFrame DEF PInv
<1> QED BY <1>2, <1>3, <1>4 DEF PInv

LEMMA ParsedWalkRow ==
    ASSUME TInv, TInv', PInv, NEW s \in Sessions, s = repair.session, NEW o \in DOMAIN rows[s],
           WalkRow(o)
    PROVE  PInv'
<1> USE DEF RepairKeeps, outside, rowVars, shownVars
<1> DEFINE row == rows[s][o]
<1>0. /\ UNCHANGED <<story, written, offset, dropped, task>>
      /\ repair.pc = "walk" /\ s # Nil /\ o >= repair.below
      /\ \A q \in DOMAIN rows[s] : q >= repair.below => o <= q
  BY DEF WalkRow, WalkAt
<1>1. /\ DOMAIN rows' = Sessions /\ \A q \in Sessions : q # s => rows'[q] = rows[q]
      /\ DOMAIN rows'[s] = DOMAIN rows[s]
      /\ rows'[s][o] = RewrittenRow(row, o)
      /\ \A k \in DOMAIN rows[s] : k # o => rows'[s][k] = rows[s][k]
  BY DEF WalkRow, TInv, RowsOK
<1>2. /\ repair'.pc = "walk" /\ repair'.session = s /\ repair'.below = o + 1
      /\ repair'.ctx = UpdateContext(repair.ctx, row.payload, s)
  BY DEF WalkRow, WalkAt, TInv, RepairOK, NoRepair
<1>3. \A q \in Sessions : Payloads(q)' = Payloads(q)
  <2>1. rows'[s][o].payload = rows[s][o].payload
    BY <1>1 DEF RewrittenRow
  <2>2. \A k \in DOMAIN rows[s] : rows'[s][k].payload = rows[s][k].payload
    BY <1>1, <2>1
  <2> QED BY <1>1, <2>2 DEF Payloads
<1>4. PrefixInv' /\ TaskContext'
  <2>1. \A q \in Sessions : written'[q] \in Nat /\ written[q] <= written'[q]
    BY <1>0 DEF TInv, LogOK
  <2> QED BY <1>0, <1>3, <2>1, PrefixFrame DEF PInv
\* The walk knows the context of the row it has come to.
<1>5. ASSUME dropped[s] = {}
      PROVE  o \in Nat /\ repair.ctx = ContextBefore(s, o)
  <2>1. /\ repair.below \in Nat /\ repair.ctx = ContextBefore(s, repair.below)
    BY <1>0, <1>5 DEF PInv, WalkContext
  <2>2. PICK n \in 0..written[s] : Prefix(s, n)
    BY <1>5 DEF PInv, PrefixInv
  <2>3. PICK b : Rows(Payloads(s), b)
    BY <2>2, PrefixRows
  <2>4. DOMAIN rows[s] \subseteq Nat
    BY <2>3 DEF Rows, Payloads
  <2>5. Earlier(s, repair.below) = Earlier(s, o)
    BY <1>0, <2>1, <2>4 DEF Earlier
  <2> QED BY <2>1, <2>4, <2>5 DEF ContextBefore
<1>6. WalkContext'
  <2> SUFFICES ASSUME dropped[s] = {}
               PROVE  /\ o + 1 \in Nat /\ (o + 1) - 1 \in DOMAIN rows[s]
                      /\ UpdateContext(repair.ctx, row.payload, s) = ContextBefore(s, o + 1)
    BY <1>0, <1>1, <1>2, <1>3, ContextsKept DEF WalkContext
  <2> QED BY <1>5, ContextNext
<1>7. ParsedInContext'
  <2> SUFFICES ASSUME NEW q \in Sessions, NEW k \in DOMAIN rows[q], dropped[q] = {},
                      rows'[q][k].event # Nil
               PROVE  rows'[q][k].event = ParseEvent(rows'[q][k].payload, k, q, ContextBefore(q, k))
    BY <1>0, <1>3, ContextsKept DEF ParsedInContext, IsBare
  <2>1. CASE q = s /\ k = o /\ IsBare(row)
    <3>1. rows'[q][k].event = ParseEvent(row.payload, o, s, repair.ctx)
      BY <1>1, <2>1 DEF RewrittenRow
    <3> QED BY <1>1, <1>5, <2>1, <3>1 DEF RewrittenRow
  <2>2. CASE ~(q = s /\ k = o /\ IsBare(row))
    <3>1. rows'[q][k] = rows[q][k]
      BY <1>1, <2>2 DEF RewrittenRow
    <3> QED BY <3>1 DEF PInv, ParsedInContext, IsBare
  <2> QED BY <2>1, <2>2
<1> QED BY <1>0, <1>4, <1>6, <1>7 DEF PInv

LEMMA ParsedNext == TInv /\ TInv' /\ PInv /\ [Next]_vars => PInv'
<1> SUFFICES ASSUME TInv, TInv', PInv, [Next]_vars PROVE PInv'
  OBVIOUS
<1> USE DEF outside, rowVars, shownVars
\* Most steps change no row, and no pass or walk.
<1> DEFINE Passive ==
        /\ UNCHANGED <<story, offset, rows, dropped>>
        /\ \A s \in Sessions : written[s] <= written'[s]
        /\ UNCHANGED task \/ task'.pc \notin {"insert", "facts", "parent"}
        /\ UNCHANGED repair \/ repair'.pc # "walk" \/ repair'.session = Nil
<1>0. Passive => PInv'
  BY ParsedKept
<1>w. \A s \in Sessions : written[s] \in Nat /\ written[s] <= written[s]
  BY DEF TInv, LogOK
<1>1. CASE UNCHANGED vars
  BY <1>0, <1>1, <1>w DEF vars
<1>2. ASSUME NEW s \in Sessions, Write(s) \/ LinkSession(s) \/ Correlate(s) PROVE PInv'
  <2>1. \A q \in Sessions : written[q] <= written'[q]
    BY <1>2, <1>w DEF Write, LinkSession, Correlate, TInv, LogOK
  <2> QED BY <1>0, <1>2, <2>1 DEF Write, LinkSession, Correlate
<1>3. CASE View
  <2>1. ViewerKeeps
    BY <1>3 DEF View, Poll, ReadTotal, ReadRows, ReadBadges, ReadTurn, TurnNotFound,
                ReadOperations, ReadTouches
  <2> QED BY <1>0, <1>w, <2>1 DEF ViewerKeeps
<1>4. CASE Ingest \/ InsertFails
  <2>1. CASE InsertRow
    <3>1. task.session \in Sessions
      BY <2>1 DEF InsertRow, TInv, TaskOK
    <3>2. PICK s \in Sessions : s = task.session
      BY <3>1
    <3>3. PICK o : o = Offset
      OBVIOUS
    <3>4. CASE o \in DOMAIN rows[s]
      BY <2>1, <3>2, <3>3, <3>4, ParsedAgain
    <3>5. CASE o \notin DOMAIN rows[s]
      BY <2>1, <3>2, <3>3, <3>5, ParsedNew
    <3> QED BY <3>4, <3>5
  <2>2. CASE LoadProjection \/ Panic \/ StoreProjection \/ StoreRefused
    <3>1. task'.pc \notin {"insert", "facts", "parent"}
      BY <2>2 DEF LoadProjection, Panic, StoreProjection, StoreRefused, NextRebuild, NoTask, TInv, TaskOK
    <3> QED BY <1>0, <1>w, <2>2, <3>1
         DEF LoadProjection, Panic, StoreProjection, StoreRefused, IngesterKeeps
  <2> QED BY <1>4, <2>1, <2>2, ParsedOpen, ParsedFacts, ParsedParent, ParsedCommit, ParsedFails DEF Ingest
<1>5. CASE ListSessions \/ HangUp \/ Crash
  <2>1. repair'.pc # "walk" /\ (UNCHANGED task \/ task'.pc \notin {"insert", "facts", "parent"})
    <3>1. CASE ListSessions
      BY <3>1 DEF ListSessions, NoRepair
    <3>2. CASE HangUp
      BY <3>2 DEF HangUp, NoRepair
    <3>3. CASE Crash
      BY <3>3 DEF Crash, NoRepair, NoTask
    <3> QED BY <1>5, <3>1, <3>2, <3>3
  <2> QED BY <1>0, <1>5, <1>w, <2>1 DEF ListSessions, HangUp, Crash, RepairKeeps
<1>6. CASE Repair
  <2>1. CASE StartMaintenance \/ FindBare \/ FindMissing
    <3>1. repair'.pc # "walk" \/ repair'.session = Nil
      BY <2>1 DEF StartMaintenance, FindBare, FindMissing, NoRepair, TInv, RepairOK
    <3> QED BY <1>0, <1>w, <2>1, <3>1 DEF StartMaintenance, FindBare, FindMissing, RepairKeeps
  <2>2. CASE LoadRepair \/ StoreRepair
    <3>1. repair'.pc # "walk"
      BY <2>2 DEF LoadRepair, StoreRepair, TInv, RepairOK, NoRepair
    <3> QED BY <1>0, <1>w, <2>2, <3>1 DEF LoadRepair, StoreRepair, RepairKeeps
  <2>3. CASE RepairFails \/ RepairEnds \/ StartIngester
    <3>1. UNCHANGED repair \/ repair'.pc # "walk"
      BY <2>3 DEF RepairFails, RepairEnds, StartIngester, NoRepair
    <3>2. UNCHANGED task \/ task'.pc \notin {"insert", "facts", "parent"}
      BY <2>3 DEF RepairFails, RepairEnds, StartIngester, TInv, TaskOK, NoTask
    <3> QED BY <1>0, <1>w, <2>3, <3>1, <3>2 DEF RepairFails, RepairEnds, StartIngester, RepairKeeps
  <2>4. CASE Walk
    <3>1. CASE SessionWalked \/ Walked
      <4>1. repair'.session = Nil
        BY <3>1 DEF SessionWalked, Walked, TInv, RepairOK, NoRepair
      <4> QED BY <1>0, <1>w, <3>1, <4>1 DEF SessionWalked, Walked, RepairKeeps
    <3>2. ASSUME NEW o \in DOMAIN rows[repair.session], WalkRow(o), repair.session \in Sessions
          PROVE  PInv'
      <4>1. PICK s \in Sessions : s = repair.session
        BY <3>2
      <4> QED BY <3>2, <4>1, ParsedWalkRow
    <3> QED BY <2>4, <3>1, <3>2, ParsedWalkSession DEF Walk, TInv, RepairOK
  <2> QED BY <1>6, <2>1, <2>2, <2>3, <2>4, ParsedClear DEF Repair
<1> QED BY <1>1, <1>2, <1>3, <1>4, <1>5, <1>6 DEF Next

\* Whoever filled in the canonical columns of a row, and however often a pass was
\* stopped and began anew, they say what the record means after all the records
\* before it, for any stories.
THEOREM Parsed == Spec => []ParsedInContext
<1>1. PInv => ParsedInContext
  BY DEF PInv
<1>2. Init => PInv
  BY ParsedInit
<1>3. PInv /\ TInv /\ TInv' /\ [Next]_vars => PInv'
  BY ParsedNext
<1> QED BY <1>1, <1>2, <1>3, TypesHold, PTL DEF Spec

-----------------------------------------------------------------------------
(* The view.  What it reads over three statements is of the revision it    *)
(* polled before them, or that revision is over.                           *)

\* Turns of the revision r, if it is the present one and a reindex has not
\* removed them.
Present(r) == r = revision[Viewed] /\ turns[Viewed] # <<>>

Past(r) == r \in Nat /\ r <= revision[Viewed]

ViewInv ==
    Viewed # Nil =>
        /\ viewer.pc # "idle" => Past(viewer.polled)
        /\ viewer.loaded # Nil => Past(viewer.loaded)
        /\ viewer.pc \in {"rows", "badges"} /\ Present(viewer.polled) =>
              viewer.total = EventTotal(turns[Viewed])
        /\ viewer.pc = "badges" /\ Present(viewer.polled) =>
              viewer.rows = SummaryRows(turns[Viewed], story.filters)
        /\ viewer.loaded # Nil /\ Present(viewer.loaded) =>
              viewer.shown = Summary(turns[Viewed], story.filters)

LEMMA ViewedType ==
    ASSUME TInv, Viewed # Nil
    PROVE  Viewed \in Sessions /\ revision[Viewed] \in Nat
<1> QED BY StoryFormed DEF TInv, TurnsOK, WellFormed, Viewed

\* Steps of the others that leave the turns of the view, or end their revision.
LEMMA ViewKept ==
    ASSUME TInv, ViewInv, UNCHANGED <<story, viewer>>,
           Viewed # Nil =>
               \/ revision'[Viewed] = revision[Viewed] /\ turns'[Viewed] = turns[Viewed]
               \/ revision'[Viewed] = revision[Viewed] /\ turns'[Viewed] = <<>>
               \/ revision'[Viewed] = revision[Viewed] + 1
    PROVE  ViewInv'
<1> SUFFICES ASSUME Viewed # Nil PROVE ViewInv'
  BY DEF ViewInv, Viewed
<1> DEFINE rev == revision[Viewed]
<1>1. rev \in Nat
  BY ViewedType
<1>2. CASE revision'[Viewed] = rev /\ turns'[Viewed] = turns[Viewed]
  BY <1>2 DEF ViewInv, Viewed, Past, Present
<1>3. CASE revision'[Viewed] = rev /\ turns'[Viewed] = <<>>
  BY <1>3 DEF ViewInv, Viewed, Past, Present
<1>4. CASE revision'[Viewed] = rev + 1
  <2>1. \A r : Past(r) => Past(r)' /\ ~Present(r)'
    BY <1>1, <1>4 DEF Past, Present, Viewed
  <2> QED BY <2>1 DEF ViewInv, Viewed, Past, Present
<1> QED BY <1>2, <1>3, <1>4

LEMMA ViewCommit ==
    ASSUME TInv, ViewInv, UNCHANGED <<story, viewer>>, NEW plan, CommitPlan(plan)
    PROVE  ViewInv'
<1>1. /\ \A s \in Sessions : s # plan.session => revision'[s] = revision[s] /\ turns'[s] = turns[s]
      /\ plan.session \in Sessions => revision'[plan.session] = revision[plan.session] + 1
  BY DEF CommitPlan, TInv, TurnsOK
<1> QED BY <1>1, ViewedType, ViewKept

LEMMA ViewSteps ==
    ASSUME TInv, ViewInv, View
    PROVE  ViewInv'
<1> SUFFICES ASSUME Viewed # Nil PROVE ViewInv'
  <2>1. UNCHANGED story
    BY DEF View, Poll, ReadTotal, ReadRows, ReadBadges, ReadTurn, TurnNotFound, ReadOperations,
           ReadTouches, ViewerKeeps, outside
  <2> QED BY <2>1 DEF ViewInv, Viewed
<1> USE DEF ViewerKeeps, outside, shownVars
<1>1. CASE Poll
  <2>1. /\ UNCHANGED <<story, turns, revision>>
        /\ viewer'.pc = "total" /\ viewer'.polled = revision[Viewed]
        /\ viewer'.loaded = viewer.loaded /\ viewer'.shown = viewer.shown
    BY <1>1 DEF Poll, TInv, ViewerOK, NoViewer
  <2> QED BY <2>1, ViewedType DEF ViewInv, Viewed, Past, Present
<1>2. CASE ReadTotal
  <2>1. /\ UNCHANGED <<story, turns, revision>> /\ viewer.pc = "total"
        /\ viewer'.pc = "rows" /\ viewer'.polled = viewer.polled
        /\ viewer'.total = EventTotal(turns[Viewed])
        /\ viewer'.loaded = viewer.loaded /\ viewer'.shown = viewer.shown
    BY <1>2 DEF ReadTotal, TInv, ViewerOK, NoViewer
  <2> QED BY <2>1 DEF ViewInv, Viewed, Past, Present
<1>3. CASE ReadRows
  <2>1. /\ UNCHANGED <<story, turns, revision>> /\ viewer.pc = "rows"
        /\ viewer'.pc = "badges" /\ viewer'.polled = viewer.polled
        /\ viewer'.total = viewer.total
        /\ viewer'.rows = SummaryRows(turns[Viewed], story.filters)
        /\ viewer'.loaded = viewer.loaded /\ viewer'.shown = viewer.shown
    BY <1>3 DEF ReadRows, TInv, ViewerOK, NoViewer
  <2> QED BY <2>1 DEF ViewInv, Viewed, Past, Present
<1>4. CASE ReadBadges
  <2>1. /\ UNCHANGED <<story, turns, revision>> /\ viewer.pc = "badges"
        /\ viewer'.pc = "idle" /\ viewer'.loaded = viewer.polled
        /\ viewer'.shown = [total |-> viewer.total, turns |-> Badged(turns[Viewed], viewer.rows)]
    BY <1>4 DEF ReadBadges, Show, NoViewer
  <2> QED BY <2>1 DEF ViewInv, Viewed, Past, Present, Summary
<1>5. CASE ReadTurn \/ TurnNotFound \/ ReadOperations \/ ReadTouches
  <2>1. /\ UNCHANGED <<story, turns, revision>>
        /\ viewer'.pc = viewer.pc /\ viewer'.polled = viewer.polled
        /\ viewer'.total = viewer.total /\ viewer'.rows = viewer.rows
        /\ viewer'.loaded = viewer.loaded /\ viewer'.shown = viewer.shown
    BY <1>5 DEF ReadTurn, TurnNotFound, ReadOperations, ReadTouches, TInv, ViewerOK, NoViewer
  <2> QED BY <2>1 DEF ViewInv, Viewed, Past, Present
<1> QED BY <1>1, <1>2, <1>3, <1>4, <1>5 DEF View

LEMMA ViewNext == TInv /\ ViewInv /\ [Next]_vars => ViewInv'
<1> SUFFICES ASSUME TInv, ViewInv, [Next]_vars PROVE ViewInv'
  OBVIOUS
<1> USE DEF outside, shownVars
<1>0. UNCHANGED <<story, viewer, turns, revision>> => ViewInv'
  BY ViewKept DEF Viewed
<1>1. CASE UNCHANGED vars
  BY <1>0, <1>1 DEF vars
<1>2. ASSUME NEW s \in Sessions, Write(s) \/ LinkSession(s) \/ Correlate(s) PROVE ViewInv'
  BY <1>0, <1>2 DEF Write, LinkSession, Correlate
<1>3. CASE Ingest \/ InsertFails
  <2>1. CASE StoreProjection
    BY <2>1, ViewCommit DEF StoreProjection, IngesterKeeps
  <2>2. CASE \E s \in Sessions : OpenFile(s)
    BY <1>0, <2>2 DEF OpenFile, IngesterKeeps
  <2>3. CASE InsertRow \/ InsertFails \/ AddFacts \/ SetParent \/ CommitOffset
    BY <1>0, <2>3 DEF InsertRow, InsertFails, AddFacts, SetParent, CommitOffset, IngesterKeeps
  <2>4. CASE LoadProjection \/ Panic \/ StoreRefused
    BY <1>0, <2>4 DEF LoadProjection, Panic, StoreRefused, IngesterKeeps
  <2> QED BY <1>3, <2>1, <2>2, <2>3, <2>4 DEF Ingest
<1>4. CASE Repair \/ ListSessions \/ HangUp \/ Crash
  <2> USE DEF RepairKeeps
  <2>1. CASE Clear
    <3>1. \A s \in Sessions : revision'[s] = revision[s] /\ turns'[s] = <<>>
      BY <2>1 DEF Clear
    <3>2. UNCHANGED <<story, viewer>>
      BY <2>1 DEF Clear
    <3> QED BY <3>1, <3>2, ViewedType, ViewKept
  <2>2. CASE StoreRepair
    BY <2>2, ViewCommit DEF StoreRepair
  <2>3. CASE StartMaintenance \/ FindBare \/ FindMissing \/ LoadRepair
    BY <1>0, <2>3 DEF StartMaintenance, FindBare, FindMissing, LoadRepair
  <2>4. CASE Walk
    BY <1>0, <2>4 DEF Walk, WalkSession, WalkRow, SessionWalked, Walked
  <2>5. CASE RepairFails \/ RepairEnds \/ StartIngester
    BY <1>0, <2>5 DEF RepairFails, RepairEnds, StartIngester
  <2>6. CASE ListSessions \/ HangUp \/ Crash
    BY <1>0, <2>6 DEF ListSessions, HangUp, Crash
  <2> QED BY <1>4, <2>1, <2>2, <2>3, <2>4, <2>5, <2>6 DEF Repair
<1> QED BY <1>1, <1>2, <1>3, <1>4, ViewSteps DEF Next

\* A view that holds the present revision shows the present turns, although it
\* reads them over several statements, for any stories.
THEOREM ViewFresh == Spec => []ViewIsOfItsRevision
<1>1. ViewInv => ViewIsOfItsRevision
  BY DEF ViewInv, ViewIsOfItsRevision, Present
<1>2. Init => ViewInv
  BY DEF Init, ViewInv, NoViewer
<1> QED BY <1>1, <1>2, ViewNext, TypesHold, PTL DEF Spec

-----------------------------------------------------------------------------
(* Records taken over.                                                     *)

\* A row holds the record that starts at its offset.
Holds ==
    \A s \in Sessions : \A o \in DOMAIN rows[s] :
        \E i \in 1..written[s] : o = At(s, i) /\ rows[s][o].payload = story.records[s][i]

\* The records of a session that the committed offset or the pass has passed.
Passed(s, i) ==
    \/ i <= offset[s]
    \/ Reading(s) /\ i <= task.cursor

\* The rows that count: those of Codex when they have their columns.
Counts(s, i) ==
    /\ At(s, i) \in DOMAIN rows[s] \ dropped[s]
    /\ Agent(s) = "codex" => ~IsBare(rows[s][At(s, i)])

Settled ==
    \A s \in Sessions : \A i \in 1..written[s] :
        lineage[s] = Nil /\ Passed(s, i) /\ Counts(s, i) => DetectParent(story.records[s][i], s) = Nil

PassAhead == \A s \in Sessions : Reading(s) => offset[s] <= task.cursor

LInv ==
    /\ DOMAIN dropped = Sessions /\ DOMAIN lineage = Sessions
    /\ Holds /\ Settled /\ PassAhead

\* Offsets tell records apart.
LEMMA RecordsApart ==
    ASSUME TInv, NEW s \in Sessions, NEW i \in 1..written[s], NEW j \in 1..written[s], At(s, i) = At(s, j)
    PROVE  i = j
<1> DEFINE L == Len(story.records[s])
<1>1. /\ written[s] \in Nat /\ written[s] <= L /\ L \in Nat
  BY StartsInOrder DEF TInv, LogOK
<1>2. /\ \A k \in 1..(L + 1) : At(s, k) \in Nat
      /\ \A k, l \in 1..(L + 1) : k < l => At(s, k) < At(s, l)
  BY StartsInOrder DEF TInv
<1> HIDE DEF L
<1>3. i \in 1..(L + 1) /\ j \in 1..(L + 1) /\ i \in Nat /\ j \in Nat
  BY <1>1
<1>4. ~(i < j) /\ ~(j < i)
  BY <1>2, <1>3
<1> QED BY <1>3, <1>4

LEMMA RecordOfRow ==
    ASSUME TInv, Holds, NEW s \in Sessions, NEW i \in 1..written[s], At(s, i) \in DOMAIN rows[s]
    PROVE  rows[s][At(s, i)].payload = story.records[s][i]
<1>1. PICK j \in 1..written[s] : At(s, i) = At(s, j) /\ rows[s][At(s, i)].payload = story.records[s][j]
  BY DEF Holds
<1> QED BY <1>1, RecordsApart

\* Steps after which no more has to be settled than before.
LEMMA SettledKept ==
    ASSUME TInv, TInv', LInv, UNCHANGED <<story, offset>>, DOMAIN dropped' = Sessions,
           DOMAIN lineage' = Sessions,
           \A s \in Sessions :
               /\ written[s] <= written'[s]
               /\ lineage'[s] = Nil => lineage[s] = Nil
               /\ dropped[s] \subseteq dropped'[s]
               /\ DOMAIN rows'[s] = DOMAIN rows[s]
               /\ \A o \in DOMAIN rows[s] :
                      /\ rows'[s][o].payload = rows[s][o].payload
                      /\ IsBare(rows[s][o]) => IsBare(rows[s][o])'
               /\ Reading(s)' => Reading(s) /\ task'.cursor = task.cursor
    PROVE  LInv'
<1>1. \A s \in Sessions : \A i : At(s, i)' = At(s, i)
  BY DEF At
<1>2. \A s \in Sessions :
          /\ written[s] \in Nat /\ written'[s] \in Nat
          /\ offset[s] \in Nat /\ offset[s] <= written[s]
          /\ Reading(s) => task.cursor \in Nat /\ task.cursor <= written[s]
  BY DEF TInv, LogOK, TaskOK, Reading
<1>3. Holds'
  <2> SUFFICES ASSUME NEW s \in Sessions, NEW o \in DOMAIN rows'[s]
               PROVE  \E i \in 1..written'[s] : o = At(s, i)' /\ rows'[s][o].payload = story.records[s][i]
    BY DEF Holds
  <2>1. PICK i \in 1..written[s] : o = At(s, i) /\ rows[s][o].payload = story.records[s][i]
    BY DEF LInv, Holds
  <2> QED BY <1>1, <1>2, <2>1
<1>4. Settled'
  <2> SUFFICES ASSUME NEW s \in Sessions, NEW i \in 1..written'[s], lineage'[s] = Nil,
                      Passed(s, i)', Counts(s, i)'
               PROVE  DetectParent(story.records[s][i], s) = Nil
    BY DEF Settled
  <2>1. Passed(s, i) /\ i \in 1..written[s]
    BY <1>2 DEF Passed
  <2>2. Counts(s, i)
    BY <1>1 DEF Counts, Agent, IsBare
  <2> QED BY <2>1, <2>2 DEF LInv, Settled
<1>5. PassAhead'
  BY DEF LInv, PassAhead
<1> QED BY <1>3, <1>4, <1>5 DEF LInv

LEMMA SettledInit ==
    ASSUME Init
    PROVE  LInv
<1>1. TInv
  BY TypesInit
<1>2. WellFormed(story)
  BY <1>1, StoryFormed DEF TInv
<1>3. Holds
  <2> SUFFICES ASSUME NEW s \in Sessions, NEW o \in DOMAIN rows[s]
               PROVE  \E i \in 1..written[s] : o = At(s, i) /\ rows[s][o].payload = story.records[s][i]
    BY DEF Holds
  <2> DEFINE i == CHOOSE i \in 1..story.legacy[s] : At(s, i) = o
  <2>1. i \in 1..story.legacy[s] /\ At(s, i) = o
    BY DEF Init
  <2>2. 1..story.legacy[s] \subseteq 1..written[s]
    BY <1>2 DEF Init, WellFormed
  <2>3. rows[s][o].payload = story.records[s][i]
    BY <2>1 DEF Init, BareRow
  <2> HIDE DEF i
  <2> QED BY <2>1, <2>2, <2>3
<1>4. Settled
  <2> SUFFICES ASSUME NEW s \in Sessions, NEW i \in 1..written[s],
                      lineage[s] = Nil, Passed(s, i), Counts(s, i)
               PROVE  DetectParent(story.records[s][i], s) = Nil
    BY DEF Settled
  <2>1. i \in 1..story.legacy[s] /\ story.legacy[s] \in Nat
    BY <1>2 DEF Init, Passed, Reading, NoTask, WellFormed
  <2>2. Agent(s) # "codex"
    BY <2>1 DEF Init, Counts, IsBare, BareRow
  <2> DEFINE named == {k \in 1..story.legacy[s] : DetectParent(story.records[s][k], s) # Nil}
  <2>3. CASE named = {}
    BY <2>1, <2>3
  <2>4. CASE named # {}
    <3>1. \E m \in named : \A q \in named : m <= q
      <4>1. named \subseteq Nat
        BY <2>1
      <4> HIDE DEF named
      <4> QED BY <2>4, <4>1, SmallestOf
    <3>2. Min(named) \in named
      BY <3>1 DEF Min
    <3> QED BY <2>2, <2>4, <3>2 DEF Init, LegacyParent
  <2> QED BY <2>3, <2>4
<1> QED BY <1>3, <1>4 DEF Init, LInv, PassAhead, Reading, NoTask

LEMMA SettledOpen ==
    ASSUME TInv, TInv', LInv, NEW s \in Sessions, OpenFile(s)
    PROVE  LInv'
<1> USE DEF OpenFile, IngesterKeeps, outside, rowVars, shownVars
<1>1. UNCHANGED <<story, written, offset, rows, dropped, lineage>>
  OBVIOUS
<1>2. \A q \in Sessions : Reading(q)' => q = s /\ task'.cursor = offset[q]
  BY DEF TInv, TaskOK, NoTask, Reading
<1>3. \A q \in Sessions : offset[q] \in Nat
  BY DEF TInv, LogOK
<1>4. \A q \in Sessions, i \in Nat : (Counts(q, i)' => Counts(q, i)) /\ (Passed(q, i)' => Passed(q, i))
  BY <1>1, <1>2, <1>3 DEF Counts, Agent, IsBare, Passed, At
<1>5. Settled'
  BY <1>1, <1>4 DEF LInv, Settled
<1>6. Holds' /\ PassAhead'
  BY <1>1, <1>2, <1>3 DEF LInv, Holds, PassAhead, At
<1> QED BY <1>1, <1>5, <1>6 DEF LInv

LEMMA SettledInsert ==
    ASSUME TInv, TInv', LInv, InsertRow, NEW s \in Sessions, s = task.session
    PROVE  LInv'
<1> USE DEF IngesterKeeps, outside, rowVars, shownVars
<1>1. /\ UNCHANGED <<story, written, offset, dropped, lineage>>
      /\ \A q \in Sessions : \A i : At(q, i)' = At(q, i)
  BY DEF InsertRow, At
<1>2. /\ task.cursor \in Nat /\ task.cursor + 1 \in 1..written[s] /\ Reading(s)
      /\ task'.session = s /\ task'.cursor = task.cursor /\ written[s] \in Nat
      /\ offset[s] <= task.cursor /\ offset[s] \in Nat
  BY DEF InsertRow, TInv, TaskOK, LogOK, NoTask, Reading, LInv, PassAhead
<1>3. PICK o : o = At(s, task.cursor + 1)
  OBVIOUS
<1>4. /\ DOMAIN rows' = Sessions
      /\ \A q \in Sessions : q # s => rows'[q] = rows[q]
      /\ DOMAIN rows'[s] = DOMAIN rows[s] \cup {o}
      /\ \A k \in DOMAIN rows[s] : rows'[s][k] = rows[s][k]
      /\ o \notin DOMAIN rows[s] => rows'[s][o].payload = Record
  BY <1>3 DEF InsertRow, TInv, RowsOK, Offset
<1>5. Holds'
  <2> SUFFICES ASSUME NEW q \in Sessions, NEW k \in DOMAIN rows'[q]
               PROVE  \E i \in 1..written[q] : k = At(q, i) /\ rows'[q][k].payload = story.records[q][i]
    BY <1>1 DEF Holds
  <2>1. CASE q # s \/ k \in DOMAIN rows[s]
    BY <1>4, <2>1 DEF LInv, Holds
  <2>2. CASE q = s /\ k \notin DOMAIN rows[s]
    BY <1>2, <1>3, <1>4, <2>2 DEF Record
  <2> QED BY <2>1, <2>2
<1>6. Settled'
  <2> SUFFICES ASSUME NEW q \in Sessions, NEW i \in 1..written[q], lineage[q] = Nil,
                      Passed(q, i)', Counts(q, i)'
               PROVE  DetectParent(story.records[q][i], q) = Nil
    BY <1>1 DEF Settled
  <2>1. Passed(q, i)
    BY <1>1, <1>2 DEF Passed, Reading
  <2>2. q = s => At(q, i) # o
    <3> SUFFICES ASSUME q = s, At(q, i) = o PROVE FALSE
      OBVIOUS
    <3>1. i = task.cursor + 1
      BY <1>2, <1>3, RecordsApart
    <3> QED BY <1>2, <2>1, <3>1 DEF Passed
  <2>3. Counts(q, i)
    BY <1>1, <1>4, <2>2 DEF Counts, Agent, IsBare
  <2> QED BY <2>1, <2>3 DEF LInv, Settled
<1>7. PassAhead'
  BY <1>1, <1>2 DEF LInv, PassAhead, Reading
<1> QED BY <1>1, <1>5, <1>6, <1>7 DEF LInv

LEMMA SettledFails ==
    ASSUME TInv, TInv', LInv, InsertFails, NEW s \in Sessions, s = task.session
    PROVE  LInv'
<1> USE DEF IngesterKeeps, outside, rowVars, shownVars
<1>1. /\ UNCHANGED <<story, written, offset, rows, lineage>>
      /\ \A q \in Sessions : \A i : At(q, i)' = At(q, i)
  BY DEF InsertFails, At
<1>2. /\ task.cursor \in Nat /\ Reading(s)
      /\ task'.session = s /\ task'.cursor = task.cursor + 1 /\ offset[s] <= task.cursor
      /\ offset[s] \in Nat
  BY DEF InsertFails, TInv, TaskOK, LogOK, NoTask, Reading, LInv, PassAhead
<1>3. /\ DOMAIN dropped' = Sessions /\ \A q \in Sessions : dropped[q] \subseteq dropped'[q]
      /\ At(s, task.cursor + 1) \in dropped'[s]
  BY DEF InsertFails, LInv, Offset
<1>4. Settled'
  <2> SUFFICES ASSUME NEW q \in Sessions, NEW i \in 1..written[q], lineage[q] = Nil,
                      Passed(q, i)', Counts(q, i)'
               PROVE  DetectParent(story.records[q][i], q) = Nil
    BY <1>1 DEF Settled
  <2>1. Counts(q, i)
    BY <1>1, <1>3 DEF Counts, Agent, IsBare
  <2>2. ~(q = s /\ i = task.cursor + 1)
    BY <1>1, <1>3 DEF Counts
  <2>3. Passed(q, i)
    BY <1>1, <1>2, <2>2 DEF Passed, Reading
  <2> QED BY <2>1, <2>3 DEF LInv, Settled
<1>5. Holds'
  BY <1>1 DEF LInv, Holds
<1>6. PassAhead'
  BY <1>1, <1>2 DEF LInv, PassAhead, Reading
<1> QED BY <1>1, <1>3, <1>4, <1>5, <1>6 DEF LInv

LEMMA SettledParent ==
    ASSUME TInv, TInv', LInv, SetParent, NEW s \in Sessions, s = task.session
    PROVE  LInv'
<1> USE DEF IngesterKeeps, outside, rowVars, shownVars
<1>1. /\ UNCHANGED <<story, written, offset, rows, dropped>>
      /\ \A q \in Sessions : \A i : At(q, i)' = At(q, i)
  BY DEF SetParent, At
<1>2. /\ task.cursor \in Nat /\ Reading(s)
      /\ task'.session = s /\ task'.cursor = task.cursor + 1 /\ offset[s] <= task.cursor
      /\ offset[s] \in Nat
  BY DEF SetParent, TInv, TaskOK, LogOK, NoTask, Reading, LInv, PassAhead
<1>3. /\ DOMAIN lineage' = Sessions /\ \A q \in Sessions : lineage'[q] = Nil => lineage[q] = Nil
      /\ lineage'[s] = Nil => DetectParent(Record, s) = Nil
  BY DEF SetParent, LineageWith, LInv
<1>4. Settled'
  <2> SUFFICES ASSUME NEW q \in Sessions, NEW i \in 1..written[q], lineage'[q] = Nil,
                      Passed(q, i)', Counts(q, i)'
               PROVE  DetectParent(story.records[q][i], q) = Nil
    BY <1>1 DEF Settled
  <2>1. Counts(q, i)
    BY <1>1 DEF Counts, Agent, IsBare
  <2>2. CASE q = s /\ i = task.cursor + 1
    BY <1>3, <2>2 DEF Record
  <2>3. CASE ~(q = s /\ i = task.cursor + 1)
    <3>1. Passed(q, i)
      BY <1>1, <1>2, <2>3 DEF Passed, Reading
    <3> QED BY <1>3, <2>1, <3>1 DEF LInv, Settled
  <2> QED BY <2>2, <2>3
<1>5. Holds'
  BY <1>1 DEF LInv, Holds
<1>6. PassAhead'
  BY <1>1, <1>2 DEF LInv, PassAhead, Reading
<1> QED BY <1>1, <1>3, <1>4, <1>5, <1>6 DEF LInv

LEMMA SettledCommit ==
    ASSUME TInv, TInv', LInv, CommitOffset, NEW s \in Sessions, s = task.session
    PROVE  LInv'
<1> USE DEF IngesterKeeps, outside, rowVars, shownVars
<1>1. /\ UNCHANGED <<story, written, rows, dropped, lineage>>
      /\ \A q \in Sessions : \A i : At(q, i)' = At(q, i)
  BY DEF CommitOffset, At
<1>2. /\ Reading(s) /\ \A q \in Sessions : ~Reading(q)'
      /\ \A q \in Sessions : offset'[q] = IF q = s THEN task.cursor ELSE offset[q]
  BY DEF CommitOffset, TInv, TaskOK, LogOK, NoTask, Reading
<1>3. \A q \in Sessions, i \in Nat : (Counts(q, i)' => Counts(q, i)) /\ (Passed(q, i)' => Passed(q, i))
  BY <1>1, <1>2 DEF Counts, Agent, IsBare, Passed
<1>4. Settled'
  BY <1>1, <1>3 DEF LInv, Settled
<1>5. Holds' /\ PassAhead'
  BY <1>1, <1>2 DEF LInv, Holds, PassAhead
<1> QED BY <1>1, <1>4, <1>5 DEF LInv

LEMMA SettledWalkRow ==
    ASSUME TInv, TInv', LInv, NEW s \in Sessions, s = repair.session, NEW o \in DOMAIN rows[s],
           WalkRow(o)
    PROVE  LInv'
<1> USE DEF RepairKeeps, outside, rowVars, shownVars
<1> DEFINE row == rows[s][o]
<1>1. /\ UNCHANGED <<story, written, offset, dropped, task>>
      /\ \A q \in Sessions : \A i : At(q, i)' = At(q, i)
  BY DEF WalkRow, At
<1>2. /\ DOMAIN rows' = Sessions
      /\ \A q \in Sessions : q # s => rows'[q] = rows[q]
      /\ DOMAIN rows'[s] = DOMAIN rows[s]
      /\ rows'[s][o] = RewrittenRow(row, o)
      /\ \A k \in DOMAIN rows[s] : k # o => rows'[s][k] = rows[s][k]
  BY DEF WalkRow, TInv, RowsOK
<1>3. rows'[s][o].payload = row.payload
  BY <1>2 DEF RewrittenRow
<1>4. /\ DOMAIN lineage' = Sessions /\ \A q \in Sessions : lineage'[q] = Nil => lineage[q] = Nil
      /\ lineage'[s] = Nil /\ IsBare(row) /\ Agent(s) = "codex" => DetectParent(row.payload, s) = Nil
  BY DEF WalkRow, LineageWith, LInv
<1>5. Holds'
  <2> SUFFICES ASSUME NEW q \in Sessions, NEW k \in DOMAIN rows[q]
               PROVE  \E i \in 1..written[q] : k = At(q, i) /\ rows'[q][k].payload = story.records[q][i]
    BY <1>1, <1>2 DEF Holds
  <2>1. rows'[q][k].payload = rows[q][k].payload
    BY <1>2, <1>3
  <2> QED BY <2>1 DEF LInv, Holds
<1>6. Settled'
  <2> SUFFICES ASSUME NEW q \in Sessions, NEW i \in 1..written[q], lineage'[q] = Nil,
                      Passed(q, i)', Counts(q, i)'
               PROVE  DetectParent(story.records[q][i], q) = Nil
    BY <1>1 DEF Settled
  <2>1. Passed(q, i)
    BY <1>1 DEF Passed, Reading
  <2>2. CASE Counts(q, i)
    BY <1>4, <2>1, <2>2 DEF LInv, Settled
  <2>3. CASE ~Counts(q, i)
    <3>1. q = s /\ At(q, i) = o /\ IsBare(row) /\ Agent(s) = "codex"
      BY <1>1, <1>2, <2>3 DEF Counts, Agent, IsBare
    <3>2. row.payload = story.records[q][i]
      BY <3>1, RecordOfRow DEF LInv
    <3> QED BY <1>4, <3>1, <3>2
  <2> QED BY <2>2, <2>3
<1>7. PassAhead'
  BY <1>1 DEF LInv, PassAhead, Reading
<1> QED BY <1>1, <1>4, <1>5, <1>6, <1>7 DEF LInv

LEMMA SettledNext == TInv /\ TInv' /\ LInv /\ [Next]_vars => LInv'
<1> SUFFICES ASSUME TInv, TInv', LInv, [Next]_vars PROVE LInv'
  OBVIOUS
<1> USE DEF outside, rowVars, shownVars
\* Most steps settle nothing and pass nothing.
<1> DEFINE Passive ==
        /\ UNCHANGED <<story, offset, rows, dropped, lineage>>
        /\ \A s \in Sessions : written[s] <= written'[s]
        /\ UNCHANGED task \/ task'.pc \notin {"insert", "facts", "parent"}
<1>0. Passive => LInv'
  <2> SUFFICES ASSUME Passive PROVE LInv'
    OBVIOUS
  <2>1. \A s \in Sessions : Reading(s)' => Reading(s) /\ task'.cursor = task.cursor
    BY DEF Reading
  <2> QED BY <2>1, SettledKept DEF LInv, IsBare
<1>w. \A s \in Sessions : written[s] \in Nat /\ written[s] <= written[s]
  BY DEF TInv, LogOK
<1>1. CASE UNCHANGED vars
  BY <1>0, <1>1, <1>w DEF vars
<1>2. ASSUME NEW s \in Sessions, Write(s) \/ LinkSession(s) \/ Correlate(s) PROVE LInv'
  <2>1. \A q \in Sessions : written[q] <= written'[q]
    BY <1>2, <1>w DEF Write, LinkSession, Correlate, TInv, LogOK
  <2> QED BY <1>0, <1>2, <2>1 DEF Write, LinkSession, Correlate
<1>3. CASE View
  <2>1. ViewerKeeps
    BY <1>3 DEF View, Poll, ReadTotal, ReadRows, ReadBadges, ReadTurn, TurnNotFound,
                ReadOperations, ReadTouches
  <2> QED BY <1>0, <1>w, <2>1 DEF ViewerKeeps
<1>4. CASE Ingest \/ InsertFails
  <2>1. CASE InsertRow \/ InsertFails \/ AddFacts \/ SetParent \/ CommitOffset
    <3>1. PICK s \in Sessions : s = task.session
      BY <2>1 DEF InsertRow, InsertFails, AddFacts, SetParent, CommitOffset, TInv, TaskOK
    <3>2. CASE AddFacts
      <4>1. /\ UNCHANGED <<story, offset, rows, dropped, lineage, written>>
            /\ \A q \in Sessions : Reading(q)' => Reading(q) /\ task'.cursor = task.cursor
        BY <3>2 DEF AddFacts, IngesterKeeps, Reading, TInv, TaskOK, NoTask
      <4> QED BY <1>w, <4>1, SettledKept DEF LInv, IsBare
    <3> QED BY <2>1, <3>1, <3>2, SettledInsert, SettledFails, SettledParent, SettledCommit
  <2>2. CASE LoadProjection \/ Panic \/ StoreProjection \/ StoreRefused
    <3>1. task'.pc \notin {"insert", "facts", "parent"}
      BY <2>2 DEF LoadProjection, Panic, StoreProjection, StoreRefused, NextRebuild, NoTask, TInv, TaskOK
    <3> QED BY <1>0, <1>w, <2>2, <3>1
         DEF LoadProjection, Panic, StoreProjection, StoreRefused, IngesterKeeps
  <2> QED BY <1>4, <2>1, <2>2, SettledOpen DEF Ingest
<1>5. CASE ListSessions \/ HangUp \/ Crash
  <2>1. UNCHANGED task \/ task'.pc \notin {"insert", "facts", "parent"}
    BY <1>5 DEF ListSessions, HangUp, Crash, NoTask
  <2> QED BY <1>0, <1>5, <1>w, <2>1 DEF ListSessions, HangUp, Crash, RepairKeeps
<1>6. CASE Repair
  <2>1. CASE StartMaintenance \/ FindBare \/ FindMissing \/ LoadRepair \/ StoreRepair
    BY <1>0, <1>w, <2>1 DEF StartMaintenance, FindBare, FindMissing, LoadRepair, StoreRepair, RepairKeeps
  <2>2. CASE RepairFails \/ RepairEnds \/ StartIngester
    <3>1. UNCHANGED task \/ task'.pc \notin {"insert", "facts", "parent"}
      BY <2>2 DEF RepairFails, RepairEnds, StartIngester, TInv, TaskOK, NoTask
    <3> QED BY <1>0, <1>w, <2>2, <3>1 DEF RepairFails, RepairEnds, StartIngester, RepairKeeps
  <2>3. CASE Walk
    <3>1. CASE SessionWalked \/ Walked \/ \E s \in Sessions : WalkSession(s)
      BY <1>0, <1>w, <3>1 DEF SessionWalked, Walked, WalkSession, RepairKeeps
    <3>2. ASSUME NEW o \in DOMAIN rows[repair.session], WalkRow(o), repair.session \in Sessions
          PROVE  LInv'
      <4>1. PICK s \in Sessions : s = repair.session
        BY <3>2
      <4> QED BY <3>2, <4>1, SettledWalkRow
    <3> QED BY <2>3, <3>1, <3>2 DEF Walk, TInv, RepairOK
  <2>4. CASE Clear
    <3>1. UNCHANGED <<story, offset, written, dropped, lineage, task>>
      BY <2>4 DEF Clear, RepairKeeps
    <3>2. \A s \in Sessions :
              /\ DOMAIN rows'[s] = DOMAIN rows[s]
              /\ \A o \in DOMAIN rows[s] : /\ rows'[s][o].payload = rows[s][o].payload
                                           /\ IsBare(rows[s][o]) => IsBare(rows[s][o])'
      BY <2>4 DEF Clear, IsBare
    <3> QED BY <1>w, <3>1, <3>2, SettledKept DEF LInv, Reading
  <2> QED BY <1>6, <2>1, <2>2, <2>3, <2>4 DEF Repair
<1> QED BY <1>1, <1>2, <1>3, <1>4, <1>5, <1>6 DEF Next

\* The lineage of a session is set by the time the committed offset passes a
\* record that names its parent, for any stories and any number of crashes.
THEOREM LineageIsSettled == Spec => []LineageSettled
<1>1. TInv /\ LInv => LineageSettled
  <2> SUFFICES ASSUME TInv, LInv, NEW s \in Sessions, NEW o \in DOMAIN rows[s] \ dropped[s],
                      o < At(s, offset[s] + 1), ~IsBare(rows[s][o]),
                      DetectParent(rows[s][o].payload, s) # Nil
               PROVE  lineage[s] # Nil
    BY DEF LineageSettled
  <2>1. PICK i \in 1..written[s] : o = At(s, i) /\ rows[s][o].payload = story.records[s][i]
    BY DEF LInv, Holds
  <2>2. i <= offset[s]
    <3> DEFINE L == Len(story.records[s])
    <3>1. /\ L \in Nat /\ written[s] \in Nat /\ written[s] <= L /\ offset[s] \in Nat /\ offset[s] <= written[s]
      BY StartsInOrder DEF TInv, LogOK
    <3>2. /\ \A k \in 1..(L + 1) : At(s, k) \in Nat
          /\ \A k, l \in 1..(L + 1) : k < l => At(s, k) < At(s, l)
      BY StartsInOrder DEF TInv
    <3> HIDE DEF L
    <3>3. i \in 1..(L + 1) /\ offset[s] + 1 \in 1..(L + 1) /\ i \in Nat
      BY <3>1
    <3>4. ~(offset[s] + 1 < i) /\ offset[s] + 1 # i
      BY <2>1, <3>2, <3>3
    <3> QED BY <3>1, <3>3, <3>4
  <2> QED BY <2>1, <2>2 DEF LInv, Settled, Passed, Counts
<1>2. Init => LInv
  BY SettledInit
<1>3. LInv /\ TInv /\ TInv' /\ [Next]_vars => LInv'
  BY SettledNext
<1> QED BY <1>1, <1>2, <1>3, TypesHold, PTL DEF Spec

-----------------------------------------------------------------------------
(* No row is left without its canonical columns.                           *)

\* A parsed record is an event, not Nil.
ParsesToEvent == \A r, o, s, ctx : ParseEvent(r, o, s, ctx) # Nil

Bare(s, o) == o \in DOMAIN rows[s] /\ IsBare(rows[s][o])

NoneBare == \A s \in Sessions : \A o : ~Bare(s, o)

\* What the walk has still to come to.
Ahead(s, o) == s \in repair.bare \/ (s = repair.session /\ o >= repair.below)

BInv ==
    /\ BareOnlyInRepair
    /\ repair.pc \in {"clear", "bare", "walk"} => repair.below \in Nat
    /\ repair.pc = "walk" =>
          \A s \in Sessions : \A o : Bare(s, o) => Ahead(s, o)
    /\ repair.pc \in {"missing", "rebuild", "store"} =>
          NoneBare \/ {"crash", "hangup"} \cap story.may # {}

\* Rows that are added are complete, and the steps that only go on keep what is
\* missing where it was.
LEMMA BareKept ==
    ASSUME BInv, UNCHANGED <<story, repair, versions>>, \A s \in Sessions : \A o : Bare(s, o)' => Bare(s, o)
    PROVE  BInv'
<1>1. NoneBare => NoneBare'
  BY DEF NoneBare
<1>2. BareOnlyInRepair'
  BY DEF BInv, BareOnlyInRepair, Bare
<1> QED BY <1>1, <1>2 DEF BInv, Ahead

LEMMA BareInsert ==
    ASSUME ParsesToEvent, TInv, BInv, InsertRow, NEW s \in Sessions, s = task.session
    PROVE  BInv'
<1> USE DEF IngesterKeeps, outside, rowVars, shownVars
<1> DEFINE row == [payload |-> Record, ts |-> IF Record.ts = 0 THEN Now ELSE Record.ts,
                   event |-> ParseEvent(Record, Offset, s, task.ctx)]
           stored == [o \in DOMAIN rows[s] \cup {Offset} |-> IF o = Offset THEN row ELSE rows[s][o]]
<1>1. rows' = rows \/ (Offset \notin DOMAIN rows[s] /\ rows' = [rows EXCEPT ![s] = stored])
  BY DEF InsertRow
<1>2. UNCHANGED <<story, repair, versions>>
  BY DEF InsertRow
<1>3. ~IsBare(row)
  BY DEF ParsesToEvent, IsBare
<1>4. ASSUME NEW q \in Sessions, NEW o, Bare(q, o)' PROVE Bare(q, o)
  <2>1. CASE rows' = rows
    BY <1>4, <2>1 DEF Bare, IsBare
  <2>2. CASE rows' = [rows EXCEPT ![s] = stored] /\ q = s
    <3>1. rows'[q] = stored
      BY <2>2 DEF TInv, RowsOK
    <3>2. o \in DOMAIN stored /\ stored[o].event = Nil
      BY <1>4, <3>1 DEF Bare, IsBare
    <3>3. o # Offset
      BY <1>3, <3>2 DEF IsBare
    <3> QED BY <2>2, <3>2, <3>3 DEF Bare, IsBare
  <2>3. CASE rows' = [rows EXCEPT ![s] = stored] /\ q # s
    BY <1>4, <2>3 DEF Bare, IsBare, TInv, RowsOK
  <2> QED BY <1>1, <2>1, <2>2, <2>3
<1> QED BY <1>2, <1>4, BareKept

LEMMA OffsetsAreNat ==
    ASSUME TInv, NEW s \in Sessions
    PROVE  \A k \in DOMAIN rows[s] : k \in Nat
<1> SUFFICES ASSUME NEW k \in DOMAIN rows[s] PROVE k \in Nat
  OBVIOUS
<1>1. PICK i \in 1..written[s] : k = At(s, i)
  BY DEF TInv, RowsOK
<1>2. /\ written[s] \in Nat /\ Len(story.records[s]) \in Nat /\ written[s] <= Len(story.records[s])
  BY StartsInOrder DEF TInv, LogOK
<1>3. i \in 1..(Len(story.records[s]) + 1)
  BY <1>2
<1> QED BY <1>1, <1>3, StartsInOrder DEF TInv

LEMMA BareWalkRow ==
    ASSUME ParsesToEvent, TInv, BInv, NEW s \in Sessions, s = repair.session,
           NEW o \in DOMAIN rows[s], WalkRow(o)
    PROVE  BInv'
<1> USE DEF RepairKeeps, outside, rowVars, shownVars
<1>1. /\ UNCHANGED <<story, versions>> /\ repair.pc = "walk"
      /\ \A q \in DOMAIN rows[s] : q >= repair.below => o <= q
  BY DEF WalkRow, WalkAt
<1>2. /\ repair'.pc = "walk" /\ repair'.session = s /\ repair'.bare = repair.bare
      /\ repair'.below = o + 1
  BY <1>1 DEF WalkRow, TInv, RepairOK, NoRepair
<1>3. /\ \A q \in Sessions : q # s => rows'[q] = rows[q]
      /\ DOMAIN rows'[s] = DOMAIN rows[s]
      /\ rows'[s][o] = RewrittenRow(rows[s][o], o)
      /\ \A k \in DOMAIN rows[s] : k # o => rows'[s][k] = rows[s][k]
  BY DEF WalkRow, TInv, RowsOK
<1>4. ~IsBare(RewrittenRow(rows[s][o], o))
  BY DEF ParsesToEvent, RewrittenRow, IsBare
<1>5. \A k \in DOMAIN rows[s] : k \in Nat
  BY OffsetsAreNat
<1>6. ASSUME NEW q \in Sessions, NEW k, Bare(q, k)' PROVE Ahead(q, k)'
  <2>1. Bare(q, k) /\ ~(q = s /\ k = o)
    BY <1>3, <1>4, <1>6 DEF Bare, IsBare
  <2>2. Ahead(q, k)
    BY <1>1, <2>1 DEF BInv
  <2>3. CASE q \in repair.bare
    BY <1>2, <2>3 DEF Ahead
  <2>4. CASE q = s /\ k >= repair.below
    <3>1. o <= k /\ k # o /\ o \in Nat /\ k \in Nat
      BY <1>1, <1>5, <2>1, <2>4 DEF Bare
    <3> QED BY <1>2, <2>4, <3>1 DEF Ahead
  <2> QED BY <2>2, <2>3, <2>4 DEF Ahead
<1>7. BareOnlyInRepair'
  BY <1>2 DEF BareOnlyInRepair
<1>8. o + 1 \in Nat
  BY <1>5
<1> QED BY <1>2, <1>6, <1>7, <1>8 DEF BInv

\* Steps of the repair that leave the rows alone.
LEMMA BareRepair ==
    ASSUME TInv, BInv, UNCHANGED <<story, rows>>,
           \/ StartMaintenance \/ FindBare \/ FindMissing \/ LoadRepair \/ StoreRepair
           \/ RepairFails \/ RepairEnds \/ SessionWalked \/ Walked
           \/ \E s \in Sessions : WalkSession(s)
    PROVE  BInv'
<1> USE DEF RepairKeeps, outside, rowVars, shownVars
<1>0. /\ \A s \in Sessions : \A o : Bare(s, o)' <=> Bare(s, o)
      /\ NoneBare' <=> NoneBare
  BY DEF Bare, NoneBare, IsBare
<1>a. /\ BareOnlyInRepair <=> (~NoneBare => \/ "blocks" \notin versions
                                            \/ repair.pc \in {"bare", "walk"}
                                            \/ {"crash", "hangup"} \cap story.may # {})
      /\ BareOnlyInRepair' <=> (~NoneBare => \/ "blocks" \notin versions'
                                             \/ repair'.pc \in {"bare", "walk"}
                                             \/ {"crash", "hangup"} \cap story.may # {})
  BY <1>0 DEF BareOnlyInRepair, NoneBare, Bare
<1>1. CASE StartMaintenance
  <2>1. /\ versions' = versions /\ repair.pc = "none"
        /\ repair'.pc = IF "blocks" \in versions THEN "missing" ELSE "bare"
        /\ repair'.below = 0
    BY <1>1 DEF StartMaintenance, NoRepair
  <2> QED BY <1>0, <1>a, <2>1 DEF BInv
<1>2. CASE FindBare
  <2>1. /\ repair'.pc = "walk" /\ repair'.bare = BareSessions /\ repair'.below = repair.below
    BY <1>2 DEF FindBare, TInv, RepairOK, NoRepair
  <2>2. repair.below \in Nat
    BY <1>2 DEF FindBare, BInv
  <2>3. \A s \in Sessions : \A o : Bare(s, o) => s \in BareSessions
    BY DEF Bare, BareSessions
  <2> QED BY <1>0, <1>a, <2>1, <2>2, <2>3 DEF BInv, Ahead
<1>3. CASE FindMissing \/ LoadRepair \/ StoreRepair
  <2>1. /\ versions' = versions /\ repair.pc \in {"missing", "rebuild", "store"}
        /\ repair'.pc \in {"rebuild", "store"}
    BY <1>3 DEF FindMissing, LoadRepair, StoreRepair, TInv, RepairOK, NoRepair
  <2> QED BY <1>0, <1>a, <2>1 DEF BInv
<1>4. CASE RepairFails \/ RepairEnds
  <2>1. repair.pc \in {"rebuild", "store"} /\ repair'.pc = "none"
    BY <1>4 DEF RepairFails, RepairPanics, RepairEnds, NoRepair
  <2> QED BY <1>0, <1>a, <2>1 DEF BInv
<1>5. CASE SessionWalked
  <2>1. /\ repair.pc = "walk" /\ repair'.pc = "walk" /\ repair'.bare = repair.bare
        /\ repair'.below = repair.below /\ repair.session \in Sessions
        /\ \A o \in DOMAIN rows[repair.session] : o < repair.below
    BY <1>5 DEF SessionWalked, TInv, RepairOK, NoRepair
  <2>2. ASSUME NEW s \in Sessions, NEW o, Bare(s, o) PROVE s \in repair.bare
    <3>1. o \in DOMAIN rows[s] /\ Ahead(s, o) /\ repair.below \in Nat
      BY <2>1, <2>2 DEF BInv, Bare
    <3>2. o \in Nat
      BY <3>1, OffsetsAreNat
    <3>3. s # repair.session \/ ~(o >= repair.below)
      BY <2>1, <3>1, <3>2
    <3> QED BY <3>1, <3>3 DEF Ahead
  <2> QED BY <1>0, <1>a, <2>1, <2>2 DEF BInv, Ahead
<1>6. CASE Walked
  <2>1. NoneBare
    BY <1>6, SessionsAssumption DEF Walked, BInv, NoneBare, Ahead
  <2>2. repair'.pc \in {"missing", "rebuild"}
    BY <1>6 DEF Walked, TInv, RepairOK, NoRepair
  <2> QED BY <1>0, <1>a, <2>1, <2>2 DEF BInv
<1>7. ASSUME NEW s \in Sessions, WalkSession(s) PROVE BInv'
  <2>1. /\ repair.pc = "walk" /\ repair.session = Nil /\ repair'.pc = "walk"
        /\ repair'.bare = repair.bare \ {s} /\ repair'.session = s /\ repair'.below = 0
    BY <1>7 DEF WalkSession, TInv, RepairOK, NoRepair
  <2>2. ASSUME NEW q \in Sessions, NEW o, Bare(q, o) PROVE Ahead(q, o)'
    <3>1. q \in repair.bare
      BY <2>1, <2>2, SessionsAssumption DEF BInv, Ahead
    <3>2. o \in Nat
      BY <2>2, OffsetsAreNat DEF Bare
    <3> QED BY <2>1, <3>1, <3>2 DEF Ahead
  <2> QED BY <1>0, <1>a, <2>1, <2>2 DEF BInv
<1> QED BY <1>1, <1>2, <1>3, <1>4, <1>5, <1>6, <1>7

LEMMA BareInit == Init => BInv
<1> SUFFICES ASSUME Init PROVE BInv
  OBVIOUS
<1>1. PICK n \in DOMAIN Stories : story = Stories[n]
  BY DEF Init
<1>2. WellFormed(story)
  BY <1>1, StoriesAssumption
<1>3. CASE known = {}
  <2>1. \A s \in Sessions : story.legacy[s] = 0
    BY <1>2, <1>3 DEF Init, WellFormed
  <2>2. \A s \in Sessions : \A o \in DOMAIN rows[s] : FALSE
    BY <2>1 DEF Init
  <2> QED BY <2>2 DEF Init, BInv, BareOnlyInRepair, NoRepair
<1>4. CASE known # {}
  BY <1>4 DEF Init, BInv, BareOnlyInRepair, NoRepair
<1> QED BY <1>3, <1>4

LEMMA BareNext == ParsesToEvent /\ BInv /\ TInv /\ [Next]_vars => BInv'
<1> SUFFICES ASSUME ParsesToEvent, BInv, TInv, [Next]_vars PROVE BInv'
  OBVIOUS
<1> USE DEF outside, rowVars, shownVars
<1>0. UNCHANGED <<story, repair, versions, rows>> => BInv'
  BY BareKept DEF Bare, IsBare
<1>1. CASE UNCHANGED vars
  BY <1>0, <1>1 DEF vars
<1>2. ASSUME NEW s \in Sessions, Write(s) \/ LinkSession(s) \/ Correlate(s) PROVE BInv'
  BY <1>0, <1>2 DEF Write, LinkSession, Correlate
<1>3. CASE View
  BY <1>0, <1>3 DEF View, Poll, ReadTotal, ReadRows, ReadBadges, ReadTurn, TurnNotFound,
                    ReadOperations, ReadTouches, ViewerKeeps
<1>4. CASE Ingest \/ InsertFails
  <2> USE DEF IngesterKeeps
  <2>1. CASE InsertRow
    BY <2>1, BareInsert DEF InsertRow, TInv, TaskOK
  <2>2. CASE \E s \in Sessions : OpenFile(s)
    BY <1>0, <2>2 DEF OpenFile
  <2>3. CASE InsertFails \/ AddFacts \/ SetParent \/ CommitOffset
    BY <1>0, <2>3 DEF InsertFails, AddFacts, SetParent, CommitOffset
  <2>4. CASE LoadProjection \/ Panic \/ StoreProjection \/ StoreRefused
    BY <1>0, <2>4 DEF LoadProjection, Panic, StoreProjection, StoreRefused
  <2> QED BY <1>4, <2>1, <2>2, <2>3, <2>4 DEF Ingest
<1>5. CASE Repair
  <2> USE DEF RepairKeeps
  <2>1. CASE Clear
    <3>1. repair.pc = "clear" /\ repair'.pc = "bare" /\ repair'.below = repair.below
      BY <2>1 DEF Clear, TInv, RepairOK, NoRepair
    <3> QED BY <3>1 DEF BInv, BareOnlyInRepair
  <2>2. CASE \/ StartMaintenance \/ FindBare \/ FindMissing \/ LoadRepair \/ StoreRepair
             \/ RepairFails \/ RepairEnds
    <3>1. UNCHANGED <<story, rows>>
      BY <2>2 DEF StartMaintenance, FindBare, FindMissing, LoadRepair, StoreRepair, RepairFails, RepairEnds
    <3> QED BY <2>2, <3>1, BareRepair
  <2>3. CASE StartIngester
    BY <1>0, <2>3 DEF StartIngester
  <2>4. CASE Walk
    <3>1. CASE SessionWalked \/ Walked \/ \E s \in Sessions : WalkSession(s)
      <4>1. UNCHANGED <<story, rows>>
        BY <3>1 DEF SessionWalked, Walked, WalkSession
      <4> QED BY <3>1, <4>1, BareRepair
    <3>2. ASSUME NEW o \in DOMAIN rows[repair.session], WalkRow(o), repair.session \in Sessions
          PROVE  BInv'
      <4>1. PICK s \in Sessions : s = repair.session
        BY <3>2
      <4> QED BY <3>2, <4>1, BareWalkRow
    <3> QED BY <2>4, <3>1, <3>2 DEF Walk, TInv, RepairOK
  <2> QED BY <1>5, <2>1, <2>2, <2>3, <2>4 DEF Repair
<1>6. CASE ListSessions
  <2>1. /\ repair.pc = "none" /\ repair'.pc = "clear" /\ repair'.below = 0
        /\ UNCHANGED <<story, rows, versions>>
    BY <1>6 DEF ListSessions, NoRepair, RepairKeeps
  <2> QED BY <2>1 DEF BInv, BareOnlyInRepair, IsBare
<1>7. CASE HangUp \/ Crash
  <2>1. /\ repair'.pc = "none" /\ UNCHANGED <<story, rows, versions>>
        /\ {"crash", "hangup"} \cap story.may # {}
    BY <1>7 DEF HangUp, Crash, Mishap, NoRepair, RepairKeeps
  <2> QED BY <2>1 DEF BInv, BareOnlyInRepair
<1> QED BY <1>1, <1>2, <1>3, <1>4, <1>5, <1>6, <1>7 DEF Next

\* A row without canonical columns is one that a repair is going to walk or an
\* interrupted one left, for any stories and any number of mishaps.
THEOREM NoneLeftBare == ASSUME ParsesToEvent PROVE Spec => []BareOnlyInRepair
<1>1. BInv => BareOnlyInRepair
  BY DEF BInv
<1>2. Init => BInv
  BY BareInit
<1>3. BInv /\ TInv /\ [Next]_vars => BInv'
  BY BareNext
<1> QED BY <1>1, <1>2, <1>3, TypesHold, PTL DEF Spec

-----------------------------------------------------------------------------
(* The facts of a session.                                                 *)

Carries(s, i, key) ==
    key \in MetadataKeys(story.records[s][i]) \cap DOMAIN story.records[s][i].facts

Stored(s, i) == i \in 1..Len(story.records[s]) /\ At(s, i) \in DOMAIN rows[s]

\* The row is stored, the facts are not.
Adding(s, i) == task.pc = "facts" /\ task.session = s /\ i = task.cursor + 1

Added(s, i) == Stored(s, i) /\ ~Adding(s, i)

\* A session that no earlier release stored rows of, and no crash.
Fresh(s) == story.legacy[s] = 0 /\ "crash" \notin story.may

\* Nothing is stored beyond what was read.
Frontier(s) == IF Reading(s) THEN StoredSoFar ELSE offset[s]

Behind == \A s \in Sessions : Fresh(s) => \A i : Stored(s, i) => i <= Frontier(s)

FactsTold ==
    \A s \in Sessions : Fresh(s) => \A key, i :
        /\ Added(s, i) /\ Carries(s, i, key)
        /\ \A j : Added(s, j) /\ Carries(s, j, key) => j <= i
        => key \in DOMAIN metadata[s] /\ metadata[s][key] = story.records[s][i].facts[key]

\* The facts to add are those of a record that is new and stored.
AddsNew ==
    task.pc = "facts" /\ Fresh(task.session) =>
        task.inserted = TRUE /\ Stored(task.session, task.cursor + 1)

\* The ingester starts after the maintenance.
BootFirst == repair.pc # "none" /\ repair.by = "startup" => task.pc = "boot"

FInv ==
    /\ DOMAIN metadata = Sessions
    /\ Behind /\ FactsTold /\ AddsNew /\ BootFirst

LEMMA RecordsDiffer ==
    ASSUME StoryOK, NEW s \in Sessions, NEW i \in 1..Len(story.records[s]),
           NEW j \in 1..Len(story.records[s])
    PROVE  /\ At(s, i) = At(s, j) => i = j
           /\ At(s, i) <= At(s, j) => i <= j
<1> DEFINE L == Len(story.records[s])
<1>1. /\ L \in Nat
      /\ \A k \in 1..(L + 1) : At(s, k) \in Nat
      /\ \A k, l \in 1..(L + 1) : k < l => At(s, k) < At(s, l)
  BY StartsInOrder
<1> HIDE DEF L
<1>2. i \in 1..(L + 1) /\ j \in 1..(L + 1) /\ i \in Nat /\ j \in Nat
  BY <1>1 DEF L
<1>3. /\ (i < j => At(s, i) < At(s, j)) /\ (j < i => At(s, j) < At(s, i))
      /\ At(s, i) \in Nat /\ At(s, j) \in Nat
  BY <1>1, <1>2
<1> QED BY <1>2, <1>3

\* Steps that store nothing and leave the pass where it is.
LEMMA FactsKept ==
    ASSUME TInv, FInv, BootFirst', UNCHANGED <<story, metadata, offset>>,
           \A s \in Sessions : DOMAIN rows'[s] = DOMAIN rows[s],
           \/ UNCHANGED task
           \/ /\ task.pc \notin {"insert", "facts", "parent"}
              /\ task'.pc \notin {"insert", "facts", "parent"}
    PROVE  FInv'
<1>1. \A s \in Sessions : \A i : /\ Stored(s, i)' <=> Stored(s, i)
                                 /\ Adding(s, i)' <=> Adding(s, i)
                                 /\ Added(s, i)' <=> Added(s, i)
  BY DEF Stored, Adding, Added, At
<1>2. \A s \in Sessions : Frontier(s)' = Frontier(s) /\ (Fresh(s)' <=> Fresh(s))
  BY DEF Frontier, Reading, StoredSoFar, Fresh
<1>3. Behind'
  BY <1>1, <1>2 DEF FInv, Behind
<1>4. FactsTold'
  BY <1>1, <1>2 DEF FInv, FactsTold, Carries
<1>5. AddsNew'
  <2> SUFFICES ASSUME UNCHANGED task, task.pc = "facts", Fresh(task.session)
               PROVE  task.inserted = TRUE /\ Stored(task.session, task.cursor + 1)'
    BY DEF AddsNew, Fresh
  <2>1. task.session \in Sessions /\ Stored(task.session, task.cursor + 1) /\ task.inserted = TRUE
    BY DEF FInv, AddsNew, TInv, TaskOK
  <2> QED BY <1>1, <2>1 DEF Stored, At
<1> QED BY <1>3, <1>4, <1>5 DEF FInv

\* Steps of a pass that store nothing: it goes on to the next record, begins
\* or ends.
LEMMA FactsOn ==
    ASSUME FInv, UNCHANGED <<story, metadata, rows, repair>>, task'.pc # "facts",
           task.pc \notin {"boot", "facts"}, \A s \in Sessions : Frontier(s) <= Frontier(s)',
           \A s \in Sessions : Frontier(s) \in Nat /\ Frontier(s)' \in Nat
    PROVE  FInv'
<1>1. \A s \in Sessions : \A i : (Stored(s, i)' <=> Stored(s, i)) /\ (Added(s, i)' <=> Added(s, i))
  BY DEF Stored, Adding, Added, At
<1>2. Behind'
  <2> SUFFICES ASSUME NEW s \in Sessions, Fresh(s), NEW i, Stored(s, i) PROVE i <= Frontier(s)'
    BY <1>1 DEF Behind, Fresh
  <2>1. i \in Nat /\ i <= Frontier(s)
    BY DEF FInv, Behind, Stored
  <2> QED BY <2>1
<1>3. FactsTold'
  BY <1>1 DEF FInv, FactsTold, Carries, Fresh
<1> QED BY <1>2, <1>3 DEF FInv, AddsNew, BootFirst

LEMMA FactsInsert ==
    ASSUME TInv, FInv, InsertRow, NEW s \in Sessions, s = task.session
    PROVE  FInv'
<1> USE DEF IngesterKeeps, outside, rowVars, shownVars
<1>1. /\ UNCHANGED <<story, offset, metadata, repair>>
      /\ \A q \in Sessions : \A i : At(q, i)' = At(q, i)
  BY DEF InsertRow, At
<1>2. /\ task.cursor \in Nat /\ task.cursor + 1 \in 1..Len(story.records[s]) /\ task.pc = "insert"
      /\ task'.session = s /\ task'.cursor = task.cursor /\ task'.pc = "facts"
  <2>1. /\ written[s] \in Nat /\ Len(story.records[s]) \in Nat
        /\ written[s] <= Len(story.records[s])
    BY StartsInOrder DEF TInv, LogOK
  <2> QED BY <2>1 DEF InsertRow, TInv, TaskOK, NoTask
<1>3. PICK o : o = At(s, task.cursor + 1)
  OBVIOUS
<1>4. /\ \A q \in Sessions : q # s => rows'[q] = rows[q]
      /\ DOMAIN rows'[s] = DOMAIN rows[s] \cup {o}
      /\ task'.inserted = (o \notin DOMAIN rows[s])
  BY <1>3 DEF InsertRow, TInv, RowsOK, Offset, TaskOK, NoTask
<1>5. \A i \in 1..Len(story.records[s]) : At(s, i) = o => i = task.cursor + 1
  BY <1>2, <1>3, RecordsDiffer DEF TInv
<1>6. \A q \in Sessions : \A i : Stored(q, i)' <=> Stored(q, i) \/ (q = s /\ i = task.cursor + 1)
  BY <1>1, <1>2, <1>3, <1>4, <1>5 DEF Stored
<1>7. Fresh(s) => ~Stored(s, task.cursor + 1)
  BY <1>2 DEF FInv, Behind, Frontier, Reading, StoredSoFar
<1>8. \A q \in Sessions : Fresh(q) => \A i : Added(q, i)' <=> Added(q, i)
  BY <1>2, <1>6, <1>7 DEF Added, Adding
<1>9. Behind'
  <2> SUFFICES ASSUME NEW q \in Sessions, Fresh(q), NEW i, Stored(q, i)' PROVE i <= Frontier(q)'
    BY <1>1 DEF Behind, Fresh
  <2>1. CASE q = s
    <3>1. Frontier(q)' = task.cursor + 1 /\ Frontier(q) = task.cursor
      BY <1>2, <2>1 DEF Frontier, Reading, StoredSoFar
    <3>2. i \in Nat
      BY DEF Stored
    <3>3. CASE Stored(q, i)
      BY <1>2, <3>1, <3>2, <3>3 DEF FInv, Behind
    <3>4. CASE i = task.cursor + 1
      BY <1>2, <3>1, <3>4
    <3> QED BY <1>6, <3>3, <3>4
  <2>2. CASE q # s
    <3>1. Frontier(q)' = Frontier(q) /\ Stored(q, i)
      BY <1>1, <1>2, <1>6, <2>2 DEF Frontier, Reading
    <3> QED BY <3>1 DEF FInv, Behind
  <2> QED BY <2>1, <2>2
<1>10. FactsTold'
  BY <1>1, <1>8 DEF FInv, FactsTold, Carries, Fresh
<1>11. AddsNew'
  <2>1. Fresh(s) => o \notin DOMAIN rows[s]
    BY <1>2, <1>3, <1>7 DEF Stored
  <2> QED BY <1>1, <1>2, <1>4, <1>6, <2>1 DEF AddsNew, Fresh
<1>12. BootFirst'
  BY <1>1, <1>2 DEF FInv, BootFirst
<1> QED BY <1>1, <1>9, <1>10, <1>11, <1>12 DEF FInv

LEMMA FactsAdd ==
    ASSUME TInv, FInv, AddFacts, NEW s \in Sessions, s = task.session
    PROVE  FInv'
<1> USE DEF IngesterKeeps, outside, rowVars, shownVars
<1>1. UNCHANGED <<story, offset, rows, repair>>
  BY DEF AddFacts
<1>2. /\ task.cursor \in Nat /\ task.cursor + 1 \in 1..Len(story.records[s]) /\ task.pc = "facts"
      /\ task'.session = s /\ task'.cursor = task.cursor /\ task'.pc = "parent"
  <2>1. /\ written[s] \in Nat /\ Len(story.records[s]) \in Nat
        /\ written[s] <= Len(story.records[s])
    BY StartsInOrder DEF TInv, LogOK
  <2> QED BY <2>1 DEF AddFacts, TInv, TaskOK, NoTask
<1>3. /\ DOMAIN metadata' = Sessions
      /\ \A q \in Sessions : q # s => metadata'[q] = metadata[q]
      /\ Fresh(s) => metadata'[s] = UpsertMetadata(metadata[s], story.records[s][task.cursor + 1])
  BY <1>2 DEF AddFacts, FInv, AddsNew, Record
<1>4. \A q \in Sessions : \A i : /\ Stored(q, i)' <=> Stored(q, i)
                                 /\ Added(q, i) => Added(q, i)'
                                 /\ Added(q, i)' => Added(q, i) \/ (q = s /\ i = task.cursor + 1)
  BY <1>1, <1>2 DEF Stored, Added, Adding, At
<1>5. \A q \in Sessions : Frontier(q)' = Frontier(q)
  BY <1>1, <1>2 DEF Frontier, Reading, StoredSoFar
<1>6. Behind'
  BY <1>1, <1>4, <1>5 DEF FInv, Behind, Fresh
<1>7. FactsTold'
  <2> SUFFICES ASSUME NEW q \in Sessions, Fresh(q), NEW key, NEW i, Added(q, i)', Carries(q, i, key),
                      \A j : Added(q, j)' /\ Carries(q, j, key) => j <= i
               PROVE  /\ key \in DOMAIN metadata'[q]
                      /\ metadata'[q][key] = story.records[q][i].facts[key]
    BY <1>1 DEF FactsTold, Carries, Fresh
  <2>1. CASE q # s
    <3>1. Added(q, i) /\ \A j : Added(q, j) /\ Carries(q, j, key) => j <= i
      BY <1>4, <2>1
    <3> QED BY <1>3, <2>1, <3>1 DEF FInv, FactsTold
  <2>2. CASE q = s /\ i = task.cursor + 1
    BY <1>3, <2>2 DEF UpsertMetadata, Carries
  <2>3. CASE q = s /\ i # task.cursor + 1
    <3>1. Added(s, i) /\ \A j : Added(s, j) /\ Carries(s, j, key) => j <= i
      BY <1>4, <2>3
    <3>2. key \in DOMAIN metadata[s] /\ metadata[s][key] = story.records[s][i].facts[key]
      BY <2>3, <3>1 DEF FInv, FactsTold
    <3>3. ~Carries(s, task.cursor + 1, key)
      <4> SUFFICES ASSUME Carries(s, task.cursor + 1, key) PROVE FALSE
        OBVIOUS
      <4>1. i \in Nat /\ i <= task.cursor + 1
        BY <1>2, <2>3, <3>1 DEF FInv, Behind, Frontier, Reading, StoredSoFar, Added, Stored
      <4>2. PICK k : k = task.cursor + 1
        OBVIOUS
      <4>3. Stored(s, k)
        BY <1>2, <2>3, <4>2 DEF FInv, AddsNew
      <4>4. Added(s, k)'
        BY <1>2, <1>4, <4>3 DEF Added, Adding
      <4>5. k <= i
        BY <2>3, <4>2, <4>4
      <4> QED BY <1>2, <2>3, <4>1, <4>2, <4>5
    <3> QED BY <1>3, <2>3, <3>2, <3>3 DEF UpsertMetadata, Carries
  <2> QED BY <2>1, <2>2, <2>3
<1> QED BY <1>1, <1>2, <1>3, <1>6, <1>7 DEF FInv, AddsNew, BootFirst

LEMMA FactsInit == Init => FInv
<1> SUFFICES ASSUME Init PROVE FInv
  OBVIOUS
<1>1. \A s \in Sessions : Fresh(s) => \A i : ~Stored(s, i)
  BY DEF Init, Fresh, Stored
<1>2. Behind /\ FactsTold
  BY <1>1 DEF Behind, FactsTold, Added
<1> QED BY <1>2 DEF Init, FInv, AddsNew, BootFirst, NoTask, NoRepair

LEMMA FactsNext == TInv /\ TInv' /\ FInv /\ [Next]_vars => FInv'
<1> SUFFICES ASSUME TInv, TInv', FInv, [Next]_vars PROVE FInv'
  OBVIOUS
<1> USE DEF outside, rowVars, shownVars
<1>0. /\ UNCHANGED <<story, metadata, offset, rows>>
      /\ \/ UNCHANGED task
         \/ /\ task.pc \notin {"insert", "facts", "parent"}
            /\ task'.pc \notin {"insert", "facts", "parent"}
      /\ BootFirst'
      => FInv'
  BY FactsKept
<1>b. UNCHANGED <<task, repair>> => BootFirst'
  BY DEF FInv, BootFirst
<1>1. CASE UNCHANGED vars
  BY <1>0, <1>1, <1>b DEF vars
<1>2. ASSUME NEW s \in Sessions, Write(s) \/ LinkSession(s) \/ Correlate(s) PROVE FInv'
  BY <1>0, <1>2, <1>b DEF Write, LinkSession, Correlate
<1>3. CASE View
  <2>1. ViewerKeeps
    BY <1>3 DEF View, Poll, ReadTotal, ReadRows, ReadBadges, ReadTurn, TurnNotFound,
                ReadOperations, ReadTouches
  <2> QED BY <1>0, <1>b, <2>1 DEF ViewerKeeps
<1>4. CASE Ingest \/ InsertFails
  <2> USE DEF IngesterKeeps
  <2>0. /\ \A s \in Sessions : offset[s] \in Nat
        /\ task.pc \in {"insert", "facts", "parent"} =>
              task.session \in Sessions /\ task.cursor \in Nat /\ task.upto \in Nat
    BY DEF TInv, LogOK, TaskOK
  <2>1. CASE \E s \in Sessions : OpenFile(s)
    <3>1. PICK s \in Sessions : OpenFile(s)
      BY <2>1
    <3>2. /\ task.pc = "idle" /\ task'.pc = "insert" /\ task'.session = s /\ task'.cursor = offset[s]
          /\ UNCHANGED <<story, metadata, offset, rows, repair>>
      BY <3>1 DEF OpenFile, TInv, TaskOK, NoTask
    <3>3. \A q \in Sessions : Frontier(q)' = offset[q] /\ Frontier(q) = offset[q]
      BY <3>2 DEF Frontier, Reading, StoredSoFar
    <3> QED BY <2>0, <3>2, <3>3, FactsOn
  <2>2. CASE InsertRow
    BY <2>2, FactsInsert DEF InsertRow, TInv, TaskOK
  <2>3. CASE AddFacts
    BY <2>3, FactsAdd DEF AddFacts, TInv, TaskOK
  <2>4. CASE InsertFails \/ SetParent
    <3>1. /\ task.pc \in {"insert", "parent"} /\ task'.pc = "insert"
          /\ task'.session = task.session /\ task'.cursor = task.cursor + 1
          /\ UNCHANGED <<story, metadata, offset, rows, repair>>
      BY <2>4 DEF InsertFails, SetParent, TInv, TaskOK, NoTask
    <3>2. \A q \in Sessions : /\ Frontier(q) \in Nat /\ Frontier(q)' \in Nat
                              /\ Frontier(q) <= Frontier(q)'
      BY <2>0, <3>1 DEF Frontier, Reading, StoredSoFar
    <3> QED BY <3>1, <3>2, FactsOn
  <2>5. CASE CommitOffset
    <3>1. /\ task.pc = "insert" /\ task'.pc \notin {"insert", "facts", "parent"}
          /\ task.cursor = task.upto
          /\ offset' = [offset EXCEPT ![task.session] = task.upto]
          /\ UNCHANGED <<story, metadata, rows, repair>>
      BY <2>5 DEF CommitOffset, TInv, TaskOK, NoTask
    <3>2. \A q \in Sessions : offset'[q] = IF q = task.session THEN task.upto ELSE offset[q]
      BY <3>1 DEF TInv, LogOK
    <3>3. \A q \in Sessions : Frontier(q) \in Nat /\ Frontier(q)' = Frontier(q)
      BY <2>0, <3>1, <3>2 DEF Frontier, Reading, StoredSoFar
    <3> QED BY <3>1, <3>3, FactsOn
  <2>6. CASE LoadProjection \/ Panic \/ StoreProjection \/ StoreRefused
    <3>1. /\ task.pc \in {"rebuild", "store"}
          /\ task'.pc \in {"idle", "rebuild", "store"}
      BY <2>6 DEF LoadProjection, Panic, StoreProjection, StoreRefused, NextRebuild, NoTask, TInv, TaskOK
    <3>2. UNCHANGED <<story, metadata, offset, rows, repair>>
      BY <2>6 DEF LoadProjection, Panic, StoreProjection, StoreRefused
    <3> QED BY <1>0, <3>1, <3>2 DEF FInv, BootFirst
  <2> QED BY <1>4, <2>1, <2>2, <2>3, <2>4, <2>5, <2>6 DEF Ingest
<1>5. CASE ListSessions \/ HangUp
  <2> USE DEF RepairKeeps
  <2>1. CASE ListSessions
    <3>1. repair'.by = "reindex"
      BY <2>1 DEF ListSessions, NoRepair
    <3>2. UNCHANGED <<story, metadata, offset, rows, task>>
      BY <2>1 DEF ListSessions
    <3> QED BY <1>0, <3>1, <3>2 DEF BootFirst
  <2>2. CASE HangUp
    <3>1. repair'.pc = "none"
      BY <2>2 DEF HangUp, NoRepair
    <3>2. UNCHANGED <<story, metadata, offset, rows, task>>
      BY <2>2 DEF HangUp
    <3> QED BY <1>0, <3>1, <3>2 DEF BootFirst
  <2> QED BY <1>5, <2>1, <2>2
<1>6. CASE Crash
  <2>1. /\ "crash" \in story.may /\ story' = story /\ metadata' = metadata
        /\ task'.pc = "boot"
    BY <1>6 DEF Crash, Mishap, NoTask
  <2> QED BY <2>1 DEF FInv, Behind, FactsTold, AddsNew, BootFirst, Fresh
<1>7. CASE Repair
  <2> USE DEF RepairKeeps
  <2>1. CASE Clear
    <3>1. /\ \A s \in Sessions : DOMAIN rows'[s] = DOMAIN rows[s]
          /\ repair'.by = repair.by /\ repair.pc # "none"
      BY <2>1 DEF Clear, TInv, RepairOK, NoRepair
    <3>2. BootFirst' /\ UNCHANGED <<story, metadata, offset, task>>
      BY <2>1, <3>1 DEF Clear, FInv, BootFirst
    <3> QED BY <3>1, <3>2, FactsKept
  <2>2. CASE \E o \in DOMAIN rows[repair.session] : repair.session # Nil /\ WalkRow(o)
    <3>1. PICK o \in DOMAIN rows[repair.session] : repair.session # Nil /\ WalkRow(o)
      BY <2>2
    <3>2. /\ \A s \in Sessions : DOMAIN rows'[s] = DOMAIN rows[s]
          /\ repair'.by = repair.by /\ repair.pc # "none"
      BY <3>1 DEF WalkRow, WalkAt, TInv, RowsOK, RepairOK, NoRepair
    <3>3. BootFirst' /\ UNCHANGED <<story, metadata, offset, task>>
      BY <3>1, <3>2 DEF WalkRow, FInv, BootFirst
    <3> QED BY <3>2, <3>3, FactsKept
  <2>3. CASE \/ SessionWalked \/ Walked \/ \E s \in Sessions : WalkSession(s)
             \/ FindBare \/ FindMissing \/ LoadRepair \/ StoreRepair
    <3>1. /\ UNCHANGED <<story, metadata, offset, rows, task>>
          /\ repair'.by = repair.by /\ repair.pc # "none"
      BY <2>3 DEF SessionWalked, Walked, WalkSession, FindBare, FindMissing, LoadRepair, StoreRepair,
                  TInv, RepairOK, NoRepair
    <3> QED BY <1>0, <3>1 DEF FInv, BootFirst
  <2>4. CASE StartMaintenance
    BY <1>0, <2>4 DEF StartMaintenance, BootFirst
  <2>5. CASE RepairFails \/ RepairEnds
    <3>1. /\ UNCHANGED <<story, metadata, offset, rows>>
          /\ repair.pc # "none" /\ repair'.pc = "none"
          /\ repair.by # "startup" => UNCHANGED task
          /\ repair.by = "startup" => task'.pc \in {"idle", "gone"}
      BY <2>5 DEF RepairFails, RepairPanics, RepairEnds, NoRepair, TInv, TaskOK, NoTask
    <3>2. repair.by = "startup" => task.pc = "boot"
      BY <3>1 DEF FInv, BootFirst
    <3> QED BY <1>0, <3>1, <3>2 DEF BootFirst
  <2>6. CASE StartIngester
    <3>1. task.pc = "boot" /\ task'.pc = "idle"
      BY <2>6 DEF StartIngester, TInv, TaskOK, NoTask
    <3> QED BY <1>0, <2>6, <3>1 DEF StartIngester, BootFirst
  <2> QED BY <1>7, <2>1, <2>2, <2>3, <2>4, <2>5, <2>6 DEF Repair, Walk
<1> QED BY <1>1, <1>2, <1>3, <1>4, <1>5, <1>6, <1>7 DEF Next

LEMMA FactsLast == TInv /\ LInv /\ FInv => FactsAreLatest
<1> SUFFICES ASSUME TInv, LInv, FInv, NEW s \in Sessions, NEW key,
                    task.pc # "facts", "crash" \notin story.may, story.legacy[s] = 0,
                    Carriers(s, key) # {}
             PROVE  /\ key \in DOMAIN metadata[s]
                    /\ metadata[s][key] = rows[s][LastIn(Carriers(s, key))].payload.facts[key]
  BY DEF FactsAreLatest
<1> DEFINE last == LastIn(Carriers(s, key))
           L == Len(story.records[s])
<1>0. L \in Nat /\ written[s] \in Nat /\ written[s] <= L /\ \A i \in 1..(L + 1) : At(s, i) \in Nat
  BY StartsInOrder DEF TInv, LogOK
<1>1. \A o \in DOMAIN rows[s] :
          \E i \in 1..L : o = At(s, i) /\ rows[s][o].payload = story.records[s][i]
  <2>1. \A i \in 1..written[s] : i \in 1..L
    BY <1>0
  <2> QED BY <2>1 DEF LInv, Holds
<1>2. last \in Carriers(s, key) /\ \A q \in Carriers(s, key) : q <= last
  <2>1. At(s, L + 1) \in Nat
    BY <1>0
  <2>2. Carriers(s, key) \subseteq {At(s, i) : i \in 1..L}
    BY <1>1 DEF Carriers
  <2>3. Carriers(s, key) \subseteq 0..At(s, L + 1)
    <3>1. \A i \in 1..L : At(s, i) \in Nat /\ At(s, i) <= At(s, L + 1) /\ At(s, L + 1) \in Nat
      BY <1>0, StartsInOrder DEF TInv
    <3> QED BY <2>2, <3>1
  <2> QED BY <2>1, <2>3, LastInIsLast
<1> HIDE DEF last
<1>3. PICK i \in 1..L : last = At(s, i) /\ rows[s][last].payload = story.records[s][i]
  BY <1>1, <1>2 DEF Carriers
<1>4. Added(s, i) /\ Carries(s, i, key)
  BY <1>2, <1>3 DEF Added, Stored, Adding, Carriers, Carries
<1>5. ASSUME NEW j, Added(s, j), Carries(s, j, key) PROVE j <= i
  <2>1. j \in 1..L /\ At(s, j) \in DOMAIN rows[s]
    BY <1>5 DEF Added, Stored
  <2>2. rows[s][At(s, j)].payload = story.records[s][j]
    <3>1. PICK k \in 1..L : At(s, j) = At(s, k) /\ rows[s][At(s, j)].payload = story.records[s][k]
      BY <1>1, <2>1
    <3> QED BY <2>1, <3>1, RecordsDiffer DEF TInv
  <2>3. At(s, j) \in Carriers(s, key)
    BY <1>5, <2>1, <2>2 DEF Carriers, Carries
  <2> QED BY <1>2, <1>3, <2>1, <2>3, RecordsDiffer DEF TInv
<1>6. key \in DOMAIN metadata[s] /\ metadata[s][key] = story.records[s][i].facts[key]
  BY <1>4, <1>5 DEF FInv, FactsTold, Fresh
<1> QED BY <1>3, <1>6 DEF last

\* What follows from a stored record for its session is done: its canonical
\* columns, the lineage and the facts, for any stories and any number of mishaps.
THEOREM TakenOver == ASSUME ParsesToEvent PROVE Spec => []RecordsTakenOver
<1>1. TInv /\ LInv /\ FInv => FactsAreLatest
  BY FactsLast
<1>2. Init => LInv /\ FInv
  BY SettledInit, FactsInit
<1>3. LInv /\ FInv /\ TInv /\ TInv' /\ [Next]_vars => LInv' /\ FInv'
  BY SettledNext, FactsNext
<1>4. Spec => []FactsAreLatest
  BY <1>1, <1>2, <1>3, TypesHold, PTL DEF Spec
<1>5. Spec => []BareOnlyInRepair
  BY NoneLeftBare
<1> QED BY <1>4, <1>5, LineageIsSettled, PTL DEF RecordsTakenOver

-----------------------------------------------------------------------------
(* The two renderings of a turn.  A turn is projected in one step and      *)
(* stored in another: what is planned agrees from the one to the other.    *)

Sound(plan) == plan.session \in Sessions => Agreeing(plan)

RInv ==
    /\ RowsBear
    /\ RenderingsAgree
    /\ task.pc = "store" => Sound(task.plan)
    /\ repair.pc = "store" => Sound(repair.plan)

LEMMA PlansSound ==
    ASSUME TInv, RowsBear, NEW s, NEW first
    PROVE  Sound(FullPlan(s)) /\ Sound(PlanFor(s, first))
<1>1. \A from, ord, events : Plan(s, from, ord, events).session = s
  BY DEF Plan
<1>2. FullPlan(s).session = s /\ PlanFor(s, first).session = s
  BY <1>1 DEF FullPlan, PlanFor
<1>3. CASE s \notin Sessions
  BY <1>2, <1>3 DEF Sound
<1>4. CASE s \in Sessions
  <2> DEFINE E == AllEvents
  <2>1. PICK B : Bearing(E, B)
    BY EventsBear
  <2>2. SourceEvents(s) \in Seq(E)
    BY <1>4, SourceEventsType DEF TInv, SetsOK, LogOK
  <2>3. \A anchor : EventsFrom(s, anchor) \in Seq(E)
    BY <1>4, EventsFromType DEF TInv, LogOK
  <2> HIDE DEF E
  <2>4. \A events \in Seq(E) : \A from, ord : Agreeing(Plan(s, from, ord, events))
    BY <2>1, PlanAgrees
  <2>5. Agreeing(FullPlan(s))
    BY <2>2, <2>4 DEF FullPlan
  <2>6. Agreeing(PlanFor(s, first))
    BY <2>3, <2>4, <2>5 DEF PlanFor
  <2> QED BY <2>5, <2>6 DEF Sound
<1> QED BY <1>3, <1>4

LEMMA RenderedInit == Init => RInv
<1> SUFFICES ASSUME Init PROVE RInv
  OBVIOUS
<1>1. RowsBear
  BY DEF Init, RowsBear, BareRow, IsBare
<1>2. RenderingsAgree
  BY DEF Init, RenderingsAgree
<1> QED BY <1>1, <1>2 DEF Init, RInv, NoTask, NoRepair

\* The records of the transcripts have lists of parts.
LEMMA RecordsListed ==
    ASSUME TInv, NEW s \in Sessions, NEW i \in 1..written[s]
    PROVE  Listed(story.records[s][i])
<1>1. WellFormed(story)
  BY StoryFormed DEF TInv
<1>2. i \in 1..Len(story.records[s])
  BY StartsInOrder DEF TInv, LogOK
<1> QED BY <1>1, <1>2 DEF WellFormed

\* Storing a plan that agrees leaves turns that agree.
LEMMA RenderedCommit ==
    ASSUME TInv, RenderingsAgree, NEW plan, Sound(plan), CommitPlan(plan)
    PROVE  RenderingsAgree'
<1> SUFFICES ASSUME NEW s \in Sessions, NEW id \in DOMAIN turns'[s]
             PROVE  RenderedAlike(turns'[s][id].turn)
  BY DEF RenderingsAgree
<1>1. turns' = [turns EXCEPT ![plan.session] = TurnsAfter(plan)] /\ DOMAIN turns = Sessions
  BY DEF CommitPlan, TInv, TurnsOK
<1>2. CASE s # plan.session
  BY <1>1, <1>2 DEF RenderingsAgree
<1>3. CASE s = plan.session
  <2>1. turns'[s] = TurnsAfter(plan) /\ Agreeing(plan)
    BY <1>1, <1>3 DEF Sound
  <2>2. id \in Kept(plan) \cup PlanIds(plan)
    BY <2>1 DEF TurnsAfter
  <2>3. CASE id \in Kept(plan)
    <3>1. id \in DOMAIN turns[s] /\ turns'[s][id] = turns[s][id]
      BY <1>3, <2>1, <2>3 DEF TurnsAfter, Kept
    <3> QED BY <3>1 DEF RenderingsAgree
  <2>4. CASE id \notin Kept(plan)
    <3> DEFINE k == CHOOSE k \in DOMAIN plan.turns : plan.turns[k].turn.id = id
    <3>1. k \in DOMAIN plan.turns
      BY <2>2, <2>4 DEF PlanIds
    <3>2. turns'[s][id] = plan.turns[k]
      BY <2>1, <2>2, <2>4 DEF TurnsAfter
    <3> QED BY <2>1, <3>1, <3>2 DEF Agreeing
  <2> QED BY <2>3, <2>4
<1> QED BY <1>2, <1>3

LEMMA RenderedNext == TInv /\ LInv /\ RInv /\ [Next]_vars => RInv'
<1> SUFFICES ASSUME TInv, LInv, RInv, [Next]_vars PROVE RInv'
  OBVIOUS
<1> USE DEF outside, rowVars, shownVars
<1>a. /\ UNCHANGED rows => RowsBear'
      /\ UNCHANGED turns => RenderingsAgree'
      /\ UNCHANGED task => (task.pc = "store" => Sound(task.plan))'
      /\ UNCHANGED repair => (repair.pc = "store" => Sound(repair.plan))'
  BY DEF RInv, RowsBear, RenderingsAgree, Sound, Agreeing
<1>1. CASE UNCHANGED vars
  BY <1>a, <1>1 DEF vars, RInv
<1>2. CASE \/ \E s \in Sessions : Write(s) \/ LinkSession(s) \/ Correlate(s)
           \/ View
  <2>1. UNCHANGED <<rows, turns, task, repair>>
    BY <1>2 DEF Write, LinkSession, Correlate, View, ViewerKeeps, Poll, ReadTotal, ReadRows,
                ReadBadges, ReadTurn, TurnNotFound, ReadOperations, ReadTouches
  <2> QED BY <1>a, <2>1 DEF RInv
<1>3. CASE Ingest \/ InsertFails
  <2> USE DEF IngesterKeeps
  <2>1. CASE (\E s \in Sessions : OpenFile(s)) \/ AddFacts \/ SetParent \/ CommitOffset \/ InsertFails
    <3>1. UNCHANGED <<rows, turns, repair>>
      BY <2>1 DEF OpenFile, AddFacts, SetParent, CommitOffset, InsertFails
    <3>2. task'.pc # "store"
      BY <2>1 DEF OpenFile, AddFacts, SetParent, CommitOffset, InsertFails, TInv, TaskOK, NoTask
    <3> QED BY <1>a, <3>1, <3>2 DEF RInv
  <2>2. CASE InsertRow
    <3> DEFINE s == task.session
               row == [payload |-> Record, ts |-> IF Record.ts = 0 THEN Now ELSE Record.ts,
                       event |-> ParseEvent(Record, Offset, s, task.ctx)]
               stored == [o \in DOMAIN rows[s] \cup {Offset} |-> IF o = Offset THEN row ELSE rows[s][o]]
    <3>1. s \in Sessions /\ task.cursor + 1 \in 1..written[s] /\ DOMAIN rows = Sessions
      BY <2>2 DEF InsertRow, TInv, TaskOK, LogOK, RowsOK
    <3>2. Borne(row.event)
      BY <3>1, RecordsListed, ParseEventBorne DEF Record
    <3>3. rows' = rows \/ rows' = [rows EXCEPT ![s] = stored]
      BY <2>2 DEF InsertRow
    <3> HIDE DEF row
    <3>4. RowsBear'
      <4>1. CASE rows' = rows
        BY <1>a, <4>1
      <4>2. CASE rows' = [rows EXCEPT ![s] = stored]
        <5> SUFFICES ASSUME NEW q \in Sessions, NEW o \in DOMAIN rows'[q], ~IsBare(rows'[q][o])
                     PROVE  Borne(rows'[q][o].event)
          BY DEF RowsBear
        <5>1. CASE q # s
          BY <4>2, <5>1 DEF RInv, RowsBear, TInv, RowsOK
        <5>2. CASE q = s
          <6>1. rows'[q] = stored
            BY <3>1, <4>2, <5>2
          <6>2. CASE o = Offset
            BY <3>2, <6>1, <6>2
          <6>3. CASE o # Offset
            BY <5>2, <6>1, <6>3 DEF RInv, RowsBear
          <6> QED BY <6>2, <6>3
        <5> QED BY <5>1, <5>2
      <4> QED BY <3>3, <4>1, <4>2
    <3>5. task'.pc # "store" /\ UNCHANGED <<turns, repair>>
      BY <2>2 DEF InsertRow, TInv, TaskOK, NoTask
    <3> QED BY <1>a, <3>4, <3>5 DEF RInv
  <2>3. CASE LoadProjection
    <3> DEFINE d == Head(task.queue)
               plan == PlanFor(d.session, d.first)
    <3>1. UNCHANGED <<rows, turns, repair>> /\ task' = [task EXCEPT !.pc = "store", !.plan = plan]
      BY <2>3 DEF LoadProjection
    <3>2. Sound(plan)
      BY PlansSound DEF RInv
    <3> HIDE DEF plan
    <3>3. Sound(task'.plan)
      BY <3>1, <3>2 DEF TInv, TaskOK, NoTask
    <3> QED BY <1>a, <3>1, <3>3 DEF RInv, Sound, Agreeing
  <2>4. CASE Panic \/ StoreRefused
    <3>1. UNCHANGED <<rows, turns, repair>>
      BY <2>4 DEF Panic, StoreRefused
    <3>2. task'.pc # "store"
      BY <2>4 DEF Panic, StoreRefused, NextRebuild, NoTask, TInv, TaskOK
    <3> QED BY <1>a, <3>1, <3>2 DEF RInv
  <2>5. CASE StoreProjection
    <3>1. UNCHANGED <<rows, repair>> /\ task.pc = "store" /\ CommitPlan(task.plan)
      BY <2>5 DEF StoreProjection
    <3>2. task'.pc # "store"
      BY <2>5 DEF StoreProjection, NextRebuild, NoTask, TInv, TaskOK
    <3>3. RenderingsAgree'
      <4> DEFINE plan == task.plan
      <4>1. Sound(plan) /\ CommitPlan(plan) /\ RenderingsAgree
        BY <3>1 DEF RInv
      <4> HIDE DEF plan
      <4> QED BY <4>1, RenderedCommit
    <3> QED BY <1>a, <3>1, <3>2, <3>3 DEF RInv
  <2> QED BY <1>3, <2>1, <2>2, <2>3, <2>4, <2>5 DEF Ingest
<1>4. CASE ListSessions \/ Repair \/ HangUp \/ Crash
  <2> USE DEF RepairKeeps
  <2>1. CASE ListSessions \/ HangUp \/ Crash
    <3>1. UNCHANGED <<rows, turns>>
      BY <2>1 DEF ListSessions, HangUp, Crash
    <3>2. repair'.pc # "store"
      <4>1. CASE ListSessions
        <5>1. repair'.pc = "clear"
          BY <4>1 DEF ListSessions, NoRepair
        <5> QED BY <5>1
      <4>2. CASE HangUp \/ Crash
        <5>1. repair'.pc = "none"
          BY <4>2 DEF HangUp, Crash, NoRepair
        <5> QED BY <5>1
      <4> QED BY <2>1, <4>1, <4>2
    <3>3. CASE Crash
      <4>1. task'.pc # "store"
        BY <3>3 DEF Crash, NoTask
      <4> QED BY <1>a, <3>1, <3>2, <4>1 DEF RInv
    <3>4. CASE ListSessions \/ HangUp
      <4>1. UNCHANGED task
        BY <3>4 DEF ListSessions, HangUp
      <4> QED BY <1>a, <3>1, <3>2, <4>1 DEF RInv
    <3> QED BY <2>1, <3>3, <3>4
  <2>2. CASE Clear
    <3>1. RenderingsAgree'
      BY <2>2 DEF Clear, RenderingsAgree
    <3>2. RowsBear'
      <4> SUFFICES ASSUME NEW q \in Sessions, NEW o \in DOMAIN rows'[q]
                   PROVE  IsBare(rows'[q][o])
        BY DEF RowsBear
      <4>1. o \in DOMAIN rows[q] /\ rows'[q][o] = [rows[q][o] EXCEPT !.event = Nil]
        BY <2>2 DEF Clear
      <4> QED BY <4>1 DEF IsBare
    <3>3. UNCHANGED task /\ repair'.pc # "store"
      BY <2>2 DEF Clear, TInv, RepairOK, NoRepair
    <3> QED BY <1>a, <3>1, <3>2, <3>3 DEF RInv
  <2>3. CASE \/ StartMaintenance \/ FindBare \/ FindMissing \/ RepairFails \/ RepairEnds \/ StartIngester
             \/ (\E s \in Sessions : WalkSession(s)) \/ SessionWalked \/ Walked
    <3>1. UNCHANGED <<rows, turns>>
      BY <2>3 DEF StartMaintenance, FindBare, FindMissing, RepairFails, RepairEnds, StartIngester,
                  WalkSession, SessionWalked, Walked
    <3>2. repair'.pc # "store" \/ UNCHANGED repair
      <4>1. CASE StartIngester
        BY <4>1 DEF StartIngester
      <4>2. CASE StartMaintenance
        <5>1. repair'.pc \in {"missing", "bare"}
          BY <4>2 DEF StartMaintenance, NoRepair
        <5> QED BY <5>1
      <4>3. CASE RepairFails \/ RepairEnds
        <5>1. repair'.pc = "none"
          BY <4>3 DEF RepairFails, RepairEnds, NoRepair
        <5> QED BY <5>1
      <4>4. CASE FindBare \/ FindMissing
        <5>1. repair'.pc \in {"walk", "rebuild"}
          BY <4>4 DEF FindBare, FindMissing, NoRepair, TInv, RepairOK
        <5> QED BY <5>1
      <4>5. CASE (\E s \in Sessions : WalkSession(s)) \/ SessionWalked \/ Walked
        BY <4>5 DEF WalkSession, SessionWalked, Walked, NoRepair, TInv, RepairOK
      <4> QED BY <2>3, <4>1, <4>2, <4>3, <4>4, <4>5
    <3>3. UNCHANGED task \/ task'.pc # "store"
      BY <2>3 DEF StartMaintenance, FindBare, FindMissing, RepairFails, RepairEnds, StartIngester,
                  WalkSession, SessionWalked, Walked, NoTask, TInv, TaskOK
    <3> QED BY <1>a, <3>1, <3>2, <3>3 DEF RInv
  <2>4. ASSUME NEW k \in DOMAIN rows[repair.session], WalkRow(k), repair.session # Nil PROVE RInv'
    <3> DEFINE s == repair.session
               row == rows[s][k]
               new == RewrittenRow(row, k)
    <3>1. s \in Sessions /\ DOMAIN rows = Sessions /\ rows' = [rows EXCEPT ![s][k] = new]
      BY <2>4 DEF WalkRow, TInv, RepairOK, RowsOK
    <3>2. Listed(row.payload)
      <4>1. PICK i \in 1..written[s] : row.payload = story.records[s][i]
        BY <2>4, <3>1 DEF LInv, Holds
      <4> QED BY <3>1, <4>1, RecordsListed
    <3>3. ~IsBare(new) => Borne(new.event)
      <4>1. CASE IsBare(row)
        <5>1. new.event = ParseEvent(row.payload, k, s, repair.ctx)
          BY <4>1 DEF RewrittenRow
        <5> HIDE DEF row
        <5>2. Borne(ParseEvent(row.payload, k, s, repair.ctx))
          BY <3>2, ParseEventBorne
        <5> QED BY <5>1, <5>2
      <4>2. CASE ~IsBare(row)
        BY <2>4, <3>1, <4>2 DEF RewrittenRow, RInv, RowsBear
      <4> QED BY <4>1, <4>2
    <3> HIDE DEF new
    <3>4. RowsBear'
      <4> SUFFICES ASSUME NEW q \in Sessions, NEW o \in DOMAIN rows'[q], ~IsBare(rows'[q][o])
                   PROVE  Borne(rows'[q][o].event)
        BY DEF RowsBear
      <4>1. CASE q = s /\ o = k
        <5>1. rows'[q][o] = new
          BY <2>4, <3>1, <4>1
        <5> QED BY <3>3, <5>1
      <4>2. CASE ~(q = s /\ o = k)
        <5>1. o \in DOMAIN rows[q] /\ rows'[q][o] = rows[q][o]
          BY <2>4, <3>1, <4>2
        <5> QED BY <5>1 DEF RInv, RowsBear
      <4> QED BY <4>1, <4>2
    <3>5. UNCHANGED <<turns, task>> /\ repair'.pc # "store"
      BY <2>4 DEF WalkRow, WalkAt, TInv, RepairOK, NoRepair
    <3> QED BY <1>a, <3>4, <3>5 DEF RInv
  <2>5. CASE LoadRepair
    <3> DEFINE plan == FullPlan(Head(repair.queue))
    <3>1. UNCHANGED <<rows, turns, task>> /\ repair' = [repair EXCEPT !.pc = "store", !.plan = plan]
      BY <2>5 DEF LoadRepair
    <3>2. Sound(plan)
      BY PlansSound DEF RInv
    <3> HIDE DEF plan
    <3>3. Sound(repair'.plan)
      BY <3>1, <3>2 DEF TInv, RepairOK, NoRepair
    <3> QED BY <1>a, <3>1, <3>3 DEF RInv, Sound, Agreeing
  <2>6. CASE StoreRepair
    <3>1. UNCHANGED <<rows, task>> /\ repair.pc = "store" /\ CommitPlan(repair.plan)
      BY <2>6 DEF StoreRepair
    <3>2. repair'.pc # "store"
      BY <2>6 DEF StoreRepair, NoRepair, TInv, RepairOK
    <3>3. RenderingsAgree'
      <4> DEFINE plan == repair.plan
      <4>1. Sound(plan) /\ CommitPlan(plan) /\ RenderingsAgree
        BY <3>1 DEF RInv
      <4> HIDE DEF plan
      <4> QED BY <4>1, RenderedCommit
    <3> QED BY <1>a, <3>1, <3>2, <3>3 DEF RInv
  <2> QED BY <1>4, <2>1, <2>2, <2>3, <2>4, <2>5, <2>6 DEF Repair, Walk
<1> QED BY <1>1, <1>2, <1>3, <1>4 DEF Next

\* The conversation and the document made of a turn tell the same texts of the
\* assistant and the same calls, whatever the transcripts hold, whoever projected
\* the turn and whatever happened between its projection and its storing.
THEOREM RenderedTheSame == Spec => []RenderingsAgree
<1>1. Init => RInv /\ LInv
  BY RenderedInit, SettledInit
<1>2. TInv /\ TInv' /\ LInv /\ RInv /\ [Next]_vars => RInv' /\ LInv'
  BY RenderedNext, SettledNext
<1>3. RInv => RenderingsAgree
  BY DEF RInv
<1> QED BY <1>1, <1>2, <1>3, TypesHold, PTL DEF Spec

-----------------------------------------------------------------------------
(* The present.                                                            *)

LEMMA FiniteImage ==
    ASSUME NEW S, IsFiniteSet(S), NEW f
    PROVE  IsFiniteSet({f[x] : x \in S})
<1> DEFINE T == {f[x] : x \in S}
           g == [x \in S |-> f[x]]
<1>1. g \in Surjection(S, T)
  BY DEF Surjection
<1> HIDE DEF g, T
<1>2. IsFiniteSet(T)
  BY <1>1, FS_Surjection
<1> QED BY <1>2 DEF T

LEMMA LargestIn ==
    ASSUME NEW S \in SUBSET Nat, S # {}, IsFiniteSet(S)
    PROVE  Max(S) \in S
<1>1. PICK n \in Nat : ExistsSurjection(1..n, S)
  BY FS_NatSurjection
<1>2. PICK f \in Surjection(1..n, S) : TRUE
  BY <1>1 DEF ExistsSurjection
<1>3. f \in [1..n -> S] /\ \A q \in S : \E i \in 1..n : f[i] = q
  BY <1>2 DEF Surjection
<1> DEFINE G == {k \in Nat : k <= n => \E b \in Nat : \A i \in 1..k : f[i] <= b}
<1>4. 0 \in G
  <2>1. \A i \in 1..0 : f[i] <= 0
    OBVIOUS
  <2> QED BY <2>1
<1>5. ASSUME NEW k \in Nat, k \in G PROVE k + 1 \in G
  <2> SUFFICES ASSUME k + 1 <= n PROVE \E b \in Nat : \A i \in 1..(k + 1) : f[i] <= b
    OBVIOUS
  <2>1. PICK b \in Nat : \A i \in 1..k : f[i] <= b
    BY <1>5
  <2>2. \A i \in 1..(k + 1) : f[i] \in Nat
    <3>1. \A i \in 1..(k + 1) : i \in 1..n
      OBVIOUS
    <3>2. \A i \in 1..n : f[i] \in S
      BY <1>3
    <3> QED BY <3>1, <3>2
  <2> DEFINE c == IF f[k + 1] <= b THEN b ELSE f[k + 1]
  <2>3. c \in Nat /\ b <= c /\ f[k + 1] <= c
    BY <2>2
  <2> HIDE DEF c
  <2>4. \A i \in 1..(k + 1) : f[i] <= c
    <3> SUFFICES ASSUME NEW i \in 1..(k + 1) PROVE f[i] <= c
      OBVIOUS
    <3>1. CASE i = k + 1
      BY <2>3, <3>1
    <3>2. CASE i # k + 1
      <4>1. i \in 1..k
        BY <3>2
      <4> QED BY <2>1, <2>2, <2>3, <4>1
    <3> QED BY <3>1, <3>2
  <2> QED BY <2>3, <2>4
<1> HIDE DEF G
<1>6. n \in G
  BY <1>4, <1>5, NumbersIn
<1>7. PICK b \in Nat : \A i \in 1..n : f[i] <= b
  BY <1>6 DEF G
<1>8. \A q \in S : q <= b
  BY <1>3, <1>7
<1>9. PICK m \in S : \A q \in S : q <= m
  BY <1>8, LargestOf
<1> QED BY <1>9 DEF Max

\* The present is a number.
LEMMA NowIsNat ==
    ASSUME TInv, \A s \in Sessions : Timed(s)
    PROVE  Now \in Nat
<1> DEFINE A(s) == {story.records[s][i].ts : i \in 1..written[s]} \cup {rows[s][o].ts : o \in DOMAIN rows[s]}
           S == {0} \cup UNION {A(s) : s \in Sessions}
<1>1. ASSUME NEW s \in Sessions PROVE A(s) \in SUBSET Nat /\ IsFiniteSet(A(s))
  <2>1. written[s] \in Nat /\ DOMAIN rows[s] \subseteq {At(s, i) : i \in 1..written[s]}
    BY DEF TInv, LogOK, RowsOK
  <2>2. \A i \in 1..written[s] : story.records[s][i].ts \in Nat
    BY RecordsListed DEF Listed
  <2>3. IsFiniteSet(1..written[s])
    BY <2>1, FS_Interval
  <2>4. IsFiniteSet({story.records[s][i].ts : i \in 1..written[s]})
    <3> DEFINE I == 1..written[s]
               f == [i \in I |-> story.records[s][i].ts]
    <3>1. IsFiniteSet({f[i] : i \in I})
      BY <2>3, FiniteImage
    <3> QED BY <3>1
  <2>5. IsFiniteSet({At(s, i) : i \in 1..written[s]})
    <3> DEFINE I == 1..written[s]
               f == [i \in I |-> At(s, i)]
    <3>1. IsFiniteSet({f[i] : i \in I})
      BY <2>3, FiniteImage
    <3> QED BY <3>1
  <2>6. IsFiniteSet(DOMAIN rows[s])
    BY <2>1, <2>5, FS_Subset
  <2>7. IsFiniteSet({rows[s][o].ts : o \in DOMAIN rows[s]})
    <3> DEFINE I == DOMAIN rows[s]
               f == [o \in I |-> rows[s][o].ts]
    <3>1. IsFiniteSet({f[i] : i \in I})
      BY <2>6, FiniteImage
    <3> QED BY <3>1
  <2>8. IsFiniteSet(A(s))
    BY <2>4, <2>7, FS_Union
  <2>9. A(s) \in SUBSET Nat
    BY <2>2 DEF Timed
  <2> QED BY <2>8, <2>9
<1>2. S \in SUBSET Nat /\ S # {}
  <2> HIDE DEF A
  <2>1. \A s \in Sessions : A(s) \subseteq Nat
    BY <1>1
  <2> QED BY <2>1
<1>3. IsFiniteSet(S)
  <2>1. IsFiniteSet({A(s) : s \in Sessions})
    <3> DEFINE f == [s \in Sessions |-> A(s)]
    <3>1. IsFiniteSet({f[s] : s \in Sessions})
      BY SessionsAssumption, FiniteImage
    <3> QED BY <3>1
  <2>2. IsFiniteSet(UNION {A(s) : s \in Sessions})
    <3> DEFINE U == {A(s) : s \in Sessions}
    <3>1. \A T \in U : IsFiniteSet(T)
      BY <1>1
    <3> HIDE DEF U
    <3> QED BY <2>1, <3>1, FS_UNION DEF U
  <2>3. IsFiniteSet({0})
    BY FS_Singleton
  <2> HIDE DEF A
  <2> QED BY <2>2, <2>3, FS_Union
<1>4. Now = 1 + Max(S)
  BY DEF Now
<1> HIDE DEF S
<1>5. Max(S) \in S
  BY <1>2, <1>3, LargestIn
<1>6. Max(S) \in Nat
  BY <1>2, <1>5
<1> QED BY <1>4, <1>6

\* Where no session continues another one none has ancestors.
LEMMA NoAncestors ==
    ASSUME NEW s \in Sessions, \A p \in Sessions : lineage[p] = Nil
    PROVE  AncestorChain(s) = <<>>
<1> DEFINE N == Cardinality(Sessions)
           X == {<<s>>}
           Found(q) == {p \in Sessions : lineage[Last(q)] = SessionId(p)} \ ToSet(q)
           Eq(f) == f = [n \in 0..N |-> IF n = 0 THEN <<s>> ELSE f[n - 1] \o SetToSeq(Found(f[n - 1]))]
           up == CHOOSE f : Eq(f)
           g == [n \in 0..N |-> <<s>>]
<1>1. N \in Nat
  BY SessionsAssumption, FS_CardinalityType
<1>2. Last(<<s>>) = s /\ Tail(<<s>>) = <<>>
  BY DEF Last
<1>3. <<s>> \o SetToSeq(Found(<<s>>)) = <<s>>
  <2>1. Found(<<s>>) = {}
    BY <1>2, SessionsAssumption
  <2>2. SetToSeq({}) = <<>>
    BY NoneInOrder
  <2>3. <<s>> \in Seq(Sessions)
    OBVIOUS
  <2> DEFINE q == <<s>>
  <2> HIDE DEF q, Found
  <2>4. q \o <<>> = q
    BY <2>3, ConcatEmptySeq DEF q
  <2> QED BY <2>1, <2>2, <2>4 DEF q
<1> DEFINE h == [n \in 0..N |-> IF n = 0 THEN <<s>> ELSE g[n - 1] \o SetToSeq(Found(g[n - 1]))]
<1>4. \A n \in 0..N : g[n] = <<s>> /\ (n # 0 => g[n - 1] = <<s>>)
  BY <1>1
<1>5. Eq(g)
  <2> HIDE DEF g, Found
  <2>1. \A n \in 0..N : h[n] = <<s>>
    BY <1>3, <1>4
  <2> HIDE DEF h
  <2>2. g = h
    BY <1>4, <2>1 DEF g, h
  <2> QED BY <2>2 DEF h
<1> HIDE DEF g, h
<1>6. Eq(up)
  <2> HIDE DEF Eq
  <2> QED BY <1>5
<1>7. up[0] \in X
  <2>1. 0 \in 0..N
    BY <1>1
  <2> HIDE DEF up, Found
  <2> QED BY <1>6, <2>1
<1>8. Keeping(up, X, N)
  <2> HIDE DEF up, Found
  <2>1. ASSUME NEW n \in 1..N, up[n - 1] \in X PROVE up[n] \in X
    <3>1. n \in 0..N /\ n # 0
      BY <1>1
    <3>2. up[n] = up[n - 1] \o SetToSeq(Found(up[n - 1]))
      BY <1>6, <3>1
    <3> QED BY <1>3, <2>1, <3>2
  <2> QED BY <2>1 DEF Keeping
<1>9. up[N] = <<s>>
  <2> HIDE DEF up
  <2>1. \A i \in 0..N : up[i] \in X
    BY <1>1, <1>7, <1>8, StaysIn
  <2> QED BY <1>1, <2>1
<1>10. AncestorChain(s) = Tail(up[N])
  BY DEF AncestorChain
<1> QED BY <1>2, <1>9, <1>10

-----------------------------------------------------------------------------
(* A rebuild of a suffix is as good as a full one.  The invariant is about *)
(* stories where nothing was stored before and no session continues        *)
(* another, as long as nothing went wrong: the turns of the records up to  *)
(* the committed offset are made, apart from those that a rebuild is due   *)
(* for, and that rebuild leaves them so.                                   *)

\* Nothing was stored before, and no session continues another one.
Plain ==
    \A s \in Sessions :
        /\ story.legacy[s] = 0
        /\ \A i \in 1..Len(story.records[s]) : DetectParent(story.records[s][i], s) = Nil

Undisturbed ==
    /\ repair.pc = "none" /\ versions = {"blocks", "timeline"}
    /\ lineage = [s \in Sessions |-> Nil]

Busy == task.pc \in {"insert", "facts", "parent", "rebuild", "store"}

Registered ==
    /\ story.current \subseteq current /\ known \cap story.current \subseteq linked
    /\ \A s \in Sessions : DOMAIN rows[s] # {} => s \in known
    /\ Busy => task.session \in known

InFront == \A s \in Sessions : Timed(s) /\ \A n : n = Frontier(s) => StoredTo(s, n)

\* The first record the pass stored.
FirstNew ==
    \A s \in Sessions : Reading(s) =>
        /\ offset[s] <= task.cursor
        /\ task.first = IF StoredSoFar = offset[s] THEN Nil ELSE At(s, offset[s] + 1)

\* The turns of the first n records can be made, and are.
Good(s, n) == InOrder(s) /\ ~ProjectionPanics(EventsUpTo(s, n))

MadeTo(s, n) == Made(turns[s], s, Seeds(EventsUpTo(s, n)))

RightPlan(s, n) == Right(task.plan, s, n)

Rebuilding(s) == task.pc \in {"rebuild", "store"} /\ task.session = s

TurnsSoFar ==
    \A s \in Sessions : \A n : n = offset[s] /\ ~Rebuilding(s) /\ Good(s, n) => MadeTo(s, n)

Waits(s, m) ==
    /\ task.queue = <<[session |-> s, first |-> At(s, m + 1)]>>
    /\ Good(s, m) => MadeTo(s, m)

Waiting == \A s \in Sessions : Rebuilding(s) => \E m \in Nat : m < offset[s] /\ Waits(s, m)

PlanLoaded ==
    \A s \in Sessions : Rebuilding(s) /\ task.pc = "store" =>
        /\ task.plan.session = s
        /\ \A n : n = offset[s] /\ Good(s, n) => RightPlan(s, n)

CInv ==
    /\ Undisturbed /\ Registered /\ InFront /\ FirstNew
    /\ TurnsSoFar /\ Waiting /\ PlanLoaded

LEMMA EventsKept ==
    ASSUME UNCHANGED story, NEW s, NEW n, \A i \in 1..n : rows'[s][At(s, i)] = rows[s][At(s, i)]
    PROVE  EventsUpTo(s, n)' = EventsUpTo(s, n)
<1> QED BY DEF EventsUpTo, EventAt, At

MadeFor(T, s, seeds, held, context) ==
    LET Call(pair) == [pair EXCEPT !.subagent = Nil, !.touches = IF s \in held THEN @ ELSE <<>>]
        Lasts(t) == [t EXCEPT !.turn.pairs = [i \in DOMAIN t.turn.pairs |-> Call(t.turn.pairs[i])]]
    IN  /\ DOMAIN T = Firsts(seeds)
        /\ \A k \in 1..Len(seeds) :
              /\ FirstOf(seeds[k]) \in DOMAIN T
              /\ Lasts(T[FirstOf(seeds[k])])
                 = Lasts(Joined(StoredTurn(seeds[k], <<>>, context[s]), [ord |-> k - 1]))

LEMMA MadeIsFor ==
    ASSUME NEW T, NEW s, NEW seeds
    PROVE  Made(T, s, seeds) <=> MadeFor(T, s, seeds, story.current, story.context)
<1> QED BY DEF MadeFor, Made, HoldsTurns, LastingOf, Lasting, LastingCall

LEMMA MadeIsForNext ==
    ASSUME NEW s, NEW n
    PROVE  MadeTo(s, n)' <=> MadeFor(turns'[s], s, Seeds(EventsUpTo(s, n)'), story'.current, story'.context)
<1> QED BY DEF MadeTo, MadeFor, Made, HoldsTurns, LastingOf, Lasting, LastingCall

LEMMA MadeKept ==
    ASSUME UNCHANGED story, NEW s, NEW n, EventsUpTo(s, n)' = EventsUpTo(s, n),
           Made(turns'[s], s, Seeds(EventsUpTo(s, n)))
    PROVE  MadeTo(s, n)'
<1> QED BY MadeIsFor, MadeIsForNext

LEMMA PlanKept ==
    ASSUME UNCHANGED turns, NEW plan, task'.plan = plan
    PROVE  /\ TurnsAfter(task.plan)' = TurnsAfter(plan) /\ Kept(task.plan)' = Kept(plan)
           /\ PlanIds(task.plan)' = PlanIds(plan)
<1>1. Kept(task.plan)' = Kept(plan) /\ PlanIds(task.plan)' = PlanIds(plan)
  BY DEF Kept, PlanIds
<1> QED BY <1>1 DEF TurnsAfter

LEMMA RightIsForNext ==
    ASSUME NEW s, NEW n
    PROVE  RightPlan(s, n)' <=>
              /\ task'.plan.session = s
              /\ Cardinality(PlanIds(task.plan)') = Len(task'.plan.turns)
              /\ PlanIds(task.plan)' \cap Kept(task.plan)' = {}
              /\ MadeFor(TurnsAfter(task.plan)', s, Seeds(EventsUpTo(s, n)'), story'.current, story'.context)
<1> QED BY DEF RightPlan, Right, MadeFor, Made, HoldsTurns, LastingOf, Lasting, LastingCall

LEMMA RightKept ==
    ASSUME UNCHANGED <<story, turns>>, NEW s, NEW n, EventsUpTo(s, n)' = EventsUpTo(s, n),
           NEW plan, task'.plan = plan, Right(plan, s, n)
    PROVE  RightPlan(s, n)'
<1>1. /\ TurnsAfter(task.plan)' = TurnsAfter(plan) /\ Kept(task.plan)' = Kept(plan)
      /\ PlanIds(task.plan)' = PlanIds(plan)
  BY PlanKept
<1>2. MadeFor(TurnsAfter(plan), s, Seeds(EventsUpTo(s, n)), story.current, story.context)
  BY MadeIsFor DEF Right
<1> QED BY <1>1, <1>2, RightIsForNext DEF Right

LEMMA StoredToKept ==
    ASSUME TInv, TInv', UNCHANGED story, NEW s \in Sessions, NEW n, StoredTo(s, n),
           written[s] <= written'[s], DOMAIN rows'[s] = DOMAIN rows[s]
    PROVE  StoredTo(s, n)'
<1> DEFINE L == Len(story.records[s])
<1>1. L \in Nat /\ written'[s] \in Nat /\ written'[s] <= L /\ written[s] \in Nat
  BY StartsInOrder DEF TInv, LogOK
<1>2. /\ \A i \in 1..(L + 1) : At(s, i) \in Nat
      /\ \A i, j \in 1..(L + 1) : i < j => At(s, i) < At(s, j)
  BY StartsInOrder DEF TInv
<1>3. \A i : At(s, i)' = At(s, i)
  BY DEF At
<1>4. \A i \in 1..written'[s] : i \in 1..(L + 1)
  BY <1>1
<1> HIDE DEF L
<1>5. /\ \A i \in 1..written'[s] : At(s, i)' \in Nat
      /\ \A i, j \in 1..written'[s] : i < j => At(s, i)' < At(s, j)'
  BY <1>2, <1>3, <1>4
<1>6. n \in 0..written'[s] /\ DOMAIN rows'[s] = {At(s, i)' : i \in 1..n}
  BY <1>1, <1>3 DEF StoredTo
<1> QED BY <1>1, <1>5, <1>6 DEF StoredTo

LEMMA TimedKept ==
    ASSUME NEW s \in Sessions, Timed(s), UNCHANGED rows
    PROVE  Timed(s)'
<1> QED BY DEF Timed

\* The rows grow.
Grows(s) ==
    \A o \in DOMAIN rows[s] : o \in DOMAIN rows'[s] /\ rows'[s][o] = rows[s][o]

LEMMA GoodBack ==
    ASSUME UNCHANGED story, NEW s \in Sessions, NEW n \in Nat, Grows(s), NEW k \in Nat, n <= k,
           StoredTo(s, k)
    PROVE  EventsUpTo(s, n)' = EventsUpTo(s, n) /\ (Good(s, n)' => Good(s, n))
<1>1. \A i \in 1..n : At(s, i) \in DOMAIN rows[s]
  <2>1. \A i \in 1..n : i \in 1..k
    OBVIOUS
  <2> QED BY <2>1 DEF StoredTo
<1>2. EventsUpTo(s, n)' = EventsUpTo(s, n)
  BY <1>1, EventsKept DEF Grows
<1>3. InOrder(s)' => InOrder(s)
  BY DEF Grows, InOrder
<1>4. ProjectionPanics(EventsUpTo(s, n))' <=> ProjectionPanics(EventsUpTo(s, n)')
  OBVIOUS
<1> QED BY <1>2, <1>3, <1>4 DEF Good

\* The committed offset is never beyond what is stored.
LEMMA Committed ==
    ASSUME TInv, CInv, NEW s \in Sessions
    PROVE  /\ offset[s] \in Nat /\ Frontier(s) \in Nat /\ offset[s] <= Frontier(s)
           /\ StoredTo(s, Frontier(s)) /\ Timed(s)
           /\ ~Reading(s) => Frontier(s) = offset[s]
<1>1. offset[s] \in Nat
  BY DEF TInv, LogOK
<1>2. Reading(s) => task.cursor \in Nat /\ offset[s] <= task.cursor
  BY DEF Reading, CInv, FirstNew, TInv, TaskOK
<1>3. Frontier(s) \in Nat /\ offset[s] <= Frontier(s)
  BY <1>1, <1>2 DEF Frontier, StoredSoFar
<1>4. ~Reading(s) => Frontier(s) = offset[s]
  BY DEF Frontier
<1> QED BY <1>1, <1>3, <1>4 DEF CInv, InFront

LEMMA MadeStays ==
    ASSUME TInv, CInv, UNCHANGED story, NEW s \in Sessions, NEW n \in Nat, n <= Frontier(s),
           Grows(s), turns'[s] = turns[s], Good(s, n) => MadeTo(s, n)
    PROVE  Good(s, n)' => MadeTo(s, n)'
<1>1. Frontier(s) \in Nat /\ StoredTo(s, Frontier(s))
  BY Committed
<1>2. EventsUpTo(s, n)' = EventsUpTo(s, n) /\ (Good(s, n)' => Good(s, n))
  BY <1>1, GoodBack
<1> QED BY <1>2, MadeKept DEF MadeTo

\* Steps that let the rows grow and leave the turns.
LEMMA TurnsKept ==
    ASSUME TInv, CInv, UNCHANGED <<story, offset, turns>>, \A s \in Sessions : Grows(s),
           \A s \in Sessions : Rebuilding(s) => Rebuilding(s)'
    PROVE  TurnsSoFar'
<1> SUFFICES ASSUME NEW s \in Sessions, NEW n, n = offset[s], ~Rebuilding(s)', Good(s, n)'
             PROVE  MadeTo(s, n)'
  BY DEF TurnsSoFar
<1>1. n \in Nat /\ n <= Frontier(s)
  BY Committed
<1>2. Good(s, n) => MadeTo(s, n)
  BY DEF CInv, TurnsSoFar
<1> QED BY <1>1, <1>2, MadeStays

\* Steps that leave the rebuild where it is.
LEMMA RebuildKept ==
    ASSUME TInv, CInv, UNCHANGED <<story, offset, rows, turns, task>>
    PROVE  Waiting' /\ PlanLoaded'
<1>1. ASSUME NEW s \in Sessions, NEW n \in Nat, n <= offset[s]
      PROVE  EventsUpTo(s, n)' = EventsUpTo(s, n) /\ (Good(s, n)' => Good(s, n))
  <2>1. offset[s] \in Nat /\ Frontier(s) \in Nat /\ offset[s] <= Frontier(s) /\ StoredTo(s, Frontier(s))
    BY Committed
  <2>2. Grows(s)
    BY DEF Grows
  <2> QED BY <1>1, <2>1, <2>2, GoodBack
<1>2. ASSUME NEW s \in Sessions PROVE (Rebuilding(s)' <=> Rebuilding(s)) /\ offset[s] \in Nat
  BY DEF Rebuilding, TInv, LogOK
<1>3. Waiting'
  <2> SUFFICES ASSUME NEW s \in Sessions, Rebuilding(s)
               PROVE  \E m \in Nat : m < offset'[s] /\ Waits(s, m)'
    BY <1>2 DEF Waiting
  <2>1. PICK m \in Nat : m < offset[s] /\ Waits(s, m)
    BY DEF CInv, Waiting
  <2>2. EventsUpTo(s, m)' = EventsUpTo(s, m) /\ (Good(s, m)' => Good(s, m))
    BY <1>1, <1>2, <2>1
  <2>3. Good(s, m)' => MadeTo(s, m)'
    BY <2>1, <2>2, MadeKept DEF Waits, MadeTo
  <2>4. task'.queue = <<[session |-> s, first |-> At(s, m + 1)']>>
    BY <2>1 DEF Waits, At
  <2> QED BY <2>1, <2>3, <2>4 DEF Waits
<1>4. PlanLoaded'
  <2> SUFFICES ASSUME NEW s \in Sessions, Rebuilding(s), task.pc = "store"
               PROVE  /\ task'.plan.session = s
                      /\ \A n : n = offset'[s] /\ Good(s, n)' => RightPlan(s, n)'
    BY <1>2 DEF PlanLoaded
  <2>1. task.plan.session = s /\ \A n : n = offset[s] /\ Good(s, n) => RightPlan(s, n)
    BY DEF CInv, PlanLoaded
  <2>2. ASSUME NEW n, n = offset[s], Good(s, n)' PROVE RightPlan(s, n)'
    <3>1. EventsUpTo(s, n)' = EventsUpTo(s, n) /\ Good(s, n)
      BY <1>1, <1>2, <2>2
    <3>2. Right(task.plan, s, n)
      BY <2>1, <2>2, <3>1 DEF RightPlan
    <3> QED BY <3>1, <3>2, RightKept
  <2> QED BY <2>1, <2>2
<1> QED BY <1>3, <1>4

-----------------------------------------------------------------------------
(* The invariant over the steps of a story that goes well.                 *)

\* Steps that store nothing.
LEMMA CalmKept ==
    ASSUME TInv, TInv', CInv, UNCHANGED <<story, offset, rows, turns, lineage>>, Undisturbed',
           \A s \in Sessions : /\ written[s] <= written'[s] /\ Frontier(s)' = Frontier(s)
                               /\ Rebuilding(s) => Rebuilding(s)',
           Registered', FirstNew', Waiting', PlanLoaded'
    PROVE  CInv'
<1>1. TurnsSoFar'
  BY TurnsKept DEF Grows
<1>2. InFront'
  <2> SUFFICES ASSUME NEW s \in Sessions
               PROVE  Timed(s)' /\ \A n : n = Frontier(s)' => StoredTo(s, n)'
    BY DEF InFront
  <2>1. Timed(s)'
    BY TimedKept DEF CInv, InFront
  <2>2. ASSUME NEW n, n = Frontier(s)' PROVE StoredTo(s, n)'
    <3>1. StoredTo(s, n)
      BY <2>2 DEF CInv, InFront
    <3> QED BY <3>1, StoredToKept
  <2> QED BY <2>1, <2>2
<1> QED BY <1>1, <1>2 DEF CInv

LEMMA UndisturbedKept ==
    ASSUME CInv, UNCHANGED <<repair, versions, lineage>>
    PROVE  Undisturbed'
<1> QED BY DEF CInv, Undisturbed

\* The agents, the hook, and what looks at the tables only.
LEMMA CalmOutside ==
    ASSUME TInv, TInv', CInv,
           \/ \E s \in Sessions : Write(s) \/ LinkSession(s) \/ Correlate(s)
           \/ View \/ UNCHANGED vars
    PROVE  CInv'
<1> USE DEF outside, rowVars, shownVars
<1>1. UNCHANGED <<story, offset, rows, turns, lineage, repair, versions, task>>
  <2>1. ASSUME View PROVE ViewerKeeps
    BY <2>1 DEF View, Poll, ReadTotal, ReadRows, ReadBadges, ReadTurn, TurnNotFound,
                ReadOperations, ReadTouches
  <2> QED BY <2>1 DEF Write, LinkSession, Correlate, ViewerKeeps, vars
<1>2. /\ \A s \in Sessions : written[s] <= written'[s]
      /\ Registered'
  <2>1. CASE \E s \in Sessions : Write(s)
    <3>1. /\ UNCHANGED <<story, known, current, linked, rows, task>>
          /\ \A s \in Sessions : written[s] <= written'[s]
      BY <2>1 DEF Write, TInv, LogOK
    <3> QED BY <3>1 DEF CInv, Registered, Busy
  <2>2. CASE \E s \in Sessions : LinkSession(s) \/ Correlate(s)
    <3>1. /\ UNCHANGED <<story, written, rows, task>>
          /\ current \subseteq current' /\ \E s : known' \subseteq known \cup {s} /\ known \subseteq known'
                                              /\ linked \subseteq linked' /\ (s \in linked' \/ known' = known)
      BY <2>2 DEF LinkSession, Correlate
    <3> QED BY <3>1 DEF CInv, Registered, Busy, TInv, LogOK
  <2>3. CASE View \/ UNCHANGED vars
    <3>1. ASSUME View PROVE ViewerKeeps
      BY <3>1 DEF View, Poll, ReadTotal, ReadRows, ReadBadges, ReadTurn, TurnNotFound,
                  ReadOperations, ReadTouches
    <3>2. UNCHANGED <<story, written, known, current, linked, rows, task>>
      BY <2>3, <3>1 DEF ViewerKeeps, vars
    <3> QED BY <3>2 DEF CInv, Registered, Busy, TInv, LogOK
  <2> QED BY <2>1, <2>2, <2>3
<1>3. ASSUME NEW s \in Sessions PROVE Frontier(s)' = Frontier(s) /\ (Rebuilding(s) => Rebuilding(s)')
  BY <1>1 DEF Frontier, Reading, StoredSoFar, Rebuilding
<1>4. FirstNew'
  BY <1>1 DEF CInv, FirstNew, Reading, StoredSoFar, At
<1>5. Waiting' /\ PlanLoaded'
  BY <1>1, RebuildKept
<1>6. Undisturbed'
  BY <1>1, UndisturbedKept
<1> QED BY <1>1, <1>2, <1>3, <1>4, <1>5, <1>6, CalmKept

LEMMA CalmOpen ==
    ASSUME TInv, TInv', CInv, NEW s \in Sessions, OpenFile(s)
    PROVE  CInv'
<1>1. /\ UNCHANGED <<story, written, current, versions, repair, lineage, offset, rows, turns>>
      /\ task.pc = "idle" /\ known' = known \cup {s}
      /\ linked' = IF s \in current THEN linked \cup {s} ELSE linked
  BY DEF OpenFile, IngesterKeeps, outside, shownVars
<1>2. /\ task'.pc = "insert" /\ task'.session = s /\ task'.cursor = offset[s] /\ task'.first = Nil
      /\ offset[s] \in Nat
  BY DEF OpenFile, TInv, TaskOK, NoTask, LogOK
<1>3. \A q \in Sessions : ~Rebuilding(q) /\ ~Rebuilding(q)' /\ ~Reading(q)
  BY <1>1, <1>2 DEF Rebuilding, Reading
<1>4. \A q \in Sessions : Frontier(q)' = Frontier(q)
  BY <1>1, <1>2, <1>3 DEF Frontier, Reading, StoredSoFar
<1>5. Registered'
  BY <1>1, <1>2 DEF CInv, Registered, Busy
<1>6. FirstNew'
  BY <1>1, <1>2 DEF FirstNew, Reading, StoredSoFar
<1>7. Waiting' /\ PlanLoaded'
  BY <1>3 DEF Waiting, PlanLoaded
<1>8. Undisturbed'
  BY <1>1, UndisturbedKept
<1>9. \A q \in Sessions : written[q] <= written'[q]
  BY <1>1 DEF TInv, LogOK
<1> QED BY <1>1, <1>3, <1>4, <1>5, <1>6, <1>7, <1>8, <1>9, CalmKept

LEMMA CalmFacts ==
    ASSUME TInv, TInv', CInv, Plain, AddFacts \/ SetParent
    PROVE  CInv'
<1> DEFINE s == task.session
<1>1. /\ UNCHANGED <<story, written, current, known, linked, versions, repair, offset, rows, turns>>
      /\ task.pc \in {"facts", "parent"}
  BY DEF AddFacts, SetParent, IngesterKeeps, outside, shownVars
<1>2. /\ s \in Sessions /\ task.cursor \in Nat /\ task'.session = s
      /\ \/ task.pc = "facts" /\ task'.pc = "parent" /\ task'.cursor = task.cursor
         \/ task.pc = "parent" /\ task'.pc = "insert" /\ task'.cursor = task.cursor + 1
      /\ task'.first = task.first /\ task.cursor < task.upto /\ task.upto <= written[s]
      /\ task.upto \in Nat
  BY DEF AddFacts, SetParent, TInv, TaskOK, NoTask
<1>3. UNCHANGED lineage
  <2>1. CASE AddFacts
    BY <2>1 DEF AddFacts
  <2>2. CASE SetParent
    <3>1. task.cursor + 1 \in 1..Len(story.records[s])
      BY <1>2, StartsInOrder DEF TInv, LogOK
    <3>2. DetectParent(Record, s) = Nil
      BY <1>2, <3>1 DEF Plain, Record
    <3>3. lineage = [q \in Sessions |-> Nil] /\ lineage' = LineageWith(s, Record)
      BY <2>2 DEF CInv, Undisturbed, SetParent
    <3> QED BY <1>2, <3>2, <3>3 DEF LineageWith
  <2> QED BY <2>1, <2>2
<1>4. StoredSoFar' = StoredSoFar
  BY <1>2 DEF StoredSoFar
<1>5. \A q \in Sessions : (Reading(q)' <=> Reading(q)) /\ ~Rebuilding(q) /\ ~Rebuilding(q)'
  BY <1>2 DEF Reading, Rebuilding
<1>6. \A q \in Sessions : Frontier(q)' = Frontier(q)
  BY <1>1, <1>4, <1>5 DEF Frontier
<1>7. Registered'
  BY <1>1, <1>2 DEF CInv, Registered, Busy
<1>8. FirstNew'
  <2> SUFFICES ASSUME NEW q \in Sessions, Reading(q)
               PROVE  /\ offset'[q] <= task'.cursor
                      /\ task'.first = IF StoredSoFar' = offset'[q] THEN Nil ELSE At(q, offset[q] + 1)'
    BY <1>5 DEF FirstNew
  <2>1. /\ offset[q] <= task.cursor /\ offset[q] \in Nat
        /\ task.first = IF StoredSoFar = offset[q] THEN Nil ELSE At(q, offset[q] + 1)
    BY DEF CInv, FirstNew, TInv, LogOK
  <2>2. At(q, offset[q] + 1)' = At(q, offset[q] + 1)
    BY <1>1 DEF At
  <2> QED BY <1>1, <1>2, <1>4, <2>1, <2>2
<1>9. Waiting' /\ PlanLoaded'
  BY <1>5 DEF Waiting, PlanLoaded
<1>10. Undisturbed'
  BY <1>1, <1>3, UndisturbedKept
<1>11. \A q \in Sessions : written[q] <= written'[q]
  BY <1>1 DEF TInv, LogOK
<1> QED BY <1>1, <1>3, <1>5, <1>6, <1>7, <1>8, <1>9, <1>10, <1>11, CalmKept

LEMMA StartsNow ==
    ASSUME TInv, NEW s \in Sessions
    PROVE  /\ \A i \in 1..(written[s] + 1) : At(s, i) \in Nat /\ At(s, i) # Nil
           /\ \A i, j \in 1..(written[s] + 1) : i < j => At(s, i) < At(s, j)
<1> DEFINE L == Len(story.records[s])
<1>1. L \in Nat /\ written[s] \in Nat /\ written[s] <= L
  BY StartsInOrder DEF TInv, LogOK
<1>2. /\ \A i \in 1..(L + 1) : At(s, i) \in Nat
      /\ \A i, j \in 1..(L + 1) : i < j => At(s, i) < At(s, j)
  BY StartsInOrder DEF TInv
<1>3. \A i \in 1..(written[s] + 1) : i \in 1..(L + 1)
  BY <1>1
<1> QED BY <1>2, <1>3, NilAssumption

LEMMA CalmInsert ==
    ASSUME TInv, TInv', CInv, InsertRow, NEW s \in Sessions, s = task.session, NEW n, n = task.cursor
    PROVE  CInv'
<1> DEFINE row == [payload |-> Record, ts |-> IF Record.ts = 0 THEN Now ELSE Record.ts,
                   event |-> ParseEvent(Record, Offset, s, task.ctx)]
           stored == [o \in DOMAIN rows[s] \cup {Offset} |-> IF o = Offset THEN row ELSE rows[s][o]]
<1>1. /\ UNCHANGED <<story, written, current, known, linked, lineage, versions, repair, offset, turns>>
      /\ task.pc = "insert" /\ n < task.upto
  BY DEF InsertRow, IngesterKeeps, outside, shownVars
<1>2. /\ s \in Sessions /\ n \in Nat /\ task'.session = s /\ task'.pc = "facts" /\ task'.cursor = n
      /\ n + 1 <= written[s] /\ written[s] \in Nat /\ offset[s] \in Nat
  BY <1>1 DEF InsertRow, TInv, TaskOK, NoTask, LogOK
<1>3. Reading(s) /\ Frontier(s) = n /\ StoredSoFar = n
  BY <1>1 DEF Reading, Frontier, StoredSoFar
<1>4. StoredTo(s, n) /\ offset[s] <= n /\ task.first = IF n = offset[s] THEN Nil ELSE At(s, offset[s] + 1)
  BY <1>2, <1>3, Committed DEF CInv, FirstNew
<1>5. Offset = At(s, n + 1) /\ Offset \in Nat /\ Offset # Nil /\ Offset \notin DOMAIN rows[s]
  <2>1. n + 1 \in 1..(written[s] + 1)
    BY <1>2
  <2>2. ASSUME NEW i \in 1..n PROVE At(s, i) # At(s, n + 1)
    <3>1. i \in 1..(written[s] + 1) /\ i < n + 1
      BY <1>2
    <3>2. At(s, i) \in Nat /\ At(s, n + 1) \in Nat /\ At(s, i) < At(s, n + 1)
      BY <1>2, <2>1, <3>1, StartsNow
    <3> QED BY <3>2
  <2>3. At(s, n + 1) \in Nat /\ At(s, n + 1) # Nil
    BY <1>2, <2>1, StartsNow
  <2> QED BY <1>4, <2>2, <2>3 DEF StoredTo, Offset
<1>6. rows' = [rows EXCEPT ![s] = stored] /\ DOMAIN rows = Sessions
  BY <1>5 DEF InsertRow, TInv, RowsOK
<1>7. task'.first = IF task.first = Nil THEN Offset ELSE task.first
  BY <1>5 DEF InsertRow, TInv, TaskOK, NoTask
<1>8. row.ts \in Nat
  <2>1. Now \in Nat
    BY NowIsNat DEF CInv, InFront
  <2>2. n + 1 \in 1..written[s]
    BY <1>2
  <2>3. Record.ts \in Nat
    BY <1>2, <2>2, RecordsListed DEF Listed, Record
  <2> QED BY <2>1, <2>3
<1> HIDE DEF row
<1>9. /\ \A q \in Sessions : q # s => rows'[q] = rows[q]
      /\ DOMAIN rows'[s] = DOMAIN rows[s] \cup {Offset} /\ rows'[s][Offset] = row
      /\ \A o \in DOMAIN rows[s] : rows'[s][o] = rows[s][o]
  BY <1>2, <1>5, <1>6
<1> HIDE DEF stored
<1>10. \A q \in Sessions : Grows(q)
  BY <1>9 DEF Grows
<1>11. \A q \in Sessions : (Reading(q)' <=> Reading(q)) /\ ~Rebuilding(q) /\ ~Rebuilding(q)'
  BY <1>1, <1>2 DEF Reading, Rebuilding
<1>12. TurnsSoFar'
  BY <1>1, <1>10, <1>11, TurnsKept
<1>13. Waiting' /\ PlanLoaded'
  BY <1>11 DEF Waiting, PlanLoaded
<1>14. Undisturbed'
  BY <1>1, UndisturbedKept
<1>15. Registered'
  <2>1. s \in known
    BY <1>1 DEF CInv, Registered, Busy
  <2> QED BY <1>1, <1>2, <1>9, <2>1 DEF CInv, Registered, Busy
<1>16. StoredSoFar' = n + 1
  BY <1>2 DEF StoredSoFar
<1>17. FirstNew'
  <2> SUFFICES ASSUME NEW q \in Sessions, Reading(q)
               PROVE  /\ offset'[q] <= task'.cursor
                      /\ task'.first = IF StoredSoFar' = offset'[q] THEN Nil ELSE At(q, offset[q] + 1)'
    BY <1>11 DEF FirstNew
  <2>1. q = s
    BY DEF Reading
  <2>2. At(q, offset[q] + 1)' = At(q, offset[q] + 1)
    BY <1>1 DEF At
  <2>3. offset[s] + 1 \in 1..(written[s] + 1)
    BY <1>2, <1>4
  <2>4. At(s, offset[s] + 1) # Nil
    BY <2>3, StartsNow
  <2>5. CASE n = offset[s]
    BY <1>1, <1>2, <1>4, <1>5, <1>7, <1>16, <2>1, <2>2, <2>5
  <2>6. CASE n # offset[s]
    BY <1>1, <1>2, <1>4, <1>5, <1>7, <1>16, <2>1, <2>2, <2>4, <2>6
  <2> QED BY <2>5, <2>6
<1>18. InFront'
  <2> SUFFICES ASSUME NEW q \in Sessions
               PROVE  Timed(q)' /\ \A k : k = Frontier(q)' => StoredTo(q, k)'
    BY DEF InFront
  <2>1. Timed(q) /\ StoredTo(q, Frontier(q))
    BY Committed
  <2>2. CASE q = s
    <3>1. Timed(q)'
      BY <1>8, <1>9, <2>1, <2>2 DEF Timed
    <3>2. Frontier(q)' = n + 1
      BY <1>3, <1>11, <1>16, <2>2 DEF Frontier
    <3>3. \A i : At(s, i)' = At(s, i)
      BY <1>1 DEF At
    <3>4. DOMAIN rows'[s] = {At(s, i) : i \in 1..(n + 1)}
      <4>1. 1..(n + 1) = 1..n \cup {n + 1}
        BY <1>2
      <4>2. DOMAIN rows[s] = {At(s, i) : i \in 1..n}
        BY <1>4 DEF StoredTo
      <4> QED BY <1>5, <1>9, <4>1, <4>2
    <3>5. n + 1 \in 0..written[s]
      BY <1>2
    <3>6. StoredTo(s, n + 1)'
      BY <1>1, <1>2, <1>4, <3>3, <3>4, <3>5 DEF StoredTo
    <3> QED BY <2>2, <3>1, <3>2, <3>6
  <2>3. CASE q # s
    <3>1. rows'[q] = rows[q]
      BY <1>9, <2>3
    <3>2. Timed(q)'
      BY <2>1, <3>1 DEF Timed
    <3>3. ~Reading(q) /\ ~Reading(q)'
      BY <1>2, <2>3 DEF Reading
    <3>4. Frontier(q)' = Frontier(q) /\ written[q] <= written'[q]
      BY <1>1, <3>3 DEF Frontier, TInv, LogOK
    <3>5. ASSUME NEW k, k = Frontier(q)' PROVE StoredTo(q, k)'
      BY <1>1, <2>1, <3>1, <3>4, <3>5, StoredToKept
    <3> QED BY <3>2, <3>5
  <2> QED BY <2>2, <2>3
<1> QED BY <1>12, <1>13, <1>14, <1>15, <1>17, <1>18 DEF CInv

LEMMA CalmCommit ==
    ASSUME TInv, TInv', CInv, CommitOffset, NEW s \in Sessions, s = task.session, NEW n, n = task.cursor
    PROVE  CInv'
<1>1. /\ UNCHANGED <<story, written, current, known, linked, lineage, versions, repair, rows, turns>>
      /\ task.pc = "insert" /\ n = task.upto
  BY DEF CommitOffset, IngesterKeeps, outside, shownVars
<1>2. /\ n \in Nat /\ task'.session = s /\ n <= written[s] /\ written[s] \in Nat
      /\ \A q \in Sessions : offset'[q] = IF q = s THEN n ELSE offset[q]
      /\ offset[s] \in Nat
  BY <1>1 DEF CommitOffset, TInv, TaskOK, NoTask, LogOK
<1>3. /\ task'.pc = IF task.first = Nil THEN "idle" ELSE "rebuild"
      /\ task'.queue = IF task.first = Nil THEN <<>> ELSE <<[session |-> s, first |-> task.first]>>
  BY DEF CommitOffset, TInv, TaskOK, NoTask
<1>4. Reading(s) /\ Frontier(s) = n /\ StoredSoFar = n
  BY <1>1 DEF Reading, Frontier, StoredSoFar
<1>5. offset[s] <= n /\ task.first = IF n = offset[s] THEN Nil ELSE At(s, offset[s] + 1)
  BY <1>4 DEF CInv, FirstNew
<1>6. /\ \A q \in Sessions : ~Reading(q)' /\ (q # s => ~Reading(q))
      /\ \A q \in Sessions : ~Rebuilding(q) /\ (Rebuilding(q)' => q = s /\ task.first # Nil)
  BY <1>1, <1>2, <1>3 DEF Reading, Rebuilding
<1>7. \A q \in Sessions : Frontier(q)' = Frontier(q)
  BY <1>2, <1>4, <1>6 DEF Frontier
<1>8. \A q \in Sessions : Grows(q)
  BY <1>1 DEF Grows
<1>9. ASSUME NEW q \in Sessions, NEW k, k = offset[q] PROVE k \in Nat /\ (Good(q, k)' => MadeTo(q, k)')
  <2>1. k \in Nat /\ k <= Frontier(q)
    BY <1>9, Committed
  <2>2. Good(q, k) => MadeTo(q, k)
    BY <1>6, <1>9 DEF CInv, TurnsSoFar
  <2> QED BY <1>1, <1>8, <2>1, <2>2, MadeStays
<1>10. TurnsSoFar'
  <2> SUFFICES ASSUME NEW q \in Sessions, NEW k, k = offset'[q], ~Rebuilding(q)', Good(q, k)'
               PROVE  MadeTo(q, k)'
    BY DEF TurnsSoFar
  <2>1. k = offset[q]
    <3>1. CASE q = s
      <4>1. task.first = Nil
        BY <1>2, <1>3, <3>1 DEF Rebuilding
      <4>2. offset[s] + 1 \in 1..(written[s] + 1)
        BY <1>2, <1>5
      <4>3. At(s, offset[s] + 1) # Nil
        BY <4>2, StartsNow
      <4> QED BY <1>2, <1>5, <3>1, <4>1, <4>3
    <3>2. CASE q # s
      BY <1>2, <3>2
    <3> QED BY <3>1, <3>2
  <2> QED BY <1>9, <2>1
<1>11. Waiting'
  <2> SUFFICES ASSUME NEW q \in Sessions, Rebuilding(q)'
               PROVE  \E m \in Nat : m < offset'[q] /\ Waits(q, m)'
    BY DEF Waiting
  <2>1. q = s /\ task.first # Nil
    BY <1>6
  <2>2. PICK m \in Nat : m = offset[s]
    BY <1>2
  <2>3. m < offset'[s]
    BY <1>2, <1>5, <2>1, <2>2
  <2>4. Good(s, m)' => MadeTo(s, m)'
    BY <1>9, <2>2
  <2>5. At(s, m + 1)' = At(s, m + 1)
    BY <1>1 DEF At
  <2>6. task'.queue = <<[session |-> s, first |-> At(s, m + 1)']>>
    BY <1>3, <1>5, <2>1, <2>2, <2>5
  <2> QED BY <2>1, <2>3, <2>4, <2>6 DEF Waits
<1>12. PlanLoaded'
  BY <1>3 DEF PlanLoaded
<1>13. Undisturbed'
  BY <1>1, UndisturbedKept
<1>14. Registered'
  BY <1>1, <1>2 DEF CInv, Registered, Busy
<1>15. FirstNew'
  BY <1>6 DEF FirstNew
<1>16. InFront'
  <2> SUFFICES ASSUME NEW q \in Sessions
               PROVE  Timed(q)' /\ \A k : k = Frontier(q)' => StoredTo(q, k)'
    BY DEF InFront
  <2>1. Timed(q)'
    BY <1>1, TimedKept, Committed
  <2>2. ASSUME NEW k, k = Frontier(q)' PROVE StoredTo(q, k)'
    <3>1. StoredTo(q, k)
      BY <1>7, <2>2, Committed
    <3>2. written[q] <= written'[q]
      BY <1>1 DEF TInv, LogOK
    <3> QED BY <1>1, <3>1, <3>2, StoredToKept
  <2> QED BY <2>1, <2>2
<1> QED BY <1>10, <1>11, <1>12, <1>13, <1>14, <1>15, <1>16 DEF CInv

LEMMA SimpleNow ==
    ASSUME TInv, RowsBear, CInv, NEW s \in known, ~Reading(s), NEW n, n = offset[s], InOrder(s)
    PROVE  Simple(s, n)
<1>1. s \in Sessions /\ known \subseteq Sessions
  BY DEF TInv, SetsOK
<1>2. StoredTo(s, n) /\ Timed(s)
  BY <1>1, Committed
<1>3. Children(s) = {}
  BY <1>1, SessionsAssumption DEF Children, CInv, Undisturbed
<1>4. s \in story.current => TouchContext(s) = story.context[s]
  BY DEF CInv, Registered, TouchContext
<1> QED BY <1>1, <1>2, <1>3, <1>4 DEF Simple

LEMMA GoodPart ==
    ASSUME NEW s \in Sessions, NEW n, StoredTo(s, n), NEW m \in Nat, m < n, Good(s, n)
    PROVE  Good(s, m)
<1> DEFINE E == AllEvents
           old == EventsUpTo(s, m)
           w == EventsUpTo(s, n)
<1>1. CASE m = 0
  <2>1. old = <<>>
    <3>1. old \in [1..0 -> E]
      BY <1>1 DEF EventsUpTo
    <3>2. old \in Seq(E) /\ Len(old) = 0
      BY <3>1, SeqDef, LenProperties
    <3> HIDE DEF old
    <3> QED BY <3>2, EmptySeq
  <2>2. DOMAIN Seeds(<<>>) = {}
    <3> DEFINE q == <<>>
    <3>1. Seeds(q) = q
      BY SeedsNone
    <3>2. DOMAIN q = {}
      OBVIOUS
    <3> HIDE DEF q
    <3>3. DOMAIN Seeds(q) = {}
      BY <3>1, <3>2
    <3> QED BY <3>3 DEF q
  <2>3. ~ProjectionPanics(<<>>)
    BY <2>2 DEF ProjectionPanics
  <2> QED BY <2>1, <2>3 DEF Good
<1>2. CASE m # 0
  <2>1. m \in 1..(n - 1)
    BY <1>2 DEF StoredTo
  <2>2. PICK new : old \in Seq(E) /\ new \in Seq(E) /\ w = old \o new
    <3>1. \E new : /\ EventsUpTo(s, m) \in Seq(AllEvents) /\ new \in Seq(AllEvents)
                   /\ EventsUpTo(s, m) # <<>> /\ new # <<>>
                   /\ EventsUpTo(s, n) = EventsUpTo(s, m) \o new
                   /\ FirstOf(new) = At(s, m + 1)
      BY <2>1, Divided
    <3> QED BY <3>1, Zenon
  <2> HIDE DEF old, w, E
  <2>3. ProjectionPanics(old) => ProjectionPanics(old \o new)
    BY <2>2, PanicsGrow
  <2>4. ~ProjectionPanics(w)
    BY DEF Good, w
  <2>5. ~ProjectionPanics(old)
    BY <2>2, <2>3, <2>4
  <2> QED BY <2>5 DEF Good, old
<1> QED BY <1>1, <1>2

\* What a rebuild that is due leaves, and what it projects.
LEMMA DueIsRight ==
    ASSUME TInv, RowsBear, CInv, NEW s \in Sessions, Rebuilding(s), NEW n, n = offset[s], Good(s, n)
    PROVE  \E m \in Nat :
              /\ task.queue = <<[session |-> s, first |-> At(s, m + 1)]>>
              /\ ~ProjectionPanics(EventsToProject(s, At(s, m + 1)))
              /\ Right(PlanFor(s, At(s, m + 1)), s, n)
<1>1. PICK m \in Nat : m < n /\ Waits(s, m)
  BY DEF CInv, Waiting
<1>2. s \in known /\ ~Reading(s)
  BY DEF CInv, Registered, Busy, Rebuilding, Reading
<1>3. Simple(s, n) /\ StoredTo(s, n)
  BY <1>2, SimpleNow DEF Good, Simple
<1>4. MadeTo(s, m)
  BY <1>1, <1>3, GoodPart DEF Waits
<1>5. m \in 0..(n - 1)
  BY <1>1, <1>3 DEF StoredTo
<1>6. Made(turns[s], s, Seeds(EventsUpTo(s, m)))
  BY <1>4 DEF MadeTo
<1>7. /\ Ends(EventsToProject(s, At(s, m + 1)), EventsUpTo(s, n))
      /\ Right(PlanFor(s, At(s, m + 1)), s, n)
  BY <1>3, <1>5, <1>6, SuffixIsRight
<1>8. ~ProjectionPanics(EventsToProject(s, At(s, m + 1)))
  BY <1>7, EndsPanic DEF Good
<1> QED BY <1>1, <1>7, <1>8 DEF Waits

LEMMA CalmLoad ==
    ASSUME TInv, TInv', RowsBear, CInv, LoadProjection
    PROVE  CInv'
<1>1. /\ UNCHANGED <<story, written, current, known, linked, lineage, versions, repair, offset, rows, turns>>
      /\ task.pc = "rebuild" /\ task' = [task EXCEPT !.pc = "store",
             !.plan = PlanFor(Head(task.queue).session, Head(task.queue).first)]
  BY DEF LoadProjection, IngesterKeeps, outside, rowVars, shownVars
<1>2. /\ task'.pc = "store" /\ task'.session = task.session /\ task'.queue = task.queue
      /\ task'.plan = PlanFor(Head(task.queue).session, Head(task.queue).first)
  BY <1>1 DEF TInv, TaskOK, NoTask
<1>3. \A q \in Sessions : ~Reading(q) /\ ~Reading(q)' /\ (Rebuilding(q)' <=> Rebuilding(q))
  BY <1>1, <1>2 DEF Reading, Rebuilding
<1>4. \A q \in Sessions : Frontier(q)' = Frontier(q) /\ written[q] <= written'[q]
  BY <1>1, <1>3 DEF Frontier, TInv, LogOK
<1>5. Registered'
  BY <1>1, <1>2 DEF CInv, Registered, Busy
<1>6. FirstNew' /\ Undisturbed'
  BY <1>1, <1>3, UndisturbedKept DEF FirstNew
<1>7. ASSUME NEW s \in Sessions, NEW k \in Nat, k <= offset[s]
      PROVE  /\ EventsUpTo(s, k)' = EventsUpTo(s, k) /\ (Good(s, k)' => Good(s, k))
             /\ (Good(s, k) => MadeTo(s, k)) => (Good(s, k)' => MadeTo(s, k)')
  <2>1. /\ offset[s] \in Nat /\ Frontier(s) \in Nat /\ offset[s] <= Frontier(s)
        /\ StoredTo(s, Frontier(s)) /\ Grows(s)
    BY <1>1, Committed DEF Grows
  <2>2. k <= Frontier(s)
    BY <1>7, <2>1
  <2> QED BY <1>1, <2>1, <2>2, GoodBack, MadeStays
<1>8. Waiting'
  <2> SUFFICES ASSUME NEW s \in Sessions, Rebuilding(s)
               PROVE  \E m \in Nat : m < offset'[s] /\ Waits(s, m)'
    BY <1>3 DEF Waiting
  <2>1. PICK m \in Nat : m < offset[s] /\ Waits(s, m)
    BY DEF CInv, Waiting
  <2>2. m <= offset[s]
    BY <2>1 DEF TInv, LogOK
  <2>3. Good(s, m)' => MadeTo(s, m)'
    BY <1>7, <2>1, <2>2 DEF Waits
  <2>4. At(s, m + 1)' = At(s, m + 1)
    BY <1>1 DEF At
  <2> QED BY <1>1, <1>2, <2>1, <2>3, <2>4 DEF Waits
<1>9. PlanLoaded'
  <2> SUFFICES ASSUME NEW s \in Sessions, Rebuilding(s)
               PROVE  /\ task'.plan.session = s
                      /\ \A n : n = offset'[s] /\ Good(s, n)' => RightPlan(s, n)'
    BY <1>3 DEF PlanLoaded
  <2>1. Head(task.queue).session = s
    <3>1. PICK m \in Nat : task.queue = <<[session |-> s, first |-> At(s, m + 1)]>>
      BY DEF CInv, Waiting, Waits
    <3> QED BY <3>1
  <2>2. task'.plan.session = s
    BY <1>2, <2>1 DEF PlanFor, FullPlan, Plan
  <2>3. ASSUME NEW n, n = offset[s], Good(s, n)' PROVE RightPlan(s, n)'
    <3>1. n \in Nat /\ n <= offset[s]
      BY <2>3 DEF TInv, LogOK
    <3>2. EventsUpTo(s, n)' = EventsUpTo(s, n) /\ Good(s, n)
      BY <1>7, <2>3, <3>1
    <3>3. PICK m \in Nat : /\ task.queue = <<[session |-> s, first |-> At(s, m + 1)]>>
                           /\ Right(PlanFor(s, At(s, m + 1)), s, n)
      BY <2>3, <3>2, DueIsRight
    <3>4. task'.plan = PlanFor(s, At(s, m + 1))
      BY <1>2, <3>3
    <3> QED BY <1>1, <3>2, <3>3, <3>4, RightKept
  <2> QED BY <1>1, <2>2, <2>3
<1> QED BY <1>1, <1>3, <1>4, <1>5, <1>6, <1>8, <1>9, CalmKept

LEMMA HeadDue ==
    ASSUME CInv, NEW s \in Sessions, Rebuilding(s)
    PROVE  \E m \in Nat : /\ task.queue = <<[session |-> s, first |-> At(s, m + 1)]>> /\ m < offset[s]
                          /\ Head(task.queue).session = s /\ Head(task.queue).first = At(s, m + 1)
                          /\ Tail(task.queue) = <<>>
<1>1. PICK m \in Nat : /\ task.queue = <<[session |-> s, first |-> At(s, m + 1)]>> /\ m < offset[s]
  BY DEF CInv, Waiting, Waits
<1> DEFINE d == [session |-> s, first |-> At(s, m + 1)]
<1>2. d.session = s /\ d.first = At(s, m + 1)
  OBVIOUS
<1>3. task.queue = <<d>>
  BY <1>1
<1> HIDE DEF d
<1>4. Head(task.queue) = d /\ Tail(task.queue) = <<>>
  BY <1>3
<1> QED BY <1>1, <1>2, <1>4

\* The turns of all sessions, after a step that ends the rebuild of one.
LEMMA RebuildOver ==
    ASSUME TInv, CInv, UNCHANGED <<story, written, current, known, linked, lineage, versions, repair, offset, rows>>,
           TInv', task'.pc = "idle",
           NEW s \in Sessions, Rebuilding(s),
           \A q \in Sessions : q # s => turns'[q] = turns[q],
           \A n : n = offset[s] /\ Good(s, n)' => MadeTo(s, n)'
    PROVE  CInv'
<1>1. \A q \in Sessions : /\ ~Rebuilding(q)' /\ (q # s => ~Rebuilding(q))
                          /\ ~Reading(q)' /\ ~Reading(q)
  BY DEF Rebuilding, Reading
<1>2. \A q \in Sessions : Frontier(q)' = Frontier(q) /\ written[q] <= written'[q]
  BY <1>1 DEF Frontier, TInv, LogOK
<1>3. TurnsSoFar'
  <2> SUFFICES ASSUME NEW q \in Sessions, NEW n, n = offset[q], Good(q, n)' PROVE MadeTo(q, n)'
    BY DEF TurnsSoFar
  <2>1. CASE q = s
    BY <2>1
  <2>2. CASE q # s
    <3>1. n \in Nat /\ n <= Frontier(q) /\ Grows(q)
      BY Committed DEF Grows
    <3>2. Good(q, n) => MadeTo(q, n)
      BY <1>1, <2>2 DEF CInv, TurnsSoFar
    <3>3. Good(q, n)' => MadeTo(q, n)'
      BY <2>2, <3>1, <3>2, MadeStays
    <3> QED BY <3>3
  <2> QED BY <2>1, <2>2
<1>4. InFront'
  <2> SUFFICES ASSUME NEW q \in Sessions
               PROVE  Timed(q)' /\ \A k : k = Frontier(q)' => StoredTo(q, k)'
    BY DEF InFront
  <2>1. Timed(q)'
    BY TimedKept, Committed
  <2>2. ASSUME NEW k, k = Frontier(q)' PROVE StoredTo(q, k)'
    <3>1. StoredTo(q, k)
      BY <1>2, <2>2, Committed
    <3> QED BY <1>2, <3>1, StoredToKept
  <2> QED BY <2>1, <2>2
<1>5. Registered'
  BY DEF CInv, Registered, Busy
<1>6. Waiting' /\ PlanLoaded' /\ FirstNew'
  BY <1>1 DEF Waiting, PlanLoaded, FirstNew
<1>7. Undisturbed'
  BY UndisturbedKept
<1> QED BY <1>3, <1>4, <1>5, <1>6, <1>7 DEF CInv

LEMMA RebuildingIs ==
    ASSUME TInv, CInv, task.pc \in {"rebuild", "store"}
    PROVE  task.session \in known /\ Rebuilding(task.session) /\ task.session \in Sessions
<1> QED BY DEF CInv, Registered, Busy, Rebuilding, TInv, SetsOK

\* A rebuild whose session cannot be projected: nothing is said of its turns.
LEMMA CalmPanic ==
    ASSUME TInv, TInv', RowsBear, CInv, Panic
    PROVE  CInv'
<1>1. PICK s \in Sessions : Rebuilding(s) /\ s = task.session
  BY RebuildingIs DEF Panic
<1>2. /\ UNCHANGED <<story, written, current, known, linked, lineage, versions, repair, offset, rows, turns>>
      /\ task' = [NoTask EXCEPT !.pc = "idle"]
      /\ ProjectionPanics(EventsToProject(Head(task.queue).session, Head(task.queue).first))
  BY DEF Panic, IngesterKeeps, outside, rowVars, shownVars
<1>3. task'.pc = "idle"
  BY <1>2 DEF NoTask
<1>4. ASSUME NEW n, n = offset[s], Good(s, n)' PROVE MadeTo(s, n)'
  <2>1. n \in Nat /\ n <= Frontier(s) /\ StoredTo(s, Frontier(s)) /\ Frontier(s) \in Nat /\ Grows(s)
    BY <1>2, <1>4, Committed DEF Grows
  <2>2. Good(s, n)
    BY <1>2, <1>4, <2>1, GoodBack
  <2>3. PICK m \in Nat : /\ task.queue = <<[session |-> s, first |-> At(s, m + 1)]>>
                         /\ ~ProjectionPanics(EventsToProject(s, At(s, m + 1)))
    BY <1>1, <1>4, <2>2, DueIsRight
  <2>4. Head(task.queue).session = s /\ Head(task.queue).first = At(s, m + 1)
    BY <2>3
  <2> QED BY <1>2, <2>3, <2>4
<1> QED BY <1>1, <1>2, <1>3, <1>4, RebuildOver

LEMMA NextIsIdle ==
    ASSUME TInv, CInv, NEW s \in Sessions, Rebuilding(s), s = task.session, NextRebuild
    PROVE  task'.pc = "idle"
<1>1. PICK m \in Nat : /\ m < offset[s] /\ Head(task.queue).first = At(s, m + 1) /\ Tail(task.queue) = <<>>
  BY HeadDue
<1>2. AncestorChain(s) = <<>>
  BY NoAncestors DEF CInv, Undisturbed
<1> DEFINE chain == AncestorChain(task.session)
           others == [i \in DOMAIN chain |-> [session |-> chain[i], first |-> Nil]]
           rest == IF Head(task.queue).first # Nil /\ Agent(task.session) = "codex"
                   THEN others ELSE Tail(task.queue)
<1>3. others = <<>>
  BY <1>2
<1>4. rest = <<>>
  <2> HIDE DEF others
  <2> QED BY <1>1, <1>3
<1>5. task' = [task EXCEPT !.pc = IF rest = <<>> THEN "idle" ELSE "rebuild", !.queue = rest, !.plan = Nil]
  BY DEF NextRebuild
<1> HIDE DEF rest
<1> QED BY <1>4, <1>5 DEF TInv, TaskOK, NoTask

LEMMA CalmStore ==
    ASSUME TInv, TInv', CInv, StoreProjection
    PROVE  CInv'
<1>1. PICK s \in Sessions : Rebuilding(s) /\ s = task.session
  BY RebuildingIs DEF StoreProjection
<1>2. /\ UNCHANGED <<story, written, current, known, linked, lineage, versions, repair, offset, rows>>
      /\ task.pc = "store" /\ CommitPlan(task.plan) /\ NextRebuild
  BY DEF StoreProjection, IngesterKeeps, outside, rowVars
<1>3. task'.pc = "idle"
  BY <1>1, <1>2, NextIsIdle
<1>4. task.plan.session = s /\ \A n : n = offset[s] /\ Good(s, n) => Right(task.plan, s, n)
  BY <1>1, <1>2 DEF CInv, PlanLoaded, RightPlan
<1>5. turns' = [turns EXCEPT ![s] = TurnsAfter(task.plan)] /\ s \in DOMAIN turns
  BY <1>2, <1>4 DEF CommitPlan, TInv, TurnsOK
<1>6. turns'[s] = TurnsAfter(task.plan) /\ \A q \in Sessions : q # s => turns'[q] = turns[q]
  BY <1>5
<1>7. ASSUME NEW n, n = offset[s], Good(s, n)' PROVE MadeTo(s, n)'
  <2>1. n \in Nat /\ n <= Frontier(s) /\ StoredTo(s, Frontier(s)) /\ Frontier(s) \in Nat /\ Grows(s)
    BY <1>2, <1>7, Committed DEF Grows
  <2>2. Good(s, n) /\ EventsUpTo(s, n)' = EventsUpTo(s, n)
    BY <1>2, <1>7, <2>1, GoodBack
  <2>3. Made(turns'[s], s, Seeds(EventsUpTo(s, n)))
    BY <1>4, <1>6, <1>7, <2>2 DEF Right
  <2> QED BY <1>2, <2>2, <2>3, MadeKept
<1> QED BY <1>1, <1>2, <1>3, <1>6, <1>7, RebuildOver

LEMMA CalmRefused ==
    ASSUME TInv, TInv', CInv, StoreRefused, mishaps = 0, mishaps' = 0
    PROVE  CInv'
<1>1. PICK s \in Sessions : Rebuilding(s) /\ s = task.session /\ s \in known
  BY RebuildingIs DEF StoreRefused
<1>2. /\ UNCHANGED <<story, written, current, known, linked, lineage, versions, repair, offset, rows, turns>>
      /\ task.pc = "store" /\ NextRebuild /\ ~CanCommit(task.plan)
  BY DEF StoreRefused, Mishap, IngesterKeeps, outside, rowVars, shownVars
<1>3. task'.pc = "idle"
  BY <1>1, <1>2, NextIsIdle
<1>4. \A n : n = offset[s] /\ Good(s, n) => Right(task.plan, s, n)
  BY <1>1, <1>2 DEF CInv, PlanLoaded, RightPlan
<1>5. ASSUME NEW n, n = offset[s], Good(s, n)' PROVE MadeTo(s, n)'
  <2>1. n \in Nat /\ n <= Frontier(s) /\ StoredTo(s, Frontier(s)) /\ Frontier(s) \in Nat /\ Grows(s)
    BY <1>2, <1>5, Committed DEF Grows
  <2>2. Good(s, n)
    BY <1>2, <1>5, <2>1, GoodBack
  <2>3. Right(task.plan, s, n)
    BY <1>4, <1>5, <2>2
  <2> QED BY <1>1, <1>2, <2>3 DEF Right, CanCommit
<1> QED BY <1>1, <1>2, <1>3, <1>5, RebuildOver

LEMMA CalmStart ==
    ASSUME TInv, TInv', CInv, StartIngester
    PROVE  CInv'
<1>1. /\ UNCHANGED <<story, written, current, known, linked, lineage, versions, repair, offset, rows, turns>>
      /\ task.pc = "boot" /\ task'.pc = "idle"
  BY DEF StartIngester, outside, rowVars, shownVars, TInv, TaskOK, NoTask
<1>2. \A q \in Sessions : ~Reading(q) /\ ~Reading(q)' /\ ~Rebuilding(q) /\ ~Rebuilding(q)'
  BY <1>1 DEF Reading, Rebuilding
<1>3. \A q \in Sessions : Frontier(q)' = Frontier(q) /\ written[q] <= written'[q]
  BY <1>1, <1>2 DEF Frontier, TInv, LogOK
<1>4. Registered'
  BY <1>1 DEF CInv, Registered, Busy
<1>5. FirstNew' /\ Waiting' /\ PlanLoaded'
  BY <1>2 DEF FirstNew, Waiting, PlanLoaded
<1>6. Undisturbed'
  BY <1>1, UndisturbedKept
<1> QED BY <1>1, <1>2, <1>3, <1>4, <1>5, <1>6, CalmKept

LEMMA NoEvents ==
    ASSUME NEW s
    PROVE  EventsUpTo(s, 0) = <<>>
<1> DEFINE z == EventsUpTo(s, 0)
<1>1. z \in [1..0 -> {}]
  BY DEF EventsUpTo
<1>2. z \in Seq({}) /\ Len(z) = 0
  BY <1>1, SeqDef, LenProperties
<1> HIDE DEF z
<1>3. z = <<>>
  BY <1>2, EmptySeq
<1> QED BY <1>3 DEF z

LEMMA MadeNone ==
    ASSUME NEW T, NEW s, DOMAIN T = {}
    PROVE  Made(T, s, Seeds(EventsUpTo(s, 0)))
<1> DEFINE q == <<>>
<1>1. Len(q) = 0
  BY EmptySeq
<1>2. Seeds(EventsUpTo(s, 0)) = q
  BY NoEvents, SeedsNone
<1> HIDE DEF q
<1> QED BY <1>1, <1>2 DEF Made, Firsts, HoldsTurns

LEMMA CalmInit ==
    ASSUME Init, Plain
    PROVE  CInv
<1>1. TInv /\ WellFormed(story)
  BY TypesInit, StoryFormed DEF TInv
<1>2. \A s \in Sessions : story.legacy[s] = 0 /\ offset[s] = 0
  BY DEF Plain, Init
<1>3. \A s \in Sessions : DOMAIN rows[s] = {} /\ DOMAIN turns[s] = {}
  BY <1>2 DEF Init
<1>4. known = {} /\ task.pc = "boot" /\ repair.pc = "none"
  BY <1>2 DEF Init, NoTask, NoRepair
<1>5. Undisturbed
  <2>1. \A s \in Sessions : LegacyParent(s) = Nil
    BY <1>2 DEF LegacyParent
  <2> QED BY <1>4, <2>1 DEF Init, Undisturbed
<1>6. Registered
  BY <1>3, <1>4 DEF Init, Registered, Busy
<1>7. \A s \in Sessions : ~Reading(s) /\ ~Rebuilding(s)
  BY <1>4 DEF Reading, Rebuilding
<1>8. InFront
  <2> SUFFICES ASSUME NEW s \in Sessions PROVE Timed(s) /\ \A n : n = Frontier(s) => StoredTo(s, n)
    BY DEF InFront
  <2>1. Frontier(s) = 0
    BY <1>2, <1>7 DEF Frontier
  <2>2. written[s] \in Nat
    BY <1>1 DEF TInv, LogOK
  <2>3. /\ \A i \in 1..(written[s] + 1) : At(s, i) \in Nat
        /\ \A i, j \in 1..(written[s] + 1) : i < j => At(s, i) < At(s, j)
    BY <1>1, StartsNow
  <2>4. \A i \in 1..written[s] : i \in 1..(written[s] + 1)
    BY <2>2
  <2>5. StoredTo(s, 0)
    BY <1>3, <2>2, <2>3, <2>4 DEF StoredTo
  <2> QED BY <1>3, <2>1, <2>5 DEF Timed
<1>9. FirstNew /\ Waiting /\ PlanLoaded
  BY <1>7 DEF FirstNew, Waiting, PlanLoaded
<1>10. TurnsSoFar
  BY <1>2, <1>3, MadeNone DEF TurnsSoFar, MadeTo
<1> QED BY <1>5, <1>6, <1>8, <1>9, <1>10 DEF CInv

\* Nothing is repaired when nothing went wrong and nothing was stored before.
LEMMA NothingToRepair ==
    ASSUME TInv, CInv, mishaps' = 0, [Next]_vars, ~(View \/ UNCHANGED vars),
           ~(\E s \in Sessions : Write(s) \/ LinkSession(s) \/ Correlate(s))
    PROVE  Ingest \/ StartIngester
<1>1. repair.pc = "none" /\ versions = {"blocks", "timeline"} /\ mishaps \in Nat
  BY MishapsAssumption DEF CInv, Undisturbed, TInv, SetsOK
<1>2. ~InsertFails /\ ~ListSessions /\ ~HangUp /\ ~Crash
  BY <1>1 DEF InsertFails, ListSessions, HangUp, Crash, Mishap
<1>3. ~Clear /\ ~StartMaintenance /\ ~FindBare /\ ~FindMissing
  BY <1>1 DEF Clear, StartMaintenance, FindBare, FindMissing
<1>4. ~Walk
  BY <1>1 DEF Walk, WalkSession, WalkRow, WalkAt, SessionWalked, Walked
<1>5. ~LoadRepair /\ ~StoreRepair /\ ~RepairFails /\ ~RepairEnds
  BY <1>1 DEF LoadRepair, StoreRepair, RepairFails, RepairPanics, RepairEnds
<1> QED BY <1>2, <1>3, <1>4, <1>5 DEF Next, Repair

\* What was good stays good: no mishap is taken back and the story is given.
LEMMA StillPlain ==
    ASSUME TInv, TInv', [Next]_vars
    PROVE  UNCHANGED story /\ (mishaps' = 0 => mishaps = 0)
<1> USE DEF outside, rowVars, shownVars
<1>0. mishaps \in Nat /\ mishaps' \in Nat
  BY MishapsAssumption DEF TInv, SetsOK
<1>1. CASE View
  <2>1. ViewerKeeps
    BY <1>1 DEF View, Poll, ReadTotal, ReadRows, ReadBadges, ReadTurn, TurnNotFound,
                ReadOperations, ReadTouches
  <2> QED BY <2>1 DEF ViewerKeeps
<1>2. CASE UNCHANGED vars \/ \E s \in Sessions : Write(s) \/ LinkSession(s) \/ Correlate(s)
  BY <1>2 DEF vars, Write, LinkSession, Correlate
<1>3. CASE Ingest \/ InsertFails
  <2>1. UNCHANGED story
    BY <1>3 DEF Ingest, InsertFails, OpenFile, InsertRow, AddFacts, SetParent, CommitOffset,
                LoadProjection, Panic, StoreProjection, StoreRefused, IngesterKeeps
  <2>2. UNCHANGED mishaps \/ mishaps' = mishaps + 1
    BY <1>3 DEF Ingest, InsertFails, OpenFile, InsertRow, AddFacts, SetParent, CommitOffset,
                LoadProjection, Panic, StoreProjection, StoreRefused, Mishap
  <2> QED BY <1>0, <2>1, <2>2
<1>4. CASE ListSessions \/ HangUp \/ Crash
  BY <1>0, <1>4 DEF ListSessions, HangUp, Crash, Mishap, RepairKeeps
<1>5. CASE Repair
  <2>1. CASE Walk
    BY <2>1 DEF Walk, WalkSession, WalkRow, SessionWalked, Walked, RepairKeeps
  <2>2. CASE Clear \/ StartMaintenance \/ FindBare \/ FindMissing
    BY <2>2 DEF Clear, StartMaintenance, FindBare, FindMissing, RepairKeeps
  <2>3. CASE LoadRepair \/ StoreRepair \/ RepairFails \/ RepairEnds \/ StartIngester
    BY <2>3 DEF LoadRepair, StoreRepair, RepairFails, RepairEnds, StartIngester, RepairKeeps
  <2> QED BY <1>5, <2>1, <2>2, <2>3 DEF Repair
<1> QED BY <1>1, <1>2, <1>3, <1>4, <1>5 DEF Next

LEMMA CalmNext ==
    ASSUME TInv, TInv', RowsBear, Plain, CInv, mishaps' = 0, [Next]_vars
    PROVE  CInv'
<1>1. CASE View \/ UNCHANGED vars \/ \E s \in Sessions : Write(s) \/ LinkSession(s) \/ Correlate(s)
  BY <1>1, CalmOutside
<1>2. CASE StartIngester
  BY <1>2, CalmStart
<1>3. CASE Ingest
  <2>1. ASSUME NEW s \in Sessions, OpenFile(s) PROVE CInv'
    BY <2>1, CalmOpen
  <2>2. CASE InsertRow \/ CommitOffset
    <3>1. task.session \in Sessions
      BY <2>2 DEF InsertRow, CommitOffset, TInv, TaskOK
    <3>2. \E s \in Sessions : \E n : s = task.session /\ n = task.cursor
      BY <3>1
    <3> QED BY <2>2, <3>2, CalmInsert, CalmCommit
  <2>3. CASE AddFacts \/ SetParent
    BY <2>3, CalmFacts
  <2>4. CASE LoadProjection
    BY <2>4, CalmLoad
  <2>5. CASE Panic
    BY <2>5, CalmPanic
  <2>6. CASE StoreProjection
    BY <2>6, CalmStore
  <2>7. CASE StoreRefused
    BY <2>7, StillPlain, CalmRefused
  <2> QED BY <1>3, <2>1, <2>2, <2>3, <2>4, <2>5, <2>6, <2>7 DEF Ingest
<1> QED BY <1>1, <1>2, <1>3, NothingToRepair

-----------------------------------------------------------------------------
(* The stored turns as TurnGrouping tells them.                            *)

LEMMA StartsAre ==
    ASSUME NEW E, NEW w \in Seq(E)
    PROVE  {Starts(w)[k] : k \in 1..Len(Starts(w))} = {i \in 1..Len(w) : i = 1 \/ IsPrompt(w[i])}
<1> DEFINE In(u) == {Starts(u)[k] : k \in 1..Len(Starts(u))}
           Is(u) == {i \in 1..Len(u) : i = 1 \/ IsPrompt(u[i])}
           G == {u \in Seq(E) : In(u) = Is(u)}
<1>1. <<>> \in G
  <2> DEFINE q == <<>>
  <2>1. q \in Seq(E) /\ Len(q) = 0
    BY EmptySeq
  <2> HIDE DEF q
  <2>2. Starts(q) \in Seq(1..0) /\ Len(Starts(q)) \in Nat
    BY <2>1, StartsType, LenProperties
  <2>3. ASSUME NEW k \in 1..Len(Starts(q)) PROVE FALSE
    <3>1. Starts(q)[k] \in 1..0
      BY <2>2, ElementOfSeq
    <3> QED BY <3>1
  <2>4. In(q) = {} /\ Is(q) = {}
    BY <2>1, <2>3
  <2>5. q \in G
    BY <2>1, <2>4
  <2> QED BY <2>5 DEF q
<1>2. ASSUME NEW u \in Seq(E), NEW e \in E, u \in G PROVE Append(u, e) \in G
  <2> DEFINE n == Len(u)
             t == Append(u, e)
             st == Starts(u)
             m == Len(st)
  <2>1. /\ n \in Nat /\ t \in Seq(E) /\ Len(t) = n + 1 /\ t[n + 1] = e /\ \A i \in 1..n : t[i] = u[i]
        /\ (n = 0 <=> u = <<>>)
    BY AppendProperties, LenProperties, EmptySeq
  <2>2. st \in Seq(Nat) /\ m \in Nat
    <3>1. st \in Seq(1..n) /\ 1..n \subseteq Nat
      BY StartsType
    <3> QED BY <3>1, SeqMonotonic, LenProperties
  <2>3. In(u) = Is(u)
    BY <1>2
  <2>4. Starts(t) = IF Opens(u, e) THEN Append(st, n + 1) ELSE st
    BY StartsAppend
  <2>5. Is(t) = Is(u) \cup (IF Opens(u, e) THEN {n + 1} ELSE {})
    <3>1. n + 1 = 1 <=> u = <<>>
      BY <2>1
    <3>2. 1..(n + 1) = 1..n \cup {n + 1} /\ n + 1 \notin 1..n
      BY <2>1
    <3>3. \A i \in 1..n : i \in Is(t) <=> i \in Is(u)
      BY <2>1, <3>2
    <3>4. n + 1 \in Is(t) <=> Opens(u, e)
      BY <2>1, <3>1, <3>2 DEF Opens
    <3>5. Is(t) \subseteq 1..(n + 1) /\ Is(u) \subseteq 1..n
      BY <2>1
    <3> HIDE DEF Is, t, n
    <3> QED BY <3>2, <3>3, <3>4, <3>5
  <2>6. In(t) = In(u) \cup (IF Opens(u, e) THEN {n + 1} ELSE {})
    <3>1. CASE Opens(u, e)
      <4> DEFINE a == Append(st, n + 1)
      <4>1. Len(a) = m + 1 /\ a[m + 1] = n + 1 /\ \A k \in 1..m : a[k] = st[k]
        BY <2>1, <2>2, AppendProperties
      <4>2. 1..(m + 1) = 1..m \cup {m + 1}
        BY <2>2
      <4>3. Starts(t) = a
        BY <2>4, <3>1
      <4> HIDE DEF a, t, n, st
      <4>4. {a[k] : k \in 1..(m + 1)} = {st[k] : k \in 1..m} \cup {n + 1}
        BY <4>1, <4>2
      <4> HIDE DEF m
      <4> QED BY <3>1, <4>1, <4>3, <4>4 DEF st, m
    <3>2. CASE ~Opens(u, e)
      BY <2>4, <3>2
    <3> QED BY <3>1, <3>2
  <2> HIDE DEF In, Is, t
  <2>7. In(t) = Is(t)
    BY <2>3, <2>5, <2>6
  <2> QED BY <2>1, <2>7 DEF t
<1> HIDE DEF G
<1>3. w \in G
  BY <1>1, <1>2, SequencesIn
<1> QED BY <1>3 DEF G

\* As many values as there are indices.
LEMMA CountedOnce ==
    ASSUME NEW f, NEW a \in Int, NEW b \in Int, \A i, j \in a..b : f[i] = f[j] => i = j
    PROVE  Cardinality({f[i] : i \in a..b}) = IF a > b THEN 0 ELSE b - a + 1
<1> DEFINE I == a..b
           T == {f[i] : i \in I}
           g == [i \in I |-> f[i]]
<1>1. g \in Bijection(I, T)
  BY DEF Bijection, Injection, Surjection, IsInjective
<1>2. ExistsBijection(I, T)
  BY <1>1 DEF ExistsBijection
<1>3. IsFiniteSet(I) /\ Cardinality(I) = IF a > b THEN 0 ELSE b - a + 1
  BY FS_Interval
<1> HIDE DEF I, T, g
<1>4. Cardinality(T) = Cardinality(I)
  BY <1>2, <1>3, FS_Bijection
<1> QED BY <1>3, <1>4 DEF T, I

\* K tells where the prompts are among the events w.
Locates(K, w) ==
    /\ DOMAIN K = {w[i].offset : i \in 1..Len(w)}
    /\ \A i \in 1..Len(w) : K[w[i].offset] \in {TRUE} <=> IsPrompt(w[i])

LEMMA CountedSame ==
    ASSUME NEW S
    PROVE  Grouping!Cardinality(S) = Cardinality(S)
<1> QED BY DEF Grouping!Cardinality, Cardinality

\* Where turns start, and which events are theirs.
LEMMA OffsetsOrdered ==
    ASSUME NEW E, NEW w \in Seq(E), EventsRise(w), NEW i \in 1..Len(w), NEW j \in 1..Len(w)
    PROVE  /\ w[i].offset \in Nat
           /\ w[i].offset < w[j].offset <=> i < j
           /\ w[i].offset <= w[j].offset <=> i <= j
           /\ w[i].offset = w[j].offset <=> i = j
<1>1. Len(w) \in Nat /\ i \in Nat /\ j \in Nat
  BY LenProperties
<1>2. w[i].offset \in Nat /\ w[j].offset \in Nat
  BY DEF EventsRise
<1>3. (i < j => w[i].offset < w[j].offset) /\ (j < i => w[j].offset < w[i].offset)
  BY DEF EventsRise
<1> QED BY <1>1, <1>2, <1>3

LEMMA StartsTold ==
    ASSUME NEW E, NEW w \in Seq(E), EventsRise(w), NEW K, Locates(K, w)
    PROVE  Grouping!TurnStarts(K) = {w[Starts(w)[k]].offset : k \in 1..Len(Starts(w))}
<1> DEFINE n == Len(w)
           st == Starts(w)
           m == Len(st)
           opening == {i \in 1..n : i = 1 \/ IsPrompt(w[i])}
<1>1. n \in Nat /\ opening = {st[k] : k \in 1..m}
  BY LenProperties, StartsAre
<1>2. ASSUME NEW i \in 1..n PROVE (\A q \in DOMAIN K : w[i].offset <= q) <=> i = 1
  <2>1. 1 \in 1..n
    BY <1>1
  <2>2. \A j \in 1..n : w[i].offset <= w[j].offset <=> i <= j
    BY OffsetsOrdered
  <2>3. (\A q \in DOMAIN K : w[i].offset <= q) <=> \A j \in 1..n : i <= j
    BY <2>2 DEF Locates
  <2>4. (\A j \in 1..n : i <= j) <=> i = 1
    BY <1>1, <2>1
  <2> QED BY <2>3, <2>4
<1>3. ASSUME NEW i \in 1..n PROVE Grouping!StartsTurn(K, w[i].offset) <=> i \in opening
  BY <1>2, <1>3 DEF Grouping!StartsTurn, Locates
<1>4. Grouping!TurnStarts(K) = {w[i].offset : i \in opening}
  <2> HIDE DEF n
  <2>1. Grouping!TurnStarts(K) = {o \in DOMAIN K : Grouping!StartsTurn(K, o)}
    BY DEF Grouping!TurnStarts
  <2>2. DOMAIN K = {w[i].offset : i \in 1..n}
    BY DEF Locates, n
  <2>3. opening \subseteq 1..n
    OBVIOUS
  <2> HIDE DEF opening
  <2> QED BY <1>3, <2>1, <2>2, <2>3
<1> HIDE DEF opening, st, m
<1> QED BY <1>1, <1>4 DEF st, m

LEMMA OrdTold ==
    ASSUME NEW E, NEW w \in Seq(E), EventsRise(w), NEW K, Locates(K, w), NEW k \in 1..Len(Starts(w))
    PROVE  Grouping!TurnOrd(K, w[Starts(w)[k]].offset) = k - 1
<1> DEFINE st == Starts(w)
           m == Len(st)
           f == [l \in 1..m |-> w[st[l]].offset]
           c == k - 1
<1>1. /\ m \in Nat /\ Len(Seeds(w)) = m
      /\ \A l \in 1..m : st[l] \in 1..Len(w)
  BY SeedAt
<1>2. \A l, j \in 1..m : l < j => st[l] < st[j]
  BY <1>1, SeedFirsts
<1>3. ASSUME NEW l \in 1..m, NEW j \in 1..m
      PROVE  (f[l] < f[j] <=> l < j) /\ (f[l] = f[j] => l = j)
  <2>1. st[l] \in 1..Len(w) /\ st[j] \in 1..Len(w) /\ l \in Nat /\ j \in Nat /\ Len(w) \in Nat
    BY <1>1, LenProperties
  <2>2. (f[l] < f[j] <=> st[l] < st[j]) /\ (f[l] = f[j] <=> st[l] = st[j])
    <3> HIDE DEF st
    <3> QED BY <2>1, OffsetsOrdered
  <2>3. (l < j => st[l] < st[j]) /\ (j < l => st[j] < st[l])
    BY <1>2
  <2> HIDE DEF st, f, m
  <2> QED BY <2>1, <2>2, <2>3
<1>4. k \in 1..m /\ Grouping!TurnStarts(K) = {f[l] : l \in 1..m}
  BY StartsTold
<1>5. w[Starts(w)[k]].offset = f[k]
  OBVIOUS
<1> HIDE DEF f, st, m
<1>6. c \in Int /\ 1..c \subseteq 1..m /\ \A l \in 1..m : l < k <=> l \in 1..c
  BY <1>1, <1>4
<1>7. {u \in Grouping!TurnStarts(K) : u < f[k]} = {f[l] : l \in 1..c}
  <2> HIDE DEF c
  <2> QED BY <1>3, <1>4, <1>6
<1>8. Cardinality({f[l] : l \in 1..c}) = IF 1 > c THEN 0 ELSE c - 1 + 1
  <2>1. \A i, j \in 1..c : f[i] = f[j] => i = j
    BY <1>3, <1>6
  <2> DEFINE one == 1
  <2>2. one \in Int /\ c \in Int /\ \A i, j \in one..c : f[i] = f[j] => i = j
    BY <1>6, <2>1
  <2> HIDE DEF c, one
  <2>3. Cardinality({f[l] : l \in one..c}) = IF one > c THEN 0 ELSE c - one + 1
    BY <2>2, CountedOnce
  <2> QED BY <2>3 DEF one
<1>9. (IF 1 > c THEN 0 ELSE c - 1 + 1) = k - 1
  BY <1>1, <1>4
<1>10. Grouping!TurnOrd(K, f[k]) = Cardinality({u \in Grouping!TurnStarts(K) : u < f[k]})
  BY CountedSame DEF Grouping!TurnOrd
<1> HIDE DEF c
<1> QED BY <1>5, <1>7, <1>8, <1>9, <1>10

LEMMA EventsTold ==
    ASSUME NEW E, NEW w \in Seq(E), EventsRise(w), NEW K, Locates(K, w), NEW k \in 1..Len(Starts(w))
    PROVE  Cardinality(Grouping!TurnEvents(K, w[Starts(w)[k]].offset)) = Len(Seeds(w)[k])
<1> DEFINE st == Starts(w)
           m == Len(st)
           n == Len(w)
           f == [i \in 1..n |-> w[i].offset]
           a == st[k]
           b == Until(w, k)
<1>1. /\ m \in Nat /\ n \in Nat /\ k \in 1..m /\ Len(Seeds(w)) = m
      /\ \A l \in 1..m : st[l] \in 1..n
      /\ b \in a..n /\ Len(Seeds(w)[k]) = b - a + 1
  BY SeedAt
<1>2. \A l, j \in 1..m : l < j => st[l] < st[j]
  BY <1>1, SeedFirsts
<1>3. \A i, j \in 1..n : (f[i] <= f[j] <=> i <= j) /\ (f[i] = f[j] => i = j)
  BY OffsetsOrdered
<1>4. Grouping!TurnStarts(K) = {f[st[l]] : l \in 1..m}
  <2>1. Grouping!TurnStarts(K) = {w[st[l]].offset : l \in 1..m}
    BY StartsTold
  <2>2. \A l \in 1..m : f[st[l]] = w[st[l]].offset
    BY <1>1
  <2> HIDE DEF f, st, m
  <2> QED BY <2>1, <2>2
<1>5. DOMAIN K = {f[i] : i \in 1..n} /\ w[Starts(w)[k]].offset = f[a]
  BY <1>1 DEF Locates
<1>6. b = IF k < m THEN st[k + 1] - 1 ELSE n
  BY DEF Until
<1> HIDE DEF f, st, m, n, b
<1>7. ASSUME NEW i \in 1..n
      PROVE  (\A l \in 1..m : st[l] <= i => st[l] <= a) <=> i <= b
  <2>1. \A l \in 1..m : st[l] \in Nat /\ l \in Nat
    BY <1>1
  <2>2. CASE k < m
    <3>1. k + 1 \in 1..m /\ st[k] < st[k + 1] /\ st[k] \in Nat /\ st[k + 1] \in Nat
      BY <1>1, <1>2, <2>1, <2>2
    <3>2. ASSUME \A l \in 1..m : st[l] <= i => st[l] <= a PROVE i <= b
      BY <1>1, <1>6, <2>2, <3>1, <3>2
    <3>3. ASSUME i <= b, NEW l \in 1..m, st[l] <= i PROVE st[l] <= a
      <4>1. st[l] < st[k + 1] /\ st[l] \in Nat
        BY <1>1, <1>6, <2>1, <2>2, <3>1, <3>3
      <4>2. ~(k + 1 < l) /\ l # k + 1
        BY <1>2, <3>1, <4>1
      <4>3. l = k \/ l < k
        BY <1>1, <2>1, <4>2
      <4> QED BY <1>1, <1>2, <2>1, <4>3
    <3> QED BY <3>2, <3>3
  <2>3. CASE ~(k < m)
    <3>1. b = n /\ i <= b
      BY <1>1, <1>6, <2>3
    <3>2. ASSUME NEW l \in 1..m PROVE st[l] <= a
      <4>1. l = k \/ l < k
        BY <1>1, <2>3
      <4> QED BY <1>1, <1>2, <2>1, <4>1
    <3> QED BY <3>1, <3>2
  <2> QED BY <2>2, <2>3
<1>8. Grouping!TurnEvents(K, f[a]) = {f[i] : i \in a..b}
  <2>1. Grouping!TurnEvents(K, f[a])
        = {o \in DOMAIN K : f[a] <= o /\ \A u \in Grouping!TurnStarts(K) : u <= o => u <= f[a]}
    BY DEF Grouping!TurnEvents
  <2>2. a \in 1..n
    BY <1>1
  <2> HIDE DEF a
  <2>3. ASSUME NEW i \in 1..n
        PROVE  /\ f[a] <= f[i] <=> a <= i
               /\ (\A u \in Grouping!TurnStarts(K) : u <= f[i] => u <= f[a]) <=> i <= b
    <3>1. \A l \in 1..m : (f[st[l]] <= f[i] <=> st[l] <= i) /\ (f[st[l]] <= f[a] <=> st[l] <= a)
      BY <1>1, <1>3, <2>2
    <3>2. (\A u \in Grouping!TurnStarts(K) : u <= f[i] => u <= f[a])
          <=> \A l \in 1..m : f[st[l]] <= f[i] => f[st[l]] <= f[a]
      BY <1>4
    <3> QED BY <1>3, <1>7, <2>2, <3>1, <3>2
  <2>4. \A i \in 1..n : i \in a..b <=> a <= i /\ i <= b
    BY <1>1, <2>2
  <2>5. a..b \subseteq 1..n
    BY <1>1, <2>2
  <2> QED BY <1>5, <2>1, <2>3, <2>4, <2>5
<1>9. Cardinality({f[i] : i \in a..b}) = IF a > b THEN 0 ELSE b - a + 1
  <2>1. a \in 1..n /\ b \in 1..n /\ a \in Int /\ b \in Int /\ a..b \subseteq 1..n
    BY <1>1
  <2> HIDE DEF a
  <2>2. \A i, j \in a..b : f[i] = f[j] => i = j
    BY <1>3, <2>1
  <2> QED BY <2>1, <2>2, CountedOnce
<1>10. ~(a > b)
  BY <1>1
<1> HIDE DEF a
<1> QED BY <1>1, <1>5, <1>8, <1>9, <1>10

GroupedRows(seeds) ==
    {[id |-> FirstOf(seeds[k]), ord |-> k - 1, events |-> Len(seeds[k])] : k \in 1..Len(seeds)}

\* The seeds that group_into_turns makes of events one after another are the turns
\* of TurnGrouping, told by their first event, their position and their length.
THEOREM GroupsTold ==
    ASSUME NEW E, NEW w \in Seq(E), EventsRise(w), NEW K, Locates(K, w)
    PROVE  {[id |-> t.id, ord |-> t.ord, events |-> Cardinality(t.events)]
               : t \in Grouping!GroupIntoTurns(K)} = GroupedRows(Seeds(w))
<1> DEFINE st == Starts(w)
           m == Len(st)
           S == Seeds(w)
           h == [k \in 1..m |-> w[st[k]].offset]
           row(t) == [id |-> t.id, ord |-> t.ord, events |-> Cardinality(t.events)]
           mine(k) == [id |-> FirstOf(S[k]), ord |-> k - 1, events |-> Len(S[k])]
<1>1. Len(S) = m /\ \A k \in 1..m : FirstOf(S[k]) = h[k]
  BY SeedAt, SeedFirsts DEF FirstOf
<1>2. Grouping!TurnStarts(K) = {h[k] : k \in 1..m}
  <2>1. Grouping!TurnStarts(K) = {w[st[k]].offset : k \in 1..m}
    BY StartsTold
  <2>2. \A k \in 1..m : h[k] = w[st[k]].offset
    OBVIOUS
  <2> HIDE DEF h, st, m
  <2> QED BY <2>1, <2>2
<1>3. \A k \in 1..m : /\ Grouping!TurnOrd(K, h[k]) = k - 1
                      /\ Cardinality(Grouping!TurnEvents(K, h[k])) = Len(S[k])
  BY OrdTold, EventsTold
<1>4. Grouping!GroupIntoTurns(K) = {Grouping!Turn(K, h[k]) : k \in 1..m}
  <2> HIDE DEF h, m
  <2>1. Grouping!GroupIntoTurns(K) = {Grouping!Turn(K, t) : t \in Grouping!TurnStarts(K)}
    BY DEF Grouping!GroupIntoTurns
  <2> QED BY <1>2, <2>1
<1> HIDE DEF h, st, m, S
<1>5. ASSUME NEW k \in 1..m PROVE row(Grouping!Turn(K, h[k])) = mine(k)
  <2>1. Grouping!Turn(K, h[k])
        = [id |-> h[k], ord |-> Grouping!TurnOrd(K, h[k]), events |-> Grouping!TurnEvents(K, h[k])]
    BY DEF Grouping!Turn
  <2> QED BY <1>1, <1>3, <2>1
<1> HIDE DEF row, mine
<1>6. {row(t) : t \in Grouping!GroupIntoTurns(K)} = {mine(k) : k \in 1..m}
  BY <1>4, <1>5
<1> QED BY <1>1, <1>6 DEF row, mine, GroupedRows, S

LEMMA MadeRows ==
    ASSUME NEW T, NEW s, NEW seeds, Made(T, s, seeds)
    PROVE  {[id |-> id, ord |-> T[id].ord, events |-> T[id].turn.events] : id \in DOMAIN T}
           = GroupedRows(seeds)
<1> DEFINE m == Len(seeds)
           row(id) == [id |-> id, ord |-> T[id].ord, events |-> T[id].turn.events]
           mine(k) == [id |-> FirstOf(seeds[k]), ord |-> k - 1, events |-> Len(seeds[k])]
<1>1. DOMAIN T = {FirstOf(seeds[k]) : k \in 1..m}
  BY DEF Made, Firsts
<1>2. ASSUME NEW k \in 1..m PROVE row(FirstOf(seeds[k])) = mine(k)
  <2> DEFINE t == T[FirstOf(seeds[k])]
             ord == k - 1
  <2>1. Lasting(s, t) = LastingOf(s, seeds[k], ord)
    BY DEF Made, HoldsTurns
  <2> HIDE DEF t, ord
  <2>2. t.ord = ord /\ t.turn.events = Len(seeds[k])
    BY <2>1, LastingTells
  <2> QED BY <2>2 DEF t, ord
<1> HIDE DEF row, mine
<1>3. {row(id) : id \in DOMAIN T} = {mine(k) : k \in 1..m}
  BY <1>1, <1>2
<1> QED BY <1>3 DEF row, mine, GroupedRows

\* Turns that are made of the same seeds last the same.
LEMMA MadeSame ==
    ASSUME NEW T, NEW U, NEW s, NEW seeds, Made(T, s, seeds), Made(U, s, seeds)
    PROVE  LastingTurns(s, T) = LastingTurns(s, U)
<1>1. DOMAIN T = DOMAIN U /\ DOMAIN T = {FirstOf(seeds[k]) : k \in 1..Len(seeds)}
  BY DEF Made, Firsts
<1>2. \A k \in 1..Len(seeds) : Lasting(s, T[FirstOf(seeds[k])]) = Lasting(s, U[FirstOf(seeds[k])])
  BY DEF Made, HoldsTurns
<1>3. \A id \in DOMAIN T : Lasting(s, T[id]) = Lasting(s, U[id])
  BY <1>1, <1>2
<1> QED BY <1>1, <1>3 DEF LastingTurns

LEMMA StoredIs ==
    ASSUME TInv, RowsBear, CInv, NEW s \in Sessions, task.pc = "idle", NEW n, n = offset[s],
           InOrder(s), s \in known, ~ProjectionPanics(SourceEvents(s))
    PROVE  Simple(s, n) /\ MadeTo(s, n)
<1>1. ~Reading(s) /\ ~Rebuilding(s)
  BY DEF Reading, Rebuilding
<1>2. Simple(s, n)
  BY <1>1, SimpleNow
<1>3. Good(s, n)
  BY <1>2, SourceIs DEF Good
<1> QED BY <1>1, <1>2, <1>3 DEF CInv, TurnsSoFar

LEMMA CurrentNow ==
    ASSUME TInv, RowsBear, CInv, NEW s \in Sessions, task.pc = "idle", InOrder(s),
           ~ProjectionPanics(SourceEvents(s))
    PROVE  IsStored(s, FullPlan(s))
<1> DEFINE plan == FullPlan(s)
<1> SUFFICES ASSUME CanCommit(plan)
             PROVE  LastingTurns(s, turns[s])
                    = LastingTurns(s, [id \in PlanIds(plan) |->
                          plan.turns[CHOOSE k \in DOMAIN plan.turns : plan.turns[k].turn.id = id]])
  BY Zenon DEF IsStored
<1>1. PICK n : n = offset[s]
  OBVIOUS
<1>2. s \in known
  BY DEF CanCommit, FullPlan, Plan
<1>3. Simple(s, n) /\ MadeTo(s, n)
  BY <1>1, <1>2, StoredIs
<1>4. plan.from = Nil /\ Right(plan, s, n)
  BY <1>3, FullIsRight
<1> HIDE DEF plan
<1>5. Kept(plan) = {}
  BY <1>4 DEF Kept
<1>6. TurnsAfter(plan) = [id \in PlanIds(plan) |->
          plan.turns[CHOOSE k \in DOMAIN plan.turns : plan.turns[k].turn.id = id]]
  BY <1>5 DEF TurnsAfter
<1>7. LastingTurns(s, turns[s]) = LastingTurns(s, TurnsAfter(plan))
  BY <1>3, <1>4, MadeSame DEF MadeTo, Right
<1> QED BY <1>6, <1>7

LEMMA GroupsNow ==
    ASSUME TInv, RowsBear, CInv, NEW s \in Sessions, task.pc = "idle", InOrder(s),
           DOMAIN rows[s] # {}, ~ProjectionPanics(SourceEvents(s))
    PROVE  {[id |-> id, ord |-> turns[s][id].ord, events |-> turns[s][id].turn.events]
                : id \in DOMAIN turns[s]}
            = {[id |-> t.id, ord |-> t.ord, events |-> Cardinality(t.events)]
                : t \in Grouping!GroupIntoTurns(Kinds(s))}
<1>1. PICK n : n = offset[s]
  OBVIOUS
<1>2. s \in known
  BY DEF CInv, Registered
<1>3. Simple(s, n) /\ MadeTo(s, n)
  BY <1>1, <1>2, StoredIs
<1> DEFINE w == EventsUpTo(s, n)
           E == AllEvents
<1>4. w \in Seq(E) /\ Len(w) = n /\ EventsRise(w)
  BY <1>3, EventsAre DEF Simple
<1>5. \A i \in 1..n : w[i] = StoredEvent(At(s, i), rows[s][At(s, i)])
  BY DEF EventsUpTo, EventAt
<1>6. \A i \in 1..n : w[i].offset = At(s, i)
  <2> SUFFICES ASSUME NEW i \in 1..n PROVE w[i].offset = At(s, i)
    OBVIOUS
  <2> DEFINE row == rows[s][At(s, i)]
             g == [offset |-> At(s, i), ts |-> row.ts, kind |-> StoredKind(row.payload)]
             f == IF IsBare(row)
                  THEN [NoEvent EXCEPT !.agent = row.payload.agent, !.speaker = Nil, !.content = Nil]
                  ELSE row.event
  <2>1. w[i] = Joined(f, g)
    BY <1>5 DEF StoredEvent
  <2>2. "offset" \in DOMAIN g /\ g.offset = At(s, i)
    OBVIOUS
  <2> HIDE DEF f, g, w
  <2>3. Joined(f, g).offset = g.offset
    BY <2>2 DEF Joined
  <2> QED BY <2>1, <2>2, <2>3
<1>7. DOMAIN rows[s] = {At(s, i) : i \in 1..n}
  BY <1>3 DEF Simple, StoredTo
<1> HIDE DEF w, E
<1>8. Locates(Kinds(s), w)
  <2>1. DOMAIN Kinds(s) = {w[i].offset : i \in 1..Len(w)}
    BY <1>4, <1>6, <1>7 DEF Kinds
  <2>2. ASSUME NEW i \in 1..Len(w) PROVE Kinds(s)[w[i].offset] \in {TRUE} <=> IsPrompt(w[i])
    <3>1. At(s, i) \in DOMAIN rows[s] /\ w[i].offset = At(s, i)
      BY <1>4, <1>6, <1>7
    <3>2. Kinds(s)[At(s, i)] = IsPrompt(w[i])
      BY <1>4, <1>5, <3>1 DEF Kinds
    <3>3. IsPrompt(w[i]) \in BOOLEAN
      BY DEF IsPrompt
    <3> QED BY <3>1, <3>2, <3>3
  <2> QED BY <2>1, <2>2 DEF Locates
<1>9. {[id |-> t.id, ord |-> t.ord, events |-> Cardinality(t.events)]
          : t \in Grouping!GroupIntoTurns(Kinds(s))} = GroupedRows(Seeds(w))
  BY <1>4, <1>8, GroupsTold
<1>10. {[id |-> id, ord |-> turns[s][id].ord, events |-> turns[s][id].turn.events]
           : id \in DOMAIN turns[s]} = GroupedRows(Seeds(w))
  BY <1>3, MadeRows DEF MadeTo, w
<1> QED BY <1>9, <1>10

-----------------------------------------------------------------------------
(* Between passes.                                                         *)

\* The rows of a session are a function: they are told apart by what is stored.
Tabled == \A s \in Sessions : rows[s] = [o \in DOMAIN rows[s] |-> rows[s][o]]

LEMMA TabledNext ==
    ASSUME TInv, Tabled, [Next]_vars
    PROVE  Tabled'
<1> USE DEF outside, rowVars, shownVars
<1>0. DOMAIN rows = Sessions
  BY DEF TInv, RowsOK
<1>1. CASE UNCHANGED rows
  BY <1>1 DEF Tabled
<1>2. CASE InsertRow
  <2> DEFINE s == task.session
             row == [payload |-> Record, ts |-> IF Record.ts = 0 THEN Now ELSE Record.ts,
                     event |-> ParseEvent(Record, Offset, s, task.ctx)]
             stored == [o \in DOMAIN rows[s] \cup {Offset} |-> IF o = Offset THEN row ELSE rows[s][o]]
  <2>1. UNCHANGED rows \/ rows' = [rows EXCEPT ![s] = stored]
    BY <1>2 DEF InsertRow
  <2>2. stored = [o \in DOMAIN stored |-> stored[o]]
    <3> HIDE DEF row
    <3> QED OBVIOUS
  <2> HIDE DEF stored
  <2> QED BY <1>0, <1>1, <2>1, <2>2 DEF Tabled
<1>3. CASE Clear
  BY <1>3 DEF Clear, Tabled
<1>4. ASSUME repair.session # Nil, NEW o \in DOMAIN rows[repair.session], WalkRow(o) PROVE Tabled'
  <2> DEFINE s == repair.session
             row == RewrittenRow(rows[s][o], o)
             stored == [rows[s] EXCEPT ![o] = row]
  <2>1. rows' = [rows EXCEPT ![s] = stored]
    BY <1>4 DEF WalkRow
  <2>2. stored = [q \in DOMAIN stored |-> stored[q]]
    <3> HIDE DEF row
    <3> QED OBVIOUS
  <2> HIDE DEF stored
  <2> QED BY <1>0, <2>1, <2>2 DEF Tabled
<1>5. CASE View
  <2>1. ViewerKeeps
    BY <1>5 DEF View, Poll, ReadTotal, ReadRows, ReadBadges, ReadTurn, TurnNotFound,
                ReadOperations, ReadTouches
  <2> QED BY <1>1, <2>1 DEF ViewerKeeps
<1>6. CASE UNCHANGED vars \/ \E s \in Sessions : Write(s) \/ LinkSession(s) \/ Correlate(s)
  BY <1>1, <1>6 DEF vars, Write, LinkSession, Correlate
<1>7. CASE InsertFails \/ (Ingest /\ ~InsertRow)
  BY <1>1, <1>7 DEF Ingest, InsertFails, OpenFile, AddFacts, SetParent, CommitOffset,
                LoadProjection, Panic, StoreProjection, StoreRefused
<1>8. CASE ListSessions \/ HangUp \/ Crash
  BY <1>1, <1>8 DEF ListSessions, HangUp, Crash, RepairKeeps
<1>9. CASE Repair
  <2>1. CASE Walk
    BY <1>1, <1>4, <2>1 DEF Walk, WalkSession, SessionWalked, Walked
  <2>2. CASE StartMaintenance \/ FindBare \/ FindMissing
    BY <1>1, <2>2 DEF StartMaintenance, FindBare, FindMissing
  <2>3. CASE LoadRepair \/ StoreRepair \/ RepairFails \/ RepairEnds \/ StartIngester
    BY <1>1, <2>3 DEF LoadRepair, StoreRepair, RepairFails, RepairEnds, StartIngester
  <2> QED BY <1>3, <1>9, <2>1, <2>2, <2>3 DEF Repair
<1> QED BY <1>2, <1>5, <1>6, <1>7, <1>8, <1>9 DEF Next

LEMMA NoRows ==
    ASSUME Tabled, NEW s \in Sessions, DOMAIN rows[s] = {}
    PROVE  rows[s] = <<>>
<1> DEFINE r == rows[s]
<1>1. r \in [1..0 -> {}]
  <2>1. r = [o \in DOMAIN r |-> r[o]]
    BY DEF Tabled
  <2>2. 1..0 = {} /\ DOMAIN r = {}
    OBVIOUS
  <2> HIDE DEF r
  <2> QED BY <2>1, <2>2
<1> HIDE DEF r
<1>2. r \in Seq({}) /\ Len(r) = 0
  BY <1>1, SeqDef, LenProperties
<1>3. r = <<>>
  BY <1>2, EmptySeq
<1> QED BY <1>3 DEF r

LEMMA PlainTurns ==
    ASSUME TInv, Tabled, RInv, Plain, mishaps = 0 => CInv
    PROVE  TurnsAreCurrent
<1>1. RowsBear
  BY DEF RInv
<1>2. ASSUME NEW s \in Sessions, Quiet(s), Calm PROVE CInv /\ task.pc = "idle" /\ DOMAIN rows[s] # {}
  <2>1. task.pc = "idle" /\ DOMAIN rows[s] # {}
    BY <1>2, NoRows DEF Quiet
  <2>2. CASE mishaps = 0
    BY <2>1, <2>2
  <2>3. CASE \A q \in Sessions : story.legacy[q] = Len(story.records[q])
    <3>1. Len(story.records[s]) = 0
      BY <2>3 DEF Plain
    <3>2. written[s] \in Nat /\ written[s] <= 0 /\ DOMAIN rows[s] \subseteq {At(s, i) : i \in 1..written[s]}
      BY <3>1 DEF TInv, LogOK, RowsOK
    <3>3. 1..written[s] = {}
      BY <3>2
    <3> QED BY <2>1, <3>2, <3>3
  <2> QED BY <1>2, <2>2, <2>3 DEF Calm
<1>3. CurrentWhenQuiet
  BY <1>1, <1>2, CurrentNow DEF CurrentWhenQuiet
<1>4. TurnsAreGroups
  BY <1>1, <1>2, GroupsNow DEF TurnsAreGroups
<1> QED BY <1>3, <1>4 DEF TurnsAreCurrent

\* Between passes the turns of a session are what a full rebuild makes of its
\* events, cut at its prompts, although passes only rebuild a suffix: for any
\* stories in which nothing was stored before and no session continues another.
THEOREM TurnsStayCurrent == Spec => [](Plain => TurnsAreCurrent)
<1> DEFINE WhileCalm == Plain /\ mishaps = 0 => CInv
<1>1. Init => WhileCalm /\ Tabled /\ RInv /\ LInv
  <2> SUFFICES ASSUME Init PROVE WhileCalm /\ Tabled /\ RInv /\ LInv
    OBVIOUS
  <2>1. Tabled
    BY DEF Init, Tabled
  <2> QED BY <2>1, CalmInit, RenderedInit, SettledInit
<1>2. TInv /\ TInv' /\ RInv /\ LInv /\ WhileCalm /\ Tabled /\ [Next]_vars => WhileCalm' /\ Tabled' /\ RInv' /\ LInv'
  <2> SUFFICES ASSUME TInv, TInv', RInv, LInv, WhileCalm, Tabled, [Next]_vars
               PROVE  WhileCalm' /\ Tabled' /\ RInv' /\ LInv'
    OBVIOUS
  <2>1. Tabled' /\ RInv' /\ LInv'
    BY TabledNext, RenderedNext, SettledNext
  <2>2. ASSUME Plain', mishaps' = 0 PROVE CInv'
    <3>1. mishaps = 0 /\ UNCHANGED story
      BY <2>2, StillPlain
    <3>2. Plain
      BY <2>2, <3>1 DEF Plain
    <3>3. RowsBear
      BY DEF RInv
    <3> QED BY <2>2, <3>1, <3>2, <3>3, CalmNext
  <2> QED BY <2>1, <2>2
<1>3. TInv /\ Tabled /\ RInv /\ WhileCalm => (Plain => TurnsAreCurrent)
  BY PlainTurns
<1> HIDE DEF WhileCalm
<1> QED BY <1>1, <1>2, <1>3, TypesHold, PTL DEF Spec
=============================================================================
