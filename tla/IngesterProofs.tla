--------------------------- MODULE IngesterProofs ---------------------------
(***************************************************************************)
(* The ingester keeps its promises for every set of sessions, every byte   *)
(* alphabet, every write pattern and every number of crashes and failing   *)
(* statements, as long as files are only appended to; the last section is  *)
(* about files that are truncated or written anew as well.                 *)
(***************************************************************************)
EXTENDS IngesterProperties, TurnGroupingProofs

USE DEF fileVars, eventVars, viewVars

\* f is an earlier content of a file that was only appended to since.
IsPrefixOf(f, g) == Len(f) <= Len(g) /\ \A i \in 1..Len(f) : g[i] = f[i]

LEMMA PrefixTransitive ==
    ASSUME NEW f \in Seq(Bytes), NEW g \in Seq(Bytes), NEW h \in Seq(Bytes),
           IsPrefixOf(f, g), IsPrefixOf(g, h)
    PROVE  IsPrefixOf(f, h)
<1>1. Len(f) \in Nat /\ Len(g) \in Nat /\ Len(h) \in Nat
  OBVIOUS
<1>2. Len(f) <= Len(g) /\ Len(g) <= Len(h)
  BY DEF IsPrefixOf
<1>3. ASSUME NEW i \in 1..Len(f) PROVE h[i] = f[i]
  <2>1. i \in 1..Len(g)
    BY <1>1, <1>2
  <2>2. QED BY <2>1 DEF IsPrefixOf
<1>4. QED BY <1>1, <1>2, <1>3 DEF IsPrefixOf

(***************************************************************************)
(* Appending keeps line boundaries and the newlines after an offset.       *)
(***************************************************************************)
LEMMA PrefixBoundary ==
    ASSUME NEW f \in Seq(Bytes), NEW g \in Seq(Bytes), IsPrefixOf(f, g), NEW o \in Nat
    PROVE  /\ AtLineBoundary(f, o) => AtLineBoundary(g, o)
           /\ HasNewline(f, o) => HasNewline(g, o)
           /\ o <= Len(f) /\ AtLineBoundary(g, o) => AtLineBoundary(f, o)
<1>1. Len(f) \in Nat /\ Len(g) \in Nat
  OBVIOUS
<1>2. QED BY <1>1 DEF IsPrefixOf, AtLineBoundary, HasNewline

(***************************************************************************)
(* Appending keeps the records; a new one starts no earlier than any line  *)
(* boundary there was, because a boundary is preceded by a newline.        *)
(***************************************************************************)
LEMMA PrefixRecords ==
    ASSUME NEW f \in Seq(Bytes), NEW g \in Seq(Bytes), IsPrefixOf(f, g)
    PROVE  /\ \A o \in RecordOffsets(f) : o \in RecordOffsets(g) /\ g[o + 1] = f[o + 1]
           /\ \A n \in RecordOffsets(g) : \A o \in Nat :
                 AtLineBoundary(f, o) /\ n < o => n \in RecordOffsets(f)
<1>1. Len(f) \in Nat /\ Len(g) \in Nat
  OBVIOUS
<1>2. ASSUME NEW o \in RecordOffsets(f)
      PROVE  o \in RecordOffsets(g) /\ g[o + 1] = f[o + 1]
  <2>1. o \in 0..(Len(f) - 1) /\ AtLineBoundary(f, o) /\ f[o + 1] \in Openers
          /\ HasNewline(f, o)
    BY DEF RecordOffsets
  <2>2. o \in Nat /\ o \in 0..(Len(g) - 1) /\ o + 1 \in 1..Len(f)
    BY <1>1, <2>1 DEF IsPrefixOf
  <2>3. g[o + 1] = f[o + 1]
    BY <2>2 DEF IsPrefixOf
  <2>4. AtLineBoundary(g, o) /\ HasNewline(g, o)
    BY <2>1, <2>2, PrefixBoundary
  <2>5. QED BY <2>1, <2>2, <2>3, <2>4 DEF RecordOffsets
<1>3. ASSUME NEW n \in RecordOffsets(g), NEW o \in Nat, AtLineBoundary(f, o), n < o
      PROVE  n \in RecordOffsets(f)
  <2>1. n \in 0..(Len(g) - 1) /\ AtLineBoundary(g, n) /\ g[n + 1] \in Openers
    BY DEF RecordOffsets
  <2>2. o \in 1..Len(f) /\ f[o] = NL
    BY <1>1, <1>3, <2>1 DEF AtLineBoundary
  <2>3. n \in Nat /\ n \in 0..(Len(f) - 1) /\ n + 1 \in 1..Len(f) /\ n <= Len(f)
    BY <1>1, <1>3, <2>1, <2>2
  <2>4. AtLineBoundary(f, n)
    BY <2>1, <2>3, PrefixBoundary
  <2>5. f[n + 1] = g[n + 1]
    BY <2>3 DEF IsPrefixOf
  <2>6. HasNewline(f, n)
    BY <1>1, <1>3, <2>2, <2>3 DEF HasNewline
  <2>7. QED BY <2>1, <2>3, <2>4, <2>5, <2>6 DEF RecordOffsets
<1>4. QED BY <1>2, <1>3

(***************************************************************************)
(* One line of the file, from the cursor to the newline that ends it: it   *)
(* leads to a boundary, holds at most the record at the cursor, and that   *)
(* one exactly when the byte there opens a record.                         *)
(***************************************************************************)
LEMMA OneLine ==
    ASSUME NEW f \in Seq(Bytes), NEW g \in Seq(Bytes), IsPrefixOf(f, g),
           NEW c \in Nat, AtLineBoundary(f, c), NEW e \in LineEnds(f, c)
    PROVE  /\ e \in Nat /\ c < e /\ c < Len(f) /\ AtLineBoundary(f, e)
           /\ HasNewline(f, c) /\ g[c + 1] = f[c + 1]
           /\ \A o \in RecordOffsets(g) : o < e => o <= c
           /\ c \in RecordOffsets(g) <=> f[c + 1] \in Openers
<1>1. Len(f) \in Nat /\ Len(g) \in Nat
  OBVIOUS
<1>2. e \in (c + 1)..Len(f) /\ f[e] = NL /\ \A i \in (c + 1)..(e - 1) : f[i] # NL
  BY DEF LineEnds
<1>3. e \in Nat /\ c < e /\ c < Len(f) /\ AtLineBoundary(f, e) /\ HasNewline(f, c)
  BY <1>1, <1>2 DEF AtLineBoundary, HasNewline
<1>4. g[c + 1] = f[c + 1]
  BY <1>1, <1>3 DEF IsPrefixOf
<1>5. ASSUME NEW o \in RecordOffsets(g), o < e PROVE o <= c
  <2>1. o \in Nat /\ AtLineBoundary(g, o)
    BY <1>1 DEF RecordOffsets
  <2>2. SUFFICES ASSUME c < o PROVE FALSE
    BY <2>1
  <2>3. g[o] = NL /\ o \in (c + 1)..(e - 1) /\ o \in 1..Len(f)
    BY <1>1, <1>2, <1>5, <2>1, <2>2 DEF AtLineBoundary
  <2>4. g[o] = f[o]
    BY <2>3 DEF IsPrefixOf
  <2>5. QED BY <1>2, <2>3, <2>4
<1>6. c \in RecordOffsets(g) <=> f[c + 1] \in Openers
  <2>1. AtLineBoundary(g, c) /\ HasNewline(g, c)
    BY <1>3, PrefixBoundary
  <2>2. c \in 0..(Len(g) - 1)
    BY <1>1, <1>3 DEF IsPrefixOf
  <2>3. QED BY <1>4, <2>1, <2>2 DEF RecordOffsets
<1>7. QED BY <1>3, <1>4, <1>5, <1>6

(***************************************************************************)
(* The line at the cursor ends after it.                                   *)
(***************************************************************************)
LEMMA LineAdvances ==
    ASSUME TypeOK, NEW e \in LineEnds(view, cursor)
    PROVE  e \in Nat /\ cursor < e /\ cursor \in Nat
<1>1. view \in Seq(Bytes) /\ cursor \in Nat
  BY DEF TypeOK
<1>2. Len(view) \in Nat
  BY <1>1
<1>3. QED BY <1>1, <1>2 DEF LineEnds

(***************************************************************************)
(* What an insert does to the event rows and their times.                  *)
(***************************************************************************)
LEMMA InsertedRow ==
    ASSUME TypeOK, InsertEvent
    PROVE  LET s == cur.session IN
           /\ s \in Sessions
           /\ rows' = [r \in Sessions |-> rows'[r]]
           /\ \A r \in Sessions \ {s} : rows'[r] = rows[r]
           /\ DOMAIN rows'[s] = DOMAIN rows[s] \cup {cursor}
           /\ rows'[s] \in [DOMAIN rows'[s] -> Openers]
           /\ \A o \in DOMAIN rows[s] : rows'[s][o] = rows[s][o]
           /\ cursor \notin DOMAIN rows[s] => rows'[s][cursor] = view[cursor + 1]
           /\ times' = [r \in Sessions |-> times'[r]]
           /\ \A r \in Sessions \ {s} : times'[r] = times[r]
           /\ times'[s] \in [DOMAIN rows'[s] -> Nat]
           /\ \A o \in DOMAIN rows[s] : times'[s][o] = times[s][o]
           /\ cursor \notin DOMAIN rows[s] => times'[s][cursor] = viewed
<1> DEFINE s == cur.session
           new == InsertRow(rows[s], cursor, view[cursor + 1])
           stamped == InsertRow(times[s], cursor, viewed)
<1>1. /\ s \in Sessions /\ rows = [r \in Sessions |-> rows[r]]
      /\ rows[s] \in [DOMAIN rows[s] -> Openers]
      /\ times = [r \in Sessions |-> times[r]]
      /\ times[s] \in [DOMAIN rows[s] -> Nat] /\ viewed \in Nat
  BY DEF TypeOK, DirtyFile
<1>2. /\ rows' = [rows EXCEPT ![s] = new] /\ view[cursor + 1] \in Openers
      /\ times' = [times EXCEPT ![s] = stamped]
  BY DEF InsertEvent, HoldsRecord
<1>3. rows'[s] = new /\ (\A r \in Sessions \ {s} : rows'[r] = rows[r])
        /\ rows' = [r \in Sessions |-> rows'[r]]
  BY <1>1, <1>2
<1>4. times'[s] = stamped /\ (\A r \in Sessions \ {s} : times'[r] = times[r])
        /\ times' = [r \in Sessions |-> times'[r]]
  BY <1>1, <1>2
<1>5. /\ DOMAIN new = DOMAIN rows[s] \cup {cursor}
      /\ new \in [DOMAIN new -> Openers]
      /\ \A o \in DOMAIN rows[s] : new[o] = rows[s][o]
      /\ cursor \notin DOMAIN rows[s] => new[cursor] = view[cursor + 1]
  BY <1>1, <1>2 DEF InsertRow
<1>6. /\ stamped \in [DOMAIN new -> Nat]
      /\ \A o \in DOMAIN rows[s] : stamped[o] = times[s][o]
      /\ cursor \notin DOMAIN rows[s] => stamped[cursor] = viewed
  BY <1>1, <1>5 DEF InsertRow
<1> HIDE DEF new, stamped
<1>7. QED BY <1>1, <1>3, <1>4, <1>5, <1>6

LEMMA TypesStep == ASSUME TypeOK, [Next]_vars PROVE TypeOK'
<1> USE DEF TypeOK
<1>1. \A d \in queue : d \in DirtyFile /\ d.session \in Sessions /\ d.committed \in Nat
  BY DEF DirtyFile
<1>2. cur.session \in Sessions /\ \A s \in Sessions : file[s] \in Seq(Bytes)
  BY DEF DirtyFile
<1>3. ASSUME NEW kind, Mishap(kind) PROVE mishaps' \in 0..MaxMishaps
  BY <1>3, BoundsAssumption DEF Mishap
<1>4. ASSUME NEW s \in Sessions, NEW chunk \in Chunks, AgentWrites(s, chunk) PROVE TypeOK'
  <2>1. file[s] \o chunk \in Seq(Bytes)
    BY <1>2, ChunksAssumption
  <2>2. QED BY <1>4, <2>1 DEF AgentWrites, dbVars, taskVars
<1>5. ASSUME NEW s \in Sessions, NEW content \in Contents, Replace(s, content) PROVE TypeOK'
  <2>1. /\ content \in Seq(Bytes) /\ mishaps' \in 0..MaxMishaps
        /\ version' \in [Sessions -> Nat]
    BY <1>3, <1>5, ChunksAssumption DEF Replace
  <2>2. QED BY <1>5, <2>1 DEF Replace, dbVars, taskVars
<1>6. CASE Scan
  <2>1. \A s \in Sessions : Len(file[s]) \in Nat /\ offset[s] \in Nat
    BY <1>2
  <2>2. queue' \subseteq DirtyFile
    BY <1>6, <2>1 DEF Scan, DirtyFile
  <2>3. QED BY <1>6, <2>2 DEF Scan, dbVars
<1>7. ASSUME NEW d \in queue, OpenFile(d) PROVE TypeOK'
  BY <1>1, <1>2, <1>7 DEF OpenFile
<1>8. ASSUME NEW d \in queue, ResetOffset(d) PROVE TypeOK'
  BY <1>1, <1>8 DEF ResetOffset
<1>9. ASSUME NEW d \in queue, SkipFile(d) PROVE TypeOK'
  BY <1>1, <1>3, <1>9 DEF SkipFile
<1>10. CASE InsertEvent
  <2>1. /\ rows' = [r \in Sessions |-> rows'[r]]
        /\ \A r \in Sessions \ {cur.session} : rows'[r] = rows[r]
        /\ DOMAIN rows'[cur.session] = DOMAIN rows[cur.session] \cup {cursor}
        /\ rows'[cur.session] \in [DOMAIN rows'[cur.session] -> Openers]
        /\ times' = [r \in Sessions |-> times'[r]]
        /\ \A r \in Sessions \ {cur.session} : times'[r] = times[r]
        /\ times'[cur.session] \in [DOMAIN rows'[cur.session] -> Nat]
    BY <1>10, InsertedRow
  <2>2. \A r \in Sessions :
           /\ DOMAIN rows'[r] \subseteq Nat /\ rows'[r] \in [DOMAIN rows'[r] -> Openers]
           /\ times'[r] \in [DOMAIN rows'[r] -> Nat]
    <3>1. ASSUME NEW r \in Sessions \ {cur.session}
          PROVE  /\ DOMAIN rows'[r] \subseteq Nat /\ rows'[r] \in [DOMAIN rows'[r] -> Openers]
                 /\ times'[r] \in [DOMAIN rows'[r] -> Nat]
      BY <2>1
    <3>2. DOMAIN rows'[cur.session] \subseteq Nat
      BY <1>2, <2>1
    <3>3. QED BY <1>2, <2>1, <3>1, <3>2
  <2>3. cursor' \in Nat /\ first' \in Nat \cup {None}
    BY <1>10, LineAdvances DEF InsertEvent
  <2>4. QED BY <1>10, <2>1, <2>2, <2>3 DEF InsertEvent
<1>11. CASE InsertFails
  <2>1. cursor' \in Nat /\ mishaps' \in 0..MaxMishaps
    BY <1>3, <1>11, LineAdvances DEF InsertFails
  <2>2. dropped' \in [Sessions -> SUBSET Nat]
    BY <1>2, <1>11 DEF InsertFails
  <2>3. QED BY <1>11, <2>1, <2>2 DEF InsertFails, dbVars
<1>12. CASE SkipLine
  BY <1>12, LineAdvances DEF SkipLine, dbVars
<1>13. CASE CommitOffset
  BY <1>2, <1>13 DEF CommitOffset, AfterLines, NextFile
<1>14. CASE CommitOffsetFails \/ RebuildFails
  BY <1>3, <1>14 DEF CommitOffsetFails, RebuildFails, NextFile, dbVars
<1>15. CASE LoadProjection
  BY <1>15 DEF LoadProjection, dbVars
<1>16. CASE CommitProjection
  BY <1>16 DEF CommitProjection, NextFile
<1>17. CASE Crash
  BY <1>3, <1>17 DEF Crash, dbVars
<1>18. CASE UNCHANGED vars
  BY <1>18 DEF vars, dbVars, taskVars
<1>19. QED
  BY <1>4, <1>5, <1>6, <1>7, <1>8, <1>9, <1>10, <1>11, <1>12, <1>13, <1>14, <1>15, <1>16,
     <1>17, <1>18 DEF Next, AgentStep, IngesterStep, MishapStep

(***************************************************************************)
(* What was read of the file being processed is a prefix of it.            *)
(***************************************************************************)
LEMMA ViewPrefix ==
    ASSUME IInv, pc = "lines"
    PROVE  /\ cur.session \in Sessions
           /\ view \in Seq(Bytes) /\ file[cur.session] \in Seq(Bytes)
           /\ IsPrefixOf(view, file[cur.session])
           /\ cursor \in Nat /\ AtLineBoundary(view, cursor)
           /\ offset[cur.session] \in Nat /\ offset[cur.session] <= cursor
BY DEF IInv, TypeOK, ViewFaithful, IsPrefixOf, DirtyFile

(***************************************************************************)
(* A session has finitely many event rows, all inside its transcript.      *)
(***************************************************************************)
LEMMA RowsFinite ==
    ASSUME IInv, NEW s \in Sessions
    PROVE  IsFiniteSet(DOMAIN rows[s]) /\ DOMAIN rows[s] \subseteq Nat
<1>1. file[s] \in Seq(Bytes)
  BY DEF IInv, TypeOK
<1>2. Len(file[s]) \in Nat
  BY <1>1
<1>3. DOMAIN rows[s] \subseteq 0..(Len(file[s]) - 1)
  BY <1>2 DEF IInv, RowsAreRecords, RecordOffsets
<1>4. IsFiniteSet(0..(Len(file[s]) - 1))
  BY <1>2, FS_Interval
<1>5. IsFiniteSet(DOMAIN rows[s])
  BY <1>3, <1>4, FS_Subset
<1>6. QED BY <1>3, <1>5 DEF IInv, TypeOK

(***************************************************************************)
(* The initial states satisfy the invariant.                               *)
(***************************************************************************)
LEMMA InitIInv == ASSUME Init PROVE IInv
<1>1. DOMAIN EmptyRows = {} /\ \A k \in Nat : DOMAIN EventsBelow(EmptyRows, k) = {}
  BY DEF EmptyRows, EventsBelow
<1>2. GroupIntoTurns(EventsBelow(EmptyRows, 0)) = {}
  BY <1>1 DEF GroupIntoTurns, TurnStarts
<1>3. TypeOK
  <2>1. rows = [s \in Sessions |-> rows[s]]
    BY DEF Init
  <2>2. \A s \in Sessions : rows[s] = EmptyRows /\ EmptyRows \in [DOMAIN EmptyRows -> Openers]
    BY <1>1 DEF Init, EmptyRows
  <2>3. cur \in DirtyFile
    BY DEF Init, DirtyFile
  <2>4. file \in [Sessions -> Seq(Bytes)] /\ view \in Seq(Bytes)
    BY DEF Init
  <2>5. mishaps \in 0..MaxMishaps
    BY BoundsAssumption DEF Init
  <2>6. /\ times = [s \in Sessions |-> times[s]]
        /\ \A s \in Sessions : times[s] = EmptyRows /\ EmptyRows \in [DOMAIN EmptyRows -> Nat]
    BY <1>1 DEF Init, EmptyRows
  <2>7. QED BY <1>1, <2>1, <2>2, <2>3, <2>4, <2>5, <2>6 DEF Init, TypeOK, None
<1>4. OffsetAtLineBoundary
  BY DEF Init, OffsetAtLineBoundary, AtLineBoundary
<1>5. RowsAreRecords
  BY <1>1 DEF Init, RowsAreRecords
<1>6. TimelineIsPrefix
  BY <1>2 DEF Init, TimelineIsPrefix
<1>7. QueueFaithful /\ ViewFaithful /\ RebuildReady
  BY DEF Init, QueueFaithful, ViewFaithful, RebuildReady
<1>8. InOrder
  <2>1. \A s \in Sessions : RecordOffsets(file[s]) = {}
    BY DEF Init, RecordOffsets
  <2>2. QED BY <2>1 DEF InOrder
<1>9. QED BY <1>3, <1>4, <1>5, <1>6, <1>7, <1>8 DEF IInv

(***************************************************************************)
(* An append keeps the invariant: no record appears behind an offset, the  *)
(* cursor or a stored record.                                              *)
(***************************************************************************)
LEMMA AppendIInv ==
    ASSUME IInv, NEW s \in Sessions, NEW chunk \in Chunks, AgentWrites(s, chunk)
    PROVE  IInv'
<1>1. chunk \in Seq(Bytes) /\ file[s] \in Seq(Bytes)
  BY ChunksAssumption DEF IInv, TypeOK
<1>2. file' = [file EXCEPT ![s] = file[s] \o chunk] /\ UNCHANGED <<dbVars, taskVars, mishaps, dropped>>
  BY DEF AgentWrites
<1>3. \A r \in Sessions :
         /\ file[r] \in Seq(Bytes) /\ file'[r] \in Seq(Bytes)
         /\ IsPrefixOf(file[r], file'[r])
  <2>1. file[s] \o chunk \in Seq(Bytes) /\ IsPrefixOf(file[s], file[s] \o chunk)
    BY <1>1 DEF IsPrefixOf
  <2>2. \A r \in Sessions : file[r] \in Seq(Bytes) /\ IsPrefixOf(file[r], file[r])
    BY DEF IInv, TypeOK, IsPrefixOf
  <2>3. file \in [Sessions -> Seq(Bytes)]
    BY DEF IInv, TypeOK
  <2>4. QED BY <1>2, <2>1, <2>2, <2>3
<1>4. TypeOK'
  BY TypesStep DEF IInv, Next, AgentStep
<1>5. OffsetAtLineBoundary'
  <2>1. \A r \in Sessions : offset[r] \in Nat /\ AtLineBoundary(file[r], offset[r])
    BY DEF IInv, TypeOK, OffsetAtLineBoundary
  <2>2. \A r \in Sessions : AtLineBoundary(file'[r], offset[r])
    BY <1>3, <2>1, PrefixBoundary
  <2>3. QED BY <1>2, <2>2 DEF OffsetAtLineBoundary, dbVars
<1>6. RowsAreRecords'
  <2>1. \A r \in Sessions : \A o \in RecordOffsets(file[r]) :
           o \in RecordOffsets(file'[r]) /\ file'[r][o + 1] = file[r][o + 1]
    BY <1>3, PrefixRecords
  <2>2. RowsAreRecords /\ rows' = rows
    BY <1>2 DEF IInv, dbVars
  <2>3. QED BY <2>1, <2>2 DEF RowsAreRecords
<1>7. TimelineIsPrefix' /\ QueueFaithful' /\ RebuildReady'
  BY <1>2 DEF IInv, TimelineIsPrefix, QueueFaithful, RebuildReady, dbVars, taskVars
<1>8. ViewFaithful'
  <2>1. SUFFICES ASSUME pc = "lines" PROVE ViewFaithful'
    BY <1>2 DEF ViewFaithful, taskVars
  <2>2. IsPrefixOf(view, file[cur.session]) /\ cur.session \in Sessions /\ view \in Seq(Bytes)
    BY <2>1, ViewPrefix
  <2>3. IsPrefixOf(view, file'[cur.session])
    BY <1>3, <2>2, PrefixTransitive
  <2>4. QED BY <1>2, <2>1, <2>3 DEF IInv, ViewFaithful, IsPrefixOf, dbVars, taskVars
<1>9. InOrder'
  <2>1. SUFFICES ASSUME NEW r \in Sessions, NEW o \in RecordOffsets(file'[r])
                 PROVE  /\ o < Frontier(r) => o \in Decided(r)
                        /\ \A q \in DOMAIN rows[r] : o < q => o \in Decided(r)
    BY <1>2 DEF InOrder, Frontier, Decided, dbVars, taskVars
  <2>2. \A b \in Nat : AtLineBoundary(file[r], b) /\ o < b => o \in RecordOffsets(file[r])
    BY <1>3, PrefixRecords
  <2>3. Frontier(r) \in Nat /\ AtLineBoundary(file[r], Frontier(r))
    <3>1. CASE pc = "lines" /\ cur.session = r
      BY <3>1, ViewPrefix, PrefixBoundary DEF Frontier
    <3>2. CASE ~(pc = "lines" /\ cur.session = r)
      BY <3>2 DEF Frontier, IInv, TypeOK, OffsetAtLineBoundary
    <3>3. QED BY <3>1, <3>2
  <2>4. \A q \in DOMAIN rows[r] : q \in Nat /\ AtLineBoundary(file[r], q)
    BY DEF IInv, TypeOK, RowsAreRecords, RecordOffsets
  <2>5. QED BY <2>2, <2>3, <2>4 DEF IInv, InOrder
<1>10. QED BY <1>4, <1>5, <1>6, <1>7, <1>8, <1>9 DEF IInv

(***************************************************************************)
(* The steps between files: looking for dirty files, opening one, leaving  *)
(* one out.  A file that was only appended to is never reset.              *)
(***************************************************************************)
LEMMA ScanIInv == ASSUME IInv, Scan PROVE IInv'
<1>1. UNCHANGED <<file, version, dbVars, cur, view, viewed, cursor, first, plan, mishaps, dropped>>
        /\ pc = "idle" /\ pc' \in {"idle", "file"}
  BY DEF Scan
<1>2. \A d \in queue' : \E s \in Sessions :
         d = [session |-> s, committed |-> offset[s], len |-> Len(file[s])]
  BY DEF Scan
<1>3. \A s \in Sessions : Len(file[s]) \in Nat /\ offset[s] \in Nat /\ offset[s] <= Len(file[s])
  <2>1. ASSUME NEW s \in Sessions
        PROVE  Len(file[s]) \in Nat /\ offset[s] \in Nat /\ offset[s] <= Len(file[s])
    <3>1. file[s] \in Seq(Bytes) /\ offset[s] \in Nat /\ AtLineBoundary(file[s], offset[s])
      BY DEF IInv, TypeOK, OffsetAtLineBoundary
    <3>2. Len(file[s]) \in Nat
      BY <3>1
    <3>3. QED BY <3>1, <3>2 DEF AtLineBoundary
  <2>2. QED BY <2>1
<1>4. TypeOK'
  BY TypesStep DEF IInv, Next, IngesterStep
<1>5. QueueFaithful'
  BY <1>1, <1>2, <1>3 DEF QueueFaithful, dbVars
<1>6. InOrder'
  BY <1>1 DEF IInv, InOrder, Frontier, Decided, dbVars
<1>7. OffsetAtLineBoundary' /\ RowsAreRecords' /\ TimelineIsPrefix'
  BY <1>1 DEF IInv, OffsetAtLineBoundary, RowsAreRecords, TimelineIsPrefix, dbVars
<1>8. ViewFaithful' /\ RebuildReady'
  BY <1>1 DEF ViewFaithful, RebuildReady
<1>9. QED BY <1>4, <1>5, <1>6, <1>7, <1>8 DEF IInv

LEMMA OpenIInv == ASSUME IInv, NEW d \in queue, OpenFile(d) PROVE IInv'
<1> DEFINE s == d.session
<1>1. /\ pc = "file" /\ pc' = "lines" /\ queue' = queue \ {d} /\ cur' = d
      /\ view' = file[s] /\ cursor' = d.committed /\ first' = None
      /\ sessionRows' = sessionRows \cup {s}
      /\ UNCHANGED <<file, version, offset, rows, times, timeline, plan, mishaps, dropped>>
  BY DEF OpenFile
<1>2. d \in DirtyFile /\ s \in Sessions /\ d.committed \in Nat /\ d.committed = offset[s]
  BY DEF IInv, TypeOK, QueueFaithful, DirtyFile
<1>3. TypeOK'
  BY TypesStep DEF IInv, Next, IngesterStep
<1>4. QueueFaithful'
  BY <1>1 DEF IInv, QueueFaithful
<1>5. ViewFaithful'
  <2>1. \A o \in DOMAIN rows[s] : o \in Nat /\ o < Len(file[s]) /\ HasNewline(file[s], o)
    <3>1. Len(file[s]) \in Nat
      BY <1>2 DEF IInv, TypeOK
    <3>2. QED BY <1>2, <3>1 DEF IInv, RowsAreRecords, RecordOffsets
  <2>2. AtLineBoundary(file[s], offset[s])
    BY <1>2 DEF IInv, OffsetAtLineBoundary
  <2>3. Len(file[s]) \in Nat
    BY <1>2 DEF IInv, TypeOK
  <2>4. QED BY <1>1, <1>2, <2>1, <2>2, <2>3 DEF ViewFaithful
<1>6. InOrder'
  BY <1>1, <1>2 DEF IInv, InOrder, Frontier, Decided
<1>7. OffsetAtLineBoundary' /\ RowsAreRecords' /\ TimelineIsPrefix'
  BY <1>1 DEF IInv, OffsetAtLineBoundary, RowsAreRecords, TimelineIsPrefix
<1>8. RebuildReady'
  BY <1>1 DEF RebuildReady
<1>9. QED BY <1>3, <1>4, <1>5, <1>6, <1>7, <1>8 DEF IInv

LEMMA NeverReset == ASSUME IInv, NEW d \in queue PROVE ~ResetOffset(d)
<1>1. d.committed \in Nat /\ d.len \in Nat /\ d.committed <= d.len
  BY DEF IInv, TypeOK, QueueFaithful, DirtyFile
<1>2. QED BY <1>1 DEF ResetOffset

(***************************************************************************)
(* Giving a file up, before, during or after its lines, or losing the task *)
(* altogether, leaves only what the database holds.                        *)
(***************************************************************************)
LEMMA GiveUpIInv ==
    ASSUME IInv, (\E d \in queue : SkipFile(d)) \/ CommitOffsetFails \/ RebuildFails \/ Crash
    PROVE  IInv'
<1>1. /\ pc' \in {"idle", "file"} /\ queue' \subseteq queue /\ cur' = cur
      /\ UNCHANGED <<file, version, offset, rows, times, timeline, dropped>>
  <2>1. CASE \E d \in queue : SkipFile(d)
    BY <2>1 DEF SkipFile
  <2>2. CASE CommitOffsetFails
    BY <2>2 DEF CommitOffsetFails, NextFile, dbVars
  <2>3. CASE RebuildFails
    BY <2>3 DEF RebuildFails, NextFile, dbVars
  <2>4. CASE Crash
    BY <2>4 DEF Crash, dbVars
  <2>5. QED BY <2>1, <2>2, <2>3, <2>4
<1>2. TypeOK'
  BY TypesStep DEF IInv, Next, MishapStep
<1>3. QueueFaithful'
  BY <1>1 DEF IInv, QueueFaithful
<1>4. InOrder'
  <2>1. ASSUME NEW s \in Sessions PROVE Frontier(s)' <= Frontier(s) /\ Frontier(s)' \in Nat /\ Frontier(s) \in Nat
    BY <1>1 DEF Frontier, IInv, TypeOK, ViewFaithful
  <2>2. \A s \in Sessions : \A o \in RecordOffsets(file[s]) : o \in Nat
    BY DEF IInv, TypeOK, RecordOffsets
  <2>3. QED BY <1>1, <2>1, <2>2 DEF IInv, InOrder, Decided
<1>5. OffsetAtLineBoundary' /\ RowsAreRecords' /\ TimelineIsPrefix'
  BY <1>1 DEF IInv, OffsetAtLineBoundary, RowsAreRecords, TimelineIsPrefix
<1>6. ViewFaithful' /\ RebuildReady'
  BY <1>1 DEF ViewFaithful, RebuildReady
<1>7. QED BY <1>2, <1>3, <1>4, <1>5, <1>6 DEF IInv

(***************************************************************************)
(* What the three outcomes of one line have in common: rows and refused    *)
(* inserts only grow, by at most the record at the cursor, and a record    *)
(* there is decided.                                                       *)
(***************************************************************************)
LEMMA LineOutcome ==
    ASSUME IInv, InsertEvent \/ InsertFails \/ SkipLine
    PROVE  /\ pc = "lines" /\ cursor' \in LineEnds(view, cursor)
           /\ UNCHANGED <<file, version, sessionRows, offset, timeline, pc, queue, cur, view, viewed, plan>>
           /\ TypeOK'
           /\ \A r \in Sessions :
                 /\ DOMAIN rows[r] \subseteq DOMAIN rows'[r]
                 /\ \A o \in DOMAIN rows[r] : rows'[r][o] = rows[r][o]
                 /\ \A o \in DOMAIN rows'[r] \ DOMAIN rows[r] :
                       /\ r = cur.session /\ o = cursor
                       /\ HoldsRecord(cursor) /\ rows'[r][o] = view[cursor + 1]
                 /\ dropped[r] \subseteq dropped'[r]
           /\ HoldsRecord(cursor) => cursor \in Decided(cur.session)'
<1> DEFINE s == cur.session
<1>1. /\ pc = "lines" /\ cursor' \in LineEnds(view, cursor)
      /\ UNCHANGED <<file, version, sessionRows, offset, timeline, pc, queue, cur, view, viewed, plan>>
  <2>1. CASE InsertEvent
    BY <2>1 DEF InsertEvent
  <2>2. CASE InsertFails
    BY <2>2 DEF InsertFails, dbVars
  <2>3. CASE SkipLine
    BY <2>3 DEF SkipLine, dbVars
  <2>4. QED BY <2>1, <2>2, <2>3
<1>2. s \in Sessions /\ view \in Seq(Bytes) /\ cursor \in Nat
        /\ AtLineBoundary(view, cursor) /\ IsPrefixOf(view, file[s]) /\ file[s] \in Seq(Bytes)
  BY <1>1, ViewPrefix
<1>4. TypeOK /\ TypeOK' /\ dropped \in [Sessions -> SUBSET Nat]
  BY TypesStep DEF IInv, TypeOK, Next, IngesterStep, MishapStep
<1>5. CASE InsertEvent
  <2>1. HoldsRecord(cursor) /\ UNCHANGED dropped
    BY <1>5 DEF InsertEvent
  <2>2. /\ \A r \in Sessions \ {s} : rows'[r] = rows[r]
        /\ DOMAIN rows'[s] = DOMAIN rows[s] \cup {cursor}
        /\ \A o \in DOMAIN rows[s] : rows'[s][o] = rows[s][o]
        /\ cursor \notin DOMAIN rows[s] => rows'[s][cursor] = view[cursor + 1]
    BY <1>4, <1>5, InsertedRow
  <2>3. QED BY <1>1, <1>2, <1>4, <2>1, <2>2 DEF Decided
<1>6. CASE InsertFails
  <2>1. dropped' = [dropped EXCEPT ![s] = dropped[s] \cup {cursor}] /\ UNCHANGED rows
    BY <1>6 DEF InsertFails, dbVars
  <2>2. cursor \in dropped'[s] /\ \A r \in Sessions : dropped[r] \subseteq dropped'[r]
    BY <1>2, <1>4, <2>1
  <2>3. QED BY <1>1, <1>4, <2>1, <2>2 DEF Decided
<1>7. CASE SkipLine
  <2>1. ~HoldsRecord(cursor) /\ UNCHANGED <<rows, dropped>>
    BY <1>7 DEF SkipLine, dbVars
  <2>2. QED BY <1>1, <1>4, <2>1
<1>8. QED BY <1>5, <1>6, <1>7

(***************************************************************************)
(* One line keeps the invariant: what is stored lies at or behind the      *)
(* cursor, so the events below the offset, and the timeline grouped from   *)
(* them, are not touched.                                                  *)
(***************************************************************************)
LEMMA LineIInv ==
    ASSUME IInv, InsertEvent \/ InsertFails \/ SkipLine
    PROVE  IInv'
<1> DEFINE s == cur.session
           f == file[s]
<1>1. /\ pc = "lines" /\ cursor' \in LineEnds(view, cursor)
      /\ UNCHANGED <<file, version, sessionRows, offset, timeline, pc, queue, cur, view, viewed, plan>>
      /\ TypeOK'
  BY LineOutcome
<1>2. \A r \in Sessions :
         /\ DOMAIN rows[r] \subseteq DOMAIN rows'[r]
         /\ \A o \in DOMAIN rows[r] : rows'[r][o] = rows[r][o]
         /\ \A o \in DOMAIN rows'[r] \ DOMAIN rows[r] :
               /\ r = s /\ o = cursor
               /\ HoldsRecord(cursor) /\ rows'[r][o] = view[cursor + 1]
         /\ dropped[r] \subseteq dropped'[r]
  BY LineOutcome
<1>3. HoldsRecord(cursor) => cursor \in Decided(s)'
  BY LineOutcome
<1>4. /\ s \in Sessions /\ view \in Seq(Bytes) /\ f \in Seq(Bytes)
      /\ IsPrefixOf(view, f) /\ cursor \in Nat /\ AtLineBoundary(view, cursor)
      /\ offset[s] \in Nat /\ offset[s] <= cursor
  BY <1>1, ViewPrefix
<1>5. /\ cursor' \in Nat /\ cursor < cursor' /\ cursor < Len(view)
      /\ AtLineBoundary(view, cursor') /\ HasNewline(view, cursor)
      /\ f[cursor + 1] = view[cursor + 1]
      /\ \A o \in RecordOffsets(f) : o < cursor' => o <= cursor
      /\ cursor \in RecordOffsets(f) <=> view[cursor + 1] \in Openers
  BY <1>1, <1>4, OneLine
<1>6. HoldsRecord(cursor) <=> cursor \in RecordOffsets(f)
  BY <1>5 DEF HoldsRecord
<1>7. OffsetAtLineBoundary' /\ QueueFaithful' /\ RebuildReady'
  BY <1>1 DEF IInv, OffsetAtLineBoundary, QueueFaithful, RebuildReady
<1>8. RowsAreRecords'
  <2>1. ASSUME NEW r \in Sessions, NEW o \in DOMAIN rows'[r]
        PROVE  o \in RecordOffsets(file[r]) /\ rows'[r][o] = file[r][o + 1]
    <3>1. CASE o \in DOMAIN rows[r]
      BY <3>1, <1>2 DEF IInv, RowsAreRecords
    <3>2. CASE o \notin DOMAIN rows[r]
      BY <3>2, <2>1, <1>2, <1>5, <1>6
    <3>3. QED BY <3>1, <3>2
  <2>2. QED BY <1>1, <2>1 DEF RowsAreRecords
<1>9. TimelineIsPrefix'
  <2>1. SUFFICES ASSUME NEW r \in Sessions
                 PROVE  \E k \in 0..offset[r] :
                           timeline[r] = GroupIntoTurns(EventsBelow(rows'[r], k))
    BY <1>1 DEF TimelineIsPrefix
  <2>2. PICK k \in 0..offset[r] : timeline[r] = GroupIntoTurns(EventsBelow(rows[r], k))
    BY DEF IInv, TimelineIsPrefix
  <2>3. offset[r] \in Nat /\ \A o \in DOMAIN rows[r] : o \in Nat
    BY DEF IInv, TypeOK
  <2>4. {o \in DOMAIN rows'[r] : o < k} = {o \in DOMAIN rows[r] : o < k}
    BY <1>2, <1>4, <2>3
  <2>5. EventsBelow(rows'[r], k) = EventsBelow(rows[r], k)
    BY <1>2, <2>4 DEF EventsBelow
  <2>6. QED BY <2>2, <2>5
<1>10. ViewFaithful'
  <2>1. \A o \in DOMAIN rows'[s] : o < Len(view) /\ HasNewline(view, o)
    BY <1>1, <1>2, <1>4, <1>5 DEF IInv, ViewFaithful
  <2>2. offset[s] <= cursor'
    BY <1>4, <1>5
  <2>3. QED BY <1>1, <1>5, <2>1, <2>2 DEF IInv, ViewFaithful
<1>11. InOrder'
  <2>1. SUFFICES ASSUME NEW r \in Sessions, NEW o \in RecordOffsets(file[r])
                 PROVE  /\ o < Frontier(r)' => o \in Decided(r)'
                        /\ \A q \in DOMAIN rows'[r] : o < q => o \in Decided(r)'
    BY <1>1 DEF InOrder
  <2>2. o \in Nat
    BY DEF IInv, TypeOK, RecordOffsets
  <2>3. Decided(r) \subseteq Decided(r)'
    BY <1>2 DEF Decided
  <2>4. /\ o < Frontier(r) => o \in Decided(r)
        /\ \A q \in DOMAIN rows[r] : o < q => o \in Decided(r)
    BY DEF IInv, InOrder
  <2>5. CASE r # s
    <3>1. Frontier(r)' = Frontier(r) /\ DOMAIN rows'[r] = DOMAIN rows[r]
      BY <1>1, <1>2, <2>5 DEF Frontier
    <3>2. QED BY <3>1, <2>3, <2>4
  <2>6. CASE r = s
    <3>1. Frontier(s)' = cursor' /\ Frontier(s) = cursor
      BY <1>1 DEF Frontier
    <3>2. o < cursor' => o \in Decided(s)'
      <4>1. CASE o < cursor
        BY <4>1, <1>1, <3>1, <2>3, <2>4, <2>6 DEF Decided
      <4>2. CASE o = cursor
        BY <4>2, <1>1, <1>3, <1>6, <2>6 DEF Decided
      <4>3. QED BY <4>1, <4>2, <1>4, <1>5, <2>2, <2>6
    <3>3. \A q \in DOMAIN rows'[s] : q \in DOMAIN rows[s] \/ q < cursor'
      BY <1>2, <1>4, <1>5
    <3>4. \A q \in DOMAIN rows'[s] : q \in Nat
      BY <1>1, <1>4 DEF TypeOK
    <3>5. ASSUME NEW q \in DOMAIN rows'[s], o < q PROVE o \in Decided(s)'
      BY <3>2, <3>3, <3>4, <3>5, <1>1, <1>5, <2>2, <2>3, <2>4, <2>6 DEF Decided
    <3>6. QED BY <1>1, <3>1, <3>2, <3>5, <2>6 DEF Frontier, Decided
  <2>7. QED BY <2>5, <2>6
<1>12. QED BY <1>1, <1>7, <1>8, <1>9, <1>10, <1>11 DEF IInv

(***************************************************************************)
(* Committing the offset keeps the invariant: every record behind the new  *)
(* offset was decided, and no stored event is left ahead of it.            *)
(***************************************************************************)
LEMMA CommitOffsetIInv == ASSUME IInv, CommitOffset PROVE IInv'
<1> DEFINE s == cur.session
<1>1. /\ pc = "lines" /\ ~HasNewline(view, cursor)
      /\ pc' \in {"idle", "file", "rebuild"} /\ (pc' = "rebuild" => first # None)
      /\ UNCHANGED <<file, version, sessionRows, rows, times, timeline, queue, cur, view, viewed, cursor, first,
                     plan, mishaps, dropped>>
  BY DEF CommitOffset, AfterLines, NextFile
<1>2. /\ s \in Sessions /\ view \in Seq(Bytes) /\ file[s] \in Seq(Bytes)
      /\ IsPrefixOf(view, file[s]) /\ cursor \in Nat /\ AtLineBoundary(view, cursor)
      /\ offset[s] \in Nat /\ offset[s] <= cursor
  BY <1>1, ViewPrefix
<1>3. offset \in [Sessions -> Nat] /\ cur.committed = offset[s]
  BY <1>1 DEF IInv, TypeOK, ViewFaithful
<1>4. offset' = [offset EXCEPT ![s] = cursor]
  BY <1>3 DEF CommitOffset
<1>5. /\ offset' \in [Sessions -> Nat] /\ offset'[s] = cursor
      /\ \A r \in Sessions \ {s} : offset'[r] = offset[r]
      /\ \A r \in Sessions : offset'[r] \in Nat /\ offset[r] \in Nat /\ offset[r] <= offset'[r]
  BY <1>2, <1>3, <1>4
<1>6. TypeOK'
  BY <1>1, <1>5 DEF IInv, TypeOK
<1>7. OffsetAtLineBoundary'
  <2>1. AtLineBoundary(file[s], cursor)
    BY <1>2, PrefixBoundary
  <2>2. QED BY <1>1, <1>5, <2>1 DEF IInv, OffsetAtLineBoundary
<1>8. RowsAreRecords'
  BY <1>1 DEF IInv, RowsAreRecords
<1>9. TimelineIsPrefix'
  <2>1. ASSUME NEW r \in Sessions, NEW k \in 0..offset[r] PROVE k \in 0..offset'[r]
    BY <1>5
  <2>2. QED BY <1>1, <2>1 DEF IInv, TimelineIsPrefix
<1>10. QueueFaithful'
  <2>1. \A d \in queue : d.session \in Sessions \ {s}
    BY <1>1 DEF IInv, QueueFaithful, TypeOK, DirtyFile
  <2>2. QED BY <1>1, <1>5, <2>1 DEF IInv, QueueFaithful
<1>11. ViewFaithful'
  BY <1>1 DEF ViewFaithful
<1>12. InOrder'
  <2>1. \A r \in Sessions : Frontier(r)' = Frontier(r)
    BY <1>1, <1>5 DEF Frontier
  <2>2. QED BY <1>1, <2>1 DEF IInv, InOrder, Decided
<1>13. RebuildReady'
  <2>1. ASSUME NEW o \in DOMAIN rows[s] PROVE o < cursor
    <3>1. o \in Nat /\ HasNewline(view, o)
      BY <1>1, <1>2 DEF IInv, TypeOK, ViewFaithful
    <3>2. Len(view) \in Nat
      BY <1>2
    <3>3. QED BY <1>1, <1>2, <3>1, <3>2 DEF HasNewline
  <2>2. QED BY <1>1, <1>5, <2>1 DEF RebuildReady
<1>14. QED BY <1>6, <1>7, <1>8, <1>9, <1>10, <1>11, <1>12, <1>13 DEF IInv

(***************************************************************************)
(* All rows of one version of the file have the same time.                 *)
(***************************************************************************)
LEMMA TimesOfOneVersion ==
    ASSUME TypeOK, OneVersion, NEW s \in Sessions
    PROVE  TimesRise(rows[s], times[s])
BY DEF TypeOK, OneVersion, TimesRise, TimesOf

(***************************************************************************)
(* The rebuild keeps the invariant, the incremental one included.          *)
(***************************************************************************)
LEMMA LoadIInv == ASSUME IInv, OneVersion, LoadProjection PROVE IInv'
<1> DEFINE s == cur.session
<1>1. /\ pc = "rebuild" /\ pc' = "commit" /\ plan' = PlanAfterInsert(timeline[s], rows[s], times[s], first)
      /\ UNCHANGED <<file, version, sessionRows, offset, rows, times, timeline, queue, cur, view, viewed, cursor,
                     first, mishaps, dropped>>
  BY DEF LoadProjection, dbVars
<1>2. s \in Sessions /\ first \in Nat /\ offset[s] \in Nat
  BY <1>1 DEF IInv, TypeOK, RebuildReady, DirtyFile
<1>3. ApplyPlan(timeline[s], plan') = GroupIntoTurns(rows[s])
  <2>1. PICK k \in 0..offset[s] : timeline[s] = GroupIntoTurns(EventsBelow(rows[s], k))
    BY <1>2 DEF IInv, TimelineIsPrefix
  <2>2. IsFiniteSet(DOMAIN rows[s]) /\ DOMAIN rows[s] \subseteq Nat
    BY <1>2, RowsFinite
  <2>3. k \in Nat
    BY <1>2
  <2>4. TimesRise(rows[s], times[s])
    BY <1>2, TimesOfOneVersion DEF IInv
  <2>5. QED BY <1>1, <1>2, <2>1, <2>2, <2>3, <2>4, IncrementalRebuildIsFull
<1>4. RebuildReady'
  BY <1>1, <1>3 DEF IInv, RebuildReady
<1>5. TypeOK' /\ QueueFaithful' /\ ViewFaithful'
  BY <1>1 DEF IInv, TypeOK, QueueFaithful, ViewFaithful
<1>6. OffsetAtLineBoundary' /\ RowsAreRecords' /\ TimelineIsPrefix'
  BY <1>1 DEF IInv, OffsetAtLineBoundary, RowsAreRecords, TimelineIsPrefix
<1>7. InOrder'
  BY <1>1 DEF IInv, InOrder, Frontier, Decided
<1>8. QED BY <1>4, <1>5, <1>6, <1>7 DEF IInv

LEMMA CommitProjectionIInv ==
    ASSUME IInv, CommitProjection
    PROVE  IInv' /\ timeline'[cur.session] = GroupIntoTurns(rows[cur.session])
<1> DEFINE s == cur.session
<1>1. /\ pc = "commit" /\ pc' \in {"idle", "file"}
      /\ timeline' = [timeline EXCEPT ![s] = ApplyPlan(timeline[s], plan)]
      /\ UNCHANGED <<file, version, sessionRows, offset, rows, times, queue, cur, view, viewed, cursor, first,
                     plan, mishaps, dropped>>
  BY DEF CommitProjection, NextFile
<1>2. s \in Sessions /\ offset[s] \in Nat /\ DOMAIN timeline = Sessions
  BY DEF IInv, TypeOK, DirtyFile
<1>3. timeline'[s] = GroupIntoTurns(rows[s])
  BY <1>1, <1>2 DEF IInv, RebuildReady
<1>4. TimelineIsPrefix'
  <2>1. rows[s] = EventsBelow(rows[s], offset[s])
    <3>1. \A o \in DOMAIN rows[s] : o < offset[s]
      BY <1>1 DEF IInv, RebuildReady
    <3>2. rows[s] \in [DOMAIN rows[s] -> Openers]
      BY <1>2 DEF IInv, TypeOK
    <3>3. {x \in DOMAIN rows[s] : x < offset[s]} = DOMAIN rows[s]
      BY <3>1
    <3>4. QED BY <3>2, <3>3 DEF EventsBelow
  <2>2. offset[s] \in 0..offset[s]
    BY <1>2
  <2>3. \E k \in 0..offset[s] : timeline'[s] = GroupIntoTurns(EventsBelow(rows[s], k))
    BY <1>3, <2>1, <2>2
  <2>4. \A r \in Sessions \ {s} : timeline'[r] = timeline[r]
    BY <1>1, <1>2
  <2>5. QED BY <1>1, <2>3, <2>4 DEF IInv, TimelineIsPrefix
<1>5. TypeOK' /\ QueueFaithful' /\ ViewFaithful' /\ RebuildReady'
  BY <1>1 DEF IInv, TypeOK, QueueFaithful, ViewFaithful, RebuildReady
<1>6. OffsetAtLineBoundary' /\ RowsAreRecords'
  BY <1>1 DEF IInv, OffsetAtLineBoundary, RowsAreRecords
<1>7. InOrder'
  BY <1>1 DEF IInv, InOrder, Frontier, Decided
<1>8. QED BY <1>3, <1>4, <1>5, <1>6, <1>7 DEF IInv

(***************************************************************************)
(* Files are only appended to: the assumption of the theorems below, the   *)
(* one the ingester's header and docs/architecture.md state.               *)
(***************************************************************************)
AppendOnly == "replace" \notin Mishaps

LEMMA StepOneVersion ==
    ASSUME AppendOnly, TypeOK, OneVersion, [Next]_vars
    PROVE  OneVersion'
<1>1. \A s \in Sessions, content \in Contents : ~Replace(s, content)
  BY DEF AppendOnly, Replace, Mishap
<1>2. ASSUME UNCHANGED <<version, rows, times>>, viewed' = 0 PROVE OneVersion'
  BY <1>2 DEF OneVersion
<1>3. viewed = 0
  BY DEF OneVersion
<1>4. CASE AgentStep
  BY <1>2, <1>3, <1>4 DEF AgentStep, AgentWrites, dbVars, taskVars
<1>5. ASSUME NEW d \in queue, OpenFile(d) PROVE OneVersion'
  <2>1. viewed' = version[d.session] /\ UNCHANGED <<version, rows, times>> /\ d.session \in Sessions
    BY <1>5 DEF OpenFile, TypeOK, DirtyFile
  <2>2. QED BY <1>2, <2>1 DEF OneVersion
<1>6. CASE InsertEvent
  <2>1. /\ cur.session \in Sessions
        /\ \A r \in Sessions \ {cur.session} : rows'[r] = rows[r] /\ times'[r] = times[r]
        /\ DOMAIN rows'[cur.session] = DOMAIN rows[cur.session] \cup {cursor}
        /\ \A o \in DOMAIN rows[cur.session] : times'[cur.session][o] = times[cur.session][o]
        /\ cursor \notin DOMAIN rows[cur.session] => times'[cur.session][cursor] = viewed
    BY <1>6, InsertedRow
  <2>2. UNCHANGED <<version, viewed>>
    BY <1>6 DEF InsertEvent
  <2>3. QED BY <1>3, <2>1, <2>2 DEF OneVersion
<1>7. CASE IngesterStep /\ ~InsertEvent /\ ~(\E d \in queue : OpenFile(d))
  BY <1>2, <1>3, <1>7 DEF IngesterStep, Scan, ResetOffset, SkipLine, CommitOffset,
     LoadProjection, CommitProjection, dbVars
<1>8. CASE MishapStep
  BY <1>1, <1>2, <1>3, <1>8 DEF MishapStep, SkipFile, InsertFails, CommitOffsetFails,
     RebuildFails, Crash, dbVars
<1>9. CASE UNCHANGED vars
  BY <1>2, <1>3, <1>9 DEF vars, dbVars, taskVars
<1>10. QED BY <1>4, <1>5, <1>6, <1>7, <1>8, <1>9 DEF Next

LEMMA StepIInv == ASSUME AppendOnly, IInv, OneVersion, [Next]_vars PROVE IInv'
<1>1. CASE AgentStep
  BY <1>1, AppendIInv DEF AgentStep
<1>2. CASE IngesterStep
  BY <1>2, ScanIInv, OpenIInv, NeverReset, LineIInv, CommitOffsetIInv, LoadIInv,
     CommitProjectionIInv DEF IngesterStep
<1>3. CASE MishapStep
  <2>1. \A s \in Sessions, content \in Contents : ~Replace(s, content)
    BY DEF AppendOnly, Replace, Mishap
  <2>2. QED BY <1>3, <2>1, GiveUpIInv, LineIInv DEF MishapStep
<1>4. CASE UNCHANGED vars
  <2>1. UNCHANGED <<file, version, sessionRows, offset, rows, times, timeline, pc, queue, cur,
                    view, viewed, cursor, first, plan, mishaps, dropped>>
    BY <1>4 DEF vars, dbVars, taskVars
  <2>2. TypeOK' /\ OffsetAtLineBoundary' /\ RowsAreRecords' /\ TimelineIsPrefix'
    BY <2>1 DEF IInv, TypeOK, OffsetAtLineBoundary, RowsAreRecords, TimelineIsPrefix
  <2>3. QueueFaithful' /\ ViewFaithful' /\ RebuildReady' /\ InOrder'
    BY <2>1 DEF IInv, QueueFaithful, ViewFaithful, RebuildReady, InOrder, Frontier, Decided
  <2>4. QED BY <2>2, <2>3 DEF IInv
<1>5. QED BY <1>1, <1>2, <1>3, <1>4 DEF Next

(***************************************************************************)
(* The inductive invariant holds in every reachable state.                 *)
(***************************************************************************)
THEOREM Invariance == ASSUME AppendOnly PROVE Spec => [](IInv /\ OneVersion)
<1>1. Init => IInv /\ OneVersion
  <2>1. Init => OneVersion
    BY DEF Init, OneVersion, EmptyRows
  <2>2. QED BY <2>1, InitIInv
<1>2. IInv /\ OneVersion /\ [Next]_vars => (IInv /\ OneVersion)'
  BY StepIInv, StepOneVersion DEF IInv
<1>3. QED BY <1>1, <1>2, PTL DEF Spec

(***************************************************************************)
(* The committed offset is always at a line boundary.                      *)
(***************************************************************************)
THEOREM Boundary == ASSUME AppendOnly PROVE Spec => []OffsetAtLineBoundary
<1>1. IInv => OffsetAtLineBoundary
  BY DEF IInv
<1>2. QED BY <1>1, Invariance, PTL

(***************************************************************************)
(* An event row is the record at its byte offset in the transcript.        *)
(***************************************************************************)
THEOREM NoRowInvented == ASSUME AppendOnly PROVE Spec => []RowsAreRecords
<1>1. IInv => RowsAreRecords
  BY DEF IInv
<1>2. QED BY <1>1, Invariance, PTL

(***************************************************************************)
(* Every record behind the committed offset is stored, or its insert was   *)
(* refused by the database.                                                *)
(***************************************************************************)
THEOREM NoRecordSkipped == ASSUME AppendOnly PROVE Spec => []NothingSkipped
<1>1. IInv => NothingSkipped
  <2>1. SUFFICES ASSUME IInv, NEW s \in Sessions, NEW o \in RecordOffsets(file[s]),
                        o < offset[s]
                 PROVE  o \in Decided(s)
    BY DEF NothingSkipped, Decided
  <2>2. o \in Nat /\ offset[s] \in Nat
    BY <2>1 DEF IInv, TypeOK, RecordOffsets
  <2>3. o < Frontier(s) /\ Frontier(s) \in Nat
    BY <2>1, <2>2 DEF Frontier, IInv, TypeOK, ViewFaithful
  <2>4. QED BY <2>1, <2>3 DEF IInv, InOrder
<1>2. QED BY <1>1, Invariance, PTL

(***************************************************************************)
(* The timeline is always the grouping of the stored events up to a point. *)
(***************************************************************************)
THEOREM TimelineNeverTorn == ASSUME AppendOnly PROVE Spec => []TimelineIsPrefix
<1>1. IInv => TimelineIsPrefix
  BY DEF IInv
<1>2. QED BY <1>1, Invariance, PTL

(***************************************************************************)
(* A committed rebuild, full or incremental, leaves the full grouping of   *)
(* the session's stored events.                                            *)
(***************************************************************************)
THEOREM CommittedRebuildIsFull == ASSUME AppendOnly PROVE Spec => RebuildCatchesUp
<1>1. IInv /\ OneVersion /\ [Next]_vars =>
        [CommitProjection =>
            timeline'[cur.session] = GroupInTime(rows[cur.session], times[cur.session])]_vars
  <2>1. SUFFICES ASSUME IInv, OneVersion, CommitProjection
                 PROVE  timeline'[cur.session]
                          = GroupInTime(rows[cur.session], times[cur.session])
    OBVIOUS
  <2>2. cur.session \in Sessions
    BY <2>1 DEF IInv, TypeOK, DirtyFile
  <2>3. TimesRise(rows[cur.session], times[cur.session])
    BY <2>1, <2>2, TimesOfOneVersion DEF IInv
  <2>4. GroupInTime(rows[cur.session], times[cur.session]) = GroupIntoTurns(rows[cur.session])
    BY <2>1, <2>2, <2>3, RowsFinite, TimeOrderIsOffsetOrder
  <2>5. QED BY <2>1, <2>4, CommitProjectionIInv
<1>2. QED BY <1>1, Invariance, PTL DEF Spec, RebuildCatchesUp

-----------------------------------------------------------------------------
(* The refinement, when the database refuses no insert.                    *)

(***************************************************************************)
(* An append writes records behind the ones there are.                     *)
(***************************************************************************)
LEMMA AppendWrites ==
    ASSUME IInv, NEW s \in Sessions, NEW chunk \in Chunks, AgentWrites(s, chunk)
    PROVE  Log!Write(s)
<1> DEFINE f == file[s]
           g == file[s] \o chunk
<1>1. f \in Seq(Bytes) /\ chunk \in Seq(Bytes) /\ file \in [Sessions -> Seq(Bytes)]
  BY ChunksAssumption DEF IInv, TypeOK
<1>2. file'[s] = g /\ \A r \in Sessions \ {s} : file'[r] = file[r]
  BY <1>1 DEF AgentWrites
<1>3. g \in Seq(Bytes) /\ IsPrefixOf(f, g)
  BY <1>1 DEF IsPrefixOf
<1>4. UNCHANGED <<rows, dropped>>
  BY DEF AgentWrites, dbVars
<1>5. DOMAIN Records(f) = RecordOffsets(f) /\ DOMAIN Records(g) = RecordOffsets(g)
  BY DEF Records
<1>6. Log!Extends(Records(g), Records(f))
  <2>1. \A o \in RecordOffsets(f) : o \in RecordOffsets(g) /\ g[o + 1] = f[o + 1]
    BY <1>1, <1>3, PrefixRecords
  <2>2. QED BY <2>1 DEF Log!Extends, Records
<1>7. ASSUME NEW n \in RecordOffsets(g) \ RecordOffsets(f)
      PROVE  /\ n \in Nat /\ Records(g)[n] \in Openers
             /\ \A o \in RecordOffsets(f) : o < n
  <2>1. n \in Nat /\ Records(g)[n] \in Openers
    <3>1. Len(g) \in Nat
      BY <1>3
    <3> HIDE DEF g
    <3>2. n \in 0..(Len(g) - 1) /\ g[n + 1] \in Openers
      BY <1>7 DEF RecordOffsets
    <3>3. Records(g)[n] = g[n + 1]
      BY <1>7 DEF Records
    <3>4. QED BY <3>1, <3>2, <3>3
  <2>2. ASSUME NEW o \in RecordOffsets(f) PROVE o < n
    <3>1. o \in Nat /\ AtLineBoundary(f, o)
      BY <1>1 DEF RecordOffsets
    <3>2. ~(n < o)
      BY <1>1, <1>3, <3>1, PrefixRecords
    <3>3. QED BY <2>1, <3>1, <3>2
  <2>3. QED BY <2>1, <2>2
<1>8. QED
  BY <1>2, <1>4, <1>5, <1>6, <1>7 DEF Log!Write

(***************************************************************************)
(* Every record before the cursor was stored or refused.                   *)
(***************************************************************************)
LEMMA CursorIsDue ==
    ASSUME IInv, pc = "lines", cur.session \in Sessions,
           cursor \in RecordOffsets(file[cur.session])
    PROVE  Log!Due(cur.session, cursor)
<1> DEFINE s == cur.session
<1>1. DOMAIN Records(file[s]) = RecordOffsets(file[s])
  BY DEF Records
<1>2. \A q \in RecordOffsets(file[s]) : q < cursor => q \in DOMAIN rows[s] \cup dropped[s]
  BY DEF IInv, InOrder, Frontier, Decided
<1>3. QED BY <1>1, <1>2 DEF Log!Due

(***************************************************************************)
(* An insert stores a record whose turn has come, or repeats one.           *)
(***************************************************************************)
LEMMA InsertStores ==
    ASSUME IInv, InsertEvent
    PROVE  Log!Store(cur.session) \/ UNCHANGED Log!vars
<1> DEFINE s == cur.session
           f == file[s]
<1>1. /\ pc = "lines" /\ cursor' \in LineEnds(view, cursor) /\ HoldsRecord(cursor)
      /\ UNCHANGED <<file, dropped>>
      /\ rows' = [rows EXCEPT ![s] =
                     [o \in DOMAIN rows[s] \cup {cursor} |->
                        IF o \in DOMAIN rows[s] THEN rows[s][o] ELSE view[cursor + 1]]]
  BY DEF InsertEvent, InsertRow
<1>2. /\ s \in Sessions /\ view \in Seq(Bytes) /\ f \in Seq(Bytes)
      /\ IsPrefixOf(view, f) /\ cursor \in Nat /\ AtLineBoundary(view, cursor)
  BY <1>1, ViewPrefix
<1>3. cursor \in RecordOffsets(f) /\ f[cursor + 1] = view[cursor + 1]
  BY <1>1, <1>2, OneLine DEF HoldsRecord
<1>4. rows = [r \in Sessions |-> rows[r]] /\ rows[s] \in [DOMAIN rows[s] -> Openers]
  BY <1>2 DEF IInv, TypeOK
<1>5. CASE cursor \in DOMAIN rows[s]
  <2>1. rows[s] = [o \in DOMAIN rows[s] \cup {cursor} |->
                      IF o \in DOMAIN rows[s] THEN rows[s][o] ELSE view[cursor + 1]]
    BY <1>4, <1>5
  <2>2. rows' = rows
    BY <1>1, <1>4, <2>1
  <2>3. QED BY <1>1, <2>2 DEF Log!vars
<1>6. CASE cursor \notin DOMAIN rows[s]
  <2>1. DOMAIN Records(f) = RecordOffsets(f) /\ Records(f)[cursor] = view[cursor + 1]
    BY <1>3 DEF Records
  <2>2. Log!Due(s, cursor)
    BY <1>1, <1>2, <1>3, CursorIsDue
  <2>3. rows' = [rows EXCEPT ![s] =
                    [q \in DOMAIN rows[s] \cup {cursor} |->
                        IF q \in DOMAIN rows[s] THEN rows[s][q] ELSE Records(f)[cursor]]]
    BY <1>1, <2>1
  <2>4. Log!Store(s)
    BY <1>1, <1>2, <1>3, <1>6, <2>1, <2>2, <2>3 DEF Log!Store
  <2>5. QED BY <2>4
<1>7. QED BY <1>5, <1>6

(***************************************************************************)
(* An insert that fails refuses a record whose turn has come.              *)
(***************************************************************************)
LEMMA FailureRefuses == ASSUME IInv, InsertFails PROVE Log!Refuse(cur.session)
<1> DEFINE s == cur.session
           f == file[s]
<1>1. PICK e \in LineEnds(view, cursor) :
         /\ HoldsRecord(cursor)
         /\ dropped' = [dropped EXCEPT ![s] = @ \cup {cursor}]
         /\ cursor' = e
  BY DEF InsertFails
<1>2. pc = "lines" /\ UNCHANGED <<file, rows>>
  BY DEF InsertFails, dbVars
<1>3. /\ s \in Sessions /\ view \in Seq(Bytes) /\ f \in Seq(Bytes)
      /\ IsPrefixOf(view, f) /\ cursor \in Nat /\ AtLineBoundary(view, cursor)
  BY <1>2, ViewPrefix
<1>4. cursor \in RecordOffsets(f)
  BY <1>1, <1>3, OneLine DEF HoldsRecord
<1>5. Log!Due(s, cursor)
  BY <1>2, <1>3, <1>4, CursorIsDue
<1>6. cursor \in DOMAIN [r \in Sessions |-> Records(file[r])][s]
  BY <1>3, <1>4 DEF Records
<1>7. UNCHANGED [r \in Sessions |-> Records(file[r])]
  BY <1>2
<1>8. QED BY <1>1, <1>2, <1>5, <1>6, <1>7 DEF Log!Refuse

(***************************************************************************)
(* Every other step of the ingester leaves records and rows alone.         *)
(***************************************************************************)
LEMMA OtherSteps ==
    ASSUME AppendOnly, [Next]_vars, ~AgentStep, ~InsertEvent, ~InsertFails
    PROVE  UNCHANGED <<file, rows, dropped>>
<1>1. \A s \in Sessions, content \in Contents : ~Replace(s, content)
  BY DEF AppendOnly, Replace, Mishap
<1>2. CASE IngesterStep
  BY <1>2 DEF IngesterStep, Scan, OpenFile, ResetOffset, SkipLine, CommitOffset, LoadProjection,
     CommitProjection, dbVars
<1>3. CASE MishapStep
  BY <1>1, <1>3 DEF MishapStep, SkipFile, CommitOffsetFails, RebuildFails, Crash, dbVars
<1>4. CASE UNCHANGED vars
  BY <1>4 DEF vars, dbVars
<1>5. QED BY <1>2, <1>3, <1>4 DEF Next

(***************************************************************************)
(* The ingester implements the transcript log: whatever crashes, failing   *)
(* statements and half-written lines come, each record is taken over once, *)
(* unchanged and in the order it was written, and passed over only when    *)
(* the database refuses it.                                                *)
(***************************************************************************)
THEOREM Refinement == ASSUME AppendOnly PROVE Spec => RefinesTranscriptLog
<1>1. Init => Log!Init
  <2>1. ASSUME Init PROVE \A s \in Sessions : Records(file[s]) = Log!Empty /\ rows[s] = Log!Empty
    <3>1. \A s \in Sessions : RecordOffsets(file[s]) = {}
      BY <2>1 DEF Init, RecordOffsets
    <3>2. \A s \in Sessions : rows[s] = EmptyRows
      BY <2>1 DEF Init
    <3>3. EmptyRows = Log!Empty
      BY DEF EmptyRows, Log!Empty
    <3>4. \A s \in Sessions : Records(file[s]) = Log!Empty
      BY <3>1 DEF Records, Log!Empty
    <3>5. QED BY <3>2, <3>3, <3>4
  <2>2. ASSUME Init
        PROVE  /\ rows = [s \in Sessions |-> rows[s]]
               /\ dropped = [s \in Sessions |-> {}]
    BY <2>2 DEF Init
  <2>3. QED BY <2>1, <2>2 DEF Log!Init
<1>2. IInv /\ [Next]_vars => [Log!Next]_Log!vars
  <2>1. SUFFICES ASSUME IInv, [Next]_vars PROVE [Log!Next]_Log!vars
    OBVIOUS
  <2>2. CASE AgentStep
    BY <2>1, <2>2, AppendWrites DEF AgentStep, Log!Next
  <2>3. cur.session \in Sessions
    BY <2>1 DEF IInv, TypeOK, DirtyFile
  <2>4. CASE InsertEvent
    BY <2>1, <2>3, <2>4, InsertStores DEF Log!Next
  <2>5. CASE InsertFails
    BY <2>1, <2>3, <2>5, FailureRefuses DEF Log!Next
  <2>6. CASE ~AgentStep /\ ~InsertEvent /\ ~InsertFails
    BY <2>1, <2>6, OtherSteps DEF Log!vars
  <2>7. QED BY <2>2, <2>4, <2>5, <2>6
<1>3. QED BY <1>1, <1>2, Invariance, PTL DEF Spec, Log!Spec, RefinesTranscriptLog

-----------------------------------------------------------------------------
(* Files that are truncated or written anew as well.                       *)

(***************************************************************************)
(* The types of the state, whatever happens to the files.                  *)
(***************************************************************************)
THEOREM Types == Spec => []TypeOK
<1>1. Init => TypeOK
  BY InitIInv DEF IInv
<1>2. TypeOK /\ [Next]_vars => TypeOK'
  BY TypesStep
<1>3. QED BY <1>1, <1>2, PTL DEF Spec

(***************************************************************************)
(* Only an insert touches the event rows.                                  *)
(***************************************************************************)
LEMMA OnlyInsertsRows == ASSUME [Next]_vars, ~InsertEvent PROVE rows' = rows
<1>1. CASE AgentStep
  BY <1>1 DEF AgentStep, AgentWrites, dbVars
<1>2. CASE IngesterStep
  BY <1>2 DEF IngesterStep, Scan, OpenFile, ResetOffset, SkipLine, CommitOffset,
     LoadProjection, CommitProjection, dbVars
<1>3. CASE MishapStep
  BY <1>3 DEF MishapStep, Replace, SkipFile, InsertFails, CommitOffsetFails,
     RebuildFails, Crash, dbVars
<1>4. CASE UNCHANGED vars
  BY <1>4 DEF vars, dbVars
<1>5. QED BY <1>1, <1>2, <1>3, <1>4 DEF Next

(***************************************************************************)
(* No step, a rotation, a reset of the offset and the reading that follows *)
(* it included, changes or removes an event row that is stored.            *)
(***************************************************************************)
THEOREM NoRowLost == Spec => RowsSurviveRotation
<1>1. ASSUME TypeOK, [Next]_vars, NEW s \in Sessions
      PROVE  Log!Extends(rows'[s], rows[s])
  <2>1. CASE InsertEvent
    <3>1. CASE s = cur.session
      BY <1>1, <2>1, <3>1, InsertedRow DEF Log!Extends
    <3>2. CASE s # cur.session
      BY <1>1, <2>1, <3>2, InsertedRow DEF Log!Extends
    <3>3. QED BY <3>1, <3>2
  <2>2. CASE ~InsertEvent
    BY <1>1, <2>2, OnlyInsertsRows DEF Log!Extends
  <2>3. QED BY <2>1, <2>2
<1>2. TypeOK /\ [Next]_vars => [\A s \in Sessions : Log!Extends(rows'[s], rows[s])]_vars
  BY <1>1
<1>3. QED BY <1>2, Types, PTL DEF Spec, RowsSurviveRotation

-----------------------------------------------------------------------------
(* The turns of a session whose file was truncated or written anew.        *)

\* Every prompt of E begins a turn, and no turn runs across another one.
Tells(turns, E) ==
    /\ Unique(turns) /\ \A t \in turns : WellMade(t, E)
    /\ \A o \in DOMAIN E : E[o] \in Prompts => \E t \in turns : t.id = o

(***************************************************************************)
(* Grouping by offset tells every prompt, and so does grouping by time,    *)
(* whatever the times are.                                                 *)
(***************************************************************************)
LEMMA OffsetGroupsTell ==
    ASSUME NEW E, DOMAIN E \subseteq Nat
    PROVE  Tells(GroupIntoTurns(E), E)
<1>1. \A o \in DOMAIN E : o \in Nat /\ (E[o] \in Prompts => o \in TurnStarts(E))
  BY DEF TurnStarts, StartsTurn
<1>2. ASSUME NEW t \in TurnStarts(E) PROVE WellMade(Turn(E, t), E)
  <2>1. Turn(E, t).id = t /\ Turn(E, t).events = TurnEvents(E, t) /\ t \in DOMAIN E
    BY DEF Turn, TurnStarts
  <2>2. t \in TurnEvents(E, t) /\ TurnEvents(E, t) \subseteq DOMAIN E
    BY <2>1 DEF TurnEvents
  <2>3. ASSUME NEW o \in TurnEvents(E, t), E[o] \in Prompts PROVE o = t
    <3>1. o \in DOMAIN E /\ t <= o /\ \A u \in TurnStarts(E) : u <= o => u <= t
      BY DEF TurnEvents
    <3>2. o <= t
      BY <1>1, <2>3, <3>1
    <3>3. QED BY <1>1, <2>1, <3>1, <3>2
  <2>4. QED BY <2>1, <2>2, <2>3 DEF WellMade
<1>3. \A t \in GroupIntoTurns(E) : WellMade(t, E)
  BY <1>2 DEF GroupIntoTurns
<1>4. Unique(GroupIntoTurns(E))
  BY TurnIds DEF Unique
<1>5. \A o \in TurnStarts(E) : Turn(E, o) \in GroupIntoTurns(E) /\ Turn(E, o).id = o
  BY DEF GroupIntoTurns, Turn
<1>6. QED BY <1>1, <1>3, <1>4, <1>5 DEF Tells

LEMMA TimeGroupsTell ==
    ASSUME NEW E, DOMAIN E \subseteq Nat, IsFiniteSet(DOMAIN E), NEW T, TimesOf(E, T)
    PROVE  Tells(GroupInTime(E, T), E)
<1> DEFINE X == Sorted(E, T)
           at(i) == OffsetAt(E, T, i)
           back(t) == [id |-> at(t.id), ord |-> t.ord, events |-> {at(i) : i \in t.events}]
<1>1. DOMAIN X \subseteq Nat
  BY SortedEvents
<1>2. \A o \in DOMAIN E : \E i \in DOMAIN X : at(i) = o /\ X[i] = E[o]
  BY SortedEvents
<1>3. \A i \in DOMAIN X :
         at(i) \in DOMAIN E /\ Place(E, T, at(i)) = i /\ X[i] = E[at(i)]
  BY SortedEvents
<1>4. GroupInTime(E, T) = {back(t) : t \in GroupIntoTurns(X)}
  BY DEF GroupInTime
<1>5. \A i, j \in DOMAIN X : at(i) = at(j) => i = j
  BY <1>3
<1> HIDE DEF X, at
<1>6. Tells(GroupIntoTurns(X), X)
  BY <1>1, OffsetGroupsTell
<1>7. ASSUME NEW t \in GroupIntoTurns(X)
      PROVE  /\ t.id \in DOMAIN X /\ t.events \subseteq DOMAIN X /\ t.id \in t.events
             /\ \A i \in t.events : X[i] \in Prompts => i = t.id
  BY <1>6 DEF Tells, WellMade
<1>8. ASSUME NEW t \in GroupIntoTurns(X) PROVE WellMade(back(t), E)
  <2>1. back(t).id = at(t.id) /\ back(t).events = {at(i) : i \in t.events}
    OBVIOUS
  <2> HIDE DEF back
  <2>2. QED BY <1>3, <1>7, <2>1 DEF WellMade
<1>9. ASSUME NEW t \in GroupIntoTurns(X), NEW u \in GroupIntoTurns(X), back(t).id = back(u).id
      PROVE  back(t) = back(u)
  <2>1. t.id = u.id
    BY <1>5, <1>7, <1>9
  <2>2. t = u
    BY <1>6, <2>1 DEF Tells, Unique
  <2>3. QED BY <2>2
<1>10. ASSUME NEW o \in DOMAIN E, E[o] \in Prompts
       PROVE  \E t \in GroupIntoTurns(X) : back(t).id = o
  <2>1. PICK i \in DOMAIN X : at(i) = o /\ X[i] = E[o]
    BY <1>2
  <2>2. PICK t \in GroupIntoTurns(X) : t.id = i
    BY <1>6, <1>10, <2>1 DEF Tells
  <2>3. QED BY <2>1, <2>2
<1> HIDE DEF back
<1>11. QED BY <1>4, <1>8, <1>9, <1>10 DEF Tells, Unique

\* From its first turn on, at or before the offset o, a plan tells every prompt.
PlanFits(p, E, o) ==
    /\ p.from \in Nat /\ p.from <= o /\ Unique(p.turns)
    /\ \A t \in p.turns : p.from <= t.id /\ WellMade(t, E)
    /\ \A q \in DOMAIN E : p.from <= q /\ E[q] \in Prompts => \E t \in p.turns : t.id = q

(***************************************************************************)
(* What a rebuild of the stored events plans to write, from an anchor at   *)
(* or before the first inserted event, tells every prompt from there on.   *)
(***************************************************************************)
LEMMA PlanTells ==
    ASSUME NEW E, DOMAIN E \subseteq Nat, IsFiniteSet(DOMAIN E), NEW T, TimesOf(E, T),
           NEW turns, \A t \in turns : WellMade(t, E), NEW o1 \in Nat
    PROVE  PlanFits(PlanAfterInsert(turns, E, T, o1), E, o1)
<1> DEFINE p == PlanAfterInsert(turns, E, T, o1)
           anchors == RebuildAnchor(turns, o1)
           anchor == CHOOSE a \in anchors : TRUE
<1>1. CASE p = FullPlan(E, T)
  <2>1. p.from = 0 /\ p.turns = GroupInTime(E, T)
    BY <1>1 DEF FullPlan
  <2>2. Tells(p.turns, E)
    BY <2>1, TimeGroupsTell
  <2>3. \A t \in p.turns : t.id \in Nat
    BY <2>2 DEF Tells, WellMade
  <2>4. QED BY <2>1, <2>2, <2>3 DEF Tells, PlanFits
<1>2. CASE p # FullPlan(E, T)
  <2>1. anchors # {} /\ p = SuffixPlan(E, anchor)
    BY <1>2 DEF PlanAfterInsert
  <2>2. anchor \in turns /\ anchor.id <= o1
    BY <2>1 DEF RebuildAnchor
  <2> HIDE DEF anchor, anchors
  <2>3. anchor.id \in Nat
    BY <2>2 DEF WellMade
  <2> DEFINE F == EventsFrom(E, anchor.id)
             moved(t) == [t EXCEPT !.ord = anchor.ord + @]
  <2>4. DOMAIN F = {x \in DOMAIN E : anchor.id <= x} /\ \A x \in DOMAIN F : F[x] = E[x]
    BY DEF EventsFrom
  <2>5. p.from = anchor.id /\ p.turns = {moved(t) : t \in GroupIntoTurns(F)}
    BY <2>1 DEF SuffixPlan
  <2> HIDE DEF F
  <2>6. Tells(GroupIntoTurns(F), F)
    BY <2>4, OffsetGroupsTell
  <2>7. \A t \in GroupIntoTurns(F) : moved(t).id = t.id /\ moved(t).events = t.events
    BY DEF GroupIntoTurns, Turn
  <2> HIDE DEF moved
  <2>8. \A t \in p.turns : p.from <= t.id /\ WellMade(t, E)
    BY <2>4, <2>5, <2>6, <2>7 DEF Tells, WellMade
  <2>9. Unique(p.turns)
    BY <2>5, <2>6, <2>7 DEF Tells, Unique
  <2>10. \A o \in DOMAIN E : p.from <= o /\ E[o] \in Prompts => \E t \in p.turns : t.id = o
    BY <2>4, <2>5, <2>6, <2>7 DEF Tells
  <2>11. QED BY <2>2, <2>3, <2>5, <2>8, <2>9, <2>10 DEF PlanFits
<1>3. QED BY <1>1, <1>2

(***************************************************************************)
(* A pass over a file comes to its end once begun: the task does not die   *)
(* in it, and its statements other than reads and inserts succeed.  What   *)
(* is lost there is only made up for by the next insert of the session.    *)
(***************************************************************************)
PassesComplete == Mishaps \cap {"crash", "set_offset", "rebuild"} = {}

LEMMA InitRotation == ASSUME Init PROVE RotationInv
<1>1. TypeOK
  BY InitIInv DEF IInv
<1>2. DOMAIN EmptyRows = {} /\ \A s \in Sessions : rows[s] = EmptyRows /\ timeline[s] = {}
  BY DEF Init, EmptyRows
<1>3. \A s \in Sessions : IsFiniteSet(DOMAIN rows[s])
  BY <1>2, FS_EmptySet
<1>4. PromptsKept /\ PlanCovers
  BY <1>2 DEF Init, PromptsKept, PlanCovers
<1>5. QED BY <1>1, <1>2, <1>3, <1>4 DEF RotationInv, Unique

(***************************************************************************)
(* The steps that touch neither the rows nor the timeline.                 *)
(***************************************************************************)
LEMMA ReadingRotation ==
    ASSUME RotationInv, [Next]_vars, PassesComplete,
           ~InsertEvent, ~LoadProjection, ~CommitProjection
    PROVE  UNCHANGED <<rows, timeline>> /\ PromptsKept' /\ PlanCovers'
<1>1. TypeOK /\ PromptsKept /\ PlanCovers
  BY DEF RotationInv
<1>2. cur.session \in Sessions /\ cursor \in Nat /\ first \in Nat \cup {None}
  BY <1>1 DEF TypeOK, DirtyFile
<1> DEFINE Done == UNCHANGED <<rows, timeline>> /\ PromptsKept' /\ PlanCovers'
<1> SUFFICES Done
  OBVIOUS
<1>3. ASSUME UNCHANGED <<rows, timeline, pc, cur, first, plan>>, cursor' \in Nat, cursor <= cursor'
      PROVE  Done
  <2>1. \A s \in Sessions : Untold(s)' = Untold(s)
    BY <1>3 DEF Untold, InPass, PromptsFrom
  <2>2. first <= cursor => first <= cursor'
    BY <1>2, <1>3 DEF None
  <2>3. PlanCovers'
    BY <1>1, <1>3 DEF PlanCovers, PromptsFrom
  <2>4. QED BY <1>1, <1>3, <2>1, <2>2, <2>3 DEF PromptsKept
<1>4. ASSUME UNCHANGED <<rows, timeline>>, \A s \in Sessions : Untold(s) = {} /\ Untold(s)' = {},
             pc' = "lines" => first' <= cursor', pc' \notin {"rebuild", "commit"}
      PROVE  Done
  BY <1>1, <1>4 DEF PromptsKept, PlanCovers
<1>5. ASSUME UNCHANGED <<rows, timeline>>, pc \in {"idle", "file"}, pc' \in {"idle", "file"}
      PROVE  Done
  BY <1>4, <1>5 DEF Untold, InPass
<1> HIDE DEF Done
<1>6. CASE AgentStep
  BY <1>2, <1>3, <1>6 DEF AgentStep, AgentWrites, dbVars, taskVars
<1>7. CASE UNCHANGED vars
  BY <1>2, <1>3, <1>7 DEF vars, dbVars, taskVars
<1>8. ASSUME NEW s \in Sessions, NEW content \in Contents, Replace(s, content)
      PROVE  Done
  BY <1>2, <1>3, <1>8 DEF Replace, dbVars, taskVars
<1>9. CASE SkipLine \/ InsertFails
  <2>1. cursor' \in Nat /\ cursor < cursor'
    BY <1>1, <1>9, LineAdvances DEF SkipLine, InsertFails
  <2>2. UNCHANGED <<rows, timeline, pc, cur, first, plan>>
    BY <1>9 DEF SkipLine, InsertFails, dbVars
  <2>3. QED BY <1>2, <1>3, <2>1, <2>2
<1>10. CASE Scan
  BY <1>5, <1>10 DEF Scan, dbVars
<1>11. ASSUME NEW d \in queue, ResetOffset(d) \/ SkipFile(d) PROVE Done
  BY <1>5, <1>11 DEF ResetOffset, SkipFile
<1>12. ASSUME NEW d \in queue, OpenFile(d) PROVE Done
  <2>1. /\ pc = "file" /\ pc' = "lines" /\ first' = None /\ cursor' = d.committed
        /\ UNCHANGED <<rows, timeline>>
    BY <1>12 DEF OpenFile
  <2>2. d.committed \in Nat
    BY <1>1 DEF TypeOK, DirtyFile
  <2>3. \A s \in Sessions : Untold(s) = {} /\ Untold(s)' = {}
    BY <2>1 DEF Untold, InPass
  <2>4. QED BY <1>4, <2>1, <2>2, <2>3 DEF None
<1>13. CASE CommitOffset
  <2>1. /\ pc = "lines" /\ UNCHANGED <<rows, timeline, cur, cursor, first, plan>>
        /\ pc' = IF first = None THEN NextFile ELSE "rebuild"
    BY <1>13 DEF CommitOffset, AfterLines
  <2>2. CASE first = None
    <3>1. pc' \in {"idle", "file"}
      BY <2>1, <2>2 DEF NextFile
    <3>2. \A s \in Sessions : Untold(s) = {} /\ Untold(s)' = {}
      BY <2>1, <2>2, <3>1 DEF Untold, InPass
    <3>3. QED BY <1>4, <2>1, <3>1, <3>2
  <2>3. CASE first # None
    <3>1. pc' = "rebuild"
      BY <2>1, <2>3
    <3>2. \A s \in Sessions : Untold(s)' = Untold(s)
      BY <2>1, <3>1 DEF Untold, InPass, PromptsFrom
    <3>3. QED BY <1>1, <2>1, <2>3, <3>1, <3>2 DEF PromptsKept, PlanCovers, Done
  <2>4. QED BY <2>2, <2>3
<1>14. ~CommitOffsetFails /\ ~RebuildFails /\ ~Crash
  BY DEF PassesComplete, CommitOffsetFails, RebuildFails, Crash, Mishap
<1>15. QED
  BY <1>6, <1>7, <1>8, <1>9, <1>10, <1>11, <1>12, <1>13, <1>14
  DEF Next, IngesterStep, MishapStep

(***************************************************************************)
(* An insert: a new row lies at the cursor, so not before the first of the *)
(* pass, and the turns there are run across no offset that is not stored.  *)
(***************************************************************************)
LEMMA InsertRotation ==
    ASSUME RotationInv, InsertEvent
    PROVE  /\ PromptsKept' /\ PlanCovers'
           /\ \A r \in Sessions :
                 /\ IsFiniteSet(DOMAIN rows'[r])
                 /\ Unique(timeline'[r]) /\ \A t \in timeline'[r] : WellMade(t, rows'[r])
<1> DEFINE s == cur.session
<1>1. /\ TypeOK /\ PromptsKept
      /\ \A r \in Sessions :
            /\ IsFiniteSet(DOMAIN rows[r])
            /\ Unique(timeline[r]) /\ \A t \in timeline[r] : WellMade(t, rows[r])
  BY DEF RotationInv
<1>2. /\ s \in Sessions
      /\ \A r \in Sessions \ {s} : rows'[r] = rows[r]
      /\ DOMAIN rows'[s] = DOMAIN rows[s] \cup {cursor}
      /\ \A o \in DOMAIN rows[s] : rows'[s][o] = rows[s][o]
  BY <1>1, InsertedRow
<1>3. /\ pc = "lines" /\ UNCHANGED <<timeline, pc, cur, plan>>
      /\ first' = IF cursor \notin DOMAIN rows[s] /\ first = None THEN cursor ELSE first
      /\ cursor' \in Nat /\ cursor < cursor' /\ cursor \in Nat
      /\ first \in Nat \cup {None} /\ first <= cursor
  BY <1>1, LineAdvances DEF InsertEvent, TypeOK, PromptsKept
<1>4. \A r \in Sessions : IsFiniteSet(DOMAIN rows'[r])
  BY <1>1, <1>2, FS_AddElement
<1>5. ASSUME NEW r \in Sessions, NEW t \in timeline'[r]
      PROVE  WellMade(t, rows'[r])
  <2>1. WellMade(t, rows[r])
    BY <1>1, <1>3
  <2>2. QED BY <1>2, <2>1 DEF WellMade
<1>6. first' <= cursor'
  BY <1>3 DEF None
<1>7. ASSUME NEW r \in Sessions, NEW o \in DOMAIN rows'[r], rows'[r][o] \in Prompts
      PROVE  o \in Untold(r)' \/ \E t \in timeline'[r] : t.id = o
  <2>1. CASE o \in DOMAIN rows[r]
    <3>1. rows[r][o] \in Prompts
      BY <1>2, <1>7, <2>1
    <3>2. o \in Untold(r) \/ \E t \in timeline'[r] : t.id = o
      BY <1>1, <1>3, <2>1, <3>1 DEF PromptsKept
    <3>3. ASSUME o \in Untold(r) PROVE o \in Untold(r)'
      <4>1. r = s /\ first # None /\ first <= o
        BY <1>3, <3>3 DEF Untold, InPass, PromptsFrom
      <4>2. first' = first
        BY <1>3, <4>1
      <4>3. InPass(r)'
        BY <1>3, <4>1 DEF InPass
      <4>4. QED BY <1>7, <4>1, <4>2, <4>3 DEF Untold, PromptsFrom
    <3>4. QED BY <3>2, <3>3
  <2>2. CASE o \notin DOMAIN rows[r]
    <3>1. r = s /\ o = cursor
      BY <1>2, <2>2
    <3>2. first' # None /\ first' <= o
      BY <1>3, <2>2, <3>1 DEF None
    <3>3. InPass(r)'
      BY <1>3, <3>1 DEF InPass
    <3>4. QED BY <1>7, <3>2, <3>3 DEF Untold, PromptsFrom
  <2>3. QED BY <2>1, <2>2
<1>8. PromptsKept' /\ PlanCovers'
  BY <1>3, <1>6, <1>7 DEF PromptsKept, PlanCovers
<1>9. QED BY <1>1, <1>3, <1>4, <1>5, <1>8

(***************************************************************************)
(* The rebuild of the pass makes up for the prompts without a turn.        *)
(***************************************************************************)
LEMMA LoadRotation ==
    ASSUME RotationInv, LoadProjection
    PROVE  UNCHANGED <<rows, timeline>> /\ PromptsKept' /\ PlanCovers'
<1> DEFINE s == cur.session
<1>1. /\ pc = "rebuild" /\ pc' = "commit"
      /\ plan' = PlanAfterInsert(timeline[s], rows[s], times[s], first)
      /\ UNCHANGED <<rows, times, timeline, cur, first>>
  BY DEF LoadProjection, dbVars
<1>2. /\ TypeOK /\ PromptsKept /\ s \in Sessions
      /\ IsFiniteSet(DOMAIN rows[s]) /\ \A t \in timeline[s] : WellMade(t, rows[s])
  BY DEF RotationInv, TypeOK, DirtyFile
<1>3. first \in Nat /\ DOMAIN rows[s] \subseteq Nat /\ TimesOf(rows[s], times[s])
  BY <1>1, <1>2 DEF PromptsKept, TypeOK, TimesOf
<1>4. PlanFits(plan', rows[s], first)
  <2> DEFINE turns == timeline[s]
             E == rows[s]
             T == times[s]
  <2>1. DOMAIN E \subseteq Nat /\ IsFiniteSet(DOMAIN E) /\ TimesOf(E, T)
          /\ \A t \in turns : WellMade(t, E)
    BY <1>2, <1>3
  <2>2. plan' = PlanAfterInsert(turns, E, T, first)
    BY <1>1
  <2> HIDE DEF turns, E, T
  <2>3. PlanFits(PlanAfterInsert(turns, E, T, first), E, first)
    BY <1>3, <2>1, PlanTells
  <2>4. QED BY <2>2, <2>3 DEF E
<1>5. PlanCovers'
  BY <1>1, <1>4 DEF PlanCovers, PromptsFrom, PlanFits
<1>6. \A r \in Sessions : Untold(r)' = Untold(r)
  BY <1>1 DEF Untold, InPass, PromptsFrom
<1>7. first # None
  BY <1>3 DEF None
<1>8. PromptsKept'
  BY <1>1, <1>2, <1>6, <1>7 DEF PromptsKept
<1>9. QED BY <1>1, <1>5, <1>8

LEMMA CommitRotation ==
    ASSUME RotationInv, CommitProjection
    PROVE  /\ UNCHANGED rows /\ PromptsKept' /\ PlanCovers'
           /\ \A r \in Sessions :
                 Unique(timeline'[r]) /\ \A t \in timeline'[r] : WellMade(t, rows[r])
<1> DEFINE s == cur.session
           kept == {t \in timeline[s] : t.id < plan.from}
<1>1. /\ pc = "commit" /\ pc' \in {"idle", "file"}
      /\ timeline' = [timeline EXCEPT ![s] = ApplyPlan(timeline[s], plan)]
      /\ UNCHANGED rows
  BY DEF CommitProjection, NextFile
<1>2. /\ TypeOK /\ PromptsKept /\ PlanCovers /\ s \in Sessions
      /\ \A r \in Sessions :
            Unique(timeline[r]) /\ \A t \in timeline[r] : WellMade(t, rows[r])
  BY DEF RotationInv, TypeOK, DirtyFile
<1>3. /\ plan.from \in Nat /\ plan.from <= first /\ Unique(plan.turns)
      /\ \A t \in plan.turns : plan.from <= t.id /\ WellMade(t, rows[s])
      /\ \A o \in PromptsFrom(s, plan.from) : \E t \in plan.turns : t.id = o
  BY <1>1, <1>2 DEF PlanCovers
<1>4. /\ timeline'[s] = kept \cup plan.turns
      /\ \A r \in Sessions \ {s} : timeline'[r] = timeline[r]
  BY <1>1, <1>2 DEF TypeOK, ApplyPlan
<1>5. DOMAIN rows[s] \subseteq Nat /\ first \in Nat
  BY <1>1, <1>2 DEF TypeOK, PromptsKept
<1>6. \A t \in kept \cup plan.turns : t.id \in Nat /\ WellMade(t, rows[s])
  BY <1>2, <1>3, <1>5 DEF WellMade
<1>7. Unique(kept \cup plan.turns)
  <2>1. \A t \in kept, u \in plan.turns : t.id # u.id
    BY <1>3, <1>6
  <2>2. \A t, u \in kept : t.id = u.id => t = u
    BY <1>2 DEF Unique
  <2>3. QED BY <1>3, <2>1, <2>2 DEF Unique
<1>8. ASSUME NEW r \in Sessions, NEW o \in DOMAIN rows[r], rows[r][o] \in Prompts
      PROVE  \E t \in timeline'[r] : t.id = o
  <2>1. o \in Untold(r) \/ \E t \in timeline[r] : t.id = o
    BY <1>2, <1>8 DEF PromptsKept
  <2>2. CASE r # s
    BY <1>4, <2>1, <2>2 DEF Untold, InPass
  <2>3. CASE r = s /\ plan.from <= o
    BY <1>3, <1>4, <1>8, <2>3 DEF PromptsFrom
  <2>4. CASE r = s /\ ~(plan.from <= o)
    <3>1. o \in Nat /\ o < plan.from /\ ~(first <= o)
      BY <1>3, <1>5, <2>4
    <3>2. o \notin Untold(r)
      BY <3>1 DEF Untold, PromptsFrom
    <3>3. QED BY <1>4, <2>1, <2>4, <3>1, <3>2
  <2>5. QED BY <2>2, <2>3, <2>4
<1>9. PromptsKept' /\ PlanCovers'
  BY <1>1, <1>8 DEF PromptsKept, PlanCovers
<1> HIDE DEF kept
<1>10. ASSUME NEW r \in Sessions
       PROVE  Unique(timeline'[r]) /\ \A t \in timeline'[r] : WellMade(t, rows[r])
  BY <1>2, <1>4, <1>6, <1>7
<1>11. QED BY <1>1, <1>9, <1>10

LEMMA RotationStep ==
    ASSUME PassesComplete, RotationInv, [Next]_vars
    PROVE  RotationInv'
<1>1. TypeOK'
  BY TypesStep DEF RotationInv
<1>2. CASE InsertEvent
  BY <1>1, <1>2, InsertRotation DEF RotationInv
<1>3. CASE LoadProjection
  BY <1>1, <1>3, LoadRotation DEF RotationInv
<1>4. CASE CommitProjection
  BY <1>1, <1>4, CommitRotation DEF RotationInv
<1>5. CASE ~InsertEvent /\ ~LoadProjection /\ ~CommitProjection
  BY <1>1, <1>5, ReadingRotation DEF RotationInv
<1>6. QED BY <1>2, <1>3, <1>4, <1>5

(***************************************************************************)
(* Between ticks every stored prompt begins one turn and no turn runs      *)
(* across a prompt, also after a transcript was truncated or written anew  *)
(* and records that are later in time were stored before and between old   *)
(* ones.                                                                   *)
(***************************************************************************)
THEOREM PromptsKeepTheirTurns == ASSUME PassesComplete PROVE Spec => []PromptsBeginTurns
<1>1. Init => RotationInv
  BY InitRotation
<1>2. RotationInv /\ [Next]_vars => RotationInv'
  BY RotationStep
<1>3. RotationInv => PromptsBeginTurns
  <2>1. SUFFICES ASSUME RotationInv, pc = "idle", NEW s \in Sessions
                 PROVE  /\ \A o \in DOMAIN rows[s] :
                              rows[s][o] \in Prompts => \E t \in timeline[s] : t.id = o
                        /\ \A t \in timeline[s] : \A o \in t.events :
                              rows[s][o] \in Prompts => o = t.id
                        /\ \A t, u \in timeline[s] : t.id = u.id => t = u
    BY DEF PromptsBeginTurns
  <2>2. Untold(s) = {}
    BY <2>1 DEF Untold, InPass
  <2>3. \A o \in DOMAIN rows[s] : rows[s][o] \in Prompts => \E t \in timeline[s] : t.id = o
    BY <2>1, <2>2 DEF RotationInv, PromptsKept
  <2>4. Unique(timeline[s]) /\ \A t \in timeline[s] : WellMade(t, rows[s])
    BY <2>1 DEF RotationInv
  <2>5. QED BY <2>3, <2>4 DEF Unique, WellMade
<1>4. QED BY <1>1, <1>2, <1>3, PTL DEF Spec

=============================================================================
