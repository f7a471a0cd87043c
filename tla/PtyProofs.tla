----------------------------- MODULE PtyProofs -----------------------------
(***************************************************************************)
(* Proofs about PTY sessions and their agents, for any number of sessions, *)
(* requests and agent types.  Types, Lifecycle and NoAgentAfterEnd hold    *)
(* under every mishap; the others say which ones they exclude.             *)
(***************************************************************************)
EXTENDS PtyProperties, TLAPS

LEMMA InitTypes == Init => TypeOK
  BY AgentsAssumption DEF Init, PtyInit, TypeOK, PtyTypeOK, AgentTypeOK, Rows, Runtimes,
     Shells,
     Credentials, Spawning, Supervising, Deletion, Launcher, Request, NoLauncher, Idle

LEMMA FollowTypes ==
  ASSUME PtyTypeOK, AgentTypeOK, AgentsFollow
  PROVE  AgentTypeOK'
<1>1. launcher' \in [Ptys -> Launcher]
  BY DEF PtyTypeOK, AgentTypeOK, AgentsFollow, Launcher, NoLauncher
<1>2. wire' \subseteq Report /\ starter' \in [Starters -> Request]
  BY DEF AgentTypeOK, AgentsFollow, Request, Idle
<1>. QED BY <1>1, <1>2 DEF AgentTypeOK

LEMMA PtyTypes ==
  ASSUME PtyTypeOK, PtyStep
  PROVE  PtyTypeOK'
<1>. USE DEF PtyTypeOK, rowVars
<1>1. ASSUME NEW p \in Ptys, NEW a \in Agents \cup {NoAgent}, RegisterCredential(p, a)
      PROVE  PtyTypeOK'
  BY <1>1 DEF RegisterCredential, SpawnMoves, Credentials, Spawning
<1>2. ASSUME NEW p \in Ptys, StartShell(p)
      PROVE  PtyTypeOK'
  BY <1>2 DEF StartShell, SpawnMoves, Spawning, Shells
<1>3. ASSUME NEW p \in Ptys, InsertRow(p)
      PROVE  PtyTypeOK'
  BY <1>3 DEF InsertRow, SpawnMoves, Spawning, Rows, Runtimes
<1>4. ASSUME NEW p \in Ptys, AdoptSession(p)
      PROVE  PtyTypeOK'
  BY <1>4 DEF AdoptSession, SpawnMoves, Spawning, Supervising
<1>5. ASSUME NEW p \in Ptys, ShellExits(p)
      PROVE  PtyTypeOK'
  BY <1>5 DEF ShellExits, Shells
<1>6. ASSUME NEW p \in Ptys, Reap(p)
      PROVE  PtyTypeOK'
  BY <1>6 DEF Reap, Supervise, Supervising
<1>7. ASSUME NEW p \in Ptys, Unmap(p)
      PROVE  PtyTypeOK'
  BY <1>7 DEF Unmap, Supervise, Supervising
<1>8. ASSUME NEW p \in Ptys, RecordDead(p)
      PROVE  PtyTypeOK'
  BY <1>8 DEF RecordDead, Supervise, Supervising, Rows, Runtimes, Ended, Markable
<1>9. ASSUME NEW p \in Ptys, RevokeAfterExit(p)
      PROVE  PtyTypeOK'
  BY <1>9 DEF RevokeAfterExit, Supervise, Supervising, Revoked, RevokeFails, Credentials
<1>10. ASSUME NEW d \in Deleters, EnsureGone(d)
      PROVE  PtyTypeOK'
  BY <1>10 DEF EnsureGone, DeleteMoves, Deletion, Deleting, Idle, SigKill, Shells
<1>11. ASSUME NEW d \in Deleters, RecordDeleted(d)
      PROVE  PtyTypeOK'
  BY <1>11 DEF RecordDeleted, DeleteMoves, Deletion, Deleting, Idle, Rows
<1>12. ASSUME NEW d \in Deleters, RevokeAfterDelete(d)
      PROVE  PtyTypeOK'
  BY <1>12 DEF RevokeAfterDelete, DeleteMoves, Deletion, Deleting, Idle, Revoked,
     RevokeFails, Credentials
<1>13. ASSUME NEW d \in Deleters, NEW p \in Ptys, BeginDelete(d, p)
      PROVE  PtyTypeOK'
  BY <1>13 DEF BeginDelete, DeleteMoves, Deletion, Deleting, Idle
<1>14. ASSUME NEW p \in Ptys, AbandonSpawn(p)
      PROVE  PtyTypeOK'
  BY <1>14 DEF AbandonSpawn, SpawnMoves, Spawning
<1>15. ASSUME NEW p \in Ptys, RecordDeadFails(p)
      PROVE  PtyTypeOK'
  BY <1>15 DEF RecordDeadFails, Supervise, Supervising
<1>16. ASSUME NEW d \in Deleters, AbandonDelete(d)
      PROVE  PtyTypeOK'
  BY <1>16 DEF AbandonDelete, DeleteMoves, Deletion
<1>17. CASE Crash
  BY <1>17 DEF Crash, Shells, Spawning, Supervising, Deletion
<1>18. CASE Restart
  BY <1>18 DEF Restart, Rows, Runtimes, Ended, Reconciled
<1>. QED BY <1>1, <1>2, <1>3, <1>4, <1>5, <1>6, <1>7, <1>8, <1>9, <1>10, <1>11, <1>12,
     <1>13, <1>14, <1>15, <1>16, <1>17, <1>18
     DEF PtyStep, SpawnStep, SupervisorStep, DeleteStep, PtyMishap

LEMMA AgentTypes ==
  ASSUME TypeOK, Next, ~(PtyStep /\ AgentsFollow)
  PROVE  TypeOK'
<1>. USE DEF TypeOK, PtyTypeOK, AgentTypeOK, ptyVars, rowVars
<1>1. ASSUME NEW p \in Ptys, NEW a \in Agents, Launch(p, a)
      PROVE  TypeOK'
  BY <1>1 DEF Launch, Sends, NoLauncher, Launcher, Report
<1>2. ASSUME NEW p \in Ptys, RunAgent(p)
      PROVE  TypeOK'
  BY <1>2 DEF RunAgent, Proceeds, Launcher, NoLauncher
<1>3. ASSUME NEW p \in Ptys, AgentEnds(p)
      PROVE  TypeOK'
  BY <1>3 DEF AgentEnds, Sends, Launcher, NoLauncher, Report
<1>4. ASSUME NEW p \in Ptys, Leave(p)
      PROVE  TypeOK'
  BY <1>4 DEF Leave, Proceeds, Launcher, NoLauncher
<1>5. ASSUME NEW r \in wire, ApplyReport(r)
      PROVE  TypeOK'
  BY <1>5 DEF ApplyReport, ApplyRunning, ApplyExited, LiveRow, Ends, Runtimes, Report
<1>6. ASSUME NEW r \in wire, ReportLost(r)
      PROVE  TypeOK'
  BY <1>6 DEF ReportLost
<1>7. ASSUME NEW s \in Starters, NEW p \in Ptys, NEW a \in Agents, CheckStart(s, p, a)
      PROVE  TypeOK'
  BY <1>7 DEF CheckStart, StarterMoves, Request
<1>8. ASSUME NEW s \in Starters, MarkStarting(s)
      PROVE  TypeOK'
  BY <1>8 DEF MarkStarting, StarterMoves, Request, Idle, Startable, Runtimes
<1>9. ASSUME NEW s \in Starters, TypeCommand(s)
      PROVE  TypeOK'
  BY <1>9 DEF TypeCommand, StarterMoves, Request, Idle
<1>10. ASSUME NEW s \in Starters, ReadCommand(s)
      PROVE  TypeOK'
  BY <1>10 DEF ReadCommand, Sends, Request, Idle, Launcher, NoLauncher, Report
<1>11. ASSUME NEW s \in Starters, AbandonStart(s)
      PROVE  TypeOK'
  BY <1>11 DEF AbandonStart, StarterMoves, Request, Idle
<1>. QED BY <1>1, <1>2, <1>3, <1>4, <1>5, <1>6, <1>7, <1>8, <1>9, <1>10, <1>11
     DEF Next, LauncherStep, StartStep

-----------------------------------------------------------------------------
\* TypeOK is an invariant: no sequence of steps puts a value outside its type
\* into a column, the map, a task or a request.
THEOREM Types == Spec => []TypeOK
<1>1. TypeOK /\ [Next]_vars => TypeOK'
  <2>. SUFFICES ASSUME TypeOK, [Next]_vars PROVE TypeOK'
    OBVIOUS
  <2>1. CASE PtyStep /\ AgentsFollow
    BY <2>1, PtyTypes, FollowTypes DEF TypeOK
  <2>2. CASE Next /\ ~(PtyStep /\ AgentsFollow)
    BY <2>2, AgentTypes
  <2>3. CASE UNCHANGED vars
    BY <2>3 DEF vars, ptyVars, rowVars, agentVars, TypeOK, PtyTypeOK, AgentTypeOK
  <2>. QED BY <2>1, <2>2, <2>3
<1>. QED BY <1>1, InitTypes, PTL DEF Spec

\* What the agents' own steps leave alone.
LEMMA AgentsLeave ==
  ASSUME [Next]_vars, ~(PtyStep /\ AgentsFollow)
  PROVE  UNCHANGED <<up, row, sessions, shell, spawn, supervisor, delete>>
  BY DEF Next, LauncherStep, StartStep, Launch, RunAgent, AgentEnds, Leave, Proceeds,
     ApplyReport,
     ReportLost, CheckStart, MarkStarting, TypeCommand, ReadCommand, AbandonStart,
     StarterMoves,
     vars, ptyVars, rowVars

-----------------------------------------------------------------------------
(* The life of a row.                                                      *)

\* There is no row before the INSERT, and none is deleted before it is there.
RowInv ==
    /\ \A p \in Ptys : spawn[p] \in {"new", "registered", "started"} => row[p] = "none"
    /\ \A d \in Deleters : delete[d].pc # "idle" => row[delete[d].pty] # "none"

RowStep == \A p \in Ptys : row'[p] # row[p] => <<row[p], row'[p]>> \in Forward

LEMMA RowSteps ==
  ASSUME TypeOK, RowInv, PtyStep
  PROVE  RowInv' /\ RowStep
<1>. USE DEF TypeOK, PtyTypeOK, RowInv, RowStep, Forward, rowVars, Deletion, Idle
<1>1. ASSUME NEW p \in Ptys, NEW a \in Agents \cup {NoAgent}, RegisterCredential(p, a)
      PROVE  RowInv' /\ RowStep
  BY <1>1 DEF RegisterCredential, SpawnMoves
<1>2. ASSUME NEW p \in Ptys, StartShell(p)
      PROVE  RowInv' /\ RowStep
  BY <1>2 DEF StartShell, SpawnMoves
<1>3. ASSUME NEW p \in Ptys, InsertRow(p)
      PROVE  RowInv' /\ RowStep
  BY <1>3 DEF InsertRow, SpawnMoves
<1>4. ASSUME NEW p \in Ptys, AdoptSession(p)
      PROVE  RowInv' /\ RowStep
  BY <1>4 DEF AdoptSession, SpawnMoves
<1>5. ASSUME NEW p \in Ptys, ShellExits(p)
      PROVE  RowInv' /\ RowStep
  BY <1>5 DEF ShellExits
<1>6. ASSUME NEW p \in Ptys, Reap(p)
      PROVE  RowInv' /\ RowStep
  BY <1>6 DEF Reap, Supervise
<1>7. ASSUME NEW p \in Ptys, Unmap(p)
      PROVE  RowInv' /\ RowStep
  BY <1>7 DEF Unmap, Supervise
<1>8. ASSUME NEW p \in Ptys, RecordDead(p)
      PROVE  RowInv' /\ RowStep
  BY <1>8 DEF RecordDead, Supervise, Ended, Markable
<1>9. ASSUME NEW p \in Ptys, RevokeAfterExit(p)
      PROVE  RowInv' /\ RowStep
  BY <1>9 DEF RevokeAfterExit, Supervise, Revoked, RevokeFails
<1>10. ASSUME NEW d \in Deleters, EnsureGone(d)
      PROVE  RowInv' /\ RowStep
  BY <1>10 DEF EnsureGone, DeleteMoves, SigKill
<1>11. ASSUME NEW d \in Deleters, RecordDeleted(d)
      PROVE  RowInv' /\ RowStep
  BY <1>11 DEF RecordDeleted, DeleteMoves, Rows
<1>12. ASSUME NEW d \in Deleters, RevokeAfterDelete(d)
      PROVE  RowInv' /\ RowStep
  BY <1>12 DEF RevokeAfterDelete, DeleteMoves, Revoked, RevokeFails
<1>13. ASSUME NEW d \in Deleters, NEW p \in Ptys, BeginDelete(d, p)
      PROVE  RowInv' /\ RowStep
  BY <1>13 DEF BeginDelete, DeleteMoves, Known
<1>14. ASSUME NEW p \in Ptys, AbandonSpawn(p)
      PROVE  RowInv' /\ RowStep
  BY <1>14 DEF AbandonSpawn, SpawnMoves
<1>15. ASSUME NEW p \in Ptys, RecordDeadFails(p)
      PROVE  RowInv' /\ RowStep
  BY <1>15 DEF RecordDeadFails, Supervise
<1>16. ASSUME NEW d \in Deleters, AbandonDelete(d)
      PROVE  RowInv' /\ RowStep
  BY <1>16 DEF AbandonDelete, DeleteMoves
<1>17. CASE Crash
  BY <1>17 DEF Crash
<1>18. CASE Restart
  BY <1>18 DEF Restart, Ended, Reconciled
<1>. QED BY <1>1, <1>2, <1>3, <1>4, <1>5, <1>6, <1>7, <1>8, <1>9, <1>10, <1>11, <1>12,
     <1>13, <1>14, <1>15, <1>16, <1>17, <1>18
     DEF PtyStep, SpawnStep, SupervisorStep, DeleteStep, PtyMishap

LEMMA RowInvariance == Spec => []RowInv
<1>1. Init => RowInv
  BY DEF Init, PtyInit, RowInv, Idle
<1>2. TypeOK /\ RowInv /\ [Next]_vars => RowInv'
  BY RowSteps, AgentsLeave DEF RowInv
<1>. QED BY <1>1, <1>2, Types, PTL DEF Spec

\* Rows only move forward: a session that ended is never live again and a
\* deleted one stays deleted (mark_dead, delete, reconcile_orphans_on_startup).
THEOREM Lifecycle == Spec => RowLifecycle
<1>1. TypeOK /\ RowInv /\ [Next]_vars => RowStep
  BY RowSteps, AgentsLeave DEF RowStep
<1>2. TypeOK /\ RowInv /\ [Next]_vars
        => [\A p \in Ptys : row'[p] # row[p] => <<row[p], row'[p]>> \in Forward]_vars
  BY <1>1 DEF RowStep
<1>. QED BY <1>2, Types, RowInvariance, PTL DEF Spec, RowLifecycle

-----------------------------------------------------------------------------
(* Ended sessions show no agent at work.                                   *)

LEMMA EndedPtySteps ==
  ASSUME TypeOK, EndedRuntime, PtyStep
  PROVE  EndedRuntime'
<1>. USE DEF TypeOK, PtyTypeOK, EndedRuntime, rowVars, Deletion, Idle
<1>1. ASSUME NEW p \in Ptys, NEW a \in Agents \cup {NoAgent}, RegisterCredential(p, a)
      PROVE  EndedRuntime'
  BY <1>1 DEF RegisterCredential, SpawnMoves
<1>2. ASSUME NEW p \in Ptys, StartShell(p)
      PROVE  EndedRuntime'
  BY <1>2 DEF StartShell, SpawnMoves
<1>3. ASSUME NEW p \in Ptys, InsertRow(p)
      PROVE  EndedRuntime'
  BY <1>3 DEF InsertRow, SpawnMoves
<1>4. ASSUME NEW p \in Ptys, AdoptSession(p)
      PROVE  EndedRuntime'
  BY <1>4 DEF AdoptSession, SpawnMoves
<1>5. ASSUME NEW p \in Ptys, ShellExits(p)
      PROVE  EndedRuntime'
  BY <1>5 DEF ShellExits
<1>6. ASSUME NEW p \in Ptys, Reap(p)
      PROVE  EndedRuntime'
  BY <1>6 DEF Reap, Supervise
<1>7. ASSUME NEW p \in Ptys, Unmap(p)
      PROVE  EndedRuntime'
  BY <1>7 DEF Unmap, Supervise
<1>8. ASSUME NEW p \in Ptys, RecordDead(p)
      PROVE  EndedRuntime'
  BY <1>8 DEF RecordDead, Supervise, Ended, Markable
<1>9. ASSUME NEW p \in Ptys, RevokeAfterExit(p)
      PROVE  EndedRuntime'
  BY <1>9 DEF RevokeAfterExit, Supervise, Revoked, RevokeFails
<1>10. ASSUME NEW d \in Deleters, EnsureGone(d)
      PROVE  EndedRuntime'
  BY <1>10 DEF EnsureGone, DeleteMoves, SigKill
<1>11. ASSUME NEW d \in Deleters, RecordDeleted(d)
      PROVE  EndedRuntime'
  BY <1>11 DEF RecordDeleted, DeleteMoves
<1>12. ASSUME NEW d \in Deleters, RevokeAfterDelete(d)
      PROVE  EndedRuntime'
  BY <1>12 DEF RevokeAfterDelete, DeleteMoves, Revoked, RevokeFails
<1>13. ASSUME NEW d \in Deleters, NEW p \in Ptys, BeginDelete(d, p)
      PROVE  EndedRuntime'
  BY <1>13 DEF BeginDelete, DeleteMoves
<1>14. ASSUME NEW p \in Ptys, AbandonSpawn(p)
      PROVE  EndedRuntime'
  BY <1>14 DEF AbandonSpawn, SpawnMoves
<1>15. ASSUME NEW p \in Ptys, RecordDeadFails(p)
      PROVE  EndedRuntime'
  BY <1>15 DEF RecordDeadFails, Supervise
<1>16. ASSUME NEW d \in Deleters, AbandonDelete(d)
      PROVE  EndedRuntime'
  BY <1>16 DEF AbandonDelete, DeleteMoves
<1>17. CASE Crash
  BY <1>17 DEF Crash
<1>18. CASE Restart
  BY <1>18 DEF Restart, Ended, Reconciled
<1>. QED BY <1>1, <1>2, <1>3, <1>4, <1>5, <1>6, <1>7, <1>8, <1>9, <1>10, <1>11, <1>12,
     <1>13, <1>14, <1>15, <1>16, <1>17, <1>18
     DEF PtyStep, SpawnStep, SupervisorStep, DeleteStep, PtyMishap

LEMMA EndedAgentSteps ==
  ASSUME TypeOK, EndedRuntime, Next, ~(PtyStep /\ AgentsFollow)
  PROVE  EndedRuntime'
<1>. USE DEF TypeOK, PtyTypeOK, AgentTypeOK, EndedRuntime
<1>1. row' = row
  BY AgentsLeave
<1>2. ASSUME NEW r \in wire, ApplyReport(r)
      PROVE  EndedRuntime'
  BY <1>1, <1>2 DEF ApplyReport, ApplyRunning, ApplyExited, LiveRow, Ends, Report
<1>3. ASSUME NEW s \in Starters, MarkStarting(s)
      PROVE  EndedRuntime'
  BY <1>1, <1>3 DEF MarkStarting, StarterMoves, Startable, Request, Idle
<1>4. CASE runtime' = runtime
  BY <1>1, <1>4
<1>. QED BY <1>2, <1>3, <1>4 DEF Next, LauncherStep, StartStep, Launch, RunAgent,
     AgentEnds, Leave,
     Proceeds, ReportLost, CheckStart, TypeCommand, ReadCommand, AbandonStart, StarterMoves,
     ptyVars, rowVars

\* No dead or orphaned session shows an agent as starting or running, however
\* late a report or a start request is (apply_runtime, mark_agent_starting).
THEOREM NoAgentAfterEnd == Spec => []EndedRuntime
<1>1. Init => EndedRuntime
  BY DEF Init, PtyInit, EndedRuntime
<1>2. TypeOK /\ EndedRuntime /\ [Next]_vars => EndedRuntime'
  <2>. SUFFICES ASSUME TypeOK, EndedRuntime, [Next]_vars PROVE EndedRuntime'
    OBVIOUS
  <2>1. CASE UNCHANGED vars
    BY <2>1 DEF vars, ptyVars, rowVars, EndedRuntime
  <2>. QED BY <2>1, EndedPtySteps, EndedAgentSteps
<1>. QED BY <1>1, <1>2, Types, PTL DEF Spec

-----------------------------------------------------------------------------
(* Live rows are supervised, and a deleted session leaves no shell.        *)

\* Every live row has a supervisor, unless spawn() was cut short or the UPDATE
\* of mark_dead failed.
LEMMA SupervisedSteps ==
  ASSUME TypeOK, LiveIsSupervised, PtyStep, Mishaps \cap {"hangup_create", "db"} = {}
  PROVE  LiveIsSupervised'
<1>. USE DEF TypeOK, PtyTypeOK, LiveIsSupervised, rowVars, Deletion, Idle
<1>1. ASSUME NEW p \in Ptys, NEW a \in Agents \cup {NoAgent}, RegisterCredential(p, a)
      PROVE  LiveIsSupervised'
  BY <1>1 DEF RegisterCredential, SpawnMoves
<1>2. ASSUME NEW p \in Ptys, StartShell(p)
      PROVE  LiveIsSupervised'
  BY <1>2 DEF StartShell, SpawnMoves
<1>3. ASSUME NEW p \in Ptys, InsertRow(p)
      PROVE  LiveIsSupervised'
  BY <1>3 DEF InsertRow, SpawnMoves
<1>4. ASSUME NEW p \in Ptys, AdoptSession(p)
      PROVE  LiveIsSupervised'
  BY <1>4 DEF AdoptSession, SpawnMoves
<1>5. ASSUME NEW p \in Ptys, ShellExits(p)
      PROVE  LiveIsSupervised'
  BY <1>5 DEF ShellExits
<1>6. ASSUME NEW p \in Ptys, Reap(p)
      PROVE  LiveIsSupervised'
  BY <1>6 DEF Reap, Supervise
<1>7. ASSUME NEW p \in Ptys, Unmap(p)
      PROVE  LiveIsSupervised'
  BY <1>7 DEF Unmap, Supervise
<1>8. ASSUME NEW p \in Ptys, RecordDead(p)
      PROVE  LiveIsSupervised'
  BY <1>8 DEF RecordDead, Supervise, Ended, Markable
<1>9. ASSUME NEW p \in Ptys, RevokeAfterExit(p)
      PROVE  LiveIsSupervised'
  BY <1>9 DEF RevokeAfterExit, Supervise, Revoked, RevokeFails
<1>10. ASSUME NEW d \in Deleters, EnsureGone(d)
      PROVE  LiveIsSupervised'
  BY <1>10 DEF EnsureGone, DeleteMoves, SigKill
<1>11. ASSUME NEW d \in Deleters, RecordDeleted(d)
      PROVE  LiveIsSupervised'
  BY <1>11 DEF RecordDeleted, DeleteMoves
<1>12. ASSUME NEW d \in Deleters, RevokeAfterDelete(d)
      PROVE  LiveIsSupervised'
  BY <1>12 DEF RevokeAfterDelete, DeleteMoves, Revoked, RevokeFails
<1>13. ASSUME NEW d \in Deleters, NEW p \in Ptys, BeginDelete(d, p)
      PROVE  LiveIsSupervised'
  BY <1>13 DEF BeginDelete, DeleteMoves
<1>14. ASSUME NEW p \in Ptys, AbandonSpawn(p)
      PROVE  LiveIsSupervised'
  BY <1>14 DEF AbandonSpawn, SpawnMoves
<1>15. ASSUME NEW p \in Ptys, RecordDeadFails(p)
      PROVE  LiveIsSupervised'
  BY <1>15 DEF RecordDeadFails, Supervise
<1>16. ASSUME NEW d \in Deleters, AbandonDelete(d)
      PROVE  LiveIsSupervised'
  BY <1>16 DEF AbandonDelete, DeleteMoves
<1>17. CASE Crash
  BY <1>17 DEF Crash
<1>18. CASE Restart
  BY <1>18 DEF Restart, Ended, Reconciled
<1>. QED BY <1>1, <1>2, <1>3, <1>4, <1>5, <1>6, <1>7, <1>8, <1>9, <1>10, <1>11, <1>12,
     <1>13, <1>14, <1>15, <1>16, <1>17, <1>18
     DEF PtyStep, SpawnStep, SupervisorStep, DeleteStep, PtyMishap

\* While the database answers and no client gives up on creating a session, no
\* session is listed live without a supervisor that will end it.
THEOREM Supervised ==
  ASSUME Mishaps \cap {"hangup_create", "db"} = {}
  PROVE  Spec => []LiveIsSupervised
<1>1. Init => LiveIsSupervised
  BY DEF Init, PtyInit, LiveIsSupervised
<1>2. TypeOK /\ LiveIsSupervised /\ [Next]_vars => LiveIsSupervised'
  BY SupervisedSteps, AgentsLeave DEF LiveIsSupervised
<1>. QED BY <1>1, <1>2, Types, PTL DEF Spec

\* Where the shell of a session is within reach, and when a delete may be
\* under way: not before the session is in the map, and never after with the
\* session still in it.
ReachInv ==
    /\ \A p \in Ptys : shell[p] = "running" =>
          \/ spawn[p] \in {"started", "inserted"}
          \/ supervisor[p] = "waiting" /\ p \in sessions
          \/ \E d \in Deleters : delete[d].pc = "waiting" /\ delete[d].pty = p
    /\ \A p \in Ptys : spawn[p] \in {"started", "inserted"} =>
          /\ row[p] # "deleted"
          /\ \A d \in Deleters : delete[d].pc # "idle" => delete[d].pty # p
    /\ \A p \in Ptys : row[p] = "deleted" => p \notin sessions
    /\ \A d \in Deleters : delete[d].pc # "idle" => delete[d].pty \notin sessions

Orderly == Mishaps \cap {"hangup", "hangup_create", "db", "eager"} = {}

LEMMA ReachSteps ==
  ASSUME TypeOK, RowInv, ReachInv, PtyStep, Orderly
  PROVE  ReachInv'
<1>. USE DEF TypeOK, PtyTypeOK, RowInv, ReachInv, Orderly, rowVars, Deletion, Idle
<1>1. ASSUME NEW p \in Ptys, NEW a \in Agents \cup {NoAgent}, RegisterCredential(p, a)
      PROVE  ReachInv'
  BY <1>1 DEF RegisterCredential, SpawnMoves
<1>2. ASSUME NEW p \in Ptys, StartShell(p)
      PROVE  ReachInv'
  BY <1>2 DEF StartShell, SpawnMoves
<1>3. ASSUME NEW p \in Ptys, InsertRow(p)
      PROVE  ReachInv'
  BY <1>3 DEF InsertRow, SpawnMoves
<1>4. ASSUME NEW p \in Ptys, AdoptSession(p)
      PROVE  ReachInv'
  BY <1>4 DEF AdoptSession, SpawnMoves
<1>5. ASSUME NEW p \in Ptys, ShellExits(p)
      PROVE  ReachInv'
  BY <1>5 DEF ShellExits
<1>6. ASSUME NEW p \in Ptys, Reap(p)
      PROVE  ReachInv'
  BY <1>6 DEF Reap, Supervise
<1>7. ASSUME NEW p \in Ptys, Unmap(p)
      PROVE  ReachInv'
  BY <1>7 DEF Unmap, Supervise
<1>8. ASSUME NEW p \in Ptys, RecordDead(p)
      PROVE  ReachInv'
  BY <1>8 DEF RecordDead, Supervise, Ended, Markable
<1>9. ASSUME NEW p \in Ptys, RevokeAfterExit(p)
      PROVE  ReachInv'
  BY <1>9 DEF RevokeAfterExit, Supervise, Revoked, RevokeFails
<1>10. ASSUME NEW d \in Deleters, EnsureGone(d)
      PROVE  ReachInv'
  BY <1>10 DEF EnsureGone, DeleteMoves, SigKill
<1>11. ASSUME NEW d \in Deleters, RecordDeleted(d)
      PROVE  ReachInv'
  BY <1>11 DEF RecordDeleted, DeleteMoves
<1>12. ASSUME NEW d \in Deleters, RevokeAfterDelete(d)
      PROVE  ReachInv'
  BY <1>12 DEF RevokeAfterDelete, DeleteMoves, Revoked, RevokeFails
<1>13. ASSUME NEW d \in Deleters, NEW p \in Ptys, BeginDelete(d, p)
      PROVE  ReachInv'
  BY <1>13 DEF BeginDelete, DeleteMoves, Known
<1>14. ASSUME NEW p \in Ptys, AbandonSpawn(p)
      PROVE  ReachInv'
  BY <1>14 DEF AbandonSpawn, SpawnMoves
<1>15. ASSUME NEW p \in Ptys, RecordDeadFails(p)
      PROVE  ReachInv'
  BY <1>15 DEF RecordDeadFails, Supervise
<1>16. ASSUME NEW d \in Deleters, AbandonDelete(d)
      PROVE  ReachInv'
  BY <1>16 DEF AbandonDelete, DeleteMoves
<1>17. CASE Crash
  BY <1>17 DEF Crash
<1>18. CASE Restart
  BY <1>18 DEF Restart, Ended, Reconciled
<1>. QED BY <1>1, <1>2, <1>3, <1>4, <1>5, <1>6, <1>7, <1>8, <1>9, <1>10, <1>11, <1>12,
     <1>13, <1>14, <1>15, <1>16, <1>17, <1>18
     DEF PtyStep, SpawnStep, SupervisorStep, DeleteStep, PtyMishap

\* Once a delete has answered, its shell is gone: proved for orderly runs, in
\* which no client gives up or is eager and the database answers.
THEOREM Gone ==
  ASSUME Orderly
  PROVE  Spec => []DeletedIsGone
<1>1. Init => ReachInv
  BY DEF Init, PtyInit, ReachInv, Idle
<1>2. TypeOK /\ RowInv /\ ReachInv /\ [Next]_vars => ReachInv'
  BY ReachSteps, AgentsLeave DEF ReachInv
<1>3. TypeOK /\ ReachInv => DeletedIsGone
  BY DEF TypeOK, PtyTypeOK, ReachInv, DeletedIsGone, DeleteInFlight
<1>. QED BY <1>1, <1>2, <1>3, Types, RowInvariance, PTL DEF Spec
-----------------------------------------------------------------------------
(* What the row tells of the agent in the foreground.                      *)

ReportsOf(p) == {r \in wire : r.pty = p}

Told(p) == runtime[p] = "running" /\ agent[p] = launcher[p].agent

\* The launcher a shell begins with.
FirstLauncher(p) ==
    IF initialAgent[p] = NoAgent THEN NoLauncher
    ELSE [pc |-> "due", agent |-> initialAgent[p]]

\* The report whose answer the launcher may be waiting for.
Awaited(p) ==
    [pty   |-> p,
     event |-> IF launcher[p].pc = "reporting" THEN "running" ELSE "exited",
     agent |-> launcher[p].agent]

\* The launcher is there only while its shell is, reports nothing before the
\* row is there, and has at most the report under way that it waits for.
LauncherInv(p) ==
    /\ spawn[p] \in {"new", "registered"} => shell[p] = "none"
    /\ shell[p] # "running" => launcher[p] = NoLauncher
    /\ row[p] = "none" => ReportsOf(p) = {}
    /\ row[p] = "none" /\ shell[p] = "running" => launcher[p] = FirstLauncher(p)
    /\ shell[p] = "running" =>
          IF launcher[p].pc \in {"reporting", "leaving"}
          THEN ReportsOf(p) \subseteq {Awaited(p)}
          ELSE ReportsOf(p) = {}

\* Once it was delivered, the row says what it reported.
TellsInv(p) ==
    shell[p] = "running" /\ row[p] = "live" =>
        /\ launcher[p].pc = "none" => runtime[p] \notin {"starting", "running"}
        /\ launcher[p].pc = "running" => Told(p)
        /\ launcher[p].pc = "reporting" => ReportsOf(p) # {} \/ Told(p)
        /\ launcher[p].pc = "leaving" =>
              IF ReportsOf(p) # {} THEN Told(p) ELSE runtime[p] = "exited"

\* Nothing survives the backend.
DownInv == ~up => wire = {} /\ \A p \in Ptys : shell[p] # "running"

ToldInv == DownInv /\ \A p \in Ptys : LauncherInv(p) /\ TellsInv(p)

\* Agents are started in the terminal or with the session, and a launcher gets
\* its answer before it goes on.
Answered == Starters = {} /\ Mishaps \cap {"early", "slow"} = {}

\* A step that does not touch a session keeps what holds of it.
LEMMA UntouchedTells ==
  ASSUME ToldInv, NEW p \in Ptys,
         shell'[p] = shell[p], row'[p] = row[p], runtime'[p] = runtime[p],
         agent'[p] = agent[p], initialAgent'[p] = initialAgent[p],
         launcher'[p] = launcher[p], ReportsOf(p)' = ReportsOf(p),
         spawn'[p] \in {"new", "registered"} => spawn[p] \in {"new", "registered"}
  PROVE  LauncherInv(p)' /\ TellsInv(p)'
<1>1. Told(p)' = Told(p) /\ FirstLauncher(p)' = FirstLauncher(p) /\ Awaited(p)' = Awaited(p)
  BY DEF Told, FirstLauncher, Awaited
<1>2. LauncherInv(p) /\ TellsInv(p)
  BY DEF ToldInv
<1>3. LauncherInv(p)'
  BY <1>1, <1>2 DEF LauncherInv
<1>4. TellsInv(p)'
  BY <1>1, <1>2 DEF TellsInv
<1>. QED BY <1>3, <1>4

LEMMA FollowUntouched ==
  ASSUME TypeOK, ToldInv, AgentsFollow, up' = up, NEW p \in Ptys,
         shell'[p] = shell[p], row'[p] = row[p], runtime'[p] = runtime[p],
         agent'[p] = agent[p], initialAgent'[p] = initialAgent[p],
         spawn'[p] \in {"new", "registered"} => spawn[p] \in {"new", "registered"}
  PROVE  LauncherInv(p)' /\ TellsInv(p)'
<1>1. launcher'[p] = launcher[p]
  BY DEF AgentsFollow, ToldInv, LauncherInv
<1>2. ReportsOf(p)' = ReportsOf(p)
  BY DEF AgentsFollow, ReportsOf, ToldInv, DownInv
<1>. QED BY <1>1, <1>2, UntouchedTells

\* A session whose shell is not there, or is gone now.
LEMMA FollowGone ==
  ASSUME TypeOK, ToldInv, AgentsFollow, NEW p \in Ptys,
         shell'[p] # "running",
         spawn'[p] \in {"new", "registered"} => shell'[p] = "none",
         row'[p] = "none" => row[p] = "none"
  PROVE  LauncherInv(p)' /\ TellsInv(p)'
<1>1. launcher'[p] = NoLauncher
  BY DEF AgentsFollow
<1>2. row'[p] = "none" => ReportsOf(p)' = {}
  BY DEF AgentsFollow, ReportsOf, ToldInv, LauncherInv
<1>. QED BY <1>1, <1>2 DEF LauncherInv, TellsInv

\* A session whose row ends, or had ended.
LEMMA FollowEnded ==
  ASSUME TypeOK, ToldInv, AgentsFollow, NEW p \in Ptys,
         shell'[p] = shell[p], row'[p] \notin {"none", "live"},
         spawn'[p] \in {"new", "registered"} => spawn[p] \in {"new", "registered"}
  PROVE  LauncherInv(p)' /\ TellsInv(p)'
<1>1. launcher'[p] = launcher[p]
  BY DEF AgentsFollow, ToldInv, LauncherInv
<1>2. Awaited(p)' = Awaited(p)
  BY <1>1 DEF Awaited
<1>3. ReportsOf(p)' \in {{}, ReportsOf(p)}
  BY DEF AgentsFollow, ReportsOf
<1>4. LauncherInv(p)'
  BY <1>1, <1>2, <1>3 DEF ToldInv, LauncherInv
<1>5. TellsInv(p)'
  BY DEF TellsInv
<1>. QED BY <1>4, <1>5

LEMMA StartShellTells ==
  ASSUME TypeOK, RowInv, ToldInv, AgentsFollow, NEW p \in Ptys, StartShell(p)
  PROVE  LauncherInv(p)' /\ TellsInv(p)'
<1>1. /\ spawn[p] = "registered" /\ spawn'[p] = "started" /\ up /\ up'
      /\ shell'[p] = "running" /\ UNCHANGED <<row, initialAgent>>
  BY DEF StartShell, SpawnMoves, TypeOK, PtyTypeOK, rowVars
<1>2. shell[p] = "none" /\ launcher[p] = NoLauncher /\ row[p] = "none" /\ ReportsOf(p) = {}
  BY <1>1 DEF ToldInv, LauncherInv, RowInv
<1>3. launcher'[p] = FirstLauncher(p) /\ FirstLauncher(p)' = FirstLauncher(p)
  BY <1>1, <1>2 DEF AgentsFollow, FirstLauncher
<1>4. ReportsOf(p)' = {}
  BY <1>1, <1>2 DEF AgentsFollow, ReportsOf
<1>5. launcher'[p].pc \notin {"reporting", "leaving"}
  BY <1>3 DEF FirstLauncher, NoLauncher
<1>6. LauncherInv(p)'
  BY <1>1, <1>3, <1>4, <1>5 DEF LauncherInv
<1>7. TellsInv(p)'
  BY <1>1, <1>2 DEF TellsInv
<1>. QED BY <1>6, <1>7

LEMMA InsertRowTells ==
  ASSUME TypeOK, RowInv, ToldInv, AgentsFollow, NEW p \in Ptys, InsertRow(p)
  PROVE  LauncherInv(p)' /\ TellsInv(p)'
<1>1. /\ spawn[p] = "started" /\ spawn'[p] = "inserted" /\ up /\ up'
      /\ row[p] = "none" /\ row'[p] = "live" /\ shell' = shell
      /\ runtime'[p] = IF initialAgent[p] = NoAgent THEN "none" ELSE "starting"
  BY DEF InsertRow, SpawnMoves, TypeOK, PtyTypeOK, rowVars, RowInv
<1>2. launcher'[p] = launcher[p] /\ ReportsOf(p)' = {}
  BY <1>1 DEF AgentsFollow, ReportsOf, ToldInv, LauncherInv
<1>3. shell[p] = "running" => launcher[p] = FirstLauncher(p)
  BY <1>1 DEF ToldInv, LauncherInv
<1>4. LauncherInv(p)'
  BY <1>1, <1>2 DEF LauncherInv, ToldInv
<1>5. TellsInv(p)'
  BY <1>1, <1>2, <1>3 DEF TellsInv, FirstLauncher, NoLauncher
<1>. QED BY <1>4, <1>5

LEMMA DownSteps ==
  ASSUME TypeOK, ToldInv, PtyStep, AgentsFollow
  PROVE  DownInv'
<1>1. wire' = {} \/ up'
  BY DEF AgentsFollow
<1>2. SUFFICES ASSUME ~up', NEW p \in Ptys PROVE shell'[p] # "running"
  BY <1>1 DEF DownInv
<1>3. CASE Crash
  BY <1>3 DEF Crash
<1>4. CASE ~up /\ \E q \in Ptys : ShellExits(q)
  BY <1>4 DEF ShellExits, ToldInv, DownInv, TypeOK, PtyTypeOK
<1>. QED BY <1>2, <1>3, <1>4
     DEF PtyStep, SpawnStep, RegisterCredential, StartShell, InsertRow, AdoptSession, SpawnMoves,
         ShellExits, SupervisorStep, Reap, Unmap, RecordDead, RevokeAfterExit, Supervise,
         DeleteStep, EnsureGone, RecordDeleted, RevokeAfterDelete, BeginDelete, DeleteMoves,
         PtyMishap, AbandonSpawn, RecordDeadFails, AbandonDelete, Restart

\* The life of the PTY: spawn, exit, mark_dead, delete, crash, reconciliation.
LEMMA ToldPtySteps ==
  ASSUME TypeOK, RowInv, ToldInv, PtyStep, AgentsFollow
  PROVE  ToldInv'
<1>. USE DEF TypeOK, PtyTypeOK, rowVars, Deletion, Idle
<1>q. SUFFICES ASSUME NEW q \in Ptys PROVE LauncherInv(q)' /\ TellsInv(q)'
  BY DownSteps DEF ToldInv
<1>0. LauncherInv(q)
  BY DEF ToldInv
<1>1. ASSUME NEW p \in Ptys, NEW a \in Agents \cup {NoAgent}, RegisterCredential(p, a)
      PROVE  LauncherInv(q)' /\ TellsInv(q)'
  <2>1. CASE p = q
    <3>1. shell'[q] = "none" /\ row' = row
      BY <1>0, <1>1, <2>1 DEF RegisterCredential, SpawnMoves, LauncherInv
    <3>. QED BY <3>1, FollowGone
  <2>2. CASE p # q
    BY <1>1, <2>2, FollowUntouched DEF RegisterCredential, SpawnMoves
  <2>. QED BY <2>1, <2>2
<1>2. ASSUME NEW p \in Ptys, StartShell(p) PROVE LauncherInv(q)' /\ TellsInv(q)'
  <2>1. CASE p # q
    BY <1>2, <2>1, FollowUntouched DEF StartShell, SpawnMoves
  <2>. QED BY <1>2, <2>1, StartShellTells
<1>3. ASSUME NEW p \in Ptys, InsertRow(p) PROVE LauncherInv(q)' /\ TellsInv(q)'
  <2>1. CASE p # q
    BY <1>3, <2>1, FollowUntouched DEF InsertRow, SpawnMoves
  <2>. QED BY <1>3, <2>1, InsertRowTells
<1>4. ASSUME NEW p \in Ptys, AdoptSession(p) PROVE LauncherInv(q)' /\ TellsInv(q)'
  BY <1>4, FollowUntouched DEF AdoptSession, SpawnMoves
<1>5. ASSUME NEW p \in Ptys, AbandonSpawn(p) PROVE LauncherInv(q)' /\ TellsInv(q)'
  BY <1>5, FollowUntouched DEF AbandonSpawn, SpawnMoves
<1>6. ASSUME NEW p \in Ptys, ShellExits(p) PROVE LauncherInv(q)' /\ TellsInv(q)'
  <2>1. UNCHANGED <<up, row, runtime, agent, spawn, initialAgent>>
    BY <1>6 DEF ShellExits
  <2>2. CASE p = q
    <3>1. shell[q] = "running" /\ shell'[q] = "exited"
      BY <1>6, <2>2 DEF ShellExits
    <3>2. spawn'[q] \notin {"new", "registered"}
      BY <1>0, <2>1, <3>1 DEF LauncherInv
    <3>. QED BY <2>1, <3>1, <3>2, FollowGone
  <2>3. CASE p # q
    <3>1. shell'[q] = shell[q]
      BY <1>6, <2>3 DEF ShellExits
    <3>. QED BY <2>1, <3>1, FollowUntouched
  <2>. QED BY <2>2, <2>3
<1>7. ASSUME NEW p \in Ptys, Reap(p) \/ Unmap(p) \/ RevokeAfterExit(p) \/ RecordDeadFails(p)
      PROVE  LauncherInv(q)' /\ TellsInv(q)'
  BY <1>7, FollowUntouched DEF Reap, Unmap, RevokeAfterExit, RecordDeadFails, Supervise
<1>8. ASSUME NEW p \in Ptys, RecordDead(p) PROVE LauncherInv(q)' /\ TellsInv(q)'
  <2>1. UNCHANGED <<up, agent, shell, spawn, initialAgent>>
    BY <1>8 DEF RecordDead, Supervise
  <2>2. CASE row'[q] = row[q] /\ runtime'[q] = runtime[q]
    BY <2>1, <2>2, FollowUntouched
  <2>3. CASE ~(row'[q] = row[q] /\ runtime'[q] = runtime[q])
    <3>1. row'[q] = "dead"
      BY <1>8, <2>3 DEF RecordDead, Markable
    <3>. QED BY <2>1, <3>1, FollowEnded
  <2>. QED BY <2>2, <2>3
<1>9. ASSUME NEW d \in Deleters, EnsureGone(d) PROVE LauncherInv(q)' /\ TellsInv(q)'
  <2>1. UNCHANGED <<up, row, runtime, agent, spawn, initialAgent>>
    BY <1>9 DEF EnsureGone, DeleteMoves
  <2>2. CASE shell'[q] = shell[q]
    BY <2>1, <2>2, FollowUntouched
  <2>3. CASE shell'[q] # shell[q]
    <3>1. shell[q] = "running" /\ shell'[q] = "exited"
      BY <1>9, <2>3 DEF EnsureGone, SigKill
    <3>2. spawn'[q] \notin {"new", "registered"}
      BY <1>0, <2>1, <3>1 DEF LauncherInv
    <3>. QED BY <2>1, <3>1, <3>2, FollowGone
  <2>. QED BY <2>2, <2>3
<1>10. ASSUME NEW d \in Deleters, RecordDeleted(d) PROVE LauncherInv(q)' /\ TellsInv(q)'
  <2>1. UNCHANGED <<up, runtime, agent, shell, spawn, initialAgent>>
    BY <1>10 DEF RecordDeleted, DeleteMoves
  <2>2. CASE row'[q] = row[q]
    BY <2>1, <2>2, FollowUntouched
  <2>3. CASE row'[q] # row[q]
    <3>1. row'[q] = "deleted"
      BY <1>10, <2>3 DEF RecordDeleted
    <3>. QED BY <2>1, <3>1, FollowEnded
  <2>. QED BY <2>2, <2>3
<1>11. ASSUME NEW d \in Deleters, RevokeAfterDelete(d) \/ AbandonDelete(d)
       PROVE  LauncherInv(q)' /\ TellsInv(q)'
  BY <1>11, FollowUntouched DEF RevokeAfterDelete, AbandonDelete, DeleteMoves
<1>12. ASSUME NEW d \in Deleters, NEW p \in Ptys, BeginDelete(d, p)
       PROVE  LauncherInv(q)' /\ TellsInv(q)'
  BY <1>12, FollowUntouched DEF BeginDelete, DeleteMoves
<1>13. CASE Crash
  <2>1. /\ row' = row /\ shell'[q] # "running"
        /\ spawn'[q] = "new" => spawn[q] = "new" /\ shell'[q] = "none"
        /\ spawn'[q] # "registered"
    BY <1>0, <1>13 DEF Crash, LauncherInv
  <2>. QED BY <2>1, FollowGone
<1>14. CASE Restart
  <2>1. shell'[q] # "running" /\ spawn' = spawn /\ shell' = shell
    BY <1>14 DEF Restart, ToldInv, DownInv
  <2>2. row'[q] = "none" => row[q] = "none"
    BY <1>14 DEF Restart, Reconciled
  <2>. QED BY <1>0, <2>1, <2>2, FollowGone DEF LauncherInv
<1>. QED BY <1>1, <1>2, <1>3, <1>4, <1>5, <1>6, <1>7, <1>8, <1>9, <1>10, <1>11, <1>12,
     <1>13, <1>14
     DEF PtyStep, SpawnStep, SupervisorStep, DeleteStep, PtyMishap

\* The launcher's steps and the backend's application of its reports.
LEMMA ToldAgentSteps ==
  ASSUME TypeOK, ToldInv, Next, ~(PtyStep /\ AgentsFollow), Answered
  PROVE  ToldInv'
<1>. USE DEF TypeOK, PtyTypeOK, AgentTypeOK
<1>1. UNCHANGED <<up, row, sessions, shell, spawn, supervisor, delete>>
  BY AgentsLeave
<1>2. ASSUME NEW p \in Ptys, NEW q \in Ptys, p # q, UNCHANGED <<runtime, agent, initialAgent>>,
             launcher'[q] = launcher[q],
             \A r \in wire \cup wire' : (r \in wire /\ r \in wire') \/ r.pty = p
      PROVE  LauncherInv(q)' /\ TellsInv(q)'
  <2>1. ReportsOf(q)' = ReportsOf(q)
    BY <1>2 DEF ReportsOf
  <2>. QED BY <1>1, <1>2, <2>1, UntouchedTells
<1>3. ASSUME NEW p \in Ptys, NEW a \in Agents, Launch(p, a)
      PROVE  ToldInv'
  <2>1. /\ shell[p] = "running" /\ row[p] # "none"
        /\ launcher[p].pc \in {"none", "due"}
        /\ launcher' = [launcher EXCEPT ![p] = [pc |-> "reporting", agent |-> a]]
        /\ wire' = wire \cup {[pty |-> p, event |-> "running", agent |-> a]}
        /\ UNCHANGED <<runtime, agent, initialAgent>>
    BY <1>3 DEF Launch, Sends, NoLauncher, Answered, ptyVars, rowVars
  <2>2. ReportsOf(p) = {}
    BY <2>1 DEF ToldInv, LauncherInv
  <2>3. launcher'[p] = [pc |-> "reporting", agent |-> a]
    BY <2>1
  <2>4. ReportsOf(p)' = {Awaited(p)'}
    BY <2>1, <2>2, <2>3 DEF ReportsOf, Awaited
  <2>5. LauncherInv(p)' /\ TellsInv(p)'
    BY <1>1, <2>1, <2>3, <2>4 DEF LauncherInv, TellsInv, ToldInv
  <2>6. ASSUME NEW q \in Ptys, q # p PROVE LauncherInv(q)' /\ TellsInv(q)'
    BY <1>2, <2>1, <2>6
  <2>7. DownInv'
    BY <1>1, <2>1 DEF ToldInv, DownInv
  <2>. QED BY <2>5, <2>6, <2>7 DEF ToldInv
<1>4. ASSUME NEW p \in Ptys, RunAgent(p)
      PROVE  ToldInv'
  <2>1. /\ launcher[p].pc = "reporting" /\ Awaited(p) \notin wire
        /\ launcher' = [launcher EXCEPT ![p] = [launcher[p] EXCEPT !.pc = "running"]]
        /\ UNCHANGED <<runtime, agent, initialAgent, wire>>
    BY <1>4 DEF RunAgent, Proceeds, Awaited, Answered, ptyVars, rowVars
  <2>2. shell[p] = "running" /\ row[p] # "none"
    BY <2>1 DEF ToldInv, LauncherInv, NoLauncher, FirstLauncher
  <2>3. ReportsOf(p) = {} /\ ReportsOf(p)' = {}
    BY <2>1, <2>2 DEF ToldInv, LauncherInv, ReportsOf
  <2>4. launcher'[p].pc = "running" /\ launcher'[p].agent = launcher[p].agent
    BY <2>1 DEF Launcher, NoLauncher
  <2>5. LauncherInv(p)' /\ TellsInv(p)'
    BY <1>1, <2>1, <2>2, <2>3, <2>4 DEF LauncherInv, TellsInv, ToldInv, Told
  <2>6. ASSUME NEW q \in Ptys, q # p PROVE LauncherInv(q)' /\ TellsInv(q)'
    BY <1>2, <2>1, <2>6
  <2>7. DownInv'
    BY <1>1, <2>1 DEF ToldInv, DownInv
  <2>. QED BY <2>5, <2>6, <2>7 DEF ToldInv
<1>5. ASSUME NEW p \in Ptys, AgentEnds(p)
      PROVE  ToldInv'
  <2> DEFINE a == launcher[p].agent
  <2>1. /\ launcher[p].pc = "running"
        /\ launcher' = [launcher EXCEPT ![p].pc = "leaving"]
        /\ wire' = wire \cup {[pty |-> p, event |-> "exited", agent |-> a]}
        /\ UNCHANGED <<runtime, agent, initialAgent>>
    BY <1>5 DEF AgentEnds, Sends, ptyVars, rowVars
  <2>2. shell[p] = "running" /\ row[p] # "none"
    BY <2>1 DEF ToldInv, LauncherInv, NoLauncher, FirstLauncher
  <2>3. ReportsOf(p) = {}
    BY <2>1, <2>2 DEF ToldInv, LauncherInv
  <2>4. launcher'[p].pc = "leaving" /\ launcher'[p].agent = a
    BY <2>1 DEF Launcher, NoLauncher
  <2>5. ReportsOf(p)' = {Awaited(p)'}
    BY <2>1, <2>3, <2>4 DEF ReportsOf, Awaited
  <2>6. LauncherInv(p)' /\ TellsInv(p)'
    BY <1>1, <2>1, <2>2, <2>4, <2>5 DEF LauncherInv, TellsInv, ToldInv, Told
  <2>7. ASSUME NEW q \in Ptys, q # p PROVE LauncherInv(q)' /\ TellsInv(q)'
    BY <1>2, <2>1, <2>7
  <2>8. DownInv'
    BY <1>1, <2>2 DEF ToldInv, DownInv
  <2>. QED BY <2>6, <2>7, <2>8 DEF ToldInv
<1>6. ASSUME NEW p \in Ptys, Leave(p)
      PROVE  ToldInv'
  <2>1. /\ launcher[p].pc = "leaving" /\ Awaited(p) \notin wire
        /\ launcher' = [launcher EXCEPT ![p] = NoLauncher]
        /\ UNCHANGED <<runtime, agent, initialAgent, wire>>
    BY <1>6 DEF Leave, Proceeds, Awaited, Answered, ptyVars, rowVars
  <2>2. shell[p] = "running" /\ row[p] # "none"
    BY <2>1 DEF ToldInv, LauncherInv, NoLauncher, FirstLauncher
  <2>3. ReportsOf(p) = {} /\ ReportsOf(p)' = {}
    BY <2>1, <2>2 DEF ToldInv, LauncherInv, ReportsOf
  <2>4. launcher'[p].pc = "none"
    BY <2>1 DEF NoLauncher
  <2>5. LauncherInv(p)' /\ TellsInv(p)'
    BY <1>1, <2>1, <2>2, <2>3, <2>4 DEF LauncherInv, TellsInv, ToldInv
  <2>6. ASSUME NEW q \in Ptys, q # p PROVE LauncherInv(q)' /\ TellsInv(q)'
    BY <1>2, <2>1, <2>6
  <2>7. DownInv'
    BY <1>1, <2>1 DEF ToldInv, DownInv
  <2>. QED BY <2>5, <2>6, <2>7 DEF ToldInv
<1>7. ASSUME NEW r \in wire, ApplyReport(r)
      PROVE  ToldInv'
  <2> DEFINE p == r.pty
  <2>1. /\ p \in Ptys /\ up /\ wire' = wire \ {r}
        /\ UNCHANGED <<launcher, initialAgent>>
        /\ \A q \in Ptys \ {p} : runtime'[q] = runtime[q] /\ agent'[q] = agent[q]
    BY <1>7 DEF ApplyReport, ApplyRunning, ApplyExited, Report
  <2>2. ASSUME NEW q \in Ptys, q # p PROVE LauncherInv(q)' /\ TellsInv(q)'
    <3>1. ReportsOf(q)' = ReportsOf(q)
      BY <2>1, <2>2 DEF ReportsOf
    <3>. QED BY <1>1, <2>1, <2>2, <3>1, UntouchedTells
  <2>3. row[p] # "none" /\ ReportsOf(p)' \subseteq ReportsOf(p)
    BY <2>1 DEF ToldInv, LauncherInv, ReportsOf
  <2>4. LauncherInv(p)' /\ TellsInv(p)'
    <3>1. CASE shell[p] # "running"
      BY <1>1, <2>1, <2>3, <3>1 DEF ToldInv, LauncherInv, TellsInv
    <3>2. CASE shell[p] = "running"
      <4>1. launcher[p].pc \in {"reporting", "leaving"} /\ r = Awaited(p)
              /\ ReportsOf(p) \subseteq {r}
        BY <2>1, <3>2 DEF ToldInv, LauncherInv, ReportsOf
      <4>2. ReportsOf(p)' = {}
        BY <2>1, <4>1 DEF ReportsOf
      <4>3. LauncherInv(p)'
        BY <1>1, <2>1, <2>3, <3>2, <4>2 DEF ToldInv, LauncherInv
      <4>4. r.agent = launcher[p].agent
              /\ r.event = IF launcher[p].pc = "reporting" THEN "running" ELSE "exited"
        BY <4>1 DEF Awaited
      <4>5. ASSUME row[p] = "live", launcher[p].pc = "reporting"
            PROVE  runtime'[p] = "running" /\ agent'[p] = launcher'[p].agent
        BY <1>7, <2>1, <4>4, <4>5 DEF ApplyReport, ApplyRunning, ApplyExited, LiveRow
      <4>6. ASSUME row[p] = "live", launcher[p].pc = "leaving" PROVE runtime'[p] = "exited"
        <5>1. Told(p)
          BY <2>1, <3>2, <4>1, <4>6 DEF ToldInv, TellsInv, ReportsOf
        <5>2. Ends(r)
          BY <4>4, <5>1 DEF Told, Ends
        <5>. QED BY <1>7, <2>1, <4>4, <4>6, <5>2 DEF ApplyReport, ApplyRunning, ApplyExited
      <4>7. TellsInv(p)'
        BY <1>1, <2>1, <4>1, <4>2, <4>5, <4>6 DEF TellsInv, Told
      <4>. QED BY <4>3, <4>7
    <3>. QED BY <3>1, <3>2
  <2>5. DownInv'
    BY <1>1, <2>1 DEF ToldInv, DownInv
  <2>. QED BY <2>2, <2>4, <2>5 DEF ToldInv
<1>8. ~ \E r \in wire : ReportLost(r)
  BY DEF ReportLost, Answered
<1>9. Starters = {}
  BY DEF Answered
<1>. QED BY <1>3, <1>4, <1>5, <1>6, <1>7, <1>8, <1>9 DEF Next, LauncherStep

LEMMA ToldInvariance == ASSUME Answered PROVE Spec => []ToldInv
<1>1. Init => ToldInv
  BY DEF Init, PtyInit, ToldInv, DownInv, LauncherInv, TellsInv, ReportsOf, NoLauncher,
     FirstLauncher
<1>2. TypeOK /\ RowInv /\ ToldInv /\ [Next]_vars => ToldInv'
  <2>. SUFFICES ASSUME TypeOK, RowInv, ToldInv, [Next]_vars PROVE ToldInv'
    OBVIOUS
  <2>1. CASE UNCHANGED vars
    BY <2>1 DEF vars, ptyVars, rowVars, agentVars, ToldInv, DownInv, LauncherInv, TellsInv,
       ReportsOf, Told, FirstLauncher, Awaited
  <2>. QED BY <2>1, ToldPtySteps, ToldAgentSteps
<1>. QED BY <1>1, <1>2, Types, RowInvariance, PTL DEF Spec

\* With no agent in the foreground and nothing in flight, the row does not claim
\* one: in the terminal or with the session, however sessions are killed, deleted
\* and dropped, as long as launchers wait for the answer to their reports.
THEOREM NoPhantom == ASSUME Answered PROVE Spec => []NoPhantomAgent
<1>1. TypeOK /\ ToldInv => NoPhantomAgent
  BY DEF ToldInv, TellsInv, NoPhantomAgent, Settled, NoLauncher
<1>. QED BY <1>1, Types, ToldInvariance, PTL

\* An agent that runs is shown as running, and as the agent it is.
THEOREM RunningShown == ASSUME Answered PROVE Spec => []RunningIsRecorded
<1>1. TypeOK /\ ToldInv => RunningIsRecorded
  BY DEF ToldInv, TellsInv, Told, RunningIsRecorded, Settled
<1>. QED BY <1>1, Types, ToldInvariance, PTL
=============================================================================
