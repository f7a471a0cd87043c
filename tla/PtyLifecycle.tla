---------------------------- MODULE PtyLifecycle ----------------------------
(***************************************************************************)
(* The PTY manager: sessions are spawned, supervised, deleted, and         *)
(* reconciled when the backend starts again.  A session has a row in       *)
(* pty_sessions, an entry in the manager's map while clients can attach, a *)
(* shell process, and a credential at the secret broker; these four change *)
(* in separate awaits of separate tasks, and each await is a step here.    *)
(*                                                                         *)
(* A request handler is dropped at its next await when its client hangs    *)
(* up; a database or broker call may fail; the backend may die.  Mishaps   *)
(* says which of these may happen.                                         *)
(***************************************************************************)
EXTENDS FiniteSets

CONSTANTS
    Ptys,           \* session uuids, each spawned at most once
    Deleters,       \* DELETE requests that may be in flight together
    Agents,         \* agent types
    NoAgent,        \* agent_runtime_agent IS NULL
    Mishaps         \* which of MishapKinds may happen

\* "eager": a client acts on a row it found in the list while spawn() is not
\* done with it.  "early" and "slow" are about the agent launcher's reports,
\* see AgentRuntime.
MishapKinds ==
    {"crash", "hangup", "hangup_create", "db", "broker", "eager", "early", "slow"}

ASSUME AgentsAssumption == NoAgent \notin Agents
ASSUME MishapsAssumption == Mishaps \subseteq MishapKinds

VARIABLES
    up,             \* the backend process runs
    row,            \* pty_sessions.state, "none" before the INSERT
    runtime,        \* pty_sessions.agent_runtime_state
    agent,          \* pty_sessions.agent_runtime_agent
    sessions,       \* PtyManager.sessions, the ids in the map
    shell,          \* the child process
    credential,     \* the session's key at the secret broker
    spawn,          \* where spawn() is
    initialAgent,   \* SpawnParams.initial_agent_runtime_agent
    supervisor,     \* where the supervisor task and mark_dead are
    delete          \* delete requests: where each is, and on which session

rowVars  == <<row, runtime, agent>>
ptyVars  == <<up, rowVars, sessions, shell, credential, spawn, initialAgent,
              supervisor, delete>>

Rows        == {"none", "live", "dead", "deleted", "orphaned"}
Runtimes    == {"none", "starting", "running", "exited"}
Shells      == {"none", "running", "exited"}
Credentials == {"none", "registered", "revoked"}
Spawning    == {"new", "registered", "started", "inserted", "done", "failed"}
Supervising == {"none", "waiting", "reaped", "unmapped", "recorded", "done"}
Deleting    == {"idle", "waiting", "killed", "revoking"}

Idle == [pc |-> "idle"]
Deletion == {Idle} \cup [pc : Deleting \ {"idle"}, pty : Ptys]

PtyInit ==
    /\ up = TRUE
    /\ row = [p \in Ptys |-> "none"]
    /\ runtime = [p \in Ptys |-> "none"]
    /\ agent = [p \in Ptys |-> NoAgent]
    /\ sessions = {}
    /\ shell = [p \in Ptys |-> "none"]
    /\ credential = [p \in Ptys |-> "none"]
    /\ spawn = [p \in Ptys |-> "new"]
    /\ initialAgent = [p \in Ptys |-> NoAgent]
    /\ supervisor = [p \in Ptys |-> "none"]
    /\ delete = [d \in Deleters |-> Idle]

-----------------------------------------------------------------------------
(* spawn(): credential, shell, row, and then the map and the supervisor.   *)

SpawnMoves(p, from, to) ==
    /\ up
    /\ spawn[p] = from
    /\ spawn' = [spawn EXCEPT ![p] = to]

\* a is the agent the session is created to run, NoAgent for a plain shell.
RegisterCredential(p, a) ==
    /\ SpawnMoves(p, "new", "registered")
    /\ initialAgent' = [initialAgent EXCEPT ![p] = a]
    /\ credential' = [credential EXCEPT ![p] = "registered"]
    /\ UNCHANGED <<up, rowVars, sessions, shell, supervisor, delete>>

StartShell(p) ==
    /\ SpawnMoves(p, "registered", "started")
    /\ shell' = [shell EXCEPT ![p] = "running"]
    /\ UNCHANGED <<up, rowVars, initialAgent, sessions, credential, supervisor, delete>>

InsertRow(p) ==
    /\ SpawnMoves(p, "started", "inserted")
    /\ row' = [row EXCEPT ![p] = "live"]
    /\ runtime' = [runtime EXCEPT ![p] = IF initialAgent[p] = NoAgent THEN "none" ELSE "starting"]
    /\ agent' = [agent EXCEPT ![p] = initialAgent[p]]
    /\ UNCHANGED <<up, initialAgent, sessions, shell, credential, supervisor, delete>>

AdoptSession(p) ==
    /\ SpawnMoves(p, "inserted", "done")
    /\ sessions' = sessions \cup {p}
    /\ supervisor' = [supervisor EXCEPT ![p] = "waiting"]
    /\ UNCHANGED <<up, rowVars, initialAgent, shell, credential, delete>>

\* An error return of spawn(), or its client hangs up: nothing is undone.  A
\* hang-up while the INSERT is on its way leaves the row as well.
AbandonSpawn(p) ==
    /\ spawn[p] \in {"registered", "started", "inserted"}
    /\ \/ "hangup_create" \in Mishaps
       \/ "db" \in Mishaps /\ spawn[p] = "started"
    /\ SpawnMoves(p, spawn[p], "failed")
    /\ UNCHANGED <<up, rowVars, initialAgent, sessions, shell, credential, supervisor, delete>>

-----------------------------------------------------------------------------
(* The shell and its supervisor.                                           *)

ShellExits(p) ==
    /\ shell[p] = "running"
    /\ shell' = [shell EXCEPT ![p] = "exited"]
    /\ UNCHANGED <<up, rowVars, sessions, credential, spawn, initialAgent, supervisor,
                   delete>>

Supervise(p, from, to) ==
    /\ up
    /\ supervisor[p] = from
    /\ supervisor' = [supervisor EXCEPT ![p] = to]
    /\ UNCHANGED <<up, shell, spawn, initialAgent, delete>>

\* child.wait() returns and the pid is cleared.
Reap(p) ==
    /\ shell[p] = "exited"
    /\ Supervise(p, "waiting", "reaped")
    /\ UNCHANGED <<rowVars, sessions, credential>>

\* mark_dead: the map, then the row, then the credential.
Unmap(p) ==
    /\ Supervise(p, "reaped", "unmapped")
    /\ sessions' = sessions \ {p}
    /\ UNCHANGED <<rowVars, credential>>

\* Mutants: a state the CHECK of the schema does not have; the UPDATE of
\* mark_dead has no WHERE state = 'live'; it leaves out sessions with an agent.
EndedUnchecked(r) == IF r \in {"starting", "running"} THEN "ended" ELSE r
MarkableAny(p) == TRUE
MarkableIdle(p) == row[p] = "live" /\ runtime[p] # "running"

\* The agent cannot outlive the PTY: starting and running become exited.
Ended(r) == IF r \in {"starting", "running"} THEN "exited" ELSE r

\* The rows the UPDATE of mark_dead applies to.
Markable(p) == row[p] = "live"

RecordDead(p) ==
    /\ Supervise(p, "unmapped", "recorded")
    /\ IF Markable(p)
       THEN /\ row' = [row EXCEPT ![p] = "dead"]
            /\ runtime' = [runtime EXCEPT ![p] = Ended(@)]
       ELSE UNCHANGED <<row, runtime>>
    /\ UNCHANGED <<agent, sessions, credential>>

\* The UPDATE fails: logged.
RecordDeadFails(p) ==
    /\ "db" \in Mishaps
    /\ Supervise(p, "unmapped", "recorded")
    /\ UNCHANGED <<rowVars, sessions, credential>>

Revoked(p) == credential' = [credential EXCEPT ![p] = "revoked"]

\* revoke_pty_credential logs a failure of the broker and returns.
RevokeFails == "broker" \in Mishaps /\ UNCHANGED credential

\* Mutant: mark_dead does not revoke.
RevokeAfterExitNever(p) ==
    /\ Supervise(p, "recorded", "done")
    /\ UNCHANGED <<rowVars, sessions, credential>>

RevokeAfterExit(p) ==
    /\ Supervise(p, "recorded", "done")
    /\ Revoked(p) \/ RevokeFails
    /\ UNCHANGED <<rowVars, sessions>>

-----------------------------------------------------------------------------
(* delete(): map, SIGTERM, three seconds, SIGKILL, row, credential.        *)

\* Clients know the ids of the sessions in the list.
Known(p) == row[p] # "none" /\ (spawn[p] = "inserted" => "eager" \in Mishaps)

DeleteMoves(d, from, to) ==
    /\ up
    /\ delete[d].pc = from
    /\ delete' = [delete EXCEPT ![d] = to]
    /\ UNCHANGED <<up, spawn, initialAgent, supervisor>>

\* An entry in the map whose child has not been reaped has a pid to signal.
BeginDelete(d, p) ==
    /\ Known(p)
    /\ DeleteMoves(d, "idle",
           [pc |-> IF p \in sessions /\ supervisor[p] = "waiting" THEN "waiting" ELSE "killed",
            pty |-> p])
    /\ sessions' = sessions \ {p}
    /\ UNCHANGED <<rowVars, shell, credential>>

\* Mutant: no SIGKILL after the grace period.
SigKillNever(p) == shell[p]

SigKill(p) == IF shell[p] = "running" THEN "exited" ELSE shell[p]

\* wait_for_exit sees the shell gone, or its time is up and SIGKILL follows.
\* SIGTERM alone ends nothing: an interactive shell ignores it.
EnsureGone(d) ==
    LET p == delete[d].pty IN
    /\ DeleteMoves(d, "waiting", [pc |-> "killed", pty |-> p])
    /\ shell' = [shell EXCEPT ![p] = SigKill(p)]
    /\ UNCHANGED <<rowVars, sessions, credential>>

RecordDeleted(d) ==
    LET p == delete[d].pty IN
    /\ DeleteMoves(d, "killed", [pc |-> "revoking", pty |-> p])
    /\ row' = [row EXCEPT ![p] = "deleted"]
    /\ UNCHANGED <<runtime, agent, sessions, shell, credential>>

RevokeAfterDelete(d) ==
    /\ DeleteMoves(d, "revoking", Idle)
    /\ Revoked(delete[d].pty) \/ RevokeFails
    /\ UNCHANGED <<rowVars, sessions, shell>>

\* The UPDATE fails, or the client of the request hangs up at an await.
AbandonDelete(d) ==
    /\ delete[d].pc # "idle"
    /\ \/ "hangup" \in Mishaps
       \/ "db" \in Mishaps /\ delete[d].pc = "killed"
    /\ DeleteMoves(d, delete[d].pc, Idle)
    /\ UNCHANGED <<rowVars, sessions, shell, credential>>

-----------------------------------------------------------------------------
(* The backend dies, and its shells with it; it starts again.              *)

Crash ==
    /\ "crash" \in Mishaps
    /\ up
    /\ up' = FALSE
    /\ sessions' = {}
    /\ shell' = [p \in Ptys |-> IF shell[p] = "none" THEN "none" ELSE "exited"]
    /\ spawn' = [p \in Ptys |-> IF spawn[p] = "new" THEN "new"
                                ELSE IF spawn[p] = "done" THEN "done" ELSE "failed"]
    /\ supervisor' = [p \in Ptys |-> "none"]
    /\ delete' = [d \in Deleters |-> Idle]
    /\ UNCHANGED <<rowVars, initialAgent, credential>>

\* Mutant: rows are left as they are.
ReconciledNever(r) == r

Reconciled(r) == IF r = "live" THEN "orphaned" ELSE r

\* main: reconcile_orphans_on_startup, before any request is served.
Restart ==
    /\ ~up
    /\ up' = TRUE
    /\ row' = [p \in Ptys |-> Reconciled(row[p])]
    /\ runtime' = [p \in Ptys |-> IF row[p] = "live" THEN Ended(runtime[p]) ELSE runtime[p]]
    /\ UNCHANGED <<agent, sessions, shell, credential, spawn, initialAgent, supervisor,
                   delete>>

-----------------------------------------------------------------------------
SpawnStep(p) ==
    \/ \E a \in Agents \cup {NoAgent} : RegisterCredential(p, a)
    \/ StartShell(p)
    \/ InsertRow(p)
    \/ AdoptSession(p)

SupervisorStep(p) == Reap(p) \/ Unmap(p) \/ RecordDead(p) \/ RevokeAfterExit(p)

DeleteStep(d) == EnsureGone(d) \/ RecordDeleted(d) \/ RevokeAfterDelete(d)

PtyMishap ==
    \/ \E p \in Ptys : AbandonSpawn(p) \/ RecordDeadFails(p)
    \/ \E d \in Deleters : AbandonDelete(d)
    \/ Crash

PtyStep ==
    \/ \E p \in Ptys : SpawnStep(p) \/ ShellExits(p) \/ SupervisorStep(p)
    \/ \E d \in Deleters : DeleteStep(d) \/ \E p \in Ptys : BeginDelete(d, p)
    \/ PtyMishap
    \/ Restart
=============================================================================
