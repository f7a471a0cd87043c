---------------------------- MODULE AgentRuntime ----------------------------
(***************************************************************************)
(* Agents in PTY sessions.  A launcher wraps the agent process in the      *)
(* shell and reports "running" and "exited" over the correlate socket, one *)
(* connection each; the backend applies a report in a task of its own.  A  *)
(* request to start an agent reads the row, marks it "starting" and types  *)
(* the launcher's command line into the shell.  Composed with the life of  *)
(* the PTY itself, whose every step may fall between these.                *)
(***************************************************************************)
EXTENDS PtyLifecycle

CONSTANT Starters       \* requests to start an agent that may be pending together

VARIABLES
    launcher,           \* launcher[p]: the launcher in the foreground of the shell
    wire,               \* reports sent and not yet applied
    starter             \* starter[s]: a start request, until its command is read

agentVars == <<launcher, wire, starter>>
vars      == <<ptyVars, agentVars>>

NoLauncher == [pc |-> "none", agent |-> NoAgent]
\* "due": the shell was created to run it and has not got there.
Launcher == {NoLauncher} \cup [pc : {"due", "reporting", "running", "leaving"}, agent : Agents]

\* "typed": answered, its command line waits in the terminal's input.
Request == {Idle} \cup [pc : {"checked", "marked", "typed"}, pty : Ptys, agent : Agents]

Report == [pty : Ptys, event : {"running", "exited"}, agent : Agents]

Init ==
    /\ PtyInit
    /\ launcher = [p \in Ptys |-> NoLauncher]
    /\ wire = {}
    /\ starter = [s \in Starters |-> Idle]

-----------------------------------------------------------------------------
(* The launcher, run_launcher.                                             *)

Sends(p, event, a) == wire' = wire \cup {[pty |-> p, event |-> event, agent |-> a]}

\* The shell runs the command it was created with, which may happen before
\* spawn() has inserted the row ("early"), or what the user types.
Launch(p, a) ==
    /\ shell[p] = "running"
    /\ \/ launcher[p] = NoLauncher
       \/ launcher[p] = [pc |-> "due", agent |-> a]
    /\ row[p] = "none" => "early" \in Mishaps /\ launcher[p].pc = "due"
    /\ launcher' = [launcher EXCEPT ![p] = [pc |-> "reporting", agent |-> a]]
    /\ Sends(p, "running", a)
    /\ UNCHANGED <<ptyVars, starter>>

\* The report is answered, or 750 ms pass without an answer ("slow"): the
\* launcher goes on either way.
Proceeds(p, from, event, to) ==
    LET a == launcher[p].agent IN
    /\ launcher[p].pc = from
    /\ [pty |-> p, event |-> event, agent |-> a] \notin wire \/ "slow" \in Mishaps
    /\ launcher' = [launcher EXCEPT ![p] = to]
    /\ UNCHANGED <<ptyVars, wire, starter>>

RunAgent(p) ==
    Proceeds(p, "reporting", "running", [launcher[p] EXCEPT !.pc = "running"])

AgentEnds(p) ==
    /\ launcher[p].pc = "running"
    /\ launcher' = [launcher EXCEPT ![p].pc = "leaving"]
    /\ Sends(p, "exited", launcher[p].agent)
    /\ UNCHANGED <<ptyVars, starter>>

Leave(p) == Proceeds(p, "leaving", "exited", NoLauncher)

\* The connection or the write times out, or the UPDATE fails.
ReportLost(r) ==
    /\ "slow" \in Mishaps
    /\ wire' = wire \ {r}
    /\ UNCHANGED <<ptyVars, launcher, starter>>

-----------------------------------------------------------------------------
(* apply_runtime.                                                          *)

\* Mutants: the UPDATE for "running" has no WHERE state = 'live'; it wants a row
\* in "starting".
AnyRow(p) == row[p] # "none"
StartingRow(p) == row[p] = "live" /\ runtime[p] = "starting"

LiveRow(p) == row[p] = "live"

ApplyRunning(r) ==
    /\ r.event = "running"
    /\ IF LiveRow(r.pty)
       THEN /\ runtime' = [runtime EXCEPT ![r.pty] = "running"]
            /\ agent' = [agent EXCEPT ![r.pty] = r.agent]
       ELSE UNCHANGED <<runtime, agent>>

\* Mutant: only a row in "starting" is ended.
EndsStarting(r) == runtime[r.pty] = "starting" /\ agent[r.pty] \in {NoAgent, r.agent}

\* WHERE agent_runtime_state IN ('starting', 'running') and the agent matches.
Ends(r) ==
    /\ runtime[r.pty] \in {"starting", "running"}
    /\ agent[r.pty] \in {NoAgent, r.agent}

ApplyExited(r) ==
    /\ r.event = "exited"
    /\ IF Ends(r)
       THEN /\ runtime' = [runtime EXCEPT ![r.pty] = "exited"]
            /\ agent' = [agent EXCEPT ![r.pty] = IF @ = NoAgent THEN r.agent ELSE @]
       ELSE UNCHANGED <<runtime, agent>>

ApplyReport(r) ==
    /\ up
    /\ ApplyRunning(r) \/ ApplyExited(r)
    /\ wire' = wire \ {r}
    /\ UNCHANGED <<up, row, sessions, shell, credential, spawn, initialAgent, supervisor,
                   delete, launcher, starter>>

-----------------------------------------------------------------------------
(* start_session_agent.                                                    *)

StarterMoves(s, from, to) ==
    /\ up
    /\ starter[s].pc = from
    /\ starter' = [starter EXCEPT ![s] = to]
    /\ UNCHANGED <<up, row, sessions, shell, credential, spawn, initialAgent, supervisor,
                   delete, launcher, wire>>

\* read_meta and the two refusals.
CheckStart(s, p, a) ==
    /\ Known(p)
    /\ row[p] = "live"
    /\ runtime[p] \notin {"starting", "running"}
    /\ StarterMoves(s, "idle", [pc |-> "checked", pty |-> p, agent |-> a])
    /\ UNCHANGED <<runtime, agent>>

Startable(p) == row[p] = "live"

\* mark_agent_starting; without a live row the request fails.
MarkStarting(s) ==
    LET p == starter[s].pty IN
    /\ starter[s].pc = "checked"
    /\ IF Startable(p)
       THEN /\ StarterMoves(s, "checked", [starter[s] EXCEPT !.pc = "marked"])
            /\ runtime' = [runtime EXCEPT ![p] = "starting"]
            /\ agent' = [agent EXCEPT ![p] = starter[s].agent]
       ELSE /\ StarterMoves(s, "checked", Idle)
            /\ UNCHANGED <<runtime, agent>>

\* send_input; without an entry in the map the request fails.
TypeCommand(s) ==
    /\ StarterMoves(s, "marked", IF starter[s].pty \in sessions
                                 THEN [starter[s] EXCEPT !.pc = "typed"] ELSE Idle)
    /\ UNCHANGED <<runtime, agent>>

AbandonStart(s) ==
    /\ \/ "hangup" \in Mishaps
       \/ "db" \in Mishaps /\ starter[s].pc = "checked"
    /\ starter[s].pc \in {"checked", "marked"}
    /\ StarterMoves(s, starter[s].pc, Idle)
    /\ UNCHANGED <<runtime, agent>>

\* The shell reads the command and runs it; an agent in the foreground reads
\* it as a prompt of the user's.
ReadCommand(s) ==
    LET p == starter[s].pty IN
    /\ starter[s].pc = "typed"
    /\ shell[p] = "running"
    /\ \/ /\ launcher[p].pc = "none"
          /\ launcher' = [launcher EXCEPT ![p] = [pc |-> "reporting", agent |-> starter[s].agent]]
          /\ Sends(p, "running", starter[s].agent)
       \/ launcher[p].pc = "running" /\ UNCHANGED <<launcher, wire>>
    /\ starter' = [starter EXCEPT ![s] = Idle]
    /\ UNCHANGED ptyVars

-----------------------------------------------------------------------------
\* What a step of the PTY's life does to the agents: a shell may start with a
\* command to run; a launcher does not outlive its shell, nor does a command
\* line; nothing in flight survives a crash.
AgentsFollow ==
    /\ launcher' = [p \in Ptys |->
           CASE shell'[p] # "running" -> NoLauncher
             [] shell'[p] = "running" /\ shell[p] = "none" /\ initialAgent[p] # NoAgent ->
                    [pc |-> "due", agent |-> initialAgent[p]]
             [] OTHER -> launcher[p]]
    /\ wire' = IF up' THEN wire ELSE {}
    /\ starter' = [s \in Starters |->
           IF up' /\ (starter[s].pc = "typed" => shell'[starter[s].pty] = "running")
           THEN starter[s] ELSE Idle]

LauncherStep(p) ==
    \/ \E a \in Agents : Launch(p, a)
    \/ RunAgent(p)
    \/ AgentEnds(p)
    \/ Leave(p)

StartStep(s) ==
    \/ \E p \in Ptys, a \in Agents : CheckStart(s, p, a)
    \/ MarkStarting(s)
    \/ TypeCommand(s)
    \/ ReadCommand(s)

Next ==
    \/ PtyStep /\ AgentsFollow
    \/ \E p \in Ptys : LauncherStep(p)
    \/ \E r \in wire : ApplyReport(r) \/ ReportLost(r)
    \/ \E s \in Starters : StartStep(s) \/ AbandonStart(s)

Spec == Init /\ [][Next]_vars
=============================================================================
