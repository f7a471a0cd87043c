--------------------------- MODULE PtyProperties ---------------------------
(***************************************************************************)
(* What PTY sessions and the agents in them promise.                       *)
(***************************************************************************)
EXTENDS AgentRuntime

PtyTypeOK ==
    /\ up \in BOOLEAN
    /\ row \in [Ptys -> Rows]
    /\ runtime \in [Ptys -> Runtimes]
    /\ agent \in [Ptys -> Agents \cup {NoAgent}]
    /\ sessions \subseteq Ptys
    /\ shell \in [Ptys -> Shells]
    /\ credential \in [Ptys -> Credentials]
    /\ spawn \in [Ptys -> Spawning]
    /\ initialAgent \in [Ptys -> Agents \cup {NoAgent}]
    /\ supervisor \in [Ptys -> Supervising]
    /\ delete \in [Deleters -> Deletion]

AgentTypeOK ==
    /\ launcher \in [Ptys -> Launcher]
    /\ wire \subseteq Report
    /\ starter \in [Starters -> Request]

\* Types of the variables: the columns of pty_sessions, the manager's map, and
\* where the tasks and requests of spawn, mark_dead, delete and start are.
TypeOK == PtyTypeOK /\ AgentTypeOK

\* What a row may become.
Forward ==
    {<<"none", "live">>, <<"live", "dead">>, <<"live", "deleted">>, <<"live", "orphaned">>,
     <<"dead", "deleted">>, <<"orphaned", "deleted">>}

\* A session that ended is never live again and a deleted one stays deleted,
\* whatever the order in which its supervisor, requests to delete it, and the
\* reconciliation at startup write its row (mark_dead, delete,
\* reconcile_orphans_on_startup).
RowLifecycle ==
    [][\A p \in Ptys : row'[p] # row[p] => <<row[p], row'[p]>> \in Forward]_vars

\* A dead or orphaned session shows no agent at work: neither a late report of
\* a launcher nor a start request that checked the row before the shell ended
\* brings one back (apply_runtime, mark_agent_starting against mark_dead).
EndedRuntime ==
    \A p \in Ptys : row[p] \in {"dead", "orphaned"} => runtime[p] \notin {"starting", "running"}

\* While the backend runs, every live row has a supervisor that will end it, or
\* is about to get one: no session is listed live for ever (spawn, mark_dead).
LiveIsSupervised ==
    \A p \in Ptys : up /\ row[p] = "live" =>
        spawn[p] = "inserted" \/ supervisor[p] \in {"waiting", "reaped", "unmapped"}

DeleteInFlight(p) == \E d \in Deleters : delete[d].pc # "idle" /\ delete[d].pty = p

\* Once delete() has answered, the shell is gone: it "terminates live session and
\* marks deleted" (pty_integration.rs).  So it is if no request is dropped and none
\* comes before spawn() is done; a DELETE whose client hangs up in the grace period
\* has unmapped the session, and the next one finds nothing to signal.
DeletedIsGone ==
    \A p \in Ptys : row[p] = "deleted" /\ ~DeleteInFlight(p) => shell[p] # "running"

\* Nothing is about to change what the row says of the agent in the session.
Settled(p) ==
    /\ up /\ row[p] = "live" /\ p \in sessions /\ shell[p] = "running"
    /\ \A r \in wire : r.pty # p
    /\ \A s \in Starters : starter[s].pc # "idle" => starter[s].pty # p

\* When no agent runs and nothing is in flight, the row does not claim one is
\* starting or running, so that one can be started (start_session_agent and
\* the launcher's reports).
NoPhantomAgent ==
    \A p \in Ptys : Settled(p) /\ launcher[p] = NoLauncher =>
        runtime[p] \notin {"starting", "running"}

\* An agent that runs, its report delivered, is shown as running, so that it
\* can be prompted and interrupted (apply_runtime; send_session_prompt).
RunningIsRecorded ==
    \A p \in Ptys : Settled(p) /\ launcher[p].pc = "running" =>
        runtime[p] = "running" /\ agent[p] = launcher[p].agent

-----------------------------------------------------------------------------
\* Tasks of the runtime are scheduled and the container restarts the backend.
\* A shell may run for ever; EnsureGone is bounded by the grace period.
Fairness ==
    /\ WF_vars(Restart /\ AgentsFollow)
    /\ \A p \in Ptys : /\ WF_vars(AdoptSession(p) /\ AgentsFollow)
                       /\ WF_vars(SupervisorStep(p) /\ AgentsFollow)
    /\ \A d \in Deleters : WF_vars(DeleteStep(d) /\ AgentsFollow)

FairSpec == Spec /\ Fairness

\* The end of a shell reaches its row, through the supervisor or, when the
\* backend dies first, through the reconciliation at startup.
ExitIsRecorded ==
    \A p \in Ptys : (shell[p] = "exited" /\ row[p] = "live") ~> row[p] # "live"

\* As long as the backend stays up, a session that is over ends up with no usable
\* key at the secret broker (revoke_pty_credential after mark_dead and after delete).
CredentialIsRevoked ==
    []up => \A p \in Ptys : row[p] \in {"dead", "deleted"} ~> credential[p] = "revoked"
=============================================================================
