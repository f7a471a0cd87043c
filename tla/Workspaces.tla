----------------------------- MODULE Workspaces -----------------------------
(***************************************************************************)
(* Isolated workspaces: rows of the database, each for a Git worktree on a *)
(* branch of its own.  Sessions are created in them, requests delete them, *)
(* and one task compares the rows with the disk.  Each action is one       *)
(* query, transaction or Git command.  Main workspaces, the checkouts of   *)
(* repositories, which nobody creates or deletes, are left out.            *)
(***************************************************************************)
EXTENDS Naturals, FiniteSets

CONSTANTS
    Workspaces,         \* their ids
    Sessions,           \* slots for a request that creates a session, then for
                        \* that session: how many there may be at a time
    Deletes,            \* slots for requests that delete a workspace
    BatchSize,          \* rows the reconciling task takes in one go
    Options,            \* what requests that delete one may ask for
    Mishaps             \* what may go wrong in this instance

AllMishaps ==
    { "hangup",     \* a request is dropped, or a statement of it fails
      "crash",      \* the backend dies and is started again
      "vanish",     \* someone removes a directory by hand
      "git",        \* a Git command of read_status fails, which reads as clean
      "detach",     \* someone commits on a detached HEAD in a worktree
      "race" }      \* a session is created in a workspace that is being deleted

NoWorkspace == "no workspace"

ASSUME WorkspacesAssumption ==
    /\ NoWorkspace \notin Workspaces
    /\ BatchSize \in Nat \ {0}
    /\ Options \subseteq [force : BOOLEAN, delete_branch : BOOLEAN]
    /\ Mishaps \subseteq AllMishaps

\* The branch made with the worktree, and another one of the repository.
Branches == {"own", "other"}
Heads == Branches \cup {"detached"}

VARIABLES
    row,        \* row[w]: workspaces.state, "none" before the INSERT
    named,      \* named[w]: workspaces.branch_name, "detached" for NULL
    tree,       \* tree[w]: the directory
    registered, \* the worktrees Git knows of
    head,       \* head[w]: what is checked out in the worktree
    branches,   \* branches[w]: the branches that exist
    ahead,      \* ahead[w]: the heads with commits that are not in base_sha
    session,    \* session[s]: the request that creates it, then the session
    delete,     \* delete[d]: the request
    batch,      \* what reconcile_due_once has yet to look at
    look        \* the locals of reconcile_workspace

disk == <<tree, registered, head, branches, ahead>>
vars == <<row, named, disk, session, delete, batch, look>>

Creating == {"added", "inserted", "resolved", "started"}
SessionSteps == {"idle", "live", "orphaned"} \cup Creating
DeleteSteps == {"idle", "loaded", "counted", "tidy", "checked", "removing",
                "removed", "unbranched"}
LookSteps == {"idle", "absent", "present", "read"}

Session == [pc: SessionSteps, ws: Workspaces \cup {NoWorkspace}, bound: BOOLEAN]
Delete == [pc: DeleteSteps, w: Workspaces \cup {NoWorkspace},
           branch: Heads, force: BOOLEAN, delete_branch: BOOLEAN]
Look == [pc: LookSteps, w: Workspaces \cup {NoWorkspace}, branch: Heads]

IdleLook == [pc |-> "idle", w |-> NoWorkspace, branch |-> "own"]

\* A free slot.  What is left of a session or request that is over is not used.
NoSession == [pc |-> "idle", ws |-> NoWorkspace, bound |-> FALSE]
NoDelete == [pc |-> "idle", w |-> NoWorkspace, branch |-> "own",
             force |-> FALSE, delete_branch |-> FALSE]

Init ==
    /\ row = [w \in Workspaces |-> "none"]
    /\ named = [w \in Workspaces |-> "own"]
    /\ tree = [w \in Workspaces |-> "none"]
    /\ registered = {}
    /\ head = [w \in Workspaces |-> "own"]
    /\ branches = [w \in Workspaces |-> {}]
    /\ ahead = [w \in Workspaces |-> {}]
    /\ session = [s \in Sessions |-> NoSession]
    /\ delete = [d \in Deletes |-> NoDelete]
    /\ batch = {}
    /\ look = IdleLook

-----------------------------------------------------------------------------
(* Creating a session *)

Busy(d) == delete[d].pc # "idle"

\* Some request deletes w.
Deleting(w) == \E d \in Deletes : Busy(d) /\ delete[d].w = w

Advance(s, pc) == session' = [session EXCEPT ![s].pc = pc]
Leave(s) == session' = [session EXCEPT ![s] = NoSession]
Enter(s, w, pc) == session' = [session EXCEPT ![s].pc = pc, ![s].ws = w]

\* resolve_session_workspace with a workspace_id.
ResolveExisting(s, w) ==
    /\ session[s].pc = "idle"
    /\ row[w] = "active"
    /\ "race" \in Mishaps \/ ~Deleting(w)
    /\ Enter(s, w, "resolved")
    /\ UNCHANGED <<row, named, disk, delete, batch, look>>

\* The id and its path are new: nothing has ever been there.
Unused(w) ==
    /\ row[w] = "none" /\ tree[w] = "none"
    /\ w \notin registered /\ branches[w] = {}

\* create_worktree_workspace: git worktree add -b.
AddWorktree(s, w) ==
    /\ session[s].pc = "idle"
    /\ Unused(w)
    /\ tree' = [tree EXCEPT ![w] = "clean"]
    /\ registered' = registered \cup {w}
    /\ branches' = [branches EXCEPT ![w] = {"own"}]
    /\ Enter(s, w, "added")
    /\ UNCHANGED <<row, named, head, ahead, delete, batch, look>>

InsertRow(s) ==
    /\ session[s].pc = "added"
    /\ row' = [row EXCEPT ![session[s].ws] = "active"]
    /\ Advance(s, "inserted")
    /\ UNCHANGED <<named, disk, delete, batch, look>>

\* load_workspace after the INSERT.
LoadCreated(s) ==
    /\ session[s].pc = "inserted"
    /\ IF row[session[s].ws] = "deleted" THEN Leave(s) ELSE Advance(s, "resolved")
    /\ UNCHANGED <<row, named, disk, delete, batch, look>>

\* create_session: working_dir.exists(), and spawn() with the shell in it.
StartShell(s) ==
    /\ session[s].pc = "resolved"
    /\ IF tree[session[s].ws] = "none" THEN Leave(s) ELSE Advance(s, "started")
    /\ UNCHANGED <<row, named, disk, delete, batch, look>>

InsertSession(s) ==
    /\ session[s].pc = "started"
    /\ session' = [session EXCEPT ![s].pc = "live", ![s].bound = TRUE]
    /\ UNCHANGED <<row, named, disk, delete, batch, look>>

\* The shell exits, or the session is deleted.
EndSession(s) ==
    /\ session[s].pc \in {"live", "orphaned"}
    /\ Leave(s)
    /\ UNCHANGED <<row, named, disk, delete, batch, look>>

AbandonCreate(s) ==
    /\ "hangup" \in Mishaps
    /\ session[s].pc \in Creating
    /\ Leave(s)
    /\ UNCHANGED <<row, named, disk, delete, batch, look>>

-----------------------------------------------------------------------------
(* What the shells, and others, do on the disk *)

\* A shell that runs in a worktree that is there.
WorksIn(s, w) ==
    /\ session[s].pc \in {"started", "live"}
    /\ session[s].ws = w
    /\ tree[w] # "none"

Edit(s, w) ==
    /\ WorksIn(s, w)
    /\ tree' = [tree EXCEPT ![w] = "dirty"]
    /\ UNCHANGED <<row, named, registered, head, branches, ahead, session, delete,
                   batch, look>>

Commit(s, w) ==
    /\ WorksIn(s, w)
    /\ tree[w] = "dirty"
    /\ tree' = [tree EXCEPT ![w] = "clean"]
    /\ ahead' = [ahead EXCEPT ![w] = @ \cup {head[w]}]
    /\ UNCHANGED <<row, named, registered, head, branches, session, delete, batch, look>>

\* git switch, which makes a branch of what is checked out if there is none.
Switch(s, w, b) ==
    /\ WorksIn(s, w)
    /\ head[w] # "detached"
    /\ b # head[w]
    /\ b = "detached" => "detach" \in Mishaps
    /\ head' = [head EXCEPT ![w] = b]
    /\ branches' = [branches EXCEPT ![w] = @ \cup ({b} \cap Branches)]
    /\ ahead' = [ahead EXCEPT ![w] =
                    IF b \in Branches \ branches[w] /\ head[w] \in @
                    THEN @ \cup {b} ELSE @]
    /\ UNCHANGED <<row, named, tree, registered, session, delete, batch, look>>

Vanish(w) ==
    /\ "vanish" \in Mishaps
    /\ tree[w] # "none"
    /\ tree' = [tree EXCEPT ![w] = "none"]
    /\ UNCHANGED <<row, named, registered, head, branches, ahead, session, delete,
                   batch, look>>

-----------------------------------------------------------------------------
(* delete_workspace *)

Go(d, pc) == delete' = [delete EXCEPT ![d].pc = pc]
Finish(d) == delete' = [delete EXCEPT ![d] = NoDelete]

\* The row is loaded.
BeginDelete(d, w, o) ==
    /\ delete[d].pc = "idle"
    /\ row[w] \in {"active", "missing"}
    /\ "race" \in Mishaps \/ \A s \in Sessions :
                                session[s].ws = w => session[s].pc \notin Creating
    /\ delete' = [delete EXCEPT ![d] =
                    [pc |-> "loaded", w |-> w, branch |-> named[w],
                     force |-> o.force, delete_branch |-> o.delete_branch]]
    /\ UNCHANGED <<row, named, disk, session, batch, look>>

\* SELECT COUNT over the sessions bound to the workspace.
CountsAsBound(s, w) ==
    /\ session[s].pc \in {"live", "orphaned"}
    /\ session[s].bound
    /\ session[s].ws = w

CountSessions(d) ==
    /\ delete[d].pc = "loaded"
    /\ IF \E s \in Sessions : CountsAsBound(s, delete[d].w)
       THEN Finish(d) ELSE Go(d, "counted")
    /\ UNCHANGED <<row, named, disk, session, batch, look>>

CheckStatus(d) ==
    /\ delete[d].pc = "counted"
    /\ \/ /\ tree[delete[d].w] = "dirty" /\ ~delete[d].force
          /\ Finish(d)
       \/ /\ \/ tree[delete[d].w] # "dirty"
             \/ delete[d].force
             \/ "git" \in Mishaps
          /\ Go(d, "tidy")
    /\ UNCHANGED <<row, named, disk, session, batch, look>>

\* Mutant: the history checked is that of the branch the row names by now,
\* not of the one that is going to be deleted.
KeepsNamedBranch(d) ==
    /\ delete[d].delete_branch /\ ~delete[d].force
    /\ named[delete[d].w] \in branches[delete[d].w]
    /\ named[delete[d].w] \in ahead[delete[d].w]

\* Deleting the branch would lose commits, and the request does not force it.
KeepsBranch(d) ==
    /\ delete[d].delete_branch /\ ~delete[d].force
    /\ delete[d].branch \in branches[delete[d].w]
    /\ delete[d].branch \in ahead[delete[d].w]

CheckBranch(d) ==
    /\ delete[d].pc = "tidy"
    /\ IF KeepsBranch(d) THEN Finish(d) ELSE Go(d, "checked")
    /\ UNCHANGED <<row, named, disk, session, batch, look>>

\* Mutant: a registration whose directory is gone is not looked for.
HasDirectory(w) == tree[w] # "none"

\* There is a directory, or Git has the worktree registered.
IsThere(w) == tree[w] # "none" \/ w \in registered

FindWorktree(d) ==
    /\ delete[d].pc = "checked"
    /\ Go(d, IF IsThere(delete[d].w) THEN "removing" ELSE "removed")
    /\ UNCHANGED <<row, named, disk, session, batch, look>>

\* git worktree remove: of a registered worktree, with --force also when it
\* has changes.  What was committed on a detached HEAD goes with it.
RemoveWorktree(d) ==
    LET w == delete[d].w IN
    /\ delete[d].pc = "removing"
    /\ \/ /\ w \in registered
          /\ tree[w] = "dirty" => delete[d].force
          /\ tree' = [tree EXCEPT ![w] = "none"]
          /\ registered' = registered \ {w}
          /\ head' = [head EXCEPT ![w] = "own"]
          /\ ahead' = [ahead EXCEPT ![w] = @ \ {"detached"}]
          /\ Go(d, "removed")
       \/ /\ \/ w \notin registered
             \/ tree[w] = "dirty" /\ ~delete[d].force
          /\ Finish(d)
          /\ UNCHANGED <<tree, registered, head, ahead>>
    /\ UNCHANGED <<row, named, branches, session, batch, look>>

\* git branch -D, when the branch exists and is to be deleted.
DeleteBranch(d) ==
    LET w == delete[d].w
        b == delete[d].branch
    IN
    /\ delete[d].pc = "removed"
    /\ IF delete[d].delete_branch
       THEN /\ branches' = [branches EXCEPT ![w] = @ \ {b}]
            /\ ahead' = [ahead EXCEPT ![w] = @ \ ({b} \cap Branches)]
       ELSE UNCHANGED <<branches, ahead>>
    /\ Go(d, "unbranched")
    /\ UNCHANGED <<row, named, tree, registered, head, session, batch, look>>

\* The transaction: sessions are unbound, the row is marked.
CommitDelete(d) ==
    LET w == delete[d].w IN
    /\ delete[d].pc = "unbranched"
    /\ row' = [row EXCEPT ![w] = "deleted"]
    /\ session' = [s \in Sessions |->
                     IF session[s].ws = w
                     THEN [session[s] EXCEPT !.bound = FALSE] ELSE session[s]]
    /\ Finish(d)
    /\ UNCHANGED <<named, disk, batch, look>>

AbandonDelete(d) ==
    /\ "hangup" \in Mishaps
    /\ Busy(d)
    /\ Finish(d)
    /\ UNCHANGED <<row, named, disk, session, batch, look>>

-----------------------------------------------------------------------------
(* reconcile_due_once, in the task of run() *)

\* A row is due some time after it was last looked at, and those longest due
\* come first, so that any of the active rows may be among them.
LoadDue(due) ==
    /\ batch = {} /\ look.pc = "idle"
    /\ due # {} /\ Cardinality(due) <= BatchSize
    /\ \A w \in due : row[w] = "active"
    /\ batch' = due
    /\ UNCHANGED <<row, named, disk, session, delete, look>>

LookAt(w) ==
    /\ look.pc = "idle"
    /\ w \in batch
    /\ batch' = batch \ {w}
    /\ look' = [look EXCEPT !.pc = IF tree[w] = "none" THEN "absent" ELSE "present",
                            !.w = w]
    /\ UNCHANGED <<row, named, disk, session, delete>>

\* The UPDATE names the row by its id alone.
MarkMissing ==
    /\ look.pc = "absent"
    /\ row' = [row EXCEPT ![look.w] = "missing"]
    /\ look' = IdleLook
    /\ UNCHANGED <<named, disk, session, delete, batch>>

\* Mutant: no output is taken for a branch with an empty name.
BranchesReadRaw(w) ==
    IF tree[w] # "none"
    THEN {head[w]} \cup (IF "git" \in Mishaps THEN {""} ELSE {})
    ELSE {""}

\* What read_status may find checked out.  A Git command that fails, or runs
\* where nothing is, has no output.
BranchesRead(w) ==
    IF tree[w] # "none"
    THEN {head[w]} \cup (IF "git" \in Mishaps THEN {"detached"} ELSE {})
    ELSE {"detached"}

ReadStatus ==
    /\ look.pc = "present"
    /\ \E b \in BranchesRead(look.w) :
          look' = [look EXCEPT !.pc = "read", !.branch = b]
    /\ UNCHANGED <<row, named, disk, session, delete, batch>>

\* The transaction, which also writes the branch that was read.
CommitStatus ==
    /\ look.pc = "read"
    /\ named' = [named EXCEPT ![look.w] = look.branch]
    /\ look' = IdleLook
    /\ UNCHANGED <<row, disk, session, delete, batch>>

\* An error is logged, and written to the row.
StatusFails ==
    /\ "hangup" \in Mishaps
    /\ look.pc # "idle"
    /\ look' = IdleLook
    /\ UNCHANGED <<row, named, disk, session, delete, batch>>

\* Requests and shells die with the backend; reconcile_orphans_on_startup.
Crash ==
    /\ "crash" \in Mishaps
    /\ session' = [s \in Sessions |->
                     CASE session[s].pc = "live" -> [session[s] EXCEPT !.pc = "orphaned"]
                       [] session[s].pc \in Creating -> NoSession
                       [] OTHER -> session[s]]
    /\ delete' = [d \in Deletes |-> NoDelete]
    /\ batch' = {}
    /\ look' = IdleLook
    /\ UNCHANGED <<row, named, disk>>

-----------------------------------------------------------------------------
SessionStep(s) ==
    \/ \E w \in Workspaces : ResolveExisting(s, w) \/ AddWorktree(s, w)
    \/ InsertRow(s) \/ LoadCreated(s)
    \/ StartShell(s) \/ InsertSession(s)
    \/ EndSession(s) \/ AbandonCreate(s)

ShellStep(s, w) ==
    Edit(s, w) \/ Commit(s, w) \/ \E b \in Heads : Switch(s, w, b)

DeleteStep(d) ==
    \/ CountSessions(d) \/ CheckStatus(d) \/ CheckBranch(d)
    \/ FindWorktree(d) \/ RemoveWorktree(d) \/ DeleteBranch(d)
    \/ CommitDelete(d)

ReconcileStep ==
    \/ \E w \in Workspaces : LookAt(w)
    \/ MarkMissing \/ ReadStatus \/ CommitStatus

Next ==
    \/ \E s \in Sessions : SessionStep(s) \/ \E w \in Workspaces : ShellStep(s, w)
    \/ \E w \in Workspaces : Vanish(w)
    \/ \E d \in Deletes :
          \/ \E w \in Workspaces, o \in Options : BeginDelete(d, w, o)
          \/ DeleteStep(d) \/ AbandonDelete(d)
    \/ \E due \in SUBSET Workspaces : LoadDue(due)
    \/ ReconcileStep \/ StatusFails
    \/ Crash

Spec == Init /\ [][Next]_vars
=============================================================================
