-------------------------- MODULE WorkspacesProofs --------------------------
(***************************************************************************)
(* Proofs of what WorkspacesProperties states, for any number of           *)
(* workspaces, sessions and requests.                                      *)
(***************************************************************************)
EXTENDS WorkspacesProperties, TLAPS

-----------------------------------------------------------------------------
(* Types *)

\* Slots keep their types, and are free exactly when they are not about any
\* workspace.
SessionsOK ==
    /\ session \in [Sessions -> Session]
    /\ \A s \in Sessions : session[s].pc = "idle" <=> session[s].ws = NoWorkspace

DeletesOK ==
    /\ delete \in [Deletes -> Delete]
    /\ \A d \in Deletes : delete[d].pc = "idle" <=> delete[d].w = NoWorkspace

LookOK ==
    /\ look \in Look
    /\ look.pc = "idle" <=> look.w = NoWorkspace

TInv == TypeOK /\ SessionsOK /\ DeletesOK /\ LookOK

\* What a step of a session's slot leaves.
LEMMA SessionSlots ==
    ASSUME SessionsOK, NEW s \in Sessions,
           \/ Leave(s)
           \/ \E w \in Workspaces, pc \in SessionSteps \ {"idle"} : Enter(s, w, pc)
           \/ \E pc \in SessionSteps \ {"idle"} : session[s].pc # "idle" /\ Advance(s, pc)
    PROVE  SessionsOK'
<1> USE DEF SessionsOK, Session
<1>1. CASE Leave(s)
  BY <1>1 DEF Leave, NoSession, SessionSteps
<1>2. ASSUME NEW w \in Workspaces, NEW pc \in SessionSteps \ {"idle"}, Enter(s, w, pc)
      PROVE SessionsOK'
  BY <1>2, WorkspacesAssumption DEF Enter
<1>3. ASSUME NEW pc \in SessionSteps \ {"idle"}, session[s].pc # "idle", Advance(s, pc)
      PROVE SessionsOK'
  BY <1>3 DEF Advance
<1> QED BY <1>1, <1>2, <1>3

\* What a step of a request's slot leaves.
LEMMA DeleteSlots ==
    ASSUME DeletesOK, NEW d \in Deletes,
           \/ Finish(d)
           \/ \E pc \in DeleteSteps \ {"idle"} : delete[d].pc # "idle" /\ Go(d, pc)
    PROVE  DeletesOK'
<1> USE DEF DeletesOK, Delete
<1>1. CASE Finish(d)
  BY <1>1 DEF Finish, NoDelete, DeleteSteps, Heads, Branches
<1>2. ASSUME NEW pc \in DeleteSteps \ {"idle"}, delete[d].pc # "idle", Go(d, pc)
      PROVE DeletesOK'
  BY <1>2 DEF Go
<1> QED BY <1>1, <1>2

LEMMA TypesSession ==
    ASSUME TInv, NEW s \in Sessions, SessionStep(s)
    PROVE  TInv'
<1> USE DEF TInv, TypeOK, disk
<1>0. /\ UNCHANGED <<named, head, ahead, delete, batch, look>>
      /\ DeletesOK' /\ LookOK'
  BY DEF SessionStep, ResolveExisting, AddWorktree, InsertRow, LoadCreated, StartShell,
         InsertSession, EndSession, AbandonCreate, DeletesOK, LookOK
<1>1. SessionsOK'
  <2>1. ASSUME NEW w \in Workspaces, ResolveExisting(s, w) \/ AddWorktree(s, w)
        PROVE SessionsOK'
    <3>1. \E pc \in SessionSteps \ {"idle"} : Enter(s, w, pc)
      BY <2>1 DEF ResolveExisting, AddWorktree, SessionSteps, Creating
    <3> QED BY <3>1, SessionSlots
  <2>2. CASE InsertRow(s) \/ LoadCreated(s) \/ StartShell(s) \/ EndSession(s)
             \/ AbandonCreate(s)
    <3>1. \/ Leave(s)
          \/ \E pc \in SessionSteps \ {"idle"} : session[s].pc # "idle" /\ Advance(s, pc)
      BY <2>2 DEF InsertRow, LoadCreated, StartShell, EndSession, AbandonCreate,
                  SessionSteps, Creating
    <3> QED BY <3>1, SessionSlots
  <2>3. CASE InsertSession(s)
    BY <2>3 DEF InsertSession, SessionsOK, Session, SessionSteps
  <2> QED BY <2>1, <2>2, <2>3 DEF SessionStep
<1>2. /\ row' \in [Workspaces -> {"none", "active", "missing", "deleted"}]
      /\ tree' \in [Workspaces -> {"none", "clean", "dirty"}]
      /\ registered' \subseteq Workspaces
      /\ branches' \in [Workspaces -> SUBSET Branches]
  BY DEF SessionStep, ResolveExisting, AddWorktree, InsertRow, LoadCreated, StartShell,
         InsertSession, EndSession, AbandonCreate, Branches
<1> QED BY <1>0, <1>1, <1>2 DEF SessionsOK

LEMMA TypesShell ==
    ASSUME TInv, NEW s \in Sessions, NEW w \in Workspaces, ShellStep(s, w)
    PROVE  TInv'
<1> USE DEF TInv, TypeOK
<1>1. /\ UNCHANGED <<row, named, registered, session, delete, batch, look>>
      /\ SessionsOK' /\ DeletesOK' /\ LookOK'
  BY DEF ShellStep, Edit, Commit, Switch, SessionsOK, DeletesOK, LookOK
<1>2. /\ tree' \in [Workspaces -> {"none", "clean", "dirty"}]
      /\ head' \in [Workspaces -> Heads]
      /\ branches' \in [Workspaces -> SUBSET Branches]
      /\ ahead' \in [Workspaces -> SUBSET Heads]
  BY DEF ShellStep, Edit, Commit, Switch
<1> QED BY <1>1, <1>2

LEMMA TypesDelete ==
    ASSUME TInv, NEW d \in Deletes, DeleteStep(d) \/ AbandonDelete(d)
    PROVE  TInv'
<1> USE DEF TInv, TypeOK, disk
<1>1. UNCHANGED <<named, batch, look>> /\ LookOK'
  BY DEF DeleteStep, CountSessions, CheckStatus, CheckBranch, FindWorktree,
         RemoveWorktree, DeleteBranch, CommitDelete, AbandonDelete, LookOK
<1>2. DeletesOK'
  <2>1. \/ Finish(d)
        \/ \E pc \in DeleteSteps \ {"idle"} : delete[d].pc # "idle" /\ Go(d, pc)
    BY DEF DeleteStep, CountSessions, CheckStatus, CheckBranch, FindWorktree,
           RemoveWorktree, DeleteBranch, CommitDelete, AbandonDelete, DeleteSteps
  <2> QED BY <2>1, DeleteSlots
<1>3. CASE CommitDelete(d)
  BY <1>1, <1>2, <1>3 DEF CommitDelete, SessionsOK, DeletesOK, Session
<1>4. CASE RemoveWorktree(d) \/ DeleteBranch(d)
  <2>1. UNCHANGED <<row, session>> /\ SessionsOK'
    BY <1>4 DEF RemoveWorktree, DeleteBranch, SessionsOK
  <2>2. /\ tree' \in [Workspaces -> {"none", "clean", "dirty"}]
        /\ registered' \subseteq Workspaces
        /\ head' \in [Workspaces -> Heads]
        /\ branches' \in [Workspaces -> SUBSET Branches]
        /\ ahead' \in [Workspaces -> SUBSET Heads]
    BY <1>4 DEF RemoveWorktree, DeleteBranch, Heads, Branches
  <2> QED BY <1>1, <1>2, <2>1, <2>2 DEF DeletesOK
<1>5. CASE CountSessions(d) \/ CheckStatus(d) \/ CheckBranch(d) \/ FindWorktree(d)
           \/ AbandonDelete(d)
  BY <1>1, <1>2, <1>5 DEF CountSessions, CheckStatus, CheckBranch, FindWorktree,
                          AbandonDelete, SessionsOK, DeletesOK
<1> QED BY <1>3, <1>4, <1>5 DEF DeleteStep

LEMMA TypesReconcile ==
    ASSUME TInv, ReconcileStep \/ StatusFails
    PROVE  TInv'
<1> USE DEF TInv, TypeOK, disk, LookOK, IdleLook, Look, LookSteps, Heads, Branches
<1>0. /\ UNCHANGED <<tree, registered, head, branches, ahead, session, delete>>
      /\ SessionsOK' /\ DeletesOK'
  BY DEF ReconcileStep, LookAt, MarkMissing, ReadStatus, CommitStatus, StatusFails,
         SessionsOK, DeletesOK
<1>1. ASSUME NEW w \in Workspaces, LookAt(w) PROVE TInv'
  BY <1>0, <1>1, WorkspacesAssumption DEF LookAt
<1>2. CASE MarkMissing
  BY <1>0, <1>2 DEF MarkMissing
<1>3. CASE ReadStatus
  <2>1. PICK b \in BranchesRead(look.w) :
                look' = [look EXCEPT !.pc = "read", !.branch = b]
    BY <1>3 DEF ReadStatus
  <2>2. look.w \in Workspaces
    BY <1>3 DEF ReadStatus
  <2>3. b \in Heads
    BY <2>2 DEF BranchesRead
  <2>4. LookOK'
    <3>1. /\ look'.pc = "read" /\ look'.w = look.w /\ look'.branch = b
          /\ DOMAIN look' = DOMAIN look
      BY <2>1
    <3>2. look' \in Look
      BY <2>1, <2>3
    <3> QED BY <2>2, <3>1, <3>2, WorkspacesAssumption
  <2> QED BY <1>0, <1>3, <2>4 DEF ReadStatus
<1>4. CASE CommitStatus
  BY <1>0, <1>4 DEF CommitStatus
<1>5. CASE StatusFails
  BY <1>0, <1>5 DEF StatusFails
<1> QED BY <1>1, <1>2, <1>3, <1>4, <1>5 DEF ReconcileStep

LEMMA TypesHoldStep ==
    ASSUME TInv, [Next]_vars
    PROVE  TInv'
<1>1. ASSUME NEW w \in Workspaces, Vanish(w) PROVE TInv'
  BY <1>1 DEF Vanish, TInv, TypeOK, SessionsOK, DeletesOK, LookOK
<1>2. ASSUME NEW d \in Deletes, NEW w \in Workspaces, NEW o \in Options,
             BeginDelete(d, w, o)
      PROVE TInv'
  <2>1. DeletesOK'
    BY <1>2, WorkspacesAssumption DEF BeginDelete, TInv, TypeOK, DeletesOK, Delete,
                                      DeleteSteps
  <2> QED BY <1>2, <2>1 DEF BeginDelete, TInv, TypeOK, SessionsOK, DeletesOK, LookOK, disk
<1>3. ASSUME NEW due \in SUBSET Workspaces, LoadDue(due) PROVE TInv'
  BY <1>3 DEF LoadDue, TInv, TypeOK, SessionsOK, DeletesOK, LookOK, disk
<1>4. CASE Crash
  <2>1. SessionsOK'
    BY <1>4 DEF Crash, TInv, SessionsOK, NoSession, Session, SessionSteps, Creating
  <2>2. DeletesOK' /\ LookOK'
    BY <1>4 DEF Crash, DeletesOK, LookOK, NoDelete, IdleLook, Delete, DeleteSteps,
                Look, LookSteps, Heads, Branches
  <2> QED BY <1>4, <2>1, <2>2 DEF Crash, TInv, TypeOK, SessionsOK, DeletesOK, LookOK, disk
<1>5. CASE UNCHANGED vars
  BY <1>5 DEF vars, disk, TInv, TypeOK, SessionsOK, DeletesOK, LookOK
<1> QED BY <1>1, <1>2, <1>3, <1>4, <1>5, TypesSession, TypesShell, TypesDelete,
           TypesReconcile DEF Next

LEMMA TypesHold == Spec => []TInv
<1>1. Init => TInv
  BY DEF Init, TInv, TypeOK, SessionsOK, DeletesOK, LookOK, NoSession, NoDelete,
         IdleLook, Session, Delete, Look, SessionSteps, DeleteSteps, LookSteps, Heads,
         Branches
<1> QED BY <1>1, TypesHoldStep, PTL DEF Spec

\* The state keeps its types: no handler writes a state or a step that the
\* others do not know.
THEOREM Types == Spec => []TypeOK
BY TypesHold, PTL DEF TInv

-----------------------------------------------------------------------------
(* A deleted workspace is gone *)

Gone(w) == tree[w] = "none" /\ w \notin registered

\* Past RemoveWorktree a request knows its worktree gone, and nobody makes it
\* again: its id is used, since its row is there.
GoneInv ==
    /\ DeletedLeftTheDisk
    /\ \A d \in Deletes :
          /\ delete[d].pc # "idle" => row[delete[d].w] # "none"
          /\ delete[d].pc \in {"removed", "unbranched"} => Gone(delete[d].w)

\* A worktree whose id is used and that is gone stays gone, and its id used.
LEMMA GoneStays ==
    ASSUME TInv, [Next]_vars, NEW w \in Workspaces
    PROVE  /\ row[w] # "none" => row'[w] # "none"
           /\ row[w] # "none" /\ Gone(w) => Gone(w)'
<1> USE DEF TInv, TypeOK, Gone, disk
<1>1. ASSUME NEW s \in Sessions, SessionStep(s)
      PROVE  /\ row[w] # "none" => row'[w] # "none"
             /\ row[w] # "none" /\ Gone(w) => Gone(w)'
  BY <1>1 DEF SessionStep, ResolveExisting, AddWorktree, Unused, InsertRow, LoadCreated,
              StartShell, InsertSession, EndSession, AbandonCreate
<1>2. ASSUME NEW s \in Sessions, NEW x \in Workspaces, ShellStep(s, x)
      PROVE  row' = row /\ (Gone(w) => Gone(w)')
  BY <1>2 DEF ShellStep, Edit, Commit, Switch, WorksIn
<1>3. ASSUME NEW x \in Workspaces, Vanish(x)
      PROVE  row' = row /\ (Gone(w) => Gone(w)')
  BY <1>3 DEF Vanish
<1>4. ASSUME NEW d \in Deletes,
             \/ \E x \in Workspaces, o \in Options : BeginDelete(d, x, o)
             \/ DeleteStep(d) \/ AbandonDelete(d)
      PROVE  /\ row[w] # "none" => row'[w] # "none"
             /\ Gone(w) => Gone(w)'
  BY <1>4 DEF BeginDelete, DeleteStep, CountSessions, CheckStatus, CheckBranch,
              FindWorktree, RemoveWorktree, DeleteBranch, CommitDelete, AbandonDelete
<1>5. ASSUME (\E due \in SUBSET Workspaces : LoadDue(due)) \/ ReconcileStep
                \/ StatusFails \/ Crash \/ UNCHANGED vars
      PROVE  /\ row[w] # "none" => row'[w] # "none"
             /\ Gone(w) => Gone(w)'
  BY <1>5 DEF LoadDue, ReconcileStep, LookAt, MarkMissing, ReadStatus, CommitStatus,
              StatusFails, Crash, vars
<1> QED BY <1>1, <1>2, <1>3, <1>4, <1>5 DEF Next

\* Which requests go on after a step, and what each had to find for that.
LEMMA RequestsGoOn ==
    ASSUME TInv, [Next]_vars, NEW d \in Deletes, delete'[d].pc # "idle"
    PROVE  \/ delete'[d] = delete[d]
           \/ /\ delete[d].pc = "idle"
              /\ \E w \in Workspaces, o \in Options : BeginDelete(d, w, o)
           \/ /\ DeleteStep(d) /\ delete[d].pc # "idle"
              /\ Go(d, delete'[d].pc)
              /\ delete'[d] = [delete[d] EXCEPT !.pc = delete'[d].pc]
<1> USE DEF TInv, DeletesOK
<1>1. ASSUME NEW e \in Deletes, DeleteStep(e) \/ AbandonDelete(e)
      PROVE  \/ delete'[d] = delete[d]
             \/ /\ DeleteStep(d) /\ delete[d].pc # "idle"
                /\ Go(d, delete'[d].pc)
                /\ delete'[d] = [delete[d] EXCEPT !.pc = delete'[d].pc]
  <2>1. Finish(e) \/ (DeleteStep(e) /\ delete[e].pc # "idle" /\ \E pc \in DeleteSteps : Go(e, pc))
    BY <1>1 DEF DeleteStep, CountSessions, CheckStatus, CheckBranch, FindWorktree,
                RemoveWorktree, DeleteBranch, CommitDelete, AbandonDelete, DeleteSteps
  <2>2. CASE Finish(e)
    BY <2>2 DEF Finish, NoDelete
  <2>3. ASSUME NEW pc \in DeleteSteps, Go(e, pc), DeleteStep(e), delete[e].pc # "idle"
        PROVE  \/ delete'[d] = delete[d]
               \/ /\ DeleteStep(d) /\ delete[d].pc # "idle"
                  /\ Go(d, delete'[d].pc)
                  /\ delete'[d] = [delete[d] EXCEPT !.pc = delete'[d].pc]
    BY <2>3 DEF Go, Delete
  <2> QED BY <2>1, <2>2, <2>3
<1>2. ASSUME NEW e \in Deletes, NEW w \in Workspaces, NEW o \in Options,
             BeginDelete(e, w, o)
      PROVE  delete'[d] = delete[d]
             \/ (delete[d].pc = "idle" /\ BeginDelete(d, w, o))
  BY <1>2 DEF BeginDelete
<1>3. CASE Crash
  BY <1>3 DEF Crash, NoDelete
<1>4. ASSUME \/ \E s \in Sessions : SessionStep(s) \/ \E w \in Workspaces : ShellStep(s, w)
             \/ \E w \in Workspaces : Vanish(w)
             \/ \E due \in SUBSET Workspaces : LoadDue(due)
             \/ ReconcileStep \/ StatusFails \/ UNCHANGED vars
      PROVE  delete' = delete
  BY <1>4 DEF SessionStep, ResolveExisting, AddWorktree, InsertRow, LoadCreated, StartShell,
              InsertSession, EndSession, AbandonCreate, ShellStep, Edit, Commit, Switch,
              Vanish, LoadDue, ReconcileStep, LookAt, MarkMissing, ReadStatus,
              CommitStatus, StatusFails, vars
<1> QED BY <1>1, <1>2, <1>3, <1>4 DEF Next

LEMMA GoneHolds == Spec => []GoneInv
<1>1. Init => GoneInv
  BY DEF Init, GoneInv, DeletedLeftTheDisk, NoDelete
<1>2. TInv /\ GoneInv /\ [Next]_vars => GoneInv'
  <2> SUFFICES ASSUME TInv, GoneInv, [Next]_vars PROVE GoneInv'
    OBVIOUS
  <2> USE DEF GoneInv, DeletedLeftTheDisk
  <2>1. ASSUME NEW d \in Deletes, delete'[d].pc # "idle"
        PROVE  /\ row'[delete'[d].w] # "none"
               /\ delete'[d].pc \in {"removed", "unbranched"} => Gone(delete[d].w)'
    <3>1. CASE delete'[d] = delete[d]
      <4>1. delete[d].w \in Workspaces
        BY <2>1, <3>1 DEF TInv, DeletesOK, Delete
      <4> QED BY <2>1, <3>1, <4>1, GoneStays DEF Gone
    <3>2. ASSUME NEW w \in Workspaces, NEW o \in Options, BeginDelete(d, w, o)
          PROVE  row'[delete'[d].w] # "none" /\ delete'[d].pc = "loaded"
      BY <3>2 DEF BeginDelete, TInv, DeletesOK
    <3>3. CASE /\ DeleteStep(d) /\ delete[d].pc # "idle"
               /\ delete'[d] = [delete[d] EXCEPT !.pc = delete'[d].pc]
      <4>1. delete[d].w \in Workspaces /\ delete'[d].w = delete[d].w
        BY <3>3 DEF TInv, DeletesOK, Delete
      <4>2. ASSUME delete'[d].pc = "removed" PROVE Gone(delete[d].w)'
        <5>1. FindWorktree(d) \/ RemoveWorktree(d)
          BY <3>3, <4>2 DEF DeleteStep, CountSessions, CheckStatus, CheckBranch,
                DeleteBranch, CommitDelete, Go, Finish, NoDelete, TInv, DeletesOK, Delete
        <5>2. CASE FindWorktree(d)
          BY <4>1, <4>2, <5>2 DEF FindWorktree, IsThere, Go, Gone, TInv, DeletesOK, disk
        <5>3. CASE RemoveWorktree(d)
          BY <4>1, <4>2, <5>3 DEF RemoveWorktree, Finish, NoDelete, Gone, TInv, TypeOK,
                                  DeletesOK
        <5> QED BY <5>1, <5>2, <5>3
      <4>3. delete'[d].pc = "unbranched" => delete[d].pc = "removed"
        BY <3>3 DEF DeleteStep, CountSessions, CheckStatus, CheckBranch,
              FindWorktree, RemoveWorktree, DeleteBranch, CommitDelete, Go,
              Finish, NoDelete, TInv, DeletesOK, Delete
      <4> QED BY <3>3, <4>1, <4>2, <4>3, GoneStays DEF Gone
    <3> QED BY <2>1, <3>1, <3>2, <3>3, RequestsGoOn
  <2>2. ASSUME NEW w \in Workspaces, row'[w] = "deleted" PROVE Gone(w)'
    <3>1. row[w] = "deleted" \/ \E d \in Deletes : CommitDelete(d) /\ delete[d].w = w
      BY <2>2 DEF Next, SessionStep, ResolveExisting, AddWorktree, InsertRow,
              LoadCreated, StartShell, InsertSession, EndSession, AbandonCreate,
              ShellStep, Edit, Commit, Switch, Vanish, BeginDelete, DeleteStep, CountSessions,
              CheckStatus, CheckBranch, FindWorktree, RemoveWorktree, DeleteBranch,
              CommitDelete, AbandonDelete, LoadDue, ReconcileStep, LookAt, MarkMissing,
              ReadStatus, CommitStatus, StatusFails, Crash, vars, TInv, TypeOK
    <3>2. row[w] # "none" /\ Gone(w)
      BY <3>1 DEF CommitDelete, Gone
    <3> QED BY <3>2, GoneStays
  <2> QED BY <2>1, <2>2 DEF Gone
<1> QED BY <1>1, <1>2, TypesHold, PTL DEF Spec

\* A workspace marked deleted has left the disk, whatever requests, the
\* reconciling task, crashes and people who remove directories do.
THEOREM DeletedHasGone == Spec => []DeletedLeftTheDisk
BY GoneHolds, PTL DEF GoneInv

-----------------------------------------------------------------------------
(* A request that has counted no session is alone with its workspace *)

\* Nobody creates a session in a workspace that is being deleted.
Exclusive == "race" \notin Mishaps

\* The count of a request stays true: its workspace gets no session until the
\* request is over.
AloneInv ==
    /\ \A s \in Sessions : session[s].pc \in {"live", "orphaned"} => session[s].bound
    /\ \A d \in Deletes, s \in Sessions :
          delete[d].pc # "idle" /\ session[s].ws = delete[d].w =>
             /\ session[s].pc \notin Creating
             /\ delete[d].pc = "loaded"

\* What a step makes of a session that goes on.
LEMMA SessionsGoOn ==
    ASSUME Exclusive, TInv, GoneInv, AloneInv, [Next]_vars,
           NEW s \in Sessions, session'[s].pc # "idle"
    PROVE  /\ \/ session[s].pc # "idle" /\ session'[s].ws = session[s].ws
              \/ \A d \in Deletes : session'[s].ws # delete[d].w /\ delete'[d] = delete[d]
           /\ session'[s].pc \in Creating =>
                \/ session[s].pc \in Creating
                \/ \A d \in Deletes : session'[s].ws # delete[d].w
           /\ session'[s].pc \in {"live", "orphaned"} =>
                \/ session'[s].bound
                \/ \E d \in Deletes : CommitDelete(d) /\ session[s].ws = delete[d].w
<1> USE DEF TInv, SessionsOK, Session, Creating, SessionSteps
<1>1. ASSUME NEW t \in Sessions, SessionStep(t)
      PROVE  /\ session'[s] # session[s] => s = t
             /\ delete' = delete
  BY <1>1 DEF SessionStep, ResolveExisting, AddWorktree, InsertRow, LoadCreated,
              StartShell, InsertSession, EndSession, AbandonCreate, Enter, Advance, Leave
<1>2. CASE session'[s] = session[s]
  BY <1>2 DEF AloneInv
<1>3. ASSUME NEW w \in Workspaces, ResolveExisting(s, w) \/ AddWorktree(s, w)
      PROVE  /\ session'[s].ws = w
             /\ \A d \in Deletes : w # delete[d].w /\ delete'[d] = delete[d]
             /\ session'[s].pc \in Creating
  <2>1. ASSUME NEW d \in Deletes PROVE w # delete[d].w
    BY <1>3, WorkspacesAssumption DEF ResolveExisting, AddWorktree, Unused, Deleting, Busy,
        Exclusive, GoneInv, DeletesOK
  <2> QED BY <1>3, <2>1 DEF ResolveExisting, AddWorktree, Enter
<1>4. CASE InsertRow(s) \/ LoadCreated(s) \/ StartShell(s) \/ InsertSession(s)
            \/ EndSession(s) \/ AbandonCreate(s)
  BY <1>4 DEF InsertRow, LoadCreated, StartShell, InsertSession, EndSession,
              AbandonCreate, Advance, Leave, NoSession
<1>5. ASSUME NEW d \in Deletes, CommitDelete(d)
      PROVE  \/ session'[s] = session[s]
             \/ /\ session[s].ws = delete[d].w
                /\ session'[s] = [session[s] EXCEPT !.bound = FALSE]
  BY <1>5 DEF CommitDelete
<1>6. CASE Crash
  BY <1>6 DEF Crash, NoSession, AloneInv
<1>7. \/ session'[s] = session[s]
      \/ \E t \in Sessions : SessionStep(t)
      \/ \E d \in Deletes : CommitDelete(d)
      \/ Crash
  BY DEF Next, ShellStep, Edit, Commit, Switch, Vanish, BeginDelete, DeleteStep,
         CountSessions, CheckStatus, CheckBranch, FindWorktree, RemoveWorktree,
         DeleteBranch, AbandonDelete, LoadDue, ReconcileStep, LookAt, MarkMissing,
         ReadStatus, CommitStatus, StatusFails, vars
<1> QED BY <1>1, <1>2, <1>3, <1>4, <1>5, <1>6, <1>7 DEF SessionStep

LEMMA AloneHolds ==
    ASSUME Exclusive
    PROVE  Spec => []AloneInv
<1>1. Init => AloneInv
  BY DEF Init, AloneInv, NoSession, NoDelete
<1>2. TInv /\ GoneInv /\ AloneInv /\ [Next]_vars => AloneInv'
  <2> SUFFICES ASSUME TInv, GoneInv, AloneInv, [Next]_vars PROVE AloneInv'
    OBVIOUS
  <2>1. ASSUME NEW d \in Deletes, NEW s \in Sessions,
               delete'[d].pc # "idle", session'[s].ws = delete'[d].w
        PROVE  session'[s].pc \notin Creating /\ delete'[d].pc = "loaded"
    <3>0. delete'[d].w \in Workspaces /\ session'[s].pc # "idle"
      <4>1. TInv'
        BY TypesHoldStep
      <4> QED BY <2>1, <4>1, WorkspacesAssumption DEF TInv, SessionsOK, DeletesOK, Delete
    <3>1. CASE delete'[d] = delete[d]
      <4>1. session[s].ws = delete[d].w
        BY <2>1, <3>0, <3>1, SessionsGoOn
      <4>2. session[s].pc \notin Creating /\ delete[d].pc = "loaded"
        BY <2>1, <3>1, <4>1 DEF AloneInv
      <4>3. session'[s].pc \notin Creating
        BY <2>1, <3>0, <3>1, <4>2, SessionsGoOn
      <4> QED BY <3>1, <4>2, <4>3
    <3>2. ASSUME NEW w \in Workspaces, NEW o \in Options, BeginDelete(d, w, o)
          PROVE  session'[s].pc \notin Creating /\ delete'[d].pc = "loaded"
      BY <2>1, <3>2 DEF BeginDelete, Exclusive, TInv, DeletesOK
    <3>3. CASE /\ DeleteStep(d) /\ delete[d].pc # "idle"
               /\ Go(d, delete'[d].pc)
               /\ delete'[d] = [delete[d] EXCEPT !.pc = delete'[d].pc]
      <4>1. delete'[d].w = delete[d].w
        BY <3>3 DEF TInv, DeletesOK, Delete
      <4>2. ~CommitDelete(d)
        BY <2>1, <3>3 DEF CommitDelete, Finish, NoDelete, TInv, DeletesOK
      <4>3. session' = session
        BY <3>3, <4>2 DEF DeleteStep, CountSessions, CheckStatus, CheckBranch,
                          FindWorktree, RemoveWorktree, DeleteBranch
      <4>4. delete[d].pc = "loaded" /\ session[s].pc \notin Creating
        BY <2>1, <3>3, <4>1, <4>3 DEF AloneInv
      <4>5. CountSessions(d)
        BY <3>3, <4>2, <4>4 DEF DeleteStep, CheckStatus, CheckBranch, FindWorktree,
                                RemoveWorktree, DeleteBranch
      <4>6. CountsAsBound(s, delete[d].w)
        BY <2>1, <3>0, <4>1, <4>3, <4>4 DEF CountsAsBound, AloneInv, TInv, SessionsOK,
                                            Session, SessionSteps
      <4> QED BY <2>1, <4>5, <4>6 DEF CountSessions, Finish, NoDelete, TInv, DeletesOK
    <3> QED BY <2>1, <3>1, <3>2, <3>3, RequestsGoOn
  <2>2. ASSUME NEW s \in Sessions, session'[s].pc \in {"live", "orphaned"}
        PROVE  session'[s].bound
    <3>1. session'[s].pc # "idle"
      BY <2>2
    <3>2. ASSUME NEW d \in Deletes, CommitDelete(d), session[s].ws = delete[d].w
          PROVE  FALSE
      BY <3>2 DEF CommitDelete, AloneInv
    <3> QED BY <2>2, <3>1, <3>2, SessionsGoOn
  <2> QED BY <2>1, <2>2 DEF AloneInv
<1> QED BY <1>1, <1>2, TypesHold, GoneHolds, PTL DEF Spec

-----------------------------------------------------------------------------
(* Only force loses work *)

\* Nobody commits on a detached HEAD.
OnBranches == "detach" \notin Mishaps

\* Commits are on branches that exist, and so is what a worktree has checked
\* out.  The history a request found without commits stays that way.
KeptInv ==
    /\ \A w \in Workspaces :
          /\ ahead[w] \subseteq branches[w]
          /\ tree[w] # "none" => head[w] \in branches[w]
          /\ w \notin registered => tree[w] = "none" /\ head[w] = "own"
    /\ \A d \in Deletes :
          /\ delete[d].pc \in {"checked", "removing", "removed"}
          /\ delete[d].delete_branch /\ ~delete[d].force
          => delete[d].branch \notin ahead[delete[d].w]

KeptAll == TInv /\ GoneInv /\ AloneInv /\ KeptInv

\* The first part of KeptInv, which is about the disk.
LEMMA DiskKept ==
    ASSUME OnBranches, KeptAll, [Next]_vars, NEW w \in Workspaces
    PROVE  /\ ahead'[w] \subseteq branches'[w]
           /\ tree'[w] # "none" => head'[w] \in branches'[w]
           /\ w \notin registered' => tree'[w] = "none" /\ head'[w] = "own"
<1> USE DEF KeptAll, TInv, TypeOK, KeptInv
<1>1. ASSUME NEW s \in Sessions, SessionStep(s)
      PROVE  /\ ahead'[w] \subseteq branches'[w]
             /\ tree'[w] # "none" => head'[w] \in branches'[w]
             /\ w \notin registered' => tree'[w] = "none" /\ head'[w] = "own"
  BY <1>1 DEF SessionStep, ResolveExisting, AddWorktree, Unused, InsertRow, LoadCreated,
              StartShell, InsertSession, EndSession, AbandonCreate, disk
<1>2. ASSUME NEW s \in Sessions, NEW x \in Workspaces, ShellStep(s, x)
      PROVE  /\ ahead'[w] \subseteq branches'[w]
             /\ tree'[w] # "none" => head'[w] \in branches'[w]
             /\ w \notin registered' => tree'[w] = "none" /\ head'[w] = "own"
  <2>1. CASE Edit(s, x) \/ Commit(s, x)
    BY <2>1 DEF Edit, Commit, WorksIn
  <2>2. ASSUME NEW b \in Heads, Switch(s, x, b)
        PROVE  /\ ahead'[w] \subseteq branches'[w]
               /\ tree'[w] # "none" => head'[w] \in branches'[w]
               /\ w \notin registered' => tree'[w] = "none" /\ head'[w] = "own"
    BY <2>2 DEF Switch, WorksIn, OnBranches, Heads
  <2> QED BY <1>2, <2>1, <2>2 DEF ShellStep
<1>3. ASSUME NEW d \in Deletes, DeleteStep(d)
      PROVE  /\ ahead'[w] \subseteq branches'[w]
             /\ tree'[w] # "none" => head'[w] \in branches'[w]
             /\ w \notin registered' => tree'[w] = "none" /\ head'[w] = "own"
  <2>1. CASE RemoveWorktree(d)
    BY <2>1 DEF RemoveWorktree
  <2>2. CASE DeleteBranch(d)
    <3>1. delete[d].w = w => tree[w] = "none"
      BY <2>2 DEF DeleteBranch, GoneInv, Gone
    <3> QED BY <2>2, <3>1 DEF DeleteBranch
  <2>3. CASE CountSessions(d) \/ CheckStatus(d) \/ CheckBranch(d) \/ FindWorktree(d)
             \/ CommitDelete(d)
    BY <2>3 DEF CountSessions, CheckStatus, CheckBranch, FindWorktree, CommitDelete, disk
  <2> QED BY <1>3, <2>1, <2>2, <2>3 DEF DeleteStep
<1>4. ASSUME NEW x \in Workspaces, Vanish(x)
      PROVE  /\ ahead'[w] \subseteq branches'[w]
             /\ tree'[w] # "none" => head'[w] \in branches'[w]
             /\ w \notin registered' => tree'[w] = "none" /\ head'[w] = "own"
  BY <1>4 DEF Vanish
<1>5. ASSUME \/ \E d \in Deletes : AbandonDelete(d) \/ \E x \in Workspaces, o \in Options : BeginDelete(d, x, o)
             \/ \E due \in SUBSET Workspaces : LoadDue(due)
             \/ ReconcileStep \/ StatusFails \/ Crash \/ UNCHANGED vars
      PROVE  UNCHANGED disk
  BY <1>5 DEF AbandonDelete, BeginDelete, LoadDue, ReconcileStep, LookAt, MarkMissing,
              ReadStatus, CommitStatus, StatusFails, Crash, vars
<1> QED BY <1>1, <1>2, <1>3, <1>4, <1>5 DEF Next, disk

\* While a request is past its count, commits in its workspace only go.
LEMMA NoNewCommits ==
    ASSUME KeptAll, [Next]_vars, NEW d \in Deletes, delete[d].pc \notin {"idle", "loaded"}
    PROVE  ahead'[delete[d].w] \subseteq ahead[delete[d].w]
<1> USE DEF KeptAll, TInv, TypeOK
<1>0. delete[d].w \in Workspaces
  BY DEF DeletesOK, Delete
<1>1. ASSUME NEW s \in Sessions, NEW x \in Workspaces, ShellStep(s, x)
      PROVE  ahead'[delete[d].w] = ahead[delete[d].w]
  <2>1. x # delete[d].w
    BY <1>1 DEF ShellStep, Edit, Commit, Switch, WorksIn, AloneInv
  <2> QED BY <1>0, <1>1, <2>1 DEF ShellStep, Edit, Commit, Switch
<1>2. ASSUME NEW e \in Deletes, RemoveWorktree(e) \/ DeleteBranch(e)
      PROVE  ahead'[delete[d].w] \subseteq ahead[delete[d].w]
  BY <1>0, <1>2 DEF RemoveWorktree, DeleteBranch
<1>3. \/ ahead' = ahead
      \/ \E s \in Sessions, x \in Workspaces : ShellStep(s, x)
      \/ \E e \in Deletes : RemoveWorktree(e) \/ DeleteBranch(e)
  BY DEF Next, SessionStep, ResolveExisting, AddWorktree, InsertRow, LoadCreated,
         StartShell, InsertSession, EndSession, AbandonCreate, Vanish, BeginDelete,
         DeleteStep, CountSessions, CheckStatus, CheckBranch, FindWorktree, CommitDelete,
         AbandonDelete, LoadDue, ReconcileStep, LookAt, MarkMissing, ReadStatus,
         CommitStatus, StatusFails, Crash, vars, disk
<1> QED BY <1>1, <1>2, <1>3

LEMMA KeptHolds ==
    ASSUME Exclusive, OnBranches
    PROVE  Spec => []KeptAll
<1>1. Init => KeptInv
  BY DEF Init, KeptInv, NoDelete
<1>2. KeptAll /\ [Next]_vars => KeptInv'
  <2> SUFFICES ASSUME KeptAll, [Next]_vars PROVE KeptInv'
    OBVIOUS
  <2>1. ASSUME NEW d \in Deletes,
               delete'[d].pc \in {"checked", "removing", "removed"},
               delete'[d].delete_branch, ~delete'[d].force
        PROVE  delete'[d].branch \notin ahead'[delete'[d].w]
    <3>1. CASE delete'[d] = delete[d]
      BY <2>1, <3>1, NoNewCommits DEF KeptAll, KeptInv
    <3>2. ASSUME NEW w \in Workspaces, NEW o \in Options, BeginDelete(d, w, o)
          PROVE  FALSE
      BY <2>1, <3>2 DEF BeginDelete, KeptAll, TInv, DeletesOK
    <3>3. CASE /\ DeleteStep(d) /\ delete[d].pc # "idle"
               /\ Go(d, delete'[d].pc)
               /\ delete'[d] = [delete[d] EXCEPT !.pc = delete'[d].pc]
      <4>1. /\ delete'[d].w = delete[d].w /\ delete'[d].branch = delete[d].branch
            /\ delete[d].delete_branch /\ ~delete[d].force
            /\ delete[d].w \in Workspaces
        BY <2>1, <3>3 DEF KeptAll, TInv, DeletesOK, Delete
      <4>2. \/ delete[d].pc \in {"checked", "removing"}
            \/ CheckBranch(d) /\ ~KeepsBranch(d)
        BY <2>1, <3>3 DEF DeleteStep, CountSessions, CheckStatus, CheckBranch,
              FindWorktree, RemoveWorktree, DeleteBranch, CommitDelete, Go, Finish,
              NoDelete, KeptAll, TInv, DeletesOK, Delete
      <4>3. delete[d].branch \notin ahead[delete[d].w]
        BY <4>1, <4>2 DEF KeepsBranch, KeptAll, KeptInv
      <4>4. delete[d].pc \notin {"idle", "loaded"}
        BY <4>2 DEF CheckBranch
      <4> QED BY <4>1, <4>3, <4>4, NoNewCommits
    <3> QED BY <2>1, <3>1, <3>2, <3>3, RequestsGoOn DEF KeptAll
  <2> QED BY <2>1, DiskKept DEF KeptInv
<1> QED BY <1>1, <1>2, TypesHold, GoneHolds, AloneHolds, PTL DEF Spec, KeptAll

\* Commits and changes in a worktree are lost to a request that forces it
\* only, as long as nobody commits on a detached HEAD and no session is
\* created in a workspace that is being deleted.
THEOREM WorkIsKept ==
    ASSUME Exclusive, OnBranches
    PROVE  Spec => OnlyForceLoses
<1>1. KeptAll /\ [Next]_vars
        => [\A w \in Workspaces : Loses(w) =>
              \E d \in Deletes : /\ delete'[d] # delete[d]
                                 /\ delete[d].w = w /\ delete[d].force]_vars
  <2> SUFFICES ASSUME KeptAll, [Next]_vars, NEW w \in Workspaces, Loses(w)
               PROVE  \E d \in Deletes : /\ delete'[d] # delete[d]
                                         /\ delete[d].w = w /\ delete[d].force
    OBVIOUS
  <2> USE DEF KeptAll, TInv, TypeOK
  <2>1. PICK d \in Deletes : (RemoveWorktree(d) \/ DeleteBranch(d)) /\ delete[d].w = w
    <3>1. ASSUME NEW s \in Sessions, NEW x \in Workspaces, ShellStep(s, x)
          PROVE  FALSE
      BY <3>1 DEF ShellStep, Edit, Commit, Switch, Loses
    <3>2. ASSUME NEW e \in Deletes, RemoveWorktree(e) \/ DeleteBranch(e)
          PROVE  delete[e].w = w
      BY <3>2 DEF RemoveWorktree, DeleteBranch, Loses
    <3>3. \/ \E e \in Deletes : RemoveWorktree(e) \/ DeleteBranch(e)
          \/ \E s \in Sessions, x \in Workspaces : ShellStep(s, x)
      BY DEF Loses, Next, SessionStep, ResolveExisting, AddWorktree, InsertRow,
             LoadCreated, StartShell, InsertSession, EndSession, AbandonCreate, Vanish,
             BeginDelete, DeleteStep, CountSessions, CheckStatus, CheckBranch,
             FindWorktree, CommitDelete, AbandonDelete, LoadDue, ReconcileStep, LookAt,
             MarkMissing, ReadStatus, CommitStatus, StatusFails, Crash, vars, disk
    <3> QED BY <3>1, <3>2, <3>3
  <2>2. delete'[d] # delete[d]
    BY <2>1 DEF RemoveWorktree, DeleteBranch, Go, Finish, NoDelete, DeletesOK, Delete
  <2>3. CASE RemoveWorktree(d)
    BY <2>1, <2>2, <2>3 DEF RemoveWorktree, Loses, KeptInv, Branches
  <2>4. CASE DeleteBranch(d)
    BY <2>1, <2>2, <2>4 DEF DeleteBranch, Loses, KeptInv, DeletesOK, Delete
  <2> QED BY <2>1, <2>3, <2>4
<1> QED BY <1>1, KeptHolds, PTL DEF Spec, OnlyForceLoses
=============================================================================
