------------------------ MODULE WorkspacesProperties ------------------------
(***************************************************************************)
(* What the workspaces promise to those who work in them.                  *)
(***************************************************************************)
EXTENDS Workspaces

TypeOK ==
    /\ row \in [Workspaces -> {"none", "active", "missing", "deleted"}]
    /\ named \in [Workspaces -> Heads]
    /\ tree \in [Workspaces -> {"none", "clean", "dirty"}]
    /\ registered \subseteq Workspaces
    /\ head \in [Workspaces -> Heads]
    /\ branches \in [Workspaces -> SUBSET Branches]
    /\ ahead \in [Workspaces -> SUBSET Heads]
    /\ session \in [Sessions -> Session]
    /\ delete \in [Deletes -> Delete]
    /\ batch \subseteq Workspaces
    /\ look \in Look

\* A worktree whose row is marked deleted has left the disk, and Git knows of
\* it no more, whatever else happened to it meanwhile: the transaction at the
\* end of delete_workspace comes after all that can fail.
DeletedLeftTheDisk ==
    \A w \in Workspaces :
        row[w] = "deleted" => tree[w] = "none" /\ w \notin registered

\* Deletion comes "with live/orphaned session protection" (CHANGELOG.md): no
\* worktree is removed while a live or orphaned session is bound to it.  The
\* sessions are counted before several Git commands, and nothing keeps
\* create_session from adding one in between.
NeverFromUnderASession ==
    [][\A w \in registered \ registered', s \in Sessions : ~CountsAsBound(s, w)]_vars

\* Work in w is gone for good: commits no head leads to, or changes that
\* were in the worktree.
Loses(w) ==
    \/ ahead[w] \ ahead'[w] # {}
    \/ w \in registered \ registered' /\ tree[w] = "dirty"

\* Only a request that forces it loses work: one that does not is refused
\* between its checks and its commands by them, or by Git.
OnlyForceLoses ==
    [][\A w \in Workspaces : Loses(w) =>
          \E d \in Deletes : /\ delete'[d] # delete[d]
                             /\ delete[d].w = w /\ delete[d].force]_vars

\* A deleted workspace stays deleted, and with it out of every list.  It does
\* not: the reconciling task may have read the row before, see the directory
\* gone, and mark the row missing.
DeletedStaysDeleted ==
    [][\A w \in Workspaces : row[w] = "deleted" => row'[w] = "deleted"]_vars
=============================================================================
