----------------------------- MODULE WorkspaceBackend -----------------------------
(***************************************************************************)
(* Isolated workspaces for the work items a schedule selects: a git        *)
(* worktree at an exact revision and a metadata file that says whose it    *)
(* is.  Creating one looks first whether both are missing, then adds the   *)
(* worktree, then writes the metadata through a temporary file; every one  *)
(* of these steps is awaited, several processes allocate at once, and each *)
(* may throw or die in between.  Nothing is cleaned up.                    *)
(***************************************************************************)
CONSTANTS Allocators,     \* allocations of selected work items, in any process
          Descriptors,    \* [workspace, run, revision]: what a workspace is for
          DescriptorOf,   \* DescriptorOf[a]: the descriptor of the item of a
          NoDescriptor,   \* no such file
          NoTree,         \* no worktree
          Committed       \* HEAD of a worktree in which something was committed

WorkspaceIds      == {d.workspace : d \in Descriptors}
WorkspaceRevision == {d.revision : d \in Descriptors}

ASSUME WorkspaceBackendAssumption ==
    /\ DescriptorOf \in [Allocators -> Descriptors]
    /\ NoDescriptor \notin Descriptors
    /\ NoTree \notin WorkspaceRevision \cup {Committed}

VARIABLES worktrees,   \* worktrees[w]: HEAD of the worktree at the path of w
          metadata,    \* metadata[w]: the metadata file of w
          temporary,   \* temporary[w]: the temporary file next to it
          stage,       \* stage[a]: the call that a awaits next
          activation   \* activation[a]: what the last allocation of a came to

workspaceVars == <<worktrees, metadata, temporary, stage, activation>>

Stages == {"idle", "pathMissing", "metadataMissing", "add", "write", "rename",
           "metadata", "head"}
ActivationStatuses == {"NONE", "STARTABLE", "BLOCKED_WORKSPACE"}

WorkspaceOf(a) == DescriptorOf[a].workspace
RevisionOf(a)  == DescriptorOf[a].revision

WorkspaceInit == /\ worktrees = [w \in WorkspaceIds |-> NoTree]
                 /\ metadata = [w \in WorkspaceIds |-> NoDescriptor]
                 /\ temporary = [w \in WorkspaceIds |-> NoDescriptor]
                 /\ stage = [a \in Allocators |-> "idle"]
                 /\ activation = [a \in Allocators |-> "NONE"]

WorkspaceFiles == <<worktrees, metadata, temporary>>

Await(a, next) == /\ stage' = [stage EXCEPT ![a] = next]
                  /\ UNCHANGED activation

Activated(a, status) == /\ stage' = [stage EXCEPT ![a] = "idle"]
                        /\ activation' = [activation EXCEPT ![a] = status]

Blocked(a) == Activated(a, "BLOCKED_WORKSPACE")

(* The mode of the request: CREATE, or REATTACH to what an earlier process *)
(* of the run has created.  A blocked item may be tried again.             *)
MaterializeWorkspace(a) ==
    /\ stage[a] = "idle"
    /\ activation[a] # "STARTABLE"
    /\ \/ Await(a, "pathMissing")
       \/ Await(a, "metadata")
    /\ UNCHANGED WorkspaceFiles

RequirePathMissing(a) ==
    /\ stage[a] = "pathMissing"
    /\ IF worktrees[WorkspaceOf(a)] = NoTree THEN Await(a, "metadataMissing") ELSE Blocked(a)
    /\ UNCHANGED WorkspaceFiles

RequireMetadataMissing(a) ==
    /\ stage[a] = "metadataMissing"
    /\ IF metadata[WorkspaceOf(a)] = NoDescriptor THEN Await(a, "add") ELSE Blocked(a)
    /\ UNCHANGED WorkspaceFiles

(* A bug: a worktree that is there already will do.                        *)
AddWorktreeOrReuse(a) ==
    /\ stage[a] = "add"
    /\ worktrees' = [worktrees EXCEPT ![WorkspaceOf(a)] =
                        IF @ = NoTree THEN RevisionOf(a) ELSE @]
    /\ Await(a, "write")
    /\ UNCHANGED <<metadata, temporary>>

(* git refuses a path at which there is something.                         *)
AddWorktree(a) ==
    /\ stage[a] = "add"
    /\ IF worktrees[WorkspaceOf(a)] = NoTree
       THEN /\ worktrees' = [worktrees EXCEPT ![WorkspaceOf(a)] = RevisionOf(a)]
            /\ Await(a, "write")
       ELSE UNCHANGED worktrees /\ Blocked(a)
    /\ UNCHANGED <<metadata, temporary>>

(* The temporary file is created exclusively, and nobody ever removes it.  *)
WriteTemporary(a) ==
    /\ stage[a] = "write"
    /\ IF temporary[WorkspaceOf(a)] = NoDescriptor
       THEN /\ temporary' = [temporary EXCEPT ![WorkspaceOf(a)] = DescriptorOf[a]]
            /\ Await(a, "rename")
       ELSE UNCHANGED temporary /\ Blocked(a)
    /\ UNCHANGED <<worktrees, metadata>>

Rename(a) ==
    /\ temporary[WorkspaceOf(a)] # NoDescriptor
    /\ metadata' = [metadata EXCEPT ![WorkspaceOf(a)] = temporary[WorkspaceOf(a)]]
    /\ temporary' = [temporary EXCEPT ![WorkspaceOf(a)] = NoDescriptor]

RenameMetadata(a) == /\ stage[a] = "rename"
                     /\ Rename(a)
                     /\ Await(a, "metadata")
                     /\ UNCHANGED worktrees

(* The metadata that a handle, or a request to reattach, is compared with. *)
CompareMetadata(a) ==
    /\ stage[a] = "metadata"
    /\ IF metadata[WorkspaceOf(a)] = DescriptorOf[a] THEN Await(a, "head") ELSE Blocked(a)
    /\ UNCHANGED WorkspaceFiles

CompareHead(a) ==
    /\ stage[a] = "head"
    /\ IF worktrees[WorkspaceOf(a)] = RevisionOf(a) THEN Activated(a, "STARTABLE")
                                                    ELSE Blocked(a)
    /\ UNCHANGED WorkspaceFiles

(* A call throws, or the process dies, before or after the effect.         *)
AllocationFails(a) ==
    /\ stage[a] # "idle"
    /\ Blocked(a)
    /\ \/ UNCHANGED WorkspaceFiles
       \/ /\ stage[a] = "add" /\ worktrees[WorkspaceOf(a)] = NoTree
          /\ worktrees' = [worktrees EXCEPT ![WorkspaceOf(a)] = RevisionOf(a)]
          /\ UNCHANGED <<metadata, temporary>>
       \/ /\ stage[a] = "write" /\ temporary[WorkspaceOf(a)] = NoDescriptor
          /\ temporary' = [temporary EXCEPT ![WorkspaceOf(a)] = DescriptorOf[a]]
          /\ UNCHANGED <<worktrees, metadata>>
       \/ /\ stage[a] = "rename"
          /\ Rename(a)
          /\ UNCHANGED worktrees

(* An activity of a started item commits in its worktree, or takes the     *)
(* commit back.                                                            *)
MoveHead(a) ==
    /\ activation[a] = "STARTABLE"
    /\ worktrees' \in {[worktrees EXCEPT ![WorkspaceOf(a)] = revision] :
                          revision \in {Committed, RevisionOf(a)}}
    /\ UNCHANGED <<metadata, temporary, stage, activation>>

WorkspaceNext ==
    \E a \in Allocators :
       \/ MaterializeWorkspace(a)
       \/ RequirePathMissing(a) \/ RequireMetadataMissing(a)
       \/ AddWorktree(a) \/ WriteTemporary(a) \/ RenameMetadata(a)
       \/ CompareMetadata(a) \/ CompareHead(a)
       \/ AllocationFails(a)
       \/ MoveHead(a)

WorkspaceSpec == WorkspaceInit /\ [][WorkspaceNext]_workspaceVars
-----------------------------------------------------------------------------
WorkspaceTypeOK ==
    /\ worktrees \in [WorkspaceIds -> WorkspaceRevision \cup {NoTree, Committed}]
    /\ metadata \in [WorkspaceIds -> Descriptors \cup {NoDescriptor}]
    /\ temporary \in [WorkspaceIds -> Descriptors \cup {NoDescriptor}]
    /\ stage \in [Allocators -> Stages]
    /\ activation \in [Allocators -> ActivationStatuses]

(* A work item is started only in a workspace that is its own, so no two   *)
(* runs are ever in one: whoever was reported startable is who the         *)
(* metadata names, and the metadata names the worktree that was added for  *)
(* it, although the checks for missing files come long before the files    *)
(* are made and others create, fail and try again in between.              *)
StartedInOwnWorkspace ==
    /\ \A a \in Allocators :
          activation[a] = "STARTABLE" => metadata[WorkspaceOf(a)] = DescriptorOf[a]
    /\ \A w \in WorkspaceIds :
          metadata[w] # NoDescriptor => worktrees[w] \in {metadata[w].revision, Committed}
=================================================================================
