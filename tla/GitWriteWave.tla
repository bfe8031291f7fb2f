-------------------------------- MODULE GitWriteWave --------------------------------
(***************************************************************************)
(* A wave of commit activities in one worktree.  Each activity is a        *)
(* sequence of git commands that are awaited one by one; a command may     *)
(* fail without an effect, or be killed by its timeout when the effect has *)
(* already taken place.  The wave runs as many of them at a time as its    *)
(* caller has asked for, and nothing keeps two out of the same worktree.   *)
(*                                                                         *)
(* The capability that gates the writes may be taken away, and is read     *)
(* once, before the first command; reading it may throw, which rejects the *)
(* wave as a whole.  A path stands for its changed content.                *)
(***************************************************************************)
EXTENDS Integers, FiniteSets

CONSTANTS Commits,          \* commit activities of the wave
          Paths,            \* changed paths of the worktree
          PathsOf,          \* PathsOf[a]: the paths a declares; it may be a
                            \* directory, so that more is staged
          StagedBy,         \* StagedBy[a]: what adding them stages
          Renames,          \* <<gone, new>>: a removal and an addition that git
                            \* shows as one change, under the new name
          BranchOf,         \* BranchOf[a]: the branch a creates
          NoBranch,         \* HEAD is detached
          Detached,         \* the exact revision of the workspace
          MaxConcurrency    \* the most workers a caller asks for (bound)

ASSUME GitWriteWaveAssumption ==
    /\ IsFiniteSet(Commits)
    /\ PathsOf \in [Commits -> SUBSET Paths]
    /\ StagedBy \in [Commits -> SUBSET Paths]
    /\ Renames \subseteq Paths \X Paths
    /\ NoBranch \notin {BranchOf[a] : a \in Commits}
    /\ Detached \notin Commits
    /\ MaxConcurrency \in Nat \ {0}

VARIABLES workers,      \* workers of the wave
          capability,   \* GIT_WRITE is active
          step,         \* step[a]: the command a awaits next
          result,       \* result[a]: what a reported, with the commit it names
          threw,        \* activities whose gate threw: the wave is rejected
          changed,      \* paths whose change is not committed in HEAD
          index,        \* the staged paths
          head,         \* the branch HEAD is on, and the commit it names
          branches,     \* the branches and the commits they name
          contents,     \* contents[a]: the paths in the commit a made
          leftBehind    \* activities whose rollback did not get the branch
                        \* back (history)

gitVars == <<workers, capability, step, result, threw, changed, index, head, branches,
             contents, leftBehind>>

(* A commit is named after the activity that made it.                      *)
Revisions == Commits \cup {Detached}
Steps     == {"waiting", "current", "preStaged", "add", "staged", "switch", "commit",
              "revParse", "reset", "resetOnly", "detach", "deleteBranch", "done"}
Statuses  == {"NONE", "SUCCEEDED", "FAILED"}
NoResult  == [status |-> "NONE", revision |-> Detached, paths |-> {}]

GitInit == /\ workers \in 1..MaxConcurrency
           /\ capability \in BOOLEAN
           /\ step = [a \in Commits |-> "waiting"]
           /\ result = [a \in Commits |-> NoResult]
           /\ threw = {}
           /\ changed = Paths
           /\ index \in {{}} \cup {{p} : p \in Paths}
           /\ head = [branch |-> NoBranch, revision |-> Detached]
           /\ branches = {}
           /\ contents = [a \in Commits |-> {}]
           /\ leftBehind = {}

Busy == {a \in Commits : step[a] \notin {"waiting", "done"}}

Goto(a, next) == step' = [step EXCEPT ![a] = next]

Report(a, status, revision, paths) ==
    /\ result' = [result EXCEPT ![a] = [status |-> status, revision |-> revision,
                                        paths |-> paths]]
    /\ Goto(a, "done")

Fail(a) == Report(a, "FAILED", Detached, {})

Repository == <<changed, index, head, branches, contents>>

(* What the commands of an activity have no part in.                       *)
Wave == <<workers, capability, threw>>

ToggleCapability == /\ capability' = ~capability
                    /\ UNCHANGED <<workers, step, result, threw, Repository, leftBehind>>

(* A free worker takes the next activity and the gate decides at once: it  *)
(* denies where the capability is not active or the revision has drifted.  *)
(* It throws where the state or the revision cannot be read, which ends    *)
(* the worker and rejects the wave, while the other workers go on.         *)
StartActivity(a) ==
    /\ step[a] = "waiting"
    /\ Cardinality(Busy) < workers - Cardinality(threw)
    /\ \/ capability /\ Goto(a, "current") /\ UNCHANGED <<result, threw>>
       \/ Fail(a) /\ UNCHANGED threw
       \/ Goto(a, "done") /\ threw' = threw \cup {a} /\ UNCHANGED result
    /\ UNCHANGED <<workers, capability, Repository, leftBehind>>

(* What git diff --name-only prints of a set of changes: of a rename the   *)
(* new name only.                                                          *)
Printed(changes) == {p \in changes : ~\E q \in changes : <<p, q>> \in Renames}

(* The checks of the executor change nothing.                              *)
AssertWorkspaceCurrent(a) ==
    /\ step[a] = "current"
    /\ \/ head.revision = Detached /\ Goto(a, "preStaged") /\ UNCHANGED result
       \/ Fail(a)
    /\ UNCHANGED <<Wave, Repository, leftBehind>>

CheckIndexClean(a) ==
    /\ step[a] = "preStaged"
    /\ IF Printed(index) = {} THEN Goto(a, "add") /\ UNCHANGED result ELSE Fail(a)
    /\ UNCHANGED <<Wave, Repository, leftBehind>>

StagePaths(a) == /\ step[a] = "add"
                 /\ index' = index \cup (StagedBy[a] \cap changed)
                 /\ Goto(a, "staged")
                 /\ UNCHANGED <<Wave, result, changed, head, branches, contents,
                                 leftBehind>>

(* What is printed must be what the activity declares.  The staged paths   *)
(* that it will report are those that were seen here.                      *)
CheckStagedScope(a) ==
    /\ step[a] = "staged"
    /\ \/ Printed(index) = {} /\ Fail(a)
       \/ /\ ~(Printed(index) \subseteq PathsOf[a])
          /\ Goto(a, "resetOnly")
          /\ UNCHANGED result
       \/ /\ Printed(index) # {}
          /\ Printed(index) \subseteq PathsOf[a]
          /\ Goto(a, "switch")
          /\ result' = [result EXCEPT ![a].paths = Printed(index)]
    /\ UNCHANGED <<Wave, Repository, leftBehind>>

BranchExists(b) == \E entry \in branches : entry.branch = b

(* switch -c: an error if the branch exists.                               *)
SwitchToNewBranch(a) ==
    /\ step[a] = "switch"
    /\ ~BranchExists(BranchOf[a])
    /\ head' = [head EXCEPT !.branch = BranchOf[a]]
    /\ branches' = branches \cup {[branch |-> BranchOf[a], revision |-> head.revision]}
    /\ Goto(a, "commit")
    /\ UNCHANGED <<Wave, result, changed, index, contents, leftBehind>>

(* The effect of commit: all that is staged, on the branch HEAD is on.     *)
CommitIndex(a) ==
    /\ index # {}
    /\ contents' = [contents EXCEPT ![a] = index]
    /\ changed' = changed \ index
    /\ index' = {}
    /\ head' = [head EXCEPT !.revision = a]
    /\ branches' = {IF entry.branch = head.branch THEN [entry EXCEPT !.revision = a]
                    ELSE entry : entry \in branches}

Commit(a) == /\ step[a] = "commit"
             /\ CommitIndex(a)
             /\ Goto(a, "revParse")
             /\ UNCHANGED <<Wave, result, leftBehind>>

ReportCommit(a) == /\ step[a] = "revParse"
                   /\ Report(a, "SUCCEEDED", head.revision, result[a].paths)
                   /\ UNCHANGED <<Wave, Repository, leftBehind>>

(* A command that fails leads to the rollback; the branch is known to it   *)
(* once switch -c has succeeded.                                           *)
CommandFails(a) ==
    /\ step[a] \in {"preStaged", "add", "staged", "switch", "commit", "revParse"}
    /\ Goto(a, IF step[a] \in {"commit", "revParse"} THEN "reset" ELSE "resetOnly")
    /\ UNCHANGED <<Wave, result, Repository, leftBehind>>

(* The same, but git was killed after the effect.                          *)
AddTimesOut(a) == /\ step[a] = "add"
                  /\ \E added \in SUBSET StagedBy[a] : index' = index \cup (added \cap changed)
                  /\ Goto(a, "resetOnly")
                  /\ UNCHANGED <<Wave, result, changed, head, branches, contents,
                                  leftBehind>>

(* A bug: a commit that timed out is taken for one that did not happen.    *)
CommitTimesOutKeepsBranch(a) == /\ step[a] = "commit"
                                /\ CommitIndex(a)
                                /\ Goto(a, "resetOnly")
                                /\ UNCHANGED <<Wave, result, leftBehind>>

CommitTimesOut(a) == /\ step[a] = "commit"
                     /\ CommitIndex(a)
                     /\ Goto(a, "reset")
                     /\ UNCHANGED <<Wave, result, leftBehind>>

SwitchTimesOut(a) == /\ step[a] = "switch"
                     /\ ~BranchExists(BranchOf[a])
                     /\ head' = [head EXCEPT !.branch = BranchOf[a]]
                     /\ branches' = branches \cup {[branch   |-> BranchOf[a],
                                                    revision |-> head.revision]}
                     /\ Goto(a, "resetOnly")
                     /\ UNCHANGED <<Wave, result, changed, index, contents, leftBehind>>

ResetIndex(a) ==
    /\ step[a] \in {"reset", "resetOnly"}
    /\ index' = {}
    /\ IF step[a] = "reset" THEN Goto(a, "detach") /\ UNCHANGED result ELSE Fail(a)
    /\ UNCHANGED <<Wave, changed, head, branches, contents, leftBehind>>

(* switch --detach takes the worktree back to the exact revision: a change *)
(* that was committed on the branch is no longer in it.                    *)
DetachHead(a) ==
    /\ step[a] = "detach"
    /\ head' = [branch |-> NoBranch, revision |-> Detached]
    /\ Goto(a, "deleteBranch")
    /\ UNCHANGED <<Wave, result, changed, index, branches, contents, leftBehind>>

DeleteBranch(a) ==
    /\ step[a] = "deleteBranch"
    /\ branches' = {entry \in branches : entry.branch = BranchOf[a] => head.branch = BranchOf[a]}
    /\ Fail(a)
    /\ UNCHANGED <<Wave, changed, index, head, contents, leftBehind>>

(* A command of the rollback fails, too.  Nobody is told.                  *)
RollbackFails(a) ==
    /\ \/ step[a] = "reset" /\ Goto(a, "detach") /\ UNCHANGED <<result, leftBehind>>
       \/ step[a] = "resetOnly" /\ Fail(a) /\ UNCHANGED leftBehind
       \/ /\ step[a] = "detach" /\ Goto(a, "deleteBranch") /\ UNCHANGED result
          /\ leftBehind' = leftBehind \cup {a}
       \/ /\ step[a] = "deleteBranch" /\ Fail(a)
          /\ leftBehind' = leftBehind \cup {a}
    /\ UNCHANGED <<Wave, Repository>>

GitNext ==
    \/ ToggleCapability
    \/ \E a \in Commits :
          \/ StartActivity(a) \/ AssertWorkspaceCurrent(a) \/ CheckIndexClean(a)
          \/ StagePaths(a) \/ CheckStagedScope(a) \/ SwitchToNewBranch(a)
          \/ Commit(a) \/ ReportCommit(a)
          \/ CommandFails(a) \/ AddTimesOut(a) \/ CommitTimesOut(a) \/ SwitchTimesOut(a)
          \/ ResetIndex(a) \/ DetachHead(a) \/ DeleteBranch(a) \/ RollbackFails(a)

GitSpec == GitInit /\ [][GitNext]_gitVars
-----------------------------------------------------------------------------
GitTypeOK == /\ workers \in 1..MaxConcurrency
             /\ capability \in BOOLEAN
             /\ step \in [Commits -> Steps]
             /\ result \in [Commits -> [status : Statuses, revision : Revisions,
                                        paths : SUBSET Paths]]
             /\ threw \subseteq Commits
             /\ changed \subseteq Paths
             /\ index \subseteq Paths
             /\ head \in [branch : {BranchOf[a] : a \in Commits} \cup {NoBranch},
                          revision : Revisions]
             /\ branches \subseteq [branch : {BranchOf[a] : a \in Commits},
                                    revision : Revisions]
             /\ contents \in [Commits -> SUBSET Paths]
             /\ leftBehind \subseteq Commits

Succeeded(a) == result[a].status = "SUCCEEDED"

(* What an activity reports is what the repository holds.  However many    *)
(* workers share the worktree, the branch of an activity that succeeded    *)
(* stays: no rollback deletes a branch that another activity has made, one *)
(* of the same name included.                                              *)
(*                                                                         *)
(* With one worker, an activity that succeeded names the commit on its     *)
(* branch, and git shows for that commit the paths it reports, all of them *)
(* declared; and in a wave that is not rejected, when the worktree is at   *)
(* rest, a commit that is still on a branch was reported, although a       *)
(* command may have been killed after its effect.  Only a rollback that    *)
(* fails itself can leave one, and later activities are truthful after it. *)
ResultMatchesRepository ==
    /\ \A a \in Commits : Succeeded(a) => BranchExists(BranchOf[a])
    /\ workers = 1 =>
          /\ \A a \in Commits : Succeeded(a) =>
                /\ result[a].revision = a
                /\ [branch |-> BranchOf[a], revision |-> a] \in branches
                /\ Printed(contents[a]) = result[a].paths
                /\ result[a].paths \subseteq PathsOf[a]
          /\ Busy = {} /\ threw = {} => \A entry \in branches :
                \/ entry.revision = Detached
                \/ Succeeded(entry.revision)
                \/ entry.revision \in leftBehind
=================================================================================
