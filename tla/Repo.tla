-------------------------------- MODULE Repo --------------------------------
(***************************************************************************)
(* SigmaRepo (repo/mod.rs and repo/plumbing) over the life of several      *)
(* processes: the clone, the working branch of the day, the commits of     *)
(* upload_rule_batches, the push to the fork and what the next process     *)
(* finds.  Offline mode makes all of it a no-op and is left to             *)
(* Regression.tla; the generation of a rule is the one action Capture.     *)
(*                                                                         *)
(* A branch is the set of rules in the upstream tree it starts from and    *)
(* the commits made on it.                                                 *)
(***************************************************************************)
EXTENDS Naturals, SequencesExt, FiniteSets

CONSTANTS
  Rules,        \* the rules the filter selects
  LastDay,      \* bound: working branches sigmacatch/<day>, days 1 .. LastDay
  MaxSessions,  \* bound: processes
  NoBranch      \* a ref that does not exist

ASSUME RepoAssumption ==
  /\ LastDay \in Nat \ {0}
  /\ MaxSessions \in Nat

Days == 1 .. LastDay

VARIABLES
  upstream,       \* the rules with regression data on the default branch
  fork,           \* refs/heads/sigmacatch/* of the fork
  tracking,       \* refs/remotes/origin/sigmacatch/*
  local,          \* refs/heads/sigmacatch/*
  worktree,       \* the rules with all their regression data in the working tree
  partial,        \* those that a checkout has taken some of their files from
  shallow,        \* is there a .git/shallow?
  cloned,         \* is there a clone?
  background,     \* the unshallow task, by the branch HEAD was on at its start
  tracked,        \* the rules with data in the tree that it is checking out
  day, session,   \* the day of the process, and its number
  contrib,        \* config git.contrib: push after the commits
  pc, stop,
  skip,           \* existing_rules of run()
  retired,        \* captured by this process
  batch, committed, pre,
  \* history: in this session a fetch failed, a push lost its answer, and commits were
  \* kept by an abort or left by a rollback that failed; a fetch failed in any
  \* session, and the rules that lost files to the unshallow task before they were
  \* committed
  fetchFailed, answerLost, degraded, kept, torn

refs == <<fork, tracking, local>>
clone == <<worktree, partial, shallow, cloned, background, tracked>>
upload == <<batch, committed, pre>>
history == <<fetchFailed, answerLost, degraded, kept, torn>>
process == <<day, session, contrib>>
vars == <<upstream, refs, clone, process, pc, stop, skip, retired, upload,
          history>>

\* What of a commit the next process looks at: has it data of the rule?
Commit == [rule : Rules, session : 1 .. MaxSessions, data : BOOLEAN]
Branch == [base : SUBSET Rules, commits : Seq(Commit)]

ASSUME NoBranchAssumption == NoBranch \notin Branch

\* The rules with data in the tree of b.
RulesOf(b) ==
  IF b = NoBranch THEN {}
  ELSE b.base \cup {b.commits[i].rule : i \in {k \in DOMAIN b.commits : b.commits[k].data}}

\* new can be pushed over old without force.
Extends(new, old) ==
  old # NoBranch => new.base = old.base /\ IsPrefix(old.commits, new.commits)

TypeOK ==
  /\ upstream \subseteq Rules
  /\ \A d \in Days : {fork[d], tracking[d], local[d]} \ {NoBranch} \subseteq Branch
  /\ worktree \subseteq Rules /\ partial \subseteq Rules /\ tracked \subseteq Rules
  /\ shallow \in BOOLEAN /\ cloned \in BOOLEAN
  /\ background \in {"none", "default", "working", "checkout"}
  /\ day \in Days /\ session \in 0 .. MaxSessions /\ contrib \in BOOLEAN
  /\ pc \in {"down", "idle", "upload"} /\ stop \in BOOLEAN
  /\ skip \subseteq Rules /\ retired \subseteq Rules
  /\ batch \in Seq(Rules) /\ committed \in 0 .. Len(batch)
  /\ {pre} \ {NoBranch} \subseteq Branch
  /\ fetchFailed \in BOOLEAN /\ answerLost \in BOOLEAN /\ degraded \in BOOLEAN
  /\ kept \subseteq Commit /\ torn \subseteq Rules

Init ==
  /\ upstream \in SUBSET Rules
  /\ fork = [d \in Days |-> NoBranch] /\ tracking = fork /\ local = fork
  /\ worktree = {} /\ partial = {} /\ shallow = FALSE /\ cloned = FALSE
  /\ background = "none" /\ tracked = {}
  /\ day = 1 /\ session = 0 /\ contrib = FALSE
  /\ pc = "down" /\ stop = FALSE /\ skip = {} /\ retired = {}
  /\ batch = <<>> /\ committed = 0 /\ pre = NoBranch
  /\ fetchFailed = FALSE /\ answerLost = FALSE /\ degraded = FALSE /\ kept = {}
  /\ torn = {}

-----------------------------------------------------------------------------
(* Startup: init, set_working_branch, get_sigma_id and the skip set.       *)

\* fetch_sigmacatch_branches: one glob refspec; a failure is only a warning.
Fetched(ok) == IF ok THEN fork ELSE tracking

\* Mutant: the branch starts from HEAD even when the fork has it.
WorkingBranchFromHead(refsAfterFetch) == [base |-> upstream, commits |-> <<>>]

\* create_branch: from the tracking ref, else from HEAD, which init() left on
\* the default branch it has just pulled.
WorkingBranch(refsAfterFetch) ==
  IF refsAfterFetch[day'] # NoBranch THEN refsAfterFetch[day']
  ELSE [base |-> upstream, commits |-> <<>>]

\* Mutant: files that the tree does not hold are kept.
MirrorKeepsFiles(b) == worktree \cup RulesOf(b)

\* checkout_main_branch: the tree is written and every other file is removed.
Mirror(b) == RulesOf(b)

\* Mutant: only the branch of the day is scanned.
PendingToday(refsAfterFetch) == RulesOf(refsAfterFetch[day'])

\* pending_regression_rule_ids: the trees of all tracked sigmacatch/* branches.
Pending(refsAfterFetch) == UNION {RulesOf(refsAfterFetch[d]) : d \in Days}

\* A run of the same day or of a later one, with git.contrib as configured
\* then.  The first one clones, and starts the background task when the clone
\* is shallow (git.shallow_clone); that task reads HEAD before or after
\* create_branch moves it.
Start ==
  /\ pc = "down" /\ session < MaxSessions
  /\ session' = session + 1 /\ contrib' \in BOOLEAN
  /\ day' \in {d \in Days : d >= day}
  /\ \E ok \in BOOLEAN :
       LET b == WorkingBranch(Fetched(ok))
       IN /\ tracking' = Fetched(ok)
          /\ local' = [local EXCEPT ![day'] = b]
          /\ worktree' = Mirror(b)
          /\ skip' = Mirror(b) \cup Pending(Fetched(ok))
          /\ fetchFailed' = ~ok
          /\ degraded' = (degraded \/ ~ok)
  /\ cloned' = TRUE
  /\ IF ~cloned
     THEN /\ shallow' \in BOOLEAN
          /\ background' \in IF shallow' THEN {"default", "working"} ELSE {"none"}
     ELSE UNCHANGED <<shallow, background>>
  /\ pc' = "idle" /\ stop' = FALSE /\ retired' = {}
  /\ partial' = {} /\ tracked' = {}
  /\ answerLost' = FALSE /\ kept' = {}
  /\ UNCHANGED <<upstream, fork, upload, torn>>

\* git_unshallow: it fetches the branch HEAD is on from origin, which has no
\* working branch, so that it fails when started too late; then it checks the
\* working tree out, as the commit of this moment has it.
Unshallow ==
  /\ background \in {"default", "working"}
  /\ \/ /\ background = "default" /\ background' = "checkout"
        /\ shallow' = FALSE /\ tracked' = RulesOf(local[day])
     \/ background' = "none" /\ UNCHANGED <<shallow, tracked>>
  /\ UNCHANGED <<upstream, refs, worktree, partial, cloned, process, pc, stop, skip,
                 retired, upload, history>>

ToCommit == {batch[i] : i \in (committed + 1) .. Len(batch)}

\* The walk over the working tree comes by the directory of r, or overwrites its
\* rule file: what a cycle has just written there goes, all of it or not yet.
RemoveFiles(r) ==
  /\ background = "checkout" /\ r \in (worktree \cup partial) \ tracked
  /\ \/ r \in worktree /\ partial' = partial \cup {r}
     \/ partial' = partial \ {r}
  /\ worktree' = worktree \ {r}
  /\ torn' = torn \cup ({r} \cap ToCommit)
  /\ UNCHANGED <<upstream, refs, shallow, cloned, background, tracked, process, pc, stop,
                 skip, retired, upload, fetchFailed, answerLost, degraded, kept>>

\* The walk is over, or an entry that went away under it has ended it.
CheckedOut ==
  /\ background = "checkout" /\ background' = "none"
  /\ UNCHANGED <<upstream, refs, worktree, partial, shallow, cloned, tracked, process, pc,
                 stop, skip, retired, upload, history>>

-----------------------------------------------------------------------------
(* A cycle: capture, then upload_rule_batches.                             *)

Capture(r) ==
  /\ pc = "idle" /\ r \notin skip \cup retired \cup worktree
  /\ worktree' = worktree \cup {r}
  /\ retired' = retired \cup {r}
  /\ batch' = Append(batch, r)
  /\ UNCHANGED <<upstream, refs, partial, shallow, cloned, background, tracked, process,
                 pc, stop, skip, committed, pre, history>>

Interrupt ==
  /\ pc # "down" /\ ~stop
  /\ stop' = TRUE
  /\ UNCHANGED <<upstream, refs, clone, process, pc, skip, retired, upload, history>>

BeginUpload ==
  /\ pc = "idle" /\ batch # <<>>
  /\ pc' = "upload"
  /\ pre' = local[day]
  /\ UNCHANGED <<upstream, refs, clone, process, stop, skip, retired, batch,
                 committed, history>>

\* git_add and git_commit of one rule: HEAD's tree and its files.  Files that
\* are gone are skipped and the others committed; without any there is nothing to
\* commit.
CommitRule ==
  LET r == batch[committed + 1]
  IN /\ pc = "upload" /\ committed < Len(batch)
     /\ r \in worktree \cup partial
     /\ \E data \in BOOLEAN :
          /\ r \in worktree => data
          /\ local' = [local EXCEPT ![day].commits =
                         Append(@, [rule |-> r, session |-> session, data |-> data])]
     /\ committed' = committed + 1
     /\ UNCHANGED <<upstream, fork, tracking, clone, process, pc, stop, skip,
                    retired, batch, pre, history>>

\* The batch is consumed, whatever became of it.
EndUpload ==
  /\ pc' = "idle" /\ batch' = <<>> /\ committed' = 0 /\ pre' = NoBranch

\* What this upload has committed.
NewCommits == Range(SubSeq(local[day].commits, Len(pre.commits) + 1,
                           Len(local[day].commits)))

\* should_abort: the commits made stay, the other rules and the push are left.
\* (The flush never aborts; that it may here is one behaviour more.)
Abort ==
  /\ pc = "upload" /\ stop /\ committed \in 1 .. (Len(batch) - 1)
  /\ kept' = kept \cup NewCommits
  /\ EndUpload
  /\ UNCHANGED <<upstream, refs, clone, process, stop, skip, retired,
                 fetchFailed, answerLost, degraded, torn>>

\* Mutant: a failed upload leaves its commits.
RollbackForgotten == local

\* reset_working_branch_to_commit: the ref alone.
Rollback == [local EXCEPT ![day] = pre]

\* The rollback of a failed upload.  When it fails itself (the tip cannot be read or
\* the ref not be written), the error ends the upload too, or is not looked at.
Undo ==
  \/ local' = Rollback /\ UNCHANGED kept
  \/ UNCHANGED local /\ kept' = kept \cup NewCommits

CommitFails ==
  /\ pc = "upload" /\ committed < Len(batch)
  /\ Undo
  /\ EndUpload
  /\ UNCHANGED <<upstream, fork, tracking, clone, process, stop, skip, retired,
                 fetchFailed, answerLost, degraded, torn>>

\* Without contrib the commits stay local.
KeepLocal ==
  /\ pc = "upload" /\ committed = Len(batch) /\ ~contrib
  /\ EndUpload
  /\ UNCHANGED <<upstream, refs, clone, process, stop, skip, retired, history>>

\* push: refused while shallow, because ensure_unshallowed asks origin for the
\* working branch; never forced.
PushAccepted == ~shallow /\ Extends(local[day], fork[day])

Push ==
  /\ pc = "upload" /\ committed = Len(batch) /\ contrib
  /\ PushAccepted
  /\ fork' = [fork EXCEPT ![day] = local[day]]
  /\ EndUpload
  /\ UNCHANGED <<upstream, tracking, local, clone, process, stop, skip, retired,
                 history>>

\* The push is rejected or never arrives, or arrives and its answer does not.
PushFails ==
  /\ pc = "upload" /\ committed = Len(batch) /\ contrib
  /\ \/ UNCHANGED <<fork, answerLost>>
     \/ PushAccepted /\ fork' = [fork EXCEPT ![day] = local[day]] /\ answerLost' = TRUE
  /\ Undo
  /\ EndUpload
  /\ UNCHANGED <<upstream, tracking, clone, process, stop, skip, retired,
                 fetchFailed, degraded, torn>>

-----------------------------------------------------------------------------
\* The process ends or is killed, also inside an upload; the background task
\* ends with it.
Stop ==
  /\ pc # "down"
  /\ pc' = "down" /\ background' = "none"
  /\ batch' = <<>> /\ committed' = 0 /\ pre' = NoBranch
  /\ UNCHANGED <<upstream, refs, worktree, partial, shallow, cloned, tracked, process,
                 stop, skip, retired, history>>

\* Somebody merges the pull request of a branch.
Merge(d) ==
  /\ fork[d] # NoBranch /\ ~(RulesOf(fork[d]) \subseteq upstream)
  /\ upstream' = upstream \cup RulesOf(fork[d])
  /\ UNCHANGED <<refs, clone, process, pc, stop, skip, retired, upload, history>>

Next == \/ Start \/ Unshallow \/ CheckedOut \/ Interrupt \/ BeginUpload \/ CommitRule \/ Abort
        \/ CommitFails \/ KeepLocal \/ Push \/ PushFails \/ Stop
        \/ \E r \in Rules : Capture(r) \/ RemoveFiles(r)
        \/ \E d \in Days : Merge(d)

Spec == Init /\ [][Next]_vars

-----------------------------------------------------------------------------
CommitsOf(b) == IF b = NoBranch THEN <<>> ELSE b.commits

\* A rule is committed once on the fork's branches, whatever was lost, rolled
\* back or captured again by a later process: what is merged, or pending on a
\* branch of any day, is in the skip set.  A process whose fetch failed may
\* contribute it again on another day, never twice on one branch.  A rule that the
\* unshallow task took files from may be committed in part, and then again.
ContributedOnce ==
  \A d, e \in Days :
    \A i \in DOMAIN CommitsOf(fork[d]), j \in DOMAIN CommitsOf(fork[e]) :
      fork[d].commits[i].rule = fork[e].commits[j].rule =>
        (d = e /\ i = j) \/ (d # e /\ degraded) \/ fork[d].commits[i].rule \in torn

\* Only published rules are skipped: data that an earlier process left behind
\* without publishing it does not silence its rule.
OnlyPublishedIsSkipped ==
  pc # "down" => skip \subseteq upstream \cup UNION {RulesOf(fork[d]) : d \in Days}

\* A push is not rejected as a divergence unless a fetch failed or the answer
\* of an earlier push was lost in this session: startup and rollback keep the
\* branch on top of the fork's, and so does a rollback that fails.
LocalExtendsFork ==
  pc # "down" /\ ~fetchFailed /\ ~answerLost => Extends(local[day], fork[day])

\* Between uploads the working branch holds what the fork has and what an
\* aborted upload kept: no failed upload leaves a commit for a later push, unless
\* its rollback failed as well.
FailedUploadLeavesNoCommit ==
  pc = "idle" /\ contrib /\ ~fetchFailed /\ ~answerLost =>
    \A i \in DOMAIN local[day].commits :
      local[day].commits[i] \in Range(CommitsOf(fork[day])) \cup kept
=============================================================================
