---------------------------- MODULE Repo_proofs ----------------------------
(***************************************************************************)
(* The skip set, the fork and the rollback of SigmaRepo, for any number of *)
(* rules, days and processes.                                              *)
(***************************************************************************)
EXTENDS Repo, TLAPS

Refs == [Days -> Branch \cup {NoBranch}]

Types ==
  /\ upstream \in SUBSET Rules
  /\ fork \in Refs /\ tracking \in Refs /\ local \in Refs
  /\ day \in Days /\ session \in 0 .. MaxSessions
  /\ pc \in {"down", "idle", "upload"}
  /\ batch \in Seq(Rules) /\ committed \in 0 .. Len(batch)
  /\ pc # "down" => local[day] \in Branch /\ session \in 1 .. MaxSessions
  /\ pc = "upload" => pre \in Branch

Published == upstream \cup UNION {RulesOf(fork[d]) : d \in Days}

\* What the remote-tracking branches have, somebody has published.
TrackedIsPublished == \A d \in Days : RulesOf(tracking[d]) \subseteq Published

\* What a rollback goes back to is on top of the fork as well.
PreExtendsFork ==
  pc = "upload" /\ ~fetchFailed /\ ~answerLost => Extends(pre, fork[day])

\* The commits of b are on the fork or were left by an abort or a failed rollback.
Accounted(b) ==
  \A i \in 1 .. Len(b.commits) : b.commits[i] \in Range(CommitsOf(fork[day])) \cup kept

\* In an upload that holds of the branch as it was before.
OnlyTheUploadIsNew ==
  contrib /\ ~fetchFailed /\ ~answerLost =>
    /\ pc = "idle" => Accounted(local[day])
    /\ pc = "upload" => /\ Accounted(pre)
                        /\ IsPrefix(pre.commits, local[day].commits)

IndInv ==
  /\ Types /\ TrackedIsPublished /\ OnlyPublishedIsSkipped
  /\ LocalExtendsFork /\ PreExtendsFork /\ OnlyTheUploadIsNew

-----------------------------------------------------------------------------
\* A prefix, element by element.
LEMMA PrefixIs ==
  ASSUME NEW s \in Seq(Commit), NEW t \in Seq(Commit)
  PROVE  IsPrefix(s, t) <=> Len(s) <= Len(t) /\ \A i \in 1 .. Len(s) : s[i] = t[i]
<1>1. Len(s) \in Nat /\ Len(t) \in Nat
  OBVIOUS
<1>2. SubSeq(s, 1, Len(s)) = [i \in 1 .. Len(s) |-> s[i]]
  BY <1>1
<1>3. ASSUME Len(s) <= Len(t)
      PROVE  SubSeq(t, 1, Len(s)) = [i \in 1 .. Len(s) |-> t[i]]
  BY <1>1, <1>3
<1> QED
  BY <1>1, <1>2, <1>3 DEF IsPrefix

\* A branch that was not touched extends what it was.
LEMMA PrefixOfItself ==
  ASSUME NEW s \in Seq(Commit)
  PROVE  IsPrefix(s, s)
BY PrefixIs

\* One more commit keeps a prefix.
LEMMA PrefixOfMore ==
  ASSUME NEW s \in Seq(Commit), NEW t \in Seq(Commit), NEW c \in Commit, IsPrefix(s, t)
  PROVE  IsPrefix(s, Append(t, c))
<1>1. Append(t, c) \in Seq(Commit) /\ Len(Append(t, c)) = Len(t) + 1
  OBVIOUS
<1>2. \A i \in 1 .. Len(t) : Append(t, c)[i] = t[i]
  OBVIOUS
<1>3. /\ Len(s) \in Nat /\ Len(t) \in Nat /\ Len(s) <= Len(t)
      /\ \A i \in 1 .. Len(s) : s[i] = t[i]
  BY PrefixIs
<1>4. \A i \in 1 .. Len(s) : s[i] = Append(t, c)[i]
  BY <1>2, <1>3
<1>5. Len(s) <= Len(Append(t, c))
  BY <1>1, <1>3
<1> QED
  BY <1>1, <1>4, <1>5, PrefixIs

\* A branch is a base and its commits.
LEMMA BranchTypes ==
  ASSUME NEW b \in Branch
  PROVE  b # NoBranch /\ b.base \in SUBSET Rules /\ b.commits \in Seq(Commit)
BY NoBranchAssumption DEF Branch

\* Pushing what is there already is no divergence.
LEMMA ExtendsItself ==
  ASSUME NEW b \in Branch \cup {NoBranch}
  PROVE  Extends(b, b)
BY BranchTypes, PrefixOfItself DEF Extends

\* A push only adds to what is published.
LEMMA ExtendsHasTheRules ==
  ASSUME NEW new \in Branch, NEW old \in Branch \cup {NoBranch}, Extends(new, old)
  PROVE  RulesOf(old) \subseteq RulesOf(new)
<1>1. CASE old = NoBranch
  BY <1>1 DEF RulesOf
<1>2. CASE old \in Branch
  <2>1. old # NoBranch /\ new # NoBranch /\ new.base = old.base
    BY <1>2, BranchTypes DEF Extends
  <2>2. /\ old.commits \in Seq(Commit) /\ new.commits \in Seq(Commit)
        /\ Len(old.commits) <= Len(new.commits)
        /\ \A i \in 1 .. Len(old.commits) : old.commits[i] = new.commits[i]
    BY <1>2, <2>1, BranchTypes, PrefixIs DEF Extends
  <2>3. ASSUME NEW i \in DOMAIN old.commits, old.commits[i].data
        PROVE  /\ i \in DOMAIN new.commits /\ new.commits[i].data
               /\ old.commits[i].rule = new.commits[i].rule
    BY <2>2, <2>3
  <2> QED
    BY <2>1, <2>3 DEF RulesOf
<1> QED
  BY <1>1, <1>2

-----------------------------------------------------------------------------
\* An empty fork and clone.
LEMMA InitInv == Init => IndInv
<1> SUFFICES ASSUME Init PROVE IndInv
  OBVIOUS
<1> USE DEF Init
<1>1. Types
  BY RepoAssumption DEF Types, Refs, Days
<1>2. TrackedIsPublished
  BY DEF TrackedIsPublished, RulesOf
<1> QED
  BY <1>1, <1>2 DEF IndInv, OnlyPublishedIsSkipped, LocalExtendsFork, PreExtendsFork,
                    OnlyTheUploadIsNew

\* Nothing that was published is unpublished.
LEMMA StaysPublished ==
  ASSUME TrackedIsPublished, OnlyPublishedIsSkipped,
         upstream \subseteq upstream',
         \A d \in Days : RulesOf(fork[d]) \subseteq RulesOf(fork'[d]),
         tracking' = tracking, skip' = skip, pc' # "down" => pc # "down"
  PROVE  TrackedIsPublished' /\ OnlyPublishedIsSkipped'
<1>1. Published \subseteq Published'
  BY DEF Published
<1> QED
  BY <1>1 DEF TrackedIsPublished, OnlyPublishedIsSkipped, Published

\* The branch a process starts on, and the refs it saw, are typed and published.
LEMMA StartsOnPublished ==
  ASSUME Types, TrackedIsPublished, day' \in Days, NEW ok \in BOOLEAN
  PROVE  /\ Fetched(ok) \in Refs
         /\ \A d \in Days : RulesOf(Fetched(ok)[d]) \subseteq Published
         /\ WorkingBranch(Fetched(ok)) \in Branch
         /\ RulesOf(WorkingBranch(Fetched(ok))) \subseteq Published
<1>1. Fetched(ok) \in {fork, tracking}
  BY DEF Fetched
<1>2. Fetched(ok) \in Refs
  BY <1>1 DEF Types
<1>3. \A d \in Days : RulesOf(Fetched(ok)[d]) \subseteq Published
  BY <1>1 DEF TrackedIsPublished, Published
<1> DEFINE fresh == [base |-> upstream, commits |-> <<>>]
<1>4. fresh \in Branch /\ RulesOf(fresh) \subseteq Published
  BY DEF Types, Branch, RulesOf, Published
<1> DEFINE seen == Fetched(ok)
           b == WorkingBranch(seen)
<1>5. b \in Branch /\ RulesOf(b) \subseteq Published
  <2> HIDE DEF seen
  <2>1. CASE seen[day'] # NoBranch
    <3>1. seen[day'] \in Branch /\ RulesOf(seen[day']) \subseteq Published
      BY <1>2, <1>3, <2>1 DEF seen, Refs
    <3> QED
      BY <2>1, <3>1 DEF WorkingBranch
  <2>2. CASE seen[day'] = NoBranch
    BY <1>4, <2>2 DEF WorkingBranch
  <2> QED
    BY <2>1, <2>2
<1> HIDE DEF b
<1> QED
  BY <1>2, <1>3, <1>5 DEF b

\* A process that starts: clone or fetch, create_branch, checkout_main_branch.
LEMMA StartInv == IndInv /\ Start => IndInv'
<1> SUFFICES ASSUME IndInv, Start PROVE IndInv'
  OBVIOUS
<1>1. PICK ok \in BOOLEAN :
        /\ tracking' = Fetched(ok)
        /\ local' = [local EXCEPT ![day'] = WorkingBranch(Fetched(ok))]
        /\ skip' = Mirror(WorkingBranch(Fetched(ok))) \cup Pending(Fetched(ok))
        /\ fetchFailed' = ~ok
  BY DEF Start
<1>2. /\ day' \in Days /\ session' = session + 1 /\ session < MaxSessions
      /\ pc' = "idle" /\ UNCHANGED <<upstream, fork, upload>>
  BY DEF Start
<1> DEFINE b == WorkingBranch(Fetched(ok))
<1>3. /\ Fetched(ok) \in Refs /\ b \in Branch /\ RulesOf(b) \subseteq Published
      /\ \A d \in Days : RulesOf(Fetched(ok)[d]) \subseteq Published
  BY <1>2, StartsOnPublished DEF IndInv
<1>4. local' \in Refs /\ local'[day'] = b
  BY <1>1, <1>2, <1>3 DEF IndInv, Types, Refs
<1>5. Types'
  BY <1>1, <1>2, <1>3, <1>4, RepoAssumption DEF IndInv, Types, upload
<1>6. Published' = Published
  BY <1>2 DEF Published
<1>7. TrackedIsPublished' /\ OnlyPublishedIsSkipped'
  BY <1>1, <1>3, <1>6 DEF TrackedIsPublished, OnlyPublishedIsSkipped, Published,
                          Mirror, Pending
<1>8. ASSUME ok, fork[day'] # NoBranch PROVE b = fork[day']
  BY <1>8 DEF WorkingBranch, Fetched
<1>9. LocalExtendsFork'
  <2> SUFFICES ASSUME ok PROVE Extends(b, fork[day'])
    BY <1>1, <1>2, <1>4 DEF LocalExtendsFork
  <2>1. CASE fork[day'] = NoBranch
    BY <2>1 DEF Extends
  <2>2. CASE fork[day'] # NoBranch
    BY <1>3, <1>8, <2>2, ExtendsItself
  <2> QED
    BY <2>1, <2>2
<1>10. OnlyTheUploadIsNew'
  <2> SUFFICES ASSUME ok, NEW i \in 1 .. Len(b.commits)
               PROVE  b.commits[i] \in Range(CommitsOf(fork[day']))
    BY <1>1, <1>2, <1>4 DEF OnlyTheUploadIsNew, Accounted
  <2>1. CASE fork[day'] = NoBranch
    BY <2>1 DEF WorkingBranch, Fetched
  <2>2. CASE fork[day'] # NoBranch
    <3>1. b.commits \in Seq(Commit) /\ CommitsOf(fork[day']) = b.commits
      BY <1>3, <1>8, <2>2, BranchTypes DEF CommitsOf
    <3> HIDE DEF b
    <3>2. i \in DOMAIN b.commits
      BY <3>1
    <3> QED
      BY <3>1, <3>2 DEF Range
  <2> QED
    BY <2>1, <2>2
<1>11. PreExtendsFork'
  BY <1>2 DEF PreExtendsFork
<1> QED
  BY <1>5, <1>7, <1>9, <1>10, <1>11 DEF IndInv

\* What concerns neither the refs nor the upload, or ends the process.
LEMMA QuietInv ==
  ASSUME IndInv, UNCHANGED <<refs, day, session, contrib, skip, pre>>,
         UNCHANGED <<fetchFailed, answerLost, kept>>,
         upstream \subseteq upstream', upstream' \in SUBSET Rules,
         batch' \in Seq(Rules), committed' \in 0 .. Len(batch'),
         pc' = pc \/ pc' = "down"
  PROVE  IndInv'
<1> USE DEF refs
<1>1. UNCHANGED <<fork, tracking, local, day, kept, fetchFailed, answerLost>>
  OBVIOUS
<1>2. Types'
  BY <1>1 DEF IndInv, Types
<1>3. TrackedIsPublished' /\ OnlyPublishedIsSkipped'
  BY <1>1, StaysPublished DEF IndInv
<1>4. LocalExtendsFork' /\ PreExtendsFork'
  BY <1>1 DEF IndInv, LocalExtendsFork, PreExtendsFork
<1>5. OnlyTheUploadIsNew'
  BY <1>1 DEF IndInv, OnlyTheUploadIsNew, Accounted
<1> QED
  BY <1>2, <1>3, <1>4, <1>5 DEF IndInv

\* The upload is over, and the fork has not changed or has the branch.
ForkIsSettled ==
  \/ UNCHANGED <<fork, answerLost>>
  \/ /\ fork' = [fork EXCEPT ![day] = local[day]]
     /\ Extends(local[day], fork[day]) /\ answerLost' = TRUE

\* A push takes no rule from a branch of the fork.
LEMMA ForkGrows ==
  ASSUME IndInv, pc = "upload", ForkIsSettled
  PROVE  /\ fork' \in Refs
         /\ \A d \in Days : RulesOf(fork[d]) \subseteq RulesOf(fork'[d])
<1>1. /\ local \in Refs /\ fork \in Refs /\ day \in Days /\ pre \in Branch
      /\ local[day] \in Branch /\ fork[day] \in Branch \cup {NoBranch}
  BY DEF IndInv, Types, Refs
<1>2. fork' \in Refs
  BY <1>1 DEF ForkIsSettled, Refs
<1>4. ASSUME NEW d \in Days PROVE RulesOf(fork[d]) \subseteq RulesOf(fork'[d])
  <2>1. CASE fork' = fork
    BY <2>1
  <2>2. CASE fork' = [fork EXCEPT ![day] = local[day]] /\ Extends(local[day], fork[day])
    <3>1. CASE d = day
      <4>1. RulesOf(fork[day]) \subseteq RulesOf(local[day])
        BY <1>1, <2>2, ExtendsHasTheRules
      <4> QED
        BY <1>1, <2>2, <3>1, <4>1 DEF Refs
    <3>2. CASE d # day
      BY <1>1, <2>2, <3>2 DEF Refs
    <3> QED
      BY <3>1, <3>2
  <2> QED
    BY <2>1, <2>2 DEF ForkIsSettled
<1> QED
  BY <1>2, <1>4

\* The rollback goes back to the branch before: with what it was, all is well.
LEMMA BackToPre ==
  ASSUME IndInv, pc = "upload", local' = Rollback, EndUpload, ForkIsSettled,
         UNCHANGED <<upstream, tracking, process, skip, kept, fetchFailed>>
  PROVE  IndInv'
<1> USE DEF process
<1>1. /\ local \in Refs /\ fork \in Refs /\ day \in Days /\ pre \in Branch
      /\ local[day] \in Branch /\ fork[day] \in Branch \cup {NoBranch}
  BY DEF IndInv, Types, Refs
<1>2. local' \in Refs /\ local'[day] = pre
  BY <1>1 DEF Rollback, Refs
<1>3. Types'
  BY <1>1, <1>2, ForkGrows DEF IndInv, Types, EndUpload
<1>5. TrackedIsPublished' /\ OnlyPublishedIsSkipped'
  BY ForkGrows, StaysPublished DEF IndInv, EndUpload
<1>6. LocalExtendsFork' /\ PreExtendsFork'
  BY <1>2 DEF IndInv, LocalExtendsFork, PreExtendsFork, EndUpload, ForkIsSettled
<1>7. OnlyTheUploadIsNew'
  BY <1>2 DEF IndInv, OnlyTheUploadIsNew, Accounted, EndUpload, ForkIsSettled
<1> QED
  BY <1>3, <1>5, <1>6, <1>7 DEF IndInv

\* What EXCEPT makes of a branch.
LEMMA OtherCommits ==
  ASSUME NEW b \in Branch, NEW s \in Seq(Commit)
  PROVE  [b EXCEPT !.commits = s] = [base |-> b.base, commits |-> s]
BY DEF Branch

\* One more commit of the upload.
LEMMA CommitRuleInv == IndInv /\ CommitRule => IndInv'
<1> SUFFICES ASSUME IndInv, CommitRule PROVE IndInv'
  OBVIOUS
<1> USE DEF CommitRule, clone, process, history
<1>0. PICK data \in BOOLEAN :
        local' = [local EXCEPT ![day].commits =
                    Append(@, [rule |-> batch[committed + 1], session |-> session,
                               data |-> data])]
  OBVIOUS
<1> DEFINE c == [rule |-> batch[committed + 1], session |-> session, data |-> data]
           b == local[day]
<1>1. /\ local \in Refs /\ day \in Days /\ b \in Branch /\ pre \in Branch
      /\ b.base \in SUBSET Rules /\ b.commits \in Seq(Commit) /\ pre.commits \in Seq(Commit)
      /\ fork[day] \in Branch \cup {NoBranch}
  BY BranchTypes DEF IndInv, Types, Refs
<1>2. c \in Commit
  BY DEF IndInv, Types, Commit
<1>3. local' = [local EXCEPT ![day] = [b EXCEPT !.commits = Append(b.commits, c)]]
  BY <1>0
<1>4. /\ local'[day] = [base |-> b.base, commits |-> Append(b.commits, c)]
      /\ local'[day] \in Branch /\ local' \in Refs
  <2>1. Append(b.commits, c) \in Seq(Commit)
    BY <1>1, <1>2
  <2>2. [b EXCEPT !.commits = Append(b.commits, c)]
          = [base |-> b.base, commits |-> Append(b.commits, c)]
    BY <1>1, <2>1, OtherCommits
  <2>3. [base |-> b.base, commits |-> Append(b.commits, c)] \in Branch
    BY <1>1, <1>2 DEF Branch
  <2> HIDE DEF c
  <2> QED
    BY <1>1, <1>3, <2>2, <2>3 DEF Refs
<1>5. Types'
  BY <1>4 DEF IndInv, Types
<1>6. TrackedIsPublished' /\ OnlyPublishedIsSkipped'
  BY StaysPublished DEF IndInv
<1>7. ASSUME NEW old \in Branch \cup {NoBranch}, Extends(b, old)
      PROVE  Extends(local'[day], old)
  <2> SUFFICES ASSUME old \in Branch
               PROVE  IsPrefix(old.commits, Append(b.commits, c)) /\ b.base = old.base
    BY <1>4, <1>7 DEF Extends
  <2>1. /\ old.commits \in Seq(Commit) /\ b.base = old.base
        /\ IsPrefix(old.commits, b.commits)
    BY <1>7, BranchTypes DEF Extends
  <2> QED
    BY <1>1, <1>2, <2>1, PrefixOfMore
<1>8. LocalExtendsFork' /\ PreExtendsFork'
  BY <1>1, <1>7 DEF IndInv, LocalExtendsFork, PreExtendsFork
<1>9. OnlyTheUploadIsNew'
  BY <1>1, <1>2, <1>4, PrefixOfMore DEF IndInv, OnlyTheUploadIsNew, Accounted
<1> QED
  BY <1>5, <1>6, <1>8, <1>9 DEF IndInv

\* The upload remembers the tip it would go back to.
LEMMA BeginUploadInv == IndInv /\ BeginUpload => IndInv'
<1> SUFFICES ASSUME IndInv, BeginUpload PROVE IndInv'
  OBVIOUS
<1> USE DEF BeginUpload, refs, process, history
<1>1. Types'
  BY DEF IndInv, Types
<1>2. TrackedIsPublished' /\ OnlyPublishedIsSkipped'
  BY StaysPublished DEF IndInv
<1>3. LocalExtendsFork' /\ PreExtendsFork'
  BY DEF IndInv, LocalExtendsFork, PreExtendsFork
<1>4. OnlyTheUploadIsNew'
  <2>1. IsPrefix(pre'.commits, local[day].commits)
    BY BranchTypes, PrefixOfItself DEF IndInv, Types
  <2> QED
    BY <2>1 DEF IndInv, OnlyTheUploadIsNew, Accounted
<1> QED
  BY <1>1, <1>2, <1>3, <1>4 DEF IndInv

\* What an aborted upload had committed, or a rollback that failed left, is noted
\* as kept.
LEMMA CommitsAreKept ==
  ASSUME IndInv, pc = "upload", EndUpload, ForkIsSettled,
         kept' = kept \cup NewCommits,
         UNCHANGED <<upstream, tracking, local, process, skip, fetchFailed>>
  PROVE  IndInv'
<1> USE DEF EndUpload, process, NewCommits
<1>1. Types'
  BY ForkGrows DEF IndInv, Types
<1>2. TrackedIsPublished' /\ OnlyPublishedIsSkipped'
  BY ForkGrows, StaysPublished DEF IndInv
<1>3. LocalExtendsFork' /\ PreExtendsFork'
  BY DEF IndInv, LocalExtendsFork, PreExtendsFork, ForkIsSettled
<1>4. OnlyTheUploadIsNew'
  <2> DEFINE new == local[day].commits
             old == pre.commits
  <2>1. new \in Seq(Commit) /\ old \in Seq(Commit)
    BY BranchTypes DEF IndInv, Types
  <2> HIDE DEF new, old
  <2>2. Len(new) \in Nat /\ Len(old) \in Nat
    BY <2>1
  <2>3. kept' = kept \cup Range(SubSeq(new, Len(old) + 1, Len(new)))
    BY DEF new, old
  <2> SUFFICES ASSUME contrib, ~fetchFailed, ~answerLost, NEW i \in 1 .. Len(new)
               PROVE  new[i] \in Range(CommitsOf(fork[day])) \cup kept'
    BY DEF OnlyTheUploadIsNew, Accounted, new, ForkIsSettled
  <2>4. /\ \A k \in 1 .. Len(old) : old[k] \in Range(CommitsOf(fork[day])) \cup kept
        /\ IsPrefix(old, new)
    BY DEF IndInv, OnlyTheUploadIsNew, Accounted, old, new
  <2>5. Len(old) <= Len(new) /\ \A k \in 1 .. Len(old) : old[k] = new[k]
    BY <2>1, <2>4, PrefixIs
  <2>6. CASE i <= Len(old)
    BY <2>2, <2>3, <2>4, <2>5, <2>6
  <2>7. CASE i > Len(old)
    <3>1. PICK k \in 1 .. (Len(new) - Len(old)) : i = Len(old) + k
      <4>1. i - Len(old) \in 1 .. (Len(new) - Len(old)) /\ i = Len(old) + (i - Len(old))
        BY <2>2, <2>7
      <4> QED
        BY <4>1
    <3>2. SubSeq(new, Len(old) + 1, Len(new))
            = [n \in 1 .. (Len(new) - Len(old)) |-> new[Len(old) + n]]
      BY <2>1, <2>2, <2>5
    <3>3. new[i] \in Range(SubSeq(new, Len(old) + 1, Len(new)))
      BY <3>1, <3>2 DEF Range
    <3> QED
      BY <2>3, <3>3
  <2> QED
    BY <2>2, <2>6, <2>7
<1> QED
  BY <1>1, <1>2, <1>3, <1>4 DEF IndInv

\* The fork takes the branch, or does not.
LEMMA PushInv == IndInv /\ Push => IndInv'
<1> SUFFICES ASSUME IndInv, Push PROVE IndInv'
  OBVIOUS
<1> USE DEF Push, EndUpload, process, history
<1>1. /\ local \in Refs /\ fork \in Refs /\ day \in Days /\ local[day] \in Branch
      /\ fork[day] \in Branch \cup {NoBranch} /\ Extends(local[day], fork[day])
  BY DEF IndInv, Types, Refs, PushAccepted
<1>2. fork' \in Refs /\ fork'[day] = local[day]
  BY <1>1 DEF Refs
<1>3. Types'
  BY <1>2 DEF IndInv, Types
<1>4. ASSUME NEW d \in Days PROVE RulesOf(fork[d]) \subseteq RulesOf(fork'[d])
  <2>1. CASE d = day
    BY <1>1, <1>2, <2>1, ExtendsHasTheRules
  <2>2. CASE d # day
    BY <1>1, <2>2 DEF Refs
  <2> QED
    BY <2>1, <2>2
<1>5. TrackedIsPublished' /\ OnlyPublishedIsSkipped'
  BY <1>4, StaysPublished DEF IndInv
<1>6. LocalExtendsFork' /\ PreExtendsFork'
  BY <1>1, <1>2, ExtendsItself DEF LocalExtendsFork, PreExtendsFork
<1>7. OnlyTheUploadIsNew'
  <2>1. local[day] # NoBranch /\ local[day].commits \in Seq(Commit)
    BY <1>1, BranchTypes
  <2>2. ASSUME NEW i \in 1 .. Len(local[day].commits)
        PROVE  local[day].commits[i] \in Range(local[day].commits)
    BY <2>1 DEF Range
  <2> QED
    BY <1>2, <2>1, <2>2 DEF OnlyTheUploadIsNew, Accounted, CommitsOf
<1> QED
  BY <1>3, <1>5, <1>6, <1>7 DEF IndInv

\* Every step keeps the invariant.
LEMMA NextInv == IndInv /\ [Next]_vars => IndInv'
<1> SUFFICES ASSUME IndInv, [Next]_vars PROVE IndInv'
  OBVIOUS
<1>1. CASE CommitFails
  <2>1. /\ pc = "upload" /\ Undo /\ EndUpload /\ ForkIsSettled
        /\ UNCHANGED <<upstream, tracking, process, skip, fetchFailed>>
    BY <1>1 DEF CommitFails, ForkIsSettled
  <2> QED
    BY <2>1, BackToPre, CommitsAreKept DEF Undo
<1>2. CASE PushFails
  <2>1. /\ pc = "upload" /\ Undo /\ EndUpload /\ ForkIsSettled
        /\ UNCHANGED <<upstream, tracking, process, skip, fetchFailed>>
    BY <1>2 DEF PushFails, PushAccepted, ForkIsSettled
  <2> QED
    BY <2>1, BackToPre, CommitsAreKept DEF Undo
<1>10. CASE Abort
  <2>1. /\ pc = "upload" /\ EndUpload /\ ForkIsSettled
        /\ kept' = kept \cup NewCommits
        /\ UNCHANGED <<upstream, tracking, local, process, skip, fetchFailed>>
    BY <1>10 DEF Abort, ForkIsSettled, refs
  <2> QED
    BY <2>1, CommitsAreKept
<1>3. CASE KeepLocal
  <2> USE <1>3 DEF KeepLocal, EndUpload, refs, process, history
  <2>1. Types'
    BY DEF IndInv, Types
  <2>2. TrackedIsPublished' /\ OnlyPublishedIsSkipped'
    BY StaysPublished DEF IndInv
  <2>3. LocalExtendsFork' /\ PreExtendsFork' /\ OnlyTheUploadIsNew'
    BY DEF IndInv, LocalExtendsFork, PreExtendsFork, OnlyTheUploadIsNew
  <2> QED
    BY <2>1, <2>2, <2>3 DEF IndInv
<1>4. CASE Unshallow \/ CheckedOut \/ \E r \in Rules : RemoveFiles(r)
  BY <1>4, QuietInv DEF Unshallow, CheckedOut, RemoveFiles, process, upload, history,
                       IndInv, Types
<1>5. CASE Interrupt
  BY <1>5, QuietInv DEF Interrupt, process, upload, history, IndInv, Types
<1>6. CASE UNCHANGED vars
  BY <1>6, QuietInv DEF vars, process, upload, history, IndInv, Types
<1>7. CASE \E d \in Days : Merge(d)
  <2>1. PICK d \in Days : Merge(d)
    BY <1>7
  <2>2. RulesOf(fork[d]) \in SUBSET Rules
    <3>1. fork[d] \in Branch \cup {NoBranch}
      BY DEF IndInv, Types, Refs
    <3>2. CASE fork[d] = NoBranch
      BY <3>2 DEF RulesOf
    <3>3. CASE fork[d] \in Branch
      <4>1. fork[d].base \in SUBSET Rules /\ fork[d].commits \in Seq(Commit)
        BY <3>3, BranchTypes
      <4>2. \A i \in DOMAIN fork[d].commits : fork[d].commits[i] \in Commit
        BY <4>1
      <4>3. \A i \in DOMAIN fork[d].commits : fork[d].commits[i].rule \in Rules
        BY <4>2 DEF Commit
      <4> QED
        BY <4>1, <4>3 DEF RulesOf
    <3> QED
      BY <3>1, <3>2, <3>3
  <2>3. upstream \subseteq upstream' /\ upstream' \in SUBSET Rules
    BY <2>1, <2>2 DEF Merge, IndInv, Types
  <2> QED
    BY <2>1, <2>3, QuietInv DEF Merge, process, upload, history, IndInv, Types
<1>8. CASE \E r \in Rules : Capture(r)
  BY <1>8, QuietInv DEF Capture, process, history, IndInv, Types
<1>9. CASE Stop
  <2> USE <1>9 DEF Stop, refs, process, history
  <2>1. Types'
    BY DEF IndInv, Types
  <2>2. TrackedIsPublished' /\ OnlyPublishedIsSkipped'
    BY StaysPublished DEF IndInv
  <2>3. LocalExtendsFork' /\ PreExtendsFork' /\ OnlyTheUploadIsNew'
    BY DEF LocalExtendsFork, PreExtendsFork, OnlyTheUploadIsNew
  <2> QED
    BY <2>1, <2>2, <2>3 DEF IndInv
<1> QED
  BY <1>1, <1>2, <1>3, <1>4, <1>5, <1>6, <1>7, <1>8, <1>9, <1>10, StartInv,
     BeginUploadInv, CommitRuleInv, PushInv DEF Next

\* The inductive invariant holds in every behaviour.
THEOREM Invariance == Spec => []IndInv
BY InitInv, NextInv, PTL DEF Spec

\* The skip set has published rules only: neither data that was left in the
\* working tree nor a commit that was never pushed silences its rule
\* (checkout_main_branch, pending_regression_rule_ids).
THEOREM SkippedIsPublished == Spec => []OnlyPublishedIsSkipped
<1>1. IndInv => OnlyPublishedIsSkipped
  BY DEF IndInv
<1> QED
  BY <1>1, Invariance, PTL

\* The working branch stays on top of the fork's unless a fetch failed or the
\* answer of a push was lost, so that the push of the next cycle is no
\* divergence (create_branch, reset_working_branch_to_commit).
THEOREM TheBranchExtendsTheFork == Spec => []LocalExtendsFork
<1>1. IndInv => LocalExtendsFork
  BY DEF IndInv
<1> QED
  BY <1>1, Invariance, PTL

\* What a failed upload committed is gone from the branch, so that no later push
\* carries it (upload_rule_batches).
THEOREM AFailedUploadLeavesNothing == Spec => []FailedUploadLeavesNoCommit
<1>1. IndInv => FailedUploadLeavesNoCommit
  <2> SUFFICES ASSUME IndInv, pc = "idle", contrib, ~fetchFailed, ~answerLost,
                      NEW i \in DOMAIN local[day].commits
               PROVE  local[day].commits[i] \in Range(CommitsOf(fork[day])) \cup kept
    BY DEF FailedUploadLeavesNoCommit
  <2>1. i \in 1 .. Len(local[day].commits)
    BY BranchTypes DEF IndInv, Types
  <2> QED
    BY <2>1 DEF IndInv, OnlyTheUploadIsNew, Accounted
<1> QED
  BY <1>1, Invariance, PTL

-----------------------------------------------------------------------------
(* A rule is committed once, or lost files before it was.                  *)

Distinct(b) ==
  \A i, j \in DOMAIN CommitsOf(b) :
    CommitsOf(b)[i].rule = CommitsOf(b)[j].rule => i = j \/ CommitsOf(b)[i].rule \in torn

Disjoint(b, other) ==
  \A i \in DOMAIN CommitsOf(b), j \in DOMAIN CommitsOf(other) :
    CommitsOf(b)[i].rule = CommitsOf(other)[j].rule => CommitsOf(b)[i].rule \in torn

\* Only a torn rule is committed without its data.
Intact(b) ==
  \A i \in DOMAIN CommitsOf(b) : CommitsOf(b)[i].data \/ CommitsOf(b)[i].rule \in torn

\* The branch b has each rule once, none that another branch of the fork has,
\* and only rules that this process will not capture (again).
Own(b) ==
  /\ RulesOf(b) \subseteq skip \cup retired
  /\ Intact(b) /\ Distinct(b)
  /\ ~degraded => \A e \in Days \ {day} : Disjoint(b, fork[e])

\* The batch has each rule once, none that was skipped, and what is still to be
\* committed is not on the branch.
BatchIsNew ==
  /\ \A k \in 1 .. Len(batch) : batch[k] \in retired \ skip
  /\ \A k, l \in 1 .. Len(batch) : batch[k] = batch[l] => k = l
  /\ \A k \in 1 .. Len(batch) : k > committed => batch[k] \notin RulesOf(local[day])

\* The data in the working tree is of rules that will not be captured again, and
\* a rule that loses files before its commit is torn.
FilesAreKnown ==
  /\ worktree \cup partial \subseteq skip \cup retired
  /\ partial \cap ToCommit \subseteq torn

OnceInv ==
  /\ IndInv /\ ContributedOnce /\ FilesAreKnown
  /\ pc # "down" =>
       /\ Own(local[day]) /\ BatchIsNew
       /\ ~degraded => \A e \in Days \ {day} : RulesOf(fork[e]) \subseteq skip
  /\ pc = "upload" => Own(pre)
  /\ pc = "down" => batch = <<>>
  /\ \A d \in Days : Distinct(tracking[d]) /\ Intact(tracking[d]) /\ Intact(fork[d])

\* A commit of a branch is of one of its rules, unless it is of a torn one.
LEMMA CommittedRules ==
  ASSUME NEW b \in Branch \cup {NoBranch}, NEW i \in DOMAIN CommitsOf(b)
  PROVE  /\ b \in Branch /\ CommitsOf(b) = b.commits
         /\ Intact(b) => b.commits[i].rule \in RulesOf(b) \cup torn
<1>1. b # NoBranch
  BY DEF CommitsOf
<1>2. b \in Branch /\ CommitsOf(b) = b.commits /\ i \in DOMAIN b.commits
  BY <1>1 DEF CommitsOf
<1>3. ASSUME Intact(b), b.commits[i].rule \notin torn
      PROVE  b.commits[i].rule \in RulesOf(b)
  <2>1. b.commits[i].data
    BY <1>2, <1>3 DEF Intact
  <2> QED
    BY <1>1, <1>2, <2>1 DEF RulesOf
<1> QED
  BY <1>2, <1>3

\* What ContributedOnce says of a fork f, by its branches.
Once(f, deg) ==
  \A d, e \in Days : \A i \in DOMAIN CommitsOf(f[d]), j \in DOMAIN CommitsOf(f[e]) :
    f[d].commits[i].rule = f[e].commits[j].rule =>
      (d = e /\ i = j) \/ (d # e /\ deg) \/ f[d].commits[i].rule \in torn

\* Once, on every branch and between any two.
LEMMA ByBranches ==
  ASSUME NEW f \in Refs, NEW deg
  PROVE  Once(f, deg) <=>
           /\ \A d \in Days : Distinct(f[d])
           /\ ~deg => \A d, e \in Days : d # e => Disjoint(f[d], f[e])
<1>1. ASSUME NEW d \in Days, NEW i \in DOMAIN CommitsOf(f[d])
      PROVE  f[d].commits[i] = CommitsOf(f[d])[i]
  BY <1>1, CommittedRules DEF Refs
<1>2. ASSUME Once(f, deg), NEW d \in Days PROVE Distinct(f[d])
  BY <1>1, <1>2 DEF Once, Distinct
<1>3. ASSUME Once(f, deg), ~deg, NEW d \in Days, NEW e \in Days, d # e
      PROVE  Disjoint(f[d], f[e])
  <2> SUFFICES ASSUME NEW i \in DOMAIN CommitsOf(f[d]), NEW j \in DOMAIN CommitsOf(f[e])
               PROVE  f[d].commits[i].rule = f[e].commits[j].rule =>
                        f[d].commits[i].rule \in torn
    BY <1>1 DEF Disjoint
  <2> QED
    BY <1>3 DEF Once
<1>4. ASSUME \A d \in Days : Distinct(f[d]),
             ~deg => \A d, e \in Days : d # e => Disjoint(f[d], f[e])
      PROVE  Once(f, deg)
  <2> SUFFICES ASSUME NEW d \in Days, NEW e \in Days, NEW i \in DOMAIN CommitsOf(f[d]),
                      NEW j \in DOMAIN CommitsOf(f[e]),
                      f[d].commits[i].rule = f[e].commits[j].rule
               PROVE  (d = e /\ i = j) \/ (d # e /\ deg) \/ f[d].commits[i].rule \in torn
    BY DEF Once
  <2>1. /\ CommitsOf(f[d])[i].rule = CommitsOf(f[e])[j].rule
        /\ CommitsOf(f[d])[i].rule = f[d].commits[i].rule
    BY <1>1
  <2>2. CASE d = e
    BY <1>4, <2>1, <2>2 DEF Distinct
  <2>3. CASE d # e
    BY <1>4, <2>1, <2>3 DEF Disjoint
  <2> QED
    BY <2>2, <2>3
<1> QED
  BY <1>2, <1>3, <1>4

\* The branch of a new process has nothing twice: it is what the fork has, or its own.
LEMMA StartOnce == OnceInv /\ Start => OnceInv'
<1> SUFFICES ASSUME OnceInv, Start PROVE OnceInv'
  OBVIOUS
<1>1. PICK ok \in BOOLEAN :
        /\ tracking' = Fetched(ok)
        /\ local' = [local EXCEPT ![day'] = WorkingBranch(Fetched(ok))]
        /\ worktree' = Mirror(WorkingBranch(Fetched(ok)))
        /\ skip' = Mirror(WorkingBranch(Fetched(ok))) \cup Pending(Fetched(ok))
        /\ degraded' = (degraded \/ ~ok)
  BY DEF Start
<1>2. /\ day' \in Days /\ pc' = "idle" /\ batch' = <<>>
      /\ UNCHANGED <<fork, torn, committed>> /\ partial' = {}
  BY DEF Start, upload, OnceInv
<1> DEFINE seen == Fetched(ok)
           b == WorkingBranch(seen)
<1>3. b \in Branch /\ local'[day'] = b
  <2>1. b \in Branch
    BY <1>2, StartsOnPublished DEF OnceInv, IndInv
  <2> QED
    BY <1>1, <1>2, <2>1 DEF OnceInv, IndInv, Types, Refs
<1>4. IndInv' /\ Types /\ Types'
  BY StartInv DEF OnceInv, IndInv
<1>5. /\ \A d \in Days : Distinct(fork[d])
      /\ ~degraded => \A d, e \in Days : d # e => Disjoint(fork[d], fork[e])
  <2>1. Once(fork, degraded) /\ fork \in Refs
    BY <1>4 DEF OnceInv, ContributedOnce, Once, Types
  <2> QED
    BY <2>1, ByBranches
<1>6. ContributedOnce'
  <2>1. degraded => degraded'
    BY <1>1
  <2> QED
    BY <1>2, <2>1 DEF OnceInv, ContributedOnce
<1>7. \A d \in Days : Distinct(seen[d]) /\ Intact(seen[d])
  BY <1>5 DEF Fetched, OnceInv
<1>8. ~degraded' => seen = fork
  BY <1>1 DEF Fetched
<1> HIDE DEF seen
<1>9. Distinct(b) /\ Intact(b) /\ (~degraded' => \A e \in Days \ {day'} : Disjoint(b, fork[e]))
  <2>1. CASE seen[day'] = NoBranch
    <3>1. CommitsOf(b) = <<>>
      BY <2>1 DEF WorkingBranch, CommitsOf
    <3> HIDE DEF b
    <3> QED
      BY <3>1 DEF Distinct, Disjoint, Intact
  <2>2. CASE seen[day'] # NoBranch
    <3>1. b = seen[day']
      BY <2>2 DEF WorkingBranch
    <3>2. ~degraded' => ~degraded
      BY <1>1
    <3> HIDE DEF b
    <3> QED
      BY <1>2, <1>5, <1>7, <1>8, <3>1, <3>2
  <2> QED
    BY <2>1, <2>2
<1>10. RulesOf(b) \subseteq skip' /\ FilesAreKnown'
  BY <1>1, <1>2 DEF Mirror, seen, FilesAreKnown
<1> HIDE DEF b
<1>11. Own(local[day])'
  BY <1>2, <1>3, <1>9, <1>10 DEF Own, Distinct, Disjoint, Intact
<1>12. BatchIsNew'
  BY <1>2 DEF BatchIsNew
<1>13. ~degraded' => \A e \in Days : RulesOf(fork[e]) \subseteq skip'
  BY <1>1, <1>8 DEF Pending, seen
<1>14. \A d \in Days : Distinct(tracking'[d]) /\ Intact(tracking'[d]) /\ Intact(fork'[d])
  BY <1>1, <1>2, <1>7 DEF seen, OnceInv
<1> QED
  BY <1>2, <1>4, <1>6, <1>10, <1>11, <1>12, <1>13, <1>14 DEF OnceInv, Distinct, Intact

\* What leaves the refs alone, and adds only new rules to the batch.
LEMMA QuietOnce ==
  ASSUME OnceInv, IndInv', BatchIsNew', FilesAreKnown', torn \subseteq torn',
         UNCHANGED <<fork, tracking, local, day, skip, pre, degraded, pc>>,
         retired \subseteq retired', batch' = batch \/ pc # "down"
  PROVE  OnceInv'
<1>1. ContributedOnce'
  BY DEF OnceInv, ContributedOnce
<1>2. ASSUME NEW b, Own(b)
      PROVE  /\ RulesOf(b) \subseteq skip' \cup retired' /\ Distinct(b) /\ Intact(b)
             /\ ~degraded' => \A e \in Days \ {day'} : Disjoint(b, fork'[e])
  BY <1>2 DEF Own
<1>3. pc' # "down" => Own(local[day])'
  BY <1>2 DEF OnceInv, Own, Distinct, Disjoint, Intact
<1>4. pc' = "upload" => Own(pre)'
  BY <1>2 DEF OnceInv, Own, Distinct, Disjoint, Intact
<1>5. \A d \in Days : /\ Distinct(tracking[d])' /\ Intact(tracking[d])'
                       /\ Intact(fork[d])'
  BY DEF OnceInv, Distinct, Intact
<1> QED
  BY <1>1, <1>3, <1>4, <1>5 DEF OnceInv, Distinct, Intact

\* An upload that begins, and the end of the process.
LEMMA BeginOrStopOnce == OnceInv /\ (BeginUpload \/ Stop) => OnceInv'
<1> SUFFICES ASSUME OnceInv, BeginUpload \/ Stop PROVE OnceInv'
  OBVIOUS
<1>1. IndInv'
  BY NextInv DEF OnceInv, Next
<1>2. UNCHANGED <<fork, tracking, local, day, skip, retired, degraded, torn, worktree,
                  partial>>
  BY DEF BeginUpload, Stop, refs, clone, process, history
<1>3. ContributedOnce'
  BY <1>2 DEF OnceInv, ContributedOnce
<1>4. \A d \in Days : /\ Distinct(tracking[d])' /\ Intact(tracking[d])'
                       /\ Intact(fork[d])'
  BY <1>2 DEF OnceInv, Distinct, Intact
<1>5. CASE Stop
  <2>1. FilesAreKnown'
    BY <1>2, <1>5 DEF Stop, OnceInv, FilesAreKnown, ToCommit
  <2> QED
    BY <1>1, <1>3, <1>4, <1>5, <2>1 DEF Stop, OnceInv, Distinct, Intact
<1>6. CASE BeginUpload
  <2>1. UNCHANGED <<batch, committed>> /\ pc = "idle" /\ pc' = "upload" /\ pre' = local[day]
    BY <1>6 DEF BeginUpload
  <2>2. BatchIsNew'
    BY <1>2, <2>1 DEF OnceInv, BatchIsNew
  <2>3. Own(local[day])' /\ Own(pre)'
    BY <1>2, <2>1 DEF OnceInv, Own, Distinct, Disjoint, Intact
  <2>4. FilesAreKnown'
    BY <1>2, <2>1 DEF OnceInv, FilesAreKnown, ToCommit
  <2> QED
    BY <1>1, <1>2, <1>3, <1>4, <2>1, <2>2, <2>3, <2>4 DEF OnceInv, Distinct, Intact
<1> QED
  BY <1>5, <1>6

\* However an upload ends, the branch is one of the two that are known to be
\* right, and so is the fork's.
LEMMA EndUploadOnce ==
  ASSUME OnceInv, IndInv', pc = "upload", EndUpload,
         local' = local \/ local' = Rollback,
         fork' = fork \/ fork' = [fork EXCEPT ![day] = local[day]],
         UNCHANGED <<tracking, day, skip, retired, degraded, torn, worktree, partial>>
  PROVE  OnceInv'
<1>1. Types /\ Types' /\ day \in Days /\ local \in Refs /\ fork \in Refs
  BY DEF OnceInv, IndInv, Types
<1>2. Own(local[day]) /\ Own(pre)
  BY DEF OnceInv
<1>3. local'[day] = local[day] \/ local'[day] = pre
  BY <1>1 DEF Rollback, Refs
<1>4. /\ \A e \in Days \ {day} : fork'[e] = fork[e]
      /\ fork'[day] = fork[day] \/ fork'[day] = local[day]
  BY <1>1 DEF Refs
<1>5. Own(local'[day])
  BY <1>2, <1>3
<1>6. Own(local[day])'
  BY <1>4, <1>5 DEF Own, Distinct, Disjoint, Intact
<1>7. /\ \A d \in Days : Distinct(fork[d])
      /\ ~degraded => \A d, e \in Days : d # e => Disjoint(fork[d], fork[e])
  <2>1. Once(fork, degraded)
    BY DEF OnceInv, ContributedOnce, Once
  <2> QED
    BY <1>1, <2>1, ByBranches
<1>8. ASSUME NEW d \in Days PROVE Distinct(fork'[d]) /\ Intact(fork'[d])
  BY <1>2, <1>4, <1>7 DEF Own, OnceInv
<1>9. ASSUME ~degraded, NEW d \in Days, NEW e \in Days, d # e
      PROVE  Disjoint(fork'[d], fork'[e])
  <2>1. CASE d # day /\ e # day
    BY <1>4, <1>7, <1>9, <2>1
  <2>2. ASSUME NEW f \in Days \ {day} PROVE Disjoint(fork'[day], fork'[f])
    BY <1>1, <1>2, <1>4, <1>7, <1>9, <2>2 DEF Own
  <2>3. CASE e = day
    <3>1. Disjoint(fork'[e], fork'[d])
      BY <1>9, <2>2, <2>3
    <3> QED
      BY <3>1 DEF Disjoint
  <2> QED
    BY <1>9, <2>1, <2>2, <2>3
<1>10. ContributedOnce'
  <2>1. fork' \in Refs /\ degraded' = degraded
    BY <1>1 DEF Types
  <2>2. Once(fork', degraded)
    BY <1>8, <1>9, <2>1, ByBranches
  <2> QED
    BY <2>1, <2>2 DEF Once, ContributedOnce, CommitsOf
<1>11. BatchIsNew' /\ FilesAreKnown' /\ pc' = "idle"
  BY DEF EndUpload, BatchIsNew, OnceInv, FilesAreKnown, ToCommit
<1>12. ~degraded' => \A e \in Days \ {day'} : RulesOf(fork'[e]) \subseteq skip'
  BY <1>4 DEF OnceInv
<1> QED
  BY <1>6, <1>8, <1>10, <1>11, <1>12 DEF OnceInv, Distinct, Intact

\* The rule of the new commit is neither on this branch nor on another.
LEMMA CommitRuleOnce == OnceInv /\ CommitRule => OnceInv'
<1> SUFFICES ASSUME OnceInv, CommitRule PROVE OnceInv'
  OBVIOUS
<1>0. PICK data \in BOOLEAN :
        /\ batch[committed + 1] \in worktree => data
        /\ local' = [local EXCEPT ![day].commits =
                       Append(@, [rule |-> batch[committed + 1], session |-> session,
                                  data |-> data])]
  BY DEF CommitRule
<1> DEFINE b == local[day]
           r == batch[committed + 1]
           c == [rule |-> r, session |-> session, data |-> data]
<1>1. /\ IndInv' /\ Types /\ local \in Refs /\ day \in Days /\ b \in Branch
      /\ b.commits \in Seq(Commit) /\ b # NoBranch /\ Own(b) /\ Own(pre) /\ BatchIsNew
      /\ committed \in Nat /\ Len(batch) \in Nat /\ FilesAreKnown
      /\ ~degraded => \A e \in Days \ {day} : RulesOf(fork[e]) \subseteq skip
  <2>1. IndInv' /\ pc = "upload"
    BY CommitRuleInv DEF OnceInv, CommitRule
  <2>2. Types /\ b \in Branch
    BY <2>1 DEF OnceInv, IndInv, Types
  <2> QED
    BY <2>1, <2>2, BranchTypes DEF OnceInv, Types
<1>2. /\ UNCHANGED <<fork, tracking, day, skip, retired, degraded, pre, batch, pc>>
      /\ UNCHANGED <<torn, worktree, partial>> /\ r \in worktree \cup partial
      /\ pc = "upload" /\ committed < Len(batch) /\ committed' = committed + 1
      /\ local' = [local EXCEPT ![day] = [b EXCEPT !.commits = Append(b.commits, c)]]
  BY <1>0 DEF CommitRule, clone, process, history
<1>3. r \in retired \ skip /\ r \notin RulesOf(b)
  BY <1>1, <1>2 DEF BatchIsNew
<1>18. data \/ r \in torn
  <2>1. r \in ToCommit
    BY <1>1, <1>2 DEF ToCommit
  <2> QED
    BY <1>0, <1>1, <1>2, <2>1 DEF FilesAreKnown
<1>4. c \in Commit /\ Append(b.commits, c) \in Seq(Commit)
  BY <1>1, <1>2 DEF Types, Commit
<1>5. local'[day] = [base |-> b.base, commits |-> Append(b.commits, c)]
  <2>1. [b EXCEPT !.commits = Append(b.commits, c)]
          = [base |-> b.base, commits |-> Append(b.commits, c)]
    BY <1>1, <1>4, OtherCommits
  <2> QED
    BY <1>1, <1>2, <2>1 DEF Refs
<1>6. local'[day] \in Branch /\ local'[day] # NoBranch
  BY <1>1, <1>2, BranchTypes DEF IndInv, Types
<1> DEFINE n == Len(b.commits)
           more == Append(b.commits, c)
<1>7. /\ n \in Nat /\ DOMAIN b.commits = 1 .. n /\ DOMAIN more = 1 .. (n + 1)
      /\ \A i \in 1 .. n : more[i] = b.commits[i]
      /\ more[n + 1] = c
  BY <1>1, <1>4
<1>8. /\ CommitsOf(local'[day]) = more /\ CommitsOf(b) = b.commits
      /\ \A i \in 1 .. n : b.commits[i].rule \in RulesOf(b) \cup torn
      /\ c.rule = r /\ c.data = data
  <2>1. CommitsOf(b) = b.commits
    BY <1>1 DEF CommitsOf
  <2>2. CommitsOf(local'[day]) = more
    BY <1>5, <1>6 DEF CommitsOf
  <2>3. \A i \in DOMAIN b.commits : b.commits[i].rule \in RulesOf(b) \cup torn
    BY <1>1, <2>1, CommittedRules DEF Own
  <2>4. c.rule = r /\ c.data = data
    OBVIOUS
  <2> HIDE DEF b, c, more, n, r
  <2> QED
    BY <1>7, <2>1, <2>2, <2>3, <2>4
<1> HIDE DEF c, more, n, b, r
<1>9. ASSUME NEW i \in 1 .. (n + 1)
      PROVE  \/ i \in 1 .. n /\ more[i].rule = b.commits[i].rule
             \/ i = n + 1 /\ more[i].rule = r /\ more[i].data = data
  BY <1>7, <1>8
<1>10. Distinct(local'[day])
  <2> SUFFICES ASSUME NEW i \in 1 .. (n + 1), NEW j \in 1 .. (n + 1),
                      more[i].rule = more[j].rule
               PROVE  i = j \/ more[i].rule \in torn
    BY <1>7, <1>8 DEF Distinct
  <2>1. \A k, l \in 1 .. n : b.commits[k].rule = b.commits[l].rule =>
                                k = l \/ b.commits[k].rule \in torn
    BY <1>1, <1>7, <1>8 DEF Own, Distinct
  <2>2. \A k \in 1 .. n : b.commits[k].rule # r \/ r \in torn
    BY <1>3, <1>8
  <2> QED
    BY <1>9, <2>1, <2>2
<1>11. RulesOf(local'[day]) \subseteq RulesOf(b) \cup {r}
  <2>1. RulesOf(local'[day])
          = b.base \cup {more[i].rule : i \in {k \in 1 .. (n + 1) : more[k].data}}
    BY <1>5, <1>6, <1>7 DEF RulesOf, more
  <2>2. RulesOf(b)
          = b.base \cup {b.commits[i].rule : i \in {k \in 1 .. n : b.commits[k].data}}
    BY <1>1, <1>7 DEF RulesOf
  <2>3. ASSUME NEW i \in 1 .. (n + 1), more[i].data
        PROVE  more[i].rule \in RulesOf(b) \cup {r}
    BY <1>7, <1>9, <2>2, <2>3
  <2> QED
    BY <2>1, <2>2, <2>3
<1>12. ASSUME ~degraded, NEW e \in Days \ {day} PROVE Disjoint(local'[day], fork[e])
  <2> SUFFICES ASSUME NEW i \in 1 .. (n + 1), NEW j \in DOMAIN CommitsOf(fork[e])
               PROVE  more[i].rule = CommitsOf(fork[e])[j].rule => more[i].rule \in torn
    BY <1>7, <1>8 DEF Disjoint
  <2>1. CommitsOf(fork[e])[j].rule \in skip \cup torn
    <3>1. fork[e] \in Branch \cup {NoBranch}
      BY <1>1 DEF Types, Refs
    <3> QED
      BY <1>1, <1>12, <3>1, CommittedRules DEF OnceInv
  <2>2. \A k \in 1 .. n : b.commits[k].rule = CommitsOf(fork[e])[j].rule =>
                             b.commits[k].rule \in torn
    <3>1. Disjoint(b, fork[e])
      BY <1>1, <1>12 DEF Own
    <3> QED
      BY <1>7, <1>8, <3>1 DEF Disjoint
  <2> QED
    BY <1>3, <1>9, <2>1, <2>2
<1>13. Own(local[day])'
  <2>1. RulesOf(local'[day]) \subseteq skip \cup retired
    BY <1>1, <1>3, <1>11 DEF Own
  <2>2. Intact(local'[day])
    <3>1. \A i \in 1 .. n : b.commits[i].data \/ b.commits[i].rule \in torn
      BY <1>1, <1>7, <1>8 DEF Own, Intact
    <3> QED
      BY <1>7, <1>8, <1>9, <1>18, <3>1 DEF Intact
  <2>3. Own(local'[day])
    BY <1>10, <1>12, <2>1, <2>2 DEF Own
  <2>4. UNCHANGED <<fork, day, skip, retired, degraded, torn>>
    BY <1>2
  <2> QED
    BY <2>3, <2>4 DEF Own, Distinct, Disjoint, Intact
<1>14. BatchIsNew'
  <2>1. ASSUME NEW k \in 1 .. Len(batch), k > committed + 1
        PROVE  batch[k] \notin RulesOf(local'[day])
    <3>1. batch[k] \notin RulesOf(b) /\ k > committed
      BY <1>1, <2>1 DEF BatchIsNew, b
    <3>2. batch[k] # r
      BY <1>1, <1>2, <2>1 DEF BatchIsNew, r
    <3> QED
      BY <1>11, <3>1, <3>2
  <2> QED
    BY <1>1, <1>2, <2>1 DEF BatchIsNew
<1>15. Own(pre)'
  BY <1>1, <1>2 DEF Own, Distinct, Disjoint, Intact
<1>16. ContributedOnce'
  BY <1>2 DEF OnceInv, ContributedOnce
<1>17. FilesAreKnown'
  BY <1>1, <1>2 DEF FilesAreKnown, ToCommit
<1> QED
  BY <1>1, <1>2, <1>13, <1>14, <1>15, <1>16, <1>17 DEF OnceInv, Distinct, Intact

\* A captured rule was neither skipped nor captured before.
LEMMA CaptureOnce ==
  ASSUME NEW r \in Rules, OnceInv, Capture(r)
  PROVE  OnceInv'
<1>1. IndInv'
  BY NextInv DEF OnceInv, Next
<1>2. /\ pc = "idle" /\ r \notin skip \cup retired
      /\ UNCHANGED <<fork, tracking, local, day, skip, pre, degraded, pc, committed>>
      /\ UNCHANGED <<torn, partial>> /\ worktree' = worktree \cup {r}
      /\ retired' = retired \cup {r} /\ batch' = Append(batch, r)
  BY DEF Capture, refs, process, history
<1>3. /\ batch \in Seq(Rules) /\ Len(batch) \in Nat /\ BatchIsNew
      /\ RulesOf(local[day]) \subseteq skip \cup retired
  BY <1>2 DEF OnceInv, IndInv, Types, Own
<1>4. /\ Len(batch') = Len(batch) + 1 /\ batch'[Len(batch) + 1] = r
      /\ \A k \in 1 .. Len(batch) : batch'[k] = batch[k]
  BY <1>2, <1>3
<1>5. BatchIsNew'
  <2>1. ASSUME NEW k \in 1 .. Len(batch')
        PROVE  \/ k \in 1 .. Len(batch) /\ batch'[k] = batch[k] /\ batch[k] # r
               \/ k = Len(batch) + 1 /\ batch'[k] = r
    BY <1>2, <1>3, <1>4 DEF BatchIsNew
  <2>2. \A k \in 1 .. Len(batch') : batch'[k] \in retired' \ skip
    BY <1>2, <1>3, <2>1 DEF BatchIsNew
  <2>3. \A k, l \in 1 .. Len(batch') : batch'[k] = batch'[l] => k = l
    BY <1>3, <2>1 DEF BatchIsNew
  <2>4. \A k \in 1 .. Len(batch') : k > committed => batch'[k] \notin RulesOf(local[day])
    BY <1>2, <1>3, <2>1 DEF BatchIsNew
  <2> QED
    BY <1>2, <2>2, <2>3, <2>4 DEF BatchIsNew
<1>6. FilesAreKnown'
  <2>1. ToCommit' \subseteq ToCommit \cup {r}
    BY <1>2, <1>3, <1>4 DEF OnceInv, IndInv, Types, ToCommit
  <2>2. FilesAreKnown
    BY DEF OnceInv
  <2> QED
    BY <1>2, <2>1, <2>2 DEF FilesAreKnown
<1> QED
  BY <1>1, <1>2, <1>5, <1>6, QuietOnce

\* Every step keeps it.
LEMMA NextOnce == OnceInv /\ [Next]_vars => OnceInv'
<1> SUFFICES ASSUME OnceInv, [Next]_vars PROVE OnceInv'
  OBVIOUS
<1>1. IndInv'
  BY NextInv DEF OnceInv
<1>2. CASE \/ Unshallow \/ CheckedOut \/ (\E r \in Rules : RemoveFiles(r))
           \/ Interrupt \/ (\E d \in Days : Merge(d)) \/ UNCHANGED vars
  <2>1. /\ UNCHANGED <<fork, tracking, local, day, skip, pre, degraded, pc, batch,
                       committed, retired>>
        /\ torn \subseteq torn'
    BY <1>2 DEF Unshallow, CheckedOut, RemoveFiles, Interrupt, Merge, vars, refs, process,
                upload, history
  <2>2. BatchIsNew' \/ pc = "down"
    BY <2>1 DEF OnceInv, BatchIsNew
  <2>3. BatchIsNew'
    BY <2>1, <2>2 DEF OnceInv, BatchIsNew
  <2>4. FilesAreKnown'
    <3>1. FilesAreKnown /\ ToCommit' = ToCommit
      BY <2>1 DEF OnceInv, ToCommit
    <3>2. CASE UNCHANGED <<worktree, partial, torn>>
      BY <2>1, <3>1, <3>2 DEF FilesAreKnown
    <3>3. CASE \E r \in Rules : RemoveFiles(r)
      BY <2>1, <3>1, <3>3 DEF RemoveFiles, FilesAreKnown
    <3> QED
      BY <1>2, <3>2, <3>3 DEF Unshallow, CheckedOut, Interrupt, Merge, vars, clone, history
  <2> QED
    BY <1>1, <2>1, <2>3, <2>4, QuietOnce
<1>3. CASE Abort \/ CommitFails \/ KeepLocal \/ Push \/ PushFails
  <2>1. /\ pc = "upload" /\ EndUpload
        /\ local' = local \/ local' = Rollback
        /\ fork' = fork \/ fork' = [fork EXCEPT ![day] = local[day]]
        /\ UNCHANGED <<tracking, day, skip, retired, degraded, torn, worktree, partial>>
    BY <1>3 DEF Abort, CommitFails, KeepLocal, Push, PushFails, Undo, refs, clone, process, history
  <2> QED
    BY <1>1, <2>1, EndUploadOnce
<1>4. CASE \E r \in Rules : Capture(r)
  BY <1>4, CaptureOnce
<1> QED
  BY <1>2, <1>3, <1>4, StartOnce, BeginOrStopOnce, CommitRuleOnce DEF Next

\* A rule is committed once on the branches of the fork, over failed uploads,
\* lost answers, restarts and days, unless the unshallow task has taken files
\* from it before (upload_rule_batches, git_unshallow).
THEOREM EveryRuleIsContributedOnce == Spec => []ContributedOnce
<1>1. Init => OnceInv
  <2> SUFFICES ASSUME Init PROVE OnceInv
    OBVIOUS
  <2>1. \A d \in Days : CommitsOf(fork[d]) = <<>> /\ CommitsOf(tracking[d]) = <<>>
    BY DEF Init, CommitsOf
  <2>2. /\ ContributedOnce
        /\ \A d \in Days : Distinct(tracking[d]) /\ Intact(tracking[d]) /\ Intact(fork[d])
    BY <2>1 DEF ContributedOnce, Distinct, Intact
  <2>3. FilesAreKnown
    BY DEF Init, FilesAreKnown
  <2> QED
    BY <2>2, <2>3, InitInv DEF Init, OnceInv
<1>2. OnceInv => ContributedOnce
  BY DEF OnceInv
<1> QED
  BY <1>1, <1>2, NextOnce, PTL DEF Spec
=============================================================================
