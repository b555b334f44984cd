----------------------------- MODULE ServiceProofs -----------------------------
(***************************************************************************)
(* Proofs about the services that stand by themselves, each for any number *)
(* of its users, tasks and clients: the scheduler, the social graph, the   *)
(* rate limiter, the Redis pool, the sandbox, the configuration, the file  *)
(* storage, the WebSocket rooms, the log files, the second factors, the    *)
(* search client, the P2P node, the event bus and the roles.               *)
(***************************************************************************)
EXTENDS Scheduler, SocialGraph, RateLimiter, RedisPool, Sandbox, ConfigReload,
        FileStorage, WsRooms, LogFiles, LoginFactors, SearchClient, P2PNode, RoleStore,
        EventBus, Lists,
        FiniteSetTheorems, SequenceTheorems, WellFoundedInduction, TLAPS

(***************************************************************************)
(* Scheduler.  What a status says of the runs holds in every step by       *)
(* itself: a run that ends takes the status with it, whatever the other    *)
(* runs do.  That a removed task stays away needs UnusedIsAbsent: the one  *)
(* action that puts an entry into the table does so for a task that was    *)
(* never there.                                                            *)
(***************************************************************************)
SchedulerInv == SchedulerTypeOK /\ UnusedIsAbsent /\ RunningIsRun

\* What SetStatus does to the table, entry by entry.
LEMMA SetStatusFacts ==
  ASSUME SchedulerTypeOK, NEW id \in TaskIds, NEW s \in TaskStatus
  PROVE  /\ SetStatus(id, s) \in [TaskIds -> TaskStatus \cup {"absent"}]
         /\ \A i \in TaskIds \ {id} : SetStatus(id, s)[i] = tasks[i]
         /\ SetStatus(id, s)[id] =
              IF tasks[id] = "absent" THEN "absent" ELSE s
BY DEF SchedulerTypeOK, SetStatus

LEMMA SchedulerInitInv == SchedulerInit => SchedulerInv
BY DEF SchedulerInit, SchedulerInv, SchedulerTypeOK, UnusedIsAbsent, RunningIsRun

LEMMA SchedulerStepInv ==
  ASSUME SchedulerInv, [SchedulerNext]_schedulerVars
  PROVE  SchedulerInv'
<1>0. SchedulerTypeOK /\ UnusedIsAbsent /\ RunningIsRun
  BY DEF SchedulerInv
<1> USE <1>0, TaskIdsAreUuids DEF SchedulerInv, TaskIds
<1>1. CASE StartScheduler
  BY <1>1 DEF StartScheduler, SchedulerTypeOK, UnusedIsAbsent, RunningIsRun
<1>2. CASE Stop
  BY <1>2 DEF Stop, SchedulerTypeOK, UnusedIsAbsent, RunningIsRun
<1>3. ASSUME NEW id \in TaskIds, RegisterTask(id) PROVE SchedulerInv'
  BY <1>3 DEF RegisterTask, SchedulerTypeOK, UnusedIsAbsent, RunningIsRun, TaskStatus
<1>4. ASSUME NEW id \in TaskIds, AddJob(id) PROVE SchedulerInv'
  BY <1>4 DEF AddJob, SchedulerTypeOK, UnusedIsAbsent, RunningIsRun
<1>5. ASSUME NEW id \in TaskIds, StopEntry(id) PROVE SchedulerInv'
  <2>1. "Paused" \in TaskStatus
    BY DEF TaskStatus
  <2>2. /\ tasks' \in [TaskIds -> TaskStatus \cup {"absent"}]
        /\ \A i \in TaskIds \ {id} : tasks'[i] = tasks[i]
        /\ tasks'[id] = IF tasks[id] = "absent" THEN "absent" ELSE "Paused"
    BY <1>5, <2>1, SetStatusFacts DEF StopEntry, SchedulerTypeOK
  <2> QED
    BY <1>5, <2>2 DEF StopEntry, SchedulerTypeOK, UnusedIsAbsent, RunningIsRun
<1>6. ASSUME NEW id \in TaskIds, RemoveTask(id) PROVE SchedulerInv'
  BY <1>6 DEF RemoveTask, SchedulerTypeOK, UnusedIsAbsent, RunningIsRun
<1>7. ASSUME NEW r \in Runs, NEW id \in TaskIds, Fire(r, id) PROVE SchedulerInv'
  <2>1. "Running" \in TaskStatus
    BY DEF TaskStatus
  <2>2. /\ tasks' \in [TaskIds -> TaskStatus \cup {"absent"}]
        /\ \A i \in TaskIds \ {id} : tasks'[i] = tasks[i]
        /\ tasks'[id] = IF tasks[id] = "absent" THEN "absent" ELSE "Running"
    BY <1>7, <2>1, SetStatusFacts DEF Fire, SchedulerTypeOK
  <2>3. /\ runOf' \in [Runs -> TaskIds \cup {"idle"}]
        /\ runOf[r] = "idle" /\ runOf'[r] = id
        /\ \A s \in Runs \ {r} : runOf'[s] = runOf[s]
    BY <1>7 DEF Fire, SchedulerTypeOK
  <2>4. RunningIsRun'
    BY <1>7, <2>2, <2>3 DEF Fire, RunningIsRun
  <2> QED
    BY <1>7, <2>2, <2>3, <2>4 DEF Fire, SchedulerTypeOK, UnusedIsAbsent
<1>8. ASSUME NEW r \in Runs, RunEnds(r) PROVE SchedulerInv'
  <2>1. runOf[r] \in TaskIds /\ {"Pending", "Failed"} \subseteq TaskStatus
    BY <1>8 DEF RunEnds, TaskStatus
  <2>2. /\ tasks' \in [TaskIds -> TaskStatus \cup {"absent"}]
        /\ \A i \in TaskIds \ {runOf[r]} : tasks'[i] = tasks[i]
        /\ tasks'[runOf[r]] # "Running"
        /\ tasks[runOf[r]] = "absent" => tasks'[runOf[r]] = "absent"
    BY <1>8, <2>1, SetStatusFacts DEF RunEnds, SchedulerTypeOK
  <2>3. /\ runOf' \in [Runs -> TaskIds \cup {"idle"}]
        /\ \A s \in Runs \ {r} : runOf'[s] = runOf[s]
    BY <1>8 DEF RunEnds, SchedulerTypeOK
  <2>4. RunningIsRun'
    BY <1>8, <2>1, <2>2, <2>3 DEF RunEnds, RunningIsRun
  <2> QED
    BY <1>8, <2>1, <2>2, <2>3, <2>4 DEF RunEnds, SchedulerTypeOK, UnusedIsAbsent
<1>9. ASSUME NEW r \in Runs, RunPanics(r) PROVE SchedulerInv'
  BY <1>9 DEF RunPanics, SchedulerTypeOK, UnusedIsAbsent, RunningIsRun
<1>10. CASE UNCHANGED schedulerVars
  BY <1>10 DEF schedulerVars, SchedulerTypeOK, UnusedIsAbsent, RunningIsRun
<1> QED
  BY <1>1, <1>2, <1>3, <1>4, <1>5, <1>6, <1>7, <1>8, <1>9, <1>10 DEF SchedulerNext

\* The table and the runs are what they should be, however many runs overlap:
\* the inductive invariant the other two theorems rest on.
THEOREM SchedulerInvariant == SchedulerSpec => []SchedulerInv
<1>1. SchedulerInv /\ [SchedulerNext]_schedulerVars => SchedulerInv'
  BY SchedulerStepInv
<1> QED
  BY SchedulerInitInv, <1>1, PTL DEF SchedulerSpec

\* A task that reads Running is being run, or a run of it has panicked
\* (yma-scheduler, lines 118 to 157), for any number of runs at once.
THEOREM SchedulerRunningIsRun == SchedulerSpec => []RunningIsRun
<1>1. SchedulerInv => RunningIsRun
  BY DEF SchedulerInv
<1> QED
  BY <1>1, SchedulerInvariant, PTL

\* What one step may do to one task.
StepKeeps(id) ==
  /\ tasks[id] = "Paused" => tasks'[id] # "Pending"
  /\ tasks[id] = "absent" /\ tasks'[id] # "absent" => job[id] = "unused"
  /\ tasks[id] \notin {"Running", "absent"} /\ tasks'[id] = "Running" =>
       \E r \in Runs : runOf[r] = "idle" /\ runOf'[r] = id

LEMMA StepKeepsAll ==
  ASSUME SchedulerInv, [SchedulerNext]_schedulerVars, NEW id \in TaskIds
  PROVE  StepKeeps(id)
<1>0. SchedulerTypeOK /\ UnusedIsAbsent
  BY DEF SchedulerInv
<1> USE <1>0, TaskIdsAreUuids DEF TaskIds, TaskStatus
<1>1. CASE tasks' = tasks
  BY <1>1 DEF StepKeeps
<1>2. ASSUME NEW i \in TaskIds, RegisterTask(i) PROVE StepKeeps(id)
  BY <1>2 DEF RegisterTask, StepKeeps, SchedulerTypeOK, UnusedIsAbsent
<1>3. ASSUME NEW i \in TaskIds, StopEntry(i) PROVE StepKeeps(id)
  BY <1>3, SetStatusFacts DEF StopEntry, StepKeeps
<1>4. ASSUME NEW i \in TaskIds, RemoveTask(i) PROVE StepKeeps(id)
  BY <1>4 DEF RemoveTask, StepKeeps, SchedulerTypeOK
<1>5. ASSUME NEW r \in Runs, NEW i \in TaskIds, Fire(r, i) PROVE StepKeeps(id)
  <2>1. runOf[r] = "idle" /\ runOf'[r] = i
    BY <1>5 DEF Fire, SchedulerTypeOK
  <2>2. i # id => tasks'[id] = tasks[id]
    BY <1>5, SetStatusFacts DEF Fire
  <2>3. tasks'[i] = IF tasks[i] = "absent" THEN "absent" ELSE "Running"
    BY <1>5, SetStatusFacts DEF Fire
  <2> QED
    BY <2>1, <2>2, <2>3 DEF StepKeeps
<1>6. ASSUME NEW r \in Runs, RunEnds(r) PROVE StepKeeps(id)
  <2>1. runOf[r] \in TaskIds
    BY <1>6 DEF RunEnds
  <2> QED
    BY <1>6, <2>1, SetStatusFacts DEF RunEnds, StepKeeps
<1>7. StartScheduler \/ Stop \/ (\E i \in TaskIds : AddJob(i))
      \/ (\E r \in Runs : RunPanics(r)) \/ UNCHANGED schedulerVars => tasks' = tasks
  BY DEF StartScheduler, Stop, AddJob, RunPanics, schedulerVars
<1> QED
  BY <1>1, <1>2, <1>3, <1>4, <1>5, <1>6, <1>7 DEF SchedulerNext

\* stop only marks the tasks: a job that still fires takes its task out of Paused.
\* Nothing else does, and no run under way when stop or remove_task came puts its
\* task back (yma-scheduler, lines 118 to 157 and 265 to 285).
THEOREM SchedulerOnlyFiringResumes == SchedulerSpec => OnlyFiringResumes
<1>1. SchedulerInv /\ [SchedulerNext]_schedulerVars =>
        [\A id \in TaskIds : StepKeeps(id)]_schedulerVars
  BY StepKeepsAll
<1>2. (\A id \in TaskIds : StepKeeps(id)) =>
        \A id \in TaskIds :
          /\ tasks[id] = "Paused" /\ tasks'[id] = "Pending" => FALSE
          /\ tasks[id] = "absent" /\ tasks'[id] # "absent" => job[id] = "unused"
          /\ tasks[id] \notin {"Running", "absent"} /\ tasks'[id] = "Running" =>
               \E r \in Runs : runOf[r] = "idle" /\ runOf'[r] = id
  BY DEF StepKeeps
<1> QED
  BY SchedulerInvariant, <1>1, <1>2, PTL DEF OnlyFiringResumes, SchedulerSpec

-----------------------------------------------------------------------------
(***************************************************************************)
(* Social graph.  Every lock is given back between the steps of follow and *)
(* block.  That only a crossing of the two leaves a blocked follower needs *)
(* both halves: what a follow saw before it writes (FollowsChecked), and   *)
(* what a block took away before it writes (BlocksSever).                  *)
(***************************************************************************)
LEMMA SocialInitInv == SocialInit => SocialInv
BY DEF SocialInit, SocialInv, SocialTypeOK, BlockSeversFollowing, FollowsChecked,
       BlocksSever, CrossingsNoted, UnderWay, Following, NoSocialCall

\* A follow that is under way, and a block, by what their calls are.
LEMMA UnderWayFacts ==
  ASSUME NEW u \in SocialUsers, NEW t \in SocialUsers
  PROVE  /\ Following(u, t) <=> \E c \in SocialCalls : UnderWay(c, "following", u, t)
         /\ Blocking(u, t) <=> \E c \in SocialCalls :
              UnderWay(c, "unfollowing", u, t) \/ UnderWay(c, "blocking", u, t)
BY DEF Following, Blocking, UnderWay

\* A step of call c to where leaves the other calls where they are.
LEMMA SocialCallFacts ==
  ASSUME SocialTypeOK, NEW c \in SocialCalls, NEW where \in SocialCall \cup {NoSocialCall},
         socialCall' = [socialCall EXCEPT ![c] = where]
  PROVE  /\ socialCall' \in [SocialCalls -> SocialCall \cup {NoSocialCall}]
         /\ socialCall'[c] = where
         /\ \A d \in SocialCalls \ {c} : socialCall'[d] = socialCall[d]
BY DEF SocialTypeOK

LEMMA SocialStepInv ==
  ASSUME SocialInv, [SocialNext]_socialVars
  PROVE  SocialInv'
<1>0. /\ SocialTypeOK /\ BlockSeversFollowing /\ FollowsChecked /\ BlocksSever
      /\ CrossingsNoted
  BY DEF SocialInv
<1>1. ASSUME UNCHANGED <<followers, blocks, socialCall, crossed>>,
             users' \subseteq SocialUsers
      PROVE  SocialInv'
  BY <1>0, <1>1
  DEF SocialInv, SocialTypeOK, BlockSeversFollowing, FollowsChecked, BlocksSever,
      CrossingsNoted, UnderWay, Following, Blocking
<1>2. ASSUME NEW c \in SocialCalls, NEW u \in SocialUsers, NEW t \in SocialUsers,
             FollowBegin(c, u, t)
      PROVE  SocialInv'
  <2>1. [at |-> "following", user |-> u, target |-> t] \in SocialCall
    BY DEF SocialCall
  <2>2. /\ socialCall' \in [SocialCalls -> SocialCall \cup {NoSocialCall}]
        /\ socialCall'[c] = [at |-> "following", user |-> u, target |-> t]
        /\ \A d \in SocialCalls \ {c} : socialCall'[d] = socialCall[d]
        /\ u \notin blocks[t]
        /\ crossed \subseteq crossed' /\ crossed' \subseteq crossed \cup {<<u, t>>}
        /\ Blocking(t, u) => <<u, t>> \in crossed'
        /\ UNCHANGED <<followers, blocks, users>>
    BY <1>0, <1>2, <2>1, SocialCallFacts DEF FollowBegin, MayFollow
  <2>3. SocialTypeOK'
    BY <1>0, <2>2 DEF SocialTypeOK
  <2>4. BlockSeversFollowing'
    BY <1>0, <2>2 DEF BlockSeversFollowing
  <2>5. FollowsChecked'
    BY <1>0, <2>2 DEF FollowsChecked, UnderWay
  <2>6. BlocksSever'
    BY <1>0, <2>2 DEF BlocksSever, UnderWay
  <2>7. \A v, w \in SocialUsers :
          /\ Blocking(v, w)' => Blocking(v, w)
          /\ Following(v, w)' => Following(v, w) \/ (v = u /\ w = t)
    BY <2>2, UnderWayFacts DEF Following, Blocking
  <2>8. CrossingsNoted'
    BY <1>0, <2>2, <2>7 DEF CrossingsNoted
  <2> QED
    BY <2>3, <2>4, <2>5, <2>6, <2>8 DEF SocialInv
<1>3. ASSUME NEW c \in SocialCalls, FollowFinish(c) PROVE SocialInv'
  <2> DEFINE u == socialCall[c].user
             t == socialCall[c].target
  <2>1. /\ u \in SocialUsers /\ t \in SocialUsers
        /\ UnderWay(c, "following", u, t)
    BY <1>0, <1>3
    DEF FollowFinish, SocialTypeOK, SocialCall, NoSocialCall, UnderWay
  <2>2. /\ socialCall' \in [SocialCalls -> SocialCall \cup {NoSocialCall}]
        /\ socialCall'[c] = NoSocialCall
        /\ \A d \in SocialCalls \ {c} : socialCall'[d] = socialCall[d]
        /\ followers' = [followers EXCEPT ![u] = followers[u] \cup {t}]
        /\ UNCHANGED <<blocks, users, crossed>>
    BY <1>0, <1>3, SocialCallFacts DEF FollowFinish
  <2>3. u \in blocks[t] => <<u, t>> \in crossed
    BY <1>0, <2>1 DEF FollowsChecked
  <2>4. Blocking(t, u) => <<u, t>> \in crossed
    BY <1>0, <2>1, UnderWayFacts DEF CrossingsNoted
  <2> HIDE DEF u, t
  <2>5. SocialTypeOK'
    BY <1>0, <2>1, <2>2 DEF SocialTypeOK
  <2>6. \A v, w \in SocialUsers : w \in followers'[v] =>
          w \in followers[v] \/ (v = u /\ w = t)
    BY <1>0, <2>1, <2>2 DEF SocialTypeOK
  <2>7. \A d \in SocialCalls, at \in {"following", "unfollowing", "blocking"} :
          \A v, w \in SocialUsers : UnderWay(d, at, v, w)' => UnderWay(d, at, v, w)
    BY <2>2 DEF UnderWay, NoSocialCall
  <2>8. BlockSeversFollowing'
    BY <1>0, <2>2, <2>3, <2>6 DEF BlockSeversFollowing
  <2>9. FollowsChecked'
    BY <1>0, <2>2, <2>7 DEF FollowsChecked
  <2>10. BlocksSever'
    BY <1>0, <2>1, <2>2, <2>4, <2>6, <2>7, UnderWayFacts DEF BlocksSever
  <2>11. CrossingsNoted'
    BY <1>0, <2>2 DEF CrossingsNoted, Following, Blocking, NoSocialCall
  <2> QED
    BY <2>5, <2>8, <2>9, <2>10, <2>11 DEF SocialInv
<1>4. ASSUME NEW c \in SocialCalls, NEW u \in SocialUsers, NEW t \in SocialUsers,
             Unfollow(c, u, t)
      PROVE  SocialInv'
  <2>1. /\ followers' \in [SocialUsers -> SUBSET SocialUsers]
        /\ \A v \in SocialUsers : followers'[v] \subseteq followers[v]
        /\ UNCHANGED <<blocks, users, socialCall, crossed>>
    BY <1>0, <1>4 DEF Unfollow, Without, SocialTypeOK
  <2> QED
    BY <1>0, <2>1
    DEF SocialInv, SocialTypeOK, BlockSeversFollowing, FollowsChecked, BlocksSever,
        CrossingsNoted, UnderWay, Following, Blocking
<1>5. ASSUME NEW c \in SocialCalls, NEW u \in SocialUsers, NEW t \in SocialUsers,
             BlockBegin(c, u, t)
      PROVE  SocialInv'
  <2>1. [at |-> "unfollowing", user |-> u, target |-> t] \in SocialCall
    BY DEF SocialCall
  <2>2. /\ socialCall' \in [SocialCalls -> SocialCall \cup {NoSocialCall}]
        /\ socialCall'[c] = [at |-> "unfollowing", user |-> u, target |-> t]
        /\ \A d \in SocialCalls \ {c} : socialCall'[d] = socialCall[d]
        /\ crossed \subseteq crossed' /\ crossed' \subseteq crossed \cup {<<t, u>>}
        /\ Following(t, u) => <<t, u>> \in crossed'
        /\ UNCHANGED <<blocks, users>>
    BY <1>0, <1>5, <2>1, SocialCallFacts DEF BlockBegin
  <2>3. /\ followers' \in [SocialUsers -> SUBSET SocialUsers]
        /\ \A v \in SocialUsers : followers'[v] \subseteq followers[v]
    BY <1>0, <1>5 DEF BlockBegin, Without, SocialTypeOK
  <2>4. SocialTypeOK'
    BY <1>0, <2>2, <2>3 DEF SocialTypeOK
  <2>5. BlockSeversFollowing'
    BY <1>0, <2>2, <2>3 DEF BlockSeversFollowing
  <2>6. FollowsChecked'
    BY <1>0, <2>2 DEF FollowsChecked, UnderWay
  <2>7. BlocksSever'
    BY <1>0, <2>2, <2>3 DEF BlocksSever, UnderWay
  <2>8. \A v, w \in SocialUsers :
          /\ Blocking(v, w)' => Blocking(v, w) \/ (v = u /\ w = t)
          /\ Following(v, w)' => Following(v, w)
    BY <2>2 DEF Following, Blocking
  <2>9. CrossingsNoted'
    BY <1>0, <2>2, <2>8 DEF CrossingsNoted
  <2> QED
    BY <2>4, <2>5, <2>6, <2>7, <2>9 DEF SocialInv
<1>6. ASSUME NEW c \in SocialCalls, BlockUnfollowed(c) PROVE SocialInv'
  <2> DEFINE u == socialCall[c].user
             t == socialCall[c].target
             next == [at |-> "blocking", user |-> u, target |-> t]
  <2>1. /\ u \in SocialUsers /\ t \in SocialUsers
        /\ socialCall[c] = [at |-> "unfollowing", user |-> u, target |-> t]
    BY <1>0, <1>6 DEF BlockUnfollowed, SocialTypeOK, SocialCall, NoSocialCall
  <2>2. next \in SocialCall /\ [socialCall[c] EXCEPT !.at = "blocking"] = next
    BY <2>1 DEF SocialCall
  <2>3. socialCall' = [socialCall EXCEPT ![c] = [socialCall[c] EXCEPT !.at = "blocking"]]
    BY <1>6 DEF BlockUnfollowed
  <2>4. /\ socialCall' \in [SocialCalls -> SocialCall \cup {NoSocialCall}]
        /\ socialCall'[c] = next
        /\ \A d \in SocialCalls \ {c} : socialCall'[d] = socialCall[d]
    BY <1>0, <2>2, <2>3, SocialCallFacts
  <2>5. followers' = [followers EXCEPT ![t] = followers[t] \ {u}]
        /\ UNCHANGED <<blocks, users, crossed>>
    BY <1>6 DEF BlockUnfollowed, Without
  <2> HIDE DEF u, t
  <2>6. /\ followers' \in [SocialUsers -> SUBSET SocialUsers]
        /\ \A v \in SocialUsers : followers'[v] \subseteq followers[v]
        /\ u \notin followers'[t]
    BY <1>0, <2>1, <2>5 DEF SocialTypeOK
  <2>7. SocialTypeOK'
    BY <1>0, <2>4, <2>5, <2>6 DEF SocialTypeOK
  <2>8. BlockSeversFollowing'
    BY <1>0, <2>5, <2>6 DEF BlockSeversFollowing
  <2>9. FollowsChecked'
    BY <1>0, <2>4, <2>5 DEF FollowsChecked, UnderWay
  <2>10. BlocksSever'
    BY <1>0, <2>4, <2>5, <2>6 DEF BlocksSever, UnderWay
  <2>11. \A v, w \in SocialUsers :
           (Blocking(v, w)' => Blocking(v, w)) /\ (Following(v, w)' => Following(v, w))
    BY <2>1, <2>4 DEF Following, Blocking
  <2>12. CrossingsNoted'
    BY <1>0, <2>5, <2>11 DEF CrossingsNoted
  <2> QED
    BY <2>7, <2>8, <2>9, <2>10, <2>12 DEF SocialInv
<1>7. ASSUME NEW c \in SocialCalls, BlockFinish(c) PROVE SocialInv'
  <2> DEFINE u == socialCall[c].user
             t == socialCall[c].target
  <2>1. /\ u \in SocialUsers /\ t \in SocialUsers
        /\ UnderWay(c, "blocking", u, t)
    BY <1>0, <1>7
    DEF BlockFinish, SocialTypeOK, SocialCall, NoSocialCall, UnderWay
  <2>2. /\ socialCall' \in [SocialCalls -> SocialCall \cup {NoSocialCall}]
        /\ socialCall'[c] = NoSocialCall
        /\ \A d \in SocialCalls \ {c} : socialCall'[d] = socialCall[d]
        /\ blocks' = [blocks EXCEPT ![u] = blocks[u] \cup {t}]
        /\ UNCHANGED <<followers, users, crossed>>
    BY <1>0, <1>7, SocialCallFacts DEF BlockFinish
  <2>3. u \in followers[t] => <<t, u>> \in crossed
    BY <1>0, <2>1 DEF BlocksSever
  <2>4. Following(t, u) => <<t, u>> \in crossed
    BY <1>0, <2>1, UnderWayFacts DEF CrossingsNoted
  <2> HIDE DEF u, t
  <2>5. SocialTypeOK'
    BY <1>0, <2>1, <2>2 DEF SocialTypeOK
  <2>6. \A v, w \in SocialUsers : w \in blocks'[v] =>
          w \in blocks[v] \/ (v = u /\ w = t)
    BY <1>0, <2>1, <2>2 DEF SocialTypeOK
  <2>7. \A d \in SocialCalls, at \in {"following", "unfollowing", "blocking"} :
          \A v, w \in SocialUsers : UnderWay(d, at, v, w)' => UnderWay(d, at, v, w)
    BY <2>2 DEF UnderWay, NoSocialCall
  <2>8. BlockSeversFollowing'
    BY <1>0, <2>2, <2>3, <2>6 DEF BlockSeversFollowing
  <2>9. FollowsChecked'
    BY <1>0, <2>1, <2>2, <2>4, <2>6, <2>7, UnderWayFacts DEF FollowsChecked
  <2>10. BlocksSever'
    BY <1>0, <2>2, <2>7 DEF BlocksSever
  <2>11. CrossingsNoted'
    BY <1>0, <2>2 DEF CrossingsNoted, Following, Blocking, NoSocialCall
  <2> QED
    BY <2>5, <2>8, <2>9, <2>10, <2>11 DEF SocialInv
<1>8. ASSUME NEW c \in SocialCalls, NEW u \in SocialUsers, NEW t \in SocialUsers,
             Unblock(c, u, t)
      PROVE  SocialInv'
  <2>1. /\ blocks' \in [SocialUsers -> SUBSET SocialUsers]
        /\ \A v \in SocialUsers : blocks'[v] \subseteq blocks[v]
        /\ UNCHANGED <<followers, users, socialCall, crossed>>
    BY <1>0, <1>8 DEF Unblock, SocialTypeOK
  <2> QED
    BY <1>0, <2>1
    DEF SocialInv, SocialTypeOK, BlockSeversFollowing, FollowsChecked, BlocksSever,
        CrossingsNoted, UnderWay, Following, Blocking
<1>9. ASSUME NEW u \in SocialUsers, RegisterUser(u) PROVE SocialInv'
  BY <1>0, <1>1, <1>9 DEF RegisterUser, SocialTypeOK
<1>10. CASE UNCHANGED socialVars
  BY <1>0, <1>1, <1>10 DEF socialVars, SocialTypeOK
<1> QED
  BY <1>2, <1>3, <1>4, <1>5, <1>6, <1>7, <1>8, <1>9, <1>10 DEF SocialNext

\* The social graph's inductive invariant: every way a follow and a block of
\* one pair can overlap is accounted for.
THEOREM SocialInvariant == SocialSpec => []SocialInv
<1>1. SocialInv /\ [SocialNext]_socialVars => SocialInv'
  BY SocialStepInv
<1> QED
  BY SocialInitInv, <1>1, PTL DEF SocialSpec

\* However many calls overlap, a blocked user follows the one who blocks only
\* if the follow and the block were under way together (yma-social, block and
\* follow).
THEOREM SocialBlockSevers == SocialSpec => []BlockSeversFollowing
<1>1. SocialInv => BlockSeversFollowing
  BY DEF SocialInv
<1> QED
  BY <1>1, SocialInvariant, PTL

-----------------------------------------------------------------------------
(***************************************************************************)
(* Redis pool.  set_nx answers that a lock is taken although the key was   *)
(* there before only when its time to live is over; a client that may      *)
(* still rely on its lock therefore keeps every other one out              *)
(* (LocksAreBacked), whichever replies are lost.                           *)
(***************************************************************************)
LEMMA RedisInitInv == RedisInit => RedisInv
BY RedisAssumption
DEF RedisInit, RedisInv, RedisTypeOK, LocksAreBacked, Relies, NoValue, NoLock

\* Two clients never rely on one key.
LEMMA OneRelies ==
  ASSUME LocksAreBacked, NEW c \in LockClients, NEW d \in LockClients,
         NEW k \in LockKeys, Relies(c, k), Relies(d, k)
  PROVE  c = d
BY DEF LocksAreBacked

\* A key somebody relies on exists.
LEMMA ReliedOnExists ==
  ASSUME RedisInv, NEW c \in LockClients, NEW k \in LockKeys, Relies(c, k)
  PROVE  Exists(k)
<1>1. /\ redis[k].value = c
      /\ redis[k].expires = NoExpiry \/ redis[k].expires >= client[c].until
      /\ redisTime < client[c].until
  BY DEF RedisInv, LocksAreBacked, Relies
<1>2. redis[k].expires \in Int /\ redisTime \in Int /\ client[c].until \in Int
  BY RedisAssumption DEF RedisInv, RedisTypeOK
<1>3. redis[k] # NoValue
  BY <1>1, RedisAssumption DEF NoValue
<1> QED
  BY <1>1, <1>2, <1>3 DEF Exists

\* set_nx by c, key by key.
LEMMA SetNxFacts ==
  ASSUME RedisTypeOK, NEW c \in LockClients, NEW k \in LockKeys, NEW ttl \in LockTtls,
         redis' = SetNxCmd(k, c, ttl)
  PROVE  /\ redis' \in [LockKeys -> [value : LockClients \cup {"none"}, expires : Int]]
         /\ Exists(k) => redis' = redis
         /\ ~Exists(k) => redis'[k].value = c /\ redis'[k].expires = ExpiryOf(ttl)
         /\ \A x \in LockKeys \ {k} : redis'[x] = redis[x]
<1>1. ExpiryOf(ttl) \in Int
  BY RedisAssumption DEF ExpiryOf, NoExpiry, RedisTypeOK
<1> QED
  BY <1>1 DEF RedisTypeOK, SetNxCmd, SetCmd

\* What a client becomes, field by field.
LEMMA ClientFacts ==
  ASSUME RedisTypeOK, NEW c \in LockClients, NEW k \in LockKeys \cup {NoLock},
         NEW until \in Nat
  PROVE  /\ [client[c] EXCEPT !.lock = k, !.until = until] \in
              [pool : {"none", "connected"}, attempts : 0 .. RetryAttempts,
               lock : LockKeys \cup {NoLock}, until : Nat]
         /\ [client[c] EXCEPT !.lock = k, !.until = until].lock = k
         /\ [client[c] EXCEPT !.lock = k, !.until = until].until = until
BY DEF RedisTypeOK

LEMMA RedisStepInv ==
  ASSUME RedisInv, [RedisNext]_redisVars
  PROVE  RedisInv'
<1>0. RedisTypeOK /\ LocksAreBacked
  BY DEF RedisInv
<1>1. CASE RedisTick
  <2>1. /\ UNCHANGED <<redis, client, late>> /\ redisTime' = redisTime + 1
        /\ redisTime' \in 0 .. MaxRedisTime
    BY <1>0, <1>1, RedisAssumption DEF RedisTick, RedisTypeOK
  <2>2. RedisTypeOK'
    BY <1>0, <2>1 DEF RedisTypeOK
  <2>3. \A c \in LockClients, k \in LockKeys : Relies(c, k)' => Relies(c, k)
    BY <1>0, <2>1, RedisAssumption DEF Relies, RedisTypeOK
  <2> QED
    BY <1>0, <2>1, <2>2, <2>3 DEF RedisInv, LocksAreBacked
<1>2. ASSUME NEW c \in LockClients, ConnectTry(c) PROVE RedisInv'
  <2> PICK pool \in {"none", "connected"} :
           client' = [client EXCEPT ![c].pool = pool, ![c].attempts = @ + 1]
    BY <1>2 DEF ConnectTry
  <2> DEFINE next == [client[c] EXCEPT !.pool = pool, !.attempts = client[c].attempts + 1]
  <2>1. client' = [client EXCEPT ![c] = next]
    BY <1>0 DEF RedisTypeOK
  <2>2. /\ next \in [pool : {"none", "connected"}, attempts : 0 .. RetryAttempts,
                     lock : LockKeys \cup {NoLock}, until : Nat]
        /\ next.lock = client[c].lock /\ next.until = client[c].until
    BY <1>0, <1>2, RedisAssumption DEF RedisTypeOK, ConnectTry
  <2> HIDE DEF next
  <2>3. /\ UNCHANGED <<redis, redisTime, late>>
        /\ \A d \in LockClients : /\ client'[d].lock = client[d].lock
                                  /\ client'[d].until = client[d].until
    BY <1>0, <1>2, <2>1, <2>2 DEF ConnectTry, RedisTypeOK
  <2>4. RedisTypeOK'
    BY <1>0, <2>1, <2>2, <2>3 DEF RedisTypeOK
  <2> QED
    <3>1. \A d \in LockClients, k \in LockKeys : Relies(d, k)' <=> Relies(d, k)
      BY <2>3 DEF Relies
    <3>2. LocksAreBacked'
      BY <1>0, <2>3, <3>1 DEF LocksAreBacked
    <3> QED
      BY <2>4, <3>2 DEF RedisInv
<1>3. ASSUME NEW c \in LockClients, GiveBack(c) PROVE RedisInv'
  <2> DEFINE k == client[c].lock
             next == [client[c] EXCEPT !.lock = NoLock]
  <2>1. /\ k \in LockKeys
        /\ redis' = [redis EXCEPT ![k] = NoValue]
        /\ client' = [client EXCEPT ![c] = next]
        /\ late' = IF redisTime >= client[c].until THEN late \cup {k} ELSE late
        /\ redisTime' = redisTime
    BY <1>0, <1>3 DEF GiveBack, DelCmd, RedisTypeOK
  <2>2. next \in [pool : {"none", "connected"}, attempts : 0 .. RetryAttempts,
                  lock : LockKeys \cup {NoLock}, until : Nat]
    BY <1>0 DEF RedisTypeOK
  <2>3. /\ next.lock = NoLock /\ NoLock \notin LockKeys
        /\ NoValue \in [value : LockClients \cup {"none"}, expires : Int]
    BY <1>0, RedisAssumption DEF RedisTypeOK, NoLock, NoValue
  <2>4. Relies(c, k) \/ k \in late'
    BY <1>0, <2>1, RedisAssumption DEF Relies, RedisTypeOK
  <2> HIDE DEF k, next
  <2>5. RedisTypeOK'
    BY <1>0, <2>1, <2>2, <2>3 DEF RedisTypeOK
  <2>6. ASSUME NEW d \in LockClients, NEW x \in LockKeys, Relies(d, x)'
        PROVE  /\ redis'[x].value = d
               /\ redis'[x].expires = NoExpiry \/ redis'[x].expires >= client'[d].until
    <3>1. d # c /\ Relies(d, x) /\ x \notin late'
      BY <1>0, <2>1, <2>3, <2>6 DEF Relies, RedisTypeOK
    <3>2. x # k
      BY <1>0, <2>1, <2>4, <3>1, OneRelies
    <3> QED
      BY <1>0, <2>1, <3>1, <3>2 DEF LocksAreBacked, RedisTypeOK
  <2> QED
    BY <2>5, <2>6 DEF RedisInv, LocksAreBacked
<1>4. ASSUME NEW c \in LockClients, NEW ttl \in LockTtls, Extend(c, ttl)
      PROVE  RedisInv'
  <2> DEFINE k == client[c].lock
             until == redisTime + ttl
             entry == [redis[k] EXCEPT !.expires = until]
             next == [client[c] EXCEPT !.until = until]
  <2>1. /\ k \in LockKeys /\ until \in Nat /\ redisTime < client[c].until
        /\ redis' = IF Exists(k) THEN [redis EXCEPT ![k] = entry] ELSE redis
        /\ client' = [client EXCEPT ![c] = next]
        /\ UNCHANGED <<redisTime, late>>
    BY <1>0, <1>4, RedisAssumption DEF Extend, ExpireCmd, RedisTypeOK
  <2>2. /\ next \in [pool : {"none", "connected"}, attempts : 0 .. RetryAttempts,
                     lock : LockKeys \cup {NoLock}, until : Nat]
        /\ next.lock = k /\ next.until = until
    BY <1>0, <2>1 DEF RedisTypeOK
  <2>3. /\ entry \in [value : LockClients \cup {"none"}, expires : Int]
        /\ entry.value = redis[k].value /\ entry.expires = until
    <3>1. redis[k] \in [value : LockClients \cup {"none"}, expires : Int]
      BY <1>0, <2>1 DEF RedisTypeOK
    <3>2. until \in Int
      BY <2>1
    <3> HIDE DEF until
    <3> QED
      BY <3>1, <3>2
  <2>4. NoLock \notin LockKeys /\ until \in Int
    BY <2>1, RedisAssumption DEF NoLock
  <2>5. k \notin late => Relies(c, k) /\ Exists(k) /\ redis[k].value = c
    BY <1>0, <2>1, ReliedOnExists DEF Relies, LocksAreBacked, RedisInv
  <2> HIDE DEF k, until, entry, next
  <2>6. RedisTypeOK'
    BY <1>0, <2>1, <2>2, <2>3 DEF RedisTypeOK
  <2>7. ASSUME NEW d \in LockClients, NEW x \in LockKeys, Relies(d, x)'
        PROVE  /\ redis'[x].value = d
               /\ redis'[x].expires = NoExpiry \/ redis'[x].expires >= client'[d].until
    <3>1. CASE d = c
      <4>1. x = k /\ k \notin late
        BY <1>0, <2>1, <2>2, <2>7, <3>1 DEF Relies, RedisTypeOK
      <4>2. redis'[x] = entry /\ client'[d].until = until
        BY <1>0, <2>1, <2>2, <2>5, <3>1, <4>1 DEF RedisTypeOK
      <4> QED
        BY <2>3, <2>4, <2>5, <3>1, <4>1, <4>2
    <3>2. CASE d # c
      <4>1. Relies(d, x) /\ x \notin late /\ client'[d] = client[d]
        BY <1>0, <2>1, <2>7, <3>2 DEF Relies, RedisTypeOK
      <4>2. x # k
        BY <1>0, <2>5, <3>2, <4>1, OneRelies
      <4> QED
        BY <1>0, <2>1, <4>1, <4>2 DEF LocksAreBacked, RedisTypeOK
    <3> QED
      BY <3>1, <3>2
  <2> QED
    BY <2>6, <2>7 DEF RedisInv, LocksAreBacked
<1>5. ASSUME NEW c \in LockClients, NEW k \in LockKeys, NEW ttl \in LockTtls,
             TakeLock(c, k, ttl)
      PROVE  RedisInv'
  <2> DEFINE next == [client[c] EXCEPT !.lock = k, !.until = Until(ttl)]
  <2>1. /\ redis' \in [LockKeys -> [value : LockClients \cup {"none"}, expires : Int]]
        /\ Exists(k) => redis' = redis
        /\ ~Exists(k) => redis'[k].value = c /\ redis'[k].expires = ExpiryOf(ttl)
        /\ \A x \in LockKeys \ {k} : redis'[x] = redis[x]
    BY <1>0, <1>5, SetNxFacts DEF TakeLock
  <2>2. /\ Until(ttl) \in Nat
        /\ ExpiryOf(ttl) = NoExpiry \/ ExpiryOf(ttl) = Until(ttl)
    BY <1>0, RedisAssumption DEF Until, ExpiryOf, RedisTypeOK
  <2>3. /\ next \in [pool : {"none", "connected"}, attempts : 0 .. RetryAttempts,
                     lock : LockKeys \cup {NoLock}, until : Nat]
        /\ next.lock = k /\ next.until = Until(ttl)
    BY <1>0, <2>2, ClientFacts
  <2>4. /\ client' = IF Exists(k) THEN client ELSE [client EXCEPT ![c] = next]
        /\ UNCHANGED <<redisTime, late>>
    BY <1>0, <1>5 DEF TakeLock, RedisTypeOK
  <2> HIDE DEF next
  <2>5. RedisTypeOK'
    BY <1>0, <2>1, <2>3, <2>4 DEF RedisTypeOK
  <2>6. CASE Exists(k)
    BY <1>0, <2>1, <2>4, <2>5, <2>6 DEF RedisInv, LocksAreBacked, Relies
  <2>7. CASE ~Exists(k)
    <3>1. ASSUME NEW d \in LockClients, NEW x \in LockKeys, Relies(d, x)'
          PROVE  /\ redis'[x].value = d
                 /\ redis'[x].expires = NoExpiry \/ redis'[x].expires >= client'[d].until
      <4>1. CASE d = c
        <5>1. x = k /\ client'[d].until = Until(ttl)
          BY <1>0, <2>3, <2>4, <2>7, <3>1, <4>1 DEF Relies, RedisTypeOK
        <5> QED
          BY <2>1, <2>2, <2>7, <4>1, <5>1
      <4>2. CASE d # c
        <5>1. Relies(d, x) /\ client'[d] = client[d]
          BY <1>0, <2>4, <2>7, <3>1, <4>2 DEF Relies, RedisTypeOK
        <5>2. x # k
          BY <2>7, <5>1, ReliedOnExists
        <5> QED
          BY <1>0, <2>1, <5>1, <5>2 DEF LocksAreBacked
      <4> QED
        BY <4>1, <4>2
    <3> QED
      BY <2>5, <3>1 DEF RedisInv, LocksAreBacked
  <2> QED
    BY <2>6, <2>7
<1>6. ASSUME NEW c \in LockClients, NEW k \in LockKeys, NEW ttl \in LockTtls,
             TakeLockLost(c, k, ttl)
      PROVE  RedisInv'
  <2>1. /\ redis' \in [LockKeys -> [value : LockClients \cup {"none"}, expires : Int]]
        /\ Exists(k) => redis' = redis
        /\ \A x \in LockKeys \ {k} : redis'[x] = redis[x]
    BY <1>0, <1>6, SetNxFacts DEF TakeLockLost
  <2>2. UNCHANGED <<client, redisTime, late>>
    BY <1>6 DEF TakeLockLost
  <2>3. RedisTypeOK'
    BY <1>0, <2>1, <2>2 DEF RedisTypeOK
  <2>4. ASSUME NEW d \in LockClients, NEW x \in LockKeys, Relies(d, x)'
        PROVE  redis'[x] = redis[x] /\ Relies(d, x)
    <3>1. Relies(d, x)
      BY <2>2, <2>4 DEF Relies
    <3>2. Exists(x)
      BY <3>1, ReliedOnExists
    <3> QED
      BY <2>1, <3>1, <3>2
  <2> QED
    BY <1>0, <2>2, <2>3, <2>4 DEF RedisInv, LocksAreBacked
<1>7. CASE UNCHANGED redisVars
  BY <1>0, <1>7 DEF redisVars, RedisInv, RedisTypeOK, LocksAreBacked, Relies
<1> QED
  BY <1>1, <1>2, <1>3, <1>4, <1>5, <1>6, <1>7 DEF RedisNext

\* A client that may rely on its lock finds the key there and its own.
THEOREM RedisInvariant == RedisSpec => []RedisInv
<1>1. RedisInv /\ [RedisNext]_redisVars => RedisInv'
  BY RedisStepInv
<1> QED
  BY RedisInitInv, <1>1, PTL DEF RedisSpec

\* The lock set_nx gives is one client's at a time while its time to live
\* lasts, with any times to live, lost replies and extensions; a key that a
\* late client has deleted is left out (yma-redis-pool, set_nx, expire, del).
THEOREM RedisLockIsExclusive == RedisSpec => []LockIsExclusive
<1>1. RedisInv => LockIsExclusive
  <2> SUFFICES ASSUME RedisInv PROVE LockIsExclusive
    OBVIOUS
  <2>1. \A c \in LockClients :
          /\ client[c].lock # NoLock => client[c].lock \in LockKeys
          /\ client[c].until \in Int /\ redisTime \in Int
    BY RedisAssumption DEF RedisInv, RedisTypeOK
  <2>2. \A c, d \in LockClients, k \in LockKeys :
          /\ Relies(c, k) => redis[k].value = c
          /\ Relies(c, k) /\ Relies(d, k) => c = d
    BY OneRelies DEF RedisInv, LocksAreBacked
  <2> QED
    BY <2>1, <2>2 DEF LockIsExclusive, Relies
<1> QED
  BY <1>1, RedisInvariant, PTL

-----------------------------------------------------------------------------
(***************************************************************************)
(* Rate limiter.  A rule judges a request by the count of the client, to   *)
(* which the requests of all its rules are added.  That no rule admits     *)
(* more than it allows rests on AdmittedWereMade: what a rule admitted is  *)
(* at most the count it is compared with.                                  *)
(***************************************************************************)
\* Neither number of a rule is below 1.
LEMMA RulesArePositive ==
  ASSUME NEW r \in Rules
  PROVE  r.max_requests \in Nat \ {0} /\ r.window_secs \in Nat \ {0}
<1>1. \A asked \in AskedRule :
        /\ NewRule(asked).max_requests \in Nat \ {0}
        /\ NewRule(asked).window_secs \in Nat \ {0}
  BY DEF AskedRule, NewRule, AtLeastOne
<1>2. PICK e \in Endpoints : r \in RulesFor(e)
  BY DEF Rules
<1>3. \E asked \in AskedRule : r = NewRule(asked)
  BY <1>2, LimiterConstants DEF RulesFor
<1> QED
  BY <1>1, <1>3

Judgement == [made : 0..MaxChecks, refused : [Rules -> BOOLEAN],
              admitted : [Rules -> 0..MaxChecks]]

Window == [count : 0..MaxChecks, kept : BOOLEAN, window_start : 0..MaxLimiterTime]

Counting == [at : {"counting"}, key : Clients, rule : Rules, now : 0..MaxLimiterTime]

LEMMA NothingJudgedFacts ==
  /\ NothingJudged \in Judgement
  /\ NothingJudged.made = 0
  /\ \A r \in Rules : NothingJudged.admitted[r] = 0 /\ ~NothingJudged.refused[r]
BY LimiterConstants DEF NothingJudged, Judgement

\* One more request: the rule it was judged by, and the other rules.
LEMMA JudgedNowFacts ==
  ASSUME NEW past \in Judgement, NEW rule \in Rules, NEW yes \in BOOLEAN,
         past.made < MaxChecks,
         past.admitted[rule] <= past.made
  PROVE  /\ JudgedNow(past, rule, yes) \in Judgement
         /\ JudgedNow(past, rule, yes).made = past.made + 1
         /\ JudgedNow(past, rule, yes).admitted[rule] =
              IF yes THEN past.admitted[rule] + 1 ELSE past.admitted[rule]
         /\ JudgedNow(past, rule, yes).refused[rule] = (past.refused[rule] \/ ~yes)
         /\ \A r \in Rules \ {rule} :
              /\ JudgedNow(past, rule, yes).admitted[r] = past.admitted[r]
              /\ JudgedNow(past, rule, yes).refused[r] = past.refused[r]
<1> DEFINE granted == IF yes THEN [past.admitted EXCEPT ![rule] = past.admitted[rule] + 1]
                      ELSE past.admitted
           denied == [past.refused EXCEPT ![rule] = past.refused[rule] \/ ~yes]
<1>1. /\ past.made \in 0..MaxChecks /\ past.admitted \in [Rules -> 0..MaxChecks]
      /\ past.refused \in [Rules -> BOOLEAN] /\ MaxChecks \in Nat
  BY LimiterConstants DEF Judgement
<1>2. /\ granted \in [Rules -> 0..MaxChecks]
      /\ granted[rule] = IF yes THEN past.admitted[rule] + 1 ELSE past.admitted[rule]
      /\ \A r \in Rules \ {rule} : granted[r] = past.admitted[r]
  <2>1. past.admitted[rule] + 1 \in 0..MaxChecks
    BY <1>1
  <2> QED
    BY <1>1, <2>1
<1>3. /\ denied \in [Rules -> BOOLEAN]
      /\ denied[rule] = (past.refused[rule] \/ ~yes)
      /\ \A r \in Rules \ {rule} : denied[r] = past.refused[r]
  BY <1>1
<1>4. JudgedNow(past, rule, yes) =
        [made |-> past.made + 1, admitted |-> granted, refused |-> denied]
  BY DEF JudgedNow
<1>5. past.made + 1 \in 0..MaxChecks
  BY <1>1
<1> HIDE DEF granted, denied
<1> QED
  BY <1>2, <1>3, <1>4, <1>5 DEF Judgement

\* The first request of a new window is admitted.
LEMMA FirstJudgedFacts ==
  ASSUME NEW rule \in Rules
  PROVE  LET first == JudgedNow(NothingJudged, rule, TRUE) IN
           /\ first \in Judgement /\ first.made = 1 /\ first.admitted[rule] = 1
           /\ \A r \in Rules : first.admitted[r] \in {0, 1} /\ ~first.refused[r]
<1>1. /\ NothingJudged \in Judgement /\ NothingJudged.made < MaxChecks
      /\ NothingJudged.admitted[rule] <= NothingJudged.made
      /\ NothingJudged.made = 0
      /\ \A r \in Rules : NothingJudged.admitted[r] = 0 /\ ~NothingJudged.refused[r]
  BY NothingJudgedFacts, LimiterConstants
<1> DEFINE first == JudgedNow(NothingJudged, rule, TRUE)
<1>2. /\ first \in Judgement
      /\ first.made = 0 + 1
      /\ first.admitted[rule] = 0 + 1
      /\ first.refused[rule] = FALSE
      /\ \A r \in Rules \ {rule} : first.admitted[r] = 0 /\ ~first.refused[r]
  <2>1. /\ first \in Judgement
        /\ first.made = NothingJudged.made + 1
        /\ first.admitted[rule] = IF TRUE THEN NothingJudged.admitted[rule] + 1
                                   ELSE NothingJudged.admitted[rule]
        /\ first.refused[rule] = (NothingJudged.refused[rule] \/ ~TRUE)
        /\ \A r \in Rules \ {rule} :
              /\ first.admitted[r] = NothingJudged.admitted[r]
              /\ first.refused[r] = NothingJudged.refused[r]
    BY <1>1, JudgedNowFacts
  <2> QED
    BY <1>1, <2>1
<1> HIDE DEF first
<1>3. /\ first.made = 1 /\ first.admitted[rule] = 1
      /\ \A r \in Rules : first.admitted[r] \in {0, 1} /\ ~first.refused[r]
  BY <1>2
<1> QED
  BY <1>2, <1>3 DEF first

LEMMA LimiterTypes ==
  LimiterTypeOK <=>
    /\ windows \in [Clients -> Window]
    /\ limiterNow \in 0..MaxLimiterTime
    /\ checking \in [LimiterTasks -> {NotChecking} \cup Counting]
    /\ judged \in [Clients -> Judgement]
BY DEF LimiterTypeOK, Window, Counting, Judgement

LEMMA LimiterInitInv == LimiterInit => LimiterInv
<1> SUFFICES ASSUME LimiterInit PROVE LimiterInv
  OBVIOUS
<1>1. /\ \A k \in Clients : judged[k] = NothingJudged /\ windows[k] = NoRecord
      /\ \A t \in LimiterTasks : checking[t] = NotChecking
  BY DEF LimiterInit
<1>2. NoRecord \in Window /\ NoRecord.count = 0 /\ ~NoRecord.kept
  BY LimiterConstants DEF NoRecord, Window
<1>3. LimiterTypeOK
  BY <1>2, NothingJudgedFacts, LimiterTypes, LimiterConstants DEF LimiterInit
<1>4. WindowsHold
  <2>1. DOMAIN NothingJudged.admitted = Rules
    BY NothingJudgedFacts DEF Judgement
  <2> QED
    BY <1>1, <1>2, <2>1, NothingJudgedFacts, RulesArePositive DEF WindowsHold
<1>5. NothingUnkept /\ AdmittedWereMade /\ OthersCounted
  BY <1>1, <1>2, NothingJudgedFacts DEF NothingUnkept, AdmittedWereMade, OthersCounted
<1> QED
  BY <1>3, <1>4, <1>5 DEF LimiterInv

\* What the limiter says of one client.
ClientHolds(window, past, k) ==
  /\ window \in Window /\ past \in Judgement
  /\ window.count = past.made
  /\ LetThrough(k) => ~window.kept
  /\ ~window.kept => window.count = 0
  /\ \A r \in Rules : /\ past.admitted[r] <= past.made
                      /\ past.admitted[r] <= r.max_requests
                      /\ past.refused[r] => past.made > r.max_requests

LEMMA LimiterByClient ==
  LimiterInv <=> /\ LimiterTypeOK
                 /\ OthersCounted
                 /\ \A k \in Clients : ClientHolds(windows[k], judged[k], k)
<1>1. ASSUME LimiterTypeOK, NEW k \in Clients
      PROVE  /\ windows[k] \in Window /\ judged[k] \in Judgement
             /\ DOMAIN judged[k].admitted = Rules
  BY <1>1, LimiterTypes DEF Judgement
<1> QED
  BY <1>1 DEF LimiterInv, WindowsHold, NothingUnkept, AdmittedWereMade, ClientHolds,
              LetThrough

\* A request that replaces the window, or is added to it.
LEMMA CountKeeps ==
  ASSUME LimiterInv, NEW t \in LimiterTasks, CheckCounts(t)
  PROVE  LET k == checking[t].key IN
           /\ ClientHolds(windows'[k], judged'[k], k)
           /\ k \in Clients
           /\ \A x \in Clients \ {k} : windows'[x] = windows[x] /\ judged'[x] = judged[x]
           /\ windows' \in [Clients -> Window] /\ judged' \in [Clients -> Judgement]
<1> DEFINE c == checking[t]
           k == c.key
           entry == IF windows[k].kept THEN windows[k]
                    ELSE [count |-> 0, window_start |-> c.now, kept |-> TRUE]
           fresh == [count |-> 1, window_start |-> c.now, kept |-> TRUE]
           more == [entry EXCEPT !.count = entry.count + 1]
           yes == ~(entry.count + 1 > c.rule.max_requests)
<1>1. /\ c \in Counting /\ k \in Clients /\ c.rule \in Rules
      /\ c.now \in 0..MaxLimiterTime /\ ~LetThrough(k)
  BY LimiterTypes DEF LimiterInv, OthersCounted, CheckCounts, NotChecking, Counting
<1>2. /\ windows \in [Clients -> Window] /\ judged \in [Clients -> Judgement]
      /\ ClientHolds(windows[k], judged[k], k)
  BY <1>1, LimiterByClient, LimiterTypes
<1>3. c.rule.max_requests \in Nat \ {0} /\ MaxChecks \in Nat \ {0}
  BY <1>1, RulesArePositive, LimiterConstants
<1>4. entry \in Window /\ entry.kept /\ entry.count = judged[k].made
  <2>1. CASE windows[k].kept
    BY <1>2, <2>1 DEF ClientHolds
  <2>2. CASE ~windows[k].kept
    BY <1>1, <1>2, <2>2, LimiterConstants DEF ClientHolds, Window
  <2> QED
    BY <2>1, <2>2
<1>5. CASE Elapsed(c.now, entry.window_start) >= c.rule.window_secs
  <2> DEFINE past == JudgedNow(NothingJudged, c.rule, TRUE)
  <2>1. /\ windows' = [windows EXCEPT ![k] = fresh]
        /\ judged' = [judged EXCEPT ![k] = past]
    BY <1>5 DEF CheckCounts
  <2>2. fresh \in Window /\ fresh.count = 1 /\ fresh.kept
    BY <1>1, <1>3 DEF Window
  <2>3. /\ past \in Judgement /\ past.made = 1
        /\ \A r \in Rules : past.admitted[r] \in {0, 1} /\ ~past.refused[r]
        /\ past.admitted[c.rule] = 1
    BY <1>1, FirstJudgedFacts
  <2> HIDE DEF fresh, past
  <2>4. ClientHolds(fresh, past, k)
    BY <1>1, <2>2, <2>3, RulesArePositive DEF ClientHolds
  <2> QED
    BY <1>1, <1>2, <2>1, <2>2, <2>3, <2>4
<1>6. CASE ~(Elapsed(c.now, entry.window_start) >= c.rule.window_secs)
  <2> DEFINE past == JudgedNow(judged[k], c.rule, yes)
  <2>1. /\ entry.count < MaxChecks
        /\ windows' = [windows EXCEPT ![k] = more]
        /\ judged' = [judged EXCEPT ![k] = past]
    BY <1>1, <1>2, <1>6 DEF CheckCounts
  <2>2. more \in Window /\ more.count = judged[k].made + 1 /\ more.kept
    <3>1. entry.count \in 0..MaxChecks /\ entry.count + 1 \in 0..MaxChecks
      BY <1>3, <1>4, <2>1 DEF Window
    <3> HIDE DEF entry
    <3> QED
      BY <1>4, <3>1 DEF Window
  <2>3. /\ judged[k] \in Judgement /\ judged[k].made < MaxChecks /\ yes \in BOOLEAN
        /\ judged[k].admitted[c.rule] <= judged[k].made
    BY <1>1, <1>2, <1>4, <2>1 DEF ClientHolds
  <2>4. /\ past \in Judgement /\ past.made = judged[k].made + 1
        /\ past.admitted[c.rule] = IF yes THEN judged[k].admitted[c.rule] + 1
                                   ELSE judged[k].admitted[c.rule]
        /\ past.refused[c.rule] = (judged[k].refused[c.rule] \/ ~yes)
        /\ \A r \in Rules \ {c.rule} : /\ past.admitted[r] = judged[k].admitted[r]
                                       /\ past.refused[r] = judged[k].refused[r]
    <3> HIDE DEF yes
    <3> QED
      BY <1>1, <2>3, JudgedNowFacts
  <2>5. yes <=> judged[k].made + 1 <= c.rule.max_requests
    BY <1>3, <1>4, <2>3 DEF Judgement
  <2> HIDE DEF more, past, yes
  <2>6. ASSUME NEW r \in Rules
        PROVE  /\ past.admitted[r] <= past.made
               /\ past.admitted[r] <= r.max_requests
               /\ past.refused[r] => past.made > r.max_requests
    <3>1. /\ judged[k].made \in Nat /\ judged[k].admitted[r] \in Nat
          /\ r.max_requests \in Nat
          /\ judged[k].admitted[r] <= judged[k].made
          /\ judged[k].admitted[r] <= r.max_requests
          /\ judged[k].refused[r] => judged[k].made > r.max_requests
      BY <1>2, <2>3, RulesArePositive DEF ClientHolds, Judgement
    <3>2. CASE r = c.rule
      <4>1. past.refused[r] => judged[k].refused[r] \/ ~yes
        BY <2>4, <3>2, Zenon
      <4>2. past.made = judged[k].made + 1
        BY <2>4
      <4>3. past.admitted[r] = IF yes THEN judged[k].admitted[r] + 1
                               ELSE judged[k].admitted[r]
        BY <2>4, <3>2
      <4>4. yes <=> judged[k].made + 1 <= r.max_requests
        BY <2>5, <3>2
      <4> QED
        BY <3>1, <4>1, <4>2, <4>3, <4>4
    <3>3. CASE r # c.rule
      <4>1. /\ past.made = judged[k].made + 1
            /\ past.admitted[r] = judged[k].admitted[r]
            /\ past.refused[r] = judged[k].refused[r]
        BY <2>4, <3>3
      <4> HIDE DEF past
      <4> QED
        BY <3>1, <4>1
    <3> QED
      BY <3>2, <3>3
  <2>7. ClientHolds(more, past, k)
    BY <1>1, <2>2, <2>4, <2>6 DEF ClientHolds
  <2> QED
    BY <1>1, <1>2, <2>1, <2>2, <2>4, <2>7
<1> QED
  BY <1>5, <1>6

LEMMA LimiterStepInv ==
  ASSUME LimiterInv, [LimiterNext]_limiterVars
  PROVE  LimiterInv'
<1>0. /\ windows \in [Clients -> Window] /\ judged \in [Clients -> Judgement]
      /\ limiterNow \in 0..MaxLimiterTime
      /\ checking \in [LimiterTasks -> {NotChecking} \cup Counting]
      /\ \A k \in Clients : ClientHolds(windows[k], judged[k], k)
      /\ OthersCounted
  BY LimiterByClient, LimiterTypes DEF LimiterInv
<1>1. (/\ LimiterTypeOK
       /\ OthersCounted
       /\ \A k \in Clients : ClientHolds(windows[k], judged[k], k))' => LimiterInv'
  BY LimiterByClient, PTL
<1>2. ASSUME NEW t \in LimiterTasks, CheckCounts(t) PROVE LimiterInv'
  <2>1. /\ \A k \in Clients : ClientHolds(windows'[k], judged'[k], k)
        /\ windows' \in [Clients -> Window] /\ judged' \in [Clients -> Judgement]
    BY <1>0, <1>2, CountKeeps
  <2>2. /\ limiterNow' = limiterNow
        /\ checking' = [checking EXCEPT ![t] = NotChecking]
    BY <1>2 DEF CheckCounts
  <2>3. LimiterTypeOK'
    BY <1>0, <2>1, <2>2, LimiterTypes DEF LimiterTypeOK, Window, Counting, Judgement
  <2>4. OthersCounted'
    BY <1>0, <2>2 DEF OthersCounted, LetThrough
  <2> QED
    BY <1>1, <2>1, <2>3, <2>4
<1>3. ASSUME NEW t \in LimiterTasks, NEW forwarded \in Clients \cup {NoAddress},
             NEW real \in Clients \cup {NoAddress}, NEW endpoint \in Endpoints,
             CheckBegin(t, forwarded, real, endpoint)
      PROVE  LimiterInv'
  <2> DEFINE k == ClientOf(forwarded, real)
  <2> PICK rule \in RulesFor(endpoint) :
           checking' = [checking EXCEPT ![t] =
             [at |-> "counting", key |-> k, rule |-> rule, now |-> limiterNow]]
    BY <1>3 DEF CheckBegin
  <2>1. k \in Clients /\ ~LetThrough(k) /\ UNCHANGED <<windows, limiterNow, judged>>
    BY <1>3, LimiterConstants DEF CheckBegin, ClientOf
  <2>2. [at |-> "counting", key |-> k, rule |-> rule, now |-> limiterNow] \in Counting
    BY <1>0, <2>1 DEF Counting, Rules
  <2> HIDE DEF k
  <2>3. LimiterTypeOK'
    BY <1>0, <2>1, <2>2 DEF LimiterTypeOK, Window, Counting, Judgement
  <2>4. OthersCounted'
    BY <1>0, <2>1 DEF OthersCounted, LetThrough
  <2>5. \A x \in Clients : ClientHolds(windows'[x], judged'[x], x)
    BY <1>0, <2>1
  <2> QED
    BY <1>1, <2>3, <2>4, <2>5
<1>4. CASE LimiterTick \/ UNCHANGED limiterVars
  <2>1. /\ UNCHANGED <<windows, checking, judged>>
        /\ limiterNow' \in 0..MaxLimiterTime
    BY <1>0, <1>4, LimiterConstants DEF LimiterTick, limiterVars
  <2>2. LimiterTypeOK'
    BY <1>0, <2>1 DEF LimiterTypeOK, Window, Counting, Judgement
  <2>3. OthersCounted'
    BY <1>0, <2>1 DEF OthersCounted, LetThrough
  <2> QED
    BY <1>0, <1>1, <2>1, <2>2, <2>3
<1> QED
  BY <1>2, <1>3, <1>4 DEF LimiterNext

\* The window kept for a client and what its requests were told fit together.
THEOREM LimiterInvariant == LimiterSpec => []LimiterInv
<1>1. LimiterInv /\ [LimiterNext]_limiterVars => LimiterInv'
  BY LimiterStepInv
<1> QED
  BY LimiterInitInv, <1>1, PTL DEF LimiterSpec

\* Under any rules, in a window kept for a client, no rule admits more requests
\* than it allows and none refuses before more were made; clients that are let
\* through are never counted (yma-rate-limit, check and check_memory).
THEOREM LimiterWindowsHold == LimiterSpec => []WindowsHold
<1>1. LimiterInv => WindowsHold
  BY DEF LimiterInv
<1> QED
  BY <1>1, LimiterInvariant, PTL

(***************************************************************************)
(* Sandbox.  Without a collision one update at a time is under way, so the *)
(* peak it compares with is still the peak when it writes.                 *)
(***************************************************************************)
LEMMA SandboxInitInv == SandboxInit => SandboxInv
<1> SUFFICES ASSUME SandboxInit PROVE SandboxInv
  OBVIOUS
<1>1. SandboxTypeOK
  BY DEF SandboxInit, SandboxTypeOK, NoReport
<1>2. PeakIsLargest
  BY DEF SandboxInit, PeakIsLargest
<1>3. LoadedIsCurrent /\ SizesAreReal
  BY DEF SandboxInit, LoadedIsCurrent, SizesAreReal, NoReport
<1> QED
  BY <1>1, <1>2, <1>3 DEF SandboxInv

\* Steps of a spawn do not touch the monitor.
LEMMA SpawnStepInv ==
  ASSUME SandboxInv, NEW s \in Spawns,
         SpawnRefused(s) \/ SpawnStarts(s) \/ ModuleEnds(s) \/ SamplerEnds(s)
           \/ SpawnReturns(s)
  PROVE  SandboxInv'
<1>0. SandboxTypeOK
  BY DEF SandboxInv
<1>1. UNCHANGED <<peak, report, reported, collided>>
  BY DEF SpawnRefused, SpawnStarts, ModuleEnds, SamplerEnds, SpawnReturns
<1>2. PeakIsLargest' /\ LoadedIsCurrent' /\ SizesAreReal'
  BY <1>1 DEF SandboxInv, PeakIsLargest, LoadedIsCurrent, SizesAreReal
<1>3. SandboxTypeOK'
  <2>1. CASE SpawnRefused(s)
    BY <1>0, <2>1 DEF SpawnRefused, SandboxTypeOK
  <2>2. CASE SpawnStarts(s)
    BY <1>0, <2>2 DEF SpawnStarts, SandboxTypeOK
  <2>3. CASE ModuleEnds(s)
    BY <1>0, <2>3 DEF ModuleEnds, SandboxTypeOK
  <2>4. CASE SamplerEnds(s)
    BY <1>0, <2>4 DEF SamplerEnds, SandboxTypeOK
  <2>5. CASE SpawnReturns(s)
    BY <1>0, <2>5 DEF SpawnReturns, SandboxTypeOK
  <2> QED
    BY <2>1, <2>2, <2>3, <2>4, <2>5
<1> QED
  BY <1>2, <1>3 DEF SandboxInv

LEMMA UpdateStepInv ==
  ASSUME SandboxInv, NEW r \in Reporters,
         UpdateFinish(r) \/ \E mb \in MemorySizes : UpdateBegin(r, mb)
  PROVE  SandboxInv'
<1>0. SandboxTypeOK /\ PeakIsLargest /\ LoadedIsCurrent /\ SizesAreReal
  BY DEF SandboxInv
<1>1. CASE UpdateFinish(r)
  <2>1. /\ report[r].on /\ report[r].mb \in MemorySizes /\ report[r].mb \in Nat
        /\ peak \in Nat /\ reported \subseteq Nat
    BY <1>0, <1>1, QuotaAssumption DEF UpdateFinish, SandboxTypeOK, SizesAreReal
  <2>2. /\ peak' \in {report[r].mb, peak}
        /\ reported' = reported \cup {report[r].mb}
        /\ report' = [report EXCEPT ![r] = NoReport]
        /\ UNCHANGED <<spawn, sampler, collided>>
    BY <1>1 DEF UpdateFinish, NewPeak
  <2>3. SandboxTypeOK'
    BY <1>0, <2>1, <2>2 DEF SandboxTypeOK, NoReport
  <2>4. \A o \in Reporters : report'[o].on => o # r /\ report'[o] = report[o]
    BY <1>0, <2>2 DEF SandboxTypeOK, NoReport
  <2>5. SizesAreReal'
    BY <1>0, <2>4 DEF SizesAreReal
  <2>6. LoadedIsCurrent'
    BY <1>0, <2>1, <2>2, <2>4 DEF LoadedIsCurrent
  <2>7. ~collided => report[r].seen = peak
    BY <1>0, <2>1 DEF LoadedIsCurrent
  <2>8. PeakIsLargest'
    BY <1>0, <1>1, <2>1, <2>2, <2>7 DEF PeakIsLargest, UpdateFinish, NewPeak
  <2> QED
    BY <2>3, <2>5, <2>6, <2>8 DEF SandboxInv
<1>2. ASSUME NEW mb \in MemorySizes, UpdateBegin(r, mb) PROVE SandboxInv'
  <2> DEFINE call == [mb |-> mb, seen |-> peak, on |-> TRUE]
  <2>1. call \in [mb : Nat, seen : Nat, on : BOOLEAN]
    BY <1>0, QuotaAssumption DEF SandboxTypeOK
  <2>2. /\ report' = [report EXCEPT ![r] = call]
        /\ UNCHANGED <<spawn, sampler, peak, reported>>
        /\ collided' \in BOOLEAN
        /\ ~collided' => ~collided /\ \A o \in Reporters : ~report[o].on
    BY <1>0, <1>2 DEF UpdateBegin, SandboxTypeOK
  <2>3. /\ call.mb = mb /\ call.seen = peak
        /\ report'[r] = call
        /\ \A o \in Reporters : o # r => report'[o] = report[o]
    BY <1>0, <2>2 DEF SandboxTypeOK
  <2> HIDE DEF call
  <2>4. SandboxTypeOK'
    BY <1>0, <2>1, <2>2 DEF SandboxTypeOK
  <2>5. SizesAreReal'
    BY <1>0, <2>3 DEF SizesAreReal
  <2>6. LoadedIsCurrent' /\ PeakIsLargest'
    BY <1>0, <2>2, <2>3 DEF LoadedIsCurrent, PeakIsLargest
  <2> QED
    BY <2>4, <2>5, <2>6 DEF SandboxInv
<1> QED
  BY <1>1, <1>2

\* The monitor's counters and the updates under way fit together.
THEOREM SandboxInvariant == SandboxSpec => []SandboxInv
<1>1. SandboxInv /\ [SandboxNext]_sandboxVars => SandboxInv'
  <2> SUFFICES ASSUME SandboxInv, [SandboxNext]_sandboxVars PROVE SandboxInv'
    OBVIOUS
  <2>1. CASE UNCHANGED sandboxVars
    <3>1. UNCHANGED <<spawn, sampler, peak, report, reported, collided>>
      BY <2>1 DEF sandboxVars
    <3>2. SandboxTypeOK'
      BY <3>1 DEF SandboxInv, SandboxTypeOK
    <3>3. PeakIsLargest' /\ LoadedIsCurrent' /\ SizesAreReal'
      BY <3>1 DEF SandboxInv, PeakIsLargest, LoadedIsCurrent, SizesAreReal
    <3> QED
      BY <3>2, <3>3 DEF SandboxInv
  <2>2. ASSUME NEW s \in Spawns,
               SpawnRefused(s) \/ SpawnStarts(s) \/ ModuleEnds(s)
                 \/ SamplerEnds(s) \/ SpawnReturns(s)
        PROVE  SandboxInv'
    BY <2>2, SpawnStepInv
  <2>3. ASSUME NEW r \in Reporters,
               UpdateFinish(r) \/ \E mb \in MemorySizes : UpdateBegin(r, mb)
        PROVE  SandboxInv'
    BY <2>3, UpdateStepInv
  <2> QED
    BY <2>1, <2>2, <2>3 DEF SandboxNext
<1> QED
  BY SandboxInitInv, <1>1, PTL DEF SandboxSpec

\* The peak the monitor tells is a size somebody reported, and the largest,
\* unless two updates collided (yma-sandbox, update_memory); any number of
\* threads report any sizes.
THEOREM SandboxPeakIsLargest == SandboxSpec => []PeakIsLargest
<1>1. SandboxInv => PeakIsLargest
  BY DEF SandboxInv
<1> QED
  BY <1>1, SandboxInvariant, PTL

(***************************************************************************)
(* Configuration.  An update that met no other is the last that stored;    *)
(* what the watcher has taken down, read and not yet stored is the file.   *)
(***************************************************************************)
LEMMA ConfigInitInv == ConfigInit => ConfigInv
<1> SUFFICES ASSUME ConfigInit PROVE ConfigInv
  OBVIOUS
<1>1. lastModified # file.modified
  BY ConfigConstants DEF ConfigInit
<1>2. ConfigTypeOK
  BY ConfigConstants DEF ConfigInit, ConfigTypeOK, NoUpdate
<1>3. /\ \A t \in Tasks : updating[t].at = "none"
      /\ FileWatcher \in Tasks
      /\ channel = config
  BY DEF ConfigInit, NoUpdate, Tasks
<1>4. AloneIsLast /\ StoringIsTheFile
  BY <1>3 DEF AloneIsLast, StoringIsTheFile, Sending
<1>5. ConfigFollowed
  BY <1>1, <1>3 DEF ConfigFollowed
<1> QED
  BY <1>2, <1>4, <1>5 DEF ConfigInv

\* What the tasks carry.
LEMMA ConfigTypes ==
  ASSUME ConfigTypeOK
  PROVE  /\ FileWatcher \in Tasks /\ Updaters \subseteq Tasks
         /\ \A t \in Tasks : Sending(t) =>
              updating[t] \in [at : {"sending"}, value : ConfigValues, alone : BOOLEAN]
         /\ updating[FileWatcher].at = "storing" =>
              updating[FileWatcher].value \in ConfigValues
BY DEF ConfigTypeOK, Tasks, Sending, NoUpdate

\* Storing a configuration: the one who stores is alone if nobody else is
\* about to send, and the others are not.
LEMMA StoresFacts ==
  ASSUME ConfigTypeOK, NEW t \in Tasks, NEW value \in ConfigValues,
         Stores(t, value)
  PROVE  /\ config' = value
         /\ updating' \in [Tasks -> {NoUpdate, [at |-> "reading"]}
              \cup [at : {"storing"}, value : ConfigValues]
              \cup [at : {"sending"}, value : ConfigValues, alone : BOOLEAN]]
         /\ updating'[t].at = "sending" /\ updating'[t].value = value
         /\ \A u \in Tasks \ {t} :
              /\ updating'[u].at = updating[u].at
              /\ updating'[u].at = "sending" => ~updating'[u].alone
              /\ updating[u].at # "sending" => updating'[u] = updating[u]
         /\ told' \in [heard : BOOLEAN, overridden : BOOLEAN, missed : BOOLEAN]
         /\ told'.heard = told.heard /\ told'.missed = told.missed
         /\ told'.overridden = (t # FileWatcher)
         /\ UNCHANGED <<channel, configSubscribed, file, lastModified, fileNow>>
<1>1. /\ config' = value
      /\ UNCHANGED <<channel, configSubscribed, file, lastModified, fileNow>>
      /\ told' = [told EXCEPT !.overridden = (t # FileWatcher)]
  BY DEF Stores
<1>2. /\ told' \in [heard : BOOLEAN, overridden : BOOLEAN, missed : BOOLEAN]
      /\ told'.heard = told.heard /\ told'.missed = told.missed
      /\ told'.overridden = (t # FileWatcher)
  BY <1>1 DEF ConfigTypeOK
<1> DEFINE own == [at |-> "sending", value |-> value,
                   alone |-> ~\E v \in Tasks \ {t} : Sending(v)]
           met(u) == [updating[u] EXCEPT !.alone = FALSE]
<1>3. /\ own \in [at : {"sending"}, value : ConfigValues, alone : BOOLEAN]
      /\ own.at = "sending" /\ own.value = value
  OBVIOUS
<1>4. ASSUME NEW u \in Tasks, Sending(u)
      PROVE  /\ met(u) \in [at : {"sending"}, value : ConfigValues, alone : BOOLEAN]
             /\ met(u).at = "sending" /\ ~met(u).alone
  <2>1. updating[u] \in [at : {"sending"}, value : ConfigValues, alone : BOOLEAN]
    BY <1>4, ConfigTypes
  <2> QED
    BY <2>1
<1>5. updating' = [u \in Tasks |-> IF u = t THEN own
                                   ELSE IF Sending(u) THEN met(u) ELSE updating[u]]
  BY DEF Stores
<1> HIDE DEF own, met
<1>6. \A u \in Tasks \ {t} :
        /\ Sending(u) => updating'[u] = met(u)
        /\ ~Sending(u) => updating'[u] = updating[u]
  BY <1>5
<1>7. updating'[t] = own
  BY <1>5
<1>8. updating' \in [Tasks -> {NoUpdate, [at |-> "reading"]}
        \cup [at : {"storing"}, value : ConfigValues]
        \cup [at : {"sending"}, value : ConfigValues, alone : BOOLEAN]]
  BY <1>3, <1>4, <1>5 DEF ConfigTypeOK
<1> QED
  BY <1>1, <1>2, <1>3, <1>4, <1>6, <1>7, <1>8 DEF Sending

LEMMA StoresKeepsInv ==
  ASSUME ConfigInv, NEW t \in Tasks, NEW value \in ConfigValues,
         Stores(t, value),
         \/ t # FileWatcher
         \/ /\ updating[FileWatcher].at = "storing"
            /\ value = updating[FileWatcher].value
  PROVE  ConfigInv'
<1>0. ConfigTypeOK /\ ConfigFollowed /\ AloneIsLast /\ StoringIsTheFile
  BY DEF ConfigInv
<1>1. ConfigTypeOK'
  BY <1>0, StoresFacts DEF ConfigTypeOK
<1>2. FileWatcher \in Tasks /\ Sending(t)'
  BY <1>0, StoresFacts, ConfigTypes DEF Sending
<1>3. AloneIsLast'
  BY <1>0, StoresFacts DEF AloneIsLast, Sending
<1>4. StoringIsTheFile'
  BY <1>0, <1>2, StoresFacts DEF StoringIsTheFile
<1>5. ASSUME t = FileWatcher,
             lastModified' = file'.modified, ~told'.missed
      PROVE  config' = file'.content
  BY <1>0, <1>5, StoresFacts DEF StoringIsTheFile
<1>6. t # FileWatcher => told'.overridden
  BY <1>0, StoresFacts
<1>7. ConfigFollowed'
  BY <1>2, <1>5, <1>6 DEF ConfigFollowed
<1> QED
  BY <1>1, <1>3, <1>4, <1>7 DEF ConfigInv

LEMMA SendsKeepsInv ==
  ASSUME ConfigInv, NEW t \in Tasks, SendsUpdate(t)
  PROVE  ConfigInv'
<1>0. ConfigTypeOK /\ ConfigFollowed /\ AloneIsLast /\ StoringIsTheFile
  BY DEF ConfigInv
<1>1. updating[t] \in [at : {"sending"}, value : ConfigValues, alone : BOOLEAN]
  BY <1>0, ConfigTypes DEF SendsUpdate
<1>2. /\ channel' = IF configSubscribed = {} THEN channel ELSE updating[t].value
      /\ told' = [told EXCEPT !.heard = (configSubscribed # {} /\ updating[t].alone)]
      /\ updating' = [updating EXCEPT ![t] = NoUpdate]
      /\ UNCHANGED <<config, configSubscribed, file, lastModified, fileNow>>
  BY DEF SendsUpdate
<1>3. /\ told' \in [heard : BOOLEAN, overridden : BOOLEAN, missed : BOOLEAN]
      /\ told'.missed = told.missed /\ told'.overridden = told.overridden
      /\ told'.heard <=> configSubscribed # {} /\ updating[t].alone
  BY <1>0, <1>1, <1>2 DEF ConfigTypeOK
<1>4. /\ updating'[t].at = "none"
      /\ \A u \in Tasks \ {t} : updating'[u] = updating[u]
  BY <1>0, <1>2 DEF ConfigTypeOK, NoUpdate
<1>5. ConfigTypeOK'
  BY <1>0, <1>1, <1>2, <1>3 DEF ConfigTypeOK
<1>6. AloneIsLast'
  BY <1>0, <1>2, <1>4 DEF AloneIsLast, Sending
<1>7. FileWatcher \in Tasks
  BY DEF Tasks
<1>8. StoringIsTheFile'
  BY <1>0, <1>2, <1>3, <1>4, <1>7 DEF StoringIsTheFile
<1>9. told'.heard => channel' = config'
  BY <1>0, <1>2, <1>3 DEF AloneIsLast, SendsUpdate
<1>10. t = FileWatcher => updating[FileWatcher].at = "sending"
  BY DEF SendsUpdate, Sending
<1>11. /\ updating'[FileWatcher].at \in {"none", "sending"}
       /\ lastModified' = file'.modified
       /\ file'.content # Unreadable
       /\ ~told'.missed
       /\ ~told'.overridden
       => config' = file'.content
  BY <1>0, <1>2, <1>3, <1>4, <1>7, <1>10 DEF ConfigFollowed
<1>12. ConfigFollowed'
  BY <1>9, <1>11 DEF ConfigFollowed
<1> QED
  BY <1>5, <1>6, <1>8, <1>12 DEF ConfigInv

LEMMA WatcherKeepsInv ==
  ASSUME ConfigInv, WatcherLooks \/ WatcherReads
  PROVE  ConfigInv'
<1>0. /\ ConfigTypeOK /\ ConfigFollowed /\ AloneIsLast /\ StoringIsTheFile
      /\ FileWatcher \in Tasks
  BY DEF ConfigInv, Tasks
<1>1. /\ UNCHANGED <<config, channel, configSubscribed, file, fileNow, told>>
      /\ \E call \in {NoUpdate, [at |-> "reading"]} \cup [at : {"storing"}, value : ConfigValues] :
           updating' = [updating EXCEPT ![FileWatcher] = call]
      /\ lastModified' \in {lastModified, file.modified}
      /\ ~Sending(FileWatcher)
  BY <1>0 DEF WatcherLooks, WatcherReads, ConfigTypeOK, NoUpdate, Sending
<1>2. ConfigTypeOK'
  BY <1>0, <1>1 DEF ConfigTypeOK
<1>3. \A t \in Tasks : /\ Sending(t)' <=> Sending(t)
                       /\ Sending(t) => updating'[t] = updating[t]
  BY <1>0, <1>1 DEF ConfigTypeOK, Sending, NoUpdate
<1>4. AloneIsLast'
  BY <1>0, <1>1, <1>3 DEF AloneIsLast
<1>5. (\A t \in Tasks : ~Sending(t)') /\ told'.heard => channel' = config'
  BY <1>0, <1>1, <1>3 DEF ConfigFollowed
<1>6. CASE WatcherLooks
  <2>1. updating'[FileWatcher].at = "reading"
    BY <1>0, <1>6 DEF WatcherLooks, ConfigTypeOK
  <2> QED
    BY <1>2, <1>4, <1>5, <2>1 DEF ConfigInv, ConfigFollowed, StoringIsTheFile
<1>7. CASE WatcherReads
  <2>1. /\ updating'[FileWatcher] = IF file.content = Unreadable THEN NoUpdate
                                    ELSE [at |-> "storing", value |-> file.content]
        /\ UNCHANGED file
    BY <1>0, <1>7 DEF WatcherReads, ConfigTypeOK
  <2>2. CASE file.content = Unreadable
    <3>1. updating'[FileWatcher].at = "none" /\ file'.content = Unreadable
      BY <2>1, <2>2 DEF NoUpdate
    <3> QED
      BY <1>2, <1>4, <1>5, <3>1 DEF ConfigInv, ConfigFollowed, StoringIsTheFile
  <2>3. CASE file.content # Unreadable
    <3>1. /\ updating'[FileWatcher].at = "storing"
          /\ updating'[FileWatcher].value = file'.content
      BY <2>1, <2>3
    <3> QED
      BY <1>2, <1>4, <1>5, <3>1 DEF ConfigInv, ConfigFollowed, StoringIsTheFile
  <2> QED
    BY <2>2, <2>3
<1> QED
  BY <1>6, <1>7

LEMMA FileWrittenKeepsInv ==
  ASSUME ConfigInv, NEW content \in ConfigValues \cup {Unreadable},
         FileWritten(content)
  PROVE  ConfigInv'
<1>0. ConfigTypeOK /\ ConfigFollowed /\ AloneIsLast /\ StoringIsTheFile
  BY DEF ConfigInv
<1>1. /\ file' = [content |-> content, modified |-> fileNow]
      /\ told' = [told EXCEPT !.missed =
           (lastModified = fileNow /\ updating[FileWatcher].at # "reading")]
      /\ UNCHANGED <<config, channel, configSubscribed, updating, lastModified, fileNow>>
  BY DEF FileWritten
<1>2. /\ told' \in [heard : BOOLEAN, overridden : BOOLEAN, missed : BOOLEAN]
      /\ told'.heard = told.heard
      /\ told'.missed <=> lastModified = fileNow /\ updating[FileWatcher].at # "reading"
  BY <1>0, <1>1 DEF ConfigTypeOK
<1>3. ConfigTypeOK'
  BY <1>0, <1>1, <1>2 DEF ConfigTypeOK
<1>4. file'.modified = fileNow
  BY <1>1
<1>5. AloneIsLast' /\ StoringIsTheFile'
  BY <1>0, <1>1, <1>2, <1>4 DEF AloneIsLast, StoringIsTheFile, Sending
<1>6. ConfigFollowed'
  BY <1>0, <1>1, <1>2, <1>4 DEF ConfigFollowed, Sending
<1> QED
  BY <1>3, <1>5, <1>6 DEF ConfigInv

LEMMA OthersKeepConfigInv ==
  ASSUME ConfigInv,
         UNCHANGED <<config, channel, updating, file, lastModified, told>>,
         configSubscribed' \subseteq ConfigSubscribers,
         fileNow' \in 0..MaxFileTime
  PROVE  ConfigInv'
<1>0. ConfigTypeOK /\ ConfigFollowed /\ AloneIsLast /\ StoringIsTheFile
  BY DEF ConfigInv
<1>1. ConfigTypeOK'
  BY <1>0 DEF ConfigTypeOK
<1>2. ConfigFollowed' /\ AloneIsLast' /\ StoringIsTheFile'
  BY <1>0 DEF ConfigFollowed, AloneIsLast, StoringIsTheFile, Sending
<1> QED
  BY <1>1, <1>2 DEF ConfigInv

\* What is stored, what is sent, and what the file holds fit together.
THEOREM ConfigInvariant == ConfigSpec => []ConfigInv
<1>1. ConfigInv /\ [ConfigNext]_configVars => ConfigInv'
  <2> SUFFICES ASSUME ConfigInv, [ConfigNext]_configVars PROVE ConfigInv'
    OBVIOUS
  <2>0. ConfigTypeOK /\ FileWatcher \in Tasks /\ Updaters \subseteq Tasks
        /\ FileWatcher \notin Updaters
    BY ConfigConstants DEF ConfigInv, Tasks
  <2>1. ASSUME NEW u \in Updaters, NEW value \in ConfigValues, Update(u, value)
        PROVE  ConfigInv'
    BY <2>0, <2>1, StoresKeepsInv DEF Update
  <2>2. ASSUME NEW t \in Tasks, SendsUpdate(t) PROVE ConfigInv'
    BY <2>2, SendsKeepsInv
  <2>3. ASSUME NEW s \in ConfigSubscribers, ConfigSubscribes(s) \/ ReceiverDropped(s)
        PROVE  ConfigInv'
    BY <2>0, <2>3, OthersKeepConfigInv
    DEF ConfigSubscribes, ReceiverDropped, ConfigTypeOK
  <2>4. CASE WatcherLooks \/ WatcherReads
    BY <2>4, WatcherKeepsInv
  <2>5. CASE WatcherStores
    <3>1. updating[FileWatcher].value \in ConfigValues
      BY <2>0, <2>5, ConfigTypes DEF WatcherStores
    <3> QED
      BY <2>0, <2>5, <3>1, StoresKeepsInv DEF WatcherStores
  <2>6. ASSUME NEW content \in ConfigValues \cup {Unreadable}, FileWritten(content)
        PROVE  ConfigInv'
    BY <2>6, FileWrittenKeepsInv
  <2>7. CASE FileTick
    BY <2>0, <2>7, OthersKeepConfigInv, ConfigConstants DEF FileTick, ConfigTypeOK
  <2>8. CASE UNCHANGED configVars
    BY <2>0, <2>8, OthersKeepConfigInv DEF configVars, ConfigTypeOK
  <2> QED
    BY <2>1, <2>2, <2>3, <2>4, <2>5, <2>6, <2>7, <2>8 DEF ConfigNext
<1> QED
  BY ConfigInitInv, <1>1, PTL DEF ConfigSpec

\* Subscribers are told the configuration get answers with once an update that
\* met no other is through, and a file the watcher is done with is the
\* configuration (yma-config, update and start_file_watcher), for any updates,
\* subscribers and writes of the file.
THEOREM ConfigIsFollowed == ConfigSpec => []ConfigFollowed
<1>1. ConfigInv => ConfigFollowed
  BY DEF ConfigInv
<1> QED
  BY <1>1, ConfigInvariant, PTL

(***************************************************************************)
(* File storage.  A call that is alone until it ends has met no write on   *)
(* its file: a read then finds what is meant to be there, and a write has  *)
(* an empty file to fill, so what it leaves is its value.                  *)
(***************************************************************************)
LEMMA StorageInitInv == StorageInit => StorageInv
<1> SUFFICES ASSUME StorageInit PROVE StorageInv
  OBVIOUS
<1>1. \A k \in StorageKeys : FileOf(k) \in FileNames
  BY DEF FileNames
<1>2. StorageTypeOK
  BY DEF StorageInit, StorageTypeOK, Contents
<1>3. ReadsAreTrue
  BY <1>1 DEF StorageInit, ReadsAreTrue, FilesAreAsMeant
<1>4. AloneMeetsNoWrite /\ AloneFillsEmpty
  BY DEF StorageInit, AloneMeetsNoWrite, AloneFillsEmpty, Filling, Reading, On
<1> QED
  BY <1>2, <1>3, <1>4 DEF StorageInv

\* What a call carries.
LEMMA StorageCallTypes ==
  ASSUME StorageTypeOK, NEW t \in StorageTasks
  PROVE  /\ storageCall[t] # NoStorageCall =>
              /\ storageCall[t] \in StorageCall
              /\ storageCall[t].key \in StorageKeys
              /\ FileOf(storageCall[t].key) \in FileNames
         /\ storageCall[t].at \in {"filling", "reading", "removing"} =>
              storageCall[t] # NoStorageCall
         /\ storageCall[t].at = "filling" =>
              storageCall[t] \in StorageWrite /\ storageCall[t].value \in StorageValues
BY DEF StorageTypeOK, StorageCall, StorageWrite, StorageAccess, NoStorageCall, FileNames

\* A call becomes one that is not alone.
LEMMA NotAlone ==
  ASSUME NEW c \in StorageCall
  PROVE  LET d == [c EXCEPT !.alone = FALSE]
         IN  /\ d \in StorageCall /\ d # NoStorageCall
             /\ d.at = c.at /\ d.key = c.key /\ ~d.alone
             /\ c.at = "filling" => d.unlinked = c.unlinked
BY DEF StorageCall, StorageWrite, StorageAccess, NoStorageCall

\* A write that is under way loses its file.
LEMMA MadeUnlinked ==
  ASSUME NEW c \in StorageWrite
  PROVE  LET d == [c EXCEPT !.unlinked = TRUE]
         IN  /\ d \in StorageCall /\ d # NoStorageCall
             /\ d.at = c.at /\ d.key = c.key /\ d.unlinked
<1> DEFINE d == [c EXCEPT !.unlinked = TRUE]
<1>1. d \in StorageWrite /\ d.at = c.at /\ d.key = c.key /\ d.unlinked
  BY DEF StorageWrite
<1>2. d.at = "filling"
  BY DEF StorageWrite
<1> HIDE DEF d
<1>3. d \in StorageCall /\ d # NoStorageCall
  BY <1>1, <1>2 DEF StorageCall, NoStorageCall
<1> QED
  BY <1>1, <1>3 DEF d

(***************************************************************************)
(* A step of t: the other calls keep their places and files, and are alone *)
(* only if they were; those on a file that is written are so no more.      *)
(***************************************************************************)
OthersStay(t) ==
  \A u \in StorageTasks \ {t}, f \in FileNames :
    /\ Filling(u, f)' <=> Filling(u, f)
    /\ Reading(u, f)' <=> Reading(u, f)
    /\ (Filling(u, f) \/ Reading(u, f)) /\ storageCall'[u].alone => storageCall[u].alone

OthersMeet(t, f) ==
  \A u \in StorageTasks \ {t} :
    Filling(u, f) \/ Reading(u, f) => ~storageCall'[u].alone

\* What Disturb leaves of the calls when t goes on to call c.
LEMMA DisturbFacts ==
  ASSUME StorageTypeOK, NEW t \in StorageTasks, NEW f \in FileNames,
         NEW c \in {NoStorageCall} \cup StorageCall,
         storageCall' = [Disturb(t, f) EXCEPT ![t] = c]
  PROVE  /\ storageCall' \in [StorageTasks -> {NoStorageCall} \cup StorageCall]
         /\ storageCall'[t] = c
         /\ OthersStay(t)
         /\ OthersMeet(t, f)
<1> DEFINE d(u) == [storageCall[u] EXCEPT !.alone = FALSE]
<1>1. ASSUME NEW u \in StorageTasks, storageCall[u] # NoStorageCall
      PROVE  /\ d(u) \in StorageCall /\ d(u) # NoStorageCall
             /\ d(u).at = storageCall[u].at /\ d(u).key = storageCall[u].key
             /\ ~d(u).alone
             /\ storageCall[u].at = "filling" => d(u).unlinked = storageCall[u].unlinked
  <2>1. storageCall[u] \in StorageCall
    BY <1>1, StorageCallTypes
  <2> QED
    BY <2>1, NotAlone
<1>2. Disturb(t, f) = [u \in StorageTasks |->
        IF u # t /\ On(u, f) THEN d(u) ELSE storageCall[u]]
  BY DEF Disturb
<1> HIDE DEF d
<1>3. \A u \in StorageTasks : On(u, f) => storageCall[u] # NoStorageCall
  BY DEF On
<1>4. Disturb(t, f) \in [StorageTasks -> {NoStorageCall} \cup StorageCall]
  BY <1>1, <1>2, <1>3 DEF StorageTypeOK
<1>5. /\ storageCall' \in [StorageTasks -> {NoStorageCall} \cup StorageCall]
      /\ storageCall'[t] = c
      /\ \A u \in StorageTasks \ {t} :
           storageCall'[u] = IF On(u, f) THEN d(u) ELSE storageCall[u]
  BY <1>2, <1>4
<1>6. ASSUME NEW u \in StorageTasks \ {t}, NEW g \in FileNames
      PROVE  /\ Filling(u, g)' <=> Filling(u, g)
             /\ Reading(u, g)' <=> Reading(u, g)
             /\ (Filling(u, g) \/ Reading(u, g)) /\ storageCall'[u].alone
                  => storageCall[u].alone
             /\ On(u, f) => ~storageCall'[u].alone
  <2>1. CASE On(u, f)
    <3>1. storageCall'[u] = d(u) /\ storageCall[u] # NoStorageCall
      BY <1>3, <1>5, <2>1
    <3>2. /\ d(u) # NoStorageCall /\ ~d(u).alone
          /\ d(u).at = storageCall[u].at /\ d(u).key = storageCall[u].key
          /\ storageCall[u].at = "filling" => d(u).unlinked = storageCall[u].unlinked
      BY <1>1, <3>1
    <3> QED
      BY <3>1, <3>2 DEF Filling, Reading, On
  <2>2. CASE ~On(u, f)
    <3>1. storageCall'[u] = storageCall[u]
      BY <1>5, <2>2
    <3> QED
      BY <2>2, <3>1 DEF Filling, Reading, On
  <2> QED
    BY <2>1, <2>2
<1> QED
  BY <1>5, <1>6 DEF OthersStay, OthersMeet, Filling, Reading

\* What is left when only the call of t changes.
LEMMA OnlyOneFacts ==
  ASSUME StorageTypeOK, NEW t \in StorageTasks,
         NEW c \in {NoStorageCall} \cup StorageCall,
         storageCall' = [storageCall EXCEPT ![t] = c]
  PROVE  /\ storageCall' \in [StorageTasks -> {NoStorageCall} \cup StorageCall]
         /\ storageCall'[t] = c
         /\ OthersStay(t)
<1>1. /\ storageCall' \in [StorageTasks -> {NoStorageCall} \cup StorageCall]
      /\ storageCall'[t] = c
      /\ \A u \in StorageTasks \ {t} : storageCall'[u] = storageCall[u]
  BY DEF StorageTypeOK
<1> QED
  BY <1>1 DEF OthersStay, Filling, Reading, On

\* A call has one file.
LEMMA OneFile ==
  ASSUME NEW t \in StorageTasks, NEW f, NEW g, On(t, f), On(t, g)
  PROVE  f = g
BY DEF On

\* The end of a call leaves nobody alone beside a write.
LEMMA EndMeetsNoWrite ==
  ASSUME AloneMeetsNoWrite, NEW t \in StorageTasks, OthersStay(t),
         storageCall'[t] = NoStorageCall
  PROVE  AloneMeetsNoWrite'
<1>1. \A f \in FileNames : ~Filling(t, f)' /\ ~Reading(t, f)'
  BY DEF Filling, Reading, On
<1> QED
  BY <1>1 DEF AloneMeetsNoWrite, OthersStay

\* The files, but for the one that t is about, are as they were and are filled
\* as they were.
LEMMA OtherFilesStay ==
  ASSUME FilesAreAsMeant, NEW t \in StorageTasks, OthersStay(t),
         NEW k \in StorageKeys, ~Filling(t, FileOf(k)),
         files'[FileOf(k)] = files[FileOf(k)], meant'[k] = meant[k]
  PROVE  \/ files'[FileOf(k)] \in meant'[k]
         \/ files'[FileOf(k)] = Empty /\ ~Alone(FileOf(k))'
<1>1. FileOf(k) \in FileNames
  BY DEF FileNames
<1>2. ASSUME ~Alone(FileOf(k)) PROVE ~Alone(FileOf(k))'
  <2>1. PICK u \in StorageTasks : Filling(u, FileOf(k))
    BY <1>2 DEF Alone
  <2>2. Filling(u, FileOf(k))'
    BY <1>1, <2>1 DEF OthersStay
  <2> QED
    BY <2>2 DEF Alone
<1> QED
  BY <1>2 DEF FilesAreAsMeant

(***************************************************************************)
(* The steps.                                                              *)
(***************************************************************************)
LEMMA SetBeginInv ==
  ASSUME StorageInv, NEW t \in StorageTasks, NEW k \in StorageKeys,
         NEW value \in StorageValues, SetBegin(t, k, value)
  PROVE  StorageInv'
<1> DEFINE f == FileOf(k)
           call == [at |-> "filling", key |-> k, value |-> value, alone |-> Alone(f),
                    unlinked |-> FALSE]
<1>0. /\ StorageTypeOK /\ readsTrue /\ FilesAreAsMeant
      /\ AloneMeetsNoWrite /\ AloneFillsEmpty
      /\ f \in FileNames /\ \A j \in StorageKeys : FileOf(j) \in FileNames
  BY DEF StorageInv, ReadsAreTrue, FileNames
<1>1. /\ call \in {NoStorageCall} \cup StorageCall /\ call # NoStorageCall
      /\ call.key = k /\ call.at = "filling" /\ ~call.unlinked
      /\ call.alone <=> Alone(f)
  BY DEF StorageCall, StorageWrite, Alone, NoStorageCall
<1>2. /\ storageCall[t] = NoStorageCall
      /\ files' = [files EXCEPT ![f] = Empty]
      /\ storageCall' = [Disturb(t, f) EXCEPT ![t] = call]
      /\ meant' = meant /\ readsTrue' = readsTrue
  BY DEF SetBegin
<1> HIDE DEF call
<1>3. /\ storageCall' \in [StorageTasks -> {NoStorageCall} \cup StorageCall]
      /\ storageCall'[t] = call
      /\ OthersStay(t)
      /\ OthersMeet(t, f)
  BY <1>0, <1>1, <1>2, DisturbFacts
<1>4. /\ \A g \in FileNames : ~Filling(t, g)
      /\ \A g \in FileNames : Filling(t, g)' <=> g = f
      /\ \A g \in FileNames : ~Reading(t, g)'
  BY <1>1, <1>2, <1>3 DEF Filling, Reading, On
<1>5. files'[f] = Empty /\ \A g \in FileNames \ {f} : files'[g] = files[g]
  BY <1>0, <1>2 DEF StorageTypeOK
<1>6. StorageTypeOK'
  BY <1>0, <1>2, <1>3 DEF StorageTypeOK, Contents
<1>7. ASSUME NEW j \in StorageKeys
      PROVE  \/ files'[FileOf(j)] \in meant'[j]
             \/ files'[FileOf(j)] = Empty /\ ~Alone(FileOf(j))'
  <2>1. CASE FileOf(j) = f
    BY <1>0, <1>4, <1>5, <2>1 DEF Alone
  <2>2. CASE FileOf(j) # f
    BY <1>0, <1>2, <1>3, <1>4, <1>5, <2>2, OtherFilesStay
  <2> QED
    BY <2>1, <2>2
<1>8. AloneMeetsNoWrite'
  <2> SUFFICES ASSUME NEW p \in StorageTasks, NEW u \in StorageTasks,
                      NEW g \in FileNames, Filling(p, g)' \/ Reading(p, g)',
                      storageCall'[p].alone, Filling(u, g)', p # u
               PROVE  FALSE
    BY DEF AloneMeetsNoWrite
  <2>1. CASE p = t
    <3>1. g = f /\ Alone(f) /\ Filling(u, f)
      BY <1>1, <1>3, <1>4, <2>1 DEF OthersStay
    <3> QED
      BY <3>1 DEF Alone
  <2>2. CASE p # t /\ u = t
    BY <1>3, <1>4, <2>2 DEF OthersStay, OthersMeet
  <2>3. CASE p # t /\ u # t
    BY <1>0, <1>3, <2>3 DEF OthersStay, AloneMeetsNoWrite
  <2> QED
    BY <2>1, <2>2, <2>3
<1>9. AloneFillsEmpty'
  BY <1>0, <1>3, <1>4, <1>5 DEF AloneFillsEmpty, OthersStay, OthersMeet
<1> QED
  BY <1>0, <1>2, <1>6, <1>7, <1>8, <1>9 DEF StorageInv, ReadsAreTrue, FilesAreAsMeant

\* A write that goes into nothing, or any other call, ends and leaves the files.
LEMMA EndInv ==
  ASSUME StorageInv, NEW t \in StorageTasks, \A f \in FileNames : ~Filling(t, f),
         storageCall' = [storageCall EXCEPT ![t] = NoStorageCall],
         UNCHANGED <<files, meant>>, readsTrue'
  PROVE  StorageInv'
<1>0. /\ StorageTypeOK /\ FilesAreAsMeant
      /\ AloneMeetsNoWrite /\ AloneFillsEmpty
      /\ \A j \in StorageKeys : FileOf(j) \in FileNames
  BY DEF StorageInv, ReadsAreTrue, FileNames
<1>1. /\ storageCall' \in [StorageTasks -> {NoStorageCall} \cup StorageCall]
      /\ storageCall'[t] = NoStorageCall
      /\ OthersStay(t)
  BY <1>0, OnlyOneFacts
<1>2. StorageTypeOK'
  BY <1>0, <1>1 DEF StorageTypeOK
<1>3. FilesAreAsMeant'
  BY <1>0, <1>1, OtherFilesStay DEF FilesAreAsMeant
<1>4. AloneMeetsNoWrite'
  BY <1>0, <1>1, EndMeetsNoWrite
<1>5. \A f \in FileNames : ~Filling(t, f)'
  BY <1>1 DEF Filling, On
<1>6. AloneFillsEmpty'
  BY <1>0, <1>1, <1>5 DEF AloneFillsEmpty, OthersStay
<1> QED
  BY <1>2, <1>3, <1>4, <1>6 DEF StorageInv, ReadsAreTrue

\* A write into the file of key k ends; what it leaves is among what it means.
LEMMA FillEndInv ==
  ASSUME StorageInv, NEW t \in StorageTasks, NEW k \in StorageKeys,
         NEW content \in Contents, NEW contents \in SUBSET Contents,
         Filling(t, FileOf(k)),
         content \in contents \/ (content = Empty /\ ~Alone(FileOf(k))'),
         files' = [files EXCEPT ![FileOf(k)] = content],
         meant' = Mean(FileOf(k), contents),
         storageCall' = [Disturb(t, FileOf(k)) EXCEPT ![t] = NoStorageCall],
         readsTrue' = readsTrue
  PROVE  StorageInv'
<1> DEFINE f == FileOf(k)
<1>0. /\ StorageTypeOK /\ readsTrue /\ FilesAreAsMeant
      /\ AloneMeetsNoWrite /\ AloneFillsEmpty
      /\ f \in FileNames /\ \A j \in StorageKeys : FileOf(j) \in FileNames
  BY DEF StorageInv, ReadsAreTrue, FileNames
<1>1. /\ storageCall' \in [StorageTasks -> {NoStorageCall} \cup StorageCall]
      /\ storageCall'[t] = NoStorageCall
      /\ OthersStay(t)
      /\ OthersMeet(t, f)
  BY <1>0, DisturbFacts
<1>2. /\ \A g \in FileNames \ {f} : ~Filling(t, g)
      /\ \A g \in FileNames : ~Filling(t, g)'
  BY <1>1, OneFile DEF Filling, On
<1>3. files'[f] = content /\ \A g \in FileNames \ {f} : files'[g] = files[g]
  BY <1>0 DEF StorageTypeOK
<1>4. \A j \in StorageKeys :
        meant'[j] = IF FileOf(j) = f THEN contents ELSE meant[j]
  BY DEF Mean
<1>5. StorageTypeOK'
  <2>1. files' \in [FileNames -> Contents]
    BY <1>0 DEF StorageTypeOK
  <2>2. meant' \in [StorageKeys -> SUBSET Contents]
    BY <1>0 DEF StorageTypeOK, Mean
  <2> QED
    BY <1>0, <1>1, <2>1, <2>2 DEF StorageTypeOK
<1>6. ASSUME NEW j \in StorageKeys
      PROVE  \/ files'[FileOf(j)] \in meant'[j]
             \/ files'[FileOf(j)] = Empty /\ ~Alone(FileOf(j))'
  <2>1. CASE FileOf(j) = f
    BY <1>3, <1>4, <2>1
  <2>2. CASE FileOf(j) # f
    BY <1>0, <1>1, <1>2, <1>3, <1>4, <2>2, OtherFilesStay
  <2> QED
    BY <2>1, <2>2
<1>7. AloneMeetsNoWrite'
  BY <1>0, <1>1, EndMeetsNoWrite
<1>8. AloneFillsEmpty'
  BY <1>0, <1>1, <1>2, <1>3 DEF AloneFillsEmpty, OthersStay, OthersMeet
<1> QED
  BY <1>0, <1>5, <1>6, <1>7, <1>8 DEF StorageInv, ReadsAreTrue, FilesAreAsMeant

\* A write that is alone has an empty file before it and leaves its value; one
\* that is not means what it may leave.
LEMMA SetFinishInv ==
  ASSUME StorageInv, NEW t \in StorageTasks, SetFinish(t)
  PROVE  StorageInv'
<1> DEFINE k == storageCall[t].key
           value == storageCall[t].value
<1>0. StorageTypeOK /\ readsTrue /\ AloneFillsEmpty
  BY DEF StorageInv, ReadsAreTrue
<1>1. /\ storageCall[t].at = "filling" /\ k \in StorageKeys /\ value \in StorageValues
      /\ FileOf(k) \in FileNames /\ On(t, FileOf(k))
      /\ readsTrue' = readsTrue
  BY <1>0, StorageCallTypes DEF SetFinish, On
<1>2. CASE storageCall[t].unlinked
  <2>1. /\ UNCHANGED <<files, meant>>
        /\ storageCall' = [storageCall EXCEPT ![t] = NoStorageCall]
    BY <1>2 DEF SetFinish
  <2>2. \A f \in FileNames : ~Filling(t, f)
    BY <1>2 DEF Filling
  <2> QED
    BY <1>0, <1>1, <2>1, <2>2, EndInv
<1>3. CASE ~storageCall[t].unlinked
  <2> DEFINE contents == {value} \cup (IF storageCall[t].alone THEN {} ELSE {Torn})
  <2>1. PICK content \in {value, Torn} :
          /\ files[FileOf(k)] = Empty => content = value
          /\ files' = [files EXCEPT ![FileOf(k)] = content]
    BY <1>3 DEF SetFinish
  <2>2. /\ meant' = Mean(FileOf(k), contents)
        /\ storageCall' = [Disturb(t, FileOf(k)) EXCEPT ![t] = NoStorageCall]
    BY <1>3 DEF SetFinish
  <2>3. Filling(t, FileOf(k))
    BY <1>1, <1>3 DEF Filling
  <2>4. content \in Contents /\ contents \in SUBSET Contents
    BY <1>1 DEF Contents
  <2>5. content \in contents
    BY <1>0, <1>1, <2>1, <2>3 DEF AloneFillsEmpty
  <2>6. files' = [files EXCEPT ![FileOf(k)] = content]
    BY <2>1
  <2> HIDE DEF contents, k, value
  <2> QED
    BY <1>1, <2>2, <2>3, <2>4, <2>5, <2>6, FillEndInv
<1> QED
  BY <1>2, <1>3

\* A write that fails leaves what was there, or a part.
LEMMA CallFailsInv ==
  ASSUME StorageInv, NEW t \in StorageTasks, CallFails(t)
  PROVE  StorageInv'
<1> DEFINE k == storageCall[t].key
<1>0. StorageTypeOK /\ readsTrue /\ FilesAreAsMeant
  BY DEF StorageInv, ReadsAreTrue
<1>1. /\ storageCall[t] # NoStorageCall /\ k \in StorageKeys
      /\ FileOf(k) \in FileNames /\ On(t, FileOf(k))
      /\ readsTrue' = readsTrue
  BY <1>0, StorageCallTypes DEF CallFails, On
<1>2. CASE Filling(t, FileOf(k))
  <2> DEFINE contents == meant[k] \cup {Empty, Torn}
  <2>1. PICK content \in {files[FileOf(k)], Torn} :
          files' = [files EXCEPT ![FileOf(k)] = content]
    BY <1>2 DEF CallFails
  <2>2. /\ meant' = Mean(FileOf(k), contents)
        /\ storageCall' = [Disturb(t, FileOf(k)) EXCEPT ![t] = NoStorageCall]
    BY <1>2 DEF CallFails
  <2>3. content \in Contents /\ contents \in SUBSET Contents
    BY <1>0, <1>1 DEF Contents, StorageTypeOK
  <2>4. content \in contents
    BY <1>0, <1>1 DEF FilesAreAsMeant
  <2> HIDE DEF contents, k
  <2> QED
    BY <1>1, <1>2, <2>1, <2>2, <2>3, <2>4, FillEndInv
<1>3. CASE ~Filling(t, FileOf(k))
  <2>1. /\ storageCall' = [storageCall EXCEPT ![t] = NoStorageCall]
        /\ UNCHANGED <<files, meant>>
    BY <1>3 DEF CallFails
  <2>2. \A f \in FileNames : ~Filling(t, f)
    BY <1>1, <1>3, OneFile DEF Filling
  <2> QED
    BY <1>0, <1>1, <2>1, <2>2, EndInv
<1> QED
  BY <1>2, <1>3

LEMMA GetMissingInv ==
  ASSUME StorageInv, NEW t \in StorageTasks, NEW k \in StorageKeys,
         GetMissing(t, k)
  PROVE  StorageInv'
<1>0. /\ StorageTypeOK /\ FilesAreAsMeant
      /\ AloneMeetsNoWrite /\ AloneFillsEmpty
  BY DEF StorageInv, ReadsAreTrue
<1>1. /\ files[FileOf(k)] = Missing
      /\ readsTrue' = (Missing \in meant[k])
      /\ UNCHANGED <<files, storageCall, meant>>
  BY DEF GetMissing
<1>2. readsTrue' = TRUE
  BY <1>0, <1>1, ContentsAssumption DEF FilesAreAsMeant
<1>3. StorageTypeOK'
  BY <1>0, <1>1, <1>2 DEF StorageTypeOK
<1>4. FilesAreAsMeant' /\ AloneMeetsNoWrite' /\ AloneFillsEmpty'
  BY <1>0, <1>1
  DEF FilesAreAsMeant, AloneMeetsNoWrite, AloneFillsEmpty, Alone, Filling, Reading, On
<1> QED
  BY <1>2, <1>3, <1>4 DEF StorageInv, ReadsAreTrue

\* get and delete begin: one more is there, alone if nobody writes.
LEMMA AccessBeginInv ==
  ASSUME StorageInv, NEW t \in StorageTasks, NEW k \in StorageKeys,
         GetBegin(t, k) \/ DeleteBegin(t, k)
  PROVE  StorageInv'
<1> DEFINE f == FileOf(k)
<1>0. /\ StorageTypeOK /\ readsTrue /\ FilesAreAsMeant
      /\ AloneMeetsNoWrite /\ AloneFillsEmpty
      /\ f \in FileNames /\ \A j \in StorageKeys : FileOf(j) \in FileNames
  BY DEF StorageInv, ReadsAreTrue, FileNames
<1>1. /\ storageCall[t] = NoStorageCall
      /\ UNCHANGED <<files, meant, readsTrue>>
  BY DEF GetBegin, DeleteBegin
<1>2. PICK at \in {"reading", "removing"} :
        storageCall' = [storageCall EXCEPT ![t] = Begins(t, at, k)]
  BY DEF GetBegin, DeleteBegin
<1> DEFINE call == Begins(t, at, k)
<1>3. /\ call \in {NoStorageCall} \cup StorageCall
      /\ call.key = k /\ call.at # "filling"
      /\ call.alone <=> Alone(f)
  BY DEF StorageCall, StorageAccess, Alone, Begins
<1> HIDE DEF call
<1>4. /\ storageCall' \in [StorageTasks -> {NoStorageCall} \cup StorageCall]
      /\ storageCall'[t] = call
      /\ OthersStay(t)
  BY <1>0, <1>2, <1>3, OnlyOneFacts DEF call
<1>5. /\ \A g \in FileNames : ~Filling(t, g) /\ ~Filling(t, g)'
      /\ \A g \in FileNames : Reading(t, g)' => g = f
  BY <1>1, <1>3, <1>4 DEF Filling, Reading, On
<1>6. StorageTypeOK'
  BY <1>0, <1>1, <1>4 DEF StorageTypeOK
<1>7. FilesAreAsMeant'
  BY <1>0, <1>1, <1>4, <1>5, OtherFilesStay DEF FilesAreAsMeant
<1>8. AloneMeetsNoWrite'
  <2> SUFFICES ASSUME NEW p \in StorageTasks, NEW u \in StorageTasks,
                      NEW g \in FileNames, Filling(p, g)' \/ Reading(p, g)',
                      storageCall'[p].alone, Filling(u, g)', p # u
               PROVE  FALSE
    BY DEF AloneMeetsNoWrite
  <2>1. u # t /\ Filling(u, g)
    BY <1>4, <1>5 DEF OthersStay
  <2>2. CASE p = t
    <3>1. g = f /\ Alone(f)
      BY <1>3, <1>4, <1>5, <2>2
    <3> QED
      BY <2>1, <3>1 DEF Alone
  <2>3. CASE p # t
    BY <1>0, <1>4, <2>1, <2>3 DEF OthersStay, AloneMeetsNoWrite
  <2> QED
    BY <2>2, <2>3
<1>9. AloneFillsEmpty'
  BY <1>0, <1>1, <1>4, <1>5 DEF AloneFillsEmpty, OthersStay
<1> QED
  BY <1>0, <1>1, <1>6, <1>7, <1>8, <1>9 DEF StorageInv, ReadsAreTrue

\* A get that met no write finds what is meant: nobody is filling the file.
LEMMA GetFinishInv ==
  ASSUME StorageInv, NEW t \in StorageTasks, GetFinish(t)
  PROVE  StorageInv'
<1> DEFINE k == storageCall[t].key
<1>0. StorageTypeOK /\ readsTrue /\ FilesAreAsMeant /\ AloneMeetsNoWrite
  BY DEF StorageInv, ReadsAreTrue
<1>1. /\ storageCall[t].at = "reading" /\ k \in StorageKeys
      /\ FileOf(k) \in FileNames /\ On(t, FileOf(k))
      /\ storageCall' = [storageCall EXCEPT ![t] = NoStorageCall]
      /\ UNCHANGED <<files, meant>>
  BY <1>0, StorageCallTypes DEF GetFinish, On
<1>2. \A f \in FileNames : ~Filling(t, f)
  BY <1>1 DEF Filling
<1>3. storageCall[t].alone => files[FileOf(k)] \in meant[k]
  <2> SUFFICES ASSUME storageCall[t].alone PROVE files[FileOf(k)] \in meant[k]
    OBVIOUS
  <2>1. Alone(FileOf(k))
    BY <1>0, <1>1, <1>2 DEF AloneMeetsNoWrite, Alone, Reading
  <2> QED
    BY <1>0, <1>1, <2>1 DEF FilesAreAsMeant
<1>4. readsTrue'
  BY <1>0, <1>3 DEF GetFinish
<1> QED
  BY <1>1, <1>2, <1>4, EndInv

\* A removal takes the file from under those who write it: nothing is meant to
\* be there, and nothing is.
LEMMA DeleteFinishInv ==
  ASSUME StorageInv, NEW t \in StorageTasks, DeleteFinish(t)
  PROVE  StorageInv'
<1> DEFINE k == storageCall[t].key
           f == FileOf(k)
           cut(u) == [storageCall[u] EXCEPT !.unlinked = TRUE]
<1>0. /\ StorageTypeOK /\ readsTrue /\ FilesAreAsMeant
      /\ AloneMeetsNoWrite /\ AloneFillsEmpty
      /\ \A j \in StorageKeys : FileOf(j) \in FileNames
  BY DEF StorageInv, ReadsAreTrue, FileNames
<1>1. storageCall[t].at = "removing" /\ k \in StorageKeys /\ f \in FileNames
  BY <1>0, StorageCallTypes DEF DeleteFinish
<1>2. /\ files' = [files EXCEPT ![f] = Missing]
      /\ meant' = Mean(f, {Missing})
      /\ storageCall' = [u \in StorageTasks |->
                           IF u = t THEN NoStorageCall
                           ELSE IF Filling(u, f) THEN cut(u) ELSE storageCall[u]]
      /\ readsTrue' = readsTrue
  BY DEF DeleteFinish
<1> HIDE DEF k
<1>3. ASSUME NEW u \in StorageTasks, Filling(u, f)
      PROVE  /\ cut(u) \in StorageCall /\ cut(u) # NoStorageCall
             /\ cut(u).at = storageCall[u].at /\ cut(u).key = storageCall[u].key
             /\ cut(u).unlinked
  <2>1. storageCall[u] \in StorageWrite
    BY <1>0, <1>3, StorageCallTypes DEF Filling
  <2> QED
    BY <2>1, MadeUnlinked
<1> HIDE DEF cut
<1>4. storageCall' \in [StorageTasks -> {NoStorageCall} \cup StorageCall]
  BY <1>0, <1>2, <1>3 DEF StorageTypeOK
<1>5. ASSUME NEW u \in StorageTasks, NEW g \in FileNames
      PROVE  /\ Filling(u, g)' => Filling(u, g) /\ g # f
             /\ Reading(u, g)' => Reading(u, g)
             /\ Filling(u, g)' \/ Reading(u, g)' => storageCall'[u] = storageCall[u]
             /\ Filling(u, g) /\ g # f => Filling(u, g)'
  <2>1. CASE u = t
    <3>1. storageCall'[u] = NoStorageCall
      BY <1>2, <2>1
    <3> QED
      BY <1>1, <2>1, <3>1 DEF Filling, Reading, On
  <2>2. CASE u # t /\ Filling(u, f)
    <3>1. storageCall'[u] = cut(u)
      BY <1>2, <2>2
    <3>2. cut(u).unlinked /\ cut(u).at = "filling" /\ storageCall[u].at = "filling"
      BY <1>3, <2>2 DEF Filling
    <3>3. ~Filling(u, g)' /\ ~Reading(u, g)'
      BY <3>1, <3>2 DEF Filling, Reading
    <3>4. Filling(u, g) => g = f
      BY <2>2, OneFile DEF Filling
    <3> QED
      BY <3>3, <3>4
  <2>3. CASE u # t /\ ~Filling(u, f)
    <3>1. storageCall'[u] = storageCall[u]
      BY <1>2, <2>3
    <3> QED
      BY <2>3, <3>1 DEF Filling, Reading, On
  <2> QED
    BY <2>1, <2>2, <2>3
<1>6. files'[f] = Missing /\ \A g \in FileNames \ {f} : files'[g] = files[g]
  BY <1>0, <1>1, <1>2 DEF StorageTypeOK
<1>7. \A j \in StorageKeys :
        meant'[j] = IF FileOf(j) = f THEN {Missing} ELSE meant[j]
  BY <1>2 DEF Mean
<1>8. StorageTypeOK'
  <2>1. files' \in [FileNames -> Contents]
    BY <1>0, <1>2 DEF StorageTypeOK, Contents
  <2>2. meant' \in [StorageKeys -> SUBSET Contents]
    BY <1>0, <1>2 DEF StorageTypeOK, Mean, Contents
  <2> QED
    BY <1>0, <1>2, <1>4, <2>1, <2>2 DEF StorageTypeOK
<1>9. ASSUME NEW j \in StorageKeys
      PROVE  \/ files'[FileOf(j)] \in meant'[j]
             \/ files'[FileOf(j)] = Empty /\ ~Alone(FileOf(j))'
  <2>1. CASE FileOf(j) = f
    BY <1>6, <1>7, <2>1
  <2>2. CASE FileOf(j) # f
    <3>1. files'[FileOf(j)] = files[FileOf(j)] /\ meant'[j] = meant[j]
      BY <1>0, <1>6, <1>7, <2>2
    <3>2. ~Alone(FileOf(j)) => ~Alone(FileOf(j))'
      BY <1>0, <1>5, <2>2 DEF Alone
    <3> QED
      BY <1>0, <3>1, <3>2 DEF FilesAreAsMeant
  <2> QED
    BY <2>1, <2>2
<1>10. AloneMeetsNoWrite'
  BY <1>0, <1>5 DEF AloneMeetsNoWrite
<1>11. AloneFillsEmpty'
  BY <1>0, <1>5, <1>6 DEF AloneFillsEmpty
<1> QED
  BY <1>0, <1>2, <1>8, <1>9, <1>10, <1>11 DEF StorageInv, ReadsAreTrue, FilesAreAsMeant

\* A crash ends every call and may tear the files that were being filled.
LEMMA StorageCrashInv == StorageInv /\ StorageCrash => StorageInv'
<1> SUFFICES ASSUME StorageInv, StorageCrash PROVE StorageInv'
  OBVIOUS
<1> DEFINE open == {f \in FileNames : ~Alone(f)}
<1>0. /\ StorageTypeOK /\ readsTrue /\ FilesAreAsMeant
      /\ \A j \in StorageKeys : FileOf(j) \in FileNames
  BY DEF StorageInv, ReadsAreTrue, FileNames
<1>1. PICK torn \in SUBSET open :
        files' = [f \in FileNames |-> IF f \in torn THEN Torn ELSE files[f]]
  BY DEF StorageCrash
<1>2. /\ meant' = [k \in StorageKeys |->
                     IF FileOf(k) \in open THEN meant[k] \cup {Empty, Torn}
                     ELSE meant[k]]
      /\ storageCall' = [t \in StorageTasks |-> NoStorageCall]
      /\ readsTrue' = readsTrue
  BY DEF StorageCrash
<1>3. StorageTypeOK'
  <2>1. files' \in [FileNames -> Contents]
    BY <1>0, <1>1 DEF StorageTypeOK, Contents
  <2>2. meant' \in [StorageKeys -> SUBSET Contents]
    BY <1>0, <1>2 DEF StorageTypeOK, Contents
  <2>3. storageCall' \in [StorageTasks -> {NoStorageCall} \cup StorageCall]
    BY <1>2
  <2> QED
    BY <1>0, <1>2, <2>1, <2>2, <2>3 DEF StorageTypeOK
<1>4. ASSUME NEW k \in StorageKeys PROVE files'[FileOf(k)] \in meant'[k]
  <2>1. CASE FileOf(k) \in open
    <3>1. files'[FileOf(k)] \in {files[FileOf(k)], Torn}
      BY <1>0, <1>1
    <3>2. meant'[k] = meant[k] \cup {Empty, Torn}
      BY <1>2, <2>1
    <3> QED
      BY <1>0, <3>1, <3>2 DEF FilesAreAsMeant
  <2>2. CASE FileOf(k) \notin open
    <3>1. files'[FileOf(k)] = files[FileOf(k)] /\ meant'[k] = meant[k]
      BY <1>0, <1>1, <1>2, <2>2
    <3>2. Alone(FileOf(k))
      BY <1>0, <2>2
    <3> QED
      BY <1>0, <3>1, <3>2 DEF FilesAreAsMeant
  <2> QED
    BY <2>1, <2>2
<1>5. AloneMeetsNoWrite' /\ AloneFillsEmpty'
  BY <1>2 DEF AloneMeetsNoWrite, AloneFillsEmpty, Filling, Reading, On
<1> QED
  BY <1>0, <1>2, <1>3, <1>4, <1>5 DEF StorageInv, ReadsAreTrue, FilesAreAsMeant

\* What the files hold, what the calls meant them to hold and who has met a
\* write fit together, failures and crashes included.
THEOREM StorageInvariant == StorageSpec => []StorageInv
<1>1. StorageInv /\ [StorageNext]_storageVars => StorageInv'
  <2> SUFFICES ASSUME StorageInv, [StorageNext]_storageVars PROVE StorageInv'
    OBVIOUS
  <2>1. ASSUME NEW t \in StorageTasks, NEW k \in StorageKeys,
               NEW value \in StorageValues, SetBegin(t, k, value)
        PROVE  StorageInv'
    BY <2>1, SetBeginInv
  <2>2. ASSUME NEW t \in StorageTasks, NEW k \in StorageKeys, GetMissing(t, k)
        PROVE  StorageInv'
    BY <2>2, GetMissingInv
  <2>3. ASSUME NEW t \in StorageTasks, NEW k \in StorageKeys,
               GetBegin(t, k) \/ DeleteBegin(t, k)
        PROVE  StorageInv'
    BY <2>3, AccessBeginInv
  <2>4. ASSUME NEW t \in StorageTasks, SetFinish(t) \/ CallFails(t) PROVE StorageInv'
    BY <2>4, SetFinishInv, CallFailsInv
  <2>5. ASSUME NEW t \in StorageTasks, GetFinish(t) PROVE StorageInv'
    BY <2>5, GetFinishInv
  <2>6. ASSUME NEW t \in StorageTasks, DeleteFinish(t) PROVE StorageInv'
    BY <2>6, DeleteFinishInv
  <2>7. CASE UNCHANGED storageVars
    <3>1. UNCHANGED <<files, storageCall, meant, readsTrue>>
      BY <2>7 DEF storageVars
    <3> QED
      BY <3>1
      DEF StorageInv, StorageTypeOK, ReadsAreTrue, FilesAreAsMeant, AloneMeetsNoWrite,
          AloneFillsEmpty, Alone, Filling, Reading, On
  <2> QED
    BY <2>1, <2>2, <2>3, <2>4, <2>5, <2>6, <2>7, StorageCrashInv DEF StorageNext
<1> QED
  BY StorageInitInv, <1>1, PTL DEF StorageSpec

\* A get that meets no write to its file answers what the keys with its file name
\* were last made to hold, and every file holds that or is being written: the
\* value of a set that met no other write, a mixture only after sets that did, a
\* part only after one that failed or was cut short by a crash (yma-storage, get,
\* set and delete), for any keys, any names they are mapped to and any calls.
THEOREM StorageReadsAreTrue == StorageSpec => []ReadsAreTrue
<1>1. StorageInv => ReadsAreTrue
  BY DEF StorageInv
<1> QED
  BY <1>1, StorageInvariant, PTL

(***************************************************************************)
(* WebSocket rooms.  A room that is made takes a channel nobody has had,   *)
(* and a connection moves along its channel one message at a time or, when *)
(* it lags, says so.                                                       *)
(***************************************************************************)
Joined(k) ==
  /\ k.next <= log[k.channel] + 1
  /\ \A i \in k.seen : i < k.next
  /\ ~k.skipped => \E first \in 1 .. k.next : k.seen = first .. (k.next - 1)

Sends(k) == k.send \in {"select"} \cup Writes

LEMMA RoomsInitInv == WsInit => RoomsInv
<1> SUFFICES ASSUME WsInit PROVE RoomsInv
  OBVIOUS
<1>1. NoConn \in WsConn /\ NoConn.channel = 0 /\ NoConn.send = "none"
  BY DEF NoConn, WsConn
<1>2. WsTypeOK
  BY <1>1, WsBounds DEF WsInit, WsTypeOK, Channels
<1>3. RoomDelivery /\ SendersHaveJoined /\ WrittenIsLogged
  BY <1>1 DEF WsInit, RoomDelivery, SendersHaveJoined, Selects, Writing, Writes,
              WrittenIsLogged
<1> QED
  BY <1>2, <1>3 DEF RoomsInv

\* A step of one connection that stays in its channel.
LEMMA ConnStepInv ==
  ASSUME RoomsInv, NEW c \in Conns, NEW k \in WsConn,
         conn' = [conn EXCEPT ![c] = k],
         UNCHANGED <<rooms, made, log>>,
         k.channel = conn[c].channel,
         Sends(k) => Sends(conn[c]),
         k.send = "message" => k.next \in 1 .. log[k.channel],
         k.channel # 0 => Joined(k)
  PROVE  RoomsInv'
<1>0. WsTypeOK /\ RoomDelivery /\ SendersHaveJoined /\ WrittenIsLogged
  BY DEF RoomsInv
<1>1. /\ conn' \in [Conns -> WsConn] /\ conn'[c] = k
      /\ \A d \in Conns \ {c} : conn'[d] = conn[d]
  BY <1>0 DEF WsTypeOK
<1>2. WsTypeOK'
  BY <1>0, <1>1 DEF WsTypeOK
<1>3. RoomDelivery'
  <2>1. ASSUME NEW d \in Conns, conn'[d].channel # 0
        PROVE  /\ conn'[d].next <= log'[conn'[d].channel] + 1
               /\ \A i \in conn'[d].seen : i < conn'[d].next
               /\ ~conn'[d].skipped =>
                    \E first \in 1 .. conn'[d].next :
                      conn'[d].seen = first .. (conn'[d].next - 1)
    <3>1. CASE d = c
      BY <1>1, <2>1, <3>1 DEF Joined
    <3>2. CASE d # c
      BY <1>0, <1>1, <2>1, <3>2 DEF RoomDelivery
    <3> QED
      BY <3>1, <3>2
  <2>2. \A d \in Conns : conn'[d].channel <= made'
    BY <1>0, <1>1 DEF RoomDelivery
  <2> QED
    BY <1>0, <2>1, <2>2 DEF RoomDelivery
<1>4. SendersHaveJoined'
  BY <1>0, <1>1 DEF SendersHaveJoined, Selects, Writing, Sends
<1>5. WrittenIsLogged'
  BY <1>0, <1>1 DEF WrittenIsLogged
<1> QED
  BY <1>2, <1>3, <1>4, <1>5 DEF RoomsInv

\* What the invariant says of a connection.
LEMMA ConnFacts ==
  ASSUME RoomsInv, NEW c \in Conns
  PROVE  /\ conn[c] \in WsConn /\ conn[c].channel \in {0} \cup Channels
         /\ conn[c].next \in Nat /\ conn[c].seen \subseteq Nat
         /\ conn[c].channel # 0 =>
              Joined(conn[c]) /\ log[conn[c].channel] \in Nat
         /\ Sends(conn[c]) => conn[c].channel # 0
         /\ conn[c].send = "message" => conn[c].next \in 1 .. log[conn[c].channel]
<1>1. WsTypeOK /\ RoomDelivery /\ SendersHaveJoined /\ WrittenIsLogged
  BY DEF RoomsInv
<1>2. conn[c] \in WsConn
  BY <1>1 DEF WsTypeOK
<1>3. /\ conn[c].channel \in {0} \cup Channels
      /\ conn[c].next \in Nat /\ conn[c].seen \subseteq Nat
  BY <1>2 DEF WsConn
<1>4. conn[c].channel # 0 =>
        Joined(conn[c]) /\ log[conn[c].channel] \in Nat
  BY <1>1, <1>3 DEF Joined, RoomDelivery, WsTypeOK
<1> QED
  BY <1>1, <1>2, <1>3, <1>4
  DEF SendersHaveJoined, Selects, Writing, Sends, WrittenIsLogged

\* The tasks of a connection and its client.
LEMMA OldestKeptFacts ==
  ASSUME NEW ch, log[ch] \in Nat
  PROVE  OldestKept(ch) \in Nat \ {0} /\ OldestKept(ch) <= log[ch] + 1
BY WsBounds DEF OldestKept

LEMMA ReadOn ==
  ASSUME NEW k \in WsConn, NEW n \in Nat, NEW read \in SUBSET Nat
  PROVE  [k EXCEPT !.send = "select", !.next = n, !.seen = read] \in WsConn
BY DEF WsConn

\* A write is begun: a message is one the channel has.
LEMMA BeginsToWriteInv ==
  ASSUME RoomsInv, NEW c \in Conns,
         SendMessage(c) \/ SendPing(c) \/ SendTold(c)
  PROVE  RoomsInv'
<1> DEFINE k == conn[c]
           ch == conn[c].channel
<1>1. PICK frame \in Writes :
        /\ BeginsToWrite(c, frame)
        /\ frame = "message" => k.next \in OldestKept(ch) .. log[ch]
  BY DEF SendMessage, SendPing, SendTold, Writes
<1>2. /\ k \in WsConn /\ ch # 0 /\ log[ch] \in Nat /\ k.next \in Nat
      /\ Joined(k) /\ Sends(k)
  BY ConnFacts DEF SendMessage, SendPing, SendTold, Selects, Sends
<1> DEFINE l == [k EXCEPT !.send = frame]
<1>3. conn' = [conn EXCEPT ![c] = l] /\ UNCHANGED <<rooms, made, log>>
  BY <1>1 DEF BeginsToWrite
<1>4. l \in WsConn
  BY <1>2 DEF WsConn
<1>5. /\ l.channel = ch /\ l.next = k.next /\ l.seen = k.seen
      /\ l.skipped = k.skipped /\ l.send = frame
  BY <1>2 DEF WsConn
<1> HIDE DEF l
<1>6. Joined(l)
  BY <1>2, <1>5 DEF Joined
<1>7. OldestKept(ch) \in Nat \ {0}
  BY <1>2, OldestKeptFacts
<1>8. l.send = "message" => l.next \in 1 .. log[l.channel]
  BY <1>1, <1>2, <1>5, <1>7
<1> QED
  BY <1>2, <1>3, <1>4, <1>5, <1>6, <1>8, ConnStepInv

\* A write is done: the message written is the next one.
LEMMA WriteDoneInv ==
  ASSUME RoomsInv, NEW c \in Conns, WriteDone(c)
  PROVE  RoomsInv'
<1> DEFINE k == conn[c]
           ch == conn[c].channel
<1>1. /\ k \in WsConn /\ ch # 0 /\ log[ch] \in Nat /\ k.next \in Nat
      /\ k.seen \subseteq Nat /\ Joined(k) /\ Sends(k)
      /\ k.send = "message" => k.next \in 1 .. log[ch]
  BY ConnFacts DEF WriteDone, Writing, Sends
<1>2. UNCHANGED <<rooms, made, log>> /\ k.send \in Writes
  BY DEF WriteDone, Writing
<1>3. CASE k.send = "message"
  <2> DEFINE l == [k EXCEPT !.send = "select", !.next = k.next + 1,
                            !.seen = k.seen \cup {k.next}]
  <2>1. conn' = [conn EXCEPT ![c] = l]
    BY <1>3 DEF WriteDone
  <2>2. l \in WsConn
    <3>1. k.next + 1 \in Nat /\ k.seen \cup {k.next} \in SUBSET Nat
      BY <1>1
    <3>2. k \in WsConn
      BY <1>1
    <3> QED
      BY <3>1, <3>2, ReadOn
  <2>3. /\ l.channel = ch /\ l.next = k.next + 1 /\ l.seen = k.seen \cup {k.next}
        /\ l.skipped = k.skipped /\ l.send = "select"
    BY <1>1 DEF WsConn
  <2> HIDE DEF l
  <2>4. \A i \in l.seen : i < l.next
    BY <1>1, <2>3 DEF Joined
  <2>5. ASSUME ~l.skipped
        PROVE  \E first \in 1 .. l.next : l.seen = first .. (l.next - 1)
    <3>1. PICK first \in 1 .. k.next : k.seen = first .. (k.next - 1)
      BY <1>1, <2>3, <2>5 DEF Joined
    <3>2. first \in 1 .. l.next /\ l.seen = first .. (l.next - 1)
      BY <1>1, <1>3, <2>3, <3>1
    <3> QED
      BY <3>2
  <2>6. Joined(l)
    <3>1. l.next <= log[l.channel] + 1
      BY <1>1, <1>3, <2>3
    <3> QED
      BY <2>4, <2>5, <3>1 DEF Joined
  <2> QED
    BY <1>1, <1>2, <2>1, <2>2, <2>3, <2>6, ConnStepInv
<1>4. CASE k.send # "message"
  <2>1. PICK then \in {"ended", "select"} :
          conn' = [conn EXCEPT ![c] = [k EXCEPT !.send = then, !.next = k.next,
                                                !.seen = k.seen]]
    <3>1. CASE k.send = "close"
      BY <1>4, <3>1 DEF WriteDone
    <3>2. CASE k.send # "close"
      BY <1>4, <3>2 DEF WriteDone
    <3> QED
      BY <3>1, <3>2
  <2> DEFINE l == [k EXCEPT !.send = then, !.next = k.next, !.seen = k.seen]
  <2>2. l \in WsConn
    BY <1>1 DEF WsConn
  <2>3. /\ l.channel = ch /\ l.next = k.next /\ l.seen = k.seen
        /\ l.skipped = k.skipped /\ l.send = then
    BY <1>1 DEF WsConn
  <2>4. conn' = [conn EXCEPT ![c] = l]
    BY <2>1
  <2> HIDE DEF l
  <2>5. Joined(l)
    BY <1>1, <2>3 DEF Joined
  <2> QED
    BY <1>1, <1>2, <2>2, <2>3, <2>4, <2>5, ConnStepInv
<1> QED
  BY <1>3, <1>4

LEMMA SendLagsInv ==
  ASSUME RoomsInv, NEW c \in Conns, SendLags(c)
  PROVE  RoomsInv'
<1> DEFINE k == conn[c]
           ch == conn[c].channel
           l == [k EXCEPT !.next = OldestKept(ch), !.skipped = TRUE]
<1>1. /\ k \in WsConn /\ ch # 0 /\ log[ch] \in Nat
      /\ k.next \in Nat /\ k.seen \subseteq Nat
      /\ Joined(k) /\ Sends(k) /\ k.send = "select"
  BY ConnFacts DEF SendLags, Selects, Sends
<1>2. /\ OldestKept(ch) \in Nat /\ OldestKept(ch) <= log[ch] + 1
      /\ k.next < OldestKept(ch)
  BY <1>1, OldestKeptFacts DEF SendLags
<1>3. UNCHANGED <<rooms, made, log>> /\ conn' = [conn EXCEPT ![c] = l]
  BY DEF SendLags
<1>4. l \in WsConn
  BY <1>1, <1>2 DEF WsConn
<1>5. /\ l.channel = ch /\ l.next = OldestKept(ch) /\ l.seen = k.seen
      /\ l.skipped /\ l.send = k.send
  BY <1>1 DEF WsConn
<1> HIDE DEF l
<1>6. \A i \in l.seen : i < l.next
  BY <1>1, <1>2, <1>5 DEF Joined
<1>7. Joined(l)
  BY <1>2, <1>5, <1>6 DEF Joined
<1> QED
  BY <1>1, <1>3, <1>4, <1>5, <1>7, ConnStepInv

\* Tasks that end, and clients that go.
LEMMA ConnEndsInv ==
  ASSUME RoomsInv, NEW c \in Conns,
         WriteFails(c) \/ SendSeesClosed(c) \/ ReceiveEnds(c) \/ ClientGoes(c)
  PROVE  RoomsInv'
<1> DEFINE k == conn[c]
<1>1. k \in WsConn /\ (k.channel # 0 => Joined(k))
      /\ (k.send = "message" => k.next \in 1 .. log[k.channel])
  BY ConnFacts
<1>2. PICK l \in {[k EXCEPT !.send = "ended"], [k EXCEPT !.recv = "ended"]}
           \cup {[k EXCEPT !.client = fate] : fate \in {"closing", "lost"}} :
        conn' = [conn EXCEPT ![c] = l] /\ UNCHANGED <<rooms, made, log>>
  BY DEF WriteFails, SendSeesClosed, ReceiveEnds, ClientGoes
<1>3. /\ l \in WsConn
      /\ l.channel = k.channel /\ l.next = k.next /\ l.seen = k.seen
      /\ l.skipped = k.skipped /\ (l.send = k.send \/ l.send = "ended")
  BY <1>1, <1>2 DEF WsConn
<1>4. l.channel # 0 => Joined(l)
  BY <1>1, <1>3 DEF Joined
<1>5. Sends(l) => Sends(k)
  BY <1>3 DEF Sends, Writes
<1>6. l.send = "message" => l.next \in 1 .. log[l.channel]
  BY <1>1, <1>3
<1> QED
  BY <1>2, <1>3, <1>4, <1>5, <1>6, ConnStepInv

LEMMA JoinInv ==
  ASSUME RoomsInv, NEW c \in Conns, NEW r \in RoomIds, Join(c, r)
  PROVE  RoomsInv'
<1>0. WsTypeOK /\ RoomDelivery /\ SendersHaveJoined /\ WrittenIsLogged
  BY DEF RoomsInv
<1> DEFINE ch == IF rooms[r] = 0 THEN made + 1 ELSE rooms[r]
           k == [channel |-> ch, next |-> log[ch] + 1, seen |-> {},
                 skipped |-> FALSE, client |-> "connected",
                 send |-> "select", recv |-> "running"]
<1>1. /\ ch \in Channels
      /\ made' = IF rooms[r] = 0 THEN ch ELSE made
      /\ rooms' = [rooms EXCEPT ![r] = ch]
      /\ conn' = [conn EXCEPT ![c] = k]
      /\ log' = log
  BY DEF Join
<1>2. /\ log[ch] \in Nat /\ made \in Nat /\ ch \in Nat \ {0}
      /\ \A q \in RoomIds : rooms[q] \in Nat
      /\ \A d \in Conns : conn[d].channel \in Nat
  <2>1. made \in Nat /\ ch \in Nat \ {0} /\ log[ch] \in Nat
    BY <1>0, <1>1, WsBounds DEF WsTypeOK, Channels
  <2>2. \A q \in RoomIds : rooms[q] \in Nat
    BY <1>0, WsBounds DEF WsTypeOK, Channels
  <2>3. \A d \in Conns : conn[d].channel \in Nat
    BY ConnFacts, WsBounds DEF Channels
  <2> QED
    BY <2>1, <2>2, <2>3
<1>3. /\ ch <= made' /\ made <= made' /\ made' \in {0} \cup Channels
      /\ \A q \in RoomIds \ {r} : rooms[q] # ch
  BY <1>0, <1>1, <1>2 DEF RoomDelivery, WsTypeOK
<1>4. /\ k \in WsConn
      /\ k.channel = ch /\ k.next = log[ch] + 1 /\ k.seen = {} /\ ~k.skipped
      /\ k.send = "select"
  BY <1>1, <1>2, WsBounds DEF WsConn
<1> HIDE DEF ch, k
<1>5. /\ rooms' \in [RoomIds -> {0} \cup Channels] /\ rooms'[r] = ch
      /\ \A q \in RoomIds \ {r} : rooms'[q] = rooms[q]
      /\ conn' \in [Conns -> WsConn] /\ conn'[c] = k
      /\ \A d \in Conns \ {c} : conn'[d] = conn[d]
  BY <1>0, <1>1, <1>4 DEF WsTypeOK
<1>6. WsTypeOK'
  BY <1>0, <1>1, <1>3, <1>5 DEF WsTypeOK
<1>7. \A p, q \in RoomIds : rooms'[p] # 0 /\ rooms'[p] = rooms'[q] => p = q
  BY <1>0, <1>3, <1>5 DEF RoomDelivery
<1>8. /\ \A q \in RoomIds : rooms'[q] <= made'
      /\ \A d \in Conns : conn'[d].channel <= made'
  <2>1. made' \in Nat
    BY <1>3, WsBounds DEF Channels
  <2> QED
    BY <1>0, <1>2, <1>3, <1>4, <1>5, <2>1 DEF RoomDelivery
<1>9. ASSUME NEW d \in Conns, conn'[d].channel # 0
      PROVE  /\ conn'[d].next <= log'[conn'[d].channel] + 1
             /\ \A i \in conn'[d].seen : i < conn'[d].next
             /\ ~conn'[d].skipped =>
                  \E first \in 1 .. conn'[d].next :
                    conn'[d].seen = first .. (conn'[d].next - 1)
  <2>1. CASE d = c
    <3>1. k.next \in 1 .. k.next /\ k.seen = k.next .. (k.next - 1)
      BY <1>2, <1>4
    <3> QED
      BY <1>1, <1>2, <1>4, <1>5, <2>1, <3>1
  <2>2. CASE d # c
    BY <1>0, <1>1, <1>5, <1>9, <2>2 DEF RoomDelivery
  <2> QED
    BY <2>1, <2>2
<1>10. RoomDelivery'
  BY <1>7, <1>8, <1>9 DEF RoomDelivery
<1>11. SendersHaveJoined'
  BY <1>0, <1>2, <1>4, <1>5 DEF SendersHaveJoined, Selects, Writing
<1>12. WrittenIsLogged'
  BY <1>0, <1>1, <1>4, <1>5 DEF WrittenIsLogged
<1> QED
  BY <1>6, <1>10, <1>11, <1>12 DEF RoomsInv

\* A channel gets one message more, or a room loses its channel.
LEMMA RoomStepInv ==
  ASSUME RoomsInv, NEW r \in RoomIds, BroadcastToRoom(r) \/ RemoveRoom(r)
  PROVE  RoomsInv'
<1>0. WsTypeOK /\ RoomDelivery /\ SendersHaveJoined /\ WrittenIsLogged
  BY DEF RoomsInv
<1>1. CASE BroadcastToRoom(r)
  <2>1. /\ rooms[r] \in Channels
        /\ log' = [log EXCEPT ![rooms[r]] = log[rooms[r]] + 1]
        /\ log[rooms[r]] \in Nat
        /\ UNCHANGED <<rooms, made, conn>>
    BY <1>0, <1>1, WsBounds DEF BroadcastToRoom, RoomCount, WsTypeOK
  <2>2. /\ log' \in [Channels -> Nat]
        /\ \A ch \in Channels : log[ch] \in Nat /\ log'[ch] \in Nat /\ log[ch] <= log'[ch]
    BY <1>0, <2>1, WsBounds DEF WsTypeOK
  <2>3. WsTypeOK'
    BY <1>0, <2>1, <2>2 DEF WsTypeOK
  <2>4. ASSUME NEW d \in Conns, conn[d].channel # 0
        PROVE  conn[d].next <= log'[conn[d].channel] + 1
    BY <2>2, <2>4, ConnFacts DEF Joined
  <2>5. RoomDelivery'
    BY <1>0, <2>1, <2>4 DEF RoomDelivery
  <2>6. WrittenIsLogged'
    <3> SUFFICES ASSUME NEW d \in Conns, conn[d].send = "message"
                 PROVE  conn[d].next \in 1 .. log'[conn[d].channel]
      BY <2>1 DEF WrittenIsLogged
    <3>1. /\ conn[d].channel \in Channels
          /\ conn[d].next \in 1 .. log[conn[d].channel]
      BY ConnFacts DEF Sends, Writes
    <3> QED
      BY <2>2, <3>1
  <2> QED
    BY <1>0, <2>1, <2>3, <2>5, <2>6
    DEF RoomsInv, SendersHaveJoined, Selects, Writing
<1>2. CASE RemoveRoom(r)
  <2>1. rooms' = [rooms EXCEPT ![r] = 0] /\ UNCHANGED <<made, log, conn>>
    BY <1>2 DEF RemoveRoom
  <2>2. \A q \in RoomIds : rooms'[q] = rooms[q] \/ rooms'[q] = 0
    BY <1>0, <2>1 DEF WsTypeOK
  <2>3. WsTypeOK'
    BY <1>0, <2>1 DEF WsTypeOK
  <2>4. made \in Nat
    BY <1>0, WsBounds DEF WsTypeOK, Channels
  <2>5. RoomDelivery'
    BY <1>0, <2>1, <2>2, <2>4 DEF RoomDelivery
  <2> QED
    BY <1>0, <2>1, <2>3, <2>5
    DEF RoomsInv, SendersHaveJoined, Selects, Writing, WrittenIsLogged
<1> QED
  BY <1>1, <1>2

\* Rooms, channels and connections fit together; fairness plays no part.
THEOREM RoomsInvariant == WsInit /\ [][WsNext]_wsVars => []RoomsInv
<1>1. RoomsInv /\ [WsNext]_wsVars => RoomsInv'
  <2> SUFFICES ASSUME RoomsInv, [WsNext]_wsVars PROVE RoomsInv'
    OBVIOUS
  <2>1. ASSUME NEW r \in RoomIds, BroadcastToRoom(r) \/ RemoveRoom(r)
        PROVE  RoomsInv'
    BY <2>1, RoomStepInv
  <2>2. ASSUME NEW c \in Conns, WsTask(c) PROVE RoomsInv'
    BY <2>2, BeginsToWriteInv, WriteDoneInv, SendLagsInv, ConnEndsInv DEF WsTask
  <2>3. ASSUME NEW c \in Conns, ClientGoes(c) PROVE RoomsInv'
    BY <2>3, ConnEndsInv
  <2>4. ASSUME NEW c \in Conns, NEW r \in RoomIds, Join(c, r) PROVE RoomsInv'
    BY <2>4, JoinInv
  <2>5. CASE UNCHANGED wsVars
    BY <2>5 DEF wsVars, RoomsInv, WsTypeOK, RoomDelivery, SendersHaveJoined,
                Selects, Writing, WrittenIsLogged
  <2> QED
    BY <2>1, <2>2, <2>3, <2>4, <2>5 DEF WsNext
<1> QED
  BY RoomsInitInv, <1>1, PTL

\* No room gets another's messages, and a connection that has not lagged has
\* seen every message of its room since it joined up to the last one it saw, each
\* once and in order (yma-websocket, join_room, broadcast_to_room and the tasks
\* of a connection), for any rooms, connections and capacity of the channels.
THEOREM RoomsDeliver == WsInit /\ [][WsNext]_wsVars => []RoomDelivery
<1>1. RoomsInv => RoomDelivery
  BY DEF RoomsInv
<1> QED
  BY <1>1, RoomsInvariant, PTL

(***************************************************************************)
(* Log files.  A write opens the current file only when the counter is     *)
(* below the size asked for, and the file is not further ahead of the      *)
(* counter than FullSize and the lines that are not counted yet            *)
(* (CounterKeepsUp): so there is room for every writer that heads for a    *)
(* file (RoomForWriters).  A roll over finds a file because the lines      *)
(* begun do not fill all of them (LinesWereBegun), and the one it finds    *)
(* comes after full ones only (ChosenInOrder).                             *)
(***************************************************************************)

\* A set of numbers that is not empty has a least one.
LEMMA LeastOf ==
  ASSUME NEW S \in SUBSET Nat, S # {}
  PROVE  \E m \in S : \A i \in S : m <= i
<1> DEFINE R == {ij \in Nat \X Nat : ij[1] < ij[2]}
<1>1. IsWellFoundedOn(R, Nat)
  BY NatLessThanWellFounded DEF OpToRel
<1>2. \E m \in S : \A i \in S : ~(<<i, m>> \in R)
  <2> HIDE DEF R
  <2> QED BY <1>1, WFMin
<1>3. PICK m \in S : \A i \in S : ~(<<i, m>> \in R)
  BY <1>2
<1>4. ASSUME NEW i \in S
      PROVE  m <= i
  <2>1. m \in Nat /\ i \in Nat /\ <<i, m>> \in Nat \X Nat
    OBVIOUS
  <2>2. ~(i < m)
    BY <1>3, <2>1
  <2> QED
    BY <2>1, <2>2
<1> QED
  BY <1>4

\* The sizes of sets of writers.
LEMMA WritersSize ==
  ASSUME NEW S \in SUBSET LogThreads
  PROVE  /\ IsFiniteSet(S) /\ Cardinality(S) \in Nat
         /\ Cardinality(LogThreads) \in Nat
         /\ Cardinality(S) <= Cardinality(LogThreads)
<1>1. IsFiniteSet(LogThreads)
  BY LogBounds
<1>2. IsFiniteSet(S) /\ Cardinality(S) <= Cardinality(LogThreads)
  BY <1>1, FS_Subset
<1> QED
  BY <1>1, <1>2, FS_CardinalityType

LEMMA WritersCome ==
  ASSUME NEW S \in SUBSET LogThreads, NEW t \in LogThreads
  PROVE  /\ t \notin S => Cardinality(S \cup {t}) = Cardinality(S) + 1
         /\ t \in S => Cardinality(S \ {t}) + 1 = Cardinality(S)
         /\ t \notin S => Cardinality(S) + 1 <= Cardinality(LogThreads)
<1>1. IsFiniteSet(S) /\ Cardinality(S) \in Nat
  BY WritersSize
<1>2. /\ t \notin S => Cardinality(S \cup {t}) = Cardinality(S) + 1
      /\ t \in S => Cardinality(S \ {t}) = Cardinality(S) - 1
  BY <1>1, FS_AddElement, FS_RemoveElement
<1>3. S \cup {t} \in SUBSET LogThreads
  OBVIOUS
<1>4. Cardinality(S \cup {t}) <= Cardinality(LogThreads)
  BY <1>3, WritersSize
<1> QED
  BY <1>1, <1>2, <1>4

LEMMA WritersApart ==
  ASSUME NEW S \in SUBSET LogThreads, NEW Q \in SUBSET LogThreads, S \cap Q = {}
  PROVE  Cardinality(S) + Cardinality(Q) <= Cardinality(LogThreads)
<1>1. /\ IsFiniteSet(S) /\ Cardinality(S) \in Nat
      /\ IsFiniteSet(Q) /\ Cardinality(Q) \in Nat
  BY WritersSize
<1>2. Cardinality(S \cup Q) = Cardinality(S) + Cardinality(Q)
  <2>1. Cardinality(S \cup Q) =
          Cardinality(S) + Cardinality(Q) - Cardinality(S \cap Q)
    BY <1>1, FS_Union
  <2>2. Cardinality(S \cap Q) = 0
    BY FS_EmptySet
  <2> QED
    BY <1>1, <2>1, <2>2
<1>3. S \cup Q \in SUBSET LogThreads
  OBVIOUS
<1>4. Cardinality(S \cup Q) <= Cardinality(LogThreads)
  BY <1>3, WritersSize
<1> QED
  BY <1>2, <1>4

LEMMA FewerWriters ==
  ASSUME NEW S \in SUBSET LogThreads, NEW Q \in SUBSET S
  PROVE  Cardinality(Q) <= Cardinality(S)
BY WritersSize, FS_Subset

LEMMA LogNumbers ==
  /\ FullSize \in Nat \ {0} /\ RetentionDays \in Nat /\ MaxLogDay \in Nat
  /\ MaxLogIndex \in Nat /\ MaxLines \in Nat /\ LogSizes \subseteq Nat
  /\ MaxLines < FullSize * (MaxLogIndex + 1)
BY LogBounds

\* What the type says of a file and of a writer.
LEMMA LogFacts ==
  ASSUME LogTypeOK
  PROVE  /\ \A day \in Days, i \in 0..MaxLogIndex : logFiles[day][i] \in 0..MaxLines
         /\ currentSize \in 0..MaxLines /\ linesBegun \in 0..MaxLines
         /\ currentSize \in Nat /\ linesBegun \in Nat
         /\ maxSize \in Nat /\ logDay \in Nat /\ logDay \in Days
         /\ currentFile.day \in Days /\ currentFile.index \in 0..MaxLogIndex
         /\ currentFile = Path(currentFile.day, currentFile.index)
         /\ logFiles[currentFile.day][currentFile.index] \in Nat
         /\ AtLeastOneLine \in Nat \ {0} /\ AtLeastOneLine >= maxSize
<1>1. /\ \A day \in Days, i \in 0..MaxLogIndex : logFiles[day][i] \in 0..MaxLines
      /\ currentSize \in 0..MaxLines /\ linesBegun \in 0..MaxLines
      /\ logDay \in Days /\ maxSize \in LogSizes
      /\ currentFile \in [day : Days, index : 0..MaxLogIndex]
  BY DEF LogTypeOK
<1>2. currentSize \in Nat /\ linesBegun \in Nat /\ maxSize \in Nat /\ logDay \in Nat
  BY <1>1, LogNumbers DEF Days
<1>3. /\ currentFile.day \in Days /\ currentFile.index \in 0..MaxLogIndex
      /\ currentFile = Path(currentFile.day, currentFile.index)
  BY <1>1 DEF Path
<1>4. logFiles[currentFile.day][currentFile.index] \in Nat
  BY <1>1, <1>3, LogNumbers
<1>5. AtLeastOneLine \in Nat \ {0} /\ AtLeastOneLine >= maxSize
  BY <1>2 DEF AtLeastOneLine
<1> QED
  BY <1>1, <1>2, <1>3, <1>4, <1>5

LEMMA AppendFacts ==
  ASSUME LogTypeOK, NEW t \in LogThreads, logCall[t].at = "appending"
  PROVE  /\ logCall[t].path \in [day : Days, index : 0..MaxLogIndex]
         /\ logCall[t].path.day \in Days /\ logCall[t].path.index \in 0..MaxLogIndex
         /\ logCall[t].path = Path(logCall[t].path.day, logCall[t].path.index)
<1>1. logCall[t] \in LogCall
  BY DEF LogTypeOK
<1>2. logCall[t].path \in [day : Days, index : 0..MaxLogIndex]
  BY <1>1 DEF LogCall
<1> QED
  BY <1>2 DEF Path

\* Paths are told apart by their day and index.
LEMMA PathsDiffer ==
  ASSUME NEW day \in Days, NEW i \in 0..MaxLogIndex,
         NEW day2 \in Days, NEW i2 \in 0..MaxLogIndex,
         Path(day, i) = Path(day2, i2)
  PROVE  day = day2 /\ i = i2
<1>1. Path(day, i).day = day /\ Path(day, i).index = i
  BY DEF Path
<1>2. Path(day2, i2).day = day2 /\ Path(day2, i2).index = i2
  BY DEF Path
<1> QED
  BY <1>1, <1>2

LEMMA SetsOfWriters ==
  /\ \A place : Writers(place) \in SUBSET LogThreads
  /\ \A path : Heading(path) \in SUBSET LogThreads
  /\ Begun \in SUBSET LogThreads /\ Unwritten \in SUBSET LogThreads
BY DEF Writers, Heading, Begun, Unwritten

LEMMA CallKept ==
  ASSUME LogTypeOK, NEW t \in LogThreads, NEW c, logCall' = [logCall EXCEPT ![t] = c]
  PROVE  \A s \in LogThreads : logCall'[s] = IF s = t THEN c ELSE logCall[s]
BY DEF LogTypeOK

\* A write begins.
LEMMA WriteAsksInv ==
  ASSUME LogInv, NEW t \in LogThreads, WriteAsks(t)
  PROVE  LogInv'
<1> DEFINE n == Cardinality(LogThreads)
           next == IF currentSize >= maxSize THEN "rolling" ELSE "opening"
<1>0. LogTypeOK /\ FilledInOrder /\ RoomForWriters /\ CounterKeepsUp /\ ChosenInOrder
      /\ LinesWereBegun
  BY DEF LogInv
<1>1. \A s \in LogThreads : logCall'[s] = IF s = t THEN [at |-> next] ELSE logCall[s]
  <2>1. logCall' = [logCall EXCEPT ![t] = [at |-> next]]
    BY DEF WriteAsks
  <2> HIDE DEF next
  <2> QED
    BY <1>0, <2>1, CallKept
<1>2. /\ UNCHANGED <<logFiles, logDay, maxSize, currentFile, currentSize>>
      /\ linesBegun < MaxLines /\ linesBegun' = linesBegun + 1
      /\ logCall[t].at = "none"
  BY DEF WriteAsks, NotLogging
<1>3. /\ Writers("counting")' = Writers("counting")
      /\ Begun' = Begun \cup {t} /\ t \notin Begun
      /\ Unwritten' = Unwritten \cup {t} /\ t \notin Unwritten
      /\ t \notin Writers("counting")
  BY <1>1, <1>2 DEF Writers, Begun, Unwritten
<1>4. ASSUME NEW path
      PROVE  /\ t \notin Heading(path) /\ Heading(path) \cap Writers("counting") = {}
             /\ path = currentFile /\ currentSize < maxSize
                  => Heading(path)' = Heading(path) \cup {t}
             /\ ~(path = currentFile /\ currentSize < maxSize)
                  => Heading(path)' = Heading(path)
  <2>1. currentSize \in Nat /\ maxSize \in Nat
    BY <1>0, LogFacts
  <2>2. next = "opening" <=> currentSize < maxSize
    BY <2>1
  <2> HIDE DEF next
  <2>3. next # "appending"
    BY DEF next
  <2> QED
    BY <1>1, <1>2, <2>2, <2>3 DEF Heading, Writers
<1>5. LogTypeOK'
  <2>1. logCall' \in [LogThreads -> LogCall]
    BY <1>0 DEF WriteAsks, LogTypeOK, LogCall
  <2>2. linesBegun' \in 0..MaxLines
    BY <1>0, <1>2, LogFacts, LogNumbers
  <2> QED
    BY <1>0, <1>2, <2>1, <2>2 DEF LogTypeOK
<1>6. FilledInOrder'
  BY <1>0, <1>2 DEF FilledInOrder, TooOld
<1>7. RoomForWriters'
  <2>1. /\ AtLeastOneLine' = AtLeastOneLine
        /\ n \in Nat /\ AtLeastOneLine \in Nat /\ FullSize \in Nat
        /\ currentSize \in Nat /\ maxSize \in Nat /\ AtLeastOneLine >= maxSize
    BY <1>0, <1>2, LogFacts, LogNumbers, WritersSize DEF AtLeastOneLine
  <2>2. ASSUME NEW day \in Days, NEW i \in 0..MaxLogIndex
        PROVE  logFiles'[day][i] + Cardinality(Heading(Path(day, i))') + 1
                 < FullSize + AtLeastOneLine' + n
    <3> DEFINE path == Path(day, i)
               held == logFiles[day][i]
               h == Cardinality(Heading(path))
               m == Cardinality(Writers("counting"))
    <3>1. held + h + 1 < FullSize + AtLeastOneLine + n
      BY <1>0 DEF RoomForWriters
    <3>2. held \in Nat /\ h \in Nat /\ m \in Nat
      BY <1>0, LogFacts, SetsOfWriters, WritersSize
    <3>3. CASE ~(path = currentFile /\ currentSize < maxSize)
      BY <1>2, <1>4, <2>1, <3>1, <3>3
    <3>4. CASE path = currentFile /\ currentSize < maxSize
      <4>1. held < FullSize + currentSize + m
        BY <1>0, <3>4 DEF CounterKeepsUp, Path
      <4>2. Heading(path) \cup {t} \in SUBSET LogThreads
        BY SetsOfWriters
      <4>3. Cardinality(Heading(path) \cup {t}) = h + 1
        BY <1>4, SetsOfWriters, WritersCome
      <4>4. (h + 1) + m <= n
        <5>1. (Heading(path) \cup {t}) \cap Writers("counting") = {}
          BY <1>3, <1>4
        <5> QED
          BY <4>2, <4>3, <5>1, SetsOfWriters, WritersApart
      <4>5. Cardinality(Heading(path)') = h + 1
        BY <1>4, <3>4, <4>3
      <4> HIDE DEF held, h, m, n
      <4>6. held + (h + 1) + 1 < FullSize + AtLeastOneLine + n
        BY <2>1, <3>2, <3>4, <4>1, <4>4
      <4> QED
        BY <1>2, <2>1, <4>5, <4>6 DEF held, n
    <3> QED
      BY <3>3, <3>4
  <2> QED
    BY <2>2 DEF RoomForWriters, Path
<1>8. CounterKeepsUp'
  BY <1>0, <1>2, <1>3 DEF CounterKeepsUp
<1>9. ChosenInOrder'
  <2>1. ASSUME NEW path, InUse(path)'
        PROVE  InUse(path)
    BY <1>1, <1>2, <2>1 DEF InUse
  <2> QED
    BY <1>0, <1>2, <2>1 DEF ChosenInOrder, TooOld, Path
<1>10. LinesWereBegun'
  <2>1. /\ Cardinality(Begun)' = Cardinality(Begun) + 1
        /\ Cardinality(Unwritten)' = Cardinality(Unwritten) + 1
        /\ Cardinality(Begun) \in Nat /\ Cardinality(Unwritten) \in Nat
    BY <1>3, SetsOfWriters, WritersCome, WritersSize
  <2>2. /\ currentSize \in Nat /\ linesBegun \in Nat /\ FullSize \in Nat
        /\ \A day \in Days, i \in 0..MaxLogIndex : logFiles[day][i] \in Nat
        /\ \A i \in 0..MaxLogIndex : FullSize * i \in Nat
    BY <1>0, LogFacts, LogNumbers
  <2>3. currentSize' + Cardinality(Begun)' <= linesBegun'
    BY <1>0, <1>2, <2>1, <2>2 DEF LinesWereBegun
  <2>4. ASSUME NEW day \in Days, NEW i \in 0..MaxLogIndex
        PROVE  /\ logFiles'[day][i] + Cardinality(Unwritten)' <= linesBegun'
               /\ logFiles'[day][i] > 0 /\ ~TooOld(day)' =>
                    FullSize * i + logFiles'[day][i] + Cardinality(Unwritten)'
                      <= linesBegun'
    <3>1. /\ logFiles[day][i] \in Nat /\ FullSize * i \in Nat
          /\ logFiles[day][i] + Cardinality(Unwritten) <= linesBegun
          /\ logFiles[day][i] > 0 /\ ~TooOld(day) =>
               FullSize * i + logFiles[day][i] + Cardinality(Unwritten) <= linesBegun
          /\ logFiles'[day][i] = logFiles[day][i] /\ TooOld(day)' = TooOld(day)
      BY <1>0, <1>2, <2>2 DEF LinesWereBegun, TooOld
    <3> HIDE DEF n
    <3> QED
      BY <1>2, <2>1, <2>2, <3>1
  <2> QED
    BY <2>3, <2>4 DEF LinesWereBegun
<1> QED
  BY <1>5, <1>6, <1>7, <1>8, <1>9, <1>10 DEF LogInv

\* The log still has room: the last file of today is not full, so there is a
\* first one that is not.
LEMMA ResolveFinds ==
  ASSUME LogTypeOK, LinesWereBegun,
         NEW onDisk \in [Days -> [0..MaxLogIndex -> 0..MaxLines]],
         onDisk[logDay] = logFiles[logDay]
  PROVE  /\ Resolve(onDisk, logDay).day = logDay
         /\ Resolve(onDisk, logDay).index \in 0..MaxLogIndex
         /\ Resolve(onDisk, logDay) \in [day : Days, index : 0..MaxLogIndex]
         /\ onDisk[logDay][Resolve(onDisk, logDay).index] < FullSize
         /\ \A j \in 0..(Resolve(onDisk, logDay).index - 1) :
              onDisk[logDay][j] >= FullSize
<1> DEFINE free == {i \in 0..MaxLogIndex : onDisk[logDay][i] < FullSize}
           fits(i) == /\ onDisk[logDay][i] < FullSize
                      /\ \A j \in 0..(i - 1) : onDisk[logDay][j] >= FullSize
<1>1. /\ logDay \in Days /\ logDay \in Nat /\ linesBegun \in 0..MaxLines
      /\ FullSize \in Nat \ {0} /\ MaxLogIndex \in Nat /\ MaxLines \in Nat
      /\ RetentionDays \in Nat
      /\ \A i \in 0..MaxLogIndex : onDisk[logDay][i] \in Nat
  BY LogFacts, LogNumbers
<1>2. ~TooOld(logDay)
  BY <1>1 DEF TooOld
<1>3. MaxLogIndex \in free
  <2> DEFINE held == logFiles[logDay][MaxLogIndex]
             u == Cardinality(Unwritten)
             before == FullSize * MaxLogIndex
  <2>1. held > 0 => before + held + u <= linesBegun
    BY <1>1, <1>2 DEF LinesWereBegun
  <2>2. FullSize * (MaxLogIndex + 1) = before + FullSize
    BY <1>1
  <2>3. u \in Nat /\ before \in Nat /\ held \in Nat
    BY <1>1, SetsOfWriters, WritersSize
  <2>4. MaxLines < before + FullSize
    BY <2>2, LogNumbers
  <2> HIDE DEF held, u, before
  <2>5. held < FullSize
    BY <1>1, <2>1, <2>3, <2>4
  <2> QED
    BY <1>1, <2>5 DEF held
<1>4. PICK i \in free : \A j \in free : i <= j
  <2>1. free \in SUBSET Nat /\ free # {}
    BY <1>3
  <2> HIDE DEF free
  <2> QED
    BY <2>1, LeastOf
<1>5. i \in 0..MaxLogIndex /\ fits(i)
  BY <1>1, <1>4
<1> DEFINE first == CHOOSE k \in 0..MaxLogIndex : fits(k)
<1>6. Resolve(onDisk, logDay) = [day |-> logDay, index |-> first]
  BY DEF Resolve
<1>7. first \in 0..MaxLogIndex /\ fits(first)
  <2> HIDE DEF fits
  <2> QED
    BY <1>5
<1> HIDE DEF first
<1>8. /\ Resolve(onDisk, logDay).day = logDay
      /\ Resolve(onDisk, logDay).index = first
      /\ Resolve(onDisk, logDay) \in [day : Days, index : 0..MaxLogIndex]
  BY <1>1, <1>6, <1>7
<1> QED
  BY <1>7, <1>8

\* A writer that rolls over.
LEMMA RolloverInv ==
  ASSUME LogInv, NEW t \in LogThreads, Rollover(t)
  PROVE  LogInv'
<1> DEFINE n == Cardinality(LogThreads)
           cur == Resolve(logFiles, logDay)
<1>0. LogTypeOK /\ FilledInOrder /\ RoomForWriters /\ CounterKeepsUp /\ ChosenInOrder
      /\ LinesWereBegun
  BY DEF LogInv
<1>1. \A s \in LogThreads : logCall'[s] = IF s = t THEN [at |-> "opening"] ELSE logCall[s]
  <2>1. logCall' = [logCall EXCEPT ![t] = [at |-> "opening"]]
    BY DEF Rollover
  <2> QED
    BY <1>0, <2>1, CallKept
<1>2. /\ UNCHANGED <<logFiles, logDay, maxSize, linesBegun>>
      /\ currentFile' = cur /\ currentSize' = 0
      /\ logCall[t].at = "rolling"
  BY DEF Rollover
<1>3. /\ Writers("counting")' = Writers("counting")
      /\ Begun' = Begun
      /\ Unwritten' = Unwritten
  BY <1>1, <1>2 DEF Writers, Begun, Unwritten
<1>4. /\ cur.day = logDay /\ cur.index \in 0..MaxLogIndex
      /\ cur \in [day : Days, index : 0..MaxLogIndex]
      /\ logFiles[logDay][cur.index] < FullSize
      /\ \A j \in 0..(cur.index - 1) : logFiles[logDay][j] >= FullSize
  <2>1. logFiles \in [Days -> [0..MaxLogIndex -> 0..MaxLines]]
    BY <1>0 DEF LogTypeOK
  <2> QED
    BY <1>0, <2>1, ResolveFinds
<1> HIDE DEF cur
<1>5. LogTypeOK'
  <2>1. logCall' \in [LogThreads -> LogCall]
    BY <1>0 DEF Rollover, LogTypeOK, LogCall
  <2>2. 0 \in 0..MaxLines
    BY LogNumbers
  <2> QED
    BY <1>0, <1>2, <1>4, <2>1, <2>2 DEF LogTypeOK
<1>6. FilledInOrder'
  BY <1>0, <1>2 DEF FilledInOrder, TooOld
<1>7. RoomForWriters'
  <2>1. /\ AtLeastOneLine' = AtLeastOneLine
        /\ n \in Nat /\ AtLeastOneLine \in Nat \ {0} /\ FullSize \in Nat
    BY <1>0, <1>2, LogFacts, LogNumbers, WritersSize DEF AtLeastOneLine
  <2>2. ASSUME NEW day \in Days, NEW i \in 0..MaxLogIndex
        PROVE  logFiles'[day][i] + Cardinality(Heading(Path(day, i))') + 1
                 < FullSize + AtLeastOneLine' + n
    <3> DEFINE path == Path(day, i)
               held == logFiles[day][i]
               h == Cardinality(Heading(path))
               h2 == Cardinality(Heading(path)')
    <3>1. held + h + 1 < FullSize + AtLeastOneLine + n
      BY <1>0 DEF RoomForWriters
    <3>2. Heading(path)' \in SUBSET LogThreads
      BY DEF Heading
    <3>3. held \in Nat /\ h \in Nat /\ h2 \in Nat /\ h2 <= n
      BY <1>0, <3>2, LogFacts, SetsOfWriters, WritersSize
    <3>4. CASE path = cur
      <4>1. held < FullSize
        BY <1>4, <3>4 DEF Path
      <4> HIDE DEF held, h, h2, n
      <4> QED
        BY <1>2, <2>1, <3>3, <4>1 DEF held, h2
    <3>5. CASE path # cur
      <4>1. Heading(path)' \in SUBSET Heading(path)
        BY <1>1, <1>2, <3>5 DEF Heading
      <4>2. h2 <= h
        BY <4>1, SetsOfWriters, FewerWriters
      <4> HIDE DEF held, h, h2, n
      <4> QED
        BY <1>2, <2>1, <3>1, <3>3, <4>2 DEF held, h2
    <3> QED
      BY <3>4, <3>5
  <2> QED
    BY <2>2 DEF RoomForWriters, Path
<1>8. CounterKeepsUp'
  <2>1. Cardinality(Writers("counting")) \in Nat /\ FullSize \in Nat
    BY SetsOfWriters, WritersSize, LogNumbers
  <2>2. logFiles[logDay][cur.index] \in Nat
    BY <1>0, <1>4, LogFacts
  <2> QED
    BY <1>2, <1>3, <1>4, <2>1, <2>2 DEF CounterKeepsUp
<1>9. ChosenInOrder'
  <2>1. ASSUME NEW day \in Days, NEW i \in 0..MaxLogIndex, InUse(Path(day, i))', ~TooOld(day)',
               NEW j \in 0..(i - 1)
        PROVE  logFiles'[day][j] >= FullSize
    <3>1. CASE Path(day, i) = cur
      BY <1>2, <1>4, <3>1 DEF Path
    <3>2. CASE Path(day, i) # cur
      <4>1. InUse(Path(day, i))
        BY <1>1, <1>2, <2>1, <3>2 DEF InUse, Path
      <4>2. ~TooOld(day)
        BY <1>2, <2>1 DEF TooOld
      <4> QED
        BY <1>0, <1>2, <4>1, <4>2 DEF ChosenInOrder
    <3> QED
      BY <3>1, <3>2
  <2> QED
    BY <2>1 DEF ChosenInOrder, Path
<1>10. LinesWereBegun'
  <2>1. /\ Cardinality(Begun) \in Nat /\ currentSize \in Nat /\ linesBegun \in Nat
    BY <1>0, SetsOfWriters, WritersSize, LogFacts
  <2>2. currentSize' + Cardinality(Begun)' <= linesBegun'
    BY <1>0, <1>2, <1>3, <2>1 DEF LinesWereBegun
  <2> QED
    BY <1>0, <1>2, <1>3, <2>2 DEF LinesWereBegun, TooOld
<1> QED
  BY <1>5, <1>6, <1>7, <1>8, <1>9, <1>10 DEF LogInv

LEMMA WriteOpensInv ==
  ASSUME LogInv, NEW t \in LogThreads, WriteOpens(t)
  PROVE  LogInv'
<1>0. LogTypeOK /\ FilledInOrder /\ RoomForWriters /\ CounterKeepsUp /\ ChosenInOrder
      /\ LinesWereBegun
  BY DEF LogInv
<1>1. \A s \in LogThreads :
        logCall'[s] = IF s = t THEN [at |-> "appending", path |-> currentFile] ELSE logCall[s]
  <2>1. logCall' = [logCall EXCEPT ![t] = [at |-> "appending", path |-> currentFile]]
    BY DEF WriteOpens
  <2> QED
    BY <1>0, <2>1, CallKept
<1>2. /\ UNCHANGED <<logFiles, logDay, maxSize, currentFile, currentSize, linesBegun>>
      /\ logCall[t].at = "opening"
  BY DEF WriteOpens
<1>3. /\ Writers("counting")' = Writers("counting")
      /\ Begun' = Begun
      /\ Unwritten' = Unwritten
  BY <1>1, <1>2 DEF Writers, Begun, Unwritten
<1>4. \A path : Heading(path)' = Heading(path)
  BY <1>1, <1>2 DEF Heading
<1>5. LogTypeOK'
  <2>1. logCall' \in [LogThreads -> LogCall]
    BY <1>0 DEF WriteOpens, LogTypeOK, LogCall
  <2> QED
    BY <1>0, <1>2, <2>1 DEF LogTypeOK
<1>6. FilledInOrder'
  BY <1>0, <1>2 DEF FilledInOrder, TooOld
<1>7. RoomForWriters'
  BY <1>0, <1>2, <1>4 DEF RoomForWriters, AtLeastOneLine, Path
<1>8. CounterKeepsUp'
  BY <1>0, <1>2, <1>3 DEF CounterKeepsUp
<1>9. ChosenInOrder'
  <2>1. ASSUME NEW path, InUse(path)'
        PROVE  InUse(path)
    BY <1>1, <1>2, <2>1 DEF InUse
  <2> QED
    BY <1>0, <1>2, <2>1 DEF ChosenInOrder, TooOld, Path
<1>10. LinesWereBegun'
  BY <1>0, <1>2, <1>3 DEF LinesWereBegun, TooOld
<1> QED
  BY <1>5, <1>6, <1>7, <1>8, <1>9, <1>10 DEF LogInv

\* What an append does to the files.
LEMMA AppendedFiles ==
  ASSUME LogTypeOK, LinesWereBegun, NEW t \in LogThreads, WriteAppends(t)
  PROVE  /\ logFiles' \in [Days -> [0..MaxLogIndex -> 0..MaxLines]]
         /\ \A day \in Days, i \in 0..MaxLogIndex :
              logFiles'[day][i] = IF Path(day, i) = logCall[t].path
                                  THEN logFiles[day][i] + 1 ELSE logFiles[day][i]
<1> DEFINE d == logCall[t].path.day
           k == logCall[t].path.index
           row == [logFiles[d] EXCEPT ![k] = logFiles[d][k] + 1]
<1>1. /\ logCall[t].at = "appending" /\ d \in Days /\ k \in 0..MaxLogIndex
      /\ logCall[t].path = Path(d, k)
  BY AppendFacts DEF WriteAppends
<1>2. logFiles[d][k] + 1 \in 0..MaxLines
  <2> DEFINE u == Cardinality(Unwritten)
             held == logFiles[d][k]
  <2>1. t \in Unwritten
    BY <1>1 DEF Unwritten, Begun, Writers
  <2>2. u \in Nat /\ u >= 1
    <3>1. Unwritten # {} /\ IsFiniteSet(Unwritten) /\ u \in Nat
      BY <2>1, SetsOfWriters, WritersSize
    <3>2. u # 0
      BY <3>1, FS_EmptySet
    <3> QED
      BY <3>1, <3>2
  <2>3. held + u <= linesBegun
    BY <1>1 DEF LinesWereBegun
  <2>4. held \in Nat /\ linesBegun \in 0..MaxLines /\ MaxLines \in Nat
    BY <1>1, LogFacts, LogNumbers
  <2> HIDE DEF u, held, d, k
  <2>5. held + 1 \in 0..MaxLines
    BY <2>2, <2>3, <2>4
  <2> QED
    BY <2>5 DEF held
<1>3. logFiles \in [Days -> [0..MaxLogIndex -> 0..MaxLines]]
  BY DEF LogTypeOK
<1>4. logFiles' = [logFiles EXCEPT ![d] = row]
  BY <1>1, <1>3 DEF WriteAppends
<1> HIDE DEF d, k
<1>5. /\ row \in [0..MaxLogIndex -> 0..MaxLines]
      /\ \A i \in 0..MaxLogIndex :
           row[i] = IF i = k THEN logFiles[d][k] + 1 ELSE logFiles[d][i]
  BY <1>1, <1>2, <1>3
<1> HIDE DEF row
<1>6. /\ logFiles' \in [Days -> [0..MaxLogIndex -> 0..MaxLines]]
      /\ \A day \in Days : logFiles'[day] = IF day = d THEN row ELSE logFiles[day]
  BY <1>1, <1>3, <1>4, <1>5
<1>7. ASSUME NEW day \in Days, NEW i \in 0..MaxLogIndex
      PROVE  logFiles'[day][i] = IF Path(day, i) = logCall[t].path
                                 THEN logFiles[day][i] + 1 ELSE logFiles[day][i]
  <2>1. Path(day, i) = logCall[t].path <=> day = d /\ i = k
    BY <1>1, PathsDiffer
  <2> QED
    BY <1>5, <1>6, <2>1
<1> QED
  BY <1>6, <1>7

LEMMA WriteAppendsInv ==
  ASSUME LogInv, NEW t \in LogThreads, WriteAppends(t)
  PROVE  LogInv'
<1> DEFINE n == Cardinality(LogThreads)
           p == logCall[t].path
<1>0. LogTypeOK /\ FilledInOrder /\ RoomForWriters /\ CounterKeepsUp /\ ChosenInOrder
      /\ LinesWereBegun
  BY DEF LogInv
<1>1. \A s \in LogThreads : logCall'[s] = IF s = t THEN [at |-> "counting"] ELSE logCall[s]
  <2>1. logCall' = [logCall EXCEPT ![t] = [at |-> "counting"]]
    BY DEF WriteAppends
  <2> QED
    BY <1>0, <2>1, CallKept
<1>2. /\ UNCHANGED <<logDay, maxSize, currentFile, currentSize, linesBegun>>
      /\ logCall[t].at = "appending"
  BY DEF WriteAppends
<1>3. /\ Writers("counting")' = Writers("counting") \cup {t} /\ t \notin Writers("counting")
      /\ Begun' = Begun
      /\ Unwritten' = Unwritten \ {t} /\ t \in Unwritten
  BY <1>1, <1>2 DEF Writers, Begun, Unwritten
<1>4. ASSUME NEW path
      PROVE  /\ path = p => t \in Heading(path) /\ Heading(path)' = Heading(path) \ {t}
             /\ path # p => Heading(path)' = Heading(path)
  BY <1>1, <1>2 DEF Heading
<1>5. /\ logFiles' \in [Days -> [0..MaxLogIndex -> 0..MaxLines]]
      /\ \A day \in Days, i \in 0..MaxLogIndex :
           logFiles'[day][i] = IF Path(day, i) = p
                               THEN logFiles[day][i] + 1 ELSE logFiles[day][i]
  BY <1>0, AppendedFiles
<1>6. /\ p.day \in Days /\ p.index \in 0..MaxLogIndex /\ p = Path(p.day, p.index)
      /\ InUse(p)
  BY <1>0, <1>2, AppendFacts DEF InUse
<1> HIDE DEF p
<1>7. /\ \A day \in Days, i \in 0..MaxLogIndex :
           /\ logFiles[day][i] \in Nat /\ logFiles'[day][i] \in Nat
           /\ logFiles'[day][i] >= logFiles[day][i]
           /\ Path(day, i) # p => logFiles'[day][i] = logFiles[day][i]
      /\ FullSize \in Nat \ {0} /\ MaxLogIndex \in Nat
  <2>1. FullSize \in Nat \ {0} /\ MaxLogIndex \in Nat
    BY LogNumbers
  <2>2. ASSUME NEW day \in Days, NEW i \in 0..MaxLogIndex
        PROVE  /\ logFiles[day][i] \in Nat /\ logFiles'[day][i] \in Nat
               /\ logFiles'[day][i] >= logFiles[day][i]
               /\ Path(day, i) # p => logFiles'[day][i] = logFiles[day][i]
    <3>1. logFiles[day][i] \in Nat
      BY <1>0, LogFacts
    <3> QED
      BY <1>5, <3>1
  <2> QED
    BY <2>1, <2>2
<1>8. LogTypeOK'
  <2>1. logCall' \in [LogThreads -> LogCall]
    BY <1>0 DEF WriteAppends, LogTypeOK, LogCall
  <2> QED
    BY <1>0, <1>2, <1>5, <2>1 DEF LogTypeOK
<1>9. FilledInOrder'
  <2>1. ASSUME NEW day \in Days, NEW i \in 1..MaxLogIndex, logFiles'[day][i] > 0, ~TooOld(day)'
        PROVE  logFiles'[day][i - 1] >= FullSize
    <3>1. ~TooOld(day) /\ i \in 0..MaxLogIndex /\ i - 1 \in 0..MaxLogIndex
          /\ i - 1 \in 0..(i - 1)
      BY <1>2, <1>7, <2>1 DEF TooOld
    <3>2. logFiles[day][i - 1] >= FullSize
      <4>1. CASE Path(day, i) = p
        BY <1>0, <1>6, <3>1, <4>1 DEF ChosenInOrder
      <4>2. CASE Path(day, i) # p
        BY <1>0, <1>7, <2>1, <3>1, <4>2 DEF FilledInOrder
      <4> QED
        BY <4>1, <4>2
    <3> QED
      BY <1>7, <3>1, <3>2
  <2> QED
    BY <2>1 DEF FilledInOrder
<1>10. RoomForWriters'
  <2>1. /\ AtLeastOneLine' = AtLeastOneLine
        /\ n \in Nat /\ AtLeastOneLine \in Nat \ {0} /\ FullSize \in Nat
    BY <1>0, <1>2, LogFacts, LogNumbers, WritersSize DEF AtLeastOneLine
  <2>2. ASSUME NEW day \in Days, NEW i \in 0..MaxLogIndex
        PROVE  logFiles'[day][i] + Cardinality(Heading(Path(day, i))') + 1
                 < FullSize + AtLeastOneLine' + n
    <3> DEFINE path == Path(day, i)
               held == logFiles[day][i]
               h == Cardinality(Heading(path))
    <3>1. held + h + 1 < FullSize + AtLeastOneLine + n
      BY <1>0 DEF RoomForWriters
    <3>2. held \in Nat /\ h \in Nat
      BY <1>0, LogFacts, SetsOfWriters, WritersSize
    <3>3. CASE path = p
      <4>1. Cardinality(Heading(path) \ {t}) + 1 = h
        BY <1>4, <3>3, SetsOfWriters, WritersCome
      <4>2. Cardinality(Heading(path)') + 1 = h
        BY <1>4, <3>3, <4>1
      <4>3. logFiles'[day][i] = held + 1 /\ Cardinality(Heading(path)') \in Nat
        <5>1. Heading(path)' \in SUBSET LogThreads
          BY DEF Heading
        <5> QED
          BY <1>5, <3>3, <5>1, WritersSize
      <4> HIDE DEF held, h, n, path
      <4>4. logFiles'[day][i] + Cardinality(Heading(path)') + 1
              < FullSize + AtLeastOneLine' + n
        BY <2>1, <3>1, <3>2, <4>2, <4>3
      <4> QED
        BY <4>4 DEF path
    <3>4. CASE path # p
      BY <1>4, <1>7, <2>1, <3>1, <3>4
    <3> QED
      BY <3>3, <3>4
  <2> QED
    BY <2>2 DEF RoomForWriters, Path
<1>11. CounterKeepsUp'
  <2> DEFINE held == logFiles[currentFile.day][currentFile.index]
             held2 == logFiles'[currentFile.day][currentFile.index]
             m == Cardinality(Writers("counting"))
             m2 == Cardinality(Writers("counting")')
  <2>1. m2 = m + 1 /\ m \in Nat
    BY <1>3, SetsOfWriters, WritersCome, WritersSize
  <2>2. held \in Nat /\ held2 \in Nat /\ (held2 = held \/ held2 = held + 1)
        /\ currentSize \in Nat /\ FullSize \in Nat
    BY <1>0, <1>5, <1>7, LogFacts
  <2>3. held < FullSize + currentSize + m
    BY <1>0 DEF CounterKeepsUp
  <2>4. held2 < FullSize + currentSize + m2
    <3> HIDE DEF held, held2, m, m2
    <3> QED
      BY <2>1, <2>2, <2>3
  <2> QED
    BY <1>2, <2>4 DEF CounterKeepsUp
<1>12. ChosenInOrder'
  <2>1. ASSUME NEW day \in Days, NEW i \in 0..MaxLogIndex, InUse(Path(day, i))', ~TooOld(day)',
               NEW j \in 0..(i - 1)
        PROVE  logFiles'[day][j] >= FullSize
    <3>1. InUse(Path(day, i))
      BY <1>1, <1>2, <2>1 DEF InUse, Path
    <3>2. logFiles[day][j] >= FullSize
      BY <1>0, <1>2, <2>1, <3>1 DEF ChosenInOrder, TooOld
    <3>3. j \in 0..MaxLogIndex
      BY <1>7
    <3> QED
      BY <1>7, <3>2, <3>3
  <2> QED
    BY <2>1 DEF ChosenInOrder, Path
<1>13. LinesWereBegun'
  <2> DEFINE u == Cardinality(Unwritten)
             u2 == Cardinality(Unwritten)'
  <2>1. u2 + 1 = u /\ u \in Nat /\ u2 \in Nat
    <3>1. Unwritten' \in SUBSET LogThreads
      BY DEF Unwritten, Begun
    <3>2. Cardinality(Unwritten \ {t}) + 1 = u
      BY <1>3, SetsOfWriters, WritersCome
    <3> QED
      BY <1>3, <3>1, <3>2, SetsOfWriters, WritersSize
  <2>2. /\ Cardinality(Begun) \in Nat /\ currentSize \in Nat /\ linesBegun \in Nat
        /\ u <= Cardinality(Begun)
    <3>1. Unwritten \in SUBSET Begun
      BY DEF Unwritten
    <3> QED
      BY <1>0, <3>1, SetsOfWriters, WritersSize, FewerWriters, LogFacts
  <2>3. currentSize' + Cardinality(Begun)' <= linesBegun'
    BY <1>0, <1>2, <1>3, <2>2 DEF LinesWereBegun
  <2> HIDE DEF u, u2
  <2>4. ASSUME NEW day \in Days, NEW i \in 0..MaxLogIndex
        PROVE  /\ logFiles'[day][i] + u2 <= linesBegun
               /\ logFiles'[day][i] > 0 /\ ~TooOld(day) =>
                    FullSize * i + logFiles'[day][i] + u2 <= linesBegun
    <3> DEFINE held == logFiles[day][i]
               before == FullSize * i
    <3>1. /\ held \in Nat /\ before \in Nat
          /\ held + u <= linesBegun
          /\ held > 0 /\ ~TooOld(day) => before + held + u <= linesBegun
      BY <1>0, <1>7 DEF LinesWereBegun, u
    <3>2. CASE Path(day, i) # p
      <4>1. logFiles'[day][i] = held
        BY <1>7, <3>2
      <4> HIDE DEF held, before
      <4>2. /\ held + u2 <= linesBegun
            /\ held > 0 /\ ~TooOld(day) => before + held + u2 <= linesBegun
        BY <2>1, <2>2, <3>1
      <4> QED
        BY <4>1, <4>2 DEF before
    <3>3. CASE Path(day, i) = p
      <4>1. logFiles'[day][i] = held + 1
        BY <1>5, <3>3
      <4>2. ~TooOld(day) => before + u <= linesBegun
        <5>1. CASE i = 0
          <6>1. before = 0
            BY <1>7, <5>1
          <6>2. currentSize + Cardinality(Begun) <= linesBegun
            BY <1>0 DEF LinesWereBegun
          <6> HIDE DEF before
          <6> QED
            BY <2>1, <2>2, <6>1, <6>2
        <5>2. CASE i # 0
          <6> DEFINE last == logFiles[day][i - 1]
                     ahead == FullSize * (i - 1)
          <6>1. i - 1 \in 0..MaxLogIndex /\ i - 1 \in 0..(i - 1)
            BY <1>7, <5>2
          <6>2. last \in Nat /\ ahead \in Nat /\ before = ahead + FullSize
            BY <1>7, <6>1
          <6>3. ASSUME ~TooOld(day)
                PROVE  last >= FullSize
            BY <1>0, <1>6, <3>3, <6>1, <6>3 DEF ChosenInOrder
          <6>4. last > 0 /\ ~TooOld(day) => ahead + last + u <= linesBegun
            BY <1>0, <6>1 DEF LinesWereBegun, u
          <6> HIDE DEF before, last, ahead
          <6> QED
            BY <1>7, <2>1, <2>2, <6>2, <6>3, <6>4
        <5> QED
          BY <5>1, <5>2
      <4> HIDE DEF held, before
      <4>3. /\ (held + 1) + u2 <= linesBegun
            /\ ~TooOld(day) => before + (held + 1) + u2 <= linesBegun
        <5>1. CASE held = 0
          BY <2>1, <2>2, <3>1, <4>2, <5>1
        <5>2. CASE held # 0
          BY <2>1, <2>2, <3>1, <5>2
        <5> QED
          BY <5>1, <5>2
      <4> QED
        BY <4>1, <4>3 DEF before
    <3> QED
      BY <3>2, <3>3
  <2> QED
    BY <1>2, <2>3, <2>4 DEF LinesWereBegun, TooOld, u2
<1> QED
  BY <1>8, <1>9, <1>10, <1>11, <1>12, <1>13 DEF LogInv

LEMMA WriteCountsInv ==
  ASSUME LogInv, NEW t \in LogThreads, WriteCounts(t)
  PROVE  LogInv'
<1>0. LogTypeOK /\ FilledInOrder /\ RoomForWriters /\ CounterKeepsUp /\ ChosenInOrder
      /\ LinesWereBegun
  BY DEF LogInv
<1>1. \A s \in LogThreads : logCall'[s] = IF s = t THEN [at |-> "none"] ELSE logCall[s]
  <2>1. logCall' = [logCall EXCEPT ![t] = [at |-> "none"]]
    BY DEF WriteCounts, NotLogging
  <2> QED
    BY <1>0, <2>1, CallKept
<1>2. /\ UNCHANGED <<logFiles, logDay, maxSize, currentFile, linesBegun>>
      /\ currentSize' = currentSize + 1
      /\ logCall[t].at = "counting"
  BY DEF WriteCounts
<1>3. /\ Writers("counting")' = Writers("counting") \ {t} /\ t \in Writers("counting")
      /\ Begun' = Begun \ {t} /\ t \in Begun
      /\ Unwritten' = Unwritten
  BY <1>1, <1>2 DEF Writers, Begun, Unwritten
<1>4. \A path : Heading(path)' = Heading(path)
  BY <1>1, <1>2 DEF Heading
<1>5. /\ Cardinality(Writers("counting"))' + 1 = Cardinality(Writers("counting"))
      /\ Cardinality(Begun)' + 1 = Cardinality(Begun)
      /\ Cardinality(Begun)' \in Nat /\ Cardinality(Writers("counting"))' \in Nat
      /\ Cardinality(Begun) \in Nat /\ Cardinality(Writers("counting")) \in Nat
  <2>1. Begun \ {t} \in SUBSET LogThreads /\ Writers("counting") \ {t} \in SUBSET LogThreads
    BY SetsOfWriters
  <2> QED
    BY <1>3, <2>1, SetsOfWriters, WritersCome, WritersSize
<1>6. currentSize + Cardinality(Begun) <= linesBegun
      /\ currentSize \in Nat /\ linesBegun \in 0..MaxLines /\ MaxLines \in Nat
      /\ FullSize \in Nat
  BY <1>0, LogFacts, LogNumbers DEF LinesWereBegun
<1>7. LogTypeOK'
  <2>1. logCall' \in [LogThreads -> LogCall]
    BY <1>0 DEF WriteCounts, LogTypeOK, LogCall, NotLogging
  <2>2. currentSize' \in 0..MaxLines
    BY <1>2, <1>5, <1>6
  <2> QED
    BY <1>0, <1>2, <2>1, <2>2 DEF LogTypeOK
<1>8. FilledInOrder'
  BY <1>0, <1>2 DEF FilledInOrder, TooOld
<1>9. RoomForWriters'
  BY <1>0, <1>2, <1>4 DEF RoomForWriters, AtLeastOneLine, Path
<1>10. CounterKeepsUp'
  <2>1. logFiles[currentFile.day][currentFile.index] \in Nat
    BY <1>0, LogFacts
  <2>2. logFiles[currentFile.day][currentFile.index]
          < FullSize + currentSize + Cardinality(Writers("counting"))
    BY <1>0 DEF CounterKeepsUp
  <2>3. logFiles[currentFile.day][currentFile.index]
          < FullSize + (currentSize + 1) + Cardinality(Writers("counting"))'
    BY <1>5, <1>6, <2>1, <2>2
  <2> QED
    BY <1>2, <2>3 DEF CounterKeepsUp
<1>11. ChosenInOrder'
  <2>1. ASSUME NEW path, InUse(path)'
        PROVE  InUse(path)
    BY <1>1, <1>2, <2>1 DEF InUse
  <2> QED
    BY <1>0, <1>2, <2>1 DEF ChosenInOrder, TooOld, Path
<1>12. LinesWereBegun'
  <2>1. currentSize' + Cardinality(Begun)' <= linesBegun'
    BY <1>2, <1>5, <1>6
  <2> QED
    BY <1>0, <1>2, <1>3, <2>1 DEF LinesWereBegun, TooOld
<1> QED
  BY <1>7, <1>8, <1>9, <1>10, <1>11, <1>12 DEF LogInv

\* What is left after the old days are cleaned away.
LEMMA KeptFacts ==
  ASSUME LogTypeOK
  PROVE  /\ Kept \in [Days -> [0..MaxLogIndex -> 0..MaxLines]]
         /\ \A day \in Days, i \in 0..MaxLogIndex :
              /\ Kept[day][i] = IF TooOld(day) THEN 0 ELSE logFiles[day][i]
              /\ Kept[day][i] \in Nat /\ Kept[day][i] <= logFiles[day][i]
         /\ Kept[logDay] = logFiles[logDay]
<1>1. /\ logFiles \in [Days -> [0..MaxLogIndex -> 0..MaxLines]]
      /\ MaxLines \in Nat /\ logDay \in Days /\ logDay \in Nat /\ RetentionDays \in Nat
  BY LogFacts, LogNumbers DEF LogTypeOK
<1>2. ~TooOld(logDay)
  BY <1>1 DEF TooOld
<1> HIDE DEF TooOld
<1>3. Kept \in [Days -> [0..MaxLogIndex -> 0..MaxLines]]
  <2>1. [i \in 0..MaxLogIndex |-> 0] \in [0..MaxLogIndex -> 0..MaxLines]
    BY <1>1
  <2> QED
    BY <1>1, <2>1 DEF Kept
<1>4. ASSUME NEW day \in Days, NEW i \in 0..MaxLogIndex
      PROVE  /\ Kept[day][i] = IF TooOld(day) THEN 0 ELSE logFiles[day][i]
             /\ Kept[day][i] \in Nat /\ Kept[day][i] <= logFiles[day][i]
  <2>1. Kept[day][i] = IF TooOld(day) THEN 0 ELSE logFiles[day][i]
    BY DEF Kept
  <2>2. logFiles[day][i] \in Nat
    BY LogFacts
  <2> QED
    BY <2>1, <2>2
<1>5. Kept[logDay] = logFiles[logDay]
  BY <1>1, <1>2 DEF Kept
<1> QED
  BY <1>3, <1>4, <1>5

LEMMA CleanupLogsInv ==
  ASSUME LogInv, CleanupLogs
  PROVE  LogInv'
<1> DEFINE n == Cardinality(LogThreads)
<1>0. LogTypeOK /\ FilledInOrder /\ RoomForWriters /\ CounterKeepsUp /\ ChosenInOrder
      /\ LinesWereBegun
  BY DEF LogInv
<1>1. /\ UNCHANGED <<logDay, maxSize, currentFile, currentSize, logCall, linesBegun>>
      /\ logFiles' = Kept
  BY DEF CleanupLogs
<1>2. /\ Writers("counting")' = Writers("counting")
      /\ Begun' = Begun /\ Unwritten' = Unwritten
      /\ \A path : Heading(path)' = Heading(path)
      /\ \A path : InUse(path)' <=> InUse(path)
      /\ \A day : TooOld(day)' <=> TooOld(day)
      /\ AtLeastOneLine' = AtLeastOneLine
  BY <1>1 DEF Writers, Begun, Unwritten, Heading, InUse, TooOld, AtLeastOneLine
<1>3. /\ Kept \in [Days -> [0..MaxLogIndex -> 0..MaxLines]]
      /\ \A day \in Days, i \in 0..MaxLogIndex :
           /\ Kept[day][i] = IF TooOld(day) THEN 0 ELSE logFiles[day][i]
           /\ Kept[day][i] \in Nat /\ Kept[day][i] <= logFiles[day][i]
           /\ logFiles[day][i] \in Nat
  BY <1>0, KeptFacts, LogFacts
<1>4. LogTypeOK'
  BY <1>0, <1>1, <1>3 DEF LogTypeOK
<1>5. FilledInOrder'
  <2>1. \A i \in 1..MaxLogIndex : i \in 0..MaxLogIndex /\ i - 1 \in 0..MaxLogIndex
    BY LogNumbers
  <2> QED
    BY <1>0, <1>1, <1>2, <1>3, <2>1 DEF FilledInOrder
<1>6. RoomForWriters'
  <2>1. ASSUME NEW day \in Days, NEW i \in 0..MaxLogIndex
        PROVE  Kept[day][i] + Cardinality(Heading(Path(day, i))) + 1
                 < FullSize + AtLeastOneLine + n
    <3> DEFINE h == Cardinality(Heading(Path(day, i)))
    <3>1. logFiles[day][i] + h + 1 < FullSize + AtLeastOneLine + n
      BY <1>0 DEF RoomForWriters
    <3>2. h \in Nat /\ n \in Nat /\ AtLeastOneLine \in Nat /\ FullSize \in Nat
      BY <1>0, SetsOfWriters, WritersSize, LogFacts, LogNumbers
    <3> HIDE DEF h, n
    <3> QED
      BY <1>3, <3>1, <3>2, SMTT(20) DEF h
  <2> QED
    BY <1>1, <1>2, <2>1 DEF RoomForWriters, Path
<1>7. CounterKeepsUp'
  <2> DEFINE m == Cardinality(Writers("counting"))
             before == logFiles[currentFile.day][currentFile.index]
             after == Kept[currentFile.day][currentFile.index]
  <2>1. currentFile.day \in Days /\ currentFile.index \in 0..MaxLogIndex
    BY <1>0, LogFacts
  <2>2. before < FullSize + currentSize + m
    BY <1>0 DEF CounterKeepsUp
  <2>3. m \in Nat /\ FullSize \in Nat /\ currentSize \in Nat
        /\ before \in Nat /\ after \in Nat /\ after <= before
    BY <1>0, <1>3, <2>1, SetsOfWriters, WritersSize, LogFacts, LogNumbers
  <2>4. after < FullSize + currentSize + m
    <3> HIDE DEF m, before, after
    <3> QED
      BY <2>2, <2>3
  <2> QED
    BY <1>1, <1>2, <2>4 DEF CounterKeepsUp
<1>8. ChosenInOrder'
  <2>1. \A i \in 0..MaxLogIndex : \A j \in 0..(i - 1) : j \in 0..MaxLogIndex
    BY LogNumbers
  <2> QED
    BY <1>0, <1>1, <1>2, <1>3, <2>1 DEF ChosenInOrder, Path
<1>9. LinesWereBegun'
  <2>1. currentSize' + Cardinality(Begun)' <= linesBegun'
    BY <1>0, <1>1, <1>2 DEF LinesWereBegun
  <2>2. ASSUME NEW day \in Days, NEW i \in 0..MaxLogIndex
        PROVE  /\ Kept[day][i] + Cardinality(Unwritten) <= linesBegun
               /\ Kept[day][i] > 0 /\ ~TooOld(day) =>
                    FullSize * i + Kept[day][i] + Cardinality(Unwritten) <= linesBegun
    <3> DEFINE u == Cardinality(Unwritten)
               before == FullSize * i
    <3>1. /\ logFiles[day][i] + u <= linesBegun
          /\ logFiles[day][i] > 0 /\ ~TooOld(day) =>
               before + logFiles[day][i] + u <= linesBegun
      BY <1>0 DEF LinesWereBegun
    <3>2. u \in Nat /\ before \in Nat /\ linesBegun \in Nat
      BY <1>0, SetsOfWriters, WritersSize, LogFacts, LogNumbers
    <3> HIDE DEF u, before
    <3>3. Kept[day][i] + u <= linesBegun
      BY <1>3, <3>1, <3>2
    <3>4. Kept[day][i] > 0 /\ ~TooOld(day) => before + Kept[day][i] + u <= linesBegun
      BY <1>3, <3>1, <3>2
    <3> QED
      BY <3>3, <3>4 DEF u, before
  <2> QED
    BY <1>1, <1>2, <2>1, <2>2 DEF LinesWereBegun
<1> QED
  BY <1>4, <1>5, <1>6, <1>7, <1>8, <1>9 DEF LogInv

LEMMA LogRestartInv ==
  ASSUME LogInv, LogRestart
  PROVE  LogInv'
<1> DEFINE n == Cardinality(LogThreads)
           cur == Resolve(Kept, logDay)
<1>0. LogTypeOK /\ FilledInOrder /\ RoomForWriters /\ CounterKeepsUp /\ ChosenInOrder
      /\ LinesWereBegun
  BY DEF LogInv
<1>1. /\ UNCHANGED <<logDay, maxSize, linesBegun>>
      /\ logFiles' = Kept /\ currentFile' = cur
      /\ currentSize' = Kept[cur.day][cur.index]
      /\ logCall' = [t \in LogThreads |-> NotLogging]
  BY DEF LogRestart
<1>2. /\ Writers("counting")' = {}
      /\ Begun' = {} /\ Unwritten' = {}
      /\ \A path : Heading(path)' = {} \/ path = cur
      /\ \A path : InUse(path)' => path = cur
      /\ \A day : TooOld(day)' <=> TooOld(day)
      /\ AtLeastOneLine' = AtLeastOneLine
  BY <1>1 DEF Writers, Begun, Unwritten, Heading, InUse, TooOld, AtLeastOneLine, NotLogging
<1>3. \A path : Heading(path)' = {}
  BY <1>1 DEF Heading, NotLogging
<1>4. /\ Kept \in [Days -> [0..MaxLogIndex -> 0..MaxLines]]
      /\ \A day \in Days, i \in 0..MaxLogIndex :
           /\ Kept[day][i] = IF TooOld(day) THEN 0 ELSE logFiles[day][i]
           /\ Kept[day][i] \in Nat /\ Kept[day][i] <= logFiles[day][i]
           /\ logFiles[day][i] \in Nat
      /\ Kept[logDay] = logFiles[logDay]
  <2>1. LogTypeOK
    BY <1>0
  <2>2. \A day \in Days, i \in 0..MaxLogIndex : logFiles[day][i] \in 0..MaxLines
    BY <2>1, LogFacts
  <2>3. \A k \in 0..MaxLines : k \in Nat
    OBVIOUS
  <2> QED
    BY <2>1, <2>2, <2>3, KeptFacts, Zenon
<1>5. /\ cur.day = logDay /\ cur.index \in 0..MaxLogIndex
      /\ cur \in [day : Days, index : 0..MaxLogIndex]
      /\ Kept[logDay][cur.index] < FullSize
      /\ \A j \in 0..(cur.index - 1) : Kept[logDay][j] >= FullSize
  BY <1>0, <1>4, ResolveFinds
<1> HIDE DEF cur
<1>6. /\ logDay \in Days /\ linesBegun \in Nat /\ FullSize \in Nat \ {0}
      /\ Cardinality({}) = 0
  BY <1>0, LogFacts, LogNumbers, FS_EmptySet
<1>7. LogTypeOK'
  <2>1. logCall' \in [LogThreads -> LogCall]
    BY <1>1 DEF LogCall, NotLogging
  <2>2. currentSize' \in 0..MaxLines
    <3>1. Kept[cur.day] \in [0..MaxLogIndex -> 0..MaxLines]
      BY <1>4, <1>5, <1>6
    <3> QED
      BY <1>1, <1>5, <3>1
  <2> QED
    BY <1>0, <1>1, <1>4, <1>5, <2>1, <2>2 DEF LogTypeOK
<1>8. FilledInOrder'
  <2>1. \A i \in 1..MaxLogIndex : i \in 0..MaxLogIndex /\ i - 1 \in 0..MaxLogIndex
    BY LogNumbers
  <2> QED
    BY <1>0, <1>1, <1>2, <1>4, <2>1 DEF FilledInOrder
<1>9. RoomForWriters'
  <2>1. ASSUME NEW day \in Days, NEW i \in 0..MaxLogIndex
        PROVE  Kept[day][i] + 0 + 1 < FullSize + AtLeastOneLine + n
    <3> DEFINE h == Cardinality(Heading(Path(day, i)))
    <3>1. logFiles[day][i] + h + 1 < FullSize + AtLeastOneLine + n
      BY <1>0 DEF RoomForWriters
    <3>2. h \in Nat /\ n \in Nat /\ AtLeastOneLine \in Nat
      BY <1>0, SetsOfWriters, WritersSize, LogFacts
    <3> HIDE DEF h, n
    <3> QED
      BY <1>4, <1>6, <3>1, <3>2
  <2> QED
    BY <1>1, <1>2, <1>3, <1>6, <2>1 DEF RoomForWriters, Path
<1>10. CounterKeepsUp'
  <2>1. Kept[logDay][cur.index] \in Nat
    BY <1>4, <1>5, <1>6
  <2>2. Kept[logDay][cur.index] < FullSize + Kept[logDay][cur.index] + 0
    BY <1>6, <2>1
  <2> QED
    BY <1>1, <1>2, <1>5, <1>6, <2>2 DEF CounterKeepsUp
<1>11. ChosenInOrder'
  <2>1. ASSUME NEW day \in Days, NEW i \in 0..MaxLogIndex, InUse(Path(day, i))'
        PROVE  day = logDay /\ i = cur.index
    <3>1. Path(day, i) = cur
      BY <1>2, <2>1 DEF Path
    <3> QED
      BY <1>5, <3>1 DEF Path
  <2> QED
    BY <1>1, <1>5, <2>1 DEF ChosenInOrder, Path
<1>12. LinesWereBegun'
  <2>1. ASSUME NEW day \in Days, NEW i \in 0..MaxLogIndex
        PROVE  /\ Kept[day][i] + 0 <= linesBegun
               /\ Kept[day][i] > 0 /\ ~TooOld(day) =>
                    FullSize * i + Kept[day][i] + 0 <= linesBegun
    <3> DEFINE u == Cardinality(Unwritten)
               before == FullSize * i
    <3>1. /\ logFiles[day][i] + u <= linesBegun
          /\ logFiles[day][i] > 0 /\ ~TooOld(day) =>
               before + logFiles[day][i] + u <= linesBegun
      BY <1>0 DEF LinesWereBegun
    <3>2. u \in Nat /\ before \in Nat
      BY <1>6, SetsOfWriters, WritersSize, LogNumbers
    <3> HIDE DEF u, before
    <3>3. Kept[day][i] + 0 <= linesBegun
      BY <1>4, <1>6, <3>1, <3>2
    <3>4. Kept[day][i] > 0 /\ ~TooOld(day) => before + Kept[day][i] + 0 <= linesBegun
      BY <1>4, <1>6, <3>1, <3>2
    <3> QED
      BY <3>3, <3>4 DEF before
  <2>2. currentSize' + 0 <= linesBegun'
    BY <1>1, <1>5, <1>6, <2>1
  <2> QED
    BY <1>1, <1>2, <1>6, <2>1, <2>2 DEF LinesWereBegun
<1> QED
  BY <1>7, <1>8, <1>9, <1>10, <1>11, <1>12 DEF LogInv

LEMMA NextLogDayInv ==
  ASSUME LogInv, NextLogDay
  PROVE  LogInv'
<1>0. LogTypeOK /\ FilledInOrder /\ RoomForWriters /\ CounterKeepsUp /\ ChosenInOrder
      /\ LinesWereBegun
  BY DEF LogInv
<1>1. /\ UNCHANGED <<logFiles, maxSize, currentFile, currentSize, logCall, linesBegun>>
      /\ logDay < MaxLogDay /\ logDay' = logDay + 1
  BY DEF NextLogDay
<1>2. /\ Writers("counting")' = Writers("counting")
      /\ Begun' = Begun /\ Unwritten' = Unwritten
      /\ \A path : Heading(path)' = Heading(path)
      /\ \A path : InUse(path)' <=> InUse(path)
      /\ AtLeastOneLine' = AtLeastOneLine
  BY <1>1 DEF Writers, Begun, Unwritten, Heading, InUse, AtLeastOneLine
<1>3. logDay \in Nat /\ MaxLogDay \in Nat /\ RetentionDays \in Nat
  BY <1>0, LogFacts, LogNumbers
<1>4. \A day \in Days : ~TooOld(day)' => ~TooOld(day)
  BY <1>1, <1>3 DEF TooOld, Days
<1>5. LogTypeOK'
  BY <1>0, <1>1, <1>3 DEF LogTypeOK, Days
<1>6. FilledInOrder'
  BY <1>0, <1>1, <1>4 DEF FilledInOrder
<1>7. RoomForWriters'
  BY <1>0, <1>1, <1>2 DEF RoomForWriters, Path
<1>8. CounterKeepsUp'
  BY <1>0, <1>1, <1>2 DEF CounterKeepsUp
<1>9. ChosenInOrder'
  BY <1>0, <1>1, <1>2, <1>4 DEF ChosenInOrder, Path
<1>10. LinesWereBegun'
  BY <1>0, <1>1, <1>2, <1>4 DEF LinesWereBegun
<1> QED
  BY <1>5, <1>6, <1>7, <1>8, <1>9, <1>10 DEF LogInv

LEMMA LogInitInv == LogInit => LogInv
<1> DEFINE n == Cardinality(LogThreads)
<1> SUFFICES ASSUME LogInit PROVE LogInv
  OBVIOUS
<1>1. /\ logFiles = [d \in Days |-> [i \in 0..MaxLogIndex |-> 0]]
      /\ logDay = 0 /\ maxSize \in LogSizes
      /\ currentFile = [day |-> 0, index |-> 0]
      /\ currentSize = 0 /\ linesBegun = 0
      /\ logCall = [t \in LogThreads |-> NotLogging]
  BY DEF LogInit
<1>2. /\ 0 \in Days /\ 0 \in 0..MaxLogIndex /\ 0 \in 0..MaxLines
      /\ FullSize \in Nat \ {0}
  BY LogNumbers DEF Days
<1>3. \A day \in Days, i \in 0..MaxLogIndex : logFiles[day][i] = 0
  BY <1>1
<1>4. LogTypeOK
  <2>1. logCall \in [LogThreads -> LogCall]
    BY <1>1 DEF LogCall, NotLogging
  <2>2. logFiles \in [Days -> [0..MaxLogIndex -> 0..MaxLines]]
    BY <1>1, <1>2
  <2> QED
    BY <1>1, <1>2, <2>1, <2>2 DEF LogTypeOK
<1>5. /\ Writers("counting") = {} /\ Begun = {} /\ Unwritten = {}
      /\ \A path : Heading(path) = {}
      /\ Cardinality({}) = 0
  BY <1>1, FS_EmptySet DEF Writers, Begun, Unwritten, Heading, NotLogging
<1>6. FilledInOrder
  <2>1. \A i \in 1..MaxLogIndex : i \in 0..MaxLogIndex
    BY LogNumbers
  <2> QED
    BY <1>3, <2>1 DEF FilledInOrder
<1>7. RoomForWriters
  <2>1. n \in Nat /\ AtLeastOneLine \in Nat \ {0}
    BY <1>4, LogFacts, WritersSize
  <2>2. 0 + 0 + 1 < FullSize + AtLeastOneLine + n
    <3> HIDE DEF n
    <3> QED
      BY <1>2, <2>1
  <2> QED
    BY <1>3, <1>5, <2>2 DEF RoomForWriters
<1>8. CounterKeepsUp
  <2>1. currentFile.day = 0 /\ currentFile.index = 0 /\ logFiles[0][0] = 0
    BY <1>1, <1>2, <1>3
  <2>2. 0 < FullSize + 0 + 0
    BY <1>2
  <2> QED
    BY <1>1, <1>5, <2>1, <2>2 DEF CounterKeepsUp
<1>9. ChosenInOrder
  <2>1. ASSUME NEW day \in Days, NEW i \in 0..MaxLogIndex, InUse(Path(day, i))
        PROVE  i = 0
    <3>1. Path(day, i) = Path(0, 0)
      BY <1>1, <2>1 DEF InUse, Path, NotLogging
    <3> QED
      BY <1>2, <3>1, PathsDiffer
  <2> QED
    BY <2>1 DEF ChosenInOrder
<1>10. LinesWereBegun
  BY <1>1, <1>2, <1>3, <1>5 DEF LinesWereBegun
<1> QED
  BY <1>4, <1>6, <1>7, <1>8, <1>9, <1>10 DEF LogInv

LEMMA LogStepInv ==
  ASSUME LogInv, [LogNext]_logVars
  PROVE  LogInv'
<1>1. ASSUME NEW t \in LogThreads, WriteAsks(t) PROVE LogInv'
  BY <1>1, WriteAsksInv
<1>2. ASSUME NEW t \in LogThreads, Rollover(t) PROVE LogInv'
  BY <1>2, RolloverInv
<1>3. ASSUME NEW t \in LogThreads, WriteOpens(t) PROVE LogInv'
  BY <1>3, WriteOpensInv
<1>4. ASSUME NEW t \in LogThreads, WriteAppends(t) PROVE LogInv'
  BY <1>4, WriteAppendsInv
<1>5. ASSUME NEW t \in LogThreads, WriteCounts(t) PROVE LogInv'
  BY <1>5, WriteCountsInv
<1>6. CASE CleanupLogs
  BY <1>6, CleanupLogsInv
<1>7. CASE LogRestart
  BY <1>7, LogRestartInv
<1>8. CASE NextLogDay
  BY <1>8, NextLogDayInv
<1>9. CASE UNCHANGED logVars
  <2>1. UNCHANGED <<logFiles, logDay, maxSize, currentFile, currentSize, logCall, linesBegun>>
    BY <1>9 DEF logVars
  <2>2. /\ Writers("counting")' = Writers("counting")
        /\ Begun' = Begun /\ Unwritten' = Unwritten
        /\ \A path : Heading(path)' = Heading(path)
        /\ \A path : InUse(path)' <=> InUse(path)
        /\ \A day : TooOld(day)' <=> TooOld(day)
        /\ AtLeastOneLine' = AtLeastOneLine
    BY <2>1 DEF Writers, Begun, Unwritten, Heading, InUse, TooOld, AtLeastOneLine
  <2>3. LogTypeOK'
    BY <2>1 DEF LogInv, LogTypeOK
  <2>4. FilledInOrder' /\ CounterKeepsUp'
    BY <2>1, <2>2 DEF LogInv, FilledInOrder, CounterKeepsUp
  <2>5. RoomForWriters'
    BY <2>1, <2>2 DEF LogInv, RoomForWriters, Path
  <2>6. ChosenInOrder'
    BY <2>1, <2>2 DEF LogInv, ChosenInOrder, Path
  <2>7. LinesWereBegun'
    BY <2>1, <2>2 DEF LogInv, LinesWereBegun
  <2> QED
    BY <2>3, <2>4, <2>5, <2>6, <2>7 DEF LogInv
<1> QED
  BY <1>1, <1>2, <1>3, <1>4, <1>5, <1>6, <1>7, <1>8, <1>9 DEF LogNext

\* However the writers, a cleanup, a restart and the days mix, the files keep
\* room for the lines that are on their way, the counter is not behind by more
\* than those, and files are used in the order of their numbers.
THEOREM LogInvariant == LogSpec => []LogInv
<1>1. LogInit => LogInv
  BY LogInitInv
<1>2. LogInv /\ [LogNext]_logVars => LogInv'
  BY LogStepInv
<1> QED
  BY <1>1, <1>2, PTL DEF LogSpec

\* No file of yma-logging outgrows the two limits together by more than one
\* line for every other writer, and none is begun before the one in front of it
\* is full.
THEOREM LogFilesStayBounded == LogSpec => []LogFilesBounded
<1>1. LogInv => LogFilesBounded
  <2> SUFFICES ASSUME LogInv PROVE LogFilesBounded
    OBVIOUS
  <2>1. ASSUME NEW day \in Days, NEW i \in 0..MaxLogIndex
        PROVE  logFiles[day][i] + 1 < FullSize + AtLeastOneLine + Cardinality(LogThreads)
    <3> DEFINE h == Cardinality(Heading(Path(day, i)))
               n == Cardinality(LogThreads)
    <3>1. logFiles[day][i] + h + 1 < FullSize + AtLeastOneLine + n
      BY DEF LogInv, RoomForWriters
    <3>2. /\ logFiles[day][i] \in Nat /\ h \in Nat /\ n \in Nat
          /\ AtLeastOneLine \in Nat /\ FullSize \in Nat
      BY SetsOfWriters, WritersSize, LogFacts, LogNumbers DEF LogInv
    <3> HIDE DEF h, n
    <3>3. logFiles[day][i] + 1 < FullSize + AtLeastOneLine + n
      BY <3>1, <3>2
    <3> QED
      BY <3>3 DEF n
  <2>2. FilledInOrder
    BY DEF LogInv
  <2> QED
    BY <2>1, <2>2 DEF LogFilesBounded
<1>2. LogSpec => []LogInv
  BY LogInvariant
<1> QED
  BY <1>1, <1>2, PTL

-----------------------------------------------------------------------------
(***************************************************************************)
(* Second factors.  The codes drawn for a user move from one set to the    *)
(* other and secrets are numbered, so what is left is arithmetic: within a *)
(* second of now lie the codes of at most two intervals.                   *)
(***************************************************************************)
LEMMA MfaInitInv == MfaInit => MfaInv
<1> SUFFICES ASSUME MfaInit PROVE MfaInv
  OBVIOUS
<1>1. MfaTypeOK
  BY MfaBounds DEF MfaInit, MfaTypeOK
<1>2. SecretsDiffer /\ CodesKept
  BY DEF MfaInit, SecretsDiffer, CodesKept, NoMfa
<1> QED
  BY <1>1, <1>2 DEF MfaInv

\* What a step does to the configuration of one user.
LEMMA ConfigChanged ==
  ASSUME MfaTypeOK, NEW u \in MfaUsers, NEW c \in {NoMfa} \cup MfaConfig,
         mfaConfigs' = [mfaConfigs EXCEPT ![u] = c]
  PROVE  /\ mfaConfigs' \in [MfaUsers -> {NoMfa} \cup MfaConfig]
         /\ \A v \in MfaUsers : mfaConfigs'[v] = IF v = u THEN c ELSE mfaConfigs[v]
BY DEF MfaTypeOK

LEMMA SpentChanged ==
  ASSUME MfaTypeOK, NEW u \in MfaUsers, NEW codes \in SUBSET BackupCodes,
         spentCodes' = [spentCodes EXCEPT ![u] = codes]
  PROVE  /\ spentCodes' \in [MfaUsers -> SUBSET BackupCodes]
         /\ \A v \in MfaUsers : spentCodes'[v] = IF v = u THEN codes ELSE spentCodes[v]
BY DEF MfaTypeOK

LEMMA EnableTotpInv ==
  ASSUME MfaInv, NEW u \in MfaUsers, EnableTotp(u)
  PROVE  MfaInv'
<1>0. MfaTypeOK /\ SecretsDiffer /\ CodesKept
  BY DEF MfaInv
<1>1. PICK codes \in SUBSET BackupCodes :
        /\ Cardinality(codes) = CodesPerUser
        /\ mfaConfigs' = [mfaConfigs EXCEPT ![u] =
             [enabled |-> TRUE, totp_secret |-> secretsDrawn + 1, backup_codes |-> codes]]
  BY DEF EnableTotp
<1> DEFINE c == [enabled |-> TRUE, totp_secret |-> secretsDrawn + 1, backup_codes |-> codes]
<1>2. /\ secretsDrawn \in Nat /\ secretsDrawn' = secretsDrawn + 1
      /\ secretsDrawn' \in 0..MaxSecrets /\ secretsDrawn + 1 \in 1..MaxSecrets
      /\ mfaNow' = mfaNow
  BY <1>0, MfaBounds DEF EnableTotp, MfaTypeOK
<1>3. /\ c \in MfaConfig /\ c.enabled /\ c.totp_secret = secretsDrawn + 1
      /\ c.backup_codes = codes
  BY <1>2 DEF MfaConfig
<1> HIDE DEF c
<1>4. /\ mfaConfigs' \in [MfaUsers -> {NoMfa} \cup MfaConfig]
      /\ \A v \in MfaUsers : mfaConfigs'[v] = IF v = u THEN c ELSE mfaConfigs[v]
  BY <1>0, <1>1, <1>3, ConfigChanged DEF c
<1>5. /\ spentCodes' \in [MfaUsers -> SUBSET BackupCodes]
      /\ \A v \in MfaUsers : spentCodes'[v] = IF v = u THEN {} ELSE spentCodes[v]
  <2>1. {} \in SUBSET BackupCodes /\ spentCodes' = [spentCodes EXCEPT ![u] = {}]
    BY DEF EnableTotp
  <2> QED
    BY <1>0, <2>1, SpentChanged
<1>6. MfaTypeOK'
  BY <1>0, <1>2, <1>4, <1>5 DEF MfaTypeOK
<1>7. SecretsDiffer'
  <2>1. \A v \in MfaUsers : mfaConfigs[v].enabled =>
          mfaConfigs[v].totp_secret \in Nat /\ mfaConfigs[v].totp_secret <= secretsDrawn
    <3> SUFFICES ASSUME NEW v \in MfaUsers, mfaConfigs[v].enabled
                 PROVE  /\ mfaConfigs[v].totp_secret \in Nat
                        /\ mfaConfigs[v].totp_secret <= secretsDrawn
      OBVIOUS
    <3>0. ~NoMfa.enabled /\ mfaConfigs[v] \in {NoMfa} \cup MfaConfig
      BY <1>0 DEF MfaTypeOK, NoMfa
    <3>1. mfaConfigs[v] \in MfaConfig
      BY <3>0
    <3>2. mfaConfigs[v].totp_secret \in Nat
      <4>1. 1..MaxSecrets \subseteq Nat
        BY MfaBounds
      <4>2. mfaConfigs[v].totp_secret \in 1..MaxSecrets
        BY <3>1 DEF MfaConfig
      <4> QED
        BY <4>1, <4>2
    <3> QED
      BY <1>0, <3>2 DEF SecretsDiffer
  <2> QED
    BY <1>0, <1>2, <1>3, <1>4, <2>1 DEF SecretsDiffer
<1>8. CodesKept'
  BY <1>0, <1>1, <1>3, <1>4, <1>5 DEF CodesKept
<1> QED
  BY <1>6, <1>7, <1>8 DEF MfaInv

LEMMA DisableInv ==
  ASSUME MfaInv, NEW u \in MfaUsers, Disable(u)
  PROVE  MfaInv'
<1>0. MfaTypeOK /\ SecretsDiffer /\ CodesKept
  BY DEF MfaInv
<1>1. ~NoMfa.enabled /\ UNCHANGED <<mfaNow, secretsDrawn>>
  BY DEF NoMfa, Disable
<1>2. /\ mfaConfigs' \in [MfaUsers -> {NoMfa} \cup MfaConfig]
      /\ \A v \in MfaUsers : mfaConfigs'[v] = IF v = u THEN NoMfa ELSE mfaConfigs[v]
  BY <1>0, ConfigChanged DEF Disable
<1>3. /\ spentCodes' \in [MfaUsers -> SUBSET BackupCodes]
      /\ \A v \in MfaUsers : spentCodes'[v] = IF v = u THEN {} ELSE spentCodes[v]
  BY <1>0, SpentChanged DEF Disable
<1>4. MfaTypeOK'
  BY <1>0, <1>1, <1>2, <1>3 DEF MfaTypeOK
<1>5. SecretsDiffer'
  BY <1>0, <1>1, <1>2 DEF SecretsDiffer
<1>6. CodesKept'
  BY <1>0, <1>1, <1>2, <1>3 DEF CodesKept
<1> QED
  BY <1>4, <1>5, <1>6 DEF MfaInv

LEMMA VerifyBackupCodeInv ==
  ASSUME MfaInv, NEW u \in MfaUsers, NEW code \in BackupCodes, VerifyBackupCode(u, code)
  PROVE  MfaInv'
<1> DEFINE left == mfaConfigs[u].backup_codes \ {code}
           spent == spentCodes[u] \cup {code}
           c == [mfaConfigs[u] EXCEPT !.backup_codes = left]
<1>0. MfaTypeOK /\ SecretsDiffer /\ CodesKept
  BY DEF MfaInv
<1>1. /\ mfaConfigs[u].enabled /\ code \in mfaConfigs[u].backup_codes
      /\ UNCHANGED <<mfaNow, secretsDrawn>>
  BY DEF VerifyBackupCode
<1>2. mfaConfigs[u] \in MfaConfig /\ spent \in SUBSET BackupCodes
  BY <1>0, <1>1 DEF MfaTypeOK, NoMfa
<1>3. /\ c \in MfaConfig /\ c.enabled /\ c.totp_secret = mfaConfigs[u].totp_secret
      /\ c.backup_codes = left
  BY <1>1, <1>2 DEF MfaConfig
<1>4. mfaConfigs' = [mfaConfigs EXCEPT ![u] = c]
      /\ spentCodes' = [spentCodes EXCEPT ![u] = spent]
  BY <1>0 DEF VerifyBackupCode, MfaTypeOK
<1> HIDE DEF c
<1>5. /\ mfaConfigs' \in [MfaUsers -> {NoMfa} \cup MfaConfig]
      /\ \A v \in MfaUsers : mfaConfigs'[v] = IF v = u THEN c ELSE mfaConfigs[v]
  BY <1>0, <1>3, <1>4, ConfigChanged
<1>6. /\ spentCodes' \in [MfaUsers -> SUBSET BackupCodes]
      /\ \A v \in MfaUsers : spentCodes'[v] = IF v = u THEN spent ELSE spentCodes[v]
  BY <1>0, <1>2, <1>4, SpentChanged
<1>7. MfaTypeOK'
  BY <1>0, <1>1, <1>5, <1>6 DEF MfaTypeOK
<1>8. SecretsDiffer'
  BY <1>0, <1>1, <1>3, <1>5 DEF SecretsDiffer
<1>9. CodesKept'
  <2>1. /\ spent \cap left = {}
        /\ spent \cup left = spentCodes[u] \cup mfaConfigs[u].backup_codes
    BY <1>0, <1>1 DEF CodesKept
  <2> HIDE DEF spent, left
  <2> QED
    BY <1>0, <1>1, <1>3, <1>5, <1>6, <2>1 DEF CodesKept
<1> QED
  BY <1>7, <1>8, <1>9 DEF MfaInv

LEMMA MfaStepInv ==
  ASSUME MfaInv, [MfaNext]_mfaVars
  PROVE  MfaInv'
<1>1. ASSUME NEW u \in MfaUsers, EnableTotp(u) PROVE MfaInv'
  BY <1>1, EnableTotpInv
<1>2. ASSUME NEW u \in MfaUsers, Disable(u) PROVE MfaInv'
  BY <1>2, DisableInv
<1>3. ASSUME NEW u \in MfaUsers, NEW code \in BackupCodes, VerifyBackupCode(u, code)
      PROVE  MfaInv'
  BY <1>3, VerifyBackupCodeInv
<1>4. CASE MfaTick
  <2>1. mfaNow' \in 0..MaxMfaTime
    BY <1>4, MfaBounds DEF MfaTick, MfaInv, MfaTypeOK
  <2> QED
    BY <1>4, <2>1 DEF MfaTick, MfaInv, MfaTypeOK, SecretsDiffer, CodesKept
<1>5. CASE UNCHANGED mfaVars
  BY <1>5 DEF mfaVars, MfaInv, MfaTypeOK, SecretsDiffer, CodesKept
<1> QED
  BY <1>1, <1>2, <1>3, <1>4, <1>5 DEF MfaNext

\* The second factors are of their types, no two secrets are the same, and the
\* backup codes drawn for a user are left or spent and never both.
THEOREM MfaInvariant == MfaSpec => []MfaInv
<1>1. MfaInit => MfaInv
  BY MfaInitInv
<1>2. MfaInv /\ [MfaNext]_mfaVars => MfaInv'
  BY MfaStepInv
<1> QED
  BY <1>1, <1>2, PTL DEF MfaSpec

\* A code passes exactly if it is of an interval within a second of now.
LEMMA WhatPasses ==
  ASSUME MfaTypeOK, NEW secret, NEW other, NEW time \in Nat
  PROVE  TotpVerify(secret, TotpCode(other, time), 1) <=>
           /\ secret = other
           /\ \E near \in 0..(MaxMfaTime + 1) :
                /\ near <= mfaNow + 1 /\ mfaNow <= near + 1
                /\ near \div TotpInterval = time \div TotpInterval
<1>1. mfaNow \in 0..MaxMfaTime /\ MaxMfaTime \in Nat /\ mfaNow \in Nat
  BY MfaBounds DEF MfaTypeOK
<1> DEFINE turn(t) == t \div TotpInterval
<1>2. \A t, u : TotpCode(secret, t) = TotpCode(other, u)
                  <=> secret = other /\ turn(t) = turn(u)
  <2> TAKE t, u
  <2>1. /\ TotpCode(secret, t).secret = secret /\ TotpCode(secret, t).counter = turn(t)
        /\ TotpCode(other, u).secret = other /\ TotpCode(other, u).counter = turn(u)
    BY DEF TotpCode
  <2> QED
    BY <2>1 DEF TotpCode
<1> HIDE DEF turn
<1>3. ASSUME TotpVerify(secret, TotpCode(other, time), 1)
      PROVE  /\ secret = other
             /\ \E near \in 0..(MaxMfaTime + 1) :
                  /\ near <= mfaNow + 1 /\ mfaNow <= near + 1 /\ turn(near) = turn(time)
  <2>1. PICK offset \in 0..1 :
          \/ TotpCode(other, time) = TotpCode(secret, mfaNow + offset)
          \/ TotpCode(other, time)
               = TotpCode(secret, IF mfaNow > offset THEN mfaNow - offset ELSE 0)
    BY <1>3 DEF TotpVerify
  <2>2. CASE TotpCode(other, time) = TotpCode(secret, mfaNow + offset)
    <3>1. secret = other /\ turn(mfaNow + offset) = turn(time)
      BY <1>2, <2>2
    <3>2. /\ mfaNow + offset \in 0..(MaxMfaTime + 1)
          /\ mfaNow + offset <= mfaNow + 1 /\ mfaNow <= (mfaNow + offset) + 1
      BY <1>1
    <3> QED
      BY <3>1, <3>2
  <2>3. CASE TotpCode(other, time)
               = TotpCode(secret, IF mfaNow > offset THEN mfaNow - offset ELSE 0)
    <3> DEFINE back == IF mfaNow > offset THEN mfaNow - offset ELSE 0
    <3>1. secret = other /\ turn(back) = turn(time)
      BY <1>2, <2>3
    <3>2. back \in 0..(MaxMfaTime + 1) /\ back <= mfaNow + 1 /\ mfaNow <= back + 1
      BY <1>1
    <3> HIDE DEF back
    <3> QED
      BY <3>1, <3>2
  <2> QED
    BY <2>1, <2>2, <2>3
<1>4. ASSUME secret = other,
             NEW near \in 0..(MaxMfaTime + 1), near <= mfaNow + 1, mfaNow <= near + 1,
             turn(near) = turn(time)
      PROVE  TotpVerify(secret, TotpCode(other, time), 1)
  <2>1. TotpCode(other, time) = TotpCode(secret, near)
    BY <1>2, <1>4
  <2>2. \/ near = mfaNow + 1
        \/ near = mfaNow + 0
        \/ near = IF mfaNow > 1 THEN mfaNow - 1 ELSE 0
    BY <1>1, <1>4
  <2>3. 0 \in 0..1 /\ 1 \in 0..1
    OBVIOUS
  <2> QED
    BY <2>1, <2>2, <2>3 DEF TotpVerify
<1> QED
  BY <1>3, <1>4 DEF turn

\* A backup code is good once and none is lost, and of the time-based codes a
\* user's own pass, within a second of their interval, and nobody else's.
THEOREM MfaSecondFactorHolds == MfaSpec => []SecondFactorHolds
<1>1. MfaInv => SecondFactorHolds
  <2> SUFFICES ASSUME MfaInv, NEW u \in MfaUsers, mfaConfigs[u].enabled
               PROVE  /\ spentCodes[u] \cap mfaConfigs[u].backup_codes = {}
                      /\ Cardinality(spentCodes[u] \cup mfaConfigs[u].backup_codes) = CodesPerUser
                      /\ VerifyTotp(u, TotpCode(mfaConfigs[u].totp_secret, mfaNow))
                      /\ \A v \in MfaUsers : mfaConfigs[v].enabled /\ u # v =>
                           ~VerifyTotp(u, TotpCode(mfaConfigs[v].totp_secret, mfaNow))
                      /\ \A time \in 0..MaxMfaTime :
                           VerifyTotp(u, TotpCode(mfaConfigs[u].totp_secret, time)) <=>
                             \E near \in 0..(MaxMfaTime + 1) :
                               /\ near <= mfaNow + 1 /\ mfaNow <= near + 1
                               /\ near \div TotpInterval = time \div TotpInterval
    BY DEF SecondFactorHolds
  <2>0. /\ MfaTypeOK /\ mfaNow \in Nat /\ mfaNow \in 0..(MaxMfaTime + 1)
        /\ mfaNow <= mfaNow + 1
    BY MfaBounds DEF MfaInv, MfaTypeOK
  <2>1. /\ spentCodes[u] \cap mfaConfigs[u].backup_codes = {}
        /\ Cardinality(spentCodes[u] \cup mfaConfigs[u].backup_codes) = CodesPerUser
    BY DEF MfaInv, CodesKept
  <2>2. VerifyTotp(u, TotpCode(mfaConfigs[u].totp_secret, mfaNow))
    BY <2>0, WhatPasses DEF VerifyTotp
  <2>3. ASSUME NEW v \in MfaUsers, mfaConfigs[v].enabled, u # v
        PROVE  ~VerifyTotp(u, TotpCode(mfaConfigs[v].totp_secret, mfaNow))
    <3>1. mfaConfigs[u].totp_secret # mfaConfigs[v].totp_secret
      BY <2>3 DEF MfaInv, SecretsDiffer
    <3> QED
      BY <2>0, <3>1, WhatPasses DEF VerifyTotp
  <2>4. ASSUME NEW time \in 0..MaxMfaTime
        PROVE  VerifyTotp(u, TotpCode(mfaConfigs[u].totp_secret, time)) <=>
                 \E near \in 0..(MaxMfaTime + 1) :
                   /\ near <= mfaNow + 1 /\ mfaNow <= near + 1
                   /\ near \div TotpInterval = time \div TotpInterval
    <3>1. time \in Nat
      BY MfaBounds
    <3> QED
      BY <2>0, <3>1, WhatPasses DEF VerifyTotp
  <2> QED
    BY <2>1, <2>2, <2>3, <2>4
<1>2. MfaSpec => []MfaInv
  BY MfaInvariant
<1> QED
  BY <1>1, <1>2, PTL

-----------------------------------------------------------------------------
(***************************************************************************)
(* Search.                                                                 *)
(***************************************************************************)
\* What an operation, a task and a call are made of.
LEMMA OpFacts ==
  /\ \A op \in Creations :
       /\ op.kind = "create" /\ op.uid \in IndexIds
       /\ op.key \in PrimaryKeys /\ op.key # NoIndex
  /\ \A op \in Changes :
       op.kind \in {"add", "delete"} /\ op.uid \in IndexIds /\ op.docs \subseteq DocIds
  /\ \A op \in Creations \cup Changes : op.kind = "create" <=> op \in Creations
<1>1. \A op \in Creations :
        /\ op.kind = "create" /\ op.uid \in IndexIds
        /\ op.key \in PrimaryKeys /\ op.key # NoIndex
  BY NoIndexIsNoKey DEF Creations
<1>2. ASSUME NEW op \in Changes
      PROVE  op.kind \in {"add", "delete"} /\ op.uid \in IndexIds /\ op.docs \subseteq DocIds
  <2> DEFINE Ones == {{d} : d \in DocIds}
  <2>1. op \in [kind : {"add", "delete"}, uid : IndexIds, docs : Ones]
        \/ op \in [kind : {"delete"}, uid : IndexIds, docs : {DocIds}]
    BY DEF Changes
  <2>2. \A docs \in Ones : docs \subseteq DocIds
    OBVIOUS
  <2> HIDE DEF Ones
  <2> QED
    BY <2>1, <2>2
<1> QED
  BY <1>1, <1>2

LEMMA SearchCallParts ==
  ASSUME NEW call \in SearchCall
  PROVE  /\ call.at \in {"none", "found", "waiting", "getting", "returned"}
         /\ call.at = "found" => call.op \in Changes
         /\ call.at \in {"waiting", "getting", "returned"} =>
              call.op \in Creations \cup Changes /\ call.task \in Nat
         /\ call.at = "returned" => call.ok \in BOOLEAN
<1>1. CASE call \in [at : {"none"}] \cup [at : {"found"}, op : Changes]
  BY <1>1
<1>2. CASE call \in [at : {"waiting", "getting"}, op : Creations \cup Changes, task : Nat]
  BY <1>2
<1>3. CASE call \in [at : {"returned"}, op : Creations \cup Changes, task : Nat, ok : BOOLEAN]
  BY <1>3
<1> QED
  BY <1>1, <1>2, <1>3 DEF SearchCall

\* What a call becomes.
LEMMA SearchCallsMade ==
  ASSUME NEW op \in Creations \cup Changes, NEW task \in Nat, NEW ok \in BOOLEAN
  PROVE  /\ op \in Changes => [at |-> "found", op |-> op] \in SearchCall
         /\ [at |-> "waiting", op |-> op, task |-> task] \in SearchCall
         /\ [at |-> "getting", op |-> op, task |-> task] \in SearchCall
         /\ [at |-> "returned", op |-> op, task |-> task, ok |-> ok] \in SearchCall
BY DEF SearchCall

LEMMA GoesFacts ==
  ASSUME SearchTypeOK, NEW c \in SearchCalls, NEW to \in SearchCall, Goes(c, to)
  PROVE  /\ searchCall' \in [SearchCalls -> SearchCall]
         /\ searchCall'[c] = to
         /\ \A d \in SearchCalls \ {c} : searchCall'[d] = searchCall[d]
BY DEF SearchTypeOK, Goes

\* A call goes on knowing its task while tasks are added and run.
LEMMA CallsGoOn ==
  ASSUME NEW c \in SearchCalls, KnowsItsTask(c), searchCall'[c] = searchCall[c],
         searchCall[c] \in SearchCall,
         \A i \in IndexIds : primaryKey[i] # NoIndex => primaryKey'[i] # NoIndex,
         \A t \in DOMAIN searchTasks :
           /\ t \in DOMAIN searchTasks' /\ searchTasks'[t].op = searchTasks[t].op
           /\ Over(t) => Over(t)'
  PROVE  KnowsItsTask(c)'
<1> DEFINE k == searchCall[c]
<1>1. k.at \in {"found", "returned"} => k.op.uid \in IndexIds
  BY SearchCallParts, OpFacts
<1>2. k.at = "found" => Posted(k.op)'
  BY <1>1 DEF KnowsItsTask, Posted
<1>3. k.at \in {"waiting", "getting"} \/ (k.at = "returned" /\ k.ok) =>
        /\ k.task \in DOMAIN searchTasks' /\ searchTasks'[k.task].op = k.op
        /\ k.at # "waiting" => Over(k.task)'
  BY DEF KnowsItsTask
<1>4. k.at = "returned" /\ k.ok /\ k.op.kind = "create" => primaryKey'[k.op.uid] # NoIndex
  BY <1>1 DEF KnowsItsTask
<1> QED
  BY <1>2, <1>3, <1>4 DEF KnowsItsTask

LEMMA SearchInitInv == SearchInit => SearchInv
<1> SUFFICES ASSUME SearchInit PROVE SearchInv
  OBVIOUS
<1>1. SearchTypeOK
  <2>1. [at |-> "none"] \in SearchCall
    BY DEF SearchCall
  <2> QED
    BY <2>1 DEF SearchInit, SearchTypeOK
<1>2. TasksInOrder /\ TasksStand
  BY DEF SearchInit, TasksInOrder, TasksStand
<1>3. \A c \in SearchCalls : KnowsItsTask(c)
  BY DEF SearchInit, KnowsItsTask
<1>4. \A i \in IndexIds : documents[i] # {} => primaryKey[i] # NoIndex
  BY DEF SearchInit
<1> QED
  BY <1>1, <1>2, <1>3, <1>4 DEF SearchInv

\* A step of one caller that leaves the server alone.
LEMMA CallerSteps ==
  ASSUME SearchInv, NEW c \in SearchCalls, NEW to \in SearchCall, Goes(c, to),
         UNCHANGED <<primaryKey, documents, searchTasks>>,
         KnowsItsTask(c)'
  PROVE  SearchInv'
<1>0. SearchTypeOK /\ TasksInOrder /\ TasksStand
  BY DEF SearchInv
<1>1. /\ searchCall' \in [SearchCalls -> SearchCall]
      /\ \A d \in SearchCalls \ {c} : searchCall'[d] = searchCall[d]
  BY <1>0, GoesFacts
<1>2. SearchTypeOK'
  BY <1>0, <1>1 DEF SearchTypeOK
<1>3. TasksInOrder' /\ TasksStand'
  BY <1>0 DEF TasksInOrder, TasksStand, Posted, Succeeds, Stands, Undone, Over
<1>4. ASSUME NEW d \in SearchCalls PROVE KnowsItsTask(d)'
  <2>1. CASE d # c
    <3>1. searchCall[d] \in SearchCall /\ searchCall'[d] = searchCall[d] /\ KnowsItsTask(d)
      BY <1>0, <1>1, <2>1 DEF SearchTypeOK, SearchInv
    <3>2. \A t : Over(t) <=> Over(t)'
      BY DEF Over
    <3> QED
      BY <3>1, <3>2, CallsGoOn
  <2> QED
    BY <2>1
<1> QED
  BY <1>2, <1>3, <1>4 DEF SearchInv

LEMMA GetsIndexInv ==
  ASSUME SearchInv, NEW c \in SearchCalls, NEW op \in Changes, NEW lost \in BOOLEAN,
         GetsIndex(c, op, lost)
  PROVE  SearchInv'
<1> DEFINE found == [at |-> "found", op |-> op]
           none  == [at |-> "returned", op |-> op, task |-> 0, ok |-> FALSE]
<1>0. SearchTypeOK /\ UNCHANGED <<primaryKey, documents, searchTasks>>
  BY DEF SearchInv, GetsIndex
<1>1. found \in SearchCall /\ none \in SearchCall
  BY SearchCallsMade
<1>2. CASE primaryKey[op.uid] = NoIndex \/ lost
  <2>1. Goes(c, none)
    BY <1>2 DEF GetsIndex, Gives
  <2>2. searchCall'[c] = none
    BY <1>0, <1>1, <2>1, GoesFacts
  <2>3. KnowsItsTask(c)'
    BY <2>2 DEF KnowsItsTask
  <2> QED
    BY <1>0, <1>1, <2>1, <2>3, CallerSteps
<1>3. CASE ~(primaryKey[op.uid] = NoIndex \/ lost)
  <2>1. Goes(c, found)
    BY <1>3 DEF GetsIndex
  <2>2. searchCall'[c] = found
    BY <1>0, <1>1, <2>1, GoesFacts
  <2>3. KnowsItsTask(c)'
    BY <1>0, <1>3, <2>2 DEF KnowsItsTask, Posted
  <2> QED
    BY <1>0, <1>1, <2>1, <2>3, CallerSteps
<1> QED
  BY <1>2, <1>3

LEMMA WaitEndsInv ==
  ASSUME SearchInv, NEW c \in SearchCalls, WaitEnds(c)
  PROVE  SearchInv'
<1> DEFINE k == searchCall[c]
           getting  == [at |-> "getting", op |-> k.op, task |-> k.task]
           returned == [at |-> "returned", op |-> k.op, task |-> k.task, ok |-> TRUE]
<1>0. /\ SearchTypeOK /\ UNCHANGED <<primaryKey, documents, searchTasks>>
      /\ k \in SearchCall /\ k.at = "waiting" /\ Over(k.task) /\ KnowsItsTask(c)
  BY DEF SearchInv, WaitEnds, SearchTypeOK
<1>1. k.op \in Creations \cup Changes /\ k.task \in Nat
  BY <1>0, SearchCallParts
<1>2. getting \in SearchCall /\ returned \in SearchCall
  BY <1>1, SearchCallsMade
<1>3. /\ k.task \in DOMAIN searchTasks' /\ searchTasks'[k.task].op = k.op
      /\ searchTasks'[k.task].status # "enqueued"
  BY <1>0 DEF KnowsItsTask, Over
<1>4. CASE k.op.kind = "create"
  <2>1. k \in [at : {"waiting", "getting"}, op : Creations \cup Changes, task : Nat]
    BY <1>0 DEF SearchCall
  <2>2. [k EXCEPT !.at = "getting"] = getting
    BY <2>1
  <2>3. Goes(c, getting)
    BY <1>4, <2>2 DEF WaitEnds
  <2>4. searchCall'[c] = getting
    BY <1>0, <1>2, <2>3, GoesFacts
  <2> HIDE DEF k
  <2>5. KnowsItsTask(c)'
    BY <1>3, <2>4 DEF KnowsItsTask, Over
  <2> QED
    BY <1>0, <1>2, <2>3, <2>5, CallerSteps
<1>5. CASE k.op.kind # "create"
  <2>1. Goes(c, returned)
    BY <1>5 DEF WaitEnds, Gives
  <2>2. searchCall'[c] = returned
    BY <1>0, <1>2, <2>1, GoesFacts
  <2> HIDE DEF k
  <2>3. KnowsItsTask(c)'
    BY <1>3, <1>5, <2>2 DEF KnowsItsTask, Over
  <2> QED
    BY <1>0, <1>2, <2>1, <2>3, CallerSteps
<1> QED
  BY <1>4, <1>5

LEMMA WaitFailsInv ==
  ASSUME SearchInv, NEW c \in SearchCalls, WaitFails(c)
  PROVE  SearchInv'
<1> DEFINE k == searchCall[c]
           returned == [at |-> "returned", op |-> k.op, task |-> k.task, ok |-> FALSE]
<1>0. /\ SearchTypeOK /\ UNCHANGED <<primaryKey, documents, searchTasks>>
      /\ k \in SearchCall /\ k.at = "waiting" /\ Goes(c, returned)
  BY DEF SearchInv, WaitFails, SearchTypeOK, Gives
<1>1. returned \in SearchCall
  BY <1>0, SearchCallParts, SearchCallsMade
<1>2. searchCall'[c] = returned
  BY <1>0, <1>1, GoesFacts
<1>3. KnowsItsTask(c)'
  BY <1>2 DEF KnowsItsTask
<1> QED
  BY <1>0, <1>1, <1>3, CallerSteps

LEMMA CreateGetsIndexInv ==
  ASSUME SearchInv, NEW c \in SearchCalls, NEW lost \in BOOLEAN, CreateGetsIndex(c, lost)
  PROVE  SearchInv'
<1> DEFINE k == searchCall[c]
           got == primaryKey[k.op.uid] # NoIndex /\ ~lost
           returned == [at |-> "returned", op |-> k.op, task |-> k.task, ok |-> got]
<1>0. /\ SearchTypeOK /\ UNCHANGED <<primaryKey, documents, searchTasks>>
      /\ k \in SearchCall /\ k.at = "getting" /\ Goes(c, returned) /\ KnowsItsTask(c)
  BY DEF SearchInv, CreateGetsIndex, SearchTypeOK, Gives
<1>1. k.op \in Creations \cup Changes /\ k.task \in Nat /\ got \in BOOLEAN
  BY <1>0, SearchCallParts
<1>2. /\ k.task \in DOMAIN searchTasks' /\ searchTasks'[k.task].op = k.op
      /\ searchTasks'[k.task].status # "enqueued"
  BY <1>0 DEF KnowsItsTask, Over
<1>3. got => primaryKey'[k.op.uid] # NoIndex
  BY <1>0
<1> HIDE DEF k, got
<1>4. returned \in SearchCall
  BY <1>1, SearchCallsMade
<1>5. searchCall'[c] = returned
  BY <1>0, <1>4, GoesFacts
<1>6. KnowsItsTask(c)'
  BY <1>2, <1>3, <1>5 DEF KnowsItsTask, Over
<1> QED
  BY <1>0, <1>4, <1>6, CallerSteps

\* A task that is posted is the last of them and is not over.
LEMMA TaskAdded ==
  ASSUME SearchInv, NEW op \in Creations \cup Changes, Posted(op),
         searchTasks' = Append(searchTasks, [op |-> op, status |-> "enqueued"]),
         UNCHANGED <<primaryKey, documents>>
  PROVE  /\ searchTasks' \in Seq(SearchTask)
         /\ Len(searchTasks) + 1 \in DOMAIN searchTasks' /\ Len(searchTasks) + 1 \in Nat
         /\ searchTasks'[Len(searchTasks) + 1].op = op
         /\ \A t \in DOMAIN searchTasks :
              /\ t \in DOMAIN searchTasks' /\ searchTasks'[t] = searchTasks[t]
              /\ searchTasks'[t].op = searchTasks[t].op
              /\ Over(t) => Over(t)'
         /\ TasksInOrder' /\ TasksStand'
<1> DEFINE new  == [op |-> op, status |-> "enqueued"]
           last == Len(searchTasks) + 1
<1>0. searchTasks \in Seq(SearchTask) /\ TasksInOrder /\ TasksStand
  BY DEF SearchInv, SearchTypeOK
<1>1. new \in SearchTask /\ new.op = op /\ new.status = "enqueued"
  BY DEF SearchTask
<1> HIDE DEF new
<1>2. /\ searchTasks' \in Seq(SearchTask) /\ Len(searchTasks) \in Nat
      /\ Len(searchTasks') = last /\ last \in Nat
      /\ DOMAIN searchTasks = 1..Len(searchTasks)
      /\ DOMAIN searchTasks' = 1..last
      /\ \A t \in 1..Len(searchTasks) : searchTasks'[t] = searchTasks[t]
      /\ searchTasks'[last] = new
  BY <1>0, <1>1 DEF new
<1>3. /\ last \in DOMAIN searchTasks' /\ searchTasks'[last].op = op
      /\ \A t \in DOMAIN searchTasks' : t \in DOMAIN searchTasks \/ t = last
      /\ \A t \in DOMAIN searchTasks : t # last /\ t \in DOMAIN searchTasks'
  BY <1>1, <1>2
<1>7. ASSUME NEW t \in DOMAIN searchTasks
      PROVE  (Over(t)' <=> Over(t)) /\ (Succeeds(t)' <=> Succeeds(t))
  BY <1>2 DEF Over, Succeeds
<1>8. ASSUME NEW t \in DOMAIN searchTasks', t = last
      PROVE  ~Over(t)' /\ ~Succeeds(t)'
  BY <1>1, <1>2, <1>8 DEF Over, Succeeds
<1> HIDE DEF last
<1>4. TasksInOrder'
  <2> SUFFICES ASSUME NEW t \in DOMAIN searchTasks', NEW e \in DOMAIN searchTasks',
                      e < t, Over(t)'
               PROVE  Over(e)'
    BY DEF TasksInOrder
  <2>1. t \in DOMAIN searchTasks
    BY <1>3, <1>8
  <2>2. e \in DOMAIN searchTasks
    BY <1>2, <1>3, <2>1 DEF last
  <2> QED
    BY <1>0, <1>7, <2>1, <2>2 DEF TasksInOrder
<1>5. TasksStand'
  <2> SUFFICES ASSUME NEW t \in DOMAIN searchTasks'
               PROVE  /\ Posted(searchTasks[t].op)'
                      /\ Succeeds(t)' => Stands(t)'
    BY DEF TasksStand
  <2>1. CASE t = last
    <3>1. Posted(searchTasks[t].op)'
      BY <1>3, <2>1 DEF Posted
    <3> QED
      BY <1>8, <2>1, <3>1
  <2>2. CASE t \in DOMAIN searchTasks
    <3>1. searchTasks'[t] = searchTasks[t] /\ (Succeeds(t)' => Stands(t))
      BY <1>0, <1>2, <1>7, <2>2 DEF TasksStand
    <3>2. ASSUME NEW kind, NEW doc, Undone(t, kind, doc)
          PROVE  Undone(t, kind, doc)'
      <4>1. PICK later \in (t + 1)..Len(searchTasks) :
              /\ Succeeds(later) /\ searchTasks[later].op.kind = kind
              /\ searchTasks[later].op.uid = searchTasks[t].op.uid
              /\ doc \in searchTasks[later].op.docs
        BY <3>2 DEF Undone
      <4>2. later \in DOMAIN searchTasks /\ later \in (t + 1)..Len(searchTasks')
        BY <1>2, <2>2 DEF last
      <4>3. searchTasks'[later] = searchTasks[later] /\ Succeeds(later)'
        BY <1>2, <1>7, <4>1, <4>2
      <4> QED
        BY <3>1, <4>1, <4>2, <4>3 DEF Undone
    <3>3. Stands(t) => Stands(t)'
      BY <3>1, <3>2 DEF Stands
    <3>4. Posted(searchTasks[t].op)'
      BY <1>0, <2>2, <3>1 DEF TasksStand, Posted
    <3> QED
      BY <3>1, <3>3, <3>4
  <2> QED
    BY <1>3, <2>1, <2>2
<1> QED
  BY <1>2, <1>3, <1>4, <1>5, <1>7 DEF last

LEMMA PostsTaskInv ==
  ASSUME SearchInv, NEW c \in SearchCalls, NEW op \in Creations \cup Changes,
         NEW arrives \in BOOLEAN, NEW heard \in BOOLEAN, PostsTask(c, op, arrives, heard)
  PROVE  SearchInv'
<1> DEFINE waiting == [at |-> "waiting", op |-> op, task |-> Len(searchTasks) + 1]
           none    == [at |-> "returned", op |-> op, task |-> 0, ok |-> FALSE]
<1>0. SearchTypeOK /\ UNCHANGED <<primaryKey, documents>>
  BY DEF SearchInv, PostsTask
<1>1. none \in SearchCall
  BY SearchCallsMade
<1>2. Posted(op)
  <2>1. CASE op.kind = "create"
    BY <2>1 DEF Posted
  <2>2. CASE op.kind # "create"
    <3>1. searchCall[c] = [at |-> "found", op |-> op]
      BY <2>2 DEF PostsTask
    <3>2. searchCall[c].at = "found" /\ searchCall[c].op = op
      BY <3>1
    <3> QED
      BY <3>2 DEF SearchInv, KnowsItsTask
  <2> QED
    BY <2>1, <2>2
<1>3. CASE ~arrives
  <2>1. Goes(c, none) /\ UNCHANGED searchTasks
    BY <1>3 DEF PostsTask, Gives
  <2>2. searchCall'[c] = none
    BY <1>0, <1>1, <2>1, GoesFacts
  <2>3. KnowsItsTask(c)'
    BY <2>2 DEF KnowsItsTask
  <2> QED
    BY <1>0, <1>1, <2>1, <2>3, CallerSteps
<1>4. CASE arrives
  <2>1. searchTasks' = Append(searchTasks, [op |-> op, status |-> "enqueued"])
    BY <1>4 DEF PostsTask
  <2>2. /\ searchTasks' \in Seq(SearchTask)
        /\ Len(searchTasks) + 1 \in DOMAIN searchTasks' /\ Len(searchTasks) + 1 \in Nat
        /\ searchTasks'[Len(searchTasks) + 1].op = op
        /\ \A t \in DOMAIN searchTasks :
             /\ t \in DOMAIN searchTasks' /\ searchTasks'[t].op = searchTasks[t].op
             /\ Over(t) => Over(t)'
        /\ TasksInOrder' /\ TasksStand'
    BY <1>0, <1>2, <2>1, TaskAdded
  <2>3. PICK to \in {waiting, none} : Goes(c, to)
    BY DEF PostsTask, Gives
  <2>4. to \in SearchCall
    BY <1>1, <2>2, <2>3, SearchCallsMade
  <2>5. /\ searchCall' \in [SearchCalls -> SearchCall] /\ searchCall'[c] = to
        /\ \A d \in SearchCalls \ {c} : searchCall'[d] = searchCall[d]
    BY <1>0, <2>3, <2>4, GoesFacts
  <2>6. SearchTypeOK'
    BY <1>0, <2>2, <2>5 DEF SearchTypeOK
  <2>7. ASSUME NEW d \in SearchCalls PROVE KnowsItsTask(d)'
    <3>1. CASE d # c
      <4>1. searchCall[d] \in SearchCall /\ searchCall'[d] = searchCall[d] /\ KnowsItsTask(d)
        BY <1>0, <2>5, <3>1 DEF SearchTypeOK, SearchInv
      <4> QED
        BY <1>0, <2>2, <4>1, CallsGoOn
    <3>2. CASE d = c /\ to = waiting
      BY <2>2, <2>5, <3>2 DEF KnowsItsTask
    <3>3. CASE d = c /\ to = none
      BY <2>5, <3>3 DEF KnowsItsTask
    <3> QED
      BY <2>3, <3>1, <3>2, <3>3
  <2> QED
    BY <1>0, <2>2, <2>6, <2>7 DEF SearchInv
<1> QED
  BY <1>3, <1>4

\* Running a task: it is over, and so were those before it.
LEMMA TaskRun ==
  ASSUME SearchInv, NEW n \in DOMAIN searchTasks, NEW s \in {"succeeded", "failed"},
         ~Over(n), \A earlier \in 1..(n - 1) : Over(earlier),
         searchTasks' = [searchTasks EXCEPT ![n].status = s]
  PROVE  /\ searchTasks' \in Seq(SearchTask)
         /\ Len(searchTasks') = Len(searchTasks) /\ DOMAIN searchTasks' = DOMAIN searchTasks
         /\ \A t \in DOMAIN searchTasks :
              /\ searchTasks'[t].op = searchTasks[t].op
              /\ Succeeds(t)' <=> IF t = n THEN s = "succeeded" ELSE Succeeds(t)
              /\ Over(t)' <=> Over(t) \/ t = n
         /\ \A t \in DOMAIN searchTasks : Over(t) <=> t < n
         /\ ~Succeeds(n)
         /\ TasksInOrder'
<1> DEFINE run == [searchTasks[n] EXCEPT !.status = s]
<1>0. searchTasks \in Seq(SearchTask) /\ TasksInOrder
  BY DEF SearchInv, SearchTypeOK
<1>1. /\ searchTasks \in [1..Len(searchTasks) -> SearchTask] /\ Len(searchTasks) \in Nat
      /\ DOMAIN searchTasks = 1..Len(searchTasks)
  BY <1>0
<1>2. run \in SearchTask /\ run.op = searchTasks[n].op /\ run.status = s
  <2>1. searchTasks[n] \in SearchTask
    BY <1>1
  <2> QED
    BY <2>1 DEF SearchTask
<1>3. searchTasks' = [searchTasks EXCEPT ![n] = run]
  OBVIOUS
<1> HIDE DEF run
<1>4. /\ searchTasks' \in [1..Len(searchTasks) -> SearchTask]
      /\ searchTasks'[n] = run
      /\ \A t \in DOMAIN searchTasks \ {n} : searchTasks'[t] = searchTasks[t]
  BY <1>1, <1>2, <1>3
<1>5. /\ searchTasks' \in Seq(SearchTask)
      /\ Len(searchTasks') = Len(searchTasks) /\ DOMAIN searchTasks' = DOMAIN searchTasks
  BY <1>1, <1>2, <1>3, <1>4
<1>6. ASSUME NEW t \in DOMAIN searchTasks
      PROVE  /\ searchTasks'[t].op = searchTasks[t].op
             /\ Succeeds(t)' <=> IF t = n THEN s = "succeeded" ELSE Succeeds(t)
             /\ Over(t)' <=> Over(t) \/ t = n
  BY <1>2, <1>4 DEF Succeeds, Over
<1>7. ASSUME NEW t \in DOMAIN searchTasks PROVE Over(t) <=> t < n
  <2>1. t \in 1..Len(searchTasks) /\ n \in 1..Len(searchTasks)
    BY <1>1
  <2>2. CASE t < n
    BY <2>1, <2>2
  <2>3. CASE t = n
    BY <2>1, <2>3
  <2>4. CASE n < t
    BY <1>0, <2>1, <2>4 DEF TasksInOrder
  <2> QED
    BY <2>1, <2>2, <2>3, <2>4
<1>8. ~Succeeds(n)
  BY DEF Succeeds, Over
<1>9. TasksInOrder'
  <2> SUFFICES ASSUME NEW t \in DOMAIN searchTasks, NEW e \in DOMAIN searchTasks,
                      e < t, Over(t)'
               PROVE  Over(e)'
    BY <1>5 DEF TasksInOrder
  <2>1. t \in Nat /\ n \in Nat /\ e \in Nat
    BY <1>1
  <2>2. t < n \/ t = n
    BY <1>6, <1>7
  <2> QED
    BY <1>6, <1>7, <2>1, <2>2
<1> QED
  BY <1>5, <1>6, <1>7, <1>8, <1>9

\* What the tasks owe the documents, and their keys the indexes, after a run.
LEMMA ServerRunsInv ==
  ASSUME SearchInv, NEW n \in DOMAIN searchTasks, NEW fails \in BOOLEAN, ServerRuns(n, fails)
  PROVE  SearchInv'
<1> DEFINE op  == searchTasks[n].op
           can == ~fails /\ (op.kind = "create" => primaryKey[op.uid] = NoIndex)
           s   == IF can THEN "succeeded" ELSE "failed"
<1>0. SearchTypeOK /\ TasksInOrder /\ TasksStand
  BY DEF SearchInv
<1>1. /\ ~Over(n) /\ \A earlier \in 1..(n - 1) : Over(earlier)
      /\ searchTasks' = [searchTasks EXCEPT ![n].status = s]
      /\ s \in {"succeeded", "failed"} /\ (s = "succeeded" <=> can)
      /\ primaryKey' = IF can /\ op.kind = "create"
                       THEN [primaryKey EXCEPT ![op.uid] = op.key] ELSE primaryKey
      /\ documents' =
           IF ~can \/ op.kind = "create" THEN documents
           ELSE [documents EXCEPT ![op.uid] =
                   IF op.kind = "add" THEN documents[op.uid] \cup op.docs
                   ELSE documents[op.uid] \ op.docs]
      /\ searchCall' = searchCall
  BY <1>0 DEF ServerRuns, SearchTypeOK
<1>2. /\ searchTasks[n] \in SearchTask /\ op \in Creations \cup Changes
      /\ \A t \in DOMAIN searchTasks : searchTasks[t].op \in Creations \cup Changes
  <2>1. \A t \in DOMAIN searchTasks : searchTasks[t] \in SearchTask
    BY <1>0 DEF SearchTypeOK
  <2> QED
    BY <2>1 DEF SearchTask
<1>3. /\ op.uid \in IndexIds
      /\ op.kind = "create" => op.key \in PrimaryKeys /\ op.key # NoIndex
      /\ op.kind # "create" => op.kind \in {"add", "delete"} /\ op.docs \subseteq DocIds
  BY <1>2, OpFacts
<1>4. /\ searchTasks' \in Seq(SearchTask)
      /\ Len(searchTasks') = Len(searchTasks) /\ DOMAIN searchTasks' = DOMAIN searchTasks
      /\ \A t \in DOMAIN searchTasks :
           /\ searchTasks'[t].op = searchTasks[t].op
           /\ Succeeds(t)' <=> IF t = n THEN can ELSE Succeeds(t)
           /\ Over(t)' <=> Over(t) \/ t = n
      /\ \A t \in DOMAIN searchTasks : Over(t) <=> t < n
      /\ ~Succeeds(n)
      /\ TasksInOrder'
  <2> HIDE DEF s, can, op
  <2> QED
    BY <1>1, TaskRun
<1> HIDE DEF can, op
<1>5. /\ primaryKey' \in [IndexIds -> PrimaryKeys \cup {NoIndex}]
      /\ \A i \in IndexIds : primaryKey'[i] =
           IF can /\ op.kind = "create" /\ i = op.uid THEN op.key ELSE primaryKey[i]
  BY <1>0, <1>1, <1>3 DEF SearchTypeOK
<1>6. /\ documents' \in [IndexIds -> SUBSET DocIds]
      /\ \A i \in IndexIds : documents'[i] =
           IF can /\ op.kind # "create" /\ i = op.uid
             THEN IF op.kind = "add" THEN documents[i] \cup op.docs ELSE documents[i] \ op.docs
             ELSE documents[i]
  <2>1. documents \in [IndexIds -> SUBSET DocIds]
    BY <1>0 DEF SearchTypeOK
  <2>2. CASE ~can \/ op.kind = "create"
    BY <1>1, <2>1, <2>2
  <2>3. CASE can /\ op.kind = "add"
    BY <1>1, <1>3, <2>1, <2>3
  <2>4. CASE can /\ op.kind = "delete"
    BY <1>1, <1>3, <2>1, <2>4
  <2> QED
    BY <1>3, <2>2, <2>3, <2>4
<1>7. SearchTypeOK'
  BY <1>0, <1>1, <1>4, <1>5, <1>6 DEF SearchTypeOK
<1>8. \A i \in IndexIds : primaryKey[i] # NoIndex =>
        /\ primaryKey'[i] # NoIndex
        /\ primaryKey'[i] = primaryKey[i]
  <2>1. can /\ op.kind = "create" => primaryKey[op.uid] = NoIndex
    BY DEF can, op
  <2> QED
    BY <1>5, <2>1
<1>9. ASSUME NEW t \in DOMAIN searchTasks PROVE Posted(searchTasks[t].op)'
  <2>1. Posted(searchTasks[t].op) /\ searchTasks[t].op.uid \in IndexIds
    BY <1>0, <1>2, OpFacts DEF TasksStand
  <2> QED
    BY <1>4, <1>8, <2>1 DEF Posted
<1>10. ASSUME NEW t \in DOMAIN searchTasks, NEW kind, NEW doc
       PROVE  /\ Undone(t, kind, doc) => Undone(t, kind, doc)'
              /\ (t < n /\ can /\ op.kind = kind /\ op.uid = searchTasks[t].op.uid
                  /\ doc \in op.docs) => Undone(t, kind, doc)'
  <2>0. DOMAIN searchTasks = 1..Len(searchTasks) /\ Len(searchTasks) \in Nat
    BY <1>0 DEF SearchTypeOK
  <2>1. ASSUME Undone(t, kind, doc) PROVE Undone(t, kind, doc)'
    <3>1. PICK later \in (t + 1)..Len(searchTasks) :
            /\ Succeeds(later) /\ searchTasks[later].op.kind = kind
            /\ searchTasks[later].op.uid = searchTasks[t].op.uid
            /\ doc \in searchTasks[later].op.docs
      BY <2>1 DEF Undone
    <3>2. later \in DOMAIN searchTasks /\ later \in (t + 1)..Len(searchTasks')
      BY <1>4, <2>0
    <3>3. /\ Succeeds(later)' /\ searchTasks'[later].op = searchTasks[later].op
          /\ searchTasks'[t].op = searchTasks[t].op
      BY <1>4, <3>1, <3>2
    <3> QED
      BY <3>1, <3>2, <3>3 DEF Undone
  <2>2. ASSUME t < n, can, op.kind = kind, op.uid = searchTasks[t].op.uid, doc \in op.docs
        PROVE  Undone(t, kind, doc)'
    <3>1. n \in (t + 1)..Len(searchTasks')
      BY <1>4, <2>0, <2>2
    <3>2. /\ Succeeds(n)' /\ searchTasks'[n].op = searchTasks[n].op
          /\ searchTasks'[t].op = searchTasks[t].op
      BY <1>4, <2>2
    <3> QED
      BY <2>2, <3>1, <3>2 DEF Undone, op
  <2> QED
    BY <2>1, <2>2
<1>11. ASSUME NEW t \in DOMAIN searchTasks, Succeeds(t)' PROVE Stands(t)'
  <2> DEFINE o == searchTasks[t].op
  <2>0. /\ searchTasks'[t].op = o /\ o.uid \in IndexIds
        /\ o.kind = "create" => o.key \in PrimaryKeys /\ o.key # NoIndex
        /\ o.kind # "create" => o.kind \in {"add", "delete"} /\ o.docs \subseteq DocIds
    BY <1>2, <1>4, OpFacts
  <2>1. CASE t = n
    <3>1. can /\ o = op
      BY <1>4, <1>11, <2>1 DEF op
    <3> HIDE DEF o
    <3>2. o.kind = "create" => primaryKey'[o.uid] = o.key
      BY <1>5, <2>0, <3>1
    <3>3. ASSUME o.kind # "create", NEW doc \in o.docs
          PROVE  IF o.kind = "add" THEN doc \in documents'[o.uid]
                 ELSE doc \notin documents'[o.uid]
      BY <1>6, <2>0, <3>1, <3>3
    <3> QED
      BY <2>0, <3>2, <3>3 DEF Stands
  <2>2. CASE t # n
    <3>1. Succeeds(t) /\ Stands(t) /\ t < n
      <4>1. Succeeds(t)
        BY <1>4, <1>11, <2>2
      <4> QED
        BY <1>0, <1>4, <4>1 DEF TasksStand, Over, Succeeds
    <3>2. o.kind = "create" => primaryKey'[o.uid] = o.key
      <4>1. o.kind = "create" => primaryKey[o.uid] = o.key
        BY <3>1 DEF Stands
      <4> HIDE DEF o
      <4> QED
        BY <1>8, <2>0, <4>1
    <3>3. ASSUME o.kind # "create", NEW doc \in o.docs
          PROVE  IF o.kind = "add"
                   THEN ~Undone(t, "delete", doc)' => doc \in documents'[o.uid]
                   ELSE ~Undone(t, "add", doc)' => doc \notin documents'[o.uid]
      <4>1. /\ o.kind = "add" /\ ~Undone(t, "delete", doc) => doc \in documents[o.uid]
            /\ o.kind = "delete" /\ ~Undone(t, "add", doc) => doc \notin documents[o.uid]
        BY <3>1, <3>3 DEF Stands
      <4>2. CASE o.kind = "add" /\ ~Undone(t, "delete", doc)'
        <5>1. doc \in documents[o.uid]
          BY <1>10, <4>1, <4>2
        <5>2. ~(can /\ op.kind = "delete" /\ op.uid = o.uid /\ doc \in op.docs)
          BY <1>10, <3>1, <4>2
        <5> HIDE DEF o
        <5> QED
          BY <1>3, <1>6, <2>0, <4>2, <5>1, <5>2
      <4>3. CASE o.kind = "delete" /\ ~Undone(t, "add", doc)'
        <5>1. doc \notin documents[o.uid]
          BY <1>10, <4>1, <4>3
        <5>2. ~(can /\ op.kind = "add" /\ op.uid = o.uid /\ doc \in op.docs)
          BY <1>10, <3>1, <4>3
        <5> HIDE DEF o
        <5> QED
          BY <1>3, <1>6, <2>0, <4>3, <5>1, <5>2
      <4> HIDE DEF o
      <4> QED
        BY <2>0, <3>3, <4>2, <4>3
    <3> QED
      BY <2>0, <3>2, <3>3 DEF Stands
  <2> QED
    BY <2>1, <2>2
<1>12. TasksStand'
  BY <1>4, <1>9, <1>11 DEF TasksStand
<1>13. ASSUME NEW c \in SearchCalls PROVE KnowsItsTask(c)'
  <2>1. KnowsItsTask(c) /\ searchCall[c] \in SearchCall /\ searchCall'[c] = searchCall[c]
    BY <1>0, <1>1 DEF SearchInv, SearchTypeOK
  <2> QED
    BY <1>4, <1>8, <2>1, CallsGoOn
<1>14. \A i \in IndexIds : documents'[i] # {} => primaryKey'[i] # NoIndex
  <2>1. \A i \in IndexIds : documents[i] # {} => primaryKey[i] # NoIndex
    BY DEF SearchInv
  <2>2. op.kind # "create" => primaryKey[op.uid] # NoIndex
    BY <1>0 DEF TasksStand, Posted, op
  <2>3. \A i \in IndexIds : documents'[i] # {} =>
          documents[i] # {} \/ (op.kind # "create" /\ i = op.uid)
    BY <1>6
  <2> QED
    BY <1>8, <2>1, <2>2, <2>3
<1> QED
  BY <1>4, <1>7, <1>12, <1>13, <1>14 DEF SearchInv

\* The indexes, the documents, the tasks and the calls are of their types, and
\* what is in an index is what the tasks that are over have left.
THEOREM SearchInvariant == SearchSpec => []SearchInv
<1>1. SearchInit => SearchInv
  BY SearchInitInv
<1>2. ASSUME SearchInv, [SearchNext]_searchVars PROVE SearchInv'
  <2>1. ASSUME NEW c \in SearchCalls, NEW op \in Changes, NEW lost \in BOOLEAN,
               GetsIndex(c, op, lost)
        PROVE  SearchInv'
    BY <1>2, <2>1, GetsIndexInv
  <2>2. ASSUME NEW c \in SearchCalls, NEW op \in Creations \cup Changes,
               NEW arrives \in BOOLEAN, NEW heard \in BOOLEAN,
               PostsTask(c, op, arrives, heard)
        PROVE  SearchInv'
    BY <1>2, <2>2, PostsTaskInv
  <2>3. ASSUME NEW c \in SearchCalls, WaitEnds(c) \/ WaitFails(c) PROVE SearchInv'
    BY <1>2, <2>3, WaitEndsInv, WaitFailsInv
  <2>4. ASSUME NEW c \in SearchCalls, NEW lost \in BOOLEAN, CreateGetsIndex(c, lost)
        PROVE  SearchInv'
    BY <1>2, <2>4, CreateGetsIndexInv
  <2>5. ASSUME NEW n \in DOMAIN searchTasks, NEW fails \in BOOLEAN, ServerRuns(n, fails)
        PROVE  SearchInv'
    BY <1>2, <2>5, ServerRunsInv
  <2>6. CASE UNCHANGED searchVars
    BY <1>2, <2>6
    DEF searchVars, SearchInv, SearchTypeOK, TasksInOrder, TasksStand, KnowsItsTask,
        Posted, Stands, Undone, Over, Succeeds
  <2> QED
    BY <1>2, <2>1, <2>2, <2>3, <2>4, <2>5, <2>6 DEF SearchNext
<1> QED
  BY <1>1, <1>2, PTL DEF SearchSpec

\* A change that was answered with Ok is over, and can be seen if its task
\* succeeded: Ok is answered to one whose task failed too.  The documents of a
\* change that succeeded stay until another task undoes it, and so does the index
\* that was created (yma-search, the waits for the task of each change).
THEOREM SearchChangesAreSeen == SearchSpec => []ChangesAreSeen
<1>1. ASSUME SearchInv PROVE ChangesAreSeen
  <2>1. ASSUME NEW c \in SearchCalls, searchCall[c].at = "returned", searchCall[c].ok
        PROVE  LET op   == searchCall[c].op
                   task == searchCall[c].task
               IN  /\ Over(task)
                   /\ op.kind = "create" =>
                        /\ primaryKey[op.uid] # NoIndex
                        /\ Succeeds(task) => primaryKey[op.uid] = op.key
                   /\ op.kind # "create" /\ Succeeds(task) => \A doc \in op.docs :
                        IF op.kind = "add"
                          THEN ~Undone(task, "delete", doc) => doc \in documents[op.uid]
                          ELSE ~Undone(task, "add", doc) => doc \notin documents[op.uid]
    <3> DEFINE op   == searchCall[c].op
               task == searchCall[c].task
    <3>1. /\ task \in DOMAIN searchTasks /\ searchTasks[task].op = op /\ Over(task)
          /\ op.kind = "create" => primaryKey[op.uid] # NoIndex
      BY <1>1, <2>1 DEF SearchInv, KnowsItsTask
    <3>2. Succeeds(task) => Stands(task)
      BY <1>1, <3>1 DEF SearchInv, TasksStand
    <3> HIDE DEF op, task
    <3>3. /\ Over(task)
          /\ op.kind = "create" =>
               /\ primaryKey[op.uid] # NoIndex
               /\ Succeeds(task) => primaryKey[op.uid] = op.key
          /\ op.kind # "create" /\ Succeeds(task) => \A doc \in op.docs :
               IF op.kind = "add"
                 THEN ~Undone(task, "delete", doc) => doc \in documents[op.uid]
                 ELSE ~Undone(task, "add", doc) => doc \notin documents[op.uid]
      BY <3>1, <3>2 DEF Stands
    <3> QED
      BY <3>3 DEF op, task
  <2> QED
    BY <1>1, <2>1 DEF ChangesAreSeen, SearchInv
<1> QED
  BY <1>1, SearchInvariant, PTL

-----------------------------------------------------------------------------
\* And a greatest one, if none is greater than some number.
LEMMA GreatestOf ==
  ASSUME NEW len \in Nat, NEW S \in SUBSET (1..len), S # {}
  PROVE  \E n \in S : \A m \in S : m <= n
<1> DEFINE Bounds == {k \in Nat : \A m \in S : m <= k}
<1>1. len \in Bounds
  OBVIOUS
<1>2. Bounds # {} /\ Bounds \in SUBSET Nat
  BY <1>1
<1>3. PICK n \in Bounds : \A k \in Bounds : n <= k
  <2> HIDE DEF Bounds
  <2> QED
    BY <1>2, LeastOf
<1>4. n \in S
  <2> SUFFICES ASSUME n \notin S PROVE FALSE
    OBVIOUS
  <2>1. n \in Nat /\ \A m \in S : m \in Nat /\ m >= 1 /\ m <= n /\ m # n
    BY <1>3
  <2>2. PICK some \in S : TRUE
    OBVIOUS
  <2>3. n - 1 \in Nat
    BY <2>1, <2>2
  <2>4. ASSUME NEW m \in S PROVE m <= n - 1
    BY <2>1
  <2>5. n - 1 \in Bounds
    BY <2>3, <2>4
  <2>6. n <= n - 1
    BY <1>3, <2>5
  <2> QED
    BY <2>1, <2>6
<1> QED
  BY <1>3, <1>4

\* The places of the events about a peer, and what a buffer and a view tell.
Mentions(buffer, p) ==
  {i \in DOMAIN buffer : buffer[i] \in PeerEvent /\ buffer[i].peer = p}

ToldBy(buffer, seen, p) ==
  LET last == CHOOSE i \in Mentions(buffer, p) : \A j \in Mentions(buffer, p) : j <= i
  IN  IF Mentions(buffer, p) = {} THEN p \in seen ELSE buffer[last].kind = "PeerConnected"

NodeEvents == PeerEvent \cup MessageEvent

LEMMA LastMention ==
  ASSUME NEW buffer \in Seq(NodeEvents), NEW seen, NEW p,
         NEW n \in Mentions(buffer, p), \A j \in Mentions(buffer, p) : j <= n
  PROVE  ToldBy(buffer, seen, p) <=> buffer[n].kind = "PeerConnected"
<1> DEFINE last == CHOOSE i \in Mentions(buffer, p) : \A j \in Mentions(buffer, p) : j <= i
<1>1. last \in Mentions(buffer, p) /\ \A j \in Mentions(buffer, p) : j <= last
  OBVIOUS
<1>2. ToldBy(buffer, seen, p) <=> buffer[last].kind = "PeerConnected"
  BY DEF ToldBy
<1> HIDE DEF last
<1>3. last <= n /\ n <= last
  BY <1>1
<1>4. last \in Nat /\ n \in Nat
  BY <1>1 DEF Mentions
<1>5. last = n
  BY <1>3, <1>4
<1> QED
  BY <1>2, <1>5

LEMMA SomeMention ==
  ASSUME NEW buffer \in Seq(NodeEvents), NEW p, Mentions(buffer, p) # {}
  PROVE  \E n \in Mentions(buffer, p) : \A j \in Mentions(buffer, p) : j <= n
<1>1. Mentions(buffer, p) \in SUBSET (1..Len(buffer)) /\ Len(buffer) \in Nat
  BY DEF Mentions
<1> QED
  BY <1>1, GreatestOf

\* An event that is sent is the last one.
LEMMA ToldAfterSending ==
  ASSUME NEW buffer \in Seq(NodeEvents), NEW e \in NodeEvents, NEW seen, NEW p
  PROVE  ToldBy(Append(buffer, e), seen, p) <=>
           IF e \in PeerEvent /\ e.peer = p THEN e.kind = "PeerConnected"
           ELSE ToldBy(buffer, seen, p)
<1> DEFINE longer == Append(buffer, e)
           last == Len(buffer) + 1
<1>1. /\ longer \in Seq(NodeEvents) /\ Len(buffer) \in Nat
      /\ DOMAIN buffer = 1..Len(buffer) /\ DOMAIN longer = 1..last
      /\ \A i \in 1..Len(buffer) : longer[i] = buffer[i]
      /\ longer[last] = e
  OBVIOUS
<1> HIDE DEF longer
<1>2. Mentions(longer, p) = IF e \in PeerEvent /\ e.peer = p THEN Mentions(buffer, p) \cup {last}
                            ELSE Mentions(buffer, p)
  BY <1>1 DEF Mentions
<1>3. CASE e \in PeerEvent /\ e.peer = p
  <2>1. last \in Mentions(longer, p) /\ \A j \in Mentions(longer, p) : j <= last
    BY <1>1, <1>2, <1>3 DEF Mentions
  <2>2. ToldBy(longer, seen, p) <=> longer[last].kind = "PeerConnected"
    BY <1>1, <2>1, LastMention
  <2> QED
    BY <1>1, <1>3, <2>2 DEF longer
<1>4. CASE ~(e \in PeerEvent /\ e.peer = p)
  <2>1. Mentions(longer, p) = Mentions(buffer, p)
    BY <1>2, <1>4
  <2>2. CASE Mentions(buffer, p) = {}
    BY <1>4, <2>1, <2>2 DEF ToldBy, longer
  <2>3. CASE Mentions(buffer, p) # {}
    <3>1. PICK n \in Mentions(buffer, p) : \A j \in Mentions(buffer, p) : j <= n
      BY <2>3, SomeMention
    <3>2. ToldBy(buffer, seen, p) <=> buffer[n].kind = "PeerConnected"
      BY <3>1, LastMention
    <3>3. ToldBy(longer, seen, p) <=> longer[n].kind = "PeerConnected"
      BY <1>1, <2>1, <3>1, LastMention
    <3>4. longer[n] = buffer[n]
      BY <1>1, <3>1 DEF Mentions
    <3> QED
      BY <1>4, <3>2, <3>3, <3>4 DEF longer
  <2> QED
    BY <2>2, <2>3
<1> QED
  BY <1>3, <1>4

\* An event that is taken has been seen.
LEMMA ToldAfterTaking ==
  ASSUME NEW buffer \in Seq(NodeEvents), buffer # <<>>, NEW seen, NEW p
  PROVE  ToldBy(Tail(buffer), Seen(seen, Head(buffer)), p) <=> ToldBy(buffer, seen, p)
<1> DEFINE rest == Tail(buffer)
           first == buffer[1]
           sees == Seen(seen, first)
<1>1. /\ rest \in Seq(NodeEvents) /\ Len(buffer) \in Nat \ {0}
      /\ DOMAIN buffer = 1..Len(buffer) /\ DOMAIN rest = 1..(Len(buffer) - 1)
      /\ \A i \in 1..(Len(buffer) - 1) : rest[i] = buffer[i + 1]
      /\ first \in NodeEvents /\ Head(buffer) = first
  OBVIOUS
<1>2. /\ first \in PeerEvent /\ first.peer = p =>
           (p \in sees <=> first.kind = "PeerConnected")
      /\ ~(first \in PeerEvent /\ first.peer = p) => (p \in sees <=> p \in seen)
  <2>1. CASE first \in PeerEvent
    BY <2>1 DEF Seen, PeerEvent
  <2>2. CASE first \in MessageEvent
    BY <2>2 DEF Seen, PeerEvent, MessageEvent
  <2> QED
    BY <1>1, <2>1, <2>2 DEF NodeEvents
<1> HIDE DEF rest, first, sees
<1>3. \A i \in 1..(Len(buffer) - 1) : i \in Mentions(rest, p) <=> i + 1 \in Mentions(buffer, p)
  BY <1>1 DEF Mentions
<1>4. CASE Mentions(rest, p) # {}
  <2>1. PICK n \in Mentions(rest, p) : \A j \in Mentions(rest, p) : j <= n
    BY <1>1, <1>4, SomeMention
  <2>2. n \in 1..(Len(buffer) - 1) /\ n + 1 \in Mentions(buffer, p)
    BY <1>1, <1>3, <2>1 DEF Mentions
  <2>3. ASSUME NEW j \in Mentions(buffer, p) PROVE j <= n + 1
    <3>1. j \in 1..Len(buffer)
      BY <1>1 DEF Mentions
    <3>2. CASE j = 1
      BY <2>2, <3>2
    <3>3. CASE j # 1
      <4>1. j - 1 \in 1..(Len(buffer) - 1) /\ (j - 1) + 1 = j
        BY <1>1, <3>1, <3>3
      <4>2. j - 1 \in Mentions(rest, p)
        BY <1>3, <4>1
      <4>3. j - 1 <= n
        BY <2>1, <4>2
      <4> QED
        BY <2>2, <3>1, <4>3
    <3> QED
      BY <3>2, <3>3
  <2>4. ToldBy(rest, sees, p) <=> rest[n].kind = "PeerConnected"
    BY <1>1, <2>1, LastMention
  <2>5. ToldBy(buffer, seen, p) <=> buffer[n + 1].kind = "PeerConnected"
    BY <2>2, <2>3, LastMention
  <2> QED
    BY <1>1, <2>2, <2>4, <2>5 DEF rest, sees
<1>5. CASE Mentions(rest, p) = {}
  <2>1. ToldBy(rest, sees, p) <=> p \in sees
    BY <1>5 DEF ToldBy
  <2>2. ASSUME NEW j \in Mentions(buffer, p) PROVE j = 1
    <3>1. j \in 1..Len(buffer)
      BY <1>1 DEF Mentions
    <3>2. j # 1 => j - 1 \in 1..(Len(buffer) - 1) /\ (j - 1) + 1 = j
      BY <1>1, <3>1
    <3> QED
      BY <1>3, <1>5, <3>2
  <2>3. CASE first \in PeerEvent /\ first.peer = p
    <3>1. 1 \in Mentions(buffer, p) /\ 1 <= 1
      BY <1>1, <2>3 DEF Mentions, first
    <3>2. ToldBy(buffer, seen, p) <=> buffer[1].kind = "PeerConnected"
      BY <2>2, <3>1, LastMention
    <3> QED
      BY <1>1, <1>2, <2>1, <2>3, <3>2 DEF first, rest, sees
  <2>4. CASE ~(first \in PeerEvent /\ first.peer = p)
    <3>1. Mentions(buffer, p) = {}
      BY <2>2, <2>4 DEF Mentions, first
    <3>2. ToldBy(buffer, seen, p) <=> p \in seen
      BY <3>1 DEF ToldBy
    <3> QED
      BY <1>1, <1>2, <2>1, <2>4, <3>2 DEF rest, sees
  <2> QED
    BY <2>3, <2>4
<1> QED
  BY <1>4, <1>5

LEMMA ToldIsToldBy == \A p : Told(p) <=> ToldBy(events, view, p)
BY DEF Told, ToldBy, Mentions

LEMMA NodeTypes ==
  ASSUME NodeTypeOK
  PROVE  /\ events \in Seq(NodeEvents)
         /\ nodeCall \in [NodeCalls -> NodeEvents \cup {NoEvent}]
         /\ NoEvent \notin NodeEvents
BY DEF NodeTypeOK, NodeEvents, NoEvent, PeerEvent, MessageEvent

LEMMA NodeInitInv == NodeInit => NodeInv
<1> SUFFICES ASSUME NodeInit PROVE NodeInv
  OBVIOUS
<1>1. NodeTypeOK
  BY BufferAssumption DEF NodeInit, NodeTypeOK
<1>2. \A p \in Peers : About(p) = {} /\ ~Told(p)
  <2>1. \A p \in Peers : About(p) = {}
    BY DEF NodeInit, About, NoEvent, PeerEvent
  <2>2. \A p \in Peers : ~ToldBy(events, view, p)
    BY DEF NodeInit, ToldBy, Mentions
  <2> QED
    BY <2>1, <2>2, ToldIsToldBy
<1>3. PeersAsTold
  BY <1>2 DEF PeersAsTold, NodeInit
<1> QED
  BY <1>1, <1>3 DEF NodeInv

\* A call changes the set and has yet to tell.
LEMMA TellInv ==
  ASSUME NodeInv, NEW c \in NodeCalls, NEW e \in NodeEvents, Tell(c, e),
         connected_peers' \subseteq Peers,
         \A p \in Peers :
           IF e \in PeerEvent /\ e.peer = p
             THEN p \in connected_peers' <=> e.kind = "PeerConnected"
             ELSE p \in connected_peers' <=> p \in connected_peers
  PROVE  NodeInv'
<1>0. NodeTypeOK /\ PeersAsTold
  BY DEF NodeInv
<1>1. /\ nodeCall[c] = NoEvent /\ nodeCall' = [nodeCall EXCEPT ![c] = e]
      /\ UNCHANGED <<events, taken, view>>
      /\ doubted' = IF e \notin PeerEvent THEN doubted
                    ELSE IF About(e.peer) = {} THEN doubted \ {e.peer}
                    ELSE doubted \cup
                           {p \in {e.peer} :
                              \E d \in About(p) : nodeCall[d].kind # e.kind}
  BY DEF Tell
<1>2. /\ nodeCall' \in [NodeCalls -> NodeEvents \cup {NoEvent}]
      /\ \A d \in NodeCalls : nodeCall'[d] = IF d = c THEN e ELSE nodeCall[d]
  BY <1>0, <1>1, NodeTypes
<1>3. /\ doubted' \subseteq Peers
      /\ \A p \in Peers : p \in doubted /\ p \notin doubted' =>
           e \in PeerEvent /\ e.peer = p /\ About(p) = {}
  BY <1>0, <1>1 DEF NodeTypeOK, PeerEvent
<1>4. NodeTypeOK'
  BY <1>0, <1>1, <1>2, <1>3 DEF NodeTypeOK, NodeEvents
<1>5. PeersAsTold'
  <2> SUFFICES ASSUME NEW p \in Peers, p \notin doubted'
               PROVE  /\ \A d \in About(p)' :
                           p \in connected_peers' <=> nodeCall'[d].kind = "PeerConnected"
                      /\ About(p)' = {} => (p \in connected_peers' <=> Told(p)')
    BY DEF PeersAsTold
  <2>0. p \notin doubted =>
          /\ \A d \in About(p) : p \in connected_peers <=> nodeCall[d].kind = "PeerConnected"
          /\ About(p) = {} => (p \in connected_peers <=> Told(p))
    BY <1>0 DEF PeersAsTold
  <2>1. Told(p)' <=> Told(p)
    BY <1>1 DEF Told
  <2>2. CASE e \in PeerEvent /\ e.peer = p
    <3>1. \A d \in About(p) : nodeCall[d].kind = e.kind
      BY <1>1, <2>2
    <3>2. About(p)' = About(p) \cup {c} /\ c \notin About(p)
      BY <1>1, <1>2, <2>2 DEF About, NoEvent, PeerEvent
    <3>3. \A d \in About(p)' : nodeCall'[d].kind = e.kind
      BY <1>2, <3>1, <3>2 DEF About
    <3> QED
      BY <2>2, <3>2, <3>3
  <2>3. CASE ~(e \in PeerEvent /\ e.peer = p)
    <3>1. c \notin About(p) /\ c \notin About(p)'
      BY <1>1, <1>2, <2>3 DEF About, NoEvent, PeerEvent
    <3>2. About(p)' = About(p) /\ \A d \in About(p) : nodeCall'[d] = nodeCall[d]
      BY <1>2, <3>1 DEF About
    <3>3. (p \in connected_peers' <=> p \in connected_peers) /\ p \notin doubted
      BY <1>3, <2>3
    <3> QED
      BY <2>0, <2>1, <3>2, <3>3
  <2> QED
    BY <2>2, <2>3
<1> QED
  BY <1>4, <1>5 DEF NodeInv

\* An event gets into the buffer: the set is what the buffer now tells.
LEMMA EventSentInv ==
  ASSUME NodeInv, NEW c \in NodeCalls, EventSent(c)
  PROVE  NodeInv'
<1> DEFINE e == nodeCall[c]
<1>0. NodeTypeOK /\ PeersAsTold
  BY DEF NodeInv
<1>1. /\ e # NoEvent /\ Len(events) < EventBufferSize
      /\ events' = Append(events, e) /\ nodeCall' = [nodeCall EXCEPT ![c] = NoEvent]
      /\ UNCHANGED <<connected_peers, taken, view, doubted>>
  BY DEF EventSent
<1>2. /\ nodeCall' \in [NodeCalls -> NodeEvents \cup {NoEvent}]
      /\ \A d \in NodeCalls : nodeCall'[d] = IF d = c THEN NoEvent ELSE nodeCall[d]
      /\ e \in NodeEvents /\ events \in Seq(NodeEvents)
  BY <1>0, <1>1, NodeTypes
<1>3. NodeTypeOK'
  <2>1. events' \in Seq(NodeEvents) /\ Len(events') = Len(events) + 1 /\ Len(events) \in Nat
    BY <1>1, <1>2
  <2>2. Len(events') <= EventBufferSize
    BY <1>1, <2>1, BufferAssumption
  <2> QED
    BY <1>0, <1>1, <1>2, <2>1, <2>2 DEF NodeTypeOK, NodeEvents
<1>4. PeersAsTold'
  <2> SUFFICES ASSUME NEW p \in Peers, p \notin doubted
               PROVE  /\ \A d \in About(p)' :
                           p \in connected_peers' <=> nodeCall'[d].kind = "PeerConnected"
                      /\ About(p)' = {} => (p \in connected_peers' <=> Told(p)')
    BY <1>1 DEF PeersAsTold
  <2>0. /\ \A d \in About(p) : p \in connected_peers <=> nodeCall[d].kind = "PeerConnected"
        /\ About(p) = {} => (p \in connected_peers <=> Told(p))
    BY <1>0 DEF PeersAsTold
  <2>1. Told(p)' <=> IF e \in PeerEvent /\ e.peer = p THEN e.kind = "PeerConnected" ELSE Told(p)
    <3>1. Told(p)' <=> ToldBy(events', view', p)
      BY DEF Told, ToldBy, Mentions
    <3>2. view' = view /\ events' = Append(events, e)
      BY <1>1
    <3> HIDE DEF e
    <3> QED
      BY <1>2, <3>1, <3>2, ToldAfterSending, ToldIsToldBy
  <2>2. CASE e \in PeerEvent /\ e.peer = p
    <3>1. c \in About(p)
      BY <2>2 DEF About
    <3>2. /\ About(p)' \subseteq About(p)
          /\ \A d \in About(p)' : nodeCall'[d] = nodeCall[d]
      BY <1>2 DEF About, NoEvent, PeerEvent
    <3>3. p \in connected_peers <=> e.kind = "PeerConnected"
      BY <2>0, <3>1
    <3> QED
      BY <1>1, <2>0, <2>1, <2>2, <3>2, <3>3
  <2>3. CASE ~(e \in PeerEvent /\ e.peer = p)
    <3>1. About(p)' = About(p) /\ c \notin About(p)
      BY <1>2, <2>3 DEF About, NoEvent, PeerEvent
    <3>2. \A d \in About(p) : nodeCall'[d] = nodeCall[d]
      BY <1>2, <3>1 DEF About
    <3> QED
      BY <1>1, <2>0, <2>1, <2>3, <3>1, <3>2
  <2> QED
    BY <2>2, <2>3
<1> QED
  BY <1>3, <1>4 DEF NodeInv

\* A call that is dropped leaves its peer in doubt, and the others as they are.
LEMMA CallDroppedInv ==
  ASSUME NodeInv, NEW c \in NodeCalls, CallDropped(c)
  PROVE  NodeInv'
<1>0. NodeTypeOK /\ PeersAsTold
  BY DEF NodeInv
<1>1. /\ nodeCall' = [nodeCall EXCEPT ![c] = NoEvent]
      /\ doubted' = doubted \cup {p \in Peers : c \in About(p)}
      /\ UNCHANGED <<connected_peers, events, taken, view>>
  BY DEF CallDropped
<1>2. /\ nodeCall' \in [NodeCalls -> NodeEvents \cup {NoEvent}]
      /\ \A d \in NodeCalls : nodeCall'[d] = IF d = c THEN NoEvent ELSE nodeCall[d]
  BY <1>0, <1>1, NodeTypes
<1>3. NodeTypeOK'
  BY <1>0, <1>1, <1>2 DEF NodeTypeOK, NodeEvents
<1>4. PeersAsTold'
  <2> SUFFICES ASSUME NEW p \in Peers, p \notin doubted'
               PROVE  /\ \A d \in About(p)' :
                           p \in connected_peers' <=> nodeCall'[d].kind = "PeerConnected"
                      /\ About(p)' = {} => (p \in connected_peers' <=> Told(p)')
    BY DEF PeersAsTold
  <2>1. p \notin doubted /\ c \notin About(p)
    BY <1>1
  <2>2. About(p)' = About(p) /\ \A d \in About(p) : nodeCall'[d] = nodeCall[d]
    BY <1>2, <2>1 DEF About, NoEvent, PeerEvent
  <2>3. Told(p)' <=> Told(p)
    BY <1>1 DEF Told
  <2> QED
    BY <1>0, <1>1, <2>1, <2>2, <2>3 DEF PeersAsTold
<1> QED
  BY <1>3, <1>4 DEF NodeInv

LEMMA EventTakenInv ==
  ASSUME NodeInv, EventTaken
  PROVE  NodeInv'
<1>0. NodeTypeOK /\ PeersAsTold
  BY DEF NodeInv
<1>1. /\ events # <<>> /\ taken < MaxTaken /\ taken' = taken + 1
      /\ events' = Tail(events) /\ view' = Seen(view, Head(events))
      /\ UNCHANGED <<connected_peers, nodeCall, doubted>>
  BY DEF EventTaken
<1>2. events \in Seq(NodeEvents)
  BY <1>0, NodeTypes
<1>3. NodeTypeOK'
  <2>1. /\ events' \in Seq(NodeEvents) /\ Len(events') = Len(events) - 1
        /\ Len(events) \in Nat /\ Head(events) \in NodeEvents
    BY <1>1, <1>2
  <2>2. Len(events') <= EventBufferSize
    BY <1>0, <2>1, BufferAssumption DEF NodeTypeOK
  <2>3. taken' \in 0..MaxTaken
    BY <1>0, <1>1, BufferAssumption DEF NodeTypeOK
  <2>4. view' \subseteq Peers
    <3>1. view \subseteq Peers
      BY <1>0 DEF NodeTypeOK
    <3>2. CASE Head(events) \in PeerEvent
      <4>1. Head(events).peer \in Peers
        BY <3>2 DEF PeerEvent
      <4> QED
        BY <1>1, <3>1, <4>1 DEF Seen
    <3>3. CASE Head(events) \in MessageEvent
      BY <1>1, <3>1, <3>3 DEF Seen, MessageEvent
    <3> QED
      BY <2>1, <3>2, <3>3 DEF NodeEvents
  <2> QED
    BY <1>0, <1>1, <2>1, <2>2, <2>3, <2>4 DEF NodeTypeOK, NodeEvents
<1>4. \A p : Told(p)' <=> Told(p)
  <2> TAKE p
  <2>1. Told(p)' <=> ToldBy(events', view', p)
    BY DEF Told, ToldBy, Mentions
  <2>2. ToldBy(Tail(events), Seen(view, Head(events)), p) <=> ToldBy(events, view, p)
    BY <1>1, <1>2, ToldAfterTaking
  <2> QED
    BY <1>1, <2>1, <2>2, ToldIsToldBy
<1>5. \A p : About(p)' = About(p)
  BY <1>1 DEF About
<1>6. PeersAsTold'
  BY <1>0, <1>1, <1>4, <1>5 DEF PeersAsTold
<1> QED
  BY <1>3, <1>6 DEF NodeInv

\* The node's peers, its buffer and its calls are of their types, and what the
\* calls about a peer that is in no doubt will tell is how the set has it.
THEOREM NodeInvariant == NodeSpec => []NodeInv
<1>1. NodeInit => NodeInv
  BY NodeInitInv
<1>2. ASSUME NodeInv, [NodeNext]_nodeVars PROVE NodeInv'
  <2>0. NodeTypeOK
    BY <1>2 DEF NodeInv
  <2>1. ASSUME NEW c \in NodeCalls, NEW p \in Peers, AddPeer(c, p) PROVE NodeInv'
    <3> DEFINE e == [kind |-> "PeerConnected", peer |-> p]
    <3>1. /\ e \in NodeEvents /\ e \in PeerEvent /\ e.kind = "PeerConnected" /\ e.peer = p
          /\ Tell(c, e) /\ connected_peers' = connected_peers \cup {p}
          /\ connected_peers' \subseteq Peers
      <4>1. e \in NodeEvents /\ e \in PeerEvent /\ e.kind = "PeerConnected" /\ e.peer = p
        BY DEF NodeEvents, PeerEvent
      <4>2. /\ Tell(c, e) /\ connected_peers' = connected_peers \cup {p}
            /\ connected_peers' \subseteq Peers
        BY <2>0, <2>1 DEF AddPeer, NodeTypeOK
      <4> QED
        BY <4>1, <4>2
    <3> HIDE DEF e
    <3>2. ASSUME NEW q \in Peers
          PROVE  IF e \in PeerEvent /\ e.peer = q
                   THEN q \in connected_peers' <=> e.kind = "PeerConnected"
                   ELSE q \in connected_peers' <=> q \in connected_peers
      BY <3>1
    <3> QED
      BY <1>2, <3>1, <3>2, TellInv
  <2>2. ASSUME NEW c \in NodeCalls, NEW p \in Peers, RemovePeer(c, p) PROVE NodeInv'
    <3> DEFINE e == [kind |-> "PeerDisconnected", peer |-> p]
    <3>1. /\ e \in NodeEvents /\ e \in PeerEvent /\ e.kind = "PeerDisconnected" /\ e.peer = p
          /\ Tell(c, e) /\ connected_peers' = connected_peers \ {p}
          /\ connected_peers' \subseteq Peers
      <4>1. e \in NodeEvents /\ e \in PeerEvent /\ e.kind = "PeerDisconnected" /\ e.peer = p
        BY DEF NodeEvents, PeerEvent
      <4>2. /\ Tell(c, e) /\ connected_peers' = connected_peers \ {p}
            /\ connected_peers' \subseteq Peers
        BY <2>0, <2>2 DEF RemovePeer, NodeTypeOK
      <4> QED
        BY <4>1, <4>2
    <3> HIDE DEF e
    <3>2. ASSUME NEW q \in Peers
          PROVE  IF e \in PeerEvent /\ e.peer = q
                   THEN q \in connected_peers' <=> e.kind = "PeerConnected"
                   ELSE q \in connected_peers' <=> q \in connected_peers
      BY <3>1
    <3> QED
      BY <1>2, <3>1, <3>2, TellInv
  <2>3. ASSUME NEW c \in NodeCalls, SendOrBroadcast(c) PROVE NodeInv'
    <3>1. PICK e \in MessageEvent : Tell(c, e)
      BY <2>3 DEF SendOrBroadcast
    <3>2. e \in NodeEvents /\ e \notin PeerEvent /\ connected_peers' = connected_peers
      BY <2>3 DEF SendOrBroadcast, NodeEvents, PeerEvent, MessageEvent
    <3>3. connected_peers' \subseteq Peers
      BY <2>0, <3>2 DEF NodeTypeOK
    <3> QED
      BY <1>2, <3>1, <3>2, <3>3, TellInv
  <2>4. ASSUME NEW c \in NodeCalls, EventSent(c) PROVE NodeInv'
    BY <1>2, <2>4, EventSentInv
  <2>7. ASSUME NEW c \in NodeCalls, CallDropped(c) PROVE NodeInv'
    BY <1>2, <2>7, CallDroppedInv
  <2>5. CASE EventTaken
    BY <1>2, <2>5, EventTakenInv
  <2>6. CASE UNCHANGED nodeVars
    <3>1. /\ UNCHANGED <<connected_peers, events, nodeCall, taken, view, doubted>>
          /\ NodeTypeOK /\ PeersAsTold
      BY <1>2, <2>6 DEF nodeVars, NodeInv
    <3>2. \A p : (Told(p)' <=> Told(p)) /\ About(p)' = About(p)
      BY <3>1 DEF Told, About
    <3>3. PeersAsTold'
      BY <3>1, <3>2 DEF PeersAsTold
    <3> QED
      BY <3>1, <3>3 DEF NodeInv, NodeTypeOK
  <2> QED
    BY <1>2, <2>1, <2>2, <2>3, <2>4, <2>5, <2>6, <2>7 DEF NodeNext
<1> QED
  BY <1>1, <1>2, PTL DEF NodeSpec

\* Whoever follows the events ends up with the set of connected peers, but for
\* peers whose last additions and removals crossed or whose last call was dropped
\* before its event was sent (yma-p2p, lines 128 to 148).
THEOREM NodeEventsTellPeers == NodeSpec => []EventsTellPeers
<1>1. NodeInv => EventsTellPeers
  BY DEF NodeInv, PeersAsTold, EventsTellPeers
<1> QED
  BY <1>1, NodeInvariant, PTL

-----------------------------------------------------------------------------
(***************************************************************************)
(* Roles.                                                                  *)
(***************************************************************************)
\* The place found for an id, and for a code.
LEMMA FirstPlace ==
  ASSUME NEW I \in SUBSET Nat, I # {}
  PROVE  Min(I) \in I
<1>1. \E m \in I : \A i \in I : m =< i
  BY LeastOf
<1> QED
  BY <1>1 DEF Min

LEMMA PlaceOfId ==
  ASSUME NEW S, NEW list \in Seq(S), NEW id
  PROVE  IF \E i \in DOMAIN list : list[i].id = id
           THEN ById(list, id) \in DOMAIN list /\ list[ById(list, id)].id = id
           ELSE ById(list, id) = 0
<1> DEFINE I == {i \in 1..Len(list) : list[i].id = id}
<1>1. ById(list, id) = IF I # {} THEN Min(I) ELSE 0
  BY DEF ById, SelectInSeq
<1>2. I \in SUBSET Nat /\ DOMAIN list = 1..Len(list)
  OBVIOUS
<1>3. I # {} => Min(I) \in I
  <2> HIDE DEF I
  <2> QED
    BY <1>2, FirstPlace
<1> QED
  BY <1>1, <1>2, <1>3

LEMMA PlaceOfCode ==
  ASSUME NEW S, NEW list \in Seq(S), NEW code
  PROVE  ByCode(list, code) = 0 <=> \A i \in DOMAIN list : list[i].code # code
<1> DEFINE I == {i \in 1..Len(list) : list[i].code = code}
<1>1. ByCode(list, code) = IF I # {} THEN Min(I) ELSE 0
  BY DEF ByCode, SelectInSeq
<1>2. I \in SUBSET Nat /\ DOMAIN list = 1..Len(list) /\ 0 \notin I
  OBVIOUS
<1>3. I # {} => Min(I) \in I
  <2> HIDE DEF I
  <2> QED
    BY <1>2, FirstPlace
<1> QED
  BY <1>1, <1>2, <1>3

\* Taking an entry out moves those behind it up by one.
LEMMA RemovedAt ==
  ASSUME NEW S, NEW list \in Seq(S), NEW pos \in 1..Len(list)
  PROVE  /\ RemoveAt(list, pos) \in Seq(S)
         /\ Len(RemoveAt(list, pos)) = Len(list) - 1
         /\ \A i \in 1..(Len(list) - 1) :
              RemoveAt(list, pos)[i] = IF i < pos THEN list[i] ELSE list[i + 1]
<1> DEFINE front == SubSeq(list, 1, pos - 1)
           back  == SubSeq(list, pos + 1, Len(list))
<1>0. Len(list) \in Nat /\ pos \in Nat /\ pos >= 1 /\ pos <= Len(list)
  OBVIOUS
<1>1. /\ front \in Seq(S) /\ Len(front) = pos - 1
      /\ \A i \in 1..(pos - 1) : front[i] = list[i]
  BY <1>0
<1>2. /\ back \in Seq(S) /\ Len(back) = Len(list) - pos
      /\ \A i \in 1..(Len(list) - pos) : back[i] = list[pos + i]
  BY <1>0
<1>3. RemoveAt(list, pos) = front \o back
  BY DEF RemoveAt
<1> HIDE DEF front, back
<1>4. /\ front \o back \in Seq(S) /\ Len(front \o back) = Len(front) + Len(back)
      /\ \A i \in 1..(Len(front) + Len(back)) :
           (front \o back)[i] = IF i <= Len(front) THEN front[i] ELSE back[i - Len(front)]
  BY <1>1, <1>2, ConcatProperties
<1>5. ASSUME NEW i \in 1..(Len(list) - 1)
      PROVE  (front \o back)[i] = IF i < pos THEN list[i] ELSE list[i + 1]
  <2>0. /\ i \in Nat /\ i >= 1 /\ i <= Len(list) - 1
        /\ (pos - 1) + (Len(list) - pos) = Len(list) - 1
    BY <1>0
  <2>1. CASE i < pos
    <3>1. i \in 1..(pos - 1) /\ i <= pos - 1
      BY <1>0, <2>0, <2>1
    <3> QED
      BY <1>1, <1>2, <1>4, <2>0, <2>1, <3>1
  <2>2. CASE ~(i < pos)
    <3> DEFINE k == i - (pos - 1)
    <3>1. k \in Int /\ k >= 1 /\ k <= Len(list) - pos /\ pos + k = i + 1 /\ ~(i <= pos - 1)
      BY <1>0, <2>0, <2>2
    <3>2. (front \o back)[i] = back[k]
      BY <1>1, <1>2, <1>4, <2>0, <3>1
    <3> HIDE DEF k
    <3>3. k \in 1..(Len(list) - pos)
      BY <1>0, <3>1
    <3>4. back[k] = list[pos + k]
      BY <1>2, <3>3
    <3> QED
      BY <2>2, <3>1, <3>2, <3>4
  <2> QED
    BY <2>1, <2>2
<1>6. Len(front \o back) = Len(list) - 1
  BY <1>0, <1>1, <1>2, <1>4
<1> QED
  BY <1>3, <1>4, <1>5, <1>6

LEMMA RolesInitInv == RolesInit => RolesInv
<1> SUFFICES ASSUME RolesInit PROVE RolesInv
  OBVIOUS
<1> DEFINE n == Len(SystemCodes)
<1>1. /\ n \in Nat /\ n <= MaxRoles /\ MaxRoles \in Nat /\ MaxPermissions \in Nat
      /\ DOMAIN SystemCodes = 1..n
      /\ \A i \in 1..n : SystemCodes[i] \in Codes
      /\ \A i, j \in 1..n : SystemCodes[i] = SystemCodes[j] => i = j
  BY RoleBounds DEF IsInjective, Codes, ToSet
<1>2. /\ roles = [i \in 1..n |-> RoleDefinition(i, SystemCodes[i], TRUE)]
      /\ madeIds = [roles |-> n, permissions |-> 0]
      /\ permissions = <<>> /\ retired = {}
  BY <1>1 DEF RolesInit
<1>3. ASSUME NEW i \in 1..n
      PROVE  /\ roles[i] \in RoleDefinitions /\ roles[i].id = i
             /\ roles[i].is_system_role /\ roles[i].code = SystemCodes[i]
  <2>1. roles[i] = RoleDefinition(i, SystemCodes[i], TRUE)
    BY <1>2
  <2>2. i \in RoleIds /\ SystemCodes[i] \in Codes
    BY <1>1 DEF RoleIds
  <2> QED
    BY <2>1, <2>2 DEF RoleDefinition, RoleDefinitions
<1>4. \A i \in 1..n : RoleDefinition(i, SystemCodes[i], TRUE) \in RoleDefinitions
  BY <1>2, <1>3
<1>5. roles \in Seq(RoleDefinitions) /\ Len(roles) = n /\ DOMAIN roles = 1..n
  <2>1. n \in Nat
    BY <1>1
  <2> HIDE DEF n
  <2>2. roles \in [1..n -> RoleDefinitions]
    BY <1>2, <1>4
  <2>3. roles \in Seq(RoleDefinitions) /\ DOMAIN roles = 1..n
    BY <2>1, <2>2, SeqDef
  <2>4. Len(roles) = n
    BY <2>1, <2>3, LenProperties
  <2> QED
    BY <2>3, <2>4
<1>6. RolesTypeOK
  <2>1. madeIds \in [roles : 0..MaxRoles, permissions : 0..MaxPermissions]
    BY <1>1, <1>2
  <2>2. permissions \in Seq([id : PermissionIds, code : PermissionCodes])
    BY <1>2, EmptySeq
  <2>3. retired \subseteq Codes
    BY <1>2
  <2> QED
    BY <1>5, <2>1, <2>2, <2>3 DEF RolesTypeOK
<1>7. IdsWereMade
  <2>1. madeIds.roles = n
    BY <1>2
  <2>2. \A i \in 1..n : i <= n
    BY <1>1
  <2> HIDE DEF n
  <2> QED
    BY <1>3, <1>5, <2>1, <2>2 DEF IdsWereMade
<1>8. RolesStand
  <2>1. \A i \in 1..n : \E r \in ToSet(roles) : r.id = i /\ r.is_system_role
    BY <1>3, <1>5 DEF ToSet
  <2> QED
    BY <1>1, <1>3, <1>5, <2>1 DEF RolesStand
<1> QED
  BY <1>6, <1>7, <1>8 DEF RolesInv

\* A role is added under an id that is new and a code that is not there.
LEMMA AddRoleInv ==
  ASSUME RolesInv, NEW code \in Codes, AddRole(code)
  PROVE  RolesInv'
<1> DEFINE given == madeIds.roles
           r == RoleDefinition(given + 1, code, FALSE)
           len == Len(roles)
<1>0. RolesTypeOK /\ IdsWereMade /\ RolesStand
  BY DEF RolesInv
<1>1. /\ roles \in Seq(RoleDefinitions) /\ len \in Nat /\ DOMAIN roles = 1..len
      /\ given \in Nat /\ given < MaxRoles /\ MaxRoles \in Nat
      /\ madeIds \in [roles : 0..MaxRoles, permissions : 0..MaxPermissions]
  BY <1>0, RoleBounds DEF RolesTypeOK, AddRole
<1>2. /\ madeIds' = [madeIds EXCEPT !.roles = given + 1]
      /\ roles' = IF ByCode(roles, code) # 0 THEN roles ELSE Append(roles, r)
      /\ UNCHANGED <<permissions, retired>>
  BY DEF AddRole
<1>3. madeIds'.roles = given + 1
      /\ madeIds' \in [roles : 0..MaxRoles, permissions : 0..MaxPermissions]
  BY <1>1, <1>2
<1>4. r \in RoleDefinitions /\ r.id = given + 1 /\ r.code = code
  <2>1. given + 1 \in RoleIds
    BY <1>1 DEF RoleIds
  <2> HIDE DEF given
  <2> QED
    BY <2>1 DEF RoleDefinition, RoleDefinitions
<1> HIDE DEF r, given
<1>5. CASE ByCode(roles, code) # 0
  <2>1. roles' = roles
    BY <1>2, <1>5
  <2>2. \A i \in DOMAIN roles : roles[i].id \in Nat /\ roles[i].id <= given
    <3>1. \A i \in DOMAIN roles : roles[i] \in RoleDefinitions
      BY <1>1
    <3> QED
      BY <1>0, <3>1 DEF IdsWereMade, RoleDefinitions, RoleIds, given
  <2>3. IdsWereMade'
    BY <1>1, <1>3, <2>1, <2>2 DEF IdsWereMade
  <2> QED
    BY <1>0, <1>2, <1>3, <2>1, <2>3 DEF RolesInv, RolesTypeOK, RolesStand
<1>6. CASE ByCode(roles, code) = 0
  <2>1. /\ roles' \in Seq(RoleDefinitions) /\ DOMAIN roles' = 1..(len + 1)
        /\ \A i \in 1..len : roles'[i] = roles[i]
        /\ roles'[len + 1] = r
    BY <1>1, <1>2, <1>4, <1>6
  <2>2. \A i \in 1..len : roles[i].id \in Nat /\ roles[i].id <= given
    <3>1. \A i \in DOMAIN roles : roles[i] \in RoleDefinitions
      BY <1>1
    <3>2. \A i \in DOMAIN roles : roles[i].id \in RoleIds
      BY <3>1 DEF RoleDefinitions
    <3>3. \A i \in RoleIds : i \in Nat
      BY <1>1 DEF RoleIds
    <3>4. \A i \in DOMAIN roles : roles[i].id <= given
      BY <1>0 DEF IdsWereMade, given
    <3> QED
      BY <1>1, <3>2, <3>3, <3>4
  <2>3. \A i \in 1..len : roles[i].code # code
    BY <1>1, <1>6, PlaceOfCode
  <2>4. \A i \in 1..(len + 1) : i \in 1..len \/ i = len + 1
    BY <1>1
  <2>5. RolesTypeOK'
    BY <1>0, <1>2, <1>3, <2>1 DEF RolesTypeOK
  <2>6. IdsWereMade'
    BY <1>1, <1>3, <1>4, <2>1, <2>2, <2>4 DEF IdsWereMade
  <2>7. \A i \in DOMAIN SystemCodes : \E q \in ToSet(roles') : q.id = i /\ q.is_system_role
    <3>1. \A q \in ToSet(roles) : q \in ToSet(roles')
      BY <1>1, <2>1 DEF ToSet
    <3> QED
      BY <1>0, <3>1 DEF RolesStand
  <2>8. \A i, j \in DOMAIN roles' : roles'[i].id = roles'[j].id => i = j
    <3>1. \A i, j \in 1..len : roles[i].id = roles[j].id => i = j
      BY <1>0, <1>1 DEF RolesStand
    <3>2. \A i \in 1..len : roles[i].id # given + 1
      BY <1>1, <2>2
    <3> QED
      BY <1>4, <2>1, <2>4, <3>1, <3>2
  <2>9. \A i, j \in DOMAIN roles' : roles'[i].code = roles'[j].code /\ i # j => retired # {}
    <3>1. \A i, j \in 1..len : roles[i].code = roles[j].code /\ i # j => retired # {}
      BY <1>0, <1>1 DEF RolesStand
    <3> QED
      BY <1>4, <2>1, <2>3, <2>4, <3>1
  <2> QED
    BY <1>2, <2>5, <2>6, <2>7, <2>8, <2>9 DEF RolesInv, RolesStand
<1> QED
  BY <1>5, <1>6

\* A role that is removed was not one of those the store began with.
LEMMA RemoveRoleInv ==
  ASSUME RolesInv, NEW id, RemoveRole(id)
  PROVE  RolesInv'
<1> DEFINE pos == ById(roles, id)
           len == Len(roles)
           old(i) == IF i < pos THEN i ELSE i + 1
<1>0. RolesTypeOK /\ IdsWereMade /\ RolesStand
  BY DEF RolesInv
<1>1. roles \in Seq(RoleDefinitions) /\ len \in Nat /\ DOMAIN roles = 1..len
  BY <1>0 DEF RolesTypeOK
<1>2. /\ pos # 0 /\ ~roles[pos].is_system_role /\ roles' = RemoveAt(roles, pos)
      /\ retired' = retired \cup {roles[pos].code}
      /\ UNCHANGED <<permissions, madeIds>>
  BY DEF RemoveRole
<1>3. pos \in 1..len /\ roles[pos] \in RoleDefinitions
  BY <1>1, <1>2, PlaceOfId
<1> HIDE DEF pos
<1>4. /\ roles' \in Seq(RoleDefinitions) /\ DOMAIN roles' = 1..(len - 1)
      /\ \A i \in 1..(len - 1) : roles'[i] = roles[old(i)] /\ old(i) \in 1..len /\ old(i) # pos
      /\ \A i, j \in 1..(len - 1) : old(i) = old(j) => i = j
      /\ \A i \in 1..len : i # pos => \E j \in 1..(len - 1) : i = old(j)
  <2>1. /\ roles' \in Seq(RoleDefinitions) /\ Len(roles') = len - 1
        /\ \A i \in 1..(len - 1) : roles'[i] = IF i < pos THEN roles[i] ELSE roles[i + 1]
    BY <1>1, <1>2, <1>3, RemovedAt
  <2>2. pos \in Nat /\ pos >= 1 /\ pos <= len
    BY <1>1, <1>3
  <2>3. ASSUME NEW i \in 1..len, i # pos
        PROVE  \E j \in 1..(len - 1) : i = old(j)
    <3>1. CASE i < pos
      <4>1. i \in 1..(len - 1) /\ old(i) = i
        BY <1>1, <2>2, <3>1
      <4> QED
        BY <4>1
    <3>2. CASE ~(i < pos)
      <4>1. i - 1 \in 1..(len - 1) /\ old(i - 1) = i
        BY <1>1, <2>2, <2>3, <3>2
      <4> QED
        BY <4>1
    <3> QED
      BY <3>1, <3>2
  <2>4. \A i \in 1..(len - 1) : old(i) \in 1..len /\ old(i) # pos
    BY <1>1, <2>2
  <2>5. \A i, j \in 1..(len - 1) : old(i) = old(j) => i = j
    BY <1>1, <2>2
  <2> QED
    BY <1>1, <2>1, <2>3, <2>4, <2>5
<1> HIDE DEF old
<1>5. RolesTypeOK'
  BY <1>0, <1>2, <1>3, <1>4 DEF RolesTypeOK, RoleDefinitions
<1>6. IdsWereMade'
  BY <1>0, <1>1, <1>2, <1>4 DEF IdsWereMade
<1>7. ASSUME NEW i \in DOMAIN SystemCodes
      PROVE  \E q \in ToSet(roles') : q.id = i /\ q.is_system_role
  <2>1. PICK k \in 1..len : roles[k].id = i /\ roles[k].is_system_role
    BY <1>0, <1>1 DEF RolesStand, ToSet
  <2>2. PICK j \in 1..(len - 1) : k = old(j)
    BY <1>2, <1>4, <2>1
  <2>3. roles'[j] \in ToSet(roles') /\ roles'[j] = roles[k]
    BY <1>4, <2>2 DEF ToSet
  <2> QED
    BY <2>1, <2>3
<1>8. \A i, j \in DOMAIN roles' : roles'[i].id = roles'[j].id => i = j
  BY <1>0, <1>1, <1>4 DEF RolesStand
<1>9. retired' # {}
  BY <1>2
<1> QED
  BY <1>5, <1>6, <1>7, <1>8, <1>9 DEF RolesInv, RolesStand

\* A definition is replaced by one with its id, and system roles by system roles;
\* a code that changes is retired.
LEMMA ReplaceInv ==
  ASSUME RolesInv, NEW pos \in DOMAIN roles, NEW r \in RoleDefinitions,
         r.id = roles[pos].id,
         roles[pos].is_system_role => r.is_system_role,
         roles' = [roles EXCEPT ![pos] = r],
         retired' = IF roles[pos].code = r.code THEN retired
                    ELSE retired \cup {roles[pos].code},
         UNCHANGED <<permissions, madeIds>>
  PROVE  RolesInv'
<1>0. RolesTypeOK /\ IdsWereMade /\ RolesStand
  BY DEF RolesInv
<1>1. /\ roles \in Seq(RoleDefinitions) /\ DOMAIN roles = 1..Len(roles)
  BY <1>0 DEF RolesTypeOK
<1>2. /\ roles' \in Seq(RoleDefinitions) /\ DOMAIN roles' = DOMAIN roles
      /\ \A i \in DOMAIN roles : roles'[i] = IF i = pos THEN r ELSE roles[i]
  BY <1>1
<1>3. \A i \in DOMAIN roles : /\ roles'[i].id = roles[i].id
                              /\ roles[i].is_system_role => roles'[i].is_system_role
  BY <1>2
<1>4. RolesTypeOK'
  <2>1. roles[pos].code \in Codes
    <3>1. roles[pos] \in RoleDefinitions
      BY <1>1
    <3> QED
      BY <3>1 DEF RoleDefinitions
  <2>2. retired' \subseteq Codes
    BY <1>0, <2>1 DEF RolesTypeOK
  <2> QED
    BY <1>0, <1>2, <2>2 DEF RolesTypeOK
<1>5. IdsWereMade'
  BY <1>0, <1>2, <1>3 DEF IdsWereMade
<1>6. ASSUME NEW i \in DOMAIN SystemCodes
      PROVE  \E q \in ToSet(roles') : q.id = i /\ q.is_system_role
  <2>1. PICK k \in DOMAIN roles : roles[k].id = i /\ roles[k].is_system_role
    BY <1>0 DEF RolesStand, ToSet
  <2>2. roles'[k] \in ToSet(roles')
    BY <1>2 DEF ToSet
  <2> QED
    BY <1>3, <2>1, <2>2
<1>7. \A i, j \in DOMAIN roles' : roles'[i].id = roles'[j].id => i = j
  BY <1>0, <1>2, <1>3 DEF RolesStand
<1>8. \A i, j \in DOMAIN roles' : roles'[i].code = roles'[j].code /\ i # j => retired' # {}
  <2>1. CASE roles[pos].code = r.code
    <3>1. \A i \in DOMAIN roles : roles'[i].code = roles[i].code
      BY <1>2, <2>1
    <3> QED
      BY <1>0, <1>2, <2>1, <3>1 DEF RolesStand
  <2>2. CASE roles[pos].code # r.code
    BY <2>2
  <2> QED
    BY <2>1, <2>2
<1> QED
  BY <1>4, <1>5, <1>6, <1>7, <1>8 DEF RolesInv, RolesStand

LEMMA UpdateRoleInv ==
  ASSUME RolesInv, NEW k \in DOMAIN roles, NEW role \in RoleDefinitions,
         role.id = roles[k].id, UpdateRole(role)
  PROVE  RolesInv'
<1> DEFINE pos == ById(roles, role.id)
<1>1. /\ roles \in Seq(RoleDefinitions) /\ RolesStand
  BY DEF RolesInv, RolesTypeOK
<1>2. pos \in DOMAIN roles /\ roles[pos].id = role.id
  BY <1>1, PlaceOfId
<1>3. pos = k
  BY <1>1, <1>2 DEF RolesStand
<1>4. /\ roles[pos].is_system_role => role.is_system_role
      /\ roles' = [roles EXCEPT ![pos] = role]
      /\ retired' = IF roles[pos].code = role.code THEN retired
                    ELSE retired \cup {roles[pos].code}
      /\ UNCHANGED <<permissions, madeIds>>
  BY DEF UpdateRole
<1> HIDE DEF pos
<1> QED
  BY <1>2, <1>3, <1>4, ReplaceInv

LEMMA AddPermissionToRoleInv ==
  ASSUME RolesInv, NEW id, NEW permission \in PermissionIds, AddPermissionToRole(id, permission)
  PROVE  RolesInv'
<1> DEFINE pos == ById(roles, id)
           r == [roles[pos] EXCEPT !.permission_ids = roles[pos].permission_ids \cup {permission}]
<1>1. /\ roles \in Seq(RoleDefinitions) /\ pos # 0
      /\ UNCHANGED <<permissions, madeIds, retired>>
  BY DEF RolesInv, RolesTypeOK, AddPermissionToRole
<1>2. pos \in DOMAIN roles
  BY <1>1, PlaceOfId
<1>3. roles' = [roles EXCEPT ![pos] = r]
  BY <1>1, <1>2 DEF AddPermissionToRole
<1> HIDE DEF pos
<1>4. roles[pos] \in RoleDefinitions
  BY <1>1, <1>2
<1>5. /\ r \in RoleDefinitions /\ r.id = roles[pos].id /\ r.code = roles[pos].code
      /\ r.is_system_role = roles[pos].is_system_role
  BY <1>4 DEF RoleDefinitions
<1> HIDE DEF r
<1> QED
  BY <1>1, <1>2, <1>3, <1>5, ReplaceInv

\* Permissions have a list of their own.
LEMMA PermissionSteps ==
  ASSUME RolesInv, UNCHANGED <<roles, retired>>, madeIds'.roles = madeIds.roles,
         madeIds' \in [roles : 0..MaxRoles, permissions : 0..MaxPermissions],
         permissions' \in Seq([id : PermissionIds, code : PermissionCodes])
  PROVE  RolesInv'
BY DEF RolesInv, RolesTypeOK, IdsWereMade, RolesStand

LEMMA AddPermissionInv ==
  ASSUME RolesInv, NEW code \in PermissionCodes, AddPermission(code)
  PROVE  RolesInv'
<1> DEFINE p == [id |-> madeIds.permissions + 1, code |-> code]
<1>1. /\ madeIds \in [roles : 0..MaxRoles, permissions : 0..MaxPermissions]
      /\ permissions \in Seq([id : PermissionIds, code : PermissionCodes])
      /\ MaxRoles \in Nat /\ MaxPermissions \in Nat
      /\ madeIds.permissions < MaxPermissions
      /\ madeIds' = [madeIds EXCEPT !.permissions = madeIds.permissions + 1]
      /\ permissions' = Append(permissions, p)
      /\ UNCHANGED <<roles, retired>>
  BY RoleBounds DEF RolesInv, RolesTypeOK, AddPermission
<1>2. /\ madeIds' \in [roles : 0..MaxRoles, permissions : 0..MaxPermissions]
      /\ madeIds'.roles = madeIds.roles
  BY <1>1
<1>3. p \in [id : PermissionIds, code : PermissionCodes]
  BY <1>1 DEF PermissionIds
<1> HIDE DEF p
<1>4. permissions' \in Seq([id : PermissionIds, code : PermissionCodes])
  BY <1>1, <1>3
<1> QED
  BY <1>1, <1>2, <1>4, PermissionSteps

LEMMA RemovePermissionInv ==
  ASSUME RolesInv, NEW id, RemovePermission(id)
  PROVE  RolesInv'
<1> DEFINE pos == ById(permissions, id)
<1>1. /\ madeIds \in [roles : 0..MaxRoles, permissions : 0..MaxPermissions]
      /\ permissions \in Seq([id : PermissionIds, code : PermissionCodes])
      /\ pos # 0 /\ permissions' = RemoveAt(permissions, pos)
      /\ UNCHANGED <<roles, madeIds, retired>>
  BY DEF RolesInv, RolesTypeOK, RemovePermission
<1>2. pos \in 1..Len(permissions)
  BY <1>1, PlaceOfId
<1> HIDE DEF pos
<1>3. permissions' \in Seq([id : PermissionIds, code : PermissionCodes])
  BY <1>1, <1>2, RemovedAt
<1> QED
  BY <1>1, <1>3, PermissionSteps

LEMMA RolesStepInv ==
  ASSUME RolesInv, [RolesNext]_roleVars
  PROVE  RolesInv'
<1>0. roles \in Seq(RoleDefinitions)
  BY DEF RolesInv, RolesTypeOK
<1>1. ASSUME NEW code \in Codes, AddRole(code) PROVE RolesInv'
  BY <1>1, AddRoleInv
<1>2. ASSUME NEW id \in RoleIds, RemoveRole(id) PROVE RolesInv'
  BY <1>2, RemoveRoleInv
<1>3. ASSUME NEW id \in RoleIds, NEW permission \in PermissionIds,
             AddPermissionToRole(id, permission)
      PROVE  RolesInv'
  BY <1>3, AddPermissionToRoleInv
<1>4. ASSUME NEW role \in ToSet(roles), NEW parent \in RoleIds \cup {NoId},
             SetParent(role, parent)
      PROVE  RolesInv'
  <2> DEFINE new == [role EXCEPT !.parent_role_id = parent]
  <2>1. PICK k \in DOMAIN roles : role = roles[k]
    BY DEF ToSet
  <2>2. role \in RoleDefinitions
    BY <1>0, <2>1
  <2>3. new \in RoleDefinitions /\ new.id = role.id
    BY <2>2 DEF RoleDefinitions
  <2>4. UpdateRole(new)
    BY <1>4 DEF SetParent
  <2> HIDE DEF new
  <2> QED
    BY <2>1, <2>3, <2>4, UpdateRoleInv
<1>5. ASSUME NEW role \in ToSet(roles), Demote(role) PROVE RolesInv'
  <2> DEFINE new == [role EXCEPT !.is_system_role = FALSE]
  <2>1. PICK k \in DOMAIN roles : role = roles[k]
    BY DEF ToSet
  <2>2. role \in RoleDefinitions
    BY <1>0, <2>1
  <2>3. new \in RoleDefinitions /\ new.id = role.id
    BY <2>2 DEF RoleDefinitions
  <2>4. UpdateRole(new)
    BY <1>5 DEF Demote
  <2> HIDE DEF new
  <2> QED
    BY <2>1, <2>3, <2>4, UpdateRoleInv
<1>6. ASSUME NEW role \in ToSet(roles), NEW code \in Codes, Recode(role, code)
      PROVE  RolesInv'
  <2> DEFINE new == [role EXCEPT !.code = code]
  <2>1. PICK k \in DOMAIN roles : role = roles[k]
    BY DEF ToSet
  <2>2. role \in RoleDefinitions
    BY <1>0, <2>1
  <2>3. new \in RoleDefinitions /\ new.id = role.id
    BY <2>2 DEF RoleDefinitions
  <2>4. UpdateRole(new)
    BY <1>6 DEF Recode
  <2> HIDE DEF new
  <2> QED
    BY <2>1, <2>3, <2>4, UpdateRoleInv
<1>7. ASSUME NEW code \in PermissionCodes, AddPermission(code) PROVE RolesInv'
  BY <1>7, AddPermissionInv
<1>8. ASSUME NEW id \in PermissionIds, RemovePermission(id) PROVE RolesInv'
  BY <1>8, RemovePermissionInv
<1>9. CASE UNCHANGED roleVars
  BY <1>9 DEF roleVars, RolesInv, RolesTypeOK, IdsWereMade, RolesStand
<1> QED
  BY <1>1, <1>2, <1>3, <1>4, <1>5, <1>6, <1>7, <1>8, <1>9 DEF RolesNext

\* The roles the store began with are there and system roles for ever, whatever
\* is added, changed, demoted and removed; no id names two roles, and no code
\* does before one was given up.
THEOREM RolesStandForEver == RolesSpec => []RolesStand
<1>1. RolesInit => RolesInv
  BY RolesInitInv
<1>2. RolesInv /\ [RolesNext]_roleVars => RolesInv'
  BY RolesStepInv
<1>3. RolesInv => RolesStand
  BY DEF RolesInv
<1> QED
  BY <1>1, <1>2, <1>3, PTL DEF RolesSpec

-----------------------------------------------------------------------------
(***************************************************************************)
(* The walk of has_permission_recursive.                                   *)
(***************************************************************************)
\* The role after each number of steps up from pos, for up to n steps.
IsWalk(up, pos, n) ==
  up = [i \in 0..n |-> IF i = 0 THEN pos ELSE ParentOf(up[i - 1])]

WalkOf(pos, n) == CHOOSE up : IsWalk(up, pos, n)

LEMMA WalkExists ==
  ASSUME NEW pos, NEW n \in Nat
  PROVE  \E up : IsWalk(up, pos, n)
<1> DEFINE Bad == {m \in Nat : ~ \E up : IsWalk(up, pos, m)}
<1>1. Bad = {}
  <2> SUFFICES ASSUME Bad # {} PROVE FALSE
    OBVIOUS
  <2>1. PICK m \in Bad : \A i \in Bad : m <= i
    BY LeastOf
  <2>2. m \in Nat
    OBVIOUS
  <2>3. CASE m = 0
    <3>1. PICK up : up = [i \in 0..0 |-> pos]
      OBVIOUS
    <3>2. up = [i \in 0..0 |-> IF i = 0 THEN pos ELSE ParentOf(up[i - 1])]
      BY <3>1
    <3> QED
      BY <2>3, <3>2 DEF IsWalk
  <2>4. CASE m # 0
    <3>1. m - 1 \in Nat /\ ~(m <= m - 1)
      BY <2>2, <2>4
    <3>2. m - 1 \notin Bad
      BY <2>1, <3>1
    <3>3. PICK up : IsWalk(up, pos, m - 1)
      BY <3>1, <3>2
    <3>4. up = [i \in 0..(m - 1) |-> IF i = 0 THEN pos ELSE ParentOf(up[i - 1])]
      BY <3>3 DEF IsWalk
    <3>5. \A i \in 0..(m - 1) : up[i] = IF i = 0 THEN pos ELSE ParentOf(up[i - 1])
      BY <3>4
    <3>6. PICK next : next = [i \in 0..m |-> IF i = m THEN ParentOf(up[m - 1]) ELSE up[i]]
      OBVIOUS
    <3>7. \A i \in 0..m : next[i] = IF i = 0 THEN pos ELSE ParentOf(next[i - 1])
      <4> SUFFICES ASSUME NEW i \in 0..m
                   PROVE  next[i] = IF i = 0 THEN pos ELSE ParentOf(next[i - 1])
        OBVIOUS
      <4>1. CASE i = m
        <5>1. i # 0 /\ i - 1 \in 0..m /\ i - 1 # m
          BY <2>2, <2>4, <4>1
        <5>2. next[i - 1] = up[m - 1]
          BY <3>6, <4>1, <5>1
        <5>3. next[i] = ParentOf(up[m - 1])
          BY <3>6, <4>1
        <5> QED
          BY <5>1, <5>2, <5>3
      <4>2. CASE i # m
        <5>1. i \in 0..(m - 1)
          BY <2>2, <4>2
        <5>2. next[i] = up[i]
          BY <3>6, <4>2
        <5>3. i # 0 => next[i - 1] = up[i - 1]
          <6>1. i # 0 => i - 1 \in 0..m /\ i - 1 # m
            BY <5>1, <2>2
          <6> QED BY <3>6, <6>1
        <5> QED
          BY <3>5, <5>1, <5>2, <5>3
      <4> QED
        BY <4>1, <4>2
    <3>8. PICK other : other = [i \in 0..m |-> IF i = 0 THEN pos ELSE ParentOf(next[i - 1])]
      OBVIOUS
    <3>9. \A i \in 0..m : other[i] = next[i]
      BY <3>7, <3>8
    <3>10. other = [i \in 0..m |-> other[i]] /\ next = [i \in 0..m |-> next[i]]
      BY <3>6, <3>8
    <3>11. other = next
      BY <3>9, <3>10
    <3>12. IsWalk(next, pos, m)
      BY <3>8, <3>11 DEF IsWalk
    <3> QED
      BY <3>12
  <2> QED
    BY <2>3, <2>4
<1> QED
  BY <1>1

LEMMA TwiceTheSame ==
  ASSUME NEW n \in Nat, NEW f \in [0..n -> 1..n]
  PROVE  \E i, j \in 0..n : i # j /\ f[i] = f[j]
<1>1. IsFiniteSet(0..n) /\ Cardinality(0..n) = n + 1
  BY FS_Interval
<1>2. IsFiniteSet(1..n) /\ Cardinality(1..n) = n
  BY FS_Interval
<1>3. Cardinality(1..n) < Cardinality(0..n)
  BY <1>1, <1>2
<1> QED
  BY <1>1, <1>2, <1>3, FS_PigeonHole

LEMMA NotNoPlace ==
  ASSUME NEW n \in Nat, NEW i \in 0..n, i # 0
  PROVE  i \in 1..n
OBVIOUS

LEMMA AncestorSteps ==
  ASSUME NEW pos, Len(roles) \in Nat
  PROVE  /\ Ancestor(pos)[0] = pos
         /\ \A i \in 1..Len(roles) : Ancestor(pos)[i] = ParentOf(Ancestor(pos)[i - 1])
<1>1. IsWalk(WalkOf(pos, Len(roles)), pos, Len(roles))
  BY WalkExists DEF WalkOf
<1>2. Ancestor(pos) = WalkOf(pos, Len(roles))
  BY DEF Ancestor, WalkOf, IsWalk
<1>3. PICK up : up = Ancestor(pos)
  OBVIOUS
<1>4. up = [i \in 0..Len(roles) |-> IF i = 0 THEN pos ELSE ParentOf(up[i - 1])]
  BY <1>1, <1>2, <1>3 DEF IsWalk
<1>5. up[0] = pos
  BY <1>4
<1>6. ASSUME NEW i \in 1..Len(roles)
      PROVE  up[i] = ParentOf(up[i - 1])
  <2>1. i \in 0..Len(roles) /\ i # 0
    OBVIOUS
  <2> QED
    BY <1>4, <2>1
<1> QED
  BY <1>3, <1>5, <1>6

\* Where a role's parent is.
LEMMA ParentIsPlace ==
  ASSUME RolesInv, NEW pos \in 0..Len(roles)
  PROVE  ParentOf(pos) \in 0..Len(roles)
<1>1. roles \in Seq(RoleDefinitions) /\ Len(roles) \in Nat /\ DOMAIN roles = 1..Len(roles)
  BY LenProperties DEF RolesInv, RolesTypeOK
<1>2. \A id : ById(roles, id) \in 0..Len(roles)
  <2> SUFFICES ASSUME NEW id PROVE ById(roles, id) \in 0..Len(roles)
    OBVIOUS
  <2> QED
    BY <1>1, PlaceOfId
<1> QED
  BY <1>1, <1>2 DEF ParentOf

(***************************************************************************)
(* A walk of as many steps as there are roles has come by every role it    *)
(* will ever come by: it has come to a role without a parent or twice to   *)
(* one role.                                                               *)
(***************************************************************************)
LEMMA WalkComesBack ==
  ASSUME NEW N \in Nat, NEW up \in [0..N -> 0..N], NEW parent \in [0..N -> 0..N],
         parent[0] = 0, up[0] # 0,
         \A i \in 1..N : up[i] = parent[up[i - 1]]
  PROVE  /\ \A i \in 0..N : up[i] # 0 /\ parent[up[i]] # 0 =>
              \E j \in 0..N : up[j] = parent[up[i]]
         /\ up[N] # 0 => \A i \in 0..N : up[i] # 0 /\ parent[up[i]] # 0
<1>1. ASSUME NEW i \in 0..N, i # N
      PROVE  i + 1 \in 0..N /\ up[i + 1] = parent[up[i]]
  <2>1. i + 1 \in 1..N /\ i + 1 \in 0..N /\ (i + 1) - 1 = i
    BY <1>1
  <2>2. PICK k : k = i + 1
    OBVIOUS
  <2>3. up[k] = parent[up[k - 1]] /\ k - 1 = i
    BY <2>1, <2>2
  <2> QED
    BY <2>1, <2>2, <2>3
\* Once there is no role there is none any more.
<1>2. up[N] # 0 => \A i \in 0..N : up[i] # 0
  <2> SUFFICES ASSUME NEW k \in 0..N, up[k] = 0 PROVE up[N] = 0
    OBVIOUS
  <2> DEFINE Bad == {m \in Nat : m \in k..N /\ up[m] # 0}
  <2>1. Bad = {}
    <3> SUFFICES ASSUME Bad # {} PROVE FALSE
      OBVIOUS
    <3>1. PICK m \in Bad : \A i \in Bad : m <= i
      BY LeastOf
    <3>2. m \in Nat /\ m \in k..N /\ up[m] # 0 /\ m # k
      OBVIOUS
    <3>3. m - 1 \in Nat /\ m - 1 \in k..N /\ ~(m <= m - 1) /\ m \in 1..N
      BY <3>2
    <3>4. up[m - 1] = 0
      BY <3>1, <3>3
    <3>5. up[m] = parent[up[m - 1]]
      BY <3>3
    <3> QED
      BY <3>2, <3>4, <3>5
  <2>2. N \in Nat /\ N \in k..N
    OBVIOUS
  <2> QED
    BY <2>1, <2>2
<1>3. CASE up[N] = 0
  <2> SUFFICES ASSUME NEW i \in 0..N, up[i] # 0
               PROVE  \E j \in 0..N : up[j] = parent[up[i]]
    BY <1>3
  <2>1. i # N
    BY <1>3
  <2> QED
    BY <1>1, <2>1
<1>4. CASE up[N] # 0
  <2>1. up \in [0..N -> 1..N]
    <3>1. \A i \in 0..N : up[i] \in 0..N /\ up[i] # 0
      BY <1>2, <1>4
    <3>2. \A i \in 0..N : up[i] \in 1..N
      BY <3>1, NotNoPlace
    <3> QED
      BY <3>2
  <2>2. PICK a \in 0..N, b \in 0..N : a # b /\ up[a] = up[b]
    BY <2>1, TwiceTheSame
  <2>3. PICK c \in 0..N, d \in 0..N : c < d /\ up[c] = up[d]
    <3>1. a < b \/ b < a
      BY <2>2
    <3> QED
      BY <2>2, <3>1
  <2> DEFINE p == d - c
             Bad == {m \in Nat : m \in d..N /\ up[m] # up[m - p]}
  <2>4. p \in 1..N /\ d - p = c
    BY <2>3
  <2> HIDE DEF p
  <2>5. Bad = {}
    <3> SUFFICES ASSUME Bad # {} PROVE FALSE
      OBVIOUS
    <3>1. PICK m \in Bad : \A i \in Bad : m <= i
      BY LeastOf
    <3>2. m \in Nat /\ m \in d..N /\ up[m] # up[m - p]
      OBVIOUS
    <3>3. m # d
      BY <2>3, <2>4, <3>2
    <3>4. m - 1 \in Nat /\ m - 1 \in d..N /\ ~(m <= m - 1) /\ m \in 1..N
      BY <2>3, <3>2, <3>3
    <3>5. up[m - 1] = up[(m - 1) - p]
      BY <3>1, <3>4
    <3>6. m - p \in 1..N /\ (m - 1) - p = (m - p) - 1
      BY <2>3, <2>4, <3>4
    <3>7. up[m] = parent[up[m - 1]] /\ up[m - p] = parent[up[(m - p) - 1]]
      BY <3>4, <3>6
    <3> QED
      BY <3>2, <3>5, <3>6, <3>7
  <2>6. N \in Nat /\ N \in d..N /\ N - p \in 0..N /\ N - p # N
    BY <2>3, <2>4
  <2>7. up[N] = up[N - p]
    BY <2>5, <2>6
  <2>8. (N - p) + 1 \in 0..N /\ up[(N - p) + 1] = parent[up[N]]
    BY <1>1, <2>6, <2>7
  <2>9. ASSUME NEW i \in 0..N PROVE \E j \in 0..N : up[j] = parent[up[i]]
    <3>1. CASE i = N
      BY <2>8, <3>1
    <3>2. CASE i # N
      BY <1>1, <3>2
    <3> QED
      BY <3>1, <3>2
  <2>10. \A i \in 0..N : up[i] # 0 /\ parent[up[i]] # 0
    BY <1>2, <1>4, <2>9
  <2> QED
    BY <2>9, <2>10
<1> QED
  BY <1>3, <1>4

\* What the recursion answers is what holds of the roles above the one it starts
\* at, those a chain of parents leads to.
LEMMA WalkIsRight == ASSUME RolesInv PROVE WalkAgrees
<1> SUFFICES ASSUME NEW start \in DOMAIN roles, NEW permission \in PermissionIds
             PROVE LET closed(s) == \A i \in s : ParentOf(i) # 0 => ParentOf(i) \in s
                       above     == {i \in DOMAIN roles :
                                       \A s \in SUBSET DOMAIN roles :
                                         start \in s /\ closed(s) => i \in s}
                       answer    == HasPermissionRecursive(start, permission)
                   IN  /\ answer = "granted" <=>
                            \E i \in above : permission \in roles[i].permission_ids
                       /\ answer = "never answers" => \A i \in above : ParentOf(i) # 0
  BY DEF WalkAgrees
<1> DEFINE N == Len(roles)
           up == Ancestor(start)
           parent == [i \in 0..N |-> ParentOf(i)]
           closed(s) == \A i \in s : ParentOf(i) # 0 => ParentOf(i) \in s
           above == {i \in DOMAIN roles : \A s \in SUBSET DOMAIN roles :
                       start \in s /\ closed(s) => i \in s}
           met == {i \in 1..N : \E n \in 0..N : up[n] = i}
<1>1. N \in Nat /\ DOMAIN roles = 1..N
  BY LenProperties DEF RolesInv, RolesTypeOK
<1>2. up[0] = start /\ \A i \in 1..N : up[i] = ParentOf(up[i - 1])
  BY <1>1, AncestorSteps
<1>3. parent \in [0..N -> 0..N] /\ \A i \in 0..N : parent[i] = ParentOf(i)
  BY ParentIsPlace
<1>4. parent[0] = 0
  BY <1>1 DEF ParentOf
<1> HIDE DEF N, parent, up
<1>5. start \in 1..N
  BY <1>1
<1>6. \A n \in 0..N : up[n] \in 0..N
  <2> DEFINE Bad == {m \in Nat : m \in 0..N /\ up[m] \notin 0..N}
  <2>1. Bad = {}
    <3> SUFFICES ASSUME Bad # {} PROVE FALSE
      OBVIOUS
    <3>1. PICK m \in Bad : \A i \in Bad : m <= i
      BY LeastOf
    <3>2. m \in Nat /\ m \in 0..N /\ up[m] \notin 0..N /\ m # 0
      BY <1>1, <1>2, <1>5
    <3>3. m - 1 \in Nat /\ m - 1 \in 0..N /\ ~(m <= m - 1) /\ m \in 1..N
      BY <1>1, <3>2
    <3>4. up[m - 1] \in 0..N
      BY <3>1, <3>3
    <3> QED
      BY <1>2, <1>3, <3>2, <3>3, <3>4
  <2> QED
    BY <1>1, <2>1
<1>7. PICK walk \in [0..N -> 0..N] : \A n \in 0..N : walk[n] = up[n]
  <2>1. [n \in 0..N |-> up[n]] \in [0..N -> 0..N]
    BY <1>6
  <2> QED
    BY <2>1
<1>8. walk[0] # 0 /\ \A i \in 1..N : walk[i] = parent[walk[i - 1]]
  <2>1. 0 \in 0..N
    BY <1>1
  <2>3. walk[0] = start
    BY <2>1, <1>2, <1>7
  <2>2. ASSUME NEW i \in 1..N PROVE walk[i] = parent[walk[i - 1]]
    <3>1. i \in 0..N /\ i - 1 \in 0..N
      BY <1>1
    <3>2. walk[i] = up[i] /\ walk[i - 1] = up[i - 1] /\ up[i - 1] \in 0..N
      BY <1>6, <1>7, <3>1
    <3> QED
      BY <1>2, <1>3, <3>2
  <2> QED
    BY <1>5, <2>3, <2>2
<1>9. /\ \A i \in 0..N : walk[i] # 0 /\ parent[walk[i]] # 0 =>
           \E j \in 0..N : walk[j] = parent[walk[i]]
      /\ walk[N] # 0 => \A i \in 0..N : walk[i] # 0 /\ parent[walk[i]] # 0
  BY <1>1, <1>3, <1>4, <1>8, WalkComesBack
<1>10. /\ \A i \in 0..N : up[i] # 0 /\ ParentOf(up[i]) # 0 =>
            \E j \in 0..N : up[j] = ParentOf(up[i])
       /\ up[N] # 0 => \A i \in 0..N : up[i] # 0 /\ ParentOf(up[i]) # 0
  <2>1. \A i \in 0..N : walk[i] = up[i] /\ parent[walk[i]] = ParentOf(up[i])
    BY <1>3, <1>6, <1>7
  <2>2. N \in 0..N
    BY <1>1
  <2>3. ASSUME NEW i \in 0..N, up[i] # 0, ParentOf(up[i]) # 0
        PROVE  \E j \in 0..N : up[j] = ParentOf(up[i])
    <3>1. PICK j \in 0..N : walk[j] = parent[walk[i]]
      BY <1>9, <2>1, <2>3
    <3> QED
      BY <2>1, <3>1
  <2>4. up[N] # 0 => \A i \in 0..N : up[i] # 0 /\ ParentOf(up[i]) # 0
    BY <1>9, <2>1, <2>2
  <2> QED
    BY <2>3, <2>4
\* The roles the walk meets are the roles above.
<1>11. above = met
  <2>1. closed(met)
    <3> SUFFICES ASSUME NEW i \in met, ParentOf(i) # 0 PROVE ParentOf(i) \in met
      OBVIOUS
    <3>1. PICK n \in 0..N : up[n] = i
      OBVIOUS
    <3>2. i # 0 /\ i \in 0..N
      BY <1>1
    <3>3. PICK j \in 0..N : up[j] = ParentOf(i)
      BY <1>10, <3>1, <3>2
    <3>4. up[j] \in 0..N /\ up[j] # 0
      BY <1>6, <3>3
    <3>5. up[j] \in 1..N
      BY <1>1, <3>4, NotNoPlace
    <3>6. up[j] \in met
      BY <3>5
    <3> HIDE DEF met
    <3> QED
      BY <3>3, <3>6
  <2>2. start \in met
    <3>1. 0 \in 0..N
      BY <1>1
    <3> QED
      BY <3>1, <1>2, <1>5
  <2>3. met \in SUBSET DOMAIN roles
    BY <1>1
  <2>4. ASSUME NEW i \in above PROVE i \in met
    <3> HIDE DEF met, closed
    <3> QED BY <2>1, <2>2, <2>3
  <2>5. ASSUME NEW s \in SUBSET DOMAIN roles, start \in s, closed(s), NEW n \in 0..N, up[n] # 0
        PROVE  up[n] \in s
    <3> DEFINE Bad == {m \in Nat : m \in 0..N /\ up[m] # 0 /\ up[m] \notin s}
    <3>1. Bad = {}
      <4> SUFFICES ASSUME Bad # {} PROVE FALSE
        OBVIOUS
      <4>1. PICK m \in Bad : \A i \in Bad : m <= i
        <5> HIDE DEF closed
        <5> QED BY LeastOf
      <4>2. m \in Nat /\ m \in 0..N /\ up[m] # 0 /\ up[m] \notin s /\ m # 0
        BY <1>2, <2>5
      <4>3. m - 1 \in Nat /\ m - 1 \in 0..N /\ ~(m <= m - 1) /\ m \in 1..N
        BY <1>1, <4>2
      <4>4. up[m] = ParentOf(up[m - 1])
        BY <1>2, <4>3
      <4>5. up[m - 1] # 0
        BY <4>2, <4>4 DEF ParentOf
      <4>6. up[m - 1] \in s
        BY <4>1, <4>3, <4>5
      <4> QED
        BY <2>5, <4>2, <4>4, <4>6
    <3>2. n \in Nat
      BY <1>1
    <3> QED
      BY <2>5, <3>1, <3>2
  <2>6. ASSUME NEW i \in met PROVE i \in above
    <3>1. PICK n \in 0..N : up[n] = i
      OBVIOUS
    <3>2. i \in DOMAIN roles /\ i # 0
      BY <1>1
    <3>3. ASSUME NEW s \in SUBSET DOMAIN roles, start \in s, closed(s) PROVE i \in s
      <4> HIDE DEF closed, met, above
      <4> QED BY <2>5, <3>1, <3>2, <3>3
    <3> HIDE DEF closed
    <3> QED
      BY <3>2, <3>3
  <2> HIDE DEF above, met
  <2> QED
    BY <2>4, <2>6
<1>12. (\E n \in 0..N : up[n] # 0 /\ permission \in roles[up[n]].permission_ids)
        <=> \E i \in met : permission \in roles[i].permission_ids
  <2>1. ASSUME NEW n \in 0..N, up[n] # 0 PROVE up[n] \in met
    <3>1. up[n] \in 0..N
      BY <1>6
    <3>2. up[n] \in 1..N
      BY <1>1, <2>1, <3>1, NotNoPlace
    <3> QED
      BY <3>2
  <2>2. \A i \in met : i # 0 /\ \E n \in 0..N : up[n] = i
    BY <1>1
  <2> HIDE DEF met
  <2> QED
    BY <2>1, <2>2
<1>13. HasPermissionRecursive(start, permission) =
         IF \E n \in 0..N : up[n] # 0 /\ permission \in roles[up[n]].permission_ids
           THEN "granted"
         ELSE IF up[N] = 0 THEN "refused" ELSE "never answers"
  BY DEF HasPermissionRecursive, N, up
<1>14. HasPermissionRecursive(start, permission) = "granted" <=>
         \E i \in above : permission \in roles[i].permission_ids
  <2> HIDE DEF above, met
  <2> QED
    BY <1>11, <1>12, <1>13
<1>15. HasPermissionRecursive(start, permission) = "never answers" =>
         \A i \in above : ParentOf(i) # 0
  <2>1. HasPermissionRecursive(start, permission) = "never answers" => up[N] # 0
    BY <1>13
  <2>2. \A i \in met : \E n \in 0..N : up[n] = i
    OBVIOUS
  <2> HIDE DEF above, met
  <2> QED
    BY <1>10, <1>11, <2>1, <2>2
<1> QED
  BY <1>14, <1>15

-----------------------------------------------------------------------------
(***************************************************************************)
(* Lists: what stays when entries are thrown out of them.                  *)
(***************************************************************************)
\* The entries that stay of the first i of a list, for each i up to n.
IsKept(kept, list, keep, n) ==
  kept = [i \in 0..n |->
    IF i = 0 THEN <<>>
    ELSE IF i \in keep THEN Append(kept[i - 1], list[i])
    ELSE kept[i - 1]]

KeptOf(list, keep, n) == CHOOSE kept : IsKept(kept, list, keep, n)

LEMMA KeptExists ==
  ASSUME NEW list, NEW keep, NEW n \in Nat
  PROVE  \E kept : IsKept(kept, list, keep, n)
<1> DEFINE Is(kept, m) == kept = [i \in 0..m |->
              IF i = 0 THEN <<>>
              ELSE IF i \in keep THEN Append(kept[i - 1], list[i])
              ELSE kept[i - 1]]
           Bad == {m \in Nat : ~ \E kept : Is(kept, m)}
<1>1. Bad = {}
  <2> SUFFICES ASSUME Bad # {} PROVE FALSE
    OBVIOUS
  <2>1. PICK m \in Bad : \A i \in Bad : m <= i
    <3> HIDE DEF Is
    <3> QED BY LeastOf
  <2>2. m \in Nat
    OBVIOUS
  <2>3. CASE m = 0
    <3>1. Is([i \in 0..0 |-> <<>>], 0)
      OBVIOUS
    <3> QED
      BY <2>3, <3>1
  <2>4. CASE m # 0
    <3>1. m - 1 \in Nat /\ ~(m <= m - 1)
      BY <2>2, <2>4
    <3>2. m - 1 \notin Bad
      BY <2>1, <3>1
    <3>3. PICK kept : Is(kept, m - 1)
      BY <3>1, <3>2
    <3> DEFINE next == [i \in 0..m |->
                  IF i = m THEN IF m \in keep THEN Append(kept[m - 1], list[m]) ELSE kept[m - 1]
                  ELSE kept[i]]
    <3>4. \A i \in 0..m : next[i] =
            IF i = 0 THEN <<>>
            ELSE IF i \in keep THEN Append(next[i - 1], list[i])
            ELSE next[i - 1]
      <4> SUFFICES ASSUME NEW i \in 0..m
                   PROVE  next[i] = IF i = 0 THEN <<>>
                                    ELSE IF i \in keep THEN Append(next[i - 1], list[i])
                                    ELSE next[i - 1]
        OBVIOUS
      <4>1. CASE i = m
        <5>1. i # 0 /\ i - 1 \in 0..m /\ i - 1 # m
          BY <2>2, <2>4, <4>1
        <5>2. next[i - 1] = kept[m - 1]
          BY <4>1, <5>1
        <5>3. next[i] = IF m \in keep THEN Append(kept[m - 1], list[m]) ELSE kept[m - 1]
          BY <4>1
        <5> HIDE DEF next, Is
        <5> QED
          BY <4>1, <5>1, <5>2, <5>3
      <4>2. CASE i # m
        <5>1. i \in 0..(m - 1)
          BY <2>2, <4>2
        <5>2. next[i] = kept[i]
          BY <4>2
        <5>3. kept[i] = IF i = 0 THEN <<>>
                        ELSE IF i \in keep THEN Append(kept[i - 1], list[i])
                        ELSE kept[i - 1]
          BY <3>3, <5>1
        <5>4. i # 0 => next[i - 1] = kept[i - 1]
          <6>1. i # 0 => i - 1 \in 0..m /\ i - 1 # m
            BY <5>1, <2>2
          <6> QED BY <6>1
        <5> HIDE DEF next, Is
        <5> QED
          BY <5>2, <5>3, <5>4
      <4> QED
        BY <4>1, <4>2
    <3>5. Is(next, m)
      <4>1. next = [i \in 0..m |-> next[i]]
        OBVIOUS
      <4> DEFINE other == [i \in 0..m |->
                    IF i = 0 THEN <<>>
                    ELSE IF i \in keep THEN Append(next[i - 1], list[i])
                    ELSE next[i - 1]]
      <4>2. \A i \in 0..m : other[i] = next[i]
        <5> HIDE DEF next
        <5> QED BY <3>4
      <4>3. other = [i \in 0..m |-> other[i]]
        OBVIOUS
      <4>4. other = next
        <5> HIDE DEF next, other
        <5> QED BY <4>1, <4>2, <4>3
      <4> QED
        BY <4>4
    <3> HIDE DEF Is, next
    <3> QED
      BY <3>5
  <2> QED
    BY <2>3, <2>4
<1>2. \E kept : Is(kept, n)
  <2> HIDE DEF Is
  <2> QED BY <1>1
<1>3. \A kept : Is(kept, n) <=> IsKept(kept, list, keep, n)
  BY DEF IsKept
<1> QED
  <2> HIDE DEF Is
  <2> QED BY <1>2, <1>3

LEMMA KeptDef ==
  ASSUME NEW list, NEW keep, NEW n \in Nat
  PROVE  /\ KeptOf(list, keep, n)[0] = <<>>
         /\ \A i \in 1..n : KeptOf(list, keep, n)[i] =
              IF i \in keep THEN Append(KeptOf(list, keep, n)[i - 1], list[i])
              ELSE KeptOf(list, keep, n)[i - 1]
<1>1. IsKept(KeptOf(list, keep, n), list, keep, n)
  BY KeptExists DEF KeptOf
<1>2. PICK kept : kept = KeptOf(list, keep, n)
  OBVIOUS
<1>3. kept = [i \in 0..n |->
         IF i = 0 THEN <<>>
         ELSE IF i \in keep THEN Append(kept[i - 1], list[i])
         ELSE kept[i - 1]]
  BY <1>1, <1>2 DEF IsKept
<1>4. kept[0] = <<>>
  BY <1>3
<1>5. \A i \in 1..n : kept[i] =
        IF i \in keep THEN Append(kept[i - 1], list[i]) ELSE kept[i - 1]
  <2> SUFFICES ASSUME NEW i \in 1..n
               PROVE  kept[i] = IF i \in keep THEN Append(kept[i - 1], list[i])
                                ELSE kept[i - 1]
    OBVIOUS
  <2>1. i \in 0..n /\ i # 0
    OBVIOUS
  <2> QED
    BY <1>3, <2>1
<1> QED
  BY <1>2, <1>4, <1>5

LEMMA RetainIsKept ==
  ASSUME NEW list, NEW keep
  PROVE  Retain(list, keep) = KeptOf(list, keep, Len(list))[Len(list)]
BY DEF Retain, KeptOf, IsKept

\* What stays of a list: entries of it, in the order they had, each at a
\* position that is kept, and of every position that is kept.
LEMMA RetainFacts ==
  ASSUME NEW S, NEW list \in Seq(S), NEW keep \in SUBSET (1..Len(list))
  PROVE  /\ Retain(list, keep) \in Seq(S)
         /\ Len(Retain(list, keep)) <= Len(list)
         /\ \E at \in [1..Len(Retain(list, keep)) -> keep] :
              /\ \A i \in 1..Len(Retain(list, keep)) :
                   Retain(list, keep)[i] = list[at[i]]
              /\ \A i, j \in 1..Len(Retain(list, keep)) : i < j => at[i] < at[j]
              /\ \A k \in keep : \E i \in 1..Len(Retain(list, keep)) : at[i] = k
<1> DEFINE N == Len(list)
           kept == KeptOf(list, keep, N)
           Good(r, n) ==
             /\ r \in Seq(S) /\ Len(r) <= n
             /\ \E at \in [1..Len(r) -> keep \cap (1..n)] :
                  /\ \A i \in 1..Len(r) : r[i] = list[at[i]]
                  /\ \A i, j \in 1..Len(r) : i < j => at[i] < at[j]
                  /\ \A k \in keep \cap (1..n) : \E i \in 1..Len(r) : at[i] = k
           Bad == {n \in Nat : n <= N /\ ~Good(kept[n], n)}
<1>1. N \in Nat /\ \A i \in 1..N : list[i] \in S
  BY LenProperties
<1>2. /\ kept[0] = <<>>
      /\ \A i \in 1..N : kept[i] =
           IF i \in keep THEN Append(kept[i - 1], list[i]) ELSE kept[i - 1]
  <2> HIDE DEF N
  <2> QED BY <1>1, KeptDef
<1> HIDE DEF N, kept
<1>3. Good(<<>>, 0)
  <2>1. <<>> \in Seq(S) /\ Len(<<>>) = 0 /\ 1..0 = {}
    BY EmptySeq
  <2>2. PICK at : at = [i \in 1..0 |-> 0]
    OBVIOUS
  <2>3. at \in [1..0 -> keep \cap (1..0)]
    BY <2>1, <2>2
  <2>4. PICK none : none = <<>>
    OBVIOUS
  <2>5. none \in Seq(S) /\ Len(none) = 0 /\ Len(none) <= 0
    BY <2>1, <2>4
  <2>6. /\ \A i \in 1..Len(none) : none[i] = list[at[i]]
        /\ \A i, j \in 1..Len(none) : i < j => at[i] < at[j]
        /\ \A k \in keep \cap (1..0) : \E i \in 1..Len(none) : at[i] = k
    BY <2>1, <2>5
  <2>7. Good(none, 0)
    BY <2>3, <2>5, <2>6
  <2> HIDE DEF Good
  <2> QED
    BY <2>4, <2>7
<1>4. ASSUME NEW n \in Nat, n + 1 <= N, NEW r, Good(r, n)
      PROVE  Good(IF n + 1 \in keep THEN Append(r, list[n + 1]) ELSE r, n + 1)
  <2>1. PICK at \in [1..Len(r) -> keep \cap (1..n)] :
          /\ \A i \in 1..Len(r) : r[i] = list[at[i]]
          /\ \A i, j \in 1..Len(r) : i < j => at[i] < at[j]
          /\ \A k \in keep \cap (1..n) : \E i \in 1..Len(r) : at[i] = k
    BY <1>4
  <2>2. r \in Seq(S) /\ Len(r) <= n /\ Len(r) \in Nat
    BY <1>4, LenProperties
  <2>3. n + 1 \in 1..N /\ 1..(n + 1) = 1..n \cup {n + 1}
    BY <1>1, <1>4
  <2>4. CASE n + 1 \notin keep
    <3>1. keep \cap (1..(n + 1)) = keep \cap (1..n)
      BY <2>3, <2>4
    <3>2. Len(r) <= n + 1
      BY <2>2
    <3>3. Good(r, n + 1)
      BY <2>1, <2>2, <3>1, <3>2
    <3> HIDE DEF Good
    <3> QED
      BY <2>4, <3>3
  <2>5. CASE n + 1 \in keep
    <3> DEFINE q == Append(r, list[n + 1])
               to == [i \in 1..(Len(r) + 1) |-> IF i = Len(r) + 1 THEN n + 1 ELSE at[i]]
    <3>1. list[n + 1] \in S
      BY <1>1, <2>3
    <3>2. /\ q \in Seq(S) /\ Len(q) = Len(r) + 1
          /\ \A i \in 1..Len(r) : q[i] = r[i]
          /\ q[Len(r) + 1] = list[n + 1]
      BY <2>2, <3>1, AppendProperties
    <3>3. Len(q) <= n + 1
      BY <2>2, <3>2
    <3>4. /\ to \in [1..(Len(r) + 1) -> keep \cap (1..(n + 1))]
          /\ \A i \in 1..Len(r) : to[i] = at[i]
          /\ to[Len(r) + 1] = n + 1
      BY <2>2, <2>3, <2>5
    <3>5. \A i \in 1..(Len(r) + 1) : i \in 1..Len(r) \/ i = Len(r) + 1
      BY <2>2
    <3> HIDE DEF q, to
    <3>6. \A i \in 1..Len(q) : q[i] = list[to[i]]
      BY <2>1, <3>2, <3>4, <3>5
    <3>7. \A i, j \in 1..Len(q) : i < j => to[i] < to[j]
      <4> SUFFICES ASSUME NEW i \in 1..Len(q), NEW j \in 1..Len(q), i < j
                   PROVE  to[i] < to[j]
        OBVIOUS
      <4>1. i \in 1..Len(r)
        BY <2>2, <3>2
      <4>2. at[i] \in 1..n /\ to[i] = at[i]
        BY <2>1, <3>4, <4>1
      <4>3. CASE j \in 1..Len(r)
        BY <2>1, <3>4, <4>1, <4>3
      <4>4. CASE j = Len(r) + 1
        <5>1. to[j] = n + 1
          BY <3>4, <4>4
        <5> QED BY <4>2, <5>1
      <4> QED BY <3>2, <3>5, <4>3, <4>4
    <3>8. \A k \in keep \cap (1..(n + 1)) : \E i \in 1..Len(q) : to[i] = k
      <4> SUFFICES ASSUME NEW k \in keep \cap (1..(n + 1))
                   PROVE  \E i \in 1..Len(q) : to[i] = k
        OBVIOUS
      <4>1. CASE k \in 1..n
        <5>1. PICK i \in 1..Len(r) : at[i] = k
          BY <2>1, <4>1
        <5>2. i \in 1..Len(q)
          BY <2>2, <3>2
        <5> QED BY <3>4, <5>1, <5>2
      <4>2. CASE k = n + 1
        <5>1. Len(r) + 1 \in 1..Len(q)
          BY <2>2, <3>2
        <5> QED BY <3>4, <4>2, <5>1
      <4> QED BY <2>3, <4>1, <4>2
    <3>9. to \in [1..Len(q) -> keep \cap (1..(n + 1))]
      BY <3>2, <3>4
    <3>10. Good(q, n + 1)
      BY <3>2, <3>3, <3>6, <3>7, <3>8, <3>9
    <3> HIDE DEF Good
    <3> QED
      BY <2>5, <3>10 DEF q
  <2> HIDE DEF Good
  <2> QED
    BY <2>4, <2>5
<1>5. Bad = {}
  <2> HIDE DEF Good
  <2> SUFFICES ASSUME Bad # {} PROVE FALSE
    OBVIOUS
  <2>1. PICK m \in Bad : \A i \in Bad : m <= i
    BY LeastOf
  <2>2. m \in Nat /\ m <= N /\ ~Good(kept[m], m)
    OBVIOUS
  <2>3. m # 0
    BY <1>2, <1>3, <2>2
  <2>4. /\ m - 1 \in Nat /\ m - 1 <= N /\ ~(m <= m - 1) /\ m \in 1..N
        /\ (m - 1) + 1 = m /\ (m - 1) + 1 <= N
    BY <1>1, <2>2, <2>3
  <2>5. Good(kept[m - 1], m - 1)
    BY <2>1, <2>4
  <2>6. kept[m] = IF m \in keep THEN Append(kept[m - 1], list[m]) ELSE kept[m - 1]
    BY <1>2, <2>4
  <2>7. Good(IF (m - 1) + 1 \in keep THEN Append(kept[m - 1], list[(m - 1) + 1])
             ELSE kept[m - 1], (m - 1) + 1)
    BY <1>4, <2>4, <2>5
  <2> QED
    BY <2>2, <2>4, <2>6, <2>7
<1>6. Good(kept[N], N)
  <2> HIDE DEF Good
  <2> QED BY <1>1, <1>5
<1>7. Retain(list, keep) = kept[N]
  BY RetainIsKept DEF kept, N
<1>8. keep \cap (1..N) = keep
  BY DEF N
<1>9. PICK r : r = Retain(list, keep)
  OBVIOUS
<1>10. Good(r, N)
  <2> HIDE DEF Good
  <2> QED BY <1>6, <1>7, <1>9
<1>11. /\ r \in Seq(S) /\ Len(r) <= N
       /\ \E at \in [1..Len(r) -> keep] :
            /\ \A i \in 1..Len(r) : r[i] = list[at[i]]
            /\ \A i, j \in 1..Len(r) : i < j => at[i] < at[j]
            /\ \A k \in keep : \E i \in 1..Len(r) : at[i] = k
  BY <1>8, <1>10
<1> QED
  BY <1>9, <1>11 DEF N

\* The entries of r are those of list at some of the positions of keep, each once.
TakenFrom(r, list, keep) ==
  \E at \in [1..Len(r) -> keep] :
    /\ \A i \in 1..Len(r) : r[i] = list[at[i]]
    /\ \A i, j \in 1..Len(r) : at[i] = at[j] => i = j

\* Each of the positions is one of those.
TakesAll(r, list, keep) ==
  \E at \in [1..Len(r) -> keep] :
    /\ \A i \in 1..Len(r) : r[i] = list[at[i]]
    /\ \A k \in keep : \E i \in 1..Len(r) : at[i] = k

\* An entry taken out leaves the others, each in one place.
LEMMA RemovedFacts ==
  ASSUME NEW S, NEW list \in Seq(S), NEW pos \in 1..Len(list)
  PROVE  /\ RemoveAt(list, pos) \in Seq(S)
         /\ Len(RemoveAt(list, pos)) <= Len(list)
         /\ TakenFrom(RemoveAt(list, pos), list, (1..Len(list)) \ {pos})
<1>1. PICK r : r = RemoveAt(list, pos)
  OBVIOUS
<1>2. Len(list) \in Nat
  BY LenProperties
<1>3. /\ r \in Seq(S) /\ Len(r) = Len(list) - 1
      /\ \A i \in 1..(Len(list) - 1) : r[i] = IF i < pos THEN list[i] ELSE list[i + 1]
  BY <1>1, RemovedAt
<1> DEFINE at == [i \in 1..Len(r) |-> IF i < pos THEN i ELSE i + 1]
<1>4. at \in [1..Len(r) -> (1..Len(list)) \ {pos}]
  BY <1>2, <1>3
<1>5. \A i \in 1..Len(r) : at[i] = IF i < pos THEN i ELSE i + 1
  OBVIOUS
<1> HIDE DEF at
<1>6. \A i \in 1..Len(r) : r[i] = list[at[i]]
  BY <1>2, <1>3, <1>5
<1>7. \A i, j \in 1..Len(r) : at[i] = at[j] => i = j
  BY <1>2, <1>3, <1>5
<1>8. Len(r) <= Len(list)
  BY <1>2, <1>3
<1>9. TakenFrom(r, list, (1..Len(list)) \ {pos})
  BY <1>4, <1>6, <1>7 DEF TakenFrom
<1> QED
  BY <1>1, <1>3, <1>8, <1>9

\* What stays of a list stays in one place.
LEMMA RetainedFacts ==
  ASSUME NEW S, NEW list \in Seq(S), NEW keep \in SUBSET (1..Len(list))
  PROVE  /\ Retain(list, keep) \in Seq(S)
         /\ Len(Retain(list, keep)) <= Len(list)
         /\ TakenFrom(Retain(list, keep), list, keep)
         /\ TakesAll(Retain(list, keep), list, keep)
<1>1. PICK r : r = Retain(list, keep)
  OBVIOUS
<1>2. r \in Seq(S) /\ Len(r) <= Len(list)
  BY <1>1, RetainFacts
<1>3. PICK at \in [1..Len(r) -> keep] :
        /\ \A i \in 1..Len(r) : r[i] = list[at[i]]
        /\ \A i, j \in 1..Len(r) : i < j => at[i] < at[j]
        /\ \A k \in keep : \E i \in 1..Len(r) : at[i] = k
  BY <1>1, RetainFacts
<1>4. \A i, j \in 1..Len(r) : at[i] = at[j] => i = j
  <2> SUFFICES ASSUME NEW i \in 1..Len(r), NEW j \in 1..Len(r), at[i] = at[j]
               PROVE  i = j
    OBVIOUS
  <2>1. at[i] \in Nat /\ at[j] \in Nat /\ i \in Nat /\ j \in Nat
    <3>1. Len(list) \in Nat
      BY LenProperties
    <3>2. \A k \in keep : k \in Nat
      BY <3>1
    <3>3. at[i] \in keep /\ at[j] \in keep
      BY <1>3
    <3>4. Len(r) \in Nat
      BY <1>2, LenProperties
    <3>5. i \in Nat /\ j \in Nat
      BY <3>4
    <3>6. at[i] \in Nat /\ at[j] \in Nat
      BY <3>2, <3>3
    <3> QED
      BY <3>5, <3>6
  <2>2. ~(i < j) /\ ~(j < i)
    BY <1>3, <2>1
  <2> QED
    BY <2>1, <2>2
<1>5. TakenFrom(r, list, keep) /\ TakesAll(r, list, keep)
  BY <1>3, <1>4 DEF TakenFrom, TakesAll
<1> QED
  BY <1>1, <1>2, <1>5

-----------------------------------------------------------------------------
(***************************************************************************)
(* Event bus.  A subscriber reads copies a task made for it: the task's    *)
(* place in the bus and the subscriber's place among the copies move at    *)
(* their own pace, and what was received follows from both.                *)
(***************************************************************************)
LEMMA BusParts ==
  ASSUME BusInv
  PROVE  /\ sent \in Seq(Events) /\ Len(sent) \in Nat /\ DOMAIN sent = 1..Len(sent)
         /\ history \in Seq(1..Len(sent)) /\ Len(history) \in Nat
         /\ DOMAIN history = 1..Len(history)
         /\ persisting \subseteq 1..Len(sent) /\ IsFiniteSet(persisting)
         /\ Cardinality(persisting) \in Nat
         /\ sub \in [Subscribers -> {NoSub} \cup Subscription]
<1>1. /\ sent \in Seq(Events) /\ history \in Seq(DOMAIN sent) /\ persisting \subseteq DOMAIN sent
      /\ sub \in [Subscribers -> {NoSub} \cup Subscription]
  BY DEF BusInv, BusTypeOK
<1>2. Len(sent) \in Nat /\ DOMAIN sent = 1..Len(sent)
  BY <1>1, LenProperties
<1>3. history \in Seq(1..Len(sent)) /\ Len(history) \in Nat /\ DOMAIN history = 1..Len(history)
  BY <1>1, <1>2, LenProperties
<1>4. IsFiniteSet(persisting)
  <2>1. IsFiniteSet(1..Len(sent))
    BY <1>2, FS_Interval
  <2> QED
    BY <1>1, <1>2, <2>1, FS_Subset
<1>5. Cardinality(persisting) \in Nat
  BY <1>4, FS_CardinalityType
<1> QED
  BY <1>1, <1>2, <1>3, <1>4, <1>5

LEMMA SubscriptionParts ==
  ASSUME NEW r \in Subscription
  PROVE  /\ r.open = TRUE /\ r.filter \in EventFilters /\ r.since \in Nat /\ r.next \in Nat
         /\ r.forwarded \in Seq(Nat) /\ r.taken \in Nat /\ r.received \in Seq(Nat)
         /\ r.skipped \in BOOLEAN
         /\ Len(r.forwarded) \in Nat /\ DOMAIN r.forwarded = 1..Len(r.forwarded)
         /\ Len(r.received) \in Nat /\ DOMAIN r.received = 1..Len(r.received)
         /\ \A a \in 1..Len(r.forwarded) : r.forwarded[a] \in Nat
         /\ \A a \in 1..Len(r.received) : r.received[a] \in Nat
<1>1. /\ r.open = TRUE /\ r.filter \in EventFilters /\ r.since \in Nat /\ r.next \in Nat
      /\ r.forwarded \in Seq(Nat) /\ r.taken \in Nat /\ r.received \in Seq(Nat)
      /\ r.skipped \in BOOLEAN
  BY DEF Subscription
<1>2. /\ Len(r.forwarded) \in Nat /\ DOMAIN r.forwarded = 1..Len(r.forwarded)
      /\ Len(r.received) \in Nat /\ DOMAIN r.received = 1..Len(r.received)
  BY <1>1, LenProperties
<1>3. /\ \A a \in 1..Len(r.forwarded) : r.forwarded[a] \in Nat
      /\ \A a \in 1..Len(r.received) : r.received[a] \in Nat
  BY <1>1, <1>2, ElementOfSeq
<1> QED
  BY <1>1, <1>2, <1>3

\* A subscription that is open, and how far it is.
LEMMA OpenIsSubscription ==
  ASSUME BusInv, NEW s \in Subscribed
  PROVE  /\ s \in Subscribers /\ sub[s] \in Subscription
         /\ sub[s].next \in sub[s].since + 1 .. Len(sent) + 1
         /\ sub[s].taken \in 0 .. Len(sub[s].forwarded)
         /\ CopiedInOrder(sub[s], sent) /\ ReadInOrder(sub[s])
<1>1. s \in Subscribers /\ sub[s].open
  BY DEF Subscribed
<1>2. sub[s] \in {NoSub} \cup Subscription
  BY <1>1, BusParts
<1>3. NoSub.open = FALSE
  BY DEF NoSub
<1>4. sub[s] \in Subscription
  BY <1>1, <1>2, <1>3
<1> QED
  BY <1>1, <1>4 DEF BusInv, BusTypeOK

LEMMA BusInitInv == BusInit => BusInv
<1> SUFFICES ASSUME BusInit PROVE BusInv
  OBVIOUS
<1>1. sent = <<>> /\ persisting = {} /\ history = <<>> /\ sub = [s \in Subscribers |-> NoSub]
  BY DEF BusInit
<1>2. Subscribed = {}
  <2>1. NoSub.open = FALSE
    BY DEF NoSub
  <2> QED
    BY <1>1, <2>1 DEF Subscribed
<1>3. sent \in Seq(Events) /\ Len(sent) = 0 /\ DOMAIN sent = {}
  BY <1>1, EmptySeq
<1>4. history \in Seq(DOMAIN sent) /\ Len(history) = 0 /\ DOMAIN history = {}
  BY <1>1, EmptySeq
<1>5. BusTypeOK
  BY <1>1, <1>2, <1>3, <1>4 DEF BusTypeOK
<1>6. EventsAreKept
  <2>1. ToSet(history) = {}
    BY <1>4 DEF ToSet
  <2>2. Cardinality(persisting) = 0
    BY <1>1, FS_EmptySet
  <2> QED
    BY <1>1, <1>3, <1>4, <2>1, <2>2 DEF EventsAreKept
<1> QED
  BY <1>2, <1>5, <1>6 DEF BusInv

\* A step of one subscription, after which it is as it should be.
LEMMA SubscriptionStep ==
  ASSUME BusInv, NEW s \in Subscribers, NEW r \in Subscription,
         sub' = [sub EXCEPT ![s] = r], UNCHANGED <<sent, persisting, history>>,
         r.next \in r.since + 1 .. Len(sent) + 1, r.taken \in 0 .. Len(r.forwarded),
         CopiedInOrder(r, sent), ReadInOrder(r)
  PROVE  BusInv'
<1>1. /\ sub' \in [Subscribers -> {NoSub} \cup Subscription]
      /\ \A t \in Subscribers : sub'[t] = IF t = s THEN r ELSE sub[t]
  BY BusParts
<1>2. ASSUME NEW t \in Subscribed'
      PROVE  /\ sub'[t].next \in sub'[t].since + 1 .. Len(sent') + 1
             /\ sub'[t].taken \in 0 .. Len(sub'[t].forwarded)
             /\ CopiedInOrder(sub'[t], sent') /\ ReadInOrder(sub'[t])
  <2>1. t \in Subscribers /\ sub'[t].open
    BY DEF Subscribed
  <2>2. CASE t = s
    <3>1. sub'[t] = r
      BY <1>1, <2>1, <2>2
    <3> QED
      BY <3>1
  <2>3. CASE t # s
    <3>1. sub'[t] = sub[t]
      BY <1>1, <2>1, <2>3
    <3>2. t \in Subscribed
      BY <2>1, <3>1 DEF Subscribed
    <3> QED
      BY <3>1, <3>2, OpenIsSubscription
  <2> QED
    BY <2>2, <2>3
<1>3. BusTypeOK'
  BY <1>1, <1>2 DEF BusInv, BusTypeOK
<1>4. EventsAreKept'
  BY DEF BusInv, EventsAreKept
<1> QED
  BY <1>2, <1>3, <1>4 DEF BusInv

LEMMA SubscribeInv ==
  ASSUME BusInv, NEW s \in Subscribers, NEW f \in EventFilters, SubscribeFiltered(s, f)
  PROVE  BusInv'
<1>1. PICK r : r = [open |-> TRUE, filter |-> f, since |-> Len(sent),
                    next |-> Len(sent) + 1, forwarded |-> <<>>, taken |-> 0,
                    received |-> <<>>, skipped |-> FALSE]
  OBVIOUS
<1>2. sub' = [sub EXCEPT ![s] = r] /\ UNCHANGED <<sent, persisting, history>>
  BY <1>1 DEF SubscribeFiltered
<1>3. Len(sent) \in Nat
  BY BusParts
<1>4. <<>> \in Seq(Nat) /\ Len(<<>>) = 0
  BY EmptySeq
<1>5. r \in Subscription
  BY <1>1, <1>3, <1>4 DEF Subscription
<1>6. /\ r.since = Len(sent) /\ r.next = Len(sent) + 1 /\ r.taken = 0
      /\ Len(r.forwarded) = 0 /\ Len(r.received) = 0
  BY <1>1, <1>4
<1>7. Wanted(r, sent) = {}
  BY <1>3, <1>6 DEF Wanted
<1>8. CopiedInOrder(r, sent) /\ ReadInOrder(r)
  BY <1>6, <1>7 DEF CopiedInOrder, ReadInOrder, Ascending
<1>9. r.next \in r.since + 1 .. Len(sent) + 1 /\ r.taken \in 0 .. Len(r.forwarded)
  BY <1>3, <1>6
<1> QED
  BY <1>2, <1>5, <1>8, <1>9, SubscriptionStep

LEMMA ForwardInv ==
  ASSUME BusInv, NEW s \in Subscribers, Forward(s)
  PROVE  BusInv'
<1>1. PICK q : q = sub[s]
  OBVIOUS
<1>2. s \in Subscribed /\ q.next <= Len(sent)
  BY <1>1 DEF Forward
<1>3. /\ q \in Subscription /\ q.next \in q.since + 1 .. Len(sent) + 1
      /\ q.taken \in 0 .. Len(q.forwarded) /\ CopiedInOrder(q, sent) /\ ReadInOrder(q)
  BY <1>1, <1>2, OpenIsSubscription
<1>4. PICK copied : copied = IF Matches(q.filter, sent[q.next])
                             THEN Append(q.forwarded, q.next) ELSE q.forwarded
  OBVIOUS
<1>5. PICK r : r = [q EXCEPT !.next = q.next + 1, !.forwarded = copied]
  OBVIOUS
<1>6. sub' = [sub EXCEPT ![s] = r] /\ UNCHANGED <<sent, persisting, history>>
  <2>1. sub' = [sub EXCEPT ![s].next = sub[s].next + 1,
                           ![s].forwarded = IF Matches(sub[s].filter, sent[sub[s].next])
                                            THEN Append(@, sub[s].next) ELSE @]
    BY DEF Forward
  <2> QED
    BY <1>1, <1>3, <1>4, <1>5, <2>1, BusParts DEF Forward, Subscription
<1>7. /\ q.filter \in EventFilters /\ q.since \in Nat /\ q.next \in Nat /\ q.open = TRUE
      /\ q.forwarded \in Seq(Nat) /\ q.taken \in Nat /\ q.received \in Seq(Nat)
      /\ q.skipped \in BOOLEAN /\ Len(q.forwarded) \in Nat /\ Len(q.received) \in Nat
      /\ \A a \in 1..Len(q.forwarded) : q.forwarded[a] \in Nat
  BY <1>3, SubscriptionParts
<1>8. /\ Append(q.forwarded, q.next) \in Seq(Nat)
      /\ Len(Append(q.forwarded, q.next)) = Len(q.forwarded) + 1
      /\ \A a \in 1..Len(q.forwarded) : Append(q.forwarded, q.next)[a] = q.forwarded[a]
      /\ Append(q.forwarded, q.next)[Len(q.forwarded) + 1] = q.next
  BY <1>7, AppendProperties
<1>9. copied \in Seq(Nat)
  BY <1>4, <1>7, <1>8
<1>10. /\ r \in Subscription /\ r.since = q.since /\ r.next = q.next + 1
       /\ r.filter = q.filter /\ r.forwarded = copied /\ r.taken = q.taken
       /\ r.received = q.received /\ r.skipped = q.skipped
  <2>1. r = [open |-> q.open, filter |-> q.filter, since |-> q.since, next |-> q.next + 1,
             forwarded |-> copied, taken |-> q.taken, received |-> q.received,
             skipped |-> q.skipped]
    BY <1>3, <1>5 DEF Subscription
  <2>2. /\ r.open = q.open /\ r.since = q.since /\ r.next = q.next + 1
        /\ r.filter = q.filter /\ r.forwarded = copied /\ r.taken = q.taken
        /\ r.received = q.received /\ r.skipped = q.skipped
    BY <2>1
  <2>3. q.next + 1 \in Nat
    BY <1>7
  <2>4. r \in Subscription
    BY <1>7, <1>9, <2>1, <2>3 DEF Subscription
  <2> QED
    BY <2>2, <2>4
<1>11. Len(sent) \in Nat
  BY BusParts
<1>12. \A i : i \in Wanted(r, sent) <=>
          i \in Wanted(q, sent) \/ (i = q.next /\ Matches(q.filter, sent[q.next]))
  <2>1. \A i : i \in q.since + 1 .. (q.next + 1) - 1 <=>
            i \in q.since + 1 .. q.next - 1 \/ i = q.next
    BY <1>3, <1>7, <1>11
  <2> QED
    BY <1>10, <2>1 DEF Wanted
<1>13. \A a \in 1..Len(q.forwarded) : q.forwarded[a] \in Wanted(q, sent) /\ q.forwarded[a] < q.next
  BY <1>3, <1>7 DEF CopiedInOrder, Wanted
<1>14. CASE Matches(q.filter, sent[q.next])
  <2>1. /\ copied \in Seq(Nat) /\ Len(copied) = Len(q.forwarded) + 1
        /\ \A a \in 1..Len(q.forwarded) : copied[a] = q.forwarded[a]
        /\ copied[Len(q.forwarded) + 1] = q.next
    BY <1>4, <1>8, <1>14
  <2>2. \A a \in 1..Len(copied) : a \in 1..Len(q.forwarded) \/ a = Len(q.forwarded) + 1
    BY <1>7, <2>1
  <2>3. Ascending(copied)
    <3> SUFFICES ASSUME NEW a \in 1..Len(copied), NEW b \in 1..Len(copied), a < b
                 PROVE  copied[a] < copied[b]
      BY DEF Ascending
    <3>1. a \in 1..Len(q.forwarded)
      BY <1>7, <2>1, <2>2
    <3>2. CASE b \in 1..Len(q.forwarded)
      BY <1>3, <2>1, <3>1, <3>2 DEF CopiedInOrder, Ascending
    <3>3. CASE b = Len(q.forwarded) + 1
      BY <1>13, <2>1, <3>1, <3>3
    <3> QED
      BY <2>2, <3>2, <3>3
  <2>4. \A a \in 1..Len(copied) : copied[a] \in Wanted(r, sent)
    BY <1>12, <1>13, <1>14, <2>1, <2>2
  <2>5. ASSUME q.skipped = FALSE, NEW i \in Wanted(r, sent)
        PROVE  \E a \in 1..Len(copied) : copied[a] = i
    <3>1. CASE i \in Wanted(q, sent)
      <4>1. PICK a \in 1..Len(q.forwarded) : q.forwarded[a] = i
        BY <1>3, <2>5, <3>1 DEF CopiedInOrder
      <4>2. a \in 1..Len(copied)
        BY <1>7, <2>1
      <4> QED
        BY <2>1, <4>1, <4>2
    <3>2. CASE i = q.next
      <4>1. Len(q.forwarded) + 1 \in 1..Len(copied)
        BY <1>7, <2>1
      <4> QED
        BY <2>1, <3>2, <4>1
    <3> QED
      BY <1>12, <2>5, <3>1, <3>2
  <2>6. CopiedInOrder(r, sent)
    BY <1>10, <2>3, <2>4, <2>5 DEF CopiedInOrder
  <2>7. r.taken \in 0..Len(r.forwarded) /\ \A b \in 1..q.taken : b \in 1..Len(q.forwarded)
    BY <1>3, <1>7, <1>10, <2>1
  <2>8. ReadInOrder(r)
    <3>1. \A a \in 1..Len(q.received) : \E b \in 1..q.taken : q.received[a] = copied[b]
      BY <1>3, <2>1, <2>7 DEF ReadInOrder
    <3>2. ASSUME q.skipped = FALSE
          PROVE  /\ Len(q.received) = q.taken
                 /\ \A a \in 1..Len(q.received) : q.received[a] = copied[a]
      <4>1. /\ Len(q.received) = q.taken
            /\ \A a \in 1..Len(q.received) : q.received[a] = q.forwarded[a]
        BY <1>3, <3>2 DEF ReadInOrder
      <4>2. \A a \in 1..Len(q.received) : a \in 1..Len(q.forwarded)
        BY <2>7, <4>1
      <4> QED
        BY <2>1, <4>1, <4>2
    <3>3. Ascending(q.received)
      BY <1>3 DEF ReadInOrder
    <3>4. /\ r.received = q.received /\ r.taken = q.taken
          /\ r.forwarded = copied
      BY <1>10
    <3>5. r.skipped = FALSE => q.skipped = FALSE
      <4>1. r.skipped = q.skipped
        BY <1>10
      <4> QED
        BY <4>1
    <3>6. Ascending(r.received)
      BY <3>3, <3>4
    <3>7. \A a \in 1..Len(r.received) : \E b \in 1..r.taken : r.received[a] = r.forwarded[b]
      BY <3>1, <3>4
    <3>8. r.skipped = FALSE =>
            /\ Len(r.received) = r.taken
            /\ \A a \in 1..Len(r.received) : r.received[a] = r.forwarded[a]
      BY <3>2, <3>4, <3>5
    <3> QED
      BY <3>6, <3>7, <3>8 DEF ReadInOrder
  <2>9. r.next \in r.since + 1 .. Len(sent) + 1
    BY <1>2, <1>3, <1>7, <1>10, <1>11
  <2> QED
    BY <1>6, <1>10, <2>6, <2>7, <2>8, <2>9, SubscriptionStep
<1>15. CASE ~Matches(q.filter, sent[q.next])
  <2>1. copied = q.forwarded
    BY <1>4, <1>15
  <2>2. Wanted(r, sent) = Wanted(q, sent)
    BY <1>12, <1>15
  <2>3. CopiedInOrder(r, sent) /\ ReadInOrder(r) /\ r.taken \in 0..Len(r.forwarded)
    BY <1>3, <1>10, <2>1, <2>2 DEF CopiedInOrder, ReadInOrder
  <2>4. r.next \in r.since + 1 .. Len(sent) + 1
    BY <1>2, <1>3, <1>7, <1>10, <1>11
  <2> QED
    BY <1>6, <1>10, <2>3, <2>4, SubscriptionStep
<1> QED
  BY <1>14, <1>15

LEMMA ForwardLagsInv ==
  ASSUME BusInv, NEW s \in Subscribers, ForwardLags(s)
  PROVE  BusInv'
<1>1. PICK q : q = sub[s]
  OBVIOUS
<1>2. PICK oldest : oldest = Oldest(Len(sent), Capacity)
  OBVIOUS
<1>3. s \in Subscribed /\ q.next < oldest
  BY <1>1, <1>2 DEF ForwardLags
<1>4. /\ q \in Subscription /\ q.next \in q.since + 1 .. Len(sent) + 1
      /\ q.taken \in 0 .. Len(q.forwarded) /\ CopiedInOrder(q, sent) /\ ReadInOrder(q)
  BY <1>1, <1>3, OpenIsSubscription
<1>5. PICK r : r = [q EXCEPT !.next = oldest, !.skipped = TRUE]
  OBVIOUS
<1>6. sub' = [sub EXCEPT ![s] = r] /\ UNCHANGED <<sent, persisting, history>>
  <2>1. sub' = [sub EXCEPT ![s].next = oldest, ![s].skipped = TRUE]
    BY <1>2 DEF ForwardLags
  <2> QED
    BY <1>1, <1>4, <1>5, <2>1, BusParts DEF ForwardLags, Subscription
<1>7. Len(sent) \in Nat
  BY BusParts
<1>8. oldest \in Nat /\ oldest <= Len(sent) + 1
  BY <1>2, <1>7, BusBounds DEF Oldest
<1>9. /\ r \in Subscription /\ r.since = q.since /\ r.next = oldest
      /\ r.filter = q.filter /\ r.forwarded = q.forwarded /\ r.taken = q.taken
      /\ r.received = q.received /\ r.skipped = TRUE
  BY <1>4, <1>5, <1>8 DEF Subscription
<1>10. q.since \in Nat /\ q.next \in Nat
  BY <1>4, SubscriptionParts
<1>11. Wanted(q, sent) \subseteq Wanted(r, sent)
  BY <1>3, <1>8, <1>9, <1>10 DEF Wanted
<1>12. CopiedInOrder(r, sent) /\ ReadInOrder(r)
  <2>1. r.skipped # FALSE
    BY <1>9
  <2> QED
    BY <1>4, <1>9, <1>11, <2>1 DEF CopiedInOrder, ReadInOrder
<1>13. r.next \in r.since + 1 .. Len(sent) + 1 /\ r.taken \in 0..Len(r.forwarded)
  BY <1>3, <1>4, <1>7, <1>8, <1>9, <1>10
<1> QED
  BY <1>6, <1>9, <1>12, <1>13, SubscriptionStep

LEMMA ReceiveInv ==
  ASSUME BusInv, NEW s \in Subscribers, Receive(s)
  PROVE  BusInv'
<1>1. PICK q : q = sub[s]
  OBVIOUS
<1>2. PICK oldest : oldest = Oldest(Len(q.forwarded), FilteredCapacity)
  OBVIOUS
<1>3. /\ s \in Subscribed /\ q.taken + 1 <= Len(q.forwarded)
      /\ UNCHANGED <<sent, persisting, history>>
  BY <1>1 DEF Receive
<1>4. /\ q \in Subscription /\ q.next \in q.since + 1 .. Len(sent) + 1
      /\ q.taken \in 0 .. Len(q.forwarded) /\ CopiedInOrder(q, sent) /\ ReadInOrder(q)
  BY <1>1, <1>3, OpenIsSubscription
<1>5. /\ q.filter \in EventFilters /\ q.since \in Nat /\ q.next \in Nat /\ q.open = TRUE
      /\ q.forwarded \in Seq(Nat) /\ q.taken \in Nat /\ q.received \in Seq(Nat)
      /\ q.skipped \in BOOLEAN /\ Len(q.forwarded) \in Nat /\ Len(q.received) \in Nat
      /\ \A a \in 1..Len(q.forwarded) : q.forwarded[a] \in Nat
      /\ \A a \in 1..Len(q.received) : q.received[a] \in Nat
  BY <1>4, SubscriptionParts
<1>6. CASE q.taken + 1 < oldest
  <2>1. PICK r : r = [q EXCEPT !.taken = oldest - 1, !.skipped = TRUE]
    OBVIOUS
  <2>2. sub' = [sub EXCEPT ![s] = r]
    <3>1. sub' = [sub EXCEPT ![s].taken = oldest - 1, ![s].skipped = TRUE]
      BY <1>1, <1>2, <1>6 DEF Receive
    <3> QED
      BY <1>1, <1>4, <2>1, <3>1, BusParts DEF Subscription
  <2>3. oldest \in Nat /\ oldest - 1 \in Nat /\ oldest - 1 <= Len(q.forwarded) /\ q.taken < oldest - 1
    <3>1. FilteredCapacity \in Nat /\ FilteredCapacity # 0
      BY BusBounds
    <3>2. PICK len : len = Len(q.forwarded)
      OBVIOUS
    <3>3. len \in Nat /\ oldest = IF len > FilteredCapacity THEN len - FilteredCapacity + 1 ELSE 1
      BY <1>2, <1>5, <3>2 DEF Oldest
    <3>4. oldest \in Int /\ oldest <= len + 1
      BY <3>1, <3>3
    <3>5. PICK t : t = q.taken
      OBVIOUS
    <3>6. t \in Nat /\ t + 1 < oldest
      BY <1>5, <1>6, <3>5
    <3>7. oldest \in Nat /\ oldest - 1 \in Nat /\ oldest - 1 <= len /\ t < oldest - 1
      BY <3>3, <3>4, <3>6
    <3> QED
      BY <3>2, <3>5, <3>7
  <2>4. /\ r \in Subscription /\ r.since = q.since /\ r.next = q.next
        /\ r.filter = q.filter /\ r.forwarded = q.forwarded /\ r.taken = oldest - 1
        /\ r.received = q.received /\ r.skipped = TRUE
    BY <1>4, <1>5, <2>1, <2>3 DEF Subscription
  <2>5. Wanted(r, sent) = Wanted(q, sent)
    BY <2>4 DEF Wanted
  <2>6. CopiedInOrder(r, sent)
    <3>1. r.skipped # FALSE
      BY <2>4
    <3> QED
      BY <1>4, <2>4, <2>5, <3>1 DEF CopiedInOrder
  <2>7. ReadInOrder(r)
    <3>1. r.skipped # FALSE
      BY <2>4
    <3>2. \A b \in 1..q.taken : b \in 1..(oldest - 1)
      BY <1>5, <2>3
    <3> QED
      BY <1>4, <2>4, <3>1, <3>2 DEF ReadInOrder
  <2>8. r.next \in r.since + 1 .. Len(sent) + 1 /\ r.taken \in 0..Len(r.forwarded)
    BY <1>4, <1>5, <2>3, <2>4
  <2> QED
    BY <1>3, <2>2, <2>4, <2>6, <2>7, <2>8, SubscriptionStep
<1>7. CASE ~(q.taken + 1 < oldest)
  <2>1. PICK n : n = q.taken + 1
    OBVIOUS
  <2>2. n \in 1..Len(q.forwarded) /\ n \in Nat
    BY <1>3, <1>5, <2>1
  <2>3. PICK v : v = q.forwarded[n]
    OBVIOUS
  <2>4. v \in Nat
    BY <1>5, <2>2, <2>3
  <2>5. PICK got : got = Append(q.received, v)
    OBVIOUS
  <2>6. /\ got \in Seq(Nat) /\ Len(got) = Len(q.received) + 1
        /\ \A a \in 1..Len(q.received) : got[a] = q.received[a]
        /\ got[Len(q.received) + 1] = v
    BY <1>5, <2>4, <2>5, AppendProperties
  <2>7. PICK r : r = [q EXCEPT !.taken = n, !.received = got]
    OBVIOUS
  <2>8. sub' = [sub EXCEPT ![s] = r]
    <3>1. sub' = [sub EXCEPT ![s].taken = n, ![s].received = Append(@, v)]
      BY <1>1, <1>2, <1>7, <2>1, <2>3 DEF Receive
    <3> QED
      BY <1>1, <1>4, <2>5, <2>7, <3>1, BusParts DEF Subscription
  <2>9. /\ r \in Subscription /\ r.since = q.since /\ r.next = q.next
        /\ r.filter = q.filter /\ r.forwarded = q.forwarded /\ r.taken = n
        /\ r.received = got /\ r.skipped = q.skipped
    BY <1>4, <1>5, <2>2, <2>6, <2>7 DEF Subscription
  <2>10. CopiedInOrder(r, sent)
    <3>1. Wanted(r, sent) = Wanted(q, sent)
      BY <2>9 DEF Wanted
    <3> QED
      BY <1>4, <2>9, <3>1 DEF CopiedInOrder
  <2>11. \A a \in 1..Len(got) : a \in 1..Len(q.received) \/ a = Len(q.received) + 1
    BY <1>5, <2>6
  <2>12. /\ \A b \in 1..q.taken : b \in 1..n /\ b \in 1..Len(q.forwarded) /\ b < n
         /\ n \in 1..n
    BY <1>5, <2>1, <2>2
  <2>13. \A a \in 1..Len(q.received) : q.received[a] < v
    <3> SUFFICES ASSUME NEW a \in 1..Len(q.received) PROVE q.received[a] < v
      OBVIOUS
    <3>1. PICK b \in 1..q.taken : q.received[a] = q.forwarded[b]
      BY <1>4 DEF ReadInOrder
    <3>2. q.forwarded[b] < q.forwarded[n]
      BY <1>4, <2>2, <2>12 DEF CopiedInOrder, Ascending
    <3> QED
      BY <2>3, <3>1, <3>2
  <2>14. Ascending(got)
    <3> SUFFICES ASSUME NEW a \in 1..Len(got), NEW b \in 1..Len(got), a < b
                 PROVE  got[a] < got[b]
      BY DEF Ascending
    <3>1. a \in 1..Len(q.received)
      BY <1>5, <2>6, <2>11
    <3>2. CASE b \in 1..Len(q.received)
      BY <1>4, <2>6, <3>1, <3>2 DEF ReadInOrder, Ascending
    <3>3. CASE b = Len(q.received) + 1
      BY <2>6, <2>13, <3>1, <3>3
    <3> QED
      BY <2>11, <3>2, <3>3
  <2>15. ASSUME NEW a \in 1..Len(got)
         PROVE  \E b \in 1..n : got[a] = q.forwarded[b]
    <3>1. CASE a \in 1..Len(q.received)
      <4>1. PICK b \in 1..q.taken : q.received[a] = q.forwarded[b]
        BY <1>4, <3>1 DEF ReadInOrder
      <4> QED
        BY <2>6, <2>12, <3>1, <4>1
    <3>2. CASE a = Len(q.received) + 1
      BY <2>3, <2>6, <2>12, <3>2
    <3> QED
      BY <2>11, <3>1, <3>2
  <2>16. ASSUME q.skipped = FALSE
         PROVE  Len(got) = n /\ \A a \in 1..Len(got) : got[a] = q.forwarded[a]
    <3>1. Len(q.received) = q.taken /\ \A a \in 1..Len(q.received) : q.received[a] = q.forwarded[a]
      BY <1>4, <2>16 DEF ReadInOrder
    <3>2. Len(got) = n
      BY <2>1, <2>6, <3>1
    <3>3. ASSUME NEW a \in 1..Len(got) PROVE got[a] = q.forwarded[a]
      <4>1. CASE a \in 1..Len(q.received)
        BY <2>6, <3>1, <4>1
      <4>2. CASE a = Len(q.received) + 1
        BY <2>1, <2>3, <2>6, <3>1, <4>2
      <4> QED
        BY <2>11, <4>1, <4>2
    <3> QED
      BY <3>2, <3>3
  <2>17. ReadInOrder(r)
    <3>1. Ascending(r.received)
      BY <2>9, <2>14
    <3>2. \A a \in 1..Len(r.received) : \E b \in 1..r.taken : r.received[a] = r.forwarded[b]
      BY <2>9, <2>15
    <3>3. r.skipped = FALSE =>
            /\ Len(r.received) = r.taken
            /\ \A a \in 1..Len(r.received) : r.received[a] = r.forwarded[a]
      BY <2>9, <2>16
    <3> QED
      BY <3>1, <3>2, <3>3 DEF ReadInOrder
  <2>18. r.next \in r.since + 1 .. Len(sent) + 1 /\ r.taken \in 0..Len(r.forwarded)
    BY <1>4, <1>5, <2>2, <2>9
  <2> QED
    BY <1>3, <2>8, <2>9, <2>10, <2>17, <2>18, SubscriptionStep
<1> QED
  BY <1>6, <1>7

LEMMA PublishInv ==
  ASSUME BusInv, NEW e \in Events, Publish(e)
  PROVE  BusInv'
<1>1. /\ sent' = Append(sent, e) /\ persisting' = persisting \cup {Len(sent) + 1}
      /\ history' = history /\ sub' = sub
  BY DEF Publish
<1>2. /\ sent' \in Seq(Events) /\ Len(sent') = Len(sent) + 1
      /\ \A i \in 1..Len(sent) : sent'[i] = sent[i]
      /\ DOMAIN sent' = 1..(Len(sent) + 1)
  BY <1>1, BusParts, AppendProperties
<1>3. /\ Len(sent) \in Nat /\ DOMAIN sent' = DOMAIN sent \cup {Len(sent) + 1}
      /\ Len(sent) + 1 \notin DOMAIN sent /\ DOMAIN sent \subseteq DOMAIN sent'
  BY <1>2, BusParts
<1>4. history' \in Seq(DOMAIN sent')
  <2>1. \A i \in 1..Len(history) : history[i] \in DOMAIN sent'
    BY <1>3, BusParts, ElementOfSeq
  <2>2. history = [i \in 1..Len(history) |-> history[i]]
    BY BusParts, LenProperties
  <2> QED
    BY <1>1, <2>1, <2>2, BusParts, SeqDef
<1>5. ASSUME NEW t \in Subscribed'
      PROVE  /\ sub'[t].next \in sub'[t].since + 1 .. Len(sent') + 1
             /\ sub'[t].taken \in 0 .. Len(sub'[t].forwarded)
             /\ CopiedInOrder(sub'[t], sent') /\ ReadInOrder(sub'[t])
  <2>1. PICK r : r = sub[t]
    OBVIOUS
  <2>2. t \in Subscribed /\ sub'[t] = r
    BY <1>1, <2>1 DEF Subscribed
  <2>3. /\ r \in Subscription /\ r.next \in r.since + 1 .. Len(sent) + 1
        /\ r.taken \in 0 .. Len(r.forwarded) /\ CopiedInOrder(r, sent) /\ ReadInOrder(r)
    BY <2>1, <2>2, OpenIsSubscription
  <2>4. r.since \in Nat /\ r.next \in Nat
    BY <2>3, SubscriptionParts
  <2>5. \A i \in r.since + 1 .. r.next - 1 : i \in 1..Len(sent)
    BY <1>3, <2>3, <2>4
  <2>6. Wanted(r, sent') = Wanted(r, sent)
    BY <1>2, <2>5 DEF Wanted
  <2>7. CopiedInOrder(r, sent')
    BY <2>3, <2>6 DEF CopiedInOrder
  <2>8. r.next \in r.since + 1 .. Len(sent') + 1
    BY <1>2, <1>3, <2>3, <2>4
  <2> QED
    BY <2>2, <2>3, <2>7, <2>8
<1>6. BusTypeOK'
  <2>1. persisting' \subseteq DOMAIN sent'
    BY <1>1, <1>3, BusParts
  <2>2. sub' \in [Subscribers -> {NoSub} \cup Subscription]
    BY <1>1, BusParts
  <2> QED
    BY <1>2, <1>4, <1>5, <2>1, <2>2 DEF BusTypeOK
<1>7. EventsAreKept'
  <2>1. ToSet(history) \cup persisting = DOMAIN sent
        /\ Len(history) + Cardinality(persisting) = Len(sent)
    BY DEF BusInv, EventsAreKept
  <2>2. Len(sent) + 1 \notin persisting
    BY <1>3, <2>1
  <2>3. Cardinality(persisting') = Cardinality(persisting) + 1
    BY <1>1, <2>2, BusParts, FS_AddElement
  <2>4. ToSet(history') \cup persisting' = DOMAIN sent'
    BY <1>1, <1>3, <2>1
  <2>5. Len(history') + Cardinality(persisting') = Len(sent')
    <3>1. Len(history) \in Nat /\ Cardinality(persisting) \in Nat
      BY BusParts
    <3> QED
      BY <1>1, <1>2, <2>1, <2>3, <3>1
  <2> QED
    BY <2>4, <2>5 DEF EventsAreKept
<1> QED
  BY <1>5, <1>6, <1>7 DEF BusInv

LEMMA PersistInv ==
  ASSUME BusInv, NEW i \in persisting, Persist(i)
  PROVE  BusInv'
<1>1. /\ history' = Append(history, i) /\ persisting' = persisting \ {i}
      /\ sent' = sent /\ sub' = sub
  BY DEF Persist
<1>2. i \in 1..Len(sent)
  BY BusParts
<1>3. /\ history' \in Seq(1..Len(sent)) /\ Len(history') = Len(history) + 1
      /\ \A k \in 1..Len(history) : history'[k] = history[k]
      /\ history'[Len(history) + 1] = i
      /\ DOMAIN history' = 1..(Len(history) + 1)
  BY <1>1, <1>2, BusParts, AppendProperties
<1>4. ToSet(history') = ToSet(history) \cup {i}
  <2>1. Len(history) \in Nat /\ DOMAIN history = 1..Len(history)
    BY BusParts
  <2>2. DOMAIN history' = DOMAIN history \cup {Len(history) + 1}
    BY <1>3, <2>1
  <2> QED
    BY <1>3, <2>1, <2>2 DEF ToSet
<1>5. ASSUME NEW t \in Subscribed'
      PROVE  /\ sub'[t].next \in sub'[t].since + 1 .. Len(sent') + 1
             /\ sub'[t].taken \in 0 .. Len(sub'[t].forwarded)
             /\ CopiedInOrder(sub'[t], sent') /\ ReadInOrder(sub'[t])
  <2>1. t \in Subscribed
    BY <1>1 DEF Subscribed
  <2> QED
    BY <1>1, <2>1, OpenIsSubscription
<1>6. BusTypeOK'
  BY <1>1, <1>3, <1>5, BusParts DEF BusTypeOK
<1>7. EventsAreKept'
  <2>1. ToSet(history) \cup persisting = DOMAIN sent
        /\ Len(history) + Cardinality(persisting) = Len(sent)
    BY DEF BusInv, EventsAreKept
  <2>2. Cardinality(persisting') = Cardinality(persisting) - 1
    BY <1>1, BusParts, FS_RemoveElement
  <2>3. ToSet(history') \cup persisting' = DOMAIN sent'
    BY <1>1, <1>4, <2>1
  <2>4. Len(history') + Cardinality(persisting') = Len(sent')
    <3>1. Len(history) \in Nat /\ Cardinality(persisting) \in Nat
      BY BusParts
    <3> QED
      BY <1>1, <1>3, <2>1, <2>2, <3>1
  <2> QED
    BY <2>3, <2>4 DEF EventsAreKept
<1> QED
  BY <1>5, <1>6, <1>7 DEF BusInv

LEMMA BusStepInv ==
  ASSUME BusInv, [BusNext]_busVars
  PROVE  BusInv'
<1>1. CASE UNCHANGED busVars
  BY <1>1 DEF busVars, BusInv, BusTypeOK, Subscribed, EventsAreKept
<1>2. CASE BusNext
  <2>1. ASSUME NEW e \in Events, Publish(e) PROVE BusInv'
    BY <2>1, PublishInv
  <2>2. ASSUME NEW i \in persisting, Persist(i) PROVE BusInv'
    BY <2>2, PersistInv
  <2>3. ASSUME NEW s \in Subscribers,
               (\E f \in EventFilters : SubscribeFiltered(s, f))
                 \/ Forward(s) \/ ForwardLags(s) \/ Receive(s)
        PROVE  BusInv'
    BY <2>3, SubscribeInv, ForwardInv, ForwardLagsInv, ReceiveInv
  <2> QED
    BY <1>2, <2>1, <2>2, <2>3 DEF BusNext
<1> QED
  BY <1>1, <1>2

\* The bus, its subscriptions with their copies and its history fit together,
\* for any events, filters, subscribers and sizes of the channels.
THEOREM BusInvariant == BusSpec => []BusInv
<1>1. BusInit => BusInv
  BY BusInitInv
<1>2. BusInv /\ [BusNext]_busVars => BusInv'
  BY BusStepInv
<1> QED
  BY <1>1, <1>2, PTL DEF BusSpec

LEMMA NewestOf ==
  ASSUME NEW S, NEW list \in Seq(S), NEW n \in Nat
  PROVE  LET loaded == SubSeq(Reverse(list), 1, Min({n, Len(list)}))
         IN  /\ DOMAIN loaded = 1..Len(loaded) /\ Len(loaded) \in Nat
             /\ \A k \in DOMAIN loaded : \E i \in 1..Len(list) : loaded[k] = list[i]
             /\ Len(loaded) < n => \A i \in 1..Len(list) : \E k \in DOMAIN loaded : loaded[k] = list[i]
<1> DEFINE len == Len(list)
           m == Min({n, len})
           back == Reverse(list)
           loaded == SubSeq(back, 1, m)
<1>1. len \in Nat /\ DOMAIN list = 1..len
  BY LenProperties
<1>2. m \in {n, len} /\ m \in Nat
  <2>1. {n, len} \in SUBSET Nat /\ {n, len} # {}
    BY <1>1
  <2> QED
    BY <2>1, FirstPlace
<1>3. m <= len /\ (m < n => m = len)
  <2>1. \E x \in {n, len} : \A y \in {n, len} : x =< y
    BY <1>1
  <2>2. \A y \in {n, len} : m =< y
    BY <2>1 DEF Min
  <2> QED
    BY <1>1, <1>2, <2>2
<1>4. back = [i \in 1..len |-> list[(len - i) + 1]]
  BY DEF Reverse
<1> HIDE DEF len, m, back
<1>5. \A i \in 1..len : back[i] = list[(len - i) + 1] /\ (len - i) + 1 \in 1..len
  BY <1>1, <1>4
<1>6. back \in Seq(S) /\ Len(back) = len
  <2>1. \A i \in 1..len : back[i] \in S
    BY <1>1, <1>5, ElementOfSeq DEF len
  <2>2. back \in [1..len -> S]
    BY <1>4, <2>1
  <2> QED
    BY <1>1, <2>2, SeqDef, LenProperties
<1>7. /\ Len(loaded) = m /\ DOMAIN loaded = 1..m
      /\ \A k \in 1..m : loaded[k] = back[k]
  BY <1>1, <1>2, <1>3, <1>6, SubSeqProperties
<1> HIDE DEF loaded
<1>8. ASSUME NEW k \in DOMAIN loaded PROVE \E i \in 1..len : loaded[k] = list[i]
  <2>1. k \in 1..m /\ k \in 1..len
    BY <1>1, <1>2, <1>3, <1>7
  <2> QED
    BY <1>5, <1>7, <2>1
<1>9. ASSUME Len(loaded) < n, NEW i \in 1..len
      PROVE  \E k \in DOMAIN loaded : loaded[k] = list[i]
  <2>1. m = len
    BY <1>3, <1>7, <1>9
  <2>2. PICK k : k = (len - i) + 1
    OBVIOUS
  <2>3. k \in 1..len /\ (len - k) + 1 = i
    BY <1>1, <2>2
  <2> QED
    BY <1>5, <1>7, <2>1, <2>3
<1> QED
  BY <1>2, <1>7, <1>8, <1>9 DEF len, back, m, loaded

\* What was received of a filtered subscription, and what the history answers.
LEMMA BusKeepsPromises == BusInv => FilteredDelivery /\ HistoryComplete
<1> SUFFICES ASSUME BusInv PROVE FilteredDelivery /\ HistoryComplete
  OBVIOUS
<1>1. FilteredDelivery
  <2> SUFFICES ASSUME NEW s \in Subscribed
               PROVE  LET got    == sub[s].received
                          wanted == Wanted(sub[s], sent)
                      IN  /\ \A a, b \in DOMAIN got : a < b => got[a] < got[b]
                          /\ ToSet(got) \subseteq wanted
                          /\ ~sub[s].skipped =>
                               \A i \in wanted, b \in DOMAIN got :
                                 i <= got[b] => i \in ToSet(got)
                          /\ ~sub[s].skipped /\ sub[s].taken = Len(sub[s].forwarded) =>
                               ToSet(got) = wanted
    BY DEF FilteredDelivery
  <2>1. PICK r : r = sub[s]
    OBVIOUS
  <2>2. /\ r \in Subscription /\ r.next \in r.since + 1 .. Len(sent) + 1
        /\ r.taken \in 0 .. Len(r.forwarded) /\ CopiedInOrder(r, sent) /\ ReadInOrder(r)
    BY <2>1, OpenIsSubscription
  <2>3. PICK got, copied, wanted : /\ got = r.received /\ copied = r.forwarded
                                   /\ wanted = Wanted(r, sent)
    OBVIOUS
  <2>4. /\ Len(copied) \in Nat /\ DOMAIN got = 1..Len(got) /\ Len(got) \in Nat
        /\ \A a \in 1..Len(copied) : copied[a] \in Nat
        /\ r.taken \in Nat /\ r.taken <= Len(copied) /\ r.skipped \in BOOLEAN
    <3>1. /\ Len(r.forwarded) \in Nat /\ DOMAIN r.received = 1..Len(r.received)
          /\ Len(r.received) \in Nat /\ \A a \in 1..Len(r.forwarded) : r.forwarded[a] \in Nat
          /\ r.taken \in Nat /\ r.skipped \in BOOLEAN
      BY <2>2, SubscriptionParts
    <3>2. r.taken <= Len(r.forwarded)
      BY <2>2, <3>1
    <3> QED
      BY <2>3, <3>1, <3>2
  <2>5. /\ \A a, b \in 1..Len(copied) : a < b => copied[a] < copied[b]
        /\ \A a \in 1..Len(copied) : copied[a] \in wanted
        /\ r.skipped = FALSE => \A i \in wanted : \E a \in 1..Len(copied) : copied[a] = i
    BY <2>2, <2>3 DEF CopiedInOrder, Ascending
  <2>6. /\ \A a, b \in 1..Len(got) : a < b => got[a] < got[b]
        /\ \A a \in 1..Len(got) : \E b \in 1..r.taken : got[a] = copied[b]
        /\ r.skipped = FALSE =>
             Len(got) = r.taken /\ \A a \in 1..Len(got) : got[a] = copied[a]
    BY <2>2, <2>3 DEF ReadInOrder, Ascending
  <2>7. ToSet(got) = {got[a] : a \in 1..Len(got)}
    BY <2>4 DEF ToSet
  <2>8. \A b \in 1..r.taken : b \in 1..Len(copied)
    BY <2>4
  <2>9. ToSet(got) \subseteq wanted
    BY <2>5, <2>6, <2>7, <2>8
  <2>10. ASSUME r.skipped = FALSE, NEW i \in wanted, NEW b \in 1..Len(got), i <= got[b]
         PROVE  i \in ToSet(got)
    <3>1. PICK a \in 1..Len(copied) : copied[a] = i
      BY <2>5, <2>10
    <3>2. got[b] = copied[b] /\ b \in 1..Len(copied)
      BY <2>6, <2>8, <2>10
    <3>3. ~(b < a)
      BY <2>4, <2>5, <2>10, <3>1, <3>2
    <3>4. a \in 1..Len(got)
      BY <2>4, <3>3
    <3> QED
      BY <2>6, <2>7, <2>10, <3>1, <3>4
  <2>11. ASSUME r.skipped = FALSE, r.taken = Len(copied), NEW i \in wanted
         PROVE  i \in ToSet(got)
    <3>1. PICK a \in 1..Len(copied) : copied[a] = i
      BY <2>5, <2>11
    <3> QED
      BY <2>6, <2>7, <2>11, <3>1
  <2>12. ~r.skipped => r.skipped = FALSE
    BY <2>4
  <2>13. ~r.skipped /\ r.taken = Len(copied) => ToSet(got) = wanted
    BY <2>9, <2>11, <2>12
  <2> QED
    BY <2>1, <2>3, <2>4, <2>6, <2>9, <2>10, <2>12, <2>13
<1>2. ASSUME NEW f \in EventFilters, NEW limit \in 0 .. MaxPublished
      PROVE  LET loaded == LoadHistory(f, limit)
             IN  /\ \A k \in DOMAIN loaded : Matches(f, sent[loaded[k]])
                 /\ Len(loaded) < limit =>
                      ToSet(loaded) = {i \in ToSet(history) : Matches(f, sent[i])}
  <2>1. PICK keep : keep = {k \in DOMAIN history : Matches(f, sent[history[k]])}
    OBVIOUS
  <2>2. PICK list : list = Retain(history, keep)
    OBVIOUS
  <2>3. /\ history \in Seq(1..Len(sent)) /\ DOMAIN history = 1..Len(history)
        /\ keep \in SUBSET (1..Len(history))
    BY <2>1, BusParts
  <2>4. /\ list \in Seq(1..Len(sent)) /\ TakenFrom(list, history, keep)
        /\ TakesAll(list, history, keep)
    BY <2>2, <2>3, RetainedFacts
  <2>5. \A a \in 1..Len(list) : \E k \in keep : list[a] = history[k]
    BY <2>4 DEF TakenFrom
  <2>6. \A k \in keep : \E a \in 1..Len(list) : list[a] = history[k]
    BY <2>4 DEF TakesAll
  <2>7. limit \in Nat
    BY BusBounds
  <2>8. PICK loaded : loaded = LoadHistory(f, limit)
    OBVIOUS
  <2>9. loaded = SubSeq(Reverse(list), 1, Min({limit, Len(list)}))
    <3>1. Len(Reverse(list)) = Len(list)
      <4>1. Len(list) \in Nat /\ Reverse(list) = [i \in 1..Len(list) |-> list[(Len(list) - i) + 1]]
        BY <2>4, LenProperties DEF Reverse
      <4> QED
        BY <4>1
    <3> QED
      BY <2>1, <2>2, <2>8, <3>1 DEF LoadHistory
  <2>10. /\ DOMAIN loaded = 1..Len(loaded) /\ Len(loaded) \in Nat
         /\ \A k \in DOMAIN loaded : \E a \in 1..Len(list) : loaded[k] = list[a]
         /\ Len(loaded) < limit =>
              \A a \in 1..Len(list) : \E k \in DOMAIN loaded : loaded[k] = list[a]
    BY <2>4, <2>7, <2>9, NewestOf
  <2>11. \A k \in DOMAIN loaded : \E j \in keep : loaded[k] = history[j]
    BY <2>5, <2>10
  <2>12. \A j \in keep : history[j] \in ToSet(history) /\ Matches(f, sent[history[j]])
    BY <2>1 DEF ToSet
  <2>13. ASSUME Len(loaded) < limit, NEW i \in ToSet(history), Matches(f, sent[i])
         PROVE  i \in ToSet(loaded)
    <3>1. PICK j \in DOMAIN history : history[j] = i
      BY <2>13 DEF ToSet
    <3>2. j \in keep
      BY <2>1, <2>13, <3>1
    <3>3. PICK k \in DOMAIN loaded : loaded[k] = i
      BY <2>6, <2>10, <2>13, <3>1, <3>2
    <3> QED
      BY <3>3 DEF ToSet
  <2>14. \A i \in ToSet(loaded) : i \in ToSet(history) /\ Matches(f, sent[i])
    BY <2>11, <2>12 DEF ToSet
  <2>15. \A k \in DOMAIN loaded : Matches(f, sent[loaded[k]])
    BY <2>11, <2>12
  <2> QED
    BY <2>8, <2>13, <2>14, <2>15
<1>3. HistoryComplete
  BY <1>2 DEF HistoryComplete, BusInv, EventsAreKept
<1> QED
  BY <1>1, <1>3

\* A filtered subscriber gets events its filter wants, once each and in the order
\* of publication, and all of them if it was never told it lags; every event that
\* was published is kept once or has the task that will keep it, in the order of
\* those tasks, and the history answers with those that match (yma-events,
\* subscribe_filtered, publish and MemoryPersistence), for any events, filters
\* and capacities.
THEOREM EventsAreDelivered == BusSpec => []BusDelivers
<1>1. BusInv => BusDelivers
  BY BusKeepsPromises DEF BusDelivers
<1> QED
  BY <1>1, BusInvariant, PTL

================================================================================
