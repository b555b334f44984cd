------------------------------- MODULE Scheduler -------------------------------
(***************************************************************************)
(* TaskScheduler of yma-scheduler: the table of tasks, a DashMap, and the  *)
(* jobs given to tokio_cron_scheduler, which runs each in a task of its    *)
(* own whenever its schedule comes round, the previous run over or not.    *)
(* The schedules are left out: a job of a started scheduler may fire at    *)
(* any time.                                                               *)
(***************************************************************************)
EXTENDS Naturals

CONSTANTS
  CronTasks, OnceTasks,   (* uuids of the tasks of each kind               *)
  Runs                    (* the executions that can be under way at once  *)

ASSUME TaskIdsAreUuids ==
  "idle" \notin CronTasks \cup OnceTasks /\ CronTasks \cap OnceTasks = {}

TaskIds == CronTasks \cup OnceTasks
TaskStatus == {"Pending", "Running", "Paused", "Failed"}

VARIABLES
  tasks,                  (* each task's status in the table, or "absent"  *)
  job,                    (* "unused", "adding", "refused" or "added"      *)
  started,                (* start() was called                            *)
  runOf,                  (* runOf[r]: the task r executes, or "idle"      *)
  stopping,               (* the entries stop() has yet to visit           *)
  panicked                (* history: tasks a run of which has panicked    *)

schedulerVars == <<tasks, job, started, runOf, stopping, panicked>>

SchedulerInit ==
  /\ tasks = [id \in TaskIds |-> "absent"]
  /\ job = [id \in TaskIds |-> "unused"]
  /\ started = FALSE
  /\ runOf = [r \in Runs |-> "idle"]
  /\ stopping = {}
  /\ panicked = {}

\* get_mut, then the assignment: nothing for an id that is not in the table.
SetStatus(id, status) ==
  [tasks EXCEPT ![id] = IF @ = "absent" THEN @ ELSE status]

-----------------------------------------------------------------------------
(***************************************************************************)
(* register_cron_task, register_once_task, and register_interval_task (a   *)
(* cron task).  The entry comes first; it stays when the expression does   *)
(* not parse or the scheduler does not take the job.                       *)
(***************************************************************************)
RegisterTask(id) ==
  /\ job[id] = "unused"
  /\ tasks' = [tasks EXCEPT ![id] = "Pending"]
  /\ job' = [job EXCEPT ![id] = "adding"]
  /\ UNCHANGED <<started, runOf, stopping, panicked>>

AddJob(id) ==
  /\ job[id] = "adding"
  /\ \E outcome \in {"added", "refused"} : job' = [job EXCEPT ![id] = outcome]
  /\ UNCHANGED <<tasks, started, runOf, stopping, panicked>>

\* An interval is rounded down to whole minutes, and up to the first one.
IntervalMinutes(secs) == IF secs < 60 THEN 1 ELSE secs \div 60

StartScheduler ==
  /\ started' = TRUE
  /\ UNCHANGED <<tasks, job, runOf, stopping, panicked>>

-----------------------------------------------------------------------------
(***************************************************************************)
(* A run of a job.  A panic while the handler builds its future is caught; *)
(* one in the future itself ends the run where it is.                      *)
(***************************************************************************)
Fire(r, id) ==
  /\ started /\ job[id] = "added" /\ runOf[r] = "idle"
  /\ runOf' = [runOf EXCEPT ![r] = id]
  /\ tasks' = SetStatus(id, "Running")
  /\ UNCHANGED <<job, started, stopping, panicked>>

\* Mutant of RunEnds: the status is reset without looking at it.
RunEndsBlindly(r) ==
  /\ runOf[r] \in TaskIds
  /\ tasks' = SetStatus(runOf[r],
                        IF runOf[r] \in CronTasks THEN "Pending" ELSE "Failed")
  /\ runOf' = [runOf EXCEPT ![r] = "idle"]
  /\ UNCHANGED <<job, started, stopping, panicked>>

\* Mutant of RunEnds: only the status of a once task is reset.
RunEndsUnreset(r) ==
  /\ runOf[r] \in TaskIds
  /\ tasks' = IF runOf[r] \in OnceTasks THEN SetStatus(runOf[r], "Failed") ELSE tasks
  /\ runOf' = [runOf EXCEPT ![r] = "idle"]
  /\ UNCHANGED <<job, started, stopping, panicked>>

RunEnds(r) ==
  /\ runOf[r] \in TaskIds
  /\ \/ /\ runOf[r] \in CronTasks
        /\ tasks' = IF tasks[runOf[r]] = "Running"
                    THEN SetStatus(runOf[r], "Pending") ELSE tasks
     \/ /\ runOf[r] \in OnceTasks
        /\ tasks' = SetStatus(runOf[r], "Failed")
  /\ runOf' = [runOf EXCEPT ![r] = "idle"]
  /\ UNCHANGED <<job, started, stopping, panicked>>

RunPanics(r) ==
  /\ runOf[r] \in TaskIds
  /\ runOf' = [runOf EXCEPT ![r] = "idle"]
  /\ panicked' = panicked \cup {runOf[r]}
  /\ UNCHANGED <<tasks, job, started, stopping>>

-----------------------------------------------------------------------------
(***************************************************************************)
(* stop visits the entries one after the other and labels them Paused;     *)
(* neither it nor remove_task tells the scheduler, so the jobs go on       *)
(* firing, and a task that was paused runs again and reads Running again.  *)
(***************************************************************************)
Stop ==
  /\ stopping = {}
  /\ stopping' = {id \in TaskIds : tasks[id] # "absent"}
  /\ UNCHANGED <<tasks, job, started, runOf, panicked>>

StopEntry(id) ==
  /\ id \in stopping
  /\ tasks' = SetStatus(id, "Paused")
  /\ stopping' = stopping \ {id}
  /\ UNCHANGED <<job, started, runOf, panicked>>

RemoveTask(id) ==
  /\ tasks[id] # "absent"
  /\ tasks' = [tasks EXCEPT ![id] = "absent"]
  /\ UNCHANGED <<job, started, runOf, stopping, panicked>>

SchedulerNext ==
  \/ StartScheduler
  \/ Stop
  \/ \E id \in TaskIds : \/ RegisterTask(id)
                         \/ AddJob(id)
                         \/ StopEntry(id)
                         \/ RemoveTask(id)
                         \/ \E r \in Runs : Fire(r, id)
  \/ \E r \in Runs : RunEnds(r) \/ RunPanics(r)

SchedulerSpec == SchedulerInit /\ [][SchedulerNext]_schedulerVars

-----------------------------------------------------------------------------
SchedulerTypeOK ==
  /\ tasks \in [TaskIds -> TaskStatus \cup {"absent"}]
  /\ job \in [TaskIds -> {"unused", "adding", "refused", "added"}]
  /\ started \in BOOLEAN
  /\ runOf \in [Runs -> TaskIds \cup {"idle"}]
  /\ stopping \subseteq TaskIds
  /\ panicked \subseteq TaskIds

\* A task is not in the table before its job is to be added.
UnusedIsAbsent == \A id \in TaskIds : job[id] = "unused" => tasks[id] = "absent"

\* A task that reads Running is being run, unless a run of it panicked in its
\* future, however its runs overlap each other, stop and remove_task.
RunningIsRun ==
  \A id \in TaskIds : tasks[id] = "Running" =>
    id \in panicked \/ \E r \in Runs : runOf[r] = id

\* stop does not stop a task: the next firing takes it out of Paused, and the end
\* of a run of a once task marks it Failed.  But nothing else resumes one: however
\* runs overlap, the end of a cron run that was under way when stop came does not
\* put the task back to Pending, only a firing makes a task read Running, and a
\* task that was removed does not come back.
OnlyFiringResumes ==
  [][\A id \in TaskIds :
       /\ tasks[id] = "Paused" /\ tasks'[id] = "Pending" => FALSE
       /\ tasks[id] = "absent" /\ tasks'[id] # "absent" => job[id] = "unused"
       /\ tasks[id] \notin {"Running", "absent"} /\ tasks'[id] = "Running" =>
            \E r \in Runs : runOf[r] = "idle" /\ runOf'[r] = id]_schedulerVars
=============================================================================
