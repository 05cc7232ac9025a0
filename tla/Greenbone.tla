----------------------------- MODULE Greenbone -----------------------------
(***************************************************************************)
(* One OpenVAS run: openVASRunner.Run (scanner/openvas.go) and its client  *)
(* of the Greenbone daemon gvmd (scanner/gmp.go).                          *)
(*                                                                         *)
(* The scan is a task in gvmd, which the run creates, starts, polls and    *)
(* exports over one authenticated connection.  A call that loses its       *)
(* connection is made once more; gvmd may have served it the first time.   *)
(* A run that fails or is cancelled stops its task on a connection of its  *)
(* own.                                                                    *)
(***************************************************************************)
EXTENDS Naturals

CONSTANT NoTask    \* no task, and a task that is not there

ASSUME TaskAssumption ==
    NoTask \notin {1, 2} /\ NoTask \notin {"new", "running", "done", "stopped"}

VARIABLES stage,         \* where the run is
          tries,         \* attempt of call
          gmp,           \* conn # nil
          taskID, startedTaskID,
          scanContext,   \* "live", "cancelled" (the session's) or "expired" (OpenVASTimeout)
          result,        \* status of the run, and whether it says the task may still run
          gvmd,          \* the tasks in the daemon
          unanswered     \* history: the tasks whose start_task had an effect and no answer

gvmVars == <<stage, tries, gmp, taskID, startedTaskID, scanContext, result, gvmd, unanswered>>

\* create_task is sent at most twice.
Task == {1, 2}

Calls == {"config", "scanner", "ports", "target", "task", "start", "poll", "export"}

GreenboneInit ==
    /\ stage = "new" /\ tries = 0 /\ gmp = FALSE
    /\ taskID = NoTask /\ startedTaskID = NoTask
    /\ scanContext = "live"
    /\ result = [status |-> "running", warned |-> FALSE]
    /\ gvmd = [t \in Task |-> NoTask]
    /\ unanswered = {}

remote == <<gvmd, unanswered>>

-----------------------------------------------------------------------------
(* gvmd                                                                     *)

\* What serving a call does: only creating and starting the task change anything here.
Served(call) ==
    CASE call = "task" /\ gvmd[1] = NoTask -> [gvmd EXCEPT ![1] = "new"]
      [] call = "task" /\ gvmd[1] # NoTask -> [gvmd EXCEPT ![2] = "new"]
      [] call = "start"                  -> [gvmd EXCEPT ![taskID] = "running"]
      [] OTHER                           -> gvmd

\* A task that has been started is not started again.
ServesCall(call) == call = "start" => gvmd[taskID] = "new"

\* A task ends by itself, or somebody else stops it.
RemoteTaskEnds == \E t \in Task :
    /\ gvmd[t] = "running"
    /\ gvmd' \in {[gvmd EXCEPT ![t] = "done"], [gvmd EXCEPT ![t] = "stopped"]}
    /\ UNCHANGED <<stage, tries, gmp, taskID, startedTaskID, scanContext, result, unanswered>>

\* The session is paused, stopped or timed out, or the time of the run is over.
ContextEnds ==
    /\ stage \notin {"new", "ended"} /\ scanContext # "cancelled"
    /\ scanContext' \in {"cancelled", "expired"} \ {scanContext}
    /\ UNCHANGED <<stage, tries, gmp, taskID, startedTaskID, result, remote>>

-----------------------------------------------------------------------------
(* call                                                                     *)

Refuse == /\ stage = "new"
          /\ stage' = "ended" /\ result' = [result EXCEPT !.status = "failed"]
          /\ UNCHANGED <<tries, gmp, taskID, startedTaskID, scanContext, remote>>

BeginScan == /\ stage = "new"
         /\ stage' = "config"
         /\ UNCHANGED <<tries, gmp, taskID, startedTaskID, scanContext, result, remote>>

\* dialGMP and authenticate; a failure of theirs is not retried.
Dial ==
    /\ stage \in Calls /\ ~ gmp
    /\ \/ scanContext = "live" /\ gmp' = TRUE /\ UNCHANGED stage
       \/ stage' = "fail" /\ UNCHANGED gmp
    /\ UNCHANGED <<tries, taskID, startedTaskID, scanContext, result, remote>>

\* Approved ports make the port list of the feed unnecessary; an invalid one ends the run.
Following(call) ==
    CASE call = "config"  -> {"scanner"}
      [] call = "scanner" -> {"ports", "target", "fail"}
      [] call = "ports"   -> {"target"}
      [] call = "target"  -> {"task"}
      [] call = "task"    -> {"start"}
      [] call = "start"   -> {"poll"}
      [] call = "export"  -> {"artifact"}

NewTask == IF gvmd[1] = NoTask THEN 1 ELSE 2

\* The call is served and answered. An exec on a context that has ended may still be.
Answered ==
    /\ stage \in Calls \ {"poll"} /\ gmp /\ ServesCall(stage)
    /\ gvmd' = Served(stage)
    /\ stage' \in Following(stage)
    /\ tries' = 0
    /\ taskID' = IF stage = "task" THEN NewTask ELSE taskID
    /\ startedTaskID' = IF stage = "start" THEN taskID ELSE startedTaskID
    /\ UNCHANGED <<gmp, scanContext, result, unanswered>>

\* gmpStatusError, or the answer lacks what was asked for.
Rejected ==
    /\ stage \in Calls /\ gmp
    /\ stage' = "fail"
    /\ UNCHANGED <<tries, gmp, taskID, startedTaskID, scanContext, result, remote>>

Again == tries = 0 /\ scanContext = "live"

\* The connection breaks or the call takes too long, served or not; it is made once more while
\* its context lasts.
Lost ==
    /\ stage \in Calls /\ gmp
    /\ gmp' = FALSE
    /\ \/ UNCHANGED remote
       \/ /\ ServesCall(stage)
          /\ gvmd' = Served(stage)
          /\ unanswered' = IF stage = "start" THEN unanswered \cup {taskID} ELSE unanswered
    /\ \/ Again /\ tries' = tries + 1 /\ UNCHANGED stage
       \/ stage' = "fail" /\ UNCHANGED tries
    /\ UNCHANGED <<taskID, startedTaskID, scanContext, result>>

-----------------------------------------------------------------------------
(* The poll loop                                                            *)

\* The task is done (the report may have no ID), was stopped in gvmd, or made no progress for
\* openVASIdleTimeout; otherwise the loop waits.
Polled ==
    /\ stage = "poll" /\ gmp
    /\ tries' = 0
    /\ startedTaskID' = IF gvmd[taskID] \in {"done", "stopped"} THEN NoTask ELSE startedTaskID
    /\ stage' \in CASE gvmd[taskID] = "done"    -> {"export", "fail"}
                    [] gvmd[taskID] = "stopped" -> {"fail"}
                    [] OTHER                    -> {"wait", "fail"}
    /\ UNCHANGED <<gmp, taskID, scanContext, result, remote>>

Wait == /\ stage = "wait"
        /\ \/ stage' = "poll"
           \/ scanContext # "live" /\ stage' = "fail"
        /\ UNCHANGED <<tries, gmp, taskID, startedTaskID, scanContext, result, remote>>

\* The report is written, redacted and bounded.
Artifact ==
    /\ stage = "artifact"
    /\ \/ stage' = "ended" /\ result' = [result EXCEPT !.status = "completed"]
       \/ stage' = "fail" /\ UNCHANGED result
    /\ UNCHANGED <<tries, gmp, taskID, startedTaskID, scanContext, remote>>

-----------------------------------------------------------------------------
(* fail                                                                     *)

Stopped(t) == IF gvmd[t] = "running" THEN [gvmd EXCEPT ![t] = "stopped"] ELSE gvmd

\* Mutant: only a cancelled run stops its task.
StopsMutant == startedTaskID # NoTask /\ scanContext = "cancelled"
Stops == startedTaskID # NoTask

\* A session that ended makes the run cancelled, whatever failed.
Ends(warned) ==
    /\ stage' = "ended"
    /\ result' = [status |-> IF scanContext = "cancelled" THEN "cancelled" ELSE "failed",
                  warned |-> warned]
    /\ UNCHANGED <<tries, gmp, taskID, startedTaskID, scanContext, unanswered>>

FailUnstarted == stage = "fail" /\ ~ Stops /\ Ends(FALSE) /\ UNCHANGED gvmd

\* stopGreenboneTask dials a connection of its own, on a context of its own. The stop succeeds,
\* or it fails, perhaps after gvmd has served it; then the run says so.
FailStarted ==
    /\ stage = "fail" /\ Stops
    /\ \/ gvmd' = Stopped(startedTaskID) /\ Ends(FALSE)
       \/ gvmd' \in {gvmd, Stopped(startedTaskID)} /\ Ends(TRUE)

GreenboneNext ==
    \/ Refuse \/ BeginScan \/ Dial \/ Answered \/ Rejected \/ Lost \/ Polled \/ Wait \/ Artifact
    \/ FailUnstarted \/ FailStarted \/ RemoteTaskEnds \/ ContextEnds

GreenboneSpec == GreenboneInit /\ [][GreenboneNext]_gvmVars

-----------------------------------------------------------------------------
GreenboneTypeOK ==
    /\ stage \in Calls \cup {"new", "wait", "artifact", "fail", "ended"}
    /\ tries \in 0 .. 1
    /\ gmp \in BOOLEAN
    /\ taskID \in Task \cup {NoTask} /\ startedTaskID \in {taskID, NoTask}
    /\ scanContext \in {"live", "cancelled", "expired"}
    /\ result \in [status : {"running", "completed", "failed", "cancelled"}, warned : BOOLEAN]
    /\ gvmd \in [Task -> {NoTask, "new", "running", "done", "stopped"}]
    /\ unanswered \subseteq Task

\* No task scans the target with nothing tracking it (openvas.go:173): a run that has ended left
\* a running task behind only if it says that the stop failed, or if the answer to start_task
\* was lost; and it calls itself completed only when its task was done.
TaskIsTracked == stage = "ended" =>
    /\ \A t \in Task : gvmd[t] = "running" => result.warned \/ t \in unanswered
    /\ result.status = "completed" => gvmd[taskID] = "done"
=============================================================================
