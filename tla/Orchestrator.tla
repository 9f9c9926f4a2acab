---------------------------- MODULE Orchestrator ----------------------------
(***************************************************************************)
(* workers/orchestrator.py: projects, run one at a time: plan, put the     *)
(* subtasks on the task board, wait for them, integrate, announce.         *)
(*                                                                         *)
(* It is composed with the pool it gives its subtasks to through what the  *)
(* pool is shown to implement, the TaskBoard.                              *)
(*                                                                         *)
(* A call of the database is one step: the FIFO lock is held until the     *)
(* caller runs again.  What the lock orders and an interleaving of steps   *)
(* would not, the guards Unhindered and Unstamped say.                     *)
(***************************************************************************)
EXTENDS TaskBoard, FiniteSetsExt

CONSTANTS MaxProject,       \* projects are numbered 1..MaxProject
          MaxPlan,          \* multi_agent.max_subtasks
          Canceller,        \* callers of Orchestrator.cancel, one call each
          MaxOutages        \* bound on restarts of the process

ASSUME OrchestratorAssumption ==
  /\ {MaxTask, MaxProject, MaxOutages} \subseteq Nat /\ MaxPlan \in Nat \ {0}

Project   == 1..MaxProject
PStatus   == {"absent", "queued", "planning", "running", "integrating"} \union Terminal

VARIABLES pstatus,    \* projects.status
          owner,      \* tasks.project_id, 0 for none
          asked,      \* tasks whose run pool.cancel has interrupted
          rpc,        \* where _run_loop is
          rproj,      \* the project in _running, 0 for none
          ppc,        \* where _run_project(p) is
          why,        \* what the child is ending for
          left,       \* subtasks of the plan still to add
          pending,    \* _wait_for_tasks: pending
          todo,       \* subtasks the child still has to cancel
          stopping,   \* _stopping
          kpc, kproj, kres,   \* the callers of cancel, and their answers
          outages

tasks  == <<status, runner, owner, asked>>
loop   == <<rpc, rproj, stopping>>
child  == <<ppc, why, left, pending, todo>>
caller == <<kpc, kproj, kres>>
vars   == <<tasks, pstatus, loop, child, caller, outages>>

\* _run_project has returned, or the CancelledError went through it.
Over == {"none", "gone", "killed"}

Init ==
  /\ BoardInit
  /\ pstatus = [p \in Project |-> "absent"]
  /\ owner = [t \in Task |-> 0]
  /\ asked = {}
  /\ rpc = "claim" /\ rproj = 0 /\ stopping = FALSE
  /\ ppc = [p \in Project |-> "none"]
  /\ why = [p \in Project |-> ""]
  /\ left = [p \in Project |-> 0]
  /\ pending = [p \in Project |-> {}]
  /\ todo = [p \in Project |-> {}]
  /\ kpc = [k \in Canceller |-> "idle"]
  /\ kproj = [k \in Canceller |-> 0]
  /\ kres = [k \in Canceller |-> FALSE]
  /\ outages = 0

-----------------------------------------------------------------------------
Subtasks(p)  == {t \in Task : owner[t] = p}
Undecided(S) == {t \in S : status[t] \notin Terminal}

(* cancel() asks for the lock right after its read: its overwrite is ahead *)
(* of every call a child that was not there yet can make.                  *)
Unhindered(p) == \A k \in Canceller : kpc[k] = "overwrite" => kproj[k] # p

(* The same of pool.cancel and the run of a task it saw queued.            *)
Unstamped(t) == \A p \in Project : ppc[p] = "stamp" => Min(todo[p]) # t

Goes(p, pc) == ppc' = [ppc EXCEPT ![p] = pc]

Row(p, s) == pstatus' = [pstatus EXCEPT ![p] = s]

-----------------------------------------------------------------------------
(* start_project, and the subtasks as the pool and the owner move them.    *)

Submit(p) ==
  /\ pstatus[p] = "absent"
  /\ \A q \in Project : q < p => pstatus[q] # "absent"
  /\ Row(p, "queued")
  /\ rpc' = IF rpc = "waiting" THEN "claim" ELSE rpc
  /\ UNCHANGED <<tasks, rproj, stopping, child, caller, outages>>

TaskClaimed(t) ==
  /\ ~stopping
  /\ Claim(t)
  /\ UNCHANGED <<owner, asked, pstatus, loop, child, caller, outages>>

TaskFinishes(t) ==
  /\ Finish(t)
  /\ Unstamped(t)
  /\ UNCHANGED <<owner, asked, pstatus, loop, child, caller, outages>>

(* An interrupted run that ends before it can write a verdict.             *)
TaskVanishes(t) ==
  /\ t \in asked /\ runner[t] = "live"
  /\ runner' = [runner EXCEPT ![t] = "over"]
  /\ UNCHANGED <<status, owner, asked, pstatus, loop, child, caller, outages>>

(* cancel_task on a single subtask.                                        *)
OwnerCancels(t) ==
  /\ \/ CancelQueued(t) /\ Unstamped(t) /\ UNCHANGED asked
     \/ /\ status[t] = "running" /\ runner[t] = "live"
        /\ asked' = asked \union {t}
        /\ UNCHANGED bvars
  /\ UNCHANGED <<owner, pstatus, loop, child, caller, outages>>

-----------------------------------------------------------------------------
(* _run_loop.                                                              *)

ClaimProject(p) ==
  /\ rpc = "claim"
  /\ pstatus[p] = "queued"
  /\ \A q \in Project : q < p => pstatus[q] # "queued"
  /\ Row(p, "planning")
  /\ Goes(p, "planning")
  /\ rpc' = "awaiting" /\ rproj' = p
  /\ UNCHANGED <<tasks, stopping, why, left, pending, todo, caller, outages>>

ClaimNone ==
  /\ rpc = "claim"
  /\ \A p \in Project : pstatus[p] # "queued"
  /\ rpc' = "waiting"
  /\ UNCHANGED <<tasks, pstatus, rproj, stopping, child, caller, outages>>

(* Five seconds without a wake.                                            *)
PollAgain ==
  /\ rpc = "waiting"
  /\ rpc' = "claim"
  /\ UNCHANGED <<tasks, pstatus, rproj, stopping, child, caller, outages>>

(* The locals of a run that is over.                                       *)
Forgotten(p) ==
  /\ why' = [why EXCEPT ![p] = ""]
  /\ left' = [left EXCEPT ![p] = 0]
  /\ pending' = [pending EXCEPT ![p] = {}]
  /\ todo' = [todo EXCEPT ![p] = {}]

Released ==
  /\ rproj' = 0
  /\ rpc' = IF stopping THEN "off" ELSE "claim"
  /\ Forgotten(rproj)
  /\ UNCHANGED <<tasks, pstatus, stopping, ppc, caller, outages>>

(* Mutant: every CancelledError of the child is raised again.              *)
ReapUnkilled ==
  /\ rpc = "awaiting"
  /\ ppc[rproj] = "gone"
  /\ Released

(* The child is over.  A CancelledError out of it is swallowed unless the  *)
(* orchestrator is stopping.                                               *)
Reap ==
  /\ rpc = "awaiting"
  /\ ppc[rproj] \in {"gone", "killed"}
  /\ Released

-----------------------------------------------------------------------------
(* _run_project.                                                           *)

(* _plan answered (a first reply that does not parse is asked again), gave *)
(* no valid list, or the provider raised.                                  *)
Plan(p) ==
  /\ ppc[p] = "planning"
  /\ \/ /\ \E n \in 1..MaxPlan :
             /\ n <= Cardinality({t \in Task : status[t] = "absent"})
             /\ left' = [left EXCEPT ![p] = n]
        /\ Goes(p, "start")
        /\ UNCHANGED why
     \/ /\ \E reason \in {"", "raised"} : why' = [why EXCEPT ![p] = reason]
        /\ Goes(p, "fail")
        /\ UNCHANGED left
  /\ UNCHANGED <<tasks, pstatus, loop, pending, todo, caller, outages>>

(* The write does not look at the row: a cancel() that was ahead of it is  *)
(* overwritten.                                                            *)
Starts(p) ==
  /\ ppc[p] = "start"
  /\ Unhindered(p)
  /\ Row(p, "running")
  /\ Goes(p, "adding")
  /\ UNCHANGED <<tasks, loop, why, left, pending, todo, caller, outages>>

(* add_task; after the last one, without an await, project_started, the    *)
(* wake of the pool and the wait.                                          *)
AddsSubtask(p, t) ==
  /\ ppc[p] = "adding"
  /\ \A s \in Task : s < t => status[s] # "absent"
  /\ Add(t)
  /\ owner' = [owner EXCEPT ![t] = p]
  /\ left' = [left EXCEPT ![p] = @ - 1]
  /\ pending' = [pending EXCEPT ![p] = @ \union {t}]
  /\ Goes(p, IF left[p] = 1 THEN "wait" ELSE "adding")
  /\ UNCHANGED <<asked, pstatus, loop, why, todo, caller, outages>>

(* A task_done event from the bus.  The row is terminal when the event is  *)
(* published (WorkerPool!AnnouncedIsTerminal) and stays so; the bus drops  *)
(* the oldest event of a full queue, so nothing says that one arrives.     *)
Hears(p, t) ==
  /\ ppc[p] = "wait"
  /\ t \in pending[p]
  /\ status[t] \in Terminal
  /\ pending' = [pending EXCEPT ![p] = @ \ {t}]
  /\ UNCHANGED <<tasks, pstatus, loop, ppc, why, left, todo, caller, outages>>

(* Mutant: the poll looks for results only.                                *)
PollsResults(p) ==
  /\ ppc[p] = "wait"
  /\ pending' = [pending EXCEPT ![p] = {t \in @ : status[t] # "done"}]
  /\ UNCHANGED <<tasks, pstatus, loop, ppc, why, left, todo, caller, outages>>

(* Every poll_s seconds the rows themselves are read.                      *)
Polls(p) ==
  /\ ppc[p] = "wait"
  /\ pending' = [pending EXCEPT ![p] = Undecided(@)]
  /\ UNCHANGED <<tasks, pstatus, loop, ppc, why, left, todo, caller, outages>>

(* The deadline: looked at before the next event is taken, so it may find  *)
(* tasks pending that are over.                                            *)
TimesOut(p) ==
  /\ ppc[p] = "wait"
  /\ pending[p] # {}
  /\ todo' = [todo EXCEPT ![p] = Undecided(Subtasks(p))]
  /\ why' = [why EXCEPT ![p] = "timeout"]
  /\ Goes(p, "sweep")
  /\ UNCHANGED <<tasks, pstatus, loop, left, pending, caller, outages>>

Collects(p) ==
  /\ ppc[p] = "wait"
  /\ pending[p] = {}
  /\ Goes(p, IF \E t \in Subtasks(p) : status[t] = "done" THEN "integrate" ELSE "fail")
  /\ UNCHANGED <<tasks, pstatus, loop, why, left, pending, todo, caller, outages>>

Integrates(p) ==
  /\ ppc[p] = "integrate"
  /\ Row(p, "integrating")
  /\ Goes(p, "report")
  /\ UNCHANGED <<tasks, loop, why, left, pending, todo, caller, outages>>

(* _integrate: a report (or the raw outcome list), or the provider raised. *)
Reports(p) ==
  /\ ppc[p] = "report"
  /\ \/ Goes(p, "finish") /\ UNCHANGED why
     \/ Goes(p, "fail") /\ why' = [why EXCEPT ![p] = "raised"]
  /\ UNCHANGED <<tasks, pstatus, loop, left, pending, todo, caller, outages>>

(* The row, project_done, and on to the notifier.                          *)
Concludes(p) ==
  /\ \/ ppc[p] = "finish" /\ Row(p, "done")
     \/ ppc[p] = "fail" /\ Unhindered(p) /\ Row(p, "failed")
  /\ Goes(p, "announce")
  /\ UNCHANGED <<tasks, loop, why, left, pending, todo, caller, outages>>

Announces(p) ==
  /\ ppc[p] = "announce"
  /\ Goes(p, "gone")
  /\ UNCHANGED <<tasks, pstatus, loop, why, left, pending, todo, caller, outages>>

(* Mutant: the handler only writes its own row.                            *)
ClosesAlone(p) ==
  /\ ppc[p] = "closing"
  /\ why' = [why EXCEPT ![p] = "cancel"]
  /\ Goes(p, "mark")
  /\ UNCHANGED <<tasks, pstatus, loop, left, pending, todo, caller, outages>>

(* except CancelledError: list the rows of the project's tasks.            *)
Closes(p) ==
  /\ ppc[p] = "closing"
  /\ todo' = [todo EXCEPT ![p] = Undecided(Subtasks(p))]
  /\ why' = [why EXCEPT ![p] = "cancel"]
  /\ Goes(p, "sweep")
  /\ UNCHANGED <<tasks, pstatus, loop, left, pending, caller, outages>>

(* pool.cancel of the next listed task: over, being run, or queued, in     *)
(* which case a second call will stamp it.                                 *)
Sweeps(p) ==
  /\ ppc[p] = "sweep"
  /\ IF todo[p] = {}
       THEN /\ Goes(p, IF why[p] = "cancel" THEN "mark" ELSE "fail")
            /\ UNCHANGED <<asked, todo>>
       ELSE LET t == Min(todo[p]) IN
              \/ /\ status[t] = "queued"
                 /\ Goes(p, "stamp")
                 /\ UNCHANGED <<asked, todo>>
              \/ /\ status[t] # "queued"
                 /\ asked' = IF status[t] = "running" THEN asked \union {t} ELSE asked
                 /\ todo' = [todo EXCEPT ![p] = @ \ {t}]
                 /\ UNCHANGED ppc
  /\ UNCHANGED <<bvars, owner, pstatus, loop, why, left, pending, caller, outages>>

(* The row may have been claimed in between.                               *)
Stamps(p) ==
  /\ ppc[p] = "stamp"
  /\ LET t == Min(todo[p]) IN
       /\ CancelQueued(t) \/ CancelClaimed(t)
       /\ todo' = [todo EXCEPT ![p] = @ \ {t}]
  /\ Goes(p, "sweep")
  /\ UNCHANGED <<owner, asked, pstatus, loop, why, left, pending, caller, outages>>

Marks(p) ==
  /\ ppc[p] = "mark"
  /\ Unhindered(p)
  /\ Row(p, "cancelled")
  /\ Goes(p, "gone")
  /\ UNCHANGED <<tasks, loop, why, left, pending, todo, caller, outages>>

(* A CancelledError raised in the handler for CancelledErrors, or in the   *)
(* one for other exceptions, is caught by neither.                         *)
Interrupted(p) ==
  IF ppc[p] \in Over THEN ppc[p]
  ELSE IF ppc[p] = "closing" \/ why[p] \in {"cancel", "raised"} THEN "killed"
  ELSE "closing"

-----------------------------------------------------------------------------
(* cancel(project_id), stop() and the end of the process.                  *)

Return(k, p, answer) ==
  /\ kpc' = [kpc EXCEPT ![k] = "returned"]
  /\ kproj' = [kproj EXCEPT ![k] = p]
  /\ kres' = [kres EXCEPT ![k] = answer]

(* get_project answered, and the rest of cancel() up to its next await.    *)
Cancels(k, p) ==
  /\ kpc[k] = "idle"
  /\ pstatus[p] # "absent"
  /\ \/ /\ pstatus[p] \in Terminal
        /\ Return(k, p, FALSE)
        /\ UNCHANGED ppc
     \/ /\ pstatus[p] \notin Terminal
        /\ rproj = p
        /\ Goes(p, Interrupted(p))
        /\ Return(k, p, TRUE)
     \/ /\ pstatus[p] = "queued"
        /\ rproj # p
        /\ kpc' = [kpc EXCEPT ![k] = "overwrite"]
        /\ kproj' = [kproj EXCEPT ![k] = p]
        /\ UNCHANGED <<kres, ppc>>
     \/ /\ pstatus[p] \notin Terminal \union {"queued"}
        /\ rproj # p
        /\ Return(k, p, FALSE)
        /\ UNCHANGED ppc
  /\ UNCHANGED <<tasks, pstatus, loop, why, left, pending, todo, outages>>

(* update_project(status='cancelled'): no condition on the row it finds.   *)
Overwrites(k) ==
  /\ kpc[k] = "overwrite"
  /\ Row(kproj[k], "cancelled")
  /\ Return(k, kproj[k], TRUE)
  /\ UNCHANGED <<tasks, loop, child, outages>>

(* stop(): the child is cancelled whatever its row says, then the loop,    *)
(* which stays while the child is being closed.                            *)
Stop ==
  /\ outages < MaxOutages
  /\ ~stopping
  /\ stopping' = TRUE
  /\ ppc' = [p \in Project |-> Interrupted(p)]
  /\ rpc' = IF rpc = "awaiting" THEN "awaiting" ELSE "off"
  /\ UNCHANGED <<tasks, pstatus, rproj, why, left, pending, todo, caller, outages>>

(* The process ends and is booted again: rows survive, runs do not, and    *)
(* nothing at boot looks at the projects under way.                        *)
Reboot ==
  /\ outages < MaxOutages
  /\ outages' = outages + 1
  /\ runner' = [t \in Task |-> IF runner[t] = "live" THEN "over" ELSE runner[t]]
  /\ asked' = {}
  /\ rpc' = "claim" /\ rproj' = 0 /\ stopping' = FALSE
  /\ ppc' = [p \in Project |-> IF ppc[p] \in Over THEN ppc[p] ELSE "killed"]
  /\ kpc' = [k \in Canceller |-> IF kpc[k] = "overwrite" THEN "lost" ELSE kpc[k]]
  /\ IF rproj = 0 THEN UNCHANGED <<why, left, pending, todo>> ELSE Forgotten(rproj)
  /\ UNCHANGED <<status, owner, pstatus, kproj, kres>>

-----------------------------------------------------------------------------
Works(p) ==
  \/ Plan(p) \/ Starts(p) \/ Polls(p) \/ Collects(p) \/ Integrates(p) \/ Reports(p)
  \/ Concludes(p) \/ Announces(p) \/ Closes(p) \/ Sweeps(p) \/ Stamps(p) \/ Marks(p)
  \/ \E t \in Task : AddsSubtask(p, t)

Loops == ClaimNone \/ PollAgain \/ Reap \/ \E p \in Project : ClaimProject(p)

Next ==
  \/ Loops
  \/ Stop
  \/ Reboot
  \/ \E t \in Task : TaskClaimed(t) \/ TaskFinishes(t) \/ TaskVanishes(t) \/ OwnerCancels(t)
  \/ \E p \in Project : Submit(p) \/ Works(p) \/ TimesOut(p) \/ \E t \in Task : Hears(p, t)
  \/ \E k \in Canceller : Overwrites(k) \/ \E p \in Project : Cancels(k, p)

Spec == Init /\ [][Next]_vars

(* The deadline is only counted on where a subtask can no longer end.      *)
Overdue(p) == TimesOut(p) /\ Undecided(pending[p]) # {}

(* Model calls, database calls and timers end; events are not counted on,  *)
(* nor are the owner's requests.                                           *)
Fairness ==
  /\ WF_vars(Loops)
  /\ \A p \in Project : WF_vars(Works(p)) /\ WF_vars(Overdue(p))
  /\ \A k \in Canceller : WF_vars(Overwrites(k))

FairSpec == Spec /\ Fairness

-----------------------------------------------------------------------------
(* A project whose run came to its own end leaves no subtask that a worker *)
(* could still start: on the deadline and after a cancel every one that is *)
(* undecided has been cancelled, a row added at the last moment included.  *)
(* (A run that was killed in a handler of its own, by a second cancel, or  *)
(* by the end of the process leaves what it had not swept.)  And its       *)
(* report is written from decided subtasks, at least one of which has a    *)
(* result, whatever became of the events that told of them.                *)
NothingLeftQueued ==
  \A p \in Project :
    /\ ppc[p] = "gone" => \A t \in Subtasks(p) : status[t] # "queued"
    /\ pstatus[p] \in {"integrating", "done"} =>
         Undecided(Subtasks(p)) = {} /\ \E t \in Subtasks(p) : status[t] = "done"

(* The wait ends once the subtasks have, though every event about them may *)
(* be lost and the deadline is not counted on.                             *)
CompletionNoticed ==
  \A p \in Project :
    (ppc[p] = "wait" /\ Undecided(Subtasks(p)) = {}) ~> ppc[p] # "wait"

(* However a project's run ends, a second cancel in the middle of closing  *)
(* the first included, the runner gets back to claiming.                   *)
RunnerReturns == rpc = "awaiting" ~> (rpc = "claim" \/ stopping)
=============================================================================
