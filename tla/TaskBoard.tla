----------------------------- MODULE TaskBoard -----------------------------
(***************************************************************************)
(* What the task board promises to its callers (tools/tasks.py, the UI and *)
(* the orchestrator), independently of workers, cancels and the database   *)
(* lock: a row of the `tasks` table and whether somebody is running it.    *)
(*                                                                         *)
(*   row:     absent -> queued -> running -> done | failed | cancelled     *)
(*            queued -> cancelled                                          *)
(*   runner:  none -> live -> over        (never live twice)               *)
(*                                                                         *)
(* Three edges are allowed although no docstring asks for them, because    *)
(* the implementation takes them: a claimed row may be stamped cancelled   *)
(* under its live runner, a runner may vanish without a verdict, and a     *)
(* claim may be lost before a runner exists.                               *)
(***************************************************************************)
EXTENDS Naturals

CONSTANT MaxTask            \* tasks are numbered 1..MaxTask, in insertion order

Task     == 1..MaxTask
Terminal == {"done", "failed", "cancelled"}

VARIABLES status,           \* tasks.status
          runner            \* has the row a live run, had it one?

bvars == <<status, runner>>

BoardInit ==
  /\ status = [t \in Task |-> "absent"]
  /\ runner = [t \in Task |-> "none"]

Add(t) ==
  /\ status[t] = "absent"
  /\ status' = [status EXCEPT ![t] = "queued"]
  /\ UNCHANGED runner

Claim(t) ==
  /\ status[t] = "queued"
  /\ runner[t] = "none"
  /\ status' = [status EXCEPT ![t] = "running"]
  /\ \E r \in {"live", "over"} : runner' = [runner EXCEPT ![t] = r]

Finish(t) ==
  /\ runner[t] = "live"
  /\ \E s \in Terminal : status' = [status EXCEPT ![t] = s]
  /\ runner' = [runner EXCEPT ![t] = "over"]

CancelQueued(t) ==
  /\ status[t] = "queued"
  /\ status' = [status EXCEPT ![t] = "cancelled"]
  /\ UNCHANGED runner

CancelClaimed(t) ==
  /\ status[t] = "running"
  /\ status' = [status EXCEPT ![t] = "cancelled"]
  /\ UNCHANGED runner

Vanish ==
  /\ \E gone \in SUBSET {t \in Task : runner[t] = "live"} :
       runner' = [t \in Task |-> IF t \in gone THEN "over" ELSE runner[t]]
  /\ UNCHANGED status

BoardNext ==
  \/ Vanish
  \/ \E t \in Task : Add(t) \/ Claim(t) \/ Finish(t) \/ CancelQueued(t) \/ CancelClaimed(t)

BoardSpec == BoardInit /\ [][BoardNext]_bvars
=============================================================================
