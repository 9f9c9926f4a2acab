----------------------------- MODULE WorkerPool -----------------------------
(***************************************************************************)
(* workers/queue.py: the pool of asyncio workers that runs background      *)
(* tasks, with the task rows of db/database.py and the callers of          *)
(* WorkerPool.cancel (tools/tasks.py, DELETE /tasks/{id}, the              *)
(* orchestrator).                                                          *)
(*                                                                         *)
(* Everything runs on one event loop, so the interleavings are those of    *)
(* the awaits.  Every database call is a "locked primitive": it queues for *)
(* an asyncio.Lock, which is FIFO, and what the caller does between the    *)
(* reply and its next await runs without interruption.  `dbq` is that      *)
(* queue; serving its head executes the statement AND the caller's code up *)
(* to its next await.  This is what decides which races exist.             *)
(*                                                                         *)
(* An asyncio cancel is delivered at the await the child is suspended on,  *)
(* so Interrupted says what each suspended child does with it.  A request  *)
(* whose owner died stays in dbq as a husk and is dropped when it is head. *)
(***************************************************************************)
EXTENDS Naturals, Sequences, FiniteSets

CONSTANTS MaxTask,          \* bound: tasks are 1..MaxTask, in insertion order
          Worker,           \* the pool's workers (config multi_agent workers)
          Canceller,        \* bound: each makes one WorkerPool.cancel call
          Silent,           \* tasks added with notify=0 (project subtasks)
          MaxOutages        \* bound: shutdowns and crashes of the process

ASSUME PoolAssumption ==
  /\ MaxTask \in Nat
  /\ MaxOutages \in Nat
  /\ Silent \subseteq 1..MaxTask
  /\ "none" \notin Worker /\ "none" \notin Canceller

Task     == 1..MaxTask
Terminal == {"done", "failed", "cancelled"}
Status   == {"absent", "queued", "running"} \union Terminal

VARIABLES
  status,     \* tasks.status, durable
  doneRow,    \* tasks with a 'done' row in task_events, durable
  dbq,        \* callers of locked primitives, in lock order
  wpc,        \* where each worker is suspended
  wtask,      \* the task each worker awaits (0: none)
  cpc,        \* where each task's child run is suspended
  outcome,    \* the status a child is about to write
  running,    \* keys of WorkerPool._running
  wake,       \* WorkerPool._wake
  kpc,        \* where each cancel() call is suspended
  ktask,      \* the task_id of each cancel() call (0: none)
  kres,       \* what cancel() returned
  stopping,   \* WorkerPool._stopping
  outages,    \* shutdowns and crashes so far
  claims,     \* history: how often each row was claimed
  announced,  \* history: statuses published in task_done events
  notice      \* history: the verdict the owner was notified of

durable  == <<status, doneRow>>
pool     == <<wpc, wtask, running, wake, stopping>>
child    == <<cpc, outcome>>
caller   == <<kpc, ktask, kres>>
history  == <<claims, announced, notice>>
vars == <<durable, dbq, pool, child, caller, outages, history>>

Request == [op : {"claim"}, who : Worker]
           \union [op : {"conversation", "update", "event"}, who : Task]
           \union [op : {"get", "overwrite"}, who : Canceller]

Ask(op, who) == Append(dbq, [op |-> op, who |-> who])

(* Where a child is while its verdict is not yet in the row.               *)
Undecided == {"conversation", "turn", "closing", "update"}

ChildPc   == {"none", "event", "notify", "gone"} \union Undecided

TypeOK ==
  /\ status \in [Task -> Status]
  /\ doneRow \in SUBSET Task
  /\ dbq \in Seq(Request)
  /\ wpc \in [Worker -> {"claim", "waiting", "woken", "awaiting", "off"}]
  /\ wtask \in [Worker -> Task \union {0}]
  /\ cpc \in [Task -> ChildPc]
  /\ outcome \in [Task -> Terminal]
  /\ running \in SUBSET Task
  /\ wake \in BOOLEAN
  /\ kpc \in [Canceller -> {"idle", "get", "overwrite", "returned", "lost"}]
  /\ ktask \in [Canceller -> Task \union {0}]
  /\ kres \in [Canceller -> BOOLEAN]
  /\ stopping \in BOOLEAN
  /\ outages \in Nat
  /\ claims \in [Task -> Nat]
  /\ announced \in [Task -> SUBSET Terminal]
  /\ notice \in [Task -> Terminal \union {"none"}]

Init ==
  /\ status = [t \in Task |-> "absent"]
  /\ doneRow = {}
  /\ dbq = <<>>
  /\ wpc = [w \in Worker |-> "off"]
  /\ wtask = [w \in Worker |-> 0]
  /\ cpc = [t \in Task |-> "none"]
  /\ outcome = [t \in Task |-> "done"]
  /\ running = {}
  /\ wake = FALSE
  /\ kpc = [k \in Canceller |-> "idle"]
  /\ ktask = [k \in Canceller |-> 0]
  /\ kres = [k \in Canceller |-> FALSE]
  /\ stopping = FALSE
  /\ outages = 0
  /\ claims = [t \in Task |-> 0]
  /\ announced = [t \in Task |-> {}]
  /\ notice = [t \in Task |-> "none"]

-----------------------------------------------------------------------------
(* The head of the queue, and whether its owner still waits for it.        *)

Heads(op) == dbq # <<>> /\ Head(dbq).op = op

Waits(r) ==
  CASE r.op = "claim"               -> wpc[r.who] = "claim"
    [] r.op \in {"get", "overwrite"} -> kpc[r.who] = r.op
    [] OTHER                        -> cpc[r.who] = r.op

Husk ==
  /\ dbq # <<>>
  /\ ~Waits(Head(dbq))
  /\ dbq' = Tail(dbq)
  /\ UNCHANGED <<durable, pool, child, caller, outages, history>>

-----------------------------------------------------------------------------
(* asyncio.Event: set() releases everyone who waits and stays set.         *)

Woken(pc) == IF pc = "waiting" THEN "woken" ELSE pc

SetWake ==
  /\ wake' = TRUE
  /\ wpc' = [w \in Worker |-> Woken(wpc[w])]

Inserted(t) ==
  /\ status[t] = "absent"
  /\ \A u \in Task : u < t => status[u] # "absent"
  /\ status' = [status EXCEPT ![t] = "queued"]

(* start_background_task: insert the row and, in the same breath, wake.    *)
Submit(t) ==
  /\ t \notin Silent
  /\ Inserted(t)
  /\ SetWake
  /\ UNCHANGED <<doneRow, dbq, wtask, running, stopping, child, caller,
                 outages, history>>

(* The orchestrator inserts its subtasks one await at a time and wakes the *)
(* pool after the last one.                                                *)
SubmitSubtask(t) ==
  /\ t \in Silent
  /\ Inserted(t)
  /\ UNCHANGED <<doneRow, dbq, pool, child, caller, outages, history>>

WakeSubtasks ==
  /\ \E t \in Silent : status[t] = "queued"
  /\ SetWake
  /\ UNCHANGED <<durable, dbq, wtask, running, stopping, child, caller,
                 outages, history>>

-----------------------------------------------------------------------------
(* A worker.                                                               *)

(* start(): the worker task runs for the first time and asks for a claim.  *)
Begin(w) ==
  /\ wpc[w] = "off"
  /\ ~stopping
  /\ wpc' = [wpc EXCEPT ![w] = "claim"]
  /\ dbq' = Ask("claim", w)
  /\ UNCHANGED <<durable, wtask, running, wake, stopping, child, caller,
                 outages, history>>

(* Mutant: the claim picks up rows a run already has.                      *)
OldestUnfinished(t) ==
  /\ status[t] \in {"queued", "running"}
  /\ \A u \in Task : status[u] \in {"queued", "running"} => t <= u

OldestQueued(t) ==
  /\ status[t] = "queued"
  /\ \A u \in Task : status[u] = "queued" => t <= u

(* claim_next_task found a row: it is marked running, and before any other *)
(* caller gets the lock the child is created, registered and asks for its  *)
(* conversation.                                                           *)
ServeClaim(t) ==
  /\ Heads("claim")
  /\ OldestQueued(t)
  /\ LET w == Head(dbq).who IN
       /\ wpc[w] = "claim"
       /\ wpc' = [wpc EXCEPT ![w] = "awaiting"]
       /\ wtask' = [wtask EXCEPT ![w] = t]
  /\ status' = [status EXCEPT ![t] = "running"]
  /\ cpc' = [cpc EXCEPT ![t] = "conversation"]
  /\ running' = running \union {t}
  /\ claims' = [claims EXCEPT ![t] = @ + 1]
  /\ dbq' = Append(Tail(dbq), [op |-> "conversation", who |-> t])
  /\ UNCHANGED <<doneRow, wake, stopping, outcome, caller, outages,
                 announced, notice>>

(* claim_next_task found nothing: wait for the wake event, which may be    *)
(* set already, for at most five seconds.                                  *)
ServeClaimEmpty ==
  /\ Heads("claim")
  /\ \A t \in Task : status[t] # "queued"
  /\ LET w == Head(dbq).who IN
       /\ wpc[w] = "claim"
       /\ wpc' = [wpc EXCEPT ![w] = IF wake THEN "woken" ELSE "waiting"]
  /\ dbq' = Tail(dbq)
  /\ UNCHANGED <<durable, wtask, running, wake, stopping, child, caller,
                 outages, history>>

(* Mutant: the wait has no timeout.                                        *)
AwakeWhenSet(w) ==
  /\ wpc[w] = "woken"
  /\ wpc' = [wpc EXCEPT ![w] = "claim"]
  /\ wake' = FALSE
  /\ dbq' = Ask("claim", w)
  /\ UNCHANGED <<durable, wtask, running, stopping, child, caller, outages,
                 history>>

(* The event was set, or the five seconds are over; either way the event   *)
(* is cleared and the loop claims again.                                   *)
Awake(w) ==
  /\ wpc[w] \in {"woken", "waiting"}
  /\ wpc' = [wpc EXCEPT ![w] = "claim"]
  /\ wake' = FALSE
  /\ dbq' = Ask("claim", w)
  /\ UNCHANGED <<durable, wtask, running, stopping, child, caller, outages,
                 history>>

Released(w) ==
  /\ running' = running \ {wtask[w]}
  /\ wtask' = [wtask EXCEPT ![w] = 0]
  /\ IF stopping
       THEN wpc' = [wpc EXCEPT ![w] = "off"] /\ UNCHANGED dbq
       ELSE wpc' = [wpc EXCEPT ![w] = "claim"] /\ dbq' = Ask("claim", w)
  /\ UNCHANGED <<durable, wake, stopping, child, caller, outages, history>>

(* Mutant: the CancelledError of a child ends the worker that awaits it,   *)
(* which never gets past the await.                                        *)
ReapRaises(w) ==
  /\ wpc[w] = "awaiting"
  /\ cpc[wtask[w]] = "gone"
  /\ status[wtask[w]] \in {"done", "failed"}
  /\ Released(w)

(* The awaited child is over, however it ended: pop it and loop, or leave  *)
(* the loop when the pool is stopping.                                     *)
Reap(w) ==
  /\ wpc[w] = "awaiting"
  /\ cpc[wtask[w]] = "gone"
  /\ Released(w)

-----------------------------------------------------------------------------
(* _run_task, the child of one claimed row.                                *)

ServeConversation(t) ==
  /\ Heads("conversation") /\ Head(dbq).who = t
  /\ cpc[t] = "conversation"
  /\ cpc' = [cpc EXCEPT ![t] = "turn"]
  /\ dbq' = Tail(dbq)
  /\ UNCHANGED <<durable, pool, outcome, caller, outages, history>>

(* run_turn returned or raised an ordinary exception.                      *)
TurnEnds(t) ==
  /\ cpc[t] = "turn"
  /\ \E s \in {"done", "failed"} : outcome' = [outcome EXCEPT ![t] = s]
  /\ cpc' = [cpc EXCEPT ![t] = "update"]
  /\ dbq' = Ask("update", t)
  /\ UNCHANGED <<durable, pool, caller, outages, history>>

(* run_turn re-raised the CancelledError after writing its closing rows.   *)
TurnClosed(t) ==
  /\ cpc[t] = "closing"
  /\ outcome' = [outcome EXCEPT ![t] = "cancelled"]
  /\ cpc' = [cpc EXCEPT ![t] = "update"]
  /\ dbq' = Ask("update", t)
  /\ UNCHANGED <<durable, pool, caller, outages, history>>

(* Mutant: the owner is notified before the task's log is closed.          *)
ServeUpdateTold(t) ==
  /\ Heads("update") /\ Head(dbq).who = t
  /\ cpc[t] = "update"
  /\ status' = [status EXCEPT ![t] = outcome[t]]
  /\ cpc' = [cpc EXCEPT ![t] = "notify"]
  /\ dbq' = Tail(dbq)
  /\ UNCHANGED <<doneRow, pool, outcome, caller, outages, history>>

ServeUpdate(t) ==
  /\ Heads("update") /\ Head(dbq).who = t
  /\ cpc[t] = "update"
  /\ status' = [status EXCEPT ![t] = outcome[t]]
  /\ cpc' = [cpc EXCEPT ![t] = "event"]
  /\ dbq' = Append(Tail(dbq), [op |-> "event", who |-> t])
  /\ UNCHANGED <<doneRow, pool, outcome, caller, outages, history>>

(* The 'done' event row is in; task_done is published and, unless the task *)
(* is silent or was cancelled, the notifier is awaited.                    *)
ServeEvent(t) ==
  /\ Heads("event") /\ Head(dbq).who = t
  /\ cpc[t] = "event"
  /\ doneRow' = doneRow \union {t}
  /\ announced' = [announced EXCEPT ![t] = @ \union {outcome[t]}]
  /\ cpc' = [cpc EXCEPT ![t] =
               IF outcome[t] = "cancelled" \/ t \in Silent THEN "gone" ELSE "notify"]
  /\ dbq' = Tail(dbq)
  /\ UNCHANGED <<status, pool, outcome, caller, outages, claims, notice>>

(* Notifier.task_finished: each tier fails on its own, the call returns.   *)
Notify(t) ==
  /\ cpc[t] = "notify"
  /\ notice' = [notice EXCEPT ![t] = outcome[t]]
  /\ cpc' = [cpc EXCEPT ![t] = "gone"]
  /\ UNCHANGED <<durable, dbq, pool, outcome, caller, outages, claims, announced>>

(* What a suspended child does with a CancelledError: only the one raised  *)
(* inside run_turn is caught; anywhere else it ends the child.             *)
Interrupted(pc) ==
  CASE pc \in {"turn", "closing"} -> "closing"
    [] pc = "none"                -> "none"
    [] OTHER                      -> "gone"

-----------------------------------------------------------------------------
(* WorkerPool.cancel(task_id).                                             *)

CancelCall(k, t) ==
  /\ kpc[k] = "idle"
  /\ status[t] # "absent"
  /\ kpc' = [kpc EXCEPT ![k] = "get"]
  /\ ktask' = [ktask EXCEPT ![k] = t]
  /\ dbq' = Ask("get", k)
  /\ UNCHANGED <<durable, pool, child, kres, outages, history>>

Return(k, answer) ==
  /\ kpc' = [kpc EXCEPT ![k] = "returned"]
  /\ kres' = [kres EXCEPT ![k] = answer]

(* get_task answered; the rest of cancel() up to its next await.           *)
ServeGet(k) ==
  /\ Heads("get") /\ Head(dbq).who = k
  /\ kpc[k] = "get"
  /\ LET t == ktask[k] IN
       \/ /\ status[t] \in Terminal
          /\ Return(k, FALSE)
          /\ dbq' = Tail(dbq)
          /\ UNCHANGED cpc
       \/ /\ status[t] \notin Terminal
          /\ t \in running
          /\ cpc' = [cpc EXCEPT ![t] = Interrupted(@)]
          /\ Return(k, TRUE)
          /\ dbq' = Tail(dbq)
       \/ /\ status[t] = "queued"
          /\ t \notin running
          /\ kpc' = [kpc EXCEPT ![k] = "overwrite"]
          /\ dbq' = Append(Tail(dbq), [op |-> "overwrite", who |-> k])
          /\ UNCHANGED <<kres, cpc>>
       \/ /\ status[t] = "running"
          /\ t \notin running
          /\ Return(k, FALSE)
          /\ dbq' = Tail(dbq)
          /\ UNCHANGED cpc
  /\ UNCHANGED <<durable, pool, outcome, ktask, outages, history>>

(* update_task(status='cancelled'): no condition on the row it finds.      *)
ServeOverwrite(k) ==
  /\ Heads("overwrite") /\ Head(dbq).who = k
  /\ kpc[k] = "overwrite"
  /\ status' = [status EXCEPT ![ktask[k]] = "cancelled"]
  /\ announced' = [announced EXCEPT ![ktask[k]] = @ \union {"cancelled"}]
  /\ Return(k, TRUE)
  /\ dbq' = Tail(dbq)
  /\ UNCHANGED <<doneRow, pool, child, ktask, outages, claims, notice>>

-----------------------------------------------------------------------------
(* stop(): cancels every child, then every worker.  A worker suspended on  *)
(* its child stays until the child is over.  A statement that the cancel   *)
(* overtakes while it is being executed is this step taken right after it. *)
Stop ==
  /\ outages < MaxOutages
  /\ ~stopping
  /\ stopping' = TRUE
  /\ cpc' = [t \in Task |-> Interrupted(cpc[t])]
  /\ wpc' = [w \in Worker |-> IF wpc[w] = "awaiting" THEN "awaiting" ELSE "off"]
  /\ UNCHANGED <<durable, dbq, wtask, running, wake, outcome, caller, outages,
                 history>>

(* The process ends, after stop() or by dying, and is booted again: only   *)
(* the database survives, and nothing at boot looks at running rows.       *)
Reboot ==
  /\ outages < MaxOutages
  /\ outages' = outages + 1
  /\ dbq' = <<>>
  /\ wpc' = [w \in Worker |-> "off"]
  /\ wtask' = [w \in Worker |-> 0]
  /\ cpc' = [t \in Task |-> IF cpc[t] = "none" THEN "none" ELSE "gone"]
  /\ running' = {}
  /\ wake' = FALSE
  /\ kpc' = [k \in Canceller |-> IF kpc[k] \in {"get", "overwrite"} THEN "lost" ELSE kpc[k]]
  /\ stopping' = FALSE
  /\ UNCHANGED <<durable, outcome, ktask, kres, history>>

-----------------------------------------------------------------------------
Child(t) == ServeConversation(t) \/ TurnEnds(t) \/ TurnClosed(t) \/ ServeUpdate(t)
            \/ ServeEvent(t) \/ Notify(t)

Loop(w) == Begin(w) \/ Awake(w) \/ Reap(w)

Cancel(k) == (\E t \in Task : CancelCall(k, t)) \/ ServeGet(k) \/ ServeOverwrite(k)

Next ==
  \/ Husk
  \/ WakeSubtasks
  \/ ServeClaimEmpty
  \/ Stop
  \/ Reboot
  \/ \E t \in Task : Submit(t) \/ SubmitSubtask(t) \/ ServeClaim(t) \/ Child(t)
  \/ \E w \in Worker : Loop(w)
  \/ \E k \in Canceller : Cancel(k)

Spec == Init /\ [][Next]_vars

(* The loop keeps scheduling: the lock is handed on, timers fire, a turn   *)
(* ends (it is capped by max_iterations and by the stream timeouts).       *)
(* Submissions, cancels and outages are nobody's duty.                     *)
Fairness ==
  /\ WF_vars(Husk \/ ServeClaimEmpty \/ \E t \in Task : ServeClaim(t))
  /\ \A t \in Task : WF_vars(Child(t))
  /\ \A w \in Worker : WF_vars(Loop(w))
  /\ \A k \in Canceller : WF_vars(ServeGet(k) \/ ServeOverwrite(k))

FairSpec == Spec /\ Fairness

-----------------------------------------------------------------------------
(* Properties.                                                             *)

(* A row that a run has finished (done, failed) is never restamped: a      *)
(* cancel() that read it as queued cannot land after the run's own verdict,*)
(* because the FIFO lock puts its update ahead of every call of the child. *)
DoneIsFinal ==
  [][\A t \in Task : status[t] \in {"done", "failed"} => status'[t] = status[t]]_vars

(* What the owner is told about a task is what its row says from then on,  *)
(* and the row's event log already holds the end of the task.              *)
NoticeIsTrue ==
  \A t \in Task : notice[t] # "none" => t \in doneRow /\ status[t] = notice[t]

(* No row is run twice, over restarts too, and no two workers await the    *)
(* same child.                                                             *)
OneRun ==
  /\ \A t \in Task : claims[t] <= 1
  /\ \A v, w \in Worker :
       wpc[v] = "awaiting" /\ wpc[w] = "awaiting" /\ wtask[v] = wtask[w] => v = w

(* A child that has not ended is in WorkerPool._running and a worker       *)
(* awaits it: cancel() and stop() can reach every run there is.            *)
ChildReachable ==
  \A t \in Task : cpc[t] \notin {"none", "gone"} =>
    t \in running /\ \E w \in Worker : wpc[w] = "awaiting" /\ wtask[w] = t

(* The pool is work-conserving: while a task the owner started is queued,  *)
(* no worker sits in its five-second wait.                                 *)
NoIdleWorker ==
  (\E t \in Task \ Silent : status[t] = "queued") => \A w \in Worker : wpc[w] # "waiting"

(* Every row added is decided, as long as nobody cancels that row and the  *)
(* process lives; and no child costs the pool the worker that awaits it,   *)
(* be it cancelled before its turn, in it or after it: the worker goes     *)
(* back to claiming.                                                       *)
Down == stopping \/ outages > 0

EveryTaskDecided ==
  /\ \A t \in Task : status[t] = "queued" ~>
       (status[t] \in {"done", "failed"} \/ Down \/ \E k \in Canceller : ktask[k] = t)
  /\ \A w \in Worker : wpc[w] = "awaiting" ~> (wpc[w] = "claim" \/ Down)

(* Whoever hears task_done on the bus finds a terminal row: the            *)
(* orchestrator reads its subtasks' results on nothing but that event.     *)
AnnouncedIsTerminal ==
  \A t \in Task : announced[t] # {} => status[t] \in Terminal

(* What the task board sees of a child.                                    *)
Seen(pc) == CASE pc = "none"        -> "none"
              [] pc \in Undecided  -> "live"
              [] OTHER             -> "over"

Runner == [t \in Task |-> Seen(cpc[t])]

Board == INSTANCE TaskBoard WITH runner <- Runner

(* The pool implements the task board its callers are written against.     *)
ImplementsBoard == Board!BoardSpec

-----------------------------------------------------------------------------
(* The inductive invariant behind the properties above.                    *)

(* The database call a fresh child makes first.                            *)
FirstCall(t) == [op |-> "conversation", who |-> t]

NoFirstCall(q, t) == \A j \in 1..Len(q) : q[j] # FirstCall(t)

(* The cancel call k has its update ahead, in lock order, of the first     *)
(* database call of the child of t.                                        *)
Ahead(q, k, t) ==
  \E i \in 1..Len(q) :
    /\ q[i] = [op |-> "overwrite", who |-> k]
    /\ \A j \in 1..Len(q) : q[j] = FirstCall(t) => i < j

UnclaimedInv ==
  \A t \in Task :
    /\ status[t] \in {"absent", "queued"} => cpc[t] = "none"
    /\ cpc[t] = "none" => claims[t] = 0 /\ NoFirstCall(dbq, t)
    /\ cpc[t] # "none" => claims[t] = 1

ChildInv ==
  \A t \in Task :
    /\ cpc[t] \in Undecided => status[t] \in {"running", "cancelled"}
    /\ cpc[t] \in {"event", "notify"} => status[t] = outcome[t]
    /\ cpc[t] = "notify" => t \in doneRow /\ outcome[t] \in {"done", "failed"}

NoticeInv ==
  \A t \in Task : notice[t] # "none" =>
    /\ t \in doneRow
    /\ status[t] = notice[t]
    /\ status[t] \in {"done", "failed"}
    /\ cpc[t] = "gone"

(* A cancel() that saw the row queued overtakes everything the child may   *)
(* ever write.                                                             *)
OverwriteInv ==
  \A k \in Canceller : kpc[k] = "overwrite" =>
    /\ ktask[k] \in Task
    /\ status[ktask[k]] \in {"queued", "running", "cancelled"}
    /\ cpc[ktask[k]] \in {"none", "conversation", "gone"}
    /\ Ahead(dbq, k, ktask[k])

AwaitInv ==
  /\ \A w \in Worker : wpc[w] = "awaiting" => wtask[w] \in Task /\ cpc[wtask[w]] # "none"
  /\ \A v, w \in Worker :
       wpc[v] = "awaiting" /\ wpc[w] = "awaiting" /\ wtask[v] = wtask[w] => v = w
  /\ \A k \in Canceller : kpc[k] = "get" => ktask[k] \in Task

IInv ==
  /\ TypeOK
  /\ UnclaimedInv
  /\ ChildInv
  /\ NoticeInv
  /\ OverwriteInv
  /\ AwaitInv
  /\ ChildReachable
  /\ AnnouncedIsTerminal

-----------------------------------------------------------------------------
(* Statements of the source that the code does not keep.                   *)

(* tools/tasks.py:64 "Cancel a queued or running background task." : a     *)
(* task that was cancelled ends up in a terminal status.                   *)
CancelDecides ==
  \A k \in Canceller, t \in Task :
    (kpc[k] = "returned" /\ kres[k] /\ ktask[k] = t) ~> status[t] \in Terminal
=============================================================================
