------------------------- MODULE Orchestrator_proofs -------------------------
(* What a finished project leaves behind, for any number of projects,      *)
(* tasks, plans, cancel() calls and restarts.                              *)
EXTENDS Orchestrator, WellFoundedInduction, TLAPS

(* The task that is next is one of those that are listed.                  *)
LEMMA MinIsIn ==
  ASSUME NEW T, T \subseteq Nat, T # {}
  PROVE  Min(T) \in T
<1> DEFINE R == OpToRel(<, Nat)
<1>1. IsWellFoundedOn(R, Nat)
  BY NatLessThanWellFounded
<1>2. \A y, x \in Nat : y < x => <<y, x>> \in R
  BY DEF OpToRel
<1> HIDE DEF R
<1>3. PICK x \in T : \A y \in T : ~(<<y, x>> \in R)
  BY <1>1, WFMin
<1>4. \A y \in T : ~(y < x)
  BY <1>2, <1>3
<1>5. \A y \in T : x <= y
  BY <1>4
<1>6. QED
  BY <1>5 DEF Min

BoardStatus == {"absent", "queued", "running"} \union Terminal
Runner == {"none", "live", "over"}

(* Where a child is before it has planned, while its subtasks may be       *)
(* undecided, and once its report may be written.                          *)
Early     == {"none", "planning", "start"}
Working   == {"adding", "wait"}
Sweeping  == {"sweep", "stamp"}
Reporting == {"integrate", "report", "finish"}
Ending    == {"fail", "announce", "mark", "gone"}
ChildPc   == Early \union Working \union Sweeping \union Reporting \union Ending \union {"closing", "killed"}

OrchTypeOK ==
  /\ status \in [Task -> BoardStatus] /\ runner \in [Task -> Runner]
  /\ owner \in [Task -> Project \union {0}] /\ asked \in SUBSET Task
  /\ pstatus \in [Project -> PStatus] /\ ppc \in [Project -> ChildPc]
  /\ why \in [Project -> {"", "raised", "timeout", "cancel"}]
  /\ left \in [Project -> Nat]
  /\ pending \in [Project -> SUBSET Task] /\ todo \in [Project -> SUBSET Task]

LoopTypeOK ==
  /\ rpc \in {"claim", "waiting", "awaiting", "off"} /\ rproj \in Project \union {0}
  /\ rpc = "awaiting" => rproj \in Project
  /\ stopping \in BOOLEAN /\ outages \in Nat
  /\ kpc \in [Canceller -> {"idle", "overwrite", "returned", "lost"}]
  /\ kproj \in [Canceller -> Project \union {0}] /\ kres \in [Canceller -> BOOLEAN]
  /\ \A k \in Canceller : kpc[k] = "overwrite" => kproj[k] \in Project

(* A row and its run: a result is the last word of a run that is over.     *)
RowInv ==
  \A t \in Task :
    /\ status[t] \in {"absent", "queued"} => runner[t] = "none"
    /\ status[t] = "done" => runner[t] = "over"
    /\ status[t] = "absent" => owner[t] = 0

(* A child and its subtasks: whoever may still be undecided is in pending  *)
(* while they are waited for, whoever is queued in todo while they are     *)
(* cancelled.                                                              *)
Decided(p) == Undecided(Subtasks(p)) = {} /\ \E t \in Subtasks(p) : status[t] = "done"

ChildInv(p) ==
  /\ pstatus[p] \in {"absent", "queued"} => ppc[p] = "none"
  /\ ppc[p] \in Early => Subtasks(p) = {}
  /\ ppc[p] \in {"start", "adding"} => left[p] # 0
  /\ ppc[p] \in Working => \A t \in Subtasks(p) : status[t] \notin Terminal => t \in pending[p]
  /\ ppc[p] \in Sweeping => \A t \in Subtasks(p) : status[t] = "queued" => t \in todo[p]
  /\ ppc[p] = "stamp" => todo[p] # {}
  /\ ppc[p] \in Ending => \A t \in Subtasks(p) : status[t] # "queued"
  /\ ppc[p] \in Reporting => Decided(p)
  /\ pstatus[p] \in {"integrating", "done"} => ppc[p] \notin Early \union Working /\ Decided(p)

OrchInv == OrchTypeOK /\ LoopTypeOK /\ RowInv /\ \A p \in Project : ChildInv(p)

(* The tasks and the plans' sizes are numbers.                             *)
LEMMA Numbers ==
  /\ Task \subseteq Nat /\ 0 \notin Project
  /\ \A n \in 1 .. MaxPlan : n \in Nat \ {0}
<1>1. MaxTask \in Nat /\ MaxProject \in Nat /\ MaxPlan \in Nat
  BY OrchestratorAssumption
<1>2. QED
  BY <1>1 DEF Task, Project

(* No project exists.                                                      *)
LEMMA OrchStart == Init => OrchInv
<1> SUFFICES ASSUME Init PROVE OrchInv
  OBVIOUS
<1> USE DEF Init, BoardInit
<1>1. OrchTypeOK
  BY DEF OrchTypeOK, BoardStatus, Runner, PStatus, ChildPc, Early
<1>2. LoopTypeOK
  BY DEF LoopTypeOK
<1>3. RowInv
  BY DEF RowInv
<1>4. \A p \in Project : Subtasks(p) = {}
  BY Numbers DEF Subtasks
<1>5. \A p \in Project : ChildInv(p)
  BY <1>4 DEF ChildInv, Early, Working, Sweeping, Ending, Reporting
<1>6. QED
  BY <1>1, <1>2, <1>3, <1>5 DEF OrchInv
-----------------------------------------------------------------------------
(* What happens to the rows of a project while its child stays where it    *)
(* is, or is interrupted.                                                  *)

(* A row never goes back.                                                  *)
Onward(t) ==
  /\ status[t] \in Terminal => status'[t] \in Terminal
  /\ status[t] = "done" => status'[t] = "done"
  /\ status[t] \notin {"absent", "queued"} => status'[t] # "queued"

(* A child whose subtasks only move on, or that is interrupted, is where its invariant says.*)
LEMMA ChildKept ==
  ASSUME OrchInv, NEW p \in Project,
         Subtasks(p)' = Subtasks(p), \A t \in Subtasks(p) : Onward(t),
         pstatus'[p] \in {pstatus[p], "cancelled"},
         \/ ppc'[p] = ppc[p]
         \/ ppc[p] \notin Over /\ ppc'[p] \in {"closing", "killed"},
         \/ left'[p] = left[p] /\ pending'[p] = pending[p] /\ todo'[p] = todo[p]
         \/ ppc'[p] \in Over
  PROVE  ChildInv(p)'
<1> USE DEF Early, Working, Sweeping, Ending, Reporting, Over
<1>1. ChildInv(p) /\ \A t \in Subtasks(p) : status[t] # "absent"
  BY DEF OrchInv, RowInv, Subtasks, Project
<1>2. Decided(p) => Decided(p)'
  BY <1>1 DEF Decided, Undecided, Onward
<1>3. \A t \in Subtasks(p) : /\ status'[t] \notin Terminal => status[t] \notin Terminal
                             /\ status'[t] = "queued" => status[t] = "queued"
  BY <1>1 DEF Onward
<1>4. QED
  BY <1>1, <1>2, <1>3 DEF ChildInv

(* The pool and the owner move a row, or a run ends.                       *)
LEMMA TaskStep ==
  ASSUME OrchInv, NEW t \in Task,
         TaskClaimed(t) \/ TaskFinishes(t) \/ TaskVanishes(t) \/ OwnerCancels(t)
  PROVE  OrchInv'
<1>1. /\ UNCHANGED <<owner, pstatus, ppc, why, left, pending, todo, rpc, rproj, stopping, kpc, kproj, kres, outages>>
      /\ asked' \in {asked, asked \union {t}}
  BY DEF TaskClaimed, TaskFinishes, TaskVanishes, OwnerCancels, loop, child, caller
<1>2. OrchTypeOK /\ RowInv /\ LoopTypeOK
  BY DEF OrchInv
<1>3. \/ status' = status
      \/ status[t] = "queued" /\ status' = [status EXCEPT ![t] = "running"]
      \/ status[t] = "queued" /\ status' = [status EXCEPT ![t] = "cancelled"]
      \/ runner[t] = "live" /\ \E s \in Terminal : status' = [status EXCEPT ![t] = s]
  BY DEF TaskClaimed, TaskFinishes, TaskVanishes, OwnerCancels, Claim, Finish, CancelQueued, bvars
<1>4. /\ status' \in [Task -> BoardStatus] /\ \A s \in Task : s # t => status'[s] = status[s]
      /\ status[t] = "absent" => status'[t] = "absent"
      /\ Onward(t)
  BY <1>2, <1>3 DEF OrchTypeOK, RowInv, BoardStatus, Terminal, Onward
<1>5. /\ runner' \in [Task -> Runner] /\ \A s \in Task : s # t => runner'[s] = runner[s]
      /\ status'[t] \in {"absent", "queued"} => runner'[t] = "none"
      /\ status'[t] = "done" => runner'[t] = "over"
  <2>1. CASE TaskClaimed(t)
    BY <1>2, <2>1 DEF TaskClaimed, Claim, OrchTypeOK, RowInv, Runner, BoardStatus
  <2>2. CASE TaskFinishes(t)
    BY <1>2, <2>2 DEF TaskFinishes, Finish, OrchTypeOK, RowInv, Runner, Terminal
  <2>3. CASE TaskVanishes(t)
    BY <1>2, <2>3 DEF TaskVanishes, OrchTypeOK, RowInv, Runner
  <2>4. CASE OwnerCancels(t)
    BY <1>2, <2>4 DEF OwnerCancels, CancelQueued, bvars, OrchTypeOK, RowInv, Runner
  <2>5. QED
    BY <2>1, <2>2, <2>3, <2>4
<1>6. OrchTypeOK' /\ LoopTypeOK'
  BY <1>1, <1>2, <1>4, <1>5 DEF OrchTypeOK, LoopTypeOK
<1>7. RowInv'
  BY <1>1, <1>2, <1>3, <1>4, <1>5 DEF RowInv, OrchTypeOK, Terminal
<1>8. \A s \in Task : Onward(s)
  BY <1>4 DEF Onward
<1>9. \A p \in Project : Subtasks(p)' = Subtasks(p)
  BY <1>1 DEF Subtasks
<1>10. \A p \in Project : ChildInv(p)'
  BY <1>1, <1>8, <1>9, ChildKept DEF Subtasks
<1>11. QED
  BY <1>6, <1>7, <1>10 DEF OrchInv
-----------------------------------------------------------------------------
(* A step that leaves the rows alone moves one child.                      *)
LEMMA RowsStay ==
  ASSUME OrchInv, UNCHANGED <<status, runner, owner>>
  PROVE  RowInv' /\ (\A p \in Project : Subtasks(p)' = Subtasks(p) /\ Undecided(Subtasks(p))' = Undecided(Subtasks(p)))
         /\ \A p \in Project : (\A t \in Subtasks(p) : Onward(t)) /\ (Decided(p)' <=> Decided(p))
<1>1. RowInv'
  BY DEF OrchInv, RowInv
<1>2. \A p \in Project : Subtasks(p)' = Subtasks(p) /\ Undecided(Subtasks(p))' = Undecided(Subtasks(p))
  BY DEF Subtasks, Undecided
<1>3. \A p \in Project : \A t \in Subtasks(p) : Onward(t)
  BY DEF Onward
<1>4. \A p \in Project : Decided(p)' <=> Decided(p)
  BY <1>2 DEF Decided
<1>5. QED
  BY <1>1, <1>2, <1>3, <1>4

(* A step of one project leaves the other projects' children alone.        *)
LEMMA OthersKept ==
  ASSUME OrchInv, NEW p \in Project, UNCHANGED <<status, runner, owner>>,
         \A q \in Project : q # p => /\ pstatus'[q] = pstatus[q] /\ ppc'[q] = ppc[q] /\ left'[q] = left[q]
                                     /\ pending'[q] = pending[q] /\ todo'[q] = todo[q],
         ChildInv(p)', OrchTypeOK', LoopTypeOK'
  PROVE  OrchInv'
<1>1. RowInv' /\ \A q \in Project : Subtasks(q)' = Subtasks(q) /\ \A t \in Subtasks(q) : Onward(t)
  BY RowsStay
<1>2. \A q \in Project : q # p => ChildInv(q)'
  BY <1>1, ChildKept
<1>3. QED
  BY <1>1, <1>2 DEF OrchInv

(* start_project and the loop's claim: nothing has been done for a project *)
(* whose row was not there or queued.                                      *)
LEMMA QueueStep ==
  ASSUME OrchInv, NEW p \in Project, Submit(p) \/ ClaimProject(p)
  PROVE  OrchInv'
<1> USE DEF Early, Working, Sweeping, Ending, Reporting
<1>1. OrchTypeOK /\ LoopTypeOK /\ ChildInv(p)
  BY DEF OrchInv
<1>2. /\ UNCHANGED <<status, runner, owner, asked, why, left, pending, todo, stopping, kpc, kproj, kres, outages>>
      /\ \E s \in {"queued", "planning"} :
           /\ pstatus' = [pstatus EXCEPT ![p] = s]
           /\ s = "queued" => ppc' = ppc
           /\ s = "planning" => ppc' = [ppc EXCEPT ![p] = "planning"]
      /\ pstatus[p] \in {"absent", "queued"}
  BY DEF Submit, ClaimProject, Row, Goes, tasks, child, caller
<1>3. OrchTypeOK'
  BY <1>1, <1>2 DEF OrchTypeOK, PStatus, ChildPc
<1>4. LoopTypeOK'
  BY <1>1, <1>2 DEF Submit, ClaimProject, LoopTypeOK
<1>5. Subtasks(p)' = Subtasks(p)
  BY <1>2, RowsStay
<1>6. ChildInv(p)'
  BY <1>1, <1>2, <1>5 DEF ChildInv, OrchTypeOK
<1>7. QED
  BY <1>1, <1>2, <1>3, <1>4, <1>6, OthersKept DEF OrchTypeOK

(* The child's own steps that leave the subtasks alone.                    *)
LEMMA ChildStep ==
  ASSUME OrchInv, NEW p \in Project,
         \/ Plan(p) \/ Starts(p) \/ Polls(p) \/ TimesOut(p) \/ Collects(p) \/ Integrates(p) \/ Reports(p)
         \/ Concludes(p) \/ Announces(p) \/ Closes(p) \/ Sweeps(p) \/ Marks(p)
         \/ \E t \in Task : Hears(p, t)
  PROVE  OrchInv'
<1> DEFINE Others == \A q \in Project : q # p =>
             /\ pstatus'[q] = pstatus[q] /\ ppc'[q] = ppc[q] /\ left'[q] = left[q]
             /\ pending'[q] = pending[q] /\ todo'[q] = todo[q]
<1>1. OrchTypeOK /\ LoopTypeOK /\ ChildInv(p) /\ RowInv
  BY DEF OrchInv
<1>2. UNCHANGED <<status, runner, owner, rpc, rproj, stopping, kpc, kproj, kres, outages>>
  BY DEF Plan, Starts, Polls, TimesOut, Collects, Integrates, Reports, Concludes, Announces, Closes,
         Sweeps, Marks, Hears, tasks, loop, caller, bvars
<1>3. LoopTypeOK'
  BY <1>1, <1>2 DEF LoopTypeOK
<1>4. /\ Subtasks(p)' = Subtasks(p) /\ (Decided(p)' <=> Decided(p))
      /\ Subtasks(p) \in SUBSET Task /\ Undecided(Subtasks(p)) \in SUBSET Task
      /\ \A t \in Subtasks(p) : status'[t] = status[t] /\ (t \in Undecided(Subtasks(p)) <=> status[t] \notin Terminal)
      /\ Undecided(pending[p]) \in SUBSET Task /\ Undecided(Subtasks(p)) \subseteq Subtasks(p)
      /\ Decided(p) => \A t \in Subtasks(p) : status[t] \in Terminal
      /\ \A t \in pending[p] : (t \in Undecided(pending[p]) <=> status[t] \notin Terminal)
  BY <1>1, <1>2, RowsStay DEF Subtasks, Undecided, Decided, OrchTypeOK
<1>5. SUFFICES OrchTypeOK' /\ Others /\ ChildInv(p)'
  BY <1>2, <1>3, OthersKept
<1> USE DEF Goes, Row, Early, Working, Sweeping, Ending, Reporting
<1>6. CASE Plan(p)
  <2>1. pstatus' \in [Project -> PStatus] /\ ppc' \in [Project -> ChildPc]
    BY <1>1, <1>6 DEF Plan, OrchTypeOK, ChildPc, PStatus, Terminal
  <2>2. why' \in [Project -> {"", "raised", "timeout", "cancel"}] /\ left' \in [Project -> Nat]
    BY <1>1, <1>6, Numbers DEF Plan, OrchTypeOK
  <2>3. asked' \in SUBSET Task /\ pending' \in [Project -> SUBSET Task] /\ todo' \in [Project -> SUBSET Task]
    BY <1>1, <1>2, <1>4, <1>6 DEF Plan, OrchTypeOK, tasks, bvars
  <2>4. Others
    BY <1>1, <1>6 DEF Plan, OrchTypeOK
  <2>5. ChildInv(p)'
    BY <1>1, <1>2, <1>4, <1>6, Numbers DEF Plan, ChildInv, OrchTypeOK, Terminal
  <2>6. QED
    BY <1>1, <1>2, <2>1, <2>2, <2>3, <2>4, <2>5 DEF OrchTypeOK
<1>7. CASE Starts(p)
  <2>1. pstatus' \in [Project -> PStatus] /\ ppc' \in [Project -> ChildPc]
    BY <1>1, <1>7 DEF Starts, OrchTypeOK, ChildPc, PStatus, Terminal
  <2>2. why' \in [Project -> {"", "raised", "timeout", "cancel"}] /\ left' \in [Project -> Nat]
    BY <1>1, <1>7 DEF Starts, OrchTypeOK
  <2>3. asked' \in SUBSET Task /\ pending' \in [Project -> SUBSET Task] /\ todo' \in [Project -> SUBSET Task]
    BY <1>1, <1>2, <1>4, <1>7 DEF Starts, OrchTypeOK, tasks, bvars
  <2>4. Others
    BY <1>1, <1>7 DEF Starts, OrchTypeOK
  <2>5. ChildInv(p)'
    BY <1>1, <1>2, <1>4, <1>7 DEF Starts, ChildInv, OrchTypeOK, Terminal
  <2>6. QED
    BY <1>1, <1>2, <2>1, <2>2, <2>3, <2>4, <2>5 DEF OrchTypeOK
<1>8. CASE Polls(p)
  <2>1. pstatus' \in [Project -> PStatus] /\ ppc' \in [Project -> ChildPc]
    BY <1>1, <1>8 DEF Polls, OrchTypeOK, ChildPc, PStatus, Terminal
  <2>2. why' \in [Project -> {"", "raised", "timeout", "cancel"}] /\ left' \in [Project -> Nat]
    BY <1>1, <1>8 DEF Polls, OrchTypeOK
  <2>3. asked' \in SUBSET Task /\ pending' \in [Project -> SUBSET Task] /\ todo' \in [Project -> SUBSET Task]
    BY <1>1, <1>2, <1>4, <1>8 DEF Polls, OrchTypeOK, tasks, bvars
  <2>4. Others
    BY <1>1, <1>8 DEF Polls, OrchTypeOK
  <2>5. ChildInv(p)'
    BY <1>1, <1>2, <1>4, <1>8 DEF Polls, ChildInv, OrchTypeOK, Terminal
  <2>6. QED
    BY <1>1, <1>2, <2>1, <2>2, <2>3, <2>4, <2>5 DEF OrchTypeOK
<1>9. CASE TimesOut(p)
  <2>1. pstatus' \in [Project -> PStatus] /\ ppc' \in [Project -> ChildPc]
    BY <1>1, <1>9 DEF TimesOut, OrchTypeOK, ChildPc, PStatus, Terminal
  <2>2. why' \in [Project -> {"", "raised", "timeout", "cancel"}] /\ left' \in [Project -> Nat]
    BY <1>1, <1>9 DEF TimesOut, OrchTypeOK
  <2>3. asked' \in SUBSET Task /\ pending' \in [Project -> SUBSET Task] /\ todo' \in [Project -> SUBSET Task]
    BY <1>1, <1>2, <1>4, <1>9 DEF TimesOut, OrchTypeOK, tasks, bvars
  <2>4. Others
    BY <1>1, <1>9 DEF TimesOut, OrchTypeOK
  <2>5. ChildInv(p)'
    BY <1>1, <1>2, <1>4, <1>9 DEF TimesOut, ChildInv, OrchTypeOK, Terminal
  <2>6. QED
    BY <1>1, <1>2, <2>1, <2>2, <2>3, <2>4, <2>5 DEF OrchTypeOK
<1>10. CASE Collects(p)
  <2>0. pending[p] = {} /\ ppc[p] = "wait" => Undecided(Subtasks(p)) = {}
    BY <1>1, <1>4 DEF ChildInv
  <2>1. pstatus' \in [Project -> PStatus] /\ ppc' \in [Project -> ChildPc]
    BY <1>1, <1>10 DEF Collects, OrchTypeOK, ChildPc, PStatus, Terminal
  <2>2. why' \in [Project -> {"", "raised", "timeout", "cancel"}] /\ left' \in [Project -> Nat]
    BY <1>1, <1>10 DEF Collects, OrchTypeOK
  <2>3. asked' \in SUBSET Task /\ pending' \in [Project -> SUBSET Task] /\ todo' \in [Project -> SUBSET Task]
    BY <1>1, <1>2, <1>4, <1>10 DEF Collects, OrchTypeOK, tasks, bvars
  <2>4. Others
    BY <1>1, <1>10 DEF Collects, OrchTypeOK
  <2>5. ChildInv(p)'
    BY <1>1, <1>2, <1>4, <1>10, <2>0 DEF Collects, ChildInv, OrchTypeOK, Terminal, Decided
  <2>6. QED
    BY <1>1, <1>2, <2>1, <2>2, <2>3, <2>4, <2>5 DEF OrchTypeOK
<1>11. CASE Integrates(p)
  <2>1. pstatus' \in [Project -> PStatus] /\ ppc' \in [Project -> ChildPc]
    BY <1>1, <1>11 DEF Integrates, OrchTypeOK, ChildPc, PStatus, Terminal
  <2>2. why' \in [Project -> {"", "raised", "timeout", "cancel"}] /\ left' \in [Project -> Nat]
    BY <1>1, <1>11 DEF Integrates, OrchTypeOK
  <2>3. asked' \in SUBSET Task /\ pending' \in [Project -> SUBSET Task] /\ todo' \in [Project -> SUBSET Task]
    BY <1>1, <1>2, <1>4, <1>11 DEF Integrates, OrchTypeOK, tasks, bvars
  <2>4. Others
    BY <1>1, <1>11 DEF Integrates, OrchTypeOK
  <2>5. ChildInv(p)'
    BY <1>1, <1>2, <1>4, <1>11 DEF Integrates, ChildInv, OrchTypeOK, Terminal
  <2>6. QED
    BY <1>1, <1>2, <2>1, <2>2, <2>3, <2>4, <2>5 DEF OrchTypeOK
<1>12. CASE Reports(p)
  <2>1. pstatus' \in [Project -> PStatus] /\ ppc' \in [Project -> ChildPc]
    BY <1>1, <1>12 DEF Reports, OrchTypeOK, ChildPc, PStatus, Terminal
  <2>2. why' \in [Project -> {"", "raised", "timeout", "cancel"}] /\ left' \in [Project -> Nat]
    BY <1>1, <1>12 DEF Reports, OrchTypeOK
  <2>3. asked' \in SUBSET Task /\ pending' \in [Project -> SUBSET Task] /\ todo' \in [Project -> SUBSET Task]
    BY <1>1, <1>2, <1>4, <1>12 DEF Reports, OrchTypeOK, tasks, bvars
  <2>4. Others
    BY <1>1, <1>12 DEF Reports, OrchTypeOK
  <2>5. ChildInv(p)'
    BY <1>1, <1>2, <1>4, <1>12 DEF Reports, ChildInv, OrchTypeOK, Terminal
  <2>6. QED
    BY <1>1, <1>2, <2>1, <2>2, <2>3, <2>4, <2>5 DEF OrchTypeOK
<1>13. CASE Concludes(p)
  <2>1. pstatus' \in [Project -> PStatus] /\ ppc' \in [Project -> ChildPc]
    BY <1>1, <1>13 DEF Concludes, OrchTypeOK, ChildPc, PStatus, Terminal
  <2>2. why' \in [Project -> {"", "raised", "timeout", "cancel"}] /\ left' \in [Project -> Nat]
    BY <1>1, <1>13 DEF Concludes, OrchTypeOK
  <2>3. asked' \in SUBSET Task /\ pending' \in [Project -> SUBSET Task] /\ todo' \in [Project -> SUBSET Task]
    BY <1>1, <1>2, <1>4, <1>13 DEF Concludes, OrchTypeOK, tasks, bvars
  <2>4. Others
    BY <1>1, <1>13 DEF Concludes, OrchTypeOK
  <2>5. ChildInv(p)'
    BY <1>1, <1>2, <1>4, <1>13 DEF Concludes, ChildInv, OrchTypeOK, Terminal
  <2>6. QED
    BY <1>1, <1>2, <2>1, <2>2, <2>3, <2>4, <2>5 DEF OrchTypeOK
<1>14. CASE Announces(p)
  <2>1. pstatus' \in [Project -> PStatus] /\ ppc' \in [Project -> ChildPc]
    BY <1>1, <1>14 DEF Announces, OrchTypeOK, ChildPc, PStatus, Terminal
  <2>2. why' \in [Project -> {"", "raised", "timeout", "cancel"}] /\ left' \in [Project -> Nat]
    BY <1>1, <1>14 DEF Announces, OrchTypeOK
  <2>3. asked' \in SUBSET Task /\ pending' \in [Project -> SUBSET Task] /\ todo' \in [Project -> SUBSET Task]
    BY <1>1, <1>2, <1>4, <1>14 DEF Announces, OrchTypeOK, tasks, bvars
  <2>4. Others
    BY <1>1, <1>14 DEF Announces, OrchTypeOK
  <2>5. ChildInv(p)'
    BY <1>1, <1>2, <1>4, <1>14 DEF Announces, ChildInv, OrchTypeOK, Terminal
  <2>6. QED
    BY <1>1, <1>2, <2>1, <2>2, <2>3, <2>4, <2>5 DEF OrchTypeOK
<1>15. CASE Closes(p)
  <2>1. pstatus' \in [Project -> PStatus] /\ ppc' \in [Project -> ChildPc]
    BY <1>1, <1>15 DEF Closes, OrchTypeOK, ChildPc, PStatus, Terminal
  <2>2. why' \in [Project -> {"", "raised", "timeout", "cancel"}] /\ left' \in [Project -> Nat]
    BY <1>1, <1>15 DEF Closes, OrchTypeOK
  <2>3. asked' \in SUBSET Task /\ pending' \in [Project -> SUBSET Task] /\ todo' \in [Project -> SUBSET Task]
    BY <1>1, <1>2, <1>4, <1>15 DEF Closes, OrchTypeOK, tasks, bvars
  <2>4. Others
    BY <1>1, <1>15 DEF Closes, OrchTypeOK
  <2>5. ChildInv(p)'
    BY <1>1, <1>2, <1>4, <1>15 DEF Closes, ChildInv, OrchTypeOK, Terminal
  <2>6. QED
    BY <1>1, <1>2, <2>1, <2>2, <2>3, <2>4, <2>5 DEF OrchTypeOK
<1>16. CASE Sweeps(p)
  <2>1. pstatus' \in [Project -> PStatus] /\ ppc' \in [Project -> ChildPc]
    BY <1>1, <1>16 DEF Sweeps, OrchTypeOK, ChildPc, PStatus, Terminal
  <2>2. why' \in [Project -> {"", "raised", "timeout", "cancel"}] /\ left' \in [Project -> Nat]
    BY <1>1, <1>16 DEF Sweeps, OrchTypeOK
  <2>3. asked' \in SUBSET Task /\ pending' \in [Project -> SUBSET Task] /\ todo' \in [Project -> SUBSET Task]
    <3>1. todo[p] \in SUBSET Task /\ Task \subseteq Nat
      BY <1>1, Numbers DEF OrchTypeOK
    <3>2. todo[p] # {} => Min(todo[p]) \in Task
      BY <3>1, MinIsIn
    <3>3. pending' = pending /\ (todo' = todo \/ todo' = [todo EXCEPT ![p] = @ \ {Min(todo[p])}])
      BY <1>16 DEF Sweeps
    <3>4. asked' = asked \/ (todo[p] # {} /\ asked' = asked \union {Min(todo[p])})
      BY <1>16 DEF Sweeps
    <3>5. QED
      BY <1>1, <3>2, <3>3, <3>4 DEF OrchTypeOK
  <2>4. Others
    BY <1>1, <1>16 DEF Sweeps, OrchTypeOK
  <2>5. ChildInv(p)'
    <3>1. ppc[p] = "sweep" /\ UNCHANGED <<pstatus, left>>
      BY <1>16 DEF Sweeps
    <3>2. CASE todo[p] = {}
      <4>1. ppc'[p] \in {"mark", "fail"}
        BY <1>1, <1>16, <3>2 DEF Sweeps, OrchTypeOK
      <4>2. QED
        BY <1>1, <1>2, <1>4, <3>1, <3>2, <4>1 DEF ChildInv
    <3>3. CASE todo[p] # {}
      <4>1. /\ ppc'[p] \in Sweeping
            /\ \A t \in todo[p] : status[t] = "queued" => t \in todo'[p]
            /\ ppc'[p] = "stamp" => todo'[p] # {}
        BY <1>1, <1>16, <3>1, <3>3 DEF Sweeps, OrchTypeOK
      <4>2. QED
        BY <1>1, <1>2, <1>4, <3>1, <4>1 DEF ChildInv
    <3>4. QED
      BY <3>2, <3>3
  <2>6. QED
    BY <1>1, <1>2, <2>1, <2>2, <2>3, <2>4, <2>5 DEF OrchTypeOK
<1>17. CASE Marks(p)
  <2>1. pstatus' \in [Project -> PStatus] /\ ppc' \in [Project -> ChildPc]
    BY <1>1, <1>17 DEF Marks, OrchTypeOK, ChildPc, PStatus, Terminal
  <2>2. why' \in [Project -> {"", "raised", "timeout", "cancel"}] /\ left' \in [Project -> Nat]
    BY <1>1, <1>17 DEF Marks, OrchTypeOK
  <2>3. asked' \in SUBSET Task /\ pending' \in [Project -> SUBSET Task] /\ todo' \in [Project -> SUBSET Task]
    BY <1>1, <1>2, <1>4, <1>17 DEF Marks, OrchTypeOK, tasks, bvars
  <2>4. Others
    BY <1>1, <1>17 DEF Marks, OrchTypeOK
  <2>5. ChildInv(p)'
    BY <1>1, <1>2, <1>4, <1>17 DEF Marks, ChildInv, OrchTypeOK, Terminal
  <2>6. QED
    BY <1>1, <1>2, <2>1, <2>2, <2>3, <2>4, <2>5 DEF OrchTypeOK
<1>18. CASE \E t \in Task : Hears(p, t)
  <2>1. pstatus' \in [Project -> PStatus] /\ ppc' \in [Project -> ChildPc]
    BY <1>1, <1>18 DEF Hears, OrchTypeOK, ChildPc, PStatus, Terminal
  <2>2. why' \in [Project -> {"", "raised", "timeout", "cancel"}] /\ left' \in [Project -> Nat]
    BY <1>1, <1>18 DEF Hears, OrchTypeOK
  <2>3. asked' \in SUBSET Task /\ pending' \in [Project -> SUBSET Task] /\ todo' \in [Project -> SUBSET Task]
    <3>1. UNCHANGED <<asked, todo>> /\ \E t \in Task : pending' = [pending EXCEPT ![p] = @ \ {t}]
      BY <1>18 DEF Hears, tasks
    <3>2. QED
      BY <1>1, <3>1 DEF OrchTypeOK
  <2>4. Others
    BY <1>1, <1>18 DEF Hears, OrchTypeOK
  <2>5. ChildInv(p)'
    <3>1. /\ ppc[p] = "wait" /\ UNCHANGED <<pstatus, ppc, left, todo>>
          /\ \A t \in pending[p] : status[t] \notin Terminal => t \in pending'[p]
      BY <1>1, <1>18 DEF Hears, OrchTypeOK
    <3>2. QED
      BY <1>1, <1>2, <1>4, <3>1 DEF ChildInv
  <2>6. QED
    BY <1>1, <1>2, <2>1, <2>2, <2>3, <2>4, <2>5 DEF OrchTypeOK
<1>19. QED
  BY <1>6, <1>7, <1>8, <1>9, <1>10, <1>11, <1>12, <1>13, <1>14, <1>15, <1>16, <1>17, <1>18

(* A subtask is added: it was nobody's, and its project waits for it.      *)
LEMMA AddStep ==
  ASSUME OrchInv, NEW p \in Project, NEW t \in Task, AddsSubtask(p, t)
  PROVE  OrchInv'
<1>1. OrchTypeOK /\ LoopTypeOK /\ ChildInv(p) /\ RowInv
  BY DEF OrchInv
<1>2. /\ ppc[p] = "adding" /\ status[t] = "absent" /\ left[p] # 0
      /\ status' = [status EXCEPT ![t] = "queued"] /\ owner' = [owner EXCEPT ![t] = p]
      /\ left' = [left EXCEPT ![p] = @ - 1] /\ pending' = [pending EXCEPT ![p] = @ \union {t}]
      /\ ppc' = [ppc EXCEPT ![p] = IF left[p] = 1 THEN "wait" ELSE "adding"]
      /\ UNCHANGED <<runner, asked, pstatus, rpc, rproj, stopping, why, todo, kpc, kproj, kres, outages>>
  BY <1>1 DEF AddsSubtask, Add, Goes, ChildInv, loop, caller
<1>3. owner[t] = 0
  BY <1>1, <1>2 DEF RowInv
<1>4. status' \in [Task -> BoardStatus] /\ owner' \in [Task -> Project \union {0}]
  BY <1>1, <1>2 DEF OrchTypeOK, BoardStatus
<1>5. left' \in [Project -> Nat] /\ ppc' \in [Project -> ChildPc]
  <2>1. left[p] \in Nat /\ left[p] # 0 /\ left \in [Project -> Nat]
    BY <1>1, <1>2 DEF OrchTypeOK
  <2>2. left[p] - 1 \in Nat
    BY <2>1
  <2>3. left' \in [Project -> Nat]
    BY <1>2, <2>1, <2>2
  <2>4. QED
    BY <1>1, <1>2, <2>3 DEF OrchTypeOK, ChildPc, Working
<1>6. pending' \in [Project -> SUBSET Task]
  BY <1>1, <1>2 DEF OrchTypeOK
<1>7. OrchTypeOK' /\ LoopTypeOK'
  BY <1>1, <1>2, <1>4, <1>5, <1>6 DEF OrchTypeOK, LoopTypeOK
<1>8. RowInv'
  <2>1. \A s \in Task : s # t => status'[s] = status[s] /\ owner'[s] = owner[s]
    BY <1>1, <1>2 DEF OrchTypeOK
  <2>2. status'[t] = "queued" /\ runner[t] = "none"
    BY <1>1, <1>2 DEF OrchTypeOK, RowInv
  <2>3. QED
    BY <1>1, <1>2, <2>1, <2>2 DEF RowInv
<1>9. \A q \in Project : q # p => ChildInv(q)'
  <2> SUFFICES ASSUME NEW q \in Project, q # p PROVE ChildInv(q)'
    OBVIOUS
  <2>1. Subtasks(q)' = Subtasks(q)
    BY <1>1, <1>2, <1>3, Numbers DEF Subtasks, OrchTypeOK
  <2>2. \A s \in Subtasks(q) : Onward(s)
    BY <1>1, <1>2, <1>3, Numbers DEF Subtasks, OrchTypeOK, Onward
  <2>3. /\ pstatus'[q] = pstatus[q] /\ ppc'[q] = ppc[q] /\ left'[q] = left[q]
        /\ pending'[q] = pending[q] /\ todo'[q] = todo[q]
    BY <1>1, <1>2 DEF OrchTypeOK
  <2>4. QED
    BY <2>1, <2>2, <2>3, ChildKept
<1>10. ChildInv(p)'
  <2>1. Subtasks(p)' = Subtasks(p) \union {t}
    BY <1>1, <1>2 DEF Subtasks, OrchTypeOK
  <2>2. \A s \in Task : s # t => status'[s] = status[s]
    BY <1>1, <1>2 DEF OrchTypeOK
  <2>3. /\ ppc'[p] = (IF left[p] = 1 THEN "wait" ELSE "adding") /\ left'[p] = left[p] - 1
        /\ pending'[p] = pending[p] \union {t} /\ pstatus'[p] = pstatus[p] /\ left[p] \in Nat
    BY <1>1, <1>2 DEF OrchTypeOK
  <2>4. Subtasks(p) \subseteq Task
    BY DEF Subtasks
  <2>5. \A s \in Subtasks(p) : status[s] \notin Terminal => s \in pending[p]
    BY <1>1, <1>2 DEF ChildInv, Working
  <2>6. pstatus[p] \notin {"absent", "queued", "integrating", "done"}
    BY <1>1, <1>2 DEF ChildInv, Working
  <2>7. QED
    BY <2>1, <2>2, <2>3, <2>4, <2>5, <2>6
       DEF ChildInv, Early, Working, Sweeping, Reporting, Ending
<1>11. QED
  BY <1>7, <1>8, <1>9, <1>10 DEF OrchInv

(* The second call of pool.cancel: the row it lists is stamped, claimed in *)
(* between or not.                                                         *)
LEMMA StampStep ==
  ASSUME OrchInv, NEW p \in Project, Stamps(p)
  PROVE  OrchInv'
<1>1. OrchTypeOK /\ LoopTypeOK /\ ChildInv(p) /\ RowInv
  BY DEF OrchInv
<1>2. PICK t : /\ t = Min(todo[p]) /\ status[t] \in {"queued", "running"}
               /\ status' = [status EXCEPT ![t] = "cancelled"]
               /\ todo' = [todo EXCEPT ![p] = @ \ {t}]
  BY DEF Stamps, CancelQueued, CancelClaimed
<1>3. /\ ppc[p] = "stamp" /\ ppc' = [ppc EXCEPT ![p] = "sweep"]
      /\ UNCHANGED <<runner, owner, asked, pstatus, rpc, rproj, stopping, why, left, pending, kpc, kproj, kres, outages>>
  BY DEF Stamps, Goes, CancelQueued, CancelClaimed, loop, caller
<1>4. \A s \in Task : /\ s # t => status'[s] = status[s]
                      /\ s = t => status'[s] = "cancelled"
  BY <1>1, <1>2 DEF OrchTypeOK
<1>5. status' \in [Task -> BoardStatus]
  BY <1>1, <1>2 DEF OrchTypeOK, BoardStatus, Terminal
<1>6. ppc' \in [Project -> ChildPc] /\ todo' \in [Project -> SUBSET Task]
  BY <1>1, <1>2, <1>3 DEF OrchTypeOK, ChildPc, Sweeping
<1>7. OrchTypeOK' /\ LoopTypeOK'
  BY <1>1, <1>3, <1>5, <1>6 DEF OrchTypeOK, LoopTypeOK
<1>8. RowInv'
  BY <1>1, <1>2, <1>3, <1>4 DEF RowInv
<1>9. \A s \in Task : Onward(s)
  BY <1>1, <1>2, <1>4 DEF Onward, Terminal
<1>10. \A q \in Project : Subtasks(q)' = Subtasks(q) /\ Subtasks(q) \subseteq Task
  BY <1>3 DEF Subtasks
<1>11. \A q \in Project : q # p => ChildInv(q)'
  <2> SUFFICES ASSUME NEW q \in Project, q # p PROVE ChildInv(q)'
    OBVIOUS
  <2>1. /\ pstatus'[q] = pstatus[q] /\ ppc'[q] = ppc[q] /\ left'[q] = left[q]
        /\ pending'[q] = pending[q] /\ todo'[q] = todo[q]
    BY <1>1, <1>2, <1>3 DEF OrchTypeOK
  <2>2. QED
    BY <1>9, <1>10, <2>1, ChildKept
<1>12. ChildInv(p)'
  <2>1. /\ ppc'[p] = "sweep" /\ pstatus'[p] = pstatus[p] /\ todo'[p] = todo[p] \ {t}
    BY <1>1, <1>2, <1>3 DEF OrchTypeOK
  <2>2. Decided(p) => Decided(p)'
    BY <1>9, <1>10 DEF Decided, Undecided, Onward
  <2>3. \A s \in Subtasks(p)' : status'[s] = "queued" => s \in todo'[p]
    BY <1>1, <1>3, <1>4, <1>10, <2>1 DEF ChildInv, Sweeping
  <2>4. QED
    BY <1>1, <1>3, <2>1, <2>2, <2>3 DEF ChildInv, Early, Working, Sweeping, Reporting, Ending
<1>13. QED
  BY <1>7, <1>8, <1>11, <1>12 DEF OrchInv
-----------------------------------------------------------------------------
(* Where an interruption leaves a child.                                   *)
LEMMA InterruptedFacts ==
  ASSUME OrchTypeOK, NEW p \in Project
  PROVE  /\ Interrupted(p) \in ChildPc
         /\ Interrupted(p) # ppc[p] => ppc[p] \notin Over /\ Interrupted(p) \in {"closing", "killed"}
<1>1. ppc[p] \in ChildPc
  BY DEF OrchTypeOK
<1>2. QED
  BY <1>1 DEF Interrupted, Over, ChildPc

(* The loop, cancel(), stop() and the end of the process leave the rows of *)
(* the subtasks alone, or end their runs.                                  *)
LEMMA OutsideStep ==
  ASSUME OrchInv,
         \/ ClaimNone \/ PollAgain \/ Reap \/ Stop \/ Reboot
         \/ \E k \in Canceller : Overwrites(k) \/ \E p \in Project : Cancels(k, p)
  PROVE  OrchInv'
<1>1. OrchTypeOK /\ LoopTypeOK /\ RowInv
  BY DEF OrchInv
<1>2. status' = status /\ owner' = owner
  BY DEF ClaimNone, PollAgain, Reap, Released, Stop, Reboot, Overwrites, Cancels, tasks
<1>3. /\ runner' \in [Task -> Runner] /\ asked' \in SUBSET Task
      /\ \A t \in Task : runner'[t] = runner[t] \/ (runner[t] = "live" /\ runner'[t] = "over")
  <2>1. CASE Reboot
    BY <1>1, <2>1 DEF Reboot, OrchTypeOK, Runner
  <2>2. CASE ~Reboot
    BY <1>1, <2>2 DEF ClaimNone, PollAgain, Reap, Released, Stop, Overwrites, Cancels, tasks, OrchTypeOK
  <2>3. QED
    BY <2>1, <2>2
<1>4. /\ pstatus' \in [Project -> PStatus]
      /\ \A p \in Project : pstatus'[p] \in {pstatus[p], "cancelled"}
  <2>1. CASE pstatus' = pstatus
    BY <1>1, <2>1 DEF OrchTypeOK
  <2>2. CASE \E k \in Canceller : Overwrites(k)
    BY <1>1, <2>2 DEF Overwrites, Row, OrchTypeOK, PStatus, Terminal
  <2>3. QED
    BY <2>1, <2>2 DEF ClaimNone, PollAgain, Reap, Released, Stop, Reboot, Cancels
<1>5. /\ ppc' \in [Project -> ChildPc]
      /\ \A p \in Project : ppc'[p] = ppc[p] \/ (ppc[p] \notin Over /\ ppc'[p] \in {"closing", "killed"})
  <2>1. CASE ppc' = ppc
    BY <1>1, <2>1 DEF OrchTypeOK
  <2>2. CASE Stop
    BY <1>1, <2>2, InterruptedFacts DEF Stop
  <2>3. CASE Reboot
    BY <1>1, <2>3 DEF Reboot, OrchTypeOK, ChildPc
  <2>4. CASE \E k \in Canceller : \E p \in Project : Cancels(k, p) /\ ppc' = [ppc EXCEPT ![p] = Interrupted(p)]
    BY <1>1, <2>4, InterruptedFacts DEF OrchTypeOK
  <2>5. QED
    BY <2>1, <2>2, <2>3, <2>4 DEF ClaimNone, PollAgain, Reap, Released, Overwrites, Cancels, child, Goes
<1>6. /\ why' \in [Project -> {"", "raised", "timeout", "cancel"}] /\ left' \in [Project -> Nat]
      /\ pending' \in [Project -> SUBSET Task] /\ todo' \in [Project -> SUBSET Task]
      /\ \A p \in Project : \/ left'[p] = left[p] /\ pending'[p] = pending[p] /\ todo'[p] = todo[p]
                            \/ ppc'[p] \in Over
  <2>1. CASE UNCHANGED <<why, left, pending, todo>>
    BY <1>1, <2>1 DEF OrchTypeOK
  <2>2. CASE Forgotten(rproj)
    <3>1. /\ why' \in [Project -> {"", "raised", "timeout", "cancel"}] /\ left' \in [Project -> Nat]
          /\ pending' \in [Project -> SUBSET Task] /\ todo' \in [Project -> SUBSET Task]
          /\ \A p \in Project : p # rproj => left'[p] = left[p] /\ pending'[p] = pending[p] /\ todo'[p] = todo[p]
      BY <1>1, <2>2 DEF Forgotten, OrchTypeOK
    <3>2. CASE Reap
      <4>1. rproj \in Project /\ ppc'[rproj] \in Over
        BY <1>1, <3>2 DEF Reap, Released, LoopTypeOK, Over
      <4>2. QED
        BY <3>1, <4>1
    <3>3. CASE Reboot
      <4>1. rproj \in Project => ppc'[rproj] \in Over
        BY <1>1, <3>3 DEF Reboot, Over, OrchTypeOK
      <4>2. QED
        BY <3>1, <4>1
    <3>4. QED
      BY <1>1, <3>2, <3>3, <2>1
         DEF ClaimNone, PollAgain, Stop, Overwrites, Cancels, child
  <2>3. QED
    BY <2>1, <2>2 DEF ClaimNone, PollAgain, Reap, Released, Stop, Reboot, Overwrites, Cancels, child
<1>7. LoopTypeOK'
  <2>1. CASE ClaimNone \/ PollAgain
    BY <1>1, <2>1 DEF ClaimNone, PollAgain, LoopTypeOK, caller
  <2>2. CASE Reap
    BY <1>1, <2>2 DEF Reap, Released, LoopTypeOK, caller
  <2>3. CASE Stop
    BY <1>1, <2>3 DEF Stop, LoopTypeOK, caller
  <2>4. CASE Reboot
    <3>1. kpc' \in [Canceller -> {"idle", "overwrite", "returned", "lost"}] /\ outages' \in Nat
      BY <1>1, <2>4 DEF Reboot, LoopTypeOK
    <3>2. \A k \in Canceller : kpc'[k] # "overwrite"
      BY <2>4 DEF Reboot
    <3>3. QED
      BY <1>1, <2>4, <3>1, <3>2 DEF Reboot, LoopTypeOK
  <2>5. ASSUME NEW k \in Canceller, Overwrites(k) \/ \E p \in Project : Cancels(k, p) PROVE LoopTypeOK'
    <3>1. PICK p \in Project \union {0} :
            /\ \/ kpc' = [kpc EXCEPT ![k] = "returned"] /\ \E a \in BOOLEAN : kres' = [kres EXCEPT ![k] = a]
               \/ kpc' = [kpc EXCEPT ![k] = "overwrite"] /\ p \in Project /\ kres' = kres
            /\ kproj' = [kproj EXCEPT ![k] = p]
            /\ UNCHANGED <<rpc, rproj, stopping, outages>>
      BY <1>1, <2>5 DEF Overwrites, Cancels, Return, LoopTypeOK, loop
    <3>2. QED
      BY <1>1, <3>1 DEF LoopTypeOK
  <2>6. QED
    BY <2>1, <2>2, <2>3, <2>4, <2>5
<1>8. OrchTypeOK' /\ RowInv'
  BY <1>1, <1>2, <1>3, <1>4, <1>5, <1>6 DEF OrchTypeOK, RowInv
<1>9. \A p \in Project : Subtasks(p)' = Subtasks(p) /\ \A t \in Subtasks(p) : Onward(t)
  BY <1>2 DEF Subtasks, Onward
<1>10. \A p \in Project : ChildInv(p)'
  BY <1>4, <1>5, <1>6, <1>9, ChildKept
<1>11. QED
  BY <1>7, <1>8, <1>10 DEF OrchInv
-----------------------------------------------------------------------------
(* Every step keeps the invariant of the projects.                         *)
LEMMA OrchStep == OrchInv /\ [Next]_vars => OrchInv'
<1> SUFFICES ASSUME OrchInv, [Next]_vars PROVE OrchInv'
  OBVIOUS
<1>1. CASE Next
  <2>1. CASE \E t \in Task : TaskClaimed(t) \/ TaskFinishes(t) \/ TaskVanishes(t) \/ OwnerCancels(t)
    BY <2>1, TaskStep
  <2>2. CASE \E p \in Project : Submit(p) \/ ClaimProject(p)
    BY <2>2, QueueStep
  <2>3. CASE \E p \in Project : Works(p) \/ TimesOut(p) \/ \E t \in Task : Hears(p, t)
    BY <2>3, ChildStep, StampStep, AddStep DEF Works
  <2>4. CASE \/ ClaimNone \/ PollAgain \/ Reap \/ Stop \/ Reboot
             \/ \E k \in Canceller : Overwrites(k) \/ \E p \in Project : Cancels(k, p)
    BY <2>4, OutsideStep
  <2>5. QED
    BY <1>1, <2>1, <2>2, <2>3, <2>4 DEF Next, Loops
<1>2. CASE UNCHANGED vars
  <2>1. /\ UNCHANGED <<status, runner, owner, asked, pstatus, rpc, rproj, stopping>>
        /\ UNCHANGED <<ppc, why, left, pending, todo, kpc, kproj, kres, outages>>
    BY <1>2 DEF vars, tasks, loop, child, caller
  <2>2. OrchTypeOK' /\ LoopTypeOK' /\ RowInv'
    BY <2>1 DEF OrchInv, OrchTypeOK, LoopTypeOK, RowInv
  <2>3. \A p \in Project : Subtasks(p)' = Subtasks(p) /\ \A t \in Subtasks(p) : Onward(t)
    BY <2>1, RowsStay
  <2>4. \A p \in Project : ChildInv(p)'
    BY <2>1, <2>3, ChildKept
  <2>5. QED
    BY <2>2, <2>4 DEF OrchInv
<1>3. QED
  BY <1>1, <1>2

(* The inductive invariant of the projects (workers/orchestrator.py).      *)
THEOREM ProjectInvariant == Spec => []OrchInv
  BY OrchStart, OrchStep, PTL DEF Spec

(* A project that ended by itself or was cancelled leaves no subtask that  *)
(* a worker could still start, and its report is of decided subtasks, one  *)
(* of which has a result (_run_project, _cancel_children).                 *)
THEOREM LeftoverCorrect == Spec => []NothingLeftQueued
<1>1. OrchInv => NothingLeftQueued
  BY DEF OrchInv, ChildInv, NothingLeftQueued, Decided, Ending
<1>2. QED
  BY <1>1, ProjectInvariant, PTL

(* The orchestrator, its callers and the end of the process move the rows  *)
(* of the subtasks only as the task board allows, which the pool is shown  *)
(* to implement.                                                           *)
THEOREM ProjectsUseBoard == Spec => BoardSpec
<1>1. Init => BoardInit
  BY DEF Init
<1>2. OrchInv /\ [Next]_vars => [BoardNext]_bvars
  <2> SUFFICES ASSUME OrchInv, Next, ~UNCHANGED bvars PROVE BoardNext
    BY DEF vars, tasks, bvars
  <2>1. OrchTypeOK /\ \A p \in Project : ChildInv(p)
    BY DEF OrchInv
  <2>2. CASE \E t \in Task : TaskClaimed(t) \/ TaskFinishes(t) \/ OwnerCancels(t)
    BY <2>2 DEF TaskClaimed, TaskFinishes, OwnerCancels, BoardNext
  <2>3. ASSUME NEW t \in Task, TaskVanishes(t) PROVE BoardNext
    <3>1. runner[t] = "live" /\ runner' = [runner EXCEPT ![t] = "over"] /\ status' = status
      BY <2>3 DEF TaskVanishes
    <3>2. runner' = [s \in Task |-> IF s \in {t} THEN "over" ELSE runner[s]]
      BY <2>1, <3>1 DEF OrchTypeOK
    <3>3. Vanish
      BY <3>1, <3>2 DEF Vanish
    <3>4. QED
      BY <3>3 DEF BoardNext
  <2>4. CASE Reboot
    <3> DEFINE gone == {t \in Task : runner[t] = "live"}
    <3>1. status' = status /\ runner' = [t \in Task |-> IF t \in gone THEN "over" ELSE runner[t]]
      BY <2>4 DEF Reboot
    <3>2. Vanish
      BY <3>1 DEF Vanish
    <3>3. QED
      BY <3>2 DEF BoardNext
  <2>5. ASSUME NEW p \in Project, NEW t \in Task, AddsSubtask(p, t) PROVE BoardNext
    BY <2>5 DEF AddsSubtask, BoardNext
  <2>6. ASSUME NEW p \in Project, Stamps(p) PROVE BoardNext
    <3>1. todo[p] # {} /\ todo[p] \subseteq Task /\ todo[p] \subseteq Nat
      BY <2>1, <2>6, Numbers DEF Stamps, ChildInv, OrchTypeOK
    <3>2. Min(todo[p]) \in Task
      BY <3>1, MinIsIn
    <3>3. QED
      BY <2>6, <3>2 DEF Stamps, BoardNext
  <2>7. ASSUME NEW p \in Project, Works(p), ~Stamps(p), \A t \in Task : ~AddsSubtask(p, t) PROVE FALSE
    BY <2>7 DEF Works, Plan, Starts, Polls, Collects, Integrates, Reports, Concludes, Announces, Closes,
       Sweeps, Marks, tasks, bvars
  <2>8. ASSUME Loops \/ Stop PROVE FALSE
    BY <2>8 DEF Loops, ClaimNone, PollAgain, Reap, Released, ClaimProject, Stop, tasks, bvars
  <2>9. ASSUME NEW p \in Project, Submit(p) \/ TimesOut(p) \/ \E t \in Task : Hears(p, t) PROVE FALSE
    BY <2>9 DEF Submit, TimesOut, Hears, tasks, bvars
  <2>10. ASSUME NEW k \in Canceller, Overwrites(k) \/ \E p \in Project : Cancels(k, p) PROVE FALSE
    BY <2>10 DEF Overwrites, Cancels, tasks, bvars
  <2>11. QED
    BY <2>2, <2>3, <2>4, <2>5, <2>6, <2>7, <2>8, <2>9, <2>10 DEF Next
<1>3. QED
  BY <1>1, <1>2, ProjectInvariant, PTL DEF Spec, BoardSpec
=============================================================================
