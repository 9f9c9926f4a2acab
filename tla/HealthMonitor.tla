--------------------------- MODULE HealthMonitor ---------------------------
(***************************************************************************)
(* core/router.py, HealthMonitor: the cloud / degraded / offline machine.  *)
(*                                                                         *)
(* Its methods are called from every NIM call in flight and from one probe *)
(* loop.  note_failure and note_success run without an await; _probe_once  *)
(* awaits three times (models list, bucket slot, generation ping), and     *)
(* the others run in between.                                              *)
(***************************************************************************)
EXTENDS Naturals

CONSTANTS RecoverAfter,     \* health.recover_after
          MaxTrouble        \* bound: how often the network leaves "up"

ASSUME MonitorAssumption ==
  /\ RecoverAfter \in Nat \ {0}
  /\ MaxTrouble \in Nat

VARIABLES state,            \* HealthMonitor.state
          streak,           \* _streak
          cooling,          \* time.monotonic() < cooldown_until
          ppc,              \* where the probe loop is suspended
          net,              \* up; congested: connects, but generates too late; down
          troubles,         \* how often net has left "up"
          good              \* history: successes seen since the last failure

mvars    == <<state, streak, cooling, good>>
world    == <<net, troubles>>
monitor  == <<mvars, ppc, world>>

Reason == {"429", "dns_fail", "timeout", "error"}

MonitorTypeOK ==
  /\ state \in {"cloud", "degraded", "offline"}
  /\ streak \in Nat
  /\ cooling \in BOOLEAN
  /\ ppc \in {"sleep", "models", "slot", "ping"}
  /\ net \in {"up", "congested", "down"}
  /\ troubles \in Nat
  /\ good \in 0..(RecoverAfter + 2)

MonitorInit ==
  /\ state = "cloud"
  /\ streak = 0
  /\ cooling = FALSE
  /\ ppc = "sleep"
  /\ net = "up"
  /\ troubles = 0
  /\ good = 0

-----------------------------------------------------------------------------
(* `good` is compared with RecoverAfter and with the streak, which never   *)
(* gets more than two past it: it is counted that far.                     *)
Success == good' = IF good > RecoverAfter + 1 THEN good ELSE good + 1
Failure == good' = 0

NoteFailure(reason) ==
  /\ cooling' = (cooling \/ reason = "429")
  /\ state' = IF state = "offline" \/ reason = "dns_fail" THEN "offline" ELSE "degraded"
  /\ streak' = 0
  /\ Failure

NoteSuccess ==
  /\ Success
  /\ UNCHANGED cooling
  /\ \/ state = "cloud" /\ UNCHANGED <<state, streak>>
     \/ state = "offline" /\ streak' = streak + 1 /\ state' = "degraded"
     \/ /\ state = "degraded"
        /\ streak' = streak + 1
        /\ state' = IF streak' >= RecoverAfter THEN "cloud" ELSE "degraded"

-----------------------------------------------------------------------------
(* _probe_loop and _probe_once.                                            *)

(* The sleep is over and the bucket has a background slot; without one the *)
(* loop sleeps again.                                                      *)
ProbeDue ==
  /\ ppc = "sleep"
  /\ ppc' = "models"
  /\ UNCHANGED <<mvars, world>>

ProbeFailed ==
  /\ ppc = "models"
  /\ net = "down"
  /\ streak' = 0
  /\ state' = IF state = "cloud" THEN "degraded" ELSE "offline"
  /\ ppc' = "sleep"
  /\ Failure
  /\ UNCHANGED <<cooling, world>>

(* Mutant: an offline machine only listens to calls.                       *)
ProbeAnsweredInVain ==
  /\ ppc = "models" /\ ppc' = IF state = "degraded" THEN "slot" ELSE "sleep"
  /\ net # "down"
  /\ Success
  /\ UNCHANGED <<state, streak, cooling, world>>

ProbeAnswered ==
  /\ ppc = "models"
  /\ net # "down"
  /\ Success
  /\ \/ state = "offline" /\ streak' = 0 /\ state' = "degraded" /\ ppc' = "sleep"
     \/ state = "cloud" /\ ppc' = "sleep" /\ UNCHANGED <<state, streak>>
     \/ /\ state = "degraded"
        /\ streak' = streak + 1
        /\ ppc' = IF streak' >= RecoverAfter THEN "slot" ELSE "sleep"
        /\ UNCHANGED state
  /\ UNCHANGED <<cooling, world>>

(* acquire_wait(background=True) got its slot.                             *)
SlotGranted ==
  /\ ppc = "slot"
  /\ ppc' = "ping"
  /\ UNCHANGED <<mvars, world>>

PingFailed ==
  /\ ppc = "ping"
  /\ net # "up"
  /\ streak' = 0
  /\ ppc' = "sleep"
  /\ Failure
  /\ UNCHANGED <<state, cooling, world>>

(* The one-token generation came back in time: back to the cloud, whatever *)
(* was reported while it was in flight.                                    *)
PingAnswered ==
  /\ ppc = "ping"
  /\ net = "up"
  /\ state' = "cloud"
  /\ ppc' = "sleep"
  /\ Success
  /\ UNCHANGED <<streak, cooling, world>>

Probe == ProbeDue \/ ProbeFailed \/ ProbeAnswered \/ SlotGranted \/ PingFailed \/ PingAnswered

-----------------------------------------------------------------------------
(* The world.                                                              *)

CooldownOver ==
  /\ cooling
  /\ cooling' = FALSE
  /\ UNCHANGED <<state, streak, good, ppc, world>>

Trouble ==
  /\ troubles < MaxTrouble
  /\ \E n \in {"congested", "down"} : n # net /\ net' = n
  /\ troubles' = troubles + 1
  /\ UNCHANGED <<mvars, ppc>>

Calm ==
  /\ net # "up"
  /\ net' = "up"
  /\ UNCHANGED <<mvars, ppc, troubles>>

(* A NIM call reports, as CloudRouter.chat makes it.                       *)
CallFailed ==
  /\ net # "up"
  /\ \E r \in Reason : (net = "congested" => r # "dns_fail") /\ NoteFailure(r)
  /\ UNCHANGED <<ppc, world>>

CallServed ==
  /\ net # "down"
  /\ NoteSuccess
  /\ UNCHANGED <<ppc, world>>

MonitorNext == Probe \/ CooldownOver \/ Trouble \/ Calm \/ CallFailed \/ CallServed

MonitorSpec == MonitorInit /\ [][MonitorNext]_monitor

(* Timers fire, requests are answered or time out, the bucket has a slot   *)
(* for the probe now and then.  Nobody has to call, trouble has to happen  *)
(* to nobody.                                                              *)
MonitorFairSpec == MonitorSpec /\ WF_monitor(Probe) /\ WF_monitor(CooldownOver)

-----------------------------------------------------------------------------
(* Properties.                                                             *)

(* The streak never counts a success from before the last failure, however *)
(* probes and calls interleave.                                            *)
StreakIsRecent == streak <= good

(* ... and it stops soon after the count that starts a recovery.           *)
StreakIsBounded ==
  /\ streak <= RecoverAfter + 2
  /\ state = "offline" => streak = 0
  /\ state = "degraded" => streak <= RecoverAfter + 1
  /\ state = "degraded" /\ ppc \in {"sleep", "models"} => streak <= RecoverAfter

MonitorInv == MonitorTypeOK /\ StreakIsRecent /\ StreakIsBounded

(* The machine only climbs on a success: no failure report, whatever its   *)
(* reason, leaves the state higher than it was.                            *)
Rank(s) == CASE s = "cloud" -> 2 [] s = "degraded" -> 1 [] OTHER -> 0

OnlySuccessClimbs == [][Rank(state') > Rank(state) => good' > 0]_monitor

(* The probe alone brings the cloud back once the network is well again,   *)
(* though no call is ever made.                                            *)
Recovers == <>[](net = "up") => <>[](state = "cloud")
=============================================================================
