------------------------------ MODULE GameMode ------------------------------
(***************************************************************************)
(* The game mode: core/router.py set_game_mode, the watcher of the         *)
(* foreground window in ui/gamewatch.py, and who else moves the local      *)
(* model in and out of the GPU's memory: local replies, the health check   *)
(* of ui/server.py, the reload after the mode is over.                     *)
(*                                                                         *)
(* Flag and memory are two things: the flag turns at once, the memory when *)
(* a request to Ollama that was awaited meanwhile is answered.             *)
(***************************************************************************)
EXTENDS Naturals

CONSTANTS MaxSwitches,      \* bound: switches by the owner
          MaxAwaited        \* bound: requests of one kind in flight

ASSUME GameAssumption == MaxSwitches \in Nat /\ MaxAwaited \in Nat \ {0}

VARIABLES mode,             \* CloudRouter.game_mode: "on", "off"
          by,               \* history: who switched it on last
          parted,           \* history: the owner ended a mode that the watcher
                            \* holds, or will hold, to be its own
          auto,             \* GameWatch._auto_set: the mode is "ours", or "not"
          watch,            \* where GameWatch._run is suspended
          front,            \* what is in front: "game", "desk"
          seen,             \* what _front_now said
          weights,          \* the model's: "loaded" into GPU memory, or "out"
          unloads,          \* unload() awaited, the watcher's apart
          rewarms,          \* _rewarm tasks
          replies,          \* local replies, by the keep_alive they were sent with
          checks,           \* health checks that load the model
          cause,            \* history: what brought the weights back in game mode
          switches          \* switches by the owner so far

flag   == <<mode, by, parted>>
watchv == <<auto, watch, seen>>
gpu    == <<weights, unloads, rewarms, replies, checks, cause>>
gameVars == <<flag, watchv, front, gpu, switches>>

(* The configured keep_alive outside game mode, none, the configured one   *)
(* in game mode.                                                           *)
Keep == {"outside", "brief", "camping"}

GameTypeOK ==
  /\ mode \in {"on", "off"} /\ by \in {"owner", "watch"} /\ parted \in BOOLEAN
  /\ auto \in {"ours", "not"} /\ {seen, front} \subseteq {"game", "desk"}
  /\ watch \in {"asleep", "looked", "switching"}
  /\ weights \in {"loaded", "out"} /\ cause \in {"none", "failed", "late"}
  /\ unloads \in Nat /\ rewarms \in Nat /\ checks \in Nat /\ switches \in Nat
  /\ replies \in [Keep -> Nat]

(* In cloud mode the flag is set at boot and an unload sent after it.      *)
GameInit ==
  /\ mode \in {"on", "off"} /\ by = "owner" /\ parted = FALSE
  /\ auto = "not" /\ watch = "asleep" /\ seen = "desk"
  /\ front \in {"game", "desk"}
  /\ weights \in {"loaded", "out"}
  /\ unloads = IF mode = "on" THEN 1 ELSE 0
  /\ rewarms = 0 /\ replies = [k \in Keep |-> 0] /\ checks = 0
  /\ cause = "none" /\ switches = 0

-----------------------------------------------------------------------------
(* An unload is answered, or fails and is swallowed.                       *)
Frees ==
  \/ weights' = "out" /\ cause' = "none"
  \/ /\ UNCHANGED weights
     /\ cause' = IF weights = "loaded" /\ cause = "none" THEN "failed" ELSE cause

-----------------------------------------------------------------------------
(* set_game_mode, called by the button, the tool, the typed or the spoken  *)
(* command.                                                                *)
TurnsOn(who) ==
  /\ mode = "off" /\ mode' = "on" /\ by' = who
  /\ cause' = "none"

TurnsOff ==
  /\ mode = "on" /\ mode' = "off"
  /\ rewarms < MaxAwaited /\ rewarms' = rewarms + 1
  /\ UNCHANGED by

OwnerTurnsOn ==
  /\ switches < MaxSwitches /\ switches' = switches + 1
  /\ TurnsOn("owner") /\ UNCHANGED parted
  /\ unloads + checks < MaxAwaited /\ unloads' = unloads + 1
  /\ UNCHANGED <<watchv, front, weights, rewarms, replies, checks>>

OwnerTurnsOff ==
  /\ switches < MaxSwitches /\ switches' = switches + 1
  /\ TurnsOff
  /\ parted' = (parted \/ auto = "ours" \/ watch = "switching")
  /\ UNCHANGED <<watchv, front, weights, unloads, replies, checks, cause>>

Unloaded ==
  /\ unloads > 0 /\ unloads' = unloads - 1
  /\ Frees
  /\ UNCHANGED <<flag, watchv, front, rewarms, replies, checks, switches>>

(* _rewarm: warm() is answered, or fails; neither looks at the flag.       *)
Rewarmed ==
  /\ rewarms > 0 /\ rewarms' = rewarms - 1
  /\ \/ weights' = "loaded" /\ cause' = IF mode = "on" THEN "late" ELSE cause
     \/ UNCHANGED <<weights, cause>>
  /\ UNCHANGED <<flag, watchv, front, unloads, replies, checks, switches>>

-----------------------------------------------------------------------------
(* CloudRouter.chat on the local rung.                                     *)

(* Mutant: the configured keep_alive in game mode too.                     *)
KeepAliveConfigured == IF mode = "on" THEN "camping" ELSE "outside"

KeepAlive == IF mode = "on" THEN "brief" ELSE "outside"

LocalReply ==
  /\ replies[KeepAlive] < MaxAwaited
  /\ replies' = [replies EXCEPT ![KeepAlive] = @ + 1]
  /\ UNCHANGED <<flag, watchv, front, weights, unloads, rewarms, checks, cause, switches>>

LocalReplyEnds(k) ==
  /\ replies[k] > 0
  /\ replies' = [replies EXCEPT ![k] = @ - 1]
  /\ weights' = IF k = "brief" THEN "out" ELSE "loaded"
  /\ cause' = IF k = "brief" THEN "none"
              ELSE IF k = "outside" /\ mode = "on" THEN "late" ELSE cause
  /\ UNCHANGED <<flag, watchv, front, unloads, rewarms, checks, switches>>

(* /api/setup/health and provision(): the model is proved by loading it;   *)
(* _evict_local_brain comes after.                                         *)
Check ==
  /\ unloads + checks < MaxAwaited /\ checks' = checks + 1
  /\ UNCHANGED <<flag, watchv, front, weights, unloads, rewarms, replies, cause, switches>>

Checked ==
  /\ checks > 0 /\ checks' = checks - 1
  /\ weights' = "loaded"
  /\ unloads' = IF mode = "on" THEN unloads + 1 ELSE unloads
  /\ UNCHANGED <<flag, watchv, front, rewarms, replies, cause, switches>>

-----------------------------------------------------------------------------
(* GameWatch._run: one round of the poll.                                  *)

Look ==
  /\ watch = "asleep" /\ watch' = "looked"
  /\ seen' = front
  /\ UNCHANGED <<flag, auto, front, gpu, switches>>

AutoOn ==
  /\ watch = "looked" /\ seen = "game"
  /\ TurnsOn("watch") /\ parted' = FALSE
  /\ watch' = "switching"
  /\ UNCHANGED <<auto, seen, front, weights, unloads, rewarms, replies, checks, switches>>

(* set_game_mode returned: only now the watcher notes that it was its own. *)
AutoUnloaded ==
  /\ watch = "switching" /\ watch' = "asleep"
  /\ auto' = "ours"
  /\ Frees
  /\ UNCHANGED <<flag, seen, front, unloads, rewarms, replies, checks, switches>>

(* Mutant: the watcher does not forget that the mode was its own.          *)
AutoOffUnforgotten ==
  /\ watch = "looked" /\ seen = "desk" /\ auto = "ours"
  /\ TurnsOff /\ parted' = FALSE
  /\ watch' = "asleep"
  /\ UNCHANGED <<auto, seen, front, weights, unloads, replies, checks, cause, switches>>

AutoOff ==
  /\ watch = "looked" /\ seen = "desk" /\ auto = "ours"
  /\ TurnsOff /\ parted' = FALSE
  /\ auto' = "not" /\ watch' = "asleep"
  /\ UNCHANGED <<seen, front, weights, unloads, replies, checks, cause, switches>>

NothingToDo ==
  /\ watch = "looked"
  /\ seen = "game" => mode = "on"
  /\ seen = "desk" => mode = "off" \/ auto = "not"
  /\ watch' = "asleep"
  /\ UNCHANGED <<flag, auto, seen, front, gpu, switches>>

Foreground ==
  /\ front' \in {"game", "desk"} \ {front}
  /\ UNCHANGED <<flag, watchv, gpu, switches>>

GameNext ==
  \/ OwnerTurnsOn \/ OwnerTurnsOff \/ Unloaded \/ Rewarmed
  \/ LocalReply \/ (\E k \in Keep : LocalReplyEnds(k)) \/ Check \/ Checked
  \/ Look \/ AutoOn \/ AutoUnloaded \/ AutoOff \/ NothingToDo \/ Foreground

GameSpec == GameInit /\ [][GameNext]_gameVars

-----------------------------------------------------------------------------
(* Properties.                                                             *)

(* A mode the owner switched on is his to end: the watcher ends only what  *)
(* it began, however switches, polls and its own await fall, but for one   *)
(* case: the owner ended the mode of the watcher, which goes on believing  *)
(* that the mode is its own, and began one of his (gamewatch.py 80-85).    *)
ManualModeStands == [][AutoOff => by = "watch" \/ parted]_gameVars

(* gamewatch.py:5 as it is written: the watcher never ends a mode that the *)
(* owner switched on.  The code does not keep it.                          *)
ManualModeNeverFought == [][AutoOff => by = "watch"]_gameVars

(* Once its requests are answered game mode has the memory free: only an   *)
(* unload that failed, or a reload or a reply from before the mode that    *)
(* ended in it, leaves the model there -- no pinned reply made in game     *)
(* mode does, no health check, no boot.                                    *)
MemoryIsFreed ==
  mode = "on" /\ unloads = 0 /\ watch # "switching" /\ cause = "none" => weights = "out"

=============================================================================
