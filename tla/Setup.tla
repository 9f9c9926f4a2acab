-------------------------------- MODULE Setup --------------------------------
(* The first run: the wizard's choices in setup.json, the primary cloud key  *)
(* in .env and in the process's environment, the walk that fetches what an   *)
(* install mode needs and verifies it, and the boots that read all of it     *)
(* (src/core/provision.py, keys.py, paths.py, health.py, manifest.py, the    *)
(* /api/setup handlers of ui/server.py, build_provider of core/router.py).   *)
EXTENDS Integers, Sequences

CONSTANTS
  Request,        \* requests that save a key, or clear it
  Exported,       \* may the shell that starts Baby export the primary key?
  ShellOwned,     \* was this backend spawned by the desktop shell?
  MaxWalks,       \* bound: provisioning runs
  MaxSaves,       \* bound: keys submitted
  MaxRestarts     \* bound: boots after the first

ASSUME SetupAssumption ==
  /\ Exported \subseteq BOOLEAN /\ ShellOwned \subseteq BOOLEAN
  /\ {MaxWalks, MaxSaves, MaxRestarts} \subseteq Nat

VARIABLES
  setup,          \* setup.json: mode, provisioned, router, complete
  onFile, live,   \* the primary key: in .env; in os.environ
  exported, owned,
  backend,        \* "down" | "local" | "cloud" | "refused": what build_provider made
  deaf, restart,  \* ctx.voice_failed; app.state.restart_requested
  has,            \* what the machine has got
  walk,           \* the provisioning run's row, or "off"
  walkMode,       \* its mode
  checklist,      \* app.state.setup_progress
  save,           \* per request: where its handler is, and the value it carries
  walks, saves, restarts,
  torn            \* a crash or a mode switch has cut a handler or a run in two
keyVars   == <<onFile, live, save, saves>>
walkVars  == <<walk, walkMode, checklist, has, walks>>
procVars  == <<backend, deaf, restart, restarts>>
envVars   == <<exported, owned>>
setupVars == <<setup, keyVars, walkVars, procVars, envVars, torn>>

Blank == [mode |-> "none", provisioned |-> FALSE, router |-> "none", complete |-> FALSE]
Idle  == [at |-> "idle", value |-> "other"]
Up    == backend \in {"local", "cloud"}
Modes == {"full", "cloud_only"}

(* The rows of the checklist, in walk order.                               *)
Plan(mode) ==
  IF mode = "full"
  THEN <<"disk", "vcredist", "kokoro", "wakeword", "whisper", "embedder", "speaker",
         "ollama-daemon", "ollama-model", "verify">>
  ELSE <<"disk", "vcredist", "kokoro", "wakeword", "whisper", "embedder", "speaker", "verify">>

(* What each row's dependency is, as the manifest declares it.             *)
Optional == {"speaker"}
Fetched  == {"kokoro", "wakeword", "whisper", "embedder", "speaker"}
AutoDownloads == {"whisper", "embedder"}
LocalBrain == {"ollama-daemon", "ollama-model"}
Needs(mode) ==
  {"vcredist"} \cup (Fetched \ Optional) \cup (IF mode = "full" THEN LocalBrain ELSE {})

(* health.run_all: a check fails when its asset is missing, unless loading *)
(* it fetches it, and may fail for any other reason; the required ones     *)
(* decide.                                                                 *)
Works(check) == check \in has \cup AutoDownloads
Verdicts(mode) == {FALSE} \cup {\A check \in Needs(mode) : Works(check)}

(* Mutant: a stamped cloud mode is never taken back.                       *)
RouterModeForEver ==
  IF onFile \/ live \/ setup.router = "cloud_primary" THEN "cloud_primary"
  ELSE "local_primary"

HasKey == onFile \/ live
RouterModeFor == IF HasKey THEN "cloud_primary" ELSE "local_primary"
CanFinish(mode) == mode = "cloud_only" => HasKey

(* build_provider: the cloud router, the local ladder, or a ValueError.    *)
Built(router, key) ==
  IF router # "cloud_primary" THEN "local" ELSE IF key THEN "cloud" ELSE "refused"

(* _restart_needed_to_apply *)
RestartNeeded(state, voiceFailed) ==
  owned /\ (voiceFailed \/ (state.router = "cloud_primary" /\ backend # "cloud"))

SetupInit ==
  /\ setup = Blank /\ onFile = FALSE
  /\ exported \in Exported /\ owned \in ShellOwned /\ live = exported
  /\ backend = "local" /\ deaf = TRUE /\ restart = FALSE /\ restarts = 0
  /\ has \in {{}, {"vcredist"}}
  /\ walk = "off" /\ walkMode = "none" /\ checklist = <<>> /\ walks = 0
  /\ save = [r \in Request |-> Idle] /\ saves = 0 /\ torn = FALSE
-----------------------------------------------------------------------------
(* Mutant: another mode inherits the old one's verdict.                    *)
ChooseModeOnly(mode) ==
  /\ Up /\ setup' = [setup EXCEPT !.mode = mode]
  /\ torn' = (torn \/ (walk # "off" /\ walkMode # mode))
  /\ UNCHANGED <<keyVars, walkVars, procVars, envVars>>

(* api_setup_mode *)
ChooseMode(mode) ==
  /\ Up
  /\ setup' = [setup EXCEPT !.mode = mode,
                            !.provisioned = @ /\ setup.mode \in {"none", mode}]
  /\ torn' = (torn \/ (walk # "off" /\ walkMode # mode))
  /\ UNCHANGED <<keyVars, walkVars, procVars, envVars>>

(* api_setup_provision: one run at a time, for the mode chosen now.        *)
Provision ==
  /\ Up /\ walk = "off" /\ setup.mode \in Modes /\ walks < MaxWalks
  /\ walk' = "disk" /\ walkMode' = setup.mode /\ checklist' = <<>> /\ walks' = walks + 1
  /\ UNCHANGED <<setup, keyVars, has, procVars, envVars, torn>>

Answered(some, status) ==
  [r \in DOMAIN checklist \cup some |-> IF r \in some THEN status ELSE checklist[r]]
After(row) ==
  LET p == Plan(walkMode) IN p[1 + CHOOSE i \in 1 .. Len(p) : p[i] = row]
Step(row, status) == checklist' = Answered({row}, status) /\ walk' = After(row)
WalkOnly == UNCHANGED <<keyVars, walkMode, walks, procVars, envVars, torn>>

(* check_disk: too little room ends the run.                               *)
CheckDisk ==
  /\ walk = "disk"
  /\ \/ Step("disk", "pass")
     \/ checklist' = Answered({"disk"}, "error") /\ walk' = "off"
  /\ UNCHANGED <<setup, has>> /\ WalkOnly

(* The redistributable is looked for, and left to the installer.           *)
DetectRuntime ==
  /\ walk = "vcredist"
  /\ Step("vcredist", IF "vcredist" \in has THEN "pass" ELSE "needs_install")
  /\ UNCHANGED <<setup, has>> /\ WalkOnly

FetchStep ==
  /\ walk \in Fetched
  /\ Step(walk, "done") /\ has' = has \cup {walk}
  /\ UNCHANGED setup /\ WalkOnly

(* classify_error: whatever the cause, a row that can be retried.          *)
Failure == "error"

(* The optional model may be missed; any other failure ends the run, with  *)
(* the row and the run both shown as an error.                             *)
FetchFails ==
  /\ walk \in (Fetched \ has) \cup {"wakeword", "ollama-model"} \cup AutoDownloads
  /\ IF walk \in Optional THEN Step(walk, "skip")
     ELSE checklist' = Answered({walk, "provision"}, Failure) /\ walk' = "off"
  /\ UNCHANGED <<setup, has>> /\ WalkOnly

(* Mutant: a daemon that was already running gets no row.                  *)
OllamaDaemonSilent ==
  /\ walk = "ollama-daemon" /\ walk' = "ollama-model"
  /\ has' = has \cup {"ollama-daemon"}
  /\ UNCHANGED <<setup, checklist>> /\ WalkOnly

(* _install_ollama: winget, then the vendor's installer, then a wait for   *)
(* the daemon; any of them may leave the machine without it.               *)
InstallOllama == {has, has \cup {"ollama-daemon"}}

(* The daemon answers, is installed and then answers, or is reported       *)
(* missing; in the last case nothing is pulled.                            *)
OllamaDaemon ==
  /\ walk = "ollama-daemon"
  /\ \/ Step("ollama-daemon", "pass") /\ has' = has \cup {"ollama-daemon"}
     \/ /\ checklist' = Answered({"ollama-daemon"}, "needs_install")
        /\ walk' = "verify"
        /\ has' \in InstallOllama
  /\ UNCHANGED setup /\ WalkOnly

(* pull_ollama_model *)
PullModel ==
  /\ walk = "ollama-model"
  /\ Step(walk, "done") /\ has' = has \cup {walk}
  /\ UNCHANGED setup /\ WalkOnly

(* The functional re-verify, and the flag it earns.                        *)
Verify ==
  /\ walk = "verify"
  /\ \E ok \in Verdicts(walkMode) :
       /\ checklist' = Answered({"verify"}, IF ok THEN "pass" ELSE "fail")
       /\ setup' = [setup EXCEPT !.provisioned = @ \/ ok]
       /\ has' = IF ok THEN has \cup AutoDownloads ELSE has
  /\ walk' = "off"
  /\ WalkOnly
-----------------------------------------------------------------------------
At(r, place) == save' = [save EXCEPT ![r].at = place]
KeyOnly == UNCHANGED <<walkVars, restarts, backend, deaf, envVars>>

(* api_setup_keys_save: a key is proved against its vendor first, an empty *)
(* one clears the entry.  The other keys' saves matter by what they stamp. *)
Submit(r, value) ==
  /\ Up /\ save[r].at = "idle" /\ saves < MaxSaves /\ saves' = saves + 1
  /\ save' = [save EXCEPT ![r] = [at |-> IF value = "clear" THEN "filing" ELSE "proving",
                                  value |-> value]]
  /\ UNCHANGED <<setup, onFile, live, restart, torn>> /\ KeyOnly

Proved(r) ==
  /\ save[r].at = "proving" /\ At(r, "filing")
  /\ UNCHANGED <<saves, setup, onFile, live, restart, torn>> /\ KeyOnly

Rejected(r) ==
  /\ save[r].at = "proving" /\ At(r, "idle")
  /\ UNCHANGED <<saves, setup, onFile, live, restart, torn>> /\ KeyOnly

KeyAfter(r, held) == IF save[r].value = "other" THEN held ELSE save[r].value = "set"

(* write_keys, in a thread: the file under its lock, ...                   *)
WriteEnv(r) ==
  /\ save[r].at = "filing" /\ At(r, "exporting")
  /\ onFile' = KeyAfter(r, onFile)
  /\ torn' = (torn \/ \E q \in Request \ {r} : save[q].at = "exporting")
  /\ UNCHANGED <<saves, setup, live, restart>> /\ KeyOnly

(* ... then os.environ, outside it.                                        *)
WriteEnviron(r) ==
  /\ save[r].at = "exporting" /\ At(r, "stamping")
  /\ live' = KeyAfter(r, live)
  /\ UNCHANGED <<saves, setup, onFile, restart, torn>> /\ KeyOnly

(* Mutant: a key saved after the wizard waits for the next launch.         *)
StampQuietly(r) ==
  /\ save[r].at = "stamping" /\ At(r, "idle")
  /\ setup' = [setup EXCEPT !.router = RouterModeFor]
  /\ UNCHANGED <<saves, onFile, live, torn, restart>> /\ KeyOnly

(* Back in the handler: the router mode follows the keys; once setup is    *)
(* complete nobody else will bring the backend back.                       *)
Stamp(r) ==
  /\ save[r].at = "stamping" /\ At(r, "idle")
  /\ setup' = [setup EXCEPT !.router = RouterModeFor]
  /\ restart' = (restart \/ (setup.complete /\ RestartNeeded(setup', FALSE)))
  /\ UNCHANGED <<saves, onFile, live, torn>> /\ KeyOnly

(* api_setup_complete, acknowledged.                                       *)
Complete ==
  /\ Up /\ setup.mode \in Modes /\ CanFinish(setup.mode)
  /\ setup' = [setup EXCEPT !.complete = TRUE]
  /\ restart' = (restart \/ RestartNeeded(setup', deaf))
  /\ UNCHANGED <<saves, onFile, live, save, torn>> /\ KeyOnly
-----------------------------------------------------------------------------
Gone ==
  /\ backend' = "down" /\ restart' = FALSE /\ deaf' = TRUE
  /\ live' = FALSE /\ save' = [r \in Request |-> Idle]
  /\ walk' = "off" /\ walkMode' = "none" /\ checklist' = <<>>
  /\ UNCHANGED <<onFile, has, walks, saves, restarts, envVars>>
MidSave == \E r \in Request : save[r].at \in {"exporting", "stamping"}

(* run_ui's watcher stops the server, which answers what it has in hand,   *)
(* and the process exits with 86.                                          *)
RestartExit ==
  /\ Up /\ restart /\ \A r \in Request : save[r].at = "idle"
  /\ Gone /\ UNCHANGED <<setup, torn>>

(* The process dies or is closed; in the middle of write_setup, the file   *)
(* is left unreadable and is read as {} from then on.                      *)
Crash ==
  /\ Up /\ Gone /\ restarts < MaxRestarts
  /\ setup' \in {setup, Blank}
  /\ torn' = (torn \/ MidSave)

VoiceLoads == {"kokoro", "wakeword", "whisper"} \subseteq has

(* load_dotenv, apply_setup, build_provider, and voice.                    *)
Boot ==
  /\ backend = "down" /\ restarts < MaxRestarts /\ restarts' = restarts + 1
  /\ live' = (exported \/ onFile)
  /\ backend' = Built(setup.router, live')
  /\ deaf' = ~VoiceLoads
  /\ UNCHANGED <<setup, onFile, save, saves, walkVars, restart, envVars, torn>>

SetupNext ==
  \/ \E m \in Modes : ChooseMode(m)
  \/ Provision \/ CheckDisk \/ DetectRuntime \/ FetchStep \/ FetchFails
  \/ OllamaDaemon \/ PullModel \/ Verify
  \/ \E r \in Request : \/ \E v \in {"set", "clear", "other"} : Submit(r, v)
                    \/ Proved(r) \/ Rejected(r) \/ WriteEnv(r) \/ WriteEnviron(r) \/ Stamp(r)
  \/ Complete \/ RestartExit \/ Crash \/ Boot
SetupSpec == SetupInit /\ [][SetupNext]_setupVars
-----------------------------------------------------------------------------
(* A machine called provisioned has everything the mode it is in needs,    *)
(* through retries, crashes and changes of mode (server.py:661-667).       *)
ProvisionedIsEarned == setup.provisioned => Needs(setup.mode) \subseteq has

(* When a run is over, the wizard shows either a verdict with every row of *)
(* the checklist answered, or an error it can offer to retry; a model row  *)
(* is left alone only under a daemon row that says what to install         *)
(* (provision.py:657-659, 736-752).                                        *)
WalkIsShown ==
  (walk = "off" /\ checklist # <<>>) =>
    \/ \E row \in DOMAIN checklist : checklist[row] = "error"
    \/ \A i \in 1 .. Len(Plan(walkMode)) :
         LET row == Plan(walkMode)[i] IN
           \/ row \in DOMAIN checklist
           \/ row = "ollama-model" /\ checklist["ollama-daemon"] = "needs_install"

(* No sequence of saved, rejected and cleared keys leaves a setup.json the *)
(* next boot refuses (keys.py:512-518, server.py:820-824).                 *)
BootNeverRefuses == backend # "refused"

(* Once setup is finished, a stamped cloud brain is the one this process   *)
(* runs, or the process is on its way to be restarted (server.py:847-861). *)
KeyIsApplied ==
  (Up /\ owned /\ setup.complete /\ setup.router = "cloud_primary") =>
    backend = "cloud" \/ restart

(* A finished cloud-only install boots with a brain to answer with         *)
(* (server.py:902-905).                                                    *)
FinishedHasABrain ==
  [][Boot /\ setup.complete /\ setup.mode = "cloud_only" => backend' = "cloud"]_setupVars
=============================================================================
