---------------------------- MODULE FirstRun_proofs ----------------------------
(* The first run, for files, waits and machines of any size: what is        *)
(* fetched, when a loader is given up, what the flags of setup.json mean.   *)
EXTENDS Fetch, Setup, TLAPS

(* What is on disk is the beginning of the file, and the stream goes on     *)
(* where it ends.                                                           *)
Beginning(s) == s \in Seq(1 .. Size) /\ Len(s) <= Size /\ \A i \in 1 .. Len(s) : s[i] = i
PartInv ==
  /\ Beginning(part) /\ (dest = <<>> \/ dest = Whole)
  /\ dl = "stream" => at = Len(part)
  /\ dl = "promote" => Len(part) = Size

(* Nothing has been fetched.                                               *)
LEMMA PartStart == FetchInit => PartInv
  BY FetchAssumption DEF FetchInit, PartInv, Beginning

(* Every answer, failure and crash leaves a beginning of the file in .part. *)
LEMMA PartStep ==
  ASSUME PartInv, [FetchNext]_fetchVars
  PROVE  PartInv'
<1> USE FetchAssumption DEF PartInv
<1>1. CASE UNCHANGED fileVars
  BY <1>1 DEF fileVars, Beginning
<1>2. CASE FetchIfAbsent \/ AttemptFails \/ NothingLeft \/ Resumed \/ StreamEnds
  BY <1>2 DEF FetchIfAbsent, AttemptFails, NothingLeft, Resumed, StreamEnds, Beginning
<1>3. CASE Restarted
  BY <1>3 DEF Restarted, Beginning
<1>4. CASE Chunk
  <2>1. /\ part' = Append(part, Len(part) + 1) /\ Len(part) < Size /\ at' = Len(part) + 1
        /\ dl = "stream" /\ dl' = dl /\ dest' = dest
    BY <1>4 DEF Chunk
  <2>2. Beginning(part')
    BY <2>1 DEF Beginning
  <2>3. Len(part') = Len(part) + 1
    BY <2>1 DEF Beginning
  <2> QED
    BY <2>1, <2>2, <2>3
<1>5. CASE Promote
  <2>1. part = Whole
    BY <1>5 DEF Promote, Beginning, Whole
  <2> QED
    BY <1>5, <2>1 DEF Promote, Beginning
<1>6. CASE Dies
  <2>1. PICK n \in 0 .. Len(part) : part' = SubSeq(part, 1, n)
    BY <1>6 DEF Dies
  <2>2. Beginning(part')
    BY <2>1 DEF Beginning
  <2> QED
    BY <1>6, <2>2 DEF Dies
<1>7. Watch \/ Arrives \/ LoaderEnds \/ LoaderRaises \/ Beat \/ UNCHANGED fetchVars
        => UNCHANGED fileVars
  BY DEF Watch, Arrives, LoaderEnds, LoaderRaises, Beat, fetchVars
<1> QED
  BY <1>1, <1>2, <1>3, <1>4, <1>5, <1>6, <1>7 DEF FetchNext

(* A file under its final name is whole, after any number of broken        *)
(* transfers, restarts and deaths of the process (download_file).          *)
THEOREM FetchCorrect == FetchSpec => []FetchedIsWhole
<1>1. PartInv => FetchedIsWhole
  BY DEF PartInv, FetchedIsWhole
<1> QED
  BY <1>1, PartStart, PartStep, PTL DEF FetchSpec
-----------------------------------------------------------------------------
(* The parameters of the download, one by one.                             *)
LEMMA Bounds ==
  /\ Size \in Nat /\ Retries \in Nat /\ Total \in Nat /\ StallBeats \in Nat
  /\ StepBeats \in Nat /\ MaxLoaders \in Nat
  BY FetchAssumption

(* The beats keep within the hour, and while no new byte has been seen the *)
(* silence the watcher counts is no longer than the real one.              *)
WatcherInv ==
  /\ FetchTypeOK
  /\ last <= bytes /\ (last = bytes => still <= quiet)
  /\ step = "on" => age <= StepBeats /\ still <= age /\ quiet <= age

(* No loader is watched.                                                   *)
LEMMA WatcherStart == FetchInit => WatcherInv
  BY FetchAssumption DEF FetchInit, WatcherInv, FetchTypeOK

(* A download does not touch the watched step.                             *)
LEMMA FilesKeepType ==
  ASSUME FetchTypeOK, UNCHANGED loadVars,
         \/ FetchIfAbsent \/ Resumed \/ Restarted \/ NothingLeft \/ Chunk \/ StreamEnds
         \/ Promote \/ AttemptFails
  PROVE  FetchTypeOK'
<1> USE FetchAssumption DEF FetchTypeOK, loadVars
<1>1. CASE FetchIfAbsent
  BY <1>1 DEF FetchIfAbsent
<1>2. CASE Resumed
  <2>1. Len(part) \in 0 .. Size
    BY <1>2, Bounds DEF Resumed
  <2> QED
    BY <1>2, <2>1 DEF Resumed
<1>3. CASE Restarted
  BY <1>3 DEF Restarted
<1>4. CASE NothingLeft \/ StreamEnds
  BY <1>4 DEF NothingLeft, StreamEnds
<1>5. CASE Chunk
  <2>1. at + 1 \in 1 .. Size
    BY <1>5, Bounds DEF Chunk
  <2>2. part' \in Seq(1 .. Size)
    BY <1>5, <2>1 DEF Chunk
  <2> QED
    BY <1>5, <2>1, <2>2, Bounds DEF Chunk
<1>6. CASE Promote
  BY <1>6 DEF Promote
<1>7. CASE AttemptFails
  BY <1>7 DEF AttemptFails
<1> QED
  BY <1>1, <1>2, <1>3, <1>4, <1>5, <1>6, <1>7

(* Real silence is never shorter than the one the watcher counts.          *)
LEMMA WatcherStep ==
  ASSUME WatcherInv, [FetchNext]_fetchVars
  PROVE  WatcherInv'
<1> USE FetchAssumption DEF WatcherInv
<1>1. CASE \/ FetchIfAbsent \/ Resumed \/ Restarted \/ NothingLeft \/ Chunk \/ StreamEnds
           \/ Promote \/ AttemptFails
  <2>1. UNCHANGED loadVars
    BY <1>1 DEF FetchIfAbsent, Resumed, Restarted, NothingLeft, Chunk, StreamEnds, Promote,
                AttemptFails
  <2> QED
    BY <1>1, <2>1, FilesKeepType DEF loadVars
<1>2. CASE Dies
  <2>1. PICK n \in 0 .. Len(part) : part' = SubSeq(part, 1, n)
    BY <1>2 DEF Dies
  <2>2. part \in Seq(1 .. Size)
    BY DEF FetchTypeOK
  <2>3. part' \in Seq(1 .. Size)
    BY <2>1, <2>2
  <2>4. /\ step' = "off" /\ loaders' = 0 /\ last' = 0 /\ age' = 0 /\ still' = 0 /\ quiet' = 0
        /\ dl' = "idle" /\ attempt' = 0 /\ UNCHANGED <<dest, at, bytes>>
    BY <1>2 DEF Dies
  <2>5. FetchTypeOK'
    BY <2>3, <2>4, Bounds DEF FetchTypeOK
  <2> QED
    BY <2>4, <2>5 DEF FetchTypeOK
<1>3. CASE Watch
  BY <1>3 DEF Watch, FetchTypeOK, fileVars
<1>4. CASE Arrives
  BY <1>4 DEF Arrives, FetchTypeOK, fileVars
<1>5. CASE LoaderEnds \/ LoaderRaises
  <2>1. /\ step' \in {"done", "failed", step} /\ loaders' = loaders - 1 /\ loaders > 0
        /\ UNCHANGED <<fileVars, bytes, last, age, still, quiet>>
    BY <1>5 DEF LoaderEnds, LoaderRaises
  <2>2. loaders' \in 0 .. MaxLoaders
    BY <2>1, Bounds DEF FetchTypeOK
  <2> QED
    BY <2>1, <2>2 DEF FetchTypeOK, fileVars
<1>6. CASE Beat
  <2>1. /\ step = "on" /\ age' = age + 1 /\ quiet' = quiet + 1 /\ still' \in {0, still + 1}
        /\ last' = bytes /\ bytes' = bytes /\ loaders' = loaders /\ UNCHANGED fileVars
        /\ step' \in {"on", "given_up"} /\ (step' = "on" => age' <= StepBeats)
        /\ (bytes = last => still' = still + 1) /\ (bytes # last => still' = 0)
    BY <1>6, Bounds DEF Beat, FetchTypeOK
  <2>2. {age', still', quiet'} \subseteq 0 .. StepBeats + 1
    BY <2>1, Bounds DEF FetchTypeOK
  <2>3. FetchTypeOK'
    BY <2>1, <2>2 DEF FetchTypeOK, fileVars
  <2>4. age \in Nat /\ still \in Nat /\ quiet \in Nat /\ bytes \in Nat
    BY Bounds DEF FetchTypeOK
  <2>5. still' <= quiet' /\ still' <= age' /\ quiet' <= age' /\ last' <= bytes'
    BY <2>1, <2>4
  <2> QED
    BY <2>1, <2>3, <2>5
<1>7. CASE UNCHANGED fetchVars
  BY <1>7 DEF FetchTypeOK, fetchVars, fileVars, loadVars
<1> QED
  BY <1>1, <1>2, <1>3, <1>4, <1>5, <1>6, <1>7 DEF FetchNext

(* The types of both halves, with the bounds of the beats.                 *)
THEOREM FetchTypes == FetchSpec => []FetchTypeOK
<1>1. WatcherInv => FetchTypeOK
  BY DEF WatcherInv
<1> QED
  BY <1>1, WatcherStart, WatcherStep, PTL DEF FetchSpec

(* A loader is given up only when it is dead by the code's own rule, and   *)
(* never waited for past the hour (_run_watched_step).                     *)
THEOREM GivesUpCorrect == FetchSpec => GivesUpOnTheDead
<1> DEFINE GivenUp ==
      step = "on" =>
        /\ step' = "given_up" => \/ age' > StepBeats
                                 \/ quiet' > StallBeats /\ 100 * bytes < 95 * Total
        /\ step' = "on" => age' <= StepBeats
<1>1. WatcherInv /\ [FetchNext]_fetchVars => [GivenUp]_loadVars
  <2> SUFFICES ASSUME WatcherInv, [FetchNext]_fetchVars, step = "on" PROVE [GivenUp]_loadVars
    OBVIOUS
  <2> USE FetchAssumption DEF WatcherInv, FetchTypeOK
  <2>1. CASE UNCHANGED loadVars
    BY <2>1
  <2>2. CASE Dies \/ Watch \/ Arrives \/ LoaderEnds \/ LoaderRaises
    BY <2>2 DEF Dies, Watch, Arrives, LoaderEnds, LoaderRaises
  <2>3. CASE Beat
    <3>1. /\ age' = age + 1 /\ quiet' = quiet + 1 /\ still' \in {0, still + 1}
          /\ (still' = 0 \/ bytes = last)
          /\ step' = IF age' > StepBeats \/ (100 * bytes < 95 * Total /\ still' > StallBeats)
                     THEN "given_up" ELSE "on"
      BY <2>3, Bounds DEF Beat, Downloading
    <3>2. still' > StallBeats => quiet' > StallBeats
      BY <3>1, Bounds
    <3>3. age' > StepBeats \/ age' <= StepBeats
      BY <3>1, Bounds
    <3> QED
      BY <3>1, <3>2, <3>3
  <2> QED
    BY <2>1, <2>2, <2>3 DEF FetchNext, fetchVars, FetchIfAbsent, Resumed, Restarted,
       NothingLeft, Chunk, StreamEnds, Promote, AttemptFails
<1> QED
  BY <1>1, WatcherStart, WatcherStep, PTL DEF FetchSpec, GivesUpOnTheDead
-----------------------------------------------------------------------------
SetupType == [mode : {"none", "full", "cloud_only"}, provisioned : BOOLEAN,
              router : {"none", "local_primary", "cloud_primary"}, complete : BOOLEAN]

(* What earned the flag is still there, and a run is for the mode chosen,  *)
(* unless the mode was changed under it.                                   *)
EarnedInv ==
  /\ setup \in SetupType
  /\ ~torn => /\ ProvisionedIsEarned
              /\ setup.provisioned => setup.mode # "none"
              /\ walk # "off" => walkMode = setup.mode /\ setup.mode # "none"

(* A blank setup.json claims nothing.                                      *)
LEMMA EarnedStart == SetupInit => EarnedInv
<1>1. Blank \in SetupType /\ ~Blank.provisioned
  BY DEF Blank, SetupType
<1>2. SetupInit => setup = Blank /\ walk = "off"
  BY DEF SetupInit
<1> QED
  BY <1>1, <1>2 DEF EarnedInv, ProvisionedIsEarned

(* Steps that only add to the machine keep what was earned.                *)
LEMMA EarnedKept ==
  ASSUME EarnedInv, has \subseteq has', setup' \in SetupType, setup'.mode = setup.mode,
         setup'.provisioned = setup.provisioned, torn => torn',
         walk' # "off" => walk # "off" /\ walkMode' = walkMode
  PROVE  EarnedInv'
  BY DEF EarnedInv, ProvisionedIsEarned

(* A new mode takes back the old one's verdict.                            *)
LEMMA ModeStep ==
  ASSUME EarnedInv, NEW m \in Modes, ChooseMode(m)
  PROVE  EarnedInv'
<1>1. /\ setup'.mode = m /\ m # "none" /\ UNCHANGED <<walk, walkMode, has>>
      /\ torn' <=> torn \/ (walk # "off" /\ walkMode # m)
      /\ setup'.provisioned => setup.provisioned /\ setup.mode \in {"none", m}
  BY DEF ChooseMode, Modes, walkVars, EarnedInv, SetupType
<1>2. setup' \in SetupType
  BY DEF ChooseMode, Modes, EarnedInv, SetupType
<1> QED
  BY <1>1, <1>2 DEF EarnedInv, ProvisionedIsEarned

(* What a walk fetches stays, whatever comes of the rest.                  *)
LEMMA WalkStep ==
  ASSUME EarnedInv,
         Provision \/ CheckDisk \/ DetectRuntime \/ FetchStep \/ FetchFails \/ OllamaDaemon \/ PullModel
  PROVE  EarnedInv'
<1> USE DEF WalkOnly, keyVars, procVars, envVars, EarnedInv
<1>1. CASE Provision
  BY <1>1 DEF Provision, ProvisionedIsEarned, Modes
<1>2. CASE CheckDisk
  BY <1>2, EarnedKept DEF CheckDisk, Step
<1>3. CASE DetectRuntime
  BY <1>3, EarnedKept DEF DetectRuntime, Step
<1>4. CASE FetchStep
  BY <1>4, EarnedKept DEF FetchStep, Step, Fetched
<1>5. CASE FetchFails
  BY <1>5, EarnedKept DEF FetchFails, Step, Fetched, AutoDownloads
<1>6. CASE OllamaDaemon
  BY <1>6, EarnedKept DEF OllamaDaemon, Step, InstallOllama
<1>7. CASE PullModel
  BY <1>7, EarnedKept DEF PullModel, Step
<1> QED
  BY <1>1, <1>2, <1>3, <1>4, <1>5, <1>6, <1>7

(* The flag is earned by checks that passed for the mode of the walk.      *)
LEMMA VerifyStep ==
  ASSUME EarnedInv, Verify
  PROVE  EarnedInv'
<1>1. PICK ok \in Verdicts(walkMode) :
        /\ setup' = [setup EXCEPT !.provisioned = @ \/ ok]
        /\ has' = IF ok THEN has \cup AutoDownloads ELSE has
  BY DEF Verify
<1>2. walk = "verify" /\ walk' = "off" /\ UNCHANGED torn
  BY DEF Verify, WalkOnly
<1>3. ok \in BOOLEAN /\ (ok => \A check \in Needs(walkMode) : check \in has \cup AutoDownloads)
  BY DEF Verdicts, Works
<1>4. setup' \in SetupType /\ setup'.mode = setup.mode
      /\ (setup'.provisioned <=> setup.provisioned \/ ok)
  BY <1>1, <1>3 DEF EarnedInv, SetupType
<1> QED
  BY <1>1, <1>2, <1>3, <1>4 DEF EarnedInv, ProvisionedIsEarned

(* Key requests do not touch mode, flag or machine.                        *)
LEMMA HandlerStep ==
  ASSUME EarnedInv, NEW r \in Request,
         \/ (\E v \in {"set", "clear", "other"} : Submit(r, v)) \/ Proved(r) \/ Rejected(r)
         \/ WriteEnv(r) \/ WriteEnviron(r) \/ Stamp(r)
  PROVE  EarnedInv'
<1> USE DEF KeyOnly, walkVars, EarnedInv
<1>1. CASE (\E v \in {"set", "clear", "other"} : Submit(r, v)) \/ Proved(r) \/ Rejected(r)
             \/ WriteEnviron(r)
  BY <1>1, EarnedKept DEF Submit, Proved, Rejected, WriteEnviron
<1>2. CASE WriteEnv(r)
  BY <1>2, EarnedKept DEF WriteEnv
<1>3. CASE Stamp(r)
  <2>1. setup' \in SetupType /\ setup'.mode = setup.mode /\ setup'.provisioned = setup.provisioned
    BY <1>3 DEF Stamp, RouterModeFor, SetupType
  <2> QED
    BY <1>3, <2>1, EarnedKept DEF Stamp
<1> QED
  BY <1>1, <1>2, <1>3

(* Neither do the ends and the boots of the process, but for a lost setup.json. *)
LEMMA ProcessStep ==
  ASSUME EarnedInv, RestartExit \/ Crash \/ Boot \/ Complete \/ UNCHANGED setupVars
  PROVE  EarnedInv'
<1> USE DEF EarnedInv, Gone
<1>1. CASE RestartExit
  BY <1>1, EarnedKept DEF RestartExit
<1>2. CASE Crash
  <2>1. Blank \in SetupType /\ ~Blank.provisioned
    BY DEF Blank, SetupType
  <2>2. walk' = "off" /\ has' = has /\ (torn => torn') /\ setup' \in {setup, Blank}
    BY <1>2 DEF Crash
  <2>3. CASE setup' = setup
    BY <2>2, <2>3, EarnedKept
  <2>4. CASE setup' = Blank
    BY <2>1, <2>2, <2>4 DEF ProvisionedIsEarned
  <2> QED
    BY <2>2, <2>3, <2>4
<1>3. CASE Boot
  BY <1>3, EarnedKept DEF Boot, walkVars
<1>4. CASE UNCHANGED setupVars
  BY <1>4, EarnedKept DEF setupVars, walkVars
<1>5. CASE Complete
  <2>1. setup' \in SetupType /\ setup'.mode = setup.mode /\ setup'.provisioned = setup.provisioned
    BY <1>5 DEF Complete, SetupType
  <2> QED
    BY <1>5, <2>1, EarnedKept DEF Complete, KeyOnly, walkVars
<1> QED
  BY <1>1, <1>2, <1>3, <1>4, <1>5

-----------------------------------------------------------------------------
(* The file and the environment tell one story, but for the one handler    *)
(* that is between the two; once no handler is underway the router mode    *)
(* fits the file.                                                          *)
SaveType == [at : {"idle", "proving", "filing", "exporting", "stamping"},
             value : {"set", "clear", "other"}]
Exporting(r) == save[r].at = "exporting"
Mid(r) == save[r].at \in {"exporting", "stamping"}
Agree == (onFile => live) /\ (live => onFile \/ exported)
Stored(r) == /\ save[r].value = "set" => onFile
             /\ save[r].value = "clear" => ~onFile
             /\ save[r].value = "other" => Agree
KeysInv ==
  /\ save \in [Request -> SaveType]
  /\ ~Up => \A r \in Request : save[r].at = "idle"
  /\ ~torn =>
       /\ \A r, q \in Request : Exporting(r) /\ Exporting(q) => r = q
       /\ Up /\ (\A r \in Request : ~Exporting(r)) => Agree
       /\ \A r \in Request : Exporting(r) => Stored(r)
       /\ (\A r \in Request : ~Mid(r)) => (setup.router = "cloud_primary" => onFile \/ exported)
       /\ BootNeverRefuses

(* No key is stored and no request is under way.                           *)
LEMMA KeysStart == SetupInit => KeysInv
  BY DEF SetupInit, KeysInv, SaveType, Idle, Blank, Exporting, Agree, Up, BootNeverRefuses

(* Steps that are not about the keys.                                      *)
LEMMA KeysUntouched ==
  ASSUME KeysInv, UNCHANGED <<save, onFile, live, exported, backend>>, torn => torn',
         setup'.router = setup.router
  PROVE  KeysInv'
  BY DEF KeysInv, Exporting, Mid, Agree, Stored, Up, BootNeverRefuses

(* Before the write the request is as if it were not there.                *)
LEMMA KeysSubmitStep ==
  ASSUME KeysInv, NEW r \in Request,
         (\E v \in {"set", "clear", "other"} : Submit(r, v)) \/ Proved(r) \/ Rejected(r)
  PROVE  KeysInv'
<1>1. /\ UNCHANGED <<onFile, live, exported, backend, setup, torn>> /\ Up
      /\ \E s \in SaveType : s.at \in {"idle", "proving", "filing"} /\ save' = [save EXCEPT ![r] = s]
      /\ save[r].at \in {"idle", "proving"}
  <2>1. save[r] \in SaveType
    BY DEF KeysInv
  <2> QED
    BY <2>1 DEF Submit, Proved, Rejected, At, KeyOnly, envVars, SaveType, KeysInv
<1>2. /\ save' \in [Request -> SaveType] /\ ~Mid(r)' /\ ~Mid(r)
      /\ \A q \in Request \ {r} : save'[q] = save[q]
  BY <1>1 DEF Mid, KeysInv
<1>3. \A q \in Request : (Mid(q)' <=> Mid(q)) /\ (Exporting(q)' => Exporting(q)) /\ (Exporting(q) => Exporting(q)')
  BY <1>1, <1>2 DEF Mid, Exporting
<1>4. \A q \in Request : Exporting(q) => (Stored(q)' <=> Stored(q))
  BY <1>1, <1>2 DEF Mid, Exporting, Stored, Agree
<1> QED
  BY <1>1, <1>2, <1>3, <1>4 DEF KeysInv, Agree, Up, BootNeverRefuses

(* Only this handler is between the file and the environment, or torn.     *)
LEMMA KeysWriteStep ==
  ASSUME KeysInv, NEW r \in Request, WriteEnv(r) \/ WriteEnviron(r)
  PROVE  KeysInv'
<1>1. /\ UNCHANGED <<exported, backend>> /\ setup'.router = setup.router /\ (torn => torn')
      /\ Up /\ Mid(r)' /\ save[r].at \in {"filing", "exporting"}
      /\ save' \in [Request -> SaveType] /\ save'[r].value = save[r].value
      /\ \A q \in Request \ {r} : save'[q] = save[q]
  <2>1. PICK place \in {"exporting", "stamping"} : save' = [save EXCEPT ![r].at = place]
    BY DEF WriteEnv, WriteEnviron, At
  <2>2. save[r] \in SaveType
    BY DEF KeysInv
  <2>3. /\ save' \in [Request -> SaveType] /\ save'[r].value = save[r].value /\ save'[r].at = place
        /\ \A q \in Request \ {r} : save'[q] = save[q]
    BY <2>1, <2>2 DEF KeysInv, SaveType
  <2>4. /\ UNCHANGED <<exported, backend, setup>> /\ save[r].at \in {"filing", "exporting"}
    BY DEF WriteEnv, WriteEnviron, KeyOnly, envVars
  <2>5. torn => torn'
    BY DEF WriteEnv, WriteEnviron
  <2> QED
    BY <2>3, <2>4, <2>5 DEF KeysInv, Mid
<1>2. save[r].value \in {"set", "clear", "other"}
  BY DEF KeysInv, SaveType
<1> SUFFICES ASSUME ~torn'
             PROVE  /\ \A q, p \in Request : Exporting(q)' /\ Exporting(p)' => q = p
                    /\ (\A q \in Request : ~Exporting(q)') => Agree'
                    /\ \A q \in Request : Exporting(q)' => Stored(q)'
                    /\ BootNeverRefuses'
  BY <1>1 DEF KeysInv, Up
<1>3. BootNeverRefuses'
  BY <1>1 DEF KeysInv, BootNeverRefuses
<1>4. CASE WriteEnv(r)
  <2>1. \A q \in Request : ~Exporting(q)
    BY <1>4 DEF WriteEnv, Exporting
  <2>2. Agree
    BY <1>1, <2>1 DEF KeysInv
  <2>3. \A q \in Request : Exporting(q)' => q = r
    BY <1>1, <2>1 DEF Exporting
  <2>4. Exporting(r)'
    BY <1>4 DEF WriteEnv, At, Exporting, KeysInv
  <2>5. live' = live /\ onFile' = KeyAfter(r, onFile)
    BY <1>4 DEF WriteEnv
  <2>6. Stored(r)'
    BY <1>1, <1>2, <2>2, <2>5 DEF Stored, KeyAfter, Agree
  <2> QED
    BY <1>3, <2>3, <2>4, <2>6
<1>5. CASE WriteEnviron(r)
  <2>1. Exporting(r) /\ ~Exporting(r)'
    BY <1>5 DEF WriteEnviron, At, Exporting, KeysInv
  <2>2. \A q \in Request : ~Exporting(q)'
    BY <1>1, <2>1 DEF KeysInv, Exporting
  <2>3. Stored(r)
    BY <1>1, <2>1 DEF KeysInv
  <2>4. onFile' = onFile /\ live' = KeyAfter(r, live)
    BY <1>5 DEF WriteEnviron
  <2>5. Agree'
    BY <1>1, <1>2, <2>3, <2>4 DEF Stored, KeyAfter, Agree
  <2> QED
    BY <1>3, <2>2, <2>5
<1> QED
  BY <1>4, <1>5

(* The stamp follows what file and environment say at that moment.         *)
LEMMA KeysStampStep ==
  ASSUME EarnedInv, KeysInv, NEW r \in Request, Stamp(r)
  PROVE  KeysInv'
<1>1. /\ UNCHANGED <<onFile, live, exported, backend, torn>> /\ Up
      /\ save[r].at = "stamping" /\ save' \in [Request -> SaveType] /\ save'[r].at = "idle"
      /\ \A q \in Request \ {r} : save'[q] = save[q]
  BY DEF Stamp, At, KeyOnly, envVars, KeysInv, SaveType, Up
<1>3. \A q \in Request : (Exporting(q)' => Exporting(q)) /\ (Exporting(q) => Exporting(q)')
  BY <1>1 DEF Exporting
<1>4. \A q \in Request : Exporting(q) => (Stored(q)' <=> Stored(q))
  BY <1>1 DEF Exporting, Stored, Agree
<1>5. ~torn /\ (\A q \in Request : ~Mid(q)') => (setup'.router = "cloud_primary" => onFile \/ exported)
  <2> SUFFICES ASSUME ~torn, \A q \in Request : ~Mid(q)', setup'.router = "cloud_primary"
               PROVE  onFile \/ exported
    OBVIOUS
  <2>1. Agree
    BY <1>1, <1>3 DEF KeysInv, Mid, Exporting
  <2>2. onFile \/ live
    BY DEF Stamp, RouterModeFor, HasKey, EarnedInv, SetupType
  <2> QED
    BY <2>1, <2>2 DEF Agree
<1> QED
  BY <1>1, <1>3, <1>4, <1>5 DEF KeysInv, Agree, Up, BootNeverRefuses

(* The process goes, with every handler idle or torn; the next one reads   *)
(* the file.                                                               *)
LEMMA KeysProcessStep ==
  ASSUME KeysInv, RestartExit \/ Crash \/ Boot
  PROVE  KeysInv'
<1>1. CASE RestartExit \/ Crash
  <2>1. /\ backend' = "down" /\ UNCHANGED <<onFile, exported>>
        /\ save' = [r \in Request |-> Idle] /\ (torn => torn') /\ setup' \in {setup, Blank}
        /\ ~torn' => \A r \in Request : ~Mid(r)
    <3>1. CASE RestartExit
      BY <3>1 DEF RestartExit, Gone, envVars, Mid
    <3>2. CASE Crash
      <4>1. torn' <=> torn \/ MidSave
        BY <3>2 DEF Crash
      <4>2. /\ backend' = "down" /\ UNCHANGED <<onFile, exported>>
            /\ save' = [r \in Request |-> Idle] /\ setup' \in {setup, Blank}
        BY <3>2 DEF Crash, Gone, envVars
      <4> QED
        BY <4>1, <4>2 DEF MidSave, Mid
    <3> QED
      BY <1>1, <3>1, <3>2
  <2>2. save' \in [Request -> SaveType] /\ \A r \in Request : save'[r].at = "idle"
    BY <2>1 DEF Idle, SaveType
  <2>3. ~torn' => (setup'.router = "cloud_primary" => onFile' \/ exported')
    BY <2>1 DEF KeysInv, Blank
  <2> QED
    BY <2>1, <2>2, <2>3 DEF KeysInv, Up, Exporting, BootNeverRefuses
<1>2. CASE Boot
  <2>1. /\ UNCHANGED <<onFile, exported, save, setup, torn>>
        /\ live' <=> exported \/ onFile
        /\ backend' = Built(setup.router, live') /\ ~Up
    BY <1>2 DEF Boot, envVars, Up
  <2>2. \A r \in Request : save[r].at = "idle"
    BY <2>1 DEF KeysInv
  <2>3. Agree'
    BY <2>1 DEF Agree
  <2>4. ~torn => BootNeverRefuses'
    BY <2>1, <2>2 DEF KeysInv, Mid, Built, BootNeverRefuses
  <2> QED
    BY <2>1, <2>2, <2>3, <2>4 DEF KeysInv, Exporting, Mid
<1> QED
  BY <1>1, <1>2

(* Walks, modes and completion leave keys and stamp alone.                 *)
LEMMA KeysElsewhere ==
  ASSUME EarnedInv, KeysInv,
         \/ (\E m \in Modes : ChooseMode(m)) \/ Provision \/ CheckDisk \/ DetectRuntime \/ FetchStep
         \/ FetchFails \/ OllamaDaemon \/ PullModel \/ Verify \/ Complete \/ UNCHANGED setupVars
  PROVE  KeysInv'
<1>1. /\ UNCHANGED <<save, onFile, live, exported, backend>> /\ (torn => torn')
      /\ setup'.router = setup.router
  <2>1. CASE \E m \in Modes : ChooseMode(m)
    <3>1. UNCHANGED <<save, onFile, live, exported, backend>>
      BY <2>1 DEF ChooseMode, keyVars, procVars, envVars
    <3>2. torn => torn'
      BY <2>1 DEF ChooseMode
    <3>3. setup'.router = setup.router
      BY <2>1 DEF ChooseMode, EarnedInv, SetupType
    <3> QED
      BY <3>1, <3>2, <3>3
  <2>2. CASE Provision \/ CheckDisk \/ DetectRuntime \/ FetchStep \/ FetchFails \/ OllamaDaemon
             \/ PullModel
    BY <2>2 DEF Provision, CheckDisk, DetectRuntime, FetchStep, FetchFails, OllamaDaemon, PullModel,
       WalkOnly, keyVars, procVars, envVars
  <2>3. CASE Verify
    BY <2>3 DEF Verify, WalkOnly, keyVars, procVars, envVars
  <2>4. CASE Complete
    BY <2>4 DEF Complete, KeyOnly, envVars
  <2>5. CASE UNCHANGED setupVars
    BY <2>5 DEF setupVars, keyVars, procVars, envVars
  <2> QED
    BY <2>1, <2>2, <2>3, <2>4, <2>5
<1> QED
  BY <1>1, KeysUntouched

(* Together: both invariants of the setup.                                 *)
LEMMA SetupInductive == SetupSpec => [](EarnedInv /\ KeysInv)
<1>1. EarnedInv /\ [SetupNext]_setupVars => EarnedInv'
  BY ModeStep, WalkStep, VerifyStep, HandlerStep, ProcessStep DEF SetupNext
<1>2. EarnedInv /\ KeysInv /\ [SetupNext]_setupVars => KeysInv'
  BY KeysSubmitStep, KeysWriteStep, KeysStampStep, KeysProcessStep, KeysElsewhere DEF SetupNext
<1> QED
  BY <1>1, <1>2, EarnedStart, KeysStart, PTL DEF SetupSpec

(* As long as no mode was changed under a running walk, what is called     *)
(* provisioned has all its mode needs (provision_all, api_setup_mode).     *)
THEOREM ProvisionedCorrect == SetupSpec => [](~torn => ProvisionedIsEarned)
<1>1. EarnedInv => (~torn => ProvisionedIsEarned)
  BY DEF EarnedInv
<1> QED
  BY <1>1, SetupInductive, PTL

(* As long as no handler was cut in two, no boot is refused for a missing  *)
(* key (api_setup_keys_save, build_provider).                              *)
THEOREM BootCorrect == SetupSpec => [](~torn => BootNeverRefuses)
<1>1. KeysInv => (~torn => BootNeverRefuses)
  BY DEF KeysInv
<1> QED
  BY <1>1, SetupInductive, PTL

(* Once setup is finished, a cloud brain that was stamped is running or    *)
(* the restart for it is on its way, whatever was torn                     *)
(* (_restart_needed_to_apply).                                             *)
THEOREM AppliedCorrect == SetupSpec => []KeyIsApplied
<1> USE DEF KeyIsApplied, Up, EarnedInv, SetupType
<1>1. SetupInit => KeyIsApplied
  BY DEF SetupInit, Blank
<1>2. ASSUME EarnedInv, KeyIsApplied, [SetupNext]_setupVars PROVE KeyIsApplied'
  <2>1. CASE \E r \in Request : Stamp(r)
    BY <1>2, <2>1 DEF Stamp, RestartNeeded, KeyOnly, envVars
  <2>2. CASE Complete
    BY <1>2, <2>2 DEF Complete, RestartNeeded, KeyOnly, envVars
  <2>3. CASE RestartExit \/ Crash
    BY <2>3 DEF RestartExit, Crash, Gone
  <2>4. CASE Boot
    BY <2>4 DEF Boot, Built
  <2>5. CASE \E m \in Modes : ChooseMode(m)
    BY <1>2, <2>5 DEF ChooseMode, procVars, envVars, Modes
  <2>6. CASE Verify
    BY <1>2, <2>6 DEF Verify, WalkOnly, procVars, envVars
  <2>7. CASE Provision \/ CheckDisk \/ DetectRuntime \/ FetchStep \/ FetchFails \/ OllamaDaemon
             \/ PullModel \/ UNCHANGED setupVars
    BY <1>2, <2>7 DEF Provision, CheckDisk, DetectRuntime, FetchStep, FetchFails, OllamaDaemon,
       PullModel, WalkOnly, procVars, envVars, setupVars
  <2>8. CASE \E r \in Request : \/ \E v \in {"set", "clear", "other"} : Submit(r, v)
                            \/ Proved(r) \/ Rejected(r) \/ WriteEnv(r) \/ WriteEnviron(r)
    <3>1. UNCHANGED <<setup, backend, restart, owned>>
      BY <2>8 DEF Submit, Proved, Rejected, WriteEnv, WriteEnviron, KeyOnly, envVars
    <3> QED
      BY <1>2, <3>1
  <2> QED
    BY <1>2, <2>1, <2>2, <2>3, <2>4, <2>5, <2>6, <2>7, <2>8 DEF SetupNext
<1> QED
  BY <1>1, <1>2, SetupInductive, PTL DEF SetupSpec
-----------------------------------------------------------------------------
(* Every checklist begins with the disk, names no row twice and ends with   *)
(* the verdict.                                                             *)
LEMMA ChecklistOrder ==
  ASSUME NEW mode
  PROVE  /\ Len(Plan(mode)) \in Nat \ {0} /\ Plan(mode)[1] = "disk"
         /\ \A i, j \in 1 .. Len(Plan(mode)) : Plan(mode)[i] = Plan(mode)[j] => i = j
         /\ \A i \in 1 .. Len(Plan(mode)) : Plan(mode)[i] = "verify" <=> i = Len(Plan(mode))
<1>1. Len(Plan(mode)) \in Nat \ {0} /\ Plan(mode)[1] = "disk"
  BY DEF Plan
<1>2. \A i, j \in 1 .. Len(Plan(mode)) : Plan(mode)[i] = Plan(mode)[j] => i = j
  <2>1. CASE mode = "full"
    BY <2>1 DEF Plan
  <2>2. CASE mode # "full"
    BY <2>2 DEF Plan
  <2> QED
    BY <2>1, <2>2
<1>3. Len(Plan(mode)) \in 1 .. Len(Plan(mode)) /\ Plan(mode)[Len(Plan(mode))] = "verify"
  BY DEF Plan
<1> QED
  BY <1>1, <1>2, <1>3

(* Where the daemon's row is, only the model's comes between it and the     *)
(* verdict.                                                                 *)
LEMMA DaemonRow ==
  ASSUME NEW mode, NEW i \in 1 .. Len(Plan(mode)), Plan(mode)[i] = "ollama-daemon"
  PROVE  \A j \in 1 .. Len(Plan(mode)) :
           j < i \/ Plan(mode)[j] \in {"ollama-daemon", "ollama-model", "verify"}
<1>1. CASE mode = "full"
  BY <1>1 DEF Plan
<1>2. CASE mode # "full"
  BY <1>2 DEF Plan
<1> QED
  BY <1>1, <1>2

(* The rows of the list p before its row number i that are answered, or are *)
(* the model under a daemon that is missing.                                *)
Spared(row) == row = "ollama-model" /\ "ollama-daemon" \in DOMAIN checklist
                 /\ checklist["ollama-daemon"] = "needs_install"
AnsweredTo(i) ==
  \A j \in 1 .. i - 1 : Plan(walkMode)[j] \in DOMAIN checklist
                          \/ (walk = "verify" /\ Spared(Plan(walkMode)[j]))
Underway ==
  \E i \in 1 .. Len(Plan(walkMode)) : walk = Plan(walkMode)[i] /\ AnsweredTo(i)
WalkInv ==
  /\ walk # "off" => Underway
  /\ WalkIsShown

(* No run has been started.                                                *)
LEMMA WalkStart == SetupInit => WalkInv
  BY DEF SetupInit, WalkInv, WalkIsShown

(* A row that is answered, in order, brings the walk to the next one.      *)
LEMMA WalkSteps ==
  ASSUME WalkInv, walk \notin {"off", "verify"}, NEW status, Step(walk, status),
         walkMode' = walkMode
  PROVE  WalkInv'
<1> DEFINE p == Plan(walkMode)
<1>1. PICK i \in 1 .. Len(p) : walk = p[i] /\ AnsweredTo(i)
  BY DEF WalkInv, Underway
<1>2. /\ Len(p) \in Nat \ {0} /\ \A k, j \in 1 .. Len(p) : p[k] = p[j] => k = j
      /\ \A k \in 1 .. Len(p) : p[k] = "verify" <=> k = Len(p)
  BY ChecklistOrder
<1>3. i + 1 \in 1 .. Len(p) /\ i \in Nat
  <2>1. i # Len(p)
    BY <1>1, <1>2
  <2> HIDE DEF p
  <2> QED
    BY <2>1, <1>2
<1>4. walk' = p[i + 1]
  <2> HIDE DEF p
  <2>1. (CHOOSE k \in 1 .. Len(p) : p[k] = walk) = i
    BY <1>1, <1>2
  <2>2. After(walk) = p[1 + CHOOSE k \in 1 .. Len(p) : p[k] = walk]
    BY DEF After, p
  <2>3. 1 + i = i + 1
    BY <1>3
  <2> QED
    BY <2>1, <2>2, <2>3 DEF Step
<1>5. DOMAIN checklist' = DOMAIN checklist \cup {walk}
  BY DEF Step, Answered
<1>6. p' = p
  BY DEF Plan
<1>7. AnsweredTo(i + 1)'
  <2> SUFFICES ASSUME NEW j \in 1 .. (i + 1) - 1
               PROVE  p[j] \in DOMAIN checklist'
    BY <1>6 DEF AnsweredTo
  <2>1. j \in 1 .. i - 1 \/ j = i
    BY <1>3
  <2> QED
    BY <2>1, <1>1, <1>5 DEF AnsweredTo
<1>8. Underway'
  BY <1>3, <1>4, <1>6, <1>7 DEF Underway
<1>9. walk' # "off"
  BY <1>3, <1>4 DEF Plan
<1> QED
  BY <1>8, <1>9 DEF WalkInv, WalkIsShown

(* A run that ends early shows an error.                                   *)
LEMMA WalkGivesUp ==
  ASSUME NEW some, NEW row \in some, checklist' = Answered(some, "error"), walk' = "off"
  PROVE  WalkInv'
<1>1. row \in DOMAIN checklist' /\ checklist'[row] = "error"
  BY DEF Answered
<1> QED
  BY <1>1 DEF WalkInv, WalkIsShown

(* A missing daemon takes the walk past the model's row.                   *)
LEMMA WalkSkipsModel ==
  ASSUME WalkInv, walk = "ollama-daemon", walk' = "verify", walkMode' = walkMode,
         checklist' = Answered({"ollama-daemon"}, "needs_install")
  PROVE  WalkInv'
<1> DEFINE p == Plan(walkMode)
<1>1. PICK i \in 1 .. Len(p) : walk = p[i] /\ AnsweredTo(i)
  BY DEF WalkInv, Underway
<1>2. /\ Len(p) \in Nat \ {0} /\ p[Len(p)] = "verify"
      /\ \A k, j \in 1 .. Len(p) : p[k] = p[j] => k = j
  BY ChecklistOrder
<1>3. /\ DOMAIN checklist' = DOMAIN checklist \cup {"ollama-daemon"}
      /\ checklist'["ollama-daemon"] = "needs_install" /\ p' = p
  BY DEF Answered, Plan
<1>4. AnsweredTo(Len(p))'
  <2> SUFFICES ASSUME NEW j \in 1 .. Len(p) - 1
               PROVE  p[j] \in DOMAIN checklist' \/ Spared(p[j])'
    BY <1>3 DEF AnsweredTo
  <2>1. j \in 1 .. Len(p) /\ p[j] # "verify"
    <3>1. j \in 1 .. Len(p) /\ j # Len(p) /\ Len(p) \in 1 .. Len(p)
      BY <1>2
    <3> QED
      BY <3>1, <1>2
  <2>2. CASE j < i
    <3>1. j \in 1 .. i - 1
      BY <2>1, <2>2, <1>1, <1>2
    <3> QED
      BY <3>1, <1>1, <1>3 DEF AnsweredTo
  <2>3. CASE ~(j < i)
    <3>1. p[j] \in {"ollama-daemon", "ollama-model"}
      BY <2>1, <2>3, <1>1, DaemonRow
    <3> QED
      BY <3>1, <1>3 DEF Spared
  <2> QED
    BY <2>2, <2>3
<1>5. Len(p) \in 1 .. Len(p)
  BY <1>2
<1> QED
  BY <1>2, <1>3, <1>4, <1>5 DEF WalkInv, Underway, WalkIsShown

(* The verdict is the last row.                                            *)
LEMMA WalkEnds ==
  ASSUME WalkInv, walk = "verify", walkMode' = walkMode, NEW status,
         checklist' = Answered({"verify"}, status), walk' = "off"
  PROVE  WalkInv'
<1> DEFINE p == Plan(walkMode)
<1>1. PICK i \in 1 .. Len(p) : walk = p[i] /\ AnsweredTo(i)
  BY DEF WalkInv, Underway
<1>2. Len(p) \in Nat \ {0} /\ i = Len(p) /\ p[Len(p)] = "verify"
  BY <1>1, ChecklistOrder
<1>3. /\ DOMAIN checklist' = DOMAIN checklist \cup {"verify"} /\ p' = p
      /\ "ollama-daemon" \in DOMAIN checklist => checklist'["ollama-daemon"] = checklist["ollama-daemon"]
  BY DEF Answered, Plan
<1>4. ASSUME NEW j \in 1 .. Len(p)
      PROVE  p[j] \in DOMAIN checklist' \/ (p[j] = "ollama-model" /\ checklist'["ollama-daemon"] = "needs_install")
  <2>1. CASE j = i
    BY <2>1, <1>2, <1>3
  <2>2. CASE j # i
    <3>1. j \in 1 .. i - 1
      BY <2>2, <1>2
    <3> QED
      BY <3>1, <1>1, <1>3 DEF AnsweredTo, Spared
  <2> QED
    BY <2>1, <2>2
<1> QED
  BY <1>3, <1>4 DEF WalkInv, WalkIsShown

(* Steps that are not about the walk.                                      *)
LEMMA WalkUntouched ==
  ASSUME WalkInv, UNCHANGED <<walk, walkMode, checklist>>
  PROVE  WalkInv'
  BY DEF WalkInv, WalkIsShown, Underway, AnsweredTo, Spared, Plan

(* The steps of a run.                                                     *)
LEMMA WalkRuns ==
  ASSUME WalkInv,
         \/ Provision \/ CheckDisk \/ DetectRuntime \/ FetchStep \/ FetchFails
         \/ OllamaDaemon \/ PullModel \/ Verify
  PROVE  WalkInv'
<1>1. CASE Provision
  <2>1. 1 \in 1 .. Len(Plan(walkMode')) /\ Plan(walkMode')[1] = "disk"
    BY ChecklistOrder
  <2>2. \A j \in 1 .. 1 - 1 : FALSE
    OBVIOUS
  <2> QED
    BY <1>1, <2>1, <2>2 DEF Provision, WalkInv, WalkIsShown, Underway, AnsweredTo
<1>2. CASE CheckDisk
  BY <1>2, WalkSteps, WalkGivesUp DEF CheckDisk, WalkOnly
<1>3. CASE DetectRuntime
  BY <1>3, WalkSteps DEF DetectRuntime, WalkOnly
<1>4. CASE FetchStep
  BY <1>4, WalkSteps DEF FetchStep, Fetched, WalkOnly
<1>5. CASE FetchFails
  <2>1. walk \notin {"off", "verify"} /\ walkMode' = walkMode /\ "provision" \in {walk, "provision"}
    BY <1>5 DEF FetchFails, Fetched, AutoDownloads, WalkOnly
  <2> QED
    BY <1>5, <2>1, WalkSteps, WalkGivesUp DEF FetchFails, Failure
<1>6. CASE OllamaDaemon
  BY <1>6, WalkSteps, WalkSkipsModel DEF OllamaDaemon, WalkOnly
<1>7. CASE PullModel
  BY <1>7, WalkSteps DEF PullModel, WalkOnly
<1>8. CASE Verify
  BY <1>8, WalkEnds DEF Verify, WalkOnly
<1> QED
  BY <1>1, <1>2, <1>3, <1>4, <1>5, <1>6, <1>7, <1>8

(* All the others leave it alone, or are the end of the process.           *)
LEMMA WalkElsewhere ==
  ASSUME WalkInv,
         \/ \E m \in Modes : ChooseMode(m)
         \/ \E r \in Request : \/ \E v \in {"set", "clear", "other"} : Submit(r, v)
                           \/ Proved(r) \/ Rejected(r) \/ WriteEnv(r) \/ WriteEnviron(r) \/ Stamp(r)
         \/ Complete \/ RestartExit \/ Crash \/ Boot \/ UNCHANGED setupVars
  PROVE  WalkInv'
<1>1. CASE RestartExit \/ Crash
  BY <1>1 DEF RestartExit, Crash, Gone, WalkInv, WalkIsShown
<1>2. CASE ~(RestartExit \/ Crash)
  <2>1. UNCHANGED <<walk, walkMode, checklist>>
    BY <1>2 DEF ChooseMode, Submit, Proved, Rejected, WriteEnv, WriteEnviron, Stamp, Complete, Boot,
                KeyOnly, walkVars, setupVars
  <2> QED
    BY <2>1, WalkUntouched
<1> QED
  BY <1>1, <1>2

(* A run that is over left a verdict with every row of its checklist        *)
(* answered, or an error to retry, torn or not (provision_all).             *)
THEOREM ShownCorrect == SetupSpec => []WalkIsShown
<1>1. WalkInv /\ [SetupNext]_setupVars => WalkInv'
  BY WalkRuns, WalkElsewhere DEF SetupNext
<1>2. WalkInv => WalkIsShown
  BY DEF WalkInv
<1> QED
  BY <1>1, <1>2, WalkStart, PTL DEF SetupSpec
=============================================================================
