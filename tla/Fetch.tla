-------------------------------- MODULE Fetch --------------------------------
(* How first-run provisioning gets one asset (src/core/provision.py).  A     *)
(* file is streamed into `<dest>.part`, resumed with a Range request and     *)
(* renamed over `dest` when the stream ends; a loader that reports nothing   *)
(* runs in a thread and is watched through the bytes it leaves on disk.      *)
(* Content is a sequence of block numbers: the whole file is <<1, .., Size>>.*)
EXTENDS Integers, Sequences

CONSTANTS
  Size,           \* blocks of the remote file
  Retries,        \* attempts of one download_file call (3)
  Total,          \* bytes the watched loader is to leave on disk
  StallBeats,     \* _STALL_CEILING_S, in heartbeats
  StepBeats,      \* _STEP_TIMEOUT_S, in heartbeats
  MaxLoaders      \* bound: loader threads started

ASSUME FetchAssumption ==
  /\ {Size, Retries, Total, StallBeats, StepBeats, MaxLoaders} \subseteq Nat \ {0}
  /\ StallBeats < StepBeats

VARIABLES
  part, dest,     \* the two files (<<>>: absent or empty)
  dl, attempt,    \* the download_file call: where it is, which attempt
  at,             \* blocks of the file before the next one the response holds
  step,           \* the watched step: "off", "on", "done", "failed", "given_up"
  loaders,        \* loader threads still running, abandoned ones included
  bytes, last,    \* bytes on disk; the highest count a beat has seen
  age, still,     \* beats since the step began; beats since `last` grew
  quiet           \* beats since a byte really arrived (not in the code)
fileVars == <<part, dest, dl, attempt, at>>
loadVars == <<step, loaders, bytes, last, age, still, quiet>>
fetchVars == <<fileVars, loadVars>>

Whole == [i \in 1 .. Size |-> i]

FetchInit ==
  /\ part = <<>> /\ dest = <<>> /\ dl = "idle" /\ attempt = 0 /\ at = 0
  /\ step = "off" /\ loaders = 0 /\ bytes = 0 /\ last = 0
  /\ age = 0 /\ still = 0 /\ quiet = 0
-----------------------------------------------------------------------------
(* _fetch_if_absent, then the first attempt.                               *)
FetchIfAbsent ==
  /\ dl \in {"idle", "raised"} /\ dest = <<>>
  /\ dl' = "ask" /\ attempt' = 1
  /\ UNCHANGED <<part, dest, at, loadVars>>

(* 206: the server honours the Range and the stream is appended.           *)
Resumed ==
  /\ dl = "ask" /\ Len(part) \in 1 .. Size - 1
  /\ dl' = "stream" /\ at' = Len(part)
  /\ UNCHANGED <<part, dest, attempt, loadVars>>

(* Mutant: the file is opened for appending whatever the answer.            *)
RestartedAppending ==
  /\ dl = "ask" /\ dl' = "stream" /\ at' = 0
  /\ UNCHANGED <<part, dest, attempt, loadVars>>

(* 200: no Range was sent, or it was ignored; the file is opened "wb".     *)
Restarted ==
  /\ dl = "ask"
  /\ part' = <<>> /\ dl' = "stream" /\ at' = 0
  /\ UNCHANGED <<dest, attempt, loadVars>>

(* 416 to a Range request: the .part already covers the resource.          *)
NothingLeft ==
  /\ dl = "ask" /\ Len(part) >= Size
  /\ dl' = "promote" /\ UNCHANGED <<part, dest, attempt, at, loadVars>>

(* _stream_to: the response's next block goes to the end of the .part.     *)
Chunk ==
  /\ dl = "stream" /\ at < Size
  /\ part' = Append(part, at + 1) /\ at' = at + 1
  /\ UNCHANGED <<dest, dl, attempt, loadVars>>

StreamEnds ==
  /\ dl = "stream" /\ at = Size
  /\ dl' = "promote" /\ UNCHANGED <<part, dest, attempt, at, loadVars>>

(* part.replace(dest)                                                      *)
Promote ==
  /\ dl = "promote"
  /\ dest' = part /\ part' = <<>> /\ dl' = "idle"
  /\ UNCHANGED <<attempt, at, loadVars>>

(* Another status, a lost connection, a full disk, a file that cannot be   *)
(* renamed: back off and ask again, or give up and raise.                  *)
AttemptFails ==
  /\ dl \in {"ask", "stream", "promote"}
  /\ IF attempt >= Retries THEN dl' = "raised" /\ UNCHANGED attempt
                           ELSE dl' = "ask" /\ attempt' = attempt + 1
  /\ UNCHANGED <<part, dest, at, loadVars>>

(* The process dies: what was buffered for .part is lost, and so are the   *)
(* loader threads.                                                         *)
Dies ==
  /\ dl' = "idle" /\ attempt' = 0
  /\ \E n \in 0 .. Len(part) : part' = SubSeq(part, 1, n)
  /\ step' = "off" /\ loaders' = 0 /\ last' = 0 /\ age' = 0 /\ still' = 0 /\ quiet' = 0
  /\ UNCHANGED <<dest, at, bytes>>
-----------------------------------------------------------------------------
(* _run_watched_step: the loader goes to a thread; the beats start.        *)
Watch ==
  /\ step \in {"off", "failed", "given_up"} /\ loaders < MaxLoaders
  /\ step' = "on" /\ loaders' = loaders + 1
  /\ last' = bytes /\ age' = 0 /\ still' = 0 /\ quiet' = 0
  /\ UNCHANGED <<fileVars, bytes>>

(* A thread, watched or abandoned, leaves a byte more in the cache.        *)
Arrives ==
  /\ loaders > 0 /\ bytes < Total
  /\ bytes' = bytes + 1 /\ quiet' = 0
  /\ UNCHANGED <<fileVars, step, loaders, last, age, still>>

(* Everything is there and the loader has built its model; an abandoned    *)
(* loader's end is not looked at.                                          *)
LoaderEnds ==
  /\ loaders > 0 /\ bytes = Total
  /\ loaders' = loaders - 1
  /\ step' \in IF step = "on" THEN {"done"} \cup (IF loaders > 1 THEN {"on"} ELSE {})
                             ELSE {step}
  /\ UNCHANGED <<fileVars, bytes, last, age, still, quiet>>

LoaderRaises ==
  /\ loaders > 0 /\ loaders' = loaders - 1
  /\ step' \in IF step = "on" THEN {"failed"} \cup (IF loaders > 1 THEN {"on"} ELSE {})
                             ELSE {step}
  /\ UNCHANGED <<fileVars, bytes, last, age, still, quiet>>

(* Under 95 % of the expected bytes are on disk.                           *)
Downloading(seen) == 100 * seen < 95 * Total

(* Mutant: the silence is counted from the start of the step.              *)
BeatFromTheStart ==
  /\ step = "on"
  /\ last' = IF bytes > last THEN bytes ELSE last
  /\ still' = still + 1 /\ age' = age + 1 /\ quiet' = quiet + 1
  /\ step' = IF age' > StepBeats \/ (Downloading(bytes) /\ still' > StallBeats)
             THEN "given_up" ELSE "on"
  /\ UNCHANGED <<fileVars, loaders, bytes>>

(* One heartbeat of the watcher.                                           *)
Beat ==
  /\ step = "on"
  /\ last' = IF bytes > last THEN bytes ELSE last
  /\ still' = IF bytes > last THEN 0 ELSE still + 1
  /\ age' = age + 1 /\ quiet' = quiet + 1
  /\ step' = IF age' > StepBeats \/ (Downloading(bytes) /\ still' > StallBeats)
             THEN "given_up" ELSE "on"
  /\ UNCHANGED <<fileVars, loaders, bytes>>

FetchNext ==
  \/ FetchIfAbsent \/ Resumed \/ Restarted \/ NothingLeft \/ Chunk \/ StreamEnds
  \/ Promote \/ AttemptFails \/ Dies
  \/ Watch \/ Arrives \/ LoaderEnds \/ LoaderRaises \/ Beat
FetchSpec == FetchInit /\ [][FetchNext]_fetchVars
-----------------------------------------------------------------------------
FetchTypeOK ==
  /\ part \in Seq(1 .. Size) /\ dest \in Seq(1 .. Size)
  /\ attempt \in 0 .. Retries /\ at \in 0 .. Size
  /\ dl \in {"idle", "ask", "stream", "promote", "raised"}
  /\ step \in {"off", "on", "done", "failed", "given_up"}
  /\ loaders \in 0 .. MaxLoaders /\ bytes \in 0 .. Total /\ last \in 0 .. Total
  /\ {age, still, quiet} \subseteq 0 .. StepBeats + 1

(* Whatever the servers answered, however often the transfer broke and     *)
(* wherever the process died, a file that has its final name is the whole  *)
(* file, every block once and in place (provision.py:214-237).             *)
FetchedIsWhole == dest # <<>> => dest = Whole

(* A step is given up only after the hour, or when nothing has really      *)
(* arrived for the stall ceiling with bytes still to come; and it does not *)
(* go on past the hour (provision.py:579-601).                             *)
GivesUpOnTheDead == [][
  step = "on" =>
    /\ step' = "given_up" => \/ age' > StepBeats
                             \/ quiet' > StallBeats /\ 100 * bytes < 95 * Total
    /\ step' = "on" => age' <= StepBeats]_loadVars
=============================================================================
