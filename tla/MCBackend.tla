------------------------------ MODULE MCBackend ------------------------------
(* What the agents run on, for TLC: the pool of workers behind the         *)
(* background tasks and what stands between a turn and the brains -- the   *)
(* limiter, the router on its health machine, the game mode.  They share   *)
(* no state: a behaviour is about one of them.                             *)
EXTENDS WorkerPool, TokenBucket, CloudRouter, GameMode

(* The turns that differ for the ladder.                                   *)
Plain      == [pinned |-> FALSE, devanagari |-> FALSE, capped |-> FALSE, heavy |-> "no"]
Pinned     == [Plain EXCEPT !.pinned = TRUE]
Devanagari == [Plain EXCEPT !.devanagari = TRUE]
Heavy      == [Plain EXCEPT !.heavy = "words"]
Planning   == [Plain EXCEPT !.capped = TRUE, !.heavy = "hint"]

MCTurns == {Plain, Pinned, Devanagari, Heavy, Planning}

VARIABLE about
backendVars == <<vars, bucketVars, rvars, gameVars, about>>

BackendInit ==
  /\ about \in {"pool", "bucket", "router", "game"}
  /\ Init /\ BucketInit /\ RouterInit /\ GameInit
  /\ about # "router" => turn = [c \in Call |-> Plain]
  /\ about # "game" => mode = "off" /\ front = "desk" /\ weights = "out"
Pooling  == about = "pool" /\ Next /\ UNCHANGED <<bucketVars, rvars, gameVars, about>>
Limiting == about = "bucket" /\ BucketNext /\ UNCHANGED <<vars, rvars, gameVars, about>>
Routing  == about = "router" /\ RouterNext /\ UNCHANGED <<vars, bucketVars, gameVars, about>>
Gaming   == about = "game" /\ GameNext /\ UNCHANGED <<vars, bucketVars, rvars, about>>
BackendNext == Pooling \/ Limiting \/ Routing \/ Gaming

(* The fairness of FairSpec, MonitorFairSpec and RouterFairSpec, each in   *)
(* the behaviours that are about its part: elsewhere nothing can be owed.  *)
BackendFairness ==
  /\ WF_vars(about = "pool" /\ (Husk \/ ServeClaimEmpty \/ \E t \in Task : ServeClaim(t)))
  /\ \A t \in Task : WF_vars(about = "pool" /\ Child(t))
  /\ \A w \in Worker : WF_vars(about = "pool" /\ Loop(w))
  /\ \A k \in Canceller : WF_vars(about = "pool" /\ (ServeGet(k) \/ ServeOverwrite(k)))
  /\ WF_monitor(about = "router" /\ Probe)
  /\ WF_monitor(about = "router" /\ CooldownOver)
  /\ \A c \in Call : WF_rvars(about = "router" /\ Timer(c))

BackendSpec == BackendInit /\ [][BackendNext]_backendVars /\ BackendFairness
=============================================================================
