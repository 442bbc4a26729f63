-------------------------- MODULE MCSessionActions --------------------------
(* Two settings, of which a behaviour has one: a single command of a       *)
(* remote agent with everything that may go wrong, and two commands for    *)
(* the dashboard's own agent, whose acknowledgements are applied before    *)
(* the delivery.                                                           *)
EXTENDS SessionActionsProofs, TLC

VARIABLE setting

Pair == INSTANCE SessionActions WITH
    LocalHosts <- Hosts, LedgerRetention <- 0, Skew <- 0,
    MaxTime <- 2, MaxLogon <- 0, MaxStray <- 0

FirstKey == CHOOSE k \in Keys : TRUE
Single == Cardinality(issued') <= 1 /\ \A a \in issued' : cmd'[a].key = FirstKey

MCInit == setting \in {"single", "pair"} /\ Init

MCNext ==
    /\ \/ setting = "single" /\ Next /\ Single
       \/ setting = "pair" /\ Pair!Next
    /\ UNCHANGED setting

MCSpec == MCInit /\ [][MCNext]_<<vars, setting>>

(* Under fairness, a command of a remote agent, and one of the dashboard's *)
(* own agent, whose failures are the same but for late handlers.           *)
Own == INSTANCE SessionActions WITH LocalHosts <- Hosts

LiveInit == setting \in {"remote", "own"} /\ Init

LiveNext ==
    /\ \/ setting = "remote" /\ Next
       \/ setting = "own" /\ Own!Next
    /\ UNCHANGED setting

LiveSpec ==
    /\ LiveInit /\ [][LiveNext]_<<vars, setting>>
    /\ \/ setting = "remote" /\ Fairness
       \/ setting = "own" /\ Own!Fairness

\* Action ids are interchangeable.
Symmetric == Permutations(Actions)
=============================================================================
