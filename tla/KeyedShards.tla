---------------------------- MODULE KeyedShards ----------------------------
(***************************************************************************)
(* What the sharder promises the consumers of a partitioned queue, from     *)
(* sections 4.6 and 9 of spec.md: getShard is a get-or-create on a map of  *)
(* live shard batchers.  The first request of a key creates the shard of   *)
(* that key, starts it and retains it in one indivisible step; every later *)
(* request of the key gets the retained one; a shard runs until Shutdown   *)
(* stops it.  Sharder is the implementation, with a Load and a Store where *)
(* this module has one step.                                               *)
(***************************************************************************)
EXTENDS Functions, TLC

CONSTANTS
    Keys,     \* partition keys
    Shards    \* shard batchers

VARIABLES
    retained,  \* retained[k]: the shard batcher of key k
    running    \* the shard batchers that are started and not stopped

\* The first use of key k: shard s is created, started and retained.
GetOrCreate(k, s) ==
    /\ k \notin DOMAIN retained
    /\ s \notin Range(retained) \cup running
    /\ retained' = (k :> s) @@ retained
    /\ running' = running \cup {s}

\* Shutdown stops a shard it found under a key.
Stop(s) ==
    /\ s \in running \cap Range(retained)
    /\ running' = running \ {s}
    /\ UNCHANGED retained

Init == retained = <<>> /\ running = {}

Next ==
    \/ \E k \in Keys, s \in Shards : GetOrCreate(k, s)
    \/ \E s \in Shards : Stop(s)

Spec == Init /\ [][Next]_<<retained, running>>
=============================================================================
