---------------------------- MODULE MCOccupancy ----------------------------
(* Instances of Occupancy for TLC. *)
EXTENDS Occupancy, TLC

CONSTANT DisturbedBound   \* once disturbed: bound on the contracts created and open sessions

ActiveOrExpired == {"ACTIVE", "EXPIRED"}

\* Undisturbed, every contract and client takes part; after a disturbance, fewer.
Small ==
    /\ Cardinality({k \in Contracts : contract[k] # NoRow}) <= DisturbedBound
    /\ Cardinality({c \in Clients : tx[c] # IdleSession}) <= DisturbedBound

BoundedSpec == Init /\ [][Next /\ (disturbed = {} \/ Small)']_vars

Interchangeable == Permutations(Clients) \cup Permutations(Properties) \cup Permutations(Contracts)
=============================================================================
