-------------------------- MODULE MCTokenValidator --------------------------
(* Instances of TokenValidator for TLC. *)
EXTENDS TokenValidator, FiniteSets, TLC

Symmetry == Permutations(Kids) \cup Permutations(Processes) \cup Permutations(Requests)

\* The bound on the replicas that are up and the requests in flight together: two
\* replicas and a request, or a replica and two requests.
MaxBusy == 3
FewAreBusy ==
  Cardinality({p \in Processes : proc[p].pc # "down"})
    + Cardinality({r \in Requests : req[r].pc # "idle"}) <= MaxBusy
=============================================================================
