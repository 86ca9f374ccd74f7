------------------------- MODULE MCOrchestrationCore --------------------------
(* OrchestrationCore for TLC: every set of names may be permuted. *)
EXTENDS OrchestrationCore, TLC

Interchangeable ==
    Permutations(Sub) \cup Permutations(Worker) \cup Permutations(Text)
        \cup Permutations(Canceller)
===============================================================================
