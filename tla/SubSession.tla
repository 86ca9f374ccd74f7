------------------------------ MODULE SubSession ------------------------------
(***************************************************************************)
(* What the orchestration core promises of each sub-session it spawns, to  *)
(* the engine that accounts for it: it runs or it is settled, its hook is  *)
(* called once when a series of turns is over, and "cancelled" is said only *)
(* of what never ran a turn (its lifetime slot is refunded).                *)
(***************************************************************************)
CONSTANT Sub

VARIABLES
    status,  \* [Sub -> Status]
    hook,    \* [Sub -> BOOLEAN]: a completion hook waits to be called
    ran      \* [Sub -> BOOLEAN]: some turn of it was started

vars == <<status, hook, ran>>

Terminal == {"complete", "error", "interrupted", "cancelled"}

Init ==
    /\ status = [c \in Sub |-> "absent"]
    /\ hook = [c \in Sub |-> FALSE]
    /\ ran = [c \in Sub |-> FALSE]

\* The spawn was accepted, with a hook or without; or it was refused for good.
Open(c) ==
    /\ status[c] = "absent"
    /\ \/ status' = [status EXCEPT ![c] = "running"] /\ hook' \in {hook, [hook EXCEPT ![c] = TRUE]}
       \/ status' = [status EXCEPT ![c] = "refused"] /\ UNCHANGED hook
    /\ UNCHANGED ran

Arm(c) ==
    /\ status[c] = "running" /\ ~hook[c]
    /\ hook' = [hook EXCEPT ![c] = TRUE]
    /\ UNCHANGED <<status, ran>>

Work(c) ==
    /\ status[c] = "running" /\ ~ran[c]
    /\ ran' = [ran EXCEPT ![c] = TRUE]
    /\ UNCHANGED <<status, hook>>

\* Only what never ran is cancelled; every other end says that it ran.
Finish(c) ==
    /\ status[c] = "running"
    /\ \E end \in Terminal :
          /\ (end = "cancelled") <=> ~ran[c]
          /\ status' = [status EXCEPT ![c] = end]
    /\ UNCHANGED <<hook, ran>>

Notify(c) ==
    /\ status[c] \in Terminal /\ hook[c]
    /\ hook' = [hook EXCEPT ![c] = FALSE]
    /\ UNCHANGED <<status, ran>>

\* A new series starts over a settled one whose hook was called.
Reopen(c) ==
    /\ status[c] \in Terminal \ {"cancelled"} /\ ~hook[c]
    /\ status' = [status EXCEPT ![c] = "running"]
    /\ UNCHANGED <<hook, ran>>

Next == \E c \in Sub :
    Open(c) \/ Arm(c) \/ Work(c) \/ Finish(c) \/ Notify(c) \/ Reopen(c)

Spec == Init /\ [][Next]_vars
===============================================================================
