---------------------------- MODULE LaunchAdmission ----------------------------
(***************************************************************************)
(* Who may prepare a launch of one run, and when the service may close     *)
(* (workflow/submission.py).  Preparation runs outside the mutex; a ticket *)
(* is retired when its Future is published or its preparation cleaned up.  *)
(***************************************************************************)
CONSTANT Launcher

VARIABLES
    ticket,  \* [Launcher -> TicketStep]
    closing

admissionVars == <<ticket, closing>>

TicketStep == {"none", "preparing", "accepted", "retired"}

AdmissionTypeOK == ticket \in [Launcher -> TicketStep] /\ closing \in BOOLEAN

AdmissionInit == ticket = [t \in Launcher |-> "none"] /\ closing = FALSE

Preparing == {t \in Launcher : ticket[t] = "preparing"}

\* reserve does not refuse: the service is open and nobody prepares this run.
Open == ~closing /\ Preparing = {}

Reserve(t) ==
    /\ ticket[t] = "none"
    /\ ticket' = [ticket EXCEPT ![t] = IF Open THEN "preparing" ELSE "retired"]
    /\ UNCHANGED closing

\* submit: the Future is published and the ticket accepted in one step.
Accept(t) ==
    /\ ticket[t] = "preparing" /\ ~closing
    /\ ticket' = [ticket EXCEPT ![t] = "accepted"]
    /\ UNCHANGED closing

\* Mutant: cleanup forgets the ticket.
Retire_Missing(t) == ticket[t] = "preparing" /\ UNCHANGED <<ticket, closing>>

\* Leaving the reservation without acceptance.
Retire(t) ==
    /\ ticket[t] = "preparing"
    /\ ticket' = [ticket EXCEPT ![t] = "retired"]
    /\ UNCHANGED closing

Close == closing' = TRUE /\ UNCHANGED ticket

\* close() returns.
Drained == closing /\ Preparing = {}
===============================================================================
