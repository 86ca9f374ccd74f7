------------------------------ MODULE MCThreads ------------------------------
(***************************************************************************)
(* The threads of one process, for TLC: what has to end, ends.  The initial*)
(* state chooses which part is examined; the parts share no state, so one  *)
(* behaviour is a behaviour of one part, and s1 .. s21 hold the variables  *)
(* of whichever that is.  Fairness is each part's own, stated on its steps.*)
(***************************************************************************)
EXTENDS Naturals

CONSTANTS
    User, MaxFence, MaxPlans,                              \* ServiceProcess
    Sub, Worker, Text, Canceller, MaxChildren, MaxGhosts,  \* OrchestrationCore
    Lifetime, MaxFanout, TokenBudget, NoCeiling, EstTokens, Ends,
    Items, Stages, Retries,                                \* PipelineRun
    Request, Workers, Depth, Nobody, Pieces                        \* StreamServer

VARIABLES part, s1, s2, s3, s4, s5, s6, s7, s8, s9, s10, s11, s12, s13, s14, s15, s16, s17,
          s18, s19, s20, s21

Process == INSTANCE ServiceProcessProofs WITH
    ticket <- s1, closing <- s2, current <- s3, plans <- s4, closed <- s5, active <- s6,
    timer <- s7, tick <- s8, launch <- s9, run <- s10, handoff <- s11, fence <- s12,
    lease <- s13, line <- s14, known <- s15, renewing <- s16, registry <- s17, fenced <- s18,
    halted <- s19, scan <- s20, exit <- s21

Core == INSTANCE OrchestrationCore WITH
    sub <- s1, children <- s2, work <- s3, inbox <- s4, sent <- s5, told <- s6, worker <- s7,
    closer <- s8, exit <- s9

Pipeline == INSTANCE PipelineRun WITH
    budget <- s1, leaf <- s2, book <- s3, stop <- s4, faults <- s5, job <- s6, pipe <- s7

Server == INSTANCE StreamServerProofs WITH
    Answer <- Pieces,
    bridge <- s1, prod <- s2, http <- s3, workers <- s4, host <- s5

ASSUME ThreadsAssumption ==
    /\ Process!ProcessAssumption /\ Server!StreamAssumption
    /\ Pipeline!BudgetAssumption /\ Pipeline!PipelineAssumption

after5 == <<s6, s7, s8, s9, s10, s11, s12, s13, s14, s15, s16, s17, s18, s19, s20, s21>>
after7 == <<s8, s9, s10, s11, s12, s13, s14, s15, s16, s17, s18, s19, s20, s21>>
after9 == <<s10, s11, s12, s13, s14, s15, s16, s17, s18, s19, s20, s21>>
vars == <<part, s1, s2, s3, s4, s5, after5>>

Unused9 ==
    /\ s10 = 0 /\ s11 = 0 /\ s12 = 0 /\ s13 = 0 /\ s14 = 0 /\ s15 = 0 /\ s16 = 0
    /\ s17 = 0 /\ s18 = 0 /\ s19 = 0 /\ s20 = 0 /\ s21 = 0
Unused7 == s8 = 0 /\ s9 = 0 /\ Unused9
Unused5 == s6 = 0 /\ s7 = 0 /\ Unused7

Init ==
    \/ part = "process" /\ Process!Init
    \/ part = "core" /\ Core!Init /\ Unused9
    \/ part = "pipeline" /\ Pipeline!Init /\ Unused7
    \/ part = "server" /\ Server!StreamInit /\ Unused5

Next ==
    \/ part = "process" /\ Process!Next /\ UNCHANGED part
    \/ part = "core" /\ Core!Next /\ UNCHANGED <<part, after9>>
    \/ part = "pipeline" /\ Pipeline!Next /\ UNCHANGED <<part, after7>>
    \/ part = "server" /\ Server!StreamNext /\ UNCHANGED <<part, after5>>

Fairness ==
    /\ \A t \in Process!Launcher :
         WF_vars(part = "process" /\ Process!Called(t) /\ Process!LaunchThread(t) /\ UNCHANGED part)
    /\ \A f \in Process!Fence :
         /\ WF_vars(part = "process" /\ Process!EpilogueThread(f) /\ UNCHANGED part)
         /\ WF_vars(part = "process" /\ Process!TickThread(f) /\ UNCHANGED part)
         /\ WF_vars(part = "process" /\ Process!StoppedRun(f) /\ UNCHANGED part)
    /\ \A i \in 1..MaxPlans : WF_vars(part = "process" /\ Process!PlanStep(i) /\ UNCHANGED part)
    /\ WF_vars(part = "process" /\ Process!ScanPauses /\ UNCHANGED part)
    /\ WF_vars(part = "process" /\ Process!ScanArms /\ UNCHANGED part)
    /\ WF_vars(part = "process" /\ Process!ExitGoesOn /\ UNCHANGED part)
    /\ \A w \in Worker : WF_vars(part = "core" /\ Core!Work(w) /\ UNCHANGED <<part, after9>>)
    /\ \A k \in Canceller :
         WF_vars(part = "core" /\ Core!Cancelling(k) /\ UNCHANGED <<part, after9>>)
    /\ WF_vars(part = "core" /\ Core!Exiting /\ UNCHANGED <<part, after9>>)
    /\ WF_vars(part = "pipeline" /\ Pipeline!Progress /\ UNCHANGED <<part, after7>>)
    /\ \A r \in Request :
         /\ WF_vars(part = "server" /\ Server!Notify(r) /\ UNCHANGED <<part, after5>>)
         /\ WF_vars(part = "server" /\ Server!Producer(r) /\ UNCHANGED <<part, after5>>)
         /\ WF_vars(part = "server" /\ Server!Task(r) /\ UNCHANGED <<part, after5>>)

Spec == Init /\ [][Next]_vars /\ Fairness
-----------------------------------------------------------------------------
(* Every part's state has its type. *)
TypeOK ==
    /\ part \in {"process", "core", "pipeline", "server"}
    /\ part = "process" => Process!TypeOK
    /\ part = "core" => Core!TypeOK
    /\ part = "pipeline" => Pipeline!PipelineTypeOK
    /\ part = "server" => Server!StreamTypeOK

(* Each property is its module's, of the part it is about. *)
LeaseIsBeaten == part = "process" => Process!LeaseIsBeaten
AcceptanceIsKept == part = "process" => Process!AcceptanceIsKept
WholeAnswers == part = "server" => Server!WholeAnswers

ShutdownReturns ==
    (part = "process" /\ Process!Closing) ~> (part # "process" \/ Process!Down)

\* The hook of every settled leaf is called, and the pipeline's barrier opens.
LeavesAreSettled ==
    /\ \A c \in Sub : (part = "core" /\ Core!Owed(c)) ~> (part # "core" \/ ~Core!Owed(c))
    /\ <>(part # "pipeline" \/ Pipeline!Released)

StreamsMoveOn ==
    \A r \in Request :
      /\ (part = "server" /\ Server!Waits(r)) ~> (part # "server" \/ Server!Answered(r))
      /\ (part = "server" /\ Server!Responded(r)) ~> (part # "server" \/ ~Server!Alive(r))
=============================================================================
