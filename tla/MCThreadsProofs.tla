---------------------------- MODULE MCThreadsProofs ----------------------------
(***************************************************************************)
(* What is proved of a component holds of MCThreads' part about it: the    *)
(* initial state chooses the part, and a step of the union is a step of it.*)
(***************************************************************************)
EXTENDS MCThreads, TLAPS

ProcessPart == part = "process" => Process!ProcessInv

\* The process part never leaves ServiceProcess' inductive invariant.
LEMMA ProcessHolds == Spec => []ProcessPart
<1> USE ThreadsAssumption
<1>1. Init => ProcessPart
  BY Process!ProcessInitially DEF Init, ProcessPart
<1>2. ProcessPart /\ [Next]_vars => ProcessPart'
  <2> SUFFICES ASSUME ProcessPart, [Next]_vars, part' = "process" PROVE Process!ProcessInv'
    BY DEF ProcessPart
  <2>1. part = "process" /\ [Process!Next]_(Process!vars)
    <3>1. CASE Next
      BY <3>1 DEF Next
    <3>2. CASE UNCHANGED vars
      BY <3>2 DEF vars, after5, Process!vars, Process!gate, Process!resumes, Process!beats,
                  Process!tables, Process!memory
    <3> QED BY <3>1, <3>2
  <2> QED BY <2>1, Process!ProcessStep DEF ProcessPart
<1> QED BY <1>1, <1>2, PTL DEF Spec

\* ServiceProcess' LeasesAreBeaten, of the part examined here: a lease is beaten
\* for as long as a thread is inside the run, and not once it was given back.
THEOREM ThreadsBeatTheirLeases == Spec => []LeaseIsBeaten
<1>1. ProcessPart => LeaseIsBeaten
  BY ThreadsAssumption, Process!InvBeats DEF ProcessPart, LeaseIsBeaten
<1> QED BY <1>1, ProcessHolds, PTL

\* Its AcceptancesAreKept: a refused launch never executes, and a plan that stays
\* current has a timer that will fire.
THEOREM ThreadsKeepAcceptances == Spec => []AcceptanceIsKept
<1>1. ProcessPart => AcceptanceIsKept
  BY ThreadsAssumption, Process!InvKeeps DEF ProcessPart, AcceptanceIsKept
<1> QED BY <1>1, ProcessHolds, PTL

ServerPart == part = "server" => Server!StreamInv

\* The server's part never leaves StreamServer's.
LEMMA ServerHolds == Spec => []ServerPart
<1> USE ThreadsAssumption
<1>1. Init => ServerPart
  BY Server!StreamInitially DEF Init, ServerPart
<1>2. ServerPart /\ [Next]_vars => ServerPart'
  <2> SUFFICES ASSUME ServerPart, [Next]_vars, part' = "server" PROVE Server!StreamInv'
    BY DEF ServerPart
  <2>1. part = "server" /\ [Server!StreamNext]_(Server!streamVars)
    <3>1. CASE Next
      BY <3>1 DEF Next
    <3>2. CASE UNCHANGED vars
      BY <3>2 DEF vars, after5, Server!streamVars
    <3> QED BY <3>1, <3>2
  <2> QED BY <2>1, Server!StreamStep DEF ServerPart
<1> QED BY <1>1, <1>2, PTL DEF Spec

\* StreamServer's AnswersAreWhole: a client gets an answer's pieces in order, and
\* is told "stop" only for an answer it has whole, but for what a shutdown drops.
THEOREM ThreadsAnswerWhole == Spec => []WholeAnswers
<1>1. ServerPart => WholeAnswers
  BY ThreadsAssumption, Server!InvWhole DEF ServerPart, WholeAnswers
<1> QED BY <1>1, ServerHolds, PTL
================================================================================
