---------------------------- MODULE MCSimulation ----------------------------
(***************************************************************************)
(* The simulation's replicas and the containers it keeps its commands and  *)
(* units in, for TLC.  Each behaviour is one of a single part; the others  *)
(* stay as they are at first.                                              *)
(***************************************************************************)
EXTENDS MCReplica, Queue, Array

CONSTANTS A, B, C, D

VARIABLE part

SimulationInit ==
  /\ part \in {"replicas", "queue", "array"}
  /\ Init /\ QueueInit /\ ArrayInit

SimulationNext ==
  /\ UNCHANGED part
  /\ \/ part = "replicas" /\ Next /\ UNCHANGED <<ring, array>>
     \/ part = "queue" /\ QueueNext /\ UNCHANGED <<vars, array>>
     \/ part = "array" /\ ArrayNext /\ UNCHANGED <<vars, ring>>

SimulationSpec ==
  SimulationInit /\ [][SimulationNext]_<<part, vars, ring, array>>
=============================================================================
