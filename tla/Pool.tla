--------------------------------- MODULE Pool ---------------------------------
(***************************************************************************)
(* What DECLARE_ARRAY promises ("Use<type>() - Function to request use of  *)
(* a instance of type", "Release<type>() - Function to return an instance  *)
(* of type"): a set of at most MaxCount instances in use.                  *)
(***************************************************************************)
EXTENDS Naturals, FiniteSets

CONSTANTS
  Instance,  \* what an element may hold; everybody is unique
  MaxCount

VARIABLES
  live,      \* the instances in use
  granted    \* whether the last Use returned one

PoolInit == live = {} /\ granted = FALSE

\* The caller fills what it gets.
Request(v) ==
  /\ v \in Instance \ live
  /\ IF Cardinality(live) < MaxCount
       THEN live' = live \cup {v} /\ granted' = TRUE
       ELSE granted' = FALSE /\ UNCHANGED live

\* One instance is returned and no other is lost, or, when the id is not one in
\* use, none is.
Return(v) == live' = live \ {v} /\ UNCHANGED granted

PoolNext == \E v \in Instance : Request(v) \/ Return(v)

PoolSpec == PoolInit /\ [][PoolNext]_<<live, granted>>
===============================================================================
