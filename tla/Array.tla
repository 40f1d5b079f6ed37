-------------------------------- MODULE Array --------------------------------
(***************************************************************************)
(* DECLARE_ARRAY of src/src/common/array.cc, which holds the units,        *)
(* asteroids and pods: a static array of which the first kUsed elements    *)
(* are in use.                                                             *)
(***************************************************************************)
EXTENDS Integers, FiniteSets

CONSTANTS
  Instance,  \* what an element may hold
  Nothing,   \* a zero element
  MaxCount,  \* max_count
  Id         \* what Release may be called with

ASSUME ArrayAssumption ==
  MaxCount \in Nat \ {0} /\ Id \subseteq Nat /\ Nothing \notin Instance

VARIABLES
  element,   \* k<type>
  kUsed,     \* kUsed<type>
  granted    \* whether the last Use returned an element, not NULL

array == <<element, kUsed, granted>>

Index == 0 .. MaxCount - 1

InUse == {element[i] : i \in 0 .. kUsed - 1}

ArrayInit ==
  /\ element = [i \in Index |-> Nothing]
  /\ kUsed = 0
  /\ granted = FALSE

\* The caller writes v into the element it gets, of which it has no other
\* ("Everybody is unique!", simulation.cc:32).
Use(v) ==
  /\ v \in Instance \ InUse
  /\ IF kUsed >= MaxCount
       THEN granted' = FALSE /\ UNCHANGED <<element, kUsed>>
       ELSE /\ element' = [element EXCEPT ![kUsed] = v]
            /\ kUsed' = kUsed + 1
            /\ granted' = TRUE

\* (Bug: the elements behind the released one are forgotten with it.)
Truncate(id) ==
  /\ kUsed' = IF id < kUsed THEN id ELSE kUsed
  /\ UNCHANGED <<element, granted>>

\* The last element in use takes the place of the released one.
Release(id) ==
  /\ IF id >= kUsed
       THEN UNCHANGED <<element, kUsed>>
       ELSE /\ kUsed' = kUsed - 1
            /\ element' = IF id = kUsed' THEN element
                          ELSE [element EXCEPT ![id] = element[kUsed']]
  /\ UNCHANGED granted

ArrayNext == (\E v \in Instance : Use(v)) \/ (\E id \in Id : Release(id))

ArraySpec == ArrayInit /\ [][ArrayNext]_array

-----------------------------------------------------------------------------
Allocator == INSTANCE Pool WITH live <- InUse

\* However elements are moved into the places of released ones, the elements in
\* use are a set of instances: Release takes one of them and no other is lost, Use
\* adds one unless all elements are taken, and no sequence of calls makes one
\* instance of two or two of one.
ImplementsPool == Allocator!PoolSpec
==============================================================================
