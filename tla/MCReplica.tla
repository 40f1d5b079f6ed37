----------------------------- MODULE MCReplica -----------------------------
(***************************************************************************)
(* Small instances of Replica for TLC: two clients, a map without walls.   *)
(***************************************************************************)
EXTENDS Replica

CONSTANTS Alice, Bob

Ids == [c \in Client |-> IF c = Alice THEN 0 ELSE 1]

\* Unit 1 has a goal two steps away.
AllBegin == [u \in Unit |-> <<0, 0>>]

Goals == [u \in Unit |-> IF u = 1 THEN <<2, 0>> ELSE kNone]

Sign(n) == IF n > 0 THEN 1 ELSE IF n < 0 THEN -1 ELSE 0

Step(at, dest) == Sum2(at, <<Sign(dest[1] - at[1]), Sign(dest[2] - at[2])>>)

Same(at, dest) == at = dest

Sizes == {<<2, 2>>, <<4, 2>>}

OneSize == {<<2, 2>>}

\* A player does nothing, presses two keys of one axis around a click, or
\* releases them, one by one, or uses a key that means nothing.
Anything == {<<>>, <<KeyDown("d"), Click(<<2, 1>>), KeyDown("a")>>,
             <<KeyUp("d"), Click(<<0, 0>>)>>,
             <<KeyUp("a"), KeyDown("w"), KeyDown("q"), KeyUp("w"), KeyUp("q")>>}
=============================================================================
