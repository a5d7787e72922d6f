----------------------------- MODULE MCRegistry -----------------------------
(***************************************************************************)
(* Registry with two endpoints, which come back: an erasure shifts what    *)
(* stands behind it, and the vector reallocates with iterators out.        *)
(***************************************************************************)
EXTENDS Registry

CONSTANTS a, b

MCConn == {a, b}

-----------------------------------------------------------------------------
(* The loop of remove_dead step by step, against Survivors *)

Erase(l, i, old) == IF ~old /\ i <= Len(l) THEN RemoveAt(l, i) ELSE Front(l)

Loop(n, map, old) ==
  FoldLeft(LAMBDA l, i : Erase(l, i, old), [i \in 1 .. n |-> i],
           SetToSortSeq(map, <))

ASSUME LoopLeavesSurvivors ==
  \A n \in 0 .. 4 : \A map \in SUBSET (1 .. 5) : \A old \in BOOLEAN :
    Cardinality(map) <= n =>
      InOrder([i \in 1 .. n |-> i], Survivors(n, map, old)) = {Loop(n, map, old)}
=============================================================================
