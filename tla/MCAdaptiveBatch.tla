-------------------------- MODULE MCAdaptiveBatch --------------------------
(* Values for the constants of AdaptiveBatch: one context and inputs that  *)
(* have none, with memory for everything, for some, for less in one than   *)
(* in the other, and memory that neighbours take away and give back.       *)
EXTENDS AdaptiveBatch

CONSTANT a

ASSUME EnoughRetries == RetriesSuffice

Everywhere(S) == [c \in Contexts \cup {None} |-> S]
MCRooms == {Everywhere({4}), Everywhere({3}),
            [Everywhere({2}) EXCEPT ![a] = {4}], Everywhere({0, 1, 3})}
=============================================================================
