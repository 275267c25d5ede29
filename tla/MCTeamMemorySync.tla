-------------------------- MODULE MCTeamMemorySync ---------------------------
(* Instances of TeamMemorySync small enough for TLC.                       *)
EXTENDS TeamMemorySync, TLC

CONSTANTS c1, c2, k1, k2

MCClients == {c1, c2}
MCKeyOrder == <<k1, k2>>

(* A server with one entry, and one nobody has pushed to.                  *)
Seeded == {(k1 :> 1) @@ (k2 :> 0)}
BlankOrSeeded == {(k1 :> 0) @@ (k2 :> 0)} \cup Seeded

AnyFault == {"pull", "put", "reply", "probe"}
NoFault == {}

ClientSymmetry == Permutations(MCClients)
=============================================================================
