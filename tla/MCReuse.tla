------------------------------ MODULE MCReuse ------------------------------
(***************************************************************************)
(* Small fleets for Reuse: the author of a memory, a peer of its role and  *)
(* a peer of another role.                                                 *)
(***************************************************************************)
EXTENDS Reuse, TLC

CONSTANTS author, peer, outsider, first    \* first: a memory

OneMemoryAuthor == [m \in Memories |-> author]
\* Two memories, the second written by the peer.
EachTheirs == [m \in Memories |-> IF m = first THEN author ELSE peer]
Roles == [a \in Agents |-> IF a = outsider THEN "security" ELSE "coding"]

Threads == Permutations(Handlers)
=============================================================================
