----------------------------- MODULE MCPersist -----------------------------
(***************************************************************************)
(* Snapshots of two keys: one holds strings or a memory index, the other   *)
(* lists.                                                                  *)
(***************************************************************************)
EXTENDS Persist

CONSTANTS k1, k2

Set(k, type, size, at) == [key |-> k, value |-> [type |-> type, size |-> size], expireAt |-> at]

\* Two deadlines: one that a save can see pass, and one that it truncates by
\* all it can.
EachType ==
  {Set(k1, "string", 1, 2), Set(k1, "memory", 1, Never), Set(k1, "memory", 1, 4),
   Set(k2, "list", 1, 2)}

Strings == {Set(k1, "string", 1, Never), Set(k1, "string", 1, 2)}

=============================================================================
