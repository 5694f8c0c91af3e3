------------------------- MODULE MCSeparateDeployment -------------------------
(* Two peers are linked, one of them again, and that one is unlinked.      *)
EXTENDS SeparateDeployment

MCPdCommands ==
  {[unlink |-> {}, link |-> <<1, 2>>], [unlink |-> {}, link |-> <<1>>],
   [unlink |-> {1}, link |-> <<>>]}
=============================================================================
