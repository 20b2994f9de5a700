--------------------------- MODULE MCCanSdoMailbox ---------------------------
(* Small instance of CanSdoMailbox: each index, both commands on it, legal *)
(* and illegal sub-indices.                                                *)
EXTENDS CanSdoMailbox

MCReqKind ==
  {<<"read", "serial", 1>>, <<"read", "serial", 7>>, <<"write", "serial", 0>>,
   <<"write", "commands", 0>>, <<"write", "commands", 2>>,
   <<"write", "commands", 3>>, <<"read", "commands", 0>>,
   <<"write", "commands", 9>>, <<"read", "other", 0>>}
=============================================================================
