--------------------------- MODULE MCCanSdoMapping ---------------------------
(* Ids for checking CanSdoMapping: the id after the start, another, and    *)
(* ids that are refused early and late.                                    *)
EXTENDS CanSdoMapping

MCCobIds == { <<"x", FALSE>>, <<"x", TRUE>>, <<"y", FALSE>>, Extended, TooLarge }
MCStdIds == {"x", "y", "zero"}
MCBootId == <<"zero", FALSE>>
=============================================================================
