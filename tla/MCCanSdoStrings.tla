--------------------------- MODULE MCCanSdoStrings ---------------------------
(* Small instance of CanSdoStrings: three chunks of text, six characters,  *)
(* longer than the ring.                                                   *)
EXTENDS CanSdoStrings

MCChunkLen == <<1, 3, 2>>
=============================================================================
