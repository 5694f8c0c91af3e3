--------------------------- MODULE MCTextGenerator ---------------------------
(* TextGenerator for TLC.                                                  *)
EXTENDS TextGenerator
=============================================================================
