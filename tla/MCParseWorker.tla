--------------------------- MODULE MCParseWorker ---------------------------
(* Two files, one of them without symbols of its own, two threads that have  *)
(* not exited, a recycling after two parses.                                *)
EXTENDS ParseWorker
=============================================================================
