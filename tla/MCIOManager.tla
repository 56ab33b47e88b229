---------------------------- MODULE MCIOManager ----------------------------
(* A table of two slots, two callers and one or two event loops.           *)
EXTENDS IOManager
=============================================================================
