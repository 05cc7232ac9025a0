--------------------------- MODULE MCWriteJournal ---------------------------
(* The module of the journal's runs; the cfg files give the constants. *)
EXTENDS WriteJournal
=============================================================================
