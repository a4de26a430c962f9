--------------------------- MODULE MCProviderAdapters ---------------------------
(* Every answer of up to five lines, to each of the three adapters. *)
EXTENDS ProviderAdapters
=============================================================================
