------------------------------ MODULE MCIndexer ------------------------------
(* Indexer with one file that a plugin recognises and one that none does,  *)
(* in one directory.                                                       *)
EXTENDS Indexer

CONSTANTS song, text

MCTargets == {{song, text}}
=============================================================================
