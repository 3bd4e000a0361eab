----------------------------- MODULE MCIndexer -----------------------------
(* A small instance of Indexer.                                            *)
EXTENDS Indexer
===========================================================================
