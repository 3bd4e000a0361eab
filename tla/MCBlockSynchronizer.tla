------------------------ MODULE MCBlockSynchronizer ------------------------
(* Small instances of BlockSynchronizer.                                   *)
EXTENDS BlockSynchronizer, TLC

\* The workers are interchangeable: no step compares them.
WorkerSymmetry == Permutations(BlockWorker)
===========================================================================
