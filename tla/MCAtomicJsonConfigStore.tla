------------------------- MODULE MCAtomicJsonConfigStore -------------------------
(* Small instances of AtomicJsonConfigStore for TLC.                       *)
EXTENDS AtomicJsonConfigStore, TLC

CONSTANTS w1, w2, good, other, bad

ProcessFaults == {"io", "unlink", "crash"}
PowerFaults   == {"io", "crash", "power"}

(* Writers are interchangeable.                                            *)
WriterSymmetry == Permutations(Writers)
=================================================================================
