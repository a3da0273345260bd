------------------------------ MODULE MCCore5G ------------------------------
(* Core5G for TLC: identifiers with few digits. *)
EXTENDS Core5G, TLC
\* Threads of the UPF are interchangeable.
ThreadSymmetry == Permutations(UpfThread)
=============================================================================
