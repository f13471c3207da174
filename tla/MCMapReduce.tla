---------------------------- MODULE MCMapReduce -----------------------------
(* Small instances of MapReduce for TLC. *)
EXTENDS MapReduce, TLC

(* Every map emits a key of every bucket, and neighbours have keys in common. *)
MCEmits == [m \in MapTask |-> m..(m + NReduce - 1)]
MCihash == [k \in 1..(NMap + NReduce - 1) |-> k]

Symmetry == Permutations(Worker)
=============================================================================
