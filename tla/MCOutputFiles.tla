---------------------------- MODULE MCOutputFiles ----------------------------
(* Instance of OutputFiles: two commands.                                    *)
EXTENDS OutputFiles, TLC

MCKinds == {"mysql", "postgres", "jsonl"}

\* The commands have one code and no identity.
Symmetry == Permutations(Writers)
=============================================================================
