----------------------------- MODULE MCStorage -----------------------------
(* Model-checking instances of Storage.                                     *)
EXTENDS Storage, TLC

\* The mails are interchangeable until one is sent.
Symmetry == Permutations(Message)
=============================================================================
