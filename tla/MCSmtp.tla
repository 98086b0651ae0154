------------------------------- MODULE MCSmtp -------------------------------
(* Model-checking instances of Smtp.                                        *)
EXTENDS Smtp, TLC

\* Addresses are only compared.
Symmetry == Permutations(Address)
=============================================================================
