----------------------------- MODULE MCOverview -----------------------------
(* Model-checking instances of Overview.                                    *)
EXTENDS Overview, TLC

\* Neither the mails nor the tabs are told apart.
Symmetry == Permutations(Message) \cup Permutations(Conn)
=============================================================================
