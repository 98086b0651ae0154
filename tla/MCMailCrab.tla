----------------------------- MODULE MCMailCrab -----------------------------
(* Model-checking instances of MailCrab.                                    *)
EXTENDS MailCrab
=============================================================================
