------------------------------ MODULE MCWsSend ------------------------------
(* Small instances of WsSend for TLC.                                      *)
EXTENDS WsSend, TLC

\* The senders run the same code.
Interchangeable == Permutations(Senders)

=============================================================================
