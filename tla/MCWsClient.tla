----------------------------- MODULE MCWsClient -----------------------------
(* Small instances of WsClient for TLC.                                    *)
EXTENDS WsClient, TLC

\* Senders are interchangeable, and so are the slots for client tasks.
Interchangeable == Permutations(Senders) \union Permutations(Tasks)

=============================================================================
