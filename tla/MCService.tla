------------------------------- MODULE MCService ---------------------------------
(* Service with two submissions of one batch and one key, as a client that    *)
(* tries again sends them.                                                    *)
EXTENDS Service

OneBatch == [r \in Submits |-> "b"]
OneKey == [r \in Submits |-> "k"]
=============================================================================
