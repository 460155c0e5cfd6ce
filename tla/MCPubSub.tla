------------------------------ MODULE MCPubSub ------------------------------
(***************************************************************************)
(* Publish/subscribe on a small instance: a RESP3 connection, which may    *)
(* publish to its own channels, and a RESP2 one.                           *)
(***************************************************************************)
EXTENDS PubSub

\* The pattern matches one of the two channels.
OnlyA == Patterns \X {"a"}


=============================================================================
