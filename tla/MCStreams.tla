------------------------------- MODULE MCStreams -------------------------------
(* A track of two chunks, and one of one chunk after it.                     *)
EXTENDS Streams

TwoThenOne == <<2, 1>>

=============================================================================
