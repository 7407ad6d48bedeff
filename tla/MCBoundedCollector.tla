------------------------- MODULE MCBoundedCollector -------------------------
(* A small instance of BoundedCollector for TLC. *)
EXTENDS BoundedCollector

\* Every non-empty buffer of at most three bytes.
SmallBuffers == UNION {[1..n -> Bytes] : n \in 1..3}

=============================================================================
