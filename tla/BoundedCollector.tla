-------------------------- MODULE BoundedCollector --------------------------
(***************************************************************************)
(* The collector of a job's stdout or stderr (class BoundedCollector in    *)
(* deploy/workspace/shell-exec-mcp-patch/managed-jobs.mjs).  It keeps the  *)
(* beginning of what the process wrote and goes on reading, so that a      *)
(* noisy process neither blocks on a full pipe nor fills the server.       *)
(***************************************************************************)
EXTENDS Naturals, Sequences

CONSTANTS
    Bytes,      \* what a process may write
    Limit,      \* limitBytes
    Buffers,    \* the buffers a 'data' event may deliver
    MaxTotal    \* bound on the output of the process

\* positiveInt rejects every other limit; a 'data' event has data.
ASSUME CollectorAssumption ==
    /\ Limit \in Nat \ {0}
    /\ Buffers \subseteq Seq(Bytes) \ {<<>>}
    /\ MaxTotal \in Nat

VARIABLES
    stream,         \* all that was ever read, kept for the properties only
    text,           \* the chunks, joined
    retainedBytes,
    totalBytes,
    truncated

vars == <<stream, text, retainedBytes, totalBytes, truncated>>

TypeOK ==
    /\ stream \in Seq(Bytes)
    /\ text \in Seq(Bytes)
    /\ retainedBytes = Len(text)
    /\ totalBytes = Len(stream)
    /\ truncated \in BOOLEAN

Init ==
    /\ stream = <<>>
    /\ text = <<>>
    /\ retainedBytes = 0
    /\ totalBytes = 0
    /\ truncated = FALSE

MutantTail(buffer) ==
    LET remaining == Limit - retainedBytes
    IN IF Len(buffer) <= remaining
       THEN buffer
       ELSE SubSeq(buffer, Len(buffer) - remaining + 1, Len(buffer))

\* The part of a buffer there is room for.
Kept(buffer) ==
    LET remaining == Limit - retainedBytes
    IN IF Len(buffer) <= remaining THEN buffer ELSE SubSeq(buffer, 1, remaining)

MutantFull(buffer) ==
    /\ retainedBytes >= Limit
    /\ UNCHANGED <<text, retainedBytes, truncated>>

Full(buffer) ==
    /\ retainedBytes >= Limit
    /\ truncated' = TRUE
    /\ UNCHANGED <<text, retainedBytes>>

Room(buffer) ==
    /\ retainedBytes < Limit
    /\ text' = text \o Kept(buffer)
    /\ retainedBytes' = retainedBytes + Len(Kept(buffer))
    /\ truncated' = (truncated \/ Len(Kept(buffer)) < Len(buffer))

Collect(buffer) ==
    /\ totalBytes + Len(buffer) <= MaxTotal
    /\ stream' = stream \o buffer
    /\ totalBytes' = totalBytes + Len(buffer)
    /\ Full(buffer) \/ Room(buffer)

Next == \E buffer \in Buffers : Collect(buffer)

Spec == Init /\ [][Next]_vars

-----------------------------------------------------------------------------

Minimum(m, n) == IF m < n THEN m ELSE n

\* What a snapshot shows is the beginning of the output without a gap, and all
\* of it as long as the limit allows, however the output was cut into buffers.
KeepsBeginning ==
    text = SubSeq(stream, 1, Minimum(Len(stream), Limit))

\* stdoutTruncated tells the truth: it is set exactly when output was lost.
TruncationReported == truncated <=> Len(text) < Len(stream)

=============================================================================
