---------------------------- MODULE MCFileImport ----------------------------
(* A small instance of FileExport, with the imports of FileImport, for TLC. *)
EXTENDS FileExport, TLC

CallSymmetry == Permutations(Calls)

(***************************************************************************)
(* What no step and no property looks at is left out of the fingerprint:   *)
(* the numbers of a call that is over and whose file is nowhere any more,  *)
(* and what a sender that announced nothing meant to send, once read() has *)
(* returned no bytes.                                                      *)
(***************************************************************************)
Matters(c) ==
    reply[c] = "none" \/ c \in {source} \union {dir[n] : n \in Names} \union {diskDir[n] : n \in Names}

Kept(numbers) == [c \in Calls |-> IF Matters(c) THEN numbers[c] ELSE 0]

LengthsKept ==
    [c \in Calls |-> IF (c = call /\ pc = "read") \/ (Matters(c) /\ c \in announced)
                     THEN length[c] ELSE 0]

View ==
    <<callVars, LengthsKept, {c \in announced : Matters(c)}, Kept(received), Kept(written),
      Kept(stable), diskDir, dir, reply, losses, historyVars, exportVars>>

=============================================================================
