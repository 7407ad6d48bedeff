---------------------------- MODULE AtomicImport ----------------------------
(***************************************************************************)
(* What import_chatgpt_file promises about its destination: the file is    *)
(* written in one step, it may be answered only afterwards, and a success  *)
(* is on disk.  Other writers come and go, a power failure may take back   *)
(* what has not reached the disk.                                          *)
(***************************************************************************)
CONSTANT Calls

VARIABLES
    file,       \* what a reader of the destination finds
    disk,       \* and what the disk has
    published,  \* the calls that have written the destination
    reply

Foreign == "foreign"
NoFile  == "nofile"

avars == <<file, disk, published, reply>>

Init ==
    /\ file \in {Foreign, NoFile} /\ disk = file
    /\ published = {}
    /\ reply = [c \in Calls |-> "none"]

Publish(c) ==
    /\ reply[c] = "none" /\ c \notin published
    /\ file' = c
    /\ published' = published \union {c}
    /\ UNCHANGED <<disk, reply>>

Succeed(c) ==
    /\ reply[c] = "none" /\ c \in published
    /\ reply' = [reply EXCEPT ![c] = "ok"]
    /\ disk' = file
    /\ UNCHANGED <<file, published>>

\* An error, or no answer at all.
Fail(c, how) ==
    /\ reply[c] = "none"
    /\ reply' = [reply EXCEPT ![c] = how]
    /\ UNCHANGED <<file, disk, published>>

OthersWrite(what) ==
    /\ file' = what
    /\ UNCHANGED <<disk, published, reply>>

PowerFails(after) ==
    /\ file' \in {file, disk} /\ disk' = file'
    /\ reply' = after
    /\ UNCHANGED published

Next ==
    \/ \E c \in Calls :
        Publish(c) \/ Succeed(c) \/ Fail(c, "error") \/ Fail(c, "lost")
    \/ OthersWrite(Foreign) \/ OthersWrite(NoFile)
    \/ PowerFails(reply)
    \/ \E c \in Calls : reply[c] = "none" /\ PowerFails([reply EXCEPT ![c] = "lost"])

Spec == Init /\ [][Next]_avars

=============================================================================
