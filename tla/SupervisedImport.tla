-------------------------- MODULE SupervisedImport --------------------------
(***************************************************************************)
(* The supervisor and the file-transfer backend together.                  *)
(* import_chatgpt_file is a plain function, so while it downloads, its     *)
(* process answers no probe, and to the supervisor it looks like a backend *)
(* that hangs.  Nothing in the code limits how long a download takes: the  *)
(* deadline of 60 seconds is read between two reads of a mebibyte, and a   *)
(* slow sender keeps each of them waiting.                                 *)
(***************************************************************************)
EXTENDS Supervisor

CONSTANT FileBackend

ASSUME FileBackendAssumption == FileBackend \in Backends

VARIABLES
    importing,  \* the file-transfer backend is in import_chatgpt_file
    span,       \* history: for how long it has been unable to answer, imports only
    longest,    \* history: the longest span
    imports,    \* history: one import, or more
    broken      \* history: a process died or hung by itself

importVars == <<importing, span, longest, imports, broken>>
ivars == <<svars, importVars>>

\* The shortest series of FailureThreshold probes that all time out.
Tolerable == FailureThreshold * ProbeTimeout + (FailureThreshold - 1) * ProbeInterval

ImportTypeOK ==
    /\ TypeOK
    /\ importing \in BOOLEAN /\ broken \in BOOLEAN
    /\ span \in 0 .. Tolerable /\ longest \in 0 .. Tolerable
    /\ imports \in 0 .. 2

ImportInit ==
    /\ Init
    /\ importing = FALSE /\ broken = FALSE
    /\ span = 0 /\ longest = 0
    /\ imports = 0

MutantImportBegins ==
    /\ Hangs(FileBackend)
    /\ importing' = TRUE
    /\ imports' = imports + 1
    /\ UNCHANGED <<span, longest, broken>>

ImportBegins ==
    /\ ~ importing /\ Hangs(FileBackend)
    /\ importing' = TRUE
    /\ imports' = Smaller(imports + 1, 2)
    /\ UNCHANGED <<span, longest, broken>>

ImportEnds ==
    /\ importing /\ Answers(FileBackend)
    /\ importing' = FALSE
    /\ UNCHANGED <<span, longest, imports, broken>>

Breaks ==
    /\ \/ \E p \in Processes : Dies(p)
       \/ \E b \in Backends : Hangs(b)
    /\ importing' = (importing /\ FileBackend \in alive')
    /\ broken' = TRUE
    /\ UNCHANGED <<span, longest, imports>>

Downloads(b) == importing /\ b = FileBackend

\* A probe of the downloading backend is not refused: it is left without an answer.
GoesOn ==
    /\ \/ SupervisorStep \/ StopSignal
       \/ \E b \in Backends :
            \/ ProbeAnswered(b)
            \/ ProbeRefused(b) /\ (Downloads(b) => Proxy \notin alive)
            \/ Answers(b) /\ ~ Downloads(b)
    /\ UNCHANGED importVars

ImportTick ==
    /\ Tick
    /\ span' = IF importing THEN Smaller(span + 1, Tolerable) ELSE 0
    /\ longest' = IF span' > longest THEN span' ELSE longest
    /\ UNCHANGED <<importing, imports, broken>>

ImportNext == ImportBegins \/ ImportEnds \/ Breaks \/ GoesOn \/ ImportTick

ImportSpec == ImportInit /\ [][ImportNext]_ivars

-----------------------------------------------------------------------------
(* Properties. *)

\* Imports that keep the backend from answering for less than a probe never end a
\* workspace in which nothing else is wrong, and a single import does not before it
\* has outlasted FailureThreshold probes: 5 seconds as shipped, not 60.
ShortImportsTolerated ==
    returned = "failed" /\ phase = "monitor" /\ ~ broken =>
        /\ longest >= ProbeTimeout
        /\ imports = 1 => longest = Tolerable

=============================================================================
