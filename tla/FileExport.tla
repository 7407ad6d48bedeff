----------------------------- MODULE FileExport -----------------------------
(***************************************************************************)
(* Exporting a file, beside the imports of FileImport and the same other   *)
(* writers.  workspace_export_file of the gateway (haru_mcp/server.py)     *)
(* gives the caller a link with the size that the child has found; later   *)
(* the caller reads the link's resource, the child looks at the path again *)
(* and reads the file, and the gateway passes the bytes on.                *)
(*                                                                         *)
(* The child runs one call at a time, so a read and an import never        *)
(* overlap; everybody else may write, grow, replace or remove the file     *)
(* between any two reads of it.  The size of a foreign file is only        *)
(* chosen when somebody looks at it: it is the one last seen if nobody has *)
(* touched the file since, and anything otherwise.                         *)
(***************************************************************************)
EXTENDS FileImport

VARIABLES
    at,         \* where the export stands
    link,       \* the size in the caller's link; NoLength once the file was written since
    source,     \* the open file
    size,       \* its current size
    got         \* what has been read of it

exportVars == <<at, link, source, size, got>>
xvars == <<vars, exportVars>>

ExportTypeOK ==
    /\ TypeOK
    /\ at \in {"idle", "found", "reading", "answer"}
    /\ link \in 0 .. MaxChunks \union {NoLength}
    /\ source \in Files
    /\ size \in Sizes
    /\ got \in Sizes

ExportInit ==
    /\ Init
    /\ at = "idle"
    /\ link = NoLength
    /\ source = NoFile /\ size = 0 /\ got = 0

ChildIdle == call = NoCall /\ at = "idle"

\* What stat can find at the destination.
SizesNow ==
    IF dir[Target] = NoFile THEN {}
    ELSE IF dir[Target] # Foreign THEN {written[dir[Target]]}
    ELSE IF link = NoLength THEN Sizes ELSE {link}

MutantPrepared(n) == n \in SizesNow

\* A refusal, of a missing file or one too large, changes nothing.
Prepared(n) == n \in SizesNow /\ n <= MaxChunks

\* The gateway makes a link of what the child returns.
ExportPrepared(n) ==
    /\ ChildIdle /\ Prepared(n)
    /\ link' = n
    /\ UNCHANGED <<vars, at, source, size, got>>

\* The token is decoded, and the child prepares the export again.
ReadBegins(n) ==
    /\ ChildIdle /\ Prepared(n)
    /\ at' = "found"
    /\ UNCHANGED <<vars, link, source, size, got>>

ReadOpens(n) ==
    /\ at = "found" /\ n \in SizesNow
    /\ at' = "reading"
    /\ source' = dir[Target] /\ size' = n /\ got' = 0
    /\ UNCHANGED <<vars, link>>

MutantReadLimit == MaxChunks

\* handle.read asks for one chunk more than the limit.
ReadLimit == MaxChunks + 1

ReadsChunk ==
    /\ at = "reading" /\ got < size /\ got < ReadLimit
    /\ got' = got + 1
    /\ UNCHANGED <<vars, at, link, source, size>>

Closed == source' = NoFile /\ size' = 0 /\ got' = 0

MutantReadEnds ==
    /\ at = "reading"
    /\ IF got > MaxChunks THEN at' = "idle" /\ Closed
                          ELSE at' = "answer" /\ UNCHANGED <<source, size, got>>
    /\ UNCHANGED <<vars, link>>

\* The end of the file, or the limit.
ReadEnds ==
    /\ at = "reading" /\ (got >= size \/ got = ReadLimit)
    /\ IF got > MaxChunks THEN at' = "idle" /\ Closed
                          ELSE at' = "answer" /\ UNCHANGED <<source, size, got>>
    /\ UNCHANGED <<vars, link>>

\* The file is gone or cannot be read, the child is killed, the gateway gives up.
\* The caller may use the same link again.
ExportFails ==
    /\ at \in {"found", "reading", "answer"}
    /\ at' = "idle" /\ Closed
    /\ UNCHANGED <<vars, link>>

\* The gateway decodes the answer and checks the size once more.
Exported ==
    /\ at = "answer" /\ got <= MaxChunks
    /\ at' = "idle" /\ Closed
    /\ UNCHANGED <<vars, link>>

ExportStep ==
    \/ \E n \in Sizes : ExportPrepared(n) \/ ReadBegins(n) \/ ReadOpens(n)
    \/ ReadsChunk \/ ReadEnds \/ ExportFails \/ Exported

-----------------------------------------------------------------------------
(* Imports and the other writers beside it. *)

Beside ==
    /\ link' = IF dir'[Target] = dir[Target] THEN link ELSE NoLength
    /\ UNCHANGED <<at, source, size, got>>

ImportStep == at = "idle" /\ Child /\ Beside

OthersStep ==
    /\ \/ \E file \in {Foreign, NoFile} : OthersChange(file)
       \/ \E c \in Calls : OthersRemove(c)
       \/ ChildKilled
    /\ Beside

\* Somebody writes to the file in place: a reader that has it open sees it.
OthersWrite(n) ==
    /\ dir[Target] # NoFile
    /\ dir' = [dir EXCEPT ![Target] = Foreign]
    /\ owed' = NoCall
    /\ link' = NoLength
    /\ IF at = "reading" /\ source = dir[Target]
       THEN source' = Foreign /\ size' = n
       ELSE UNCHANGED <<source, size>>
    /\ UNCHANGED <<callVars, downloadVars, written, diskVars, reply, losses,
                   unsynced, published, outage, at, got>>

PowerStep ==
    /\ \E entries \in SUBSET Names, files \in SUBSET Calls : PowerFails(entries, files)
    /\ at' = "idle" /\ link' = NoLength /\ Closed

ExportNext ==
    \/ ExportStep \/ ImportStep
    \/ OthersStep \/ (\E n \in Sizes : OthersWrite(n)) \/ PowerStep

ExportSpec == ExportInit /\ [][ExportNext]_xvars

-----------------------------------------------------------------------------
(* Properties. *)

\* The caller gets nothing that was cut off: the bytes sent reach to the end that the
\* file had when it was read, even if it grew during the read, and are no more than
\* the limit; of a file that an import has written all of the import is exported.
ExportIsWhole ==
    [][at = "reading" /\ at' = "answer" =>
        /\ size <= got /\ got <= MaxChunks
        /\ source \in Calls => got = All(source)]_xvars

\* The size in the link is the size of the export, unless the file was written or
\* replaced after the link was made.
LinkSizeHolds == at = "answer" /\ link # NoLength => got = link

=============================================================================
