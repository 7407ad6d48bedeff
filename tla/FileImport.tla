----------------------------- MODULE FileImport -----------------------------
(***************************************************************************)
(* import_chatgpt_file of the file-transfer child                          *)
(* (deploy/workspace/file_ingress_server.py): a download into a temporary  *)
(* file beside the destination, published by a hard link or a rename.      *)
(*                                                                         *)
(* The child runs one call at a time.  Beside it, shell jobs and the       *)
(* filesystem backend change the same directory, the supervisor may end    *)
(* the child between any two steps, and the machine may lose power, which  *)
(* leaves of the page cache what was synced and some of what was not.      *)
(*                                                                         *)
(* Data is abstract: a file is the call that wrote it and how many chunks  *)
(* of the download are in it.  Which addresses and paths are trusted is    *)
(* not modelled; a call that fails those tests ends in ImportRefused.      *)
(***************************************************************************)
EXTENDS Naturals, FiniteSets

CONSTANTS
    Calls,          \* the calls of the tool, each with a temporary name of its own
    MaxChunks,      \* MAX_FILE_BYTES, in chunks
    MaxRedirects,   \* MAX_REDIRECTS
    Losses          \* bound on the kills and power failures

Target  == "target"     \* the destination of every call
Foreign == "foreign"    \* a file somebody else wrote
NoFile  == "nofile"
NoCall  == "nocall"

ASSUME ImportAssumption ==
    /\ {Target, Foreign, NoFile, NoCall} \intersect Calls = {}
    /\ MaxChunks \in Nat /\ MaxRedirects \in Nat /\ Losses \in Nat

Names == Calls \union {Target}
Files == Calls \union {Foreign, NoFile}
Sizes == 0 .. MaxChunks + 1
NoLength == MaxChunks + 2

VARIABLES
    call,       \* the call the child works on
    pc,
    overwrite,
    hop,
    length,     \* what the sender means to send, for each call
    announced,  \* the calls whose response says so in its Content-Length
    received,   \* the chunks that have come: size in the code
    written,    \* chunks of a call's file, in the page cache
    stable,     \* and on disk
    dir,        \* the directory, in the page cache
    diskDir,    \* and on disk
    reply,      \* what each call's caller has been told
    losses,
    owed,       \* history: the call whose success nobody has undone since
    unsynced,   \* history: calls whose fsync of the directory failed
    published,  \* history: calls that have put their file at the destination
    outage      \* history: the power has failed

callVars == <<call, pc, overwrite, hop>>
downloadVars == <<length, announced, received>>
diskVars == <<stable, diskDir>>
historyVars == <<owed, unsynced, published, outage>>
vars == <<callVars, downloadVars, written, diskVars, dir, reply, losses, historyVars>>

Pcs == {"idle", "open", "read", "sync", "compare", "publish", "unlink", "syncDir"}

TypeOK ==
    /\ call \in Calls \union {NoCall}
    /\ pc \in Pcs /\ (pc = "idle") = (call = NoCall)
    /\ overwrite \in BOOLEAN
    /\ hop \in 0 .. MaxRedirects
    /\ length \in [Calls -> Sizes] /\ announced \subseteq Calls
    /\ received \in [Calls -> Sizes]
    /\ written \in [Calls -> Sizes] /\ stable \in [Calls -> Sizes]
    /\ dir \in [Names -> Files] /\ diskDir \in [Names -> Files]
    /\ reply \in [Calls -> {"none", "ok", "error", "lost"}]
    /\ losses \in 0 .. Losses
    /\ owed \in Calls \union {NoCall}
    /\ unsynced \subseteq Calls /\ published \subseteq Calls
    /\ outage \in BOOLEAN

Init ==
    /\ call = NoCall /\ pc = "idle"
    /\ overwrite = FALSE
    /\ hop = 0
    /\ length = [c \in Calls |-> 0] /\ announced = {}
    /\ received = [c \in Calls |-> 0]
    /\ written = [c \in Calls |-> 0] /\ stable = [c \in Calls |-> 0]
    /\ dir \in {[n \in Names |-> NoFile],
                [n \in Names |-> IF n = Target THEN Foreign ELSE NoFile]}
    /\ diskDir = dir
    /\ reply = [c \in Calls |-> "none"]
    /\ losses = 0
    /\ owed = NoCall
    /\ unsynced = {} /\ published = {}
    /\ outage = FALSE

-----------------------------------------------------------------------------

At(place) == call # NoCall /\ pc = place

GoTo(place) == pc' = place /\ UNCHANGED <<call, overwrite, hop>>

Ends(how) ==
    /\ reply' = [reply EXCEPT ![call] = how]
    /\ pc' = "idle" /\ call' = NoCall
    /\ overwrite' = FALSE /\ hop' = 0

\* missing_ok: somebody may have removed the temporary file already.
Unlinked == [dir EXCEPT ![call] = NoFile]

\* An exception: every handler on its way unlinks the temporary file.
Raises == Ends("error") /\ dir' = Unlinked

\* The arguments are checked, and without overwrite the destination is looked at.
ImportBegins(c, ow) ==
    /\ call = NoCall /\ reply[c] = "none"
    /\ ow \/ dir[Target] = NoFile
    /\ call' = c /\ pc' = "open" /\ overwrite' = ow
    /\ UNCHANGED <<hop, downloadVars, written, diskVars, dir, reply, losses,
                   historyVars>>

ImportRefused(c) ==
    /\ call = NoCall /\ reply[c] = "none"
    /\ reply' = [reply EXCEPT ![c] = "error"]
    /\ UNCHANGED <<callVars, downloadVars, written, diskVars, dir, losses, historyVars>>

Redirected ==
    /\ At("open") /\ hop < MaxRedirects
    /\ hop' = hop + 1
    /\ UNCHANGED <<call, pc, overwrite, downloadVars, written, diskVars, dir,
                   reply, losses, historyVars>>

\* A deadline, a bad address, a failed request, a redirect too many, a bad response.
OpenFails ==
    /\ At("open")
    /\ Ends("error")
    /\ UNCHANGED <<downloadVars, written, diskVars, dir, losses, historyVars>>

\* A 200 that does not announce too much, and mkstemp.
Accepted(n, announces) ==
    /\ At("open")
    /\ announces => n <= MaxChunks
    /\ length' = [length EXCEPT ![call] = n]
    /\ announced' = IF announces THEN announced \union {call} ELSE announced
    /\ dir' = [dir EXCEPT ![call] = call]
    /\ GoTo("read")
    /\ UNCHANGED <<received, written, diskVars, reply, losses, historyVars>>

Reads ==
    /\ At("read") /\ received[call] < length[call]
    /\ IF received[call] < MaxChunks
       THEN /\ received' = [received EXCEPT ![call] = @ + 1]
            /\ written' = [written EXCEPT ![call] = received'[call]]
            /\ GoTo("read")
            /\ UNCHANGED <<dir, reply>>
       ELSE Raises /\ UNCHANGED <<received, written>>
    /\ UNCHANGED <<length, announced, diskVars, losses, historyVars>>

\* read() returns no bytes: at the end of the download, and just the same when the
\* connection was cut before.
ReadsEnd ==
    /\ At("read")
    /\ GoTo("sync")
    /\ UNCHANGED <<downloadVars, written, diskVars, dir, reply, losses,
                   historyVars>>

\* The deadline, a network error, a full disk.
ReadFails ==
    /\ At("read") \/ At("sync")
    /\ Raises
    /\ UNCHANGED <<downloadVars, written, diskVars, losses, historyVars>>

MutantSyncs ==
    /\ At("sync")
    /\ GoTo("compare")
    /\ UNCHANGED <<downloadVars, written, diskVars, dir, reply, losses, historyVars>>

Syncs ==
    /\ At("sync")
    /\ stable' = [stable EXCEPT ![call] = written[call]]
    /\ GoTo("compare")
    /\ UNCHANGED <<downloadVars, written, diskDir, dir, reply, losses, historyVars>>

MutantCompares ==
    /\ At("compare")
    /\ GoTo("publish")
    /\ UNCHANGED <<downloadVars, written, diskVars, dir, reply, losses, historyVars>>

\* A response that announced no length has nothing to compare with.
Compares ==
    /\ At("compare")
    /\ IF call \in announced => received[call] = length[call]
       THEN GoTo("publish") /\ UNCHANGED <<dir, reply>>
       ELSE Raises
    /\ UNCHANGED <<downloadVars, written, diskVars, losses, historyVars>>

\* os.replace
Replaces ==
    /\ At("publish") /\ overwrite
    /\ dir[call] = call
    /\ dir' = [dir EXCEPT ![Target] = call, ![call] = NoFile]
    /\ GoTo("syncDir")
    /\ owed' = NoCall /\ published' = published \union {call}
    /\ UNCHANGED <<downloadVars, written, diskVars, reply, losses, unsynced, outage>>

MutantLinks ==
    /\ At("publish") /\ ~ overwrite
    /\ dir[call] = call
    /\ dir' = [dir EXCEPT ![Target] = call, ![call] = NoFile]
    /\ GoTo("syncDir")
    /\ owed' = NoCall /\ published' = published \union {call}
    /\ UNCHANGED <<downloadVars, written, diskVars, reply, losses, unsynced, outage>>

\* os.link
Links ==
    /\ At("publish") /\ ~ overwrite
    /\ dir[call] = call /\ dir[Target] = NoFile
    /\ dir' = [dir EXCEPT ![Target] = call]
    /\ GoTo("unlink")
    /\ owed' = NoCall /\ published' = published \union {call}
    /\ UNCHANGED <<downloadVars, written, diskVars, reply, losses, unsynced, outage>>

MutantPublishFails ==
    /\ At("publish")
    /\ Ends("error")
    /\ UNCHANGED <<downloadVars, written, diskVars, dir, losses, historyVars>>

\* The destination exists by now, the temporary file is gone, or the file
\* system refuses.
PublishFails ==
    /\ At("publish")
    /\ Raises
    /\ UNCHANGED <<downloadVars, written, diskVars, losses, historyVars>>

MutantUnlinks ==
    /\ At("unlink")
    /\ IF dir[call] = call
       THEN dir' = Unlinked /\ GoTo("syncDir") /\ UNCHANGED reply
       ELSE Raises
    /\ UNCHANGED <<downloadVars, written, diskVars, losses, historyVars>>

Unlinks ==
    /\ At("unlink")
    /\ dir' = Unlinked
    /\ GoTo("syncDir")
    /\ UNCHANGED <<downloadVars, written, diskVars, reply, losses, historyVars>>

MutantSyncsDir ==
    /\ At("syncDir")
    /\ Ends("ok")
    /\ owed' = IF dir[Target] = call THEN call ELSE NoCall
    /\ UNCHANGED <<downloadVars, written, diskVars, dir, losses, unsynced, published,
                   outage>>

SyncsDir ==
    /\ At("syncDir")
    /\ diskDir' = dir
    /\ Ends("ok")
    /\ owed' = IF dir[Target] = call THEN call ELSE NoCall
    /\ UNCHANGED <<downloadVars, written, stable, dir, losses, unsynced, published, outage>>

SyncDirFails ==
    /\ At("syncDir")
    /\ unsynced' = unsynced \union {call}
    /\ Raises
    /\ UNCHANGED <<downloadVars, written, diskVars, losses, owed, published, outage>>

Child ==
    \/ \E c \in Calls : ImportRefused(c) \/ \E ow \in BOOLEAN : ImportBegins(c, ow)
    \/ Redirected \/ OpenFails
    \/ \E n \in Sizes, announces \in BOOLEAN : Accepted(n, announces)
    \/ Reads \/ ReadsEnd \/ ReadFails \/ Syncs \/ Compares
    \/ Replaces \/ Links \/ PublishFails \/ Unlinks \/ SyncsDir \/ SyncDirFails

-----------------------------------------------------------------------------
(* Everybody else. *)

\* A shell job or the filesystem backend writes, replaces or removes the target.
OthersChange(file) ==
    /\ dir[Target] # file
    /\ dir' = [dir EXCEPT ![Target] = file]
    /\ owed' = NoCall
    /\ UNCHANGED <<callVars, downloadVars, written, diskVars, reply, losses, unsynced,
                   published, outage>>

\* Somebody tidies up.
OthersRemove(c) ==
    /\ dir[c] # NoFile
    /\ dir' = [dir EXCEPT ![c] = NoFile]
    /\ UNCHANGED <<callVars, downloadVars, written, diskVars, reply, losses, historyVars>>

\* The call that ran is never answered.
Lost ==
    /\ losses < Losses /\ losses' = losses + 1
    /\ reply' = IF call = NoCall THEN reply ELSE [reply EXCEPT ![call] = "lost"]
    /\ pc' = "idle" /\ call' = NoCall
    /\ overwrite' = FALSE /\ hop' = 0

\* Python's default SIGTERM and SIGKILL alike: no handler of the code runs.
ChildKilled ==
    /\ call # NoCall /\ Lost
    /\ UNCHANGED <<downloadVars, written, diskVars, dir, historyVars>>

\* Of every entry and every file some of what was not synced may have survived.
PowerFails(entries, files) ==
    /\ Lost
    /\ dir' = [n \in Names |-> IF n \in entries THEN dir[n] ELSE diskDir[n]]
    /\ written' = [c \in Calls |-> IF c \in files THEN written[c] ELSE stable[c]]
    /\ diskDir' = dir' /\ stable' = written'
    /\ outage' = TRUE
    /\ UNCHANGED <<downloadVars, owed, unsynced, published>>

Others ==
    \/ \E file \in {Foreign, NoFile} : OthersChange(file)
    \/ \E c \in Calls : OthersRemove(c)
    \/ ChildKilled
    \/ \E entries \in SUBSET Names, files \in SUBSET Calls : PowerFails(entries, files)

Next == Child \/ Others

Spec == Init /\ [][Next]_vars

-----------------------------------------------------------------------------
(* Properties. *)

\* All of an import: what its response announced, or, of a response that announced no
\* length, what came before its end.  That the connection was cut there is not noticed.
All(c) == IF c \in announced THEN length[c] ELSE received[c]

\* The destination is written atomically: whoever opens it, also after a kill or a
\* power failure, finds all of an import or nothing of it, and never what the response
\* announced cut short.
NeverPartial ==
    \A c \in Calls : dir[Target] = c => written[c] = All(c) /\ All(c) <= MaxChunks

\* Without overwrite a call never replaces what is at the destination at the moment
\* of publication, even if it appeared after the first look.
NeverReplaces ==
    [][call # NoCall /\ ~ overwrite /\ dir'[Target] = call /\ dir[Target] # call
          => dir[Target] = NoFile]_vars

\* A success is durable: until a later writer changes the destination all of the import
\* is there, and a power failure does not take it away.
SuccessIsDurable ==
    owed # NoCall =>
        /\ dir[Target] = owed /\ written[owed] = All(owed)
        /\ diskDir[Target] = owed /\ stable[owed] = All(owed)

\* A call that was answered leaves no temporary file, whatever went wrong in it;
\* after an error a power failure may bring the file back.
NoTempLeft ==
    \A c \in Calls :
        reply[c] = "ok" \/ (reply[c] = "error" /\ ~ outage) => dir[c] = NoFile

\* An error means that nothing was published, unless it is the directory's fsync
\* that failed.
ErrorMeansUnpublished ==
    \A c \in Calls : reply[c] = "error" /\ dir[Target] = c => c \in unsynced

\* A file without all of its import is nothing the abstract import knows.
Shown(files, chunks) ==
    IF files[Target] \in Calls /\ chunks[files[Target]] # All(files[Target])
    THEN "torn" ELSE files[Target]

Atomic == INSTANCE AtomicImport WITH
    file <- Shown(dir, written), disk <- Shown(diskDir, stable)

\* All the steps of an import together are one write of one file, and a reply that
\* follows it and, if it is a success, the write's arrival on disk.
ImplementsAtomicImport == Atomic!Spec

=============================================================================
