-------------------------- MODULE FileImportProofs --------------------------
(***************************************************************************)
(* Theorems about FileImport and FileExport, for any number of calls, any  *)
(* limits and any number of kills and power failures.                      *)
(***************************************************************************)
EXTENDS FileExport, TLAPS

LEMMA Constants ==
    /\ MaxChunks \in Nat /\ MaxRedirects \in Nat /\ Losses \in Nat
    /\ NoLength = MaxChunks + 2 /\ Sizes = 0 .. MaxChunks + 1
    /\ Target \notin Calls /\ Foreign \notin Calls /\ NoFile \notin Calls /\ NoCall \notin Calls
    /\ Foreign # NoFile
    /\ Target \in Names /\ Calls \subseteq Names /\ Calls \subseteq Files
    /\ Foreign \in Files /\ NoFile \in Files
BY ImportAssumption DEF NoLength, Sizes, Names, Files, Foreign, NoFile

(***************************************************************************)
(* The inductive invariant.  A call works on its own file only before it   *)
(* publishes it; what is at the destination, in memory or on disk, was     *)
(* published, and what is published is all there and synced.               *)
(***************************************************************************)

Types ==
    /\ call \in Calls \union {NoCall}
    /\ pc \in Pcs /\ (pc = "idle" <=> call = NoCall)
    /\ hop \in 0 .. MaxRedirects
    /\ length \in [Calls -> Sizes] /\ announced \subseteq Calls
    /\ received \in [Calls -> Sizes]
    /\ written \in [Calls -> Sizes] /\ stable \in [Calls -> Sizes]
    /\ dir \in [Names -> Files] /\ diskDir \in [Names -> Files]
    /\ reply \in [Calls -> {"none", "ok", "error", "lost"}]
    /\ losses \in 0 .. Losses
    /\ owed \in Calls \union {NoCall}
    /\ unsynced \subseteq Calls /\ published \subseteq Calls

Booleans == overwrite \in BOOLEAN /\ outage \in BOOLEAN

Whole(c) == written[c] = All(c) /\ stable[c] = All(c) /\ All(c) <= MaxChunks

\* Nothing has come yet.
Untouched(c) == written[c] = received[c] /\ stable[c] = received[c]

Fresh(c) == dir[c] = NoFile /\ diskDir[c] = NoFile

\* Of every call.
CallInv(c) ==
    /\ received[c] <= MaxChunks /\ written[c] <= MaxChunks /\ stable[c] <= MaxChunks
    /\ dir[Target] = c \/ diskDir[Target] = c => c \in published
    /\ c \in published => Whole(c)
    /\ reply[c] = "none" /\ c # call => c \notin published /\ Fresh(c) /\ Untouched(c)
    /\ reply[c] = "ok" => Fresh(c)
    /\ reply[c] = "error" /\ ~ outage => dir[c] = NoFile
    /\ reply[c] = "error" /\ c \in published => c \in unsynced

\* Of the call that runs.
RunInv ==
    call # NoCall =>
        /\ reply[call] = "none"
        /\ diskDir[Target] # call
        /\ call \in published <=> pc \in {"unlink", "syncDir"}
        /\ pc = "open" => Fresh(call) /\ Untouched(call)
        /\ pc \in {"read", "sync", "compare"} => written[call] = received[call]
        /\ pc = "compare" => stable[call] = received[call]
        /\ pc = "publish" => Whole(call)
        /\ pc = "syncDir" => dir[call] = NoFile

OwedInv == owed # NoCall => dir[Target] = owed /\ diskDir[Target] = owed

ImportInv == Types /\ (\A c \in Calls : CallInv(c)) /\ RunInv /\ OwedInv

LEMMA ImportInvInit == Init => ImportInv /\ Booleans
<1>1. Init => Types /\ Booleans
  <2>1. Init => Booleans
    BY DEF Init, Booleans
  <2>2. ASSUME Init PROVE dir \in [Names -> Files]
    BY <2>2, Constants DEF Init
  <2> QED
    BY <2>1, <2>2, Constants DEF Init, Types, Pcs
<1>2. Init => RunInv /\ OwedInv
  BY DEF Init, RunInv, OwedInv
<1>3. ASSUME Init, NEW c \in Calls PROVE CallInv(c)
  <2>1. dir[c] = NoFile /\ dir[Target] \in {Foreign, NoFile} /\ diskDir = dir
    BY <1>3, Constants DEF Init
  <2> QED
    BY <1>3, <2>1, Constants DEF Init, CallInv, Untouched, Fresh
<1> QED
  BY <1>1, <1>2, <1>3 DEF ImportInv

LEMMA RaisesTypes ==
    ASSUME Types, call # NoCall, Raises
    PROVE  /\ call' = NoCall /\ pc' = "idle" /\ hop' = 0
           /\ dir' \in [Names -> Files]
           /\ reply' \in [Calls -> {"none", "ok", "error", "lost"}]
BY Constants DEF Types, Raises, Ends, Unlinked

LEMMA BeginsKeeps ==
    ASSUME ImportInv, NEW c \in Calls, NEW ow \in BOOLEAN, ImportBegins(c, ow)
    PROVE  ImportInv'
<1> USE Constants DEF callVars, downloadVars, diskVars, historyVars, GoTo, At, ImportBegins
<1>1. Types'
  BY DEF ImportInv, Types, Pcs
<1>2. ASSUME NEW d \in Calls PROVE CallInv(d)'
  BY DEF ImportInv, Types, RunInv, CallInv, Whole, All, Untouched, Fresh
<1>3. RunInv'
  BY DEF ImportInv, Types, RunInv, CallInv, Whole, All, Untouched, Fresh
<1>4. OwedInv'
  BY DEF ImportInv, Types, RunInv, OwedInv, CallInv
<1> QED
  BY <1>1, <1>2, <1>3, <1>4 DEF ImportInv

LEMMA RefusedKeeps ==
    ASSUME ImportInv, NEW c \in Calls, ImportRefused(c)
    PROVE  ImportInv'
<1> USE Constants DEF callVars, downloadVars, diskVars, historyVars, GoTo, At, ImportRefused
<1>1. Types'
  BY DEF ImportInv, Types, Pcs
<1>2. ASSUME NEW d \in Calls PROVE CallInv(d)'
  BY DEF ImportInv, Types, RunInv, CallInv, Whole, All, Untouched, Fresh
<1>3. RunInv'
  BY DEF ImportInv, Types, RunInv, CallInv, Whole, All, Untouched, Fresh
<1>4. OwedInv'
  BY DEF ImportInv, Types, RunInv, OwedInv, CallInv
<1> QED
  BY <1>1, <1>2, <1>3, <1>4 DEF ImportInv

LEMMA RedirectedKeeps ==
    ASSUME ImportInv, Redirected
    PROVE  ImportInv'
<1> USE Constants DEF callVars, downloadVars, diskVars, historyVars, GoTo, At, Redirected
<1>1. Types'
  BY DEF ImportInv, Types, Pcs
<1>2. ASSUME NEW d \in Calls PROVE CallInv(d)'
  BY DEF ImportInv, Types, RunInv, CallInv, Whole, All, Untouched, Fresh
<1>3. RunInv'
  BY DEF ImportInv, Types, RunInv, CallInv, Whole, All, Untouched, Fresh
<1>4. OwedInv'
  BY DEF ImportInv, Types, RunInv, OwedInv, CallInv
<1> QED
  BY <1>1, <1>2, <1>3, <1>4 DEF ImportInv

LEMMA OpenFailsKeeps ==
    ASSUME ImportInv, OpenFails
    PROVE  ImportInv'
<1> USE Constants DEF callVars, downloadVars, diskVars, historyVars, GoTo, At, OpenFails, Ends
<1>1. Types'
  BY DEF ImportInv, Types, Pcs
<1>2. ASSUME NEW d \in Calls PROVE CallInv(d)'
  BY DEF ImportInv, Types, RunInv, CallInv, Whole, All, Untouched, Fresh
<1>3. RunInv'
  BY DEF ImportInv, Types, RunInv, CallInv, Whole, All, Untouched, Fresh
<1>4. OwedInv'
  BY DEF ImportInv, Types, RunInv, OwedInv, CallInv
<1> QED
  BY <1>1, <1>2, <1>3, <1>4 DEF ImportInv

LEMMA AcceptedKeeps ==
    ASSUME ImportInv, NEW n \in Sizes, NEW announces \in BOOLEAN, Accepted(n, announces)
    PROVE  ImportInv'
<1> USE Constants DEF callVars, downloadVars, diskVars, historyVars, GoTo, At, Accepted
<1>1. Types'
  BY DEF ImportInv, Types, Pcs
<1>2. ASSUME NEW d \in Calls PROVE CallInv(d)'
  BY DEF ImportInv, Types, RunInv, CallInv, Whole, All, Untouched, Fresh
<1>3. RunInv'
  BY DEF ImportInv, Types, RunInv, CallInv, Whole, All, Untouched, Fresh
<1>4. OwedInv'
  BY DEF ImportInv, Types, RunInv, OwedInv, CallInv
<1> QED
  BY <1>1, <1>2, <1>3, <1>4 DEF ImportInv

LEMMA ReadsKeeps ==
    ASSUME ImportInv, Reads
    PROVE  ImportInv'
<1> USE Constants
<1>1. Types'
  <2>1. /\ call # NoCall /\ call \in Calls
        /\ UNCHANGED <<length, announced, stable, diskDir, losses, owed, unsynced, published>>
    BY DEF ImportInv, Types, Reads, At, diskVars, historyVars
  <2>2. CASE received[call] < MaxChunks
    <3>1. /\ received' \in [Calls -> Sizes] /\ written' \in [Calls -> Sizes]
          /\ UNCHANGED <<call, pc, hop, dir, reply>>
      <4>1. received[call] + 1 \in Sizes
        BY <2>1, <2>2 DEF ImportInv, Types
      <4>2. /\ received' = [received EXCEPT ![call] = @ + 1]
            /\ written' = [written EXCEPT ![call] = received'[call]]
            /\ UNCHANGED <<call, pc, hop, dir, reply>>
        BY <2>2 DEF Reads, At, GoTo
      <4> QED
        BY <2>1, <4>1, <4>2 DEF ImportInv, Types
    <3> QED
      BY <2>1, <3>1 DEF ImportInv, Types
  <2>3. CASE ~ received[call] < MaxChunks
    <3>1. Raises /\ UNCHANGED <<received, written>>
      BY <2>3 DEF Reads
    <3> QED
      BY <2>1, <3>1, RaisesTypes DEF ImportInv, Types, Pcs
  <2> QED
    BY <2>2, <2>3
<1> USE DEF callVars, downloadVars, diskVars, historyVars, GoTo, At, Reads, Raises, Ends,
            Unlinked
<1>2. ASSUME NEW d \in Calls PROVE CallInv(d)'
  BY DEF ImportInv, Types, RunInv, CallInv, Whole, All, Untouched, Fresh
<1>3. RunInv'
  BY DEF ImportInv, Types, RunInv, CallInv, Whole, All, Untouched, Fresh
<1>4. OwedInv'
  BY DEF ImportInv, Types, RunInv, OwedInv, CallInv
<1> QED
  BY <1>1, <1>2, <1>3, <1>4 DEF ImportInv

LEMMA ReadsEndKeeps ==
    ASSUME ImportInv, ReadsEnd
    PROVE  ImportInv'
<1> USE Constants DEF callVars, downloadVars, diskVars, historyVars, GoTo, At, ReadsEnd
<1>1. Types'
  BY DEF ImportInv, Types, Pcs
<1>2. ASSUME NEW d \in Calls PROVE CallInv(d)'
  BY DEF ImportInv, Types, RunInv, CallInv, Whole, All, Untouched, Fresh
<1>3. RunInv'
  BY DEF ImportInv, Types, RunInv, CallInv, Whole, All, Untouched, Fresh
<1>4. OwedInv'
  BY DEF ImportInv, Types, RunInv, OwedInv, CallInv
<1> QED
  BY <1>1, <1>2, <1>3, <1>4 DEF ImportInv

LEMMA ReadFailsKeeps ==
    ASSUME ImportInv, ReadFails \/ PublishFails
    PROVE  ImportInv'
<1> USE Constants
<1>1. Types'
  BY RaisesTypes DEF ImportInv, Types, Pcs, ReadFails, PublishFails, At, downloadVars, diskVars,
                     historyVars
<1>2. ASSUME NEW d \in Calls PROVE CallInv(d)'
  <2>1. /\ call \in Calls /\ reply[call] = "none" /\ call \notin published
        /\ dir' = [dir EXCEPT ![call] = NoFile] /\ reply' = [reply EXCEPT ![call] = "error"]
        /\ call' = NoCall
        /\ UNCHANGED <<length, announced, received, written, stable, diskDir, published, unsynced,
                       outage>>
    BY DEF ReadFails, PublishFails, Raises, Ends, Unlinked, At, downloadVars, diskVars, historyVars,
           ImportInv, Types, RunInv
  <2>2. All(d)' = All(d) /\ Whole(d)' = Whole(d) /\ Untouched(d)' = Untouched(d)
    BY <2>1 DEF All, Whole, Untouched
  <2>3. dir'[Target] = dir[Target] /\ dir'[d] \in {dir[d], NoFile} /\ dir'[call] = NoFile
    BY <2>1 DEF ImportInv, Types
  <2>4. CASE d = call
    BY <2>1, <2>2, <2>3, <2>4 DEF ImportInv, Types, RunInv, CallInv
  <2>5. CASE d # call
    BY <2>1, <2>2, <2>3, <2>5 DEF ImportInv, Types, CallInv, Fresh
  <2> QED
    BY <2>4, <2>5
<1> USE DEF callVars, downloadVars, diskVars, historyVars, GoTo, At, ReadFails, PublishFails,
            Raises, Ends, Unlinked
<1>3. RunInv'
  BY DEF ImportInv, Types, RunInv, CallInv, Whole, All, Untouched, Fresh
<1>4. OwedInv'
  BY DEF ImportInv, Types, RunInv, OwedInv, CallInv
<1> QED
  BY <1>1, <1>2, <1>3, <1>4 DEF ImportInv

LEMMA SyncsKeeps ==
    ASSUME ImportInv, Syncs
    PROVE  ImportInv'
<1> USE Constants DEF callVars, downloadVars, diskVars, historyVars, GoTo, At, Syncs
<1>1. Types'
  BY DEF ImportInv, Types, Pcs
<1>2. ASSUME NEW d \in Calls PROVE CallInv(d)'
  BY DEF ImportInv, Types, RunInv, CallInv, Whole, All, Untouched, Fresh
<1>3. RunInv'
  BY DEF ImportInv, Types, RunInv, CallInv, Whole, All, Untouched, Fresh
<1>4. OwedInv'
  BY DEF ImportInv, Types, RunInv, OwedInv, CallInv
<1> QED
  BY <1>1, <1>2, <1>3, <1>4 DEF ImportInv

LEMMA ComparesKeeps ==
    ASSUME ImportInv, Compares
    PROVE  ImportInv'
<1> USE Constants
<1>1. Types'
  <2>1. CASE Raises
    BY <2>1, RaisesTypes DEF ImportInv, Types, Pcs, Compares, At, downloadVars, diskVars, historyVars
  <2>2. CASE ~ Raises
    BY <2>2 DEF ImportInv, Types, Pcs, Compares, At, GoTo, downloadVars, diskVars, historyVars
  <2> QED
    BY <2>1, <2>2 DEF Compares
<1> USE DEF callVars, downloadVars, diskVars, historyVars, GoTo, At, Compares, Raises, Ends,
            Unlinked
<1>2. ASSUME NEW d \in Calls PROVE CallInv(d)'
  BY DEF ImportInv, Types, RunInv, CallInv, Whole, All, Untouched, Fresh
<1>3. RunInv'
  BY DEF ImportInv, Types, RunInv, CallInv, Whole, All, Untouched, Fresh
<1>4. OwedInv'
  BY DEF ImportInv, Types, RunInv, OwedInv, CallInv
<1> QED
  BY <1>1, <1>2, <1>3, <1>4 DEF ImportInv

LEMMA ReplacesKeeps ==
    ASSUME ImportInv, Replaces
    PROVE  ImportInv'
<1> USE Constants DEF callVars, downloadVars, diskVars, historyVars, GoTo, At, Replaces
<1>1. Types'
  BY DEF ImportInv, Types, Pcs
<1>2. ASSUME NEW d \in Calls PROVE CallInv(d)'
  BY DEF ImportInv, Types, RunInv, CallInv, Whole, All, Untouched, Fresh
<1>3. RunInv'
  BY DEF ImportInv, Types, RunInv, CallInv, Whole, All, Untouched, Fresh
<1>4. OwedInv'
  BY DEF ImportInv, Types, RunInv, OwedInv, CallInv
<1> QED
  BY <1>1, <1>2, <1>3, <1>4 DEF ImportInv

LEMMA LinksKeeps ==
    ASSUME ImportInv, Links
    PROVE  ImportInv'
<1> USE Constants DEF callVars, downloadVars, diskVars, historyVars, GoTo, At, Links
<1>1. Types'
  BY DEF ImportInv, Types, Pcs
<1>2. ASSUME NEW d \in Calls PROVE CallInv(d)'
  BY DEF ImportInv, Types, RunInv, CallInv, Whole, All, Untouched, Fresh
<1>3. RunInv'
  BY DEF ImportInv, Types, RunInv, CallInv, Whole, All, Untouched, Fresh
<1>4. OwedInv'
  BY DEF ImportInv, Types, RunInv, OwedInv, CallInv
<1> QED
  BY <1>1, <1>2, <1>3, <1>4 DEF ImportInv

LEMMA UnlinksKeeps ==
    ASSUME ImportInv, Unlinks
    PROVE  ImportInv'
<1> USE Constants DEF callVars, downloadVars, diskVars, historyVars, GoTo, At, Unlinks, Unlinked
<1>1. Types'
  BY DEF ImportInv, Types, Pcs
<1>2. ASSUME NEW d \in Calls PROVE CallInv(d)'
  BY DEF ImportInv, Types, RunInv, CallInv, Whole, All, Untouched, Fresh
<1>3. RunInv'
  BY DEF ImportInv, Types, RunInv, CallInv, Whole, All, Untouched, Fresh
<1>4. OwedInv'
  BY DEF ImportInv, Types, RunInv, OwedInv, CallInv
<1> QED
  BY <1>1, <1>2, <1>3, <1>4 DEF ImportInv

LEMMA SyncsDirKeeps ==
    ASSUME ImportInv, SyncsDir
    PROVE  ImportInv'
<1> USE Constants DEF callVars, downloadVars, diskVars, historyVars, GoTo, At, SyncsDir, Ends
<1>1. Types'
  BY DEF ImportInv, Types, Pcs
<1>2. ASSUME NEW d \in Calls PROVE CallInv(d)'
  BY DEF ImportInv, Types, RunInv, CallInv, Whole, All, Untouched, Fresh
<1>3. RunInv'
  BY DEF ImportInv, Types, RunInv, CallInv, Whole, All, Untouched, Fresh
<1>4. OwedInv'
  BY DEF ImportInv, Types, RunInv, OwedInv, CallInv
<1> QED
  BY <1>1, <1>2, <1>3, <1>4 DEF ImportInv

LEMMA SyncDirFailsKeeps ==
    ASSUME ImportInv, SyncDirFails
    PROVE  ImportInv'
<1> USE Constants DEF callVars, downloadVars, diskVars, historyVars, GoTo, At, SyncDirFails,
                  Raises, Ends, Unlinked
<1>1. Types'
  BY DEF ImportInv, Types, Pcs
<1>2. ASSUME NEW d \in Calls PROVE CallInv(d)'
  BY DEF ImportInv, Types, RunInv, CallInv, Whole, All, Untouched, Fresh
<1>3. RunInv'
  BY DEF ImportInv, Types, RunInv, CallInv, Whole, All, Untouched, Fresh
<1>4. OwedInv'
  BY DEF ImportInv, Types, RunInv, OwedInv, CallInv
<1> QED
  BY <1>1, <1>2, <1>3, <1>4 DEF ImportInv

LEMMA OthersChangeKeeps ==
    ASSUME ImportInv, NEW file \in {Foreign, NoFile}, OthersChange(file)
    PROVE  ImportInv'
<1> USE Constants DEF callVars, downloadVars, diskVars, historyVars, GoTo, At, OthersChange
<1>1. Types'
  BY DEF ImportInv, Types, Pcs
<1>2. ASSUME NEW d \in Calls PROVE CallInv(d)'
  BY DEF ImportInv, Types, RunInv, CallInv, Whole, All, Untouched, Fresh
<1>3. RunInv'
  BY DEF ImportInv, Types, RunInv, CallInv, Whole, All, Untouched, Fresh
<1>4. OwedInv'
  BY DEF ImportInv, Types, RunInv, OwedInv, CallInv
<1> QED
  BY <1>1, <1>2, <1>3, <1>4 DEF ImportInv

LEMMA OthersRemoveKeeps ==
    ASSUME ImportInv, NEW c \in Calls, OthersRemove(c)
    PROVE  ImportInv'
<1> USE Constants DEF callVars, downloadVars, diskVars, historyVars, GoTo, At, OthersRemove
<1>1. Types'
  BY DEF ImportInv, Types, Pcs
<1>2. ASSUME NEW d \in Calls PROVE CallInv(d)'
  BY DEF ImportInv, Types, RunInv, CallInv, Whole, All, Untouched, Fresh
<1>3. RunInv'
  BY DEF ImportInv, Types, RunInv, CallInv, Whole, All, Untouched, Fresh
<1>4. OwedInv'
  BY DEF ImportInv, Types, RunInv, OwedInv, CallInv
<1> QED
  BY <1>1, <1>2, <1>3, <1>4 DEF ImportInv

LEMMA KilledKeeps ==
    ASSUME ImportInv, ChildKilled
    PROVE  ImportInv'
<1> USE Constants DEF callVars, downloadVars, diskVars, historyVars, GoTo, At, ChildKilled, Lost
<1>1. Types'
  BY DEF ImportInv, Types, Pcs
<1>2. ASSUME NEW d \in Calls PROVE CallInv(d)'
  BY DEF ImportInv, Types, RunInv, CallInv, Whole, All, Untouched, Fresh
<1>3. RunInv'
  BY DEF ImportInv, Types, RunInv, CallInv, Whole, All, Untouched, Fresh
<1>4. OwedInv'
  BY DEF ImportInv, Types, RunInv, OwedInv, CallInv
<1> QED
  BY <1>1, <1>2, <1>3, <1>4 DEF ImportInv

LEMMA PowerFailsKeeps ==
    ASSUME ImportInv, NEW entries, NEW files, PowerFails(entries, files)
    PROVE  ImportInv'
<1> USE Constants DEF callVars, downloadVars, diskVars, historyVars, GoTo, At, PowerFails, Lost
<1>1. Types'
  BY DEF ImportInv, Types, Pcs
<1>2. ASSUME NEW d \in Calls PROVE CallInv(d)'
  BY DEF ImportInv, Types, RunInv, CallInv, Whole, All, Untouched, Fresh
<1>3. RunInv'
  BY DEF ImportInv, Types, RunInv, CallInv, Whole, All, Untouched, Fresh
<1>4. OwedInv'
  BY DEF ImportInv, Types, RunInv, OwedInv, CallInv
<1> QED
  BY <1>1, <1>2, <1>3, <1>4 DEF ImportInv

LEMMA InvStutters ==
    ASSUME ImportInv, UNCHANGED vars
    PROVE  ImportInv'
BY DEF vars, callVars, downloadVars, diskVars, historyVars, ImportInv, Types, CallInv, RunInv,
       OwedInv, Whole, All, Untouched, Fresh

LEMMA InvInductive ==
    ASSUME ImportInv, [Next]_vars
    PROVE  ImportInv'
BY InvStutters, BeginsKeeps, RefusedKeeps, RedirectedKeeps, OpenFailsKeeps, AcceptedKeeps,
   ReadsKeeps, ReadsEndKeeps, ReadFailsKeeps, SyncsKeeps, ComparesKeeps, ReplacesKeeps,
   LinksKeeps, UnlinksKeeps, SyncsDirKeeps, SyncDirFailsKeeps, OthersChangeKeeps,
   OthersRemoveKeeps, KilledKeeps, PowerFailsKeeps DEF Next, Child, Others

LEMMA BooleansInductive ==
    ASSUME Booleans, [Next]_vars
    PROVE  Booleans'
<1> USE DEF Booleans, callVars, diskVars, historyVars
<1>1. ASSUME NEW c \in Calls, NEW ow \in BOOLEAN, ImportBegins(c, ow) PROVE Booleans'
  BY <1>1 DEF ImportBegins
<1>2. CASE (\E c \in Calls : ImportRefused(c)) \/ Redirected
  BY <1>2 DEF ImportRefused, Redirected
<1>3. CASE \/ \E n \in Sizes, announces \in BOOLEAN : Accepted(n, announces)
           \/ ReadsEnd \/ Syncs \/ Replaces \/ Links \/ Unlinks
  BY <1>3 DEF Accepted, ReadsEnd, Syncs, Replaces, Links, Unlinks, GoTo
<1>4. CASE OpenFails \/ ReadFails \/ PublishFails \/ SyncsDir \/ SyncDirFails
  <2>1. overwrite' = FALSE /\ UNCHANGED outage
    BY <1>4 DEF OpenFails, ReadFails, PublishFails, SyncsDir, SyncDirFails, Raises, Ends
  <2> QED
    BY <2>1
<1>5. CASE Reads \/ Compares
  <2>1. overwrite' \in {FALSE, overwrite} /\ UNCHANGED outage
    BY <1>5 DEF Reads, Compares, Raises, Ends, GoTo
  <2> QED
    BY <2>1
<1>6. CASE \/ \E file \in {Foreign, NoFile} : OthersChange(file)
           \/ \E c \in Calls : OthersRemove(c)
  BY <1>6 DEF OthersChange, OthersRemove
<1>7. CASE ChildKilled
  <2>1. overwrite' = FALSE /\ UNCHANGED outage
    BY <1>7 DEF ChildKilled, Lost
  <2> QED
    BY <2>1
<1>8. ASSUME NEW entries, NEW files, PowerFails(entries, files) PROVE Booleans'
  <2>1. overwrite' = FALSE /\ outage' = TRUE
    BY <1>8 DEF PowerFails, Lost
  <2> QED
    BY <2>1
<1>9. CASE UNCHANGED vars
  BY <1>9 DEF vars
<1> QED
  BY <1>1, <1>2, <1>3, <1>4, <1>5, <1>6, <1>7, <1>8, <1>9 DEF Next, Child, Others

LEMMA ImportInvariant == Spec => [](ImportInv /\ Booleans)
BY ImportInvInit, InvInductive, BooleansInductive, PTL DEF Spec

LEMMA InvIsTyped == ImportInv /\ Booleans => TypeOK
<1>1. ASSUME Types PROVE (pc = "idle") = (call = NoCall)
  BY <1>1 DEF Types
<1> QED
  BY <1>1 DEF ImportInv, Types, Booleans, TypeOK

THEOREM Import_TypeCorrect == Spec => []TypeOK
BY ImportInvariant, InvIsTyped, PTL

\* What a reader finds at the destination is all of an import, never a part of what its
\* response announced; or, if it announced no length, all that came before the end of the
\* stream.
THEOREM Never_Partial == Spec => []NeverPartial
<1>1. ImportInv => NeverPartial
  BY DEF ImportInv, CallInv, Whole, NeverPartial
<1> QED
  BY <1>1, ImportInvariant, PTL

\* A success survives every power failure until the destination is written again.
THEOREM Success_IsDurable == Spec => []SuccessIsDurable
<1>1. ImportInv => SuccessIsDurable
  BY DEF ImportInv, Types, CallInv, OwedInv, Whole, SuccessIsDurable
<1> QED
  BY <1>1, ImportInvariant, PTL

THEOREM No_TempLeft == Spec => []NoTempLeft
<1>1. ImportInv => NoTempLeft
  BY DEF ImportInv, CallInv, Fresh, NoTempLeft
<1> QED
  BY <1>1, ImportInvariant, PTL

THEOREM Error_MeansUnpublished == Spec => []ErrorMeansUnpublished
<1>1. ImportInv => ErrorMeansUnpublished
  BY DEF ImportInv, CallInv, ErrorMeansUnpublished
<1> QED
  BY <1>1, ImportInvariant, PTL

(***************************************************************************)
(* The steps of an import as one.                                          *)
(***************************************************************************)

\* Steps that leave the destination, its copy on disk and the replies alone.
Quiet == dir'[Target] = dir[Target] /\ diskDir'[Target] = diskDir[Target]
         /\ UNCHANGED <<published, reply>>

\* A call that has published nothing, or nothing that lasts, ends.
Silent(c, how) ==
    /\ reply[c] = "none" /\ reply' = [reply EXCEPT ![c] = how]
    /\ dir'[Target] = dir[Target] /\ diskDir'[Target] = diskDir[Target] /\ UNCHANGED published

LEMMA RaisesSilently ==
    ASSUME ImportInv, call # NoCall, Raises, UNCHANGED <<diskDir, published>>
    PROVE  call \in Calls /\ Silent(call, "error")
BY Constants DEF ImportInv, Types, RunInv, Raises, Ends, Unlinked, Silent

\* What every step is to somebody who only sees the destination and the replies.
LEMMA StepShape ==
    ASSUME ImportInv, Next
    PROVE  \/ Quiet
           \/ \E c \in Calls, how \in {"error", "lost"} : Silent(c, how)
           \/ Replaces \/ Links \/ SyncsDir
           \/ \E file \in {Foreign, NoFile} : OthersChange(file)
           \/ \E entries, files : PowerFails(entries, files)
<1> USE Constants DEF callVars, downloadVars, diskVars, historyVars, At
<1>1. ASSUME NEW c \in Calls, ImportRefused(c) PROVE Silent(c, "error")
  BY <1>1 DEF ImportRefused, Silent
<1>2. CASE OpenFails
  <2>1. call \in Calls /\ Silent(call, "error")
    BY <1>2 DEF OpenFails, Ends, ImportInv, Types, RunInv, Silent
  <2> QED
    BY <2>1
<1>3. CASE ReadFails \/ PublishFails \/ SyncDirFails
  <2>1. call # NoCall /\ Raises /\ UNCHANGED <<diskDir, published>>
    BY <1>3 DEF ReadFails, PublishFails, SyncDirFails
  <2> QED
    BY <2>1, RaisesSilently
<1>4. CASE Reads \/ Compares
  <2>1. CASE Raises
    <3>1. call # NoCall /\ UNCHANGED <<diskDir, published>>
      BY <1>4 DEF Reads, Compares
    <3> QED
      BY <2>1, <3>1, RaisesSilently
  <2>2. CASE ~ Raises
    BY <1>4, <2>2 DEF Reads, Compares, Quiet
  <2> QED
    BY <2>1, <2>2
<1>5. CASE \/ \E c \in Calls, ow \in BOOLEAN : ImportBegins(c, ow)
           \/ Redirected \/ ReadsEnd \/ Syncs
  BY <1>5 DEF ImportBegins, Redirected, ReadsEnd, Syncs, Quiet
<1>6. CASE (\E n \in Sizes, announces \in BOOLEAN : Accepted(n, announces)) \/ Unlinks
  BY <1>6 DEF Accepted, Unlinks, Unlinked, Quiet, ImportInv, Types
<1>7. ASSUME NEW c \in Calls, OthersRemove(c) PROVE Quiet
  BY <1>7 DEF OthersRemove, Quiet, ImportInv, Types
<1>8. CASE ChildKilled
  <2>1. call \in Calls /\ Silent(call, "lost")
    BY <1>8 DEF ChildKilled, Lost, ImportInv, Types, RunInv, Silent
  <2> QED
    BY <2>1
<1> QED
  BY <1>1, <1>2, <1>3, <1>4, <1>5, <1>6, <1>7, <1>8 DEF Next, Child, Others

\* Without overwrite a call replaces nothing, however late the other file appears.
THEOREM Never_Replaces == Spec => NeverReplaces
<1>1. ASSUME ImportInv, [Next]_vars, call # NoCall, ~ overwrite, dir'[Target] = call,
             dir[Target] # call
      PROVE  dir[Target] = NoFile
  <2>1. Next
    BY <1>1 DEF vars
  <2>2. ~ Quiet /\ ~ \E c \in Calls, how \in {"error", "lost"} : Silent(c, how)
    BY <1>1 DEF Quiet, Silent
  <2>3. ~ Replaces /\ ~ SyncsDir
    BY <1>1 DEF Replaces, SyncsDir
  <2>4. ~ \E file \in {Foreign, NoFile} : OthersChange(file)
    BY <1>1, Constants DEF OthersChange, ImportInv, Types
  <2>5. ~ \E entries, files : PowerFails(entries, files)
    <3> SUFFICES ASSUME NEW entries, NEW files, PowerFails(entries, files) PROVE FALSE
      OBVIOUS
    <3>1. dir'[Target] \in {dir[Target], diskDir[Target]}
      BY Constants DEF PowerFails
    <3> QED
      BY <1>1, <3>1 DEF ImportInv, RunInv
  <2>6. Links
    BY <1>1, <2>1, <2>2, <2>3, <2>4, <2>5, StepShape
  <2> QED
    BY <2>6 DEF Links
<1>2. ImportInv /\ [Next]_vars =>
        [call # NoCall /\ ~ overwrite /\ dir'[Target] = call /\ dir[Target] # call
            => dir[Target] = NoFile]_vars
  BY <1>1
<1> QED
  BY <1>2, ImportInvariant, PTL DEF NeverReplaces, Spec

\* The abstract state: what is shown is never torn.
File == Shown(dir, written)
Disk == Shown(diskDir, stable)

LEMMA ShownIs ==
    ASSUME ImportInv
    PROVE  File = dir[Target] /\ Disk = diskDir[Target]
BY DEF ImportInv, CallInv, Whole, File, Disk, Shown

LEMMA ShownWillBe ==
    ASSUME ImportInv'
    PROVE  File' = dir'[Target] /\ Disk' = diskDir'[Target]
BY DEF ImportInv, CallInv, Whole, File, Disk, Shown

LEMMA AtomicStep ==
    ASSUME ImportInv, ImportInv', Next
    PROVE  [Atomic!Next]_<<File, Disk, published, reply>>
<1> USE Constants
<1>0. /\ File = dir[Target] /\ Disk = diskDir[Target]
      /\ File' = dir'[Target] /\ Disk' = diskDir'[Target]
  BY ShownIs, ShownWillBe
<1>1. CASE Quiet
  BY <1>0, <1>1 DEF Quiet
<1>2. ASSUME NEW c \in Calls, NEW how \in {"error", "lost"}, Silent(c, how)
      PROVE  Atomic!Fail(c, how)
  BY <1>0, <1>2 DEF Silent, Atomic!Fail, File, Disk
<1>3. CASE Replaces \/ Links
  <2>1. /\ call \in Calls /\ reply[call] = "none" /\ call \notin published
        /\ dir'[Target] = call /\ published' = published \union {call}
        /\ UNCHANGED <<diskDir, reply>>
    BY <1>3 DEF Replaces, Links, At, diskVars, ImportInv, Types, RunInv
  <2>2. Atomic!Publish(call)
    BY <1>0, <2>1 DEF Atomic!Publish, File, Disk
  <2> QED
    BY <2>1, <2>2 DEF Atomic!Next
<1>4. CASE SyncsDir
  <2>1. /\ call \in Calls /\ reply[call] = "none" /\ call \in published
        /\ reply' = [reply EXCEPT ![call] = "ok"]
        /\ diskDir'[Target] = dir[Target] /\ UNCHANGED <<dir, published>>
    BY <1>4 DEF SyncsDir, Ends, At, ImportInv, Types, RunInv
  <2>2. Atomic!Succeed(call)
    BY <1>0, <2>1 DEF Atomic!Succeed, File, Disk
  <2> QED
    BY <2>1, <2>2 DEF Atomic!Next
<1>5. ASSUME NEW file \in {Foreign, NoFile}, OthersChange(file)
      PROVE  Atomic!OthersWrite(file)
  <2>1. dir'[Target] = file /\ UNCHANGED <<diskDir, published, reply>>
    BY <1>5 DEF OthersChange, diskVars, ImportInv, Types
  <2> QED
    BY <1>0, <2>1 DEF Atomic!OthersWrite, File, Disk
<1>6. ASSUME NEW entries, NEW files, PowerFails(entries, files)
      PROVE  \/ Atomic!PowerFails(reply)
             \/ \E c \in Calls : reply[c] = "none" /\ Atomic!PowerFails([reply EXCEPT ![c] = "lost"])
  <2>1. /\ dir'[Target] \in {dir[Target], diskDir[Target]} /\ diskDir' = dir'
        /\ UNCHANGED published
    BY <1>6 DEF PowerFails
  <2>2. ASSUME NEW after, reply' = after PROVE Atomic!PowerFails(after)
    BY <1>0, <2>1, <2>2 DEF Atomic!PowerFails, File, Disk
  <2>3. CASE call = NoCall
    BY <1>6, <2>2, <2>3 DEF PowerFails, Lost
  <2>4. CASE call # NoCall
    <3>1. call \in Calls /\ reply[call] = "none" /\ reply' = [reply EXCEPT ![call] = "lost"]
      BY <1>6, <2>4 DEF PowerFails, Lost, ImportInv, Types, RunInv
    <3> QED
      BY <2>2, <3>1
  <2> QED
    BY <2>3, <2>4
<1>7. Foreign = Atomic!Foreign /\ NoFile = Atomic!NoFile
  BY DEF Foreign, NoFile, Atomic!Foreign, Atomic!NoFile
<1> QED
  BY <1>1, <1>2, <1>3, <1>4, <1>5, <1>6, <1>7, StepShape DEF Atomic!Next

\* All the steps of an import together are one write, and one reply that follows it.
THEOREM Import_ImplementsAtomic == Spec => ImplementsAtomicImport
<1>1. Init => Atomic!Init
  <2>1. ASSUME Init PROVE File = dir[Target] /\ Disk = dir[Target]
                          /\ dir[Target] \in {Foreign, NoFile}
    <3>1. ImportInv /\ diskDir = dir
      BY <2>1, ImportInvInit DEF Init
    <3> QED
      BY <2>1, <3>1, ShownIs, Constants DEF Init
  <2> QED
    BY <2>1 DEF Init, Atomic!Init, Atomic!Foreign, Atomic!NoFile, Foreign, NoFile, File, Disk
<1>2. ImportInv /\ ImportInv' /\ [Next]_vars => [Atomic!Next]_<<File, Disk, published, reply>>
  <2>1. UNCHANGED vars => UNCHANGED <<File, Disk, published, reply>>
    BY DEF vars, downloadVars, historyVars, diskVars, File, Disk, Shown, All
  <2> QED
    BY <2>1, AtomicStep
<1> QED
  BY <1>1, <1>2, ImportInvariant, PTL
     DEF Spec, ImplementsAtomicImport, Atomic!Spec, Atomic!avars, File, Disk

(***************************************************************************)
(* The export.  Beside it, imports and the others do what FileImport lets  *)
(* them do, so that all theorems above hold of ExportSpec as well.  A read *)
(* of an import's file finds the file as it was published, and a link is   *)
(* true of the destination until somebody touches it.                      *)
(***************************************************************************)

LEMMA ExportStepsAllowed ==
    ASSUME ImportInv, [ExportNext]_xvars
    PROVE  [Next]_vars
<1>1. CASE ExportStep
  BY <1>1 DEF ExportStep, ExportPrepared, ReadBegins, ReadOpens, ReadsChunk, ReadEnds,
              ExportFails, Exported
<1>2. CASE ImportStep \/ OthersStep \/ PowerStep
  BY <1>2 DEF ImportStep, OthersStep, PowerStep, Next, Others
<1>3. ASSUME NEW n \in Sizes, OthersWrite(n) PROVE [Next]_vars
  <2>1. CASE dir[Target] = Foreign
    <3>1. owed = NoCall
      BY <2>1, Constants DEF ImportInv, OwedInv, Types
    <3>2. dir' = dir
      BY <1>3, <2>1 DEF OthersWrite, ImportInv, Types
    <3> QED
      BY <1>3, <3>1, <3>2 DEF OthersWrite, vars, historyVars
  <2>2. CASE dir[Target] # Foreign
    BY <1>3, <2>2 DEF OthersWrite, OthersChange, Next, Others
  <2> QED
    BY <2>1, <2>2
<1>4. CASE UNCHANGED xvars
  BY <1>4 DEF xvars
<1> QED
  BY <1>1, <1>2, <1>3, <1>4 DEF ExportNext

LEMMA ExportAllowed == ExportSpec => Spec /\ [](ImportInv /\ Booleans)
<1>1. ExportInit => Init
  BY DEF ExportInit
<1>2. ExportInit => ImportInv /\ Booleans
  BY <1>1, ImportInvInit
<1>3. ImportInv /\ Booleans /\ [ExportNext]_xvars => (ImportInv /\ Booleans)'
  BY ExportStepsAllowed, InvInductive, BooleansInductive
<1>4. ImportInv /\ [ExportNext]_xvars => [Next]_vars
  BY ExportStepsAllowed
<1> QED
  BY <1>1, <1>2, <1>3, <1>4, PTL DEF ExportSpec, Spec

\* An export leaves the imports as they are: every behaviour with exports is one of
\* FileImport, and what is proved of the imports holds beside exports too.
THEOREM Export_KeepsImports == ExportSpec => Spec
BY ExportAllowed, PTL

ExportTypes ==
    /\ at \in {"idle", "found", "reading", "answer"}
    /\ link \in 0 .. MaxChunks \union {NoLength}
    /\ source \in Files /\ size \in Sizes /\ got \in Sizes

\* The link is true of the file at the destination.
LinkInv == link # NoLength /\ dir[Target] \in Calls => link = written[dir[Target]]

\* Of the file that is being read, and of what was read.
ReadInv ==
    /\ at = "reading" /\ source \in Calls =>
         size = All(source) /\ size <= MaxChunks /\ got <= size
    /\ at = "reading" /\ link # NoLength => size = link /\ got <= size
    /\ at = "answer" /\ link # NoLength => got = link

ExportInv == ExportTypes /\ LinkInv /\ ReadInv

LEMMA ExportInvInit == ExportInit => ExportInv
BY Constants DEF ExportInit, ExportInv, ExportTypes, LinkInv, ReadInv

\* What an import has published is not written to any more.
LEMMA PublishedKept ==
    ASSUME ImportInv, Child \/ ChildKilled, NEW c \in Calls, dir[Target] = c
    PROVE  written'[c] = written[c]
<1>1. ASSUME Reads PROVE written'[c] = written[c]
  <2>1. call \in Calls /\ c # call
    BY <1>1 DEF Reads, At, ImportInv, Types, RunInv, CallInv
  <2> QED
    BY <1>1, <2>1 DEF Reads, ImportInv, Types
<1>2. ASSUME ~ Reads PROVE written' = written
  BY <1>2 DEF Child, ImportBegins, ImportRefused, Redirected, OpenFails, Accepted, ReadsEnd,
              ReadFails, Syncs, Compares, Replaces, Links, PublishFails, Unlinks, SyncsDir,
              SyncDirFails, ChildKilled
<1> QED
  BY <1>1, <1>2

LEMMA ExportStepKeeps ==
    ASSUME ImportInv, ExportInv, ExportStep
    PROVE  ExportInv'
<1> USE Constants DEF ExportInv, ExportTypes, LinkInv, ReadInv, All, downloadVars
<1>1. UNCHANGED vars
  BY DEF ExportStep, ExportPrepared, ReadBegins, ReadOpens, ReadsChunk, ReadEnds, ExportFails,
         Exported
<1>2. UNCHANGED <<dir, written, downloadVars>>
  BY <1>1 DEF vars
<1>3. ASSUME NEW n \in Sizes, ExportPrepared(n) PROVE ExportInv'
  BY <1>2, <1>3 DEF ExportPrepared, ChildIdle, Prepared, SizesNow
<1>4. ASSUME NEW n \in Sizes, ReadBegins(n) PROVE ExportInv'
  BY <1>2, <1>4 DEF ReadBegins
<1>5. ASSUME NEW n \in Sizes, ReadOpens(n) PROVE ExportInv'
  <2>1. dir[Target] \in Files
    BY DEF ImportInv, Types
  <2>2. ASSUME dir[Target] \in Calls PROVE n = All(dir[Target]) /\ n <= MaxChunks
    BY <1>5, <2>2 DEF ReadOpens, SizesNow, ImportInv, CallInv, Whole
  <2>3. ASSUME link # NoLength PROVE n = link
    BY <1>5, <2>1, <2>3 DEF ReadOpens, SizesNow, Files
  <2> QED
    BY <1>2, <1>5, <2>1, <2>2, <2>3 DEF ReadOpens
<1>6. CASE ReadsChunk
  BY <1>2, <1>6 DEF ReadsChunk, ReadLimit
<1>7. CASE ReadEnds
  BY <1>2, <1>7 DEF ReadEnds, ReadLimit, Closed
<1>8. CASE ExportFails \/ Exported
  BY <1>2, <1>8 DEF ExportFails, Exported, Closed
<1> QED
  BY <1>3, <1>4, <1>5, <1>6, <1>7, <1>8 DEF ExportStep

LEMMA BesideKeeps ==
    ASSUME ImportInv, ExportInv, ImportStep \/ OthersStep
    PROVE  ExportInv'
<1> USE Constants DEF ExportInv, ExportTypes, LinkInv, ReadInv, All, downloadVars
<1>1. Beside
  BY DEF ImportStep, OthersStep
<1>2. at # "idle" => UNCHANGED downloadVars
  BY DEF ImportStep, OthersStep, OthersChange, OthersRemove, ChildKilled
<1>3. dir'[Target] = dir[Target] /\ dir[Target] \in Calls
        => written'[dir[Target]] = written[dir[Target]]
  BY PublishedKept DEF ImportStep, OthersStep, OthersChange, OthersRemove
<1> QED
  BY <1>1, <1>2, <1>3 DEF Beside

LEMMA OthersWriteKeeps ==
    ASSUME ImportInv, ExportInv, NEW n \in Sizes, OthersWrite(n)
    PROVE  ExportInv'
<1>1. dir'[Target] = Foreign /\ link' = NoLength /\ UNCHANGED <<at, got, downloadVars>>
  BY Constants DEF OthersWrite, ImportInv, Types
<1>2. (source' = Foreign /\ size' = n) \/ UNCHANGED <<source, size>>
  BY DEF OthersWrite
<1> QED
  BY <1>1, <1>2, Constants DEF ExportInv, ExportTypes, LinkInv, ReadInv, All, downloadVars

LEMMA ExportInvInductive ==
    ASSUME ImportInv, ExportInv, [ExportNext]_xvars
    PROVE  ExportInv'
<1>1. CASE PowerStep
  BY <1>1, Constants DEF PowerStep, Closed, ExportInv, ExportTypes, LinkInv, ReadInv
<1>2. CASE UNCHANGED xvars
  BY <1>2 DEF xvars, vars, downloadVars, exportVars, ExportInv, ExportTypes, LinkInv, ReadInv,
              All
<1> QED
  BY <1>1, <1>2, ExportStepKeeps, BesideKeeps, OthersWriteKeeps DEF ExportNext

LEMMA ExportInvariant == ExportSpec => [](ImportInv /\ Booleans /\ ExportInv)
BY ExportInvInit, ExportInvInductive, ExportAllowed, PTL DEF ExportSpec

\* Every variable of imports and exports has its type.
THEOREM Export_TypeCorrect == ExportSpec => []ExportTypeOK
<1>1. ImportInv /\ Booleans /\ ExportInv => ExportTypeOK
  BY InvIsTyped DEF ExportInv, ExportTypes, ExportTypeOK
<1> QED
  BY <1>1, ExportInvariant, PTL

\* What the caller gets was not cut off, and of an import's file all is exported.
THEOREM Export_IsWhole == ExportSpec => ExportIsWhole
<1>1. ExportInv /\ [ExportNext]_xvars =>
        [at = "reading" /\ at' = "answer" =>
           /\ size <= got /\ got <= MaxChunks
           /\ source \in Calls => got = All(source)]_xvars
  <2> SUFFICES ASSUME ExportInv, ExportNext, at = "reading", at' = "answer"
               PROVE  /\ size <= got /\ got <= MaxChunks
                      /\ source \in Calls => got = All(source)
    OBVIOUS
  <2>1. ReadEnds
    BY DEF ExportNext, ExportStep, ExportPrepared, ReadBegins, ReadOpens, ReadsChunk,
           ExportFails, Exported, ImportStep, OthersStep, Beside, OthersWrite, PowerStep
  <2> QED
    BY <2>1, Constants DEF ReadEnds, ReadLimit, ExportInv, ExportTypes, ReadInv
<1> QED
  BY <1>1, ExportInvariant, PTL DEF ExportSpec, ExportIsWhole

\* The size in the link is the size of the export, unless somebody wrote the file since.
THEOREM Link_SizeHolds == ExportSpec => []LinkSizeHolds
<1>1. ExportInv => LinkSizeHolds
  BY DEF ExportInv, ReadInv, LinkSizeHolds
<1> QED
  BY <1>1, ExportInvariant, PTL

\* With exports of the destination beside them, and writers that change it while it is
\* read, imports keep every promise.
THEOREM Export_KeepsPromises ==
    ExportSpec => /\ []NeverPartial
                  /\ []SuccessIsDurable
                  /\ []NoTempLeft
                  /\ []ErrorMeansUnpublished
                  /\ NeverReplaces
                  /\ ImplementsAtomicImport
BY Export_KeepsImports, Never_Partial, Success_IsDurable, No_TempLeft, Error_MeansUnpublished,
   Never_Replaces, Import_ImplementsAtomic, PTL

=============================================================================
