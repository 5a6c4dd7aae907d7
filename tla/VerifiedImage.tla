--------------------------- MODULE VerifiedImage ---------------------------
(***************************************************************************)
(* Where the bytes of an image come from: download.py fetches a digest, a  *)
(* signature and the image, verifies before it moves the file into place,  *)
(* and verifies a file that is there already instead of fetching it; the   *)
(* controller records what was verified and hashes it again before dd      *)
(* opens it.  The window and command-line runs are processes of their own  *)
(* that share the download directory, and whose operator may put another   *)
(* file there.                                                             *)
(*                                                                         *)
(* The image of a release, its digest and its signature are all written as *)
(* the release.  Junk is any other content, the digest of such content, a  *)
(* signature that does not verify.                                         *)
(***************************************************************************)
EXTENDS Integers, Sequences, FiniteSets

CONSTANTS
    Image,          \* releases; a file is named after the release it is for
    Gui,            \* the window
    Cli,            \* command-line runs
    Found,          \* what may be at a path when everything starts
    MaxChanges,     \* other files put in place by hand
    MaxPicks        \* paths the operator enters in the window

Junk == "junk"
Nothing == "nothing"
Folder == "folder"

ASSUME ImageAssumption ==
    /\ Gui \notin Cli /\ MaxChanges \in Nat /\ MaxPicks \in Nat
    /\ Image \cap {Junk, Nothing, Folder} = {}

Session == {Gui} \cup Cli
Path == Image
Bytes == Image \cup {Junk}
Content == Bytes \cup {Nothing, Folder}

ASSUME FoundAssumption == Found \subseteq Content

VARIABLES
    file,           \* what is at each path of the download directory
    pc,             \* where each session is
    want,           \* the release of its image URL
    path,           \* its destination, or the local image it is given
    digest,         \* the digest it expects
    signature,      \* the signature it has
    part,           \* its own temporary file
    record,         \* state.verified_image_path, _sha256 and the signature
    target,         \* the image it is about to write
    opened,         \* what dd was given
    chosen,         \* image_path_var
    jobs,           \* local checksums being computed, by _checksum_job_id
    checksum,       \* local_checksum_var: the path it was computed from
    changes,        \* files put in place by hand so far
    altered,        \* history: the session's file was changed since it looked
    late            \* history: ... since it was hashed for the write

sessionVars == <<pc, want, path, digest, signature, part, record, target, opened>>
windowVars == <<chosen, jobs, checksum>>
imageVars == <<file, pc, want, path, digest, signature, part, record, target, opened,
               chosen, jobs, checksum, changes, altered, late>>

NoRecord == [path |-> Nothing, sha256 |-> Nothing, signature |-> Nothing]

Stage == {"idle", "metadata", "signing", "looking", "loading", "hashing", "checking",
          "promoting", "verified", "failing", "ready", "failed", "planning",
          "refused", "written", "killed"}
InDownload == {"metadata", "signing", "looking", "loading", "hashing", "checking",
               "promoting", "failing", "verified"}
Over == {"failed", "refused", "written", "killed"}

ImageInit ==
    /\ file \in [Path -> Found]
    /\ pc = [s \in Session |-> "idle"]
    /\ want = [s \in Session |-> Nothing]
    /\ path = [s \in Session |-> Nothing] /\ target = [s \in Session |-> Nothing]
    /\ digest = [s \in Session |-> Nothing] /\ signature = [s \in Session |-> Nothing]
    /\ part = [s \in Session |-> Nothing] /\ opened = [s \in Session |-> Nothing]
    /\ record = [s \in Session |-> NoRecord]
    /\ chosen = Nothing /\ jobs = << >> /\ checksum = Nothing
    /\ changes = 0
    /\ altered = [s \in Session |-> FALSE] /\ late = [s \in Session |-> FALSE]

Goto(s, stage) == pc' = [pc EXCEPT ![s] = stage]

(* Content c appears at p by the hand of somebody other than the sessions  *)
(* in except.                                                              *)
PutFile(p, c, except) ==
    /\ file' = [file EXCEPT ![p] = c]
    /\ altered' = [s \in Session |->
                     \/ altered[s]
                     \/ pc[s] \notin Over /\ s \notin except /\ path[s] = p /\ file[p] # c]
    /\ late' = [s \in Session |->
                  late[s] \/ (pc[s] = "planning" /\ target[s] = p /\ file[p] # c)]

(* The request, the digest and the signature are gone when download        *)
(* returns, raises or is killed.                                           *)
Forget(s) ==
    /\ want' = [want EXCEPT ![s] = Nothing]
    /\ digest' = [digest EXCEPT ![s] = Nothing]
    /\ signature' = [signature EXCEPT ![s] = Nothing]

ForgetPath(s) ==
    /\ path' = [path EXCEPT ![s] = Nothing]
    /\ altered' = [altered EXCEPT ![s] = FALSE]

-----------------------------------------------------------------------------
(***************************************************************************)
(* VerifiedImageDownloader.download.                                       *)
(***************************************************************************)

Ask(s, v, destination) ==
    /\ pc[s] = "idle"
    /\ want' = [want EXCEPT ![s] = v]
    /\ path' = [path EXCEPT ![s] = destination]
    /\ altered' = [altered EXCEPT ![s] = FALSE]

(* The three URLs of the window were read one by one (Catalog), so those   *)
(* of the checksum and the signature may be of any release.                *)
Published(s) == IF s = Gui THEN Image ELSE {want[s]}

(* The window names the file by the image URL, and drops the record of an  *)
(* earlier verification.                                                   *)
StartFromWindow ==
    /\ \E v \in Image : Ask(Gui, v, v)
    /\ Goto(Gui, "metadata")
    /\ record' = [record EXCEPT ![Gui] = NoRecord]
    /\ UNCHANGED <<file, digest, signature, part, target, opened, windowVars, changes, late>>

(* A command line names a catalog entry and may name a destination.        *)
StartFromCommandLine(s) ==
    /\ \E v \in Image, p \in Path : Ask(s, v, p)
    /\ Goto(s, "metadata")
    /\ UNCHANGED <<file, digest, signature, part, record, target, opened, windowVars,
                   changes, late>>

(* A published checksum that has no entry for the file name is an error,   *)
(* like one that does not arrive.                                          *)
FetchChecksum(s) ==
    /\ pc[s] = "metadata"
    /\ \/ /\ \E d \in Published(s) \cup {Junk} : digest' = [digest EXCEPT ![s] = d]
          /\ Goto(s, "signing")
       \/ /\ Goto(s, "failing")
          /\ UNCHANGED digest
    /\ UNCHANGED <<file, want, path, signature, part, record, target, opened, windowVars,
                   changes, altered, late>>

FetchSignature(s) ==
    /\ pc[s] = "signing"
    /\ \/ /\ \E g \in Published(s) \cup {Junk} :
                signature' = [signature EXCEPT ![s] = g]
          /\ Goto(s, "looking")
       \/ /\ Goto(s, "failing")
          /\ UNCHANGED signature
    /\ UNCHANGED <<file, want, path, digest, part, record, target, opened, windowVars,
                   changes, altered, late>>

(* A file that is there is verified in place, never fetched again; what is *)
(* there and is no file is an error.                                       *)
AfterFound == "hashing"

Look(s) ==
    /\ pc[s] = "looking"
    /\ Goto(s, CASE file[path[s]] \in Bytes -> AfterFound
                 [] file[path[s]] = Folder -> "failing"
                 [] file[path[s]] = Nothing -> "loading")
    /\ altered' = [altered EXCEPT ![s] = FALSE]
    /\ UNCHANGED <<file, want, path, digest, signature, part, record, target, opened,
                   windowVars, changes, late>>

(* A transfer that is cut short may look complete.                         *)
AfterLoadUnverified == "promoting"
AfterLoad == "hashing"

Load(s) ==
    /\ pc[s] = "loading"
    /\ \/ /\ \E b \in {want[s], Junk} : part' = [part EXCEPT ![s] = b]
          /\ Goto(s, AfterLoad)
       \/ /\ part' = [part EXCEPT ![s] = Junk]
          /\ Goto(s, "failing")
    /\ UNCHANGED <<file, want, path, digest, signature, record, target, opened, windowVars,
                   changes, altered, late>>

(* _verify_candidate reads the candidate twice: verify_sha256 ...          *)
Candidate(s) == IF part[s] = Nothing THEN file[path[s]] ELSE part[s]

Hash(s) ==
    /\ pc[s] = "hashing"
    /\ Goto(s, IF Candidate(s) \in Bytes /\ Candidate(s) = digest[s]
               THEN "checking" ELSE "failing")
    /\ UNCHANGED <<file, want, path, digest, signature, part, record, target, opened,
                   windowVars, changes, altered, late>>

(* ... and gpg, which accepts what the pinned key has signed.              *)
Signed(s) == Candidate(s) \in Image /\ Candidate(s) = signature[s]

CheckSignature(s) ==
    /\ pc[s] = "checking"
    /\ Goto(s, IF ~Signed(s) THEN "failing"
               ELSE IF part[s] = Nothing THEN "verified" ELSE "promoting")
    /\ UNCHANGED <<file, want, path, digest, signature, part, record, target, opened,
                   windowVars, changes, altered, late>>

(* Path.replace moves the file over whatever is there by now, except a     *)
(* directory.                                                              *)
Promote(s) ==
    /\ pc[s] = "promoting"
    /\ IF file[path[s]] = Folder
       THEN /\ Goto(s, "failing")
            /\ UNCHANGED <<file, part, altered, late>>
       ELSE /\ PutFile(path[s], part[s], {s})
            /\ part' = [part EXCEPT ![s] = Nothing]
            /\ Goto(s, "verified")
    /\ UNCHANGED <<want, path, digest, signature, record, target, opened, windowVars,
                   changes>>

(* The temporary files are removed on the way out.                         *)
PartKept(s) == part[s]
PartRemoved(s) == Nothing

Fail(s) ==
    /\ pc[s] = "failing"
    /\ part' = [part EXCEPT ![s] = PartRemoved(s)]
    /\ Forget(s) /\ ForgetPath(s)
    /\ Goto(s, "failed")
    /\ UNCHANGED <<file, record, target, opened, windowVars, changes, late>>

(* A killed process leaves its temporary files and nothing else.           *)
Kill(s) ==
    /\ pc[s] \in InDownload
    /\ Forget(s) /\ ForgetPath(s)
    /\ Goto(s, "killed")
    /\ IF s = Gui THEN chosen' = Nothing /\ jobs' = << >> /\ checksum' = Nothing
                  ELSE UNCHANGED windowVars
    /\ UNCHANGED <<file, part, record, target, opened, changes, late>>

-----------------------------------------------------------------------------
(***************************************************************************)
(* The record of what was verified, and the window's local checksum.       *)
(***************************************************************************)

(* _schedule_local_checksum_refresh, on every change of the path.          *)
Schedule(p) ==
    /\ chosen' = p
    /\ jobs' = Append(jobs, [path |-> p, done |-> FALSE])

Recorded(s) ==
    [record EXCEPT ![s] = [path |-> path[s], sha256 |-> digest[s],
                           signature |-> signature[s]]]

(* _apply_remote_download_success sets the path, which drops the record of *)
(* another path and starts a checksum, and then the record and the digest. *)
FinishInWindow ==
    /\ pc[Gui] = "verified"
    /\ Schedule(path[Gui])
    /\ record' = Recorded(Gui)
    /\ checksum' = path[Gui]
    /\ Forget(Gui)
    /\ Goto(Gui, "ready")
    /\ UNCHANGED <<file, path, part, target, opened, changes, altered, late>>

FinishOnCommandLine(s) ==
    /\ pc[s] = "verified"
    /\ record' = Recorded(s)
    /\ Forget(s)
    /\ Goto(s, "ready")
    /\ UNCHANGED <<file, path, part, target, opened, windowVars, changes, altered, late>>

(* _verify_local_source: a local image with its digest and signature goes  *)
(* through the same two checks; without them it needs the explicit         *)
(* acknowledgement.                                                        *)
StartLocal(s) ==
    /\ pc[s] = "idle"
    /\ \E p \in Path, v \in Image :
        /\ file[p] \in Bytes
        /\ path' = [path EXCEPT ![s] = p]
        /\ \/ /\ digest' = [digest EXCEPT ![s] = v]
              /\ signature' = [signature EXCEPT ![s] = v]
              /\ Goto(s, "hashing")
           \/ /\ Goto(s, "ready")
              /\ UNCHANGED <<digest, signature>>
    /\ altered' = [altered EXCEPT ![s] = FALSE]
    /\ UNCHANGED <<file, want, part, record, target, opened, windowVars, changes, late>>

(* All jobs but the one of a finished download.                            *)
Picks == Len(jobs) - (IF pc[Gui] = "ready" THEN 1 ELSE 0)

(* The operator browses for a file or edits the path; not while the window *)
(* downloads or writes.                                                    *)
PickImage(p) ==
    /\ pc[Gui] \in {"idle", "ready", "failed"}
    /\ Picks < MaxPicks
    /\ Schedule(p)
    /\ record' = IF p = record[Gui].path THEN record
                 ELSE [record EXCEPT ![Gui] = NoRecord]
    /\ UNCHANGED <<file, pc, want, path, digest, signature, part, target, opened, checksum,
                   changes, altered, late>>

(* The jobs end in any order; _apply_local_checksum takes the latest only. *)
AnyJob(j) == TRUE
LatestJob(j) == j = Len(jobs)

ApplyLocalChecksum(j) ==
    /\ ~jobs[j].done
    /\ jobs' = [jobs EXCEPT ![j].done = TRUE]
    /\ checksum' = IF LatestJob(j) THEN jobs[j].path ELSE checksum
    /\ UNCHANGED <<file, sessionVars, chosen, changes, altered, late>>

-----------------------------------------------------------------------------
(***************************************************************************)
(* The write, as far as the image is concerned.                            *)
(***************************************************************************)

Applies(s, p) == record[s].path = p

(* _verify_recorded_image_integrity hashes the image when it is the        *)
(* recorded one; other local images are not checked.                       *)
UncheckedBeforeWrite(s, p) == TRUE
Unchanged(s, p) == Applies(s, p) => file[p] = record[s].sha256

Rehash(s, p) ==
    /\ target' = [target EXCEPT ![s] = p]
    /\ Goto(s, IF Unchanged(s, p) THEN "planning" ELSE "refused")
    /\ late' = [late EXCEPT ![s] = FALSE]
    /\ UNCHANGED <<file, want, path, digest, signature, part, record, opened, windowVars,
                   changes, altered>>

WriteFromWindow ==
    /\ pc[Gui] \in {"idle", "ready", "failed"}
    /\ chosen # Nothing
    /\ Rehash(Gui, chosen)

WriteFromCommandLine(s) ==
    /\ pc[s] = "ready"
    /\ Rehash(s, path[s])

(* After the device checks (WriteBoundary) dd opens the path.              *)
OpenImage(s) ==
    /\ pc[s] = "planning"
    /\ IF file[target[s]] \in Bytes
       THEN /\ opened' = [opened EXCEPT ![s] = file[target[s]]]
            /\ Goto(s, "written")
       ELSE /\ Goto(s, "failed")
            /\ UNCHANGED opened
    /\ UNCHANGED <<file, want, path, digest, signature, part, record, target, windowVars,
                   changes, altered, late>>

-----------------------------------------------------------------------------
(* Somebody puts another file at p, or removes the one that is there.      *)
ChangeFile(p) ==
    /\ changes < MaxChanges /\ changes' = changes + 1
    /\ \E c \in Bytes \cup {Nothing} : PutFile(p, c, {})
    /\ UNCHANGED <<sessionVars, windowVars>>

Downloading(s) ==
    FetchChecksum(s) \/ FetchSignature(s) \/ Look(s) \/ Load(s) \/ Hash(s)
      \/ CheckSignature(s) \/ Promote(s) \/ Fail(s)

CommandLine(s) ==
    StartFromCommandLine(s) \/ StartLocal(s) \/ FinishOnCommandLine(s)
      \/ WriteFromCommandLine(s)

Window ==
    \/ StartFromWindow \/ FinishInWindow \/ WriteFromWindow
    \/ \E p \in Path : PickImage(p)
    \/ \E j \in DOMAIN jobs : ApplyLocalChecksum(j)

ImageNext ==
    \/ \E s \in Session : Downloading(s) \/ Kill(s) \/ OpenImage(s)
    \/ \E s \in Cli : CommandLine(s)
    \/ Window
    \/ \E p \in Path : ChangeFile(p)

ImageSpec == ImageInit /\ [][ImageNext]_imageVars

-----------------------------------------------------------------------------
(* Types, and a temporary file belongs to a session that still runs or was *)
(* killed: every other way out of a download removes it.                   *)
ImageTypeOK ==
    /\ file \in [Path -> Content]
    /\ pc \in [Session -> Stage]
    /\ \A s \in Session :
        /\ want[s] \in Image \cup {Nothing}
        /\ path[s] \in Path \cup {Nothing} /\ target[s] \in Path \cup {Nothing}
        /\ digest[s] \in Bytes \cup {Nothing} /\ signature[s] \in Bytes \cup {Nothing}
        /\ record[s] \in [path : Path \cup {Nothing}, sha256 : Bytes \cup {Nothing},
                         signature : Bytes \cup {Nothing}]
        /\ opened[s] \in Bytes \cup {Nothing}
        /\ part[s] \in Bytes \cup {Nothing}
        /\ part[s] # Nothing => pc[s] \in InDownload \cup {"killed"}
    /\ chosen \in Path \cup {Nothing} /\ checksum \in Path \cup {Nothing}
    /\ jobs \in Seq([path : Path, done : BOOLEAN])

(* An image written as verified is, byte for byte, the one whose digest    *)
(* and signature were verified: if the file was changed after that, the    *)
(* hash before the write notices, unless it is changed again between the   *)
(* hash and dd.  And it is a release that the key has signed, unless the   *)
(* file was changed between the two reads of its verification.             *)
WrittenIsVerified ==
    \A s \in Session :
        pc[s] = "written" /\ Applies(s, target[s]) /\ ~late[s] =>
            /\ opened[s] = record[s].sha256
            /\ ~altered[s] => opened[s] \in Image /\ opened[s] = record[s].signature

(* Only a hand or a complete, verified image changes a file of the         *)
(* download directory, and a download replaces no file that was there when *)
(* it looked.                                                              *)
PromotedWhole ==
    [][file' # file /\ changes' = changes =>
        \E s \in Session :
            /\ pc[s] = "promoting"
            /\ file' = [file EXCEPT ![path[s]] = part[s]]
            /\ part[s] \in Image /\ part[s] = digest[s] /\ part[s] = signature[s]
            /\ file[path[s]] = Nothing \/ altered[s]]_imageVars

(* Once the latest job is done, the checksum in the window was computed    *)
(* from the path in the window, in whatever order the jobs end.            *)
ChecksumOfSelection ==
    jobs # << >> /\ jobs[Len(jobs)].done => checksum = chosen
=============================================================================
