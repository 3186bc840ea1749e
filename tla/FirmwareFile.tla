---------------------------- MODULE FirmwareFile ----------------------------
(***************************************************************************)
(* The firmware file of a flash, from the download to fwupdtool, and what  *)
(* is left of it on the disk: download_verified and FwupdCli.install in a  *)
(* worker thread, FlashManager.run with its TemporaryDirectory in a task   *)
(* of the event loop, and a server that is stopped or killed at any point. *)
(*                                                                         *)
(* A stopped server cancels the task; a thread cannot be cancelled, and    *)
(* the process waits for it.  A killed server takes its threads and        *)
(* fwupdtool with it.                                                      *)
(***************************************************************************)
EXTENDS Integers

CONSTANTS
    None,
    ImageChunks,    \* length of the file of the release
    MaxChunks,      \* _MAX_BYTES
    MaxFlashes      \* bound: flashes, over all restarts

ASSUME FileAssumption ==
    /\ ImageChunks \in 1 .. MaxChunks
    /\ MaxChunks \in Nat
    /\ MaxFlashes \in Nat
    /\ None \notin [length : Nat, genuine : BOOLEAN]

VARIABLES
    server,     \* the process
    flash,      \* how many flashes there were; this one has a directory of its own
    job,        \* FlashJob.status
    task,       \* where FlashManager.run is
    outcome,    \* what the job is going to be when the directory is removed
    thread,     \* where the worker thread is
    answer,     \* what it returned or raised
    late,       \* the deadline of the download is over
    digest,     \* what the hash has seen
    file,       \* firmware.cab in the directory of this flash
    dirs,       \* the flashes that have a directory on the disk
    excused,    \* the flashes that were killed or that the disk refuses to clean up
    interrupted, \* the flashes that a stop met before their file was created
    tool,       \* the fwupdtool of this flash
    loaded      \* the file it has read

taskVars == <<flash, job, task, outcome>>
threadVars == <<thread, answer, late, digest>>
doneVars == <<excused, interrupted>>
diskVars == <<file, dirs, doneVars>>
toolVars == <<tool, loaded>>
vars == <<server, taskVars, threadVars, diskVars, toolVars>>

(* As much of a file as a hash tells: how long it is, and whether all of   *)
(* it is from the release.                                                 *)
Nothing == [length |-> 0, genuine |-> TRUE]

Image == [length |-> ImageChunks, genuine |-> TRUE]

Contents == [length : 0 .. MaxChunks, genuine : BOOLEAN]

(* The types; neither the disk nor the hash ever has more than _MAX_BYTES. *)
TypeOK ==
    /\ server \in {"up", "stopping", "down"}
    /\ flash \in 0 .. MaxFlashes
    /\ job \in {"none", "running", "succeeded", "failed"}
    /\ task \in {"none", "waiting", "downloading", "installing", "cleaning", "removing"}
    /\ outcome \in {"none", "succeeded", "failed", "cancelled"}
    /\ thread \in {"off", "connecting", "receiving", "checking", "discarding", "installing", "reading"}
    /\ answer \in {"none", "file", "refused", "raised", "installed"}
    /\ late \in BOOLEAN
    /\ digest \in Contents
    /\ file \in Contents \cup {None}
    /\ dirs \subseteq 0 .. MaxFlashes
    /\ excused \subseteq 0 .. MaxFlashes
    /\ interrupted \subseteq 0 .. MaxFlashes
    /\ tool \in {"none", "starting", "writing", "done", "failed"}
    /\ loaded \in Contents \cup {None}

Init ==
    /\ server = "up"
    /\ flash = 0
    /\ job = "none"
    /\ task = "none"
    /\ outcome = "none"
    /\ thread = "off"
    /\ answer = "none"
    /\ late = FALSE
    /\ digest = Nothing
    /\ file = None
    /\ dirs = {}
    /\ excused = {}
    /\ interrupted = {}
    /\ tool = "none"
    /\ loaded = None

-----------------------------------------------------------------------------
(***************************************************************************)
(* The task: FlashManager.run                                              *)
(***************************************************************************)

(* A flash begins, and its task waits for the lock.                        *)
Begin ==
    /\ server = "up" /\ job # "running" /\ task = "none"
    /\ flash < MaxFlashes
    /\ flash' = flash + 1
    /\ job' = "running"
    /\ task' = "waiting"
    /\ outcome' = "none"
    /\ file' = None
    /\ tool' = "none" /\ loaded' = None
    /\ UNCHANGED <<server, threadVars, dirs, doneVars>>

MakeDirectory ==
    /\ task = "waiting"
    /\ dirs' = dirs \cup {flash}
    /\ task' = "downloading"
    /\ thread' = "connecting"
    /\ answer' = "none"
    /\ late' = FALSE
    /\ digest' = Nothing
    /\ UNCHANGED <<server, flash, job, outcome, file, doneVars, toolVars>>

(* mkdir or mkdtemp raises an OSError.                                     *)
MakeDirectoryFails ==
    /\ task = "waiting"
    /\ task' = "none"
    /\ job' = "failed"
    /\ UNCHANGED <<server, flash, outcome, threadVars, diskVars, toolVars>>

(* Mutant: install is called after the `with` block.                       *)
DownloadReturned_OutsideWith ==
    /\ task = "downloading" /\ thread = "off" /\ answer = "file"
    /\ task' = "installing"
    /\ thread' = "installing"
    /\ answer' = "none"
    /\ file' = None /\ dirs' = dirs \ {flash}
    /\ UNCHANGED <<server, flash, job, outcome, late, digest, doneVars, toolVars>>

DownloadReturned ==
    /\ task = "downloading" /\ thread = "off" /\ answer = "file"
    /\ task' = "installing"
    /\ thread' = "installing"
    /\ answer' = "none"
    /\ UNCHANGED <<server, flash, job, outcome, late, digest, diskVars, toolVars>>

(* Mutant: the directory is removed by hand at the end of a good flash.    *)
CallFailed_NotCleaned ==
    /\ task \in {"downloading", "installing"}
    /\ thread = "off" /\ answer \in {"refused", "raised"}
    /\ task' = "none"
    /\ job' = "failed"
    /\ UNCHANGED <<server, flash, outcome, threadVars, diskVars, toolVars>>

(* Either call raises, and the `with` block is left.                       *)
CallFailed ==
    /\ task \in {"downloading", "installing"}
    /\ thread = "off" /\ answer \in {"refused", "raised"}
    /\ task' = "cleaning"
    /\ outcome' = "failed"
    /\ UNCHANGED <<server, flash, job, threadVars, diskVars, toolVars>>

InstallReturned ==
    /\ task = "installing" /\ thread = "off" /\ answer = "installed"
    /\ task' = "cleaning"
    /\ outcome' = "succeeded"
    /\ UNCHANGED <<server, flash, job, threadVars, diskVars, toolVars>>

(* TemporaryDirectory removes the file, then the directory.                *)
RemoveFile ==
    /\ task = "cleaning"
    /\ file' = None
    /\ task' = "removing"
    /\ UNCHANGED <<server, flash, job, outcome, threadVars, dirs, doneVars, toolVars>>

(* A task that was cancelled leaves the job as it is.                      *)
RemoveDirectory ==
    /\ task = "removing"
    /\ file = None
    /\ dirs' = dirs \ {flash}
    /\ task' = "none"
    /\ job' = IF outcome = "cancelled" THEN job ELSE outcome
    /\ UNCHANGED <<server, flash, outcome, threadVars, file, doneVars, toolVars>>

(* The disk refuses: an OSError, which takes the place of whatever else    *)
(* was raised.                                                             *)
RemovalFails ==
    /\ task = "cleaning" \/ (task = "removing" /\ file = None)
    /\ excused' = excused \cup {flash}
    /\ task' = "none"
    /\ job' = "failed"
    /\ UNCHANGED <<server, flash, outcome, threadVars, file, dirs, interrupted, toolVars>>

(* The thread of a cancelled task has created the file in the meantime:    *)
(* an OSError too, and the directory stays, on the best of disks.          *)
DirectoryNotEmpty ==
    /\ task = "removing"
    /\ file # None
    /\ task' = "none"
    /\ job' = "failed"
    /\ UNCHANGED <<server, flash, outcome, threadVars, diskVars, toolVars>>

-----------------------------------------------------------------------------
(***************************************************************************)
(* The worker thread: download_verified                                    *)
(***************************************************************************)

(* It goes on with the next step of the download.                          *)
Goes(where) == thread' = where /\ UNCHANGED <<server, taskVars, answer, late, dirs, doneVars, toolVars>>

(* It returns, or raises.                                                  *)
Ends(result) ==
    /\ thread' = "off"
    /\ answer' = result
    /\ UNCHANGED <<server, taskVars, late, dirs, doneVars, toolVars>>

(* The server answers, and the file is created if its directory is there   *)
(* and the file is not.                                                    *)
Connect ==
    /\ thread = "connecting"
    /\ IF flash \in dirs /\ file = None
       THEN Goes("receiving") /\ file' = Nothing
       ELSE Goes("discarding") /\ UNCHANGED file
    /\ UNCHANGED digest

(* Mutant: the size is checked after the chunk was written.                *)
Fits_Late(n) == n < MaxChunks + 1

(* There is room for one more chunk within _MAX_BYTES.                     *)
Fits(n) == n < MaxChunks

(* A chunk of the file, or of another one.  What is written to a file that *)
(* was removed is nowhere.                                                 *)
Receive ==
    /\ thread = "receiving"
    /\ IF Fits(digest.length) /\ ~late
       THEN \E right \in BOOLEAN :
                LET more == [length |-> digest.length + 1, genuine |-> digest.genuine /\ right]
                IN  /\ digest' = more
                    /\ file' = IF file = None THEN None ELSE more
                    /\ Goes("receiving")
       ELSE Goes("discarding") /\ UNCHANGED <<digest, file>>

EndOfBody ==
    /\ thread = "receiving"
    /\ Goes("checking")
    /\ UNCHANGED <<digest, file>>

(* Mutant: after a timeout the download begins anew.                       *)
TransferFails_Retried ==
    /\ thread \in {"connecting", "receiving"}
    /\ Goes("connecting")
    /\ digest' = Nothing
    /\ file' = None

(* A timeout, an error of the network or of the disk, a refused redirect;  *)
(* or an HTTPException, which nothing here catches.                        *)
TransferFails ==
    /\ thread \in {"connecting", "receiving"}
    /\ Goes("discarding") \/ Ends("raised")
    /\ UNCHANGED <<digest, file>>

(* Mutant: the checksum is for the log.                                    *)
Check_Skipped ==
    /\ thread = "checking"
    /\ Ends("file")
    /\ UNCHANGED <<digest, file>>

(* Mutant: a checksum that does not match is raised after the `try`.       *)
Check_NotDiscarded ==
    /\ thread = "checking"
    /\ IF digest = Image THEN Ends("file") ELSE Ends("refused")
    /\ UNCHANGED <<digest, file>>

Check ==
    /\ thread = "checking"
    /\ IF digest = Image THEN Ends("file") ELSE Goes("discarding")
    /\ UNCHANGED <<digest, file>>

(* unlink, then FirmwareDownloadError; or the OSError of unlink.           *)
Discard ==
    /\ thread = "discarding"
    /\ \/ Ends("refused") /\ file' = None
       \/ Ends("raised") /\ UNCHANGED file
    /\ UNCHANGED digest

(* time.monotonic passes the deadline.                                     *)
Late ==
    /\ thread \in {"connecting", "receiving"}
    /\ ~late
    /\ late' = TRUE
    /\ UNCHANGED <<server, taskVars, thread, answer, digest, diskVars, toolVars>>

-----------------------------------------------------------------------------
(***************************************************************************)
(* The worker thread: FwupdCli.install, with fwupdtool                     *)
(***************************************************************************)

Launch ==
    /\ thread = "installing"
    /\ thread' = "reading"
    /\ tool' = "starting"
    /\ UNCHANGED <<server, taskVars, answer, late, digest, diskVars, loaded>>

(* fwupdtool is not there, or an exception leaves it running.              *)
InstallRaises ==
    /\ thread \in {"installing", "reading"}
    /\ Ends("raised")
    /\ UNCHANGED <<digest, file>>

(* It reads the file at once, and needs it no more.                        *)
ToolLoads ==
    /\ tool = "starting"
    /\ tool' = IF file = None THEN "failed" ELSE "writing"
    /\ loaded' = file
    /\ UNCHANGED <<server, taskVars, threadVars, diskVars>>

(* It ends; in install's time limit if nothing else ends it.               *)
ToolEnds ==
    /\ tool \in {"starting", "writing"}
    /\ \/ tool = "writing" /\ tool' = "done"
       \/ tool' = "failed"
    /\ UNCHANGED <<server, taskVars, threadVars, diskVars, loaded>>

InstallReturns ==
    /\ thread = "reading"
    /\ \/ tool = "done" /\ Ends("installed")
       \/ tool = "failed" /\ Ends("raised")
    /\ UNCHANGED <<digest, file>>

-----------------------------------------------------------------------------
(***************************************************************************)
(* The process                                                             *)
(***************************************************************************)

(* asyncio.run cancels what is left, a task at one of its awaits.          *)
Stop ==
    /\ server = "up"
    /\ task \notin {"cleaning", "removing"}
    /\ server' = "stopping"
    /\ IF task \in {"downloading", "installing"}
       THEN task' = "cleaning" /\ outcome' = "cancelled"
       ELSE task' = "none" /\ UNCHANGED outcome
    /\ interrupted' = IF task = "downloading" /\ thread = "connecting"
                      THEN interrupted \cup {flash} ELSE interrupted
    /\ UNCHANGED <<flash, job, threadVars, file, dirs, excused, toolVars>>

Gone ==
    /\ server' = "down"
    /\ job' = "none"
    /\ task' = "none"
    /\ outcome' = "none"
    /\ thread' = "off"
    /\ answer' = "none"
    /\ tool' = "none"
    /\ UNCHANGED <<flash, late, digest, file, dirs, interrupted, loaded>>

Exit ==
    /\ server = "stopping" /\ task = "none" /\ thread = "off"
    /\ Gone
    /\ UNCHANGED excused

Kill ==
    /\ server # "down"
    /\ Gone
    /\ excused' = IF flash \in dirs THEN excused \cup {flash} ELSE excused

Start ==
    /\ server = "down"
    /\ server' = "up"
    /\ UNCHANGED <<taskVars, threadVars, diskVars, toolVars>>

-----------------------------------------------------------------------------

TaskStep ==
    \/ MakeDirectory
    \/ MakeDirectoryFails
    \/ DownloadReturned
    \/ CallFailed
    \/ InstallReturned
    \/ RemoveFile
    \/ RemoveDirectory
    \/ RemovalFails
    \/ DirectoryNotEmpty

ThreadStep ==
    \/ Connect
    \/ Receive
    \/ EndOfBody
    \/ TransferFails
    \/ Check
    \/ Discard
    \/ Launch
    \/ InstallRaises
    \/ InstallReturns

ToolStep == ToolLoads \/ ToolEnds

Next ==
    \/ Begin
    \/ TaskStep
    \/ ThreadStep
    \/ Late
    \/ ToolStep
    \/ Stop
    \/ Exit
    \/ Kill
    \/ Start

(* The event loop runs, every read of the network returns within its       *)
(* timeout, fwupdtool ends or is killed by the watchdog, and a process     *)
(* with nothing left to wait for ends.                                     *)
Fairness ==
    /\ WF_vars(TaskStep)
    /\ WF_vars(ThreadStep)
    /\ WF_vars(ToolStep)
    /\ WF_vars(Exit)

Safety == Init /\ [][Next]_vars

Spec == Safety /\ Fairness

-----------------------------------------------------------------------------
(***************************************************************************)
(* Properties                                                              *)
(***************************************************************************)

(* download.py: the checksum "is what ties this file to the release the    *)
(* user confirmed"; fwupdtool never reads anything else, also not while    *)
(* the file is being removed.                                              *)
LoadedIsVerified == loaded \in {None, Image}

(* The verified file is there from the launch of fwupdtool until it has    *)
(* read it, with two exceptions, and both are known: the server is being   *)
(* stopped, or install raised while fwupdtool went on without it, and the  *)
(* flash is a failure.                                                     *)
FileStaysUntilGivenUp ==
    tool = "starting" /\ file # Image =>
        server # "up" \/ (outcome = "failed" /\ answer = "raised")

(* download.py: "A file that fails any check is deleted before this        *)
(* raises."                                                                *)
RefusedIsDeleted == answer = "refused" => file = None

(* Whatever step of a flash fails, and in a shutdown, its directory is     *)
(* gone when it ends.  Three things leave it, and nothing else: a kill, a  *)
(* disk that refuses, and a stop that came before the download had created *)
(* its file, which then may do so between the two removals.                *)
LeftoversAreExplained ==
    dirs \subseteq excused \cup interrupted \cup {n \in {flash} : task # "none"}

(* flash.py: "a job left running sends every page to /flash until the      *)
(* process restarts"; every flash ends, and so does every shutdown in it.  *)
FlashEnds == job = "running" ~> job # "running"

(***************************************************************************)
(* Claims that do not hold.                                                *)
(***************************************************************************)

(* An update that was written is not reported as a failure; it is when the *)
(* directory cannot be removed.                                            *)
WrittenIsReported == job = "failed" => outcome # "succeeded"

(* The file is there until fwupdtool has read it, as long as the server is *)
(* up; it is not when install raises after it has launched fwupdtool.      *)
FileThereUntilRead == server = "up" /\ tool = "starting" => file = Image

(* On a disk that does what it is told, a stop leaves nothing behind; it   *)
(* does when it meets the download before its file was created.            *)
CleanStopLeavesNothing == dirs \subseteq excused \cup {n \in {flash} : task # "none"}
=============================================================================
