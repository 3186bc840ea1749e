------------------------- MODULE FirmwareFileProofs -------------------------
(***************************************************************************)
(* Theorems about FirmwareFile, for every size of file, limit and number   *)
(* of flashes.                                                             *)
(***************************************************************************)
EXTENDS FirmwareFile, TLAPS

Downloading == {"connecting", "receiving", "checking", "discarding"}

Installing == {"installing", "reading"}

(* Which task and thread there can be: one call at a time while the server *)
(* is up, a thread that was left alone when it stops, nothing when it is   *)
(* down.                                                                   *)
OneCallAtATime ==
    /\ server = "up" =>
        /\ task \in {"none", "waiting", "cleaning", "removing"} => thread = "off"
        /\ task = "downloading" => thread \notin Installing
        /\ task = "installing" => thread \notin Downloading
    /\ server = "stopping" => task \in {"none", "cleaning", "removing"}
    /\ server = "down" => task = "none" /\ thread = "off"
    /\ thread # "off" => answer = "none"
    /\ task = "installing" => answer \notin {"file", "refused"}

(* There is no fwupdtool of this flash before its download has ended.      *)
NoToolYet == task = "waiting" \/ thread \in Downloading => tool = "none"

(* A fwupdtool that has not read its file is awaited by install, or was    *)
(* left alone by it.                                                       *)
WhoseTool ==
    /\ server = "down" => tool = "none"
    /\ answer = "installed" => tool # "starting"
    /\ server = "up" /\ tool = "starting" =>
        task = "installing" \/ (outcome = "failed" /\ answer = "raised")

(* What the disk has is what was hashed, or it is gone; and it is not gone *)
(* while the server is up.                                                 *)
DiskIsDigest ==
    /\ thread = "connecting" => digest = Nothing
    /\ thread \in {"receiving", "checking"} =>
        /\ file \in {None, digest}
        /\ server = "up" => file = digest

(* From the checksum on, the file is the image, or it is gone; and it is   *)
(* not gone while the server is up and the task has not got to that.       *)
DiskIsImage ==
    /\ answer = "file" \/ thread \in Installing \/ tool = "starting" => file \in {None, Image}
    /\ server = "up" /\ (task = "installing" \/ (task = "downloading" /\ answer = "file")) =>
        file = Image

(* A flash that waits has no directory yet.                                *)
NoDirectoryYet == task = "waiting" => dirs \subseteq excused \cup interrupted

(* Only a download that a stop met at its very beginning can still create  *)
(* its file.                                                               *)
WhoCreatesLate ==
    /\ server = "stopping" /\ task # "none" /\ thread = "connecting" => flash \in interrupted
    /\ task = "removing" /\ file # None => flash \in interrupted

IInv ==
    /\ TypeOK
    /\ OneCallAtATime
    /\ NoToolYet
    /\ WhoseTool
    /\ DiskIsDigest
    /\ DiskIsImage
    /\ NoDirectoryYet
    /\ WhoCreatesLate
    /\ LoadedIsVerified
    /\ RefusedIsDeleted
    /\ LeftoversAreExplained

(* The types and the constants, as the steps below use them.               *)
LEMMA Constants ==
    /\ Nothing \in Contents /\ Image \in Contents
    /\ Nothing # None /\ Image # None
    /\ None \notin Contents
<1>1. Nothing \in Contents /\ Image \in Contents
  BY FileAssumption DEF Nothing, Image, Contents
<1>2. \A x \in Contents : x \in [length : Nat, genuine : BOOLEAN]
  BY FileAssumption DEF Contents
<1> QED
  BY <1>1, <1>2, FileAssumption

(* The inductive invariant holds at first.                                 *)
LEMMA IInvInit == Init => IInv
<1> SUFFICES ASSUME Init PROVE IInv
  OBVIOUS
<1>1. TypeOK
  <2>1. flash \in 0 .. MaxFlashes
    BY FileAssumption DEF Init
  <2>2. late \in BOOLEAN
    BY DEF Init
  <2>3. digest \in Contents /\ file \in Contents \cup {None} /\ loaded \in Contents \cup {None}
    BY Constants DEF Init
  <2>4. /\ dirs \subseteq 0 .. MaxFlashes
        /\ excused \subseteq 0 .. MaxFlashes
        /\ interrupted \subseteq 0 .. MaxFlashes
    BY DEF Init
  <2>5. /\ server \in {"up", "stopping", "down"}
        /\ job \in {"none", "running", "succeeded", "failed"}
        /\ task \in {"none", "waiting", "downloading", "installing", "cleaning", "removing"}
        /\ outcome \in {"none", "succeeded", "failed", "cancelled"}
        /\ thread \in {"off", "connecting", "receiving", "checking", "discarding", "installing", "reading"}
        /\ answer \in {"none", "file", "refused", "raised", "installed"}
        /\ tool \in {"none", "starting", "writing", "done", "failed"}
    BY DEF Init
  <2> QED
    BY <2>1, <2>2, <2>3, <2>4, <2>5 DEF TypeOK
<1>2. OneCallAtATime /\ NoToolYet /\ WhoseTool /\ DiskIsDigest /\ DiskIsImage
  BY DEF Init, OneCallAtATime, NoToolYet, WhoseTool, DiskIsDigest, DiskIsImage, Downloading, Installing
<1>3. NoDirectoryYet /\ WhoCreatesLate /\ LoadedIsVerified /\ RefusedIsDeleted /\ LeftoversAreExplained
  BY DEF Init, NoDirectoryYet, WhoCreatesLate, LoadedIsVerified, RefusedIsDeleted, LeftoversAreExplained
<1> QED
  BY <1>1, <1>2, <1>3 DEF IInv

(* One more chunk, within the limit, is one of the contents.               *)
LEMMA OneMoreChunk ==
    ASSUME NEW c \in Contents, NEW right \in BOOLEAN, Fits(c.length)
    PROVE  [length |-> c.length + 1, genuine |-> c.genuine /\ right] \in Contents
<1>1. c.length \in 0 .. MaxChunks /\ c.genuine \in BOOLEAN
  BY DEF Contents
<1>2. c.length + 1 \in 0 .. MaxChunks
  BY <1>1, FileAssumption DEF Fits
<1>3. (c.genuine /\ right) \in BOOLEAN
  OBVIOUS
<1> QED
  BY <1>2, <1>3 DEF Contents

(* A step of the download, or the end of the thread, keeps the types when  *)
(* the digest and the file have theirs.                                    *)
LEMMA GoesTypes ==
    ASSUME TypeOK, digest' \in Contents, file' \in Contents \cup {None},
           NEW where \in {"connecting", "receiving", "checking", "discarding"}, Goes(where)
    PROVE  TypeOK'
BY DEF TypeOK, Goes, taskVars, doneVars, toolVars

(* A thread that ends leaves the rest well-typed.                          *)
LEMMA EndsTypes ==
    ASSUME TypeOK, digest' \in Contents, file' \in Contents \cup {None},
           NEW result \in {"file", "refused", "raised", "installed"}, Ends(result)
    PROVE  TypeOK'
BY DEF TypeOK, Ends, taskVars, doneVars, toolVars

(* Every step keeps the types.                                             *)
LEMMA TypeStep == TypeOK /\ [Next]_vars => TypeOK'
<1> SUFFICES ASSUME TypeOK, [Next]_vars PROVE TypeOK'
  OBVIOUS
<1> USE DEF taskVars, threadVars, doneVars, diskVars, toolVars
<1>1. CASE Begin
  BY <1>1, Constants, FileAssumption DEF TypeOK, Begin
<1>2. CASE MakeDirectory
  BY <1>2, Constants DEF TypeOK, MakeDirectory
<1>3. CASE MakeDirectoryFails
  BY <1>3, Constants DEF TypeOK, MakeDirectoryFails
<1>4. CASE DownloadReturned
  BY <1>4, Constants DEF TypeOK, DownloadReturned
<1>5. CASE CallFailed
  BY <1>5, Constants DEF TypeOK, CallFailed
<1>6. CASE InstallReturned
  BY <1>6, Constants DEF TypeOK, InstallReturned
<1>7. CASE RemoveFile
  BY <1>7, Constants DEF TypeOK, RemoveFile
<1>8. CASE RemoveDirectory
  BY <1>8, Constants DEF TypeOK, RemoveDirectory
<1>9. CASE RemovalFails
  BY <1>9, Constants DEF TypeOK, RemovalFails
<1>9b. CASE DirectoryNotEmpty
  BY <1>9b, Constants DEF TypeOK, DirectoryNotEmpty
<1>10. CASE Connect
  <2>1. digest' \in Contents /\ file' \in Contents \cup {None}
    BY <1>10, Constants DEF TypeOK, Connect
  <2> QED
    BY <1>10, <2>1, GoesTypes, EndsTypes DEF Connect
<1>11. CASE Receive
  <2>1. CASE Fits(digest.length) /\ ~late
    <3>1. PICK right \in BOOLEAN :
            /\ digest' = [length |-> digest.length + 1, genuine |-> digest.genuine /\ right]
            /\ file' = IF file = None THEN None ELSE digest'
            /\ Goes("receiving")
      BY <1>11, <2>1 DEF Receive
    <3>2. digest' \in Contents
      BY <2>1, <3>1, OneMoreChunk DEF TypeOK
    <3> QED
      BY <3>1, <3>2, Constants, GoesTypes DEF TypeOK
  <2>2. CASE ~(Fits(digest.length) /\ ~late)
    BY <1>11, <2>2 DEF TypeOK, Receive, Goes
  <2> QED
    BY <2>1, <2>2
<1>12. CASE EndOfBody
  <2>1. digest' \in Contents /\ file' \in Contents \cup {None}
    BY <1>12, Constants DEF TypeOK, EndOfBody
  <2> QED
    BY <1>12, <2>1, GoesTypes, EndsTypes DEF EndOfBody
<1>13. CASE TransferFails
  <2>1. digest' \in Contents /\ file' \in Contents \cup {None}
    BY <1>13, Constants DEF TypeOK, TransferFails
  <2> QED
    BY <1>13, <2>1, GoesTypes, EndsTypes DEF TransferFails
<1>14. CASE Check
  <2>1. digest' \in Contents /\ file' \in Contents \cup {None}
    BY <1>14, Constants DEF TypeOK, Check
  <2> QED
    BY <1>14, <2>1, GoesTypes, EndsTypes DEF Check
<1>15. CASE Discard
  <2>1. digest' \in Contents /\ file' \in Contents \cup {None}
    BY <1>15, Constants DEF TypeOK, Discard
  <2> QED
    BY <1>15, <2>1, GoesTypes, EndsTypes DEF Discard
<1>16. CASE Launch
  BY <1>16, Constants DEF TypeOK, Launch
<1>17. CASE InstallRaises
  <2>1. digest' \in Contents /\ file' \in Contents \cup {None}
    BY <1>17, Constants DEF TypeOK, InstallRaises
  <2> QED
    BY <1>17, <2>1, GoesTypes, EndsTypes DEF InstallRaises
<1>18. CASE InstallReturns
  <2>1. digest' \in Contents /\ file' \in Contents \cup {None}
    BY <1>18, Constants DEF TypeOK, InstallReturns
  <2> QED
    BY <1>18, <2>1, GoesTypes, EndsTypes DEF InstallReturns
<1>19. CASE Late
  BY <1>19, Constants DEF TypeOK, Late
<1>20. CASE ToolLoads
  BY <1>20, Constants DEF TypeOK, ToolLoads
<1>21. CASE ToolEnds
  BY <1>21, Constants DEF TypeOK, ToolEnds
<1>22. CASE Stop
  BY <1>22, Constants DEF TypeOK, Stop
<1>23. CASE Exit
  BY <1>23, Constants DEF TypeOK, Exit, Gone
<1>24. CASE Kill
  BY <1>24, Constants DEF TypeOK, Kill, Gone
<1>25. CASE Start
  BY <1>25, Constants DEF TypeOK, Start
<1>26. CASE UNCHANGED vars
  BY <1>26 DEF TypeOK, vars
<1> QED
  BY <1>1, <1>2, <1>3, <1>4, <1>5, <1>6, <1>7, <1>8, <1>9, <1>9b, <1>10, <1>11, <1>12, <1>13, <1>14, <1>15, <1>16, <1>17, <1>18, <1>19, <1>20, <1>21, <1>22, <1>23, <1>24, <1>25, <1>26
     DEF Next, TaskStep, ThreadStep, ToolStep

(* Every step keeps what task, thread, tool and disk know of each other.   *)
LEMMA IInvStep == IInv /\ [Next]_vars => IInv'
<1> SUFFICES ASSUME IInv, [Next]_vars PROVE IInv'
  OBVIOUS
<1> USE DEF taskVars, threadVars, doneVars, diskVars, toolVars
<1>0. TypeOK /\ TypeOK'
  BY TypeStep DEF IInv
<1> SUFFICES (/\ OneCallAtATime /\ NoToolYet /\ WhoseTool /\ DiskIsDigest /\ DiskIsImage
              /\ NoDirectoryYet /\ WhoCreatesLate
              /\ LoadedIsVerified /\ RefusedIsDeleted /\ LeftoversAreExplained)'
  BY <1>0 DEF IInv
<1> USE DEF IInv, OneCallAtATime, NoToolYet, WhoseTool, DiskIsDigest, DiskIsImage, NoDirectoryYet,
    WhoCreatesLate, LoadedIsVerified, RefusedIsDeleted, LeftoversAreExplained, Downloading, Installing
<1>1. CASE Begin
  BY <1>0, <1>1, Constants DEF TypeOK, Begin
<1>2. CASE MakeDirectory
  BY <1>0, <1>2, Constants DEF TypeOK, MakeDirectory
<1>3. CASE MakeDirectoryFails
  BY <1>0, <1>3, Constants DEF TypeOK, MakeDirectoryFails
<1>4. CASE DownloadReturned
  BY <1>0, <1>4, Constants DEF TypeOK, DownloadReturned
<1>5. CASE CallFailed
  BY <1>0, <1>5, Constants DEF TypeOK, CallFailed
<1>6. CASE InstallReturned
  BY <1>0, <1>6, Constants DEF TypeOK, InstallReturned
<1>7. CASE RemoveFile
  BY <1>0, <1>7, Constants DEF TypeOK, RemoveFile
<1>8. CASE RemoveDirectory
  BY <1>0, <1>8, Constants DEF TypeOK, RemoveDirectory
<1>9. CASE RemovalFails
  BY <1>0, <1>9, Constants DEF TypeOK, RemovalFails
<1>9b. CASE DirectoryNotEmpty
  BY <1>0, <1>9b, Constants DEF TypeOK, DirectoryNotEmpty
<1>10. CASE Connect
  BY <1>0, <1>10, Constants DEF TypeOK, Connect, Goes
<1>11. CASE Receive
  BY <1>0, <1>11, Constants DEF TypeOK, Receive, Goes, Fits
<1>12. CASE EndOfBody
  BY <1>0, <1>12, Constants DEF TypeOK, EndOfBody, Goes
<1>13. CASE TransferFails
  BY <1>0, <1>13, Constants DEF TypeOK, TransferFails, Goes, Ends
<1>14. CASE Check
  BY <1>0, <1>14, Constants DEF TypeOK, Check, Goes, Ends
<1>15. CASE Discard
  BY <1>0, <1>15, Constants DEF TypeOK, Discard, Ends
<1>16. CASE Launch
  BY <1>0, <1>16, Constants DEF TypeOK, Launch
<1>17. CASE InstallRaises
  BY <1>0, <1>17, Constants DEF TypeOK, InstallRaises, Ends
<1>18. CASE InstallReturns
  BY <1>0, <1>18, Constants DEF TypeOK, InstallReturns, Ends
<1>19. CASE Late
  BY <1>0, <1>19, Constants DEF TypeOK, Late
<1>20. CASE ToolLoads
  BY <1>0, <1>20, Constants DEF TypeOK, ToolLoads
<1>21. CASE ToolEnds
  BY <1>0, <1>21, Constants DEF TypeOK, ToolEnds
<1>22. CASE Stop
  BY <1>0, <1>22, Constants DEF TypeOK, Stop
<1>23. CASE Exit
  BY <1>0, <1>23, Constants DEF TypeOK, Exit, Gone
<1>24. CASE Kill
  BY <1>0, <1>24, Constants DEF TypeOK, Kill, Gone
<1>25. CASE Start
  BY <1>0, <1>25, Constants DEF TypeOK, Start
<1>26. CASE UNCHANGED vars
  BY <1>26 DEF vars
<1> QED
  BY <1>1, <1>2, <1>3, <1>4, <1>5, <1>6, <1>7, <1>8, <1>9, <1>9b, <1>10, <1>11, <1>12, <1>13, <1>14, <1>15, <1>16, <1>17, <1>18, <1>19, <1>20, <1>21, <1>22, <1>23, <1>24, <1>25, <1>26
     DEF Next, TaskStep, ThreadStep, ToolStep

(* The inductive invariant.                                                *)
THEOREM Invariance == Safety => []IInv
BY IInvInit, IInvStep, PTL DEF Safety

(* Every reachable state is well-typed; the limit of the download holds.   *)
THEOREM TypeCorrect == Safety => []TypeOK
<1>1. IInv => TypeOK
  BY DEF IInv
<1> QED
  BY <1>1, Invariance, PTL

(* fwupdtool reads the file of the release or none.                        *)
THEOREM OnlyVerifiedIsLoaded == Safety => []LoadedIsVerified
<1>1. IInv => LoadedIsVerified
  BY DEF IInv
<1> QED
  BY <1>1, Invariance, PTL

(* With the server up, the file is only missed by a fwupdtool that install *)
(* has left alone by raising, in a flash that is a failure.                *)
THEOREM FileOutlivesLaunch == Safety => []FileStaysUntilGivenUp
<1>1. IInv => FileStaysUntilGivenUp
  BY DEF IInv, TypeOK, WhoseTool, DiskIsImage, FileStaysUntilGivenUp
<1> QED
  BY <1>1, Invariance, PTL

(* A download that is refused leaves no file.                              *)
THEOREM NothingRefusedStays == Safety => []RefusedIsDeleted
<1>1. IInv => RefusedIsDeleted
  BY DEF IInv
<1> QED
  BY <1>1, Invariance, PTL

(* Directories are left by kills, by disks that refuse and by stops that   *)
(* come before the download has created its file, and by nothing else.     *)
THEOREM DirectoriesAreRemoved == Safety => []LeftoversAreExplained
<1>1. IInv => LeftoversAreExplained
  BY DEF IInv
<1> QED
  BY <1>1, Invariance, PTL
=============================================================================
