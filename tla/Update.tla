------------------------------- MODULE Update -------------------------------
(***************************************************************************)
(* Software updates: the UpdateHandler of                                  *)
(* src/backend/internal/api/handlers/update.go, whose requests start       *)
(* downloads in the background, cancel them and install what is staged.    *)
(*                                                                         *)
(* Files are modelled as the system sees them.  A process writes to the    *)
(* file it opened, wherever its name is by then; creating a file that      *)
(* exists empties it under those who write to it; and removing one that    *)
(* somebody reads leaves it to its reader.  The update directory is in     *)
(* memory: it survives a restart of the process and not one of the device. *)
(*                                                                         *)
(* told, disturbed and overlapped are history variables: no guard reads    *)
(* them.                                                                   *)
(***************************************************************************)
EXTENDS Naturals, FiniteSets

CONSTANTS
  Versions,    (* the releases that can be downloaded                      *)
  Installed,   (* the version installed at first                           *)
  Downloads,   (* as many downloads as may run at a time                   *)
  Appliers,    (* as many requests to install as may run at a time         *)
  MaxRequests, (* bound on the requests in a behaviour                     *)
  None

ASSUME VersionsAssumption ==
  /\ Installed \notin Versions
  /\ None \notin Versions \cup {Installed, "mixed"}
  /\ {"mixed", "extracted", "binary", "backup"} \cap Versions = {}
ASSUME ActorsAssumption == Downloads \cap Appliers = {} /\ None \notin Downloads
ASSUME BoundAssumption == MaxRequests \in Nat

VARIABLES
  up,          (* the process runs                                         *)
  status,      (* currentDown: its Status and Version                      *)
  live,        (* the download that activeCancel ends                      *)
  cancelled,   (* the downloads whose context was cancelled                *)
  dpc, dver,   (* where each download is, and its version                  *)
  apc, aver,   (* where each request to install is, and its version        *)
  short,       (* requests whose source was emptied while they copied it   *)
  file,        (* the packages, the extracted binary, the installed binary *)
               (* and its backup                                           *)
  staged,      (* the contents of staged_version                           *)
  dir,         (* the update directory exists                              *)
  requests,    (* how many requests and restarts there were                *)
  told,        (* the version the user was told is installed               *)
  disturbed,   (* a download ran while it was cancelled or while an        *)
               (* installation did, or its package did not fit on the disk *)
  overlapped   (* two installations ran at the same time                   *)

handler  == <<status, live>>
download == <<cancelled, dpc, dver>>
apply    == <<apc, aver, short>>
files    == <<file, staged, dir>>
history  == <<told, disturbed, overlapped>>
vars     == <<up, requests, handler, download, apply, files, history>>

Statuses  == {"idle", "downloading", "ready", "error", "installing"}
Active    == {"checked", "extract", "extracting", "backup", "copy", "copying", "clean"}
AllVersions == Versions \cup {Installed}

-----------------------------------------------------------------------------
(* Files.                                                                  *)

(* The package of a version has the name of the version. *)
Names  == Versions \cup {"extracted", "binary", "backup"}
Temporary == Versions \cup {"extracted"}
NoFile == [from |-> None, whole |-> FALSE, by |-> {}]
Exists(n) == file[n].from # None
Whole(v)  == [from |-> v, whole |-> TRUE, by |-> {}]

(* Two who write different contents leave neither. *)
Created(n, p, v) ==
  [file EXCEPT ![n] = [from  |-> IF @.by \subseteq {p} \/ @.from = v THEN v ELSE "mixed",
                       whole |-> FALSE,
                       by    |-> @.by \cup {p}]]

(* p has written everything (good) or gives up, and closes its file, if it *)
(* still has a name.                                                       *)
Closed(p, good) ==
  [n \in Names |->
     IF p \in file[n].by
       THEN [from  |-> file[n].from,
             whole |-> good /\ file[n].by = {p} /\ file[n].from # "mixed",
             by    |-> file[n].by \ {p}]
       ELSE file[n]]

Renamed(f, old, new) ==
  IF f[old].from = None THEN f ELSE [f EXCEPT ![new] = f[old], ![old] = NoFile]

Emptied(f) == [n \in Names |-> IF n \in Temporary THEN NoFile ELSE f[n]]

(* Bound: nothing is asked of the handler, and nothing stops it, more than *)
(* MaxRequests times.                                                      *)
Request == requests < MaxRequests /\ requests' = requests + 1

-----------------------------------------------------------------------------
(* Downloads.                                                              *)

Running  == {d \in Downloads : dpc[d] # "none"}
Applying == {a \in Appliers : apc[a] \in Active}

SetStatus(s, v) == status' = [status |-> s, version |-> v]

(* Fault: the state is not looked at. *)
BeginDownloadAnyway(d, v) ==
  /\ up
  /\ Request
  /\ dpc[d] = "none"
  /\ SetStatus("downloading", v)
  /\ live' = d
  /\ dpc' = [dpc EXCEPT ![d] = "fetch"]
  /\ dver' = [dver EXCEPT ![d] = v]
  /\ disturbed' = (disturbed \/ Applying # {})
  /\ UNCHANGED <<up, cancelled, apply, files, told, overlapped>>

(* handleDownload; while the state is downloading it starts nothing. *)
BeginDownload(d, v) ==
  /\ up
  /\ Request
  /\ dpc[d] = "none"
  /\ status.status # "downloading"
  /\ SetStatus("downloading", v)
  /\ live' = d
  /\ dpc' = [dpc EXCEPT ![d] = "fetch"]
  /\ dver' = [dver EXCEPT ![d] = v]
  /\ disturbed' = (disturbed \/ Applying # {})
  /\ UNCHANGED <<up, cancelled, apply, files, told, overlapped>>

(* The goroutine of a download ends.  A later one may have its identity. *)
Ends(d) ==
  /\ dpc' = [dpc EXCEPT ![d] = "none"]
  /\ dver' = [dver EXCEPT ![d] = None]
  /\ cancelled' = cancelled \ {d}
  /\ live' = IF live = d THEN None ELSE live

(* Fault: the state is left as it is. *)
FetchFailsSilently(d) ==
  /\ dpc[d] = "fetch"
  /\ Ends(d)
  /\ UNCHANGED <<up, requests, status, apply, files, history>>

(* There is no package for the version, the request fails or is cancelled, *)
(* or the file cannot be created. *)
FetchFails(d) ==
  /\ dpc[d] = "fetch"
  /\ SetStatus("error", dver[d])
  /\ Ends(d)
  /\ dir' \in {dir, TRUE}
  /\ UNCHANGED <<up, requests, apply, file, staged, history>>

OpenPackage(d) ==
  /\ dpc[d] = "fetch"
  /\ dir' = TRUE
  /\ file' = Created(dver[d], d, dver[d])
  /\ dpc' = [dpc EXCEPT ![d] = "read"]
  /\ UNCHANGED <<up, requests, handler, cancelled, dver, apply, staged, history>>

(* The read loop finds its context cancelled: it removes the package by    *)
(* its name.                                                               *)
ReadCancelled(d) ==
  /\ dpc[d] = "read"
  /\ d \in cancelled
  /\ file' = [Closed(d, FALSE) EXCEPT ![dver[d]] = NoFile]
  /\ SetStatus("idle", None)
  /\ Ends(d)
  /\ UNCHANGED <<up, requests, apply, staged, dir, history>>

(* Fault: a read that fails counts as the end of the package. *)
ReadFailsAsEnd(d) ==
  /\ dpc[d] = "read"
  /\ dpc' = [dpc EXCEPT ![d] = "stage"]
  /\ file' = Closed(d, FALSE)
  /\ UNCHANGED <<up, requests, handler, cancelled, dver, apply, staged, dir, history>>

(* Reading fails: the server, the client's timeout of 30 seconds, or the   *)
(* cancellation.                                                           *)
ReadFails(d) ==
  /\ dpc[d] = "read"
  /\ file' = Closed(d, FALSE)
  /\ SetStatus("error", dver[d])
  /\ Ends(d)
  /\ UNCHANGED <<up, requests, apply, staged, dir, history>>

(* The end of the package.  Errors of writing it are ignored. *)
ReadEnds(d) ==
  /\ dpc[d] = "read"
  /\ dpc' = [dpc EXCEPT ![d] = "stage"]
  /\ \/ file' = Closed(d, TRUE) /\ UNCHANGED disturbed
     \/ file' = Closed(d, FALSE) /\ disturbed' = TRUE
  /\ UNCHANGED <<up, requests, handler, cancelled, dver, apply, staged, dir, told, overlapped>>

(* staged_version is written, if the directory still exists. *)
StageVersion(d) ==
  /\ dpc[d] = "stage"
  /\ staged' = IF dir THEN dver[d] ELSE staged
  /\ dpc' = [dpc EXCEPT ![d] = "ready"]
  /\ UNCHANGED <<up, requests, handler, cancelled, dver, apply, file, dir, history>>

SetReady(d) ==
  /\ dpc[d] = "ready"
  /\ SetStatus("ready", dver[d])
  /\ Ends(d)
  /\ UNCHANGED <<up, requests, apply, files, history>>

(* cancelActiveDownload, which also resets the state of an installation. *)
Cancel ==
  /\ up
  /\ Request
  /\ cancelled' = IF live = None THEN cancelled ELSE cancelled \cup {live}
  /\ live' = None
  /\ SetStatus("idle", None)
  /\ disturbed' = (disturbed \/ Running # {})
  /\ UNCHANGED <<up, dpc, dver, apply, files, told, overlapped>>

-----------------------------------------------------------------------------
(* handleApply.                                                            *)

MoveTo(a, location) == apc' = [apc EXCEPT ![a] = location]

(* checkStagedDownload; without a staged package the request is refused. *)
BeginApply(a) ==
  /\ up
  /\ Request
  /\ apc[a] = "none"
  /\ staged # None
  /\ Exists(staged)
  /\ aver' = [aver EXCEPT ![a] = staged]
  /\ MoveTo(a, "checked")
  /\ disturbed' = (disturbed \/ Running # {})
  /\ overlapped' = (overlapped \/ Applying # {})
  /\ UNCHANGED <<up, handler, download, short, files, told>>

SetInstalling(a) ==
  /\ apc[a] = "checked"
  /\ SetStatus("installing", aver[a])
  /\ MoveTo(a, "extract")
  /\ UNCHANGED <<up, requests, live, download, aver, short, files, history>>

(* The request ends with an error. *)
ApplyFails(a) ==
  /\ SetStatus("error", aver[a])
  /\ MoveTo(a, "none")
  /\ aver' = [aver EXCEPT ![a] = None]
  /\ short' = short \ {a}
  /\ UNCHANGED <<up, requests, live, download, staged, history>>

(* extractBinaryFromTar creates the extracted binary, also one that        *)
(* somebody else is copying.                                               *)
ExtractBegins(a) ==
  /\ apc[a] = "extract"
  /\ Exists(aver[a])
  /\ dir' = TRUE
  /\ file' = Created("extracted", a, aver[a])
  /\ short' = IF Exists("extracted") THEN short \cup {b \in Appliers : apc[b] = "copying"}
                                     ELSE short
  /\ MoveTo(a, "extracting")
  /\ UNCHANGED <<up, requests, handler, download, aver, staged, history>>

(* An incomplete package ends with an error of the decompression; one that *)
(* is written or removed meanwhile may still have been read in full.       *)
ExtractEnds(a) ==
  /\ apc[a] = "extracting"
  /\ file[aver[a]].whole \/ file[aver[a]].by # {} \/ ~Exists(aver[a])
  /\ file' = Closed(a, TRUE)
  /\ MoveTo(a, "backup")
  /\ UNCHANGED <<up, requests, handler, download, aver, short, staged, dir, history>>

(* The package is gone or broken, or the disk is full. *)
ExtractFails(a) ==
  /\ apc[a] \in {"extract", "extracting"}
  /\ file' = Closed(a, FALSE)
  /\ dir' = TRUE
  /\ ApplyFails(a)

(* Fault: the running binary is overwritten. *)
BackupNothing(a) ==
  /\ apc[a] = "backup"
  /\ MoveTo(a, "copy")
  /\ UNCHANGED <<up, requests, handler, download, aver, short, files, history>>

(* The installed binary becomes the backup, if there is one. *)
Backup(a) ==
  /\ apc[a] = "backup"
  /\ file' = Renamed(file, "binary", "backup")
  /\ MoveTo(a, "copy")
  /\ UNCHANGED <<up, requests, handler, download, aver, short, staged, dir, history>>

(* copyFile opens the extracted binary and creates the installed one. *)
CopyBegins(a) ==
  /\ apc[a] = "copy"
  /\ Exists("extracted")
  /\ file' = Created("binary", a, file["extracted"].from)
  /\ short' = IF file["extracted"].whole THEN short ELSE short \cup {a}
  /\ MoveTo(a, "copying")
  /\ UNCHANGED <<up, requests, handler, download, aver, staged, dir, history>>

(* The copy ends with its source. *)
CopyEnds(a) ==
  /\ apc[a] = "copying"
  /\ file' = Closed(a, a \notin short)
  /\ short' = short \ {a}
  /\ MoveTo(a, "clean")
  /\ UNCHANGED <<up, requests, handler, download, aver, staged, dir, history>>

(* Fault: it is not renamed back. *)
CopyFailsWithoutRestore(a) ==
  /\ apc[a] \in {"copy", "copying"}
  /\ file' = Closed(a, FALSE)
  /\ ApplyFails(a)
  /\ UNCHANGED dir

(* The extracted binary is gone, or the disk is full: the backup is        *)
(* renamed back.                                                           *)
CopyFails(a) ==
  /\ apc[a] \in {"copy", "copying"}
  /\ file' = Renamed(Closed(a, FALSE), "backup", "binary")
  /\ ApplyFails(a)
  /\ UNCHANGED dir

(* The update directory is removed, and the user told of the success. *)
CleanUp(a) ==
  /\ apc[a] = "clean"
  /\ file' = Emptied(file)
  /\ staged' = None
  /\ dir' = FALSE
  /\ told' = aver[a]
  /\ MoveTo(a, "restart")
  /\ UNCHANGED <<up, requests, handler, download, aver, short, disturbed, overlapped>>

-----------------------------------------------------------------------------
(* The process and the device.                                             *)

(* The process ends, by itself, for the restart of an installation or with *)
(* the device; in the last case the update directory is lost.              *)
Stop ==
  /\ up
  /\ Request
  /\ up' = FALSE
  /\ SetStatus("idle", None)
  /\ live' = None
  /\ cancelled' = {}
  /\ dpc' = [d \in Downloads |-> "none"] /\ dver' = [d \in Downloads |-> None]
  /\ apc' = [a \in Appliers |-> "none"] /\ aver' = [a \in Appliers |-> None]
  /\ short' = {}
  /\ LET left == [n \in Names |-> [file[n] EXCEPT !.by = {}]]
     IN  \/ file' = left /\ UNCHANGED <<staged, dir>>
         \/ file' = Emptied(left) /\ staged' = None /\ dir' = FALSE
  /\ UNCHANGED history

(* It is started again, as often as it takes, if its binary is complete. *)
Start ==
  /\ ~up
  /\ file["binary"].whole
  /\ up' = TRUE
  /\ told' = file["binary"].from
  /\ disturbed' = FALSE
  /\ overlapped' = FALSE
  /\ UNCHANGED <<requests, handler, download, apply, files>>

(* The restart that the installation asks for fails. *)
RestartFails(a) ==
  /\ apc[a] = "restart"
  /\ MoveTo(a, "none")
  /\ aver' = [aver EXCEPT ![a] = None]
  /\ UNCHANGED <<up, requests, handler, download, short, files, history>>

-----------------------------------------------------------------------------

Init ==
  /\ up = TRUE
  /\ requests = 0
  /\ status = [status |-> "idle", version |-> None]
  /\ live = None
  /\ cancelled = {}
  /\ dpc = [d \in Downloads |-> "none"]
  /\ dver = [d \in Downloads |-> None]
  /\ apc = [a \in Appliers |-> "none"]
  /\ aver = [a \in Appliers |-> None]
  /\ short = {}
  /\ file = [n \in Names |-> IF n = "binary" THEN Whole(Installed) ELSE NoFile]
  /\ staged = None
  /\ dir = FALSE
  /\ told = Installed
  /\ disturbed = FALSE
  /\ overlapped = FALSE

Downloading(d) ==
  \/ FetchFails(d) \/ OpenPackage(d) \/ ReadCancelled(d) \/ ReadFails(d) \/ ReadEnds(d)
  \/ StageVersion(d) \/ SetReady(d)

Installing(a) ==
  \/ SetInstalling(a) \/ ExtractBegins(a) \/ ExtractEnds(a) \/ ExtractFails(a) \/ Backup(a)
  \/ CopyBegins(a) \/ CopyEnds(a) \/ CopyFails(a) \/ CleanUp(a) \/ RestartFails(a)

Next ==
  \/ \E d \in Downloads : (\E v \in Versions : BeginDownload(d, v)) \/ Downloading(d)
  \/ \E a \in Appliers : BeginApply(a) \/ Installing(a)
  \/ Cancel \/ Stop \/ Start

Spec == Init /\ [][Next]_vars

-----------------------------------------------------------------------------
(* Properties.                                                             *)

File == [from : AllVersions \cup {None, "mixed"}, whole : BOOLEAN,
         by : SUBSET (Downloads \cup Appliers)]

TypeOK ==
  /\ up \in BOOLEAN
  /\ requests \in 0..MaxRequests
  /\ status \in [status : Statuses, version : Versions \cup {None}]
  /\ live \in Downloads \cup {None}
  /\ cancelled \subseteq Running
  /\ dpc \in [Downloads -> {"none", "fetch", "read", "stage", "ready"}]
  /\ dver \in [Downloads -> Versions \cup {None}]
  /\ apc \in [Appliers -> Active \cup {"none", "restart"}]
  /\ aver \in [Appliers -> Versions \cup {None}]
  /\ short \subseteq Appliers
  /\ file \in [Names -> File]
  /\ staged \in Versions \cup {None}
  /\ dir \in BOOLEAN
  /\ told \in AllVersions
  /\ disturbed \in BOOLEAN /\ overlapped \in BOOLEAN

(* Wherever an installation stops, a complete binary is left: the one in   *)
(* place or its backup.                                                    *)
Recoverable == ~overlapped => file["binary"].whole \/ file["backup"].whole

(* An installation that has ended did all or nothing: the binary in place  *)
(* is complete and of the version that the user has been told.             *)
AllOrNothing == up /\ ~overlapped /\ Applying = {} => file["binary"] = Whole(told)

(* As long as no running download is cancelled or meets an installation,   *)
(* there is one at a time.                                                 *)
OneDownload == ~disturbed => Cardinality(Running) <= 1

(* Under the same condition what the status calls ready is there to be     *)
(* installed.                                                              *)
ReadyMeansStaged ==
  ~disturbed /\ status.status = "ready"
    => staged = status.version /\ file[staged] = Whole(staged)

(* What the status calls a download is one: it has a goroutine that sets   *)
(* another state when it ends, and the next download is not refused for    *)
(* ever.                                                                   *)
DownloadingIsTrue == status.status = "downloading" => Running # {}

(* What is started after the next stop, if need be once the backup is put  *)
(* back.                                                                   *)
Startable == IF file["binary"].whole THEN file["binary"].from ELSE file["backup"].from

(* An installation takes effect at once: what is started after a stop is   *)
(* the version that the user has been told, until the copy of the new one  *)
(* is complete, and the new one from then on.                              *)
InstallsAtOnce ==
  [][~overlapped' /\ Startable' # Startable
       => /\ Startable = told
          /\ \E a \in Appliers : apc[a] = "copying" /\ Startable' = aver[a]]_vars

(* The comment before the replacement of the binary says that it is        *)
(* replaced atomically, if possible: there is a complete one at all times. *)
AlwaysABinary == file["binary"].whole
=============================================================================
