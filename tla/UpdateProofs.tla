---------------------------- MODULE UpdateProofs ----------------------------
(***************************************************************************)
(* Proofs about software updates, for any set of versions, any number of   *)
(* downloads and installations at a time and any number of requests.       *)
(***************************************************************************)
EXTENDS Update, FiniteSetTheorems, TLAPS

-----------------------------------------------------------------------------
(* The inductive invariant.                                                *)

Actors == Downloads \cup Appliers
Content == AllVersions \cup {"mixed"}

(* Who is active has a version; nobody is while the process is down.       *)
ActorsInv ==
  /\ live # None => dpc[live] # "none"
  /\ \A d \in Downloads : dpc[d] # "none" => dver[d] \in Versions
  /\ \A a \in Appliers : apc[a] # "none" => aver[a] \in Versions
  /\ ~up => /\ Running = {}
            /\ \A a \in Appliers : apc[a] = "none"
            /\ \A n \in Names : file[n].by = {}
            /\ status.status = "idle"
            /\ short = {}

(* Nobody writes to a complete file, what is written to exists, and who    *)
(* writes to which file.                                                   *)
Sound(f) ==
  \A n \in Names :
    /\ f[n].whole => f[n].by = {} /\ f[n].from \in AllVersions
    /\ f[n].by # {} => f[n].from # None

WritersInv ==
  \A n \in Names :
    IF n \in Versions
      THEN \A d \in file[n].by : d \in Downloads /\ dpc[d] = "read" /\ dver[d] = n
      ELSE file[n].by \subseteq Appliers

(* Without overlapping installations there is one at most, and its place   *)
(* says what the extracted binary, the binary and the backup hold.         *)
Alone(a) ==
  /\ apc[a] = "extracting" =>
       file["extracted"] = [from |-> aver[a], whole |-> FALSE, by |-> {a}]
  /\ apc[a] \in {"backup", "copy", "copying"} => file["extracted"] = Whole(aver[a])
  /\ apc[a] \in {"copy", "copying"} => file["backup"] = Whole(told)
  /\ apc[a] = "copy" => file["binary"] = NoFile
  /\ apc[a] = "copying" => file["binary"] = [from |-> aver[a], whole |-> FALSE, by |-> {a}]
  /\ apc[a] = "clean" => file["binary"] = Whole(aver[a])

Quiet ==
  /\ file["binary"].whole \/ file["backup"].whole
  /\ short = {}
  /\ \A a, b \in Applying : a = b
  /\ \A a \in Applying : Alone(a)
  /\ (\A a \in Appliers : apc[a] # "extracting") => file["extracted"].by = {}
  /\ up /\ (\A a \in Appliers : apc[a] \notin {"copy", "copying", "clean"})
       => file["binary"] = Whole(told)

QuietInv == ~overlapped => Quiet

(* While no download is disturbed there is one at most, the status says    *)
(* so, and its place says what its package and staged_version hold.        *)
Undisturbed(d) ==
  /\ status.status = "downloading"
  /\ dpc[d] # "fetch" => dir
  /\ dpc[d] = "read" => file[dver[d]].from = dver[d] /\ file[dver[d]].by = {d}
  /\ dpc[d] \in {"stage", "ready"} => file[dver[d]] = Whole(dver[d])
  /\ dpc[d] = "ready" => staged = dver[d]

Calm ==
  /\ Running = {} \/ Applying = {}
  /\ \A c, d \in Running : c = d
  /\ \A d \in Running : Undisturbed(d)
  /\ status.status = "ready" =>
       /\ staged = status.version /\ staged \in Versions
       /\ file[staged] = Whole(staged)
       /\ \A a \in Applying : apc[a] = "checked"

CalmInv == ~disturbed => Calm

Base == TypeOK /\ ActorsInv /\ Sound(file) /\ WritersInv

Inv == Base /\ QuietInv /\ CalmInv /\ DownloadingIsTrue

-----------------------------------------------------------------------------
(* Lemmas about the operations on files.                                   *)

Files == [Names -> File]

(* Creating a file leaves the other files alone. *)
LEMMA CreatedOthers ==
  ASSUME file \in Files, NEW n \in Names, NEW p, NEW v, NEW m \in Names, m # n
  PROVE  Created(n, p, v)[m] = file[m]
BY DEF Created, Files

(* A lone writer decides what a file holds. *)
LEMMA CreatedAlone ==
  ASSUME file \in Files, NEW n \in Names, NEW p, NEW v, file[n].by = {}
  PROVE  Created(n, p, v)[n] = [from |-> v, whole |-> FALSE, by |-> {p}]
<1>1. file[n].by \subseteq {p} /\ file[n].by \cup {p} = {p}
  OBVIOUS
<1> QED
  BY <1>1 DEF Created, Files

(* Creating a file leaves an incomplete one to its writers. *)
LEMMA CreatedFile ==
  ASSUME file \in Files, Sound(file), NEW n \in Names, NEW p \in Actors, NEW v \in Content
  PROVE  /\ Created(n, p, v) \in Files /\ Sound(Created(n, p, v))
         /\ Created(n, p, v)[n].by = file[n].by \cup {p}
<1> DEFINE from == IF file[n].by \subseteq {p} \/ file[n].from = v THEN v ELSE "mixed"
           new  == [from |-> from, whole |-> FALSE, by |-> file[n].by \cup {p}]
<1>1. from \in Content /\ new \in File
  BY DEF Files, File, Actors, Content
<1>2. Created(n, p, v) = [file EXCEPT ![n] = new]
  BY DEF Created
<1>3. from # None
  BY <1>1, VersionsAssumption DEF Content, AllVersions
<1> HIDE DEF from
<1>4. Created(n, p, v) \in Files /\ \A m \in Names : m # n => Created(n, p, v)[m] = file[m]
  BY <1>1, <1>2 DEF Files
<1>5. Created(n, p, v)[n] = new
  BY <1>2 DEF Files
<1>6. Sound(Created(n, p, v))
  BY <1>3, <1>4, <1>5 DEF Sound
<1> QED
  BY <1>4, <1>5, <1>6

(* Closing concerns only the files that p writes to. *)
LEMMA ClosedOthers ==
  ASSUME NEW p, NEW good, NEW n \in Names, p \notin file[n].by
  PROVE  Closed(p, good)[n] = file[n]
BY DEF Closed

(* What p alone has written in full is complete. *)
LEMMA ClosedAlone ==
  ASSUME NEW p, NEW n \in Names, NEW v, v # "mixed",
         file[n].from = v, file[n].by = {p}
  PROVE  Closed(p, TRUE)[n] = Whole(v)
BY DEF Closed, Whole

(* Whatever p wrote, it writes no longer. *)
LEMMA ClosedFile ==
  ASSUME file \in Files, Sound(file), NEW p \in Actors, NEW good \in BOOLEAN
  PROVE  /\ Closed(p, good) \in Files /\ Sound(Closed(p, good))
         /\ \A n \in Names : Closed(p, good)[n].by = file[n].by \ {p}
<1> DEFINE closed(n) == [from  |-> file[n].from,
                        whole |-> good /\ file[n].by = {p} /\ file[n].from # "mixed",
                        by    |-> file[n].by \ {p}]
<1>1. \A n \in Names : closed(n) \in File
  BY DEF Files, File
<1>2. \A n \in Names : Closed(p, good)[n] = IF p \in file[n].by THEN closed(n) ELSE file[n]
  BY DEF Closed
<1>3. Closed(p, good) \in Files
  BY <1>1 DEF Closed, Files
<1>4. \A n \in Names : Closed(p, good)[n].by = file[n].by \ {p}
  <2> SUFFICES ASSUME NEW n \in Names PROVE Closed(p, good)[n].by = file[n].by \ {p}
    OBVIOUS
  <2>1. CASE p \in file[n].by
    <3>1. Closed(p, good)[n] = closed(n)
      BY <1>2, <2>1
    <3>2. closed(n).by = file[n].by \ {p}
      OBVIOUS
    <3> QED
      BY <3>1, <3>2
  <2>2. CASE p \notin file[n].by
    <3>1. file[n].by \ {p} = file[n].by
      BY <2>2
    <3> QED
      BY <1>2, <2>2, <3>1
  <2> QED
    BY <2>1, <2>2
<1>5. Sound(Closed(p, good))
  <2> SUFFICES ASSUME NEW n \in Names
               PROVE  /\ Closed(p, good)[n].whole => /\ Closed(p, good)[n].by = {}
                                                     /\ Closed(p, good)[n].from \in AllVersions
                      /\ Closed(p, good)[n].by # {} => Closed(p, good)[n].from # None
    BY DEF Sound
  <2>1. file[n] \in File
    BY DEF Files
  <2>2. CASE p \in file[n].by
    <3>1. file[n].from # None /\ file[n].from \in AllVersions \cup {None, "mixed"}
      BY <2>1, <2>2 DEF Sound, File
    <3>2. Closed(p, good)[n] = closed(n)
      BY <1>2, <2>2
    <3>3. closed(n).whole => closed(n).by = {} /\ closed(n).from \in AllVersions
      BY <3>1
    <3> QED
      BY <3>1, <3>2, <3>3
  <2>3. CASE p \notin file[n].by
    BY <1>2, <2>3 DEF Sound
  <2> QED
    BY <2>2, <2>3
<1> QED
  BY <1>3, <1>4, <1>5

(* A renamed file is what it was, under its new name. *)
LEMMA RenamedFile ==
  ASSUME NEW f \in Files, Sound(f), NEW old \in Names, NEW new \in Names, old # new
  PROVE  /\ Renamed(f, old, new) \in Files /\ Sound(Renamed(f, old, new))
         /\ \A n \in Names : n \notin {old, new} => Renamed(f, old, new)[n] = f[n]
         /\ f[old].from # None =>
              Renamed(f, old, new)[new] = f[old] /\ Renamed(f, old, new)[old] = NoFile
         /\ f[old].from = None => Renamed(f, old, new) = f
<1>1. NoFile \in File /\ ~NoFile.whole /\ NoFile.by = {}
  BY DEF NoFile, File
<1>2. CASE f[old].from = None
  BY <1>2 DEF Renamed
<1>3. CASE f[old].from # None
  <2>1. Renamed(f, old, new) = [f EXCEPT ![new] = f[old], ![old] = NoFile]
    BY <1>3 DEF Renamed
  <2>2. /\ Renamed(f, old, new) \in Files
        /\ \A n \in Names : n \notin {old, new} => Renamed(f, old, new)[n] = f[n]
        /\ Renamed(f, old, new)[new] = f[old] /\ Renamed(f, old, new)[old] = NoFile
    BY <1>1, <2>1 DEF Files
  <2>3. Sound(Renamed(f, old, new))
    BY <1>1, <2>2 DEF Sound
  <2> QED
    BY <1>3, <2>2, <2>3
<1> QED
  BY <1>2, <1>3

(* The update directory is removed: the other files stay. *)
LEMMA EmptiedFile ==
  ASSUME NEW f \in Files, Sound(f)
  PROVE  /\ Emptied(f) \in Files /\ Sound(Emptied(f))
         /\ Emptied(f)["binary"] = f["binary"] /\ Emptied(f)["backup"] = f["backup"]
         /\ Emptied(f)["extracted"] = NoFile
         /\ \A n \in Names : Emptied(f)[n].by \subseteq f[n].by
<1>1. NoFile \in File /\ ~NoFile.whole /\ NoFile.by = {}
  BY DEF NoFile, File
<1>2. "binary" \notin Temporary /\ "backup" \notin Temporary /\ "extracted" \in Temporary
  BY VersionsAssumption DEF Temporary
<1>3. Emptied(f) \in Files /\ \A n \in Names : Emptied(f)[n] \in {f[n], NoFile}
  BY <1>1 DEF Emptied, Files
<1>4. Sound(Emptied(f)) /\ \A n \in Names : Emptied(f)[n].by \subseteq f[n].by
  BY <1>1, <1>3 DEF Sound
<1> QED
  BY <1>2, <1>3, <1>4 DEF Emptied, Names

-----------------------------------------------------------------------------
(* Types, and who writes to which file.                           *)

(* Every operation on the files leaves them sound. *)
LEMMA FilesStep == ASSUME Base, [Next]_vars PROVE file' \in Files /\ Sound(file')
<1>1. file \in Files /\ Sound(file)
  BY DEF Base, TypeOK, Files
<1>2. CASE UNCHANGED file
  BY <1>1, <1>2
<1>3. /\ {"extracted", "binary", "backup"} \subseteq Names /\ Versions \subseteq Names
      /\ Versions \subseteq Content
      /\ Downloads \subseteq Actors /\ Appliers \subseteq Actors
  BY DEF Names, Content, AllVersions, Actors
<1>4. ASSUME NEW d \in Downloads, dpc[d] # "none" PROVE dver[d] \in Versions
  BY <1>4 DEF Base, ActorsInv
<1>5. ASSUME NEW a \in Appliers, apc[a] # "none" PROVE aver[a] \in Versions
  BY <1>5 DEF Base, ActorsInv
<1>6. ASSUME NEW d \in Downloads, Downloading(d) PROVE file' \in Files /\ Sound(file')
  <2>1. dpc[d] # "none"
    BY <1>6
       DEF Downloading, FetchFails, OpenPackage, ReadCancelled, ReadFails, ReadEnds,
           StageVersion, SetReady
  <2>2. CASE OpenPackage(d)
    BY <1>1, <1>3, <1>4, <2>1, <2>2, CreatedFile DEF OpenPackage
  <2>3. CASE ReadCancelled(d)
    <3>1. Closed(d, FALSE) \in Files /\ Sound(Closed(d, FALSE))
      BY <1>1, <1>3, ClosedFile
    <3>2. NoFile \in File /\ ~NoFile.whole /\ NoFile.by = {}
      BY DEF NoFile, File
    <3>3. file' = [Closed(d, FALSE) EXCEPT ![dver[d]] = NoFile]
      BY <2>3 DEF ReadCancelled
    <3> QED
      BY <3>1, <3>2, <3>3 DEF Files, Sound
  <2>4. CASE ReadFails(d) \/ ReadEnds(d)
    BY <1>1, <1>3, <2>4, ClosedFile DEF ReadFails, ReadEnds
  <2>5. CASE FetchFails(d) \/ StageVersion(d) \/ SetReady(d)
    BY <1>2, <2>5 DEF FetchFails, StageVersion, SetReady, files
  <2> QED
    BY <1>6, <2>2, <2>3, <2>4, <2>5 DEF Downloading
<1>7. ASSUME NEW a \in Appliers, Installing(a) PROVE file' \in Files /\ Sound(file')
  <2>1. CASE ExtractBegins(a)
    BY <1>1, <1>3, <1>5, <2>1, CreatedFile DEF ExtractBegins
  <2>2. CASE ExtractEnds(a) \/ ExtractFails(a) \/ CopyEnds(a)
    BY <1>1, <1>3, <2>2, ClosedFile DEF ExtractEnds, ExtractFails, CopyEnds
  <2>3. CASE Backup(a)
    BY <1>1, <1>3, <2>3, RenamedFile DEF Backup
  <2>4. CASE CopyBegins(a)
    <3>1. file["extracted"].from \in Content
      BY <1>1, <1>3, <2>4 DEF CopyBegins, Exists, Files, File, Content
    <3> QED
      BY <1>1, <1>3, <2>4, <3>1, CreatedFile DEF CopyBegins
  <2>5. CASE CopyFails(a)
    <3>1. Closed(a, FALSE) \in Files /\ Sound(Closed(a, FALSE))
      BY <1>1, <1>3, ClosedFile
    <3> QED
      BY <1>3, <2>5, <3>1, RenamedFile DEF CopyFails
  <2>6. CASE CleanUp(a)
    BY <1>1, <2>6, EmptiedFile DEF CleanUp
  <2>7. CASE SetInstalling(a) \/ RestartFails(a)
    BY <1>2, <2>7 DEF SetInstalling, RestartFails, files
  <2> QED
    BY <1>7, <2>1, <2>2, <2>3, <2>4, <2>5, <2>6, <2>7 DEF Installing
<1>8. ASSUME Stop PROVE file' \in Files /\ Sound(file')
  <2> DEFINE left == [n \in Names |-> [file[n] EXCEPT !.by = {}]]
  <2>1. left \in Files /\ Sound(left)
    BY <1>1 DEF Files, File, Sound
  <2>2. file' \in {left, Emptied(left)}
    BY <1>8 DEF Stop
  <2> QED
    BY <2>1, <2>2, EmptiedFile
<1>9. CASE UNCHANGED vars
  BY <1>2, <1>9 DEF vars, files
<1>10. ASSUME \/ \E d \in Downloads, v \in Versions : BeginDownload(d, v)
              \/ \E a \in Appliers : BeginApply(a)
              \/ Cancel \/ Start
       PROVE  UNCHANGED file
  BY <1>10 DEF BeginDownload, BeginApply, Cancel, Start, files
<1> QED
  BY <1>2, <1>6, <1>7, <1>8, <1>9, <1>10 DEF Next

(* Every value stays in its type. *)
LEMMA TypesStep == ASSUME Base, [Next]_vars PROVE TypeOK'
<1>1. file' \in [Names -> File]
  BY FilesStep DEF Files
<1>2. TypeOK
  BY DEF Base
<1>3. ASSUME NEW d \in Downloads, NEW v \in Versions, BeginDownload(d, v) PROVE TypeOK'
  BY <1>1, <1>2, <1>3, BoundAssumption
     DEF BeginDownload, TypeOK, Running, Request, SetStatus, Statuses, apply, files
<1>4. ASSUME NEW d \in Downloads, FetchFails(d) PROVE TypeOK'
  BY <1>1, <1>2, <1>4
     DEF FetchFails, TypeOK, Ends, Running, SetStatus, Statuses, apply, history
<1>5. ASSUME NEW d \in Downloads, OpenPackage(d) PROVE TypeOK'
  BY <1>1, <1>2, <1>5 DEF OpenPackage, TypeOK, Running, handler, apply, history
<1>6. ASSUME NEW d \in Downloads, ReadCancelled(d) PROVE TypeOK'
  BY <1>1, <1>2, <1>6
     DEF ReadCancelled, TypeOK, Ends, Running, SetStatus, Statuses, apply, history
<1>7. ASSUME NEW d \in Downloads, ReadFails(d) PROVE TypeOK'
  BY <1>1, <1>2, <1>7
     DEF ReadFails, TypeOK, Ends, Running, SetStatus, Statuses, apply, history
<1>8. ASSUME NEW d \in Downloads, ReadEnds(d) PROVE TypeOK'
  BY <1>1, <1>2, <1>8 DEF ReadEnds, TypeOK, Running, handler, apply
<1>9. ASSUME NEW d \in Downloads, StageVersion(d) PROVE TypeOK'
  BY <1>1, <1>2, <1>9 DEF StageVersion, TypeOK, Running, handler, apply, history
<1>10. ASSUME NEW d \in Downloads, SetReady(d) PROVE TypeOK'
  BY <1>1, <1>2, <1>10
     DEF SetReady, TypeOK, Ends, Running, SetStatus, Statuses, apply, files, history
<1>11. ASSUME NEW a \in Appliers, BeginApply(a) PROVE TypeOK'
  BY <1>1, <1>2, <1>11, BoundAssumption
     DEF BeginApply, TypeOK, Running, MoveTo, Active, Request, handler, download,
         files
<1>12. ASSUME NEW a \in Appliers, SetInstalling(a) PROVE TypeOK'
  BY <1>1, <1>2, <1>12
     DEF SetInstalling, TypeOK, Running, SetStatus, Statuses, MoveTo, Active,
         download, files, history
<1>13. ASSUME NEW a \in Appliers, ExtractBegins(a) PROVE TypeOK'
  BY <1>1, <1>2, <1>13
     DEF ExtractBegins, TypeOK, Running, MoveTo, Active, handler, download, history
<1>14. ASSUME NEW a \in Appliers, ExtractEnds(a) PROVE TypeOK'
  BY <1>1, <1>2, <1>14
     DEF ExtractEnds, TypeOK, Running, MoveTo, Active, handler, download, history
<1>15. ASSUME NEW a \in Appliers, ExtractFails(a) PROVE TypeOK'
  BY <1>1, <1>2, <1>15
     DEF ExtractFails, TypeOK, Running, SetStatus, Statuses, MoveTo, Active,
         ApplyFails, download, history
<1>16. ASSUME NEW a \in Appliers, Backup(a) PROVE TypeOK'
  BY <1>1, <1>2, <1>16
     DEF Backup, TypeOK, Running, MoveTo, Active, handler, download, history
<1>17. ASSUME NEW a \in Appliers, CopyBegins(a) PROVE TypeOK'
  BY <1>1, <1>2, <1>17
     DEF CopyBegins, TypeOK, Running, MoveTo, Active, handler, download, history
<1>18. ASSUME NEW a \in Appliers, CopyEnds(a) PROVE TypeOK'
  BY <1>1, <1>2, <1>18
     DEF CopyEnds, TypeOK, Running, MoveTo, Active, handler, download, history
<1>19. ASSUME NEW a \in Appliers, CopyFails(a) PROVE TypeOK'
  BY <1>1, <1>2, <1>19
     DEF CopyFails, TypeOK, Running, SetStatus, Statuses, MoveTo, Active,
         ApplyFails, download, history
<1>20. ASSUME NEW a \in Appliers, CleanUp(a) PROVE TypeOK'
  <2>1. aver[a] \in AllVersions
    BY <1>20 DEF CleanUp, Base, ActorsInv, AllVersions
  <2> QED
    BY <1>1, <1>2, <1>20, <2>1 DEF CleanUp, TypeOK, Running, MoveTo, handler, download
<1>21. ASSUME NEW a \in Appliers, RestartFails(a) PROVE TypeOK'
  BY <1>1, <1>2, <1>21
     DEF RestartFails, TypeOK, Running, MoveTo, Active, handler, download, files,
         history
<1>22. ASSUME Cancel PROVE TypeOK'
  <2>1. live # None => live \in Running
    BY <1>2 DEF Base, TypeOK, ActorsInv, Running
  <2>2. cancelled' \subseteq Running'
    BY <1>2, <1>22, <2>1 DEF Cancel, TypeOK, Running
  <2> QED
    BY <1>1, <1>2, <1>22, <2>2, BoundAssumption
       DEF Cancel, TypeOK, SetStatus, Statuses, Request, apply, files
<1>23. ASSUME Stop PROVE TypeOK'
  <2>1. staged' \in Versions \cup {None} /\ dir' \in BOOLEAN
    BY <1>2, <1>23 DEF Stop, TypeOK
  <2>2. /\ dpc' \in [Downloads -> {"none", "fetch", "read", "stage", "ready"}]
        /\ dver' \in [Downloads -> Versions \cup {None}]
        /\ apc' \in [Appliers -> Active \cup {"none", "restart"}]
        /\ aver' \in [Appliers -> Versions \cup {None}]
    BY <1>23 DEF Stop
  <2>3. /\ up' \in BOOLEAN /\ live' \in Downloads \cup {None}
        /\ status' \in [status : Statuses, version : Versions \cup {None}]
    BY <1>23 DEF Stop, SetStatus, Statuses
  <2>4. requests' \in 0..MaxRequests
    BY <1>2, <1>23, BoundAssumption DEF Stop, Request, TypeOK
  <2>5. cancelled' \subseteq Running' /\ short' \subseteq Appliers
    BY <1>23 DEF Stop
  <2>6. told' \in AllVersions /\ disturbed' \in BOOLEAN /\ overlapped' \in BOOLEAN
    BY <1>2, <1>23 DEF Stop, history, TypeOK
  <2> QED
    BY <1>1, <2>1, <2>2, <2>3, <2>4, <2>5, <2>6 DEF TypeOK
<1>24. ASSUME Start PROVE TypeOK'
  <2>1. "binary" \in Names
    BY DEF Names
  <2>2. told' \in AllVersions
    BY <1>24, <2>1 DEF Start, Base, Sound
  <2> QED
    BY <1>1, <1>2, <1>24, <2>2 DEF Start, TypeOK, Running, handler, download, apply, files
<1>25. CASE UNCHANGED vars
  BY <1>1, <1>2, <1>25 DEF vars, handler, download, apply, files, history, TypeOK, Running
<1> QED
  BY <1>3, <1>4, <1>5, <1>6, <1>7, <1>8, <1>9, <1>10, <1>11, <1>12, <1>13, <1>14, <1>15,
     <1>16, <1>17, <1>18, <1>19, <1>20, <1>21, <1>22, <1>23, <1>24, <1>25
     DEF Next, Downloading, Installing

(* A stop closes every file, and leaves the binary and the backup.         *)
LEMMA StopFiles ==
  ASSUME Base, Stop
  PROVE  /\ \A n \in Names : file'[n].by = {}
         /\ \A n \in {"binary", "backup"} :
              file'[n].whole = file[n].whole /\ file'[n].from = file[n].from
<1> DEFINE left == [n \in Names |-> [file[n] EXCEPT !.by = {}]]
<1>1. file \in Files /\ Sound(file)
  BY DEF Base, TypeOK, Files
<1>2. left \in Files /\ Sound(left)
  BY <1>1 DEF Files, File, Sound
<1>3. \A n \in Names : /\ left[n].by = {}
                       /\ left[n].whole = file[n].whole /\ left[n].from = file[n].from
  BY <1>1 DEF Files, File
<1>4. {"binary", "backup"} \subseteq Names
  BY DEF Names
<1>5. file' \in {left, Emptied(left)}
  BY DEF Stop
<1>6. CASE file' = left
  BY <1>3, <1>4, <1>6
<1>7. CASE file' = Emptied(left)
  <2> HIDE DEF left
  <2>1. /\ \A n \in Names : Emptied(left)[n].by \subseteq left[n].by
        /\ \A n \in {"binary", "backup"} : Emptied(left)[n] = left[n]
    BY <1>2, EmptiedFile
  <2>2. \A n \in Names : Emptied(left)[n].by = {}
    BY <1>3, <2>1
  <2> QED
    BY <1>3, <1>4, <1>7, <2>1, <2>2
<1> QED
  BY <1>5, <1>6, <1>7

(* Who is active has a version; and a process that is down does nothing. *)
LEMMA ActorsStep == ASSUME Base, [Next]_vars PROVE ActorsInv'
<1>1. TypeOK /\ ActorsInv
  BY DEF Base
<1>2. ASSUME NEW d \in Downloads, NEW v \in Versions, BeginDownload(d, v) PROVE ActorsInv'
  BY <1>1, <1>2 DEF BeginDownload, TypeOK, ActorsInv, Running, SetStatus, apply, files
<1>3. ASSUME NEW d \in Downloads, FetchFails(d) PROVE ActorsInv'
  BY <1>1, <1>3 DEF FetchFails, TypeOK, ActorsInv, Ends, Running, SetStatus, apply, history
<1>4. ASSUME NEW d \in Downloads, OpenPackage(d) PROVE ActorsInv'
  BY <1>1, <1>4 DEF OpenPackage, TypeOK, ActorsInv, Running, handler, apply, history
<1>5. ASSUME NEW d \in Downloads, ReadCancelled(d) PROVE ActorsInv'
  BY <1>1, <1>5
     DEF ReadCancelled, TypeOK, ActorsInv, Ends, Running, SetStatus, apply, history
<1>6. ASSUME NEW d \in Downloads, ReadFails(d) PROVE ActorsInv'
  BY <1>1, <1>6 DEF ReadFails, TypeOK, ActorsInv, Ends, Running, SetStatus, apply, history
<1>7. ASSUME NEW d \in Downloads, ReadEnds(d) PROVE ActorsInv'
  BY <1>1, <1>7 DEF ReadEnds, TypeOK, ActorsInv, Running, handler, apply
<1>8. ASSUME NEW d \in Downloads, StageVersion(d) PROVE ActorsInv'
  BY <1>1, <1>8 DEF StageVersion, TypeOK, ActorsInv, Running, handler, apply, history
<1>9. ASSUME NEW d \in Downloads, SetReady(d) PROVE ActorsInv'
  BY <1>1, <1>9
     DEF SetReady, TypeOK, ActorsInv, Ends, Running, SetStatus, apply, files,
         history
<1>10. ASSUME NEW a \in Appliers, BeginApply(a) PROVE ActorsInv'
  BY <1>1, <1>10
     DEF BeginApply, TypeOK, ActorsInv, Running, MoveTo, handler, download, files
<1>11. ASSUME NEW a \in Appliers, SetInstalling(a) PROVE ActorsInv'
  BY <1>1, <1>11
     DEF SetInstalling, TypeOK, ActorsInv, Running, SetStatus, MoveTo, download,
         files, history
<1>12. ASSUME NEW a \in Appliers, ExtractBegins(a) PROVE ActorsInv'
  BY <1>1, <1>12
     DEF ExtractBegins, TypeOK, ActorsInv, Running, MoveTo, handler, download,
         history
<1>13. ASSUME NEW a \in Appliers, ExtractEnds(a) PROVE ActorsInv'
  BY <1>1, <1>13
     DEF ExtractEnds, TypeOK, ActorsInv, Running, MoveTo, handler, download, history
<1>14. ASSUME NEW a \in Appliers, ExtractFails(a) PROVE ActorsInv'
  BY <1>1, <1>14
     DEF ExtractFails, TypeOK, ActorsInv, Running, SetStatus, MoveTo, ApplyFails,
         download, history
<1>15. ASSUME NEW a \in Appliers, Backup(a) PROVE ActorsInv'
  BY <1>1, <1>15 DEF Backup, TypeOK, ActorsInv, Running, MoveTo, handler, download, history
<1>16. ASSUME NEW a \in Appliers, CopyBegins(a) PROVE ActorsInv'
  BY <1>1, <1>16
     DEF CopyBegins, TypeOK, ActorsInv, Running, MoveTo, handler, download, history
<1>17. ASSUME NEW a \in Appliers, CopyEnds(a) PROVE ActorsInv'
  BY <1>1, <1>17
     DEF CopyEnds, TypeOK, ActorsInv, Running, MoveTo, handler, download, history
<1>18. ASSUME NEW a \in Appliers, CopyFails(a) PROVE ActorsInv'
  BY <1>1, <1>18
     DEF CopyFails, TypeOK, ActorsInv, Running, SetStatus, MoveTo, ApplyFails,
         download, history
<1>19. ASSUME NEW a \in Appliers, CleanUp(a) PROVE ActorsInv'
  BY <1>1, <1>19 DEF CleanUp, TypeOK, ActorsInv, Running, MoveTo, handler, download
<1>20. ASSUME NEW a \in Appliers, RestartFails(a) PROVE ActorsInv'
  BY <1>1, <1>20
     DEF RestartFails, TypeOK, ActorsInv, Running, MoveTo, handler, download, files,
         history
<1>21. ASSUME Cancel PROVE ActorsInv'
  BY <1>1, <1>21 DEF Cancel, TypeOK, ActorsInv, Running, SetStatus, apply, files
<1>22. ASSUME Stop PROVE ActorsInv'
  <2>1. \A n \in Names : file'[n].by = {}
    BY <1>22, StopFiles
  <2> QED
    BY <1>22, <2>1 DEF Stop, ActorsInv, Running, SetStatus
<1>23. ASSUME Start PROVE ActorsInv'
  BY <1>1, <1>23 DEF Start, TypeOK, ActorsInv, Running, handler, download, apply, files
<1>24. CASE UNCHANGED vars
  BY <1>1, <1>24 DEF vars, handler, download, apply, files, history, ActorsInv, Running
<1> QED
  BY <1>2, <1>3, <1>4, <1>5, <1>6, <1>7, <1>8, <1>9, <1>10, <1>11, <1>12, <1>13, <1>14,
     <1>15, <1>16, <1>17, <1>18, <1>19, <1>20, <1>21, <1>22, <1>23, <1>24
     DEF Next, Downloading, Installing

(* Packages are written by the downloads of their version that are         *)
(* reading, the other files by installations.                              *)
LEMMA WritersStep == ASSUME Base, [Next]_vars PROVE WritersInv'
<1>1. TypeOK /\ WritersInv /\ file \in Files /\ Sound(file)
  BY DEF Base, TypeOK, Files
<1>2. {"extracted", "binary", "backup"} \subseteq Names \ Versions /\ Versions \subseteq Names
  BY VersionsAssumption DEF Names
<1>3. Downloads \subseteq Actors /\ Appliers \subseteq Actors
  BY DEF Actors
<1>4. ASSUME NEW d \in Downloads, dpc[d] # "none" PROVE dver[d] \in Versions
  BY <1>4 DEF Base, ActorsInv
(* A download that is not reading writes nothing. *)
<1>5. ASSUME NEW d \in Downloads, dpc[d] # "read", NEW n \in Names PROVE d \notin file[n].by
  BY <1>1, <1>5, ActorsAssumption DEF WritersInv
<1>6. ASSUME NEW d \in Downloads, Downloading(d) PROVE WritersInv'
  <2>1. CASE OpenPackage(d)
    <3>1. /\ dver[d] \in Names /\ dver[d] \in Versions /\ dver[d] \in Content
      BY <1>2, <1>4, <2>1 DEF OpenPackage, Content, AllVersions
    <3>2. /\ \A m \in Names : m # dver[d] => file'[m] = file[m]
          /\ file'[dver[d]].by = file[dver[d]].by \cup {d}
      <4>1. file' = Created(dver[d], d, dver[d])
        BY <2>1 DEF OpenPackage
      <4>2. \A m \in Names : m # dver[d] => file'[m] = file[m]
        BY <1>1, <1>2, <3>1, <4>1, CreatedOthers
      <4>3. file'[dver[d]].by = file[dver[d]].by \cup {d}
        BY <1>1, <1>3, <3>1, <4>1, CreatedFile
      <4> QED
        BY <4>2, <4>3
    <3> QED
      BY <1>1, <1>5, <2>1, <3>1, <3>2 DEF OpenPackage, WritersInv, TypeOK
  <2>2. CASE ReadCancelled(d)
    <3>1. Closed(d, FALSE) \in Files /\ \A n \in Names : Closed(d, FALSE)[n].by = file[n].by \ {d}
      BY <1>1, <1>3, ClosedFile
    <3>2. NoFile \in File /\ NoFile.by = {}
      BY DEF NoFile, File
    <3>3. file' = [Closed(d, FALSE) EXCEPT ![dver[d]] = NoFile]
      BY <2>2 DEF ReadCancelled
    <3>4. \A n \in Names : file'[n].by \subseteq file[n].by \ {d}
      BY <3>1, <3>2, <3>3 DEF Files
    <3> QED
      BY <1>1, <2>2, <3>4 DEF ReadCancelled, Ends, WritersInv, TypeOK
  <2>3. CASE ReadFails(d) \/ ReadEnds(d)
    <3>1. \A n \in Names : file'[n].by = file[n].by \ {d}
      BY <1>1, <1>3, <2>3, ClosedFile DEF ReadFails, ReadEnds
    <3>2. dpc'[d] # "read" /\ \A c \in Downloads \ {d} : dpc'[c] = dpc[c] /\ dver'[c] = dver[c]
      BY <1>1, <2>3 DEF ReadFails, ReadEnds, Ends, TypeOK
    <3> QED
      BY <1>1, <3>1, <3>2 DEF WritersInv
  <2>4. CASE FetchFails(d) \/ StageVersion(d) \/ SetReady(d)
    <3>1. UNCHANGED file /\ dpc[d] # "read"
      BY <2>4 DEF FetchFails, StageVersion, SetReady, files
    <3>2. \A c \in Downloads \ {d} : dpc'[c] = dpc[c] /\ dver'[c] = dver[c]
      BY <1>1, <2>4 DEF FetchFails, StageVersion, SetReady, Ends, TypeOK
    <3> QED
      BY <1>1, <1>5, <3>1, <3>2 DEF WritersInv
  <2> QED
    BY <1>6, <2>1, <2>2, <2>3, <2>4 DEF Downloading
<1>7. ASSUME NEW a \in Appliers, Installing(a) PROVE WritersInv'
  <2>1. UNCHANGED <<dpc, dver>>
    BY <1>7
       DEF Installing, SetInstalling, ExtractBegins, ExtractEnds, ExtractFails,
           ApplyFails,
                Backup, CopyBegins, CopyEnds, CopyFails, CleanUp, RestartFails, download
  <2>2. SUFFICES \A n \in Names :
                   IF n \in Versions THEN file'[n].by \subseteq file[n].by
                                     ELSE file'[n].by \subseteq Appliers
    BY <1>1, <2>1 DEF WritersInv
  <2>3. CASE ExtractBegins(a)
    <3>1. aver[a] \in Content
      BY <2>3 DEF ExtractBegins, Base, ActorsInv, Content, AllVersions
    <3>2. /\ \A m \in Names : m # "extracted" => file'[m] = file[m]
          /\ file'["extracted"].by = file["extracted"].by \cup {a}
      <4>1. file' = Created("extracted", a, aver[a])
        BY <2>3 DEF ExtractBegins
      <4>2. \A m \in Names : m # "extracted" => file'[m] = file[m]
        BY <1>1, <1>2, <3>1, <4>1, CreatedOthers
      <4>3. file'["extracted"].by = file["extracted"].by \cup {a}
        BY <1>1, <1>2, <1>3, <3>1, <4>1, CreatedFile
      <4> QED
        BY <4>2, <4>3
    <3> QED
      BY <1>1, <1>2, <3>2 DEF WritersInv
  <2>4. CASE CopyBegins(a)
    <3>1. file["extracted"].from \in Content
      BY <1>1, <1>2, <2>4 DEF CopyBegins, Exists, Files, File, Content
    <3>2. /\ \A m \in Names : m # "binary" => file'[m] = file[m]
          /\ file'["binary"].by = file["binary"].by \cup {a}
      <4>1. file' = Created("binary", a, file["extracted"].from)
        BY <2>4 DEF CopyBegins
      <4>2. \A m \in Names : m # "binary" => file'[m] = file[m]
        BY <1>1, <1>2, <3>1, <4>1, CreatedOthers
      <4>3. file'["binary"].by = file["binary"].by \cup {a}
        BY <1>1, <1>2, <1>3, <3>1, <4>1, CreatedFile
      <4> QED
        BY <4>2, <4>3
    <3> QED
      BY <1>1, <1>2, <3>2 DEF WritersInv
  <2>5. CASE ExtractEnds(a) \/ ExtractFails(a) \/ CopyEnds(a)
    <3>1. \A n \in Names : file'[n].by = file[n].by \ {a}
      BY <1>1, <1>3, <2>5, ClosedFile DEF ExtractEnds, ExtractFails, CopyEnds
    <3> QED
      BY <1>1, <3>1 DEF WritersInv
  <2>6. ASSUME NEW f \in Files, Sound(f), \A n \in Names : f[n].by \subseteq file[n].by,
               NEW old \in {"binary", "backup"}, NEW new \in {"binary", "backup"}, old # new,
               file' = Renamed(f, old, new)
        PROVE  \A n \in Names : IF n \in Versions THEN file'[n].by \subseteq file[n].by
                                                 ELSE file'[n].by \subseteq Appliers
    <3>1. NoFile.by = {}
      BY DEF NoFile
    <3>2. /\ \A n \in Names : n \notin {old, new} => file'[n] = f[n]
          /\ \A n \in {old, new} : file'[n] \in {f[old], f[new], NoFile}
      <4>1. old \in Names /\ new \in Names
        BY <1>2
      <4> QED
        BY <2>6, <4>1, RenamedFile
    <3> QED
      BY <1>1, <1>2, <2>6, <3>1, <3>2 DEF WritersInv
  <2>7. CASE Backup(a)
    BY <1>1, <2>6, <2>7 DEF Backup
  <2>8. CASE CopyFails(a)
    <3>1. /\ Closed(a, FALSE) \in Files /\ Sound(Closed(a, FALSE))
          /\ \A n \in Names : Closed(a, FALSE)[n].by \subseteq file[n].by
      <4>1. \A n \in Names : Closed(a, FALSE)[n].by = file[n].by \ {a}
        BY <1>1, <1>3, ClosedFile
      <4> QED
        BY <1>1, <1>3, <4>1, ClosedFile
    <3> QED
      BY <2>6, <2>8, <3>1 DEF CopyFails
  <2>9. CASE CleanUp(a)
    BY <1>1, <2>9, EmptiedFile DEF CleanUp, WritersInv
  <2>10. CASE SetInstalling(a) \/ RestartFails(a)
    BY <1>1, <2>10 DEF SetInstalling, RestartFails, files, WritersInv
  <2> QED
    BY <1>7, <2>3, <2>4, <2>5, <2>7, <2>8, <2>9, <2>10 DEF Installing
<1>8. ASSUME Stop PROVE WritersInv'
  BY <1>8, StopFiles DEF WritersInv
<1>9. ASSUME NEW d \in Downloads, NEW v \in Versions, BeginDownload(d, v) PROVE WritersInv'
  BY <1>1, <1>5, <1>9 DEF BeginDownload, WritersInv, TypeOK, files
<1>10. CASE UNCHANGED <<file, dpc, dver>>
  BY <1>1, <1>10 DEF WritersInv
<1>11. ASSUME (\E a \in Appliers : BeginApply(a)) \/ Cancel \/ Start \/ UNCHANGED vars
       PROVE  UNCHANGED <<file, dpc, dver>>
  BY <1>11 DEF BeginApply, Cancel, Start, vars, files, download
<1> QED
  BY <1>6, <1>7, <1>8, <1>9, <1>10, <1>11 DEF Next

LEMMA BaseStep == ASSUME Base, [Next]_vars PROVE Base'
<1>1. Sound(file')
  BY FilesStep
<1> QED
  BY <1>1, TypesStep, ActorsStep, WritersStep DEF Base, Sound

-----------------------------------------------------------------------------
(* Installations.                                                          *)

(* A download touches packages only. *)
LEMMA DownloadingFiles ==
  ASSUME Base, NEW d \in Downloads, Downloading(d), NEW n \in {"extracted", "binary", "backup"}
  PROVE  file'[n] = file[n]
<1>1. TypeOK /\ WritersInv /\ file \in Files /\ Sound(file)
  BY DEF Base, TypeOK, Files
<1>2. n \in Names /\ n \notin Versions /\ d \in Actors /\ d \notin file[n].by
  BY <1>1, VersionsAssumption, ActorsAssumption DEF Names, Actors, WritersInv
<1>3. CASE OpenPackage(d)
  <2>1. dver[d] \in Versions /\ dver[d] \in Names
    BY <1>3 DEF Base, ActorsInv, OpenPackage, Names
  <2> QED
    <3>1. file' = Created(dver[d], d, dver[d]) /\ n # dver[d]
      BY <1>2, <1>3, <2>1 DEF OpenPackage
    <3>2. Created(dver[d], d, dver[d])[n] = file[n]
      BY <1>1, <1>2, <2>1, <3>1 DEF Created, Files
    <3> QED
      BY <3>1, <3>2
<1>4. CASE ReadCancelled(d)
  <2>1. Closed(d, FALSE)[n] = file[n]
    BY <1>2, ClosedOthers
  <2>2. dver[d] # n
    BY <1>2, <1>4 DEF ReadCancelled, Base, ActorsInv
  <2> QED
    BY <1>2, <1>4, <2>1, <2>2 DEF ReadCancelled, Closed
<1>5. CASE ReadFails(d) \/ ReadEnds(d)
  <2>1. \A good \in BOOLEAN : Closed(d, good)[n] = file[n]
    BY <1>2, ClosedOthers
  <2> QED
    BY <1>5, <2>1 DEF ReadFails, ReadEnds
<1>6. CASE FetchFails(d) \/ StageVersion(d) \/ SetReady(d)
  BY <1>6 DEF FetchFails, StageVersion, SetReady, files
<1> QED
  BY <1>3, <1>4, <1>5, <1>6 DEF Downloading

(* What leaves the installations and their files alone keeps the invariant. *)
LEMMA QuietUntouched ==
  ASSUME QuietInv, UNCHANGED <<up, apc, aver, short, told, overlapped>>,
         \A n \in {"extracted", "binary", "backup"} : file'[n] = file[n]
  PROVE  QuietInv'
BY DEF QuietInv, Quiet, Alone, Applying

(* A step of the only installation keeps it, if its new place is right. *)
LEMMA QuietAlone ==
  ASSUME Base, Quiet, NEW a \in Appliers, apc[a] \in Active,
         \A b \in Appliers : b # a => apc'[b] = apc[b],
         short' = {}, up' = up,
         apc'[a] \in Active => Alone(a)',
         apc'[a] # "extracting" => file'["extracted"].by = {},
         apc'[a] \notin {"copy", "copying", "clean"} => file'["binary"] = Whole(told')
  PROVE  Quiet'
<1>1. \A b \in Appliers : b # a => apc[b] \notin Active /\ apc'[b] \notin Active
  BY DEF Quiet, Applying
<1>2. {"extracting", "copy", "copying", "clean"} \subseteq Active
  BY DEF Active
<1>3. \A v : Whole(v).whole
  BY DEF Whole
<1>4. file'["binary"].whole \/ file'["backup"].whole
  BY <1>2, <1>3 DEF Alone
<1> QED
  BY <1>1, <1>2, <1>4 DEF Quiet, Applying

LEMMA QuietStep == ASSUME Base, QuietInv, [Next]_vars PROVE QuietInv'
<1>1. /\ TypeOK /\ file \in Files /\ Sound(file)
      /\ {"extracted", "binary", "backup"} \subseteq Names
      /\ Appliers \subseteq Actors /\ Versions \subseteq Content
  BY DEF Base, TypeOK, Files, Names, Actors, Content, AllVersions
<1>2. ASSUME NEW d \in Downloads, Downloading(d) PROVE QuietInv'
  <2>1. UNCHANGED <<up, apc, aver, short, told, overlapped>>
    BY <1>2 DEF Downloading, FetchFails, OpenPackage, ReadCancelled, ReadFails, ReadEnds,
                StageVersion, SetReady, apply, history
  <2> QED
    BY <1>2, <2>1, DownloadingFiles, QuietUntouched
<1>3. ASSUME \/ \E d \in Downloads, v \in Versions : BeginDownload(d, v)
             \/ Cancel \/ UNCHANGED vars
      PROVE  QuietInv'
  <2>1. UNCHANGED <<up, apc, aver, short, told, overlapped, file>>
    BY <1>3 DEF BeginDownload, Cancel, vars, apply, files, history
  <2> QED
    BY <2>1, QuietUntouched
<1>4. ASSUME NEW a \in Appliers, BeginApply(a) PROVE QuietInv'
  <2>1. /\ UNCHANGED <<up, short, told, file>>
        /\ apc[a] = "none" /\ apc'[a] = "checked"
        /\ \A b \in Appliers : b # a => apc'[b] = apc[b] /\ aver'[b] = aver[b]
        /\ ~overlapped' => ~overlapped /\ Applying = {}
    BY <1>1, <1>4 DEF BeginApply, MoveTo, TypeOK, files
  <2> QED
    BY <2>1 DEF QuietInv, Quiet, Alone, Applying
<1>5. ASSUME NEW a \in Appliers, Installing(a) PROVE QuietInv'
  <2>1. overlapped' = overlapped
    BY <1>5
       DEF Installing, SetInstalling, ExtractBegins, ExtractEnds, ExtractFails,
           ApplyFails,
                Backup, CopyBegins, CopyEnds, CopyFails, CleanUp, RestartFails, history
  <2> SUFFICES ASSUME ~overlapped PROVE Quiet'
    BY <2>1 DEF QuietInv
  <2>2. Quiet
    BY DEF QuietInv
  <2>3. CASE RestartFails(a)
    <3>1. /\ UNCHANGED <<up, short, file, told>>
          /\ apc[a] = "restart" /\ apc'[a] = "none"
          /\ \A b \in Appliers : b # a => apc'[b] = apc[b] /\ aver'[b] = aver[b]
      BY <1>1, <2>3 DEF RestartFails, MoveTo, TypeOK, files, history
    <3>2. Applying' = Applying /\ a \notin Applying
      BY <3>1 DEF Applying, Active
    <3>3. \A b \in Applying : Alone(b)'
      BY <2>2, <3>1, <3>2 DEF Quiet, Alone, Applying
    <3> QED
      BY <2>2, <3>1, <3>2, <3>3 DEF Quiet
  <2>4. CASE ~RestartFails(a)
    <3>1. /\ apc[a] \in Active /\ aver[a] \in Versions
          /\ \A b \in Appliers : b # a => apc'[b] = apc[b]
          /\ up' = up /\ up
      BY <1>1, <1>5, <2>4
         DEF Installing, SetInstalling, ExtractBegins, ExtractEnds, ExtractFails, ApplyFails,
             Backup, CopyBegins, CopyEnds, CopyFails, CleanUp, MoveTo, Active, TypeOK,
             Base, ActorsInv
    <3>2. /\ Alone(a) /\ short = {}
          /\ \A b \in Appliers : b # a => apc[b] \notin Active
      BY <2>2, <3>1 DEF Quiet, Applying
    <3>3. /\ apc[a] # "extracting" => file["extracted"].by = {}
          /\ apc[a] \notin {"copy", "copying", "clean"} => file["binary"] = Whole(told)
      BY <2>2, <3>1, <3>2 DEF Quiet, Active
    <3>4. /\ \A v : Whole(v).by = {} /\ Whole(v).whole /\ Whole(v).from = v
          /\ NoFile.by = {}
      BY DEF Whole, NoFile
    <3>5. aver[a] # "mixed" /\ aver[a] \in AllVersions /\ told # None
      BY <1>1, <3>1, VersionsAssumption DEF AllVersions, TypeOK
    <3>6. CASE SetInstalling(a)
      <4>1. UNCHANGED <<aver, short, file, told>> /\ apc'[a] = "extract" /\ apc[a] = "checked"
        BY <1>1, <3>6 DEF SetInstalling, MoveTo, files, history, TypeOK
      <4>2. Alone(a)'
        BY <4>1 DEF Alone
      <4> QED
        BY <2>2, <3>1, <3>2, <3>3, <4>1, <4>2, QuietAlone
    <3>7. CASE ExtractBegins(a)
      <4>1. /\ UNCHANGED <<aver, told>> /\ apc[a] = "extract" /\ apc'[a] = "extracting"
            /\ file' = Created("extracted", a, aver[a])
        BY <1>1, <3>7 DEF ExtractBegins, MoveTo, history, TypeOK
      <4>2. short' = {}
        BY <3>2, <3>7 DEF ExtractBegins, Active
      <4>3. file'["extracted"] = [from |-> aver[a], whole |-> FALSE, by |-> {a}]
        BY <1>1, <3>3, <4>1, CreatedAlone
      <4>4. file'["binary"] = file["binary"]
        BY <1>1, <4>1, CreatedOthers
      <4>5. Alone(a)'
        BY <4>1, <4>3 DEF Alone
      <4> QED
        BY <2>2, <3>1, <3>3, <4>1, <4>2, <4>4, <4>5, QuietAlone
    <3>8. CASE ExtractEnds(a)
      <4>1. /\ UNCHANGED <<aver, told, short>> /\ apc[a] = "extracting" /\ apc'[a] = "backup"
            /\ file' = Closed(a, TRUE)
        BY <1>1, <3>8 DEF ExtractEnds, MoveTo, history, TypeOK
      <4>2. file["extracted"] = [from |-> aver[a], whole |-> FALSE, by |-> {a}]
        BY <3>2, <4>1 DEF Alone
      <4>3. file'["extracted"] = Whole(aver[a])
        <5>1. file["extracted"].from = aver[a] /\ file["extracted"].by = {a}
          BY <4>2
        <5>2. Closed(a, TRUE)["extracted"] = Whole(aver[a])
          BY <1>1, <3>5, <5>1, ClosedAlone
        <5> QED
          BY <4>1, <5>2
      <4>4. file'["binary"] = file["binary"]
        <5>1. a \notin file["binary"].by
          BY <3>3, <3>4, <4>1
        <5>2. Closed(a, TRUE)["binary"] = file["binary"]
          BY <1>1, <5>1, ClosedOthers
        <5> QED
          BY <4>1, <5>2
      <4>5. Alone(a)'
        BY <4>1, <4>3 DEF Alone
      <4> QED
        BY <2>2, <3>1, <3>2, <3>3, <3>4, <4>1, <4>3, <4>4, <4>5, QuietAlone
    <3>9. CASE ExtractFails(a)
      <4>1. /\ UNCHANGED told /\ apc[a] \in {"extract", "extracting"} /\ apc'[a] = "none"
            /\ file' = Closed(a, FALSE) /\ short' = short \ {a}
        BY <1>1, <3>9 DEF ExtractFails, ApplyFails, MoveTo, history, TypeOK
      <4>2. file["extracted"].by \subseteq {a}
        BY <3>2, <3>3, <4>1 DEF Alone
      <4>3. file'["extracted"].by = {}
        <5>1. file'["extracted"].by = file["extracted"].by \ {a}
          BY <1>1, <4>1, ClosedFile
        <5> QED
          BY <4>2, <5>1
      <4>4. file'["binary"] = file["binary"]
        <5>1. a \notin file["binary"].by
          BY <3>3, <3>4, <4>1
        <5>2. Closed(a, FALSE)["binary"] = file["binary"]
          BY <1>1, <5>1, ClosedOthers
        <5> QED
          BY <4>1, <5>2
      <4>5. short' = {} /\ apc'[a] \notin Active
        BY <3>2, <4>1 DEF Active
      <4> QED
        BY <2>2, <3>1, <3>3, <4>1, <4>3, <4>4, <4>5, QuietAlone
    <3>10. CASE Backup(a)
      <4>1. /\ UNCHANGED <<aver, told, short>> /\ apc[a] = "backup" /\ apc'[a] = "copy"
            /\ file' = Renamed(file, "binary", "backup")
        BY <1>1, <3>10 DEF Backup, MoveTo, history, TypeOK
      <4>2. /\ file'["backup"] = Whole(told) /\ file'["binary"] = NoFile
            /\ file'["extracted"] = file["extracted"]
        BY <1>1, <3>3, <3>4, <3>5, <4>1, RenamedFile
      <4>3. file["extracted"] = Whole(aver[a])
        BY <3>2, <4>1 DEF Alone
      <4>4. Alone(a)'
        BY <4>1, <4>2, <4>3 DEF Alone
      <4> QED
        BY <2>2, <3>1, <3>2, <3>3, <4>1, <4>2, <4>4, QuietAlone
    <3>11. CASE CopyBegins(a)
      <4>1. /\ UNCHANGED <<aver, told>> /\ apc[a] = "copy" /\ apc'[a] = "copying"
            /\ file' = Created("binary", a, file["extracted"].from)
            /\ short' = IF file["extracted"].whole THEN short ELSE short \cup {a}
        BY <1>1, <3>11 DEF CopyBegins, MoveTo, history, TypeOK
      <4>2. /\ file["extracted"] = Whole(aver[a]) /\ file["binary"].by = {}
            /\ file["backup"] = Whole(told)
        BY <3>2, <3>4, <4>1 DEF Alone
      <4>3. file' = Created("binary", a, aver[a]) /\ short' = {}
        BY <3>2, <3>4, <4>1, <4>2
      <4>4. file'["binary"] = [from |-> aver[a], whole |-> FALSE, by |-> {a}]
        BY <1>1, <4>2, <4>3, CreatedAlone
      <4>5. file'["extracted"] = file["extracted"] /\ file'["backup"] = file["backup"]
        BY <1>1, <4>3, CreatedOthers
      <4>6. Alone(a)'
        BY <4>1, <4>2, <4>4, <4>5 DEF Alone
      <4> QED
        BY <2>2, <3>1, <3>4, <4>1, <4>2, <4>3, <4>5, <4>6, QuietAlone
    <3>12. CASE CopyEnds(a)
      <4>1. /\ UNCHANGED <<aver, told>> /\ apc[a] = "copying" /\ apc'[a] = "clean"
            /\ file' = Closed(a, a \notin short) /\ short' = short \ {a}
        BY <1>1, <3>12 DEF CopyEnds, MoveTo, history, TypeOK
      <4>2. file' = Closed(a, TRUE) /\ short' = {}
        BY <3>2, <4>1
      <4>3. /\ file["binary"] = [from |-> aver[a], whole |-> FALSE, by |-> {a}]
            /\ file["extracted"] = Whole(aver[a])
        BY <3>2, <4>1 DEF Alone
      <4>4. file'["binary"] = Whole(aver[a])
        <5>1. file["binary"].from = aver[a] /\ file["binary"].by = {a}
          BY <4>3
        <5>2. Closed(a, TRUE)["binary"] = Whole(aver[a])
          BY <1>1, <3>5, <5>1, ClosedAlone
        <5> QED
          BY <4>2, <5>2
      <4>5. file'["extracted"] = file["extracted"]
        <5>1. a \notin file["extracted"].by
          BY <3>4, <4>3
        <5>2. Closed(a, TRUE)["extracted"] = file["extracted"]
          BY <1>1, <5>1, ClosedOthers
        <5> QED
          BY <4>2, <5>2
      <4>6. Alone(a)'
        BY <4>1, <4>4 DEF Alone
      <4> QED
        BY <2>2, <3>1, <3>4, <4>1, <4>2, <4>3, <4>5, <4>6, QuietAlone
    <3>13. CASE CopyFails(a)
      <4> DEFINE closed == Closed(a, FALSE)
      <4>1. /\ UNCHANGED told /\ apc[a] \in {"copy", "copying"} /\ apc'[a] = "none"
            /\ file' = Renamed(closed, "backup", "binary") /\ short' = short \ {a}
        BY <1>1, <3>13 DEF CopyFails, ApplyFails, MoveTo, history, TypeOK
      <4>2. file["extracted"] = Whole(aver[a]) /\ file["backup"] = Whole(told)
        BY <3>2, <4>1 DEF Alone
      <4>3. /\ closed \in Files /\ Sound(closed)
            /\ closed["extracted"] = file["extracted"] /\ closed["backup"] = file["backup"]
        <5>1. a \notin file["extracted"].by /\ a \notin file["backup"].by
          BY <3>4, <4>2
        <5>2. closed["extracted"] = file["extracted"] /\ closed["backup"] = file["backup"]
          BY <1>1, <5>1, ClosedOthers
        <5> QED
          BY <1>1, <5>2, ClosedFile
      <4> HIDE DEF closed
      <4>4. file'["binary"] = Whole(told) /\ file'["extracted"] = file["extracted"]
        <5>1. closed["backup"].from # None
          BY <3>4, <3>5, <4>2, <4>3
        <5>2. Renamed(closed, "backup", "binary")["binary"] = closed["backup"]
          BY <1>1, <4>3, <5>1, RenamedFile
        <5>3. Renamed(closed, "backup", "binary")["extracted"] = closed["extracted"]
          BY <1>1, <4>3, RenamedFile
        <5> QED
          BY <4>1, <4>2, <4>3, <5>2, <5>3
      <4>5. short' = {} /\ apc'[a] \notin Active
        BY <3>2, <4>1 DEF Active
      <4> QED
        BY <2>2, <3>1, <3>4, <4>1, <4>2, <4>4, <4>5, QuietAlone
    <3>14. CASE CleanUp(a)
      <4>1. /\ UNCHANGED short /\ apc[a] = "clean" /\ apc'[a] = "restart"
            /\ file' = Emptied(file) /\ told' = aver[a]
        BY <1>1, <3>14 DEF CleanUp, MoveTo, TypeOK
      <4>2. file["binary"] = Whole(aver[a])
        BY <3>2, <4>1 DEF Alone
      <4>3. file'["binary"] = file["binary"] /\ file'["extracted"] = NoFile
        BY <1>1, <4>1, EmptiedFile
      <4>4. apc'[a] \notin Active
        BY <4>1 DEF Active
      <4> QED
        BY <2>2, <3>1, <3>2, <3>4, <4>1, <4>2, <4>3, <4>4, QuietAlone
    <3> QED
      BY <1>5, <2>4, <3>6, <3>7, <3>8, <3>9, <3>10, <3>11, <3>12, <3>13, <3>14
         DEF Installing
  <2> QED
    BY <2>3, <2>4
<1>6. ASSUME Stop PROVE QuietInv'
  <2>1. /\ \A n \in Names : file'[n].by = {}
        /\ \A n \in {"binary", "backup"} : file'[n].whole = file[n].whole
    BY <1>6, StopFiles
  <2>2. ~up' /\ short' = {} /\ overlapped' = overlapped /\ \A a \in Appliers : apc'[a] = "none"
    BY <1>6 DEF Stop, history
  <2> QED
    BY <1>1, <2>1, <2>2 DEF QuietInv, Quiet, Applying, Active
<1>7. ASSUME Start PROVE QuietInv'
  <2>1. /\ \A a \in Appliers : apc'[a] = "none"
        /\ short' = {} /\ told' = file["binary"].from /\ file["binary"].whole /\ file' = file
    BY <1>7 DEF Start, apply, files, Base, ActorsInv
  <2>2. \A n \in {"extracted", "binary"} : file[n].by = {}
    BY <1>1, <1>7 DEF Start, Base, ActorsInv
  <2>3. file["binary"] = Whole(told')
    BY <1>1, <2>1, <2>2 DEF Files, File, Whole
  <2> QED
    BY <2>1, <2>2, <2>3 DEF QuietInv, Quiet, Applying, Active
<1> QED
  BY <1>2, <1>3, <1>4, <1>5, <1>6, <1>7 DEF Next

-----------------------------------------------------------------------------
(* Downloads.                                                              *)

(* The status after a step that sets it. *)
LEMMA StatusSet == ASSUME NEW s, NEW v, SetStatus(s, v) PROVE status'.status = s
BY DEF SetStatus

(* A status of downloading is the status of a download that runs. *)
LEMMA DownloadingStep == ASSUME Base, DownloadingIsTrue, [Next]_vars PROVE DownloadingIsTrue'
<1>1. TypeOK
  BY DEF Base
<1>2. ASSUME NEW d \in Downloads, NEW v \in Versions, BeginDownload(d, v) PROVE DownloadingIsTrue'
  BY <1>1, <1>2 DEF BeginDownload, SetStatus, DownloadingIsTrue, Running, TypeOK
<1>3. ASSUME NEW d \in Downloads, Downloading(d) PROVE DownloadingIsTrue'
  <2>1. CASE FetchFails(d) \/ ReadCancelled(d) \/ ReadFails(d) \/ SetReady(d)
    <3>1. status'.status \in {"error", "idle", "ready"}
      BY <2>1, StatusSet DEF FetchFails, ReadCancelled, ReadFails, SetReady
    <3> QED
      BY <3>1 DEF DownloadingIsTrue
  <2>2. CASE OpenPackage(d) \/ ReadEnds(d) \/ StageVersion(d)
    BY <1>1, <2>2
       DEF OpenPackage, ReadEnds, StageVersion, handler, DownloadingIsTrue, Running,
           TypeOK
  <2> QED
    BY <1>3, <2>1, <2>2 DEF Downloading
<1>4. CASE UNCHANGED <<status, dpc>>
  BY <1>4 DEF DownloadingIsTrue, Running
<1>5. ASSUME NEW a \in Appliers, Installing(a) PROVE DownloadingIsTrue'
  <2>1. CASE SetInstalling(a) \/ ExtractFails(a) \/ CopyFails(a)
    <3>1. status'.status \in {"installing", "error"}
      BY <2>1, StatusSet DEF SetInstalling, ExtractFails, CopyFails, ApplyFails
    <3> QED
      BY <3>1 DEF DownloadingIsTrue
  <2>2. CASE \/ ExtractBegins(a) \/ ExtractEnds(a) \/ Backup(a) \/ CopyBegins(a) \/ CopyEnds(a)
             \/ CleanUp(a) \/ RestartFails(a)
    BY <1>4, <2>2 DEF ExtractBegins, ExtractEnds, Backup, CopyBegins, CopyEnds, CleanUp,
                      RestartFails, handler, download
  <2> QED
    BY <1>5, <2>1, <2>2 DEF Installing
<1>6. ASSUME Cancel \/ Stop PROVE DownloadingIsTrue'
  BY <1>6 DEF Cancel, Stop, SetStatus, DownloadingIsTrue
<1>7. ASSUME (\E a \in Appliers : BeginApply(a)) \/ Start \/ UNCHANGED vars
      PROVE  UNCHANGED <<status, dpc>>
  BY <1>7 DEF BeginApply, Start, vars, handler, download
<1> QED
  BY <1>2, <1>3, <1>4, <1>5, <1>6, <1>7 DEF Next

(* While no download is disturbed, its package is its own. *)
LEMMA CalmStep == ASSUME Base, CalmInv, [Next]_vars PROVE CalmInv'
<1>1. /\ TypeOK /\ file \in Files /\ Sound(file) /\ WritersInv
      /\ Versions \subseteq Names /\ Versions \subseteq Content /\ Versions \subseteq AllVersions
      /\ Downloads \subseteq Actors
  BY DEF Base, TypeOK, Files, Names, Actors, Content, AllVersions
<1>2. "downloading" # "ready"
  OBVIOUS
<1>3. ASSUME NEW d \in Downloads, NEW v \in Versions, BeginDownload(d, v), ~disturbed' PROVE Calm'
  <2>1. /\ Calm /\ Applying = {} /\ dpc[d] = "none" /\ status.status # "downloading"
        /\ status'.status = "downloading" /\ UNCHANGED apc
    BY <1>3 DEF BeginDownload, CalmInv, SetStatus, apply
  <2>2. Running = {}
    BY <2>1 DEF Calm, Undisturbed
  <2>3. dpc'[d] = "fetch" /\ Running' = {d} /\ Applying' = {}
    BY <1>1, <1>3, <2>1, <2>2 DEF BeginDownload, Running, Applying, TypeOK
  <2> QED
    BY <2>1, <2>3 DEF Calm, Undisturbed
<1>4. ASSUME NEW d \in Downloads, Downloading(d), ~disturbed' PROVE Calm'
  <2>1. ~disturbed /\ UNCHANGED apc
    <3>1. ReadEnds(d) => ~disturbed
      BY <1>4 DEF ReadEnds
    <3>2. ~ReadEnds(d) => disturbed' = disturbed
      BY <1>4
         DEF Downloading, FetchFails, OpenPackage, ReadCancelled, ReadFails,
             StageVersion,
                  SetReady, history
    <3>3. UNCHANGED apc
      BY <1>4 DEF Downloading, FetchFails, OpenPackage, ReadCancelled, ReadFails, ReadEnds,
                  StageVersion, SetReady, apply
    <3> QED
      BY <1>4, <3>1, <3>2, <3>3
  <2>2. dpc[d] # "none"
    BY <1>4 DEF Downloading, FetchFails, OpenPackage, ReadCancelled, ReadFails, ReadEnds,
                StageVersion, SetReady
  <2>3. /\ Calm /\ Running = {d} /\ Applying = {} /\ Applying' = {}
        /\ Undisturbed(d) /\ dver[d] \in Versions
    BY <2>1, <2>2 DEF CalmInv, Calm, Running, Applying, Base, ActorsInv
  <2>4. CASE FetchFails(d) \/ ReadCancelled(d) \/ ReadFails(d)
    <3>1. Running' = {}
      <4>1. Ends(d)
        BY <2>4 DEF FetchFails, ReadCancelled, ReadFails
      <4> QED
        BY <1>1, <2>3, <4>1 DEF Ends, Running, TypeOK
    <3>2. status'.status \in {"error", "idle"}
      BY <2>4, StatusSet DEF FetchFails, ReadCancelled, ReadFails
    <3> QED
      BY <2>3, <3>1, <3>2 DEF Calm
  <2>5. CASE OpenPackage(d)
    <3>1. /\ dpc[d] = "fetch" /\ dpc'[d] = "read" /\ dver' = dver /\ dir' /\ status' = status
          /\ file' = Created(dver[d], d, dver[d]) /\ Running' = {d}
      BY <1>1, <2>3, <2>5 DEF OpenPackage, Running, handler, TypeOK
    <3>2. file[dver[d]].by = {}
      BY <1>1, <2>3, <3>1 DEF WritersInv, Running
    <3>3. file'[dver[d]] = [from |-> dver[d], whole |-> FALSE, by |-> {d}]
      BY <1>1, <2>3, <3>1, <3>2, CreatedAlone
    <3> QED
      BY <1>2, <2>3, <3>1, <3>3 DEF Calm, Undisturbed
  <2>6. CASE ReadEnds(d)
    <3>1. /\ dpc[d] = "read" /\ dpc'[d] = "stage" /\ UNCHANGED <<dver, dir, status>>
          /\ file' = Closed(d, TRUE) /\ Running' = {d}
      BY <1>1, <1>4, <2>3, <2>6 DEF ReadEnds, Running, handler, TypeOK
    <3>2. file[dver[d]].from = dver[d] /\ file[dver[d]].by = {d} /\ dver[d] # "mixed"
      BY <2>3, <3>1, VersionsAssumption DEF Undisturbed
    <3>3. Closed(d, TRUE)[dver[d]] = Whole(dver[d])
      BY <1>1, <2>3, <3>2, ClosedAlone
    <3> QED
      BY <1>2, <2>3, <3>1, <3>3 DEF Calm, Undisturbed
  <2>7. CASE StageVersion(d)
    <3>1. /\ dpc[d] = "stage" /\ dpc'[d] = "ready" /\ UNCHANGED <<dver, dir, status, file>>
          /\ staged' = dver[d] /\ Running' = {d}
      BY <1>1, <2>3, <2>7 DEF StageVersion, Running, Undisturbed, handler, TypeOK
    <3> QED
      BY <1>2, <2>3, <3>1 DEF Calm, Undisturbed
  <2>8. CASE SetReady(d)
    <3>1. /\ Running' = {} /\ status' = [status |-> "ready", version |-> dver[d]]
          /\ UNCHANGED <<file, staged>> /\ dpc[d] = "ready"
      BY <1>1, <2>3, <2>8 DEF SetReady, Ends, SetStatus, Running, files, TypeOK
    <3> QED
      BY <2>3, <3>1 DEF Calm, Undisturbed
  <2> QED
    BY <1>4, <2>4, <2>5, <2>6, <2>7, <2>8 DEF Downloading
<1>5. ASSUME Cancel, ~disturbed' PROVE Calm'
  <2>1. Running' = {} /\ status'.status # "ready"
    BY <1>5 DEF Cancel, Running, SetStatus
  <2> QED
    BY <2>1 DEF Calm
<1>6. ASSUME NEW a \in Appliers, BeginApply(a), ~disturbed' PROVE Calm'
  <2>1. /\ Calm /\ Running = {} /\ Running' = {} /\ UNCHANGED <<status, file, staged>>
        /\ apc'[a] = "checked" /\ \A b \in Appliers : b # a => apc'[b] = apc[b]
    BY <1>1, <1>6 DEF BeginApply, MoveTo, CalmInv, Running, handler, download, files, TypeOK
  <2> QED
    BY <2>1 DEF Calm, Applying
<1>7. ASSUME NEW a \in Appliers, Installing(a), ~disturbed' PROVE Calm'
  <2>1. disturbed' = disturbed /\ dpc' = dpc
    BY <1>7
       DEF Installing, SetInstalling, ExtractBegins, ExtractEnds, ExtractFails,
           ApplyFails,
                Backup, CopyBegins, CopyEnds, CopyFails, CleanUp, RestartFails, history, download
  <2>2. Calm /\ Running' = Running
    BY <1>7, <2>1 DEF CalmInv, Running
  <2>3. CASE RestartFails(a)
    <3>1. UNCHANGED <<status, file, staged, dir, dver>> /\ Applying' = Applying
      BY <1>1, <2>3
         DEF RestartFails, MoveTo, Applying, Active, handler, download, files,
             TypeOK
    <3>2. \A b \in Applying : apc'[b] = apc[b]
      BY <1>1, <2>3 DEF RestartFails, MoveTo, Applying, Active, TypeOK
    <3> QED
      BY <2>1, <2>2, <3>1, <3>2 DEF Calm, Undisturbed
  <2>4. CASE ~RestartFails(a)
    <3>1. a \in Applying
      BY <1>7, <2>4
         DEF Installing, SetInstalling, ExtractBegins, ExtractEnds, ExtractFails,
             Backup,
                        CopyBegins, CopyEnds, CopyFails, CleanUp, Applying, Active
    <3>2. Running' = {}
      BY <2>2, <3>1 DEF Calm
    <3>3. CASE SetInstalling(a) \/ ExtractFails(a) \/ CopyFails(a)
      <4>1. status'.status \in {"installing", "error"}
        BY <3>3, StatusSet DEF SetInstalling, ExtractFails, CopyFails, ApplyFails
      <4> QED
        BY <3>2, <4>1 DEF Calm
    <3>4. CASE ~(SetInstalling(a) \/ ExtractFails(a) \/ CopyFails(a))
      <4>1. status' = status /\ apc[a] # "checked"
        BY <1>7, <2>4, <3>4 DEF Installing, ExtractBegins, ExtractEnds, Backup, CopyBegins,
                                CopyEnds, CleanUp, handler
      <4>2. status.status # "ready"
        BY <2>2, <3>1, <4>1 DEF Calm
      <4> QED
        BY <3>2, <4>1, <4>2 DEF Calm
    <3> QED
      BY <3>3, <3>4
  <2> QED
    BY <2>3, <2>4
<1>8. ASSUME Stop PROVE Calm'
  BY <1>8 DEF Stop, SetStatus, Calm, Running, Applying, Active
<1>9. ASSUME Start PROVE Calm'
  BY <1>9
     DEF Start, Base, ActorsInv, Calm, Running, Applying, Active, handler, download,
         apply
<1>10. CASE UNCHANGED vars
  BY <1>10 DEF vars, handler, download, apply, files, history, CalmInv, Calm, Undisturbed,
               Running, Applying
<1> QED
  BY <1>3, <1>4, <1>5, <1>6, <1>7, <1>8, <1>9, <1>10 DEF Next, CalmInv

-----------------------------------------------------------------------------
(* The theorems.                                                           *)

LEMMA InitInv == Init => Inv
<1> SUFFICES ASSUME Init PROVE Inv
  OBVIOUS
<1>1. /\ \A d \in Downloads : dpc[d] = "none" /\ dver[d] = None
      /\ \A a \in Appliers : apc[a] = "none" /\ aver[a] = None
      /\ Running = {} /\ Applying = {}
  BY DEF Init, Running, Applying, Active
<1>2. /\ \A n \in Names : file[n] = IF n = "binary" THEN Whole(Installed) ELSE NoFile
      /\ Whole(Installed) \in File /\ NoFile \in File
  BY DEF Init, Whole, NoFile, File, AllVersions
<1>3. /\ \A v : Whole(v).by = {} /\ Whole(v).whole /\ Whole(v).from = v
      /\ NoFile.by = {} /\ ~NoFile.whole
  BY DEF Whole, NoFile
<1>4. {"extracted", "binary", "backup"} \subseteq Names /\ "extracted" # "binary"
  BY DEF Names
<1>5. TypeOK
  <2>1. /\ requests \in 0..MaxRequests /\ live \in Downloads \cup {None}
        /\ staged \in Versions \cup {None} /\ told \in AllVersions
    BY BoundAssumption DEF Init, AllVersions
  <2>2. /\ up \in BOOLEAN /\ dir \in BOOLEAN
        /\ disturbed \in BOOLEAN /\ overlapped \in BOOLEAN
    BY DEF Init
  <2>3. /\ status \in [status : Statuses, version : Versions \cup {None}]
        /\ cancelled \subseteq Running /\ short \subseteq Appliers
    BY DEF Init, Statuses
  <2>4. /\ dpc \in [Downloads -> {"none", "fetch", "read", "stage", "ready"}]
        /\ dver \in [Downloads -> Versions \cup {None}]
        /\ apc \in [Appliers -> Active \cup {"none", "restart"}]
        /\ aver \in [Appliers -> Versions \cup {None}]
    BY DEF Init
  <2>5. file \in [Names -> File]
    BY <1>2 DEF Init
  <2> QED
    BY <2>1, <2>2, <2>3, <2>4, <2>5 DEF TypeOK
<1>6. ActorsInv /\ Sound(file) /\ WritersInv
  BY <1>1, <1>2, <1>3 DEF Init, ActorsInv, Sound, WritersInv, AllVersions
<1>7. Quiet
  BY <1>1, <1>2, <1>3, <1>4 DEF Init, Quiet
<1>8. Calm /\ DownloadingIsTrue
  BY <1>1 DEF Init, Calm, DownloadingIsTrue
<1> QED
  BY <1>5, <1>6, <1>7, <1>8 DEF Inv, Base, QuietInv, CalmInv

THEOREM Invariance == Spec => []Inv
<1>1. Inv /\ [Next]_vars => Inv'
  BY BaseStep, QuietStep, CalmStep, DownloadingStep DEF Inv
<1> QED
  BY InitInv, <1>1, PTL DEF Spec

(* Every reachable state has its type: among other things, only downloads  *)
(* that run are cancelled, and no request to install loses its version.    *)
THEOREM UpdateTypes == Spec => []TypeOK
<1>1. Inv => TypeOK
  BY DEF Inv, Base
<1> QED
  BY Invariance, <1>1, PTL

(* Wherever an installation stops or the device does, a complete binary is *)
(* left, in place or as its backup.                                        *)
THEOREM UpdateRecoverable == Spec => []Recoverable
<1>1. Inv => Recoverable
  BY DEF Inv, QuietInv, Quiet, Recoverable
<1> QED
  BY Invariance, <1>1, PTL

(* When no installation is under way, the binary in place is complete and  *)
(* of the version that the user has been told.                             *)
THEOREM UpdateAllOrNothing == Spec => []AllOrNothing
<1>1. Inv => AllOrNothing
  <2> SUFFICES ASSUME Inv, up, ~overlapped, Applying = {} PROVE file["binary"] = Whole(told)
    BY DEF AllOrNothing
  <2>1. \A a \in Appliers : apc[a] \notin {"copy", "copying", "clean"}
    BY DEF Applying, Active
  <2> QED
    BY <2>1 DEF Inv, QuietInv, Quiet
<1> QED
  BY Invariance, <1>1, PTL

(* While nothing disturbs the downloads, there is one at a time. *)
THEOREM UpdateOneDownload == Spec => []OneDownload
<1>1. Inv => OneDownload
  <2> SUFFICES ASSUME Inv, ~disturbed PROVE Cardinality(Running) <= 1
    BY DEF OneDownload
  <2>1. Running = {} \/ \E d \in Running : Running = {d}
    BY DEF Inv, CalmInv, Calm
  <2> QED
    BY <2>1, FS_EmptySet, FS_Singleton
<1> QED
  BY Invariance, <1>1, PTL

(* Under the same condition what the status calls ready is staged and      *)
(* complete.                                                               *)
THEOREM UpdateReady == Spec => []ReadyMeansStaged
<1>1. Inv => ReadyMeansStaged
  BY DEF Inv, CalmInv, Calm, ReadyMeansStaged
<1> QED
  BY Invariance, <1>1, PTL

(* The status never says downloading when no download runs. *)
THEOREM UpdateDownloading == Spec => []DownloadingIsTrue
<1>1. Inv => DownloadingIsTrue
  BY DEF Inv
<1> QED
  BY Invariance, <1>1, PTL

(* What is done to neither the binary nor its backup changes nothing of    *)
(* what can be started.                                                    *)
LEMMA StartableStays ==
  ASSUME \A n \in {"binary", "backup"} :
           file'[n].whole = file[n].whole /\ file'[n].from = file[n].from
  PROVE  Startable' = Startable
BY DEF Startable

(* A step of the only installation leaves what can be started, and it is   *)
(* what the user has been told, until the copy is complete.                *)
LEMMA InstallingAtOnce ==
  ASSUME Base, Quiet, NEW a \in Appliers, Installing(a)
  PROVE  \/ Startable' = Startable
         \/ apc[a] = "copying" /\ Startable = told /\ Startable' = aver[a]
<1>1. /\ TypeOK /\ file \in Files /\ Sound(file)
      /\ {"extracted", "binary", "backup"} \subseteq Names
      /\ a \in Actors
  BY DEF Base, TypeOK, Files, Names, Actors
<1>2. /\ \A v : Whole(v).by = {} /\ Whole(v).whole /\ Whole(v).from = v
      /\ NoFile.by = {} /\ ~NoFile.whole
  BY DEF Whole, NoFile
<1>3. told # None
  BY <1>1, VersionsAssumption DEF TypeOK, AllVersions
<1>4. ASSUME apc[a] \in Active
      PROVE  /\ Alone(a) /\ short = {} /\ aver[a] \in Versions /\ up
             /\ apc[a] \notin {"copy", "copying", "clean"} => file["binary"] = Whole(told)
  <2>1. Alone(a) /\ short = {} /\ aver[a] \in Versions /\ up
    BY <1>4 DEF Quiet, Applying, Base, ActorsInv, Active
  <2>2. \A b \in Appliers : b # a => apc[b] \notin Active
    BY <1>4 DEF Quiet, Applying
  <2> QED
    BY <2>1, <2>2 DEF Quiet, Active
<1>5. CASE SetInstalling(a) \/ RestartFails(a)
  BY <1>5, StartableStays DEF SetInstalling, RestartFails, files
<1>6. CASE ExtractBegins(a)
  <2>1. file'["binary"] = file["binary"] /\ file'["backup"] = file["backup"]
    BY <1>1, <1>6, CreatedOthers DEF ExtractBegins
  <2> QED
    BY <2>1, StartableStays
<1>7. CASE ExtractEnds(a) \/ ExtractFails(a)
  <2>1. apc[a] \in {"extract", "extracting"} /\ file["binary"] = Whole(told)
    BY <1>4, <1>7 DEF ExtractEnds, ExtractFails, Active
  <2>2. file'["binary"] = file["binary"]
    <3>1. a \notin file["binary"].by
      BY <1>2, <2>1
    <3>2. \A good \in BOOLEAN : Closed(a, good)["binary"] = file["binary"]
      BY <1>1, <3>1, ClosedOthers
    <3> QED
      BY <1>7, <3>2 DEF ExtractEnds, ExtractFails
  <2> QED
    BY <1>2, <2>1, <2>2 DEF Startable
<1>8. CASE Backup(a)
  <2>1. file["binary"] = Whole(told)
    BY <1>4, <1>8 DEF Backup, Active
  <2>2. file'["backup"] = Whole(told) /\ file'["binary"] = NoFile
    BY <1>1, <1>2, <1>3, <1>8, <2>1, RenamedFile DEF Backup
  <2> QED
    BY <1>2, <2>1, <2>2 DEF Startable
<1>9. CASE CopyBegins(a)
  <2>1. /\ apc[a] = "copy" /\ file' = Created("binary", a, file["extracted"].from)
        /\ file["binary"] = NoFile
    BY <1>4, <1>9 DEF CopyBegins, Active, Alone
  <2>2. ~file'["binary"].whole
    BY <1>1, <2>1 DEF Created, Files
  <2>3. file'["backup"] = file["backup"]
    BY <1>1, <2>1, CreatedOthers
  <2> QED
    BY <1>2, <2>1, <2>2, <2>3 DEF Startable
<1>10. CASE CopyEnds(a)
  <2>1. apc[a] = "copying" /\ file' = Closed(a, TRUE)
    BY <1>4, <1>10 DEF CopyEnds, Active
  <2>2. /\ file["binary"] = [from |-> aver[a], whole |-> FALSE, by |-> {a}]
        /\ file["backup"] = Whole(told) /\ aver[a] # "mixed"
    BY <1>4, <2>1, VersionsAssumption DEF Active, Alone
  <2>3. file'["binary"] = Whole(aver[a])
    <3>1. file["binary"].from = aver[a] /\ file["binary"].by = {a}
      BY <2>2
    <3>2. Closed(a, TRUE)["binary"] = Whole(aver[a])
      BY <1>1, <2>2, <3>1, ClosedAlone
    <3> QED
      BY <2>1, <3>2
  <2> QED
    BY <1>2, <2>1, <2>2, <2>3 DEF Startable
<1>11. CASE CopyFails(a)
  <2> DEFINE closed == Closed(a, FALSE)
  <2>1. /\ apc[a] \in {"copy", "copying"}
        /\ file' = Renamed(closed, "backup", "binary")
    BY <1>11 DEF CopyFails
  <2>2. file["backup"] = Whole(told) /\ ~file["binary"].whole
    BY <1>2, <1>4, <2>1 DEF Active, Alone
  <2>3. closed \in Files /\ Sound(closed) /\ closed["backup"] = Whole(told)
    <3>1. a \notin file["backup"].by
      BY <1>2, <2>2
    <3>2. closed["backup"] = file["backup"]
      BY <1>1, <3>1, ClosedOthers
    <3> QED
      BY <1>1, <2>2, <3>2, ClosedFile
  <2> HIDE DEF closed
  <2>4. file'["binary"] = Whole(told)
    <3>1. closed["backup"].from # None
      BY <1>2, <1>3, <2>3
    <3>2. Renamed(closed, "backup", "binary")["binary"] = closed["backup"]
      BY <1>1, <2>3, <3>1, RenamedFile
    <3> QED
      BY <2>1, <2>3, <3>2
  <2> QED
    BY <1>2, <2>2, <2>4 DEF Startable
<1>12. CASE CleanUp(a)
  BY <1>1, <1>12, EmptiedFile, StartableStays DEF CleanUp
<1> QED
  BY <1>5, <1>6, <1>7, <1>8, <1>9, <1>10, <1>11, <1>12 DEF Installing

(* An installation takes effect at once: a stop at any moment leaves the   *)
(* version that the user has been told or, from the moment its copy is     *)
(* complete, the new one.                                                  *)
THEOREM UpdateAtOnce == Spec => InstallsAtOnce
<1> DEFINE Step == /\ Startable = told
                   /\ \E a \in Appliers : apc[a] = "copying" /\ Startable' = aver[a]
<1>1. ASSUME Inv, [Next]_vars, ~overlapped' PROVE Startable' = Startable \/ Step
  <2>1. Base /\ (~overlapped => Quiet)
    BY <1>1 DEF Inv, QuietInv
  <2>2. ASSUME NEW a \in Appliers, Installing(a) PROVE Startable' = Startable \/ Step
    <3>1. ~overlapped
      BY <1>1, <2>2
         DEF Installing, SetInstalling, ExtractBegins, ExtractEnds, ExtractFails, ApplyFails,
             Backup, CopyBegins, CopyEnds, CopyFails, CleanUp, RestartFails, history
    <3> QED
      BY <2>1, <2>2, <3>1, InstallingAtOnce
  <2>3. ASSUME NEW d \in Downloads, Downloading(d) PROVE Startable' = Startable
    BY <2>1, <2>3, DownloadingFiles, StartableStays
  <2>4. ASSUME Stop PROVE Startable' = Startable
    BY <2>1, <2>4, StopFiles, StartableStays
  <2>5. CASE UNCHANGED file
    BY <2>5, StartableStays
  <2>6. ASSUME \/ \E d \in Downloads, v \in Versions : BeginDownload(d, v)
               \/ \E a \in Appliers : BeginApply(a)
               \/ Cancel \/ Start \/ UNCHANGED vars
        PROVE  UNCHANGED file
    BY <2>6 DEF BeginDownload, BeginApply, Cancel, Start, files, vars
  <2> QED
    BY <1>1, <2>2, <2>3, <2>4, <2>5, <2>6 DEF Next
<1>2. Inv /\ [Next]_vars => [~overlapped' /\ Startable' # Startable => Step]_vars
  BY <1>1
<1> QED
  BY Invariance, <1>2, PTL DEF Spec, InstallsAtOnce

=============================================================================
