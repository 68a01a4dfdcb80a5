---------------------------- MODULE PhotoUpload ----------------------------
(***************************************************************************)
(* The photo of a driver's profile and of a stop (upload.routes.js): a file*)
(* that is written first, and the row that is updated to name it. The      *)
(* driver may be deactivated, and the stop be given to another, at any     *)
(* time (admin.routes.js, admin-transfer-tour.routes.js).                  *)
(***************************************************************************)
EXTENDS Naturals

CONSTANTS NoPhoto, Uploads, \* requests that may be under way together
          MaxUploads        \* bound

Targets == {"driver", "stop"}

ASSUME PhotoAssumption == NoPhoto \notin Nat /\ MaxUploads \in Nat

VARIABLES row,    \* its photo, and whether it is the driver's to change (or the driver active)
          files,  \* in the upload directory
          upload, uploads,
          \* History, read by no action:
          left,   \* files that stay although no row names them
          lost    \* files that may be gone although a row names them

photoVars == <<row, files, upload, uploads, left, lost>>

NoUpload == [step |-> "none", row |-> "driver", file |-> 0]
FileNames == 1..MaxUploads
HasFile(u) == upload[u].step \in {"written", "updated", "refused"}
InFlight == {upload[u].file : u \in {v \in Uploads : HasFile(v)}}

PhotoTypeOK ==
    /\ row \in [Targets -> [mine : BOOLEAN, photo : FileNames \cup {NoPhoto}]]
    /\ upload \in [Uploads -> [step : {"none", "asked", "checked", "written", "updated", "refused"},
                                row : Targets, file : FileNames \cup {0}]]
    /\ files \cup left \cup lost \subseteq FileNames /\ uploads \in 0..MaxUploads

\* requireDeviceAuth; the profile's row is the authenticated driver's.
AskUpload(u, t) ==
    /\ upload[u] = NoUpload /\ row["driver"].mine
    /\ upload' = [upload EXCEPT ![u] = [step |-> IF t = "stop" THEN "asked" ELSE "checked", row |-> t, file |-> 0]]
    /\ UNCHANGED <<row, files, uploads, left, lost>>

\* stopBelongsToAuthenticatedDriver, on the row as it is read here
CheckStop(u) ==
    /\ upload[u].step = "asked"
    /\ upload' = [upload EXCEPT ![u] = IF row["stop"].mine THEN [@ EXCEPT !.step = "checked"] ELSE NoUpload]
    /\ UNCHANGED <<row, files, uploads, left, lost>>

\* decodeUploadImage, or a body that names another driver or tour
RefuseImage(u) ==
    /\ upload[u].step \in {"asked", "checked"} /\ upload' = [upload EXCEPT ![u] = NoUpload]
    /\ UNCHANGED <<row, files, uploads, left, lost>>

WriteFile(u) ==
    /\ upload[u].step = "checked" /\ uploads < MaxUploads /\ uploads' = uploads + 1
    /\ files' = files \cup {uploads'}
    /\ upload' = [upload EXCEPT ![u].step = "written", ![u].file = uploads']
    /\ UNCHANGED <<row, left, lost>>

\* The disk is full, say: what was written of the file has no one to remove it.
WriteFails(u) ==
    /\ upload[u].step = "checked" /\ uploads < MaxUploads /\ uploads' = uploads + 1
    /\ files' = files \cup {uploads'} /\ left' = left \cup {uploads'}
    /\ upload' = [upload EXCEPT ![u] = NoUpload]
    /\ UNCHANGED <<row, lost>>

\* The WHERE of the UPDATE checks the row again.
Matches(r) == row[r.row].mine
Named(r) ==
    /\ row' = [row EXCEPT ![r.row].photo = r.file]
    /\ left' = left \cup ({row[r.row].photo} \ {NoPhoto}) \* no one removes the photo before
Update(u) ==
    /\ upload[u].step = "written"
    /\ IF Matches(upload[u])
       THEN Named(upload[u]) /\ upload' = [upload EXCEPT ![u].step = "updated"]
       ELSE upload' = [upload EXCEPT ![u].step = "refused"] /\ UNCHANGED <<row, left>>
    /\ UNCHANGED <<files, uploads, lost>>

\* The query fails for the server, which may have committed it all the same.
UpdateFails(u) ==
    /\ upload[u].step = "written" /\ upload' = [upload EXCEPT ![u].step = "refused"]
    /\ \/ Matches(upload[u]) /\ Named(upload[u]) /\ lost' = lost \cup {upload[u].file}
       \/ UNCHANGED <<row, left, lost>>
    /\ UNCHANGED <<files, uploads>>

\* removeUploadFile, which may fail and says nothing
CleanedNothing(r) == files
Cleaned(r) == files \ {r.file}
RemoveFile(u) ==
    /\ upload[u].step = "refused" /\ upload' = [upload EXCEPT ![u] = NoUpload]
    /\ \/ files' = Cleaned(upload[u]) /\ UNCHANGED left
       \/ files' = files /\ left' = left \cup {upload[u].file}
    /\ UNCHANGED <<row, uploads, lost>>

AnswerUpload(u) ==
    /\ upload[u].step = "updated" /\ upload' = [upload EXCEPT ![u] = NoUpload]
    /\ UNCHANGED <<row, files, uploads, left, lost>>

Restart ==
    /\ upload' = [u \in Uploads |-> NoUpload] /\ left' = left \cup InFlight
    /\ UNCHANGED <<row, files, uploads, lost>>

\* The office gives the tour away, or back; deactivates the driver, or not.
Reassign(t) ==
    /\ row' = [row EXCEPT ![t].mine = ~@] /\ UNCHANGED <<files, upload, uploads, left, lost>>

PhotoInit ==
    /\ row = [t \in Targets |-> [mine |-> TRUE, photo |-> NoPhoto]]
    /\ files = {} /\ upload = [u \in Uploads |-> NoUpload] /\ uploads = 0 /\ left = {} /\ lost = {}

PhotoNext ==
    \/ \E u \in Uploads :
          \/ CheckStop(u) \/ RefuseImage(u) \/ WriteFile(u) \/ WriteFails(u)
          \/ Update(u) \/ UpdateFails(u) \/ RemoveFile(u) \/ AnswerUpload(u)
          \/ \E t \in Targets : AskUpload(u, t)
    \/ Restart
    \/ \E t \in Targets : Reassign(t)

PhotoSpec == PhotoInit /\ [][PhotoNext]_photoVars

(* A photo that a row names is a file, unless the answer of the UPDATE was lost
   and the file removed; a file that no row names is of a request under way, was
   replaced, or stayed after a restart, or a write or an unlink that failed
   (upload.routes.js 77-93, 143-151, 230-237). *)
FilesAndRowsAgree ==
    /\ \A t \in Targets : row[t].photo \in files \cup lost \cup {NoPhoto}
    /\ files \subseteq {row[t].photo : t \in Targets} \cup InFlight \cup left

(* A stop that was given away between the check and the UPDATE, while the file
   was written, does not get the photo, nor does a driver who was deactivated
   (upload.routes.js 129-141, 212-229). *)
PhotosStayScoped == [][\A t \in Targets : row'[t].photo # row[t].photo => row[t].mine]_photoVars

=============================================================================
