---------------------------- MODULE Attachments ----------------------------
(***************************************************************************)
(* AttachmentsService and S3Service: the row of a file and its object in   *)
(* the bucket, which no transaction ties together.  The client uploads to  *)
(* the signed URL by itself, as often as it likes while the URL is valid.  *)
(***************************************************************************)
EXTENDS Naturals

CONSTANTS
  Files,        \* the files, each presigned once
  Finalizers,   \* slots for calls of finalize in flight
  MaxMishaps    \* bound: calls of S3 or of the database that fail

ASSUME AttachmentsAssumption == MaxMishaps \in Nat

VARIABLES
  clamav,     \* CLAMAV_ENABLED
  row,        \* row[f]: none, clean, pending (scan_status), removed
  bucket,     \* bucket[f]: none, declared (its size, within 1024), other
  putUrl,     \* putUrl[f]: the signed PUT: none, valid, expired
  finalizing, \* finalizing[q]: idle, found, mismatch (head read), deleted
  file,       \* file[q]: its file, {} if idle
  accepted,   \* files whose finalize has answered with the attachment
  refused,    \* files whose finalize has said that the size is wrong
  halfway,    \* files for which a removal failed after it had begun
  again,      \* files uploaded since an object of theirs was deleted
  mishaps     \* calls that failed so far

storeVars == <<row, bucket, putUrl>>
callVars  == <<finalizing, file>>
fileGhost == <<accepted, refused, halfway, again>>
attachmentsVars == <<clamav, storeVars, callVars, fileGhost, mishaps>>

AttachmentsInit ==
  /\ clamav \in BOOLEAN
  /\ row = [f \in Files |-> "none"] /\ bucket = [f \in Files |-> "none"]
  /\ putUrl = [f \in Files |-> "none"]
  /\ finalizing = [q \in Finalizers |-> "idle"] /\ file = [q \in Finalizers |-> {}]
  /\ accepted = {} /\ refused = {} /\ halfway = {} /\ again = {} /\ mishaps = 0

\* presignUpload: type and size are allowed, the access is checked.  A row is
\* clean from the start unless a scanner is configured, and then stays pending.
PresignUpload(f) ==
  /\ row[f] = "none"
  /\ row' = [row EXCEPT ![f] = IF clamav THEN "pending" ELSE "clean"]
  /\ putUrl' = [putUrl EXCEPT ![f] = "valid"]
  /\ UNCHANGED <<clamav, bucket, callVars, fileGhost, mishaps>>

\* The client puts the object, or another one in its place.
Upload(f, size) ==
  /\ putUrl[f] = "valid" /\ bucket[f] # size
  /\ bucket' = [bucket EXCEPT ![f] = size]
  /\ again' = IF f \in refused \cup halfway \/ \E q \in Finalizers :
                                    f \in file[q] /\ finalizing[q] = "deleted"
                THEN again \cup {f} ELSE again
  /\ UNCHANGED <<clamav, row, putUrl, callVars, accepted, refused, halfway, mishaps>>

\* Five minutes.
ExpirePut(f) ==
  /\ putUrl[f] = "valid"
  /\ putUrl' = [putUrl EXCEPT ![f] = "expired"]
  /\ UNCHANGED <<clamav, row, bucket, callVars, fileGhost, mishaps>>

-----------------------------------------------------------------------------
(* finalize *)

Goes(q, s, F) ==
  /\ finalizing' = [finalizing EXCEPT ![q] = s]
  /\ file' = [file EXCEPT ![q] = F]

\* The row is there, and of this user; otherwise 404 or 403.
FinalizeFinds(q, f) ==
  /\ finalizing[q] = "idle" /\ row[f] \in {"clean", "pending"}
  /\ Goes(q, "found", {f})
  /\ UNCHANGED <<clamav, storeVars, fileGhost, mishaps>>

\* |realSize - declared| <= 1024
RightSizes == {"declared"}

\* HEAD: the size agrees, the attachment is returned,
FinalizeAccepts(q) ==
  /\ finalizing[q] = "found"
  /\ \E f \in file[q] : bucket[f] \in RightSizes /\ accepted' = accepted \cup {f}
  /\ Goes(q, "idle", {})
  /\ UNCHANGED <<clamav, storeVars, refused, halfway, again, mishaps>>

\* or there is no object, also because another finalize has deleted it: 400,
FinalizeMisses(q) ==
  /\ finalizing[q] = "found"
  /\ \E f \in file[q] : bucket[f] = "none"
  /\ Goes(q, "idle", {})
  /\ UNCHANGED <<clamav, storeVars, fileGhost, mishaps>>

\* or it has another size.
FinalizeMismatches(q) ==
  /\ finalizing[q] = "found"
  /\ \E f \in file[q] : bucket[f] \notin RightSizes \cup {"none"}
  /\ Goes(q, "mismatch", file[q])
  /\ UNCHANGED <<clamav, storeVars, fileGhost, mishaps>>

\* s3.delete, whatever object has been put there since the HEAD,
FinalizeDeletes(q) ==
  /\ finalizing[q] = "mismatch"
  /\ \E f \in file[q] : bucket' = [bucket EXCEPT ![f] = "none"]
  /\ Goes(q, "deleted", file[q])
  /\ UNCHANGED <<clamav, row, putUrl, fileGhost, mishaps>>

\* Mutant: the object is deleted and its row kept.
RowKept(f) == row[f]

\* repo.remove(att)
RemovedRow(f) == "removed"

\* then the row; the answer is 400 all the same.
FinalizeRemoves(q) ==
  /\ finalizing[q] = "deleted"
  /\ \E f \in file[q] : /\ row' = [row EXCEPT ![f] = RemovedRow(f)]
                        /\ refused' = refused \cup {f}
  /\ Goes(q, "idle", {})
  /\ UNCHANGED <<clamav, bucket, putUrl, accepted, halfway, again, mishaps>>

\* The HEAD, the DELETE or the removal throws: 400, and what was done stays.
FinalizeFails(q) ==
  /\ finalizing[q] # "idle" /\ mishaps < MaxMishaps
  /\ mishaps' = mishaps + 1
  /\ halfway' = IF finalizing[q] = "deleted" THEN halfway \cup file[q] ELSE halfway
  /\ Goes(q, "idle", {})
  /\ UNCHANGED <<clamav, storeVars, accepted, refused, again>>

-----------------------------------------------------------------------------

AttachmentsNext ==
  \/ \E f \in Files : \/ PresignUpload(f) \/ ExpirePut(f)
                      \/ \E size \in {"declared", "other"} : Upload(f, size)
  \/ \E q \in Finalizers :
       \/ FinalizeAccepts(q) \/ FinalizeMisses(q) \/ FinalizeMismatches(q)
       \/ FinalizeDeletes(q) \/ FinalizeRemoves(q) \/ FinalizeFails(q)
       \/ \E f \in Files : FinalizeFinds(q, f)

AttachmentsSpec == AttachmentsInit /\ [][AttachmentsNext]_attachmentsVars

\* getDownloadUrl signs a GET for a row that is clean.
Downloadable(f) == row[f] = "clean"

Idle(f) == \A q \in Finalizers : f \notin file[q]

AttachmentsTypeOK ==
  /\ clamav \in BOOLEAN
  /\ row \in [Files -> {"none", "clean", "pending", "removed"}]
  /\ \A f \in Files : row[f] \in {"none", "removed", IF clamav THEN "pending" ELSE "clean"}
  /\ bucket \in [Files -> {"none", "declared", "other"}]
  /\ putUrl \in [Files -> {"none", "valid", "expired"}]
  /\ finalizing \in [Finalizers -> {"idle", "found", "mismatch", "deleted"}]
  /\ file \in [Finalizers -> SUBSET Files]
  /\ \A q \in Finalizers : finalizing[q] = "idle" <=> file[q] = {}
  /\ accepted \cup refused \cup halfway \cup again \subseteq Files /\ mishaps \in Nat

\* finalize, "vérif tête S3": a file it has accepted and that can still be
\* downloaded has its object, however many calls of finalize overlap with
\* uploads, unless one of them failed between deleting object and row; and one
\* it has refused leaves neither, unless it was uploaded again.
RowAndObjectAgree ==
  \A f \in Files : Idle(f) =>
    /\ f \in accepted /\ Downloadable(f) => bucket[f] # "none" \/ f \in halfway
    /\ f \in refused => row[f] = "removed" /\ (bucket[f] = "none" \/ f \in again)
=============================================================================
