------------------------------- MODULE Files -------------------------------
(***************************************************************************)
(* Uploaded files: the blob store and the files and message_files tables   *)
(* (backend/src/api/media.rs, storage.rs, repository/postgres.rs), written *)
(* by uploads, by messages with attachments, by the retention of messages  *)
(* and by the hourly cleanup of orphans that every replica runs.           *)
(***************************************************************************)
EXTENDS Integers

CONSTANTS
    File,       \* uploads, each with an id and a storage key of its own
    Message,    \* messages being sent, with one attachment
    Cleaner,    \* replicas' cleanup tasks
    NoFile

ASSUME NoFileAssumption == NoFile \notin File

VARIABLES
    blob,       \* the keys in the blob store
    row,        \* files: "none", "live", or "deleted" when deleted_at is set
    old,        \* the files created before the cleanup's cutoff
    links,      \* message_files: the messages a file is attached to
    upload,     \* where each upload is
    sending,    \* the file each message is about to be saved with
    claimed,    \* the files each cleanup has claimed and not been through
    erased,     \* the claimed file whose blob it has just deleted
    leaked,     \* history: uploads that died or left an unanswered put behind
    raced       \* history: files claimed between a message's check and save

uploads == <<upload, leaked>>
messages == <<sending, links, raced>>
cleanups == <<claimed, erased>>
fileVars == <<blob, row, old, uploads, messages, cleanups>>

FilesTypeOK ==
    /\ blob \subseteq File /\ old \subseteq File
    /\ leaked \subseteq File /\ raced \subseteq File
    /\ row \in [File -> {"none", "live", "deleted"}]
    /\ links \in [File -> SUBSET Message]
    /\ \A f \in File : row[f] = "none" => links[f] = {}
    /\ upload \in [File -> {"new", "put", "insert", "undo", "answered", "failed"}]
    /\ sending \in [Message -> File \union {NoFile}]
    /\ claimed \in [Cleaner -> SUBSET File]
    /\ erased \in [Cleaner -> File \union {NoFile}]

FilesInit ==
    /\ blob = {} /\ old = {} /\ leaked = {} /\ raced = {}
    /\ row = [f \in File |-> "none"]
    /\ links = [f \in File |-> {}]
    /\ upload = [f \in File |-> "new"]
    /\ sending = [m \in Message |-> NoFile]
    /\ claimed = [c \in Cleaner |-> {}]
    /\ erased = [c \in Cleaner |-> NoFile]
-----------------------------------------------------------------------------
(* BlobStore: put and delete, for which a missing key is no error.         *)
Put(f) == blob' = blob \union {f}
Delete(f) == blob' = blob \ {f}

(* upload_file reads the file and has it scanned; the scanner accepts it,  *)
(* rejects it or is unavailable.                                           *)
Scan(f) ==
    /\ upload[f] = "new"
    /\ \E at \in {"put", "failed"} : upload' = [upload EXCEPT ![f] = at]
    /\ UNCHANGED <<blob, row, old, leaked, messages, cleanups>>

(* The blob is put.  A put that fails, or only seems to because its answer *)
(* is lost, ends the upload and undoes nothing.                            *)
UploadFile(f) ==
    /\ upload[f] = "put"
    /\ \/ Put(f) /\ upload' = [upload EXCEPT ![f] = "insert"] /\ UNCHANGED leaked
       \/ /\ upload' = [upload EXCEPT ![f] = "failed"]
          /\ \/ UNCHANGED <<blob, leaked>>
             \/ Put(f) /\ leaked' = leaked \union {f}
    /\ UNCHANGED <<row, old, messages, cleanups>>

(* INSERT INTO files.  It can fail without effect, or only seem to: the    *)
(* connection is lost after the row is committed.                          *)
InsertFile(f) ==
    /\ upload[f] = "insert"
    /\ \/ /\ row' = [row EXCEPT ![f] = "live"]
          /\ \E at \in {"answered", "undo"} : upload' = [upload EXCEPT ![f] = at]
       \/ upload' = [upload EXCEPT ![f] = "undo"] /\ UNCHANGED row
    /\ UNCHANGED <<blob, old, leaked, messages, cleanups>>

(* After an error the blob is deleted, as far as the store lets it.        *)
UndoPut(f) ==
    /\ upload[f] = "undo"
    /\ \/ Delete(f) /\ UNCHANGED leaked
       \/ leaked' = leaked \union {f} /\ UNCHANGED blob
    /\ upload' = [upload EXCEPT ![f] = "failed"]
    /\ UNCHANGED <<row, old, messages, cleanups>>

(* The replica dies, or drops the handler, in the middle of an upload.     *)
UploadDies(f) ==
    /\ upload[f] \in {"insert", "undo"}
    /\ upload' = [upload EXCEPT ![f] = "failed"]
    /\ leaked' = leaked \union {f}
    /\ UNCHANGED <<blob, row, old, messages, cleanups>>

(* An hour passes after the INSERT.                                        *)
Age(f) ==
    /\ row[f] = "live" /\ f \notin old
    /\ old' = old \union {f}
    /\ UNCHANGED <<blob, row, uploads, messages, cleanups>>
-----------------------------------------------------------------------------
Unattached(m) == \A f \in File : m \notin links[f]

(* SendMessage: the file is the user's own and not deleted.  Its id is     *)
(* known from the answer to the upload.                                    *)
CheckFile(m, f) ==
    /\ sending[m] = NoFile /\ Unattached(m)
    /\ upload[f] = "answered" /\ row[f] = "live"
    /\ sending' = [sending EXCEPT ![m] = f]
    /\ UNCHANGED <<blob, row, old, uploads, links, raced, cleanups>>

(* save_message, much later: the reference needs the row, not its state.   *)
SaveMessage(m) ==
    LET f == sending[m]
    IN  /\ f # NoFile
        /\ sending' = [sending EXCEPT ![m] = NoFile]
        /\ links' = IF row[f] = "none" THEN links
                    ELSE [links EXCEPT ![f] = @ \union {m}]
        /\ raced' = IF row[f] = "deleted" THEN raced \union {f} ELSE raced
        /\ UNCHANGED <<blob, row, old, uploads, cleanups>>

SaveFails(m) ==
    /\ sending[m] # NoFile
    /\ sending' = [sending EXCEPT ![m] = NoFile]
    /\ UNCHANGED <<blob, row, old, uploads, links, raced, cleanups>>

(* prune_expired deletes the message and, by cascade, its references.      *)
PruneExpired(m) ==
    /\ ~Unattached(m)
    /\ links' = [f \in File |-> links[f] \ {m}]
    /\ UNCHANGED <<blob, row, old, uploads, sending, raced, cleanups>>
-----------------------------------------------------------------------------
OrphansAttachedToo ==
    {f \in File : row[f] = "deleted" \/ (row[f] = "live" /\ f \in old)}

OrphansUnclaimed ==
    {f \in File : row[f] = "live" /\ f \in old /\ links[f] = {}}

(* The WHERE of claim_orphan_files: those claimed before are tried again.  *)
Orphans ==
    {f \in File : /\ row[f] = "deleted" \/ (row[f] = "live" /\ f \in old)
                  /\ links[f] = {}}

ClaimOrphanFiles(c) ==
    /\ claimed[c] = {} /\ erased[c] = NoFile
    /\ Orphans # {}
    /\ claimed' = [claimed EXCEPT ![c] = Orphans]
    /\ row' = [f \in File |-> IF f \in Orphans THEN "deleted" ELSE row[f]]
    /\ UNCHANGED <<blob, old, uploads, messages, erased>>

DeleteBlob(c, f) ==
    /\ f \in claimed[c] /\ erased[c] = NoFile
    /\ Delete(f)
    /\ claimed' = [claimed EXCEPT ![c] = @ \ {f}]
    /\ erased' = [erased EXCEPT ![c] = f]
    /\ UNCHANGED <<row, old, uploads, messages>>

DeleteBlobFailsUnnoticed(c, f) ==
    /\ f \in claimed[c] /\ erased[c] = NoFile
    /\ claimed' = [claimed EXCEPT ![c] = @ \ {f}]
    /\ erased' = [erased EXCEPT ![c] = f]
    /\ UNCHANGED <<blob, row, old, uploads, messages>>

(* Logged; the row stays for the next round.                               *)
DeleteBlobFails(c, f) ==
    /\ f \in claimed[c] /\ erased[c] = NoFile
    /\ claimed' = [claimed EXCEPT ![c] = @ \ {f}]
    /\ UNCHANGED <<blob, row, old, uploads, messages, erased>>

(* delete_file_metadata; message_files follows by cascade.                 *)
DeleteFileMetadata(c) ==
    LET f == erased[c]
    IN  /\ f # NoFile
        /\ row' = [row EXCEPT ![f] = IF @ = "deleted" THEN "none" ELSE @]
        /\ links' = [links EXCEPT ![f] = IF row[f] = "deleted" THEN {} ELSE @]
        /\ erased' = [erased EXCEPT ![c] = NoFile]
        /\ UNCHANGED <<blob, old, uploads, sending, raced, claimed>>

MetadataFails(c) ==
    /\ erased[c] # NoFile
    /\ erased' = [erased EXCEPT ![c] = NoFile]
    /\ UNCHANGED <<blob, row, old, uploads, messages, claimed>>

(* The replica restarts.                                                   *)
CleanerDies(c) ==
    /\ claimed[c] # {} \/ erased[c] # NoFile
    /\ claimed' = [claimed EXCEPT ![c] = {}]
    /\ erased' = [erased EXCEPT ![c] = NoFile]
    /\ UNCHANGED <<blob, row, old, uploads, messages>>

UploadStep(f) ==
    Scan(f) \/ UploadFile(f) \/ InsertFile(f) \/ UndoPut(f) \/ UploadDies(f)
MessageStep(m) == SaveMessage(m) \/ SaveFails(m) \/ PruneExpired(m)
CleanerStep(c) ==
    \/ ClaimOrphanFiles(c) \/ DeleteFileMetadata(c) \/ MetadataFails(c)
    \/ CleanerDies(c)
    \/ \E f \in File : DeleteBlob(c, f) \/ DeleteBlobFails(c, f)

FilesNext ==
    \/ \E f \in File : UploadStep(f) \/ Age(f)
    \/ \E m \in Message : MessageStep(m) \/ \E f \in File : CheckFile(m, f)
    \/ \E c \in Cleaner : CleanerStep(c)

(* The cleanup runs every hour, and the store and the database, tried      *)
(* again and again, do not fail every time.                                *)
FilesFairness ==
    \A c \in Cleaner :
        /\ SF_fileVars(ClaimOrphanFiles(c))
        /\ SF_fileVars(DeleteFileMetadata(c))
        /\ \A f \in File : SF_fileVars(DeleteBlob(c, f))

FilesSpec == FilesInit /\ [][FilesNext]_fileVars /\ FilesFairness
-----------------------------------------------------------------------------
(* download_file can answer a user who may see the file.                   *)
DownloadFile(f) == row[f] = "live" /\ f \in blob

(* A file attached to a message can be downloaded, and the blob of a live  *)
(* file whose upload was answered is there.  The one exception are files   *)
(* that the cleanup claimed between a message's check and its save.        *)
AttachedFilesKept ==
    \A f \in File \ raced :
        /\ links[f] # {} => DownloadFile(f)
        /\ upload[f] = "answered" /\ row[f] = "live" => f \in blob

(* The cleanup never strands a blob: one without a row belongs to an       *)
(* upload in progress, or to one that died, did not learn of its put or    *)
(* could not undo it.                                                      *)
BlobsHaveRows ==
    \A f \in blob :
        row[f] = "none" => upload[f] \in {"insert", "undo"} \/ f \in leaked

(* A file claimed as an orphan goes away, row and blob, through failing    *)
(* stores and restarts of replicas, unless a message gets hold of it.      *)
OrphansRemoved ==
    \A f \in File :
        row[f] = "deleted" ~> (row[f] = "none" /\ f \notin blob) \/ links[f] # {}
=============================================================================
