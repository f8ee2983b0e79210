-------------------------- MODULE DocumentStorage --------------------------
(***************************************************************************)
(* Documents: a row in the database and, for most of them, an object in    *)
(* the object store (DocumentService).                                     *)
(*                                                                         *)
(* The two stores share no transaction.  An upload puts the object first   *)
(* and inserts the row after it.  A replacement stages the new file under  *)
(* a key of its own, commits the row, promotes the file to the key the row *)
(* now names, and removes the staged object and the old one.  A deletion   *)
(* commits and then removes the object.  Storage calls fail, commits fail  *)
(* or succeed without the caller learning of it, and the process can stop  *)
(* between any two steps.                                                  *)
(***************************************************************************)
EXTENDS FiniteSets

CONSTANTS
    Clients,    \* requests that can be open at the same time
    Docs,       \* document ids (a bound on the documents ever created)
    NoDoc,      \* the document of a session that has none
    Names,      \* file names a caller can send
    BaseName,   \* what Path(file_name).name makes of each
    Uploads,    \* uploaded files (a bound on the uploads ever made)
    NoFile,     \* no uploaded file, or no object under a key
    Faults      \* which of FaultNames can happen

FaultNames == {"storage", "database", "lost", "crash"}

\* A token of an upload is no file name: staged objects have a prefix of their own.
ASSUME NameAssumption ==
    /\ Names # {} /\ BaseName \in [Names -> Names]
    /\ Names \cap Uploads = {}
ASSUME FaultAssumption == Faults \subseteq FaultNames
ASSUME AbsentAssumption == NoDoc \notin Docs /\ NoFile \notin Uploads

VARIABLES
    document,   \* the documents table
    storage,    \* the bucket: what is under each key
    tx,         \* the request of each client
    used,       \* the uploads taken so far
    mishap      \* history: what befell each document, see Mishaps

vars == <<document, storage, tx, used, mishap>>

-----------------------------------------------------------------------------

\* file is history: the upload of the request that last committed the row.
DocumentRow ==
    [status: {"NONE", "LIVE", "DELETED"}, file_name: Names, file: Uploads \cup {NoFile}]

\* _build_storage_key and _build_staging_key: the id of the document, and the base of
\* the file name or a token that no other upload has.
Key == Docs \X (Names \cup Uploads)
StorageKey(d, name) == <<d, BaseName[name]>>
StagingKey(d, u) == <<d, u>>

\* overlap: two requests to change the document were open at once.  lost: a commit took
\* effect and the session saw an error.  crash: the process stopped during a request.
\* logged: the service logged what it could not clean up.  stranded: an upload stored its
\* object and raised, and nothing removes or logs that object.
Mishaps == {"overlap", "lost", "crash", "logged", "stranded"}

\* seen: the row as the request loaded it.
Session ==
    [step: {"idle", "uploaded", "staged", "committed", "promoted", "cleaned",
            "deleting", "deleted"},
     doc: Docs \cup {NoDoc}, name: Names, upload: Uploads \cup {NoFile}, seen: DocumentRow]

NewRow(name, u) == [status |-> "LIVE", file_name |-> name, file |-> u]
UnusedRow == [status |-> "NONE", file_name |-> CHOOSE n \in Names : TRUE, file |-> NoFile]

Request(step, d, name, u, seen) ==
    [step |-> step, doc |-> d, name |-> name, upload |-> u, seen |-> seen]
Idle == Request("idle", NoDoc, UnusedRow.file_name, NoFile, UnusedRow)

Live(d) == document[d].status = "LIVE"
OpenOn(d) == {c \in Clients : tx[c].doc = d}
Note(d, what) == [mishap EXCEPT ![d] = @ \cup what]

Put(key, u) == [storage EXCEPT ![key] = u]
Remove(key) == [storage EXCEPT ![key] = NoFile]

\* What a removal can leave: a call that raises may have had its effect or not.
Tried(key) == {Remove(key)} \cup (IF "storage" \in Faults THEN {storage} ELSE {})

\* _delete_from_storage with its handler: the object goes, or the failure is logged.
Cleanup(d, key) ==
    \/ storage' = Remove(key) /\ mishap' = mishap
    \/ "storage" \in Faults /\ storage' \in Tried(key) /\ mishap' = Note(d, {"logged"})

\* _put_object raises although the object was stored (a lost answer): the request ends
\* with DocumentUploadError before it has written anything else.
Strand(c, d, key, u) ==
    /\ tx[c].step = "idle"
    /\ "storage" \in Faults
    /\ u \notin used
    /\ storage' = Put(key, u)
    /\ used' = used \cup {u}
    /\ mishap' = Note(d, {"stranded"})
    /\ UNCHANGED <<document, tx>>

Goto(c, step) == tx' = [tx EXCEPT ![c].step = step]
End(c) == tx' = [tx EXCEPT ![c] = Idle]

\* A request to change document d begins, perhaps while another is open.
Begins(c, session) ==
    /\ tx[c].step = "idle"
    /\ tx' = [tx EXCEPT ![c] = session]
    /\ mishap' = IF OpenOn(session.doc) = {} THEN mishap ELSE Note(session.doc, {"overlap"})

-----------------------------------------------------------------------------
(* create_document *)

\* POST /documents/ creates the row alone; no object goes with it.
CreateWithoutFile(d, name) ==
    /\ document[d] = UnusedRow
    /\ OpenOn(d) = {}
    /\ document' = [document EXCEPT ![d] = NewRow(name, NoFile)]
    /\ UNCHANGED <<storage, tx, used, mishap>>

\* Step 1: the upload, under an id nobody else has.  An upload that fails without storing
\* the object changes nothing; UploadStranded is the other failure.
UploadNew(c, d, name, u) ==
    /\ document[d] = UnusedRow
    /\ OpenOn(d) = {}
    /\ u \notin used
    /\ Begins(c, Request("uploaded", d, name, u, UnusedRow))
    /\ storage' = Put(StorageKey(d, name), u)
    /\ used' = used \cup {u}
    /\ UNCHANGED document

UploadStranded(c, d, name, u) ==
    /\ document[d] = UnusedRow
    /\ OpenOn(d) = {}
    /\ Strand(c, d, StorageKey(d, name), u)

\* Step 2: the row, the audit row and the commit.
CommitNew(c) ==
    LET s == tx[c] IN
    /\ s.step = "uploaded"
    /\ document' = [document EXCEPT ![s.doc] = NewRow(s.name, s.upload)]
    /\ End(c)
    /\ UNCHANGED <<storage, used, mishap>>

\* Bug: the object of a row that was not written stays.
NewFailsKeeping(c) ==
    /\ tx[c].step = "uploaded"
    /\ "database" \in Faults
    /\ End(c)
    /\ UNCHANGED <<document, storage, used, mishap>>

\* Any exception of step 2: the object is cleaned up.
NewFails(c) ==
    LET s == tx[c] IN
    /\ s.step = "uploaded"
    /\ "database" \in Faults
    /\ Cleanup(s.doc, StorageKey(s.doc, s.name))
    /\ End(c)
    /\ UNCHANGED <<document, used>>

\* The same exception when the commit did take effect: the row stays, and its object is
\* cleaned up as far as the storage lets it.
NewLost(c) ==
    LET s == tx[c] IN
    /\ s.step = "uploaded"
    /\ "lost" \in Faults
    /\ document' = [document EXCEPT ![s.doc] = NewRow(s.name, s.upload)]
    /\ storage' \in Tried(StorageKey(s.doc, s.name))
    /\ mishap' = Note(s.doc, {"lost"})
    /\ End(c)
    /\ UNCHANGED used

-----------------------------------------------------------------------------
(* replace_document_file *)

\* Bug: the new file goes straight to its own key.
StageInPlace(c, d, name, u) ==
    /\ Live(d)
    /\ u \notin used
    /\ Begins(c, Request("staged", d, name, u, document[d]))
    /\ storage' = Put(StorageKey(d, name), u)
    /\ used' = used \cup {u}
    /\ UNCHANGED document

\* The row is loaded, the file validated and staged.  A failure before the object is
\* stored changes nothing; StageStranded is the failure after it.
Stage(c, d, name, u) ==
    /\ Live(d)
    /\ u \notin used
    /\ Begins(c, Request("staged", d, name, u, document[d]))
    /\ storage' = Put(StagingKey(d, u), u)
    /\ used' = used \cup {u}
    /\ UNCHANGED document

StageStranded(c, d, u) == Live(d) /\ Strand(c, d, StagingKey(d, u), u)

\* repo.update writes the columns that differ from what was loaded; if the row is gone
\* it returns None, and the request goes on.
Replaced(s) ==
    LET row == document[s.doc] IN
    IF row.status # "LIVE" THEN document
    ELSE [document EXCEPT ![s.doc] =
            NewRow(IF s.name # s.seen.file_name THEN s.name ELSE row.file_name, s.upload)]

CommitReplacement(c) ==
    /\ tx[c].step = "staged"
    /\ document' = Replaced(tx[c])
    /\ Goto(c, "committed")
    /\ UNCHANGED <<storage, used, mishap>>

\* An exception of update or commit: the staged object is cleaned up.
ReplacementFails(c) ==
    LET s == tx[c] IN
    /\ s.step = "staged"
    /\ "database" \in Faults
    /\ Cleanup(s.doc, StagingKey(s.doc, s.upload))
    /\ End(c)
    /\ UNCHANGED <<document, used>>

\* The same exception when the commit did take effect: nothing is promoted.
ReplacementLost(c) ==
    LET s == tx[c] IN
    /\ s.step = "staged"
    /\ "lost" \in Faults
    /\ document' = Replaced(s)
    /\ storage' \in Tried(StagingKey(s.doc, s.upload))
    /\ mishap' = Note(s.doc, {"lost"})
    /\ End(c)
    /\ UNCHANGED used

\* _promote_staged_upload.  The staged object is only removed later.
Promote(c) ==
    LET s == tx[c] IN
    /\ s.step = "committed"
    /\ storage' = Put(StorageKey(s.doc, s.name), s.upload)
    /\ Goto(c, "promoted")
    /\ UNCHANGED <<document, used, mishap>>

\* Bug: a failed promotion takes the staged object with it.
PromotionFailsCleaning(c) ==
    LET s == tx[c] IN
    /\ s.step = "committed"
    /\ "storage" \in Faults
    /\ storage' = Remove(StagingKey(s.doc, s.upload))
    /\ mishap' = Note(s.doc, {"logged"})
    /\ End(c)
    /\ UNCHANGED <<document, used>>

\* DocumentStorageInconsistentError, after a critical log line.  The call that raised may
\* have stored the object all the same.
PromotionFails(c) ==
    LET s == tx[c] IN
    /\ s.step = "committed"
    /\ "storage" \in Faults
    /\ storage' \in {storage, Put(StorageKey(s.doc, s.name), s.upload)}
    /\ mishap' = Note(s.doc, {"logged"})
    /\ End(c)
    /\ UNCHANGED <<document, used>>

\* _finalize_replacement_cleanup: the staged object,
RemoveStaged(c) ==
    LET s == tx[c] IN
    /\ s.step = "promoted"
    /\ Cleanup(s.doc, StagingKey(s.doc, s.upload))
    /\ Goto(c, "cleaned")
    /\ UNCHANGED <<document, used>>

\* Bug: the old object goes even if it is the new one.
RemoveOldAlways(c) ==
    LET s == tx[c] IN
    /\ s.step = "cleaned"
    /\ Cleanup(s.doc, StorageKey(s.doc, s.seen.file_name))
    /\ End(c)
    /\ UNCHANGED <<document, used>>

\* and the old object, unless it is the new one.
RemoveOld(c) ==
    LET s == tx[c]
        old == StorageKey(s.doc, s.seen.file_name)
    IN  /\ s.step = "cleaned"
        /\ IF old # StorageKey(s.doc, s.name)
           THEN Cleanup(s.doc, old)
           ELSE UNCHANGED <<storage, mishap>>
        /\ End(c)
        /\ UNCHANGED <<document, used>>

-----------------------------------------------------------------------------
(* delete_document *)

LoadForDelete(c, d) ==
    /\ Live(d)
    /\ Begins(c, Request("deleting", d, document[d].file_name, NoFile, document[d]))
    /\ UNCHANGED <<document, storage, used>>

Dropped(d) == [document EXCEPT ![d].status = "DELETED"]

\* The row goes and is committed; restricted are the documents a foreign key keeps.
\* A row that is gone already ends the request.
CommitDeletion(c, restricted) ==
    LET d == tx[c].doc IN
    /\ tx[c].step = "deleting"
    /\ d \notin restricted
    /\ \/ Live(d) /\ document' = Dropped(d) /\ Goto(c, "deleted")
       \/ ~Live(d) /\ document' = document /\ End(c)
    /\ UNCHANGED <<storage, used, mishap>>

\* The foreign key or another exception: rolled back and raised.
DeletionFails(c) ==
    /\ tx[c].step = "deleting"
    /\ End(c)
    /\ UNCHANGED <<document, storage, used, mishap>>

DeletionLost(c, restricted) ==
    LET d == tx[c].doc IN
    /\ tx[c].step = "deleting"
    /\ "lost" \in Faults
    /\ Live(d) /\ d \notin restricted
    /\ document' = Dropped(d)
    /\ mishap' = Note(d, {"lost"})
    /\ End(c)
    /\ UNCHANGED <<storage, used>>

\* Only now the object.
RemoveDeleted(c) ==
    LET s == tx[c] IN
    /\ s.step = "deleted"
    /\ Cleanup(s.doc, StorageKey(s.doc, s.name))
    /\ End(c)
    /\ UNCHANGED <<document, used>>

-----------------------------------------------------------------------------

\* The process stops; what is not committed is rolled back, objects stay.
Crash(c) ==
    /\ tx[c].step # "idle"
    /\ "crash" \in Faults
    /\ mishap' = Note(tx[c].doc, {"crash"})
    /\ End(c)
    /\ UNCHANGED <<document, storage, used>>

Init ==
    /\ document = [d \in Docs |-> UnusedRow]
    /\ storage = [key \in Key |-> NoFile]
    /\ tx = [c \in Clients |-> Idle]
    /\ used = {}
    /\ mishap = [d \in Docs |-> {}]

CreateStep(c) ==
    \/ \E d \in Docs, name \in Names, u \in Uploads :
           UploadNew(c, d, name, u) \/ UploadStranded(c, d, name, u)
    \/ CommitNew(c) \/ NewFails(c) \/ NewLost(c)

ReplaceStep(c) ==
    \/ \E d \in Docs, name \in Names, u \in Uploads : Stage(c, d, name, u)
    \/ \E d \in Docs, u \in Uploads : StageStranded(c, d, u)
    \/ CommitReplacement(c) \/ ReplacementFails(c) \/ ReplacementLost(c)
    \/ Promote(c) \/ PromotionFails(c) \/ RemoveStaged(c) \/ RemoveOld(c)

DeleteStep(c, restricted) ==
    \/ \E d \in Docs : LoadForDelete(c, d)
    \/ CommitDeletion(c, restricted) \/ DeletionFails(c) \/ DeletionLost(c, restricted)
    \/ RemoveDeleted(c)

Next ==
    \/ \E d \in Docs, name \in Names : CreateWithoutFile(d, name)
    \/ \E c \in Clients : CreateStep(c) \/ ReplaceStep(c) \/ DeleteStep(c, {}) \/ Crash(c)

Spec == Init /\ [][Next]_vars

-----------------------------------------------------------------------------
(* Properties *)

\* Rows, objects and requests hold values of their types.
TypeOK ==
    /\ document \in [Docs -> DocumentRow]
    /\ storage \in [Key -> Uploads \cup {NoFile}]
    /\ tx \in [Clients -> Session]
    /\ used \subseteq Uploads
    /\ mishap \in [Docs -> SUBSET Mishaps]

RowKey(d) == StorageKey(d, document[d].file_name)
Committed(c) == tx[c].step \in {"committed", "promoted", "cleaned", "deleted"}

\* The file a row names is only overwritten or removed by a request on that document
\* that has committed its own change (replace_document_file: "The current file is never
\* touched until the DB update commits"), whatever fails and whatever overlaps.
LiveFileProtected ==
    [][\A d \in Docs :
          Live(d) /\ storage'[RowKey(d)] # storage[RowKey(d)]
              => \E c \in OpenOn(d) : Committed(c)]_vars

\* The file of the last committed request is never lost: if no requests overlapped on
\* the document and no commit was lost, it is under some key of the document, after any
\* failed storage call and any crash.  It may still need the repair the log asks for.
FileRecoverable ==
    \A d \in Docs :
        Live(d) /\ document[d].file # NoFile /\ mishap[d] \cap {"overlap", "lost"} = {}
            => \E x \in Names \cup Uploads : storage[<<d, x>>] = document[d].file

ObjectsOf(d) == {x \in Names \cup Uploads : storage[<<d, x>>] # NoFile}

\* When no request is open on a document, its objects are exactly what its row says:
\* the committed file under the key of its name, or nothing.  If a storage call failed
\* and left something else behind, the service has logged it, but for an upload that
\* raised after storing its object (mishap "stranded"), which nothing records.
LeftoversLogged ==
    \A d \in Docs :
        OpenOn(d) = {} /\ mishap[d] = {} =>
            IF Live(d) /\ document[d].file # NoFile
            THEN ObjectsOf(d) = {BaseName[document[d].file_name]}
                 /\ storage[RowKey(d)] = document[d].file
            ELSE ObjectsOf(d) = {}

-----------------------------------------------------------------------------
(* What the documentation says and overlapping requests do not keep *)

\* _finalize_replacement_cleanup says of the moment after a promotion that "the document
\* is already correctly updated": when the requests on a document are over and no call
\* failed, the file it names can be downloaded.  Two replacements with different names
\* that overlap do not keep it: the one that commits first and cleans up last removes, as
\* its old object, the key that the other has made the current one.
UpdatedCorrectly ==
    \A d \in Docs :
        OpenOn(d) = {} /\ Live(d) /\ document[d].file # NoFile => storage[RowKey(d)] # NoFile
=============================================================================
