------------------------- MODULE DocumentStorage_proofs -------------------------
(***************************************************************************)
(* What DocumentStorage promises for any number of clients, documents and  *)
(* uploads and any set of faults.                                          *)
(*                                                                         *)
(* The invariant follows the objects of a document through a request.      *)
(* Kept: while requests did not overlap and no commit was lost, each step  *)
(* of a request knows of one object that it may not lose.  Layout: while   *)
(* nothing at all went wrong, each step determines every object.           *)
(***************************************************************************)
EXTENDS DocumentStorage, TLAPS

Parts == Names \cup Uploads

\* An upload works under an id that has no row yet and that nobody else uses; the other
\* requests are about a row that is or was there.
SessionSound(c) ==
    /\ tx[c].step = "idle" => tx[c] = Idle
    /\ tx[c].step # "idle" => tx[c].doc \in Docs
    /\ tx[c].step \in {"uploaded", "staged", "committed", "promoted", "cleaned"} => tx[c].upload \in used
    /\ tx[c].step = "uploaded" =>
        document[tx[c].doc] = UnusedRow /\ \A e \in Clients \ {c} : tx[e].doc # tx[c].doc
    /\ tx[c].step \notin {"idle", "uploaded"} => document[tx[c].doc].status # "NONE"

\* The objects of a row are objects that were uploaded.
FilesUsed == \A d \in Docs : document[d].file \in used \cup {NoFile}

\* Under a staging key is the file it was made for.
Staged(S, d) == \A u \in Uploads : S[<<d, u>>] \in {NoFile, u}

Single(d) == \A c, e \in Clients : tx[c].doc = d /\ tx[e].doc = d => c = e

\* The object that a request may not lose.  S is the bucket and row the document's row, in
\* this state or in the next.
Keeps(S, row, s) ==
    /\ s.step \in {"staged", "committed"} => S[<<s.doc, s.upload>>] = s.upload
    /\ s.step \in {"uploaded", "promoted", "cleaned"} => S[<<s.doc, BaseName[s.name]>>] = s.upload
    /\ s.step = "staged" => row.file # s.upload
    /\ s.step \in {"committed", "promoted", "cleaned"} /\ row.status = "LIVE" => row.file = s.upload
    /\ s.step = "deleted" => row.status = "DELETED"

Kept(d) ==
    mishap[d] \cap {"overlap", "lost"} = {} =>
        /\ Single(d)
        /\ document[d].status = "LIVE" /\ document[d].file # NoFile =>
            \E x \in Parts : storage[<<d, x>>] = document[d].file
        /\ \A c \in Clients : tx[c].doc = d => Keeps(storage, document[d], tx[c])

\* What is under part x of the document's keys when its row is all there is.
RowAt(row, x) == IF row.status = "LIVE" /\ x = BaseName[row.file_name] THEN row.file ELSE NoFile

\* The same in the middle of a request.
Expected(s, x) ==
    IF s.step \in {"staged", "committed", "promoted"} /\ x = s.upload THEN s.upload
    ELSE IF s.step \in {"uploaded", "promoted", "cleaned"} /\ x = BaseName[s.name] THEN s.upload
    ELSE IF s.step = "uploaded" THEN NoFile
    ELSE RowAt(s.seen, x)

\* The row is what the request found, or what it made of it.
RowFollows(row, s) ==
    /\ s.step \in {"staged", "deleting"} => row = s.seen
    /\ s.step \in {"committed", "promoted", "cleaned"} => row = NewRow(s.name, s.upload)
    /\ s.step = "deleted" => row.status = "DELETED"
    /\ s.step # "uploaded" => s.seen.status = "LIVE"
    /\ s.step \in {"deleting", "deleted"} => s.name = s.seen.file_name

Layout(d) ==
    mishap[d] = {} =>
        /\ OpenOn(d) = {} => \A x \in Parts : storage[<<d, x>>] = RowAt(document[d], x)
        /\ \A c \in Clients : tx[c].doc = d =>
            RowFollows(document[d], tx[c]) /\ \A x \in Parts : storage[<<d, x>>] = Expected(tx[c], x)

DocumentsSound ==
    /\ TypeOK
    /\ \A c \in Clients : SessionSound(c)
    /\ FilesUsed
    /\ \A d \in Docs : Staged(storage, d) /\ Kept(d) /\ Layout(d)

-----------------------------------------------------------------------------
(* Keys and rows *)

LEMMA RowTyped ==
    /\ UnusedRow \in DocumentRow /\ UnusedRow.status = "NONE" /\ UnusedRow.file = NoFile
    /\ Idle \in Session /\ Idle.step = "idle" /\ Idle.doc = NoDoc
<1>1. (CHOOSE n \in Names : TRUE) \in Names
    BY NameAssumption
<1>2. UnusedRow \in DocumentRow /\ UnusedRow.status = "NONE" /\ UnusedRow.file = NoFile
    BY <1>1 DEF UnusedRow, DocumentRow
<1>. QED
    BY <1>2 DEF Idle, Request, Session, DocumentRow

\* Keys of two documents, and the staging and storage keys of one, are different keys.
LEMMA KeyTyped ==
    /\ \A d \in Docs, x \in Parts : <<d, x>> \in Key
    /\ \A d \in Docs, n \in Names : StorageKey(d, n) = <<d, BaseName[n]>> /\ BaseName[n] \in Names
    /\ \A d \in Docs, u \in Uploads : StagingKey(d, u) = <<d, u>> /\ u \notin Names
BY NameAssumption DEF Key, Parts, StorageKey, StagingKey

\* Writing under one key.
Writes(d, x, v) == storage' = [storage EXCEPT ![<<d, x>>] = v]

LEMMA WriteAt ==
    ASSUME TypeOK, NEW d \in Docs, NEW x \in Parts, NEW v \in Uploads \cup {NoFile}, Writes(d, x, v)
    PROVE  /\ storage' \in [Key -> Uploads \cup {NoFile}]
           /\ storage'[<<d, x>>] = v
           /\ \A e \in Docs, y \in Parts : e # d \/ y # x => storage'[<<e, y>>] = storage[<<e, y>>]
<1>1. <<d, x>> \in Key /\ \A e \in Docs, y \in Parts : <<e, y>> \in Key
    BY KeyTyped
<1>2. \A e \in Docs, y \in Parts : e # d \/ y # x => <<e, y>> # <<d, x>>
    OBVIOUS
<1>. QED
    BY <1>1, <1>2 DEF TypeOK, Writes

-----------------------------------------------------------------------------
(* One step of one request on one document *)

\* c goes on as s on document d, or begins or ends there.  What it has to show of d is
\* what its own step does; other documents and other requests are left alone.
Becomes(c, s) == tx' = [tx EXCEPT ![c] = s]

LEMMA StepKeeps ==
    ASSUME DocumentsSound, TypeOK', NEW c \in Clients, NEW d \in Docs, NEW s \in Session,
           Becomes(c, s), tx[c].doc = d \/ tx[c] = Idle,
           s = Idle \/ (s.step # "idle" /\ s.doc = d),
           \A e \in Docs \ {d} :
             /\ document'[e] = document[e] /\ mishap'[e] = mishap[e]
             /\ \A x \in Parts : storage'[<<e, x>>] = storage[<<e, x>>],
           mishap[d] \subseteq mishap'[d], used \subseteq used',
           tx[c].doc # d =>
             /\ OpenOn(d) = {} \/ "overlap" \in mishap'[d]
             /\ OpenOn(d) = {} \/ document[d].status # "NONE",
           document[d].status # "NONE" => document'[d].status # "NONE",
           document'[d].file \in used' \cup {NoFile}, Staged(storage', d),
           s.step = "uploaded" => document'[d] = UnusedRow /\ OpenOn(d) \subseteq {c},
           s.step \notin {"idle", "uploaded"} => document'[d].status # "NONE",
           s.step \in {"uploaded", "staged", "committed", "promoted", "cleaned"} => s.upload \in used',
           mishap'[d] \cap {"overlap", "lost"} = {} =>
             /\ document'[d].status = "LIVE" /\ document'[d].file # NoFile =>
                  \E x \in Parts : storage'[<<d, x>>] = document'[d].file
             /\ s # Idle => Keeps(storage', document'[d], s),
           mishap'[d] = {} /\ s = Idle => \A x \in Parts : storage'[<<d, x>>] = RowAt(document'[d], x),
           mishap'[d] = {} /\ s # Idle =>
             RowFollows(document'[d], s) /\ \A x \in Parts : storage'[<<d, x>>] = Expected(s, x)
    PROVE  DocumentsSound'
<1>1. /\ TypeOK /\ tx'[c] = s /\ \A k \in Clients \ {c} : tx'[k] = tx[k]
      /\ s = Idle <=> s.step = "idle"
      /\ NoDoc \notin Docs /\ Idle.doc = NoDoc /\ Idle.step = "idle"
      /\ s.doc \in {d, NoDoc} /\ tx[c].doc \in {d, NoDoc}
    BY RowTyped, AbsentAssumption DEF DocumentsSound, TypeOK, Becomes
<1>2. ASSUME NEW k \in Clients PROVE SessionSound(k)'
    <2>1. CASE k = c
        <3>1. s.step = "uploaded" => \A e \in Clients \ {c} : tx'[e].doc # d
            BY <1>1 DEF OpenOn
        <3>. QED
            BY <1>1, <2>1, <3>1 DEF SessionSound
    <2>2. CASE k # c
        <3>1. SessionSound(k) /\ tx'[k] = tx[k]
            BY <1>1, <2>2 DEF DocumentsSound
        <3>2. CASE tx[k].doc = d /\ tx[k].step = "uploaded"
            <4>1. document[d] = UnusedRow /\ tx[c].doc # d
                BY <2>2, <3>1, <3>2 DEF SessionSound
            <4>2. k \in OpenOn(d) /\ document[d].status = "NONE"
                BY <3>2, <4>1, RowTyped DEF OpenOn
            <4>. QED
                BY <4>1, <4>2
        <3>3. CASE ~(tx[k].doc = d /\ tx[k].step = "uploaded")
            <4>1. tx[k].step = "uploaded" => tx'[c].doc # tx[k].doc
                BY <1>1, <3>1, <3>3 DEF SessionSound
            <4>2. tx[k].step \notin {"idle", "uploaded"} => document'[tx[k].doc].status # "NONE"
                BY <3>1 DEF SessionSound
            <4>3. tx[k].step = "uploaded" => document'[tx[k].doc] = UnusedRow
                BY <3>1, <3>3 DEF SessionSound
            <4>. QED
                BY <1>1, <3>1, <4>1, <4>2, <4>3 DEF SessionSound
        <3>. QED
            BY <3>2, <3>3
    <2>. QED
        BY <2>1, <2>2
<1>3. FilesUsed'
    BY DEF FilesUsed, DocumentsSound
<1>4. ASSUME NEW e \in Docs, e # d PROVE Kept(e)' /\ Layout(e)' /\ Staged(storage', e)
    <2>1. /\ Kept(e) /\ Layout(e) /\ document'[e] = document[e] /\ mishap'[e] = mishap[e]
          /\ \A x \in Parts : storage'[<<e, x>>] = storage[<<e, x>>]
        BY <1>4 DEF DocumentsSound
    <2>2. \A k \in Clients : (tx'[k].doc = e <=> tx[k].doc = e) /\ (tx'[k].doc = e => tx'[k] = tx[k])
        BY <1>1, <1>4
    <2>3. Kept(e)'
        <3>. SUFFICES ASSUME mishap[e] \cap {"overlap", "lost"} = {}
                      PROVE  /\ Single(e)'
                             /\ document[e].status = "LIVE" /\ document[e].file # NoFile =>
                                    \E x \in Parts : storage'[<<e, x>>] = document[e].file
                             /\ \A k \in Clients : tx'[k].doc = e => Keeps(storage', document[e], tx'[k])
            BY <2>1 DEF Kept
        <3>1. Single(e)'
            BY <2>1, <2>2 DEF Kept, Single
        <3>2. ASSUME NEW k \in Clients, tx'[k].doc = e PROVE Keeps(storage', document[e], tx'[k])
            <4>1. tx'[k] = tx[k] /\ tx[k].doc = e /\ Keeps(storage, document[e], tx[k])
                BY <2>1, <2>2, <3>2 DEF Kept
            <4>2. tx[k].step # "idle" => SessionSound(k) /\ tx[k] \in Session
                BY <1>1 DEF DocumentsSound, TypeOK
            <4>3. /\ tx[k].step \in {"staged", "committed"} => tx[k].upload \in Parts
                  /\ tx[k].step \in {"uploaded", "promoted", "cleaned"} => BaseName[tx[k].name] \in Parts
                BY <1>1, <4>2, NameAssumption DEF SessionSound, Session, TypeOK, Parts
            <4>. QED
                BY <2>1, <4>1, <4>3 DEF Keeps
        <3>. QED
            BY <2>1, <3>1, <3>2 DEF Kept
    <2>4. Layout(e)'
        BY <2>1, <2>2 DEF Layout, OpenOn
    <2>5. Staged(storage', e)
        BY <2>1 DEF DocumentsSound, Staged, Parts
    <2>. QED
        BY <2>3, <2>4, <2>5
<1>5. ASSUME mishap'[d] \cap {"overlap", "lost"} = {} PROVE Single(d) /\ \A k \in Clients \ {c} : tx[k].doc # d
    <2>1. mishap[d] \cap {"overlap", "lost"} = {}
        BY <1>5
    <2>2. Single(d)
        BY <2>1 DEF DocumentsSound, Kept
    <2>3. CASE tx[c].doc = d
        BY <2>2, <2>3 DEF Single
    <2>4. CASE tx[c].doc # d
        BY <1>5, <2>2, <2>4 DEF OpenOn
    <2>. QED
        BY <2>2, <2>3, <2>4
<1>6. Kept(d)'
    BY <1>1, <1>5 DEF Kept, Single
<1>7. Layout(d)'
    <2>. SUFFICES ASSUME mishap'[d] = {}
                  PROVE  /\ OpenOn(d)' = {} => \A x \in Parts : storage'[<<d, x>>] = RowAt(document'[d], x)
                         /\ \A k \in Clients : tx'[k].doc = d =>
                              RowFollows(document'[d], tx'[k]) /\ \A x \in Parts : storage'[<<d, x>>] = Expected(tx'[k], x)
        BY DEF Layout
    <2>1. \A k \in Clients \ {c} : tx'[k].doc # d
        BY <1>1, <1>5
    <2>2. s # Idle => s.doc = d
        OBVIOUS
    <2>3. OpenOn(d)' = {} => s = Idle
        BY <1>1, <2>2 DEF OpenOn
    <2>. QED
        BY <1>1, <2>1, <2>3
<1>. QED
    BY <1>2, <1>3, <1>4, <1>6, <1>7 DEF DocumentsSound

\* What is known of an open request and its document.
LEMMA OpenFacts ==
    ASSUME DocumentsSound, NEW c \in Clients, tx[c].step # "idle", NEW d, d = tx[c].doc
    PROVE  /\ TypeOK /\ tx[c] \in Session /\ d \in Docs /\ document[d] \in DocumentRow
           /\ SessionSound(c) /\ Staged(storage, d) /\ document[d].file \in used \cup {NoFile} /\ BaseName[tx[c].name] \in Names
           /\ tx[c].seen \in DocumentRow /\ BaseName[tx[c].seen.file_name] \in Names
           /\ mishap[d] \cap {"overlap", "lost"} = {} =>
                /\ Keeps(storage, document[d], tx[c])
                /\ document[d].status = "LIVE" /\ document[d].file # NoFile =>
                     \E x \in Parts : storage[<<d, x>>] = document[d].file
           /\ mishap[d] = {} =>
                RowFollows(document[d], tx[c]) /\ \A x \in Parts : storage[<<d, x>>] = Expected(tx[c], x)
<1>1. TypeOK /\ SessionSound(c) /\ d \in Docs /\ Staged(storage, d) /\ Kept(d) /\ Layout(d) /\ FilesUsed
    BY DEF DocumentsSound, SessionSound
<1>2. tx[c] \in Session /\ document[d] \in DocumentRow
    BY <1>1 DEF TypeOK
<1>3. tx[c].seen \in DocumentRow /\ tx[c].name \in Names /\ tx[c].seen.file_name \in Names
    BY <1>2 DEF Session, DocumentRow
<1>4. BaseName[tx[c].name] \in Names /\ BaseName[tx[c].seen.file_name] \in Names
    BY <1>3, NameAssumption
<1>. QED
    BY <1>1, <1>2, <1>3, <1>4 DEF Kept, Layout, FilesUsed

\* The request ends.
LEMMA EndKeeps ==
    ASSUME DocumentsSound, NEW c \in Clients, tx[c].step # "idle", End(c), NEW d, d = tx[c].doc,
           document' \in [Docs -> DocumentRow], storage' \in [Key -> Uploads \cup {NoFile}],
           mishap' \in [Docs -> SUBSET Mishaps], used' = used,
           \A e \in Docs \ {d} :
             /\ document'[e] = document[e] /\ mishap'[e] = mishap[e]
             /\ \A x \in Parts : storage'[<<e, x>>] = storage[<<e, x>>],
           mishap[d] \subseteq mishap'[d],
           document[d].status # "NONE" => document'[d].status # "NONE",
           document'[d].file \in used \cup {NoFile}, Staged(storage', d),
           mishap'[d] \cap {"overlap", "lost"} = {} /\ document'[d].status = "LIVE" /\ document'[d].file # NoFile =>
             \E x \in Parts : storage'[<<d, x>>] = document'[d].file,
           mishap'[d] = {} => \A x \in Parts : storage'[<<d, x>>] = RowAt(document'[d], x)
    PROVE  DocumentsSound'
<1>1. TypeOK /\ d \in Docs
    BY OpenFacts
<1>2. Becomes(c, Idle) /\ Idle \in Session /\ Idle.step = "idle"
    BY RowTyped DEF End, Becomes
<1>3. TypeOK'
    BY <1>1, <1>2 DEF TypeOK, Becomes
<1>. QED
    BY <1>1, <1>2, <1>3, StepKeeps

\* What a write leaves of the staged objects of the document.
LEMMA StagedWrite ==
    ASSUME TypeOK, NEW d \in Docs, NEW x \in Parts, NEW v, Staged(storage, d), x \in Uploads => v \in {NoFile, x},
           storage'[<<d, x>>] = v, \A y \in Parts \ {x} : storage'[<<d, y>>] = storage[<<d, y>>]
    PROVE  Staged(storage', d)
BY DEF Staged, Parts

\* What Cleanup leaves: the object is gone, or the log says that it may not be.
Tidied(d, x) ==
    /\ Staged(storage', d)
    /\ storage' \in [Key -> Uploads \cup {NoFile}] /\ mishap' \in [Docs -> SUBSET Mishaps]
    /\ \A e \in Docs \ {d} :
         mishap'[e] = mishap[e] /\ \A y \in Parts : storage'[<<e, y>>] = storage[<<e, y>>]
    /\ \A y \in Parts \ {x} : storage'[<<d, y>>] = storage[<<d, y>>]
    /\ mishap[d] \subseteq mishap'[d]
    /\ mishap'[d] \cap {"overlap", "lost"} = {} => mishap[d] \cap {"overlap", "lost"} = {}
    /\ mishap'[d] = {} => mishap[d] = {} /\ storage'[<<d, x>>] = NoFile

\* What a removal that may have raised leaves.
LEMMA TriedAt ==
    ASSUME TypeOK, NEW d \in Docs, NEW x \in Parts, storage' \in Tried(<<d, x>>)
    PROVE  /\ storage' \in [Key -> Uploads \cup {NoFile}] /\ storage'[<<d, x>>] \in {NoFile, storage[<<d, x>>]}
           /\ \A e \in Docs, y \in Parts : e # d \/ y # x => storage'[<<e, y>>] = storage[<<e, y>>]
<1>1. CASE storage' = Remove(<<d, x>>)
    <2>1. Writes(d, x, NoFile)
        BY <1>1 DEF Remove, Writes
    <2>. QED
        BY <2>1, WriteAt
<1>2. CASE storage' = storage
    BY <1>2 DEF TypeOK
<1>. QED
    BY <1>1, <1>2 DEF Tried

LEMMA TriedStaged ==
    ASSUME TypeOK, NEW d \in Docs, NEW x \in Parts, storage' \in Tried(<<d, x>>), Staged(storage, d)
    PROVE  Staged(storage', d)
<1>1. /\ storage'[<<d, x>>] \in {NoFile, storage[<<d, x>>]}
      /\ \A y \in Parts \ {x} : storage'[<<d, y>>] = storage[<<d, y>>]
    BY TriedAt
<1>2. x \in Uploads => storage'[<<d, x>>] \in {NoFile, x}
    BY <1>1 DEF Staged
<1>. QED
    BY <1>1, <1>2, StagedWrite

LEMMA CleanupEffect ==
    ASSUME TypeOK, NEW d \in Docs, NEW x \in Parts, Cleanup(d, <<d, x>>), Staged(storage, d)
    PROVE  Tidied(d, x)
<1>1. CASE storage' = Remove(<<d, x>>) /\ mishap' = mishap
    <2>1. Writes(d, x, NoFile)
        BY <1>1 DEF Remove, Writes
    <2>2. /\ storage' \in [Key -> Uploads \cup {NoFile}] /\ storage'[<<d, x>>] = NoFile
          /\ \A e \in Docs, y \in Parts : e # d \/ y # x => storage'[<<e, y>>] = storage[<<e, y>>]
        BY <2>1, WriteAt
    <2>3. \A y \in Parts \ {x} : storage'[<<d, y>>] = storage[<<d, y>>]
        BY <2>2
    <2>4. Staged(storage', d)
        BY <2>2, <2>3, StagedWrite
    <2>5. mishap' = mishap /\ mishap' \in [Docs -> SUBSET Mishaps]
        BY <1>1 DEF TypeOK
    <2>. QED
        BY <2>2, <2>3, <2>4, <2>5 DEF Tidied
<1>2. CASE storage' \in Tried(<<d, x>>) /\ mishap' = Note(d, {"logged"})
    <2>1. /\ mishap' \in [Docs -> SUBSET Mishaps] /\ mishap'[d] = mishap[d] \cup {"logged"}
          /\ \A e \in Docs \ {d} : mishap'[e] = mishap[e]
        BY <1>2 DEF Note, TypeOK, Mishaps
    <2>2. /\ storage' \in [Key -> Uploads \cup {NoFile}] /\ Staged(storage', d)
          /\ \A e \in Docs, y \in Parts : e # d \/ y # x => storage'[<<e, y>>] = storage[<<e, y>>]
        BY <1>2, TriedAt, TriedStaged
    <2>. QED
        BY <2>1, <2>2 DEF Tidied
<1>. QED
    BY <1>1, <1>2 DEF Cleanup

LEMMA NoteEffect ==
    ASSUME TypeOK, NEW d \in Docs, NEW what \in {"lost", "crash", "logged", "overlap", "stranded"}, mishap' = Note(d, {what})
    PROVE  /\ mishap' \in [Docs -> SUBSET Mishaps] /\ mishap'[d] = mishap[d] \cup {what}
           /\ \A e \in Docs \ {d} : mishap'[e] = mishap[e]
BY DEF Note, TypeOK, Mishaps

\* A row is written.
LEMMA RowWritten ==
    ASSUME TypeOK, NEW d \in Docs, NEW row \in DocumentRow, document' = [document EXCEPT ![d] = row]
    PROVE  /\ document' \in [Docs -> DocumentRow] /\ document'[d] = row
           /\ \A e \in Docs \ {d} : document'[e] = document[e]
BY DEF TypeOK
-----------------------------------------------------------------------------
(* create_document *)

LEMMA CreateWithoutFileKeeps ==
    ASSUME DocumentsSound, NEW d \in Docs, NEW name \in Names, CreateWithoutFile(d, name)
    PROVE  DocumentsSound'
<1>1. /\ TypeOK /\ document[d] = UnusedRow /\ (\A c \in Clients : tx[c].doc # d)
      /\ document' = [document EXCEPT ![d] = NewRow(name, NoFile)]
      /\ UNCHANGED <<storage, tx, used, mishap>>
    BY DEF DocumentsSound, CreateWithoutFile, OpenOn
<1>2. /\ NewRow(name, NoFile) \in DocumentRow /\ NewRow(name, NoFile).status = "LIVE"
      /\ NewRow(name, NoFile).file = NoFile
    BY DEF NewRow, DocumentRow
<1>3. /\ document' \in [Docs -> DocumentRow] /\ document'[d] = NewRow(name, NoFile)
      /\ \A e \in Docs \ {d} : document'[e] = document[e]
    BY <1>1, <1>2, RowWritten
<1>4. TypeOK' /\ FilesUsed'
    BY <1>1, <1>2, <1>3 DEF TypeOK, FilesUsed, DocumentsSound
<1>5. ASSUME NEW c \in Clients PROVE SessionSound(c)'
    <2>1. SessionSound(c)
        BY DEF DocumentsSound
    <2>. QED
        BY <1>1, <1>3, <2>1 DEF SessionSound
<1>6. ASSUME NEW e \in Docs PROVE Kept(e)' /\ Layout(e)' /\ Staged(storage', e)
    <2>1. Kept(e) /\ Layout(e) /\ Staged(storage', e)
        BY <1>1 DEF DocumentsSound
    <2>2. CASE e # d
        BY <1>1, <1>3, <2>1, <2>2 DEF Kept, Layout, Single, OpenOn, Staged
    <2>3. CASE e = d
        <3>1. Kept(e)'
            BY <1>1, <1>2, <1>3, <2>1, <2>3 DEF Kept, Single
        <3>2. \A x \in Parts : RowAt(NewRow(name, NoFile), x) = NoFile /\ RowAt(UnusedRow, x) = NoFile
            BY <1>2, RowTyped DEF RowAt
        <3>3. OpenOn(d) = {}
            BY <1>1 DEF OpenOn
        <3>4. Layout(e)'
            BY <1>1, <1>3, <2>1, <2>3, <3>2, <3>3 DEF Layout
        <3>. QED
            BY <2>1, <3>1, <3>4
    <2>. QED
        BY <2>2, <2>3
<1>. QED
    BY <1>4, <1>5, <1>6 DEF DocumentsSound

LEMMA UploadNewKeeps ==
    ASSUME DocumentsSound, NEW c \in Clients, NEW d \in Docs, NEW name \in Names, NEW u \in Uploads,
           UploadNew(c, d, name, u)
    PROVE  DocumentsSound'
<1>. DEFINE s == Request("uploaded", d, name, u, UnusedRow)  b == BaseName[name]
<1>1. /\ s \in Session /\ s.step = "uploaded" /\ s.doc = d /\ s.name = name /\ s.upload = u /\ s # Idle
    BY RowTyped DEF Request, Session, Idle
<1>2. /\ TypeOK /\ tx[c] = Idle /\ Kept(d) /\ Layout(d)
      /\ document[d] = UnusedRow /\ OpenOn(d) = {} /\ document' = document
      /\ used' = used \cup {u}
      /\ tx' = [tx EXCEPT ![c] = s] /\ mishap' = mishap
    BY <1>1 DEF UploadNew, Begins, DocumentsSound, SessionSound
<1>3. b \in Parts /\ u \in Uploads \cup {NoFile} /\ Writes(d, b, u)
    BY KeyTyped DEF UploadNew, Put, Parts, Writes
<1>. HIDE DEF s
<1>4. /\ storage' \in [Key -> Uploads \cup {NoFile}] /\ storage'[<<d, b>>] = u
      /\ \A e \in Docs, y \in Parts : e # d \/ y # b => storage'[<<e, y>>] = storage[<<e, y>>]
    <2>1. TypeOK
        BY <1>2
    <2>. QED
        BY <1>3, <2>1, WriteAt
<1>5. TypeOK'
    BY <1>1, <1>2, <1>4 DEF TypeOK
<1>6. UnusedRow.status = "NONE" /\ UnusedRow.file = NoFile
    BY RowTyped
<1>7. Keeps(storage', document'[d], s)
    BY <1>1, <1>4 DEF Keeps, b
<1>8. mishap'[d] = {} => RowFollows(document'[d], s) /\ \A x \in Parts : storage'[<<d, x>>] = Expected(s, x)
    <2>. SUFFICES ASSUME mishap[d] = {} PROVE RowFollows(document'[d], s) /\ \A x \in Parts : storage'[<<d, x>>] = Expected(s, x)
        BY <1>2
    <2>1. \A x \in Parts : storage[<<d, x>>] = NoFile
        BY <1>2, <1>6 DEF Layout, RowAt
    <2>2. \A x \in Parts : Expected(s, x) = IF x = b THEN u ELSE NoFile
        BY <1>1 DEF Expected, b
    <2>. QED
        BY <1>1, <1>3, <1>4, <2>1, <2>2 DEF RowFollows
<1>9. \A e \in Docs \ {d} :
        /\ document'[e] = document[e] /\ mishap'[e] = mishap[e]
        /\ \A x \in Parts : storage'[<<e, x>>] = storage[<<e, x>>]
    BY <1>2, <1>4
<1>13. Staged(storage', d)
    <2>1. Staged(storage, d) /\ TypeOK
        BY DEF DocumentsSound
    <2>2. b \in Parts /\ b \notin Uploads
        BY KeyTyped DEF Parts
    <2>3. storage'[<<d, b>>] = u /\ \A y \in Parts \ {b} : storage'[<<d, y>>] = storage[<<d, y>>]
        BY <1>4
    <2>. QED
        BY <2>1, <2>2, <2>3, StagedWrite
<1>10. /\ mishap[d] \subseteq mishap'[d] /\ used \subseteq used' /\ document'[d] = UnusedRow
       /\ OpenOn(d) \subseteq {c} /\ document'[d].file \in used' \cup {NoFile} /\ s.upload \in used'
       /\ document'[d].status # "LIVE" /\ document[d].status = "NONE"
    BY <1>1, <1>2, <1>6
<1>11. Becomes(c, s) /\ tx[c] = Idle /\ OpenOn(d) = {}
    BY <1>2 DEF Becomes
<1>12. s \in Session /\ s.step = "uploaded" /\ s.doc = d /\ s # Idle
    BY <1>1
<1>. QED
    BY <1>5, <1>7, <1>8, <1>9, <1>10, <1>11, <1>12, <1>13, StepKeeps

LEMMA NewRowTyped ==
    ASSUME NEW name \in Names, NEW u \in Uploads \cup {NoFile}
    PROVE  /\ NewRow(name, u) \in DocumentRow /\ NewRow(name, u).status = "LIVE"
           /\ NewRow(name, u).file_name = name /\ NewRow(name, u).file = u
BY DEF NewRow, DocumentRow

LEMMA CommitNewKeeps ==
    ASSUME DocumentsSound, NEW c \in Clients, CommitNew(c) \/ NewLost(c)
    PROVE  DocumentsSound'
<1>. DEFINE d == tx[c].doc  b == BaseName[tx[c].name]  row == NewRow(tx[c].name, tx[c].upload)
<1>1. /\ tx[c].step = "uploaded" /\ document' = [document EXCEPT ![d] = row] /\ End(c) /\ used' = used
    BY DEF CommitNew, NewLost
<1>2. /\ TypeOK /\ tx[c] \in Session /\ d \in Docs /\ SessionSound(c) /\ b \in Parts /\ Staged(storage, d)
      /\ mishap[d] \cap {"overlap", "lost"} = {} => Keeps(storage, document[d], tx[c])
      /\ mishap[d] = {} => \A x \in Parts : storage[<<d, x>>] = Expected(tx[c], x)
    BY <1>1, OpenFacts DEF Parts
<1>3. tx[c].upload \in used /\ tx[c].upload \in Uploads /\ tx[c].name \in Names /\ document[d] = UnusedRow
    BY <1>1, <1>2 DEF SessionSound, TypeOK, Session
<1>4. /\ row \in DocumentRow /\ row.status = "LIVE" /\ row.file_name = tx[c].name /\ row.file = tx[c].upload
    BY <1>3, NewRowTyped
<1>. HIDE DEF row
<1>5. /\ document' \in [Docs -> DocumentRow] /\ document'[d] = row
      /\ \A e \in Docs \ {d} : document'[e] = document[e]
    BY <1>1, <1>2, <1>4, RowWritten
<1>6. CASE CommitNew(c)
    <2>1. storage' = storage /\ mishap' = mishap
        BY <1>6 DEF CommitNew
    <2>2. mishap[d] \cap {"overlap", "lost"} = {} => storage'[<<d, b>>] = row.file
        BY <1>1, <1>2, <1>4, <2>1 DEF Keeps
    <2>3. mishap[d] = {} => \A x \in Parts : storage'[<<d, x>>] = RowAt(row, x)
        BY <1>1, <1>2, <1>4, <2>1 DEF Expected, RowAt
    <2>4. storage' \in [Key -> Uploads \cup {NoFile}] /\ mishap' \in [Docs -> SUBSET Mishaps]
        BY <1>2, <2>1 DEF TypeOK
    <2>5. \A e \in Docs \ {d} :
            /\ document'[e] = document[e] /\ mishap'[e] = mishap[e]
            /\ \A x \in Parts : storage'[<<e, x>>] = storage[<<e, x>>]
        BY <1>5, <2>1
    <2>6. mishap'[d] \cap {"overlap", "lost"} = {} => \E x \in Parts : storage'[<<d, x>>] = document'[d].file
        BY <1>2, <1>5, <2>1, <2>2
    <2>7. mishap'[d] = {} => \A x \in Parts : storage'[<<d, x>>] = RowAt(document'[d], x)
        BY <1>5, <2>1, <2>3
    <2>8. /\ document'[d].status # "NONE" /\ document'[d].file \in used \cup {NoFile}
          /\ mishap[d] \subseteq mishap'[d] /\ Staged(storage', d)
        BY <1>2, <1>3, <1>4, <1>5, <2>1
    <2>. QED
        BY <1>1, <1>5, <2>4, <2>5, <2>6, <2>7, <2>8, EndKeeps
<1>7. CASE NewLost(c)
    <2>1. storage' \in Tried(<<d, b>>) /\ mishap' = Note(d, {"lost"})
        BY <1>2, <1>3, <1>7, KeyTyped DEF NewLost
    <2>2. /\ storage' \in [Key -> Uploads \cup {NoFile}]
          /\ \A e \in Docs, y \in Parts : e # d \/ y # b => storage'[<<e, y>>] = storage[<<e, y>>]
        BY <1>2, <2>1, TriedAt
    <2>7. Staged(storage', d)
        BY <1>2, <2>1, TriedStaged
    <2>3. /\ mishap' \in [Docs -> SUBSET Mishaps] /\ mishap'[d] = mishap[d] \cup {"lost"}
          /\ \A e \in Docs \ {d} : mishap'[e] = mishap[e]
        BY <1>2, <2>1, NoteEffect
    <2>4. \A e \in Docs \ {d} :
            /\ document'[e] = document[e] /\ mishap'[e] = mishap[e]
            /\ \A x \in Parts : storage'[<<e, x>>] = storage[<<e, x>>]
        BY <1>5, <2>2, <2>3
    <2>5. document'[d].status # "NONE" /\ document'[d].file \in used \cup {NoFile} /\ mishap[d] \subseteq mishap'[d]
        BY <1>3, <1>4, <1>5, <2>3
    <2>6. mishap'[d] # {} /\ mishap'[d] \cap {"overlap", "lost"} # {}
        BY <2>3
    <2>. QED
        BY <1>1, <1>5, <2>2, <2>3, <2>4, <2>5, <2>6, <2>7, EndKeeps
<1>. QED
    BY <1>6, <1>7

LEMMA NewFailsKeeps ==
    ASSUME DocumentsSound, NEW c \in Clients, NewFails(c)
    PROVE  DocumentsSound'
<1>. DEFINE d == tx[c].doc  b == BaseName[tx[c].name]
<1>1. tx[c].step = "uploaded" /\ End(c) /\ used' = used /\ document' = document
    BY DEF NewFails
<1>2. /\ TypeOK /\ tx[c] \in Session /\ d \in Docs /\ SessionSound(c) /\ b \in Parts
      /\ document[d].file \in used \cup {NoFile} /\ Staged(storage, d)
      /\ mishap[d] = {} => \A x \in Parts : storage[<<d, x>>] = Expected(tx[c], x)
    BY <1>1, OpenFacts DEF Parts
<1>3. document[d] = UnusedRow /\ tx[c].name \in Names /\ document' \in [Docs -> DocumentRow]
    BY <1>1, <1>2 DEF SessionSound, Session, TypeOK
<1>4. Cleanup(d, <<d, b>>)
    BY <1>2, <1>3, KeyTyped DEF NewFails
<1>5. Tidied(d, b)
    BY <1>2, <1>4, CleanupEffect
<1>6. mishap'[d] = {} => \A x \in Parts : storage'[<<d, x>>] = RowAt(document'[d], x)
    BY <1>1, <1>2, <1>3, <1>5, RowTyped DEF Expected, RowAt, Tidied
<1>7. \A e \in Docs \ {d} :
        /\ document'[e] = document[e] /\ mishap'[e] = mishap[e]
        /\ \A x \in Parts : storage'[<<e, x>>] = storage[<<e, x>>]
    BY <1>1, <1>5 DEF Tidied
<1>8. /\ storage' \in [Key -> Uploads \cup {NoFile}] /\ mishap' \in [Docs -> SUBSET Mishaps]
      /\ Staged(storage', d) /\ mishap[d] \subseteq mishap'[d]
    BY <1>5 DEF Tidied
<1>9. document'[d].status = "NONE" /\ document'[d].file \in used \cup {NoFile} /\ document' \in [Docs -> DocumentRow]
    BY <1>1, <1>2, <1>3, RowTyped
<1>10. document[d].status = "NONE"
    BY <1>3, RowTyped
<1>. QED
    BY <1>1, <1>6, <1>7, <1>8, <1>9, <1>10, EndKeeps

\* An upload that raised after storing its object: the object is new to every request
\* and to every row, and its document is marked.
LEMMA StrandKeeps ==
    ASSUME DocumentsSound, NEW c \in Clients, NEW d \in Docs, NEW x \in Parts, NEW u \in Uploads,
           Strand(c, d, <<d, x>>, u), x \in Uploads => x = u,
           x = u \/ (document[d].status # "LIVE" /\ OpenOn(d) = {})
    PROVE  DocumentsSound'
<1>1. /\ TypeOK /\ u \notin used /\ Writes(d, x, u) /\ used' = used \cup {u}
      /\ mishap' = Note(d, {"stranded"}) /\ document' = document /\ tx' = tx
      /\ u \in Uploads \cup {NoFile} /\ u # NoFile /\ used \subseteq Uploads
    BY AbsentAssumption DEF Strand, Put, Writes, DocumentsSound, TypeOK
<1>2. /\ storage' \in [Key -> Uploads \cup {NoFile}] /\ storage'[<<d, x>>] = u
      /\ \A e \in Docs, y \in Parts : e # d \/ y # x => storage'[<<e, y>>] = storage[<<e, y>>]
    BY <1>1, WriteAt
<1>3. /\ mishap' \in [Docs -> SUBSET Mishaps] /\ mishap'[d] = mishap[d] \cup {"stranded"}
      /\ \A e \in Docs \ {d} : mishap'[e] = mishap[e]
    BY <1>1, NoteEffect
<1>4. TypeOK'
    BY <1>1, <1>2, <1>3 DEF TypeOK
<1>5. \A k \in Clients : SessionSound(k)'
    BY <1>1 DEF DocumentsSound, SessionSound
<1>6. FilesUsed'
    BY <1>1 DEF DocumentsSound, FilesUsed
<1>7. Staged(storage', d)
    <2>1. Staged(storage, d) /\ \A y \in Parts \ {x} : storage'[<<d, y>>] = storage[<<d, y>>]
        BY <1>2 DEF DocumentsSound
    <2>. QED
        BY <1>1, <1>2, <2>1, StagedWrite
<1>8. ASSUME NEW e \in Docs, e # d PROVE Staged(storage', e) /\ Kept(e)' /\ Layout(e)'
    <2>1. /\ Staged(storage, e) /\ Kept(e) /\ Layout(e) /\ mishap'[e] = mishap[e]
          /\ \A y \in Parts : storage'[<<e, y>>] = storage[<<e, y>>]
        BY <1>2, <1>3, <1>8 DEF DocumentsSound
    <2>2. Staged(storage', e)
        BY <2>1 DEF Staged, Parts
    <2>3. Layout(e)'
        BY <1>1, <2>1 DEF Layout, OpenOn
    <2>4. Kept(e)'
        <3>. SUFFICES ASSUME mishap[e] \cap {"overlap", "lost"} = {}, NEW k \in Clients, tx[k].doc = e
                      PROVE  Keeps(storage', document[e], tx[k])
            BY <1>1, <2>1 DEF Kept, Single
        <3>1. Keeps(storage, document[e], tx[k]) /\ SessionSound(k) /\ tx[k] \in Session
            BY <1>1, <2>1 DEF Kept, DocumentsSound, TypeOK
        <3>2. /\ tx[k].step \in {"staged", "committed"} => tx[k].upload \in Parts
              /\ BaseName[tx[k].name] \in Parts
            BY <1>1, <3>1, NameAssumption DEF SessionSound, Session, Parts
        <3>. QED
            BY <2>1, <3>1, <3>2 DEF Keeps
    <2>. QED
        BY <2>2, <2>3, <2>4
<1>9. Layout(d)'
    BY <1>3 DEF Layout
<1>10. Kept(d)'
    <2>1. Kept(d) /\ Staged(storage, d) /\ document[d].file \in used \cup {NoFile}
        BY DEF DocumentsSound, FilesUsed
    <2>2. CASE document[d].status # "LIVE" /\ OpenOn(d) = {}
        BY <1>1, <2>2 DEF Kept, Single, OpenOn
    <2>3. CASE x = u
        <3>. SUFFICES ASSUME mishap[d] \cap {"overlap", "lost"} = {}
                      PROVE  /\ document[d].status = "LIVE" /\ document[d].file # NoFile =>
                                  \E y \in Parts : storage'[<<d, y>>] = document[d].file
                             /\ \A k \in Clients : tx[k].doc = d => Keeps(storage', document[d], tx[k])
            BY <1>1, <1>3, <2>1 DEF Kept, Single
        <3>1. ASSUME document[d].status = "LIVE", document[d].file # NoFile
              PROVE  \E y \in Parts : storage'[<<d, y>>] = document[d].file
            <4>1. PICK y \in Parts : storage[<<d, y>>] = document[d].file
                BY <2>1, <3>1 DEF Kept
            <4>2. y # u
                BY <1>1, <2>1, <3>1, <4>1 DEF Staged
            <4>. QED
                BY <1>2, <2>3, <4>1, <4>2
        <3>2. ASSUME NEW k \in Clients, tx[k].doc = d PROVE Keeps(storage', document[d], tx[k])
            <4>1. Keeps(storage, document[d], tx[k]) /\ SessionSound(k) /\ tx[k] \in Session
                BY <1>1, <2>1, <3>2 DEF Kept, DocumentsSound, TypeOK
            <4>2. /\ tx[k].step \in {"staged", "committed"} => tx[k].upload \in Parts /\ tx[k].upload # u
                  /\ BaseName[tx[k].name] \in Parts /\ BaseName[tx[k].name] # u
                BY <1>1, <4>1, NameAssumption DEF SessionSound, Session, Parts
            <4>. QED
                BY <1>2, <2>3, <3>2, <4>1, <4>2 DEF Keeps
        <3>. QED
            BY <3>1, <3>2
    <2>. QED
        BY <2>2, <2>3
<1>. QED
    BY <1>4, <1>5, <1>6, <1>7, <1>8, <1>9, <1>10 DEF DocumentsSound

LEMMA UploadStrandedKeeps ==
    ASSUME DocumentsSound, NEW c \in Clients, NEW d \in Docs, NEW name \in Names, NEW u \in Uploads,
           UploadStranded(c, d, name, u)
    PROVE  DocumentsSound'
<1>1. BaseName[name] \in Parts /\ BaseName[name] \notin Uploads /\ Strand(c, d, <<d, BaseName[name]>>, u)
    BY KeyTyped DEF UploadStranded, Parts
<1>2. document[d].status # "LIVE" /\ OpenOn(d) = {}
    BY RowTyped DEF UploadStranded
<1>. QED
    BY <1>1, <1>2, StrandKeeps

LEMMA StageStrandedKeeps ==
    ASSUME DocumentsSound, NEW c \in Clients, NEW d \in Docs, NEW u \in Uploads, StageStranded(c, d, u)
    PROVE  DocumentsSound'
<1>1. u \in Parts /\ Strand(c, d, <<d, u>>, u)
    BY KeyTyped DEF StageStranded, Parts
<1>. QED
    BY <1>1, StrandKeeps

-----------------------------------------------------------------------------
(* Steps of a request that only touch its own document *)

Confined(d) ==
    /\ document' \in [Docs -> DocumentRow] /\ storage' \in [Key -> Uploads \cup {NoFile}]
    /\ mishap' \in [Docs -> SUBSET Mishaps] /\ used' = used
    /\ \A e \in Docs \ {d} :
         /\ document'[e] = document[e] /\ mishap'[e] = mishap[e]
         /\ \A x \in Parts : storage'[<<e, x>>] = storage[<<e, x>>]
    /\ mishap[d] \subseteq mishap'[d] /\ Staged(storage', d)
    /\ document[d].status # "NONE" => document'[d].status # "NONE"
    /\ document'[d].file \in used \cup {NoFile}

\* The file of the row is somewhere.
FileKept(d) ==
    document'[d].status = "LIVE" /\ document'[d].file # NoFile =>
        \E x \in Parts : storage'[<<d, x>>] = document'[d].file

LEMMA EndConfined ==
    ASSUME DocumentsSound, NEW c \in Clients, tx[c].step # "idle", End(c), NEW d, d = tx[c].doc, Confined(d),
           mishap'[d] \cap {"overlap", "lost"} = {} => FileKept(d),
           mishap'[d] = {} => \A x \in Parts : storage'[<<d, x>>] = RowAt(document'[d], x)
    PROVE  DocumentsSound'
<1>1. \A e \in Docs \ {d} :
        /\ document'[e] = document[e] /\ mishap'[e] = mishap[e]
        /\ \A x \in Parts : storage'[<<e, x>>] = storage[<<e, x>>]
    BY DEF Confined
<1>2. /\ document' \in [Docs -> DocumentRow] /\ storage' \in [Key -> Uploads \cup {NoFile}]
      /\ mishap' \in [Docs -> SUBSET Mishaps] /\ used' = used
      /\ mishap[d] \subseteq mishap'[d] /\ Staged(storage', d)
      /\ document[d].status # "NONE" => document'[d].status # "NONE"
      /\ document'[d].file \in used \cup {NoFile}
    BY DEF Confined
<1>3. mishap'[d] \cap {"overlap", "lost"} = {} /\ document'[d].status = "LIVE" /\ document'[d].file # NoFile =>
        \E x \in Parts : storage'[<<d, x>>] = document'[d].file
    BY DEF FileKept
<1>. QED
    BY <1>1, <1>2, <1>3, EndKeeps

\* The request goes on to its next step.
Stepped(c, step) == [tx[c] EXCEPT !.step = step]

LEMMA SteppedTyped ==
    ASSUME TypeOK, NEW c \in Clients, NEW step \in {"committed", "promoted", "cleaned", "deleted"}, Goto(c, step)
    PROVE  /\ Stepped(c, step) \in Session /\ Stepped(c, step).step = step /\ Stepped(c, step).doc = tx[c].doc
           /\ Stepped(c, step).upload = tx[c].upload /\ Stepped(c, step).name = tx[c].name
           /\ Stepped(c, step).seen = tx[c].seen
           /\ Becomes(c, Stepped(c, step))
<1>1. tx[c] \in Session
    BY DEF TypeOK
<1>2. step \in {"idle", "uploaded", "staged", "committed", "promoted", "cleaned", "deleting", "deleted"}
    OBVIOUS
<1>3. Becomes(c, Stepped(c, step))
    BY DEF Goto, TypeOK, Becomes, Stepped
<1>. QED
    BY <1>1, <1>2, <1>3 DEF Stepped, Session

LEMMA GotoConfined ==
    ASSUME DocumentsSound, NEW c \in Clients, tx[c].step \notin {"idle", "uploaded"}, NEW d, d = tx[c].doc, Confined(d),
           NEW step \in {"committed", "promoted", "cleaned", "deleted"}, Goto(c, step),
           step # "deleted" => tx[c].upload \in used,
           NEW s, s = Stepped(c, step),
           mishap'[d] \cap {"overlap", "lost"} = {} => FileKept(d) /\ Keeps(storage', document'[d], s),
           mishap'[d] = {} =>
             RowFollows(document'[d], s) /\ \A x \in Parts : storage'[<<d, x>>] = Expected(s, x)
    PROVE  DocumentsSound'
<1>1. TypeOK /\ SessionSound(c) /\ d \in Docs /\ document[d].status # "NONE"
    BY DEF DocumentsSound, SessionSound
<1>2. s \in Session /\ s.step = step /\ s.doc = d /\ s.upload = tx[c].upload /\ Becomes(c, s)
    BY <1>1, SteppedTyped
<1>3. /\ document' \in [Docs -> DocumentRow] /\ storage' \in [Key -> Uploads \cup {NoFile}]
      /\ mishap' \in [Docs -> SUBSET Mishaps] /\ used' = used
      /\ mishap[d] \subseteq mishap'[d] /\ Staged(storage', d)
      /\ document'[d].status # "NONE"
      /\ document'[d].file \in used' \cup {NoFile}
    BY <1>1 DEF Confined
<1>4. TypeOK'
    BY <1>1, <1>2, <1>3 DEF TypeOK, Becomes
<1>5. s.step # "idle" /\ s.step # "uploaded"
    BY <1>2
<1>6. s # Idle
    BY <1>5, RowTyped
<1>7. s.step \in {"uploaded", "staged", "committed", "promoted", "cleaned"} => s.upload \in used'
    BY <1>2, <1>3
<1>8. \A e \in Docs \ {d} :
        /\ document'[e] = document[e] /\ mishap'[e] = mishap[e]
        /\ \A x \in Parts : storage'[<<e, x>>] = storage[<<e, x>>]
    BY DEF Confined
<1>9. mishap'[d] \cap {"overlap", "lost"} = {} =>
        /\ document'[d].status = "LIVE" /\ document'[d].file # NoFile =>
             \E x \in Parts : storage'[<<d, x>>] = document'[d].file
        /\ Keeps(storage', document'[d], s)
    BY DEF FileKept
<1>10. tx[c].doc = d /\ used \subseteq used'
    BY <1>3
<1>. QED
    BY <1>1, <1>2, <1>3, <1>4, <1>5, <1>6, <1>7, <1>8, <1>9, <1>10, StepKeeps

\* What changes when only a clean-up, or only a note in the history, happens.
LEMMA TidiedConfined ==
    ASSUME TypeOK, NEW d \in Docs, NEW x \in Parts, Tidied(d, x), document' = document, used' = used,
           document[d].file \in used \cup {NoFile}
    PROVE  Confined(d)
BY DEF Tidied, Confined, TypeOK

LEMMA NotedConfined ==
    ASSUME TypeOK, NEW d \in Docs, NEW what \in {"lost", "crash", "logged", "overlap", "stranded"}, mishap' = Note(d, {what}),
           document' = document, storage' = storage, used' = used, Staged(storage, d),
           document[d].file \in used \cup {NoFile}
    PROVE  Confined(d) /\ mishap'[d] = mishap[d] \cup {what}
<1>1. /\ mishap' \in [Docs -> SUBSET Mishaps] /\ mishap'[d] = mishap[d] \cup {what}
      /\ \A e \in Docs \ {d} : mishap'[e] = mishap[e]
    BY NoteEffect
<1>. QED
    BY <1>1 DEF Confined, TypeOK

-----------------------------------------------------------------------------
(* Requests that begin on a row that is there *)

LEMMA BeginsEffect ==
    ASSUME DocumentsSound, NEW c \in Clients, NEW d \in Docs, NEW s \in Session, s.doc = d, Begins(c, s)
    PROVE  /\ tx[c] = Idle /\ Becomes(c, s)
           /\ mishap' \in [Docs -> SUBSET Mishaps] /\ mishap[d] \subseteq mishap'[d]
           /\ \A e \in Docs \ {d} : mishap'[e] = mishap[e]
           /\ OpenOn(d) = {} \/ "overlap" \in mishap'[d]
           /\ OpenOn(d) = {} => mishap'[d] = mishap[d]
<1>1. TypeOK /\ SessionSound(c)
    BY DEF DocumentsSound
<1>2. tx[c] = Idle /\ Becomes(c, s)
    BY <1>1 DEF Begins, SessionSound, Becomes
<1>3. CASE OpenOn(d) = {}
    <2>1. mishap' = mishap
        BY <1>3 DEF Begins
    <2>. QED
        BY <1>1, <1>2, <1>3, <2>1 DEF TypeOK
<1>4. CASE OpenOn(d) # {}
    <2>1. mishap' = Note(d, {"overlap"})
        BY <1>4 DEF Begins
    <2>2. /\ mishap' \in [Docs -> SUBSET Mishaps] /\ mishap'[d] = mishap[d] \cup {"overlap"}
          /\ \A e \in Docs \ {d} : mishap'[e] = mishap[e]
        BY <1>1, <2>1, NoteEffect
    <2>. QED
        BY <1>2, <1>4, <2>2
<1>. QED
    BY <1>3, <1>4

LEMMA StageKeeps ==
    ASSUME DocumentsSound, NEW c \in Clients, NEW d \in Docs, NEW name \in Names, NEW u \in Uploads,
           Stage(c, d, name, u)
    PROVE  DocumentsSound'
<1>. DEFINE s == Request("staged", d, name, u, document[d])
<1>1. /\ TypeOK /\ Staged(storage, d) /\ Kept(d) /\ Layout(d) /\ document[d] \in DocumentRow
      /\ document[d].file \in used \cup {NoFile}
    BY DEF DocumentsSound, TypeOK, FilesUsed
<1>2. /\ s \in Session /\ s.step = "staged" /\ s.doc = d /\ s.name = name /\ s.upload = u
      /\ s.seen = document[d] /\ s # Idle
    BY <1>1, RowTyped DEF Request, Session
<1>3. /\ document[d].status = "LIVE" /\ u \notin used /\ Begins(c, s) /\ document' = document
      /\ used' = used \cup {u}
    BY DEF Stage, Live
<1>4. Writes(d, u, u) /\ u \in Parts /\ u \notin Names
    BY KeyTyped DEF Stage, Put, Writes, Parts
<1>. HIDE DEF s
<1>5. /\ storage' \in [Key -> Uploads \cup {NoFile}] /\ storage'[<<d, u>>] = u
      /\ \A e \in Docs, y \in Parts : e # d \/ y # u => storage'[<<e, y>>] = storage[<<e, y>>]
    <2>1. TypeOK /\ u \in Uploads \cup {NoFile}
        BY <1>1
    <2>. QED
        BY <1>4, <2>1, WriteAt
<1>6. /\ tx[c] = Idle /\ Becomes(c, s)
      /\ mishap' \in [Docs -> SUBSET Mishaps] /\ mishap[d] \subseteq mishap'[d]
      /\ \A e \in Docs \ {d} : mishap'[e] = mishap[e]
      /\ OpenOn(d) = {} \/ "overlap" \in mishap'[d]
      /\ OpenOn(d) = {} => mishap'[d] = mishap[d]
    BY <1>2, <1>3, BeginsEffect
<1>7. TypeOK'
    BY <1>1, <1>2, <1>3, <1>5, <1>6 DEF TypeOK, Becomes
<1>8. Staged(storage', d)
    <2>1. \A y \in Parts \ {u} : storage'[<<d, y>>] = storage[<<d, y>>]
        BY <1>5
    <2>. QED
        BY <1>1, <1>4, <1>5, <2>1, StagedWrite
<1>9. mishap'[d] \cap {"overlap", "lost"} = {} =>
        /\ document'[d].status = "LIVE" /\ document'[d].file # NoFile =>
             \E x \in Parts : storage'[<<d, x>>] = document'[d].file
        /\ Keeps(storage', document'[d], s)
    <2>. SUFFICES ASSUME mishap'[d] \cap {"overlap", "lost"} = {}
                  PROVE  /\ document[d].file # NoFile =>
                              \E x \in Parts : storage'[<<d, x>>] = document[d].file
                         /\ Keeps(storage', document[d], s)
        BY <1>3
    <2>1. mishap[d] \cap {"overlap", "lost"} = {}
        BY <1>6
    <2>2. Keeps(storage', document[d], s)
        BY <1>1, <1>2, <1>3, <1>5, AbsentAssumption DEF Keeps
    <2>3. ASSUME document[d].file # NoFile
          PROVE  \E x \in Parts : storage'[<<d, x>>] = document[d].file
        <3>1. PICK x \in Parts : storage[<<d, x>>] = document[d].file
            BY <1>1, <1>3, <2>1, <2>3 DEF Kept
        <3>2. x # u
            BY <1>1, <1>3, <2>3, <3>1 DEF Staged
        <3>. QED
            BY <1>5, <3>1, <3>2
    <2>. QED
        BY <2>2, <2>3
<1>10. mishap'[d] = {} => RowFollows(document'[d], s) /\ \A x \in Parts : storage'[<<d, x>>] = Expected(s, x)
    <2>. SUFFICES ASSUME mishap'[d] = {}
                  PROVE  RowFollows(document[d], s) /\ \A x \in Parts : storage'[<<d, x>>] = Expected(s, x)
        BY <1>3
    <2>1. OpenOn(d) = {} /\ mishap[d] = {}
        BY <1>6
    <2>2. \A x \in Parts : storage[<<d, x>>] = RowAt(document[d], x)
        BY <1>1, <2>1 DEF Layout
    <2>3. \A x \in Parts : Expected(s, x) = IF x = u THEN u ELSE RowAt(document[d], x)
        BY <1>2 DEF Expected
    <2>4. RowFollows(document[d], s)
        BY <1>2, <1>3 DEF RowFollows
    <2>. QED
        BY <1>5, <2>2, <2>3, <2>4
<1>11. \A e \in Docs \ {d} :
        /\ document'[e] = document[e] /\ mishap'[e] = mishap[e]
        /\ \A x \in Parts : storage'[<<e, x>>] = storage[<<e, x>>]
    BY <1>3, <1>5, <1>6
<1>12. /\ document[d].status # "NONE" /\ document'[d].status # "NONE" /\ used \subseteq used'
       /\ document'[d].file \in used' \cup {NoFile} /\ s.upload \in used'
    BY <1>1, <1>2, <1>3
<1>13. s.step # "idle" /\ s.step # "uploaded" /\ s \in Session /\ s.doc = d /\ s # Idle
    BY <1>2
<1>14. /\ Becomes(c, s) /\ tx[c] = Idle /\ mishap[d] \subseteq mishap'[d]
       /\ OpenOn(d) = {} \/ "overlap" \in mishap'[d]
    BY <1>6
<1>. QED
    BY <1>7, <1>8, <1>9, <1>10, <1>11, <1>12, <1>13, <1>14, StepKeeps

LEMMA LoadForDeleteKeeps ==
    ASSUME DocumentsSound, NEW c \in Clients, NEW d \in Docs, LoadForDelete(c, d)
    PROVE  DocumentsSound'
<1>. DEFINE s == Request("deleting", d, document[d].file_name, NoFile, document[d])
<1>1. /\ TypeOK /\ Staged(storage, d) /\ Kept(d) /\ Layout(d) /\ document[d] \in DocumentRow
      /\ document[d].file \in used \cup {NoFile}
    BY DEF DocumentsSound, TypeOK, FilesUsed
<1>2. /\ s \in Session /\ s.step = "deleting" /\ s.doc = d /\ s.name = document[d].file_name
      /\ s.seen = document[d] /\ s # Idle
    BY <1>1, RowTyped DEF Request, Session, DocumentRow
<1>3. /\ document[d].status = "LIVE" /\ Begins(c, s) /\ document' = document
      /\ storage' = storage /\ used' = used
    BY DEF LoadForDelete, Live
<1>. HIDE DEF s
<1>6. /\ tx[c] = Idle /\ Becomes(c, s)
      /\ mishap' \in [Docs -> SUBSET Mishaps] /\ mishap[d] \subseteq mishap'[d]
      /\ \A e \in Docs \ {d} : mishap'[e] = mishap[e]
      /\ OpenOn(d) = {} \/ "overlap" \in mishap'[d]
      /\ OpenOn(d) = {} => mishap'[d] = mishap[d]
    BY <1>2, <1>3, BeginsEffect
<1>7. TypeOK'
    BY <1>1, <1>2, <1>3, <1>6 DEF TypeOK, Becomes
<1>8. Staged(storage', d)
    BY <1>1, <1>3
<1>9. mishap'[d] \cap {"overlap", "lost"} = {} =>
        /\ document'[d].status = "LIVE" /\ document'[d].file # NoFile =>
             \E x \in Parts : storage'[<<d, x>>] = document'[d].file
        /\ Keeps(storage', document'[d], s)
    <2>1. Keeps(storage', document'[d], s)
        BY <1>2 DEF Keeps
    <2>2. mishap'[d] \cap {"overlap", "lost"} = {} => mishap[d] \cap {"overlap", "lost"} = {}
        BY <1>6
    <2>. QED
        BY <1>1, <1>3, <2>1, <2>2 DEF Kept
<1>10. mishap'[d] = {} => RowFollows(document'[d], s) /\ \A x \in Parts : storage'[<<d, x>>] = Expected(s, x)
    <2>. SUFFICES ASSUME mishap'[d] = {}
                  PROVE  RowFollows(document[d], s) /\ \A x \in Parts : storage[<<d, x>>] = Expected(s, x)
        BY <1>3
    <2>1. OpenOn(d) = {} /\ mishap[d] = {}
        BY <1>6
    <2>2. \A x \in Parts : storage[<<d, x>>] = RowAt(document[d], x)
        BY <1>1, <2>1 DEF Layout
    <2>3. \A x \in Parts : Expected(s, x) = RowAt(document[d], x)
        BY <1>2 DEF Expected
    <2>4. RowFollows(document[d], s)
        BY <1>2, <1>3 DEF RowFollows
    <2>. QED
        BY <2>2, <2>3, <2>4
<1>11. \A e \in Docs \ {d} :
        /\ document'[e] = document[e] /\ mishap'[e] = mishap[e]
        /\ \A x \in Parts : storage'[<<e, x>>] = storage[<<e, x>>]
    BY <1>3, <1>6
<1>12. /\ document[d].status # "NONE" /\ document'[d].status # "NONE" /\ used \subseteq used'
       /\ document'[d].file \in used' \cup {NoFile}
    BY <1>1, <1>3
<1>13. s.step \notin {"idle", "uploaded", "staged", "committed", "promoted", "cleaned"} /\ s \in Session /\ s.doc = d /\ s # Idle
    BY <1>2
<1>14. /\ Becomes(c, s) /\ tx[c] = Idle /\ mishap[d] \subseteq mishap'[d]
       /\ OpenOn(d) = {} \/ "overlap" \in mishap'[d]
    BY <1>6
<1>. QED
    BY <1>7, <1>8, <1>9, <1>10, <1>11, <1>12, <1>13, <1>14, StepKeeps

-----------------------------------------------------------------------------
(* replace_document_file *)

\* What is known of a request that carries a file.
LEMMA ReplacementFacts ==
    ASSUME DocumentsSound, NEW c \in Clients, tx[c].step \in {"staged", "committed", "promoted", "cleaned"},
           NEW d, d = tx[c].doc
    PROVE  /\ tx[c].upload \in used /\ tx[c].upload \in Uploads /\ tx[c].upload \in Parts /\ tx[c].upload \notin Names
           /\ tx[c].upload # NoFile /\ tx[c].name \in Names /\ tx[c].seen.file_name \in Names
           /\ BaseName[tx[c].name] \in Parts /\ BaseName[tx[c].name] # tx[c].upload
           /\ BaseName[tx[c].seen.file_name] \in Parts /\ BaseName[tx[c].seen.file_name] # tx[c].upload
           /\ StorageKey(d, tx[c].name) = <<d, BaseName[tx[c].name]>>
           /\ StorageKey(d, tx[c].seen.file_name) = <<d, BaseName[tx[c].seen.file_name]>>
           /\ StagingKey(d, tx[c].upload) = <<d, tx[c].upload>>
<1>1. TypeOK /\ tx[c] \in Session /\ d \in Docs /\ SessionSound(c) /\ tx[c].seen \in DocumentRow
    BY OpenFacts
<1>2. tx[c].upload \in used /\ tx[c].name \in Names /\ tx[c].seen.file_name \in Names
    BY <1>1 DEF SessionSound, Session, DocumentRow
<1>3. tx[c].upload \in Uploads
    BY <1>1, <1>2 DEF TypeOK
<1>. QED
    BY <1>1, <1>2, <1>3, KeyTyped, AbsentAssumption DEF Parts

\* The row after the commit of a replacement.
LEMMA ReplacedRow ==
    ASSUME TypeOK, NEW d \in Docs, NEW s \in Session, s.doc = d, s.upload \in Uploads, document' = Replaced(s)
    PROVE  /\ document' \in [Docs -> DocumentRow]
           /\ \A e \in Docs \ {d} : document'[e] = document[e]
           /\ document[d].status # "LIVE" => document'[d] = document[d]
           /\ document[d].status = "LIVE" => document'[d].status = "LIVE" /\ document'[d].file = s.upload
           /\ document[d].status = "LIVE" /\ document[d].file_name = s.seen.file_name =>
                document'[d] = NewRow(s.name, s.upload)
<1>. DEFINE name == IF s.name # s.seen.file_name THEN s.name ELSE document[d].file_name
<1>1. document[d] \in DocumentRow /\ s.name \in Names
    BY DEF TypeOK, Session
<1>2. name \in Names
    BY <1>1 DEF DocumentRow
<1>3. CASE document[d].status = "LIVE"
    <2>1. document' = [document EXCEPT ![d] = NewRow(name, s.upload)]
        BY <1>3 DEF Replaced
    <2>2. /\ NewRow(name, s.upload) \in DocumentRow /\ NewRow(name, s.upload).status = "LIVE"
          /\ NewRow(name, s.upload).file = s.upload
        BY <1>2, NewRowTyped
    <2>3. /\ document' \in [Docs -> DocumentRow] /\ document'[d] = NewRow(name, s.upload)
          /\ \A e \in Docs \ {d} : document'[e] = document[e]
        BY <2>1, <2>2, RowWritten
    <2>. QED
        BY <1>3, <2>2, <2>3
<1>4. CASE document[d].status # "LIVE"
    BY <1>4 DEF Replaced, TypeOK
<1>. QED
    BY <1>3, <1>4

LEMMA CommitReplacementKeeps ==
    ASSUME DocumentsSound, NEW c \in Clients, CommitReplacement(c)
    PROVE  DocumentsSound'
<1>. DEFINE d == tx[c].doc  u == tx[c].upload  s == Stepped(c, "committed")
<1>1. /\ tx[c].step = "staged" /\ document' = Replaced(tx[c]) /\ Goto(c, "committed")
      /\ storage' = storage /\ used' = used /\ mishap' = mishap
    BY DEF CommitReplacement
<1>2. /\ TypeOK /\ tx[c] \in Session /\ d \in Docs /\ Staged(storage, d)
      /\ document[d].file \in used \cup {NoFile} /\ document[d] \in DocumentRow
      /\ mishap[d] \cap {"overlap", "lost"} = {} => Keeps(storage, document[d], tx[c])
      /\ mishap[d] = {} =>
           RowFollows(document[d], tx[c]) /\ \A x \in Parts : storage[<<d, x>>] = Expected(tx[c], x)
    BY <1>1, OpenFacts
<1>3. u \in used /\ u \in Uploads /\ u \in Parts /\ u # NoFile
    BY <1>1, ReplacementFacts
<1>4. /\ document' \in [Docs -> DocumentRow]
      /\ \A e \in Docs \ {d} : document'[e] = document[e]
      /\ document[d].status # "LIVE" => document'[d] = document[d]
      /\ document[d].status = "LIVE" => document'[d].status = "LIVE" /\ document'[d].file = u
      /\ document[d].status = "LIVE" /\ document[d].file_name = tx[c].seen.file_name =>
            document'[d] = NewRow(tx[c].name, u)
    BY <1>1, <1>2, <1>3, ReplacedRow
<1>5. Confined(d)
    BY <1>1, <1>2, <1>3, <1>4 DEF Confined, TypeOK
<1>6. /\ s.step = "committed" /\ s.doc = d /\ s.upload = u /\ s.name = tx[c].name /\ s.seen = tx[c].seen
    BY <1>1, <1>2, SteppedTyped
<1>7. mishap'[d] \cap {"overlap", "lost"} = {} => FileKept(d) /\ Keeps(storage', document'[d], s)
    <2>. SUFFICES ASSUME mishap[d] \cap {"overlap", "lost"} = {} PROVE FileKept(d) /\ Keeps(storage', document'[d], s)
        BY <1>1
    <2>1. storage'[<<d, u>>] = u /\ (document'[d].status = "LIVE" => document'[d].file = u)
        BY <1>1, <1>2, <1>4 DEF Keeps
    <2>2. FileKept(d)
        BY <1>3, <2>1 DEF FileKept
    <2>. QED
        BY <1>6, <2>1, <2>2 DEF Keeps
<1>8. mishap'[d] = {} =>
        RowFollows(document'[d], s) /\ \A x \in Parts : storage'[<<d, x>>] = Expected(s, x)
    <2>. SUFFICES ASSUME mishap[d] = {}
                  PROVE  RowFollows(document'[d], s) /\ \A x \in Parts : storage'[<<d, x>>] = Expected(s, x)
        BY <1>1
    <2>1. document[d] = tx[c].seen /\ tx[c].seen.status = "LIVE"
        BY <1>1, <1>2 DEF RowFollows
    <2>2. document'[d] = NewRow(tx[c].name, u)
        BY <1>4, <2>1
    <2>3. RowFollows(document'[d], s)
        BY <1>6, <2>1, <2>2 DEF RowFollows
    <2>4. \A x \in Parts : Expected(s, x) = Expected(tx[c], x)
        BY <1>1, <1>6 DEF Expected
    <2>. QED
        BY <1>1, <1>2, <2>3, <2>4
<1>. HIDE DEF s
<1>9. s = Stepped(c, "committed")
    BY DEF s
<1>. QED
    BY <1>1, <1>3, <1>5, <1>7, <1>8, <1>9, GotoConfined

LEMMA ReplacementFailsKeeps ==
    ASSUME DocumentsSound, NEW c \in Clients, ReplacementFails(c)
    PROVE  DocumentsSound'
<1>. DEFINE d == tx[c].doc  u == tx[c].upload
<1>1. tx[c].step = "staged" /\ End(c) /\ used' = used /\ document' = document
    BY DEF ReplacementFails
<1>2. /\ TypeOK /\ d \in Docs /\ Staged(storage, d) /\ document[d].file \in used \cup {NoFile}
      /\ BaseName[tx[c].seen.file_name] \in Names
      /\ mishap[d] \cap {"overlap", "lost"} = {} =>
           /\ Keeps(storage, document[d], tx[c])
           /\ document[d].status = "LIVE" /\ document[d].file # NoFile =>
                \E x \in Parts : storage[<<d, x>>] = document[d].file
      /\ mishap[d] = {} =>
           RowFollows(document[d], tx[c]) /\ \A x \in Parts : storage[<<d, x>>] = Expected(tx[c], x)
    BY <1>1, OpenFacts
<1>3. u \in Parts /\ u \notin Names /\ Cleanup(d, <<d, u>>)
    BY <1>1, ReplacementFacts DEF ReplacementFails
<1>4. Tidied(d, u)
    BY <1>2, <1>3, CleanupEffect
<1>5. Confined(d)
    BY <1>1, <1>2, <1>3, <1>4, TidiedConfined
<1>6. mishap'[d] \cap {"overlap", "lost"} = {} => FileKept(d)
    <2>. SUFFICES ASSUME mishap'[d] \cap {"overlap", "lost"} = {}, document[d].status = "LIVE", document[d].file # NoFile
                  PROVE  \E x \in Parts : storage'[<<d, x>>] = document[d].file
        BY <1>1 DEF FileKept
    <2>1. mishap[d] \cap {"overlap", "lost"} = {}
        BY <1>4 DEF Tidied
    <2>2. PICK x \in Parts : storage[<<d, x>>] = document[d].file
        BY <1>2, <2>1
    <2>3. x # u
        BY <1>1, <1>2, <2>1, <2>2 DEF Keeps
    <2>. QED
        BY <1>4, <2>2, <2>3 DEF Tidied
<1>7. mishap'[d] = {} => \A x \in Parts : storage'[<<d, x>>] = RowAt(document'[d], x)
    <2>. SUFFICES ASSUME mishap'[d] = {}, NEW x \in Parts PROVE storage'[<<d, x>>] = RowAt(document[d], x)
        BY <1>1
    <2>1. mishap[d] = {} /\ storage'[<<d, u>>] = NoFile /\ \A y \in Parts \ {u} : storage'[<<d, y>>] = storage[<<d, y>>]
        BY <1>4 DEF Tidied
    <2>2. document[d] = tx[c].seen /\ storage[<<d, x>>] = Expected(tx[c], x)
        BY <1>1, <1>2, <2>1 DEF RowFollows
    <2>. QED
        BY <1>1, <1>2, <1>3, <2>1, <2>2 DEF Expected, RowAt
<1>. QED
    BY <1>1, <1>5, <1>6, <1>7, EndConfined

LEMMA ReplacementLostKeeps ==
    ASSUME DocumentsSound, NEW c \in Clients, ReplacementLost(c)
    PROVE  DocumentsSound'
<1>. DEFINE d == tx[c].doc  u == tx[c].upload
<1>1. /\ tx[c].step = "staged" /\ document' = Replaced(tx[c]) /\ End(c) /\ used' = used
      /\ mishap' = Note(d, {"lost"})
    BY DEF ReplacementLost
<1>2. /\ TypeOK /\ tx[c] \in Session /\ d \in Docs /\ Staged(storage, d) /\ document[d].file \in used \cup {NoFile}
    BY <1>1, OpenFacts
<1>3. u \in used /\ u \in Uploads /\ u \in Parts /\ storage' \in Tried(<<d, u>>)
    BY <1>1, ReplacementFacts DEF ReplacementLost
<1>4. /\ document' \in [Docs -> DocumentRow]
      /\ \A e \in Docs \ {d} : document'[e] = document[e]
      /\ document[d].status # "LIVE" => document'[d] = document[d]
      /\ document[d].status = "LIVE" => document'[d].status = "LIVE" /\ document'[d].file = u
    BY <1>1, <1>2, <1>3, ReplacedRow
<1>5. /\ storage' \in [Key -> Uploads \cup {NoFile}]
      /\ \A e \in Docs, y \in Parts : e # d \/ y # u => storage'[<<e, y>>] = storage[<<e, y>>]
    BY <1>2, <1>3, TriedAt
<1>6. Staged(storage', d)
    BY <1>2, <1>3, TriedStaged
<1>7. /\ mishap' \in [Docs -> SUBSET Mishaps] /\ mishap'[d] = mishap[d] \cup {"lost"}
      /\ \A e \in Docs \ {d} : mishap'[e] = mishap[e]
    BY <1>1, <1>2, NoteEffect
<1>8. Confined(d)
    BY <1>1, <1>2, <1>3, <1>4, <1>5, <1>6, <1>7 DEF Confined
<1>9. mishap'[d] # {} /\ mishap'[d] \cap {"overlap", "lost"} # {}
    BY <1>7
<1>. QED
    BY <1>1, <1>8, <1>9, EndConfined

LEMMA PromoteKeeps ==
    ASSUME DocumentsSound, NEW c \in Clients, Promote(c)
    PROVE  DocumentsSound'
<1>. DEFINE d == tx[c].doc  u == tx[c].upload  b == BaseName[tx[c].name]  s == Stepped(c, "promoted")
<1>1. /\ tx[c].step = "committed" /\ Goto(c, "promoted") /\ document' = document /\ used' = used /\ mishap' = mishap
    BY DEF Promote
<1>2. /\ TypeOK /\ tx[c] \in Session /\ d \in Docs /\ Staged(storage, d)
      /\ document[d].file \in used \cup {NoFile}
      /\ mishap[d] \cap {"overlap", "lost"} = {} => Keeps(storage, document[d], tx[c])
      /\ mishap[d] = {} =>
           RowFollows(document[d], tx[c]) /\ \A x \in Parts : storage[<<d, x>>] = Expected(tx[c], x)
    BY <1>1, OpenFacts
<1>3. /\ u \in used /\ u \in Uploads /\ u \in Parts /\ b \in Parts /\ b # u /\ b \notin Uploads /\ Writes(d, b, u)
    BY <1>1, <1>2, ReplacementFacts, KeyTyped DEF Promote, Put, Writes
<1>4. /\ storage' \in [Key -> Uploads \cup {NoFile}] /\ storage'[<<d, b>>] = u
      /\ \A e \in Docs, y \in Parts : e # d \/ y # b => storage'[<<e, y>>] = storage[<<e, y>>]
    <2>1. u \in Uploads \cup {NoFile}
        BY <1>3
    <2>. QED
        BY <1>2, <1>3, <2>1, WriteAt
<1>5. Staged(storage', d)
    <2>1. \A y \in Parts \ {b} : storage'[<<d, y>>] = storage[<<d, y>>]
        BY <1>2, <1>4
    <2>. QED
        BY <1>2, <1>3, <1>4, <2>1, StagedWrite
<1>6. Confined(d)
    BY <1>1, <1>2, <1>4, <1>5 DEF Confined, TypeOK
<1>7. /\ s.step = "promoted" /\ s.doc = d /\ s.upload = u /\ s.name = tx[c].name /\ s.seen = tx[c].seen
    BY <1>1, <1>2, SteppedTyped
<1>8. mishap'[d] \cap {"overlap", "lost"} = {} => FileKept(d) /\ Keeps(storage', document'[d], s)
    <2>. SUFFICES ASSUME mishap[d] \cap {"overlap", "lost"} = {} PROVE FileKept(d) /\ Keeps(storage', document'[d], s)
        BY <1>1
    <2>1. document'[d].status = "LIVE" => document'[d].file = u
        BY <1>1, <1>2 DEF Keeps
    <2>2. FileKept(d)
        BY <1>3, <1>4, <2>1 DEF FileKept
    <2>. QED
        BY <1>4, <1>7, <2>1, <2>2 DEF Keeps
<1>9. mishap'[d] = {} =>
        RowFollows(document'[d], s) /\ \A x \in Parts : storage'[<<d, x>>] = Expected(s, x)
    <2>. SUFFICES ASSUME mishap[d] = {}
                  PROVE  RowFollows(document'[d], s) /\ \A x \in Parts : storage'[<<d, x>>] = Expected(s, x)
        BY <1>1
    <2>1. RowFollows(document'[d], s)
        BY <1>1, <1>2, <1>7 DEF RowFollows
    <2>2. ASSUME NEW x \in Parts PROVE storage'[<<d, x>>] = Expected(s, x)
        <3>1. storage[<<d, x>>] = Expected(tx[c], x)
            BY <1>2
        <3>2. CASE x = b
            BY <1>3, <1>4, <1>7, <3>2 DEF Expected
        <3>3. CASE x # b
            BY <1>1, <1>2, <1>4, <1>7, <3>1, <3>3 DEF Expected
        <3>. QED
            BY <3>2, <3>3
    <2>. QED
        BY <2>1, <2>2
<1>. HIDE DEF s
<1>10. s = Stepped(c, "promoted")
    BY DEF s
<1>. QED
    BY <1>1, <1>3, <1>6, <1>8, <1>9, <1>10, GotoConfined

\* The promotion may have stored the object although it raised; if it did, the object is
\* the file of the row.
LEMMA PromotionFailsKeeps ==
    ASSUME DocumentsSound, NEW c \in Clients, PromotionFails(c)
    PROVE  DocumentsSound'
<1>. DEFINE d == tx[c].doc  u == tx[c].upload  b == BaseName[tx[c].name]
<1>1. /\ tx[c].step = "committed" /\ End(c) /\ mishap' = Note(d, {"logged"})
      /\ document' = document /\ used' = used
      /\ storage' = storage \/ storage' = Put(StorageKey(d, tx[c].name), u)
    BY DEF PromotionFails
<1>2. /\ TypeOK /\ tx[c] \in Session /\ d \in Docs /\ Staged(storage, d) /\ document[d].file \in used \cup {NoFile}
      /\ mishap[d] \cap {"overlap", "lost"} = {} =>
           /\ Keeps(storage, document[d], tx[c])
           /\ document[d].status = "LIVE" /\ document[d].file # NoFile =>
                \E x \in Parts : storage[<<d, x>>] = document[d].file
    BY <1>1, OpenFacts
<1>3. /\ u \in Uploads /\ u \in Parts /\ b \in Parts /\ b # u /\ b \notin Uploads
      /\ StorageKey(d, tx[c].name) = <<d, b>>
    BY <1>1, <1>2, ReplacementFacts, KeyTyped
<1>4. /\ storage' \in [Key -> Uploads \cup {NoFile}] /\ storage'[<<d, b>>] \in {storage[<<d, b>>], u}
      /\ \A e \in Docs, y \in Parts : e # d \/ y # b => storage'[<<e, y>>] = storage[<<e, y>>]
    <2>1. CASE storage' = storage
        BY <1>2, <2>1 DEF TypeOK
    <2>2. CASE storage' = Put(StorageKey(d, tx[c].name), u)
        <3>1. Writes(d, b, u) /\ u \in Uploads \cup {NoFile}
            BY <1>3, <2>2 DEF Put, Writes
        <3>. QED
            BY <1>2, <1>3, <3>1, WriteAt
    <2>. QED
        BY <1>1, <2>1, <2>2
<1>5. Staged(storage', d)
    BY <1>2, <1>3, <1>4 DEF Staged, Parts
<1>6. /\ mishap' \in [Docs -> SUBSET Mishaps] /\ mishap'[d] = mishap[d] \cup {"logged"}
      /\ \A e \in Docs \ {d} : mishap'[e] = mishap[e]
    BY <1>1, <1>2, NoteEffect
<1>7. Confined(d)
    BY <1>1, <1>2, <1>4, <1>5, <1>6 DEF Confined, TypeOK
<1>8. mishap'[d] \cap {"overlap", "lost"} = {} => FileKept(d)
    <2>. SUFFICES ASSUME mishap[d] \cap {"overlap", "lost"} = {}, document[d].status = "LIVE", document[d].file # NoFile
                  PROVE  \E x \in Parts : storage'[<<d, x>>] = document[d].file
        BY <1>1, <1>6 DEF FileKept
    <2>1. document[d].file = u /\ storage[<<d, u>>] = u
        BY <1>1, <1>2 DEF Keeps
    <2>2. storage'[<<d, u>>] = u
        BY <1>2, <1>3, <1>4, <2>1
    <2>. QED
        BY <1>3, <2>1, <2>2
<1>9. mishap'[d] # {}
    BY <1>6
<1>. QED
    BY <1>1, <1>7, <1>8, <1>9, EndConfined

LEMMA RemoveStagedKeeps ==
    ASSUME DocumentsSound, NEW c \in Clients, RemoveStaged(c)
    PROVE  DocumentsSound'
<1>. DEFINE d == tx[c].doc  u == tx[c].upload  b == BaseName[tx[c].name]  s == Stepped(c, "cleaned")
<1>1. tx[c].step = "promoted" /\ Goto(c, "cleaned") /\ document' = document /\ used' = used
    BY DEF RemoveStaged
<1>2. /\ TypeOK /\ tx[c] \in Session /\ d \in Docs /\ Staged(storage, d)
      /\ document[d].file \in used \cup {NoFile} /\ BaseName[tx[c].seen.file_name] \in Names
      /\ mishap[d] \cap {"overlap", "lost"} = {} => Keeps(storage, document[d], tx[c])
      /\ mishap[d] = {} =>
           RowFollows(document[d], tx[c]) /\ \A x \in Parts : storage[<<d, x>>] = Expected(tx[c], x)
    BY <1>1, OpenFacts
<1>3. /\ u \in used /\ u \in Parts /\ u \notin Names /\ b \in Parts /\ b # u /\ Cleanup(d, <<d, u>>)
    BY <1>1, ReplacementFacts DEF RemoveStaged
<1>4. Tidied(d, u)
    BY <1>2, <1>3, CleanupEffect
<1>5. Confined(d)
    BY <1>1, <1>2, <1>3, <1>4, TidiedConfined
<1>6. /\ s.step = "cleaned" /\ s.doc = d /\ s.upload = u /\ s.name = tx[c].name /\ s.seen = tx[c].seen
    BY <1>1, <1>2, SteppedTyped
<1>7. mishap'[d] \cap {"overlap", "lost"} = {} => FileKept(d) /\ Keeps(storage', document'[d], s)
    <2>. SUFFICES ASSUME mishap'[d] \cap {"overlap", "lost"} = {} PROVE FileKept(d) /\ Keeps(storage', document'[d], s)
        OBVIOUS
    <2>1. mishap[d] \cap {"overlap", "lost"} = {} /\ storage'[<<d, b>>] = storage[<<d, b>>]
        BY <1>3, <1>4 DEF Tidied
    <2>2. storage'[<<d, b>>] = u /\ (document'[d].status = "LIVE" => document'[d].file = u)
        BY <1>1, <1>2, <2>1 DEF Keeps
    <2>3. FileKept(d)
        BY <1>3, <2>2 DEF FileKept
    <2>. QED
        BY <1>6, <2>2, <2>3 DEF Keeps
<1>8. mishap'[d] = {} =>
        RowFollows(document'[d], s) /\ \A x \in Parts : storage'[<<d, x>>] = Expected(s, x)
    <2>. SUFFICES ASSUME mishap'[d] = {}
                  PROVE  RowFollows(document'[d], s) /\ \A x \in Parts : storage'[<<d, x>>] = Expected(s, x)
        OBVIOUS
    <2>1. mishap[d] = {} /\ storage'[<<d, u>>] = NoFile /\ \A y \in Parts \ {u} : storage'[<<d, y>>] = storage[<<d, y>>]
        BY <1>4 DEF Tidied
    <2>2. RowFollows(document'[d], s)
        BY <1>1, <1>2, <1>6, <2>1 DEF RowFollows
    <2>3. ASSUME NEW x \in Parts PROVE storage'[<<d, x>>] = Expected(s, x)
        <3>1. storage[<<d, x>>] = Expected(tx[c], x)
            BY <1>2, <2>1
        <3>2. CASE x = u
            <4>1. Expected(s, x) = RowAt(tx[c].seen, x)
                BY <1>3, <1>6, <3>2 DEF Expected
            <4>2. RowAt(tx[c].seen, x) = NoFile
                BY <1>2, <1>3, <3>2 DEF RowAt
            <4>. QED
                BY <2>1, <3>2, <4>1, <4>2
        <3>3. CASE x # u
            <4>1. Expected(s, x) = Expected(tx[c], x)
                BY <1>1, <1>6, <3>3 DEF Expected
            <4>. QED
                BY <2>1, <3>1, <3>3, <4>1
        <3>. QED
            BY <3>2, <3>3
    <2>. QED
        BY <2>2, <2>3
<1>. HIDE DEF s
<1>9. s = Stepped(c, "cleaned")
    BY DEF s
<1>. QED
    BY <1>1, <1>3, <1>5, <1>7, <1>8, <1>9, GotoConfined

LEMMA RemoveOldKeeps ==
    ASSUME DocumentsSound, NEW c \in Clients, RemoveOld(c)
    PROVE  DocumentsSound'
<1>. DEFINE d == tx[c].doc  u == tx[c].upload  b == BaseName[tx[c].name]  o == BaseName[tx[c].seen.file_name]
<1>1. tx[c].step = "cleaned" /\ End(c) /\ document' = document /\ used' = used
    BY DEF RemoveOld
<1>2. /\ TypeOK /\ d \in Docs /\ Staged(storage, d) /\ document[d].file \in used \cup {NoFile}
      /\ mishap[d] \cap {"overlap", "lost"} = {} => Keeps(storage, document[d], tx[c])
      /\ mishap[d] = {} =>
           RowFollows(document[d], tx[c]) /\ \A x \in Parts : storage[<<d, x>>] = Expected(tx[c], x)
    BY <1>1, OpenFacts
<1>3. /\ u \in Uploads /\ b \in Parts /\ o \in Parts /\ tx[c].name \in Names
      /\ StorageKey(d, tx[c].name) = <<d, b>> /\ StorageKey(d, tx[c].seen.file_name) = <<d, o>>
    BY <1>1, ReplacementFacts
<1>4. IF o # b THEN Cleanup(d, <<d, o>>) ELSE storage' = storage /\ mishap' = mishap
    BY <1>3 DEF RemoveOld
<1>5. /\ Confined(d)
      /\ storage'[<<d, b>>] = storage[<<d, b>>]
      /\ mishap'[d] \cap {"overlap", "lost"} = {} => mishap[d] \cap {"overlap", "lost"} = {}
      /\ mishap'[d] = {} =>
           /\ mishap[d] = {} /\ (o # b => storage'[<<d, o>>] = NoFile)
           /\ \A y \in Parts \ {o} : storage'[<<d, y>>] = storage[<<d, y>>]
    <2>1. CASE o # b
        <3>1. Tidied(d, o)
            BY <1>2, <1>3, <1>4, <2>1, CleanupEffect
        <3>2. Confined(d)
            BY <1>1, <1>2, <1>3, <3>1, TidiedConfined
        <3>. QED
            BY <1>3, <2>1, <3>1, <3>2 DEF Tidied
    <2>2. CASE o = b
        <3>1. Confined(d)
            BY <1>1, <1>2, <1>4, <2>2 DEF Confined, TypeOK
        <3>. QED
            BY <1>4, <2>2, <3>1
    <2>. QED
        BY <2>1, <2>2
<1>6. mishap'[d] \cap {"overlap", "lost"} = {} => FileKept(d)
    BY <1>1, <1>2, <1>3, <1>5 DEF Keeps, FileKept
<1>7. mishap'[d] = {} => \A x \in Parts : storage'[<<d, x>>] = RowAt(document'[d], x)
    <2>. SUFFICES ASSUME mishap'[d] = {}, NEW x \in Parts PROVE storage'[<<d, x>>] = RowAt(document[d], x)
        BY <1>1
    <2>1. document[d] = NewRow(tx[c].name, u) /\ storage[<<d, x>>] = Expected(tx[c], x)
        BY <1>1, <1>2, <1>5 DEF RowFollows
    <2>2. RowAt(document[d], x) = IF x = b THEN u ELSE NoFile
        BY <1>3, <2>1, NewRowTyped DEF RowAt
    <2>3. Expected(tx[c], x) = IF x = b THEN u ELSE RowAt(tx[c].seen, x)
        BY <1>1 DEF Expected
    <2>4. x # o => RowAt(tx[c].seen, x) = NoFile
        BY DEF RowAt
    <2>5. CASE x = b
        BY <1>5, <2>1, <2>2, <2>3, <2>5
    <2>6. CASE x # b /\ x = o
        BY <1>5, <2>2, <2>6
    <2>7. CASE x # b /\ x # o
        BY <1>5, <2>1, <2>2, <2>3, <2>4, <2>7
    <2>. QED
        BY <2>5, <2>6, <2>7
<1>. QED
    BY <1>1, <1>5, <1>6, <1>7, EndConfined

-----------------------------------------------------------------------------
(* delete_document, whatever a foreign key keeps *)

LEMMA DroppedRow ==
    ASSUME TypeOK, NEW d \in Docs, document' = Dropped(d)
    PROVE  /\ document' \in [Docs -> DocumentRow] /\ document'[d].status = "DELETED"
           /\ document'[d].file = document[d].file
           /\ \A e \in Docs \ {d} : document'[e] = document[e]
<1>. DEFINE row == [document[d] EXCEPT !.status = "DELETED"]
<1>1. document[d] \in DocumentRow
    BY DEF TypeOK
<1>2. row \in DocumentRow /\ row.status = "DELETED" /\ row.file = document[d].file
    BY <1>1 DEF DocumentRow
<1>3. document' = [document EXCEPT ![d] = row]
    BY DEF Dropped
<1>. HIDE DEF row
<1>. QED
    BY <1>2, <1>3, RowWritten

LEMMA CommitDeletionKeeps ==
    ASSUME DocumentsSound, NEW c \in Clients, NEW restricted, CommitDeletion(c, restricted)
    PROVE  DocumentsSound'
<1>. DEFINE d == tx[c].doc  s == Stepped(c, "deleted")
<1>1. tx[c].step = "deleting" /\ storage' = storage /\ used' = used /\ mishap' = mishap
    BY DEF CommitDeletion
<1>2. /\ TypeOK /\ d \in Docs /\ Staged(storage, d) /\ document[d].file \in used \cup {NoFile}
      /\ mishap[d] \cap {"overlap", "lost"} = {} => Keeps(storage, document[d], tx[c])
      /\ mishap[d] = {} =>
           RowFollows(document[d], tx[c]) /\ \A x \in Parts : storage[<<d, x>>] = Expected(tx[c], x)
    BY <1>1, OpenFacts
<1>3. CASE document' = Dropped(d) /\ Goto(c, "deleted")
    <2>1. /\ document' \in [Docs -> DocumentRow] /\ document'[d].status = "DELETED"
          /\ document'[d].file = document[d].file
          /\ \A e \in Docs \ {d} : document'[e] = document[e]
        BY <1>2, <1>3, DroppedRow
    <2>2. Confined(d)
        BY <1>1, <1>2, <2>1 DEF Confined, TypeOK
    <2>3. s.step = "deleted" /\ s.name = tx[c].name /\ s.seen = tx[c].seen
        BY <1>2, <1>3, SteppedTyped
    <2>4. FileKept(d) /\ Keeps(storage', document'[d], s)
        BY <2>1, <2>3 DEF FileKept, Keeps
    <2>5. mishap'[d] = {} =>
            RowFollows(document'[d], s) /\ \A x \in Parts : storage'[<<d, x>>] = Expected(s, x)
        <3>1. mishap[d] = {} => RowFollows(document'[d], s)
            BY <1>1, <1>2, <2>1, <2>3 DEF RowFollows
        <3>2. \A x \in Parts : Expected(s, x) = Expected(tx[c], x)
            BY <1>1, <2>3 DEF Expected
        <3>. QED
            BY <1>1, <1>2, <3>1, <3>2
    <2>. HIDE DEF s
    <2>6. s = Stepped(c, "deleted")
        BY DEF s
    <2>. QED
        BY <1>1, <1>3, <2>2, <2>4, <2>5, <2>6, GotoConfined
<1>4. CASE document[d].status # "LIVE" /\ document' = document /\ End(c)
    <2>1. Confined(d)
        BY <1>1, <1>2, <1>4 DEF Confined, TypeOK
    <2>2. FileKept(d)
        BY <1>4 DEF FileKept
    <2>3. mishap'[d] # {}
        BY <1>1, <1>2, <1>4 DEF RowFollows
    <2>. QED
        BY <1>1, <1>4, <2>1, <2>2, <2>3, EndConfined
<1>. QED
    BY <1>3, <1>4 DEF CommitDeletion, Live

LEMMA DeletionFailsKeeps ==
    ASSUME DocumentsSound, NEW c \in Clients, DeletionFails(c)
    PROVE  DocumentsSound'
<1>. DEFINE d == tx[c].doc
<1>1. /\ tx[c].step = "deleting" /\ End(c) /\ document' = document /\ storage' = storage /\ used' = used
      /\ mishap' = mishap
    BY DEF DeletionFails
<1>2. /\ TypeOK /\ d \in Docs /\ Staged(storage, d) /\ document[d].file \in used \cup {NoFile}
      /\ mishap[d] \cap {"overlap", "lost"} = {} =>
           (document[d].status = "LIVE" /\ document[d].file # NoFile =>
                \E x \in Parts : storage[<<d, x>>] = document[d].file)
      /\ mishap[d] = {} =>
           RowFollows(document[d], tx[c]) /\ \A x \in Parts : storage[<<d, x>>] = Expected(tx[c], x)
    BY <1>1, OpenFacts
<1>3. Confined(d)
    BY <1>1, <1>2 DEF Confined, TypeOK
<1>4. mishap'[d] \cap {"overlap", "lost"} = {} => FileKept(d)
    BY <1>1, <1>2 DEF FileKept
<1>5. mishap'[d] = {} => \A x \in Parts : storage'[<<d, x>>] = RowAt(document'[d], x)
    BY <1>1, <1>2 DEF RowFollows, Expected
<1>. QED
    BY <1>1, <1>3, <1>4, <1>5, EndConfined

LEMMA DeletionLostKeeps ==
    ASSUME DocumentsSound, NEW c \in Clients, NEW restricted, DeletionLost(c, restricted)
    PROVE  DocumentsSound'
<1>. DEFINE d == tx[c].doc
<1>1. /\ tx[c].step = "deleting" /\ End(c) /\ document' = Dropped(d) /\ storage' = storage /\ used' = used
      /\ mishap' = Note(d, {"lost"})
    BY DEF DeletionLost
<1>2. TypeOK /\ d \in Docs /\ Staged(storage, d) /\ document[d].file \in used \cup {NoFile}
    BY <1>1, OpenFacts
<1>3. /\ document' \in [Docs -> DocumentRow] /\ document'[d].status = "DELETED"
      /\ document'[d].file = document[d].file
      /\ \A e \in Docs \ {d} : document'[e] = document[e]
    BY <1>1, <1>2, DroppedRow
<1>4. /\ mishap' \in [Docs -> SUBSET Mishaps] /\ mishap'[d] = mishap[d] \cup {"lost"}
      /\ \A e \in Docs \ {d} : mishap'[e] = mishap[e]
    BY <1>1, <1>2, NoteEffect
<1>5. Confined(d) /\ FileKept(d) /\ mishap'[d] # {}
    BY <1>1, <1>2, <1>3, <1>4 DEF Confined, TypeOK, FileKept
<1>. QED
    BY <1>1, <1>5, EndConfined

LEMMA RemoveDeletedKeeps ==
    ASSUME DocumentsSound, NEW c \in Clients, RemoveDeleted(c)
    PROVE  DocumentsSound'
<1>. DEFINE d == tx[c].doc  b == BaseName[tx[c].name]
<1>1. tx[c].step = "deleted" /\ End(c) /\ document' = document /\ used' = used
    BY DEF RemoveDeleted
<1>2. /\ TypeOK /\ tx[c] \in Session /\ d \in Docs /\ Staged(storage, d) /\ document[d].file \in used \cup {NoFile}
      /\ b \in Parts
      /\ mishap[d] \cap {"overlap", "lost"} = {} => Keeps(storage, document[d], tx[c])
      /\ mishap[d] = {} =>
           RowFollows(document[d], tx[c]) /\ \A x \in Parts : storage[<<d, x>>] = Expected(tx[c], x)
    BY <1>1, OpenFacts DEF Parts
<1>3. Cleanup(d, <<d, b>>)
    <2>1. tx[c].name \in Names
        BY <1>2 DEF Session
    <2>. QED
        BY <1>2, <2>1, KeyTyped DEF RemoveDeleted
<1>4. Tidied(d, b)
    BY <1>2, <1>3, CleanupEffect
<1>5. Confined(d)
    BY <1>1, <1>2, <1>4, TidiedConfined
<1>6. mishap'[d] \cap {"overlap", "lost"} = {} => FileKept(d)
    BY <1>1, <1>2, <1>4 DEF Tidied, Keeps, FileKept
<1>7. mishap'[d] = {} => \A x \in Parts : storage'[<<d, x>>] = RowAt(document'[d], x)
    <2>. SUFFICES ASSUME mishap'[d] = {}, NEW x \in Parts PROVE storage'[<<d, x>>] = RowAt(document[d], x)
        BY <1>1
    <2>1. mishap[d] = {} /\ storage'[<<d, b>>] = NoFile /\ \A y \in Parts \ {b} : storage'[<<d, y>>] = storage[<<d, y>>]
        BY <1>4 DEF Tidied
    <2>2. /\ document[d].status = "DELETED" /\ tx[c].name = tx[c].seen.file_name
          /\ storage[<<d, x>>] = Expected(tx[c], x)
        BY <1>1, <1>2, <2>1 DEF RowFollows
    <2>3. Expected(tx[c], x) = RowAt(tx[c].seen, x)
        BY <1>1 DEF Expected
    <2>4. x # b => RowAt(tx[c].seen, x) = NoFile
        BY <2>2 DEF RowAt
    <2>5. RowAt(document[d], x) = NoFile
        BY <2>2 DEF RowAt
    <2>. QED
        BY <2>1, <2>2, <2>3, <2>4, <2>5
<1>. QED
    BY <1>1, <1>5, <1>6, <1>7, EndConfined

LEMMA CrashKeeps ==
    ASSUME DocumentsSound, NEW c \in Clients, Crash(c)
    PROVE  DocumentsSound'
<1>. DEFINE d == tx[c].doc
<1>1. /\ tx[c].step # "idle" /\ End(c) /\ mishap' = Note(d, {"crash"})
      /\ document' = document /\ storage' = storage /\ used' = used
    BY DEF Crash
<1>2. /\ TypeOK /\ d \in Docs /\ Staged(storage, d) /\ document[d].file \in used \cup {NoFile}
      /\ mishap[d] \cap {"overlap", "lost"} = {} =>
           (document[d].status = "LIVE" /\ document[d].file # NoFile =>
                \E x \in Parts : storage[<<d, x>>] = document[d].file)
    BY <1>1, OpenFacts
<1>3. Confined(d) /\ mishap'[d] = mishap[d] \cup {"crash"}
    BY <1>1, <1>2, NotedConfined
<1>4. mishap'[d] \cap {"overlap", "lost"} = {} => FileKept(d)
    BY <1>1, <1>2, <1>3 DEF FileKept
<1>5. mishap'[d] # {}
    BY <1>3
<1>. QED
    BY <1>1, <1>3, <1>4, <1>5, EndConfined

-----------------------------------------------------------------------------
(* The theorems *)

LEMMA InitSound == Init => DocumentsSound
<1>. SUFFICES ASSUME Init PROVE DocumentsSound
    OBVIOUS
<1>1. TypeOK
    BY RowTyped DEF Init, TypeOK
<1>2. \A c \in Clients : SessionSound(c)
    BY RowTyped DEF Init, SessionSound
<1>3. FilesUsed
    BY RowTyped DEF Init, FilesUsed
<1>4. ASSUME NEW d \in Docs PROVE Staged(storage, d) /\ Kept(d) /\ Layout(d)
    <2>1. \A x \in Parts : storage[<<d, x>>] = NoFile /\ RowAt(document[d], x) = NoFile
        BY KeyTyped, RowTyped DEF Init, RowAt
    <2>2. \A c \in Clients : tx[c].doc # d
        BY RowTyped, AbsentAssumption DEF Init
    <2>3. Staged(storage, d)
        BY <2>1 DEF Staged, Parts
    <2>4. document[d].status = "NONE"
        BY RowTyped DEF Init
    <2>. QED
        BY <2>1, <2>2, <2>3, <2>4 DEF Kept, Layout, Single
<1>. QED
    BY <1>1, <1>2, <1>3, <1>4 DEF DocumentsSound

\* The steps of a request, whatever documents a foreign key keeps.
LEMMA RequestSound ==
    ASSUME DocumentsSound, NEW c \in Clients, NEW restricted,
           CreateStep(c) \/ ReplaceStep(c) \/ DeleteStep(c, restricted) \/ Crash(c)
    PROVE  DocumentsSound'
<1>1. CASE CreateStep(c)
    BY <1>1, UploadNewKeeps, UploadStrandedKeeps, CommitNewKeeps, NewFailsKeeps DEF CreateStep
<1>2. CASE ReplaceStep(c)
    BY <1>2, StageKeeps, StageStrandedKeeps, CommitReplacementKeeps, ReplacementFailsKeeps, ReplacementLostKeeps, PromoteKeeps,
       PromotionFailsKeeps, RemoveStagedKeeps, RemoveOldKeeps DEF ReplaceStep
<1>3. CASE DeleteStep(c, restricted)
    BY <1>3, LoadForDeleteKeeps, CommitDeletionKeeps, DeletionFailsKeeps, DeletionLostKeeps, RemoveDeletedKeeps
       DEF DeleteStep
<1>. QED
    BY <1>1, <1>2, <1>3, CrashKeeps

LEMMA DocumentsUnchanged == DocumentsSound /\ UNCHANGED vars => DocumentsSound'
BY DEF vars, DocumentsSound, TypeOK, SessionSound, FilesUsed, Staged, Kept, Single, Keeps, Layout, RowFollows,
       RowAt, Expected, OpenOn

\* The invariant: requests, rows and objects of every document fit together, after any
\* failed call of the object store or the database and any crash.
THEOREM DocumentsStaySound == Spec => []DocumentsSound
<1>1. DocumentsSound /\ [Next]_vars => DocumentsSound'
    <2>. SUFFICES ASSUME DocumentsSound, [Next]_vars PROVE DocumentsSound'
        OBVIOUS
    <2>1. CASE UNCHANGED vars
        BY <2>1, DocumentsUnchanged
    <2>2. ASSUME NEW d \in Docs, NEW name \in Names, CreateWithoutFile(d, name) PROVE DocumentsSound'
        BY <2>2, CreateWithoutFileKeeps
    <2>3. ASSUME NEW c \in Clients, CreateStep(c) \/ ReplaceStep(c) \/ DeleteStep(c, {}) \/ Crash(c)
          PROVE  DocumentsSound'
        BY <2>3, RequestSound
    <2>. QED
        BY <2>1, <2>2, <2>3 DEF Next
<1>. QED
    BY InitSound, <1>1, PTL DEF Spec

\* FileRecoverable: if requests did not overlap and no commit was lost, the file of the
\* last committed request is under some key of its document (create_document,
\* replace_document_file, delete_document).
THEOREM FilesStayRecoverable == Spec => []FileRecoverable
<1>1. DocumentsSound => FileRecoverable
    BY DEF DocumentsSound, Kept, FileRecoverable, Live, Parts
<1>. QED
    BY <1>1, DocumentsStaySound, PTL

\* LeftoversLogged: what is left in the bucket besides the file of the row has been
\* logged by the clean-up handlers.
THEOREM LeftoversStayLogged == Spec => []LeftoversLogged
<1>1. ASSUME DocumentsSound PROVE LeftoversLogged
    <2>. SUFFICES ASSUME NEW d \in Docs, OpenOn(d) = {}, mishap[d] = {}
                  PROVE  IF Live(d) /\ document[d].file # NoFile
                         THEN ObjectsOf(d) = {BaseName[document[d].file_name]}
                              /\ storage[RowKey(d)] = document[d].file
                         ELSE ObjectsOf(d) = {}
        BY DEF LeftoversLogged
    <2>1. \A x \in Parts : storage[<<d, x>>] = RowAt(document[d], x)
        BY <1>1 DEF DocumentsSound, Layout
    <2>2. document[d].file_name \in Names
        BY <1>1 DEF DocumentsSound, TypeOK, DocumentRow
    <2>3. BaseName[document[d].file_name] \in Parts /\ RowKey(d) = <<d, BaseName[document[d].file_name]>>
        BY <2>2, KeyTyped DEF RowKey, Parts
    <2>. QED
        BY <2>1, <2>3 DEF RowAt, ObjectsOf, Live, Parts
<1>. QED
    BY <1>1, DocumentsStaySound, PTL

Protected(d) ==
    Live(d) /\ storage'[RowKey(d)] # storage[RowKey(d)] => \E c \in OpenOn(d) : Committed(c)

\* A step that writes under one key at most.
LEMMA ProtectedAt ==
    ASSUME TypeOK, NEW e \in Docs, NEW x \in Parts,
           \A f \in Docs, y \in Parts : f # e \/ y # x => storage'[<<f, y>>] = storage[<<f, y>>],
           document[e].status # "LIVE" \/ x \notin Names \/ \E c \in OpenOn(e) : Committed(c),
           NEW d \in Docs
    PROVE  Protected(d)
<1>1. document[d].file_name \in Names
    BY DEF TypeOK, DocumentRow
<1>2. RowKey(d) = <<d, BaseName[document[d].file_name]>> /\ BaseName[document[d].file_name] \in Names
    BY <1>1, KeyTyped DEF RowKey
<1>3. CASE d # e
    BY <1>2, <1>3 DEF Protected, Parts
<1>4. CASE d = e
    BY <1>2, <1>4 DEF Protected, Live, Parts
<1>. QED
    BY <1>3, <1>4

LEMMA CleanupAt ==
    ASSUME TypeOK, NEW e \in Docs, NEW x \in Parts, Cleanup(e, <<e, x>>)
    PROVE  \A f \in Docs, y \in Parts : f # e \/ y # x => storage'[<<f, y>>] = storage[<<f, y>>]
BY TriedAt DEF Cleanup, Tried

LEMMA UploadProtects ==
    ASSUME DocumentsSound, NEW c \in Clients, NEW e \in Docs, NEW name \in Names, NEW u \in Uploads,
           UploadNew(c, e, name, u) \/ Stage(c, e, name, u), NEW d \in Docs
    PROVE  Protected(d)
<1>1. TypeOK /\ u \in Uploads \cup {NoFile}
    BY DEF DocumentsSound
<1>2. CASE UploadNew(c, e, name, u)
    <2>1. document[e] = UnusedRow /\ Writes(e, BaseName[name], u) /\ BaseName[name] \in Parts
        BY <1>2, KeyTyped DEF UploadNew, Put, Writes, Parts
    <2>2. document[e].status # "LIVE"
        BY <2>1, RowTyped
    <2>3. \A f \in Docs, y \in Parts : f # e \/ y # BaseName[name] => storage'[<<f, y>>] = storage[<<f, y>>]
        BY <1>1, <2>1, WriteAt
    <2>. QED
        BY <1>1, <2>1, <2>2, <2>3, ProtectedAt
<1>3. CASE Stage(c, e, name, u)
    <2>1. Writes(e, u, u) /\ u \in Parts /\ u \notin Names
        BY <1>3, KeyTyped DEF Stage, Put, Writes, Parts
    <2>2. \A f \in Docs, y \in Parts : f # e \/ y # u => storage'[<<f, y>>] = storage[<<f, y>>]
        BY <1>1, <2>1, WriteAt
    <2>. QED
        BY <1>1, <2>1, <2>2, ProtectedAt
<1>. QED
    BY <1>2, <1>3

LEMMA StrandProtects ==
    ASSUME DocumentsSound, NEW c \in Clients, NEW e \in Docs, NEW u \in Uploads,
           (\E name \in Names : UploadStranded(c, e, name, u)) \/ StageStranded(c, e, u), NEW d \in Docs
    PROVE  Protected(d)
<1>1. TypeOK /\ u \in Uploads \cup {NoFile}
    BY DEF DocumentsSound
<1>2. ASSUME NEW name \in Names, UploadStranded(c, e, name, u) PROVE Protected(d)
    <2>1. document[e].status # "LIVE" /\ Writes(e, BaseName[name], u) /\ BaseName[name] \in Parts
        BY <1>2, KeyTyped, RowTyped DEF UploadStranded, Strand, Put, Writes, Parts
    <2>2. \A f \in Docs, y \in Parts : f # e \/ y # BaseName[name] => storage'[<<f, y>>] = storage[<<f, y>>]
        BY <1>1, <2>1, WriteAt
    <2>. QED
        BY <1>1, <2>1, <2>2, ProtectedAt
<1>3. CASE StageStranded(c, e, u)
    <2>1. Writes(e, u, u) /\ u \in Parts /\ u \notin Names
        BY <1>3, KeyTyped DEF StageStranded, Strand, Put, Writes, Parts
    <2>2. \A f \in Docs, y \in Parts : f # e \/ y # u => storage'[<<f, y>>] = storage[<<f, y>>]
        BY <1>1, <2>1, WriteAt
    <2>. QED
        BY <1>1, <2>1, <2>2, ProtectedAt
<1>. QED
    BY <1>2, <1>3

LEMMA NewProtects ==
    ASSUME DocumentsSound, NEW c \in Clients, NewFails(c) \/ NewLost(c), NEW d \in Docs
    PROVE  Protected(d)
<1>. DEFINE e == tx[c].doc  b == BaseName[tx[c].name]
<1>1. tx[c].step = "uploaded"
    BY DEF NewFails, NewLost
<1>2. TypeOK /\ tx[c] \in Session /\ e \in Docs /\ SessionSound(c) /\ b \in Parts
    BY <1>1, OpenFacts DEF Parts
<1>3. document[e].status # "LIVE" /\ StorageKey(e, tx[c].name) = <<e, b>>
    BY <1>1, <1>2, RowTyped, KeyTyped DEF SessionSound, Session
<1>4. \A f \in Docs, y \in Parts : f # e \/ y # b => storage'[<<f, y>>] = storage[<<f, y>>]
    <2>1. CASE NewFails(c)
        <3>1. Cleanup(e, <<e, b>>)
            BY <1>3, <2>1 DEF NewFails
        <3>. QED
            BY <1>2, <3>1, CleanupAt
    <2>2. CASE NewLost(c)
        <3>1. storage' \in Tried(<<e, b>>)
            BY <1>3, <2>2 DEF NewLost
        <3>. QED
            BY <1>2, <3>1, TriedAt
    <2>. QED
        BY <2>1, <2>2
<1>. QED
    BY <1>2, <1>3, <1>4, ProtectedAt

LEMMA StagedProtects ==
    ASSUME DocumentsSound, NEW c \in Clients, ReplacementFails(c) \/ ReplacementLost(c), NEW d \in Docs
    PROVE  Protected(d)
<1>. DEFINE e == tx[c].doc  u == tx[c].upload
<1>1. tx[c].step = "staged"
    BY DEF ReplacementFails, ReplacementLost
<1>2. TypeOK /\ e \in Docs
    BY <1>1, OpenFacts
<1>3. u \in Parts /\ u \notin Names /\ StagingKey(e, u) = <<e, u>>
    BY <1>1, ReplacementFacts
<1>4. \A f \in Docs, y \in Parts : f # e \/ y # u => storage'[<<f, y>>] = storage[<<f, y>>]
    <2>1. CASE ReplacementFails(c)
        <3>1. Cleanup(e, <<e, u>>)
            BY <1>3, <2>1 DEF ReplacementFails
        <3>. QED
            BY <1>2, <1>3, <3>1, CleanupAt
    <2>2. CASE ReplacementLost(c)
        <3>1. storage' \in Tried(<<e, u>>)
            BY <1>3, <2>2 DEF ReplacementLost
        <3>. QED
            BY <1>2, <1>3, <3>1, TriedAt
    <2>. QED
        BY <2>1, <2>2
<1>. QED
    BY <1>2, <1>3, <1>4, ProtectedAt

\* After its commit a request may touch the file, but only of its own document.
LEMMA CommittedProtects ==
    ASSUME DocumentsSound, NEW c \in Clients, NEW d \in Docs,
           Promote(c) \/ PromotionFails(c) \/ RemoveStaged(c) \/ RemoveOld(c) \/ RemoveDeleted(c)
    PROVE  Protected(d)
<1>. DEFINE e == tx[c].doc
<1>1. Committed(c) /\ tx[c].step # "idle"
    BY DEF Promote, PromotionFails, RemoveStaged, RemoveOld, RemoveDeleted, Committed
<1>2. TypeOK /\ tx[c] \in Session /\ e \in Docs /\ BaseName[tx[c].name] \in Parts
    BY <1>1, OpenFacts DEF Parts
<1>3. \E k \in OpenOn(e) : Committed(k)
    BY <1>1 DEF OpenOn
<1>4. PICK x \in Parts : \A f \in Docs, y \in Parts : f # e \/ y # x => storage'[<<f, y>>] = storage[<<f, y>>]
    <2>1. CASE Promote(c) \/ PromotionFails(c)
        <3>1. /\ storage' = storage \/ Writes(e, BaseName[tx[c].name], tx[c].upload)
              /\ tx[c].upload \in Uploads \cup {NoFile}
            BY <1>2, <2>1, ReplacementFacts DEF Promote, PromotionFails, Put, Writes
        <3>2. CASE storage' = storage
            BY <1>2, <3>2
        <3>3. CASE Writes(e, BaseName[tx[c].name], tx[c].upload)
            BY <1>2, <3>1, <3>3, WriteAt
        <3>. QED
            BY <3>1, <3>2, <3>3
    <2>2. CASE RemoveStaged(c)
        <3>1. tx[c].upload \in Parts /\ Cleanup(e, <<e, tx[c].upload>>)
            BY <2>2, ReplacementFacts DEF RemoveStaged
        <3>. QED
            BY <1>2, <3>1, CleanupAt
    <2>3. CASE RemoveOld(c)
        <3>1. /\ BaseName[tx[c].seen.file_name] \in Parts
              /\ storage' = storage \/ Cleanup(e, <<e, BaseName[tx[c].seen.file_name]>>)
            BY <2>3, ReplacementFacts DEF RemoveOld
        <3>2. CASE storage' = storage
            BY <3>1, <3>2
        <3>3. CASE Cleanup(e, <<e, BaseName[tx[c].seen.file_name]>>)
            BY <1>2, <3>1, <3>3, CleanupAt
        <3>. QED
            BY <3>1, <3>2, <3>3
    <2>4. CASE RemoveDeleted(c)
        <3>1. Cleanup(e, <<e, BaseName[tx[c].name]>>)
            BY <1>2, <2>4, KeyTyped DEF RemoveDeleted, Session
        <3>. QED
            BY <1>2, <3>1, CleanupAt
    <2>. QED
        BY <2>1, <2>2, <2>3, <2>4
<1>. QED
    BY <1>2, <1>3, <1>4, ProtectedAt

\* The steps that do not call the object store.
LEMMA UntouchedProtects ==
    ASSUME storage' = storage, NEW d \in Docs
    PROVE  Protected(d)
BY DEF Protected

LEMMA RequestProtects ==
    ASSUME DocumentsSound, NEW c \in Clients, NEW restricted,
           CreateStep(c) \/ ReplaceStep(c) \/ DeleteStep(c, restricted) \/ Crash(c), NEW d \in Docs
    PROVE  Protected(d)
<1>1. CASE CreateStep(c)
    <2>1. CASE CommitNew(c)
        BY <2>1, UntouchedProtects DEF CommitNew
    <2>. QED
        BY <1>1, <2>1, UploadProtects, StrandProtects, NewProtects DEF CreateStep
<1>2. CASE ReplaceStep(c)
    <2>1. CASE CommitReplacement(c)
        BY <2>1, UntouchedProtects DEF CommitReplacement
    <2>. QED
        BY <1>2, <2>1, UploadProtects, StrandProtects, StagedProtects, CommittedProtects DEF ReplaceStep
<1>3. CASE DeleteStep(c, restricted)
    <2>1. CASE \E e \in Docs : LoadForDelete(c, e)
        BY <2>1, UntouchedProtects DEF LoadForDelete
    <2>2. CASE CommitDeletion(c, restricted) \/ DeletionFails(c) \/ DeletionLost(c, restricted)
        BY <2>2, UntouchedProtects DEF CommitDeletion, DeletionFails, DeletionLost
    <2>. QED
        BY <1>3, <2>1, <2>2, CommittedProtects DEF DeleteStep
<1>4. CASE Crash(c)
    BY <1>4, UntouchedProtects DEF Crash
<1>. QED
    BY <1>1, <1>2, <1>3, <1>4

\* LiveFileProtected: replace_document_file touches "the current file" only after its
\* commit, and no other request touches it, whatever fails and whatever overlaps.
THEOREM LiveFilesProtected == Spec => LiveFileProtected
<1>1. ASSUME DocumentsSound, [Next]_vars
      PROVE  [\A d \in Docs :
                Live(d) /\ storage'[RowKey(d)] # storage[RowKey(d)]
                    => \E c \in OpenOn(d) : Committed(c)]_vars
    <2>. SUFFICES ASSUME Next, NEW d \in Docs PROVE Protected(d)
        BY <1>1 DEF Protected
    <2>1. ASSUME NEW e \in Docs, NEW name \in Names, CreateWithoutFile(e, name) PROVE Protected(d)
        BY <2>1, UntouchedProtects DEF CreateWithoutFile
    <2>2. ASSUME NEW c \in Clients, CreateStep(c) \/ ReplaceStep(c) \/ DeleteStep(c, {}) \/ Crash(c)
          PROVE  Protected(d)
        BY <1>1, <2>2, RequestProtects
    <2>. QED
        BY <2>1, <2>2 DEF Next
<1>. QED
    BY <1>1, DocumentsStaySound, PTL DEF Spec, LiveFileProtected
=================================================================================
