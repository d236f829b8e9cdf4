----------------------------- MODULE StoredFiles -----------------------------
(***************************************************************************)
(* The documents of clients and the files of spents: a row in Postgres and *)
(* a file in Dropbox (src/services/dropbox), written one after the other   *)
(* (src/api/client-document, src/api/spent).  An operator is the set of    *)
(* sequences of statements its handler may send, given what it reads now.  *)
(*                                                                         *)
(* Dropbox may do what it is asked, refuse it, or do it and not answer.    *)
(***************************************************************************)
EXTENDS BackOfficeTables

VARIABLE store      \* the paths under which Dropbox holds a file

(* getClientDocumentFilePath and getSpentFilePath.                          *)
Path(e, folder, x) == [ent |-> e, folder |-> folder, id |-> x]

DocumentPath(c, d) == Path(db.client[c].ent, c, d)
SpentPath(s)       == Path(db.supplier[db.spent[s].supplier].ent, "spents", s)

(* A step on Dropbox: what follows it if it fails, other than an error.     *)
Upload(t, p, undo) == [do |-> "upload", table |-> t, id |-> p.id, path |-> p, undo |-> undo]
Remove(t, p)       == [do |-> "remove", table |-> t, id |-> p.id, path |-> p, undo |-> <<>>]
RemoveFolder(t, e) == [do |-> "remove_folder", table |-> t, id |-> e, undo |-> <<>>]

OnStore(q)  == q.do \in {"upload", "remove", "remove_folder"}
Feasible(q) == q.do = "remove" => q.path \in store
Stored(q) ==
    CASE q.do = "upload" -> store \cup {q.path}
      [] q.do = "remove" -> store \ {q.path}
      [] q.do = "remove_folder" -> {p \in store : p.ent # q.id}

-----------------------------------------------------------------------------
(* mutant: a document stays when its file could not be uploaded *)
NoRollback(d) == <<>>

(* The row of a document that has no file is deleted again.                 *)
Rollback(d) == <<Delete("document", d)>>

CreateDocument ==
    {<<Insert("document", d, [client |-> c]),
       Upload("document", DocumentPath(c, d), Rollback(d))>> :
        c \in Live("client"), d \in Fresh("document")}

(* Only the name changes.                                                   *)
UpdateDocument ==
    {<<Update("document", d, <<>>)>> : d \in Live("document")}

DeleteDocument ==
    {<<Remove("document", DocumentPath(db.document[d].client, d)),
       Delete("document", d)>> : d \in Live("document")}

-----------------------------------------------------------------------------
(* The flag of a spent is saved with the rest of the row as it was read.    *)
Flagged(s, b) == Update("spent", s, [db.spent[s] EXCEPT !.file = b])

AddFileToSpent ==
    {<<Upload("spent", SpentPath(s), <<>>), Flagged(s, TRUE)>> : s \in Live("spent")}

(* What says it has no file has none removed.                               *)
FileOf(s) == IF db.spent[s].file THEN <<Remove("spent", SpentPath(s))>> ELSE <<>>

RemoveFileFromSpent == {FileOf(s) \o <<Flagged(s, FALSE)>> : s \in Live("spent")}

DeleteSpent == {FileOf(s) \o <<Delete("spent", s)>> : s \in Live("spent")}
=============================================================================
