------------------------------ MODULE Documents ------------------------------
(***************************************************************************)
(* What an owner does to documents: the hand-off of a file staged in the   *)
(* browser (staged-file.ts, staged-handoff.ts), createDocumentForUser and  *)
(* the two callers that create (createStagedDocument, POST /api/v1/shares),*)
(* the two that replace (replaceDocumentAction, the API route), deletion,  *)
(* and the attachments.  A document is a row of the table documents and an *)
(* object in R2; no transaction spans the two, and each awaited call is an *)
(* action.  A request may die, or fail, at any of them.                    *)
(***************************************************************************)
EXTENDS Integers, FiniteSets

CONSTANTS Ops,     \* requests; a document has the name of the one that created it
          Files,   \* files staged in the browser, each with its creation identifier
          MaxFiles,\* MAX_ATTACHMENTS_PER_DOC
          Null

ASSUME DocumentsAssumption ==
    /\ MaxFiles \in Nat
    /\ Null \notin Ops \cup Files
    /\ Ops \cap Files = {}

VARIABLES op,       \* each request, its step, and what it has read
          docs,     \* the table documents, a row for each that was created
          objects,  \* the documents' objects in R2
          history,  \* the table document_versions
          attached, \* the table document_attachments, and
          stored,   \* the attachments' objects in R2
          staged,   \* the record in the browser's IndexedDB
          told,     \* documents reported to the browser or the caller
          raced     \* history: documents of which two dashboard replacements had
                    \* read one version at the same time

documentsVars == <<op, docs, objects, history, attached, stored, staged, told, raced>>

ObjectKeys == [doc : Ops, version : Nat, by : Ops \cup {Null}]
Bodies == Ops   \* a body is named for the request that carried it
RowSet == [version : Nat, key : ObjectKeys, score : Bodies, complete : BOOLEAN,
           file : Files \cup {Null}, deleted : BOOLEAN]
Records == [file : Files, token : Files \cup Ops]
Attachments == [doc : Ops, by : Ops, n : 1 .. MaxFiles]
Stopped(step) == [kind |-> "none", step |-> step]
StagedOps == [kind : {"staged"}, file : Files, doc : Ops,
              step : {"insert", "lookup", "upload", "rollback", "seed", "complete", "answer"}]
CreateOps == [kind : {"create"}, step : {"insert", "upload", "rollback", "seed", "share", "undo", "erase"}]
ReplaceOps == [kind : {"web", "replace"}, step : {"upload", "update", "tidy", "history"}, doc : Ops, read : Nat]
AttachOps == [kind : {"attach"}, step : {"insert", "upload", "rollback"}, doc : Ops, n : 1 .. MaxFiles, left : 1 .. MaxFiles]
DetachOps == [kind : {"detach"}, step : {"row", "object"}, att : Attachments]
OpSet == {Stopped("new"), Stopped("done")} \cup StagedOps \cup CreateOps \cup ReplaceOps \cup AttachOps \cup DetachOps

ASSUME NullAssumption == Null \notin RowSet \cup Records

DocumentsInit ==
    /\ op = [o \in Ops |-> Stopped("new")]
    /\ docs = [o \in Ops |-> Null]
    /\ objects = {} /\ history = {} /\ attached = {} /\ stored = {}
    /\ staged = Null
    /\ told = {}
    /\ raced = {}

Live(o) == op[o].kind # "none"
At(o, kind, step) == Live(o) /\ op[o].kind = kind /\ op[o].step = step
Free(o) == op[o] = Stopped("new")
GoTo(o, step) == op' = [op EXCEPT ![o].step = step]
Finish(o) == op' = [op EXCEPT ![o] = Stopped("done")]

\* The worker is gone, or a call it awaits fails and the request ends there:
\* whatever it has written stays.
Die(o) ==
    /\ Live(o)
    /\ Finish(o)
    /\ UNCHANGED <<docs, objects, history, attached, stored, staged, told, raced>>

Put(key, body) == {x \in objects : x.key # key} \cup {[key |-> key, body |-> body]}
Without(key) == {x \in objects : x.key # key}
KeyOf(doc, version) == [doc |-> doc, version |-> version, by |-> Null]

\* document_versions has one row for each version of a document that exists.
Recorded(doc, version, key) ==
    IF docs[doc] = Null \/ (\E h \in history : h.doc = doc /\ h.version = version) THEN history
    ELSE history \cup {[doc |-> doc, version |-> version, key |-> key]}
DeleteRow(doc) ==
    /\ docs' = [docs EXCEPT ![doc] = Null]
    /\ history' = {h \in history : h.doc # doc}
    /\ attached' = {a \in attached : a.doc # doc}

-----------------------------------------------------------------------------
(* The staged file.  A token is the file's own, or that of the request     *)
(* whose reservation rotated it; the mark `reserved`, which only decides   *)
(* whether a visit resumes by itself, is left out.                         *)

HasFile(d, file) == IF docs[d] = Null THEN FALSE ELSE docs[d].file = file
Unused(file) ==
    \A o \in Ops : ~HasFile(o, file) /\ ~(Live(o) /\ op[o].kind = "staged" /\ op[o].file = file)

\* Every file picked has a new identifier.
Stage(file) ==
    /\ IF staged = Null THEN TRUE ELSE staged.file # file
    /\ Unused(file)
    /\ staged' = [file |-> file, token |-> file]
    /\ UNCHANGED <<op, docs, objects, history, attached, stored, told, raced>>

\* The owner picks another file, or the record is a day old.
Forget ==
    /\ staged # Null
    /\ staged' = Null
    /\ UNCHANGED <<op, docs, objects, history, attached, stored, told, raced>>

\* reserveStagedFile: the tab that holds the current token rotates it, and the
\* file, still kept, is sent.
Reserve(o) ==
    /\ staged # Null
    /\ Free(o)
    /\ staged' = [staged EXCEPT !.token = o]
    /\ op' = [op EXCEPT ![o] = [kind |-> "staged", step |-> "insert", file |-> staged.file, doc |-> o]]
    /\ UNCHANGED <<docs, objects, history, attached, stored, told, raced>>

\* The answer arrives: the record goes if it is still this request's own.
MutCleared(o) == Null
Cleared(o) == IF staged # Null /\ staged.token = o THEN Null ELSE staged

Answer(o) ==
    /\ At(o, "staged", "answer")
    /\ Finish(o)
    /\ staged' = Cleared(o)
    /\ told' = told \cup {op[o].doc}
    /\ UNCHANGED <<docs, objects, history, attached, stored, raced>>

-----------------------------------------------------------------------------
(* createDocumentForUser.                                                  *)

BeginCreate(o) ==
    /\ Free(o)
    /\ op' = [op EXCEPT ![o] = [kind |-> "create", step |-> "insert"]]
    /\ UNCHANGED <<docs, objects, history, attached, stored, staged, told, raced>>

Creating(o, step) == At(o, "staged", step) \/ At(o, "create", step)
NewRow(o, file) ==
    [version |-> 1, key |-> KeyOf(o, 1), score |-> o, complete |-> FALSE, file |-> file, deleted |-> FALSE]

\* The unique index lets one row in for each creation identifier.
Insert(o) ==
    /\ Creating(o, "insert")
    /\ LET file == IF op[o].kind = "staged" THEN op[o].file ELSE Null
       IN  IF file # Null /\ \E d \in Ops : HasFile(d, file)
           THEN GoTo(o, "lookup") /\ UNCHANGED docs
           ELSE GoTo(o, "upload") /\ docs' = [docs EXCEPT ![o] = NewRow(o, file)]
    /\ UNCHANGED <<objects, history, attached, stored, staged, told, raced>>

\* A row alone is not a document: the request that inserted it may be at work.
MutWhole(row) == TRUE
Whole(row) == row.complete

Lookup(o) ==
    /\ At(o, "staged", "lookup")
    /\ \E d \in Ops :
          /\ HasFile(d, op[o].file) /\ Whole(docs[d])
          /\ op' = [op EXCEPT ![o].step = "answer", ![o].doc = d]
    /\ UNCHANGED <<docs, objects, history, attached, stored, staged, told, raced>>

\* An upload that is reported as failed may have stored the object.
Upload(o) ==
    /\ Creating(o, "upload")
    /\ \/ GoTo(o, "seed") /\ objects' = Put(KeyOf(o, 1), o)
       \/ GoTo(o, "rollback") /\ objects' \in {objects, Put(KeyOf(o, 1), o)}
    /\ UNCHANGED <<docs, history, attached, stored, staged, told, raced>>

Rollback(o) ==
    /\ Creating(o, "rollback")
    /\ DeleteRow(o)
    /\ Finish(o)
    /\ UNCHANGED <<objects, stored, staged, told, raced>>

\* seedFirstVersion, whose failure is swallowed; then the two callers part.
Seed(o) ==
    /\ Creating(o, "seed")
    /\ history' \in {history, Recorded(o, 1, KeyOf(o, 1))}
    /\ GoTo(o, IF op[o].kind = "staged" THEN "complete" ELSE "share")
    /\ UNCHANGED <<docs, objects, attached, stored, staged, told, raced>>

Complete(o) ==
    /\ At(o, "staged", "complete")
    /\ GoTo(o, "answer")
    /\ docs' = [docs EXCEPT ![o].complete = TRUE]
    /\ UNCHANGED <<objects, history, attached, stored, staged, told, raced>>

\* POST /api/v1/shares: the link is made, or the document goes with it.
Share(o) ==
    /\ At(o, "create", "share")
    /\ \/ Finish(o) /\ told' = told \cup {o}
       \/ GoTo(o, "undo") /\ UNCHANGED told
    /\ UNCHANGED <<docs, objects, history, attached, stored, staged, raced>>

\* rollbackDocument: each half is tried whatever became of the other.
UndoRow(o) ==
    /\ At(o, "create", "undo")
    /\ DeleteRow(o) \/ UNCHANGED <<docs, history, attached>>
    /\ GoTo(o, "erase")
    /\ UNCHANGED <<objects, stored, staged, told, raced>>

UndoObject(o) ==
    /\ At(o, "create", "erase")
    /\ objects' = Without(KeyOf(o, 1))
    /\ Finish(o)
    /\ UNCHANGED <<docs, history, attached, stored, staged, told, raced>>

-----------------------------------------------------------------------------
(* Replacement, from the dashboard ("web") and through the API ("replace").*)

Present(d) == docs[d] # Null /\ ~docs[d].deleted

\* A dashboard replacement of this version has been read for and not ended.
Underway(d, version) ==
    \E o \in Ops : op[o].kind = "web" /\ op[o].doc = d /\ op[o].read = version

ReadForReplace(o, kind, d) ==
    /\ Free(o) /\ Present(d)
    /\ op' = [op EXCEPT ![o] = [kind |-> kind, step |-> "upload", doc |-> d, read |-> docs[d].version]]
    /\ raced' = IF kind = "web" /\ Underway(d, docs[d].version) THEN raced \cup {d} ELSE raced
    /\ UNCHANGED <<docs, objects, history, attached, stored, staged, told>>

Replacing(o, step) == At(o, "web", step) \/ At(o, "replace", step)

\* The API's key carries a suffix of its own; the dashboard's is the version's.
MutNewKey(o) == KeyOf(op[o].doc, op[o].read + 1)
NewKey(o) ==
    [doc |-> op[o].doc, version |-> op[o].read + 1, by |-> IF op[o].kind = "web" THEN Null ELSE o]

UploadNew(o) ==
    /\ Replacing(o, "upload")
    /\ objects' = Put(NewKey(o), o)
    /\ GoTo(o, "update") \/ Finish(o)
    /\ UNCHANGED <<docs, history, attached, stored, staged, told, raced>>

Replaced(o) ==
    docs' = [docs EXCEPT ![op[o].doc].version = op[o].read + 1,
                         ![op[o].doc].key = NewKey(o),
                         ![op[o].doc].score = o]

\* The dashboard's update names the row alone.
UpdateRow(o) ==
    /\ At(o, "web", "update")
    /\ IF docs[op[o].doc] # Null THEN Replaced(o) ELSE UNCHANGED docs
    /\ GoTo(o, "history")
    /\ UNCHANGED <<objects, history, attached, stored, staged, told, raced>>

\* The API's is a compare and swap.
UnchangedSince(o) == Present(op[o].doc) /\ docs[op[o].doc].version = op[o].read

Swap(o) ==
    /\ At(o, "replace", "update")
    /\ IF UnchangedSince(o) THEN Replaced(o) /\ GoTo(o, "history")
       ELSE UNCHANGED docs /\ GoTo(o, "tidy")
    /\ UNCHANGED <<objects, history, attached, stored, staged, told, raced>>

Tidy(o) ==
    /\ At(o, "replace", "tidy")
    /\ objects' = Without(NewKey(o))
    /\ Finish(o)
    /\ UNCHANGED <<docs, history, attached, stored, staged, told, raced>>

\* A history row that is refused is swallowed.
AppendHistory(o) ==
    /\ Replacing(o, "history")
    /\ history' = Recorded(op[o].doc, op[o].read + 1, NewKey(o))
    /\ Finish(o)
    /\ UNCHANGED <<docs, objects, attached, stored, staged, told, raced>>

DeleteDocument(d) ==
    /\ Present(d)
    /\ docs' = [docs EXCEPT ![d].deleted = TRUE]
    /\ UNCHANGED <<op, objects, history, attached, stored, staged, told, raced>>

-----------------------------------------------------------------------------
(* Attachments: the cap is read once, and the files go one at a time, each *)
(* its row and then its object.                                            *)

Of(d) == {a \in attached : a.doc = d}
RoomFor(d, n) == Cardinality(Of(d)) + n <= MaxFiles

CountFiles(o, d, n) ==
    /\ Free(o) /\ Present(d) /\ RoomFor(d, n)
    /\ op' = [op EXCEPT ![o] = [kind |-> "attach", step |-> "insert", doc |-> d, n |-> n, left |-> n]]
    /\ UNCHANGED <<docs, objects, history, attached, stored, staged, told, raced>>

Attachment(o) == [doc |-> op[o].doc, by |-> o, n |-> op[o].left]

InsertFile(o) ==
    /\ At(o, "attach", "insert")
    /\ IF docs[op[o].doc] = Null THEN Finish(o) /\ UNCHANGED attached
       ELSE GoTo(o, "upload") /\ attached' = attached \cup {Attachment(o)}
    /\ UNCHANGED <<docs, objects, history, stored, staged, told, raced>>

MutLast(o) == op[o].left = 0
Last(o) == op[o].left = 1

UploadFile(o) ==
    /\ At(o, "attach", "upload")
    /\ \/ /\ stored' = stored \cup {Attachment(o)}
          /\ IF Last(o) THEN Finish(o)
             ELSE op' = [op EXCEPT ![o].step = "insert", ![o].left = @ - 1]
       \/ /\ stored' \in {stored, stored \cup {Attachment(o)}}
          /\ GoTo(o, "rollback")
    /\ UNCHANGED <<docs, objects, history, attached, staged, told, raced>>

RollbackFile(o) ==
    /\ At(o, "attach", "rollback")
    /\ attached' = attached \ {Attachment(o)}
    /\ Finish(o)
    /\ UNCHANGED <<docs, objects, history, stored, staged, told, raced>>

FindFile(o, a) ==
    /\ Free(o) /\ a \in attached
    /\ op' = [op EXCEPT ![o] = [kind |-> "detach", step |-> "row", att |-> a]]
    /\ UNCHANGED <<docs, objects, history, attached, stored, staged, told, raced>>

DetachRow(o) ==
    /\ At(o, "detach", "row")
    /\ attached' = attached \ {op[o].att}
    /\ GoTo(o, "object")
    /\ UNCHANGED <<docs, objects, history, stored, staged, told, raced>>

DetachObject(o) ==
    /\ At(o, "detach", "object")
    /\ stored' = stored \ {op[o].att}
    /\ Finish(o)
    /\ UNCHANGED <<docs, objects, history, attached, staged, told, raced>>

DocumentsNext ==
    \/ Forget
    \/ \E file \in Files : Stage(file)
    \/ \E d \in Ops : DeleteDocument(d)
    \/ \E o \in Ops :
          \/ Die(o)
          \/ Reserve(o) \/ Insert(o) \/ Lookup(o) \/ Upload(o) \/ Rollback(o) \/ Seed(o)
          \/ Complete(o) \/ Answer(o)
          \/ BeginCreate(o) \/ Share(o) \/ UndoRow(o) \/ UndoObject(o)
          \/ UploadNew(o) \/ UpdateRow(o) \/ Swap(o) \/ Tidy(o) \/ AppendHistory(o)
          \/ InsertFile(o) \/ UploadFile(o) \/ RollbackFile(o) \/ DetachRow(o) \/ DetachObject(o)
          \/ \E d \in Ops :
                \/ \E kind \in {"web", "replace"} : ReadForReplace(o, kind, d)
                \/ \E n \in 1 .. MaxFiles : CountFiles(o, d, n)
          \/ \E a \in attached : FindFile(o, a)

DocumentsSpec == DocumentsInit /\ [][DocumentsNext]_documentsVars

-----------------------------------------------------------------------------
(* Properties.                                                             *)

\* Requests, rows, objects and the browser's record keep to their shapes.
DocumentsTypes ==
    /\ \A o \in Ops : op[o] \in OpSet
    /\ \A d \in Ops : docs[d] = Null \/ docs[d] \in RowSet
    /\ objects \subseteq [key : ObjectKeys, body : Bodies]
    /\ history \subseteq [doc : Ops, version : Nat, key : ObjectKeys]
    /\ attached \cup stored \subseteq Attachments
    /\ staged = Null \/ staged \in Records
    /\ told \subseteq Ops
    /\ raced \subseteq Ops

\* The screening score kept on a document is that of the very bytes its readers
\* are served, whichever requests of the API and the dashboard replaced it at
\* once and wherever they died, until two of the dashboard's had read the same
\* version at once: those write one key, and the row in either order
\* (replaceDocumentAction has no compare and swap and no key of its own).
Described(d) == \A x \in objects : x.key = docs[d].key => x.body = docs[d].score
ScoreIsServed == \A d \in Ops \ raced : docs[d] # Null => Described(d)

\* A document its owner was told of can be read: its row is there, and so are
\* the objects of what it serves now and of every version its history lists.
ToldIsReadable ==
    \A d \in told :
        /\ docs[d] # Null
        /\ \A key \in {docs[d].key} \cup {h.key : h \in {v \in history : v.doc = d}} :
              \E x \in objects : x.key = key

\* A staged file goes from the browser only when its document is whole, or by
\* the owner's own doing: never on the late answer to another file's upload.
FileKept ==
    [][staged # Null /\ staged' = Null =>
          Forget \/ \E d \in Ops : HasFile(d, staged.file) /\ docs[d].complete]_documentsVars

=============================================================================
