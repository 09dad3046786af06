-------------------------------- MODULE Links --------------------------------
(***************************************************************************)
(* The making of a tracked link: POST /api/v1/shares (route.ts), the form  *)
(* on a document's page (createShareFormAction), the transaction           *)
(* create_share (schema/052) with the triggers on the insert, the cap of   *)
(* the free plan (schema/027) and the address (schema/033), and the        *)
(* undoing of a document whose link was refused (rollbackDocument).        *)
(*                                                                         *)
(* An action is one awaited call; the transaction is three: what it reads  *)
(* before its lock, the locked count with the insert, and the commit.      *)
(* Any call may fail, and any answer may be lost.                          *)
(***************************************************************************)
EXTENDS Integers, FiniteSets

CONSTANTS Owners,    \* accounts; each has a document of its name from before
          Calls,     \* requests; a link, and a new document, has the name of its own
          Addresses, \* addresses a customer may choose
          Cap,       \* v_cap of enforce_share_cap
          None

ASSUME LinksAssumption ==
    /\ Cap \in Nat
    /\ IsFiniteSet(Calls)
    /\ Owners \cap Calls = {}
    /\ None \notin Addresses

VARIABLES tier,  \* profiles.tier
          docs,  \* a row of documents, and its object
          link,  \* a row of document_shares; one that is gone is kept for the history
          call

vars == <<tier, docs, link, call>>

Docs == Owners \cup Calls
Tiers == {"free", "pro"}
Documents == [owner : Owners, row : BOOLEAN, object : BOOLEAN, deleted : BOOLEAN]
\* `as` is the tier enforce_share_cap read; an address None is a generated one.
\* An open link is inserted and not committed.
Links == [owner : Owners, doc : Docs, address : Addresses \cup {None}, as : Tiers,
          state : {"open", "made", "gone"}]
Vias == {"web", "api"}
Steps == {"quota", "find", "row", "upload", "unmake", "begin", "insert", "commit", "lock",
          "undo", "erase"}
\* A call that is over; "undone" if it was refused after making, or about to
\* make, a document, and no part of the undoing failed.
Over(how) == [step |-> how]
\* `untidy` says that a part of it failed.
Requests == [by : Owners, via : Vias, doc : Docs, address : Addresses \cup {None},
             step : Steps, tier : Tiers, untidy : BOOLEAN]
CallFields == {Over("over"), Over("undone")} \cup Requests

ASSUME NoneIsNoRow == None \notin Documents \cup Links \cup CallFields

Init ==
    /\ tier \in [Owners -> Tiers]
    /\ docs = [d \in Docs |->
                 IF d \in Owners THEN [owner |-> d, row |-> TRUE, object |-> TRUE, deleted |-> FALSE]
                 ELSE None]
    /\ link = [c \in Calls |-> None]
    /\ call = [c \in Calls |-> None]

Is(c, state) == link[c] # None /\ link[c].state = state
At(c, step) == call[c] # None /\ call[c].step = step
GoTo(c, step) == call' = [call EXCEPT ![c].step = step]
End(c) == call' = [call EXCEPT ![c] = Over("over")]
Mine(c) == call[c].by
New(c) == call[c].doc = c

\* Refused, with nothing left to undo; `failed` says that something was left.
Refuse(c, failed) ==
    call' = [call EXCEPT ![c] = Over(IF New(c) /\ ~@.untidy /\ ~failed THEN "undone" ELSE "over")]

\* Every row there is counts, switched off or not.
LinksOf(o) == {c \in Calls : Is(c, "made") /\ link[c].owner = o}
Count(o) == Cardinality(LinksOf(o))
There(d, o) == docs[d] # None /\ docs[d].row /\ docs[d].owner = o /\ ~docs[d].deleted

\* The link is refused: a document that this very call has made goes too.
MutUndo(c) == Refuse(c, FALSE)
Undo(c) == IF New(c) THEN GoTo(c, "undo") ELSE End(c)

-----------------------------------------------------------------------------
(* Up to the transaction.                                                  *)

\* The web form sits on a document's page; the API takes a document that is
\* there or content for a new one.
Request(c) ==
    /\ call[c] = None
    /\ \E o \in Owners, via \in Vias, address \in Addresses \cup {None}, d \in Docs :
          /\ IF d = c THEN via = "api" ELSE docs[d] # None
          /\ call' = [call EXCEPT ![c] = [by |-> o, via |-> via, doc |-> d, address |-> address,
                                          step |-> "quota", tier |-> "free", untidy |-> FALSE]]
    /\ UNCHANGED <<tier, docs, link>>

\* readQuota: two reads, of which either may fail, and then the tier is free or
\* the count nought.
Quota(c) ==
    /\ At(c, "quota")
    /\ \/ Count(Mine(c)) >= Cap /\ Refuse(c, FALSE)
       \/ GoTo(c, IF call[c].via = "web" THEN "begin" ELSE IF New(c) THEN "row" ELSE "find")
    /\ UNCHANGED <<tier, docs, link>>

FindDocument(c) ==
    /\ At(c, "find")
    /\ \/ There(call[c].doc, Mine(c)) /\ GoTo(c, "begin")
       \/ End(c)
    /\ UNCHANGED <<tier, docs, link>>

\* createDocumentForUser, whose row the owner sees at once.
MakeRow(c) ==
    /\ At(c, "row")
    /\ \E made, heard \in BOOLEAN :
          /\ heard => made
          /\ docs' = IF made THEN [docs EXCEPT ![c] = [owner |-> Mine(c), row |-> TRUE, object |-> FALSE,
                                                      deleted |-> FALSE]]
                     ELSE docs
          /\ IF heard THEN GoTo(c, "upload") ELSE Refuse(c, made)
    /\ UNCHANGED <<tier, link>>

Upload(c) ==
    /\ At(c, "upload")
    /\ \E made, heard \in BOOLEAN :
          /\ heard => made
          /\ docs' = [docs EXCEPT ![c].object = made]
          /\ call' = [call EXCEPT ![c].step = IF heard THEN "begin" ELSE "unmake", ![c].untidy = made /\ ~heard]
    /\ UNCHANGED <<tier, link>>

-----------------------------------------------------------------------------
(* create_share.                                                           *)

\* The document, and the tier as enforce_share_cap reads it before its lock.
BeginShare(c) ==
    /\ At(c, "begin")
    /\ \/ /\ There(call[c].doc, Mine(c))
          /\ call' = [call EXCEPT ![c].step = "insert", ![c].tier = tier[Mine(c)]]
       \/ Undo(c)
    /\ UNCHANGED <<tier, docs, link>>

\* pg_advisory_xact_lock, held up to the commit; Pro does not take it.
MutLocked(c) == FALSE
Locked(c) == \E x \in Calls : Is(x, "open") /\ link[x].owner = Mine(c) /\ link[x].as = "free"
WithinCap(c) == Count(Mine(c)) < Cap
CapAllows(c) == call[c].tier = "free" => WithinCap(c)

\* validate_share_slug, and the unique index that waits for a row not committed.
Chosen(c) == call[c].address # None
Taken(c, state) == \E x \in Calls : Is(x, state) /\ link[x].address = call[c].address
SlugAllows(c) == Chosen(c) => ~Taken(c, "made") /\ tier[Mine(c)] = "pro"

InsertShare(c) ==
    /\ At(c, "insert")
    /\ call[c].tier = "free" => ~Locked(c)
    /\ IF docs[call[c].doc].row /\ CapAllows(c) /\ SlugAllows(c)
       THEN /\ Chosen(c) => ~Taken(c, "open")
            /\ link' = [link EXCEPT ![c] = [owner |-> Mine(c), doc |-> call[c].doc, address |-> call[c].address,
                                            as |-> call[c].tier, state |-> "open"]]
            /\ GoTo(c, "commit")
       ELSE Undo(c) /\ UNCHANGED link
    /\ UNCHANGED <<tier, docs>>

\* The deck is locked unless it was asked not to be, by a call of its own.
CommitShare(c) ==
    /\ At(c, "commit")
    /\ \/ /\ link' = [link EXCEPT ![c].state = "made"]
          /\ GoTo(c, "lock") \/ End(c) \/ Undo(c)
       \/ /\ link' = [link EXCEPT ![c] = None]
          /\ Undo(c)
    /\ UNCHANGED <<tier, docs>>

SetLockDeck(c) ==
    /\ At(c, "lock")
    /\ End(c) \/ Undo(c)
    /\ UNCHANGED <<tier, docs, link>>

-----------------------------------------------------------------------------
(* rollbackDocument, and the rollback in createDocumentForUser.  The row   *)
(* takes its links with it, unless one has an address that was chosen; a   *)
(* link under way holds the row.                                           *)

MutMayDelete(l) == TRUE
MayDelete(l) == l.address = None

On(d) == {c \in Calls : Is(c, "made") /\ link[c].doc = d}
DeleteRow(d) ==
    /\ ~\E c \in Calls : Is(c, "open") /\ link[c].doc = d
    /\ \A c \in On(d) : MayDelete(link[c])
    /\ docs' = [docs EXCEPT ![d].row = FALSE, ![d].deleted = FALSE]
    /\ link' = [c \in Calls |-> IF c \in On(d) THEN [link[c] EXCEPT !.state = "gone"] ELSE link[c]]

UndoRow(c) ==
    /\ At(c, "undo")
    /\ \/ DeleteRow(c) /\ GoTo(c, "erase")
       \/ /\ call' = [call EXCEPT ![c].step = "erase", ![c].untidy = TRUE]
          /\ UNCHANGED <<docs, link>>
    /\ UNCHANGED tier

UnmakeRow(c) ==
    /\ At(c, "unmake")
    /\ \/ DeleteRow(c) /\ Refuse(c, FALSE)
       \/ End(c) /\ UNCHANGED <<docs, link>>
    /\ UNCHANGED tier

\* Tried whether the row went or not.
UndoObject(c) ==
    /\ At(c, "erase")
    /\ \/ docs' = [docs EXCEPT ![c].object = FALSE] /\ Refuse(c, FALSE)
       \/ End(c) /\ UNCHANGED docs
    /\ UNCHANGED <<tier, link>>

\* The request ends between two calls; a transaction goes on without it.
Die(c) ==
    /\ \E step \in Steps \ {"insert", "commit"} : At(c, step)
    /\ End(c)
    /\ UNCHANGED <<tier, docs, link>>

-----------------------------------------------------------------------------
(* The owner.                                                              *)

\* deleteShareAction, or a delete straight through PostgREST.  A link switched
\* off or on again keeps its row, and nothing here tells the difference.
DeleteShare(c) ==
    /\ Is(c, "made") /\ MayDelete(link[c])
    /\ link' = [link EXCEPT ![c].state = "gone"]
    /\ UNCHANGED <<tier, docs, call>>

DeleteDocument(d) ==
    /\ docs[d] # None /\ docs[d].row
    /\ docs' = [docs EXCEPT ![d].deleted = TRUE]
    /\ UNCHANGED <<tier, link, call>>

ChangeTier(o) ==
    /\ \E t \in Tiers : tier' = [tier EXCEPT ![o] = t]
    /\ UNCHANGED <<docs, link, call>>

Make(c) ==
    \/ Request(c) \/ Quota(c) \/ FindDocument(c) \/ MakeRow(c) \/ Upload(c)
    \/ BeginShare(c) \/ InsertShare(c) \/ CommitShare(c) \/ SetLockDeck(c)
    \/ UndoRow(c) \/ UnmakeRow(c) \/ UndoObject(c) \/ Die(c)

Next ==
    \/ \E c \in Calls : Make(c) \/ DeleteShare(c)
    \/ \E d \in Docs : DeleteDocument(d)
    \/ \E o \in Owners : ChangeTier(o)

Spec == Init /\ [][Next]_vars

-----------------------------------------------------------------------------
(* Properties.                                                             *)

TypeOK ==
    /\ tier \in [Owners -> Tiers]
    /\ docs \in [Docs -> Documents \cup {None}]
    /\ link \in [Calls -> Links \cup {None}]
    /\ call \in [Calls -> CallFields \cup {None}]

\* The links an account made on the free plan are never more than the cap at a
\* time, however its requests, its changes of plan and its deletions overlap
\* (enforce_share_cap).
FreeCap ==
    \A o \in Owners :
        Cardinality({c \in Calls : Is(c, "made") /\ link[c].owner = o /\ link[c].as = "free"}) <= Cap

\* An address a customer chose is never another link's, not even after its own
\* link was deleted or undone: it is in somebody's inbox (validate_share_slug,
\* block_custom_slug_delete).
AddressKept ==
    \A c, x \in Calls :
        c # x /\ link[c] # None /\ link[x] # None /\ link[c].address # None
            => link[c].address # link[x].address

\* A call to the API that was refused leaves no link, no document and no object
\* of the document it made, unless a part of the undoing failed.
RefusedLeavesNothing ==
    \A c \in Calls :
        At(c, "undone") =>
            /\ ~Is(c, "open") /\ ~Is(c, "made")
            /\ docs[c] # None => ~docs[c].row /\ ~docs[c].object

\* The cap is on every link ever made, so that deleting one makes no room.
LifetimeCap ==
    \A o \in Owners :
        Cardinality({c \in Calls : (Is(c, "made") \/ Is(c, "gone")) /\ link[c].owner = o /\ link[c].as = "free"})
            <= Cap

=============================================================================
