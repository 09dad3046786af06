---------------------------- MODULE SharingProofs ----------------------------
(***************************************************************************)
(* A shared link from its making (Links) to what the pages of its readers  *)
(* count (Reading).  The two have no variable in common, and each part     *)
(* below is about one of them.                                             *)
(*                                                                         *)
(* What holds of Links for every cap and any accounts, addresses and       *)
(* overlapping calls.  A link moves in four ways only (LinkMove), and the  *)
(* cap and the addresses are argued from those.  What a call knows of its  *)
(* own document and link no other call can disturb (Untouched), so that    *)
(* each action has to be looked at only for the call that takes it.        *)
(***************************************************************************)
EXTENDS Links, Reading, FiniteSetTheorems, TLAPS

\* A call that has not come to its insert has no link yet.
BeforeInsert == {"quota", "find", "row", "upload", "unmake", "begin", "insert"}
Undoing == {"row", "upload", "unmake", "undo", "erase"}

NothingLeft(c) ==
    /\ ~Is(c, "open") /\ ~Is(c, "made")
    /\ docs[c] # None => ~docs[c].row /\ ~docs[c].object

\* What a call knows of its document and its link.
CallSound(c) ==
    /\ call[c] = None => link[c] = None /\ docs[c] = None
    /\ call[c] # None =>
          /\ call[c].step \in BeforeInsert => link[c] = None
          /\ call[c].step = "commit" => Is(c, "open")
          /\ call[c].step \in {"commit", "lock", "undo", "erase"} =>
                (link[c] # None => link[c].doc = call[c].doc)
          /\ call[c].step \in Steps /\ New(c) => call[c].via = "api"
          /\ call[c].step \in Undoing => New(c)
          /\ call[c].step \in {"quota", "row"} => (New(c) => docs[c] = None)
          /\ call[c].step \in Steps \ {"quota", "row"} => (New(c) => docs[c] # None)
          /\ call[c].step = "unmake" => call[c].untidy \/ ~docs[c].object
          /\ call[c].step = "erase" => call[c].untidy \/ (~docs[c].row /\ ~Is(c, "made"))
          /\ call[c].step = "undone" => NothingLeft(c)
    /\ Is(c, "open") => At(c, "commit")

CallInv == \A c \in Calls : CallSound(c)

Free(o, state) == {c \in Calls : Is(c, state) /\ link[c].owner = o /\ link[c].as = "free"}

\* The lock is one account's, and whoever holds it has counted.
CapSound(o) ==
    /\ \A c, x \in Free(o, "open") : c = x
    /\ Free(o, "open") # {} => Cardinality(Free(o, "made")) < Cap
    /\ Cardinality(Free(o, "made")) <= Cap
CapInv == \A o \in Owners : CapSound(o)

\* A row with a chosen address never goes.
GoneInv == \A c \in Calls : Is(c, "gone") => link[c].address = None

IInv == TypeOK /\ CallInv /\ CapInv /\ GoneInv /\ AddressKept

-----------------------------------------------------------------------------
(* The ways of a link.                                                     *)

LinkStays(c) ==
    \/ link'[c] = link[c]
    \/ /\ Is(c, "made") /\ link[c].address = None
       /\ link'[c] = [link[c] EXCEPT !.state = "gone"]

Inserted(c) ==
    \E l \in Links :
        /\ link[c] = None
        /\ link' = [link EXCEPT ![c] = l]
        /\ l.state = "open"
        /\ l.as = "free" => /\ Free(l.owner, "open") = {}
                            /\ Cardinality(LinksOf(l.owner)) < Cap
        /\ l.address # None => \A x \in Calls : Is(x, "made") \/ Is(x, "open") => link[x].address # l.address

Settled(c) ==
    /\ Is(c, "open")
    /\ \/ link' = [link EXCEPT ![c].state = "made"]
       \/ link' = [link EXCEPT ![c] = None]

LinkMove ==
    \/ \A c \in Calls : LinkStays(c)
    \/ \E c \in Calls : Inserted(c)
    \/ \E c \in Calls : Settled(c)

LEMMA States ==
    ASSUME TypeOK, NEW c \in Calls, link[c] # None
    PROVE  link[c] \in Links
BY DEF TypeOK

LEMMA FreeIsFinite ==
    ASSUME NEW o, NEW state
    PROVE  /\ IsFiniteSet(Free(o, state))
           /\ Cardinality(Free(o, state)) \in Nat
<1>1. IsFiniteSet(Free(o, state))
  BY FS_Subset, LinksAssumption DEF Free
<1> QED BY <1>1, FS_CardinalityType

\* No more links were made free than there are links.
LEMMA FreeAreLinks ==
    ASSUME NEW o
    PROVE  /\ Cardinality(LinksOf(o)) \in Nat
           /\ Cardinality(Free(o, "made")) <= Cardinality(LinksOf(o))
<1>1. IsFiniteSet(LinksOf(o))
  BY FS_Subset, LinksAssumption DEF LinksOf
<1>2. Free(o, "made") \in SUBSET LinksOf(o)
  BY DEF Free, LinksOf
<1> QED BY <1>1, <1>2, FS_Subset, FS_CardinalityType

LEMMA CapMoves ==
    ASSUME TypeOK, TypeOK', CapInv, LinkMove
    PROVE  CapInv'
<1> SUFFICES ASSUME NEW o \in Owners PROVE CapSound(o)'
  BY DEF CapInv
<1>0. CapSound(o) /\ Cap \in Nat
  BY LinksAssumption DEF CapInv
<1>1. /\ IsFiniteSet(Free(o, "made")) /\ Cardinality(Free(o, "made")) \in Nat
      /\ IsFiniteSet(Free(o, "made")') /\ Cardinality(Free(o, "made")') \in Nat
  <2>1. IsFiniteSet(Free(o, "made")')
    BY FS_Subset, LinksAssumption DEF Free
  <2> QED BY <2>1, FreeIsFinite, FS_CardinalityType
<1>2. ASSUME Free(o, "open")' \subseteq Free(o, "open"), Free(o, "made")' \subseteq Free(o, "made")
      PROVE  CapSound(o)'
  <2>1. Cardinality(Free(o, "made")') <= Cardinality(Free(o, "made"))
    BY <1>1, <1>2, FS_Subset
  <2> QED BY <1>0, <1>1, <1>2, <2>1 DEF CapSound
<1>3. CASE \A c \in Calls : LinkStays(c)
  <2>1. ASSUME NEW c \in Calls, LinkStays(c) PROVE /\ c \in Free(o, "open")' => c \in Free(o, "open")
                                                   /\ c \in Free(o, "made")' => c \in Free(o, "made")
    <3>1. CASE link'[c] = link[c]
      BY <3>1 DEF Free, Is
    <3>2. CASE link'[c] = [link[c] EXCEPT !.state = "gone"] /\ Is(c, "made")
      <4>1. link'[c].state = "gone"
        BY <3>2, States DEF Links, Is
      <4> QED BY <4>1 DEF Free, Is
    <3> QED BY <2>1, <3>1, <3>2 DEF LinkStays
  <2>2. Free(o, "open")' \subseteq Free(o, "open") /\ Free(o, "made")' \subseteq Free(o, "made")
    BY <1>3, <2>1 DEF Free
  <2> QED BY <1>2, <2>2
<1>4. ASSUME NEW c \in Calls, Inserted(c) PROVE CapSound(o)'
  <2> PICK l \in Links :
         /\ link[c] = None
         /\ link' = [link EXCEPT ![c] = l]
         /\ l.state = "open"
         /\ l.as = "free" => /\ Free(l.owner, "open") = {}
                             /\ Cardinality(LinksOf(l.owner)) < Cap
    BY <1>4 DEF Inserted
  <2>1. link'[c] = l /\ \A x \in Calls \ {c} : link'[x] = link[x]
    BY DEF TypeOK
  <2>2. Free(o, "made")' \subseteq Free(o, "made")
    BY <2>1 DEF Free, Is
  <2>3. CASE l.owner = o /\ l.as = "free"
    <3>1. Free(o, "open")' \subseteq {c}
      BY <2>1, <2>3 DEF Free, Is
    <3>2. Cardinality(Free(o, "made")) < Cap
      BY <1>0, <1>1, <2>3, FreeAreLinks
    <3>3. Cardinality(Free(o, "made")') <= Cardinality(Free(o, "made"))
      BY <1>1, <2>2, FS_Subset
    <3> QED BY <1>0, <1>1, <3>1, <3>2, <3>3 DEF CapSound
  <2>4. CASE ~(l.owner = o /\ l.as = "free")
    <3>1. Free(o, "open")' \subseteq Free(o, "open")
      BY <2>1, <2>4 DEF Free, Is
    <3> QED BY <1>2, <2>2, <3>1
  <2> QED BY <2>3, <2>4
<1>5. ASSUME NEW c \in Calls, Settled(c) PROVE CapSound(o)'
  <2>1. CASE link' = [link EXCEPT ![c] = None]
    <3>1. Free(o, "open")' \subseteq Free(o, "open") /\ Free(o, "made")' \subseteq Free(o, "made")
      BY <2>1 DEF Free, Is, TypeOK
    <3> QED BY <1>2, <3>1
  <2>2. CASE link' = [link EXCEPT ![c].state = "made"]
    <3>1. /\ link[c] \in Links /\ link[c].state = "open" /\ link[c] # None
      BY <1>5, States DEF Settled, Is
    <3>2. /\ link'[c] = [link[c] EXCEPT !.state = "made"]
          /\ \A x \in Calls \ {c} : link'[x] = link[x]
      BY <2>2 DEF TypeOK
    <3>3. link'[c].state = "made" /\ link'[c].owner = link[c].owner /\ link'[c].as = link[c].as
      BY <3>1, <3>2 DEF Links
    <3>4. Free(o, "open")' \subseteq Free(o, "open") \ {c}
      BY <3>2, <3>3 DEF Free, Is
    <3>5. CASE c \in Free(o, "open")
      <4>1. Free(o, "open")' = {}
        BY <1>0, <3>4, <3>5 DEF CapSound
      <4>2. Free(o, "made")' \subseteq Free(o, "made") \cup {c}
        BY <3>2 DEF Free, Is
      <4>3. /\ IsFiniteSet(Free(o, "made") \cup {c})
            /\ Cardinality(Free(o, "made") \cup {c}) <= Cardinality(Free(o, "made")) + 1
        BY <1>1, FS_AddElement, SMTT(40)
      <4>4. Cardinality(Free(o, "made") \cup {c}) \in Nat
        BY <4>3, FS_CardinalityType
      <4>5. Cardinality(Free(o, "made")') <= Cardinality(Free(o, "made") \cup {c})
        BY <4>2, <4>3, FS_Subset
      <4> QED BY <1>0, <1>1, <3>5, <4>1, <4>3, <4>4, <4>5 DEF CapSound
    <3>6. CASE c \notin Free(o, "open")
      <4>1. ASSUME NEW x \in Free(o, "made")' PROVE x \in Free(o, "made")
        <5>1. CASE x = c
          BY <3>1, <3>3, <3>6, <4>1, <5>1 DEF Free, Is
        <5>2. CASE x # c
          BY <3>2, <4>1, <5>2 DEF Free, Is
        <5> QED BY <5>1, <5>2
      <4> QED BY <1>2, <3>4, <4>1
    <3> QED BY <3>5, <3>6
  <2> QED BY <1>5, <2>1, <2>2 DEF Settled
<1> QED BY <1>3, <1>4, <1>5 DEF LinkMove

LEMMA AddressMoves ==
    ASSUME TypeOK, TypeOK', GoneInv, AddressKept, LinkMove
    PROVE  GoneInv' /\ AddressKept'
<1>1. CASE \A c \in Calls : LinkStays(c)
  <2>1. \A c \in Calls : link'[c] # None => link[c] # None /\ link'[c].address = link[c].address
    BY <1>1, States DEF LinkStays, Is, Links
  <2>2. ASSUME NEW c \in Calls, Is(c, "gone")' PROVE link'[c].address = None
    BY <1>1, <2>1, <2>2 DEF LinkStays, Is, GoneInv
  <2> QED BY <2>1, <2>2 DEF GoneInv, AddressKept
<1>2. ASSUME NEW c \in Calls, Inserted(c) PROVE GoneInv' /\ AddressKept'
  <2> PICK l \in Links :
         /\ link[c] = None
         /\ link' = [link EXCEPT ![c] = l]
         /\ l.state = "open"
         /\ l.address # None => \A x \in Calls : Is(x, "made") \/ Is(x, "open") => link[x].address # l.address
    BY <1>2 DEF Inserted
  <2>1. link'[c] = l /\ \A x \in Calls \ {c} : link'[x] = link[x]
    BY DEF TypeOK
  <2>2. GoneInv'
    BY <2>1 DEF GoneInv, Is
  <2>3. ASSUME NEW x \in Calls \ {c}, link[x] # None, l.address # None \/ link[x].address # None
        PROVE  link[x].address # l.address
    <3>1. link[x].state \in {"open", "made", "gone"}
      BY <2>3, States DEF Links
    <3> QED BY <2>3, <3>1 DEF GoneInv, Is
  <2>4. AddressKept'
    BY <2>1, <2>3 DEF AddressKept
  <2> QED BY <2>2, <2>4
<1>3. ASSUME NEW c \in Calls, Settled(c) PROVE GoneInv' /\ AddressKept'
  <2>1. \A x \in Calls : link'[x] # None => link[x] # None /\ link'[x].address = link[x].address
    BY <1>3, States DEF Settled, Is, Links, TypeOK
  <2>2. ASSUME NEW x \in Calls, Is(x, "gone")' PROVE link'[x] = link[x]
    BY <1>3, <2>2, States DEF Settled, Is, Links, TypeOK
  <2> QED BY <2>1, <2>2 DEF GoneInv, AddressKept, Is
<1> QED BY <1>1, <1>2, <1>3 DEF LinkMove

-----------------------------------------------------------------------------
(* What a call knows, and what the others leave standing.                  *)

DocStays(c) ==
    /\ docs[c] = None => docs'[c] = None
    /\ docs[c] # None => /\ docs'[c] # None
                         /\ docs'[c].row => docs[c].row
                         /\ docs'[c].object => docs[c].object

Untouched(c) == call'[c] = call[c] /\ DocStays(c) /\ LinkStays(c)

LEMMA DocOf == Calls \subseteq Docs
BY DEF Docs

LEMMA OthersKeep ==
    ASSUME TypeOK, TypeOK', NEW c \in Calls, CallSound(c), Untouched(c)
    PROVE  CallSound(c)'
<1>1. CASE link'[c] = link[c]
  BY <1>1, DocOf DEF CallSound, Untouched, DocStays, NothingLeft, At, Is, New, TypeOK
<1>2. CASE Is(c, "made") /\ link'[c] = [link[c] EXCEPT !.state = "gone"]
  <2>1. link[c] # None /\ link'[c] \in Links /\ link'[c].state = "gone" /\ link'[c].doc = link[c].doc
    BY <1>2, States DEF Is, Links
  <2>2. link[c].state = "made"
    BY <1>2 DEF Is
  <2> QED BY <2>1, <2>2, DocOf DEF CallSound, Untouched, DocStays, NothingLeft, At, Is, New, TypeOK
<1> QED BY <1>1, <1>2 DEF Untouched, LinkStays

\* A step of one call, the others framed.
LEMMA CallMoves ==
    ASSUME IInv, TypeOK', LinkMove, NEW c \in Calls, CallSound(c)',
           \A x \in Calls \ {c} : Untouched(x)
    PROVE  IInv'
<1>1. CallInv'
  BY OthersKeep DEF CallInv, IInv
<1> QED BY <1>1, CapMoves, AddressMoves DEF IInv

LEMMA Under ==
    ASSUME TypeOK, NEW c \in Calls, call[c] # None, call[c].step \in Steps
    PROVE  call[c] \in Requests
<1>1. call[c] \in CallFields
  BY DEF TypeOK
<1>2. \A how \in {"over", "undone"} : Over(how).step = how
  BY DEF Over
<1> QED BY <1>1, <1>2 DEF CallFields, Steps

\* What becomes of the entry of a call.
Enters(c, r) ==
    /\ call' \in [Calls -> CallFields \cup {None}]
    /\ call'[c] = r /\ r # None
    /\ \A x \in Calls \ {c} : call'[x] = call[x]

LEMMA EnterIs ==
    ASSUME TypeOK, NEW c \in Calls, NEW r \in CallFields, call' = [call EXCEPT ![c] = r]
    PROVE  Enters(c, r)
<1>1. r # None
  BY NoneIsNoRow
<1> QED BY <1>1 DEF Enters, TypeOK

\* GoTo changes the step and nothing else.
LEMMA GoToIs ==
    ASSUME TypeOK, NEW c \in Calls, call[c] # None, call[c].step \in Steps,
           NEW s \in Steps, GoTo(c, s)
    PROVE  /\ Enters(c, [call[c] EXCEPT !.step = s])
           /\ call'[c] \in Requests
           /\ call'[c].step = s
           /\ call'[c].doc = call[c].doc /\ call'[c].via = call[c].via
           /\ call'[c].untidy = call[c].untidy
<1>1. call[c] \in Requests
  BY Under
<1> DEFINE r == [call[c] EXCEPT !.step = s]
<1>2. r \in Requests /\ r.step = s /\ r.doc = call[c].doc /\ r.via = call[c].via /\ r.untidy = call[c].untidy
  BY <1>1 DEF Requests
<1>3. r \in CallFields
  BY <1>2 DEF CallFields
<1>4. call' = [call EXCEPT ![c] = r]
  BY DEF GoTo
<1>5. Enters(c, r)
  BY <1>3, <1>4, EnterIs
<1>6. call'[c] = r
  BY <1>5 DEF Enters
<1> QED BY <1>2, <1>5, <1>6

LEMMA OverIs ==
    ASSUME TypeOK, NEW c \in Calls, NEW how \in {"over", "undone"}, call' = [call EXCEPT ![c] = Over(how)]
    PROVE  Enters(c, Over(how)) /\ call'[c].step = how
<1>1. Over(how) \in CallFields /\ Over(how).step = how
  BY DEF CallFields, Over
<1> QED BY <1>1, EnterIs DEF Enters

LEMMA EndIs ==
    ASSUME TypeOK, NEW c \in Calls, End(c)
    PROVE  Enters(c, Over("over")) /\ call'[c].step = "over"
BY OverIs DEF End

LEMMA RefuseIs ==
    ASSUME TypeOK, NEW c \in Calls, NEW failed \in BOOLEAN, Refuse(c, failed)
    PROVE  /\ \E r \in CallFields : Enters(c, r)
           /\ call'[c].step \in {"over", "undone"}
           /\ call'[c].step = "undone" => New(c) /\ ~call[c].untidy /\ ~failed
<1> DEFINE how == IF New(c) /\ ~call[c].untidy /\ ~failed THEN "undone" ELSE "over"
<1>1. how \in {"over", "undone"} /\ call' = [call EXCEPT ![c] = Over(how)]
  BY DEF Refuse, New
<1>2. Enters(c, Over(how)) /\ call'[c].step = how
  BY <1>1, OverIs
<1>3. Over(how) \in CallFields
  BY <1>1 DEF CallFields
<1> QED BY <1>2, <1>3

\* A call that is over, refused or not.
LEMMA OverSound ==
    ASSUME NEW c \in Calls, call'[c] # None, call'[c].step \in {"over", "undone"},
           ~Is(c, "open")', call'[c].step = "undone" => NothingLeft(c)'
    PROVE  CallSound(c)'
BY DEF CallSound, BeforeInsert, Undoing, Steps

\* A step that touches the call's entry only.
LEMMA EntryMoves ==
    ASSUME IInv, NEW c \in Calls, NEW r, Enters(c, r), CallSound(c)',
           UNCHANGED <<tier, docs, link>>
    PROVE  IInv'
<1>1. TypeOK'
  BY DEF IInv, TypeOK, Enters
<1>2. \A x \in Calls : LinkStays(x) /\ DocStays(x)
  BY DEF LinkStays, DocStays
<1>3. \A x \in Calls \ {c} : Untouched(x)
  BY <1>2 DEF Enters, Untouched
<1> QED BY <1>1, <1>2, <1>3, CallMoves DEF LinkMove

\* A link that is refused, with docs and link as they were or a link that was
\* not committed gone again.
LEMMA UndoSound ==
    ASSUME IInv, NEW c \in Calls, call[c] # None, call[c].step \in {"begin", "insert", "commit", "lock"},
           Undo(c), UNCHANGED docs, ~Is(c, "open")', link'[c] # None => link'[c].doc = call[c].doc
    PROVE  /\ \E r \in CallFields : Enters(c, r)
           /\ CallSound(c)'
<1>0. TypeOK /\ CallSound(c) /\ call[c].step \in Steps
  BY DEF IInv, CallInv, Steps
<1>1. CASE New(c)
  <2>1. GoTo(c, "undo") /\ "undo" \in Steps
    BY <1>1 DEF Undo, Steps
  <2>2. Enters(c, [call[c] EXCEPT !.step = "undo"]) /\ call'[c] \in Requests /\ call'[c].step = "undo"
        /\ call'[c].doc = call[c].doc /\ call'[c].via = call[c].via
    BY <1>0, <2>1, GoToIs
  <2>3. call'[c] # None /\ call'[c] \in CallFields /\ call'[c].doc = c /\ call'[c].via = "api"
    BY <1>0, <1>1, <2>2 DEF CallFields, Enters, New, CallSound
  <2>4. docs[c] # None
    BY <1>0, <1>1 DEF CallSound
  <2>5. CallSound(c)'
    BY <2>2, <2>3, <2>4 DEF CallSound, BeforeInsert, Undoing, New, Steps
  <2> QED BY <2>2, <2>3, <2>5 DEF Enters
<1>2. CASE ~New(c)
  <2>1. Enters(c, Over("over")) /\ call'[c].step = "over" /\ call'[c] # None
    BY <1>0, <1>2, EndIs DEF Undo, Enters
  <2>2. CallSound(c)'
    BY <2>1, OverSound
  <2> QED BY <2>1, <2>2 DEF CallFields
<1> QED BY <1>1, <1>2

-----------------------------------------------------------------------------
(* One lemma for each action of a call.                                    *)

LEMMA Steady ==
    ASSUME IInv, NEW c \in Calls
    PROVE  TypeOK /\ CallSound(c)
BY DEF IInv, CallInv

LEMMA RequestSafe ==
    ASSUME IInv, NEW c \in Calls, Request(c)
    PROVE  IInv'
<1> PICK o \in Owners, via \in Vias, address \in Addresses \cup {None}, d \in Docs :
       /\ IF d = c THEN via = "api" ELSE docs[d] # None
       /\ call' = [call EXCEPT ![c] = [by |-> o, via |-> via, doc |-> d, address |-> address,
                                    step |-> "quota", tier |-> "free", untidy |-> FALSE]]
  BY DEF Request
<1> DEFINE r == [by |-> o, via |-> via, doc |-> d, address |-> address,
                 step |-> "quota", tier |-> "free", untidy |-> FALSE]
<1>1. r \in CallFields /\ r.step = "quota"
  BY DEF CallFields, Requests, Steps, Tiers
<1>2. Enters(c, r)
  BY <1>1, Steady, EnterIs
<1>3. link[c] = None /\ docs[c] = None /\ UNCHANGED <<tier, docs, link>>
  BY Steady DEF Request, CallSound
<1>4. CallSound(c)'
  BY <1>1, <1>2, <1>3 DEF CallSound, Enters, BeforeInsert, Undoing, New, Steps, Is
<1> QED BY <1>2, <1>3, <1>4, EntryMoves

LEMMA RefusedSafe ==
    ASSUME IInv, NEW c \in Calls, NEW failed \in BOOLEAN, Refuse(c, failed),
           ~Is(c, "open"), New(c) /\ ~failed /\ ~call[c].untidy => NothingLeft(c),
           UNCHANGED <<tier, docs, link>>
    PROVE  IInv'
<1>1. PICK r \in CallFields : Enters(c, r)
  BY Steady, RefuseIs
<1>2. call'[c] # None /\ call'[c].step \in {"over", "undone"}
      /\ (call'[c].step = "undone" => NothingLeft(c)')
  BY <1>1, Steady, RefuseIs DEF Enters, NothingLeft, Is
<1>3. CallSound(c)'
  BY <1>2, OverSound DEF Is
<1> QED BY <1>1, <1>3, EntryMoves

LEMMA EndSafe ==
    ASSUME IInv, NEW c \in Calls, End(c), ~Is(c, "open"), UNCHANGED <<tier, docs, link>>
    PROVE  IInv'
<1>1. Enters(c, Over("over")) /\ call'[c].step = "over"
  BY Steady, EndIs
<1>2. CallSound(c)'
  BY <1>1, OverSound DEF Enters, Is
<1> QED BY <1>1, <1>2, EntryMoves

LEMMA QuotaSafe ==
    ASSUME IInv, NEW c \in Calls, Quota(c)
    PROVE  IInv'
<1>1. call[c] # None /\ call[c].step = "quota" /\ link[c] = None /\ (New(c) => docs[c] = None)
      /\ UNCHANGED <<tier, docs, link>>
  BY Steady DEF Quota, At, CallSound, BeforeInsert
<1>2. CASE Refuse(c, FALSE)
  BY <1>1, <1>2, RefusedSafe DEF NothingLeft, Is
<1>3. ASSUME NEW s \in Steps, GoTo(c, s), (s = "begin" /\ ~New(c)) \/ (s = "row" /\ New(c)) \/ (s = "find" /\ ~New(c))
      PROVE  IInv'
  <2>1. /\ Enters(c, [call[c] EXCEPT !.step = s])
        /\ call'[c].step = s /\ call'[c].doc = call[c].doc /\ call'[c].via = call[c].via
    BY <1>1, <1>3, Steady, GoToIs DEF Steps
  <2>2. CallSound(c)'
    BY <1>1, <1>3, <2>1, Steady DEF CallSound, Enters, BeforeInsert, Undoing, New, Is, Steps
  <2> QED BY <1>1, <2>1, <2>2, EntryMoves
<1>4. New(c) => call[c].via = "api"
  BY <1>1, Steady DEF CallSound, Steps
<1> DEFINE next == IF call[c].via = "web" THEN "begin" ELSE IF New(c) THEN "row" ELSE "find"
<1>5. /\ next \in Steps
      /\ (next = "begin" /\ ~New(c)) \/ (next = "row" /\ New(c)) \/ (next = "find" /\ ~New(c))
  BY <1>4 DEF Steps
<1>6. CASE GoTo(c, next)
  <2> HIDE DEF next
  <2> QED BY <1>3, <1>5, <1>6
<1> QED BY <1>2, <1>6 DEF Quota

LEMMA FindSafe ==
    ASSUME IInv, NEW c \in Calls, FindDocument(c)
    PROVE  IInv'
<1>1. call[c] # None /\ call[c].step = "find" /\ link[c] = None /\ (New(c) => docs[c] # None)
      /\ UNCHANGED <<tier, docs, link>>
  BY Steady DEF FindDocument, At, CallSound, BeforeInsert, Steps
<1>2. CASE GoTo(c, "begin")
  <2>1. /\ Enters(c, [call[c] EXCEPT !.step = "begin"])
        /\ call'[c].step = "begin" /\ call'[c].doc = call[c].doc /\ call'[c].via = call[c].via
    BY <1>1, <1>2, Steady, GoToIs DEF Steps
  <2>2. CallSound(c)'
    BY <1>1, <2>1, Steady DEF CallSound, Enters, BeforeInsert, Undoing, New, Is, Steps
  <2> QED BY <1>1, <2>1, <2>2, EntryMoves
<1> QED BY <1>1, <1>2, EndSafe DEF FindDocument, Is

\* The row a call makes is its own, and so are its object and its link.
LEMMA OwnDocMoves ==
    ASSUME IInv, NEW c \in Calls, NEW r, Enters(c, r), CallSound(c)',
           docs' \in [Docs -> Documents \cup {None}], \A d \in Docs \ {c} : docs'[d] = docs[d],
           UNCHANGED <<tier, link>>
    PROVE  IInv'
<1>1. TypeOK'
  BY Steady DEF TypeOK, Enters
<1>2. \A x \in Calls : LinkStays(x)
  BY DEF LinkStays
<1>3. \A x \in Calls \ {c} : Untouched(x)
  BY <1>2, DocOf DEF Enters, Untouched, DocStays
<1> QED BY <1>1, <1>2, <1>3, CallMoves DEF LinkMove

LEMMA MakeRowSafe ==
    ASSUME IInv, NEW c \in Calls, MakeRow(c)
    PROVE  IInv'
<1>1. call[c] # None /\ call[c].step = "row" /\ link[c] = None /\ New(c) /\ docs[c] = None
      /\ UNCHANGED <<tier, link>> /\ call[c] \in Requests /\ c \in Docs
  BY Steady, Under, DocOf DEF MakeRow, At, CallSound, BeforeInsert, Undoing, Steps
<1> DEFINE row == [owner |-> Mine(c), row |-> TRUE, object |-> FALSE, deleted |-> FALSE]
<1>2. row \in Documents /\ row # None
  <2>1. Mine(c) \in Owners
    BY <1>1 DEF Requests, Mine
  <2>2. row \in Documents
    BY <2>1 DEF Documents
  <2> HIDE DEF row
  <2> QED BY <2>2, NoneIsNoRow
<1> PICK made \in BOOLEAN, heard \in BOOLEAN :
       /\ heard => made
       /\ docs' = IF made THEN [docs EXCEPT ![c] = row] ELSE docs
       /\ IF heard THEN GoTo(c, "upload") ELSE Refuse(c, made)
  BY DEF MakeRow
<1>3. /\ docs' \in [Docs -> Documents \cup {None}] /\ \A d \in Docs \ {c} : docs'[d] = docs[d]
      /\ made => docs'[c] = row
      /\ ~made => docs' = docs
  BY <1>1, <1>2, Steady DEF TypeOK
<1>4. CASE heard
  <2>1. /\ Enters(c, [call[c] EXCEPT !.step = "upload"])
        /\ call'[c].step = "upload" /\ call'[c].doc = call[c].doc /\ call'[c].via = call[c].via
    BY <1>1, <1>4, Steady, GoToIs DEF Steps
  <2>2. CallSound(c)'
    BY <1>1, <1>2, <1>3, <1>4, <2>1, Steady DEF CallSound, Enters, BeforeInsert, Undoing, New, Is, Steps
  <2> QED BY <1>1, <1>3, <2>1, <2>2, OwnDocMoves
<1>5. CASE ~heard
  <2>1. PICK r \in CallFields : Enters(c, r)
    BY <1>5, Steady, RefuseIs
  <2>2. call'[c].step \in {"over", "undone"} /\ (call'[c].step = "undone" => ~made)
    BY <1>5, Steady, RefuseIs
  <2>3. CallSound(c)'
    BY <1>1, <1>3, <2>1, <2>2, OverSound DEF Enters, NothingLeft, Is
  <2> QED BY <1>1, <1>3, <2>1, <2>3, OwnDocMoves
<1> QED BY <1>4, <1>5

LEMMA UploadSafe ==
    ASSUME IInv, NEW c \in Calls, Upload(c)
    PROVE  IInv'
<1>1. call[c] # None /\ call[c].step = "upload" /\ link[c] = None /\ New(c) /\ docs[c] # None
      /\ UNCHANGED <<tier, link>> /\ call[c] \in Requests /\ c \in Docs /\ docs[c] \in Documents
      /\ call[c].via = "api"
  BY Steady, Under, DocOf DEF Upload, At, CallSound, BeforeInsert, Undoing, Steps, TypeOK
<1> PICK made \in BOOLEAN, heard \in BOOLEAN :
       /\ docs' = [docs EXCEPT ![c].object = made]
       /\ call' = [call EXCEPT ![c].step = IF heard THEN "begin" ELSE "unmake", ![c].untidy = made /\ ~heard]
  BY DEF Upload
<1> DEFINE r == [call[c] EXCEPT !.step = IF heard THEN "begin" ELSE "unmake", !.untidy = made /\ ~heard]
<1>2. r \in Requests /\ r.step = (IF heard THEN "begin" ELSE "unmake") /\ r.untidy = (made /\ ~heard)
      /\ r.doc = call[c].doc /\ r.via = call[c].via
  BY <1>1 DEF Requests, Steps
<1>3. r \in CallFields /\ call' = [call EXCEPT ![c] = r]
  BY <1>2, Steady DEF CallFields, TypeOK
<1>4. Enters(c, r)
  <2> HIDE DEF r
  <2> QED BY <1>3, Steady, EnterIs
<1>5. /\ docs'[c] \in Documents /\ docs'[c].object = made
      /\ \A d \in Docs \ {c} : docs'[d] = docs[d]
      /\ docs' \in [Docs -> Documents \cup {None}]
  BY <1>1, Steady DEF TypeOK, Documents
<1>6. docs'[c] # None
  BY <1>5, NoneIsNoRow
<1>7. CallSound(c)'
  <2> HIDE DEF r
  <2>1. call'[c] = r /\ r # None
    BY <1>4 DEF Enters
  <2> QED BY <1>1, <1>2, <1>5, <1>6, <2>1 DEF CallSound, BeforeInsert, Undoing, New, Is, Steps
<1> HIDE DEF r
<1> QED BY <1>1, <1>4, <1>5, <1>7, OwnDocMoves


LEMMA BeginSafe ==
    ASSUME IInv, NEW c \in Calls, BeginShare(c)
    PROVE  IInv'
<1>1. call[c] # None /\ call[c].step = "begin" /\ link[c] = None
      /\ UNCHANGED <<tier, docs, link>> /\ call[c] \in Requests
  BY Steady, Under DEF BeginShare, At, CallSound, BeforeInsert, Steps
<1>2. CASE call' = [call EXCEPT ![c].step = "insert", ![c].tier = tier[Mine(c)]]
  <2> DEFINE r == [call[c] EXCEPT !.step = "insert", !.tier = tier[Mine(c)]]
  <2>1. tier[Mine(c)] \in Tiers
    BY <1>1, Steady DEF TypeOK, Requests, Mine
  <2>2. r \in Requests /\ r.step = "insert" /\ r.doc = call[c].doc /\ r.via = call[c].via
    BY <1>1, <2>1 DEF Requests, Steps
  <2>3. r \in CallFields /\ call' = [call EXCEPT ![c] = r]
    BY <1>2, <2>2, Steady DEF CallFields, TypeOK
  <2> HIDE DEF r
  <2>4. Enters(c, r)
    BY <2>3, Steady, EnterIs
  <2>5. CallSound(c)'
    BY <1>1, <2>2, <2>4, Steady DEF CallSound, Enters, BeforeInsert, Undoing, New, Is, Steps
  <2> QED BY <1>1, <2>4, <2>5, EntryMoves
<1>3. CASE Undo(c)
  <2>1. (\E r \in CallFields : Enters(c, r)) /\ CallSound(c)'
    BY <1>1, <1>3, UndoSound DEF Is
  <2> QED BY <1>1, <2>1, EntryMoves
<1> QED BY <1>2, <1>3 DEF BeginShare

\* A step that touches the call's entry and its link.
LEMMA LinkMoves ==
    ASSUME IInv, NEW c \in Calls, NEW r, Enters(c, r), CallSound(c)', LinkMove,
           link' \in [Calls -> Links \cup {None}], \A x \in Calls \ {c} : link'[x] = link[x],
           UNCHANGED <<tier, docs>>
    PROVE  IInv'
<1>1. TypeOK'
  BY Steady DEF TypeOK, Enters
<1>2. \A x \in Calls \ {c} : Untouched(x)
  BY DEF Enters, Untouched, DocStays, LinkStays
<1> QED BY <1>1, <1>2, CallMoves

LEMMA InsertSafe ==
    ASSUME IInv, NEW c \in Calls, InsertShare(c)
    PROVE  IInv'
<1>1. call[c] # None /\ call[c].step = "insert" /\ link[c] = None
      /\ UNCHANGED <<tier, docs>> /\ call[c] \in Requests
  BY Steady, Under DEF InsertShare, At, CallSound, BeforeInsert, Steps
<1> DEFINE l == [owner |-> Mine(c), doc |-> call[c].doc, address |-> call[c].address,
                 as |-> call[c].tier, state |-> "open"]
<1>2. CASE Undo(c) /\ UNCHANGED link
  <2>1. (\E r \in CallFields : Enters(c, r)) /\ CallSound(c)'
    BY <1>1, <1>2, UndoSound DEF Is
  <2> QED BY <1>1, <1>2, <2>1, EntryMoves
<1>3. ASSUME call[c].tier = "free" => ~Locked(c), CapAllows(c), SlugAllows(c),
             Chosen(c) => ~Taken(c, "open"), link' = [link EXCEPT ![c] = l], GoTo(c, "commit")
      PROVE  IInv'
  <2>1. l \in Links /\ l.state = "open" /\ l.doc = call[c].doc /\ l.owner = Mine(c)
        /\ l.as = call[c].tier /\ l.address = call[c].address
    BY <1>1 DEF Requests, Links, Mine
  <2> HIDE DEF l
  <2>2. l # None
    BY <2>1, NoneIsNoRow
  <2>3. /\ link' \in [Calls -> Links \cup {None}] /\ link'[c] = l
        /\ \A x \in Calls \ {c} : link'[x] = link[x]
    BY <1>3, <2>1, Steady DEF TypeOK
  <2>4. /\ Enters(c, [call[c] EXCEPT !.step = "commit"])
        /\ call'[c].step = "commit" /\ call'[c].doc = call[c].doc /\ call'[c].via = call[c].via
    BY <1>1, <1>3, Steady, GoToIs DEF Steps
  <2>5. CallSound(c)'
    BY <1>1, <2>1, <2>2, <2>3, <2>4, Steady
       DEF CallSound, Enters, At, BeforeInsert, Undoing, New, Is, Steps
  <2>6. l.as = "free" => Free(l.owner, "open") = {} /\ Cardinality(LinksOf(l.owner)) < Cap
    BY <1>3, <2>1 DEF Locked, CapAllows, WithinCap, Count, Free
  <2>7. l.address # None => \A x \in Calls : Is(x, "made") \/ Is(x, "open") => link[x].address # l.address
    BY <1>3, <2>1 DEF SlugAllows, Chosen, Taken
  <2>8. Inserted(c)
    BY <1>1, <1>3, <2>1, <2>6, <2>7 DEF Inserted
  <2> QED BY <1>1, <2>3, <2>4, <2>5, <2>8, LinkMoves DEF LinkMove
<1> QED BY <1>1, <1>2, <1>3 DEF InsertShare

LEMMA CommitSafe ==
    ASSUME IInv, NEW c \in Calls, CommitShare(c)
    PROVE  IInv'
<1>1. /\ call[c] # None /\ call[c].step = "commit" /\ Is(c, "open") /\ link[c] # None
      /\ link[c].doc = call[c].doc /\ link[c] \in Links
      /\ UNCHANGED <<tier, docs>>
  BY Steady, States DEF CommitShare, At, CallSound, Steps, Is
<1>2. \/ link' = [link EXCEPT ![c].state = "made"] /\ (GoTo(c, "lock") \/ End(c) \/ Undo(c))
      \/ link' = [link EXCEPT ![c] = None] /\ Undo(c)
  BY DEF CommitShare
<1>3. Settled(c)
  BY <1>1, <1>2 DEF Settled
<1>4. /\ link' \in [Calls -> Links \cup {None}]
      /\ \A x \in Calls \ {c} : link'[x] = link[x]
      /\ link'[c] # None => link'[c].doc = call[c].doc /\ link'[c].state = "made"
  BY <1>1, <1>2, Steady DEF TypeOK, Links
<1>5. ~Is(c, "open")'
  BY <1>4 DEF Is
<1>6. CASE Undo(c)
  <2>1. (\E r \in CallFields : Enters(c, r)) /\ CallSound(c)'
    BY <1>1, <1>4, <1>5, <1>6, UndoSound
  <2> QED BY <1>1, <1>3, <1>4, <2>1, LinkMoves DEF LinkMove
<1>7. CASE End(c)
  <2>1. Enters(c, Over("over")) /\ call'[c].step = "over"
    BY <1>7, Steady, EndIs
  <2>2. CallSound(c)'
    BY <1>5, <2>1, OverSound DEF Enters
  <2> QED BY <1>1, <1>3, <1>4, <2>1, <2>2, LinkMoves DEF LinkMove
<1>8. CASE GoTo(c, "lock")
  <2>1. /\ Enters(c, [call[c] EXCEPT !.step = "lock"])
        /\ call'[c].step = "lock" /\ call'[c].doc = call[c].doc /\ call'[c].via = call[c].via
    BY <1>1, <1>8, Steady, GoToIs DEF Steps
  <2>2. CallSound(c)'
    BY <1>1, <1>4, <1>5, <2>1, Steady DEF CallSound, Enters, BeforeInsert, Undoing, New, Is, Steps
  <2> QED BY <1>1, <1>3, <1>4, <2>1, <2>2, LinkMoves DEF LinkMove
<1> QED BY <1>2, <1>6, <1>7, <1>8

LEMMA LockSafe ==
    ASSUME IInv, NEW c \in Calls, SetLockDeck(c)
    PROVE  IInv'
<1>1. /\ call[c] # None /\ call[c].step = "lock" /\ ~Is(c, "open")
      /\ link[c] # None => link[c].doc = call[c].doc
      /\ UNCHANGED <<tier, docs, link>>
  BY Steady DEF SetLockDeck, At, CallSound, Steps
<1>2. CASE Undo(c)
  <2>1. (\E r \in CallFields : Enters(c, r)) /\ CallSound(c)'
    BY <1>1, <1>2, UndoSound DEF Is
  <2> QED BY <1>1, <2>1, EntryMoves
<1> QED BY <1>1, <1>2, EndSafe DEF SetLockDeck

LEMMA DieSafe ==
    ASSUME IInv, NEW c \in Calls, Die(c)
    PROVE  IInv'
<1>1. ~Is(c, "open") /\ UNCHANGED <<tier, docs, link>> /\ End(c)
  BY Steady DEF Die, At, CallSound, Steps
<1> QED BY <1>1, EndSafe


\* What the deletion of a document's row does to the rows of its links.
LEMMA DeleteRowIs ==
    ASSUME TypeOK, NEW d \in Docs, docs[d] # None, DeleteRow(d)
    PROVE  /\ docs' \in [Docs -> Documents \cup {None}]
           /\ docs'[d] # None /\ ~docs'[d].row /\ docs'[d].object = docs[d].object
           /\ \A x \in Docs \ {d} : docs'[x] = docs[x]
           /\ link' \in [Calls -> Links \cup {None}]
           /\ \A x \in Calls : LinkStays(x)
           /\ \A x \in Calls : Is(x, "made") /\ link[x].doc = d => ~Is(x, "made")'
<1>1. docs[d] \in Documents
  BY DEF TypeOK
<1>2. /\ docs' \in [Docs -> Documents \cup {None}]
      /\ docs'[d] = [docs[d] EXCEPT !.row = FALSE, !.deleted = FALSE]
      /\ \A x \in Docs \ {d} : docs'[x] = docs[x]
  BY <1>1 DEF DeleteRow, TypeOK, Documents
<1>3. docs'[d] \in Documents /\ ~docs'[d].row /\ docs'[d].object = docs[d].object
  BY <1>1, <1>2 DEF Documents
<1>4. docs'[d] # None
  BY <1>3, NoneIsNoRow
<1>5. ASSUME NEW x \in Calls
      PROVE  /\ link'[x] \in Links \cup {None} /\ LinkStays(x)
             /\ Is(x, "made") /\ link[x].doc = d => ~Is(x, "made")'
  <2>1. link'[x] = IF x \in On(d) THEN [link[x] EXCEPT !.state = "gone"] ELSE link[x]
    BY DEF DeleteRow
  <2>2. CASE x \in On(d)
    <3>1. Is(x, "made") /\ link[x].address = None /\ link[x] \in Links
      BY <2>2, States DEF DeleteRow, MayDelete, On, Is
    <3>2. link'[x] \in Links /\ link'[x].state = "gone"
      BY <2>1, <2>2, <3>1 DEF Links
    <3> QED BY <2>1, <2>2, <3>1, <3>2 DEF LinkStays, Is
  <2>3. CASE x \notin On(d)
    BY <2>1, <2>3 DEF LinkStays, On, TypeOK
  <2> QED BY <2>2, <2>3
<1>6. link' \in [Calls -> Links \cup {None}]
  <2>1. DOMAIN link' = Calls /\ link' = [x \in Calls |-> link'[x]]
    BY DEF DeleteRow
  <2> QED BY <1>5, <2>1
<1> QED BY <1>2, <1>3, <1>4, <1>5, <1>6

LEMMA DeleteMoves ==
    ASSUME IInv, NEW c \in Calls, docs[c] # None, DeleteRow(c), NEW r, Enters(c, r), CallSound(c)',
           UNCHANGED tier
    PROVE  IInv'
<1>1. c \in Docs /\ TypeOK
  BY Steady, DocOf
<1>2. TypeOK'
  BY <1>1, DeleteRowIs DEF TypeOK, Enters
<1>3. \A x \in Calls : LinkStays(x)
  BY <1>1, DeleteRowIs
<1>4. \A x \in Calls \ {c} : Untouched(x)
  BY <1>1, <1>3, DeleteRowIs, DocOf DEF Enters, Untouched, DocStays
<1> QED BY <1>2, <1>3, <1>4, CallMoves DEF LinkMove

LEMMA UndoRowSafe ==
    ASSUME IInv, NEW c \in Calls, UndoRow(c)
    PROVE  IInv'
<1>1. /\ call[c] # None /\ call[c].step = "undo" /\ ~Is(c, "open") /\ New(c) /\ docs[c] # None
      /\ link[c] # None => link[c].doc = c
      /\ call[c].via = "api" /\ call[c] \in Requests /\ c \in Docs /\ UNCHANGED tier
  BY Steady, Under, DocOf DEF UndoRow, At, CallSound, Undoing, New, Steps
<1>2. CASE DeleteRow(c) /\ GoTo(c, "erase")
  <2>1. /\ Enters(c, [call[c] EXCEPT !.step = "erase"])
        /\ call'[c].step = "erase" /\ call'[c].doc = call[c].doc /\ call'[c].via = call[c].via
    BY <1>1, <1>2, Steady, GoToIs DEF Steps
  <2>2. /\ docs'[c] # None /\ ~docs'[c].row /\ ~Is(c, "made")'
        /\ link'[c] # None => link[c] # None /\ link'[c].doc = link[c].doc
        /\ ~Is(c, "open")'
    <3>1. /\ docs'[c] # None /\ ~docs'[c].row /\ LinkStays(c)
          /\ Is(c, "made") /\ link[c].doc = c => ~Is(c, "made")'
      BY <1>1, <1>2, Steady, DeleteRowIs
    <3> QED BY <1>1, <3>1, Steady, States DEF LinkStays, Is, Links
  <2>3. CallSound(c)'
    BY <1>1, <2>1, <2>2 DEF CallSound, Enters, BeforeInsert, Undoing, New, Steps
  <2> QED BY <1>1, <1>2, <2>1, <2>3, DeleteMoves
<1>3. CASE call' = [call EXCEPT ![c].step = "erase", ![c].untidy = TRUE] /\ UNCHANGED <<docs, link>>
  <2> DEFINE r == [call[c] EXCEPT !.step = "erase", !.untidy = TRUE]
  <2>1. r \in Requests /\ r.step = "erase" /\ r.untidy /\ r.doc = call[c].doc /\ r.via = call[c].via
    BY <1>1 DEF Requests, Steps
  <2>2. r \in CallFields /\ call' = [call EXCEPT ![c] = r]
    BY <1>3, <2>1, Steady DEF CallFields, TypeOK
  <2> HIDE DEF r
  <2>3. Enters(c, r)
    BY <2>2, Steady, EnterIs
  <2>4. CallSound(c)'
    BY <1>1, <1>3, <2>1, <2>3 DEF CallSound, Enters, BeforeInsert, Undoing, New, Is, Steps
  <2> QED BY <1>1, <1>3, <2>3, <2>4, EntryMoves
<1> QED BY <1>2, <1>3 DEF UndoRow

LEMMA UnmakeSafe ==
    ASSUME IInv, NEW c \in Calls, UnmakeRow(c)
    PROVE  IInv'
<1>1. /\ call[c] # None /\ call[c].step = "unmake" /\ link[c] = None /\ docs[c] # None
      /\ call[c].untidy \/ ~docs[c].object
      /\ c \in Docs /\ UNCHANGED tier
  BY Steady, DocOf DEF UnmakeRow, At, CallSound, BeforeInsert, Undoing, Steps, New
<1>2. CASE DeleteRow(c) /\ Refuse(c, FALSE)
  <2>1. PICK r \in CallFields : Enters(c, r)
    BY <1>2, Steady, RefuseIs
  <2>2. call'[c].step \in {"over", "undone"} /\ (call'[c].step = "undone" => ~call[c].untidy)
    BY <1>2, Steady, RefuseIs
  <2>3. /\ docs'[c] # None /\ ~docs'[c].row /\ docs'[c].object = docs[c].object /\ LinkStays(c)
    BY <1>1, <1>2, Steady, DeleteRowIs
  <2>4. link'[c] = None
    BY <1>1, <2>3 DEF LinkStays, Is
  <2>5. CallSound(c)'
    BY <1>1, <2>1, <2>2, <2>3, <2>4, OverSound DEF Enters, NothingLeft, Is
  <2> QED BY <1>1, <1>2, <2>1, <2>5, DeleteMoves
<1> QED BY <1>1, <1>2, EndSafe DEF UnmakeRow, Is

LEMMA UndoObjectSafe ==
    ASSUME IInv, NEW c \in Calls, UndoObject(c)
    PROVE  IInv'
<1>1. /\ call[c] # None /\ call[c].step = "erase" /\ ~Is(c, "open") /\ docs[c] # None
      /\ call[c].untidy \/ (~docs[c].row /\ ~Is(c, "made"))
      /\ c \in Docs /\ docs[c] \in Documents /\ UNCHANGED <<tier, link>>
  BY Steady, DocOf DEF UndoObject, At, CallSound, Undoing, Steps, New, TypeOK
<1>2. CASE docs' = [docs EXCEPT ![c].object = FALSE] /\ Refuse(c, FALSE)
  <2>1. PICK r \in CallFields : Enters(c, r)
    BY <1>2, Steady, RefuseIs
  <2>2. call'[c].step \in {"over", "undone"} /\ (call'[c].step = "undone" => ~call[c].untidy)
    BY <1>2, Steady, RefuseIs
  <2>3. /\ docs'[c].row = docs[c].row /\ ~docs'[c].object
        /\ docs' \in [Docs -> Documents \cup {None}]
        /\ \A d \in Docs \ {c} : docs'[d] = docs[d]
    BY <1>1, <1>2, Steady DEF TypeOK, Documents
  <2>4. CallSound(c)'
    BY <1>1, <2>1, <2>2, <2>3, OverSound DEF Enters, NothingLeft, Is
  <2> QED BY <1>1, <2>1, <2>3, <2>4, OwnDocMoves
<1> QED BY <1>1, <1>2, EndSafe DEF UndoObject

-----------------------------------------------------------------------------
(* The owner's steps, and the theorems.                                    *)

\* A step of nobody's call.
LEMMA OwnerMoves ==
    ASSUME IInv, TypeOK', UNCHANGED call, \A x \in Calls : LinkStays(x) /\ DocStays(x)
    PROVE  IInv'
<1>1. \A x \in Calls : Untouched(x)
  BY DEF Untouched
<1>2. CallInv'
  BY <1>1, OthersKeep DEF CallInv, IInv
<1> QED BY <1>2, CapMoves, AddressMoves DEF IInv, LinkMove

LEMMA DeleteShareSafe ==
    ASSUME IInv, NEW c \in Calls, DeleteShare(c)
    PROVE  IInv'
<1>1. /\ Is(c, "made") /\ link[c].address = None /\ link[c] \in Links
      /\ link' = [link EXCEPT ![c].state = "gone"] /\ UNCHANGED <<tier, docs, call>>
  BY Steady, States DEF DeleteShare, MayDelete, Is
<1>2. /\ link'[c] = [link[c] EXCEPT !.state = "gone"] /\ link'[c] \in Links
      /\ link' \in [Calls -> Links \cup {None}]
      /\ \A x \in Calls \ {c} : link'[x] = link[x]
  BY <1>1, Steady DEF TypeOK, Links
<1>3. TypeOK'
  BY <1>1, <1>2, Steady DEF TypeOK
<1>4. \A x \in Calls : LinkStays(x) /\ DocStays(x)
  BY <1>1, <1>2 DEF LinkStays, DocStays
<1> QED BY <1>1, <1>3, <1>4, OwnerMoves

LEMMA DeleteDocumentSafe ==
    ASSUME IInv, NEW d \in Docs, DeleteDocument(d)
    PROVE  IInv'
<1>1. docs[d] # None /\ docs[d] \in Documents /\ TypeOK /\ UNCHANGED <<tier, link, call>>
  BY DEF DeleteDocument, IInv, TypeOK
<1>2. /\ docs'[d] \in Documents /\ docs'[d].row = docs[d].row /\ docs'[d].object = docs[d].object
      /\ \A x \in Docs \ {d} : docs'[x] = docs[x]
      /\ docs' \in [Docs -> Documents \cup {None}]
  BY <1>1 DEF DeleteDocument, TypeOK, Documents
<1>3. docs'[d] # None
  BY <1>2, NoneIsNoRow
<1>4. TypeOK'
  BY <1>1, <1>2 DEF TypeOK
<1>5. \A x \in Calls : LinkStays(x) /\ DocStays(x)
  BY <1>1, <1>2, <1>3, DocOf DEF LinkStays, DocStays
<1> QED BY <1>1, <1>4, <1>5, OwnerMoves

LEMMA ChangeTierSafe ==
    ASSUME IInv, NEW o \in Owners, ChangeTier(o)
    PROVE  IInv'
<1>1. TypeOK'
  BY DEF ChangeTier, IInv, TypeOK
<1>2. \A x \in Calls : LinkStays(x) /\ DocStays(x)
  BY DEF ChangeTier, LinkStays, DocStays
<1> QED BY <1>1, <1>2, OwnerMoves DEF ChangeTier

LEMMA InitSafe == Init => IInv
<1> SUFFICES ASSUME Init PROVE IInv
  OBVIOUS
<1>1. TypeOK
  <2>1. \A d \in Owners : [owner |-> d, row |-> TRUE, object |-> TRUE, deleted |-> FALSE] \in Documents
    BY DEF Documents
  <2>2. docs \in [Docs -> Documents \cup {None}]
    BY <2>1 DEF Init
  <2> QED BY <2>2 DEF Init, TypeOK
<1>2. CallInv
  BY LinksAssumption DEF Init, CallInv, CallSound, Docs, Is
<1>3. CapInv
  <2>1. \A o \in Owners : Free(o, "open") = {} /\ Free(o, "made") = {}
    BY DEF Init, Free, Is
  <2> QED BY <2>1, FS_EmptySet, LinksAssumption DEF CapInv, CapSound
<1>4. GoneInv /\ AddressKept
  BY DEF Init, GoneInv, AddressKept, Is
<1> QED BY <1>1, <1>2, <1>3, <1>4 DEF IInv

LEMMA StepSafe == IInv /\ [Next]_vars => IInv'
<1> SUFFICES ASSUME IInv, [Next]_vars PROVE IInv'
  OBVIOUS
<1>1. ASSUME NEW c \in Calls, Make(c) PROVE IInv'
  BY <1>1, RequestSafe, QuotaSafe, FindSafe, MakeRowSafe, UploadSafe, BeginSafe, InsertSafe, CommitSafe,
     LockSafe, UndoRowSafe, UnmakeSafe, UndoObjectSafe, DieSafe DEF Make
<1>2. CASE UNCHANGED vars
  <2>1. UNCHANGED <<tier, docs, link, call>>
    BY <1>2 DEF vars
  <2>2. TypeOK'
    BY <2>1 DEF IInv, TypeOK
  <2>3. \A x \in Calls : LinkStays(x) /\ DocStays(x)
    BY <2>1 DEF LinkStays, DocStays
  <2> QED BY <2>1, <2>2, <2>3, OwnerMoves
<1> QED BY <1>1, <1>2, DeleteShareSafe, DeleteDocumentSafe, ChangeTierSafe DEF Next

LEMMA LinksInvariant == Spec => []IInv
BY InitSafe, StepSafe, PTL DEF Spec

\* Every reachable state has the types of TypeOK.
THEOREM TypeCorrect == Spec => []TypeOK
<1>1. IInv => TypeOK
  BY DEF IInv
<1> QED BY <1>1, LinksInvariant, PTL

\* The links made on the free plan are within the cap (enforce_share_cap), for
\* every cap and however many creations, deletions and changes of plan overlap.
THEOREM FreeCapHolds == Spec => []FreeCap
<1>1. IInv => FreeCap
  BY DEF IInv, CapInv, CapSound, Free, FreeCap
<1> QED BY <1>1, LinksInvariant, PTL

\* A chosen address is one link's for ever (validate_share_slug,
\* block_custom_slug_delete).
THEOREM AddressKeptHolds == Spec => []AddressKept
<1>1. IInv => AddressKept
  BY DEF IInv
<1> QED BY <1>1, LinksInvariant, PTL

\* A refused call that says it undid its document did (rollbackDocument).
THEOREM RefusedLeavesNothingHolds == Spec => []RefusedLeavesNothing
<1>1. IInv => RefusedLeavesNothing
  BY DEF IInv, CallInv, CallSound, RefusedLeavesNothing, NothingLeft, At
<1> QED BY <1>1, LinksInvariant, PTL

-----------------------------------------------------------------------------
(***************************************************************************)
(* What holds of Reading for any document, thresholds and order of events. *)
(* The session counts only from `since`, which is set while the tab is     *)
(* shown and cleared by hiding it (Counts).  A section is credited only    *)
(* after a streak longer than one sample, and while there is a streak the  *)
(* next sample is owed no more than the attention since (Attention).       *)
(* The lemmas go by what each function of session.ts and sections-v2.ts    *)
(* keeps of its object; then there is one for each action.                 *)
(***************************************************************************)
RowFields == [active : Nat, scroll : 0 .. MaxScroll, dwell : Dwell, gone : BOOLEAN]

PageTypes == /\ now \in Times
             /\ page \in Pages
             /\ session \in SessionFields
             /\ tracker \in TrackerFields
             /\ watch \in Watches

\* A request is about a row there is.
RowTypes == /\ rows \in Seq(RowFields) /\ Len(rows) <= MaxSessions
            /\ session.id <= Len(rows)
            /\ wire \subseteq Payloads
            /\ \A p \in wire : p.id <= Len(rows)

\* The timers run only while the listeners are bound, and nothing is sent
\* before start_session was answered.
Phases == /\ session.timers => session.bound
          /\ page.step = "calling" => session.bound
          /\ page.step \in {"gate", "warmup", "calling"} => ~session.timers /\ session.id = 0 /\ session.sent = Null
          /\ page.step \in {"gate", "warmup"} =>
                ~session.bound /\ ~tracker.on /\ tracker.streak = Nothing /\ session.active = 0

\* A session that counts and still listens is in a tab that is shown, and what it
\* will have counted by now is no more than that; one that was stopped counts on
\* from what was shown, to Idle after the last act it heard.
Counts(s) == /\ s.active <= watch.shown + (IF s.bound THEN 0 ELSE Idle)
             /\ s.acted <= now
             /\ s.since # Null => s.since <= now
             /\ s.bound /\ s.since # Null => page.visible /\ s.active + (now - s.since) <= watch.shown
             /\ ~s.bound /\ s.since # Null => s.active + s.acted - s.since <= watch.shown

\* The tracker never takes the reader to be there later than the reader was; a
\* sample that is not the first since the return is covered by attention, but
\* for what the next sign of the reader will show to have been attention.
Attention == /\ IsFiniteSet(Credited) /\ Cardinality(Credited) <= watch.engaged
             /\ watch.last <= now
             /\ watch.idle > 0 => now - watch.last > Idle
             /\ tracker.sampled <= now
             /\ tracker.on => tracker.acted <= watch.last /\ session.bound
             /\ tracker.frames => tracker.on
             /\ tracker.frames /\ ~page.visible => tracker.streak = Nothing
             /\ tracker.frames /\ tracker.streak # Nothing =>
                   Cardinality(Credited) + Elapsed(tracker) <= watch.engaged + watch.idle

ReadingInv == PageTypes /\ RowTypes /\ Phases /\ Counts(session) /\ Attention

LEMMA ReadingConstants ==
  /\ Idle \in Nat /\ Warmup \in Nat /\ Beat \in Nat /\ Longest \in Nat /\ Qualified \in Nat
  /\ MaxScroll \in Nat /\ MaxSessions \in Nat /\ MaxTime \in Nat /\ Qualified > 2
  /\ Null \notin Int /\ Null \notin Payloads
  /\ 0 \in Times /\ Times \subseteq Nat
  /\ Nothing \in Dwell
  /\ NoSession \in SessionFields /\ NoTracker \in TrackerFields
  <1>1. /\ Idle \in Nat /\ Warmup \in Nat /\ Beat \in Nat /\ Longest \in Nat /\ Qualified \in Nat
        /\ MaxScroll \in Nat /\ MaxSessions \in Nat /\ MaxTime \in Nat /\ Null \notin Int /\ Qualified > 2
    BY ReadingAssumption
  <1>2. Null \notin Payloads
    <2>1. Payloads \subseteq [id : Nat, active : Nat, scroll : Nat, dwell : [Sections -> Nat]]
      BY <1>1 DEF Payloads, Dwell
    <2> QED
      BY <2>1, ReadingAssumption
  <1>3. 0 \in Times /\ Times \subseteq Nat
    BY <1>1 DEF Times
  <1>4. Nothing \in Dwell
    BY DEF Nothing, Dwell
  <1>5. NoSession \in SessionFields
    BY <1>1, <1>3 DEF NoSession, SessionFields
  <1>6. NoTracker \in TrackerFields
    BY <1>3, <1>4 DEF NoTracker, TrackerFields
  <1> QED
    BY <1>1, <1>2, <1>3, <1>4, <1>5, <1>6

LEMMA ReadingInvImplies == ReadingInv => ReadingTypes /\ HiddenNeverCounted /\ DwellIsAttention
  <1>1. ReadingInv => ReadingTypes
    <2>1. RowTypes => \A i \in DOMAIN rows : rows[i] \in RowFields
      BY DEF RowTypes
    <2> QED
      BY <2>1 DEF ReadingInv, PageTypes, RowTypes, RowFields, ReadingTypes
  <1>2. ReadingInv => HiddenNeverCounted /\ DwellIsAttention
    BY ReadingConstants DEF ReadingInv, Counts, Attention, HiddenNeverCounted, DwellIsAttention
  <1> QED
    BY <1>1, <1>2

LEMMA NothingCredited == ASSUME tracker.qualified = Nothing PROVE Credited = {}
  BY DEF Credited, Nothing

LEMMA ReadingStarts == ReadingInit => ReadingInv
  <1> SUFFICES ASSUME ReadingInit PROVE ReadingInv
    OBVIOUS
  <1>1. PageTypes
    BY ReadingConstants DEF ReadingInit, PageTypes, Pages, PageSteps, Watches, Clamp
  <1>2. RowTypes
    <2>1. rows = << >> /\ << >> \in Seq(RowFields) /\ Len(<< >>) = 0
      BY DEF ReadingInit
    <2> QED
      BY <2>1, ReadingConstants DEF ReadingInit, RowTypes, NoSession
  <1>3. Phases /\ Counts(session)
    BY ReadingConstants DEF ReadingInit, Phases, Counts, NoSession, NoTracker
  <1>4. Attention
    <2>1. Credited = {}
      BY NothingCredited DEF ReadingInit, NoTracker
    <2> QED
      BY <2>1, FS_EmptySet DEF ReadingInit, Attention, NoTracker
  <1> QED
    BY <1>1, <1>2, <1>3, <1>4 DEF ReadingInv

\* What the functions of session.ts keep of the object, and what they may add.
LEMMA TickActiveFacts ==
  ASSUME NEW s \in SessionFields, now \in Times
  PROVE  /\ TickActive(s) \in SessionFields
         /\ TickActive(s).id = s.id /\ TickActive(s).bound = s.bound
         /\ TickActive(s).sent = s.sent /\ TickActive(s).timers = s.timers
         /\ TickActive(s).acted = s.acted
         /\ s.since = Null => TickActive(s) = s
         /\ s.since # Null /\ s.since <= now =>
               /\ TickActive(s).active <= s.active + (now - s.since)
               /\ TickActive(s).active <= s.active \/ TickActive(s).active <= s.active + (s.acted + Idle - s.since)
               /\ TickActive(s).since \in {now, Null}
  <1>0. s.active \in Nat /\ s.since \in Times \cup {Null} /\ s.acted \in Nat /\ now \in Nat /\ Idle \in Nat
        /\ Times \subseteq Nat
    BY ReadingConstants DEF SessionFields
  <1>1. CASE s.since = Null
    BY <1>1, ReadingConstants, <1>0 DEF TickActive
  <1>2. CASE s.since # Null
    <2>m. PICK m : m = Smaller(now, s.acted + Idle)
      OBVIOUS
    <2>e. PICK elapsed : elapsed = Larger(0, m - s.since)
      OBVIOUS
    <2>i. PICK since : since = IF now <= s.acted + Idle THEN now ELSE Null
      OBVIOUS
    <2>d. PICK dirty : dirty = (s.dirty \/ elapsed > 0)
      OBVIOUS
    <2>0. s.since \in Nat
      BY <1>0, <1>2
    <2>1. m \in Nat /\ m <= now
      BY <1>0, <2>m DEF Smaller
    <2>2. elapsed \in Nat /\ (s.since <= now => elapsed <= now - s.since)
          /\ (elapsed = 0 \/ elapsed <= s.acted + Idle - s.since)
      BY <1>0, <2>0, <2>1, <2>e, <2>m DEF Larger, Smaller
    <2>3. since \in Times \cup {Null} /\ since \in {now, Null} /\ dirty \in BOOLEAN
      BY <2>i, <2>d
    <2>4. TickActive(s) = [s EXCEPT !.active = @ + elapsed, !.dirty = dirty, !.since = since]
      BY <1>2, <2>m, <2>e, <2>i, <2>d DEF TickActive
    <2>5. s.active + elapsed \in Nat
      BY <1>0, <2>2
    <2>6. TickActive(s) \in SessionFields
      BY <2>3, <2>4, <2>5 DEF SessionFields
    <2>7. TickActive(s).active = s.active + elapsed /\ TickActive(s).since = since
      BY <2>4 DEF SessionFields
    <2>8. /\ TickActive(s).id = s.id /\ TickActive(s).bound = s.bound
          /\ TickActive(s).sent = s.sent /\ TickActive(s).timers = s.timers
          /\ TickActive(s).acted = s.acted
      BY <2>4 DEF SessionFields
    <2>9. s.since <= now => s.active + elapsed <= s.active + (now - s.since)
      BY <1>0, <2>0, <2>2
    <2>10. s.active + elapsed <= s.active \/ s.active + elapsed <= s.active + (s.acted + Idle - s.since)
      BY <1>0, <2>0, <2>2
    <2> QED
      BY <1>2, <2>3, <2>6, <2>7, <2>8, <2>9, <2>10
  <1> QED
    BY <1>1, <1>2

\* Counting up to now keeps to what was shown.
LEMMA TickCounts ==
  ASSUME NEW s \in SessionFields, now \in Times, watch \in Watches, Counts(s)
  PROVE  Counts(TickActive(s))
  <1>u. PICK u : u = TickActive(s)
    OBVIOUS
  <1>1. CASE s.since = Null
    BY <1>1, TickActiveFacts
  <1>2. CASE s.since # Null
    <2>1. /\ u.bound = s.bound /\ u.acted = s.acted /\ u.since \in {now, Null}
          /\ u.active <= s.active + (now - s.since)
          /\ u.active <= s.active \/ u.active <= s.active + (s.acted + Idle - s.since)
          /\ u \in SessionFields
      BY <1>2, <1>u, TickActiveFacts DEF Counts
    <2>2. /\ s.active \in Nat /\ s.since \in Nat /\ s.acted \in Nat /\ now \in Nat /\ Idle \in Nat
          /\ u.active \in Nat /\ watch.shown \in Nat
      BY <1>2, <2>1, ReadingConstants DEF SessionFields, Watches
    <2>s. u.since # Null => u.since = now
      BY <2>1
    <2>3. CASE s.bound
      <3>1. page.visible /\ s.acted <= now /\ s.active + (now - s.since) <= watch.shown
        BY <1>2, <2>3 DEF Counts
      <3>2. u.active <= watch.shown /\ u.active + (now - now) <= watch.shown
        BY <2>1, <2>2, <3>1
      <3>3. u.since # Null => u.since <= now /\ page.visible /\ u.active + (now - u.since) <= watch.shown
        BY <2>2, <2>s, <3>1, <3>2
      <3>4. u.bound /\ u.acted <= now
        BY <2>1, <2>3, <3>1
      <3>5. Counts(u)
        BY <2>2, <3>2, <3>3, <3>4 DEF Counts
      <3> QED
        BY <1>u, <3>5
    <2>4. CASE ~s.bound
      <3>1. s.acted <= now /\ s.active <= watch.shown + Idle /\ s.active + s.acted - s.since <= watch.shown
        BY <1>2, <2>4 DEF Counts
      <3>2. u.active <= watch.shown + Idle /\ u.active + s.acted - now <= watch.shown
        BY <2>1, <2>2, <3>1
      <3>3. u.since # Null => u.since <= now /\ u.active + u.acted - u.since <= watch.shown
        BY <2>1, <2>2, <2>s, <3>2
      <3>4. ~u.bound /\ u.acted <= now
        BY <2>1, <2>4, <3>1
      <3>5. Counts(u)
        BY <2>2, <3>2, <3>3, <3>4 DEF Counts
      <3> QED
        BY <1>u, <3>5
    <2> QED
      BY <1>u, <2>3, <2>4
  <1> QED
    BY <1>1, <1>2

LEMMA MaxScrollFacts ==
  ASSUME NEW s \in SessionFields, page \in Pages
  PROVE  /\ UpdateMaxScroll(s) \in SessionFields
         /\ UpdateMaxScroll(s).id = s.id /\ UpdateMaxScroll(s).bound = s.bound
         /\ UpdateMaxScroll(s).sent = s.sent /\ UpdateMaxScroll(s).timers = s.timers
         /\ UpdateMaxScroll(s).active = s.active /\ UpdateMaxScroll(s).since = s.since
         /\ UpdateMaxScroll(s).acted = s.acted
  BY DEF UpdateMaxScroll, SessionFields, Pages

LEMMA SnapshotTypes == ASSUME NEW t \in TrackerFields PROVE Snapshot(t) \in Dwell
  BY DEF Snapshot, TrackerFields, Dwell

\* What is sent names the session's row.
LEMMA FlushedFacts ==
  ASSUME NEW s \in SessionFields, NEW t \in TrackerFields, now \in Times, page \in Pages
  PROVE  /\ Flushed(s, t) \subseteq Payloads
         /\ \A p \in Flushed(s, t) : p.id = s.id
         /\ s.id = 0 => Flushed(s, t) = {}
  <1>u. PICK u : u = UpdateMaxScroll(TickActive(s))
    OBVIOUS
  <1>1. u \in SessionFields /\ u.id = s.id
    BY <1>u, TickActiveFacts, MaxScrollFacts
  <1>2. s.id # 0 => [id |-> u.id, active |-> u.active, scroll |-> u.scroll, dwell |-> Snapshot(t)] \in Payloads
    BY <1>1, SnapshotTypes, ReadingConstants DEF SessionFields, Payloads
  <1>3. Flushed(s, t) = IF s.sent # Null \/ s.id = 0 \/ (t.entered = {} /\ ~u.dirty) THEN {}
          ELSE {[id |-> u.id, active |-> u.active, scroll |-> u.scroll, dwell |-> Snapshot(t)]}
    BY <1>u DEF Flushed
  <1> QED
    BY <1>1, <1>2, <1>3

LEMMA FlushFacts ==
  ASSUME NEW s \in SessionFields, NEW t \in TrackerFields, now \in Times, page \in Pages, Flush(s, t)
  PROVE  /\ session' \in SessionFields
         /\ session'.id = s.id /\ session'.bound = s.bound /\ session'.timers = s.timers
         /\ s.id = 0 => session' = s
         /\ session'.acted = s.acted
         /\ \/ session'.active = s.active /\ session'.since = s.since
            \/ session'.active = TickActive(s).active /\ session'.since = TickActive(s).since
         /\ wire' = wire \cup Flushed(s, t)
  <1>1. CASE s.sent # Null \/ s.id = 0
    BY <1>1 DEF Flush
  <1>2. CASE ~(s.sent # Null \/ s.id = 0)
    <2>u. PICK u : u = UpdateMaxScroll(TickActive(s))
      OBVIOUS
    <2>p. PICK p : p = IF Flushed(s, t) = {} THEN Null ELSE (CHOOSE x \in Flushed(s, t) : TRUE)
      OBVIOUS
    <2>1. /\ u \in SessionFields /\ u.id = s.id /\ u.bound = s.bound /\ u.timers = s.timers
          /\ u.active = TickActive(s).active /\ u.since = TickActive(s).since
          /\ u.acted = s.acted
      BY <2>u, TickActiveFacts, MaxScrollFacts
    <2>2. p \in Payloads \cup {Null}
      BY <2>p, FlushedFacts
    <2>3. session' = [u EXCEPT !.sent = p]
      BY <1>2, <2>u, <2>p DEF Flush
    <2>4. session' \in SessionFields
      BY <2>1, <2>2, <2>3 DEF SessionFields
    <2>5. session'.id = u.id /\ session'.bound = u.bound /\ session'.timers = u.timers
          /\ session'.active = u.active /\ session'.since = u.since /\ session'.acted = u.acted
      BY <2>1, <2>3 DEF SessionFields
    <2> QED
      BY <1>2, <2>1, <2>4, <2>5 DEF Flush
  <1> QED
    BY <1>1, <1>2

LEMMA FlushCounts ==
  ASSUME NEW s \in SessionFields, tracker \in TrackerFields, now \in Times, page \in Pages, watch \in Watches,
         Flush(s, tracker), Counts(s), UNCHANGED <<now, page, watch>>
  PROVE  Counts(session)'
  <1>1. /\ session'.bound = s.bound /\ session'.acted = s.acted
        /\ \/ session'.active = s.active /\ session'.since = s.since
           \/ session'.active = TickActive(s).active /\ session'.since = TickActive(s).since
    BY FlushFacts
  <1>2. TickActive(s).bound = s.bound /\ TickActive(s).acted = s.acted
    BY TickActiveFacts
  <1>u. PICK u : u = TickActive(s)
    OBVIOUS
  <1>3. Counts(u)
    BY <1>u, TickCounts
  <1> QED
    BY <1>1, <1>2, <1>u, <1>3 DEF Counts

LEMMA SessionFacts ==
  ASSUME NEW s \in SessionFields, now \in Times, page \in Pages
  PROVE  /\ Active(s) \in SessionFields /\ Active(s).id = s.id /\ Active(s).bound = s.bound
         /\ Active(s).timers = s.timers /\ Active(s).active = s.active /\ Active(s).sent = s.sent
         /\ Active(s).since = IF s.since = Null /\ page.visible THEN now ELSE s.since
         /\ Active(s).acted = now /\ Started(s).acted = s.acted /\ Stopped(s).acted = s.acted
         /\ Started(s) \in SessionFields /\ Started(s).id = s.id /\ Started(s).bound
         /\ Started(s).timers = s.timers /\ Started(s).active = s.active /\ Started(s).sent = s.sent
         /\ Started(s).since = IF page.visible THEN now ELSE Null
         /\ Stopped(s) \in SessionFields /\ Stopped(s).id = s.id /\ ~Stopped(s).bound /\ ~Stopped(s).timers
         /\ Stopped(s).active = s.active /\ Stopped(s).since = s.since
  <1>1. /\ Active(s) \in SessionFields /\ Active(s).id = s.id /\ Active(s).bound = s.bound
        /\ Active(s).timers = s.timers /\ Active(s).active = s.active /\ Active(s).sent = s.sent
        /\ Active(s).since = IF s.since = Null /\ page.visible THEN now ELSE s.since
        /\ Active(s).acted = now
    <2>p. PICK since : since = IF s.since = Null /\ page.visible THEN now ELSE s.since
      OBVIOUS
    <2>1. since \in Times \cup {Null}
      BY <2>p DEF SessionFields
    <2>2. Active(s) = [s EXCEPT !.acted = now, !.since = since]
      BY <2>p DEF Active
    <2> QED
      BY <2>p, <2>1, <2>2 DEF SessionFields
  <1>2. /\ Started(s) \in SessionFields /\ Started(s).id = s.id /\ Started(s).bound
        /\ Started(s).timers = s.timers /\ Started(s).active = s.active /\ Started(s).sent = s.sent
        /\ Started(s).since = IF page.visible THEN now ELSE Null
        /\ Started(s).acted = s.acted
    <2>p. PICK since : since = IF page.visible THEN now ELSE Null
      OBVIOUS
    <2>u. PICK u : u = [s EXCEPT !.bound = TRUE, !.since = since]
      OBVIOUS
    <2>1. since \in Times \cup {Null}
      BY <2>p
    <2>2. /\ u \in SessionFields /\ u.id = s.id /\ u.bound /\ u.timers = s.timers /\ u.active = s.active
          /\ u.sent = s.sent /\ u.since = since /\ u.acted = s.acted
      BY <2>u, <2>1 DEF SessionFields
    <2>3. Started(s) = UpdateMaxScroll(u)
      BY <2>p, <2>u DEF Started
    <2> QED
      BY <2>p, <2>2, <2>3, MaxScrollFacts
  <1>3. /\ Stopped(s) \in SessionFields /\ Stopped(s).id = s.id /\ ~Stopped(s).bound /\ ~Stopped(s).timers
        /\ Stopped(s).active = s.active /\ Stopped(s).since = s.since
        /\ Stopped(s).acted = s.acted
    BY DEF Stopped, SessionFields
  <1> QED
    BY <1>1, <1>2, <1>3

LEMMA InstalledFacts ==
  ASSUME NEW s \in SessionFields, NEW id \in 0 .. MaxSessions, now \in Times
  PROVE  /\ Installed(s, id) \in SessionFields /\ Installed(s, id).id = id
         /\ Installed(s, id).bound = s.bound /\ Installed(s, id).timers
         /\ Installed(s, id).active = s.active /\ Installed(s, id).since = s.since
         /\ Installed(s, id).acted = s.acted
  <1>b. PICK beat : beat = Smaller(now + Beat, MaxTime)
    OBVIOUS
  <1>e. PICK end : end = now + Longest
    OBVIOUS
  <1>1. beat \in Nat /\ end \in Nat
    BY <1>b, <1>e, ReadingConstants DEF Smaller
  <1>2. Installed(s, id) = [s EXCEPT !.id = id, !.timers = TRUE, !.beat = beat, !.end = end]
    BY <1>b, <1>e DEF Installed
  <1> QED
    BY <1>1, <1>2 DEF SessionFields

\* What the functions of sections-v2.ts keep of the tracker.
LEMMA AttendFacts ==
  ASSUME NEW t \in TrackerFields, now \in Times
  PROVE  /\ Attend(t) \in TrackerFields /\ Attend(t).on = t.on /\ Attend(t).qualified = t.qualified
         /\ Attend(t).frames = t.frames /\ Attend(t).sampled = t.sampled /\ Attend(t).streak = t.streak
         /\ t.on => Attend(t).acted = now
  BY DEF Attend, TrackerFields

LEMMA TrackerFacts ==
  ASSUME NEW t \in TrackerFields, now \in Times
  PROVE  /\ Pause(t) \in TrackerFields /\ Pause(t).on = t.on /\ ~Pause(t).frames
         /\ Pause(t).acted = t.acted /\ Pause(t).qualified = t.qualified /\ Pause(t).sampled = t.sampled
         /\ Resume(t) \in TrackerFields /\ Resume(t).on = t.on /\ Resume(t).qualified = t.qualified
         /\ t.on /\ ~t.frames => /\ Resume(t).sampled = now /\ Resume(t).acted = now
                                 /\ Resume(t).streak = Nothing
         /\ ~t.on \/ t.frames => Resume(t) = t
         /\ Discovered(t) \in TrackerFields /\ Discovered(t).qualified = t.qualified /\ Discovered(t).on
         /\ Discovered(t).sampled = now /\ Discovered(t).acted = now /\ Discovered(t).streak = t.streak
         /\ [Pause(t) EXCEPT !.on = FALSE] \in TrackerFields
         /\ ~[Pause(t) EXCEPT !.on = FALSE].on /\ [Pause(t) EXCEPT !.on = FALSE].qualified = t.qualified
         /\ ~[Pause(t) EXCEPT !.on = FALSE].frames /\ [Pause(t) EXCEPT !.on = FALSE].sampled = t.sampled
  <1>1. /\ Pause(t) \in TrackerFields /\ Pause(t).on = t.on /\ ~Pause(t).frames
        /\ Pause(t).acted = t.acted /\ Pause(t).qualified = t.qualified /\ Pause(t).sampled = t.sampled
    BY DEF Pause, TrackerFields
  <1>2. /\ Resume(t) \in TrackerFields /\ Resume(t).on = t.on /\ Resume(t).qualified = t.qualified
        /\ t.on /\ ~t.frames => /\ Resume(t).sampled = now /\ Resume(t).acted = now
                                /\ Resume(t).streak = Nothing
        /\ ~t.on \/ t.frames => Resume(t) = t
    BY ReadingConstants DEF Resume, TrackerFields
  <1>4. /\ Discovered(t) \in TrackerFields /\ Discovered(t).qualified = t.qualified /\ Discovered(t).on
        /\ Discovered(t).sampled = now /\ Discovered(t).acted = now /\ Discovered(t).streak = t.streak
    BY DEF Discovered, TrackerFields
  <1>5. /\ [Pause(t) EXCEPT !.on = FALSE] \in TrackerFields
        /\ ~[Pause(t) EXCEPT !.on = FALSE].on /\ [Pause(t) EXCEPT !.on = FALSE].qualified = t.qualified
        /\ ~[Pause(t) EXCEPT !.on = FALSE].frames /\ [Pause(t) EXCEPT !.on = FALSE].sampled = t.sampled
    BY <1>1 DEF TrackerFields
  <1> QED
    BY <1>1, <1>2, <1>4, <1>5

LEMMA Numbers ==
  ASSUME PageTypes, Attention
  PROVE  /\ now \in Nat /\ Idle \in Nat /\ watch.engaged \in Nat /\ watch.shown \in Nat /\ watch.last \in Nat
         /\ watch.idle \in 0 .. 2 /\ tracker.sampled \in Nat /\ tracker.acted \in Nat
         /\ Cardinality(Credited) \in Nat
         /\ Elapsed(tracker) \in 0 .. 2 /\ Elapsed(tracker) <= now - tracker.sampled
  <1>1. /\ now \in Nat /\ Idle \in Nat /\ watch.engaged \in Nat /\ watch.shown \in Nat /\ watch.last \in Nat
        /\ watch.idle \in 0 .. 2 /\ tracker.sampled \in Nat /\ tracker.acted \in Nat
    BY ReadingConstants DEF PageTypes, Watches, TrackerFields, Clamp
  <1>2. Cardinality(Credited) \in Nat
    BY FS_CardinalityType DEF Attention
  <1>3. Elapsed(tracker) \in 0 .. 2 /\ Elapsed(tracker) <= now - tracker.sampled
    BY <1>1 DEF Elapsed, Smaller, Clamp, Attention
  <1> QED
    BY <1>1, <1>2, <1>3

\* Whatever credits no section and does not sample.
LEMMA AttentionStays ==
  ASSUME PageTypes, Attention, UNCHANGED now, tracker'.qualified = tracker.qualified, watch' \in Watches,
         watch'.engaged >= watch.engaged, watch'.last \in {watch.last, now},
         watch'.idle = 0 \/ (watch'.idle = watch.idle /\ watch'.last = watch.last),
         tracker'.on => tracker'.acted <= watch'.last /\ session'.bound,
         tracker'.sampled <= now,
         tracker'.frames => tracker'.on,
         tracker'.frames => \/ tracker'.streak = Nothing
                            \/ /\ tracker.frames /\ page'.visible
                               /\ tracker'.streak = tracker.streak /\ tracker'.sampled = tracker.sampled
                               /\ watch'.engaged + watch'.idle >= watch.engaged + watch.idle
  PROVE  Attention'
  <1>1. Credited' = Credited
    BY DEF Credited
  <1>n. /\ now \in Nat /\ Idle \in Nat /\ watch.engaged \in Nat /\ watch.last \in Nat /\ watch.idle \in Nat
        /\ Cardinality(Credited) \in Nat /\ watch'.engaged \in Nat /\ watch'.idle \in Nat
        /\ Elapsed(tracker) \in Nat
    BY Numbers DEF Watches, Clamp
  <1>2. IsFiniteSet(Credited') /\ Cardinality(Credited') <= watch'.engaged
    BY <1>1, <1>n DEF Attention
  <1>3. watch'.last <= now' /\ (watch'.idle > 0 => now' - watch'.last > Idle)
    BY <1>n DEF Attention
  <1>4. tracker'.frames /\ ~page'.visible => tracker'.streak = Nothing
    OBVIOUS
  <1>5. ASSUME tracker'.frames, tracker'.streak # Nothing
        PROVE  Cardinality(Credited') + Elapsed(tracker') <= watch'.engaged + watch'.idle
    <2>1. tracker.frames /\ tracker.streak # Nothing /\ tracker'.sampled = tracker.sampled
          /\ watch'.engaged + watch'.idle >= watch.engaged + watch.idle
      BY <1>5
    <2>2. Elapsed(tracker') = Elapsed(tracker)
      BY <2>1 DEF Elapsed
    <2>3. Cardinality(Credited) + Elapsed(tracker) <= watch.engaged + watch.idle
      BY <2>1 DEF Attention
    <2> QED
      BY <1>1, <1>n, <2>1, <2>2, <2>3
  <1>6. Elapsed(tracker)' = Elapsed(tracker')
    BY DEF Elapsed
  <1> QED
    BY <1>2, <1>3, <1>4, <1>5, <1>6 DEF Attention

\* The same, when the reader did nothing.
LEMMA AttentionKept ==
  ASSUME PageTypes, Attention, UNCHANGED <<now, watch>>, page'.visible = page.visible,
         \/ tracker' = tracker /\ (session'.bound \/ ~tracker.on)
         \/ ~tracker'.on /\ ~tracker'.frames /\ tracker'.qualified = tracker.qualified
             /\ tracker'.sampled = tracker.sampled
  PROVE  Attention'
  <1>1. /\ now \in Nat /\ watch.engaged \in Nat /\ watch.idle \in Nat /\ tracker.sampled <= now /\ watch \in Watches
    BY Numbers DEF Attention, PageTypes
  <1> QED
    BY <1>1, AttentionStays DEF Attention

LEMMA RowsStay ==
  ASSUME RowTypes, UNCHANGED rows, session'.id \in {0, session.id}, wire' \subseteq Payloads,
         \A p \in wire' : p \in wire \/ p.id = session.id
  PROVE  RowTypes'
  <1>1. Len(rows) \in Nat
    BY DEF RowTypes
  <1> QED
    BY <1>1 DEF RowTypes

LEMMA RowAdded ==
  ASSUME ReadingInv, Len(rows) < MaxSessions, rows' = Append(rows, NewRow), UNCHANGED wire,
         session'.id \in {session.id, Len(rows) + 1}
  PROVE  RowTypes' /\ Len(rows) + 1 \in 0 .. MaxSessions
  <1>0. rows \in Seq(RowFields) /\ NewRow \in RowFields /\ Len(rows) \in Nat
    BY ReadingConstants DEF ReadingInv, RowTypes, NewRow, RowFields
  <1>1. rows' \in Seq(RowFields) /\ Len(rows') = Len(rows) + 1
    BY <1>0
  <1>2. session.id \in Nat /\ session.id <= Len(rows)
    BY ReadingConstants DEF ReadingInv, RowTypes, PageTypes, SessionFields
  <1>3. ASSUME NEW p \in wire PROVE p.id \in Nat /\ p.id <= Len(rows)
    BY <1>3, ReadingConstants DEF ReadingInv, RowTypes, Payloads
  <1>4. Len(rows) + 1 \in 0 .. MaxSessions
    BY <1>0, ReadingConstants
  <1>5. wire' \subseteq Payloads /\ \A p \in wire' : p.id <= Len(rows)'
    BY <1>0, <1>1, <1>3 DEF RowTypes, ReadingInv
  <1>6. session'.id <= Len(rows)' /\ Len(rows)' <= MaxSessions
    BY <1>0, <1>1, <1>2, <1>4
  <1> QED
    BY <1>1, <1>4, <1>5, <1>6 DEF RowTypes

\* A flush on the session or on a copy of it that has counted up to now.
LEMMA FlushKeeps ==
  ASSUME ReadingInv, NEW s \in SessionFields, Flush(s, tracker), UNCHANGED rows,
         s.id = session.id, s.bound = session.bound, s.timers = session.timers
  PROVE  RowTypes' /\ session' \in SessionFields /\ session'.bound = s.bound /\ session'.timers = s.timers
  <1>1. now \in Times /\ page \in Pages /\ tracker \in TrackerFields /\ RowTypes
    BY DEF ReadingInv, PageTypes
  <1>2. /\ session' \in SessionFields /\ session'.id = s.id /\ session'.bound = s.bound
        /\ session'.timers = s.timers /\ wire' = wire \cup Flushed(s, tracker)
    BY <1>1, FlushFacts
  <1>3. Flushed(s, tracker) \subseteq Payloads /\ \A p \in Flushed(s, tracker) : p.id = s.id
    BY <1>1, FlushedFacts
  <1>4. wire' \subseteq Payloads /\ \A p \in wire' : p \in wire \/ p.id = session.id
    BY <1>1, <1>2, <1>3 DEF RowTypes
  <1> QED
    BY <1>1, <1>2, <1>4, RowsStay

LEMMA HeartbeatKeeps == ReadingInv /\ (Heartbeat \/ HostFlush) => ReadingInv'
  <1> SUFFICES ASSUME ReadingInv, Heartbeat \/ HostFlush PROVE ReadingInv'
    OBVIOUS
  <1>b. PICK beat : beat = Smaller(now + Beat, MaxTime)
    OBVIOUS
  <1>0. /\ now \in Times /\ page \in Pages /\ session \in SessionFields /\ tracker \in TrackerFields
        /\ watch \in Watches /\ now \in Nat
    BY ReadingConstants DEF ReadingInv, PageTypes
  <1>3. beat \in Nat
    BY <1>b, <1>0, ReadingConstants DEF Smaller
  <1>1. PICK s \in {session, [session EXCEPT !.beat = beat]} : Flush(s, tracker)
    BY <1>b DEF Heartbeat, HostFlush
  <1>2. UNCHANGED <<now, page, tracker, rows, watch>>
    BY DEF Heartbeat, HostFlush
  <1>4. /\ s \in SessionFields /\ s.id = session.id /\ s.bound = session.bound /\ s.timers = session.timers
        /\ s.active = session.active /\ s.since = session.since /\ s.acted = session.acted /\ s.sent = session.sent
    BY <1>0, <1>1, <1>3 DEF SessionFields
  <1>5. RowTypes' /\ session' \in SessionFields /\ session'.bound = s.bound /\ session'.timers = s.timers
    BY <1>1, <1>2, <1>4, FlushKeeps
  <1>6. PageTypes'
    BY <1>2, <1>5 DEF ReadingInv, PageTypes
  <1>p. Phases'
    <2>1. s.id = 0 => session' = s
      BY <1>0, <1>1, <1>4, FlushFacts
    <2> QED
      BY <1>2, <1>4, <1>5, <2>1 DEF ReadingInv, Phases
  <1>7. Counts(session)'
    <2>1. Counts(s)
      BY <1>4 DEF ReadingInv, Counts
    <2> QED
      BY <1>0, <1>1, <1>2, <1>4, <2>1, FlushCounts
  <1>8. Attention'
    BY <1>2, <1>4, <1>5, AttentionKept DEF ReadingInv, Attention
  <1> QED
    BY <1>5, <1>6, <1>p, <1>7, <1>8 DEF ReadingInv

\* A session that stops listening has counted what it counted.
LEMMA StoppedCounts ==
  ASSUME session \in SessionFields, session' \in SessionFields, now \in Times, watch \in Watches, Counts(session),
         UNCHANGED <<now, page, watch>>,
         session'.bound => session.bound, session'.active = session.active, session'.since = session.since,
         session'.acted = session.acted
  PROVE  Counts(session)'
  <1>1. /\ session.active \in Nat /\ session.acted \in Nat /\ (session.since # Null => session.since \in Nat)
        /\ now \in Nat /\ watch.shown \in Nat /\ Idle \in Nat
    BY ReadingConstants DEF SessionFields, Watches
  <1> QED
    BY <1>1 DEF Counts

LEMMA LongestKeeps == ReadingInv /\ LongestReached => ReadingInv'
  <1> SUFFICES ASSUME ReadingInv, LongestReached PROVE ReadingInv'
    OBVIOUS
  <1>1. /\ session' = Stopped(session) /\ tracker' = [Pause(tracker) EXCEPT !.on = FALSE]
        /\ session.timers /\ UNCHANGED <<now, page, wire, rows, watch>>
    BY DEF LongestReached
  <1>2. /\ now \in Times /\ page \in Pages /\ session \in SessionFields /\ tracker \in TrackerFields
        /\ RowTypes /\ page.step \notin {"gate", "warmup", "calling"} /\ session.bound
    BY <1>1 DEF ReadingInv, PageTypes, Phases, Attention
  <1>3. /\ session' \in SessionFields /\ session'.id = session.id /\ ~session'.bound /\ ~session'.timers
        /\ session'.active = session.active /\ session'.since = session.since /\ session'.acted = session.acted
    BY <1>1, <1>2, SessionFacts
  <1>4. tracker' \in TrackerFields /\ ~tracker'.on /\ tracker'.qualified = tracker.qualified
        /\ ~tracker'.frames /\ tracker'.sampled = tracker.sampled
    BY <1>1, <1>2, TrackerFacts
  <1>5. PageTypes' /\ Phases'
    BY <1>1, <1>2, <1>3, <1>4 DEF ReadingInv, PageTypes, Phases
  <1>c. Counts(session)'
    BY <1>1, <1>2, <1>3, StoppedCounts DEF ReadingInv, PageTypes
  <1>6. RowTypes'
    BY <1>1, <1>2, <1>3, RowsStay DEF RowTypes
  <1>7. Attention'
    BY <1>1, <1>2, <1>4, AttentionKept DEF ReadingInv
  <1> QED
    BY <1>5, <1>c, <1>6, <1>7 DEF ReadingInv

LEMMA MetIs ==
  ASSUME watch \in Watches, now \in Times, watch' = Met
  PROVE  /\ watch' \in Watches /\ watch'.last = now /\ watch'.idle = 0
         /\ watch'.shown = watch.shown /\ watch'.engaged = watch.engaged
  <1>1. 0 \in 0 .. Clamp
    BY DEF Clamp
  <1> QED
    BY <1>1 DEF Watches, Met

\* Before the session starts nothing is counted and no section was looked at.
LEMMA StartsUncounted ==
  ASSUME ReadingInv, page.step \in {"gate", "warmup"}
  PROVE  session.active <= watch.shown
  <1>1. session.active = 0 /\ watch.shown \in Nat
    BY DEF ReadingInv, Phases, PageTypes, Watches
  <1> QED
    BY <1>1

LEMMA BegunAttention ==
  ASSUME ReadingInv, page.step \in {"gate", "warmup"}, tracker' = Discovered(tracker), watch' = Met,
         UNCHANGED now, session'.bound
  PROVE  Attention'
  <1>1. tracker.streak = Nothing
    BY DEF ReadingInv, Phases
  <1>2. /\ tracker' \in TrackerFields /\ tracker'.qualified = tracker.qualified /\ tracker'.on
        /\ tracker'.sampled = now /\ tracker'.acted = now /\ tracker'.streak = tracker.streak
    BY TrackerFacts DEF ReadingInv, PageTypes
  <1>3. /\ watch' \in Watches /\ watch'.last = now /\ watch'.idle = 0
        /\ watch'.shown = watch.shown /\ watch'.engaged = watch.engaged
    BY MetIs DEF ReadingInv, PageTypes
  <1>4. now \in Nat /\ now <= now /\ watch.engaged \in Nat
    BY Numbers DEF ReadingInv
  <1> QED
    BY <1>1, <1>2, <1>3, <1>4, AttentionStays DEF ReadingInv

LEMMA WarmedUpKeeps == ReadingInv /\ WarmedUp => ReadingInv'
  <1> SUFFICES ASSUME ReadingInv, WarmedUp PROVE ReadingInv'
    OBVIOUS
  <1>1. /\ now \in Times /\ page \in Pages /\ session \in SessionFields /\ tracker \in TrackerFields
        /\ RowTypes /\ watch \in Watches /\ now \in Nat /\ now <= now
        /\ UNCHANGED <<now, wire, rows>> /\ watch.shown \in Nat /\ watch.engaged \in Nat
        /\ session.acted \in Nat /\ session.acted <= now /\ session.id = 0 /\ session.sent = Null /\ ~session.timers
        /\ session.active \in Nat /\ ~tracker.on /\ ~tracker.frames
    BY ReadingConstants, Numbers DEF ReadingInv, PageTypes, Phases, Counts, Attention, WarmedUp, SessionFields
  <1>2. CASE /\ page.visible /\ page' = [page EXCEPT !.step = "calling"]
             /\ session' = Started(session) /\ tracker' = Discovered(tracker)
             /\ watch' = Met
    <2>1. page' \in Pages /\ page'.visible /\ page'.step = "calling"
      BY <1>1, <1>2 DEF Pages, PageSteps
    <2>2. /\ session' \in SessionFields /\ session'.id = session.id /\ session'.bound
          /\ session'.timers = session.timers /\ session'.active = session.active
          /\ session'.sent = session.sent /\ session'.since = now /\ session'.acted = session.acted
      BY <1>1, <1>2, SessionFacts
    <2>4. /\ watch' \in Watches /\ watch'.last = now /\ watch'.idle = 0
          /\ watch'.shown = watch.shown /\ watch'.engaged = watch.engaged
      BY <1>1, <1>2, MetIs
    <2>3. tracker' \in TrackerFields
      BY <1>1, <1>2, TrackerFacts
    <2>5. PageTypes'
      BY <1>1, <2>1, <2>2, <2>3, <2>4 DEF PageTypes
    <2>6. Counts(session)'
      <3>1. session.active <= watch.shown
        BY <1>1, StartsUncounted DEF WarmedUp
      <3> QED
        BY <1>1, <2>1, <2>2, <2>4, <3>1 DEF Counts
    <2>7. RowTypes'
      BY <1>1, <2>2, RowsStay DEF RowTypes
    <2>8. Attention'
      BY <1>1, <1>2, <2>1, <2>2, <2>4, BegunAttention DEF WarmedUp
    <2> QED
      BY <1>1, <2>1, <2>2, <2>5, <2>6, <2>7, <2>8 DEF ReadingInv, Phases
  <1>3. CASE page' = [page EXCEPT !.step = "off"] /\ UNCHANGED <<session, tracker, watch>>
    <2>1. page' \in Pages /\ page'.visible = page.visible /\ page'.step = "off"
      BY <1>1, <1>3 DEF Pages, PageSteps
    <2>2. RowTypes'
      BY <1>1, <1>3, RowsStay DEF RowTypes
    <2>3. Attention'
      BY <1>1, <1>3, <2>1, AttentionKept DEF ReadingInv, Attention
    <2> QED
      BY <1>1, <1>3, <2>1, <2>2, <2>3 DEF ReadingInv, PageTypes, Phases, Counts
  <1> QED
    BY <1>2, <1>3 DEF WarmedUp

LEMMA StartSessionKeeps == ReadingInv /\ StartSession => ReadingInv'
  <1> SUFFICES ASSUME ReadingInv, StartSession PROVE ReadingInv'
    OBVIOUS
  <1>1. /\ now \in Times /\ page \in Pages /\ session \in SessionFields /\ session.bound /\ RowTypes
        /\ page' = [page EXCEPT !.step = "running"] /\ UNCHANGED <<now, tracker, wire, watch>>
    BY DEF ReadingInv, PageTypes, Phases, StartSession
  <1>2. page' \in Pages /\ page'.visible = page.visible /\ page'.step = "running"
    BY <1>1 DEF Pages, PageSteps
  <1>3. /\ session' \in SessionFields /\ session'.bound /\ session'.active = session.active
        /\ session'.since = session.since /\ session'.acted = session.acted /\ RowTypes'
    <2>1. CASE Len(rows) < MaxSessions /\ rows' = Append(rows, NewRow) /\ session' = Installed(session, Len(rows) + 1)
      <3>1. Len(rows) \in Nat
        BY <1>1 DEF RowTypes
      <3>2. Len(rows) + 1 \in 0 .. MaxSessions
        BY <2>1, <3>1, ReadingConstants
      <3>3. /\ session' \in SessionFields /\ session'.id = Len(rows) + 1 /\ session'.bound
            /\ session'.active = session.active /\ session'.since = session.since
            /\ session'.acted = session.acted
        BY <1>1, <2>1, <3>2, InstalledFacts
      <3> QED
        BY <1>1, <2>1, <3>3, RowAdded
    <2>2. CASE Len(rows) < MaxSessions /\ rows' = Append(rows, NewRow) /\ UNCHANGED session
      BY <1>1, <2>2, RowAdded
    <2>3. CASE UNCHANGED <<rows, session>>
      BY <1>1, <2>3, RowsStay DEF RowTypes
    <2> QED
      BY <2>1, <2>2, <2>3 DEF StartSession
  <1>4. Attention'
    BY <1>1, <1>2, <1>3, AttentionKept DEF ReadingInv
  <1> QED
    BY <1>1, <1>2, <1>3, <1>4 DEF ReadingInv, PageTypes, Phases, Counts

LEMMA SubmitEmailKeeps == ReadingInv /\ SubmitEmail => ReadingInv'
  <1> SUFFICES ASSUME ReadingInv, SubmitEmail PROVE ReadingInv'
    OBVIOUS
  <1>1. /\ now \in Times /\ page \in Pages /\ session \in SessionFields /\ tracker \in TrackerFields
        /\ RowTypes /\ watch \in Watches /\ now \in Nat /\ now <= now
        /\ watch' = Met /\ UNCHANGED <<now, wire>> /\ page.step = "gate"
        /\ Len(rows) < MaxSessions /\ rows' = Append(rows, NewRow) /\ Len(rows) \in Nat
        /\ ~tracker.on /\ ~tracker.frames /\ tracker.sampled <= now
    BY ReadingConstants DEF ReadingInv, PageTypes, Phases, RowTypes, Attention, SubmitEmail
  <1>2. /\ watch' \in Watches /\ watch'.last = now /\ watch'.idle = 0
        /\ watch'.shown = watch.shown /\ watch'.engaged = watch.engaged
    BY <1>1, MetIs
  <1>n. watch.shown \in Nat /\ watch.engaged \in Nat
    BY <1>1 DEF Watches
  <1>3. CASE /\ page' = [page EXCEPT !.step = "running"]
             /\ session' = Installed(Started([session EXCEPT !.acted = now]), Len(rows) + 1)
             /\ tracker' = Discovered(tracker)
    <2>s. PICK s : s = [session EXCEPT !.acted = now]
      OBVIOUS
    <2>1. page' \in Pages /\ page'.visible = page.visible /\ page'.step = "running"
      BY <1>1, <1>3 DEF Pages, PageSteps
    <2>2. s \in SessionFields /\ s.active = session.active /\ s.acted = now
      BY <1>1, <2>s DEF SessionFields
    <2>3. /\ Started(s) \in SessionFields /\ Started(s).bound /\ Started(s).active = session.active
          /\ Started(s).since = IF page.visible THEN now ELSE Null
          /\ Started(s).acted = now
      BY <1>1, <2>2, SessionFacts
    <2>4. Len(rows) + 1 \in 0 .. MaxSessions
      BY <1>1, ReadingConstants
    <2>5. /\ session' \in SessionFields /\ session'.id = Len(rows) + 1 /\ session'.bound
          /\ session'.active = session.active /\ session'.since = IF page.visible THEN now ELSE Null
          /\ session'.acted = now
      BY <1>1, <1>3, <2>s, <2>3, <2>4, InstalledFacts
    <2>6. tracker' \in TrackerFields
      BY <1>1, <1>3, TrackerFacts
    <2>7. RowTypes'
      BY <1>1, <2>5, RowAdded
    <2>8. Attention'
      BY <1>1, <1>2, <1>3, <2>1, <2>5, BegunAttention
    <2>9. Counts(session)'
      <3>1. session.active \in Nat /\ session.active <= watch.shown
        BY <1>1, StartsUncounted DEF SessionFields
      <3> QED
        BY <1>1, <1>2, <1>n, <2>1, <2>5, <3>1 DEF Counts
    <2> QED
      BY <1>1, <1>2, <2>1, <2>5, <2>6, <2>7, <2>8, <2>9 DEF ReadingInv, PageTypes, Phases
  <1>4. CASE UNCHANGED <<page, session, tracker>>
    <2>1. RowTypes'
      BY <1>1, <1>4, RowAdded
    <2>2. Attention'
      BY <1>1, <1>2, <1>n, <1>4, AttentionStays DEF ReadingInv
    <2> QED
      BY <1>1, <1>2, <1>4, <2>1, <2>2 DEF ReadingInv, PageTypes, Phases, Counts
  <1> QED
    BY <1>3, <1>4 DEF SubmitEmail

LEMMA HideKeeps == ReadingInv /\ Hide => ReadingInv'
  <1> SUFFICES ASSUME ReadingInv, Hide PROVE ReadingInv'
    OBVIOUS
  <1>1. /\ now \in Times /\ page \in Pages /\ session \in SessionFields /\ tracker \in TrackerFields
        /\ RowTypes /\ now \in Nat /\ Counts(session) /\ page.visible /\ watch.shown \in Nat
        /\ page' = [page EXCEPT !.visible = FALSE] /\ UNCHANGED <<now, rows, watch>>
    BY ReadingConstants DEF ReadingInv, PageTypes, Hide, Watches
  <1>2. page' \in Pages /\ ~page'.visible /\ page'.step = page.step
    BY <1>1 DEF Pages
  <1>3. CASE /\ session.bound /\ tracker' = Pause(tracker)
             /\ Flush([TickActive(session) EXCEPT !.since = Null], tracker)
    <2>s. PICK s : s = [TickActive(session) EXCEPT !.since = Null]
      OBVIOUS
    <2>1. /\ TickActive(session) \in SessionFields
          /\ TickActive(session).id = session.id /\ TickActive(session).bound = session.bound
          /\ TickActive(session).sent = session.sent /\ TickActive(session).timers = session.timers
          /\ session.since = Null => TickActive(session) = session
          /\ session.since # Null /\ session.since <= now =>
                TickActive(session).active <= session.active + (now - session.since)
      BY <1>1, TickActiveFacts
    <2>2. /\ s \in SessionFields /\ s.id = session.id /\ s.bound = session.bound /\ s.timers = session.timers
          /\ s.sent = session.sent /\ s.since = Null /\ s.active = TickActive(session).active
          /\ s.acted = TickActive(session).acted
      BY <2>1, <2>s DEF SessionFields
    <2>3. s.active <= watch.shown /\ s.acted <= now
      <3>u. PICK u : u = TickActive(session)
        OBVIOUS
      <3>1. Counts(u) /\ u.bound
        BY <1>1, <1>3, <2>1, <3>u, TickCounts DEF ReadingInv, PageTypes
      <3>2. u.active <= watch.shown /\ u.acted <= now
        BY <1>1, <2>1, <3>u, <3>1 DEF Counts, SessionFields
      <3> QED
        BY <2>2, <3>u, <3>2
    <2>4. RowTypes' /\ session' \in SessionFields /\ session'.bound = s.bound /\ session'.timers = s.timers
      BY <1>1, <1>3, <2>s, <2>2, FlushKeeps
    <2>5. /\ s.id = 0 => session' = s
          /\ session'.active = s.active /\ session'.since = Null /\ session'.acted = s.acted
      <3>1. TickActive(s) = s
        BY <1>1, <2>2, TickActiveFacts
      <3> QED
        BY <1>1, <1>3, <2>s, <2>2, <3>1, FlushFacts
    <2>6. /\ tracker' \in TrackerFields /\ tracker'.qualified = tracker.qualified
          /\ tracker'.on = tracker.on /\ ~tracker'.frames /\ tracker'.acted = tracker.acted
          /\ tracker'.sampled = tracker.sampled
      BY <1>1, <1>3, TrackerFacts
    <2>7. Attention'
      <3>1. watch.engaged \in Nat /\ watch \in Watches
        BY DEF ReadingInv, PageTypes, Watches
      <3> QED
        BY <1>1, <1>3, <2>2, <2>4, <2>6, <3>1, AttentionStays DEF ReadingInv, Attention
    <2>8. Phases'
      BY <1>1, <1>2, <1>3, <2>2, <2>3, <2>4, <2>5 DEF ReadingInv, Phases
    <2>9. Counts(session)'
      BY <1>1, <1>3, <2>2, <2>3, <2>4, <2>5 DEF Counts
    <2> QED
      BY <1>1, <1>2, <2>4, <2>6, <2>7, <2>8, <2>9 DEF ReadingInv, PageTypes
  <1>4. CASE ~session.bound /\ UNCHANGED <<session, tracker, wire>>
    <2>1. RowTypes'
      BY <1>1, <1>4, RowsStay DEF RowTypes
    <2>2. Attention'
      <3>1. watch.engaged \in Nat /\ watch \in Watches
        BY DEF ReadingInv, PageTypes, Watches
      <3> QED
        BY <1>1, <1>4, <3>1, AttentionStays DEF ReadingInv, Attention
    <2> QED
      BY <1>1, <1>2, <1>4, <2>1, <2>2 DEF ReadingInv, PageTypes, Phases, Counts
  <1> QED
    BY <1>3, <1>4 DEF Hide

LEMMA ShowKeeps == ReadingInv /\ Show => ReadingInv'
  <1> SUFFICES ASSUME ReadingInv, Show PROVE ReadingInv'
    OBVIOUS
  <1>1. /\ now \in Times /\ page \in Pages /\ session \in SessionFields /\ tracker \in TrackerFields
        /\ RowTypes /\ watch \in Watches /\ watch.last <= now /\ now \in Nat /\ now <= now /\ ~page.visible
        /\ tracker.on => tracker.acted <= watch.last /\ session.bound
        /\ tracker.frames => tracker.on /\ tracker.streak = Nothing
        /\ tracker.sampled <= now
        /\ page' = [page EXCEPT !.visible = TRUE] /\ watch' = Met
        /\ UNCHANGED <<now, wire, rows>>
    BY ReadingConstants DEF ReadingInv, PageTypes, Attention, Show
  <1>2. page' \in Pages /\ page'.visible /\ page'.step = page.step
    BY <1>1 DEF Pages
  <1>3. /\ watch' \in Watches /\ watch'.last = now /\ watch'.idle = 0
        /\ watch'.shown = watch.shown /\ watch'.engaged = watch.engaged
        /\ watch.shown \in Nat /\ watch.last \in Nat /\ watch.engaged \in Nat
    BY <1>1, MetIs, ReadingConstants DEF Watches
  <1>a. tracker.on => tracker.acted <= now
    BY <1>1, <1>3, ReadingConstants DEF TrackerFields
  <1>4. CASE /\ session.bound /\ session' = [session EXCEPT !.since = now, !.acted = now]
             /\ tracker' = Resume(tracker)
    <2>1. /\ session' \in SessionFields /\ session'.id = session.id /\ session'.bound = session.bound
          /\ session'.timers = session.timers /\ session'.sent = session.sent
          /\ session'.active = session.active /\ session'.since = now /\ session'.acted = now
      BY <1>1, <1>4 DEF SessionFields
    <2>2. /\ tracker' \in TrackerFields /\ tracker'.on = tracker.on /\ tracker'.qualified = tracker.qualified
          /\ tracker.on /\ ~tracker.frames => /\ tracker'.sampled = now /\ tracker'.acted = now
                                              /\ tracker'.streak = Nothing
          /\ ~tracker.on \/ tracker.frames => tracker' = tracker
      BY <1>1, <1>4, TrackerFacts
    <2>3. RowTypes'
      BY <1>1, <2>1, RowsStay DEF RowTypes
    <2>4. Attention'
      <3>1. CASE tracker.on /\ ~tracker.frames
        BY <1>1, <1>3, <1>4, <2>1, <2>2, <3>1, AttentionStays DEF ReadingInv
      <3>2. CASE ~tracker.on \/ tracker.frames
        BY <1>1, <1>3, <1>4, <1>a, <2>1, <2>2, <3>2, AttentionStays DEF ReadingInv
      <3> QED
        BY <3>1, <3>2
    <2>5. Counts(session)'
      BY <1>1, <1>2, <1>3, <1>4, <2>1 DEF ReadingInv, Counts, SessionFields
    <2>6. Phases'
      <3>1. page.step \in {"gate", "warmup"} => ~tracker.on /\ tracker.streak = Nothing
        BY DEF ReadingInv, Phases
      <3> QED
        BY <1>2, <2>1, <2>2, <3>1 DEF ReadingInv, Phases
    <2> QED
      BY <1>1, <1>2, <1>3, <2>1, <2>2, <2>3, <2>4, <2>5, <2>6 DEF ReadingInv, PageTypes
  <1>5. CASE ~session.bound /\ UNCHANGED <<session, tracker>>
    <2>1. RowTypes'
      BY <1>1, <1>5, RowsStay DEF RowTypes
    <2>2. Attention'
      BY <1>1, <1>3, <1>5, <1>a, AttentionStays DEF ReadingInv
    <2> QED
      BY <1>1, <1>2, <1>3, <1>5, <2>1, <2>2 DEF ReadingInv, PageTypes, Phases, Counts
  <1> QED
    BY <1>4, <1>5 DEF Show

\* A key, a touch, a scroll or the mouse: the reader is there now.
LEMMA ActsKeep ==
  ASSUME ReadingInv, page.visible, page' \in Pages, page'.visible, page'.step = page.step,
         tracker' = Attend(tracker), watch' = Noticed, UNCHANGED <<now, wire, rows>>,
         session' \in SessionFields, session'.id = session.id, session'.bound = session.bound,
         session'.timers = session.timers, session'.sent = session.sent, session'.active = session.active,
         session'.since \in {session.since, now}, session'.since # session.since => session.since = Null,
         (session'.acted = session.acted /\ session'.since = session.since) \/ (session'.acted = now /\ session.bound)
  PROVE  ReadingInv'
  <1>1. /\ now \in Times /\ session \in SessionFields /\ tracker \in TrackerFields
        /\ RowTypes /\ watch \in Watches /\ watch.last <= now /\ now \in Nat /\ now <= now
        /\ tracker.on => session.bound
        /\ tracker.frames => tracker.on
        /\ tracker.sampled <= now
    BY ReadingConstants DEF ReadingInv, PageTypes, Attention
  <1>2. /\ watch' \in Watches /\ watch'.last = now /\ watch'.idle = 0
        /\ watch'.shown = watch.shown /\ watch'.engaged = watch.engaged + watch.idle
        /\ watch.shown \in Nat /\ watch.engaged \in Nat /\ watch.idle \in Nat
    <2>n. PICK engaged : engaged = watch.engaged + watch.idle
      OBVIOUS
    <2>1. /\ watch.shown \in Nat /\ watch.engaged \in Nat /\ watch.idle \in Nat /\ engaged \in Nat
      BY <1>1, <2>n DEF Watches
    <2>2. watch' = [watch EXCEPT !.engaged = engaged, !.last = now, !.idle = 0]
      BY <2>n DEF Noticed
    <2>3. 0 \in 0 .. Clamp
      BY DEF Clamp
    <2> QED
      BY <1>1, <2>n, <2>1, <2>2, <2>3 DEF Watches
  <1>3. /\ tracker' \in TrackerFields /\ tracker'.on = tracker.on /\ tracker'.qualified = tracker.qualified
        /\ tracker'.frames = tracker.frames /\ tracker'.sampled = tracker.sampled
        /\ tracker'.streak = tracker.streak
        /\ tracker.on => tracker'.acted = now
    <2>u. PICK u : u = Attend(tracker)
      OBVIOUS
    <2>1. /\ u \in TrackerFields /\ u.on = tracker.on /\ u.qualified = tracker.qualified
          /\ u.frames = tracker.frames /\ u.sampled = tracker.sampled
          /\ u.streak = tracker.streak
          /\ tracker.on => u.acted = now
      BY <1>1, <2>u, AttendFacts
    <2> QED
      BY <2>u, <2>1
  <1>4. RowTypes'
    BY <1>1, RowsStay DEF RowTypes
  <1>5. Attention'
    BY <1>1, <1>2, <1>3, AttentionStays DEF ReadingInv
  <1>6. Counts(session)'
    <2>1. /\ session.active \in Nat /\ session.acted \in Nat /\ Idle \in Nat
          /\ (session.since # Null => session.since \in Nat)
      BY <1>1, ReadingConstants DEF SessionFields
    <2> QED
      BY <1>1, <1>2, <2>1 DEF ReadingInv, Counts
  <1>7. Phases'
    BY <1>3 DEF ReadingInv, Phases
  <1> QED
    BY <1>1, <1>2, <1>3, <1>4, <1>5, <1>6, <1>7 DEF ReadingInv, PageTypes

LEMMA PressKeeps == ReadingInv /\ (Press \/ Click) => ReadingInv'
  <1> SUFFICES ASSUME ReadingInv, Press \/ Click PROVE ReadingInv'
    OBVIOUS
  <1>1. /\ now \in Times /\ page \in Pages /\ session \in SessionFields /\ page.visible
        /\ (session' = session \/ (session.bound /\ session' = Active(session))) /\ tracker' = Attend(tracker)
        /\ watch' = Noticed /\ UNCHANGED <<now, page, wire, rows>>
    BY DEF ReadingInv, PageTypes, Press, Click
  <1>2. /\ session' \in SessionFields /\ session'.id = session.id /\ session'.bound = session.bound
        /\ session'.timers = session.timers /\ session'.sent = session.sent /\ session'.active = session.active
        /\ session'.since \in {session.since, now} /\ (session'.since # session.since => session.since = Null)
        /\ \/ session'.acted = session.acted /\ session'.since = session.since
           \/ session'.acted = now /\ session.bound
    BY <1>1, SessionFacts
  <1> QED
    BY <1>1, <1>2, ActsKeep

LEMMA ScrollKeeps == ReadingInv /\ Scroll => ReadingInv'
  <1> SUFFICES ASSUME ReadingInv, Scroll PROVE ReadingInv'
    OBVIOUS
  <1>1. /\ now \in Times /\ page \in Pages /\ session \in SessionFields /\ page.visible
        /\ tracker' = Attend(tracker) /\ watch' = Noticed /\ UNCHANGED <<now, wire, rows>>
    BY DEF ReadingInv, PageTypes, Scroll
  <1>2. page' \in Pages /\ page'.visible /\ page'.step = page.step
    BY <1>1 DEF Scroll, Pages
  <1>3. /\ session' \in SessionFields /\ session'.id = session.id /\ session'.bound = session.bound
        /\ session'.timers = session.timers /\ session'.sent = session.sent /\ session'.active = session.active
        /\ session'.since \in {session.since, now} /\ (session'.since # session.since => session.since = Null)
        /\ \/ session'.acted = session.acted /\ session'.since = session.since
           \/ session'.acted = now /\ session.bound
    <2>s. PICK s : s = Active(session)
      OBVIOUS
    <2>1. /\ s \in SessionFields /\ s.id = session.id /\ s.bound = session.bound
          /\ s.timers = session.timers /\ s.active = session.active /\ s.sent = session.sent
          /\ s.since \in {session.since, now} /\ (s.since # session.since => session.since = Null)
          /\ s.acted = now
      BY <1>1, <2>s, SessionFacts
    <2>2. session' = session \/ (session.bound /\ session' \in {s, [s EXCEPT !.scroll = page'.scroll, !.dirty = TRUE]})
      BY <2>s DEF Scroll
    <2>3. page'.scroll \in 0 .. MaxScroll
      BY <1>2 DEF Pages
    <2> QED
      BY <1>1, <2>1, <2>2, <2>3 DEF SessionFields
  <1> QED
    BY <1>1, <1>2, <1>3, ActsKeep

\* The page is gone, and nothing is counted any more.
LEMMA LeftKeeps ==
  ASSUME ReadingInv, page' = [page EXCEPT !.step = "left"], session' = NoSession, tracker' = NoTracker,
         UNCHANGED <<now, rows, watch>>, wire' \subseteq Payloads,
         \A p \in wire' : p \in wire \/ p.id = session.id
  PROVE  ReadingInv'
  <1>1. page' \in Pages /\ page'.step = "left"
    BY DEF ReadingInv, PageTypes, Pages, PageSteps
  <1>2. PageTypes'
    BY <1>1, ReadingConstants DEF ReadingInv, PageTypes
  <1>3. RowTypes'
    BY RowsStay DEF ReadingInv, NoSession
  <1>4. Phases' /\ Counts(session)'
    <2>1. watch.shown \in Nat /\ Idle \in Nat /\ now \in Nat
      BY ReadingConstants DEF ReadingInv, PageTypes, Watches
    <2> QED
      BY <1>1, <2>1 DEF Phases, Counts, NoSession
  <1>5. Attention'
    <2>1. Credited' = {}
      BY DEF Credited, NoTracker, Nothing
    <2>2. watch.engaged \in Nat /\ now \in Nat
      BY Numbers DEF ReadingInv
    <2>3. IsFiniteSet(Credited') /\ Cardinality(Credited') = 0
      BY <2>1, FS_EmptySet
    <2> QED
      BY <2>2, <2>3 DEF ReadingInv, Attention, NoTracker
  <1> QED
    BY <1>2, <1>3, <1>4, <1>5 DEF ReadingInv

LEMMA PageHideKeeps == ReadingInv /\ (PageHide \/ OptOut) => ReadingInv'
  <1> SUFFICES ASSUME ReadingInv, PageHide \/ OptOut PROVE ReadingInv'
    OBVIOUS
  <1>s. PICK s : s = TickActive(session)
    OBVIOUS
  <1>1. /\ page' = [page EXCEPT !.step = "left"] /\ session' = NoSession /\ tracker' = NoTracker
        /\ UNCHANGED <<now, rows, watch>> /\ wire' \in {wire, wire \cup Flushed(s, tracker)}
    BY <1>s DEF PageHide, OptOut
  <1>2. /\ now \in Times /\ page \in Pages /\ session \in SessionFields /\ tracker \in TrackerFields
        /\ wire \subseteq Payloads
    BY DEF ReadingInv, PageTypes, RowTypes
  <1>3. s \in SessionFields /\ s.id = session.id
    BY <1>2, <1>s, TickActiveFacts
  <1>4. Flushed(s, tracker) \subseteq Payloads /\ \A p \in Flushed(s, tracker) : p.id = s.id
    BY <1>2, <1>3, FlushedFacts
  <1> QED
    BY <1>1, <1>2, <1>3, <1>4, LeftKeeps

\* An answer, or the want of one, changes what is awaited and no clock.
LEMMA AnswerKeeps ==
  ASSUME ReadingInv, UNCHANGED <<now, page, watch>>,
         session' \in SessionFields, session'.id = session.id, session'.active = session.active,
         session'.since = session.since, session'.acted = session.acted, session'.bound => session.bound,
         session'.timers => session.timers /\ session'.bound,
         page.step = "calling" => session'.bound,
         session'.sent \in {session.sent, Null},
         tracker' \in TrackerFields, tracker'.qualified = tracker.qualified,
         \/ tracker' = tracker /\ session'.bound = session.bound
         \/ ~tracker'.on /\ ~tracker'.frames /\ tracker'.sampled = tracker.sampled /\ tracker'.streak = tracker.streak,
         RowTypes'
  PROVE  ReadingInv'
  <1>1. Attention'
    BY AttentionKept DEF ReadingInv, Attention
  <1>2. Counts(session)'
    BY StoppedCounts DEF ReadingInv, PageTypes
  <1> QED
    BY <1>1, <1>2 DEF ReadingInv, PageTypes, Phases

LEMMA HeardFacts ==
  ASSUME ReadingInv, NEW ok \in BOOLEAN, Heard(ok)
  PROVE  /\ session' \in SessionFields /\ session'.id = session.id /\ session'.active = session.active
         /\ session'.since = session.since /\ session'.bound = session.bound
         /\ session'.timers = session.timers /\ session'.sent = Null /\ session'.acted = session.acted
  BY DEF ReadingInv, PageTypes, Heard, SessionFields

LEMMA CarriedKeeps ==
  ASSUME ReadingInv, NEW p \in wire, NEW ok \in BOOLEAN, Carried(p, ok)
  PROVE  ReadingInv'
  <1>1. /\ wire' = wire \ {p} /\ rows' = [rows EXCEPT ![p.id] = UpdateSession(@, p)]
    BY DEF Carried
  <1>h. (Heard(ok) \/ UNCHANGED session) /\ UNCHANGED <<now, page, tracker, watch>>
    BY DEF Carried
  <1>2. session \in SessionFields /\ tracker \in TrackerFields /\ RowTypes /\ p \in Payloads
    BY DEF ReadingInv, PageTypes, RowTypes
  <1>3. /\ session' \in SessionFields /\ session'.id = session.id /\ session'.active = session.active
        /\ session'.since = session.since /\ session'.bound = session.bound
        /\ session'.acted = session.acted
        /\ session'.timers = session.timers /\ session'.sent \in {session.sent, Null}
    BY <1>2, <1>h, HeardFacts
  <1>4. RowTypes'
    <2>i. PICK i : i = p.id
      OBVIOUS
    <2>r. PICK r : r = UpdateSession(rows[i], p)
      OBVIOUS
    <2>1. i \in 1 .. Len(rows) /\ rows[i] \in RowFields
      BY <1>2, <2>i DEF RowTypes, Payloads
    <2>2. r \in RowFields
      <3>1. /\ Larger(rows[i].active, p.active) \in Nat /\ Larger(rows[i].scroll, p.scroll) \in 0 .. MaxScroll
            /\ [s \in Sections |-> Larger(rows[i].dwell[s], p.dwell[s])] \in Dwell
        BY <1>2, <2>1 DEF RowFields, Payloads, Dwell, Larger
      <3> QED
        BY <2>1, <2>r, <3>1 DEF UpdateSession, RowFields
    <2>3. rows' = [rows EXCEPT ![i] = r]
      BY <1>1, <2>i, <2>r
    <2>4. rows' \in Seq(RowFields) /\ Len(rows') = Len(rows)
      BY <1>2, <2>1, <2>2, <2>3 DEF RowTypes
    <2> QED
      BY <1>1, <1>2, <1>3, <2>4 DEF RowTypes
  <1> QED
    BY <1>h, <1>2, <1>3, <1>4, AnswerKeeps DEF ReadingInv, Phases

LEMMA DroppedKeeps ==
  ASSUME ReadingInv, NEW p \in wire, Dropped(p) \/ GivenUp(p)
  PROVE  ReadingInv'
  <1>1. /\ wire' \subseteq wire /\ (Heard(FALSE) \/ UNCHANGED session)
        /\ UNCHANGED <<now, page, tracker, rows, watch>>
    BY DEF Dropped, GivenUp
  <1>2. session \in SessionFields /\ tracker \in TrackerFields /\ RowTypes
    BY DEF ReadingInv, PageTypes
  <1>3. /\ session' \in SessionFields /\ session'.id = session.id /\ session'.active = session.active
        /\ session'.since = session.since /\ session'.bound = session.bound
        /\ session'.acted = session.acted
        /\ session'.timers = session.timers /\ session'.sent \in {session.sent, Null}
    BY <1>1, <1>2, HeardFacts
  <1>4. RowTypes'
    BY <1>1, <1>2, <1>3 DEF RowTypes
  <1> QED
    BY <1>1, <1>2, <1>3, <1>4, AnswerKeeps DEF ReadingInv, Phases

LEMMA RefusedKeeps ==
  ASSUME ReadingInv, NEW p \in wire, Refused(p)
  PROVE  ReadingInv'
  <1>1. wire' \subseteq wire /\ UNCHANGED <<now, page, rows, watch>>
    BY DEF Refused
  <1>2. session \in SessionFields /\ tracker \in TrackerFields /\ RowTypes /\ p \in Payloads /\ now \in Times
        /\ page \in Pages
    BY DEF ReadingInv, PageTypes, RowTypes
  <1>3. CASE /\ Awaited(p) /\ session' = Stopped([session EXCEPT !.sent = Null])
             /\ tracker' = [Pause(tracker) EXCEPT !.on = FALSE]
    <2>s. PICK s : s = [session EXCEPT !.sent = Null]
      OBVIOUS
    <2>1. /\ s \in SessionFields /\ s.id = session.id /\ s.active = session.active /\ s.since = session.since
          /\ s.sent = Null /\ s.acted = session.acted
      BY <1>2, <2>s DEF SessionFields
    <2>2. /\ session' \in SessionFields /\ session'.id = session.id /\ session'.active = session.active
          /\ session'.since = session.since /\ ~session'.bound /\ ~session'.timers /\ session'.sent = Null
          /\ session'.acted = session.acted
      <3>1. session' = Stopped(s)
        BY <1>3, <2>s
      <3>2. Stopped(s).sent = s.sent
        BY <2>1 DEF Stopped, SessionFields
      <3> QED
        BY <1>2, <2>1, <3>1, <3>2, SessionFacts
    <2>3. tracker' \in TrackerFields /\ tracker'.qualified = tracker.qualified /\ ~tracker'.on
          /\ ~tracker'.frames /\ tracker'.sampled = tracker.sampled /\ tracker'.streak = tracker.streak
      BY <1>2, <1>3, TrackerFacts DEF Pause, TrackerFields
    <2>4. page.step # "calling"
      BY <1>2, <1>3, ReadingConstants DEF Awaited, ReadingInv, Phases
    <2>5. RowTypes'
      BY <1>1, <1>2, <2>2 DEF RowTypes
    <2> QED
      BY <1>1, <2>2, <2>3, <2>4, <2>5, AnswerKeeps
  <1>4. CASE UNCHANGED <<session, tracker>>
    <2>1. RowTypes'
      BY <1>1, <1>2, <1>4 DEF RowTypes
    <2> QED
      BY <1>1, <1>2, <1>4, <2>1, AnswerKeeps DEF ReadingInv, Phases
  <1> QED
    BY <1>3, <1>4 DEF Refused

LEMMA RowGoneKeeps == ReadingInv /\ RowGone => ReadingInv'
  <1> SUFFICES ASSUME ReadingInv, RowGone PROVE ReadingInv'
    OBVIOUS
  <1>1. session \in SessionFields /\ tracker \in TrackerFields /\ RowTypes
        /\ UNCHANGED <<now, page, session, tracker, wire, watch>>
    BY DEF ReadingInv, PageTypes, RowGone
  <1>2. PICK i \in DOMAIN rows : rows' = [rows EXCEPT ![i].gone = TRUE]
    BY DEF RowGone
  <1>r. PICK r : r = [rows[i] EXCEPT !.gone = TRUE]
    OBVIOUS
  <1>i. rows[i] \in RowFields /\ rows' = [rows EXCEPT ![i] = r]
    BY <1>1, <1>2, <1>r DEF RowTypes
  <1>3. r \in RowFields
    BY <1>i, <1>r DEF RowFields
  <1>4. rows' \in Seq(RowFields) /\ Len(rows') = Len(rows)
    BY <1>1, <1>i, <1>3 DEF RowTypes
  <1>5. RowTypes'
    BY <1>1, <1>4 DEF RowTypes
  <1> QED
    BY <1>1, <1>5, AnswerKeeps DEF ReadingInv, Phases

\* From t to u, one section at most has been credited, and with dt.
Earned(u, t, w, dt) == \A s \in Sections : \/ u.qualified[s] = t.qualified[s]
                                           \/ s = w /\ u.qualified[s] = t.qualified[s] + dt

\* A sample is credited to one section at most, and only after a streak.
LEMMA SampledFacts ==
  ASSUME NEW t \in TrackerFields, NEW w, NEW dt \in 0 .. 2, now \in Times, page \in Pages,
         dt = Elapsed(t)
  PROVE  /\ Sampled(t, w) \in TrackerFields /\ Sampled(t, w).on = t.on /\ Sampled(t, w).frames = t.frames
         /\ Sampled(t, w).acted = t.acted
         /\ \/ Sampled(t, w) = t
            \/ Sampled(t, w).sampled = now
         /\ \/ Sampled(t, w).qualified = t.qualified /\ (~page.visible => Sampled(t, w).streak = t.streak)
            \/ /\ page.visible /\ now - t.acted < Idle /\ t.streak # Nothing
               /\ Earned(Sampled(t, w), t, w, dt)
  <1>u. PICK u : u = [t EXCEPT !.sampled = now]
    OBVIOUS
  <1>0. /\ u \in TrackerFields /\ u.sampled = now /\ u.on = t.on /\ u.frames = t.frames
        /\ u.acted = t.acted /\ u.qualified = t.qualified /\ u.streak = t.streak
    BY <1>u DEF TrackerFields
  <1>1. CASE ~page.visible \/ now - t.acted >= Idle
    <2>1. Sampled(t, w) = u
      BY <1>1, <1>u DEF Sampled
    <2> QED
      BY <1>0, <2>1
  <1>2. CASE page.visible /\ ~(now - t.acted >= Idle) /\ now = t.sampled
    <2>1. Sampled(t, w) = t
      BY <1>2 DEF Sampled
    <2> QED
      BY <1>2, <2>1
  <1>3. CASE page.visible /\ ~(now - t.acted >= Idle) /\ now # t.sampled
    <2>k. PICK streak : streak = [s \in Sections |-> IF s \in page.view THEN u.streak[s] + dt ELSE 0]
      OBVIOUS
    <2>e. PICK entered : entered = u.entered \cup page.view
      OBVIOUS
    <2>q. PICK qualified : qualified = [s \in Sections |->
              IF s = w /\ u.streak[s] + dt >= Qualified THEN u.qualified[s] + dt ELSE u.qualified[s]]
      OBVIOUS
    <2>3. Sampled(t, w) = Sample(u, w, dt)
      BY <1>3, <1>u DEF Sampled
    <2>4. Sampled(t, w) = [u EXCEPT !.streak = streak, !.entered = entered, !.qualified = qualified]
      BY <2>3, <2>k, <2>e, <2>q DEF Sample
    <2>5. \A s \in Sections : u.streak[s] \in Nat /\ u.qualified[s] \in Nat
      BY <1>0 DEF TrackerFields, Dwell
    <2>6. streak \in Dwell /\ qualified \in Dwell
      BY <2>5, <2>k, <2>q DEF Dwell
    <2>7. entered \in SUBSET Sections
      BY <1>0, <2>e, ReadingAssumption DEF TrackerFields, Pages
    <2>8. /\ Sampled(t, w) \in TrackerFields /\ Sampled(t, w).on = u.on /\ Sampled(t, w).frames = u.frames
          /\ Sampled(t, w).acted = u.acted /\ Sampled(t, w).sampled = now
          /\ Sampled(t, w).qualified = qualified
      BY <1>0, <2>4, <2>6, <2>7 DEF TrackerFields
    <2>9. Earned(Sampled(t, w), t, w, dt)
      <3>1. \A s \in Sections : qualified[s] = t.qualified[s] \/ (s = w /\ qualified[s] = t.qualified[s] + dt)
        BY <1>0, <2>q
      <3> QED
        BY <2>8, <3>1 DEF Earned
    <2>10. CASE t.streak # Nothing
      <3>1. now - t.acted < Idle
        <4>1. now \in Nat /\ t.acted \in Nat /\ Idle \in Nat
          BY ReadingConstants DEF TrackerFields
        <4> QED
          BY <1>3, <4>1
      <3> QED
        BY <1>3, <1>0, <2>8, <2>9, <2>10, <3>1
    <2>11. CASE t.streak = Nothing
      <3>1. \A s \in Sections : ~(u.streak[s] + dt >= Qualified)
        BY <1>0, <2>11, ReadingConstants DEF Nothing
      <3>2. qualified = u.qualified
        BY <1>0, <2>q, <3>1 DEF TrackerFields, Dwell
      <3> QED
        BY <1>3, <1>0, <2>8, <3>2
    <2> QED
      BY <2>10, <2>11
  <1> QED
    BY <1>1, <1>2, <1>3

\* Some more units for one section are as many more pairs.
LEMMA MoreCredited ==
  ASSUME tracker \in TrackerFields, tracker' \in TrackerFields, IsFiniteSet(Credited), NEW w, NEW dt \in 0 .. 2,
         Earned(tracker', tracker, w, dt)
  PROVE  IsFiniteSet(Credited') /\ Cardinality(Credited') <= Cardinality(Credited) + dt
  <1>x. PICK x : x = <<w, tracker.qualified[w] + 1>>
    OBVIOUS
  <1>y. PICK y : y = <<w, tracker.qualified[w] + 2>>
    OBVIOUS
  <1>1. \A s \in Sections : tracker.qualified[s] \in Nat /\ tracker'.qualified[s] \in Nat
    BY DEF TrackerFields, Dwell
  <1>2. ASSUME NEW c \in Credited'
        PROVE  c \in Credited \/ (dt >= 1 /\ c = x) \/ (dt = 2 /\ c = y)
    <2>1. PICK s \in Sections : c \in {s} \X (1 .. tracker'.qualified[s])
      BY <1>2 DEF Credited
    <2>2. PICK n \in 1 .. tracker'.qualified[s] : c = <<s, n>>
      BY <2>1
    <2>3. CASE n \in 1 .. tracker.qualified[s]
      <3>1. c \in {s} \X (1 .. tracker.qualified[s])
        BY <2>2, <2>3
      <3> QED
        BY <3>1 DEF Credited
    <2>4. CASE n \notin 1 .. tracker.qualified[s]
      <3>q. PICK q : q = tracker.qualified[s]
        OBVIOUS
      <3>r. PICK r : r = tracker'.qualified[s]
        OBVIOUS
      <3>1. q \in Nat /\ r \in Nat /\ (r = q \/ (s = w /\ r = q + dt)) /\ n \in 1 .. r /\ n \notin 1 .. q
        BY <1>1, <2>2, <2>4, <3>q, <3>r DEF Earned
      <3>2. s = w /\ ((dt >= 1 /\ n = q + 1) \/ (dt = 2 /\ n = q + 2))
        BY <3>1
      <3> QED
        BY <1>x, <1>y, <2>2, <3>1, <3>2, <3>q
    <2> QED
      BY <2>3, <2>4
  <1>3. /\ IsFiniteSet(Credited \cup {x})
        /\ Cardinality(Credited \cup {x}) \in {Cardinality(Credited), Cardinality(Credited) + 1}
    BY FS_AddElement
  <1>4. /\ IsFiniteSet((Credited \cup {x}) \cup {y})
        /\ Cardinality((Credited \cup {x}) \cup {y}) \in
              {Cardinality(Credited \cup {x}), Cardinality(Credited \cup {x}) + 1}
    BY <1>3, FS_AddElement
  <1>5. Cardinality(Credited) \in Nat
    BY FS_CardinalityType
  <1>6. CASE dt = 0
    <2>1. Credited' \subseteq Credited
      BY <1>2, <1>6
    <2>2. IsFiniteSet(Credited') /\ Cardinality(Credited') <= Cardinality(Credited)
      BY <2>1, FS_Subset
    <2> QED
      BY <1>5, <1>6, <2>2
  <1>7. CASE dt = 1
    <2>1. Credited' \subseteq Credited \cup {x}
      BY <1>2, <1>7
    <2>2. IsFiniteSet(Credited') /\ Cardinality(Credited') <= Cardinality(Credited \cup {x})
      BY <2>1, <1>3, FS_Subset
    <2>3. Cardinality(Credited') \in Nat
      BY <2>2, FS_CardinalityType
    <2> QED
      BY <1>3, <1>5, <1>7, <2>2, <2>3
  <1>8. CASE dt = 2
    <2>1. Credited' \subseteq (Credited \cup {x}) \cup {y}
      BY <1>2, <1>8
    <2>2. IsFiniteSet(Credited') /\ Cardinality(Credited') <= Cardinality((Credited \cup {x}) \cup {y})
      BY <2>1, <1>4, FS_Subset
    <2>3. Cardinality(Credited') \in Nat
      BY <2>2, FS_CardinalityType
    <2> QED
      BY <1>3, <1>4, <1>5, <1>8, <2>2, <2>3
  <1> QED
    BY <1>6, <1>7, <1>8

LEMMA FrameKeeps == ReadingInv /\ Frame => ReadingInv'
  <1> SUFFICES ASSUME ReadingInv, Frame PROVE ReadingInv'
    OBVIOUS
  <1>1. /\ now \in Times /\ page \in Pages /\ tracker \in TrackerFields
        /\ tracker.on /\ tracker.frames /\ UNCHANGED <<now, page, session, wire, rows, watch>>
    BY DEF ReadingInv, PageTypes, Frame
  <1>2. PICK w : tracker' = Sampled(tracker, w)
    BY DEF Frame
  <1>d. PICK dt : dt = Elapsed(tracker)
    OBVIOUS
  <1>n. /\ now \in Nat /\ Idle \in Nat /\ watch.engaged \in Nat /\ watch.last \in Nat /\ watch.idle \in 0 .. 2
        /\ tracker.sampled \in Nat /\ tracker.acted \in Nat /\ Cardinality(Credited) \in Nat /\ dt \in 0 .. 2
    BY <1>d, Numbers DEF ReadingInv
  <1>3. /\ tracker' \in TrackerFields /\ tracker'.on = tracker.on /\ tracker'.frames = tracker.frames
        /\ tracker'.acted = tracker.acted
        /\ tracker' = tracker \/ tracker'.sampled = now
        /\ \/ tracker'.qualified = tracker.qualified /\ (~page.visible => tracker'.streak = tracker.streak)
           \/ /\ page.visible /\ now - tracker.acted < Idle /\ tracker.streak # Nothing
              /\ Earned(tracker', tracker, w, dt)
    <2>u. PICK u : u = Sampled(tracker, w)
      OBVIOUS
    <2>1. /\ u \in TrackerFields /\ u.on = tracker.on /\ u.frames = tracker.frames
          /\ u.acted = tracker.acted
          /\ u = tracker \/ u.sampled = now
          /\ \/ u.qualified = tracker.qualified /\ (~page.visible => u.streak = tracker.streak)
             \/ /\ page.visible /\ now - tracker.acted < Idle /\ tracker.streak # Nothing
                /\ Earned(u, tracker, w, dt)
      BY <1>1, <1>d, <1>n, <2>u, SampledFacts
    <2> QED
      BY <1>2, <2>u, <2>1
  <1>4. PageTypes' /\ RowTypes' /\ Counts(session)'
    BY <1>1, <1>3 DEF ReadingInv, PageTypes, RowTypes, Counts
  <1>5. page.step \notin {"gate", "warmup"}
    BY <1>1 DEF ReadingInv, Phases
  <1>6. Phases'
    BY <1>1, <1>5 DEF ReadingInv, Phases
  <1>7. IsFiniteSet(Credited') /\ Cardinality(Credited') \in Nat /\ Cardinality(Credited') <= watch.engaged
    <2>1. CASE tracker'.qualified = tracker.qualified
      <3>1. Credited' = Credited
        BY <2>1 DEF Credited
      <3> QED
        BY <1>n, <3>1 DEF ReadingInv, Attention
    <2>2. CASE tracker'.qualified # tracker.qualified
      <3>1. IsFiniteSet(Credited') /\ Cardinality(Credited') <= Cardinality(Credited) + dt
        <4>1. Earned(tracker', tracker, w, dt)
          BY <1>3, <2>2
        <4> QED
          BY <1>1, <1>3, <1>n, <4>1, MoreCredited DEF ReadingInv, Attention
      <3>2. Cardinality(Credited') \in Nat
        BY <3>1, FS_CardinalityType
      <3>3. Cardinality(Credited) + dt <= watch.engaged + watch.idle
        BY <1>1, <1>3, <1>d, <2>2 DEF ReadingInv, Attention
      <3>4. watch.idle = 0
        BY <1>1, <1>3, <1>n, <2>2 DEF ReadingInv, Attention
      <3> QED
        BY <1>n, <3>1, <3>2, <3>3, <3>4
    <2> QED
      BY <2>1, <2>2
  <1>8. Attention'
    <2>1. CASE tracker' = tracker
      BY <1>1, <2>1, AttentionKept DEF ReadingInv, Attention
    <2>2. CASE tracker'.sampled = now
      <3>1. Elapsed(tracker') = 0
        BY <1>1, <1>n, <2>2 DEF Elapsed, Smaller, Clamp
      <3>2. Cardinality(Credited') + Elapsed(tracker') <= watch.engaged + watch.idle
        BY <1>n, <1>7, <3>1
      <3>3. Elapsed(tracker)' = Elapsed(tracker')
        BY <1>1 DEF Elapsed
      <3>4. ~page.visible => tracker'.streak = Nothing
        BY <1>1, <1>3 DEF ReadingInv, Attention
      <3> QED
        BY <1>1, <1>3, <1>n, <1>7, <2>2, <3>2, <3>3, <3>4 DEF ReadingInv, Attention
    <2> QED
      BY <1>3, <2>1, <2>2
  <1> QED
    BY <1>4, <1>6, <1>8 DEF ReadingInv

LEMMA TickKeeps == ReadingInv /\ Tick => ReadingInv'
  <1> SUFFICES ASSUME ReadingInv, Tick PROVE ReadingInv'
    OBVIOUS
  <1>1. /\ now \in Times /\ page \in Pages /\ session \in SessionFields /\ tracker \in TrackerFields
        /\ watch \in Watches /\ now \in Nat /\ now' = now + 1 /\ now + 1 \in Times
        /\ UNCHANGED <<page, session, tracker, wire, rows>>
    BY ReadingConstants DEF ReadingInv, PageTypes, Tick, Times
  <1>n. /\ Idle \in Nat /\ watch.engaged \in Nat /\ watch.shown \in Nat /\ watch.last \in Nat
        /\ watch.idle \in 0 .. 2
        /\ tracker.sampled \in Nat /\ Cardinality(Credited) \in Nat /\ Elapsed(tracker) \in 0 .. 2
        /\ tracker.sampled <= now
    BY Numbers DEF ReadingInv, Attention
  <1>6. /\ watch' \in Watches /\ watch'.last = watch.last
        /\ watch'.shown = IF page.visible THEN watch.shown + 1 ELSE watch.shown
        /\ watch'.engaged = IF page.visible /\ now - watch.last < Idle THEN watch.engaged + 1 ELSE watch.engaged
        /\ watch'.idle = IF page.visible /\ ~(now - watch.last < Idle) THEN Smaller(watch.idle + 1, 2) ELSE watch.idle
    <2>1. CASE ~page.visible
      BY <1>1, <2>1 DEF Tick
    <2>2. CASE page.visible /\ now - watch.last < Idle
      <3>1. watch' = [watch EXCEPT !.shown = watch.shown + 1, !.engaged = watch.engaged + 1]
        BY <2>2 DEF Tick
      <3>2. watch.shown + 1 \in Nat /\ watch.engaged + 1 \in Nat
        BY <1>n
      <3>3. /\ watch' \in Watches /\ watch'.last = watch.last /\ watch'.shown = watch.shown + 1
            /\ watch'.engaged = watch.engaged + 1 /\ watch'.idle = watch.idle
        BY <1>1, <3>1, <3>2 DEF Watches
      <3> QED
        BY <2>2, <3>3
    <2>3. CASE page.visible /\ ~(now - watch.last < Idle)
      <3>i. PICK idle : idle = Smaller(watch.idle + 1, 2)
        OBVIOUS
      <3>0. idle \in 0 .. Clamp /\ watch.shown + 1 \in Nat
        BY <1>n, <3>i DEF Smaller, Clamp
      <3>1. watch' = [watch EXCEPT !.shown = watch.shown + 1, !.idle = idle]
        BY <2>3, <3>i DEF Tick, Clamp
      <3>2. /\ watch' \in Watches /\ watch'.last = watch.last /\ watch'.shown = watch.shown + 1
            /\ watch'.engaged = watch.engaged /\ watch'.idle = idle
        BY <1>1, <3>0, <3>1 DEF Watches
      <3> QED
        BY <2>3, <3>i, <3>2
    <2> QED
      BY <2>1, <2>2, <2>3
  <1>7. PageTypes' /\ RowTypes' /\ Phases'
    BY <1>1, <1>6 DEF ReadingInv, PageTypes, RowTypes, Phases
  <1>8. Counts(session)'
    <2>1. /\ session.active \in Nat /\ session.acted \in Nat
          /\ (session.since # Null => session.since \in Nat)
      BY <1>1, ReadingConstants DEF SessionFields
    <2> QED
      BY <1>1, <1>n, <1>6, <2>1 DEF ReadingInv, Counts
  <1>c. Credited' = Credited
    BY <1>1 DEF Credited
  <1>e. Elapsed(tracker)' <= Elapsed(tracker) + 1 /\ Elapsed(tracker)' \in 0 .. 2
    BY <1>1, <1>n DEF Elapsed, Smaller, Clamp
  <1>9. Attention'
    <2>1. watch'.idle > 0 => now' - watch'.last > Idle
      <3>1. watch.idle > 0 => now - watch.last > Idle
        BY DEF ReadingInv, Attention
      <3> QED
        BY <1>1, <1>n, <1>6, <3>1
    <2>2. ASSUME tracker'.frames, tracker'.streak # Nothing
          PROVE  Cardinality(Credited') + Elapsed(tracker)' <= watch'.engaged + watch'.idle
      <3>1. /\ Cardinality(Credited) + Elapsed(tracker) <= watch.engaged + watch.idle /\ page.visible
            /\ Cardinality(Credited) <= watch.engaged
        BY <1>1, <2>2 DEF ReadingInv, Attention
      <3>2. CASE now - watch.last < Idle
        BY <1>n, <1>6, <1>c, <1>e, <3>1, <3>2
      <3>3. CASE ~(now - watch.last < Idle)
        BY <1>n, <1>6, <1>c, <1>e, <3>1, <3>3 DEF Smaller
      <3> QED
        BY <3>2, <3>3
    <2>3. Cardinality(Credited') <= watch'.engaged /\ watch'.last <= now' /\ tracker'.sampled <= now'
      BY <1>1, <1>n, <1>6, <1>c DEF ReadingInv, Attention
    <2> QED
      BY <1>1, <1>6, <1>c, <2>1, <2>2, <2>3 DEF ReadingInv, Attention
  <1> QED
    BY <1>7, <1>8, <1>9 DEF ReadingInv

LEMMA ReadingStep == ReadingInv /\ [ReadingNext]_readingVars => ReadingInv'
  <1> SUFFICES ASSUME ReadingInv, [ReadingNext]_readingVars PROVE ReadingInv'
    OBVIOUS
  <1>1. CASE Answered
    <2>1. PICK p \in wire : Carried(p, TRUE) \/ Refused(p)
      BY <1>1 DEF Answered
    <2> QED
      BY <2>1, CarriedKeeps, RefusedKeeps
  <1>2. CASE Unheard
    <2>1. PICK p \in wire : Carried(p, FALSE) \/ Dropped(p) \/ GivenUp(p)
      BY <1>2 DEF Unheard
    <2> QED
      BY <2>1, CarriedKeeps, DroppedKeeps
  <1>3. CASE Heartbeat \/ HostFlush \/ LongestReached \/ WarmedUp \/ StartSession \/ SubmitEmail
    BY <1>3, HeartbeatKeeps, LongestKeeps, WarmedUpKeeps, StartSessionKeeps, SubmitEmailKeeps
  <1>4. CASE Hide \/ Show \/ Press \/ Scroll \/ Click \/ PageHide \/ OptOut
    BY <1>4, HideKeeps, ShowKeeps, PressKeeps, ScrollKeeps, PageHideKeeps
  <1>5. CASE Tick \/ Frame \/ RowGone
    BY <1>5, TickKeeps, FrameKeeps, RowGoneKeeps
  <1>6. CASE UNCHANGED readingVars
    BY <1>6 DEF readingVars, ReadingInv, PageTypes, RowTypes, Phases, Counts, Attention, Credited, Elapsed
  <1> QED
    BY <1>1, <1>2, <1>3, <1>4, <1>5, <1>6 DEF ReadingNext

\* Every field of the page, of its objects and of the table keeps to its type:
\* clocks and counters stay natural numbers, although session.ts and
\* sections-v2.ts subtract times from each other.
THEOREM ReadingTypesHold == ReadingSpec => []ReadingTypes
  <1>1. ReadingInv => ReadingTypes
    BY ReadingInvImplies
  <1> QED
    BY <1>1, ReadingStarts, ReadingStep, PTL DEF ReadingSpec

\* However the tab is hidden and shown, and whichever of the flush, the
\* heartbeat and the idle pause comes first, session.ts counts no time as
\* active in which the tab was hidden, until it is stopped: then at most Idle.
THEOREM HiddenNeverCountedHolds == ReadingSpec => []HiddenNeverCounted
  <1>1. ReadingInv => HiddenNeverCounted
    BY ReadingInvImplies
  <1> QED
    BY <1>1, ReadingStarts, ReadingStep, PTL DEF ReadingSpec

\* What sections-v2.ts credits to all sections together is never more than the
\* time its reader was there, for any document, thresholds and length of visit,
\* and however late the frames come.
THEOREM DwellIsAttentionHolds == ReadingSpec => []DwellIsAttention
  <1>1. ReadingInv => DwellIsAttention
    BY ReadingInvImplies
  <1> QED
    BY <1>1, ReadingStarts, ReadingStep, PTL DEF ReadingSpec

=============================================================================
