---------------------------- MODULE AccountProofs ----------------------------
(***************************************************************************)
(* What an account's owner keeps: the connections to assistants            *)
(* (Connections) and the documents (Documents).  The two have no variable  *)
(* in common, and each part below is about one of them.                    *)
(*                                                                         *)
(* What holds of Connections for any number of requests, consents,         *)
(* callbacks and revocations.  Everything about a connection is about its  *)
(* key, and a key is minted by one POST of the form: the invariant follows *)
(* one key through the consent (Lifecycle), says that what makes its grant *)
(* exists once at a time (Single), and that a key once revoked gets no     *)
(* grant that was timely any more (KeyStays), which is what a revocation   *)
(* relies on.                                                              *)
(***************************************************************************)
EXTENDS Connections, Documents, TLAPS

DecisionRecords == {[step |-> "new"]} \cup [step : DecisionSteps, tx : Txs]
CallbackRecords == {[step |-> "new"]} \cup [step : CallbackSteps, key : Keys]
RevokerRecords ==
    {[step |-> "new"]} \cup
    [step : {"row", "list", "delete", "done"}, key : Keys, listed : SUBSET Grants]

Types ==
    /\ parked \subseteq Txs
    /\ deciding \in [Decisions -> DecisionRecords]
    /\ keys \in [Keys -> {"none", "live", "revoked"}]
    /\ handles \subseteq [tx : Txs, key : Keys, expired : BOOLEAN]
    /\ rows \in [Keys -> {"none", "recorded", "gone"}]
    /\ calling \in [Callbacks -> CallbackRecords]
    /\ grants \subseteq Grants
    /\ shown \subseteq Grants /\ timely \subseteq shown
    /\ revoking \in [Revokers -> RevokerRecords]

HasHandle(k) == \E h \in handles : h.key = k
HasGrant(k) == \E g \in grants : g.key = k
About(c, k) == calling[c].step # "new" /\ calling[c].key = k
Completing(c, k) == About(c, k) /\ calling[c].step = "complete"
Begun(r) == revoking[r].step # "new"

\* A key is of the POST of its name, and the connector hears of it last.
Lifecycle(k) ==
    /\ keys[k] = "none" <=> deciding[k].step = "new"
    /\ deciding[k].step \in {"new", "handle"} => ~HasHandle(k)
    /\ deciding[k].step \in {"new", "handle", "undo"} => rows[k] = "none"
    /\ ((\E c \in Callbacks : About(c, k)) \/ HasGrant(k)) => deciding[k].step = "answered"

\* A key has one handle, or one callback that spent it, or one grant.
Single(k) ==
    /\ \A h, i \in handles : h.key = k /\ i.key = k => h = i
    /\ \A c, e \in Callbacks : Completing(c, k) /\ Completing(e, k) => c = e
    /\ \A g, i \in grants : g.key = k /\ i.key = k => g = i
    /\ (\E c \in Callbacks : Completing(c, k)) => ~HasHandle(k) /\ ~HasGrant(k)
    /\ HasGrant(k) => ~HasHandle(k)

\* A grant is the last thing a callback makes.
Made == \A g \in grants \cup shown : calling[g.by].step = "done"

\* A revocation is of a revoked key, and what is told to the connector has a row.
BegunSound(r) ==
    Begun(r) => /\ keys[revoking[r].key] = "revoked"
                /\ revoking[r].step \in {"list", "delete"} => rows[revoking[r].key] # "none"

\* What is left of the listed grants is all that is left of the timely ones.
RevocationSound(r) ==
    Begun(r) /\ revoking[r].step = "delete" =>
        \A g \in grants \cap timely : g.key = revoking[r].key => g \in revoking[r].listed

GoneSound(k) ==
    rows[k] = "gone" => keys[k] = "revoked" /\ \A g \in grants \cap timely : g.key # k

\* How keys come to grants, in whatever order they are made and revoked;
Core == /\ Types
        /\ Made
        /\ \A k \in Keys : Lifecycle(k) /\ Single(k)
        /\ \A r \in Revokers : BegunSound(r)

\* and what revocations know of them.
Rest == (\A r \in Revokers : RevocationSound(r)) /\ (\A k \in Keys : GoneSound(k))

IInv == Core /\ Rest

\* What a step may do to a key that is revoked.
KeyStays(k) ==
    keys[k] = "revoked" => /\ keys'[k] = "revoked"
                           /\ \A g \in grants' \cap timely' : g.key = k => g \in grants \cap timely

-----------------------------------------------------------------------------
(* The records.                                                            *)

LEMMA DecideMoves ==
  ASSUME Types, NEW d \in Decisions, deciding[d].step # "new", NEW step \in DecisionSteps, Decide(d, step)
  PROVE  /\ deciding' \in [Decisions -> DecisionRecords]
         /\ deciding'[d].step = step
         /\ \A e \in Decisions \ {d} : deciding'[e] = deciding[e]
  <1> DEFINE new == [deciding[d] EXCEPT !.step = step]
  <1>1. deciding[d] \in [step : DecisionSteps, tx : Txs]
    BY DEF Types, DecisionRecords
  <1>2. new \in [step : DecisionSteps, tx : Txs] /\ new.step = step
    BY <1>1
  <1>3. deciding' = [deciding EXCEPT ![d] = new]
    BY DEF Decide
  <1> HIDE DEF new
  <1> QED
    BY <1>2, <1>3 DEF Types, DecisionRecords

LEMMA StepMoves ==
  ASSUME Types, NEW c \in Callbacks, calling[c].step # "new", NEW step \in CallbackSteps, Step(c, step)
  PROVE  /\ calling' \in [Callbacks -> CallbackRecords]
         /\ calling'[c].step = step /\ calling'[c].key = calling[c].key
         /\ \A e \in Callbacks \ {c} : calling'[e] = calling[e]
  <1> DEFINE new == [calling[c] EXCEPT !.step = step]
  <1>1. calling[c] \in [step : CallbackSteps, key : Keys]
    BY DEF Types, CallbackRecords
  <1>2. new \in [step : CallbackSteps, key : Keys] /\ new.step = step /\ new.key = calling[c].key
    BY <1>1
  <1>3. calling' = [calling EXCEPT ![c] = new]
    BY DEF Step
  <1> HIDE DEF new
  <1> QED
    BY <1>2, <1>3 DEF Types, CallbackRecords

LEMMA KeyOfBegun ==
  ASSUME Types, NEW r \in Revokers, Begun(r)
  PROVE  revoking[r].key \in Keys /\ revoking[r].listed \subseteq Grants
  BY DEF Types, RevokerRecords, Begun

LEMMA MadeBy ==
  ASSUME Core
  PROVE  \A g \in grants \cup shown : g.by \in Callbacks /\ calling[g.by].step = "done"
  BY DEF Core, Types, Made, Grants

LEMMA KeyOfCallback ==
  ASSUME Types, NEW c \in Callbacks, calling[c].step # "new"
  PROVE  calling[c].key \in Keys
  BY DEF Types, CallbackRecords

-----------------------------------------------------------------------------
(* The consent.                                                            *)

LEMMA ParkedKeeps ==
  ASSUME Core, NEW tx \in Txs, Authorize(tx) \/ ParkedExpires(tx)
  PROVE  Core' /\ \A k \in Keys : KeyStays(k)
  <1>1. UNCHANGED <<deciding, keys, handles, rows, calling, grants, shown, timely, revoking>> /\ parked' \subseteq Txs
    BY DEF Authorize, ParkedExpires, Core, Types
  <1>2. Types'
    BY <1>1 DEF Core, Types
  <1> QED
    BY <1>1, <1>2 DEF Core, Lifecycle, Single, About, Completing, HasHandle, HasGrant, Begun, BegunSound,
                      Made, KeyStays

LEMMA AllowKeeps ==
  ASSUME Core, NEW d \in Decisions, NEW tx \in Txs, Allow(d, tx)
  PROVE  Core' /\ \A k \in Keys : KeyStays(k)
  <1>1. /\ UNCHANGED <<parked, handles, rows, calling, grants, shown, timely, revoking>>
        /\ deciding[d].step = "new" /\ keys' = [keys EXCEPT ![d] = "live"]
        /\ deciding' = [deciding EXCEPT ![d] = [step |-> "handle", tx |-> tx]]
    BY DEF Allow
  <1>0. keys[d] = "none"
    BY <1>1 DEF Core, Lifecycle, Keys
  <1>2. [step |-> "handle", tx |-> tx] \in DecisionRecords
    BY DEF DecisionRecords, DecisionSteps
  <1>3. /\ Types' /\ keys'[d] = "live" /\ deciding'[d].step = "handle"
        /\ \A k \in Keys \ {d} : keys'[k] = keys[k] /\ deciding'[k] = deciding[k]
    BY <1>1, <1>2 DEF Core, Types, Keys
  <1>4. ASSUME NEW k \in Keys PROVE Lifecycle(k)' /\ Single(k)' /\ KeyStays(k)
    <2>1. Lifecycle(k) /\ Single(k)
      BY DEF Core
    <2>2. Single(k)'
      BY <1>1, <2>1 DEF Single, About, Completing, HasHandle, HasGrant
    <2>3. Lifecycle(k)'
      BY <1>1, <1>3, <2>1 DEF Lifecycle, About, HasHandle, HasGrant
    <2>4. KeyStays(k)
      BY <1>0, <1>1, <1>3 DEF KeyStays
    <2> QED
      BY <2>2, <2>3, <2>4
  <1>5. \A r \in Revokers : BegunSound(r)'
    BY <1>0, <1>1, <1>3, KeyOfBegun DEF Core, Begun, BegunSound
  <1>6. Made'
    BY <1>1 DEF Core, Made
  <1> QED
    BY <1>3, <1>4, <1>5, <1>6 DEF Core

LEMMA InsertHandleKeeps ==
  ASSUME Core, NEW d \in Decisions, InsertHandle(d)
  PROVE  Core' /\ \A k \in Keys : KeyStays(k)
  <1> DEFINE new == [tx |-> deciding[d].tx, key |-> d, expired |-> FALSE]
  <1>1. PICK step \in {"row", "undo"} :
            /\ Decide(d, step) /\ deciding[d].step = "handle"
            /\ handles' \in {handles, handles \cup {new}}
            /\ UNCHANGED <<parked, keys, rows, calling, grants, shown, timely, revoking>>
    BY DEF InsertHandle, HandleInserted
  <1>2. /\ deciding' \in [Decisions -> DecisionRecords] /\ deciding'[d].step = step
        /\ \A e \in Decisions \ {d} : deciding'[e] = deciding[e]
    BY <1>1, DecideMoves DEF Core, DecisionSteps
  <1>3. new \in [tx : Txs, key : Keys, expired : BOOLEAN] /\ new.key = d /\ ~new.expired
    BY <1>1 DEF Core, Types, Keys, DecisionRecords
  <1> HIDE DEF new
  <1>4. Types'
    BY <1>1, <1>2, <1>3 DEF Core, Types
  <1>5. ASSUME NEW k \in Keys PROVE Lifecycle(k)' /\ Single(k)' /\ KeyStays(k)
    <2>1. Lifecycle(k) /\ Single(k)
      BY DEF Core
    <2>2. CASE k = d
      <3>1. ~HasHandle(k) /\ rows[k] = "none" /\ ~HasGrant(k) /\ \A c \in Callbacks : ~About(c, k)
        BY <1>1, <2>1, <2>2 DEF Lifecycle
      <3>2. Lifecycle(k)'
        BY <1>1, <1>2, <2>1, <2>2, <3>1 DEF Lifecycle, About, HasHandle, HasGrant
      <3>3. Single(k)'
        BY <1>1, <1>3, <2>2, <3>1 DEF Single, About, Completing, HasHandle, HasGrant
      <3>4. KeyStays(k)
        BY <1>1 DEF KeyStays
      <3> QED
        BY <3>2, <3>3, <3>4
    <2>3. CASE k # d
      <3>1. \A h : h.key = k => (h \in handles' <=> h \in handles)
        BY <1>1, <1>3, <2>3
      <3>2. HasHandle(k)' = HasHandle(k) /\ HandleOf(k)' = HandleOf(k)
        BY <3>1 DEF HasHandle, HandleOf
      <3>3. Lifecycle(k)' /\ deciding'[k] = deciding[k]
        BY <1>1, <1>2, <2>1, <2>3, <3>2 DEF Lifecycle, About, HasGrant, Keys
      <3>4. Single(k)'
        BY <1>1, <2>1, <3>1, <3>2 DEF Single, About, Completing, HasGrant
      <3>5. KeyStays(k)
        BY <1>1 DEF KeyStays
      <3> QED
        BY <3>3, <3>4, <3>5
    <2> QED
      BY <2>2, <2>3
  <1>6. \A r \in Revokers : BegunSound(r)'
    BY <1>1 DEF Core, Begun, BegunSound
  <1>7. Made'
    BY <1>1 DEF Core, Made
  <1> QED
    BY <1>4, <1>5, <1>6, <1>7 DEF Core

\* A POST that goes on, or ends: its key may be revoked, or get its row.
LEMMA DecisionGoes ==
  ASSUME Core, NEW d \in Decisions, NEW step \in {"done", "answered"}, Decide(d, step),
         deciding[d].step \in {"handle", "undo", "row"}, step = "answered" => deciding[d].step = "row",
         UNCHANGED <<parked, handles, calling, grants, shown, timely, revoking>>,
         keys' \in [Keys -> {"none", "live", "revoked"}], \A k \in Keys : keys'[k] \in {keys[k], "revoked"} /\ (keys'[k] = "none" <=> keys[k] = "none"),
         rows' \in [Keys -> {"none", "recorded", "gone"}], \A k \in Keys \ {d} : rows'[k] = rows[k],
         rows[d] # "none" => rows'[d] # "none"
  PROVE  Core' /\ \A k \in Keys : KeyStays(k)
  <1>1. /\ deciding' \in [Decisions -> DecisionRecords] /\ deciding'[d].step = step
        /\ \A e \in Decisions \ {d} : deciding'[e] = deciding[e]
    BY DecideMoves DEF Core, DecisionSteps
  <1>2. Types'
    BY <1>1 DEF Core, Types
  <1>3. ASSUME NEW k \in Keys PROVE Lifecycle(k)' /\ Single(k)' /\ KeyStays(k)
    <2>1. Lifecycle(k) /\ Single(k)
      BY DEF Core
    <2>2. Single(k)'
      BY <2>1 DEF Single, About, Completing, HasHandle, HasGrant
    <2>3. CASE k = d
      <3>1. Lifecycle(k)'
        BY <1>1, <2>1, <2>3 DEF Lifecycle, About, HasHandle, HasGrant
      <3>2. KeyStays(k)
        BY DEF KeyStays
      <3> QED
        BY <2>2, <3>1, <3>2
    <2>4. CASE k # d
      <3>1. Lifecycle(k)'
        BY <1>1, <2>1, <2>4 DEF Lifecycle, About, HasHandle, HasGrant, Keys
      <3>2. KeyStays(k)
        BY DEF KeyStays
      <3> QED
        BY <2>2, <3>1, <3>2
    <2> QED
      BY <2>3, <2>4
  <1>4. \A r \in Revokers : BegunSound(r)'
    BY KeyOfBegun DEF Core, Begun, BegunSound
  <1>5. Made'
    BY DEF Core, Made
  <1> QED
    BY <1>2, <1>3, <1>4, <1>5 DEF Core

LEMMA RevokedKeys ==
  ASSUME Types, NEW k \in Keys, Revoked(k)
  PROVE  /\ keys' \in [Keys -> {"none", "live", "revoked"}]
         /\ \A j \in Keys : keys'[j] \in {keys[j], "revoked"} /\ (keys'[j] = "none" <=> keys[j] = "none")
         /\ keys[k] # "none" => keys'[k] = "revoked"
  BY DEF Types, Revoked

LEMMA ConsentKeeps ==
  ASSUME Core, NEW d \in Decisions, UndoKey(d) \/ RecordRow(d) \/ DecisionDies(d)
  PROVE  Core' /\ \A k \in Keys : KeyStays(k)
  <1>1. CASE UndoKey(d)
    BY <1>1, DecisionGoes, RevokedKeys DEF UndoKey, Core, Types, Keys
  <1>2. CASE RecordRow(d)
    BY <1>2, DecisionGoes DEF RecordRow, Core, Types, Keys
  <1>3. CASE DecisionDies(d)
    BY <1>3, DecisionGoes DEF DecisionDies, Core, Types
  <1> QED
    BY <1>1, <1>2, <1>3

\* Handles age and go.
LEMMA HandleKeeps ==
  ASSUME Core, Purge \/ \E h \in handles : HandleExpires(h)
  PROVE  Core' /\ \A k \in Keys : KeyStays(k)
  <1>1. UNCHANGED <<parked, deciding, keys, rows, calling, grants, shown, timely, revoking>>
    BY DEF Purge, HandleExpires
  <1>2. handles \subseteq [tx : Txs, key : Keys, expired : BOOLEAN]
    BY DEF Core, Types
  <1>3. /\ handles' \subseteq [tx : Txs, key : Keys, expired : BOOLEAN]
        /\ \A i \in handles' : \E j \in handles : j.key = i.key /\ (~i.expired => i = j)
        /\ \A k \in Keys : (\A i, j \in handles : i.key = k /\ j.key = k => i = j)
                           => (\A i, j \in handles' : i.key = k /\ j.key = k => i = j)
    <2>1. CASE Purge
      BY <1>2, <2>1 DEF Purge
    <2>2. ASSUME NEW h \in handles, HandleExpires(h)
          PROVE  /\ handles' \subseteq [tx : Txs, key : Keys, expired : BOOLEAN]
                 /\ \A i \in handles' : \E j \in handles : j.key = i.key /\ (~i.expired => i = j)
                 /\ \A k \in Keys : (\A i, j \in handles : i.key = k /\ j.key = k => i = j)
                                    => (\A i, j \in handles' : i.key = k /\ j.key = k => i = j)
      <3> DEFINE new == [h EXCEPT !.expired = TRUE]
      <3>1. new \in [tx : Txs, key : Keys, expired : BOOLEAN] /\ new.key = h.key /\ new.expired
        BY <1>2
      <3>2. handles' = (handles \ {h}) \cup {new}
        BY <2>2 DEF HandleExpires
      <3> HIDE DEF new
      <3> QED
        BY <1>2, <3>1, <3>2
    <2> QED
      BY <2>1, <2>2
  <1>4. \A k \in Keys : HasHandle(k)' => HasHandle(k)
    BY <1>3 DEF HasHandle
  <1>6. Types'
    BY <1>1, <1>3 DEF Core, Types
  <1>7. ASSUME NEW k \in Keys PROVE Lifecycle(k)' /\ Single(k)' /\ KeyStays(k)
    <2>1. Lifecycle(k) /\ Single(k)
      BY DEF Core
    <2>2. Lifecycle(k)'
      BY <1>1, <1>4, <2>1 DEF Lifecycle, About, HasGrant
    <2>3. Single(k)'
      BY <1>1, <1>3, <1>4, <2>1 DEF Single, Completing, About, HasGrant
    <2>4. KeyStays(k)
      BY <1>1 DEF KeyStays
    <2> QED
      BY <2>2, <2>3, <2>4
  <1> QED
    BY <1>1, <1>6, <1>7 DEF Core, Begun, BegunSound, Made

-----------------------------------------------------------------------------
(* The callback.                                                           *)

LEMMA ReadParkedKeeps ==
  ASSUME Core, NEW c \in Callbacks, NEW d \in Decisions, ReadParked(c, d)
  PROVE  Core' /\ \A k \in Keys : KeyStays(k)
  <1> DEFINE new == [step |-> "unpark", key |-> d]
  <1>1. /\ UNCHANGED <<parked, deciding, keys, handles, rows, grants, shown, timely, revoking>>
        /\ deciding[d].step = "answered" /\ calling' = [calling EXCEPT ![c] = new] /\ calling[c].step = "new"
    BY DEF ReadParked
  <1>2. new \in CallbackRecords /\ new.step = "unpark" /\ new.key = d
    BY DEF CallbackRecords, CallbackSteps, Keys
  <1> HIDE DEF new
  <1>3. Types' /\ calling'[c] = new /\ \A e \in Callbacks \ {c} : calling'[e] = calling[e]
    BY <1>1, <1>2 DEF Core, Types
  <1>4. ASSUME NEW k \in Keys PROVE Lifecycle(k)' /\ Single(k)' /\ KeyStays(k)
    <2>1. Lifecycle(k) /\ Single(k)
      BY DEF Core
    <2>2. \A e \in Callbacks : /\ About(e, k)' => About(e, k) \/ (e = c /\ k = d)
                               /\ Completing(e, k)' => Completing(e, k)
      BY <1>2, <1>3 DEF About, Completing
    <2>3. Lifecycle(k)'
      BY <1>1, <2>1, <2>2 DEF Lifecycle, HasHandle, HasGrant
    <2>4. Single(k)'
      BY <1>1, <2>1, <2>2 DEF Single, HasHandle, HasGrant
    <2>5. KeyStays(k)
      BY <1>1 DEF KeyStays
    <2> QED
      BY <2>3, <2>4, <2>5
  <1>5. Made'
    BY <1>1, <1>3, MadeBy DEF Made
  <1> QED
    BY <1>1, <1>3, <1>4, <1>5 DEF Core, Begun, BegunSound

\* A callback that goes on to any step but "complete", or ends.
LEMMA CallbackGoes ==
  ASSUME Core, NEW c \in Callbacks, calling[c].step \notin {"new", "done"}, NEW step \in CallbackSteps \ {"complete"},
         Step(c, step), parked' \subseteq parked, UNCHANGED <<deciding, keys, handles, rows, grants, shown, timely, revoking>>
  PROVE  Core' /\ \A k \in Keys : KeyStays(k)
  <1>1. /\ calling' \in [Callbacks -> CallbackRecords]
        /\ calling'[c].step = step /\ calling'[c].key = calling[c].key
        /\ \A e \in Callbacks \ {c} : calling'[e] = calling[e]
    BY StepMoves DEF Core
  <1>2. Types'
    BY <1>1 DEF Core, Types
  <1>3. ASSUME NEW k \in Keys PROVE Lifecycle(k)' /\ Single(k)' /\ KeyStays(k)
    <2>1. Lifecycle(k) /\ Single(k)
      BY DEF Core
    <2>2. \A e \in Callbacks : /\ About(e, k)' => About(e, k)
                               /\ Completing(e, k)' => Completing(e, k)
      BY <1>1 DEF About, Completing
    <2>3. Lifecycle(k)'
      BY <2>1, <2>2 DEF Lifecycle, HasHandle, HasGrant
    <2>4. Single(k)'
      BY <2>1, <2>2 DEF Single, HasHandle, HasGrant
    <2>5. KeyStays(k)
      BY DEF KeyStays
    <2> QED
      BY <2>3, <2>4, <2>5
  <1>4. Made'
    BY <1>1, MadeBy DEF Made
  <1> QED
    BY <1>2, <1>3, <1>4 DEF Core, Begun, BegunSound

\* One statement spends the handle and returns what it held: the key's one
\* handle becomes the one callback that completes.
LEMMA ExchangeKeeps ==
  ASSUME Core, NEW c \in Callbacks, Exchange(c)
  PROVE  Core' /\ \A k \in Keys : KeyStays(k)
  <1> DEFINE j == calling[c].key
  <1>1. /\ calling[c].step = "exchange" /\ HandleOf(j) # {} /\ handles' = handles \ HandleOf(j)
        /\ UNCHANGED <<parked, deciding, keys, rows, grants, shown, timely, revoking>>
    BY DEF Exchange, Spent
  <1>2. PICK step \in {"complete", "done"} : Step(c, step)
    BY DEF Exchange
  <1>3. /\ calling' \in [Callbacks -> CallbackRecords]
        /\ calling'[c].step = step /\ calling'[c].key = j
        /\ \A e \in Callbacks \ {c} : calling'[e] = calling[e]
    BY <1>1, <1>2, StepMoves DEF Core, CallbackSteps
  <1>4. j \in Keys
    BY <1>1, KeyOfCallback DEF Core
  <1> HIDE DEF j
  <1>5. Types'
    BY <1>1, <1>3 DEF Core, Types
  <1>6. ASSUME NEW k \in Keys PROVE Lifecycle(k)' /\ Single(k)' /\ KeyStays(k)
    <2>1. Lifecycle(k) /\ Single(k)
      BY DEF Core
    <2>2. \A e \in Callbacks : /\ About(e, k)' => About(e, k)
                               /\ Completing(e, k)' => Completing(e, k) \/ (e = c /\ k = j)
      BY <1>1, <1>3 DEF About, Completing, j
    <2>3. Lifecycle(k)'
      BY <1>1, <2>1, <2>2 DEF Lifecycle, HasHandle, HasGrant
    <2>4. CASE k = j
      <3>1. HasHandle(k) /\ ~HasGrant(k) /\ \A e \in Callbacks : ~Completing(e, k)
        BY <1>1, <2>1, <2>4 DEF Single, HasHandle, HandleOf
      <3>2. ~HasHandle(k)'
        BY <1>1, <2>1, <2>4 DEF Single, HasHandle, HandleOf
      <3>3. Single(k)'
        BY <1>1, <2>1, <2>2, <3>1, <3>2 DEF Single, HasHandle, HasGrant
      <3>4. KeyStays(k)
        BY <1>1 DEF KeyStays
      <3> QED
        BY <2>3, <3>3, <3>4
    <2>5. CASE k # j
      <3>1. Single(k)'
        BY <1>1, <2>1, <2>2, <2>5 DEF Single, HasHandle, HasGrant
      <3>2. KeyStays(k)
        BY <1>1 DEF KeyStays
      <3> QED
        BY <2>3, <3>1, <3>2
    <2> QED
      BY <2>4, <2>5
  <1>7. Made'
    BY <1>1, <1>3, MadeBy DEF Made
  <1> QED
    BY <1>1, <1>5, <1>6, <1>7 DEF Core, Begun, BegunSound

LEMMA CompleteKeeps ==
  ASSUME Core, NEW c \in Callbacks, CompleteAuthorization(c)
  PROVE  Core' /\ \A k \in Keys : KeyStays(k)
  <1> DEFINE j == calling[c].key
             new == [by |-> c, key |-> j]
  <1>1. /\ calling[c].step = "complete" /\ grants' = grants \cup {new} /\ Step(c, "done")
        /\ UNCHANGED <<parked, deciding, keys, handles, rows, shown, timely, revoking>>
    BY DEF CompleteAuthorization
  <1>2. /\ calling' \in [Callbacks -> CallbackRecords]
        /\ calling'[c].step = "done" /\ calling'[c].key = j
        /\ \A e \in Callbacks \ {c} : calling'[e] = calling[e]
    BY <1>1, StepMoves DEF Core, CallbackSteps
  <1>3. j \in Keys /\ Completing(c, j)
    BY <1>1, KeyOfCallback DEF Core, Completing, About
  <1>4. new \in Grants /\ new.key = j /\ new.by = c
    BY <1>3 DEF Grants
  <1> HIDE DEF j, new
  <1>7. new \notin timely
    <2>1. timely \subseteq shown
      BY DEF Core, Types
    <2> QED
      BY <1>1, <1>4, <2>1, MadeBy
  <1>8. Made'
    BY <1>1, <1>2, <1>4, MadeBy DEF Made
  <1>5. Types'
    BY <1>1, <1>2, <1>4 DEF Core, Types
  <1>6. ASSUME NEW k \in Keys PROVE Lifecycle(k)' /\ Single(k)' /\ KeyStays(k)
    <2>1. Lifecycle(k) /\ Single(k)
      BY DEF Core
    <2>2. \A e \in Callbacks : /\ About(e, k)' => About(e, k)
                               /\ Completing(e, k)' => Completing(e, k) /\ e # c
      BY <1>1, <1>2 DEF About, Completing, j
    <2>3. CASE k = j
      <3>1. /\ ~HasHandle(k) /\ ~HasGrant(k) /\ About(c, k)
            /\ \A e \in Callbacks : Completing(e, k) => e = c
        BY <1>3, <2>1, <2>3 DEF Single, Completing
      <3>2. Lifecycle(k)'
        BY <1>1, <2>1, <2>2, <3>1 DEF Lifecycle, HasHandle
      <3>3. Single(k)'
        BY <1>1, <2>2, <3>1 DEF Single, HasHandle, HasGrant
      <3>4. KeyStays(k)
        BY <1>1, <1>7 DEF KeyStays
      <3> QED
        BY <3>2, <3>3, <3>4
    <2>4. CASE k # j
      <3>1. \A g : g.key = k => (g \in grants' <=> g \in grants)
        BY <1>1, <1>4, <2>4
      <3>2. HasGrant(k)' = HasGrant(k)
        BY <3>1 DEF HasGrant
      <3>3. Lifecycle(k)'
        BY <1>1, <2>1, <2>2, <3>2 DEF Lifecycle, HasHandle
      <3>4. Single(k)'
        BY <1>1, <2>1, <2>2, <3>1, <3>2 DEF Single, HasHandle
      <3>5. KeyStays(k)
        BY <1>1, <1>7 DEF KeyStays
      <3> QED
        BY <3>3, <3>4, <3>5
    <2> QED
      BY <2>3, <2>4
  <1> QED
    BY <1>1, <1>5, <1>6, <1>8 DEF Core, Begun, BegunSound

\* A grant that is shown late does not become timely.
LEMMA ShownKeeps ==
  ASSUME Core, NEW g \in grants, KVShows(g)
  PROVE  Core' /\ \A k \in Keys : KeyStays(k)
  <1>1. /\ UNCHANGED <<parked, deciding, keys, handles, rows, calling, grants, revoking>>
        /\ shown' = shown \cup {g} /\ timely' = IF keys[g.key] = "live" THEN timely \cup {g} ELSE timely
    BY DEF KVShows
  <1>2. Types' /\ Made'
    BY <1>1 DEF Core, Types, Made
  <1>3. ASSUME NEW k \in Keys PROVE Lifecycle(k)' /\ Single(k)' /\ KeyStays(k)
    <2>1. Lifecycle(k) /\ Single(k)
      BY DEF Core
    <2>2. Lifecycle(k)' /\ Single(k)'
      BY <1>1, <2>1 DEF Lifecycle, Single, About, Completing, HasHandle, HasGrant
    <2>3. KeyStays(k)
      BY <1>1 DEF KeyStays
    <2> QED
      BY <2>2, <2>3
  <1> QED
    BY <1>1, <1>2, <1>3 DEF Core, Begun, BegunSound

LEMMA CallbackKeeps ==
  ASSUME Core, NEW c \in Callbacks, Unpark(c) \/ ExchangeRefused(c) \/ CallbackDies(c)
  PROVE  Core' /\ \A k \in Keys : KeyStays(k)
  <1>1. CASE Unpark(c)
    BY <1>1, CallbackGoes DEF Unpark, CallbackSteps
  <1>2. CASE ExchangeRefused(c)
    BY <1>2, CallbackGoes DEF ExchangeRefused, CallbackSteps
  <1>3. CASE CallbackDies(c)
    BY <1>3, CallbackGoes DEF CallbackDies, CallbackSteps
  <1> QED
    BY <1>1, <1>2, <1>3

-----------------------------------------------------------------------------
(* The revocation.                                                         *)

\* What is not a revocation's own step leaves every revocation sound.
LEMMA RestKeeps ==
  ASSUME Core, Rest, \A k \in Keys : KeyStays(k), UNCHANGED revoking,
         \A k \in Keys : rows'[k] = "gone" => rows[k] = "gone"
  PROVE  Rest'
  <1>1. ASSUME NEW r \in Revokers, Begun(r)' PROVE RevocationSound(r)'
    <2>1. Begun(r) /\ RevocationSound(r) /\ revoking[r].key \in Keys
      BY <1>1, KeyOfBegun DEF Begun, Core, Rest
    <2>2. KeyStays(revoking[r].key) /\ keys[revoking[r].key] = "revoked"
      BY <2>1 DEF Core, BegunSound
    <2> QED
      BY <2>1, <2>2 DEF RevocationSound, KeyStays
  <1>2. ASSUME NEW k \in Keys PROVE GoneSound(k)'
    <2>1. GoneSound(k) /\ KeyStays(k)
      BY DEF Rest
    <2> QED
      BY <2>1 DEF GoneSound, KeyStays
  <1> QED
    BY <1>1, <1>2 DEF Rest, RevocationSound

\* A revocation writes nothing a consent or a callback goes by, but the key.
LEMMA RevocationCore ==
  ASSUME Core, UNCHANGED <<parked, deciding, handles, calling, shown, timely>>, grants' \subseteq grants,
         revoking' \in [Revokers -> RevokerRecords], \A r \in Revokers : BegunSound(r)',
         keys' \in [Keys -> {"none", "live", "revoked"}],
         \A k \in Keys : keys'[k] \in {keys[k], "revoked"} /\ (keys'[k] = "none" <=> keys[k] = "none"),
         rows' \in [Keys -> {"none", "recorded", "gone"}],
         \A k \in Keys : rows'[k] = rows[k] \/ rows[k] # "none"
  PROVE  Core' /\ \A k \in Keys : KeyStays(k)
  <1>1. Types' /\ Made'
    BY DEF Core, Types, Made
  <1>2. ASSUME NEW k \in Keys PROVE Lifecycle(k)' /\ Single(k)' /\ KeyStays(k)
    <2>1. Lifecycle(k) /\ Single(k)
      BY DEF Core
    <2>2. Lifecycle(k)'
      BY <2>1 DEF Lifecycle, About, HasHandle, HasGrant
    <2>3. Single(k)'
      BY <2>1 DEF Single, Completing, About, HasHandle, HasGrant
    <2>4. KeyStays(k)
      BY DEF KeyStays
    <2> QED
      BY <2>2, <2>3, <2>4
  <1> QED
    BY <1>1, <1>2 DEF Core

\* A revocation that goes on, with what it knows then.
LEMMA RevocationGoes ==
  ASSUME Core, Rest, NEW r \in Revokers, NEW j \in Keys, keys'[j] = "revoked",
         NEW new \in RevokerRecords, new.step # "new", new.key = j, revoking' = [revoking EXCEPT ![r] = new],
         UNCHANGED <<parked, deciding, handles, calling, shown, timely>>, grants' \subseteq grants,
         keys' \in [Keys -> {"none", "live", "revoked"}],
         \A k \in Keys : keys'[k] \in {keys[k], "revoked"} /\ (keys'[k] = "none" <=> keys[k] = "none"),
         rows' = rows \/ rows' = [rows EXCEPT ![j] = "gone"],
         new.step \in {"list", "delete"} \/ rows' # rows => rows[j] # "none",
         new.step = "delete" => \A g \in grants' \cap timely : g.key = j => g \in new.listed,
         rows' # rows => \A g \in grants' \cap timely : g.key # j
  PROVE  Core' /\ Rest'
  <1>1. /\ revoking' \in [Revokers -> RevokerRecords] /\ revoking'[r] = new
        /\ \A q \in Revokers \ {r} : revoking'[q] = revoking[q]
    BY DEF Core, Types
  <1>2. /\ rows' \in [Keys -> {"none", "recorded", "gone"}]
        /\ \A k \in Keys : rows'[k] = rows[k] \/ (k = j /\ rows' # rows /\ rows[j] # "none" /\ rows'[j] = "gone")
    BY DEF Core, Types
  <1>3. ASSUME NEW q \in Revokers PROVE BegunSound(q)'
    <2>1. CASE q = r
      BY <1>1, <1>2, <2>1 DEF BegunSound
    <2>2. CASE q # r
      BY <1>1, <1>2, <2>2, KeyOfBegun DEF Core, BegunSound, Begun
    <2> QED
      BY <2>1, <2>2
  <1>4. Core' /\ \A k \in Keys : KeyStays(k)
    BY <1>1, <1>2, <1>3, RevocationCore
  <1>5. ASSUME NEW q \in Revokers, Begun(q)' PROVE RevocationSound(q)'
    <2>1. CASE q = r
      BY <1>1, <2>1 DEF RevocationSound
    <2>2. CASE q # r
      BY <1>1, <1>5, <2>2 DEF Rest, RevocationSound, Begun
    <2> QED
      BY <2>1, <2>2
  <1>6. ASSUME NEW k \in Keys PROVE GoneSound(k)'
    <2>1. GoneSound(k) /\ KeyStays(k)
      BY <1>4 DEF Rest
    <2>2. CASE rows'[k] = rows[k]
      BY <2>1, <2>2 DEF GoneSound, KeyStays
    <2>3. CASE k = j /\ rows' # rows
      BY <2>3 DEF GoneSound
    <2> QED
      BY <1>2, <2>2, <2>3
  <1> QED
    BY <1>4, <1>5, <1>6 DEF Rest, RevocationSound

LEMMA RevokeKeyKeeps ==
  ASSUME Core, Rest, NEW r \in Revokers, NEW k \in Keys, RevokeKey(r, k)
  PROVE  Core' /\ Rest'
  <1> DEFINE new == [step |-> "row", key |-> k, listed |-> {}]
  <1>1. /\ UNCHANGED <<parked, deciding, handles, rows, calling, grants, shown, timely>> /\ Revoked(k)
        /\ keys[k] # "none"
        /\ revoking' = [revoking EXCEPT ![r] = new]
    BY DEF RevokeKey
  <1>2. new \in RevokerRecords /\ new.step = "row" /\ new.key = k
    BY DEF RevokerRecords
  <1> HIDE DEF new
  <1>3. /\ keys' \in [Keys -> {"none", "live", "revoked"}] /\ keys'[k] = "revoked"
        /\ \A j \in Keys : keys'[j] \in {keys[j], "revoked"} /\ (keys'[j] = "none" <=> keys[j] = "none")
    BY <1>1, RevokedKeys DEF Core
  <1> QED
    BY <1>1, <1>2, <1>3, RevocationGoes

\* What a revocation under way goes by.
LEMMA BegunFacts ==
  ASSUME Core, Rest, NEW r \in Revokers, Begun(r)
  PROVE  /\ revoking[r] \in [step : {"row", "list", "delete", "done"}, key : Keys, listed : SUBSET Grants]
         /\ keys[revoking[r].key] = "revoked"
         /\ revoking[r].step \in {"list", "delete"} => rows[revoking[r].key] # "none"
         /\ keys \in [Keys -> {"none", "live", "revoked"}]
  BY DEF Core, Types, RevokerRecords, Begun, BegunSound

LEMMA TurnGoes ==
  ASSUME Core, Rest, NEW r \in Revokers, Begun(r), NEW step \in {"list", "done"}, Turn(r, step),
         UNCHANGED <<parked, deciding, keys, handles, calling, grants, shown, timely>>,
         rows' = rows \/ rows' = [rows EXCEPT ![revoking[r].key] = "gone"],
         step = "list" \/ rows' # rows => rows[revoking[r].key] # "none",
         rows' # rows => \A g \in grants \cap timely : g.key # revoking[r].key
  PROVE  Core' /\ Rest'
  <1> DEFINE new == [revoking[r] EXCEPT !.step = step]
  <1>j. PICK j \in Keys : revoking[r].key = j
    BY BegunFacts
  <1>1. revoking[r] \in [step : {"row", "list", "delete", "done"}, key : Keys, listed : SUBSET Grants]
    BY BegunFacts
  <1>2. new \in RevokerRecords /\ new.step = step /\ new.key = j
    BY <1>1, <1>j DEF RevokerRecords
  <1>3. revoking' = [revoking EXCEPT ![r] = new]
    BY DEF Turn
  <1> HIDE DEF new
  <1>4. keys' = keys /\ keys[j] = "revoked" /\ keys \in [Keys -> {"none", "live", "revoked"}]
    BY <1>j, BegunFacts
  <1> QED
    BY <1>2, <1>3, <1>4, <1>j, RevocationGoes

LEMMA FollowUpKeeps ==
  ASSUME Core, Rest, NEW r \in Revokers, FindRow(r) \/ Record(r) \/ RevocationDies(r)
  PROVE  Core' /\ Rest'
  <1>0. Begun(r) /\ (revoking[r].step \in {"list", "delete"} => rows[revoking[r].key] # "none")
    BY BegunFacts DEF FindRow, Record, RevocationDies, Begun
  <1>1. CASE FindRow(r)
    <2>1. PICK step \in {"done", "list"} : Turn(r, step) /\ (step = "list" => rows[revoking[r].key] # "none")
      BY <1>1 DEF FindRow
    <2> QED
      BY <1>0, <1>1, <2>1, TurnGoes DEF FindRow
  <1>2. CASE Record(r)
    <2>1. PICK answered \in BOOLEAN :
             (answered => revoking[r].step = "delete" /\ revoking[r].listed = {}) /\ Gone(r, answered)
      BY <1>2 DEF Record
    <2>2. /\ UNCHANGED <<parked, deciding, keys, handles, calling, grants, shown, timely>> /\ Turn(r, "done")
          /\ rows[revoking[r].key] # "none"
      BY <1>0, <1>2 DEF Record
    <2>3. \/ rows' = rows
          \/ rows' = [rows EXCEPT ![revoking[r].key] = "gone"] /\ revoking[r].step = "delete" /\ revoking[r].listed = {}
      BY <2>1 DEF Gone
    <2>4. rows' # rows => \A g \in grants \cap timely : g.key # revoking[r].key
      BY <1>0, <2>3 DEF Rest, RevocationSound
    <2> QED
      BY <1>0, <2>2, <2>3, <2>4, TurnGoes
  <1>3. CASE RevocationDies(r)
    BY <1>0, <1>3, TurnGoes DEF RevocationDies
  <1> QED
    BY <1>1, <1>2, <1>3

\* What is listed holds every timely grant: all of them are shown.
LEMMA ListGrantsKeeps ==
  ASSUME Core, Rest, NEW r \in Revokers, ListGrants(r)
  PROVE  Core' /\ Rest'
  <1>0. Begun(r) /\ revoking[r].step = "list"
    BY DEF ListGrants, Begun
  <1>j. PICK j \in Keys : revoking[r].key = j
    BY <1>0, BegunFacts
  <1>1. PICK listed \in SUBSET {g \in grants : g.key = revoking[r].key} :
            /\ \A g \in grants \cap shown : g.key = revoking[r].key => g \in listed
            /\ revoking' = [revoking EXCEPT ![r].step = "delete", ![r].listed = listed]
    BY DEF ListGrants
  <1>2. UNCHANGED <<parked, deciding, keys, handles, rows, calling, grants, shown, timely>>
    BY DEF ListGrants
  <1>3. listed \in SUBSET Grants /\ \A g \in grants \cap timely : g.key = j => g \in listed
    BY <1>1, <1>j DEF Core, Types
  <1> DEFINE new == [revoking[r] EXCEPT !.step = "delete", !.listed = listed]
  <1>4. revoking[r] \in [step : {"row", "list", "delete", "done"}, key : Keys, listed : SUBSET Grants]
    BY <1>0, BegunFacts
  <1>5. new \in RevokerRecords /\ new.step = "delete" /\ new.key = j /\ new.listed = listed
    BY <1>3, <1>4, <1>j DEF RevokerRecords
  <1>6. revoking' = [revoking EXCEPT ![r] = new]
    BY <1>1, Zenon DEF Core, Types
  <1> HIDE DEF new
  <1>7. keys' = keys /\ keys[j] = "revoked" /\ keys \in [Keys -> {"none", "live", "revoked"}] /\ rows[j] # "none"
    BY <1>0, <1>2, <1>j, BegunFacts
  <1> QED
    BY <1>2, <1>3, <1>5, <1>6, <1>7, RevocationGoes

LEMMA RevokeGrantKeeps ==
  ASSUME Core, Rest, NEW r \in Revokers, NEW g \in Grants, RevokeGrant(r, g)
  PROVE  Core' /\ Rest'
  <1>0. Begun(r) /\ revoking[r].step = "delete"
    BY DEF RevokeGrant, Begun
  <1>j. PICK j \in Keys : revoking[r].key = j
    BY <1>0, BegunFacts
  <1> DEFINE left == revoking[r].listed \ {g}
             new == [revoking[r] EXCEPT !.listed = left]
  <1>1. /\ UNCHANGED <<parked, deciding, keys, handles, rows, calling, shown, timely>>
        /\ grants' = grants \ {g}
        /\ revoking' = [revoking EXCEPT ![r].listed = left]
    BY DEF RevokeGrant
  <1>2. revoking[r] \in [step : {"row", "list", "delete", "done"}, key : Keys, listed : SUBSET Grants]
    BY <1>0, BegunFacts
  <1>3. left \in SUBSET Grants
    BY <1>2
  <1>4. \A i \in grants' \cap timely : i.key = j => i \in left
    BY <1>0, <1>1, <1>j DEF Rest, RevocationSound
  <1> HIDE DEF left
  <1>5. new \in RevokerRecords /\ new.step = "delete" /\ new.key = j /\ new.listed = left
    BY <1>0, <1>2, <1>3, <1>j DEF RevokerRecords
  <1>6. revoking' = [revoking EXCEPT ![r] = new]
    BY <1>1, Zenon DEF Core, Types
  <1> HIDE DEF new
  <1>7. keys' = keys /\ keys[j] = "revoked" /\ keys \in [Keys -> {"none", "live", "revoked"}] /\ rows[j] # "none"
    BY <1>0, <1>1, <1>j, BegunFacts
  <1>8. /\ rows' = rows /\ grants' \subseteq grants
        /\ UNCHANGED <<parked, deciding, handles, calling, shown, timely>>
    BY <1>1
  <1>9. /\ keys' \in [Keys -> {"none", "live", "revoked"}] /\ keys'[j] = "revoked"
        /\ \A k \in Keys : keys'[k] \in {keys[k], "revoked"} /\ (keys'[k] = "none" <=> keys[k] = "none")
    BY <1>7
  <1> QED
    BY <1>4, <1>5, <1>6, <1>7, <1>8, <1>9, RevocationGoes

-----------------------------------------------------------------------------
(* The theorems.                                                           *)

LEMMA InitSound == Init => IInv
  <1> SUFFICES ASSUME Init PROVE IInv
    OBVIOUS
  <1>1. Types
    BY DEF Init, Types, DecisionRecords, CallbackRecords, RevokerRecords
  <1>0. Made
    BY DEF Init, Made
  <1>2. ASSUME NEW k \in Keys PROVE Lifecycle(k) /\ Single(k) /\ GoneSound(k)
    BY DEF Init, Lifecycle, Single, GoneSound, HasHandle, HasGrant, About, Completing, Keys
  <1>3. ASSUME NEW r \in Revokers PROVE BegunSound(r) /\ RevocationSound(r)
    BY DEF Init, BegunSound, RevocationSound, Begun
  <1> QED
    BY <1>0, <1>1, <1>2, <1>3 DEF IInv, Core, Rest

LEMMA StepKeeps == IInv /\ [Next]_vars => IInv'
  <1> SUFFICES ASSUME IInv, [Next]_vars PROVE IInv'
    OBVIOUS
  <1>0. Core /\ Rest
    BY DEF IInv
  <1>1. Core' /\ Rest' => IInv'
    BY DEF IInv
  <1>2. CASE UNCHANGED vars
    <2>1. Core' /\ \A k \in Keys : KeyStays(k)
      BY <1>0, <1>2 DEF vars, Core, Types, Lifecycle, Single, About, Completing, HasHandle, HasGrant,
                       Begun, BegunSound, Made, KeyStays
    <2> QED
      BY <1>0, <1>1, <1>2, <2>1, RestKeeps DEF vars
  <1>3. ASSUME (Core' /\ \A k \in Keys : KeyStays(k)), UNCHANGED revoking,
               \A k \in Keys : rows'[k] = "gone" => rows[k] = "gone"
        PROVE  IInv'
    BY <1>0, <1>1, <1>3, RestKeeps
  <1>4. ASSUME NEW tx \in Txs, Authorize(tx) \/ ParkedExpires(tx) PROVE IInv'
    BY <1>0, <1>3, <1>4, ParkedKeeps DEF Authorize, ParkedExpires
  <1>5. ASSUME NEW tx \in Txs, NEW d \in Decisions, Allow(d, tx) PROVE IInv'
    BY <1>0, <1>3, <1>5, AllowKeeps DEF Allow
  <1>6. ASSUME NEW d \in Decisions, InsertHandle(d) PROVE IInv'
    BY <1>0, <1>3, <1>6, InsertHandleKeeps DEF InsertHandle
  <1>7. ASSUME NEW d \in Decisions, UndoKey(d) \/ RecordRow(d) \/ DecisionDies(d) PROVE IInv'
    <2>1. UNCHANGED revoking /\ \A k \in Keys : rows'[k] = "gone" => rows[k] = "gone"
      BY <1>0, <1>7 DEF UndoKey, RecordRow, DecisionDies, Core, Types
    <2> QED
      BY <1>0, <1>3, <1>7, <2>1, ConsentKeeps
  <1>8. CASE Purge \/ \E h \in handles : HandleExpires(h)
    BY <1>0, <1>3, <1>8, HandleKeeps DEF Purge, HandleExpires
  <1>9. ASSUME NEW c \in Callbacks, NEW d \in Decisions, ReadParked(c, d) PROVE IInv'
    BY <1>0, <1>3, <1>9, ReadParkedKeeps DEF ReadParked
  <1>10. ASSUME NEW c \in Callbacks, Unpark(c) \/ ExchangeRefused(c) \/ CallbackDies(c) PROVE IInv'
    BY <1>0, <1>3, <1>10, CallbackKeeps DEF Unpark, ExchangeRefused, CallbackDies
  <1>11. ASSUME NEW c \in Callbacks, Exchange(c) PROVE IInv'
    BY <1>0, <1>3, <1>11, ExchangeKeeps DEF Exchange
  <1>12. ASSUME NEW c \in Callbacks, CompleteAuthorization(c) PROVE IInv'
    BY <1>0, <1>3, <1>12, CompleteKeeps DEF CompleteAuthorization
  <1>13. ASSUME NEW r \in Revokers, NEW k \in Keys, RevokeKey(r, k) PROVE IInv'
    BY <1>0, <1>1, <1>13, RevokeKeyKeeps
  <1>14. ASSUME NEW r \in Revokers, FindRow(r) \/ Record(r) \/ RevocationDies(r) PROVE IInv'
    BY <1>0, <1>1, <1>14, FollowUpKeeps
  <1>15. ASSUME NEW r \in Revokers, ListGrants(r) PROVE IInv'
    BY <1>0, <1>1, <1>15, ListGrantsKeeps
  <1>16. ASSUME NEW r \in Revokers, NEW g \in Grants, RevokeGrant(r, g) PROVE IInv'
    BY <1>0, <1>1, <1>16, RevokeGrantKeeps
  <1>17. ASSUME NEW g \in grants, KVShows(g) PROVE IInv'
    BY <1>0, <1>3, <1>17, ShownKeeps DEF KVShows
  <1> QED
    BY <1>2, <1>4, <1>5, <1>6, <1>7, <1>8, <1>9, <1>10, <1>11, <1>12, <1>13, <1>14, <1>15,
       <1>16, <1>17 DEF Next

\* The inductive invariant, for any number of overlapping requests.
LEMMA Inductive == Spec => []IInv
  <1> QED
    BY InitSound, StepKeeps, PTL DEF Spec

\* The types of every variable; a key that was never minted has no handle and
\* no row (TypeOK).
THEOREM TypeCorrect == Spec => []TypeOK
  <1>1. IInv => TypeOK
    <2> SUFFICES ASSUME IInv PROVE TypeOK
      OBVIOUS
    <2>1. \A k \in Keys : keys[k] = "none" => HandleOf(k) = {} /\ rows[k] = "none"
      BY DEF IInv, Core, Lifecycle, HandleOf, HasHandle
    <2>2. Types
      BY DEF IInv, Core
    <2> QED
      BY <2>1, <2>2 DEF Types, TypeOK, DecisionRecords, CallbackRecords, RevokerRecords
  <1> QED
    BY <1>1, Inductive, PTL

\* A consent makes one connection at most (OneGrantPerKey): the exchange deletes
\* the key's one handle in the statement that returns it, so at most one
\* callback ever holds what completeAuthorization needs.
THEOREM OneGrantPerKeyHolds == Spec => []OneGrantPerKey
  <1>1. IInv => OneGrantPerKey
    BY DEF IInv, Core, Single, OneGrantPerKey, Types, Grants
  <1> QED
    BY <1>1, Inductive, PTL

\* A connection that was made and listed everywhere before its key was revoked
\* has no grant left once it is recorded as gone (RecordedGone): whoever lists
\* after a key is revoked finds all of its timely grants, there come no more, and
\* the record waits for the last of those listed, whichever calls fail or race.
THEOREM RecordedGoneHolds == Spec => []RecordedGone
  <1>1. IInv => RecordedGone
    BY DEF IInv, Core, Rest, GoneSound, RecordedGone, Types, Grants
  <1> QED
    BY <1>1, Inductive, PTL


(***************************************************************************)
(* What holds of Documents for any requests, objects, history and files.   *)
(* The making of a document is one request's (MakingOver), its keys        *)
(* are never used twice but for a replacement over the API (KeySound), and *)
(* a version from the dashboard that has not been written yet has no bytes *)
(* of another under its key (Ahead), which is what its score relies on.    *)
(***************************************************************************)

DocumentTypes ==
    /\ op \in [Ops -> OpSet]
    /\ docs \in [Ops -> RowSet \cup {Null}]
    /\ objects \subseteq [key : ObjectKeys, body : Bodies]
    /\ history \subseteq [doc : Ops, version : Nat, key : ObjectKeys]
    /\ attached \subseteq Attachments /\ stored \subseteq Attachments
    /\ staged \in Records \cup {Null}
    /\ told \subseteq Ops

Holds(k) == \E x \in objects : x.key = k
Changes(o) == op[o].kind \in {"web", "replace"}
IsWeb(o) == op[o].kind = "web"

\* The request that made a document is over, or about to report it.
MakingOver(d) == op[d] = Stopped("done") \/ At(d, "staged", "answer")
\* A replacement whose key has been used, and will not be tidied away.
KeyUsed(o) == op[o] = Stopped("done") \/ At(o, "replace", "history")

Making(o) == \/ At(o, "staged", "upload") \/ At(o, "staged", "rollback") \/ At(o, "staged", "seed") \/ At(o, "staged", "complete")
             \/ At(o, "create", "upload") \/ At(o, "create", "rollback") \/ At(o, "create", "seed") \/ At(o, "create", "share")
Uploaded(o) == \/ At(o, "staged", "seed") \/ At(o, "staged", "complete")
               \/ At(o, "create", "seed") \/ At(o, "create", "share")

KeySound(k, doc) ==
    /\ k.doc = doc /\ k.version >= 1
    /\ k.version = 1 => k = KeyOf(doc, 1)
    /\ k.version >= 2 => Holds(k)
    /\ k.by # Null => KeyUsed(k.by)

\* A row, and what it names.
RowSound(d) ==
    /\ docs[d] # Null =>
          /\ KeySound(docs[d].key, d) /\ docs[d].key.version = docs[d].version
          /\ docs[d].version = 1 => docs[d].score = d
          /\ docs[d].key.by # Null => docs[d].score = docs[d].key.by
          /\ docs[d].complete => MakingOver(d) /\ Holds(KeyOf(d, 1))
    /\ d \in told => docs[d] # Null /\ MakingOver(d) /\ Holds(KeyOf(d, 1))

BodySound(x) ==
    /\ x.key.by # Null => x.body = x.key.by
    /\ x.key.by = Null /\ x.key.version = 1 => x.body = x.key.doc

\* What a request knows.
RequestSound(o) ==
    /\ Making(o) => docs[o] # Null
    /\ Making(o) /\ op[o].kind = "staged" => docs[o].file = op[o].file
    /\ op[o].kind = "staged" /\ op[o].step # "answer" => op[o].doc = o
    /\ Uploaded(o) => Holds(KeyOf(o, 1))
    /\ At(o, "staged", "answer") =>
          HasFile(op[o].doc, op[o].file) /\ docs[op[o].doc].complete
    /\ staged # Null /\ op[o].kind = "staged" => (staged.token = o => op[o].file = staged.file)
    /\ Changes(o) => op[o].read >= 1
    /\ Replacing(o, "update") \/ Replacing(o, "history") => Holds(NewKey(o))

\* A replacement from the dashboard whose version no other one has read: the
\* key it writes is not served yet, nor are other bytes under it.
Ahead(o) == docs[op[o].doc] # Null => docs[op[o].doc].key # NewKey(o)
Written(o) == \A x \in objects : x.key = NewKey(o) => x.body = o
OneKey(o, p) == op[o].doc = op[p].doc /\ op[o].read = op[p].read
Apart(o) == \A p \in Ops : IsWeb(o) /\ IsWeb(p) /\ OneKey(o, p) => o = p \/ op[o].doc \in raced
WebSound(o) ==
    /\ At(o, "web", "upload") \/ At(o, "web", "update") => op[o].doc \in raced \/ Ahead(o)
    /\ At(o, "web", "update") => op[o].doc \in raced \/ Written(o)
    /\ Apart(o)

DocumentsInv ==
    /\ DocumentTypes
    /\ \A d \in Ops : RowSound(d)
    /\ \A x \in objects : BodySound(x)
    /\ \A h \in history : KeySound(h.key, h.doc)
    /\ \A o \in Ops : RequestSound(o)

ServedInv == (\A o \in Ops : WebSound(o)) /\ ScoreIsServed

-----------------------------------------------------------------------------
(* What every step of a request keeps of the others.                       *)

Only(o) == \A p \in Ops \ {o} : op'[p] = op[p]
Steady(o) == (KeyUsed(o) => KeyUsed(o)') /\ (MakingOver(o) => MakingOver(o)')
\* An object goes only with a creation that is undone, or as a replacement
\* that lost its race tidies up its own.
ObjectsStay(o) ==
    \A x \in objects : \/ \E y \in objects' : y.key = x.key
                       \/ x.key = KeyOf(o, 1) /\ At(o, "create", "erase")
                       \/ x.key.by = o /\ At(o, "replace", "tidy")
\* A row goes only with the creation it is of.
RowsGoOn(o) ==
    \A d \in Ops : docs[d] # Null /\ (d # o \/ docs[d].complete) =>
        docs'[d] # Null /\ docs'[d].file = docs[d].file /\ (docs[d].complete => docs'[d].complete)
RecordStays(o) == staged' = staged \/ staged' = Null \/ staged'.token \notin Ops \ {o}

LEMMA DocumentConstants ==
  /\ Null \notin Ops /\ Null \notin Files /\ Null \notin RowSet /\ Null \notin Records /\ Ops \cap Files = {}
  BY DocumentsAssumption, NullAssumption

LEMMA OpShape ==
  ASSUME NEW r \in OpSet
  PROVE  /\ r.kind = "none" => r \in {Stopped("new"), Stopped("done")}
         /\ r.kind = "staged" => r \in StagedOps
         /\ r.kind = "create" => r \in CreateOps
         /\ r.kind \in {"web", "replace"} => r \in ReplaceOps
         /\ r.kind = "attach" => r \in AttachOps
         /\ r.kind = "detach" => r \in DetachOps
         /\ r.kind \in {"none", "staged", "create", "web", "replace", "attach", "detach"}
  BY DEF OpSet, Stopped, StagedOps, CreateOps, ReplaceOps, AttachOps, DetachOps

\* A request that goes on to its next call keeps what it knows.
LEMMA GoToFacts ==
  ASSUME op \in [Ops -> OpSet], NEW o \in Ops, NEW step, GoTo(o, step)
  PROVE  /\ Only(o)
         /\ op[o] \in StagedOps /\ step \in {"insert", "lookup", "upload", "rollback", "seed", "complete", "answer"} =>
               /\ op' \in [Ops -> OpSet] /\ op'[o].kind = op[o].kind /\ op'[o].step = step
               /\ op'[o].file = op[o].file /\ op'[o].doc = op[o].doc
         /\ op[o] \in CreateOps /\ step \in {"insert", "upload", "rollback", "seed", "share", "undo", "erase"} =>
               op' \in [Ops -> OpSet] /\ op'[o].kind = op[o].kind /\ op'[o].step = step
         /\ op[o] \in ReplaceOps /\ step \in {"upload", "update", "tidy", "history"} =>
               /\ op' \in [Ops -> OpSet] /\ op'[o].kind = op[o].kind /\ op'[o].step = step
               /\ op'[o].doc = op[o].doc /\ op'[o].read = op[o].read
         /\ op[o] \in AttachOps /\ step \in {"insert", "upload", "rollback"} =>
               op' \in [Ops -> OpSet] /\ op'[o].kind = op[o].kind
         /\ op[o] \in DetachOps /\ step \in {"row", "object"} =>
               op' \in [Ops -> OpSet] /\ op'[o].kind = op[o].kind
  <1>r. PICK r : r = [op[o] EXCEPT !.step = step]
    OBVIOUS
  <1>1. op' = [op EXCEPT ![o] = r]
    BY <1>r DEF GoTo
  <1>2. Only(o) /\ op'[o] = r
    BY <1>1 DEF Only
  <1>3. r \in OpSet => op' \in [Ops -> OpSet]
    BY <1>1
  <1>4. op[o] \in StagedOps /\ step \in {"insert", "lookup", "upload", "rollback", "seed", "complete", "answer"} =>
           r \in StagedOps /\ r.kind = op[o].kind /\ r.step = step /\ r.file = op[o].file /\ r.doc = op[o].doc
    BY <1>r DEF StagedOps
  <1>5. op[o] \in CreateOps /\ step \in {"insert", "upload", "rollback", "seed", "share", "undo", "erase"} =>
           r \in CreateOps /\ r.kind = op[o].kind /\ r.step = step
    BY <1>r DEF CreateOps
  <1>6. op[o] \in ReplaceOps /\ step \in {"upload", "update", "tidy", "history"} =>
           r \in ReplaceOps /\ r.kind = op[o].kind /\ r.step = step /\ r.doc = op[o].doc /\ r.read = op[o].read
    BY <1>r DEF ReplaceOps
  <1>7. op[o] \in AttachOps /\ step \in {"insert", "upload", "rollback"} => r \in AttachOps /\ r.kind = op[o].kind
    BY <1>r DEF AttachOps
  <1>8. op[o] \in DetachOps /\ step \in {"row", "object"} => r \in DetachOps /\ r.kind = op[o].kind
    BY <1>r DEF DetachOps
  <1>9. StagedOps \cup CreateOps \cup ReplaceOps \cup AttachOps \cup DetachOps \subseteq OpSet
    BY DEF OpSet
  <1> QED
    BY <1>2, <1>3, <1>4, <1>5, <1>6, <1>7, <1>8, <1>9

LEMMA FinishFacts ==
  ASSUME op \in [Ops -> OpSet], NEW o \in Ops, Finish(o)
  PROVE  /\ Only(o) /\ Steady(o) /\ op' \in [Ops -> OpSet]
         /\ op'[o] = Stopped("done") /\ op'[o].kind = "none"
         /\ KeyUsed(o)' /\ MakingOver(o)' /\ RequestSound(o)'
  <1>1. op' = [op EXCEPT ![o] = Stopped("done")] /\ Stopped("done") \in OpSet /\ Stopped("done").kind = "none"
    BY DEF Finish, OpSet, Stopped
  <1>2. op'[o] = Stopped("done") /\ op' \in [Ops -> OpSet] /\ Only(o) /\ op'[o].kind = "none"
    BY <1>1 DEF Only
  <1>3. KeyUsed(o)' /\ MakingOver(o)'
    BY <1>2 DEF KeyUsed, MakingOver
  <1>4. RequestSound(o)'
    BY <1>2 DEF RequestSound, Making, Uploaded, At, Live, Changes, Replacing
  <1> QED
    BY <1>2, <1>3, <1>4 DEF Steady

LEMMA KeySoundKeeps ==
  ASSUME NEW o \in Ops, Only(o), Steady(o), ObjectsStay(o), NEW k \in ObjectKeys, NEW d \in Ops, KeySound(k, d)
  PROVE  KeySound(k, d)'
  <1>1. k.by # Null => KeyUsed(k.by) /\ KeyUsed(k.by)'
    <2>1. SUFFICES ASSUME k.by # Null PROVE KeyUsed(k.by) /\ KeyUsed(k.by)'
      OBVIOUS
    <2>2. KeyUsed(k.by) /\ k.by \in Ops
      BY <2>1 DEF KeySound, ObjectKeys
    <2>3. CASE k.by = o
      BY <2>2, <2>3 DEF Steady
    <2>4. CASE k.by # o
      BY <2>2, <2>4 DEF Only, KeyUsed, At, Live
    <2> QED
      BY <2>3, <2>4
  <1>2. k.version >= 2 => Holds(k)'
    <2>1. SUFFICES ASSUME k.version >= 2 PROVE Holds(k)'
      OBVIOUS
    <2>2. PICK x \in objects : x.key = k
      BY <2>1 DEF KeySound, Holds
    <2>3. k # KeyOf(o, 1)
      BY <2>1 DEF KeyOf
    <2>4. ~(k.by = o /\ At(o, "replace", "tidy"))
      BY <1>1, DocumentConstants DEF KeyUsed, At, Live, Stopped
    <2>5. \E y \in objects' : y.key = k
      BY <2>2, <2>3, <2>4 DEF ObjectsStay
    <2> QED
      BY <2>5 DEF Holds
  <1> QED
    BY <1>1, <1>2 DEF KeySound

\* No step of one request disturbs what another knows.
LEMMA OthersKeep ==
  ASSUME DocumentsInv, NEW o \in Ops, Only(o), ObjectsStay(o), RowsGoOn(o), RecordStays(o),
         NEW p \in Ops, p # o
  PROVE  RequestSound(p)'
  <1>0. op'[p] = op[p] /\ RequestSound(p) /\ op[p] \in OpSet
    BY DEF Only, DocumentsInv, DocumentTypes
  <1>1. /\ Making(p)' <=> Making(p)
        /\ Uploaded(p)' <=> Uploaded(p)
        /\ Changes(p)' <=> Changes(p)
        /\ \A kind, step : At(p, kind, step)' <=> At(p, kind, step)
    BY <1>0 DEF Making, Uploaded, Changes, At, Live
  <1>2. Making(p) => docs'[p] # Null /\ (op[p].kind = "staged" => docs'[p].file = op[p].file)
    BY <1>0 DEF RequestSound, RowsGoOn
  <1>3. ASSUME Uploaded(p) PROVE Holds(KeyOf(p, 1))'
    <2>1. PICK x \in objects : x.key = KeyOf(p, 1)
      BY <1>0, <1>3 DEF RequestSound, Holds
    <2>2. x.key # KeyOf(o, 1) /\ x.key.by # o
      BY <2>1, DocumentConstants DEF KeyOf
    <2> QED
      BY <2>1, <2>2 DEF ObjectsStay, Holds
  <1>4. ASSUME At(p, "staged", "answer")
        PROVE  HasFile(op[p].doc, op[p].file)' /\ docs'[op[p].doc].complete
    <2>1. op[p].doc \in Ops
      BY <1>0, <1>4, OpShape DEF At, StagedOps
    <2>2. docs[op[p].doc] # Null /\ docs[op[p].doc].file = op[p].file /\ docs[op[p].doc].complete
      BY <1>0, <1>4 DEF RequestSound, HasFile
    <2>3. /\ docs'[op[p].doc] # Null /\ docs'[op[p].doc].file = op[p].file /\ docs'[op[p].doc].complete
      BY <2>1, <2>2 DEF RowsGoOn
    <2> QED
      BY <1>0, <2>3 DEF HasFile
  <1>5. staged' # Null /\ op[p].kind = "staged" => (staged'.token = p => op[p].file = staged'.file)
    BY <1>0 DEF RequestSound, RecordStays
  <1>6. ASSUME Replacing(p, "update") \/ Replacing(p, "history") PROVE Holds(NewKey(p))'
    <2>k. PICK k : k = NewKey(p)
      OBVIOUS
    <2>1. op[p] \in ReplaceOps /\ op[p].read >= 1
      BY <1>0, <1>6, OpShape DEF Replacing, At, RequestSound, Changes
    <2>2. PICK x \in objects : x.key = k
      BY <1>0, <1>6, <2>k DEF RequestSound, Holds
    <2>3. k.version >= 2 /\ k.by \in {Null, p}
      BY <2>1, <2>k DEF NewKey, ReplaceOps
    <2>4. k # KeyOf(o, 1) /\ k.by # o
      BY <2>3, DocumentConstants DEF KeyOf
    <2>5. \E y \in objects' : y.key = k
      BY <2>2, <2>4 DEF ObjectsStay
    <2>6. NewKey(p)' = k
      BY <1>0, <2>k DEF NewKey
    <2> QED
      BY <2>5, <2>6 DEF Holds
  <1>7. Replacing(p, "update")' \/ Replacing(p, "history")' => Replacing(p, "update") \/ Replacing(p, "history")
    BY <1>1 DEF Replacing
  <1>8. Changes(p) => op'[p].read >= 1
    BY <1>0 DEF RequestSound
  <1> QED
    BY <1>0, <1>1, <1>2, <1>3, <1>4, <1>5, <1>6, <1>7, <1>8 DEF RequestSound

\* What a document that is made has, it keeps.
LEMMA MadeKeeps ==
  ASSUME NEW o \in Ops, Only(o), Steady(o), ObjectsStay(o), NEW d \in Ops, MakingOver(d), Holds(KeyOf(d, 1))
  PROVE  MakingOver(d)' /\ Holds(KeyOf(d, 1))'
  <1>1. MakingOver(d)'
    <2>1. CASE d = o
      BY <2>1 DEF Steady
    <2>2. CASE d # o
      BY <2>2 DEF Only, MakingOver, At, Live
    <2> QED
      BY <2>1, <2>2
  <1>2. PICK x \in objects : x.key = KeyOf(d, 1)
    BY DEF Holds
  <1>3. x.key.by # o
    BY <1>2, DocumentConstants DEF KeyOf
  <1>4. ~(x.key = KeyOf(o, 1) /\ At(o, "create", "erase"))
    BY <1>2 DEF KeyOf, MakingOver, At, Live, Stopped
  <1>5. \E y \in objects' : y.key = KeyOf(d, 1)
    BY <1>2, <1>3, <1>4 DEF ObjectsStay
  <1> QED
    BY <1>1, <1>5 DEF Holds

ToldGoesOn(d) == d \in told' => d \in told \/ (docs'[d] # Null /\ MakingOver(d)' /\ Holds(KeyOf(d, 1))')

LEMMA RowSoundKeeps ==
  ASSUME DocumentsInv, NEW o \in Ops, Only(o), Steady(o), ObjectsStay(o),
         NEW d \in Ops, docs'[d] = docs[d], ToldGoesOn(d)
  PROVE  RowSound(d)'
  <1>0. RowSound(d) /\ docs[d] \in RowSet \cup {Null}
    BY DEF DocumentsInv, DocumentTypes
  <1>1. ASSUME docs[d] # Null PROVE KeySound(docs[d].key, d)'
    <2>1. docs[d].key \in ObjectKeys /\ KeySound(docs[d].key, d)
      BY <1>0, <1>1 DEF RowSet, RowSound
    <2>k. PICK k \in ObjectKeys : k = docs[d].key
      BY <2>1
    <2>2. KeySound(k, d)'
      BY <2>1, <2>k, KeySoundKeeps
    <2>3. docs[d].key' = k
      BY <2>k
    <2> QED
      BY <2>2, <2>3 DEF KeySound, KeyOf, Holds, KeyUsed, At, Live
  <1>2. MakingOver(d) /\ Holds(KeyOf(d, 1)) => MakingOver(d)' /\ Holds(KeyOf(d, 1))'
    BY MadeKeeps
  <1> QED
    BY <1>0, <1>1, <1>2 DEF RowSound, ToldGoesOn

\* What is left to see of a step of o: what o knows afterwards, and whatever
\* row, body or history row the step wrote.
LEMMA DocumentsKeep ==
  ASSUME DocumentsInv, DocumentTypes', NEW o \in Ops,
         Only(o), Steady(o), ObjectsStay(o), RowsGoOn(o), RecordStays(o), RequestSound(o)',
         \A x \in objects' : x \in objects \/ BodySound(x),
         \A h \in history' : h \in history \/ KeySound(h.key, h.doc)',
         \A d \in Ops : RowSound(d)' \/ (docs'[d] = docs[d] /\ ToldGoesOn(d))
  PROVE  DocumentsInv'
  <1>1. \A d \in Ops : RowSound(d)'
    BY RowSoundKeeps
  <1>2. \A x \in objects' : BodySound(x)'
    BY DEF DocumentsInv, BodySound
  <1>3. \A h \in history' : KeySound(h.key, h.doc)'
    <2>1. ASSUME NEW h \in history PROVE KeySound(h.key, h.doc)'
      <3>1. h.key \in ObjectKeys /\ h.doc \in Ops /\ KeySound(h.key, h.doc)
        BY DEF DocumentsInv, DocumentTypes
      <3> QED
        BY <3>1, KeySoundKeeps
    <2> QED
      BY <2>1
  <1>4. \A p \in Ops : RequestSound(p)'
    BY OthersKeep
  <1> QED
    BY <1>1, <1>2, <1>3, <1>4 DEF DocumentsInv

LEMMA QuietKeeps ==
  ASSUME DocumentsInv, DocumentTypes', NEW o \in Ops, Only(o), Steady(o), RecordStays(o), RequestSound(o)',
         UNCHANGED <<docs, objects, history, told>>
  PROVE  DocumentsInv'
  <1>1. ObjectsStay(o) /\ RowsGoOn(o) /\ \A d \in Ops : ToldGoesOn(d)
    BY DEF ObjectsStay, RowsGoOn, ToldGoesOn
  <1> QED
    BY <1>1, DocumentsKeep

-----------------------------------------------------------------------------
(* Requests that begin, that end, and that write no document.              *)

LEMMA BeginFacts ==
  ASSUME DocumentTypes, NEW o \in Ops, op[o] = Stopped("new"), NEW r \in OpSet, op' = [op EXCEPT ![o] = r]
  PROVE  Only(o) /\ Steady(o) /\ op'[o] = r /\ op' \in [Ops -> OpSet]
  <1>1. op'[o] = r /\ op' \in [Ops -> OpSet] /\ Only(o)
    BY DEF DocumentTypes, Only
  <1>2. ~KeyUsed(o) /\ ~MakingOver(o)
    BY DEF KeyUsed, MakingOver, At, Live, Stopped
  <1> QED
    BY <1>1, <1>2 DEF Steady

\* A request that is not a staged file's, nor a replacement, and makes nothing.
LEMMA OtherKinds ==
  ASSUME NEW o \in Ops, op'[o].kind \in {"none", "attach", "detach"}
         \/ (op'[o].kind = "create" /\ op'[o].step \in {"insert", "undo", "erase"})
  PROVE  RequestSound(o)'
  BY DEF RequestSound, Making, Uploaded, At, Live, Changes, Replacing

LEMMA DieKeeps == ASSUME DocumentsInv, NEW o \in Ops, Die(o) PROVE DocumentsInv'
  <1>1. DocumentTypes /\ Finish(o) /\ UNCHANGED <<docs, objects, history, attached, stored, staged, told>>
    BY DEF DocumentsInv, Die
  <1>2. Only(o) /\ Steady(o) /\ op' \in [Ops -> OpSet] /\ RequestSound(o)' /\ RecordStays(o)
    BY <1>1, FinishFacts DEF DocumentTypes, RecordStays
  <1>3. DocumentTypes'
    BY <1>1, <1>2 DEF DocumentTypes
  <1> QED
    BY <1>1, <1>2, <1>3, QuietKeeps

LEMMA ReserveKeeps == ASSUME DocumentsInv, NEW o \in Ops, Reserve(o) PROVE DocumentsInv'
  <1>1. DocumentTypes /\ op[o] = Stopped("new") /\ staged \in Records
        /\ UNCHANGED <<docs, objects, history, attached, stored, told>>
    BY DEF DocumentsInv, DocumentTypes, Reserve, Free
  <1>r. PICK r : r = [kind |-> "staged", step |-> "insert", file |-> staged.file, doc |-> o]
    OBVIOUS
  <1>2. r \in StagedOps /\ r \in OpSet
    BY <1>1, <1>r DEF Records, StagedOps, OpSet
  <1>3. Only(o) /\ Steady(o) /\ op'[o] = r /\ op' \in [Ops -> OpSet]
    BY <1>1, <1>2, <1>r, BeginFacts DEF Reserve
  <1>4. staged' \in Records /\ staged'.token = o /\ staged'.file = staged.file
    BY <1>1 DEF Reserve, Records
  <1>5. DocumentTypes' /\ RecordStays(o)
    BY <1>1, <1>3, <1>4 DEF DocumentTypes, RecordStays
  <1>6. RequestSound(o)'
    BY <1>3, <1>4, <1>r DEF RequestSound, Making, Uploaded, At, Live, Changes, Replacing
  <1> QED
    BY <1>1, <1>3, <1>5, <1>6, QuietKeeps

LEMMA BeginCreateKeeps == ASSUME DocumentsInv, NEW o \in Ops, BeginCreate(o) PROVE DocumentsInv'
  <1>1. DocumentTypes /\ op[o] = Stopped("new")
        /\ UNCHANGED <<docs, objects, history, attached, stored, staged, told>>
    BY DEF DocumentsInv, BeginCreate, Free
  <1>r. PICK r : r = [kind |-> "create", step |-> "insert"]
    OBVIOUS
  <1>2. r \in OpSet
    BY <1>r DEF CreateOps, OpSet
  <1>3. Only(o) /\ Steady(o) /\ op'[o] = r /\ op' \in [Ops -> OpSet]
    BY <1>1, <1>2, <1>r, BeginFacts DEF BeginCreate
  <1>4. DocumentTypes' /\ RecordStays(o) /\ RequestSound(o)'
    BY <1>1, <1>3, <1>r, OtherKinds DEF DocumentTypes, RecordStays
  <1> QED
    BY <1>1, <1>3, <1>4, QuietKeeps

LEMMA ReadForReplaceKeeps ==
  ASSUME DocumentsInv, NEW o \in Ops, NEW d \in Ops, NEW kind \in {"web", "replace"}, ReadForReplace(o, kind, d)
  PROVE  DocumentsInv'
  <1>1. DocumentTypes /\ op[o] = Stopped("new") /\ docs[d] # Null /\ RowSound(d)
        /\ UNCHANGED <<docs, objects, history, attached, stored, staged, told>>
    BY DEF DocumentsInv, ReadForReplace, Free, Present
  <1>2. docs[d].version \in Nat /\ docs[d].version >= 1
    BY <1>1 DEF DocumentTypes, RowSet, RowSound, KeySound
  <1>r. PICK r : r = [kind |-> kind, step |-> "upload", doc |-> d, read |-> docs[d].version]
    OBVIOUS
  <1>3. r \in OpSet
    BY <1>2, <1>r DEF ReplaceOps, OpSet
  <1>4. Only(o) /\ Steady(o) /\ op'[o] = r /\ op' \in [Ops -> OpSet]
    BY <1>1, <1>3, <1>r, BeginFacts DEF ReadForReplace
  <1>5. DocumentTypes' /\ RecordStays(o)
    BY <1>1, <1>4 DEF DocumentTypes, RecordStays
  <1>6. RequestSound(o)'
    BY <1>2, <1>4, <1>r DEF RequestSound, Making, Uploaded, At, Live, Changes, Replacing
  <1> QED
    BY <1>1, <1>4, <1>5, <1>6, QuietKeeps

LEMMA CountFilesKeeps ==
  ASSUME DocumentsInv, NEW o \in Ops, NEW d \in Ops, NEW n \in 1 .. MaxFiles, CountFiles(o, d, n)
  PROVE  DocumentsInv'
  <1>1. DocumentTypes /\ op[o] = Stopped("new")
        /\ UNCHANGED <<docs, objects, history, attached, stored, staged, told>>
    BY DEF DocumentsInv, CountFiles, Free
  <1>r. PICK r : r = [kind |-> "attach", step |-> "insert", doc |-> d, n |-> n, left |-> n]
    OBVIOUS
  <1>2. r \in OpSet
    BY <1>r DEF AttachOps, OpSet
  <1>3. Only(o) /\ Steady(o) /\ op'[o] = r /\ op' \in [Ops -> OpSet]
    BY <1>1, <1>2, <1>r, BeginFacts DEF CountFiles
  <1>4. DocumentTypes' /\ RecordStays(o) /\ RequestSound(o)'
    BY <1>1, <1>3, <1>r, OtherKinds DEF DocumentTypes, RecordStays
  <1> QED
    BY <1>1, <1>3, <1>4, QuietKeeps

LEMMA FindFileKeeps ==
  ASSUME DocumentsInv, NEW o \in Ops, NEW a \in attached, FindFile(o, a) PROVE DocumentsInv'
  <1>1. DocumentTypes /\ op[o] = Stopped("new") /\ a \in Attachments
        /\ UNCHANGED <<docs, objects, history, attached, stored, staged, told>>
    BY DEF DocumentsInv, DocumentTypes, FindFile, Free
  <1>r. PICK r : r = [kind |-> "detach", step |-> "row", att |-> a]
    OBVIOUS
  <1>2. r \in OpSet
    BY <1>1, <1>r DEF DetachOps, OpSet
  <1>3. Only(o) /\ Steady(o) /\ op'[o] = r /\ op' \in [Ops -> OpSet]
    BY <1>1, <1>2, <1>r, BeginFacts DEF FindFile
  <1>4. DocumentTypes' /\ RecordStays(o) /\ RequestSound(o)'
    BY <1>1, <1>3, <1>r, OtherKinds DEF DocumentTypes, RecordStays
  <1> QED
    BY <1>1, <1>3, <1>4, QuietKeeps

LEMMA FilesKeep ==
  ASSUME DocumentsInv, NEW o \in Ops,
         InsertFile(o) \/ UploadFile(o) \/ RollbackFile(o) \/ DetachRow(o) \/ DetachObject(o)
  PROVE  DocumentsInv'
  <1>1. DocumentTypes /\ op[o] \in OpSet /\ UNCHANGED <<docs, objects, history, staged, told>>
        /\ op[o].kind \in {"attach", "detach"}
    BY DEF DocumentsInv, DocumentTypes, InsertFile, UploadFile, RollbackFile, DetachRow, DetachObject, At
  <1>2. /\ op[o].kind = "attach" => op[o] \in AttachOps /\ op[o].left \in 1 .. MaxFiles /\ Attachment(o) \in Attachments
        /\ op[o].kind = "detach" => op[o] \in DetachOps
    <2>1. /\ op[o].kind = "attach" => op[o] \in AttachOps
          /\ op[o].kind = "detach" => op[o] \in DetachOps
      BY <1>1, OpShape
    <2> QED
      BY <2>1 DEF AttachOps, Attachment, Attachments
  <1>3. ASSUME Finish(o) PROVE Only(o) /\ Steady(o) /\ op' \in [Ops -> OpSet] /\ op'[o].kind = "none"
    BY <1>1, <1>3, FinishFacts DEF DocumentTypes
  <1>4. ~KeyUsed(o) /\ ~MakingOver(o)
    BY <1>1 DEF KeyUsed, MakingOver, At, Stopped
  <1>5. /\ Only(o) /\ Steady(o) /\ op' \in [Ops -> OpSet] /\ op'[o].kind \in {"none", "attach", "detach"}
        /\ attached' \subseteq Attachments /\ stored' \subseteq Attachments
    <2>0. attached \subseteq Attachments /\ stored \subseteq Attachments /\ op \in [Ops -> OpSet]
      BY <1>1 DEF DocumentTypes
    <2>1. CASE InsertFile(o)
      <3>1. op[o].kind = "attach"
        BY <2>1 DEF InsertFile, At
      <3>2. Finish(o) \/ GoTo(o, "upload")
        BY <2>1 DEF InsertFile
      <3>3. attached' \in {attached, attached \cup {Attachment(o)}} /\ stored' = stored
        BY <2>1 DEF InsertFile
      <3>4. CASE GoTo(o, "upload")
        BY <1>2, <1>4, <2>0, <3>1, <3>3, <3>4, GoToFacts DEF Steady
      <3> QED
        BY <1>2, <1>3, <2>0, <3>1, <3>2, <3>3, <3>4
    <2>2. CASE UploadFile(o)
      <3>1. op[o].kind = "attach"
        BY <2>2 DEF UploadFile, At
      <3>2. attached' = attached /\ stored' \in {stored, stored \cup {Attachment(o)}}
        BY <2>2 DEF UploadFile
      <3>3. CASE GoTo(o, "rollback")
        BY <1>2, <1>4, <2>0, <3>1, <3>2, <3>3, GoToFacts DEF Steady
      <3>4. CASE ~Last(o) /\ op' = [op EXCEPT ![o].step = "insert", ![o].left = @ - 1]
        <4>l. PICK left : left = op[o].left - 1
          OBVIOUS
        <4>1. left \in 1 .. MaxFiles
          BY <1>2, <3>1, <3>4, <4>l, DocumentsAssumption DEF Last
        <4>r. PICK r : r = [op[o] EXCEPT !.step = "insert", !.left = left]
          OBVIOUS
        <4>2. r \in AttachOps /\ r.kind = "attach"
          BY <1>2, <3>1, <4>1, <4>r DEF AttachOps
        <4>3. op' = [op EXCEPT ![o] = r]
          BY <2>0, <3>4, <4>l, <4>r
        <4>4. op' \in [Ops -> OpSet] /\ op'[o] = r /\ Only(o)
          BY <2>0, <4>2, <4>3 DEF OpSet, Only
        <4> QED
          BY <1>2, <1>4, <2>0, <3>1, <3>2, <4>2, <4>4 DEF Steady
      <3> QED
        BY <1>2, <1>3, <2>0, <2>2, <3>1, <3>2, <3>3, <3>4 DEF UploadFile
    <2>3. CASE RollbackFile(o)
      BY <1>3, <2>0, <2>3 DEF RollbackFile
    <2>4. CASE DetachRow(o)
      <3>1. op[o].kind = "detach" /\ GoTo(o, "object") /\ attached' \subseteq attached /\ stored' = stored
        BY <2>4 DEF DetachRow, At
      <3> QED
        BY <1>2, <1>4, <2>0, <3>1, GoToFacts DEF Steady
    <2>5. CASE DetachObject(o)
      BY <1>3, <2>0, <2>5 DEF DetachObject
    <2> QED
      BY <2>1, <2>2, <2>3, <2>4, <2>5
  <1>6. DocumentTypes' /\ RecordStays(o) /\ RequestSound(o)'
    BY <1>1, <1>5, OtherKinds DEF DocumentTypes, RecordStays
  <1> QED
    BY <1>1, <1>5, <1>6, QuietKeeps

-----------------------------------------------------------------------------
(* Creation.                                                               *)

LEMMA Unsettled ==
  ASSUME NEW o \in Ops,
         \/ op[o].kind \in {"create", "web"}
         \/ op[o].kind = "staged" /\ op[o].step # "answer"
         \/ op[o].kind = "replace" /\ op[o].step # "history"
  PROVE  /\ ~KeyUsed(o) /\ ~MakingOver(o) /\ Steady(o)
         /\ DocumentsInv => o \notin told /\ (docs[o] # Null => ~docs[o].complete)
  <1>1. ~KeyUsed(o) /\ ~MakingOver(o)
    BY DEF KeyUsed, MakingOver, At, Stopped
  <1> QED
    BY <1>1 DEF Steady, DocumentsInv, RowSound

LEMMA PutFacts ==
  ASSUME DocumentTypes, NEW k \in ObjectKeys, NEW b \in Ops, objects' = Put(k, b)
  PROVE  /\ objects' \subseteq [key : ObjectKeys, body : Bodies]
         /\ \A x \in objects : \E y \in objects' : y.key = x.key
         /\ \A x \in objects' : x \in objects \/ (x.key = k /\ x.body = b)
         /\ \A x \in objects' : x.key = k => x.body = b
         /\ Holds(k)'
  <1>x. PICK x : x = [key |-> k, body |-> b]
    OBVIOUS
  <1>1. x \in [key : ObjectKeys, body : Bodies] /\ x.key = k /\ x.body = b
    BY <1>x DEF Bodies
  <1>2. objects' = {y \in objects : y.key # k} \cup {x}
    BY <1>x DEF Put
  <1>3. objects \subseteq [key : ObjectKeys, body : Bodies]
    BY DEF DocumentTypes
  <1> QED
    BY <1>1, <1>2, <1>3 DEF Holds

\* A creation under way is at its own document.
LEMMA CreatingFacts ==
  ASSUME DocumentsInv, NEW o \in Ops, NEW step, Creating(o, step)
  PROVE  /\ op[o] \in StagedOps \cup CreateOps /\ op[o].step = step
         /\ op[o].kind \in {"staged", "create"} /\ KeyOf(o, 1) \in ObjectKeys
  <1>1. op[o] \in OpSet
    BY DEF DocumentsInv, DocumentTypes
  <1> QED
    BY <1>1, OpShape DEF Creating, At, KeyOf, ObjectKeys

\* Between two calls of a creation.
LEMMA CreatingGoes ==
  ASSUME DocumentsInv, NEW o \in Ops, NEW step, Creating(o, step), NEW to, GoTo(o, to),
         to \in {"upload", "rollback", "seed"}
  PROVE  /\ Only(o) /\ op' \in [Ops -> OpSet] /\ op'[o].kind = op[o].kind /\ op'[o].step = to
         /\ op[o].kind = "staged" => op'[o].file = op[o].file /\ op'[o].doc = op[o].doc
  <1>1. op \in [Ops -> OpSet] /\ op[o] \in OpSet /\ op[o].kind \in {"staged", "create"}
    BY DEF DocumentsInv, DocumentTypes, Creating, At
  <1>2. /\ op[o].kind = "staged" => op[o] \in StagedOps
        /\ op[o].kind = "create" => op[o] \in CreateOps
    BY <1>1, OpShape
  <1> QED
    BY <1>1, <1>2, GoToFacts

LEMMA InsertKeeps == ASSUME DocumentsInv, NEW o \in Ops, Insert(o) PROVE DocumentsInv'
  <1>1. /\ DocumentTypes /\ Creating(o, "insert") /\ RequestSound(o)
        /\ UNCHANGED <<objects, history, attached, stored, staged, told>>
    BY DEF DocumentsInv, Insert
  <1>2. op[o].step = "insert" /\ op[o].kind \in {"staged", "create"} /\ op[o] \in StagedOps \cup CreateOps
    BY <1>1, CreatingFacts
  <1>3. Steady(o) /\ ~MakingOver(o) /\ o \notin told /\ (docs[o] # Null => ~docs[o].complete)
    BY <1>2, Unsettled
  <1>f. PICK file : file = IF op[o].kind = "staged" THEN op[o].file ELSE Null
    OBVIOUS
  <1>4. file \in Files \cup {Null}
    BY <1>2, <1>f DEF StagedOps, CreateOps
  <1>5. \/ file # Null /\ GoTo(o, "lookup") /\ UNCHANGED docs
        \/ GoTo(o, "upload") /\ docs' = [docs EXCEPT ![o] = NewRow(o, file)]
    BY <1>f DEF Insert
  <1>6. RecordStays(o) /\ ObjectsStay(o)
    BY <1>1 DEF RecordStays, ObjectsStay
  <1>7. CASE file # Null /\ GoTo(o, "lookup") /\ UNCHANGED docs
    <2>1. op[o].kind = "staged" /\ op[o] \in StagedOps
      BY <1>2, <1>7, <1>f DEF CreateOps
    <2>2. /\ Only(o) /\ op' \in [Ops -> OpSet] /\ op'[o].kind = "staged" /\ op'[o].step = "lookup"
          /\ op'[o].file = op[o].file /\ op'[o].doc = op[o].doc
      BY <1>1, <1>7, <2>1, GoToFacts DEF DocumentTypes
    <2>3. DocumentTypes'
      BY <1>1, <1>7, <2>2 DEF DocumentTypes
    <2>4. RequestSound(o)'
      BY <1>1, <1>2, <2>1, <2>2 DEF RequestSound, Making, Uploaded, At, Live, Changes, Replacing
    <2> QED
      BY <1>1, <1>3, <1>6, <1>7, <2>2, <2>3, <2>4, QuietKeeps
  <1>8. CASE GoTo(o, "upload") /\ docs' = [docs EXCEPT ![o] = NewRow(o, file)]
    <2>r. PICK r : r = NewRow(o, file)
      OBVIOUS
    <2>0. r \in RowSet /\ r.version = 1 /\ r.key = KeyOf(o, 1) /\ r.score = o /\ ~r.complete /\ r.file = file
      BY <1>4, <2>r DEF NewRow, RowSet, KeyOf, ObjectKeys, Bodies
    <2>1. /\ r \in RowSet /\ r # Null /\ r.version = 1 /\ r.key = KeyOf(o, 1) /\ r.score = o
          /\ ~r.complete /\ r.file = file
      BY <2>0, DocumentConstants
    <2>2. docs' \in [Ops -> RowSet \cup {Null}] /\ docs'[o] = r /\ \A d \in Ops : d # o => docs'[d] = docs[d]
      BY <1>1, <1>8, <2>1, <2>r DEF DocumentTypes
    <2>3. /\ Only(o) /\ op' \in [Ops -> OpSet] /\ op'[o].kind = op[o].kind /\ op'[o].step = "upload"
          /\ op[o].kind = "staged" => op'[o].file = op[o].file /\ op'[o].doc = op[o].doc
      BY <1>1, <1>8, CreatingGoes
    <2>4. DocumentTypes'
      BY <1>1, <2>2, <2>3 DEF DocumentTypes
    <2>5. RowsGoOn(o)
      BY <1>3, <2>2 DEF RowsGoOn
    <2>6. RequestSound(o)'
      BY <1>1, <1>2, <1>f, <2>1, <2>2, <2>3 DEF RequestSound, Making, Uploaded, At, Live, Changes, Replacing
    <2>7. RowSound(o)'
      <3>1. KeySound(docs[o].key, o)'
        BY <2>1, <2>2 DEF KeySound, KeyOf
      <3>2. KeyOf(o, 1).version = 1 /\ KeyOf(o, 1).by = Null
        BY DEF KeyOf
      <3> QED
        BY <1>1, <1>3, <2>1, <2>2, <3>1, <3>2 DEF RowSound
    <2>8. \A d \in Ops : RowSound(d)' \/ (docs'[d] = docs[d] /\ ToldGoesOn(d))
      BY <1>1, <2>2, <2>7 DEF ToldGoesOn
    <2>9. \A h \in history' : h \in history
      BY <1>1
    <2>10. \A x \in objects' : x \in objects
      BY <1>1
    <2> QED
      BY <1>3, <1>6, <2>3, <2>4, <2>5, <2>6, <2>8, <2>9, <2>10, DocumentsKeep
  <1> QED
    BY <1>5, <1>7, <1>8

LEMMA LookupKeeps == ASSUME DocumentsInv, NEW o \in Ops, Lookup(o) PROVE DocumentsInv'
  <1>1. DocumentTypes /\ op[o] \in OpSet /\ At(o, "staged", "lookup") /\ RequestSound(o)
        /\ UNCHANGED <<docs, objects, history, attached, stored, staged, told>>
    BY DEF DocumentsInv, DocumentTypes, Lookup
  <1>2. PICK d \in Ops : /\ HasFile(d, op[o].file) /\ docs[d].complete
                         /\ op' = [op EXCEPT ![o].step = "answer", ![o].doc = d]
    BY DEF Lookup, Whole
  <1>3. op[o] \in StagedOps /\ op[o].kind = "staged" /\ op[o].step = "lookup"
    BY <1>1, OpShape DEF At
  <1>r. PICK r : r = [op[o] EXCEPT !.step = "answer", !.doc = d]
    OBVIOUS
  <1>4. r \in StagedOps /\ r.kind = "staged" /\ r.step = "answer" /\ r.doc = d /\ r.file = op[o].file
    BY <1>3, <1>r DEF StagedOps
  <1>5. op' = [op EXCEPT ![o] = r]
    BY <1>1, <1>2, <1>r DEF DocumentTypes
  <1>6. op'[o] = r /\ op' \in [Ops -> OpSet] /\ Only(o)
    BY <1>1, <1>4, <1>5 DEF DocumentTypes, OpSet, Only
  <1>7. Steady(o)
    BY <1>3, Unsettled
  <1>8. DocumentTypes' /\ RecordStays(o)
    BY <1>1, <1>6 DEF DocumentTypes, RecordStays
  <1>9. RequestSound(o)'
    <2>1. HasFile(d, op[o].file)' /\ docs'[d].complete
      BY <1>1, <1>2, <1>3, <1>4, <1>6 DEF HasFile
    <2> QED
      BY <1>1, <1>2, <1>3, <1>4, <1>6, <2>1 DEF RequestSound, Making, Uploaded, At, Live, Changes, Replacing, HasFile
  <1> QED
    BY <1>1, <1>6, <1>7, <1>8, <1>9, QuietKeeps

LEMMA UploadKeeps == ASSUME DocumentsInv, NEW o \in Ops, Upload(o) PROVE DocumentsInv'
  <1>1. /\ DocumentTypes /\ Creating(o, "upload") /\ RequestSound(o)
        /\ UNCHANGED <<docs, history, attached, stored, staged, told>>
    BY DEF DocumentsInv, Upload
  <1>2. /\ op[o].step = "upload" /\ op[o].kind \in {"staged", "create"} /\ op[o] \in StagedOps \cup CreateOps
        /\ KeyOf(o, 1) \in ObjectKeys
    BY <1>1, CreatingFacts
  <1>3. Steady(o)
    BY <1>2, Unsettled
  <1>4. Making(o) /\ docs[o] # Null /\ (op[o].kind = "staged" => docs[o].file = op[o].file)
    BY <1>1 DEF Creating, Making, RequestSound
  <1>5. /\ objects' \subseteq [key : ObjectKeys, body : Bodies]
        /\ \A x \in objects : \E y \in objects' : y.key = x.key
        /\ \A x \in objects' : x \in objects \/ (x.key = KeyOf(o, 1) /\ x.body = o)
        /\ objects' = Put(KeyOf(o, 1), o) => Holds(KeyOf(o, 1))'
    <2>1. CASE objects' = objects
      <3>1. objects' = Put(KeyOf(o, 1), o) => Holds(KeyOf(o, 1))'
        BY <1>1, <1>2, PutFacts
      <3> QED
        BY <1>1, <2>1, <3>1 DEF DocumentTypes
    <2>2. CASE objects' = Put(KeyOf(o, 1), o)
      BY <1>1, <1>2, <2>2, PutFacts
    <2> QED
      BY <2>1, <2>2 DEF Upload
  <1>6. PICK to \in {"seed", "rollback"} : GoTo(o, to) /\ (to = "seed" => Holds(KeyOf(o, 1))')
    BY <1>5 DEF Upload
  <1>7. /\ Only(o) /\ op' \in [Ops -> OpSet] /\ op'[o].kind = op[o].kind /\ op'[o].step = to
        /\ op[o].kind = "staged" => op'[o].file = op[o].file /\ op'[o].doc = op[o].doc
    BY <1>1, <1>6, CreatingGoes
  <1>8. DocumentTypes' /\ RecordStays(o) /\ RowsGoOn(o)
    BY <1>1, <1>5, <1>7 DEF DocumentTypes, RecordStays, RowsGoOn
  <1>9. ObjectsStay(o)
    BY <1>5 DEF ObjectsStay
  <1>10. \A x \in objects' : x \in objects \/ BodySound(x)
    BY <1>5, DocumentConstants DEF BodySound, KeyOf
  <1>11. RequestSound(o)'
    BY <1>1, <1>2, <1>4, <1>6, <1>7 DEF RequestSound, Making, Uploaded, At, Live, Changes, Replacing
  <1>12. \A d \in Ops : docs'[d] = docs[d] /\ ToldGoesOn(d)
    BY <1>1 DEF ToldGoesOn
  <1>13. \A h \in history' : h \in history
    BY <1>1
  <1> QED
    BY <1>3, <1>7, <1>8, <1>9, <1>10, <1>11, <1>12, <1>13, DocumentsKeep

\* The row and everything under it is deleted: no one was told of it.
LEMMA DeleteRowFacts ==
  ASSUME DocumentTypes, NEW o \in Ops, DeleteRow(o), o \notin told, UNCHANGED told,
         docs[o] # Null => ~docs[o].complete
  PROVE  /\ docs' \in [Ops -> RowSet \cup {Null}] /\ history' \subseteq history /\ attached' \subseteq attached
         /\ RowsGoOn(o) /\ RowSound(o)' /\ \A d \in Ops : d # o => docs'[d] = docs[d]
  <1>1. /\ docs' \in [Ops -> RowSet \cup {Null}] /\ docs'[o] = Null /\ \A d \in Ops : d # o => docs'[d] = docs[d]
        /\ history' \subseteq history /\ attached' \subseteq attached
    BY DEF DocumentTypes, DeleteRow
  <1> QED
    BY <1>1 DEF RowsGoOn, RowSound

LEMMA RollbackKeeps == ASSUME DocumentsInv, NEW o \in Ops, Rollback(o) PROVE DocumentsInv'
  <1>1. DocumentTypes /\ Creating(o, "rollback") /\ DeleteRow(o) /\ Finish(o) /\ UNCHANGED <<objects, stored, staged, told>>
    BY DEF DocumentsInv, Rollback
  <1>2. op[o].step = "rollback" /\ op[o].kind \in {"staged", "create"}
    BY <1>1, CreatingFacts
  <1>3. o \notin told /\ (docs[o] # Null => ~docs[o].complete)
    BY <1>2, Unsettled
  <1>4. /\ docs' \in [Ops -> RowSet \cup {Null}] /\ history' \subseteq history /\ attached' \subseteq attached
        /\ RowsGoOn(o) /\ RowSound(o)' /\ \A d \in Ops : d # o => docs'[d] = docs[d]
    BY <1>1, <1>3, DeleteRowFacts
  <1>5. Only(o) /\ Steady(o) /\ op' \in [Ops -> OpSet] /\ RequestSound(o)'
    BY <1>1, FinishFacts DEF DocumentTypes
  <1>6. DocumentTypes' /\ RecordStays(o) /\ ObjectsStay(o)
    BY <1>1, <1>4, <1>5 DEF DocumentTypes, RecordStays, ObjectsStay
  <1>7. \A d \in Ops : RowSound(d)' \/ (docs'[d] = docs[d] /\ ToldGoesOn(d))
    BY <1>1, <1>4 DEF ToldGoesOn
  <1>8. (\A x \in objects' : x \in objects) /\ (\A h \in history' : h \in history)
    BY <1>1, <1>4
  <1> QED
    BY <1>4, <1>5, <1>6, <1>7, <1>8, DocumentsKeep

LEMMA SeedKeeps == ASSUME DocumentsInv, NEW o \in Ops, Seed(o) PROVE DocumentsInv'
  <1>1. /\ DocumentTypes /\ Creating(o, "seed") /\ RequestSound(o)
        /\ UNCHANGED <<docs, objects, attached, stored, staged, told>>
    BY DEF DocumentsInv, Seed
  <1>2. /\ op[o].step = "seed" /\ op[o].kind \in {"staged", "create"} /\ op[o] \in OpSet
        /\ KeyOf(o, 1) \in ObjectKeys
    BY <1>1, CreatingFacts DEF DocumentTypes
  <1>3. Steady(o)
    BY <1>2, Unsettled
  <1>4. Making(o) /\ Uploaded(o) /\ docs[o] # Null /\ Holds(KeyOf(o, 1))
    BY <1>1 DEF Creating, Making, Uploaded, RequestSound
  <1>5. /\ Only(o) /\ op' \in [Ops -> OpSet] /\ op'[o].kind = op[o].kind
        /\ op[o].kind = "staged" => op'[o].step = "complete" /\ op'[o].file = op[o].file /\ op'[o].doc = op[o].doc
        /\ op[o].kind = "create" => op'[o].step = "share"
    <2>1. CASE op[o].kind = "staged"
      BY <1>1, <1>2, <2>1, OpShape, GoToFacts DEF Seed, DocumentTypes
    <2>2. CASE op[o].kind = "create"
      BY <1>1, <1>2, <2>2, OpShape, GoToFacts DEF Seed, DocumentTypes
    <2> QED
      BY <1>2, <2>1, <2>2
  <1>h. PICK h : h = [doc |-> o, version |-> 1, key |-> KeyOf(o, 1)]
    OBVIOUS
  <1>6. h \in [doc : Ops, version : Nat, key : ObjectKeys] /\ h.doc = o /\ h.key = KeyOf(o, 1)
    BY <1>2, <1>h
  <1>7. history' \subseteq history \cup {h}
    BY <1>h DEF Seed, Recorded
  <1>8. DocumentTypes' /\ RecordStays(o) /\ RowsGoOn(o) /\ ObjectsStay(o)
    BY <1>1, <1>5, <1>6, <1>7 DEF DocumentTypes, RecordStays, RowsGoOn, ObjectsStay
  <1>9. RequestSound(o)'
    <2>1. Holds(KeyOf(o, 1))'
      BY <1>1, <1>4 DEF Holds
    <2> QED
      BY <1>1, <1>2, <1>4, <1>5, <2>1 DEF RequestSound, Making, Uploaded, At, Live, Changes, Replacing
  <1>10. KeySound(KeyOf(o, 1), o)'
    BY DEF KeySound, KeyOf
  <1>11. \A x \in history' : x \in history \/ KeySound(x.key, x.doc)'
    BY <1>6, <1>7, <1>10
  <1>12. (\A d \in Ops : docs'[d] = docs[d] /\ ToldGoesOn(d)) /\ \A x \in objects' : x \in objects
    BY <1>1 DEF ToldGoesOn
  <1> QED
    BY <1>3, <1>5, <1>8, <1>9, <1>11, <1>12, DocumentsKeep

LEMMA CompletionKeeps == ASSUME DocumentsInv, NEW o \in Ops, Complete(o) PROVE DocumentsInv'
  <1>1. /\ DocumentTypes /\ At(o, "staged", "complete") /\ RequestSound(o) /\ RowSound(o)
        /\ UNCHANGED <<objects, history, attached, stored, staged, told>>
    BY DEF DocumentsInv, Complete
  <1>2. op[o].step = "complete" /\ op[o].kind = "staged" /\ op[o] \in StagedOps
    BY <1>1, OpShape DEF At, DocumentTypes
  <1>3. Steady(o) /\ o \notin told
    BY <1>2, Unsettled
  <1>4. /\ docs[o] # Null /\ docs[o] \in RowSet /\ docs[o].file = op[o].file /\ op[o].doc = o
        /\ Holds(KeyOf(o, 1))
    BY <1>1, <1>2 DEF Making, Uploaded, RequestSound, DocumentTypes
  <1>5. /\ Only(o) /\ op' \in [Ops -> OpSet] /\ op'[o].kind = "staged" /\ op'[o].step = "answer"
        /\ op'[o].file = op[o].file /\ op'[o].doc = o
    BY <1>1, <1>2, <1>4, GoToFacts DEF Complete, DocumentTypes
  <1>r. PICK r : r = [docs[o] EXCEPT !.complete = TRUE]
    OBVIOUS
  <1>6. /\ r \in RowSet /\ r.version = docs[o].version /\ r.key = docs[o].key /\ r.score = docs[o].score
        /\ r.complete /\ r.file = docs[o].file
    BY <1>4, <1>r DEF RowSet
  <1>7. docs' = [docs EXCEPT ![o] = r]
    BY <1>1, <1>r DEF Complete, DocumentTypes
  <1>8. docs' \in [Ops -> RowSet \cup {Null}] /\ docs'[o] = r /\ \A d \in Ops : d # o => docs'[d] = docs[d]
    BY <1>1, <1>6, <1>7 DEF DocumentTypes
  <1>9. r # Null
    BY <1>6, DocumentConstants
  <1>10. DocumentTypes' /\ RecordStays(o) /\ ObjectsStay(o)
    BY <1>1, <1>5, <1>8 DEF DocumentTypes, RecordStays, ObjectsStay
  <1>11. RowsGoOn(o)
    BY <1>4, <1>6, <1>8, <1>9 DEF RowsGoOn
  <1>12. Holds(KeyOf(o, 1))' /\ MakingOver(o)'
    BY <1>1, <1>4, <1>5 DEF Holds, MakingOver, At, Live
  <1>13. RowSound(o)'
    <2>1. docs[o].key \in ObjectKeys /\ KeySound(docs[o].key, o)
      BY <1>1, <1>4 DEF RowSet, RowSound
    <2>k. PICK k \in ObjectKeys : k = docs[o].key
      BY <2>1
    <2>2. KeySound(k, o)'
      BY <1>3, <1>5, <1>10, <2>1, <2>k, KeySoundKeeps
    <2>3. KeySound(docs[o].key, o)'
      BY <1>6, <1>8, <2>2, <2>k DEF KeySound, KeyOf, Holds, KeyUsed, At, Live
    <2>4. KeyOf(o, 1)' = KeyOf(o, 1)
      OBVIOUS
    <2> QED
      BY <1>1, <1>3, <1>4, <1>6, <1>8, <1>9, <1>12, <2>3 DEF RowSound
  <1>14. RequestSound(o)'
    BY <1>1, <1>2, <1>4, <1>5, <1>6, <1>8, <1>9 DEF RequestSound, Making, Uploaded, At, Live, Changes, Replacing, HasFile
  <1>15. \A d \in Ops : RowSound(d)' \/ (docs'[d] = docs[d] /\ ToldGoesOn(d))
    BY <1>1, <1>8, <1>13 DEF ToldGoesOn
  <1>16. (\A x \in objects' : x \in objects) /\ (\A h \in history' : h \in history)
    BY <1>1
  <1> QED
    BY <1>3, <1>5, <1>10, <1>11, <1>14, <1>15, <1>16, DocumentsKeep

LEMMA AnswerKeeps == ASSUME DocumentsInv, NEW o \in Ops, Answer(o) PROVE DocumentsInv'
  <1>1. /\ DocumentTypes /\ At(o, "staged", "answer") /\ RequestSound(o) /\ Finish(o)
        /\ staged' = Cleared(o) /\ told' = told \cup {op[o].doc}
        /\ UNCHANGED <<docs, objects, history, attached, stored>>
    BY DEF DocumentsInv, Answer
  <1>2. op[o].doc \in Ops
    BY <1>1, OpShape DEF DocumentTypes, At, StagedOps
  <1>m. PICK made \in Ops : made = op[o].doc
    BY <1>2
  <1>3. docs[made] # Null /\ docs[made].complete
    BY <1>1, <1>m DEF RequestSound, HasFile
  <1>4. MakingOver(made) /\ Holds(KeyOf(made, 1))
    <2>1. RowSound(made)
      BY DEF DocumentsInv
    <2> QED
      BY <1>3, <2>1 DEF RowSound
  <1>5. Only(o) /\ Steady(o) /\ op' \in [Ops -> OpSet] /\ RequestSound(o)'
    BY <1>1, FinishFacts DEF DocumentTypes
  <1>6. staged' \in {staged, Null}
    BY <1>1 DEF Cleared
  <1>7. DocumentTypes' /\ RecordStays(o) /\ RowsGoOn(o) /\ ObjectsStay(o)
    BY <1>1, <1>2, <1>5, <1>6 DEF DocumentTypes, RecordStays, RowsGoOn, ObjectsStay
  <1>8. ASSUME NEW d \in Ops PROVE docs'[d] = docs[d] /\ ToldGoesOn(d)
    <2>1. CASE d = made
      <3>1. MakingOver(d)' /\ Holds(KeyOf(d, 1))'
        BY <1>4, <1>5, <1>7, <2>1, MadeKeeps
      <3> QED
        BY <1>1, <1>3, <2>1, <3>1 DEF ToldGoesOn
    <2>2. CASE d # made
      BY <1>1, <1>m, <2>2 DEF ToldGoesOn
    <2> QED
      BY <2>1, <2>2
  <1>9. (\A x \in objects' : x \in objects) /\ (\A h \in history' : h \in history)
    BY <1>1
  <1> QED
    BY <1>5, <1>7, <1>8, <1>9, DocumentsKeep

\* The other caller's three calls after the document is created.
LEMMA CreateGoes ==
  ASSUME DocumentTypes, NEW o \in Ops, op[o].kind = "create", NEW to \in {"undo", "erase"}, GoTo(o, to)
  PROVE  Only(o) /\ op' \in [Ops -> OpSet] /\ RequestSound(o)'
  <1>1. op \in [Ops -> OpSet] /\ op[o] \in CreateOps
    BY OpShape DEF DocumentTypes
  <1>2. Only(o) /\ op' \in [Ops -> OpSet] /\ op'[o].kind = "create" /\ op'[o].step = to
    BY <1>1, GoToFacts
  <1> QED
    BY <1>2, OtherKinds

LEMMA ShareKeeps == ASSUME DocumentsInv, NEW o \in Ops, Share(o) PROVE DocumentsInv'
  <1>1. /\ DocumentTypes /\ At(o, "create", "share") /\ RequestSound(o)
        /\ UNCHANGED <<docs, objects, history, attached, stored, staged>>
    BY DEF DocumentsInv, Share
  <1>2. op[o].kind = "create" /\ Steady(o)
    BY <1>1, Unsettled DEF At
  <1>3. docs[o] # Null /\ Holds(KeyOf(o, 1))
    BY <1>1 DEF RequestSound, Making, Uploaded
  <1>4. CASE Finish(o) /\ told' = told \cup {o}
    <2>1. Only(o) /\ op' \in [Ops -> OpSet] /\ RequestSound(o)' /\ MakingOver(o)'
      BY <1>1, <1>4, FinishFacts DEF DocumentTypes
    <2>2. DocumentTypes' /\ RecordStays(o) /\ RowsGoOn(o) /\ ObjectsStay(o)
      BY <1>1, <1>4, <2>1 DEF DocumentTypes, RecordStays, RowsGoOn, ObjectsStay
    <2>3. Holds(KeyOf(o, 1))'
      BY <1>1, <1>3 DEF Holds
    <2>4. \A d \in Ops : docs'[d] = docs[d] /\ ToldGoesOn(d)
      BY <1>1, <1>3, <1>4, <2>1, <2>3 DEF ToldGoesOn
    <2>5. (\A x \in objects' : x \in objects) /\ (\A h \in history' : h \in history)
      BY <1>1
    <2> QED
      BY <1>2, <2>1, <2>2, <2>4, <2>5, DocumentsKeep
  <1>5. CASE GoTo(o, "undo") /\ UNCHANGED told
    <2>1. Only(o) /\ op' \in [Ops -> OpSet] /\ RequestSound(o)'
      BY <1>1, <1>2, <1>5, CreateGoes
    <2>2. DocumentTypes' /\ RecordStays(o)
      BY <1>1, <1>5, <2>1 DEF DocumentTypes, RecordStays
    <2> QED
      BY <1>1, <1>2, <1>5, <2>1, <2>2, QuietKeeps
  <1> QED
    BY <1>4, <1>5 DEF Share

LEMMA UndoRowKeeps == ASSUME DocumentsInv, NEW o \in Ops, UndoRow(o) PROVE DocumentsInv'
  <1>1. DocumentTypes /\ op[o].kind = "create" /\ GoTo(o, "erase") /\ UNCHANGED <<objects, stored, staged, told>>
    BY DEF DocumentsInv, UndoRow, At
  <1>2. Steady(o) /\ o \notin told /\ (docs[o] # Null => ~docs[o].complete)
    BY <1>1, Unsettled
  <1>3. Only(o) /\ op' \in [Ops -> OpSet] /\ RequestSound(o)'
    BY <1>1, CreateGoes
  <1>4. CASE DeleteRow(o)
    <2>1. /\ docs' \in [Ops -> RowSet \cup {Null}] /\ history' \subseteq history /\ attached' \subseteq attached
          /\ RowsGoOn(o) /\ RowSound(o)' /\ \A d \in Ops : d # o => docs'[d] = docs[d]
      BY <1>1, <1>2, <1>4, DeleteRowFacts
    <2>2. DocumentTypes' /\ RecordStays(o) /\ ObjectsStay(o)
      BY <1>1, <1>3, <2>1 DEF DocumentTypes, RecordStays, ObjectsStay
    <2>3. \A d \in Ops : RowSound(d)' \/ (docs'[d] = docs[d] /\ ToldGoesOn(d))
      BY <1>1, <2>1 DEF ToldGoesOn
    <2>4. (\A x \in objects' : x \in objects) /\ (\A h \in history' : h \in history)
      BY <1>1, <2>1
    <2> QED
      BY <1>2, <1>3, <2>1, <2>2, <2>3, <2>4, DocumentsKeep
  <1>5. CASE UNCHANGED <<docs, history, attached>>
    <2>1. DocumentTypes' /\ RecordStays(o)
      BY <1>1, <1>3, <1>5 DEF DocumentTypes, RecordStays
    <2> QED
      BY <1>1, <1>2, <1>3, <1>5, <2>1, QuietKeeps
  <1> QED
    BY <1>4, <1>5 DEF UndoRow

LEMMA UndoObjectKeeps == ASSUME DocumentsInv, NEW o \in Ops, UndoObject(o) PROVE DocumentsInv'
  <1>1. /\ DocumentTypes /\ At(o, "create", "erase") /\ Finish(o) /\ objects' = Without(KeyOf(o, 1))
        /\ UNCHANGED <<docs, history, attached, stored, staged, told>>
    BY DEF DocumentsInv, UndoObject
  <1>2. Only(o) /\ Steady(o) /\ op' \in [Ops -> OpSet] /\ RequestSound(o)'
    BY <1>1, FinishFacts DEF DocumentTypes
  <1>3. (\A x \in objects' : x \in objects) /\ ObjectsStay(o)
    BY <1>1 DEF Without, ObjectsStay
  <1>4. DocumentTypes' /\ RecordStays(o) /\ RowsGoOn(o)
    BY <1>1, <1>2, <1>3 DEF DocumentTypes, RecordStays, RowsGoOn
  <1>5. (\A d \in Ops : docs'[d] = docs[d] /\ ToldGoesOn(d)) /\ (\A h \in history' : h \in history)
    BY <1>1 DEF ToldGoesOn
  <1> QED
    BY <1>2, <1>3, <1>4, <1>5, DocumentsKeep

-----------------------------------------------------------------------------
(* Replacement.                                                            *)

\* The key of a replacement is of a later version, and the API's is its own.
LEMMA ReplacingFacts ==
  ASSUME DocumentsInv, NEW o \in Ops, NEW step, Replacing(o, step)
  PROVE  /\ op[o] \in ReplaceOps /\ op[o].kind \in {"web", "replace"} /\ op[o].step = step
         /\ op[o].doc \in Ops /\ op[o].read \in Nat /\ op[o].read >= 1
         /\ NewKey(o) \in ObjectKeys /\ NewKey(o).doc = op[o].doc /\ NewKey(o).version = op[o].read + 1
         /\ NewKey(o).by = IF op[o].kind = "web" THEN Null ELSE o
  <1>1. op[o] \in ReplaceOps /\ op[o].kind \in {"web", "replace"} /\ op[o].step = step /\ op[o].read >= 1
    BY OpShape DEF DocumentsInv, DocumentTypes, Replacing, At, RequestSound, Changes
  <1>2. op[o].doc \in Ops /\ op[o].read \in Nat /\ op[o].read + 1 \in Nat
    BY <1>1 DEF ReplaceOps
  <1> QED
    BY <1>1, <1>2 DEF NewKey, ObjectKeys

LEMMA ReplacingGoes ==
  ASSUME DocumentsInv, NEW o \in Ops, NEW step, Replacing(o, step),
         NEW to \in {"update", "tidy", "history"}, GoTo(o, to),
         DocumentTypes', UNCHANGED staged, to \in {"update", "history"} => Holds(NewKey(o))'
  PROVE  /\ Only(o) /\ op' \in [Ops -> OpSet] /\ op'[o].kind = op[o].kind /\ op'[o].step = to
         /\ op'[o].doc = op[o].doc /\ op'[o].read = op[o].read /\ RequestSound(o)'
  <1>1. op[o] \in ReplaceOps /\ op[o].kind \in {"web", "replace"} /\ op[o].read >= 1
    BY ReplacingFacts
  <1>2. /\ Only(o) /\ op' \in [Ops -> OpSet] /\ op'[o].kind = op[o].kind /\ op'[o].step = to
        /\ op'[o].doc = op[o].doc /\ op'[o].read = op[o].read
    BY <1>1, GoToFacts DEF DocumentsInv, DocumentTypes
  <1> QED
    BY <1>1, <1>2 DEF RequestSound, Making, Uploaded, At, Live, Changes, Replacing

LEMMA UploadNewKeeps == ASSUME DocumentsInv, NEW o \in Ops, UploadNew(o) PROVE DocumentsInv'
  <1>1. /\ DocumentTypes /\ Replacing(o, "upload") /\ objects' = Put(NewKey(o), o)
        /\ GoTo(o, "update") \/ Finish(o)
        /\ UNCHANGED <<docs, history, attached, stored, staged, told>>
    BY DEF DocumentsInv, UploadNew
  <1>2. /\ op[o] \in ReplaceOps /\ op[o].kind \in {"web", "replace"} /\ op[o].step = "upload"
        /\ op[o].read \in Nat /\ op[o].read >= 1
        /\ NewKey(o) \in ObjectKeys /\ NewKey(o).version = op[o].read + 1
        /\ NewKey(o).by = IF op[o].kind = "web" THEN Null ELSE o
    BY <1>1, ReplacingFacts
  <1>k. PICK k \in ObjectKeys : k = NewKey(o)
    BY <1>2
  <1>3. /\ objects' \subseteq [key : ObjectKeys, body : Bodies]
        /\ \A x \in objects : \E y \in objects' : y.key = x.key
        /\ \A x \in objects' : x \in objects \/ (x.key = k /\ x.body = o)
        /\ Holds(k)'
    BY <1>1, <1>k, PutFacts
  <1>4. Steady(o)
    BY <1>2, Unsettled
  <1>5. op' \in [Ops -> OpSet] /\ Only(o)
    BY <1>1, <1>2, GoToFacts, FinishFacts DEF DocumentTypes
  <1>6. DocumentTypes' /\ RecordStays(o) /\ RowsGoOn(o)
    BY <1>1, <1>3, <1>5 DEF DocumentTypes, RecordStays, RowsGoOn
  <1>7. ObjectsStay(o)
    BY <1>3 DEF ObjectsStay
  <1>8. RequestSound(o)'
    <2>1. CASE GoTo(o, "update")
      <3>1. op'[o].kind = op[o].kind /\ op'[o].doc = op[o].doc /\ op'[o].read = op[o].read
            /\ op'[o].step = "update"
        BY <1>1, <1>2, <2>1, GoToFacts DEF DocumentTypes
      <3>2. NewKey(o)' = k
        BY <1>k, <3>1 DEF NewKey
      <3>3. \E x \in objects' : x.key = NewKey(o)'
        BY <1>3, <3>2 DEF Holds
      <3> QED
        BY <1>2, <3>1, <3>3 DEF RequestSound, Making, Uploaded, At, Live, Changes, Replacing, Holds
    <2>2. CASE Finish(o)
      BY <1>1, <2>2, FinishFacts DEF DocumentTypes
    <2> QED
      BY <1>1, <2>1, <2>2
  <1>9. \A x \in objects' : x \in objects \/ BodySound(x)
    BY <1>2, <1>3, <1>k DEF BodySound
  <1>10. (\A d \in Ops : docs'[d] = docs[d] /\ ToldGoesOn(d)) /\ (\A h \in history' : h \in history)
    BY <1>1 DEF ToldGoesOn
  <1> QED
    BY <1>4, <1>5, <1>6, <1>7, <1>8, <1>9, <1>10, DocumentsKeep

\* A row that takes the key of a replacement.
LEMMA ReplacedFacts ==
  ASSUME DocumentsInv, NEW o \in Ops, Replacing(o, "update"), docs[op[o].doc] # Null, Replaced(o),
         GoTo(o, "history"), UNCHANGED <<objects, history, attached, stored, staged, told>>
  PROVE  DocumentsInv'
  <1>1. /\ op[o] \in ReplaceOps /\ op[o].kind \in {"web", "replace"} /\ op[o].step = "update"
        /\ op[o].doc \in Ops /\ op[o].read \in Nat /\ op[o].read >= 1
        /\ NewKey(o) \in ObjectKeys /\ NewKey(o).doc = op[o].doc /\ NewKey(o).version = op[o].read + 1
        /\ NewKey(o).by = IF op[o].kind = "web" THEN Null ELSE o
    BY ReplacingFacts
  <1>k. PICK k \in ObjectKeys : k = NewKey(o)
    BY <1>1
  <1>d. PICK d \in Ops : d = op[o].doc
    BY <1>1
  <1>2. DocumentTypes /\ docs[d] \in RowSet /\ docs[d] # Null /\ RowSound(d)
    BY <1>d DEF DocumentsInv, DocumentTypes
  <1>v. PICK version : version = op[o].read + 1
    OBVIOUS
  <1>r. PICK r : r = [docs[d] EXCEPT !.version = version, !.key = k, !.score = o]
    OBVIOUS
  <1>3. version \in Nat /\ version >= 2 /\ k.version = version
    BY <1>1, <1>v, <1>k
  <1>4. /\ r \in RowSet /\ r.version = version /\ r.key = k /\ r.score = o
        /\ r.complete = docs[d].complete /\ r.file = docs[d].file
    BY <1>2, <1>3, <1>r DEF RowSet, Bodies
  <1>5. docs' = [docs EXCEPT ![d] = r]
    BY <1>2, <1>k, <1>d, <1>v, <1>r DEF Replaced, DocumentTypes
  <1>6. r # Null /\ docs' \in [Ops -> RowSet \cup {Null}] /\ docs'[d] = r /\ \A e \in Ops : e # d => docs'[e] = docs[e]
    BY <1>2, <1>4, <1>5, DocumentConstants DEF DocumentTypes
  <1>7. Only(o) /\ op' \in [Ops -> OpSet] /\ op'[o].kind = op[o].kind /\ op'[o].step = "history"
        /\ op'[o].doc = op[o].doc /\ op'[o].read = op[o].read
    BY <1>1, <1>2, GoToFacts DEF DocumentTypes
  <1>8. DocumentTypes'
    BY <1>2, <1>6, <1>7 DEF DocumentTypes
  <1>9. Steady(o) /\ RecordStays(o) /\ ObjectsStay(o)
    BY <1>1, Unsettled DEF RecordStays, ObjectsStay
  <1>10. RowsGoOn(o)
    BY <1>2, <1>4, <1>6 DEF RowsGoOn
  <1>11. Holds(k)'
    BY <1>k DEF DocumentsInv, RequestSound, Holds
  <1>12. RequestSound(o)'
    <2>1. NewKey(o)' = k
      BY <1>7, <1>k DEF NewKey
    <2>2. \E x \in objects' : x.key = NewKey(o)'
      BY <1>11, <2>1 DEF Holds
    <2> QED
      BY <1>1, <1>7, <2>2 DEF RequestSound, Making, Uploaded, At, Live, Changes, Replacing, Holds
  <1>13. RowSound(d)'
    <2>1. k.by # Null => k.by = o /\ op[o].kind = "replace" /\ KeyUsed(o)'
      BY <1>1, <1>7, <1>k DEF KeyUsed, At, Live
    <2>2. KeySound(k, d)'
      BY <1>1, <1>3, <1>11, <1>k, <1>d, <2>1 DEF KeySound
    <2>3. KeySound(docs[d].key, d)'
      BY <1>4, <1>6, <2>2 DEF KeySound, KeyOf, Holds, KeyUsed, At, Live
    <2>4. MakingOver(d) /\ Holds(KeyOf(d, 1)) => MakingOver(d)' /\ Holds(KeyOf(d, 1))'
      BY <1>7, <1>9, MadeKeeps
    <2>5. docs'[d].complete => MakingOver(d)' /\ Holds(KeyOf(d, 1))'
      BY <1>2, <1>4, <1>6, <2>4 DEF RowSound
    <2>6. d \in told' => docs'[d] # Null /\ MakingOver(d)' /\ Holds(KeyOf(d, 1))'
      BY <1>2, <1>6, <2>4 DEF RowSound
    <2>7. docs'[d].version = 1 => docs'[d].score = d
      BY <1>3, <1>4, <1>6
    <2>8. docs'[d].key.by # Null => docs'[d].score = docs'[d].key.by
      BY <1>4, <1>6, <2>1
    <2>9. docs'[d].key.version = docs'[d].version
      BY <1>3, <1>4, <1>6
    <2> QED
      BY <2>3, <2>5, <2>6, <2>7, <2>8, <2>9 DEF RowSound
  <1>14. \A e \in Ops : RowSound(e)' \/ (docs'[e] = docs[e] /\ ToldGoesOn(e))
    BY <1>6, <1>13 DEF ToldGoesOn
  <1>15. (\A x \in objects' : x \in objects) /\ (\A h \in history' : h \in history)
    OBVIOUS
  <1> QED
    BY <1>7, <1>8, <1>9, <1>10, <1>12, <1>14, <1>15, DocumentsKeep

\* A replacement that finds nothing to write to.
LEMMA UnreplacedKeeps ==
  ASSUME DocumentsInv, NEW o \in Ops, Replacing(o, "update"), NEW to \in {"tidy", "history"}, GoTo(o, to),
         UNCHANGED <<docs, objects, history, attached, stored, staged, told>>
  PROVE  DocumentsInv'
  <1>1. op[o] \in ReplaceOps /\ op[o].kind \in {"web", "replace"} /\ op[o].step = "update"
        /\ DocumentTypes
    BY ReplacingFacts DEF DocumentsInv
  <1>2. Steady(o) /\ RecordStays(o)
    BY <1>1, Unsettled DEF RecordStays
  <1>3. op' \in [Ops -> OpSet] /\ Only(o)
    BY <1>1, GoToFacts DEF DocumentTypes
  <1>4. DocumentTypes'
    BY <1>1, <1>3 DEF DocumentTypes
  <1>5. Holds(NewKey(o))'
    <2>1. op'[o].kind = op[o].kind /\ op'[o].doc = op[o].doc /\ op'[o].read = op[o].read
      BY <1>1, GoToFacts DEF DocumentTypes
    <2>2. Holds(NewKey(o))
      BY DEF DocumentsInv, RequestSound
    <2> QED
      BY <2>1, <2>2 DEF Holds, NewKey
  <1>6. RequestSound(o)'
    BY <1>4, <1>5, ReplacingGoes
  <1> QED
    BY <1>2, <1>3, <1>4, <1>6, QuietKeeps

LEMMA UpdateRowKeeps == ASSUME DocumentsInv, NEW o \in Ops, UpdateRow(o) \/ Swap(o) PROVE DocumentsInv'
  <1>1. CASE UpdateRow(o)
    <2>1. Replacing(o, "update") /\ GoTo(o, "history") /\ UNCHANGED <<objects, history, attached, stored, staged, told>>
          /\ IF docs[op[o].doc] # Null THEN Replaced(o) ELSE UNCHANGED docs
      BY <1>1 DEF UpdateRow, Replacing
    <2> QED
      BY <2>1, ReplacedFacts, UnreplacedKeeps
  <1>2. CASE Swap(o)
    <2>1. Replacing(o, "update") /\ UNCHANGED <<objects, history, attached, stored, staged, told>>
      BY <1>2 DEF Swap, Replacing
    <2>2. CASE UnchangedSince(o)
      <3>1. docs[op[o].doc] # Null /\ Replaced(o) /\ GoTo(o, "history")
        BY <1>2, <2>2 DEF Swap, UnchangedSince, Present
      <3> QED
        BY <2>1, <3>1, ReplacedFacts
    <2>3. CASE ~UnchangedSince(o)
      <3>1. UNCHANGED docs /\ GoTo(o, "tidy")
        BY <1>2, <2>3 DEF Swap
      <3> QED
        BY <2>1, <3>1, UnreplacedKeeps
    <2> QED
      BY <2>2, <2>3
  <1> QED
    BY <1>1, <1>2

LEMMA TidyKeeps == ASSUME DocumentsInv, NEW o \in Ops, Tidy(o) PROVE DocumentsInv'
  <1>1. /\ DocumentTypes /\ At(o, "replace", "tidy") /\ Replacing(o, "tidy") /\ Finish(o)
        /\ objects' = Without(NewKey(o)) /\ UNCHANGED <<docs, history, attached, stored, staged, told>>
    BY DEF DocumentsInv, Tidy, Replacing
  <1>2. NewKey(o).by = o
    BY <1>1, ReplacingFacts DEF At
  <1>3. Only(o) /\ Steady(o) /\ op' \in [Ops -> OpSet] /\ RequestSound(o)'
    BY <1>1, FinishFacts DEF DocumentTypes
  <1>4. (\A x \in objects' : x \in objects) /\ ObjectsStay(o)
    BY <1>1, <1>2 DEF Without, ObjectsStay
  <1>5. DocumentTypes' /\ RecordStays(o) /\ RowsGoOn(o)
    BY <1>1, <1>3, <1>4 DEF DocumentTypes, RecordStays, RowsGoOn
  <1>6. (\A d \in Ops : docs'[d] = docs[d] /\ ToldGoesOn(d)) /\ (\A h \in history' : h \in history)
    BY <1>1 DEF ToldGoesOn
  <1> QED
    BY <1>3, <1>4, <1>5, <1>6, DocumentsKeep

LEMMA AppendHistoryKeeps == ASSUME DocumentsInv, NEW o \in Ops, AppendHistory(o) PROVE DocumentsInv'
  <1>1. /\ DocumentTypes /\ Replacing(o, "history") /\ Finish(o) /\ RequestSound(o)
        /\ history' = Recorded(op[o].doc, op[o].read + 1, NewKey(o))
        /\ UNCHANGED <<docs, objects, attached, stored, staged, told>>
    BY DEF DocumentsInv, AppendHistory
  <1>2. /\ op[o].kind \in {"web", "replace"} /\ op[o].doc \in Ops /\ op[o].read \in Nat /\ op[o].read >= 1
        /\ NewKey(o) \in ObjectKeys /\ NewKey(o).doc = op[o].doc /\ NewKey(o).version = op[o].read + 1
        /\ NewKey(o).by = IF op[o].kind = "web" THEN Null ELSE o
    BY <1>1, ReplacingFacts
  <1>k. PICK k \in ObjectKeys : k = NewKey(o)
    BY <1>2
  <1>h. PICK h : h = [doc |-> op[o].doc, version |-> op[o].read + 1, key |-> k]
    OBVIOUS
  <1>3. h \in [doc : Ops, version : Nat, key : ObjectKeys] /\ h.doc = op[o].doc /\ h.key = k
    BY <1>2, <1>h
  <1>4. history' \subseteq history \cup {h}
    BY <1>1, <1>h, <1>k DEF Recorded
  <1>5. Only(o) /\ Steady(o) /\ op' \in [Ops -> OpSet] /\ RequestSound(o)' /\ KeyUsed(o)'
    BY <1>1, FinishFacts DEF DocumentTypes
  <1>6. DocumentTypes' /\ RecordStays(o) /\ RowsGoOn(o) /\ ObjectsStay(o)
    BY <1>1, <1>3, <1>4, <1>5 DEF DocumentTypes, RecordStays, RowsGoOn, ObjectsStay
  <1>d. PICK d \in Ops : d = op[o].doc
    BY <1>2
  <1>7. KeySound(k, d)'
    <2>1. Holds(k)'
      BY <1>1, <1>k DEF RequestSound, Holds
    <2>2. k.by # Null => KeyUsed(k.by)'
      BY <1>2, <1>5, <1>k
    <2> QED
      BY <1>2, <1>d, <1>k, <2>1, <2>2 DEF KeySound
  <1>8. \A x \in history' : x \in history \/ KeySound(x.key, x.doc)'
    BY <1>3, <1>4, <1>7, <1>d
  <1>9. (\A e \in Ops : docs'[e] = docs[e] /\ ToldGoesOn(e)) /\ \A x \in objects' : x \in objects
    BY <1>1 DEF ToldGoesOn
  <1> QED
    BY <1>5, <1>6, <1>8, <1>9, DocumentsKeep

-----------------------------------------------------------------------------
(* The owner's own steps, and all of them together.                        *)

\* The record in the browser, or the mark of a deleted document.
LEMMA OwnerKeeps ==
  ASSUME DocumentsInv, DocumentTypes', UNCHANGED <<op, objects, history, told>>,
         staged' = staged \/ staged' = Null \/ staged'.token \notin Ops,
         \A d \in Ops : \/ docs'[d] = docs[d]
                        \/ /\ docs[d] # Null /\ docs'[d] # Null
                           /\ docs'[d].version = docs[d].version /\ docs'[d].key = docs[d].key
                           /\ docs'[d].score = docs[d].score /\ docs'[d].complete = docs[d].complete
                           /\ docs'[d].file = docs[d].file
  PROVE  DocumentsInv'
  <1>1. ASSUME NEW k, NEW d PROVE KeySound(k, d)' <=> KeySound(k, d)
    BY DEF KeySound, Holds, KeyUsed, At, Live
  <1>2. ASSUME NEW d \in Ops PROVE RowSound(d)'
    <2>1. RowSound(d)
      BY DEF DocumentsInv
    <2>2. /\ docs'[d] # Null <=> docs[d] # Null
          /\ docs[d] # Null => /\ docs'[d].version = docs[d].version /\ docs'[d].key = docs[d].key
                               /\ docs'[d].score = docs[d].score /\ docs'[d].complete = docs[d].complete
      OBVIOUS
    <2>3. ASSUME docs[d] # Null PROVE KeySound(docs[d].key, d)'
      <3>k. PICK k : k = docs[d].key
        OBVIOUS
      <3>1. KeySound(k, d)'
        BY <1>1, <2>1, <2>3, <3>k DEF RowSound
      <3>2. docs[d].key' = k
        BY <2>2, <2>3, <3>k
      <3> QED
        BY <3>1, <3>2 DEF KeySound, KeyOf, Holds, KeyUsed, At, Live
    <2>4. (MakingOver(d)' <=> MakingOver(d)) /\ (Holds(KeyOf(d, 1))' <=> Holds(KeyOf(d, 1)))
      BY DEF MakingOver, At, Live, Holds
    <2> QED
      BY <2>1, <2>2, <2>3, <2>4 DEF RowSound
  <1>3. ASSUME NEW o \in Ops PROVE RequestSound(o)'
    <2>1. RequestSound(o) /\ op[o] \in OpSet
      BY DEF DocumentsInv, DocumentTypes
    <2>2. \A d \in Ops : docs[d] # Null => docs'[d] # Null /\ docs'[d].file = docs[d].file /\ docs'[d].complete = docs[d].complete
      OBVIOUS
    <2>3. op[o].kind = "staged" => op[o].doc \in Ops
      BY <2>1, OpShape DEF StagedOps
    <2>4. At(o, "staged", "answer") => HasFile(op[o].doc, op[o].file)' /\ docs'[op[o].doc].complete
      BY <2>1, <2>2, <2>3 DEF RequestSound, HasFile, At
    <2>5. /\ Making(o) => docs'[o] # Null
          /\ Making(o) /\ op[o].kind = "staged" => docs'[o].file = op[o].file
      BY <2>1, <2>2 DEF RequestSound
    <2>6. staged' # Null /\ op[o].kind = "staged" => (staged'.token = o => op[o].file = staged'.file)
      BY <2>1 DEF RequestSound
    <2>7. /\ Making(o)' <=> Making(o)
          /\ Uploaded(o)' <=> Uploaded(o)
          /\ At(o, "staged", "answer")' <=> At(o, "staged", "answer")
          /\ (Replacing(o, "update") \/ Replacing(o, "history"))' <=> (Replacing(o, "update") \/ Replacing(o, "history"))
      BY DEF Making, Uploaded, At, Live, Replacing
    <2>8. /\ Uploaded(o) => Holds(KeyOf(o, 1))'
          /\ Replacing(o, "update") \/ Replacing(o, "history") => Holds(NewKey(o))'
      BY <2>1 DEF RequestSound, Holds, NewKey
    <2>9. Changes(o)' => op'[o].read >= 1
      BY <2>1 DEF RequestSound, Changes
    <2> QED
      BY <2>1, <2>4, <2>5, <2>6, <2>7, <2>8, <2>9 DEF RequestSound
  <1>4. (\A h \in history' : KeySound(h.key, h.doc)') /\ \A x \in objects' : BodySound(x)'
    BY <1>1 DEF DocumentsInv, BodySound
  <1> QED
    BY <1>2, <1>3, <1>4 DEF DocumentsInv

LEMMA StageKeeps ==
  ASSUME DocumentsInv, Forget \/ \E file \in Files : Stage(file) PROVE DocumentsInv'
  <1>1. DocumentTypes /\ UNCHANGED <<op, docs, objects, history, attached, stored, told>>
    BY DEF DocumentsInv, Forget, Stage
  <1>2. staged' = Null \/ (staged' \in Records /\ staged'.token \notin Ops)
    <2>1. CASE Forget
      BY <2>1 DEF Forget
    <2>2. CASE \E file \in Files : Stage(file)
      BY <2>2, DocumentConstants DEF Stage, Records
    <2> QED
      BY <2>1, <2>2
  <1>3. DocumentTypes'
    BY <1>1, <1>2 DEF DocumentTypes
  <1> QED
    BY <1>1, <1>2, <1>3, OwnerKeeps

LEMMA DeleteDocumentKeeps == ASSUME DocumentsInv, NEW d \in Ops, DeleteDocument(d) PROVE DocumentsInv'
  <1>1. DocumentTypes /\ docs[d] # Null /\ docs' = [docs EXCEPT ![d].deleted = TRUE]
        /\ UNCHANGED <<op, objects, history, attached, stored, staged, told>>
    BY DEF DocumentsInv, DeleteDocument, Present
  <1>r. PICK r : r = [docs[d] EXCEPT !.deleted = TRUE]
    OBVIOUS
  <1>2. docs[d] \in RowSet /\ docs' = [docs EXCEPT ![d] = r]
    BY <1>1, <1>r DEF DocumentTypes
  <1>3. /\ r \in RowSet /\ r.version = docs[d].version /\ r.key = docs[d].key /\ r.score = docs[d].score
        /\ r.complete = docs[d].complete /\ r.file = docs[d].file
    BY <1>2, <1>r DEF RowSet
  <1>4. r # Null /\ docs' \in [Ops -> RowSet \cup {Null}] /\ docs'[d] = r /\ \A e \in Ops : e # d => docs'[e] = docs[e]
    BY <1>1, <1>2, <1>3, DocumentConstants DEF DocumentTypes
  <1>5. DocumentTypes'
    BY <1>1, <1>4 DEF DocumentTypes
  <1> QED
    BY <1>1, <1>3, <1>4, <1>5, OwnerKeeps

LEMMA DocumentsStart == DocumentsInit => DocumentsInv
  <1> SUFFICES ASSUME DocumentsInit PROVE DocumentsInv
    OBVIOUS
  <1>1. DocumentTypes
    BY DEF DocumentsInit, DocumentTypes, OpSet
  <1>2. \A o \in Ops : op[o].kind = "none" /\ docs[o] = Null /\ o \notin told
    BY DEF DocumentsInit, Stopped
  <1>3. \A o \in Ops : RequestSound(o) /\ RowSound(o)
    BY <1>2 DEF RequestSound, RowSound, Making, Uploaded, At, Live, Changes, Replacing
  <1>4. objects = {} /\ history = {}
    BY DEF DocumentsInit
  <1> QED
    BY <1>1, <1>3, <1>4 DEF DocumentsInv

LEMMA DocumentsStep == DocumentsInv /\ [DocumentsNext]_documentsVars => DocumentsInv'
  <1> SUFFICES ASSUME DocumentsInv, [DocumentsNext]_documentsVars PROVE DocumentsInv'
    OBVIOUS
  <1>1. CASE Forget \/ \E file \in Files : Stage(file)
    BY <1>1, StageKeeps
  <1>2. CASE \E d \in Ops : DeleteDocument(d)
    BY <1>2, DeleteDocumentKeeps
  <1>3. ASSUME NEW o \in Ops,
               \/ Die(o) \/ Reserve(o) \/ Insert(o) \/ Lookup(o) \/ Upload(o) \/ Rollback(o) \/ Seed(o)
               \/ Complete(o) \/ Answer(o) \/ BeginCreate(o) \/ Share(o) \/ UndoRow(o) \/ UndoObject(o)
        PROVE  DocumentsInv'
    BY <1>3, DieKeeps, ReserveKeeps, InsertKeeps, LookupKeeps, UploadKeeps, RollbackKeeps, SeedKeeps,
       CompletionKeeps, AnswerKeeps, BeginCreateKeeps, ShareKeeps, UndoRowKeeps, UndoObjectKeeps
  <1>4. ASSUME NEW o \in Ops,
               \/ UploadNew(o) \/ UpdateRow(o) \/ Swap(o) \/ Tidy(o) \/ AppendHistory(o)
               \/ InsertFile(o) \/ UploadFile(o) \/ RollbackFile(o) \/ DetachRow(o) \/ DetachObject(o)
        PROVE  DocumentsInv'
    BY <1>4, UploadNewKeeps, UpdateRowKeeps, TidyKeeps, AppendHistoryKeeps, FilesKeep
  <1>5. ASSUME NEW o \in Ops,
               \/ \E d \in Ops : \/ \E kind \in {"web", "replace"} : ReadForReplace(o, kind, d)
                                 \/ \E n \in 1 .. MaxFiles : CountFiles(o, d, n)
               \/ \E a \in attached : FindFile(o, a)
        PROVE  DocumentsInv'
    BY <1>5, ReadForReplaceKeeps, CountFilesKeeps, FindFileKeeps
  <1>6. CASE UNCHANGED documentsVars
    <2>1. UNCHANGED <<op, docs, objects, history, attached, stored, staged, told>>
      BY <1>6 DEF documentsVars
    <2>2. DocumentTypes'
      BY <2>1 DEF DocumentsInv, DocumentTypes
    <2> QED
      BY <2>1, <2>2, OwnerKeeps
  <1> QED
    BY <1>1, <1>2, <1>3, <1>4, <1>5, <1>6 DEF DocumentsNext

LEMMA DocumentsInductive == DocumentsSpec => []DocumentsInv
  BY DocumentsStart, DocumentsStep, PTL DEF DocumentsSpec

-----------------------------------------------------------------------------
(* Whose score is kept: no two dashboard replacements from one version.    *)

\* Nothing but a replacement from the dashboard writes a key that others may
\* write too.
LEMMA ServedKeeps ==
  ASSUME DocumentsInv, DocumentsInv', ServedInv, NEW o \in Ops, Only(o), op[o].kind # "web", op'[o].kind # "web",
         raced' = raced,
         \A d \in Ops : docs'[d] # Null =>
             \/ docs[d] # Null /\ docs'[d].key = docs[d].key /\ docs'[d].version = docs[d].version
                /\ docs'[d].score = docs[d].score
             \/ docs'[d].version = 1
             \/ docs'[d].key.by # Null,
         \A x \in objects' : x \in objects \/ x.key.version = 1 \/ x.key.by # Null
  PROVE  ServedInv'
  <1>1. ScoreIsServed'
    <2>1. SUFFICES ASSUME NEW d \in Ops \ raced, NEW x \in objects', docs'[d] # Null, x.key = docs'[d].key
                   PROVE  x.body = docs'[d].score
      BY DEF ScoreIsServed, Described
    <2>2. RowSound(d)' /\ BodySound(x)' /\ docs'[d] \in RowSet
      BY <2>1 DEF DocumentsInv, DocumentTypes
    <2>3. BodySound(x)
      BY <2>2 DEF BodySound
    <2>4. /\ docs'[d].key.by # Null => docs'[d].score = docs'[d].key.by
          /\ docs'[d].version = 1 => docs'[d].score = d
          /\ docs'[d].key.version = docs'[d].version /\ docs'[d].key.doc = d
      BY <2>1, <2>2 DEF RowSound, KeySound
    <2>5. CASE docs'[d].key.by # Null
      BY <2>1, <2>3, <2>4, <2>5 DEF BodySound
    <2>6. CASE docs'[d].key.by = Null /\ docs'[d].version = 1
      BY <2>1, <2>3, <2>4, <2>6 DEF BodySound
    <2>7. CASE docs'[d].key.by = Null /\ docs'[d].version # 1
      <3>1. docs[d] # Null /\ docs'[d].key = docs[d].key /\ docs'[d].score = docs[d].score
        BY <2>1, <2>7
      <3>2. x \in objects
        BY <2>1, <2>4, <2>7
      <3> QED
        BY <2>1, <3>1, <3>2 DEF ServedInv, ScoreIsServed, Described
    <2> QED
      BY <2>5, <2>6, <2>7
  <1>2. ASSUME NEW p \in Ops PROVE WebSound(p)'
    <2>1. WebSound(p) /\ \A q \in Ops : (IsWeb(q)' <=> IsWeb(q)) /\ (IsWeb(q) => op'[q] = op[q])
      BY DEF ServedInv, IsWeb, Only
    <2>2. CASE IsWeb(p)
      <3>1. op'[p] = op[p] /\ op[p] \in OpSet /\ RequestSound(p)
        BY <2>1, <2>2 DEF DocumentsInv, DocumentTypes
      <3>2. op[p] \in ReplaceOps /\ op[p].read >= 1 /\ op[p].kind = "web"
        BY <2>2, <3>1, OpShape DEF IsWeb, RequestSound, Changes
      <3>k. PICK k : k = NewKey(p)
        OBVIOUS
      <3>3. NewKey(p)' = k /\ k.by = Null /\ k.version # 1 /\ op[p].doc \in Ops
        BY <3>1, <3>2, <3>k DEF NewKey, ReplaceOps
      <3>4. Ahead(p) => Ahead(p)'
        <4>1. SUFFICES ASSUME Ahead(p), docs'[op[p].doc] # Null PROVE docs'[op[p].doc].key # k
          BY <3>1, <3>3 DEF Ahead
        <4>2. docs'[op[p].doc].key.version = docs'[op[p].doc].version
          BY <3>3, <4>1 DEF DocumentsInv, RowSound
        <4> QED
          BY <3>3, <3>k, <4>1, <4>2 DEF Ahead
      <3>5. Written(p) => Written(p)'
        BY <3>3, <3>k DEF Written
      <3>6. Apart(p)'
        <4>1. SUFFICES ASSUME NEW q \in Ops, IsWeb(q), OneKey(p, q)' PROVE p = q \/ op[p].doc \in raced
          BY <2>1, <3>1 DEF Apart
        <4>2. OneKey(p, q) /\ Apart(p)
          BY <2>1, <3>1, <4>1 DEF OneKey, WebSound
        <4> QED
          BY <2>2, <4>1, <4>2 DEF Apart
      <3> QED
        BY <2>1, <3>1, <3>4, <3>5, <3>6 DEF WebSound, At, Live
    <2>3. CASE ~IsWeb(p)
      <3>1. ~(At(p, "web", "upload") \/ At(p, "web", "update"))' /\ Apart(p)'
        BY <2>1, <2>3 DEF IsWeb, At, Apart
      <3> QED
        BY <3>1 DEF WebSound
    <2> QED
      BY <2>2, <2>3
  <1> QED
    BY <1>1, <1>2 DEF ServedInv

LEMMA KindStays ==
  ASSUME op \in [Ops -> OpSet], NEW o \in Ops, NEW step, GoTo(o, step)
  PROVE  Only(o) /\ op'[o].kind = op[o].kind
  <1>r. PICK r : r = [op[o] EXCEPT !.step = step]
    OBVIOUS
  <1>1. op' = [op EXCEPT ![o] = r]
    BY <1>r DEF GoTo
  <1>2. Only(o) /\ op'[o] = r
    BY <1>1 DEF Only
  <1>3. op[o] \in StagedOps \cup CreateOps \cup ReplaceOps => r.kind = op[o].kind
    BY <1>r DEF StagedOps, CreateOps, ReplaceOps
  <1>4. op[o] \in AttachOps \cup DetachOps => r.kind = op[o].kind
    BY <1>r DEF AttachOps, DetachOps
  <1>5. op[o] \in {Stopped("new"), Stopped("done")} => r.kind = op[o].kind
    BY <1>r DEF Stopped
  <1>6. op[o] \in {Stopped("new"), Stopped("done")} \cup StagedOps \cup CreateOps \cup ReplaceOps \cup AttachOps \cup DetachOps
    BY DEF OpSet
  <1> QED
    BY <1>2, <1>3, <1>4, <1>5, <1>6

\* Steps of requests that write neither rows nor objects.
LEMMA ServedQuiet ==
  ASSUME DocumentsInv, DocumentsInv', ServedInv, NEW o \in Ops, Only(o), op[o].kind # "web", op'[o].kind # "web",
         UNCHANGED <<docs, objects, raced>>
  PROVE  ServedInv'
  BY ServedKeeps

LEMMA ServedBegins ==
  ASSUME DocumentsInv, DocumentsInv', ServedInv, NEW o \in Ops,
         \/ Reserve(o) \/ BeginCreate(o)
         \/ \E d \in Ops : ReadForReplace(o, "replace", d) \/ \E n \in 1 .. MaxFiles : CountFiles(o, d, n)
         \/ \E a \in attached : FindFile(o, a)
  PROVE  ServedInv'
  <1>0. op \in [Ops -> OpSet]
    BY DEF DocumentsInv, DocumentTypes
  <1>1. Only(o) /\ op'[o].kind # "web"
    <2>1. CASE Reserve(o)
      <3>r. PICK r : r = [kind |-> "staged", step |-> "insert", file |-> staged.file, doc |-> o]
        OBVIOUS
      <3>1. op' = [op EXCEPT ![o] = r] /\ r.kind # "web"
        BY <2>1, <3>r DEF Reserve
      <3> QED
        BY <1>0, <3>1 DEF Only
    <2>2. CASE BeginCreate(o)
      <3>r. PICK r : r = [kind |-> "create", step |-> "insert"]
        OBVIOUS
      <3>1. op' = [op EXCEPT ![o] = r] /\ r.kind # "web"
        BY <2>2, <3>r DEF BeginCreate
      <3> QED
        BY <1>0, <3>1 DEF Only
    <2>3. ASSUME NEW d \in Ops, ReadForReplace(o, "replace", d)
          PROVE  Only(o) /\ op'[o].kind # "web"
      <3>r. PICK r : r = [kind |-> "replace", step |-> "upload", doc |-> d, read |-> docs[d].version]
        OBVIOUS
      <3>1. op' = [op EXCEPT ![o] = r] /\ r.kind # "web"
        BY <2>3, <3>r DEF ReadForReplace
      <3> QED
        BY <1>0, <3>1 DEF Only
    <2>4. ASSUME NEW d \in Ops, NEW n \in 1 .. MaxFiles, CountFiles(o, d, n)
          PROVE  Only(o) /\ op'[o].kind # "web"
      <3>r. PICK r : r = [kind |-> "attach", step |-> "insert", doc |-> d, n |-> n, left |-> n]
        OBVIOUS
      <3>1. op' = [op EXCEPT ![o] = r] /\ r.kind # "web"
        BY <2>4, <3>r DEF CountFiles
      <3> QED
        BY <1>0, <3>1 DEF Only
    <2>5. ASSUME NEW a \in attached, FindFile(o, a)
          PROVE  Only(o) /\ op'[o].kind # "web"
      <3>r. PICK r : r = [kind |-> "detach", step |-> "row", att |-> a]
        OBVIOUS
      <3>1. op' = [op EXCEPT ![o] = r] /\ r.kind # "web"
        BY <2>5, <3>r DEF FindFile
      <3> QED
        BY <1>0, <3>1 DEF Only
    <2> QED
      BY <2>1, <2>2, <2>3, <2>4, <2>5
  <1>2. op[o].kind # "web" /\ UNCHANGED <<docs, objects, raced>>
    BY DEF Reserve, BeginCreate, ReadForReplace, CountFiles, FindFile, Free, Stopped
  <1> QED
    BY <1>1, <1>2, ServedQuiet

LEMMA ServedGoes ==
  ASSUME DocumentsInv, DocumentsInv', ServedInv, NEW o \in Ops,
         \/ Lookup(o) \/ Seed(o) \/ Answer(o) \/ Share(o)
         \/ InsertFile(o) \/ UploadFile(o) \/ RollbackFile(o) \/ DetachRow(o) \/ DetachObject(o)
         \/ (Die(o) \/ AppendHistory(o)) /\ op[o].kind # "web"
  PROVE  ServedInv'
  <1>1. UNCHANGED <<docs, objects, raced>> /\ op[o].kind # "web" /\ op \in [Ops -> OpSet] /\ op[o] \in OpSet
    BY DEF Lookup, Seed, Answer, Share, Die, AppendHistory, InsertFile, UploadFile, RollbackFile, DetachRow,
           DetachObject, Creating, At, DocumentsInv, DocumentTypes
  <1>2. CASE Finish(o)
    BY <1>1, <1>2, FinishFacts, ServedQuiet
  <1>3. CASE \E step \in {"complete", "share", "undo", "rollback", "upload", "object"} : GoTo(o, step)
    BY <1>1, <1>3, KindStays, ServedQuiet
  <1>4. CASE Lookup(o)
    <2>1. PICK d \in Ops : op' = [op EXCEPT ![o].step = "answer", ![o].doc = d]
      BY <1>4 DEF Lookup
    <2>2. op[o] \in StagedOps
      BY <1>1, <1>4, OpShape DEF Lookup, At
    <2>r. PICK r : r = [op[o] EXCEPT !.step = "answer", !.doc = d]
      OBVIOUS
    <2>3. op' = [op EXCEPT ![o] = r] /\ r.kind # "web"
      BY <1>1, <2>1, <2>2, <2>r DEF StagedOps
    <2>4. Only(o) /\ op'[o].kind # "web"
      BY <1>1, <2>3 DEF Only
    <2> QED
      BY <1>1, <2>4, ServedQuiet
  <1>5. CASE op' = [op EXCEPT ![o].step = "insert", ![o].left = @ - 1] /\ op[o].kind = "attach"
    <2>1. op[o] \in AttachOps
      BY <1>1, <1>5, OpShape
    <2>l. PICK left : left = op[o].left - 1
      OBVIOUS
    <2>r. PICK r : r = [op[o] EXCEPT !.step = "insert", !.left = left]
      OBVIOUS
    <2>2. op' = [op EXCEPT ![o] = r] /\ r.kind # "web"
      BY <1>1, <1>5, <2>1, <2>l, <2>r DEF AttachOps
    <2>3. Only(o) /\ op'[o].kind # "web"
      BY <1>1, <2>2 DEF Only
    <2> QED
      BY <1>1, <2>3, ServedQuiet
  <1>6. Seed(o) => \E step \in {"complete", "share"} : GoTo(o, step)
    BY DEF Seed
  <1>7. UploadFile(o) => op[o].kind = "attach"
    BY DEF UploadFile, At
  <1> QED
    BY <1>2, <1>3, <1>4, <1>5, <1>6, <1>7 DEF Answer, Share, Die, AppendHistory, InsertFile, UploadFile, RollbackFile, DetachRow, DetachObject

LEMMA ServedCreates ==
  ASSUME DocumentsInv, DocumentsInv', ServedInv, NEW o \in Ops,
         Insert(o) \/ Upload(o) \/ Rollback(o) \/ Complete(o) \/ UndoRow(o) \/ UndoObject(o)
  PROVE  ServedInv'
  <1>1. op \in [Ops -> OpSet] /\ op[o].kind \in {"staged", "create"} /\ docs \in [Ops -> RowSet \cup {Null}]
        /\ raced' = raced
    BY DEF Insert, Upload, Rollback, Complete, UndoRow, UndoObject, Creating, At, DocumentsInv, DocumentTypes
  <1>2. Only(o) /\ op'[o].kind # "web"
    <2>1. Finish(o) \/ \E step : GoTo(o, step)
      BY DEF Insert, Upload, Rollback, Complete, UndoRow, UndoObject
    <2> QED
      BY <1>1, <2>1, FinishFacts, KindStays
  <1>3. \A x \in objects' : x \in objects \/ x.key = KeyOf(o, 1)
    BY DEF Insert, Upload, Rollback, Complete, UndoRow, UndoObject, Put, Without
  <1>4. ASSUME NEW d \in Ops, docs'[d] # Null
        PROVE  \/ docs[d] # Null /\ docs'[d].key = docs[d].key /\ docs'[d].version = docs[d].version
                  /\ docs'[d].score = docs[d].score
               \/ docs'[d].version = 1
    <2>1. CASE UNCHANGED docs
      BY <1>4, <2>1
    <2>2. CASE \E file : docs' = [docs EXCEPT ![o] = NewRow(o, file)]
      BY <1>1, <1>4, <2>2 DEF NewRow
    <2>3. CASE docs' = [docs EXCEPT ![o] = Null]
      BY <1>1, <1>4, <2>3
    <2>4. CASE docs' = [docs EXCEPT ![o].complete = TRUE] /\ docs[o] # Null
      <3>1. docs[o] \in RowSet
        BY <1>1, <2>4
      <3>r. PICK r : r = [docs[o] EXCEPT !.complete = TRUE]
        OBVIOUS
      <3>2. r.key = docs[o].key /\ r.version = docs[o].version /\ r.score = docs[o].score
        BY <3>1, <3>r DEF RowSet
      <3>3. docs' = [docs EXCEPT ![o] = r]
        BY <1>1, <2>4, <3>r
      <3> QED
        BY <1>1, <1>4, <2>4, <3>2, <3>3
    <2>5. Complete(o) => docs[o] # Null /\ docs' = [docs EXCEPT ![o].complete = TRUE]
      BY DEF Complete, DocumentsInv, RequestSound, Making
    <2> QED
      BY <2>1, <2>2, <2>3, <2>4, <2>5 DEF Insert, Upload, Rollback, UndoRow, UndoObject, DeleteRow
  <1>5. KeyOf(o, 1).version = 1
    BY DEF KeyOf
  <1> QED
    BY <1>1, <1>2, <1>3, <1>4, <1>5, ServedKeeps

LEMMA ServedReplaces ==
  ASSUME DocumentsInv, DocumentsInv', ServedInv, NEW o \in Ops, op[o].kind # "web",
         UploadNew(o) \/ Swap(o) \/ Tidy(o)
  PROVE  ServedInv'
  <1>1. op \in [Ops -> OpSet] /\ docs \in [Ops -> RowSet \cup {Null}] /\ raced' = raced
    BY DEF DocumentsInv, DocumentTypes, UploadNew, Swap, Tidy
  <1>2. op[o].kind = "replace" /\ op[o].doc \in Ops /\ NewKey(o).by = o
    BY ReplacingFacts DEF UploadNew, Swap, Tidy, Replacing, At
  <1>3. Only(o) /\ op'[o].kind # "web"
    <2>1. Finish(o) \/ \E step : GoTo(o, step)
      BY DEF UploadNew, Swap, Tidy
    <2> QED
      BY <1>1, <1>2, <2>1, FinishFacts, KindStays
  <1>4. \A x \in objects' : x \in objects \/ x.key = NewKey(o)
    BY DEF UploadNew, Swap, Tidy, Put, Without
  <1>5. ASSUME NEW d \in Ops, docs'[d] # Null
        PROVE  \/ docs[d] # Null /\ docs'[d].key = docs[d].key /\ docs'[d].version = docs[d].version
                  /\ docs'[d].score = docs[d].score
               \/ docs'[d].key.by # Null
    <2>1. CASE UNCHANGED docs
      BY <1>5, <2>1
    <2>2. CASE UnchangedSince(o) /\ Replaced(o)
      <3>k. PICK k : k = NewKey(o)
        OBVIOUS
      <3>e. PICK e \in Ops : e = op[o].doc
        BY <1>2
      <3>v. PICK version : version = op[o].read + 1
        OBVIOUS
      <3>r. PICK r : r = [docs[e] EXCEPT !.version = version, !.key = k, !.score = o]
        OBVIOUS
      <3>1. docs[e] \in RowSet
        BY <1>1, <2>2, <3>e DEF UnchangedSince, Present
      <3>2. r.key = k
        BY <3>1, <3>r DEF RowSet
      <3>3. docs' = [docs EXCEPT ![e] = r]
        BY <1>1, <2>2, <3>k, <3>e, <3>v, <3>r DEF Replaced
      <3>4. k.by # Null
        BY <1>2, <3>k, DocumentConstants
      <3>5. CASE d = e
        BY <1>1, <3>2, <3>3, <3>4, <3>5
      <3>6. CASE d # e
        BY <1>1, <1>5, <3>3, <3>6
      <3> QED
        BY <3>5, <3>6
    <2> QED
      BY <2>1, <2>2 DEF UploadNew, Swap, Tidy
  <1> QED
    BY <1>1, <1>2, <1>3, <1>4, <1>5, DocumentConstants, ServedKeeps

\* A step of a replacement from the dashboard, which may write its own key.
LEMMA ServedWeb ==
  ASSUME DocumentsInv, ServedInv, NEW o \in Ops, op[o].kind = "web", Only(o), raced' = raced,
         ScoreIsServed', op'[o].kind = "none" \/ (op'[o].kind = "web" /\ op'[o].doc = op[o].doc /\ op'[o].read = op[o].read),
         At(o, "web", "upload")' \/ At(o, "web", "update")' => op'[o].doc \in raced \/ Ahead(o)',
         At(o, "web", "update")' => op'[o].doc \in raced \/ Written(o)',
         \A d \in Ops : docs'[d] # Null => \/ docs[d] # Null /\ docs'[d].key = docs[d].key
                                           \/ d = op[o].doc /\ docs'[d].key = NewKey(o),
         \A x \in objects' : x \in objects \/ x.key = NewKey(o)
  PROVE  ServedInv'
  <1>1. ASSUME NEW p \in Ops, NEW q \in Ops, IsWeb(p)', IsWeb(q)'
        PROVE  IsWeb(p) /\ IsWeb(q) /\ op'[p].doc = op[p].doc /\ op'[p].read = op[p].read
               /\ op'[q].doc = op[q].doc /\ op'[q].read = op[q].read
    BY <1>1 DEF IsWeb, Only
  <1>2. ASSUME NEW p \in Ops PROVE Apart(p)'
    <2>1. SUFFICES ASSUME NEW q \in Ops, IsWeb(p)', IsWeb(q)', OneKey(p, q)'
                   PROVE  p = q \/ op'[p].doc \in raced
      BY DEF Apart
    <2>2. IsWeb(p) /\ IsWeb(q) /\ OneKey(p, q) /\ op'[p].doc = op[p].doc
      BY <1>1, <2>1 DEF OneKey
    <2> QED
      BY <2>2 DEF ServedInv, WebSound, Apart
  <1>3. ASSUME NEW p \in Ops \ {o}, IsWeb(p)
        PROVE  /\ op'[p] = op[p]
               /\ op[p].doc \in raced \/ (Ahead(p) => Ahead(p)')
               /\ op[p].doc \in raced \/ (Written(p) => Written(p)')
    <2>1. op'[p] = op[p] /\ op[p].kind = "web" /\ op[p] \in ReplaceOps /\ op[o] \in ReplaceOps
      BY <1>3, OpShape DEF Only, IsWeb, DocumentsInv, DocumentTypes
    <2>k. PICK k : k = NewKey(p)
      OBVIOUS
    <2>2. NewKey(p)' = k /\ k = [doc |-> op[p].doc, version |-> op[p].read + 1, by |-> Null]
      BY <2>1, <2>k DEF NewKey
    <2>3. NewKey(o) = [doc |-> op[o].doc, version |-> op[o].read + 1, by |-> Null]
      BY DEF NewKey
    <2>4. op[p].doc \in raced \/ k # NewKey(o)
      <3>1. SUFFICES ASSUME k = NewKey(o) PROVE op[p].doc \in raced
        OBVIOUS
      <3>2. op[p].doc = op[o].doc /\ op[p].read + 1 = op[o].read + 1
        BY <2>2, <2>3, <3>1
      <3>3. op[p].read = op[o].read
        BY <2>1, <3>2 DEF ReplaceOps
      <3>4. OneKey(p, o) /\ IsWeb(o) /\ Apart(p)
        BY <3>2, <3>3 DEF OneKey, IsWeb, ServedInv, WebSound
      <3> QED
        BY <1>3, <3>4 DEF Apart
    <2>5. op[p].doc \in Ops
      BY <2>1 DEF ReplaceOps
    <2>6. op[p].doc \in raced \/ (Ahead(p) => Ahead(p)')
      BY <2>1, <2>k, <2>2, <2>4, <2>5 DEF Ahead
    <2>7. op[p].doc \in raced \/ (Written(p) => Written(p)')
      BY <2>k, <2>2, <2>4 DEF Written
    <2> QED
      BY <2>1, <2>6, <2>7
  <1>4. ASSUME NEW p \in Ops PROVE WebSound(p)'
    <2>1. CASE p = o
      BY <1>2, <2>1 DEF WebSound
    <2>2. CASE p # o /\ IsWeb(p)
      <3>1. op'[p] = op[p] /\ WebSound(p)
        BY <1>3, <2>2 DEF ServedInv
      <3> QED
        BY <1>2, <1>3, <2>2, <3>1 DEF WebSound, At, Live
    <2>3. CASE p # o /\ ~IsWeb(p)
      <3>1. ~(At(p, "web", "upload") \/ At(p, "web", "update"))'
        BY <2>3 DEF IsWeb, At, Only
      <3> QED
        BY <1>2, <3>1 DEF WebSound
    <2> QED
      BY <2>1, <2>2, <2>3
  <1> QED
    BY <1>4 DEF ServedInv

LEMMA ServedWebBegins ==
  ASSUME DocumentsInv, ServedInv, NEW o \in Ops, NEW d \in Ops, ReadForReplace(o, "web", d)
  PROVE  ServedInv'
  <1>1. DocumentTypes /\ Present(d) /\ RowSound(d) /\ UNCHANGED <<docs, objects>>
    BY DEF DocumentsInv, ReadForReplace
  <1>r. PICK r : r = [kind |-> "web", step |-> "upload", doc |-> d, read |-> docs[d].version]
    OBVIOUS
  <1>2. op'[o] = r /\ Only(o) /\ op[o] = Stopped("new")
    BY <1>1, <1>r DEF ReadForReplace, Only, DocumentTypes, Free
  <1>3. docs[d].version \in Nat /\ docs[d].key.version = docs[d].version
    BY <1>1 DEF Present, DocumentTypes, RowSet, RowSound
  <1>4. ~IsWeb(o)
    BY <1>2 DEF IsWeb, Stopped
  <1>5. /\ raced' \in {raced, raced \cup {d}}
        /\ \A q \in Ops : op[q].kind = "web" /\ op[q].doc = d /\ op[q].read = docs[d].version => d \in raced'
    BY DEF ReadForReplace, Underway
  <1>6. ScoreIsServed'
    BY <1>1, <1>5 DEF ServedInv, ScoreIsServed, Described
  <1>7. ASSUME NEW p \in Ops PROVE Apart(p)'
    <2>1. SUFFICES ASSUME NEW q \in Ops, p # q, IsWeb(p)', IsWeb(q)', OneKey(p, q)' PROVE op'[p].doc \in raced'
      BY DEF Apart
    <2>2. CASE p = o
      <3>1. op'[q] = op[q] /\ op[q].kind = "web" /\ op[q].doc = d /\ op[q].read = docs[d].version
        BY <1>2, <1>r, <2>1, <2>2 DEF Only, IsWeb, OneKey
      <3> QED
        BY <1>2, <1>5, <1>r, <2>2, <3>1
    <2>3. CASE q = o
      <3>1. op'[p] = op[p] /\ op[p].kind = "web" /\ op[p].doc = d /\ op[p].read = docs[d].version
        BY <1>2, <1>r, <2>1, <2>3 DEF Only, IsWeb, OneKey
      <3> QED
        BY <1>5, <3>1
    <2>4. CASE p # o /\ q # o
      <3>1. op'[p] = op[p] /\ op'[q] = op[q] /\ IsWeb(p) /\ IsWeb(q) /\ OneKey(p, q) /\ Apart(p)
        BY <1>2, <2>1, <2>4 DEF Only, IsWeb, OneKey, ServedInv, WebSound
      <3> QED
        BY <1>5, <2>1, <3>1 DEF Apart
    <2> QED
      BY <2>2, <2>3, <2>4
  <1>8. ASSUME NEW p \in Ops PROVE WebSound(p)'
    <2>1. CASE p = o
      <3>1. NewKey(o)'.version = docs[d].version + 1
        BY <1>2, <1>r, <2>1 DEF NewKey
      <3>2. Ahead(o)' /\ ~At(o, "web", "update")'
        BY <1>1, <1>2, <1>3, <1>r, <3>1 DEF Ahead, At
      <3> QED
        BY <1>7, <2>1, <3>2 DEF WebSound
    <2>2. CASE p # o
      <3>1. op'[p] = op[p] /\ WebSound(p)
        BY <1>2, <2>2 DEF Only, ServedInv
      <3>2. (Ahead(p) => Ahead(p)') /\ (Written(p) => Written(p)')
        BY <1>1, <3>1 DEF Ahead, Written, NewKey
      <3> QED
        BY <1>5, <1>7, <3>1, <3>2 DEF WebSound, At, Live
    <2> QED
      BY <2>1, <2>2
  <1> QED
    BY <1>6, <1>8 DEF ServedInv

LEMMA ServedWebGoes ==
  ASSUME DocumentsInv, ServedInv, NEW o \in Ops, op[o].kind = "web",
         Die(o) \/ UploadNew(o) \/ UpdateRow(o) \/ AppendHistory(o)
  PROVE  ServedInv'
  <1>1. op \in [Ops -> OpSet] /\ docs \in [Ops -> RowSet \cup {Null}] /\ DocumentTypes /\ raced' = raced
    BY DEF DocumentsInv, DocumentTypes, Die, UploadNew, UpdateRow, AppendHistory
  <1>2. ScoreIsServed /\ WebSound(o)
    BY DEF ServedInv
  <1>3. CASE Finish(o) /\ UNCHANGED <<docs, objects>>
    <2>1. Only(o) /\ op'[o].kind = "none"
      BY <1>1, <1>3, FinishFacts
    <2>2. ScoreIsServed'
      BY <1>1, <1>2, <1>3 DEF ScoreIsServed, Described
    <2>3. ~(At(o, "web", "upload") \/ At(o, "web", "update"))'
      BY <2>1 DEF At
    <2> QED
      BY <1>1, <1>3, <2>1, <2>2, <2>3, ServedWeb
  <1>4. CASE UploadNew(o)
    <2>1. /\ Replacing(o, "upload") /\ At(o, "web", "upload") /\ objects' = Put(NewKey(o), o)
          /\ GoTo(o, "update") \/ Finish(o)
      BY <1>4 DEF UploadNew, Replacing, At
    <2>2. UNCHANGED docs
      BY <1>4 DEF UploadNew
    <2>3. /\ op[o] \in ReplaceOps /\ op[o].doc \in Ops /\ op[o].read \in Nat /\ NewKey(o) \in ObjectKeys
          /\ NewKey(o).doc = op[o].doc /\ NewKey(o).version = op[o].read + 1 /\ NewKey(o).by = Null
      BY <2>1, ReplacingFacts
    <2>k. PICK k \in ObjectKeys : k = NewKey(o)
      BY <2>3
    <2>4. /\ \A x \in objects' : x \in objects \/ (x.key = k /\ x.body = o)
          /\ \A x \in objects' : x.key = k => x.body = o
      BY <1>1, <2>1, <2>k, PutFacts
    <2>5. op[o].doc \in raced \/ Ahead(o)
      BY <1>2, <2>1 DEF WebSound
    <2>6. ScoreIsServed'
      <3>1. SUFFICES ASSUME NEW d \in Ops \ raced, NEW x \in objects', docs[d] # Null, x.key = docs[d].key
                     PROVE  x.body = docs[d].score
        BY <1>1, <2>2 DEF ScoreIsServed, Described
      <3>2. docs[d].key.doc = d
        BY <3>1 DEF DocumentsInv, RowSound, KeySound
      <3>3. docs[d].key # k
        BY <2>3, <2>5, <2>k, <3>1, <3>2 DEF Ahead
      <3> QED
        BY <1>2, <2>4, <3>1, <3>3 DEF ScoreIsServed, Described
    <2>7. CASE GoTo(o, "update")
      <3>1. Only(o) /\ op'[o].kind = op[o].kind /\ op'[o].doc = op[o].doc /\ op'[o].read = op[o].read
        BY <1>1, <2>3, <2>7, GoToFacts
      <3>2. NewKey(o)' = k
        BY <2>k, <3>1 DEF NewKey
      <3>3. (Ahead(o) => Ahead(o)') /\ Written(o)'
        BY <2>2, <2>4, <2>k, <3>1, <3>2 DEF Ahead, Written
      <3> QED
        BY <1>1, <2>2, <2>4, <2>5, <2>6, <2>k, <3>1, <3>3, ServedWeb
    <2>8. CASE Finish(o)
      <3>1. Only(o) /\ op'[o].kind = "none"
        BY <1>1, <2>8, FinishFacts
      <3>2. ~(At(o, "web", "upload") \/ At(o, "web", "update"))'
        BY <3>1 DEF At
      <3> QED
        BY <1>1, <2>2, <2>4, <2>6, <2>k, <3>1, <3>2, ServedWeb
    <2> QED
      BY <2>1, <2>7, <2>8
  <1>5. CASE UpdateRow(o)
    <2>1. /\ Replacing(o, "update") /\ At(o, "web", "update") /\ GoTo(o, "history") /\ UNCHANGED objects
          /\ IF docs[op[o].doc] # Null THEN Replaced(o) ELSE UNCHANGED docs
      BY <1>5 DEF UpdateRow, Replacing
    <2>2. op[o] \in ReplaceOps /\ op[o].doc \in Ops
      BY <2>1, ReplacingFacts
    <2>3. /\ Only(o) /\ op'[o].step = "history" /\ op'[o].kind = op[o].kind
          /\ op'[o].doc = op[o].doc /\ op'[o].read = op[o].read
      BY <1>1, <2>1, <2>2, GoToFacts
    <2>4. op[o].doc \in raced \/ \A x \in objects : x.key = NewKey(o) => x.body = o
      BY <1>2, <2>1 DEF WebSound, Written
    <2>5. ScoreIsServed' /\ \A d \in Ops : docs'[d] # Null => \/ docs[d] # Null /\ docs'[d].key = docs[d].key
                                                              \/ d = op[o].doc /\ docs'[d].key = NewKey(o)
      <3>1. CASE UNCHANGED docs
        BY <1>1, <1>2, <2>1, <3>1 DEF ScoreIsServed, Described
      <3>2. CASE docs[op[o].doc] # Null /\ Replaced(o)
        <4>k. PICK k : k = NewKey(o)
          OBVIOUS
        <4>e. PICK e \in Ops : e = op[o].doc
          BY <2>2
        <4>v. PICK version : version = op[o].read + 1
          OBVIOUS
        <4>r. PICK r : r = [docs[e] EXCEPT !.version = version, !.key = k, !.score = o]
          OBVIOUS
        <4>1. docs[e] \in RowSet
          BY <1>1, <3>2, <4>e
        <4>2. r.key = k /\ r.score = o
          BY <4>1, <4>r DEF RowSet
        <4>3. docs' = [docs EXCEPT ![e] = r]
          BY <1>1, <3>2, <4>k, <4>e, <4>v, <4>r DEF Replaced
        <4>4. docs'[e] = r /\ \A d \in Ops : d # e => docs'[d] = docs[d]
          BY <1>1, <4>3
        <4>5. ScoreIsServed'
          BY <1>1, <1>2, <2>1, <2>4, <4>2, <4>4, <4>k, <4>e DEF ScoreIsServed, Described
        <4> QED
          BY <4>2, <4>4, <4>5, <4>k, <4>e
      <3> QED
        BY <2>1, <3>1, <3>2
    <2>6. ~(At(o, "web", "upload") \/ At(o, "web", "update"))'
      BY <2>3 DEF At
    <2> QED
      BY <1>1, <2>1, <2>3, <2>5, <2>6, ServedWeb
  <1> QED
    BY <1>3, <1>4, <1>5 DEF Die, AppendHistory

LEMMA ServedOwner ==
  ASSUME DocumentsInv, ServedInv, UNCHANGED <<op, objects, raced>>,
         \A d \in Ops : \/ docs'[d] = docs[d]
                        \/ /\ docs[d] # Null /\ docs'[d].version = docs[d].version
                           /\ docs'[d].key = docs[d].key /\ docs'[d].score = docs[d].score
  PROVE  ServedInv'
  <1>1. ScoreIsServed'
    BY DEF ServedInv, ScoreIsServed, Described
  <1>2. ASSUME NEW p \in Ops PROVE WebSound(p)'
    <2>1. WebSound(p)
      BY DEF ServedInv
    <2>2. IsWeb(p) => op[p].doc \in Ops
      BY OpShape DEF IsWeb, DocumentsInv, DocumentTypes, ReplaceOps
    <2>3. IsWeb(p) /\ Ahead(p) => Ahead(p)'
      BY <2>2 DEF Ahead, NewKey
    <2>4. (Written(p) => Written(p)') /\ (Apart(p) => Apart(p)')
      BY DEF Written, NewKey, Apart, IsWeb, OneKey
    <2> QED
      BY <2>1, <2>3, <2>4 DEF WebSound, At, Live, IsWeb
  <1> QED
    BY <1>1, <1>2 DEF ServedInv

LEMMA ServedStep ==
  DocumentsInv /\ DocumentsInv' /\ ServedInv /\ [DocumentsNext]_documentsVars => ServedInv'
  <1> SUFFICES ASSUME DocumentsInv, DocumentsInv', ServedInv, [DocumentsNext]_documentsVars PROVE ServedInv'
    OBVIOUS
  <1>1. CASE UNCHANGED <<op, docs, objects, raced>>
    BY <1>1, ServedOwner
  <1>2. ASSUME NEW d \in Ops, DeleteDocument(d) PROVE ServedInv'
    <2>r. PICK r : r = [docs[d] EXCEPT !.deleted = TRUE]
      OBVIOUS
    <2>1. docs[d] \in RowSet /\ docs[d] # Null /\ docs' = [docs EXCEPT ![d] = r] /\ UNCHANGED <<op, objects, raced>>
      BY <1>2, <2>r DEF DeleteDocument, Present, DocumentsInv, DocumentTypes
    <2>2. r.version = docs[d].version /\ r.key = docs[d].key /\ r.score = docs[d].score
      BY <2>1, <2>r DEF RowSet
    <2>3. docs'[d] = r /\ \A e \in Ops : e # d => docs'[e] = docs[e]
      BY <2>1 DEF DocumentsInv, DocumentTypes
    <2> QED
      BY <2>1, <2>2, <2>3, ServedOwner
  <1>3. ASSUME NEW o \in Ops,
               \/ Reserve(o) \/ BeginCreate(o)
               \/ \E d \in Ops : \/ \E kind \in {"web", "replace"} : ReadForReplace(o, kind, d)
                                 \/ \E n \in 1 .. MaxFiles : CountFiles(o, d, n)
               \/ \E a \in attached : FindFile(o, a)
        PROVE  ServedInv'
    BY <1>3, ServedBegins, ServedWebBegins
  <1>4. ASSUME NEW o \in Ops,
               \/ Lookup(o) \/ Seed(o) \/ Answer(o) \/ Share(o)
               \/ InsertFile(o) \/ UploadFile(o) \/ RollbackFile(o) \/ DetachRow(o) \/ DetachObject(o)
               \/ Insert(o) \/ Upload(o) \/ Rollback(o) \/ Complete(o) \/ UndoRow(o) \/ UndoObject(o)
        PROVE  ServedInv'
    BY <1>4, ServedGoes, ServedCreates
  <1>5. ASSUME NEW o \in Ops, Die(o) \/ UploadNew(o) \/ UpdateRow(o) \/ Swap(o) \/ Tidy(o) \/ AppendHistory(o)
        PROVE  ServedInv'
    <2>1. CASE op[o].kind = "web"
      <3>1. ~Swap(o) /\ ~Tidy(o)
        BY <2>1 DEF Swap, Tidy, At
      <3> QED
        BY <1>5, <2>1, <3>1, ServedWebGoes
    <2>2. CASE op[o].kind # "web"
      <3>1. ~UpdateRow(o)
        BY <2>2 DEF UpdateRow, At
      <3> QED
        BY <1>5, <2>2, <3>1, ServedGoes, ServedReplaces
    <2> QED
      BY <2>1, <2>2
  <1>6. Forget \/ (\E file \in Files : Stage(file)) \/ UNCHANGED documentsVars => UNCHANGED <<op, docs, objects, raced>>
    BY DEF Forget, Stage, documentsVars
  <1> QED
    BY <1>1, <1>2, <1>3, <1>4, <1>5, <1>6 DEF DocumentsNext

-----------------------------------------------------------------------------
(* What follows for the owner and the reader.                              *)

LEMMA DocumentsInvImplies == DocumentsInv => (raced \subseteq Ops => DocumentsTypes) /\ ToldIsReadable
  <1> SUFFICES ASSUME DocumentsInv PROVE (raced \subseteq Ops => DocumentsTypes) /\ ToldIsReadable
    OBVIOUS
  <1>1. DocumentTypes
    BY DEF DocumentsInv
  <1>2. raced \subseteq Ops => DocumentsTypes
    BY <1>1 DEF DocumentTypes, DocumentsTypes
  <1>3. ASSUME NEW d \in Ops, Holds(KeyOf(d, 1)), NEW k \in ObjectKeys, KeySound(k, d)
        PROVE  \E x \in objects : x.key = k
    <2>1. k.version \in Nat
      BY DEF ObjectKeys
    <2>2. k = KeyOf(d, 1) \/ Holds(k)
      BY <1>3, <2>1 DEF KeySound
    <2> QED
      BY <1>3, <2>2 DEF Holds
  <1>4. ASSUME NEW d \in told
        PROVE  /\ docs[d] # Null
               /\ \A key \in {docs[d].key} \cup {h.key : h \in {v \in history : v.doc = d}} :
                     \E x \in objects : x.key = key
    <2>1. d \in Ops /\ docs[d] # Null /\ Holds(KeyOf(d, 1)) /\ KeySound(docs[d].key, d)
      BY <1>1 DEF DocumentTypes, DocumentsInv, RowSound
    <2>2. docs[d].key \in ObjectKeys
      BY <1>1, <2>1 DEF DocumentTypes, RowSet
    <2>3. \A h \in history : h.doc = d => h.key \in ObjectKeys /\ KeySound(h.key, d)
      BY <1>1 DEF DocumentTypes, DocumentsInv
    <2> QED
      BY <1>3, <2>1, <2>2, <2>3
  <1> QED
    BY <1>2, <1>4 DEF ToldIsReadable

\* What takes the record out of the browser.
LEMMA RecordGoes ==
  ASSUME DocumentsInv, [DocumentsNext]_documentsVars, staged # Null, staged' = Null
  PROVE  Forget \/ \E d \in Ops : HasFile(d, staged.file) /\ docs[d].complete
  <1>1. DocumentTypes /\ staged \in Records
    BY DEF DocumentsInv, DocumentTypes
  <1>2. \A file \in Files : ~Stage(file)
    BY DocumentConstants DEF Stage, Records
  <1>3. ASSUME NEW o \in Ops, Reserve(o) PROVE FALSE
    <2>1. staged' \in Records
      BY <1>1, <1>3 DEF Reserve, Records
    <2> QED
      BY <2>1, DocumentConstants
  <1>4. ASSUME NEW o \in Ops, Answer(o) PROVE \E d \in Ops : HasFile(d, staged.file) /\ docs[d].complete
    <2>1. At(o, "staged", "answer") /\ staged.token = o
      BY <1>4 DEF Answer, Cleared
    <2>2. RequestSound(o) /\ op[o].kind = "staged" /\ op[o].doc \in Ops
      BY <1>1, <2>1, OpShape DEF DocumentsInv, DocumentTypes, At, StagedOps
    <2>3. op[o].file = staged.file /\ HasFile(op[o].doc, op[o].file) /\ docs[op[o].doc].complete
      BY <2>1, <2>2 DEF RequestSound
    <2> QED
      BY <2>2, <2>3
  <1>5. ASSUME NEW o \in Ops PROVE ~(Insert(o) \/ Lookup(o) \/ Upload(o) \/ Rollback(o) \/ Seed(o) \/ Complete(o))
    BY DEF Insert, Lookup, Upload, Rollback, Seed, Complete
  <1>6. ASSUME NEW o \in Ops
        PROVE  ~(BeginCreate(o) \/ Share(o) \/ UndoRow(o) \/ UndoObject(o) \/ Die(o) \/ DeleteDocument(o))
    BY DEF BeginCreate, Share, UndoRow, UndoObject, Die, DeleteDocument
  <1>7. ASSUME NEW o \in Ops
        PROVE  ~(UploadNew(o) \/ UpdateRow(o) \/ Swap(o) \/ Tidy(o) \/ AppendHistory(o))
    BY DEF UploadNew, UpdateRow, Swap, Tidy, AppendHistory
  <1>8. ASSUME NEW o \in Ops
        PROVE  ~(InsertFile(o) \/ UploadFile(o) \/ RollbackFile(o) \/ DetachRow(o) \/ DetachObject(o))
    BY DEF InsertFile, UploadFile, RollbackFile, DetachRow, DetachObject
  <1>9. ASSUME NEW o \in Ops, NEW d \in Ops
        PROVE  /\ \A kind \in {"web", "replace"} : ~ReadForReplace(o, kind, d)
               /\ \A n \in 1 .. MaxFiles : ~CountFiles(o, d, n)
    BY DEF ReadForReplace, CountFiles
  <1>10. ASSUME NEW o \in Ops, NEW a \in attached PROVE ~FindFile(o, a)
    BY DEF FindFile
  <1>11. staged' # staged
    OBVIOUS
  <1>12. DocumentsNext
    BY <1>11 DEF documentsVars
  <1> QED
    BY <1>2, <1>3, <1>4, <1>5, <1>6, <1>7, <1>8, <1>9, <1>10, <1>12 DEF DocumentsNext

\* Only a dashboard replacement that reads for a document adds to the raced ones.
LEMMA RacedGrows ==
  ASSUME raced \subseteq Ops, [DocumentsNext]_documentsVars
  PROVE  raced' \subseteq Ops
  <1>1. ASSUME NEW o \in Ops, NEW d \in Ops, NEW kind \in {"web", "replace"}, ReadForReplace(o, kind, d)
        PROVE  raced' \subseteq Ops
    BY <1>1 DEF ReadForReplace
  <1>2. ASSUME NEW o \in Ops,
               \/ Die(o) \/ Reserve(o) \/ Insert(o) \/ Lookup(o) \/ Upload(o) \/ Rollback(o) \/ Seed(o)
               \/ Complete(o) \/ Answer(o) \/ BeginCreate(o) \/ Share(o) \/ UndoRow(o) \/ UndoObject(o)
        PROVE  raced' \subseteq Ops
    BY <1>2 DEF Die, Reserve, Insert, Lookup, Upload, Rollback, Seed, Complete, Answer, BeginCreate,
                Share, UndoRow, UndoObject
  <1>3. ASSUME NEW o \in Ops,
               \/ UploadNew(o) \/ UpdateRow(o) \/ Swap(o) \/ Tidy(o) \/ AppendHistory(o)
               \/ InsertFile(o) \/ UploadFile(o) \/ RollbackFile(o) \/ DetachRow(o) \/ DetachObject(o)
        PROVE  raced' \subseteq Ops
    BY <1>3 DEF UploadNew, UpdateRow, Swap, Tidy, AppendHistory, InsertFile, UploadFile, RollbackFile,
                DetachRow, DetachObject
  <1>4. ASSUME NEW o \in Ops, NEW d \in Ops, NEW n \in 1 .. MaxFiles, CountFiles(o, d, n)
        PROVE  raced' \subseteq Ops
    BY <1>4 DEF CountFiles
  <1>5. ASSUME NEW o \in Ops, NEW a \in attached, FindFile(o, a) PROVE raced' \subseteq Ops
    BY <1>5 DEF FindFile
  <1>6. CASE Forget \/ (\E file \in Files : Stage(file)) \/ (\E d \in Ops : DeleteDocument(d))
    BY <1>6 DEF Forget, Stage, DeleteDocument
  <1>7. CASE UNCHANGED documentsVars
    BY <1>7 DEF documentsVars
  <1> QED
    BY <1>1, <1>2, <1>3, <1>4, <1>5, <1>6, <1>7 DEF DocumentsNext

\* Requests, rows, objects and the browser's record keep to their shapes: every
\* request is at a call of its own kind and knows what that call goes by.
THEOREM DocumentsTypesHold == DocumentsSpec => []DocumentsTypes
  <1>1. DocumentsInv /\ raced \subseteq Ops => DocumentsTypes
    BY DocumentsInvImplies
  <1>2. DocumentsInit => raced \subseteq Ops
    BY DEF DocumentsInit
  <1>3. raced \subseteq Ops /\ [DocumentsNext]_documentsVars => (raced \subseteq Ops)'
    BY RacedGrows
  <1> QED
    BY <1>1, <1>2, <1>3, DocumentsInductive, PTL DEF DocumentsSpec

\* A document that createStagedDocument or POST /api/v1/shares has reported can
\* be read, in its newest and in every recorded version, whatever requests
\* replace it at once and wherever they die, dashboard and API alike.
THEOREM ToldIsReadableHolds == DocumentsSpec => []ToldIsReadable
  <1>1. DocumentsInv => ToldIsReadable
    BY DocumentsInvImplies
  <1> QED
    BY <1>1, DocumentsInductive, PTL

\* staged-file.ts gives up a file only for a document that is whole and has
\* that file's identifier, or because its owner picked another or let it lapse.
THEOREM FileKeptHolds == DocumentsSpec => FileKept
  <1>1. DocumentsInv /\ [DocumentsNext]_documentsVars =>
           [staged # Null /\ staged' = Null =>
               Forget \/ \E d \in Ops : HasFile(d, staged.file) /\ docs[d].complete]_documentsVars
    BY RecordGoes
  <1> QED
    BY <1>1, DocumentsInductive, PTL DEF DocumentsSpec, FileKept

\* Until two replacements from the dashboard have read the same version of it,
\* the score a document carries is that of the bytes under its key, also while
\* those of the API and from older versions go on, whose keys are others
\* (replaceDocumentAction against POST of documents/[id]/replace).
THEOREM ScoreIsServedHolds == DocumentsSpec => []ScoreIsServed
  <1>1. DocumentsInit => ServedInv
    <2> SUFFICES ASSUME DocumentsInit PROVE ServedInv
      OBVIOUS
    <2>1. \A o \in Ops : op[o].kind = "none"
      BY DEF DocumentsInit, Stopped
    <2> QED
      BY <2>1 DEF DocumentsInit, ServedInv, ScoreIsServed, WebSound, Apart, IsWeb, At
  <1>2. DocumentsInv /\ DocumentsInv' /\ ServedInv /\ [DocumentsNext]_documentsVars => ServedInv'
    BY ServedStep
  <1>3. ServedInv => ScoreIsServed
    BY DEF ServedInv
  <1> QED
    BY <1>1, <1>2, <1>3, DocumentsInductive, PTL DEF DocumentsSpec
=============================================================================
