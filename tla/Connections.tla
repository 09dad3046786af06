----------------------------- MODULE Connections -----------------------------
(***************************************************************************)
(* Connecting an assistant, and disconnecting it: the consent page's POST  *)
(* (connect/decision/route.ts), the single-use handle (schema/045), the    *)
(* connector's callback and /connect/revoke (consent.ts), and Settings'    *)
(* revocation with its tidy-up (connector-revoke.ts, schema/046).  One     *)
(* customer.  The application and the connector share no store: the one    *)
(* has api_keys, connect_handles and connector_grants, the other the OAuth *)
(* library's grants in its KV, and each asks the other over HTTP.  The     *)
(* library and the KV are modelled from how consent.ts uses them; the KV   *)
(* is eventually consistent: what was written is listed everywhere later,  *)
(* and what was deleted may be read for a while.                           *)
(***************************************************************************)
EXTENDS Integers, FiniteSets

CONSTANTS Txs,       \* parked authorization requests
          Decisions, \* POSTs of the consent form, each minting the key of its name
          Callbacks, \* GETs of the connector's callback, the reloads among them
          Revokers,  \* revocations in Settings
          MaxKeys,   \* the live keys an account may have
          None

ASSUME ConnectionsAssumption ==
    /\ MaxKeys \in Nat
    /\ None \notin Txs \cup Decisions

VARIABLES parked,   \* the requests parked in the connector's KV
          deciding, \* each POST of the form: its step and transaction
          keys,     \* api_keys: live, or revoked
          handles,  \* connect_handles: transaction, key, and whether it has expired
          rows,     \* connector_grants: recorded, or recorded as gone
          calling,  \* each callback: its step, and the key it is about
          grants,   \* the OAuth library's grants: which callback made it, for which key
          shown,    \* the grants that every listing shows, and of these, as history,
          timely,   \* those that every listing showed while their key was live
          revoking  \* each revocation: its step, key, and what is left of the grants listed

vars == <<parked, deciding, keys, handles, rows, calling, grants, shown, timely, revoking>>

Keys == Decisions
Grants == [by : Callbacks, key : Keys]

Init ==
    /\ parked = {}
    /\ deciding = [d \in Decisions |-> [step |-> "new"]]
    /\ keys = [k \in Keys |-> "none"]
    /\ handles = {}
    /\ rows = [k \in Keys |-> "none"]
    /\ calling = [c \in Callbacks |-> [step |-> "new"]]
    /\ grants = {} /\ shown = {} /\ timely = {}
    /\ revoking = [r \in Revokers |-> [step |-> "new"]]

MutRevoked(k) == keys' = [keys EXCEPT ![k] = "none"]
Revoked(k) == keys' = [keys EXCEPT ![k] = IF @ = "live" THEN "revoked" ELSE @]

-----------------------------------------------------------------------------
(* The consent.                                                            *)

\* /authorize parks the request; ten minutes later the KV has dropped it.
Authorize(tx) ==
    /\ parked' = parked \cup {tx}
    /\ tx \notin parked
    /\ \A d \in Decisions : deciding[d].step # "new" => deciding[d].tx # tx
    /\ UNCHANGED <<deciding, keys, handles, rows, calling, grants, shown, timely, revoking>>

ParkedExpires(tx) ==
    /\ tx \in parked
    /\ parked' = parked \ {tx}
    /\ UNCHANGED <<deciding, keys, handles, rows, calling, grants, shown, timely, revoking>>

\* The form may be sent again: the signature and the nonce hold for ten minutes.
\* The key is minted first, within the limit on live keys.
Allow(d, tx) ==
    /\ deciding[d].step = "new"
    /\ tx \in parked \/ \E e \in Decisions : deciding[e].step # "new" /\ deciding[e].tx = tx
    /\ Cardinality({k \in Keys : keys[k] = "live"}) < MaxKeys
    /\ keys' = [keys EXCEPT ![d] = "live"]
    /\ deciding' = [deciding EXCEPT ![d] = [step |-> "handle", tx |-> tx]]
    /\ UNCHANGED <<parked, handles, rows, calling, grants, shown, timely, revoking>>

Decide(d, step) == deciding' = [deciding EXCEPT ![d].step = step]

\* One handle for each transaction, of a key that is live.
HandleInserted(d) ==
    /\ keys[d] = "live" /\ \A h \in handles : h.tx # deciding[d].tx
    /\ handles' = handles \cup {[tx |-> deciding[d].tx, key |-> d, expired |-> FALSE]}

\* An insert that is reported as failed may have left the handle.
InsertHandle(d) ==
    /\ deciding[d].step = "handle"
    /\ \/ Decide(d, "row") /\ HandleInserted(d)
       \/ Decide(d, "undo") /\ (HandleInserted(d) \/ UNCHANGED handles)
    /\ UNCHANGED <<parked, keys, rows, calling, grants, shown, timely, revoking>>

UndoKey(d) ==
    /\ deciding[d].step = "undo"
    /\ Revoked(d)
    /\ Decide(d, "done")
    /\ UNCHANGED <<parked, handles, rows, calling, grants, shown, timely, revoking>>

\* The row is recorded for a live key only (the insert policy); whatever comes
\* of it, the browser is sent to the callback.
RecordRow(d) ==
    /\ deciding[d].step = "row"
    /\ \/ rows' = [rows EXCEPT ![d] = IF keys[d] = "live" THEN "recorded" ELSE @]
       \/ UNCHANGED rows
    /\ Decide(d, "answered")
    /\ UNCHANGED <<parked, keys, handles, calling, grants, shown, timely, revoking>>

DecisionDies(d) ==
    /\ deciding[d].step \in {"handle", "undo", "row"}
    /\ Decide(d, "done")
    /\ UNCHANGED <<parked, keys, handles, rows, calling, grants, shown, timely, revoking>>

HandleExpires(h) ==
    /\ ~h.expired
    /\ handles' = (handles \ {h}) \cup {[h EXCEPT !.expired = TRUE]}
    /\ UNCHANGED <<parked, deciding, keys, rows, calling, grants, shown, timely, revoking>>

\* purge_connect_handles, every five minutes.
Purged(h) == h.expired
Purge ==
    /\ handles' = {h \in handles : ~Purged(h)}
    /\ UNCHANGED <<parked, deciding, keys, rows, calling, grants, shown, timely, revoking>>

-----------------------------------------------------------------------------
(* The connector's callback.                                               *)

Step(c, step) == calling' = [calling EXCEPT ![c].step = step]

\* The parked request is read, and then deleted, where others may yet read it:
\* two callbacks can both have it.
ReadParked(c, d) ==
    /\ calling[c].step = "new"
    /\ deciding[d].step = "answered"
    /\ deciding[d].tx \in parked
    /\ calling' = [calling EXCEPT ![c] = [step |-> "unpark", key |-> d]]
    /\ UNCHANGED <<parked, deciding, keys, handles, rows, grants, shown, timely, revoking>>

Unpark(c) ==
    /\ calling[c].step = "unpark"
    /\ parked' \in {parked, parked \ {deciding[calling[c].key].tx}}
    /\ Step(c, "exchange")
    /\ UNCHANGED <<deciding, keys, handles, rows, grants, shown, timely, revoking>>

HandleOf(k) == {h \in handles : h.key = k /\ ~h.expired}

\* /api/v1/connect/exchange: one statement deletes the handle and returns what
\* it held.  The answer may not come back.
MutSpent(hs) == handles
Spent(hs) == handles \ hs

Exchange(c) ==
    /\ calling[c].step = "exchange"
    /\ HandleOf(calling[c].key) # {}
    /\ handles' = Spent(HandleOf(calling[c].key))
    /\ Step(c, "complete") \/ Step(c, "done")
    /\ UNCHANGED <<parked, deciding, keys, rows, grants, shown, timely, revoking>>

ExchangeRefused(c) ==
    /\ calling[c].step = "exchange"
    /\ HandleOf(calling[c].key) = {}
    /\ Step(c, "done")
    /\ UNCHANGED <<parked, deciding, keys, handles, rows, grants, shown, timely, revoking>>

\* completeAuthorization: grants coexist, one for each connection.
CompleteAuthorization(c) ==
    /\ calling[c].step = "complete"
    /\ grants' = grants \cup {[by |-> c, key |-> calling[c].key]}
    /\ Step(c, "done")
    /\ UNCHANGED <<parked, deciding, keys, handles, rows, shown, timely, revoking>>

\* The grant is listed wherever it is asked for.
KVShows(g) ==
    /\ g \in grants \ shown
    /\ shown' = shown \cup {g}
    /\ timely' = IF keys[g.key] = "live" THEN timely \cup {g} ELSE timely
    /\ UNCHANGED <<parked, deciding, keys, handles, rows, calling, grants, revoking>>

CallbackDies(c) ==
    /\ calling[c].step \in {"unpark", "exchange", "complete"}
    /\ Step(c, "done")
    /\ UNCHANGED <<parked, deciding, keys, handles, rows, grants, shown, timely, revoking>>

-----------------------------------------------------------------------------
(* Revocation.  The key first, which closes access; the rest is tidy-up.   *)

Turn(r, step) == revoking' = [revoking EXCEPT ![r].step = step]

\* Settings offers every key it lists, one whose connection is being made too.
RevokeKey(r, k) ==
    /\ revoking[r].step = "new"
    /\ keys[k] # "none"
    /\ Revoked(k)
    /\ revoking' = [revoking EXCEPT ![r] = [step |-> "row", key |-> k, listed |-> {}]]
    /\ UNCHANGED <<parked, deciding, handles, rows, calling, grants, shown, timely>>

\* A key with no row is an ordinary one: there is nothing to tell the connector.
FindRow(r) ==
    /\ revoking[r].step = "row"
    /\ Turn(r, IF rows[revoking[r].key] = "none" THEN "done" ELSE "list")
    /\ UNCHANGED <<parked, deciding, keys, handles, rows, calling, grants, shown, timely>>

\* The connector lists the user's grants and picks those of the key: what every
\* listing shows, and of the rest what this one does (one deleted meanwhile may
\* still be there: deleting it again changes nothing).
ListGrants(r) ==
    /\ revoking[r].step = "list"
    /\ \E listed \in SUBSET {g \in grants : g.key = revoking[r].key} :
          /\ \A g \in grants \cap shown : g.key = revoking[r].key => g \in listed
          /\ revoking' = [revoking EXCEPT ![r].step = "delete", ![r].listed = listed]
    /\ UNCHANGED <<parked, deciding, keys, handles, rows, calling, grants, shown, timely>>

RevokeGrant(r, g) ==
    /\ revoking[r].step = "delete"
    /\ g \in revoking[r].listed
    /\ grants' = grants \ {g}
    /\ revoking' = [revoking EXCEPT ![r].listed = @ \ {g}]
    /\ UNCHANGED <<parked, deciding, keys, handles, rows, calling, shown, timely>>

\* Whatever the connector has done, its answer may be an error or come too late:
\* then the failure is an event, and the row stays in the backlog.
MutGone(r, answered) == rows' = [rows EXCEPT ![revoking[r].key] = "gone"]
Gone(r, answered) ==
    IF answered THEN rows' = [rows EXCEPT ![revoking[r].key] = "gone"] ELSE UNCHANGED rows

Record(r) ==
    /\ revoking[r].step \in {"list", "delete"}
    /\ \E answered \in BOOLEAN :
          /\ answered => revoking[r].step = "delete" /\ revoking[r].listed = {}
          /\ Gone(r, answered)
    /\ Turn(r, "done")
    /\ UNCHANGED <<parked, deciding, keys, handles, calling, grants, shown, timely>>

RevocationDies(r) ==
    /\ revoking[r].step \in {"row", "list", "delete"}
    /\ Turn(r, "done")
    /\ UNCHANGED <<parked, deciding, keys, handles, rows, calling, grants, shown, timely>>

Next ==
    \/ Purge
    \/ \E tx \in Txs : Authorize(tx) \/ ParkedExpires(tx) \/ \E d \in Decisions : Allow(d, tx)
    \/ \E d \in Decisions : InsertHandle(d) \/ UndoKey(d) \/ RecordRow(d) \/ DecisionDies(d)
    \/ \E h \in handles : HandleExpires(h)
    \/ \E g \in grants : KVShows(g)
    \/ \E c \in Callbacks :
          \/ \E d \in Decisions : ReadParked(c, d)
          \/ Unpark(c) \/ Exchange(c) \/ ExchangeRefused(c) \/ CompleteAuthorization(c) \/ CallbackDies(c)
    \/ \E r \in Revokers :
          \/ \E k \in Keys : RevokeKey(r, k)
          \/ FindRow(r) \/ ListGrants(r) \/ Record(r) \/ RevocationDies(r)
          \/ \E g \in Grants : RevokeGrant(r, g)

Spec == Init /\ [][Next]_vars

-----------------------------------------------------------------------------
(* Properties.                                                             *)

DecisionSteps == {"handle", "undo", "row", "answered", "done"}
CallbackSteps == {"unpark", "exchange", "complete", "done"}

TypeOK ==
    /\ parked \subseteq Txs
    /\ \A d \in Decisions : deciding[d] \in {[step |-> "new"]} \cup [step : DecisionSteps, tx : Txs]
    /\ keys \in [Keys -> {"none", "live", "revoked"}]
    /\ handles \subseteq [tx : Txs, key : Keys, expired : BOOLEAN]
    /\ rows \in [Keys -> {"none", "recorded", "gone"}]
    /\ \A c \in Callbacks : calling[c] \in {[step |-> "new"]} \cup [step : CallbackSteps, key : Keys]
    /\ grants \cup shown \subseteq Grants /\ timely \subseteq shown
    /\ \A r \in Revokers :
          \/ revoking[r] = [step |-> "new"]
          \/ revoking[r] \in [step : {"row", "list", "delete", "done"}, key : Keys,
                              listed : SUBSET Grants]
    /\ \A k \in Keys : keys[k] = "none" => HandleOf(k) = {} /\ rows[k] = "none"

\* A consent makes one connection at most, whatever is reloaded, sent twice or
\* answered late: no two grants carry one key.
OneGrantPerKey == \A g, h \in grants : g.key = h.key => g = h

\* Of a connection that was there when its key was revoked, made and listed
\* everywhere, no grant is left once it is recorded as gone, whichever of the
\* calls of this revocation or of another one failed or ended in between.
RecordedGone == \A g \in grants \cap timely : rows[g.key] # "gone"

=============================================================================
