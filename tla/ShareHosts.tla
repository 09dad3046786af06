------------------------------ MODULE ShareHosts ------------------------------
(***************************************************************************)
(* Which hostname a share is issued on, and which hostname serves it.      *)
(*                                                                         *)
(* The database decides the first inside create_share (schema/052), from   *)
(* the caller's choice and the account's default; the recipient-facing     *)
(* worker decides the second on every request, from two reads: the claim   *)
(* the request's hostname belongs to (resolveHost) and the share joined    *)
(* with its own domain (share_lookup, enforceStoredHost).  Claims move     *)
(* underneath both, as CustomDomains describes.                            *)
(***************************************************************************)
EXTENDS CustomDomains

CONSTANTS Shares,       \* ids of document_shares rows: bounds the shares made
          Visits,       \* requests of recipients in flight at once
          HandleLinks   \* TRUST_HANDLES: are handle links switched on?

ASSUME HandleLinksAssumption == HandleLinks \in BOOLEAN
\* A request's name is a customer's hostname or an account's handle, never both:
\* handles live under the service's own domain, which nobody can connect.
ASSUME NamesAssumption == Hostnames \cap Owners = {}

VARIABLES share,    \* the table document_shares: owner and address of each link
          making,   \* create_share calls in flight, and how they ended
          visit     \* recipients' requests in flight

allVars == <<dom, profile, cf, task, recorded, share, making, visit>>

(***************************************************************************)
(* An address is the apex, an account's handle label, or a custom domain.  *)
(* host_handle and custom_domain_id are never both set.  An account's      *)
(* handle is allocated once and never reused (schema/043), so the account  *)
(* stands for it.                                                          *)
(***************************************************************************)
Apex == [kind |-> "apex", of |-> None]
OnHandle(o) == [kind |-> "handle", of |-> o]
OnDomain(d) == [kind |-> "domain", of |-> d]
Addresses == {Apex} \cup {OnHandle(o) : o \in Owners} \cup {OnDomain(d) : d \in Domains}
AddressOf(d) == IF d = None THEN Apex ELSE OnDomain(d)

NoShare == [owner |-> None, at |-> Apex]
NotMaking == [step |-> "none", owner |-> None, choice |-> "none", dom |-> None]
NotVisiting == [step |-> "none", share |-> None, name |-> None, claim |-> None, served |-> FALSE]

-----------------------------------------------------------------------------
(***************************************************************************)
(* create_share.  Each of its statements sees what has been committed when *)
(* it starts, so a claim may move between them, and between the insert and *)
(* the commit that makes the share visible.                                *)
(***************************************************************************)
OwnLive(o, d) == dom[d].owner = o /\ dom[d].state = "live"

\* The host of the new share: the caller's domain, else the account's default,
\* unless the caller asked for the HTMLRadar address.
Chosen(o, choice) == CASE choice = "htmlradar" -> None
                       [] choice = "default"   -> profile[o].default
                       [] OTHER                -> choice

ChooseHost(s, o, choice) ==
    /\ making[s].step = "none"
    /\ profile[o].exists
    /\ LET d == Chosen(o, choice)
       IN  making' = [making EXCEPT ![s] = [step |-> IF choice = "default" /\ d # None THEN "implied" ELSE "chosen",
                                            owner |-> o, choice |-> choice, dom |-> d]]
    /\ UNCHANGED <<vars, share, visit>>

\* An implied choice that is not serving is refused by name, by a statement of
\* its own.
LookAtDefault(s) ==
    /\ making[s].step = "implied"
    /\ making' = [making EXCEPT ![s].step = IF OwnLive(making[s].owner, making[s].dom) THEN "chosen" ELSE "refused"]
    /\ UNCHANGED <<vars, share, visit>>

\* validate_share_host on INSERT
MutInsertOnAnyLive(o, d) == d = None \/ (dom[d].state = "live" /\ profile[o].eligible)
ShareAccepted(o, d) == d = None \/ (OwnLive(o, d) /\ profile[o].eligible)

InsertShare(s) ==
    LET m == making[s] IN
    /\ m.step = "chosen"
    /\ making' = [making EXCEPT ![s].step = IF profile[m.owner].exists /\ ShareAccepted(m.owner, m.dom)
                                              THEN "inserted" ELSE "refused"]
    /\ UNCHANGED <<vars, share, visit>>

CommitShare(s) ==
    LET m == making[s] IN
    /\ m.step = "inserted"
    /\ share' = [share EXCEPT ![s] = IF profile[m.owner].exists
                                       THEN [owner |-> m.owner, at |-> AddressOf(m.dom)] ELSE NoShare]
    /\ making' = [making EXCEPT ![s].step = IF HandleLinks THEN "stamping" ELSE "made"]
    /\ UNCHANGED <<vars, visit>>

\* validate_share_host on UPDATE: the address is frozen, null included.
AddressFrozen(old, new) == new = old

\* stampShareHost: after the commit, the application writes the account's
\* handle on the share, and makes nothing of a refusal.
StampShareHost(s) ==
    LET new == [share[s] EXCEPT !.at = OnHandle(making[s].owner)] IN
    /\ making[s].step = "stamping"
    /\ share' = IF share[s].owner # None /\ AddressFrozen(share[s].at, new.at)
                  THEN [share EXCEPT ![s] = new] ELSE share
    /\ making' = [making EXCEPT ![s].step = "made"]
    /\ UNCHANGED <<vars, visit>>

-----------------------------------------------------------------------------
(***************************************************************************)
(* The worker.  A request names a share and arrives on the apex (name is   *)
(* None), on a handle host (name is the account) or on another hostname.   *)
(***************************************************************************)

\* resolveHost: a fresh read of the claim the hostname belongs to.
Resolve(v, s, name) ==
    /\ visit[v].step # "resolved"
    /\ \/ /\ name \notin Hostnames
          /\ visit' = [visit EXCEPT ![v] = [NotVisiting EXCEPT !.step = "resolved", !.share = s, !.name = name]]
       \/ \E d \in Claims(name) :
            /\ dom[d].state = "live"
            /\ visit' = [visit EXCEPT ![v] = [NotVisiting EXCEPT !.step = "resolved", !.share = s,
                                                                 !.name = name, !.claim = d]]
    /\ UNCHANGED <<vars, share, making>>

MutServesStaleClaim(s, d) == /\ share[s].at = OnDomain(d)
                             /\ dom[d].owner = share[s].owner
\* The custom-host rule of enforceStoredHost: the share, its domain as joined
\* onto it now, and the claim read before must agree.
ServesOnClaim(s, d) == /\ share[s].at = OnDomain(d)
                       /\ dom[d].owner = share[s].owner
                       /\ dom[d].state = "live"

\* enforceStoredHost, after share_lookup.  An apex request for a handle link is
\* redirected while handle links are on and served in place while they are off.
Serves(v) ==
    LET s == visit[v].share
        name == visit[v].name
    IN  CASE name \in Hostnames -> ServesOnClaim(s, visit[v].claim)
          [] name \in Owners    -> share[s].at = OnHandle(name)
          [] OTHER              -> share[s].at = Apex \/ (share[s].at.kind = "handle" /\ ~HandleLinks)

Answer(v) ==
    /\ visit[v].step = "resolved"
    /\ visit' = [visit EXCEPT ![v].step = "answered",
                              ![v].served = share[visit[v].share].owner # None /\ Serves(v)]
    /\ UNCHANGED <<vars, share, making>>

-----------------------------------------------------------------------------
\* Links already sent are on the apex or on their account's handle.
HostInit == /\ Init
            /\ share \in [Shares -> {NoShare} \cup
                             {[owner |-> o, at |-> a] : o \in Owners, a \in {Apex} \cup {OnHandle(p) : p \in Owners}}]
            /\ \A s \in Shares : share[s].at.kind = "handle" => share[s].at.of = share[s].owner
            /\ making = [s \in Shares |-> IF share[s] = NoShare THEN NotMaking
                                                        ELSE [NotMaking EXCEPT !.step = "made"]]
            /\ visit = [v \in Visits |-> NotVisiting]

\* The account's links go with it.
ClaimStep == /\ Next
             /\ share' = [s \in Shares |-> IF share[s].owner # None /\ ~profile'[share[s].owner].exists
                                             THEN NoShare ELSE share[s]]
             /\ UNCHANGED <<making, visit>>

ShareStep == \E s \in Shares :
                \/ \E o \in Owners, choice \in {"default", "htmlradar"} \cup Domains : ChooseHost(s, o, choice)
                \/ LookAtDefault(s) \/ InsertShare(s) \/ CommitShare(s) \/ StampShareHost(s)

VisitStep == \E v \in Visits :
                \/ \E s \in Shares, name \in Hostnames \cup Owners \cup {None} : Resolve(v, s, name)
                \/ Answer(v)

HostNext == ClaimStep \/ ShareStep \/ VisitStep

HostSpec == HostInit /\ [][HostNext]_allVars

-----------------------------------------------------------------------------

\* A document is served on a customer's hostname only while that hostname's one
\* claim is live and belongs to the document's owner: no disconnect, takeover
\* or re-claim between the worker's two reads shows one customer's document on
\* another's name (resolveHost and enforceStoredHost).
ServedOnlyByHolder ==
    [][\A v \in Visits :
        (visit[v].step = "resolved" /\ visit'[v].served /\ visit[v].name \in Hostnames) =>
            /\ \E d \in Claims(visit[v].name) : dom[d].state = "live"
            /\ \A d \in Claims(visit[v].name) : dom[d].owner = share[visit[v].share].owner]_allVars

\* A link on a custom domain is on a domain of the account that made it, one
\* that has been live, whichever of its statements the domain moved under.
SharesOnOwnDomain ==
    \A s \in Shares : (share[s].owner # None /\ share[s].at.kind = "domain") =>
        /\ dom[share[s].at.of].owner = share[s].owner
        /\ dom[share[s].at.of].state \notin {"none", "pending"}

=============================================================================
