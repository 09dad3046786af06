---------------------------- MODULE CustomDomains ----------------------------
(***************************************************************************)
(* The life of a customer's own hostname.  Three writers share one table,  *)
(* custom_domains (schema/052), one column of profiles and one zone at     *)
(* Cloudflare:                                                             *)
(*   - the application's requests: connectDomain, checkDomain and          *)
(*     disconnectDomain (packages/app/src/lib/custom-domains.ts);          *)
(*   - the monitor's runs: settleDomain and sweepRetiredDomain             *)
(*     (packages/monitor/src/index.ts), which may overlap each other;      *)
(*   - the database's own triggers, on a tier change, a deleted profile or *)
(*     a re-claim that support approves.                                   *)
(* A request or a run is a sequence of awaited calls.  Every awaited call  *)
(* is one action here, and between two of them anything else may happen,   *)
(* including the death of the worker that was executing the sequence.      *)
(***************************************************************************)
EXTENDS Integers

CONSTANTS Owners,       \* accounts
          Hostnames,    \* customers' hostnames
          Domains,      \* ids of custom_domains rows: bounds the claims made
          Certs,        \* ids Cloudflare gives to custom hostnames: bounds the POSTs
          Stamps,       \* values of last_checked_at, other than null
          Requests,     \* application requests in flight at once
          Runs,         \* rows monitor runs are working on at once
          FailuresToDisconnect, \* DOMAIN_FAILURES_TO_DISCONNECT
          Ops,          \* the operations that are started
          None

ASSUME StampsAssumption == Stamps \subseteq Nat \ {0}
ASSUME BoundsAssumption == FailuresToDisconnect \in Nat \ {0}
ASSUME NoneAssumption == /\ None \notin Owners \cup Hostnames \cup Domains \cup Certs
                         /\ Requests \cap Runs = {}

VARIABLES dom,       \* the table custom_domains
          profile,   \* per account: does it exist, may it have a domain, its default
          cf,        \* Cloudflare's custom hostnames
          task,      \* the requests and runs in flight
          recorded   \* history: the last result a check wrote on the row

vars == <<dom, profile, cf, task, recorded>>

Tasks == Requests \cup Runs
Never == 0   \* last_checked_at is null

(***************************************************************************)
(* Rows.  `cert` is cloudflare_id, `swept` is cloudflare_deleted_at,       *)
(* `review` previous_owner_review, `approved` reclaim_approved_at, `fails` *)
(* consecutive_failures (never compared with more than the threshold, so   *)
(* it saturates there) and `seen` last_checked_at, which the code compares *)
(* for equality only once a row is due.  retired_at is set exactly when    *)
(* the state is "retired".  Columns nothing branches on are left out.      *)
(***************************************************************************)
NoRow == [owner |-> None, host |-> None, state |-> "none", cert |-> None, swept |-> FALSE,
          review |-> FALSE, approved |-> FALSE, fails |-> 0, seen |-> Never]

Rows == [owner : Owners \cup {None}, host : Hostnames \cup {None},
         state : {"none", "pending", "live", "disconnected", "retired"},
         cert : Certs \cup {None}, swept : BOOLEAN, review : BOOLEAN,
         approved : BOOLEAN, fails : 0..FailuresToDisconnect, seen : Stamps \cup {Never}]

Current(row) == row.state \in {"pending", "live", "disconnected"}
Strike(n) == IF n < FailuresToDisconnect THEN n + 1 ELSE n

\* The claims a hostname has: what the unique indexes and the proxy's
\* getCustomDomainByHostname select by (hostname, not retired).
Claims(h) == {d \in Domains : Current(dom[d]) /\ dom[d].host = h}
ClaimOfOwner(o) == {d \in Domains : Current(dom[d]) /\ dom[d].owner = o}

\* A check writes the time it started.  A stamp is only ever compared with the
\* same row's stamp as a run read it, for equality, so a fresh one is any that
\* neither the row nor such a reading holds; the least of them is taken.
Unused(d) == Stamps \ ({dom[d].seen} \cup {task[t].read.seen : t \in {u \in Runs : task[u].id = d}})
FreshStamps(d) == {s \in Unused(d) : \A r \in Unused(d) : s =< r}

\* validate_custom_domain on UPDATE: what it lets a writer turn a row into.
\* A refusal raises, and the statement changes nothing.
TriggerAccepts(old, new) == /\ old.state = "retired" => new.state = "retired"
                            /\ ~(new.review /\ new.state = "live")

(***************************************************************************)
(* Tasks                                                                   *)
(***************************************************************************)
\* What a task keeps of the row it read; owner and hostname never change.
NotRead == [state |-> "none", fails |-> 0, seen |-> Never]
ReadByRequest(row) == [state |-> row.state, fails |-> row.fails, seen |-> Never]
ReadByRun(row) == [state |-> row.state, fails |-> row.fails, seen |-> row.seen]

Idle == [op |-> "idle", step |-> "none", id |-> None, read |-> NotRead,
         cert |-> None, verdict |-> "none"]

TaskRecords == [op : {"idle", "connect", "check", "disconnect", "settle", "sweep"},
                step : {"none", "post", "find", "repost", "store", "giveback", "get", "probe",
                        "record", "default", "unset", "retire", "delete", "stamp"},
                id : Domains \cup {None},
                read : [state : {"none", "pending", "live", "disconnected", "retired"},
                        fails : 0..FailuresToDisconnect, seen : Stamps \cup {Never}],
                cert : Certs \cup {None},
                verdict : {"none", "unknown", "bad", "good"}]

MayStart(t, op) == task[t] = Idle /\ op \in Ops
Begin(t, op, step, d, read, cert) ==
    task' = [task EXCEPT ![t] = [op |-> op, step |-> step, id |-> d, read |-> read,
                                 cert |-> cert, verdict |-> "none"]]
Done(t) == task' = [task EXCEPT ![t] = Idle]
Goto(t, step) == task' = [task EXCEPT ![t].step = step]
GotoWith(t, step, c) == task' = [task EXCEPT ![t].step = step, ![t].cert = c]
Conclude(t, verdict) == task' = [task EXCEPT ![t].step = "record", ![t].cert = None,
                                             ![t].verdict = verdict]
\* What was read is not used any further.
Follow(t, step) == task' = [task EXCEPT ![t] = [Idle EXCEPT !.op = task[t].op, !.step = step,
                                                            !.id = task[t].id]]
At(t, ops, step) == task[t].op \in ops /\ task[t].step = step
OwnerOf(t) == dom[task[t].id].owner
HostOf(t) == dom[task[t].id].host

-----------------------------------------------------------------------------
(***************************************************************************)
(* Starting: the row is read once, and everything after it goes by that    *)
(* reading.                                                                *)
(***************************************************************************)

\* The insert of connectDomain, with validate_custom_domain's INSERT branch.
MutPreviousOwner(o, h) == \E d \in Claims(h) : dom[d].owner # o
PreviousOwner(o, h) == \E d \in Domains : dom[d].host = h /\ dom[d].owner # o

InsertAllowed(o, h) == /\ profile[o].eligible
                       /\ ClaimOfOwner(o) = {}
                       /\ Claims(h) = {}

StartConnect(t, o, h) ==
    /\ MayStart(t, "connect")
    /\ InsertAllowed(o, h)
    /\ \E d \in Domains :
         /\ dom[d] = NoRow
         /\ LET row == [NoRow EXCEPT !.owner = o, !.host = h, !.state = "pending",
                                     !.review = PreviousOwner(o, h)]
            IN  /\ dom' = [dom EXCEPT ![d] = row]
                /\ Begin(t, "connect", "post", d, ReadByRequest(row), None)
    /\ UNCHANGED <<profile, cf, recorded>>

\* readDomain and the first returns of the application's checkDomain.
StartCheck(t, d) ==
    /\ MayStart(t, "check")
    /\ Current(dom[d])
    /\ ~dom[d].review
    /\ Begin(t, "check", IF dom[d].cert = None THEN "post" ELSE "get", d,
             ReadByRequest(dom[d]), dom[d].cert)
    /\ UNCHANGED <<dom, profile, cf, recorded>>

StartDisconnect(t, d) ==
    /\ MayStart(t, "disconnect")
    /\ Current(dom[d])
    /\ Begin(t, "disconnect", "unset", d, NotRead, None)
    /\ UNCHANGED <<dom, profile, cf, recorded>>

\* domainLifecycle reads the whole table and works through it row by row; a row
\* is due when enough time has passed, which it may have whenever a run starts.
StartSettle(t, d) ==
    /\ MayStart(t, "settle")
    /\ Current(dom[d])
    /\ Begin(t, "settle", "get", d, ReadByRun(dom[d]), dom[d].cert)
    /\ UNCHANGED <<dom, profile, cf, recorded>>

MutSweepDueOnceStamped(row) == row.state = "retired" /\ row.cert # None /\ row.swept
SweepDue(row) == row.state = "retired" /\ row.cert # None /\ ~row.swept

StartSweep(t, d) ==
    /\ MayStart(t, "sweep")
    /\ SweepDue(dom[d])
    /\ Begin(t, "sweep", "delete", d, NotRead, dom[d].cert)
    /\ UNCHANGED <<dom, profile, cf, recorded>>

-----------------------------------------------------------------------------
(***************************************************************************)
(* createOrAdoptHostname and storeHostnameId                               *)
(***************************************************************************)
Register(c, h) == /\ cf[c].host = None
                  /\ cf' = [cf EXCEPT ![c] = [host |-> h, held |-> TRUE]]

\* A POST that failed may have been carried out all the same.
PostLost(h) == UNCHANGED cf \/ \E c \in Certs : Register(c, h)

Post(t) ==
    /\ At(t, {"connect", "check"}, "post")
    /\ \/ \E c \in Certs : Register(c, HostOf(t)) /\ GotoWith(t, "store", c)
       \/ PostLost(HostOf(t)) /\ Goto(t, "find")
    /\ UNCHANGED <<dom, profile, recorded>>

\* findHostname: a lookup that fails and one that finds nothing read the same.
Find(t) ==
    /\ At(t, {"connect", "check"}, "find")
    /\ \/ \E c \in Certs : /\ cf[c].held /\ cf[c].host = HostOf(t)
                           /\ GotoWith(t, "store", c)
       \/ Goto(t, "repost")
    /\ UNCHANGED <<dom, profile, cf, recorded>>

Repost(t) ==
    /\ At(t, {"connect", "check"}, "repost")
    /\ \/ \E c \in Certs : Register(c, HostOf(t)) /\ GotoWith(t, "store", c)
       \/ PostLost(HostOf(t)) /\ Conclude(t, "unknown")
    /\ UNCHANGED <<dom, profile, recorded>>

\* The condition every write of the application states: the row is where it was.
MutStillThere(t) == TRUE
StillThere(t) == dom[task[t].id].state = task[t].read.state

StoreId(t) ==
    LET d == task[t].id IN
    IF task[t].op = "connect"
      THEN \E s \in FreshStamps(d) : dom' = [dom EXCEPT ![d].cert = task[t].cert, ![d].seen = s]
      ELSE dom' = [dom EXCEPT ![d].cert = task[t].cert]

\* A row that is not there, and a write that failed or was not heard of, are the
\* same to storeHostnameId: the certificate is given back.
Store(t) ==
    /\ At(t, {"connect", "check"}, "store")
    /\ \/ /\ StillThere(t) /\ StoreId(t)
          /\ IF task[t].op = "connect" THEN Done(t) ELSE Goto(t, "get")
       \/ /\ UNCHANGED dom \/ (StillThere(t) /\ StoreId(t))
          /\ Goto(t, "giveback")
    /\ UNCHANGED <<profile, cf, recorded>>

\* deleteHostname, tried twice: all that is known afterwards is that Cloudflare
\* confirmed the delete, or that it may or may not have carried it out.
Delete(c) == cf' = [cf EXCEPT ![c].held = FALSE]
DeleteUnconfirmed(c) == UNCHANGED cf \/ Delete(c)

Giveback(t) ==
    /\ At(t, {"connect", "check"}, "giveback")
    /\ DeleteUnconfirmed(task[t].cert)
    /\ Done(t)
    /\ UNCHANGED <<dom, profile, recorded>>

-----------------------------------------------------------------------------
(***************************************************************************)
(* checkDomain, the application's and the monitor's: what Cloudflare says  *)
(* about the hostname, then what the hostname itself answers.              *)
(***************************************************************************)

\* A hostname Cloudflare no longer has answers 404, which is no news about the
\* customer's DNS; an answer that is not "active" is, and so is a row with no
\* Cloudflare id, which the monitor does not ask about.
Get(t) ==
    LET c == task[t].cert IN
    /\ At(t, {"check", "settle"}, "get")
    /\ \/ c # None /\ Conclude(t, "unknown")
       \/ c = None /\ Conclude(t, "bad")
       \/ c # None /\ cf[c].held /\ (Conclude(t, "bad") \/ Goto(t, "probe"))
    /\ UNCHANGED <<dom, profile, cf, recorded>>

\* The probe passes only when our worker answers with this very row's id.
Probe(t) ==
    /\ At(t, {"check", "settle"}, "probe")
    /\ \/ Conclude(t, "bad")
       \/ task[t].id \in Claims(HostOf(t)) /\ Conclude(t, "good")
    /\ UNCHANGED <<dom, profile, cf, recorded>>

\* What the check's write makes of the row, apart from the new stamp.
Promoted(row) == [row EXCEPT !.state = "live", !.fails = 0]

Note(t, verdict) == recorded' = [recorded EXCEPT ![task[t].id] =
                                    IF verdict = "unknown" THEN @ ELSE verdict]

\* The application's three writes: promotion, one more failure, no news.
RecordByRequest(t) ==
    LET d == task[t].id
        v == task[t].verdict
    IN
    /\ At(t, {"connect", "check"}, "record")
    /\ IF StillThere(t) /\ (v = "good" => TriggerAccepts(dom[d], Promoted(dom[d])))
         THEN /\ \E s \in FreshStamps(d) :
                   dom' = [dom EXCEPT ![d] =
                      CASE v = "good"    -> [Promoted(@) EXCEPT !.seen = s]
                        [] v = "bad"     -> [@ EXCEPT !.fails = Strike(task[t].read.fails), !.seen = s]
                        [] v = "unknown" -> [@ EXCEPT !.seen = s]]
              /\ Note(t, v)
              /\ IF v = "good" THEN Follow(t, "default") ELSE Done(t)
         ELSE Done(t) /\ UNCHANGED <<dom, recorded>>
    /\ UNCHANGED <<profile, cf>>

\* patchDomain names the state and the last_checked_at that were read.
MutUnmovedState(t) == StillThere(t)
Unmoved(t) == StillThere(t) /\ dom[task[t].id].seen = task[t].read.seen

\* A live row falls over at the second failure; a pending row is never counted.
Failed(row, fails) ==
    IF row.state = "pending" THEN row
    ELSE [row EXCEPT !.fails = Strike(fails),
                     !.state = IF row.state = "live" /\ Strike(fails) >= FailuresToDisconnect
                                 THEN "disconnected" ELSE row.state]

RecordByRun(t) ==
    LET d == task[t].id
        v == task[t].verdict
        falls == v = "bad" /\ Failed(dom[d], task[t].read.fails).state # dom[d].state
    IN
    /\ At(t, {"settle"}, "record")
    /\ IF Unmoved(t) /\ (v = "good" => TriggerAccepts(dom[d], Promoted(dom[d])))
         THEN /\ \E s \in FreshStamps(d) :
                   dom' = [dom EXCEPT ![d] =
                      CASE v = "good"    -> [Promoted(@) EXCEPT !.seen = s]
                        [] v = "bad"     -> [Failed(@, task[t].read.fails) EXCEPT !.seen = s]
                        [] v = "unknown" -> [@ EXCEPT !.seen = s]]
              /\ Note(t, v)
              /\ CASE v = "good" -> Follow(t, "default")
                   [] falls      -> Follow(t, "unset")
                   [] OTHER      -> Done(t)
         ELSE Done(t) /\ UNCHANGED <<dom, recorded>>
    /\ UNCHANGED <<profile, cf>>

-----------------------------------------------------------------------------
(***************************************************************************)
(* profiles.default_custom_domain_id                                       *)
(***************************************************************************)

\* validate_profile_default_domain: a default the account may not have becomes
\* null without a word; one that is not a live domain of its own raises.
MutDefaultForAnyTier(o, d) == d
DefaultWritten(o, d) == IF profile[o].eligible THEN d ELSE None

DefaultAccepted(o, d) == \/ ~profile[o].eligible
                         \/ profile[o].default = d
                         \/ dom[d].owner = o /\ dom[d].state = "live"

SetDefault(o, d) == profile' = [profile EXCEPT ![o].default = DefaultWritten(o, d)]

\* checkDomain sets the default whatever it was.
DefaultByRequest(t) ==
    LET o == OwnerOf(t) IN
    /\ At(t, {"check"}, "default")
    /\ IF profile[o].exists /\ DefaultAccepted(o, task[t].id)
         THEN SetDefault(o, task[t].id) ELSE UNCHANGED profile
    /\ Done(t)
    /\ UNCHANGED <<dom, cf, recorded>>

\* finishPromotion sets it only where there is none (and then announces it).
FinishPromotion(t) ==
    LET o == OwnerOf(t)
        d == task[t].id
    IN
    /\ At(t, {"settle"}, "default")
    /\ IF profile[o].exists /\ profile[o].default = None /\ DefaultAccepted(o, d)
         THEN SetDefault(o, d) ELSE UNCHANGED profile
    /\ Done(t)
    /\ UNCHANGED <<dom, cf, recorded>>

\* Both disconnects clear the default where it is this domain; the customer's
\* does so before it retires the row, the monitor's after the row has fallen.
\* Neither looks at what became of it, and goes on.
Unset(t) ==
    LET o == OwnerOf(t) IN
    /\ At(t, {"disconnect", "settle"}, "unset")
    /\ \/ /\ profile[o].default = task[t].id
          /\ profile' = [profile EXCEPT ![o].default = None]
       \/ UNCHANGED profile
    /\ IF task[t].op = "disconnect" THEN Goto(t, "retire") ELSE Done(t)
    /\ UNCHANGED <<dom, cf, recorded>>

-----------------------------------------------------------------------------
(***************************************************************************)
(* disconnectDomain after the default, and sweepRetiredDomain              *)
(***************************************************************************)
Retired(row) == [row EXCEPT !.state = "retired"]

Retire(t) ==
    LET d == task[t].id IN
    /\ At(t, {"disconnect"}, "retire")
    /\ IF Current(dom[d])
         THEN /\ dom' = [dom EXCEPT ![d] = Retired(@)]
              /\ IF dom[d].cert = None THEN Done(t) ELSE GotoWith(t, "delete", dom[d].cert)
         ELSE Done(t) /\ UNCHANGED dom
    /\ UNCHANGED <<profile, cf, recorded>>

\* A delete nobody confirmed leaves the row unstamped, for the next sweep.
MutStampedAnyway(t) == Goto(t, "stamp")
LeftForTheSweep(t) == Done(t)

DeleteConfirmed(t) ==
    /\ At(t, {"disconnect", "sweep"}, "delete")
    /\ Delete(task[t].cert)
    /\ Goto(t, "stamp")
    /\ UNCHANGED <<dom, profile, recorded>>

DeleteFailed(t) ==
    /\ At(t, {"disconnect", "sweep"}, "delete")
    /\ DeleteUnconfirmed(task[t].cert)
    /\ LeftForTheSweep(t)
    /\ UNCHANGED <<dom, profile, recorded>>

\* The stamp follows a confirmed delete; the sweep's is conditional on a row
\* that is still retired and unswept, the request's only on the row's owner.
Stamp(t) ==
    LET d == task[t].id IN
    /\ At(t, {"disconnect", "sweep"}, "stamp")
    /\ dom' = IF task[t].op = "sweep" /\ (dom[d].state # "retired" \/ dom[d].swept)
                THEN dom ELSE [dom EXCEPT ![d].swept = TRUE]
    /\ Done(t)
    /\ UNCHANGED <<profile, cf, recorded>>

\* A request or a run dies between two of its calls.
Crash(t) ==
    /\ task[t] # Idle
    /\ Done(t)
    /\ UNCHANGED <<dom, profile, cf, recorded>>

-----------------------------------------------------------------------------
(***************************************************************************)
(* The database's own transitions                                          *)
(***************************************************************************)

\* A tier or comped change; the trigger on profiles drops the default with it.
ChangeTier(o) ==
    /\ "tier" \in Ops
    /\ profile[o].exists
    /\ profile' = [profile EXCEPT ![o].eligible = ~@, ![o].default = IF profile[o].eligible THEN None ELSE @]
    /\ UNCHANGED <<dom, cf, task, recorded>>

\* release_custom_domains: the profile is gone; the claim is not.
DeleteProfile(o) ==
    /\ "delete" \in Ops
    /\ profile[o].exists
    /\ profile' = [profile EXCEPT ![o] = [exists |-> FALSE, eligible |-> FALSE, default |-> None]]
    /\ dom' = [d \in Domains |-> IF dom[d].owner = o THEN Retired(dom[d]) ELSE dom[d]]
    /\ UNCHANGED <<cf, task, recorded>>

\* approve_custom_domain_reclaim
Approve(d) ==
    /\ "approve" \in Ops
    /\ dom[d].review
    /\ dom' = [dom EXCEPT ![d].review = FALSE, ![d].approved = TRUE]
    /\ UNCHANGED <<profile, cf, task, recorded>>

-----------------------------------------------------------------------------
Init == /\ dom = [d \in Domains |-> NoRow]
        /\ profile \in [Owners -> [exists : {TRUE}, eligible : BOOLEAN, default : {None}]]
        /\ cf = [c \in Certs |-> [host |-> None, held |-> FALSE]]
        /\ task = [t \in Tasks |-> Idle]
        /\ recorded = [d \in Domains |-> "none"]

StartRequest(t) == \/ \E o \in Owners, h \in Hostnames : StartConnect(t, o, h)
                   \/ \E d \in Domains : StartCheck(t, d) \/ StartDisconnect(t, d)

StartRun(t) == \E d \in Domains : StartSettle(t, d) \/ StartSweep(t, d)

Continue(t) == \/ Post(t) \/ Find(t) \/ Repost(t) \/ Store(t) \/ Giveback(t)
               \/ Get(t) \/ Probe(t) \/ RecordByRequest(t) \/ RecordByRun(t)
               \/ DefaultByRequest(t) \/ FinishPromotion(t) \/ Unset(t)
               \/ Retire(t) \/ DeleteConfirmed(t) \/ DeleteFailed(t) \/ Stamp(t)

Database == \/ \E o \in Owners : ChangeTier(o) \/ DeleteProfile(o)
            \/ \E d \in Domains : Approve(d)

Next == \/ \E t \in Requests : StartRequest(t)
        \/ \E t \in Runs : StartRun(t)
        \/ \E t \in Tasks : Continue(t) \/ Crash(t)
        \/ Database

Spec == Init /\ [][Next]_vars

\* The cron comes round for ever: a row that stays unswept is picked up again,
\* every call of a run ends by answer or timeout, and although any run may die
\* or be refused, not every one of them is at the same call.
SweepFairness == \A t \in Runs :
                    /\ WF_vars(Continue(t))
                    /\ \A d \in Domains : SF_vars(StartSweep(t, d))
                    /\ SF_vars(DeleteConfirmed(t))
                    /\ SF_vars(Stamp(t))
FairSpec == Spec /\ SweepFairness

-----------------------------------------------------------------------------
TypeOK == /\ dom \in [Domains -> Rows]
          /\ profile \in [Owners -> [exists : BOOLEAN, eligible : BOOLEAN,
                                     default : Domains \cup {None}]]
          /\ cf \in [Certs -> [host : Hostnames \cup {None}, held : BOOLEAN]]
          /\ task \in [Tasks -> TaskRecords]
          /\ recorded \in [Domains -> {"none", "bad", "good"}]

\* A live hostname that another account held before has been approved by
\* support, however claims, disconnects, deletions of the earlier account and
\* late checks interleave (validate_custom_domain's re-claim review).
TakeoverApproved ==
    \A d, e \in Domains :
        (dom[d].state = "live" /\ dom[e].host = dom[d].host /\ dom[e].owner # dom[d].owner)
            => dom[d].approved

\* A hostname has one claim and an account has one claim, whoever is connecting,
\* disconnecting or being deleted at the moment.
OneClaim == /\ \A h \in Hostnames : \A d, e \in Claims(h) : d = e
            /\ \A o \in Owners : \A d, e \in ClaimOfOwner(o) : d = e

\* An account that may not have a domain has no default, and a default is the
\* account's own row, one that has been live (validate_profile_default_domain).
DefaultOwnAndEntitled ==
    \A o \in Owners : profile[o].default # None =>
        /\ profile[o].eligible
        /\ dom[profile[o].default].owner = o
        /\ dom[profile[o].default].state \notin {"none", "pending"}

\* cloudflare_deleted_at is written only on a retired row and only once the
\* hostname it names is gone: an unswept row never loses its retry.
SweptIsGone == \A d \in Domains : dom[d].swept =>
                   /\ dom[d].state = "retired"
                   /\ dom[d].cert # None
                   /\ ~cf[dom[d].cert].held

\* "Two in a row is a fact": a live row is disconnected only if the result
\* recorded before this one was a failure too, whatever checks overlapped.
TwoStrikes ==
    [][\A d \in Domains : (dom[d].state = "live" /\ dom'[d].state = "disconnected")
            => recorded[d] = "bad" /\ recorded'[d] = "bad"]_vars

\* A retired row is left alone by every check and every store that started
\* before it was retired: only its sweep stamp and a reclaim approval move.
RetiredUntouched ==
    [][\A d \in Domains : dom[d].state = "retired" =>
          /\ dom'[d] = [dom[d] EXCEPT !.swept = dom'[d].swept, !.review = dom'[d].review,
                                      !.approved = dom'[d].approved]
          /\ dom[d].swept => dom'[d].swept]_vars

\* A hostname the customer gave up is eventually confirmed gone at Cloudflare,
\* even when the disconnect's own delete failed or its request died.
EventuallySwept ==
    \A d \in Domains : (dom[d].state = "retired" /\ dom[d].cert # None) ~> dom[d].swept

=============================================================================
