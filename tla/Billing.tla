------------------------------- MODULE Billing --------------------------------
(***************************************************************************)
(* Who is on Pro: the Polar webhook                                        *)
(* (packages/app/src/app/api/webhooks/polar/route.ts, lib/payments.ts) and *)
(* the expiry sweep of the 5-minute cron (packages/monitor/src/index.ts),  *)
(* both writing profiles.tier and profiles.pro_until.                      *)
(*                                                                         *)
(* Polar changes a subscription and announces it with an event, which it   *)
(* delivers until it hears a 200: late, more than once, in any order.      *)
(* Every delivery runs a handler, a sequence of awaited calls, and         *)
(* deliveries overlap.  Time is in units a renewal period is made of; 0    *)
(* stands for NULL in a timestamp.                                         *)
(***************************************************************************)
EXTENDS Integers, Sequences, FiniteSets

CONSTANTS Accounts,      \* profiles
          Subscriptions, \* Polar subscriptions: bounds how often one is started
          Handlers,      \* deliveries being handled at once
          Runs,          \* runs of the cron at once
          Periods,       \* lengths of the billing periods sold
          Grace,         \* EXPIRY_GRACE_MS
          MaxEvents,     \* bound on the events Polar emits
          MaxTime,       \* bound on the clock
          None

ASSUME BillingAssumption == /\ Periods \subseteq Nat \ {0}
                            /\ Grace \in Nat
                            /\ MaxEvents \in Nat
                            /\ MaxTime \in Nat
                            /\ None \notin Accounts \cup Subscriptions

VARIABLES now,      \* the clock
          sub,      \* Polar: the subscriptions
          event,    \* Polar: the events emitted so far; an event's id is its place
          acked,    \* Polar: the events it has heard a 200 for
          log,      \* the table webhook_events_log
          profile,  \* tier, pro_until and comped of each account
          task,     \* deliveries being handled
          run,      \* where each run is: idle, before the health check, before the sweep
          applied,  \* history: the events written to the profile, set aside for a comped one, or
                    \* seen to by the operator
          mixed     \* history: accounts one of whose deliveries overlapped or overtook another, or
                    \* was settled by hand

vars == <<now, sub, event, acked, log, profile, task, run, applied, mixed>>
polarVars == <<sub, event>>
history == <<applied, mixed>>

Times == 0..MaxTime
EventIds == 1..MaxEvents
Statuses == {"active", "past_due", "canceled", "unpaid"}
PRO_STATUSES == {"active", "past_due", "canceled"}

SubscriptionRecords == [account : Accounts, status : Statuses, end : Times, ended : Times]
NoSubscription == [account |-> None, status |-> "none", end |-> 0, ended |-> 0]
Events == [kind : {"subscription", "order"}, id : Subscriptions, as : SubscriptionRecords]
NoEvent == [claimed |-> FALSE, processed |-> FALSE, error |-> FALSE]
Updates == [tier : {"free", "pro"}, until : Times]
Idle == [step |-> "idle", e |-> 0, as |-> NoSubscription, update |-> [tier |-> "free", until |-> 0]]
TaskRecords == [step : {"idle", "claim", "prior", "resolve", "read", "write", "stamp", "fail"},
                e : 0..MaxEvents, as : SubscriptionRecords \cup {NoSubscription}, update : Updates]

AccountOf(e) == event[e].as.account
EventsOf(a) == {e \in DOMAIN event : AccountOf(e) = a}

-----------------------------------------------------------------------------
(***************************************************************************)
(* Polar (external)                                                        *)
(***************************************************************************)

\* Every change of a subscription is announced.
Emit(s, as, kind) ==
    /\ Len(event) < MaxEvents
    /\ sub' = [sub EXCEPT ![s] = as]
    /\ event' = Append(event, [kind |-> kind, id |-> s, as |-> as])
    /\ UNCHANGED <<now, acked, log, profile, task, run, history>>

Running(s) == sub[s] # NoSubscription /\ sub[s].ended = 0

\* /upgrade offers a checkout to an account on free.
Subscribe(a, s, p, kind) ==
    /\ profile[a].tier = "free"
    /\ sub[s] = NoSubscription
    /\ \A t \in Subscriptions : sub[t].account = a => ~Running(t)
    /\ now + p <= MaxTime
    /\ Emit(s, [account |-> a, status |-> "active", end |-> now + p, ended |-> 0], kind)

\* The period is over and the card was charged for the next one.
Renew(s, p, kind) ==
    /\ Running(s) /\ sub[s].status \in {"active", "past_due"}
    /\ now >= sub[s].end /\ sub[s].end + p <= MaxTime
    /\ Emit(s, [sub[s] EXCEPT !.status = "active", !.end = @ + p], kind)

\* A switch to a longer plan starts a period at once.
Switch(s, p, kind) ==
    /\ Running(s) /\ sub[s].status = "active"
    /\ now + p > sub[s].end /\ now + p <= MaxTime /\ now < sub[s].end
    /\ Emit(s, [sub[s] EXCEPT !.end = now + p], kind)

\* The charge failed, the customer cancelled at period end, or gave that up;
\* Polar stopped charging without an end date.
Change(s, status) ==
    /\ Running(s)
    /\ <<sub[s].status, status>> \in {<<"active", "past_due">>, <<"active", "canceled">>,
                                      <<"canceled", "active">>, <<"past_due", "unpaid">>}
    /\ Emit(s, [sub[s] EXCEPT !.status = status], "subscription")

\* subscription.revoked: status canceled, ended_at the moment access was cut.
Revoke(s) ==
    /\ Running(s) /\ now > 0
    /\ Emit(s, [sub[s] EXCEPT !.status = "canceled", !.ended = now], "subscription")

-----------------------------------------------------------------------------
(***************************************************************************)
(* One delivery of an event: POST                                          *)
(***************************************************************************)

\* What a handler holds beyond its event is used at "read" and "write" only.
Goto(h, step) == task' = [task EXCEPT ![h] = [Idle EXCEPT !.step = step, !.e = task[h].e]]
Done(h) == task' = [task EXCEPT ![h] = Idle]

\* Polar delivers, or delivers again, what it has not heard a 200 for.
Deliver(h, e) ==
    /\ task[h] = Idle
    /\ e \in DOMAIN event /\ ~acked[e]
    /\ task' = [task EXCEPT ![h] = [Idle EXCEPT !.step = "claim", !.e = e]]
    /\ LET a == AccountOf(e)
           others == {g \in Handlers : task[g] # Idle /\ AccountOf(task[g].e) = a}
           earlier == {d \in EventsOf(a) : d < e /\ ~acked[d]}
       IN mixed' = IF others \cup earlier = {} THEN mixed ELSE mixed \cup {a}
    /\ UNCHANGED <<now, polarVars, acked, log, profile, run, applied>>

\* The insert of the event's row: it is new, it is there already, or the
\* insert failed, perhaps after the row was written (answered with a 500).
Claim(h) ==
    LET e == task[h].e
    IN /\ task[h].step = "claim"
       /\ \/ /\ ~log[e].claimed
             /\ log' = [log EXCEPT ![e].claimed = TRUE]
             /\ Goto(h, "resolve") \/ Done(h)
          \/ /\ log[e].claimed
             /\ UNCHANGED log
             /\ Goto(h, "prior")
          \/ /\ UNCHANGED log
             /\ Done(h)
       /\ UNCHANGED <<now, polarVars, acked, profile, run, history>>

\* mutant: a claim is enough to call a delivery a duplicate.
MutFinished(e) == log[e].claimed

\* An earlier delivery dealt with the event: it claimed it and finished.
Finished(e) == log[e].processed

\* The row was there.  A finished event is answered 200 (which Polar may miss);
\* one that is not, or whose row could not be read, is handled again.
Prior(h, heard) ==
    LET e == task[h].e
    IN /\ task[h].step = "prior"
       /\ \/ /\ Finished(e)
             /\ acked' = [acked EXCEPT ![e] = @ \/ heard]
             /\ Done(h)
          \/ /\ UNCHANGED acked
             /\ Goto(h, "resolve")
       /\ UNCHANGED <<now, polarVars, log, profile, run, history>>

\* resolveProfileId, and for an order the GET of its subscription as it is now.
\* No customer, no profile or no answer throws.
Resolve(h) ==
    LET e == task[h].e
    IN /\ task[h].step = "resolve"
       /\ \/ task' = [task EXCEPT ![h].step = "read",
                                  ![h].as = IF event[e].kind = "order" THEN sub[event[e].id]
                                            ELSE event[e].as]
          \/ Goto(h, "fail")
       /\ UNCHANGED <<now, polarVars, acked, log, profile, run, history>>

PeriodStillActive(s) == s.end > now
AlreadyEnded(s) == s.ended # 0 /\ s.ended <= now
GrantsPro(s) == s.status \in PRO_STATUSES /\ PeriodStillActive(s) /\ ~AlreadyEnded(s)

\* mutant: the comparison reversed.
MutLaterOf(incoming, stored) == IF incoming >= stored THEN stored ELSE incoming

\* pro_until is non-shrinking, when the subscription grants Pro.
LaterOf(incoming, stored) == IF incoming >= stored THEN incoming ELSE stored

\* computeTierUpdate
ComputeTierUpdate(s, stored) ==
    IF GrantsPro(s) THEN [tier |-> "pro", until |-> LaterOf(s.end, stored)]
    ELSE [tier |-> "free", until |-> IF s.ended # 0 THEN s.ended ELSE s.end]

\* applySubscription, the read: a comped account is left alone.
Read(h) ==
    LET p == profile[task[h].as.account]
    IN /\ task[h].step = "read"
       /\ \/ /\ ~p.comped
             /\ task' = [task EXCEPT ![h].step = "write",
                                     ![h].update = ComputeTierUpdate(task[h].as, p.until)]
             /\ UNCHANGED applied
          \/ /\ p.comped
             /\ Goto(h, "stamp")
             /\ applied' = applied \cup {task[h].e}
          \/ /\ Goto(h, "fail")
             /\ UNCHANGED applied
       /\ UNCHANGED <<now, polarVars, acked, log, profile, run, mixed>>

\* mutant: the UPDATE is keyed on the id alone.
MutUpdatable(a) == TRUE

\* The UPDATE's filter carries the exemption too.
Updatable(a) == ~profile[a].comped

\* applySubscription, the write: it lands, it does not, or it lands and the
\* handler is told it failed.
Write(h) ==
    LET a == task[h].as.account
        update == task[h].update
    IN /\ task[h].step = "write"
       /\ \/ /\ profile' = IF Updatable(a)
                           THEN [profile EXCEPT ![a].tier = update.tier, ![a].until = update.until]
                           ELSE profile
             /\ Goto(h, "stamp") \/ Goto(h, "fail")
             /\ applied' = applied \cup {task[h].e}
          \/ /\ Goto(h, "fail")
             /\ UNCHANGED <<profile, applied>>
       /\ UNCHANGED <<now, polarVars, acked, log, run, mixed>>

\* processed_at, whose failure goes unnoticed, and the 200.
Stamp(h, stamped, heard) ==
    LET e == task[h].e
    IN /\ task[h].step = "stamp"
       /\ log' = [log EXCEPT ![e].processed = @ \/ stamped]
       /\ acked' = [acked EXCEPT ![e] = @ \/ heard]
       /\ Done(h)
       /\ UNCHANGED <<now, polarVars, profile, run, history>>

\* The catch: error is written, perhaps, and Polar is answered 500.
Fail(h, noted) ==
    /\ task[h].step = "fail"
    /\ log' = [log EXCEPT ![task[h].e].error = @ \/ noted]
    /\ Done(h)
    /\ UNCHANGED <<now, polarVars, acked, profile, run, history>>

\* The isolate is gone, or a write of the catch threw.
Crash(h) ==
    /\ task[h].step # "idle"
    /\ Done(h)
    /\ UNCHANGED <<now, polarVars, acked, log, profile, run, history>>

-----------------------------------------------------------------------------
(***************************************************************************)
(* The cron, checks 3 and 4, and the operator                              *)
(***************************************************************************)

StartRun(r) ==
    /\ run[r] = "idle"
    /\ run' = [run EXCEPT ![r] = "health"]
    /\ UNCHANGED <<now, polarVars, acked, log, profile, task, history>>

\* mutant: an error pages although a retry finished the event.
MutFailing == {e \in DOMAIN event : log[e].error}

\* The rows checkWebhookHealth pages for.
Failing == {e \in DOMAIN event : log[e].error /\ ~log[e].processed}

Healthy(r) ==
    /\ run[r] = "health" /\ Failing = {}
    /\ run' = [run EXCEPT ![r] = "sweep"]
    /\ UNCHANGED <<now, polarVars, acked, log, profile, task, history>>

\* A failing event, or a table that could not be read, holds the sweep; a
\* sweep that fails is left to the next run.
Hold(r) ==
    /\ run[r] # "idle"
    /\ run' = [run EXCEPT ![r] = "idle"]
    /\ UNCHANGED <<now, polarVars, acked, log, profile, task, history>>

Lapsed(p) == p.tier = "pro" /\ ~p.comped /\ p.until # 0 /\ p.until < now - Grace

\* expirePro: one UPDATE for all lapsed accounts.
ExpirePro(r) ==
    /\ run[r] = "sweep"
    /\ profile' = [a \in Accounts |-> IF Lapsed(profile[a]) THEN [profile[a] EXCEPT !.tier = "free"]
                                      ELSE profile[a]]
    /\ run' = [run EXCEPT ![r] = "idle"]
    /\ UNCHANGED <<now, polarVars, acked, log, task, history>>

\* The operator clears the error of a row after fixing the cause.
ClearError(e) ==
    /\ e \in Failing
    /\ log' = [log EXCEPT ![e].error = FALSE]
    /\ UNCHANGED <<now, polarVars, acked, profile, task, run, history>>

\* Or stamps it processed, having seen to the account by hand: a redelivery is
\* answered as a duplicate, and the account is no longer Polar's word alone.
StampByHand(e) ==
    /\ e \in Failing
    /\ log' = [log EXCEPT ![e].processed = TRUE]
    /\ applied' = applied \cup {e}
    /\ mixed' = mixed \cup {AccountOf(e)}
    /\ UNCHANGED <<now, polarVars, acked, profile, task, run>>

\* schema/032, run by the operator
Comp(a) ==
    /\ ~profile[a].comped
    /\ profile' = [profile EXCEPT ![a].comped = TRUE, ![a].tier = "pro"]
    /\ UNCHANGED <<now, polarVars, acked, log, task, run, history>>

Tick ==
    /\ now < MaxTime
    /\ now' = now + 1
    /\ UNCHANGED <<polarVars, acked, log, profile, task, run, history>>

-----------------------------------------------------------------------------

Init ==
    /\ now = 0
    /\ sub = [s \in Subscriptions |-> NoSubscription]
    /\ event = <<>>
    /\ acked = [e \in EventIds |-> FALSE]
    /\ log = [e \in EventIds |-> NoEvent]
    /\ profile = [a \in Accounts |-> [tier |-> "free", until |-> 0, comped |-> FALSE]]
    /\ task = [h \in Handlers |-> Idle]
    /\ run = [r \in Runs |-> "idle"]
    /\ applied = {}
    /\ mixed = {}

Polar ==
    \E s \in Subscriptions :
        \/ \E p \in Periods, kind \in {"subscription", "order"} :
               \/ \E a \in Accounts : Subscribe(a, s, p, kind)
               \/ Renew(s, p, kind)
               \/ Switch(s, p, kind)
        \/ \E status \in Statuses : Change(s, status)
        \/ Revoke(s)

Handle(h) ==
    \/ \E e \in EventIds : Deliver(h, e)
    \/ Claim(h)
    \/ \E heard \in BOOLEAN : Prior(h, heard)
    \/ Resolve(h)
    \/ Read(h)
    \/ Write(h)
    \/ \E stamped, heard \in BOOLEAN : Stamp(h, stamped, heard)
    \/ \E noted \in BOOLEAN : Fail(h, noted)
    \/ Crash(h)

Cron(r) == StartRun(r) \/ Healthy(r) \/ Hold(r) \/ ExpirePro(r)
Operator == (\E e \in EventIds : ClearError(e) \/ StampByHand(e)) \/ (\E a \in Accounts : Comp(a))

Next ==
    \/ Polar
    \/ \E h \in Handlers : Handle(h)
    \/ \E r \in Runs : Cron(r)
    \/ Operator
    \/ Tick

Spec == Init /\ [][Next]_vars

\* The cron keeps running, and neither of its calls fails every time.
FairSpec ==
    /\ Spec
    /\ \A r \in Runs : WF_vars(StartRun(r)) /\ SF_vars(Healthy(r)) /\ SF_vars(ExpirePro(r))

-----------------------------------------------------------------------------
(***************************************************************************)
(* Properties                                                              *)
(***************************************************************************)

\* Types; a row that was never claimed is blank, and a handler past its claim
\* works on an event with a row.
TypeOK ==
    /\ now \in Times
    /\ sub \in [Subscriptions -> SubscriptionRecords \cup {NoSubscription}]
    /\ event \in Seq(Events) /\ Len(event) <= MaxEvents
    /\ acked \in [EventIds -> BOOLEAN]
    /\ log \in [EventIds -> [claimed : BOOLEAN, processed : BOOLEAN, error : BOOLEAN]]
    /\ profile \in [Accounts -> [tier : {"free", "pro"}, until : Times, comped : BOOLEAN]]
    /\ task \in [Handlers -> TaskRecords]
    /\ run \in [Runs -> {"idle", "health", "sweep"}]
    /\ applied \subseteq EventIds
    /\ mixed \subseteq Accounts
    /\ \A e \in EventIds : ~log[e].claimed => log[e] = NoEvent
    /\ \A h \in Handlers :
           /\ task[h].step # "idle" => task[h].e \in DOMAIN event
           /\ task[h].step \notin {"idle", "claim"} => log[task[h].e].claimed

\* An event Polar stops delivering was applied, or settled by hand: no retry after a failure, a
\* crash or a lost answer is told "duplicate" before some delivery of the event
\* reached the profile (route.ts, the idempotency comment: "otherwise Polar's
\* retry would silently return 200 and a paid customer would be stuck").
AckedIsApplied == \A e \in DOMAIN event : acked[e] => e \in applied

\* A comped account is outside Polar's authority: no event in flight, however
\* long ago it read the account, and no sweep changes it.
CompedUntouched ==
    [][\A a \in Accounts : profile[a].comped => profile'[a] = profile[a]]_profile

\* When an account's events reach the webhook one at a time and in order, none
\* settled by hand, with any number of failures, retries and lost answers in
\* between, and the last is answered 200, the profile is what Polar says: on Pro
\* to the end of the period at least while the subscription grants it, on free
\* once it ended or was not paid.  The sweep never undoes the former.
FollowsPolar ==
    \A a \in Accounts \ mixed :
        LET mine == EventsOf(a)
            last == event[CHOOSE e \in mine : \A d \in mine : d <= e].as
        IN (mine # {} /\ (\A e \in mine : acked[e]) /\ ~profile[a].comped) =>
               /\ GrantsPro(last) => profile[a].tier = "pro" /\ profile[a].until >= last.end
               /\ (last.ended # 0 \/ last.status = "unpaid") => profile[a].tier = "free"

\* An account that stopped paying does not stay on Pro: it is swept, renewed or
\* comped, unless a failed event that nobody resolved holds the sweep.
LapseEnds ==
    \A a \in Accounts :
        Lapsed(profile[a]) ~> \/ ~Lapsed(profile[a])
                              \/ \E e \in EventIds : log[e].error /\ ~log[e].processed

=============================================================================
