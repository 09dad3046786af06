---------------------------- MODULE BillingProofs -----------------------------
(***************************************************************************)
(* What holds of Billing for every set of accounts, subscriptions and      *)
(* overlapping deliveries.  What one handler knows of its event (it was    *)
(* emitted, its row was inserted, it reached the profile) never becomes    *)
(* false, so the only handler a step can disturb is the one that takes it  *)
(* (HandlerStep).                                                          *)
(***************************************************************************)
EXTENDS Billing, TLAPS

TaskSound(t) ==
    /\ t.step # "idle" => t.e \in DOMAIN event
    /\ t.step \notin {"idle", "claim"} => log[t.e].claimed
    /\ t.step \in {"read", "write"} => t.as \in SubscriptionRecords
    /\ t.step = "stamp" => t.e \in applied

Tasks == task \in [Handlers -> TaskRecords] /\ \A h \in Handlers : TaskSound(task[h])

PolarTypes == /\ sub \in [Subscriptions -> SubscriptionRecords \cup {NoSubscription}]
              /\ event \in Seq(Events) /\ Len(event) <= MaxEvents
              /\ \A e \in DOMAIN event : sub[event[e].id] \in SubscriptionRecords
              /\ acked \in [EventIds -> BOOLEAN]

LogRecords == [claimed : BOOLEAN, processed : BOOLEAN, error : BOOLEAN]
Profiles == [tier : {"free", "pro"}, until : Times, comped : BOOLEAN]

Tables == /\ log \in [EventIds -> LogRecords]
          /\ \A e \in EventIds : ~log[e].claimed => log[e] = NoEvent
          /\ profile \in [Accounts -> Profiles]

Rest == /\ now \in Times
        /\ run \in [Runs -> {"idle", "health", "sweep"}]
        /\ applied \subseteq EventIds
        /\ mixed \subseteq Accounts

\* An event that was stamped, or that Polar heard a 200 for, reached the profile.
Settled == \A e \in EventIds : (log[e].processed \/ acked[e]) => e \in applied

IInv == Tasks /\ PolarTypes /\ Tables /\ Rest /\ Settled

\* What an earlier step established about an event stays true.
Grows == /\ DOMAIN event \subseteq DOMAIN event'
         /\ \A e \in EventIds : log[e].claimed => log'[e].claimed
         /\ applied \subseteq applied'

-----------------------------------------------------------------------------

LEMMA EventIdsOf == PolarTypes => /\ DOMAIN event \subseteq EventIds
                                  /\ \A e \in DOMAIN event : event[e] \in Events
  BY BillingAssumption DEF PolarTypes, EventIds

LEMMA BlankTypes == /\ Idle \in TaskRecords
                    /\ NoEvent \in LogRecords
                    /\ [tier |-> "free", until |-> 0, comped |-> FALSE] \in Profiles
  BY BillingAssumption DEF Idle, TaskRecords, Updates, NoEvent, LogRecords, Profiles, Times

LEMMA InvTypes == IInv => TypeOK /\ AckedIsApplied
  <1> SUFFICES ASSUME IInv PROVE TypeOK /\ AckedIsApplied
    OBVIOUS
  <1>1. TypeOK
    BY DEF IInv, Tasks, TaskSound, PolarTypes, Tables, LogRecords, Profiles, Rest, TypeOK
  <1>2. AckedIsApplied
    BY EventIdsOf DEF IInv, Settled, AckedIsApplied
  <1> QED
    BY <1>1, <1>2

LEMMA InitSound == Init => IInv
  <1> SUFFICES ASSUME Init PROVE IInv
    OBVIOUS
  <1>1. Tasks
    BY BlankTypes DEF Init, Tasks, TaskSound, Idle
  <1>2. PolarTypes
    <2>1. event = <<>> /\ <<>> \in Seq(Events) /\ Len(<<>>) = 0
      BY DEF Init
    <2> QED
      BY <2>1, BillingAssumption DEF Init, PolarTypes, EventIds
  <1>3. Tables
    BY BlankTypes DEF Init, Tables
  <1>4. Rest
    BY BillingAssumption DEF Init, Rest, Times
  <1>5. Settled
    BY DEF Init, Settled, NoEvent
  <1> QED
    BY <1>1, <1>2, <1>3, <1>4, <1>5 DEF IInv

\* The other handlers are left with what they knew.
LEMMA HandlerStep ==
  ASSUME IInv, Grows, NEW h \in Handlers, NEW t \in TaskRecords,
         task' = [task EXCEPT ![h] = t],
         t.step # "idle" => t.e \in DOMAIN event',
         t.step \notin {"idle", "claim"} => log'[t.e].claimed,
         t.step \in {"read", "write"} => t.as \in SubscriptionRecords,
         t.step = "stamp" => t.e \in applied'
  PROVE  Tasks'
  <1>1. task' \in [Handlers -> TaskRecords]
    BY DEF IInv, Tasks
  <1>2. ASSUME NEW g \in Handlers PROVE TaskSound(task[g])'
    <2>1. CASE g = h
      <3>1. task'[g] = t
        BY <2>1 DEF IInv, Tasks
      <3> QED
        BY <3>1 DEF TaskSound
    <2>2. CASE g # h
      <3>1. task'[g] = task[g]
        BY <2>2 DEF IInv, Tasks
      <3>2. TaskSound(task[g])
        BY DEF IInv, Tasks
      <3>3. task[g].step # "idle" => task[g].e \in EventIds
        BY <3>2, EventIdsOf DEF TaskSound, IInv
      <3> QED
        BY <3>1, <3>2, <3>3 DEF TaskSound, Grows
    <2> QED
      BY <2>1, <2>2
  <1> QED
    BY <1>1, <1>2 DEF Tasks

LEMMA OthersStep ==
  ASSUME IInv, Grows, UNCHANGED task
  PROVE  Tasks'
  <1>1. ASSUME NEW g \in Handlers PROVE TaskSound(task[g])'
    <2>1. TaskSound(task[g])
      BY DEF IInv, Tasks
    <2>2. task[g].step # "idle" => task[g].e \in EventIds
      BY <2>1, EventIdsOf DEF TaskSound, IInv
    <2> QED
      BY <2>1, <2>2 DEF TaskSound, Grows
  <1> QED
    BY <1>1 DEF Tasks, IInv

\* The event of a handler at work.
LEMMA EventOf ==
  ASSUME IInv, NEW h \in Handlers, task[h].step # "idle"
  PROVE  /\ task[h].e \in DOMAIN event /\ task[h].e \in EventIds
         /\ event[task[h].e] \in Events
         /\ task[h].step # "claim" => log[task[h].e].claimed
         /\ task[h] \in TaskRecords
  BY EventIdsOf DEF IInv, Tasks, TaskSound

\* Moving to the next step keeps only the event.
LEMMA GotoTypes ==
  ASSUME IInv, NEW h \in Handlers, task[h].step # "idle",
         NEW step \in {"prior", "resolve", "stamp", "fail"}
  PROVE  /\ [Idle EXCEPT !.step = step, !.e = task[h].e] \in TaskRecords
         /\ [Idle EXCEPT !.step = step, !.e = task[h].e].step = step
         /\ [Idle EXCEPT !.step = step, !.e = task[h].e].e = task[h].e
  BY EventOf, BlankTypes DEF Idle, TaskRecords

LEMMA GotoStep ==
  ASSUME IInv, Grows, NEW h \in Handlers, task[h].step # "idle",
         NEW step \in {"prior", "resolve", "stamp", "fail"}, Goto(h, step),
         UNCHANGED event, log'[task[h].e].claimed,
         step = "stamp" => task[h].e \in applied'
  PROVE  Tasks'
  <1> DEFINE t == [Idle EXCEPT !.step = step, !.e = task[h].e]
  <1>1. t \in TaskRecords /\ t.step = step /\ t.e = task[h].e
    BY GotoTypes
  <1>2. task' = [task EXCEPT ![h] = t]
    BY DEF Goto
  <1>3. t.e \in DOMAIN event'
    BY <1>1, EventOf
  <1> HIDE DEF t
  <1> QED
    BY <1>1, <1>2, <1>3, HandlerStep

LEMMA DoneStep ==
  ASSUME IInv, Grows, NEW h \in Handlers, Done(h)
  PROVE  Tasks'
  <1>1. Idle.step = "idle"
    BY DEF Idle
  <1> QED
    BY <1>1, HandlerStep, BlankTypes DEF Done

LEMMA UpdateTypes ==
  ASSUME NEW s \in SubscriptionRecords \cup {NoSubscription}, NEW stored \in Times
  PROVE  ComputeTierUpdate(s, stored) \in Updates
  <1>1. s.end \in Times /\ s.ended \in Times
    BY BillingAssumption DEF SubscriptionRecords, NoSubscription, Times
  <1>2. LaterOf(s.end, stored) \in Times
    BY <1>1 DEF LaterOf
  <1> QED
    BY <1>1, <1>2 DEF ComputeTierUpdate, Updates

-----------------------------------------------------------------------------
(***************************************************************************)
(* Polar                                                                   *)
(***************************************************************************)

LEMMA EmitKeeps ==
  ASSUME IInv, NEW s \in Subscriptions, NEW as \in SubscriptionRecords,
         NEW kind \in {"subscription", "order"}, Emit(s, as, kind)
  PROVE  IInv'
  <1> DEFINE new == [kind |-> kind, id |-> s, as |-> as]
  <1>1. new \in Events
    BY DEF Events
  <1>2. /\ Len(event) < MaxEvents /\ event' = Append(event, new) /\ sub' = [sub EXCEPT ![s] = as]
        /\ UNCHANGED <<now, acked, log, profile, task, run, applied, mixed>>
    BY DEF Emit, history
  <1> HIDE DEF new
  <1>3. event' \in Seq(Events) /\ Len(event') = Len(event) + 1 /\ DOMAIN event \subseteq DOMAIN event'
    BY <1>1, <1>2 DEF IInv, PolarTypes
  <1>4. Len(event') <= MaxEvents
    BY <1>2, <1>3, BillingAssumption DEF IInv, PolarTypes
  <1>5. sub' \in [Subscriptions -> SubscriptionRecords \cup {NoSubscription}]
    BY <1>2 DEF IInv, PolarTypes
  <1>d. ASSUME NEW e \in DOMAIN event' PROVE sub'[event'[e].id] \in SubscriptionRecords
    <2>1. CASE e \in DOMAIN event
      <3>1. event'[e] = event[e] /\ event[e].id \in Subscriptions
        BY <1>2, <2>1, EventIdsOf DEF IInv, PolarTypes, Events
      <3>2. sub[event[e].id] \in SubscriptionRecords
        BY <2>1 DEF IInv, PolarTypes
      <3> QED
        BY <1>2, <3>1, <3>2 DEF IInv, PolarTypes
    <2>2. CASE e \notin DOMAIN event
      <3>1. event'[e] = new /\ new.id = s
        BY <1>2, <1>3, <2>2 DEF IInv, PolarTypes, new
      <3> QED
        BY <1>2, <3>1 DEF IInv, PolarTypes
    <2> QED
      BY <2>1, <2>2
  <1>6. PolarTypes'
    BY <1>2, <1>3, <1>4, <1>5, <1>d DEF IInv, PolarTypes
  <1>7. Grows
    BY <1>2, <1>3 DEF Grows
  <1>8. Tasks'
    BY <1>2, <1>7, OthersStep
  <1> QED
    BY <1>2, <1>6, <1>8 DEF IInv, Tables, Rest, Settled

\* Polar changes one subscription of one account, and announces what it is now.
LEMMA PolarEmits ==
  ASSUME IInv, Polar
  PROVE  \E s \in Subscriptions, as \in SubscriptionRecords, kind \in {"subscription", "order"} :
            /\ Emit(s, as, kind) /\ as.ended <= now
            /\ sub[s] # NoSubscription => as.account = sub[s].account
  <1>s. PICK s \in Subscriptions :
          \/ \E p \in Periods, kind \in {"subscription", "order"} :
                 (\E a \in Accounts : Subscribe(a, s, p, kind)) \/ Renew(s, p, kind) \/ Switch(s, p, kind)
          \/ \E status \in Statuses : Change(s, status)
          \/ Revoke(s)
    BY DEF Polar
  <1> DEFINE Emits == \E as \in SubscriptionRecords, kind \in {"subscription", "order"} :
                         /\ Emit(s, as, kind) /\ as.ended <= now
                         /\ sub[s] # NoSubscription => as.account = sub[s].account
  <1>0. sub[s] \in SubscriptionRecords \cup {NoSubscription} /\ now \in Times /\ 0 <= now
    BY BillingAssumption DEF IInv, PolarTypes, Rest, Times
  <1>r. Running(s) => sub[s] \in SubscriptionRecords /\ sub[s].ended = 0
    BY <1>0 DEF Running
  <1>1. ASSUME NEW p \in Periods, NEW kind \in {"subscription", "order"}, NEW a \in Accounts,
               Subscribe(a, s, p, kind) PROVE Emits
    <2> DEFINE as == [account |-> a, status |-> "active", end |-> now + p, ended |-> 0]
    <2>1. now + p \in Times /\ 0 \in Times
      BY <1>0, <1>1, BillingAssumption DEF Subscribe, Times
    <2>2. as \in SubscriptionRecords /\ as.ended = 0
      BY <2>1 DEF SubscriptionRecords, Statuses
    <2>3. Emit(s, as, kind) /\ sub[s] = NoSubscription
      BY <1>1 DEF Subscribe
    <2> HIDE DEF as
    <2> QED
      BY <1>0, <2>2, <2>3
  <1>2. ASSUME NEW p \in Periods, NEW kind \in {"subscription", "order"}, Renew(s, p, kind) PROVE Emits
    <2> DEFINE as == [sub[s] EXCEPT !.status = "active", !.end = @ + p]
    <2>1. sub[s] \in SubscriptionRecords /\ sub[s].end + p \in Times
      BY <1>2, <1>r, BillingAssumption DEF Renew, Times, SubscriptionRecords
    <2>2. as \in SubscriptionRecords /\ as.ended = sub[s].ended /\ as.account = sub[s].account
      BY <2>1 DEF SubscriptionRecords, Statuses
    <2>3. Emit(s, as, kind) /\ sub[s].ended = 0
      BY <1>2, <1>r DEF Renew
    <2> HIDE DEF as
    <2> QED
      BY <1>0, <2>2, <2>3
  <1>3. ASSUME NEW p \in Periods, NEW kind \in {"subscription", "order"}, Switch(s, p, kind) PROVE Emits
    <2> DEFINE as == [sub[s] EXCEPT !.end = now + p]
    <2>1. sub[s] \in SubscriptionRecords /\ now + p \in Times
      BY <1>3, <1>r, <1>0, BillingAssumption DEF Switch, Times
    <2>2. as \in SubscriptionRecords /\ as.ended = sub[s].ended /\ as.account = sub[s].account
      BY <2>1 DEF SubscriptionRecords
    <2>3. Emit(s, as, kind) /\ sub[s].ended = 0
      BY <1>3, <1>r DEF Switch
    <2> HIDE DEF as
    <2> QED
      BY <1>0, <2>2, <2>3
  <1>4. ASSUME NEW status \in Statuses, Change(s, status) PROVE Emits
    <2> DEFINE as == [sub[s] EXCEPT !.status = status]
    <2>1. sub[s] \in SubscriptionRecords
      BY <1>4, <1>r DEF Change
    <2>2. as \in SubscriptionRecords /\ as.ended = sub[s].ended /\ as.account = sub[s].account
      BY <2>1 DEF SubscriptionRecords
    <2>3. Emit(s, as, "subscription") /\ sub[s].ended = 0
      BY <1>4, <1>r DEF Change
    <2> HIDE DEF as
    <2> QED
      BY <1>0, <2>2, <2>3
  <1>5. ASSUME Revoke(s) PROVE Emits
    <2> DEFINE as == [sub[s] EXCEPT !.status = "canceled", !.ended = now]
    <2>1. sub[s] \in SubscriptionRecords
      BY <1>5, <1>r DEF Revoke
    <2>2. as \in SubscriptionRecords /\ as.ended = now /\ as.account = sub[s].account
      BY <2>1, <1>0 DEF SubscriptionRecords, Statuses
    <2>3. Emit(s, as, "subscription")
      BY <1>5 DEF Revoke
    <2>4. now <= now
      BY <1>0 DEF Times
    <2> HIDE DEF as
    <2> QED
      BY <1>0, <2>2, <2>3, <2>4
  <1> QED
    BY <1>s, <1>1, <1>2, <1>3, <1>4, <1>5

LEMMA PolarKeeps == IInv /\ Polar => IInv'
  BY PolarEmits, EmitKeeps

-----------------------------------------------------------------------------
(***************************************************************************)
(* One delivery                                                            *)
(***************************************************************************)

LEMMA DeliverKeeps ==
  ASSUME IInv, NEW h \in Handlers, NEW e \in EventIds, Deliver(h, e)
  PROVE  IInv'
  <1> DEFINE t == [Idle EXCEPT !.step = "claim", !.e = e]
  <1>1. e \in DOMAIN event /\ AccountOf(e) \in Accounts
    <2>1. e \in DOMAIN event /\ event[e] \in Events
      BY EventIdsOf DEF Deliver, IInv
    <2> QED
      BY <2>1 DEF AccountOf, Events, SubscriptionRecords
  <1>2. t \in TaskRecords /\ t.step = "claim" /\ t.e = e
    <2>1. e \in 0..MaxEvents
      BY BillingAssumption DEF EventIds
    <2>2. Idle.e = 0
      BY DEF Idle
    <2> QED
      BY <2>1, <2>2, BlankTypes DEF TaskRecords
  <1>3. task' = [task EXCEPT ![h] = t]
    BY DEF Deliver
  <1>4. mixed' \subseteq Accounts
    BY <1>1 DEF Deliver, IInv, Rest
  <1>5. UNCHANGED <<now, sub, event, acked, log, profile, run, applied>>
    BY DEF Deliver, polarVars
  <1> HIDE DEF t
  <1>6. Tasks'
    BY <1>1, <1>2, <1>3, <1>5, HandlerStep DEF Grows
  <1> QED
    BY <1>4, <1>5, <1>6 DEF IInv, PolarTypes, Tables, Rest, Settled

LEMMA ClaimKeeps ==
  ASSUME IInv, NEW h \in Handlers, Claim(h)
  PROVE  IInv'
  <1> DEFINE e == task[h].e
  <1>0. task[h].step = "claim" /\ UNCHANGED <<now, sub, event, acked, profile, run, applied, mixed>>
    BY DEF Claim, polarVars, history
  <1>e. e \in EventIds /\ e \in DOMAIN event
    BY <1>0, EventOf
  <1>r. log[e] \in LogRecords /\ log \in [EventIds -> LogRecords]
    BY <1>e DEF IInv, Tables
  <1> HIDE DEF e
  <1>1. CASE log' = [log EXCEPT ![e].claimed = TRUE] /\ (Goto(h, "resolve") \/ Done(h))
    <2> DEFINE new == [log[e] EXCEPT !.claimed = TRUE]
    <2>1. new \in LogRecords /\ new.claimed /\ new.processed = log[e].processed
      BY <1>r DEF LogRecords
    <2>2. log' = [log EXCEPT ![e] = new]
      BY <1>1
    <2> HIDE DEF new
    <2>3. log' \in [EventIds -> LogRecords] /\ log'[e] = new
          /\ \A d \in EventIds : d # e => log'[d] = log[d]
      BY <2>1, <2>2, <1>r, <1>e
    <2>4. Grows
      BY <2>1, <2>3, <1>0 DEF Grows
    <2>5. Tasks'
      <3>1. CASE Goto(h, "resolve")
        <4>1. log'[task[h].e].claimed
          BY <2>1, <2>3 DEF e
        <4> QED
          BY <3>1, <4>1, <2>4, <1>0, GotoStep
      <3>2. CASE Done(h)
        BY <3>2, <2>4, DoneStep
      <3> QED
        BY <1>1, <3>1, <3>2
    <2>6. Tables'
      BY <2>1, <2>3, <1>0 DEF IInv, Tables
    <2>7. Settled'
      BY <2>1, <2>3, <1>0 DEF IInv, Settled
    <2> QED
      BY <2>5, <2>6, <2>7, <1>0 DEF IInv, PolarTypes, Rest
  <1>2. CASE UNCHANGED log /\ ((log[e].claimed /\ Goto(h, "prior")) \/ Done(h))
    <2>1. Grows
      BY <1>2, <1>0 DEF Grows
    <2>2. Tasks'
      <3>1. CASE log[e].claimed /\ Goto(h, "prior")
        <4>1. log'[task[h].e].claimed
          BY <3>1, <1>2 DEF e
        <4> QED
          BY <3>1, <4>1, <2>1, <1>0, GotoStep
      <3>2. CASE Done(h)
        BY <3>2, <2>1, DoneStep
      <3> QED
        BY <1>2, <3>1, <3>2
    <2> QED
      BY <2>2, <1>0, <1>2 DEF IInv, PolarTypes, Tables, Rest, Settled
  <1> QED
    BY <1>1, <1>2 DEF Claim, e

LEMMA PriorKeeps ==
  ASSUME IInv, NEW h \in Handlers, NEW heard \in BOOLEAN, Prior(h, heard)
  PROVE  IInv'
  <1> DEFINE e == task[h].e
  <1>0. task[h].step = "prior" /\ UNCHANGED <<now, sub, event, log, profile, run, applied, mixed>>
    BY DEF Prior, polarVars, history
  <1>e. e \in EventIds /\ e \in DOMAIN event /\ log[e].claimed
    BY <1>0, EventOf
  <1>g. Grows
    BY <1>0 DEF Grows
  <1>1. CASE Finished(e) /\ acked' = [acked EXCEPT ![e] = @ \/ heard] /\ Done(h)
    <2>1. acked' \in [EventIds -> BOOLEAN] /\ \A d \in EventIds : d # e => acked'[d] = acked[d]
      BY <1>1, <1>e DEF IInv, PolarTypes
    <2>2. e \in applied
      BY <1>1, <1>e DEF IInv, Settled, Finished
    <2>3. Settled'
      BY <2>1, <2>2, <1>0 DEF IInv, Settled
    <2> QED
      BY <1>0, <1>1, <2>1, <2>3, <1>g, DoneStep DEF IInv, PolarTypes, Tables, Rest
  <1>2. CASE UNCHANGED acked /\ Goto(h, "resolve")
    <2>1. Tasks'
      BY <1>0, <1>2, <1>e, <1>g, GotoStep
    <2> QED
      BY <2>1, <1>0, <1>2 DEF IInv, PolarTypes, Tables, Rest, Settled
  <1> QED
    BY <1>1, <1>2 DEF Prior

LEMMA ResolveKeeps ==
  ASSUME IInv, NEW h \in Handlers, Resolve(h)
  PROVE  IInv'
  <1> DEFINE e == task[h].e
             as == IF event[e].kind = "order" THEN sub[event[e].id] ELSE event[e].as
             t == [task[h] EXCEPT !.step = "read", !.as = as]
  <1>0. task[h].step = "resolve" /\ UNCHANGED <<now, sub, event, acked, log, profile, run, applied, mixed>>
    BY DEF Resolve, polarVars, history
  <1>e. e \in EventIds /\ e \in DOMAIN event /\ log[e].claimed /\ event[e] \in Events /\ task[h] \in TaskRecords
    BY <1>0, EventOf
  <1>g. Grows
    BY <1>0 DEF Grows
  <1>1. CASE task' = [task EXCEPT ![h].step = "read", ![h].as = as]
    <2>1. as \in SubscriptionRecords
      BY <1>e DEF Events, IInv, PolarTypes
    <2> HIDE DEF as
    <2>2. t \in TaskRecords /\ t.step = "read" /\ t.e = e /\ t.as = as
      BY <1>e, <2>1 DEF TaskRecords
    <2>3. task' = [task EXCEPT ![h] = t]
      BY <1>1 DEF IInv, Tasks
    <2> HIDE DEF t
    <2>4. Tasks'
      BY <1>0, <1>e, <1>g, <2>1, <2>2, <2>3, HandlerStep
    <2> QED
      BY <2>4, <1>0 DEF IInv, PolarTypes, Tables, Rest, Settled
  <1>2. CASE Goto(h, "fail")
    <2>1. Tasks'
      BY <1>0, <1>2, <1>e, <1>g, GotoStep
    <2> QED
      BY <2>1, <1>0 DEF IInv, PolarTypes, Tables, Rest, Settled
  <1> QED
    BY <1>1, <1>2 DEF Resolve

LEMMA ReadKeeps ==
  ASSUME IInv, NEW h \in Handlers, Read(h)
  PROVE  IInv'
  <1> DEFINE e == task[h].e
             update == ComputeTierUpdate(task[h].as, profile[task[h].as.account].until)
             t == [task[h] EXCEPT !.step = "write", !.update = update]
  <1>0. task[h].step = "read" /\ UNCHANGED <<now, sub, event, acked, log, profile, run, mixed>>
    BY DEF Read, polarVars
  <1>e. e \in EventIds /\ e \in DOMAIN event /\ log[e].claimed /\ task[h] \in TaskRecords
    BY <1>0, EventOf
  <1>s. task[h].as \in SubscriptionRecords
    BY <1>0 DEF IInv, Tasks, TaskSound
  <1>1. CASE task' = [task EXCEPT ![h].step = "write", ![h].update = update] /\ UNCHANGED applied
    <2>1. update \in Updates
      <3>1. task[h].as.account \in Accounts
        BY <1>s DEF SubscriptionRecords
      <3>2. profile[task[h].as.account].until \in Times
        BY <3>1 DEF IInv, Tables, Profiles
      <3> QED
        BY <1>s, <3>2, UpdateTypes
    <2> HIDE DEF update
    <2>2. t \in TaskRecords /\ t.step = "write" /\ t.e = e /\ t.as = task[h].as
      BY <1>e, <2>1 DEF TaskRecords
    <2>3. task' = [task EXCEPT ![h] = t]
      BY <1>1 DEF IInv, Tasks
    <2> HIDE DEF t
    <2>4. Grows
      BY <1>0, <1>1 DEF Grows
    <2>5. Tasks'
      BY <1>0, <1>e, <1>s, <2>2, <2>3, <2>4, HandlerStep
    <2> QED
      BY <2>5, <1>0, <1>1 DEF IInv, PolarTypes, Tables, Rest, Settled
  <1>2. CASE Goto(h, "stamp") /\ applied' = applied \cup {e}
    <2>1. Grows
      BY <1>0, <1>2 DEF Grows
    <2>2. Tasks'
      BY <1>0, <1>2, <1>e, <2>1, GotoStep
    <2> QED
      BY <2>2, <1>0, <1>2, <1>e DEF IInv, PolarTypes, Tables, Rest, Settled
  <1>3. CASE Goto(h, "fail") /\ UNCHANGED applied
    <2>1. Grows
      BY <1>0, <1>3 DEF Grows
    <2>2. Tasks'
      BY <1>0, <1>3, <1>e, <2>1, GotoStep
    <2> QED
      BY <2>2, <1>0, <1>3 DEF IInv, PolarTypes, Tables, Rest, Settled
  <1> QED
    BY <1>1, <1>2, <1>3 DEF Read

LEMMA WriteKeeps ==
  ASSUME IInv, NEW h \in Handlers, Write(h)
  PROVE  IInv'
  <1> DEFINE e == task[h].e
             a == task[h].as.account
             update == task[h].update
  <1>0. task[h].step = "write" /\ UNCHANGED <<now, sub, event, acked, log, run, mixed>>
    BY DEF Write, polarVars
  <1>e. e \in EventIds /\ e \in DOMAIN event /\ log[e].claimed /\ update \in Updates
    BY <1>0, EventOf DEF TaskRecords
  <1>p. profile' = profile \/ profile' = [profile EXCEPT ![a].tier = update.tier, ![a].until = update.until]
    BY DEF Write
  <1>1. profile' \in [Accounts -> Profiles]
    <2>1. CASE a \in Accounts
      <3>1. profile[a] \in Profiles
        BY <2>1 DEF IInv, Tables
      <3>2. update.tier \in {"free", "pro"} /\ update.until \in Times
        BY <1>e DEF Updates
      <3>3. [profile[a] EXCEPT !.tier = update.tier, !.until = update.until] \in Profiles
        BY <3>1, <3>2 DEF Profiles
      <3>4. [profile EXCEPT ![a].tier = update.tier, ![a].until = update.until]
              = [profile EXCEPT ![a] = [profile[a] EXCEPT !.tier = update.tier, !.until = update.until]]
        BY <2>1 DEF IInv, Tables
      <3> QED
        BY <1>p, <3>3, <3>4 DEF IInv, Tables
    <2>2. CASE a \notin Accounts
      BY <1>p, <2>2 DEF IInv, Tables
    <2> QED
      BY <2>1, <2>2
  <1>2. CASE applied' = applied \cup {e} /\ (Goto(h, "stamp") \/ Goto(h, "fail"))
    <2>1. Grows
      BY <1>0, <1>2 DEF Grows
    <2>2. Tasks'
      BY <1>0, <1>2, <1>e, <2>1, GotoStep
    <2> QED
      BY <2>2, <1>0, <1>1, <1>2, <1>e DEF IInv, PolarTypes, Tables, Rest, Settled
  <1>3. CASE UNCHANGED applied /\ Goto(h, "fail")
    <2>1. Grows
      BY <1>0, <1>3 DEF Grows
    <2>2. Tasks'
      BY <1>0, <1>3, <1>e, <2>1, GotoStep
    <2> QED
      BY <2>2, <1>0, <1>1, <1>3 DEF IInv, PolarTypes, Tables, Rest, Settled
  <1> QED
    BY <1>2, <1>3 DEF Write

\* Marking a row the handler claimed.
LEMMA MarkKeeps ==
  ASSUME IInv, NEW e \in EventIds, log[e].claimed, NEW new \in LogRecords,
         log' = [log EXCEPT ![e] = new], new.claimed
  PROVE  /\ \A d \in EventIds : log[d].claimed => log'[d].claimed
         /\ \A d \in EventIds : d # e => log'[d] = log[d]
         /\ log'[e] = new
         /\ profile' = profile => Tables'
  BY DEF IInv, Tables

LEMMA StampKeeps ==
  ASSUME IInv, NEW h \in Handlers, NEW stamped \in BOOLEAN, NEW heard \in BOOLEAN,
         Stamp(h, stamped, heard)
  PROVE  IInv'
  <1> DEFINE e == task[h].e
             new == [log[e] EXCEPT !.processed = log[e].processed \/ stamped]
  <1>0. /\ task[h].step = "stamp" /\ Done(h)
        /\ UNCHANGED <<now, sub, event, profile, run, applied, mixed>>
        /\ acked' = [acked EXCEPT ![e] = @ \/ heard]
        /\ log' = [log EXCEPT ![e] = new]
    BY DEF Stamp, polarVars, history
  <1>e. e \in EventIds /\ log[e].claimed /\ log[e] \in LogRecords
    BY <1>0, EventOf DEF IInv, Tables
  <1>a. e \in applied
    BY <1>0 DEF IInv, Tasks, TaskSound
  <1>1. new \in LogRecords /\ new.claimed
    BY <1>e DEF LogRecords
  <1> HIDE DEF new, e
  <1>2. /\ \A d \in EventIds : log[d].claimed => log'[d].claimed
        /\ \A d \in EventIds : d # e => log'[d] = log[d]
        /\ Tables'
    BY <1>0, <1>1, <1>e, MarkKeeps
  <1>3. acked' \in [EventIds -> BOOLEAN] /\ \A d \in EventIds : d # e => acked'[d] = acked[d]
    BY <1>0, <1>e DEF IInv, PolarTypes
  <1>4. Settled'
    BY <1>0, <1>a, <1>2, <1>3 DEF IInv, Settled
  <1>5. Tasks'
    BY <1>0, <1>2, DoneStep DEF Grows
  <1> QED
    BY <1>0, <1>2, <1>3, <1>4, <1>5 DEF IInv, PolarTypes, Rest

LEMMA FailKeeps ==
  ASSUME IInv, NEW h \in Handlers, NEW noted \in BOOLEAN, Fail(h, noted)
  PROVE  IInv'
  <1> DEFINE e == task[h].e
             new == [log[e] EXCEPT !.error = log[e].error \/ noted]
  <1>0. /\ task[h].step = "fail" /\ Done(h)
        /\ UNCHANGED <<now, sub, event, acked, profile, run, applied, mixed>>
        /\ log' = [log EXCEPT ![e] = new]
    BY DEF Fail, polarVars, history
  <1>e. e \in EventIds /\ log[e].claimed /\ log[e] \in LogRecords
    BY <1>0, EventOf DEF IInv, Tables
  <1>1. new \in LogRecords /\ new.claimed /\ new.processed = log[e].processed
    BY <1>e DEF LogRecords
  <1> HIDE DEF new, e
  <1>2. /\ \A d \in EventIds : log[d].claimed => log'[d].claimed
        /\ \A d \in EventIds : d # e => log'[d] = log[d]
        /\ log'[e] = new
        /\ Tables'
    BY <1>0, <1>1, <1>e, MarkKeeps
  <1>3. Settled'
    BY <1>0, <1>1, <1>2 DEF IInv, Settled
  <1>4. Tasks'
    BY <1>0, <1>2, DoneStep DEF Grows
  <1> QED
    BY <1>0, <1>2, <1>3, <1>4 DEF IInv, PolarTypes, Rest

LEMMA CrashKeeps ==
  ASSUME IInv, NEW h \in Handlers, Crash(h)
  PROVE  IInv'
  <1>0. Done(h) /\ UNCHANGED <<now, sub, event, acked, log, profile, run, applied, mixed>>
    BY DEF Crash, polarVars, history
  <1>1. Tasks'
    BY <1>0, DoneStep DEF Grows
  <1> QED
    BY <1>0, <1>1 DEF IInv, PolarTypes, Tables, Rest, Settled

-----------------------------------------------------------------------------
(***************************************************************************)
(* The cron, the operator and the clock                                    *)
(***************************************************************************)

LEMMA HandleKeeps ==
  ASSUME IInv, NEW h \in Handlers, Handle(h)
  PROVE  IInv'
  BY DeliverKeeps, ClaimKeeps, PriorKeeps, ResolveKeeps, ReadKeeps, WriteKeeps, StampKeeps, FailKeeps,
     CrashKeeps DEF Handle

LEMMA CronKeeps ==
  ASSUME IInv, NEW r \in Runs, Cron(r)
  PROVE  IInv'
  <1>0. UNCHANGED <<now, sub, event, acked, log, task, applied, mixed>>
    BY DEF Cron, StartRun, Healthy, Hold, ExpirePro, polarVars, history
  <1>1. run' \in [Runs -> {"idle", "health", "sweep"}]
    BY DEF Cron, StartRun, Healthy, Hold, ExpirePro, IInv, Rest
  <1>2. profile' \in [Accounts -> Profiles]
    <2>1. CASE UNCHANGED profile
      BY <2>1 DEF IInv, Tables
    <2>2. CASE ExpirePro(r)
      <3>1. \A a \in Accounts : profile[a] \in Profiles /\ [profile[a] EXCEPT !.tier = "free"] \in Profiles
        BY DEF IInv, Tables, Profiles
      <3> QED
        BY <2>2, <3>1 DEF ExpirePro
    <2> QED
      BY <2>1, <2>2 DEF Cron, StartRun, Healthy, Hold
  <1>3. Tasks'
    BY <1>0, OthersStep DEF Grows
  <1> QED
    BY <1>0, <1>1, <1>2, <1>3 DEF IInv, PolarTypes, Tables, Rest, Settled

LEMMA ClearErrorKeeps ==
  ASSUME IInv, NEW e \in EventIds, ClearError(e)
  PROVE  IInv'
  <1> DEFINE new == [log[e] EXCEPT !.error = FALSE]
  <1>0. /\ UNCHANGED <<now, sub, event, acked, profile, task, run, applied, mixed>>
        /\ log' = [log EXCEPT ![e] = new]
    BY DEF ClearError, polarVars, history, IInv, Tables
  <1>1. log[e] \in LogRecords /\ log[e].error
    BY DEF ClearError, Failing, IInv, Tables
  <1>2. log[e].claimed
    BY <1>1 DEF IInv, Tables, NoEvent
  <1>3. new \in LogRecords /\ new.claimed /\ new.processed = log[e].processed
    BY <1>1, <1>2 DEF LogRecords
  <1> HIDE DEF new
  <1>4. /\ \A d \in EventIds : log[d].claimed => log'[d].claimed
        /\ \A d \in EventIds : d # e => log'[d] = log[d]
        /\ log'[e] = new
        /\ Tables'
    BY <1>0, <1>2, <1>3, MarkKeeps
  <1>5. Settled'
    BY <1>0, <1>3, <1>4 DEF IInv, Settled
  <1>6. Tasks'
    BY <1>0, <1>4, OthersStep DEF Grows
  <1> QED
    BY <1>0, <1>4, <1>5, <1>6 DEF IInv, PolarTypes, Rest

LEMMA StampByHandKeeps ==
  ASSUME IInv, NEW e \in EventIds, StampByHand(e)
  PROVE  IInv'
  <1> DEFINE new == [log[e] EXCEPT !.processed = TRUE]
  <1>0. /\ UNCHANGED <<now, sub, event, acked, profile, task, run>>
        /\ log' = [log EXCEPT ![e] = new]
        /\ applied' = applied \cup {e} /\ mixed' = mixed \cup {AccountOf(e)}
    BY DEF StampByHand, polarVars, IInv, Tables
  <1>1. log[e] \in LogRecords /\ log[e].error /\ e \in DOMAIN event
    BY DEF StampByHand, Failing, IInv, Tables
  <1>2. log[e].claimed
    BY <1>1 DEF IInv, Tables, NoEvent
  <1>3. new \in LogRecords /\ new.claimed
    BY <1>1, <1>2 DEF LogRecords
  <1> HIDE DEF new
  <1>4. /\ \A d \in EventIds : log[d].claimed => log'[d].claimed
        /\ \A d \in EventIds : d # e => log'[d] = log[d]
        /\ Tables'
    BY <1>0, <1>2, <1>3, MarkKeeps
  <1>5. Settled'
    BY <1>0, <1>4 DEF IInv, Settled
  <1>6. Tasks'
    BY <1>0, <1>4, OthersStep DEF Grows
  <1>7. AccountOf(e) \in Accounts
    BY <1>1, EventIdsOf DEF IInv, Events, AccountOf, SubscriptionRecords
  <1> QED
    BY <1>0, <1>4, <1>5, <1>6, <1>7 DEF IInv, PolarTypes, Rest

LEMMA CompKeeps ==
  ASSUME IInv, NEW a \in Accounts, Comp(a)
  PROVE  IInv'
  <1>0. UNCHANGED <<now, sub, event, acked, log, task, run, applied, mixed>>
    BY DEF Comp, polarVars, history
  <1>1. profile[a] \in Profiles
    BY DEF IInv, Tables
  <1>2. [profile[a] EXCEPT !.comped = TRUE, !.tier = "pro"] \in Profiles
    BY <1>1 DEF Profiles
  <1>3. profile' = [profile EXCEPT ![a] = [profile[a] EXCEPT !.comped = TRUE, !.tier = "pro"]]
    BY DEF Comp, IInv, Tables
  <1>4. profile' \in [Accounts -> Profiles]
    BY <1>2, <1>3 DEF IInv, Tables
  <1>5. Tasks'
    BY <1>0, OthersStep DEF Grows
  <1> QED
    BY <1>0, <1>4, <1>5 DEF IInv, PolarTypes, Tables, Rest, Settled

LEMMA TickKeeps == IInv /\ Tick => IInv'
  <1> SUFFICES ASSUME IInv, Tick PROVE IInv'
    OBVIOUS
  <1>0. UNCHANGED <<sub, event, acked, log, profile, task, run, applied, mixed>>
    BY DEF Tick, polarVars, history
  <1>1. now' \in Times
    BY BillingAssumption DEF Tick, IInv, Rest, Times
  <1>2. Tasks'
    BY <1>0, OthersStep DEF Grows
  <1> QED
    BY <1>0, <1>1, <1>2 DEF IInv, PolarTypes, Tables, Rest, Settled

LEMMA StepKeeps == IInv /\ [Next]_vars => IInv'
  <1> SUFFICES ASSUME IInv, [Next]_vars PROVE IInv'
    OBVIOUS
  <1>1. CASE UNCHANGED vars
    <2>1. UNCHANGED <<now, sub, event, acked, log, profile, task, run, applied, mixed>>
      BY <1>1 DEF vars
    <2>2. Tasks'
      BY <2>1, OthersStep DEF Grows
    <2> QED
      BY <2>1, <2>2 DEF IInv, PolarTypes, Tables, Rest, Settled
  <1> QED
    BY <1>1, PolarKeeps, HandleKeeps, CronKeeps, ClearErrorKeeps, StampByHandKeeps, CompKeeps,
       TickKeeps DEF Next, Operator

-----------------------------------------------------------------------------

LEMMA Inductive == Spec => []IInv
  <1> QED
    BY InitSound, StepKeeps, PTL DEF Spec

\* The types of every variable, at every state (TypeOK).
THEOREM TypeCorrect == Spec => []TypeOK
  <1> QED
    BY Inductive, InvTypes, PTL

\* Whatever fails, repeats or overlaps, Polar is told 200 only for events that
\* reached the profile or found it comped (AckedIsApplied): the only ways to a
\* 200 go through processed_at, written after the profile, or through the write
\* itself.
THEOREM AckedIsAppliedHolds == Spec => []AckedIsApplied
  <1> QED
    BY Inductive, InvTypes, PTL

\* No event in flight and no sweep changes a comped account (CompedUntouched):
\* the handler's read may be older than the exemption, the UPDATE's filter is not.
THEOREM CompedUntouchedHolds == Spec => CompedUntouched
  <1>1. ASSUME IInv, [Next]_vars, NEW a \in Accounts, profile[a].comped PROVE profile'[a] = profile[a]
    <2>p. profile \in [Accounts -> Profiles]
      BY <1>1 DEF IInv, Tables
    <2>1. CASE UNCHANGED profile
      BY <2>1
    <2>2. ASSUME NEW h \in Handlers, Write(h) PROVE profile'[a] = profile[a]
      <3> DEFINE b == task[h].as.account
      <3>1. CASE UNCHANGED profile
        BY <3>1
      <3>2. CASE /\ Updatable(b)
                 /\ profile' = [profile EXCEPT ![b].tier = task[h].update.tier,
                                               ![b].until = task[h].update.until]
        <4>1. a # b
          BY <1>1, <3>2 DEF Updatable
        <4> QED
          BY <2>p, <3>2, <4>1
      <3> QED
        BY <2>2, <3>1, <3>2 DEF Write
    <2>3. ASSUME NEW r \in Runs, ExpirePro(r) PROVE profile'[a] = profile[a]
      BY <1>1, <2>3 DEF ExpirePro, Lapsed
    <2>4. ASSUME NEW b \in Accounts, Comp(b) PROVE profile'[a] = profile[a]
      <3>1. a # b
        BY <1>1, <2>4 DEF Comp
      <3> QED
        BY <2>p, <2>4, <3>1 DEF Comp
    <2>5. \/ UNCHANGED profile
          \/ \E h \in Handlers : Write(h)
          \/ \E r \in Runs : ExpirePro(r)
          \/ \E b \in Accounts : Comp(b)
      <3>1. Polar => UNCHANGED profile
        <4>1. ASSUME NEW s, NEW as, NEW kind, Emit(s, as, kind) PROVE UNCHANGED profile
          BY <4>1 DEF Emit
        <4>2. ASSUME NEW s \in Subscriptions, NEW p \in Periods, NEW kind \in {"subscription", "order"},
                     \/ \E b \in Accounts : Subscribe(b, s, p, kind)
                     \/ Renew(s, p, kind)
                     \/ Switch(s, p, kind)
              PROVE UNCHANGED profile
          <5>1. ASSUME NEW b \in Accounts, Subscribe(b, s, p, kind) PROVE UNCHANGED profile
            BY <4>1, <5>1 DEF Subscribe
          <5>2. Renew(s, p, kind) => UNCHANGED profile
            BY <4>1 DEF Renew
          <5>3. Switch(s, p, kind) => UNCHANGED profile
            BY <4>1 DEF Switch
          <5> QED
            BY <4>2, <5>1, <5>2, <5>3
        <4>3. ASSUME NEW s \in Subscriptions, NEW status \in Statuses, Change(s, status)
              PROVE UNCHANGED profile
          BY <4>1, <4>3 DEF Change
        <4>4. ASSUME NEW s \in Subscriptions, Revoke(s) PROVE UNCHANGED profile
          BY <4>1, <4>4 DEF Revoke
        <4> QED
          BY <4>2, <4>3, <4>4 DEF Polar
      <3>2. ASSUME NEW h \in Handlers, Handle(h) PROVE UNCHANGED profile \/ Write(h)
        BY <3>2 DEF Handle, Deliver, Claim, Prior, Resolve, Read, Stamp, Fail, Crash
      <3>3. ASSUME NEW r \in Runs, Cron(r) PROVE UNCHANGED profile \/ ExpirePro(r)
        BY <3>3 DEF Cron, StartRun, Healthy, Hold
      <3>4. (\E e \in EventIds : ClearError(e) \/ StampByHand(e)) \/ Tick => UNCHANGED profile
        BY DEF ClearError, StampByHand, Tick
      <3> QED
        BY <1>1, <3>1, <3>2, <3>3, <3>4 DEF Next, Operator, vars
    <2> QED
      BY <2>1, <2>2, <2>3, <2>4, <2>5
  <1>2. IInv /\ [Next]_vars => [\A a \in Accounts : profile[a].comped => profile'[a] = profile[a]]_profile
    BY <1>1
  <1> QED
    BY Inductive, <1>2, PTL DEF Spec, CompedUntouched

-----------------------------------------------------------------------------
(***************************************************************************)
(* The tier follows Polar                                                  *)
(*                                                                         *)
(* For an account whose deliveries neither overlap nor overtake one        *)
(* another, one event at a time is at work: those before it are answered,  *)
(* those after it untouched (InOrder).  What its handler knows of the last *)
(* event, and what the profile is once a handler is through, is what the   *)
(* subscription is (Following).  Time only takes Pro away.                 *)
(***************************************************************************)
AtWork(h, a) == task[h].step # "idle" /\ AccountOf(task[h].e) = a
IsLast(a, e) == e \in EventsOf(a) /\ \A d \in EventsOf(a) : d <= e

\* An event says what its subscription was; the latest, what it is.
Announced ==
    /\ \A e \in DOMAIN event :
          /\ sub[event[e].id].account = AccountOf(e)
          /\ event[e].as.ended <= now
          /\ (\A d \in DOMAIN event : event[d].id = event[e].id => d <= e) => sub[event[e].id] = event[e].as
    /\ \A e \in EventIds : e \notin DOMAIN event => ~log[e].claimed /\ ~acked[e]
    /\ \A a \in Accounts : EventsOf(a) # {} => \E e \in EventIds : IsLast(a, e)

\* A handler writes to the account of its event.
Addressed == \A h \in Handlers : task[h].step \in {"read", "write"} => task[h].as.account = AccountOf(task[h].e)

AnsweredBefore(a, e) == \A d \in EventsOf(a) : d < e => acked[d]
InOrder ==
    \A a \in Accounts : a \notin mixed =>
        /\ \A e \in EventsOf(a) : (log[e].claimed \/ acked[e]) => AnsweredBefore(a, e)
        /\ \A h \in Handlers : AtWork(h, a) =>
              /\ ~acked[task[h].e] /\ AnsweredBefore(a, task[h].e)
              /\ \A g \in Handlers : AtWork(g, a) => g = h

\* A profile, or an update of one, agrees with a subscription.
Agrees(p, s) ==
    /\ GrantsPro(s) => p.tier = "pro" /\ p.until >= s.end
    /\ (s.ended # 0 \/ s.status = "unpaid") => p.tier = "free"

KnowsLast(t, p, s) ==
    /\ t.step \in {"read", "write"} => t.as = s
    /\ t.step = "write" => Agrees(t.update, s)
    /\ t.step = "stamp" => Agrees(p, s)

Following ==
    \A a \in Accounts, e \in EventIds :
        (a \notin mixed /\ ~profile[a].comped /\ IsLast(a, e)) =>
            /\ (log[e].processed \/ acked[e]) => Agrees(profile[a], event[e].as)
            /\ \A h \in Handlers : (task[h].step # "idle" /\ task[h].e = e) =>
                   KnowsLast(task[h], profile[a], event[e].as)

FollowInv == IInv /\ Announced /\ Addressed /\ InOrder /\ Following

LEMMA FollowInit == Init => FollowInv
  <1> SUFFICES ASSUME Init PROVE FollowInv
    OBVIOUS
  <1>1. DOMAIN event = {} /\ \A a : EventsOf(a) = {}
    BY DEF Init, EventsOf
  <1>2. Announced
    BY <1>1 DEF Init, Announced, NoEvent
  <1>3. Addressed /\ InOrder /\ Following
    BY <1>1 DEF Init, Addressed, InOrder, AtWork, Following, IsLast, Idle
  <1> QED
    BY <1>2, <1>3, InitSound DEF FollowInv

LEMMA EventFacts ==
  ASSUME IInv
  PROVE  /\ DOMAIN event = 1 .. Len(event) /\ Len(event) \in Nat /\ DOMAIN event \subseteq EventIds
         /\ \A e \in DOMAIN event : AccountOf(e) \in Accounts /\ event[e].as \in SubscriptionRecords
         /\ \A a : EventsOf(a) \subseteq EventIds /\ \A e \in EventsOf(a) : e \in DOMAIN event /\ AccountOf(e) = a
         /\ \A a, e, d : IsLast(a, e) /\ IsLast(a, d) => e = d
  <1>1. DOMAIN event = 1 .. Len(event) /\ Len(event) \in Nat /\ DOMAIN event \subseteq EventIds
    BY EventIdsOf DEF IInv, PolarTypes
  <1>2. \A e \in DOMAIN event : AccountOf(e) \in Accounts /\ event[e].as \in SubscriptionRecords
    BY EventIdsOf DEF IInv, Events, AccountOf, SubscriptionRecords
  <1>3. \A a : EventsOf(a) \subseteq EventIds /\ \A e \in EventsOf(a) : e \in DOMAIN event /\ AccountOf(e) = a
    BY <1>1 DEF EventsOf
  <1>4. \A a, e, d : IsLast(a, e) /\ IsLast(a, d) => e = d
    BY <1>3 DEF IsLast, EventIds
  <1> QED
    BY <1>1, <1>2, <1>3, <1>4

\* A new event is its account's last, and nobody has heard of it.
LEMMA EmitFollows ==
  ASSUME FollowInv, NEW s \in Subscriptions, NEW as \in SubscriptionRecords,
         NEW kind \in {"subscription", "order"}, Emit(s, as, kind), as.ended <= now,
         sub[s] # NoSubscription => as.account = sub[s].account
  PROVE  FollowInv'
  <1> DEFINE new == [kind |-> kind, id |-> s, as |-> as]
  <1>n. PICK n : n = Len(event) + 1
    OBVIOUS
  <1>0. IInv /\ Announced /\ Addressed /\ InOrder /\ Following
    BY DEF FollowInv
  <1>1. /\ Len(event) < MaxEvents /\ event' = Append(event, new) /\ sub' = [sub EXCEPT ![s] = as]
        /\ UNCHANGED <<now, acked, log, profile, task, run, applied, mixed>>
    BY DEF Emit, history
  <1>2. new.id = s /\ new.as = as
    OBVIOUS
  <1>3. /\ DOMAIN event = 1 .. Len(event) /\ Len(event) \in Nat /\ DOMAIN event \subseteq EventIds
        /\ event \in Seq(Events)
    BY <1>0, EventFacts DEF IInv, PolarTypes
  <1>4. new \in Events
    BY DEF Events
  <1> HIDE DEF new
  <1>5. /\ DOMAIN event' = 1 .. n /\ event'[n] = new /\ n \in EventIds /\ n \in Nat
        /\ \A e \in DOMAIN event : event'[e] = event[e] /\ e < n
        /\ \A e \in DOMAIN event' : e = n \/ e \in DOMAIN event
    <2>1. Len(event') = n /\ event' \in Seq(Events) /\ event'[n] = new
      BY <1>n, <1>1, <1>3, <1>4
    <2>2. \A e \in DOMAIN event : event'[e] = event[e] /\ e < n
      BY <1>n, <1>1, <1>3, <1>4
    <2> QED
      BY <1>n, <1>1, <1>3, <2>1, <2>2, BillingAssumption DEF EventIds
  <1>6. n \notin DOMAIN event
    BY <1>3, <1>5
  <1>7. PICK b : b = as.account
    OBVIOUS
  <1>8. /\ \A e \in DOMAIN event : AccountOf(e)' = AccountOf(e)
        /\ AccountOf(n)' = b
    BY <1>2, <1>5, <1>7 DEF AccountOf
  <1>9. /\ \A a : a # b => EventsOf(a)' = EventsOf(a)
        /\ EventsOf(b)' = EventsOf(b) \cup {n}
    <2>1. DOMAIN event' = DOMAIN event \cup {n}
      BY <1>n, <1>3, <1>5
    <2> QED
      BY <1>8, <2>1 DEF EventsOf
  <1>10. \A a, e : a # b => (IsLast(a, e)' <=> IsLast(a, e))
    BY <1>9 DEF IsLast
  <1>11. \A e : IsLast(b, e)' <=> e = n
    <2>1. \A e \in EventsOf(b) : e \in DOMAIN event
      BY DEF EventsOf
    <2> QED
      BY <1>3, <1>5, <1>9, <2>1 DEF IsLast
  <1>12. Announced'
    <2>1. ASSUME NEW e \in DOMAIN event'
          PROVE  /\ sub'[event'[e].id].account = AccountOf(e)'
                 /\ event'[e].as.ended <= now'
                 /\ (\A d \in DOMAIN event' : event'[d].id = event'[e].id => d <= e) => sub'[event'[e].id] = event'[e].as
      <3>1. CASE e = n
        BY <1>0, <1>1, <1>2, <1>5, <1>7, <1>8, <3>1 DEF IInv, PolarTypes
      <3>2. CASE e \in DOMAIN event
        <4>1. event'[e] = event[e] /\ AccountOf(e)' = AccountOf(e) /\ event[e].id \in Subscriptions
          BY <1>0, <1>5, <1>8, <3>2, EventIdsOf DEF IInv, Events
        <4>2. CASE event[e].id = s
          <5>1. sub[s] \in SubscriptionRecords
            BY <1>0, <3>2, <4>2 DEF IInv, PolarTypes
          <5>2. sub[s] # NoSubscription
            BY <5>1, BillingAssumption DEF SubscriptionRecords, NoSubscription
          <5>3. sub'[s] = as /\ as.account = AccountOf(e)
            BY <1>0, <1>1, <3>2, <4>2, <5>2 DEF IInv, PolarTypes, Announced
          <5>4. ~(\A d \in DOMAIN event' : event'[d].id = event'[e].id => d <= e)
            <6>1. n \in DOMAIN event' /\ event'[n].id = event'[e].id /\ e < n /\ e \in Nat
              BY <1>2, <1>3, <1>5, <3>2, <4>1, <4>2
            <6> QED
              BY <6>1, <1>5
          <5> QED
            BY <1>0, <1>1, <3>2, <4>1, <4>2, <5>3, <5>4 DEF Announced
        <4>3. CASE event[e].id # s
          <5>1. sub'[event[e].id] = sub[event[e].id]
            BY <1>0, <1>1, <4>1, <4>3 DEF IInv, PolarTypes
          <5>2. (\A d \in DOMAIN event' : event'[d].id = event'[e].id => d <= e) =>
                   \A d \in DOMAIN event : event[d].id = event[e].id => d <= e
            BY <1>3, <1>5, <4>1
          <5> QED
            BY <1>0, <1>1, <3>2, <4>1, <5>1, <5>2 DEF Announced
        <4> QED
          BY <4>2, <4>3
      <3> QED
        BY <1>5, <3>1, <3>2
    <2>2. \A e \in EventIds : e \notin DOMAIN event' => ~log'[e].claimed /\ ~acked'[e]
      BY <1>0, <1>1, <1>3, <1>5 DEF Announced
    <2>3. ASSUME NEW a \in Accounts, EventsOf(a)' # {} PROVE \E e \in EventIds : IsLast(a, e)'
      <3>1. CASE a = b
        BY <1>5, <1>11, <3>1
      <3>2. CASE a # b
        BY <1>0, <1>9, <1>10, <2>3, <3>2 DEF Announced
      <3> QED
        BY <3>1, <3>2
    <2> QED
      BY <2>1, <2>2, <2>3 DEF Announced
  <1>13. \A h \in Handlers : task[h].step # "idle" => /\ task[h].e \in DOMAIN event
                                                     /\ task' = task
                                                     /\ AccountOf(task[h].e)' = AccountOf(task[h].e)
    BY <1>0, <1>1, <1>8, EventOf
  <1>14. Addressed'
    BY <1>0, <1>1, <1>13 DEF Addressed
  <1>15. \A a, e : e \in DOMAIN event => (AnsweredBefore(a, e)' <=> AnsweredBefore(a, e))
    <2> SUFFICES ASSUME NEW a, NEW e, e \in DOMAIN event
                 PROVE  AnsweredBefore(a, e)' <=> AnsweredBefore(a, e)
      OBVIOUS
    <2>1. ~(n < e)
      BY <1>3, <1>5
    <2> QED
      BY <1>1, <1>9, <2>1 DEF AnsweredBefore
  <1>16. InOrder'
    <2> SUFFICES ASSUME NEW a \in Accounts, a \notin mixed
                 PROVE  /\ \A e \in EventsOf(a)' : (log[e].claimed \/ acked[e]) => AnsweredBefore(a, e)'
                        /\ \A h \in Handlers : AtWork(h, a)' =>
                              /\ ~acked[task[h].e] /\ AnsweredBefore(a, task[h].e)'
                              /\ \A g \in Handlers : AtWork(g, a)' => g = h
      BY <1>1 DEF InOrder
    <2>1. ASSUME NEW e \in EventsOf(a)', log[e].claimed \/ acked[e] PROVE AnsweredBefore(a, e)'
      <3>1. e # n
        BY <1>0, <1>5, <1>6, <2>1 DEF Announced
      <3>2. e \in EventsOf(a) /\ e \in DOMAIN event
        BY <1>9, <3>1 DEF EventsOf
      <3> QED
        BY <1>0, <1>15, <2>1, <3>2 DEF InOrder
    <2>2. \A h \in Handlers : AtWork(h, a)' => AtWork(h, a) /\ task[h].e \in DOMAIN event
      BY <1>1, <1>13 DEF AtWork
    <2>3. ASSUME NEW h \in Handlers, AtWork(h, a)'
          PROVE  /\ ~acked[task[h].e] /\ AnsweredBefore(a, task[h].e)'
                 /\ \A g \in Handlers : AtWork(g, a)' => g = h
      <3>1. AtWork(h, a) /\ task[h].e \in DOMAIN event
        BY <2>2, <2>3
      <3>2. ~acked[task[h].e] /\ AnsweredBefore(a, task[h].e) /\ \A g \in Handlers : AtWork(g, a) => g = h
        BY <1>0, <3>1 DEF InOrder
      <3>3. \A x : x \in DOMAIN event => (AnsweredBefore(a, x)' <=> AnsweredBefore(a, x))
        BY <1>15
      <3>4. AnsweredBefore(a, task[h].e)'
        <4>1. PICK x : x = task[h].e
          OBVIOUS
        <4>2. task'[h].e = x
          BY <1>1, <4>1
        <4>3. AnsweredBefore(a, x)'
          BY <3>1, <3>2, <3>3, <4>1
        <4> QED
          BY <4>2, <4>3 DEF AnsweredBefore
      <3> QED
        BY <2>2, <3>2, <3>4
    <2> QED
      BY <2>1, <2>3
  <1>17. Following'
    <2> SUFFICES ASSUME NEW a \in Accounts, NEW e \in EventIds, a \notin mixed, ~profile[a].comped, IsLast(a, e)'
                 PROVE  /\ (log[e].processed \/ acked[e]) => Agrees(profile[a], event[e].as)'
                        /\ \A h \in Handlers : (task[h].step # "idle" /\ task[h].e = e) =>
                              KnowsLast(task[h], profile[a], event[e].as)'
      BY <1>1 DEF Following
    <2>1. CASE a = b
      <3>1. e = n
        BY <1>11, <2>1
      <3>2. ~log[e].processed /\ ~acked[e]
        BY <1>0, <1>6, <3>1 DEF Announced, IInv, Tables, NoEvent
      <3> QED
        BY <1>6, <1>13, <3>1, <3>2
    <2>2. CASE a # b
      <3>1. IsLast(a, e)
        BY <1>10, <2>2
      <3>2. event'[e] = event[e]
        BY <1>5, <3>1 DEF IsLast, EventsOf
      <3> QED
        BY <1>0, <1>1, <3>1, <3>2 DEF Following, Agrees, KnowsLast, GrantsPro, PeriodStillActive, AlreadyEnded
    <2> QED
      BY <2>1, <2>2
  <1>18. IInv'
    BY <1>0, EmitKeeps
  <1> QED
    BY <1>12, <1>14, <1>16, <1>17, <1>18 DEF FollowInv

\* The end of an event's handling, or one step of it: nobody else's events are
\* touched, and only the handler's own account.
LEMMA MoveFollows ==
  ASSUME FollowInv, IInv', NEW h \in Handlers, task[h].step # "idle", NEW t,
         task' = [task EXCEPT ![h] = t], t.step # "idle" => t.e = task[h].e,
         UNCHANGED <<now, sub, event, mixed>>,
         \A d \in EventIds : d # task[h].e => log'[d] = log[d] /\ acked'[d] = acked[d],
         acked[task[h].e] => acked'[task[h].e],
         acked'[task[h].e] => acked[task[h].e] \/ t.step = "idle",
         \A a \in Accounts : a # AccountOf(task[h].e) => profile'[a] = profile[a],
         \A a \in Accounts : profile[a].comped => profile'[a].comped,
         t.step \in {"read", "write"} => t.as.account = AccountOf(task[h].e),
         \A a \in Accounts : (a \notin mixed /\ ~profile'[a].comped /\ IsLast(a, task[h].e)) =>
             /\ (log'[task[h].e].processed \/ acked'[task[h].e]) => Agrees(profile'[a], event[task[h].e].as)
             /\ KnowsLast(t, profile'[a], event[task[h].e].as)
  PROVE  FollowInv'
  <1>e. PICK e : e = task[h].e
    OBVIOUS
  <1>0. IInv /\ Announced /\ Addressed /\ InOrder /\ Following
    BY DEF FollowInv
  <1>1. /\ e \in DOMAIN event /\ e \in EventIds /\ AccountOf(e) \in Accounts
        /\ UNCHANGED <<now, sub, event, mixed>>
        /\ DOMAIN event \subseteq EventIds
    BY <1>0, <1>e, EventOf, EventFacts
  <1>2. task'[h] = t /\ \A g \in Handlers : g # h => task'[g] = task[g]
    BY <1>0 DEF IInv, Tasks
  <1>3. /\ \A x : AccountOf(x)' = AccountOf(x)
        /\ \A a : EventsOf(a)' = EventsOf(a)
        /\ \A a, x : IsLast(a, x)' <=> IsLast(a, x)
    BY <1>1 DEF AccountOf, EventsOf, IsLast
  <1>4. AtWork(h, AccountOf(e))
    BY <1>e DEF AtWork
  <1>5. \A a : /\ AtWork(h, a)' => AtWork(h, a) /\ task'[h].e = e
               /\ \A g \in Handlers : g # h => (AtWork(g, a)' <=> AtWork(g, a))
    BY <1>2, <1>3, <1>e DEF AtWork
  <1>6. Announced'
    BY <1>0, <1>1, <1>3, <1>e DEF Announced
  <1>7. Addressed'
    <2>2. ASSUME NEW g \in Handlers, task'[g].step \in {"read", "write"}
          PROVE  (task[g].as.account = AccountOf(task[g].e))'
      <3>1. CASE g = h
        <4>1. t.e = e /\ t.step \in {"read", "write"}
          BY <1>2, <1>e, <2>2, <3>1
        <4>2. AccountOf(t.e)' = AccountOf(e)
          BY <1>1, <1>e, <4>1 DEF AccountOf
        <4> QED
          BY <1>1, <1>2, <1>e, <3>1, <4>1 DEF AccountOf
      <3>2. CASE g # h
        BY <1>0, <1>1, <1>2, <2>2, <3>2 DEF Addressed, AccountOf
      <3> QED
        BY <3>1, <3>2
    <2> QED
      BY <2>2 DEF Addressed
  <1>8. \A d \in EventIds : acked[d] => acked'[d]
    BY <1>e
  <1>9. \A a, x : AnsweredBefore(a, x) => AnsweredBefore(a, x)'
    BY <1>0, <1>3, <1>8, EventFacts DEF AnsweredBefore
  <1>10. ASSUME NEW a \in Accounts, a \notin mixed, AccountOf(e) = a
         PROVE  /\ ~acked[e] /\ AnsweredBefore(a, e)
                /\ \A g \in Handlers : AtWork(g, a) => g = h
    BY <1>0, <1>4, <1>10, <1>e DEF InOrder
  <1>11. InOrder'
    <2> SUFFICES ASSUME NEW a \in Accounts, a \notin mixed
                 PROVE  /\ \A d \in EventsOf(a) : (log'[d].claimed \/ acked'[d]) => AnsweredBefore(a, d)'
                        /\ \A g \in Handlers : AtWork(g, a)' =>
                              /\ ~acked'[task'[g].e] /\ AnsweredBefore(a, task[g].e)'
                              /\ \A k \in Handlers : AtWork(k, a)' => k = g
      BY <1>1, <1>3 DEF InOrder
    <2>1. ASSUME NEW d \in EventsOf(a), log'[d].claimed \/ acked'[d] PROVE AnsweredBefore(a, d)'
      <3>1. d \in EventIds /\ AccountOf(d) = a
        BY <1>0, EventFacts
      <3>2. CASE d = e
        BY <1>9, <1>10, <3>1, <3>2
      <3>3. CASE d # e
        BY <1>0, <1>9, <1>e, <2>1, <3>1, <3>3 DEF InOrder
      <3> QED
        BY <3>2, <3>3
    <2>2. ASSUME NEW g \in Handlers, AtWork(g, a)'
          PROVE  /\ ~acked'[task'[g].e] /\ AnsweredBefore(a, task[g].e)'
                 /\ \A k \in Handlers : AtWork(k, a)' => k = g
      <3>1. AtWork(g, a) /\ task'[g].e = task[g].e /\ task[g].e \in EventIds
        <4>1. task[g].step # "idle" => task[g].e \in EventIds
          BY <1>0, EventOf
        <4> QED
          BY <1>2, <1>5, <1>e, <2>2, <4>1 DEF AtWork
      <3>2. ~acked[task[g].e] /\ AnsweredBefore(a, task[g].e) /\ \A k \in Handlers : AtWork(k, a) => k = g
        BY <1>0, <3>1 DEF InOrder
      <3>3. PICK d : d = task[g].e
        OBVIOUS
      <3>4. AnsweredBefore(a, task[g].e)'
        <4>1. AnsweredBefore(a, d)' /\ task'[g].e = d
          BY <1>9, <3>1, <3>2, <3>3
        <4> QED
          BY <4>1 DEF AnsweredBefore
      <3>5. \A k \in Handlers : AtWork(k, a)' => k = g
        BY <1>5, <3>2
      <3>6. ~acked'[d]
        <4>1. CASE d = e
          <5>1. g = h
            BY <1>4, <3>1, <3>2, <3>3, <4>1 DEF AtWork
          <5>2. t.step # "idle"
            BY <1>2, <2>2, <5>1 DEF AtWork
          <5> QED
            BY <1>e, <3>2, <3>3, <4>1, <5>2
        <4>2. CASE d # e
          BY <1>e, <3>1, <3>2, <3>3, <4>2
        <4> QED
          BY <4>1, <4>2
      <3> QED
        BY <3>1, <3>3, <3>4, <3>5, <3>6
    <2> QED
      BY <2>1, <2>2
  <1>12. ASSUME NEW a \in Accounts, NEW d \in EventIds, a \notin mixed, ~profile'[a].comped, IsLast(a, d)
         PROVE  /\ (log'[d].processed \/ acked'[d]) => Agrees(profile'[a], event[d].as)
                /\ \A g \in Handlers : (task'[g].step # "idle" /\ task'[g].e = d) =>
                      KnowsLast(task'[g], profile'[a], event[d].as)
    <2>1. d \in DOMAIN event /\ AccountOf(d) = a /\ d \in EventsOf(a)
      BY <1>0, <1>12, EventFacts DEF IsLast
    <2>2. CASE d = e
      <3>1. ASSUME NEW g \in Handlers, task'[g].step # "idle", task'[g].e = d PROVE task'[g] = t
        <4>1. AtWork(g, a)'
          BY <1>3, <2>1, <3>1 DEF AtWork
        <4>2. g = h
          BY <1>2, <1>5, <1>10, <1>12, <2>1, <2>2, <4>1
        <4> QED
          BY <1>2, <4>2
      <3> QED
        BY <1>12, <1>e, <2>2, <3>1
    <2>3. CASE d # e /\ AccountOf(e) = a
      <3>1. ~acked[e] /\ e \in EventsOf(a) /\ e < d
        BY <1>0, <1>1, <1>10, <1>12, <2>3, EventFacts DEF IsLast, EventsOf, EventIds
      <3>2. ~log[d].claimed /\ ~acked[d]
        BY <1>0, <1>12, <2>1, <3>1 DEF InOrder, AnsweredBefore
      <3>3. ~log[d].processed
        BY <1>0, <3>2 DEF IInv, Tables, NoEvent
      <3>4. ASSUME NEW g \in Handlers, task'[g].step # "idle", task'[g].e = d PROVE FALSE
        <4>1. AtWork(g, a)'
          BY <1>3, <2>1, <3>4 DEF AtWork
        <4>2. g = h
          BY <1>2, <1>5, <1>10, <1>12, <2>3, <4>1
        <4> QED
          BY <1>2, <1>e, <2>3, <3>4, <4>2
      <3> QED
        BY <1>e, <2>3, <3>2, <3>3, <3>4
    <2>4. CASE d # e /\ AccountOf(e) # a
      <3>1. profile'[a] = profile[a] /\ log'[d] = log[d] /\ acked'[d] = acked[d] /\ ~profile[a].comped
        BY <1>12, <1>e, <2>4
      <3>2. \A g \in Handlers : (task'[g].step # "idle" /\ task'[g].e = d) => task'[g] = task[g]
        BY <1>2, <1>e, <2>4
      <3> QED
        BY <1>0, <1>12, <3>1, <3>2 DEF Following
    <2> QED
      BY <2>2, <2>3, <2>4
  <1>13. Following'
    <2> SUFFICES ASSUME NEW a \in Accounts, NEW d \in EventIds,
                        a \notin mixed', ~profile'[a].comped, IsLast(a, d)'
                 PROVE  /\ (log'[d].processed \/ acked'[d]) => Agrees(profile[a], event[d].as)'
                        /\ \A g \in Handlers : (task'[g].step # "idle" /\ task'[g].e = d) =>
                              KnowsLast(task[g], profile[a], event[d].as)'
      BY DEF Following
    <2>2. /\ (log'[d].processed \/ acked'[d]) => Agrees(profile'[a], event[d].as)
          /\ \A g \in Handlers : (task'[g].step # "idle" /\ task'[g].e = d) =>
                KnowsLast(task'[g], profile'[a], event[d].as)
      BY <1>1, <1>3, <1>12
    <2>3. Agrees(profile[a], event[d].as)' <=> Agrees(profile'[a], event'[d].as)
      BY <1>1 DEF Agrees, GrantsPro, PeriodStillActive, AlreadyEnded
    <2>4. \A g \in Handlers : Agrees(task[g].update, event[d].as)' <=> Agrees(task'[g].update, event'[d].as)
      BY <1>1 DEF Agrees, GrantsPro, PeriodStillActive, AlreadyEnded
    <2> QED
      BY <1>1, <2>2, <2>3, <2>4 DEF KnowsLast
  <1> QED
    BY <1>6, <1>7, <1>11, <1>13 DEF FollowInv

\* A handler that gives up, or goes on without having learnt anything.
LEMMA HopFollows ==
  ASSUME FollowInv, IInv', NEW h \in Handlers, task[h].step # "idle",
         (\E step \in {"prior", "resolve", "fail"} : Goto(h, step)) \/ Done(h),
         UNCHANGED <<now, sub, event, acked, profile, mixed>>,
         \A d \in EventIds : d # task[h].e => log'[d] = log[d],
         log'[task[h].e].processed => log[task[h].e].processed
  PROVE  FollowInv'
  <1>0. IInv /\ Following
    BY DEF FollowInv
  <1>1. PICK t : /\ task' = [task EXCEPT ![h] = t]
                 /\ t.step # "idle" => t.e = task[h].e
                 /\ t.step \in {"prior", "resolve", "fail", "idle"}
    <2>1. CASE Done(h)
      <3>1. task' = [task EXCEPT ![h] = Idle] /\ Idle.step = "idle"
        BY <2>1 DEF Done, Idle
      <3> QED
        BY <3>1
    <2>2. ASSUME NEW step \in {"prior", "resolve", "fail"}, Goto(h, step)
          PROVE  \E t : /\ task' = [task EXCEPT ![h] = t]
                        /\ t.step # "idle" => t.e = task[h].e
                        /\ t.step \in {"prior", "resolve", "fail", "idle"}
      <3> DEFINE t == [Idle EXCEPT !.step = step, !.e = task[h].e]
      <3>1. task' = [task EXCEPT ![h] = t]
        BY <2>2 DEF Goto
      <3>2. t.step = step /\ t.e = task[h].e
        BY DEF Idle
      <3> HIDE DEF t
      <3> QED
        BY <3>1, <3>2
    <2> QED
      BY <2>1, <2>2
  <1>2. task[h].e \in EventIds /\ task[h].e \in DOMAIN event
    BY <1>0, EventOf
  <1>3. ASSUME NEW a \in Accounts, a \notin mixed, ~profile'[a].comped, IsLast(a, task[h].e)
        PROVE  /\ (log'[task[h].e].processed \/ acked'[task[h].e]) => Agrees(profile'[a], event[task[h].e].as)
               /\ KnowsLast(t, profile'[a], event[task[h].e].as)
    BY <1>0, <1>1, <1>2, <1>3 DEF Following, KnowsLast
  <1>4. t.step \notin {"read", "write"}
    BY <1>1
  <1> QED
    BY <1>1, <1>3, <1>4, MoveFollows

LEMMA ClaimFollows == ASSUME FollowInv, NEW h \in Handlers, Claim(h) PROVE FollowInv'
  <1>0. IInv /\ IInv'
    BY ClaimKeeps DEF FollowInv
  <1>1. /\ task[h].step = "claim"
        /\ UNCHANGED <<now, sub, event, acked, profile, mixed>>
        /\ Goto(h, "resolve") \/ Goto(h, "prior") \/ Done(h)
        /\ UNCHANGED log \/ log' = [log EXCEPT ![task[h].e].claimed = TRUE]
    BY DEF Claim, polarVars, history
  <1>2. task[h].e \in EventIds
    BY <1>0, <1>1, EventOf
  <1>3. \A d \in EventIds : (d # task[h].e => log'[d] = log[d]) /\ (log'[d].processed => log[d].processed)
    BY <1>0, <1>1, <1>2 DEF IInv, Tables, LogRecords
  <1> QED
    BY <1>0, <1>1, <1>2, <1>3, HopFollows

LEMMA FailFollows ==
  ASSUME FollowInv, NEW h \in Handlers, NEW noted \in BOOLEAN, Fail(h, noted)
  PROVE  FollowInv'
  <1>0. IInv /\ IInv'
    BY FailKeeps DEF FollowInv
  <1>1. /\ task[h].step = "fail" /\ Done(h)
        /\ UNCHANGED <<now, sub, event, acked, profile, mixed>>
        /\ log' = [log EXCEPT ![task[h].e].error = @ \/ noted]
    BY DEF Fail, polarVars, history
  <1>2. task[h].e \in EventIds
    BY <1>0, <1>1, EventOf
  <1>3. \A d \in EventIds : (d # task[h].e => log'[d] = log[d]) /\ (log'[d].processed => log[d].processed)
    BY <1>0, <1>1, <1>2 DEF IInv, Tables, LogRecords
  <1> QED
    BY <1>0, <1>1, <1>2, <1>3, HopFollows

LEMMA CrashFollows == ASSUME FollowInv, NEW h \in Handlers, Crash(h) PROVE FollowInv'
  <1>0. IInv /\ IInv'
    BY CrashKeeps DEF FollowInv
  <1>1. /\ task[h].step # "idle" /\ Done(h)
        /\ UNCHANGED <<now, sub, event, acked, profile, log, mixed>>
    BY DEF Crash, polarVars, history
  <1> QED
    BY <1>0, <1>1, HopFollows

\* A delivery is answered for what an earlier one wrote.
LEMMA PriorFollows ==
  ASSUME FollowInv, NEW h \in Handlers, NEW heard \in BOOLEAN, Prior(h, heard)
  PROVE  FollowInv'
  <1>0. IInv /\ Following /\ IInv'
    BY PriorKeeps DEF FollowInv
  <1>1. task[h].step = "prior" /\ UNCHANGED <<now, sub, event, log, profile, mixed>>
    BY DEF Prior, polarVars, history
  <1>e. PICK e : e = task[h].e
    OBVIOUS
  <1>2. e \in EventIds /\ acked \in [EventIds -> BOOLEAN]
    BY <1>0, <1>1, <1>e, EventOf DEF IInv, PolarTypes
  <1>3. CASE log[e].processed /\ acked' = [acked EXCEPT ![e] = @ \/ heard] /\ Done(h)
    <2>1. task' = [task EXCEPT ![h] = Idle] /\ Idle.step = "idle"
      BY <1>3 DEF Done, Idle
    <2>2. \A d \in EventIds : d # e => acked'[d] = acked[d]
      BY <1>2, <1>3
    <2>3. acked[e] => acked'[e]
      BY <1>2, <1>3
    <2>4. ASSUME NEW a \in Accounts, a \notin mixed, ~profile'[a].comped, IsLast(a, e)
          PROVE  Agrees(profile'[a], event[e].as) /\ KnowsLast(Idle, profile'[a], event[e].as)
      BY <1>0, <1>1, <1>2, <1>3, <2>1, <2>4 DEF Following, KnowsLast
    <2> QED
      BY <1>0, <1>1, <1>e, <2>1, <2>2, <2>3, <2>4, MoveFollows
  <1>4. CASE UNCHANGED acked /\ Goto(h, "resolve")
    BY <1>0, <1>1, <1>4, HopFollows
  <1> QED
    BY <1>3, <1>4, <1>e DEF Prior, Finished

LEMMA StampFollows ==
  ASSUME FollowInv, NEW h \in Handlers, NEW stamped \in BOOLEAN, NEW heard \in BOOLEAN,
         Stamp(h, stamped, heard)
  PROVE  FollowInv'
  <1>0. IInv /\ Following /\ IInv'
    BY StampKeeps DEF FollowInv
  <1>e. PICK e : e = task[h].e
    OBVIOUS
  <1>1. /\ task[h].step = "stamp" /\ UNCHANGED <<now, sub, event, profile, mixed>>
        /\ log' = [log EXCEPT ![e].processed = @ \/ stamped]
        /\ acked' = [acked EXCEPT ![e] = @ \/ heard]
        /\ task' = [task EXCEPT ![h] = Idle] /\ Idle.step = "idle"
    BY <1>e DEF Stamp, polarVars, history, Done, Idle
  <1>2. e \in EventIds /\ e \in DOMAIN event /\ acked \in [EventIds -> BOOLEAN] /\ log \in [EventIds -> LogRecords]
    BY <1>0, <1>1, <1>e, EventOf DEF IInv, PolarTypes, Tables
  <1>3. \A d \in EventIds : d # e => acked'[d] = acked[d] /\ log'[d] = log[d]
    BY <1>1, <1>2
  <1>4. acked[e] => acked'[e]
    BY <1>1, <1>2
  <1>5. ASSUME NEW a \in Accounts, a \notin mixed, ~profile'[a].comped, IsLast(a, e)
        PROVE  Agrees(profile'[a], event[e].as) /\ KnowsLast(Idle, profile'[a], event[e].as)
    BY <1>0, <1>1, <1>2, <1>5, <1>e DEF Following, KnowsLast
  <1> QED
    BY <1>0, <1>1, <1>e, <1>3, <1>4, <1>5, MoveFollows

\* An order asks Polar for its subscription; after the last event that is what
\* the event said.
LEMMA ResolveFollows == ASSUME FollowInv, NEW h \in Handlers, Resolve(h) PROVE FollowInv'
  <1>0. IInv /\ Following /\ Announced /\ IInv'
    BY ResolveKeeps DEF FollowInv
  <1>1. task[h].step = "resolve" /\ UNCHANGED <<now, sub, event, acked, log, profile, mixed>>
    BY DEF Resolve, polarVars, history
  <1>e. PICK e : e = task[h].e
    OBVIOUS
  <1>2. /\ e \in EventIds /\ e \in DOMAIN event /\ task[h] \in TaskRecords
        /\ task \in [Handlers -> TaskRecords]
    BY <1>0, <1>1, <1>e, EventOf DEF IInv, Tasks
  <1>3. CASE Goto(h, "fail")
    BY <1>0, <1>1, <1>3, HopFollows
  <1>4. CASE task' = [task EXCEPT ![h].step = "read",
                                  ![h].as = IF event[e].kind = "order" THEN sub[event[e].id] ELSE event[e].as]
    <2>t. PICK t : t = task'[h]
      OBVIOUS
    <2>s. PICK s : s = IF event[e].kind = "order" THEN sub[event[e].id] ELSE event[e].as
      OBVIOUS
    <2>1. /\ task' = [task EXCEPT ![h] = t] /\ t.step = "read" /\ t.e = e /\ t.as = s
      BY <1>2, <1>4, <1>e, <2>t, <2>s DEF TaskRecords
    <2>2. s.account = AccountOf(e)
      BY <1>0, <1>2, <2>s DEF Announced, AccountOf
    <2>3. ASSUME NEW a \in Accounts, IsLast(a, e) PROVE s = event[e].as
      <3>1. \A d \in DOMAIN event : event[d].id = event[e].id => d \in EventsOf(a)
        BY <1>0, <1>2, <2>3 DEF Announced, EventsOf, IsLast
      <3> QED
        BY <1>0, <1>2, <2>3, <2>s, <3>1 DEF Announced, IsLast
    <2>4. ASSUME NEW a \in Accounts, a \notin mixed, ~profile'[a].comped, IsLast(a, e)
          PROVE  /\ (log'[e].processed \/ acked'[e]) => Agrees(profile'[a], event[e].as)
                 /\ KnowsLast(t, profile'[a], event[e].as)
      BY <1>0, <1>1, <1>2, <2>1, <2>3, <2>4 DEF Following, KnowsLast
    <2> QED
      BY <1>0, <1>1, <1>e, <2>1, <2>2, <2>4, MoveFollows
  <1> QED
    BY <1>3, <1>4, <1>e DEF Resolve

\* What computeTierUpdate makes of a subscription agrees with it.
LEMMA UpdateAgrees ==
  ASSUME IInv, NEW s \in SubscriptionRecords, s.ended <= now, NEW stored \in Times
  PROVE  Agrees(ComputeTierUpdate(s, stored), s)
  <1>1. s.end \in Times /\ s.ended \in Times /\ now \in Times
    BY DEF SubscriptionRecords, IInv, Rest
  <1>2. CASE GrantsPro(s)
    <2>1. ComputeTierUpdate(s, stored) = [tier |-> "pro", until |-> LaterOf(s.end, stored)]
      BY <1>2 DEF ComputeTierUpdate
    <2>2. LaterOf(s.end, stored) >= s.end
      BY <1>1 DEF LaterOf, Times
    <2>3. s.ended = 0 /\ s.status # "unpaid"
      BY <1>1, <1>2 DEF GrantsPro, AlreadyEnded, PRO_STATUSES
    <2> QED
      BY <2>1, <2>2, <2>3 DEF Agrees
  <1>3. CASE ~GrantsPro(s)
    BY <1>3 DEF ComputeTierUpdate, Agrees
  <1> QED
    BY <1>2, <1>3

LEMMA ReadFollows == ASSUME FollowInv, NEW h \in Handlers, Read(h) PROVE FollowInv'
  <1>0. IInv /\ Following /\ Announced /\ Addressed /\ IInv'
    BY ReadKeeps DEF FollowInv
  <1>1. task[h].step = "read" /\ UNCHANGED <<now, sub, event, acked, log, profile, mixed>>
    BY DEF Read, polarVars
  <1>e. PICK e : e = task[h].e
    OBVIOUS
  <1>b. PICK b : b = AccountOf(e)
    OBVIOUS
  <1>2. /\ e \in EventIds /\ e \in DOMAIN event /\ task[h] \in TaskRecords
        /\ task \in [Handlers -> TaskRecords] /\ task[h].as.account = b
        /\ event[e].as \in SubscriptionRecords /\ b \in Accounts /\ profile[b].until \in Times
        /\ event[e].as.ended <= now
    <2>1. e \in EventIds /\ e \in DOMAIN event /\ task[h] \in TaskRecords /\ task \in [Handlers -> TaskRecords]
      BY <1>0, <1>1, <1>e, EventOf DEF IInv, Tasks
    <2>2. task[h].as.account = b
      BY <1>0, <1>1, <1>e, <1>b DEF Addressed
    <2>3. event[e].as \in SubscriptionRecords /\ b \in Accounts
      BY <1>0, <1>b, <2>1, EventFacts
    <2>4. profile[b].until \in Times
      BY <1>0, <2>3 DEF IInv, Tables, Profiles
    <2> QED
      BY <1>0, <2>1, <2>2, <2>3, <2>4 DEF Announced
  <1>3. \A a \in Accounts : IsLast(a, e) => a = b
    BY <1>0, <1>b, EventFacts DEF IsLast
  <1>4. CASE /\ ~profile[b].comped
             /\ task' = [task EXCEPT ![h].step = "write",
                                     ![h].update = ComputeTierUpdate(task[h].as, profile[b].until)]
    <2>t. PICK t : t = task'[h]
      OBVIOUS
    <2>u. PICK u : u = ComputeTierUpdate(task[h].as, profile[b].until)
      OBVIOUS
    <2>1. /\ task' = [task EXCEPT ![h] = t] /\ t.step = "write" /\ t.e = e /\ t.as = task[h].as /\ t.update = u
      BY <1>2, <1>4, <1>e, <2>t, <2>u DEF TaskRecords
    <2>2. ASSUME NEW a \in Accounts, a \notin mixed, ~profile'[a].comped, IsLast(a, e)
          PROVE  /\ (log'[e].processed \/ acked'[e]) => Agrees(profile'[a], event[e].as)
                 /\ KnowsLast(t, profile'[a], event[e].as)
      <3>1. task[h].as = event[e].as /\ ((log[e].processed \/ acked[e]) => Agrees(profile[a], event[e].as))
        BY <1>0, <1>1, <1>2, <1>e, <2>2 DEF Following, KnowsLast
      <3>2. Agrees(u, event[e].as)
        BY <1>0, <1>2, <2>u, <3>1, UpdateAgrees
      <3> QED
        BY <1>1, <2>1, <3>1, <3>2 DEF KnowsLast
    <2> QED
      BY <1>0, <1>1, <1>2, <1>e, <1>b, <2>1, <2>2, MoveFollows
  <1>5. CASE profile[b].comped /\ Goto(h, "stamp")
    <2>t. PICK t : t = [Idle EXCEPT !.step = "stamp", !.e = task[h].e]
      OBVIOUS
    <2>1. task' = [task EXCEPT ![h] = t] /\ t.step = "stamp" /\ t.e = e
      BY <1>0, <1>1, <1>5, <1>e, <2>t, GotoTypes DEF Goto
    <2> QED
      BY <1>0, <1>1, <1>3, <1>5, <1>e, <2>1, MoveFollows
  <1>6. CASE Goto(h, "fail")
    BY <1>0, <1>1, <1>6, HopFollows
  <1> QED
    BY <1>2, <1>4, <1>5, <1>6 DEF Read

LEMMA WriteFollows == ASSUME FollowInv, NEW h \in Handlers, Write(h) PROVE FollowInv'
  <1>0. IInv /\ Following /\ Addressed /\ IInv'
    BY WriteKeeps DEF FollowInv
  <1>1. task[h].step = "write" /\ UNCHANGED <<now, sub, event, acked, log, mixed>>
    BY DEF Write, polarVars
  <1>e. PICK e : e = task[h].e
    OBVIOUS
  <1>b. PICK b : b = AccountOf(e)
    OBVIOUS
  <1>2. /\ e \in EventIds /\ e \in DOMAIN event /\ task[h].as.account = b /\ b \in Accounts
        /\ profile \in [Accounts -> Profiles]
    <2>1. e \in EventIds /\ e \in DOMAIN event
      BY <1>0, <1>1, <1>e, EventOf
    <2>2. b \in Accounts
      BY <1>0, <1>b, <2>1, EventFacts
    <2> QED
      BY <1>0, <1>1, <1>e, <1>b, <2>1, <2>2 DEF Addressed, IInv, Tables
  <1>3. \A a \in Accounts : IsLast(a, e) => a = b
    BY <1>0, <1>b, EventFacts DEF IsLast
  <1>4. CASE /\ profile' = IF Updatable(b)
                           THEN [profile EXCEPT ![b].tier = task[h].update.tier,
                                                ![b].until = task[h].update.until]
                           ELSE profile
             /\ Goto(h, "stamp") \/ Goto(h, "fail")
    <2>t. PICK t : task' = [task EXCEPT ![h] = t] /\ t.step \in {"stamp", "fail"} /\ t.e = e
      BY <1>0, <1>1, <1>4, <1>e, GotoTypes DEF Goto
    <2>1. /\ \A a \in Accounts : a # b => profile'[a] = profile[a]
          /\ \A a \in Accounts : profile'[a].comped = profile[a].comped
          /\ ~profile[b].comped => /\ profile'[b].tier = task[h].update.tier
                                   /\ profile'[b].until = task[h].update.until
      BY <1>2, <1>4 DEF Updatable, Profiles
    <2>2. ASSUME NEW a \in Accounts, a \notin mixed, ~profile'[a].comped, IsLast(a, e)
          PROVE  Agrees(profile'[a], event[e].as)
      <3>1. a = b /\ ~profile[b].comped
        BY <1>3, <2>1, <2>2
      <3>2. Agrees(task[h].update, event[e].as)
        BY <1>0, <1>1, <1>2, <1>e, <2>2, <3>1 DEF Following, KnowsLast
      <3> QED
        BY <2>1, <3>1, <3>2 DEF Agrees
    <2>3. ASSUME NEW a \in Accounts, a \notin mixed, ~profile'[a].comped, IsLast(a, e)
          PROVE  KnowsLast(t, profile'[a], event[e].as)
      BY <2>t, <2>2, <2>3 DEF KnowsLast
    <2>4. t.step \notin {"read", "write"} /\ t.step # "idle"
      BY <2>t
    <2> QED
      BY <1>0, <1>1, <1>2, <1>e, <1>b, <2>t, <2>1, <2>2, <2>3, <2>4, MoveFollows
  <1>5. CASE UNCHANGED profile /\ Goto(h, "fail")
    BY <1>0, <1>1, <1>5, HopFollows
  <1> QED
    BY <1>2, <1>4, <1>5 DEF Write

\* A delivery that nothing overlaps finds every earlier event answered.
LEMMA DeliverFollows ==
  ASSUME FollowInv, NEW h \in Handlers, NEW e \in EventIds, Deliver(h, e)
  PROVE  FollowInv'
  <1>0. IInv /\ Following /\ Announced /\ Addressed /\ InOrder /\ IInv'
    BY DeliverKeeps DEF FollowInv
  <1>t. PICK t : t = [Idle EXCEPT !.step = "claim", !.e = e]
    OBVIOUS
  <1>b. PICK b : b = AccountOf(e)
    OBVIOUS
  <1>1. /\ t.step = "claim" /\ t.e = e /\ task' = [task EXCEPT ![h] = t]
        /\ e \in DOMAIN event /\ ~acked[e] /\ task[h].step = "idle"
        /\ UNCHANGED <<now, sub, event, acked, log, profile>>
    BY <1>t DEF Deliver, polarVars, Idle
  <1>2. task'[h] = t /\ \A g \in Handlers : g # h => task'[g] = task[g]
    BY <1>0, <1>1 DEF IInv, Tasks
  <1>3. \A a \in Accounts : a \notin mixed' => a \notin mixed
    BY DEF Deliver
  <1>4. ASSUME b \notin mixed' PROVE AnsweredBefore(b, e) /\ \A g \in Handlers : ~AtWork(g, b)
    <2>1. /\ {g \in Handlers : task[g] # Idle /\ AccountOf(task[g].e) = b} = {}
          /\ {d \in EventsOf(b) : d < e /\ ~acked[d]} = {}
      BY <1>4, <1>b DEF Deliver
    <2>2. Idle.step = "idle"
      BY DEF Idle
    <2> QED
      BY <2>1, <2>2 DEF AnsweredBefore, AtWork
  <1>5. /\ \A x : AccountOf(x)' = AccountOf(x)
        /\ \A a : EventsOf(a)' = EventsOf(a)
        /\ \A a, x : IsLast(a, x)' <=> IsLast(a, x)
        /\ \A a, x : AnsweredBefore(a, x)' <=> AnsweredBefore(a, x)
    BY <1>1 DEF AccountOf, EventsOf, IsLast, AnsweredBefore
  <1>6. /\ \A a : AtWork(h, a)' <=> a = b
        /\ \A a : \A g \in Handlers : g # h => (AtWork(g, a)' <=> AtWork(g, a))
    <2>1. AccountOf(task[h].e)' = b
      BY <1>1, <1>2, <1>b DEF AccountOf
    <2>2. ASSUME NEW g \in Handlers, g # h PROVE AccountOf(task[g].e)' = AccountOf(task[g].e)
      BY <1>1, <1>2, <2>2 DEF AccountOf
    <2> QED
      BY <1>1, <1>2, <2>1, <2>2 DEF AtWork
  <1>7. Announced'
    BY <1>0, <1>1, <1>5 DEF Announced
  <1>8. Addressed'
    <2>1. ASSUME NEW g \in Handlers, task'[g].step \in {"read", "write"}
          PROVE  (task[g].as.account = AccountOf(task[g].e))'
      <3>1. g # h
        BY <1>1, <1>2, <2>1
      <3> QED
        BY <1>0, <1>1, <1>2, <2>1, <3>1 DEF Addressed, AccountOf
    <2> QED
      BY <2>1 DEF Addressed
  <1>9. InOrder'
    <2> SUFFICES ASSUME NEW a \in Accounts, a \notin mixed'
                 PROVE  /\ \A d \in EventsOf(a) : (log[d].claimed \/ acked[d]) => AnsweredBefore(a, d)
                        /\ \A g \in Handlers : AtWork(g, a)' =>
                              /\ ~acked[task'[g].e] /\ AnsweredBefore(a, task[g].e)'
                              /\ \A k \in Handlers : AtWork(k, a)' => k = g
      BY <1>1, <1>5 DEF InOrder
    <2>1. \A d \in EventsOf(a) : (log[d].claimed \/ acked[d]) => AnsweredBefore(a, d)
      BY <1>0, <1>3 DEF InOrder
    <2>2. ASSUME NEW g \in Handlers, AtWork(g, a)'
          PROVE  /\ ~acked[task'[g].e] /\ AnsweredBefore(a, task[g].e)'
                 /\ \A k \in Handlers : AtWork(k, a)' => k = g
      <3>1. CASE a = b
        <4>1. \A k \in Handlers : AtWork(k, a)' => k = h
          BY <1>4, <1>6, <3>1
        <4>2. g = h /\ task'[g].e = e
          BY <1>1, <1>2, <2>2, <4>1
        <4>3. AnsweredBefore(a, e)'
          BY <1>4, <1>5, <3>1
        <4> QED
          BY <1>1, <4>1, <4>2, <4>3 DEF AnsweredBefore
      <3>2. CASE a # b
        <4>1. g # h /\ AtWork(g, a) /\ task'[g] = task[g]
          BY <1>2, <1>6, <2>2, <3>2
        <4>2. ~acked[task[g].e] /\ AnsweredBefore(a, task[g].e) /\ \A k \in Handlers : AtWork(k, a) => k = g
          BY <1>0, <1>3, <4>1 DEF InOrder
        <4>3. AnsweredBefore(a, task[g].e)'
          <5>1. PICK d : d = task[g].e
            OBVIOUS
          <5>2. AnsweredBefore(a, d)' /\ task'[g].e = d
            BY <1>5, <4>1, <4>2, <5>1
          <5> QED
            BY <5>2 DEF AnsweredBefore
        <4> QED
          BY <1>6, <3>2, <4>1, <4>2, <4>3
      <3> QED
        BY <3>1, <3>2
    <2> QED
      BY <2>1, <2>2
  <1>10. Following'
    <2> SUFFICES ASSUME NEW a \in Accounts, NEW d \in EventIds, a \notin mixed', ~profile[a].comped, IsLast(a, d)
                 PROVE  /\ (log[d].processed \/ acked[d]) => Agrees(profile[a], event[d].as)'
                        /\ \A g \in Handlers : (task'[g].step # "idle" /\ task'[g].e = d) =>
                              KnowsLast(task[g], profile[a], event[d].as)'
      BY <1>1, <1>5 DEF Following
    <2>1. /\ (log[d].processed \/ acked[d]) => Agrees(profile[a], event[d].as)
          /\ \A g \in Handlers : (task[g].step # "idle" /\ task[g].e = d) =>
                KnowsLast(task[g], profile[a], event[d].as)
      BY <1>0, <1>3 DEF Following
    <2>2. KnowsLast(t, profile[a], event[d].as)
      BY <1>1 DEF KnowsLast
    <2>3. \A g \in Handlers : (task'[g].step # "idle" /\ task'[g].e = d) =>
                KnowsLast(task'[g], profile[a], event[d].as)
      BY <1>2, <2>1, <2>2
    <2> QED
      BY <1>1, <2>1, <2>3 DEF KnowsLast, Agrees, GrantsPro, PeriodStillActive, AlreadyEnded
  <1> QED
    BY <1>0, <1>7, <1>8, <1>9, <1>10 DEF FollowInv

\* Nothing else touches an event or a handler; time and the sweep leave what
\* agrees with Polar in agreement.
LEMMA AgreesStays ==
  ASSUME IInv, IInv', now <= now', NEW s \in SubscriptionRecords, NEW p, NEW q,
         p.until \in Int, Agrees(p, s),
         q = p \/ (Lapsed(p) /\ q.tier = "free" /\ q.until = p.until)
  PROVE  Agrees(q, s)'
  <1>1. /\ s.end \in Int /\ s.ended \in Int /\ now \in Int /\ now' \in Int /\ Grace \in Nat
        /\ now - Grace \in Int /\ now - Grace <= now
    BY BillingAssumption DEF SubscriptionRecords, IInv, Rest, Times
  <1>2. GrantsPro(s)' => GrantsPro(s)
    BY <1>1 DEF GrantsPro, PeriodStillActive, AlreadyEnded
  <1>3. CASE q = p
    BY <1>2, <1>3 DEF Agrees
  <1>4. CASE Lapsed(p) /\ q.tier = "free"
    <2>1. ~GrantsPro(s)
      BY <1>1, <1>4 DEF Agrees, GrantsPro, PeriodStillActive, Lapsed
    <2> QED
      BY <1>2, <1>4, <2>1 DEF Agrees
  <1> QED
    BY <1>3, <1>4

LEMMA RestFollows ==
  ASSUME FollowInv, IInv', now <= now', UNCHANGED <<sub, event, acked, task>>, mixed \subseteq mixed',
         \A d \in EventIds : log'[d].claimed = log[d].claimed,
         \A d \in DOMAIN event : log'[d].processed = log[d].processed \/ AccountOf(d) \in mixed',
         \A a \in Accounts : \/ profile'[a].comped
                             \/ profile'[a] = profile[a]
                             \/ /\ Lapsed(profile[a]) /\ profile'[a].tier = "free"
                                /\ profile'[a].until = profile[a].until
  PROVE  FollowInv'
  <1>0. IInv /\ Following /\ Announced /\ Addressed /\ InOrder
    BY DEF FollowInv
  <1>1. /\ \A x : AccountOf(x)' = AccountOf(x)
        /\ \A a : EventsOf(a)' = EventsOf(a)
        /\ \A a, x : IsLast(a, x)' <=> IsLast(a, x)
        /\ \A a, x : AnsweredBefore(a, x)' <=> AnsweredBefore(a, x)
    BY DEF AccountOf, EventsOf, IsLast, AnsweredBefore
  <1>2. Announced'
    <2>1. \A e \in DOMAIN event : event[e].as.ended <= now'
      <3>1. \A e \in DOMAIN event : event[e].as.ended \in Times /\ event[e].as.ended <= now
        BY <1>0, EventFacts DEF SubscriptionRecords, Announced
      <3> QED
        BY <1>0, <3>1 DEF IInv, Rest, Times
    <2> QED
      BY <1>0, <1>1, <2>1 DEF Announced
  <1>3. Addressed'
    BY <1>0 DEF Addressed, AccountOf
  <1>4. InOrder'
    <2>1. \A e \in EventIds : (log'[e].claimed \/ acked'[e]) => (log[e].claimed \/ acked[e])
      OBVIOUS
    <2>2. \A a : EventsOf(a) \subseteq EventIds
      BY <1>0, EventFacts
    <2>3. \A a : \A h \in Handlers : /\ AtWork(h, a)' <=> AtWork(h, a)
                                     /\ AnsweredBefore(a, task[h].e)' <=> AnsweredBefore(a, task[h].e)
      BY DEF AtWork, AccountOf, AnsweredBefore, EventsOf
    <2> QED
      BY <1>0, <1>1, <2>1, <2>2, <2>3 DEF InOrder
  <1>5. Following'
    <2> SUFFICES ASSUME NEW a \in Accounts, NEW e \in EventIds, a \notin mixed', ~profile'[a].comped, IsLast(a, e),
                        log'[e].processed = log[e].processed
                 PROVE  /\ (log[e].processed \/ acked[e]) => Agrees(profile[a], event[e].as)'
                        /\ \A h \in Handlers : (task[h].step # "idle" /\ task[h].e = e) =>
                              KnowsLast(task[h], profile[a], event[e].as)'
      <3>1. \A b \in Accounts, d \in EventIds : b \notin mixed' /\ IsLast(b, d) => log'[d].processed = log[d].processed
        BY <1>0, EventFacts DEF IsLast
      <3> QED
        BY <1>1, <3>1 DEF Following
    <2>s. PICK s : s = event[e].as
      OBVIOUS
    <2>1. s \in SubscriptionRecords /\ event'[e].as = s
      BY <1>0, <2>s, EventFacts DEF IsLast
    <2>2. profile[a].until \in Int /\ ~profile[a].comped
      BY <1>0 DEF IInv, Tables, Profiles, Times, Lapsed
    <2>3. Agrees(profile[a], s) => Agrees(profile[a], s)'
      <3>1. PICK q : q = profile'[a]
        OBVIOUS
      <3>2. Agrees(profile[a], s) => Agrees(q, s)'
        BY <1>0, <2>1, <2>2, <3>1, AgreesStays
      <3> QED
        BY <3>1, <3>2 DEF Agrees
    <2>4. ASSUME NEW h \in Handlers, task[h].step = "write", task[h].e = e PROVE Agrees(task[h].update, s)'
      <3>1. Agrees(task[h].update, s) /\ task[h].update.until \in Int
        BY <1>0, <2>s, <2>2, <2>4 DEF Following, KnowsLast, IInv, Tasks, TaskRecords, Updates, Times
      <3>2. PICK u : u = task[h].update
        OBVIOUS
      <3>3. Agrees(u, s)'
        BY <1>0, <2>1, <3>1, <3>2, AgreesStays
      <3> QED
        BY <3>2, <3>3 DEF Agrees
    <2>5. ASSUME NEW h \in Handlers, task[h].step # "idle", task[h].e = e
          PROVE  KnowsLast(task[h], profile[a], event[e].as)'
      <3>1. KnowsLast(task[h], profile[a], s)
        BY <1>0, <2>s, <2>2, <2>5 DEF Following
      <3> QED
        BY <2>1, <2>3, <2>4, <2>5, <3>1 DEF KnowsLast
    <2>6. (log[e].processed \/ acked[e]) => Agrees(profile[a], event[e].as)'
      BY <1>0, <2>1, <2>2, <2>s, <2>3 DEF Following
    <2> QED
      BY <2>5, <2>6
  <1> QED
    BY <1>2, <1>3, <1>4, <1>5 DEF FollowInv

LEMMA StepFollows == FollowInv /\ [Next]_vars => FollowInv'
  <1> SUFFICES ASSUME FollowInv, [Next]_vars PROVE FollowInv'
    OBVIOUS
  <1>0. IInv /\ IInv'
    BY StepKeeps DEF FollowInv
  <1>1. now \in Int /\ now <= now
    BY <1>0 DEF IInv, Rest, Times
  <1>p. profile \in [Accounts -> Profiles]
    BY <1>0 DEF IInv, Tables
  <1>2. CASE Polar
    BY <1>0, <1>2, PolarEmits, EmitFollows
  <1>3. ASSUME NEW h \in Handlers, Handle(h) PROVE FollowInv'
    BY <1>3, DeliverFollows, ClaimFollows, PriorFollows, ResolveFollows, ReadFollows, WriteFollows,
       StampFollows, FailFollows, CrashFollows DEF Handle
  <1>4. ASSUME NEW r \in Runs, Cron(r) PROVE FollowInv'
    <2>1. CASE StartRun(r) \/ Healthy(r) \/ Hold(r)
      <3>1. UNCHANGED <<now, sub, event, acked, log, profile, task, mixed>>
        BY <2>1 DEF StartRun, Healthy, Hold, polarVars, history
      <3> QED
        BY <1>0, <1>1, <3>1, RestFollows
    <2>2. CASE ExpirePro(r)
      <3>1. UNCHANGED <<now, sub, event, acked, log, task, mixed>>
        BY <2>2 DEF ExpirePro, polarVars, history
      <3>2. \A a \in Accounts : \/ profile'[a] = profile[a]
                                \/ /\ Lapsed(profile[a]) /\ profile'[a].tier = "free"
                                   /\ profile'[a].until = profile[a].until
        BY <1>p, <2>2 DEF ExpirePro, Profiles
      <3> QED
        BY <1>0, <1>1, <3>1, <3>2, RestFollows
    <2> QED
      BY <1>4, <2>1, <2>2 DEF Cron
  <1>5. CASE Operator
    <2>0. DOMAIN event \subseteq EventIds
      BY <1>0, EventFacts
    <2>1. ASSUME NEW e \in EventIds, ClearError(e) PROVE FollowInv'
      <3>1. UNCHANGED <<now, sub, event, acked, profile, task, mixed>>
        BY <2>1 DEF ClearError, polarVars, history
      <3>2. \A d \in EventIds : log'[d].claimed = log[d].claimed /\ log'[d].processed = log[d].processed
        BY <1>0, <2>1 DEF ClearError, IInv, Tables, LogRecords
      <3> QED
        BY <1>0, <1>1, <3>1, <3>2, <2>0, RestFollows
    <2>2. ASSUME NEW e \in EventIds, StampByHand(e) PROVE FollowInv'
      <3>1. UNCHANGED <<now, sub, event, acked, profile, task>> /\ mixed' = mixed \cup {AccountOf(e)}
        BY <2>2 DEF StampByHand, polarVars
      <3>2. \A d \in EventIds : log'[d].claimed = log[d].claimed /\ (log'[d].processed = log[d].processed \/ d = e)
        BY <1>0, <2>2 DEF StampByHand, IInv, Tables, LogRecords
      <3> QED
        BY <1>0, <1>1, <3>1, <3>2, <2>0, RestFollows
    <2>3. ASSUME NEW a \in Accounts, Comp(a) PROVE FollowInv'
      <3>1. UNCHANGED <<now, sub, event, acked, log, task, mixed>>
        BY <2>3 DEF Comp, polarVars, history
      <3>2. \A b \in Accounts : profile'[b].comped \/ profile'[b] = profile[b]
        BY <1>p, <2>3 DEF Comp, Profiles
      <3> QED
        BY <1>0, <1>1, <3>1, <3>2, <2>0, RestFollows
    <2> QED
      BY <1>5, <2>1, <2>2, <2>3 DEF Operator
  <1>6. CASE Tick
    <2>1. UNCHANGED <<sub, event, acked, log, profile, task, mixed>> /\ now <= now'
      BY <1>1, <1>6 DEF Tick, polarVars, history
    <2> QED
      BY <1>0, <2>1, RestFollows
  <1>7. CASE UNCHANGED vars
    <2>1. UNCHANGED <<now, sub, event, acked, log, profile, task, mixed>>
      BY <1>7 DEF vars
    <2> QED
      BY <1>0, <1>1, <2>1, RestFollows
  <1> QED
    BY <1>2, <1>3, <1>4, <1>5, <1>6, <1>7 DEF Next

\* The last of an account's events is the one CHOOSE finds.
LEMMA FollowsOf == FollowInv => FollowsPolar
  <1> SUFFICES ASSUME FollowInv PROVE FollowsPolar
    OBVIOUS
  <1>0. IInv /\ Announced /\ Following
    BY DEF FollowInv
  <1> SUFFICES ASSUME NEW a \in Accounts \ mixed, EventsOf(a) # {}, \A e \in EventsOf(a) : acked[e],
                      ~profile[a].comped
               PROVE  Agrees(profile[a], event[CHOOSE e \in EventsOf(a) : \A d \in EventsOf(a) : d <= e].as)
    BY DEF FollowsPolar, Agrees
  <1>1. PICK e \in EventIds : IsLast(a, e)
    BY <1>0 DEF Announced
  <1>2. (CHOOSE x \in EventsOf(a) : \A d \in EventsOf(a) : d <= x) = e
    <2>1. PICK c : c = CHOOSE x \in EventsOf(a) : \A d \in EventsOf(a) : d <= x
      OBVIOUS
    <2>2. c \in EventsOf(a) /\ \A d \in EventsOf(a) : d <= c
      BY <1>1, <2>1 DEF IsLast
    <2>3. IsLast(a, c)
      BY <2>2 DEF IsLast
    <2> QED
      BY <1>0, <1>1, <2>1, <2>3, EventFacts
  <1>3. Agrees(profile[a], event[e].as)
    BY <1>0, <1>1 DEF Following, IsLast
  <1> QED
    BY <1>2, <1>3

\* Whoever's events come one at a time and in order has, once the last is
\* answered, the tier and the end Polar says (FollowsPolar): what the handler of
\* the last event read is what the subscription is, a retry finds it written or
\* writes it again, and the sweep takes nothing Polar still grants.
THEOREM FollowsPolarHolds == Spec => []FollowsPolar
  <1>1. Spec => []FollowInv
    BY FollowInit, StepFollows, PTL DEF Spec
  <1> QED
    BY <1>1, FollowsOf, PTL
=============================================================================
