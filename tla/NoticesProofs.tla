---------------------------- MODULE NoticesProofs ----------------------------
(***************************************************************************)
(* Notices keeps its promises for any shares, readers and overlapping      *)
(* calls.  The inductive invariant says what a call that is under way      *)
(* knows and holds: no two are of one share and reader, and a call that    *)
(* will mail is of a pair nobody has committed.                            *)
(***************************************************************************)
EXTENDS Notices, SequenceTheorems, TLAPS

TypeInv ==
    /\ now \in Times
    /\ call \in [Calls -> {None} \cup CallFields]
    /\ opened \subseteq Pairs
    /\ viewers = opened
    /\ hidden \subseteq opened
    /\ log \in Seq(Rows)

PairOf(q) == <<q.share, q.who>>

\* The rate limit's row is the lock of a share and reader.
LockInv ==
    \A c, d \in Calls :
        call[c] # None /\ call[d] # None /\ PairOf(call[c]) = PairOf(call[d]) => c = d

CallSound(q, seen) ==
    /\ q.step = "session" /\ q.internal => q.who = Owner \/ PairOf(q) \in seen
    /\ q.step = "commit" =>
          /\ q.mail # "none"
          /\ q.mail = "told" => PairOf(q) \notin seen
          /\ q.mail = "hidden" => q.who = Owner
          /\ q.mail = "off" => q.share \in Quiet
          /\ q.mail = "repeat" => \E s \in Shares : <<s, q.who>> \in seen

CallInv == \A c \in Calls : call[c] # None => CallSound(call[c], opened)

LogInv ==
    /\ \A m \in DOMAIN log : PairOf(log[m]) \in opened
    /\ \A m \in DOMAIN log : log[m].posted = "no" <=> log[m].status = "skipped"
    /\ \A m \in accepted : m \in DOMAIN log /\ log[m].posted = "done"
    /\ \A a \in answers : a.ok => a.of \in accepted

IInv == TypeInv /\ LockInv /\ CallInv /\ LogInv /\ OnceForEachShare /\ NobodyMissed

-----------------------------------------------------------------------------
\* One action of Next, or a stutter.
LEMMA Cases ==
    ASSUME [Next]_vars, NEW P,
           Tick => P, Reconcile => P,
           \A c \in Calls, share \in Shares, who \in People : Begin(c, share, who) => P,
           \A c \in Calls : Abort(c) => P,
           \A c \in Calls : UpsertViewer(c) => P,
           \A c \in Calls : InsertSession(c) => P,
           \A c \in Calls : Commit(c) => P,
           \A pair \in Pairs, internal \in BOOLEAN : SetViewerInternal(pair, internal) => P,
           \A m \in DOMAIN log : Post(m) => P,
           \A a \in answers : Expire(a) => P,
           UNCHANGED vars => P
    PROVE  P
BY DEF Next

\* What the transaction's verdict says of the reader (notify_on_first_open).
LEMMA VerdictIs ==
    ASSUME NEW share, NEW who, NEW internal, NEW ready
    PROVE  LET v == Verdict(share, who, internal, ready)
           IN  /\ v \in {"off", "repeat", "hidden", "told", "unset"}
               /\ v = "off" => share \in Quiet
               /\ v = "repeat" => \E s \in Shares : <<s, who>> \in opened
               /\ v \in {"hidden", "told"} => ~\E s \in Shares : <<s, who>> \in opened
               /\ v = "hidden" => internal
BY DEF Verdict, Repeat

\* The entry a commit writes.
Entry(q) == [status |-> IF q.mail = "told" THEN "queued" ELSE "skipped",
             share |-> q.share, who |-> q.who, at |-> q.at, why |-> q.mail, posted |-> Posted(q.mail)]

LEMMA CommitIs ==
    ASSUME TypeInv, NEW c \in Calls, Commit(c)
    PROVE  /\ call[c] \in CallFields /\ call[c] # None /\ call[c].step = "commit"
           /\ opened' = opened \cup {PairOf(call[c])} /\ viewers' = viewers \cup {PairOf(call[c])}
           /\ hidden' \subseteq hidden \cup {PairOf(call[c])}
           /\ PairOf(call[c]) \in Pairs
           /\ Entry(call[c]) \in Rows
           /\ log' = Append(log, Entry(call[c])) /\ Len(log') = Len(log) + 1
           /\ DOMAIN log' = DOMAIN log \cup {Len(log) + 1}
           /\ \A m \in DOMAIN log : log'[m] = log[m]
           /\ log'[Len(log) + 1] = Entry(call[c])
           /\ Len(log) + 1 \notin DOMAIN log
           /\ call' = [call EXCEPT ![c] = None]
<1>1. call[c] \in CallFields /\ call[c] # None /\ call[c].step = "commit"
  BY DEF Commit, TypeInv
<1>2. PairOf(call[c]) \in Pairs /\ Entry(call[c]) \in Rows
  BY <1>1 DEF CallFields, PairOf, Pairs, Entry, Rows, Statuses, Posted, Verdicts
<1>3. log' = Append(log, Entry(call[c]))
  BY DEF Commit, Entry
<1>4. log \in Seq(Rows) /\ Len(log) \in Nat /\ DOMAIN log = 1 .. Len(log)
  BY DEF TypeInv
<1>5. /\ Len(log') = Len(log) + 1
      /\ \A m \in 1 .. Len(log) : log'[m] = log[m]
      /\ log'[Len(log) + 1] = Entry(call[c])
      /\ DOMAIN log' = 1 .. Len(log) + 1
  BY <1>2, <1>3, <1>4
<1>6. DOMAIN log' = DOMAIN log \cup {Len(log) + 1} /\ Len(log) + 1 \notin DOMAIN log
  BY <1>4, <1>5
<1>7. hidden' \subseteq hidden \cup {PairOf(call[c])}
  BY DEF Commit, PairOf
<1>8. opened' = opened \cup {PairOf(call[c])} /\ viewers' = viewers \cup {PairOf(call[c])}
  BY DEF Commit, PairOf
<1>9. call' = [call EXCEPT ![c] = None]
  BY DEF Commit
<1> QED BY <1>1, <1>2, <1>3, <1>4, <1>5, <1>6, <1>7, <1>8, <1>9

\* What the reconciler may write: nothing but the verdict on a queued mail.
LEMMA ReconcileIs ==
    ASSUME TypeInv, Reconcile
    PROVE  /\ DOMAIN log' = DOMAIN log
           /\ log' \in Seq(Rows)
           /\ \A m \in DOMAIN log :
                 /\ log'[m].share = log[m].share /\ log'[m].who = log[m].who
                 /\ log'[m].posted = log[m].posted /\ log'[m].why = log[m].why
                 /\ log'[m].status = Settled(m)
<1>1. log \in Seq(Rows) /\ DOMAIN log = 1 .. Len(log) /\ Len(log) \in Nat
  BY DEF TypeInv
<1>2. \A m \in DOMAIN log : log[m] \in Rows
  BY <1>1
<1>3. \A m \in DOMAIN log : Settled(m) \in Statuses
  BY <1>2 DEF Settled, Queued, Unknown, Statuses, Rows
<1>4. log' = [m \in DOMAIN log |-> [log[m] EXCEPT !.status = Settled(m)]]
  BY DEF Reconcile
<1>5. \A m \in DOMAIN log : log'[m] = [log[m] EXCEPT !.status = Settled(m)]
  BY <1>4
<1>6. \A m \in DOMAIN log :
         /\ log'[m] \in Rows /\ log'[m].status = Settled(m)
         /\ log'[m].share = log[m].share /\ log'[m].who = log[m].who
         /\ log'[m].posted = log[m].posted /\ log'[m].why = log[m].why
  BY <1>2, <1>3, <1>5 DEF Rows
<1>7. log' \in [1 .. Len(log) -> Rows] /\ DOMAIN log' = DOMAIN log
  BY <1>1, <1>4, <1>6
<1>8. log' \in Seq(Rows)
  BY <1>1, <1>7
<1> QED BY <1>6, <1>7, <1>8

\* What pg_net writes of the log: that the request was made.
LEMMA PostIs ==
    ASSUME TypeInv, NEW n \in DOMAIN log, Post(n)
    PROVE  /\ DOMAIN log' = DOMAIN log
           /\ log' \in Seq(Rows)
           /\ log[n].posted = "waiting" /\ log'[n].posted = "done"
           /\ \A m \in DOMAIN log :
                 /\ log'[m].share = log[m].share /\ log'[m].who = log[m].who
                 /\ log'[m].status = log[m].status /\ log'[m].why = log[m].why
                 /\ m # n => log'[m].posted = log[m].posted
<1>1. log \in Seq(Rows) /\ DOMAIN log = 1 .. Len(log) /\ Len(log) \in Nat
  BY DEF TypeInv
<1>2. log' = [log EXCEPT ![n] = [log[n] EXCEPT !.posted = "done"]] /\ log[n].posted = "waiting"
  BY DEF Post
<1>3. \A m \in DOMAIN log : log[m] \in Rows
  BY <1>1
<1>4. [log[n] EXCEPT !.posted = "done"] \in Rows
  BY <1>3 DEF Rows
<1>5. log' \in Seq(Rows) /\ DOMAIN log' = DOMAIN log
  BY <1>1, <1>2, <1>4
<1>6. \A m \in DOMAIN log : log'[m] = IF m = n THEN [log[n] EXCEPT !.posted = "done"] ELSE log[m]
  BY <1>2
<1> QED BY <1>2, <1>3, <1>5, <1>6 DEF Rows

-----------------------------------------------------------------------------
LEMMA InitIs == Init => IInv
<1> SUFFICES ASSUME Init PROVE IInv
  OBVIOUS
<1>1. log = << >> /\ DOMAIN log = {}
  BY DEF Init
<1>2. 0 \in Times
  BY NoticesAssumption DEF Times
<1>3. TypeInv
  BY <1>1, <1>2 DEF Init, TypeInv
<1>4. LockInv /\ CallInv
  BY DEF Init, LockInv, CallInv
<1>5. LogInv /\ OnceForEachShare
  BY <1>1 DEF Init, LogInv, OnceForEachShare
<1>6. NobodyMissed
  BY DEF Init, NobodyMissed
<1> QED BY <1>3, <1>4, <1>5, <1>6 DEF IInv

LEMMA TypeStep == TypeInv /\ [Next]_vars => TypeInv'
<1> SUFFICES ASSUME TypeInv, [Next]_vars PROVE TypeInv'
  OBVIOUS
<1>1. Tick => TypeInv'
  BY NoticesAssumption DEF Tick, TypeInv, Times
<1>2. Reconcile => TypeInv'
  BY ReconcileIs DEF Reconcile, TypeInv
<1>3. ASSUME NEW c \in Calls, NEW share \in Shares, NEW who \in People, Begin(c, share, who)
      PROVE  TypeInv'
  <2>1. [step |-> "viewer", share |-> share, who |-> who, at |-> now,
         internal |-> FALSE, mail |-> "none"] \in CallFields
    BY DEF TypeInv, CallFields, Verdicts
  <2> QED BY <1>3, <2>1 DEF Begin, TypeInv
<1>4. ASSUME NEW c \in Calls, Abort(c) PROVE TypeInv'
  BY <1>4 DEF Abort, TypeInv
<1>5. ASSUME NEW c \in Calls, UpsertViewer(c) PROVE TypeInv'
  <2>1. call[c] \in CallFields
    BY <1>5 DEF UpsertViewer, TypeInv
  <2>2. Internal(call[c].share, call[c].who) \in BOOLEAN
    BY DEF Internal
  <2>3. [call[c] EXCEPT !.step = "session", !.internal = Internal(call[c].share, call[c].who)] \in CallFields
    BY <2>1, <2>2 DEF CallFields
  <2>4. call' = [call EXCEPT ![c] = [call[c] EXCEPT !.step = "session",
                                       !.internal = Internal(call[c].share, call[c].who)]]
    BY <1>5 DEF UpsertViewer
  <2> QED BY <1>5, <2>3, <2>4 DEF UpsertViewer, TypeInv
<1>6. ASSUME NEW c \in Calls, InsertSession(c) PROVE TypeInv'
  <2>1. call[c] \in CallFields
    BY <1>6 DEF InsertSession, TypeInv
  <2>0. PICK ready \in BOOLEAN :
           call' = [call EXCEPT ![c].step = "commit",
                      ![c].mail = Verdict(call[c].share, call[c].who, call[c].internal, ready)]
    BY <1>6 DEF InsertSession
  <2> DEFINE v == Verdict(call[c].share, call[c].who, call[c].internal, ready)
  <2>2. v \in {"off", "repeat", "hidden", "told", "unset"}
    BY VerdictIs
  <2>4. call' = [call EXCEPT ![c] = [call[c] EXCEPT !.step = "commit", !.mail = v]]
    BY <2>0
  <2> HIDE DEF v
  <2>3. [call[c] EXCEPT !.step = "commit", !.mail = v] \in CallFields
    BY <2>1, <2>2 DEF CallFields, Verdicts
  <2> QED BY <1>6, <2>3, <2>4 DEF InsertSession, TypeInv
<1>7. ASSUME NEW c \in Calls, Commit(c) PROVE TypeInv'
  <2>1. log' \in Seq(Rows)
    BY <1>7, CommitIs DEF TypeInv
  <2>2. now' \in Times
    BY <1>7 DEF TypeInv, Commit
  <2>3. call' \in [Calls -> {None} \cup CallFields]
    BY <1>7 DEF TypeInv, Commit
  <2>4. opened' \subseteq Pairs /\ viewers' = opened' /\ hidden' \subseteq opened'
    BY <1>7, CommitIs DEF TypeInv
  <2> QED BY <2>1, <2>2, <2>3, <2>4 DEF TypeInv
<1>8. ASSUME NEW pair \in Pairs, NEW internal \in BOOLEAN, SetViewerInternal(pair, internal)
      PROVE  TypeInv'
  BY <1>8 DEF SetViewerInternal, TypeInv
<1>9. ASSUME NEW m \in DOMAIN log, Post(m) PROVE TypeInv'
  <2>1. log' \in Seq(Rows)
    BY <1>9, PostIs
  <2> QED BY <1>9, <2>1 DEF Post, TypeInv
<1>10. ASSUME NEW a \in answers, Expire(a) PROVE TypeInv'
  BY <1>10 DEF Expire, TypeInv
<1>11. UNCHANGED vars => TypeInv'
  BY DEF vars, TypeInv
<1> QED BY <1>1, <1>2, <1>3, <1>4, <1>5, <1>6, <1>7, <1>8, <1>9, <1>10, <1>11, Cases

\* Calls move on one at a time: what a step makes of the others and of itself.
LEMMA LockStep == TypeInv /\ LockInv /\ [Next]_vars => LockInv'
<1> SUFFICES ASSUME TypeInv, LockInv, [Next]_vars PROVE LockInv'
  OBVIOUS
<1>1. UNCHANGED call => LockInv'
  BY DEF LockInv
<1>2. Tick => LockInv'
  BY <1>1 DEF Tick
<1>3. Reconcile => LockInv'
  BY <1>1 DEF Reconcile
<1>4. ASSUME NEW c \in Calls, NEW share \in Shares, NEW who \in People, Begin(c, share, who)
      PROVE  LockInv'
  <2>1. \A d \in Calls : call'[d] = IF d = c THEN call'[c] ELSE call[d]
    BY <1>4 DEF Begin, TypeInv
  <2>2. PairOf(call'[c]) = <<share, who>>
    BY <1>4 DEF Begin, TypeInv, PairOf
  <2>3. \A d \in Calls : call[d] # None => PairOf(call[d]) # <<share, who>>
    BY <1>4 DEF Begin, Running, PairOf
  <2> QED BY <2>1, <2>2, <2>3 DEF LockInv
<1>5. ASSUME NEW c \in Calls, call'[c] = None \/ (call[c] # None /\ PairOf(call'[c]) = PairOf(call[c])),
             \A d \in Calls \ {c} : call'[d] = call[d]
      PROVE  LockInv'
  BY <1>5 DEF LockInv
<1>6. ASSUME NEW c \in Calls, Abort(c) PROVE LockInv'
  BY <1>5, <1>6 DEF Abort, TypeInv
<1>7. ASSUME NEW c \in Calls, UpsertViewer(c) PROVE LockInv'
  <2>1. call[c] \in CallFields /\ call[c] # None
    BY <1>7 DEF UpsertViewer, TypeInv
  <2>2. PairOf(call'[c]) = PairOf(call[c]) /\ \A d \in Calls \ {c} : call'[d] = call[d]
    BY <1>7, <2>1 DEF UpsertViewer, TypeInv, PairOf, CallFields
  <2> QED BY <1>5, <2>1, <2>2
<1>8. ASSUME NEW c \in Calls, InsertSession(c) PROVE LockInv'
  <2>1. call[c] \in CallFields /\ call[c] # None
    BY <1>8 DEF InsertSession, TypeInv
  <2>2. PairOf(call'[c]) = PairOf(call[c]) /\ \A d \in Calls \ {c} : call'[d] = call[d]
    BY <1>8, <2>1 DEF InsertSession, TypeInv, PairOf, CallFields
  <2> QED BY <1>5, <2>1, <2>2
<1>9. ASSUME NEW c \in Calls, Commit(c) PROVE LockInv'
  BY <1>5, <1>9 DEF Commit, TypeInv
<1>10. \A pair \in Pairs, internal \in BOOLEAN : SetViewerInternal(pair, internal) => LockInv'
  BY <1>1 DEF SetViewerInternal
<1>11. \A m \in DOMAIN log : Post(m) => LockInv'
  BY <1>1 DEF Post
<1>12. \A a \in answers : Expire(a) => LockInv'
  BY <1>1 DEF Expire
<1>13. UNCHANGED vars => LockInv'
  BY <1>1 DEF vars
<1> QED BY <1>2, <1>3, <1>4, <1>6, <1>7, <1>8, <1>9, <1>10, <1>11, <1>12, <1>13, Cases

\* What a call knows is not undone by the sessions others commit, so long as
\* they are not of its own share and reader.
LEMMA CallStays ==
    ASSUME NEW q, NEW seen, NEW pair, CallSound(q, seen), PairOf(q) # pair
    PROVE  CallSound(q, seen \cup {pair})
BY DEF CallSound, PairOf

LEMMA CallStep == IInv /\ [Next]_vars => CallInv'
<1> SUFFICES ASSUME IInv, [Next]_vars PROVE CallInv'
  OBVIOUS
<1> USE DEF IInv
<1>1. ASSUME UNCHANGED <<call, opened>> PROVE CallInv'
  BY <1>1 DEF CallInv
<1>2. ASSUME NEW c \in Calls, UNCHANGED opened,
             \A d \in Calls \ {c} : call'[d] = call[d],
             call'[c] # None => CallSound(call'[c], opened)
      PROVE  CallInv'
  <2> SUFFICES ASSUME NEW d \in Calls, call'[d] # None PROVE CallSound(call'[d], opened')
    BY DEF CallInv
  <2>1. CallSound(call'[d], opened)
    BY <1>2 DEF CallInv
  <2> QED BY <1>2, <2>1
<1>3. ASSUME NEW c \in Calls, NEW share \in Shares, NEW who \in People, Begin(c, share, who)
      PROVE  CallInv'
  <2>1. call'[c].step = "viewer" /\ \A d \in Calls \ {c} : call'[d] = call[d]
    BY <1>3 DEF Begin, TypeInv
  <2>2. CallSound(call'[c], opened)
    BY <2>1 DEF CallSound
  <2> QED BY <1>2, <1>3, <2>1, <2>2 DEF Begin
<1>4. ASSUME NEW c \in Calls, Abort(c) PROVE CallInv'
  BY <1>2, <1>4 DEF Abort, TypeInv
<1>5. ASSUME NEW c \in Calls, UpsertViewer(c) PROVE CallInv'
  <2>1. call[c] \in CallFields
    BY <1>5 DEF UpsertViewer, TypeInv
  <2>2. /\ call'[c].step = "session" /\ call'[c].who = call[c].who /\ call'[c].share = call[c].share
        /\ call'[c].internal = Internal(call[c].share, call[c].who)
        /\ \A d \in Calls \ {c} : call'[d] = call[d]
    BY <1>5, <2>1 DEF UpsertViewer, TypeInv, CallFields
  <2>3. CallSound(call'[c], opened)
    BY <2>2 DEF CallSound, Internal, PairOf, TypeInv
  <2> QED BY <1>2, <1>5, <2>2, <2>3 DEF UpsertViewer
<1>6. ASSUME NEW c \in Calls, InsertSession(c) PROVE CallInv'
  <2>1. call[c] \in CallFields /\ call[c] # None /\ call[c].step = "session"
    BY <1>6 DEF InsertSession, TypeInv
  <2>0. PICK ready \in BOOLEAN :
           call' = [call EXCEPT ![c].step = "commit",
                      ![c].mail = Verdict(call[c].share, call[c].who, call[c].internal, ready)]
    BY <1>6 DEF InsertSession
  <2> DEFINE v == Verdict(call[c].share, call[c].who, call[c].internal, ready)
  <2>2. /\ v \in {"off", "repeat", "hidden", "told", "unset"}
        /\ v = "off" => call[c].share \in Quiet
        /\ v = "repeat" => \E s \in Shares : <<s, call[c].who>> \in opened
        /\ v \in {"hidden", "told"} => ~\E s \in Shares : <<s, call[c].who>> \in opened
        /\ v = "hidden" => call[c].internal
    BY VerdictIs
  <2>3. call'[c].mail = v
    BY <2>0, <2>1 DEF TypeInv, CallFields
  <2>4. /\ call'[c].step = "commit" /\ call'[c].who = call[c].who /\ call'[c].share = call[c].share
        /\ \A d \in Calls \ {c} : call'[d] = call[d]
    BY <2>0, <2>1 DEF TypeInv, CallFields
  <2> HIDE DEF v
  <2>5. PairOf(call'[c]) = <<call[c].share, call[c].who>> /\ call[c].share \in Shares
    BY <2>1, <2>4 DEF PairOf, CallFields
  <2>6. CallSound(call[c], opened)
    BY <2>1 DEF CallInv
  <2>7. v = "hidden" => call[c].who = Owner
    BY <2>1, <2>2, <2>5, <2>6 DEF CallSound, PairOf
  <2>8. v = "told" => PairOf(call'[c]) \notin opened
    BY <2>2, <2>5
  <2>9. CallSound(call'[c], opened)
    BY <2>2, <2>3, <2>4, <2>7, <2>8 DEF CallSound
  <2> QED BY <1>2, <1>6, <2>4, <2>9 DEF InsertSession
<1>7. ASSUME NEW c \in Calls, Commit(c) PROVE CallInv'
  <2> SUFFICES ASSUME NEW d \in Calls, call'[d] # None PROVE CallSound(call'[d], opened')
    BY DEF CallInv
  <2>1. d # c /\ call'[d] = call[d]
    BY <1>7 DEF Commit, TypeInv
  <2>2. opened' = opened \cup {PairOf(call[c])} /\ call[c] # None
    BY <1>7, CommitIs
  <2>3. PairOf(call[d]) # PairOf(call[c])
    BY <2>1, <2>2 DEF LockInv
  <2>4. CallSound(call[d], opened)
    BY <2>1 DEF CallInv
  <2> QED BY <2>1, <2>2, <2>3, <2>4, CallStays
<1>8. Tick => CallInv'
  BY <1>1 DEF Tick
<1>9. Reconcile => CallInv'
  BY <1>1 DEF Reconcile
<1>10. \A pair \in Pairs, internal \in BOOLEAN : SetViewerInternal(pair, internal) => CallInv'
  BY <1>1 DEF SetViewerInternal
<1>11. \A m \in DOMAIN log : Post(m) => CallInv'
  BY <1>1 DEF Post
<1>12. \A a \in answers : Expire(a) => CallInv'
  BY <1>1 DEF Expire
<1>13. UNCHANGED vars => CallInv'
  BY <1>1 DEF vars
<1> QED BY <1>3, <1>4, <1>5, <1>6, <1>7, <1>8, <1>9, <1>10, <1>11, <1>12, <1>13, Cases

\* What the log says is about what happened: the steps that leave it alone,
\* then a commit, the request, the reconciler and the loss of an answer.
LEMMA LogStep == IInv /\ [Next]_vars => LogInv'
<1> SUFFICES ASSUME IInv, [Next]_vars PROVE LogInv'
  OBVIOUS
<1> USE DEF IInv
<1>1. ASSUME UNCHANGED <<log, opened, answers, accepted>> PROVE LogInv'
  BY <1>1 DEF LogInv, PairOf
<1>2. Tick => LogInv'
  BY <1>1 DEF Tick
<1>3. \A c \in Calls, share \in Shares, who \in People : Begin(c, share, who) => LogInv'
  BY <1>1 DEF Begin
<1>4. \A c \in Calls : Abort(c) \/ UpsertViewer(c) \/ InsertSession(c) => LogInv'
  BY <1>1 DEF Abort, UpsertViewer, InsertSession
<1>5. \A pair \in Pairs, internal \in BOOLEAN : SetViewerInternal(pair, internal) => LogInv'
  BY <1>1 DEF SetViewerInternal
<1>6. UNCHANGED vars => LogInv'
  BY <1>1 DEF vars
<1>7. ASSUME NEW c \in Calls, Commit(c) PROVE LogInv'
  <2> DEFINE n == Len(log) + 1
             row == Entry(call[c])
  <2>1. /\ opened' = opened \cup {PairOf(call[c])}
        /\ DOMAIN log' = DOMAIN log \cup {n} /\ n \notin DOMAIN log
        /\ \A m \in DOMAIN log : log'[m] = log[m]
        /\ log'[n] = row
    BY <1>7, CommitIs
  <2>2. PairOf(row) = PairOf(call[c]) /\ (row.posted = "no" <=> row.status = "skipped")
    BY DEF Entry, PairOf, Posted
  <2>3. answers' = answers /\ accepted' = accepted
    BY <1>7 DEF Commit
  <2> HIDE DEF row, n
  <2>4. \A m \in DOMAIN log' : PairOf(log'[m]) \in opened' /\ (log'[m].posted = "no" <=> log'[m].status = "skipped")
    BY <2>1, <2>2 DEF LogInv
  <2>5. \A m \in accepted' : m \in DOMAIN log' /\ log'[m].posted = "done"
    BY <2>1, <2>3 DEF LogInv
  <2> QED BY <2>3, <2>4, <2>5 DEF LogInv
<1>8. ASSUME NEW n \in DOMAIN log, Post(n) PROVE LogInv'
  <2>1. /\ DOMAIN log' = DOMAIN log
        /\ log[n].posted = "waiting" /\ log'[n].posted = "done"
        /\ \A m \in DOMAIN log :
              /\ log'[m].share = log[m].share /\ log'[m].who = log[m].who
              /\ log'[m].status = log[m].status
              /\ m # n => log'[m].posted = log[m].posted
    BY <1>8, PostIs
  <2>2. opened' = opened /\ accepted' \subseteq accepted \cup {n} /\ accepted \subseteq accepted'
    BY <1>8 DEF Post
  <2>3. \A a \in answers' : a.ok => a.of \in accepted'
    BY <1>8 DEF Post, LogInv
  <2>4. \A m \in DOMAIN log' : PairOf(log'[m]) \in opened' /\ (log'[m].posted = "no" <=> log'[m].status = "skipped")
    BY <2>1, <2>2 DEF LogInv, PairOf
  <2>5. \A m \in accepted' : m \in DOMAIN log' /\ log'[m].posted = "done"
    BY <2>1, <2>2 DEF LogInv
  <2> QED BY <2>3, <2>4, <2>5 DEF LogInv
<1>9. ASSUME Reconcile PROVE LogInv'
  <2>1. /\ DOMAIN log' = DOMAIN log
        /\ \A m \in DOMAIN log :
              /\ log'[m].share = log[m].share /\ log'[m].who = log[m].who
              /\ log'[m].posted = log[m].posted
              /\ log'[m].status = Settled(m)
    BY <1>9, ReconcileIs
  <2>2. \A m \in DOMAIN log : Settled(m) = "skipped" <=> log[m].status = "skipped"
    BY DEF Settled, Queued, Unknown
  <2>3. UNCHANGED <<opened, answers, accepted>>
    BY <1>9 DEF Reconcile
  <2>4. \A m \in DOMAIN log' : PairOf(log'[m]) \in opened' /\ (log'[m].posted = "no" <=> log'[m].status = "skipped")
    BY <2>1, <2>2, <2>3 DEF LogInv, PairOf
  <2>5. \A m \in accepted' : m \in DOMAIN log' /\ log'[m].posted = "done"
    BY <2>1, <2>3 DEF LogInv
  <2> QED BY <2>3, <2>4, <2>5 DEF LogInv
<1>10. ASSUME NEW a \in answers, Expire(a) PROVE LogInv'
  BY <1>10 DEF Expire, LogInv, PairOf
<1> QED BY <1>2, <1>3, <1>4, <1>5, <1>6, <1>7, <1>8, <1>9, <1>10, Cases

SameRows ==
    /\ DOMAIN log' = DOMAIN log
    /\ \A m \in DOMAIN log :
          /\ log'[m].share = log[m].share /\ log'[m].who = log[m].who
          /\ log'[m].why = log[m].why
          /\ log'[m].status = "skipped" <=> log[m].status = "skipped"

\* What a step does to the log, as far as the two promises look: nothing but a
\* commit adds to it or to the sessions, and a mail once told stays told.
LEMMA ToldStays ==
    ASSUME IInv, [Next]_vars
    PROVE  \/ \E c \in Calls : Commit(c)
           \/ opened' = opened /\ SameRows
<1> DEFINE P == (\E c \in Calls : Commit(c)) \/ (opened' = opened /\ SameRows)
<1> SUFFICES P
  OBVIOUS
<1> USE DEF IInv
<1>1. UNCHANGED <<log, opened>> => P
  BY DEF SameRows
<1>2. Tick \/ UNCHANGED vars => P
  BY <1>1 DEF Tick, vars
<1>3. \A c \in Calls, share \in Shares, who \in People : Begin(c, share, who) => P
  BY <1>1 DEF Begin
<1>4. \A c \in Calls : Abort(c) \/ UpsertViewer(c) \/ InsertSession(c) => P
  BY <1>1 DEF Abort, UpsertViewer, InsertSession
<1>5. \A pair \in Pairs, internal \in BOOLEAN : SetViewerInternal(pair, internal) => P
  BY <1>1 DEF SetViewerInternal
<1>6. \A a \in answers : Expire(a) => P
  BY <1>1 DEF Expire
<1>7. \A n \in DOMAIN log : Post(n) => P
  BY PostIs DEF Post, SameRows
<1>8. Reconcile => P
  <2>1. \A m \in DOMAIN log : Settled(m) = "skipped" <=> log[m].status = "skipped"
    BY DEF Settled, Queued, Unknown
  <2> QED BY <2>1, ReconcileIs DEF Reconcile, SameRows
<1>9. \A c \in Calls : Commit(c) => P
  OBVIOUS
<1> HIDE DEF P
<1> QED BY <1>2, <1>3, <1>4, <1>5, <1>6, <1>7, <1>8, <1>9, Cases

LEMMA OnceStep == IInv /\ [Next]_vars => OnceForEachShare'
<1> SUFFICES ASSUME IInv, [Next]_vars PROVE OnceForEachShare'
  OBVIOUS
<1>1. ASSUME opened' = opened, SameRows PROVE OnceForEachShare'
  BY <1>1 DEF IInv, OnceForEachShare, Told, SameRows
<1>2. ASSUME NEW c \in Calls, Commit(c) PROVE OnceForEachShare'
  <2> DEFINE n == Len(log) + 1
             row == Entry(call[c])
  <2>1. /\ DOMAIN log' = DOMAIN log \cup {n} /\ n \notin DOMAIN log
        /\ \A m \in DOMAIN log : log'[m] = log[m]
        /\ log'[n] = row /\ call[c] # None /\ call[c].step = "commit"
    BY <1>2, CommitIs DEF IInv
  <2>2. /\ row.share = call[c].share /\ row.who = call[c].who
        /\ row.status # "skipped" => call[c].mail = "told"
    BY DEF Entry
  <2> HIDE DEF row, n
  <2>3. row.status # "skipped" => PairOf(call[c]) \notin opened
    BY <2>1, <2>2 DEF IInv, CallInv, CallSound
  <2>4. \A m \in DOMAIN log : row.status # "skipped" => <<log[m].share, log[m].who>> # <<row.share, row.who>>
    BY <2>2, <2>3 DEF IInv, LogInv, PairOf
  <2> QED BY <2>1, <2>4 DEF IInv, OnceForEachShare, Told
<1> QED BY <1>1, <1>2, ToldStays

LEMMA MissedStep == IInv /\ [Next]_vars => NobodyMissed'
<1> SUFFICES ASSUME IInv, [Next]_vars PROVE NobodyMissed'
  OBVIOUS
<1>1. ASSUME opened' = opened, SameRows PROVE NobodyMissed'
  BY <1>1 DEF IInv, NobodyMissed, Told, SameRows
<1>2. ASSUME NEW c \in Calls, Commit(c) PROVE NobodyMissed'
  <2> DEFINE n == Len(log) + 1
             row == Entry(call[c])
  <2>1. /\ DOMAIN log' = DOMAIN log \cup {n} /\ n \notin DOMAIN log
        /\ \A m \in DOMAIN log : log'[m] = log[m]
        /\ log'[n] = row /\ call[c] # None /\ call[c].step = "commit"
        /\ call[c] \in CallFields
        /\ opened' = opened \cup {PairOf(call[c])}
    BY <1>2, CommitIs DEF IInv
  <2>2. /\ row.share = call[c].share /\ row.who = call[c].who
        /\ call[c].mail = "told" => row.status # "skipped"
        /\ row.why = call[c].mail
    BY DEF Entry
  <2> HIDE DEF row, n
  <2>3. CallSound(call[c], opened)
    BY <2>1 DEF IInv, CallInv
  <2> SUFFICES ASSUME NEW who \in People \ {Owner},
                      \E s \in Shares : <<s, who>> \in opened',
                      \A s \in Shares : <<s, who>> \in opened' => s \notin Quiet
               PROVE  \E m \in DOMAIN log' : log'[m].who = who /\ (Told(m)' \/ log'[m].why = "unset")
    BY DEF NobodyMissed
  <2>4. CASE \E s \in Shares : <<s, who>> \in opened
    <3>1. PICK m \in DOMAIN log : log[m].who = who /\ (Told(m) \/ log[m].why = "unset")
      BY <2>1, <2>4 DEF IInv, NobodyMissed
    <3> QED BY <2>1, <3>1 DEF Told
  <2>5. CASE ~\E s \in Shares : <<s, who>> \in opened
    <3>1. call[c].who = who /\ call[c].share \in Shares /\ call[c].share \notin Quiet
      BY <2>1, <2>5 DEF PairOf, CallFields
    <3>2. call[c].mail \in {"told", "unset"}
      <4>1. call[c].mail \in {"told", "repeat", "hidden", "off", "unset"}
        BY <2>1, <2>3 DEF CallSound, CallFields, Verdicts
      <4> QED BY <2>1, <2>3, <2>5, <3>1, <4>1 DEF CallSound
    <3> QED BY <2>1, <2>2, <3>1, <3>2 DEF Told
  <2> QED BY <2>4, <2>5
<1> QED BY <1>1, <1>2, ToldStays

LEMMA Invariance == Spec => []IInv
<1>1. IInv /\ [Next]_vars => IInv'
  BY TypeStep, LockStep, CallStep, LogStep, OnceStep, MissedStep DEF IInv
<1> QED BY InitIs, <1>1, PTL DEF Spec

\* The opening of one share by one reader is mailed at most once, for any
\* number of overlapping calls of start_session, time-outs and lost answers.
THEOREM MailedOnce == Spec => []OnceForEachShare
<1>1. IInv => OnceForEachShare
  BY DEF IInv
<1> QED BY Invariance, <1>1, PTL

\* No reader of the document's notifying shares goes unannounced, but where the log
\* says that the mail service was not set up: of calls that overlap, none is a
\* repeat of one that is not yet committed.
THEOREM NoneMissed == Spec => []NobodyMissed
<1>1. IInv => NobodyMissed
  BY DEF IInv
<1> QED BY Invariance, <1>1, PTL

-----------------------------------------------------------------------------
(* The refinement.  The column of verdicts is a sequence, and each step of *)
(* Notices is one of the ledger's or leaves it as it is.                   *)

Column(rows) == [m \in DOMAIN rows |-> rows[m].status]

LEMMA ColumnIs ==
    ASSUME NEW rows \in Seq(Rows)
    PROVE  /\ Column(rows) \in Seq(Statuses)
           /\ DOMAIN Column(rows) = DOMAIN rows /\ Len(Column(rows)) = Len(rows)
           /\ \A m \in DOMAIN rows : Column(rows)[m] = rows[m].status
<1>1. Len(rows) \in Nat /\ DOMAIN rows = 1 .. Len(rows)
  OBVIOUS
<1>2. \A m \in DOMAIN rows : rows[m] \in Rows
  BY <1>1
<1>3. \A m \in DOMAIN rows : rows[m].status \in Statuses
  BY <1>2 DEF Rows
<1>4. Column(rows) \in [1 .. Len(rows) -> Statuses]
  BY <1>1, <1>3 DEF Column
<1> QED BY <1>1, <1>4 DEF Column

LEMMA CommitWrites ==
    ASSUME TypeInv, TypeInv', NEW c \in Calls, Commit(c)
    PROVE  \E v \in {"queued", "skipped"} : Ledger!Write(v)
<1> DEFINE v == Entry(call[c]).status
<1>1. v \in {"queued", "skipped"} /\ v \in Statuses
  BY DEF Entry, Statuses
<1>2. /\ DOMAIN log' = DOMAIN log \cup {Len(log) + 1} /\ Len(log') = Len(log) + 1
      /\ \A m \in DOMAIN log : log'[m] = log[m]
      /\ log'[Len(log) + 1] = Entry(call[c])
  BY CommitIs
<1>3. /\ Column(log) \in Seq(Statuses) /\ DOMAIN Column(log) = DOMAIN log /\ Len(Column(log)) = Len(log)
      /\ \A m \in DOMAIN log : Column(log)[m] = log[m].status
  BY ColumnIs DEF TypeInv
<1>4. /\ Column(log') \in Seq(Statuses) /\ Len(Column(log')) = Len(log')
      /\ \A m \in DOMAIN log' : Column(log')[m] = log'[m].status
  BY ColumnIs DEF TypeInv
<1> HIDE DEF v
<1>5. /\ Append(Column(log), v) \in Seq(Statuses) /\ Len(Append(Column(log), v)) = Len(Column(log)) + 1
      /\ \A i \in 1 .. Len(Column(log)) : Append(Column(log), v)[i] = Column(log)[i]
      /\ Append(Column(log), v)[Len(Column(log)) + 1] = v
  BY <1>1, <1>3, AppendProperties
<1>6. DOMAIN log = 1 .. Len(log) /\ Len(log) \in Nat
  BY DEF TypeInv
<1>7. \A i \in 1 .. Len(Column(log')) : Column(log')[i] = Append(Column(log), v)[i]
  <2> SUFFICES ASSUME NEW i \in 1 .. Len(log) + 1 PROVE Column(log')[i] = Append(Column(log), v)[i]
    BY <1>2, <1>4
  <2>1. CASE i \in 1 .. Len(log)
    <3>1. i \in DOMAIN log /\ i \in DOMAIN log' /\ i \in 1 .. Len(Column(log))
      BY <2>1, <1>2, <1>3, <1>6
    <3>2. Column(log)[i] = log[i].status /\ Column(log')[i] = log'[i].status /\ log'[i] = log[i]
      BY <3>1, <1>2, <1>3, <1>4
    <3> QED BY <3>1, <3>2, <1>5
  <2>2. CASE i = Len(log) + 1
    BY <2>2, <1>2, <1>3, <1>4, <1>5 DEF v
  <2>3. Len(log) \in Nat
    BY <1>6
  <2>4. i \in 1 .. Len(log) \/ i = Len(log) + 1
    BY <2>3
  <2> QED BY <2>1, <2>2, <2>4
<1>8. Column(log') = Append(Column(log), v)
  BY <1>2, <1>3, <1>4, <1>5, <1>7, SeqEqual
<1>9. UNCHANGED accepted
  BY DEF Commit
<1> QED BY <1>1, <1>8, <1>9 DEF Ledger!Write, Column

LEMMA PostTakes ==
    ASSUME IInv, NEW n \in DOMAIN log, Post(n)
    PROVE  Ledger!Take(n) \/ UNCHANGED <<Column(log), accepted>>
<1>1. /\ DOMAIN log' = DOMAIN log /\ log[n].posted = "waiting"
      /\ \A m \in DOMAIN log : log'[m].status = log[m].status
  BY PostIs DEF IInv
<1>2. Column(log') = Column(log)
  BY <1>1 DEF Column
<1>3. n \notin accepted /\ log[n].status # "skipped"
  BY <1>1 DEF IInv, LogInv
<1>4. accepted' = accepted \/ accepted' = accepted \cup {n}
  BY DEF Post
<1>5. DOMAIN Column(log) = DOMAIN log /\ Column(log)[n] = log[n].status
  BY DEF Column
<1> QED BY <1>2, <1>3, <1>4, <1>5 DEF Ledger!Take, Column

LEMMA ReconcileSettles ==
    ASSUME IInv, Reconcile
    PROVE  Ledger!Settle
<1>1. DOMAIN log' = DOMAIN log /\ \A m \in DOMAIN log : log'[m].status = Settled(m)
  BY ReconcileIs DEF IInv
<1>2. /\ DOMAIN Column(log) = DOMAIN log /\ DOMAIN Column(log') = DOMAIN log
      /\ \A m \in DOMAIN log : Column(log)[m] = log[m].status /\ Column(log')[m] = Settled(m)
  BY <1>1 DEF Column
<1>3. \A m \in DOMAIN log :
         \/ Settled(m) = log[m].status
         \/ /\ log[m].status = "queued"
            /\ Settled(m) \in {"sent", "failed", "unverified"}
            /\ Settled(m) = "sent" => m \in accepted
  BY DEF IInv, LogInv, Settled, Queued, Unknown
<1>4. UNCHANGED accepted
  BY DEF Reconcile
<1> QED BY <1>2, <1>3, <1>4 DEF Ledger!Settle, Column

LEMMA StepMaps == IInv /\ IInv' /\ [Next]_vars => [Ledger!Next]_(Ledger!vars)
<1> SUFFICES ASSUME IInv, IInv', [Next]_vars PROVE [Ledger!Next]_(Ledger!vars)
  OBVIOUS
<1>1. ASSUME UNCHANGED <<log, accepted>> PROVE [Ledger!Next]_(Ledger!vars)
  BY <1>1 DEF Ledger!vars
<1>2. Tick \/ UNCHANGED vars => [Ledger!Next]_(Ledger!vars)
  BY <1>1 DEF Tick, vars
<1>3. \A c \in Calls, share \in Shares, who \in People :
         Begin(c, share, who) => [Ledger!Next]_(Ledger!vars)
  BY <1>1 DEF Begin
<1>4. \A c \in Calls : Abort(c) \/ UpsertViewer(c) \/ InsertSession(c) => [Ledger!Next]_(Ledger!vars)
  BY <1>1 DEF Abort, UpsertViewer, InsertSession
<1>5. \A pair \in Pairs, internal \in BOOLEAN :
         SetViewerInternal(pair, internal) => [Ledger!Next]_(Ledger!vars)
  BY <1>1 DEF SetViewerInternal
<1>6. \A a \in answers : Expire(a) => [Ledger!Next]_(Ledger!vars)
  BY <1>1 DEF Expire
<1>7. \A c \in Calls : Commit(c) => [Ledger!Next]_(Ledger!vars)
  BY CommitWrites DEF Ledger!Next, IInv
<1>8. \A n \in DOMAIN log : Post(n) => [Ledger!Next]_(Ledger!vars)
  <2> SUFFICES ASSUME NEW n \in DOMAIN log, Post(n) PROVE [Ledger!Next]_(Ledger!vars)
    OBVIOUS
  <2>1. DOMAIN Column(log) = DOMAIN log
    BY DEF Column
  <2> QED BY <2>1, PostTakes DEF Ledger!Next, Ledger!vars, Column
<1>9. Reconcile => [Ledger!Next]_(Ledger!vars)
  BY ReconcileSettles DEF Ledger!Next
<1> QED BY <1>2, <1>3, <1>4, <1>5, <1>6, <1>7, <1>8, <1>9, Cases

\* Transactions, pg_net and reconciler implement the ledger of mails, for any
\* shares, readers and calls and whatever becomes of the answers.
THEOREM KeepsTheLedger == Spec => LedgerKept
<1>1. Init => Ledger!Init
  <2>1. log = << >> => [m \in DOMAIN log |-> log[m].status] = << >>
    OBVIOUS
  <2> QED BY <2>1 DEF Init, Ledger!Init
<1>2. IInv /\ IInv' /\ [Next]_vars => [Ledger!Next]_(Ledger!vars)
  BY StepMaps
<1> QED BY <1>1, <1>2, Invariance, PTL DEF Spec, LedgerKept, Ledger!Spec

=============================================================================
