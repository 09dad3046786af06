---------------------------- MODULE CursorsProofs ----------------------------
(***************************************************************************)
(* No row behind a cursor is forgotten, for any rows, batches and          *)
(* overlapping runs.  A run knows, wherever it is, that all the rows begun *)
(* below the cursor it read are handed over (got); because ids and times   *)
(* only grow, a row that begins later lies beyond every cursor there is.   *)
(***************************************************************************)
EXTENDS Cursors, FiniteSetTheorems, TLAPS

Fields == [state : {"open", "kept", "gone"}, id : Nat, at : Nat]
ReplayFields == [kind : {"replay"}, step : {"cursor", "read", "post", "write"}, round : Nat,
                 from : Nat, rows : SUBSET Events]
FeedFields == [kind : {"feed"}, step : {"cursor", "shares", "events", "news", "send", "write"}, at : Nat,
               from : Nat, rows : SUBSET Rows]

TypeInv ==
    /\ now \in Nat /\ cursor \in Nat /\ feedFrom \in Nat
    /\ row \in [Rows -> {None} \cup Fields]
    /\ task \in [Tasks -> {Idle} \cup ReplayFields \cup FeedFields]

BegunIn(r) == {e \in Rows : r[e] # None}
EventsIn(r) == {e \in Events : r[e] # None}
Count(r) == Cardinality(EventsIn(r))

\* All events begun with an id up to i, and all rows begun before time f, are in got.
IdsIn(r, got, i) == \A e \in EventsIn(r) : r[e].id <= i => e \in got
TimesIn(r, got, f) == \A e \in BegunIn(r) : r[e].at < f => e \in got

ReplaySound(q, r, got) ==
    /\ q.step # "cursor" => q.from <= Count(r) /\ IdsIn(r, got, q.from)
    /\ q.step \in {"post", "write"} =>
          /\ q.rows \subseteq EventsIn(r)
          /\ \A e \in EventsIn(r), f \in q.rows :
                r[e].id <= r[f].id => e \in got \/ (q.step = "post" /\ e \in q.rows)

FeedSound(q, r, got, n) ==
    /\ q.at <= n
    /\ q.step # "cursor" => q.from <= n /\ TimesIn(r, got, q.from)
    /\ q.step = "events" => TimesIn(r, got \cup q.rows \cup Events, q.at)
    /\ q.step \in {"events", "news"} => \A e \in q.rows : r[e] # None /\ r[e].state # "open"
    /\ q.step \in {"news", "send"} => TimesIn(r, got \cup q.rows, q.at)
    /\ q.step = "write" => TimesIn(r, got, q.at)

IdsSound(r, n) ==
    /\ \A e \in BegunIn(r) : r[e].at <= n
    /\ \A e \in EventsIn(r) : r[e].id <= Count(r) /\ r[e].state # "gone"
    /\ \A e, f \in EventsIn(r) : r[e].id = r[f].id => e = f

\* What a replay owes nothing to, and what the feed owes nothing to.
Replayed == Bot \cup overtaken \cup sent
Joined(e) == e \in Shares /\ ~Lone(e)
Gone(e) == Begun(e) /\ row[e].state = "gone"
Excused == {e \in Rows : Joined(e) \/ Gone(e)}
Announced == Internal \cup late \cup tried \cup Excused

RowInv == IdsSound(row, now)
CursorInv == cursor <= Count(row) /\ IdsIn(row, Replayed, cursor)
FeedInv == feedFrom <= now /\ TimesIn(row, Announced, feedFrom)
TaskInv ==
    \A t \in Tasks : /\ task[t].kind = "replay" => ReplaySound(task[t], row, Replayed)
                     /\ task[t].kind = "feed" => FeedSound(task[t], row, Announced, now)

IInv == TypeInv /\ RowInv /\ CursorInv /\ FeedInv /\ TaskInv

-----------------------------------------------------------------------------
(* Facts of the moment.                                                    *)

LEMMA CountIs ==
    ASSUME NEW r
    PROVE  IsFiniteSet(EventsIn(r)) /\ Count(r) \in Nat
BY CursorsAssumption, FS_Subset, FS_CardinalityType DEF EventsIn, Count

\* A task of a kind is of that kind's fields.
LEMMA KindIs ==
    ASSUME TypeInv, NEW t \in Tasks
    PROVE  /\ task[t].kind = "replay" => task[t] \in ReplayFields
           /\ task[t].kind = "feed" => task[t] \in FeedFields
BY DEF TypeInv, Idle, ReplayFields, FeedFields

LEMMA ExcusedStays ==
    ASSUME row' = row
    PROVE  Excused' = Excused
BY DEF Excused, Joined, Gone, Lone, Begun

LEMMA ReplayStays ==
    ASSUME NEW q, NEW r, NEW got, NEW more, ReplaySound(q, r, got), got \subseteq more
    PROVE  ReplaySound(q, r, more)
BY DEF ReplaySound, IdsIn

LEMMA FeedStays ==
    ASSUME NEW q \in FeedFields, NEW r, NEW got, NEW more, NEW n \in Nat, NEW m \in Nat,
           FeedSound(q, r, got, n), got \subseteq more, n <= m
    PROVE  FeedSound(q, r, more, m)
BY DEF FeedSound, TimesIn, FeedFields

\* Rows that begin have ids and times beyond all there are, and a row that is
\* no longer in flight stays so.
Extends(r, r2, n) ==
    /\ BegunIn(r) \subseteq BegunIn(r2) /\ Count(r) <= Count(r2)
    /\ \A e \in BegunIn(r) : /\ r2[e].id = r[e].id /\ r2[e].at = r[e].at
                             /\ r[e].state # "open" => r2[e].state # "open"
                             /\ r[e].state = "gone" => r2[e].state = "gone"
    /\ \A e \in BegunIn(r2) \ BegunIn(r) : r2[e].at = n /\ (e \in Events => r2[e].id = Count(r) + 1)

LEMMA EventsBegun ==
    ASSUME NEW r
    PROVE  EventsIn(r) = BegunIn(r) \cap Events
BY DEF EventsIn, BegunIn, Rows

LEMMA ReplayExtends ==
    ASSUME NEW q \in ReplayFields, NEW r \in [Rows -> {None} \cup Fields], NEW r2, NEW got, NEW n \in Nat,
           ReplaySound(q, r, got), Extends(r, r2, n), IdsSound(r, n)
    PROVE  ReplaySound(q, r2, got)
<1>1. Count(r) \in Nat /\ Count(r2) \in Nat
  BY CountIs
<1>2. \A e \in EventsIn(r) : r[e].id \in Nat /\ r2[e].id = r[e].id
  BY EventsBegun DEF BegunIn, Fields, Extends
<1>3. \A e \in EventsIn(r2) \ EventsIn(r) : r2[e].id = Count(r) + 1
  BY EventsBegun DEF Extends
<1>4. EventsIn(r) \subseteq EventsIn(r2)
  BY EventsBegun DEF Extends
<1>5. q.step # "cursor" => q.from <= Count(r2) /\ IdsIn(r2, got, q.from)
  BY <1>1, <1>2, <1>3 DEF ReplaySound, Extends, IdsIn, ReplayFields
<1>6. q.step \in {"post", "write"} =>
         \A e \in EventsIn(r2), f \in q.rows :
            r2[e].id <= r2[f].id => e \in got \/ (q.step = "post" /\ e \in q.rows)
  BY <1>1, <1>2, <1>3 DEF ReplaySound, IdsSound
<1> QED BY <1>4, <1>5, <1>6 DEF ReplaySound

LEMMA FeedExtends ==
    ASSUME NEW q \in FeedFields, NEW r \in [Rows -> {None} \cup Fields], NEW r2, NEW got, NEW n \in Nat,
           FeedSound(q, r, got, n), Extends(r, r2, n)
    PROVE  FeedSound(q, r2, got, n)
<1>1. \A any : \A f \in Nat : f <= n /\ TimesIn(r, any, f) => TimesIn(r2, any, f)
  BY DEF TimesIn, Extends
<1>2. \A e \in q.rows : r[e] # None /\ r[e].state # "open" => r2[e] # None /\ r2[e].state # "open"
  BY DEF Extends, BegunIn, FeedFields
<1>3. q.at \in Nat /\ q.from \in Nat
  BY DEF FeedFields
<1> QED BY <1>1, <1>2, <1>3 DEF FeedSound

-----------------------------------------------------------------------------
(* The rows.                                                               *)

\* A begun row takes the next time, and an event the next id.
LEMMA InsertExtends ==
    ASSUME TypeInv, RowInv, NEW e \in Rows, Insert(e)
    PROVE  Extends(row, row', now) /\ RowInv'
<1>1. Count(row) \in Nat /\ IsFiniteSet(EventsIn(row))
  BY CountIs
<1>2. ~(e \in BegunIn(row)) /\ Cardinality({f \in Events : Begun(f)}) = Count(row)
  BY DEF Insert, Begun, BegunIn, EventsIn, Count
<1>3. /\ row'[e] = [state |-> "open", id |-> NextId(e), at |-> now]
      /\ \A f \in Rows \ {e} : row'[f] = row[f]
  BY DEF Insert, TypeInv
<1>4. NextId(e) \in Nat /\ (e \in Events => NextId(e) = Count(row) + 1)
  BY <1>1, <1>2 DEF NextId
<1>5. row'[e] # None
  <2>1. row'[e] \in Fields
    BY <1>3, <1>4 DEF Fields, TypeInv
  <2> QED BY <2>1, CursorsAssumption DEF Fields
<1>6. BegunIn(row') = BegunIn(row) \cup {e}
  BY <1>2, <1>3, <1>5 DEF BegunIn
<1>7. Count(row') \in Nat /\ Count(row) <= Count(row') /\ (e \in Events => Count(row') = Count(row) + 1)
  <2>1. CASE e \in Events
    <3>1. EventsIn(row') = EventsIn(row) \cup {e} /\ ~(e \in EventsIn(row))
      BY <1>2, <1>6, <2>1, EventsBegun
    <3> QED BY <1>1, <3>1, FS_AddElement DEF Count
  <2>2. CASE ~(e \in Events)
    <3>1. EventsIn(row') = EventsIn(row)
      BY <1>6, <2>2, EventsBegun
    <3> QED BY <1>1, <2>2, <3>1 DEF Count
  <2> QED BY <2>1, <2>2
<1>8. Extends(row, row', now)
  <2>1. \A f \in BegunIn(row) : row'[f] = row[f]
    BY <1>2, <1>3 DEF BegunIn
  <2>2. BegunIn(row') \ BegunIn(row) = {e}
    BY <1>2, <1>6
  <2>3. row'[e].at = now /\ (e \in Events => row'[e].id = Count(row) + 1)
    BY <1>3, <1>4
  <2> QED BY <1>6, <1>7, <2>1, <2>2, <2>3 DEF Extends
<1>9. now' = now
  BY DEF Insert
<1>10. IdsSound(row', now)
  <2>1. \A f \in BegunIn(row) : row[f].id \in Nat /\ row[f].at \in Nat /\ row'[f] = row[f]
    BY <1>2, <1>3 DEF TypeInv, BegunIn, Fields
  <2>2. EventsIn(row') \subseteq EventsIn(row) \cup {e} /\ EventsIn(row) \subseteq BegunIn(row)
    BY <1>6, EventsBegun
  <2>3. \A f \in BegunIn(row') : row'[f].at <= now
    BY <1>3, <1>6, <2>1 DEF RowInv, IdsSound, TypeInv
  <2>4. \A f \in EventsIn(row') : row'[f].id <= Count(row') /\ row'[f].state # "gone"
    BY <1>1, <1>3, <1>4, <1>7, <2>1, <2>2, EventsBegun DEF RowInv, IdsSound
  <2>5. \A f, g \in EventsIn(row') : row'[f].id = row'[g].id => f = g
    BY <1>1, <1>3, <1>4, <2>1, <2>2, EventsBegun DEF RowInv, IdsSound
  <2> QED BY <2>3, <2>4, <2>5 DEF IdsSound
<1> QED BY <1>8, <1>9, <1>10 DEF RowInv

\* An ended transaction and a deletion change neither id nor time.
LEMMA SettleExtends ==
    ASSUME TypeInv, RowInv, NEW e \in Rows, Commit(e) \/ Remove(e)
    PROVE  Extends(row, row', now) /\ RowInv'
<1>1. row[e] \in Fields /\ row[e] # None /\ row[e].state \in {"open", "kept"}
  BY DEF Commit, Remove, Open, Kept, Begun, TypeInv
<1>2. PICK s \in {"kept", "gone"} : /\ row' = [row EXCEPT ![e].state = s]
                                    /\ row[e].state # "gone"
  BY <1>1 DEF Commit, Remove
<1>3. \A f \in Rows \ {e} : row'[f] = row[f]
  BY <1>2 DEF TypeInv
<1>4. row'[e] \in Fields /\ row'[e].id = row[e].id /\ row'[e].at = row[e].at /\ row'[e].state = s
  BY <1>1, <1>2 DEF Fields, TypeInv
<1>5. row'[e] # None
  BY <1>4, CursorsAssumption DEF Fields
<1>6. BegunIn(row') = BegunIn(row)
  BY <1>1, <1>3, <1>5 DEF BegunIn
<1>7. Count(row') = Count(row) /\ Count(row) \in Nat /\ EventsIn(row') = EventsIn(row)
  BY <1>6, CountIs, EventsBegun DEF Count
<1>8. \A f \in BegunIn(row) : /\ row'[f].id = row[f].id /\ row'[f].at = row[f].at
                              /\ row[f].state # "open" => row'[f].state # "open"
                              /\ row[f].state = "gone" => row'[f].state = "gone"
  BY <1>1, <1>2, <1>3, <1>4 DEF BegunIn
<1>9. now' = now
  BY DEF Commit, Remove
<1>10. Extends(row, row', now)
  BY <1>6, <1>7, <1>8 DEF Extends
<1>11. IdsSound(row', now)
  <2>1. \A f \in EventsIn(row) : row'[f].state # "gone"
    <3>1. e \in Events => s = "kept"
      BY <1>1, <1>2, <1>4, CursorsAssumption DEF Commit, Remove, Fields, TypeInv
    <3> QED BY <1>3, <1>4, <3>1, EventsBegun DEF RowInv, IdsSound, BegunIn
  <2> QED BY <1>6, <1>7, <1>8, <2>1, EventsBegun DEF RowInv, IdsSound
<1> QED BY <1>9, <1>10, <1>11 DEF RowInv

\* What the cursors and the tasks know of the rows survives new ones.
LEMMA RowMoves ==
    ASSUME IInv, Extends(row, row', now),
           UNCHANGED <<now, faults, cursor, feedFrom, task, sent, tried, overtaken, late>>
    PROVE  CursorInv' /\ FeedInv' /\ TaskInv'
<1> USE DEF IInv
<1>1. Count(row) \in Nat /\ Count(row') \in Nat
  BY CountIs
<1>2. Replayed' = Replayed /\ Announced \subseteq Announced'
  <2>1. \A e \in Rows : Begun(e) => Begun(e)'
    BY DEF Begun, Extends, BegunIn
  <2>2. \A e \in Rows : Joined(e) => Joined(e)'
    BY <2>1 DEF Joined, Lone, Rows
  <2>3. \A e \in Rows : Gone(e) => Gone(e)'
    BY <2>1 DEF Gone, Begun, Extends, BegunIn
  <2> QED BY <2>2, <2>3 DEF Replayed, Announced, Excused
<1>3. CursorInv'
  <2>1. \A e \in EventsIn(row) : row'[e].id = row[e].id
    BY EventsBegun DEF Extends
  <2>2. \A e \in EventsIn(row') \ EventsIn(row) : row'[e].id = Count(row) + 1
    BY EventsBegun DEF Extends
  <2> QED BY <1>1, <1>2, <2>1, <2>2 DEF CursorInv, IdsIn, Extends, TypeInv
<1>4. FeedInv'
  BY <1>2 DEF FeedInv, TimesIn, Extends, TypeInv
<1>5. TaskInv'
  <2> SUFFICES ASSUME NEW t \in Tasks
               PROVE  /\ task[t].kind = "replay" => ReplaySound(task[t], row', Replayed)
                      /\ task[t].kind = "feed" => FeedSound(task[t], row', Announced', now)
    BY <1>2 DEF TaskInv
  <2>1. ASSUME task[t].kind = "replay" PROVE ReplaySound(task[t], row', Replayed)
    <3>1. task[t] \in ReplayFields /\ ReplaySound(task[t], row, Replayed)
      BY <2>1, KindIs DEF TaskInv
    <3> QED BY <3>1, ReplayExtends DEF RowInv, TypeInv
  <2>2. ASSUME task[t].kind = "feed" PROVE FeedSound(task[t], row', Announced', now)
    <3>1. task[t] \in FeedFields /\ FeedSound(task[t], row, Announced, now)
      BY <2>2, KindIs DEF TaskInv
    <3>2. FeedSound(task[t], row', Announced, now)
      BY <3>1, FeedExtends DEF TypeInv
    <3> QED BY <1>2, <3>1, <3>2, FeedStays DEF TypeInv
  <2> QED BY <2>1, <2>2
<1> QED BY <1>3, <1>4, <1>5

\* Time alone disturbs nothing.
LEMMA TickStep ==
    ASSUME IInv, Tick
    PROVE  RowInv' /\ CursorInv' /\ FeedInv' /\ TaskInv'
<1> USE DEF IInv, Tick
<1>1. now \in Nat /\ now' = now + 1 /\ row' = row /\ task' = task /\ cursor' = cursor /\ feedFrom' = feedFrom
  BY DEF TypeInv
<1>2. Replayed' = Replayed /\ Announced' = Announced
  BY <1>1, ExcusedStays DEF Replayed, Announced
<1>3. RowInv'
  <2>1. \A e \in BegunIn(row) : row[e].at \in Nat
    BY DEF TypeInv, BegunIn, Fields
  <2> QED BY <1>1, <2>1 DEF RowInv, IdsSound
<1>4. CursorInv' /\ FeedInv'
  BY <1>1, <1>2 DEF CursorInv, FeedInv, TypeInv
<1>5. TaskInv'
  <2> SUFFICES ASSUME NEW t \in Tasks
               PROVE  /\ task[t].kind = "replay" => ReplaySound(task[t], row, Replayed)
                      /\ task[t].kind = "feed" => FeedSound(task[t], row, Announced, now + 1)
    BY <1>1, <1>2 DEF TaskInv
  <2>1. ASSUME task[t].kind = "feed" PROVE FeedSound(task[t], row, Announced, now + 1)
    <3>1. task[t] \in FeedFields /\ FeedSound(task[t], row, Announced, now)
      BY <2>1, KindIs DEF TaskInv
    <3> QED BY <1>1, <3>1, FeedStays
  <2> QED BY <2>1 DEF TaskInv
<1> QED BY <1>3, <1>4, <1>5

-----------------------------------------------------------------------------
(* The tasks: a step of one leaves the others as sound as they were, since *)
(* what is handed over is never taken back.                                *)

LEMMA MoveStep ==
    ASSUME IInv, NEW t \in Tasks, NEW q, row' = row, now' = now, task' = [task EXCEPT ![t] = q],
           Replayed \subseteq Replayed', Announced \subseteq Announced',
           q.kind = "replay" => ReplaySound(q, row, Replayed'),
           q.kind = "feed" => FeedSound(q, row, Announced', now)
    PROVE  /\ RowInv' /\ TaskInv'
           /\ cursor' = cursor => CursorInv'
           /\ feedFrom' = feedFrom => FeedInv'
<1> USE DEF IInv
<1>1. RowInv'
  BY DEF RowInv
<1>2. cursor' = cursor => CursorInv'
  BY DEF CursorInv, IdsIn
<1>3. feedFrom' = feedFrom => FeedInv'
  BY DEF FeedInv, TimesIn
<1>4. TaskInv'
  <2> SUFFICES ASSUME NEW u \in Tasks
               PROVE  /\ task'[u].kind = "replay" => ReplaySound(task'[u], row, Replayed')
                      /\ task'[u].kind = "feed" => FeedSound(task'[u], row, Announced', now)
    BY DEF TaskInv
  <2>1. CASE u = t
    BY <2>1 DEF TypeInv
  <2>2. CASE u # t
    <3>1. task'[u] = task[u]
      BY <2>2 DEF TypeInv
    <3>2. ASSUME task[u].kind = "replay" PROVE ReplaySound(task[u], row, Replayed')
      BY <3>2, ReplayStays DEF TaskInv
    <3>3. ASSUME task[u].kind = "feed" PROVE FeedSound(task[u], row, Announced', now)
      BY <3>3, KindIs, FeedStays DEF TaskInv, TypeInv
    <3> QED BY <3>1, <3>2, <3>3
  <2> QED BY <2>1, <2>2
<1> QED BY <1>1, <1>2, <1>3, <1>4

\* A run starts, reads its cursor, or ends.
LEMMA PlainStep ==
    ASSUME IInv, NEW t \in Tasks,
           \/ StartReplay(t) \/ StartFeed(t) \/ Fail(t) \/ ReplayCursor(t) \/ FeedCursor(t)
    PROVE  RowInv' /\ CursorInv' /\ FeedInv' /\ TaskInv'
<1> DEFINE q == task'[t]
<1>1. /\ row' = row /\ now' = now /\ cursor' = cursor /\ feedFrom' = feedFrom
      /\ Replayed' = Replayed /\ Announced' = Announced
  BY ExcusedStays DEF StartReplay, StartFeed, Fail, ReplayCursor, FeedCursor, Done, Replayed, Announced
<1>2. task' = [task EXCEPT ![t] = q]
  BY DEF StartReplay, StartFeed, Fail, ReplayCursor, FeedCursor, Done, IInv, TypeInv
<1>3. /\ q.kind = "replay" => ReplaySound(q, row, Replayed)
      /\ q.kind = "feed" => FeedSound(q, row, Announced, now)
  <2>1. CASE StartReplay(t) \/ StartFeed(t) \/ Fail(t)
    BY <2>1 DEF StartReplay, StartFeed, Fail, Done, Idle, IInv, TypeInv, ReplaySound, FeedSound
  <2>2. CASE ReplayCursor(t)
    <3>1. task[t] \in ReplayFields
      BY <2>2, KindIs DEF ReplayCursor, At, IInv
    <3>2. q.kind = "replay" /\ q.step = "read" /\ q.from = cursor
      BY <2>2, <3>1 DEF ReplayCursor, At, IInv, TypeInv, ReplayFields
    <3> QED BY <3>2 DEF ReplaySound, IInv, CursorInv
  <2>3. CASE FeedCursor(t)
    <3>1. task[t] \in FeedFields /\ FeedSound(task[t], row, Announced, now)
      BY <2>3, KindIs DEF FeedCursor, At, IInv, TaskInv
    <3>2. q.kind = "feed" /\ q.step = "shares" /\ q.from = feedFrom /\ q.at = task[t].at
      BY <2>3, <3>1 DEF FeedCursor, At, IInv, TypeInv, FeedFields
    <3> QED BY <3>1, <3>2 DEF FeedSound, IInv, FeedInv
  <2> QED BY <2>1, <2>2, <2>3
<1> HIDE DEF q
<1> QED BY <1>1, <1>2, <1>3, MoveStep

-----------------------------------------------------------------------------
(* The replay.                                                             *)

\* Nothing that could be read lies below what a read answers and outside it.
LEMMA ReadIsPrefix ==
    ASSUME TypeInv, NEW from, NEW e \in Beyond(from), NEW f \in FirstBeyond(from), row[e].id <= row[f].id
    PROVE  e \in FirstBeyond(from)
<1> DEFINE Below(g) == {h \in Beyond(from) : row[h].id < row[g].id}
<1>1. Beyond(from) \subseteq Events /\ \A g \in Beyond(from) : row[g].id \in Nat
  BY DEF Beyond, Kept, Begun, TypeInv, Fields, Rows
<1>2. f \in Beyond(from) /\ Cardinality(Below(f)) < Batch
  BY DEF FirstBeyond
<1>3. IsFiniteSet(Below(f)) /\ Below(e) \subseteq Below(f)
  <2>1. Below(f) \subseteq Events
    BY <1>1
  <2> QED BY <1>1, <1>2, <2>1, FS_Subset, CursorsAssumption
<1>4. Cardinality(Below(e)) <= Cardinality(Below(f)) /\ Cardinality(Below(e)) \in Nat /\ Cardinality(Below(f)) \in Nat
  BY <1>3, FS_Subset, FS_CardinalityType
<1>5. Batch \in Nat
  BY CursorsAssumption
<1>6. Cardinality(Below(e)) < Batch
  BY <1>2, <1>4, <1>5
<1> QED BY <1>6 DEF FirstBeyond

LEMMA ReplayReadStep ==
    ASSUME IInv, NEW t \in Tasks, ReplayRead(t)
    PROVE  RowInv' /\ CursorInv' /\ FeedInv' /\ TaskInv'
<1> DEFINE q == task'[t]
           rows == FirstBeyond(task[t].from)
<1>1. task[t] \in ReplayFields /\ ReplaySound(task[t], row, Replayed) /\ task[t].step = "read"
  BY KindIs DEF ReplayRead, At, IInv, TaskInv
<1>2. /\ row' = row /\ now' = now /\ cursor' = cursor /\ feedFrom' = feedFrom
      /\ sent' = sent /\ tried' = tried /\ late' = late /\ overtaken \subseteq overtaken'
  BY DEF ReplayRead
<1>3. Replayed \subseteq Replayed' /\ Announced \subseteq Announced'
  BY <1>2, ExcusedStays DEF Replayed, Announced
<1>4. task' = [task EXCEPT ![t] = q]
  BY DEF ReplayRead, Done, IInv, TypeInv
<1>5. CASE rows = {}
  <2>1. q = Idle
    BY <1>5 DEF ReplayRead, Done, IInv, TypeInv
  <2> HIDE DEF q
  <2> QED BY <1>2, <1>3, <1>4, <2>1, MoveStep DEF Idle
<1>6. CASE rows # {}
  <2>1. /\ q.kind = "replay" /\ q.from = task[t].from /\ q.rows = rows
        /\ q.step \in {"post", "write"} /\ (q.step = "write" => rows \subseteq Bot)
    BY <1>1, <1>6 DEF ReplayRead, Outside, IInv, TypeInv, ReplayFields
  <2>2. overtaken' = overtaken \cup Overtaken(rows)
    BY <1>6 DEF ReplayRead
  <2>3. ReplaySound(q, row, Replayed')
    <3>1. q.from <= Count(row) /\ IdsIn(row, Replayed', q.from)
      BY <1>1, <1>3, <2>1 DEF ReplaySound, IdsIn
    <3>2. rows \subseteq EventsIn(row)
      BY DEF FirstBeyond, Beyond, Kept, Begun, EventsIn
    <3>3. ASSUME NEW e \in EventsIn(row), NEW f \in rows, row[e].id <= row[f].id
          PROVE  e \in Replayed' \/ (q.step = "post" /\ e \in rows)
      <4>1. /\ row[e].id \in Nat /\ row[f].id \in Nat /\ task[t].from \in Nat /\ e \in Events
            /\ row[e].state \in {"open", "kept"}
        BY <1>1, <3>2 DEF EventsIn, IInv, TypeInv, Fields, ReplayFields, RowInv, IdsSound, Rows
      <4>2. CASE row[e].id <= task[t].from
        BY <3>1, <2>1, <4>2 DEF IdsIn
      <4>3. CASE row[e].state = "open"
        <5>1. row[f].state = "kept"
          BY DEF FirstBeyond, Beyond, Kept
        <5>2. row[e].id # row[f].id
          BY <3>2, <4>3, <5>1 DEF IInv, RowInv, IdsSound
        <5>3. e \in Overtaken(rows)
          <6> HIDE DEF rows
          <6>1. row[e].id < row[f].id
            BY <3>3, <4>1, <5>2
          <6> QED BY <3>3, <4>1, <4>3, <6>1 DEF Overtaken, Open, Begun, EventsIn
        <5> QED BY <2>2, <5>3 DEF Replayed
      <4>4. CASE row[e].id > task[t].from /\ row[e].state = "kept"
        <5>1. e \in Beyond(task[t].from)
          BY <4>1, <4>4 DEF Beyond, Kept, Begun, EventsIn
        <5>2. e \in rows
          BY <3>3, <5>1, ReadIsPrefix DEF IInv
        <5> QED BY <2>1, <5>2 DEF Replayed
      <4> QED BY <4>1, <4>2, <4>3, <4>4
    <3> HIDE DEF q, rows
    <3> QED BY <2>1, <3>1, <3>2, <3>3 DEF ReplaySound
  <2> HIDE DEF q, rows
  <2> QED BY <1>2, <1>3, <1>4, <2>1, <2>3, MoveStep
<1> QED BY <1>5, <1>6

\* PostHog takes the batch; the run goes on, or does not learn of it.
LEMMA ReplayPostStep ==
    ASSUME IInv, NEW t \in Tasks, ReplayPost(t) \/ ReplayPostLost(t)
    PROVE  RowInv' /\ CursorInv' /\ FeedInv' /\ TaskInv'
<1> DEFINE q == task'[t]
<1>1. task[t] \in ReplayFields /\ ReplaySound(task[t], row, Replayed) /\ task[t].step = "post"
  BY KindIs DEF ReplayPost, ReplayPostLost, At, IInv, TaskInv
<1>2. /\ row' = row /\ now' = now /\ cursor' = cursor /\ feedFrom' = feedFrom
      /\ tried' = tried /\ late' = late /\ overtaken' = overtaken /\ sent' = sent \cup Outside(task[t].rows)
  BY DEF ReplayPost, ReplayPostLost
<1>3. Replayed \subseteq Replayed' /\ task[t].rows \subseteq Replayed' /\ Announced' = Announced
  BY <1>2, ExcusedStays DEF Replayed, Announced, Outside
<1>4. task' = [task EXCEPT ![t] = q]
  BY DEF ReplayPost, ReplayPostLost, Done, IInv, TypeInv
<1>5. \/ q = Idle
      \/ /\ q.kind = "replay" /\ q.from = task[t].from /\ q.rows = task[t].rows /\ q.step = "write"
  BY <1>1 DEF ReplayPost, ReplayPostLost, At, Done, IInv, TypeInv, ReplayFields
<1>6. q.kind = "replay" => ReplaySound(q, row, Replayed')
  <2> HIDE DEF q
  <2> QED BY <1>1, <1>3, <1>5 DEF ReplaySound, IdsIn, Idle
<1>7. q.kind # "feed"
  <2> HIDE DEF q
  <2> QED BY <1>5 DEF Idle
<1> HIDE DEF q
<1> QED BY <1>2, <1>3, <1>4, <1>6, <1>7, MoveStep

LEMMA ReplayWriteStep ==
    ASSUME IInv, NEW t \in Tasks, ReplayWrite(t)
    PROVE  RowInv' /\ CursorInv' /\ FeedInv' /\ TaskInv'
<1> DEFINE q == task'[t]
<1>1. task[t] \in ReplayFields /\ ReplaySound(task[t], row, Replayed) /\ task[t].step = "write"
  BY KindIs DEF ReplayWrite, At, IInv, TaskInv
<1>2. /\ row' = row /\ now' = now /\ feedFrom' = feedFrom
      /\ Replayed' = Replayed /\ Announced' = Announced
  BY ExcusedStays DEF ReplayWrite, Replayed, Announced
<1>3. PICK i \in Ids : /\ IsLast(i, task[t].rows)
                       /\ cursor' = i
                       /\ IF More(t) THEN task' = [task EXCEPT ![t].step = "read", ![t].round = @ + 1,
                                                               ![t].rows = {}, ![t].from = i]
                          ELSE Done(t)
  BY DEF ReplayWrite
<1>4. task' = [task EXCEPT ![t] = q]
  BY <1>3 DEF Done, IInv, TypeInv
<1>5. PICK e \in task[t].rows : row[e].id = i
  BY <1>3 DEF IsLast
<1>6. i <= Count(row) /\ IdsIn(row, Replayed, i)
  BY <1>1, <1>5 DEF ReplaySound, IInv, RowInv, IdsSound, IdsIn
<1>7. q = Idle \/ (q.kind = "replay" /\ q.from = i /\ q.step = "read")
  BY <1>1, <1>3 DEF Done, IInv, TypeInv, ReplayFields
<1>8. q.kind = "replay" => ReplaySound(q, row, Replayed')
  <2> HIDE DEF q
  <2> QED BY <1>2, <1>6, <1>7 DEF ReplaySound, Idle
<1>9. q.kind # "feed"
  <2> HIDE DEF q
  <2> QED BY <1>7 DEF Idle
<1>10. CursorInv'
  BY <1>2, <1>3, <1>6 DEF CursorInv
<1> HIDE DEF q
<1> QED BY <1>2, <1>4, <1>8, <1>9, <1>10, MoveStep

-----------------------------------------------------------------------------
(* The feed.                                                               *)

\* After the read of a table, its rows of the window are in hand or late.
LEMMA TableRead ==
    ASSUME IInv, NEW t \in Tasks, NEW table \in SUBSET Rows, task[t] \in FeedFields,
           FeedSound(task[t], row, Announced, now), task[t].step # "cursor",
           NEW e \in BegunIn(row), e \in table, row[e].at < task[t].at
    PROVE  e \in Announced \cup {f \in Window(t, table) : Kept(f)} \cup {f \in Window(t, table) : Open(f)}
<1>1. e \in Rows /\ row[e] \in Fields /\ task[t].from \in Nat
  BY DEF BegunIn, IInv, TypeInv, FeedFields
<1>2. CASE row[e].at < task[t].from
  BY <1>2 DEF FeedSound, TimesIn
<1>3. CASE ~(row[e].at < task[t].from)
  <2>1. e \in Window(t, table)
    BY <1>1, <1>3 DEF Window, InWindow, Begun, BegunIn, Fields
  <2>2. row[e].state = "gone" => e \in Announced
    BY <1>1 DEF Announced, Excused, Gone, Begun, BegunIn
  <2> HIDE DEF Window
  <2>3. row[e].state \in {"open", "kept", "gone"}
    BY <1>1 DEF Fields
  <2>4. Begun(e)
    BY DEF Begun, BegunIn
  <2> QED BY <2>1, <2>2, <2>3, <2>4 DEF Open, Kept
<1> QED BY <1>2, <1>3

LEMMA FeedTableStep ==
    ASSUME IInv, NEW t \in Tasks, FeedShares(t) \/ FeedEvents(t)
    PROVE  RowInv' /\ CursorInv' /\ FeedInv' /\ TaskInv'
<1> DEFINE q == task'[t]
<1>1. task[t] \in FeedFields /\ FeedSound(task[t], row, Announced, now) /\ task[t].step \in {"shares", "events"}
  BY KindIs DEF FeedShares, FeedEvents, At, IInv, TaskInv
<1>2. /\ row' = row /\ now' = now /\ cursor' = cursor /\ feedFrom' = feedFrom
      /\ Replayed' = Replayed /\ Announced \subseteq Announced'
  BY ExcusedStays DEF FeedShares, FeedEvents, Replayed, Announced
<1>3. task' = [task EXCEPT ![t] = q]
  BY DEF FeedShares, FeedEvents, IInv, TypeInv
<1>4. CASE FeedShares(t)
  <2>1. /\ q.kind = "feed" /\ q.from = task[t].from /\ q.at = task[t].at /\ q.step = "events"
        /\ q.rows = {e \in Window(t, Shares) : Kept(e)}
    BY <1>1, <1>4 DEF FeedShares, IInv, TypeInv, FeedFields, At
  <2>2. TimesIn(row, Announced' \cup q.rows \cup Events, q.at)
    <3> SUFFICES ASSUME NEW e \in BegunIn(row), e \notin Events, row[e].at < task[t].at
                 PROVE  e \in Announced' \cup q.rows
      BY <2>1 DEF TimesIn
    <3>1. e \in Shares
      BY DEF BegunIn, Rows
    <3>2. e \in Announced \cup {f \in Window(t, Shares) : Kept(f)} \cup {f \in Window(t, Shares) : Open(f)}
      BY <1>1, <3>1, TableRead DEF Rows
    <3>3. {f \in Window(t, Shares) : Open(f)} \subseteq Announced'
      BY <1>4 DEF FeedShares, Announced
    <3> QED BY <1>2, <2>1, <3>2, <3>3
  <2>3. \A e \in q.rows : row[e] # None /\ row[e].state # "open"
    BY <2>1 DEF Kept, Begun
  <2>4. FeedSound(q, row, Announced', now)
    <3> HIDE DEF q
    <3> QED BY <1>1, <1>2, <2>1, <2>2, <2>3 DEF FeedSound, TimesIn
  <2> HIDE DEF q
  <2> QED BY <1>2, <1>3, <2>1, <2>4, MoveStep
<1>5. CASE FeedEvents(t)
  <2>1. /\ q.kind = "feed" /\ q.from = task[t].from /\ q.at = task[t].at /\ q.step = "news"
        /\ q.rows = task[t].rows \cup {e \in Window(t, Events) : Kept(e)}
        /\ task[t].step = "events"
    BY <1>1, <1>5 DEF FeedEvents, IInv, TypeInv, FeedFields, At
  <2>2. TimesIn(row, Announced' \cup q.rows, q.at)
    <3> SUFFICES ASSUME NEW e \in BegunIn(row), row[e].at < task[t].at
                 PROVE  e \in Announced' \cup q.rows
      BY <2>1 DEF TimesIn
    <3>1. CASE e \in Events
      <4>1. e \in Announced \cup {f \in Window(t, Events) : Kept(f)} \cup {f \in Window(t, Events) : Open(f)}
        BY <1>1, <3>1, TableRead DEF Rows
      <4>2. {f \in Window(t, Events) : Open(f)} \subseteq Announced'
        BY <1>5 DEF FeedEvents, Announced
      <4> QED BY <1>2, <2>1, <4>1, <4>2
    <3>2. CASE e \notin Events
      BY <1>1, <1>2, <2>1, <3>2 DEF FeedSound, TimesIn
    <3> QED BY <3>1, <3>2
  <2>3. \A e \in q.rows : row[e] # None /\ row[e].state # "open"
    BY <1>1, <2>1 DEF FeedSound, Kept, Begun
  <2>4. FeedSound(q, row, Announced', now)
    <3> HIDE DEF q
    <3> QED BY <1>1, <1>2, <2>1, <2>2, <2>3 DEF FeedSound, TimesIn
  <2> HIDE DEF q
  <2> QED BY <1>2, <1>3, <2>1, <2>4, MoveStep
<1> QED BY <1>4, <1>5, <1>1

\* What the totals leave out is internal, deleted, or not the only share of its
\* owner.
LEMMA LeftOut ==
    ASSUME IInv, NEW t \in Tasks, task[t] \in FeedFields, FeedSound(task[t], row, Announced, now),
           task[t].step = "news", NEW e \in task[t].rows, e \notin News(task[t].rows)
    PROVE  e \in Announced
<1>1. e \in Rows /\ Begun(e) /\ row[e].state # "open" /\ row[e] \in Fields
  BY DEF FeedFields, FeedSound, Begun, IInv, TypeInv
<1>2. CASE e \in Internal
  BY <1>2 DEF Announced
<1>3. CASE row[e].state = "gone"
  BY <1>1, <1>3 DEF Announced, Excused, Gone
<1>4. CASE e \notin Internal /\ row[e].state = "kept"
  <2>1. e \in Shares /\ Cardinality(SharesOf(Owner[e])) # 1
    BY <1>1, <1>4 DEF News, Rows
  <2>2. e \in SharesOf(Owner[e]) /\ IsFiniteSet(SharesOf(Owner[e]))
    BY <1>1, <1>4, <2>1, FS_Subset, CursorsAssumption DEF SharesOf, Kept
  <2>3. SharesOf(Owner[e]) # {e}
    BY <2>1, FS_Singleton
  <2>4. PICK f \in SharesOf(Owner[e]) : f # e
    BY <2>2, <2>3
  <2>5. f \in Shares /\ Begun(f) /\ Owner[f] = Owner[e]
    BY DEF SharesOf, Kept
  <2>6. Joined(e)
    BY <2>1, <2>4, <2>5 DEF Joined, Lone
  <2> QED BY <1>1, <2>6 DEF Announced, Excused
<1> QED BY <1>1, <1>2, <1>3, <1>4 DEF Fields

LEMMA FeedNewsStep ==
    ASSUME IInv, NEW t \in Tasks, FeedNews(t)
    PROVE  RowInv' /\ CursorInv' /\ FeedInv' /\ TaskInv'
<1> DEFINE q == task'[t]
           rows == News(task[t].rows)
<1>1. task[t] \in FeedFields /\ FeedSound(task[t], row, Announced, now) /\ task[t].step = "news"
  BY KindIs DEF FeedNews, At, IInv, TaskInv
<1>2. /\ row' = row /\ now' = now /\ cursor' = cursor /\ feedFrom' = feedFrom
      /\ Replayed' = Replayed /\ Announced' = Announced
  BY ExcusedStays DEF FeedNews, Replayed, Announced
<1>3. task' = [task EXCEPT ![t] = q]
  BY DEF FeedNews, IInv, TypeInv
<1>4. /\ q.kind = "feed" /\ q.from = task[t].from /\ q.at = task[t].at /\ q.rows = rows
      /\ q.step \in {"send", "write"} /\ (q.step = "write" => rows = {})
  BY <1>1 DEF FeedNews, At, IInv, TypeInv, FeedFields
<1>5. TimesIn(row, Announced \cup rows, task[t].at)
  <2> HIDE DEF rows
  <2>1. \A e \in task[t].rows : e \notin rows => e \in Announced
    BY <1>1, LeftOut DEF rows
  <2> QED BY <1>1, <2>1 DEF FeedSound, TimesIn
<1>6. FeedSound(q, row, Announced', now)
  <2> HIDE DEF q, rows
  <2> QED BY <1>1, <1>2, <1>4, <1>5 DEF FeedSound, TimesIn
<1> HIDE DEF q, rows
<1> QED BY <1>2, <1>3, <1>4, <1>6, MoveStep

LEMMA FeedSendStep ==
    ASSUME IInv, NEW t \in Tasks, NEW e \in Rows, FeedSend(t, e)
    PROVE  RowInv' /\ CursorInv' /\ FeedInv' /\ TaskInv'
<1> DEFINE q == task'[t]
<1>1. task[t] \in FeedFields /\ FeedSound(task[t], row, Announced, now) /\ task[t].step = "send"
  BY KindIs DEF FeedSend, At, IInv, TaskInv
<1>2. /\ row' = row /\ now' = now /\ cursor' = cursor /\ feedFrom' = feedFrom
      /\ Replayed' = Replayed /\ Announced' = Announced \cup {e}
  BY ExcusedStays DEF FeedSend, Replayed, Announced
<1>3. task' = [task EXCEPT ![t] = q]
  BY DEF FeedSend, IInv, TypeInv
<1>4. /\ q.kind = "feed" /\ q.from = task[t].from /\ q.at = task[t].at /\ q.rows = task[t].rows \ {e}
      /\ q.step \in {"send", "write"} /\ (q.step = "write" => task[t].rows = {e})
  BY <1>1 DEF FeedSend, At, IInv, TypeInv, FeedFields
<1>5. FeedSound(q, row, Announced', now)
  <2> HIDE DEF q
  <2>1. TimesIn(row, Announced' \cup q.rows, q.at)
    BY <1>1, <1>2, <1>4 DEF FeedSound, TimesIn
  <2> QED BY <1>1, <1>2, <1>4, <2>1 DEF FeedSound, TimesIn
<1> HIDE DEF q
<1> QED BY <1>2, <1>3, <1>4, <1>5, MoveStep

LEMMA FeedWriteStep ==
    ASSUME IInv, NEW t \in Tasks, FeedWrite(t)
    PROVE  RowInv' /\ CursorInv' /\ FeedInv' /\ TaskInv'
<1>1. FeedSound(task[t], row, Announced, now) /\ task[t].step = "write"
  BY DEF FeedWrite, At, IInv, TaskInv
<1>2. /\ row' = row /\ now' = now /\ cursor' = cursor /\ feedFrom' = task[t].at
      /\ Replayed' = Replayed /\ Announced' = Announced /\ task' = [task EXCEPT ![t] = Idle]
  BY ExcusedStays DEF FeedWrite, Closing, Done, Replayed, Announced
<1>3. FeedInv'
  BY <1>1, <1>2 DEF FeedInv, FeedSound
<1> QED BY <1>2, <1>3, MoveStep DEF Idle

-----------------------------------------------------------------------------
(* The invariant.                                                          *)

LEMMA TypeStep ==
    ASSUME TypeInv, Next
    PROVE  TypeInv'
<1> USE DEF TypeInv
<1>1. CASE Tick
  BY <1>1 DEF Tick
<1>2. ASSUME NEW e \in Rows, Insert(e) PROVE TypeInv'
  <2>1. NextId(e) \in Nat
    BY CountIs DEF Count, EventsIn, Begun, NextId
  <2> QED BY <1>2, <2>1 DEF Insert, Fields
<1>3. ASSUME NEW e \in Rows, Commit(e) \/ Remove(e) PROVE TypeInv'
  BY <1>3 DEF Commit, Remove, Open, Kept, Begun, Fields
<1>4. ASSUME NEW t \in Tasks, StartReplay(t) \/ StartFeed(t) \/ Fail(t) PROVE TypeInv'
  <2>1. CursorsAssumption
    BY CursorsAssumption
  <2>2. CASE StartReplay(t)
    BY <2>2 DEF StartReplay, ReplayFields
  <2>3. CASE StartFeed(t)
    BY <2>3 DEF StartFeed, FeedFields
  <2>4. CASE Fail(t)
    BY <2>4 DEF Fail, Done
  <2> QED BY <1>4, <2>2, <2>3, <2>4
<1>5. ASSUME NEW t \in Tasks, task[t] \in ReplayFields,
             \/ ReplayCursor(t) \/ ReplayRead(t) \/ ReplayPost(t) \/ ReplayPostLost(t) \/ ReplayWrite(t)
      PROVE  TypeInv'
  <2>1. CASE ReplayCursor(t)
    BY <1>5, <2>1 DEF ReplayCursor, ReplayFields
  <2>2. CASE ReplayRead(t)
    <3>1. FirstBeyond(task[t].from) \subseteq Events
      BY DEF FirstBeyond, Beyond
    <3> QED BY <1>5, <2>2, <3>1 DEF ReplayRead, Done, ReplayFields
  <2>3. CASE ReplayPost(t) \/ ReplayPostLost(t)
    BY <1>5, <2>3 DEF ReplayPost, ReplayPostLost, Done, ReplayFields
  <2>4. CASE ReplayWrite(t)
    <3>1. PICK i \in Ids : /\ cursor' = i
                           /\ IF More(t) THEN task' = [task EXCEPT ![t].step = "read", ![t].round = @ + 1,
                                                                   ![t].rows = {}, ![t].from = i]
                              ELSE Done(t)
      BY <2>4 DEF ReplayWrite
    <3>2. i \in Nat
      BY CountIs DEF Ids
    <3>3. task' \in [Tasks -> {Idle} \cup ReplayFields \cup FeedFields]
      <4>1. CASE More(t)
        BY <1>5, <3>1, <3>2, <4>1 DEF ReplayFields
      <4>2. CASE ~More(t)
        BY <3>1, <4>2 DEF Done
      <4> QED BY <4>1, <4>2
    <3> QED BY <2>4, <3>1, <3>2, <3>3 DEF ReplayWrite
  <2> QED BY <1>5, <2>1, <2>2, <2>3, <2>4
<1>6. ASSUME NEW t \in Tasks, task[t] \in FeedFields,
             FeedCursor(t) \/ FeedShares(t) \/ FeedEvents(t) \/ FeedNews(t) \/ FeedWrite(t) \/ \E e \in Rows : FeedSend(t, e)
      PROVE  TypeInv'
  <2>1. CASE FeedCursor(t)
    BY <1>6, <2>1 DEF FeedCursor, FeedFields
  <2>2. CASE FeedShares(t)
    <3>1. {e \in Window(t, Shares) : Kept(e)} \subseteq Rows
      BY DEF Window, Rows
    <3> QED BY <1>6, <2>2, <3>1 DEF FeedShares, FeedFields
  <2>5. CASE FeedEvents(t)
    <3>1. {e \in Window(t, Events) : Kept(e)} \subseteq Rows
      BY DEF Window, Rows
    <3> QED BY <1>6, <2>5, <3>1 DEF FeedEvents, FeedFields
  <2>6. CASE FeedNews(t)
    <3> DEFINE rows == News(task[t].rows)
    <3>1. rows \subseteq Rows
      BY <1>6 DEF News, FeedFields
    <3>2. task' = [task EXCEPT ![t].rows = rows, ![t].step = IF rows = {} THEN "write" ELSE "send"]
      BY <2>6 DEF FeedNews
    <3> HIDE DEF rows
    <3> DEFINE next == [task[t] EXCEPT !.rows = rows, !.step = IF rows = {} THEN "write" ELSE "send"]
    <3>3. next \in FeedFields
      BY <1>6, <3>1 DEF FeedFields
    <3>4. task' \in [Tasks -> {Idle} \cup ReplayFields \cup FeedFields]
      BY <3>2, <3>3
    <3> QED BY <2>6, <3>4 DEF FeedNews
  <2>3. CASE FeedWrite(t)
    BY <1>6, <2>3 DEF FeedWrite, Closing, Done, FeedFields
  <2>4. ASSUME NEW e \in Rows, FeedSend(t, e) PROVE TypeInv'
    <3>1. [task[t] EXCEPT !.rows = @ \ {e}, !.step = IF task[t].rows = {e} THEN "write" ELSE "send"] \in FeedFields
      BY <1>6 DEF FeedFields
    <3>2. task' \in [Tasks -> {Idle} \cup ReplayFields \cup FeedFields]
      BY <2>4, <3>1 DEF FeedSend
    <3> QED BY <2>4, <3>2 DEF FeedSend
  <2> QED BY <1>6, <2>1, <2>2, <2>3, <2>4, <2>5, <2>6
<1>7. \A t \in Tasks : /\ ReplayCursor(t) \/ ReplayRead(t) \/ ReplayPost(t) \/ ReplayPostLost(t) \/ ReplayWrite(t)
                            => task[t] \in ReplayFields
                       /\ FeedCursor(t) \/ FeedShares(t) \/ FeedEvents(t) \/ FeedNews(t) \/ FeedWrite(t) \/ (\E e \in Rows : FeedSend(t, e))
                            => task[t] \in FeedFields
  BY KindIs DEF ReplayCursor, ReplayRead, ReplayPost, ReplayPostLost, ReplayWrite, FeedCursor, FeedShares, FeedEvents, FeedNews, FeedWrite,
                FeedSend, At
<1> HIDE DEF TypeInv
<1> QED BY <1>1, <1>2, <1>3, <1>4, <1>5, <1>6, <1>7 DEF Next, Step, Tasks

LEMMA InitIs == Init => IInv
<1> SUFFICES ASSUME Init PROVE IInv
  OBVIOUS
<1>1. BegunIn(row) = {} /\ EventsIn(row) = {} /\ Count(row) = 0
  BY FS_EmptySet DEF Init, BegunIn, EventsIn, Count, Rows
<1> QED BY <1>1 DEF Init, IInv, TypeInv, RowInv, CursorInv, FeedInv, TaskInv, IdsSound, IdsIn, TimesIn, Idle

LEMMA Invariance == IInv /\ [Next]_vars => IInv'
<1> SUFFICES ASSUME IInv, [Next]_vars PROVE IInv'
  OBVIOUS
<1>1. CASE UNCHANGED vars
  BY <1>1, ExcusedStays DEF vars, IInv, TypeInv, RowInv, CursorInv, FeedInv, TaskInv, Replayed, Announced
<1>2. CASE Next
  <2>1. TypeInv'
    BY <1>2, TypeStep DEF IInv
  <2>2. CASE Tick
    BY <2>1, <2>2, TickStep DEF IInv
  <2>3. ASSUME NEW e \in Rows, Insert(e) \/ Commit(e) \/ Remove(e) PROVE IInv'
    <3>1. Extends(row, row', now) /\ RowInv'
      BY <2>3, InsertExtends, SettleExtends DEF IInv
    <3>2. UNCHANGED <<now, faults, cursor, feedFrom, task, sent, tried, overtaken, late>>
      BY <2>3 DEF Insert, Commit, Remove
    <3>3. CursorInv' /\ FeedInv' /\ TaskInv'
      BY <3>1, <3>2, RowMoves
    <3> QED BY <2>1, <3>1, <3>3 DEF IInv
  <2>4. ASSUME NEW t \in Tasks, StartReplay(t) \/ StartFeed(t) \/ Fail(t) \/ ReplayPostLost(t) \/ Step(t) PROVE IInv'
    <3>1. RowInv' /\ CursorInv' /\ FeedInv' /\ TaskInv'
      BY <2>4, PlainStep, ReplayReadStep, ReplayPostStep, ReplayWriteStep, FeedTableStep, FeedNewsStep, FeedSendStep, FeedWriteStep
      DEF Step
    <3> QED BY <2>1, <3>1 DEF IInv
  <2> QED BY <1>2, <2>2, <2>3, <2>4 DEF Next, Tasks
<1> QED BY <1>1, <1>2

-----------------------------------------------------------------------------
(* The theorems.                                                           *)

\* Every event behind the replay's cursor is at PostHog, for any number of rows,
\* of overlapping runs and of failures, and any size of batch.
THEOREM NothingSkipped == Spec => []SentBehindCursor
<1>1. IInv => SentBehindCursor
  BY DEF IInv, CursorInv, IdsIn, EventsIn, Replayed, SentBehindCursor, Kept, Begun
<1> QED BY <1>1, InitIs, Invariance, PTL DEF Spec

\* Every moment behind the feed's cursor was put to Telegram, a share if it is
\* still its owner's only one, however the runs of the feed overlap and wherever
\* they fail.
THEOREM NothingUntold == Spec => []TriedBehindCursor
<1>1. IInv => TriedBehindCursor
  <2> SUFFICES ASSUME IInv, NEW e \in Rows \ late, Due(e), row[e].at < feedFrom
               PROVE  e \in tried
    BY DEF TriedBehindCursor
  <2>1. e \in Announced
    BY DEF IInv, FeedInv, TimesIn, BegunIn, Due, Kept, Begun
  <2>2. e \notin Excused
    BY DEF Due, Excused, Joined, Gone, Kept
  <2> QED BY <2>1, <2>2 DEF Announced, Due
<1> QED BY <1>1, InitIs, Invariance, PTL DEF Spec

=============================================================================
