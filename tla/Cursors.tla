------------------------------- MODULE Cursors -------------------------------
(***************************************************************************)
(* The two cursors of the monitor's five-minute cron: replayAppEvents,     *)
(* which copies app_events to PostHog in the order of their ids            *)
(* (schema/029), and userFeed, which tells the founder of what happened in *)
(* a window of time (schema/051).  Each reads its cursor, then the rows    *)
(* beyond it, hands them over, and writes the cursor last.                 *)
(*                                                                         *)
(* The rows are those of app_events, which the replay copies and of which  *)
(* the feed announces some, and those of document_shares, of which it      *)
(* announces the first of each owner.  A row takes its time from its       *)
(* transaction and, in app_events, its id from a sequence, and is seen     *)
(* once it commits: neither order is the order of commits.  Runs overlap   *)
(* when one is slow, and any call of a run may fail or the worker may die, *)
(* at most MaxFaults times in a behaviour.                                 *)
(***************************************************************************)
EXTENDS Integers, FiniteSets

CONSTANTS Events,    \* rows of app_events, each a moment of another account
          Shares,    \* rows of document_shares
          Owner,     \* document_shares.owner_id
          Bot,       \* the events of the QA bot
          Internal,  \* the rows of internal accounts, and the demo share
          Replayers, \* strands of the cron that run replayAppEvents
          Feeders,   \* and userFeed
          Batch,     \* the 500 rows of a read
          Rounds,    \* the 5 reads of a run
          MaxTime,   \* bounds the clock
          MaxFaults, \* bounds the failures
          None

Rows == Events \cup Shares
Tasks == Replayers \cup Feeders

ASSUME CursorsAssumption ==
    /\ {Batch, Rounds} \subseteq Nat \ {0}
    /\ {MaxTime, MaxFaults} \subseteq Nat
    /\ IsFiniteSet(Events) /\ IsFiniteSet(Shares) /\ Events \cap Shares = {}
    /\ DOMAIN Owner = Shares
    /\ Replayers \cap Feeders = {}
    /\ Bot \subseteq Events /\ Internal \subseteq Rows
    /\ None \notin [state : {"open", "kept", "gone"}, id : Nat, at : Nat]

VARIABLES now, faults,
          row,       \* what has become of each row
          cursor,    \* analytics_replay_cursor.last_event_id
          feedFrom,  \* user_feed_cursor.last_run_at
          task,
          sent,      \* events PostHog has; it drops a second copy by its uuid
          tried,     \* rows Telegram was asked to announce
          \* Outside the program, for the properties only:
          overtaken, \* events whose commit a read of the replay came before
          late       \* rows whose commit a read of the feed came before

vars == <<now, faults, row, cursor, feedFrom, task, sent, tried, overtaken, late>>

Times == 0 .. MaxTime
Ids == 0 .. Cardinality(Events)
RowStates == {None} \cup [state : {"open", "kept", "gone"}, id : Ids, at : Times]
Idle == [kind |-> "none"]
Replays == [kind : {"replay"}, step : {"cursor", "read", "post", "write"}, round : 1 .. Rounds,
            from : Ids, rows : SUBSET Events]
Feeds == [kind : {"feed"}, step : {"cursor", "shares", "events", "news", "send", "write"}, at : Times,
          from : Times, rows : SUBSET Rows]

Init ==
    /\ now = 0 /\ faults = 0
    /\ row = [e \in Rows |-> None]
    /\ cursor = 0 /\ feedFrom = 0
    /\ task = [t \in Tasks |-> Idle]
    /\ sent = {} /\ tried = {}
    /\ overtaken = {} /\ late = {}

-----------------------------------------------------------------------------
(* The rows: an insert, its commit a while later, and for a share the      *)
(* deletion its owner may ask for.                                         *)

Begun(e) == row[e] # None
Kept(e) == Begun(e) /\ row[e].state = "kept"
Open(e) == Begun(e) /\ row[e].state = "open"
NextId(e) == IF e \in Events THEN Cardinality({f \in Events : Begun(f)}) + 1 ELSE 0

Insert(e) ==
    /\ ~Begun(e)
    /\ now < MaxTime
    /\ row' = [row EXCEPT ![e] = [state |-> "open", id |-> NextId(e), at |-> now]]
    /\ UNCHANGED <<now, faults, cursor, feedFrom, task, sent, tried, overtaken, late>>

Commit(e) ==
    /\ Open(e)
    /\ row' = [row EXCEPT ![e].state = "kept"]
    /\ UNCHANGED <<now, faults, cursor, feedFrom, task, sent, tried, overtaken, late>>

Remove(e) ==
    /\ e \in Shares /\ Kept(e)
    /\ row' = [row EXCEPT ![e].state = "gone"]
    /\ UNCHANGED <<now, faults, cursor, feedFrom, task, sent, tried, overtaken, late>>

\* "First" is first ever: against all the shares its owner has by then.
SharesOf(o) == {e \in Shares : Kept(e) /\ Owner[e] = o}
News(rows) == {e \in rows \ Internal : e \in Events \/ Cardinality(SharesOf(Owner[e])) = 1}

-----------------------------------------------------------------------------
(* A task.                                                                 *)

At(t, kind, step) == task[t].kind = kind /\ task[t].step = step
Done(t) == task' = [task EXCEPT ![t] = Idle]
Faulty == faults < MaxFaults /\ faults' = faults + 1

StartReplay(t) ==
    /\ task[t] = Idle
    /\ task' = [task EXCEPT ![t] = [kind |-> "replay", step |-> "cursor", round |-> 1, from |-> 0, rows |-> {}]]
    /\ UNCHANGED <<now, faults, row, cursor, feedFrom, sent, tried, overtaken, late>>

\* The window closes at the time the run was scheduled for.
StartFeed(t) ==
    /\ task[t] = Idle
    /\ task' = [task EXCEPT ![t] = [kind |-> "feed", step |-> "cursor", at |-> now, from |-> 0, rows |-> {}]]
    /\ UNCHANGED <<now, faults, row, cursor, feedFrom, sent, tried, overtaken, late>>

\* A read that fails, an answer that is not ok, or the death of the worker.
Fail(t) ==
    /\ task[t] # Idle
    /\ Faulty
    /\ Done(t)
    /\ UNCHANGED <<now, row, cursor, feedFrom, sent, tried, overtaken, late>>

-----------------------------------------------------------------------------
(* replayAppEvents.                                                        *)

ReplayCursor(t) ==
    /\ At(t, "replay", "cursor")
    /\ task' = [task EXCEPT ![t].step = "read", ![t].from = cursor]
    /\ UNCHANGED <<now, faults, row, cursor, feedFrom, sent, tried, overtaken, late>>

\* id > cursor, in the order of the ids, no more than Batch of them.
Beyond(from) == {e \in Events : Kept(e) /\ row[e].id > from}
MutFirstBeyond(from) == {e \in Beyond(from) : Cardinality({f \in Beyond(from) : row[f].id > row[e].id}) < Batch}
FirstBeyond(from) == {e \in Beyond(from) : Cardinality({f \in Beyond(from) : row[f].id < row[e].id}) < Batch}

\* Rows that are in flight below what a read has answered.
Overtaken(rows) == {e \in Events : Open(e) /\ \E f \in rows : row[e].id < row[f].id}

\* The bot's smoke tests would poison the funnels.
Outside(rows) == rows \ Bot

ReplayRead(t) ==
    /\ At(t, "replay", "read")
    /\ LET rows == FirstBeyond(task[t].from)
       IN  IF rows = {} THEN Done(t) /\ UNCHANGED overtaken
           ELSE /\ task' = [task EXCEPT ![t].rows = rows,
                                        ![t].step = IF Outside(rows) = {} THEN "write" ELSE "post"]
                /\ overtaken' = overtaken \cup Overtaken(rows)
    /\ UNCHANGED <<now, faults, row, cursor, feedFrom, sent, tried, late>>

ReplayPost(t) ==
    /\ At(t, "replay", "post")
    /\ sent' = sent \cup Outside(task[t].rows)
    /\ task' = [task EXCEPT ![t].step = "write"]
    /\ UNCHANGED <<now, faults, row, cursor, feedFrom, tried, overtaken, late>>

\* PostHog took the batch and its answer was lost.
ReplayPostLost(t) ==
    /\ At(t, "replay", "post")
    /\ Faulty
    /\ sent' = sent \cup Outside(task[t].rows)
    /\ Done(t)
    /\ UNCHANGED <<now, row, cursor, feedFrom, tried, overtaken, late>>

\* The cursor moves to the last id of what was read, whoever's rows they were.
MutIsLast(i, rows) == IF rows \subseteq Bot THEN i = cursor ELSE \E e \in rows : row[e].id = i
IsLast(i, rows) == \E e \in rows : row[e].id = i /\ \A f \in rows : row[f].id <= i

\* A full batch is followed by another, up to Rounds.
More(t) == Cardinality(task[t].rows) = Batch /\ task[t].round < Rounds

ReplayWrite(t) ==
    /\ At(t, "replay", "write")
    /\ \E i \in Ids :
          /\ IsLast(i, task[t].rows)
          /\ cursor' = i
          /\ IF More(t) THEN task' = [task EXCEPT ![t].step = "read", ![t].round = @ + 1,
                                                  ![t].rows = {}, ![t].from = i]
             ELSE Done(t)
    /\ UNCHANGED <<now, faults, row, feedFrom, sent, tried, overtaken, late>>

-----------------------------------------------------------------------------
(* userFeed.                                                               *)

FeedCursor(t) ==
    /\ At(t, "feed", "cursor")
    /\ task' = [task EXCEPT ![t].step = "shares", ![t].from = feedFrom]
    /\ UNCHANGED <<now, faults, row, cursor, feedFrom, sent, tried, overtaken, late>>

\* Both ends are given: the opening moment is in, the closing one is for the
\* next run.
MutInWindow(e, from, to) == from < row[e].at /\ row[e].at < to
InWindow(e, from, to) == from <= row[e].at /\ row[e].at < to
Window(t, table) == {e \in table : Begun(e) /\ InWindow(e, task[t].from, task[t].at)}

\* One table after another is read; the events stand for the sign-ups, the
\* reads and the intents, which pass no test of their own.
FeedShares(t) ==
    /\ At(t, "feed", "shares")
    /\ task' = [task EXCEPT ![t].step = "events", ![t].rows = {e \in Window(t, Shares) : Kept(e)}]
    /\ late' = late \cup {e \in Window(t, Shares) : Open(e)}
    /\ UNCHANGED <<now, faults, row, cursor, feedFrom, sent, tried, overtaken>>

FeedEvents(t) ==
    /\ At(t, "feed", "events")
    /\ task' = [task EXCEPT ![t].step = "news", ![t].rows = @ \cup {e \in Window(t, Events) : Kept(e)}]
    /\ late' = late \cup {e \in Window(t, Events) : Open(e)}
    /\ UNCHANGED <<now, faults, row, cursor, feedFrom, sent, tried, overtaken>>

\* The owners' totals are read last, and decide which shares were first.
FeedNews(t) ==
    /\ At(t, "feed", "news")
    /\ LET rows == News(task[t].rows)
       IN  task' = [task EXCEPT ![t].rows = rows, ![t].step = IF rows = {} THEN "write" ELSE "send"]
    /\ UNCHANGED <<now, faults, row, cursor, feedFrom, sent, tried, overtaken, late>>

\* One message for each.  sendTelegram answers whether Telegram took it, and
\* nobody looks at the answer: a moment is handed over, heard or not.
FeedSend(t, e) ==
    /\ At(t, "feed", "send") /\ e \in task[t].rows
    /\ tried' = tried \cup {e}
    /\ task' = [task EXCEPT ![t].rows = @ \ {e}, ![t].step = IF task[t].rows = {e} THEN "write" ELSE "send"]
    /\ UNCHANGED <<now, faults, row, cursor, feedFrom, sent, overtaken, late>>

\* The closing edge of the window is what is written back.
MutClosing(t) == now
Closing(t) == task[t].at

FeedWrite(t) ==
    /\ At(t, "feed", "write")
    /\ feedFrom' = Closing(t)
    /\ Done(t)
    /\ UNCHANGED <<now, faults, row, cursor, sent, tried, overtaken, late>>

-----------------------------------------------------------------------------
Tick ==
    /\ now < MaxTime
    /\ now' = now + 1
    /\ UNCHANGED <<faults, row, cursor, feedFrom, task, sent, tried, overtaken, late>>

Step(t) ==
    \/ ReplayCursor(t) \/ ReplayRead(t) \/ ReplayPost(t) \/ ReplayWrite(t)
    \/ FeedCursor(t) \/ FeedShares(t) \/ FeedEvents(t) \/ FeedNews(t) \/ FeedWrite(t)
    \/ \E e \in Rows : FeedSend(t, e)

Next ==
    \/ Tick
    \/ \E e \in Rows : Insert(e) \/ Commit(e) \/ Remove(e)
    \/ \E t \in Replayers : StartReplay(t) \/ ReplayPostLost(t)
    \/ \E t \in Feeders : StartFeed(t)
    \/ \E t \in Tasks : Fail(t) \/ Step(t)

Spec == Init /\ [][Next]_vars

\* The cron fires for both strands, time passes, transactions end, and a run
\* that is not failed goes on.
FairSpec ==
    /\ Spec
    /\ WF_vars(Tick)
    /\ WF_vars(\E e \in Rows : Commit(e))
    /\ \A t \in Tasks : WF_vars(Step(t))
    /\ SF_vars(\E t \in Replayers : StartReplay(t))
    /\ SF_vars(\E t \in Feeders : StartFeed(t))

-----------------------------------------------------------------------------
(* Properties.                                                             *)

\* Beside the types: an event has an id of its own.
TypeOK ==
    /\ now \in Times /\ faults \in 0 .. MaxFaults
    /\ row \in [Rows -> RowStates]
    /\ \A e, f \in Events : Begun(e) /\ Begun(f) /\ row[e].id = row[f].id => e = f
    /\ cursor \in Ids /\ feedFrom \in Times
    /\ \A t \in Tasks : task[t] = Idle \/ task[t] \in Replays \cup Feeds
    /\ sent \subseteq Events \ Bot
    /\ tried \subseteq Rows \ Internal
    /\ overtaken \subseteq Events /\ late \subseteq Rows

\* Whatever the order in which overlapping replays write the cursor and wherever
\* they fail, an event behind the cursor is at PostHog.  An event that committed
\* after a run had read past its id is not: its insert and its commit lay on two
\* sides of that read.
SentBehindCursor ==
    \A e \in Events \ (Bot \cup overtaken) : Kept(e) /\ row[e].id <= cursor => e \in sent

\* The only share its owner ever made.
Lone(e) == \A f \in Shares \ {e} : Begun(f) => Owner[f] # Owner[e]
Due(e) == e \in Rows \ Internal /\ Kept(e) /\ (e \in Shares => Lone(e))

\* No moment behind the feed's cursor was left out by a run that failed, was
\* overtaken by another, or took longer than the cron's period: Telegram was
\* asked to carry it, and whether it did nobody looks.  Left out are rows whose
\* commit came after the read of their window, and a share whose owner has made
\* another, which the feed may by then have found not to be the first.
TriedBehindCursor ==
    \A e \in Rows \ late : Due(e) /\ row[e].at < feedFrom => e \in tried

\* Past failed runs, batches that hold nothing but the bot's own events, and
\* backlogs longer than one run, every event that no read overtook reaches PostHog
\* in the end; and every moment that no read overtook is put to Telegram, unless
\* it is deleted or, a share, joined by another before it is told.
EverythingHandedOver ==
    /\ \A e \in Events \ Bot : Kept(e) ~> e \in sent \cup overtaken
    /\ \A e \in Rows : Due(e) ~> e \in tried \cup late \/ ~Due(e)

=============================================================================
