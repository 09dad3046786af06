------------------------------- MODULE Reading -------------------------------
(***************************************************************************)
(* The tracker in a recipient's page (packages/tracker/src): boot and its  *)
(* e-mail gate, session.ts, sections-v2.ts, and update_session of          *)
(* schema/002, which the page writes through.                              *)
(*                                                                         *)
(* The page is one thread: each event handler is one action.  What         *)
(* interleaves is the reader, the timers, the animation frames and the     *)
(* answers of the server, and what must come out is the time somebody      *)
(* really spent reading.  Time is in units of SAMPLE_INTERVAL_MS; a frame   *)
(* may come late or not at all, as browsers throttle them.                 *)
(***************************************************************************)
EXTENDS Integers, Sequences, FiniteSets

CONSTANTS Sections,    \* sections of the document; may be empty
          Idle,        \* IDLE_THRESHOLD_MS and ACTIVITY_IDLE_MS
          Warmup,      \* SESSION_DELAY_MS
          Beat,        \* session.heartbeatMs
          Longest,     \* session.maxSessionMinutes
          Qualified,   \* QUALIFIED_DWELL_MS
          Views,       \* sets of sections that can fill the window together
          MaxScroll,   \* positions a page can be scrolled to
          MaxSessions, \* bounds the session rows one page makes
          MaxTime,     \* bounds the clock
          Null

ASSUME ReadingAssumption ==
    /\ {Idle, Warmup, Beat, Longest, Qualified, MaxScroll, MaxSessions, MaxTime} \subseteq Nat
    /\ Beat > 0
    /\ Qualified > 2 \* one second against a sample of two intervals at most
    /\ Views \subseteq SUBSET Sections
    /\ Null \notin Int \cup [id : Nat, active : Nat, scroll : Nat, dwell : [Sections -> Nat]]

VARIABLES now,       \* performance.now()
          page,      \* the browser's side of the page: see Pages
          session,   \* the fields of the Session object
          tracker,   \* the fields of the SectionTracker object
          wire,      \* update_session requests that have not arrived yet
          rows,      \* the table sessions, with the section_events of each
          watch      \* history: what the reader really did

readingVars == <<now, page, session, tracker, wire, rows, watch>>

\* `step`: "gate" waits for an address, "warmup" for the five seconds,
\* "calling" for start_session; "left" and "off" load nothing more.
PageSteps == {"gate", "warmup", "calling", "running", "off", "left"}
Times == 0 .. MaxTime
Pages == [step : PageSteps, visible : BOOLEAN, view : Views, scroll : 0 .. MaxScroll]
Dwell == [Sections -> Nat]
Payloads == [id : 1 .. MaxSessions, active : Nat, scroll : 0 .. MaxScroll, dwell : Dwell]
\* `id` is info and token, `since` activeRunningSince, `timers` whether the
\* heartbeat and the longest session are running, `sent` the flush in flight.
SessionFields == [id : 0 .. MaxSessions, bound : BOOLEAN, active : Nat, since : Times \cup {Null},
                  acted : Times, scroll : 0 .. MaxScroll, dirty : BOOLEAN,
                  sent : Payloads \cup {Null}, timers : BOOLEAN, beat : Nat, end : Nat]
\* `frames` is whether a frame is scheduled.
TrackerFields == [on : BOOLEAN, frames : BOOLEAN, sampled : Times, acted : Times,
                  streak : Dwell, qualified : Dwell, entered : SUBSET Sections]
\* `last` is the reader's last sign of attention, the mouse included; `shown`
\* and `engaged` count the units of time with the tab shown, and of attention in
\* it; `idle` is what went by without any since, as far as Clamp looks back.
Clamp == 2
Watches == [shown : Nat, engaged : Nat, last : Times, idle : 0 .. Clamp]

Nothing == [s \in Sections |-> 0]
NoSession == [id |-> 0, bound |-> FALSE, active |-> 0, since |-> Null, acted |-> 0, scroll |-> 0,
              dirty |-> FALSE, sent |-> Null, timers |-> FALSE, beat |-> 0, end |-> 0]
NoTracker == [on |-> FALSE, frames |-> FALSE, sampled |-> 0, acted |-> 0,
              streak |-> Nothing, qualified |-> Nothing, entered |-> {}]
Open == page.step \notin {"left", "off"}

ReadingInit ==
    /\ now = 0
    /\ \E step \in {"gate", "warmup", "off"}, visible \in BOOLEAN, view \in Views :
          \* Opted out or misconfigured (boot), or hidden when the wait begins.
          /\ step = "warmup" => visible
          /\ page = [step |-> step, visible |-> visible, view |-> view, scroll |-> 0]
    /\ session = NoSession
    /\ tracker = NoTracker
    /\ wire = {}
    /\ rows = << >>
    /\ watch = [shown |-> 0, engaged |-> 0, last |-> 0, idle |-> 0]

-----------------------------------------------------------------------------
(* The two counters.                                                       *)

Smaller(a, b) == IF a < b THEN a ELSE b
Larger(a, b) == IF a < b THEN b ELSE a

\* tickActive: credit the time since the last tick, up to where the reader
\* went idle; go on from here, or pause.
MutTickActive(s) ==
    IF s.since = Null THEN s
    ELSE LET idleAt == s.acted + Idle
             elapsed == Smaller(now, idleAt) - s.since
         IN  [s EXCEPT !.active = @ + elapsed,
                       !.dirty = @ \/ elapsed > 0,
                       !.since = IF now <= idleAt THEN now ELSE Null]
TickActive(s) ==
    IF s.since = Null THEN s
    ELSE LET idleAt == s.acted + Idle
             elapsed == Larger(0, Smaller(now, idleAt) - s.since)
         IN  [s EXCEPT !.active = @ + elapsed,
                       !.dirty = @ \/ elapsed > 0,
                       !.since = IF now <= idleAt THEN now ELSE Null]

UpdateMaxScroll(s) ==
    IF page.scroll > s.scroll THEN [s EXCEPT !.scroll = page.scroll, !.dirty = TRUE] ELSE s

\* onActivity of the session, and of the section tracker.
Active(s) == [s EXCEPT !.acted = now, !.since = IF @ = Null /\ page.visible THEN now ELSE @]
Attend(t) == IF t.on THEN [t EXCEPT !.acted = now] ELSE t

\* sample: one section is credited, of those that fill half the view and hold
\* no other such section; the others only keep or lose their streak.
Sample(t, winner, dt) ==
    [t EXCEPT !.streak = [s \in Sections |-> IF s \in page.view THEN @[s] + dt ELSE 0],
              !.entered = @ \cup page.view,
              !.qualified = [s \in Sections |->
                  IF s = winner /\ t.streak[s] + dt >= Qualified THEN @[s] + dt ELSE @[s]]]

\* tick of the section tracker: an idle frame moves the sample clock on without
\* crediting anything, and a late one is credited no more than two intervals.
MutElapsed(t) == now - t.sampled
Elapsed(t) == Smaller(now - t.sampled, Clamp)

Sampled(t, winner) ==
    IF ~page.visible \/ now - t.acted >= Idle THEN [t EXCEPT !.sampled = now]
    ELSE IF now = t.sampled THEN t
    ELSE Sample([t EXCEPT !.sampled = now], winner, Elapsed(t))

Pause(t) == [t EXCEPT !.frames = FALSE]
Resume(t) ==
    IF ~t.on \/ t.frames THEN t
    ELSE [t EXCEPT !.sampled = now, !.acted = now, !.streak = Nothing, !.frames = TRUE]

\* snapshot
Snapshot(t) == [s \in Sections |-> IF s \in t.entered THEN t.qualified[s] ELSE 0]

-----------------------------------------------------------------------------
(* flush: one at a time, and nothing is sent when nothing has changed and  *)
(* no section has been entered.                                            *)

Flushed(s, t) ==
    LET u == UpdateMaxScroll(TickActive(s))
    IN  IF s.sent # Null \/ s.id = 0 \/ (t.entered = {} /\ ~u.dirty) THEN {}
        ELSE {[id |-> u.id, active |-> u.active, scroll |-> u.scroll, dwell |-> Snapshot(t)]}

Flush(s, t) ==
    /\ wire' = wire \cup Flushed(s, t)
    /\ session' = IF s.sent # Null \/ s.id = 0 THEN s
                  ELSE [UpdateMaxScroll(TickActive(s)) EXCEPT
                           !.sent = IF Flushed(s, t) = {} THEN Null ELSE (CHOOSE p \in Flushed(s, t) : TRUE)]

Stopped(s) == [s EXCEPT !.bound = FALSE, !.timers = FALSE]

\* HTMLRadar.flush(), for the page's own scripts: it works on a stopped session.
HostFlush ==
    /\ Open
    /\ Flush(session, tracker)
    /\ UNCHANGED <<now, page, tracker, rows, watch>>

\* The interval and the timeout; both go on while the tab is hidden.
Heartbeat ==
    /\ Open /\ session.timers /\ now >= session.beat
    /\ Flush([session EXCEPT !.beat = Smaller(now + Beat, MaxTime)], tracker)
    /\ UNCHANGED <<now, page, tracker, rows, watch>>

LongestReached ==
    /\ Open /\ session.timers /\ now >= session.end
    /\ session' = Stopped(session)
    /\ tracker' = [Pause(tracker) EXCEPT !.on = FALSE]
    /\ UNCHANGED <<now, page, wire, rows, watch>>

-----------------------------------------------------------------------------
(* Boot and start.                                                         *)

\* start after the wait, or at once behind the gate: listen, find the
\* sections, look at the scroll position.
Started(s) == UpdateMaxScroll([s EXCEPT !.bound = TRUE, !.since = IF page.visible THEN now ELSE Null])
Discovered(t) == [t EXCEPT !.on = TRUE, !.frames = TRUE, !.sampled = now, !.acted = now]

Installed(s, id) == [s EXCEPT !.id = id, !.timers = TRUE, !.beat = Smaller(now + Beat, MaxTime),
                              !.end = now + Longest]

Met == [watch EXCEPT !.last = now, !.idle = 0]

NewRow == [active |-> 0, scroll |-> 0, dwell |-> Nothing, gone |-> FALSE]

\* The wait is over: a reader who has gone makes no session.
WarmedUp ==
    /\ page.step = "warmup" /\ now >= Warmup
    /\ IF page.visible
       THEN /\ page' = [page EXCEPT !.step = "calling"]
            /\ session' = Started(session)
            /\ tracker' = Discovered(tracker)
            /\ watch' = Met
       ELSE /\ page' = [page EXCEPT !.step = "off"]
            /\ UNCHANGED <<session, tracker, watch>>
    /\ UNCHANGED <<now, wire, rows>>

\* start_session on that path: answered, refused, or carried out unheard. A
\* failure leaves the listeners bound and a session that never flushes.
StartSession ==
    /\ page.step = "calling"
    /\ \/ /\ Len(rows) < MaxSessions
          /\ rows' = Append(rows, NewRow)
          /\ session' = Installed(session, Len(rows) + 1)
       \/ /\ Len(rows) < MaxSessions
          /\ rows' = Append(rows, NewRow)
          /\ UNCHANGED session
       \/ UNCHANGED <<rows, session>>
    /\ page' = [page EXCEPT !.step = "running"]
    /\ UNCHANGED <<now, tracker, wire, watch>>

\* The gate: each submitted address is an attempt of its own, and the gate
\* stays until one is answered.  Behind it nothing is waited for.
SubmitEmail ==
    /\ page.step = "gate"
    /\ \/ /\ Len(rows) < MaxSessions
          /\ rows' = Append(rows, NewRow)
          /\ page' = [page EXCEPT !.step = "running"]
          /\ session' = Installed(Started([session EXCEPT !.acted = now]), Len(rows) + 1)
          /\ tracker' = Discovered(tracker)
       \/ /\ Len(rows) < MaxSessions
          /\ rows' = Append(rows, NewRow)
          /\ UNCHANGED <<page, session, tracker>>
    /\ watch' = Met
    /\ UNCHANGED <<now, wire>>

-----------------------------------------------------------------------------
(* The reader.                                                             *)

Tick ==
    /\ Open /\ now < MaxTime
    /\ now' = now + 1
    /\ watch' = IF ~page.visible THEN watch
                ELSE IF now - watch.last < Idle
                     THEN [watch EXCEPT !.shown = @ + 1, !.engaged = @ + 1]
                     ELSE [watch EXCEPT !.shown = @ + 1, !.idle = Smaller(@ + 1, Clamp)]
    /\ UNCHANGED <<page, session, tracker, wire, rows>>

Frame ==
    /\ Open /\ tracker.on /\ tracker.frames
    /\ \E winner \in (IF page.view = {} THEN {Null} ELSE page.view) :
          tracker' = Sampled(tracker, winner)
    /\ UNCHANGED <<now, page, session, wire, rows, watch>>

\* onVisibility.  The section tracker's frame is cancelled by the session.
MutHide ==
    /\ Open /\ page.visible
    /\ page' = [page EXCEPT !.visible = FALSE]
    /\ IF session.bound
       THEN /\ tracker' = Pause(tracker)
            /\ Flush(TickActive(session), tracker)
       ELSE UNCHANGED <<session, tracker, wire>>
    /\ UNCHANGED <<now, rows, watch>>
Hide ==
    /\ Open /\ page.visible
    /\ page' = [page EXCEPT !.visible = FALSE]
    /\ IF session.bound
       THEN /\ tracker' = Pause(tracker)
            /\ Flush([TickActive(session) EXCEPT !.since = Null], tracker)
       ELSE UNCHANGED <<session, tracker, wire>>
    /\ UNCHANGED <<now, rows, watch>>

Show ==
    /\ Open /\ ~page.visible
    /\ page' = [page EXCEPT !.visible = TRUE]
    /\ IF session.bound
       THEN /\ session' = [session EXCEPT !.since = now, !.acted = now]
            /\ tracker' = Resume(tracker)
       ELSE UNCHANGED <<session, tracker>>
    /\ watch' = Met
    /\ UNCHANGED <<now, wire, rows>>

\* A sign of attention: what went by just before it was attention too.
Noticed == [watch EXCEPT !.engaged = @ + watch.idle, !.last = now, !.idle = 0]

\* A key or a touch; a scroll also moves the page.
Press ==
    /\ Open /\ page.visible
    /\ session' = IF session.bound THEN Active(session) ELSE session
    /\ tracker' = Attend(tracker)
    /\ watch' = Noticed
    /\ UNCHANGED <<now, page, wire, rows>>

Scroll ==
    /\ Open /\ page.visible
    /\ \E view \in Views, to \in 0 .. MaxScroll :
          page' = [page EXCEPT !.view = view, !.scroll = to]
    /\ session' = IF session.bound
                  THEN LET s == Active(session)
                       IN  IF page'.scroll > s.scroll
                           THEN [s EXCEPT !.scroll = page'.scroll, !.dirty = TRUE] ELSE s
                  ELSE session
    /\ tracker' = Attend(tracker)
    /\ watch' = Noticed
    /\ UNCHANGED <<now, wire, rows>>

\* The mouse counts for the sections only.
Click ==
    /\ Open /\ page.visible
    /\ tracker' = Attend(tracker)
    /\ watch' = Noticed
    /\ UNCHANGED <<now, page, session, wire, rows>>

\* onPageHide, and the page is gone with all it held: only what was sent goes on.
PageHide ==
    /\ Open
    /\ page' = [page EXCEPT !.step = "left"]
    /\ session' = NoSession
    /\ tracker' = NoTracker
    /\ wire' = IF session.bound THEN wire \cup Flushed(TickActive(session), tracker) ELSE wire
    /\ UNCHANGED <<now, rows, watch>>

\* optOut: stop, and go to the page that asks.
OptOut ==
    /\ Open
    /\ page' = [page EXCEPT !.step = "left"]
    /\ session' = NoSession
    /\ tracker' = NoTracker
    /\ UNCHANGED <<now, wire, rows, watch>>

-----------------------------------------------------------------------------
(* The requests on their way, and update_session.                          *)

UpdateSession(row, p) ==
    [row EXCEPT !.active = Larger(@, p.active),
                !.scroll = Larger(@, p.scroll),
                !.dwell = [s \in Sections |-> Larger(@[s], p.dwell[s])]]

Awaited(p) == session.sent = p /\ Open
MutHeard(ok) == session' = [session EXCEPT !.dirty = IF ok THEN FALSE ELSE @]
Heard(ok) == session' = [session EXCEPT !.sent = Null, !.dirty = IF ok THEN FALSE ELSE @]

\* It arrives and is carried out; the page hears of it if it still waits and
\* the answer comes through.
Carried(p, heard) ==
    /\ ~rows[p.id].gone
    /\ wire' = wire \ {p}
    /\ rows' = [rows EXCEPT ![p.id] = UpdateSession(@, p)]
    /\ IF Awaited(p) THEN Heard(heard) ELSE UNCHANGED session
    /\ UNCHANGED <<now, page, tracker, watch>>

\* Turned away for too many updates, or lost; a page that is gone may take its
\* requests with it.
Dropped(p) ==
    /\ wire' = wire \ {p}
    /\ IF Awaited(p) THEN Heard(FALSE) ELSE UNCHANGED session
    /\ UNCHANGED <<now, page, tracker, rows, watch>>

\* P0010: there is no such session any more, and the page stops trying.
Refused(p) ==
    /\ rows[p.id].gone
    /\ wire' = wire \ {p}
    /\ IF Awaited(p)
       THEN /\ session' = Stopped([session EXCEPT !.sent = Null])
            /\ tracker' = [Pause(tracker) EXCEPT !.on = FALSE]
       ELSE UNCHANGED <<session, tracker>>
    /\ UNCHANGED <<now, page, rows, watch>>

\* The connection breaks: the page gives up on a request that still arrives.
GivenUp(p) ==
    /\ Awaited(p)
    /\ Heard(FALSE)
    /\ UNCHANGED <<now, page, tracker, wire, rows, watch>>

Answered == \E p \in wire : Carried(p, TRUE) \/ Refused(p)
Unheard == \E p \in wire : Carried(p, FALSE) \/ Dropped(p) \/ GivenUp(p)

\* The owner's account and everything under it is deleted (cascade).
RowGone ==
    /\ \E i \in DOMAIN rows : ~rows[i].gone /\ rows' = [rows EXCEPT ![i].gone = TRUE]
    /\ UNCHANGED <<now, page, session, tracker, wire, watch>>

ReadingNext ==
    \/ Tick \/ Frame \/ Heartbeat \/ HostFlush \/ LongestReached
    \/ WarmedUp \/ StartSession \/ SubmitEmail
    \/ Hide \/ Show \/ Press \/ Scroll \/ Click \/ PageHide \/ OptOut
    \/ Answered \/ Unheard \/ RowGone

ReadingSpec == ReadingInit /\ [][ReadingNext]_readingVars

\* Time passes, the interval fires while the page is open, and the network does
\* not fail every time it could work.
FairReading == ReadingSpec /\ WF_readingVars(Tick) /\ WF_readingVars(Heartbeat) /\ SF_readingVars(Answered)

-----------------------------------------------------------------------------
(* Properties.                                                             *)

\* Page, session, tracker, requests and rows keep to their shapes.
ReadingTypes ==
    /\ now \in Times
    /\ page \in Pages
    /\ session \in SessionFields
    /\ tracker \in TrackerFields
    /\ wire \subseteq Payloads
    /\ Len(rows) <= MaxSessions
    /\ \A i \in DOMAIN rows : rows[i] \in [active : Nat, scroll : 0 .. MaxScroll, dwell : Dwell, gone : BOOLEAN]
    /\ watch \in Watches

\* Time in which the tab was hidden is never counted as active, whatever the
\* order of hiding, showing, heartbeats, the host's flushes and idle pauses: at
\* most the last Idle of a session that was stopped, which no longer hears the
\* tab hide (onVisibility, onPageHide, tickActive, stop).
HiddenNeverCounted ==
    session.active <= watch.shown + (IF session.bound THEN 0 ELSE Idle)

\* A pair for each unit of time a section is credited with.
Credited == UNION {{s} \X (1 .. tracker.qualified[s]) : s \in Sections}

\* The sections together are credited no more than the time in which the tab
\* was visible and its reader had done something, the mouse included, in the
\* last Idle units or did in the next two: idle frames move the sample clock, a
\* late one is clamped, only one section is credited at a time, and a return
\* starts afresh (tick, sample, resume).
DwellIsAttention == Cardinality(Credited) <= watch.engaged

\* Once a section has been on screen, what the session counted reaches its row
\* in the end, unless the page is left, the session ends or the row goes first:
\* a flush that was lost, or swallowed by the one in flight, is made up for by
\* a later heartbeat, so that the row catches up again and again (flush,
\* startTimers).
UpToDate ==
    \/ ~Open \/ ~session.timers \/ tracker.entered = {}
    \/ rows[session.id].gone
    \/ rows[session.id].active >= session.active
ReadingArrives == []<>UpToDate

=============================================================================
