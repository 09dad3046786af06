-------------------------------- MODULE OneTap --------------------------------
(***************************************************************************)
(* Posting a drafted Reddit reply from a button in Telegram                *)
(* (packages/monitor/src/index.ts, "One-tap posting", and schema/047).     *)
(*                                                                         *)
(* A draft is a row of radar_drafts; its buttons are in a Telegram message *)
(* and carry a nonce and a version.  Each delivery of a tap or of a reply  *)
(* to a message runs a handler of its own, a sequence of awaited calls to  *)
(* the database, to Reddit and to Telegram; deliveries overlap, repeat and *)
(* die.  What the handlers have to agree on is which text is approved and  *)
(* whether a comment may already have been sent.                           *)
(***************************************************************************)
EXTENDS Integers, FiniteSets

CONSTANTS Drafts,    \* ids of radar_drafts rows: bounds the drafts offered
          Threads,   \* Reddit threads (thing_id)
          Texts,     \* wordings of a reply
          Slot,      \* wordings that still carry DRAFT_ANSWER_SLOT
          Nonces,    \* single-use tokens: bounds the offers and re-offers
          Messages,  \* Telegram messages: bounds the offers sent
          Handlers,  \* deliveries being handled at once
          Cap,       \* REDDIT_DAILY_CAP
          None

ASSUME OneTapAssumption == /\ Slot \subseteq Texts
                           /\ Cap \in Nat
                           /\ None \notin Drafts \cup Threads \cup Texts \cup Nonces \cup Messages

VARIABLES draft,     \* the table radar_drafts
          reserved,  \* the table radar_post_reservations: the draft that holds a thread
          message,   \* what each Telegram message shows and what its buttons carry
          task,      \* deliveries being handled
          comments,  \* Reddit: the comments on each thread, with the message whose tap sent them
          given,     \* the tokens that exist
          asked,     \* history: comment requests sent for a tap on each message
          window     \* the threads whose reservation is less than 24 hours old

vars == <<draft, reserved, message, task, comments, given, asked, window>>

Terminal == {"posted", "skipped"}
Tappable == {"pending", "edited", "reconcile"}
Statuses == Terminal \cup Tappable \cup {"none", "posting", "failed"}

\* `used` is nonce_used_at, `expired` that expires_at has passed, `message`
\* telegram_message_id.  A version is never higher than the nonces given out.
NoDraft == [thread |-> None, text |-> None, version |-> 0, status |-> "none",
            nonce |-> None, used |-> FALSE, expired |-> FALSE, message |-> None]
NoMessage == [nonce |-> None, version |-> 0, text |-> None]
Idle == [step |-> "idle", id |-> None, tap |-> None, prior |-> "none",
         text |-> None, version |-> 0, nonce |-> None]

DraftRows == [thread : Threads \cup {None}, text : Texts \cup {None}, version : Nat,
              status : Statuses, nonce : Nonces \cup {None}, used : BOOLEAN,
              expired : BOOLEAN, message : Messages \cup {None}]
Shown == [nonce : Nonces \cup {None}, version : Nat, text : Texts \cup {None}]
CommentRecords == [text : Texts, tap : Messages]
TaskRecords == [step : {"idle", "offer", "bind", "edit", "requeue", "preflight", "consume", "signin",
                        "check", "reserve", "send", "recheck", "found", "mark", "fail", "block"},
                id : Drafts \cup {None}, tap : Messages \cup {None}, prior : Statuses,
                text : Texts \cup {None}, version : Nat, nonce : Nonces \cup {None}]

\* newNonce: 128 random bits, never drawn twice.
FreshNonce(n) == n \notin given /\ given' = given \cup {n}

Begin(h, t) == task[h] = Idle /\ task' = [task EXCEPT ![h] = t]
Goto(h, step) == task' = [task EXCEPT ![h].step = step]
Done(h) == task' = [task EXCEPT ![h] = Idle]

\* radar_drafts_no_reopen: posted and skipped are left by no update.
WithStatus(d, status) ==
    IF draft[d].status \in Terminal THEN draft ELSE [draft EXCEPT ![d].status = status]

-----------------------------------------------------------------------------
(***************************************************************************)
(* Offering                                                                *)
(***************************************************************************)

\* offerDraft, the insert
OfferDraft(h, d, th, text, n) ==
    /\ draft[d] = NoDraft
    /\ FreshNonce(n)
    /\ draft' = [draft EXCEPT ![d] = [NoDraft EXCEPT !.thread = th, !.text = text, !.version = 1,
                                                     !.status = "pending", !.nonce = n]]
    /\ Begin(h, [Idle EXCEPT !.step = "offer", !.id = d, !.text = text, !.version = 1, !.nonce = n])
    /\ UNCHANGED <<reserved, message, comments, asked, window>>

\* sendOffer, the message.  Telegram may fail, or send it and not say so.
SendOffer(h) ==
    /\ task[h].step = "offer"
    /\ \/ \E m \in Messages :
            /\ message[m] = NoMessage
            /\ message' = [message EXCEPT ![m] = [nonce |-> task[h].nonce, version |-> task[h].version,
                                                  text |-> task[h].text]]
            /\ task' = [task EXCEPT ![h] = [Idle EXCEPT !.step = "bind", !.id = task[h].id, !.tap = m]]
       \/ Done(h) /\ UNCHANGED message
    /\ UNCHANGED <<draft, reserved, comments, given, asked, window>>

\* sendOffer, recording the message: by id, whatever has happened to the row.
BindMessage(h) ==
    /\ task[h].step = "bind"
    /\ draft' = [draft EXCEPT ![task[h].id].message = task[h].tap]
    /\ Done(h)
    /\ UNCHANGED <<reserved, message, comments, given, asked, window>>

\* reoffer, the update: the version follows the one that was READ; the text is
\* the row's unless an edit brings one.  A settled row is not offered again.
Rotated(old, n) == n

Reoffer(h, n) ==
    LET t == task[h]
        edit == t.step = "edit"
        row == draft[t.id]
        new == [row EXCEPT !.text = IF edit THEN t.text ELSE @,
                           !.status = IF edit THEN "edited" ELSE "reconcile",
                           !.version = t.version + 1, !.nonce = Rotated(@, n),
                           !.used = FALSE, !.expired = FALSE]
    IN
    /\ t.step \in {"edit", "requeue"}
    /\ FreshNonce(n)
    /\ IF row.status \in Terminal
         THEN Done(h) /\ UNCHANGED draft
         ELSE /\ draft' = [draft EXCEPT ![t.id] = new]
              /\ task' = [task EXCEPT ![h] = [Idle EXCEPT !.step = "offer", !.id = t.id, !.text = new.text,
                                                          !.version = new.version, !.nonce = new.nonce]]
    /\ UNCHANGED <<reserved, message, comments, asked, window>>

-----------------------------------------------------------------------------
(***************************************************************************)
(* The founder taps or answers                                             *)
(***************************************************************************)

Offered(m) == message[m].nonce # None   \* m is a draft's message

\* consumeNonce: the row a button still speaks for.
MutLive(d, m) == /\ draft[d].nonce = message[m].nonce
                 /\ draft[d].version = message[m].version
                 /\ draft[d].message = m
                 /\ draft[d].status \in Tappable
Live(d, m) == /\ draft[d].nonce = message[m].nonce
              /\ ~draft[d].used
              /\ draft[d].version = message[m].version
              /\ draft[d].message = m
              /\ draft[d].status \in Tappable

\* handleSkip
TapSkip(d, m) ==
    /\ Offered(m)
    /\ Live(d, m) /\ ~draft[d].expired
    /\ draft' = [draft EXCEPT ![d].used = TRUE, ![d].status = "skipped"]
    /\ UNCHANGED <<reserved, message, task, comments, given, asked, window>>

\* handlePost up to its own explanation of a refusal.  The status it reads here
\* is the one it goes by later; a "failed" row passes and is refused by the gate.
NotStale(d, m) == /\ draft[d].nonce = message[m].nonce
                  /\ draft[d].status \notin Terminal \cup {"posting", "none"}
                  /\ ~draft[d].used
                  /\ draft[d].version = message[m].version
                  /\ draft[d].message = m
                  /\ ~draft[d].expired

TapPost(h, d, m) ==
    /\ Offered(m)
    /\ NotStale(d, m)
    /\ Begin(h, [Idle EXCEPT !.step = "preflight", !.id = d, !.tap = m, !.prior = draft[d].status])
    /\ UNCHANGED <<draft, reserved, message, comments, given, asked, window>>

\* reservedInWindow: a friendlier refusal, before the tap is spent.
Preflight(h) ==
    /\ task[h].step = "preflight"
    /\ IF Cardinality(window) >= Cap THEN Done(h) ELSE Goto(h, "consume")
    /\ UNCHANGED <<draft, reserved, message, comments, given, asked, window>>

\* The gate.  The delivery's own clock decides the expiry, and has already; an
\* expiry is only ever moved forward.
Consume(h) ==
    LET t == task[h]
        d == t.id
    IN
    /\ t.step = "consume"
    /\ IF Live(d, t.tap)
         THEN /\ draft' = [draft EXCEPT ![d].used = TRUE, ![d].status = "posting"]
              /\ task' = [task EXCEPT ![h] = [t EXCEPT !.step = "signin", !.text = draft[d].text,
                                                       !.version = draft[d].version]]
         ELSE Done(h) /\ UNCHANGED draft
    /\ UNCHANGED <<reserved, message, comments, given, asked, window>>

\* handleEdit: the reply names a message, the message the draft.
ReplyEdit(h, d, m, text) ==
    /\ Offered(m)
    /\ draft[d].message = m
    /\ draft[d].status \notin {"posted", "none"}
    /\ Begin(h, [Idle EXCEPT !.step = "edit", !.id = d, !.text = text, !.version = draft[d].version])
    /\ UNCHANGED <<draft, reserved, message, comments, given, asked, window>>

-----------------------------------------------------------------------------
(***************************************************************************)
(* handlePost after the gate                                               *)
(***************************************************************************)

\* The placeholder, the token, the identity and the quota each end the tap;
\* only a row that was in reconcile is looked up at Reddit first.
MutSendable(text) == TRUE
Sendable(text) == text \notin Slot

SignIn(h) ==
    /\ task[h].step = "signin"
    /\ \/ Goto(h, "fail")
       \/ /\ Sendable(task[h].text)
          /\ Goto(h, IF task[h].prior = "reconcile" THEN "check" ELSE "reserve")
    /\ UNCHANGED <<draft, reserved, message, comments, given, asked, window>>

\* reconcileRedditComment: any comment of the account on the thread.
Found(h) == comments[draft[task[h].id].thread] # {}

CheckBefore(h) ==
    /\ task[h].step = "check"
    /\ \/ Goto(h, "found") /\ Found(h)
       \/ Goto(h, "reserve") /\ ~Found(h)
       \/ Goto(h, "block")
    /\ UNCHANGED <<draft, reserved, message, comments, given, asked, window>>

\* reserve_radar_post: the thread and the cap under one lock.  An answer that
\* is lost ends the tap, with the reservation made or not.
MutWithinCap(w) == Cardinality(w) =< Cap
WithinCap(w) == Cardinality(w) < Cap
ThreadFree(th, d) == reserved[th] \in {None, d}

Reserve(h) ==
    LET d == task[h].id
        th == draft[d].thread
        ok == ThreadFree(th, d) /\ (reserved[th] # None \/ WithinCap(window))
    IN
    /\ task[h].step = "reserve"
    /\ \/ /\ ok
          /\ IF reserved[th] = None
               THEN /\ reserved' = [reserved EXCEPT ![th] = d]
                    /\ window' = window \cup {th}
               ELSE UNCHANGED <<reserved, window>>
          /\ Goto(h, "send") \/ Goto(h, "fail")
       \/ Goto(h, "fail") /\ UNCHANGED <<reserved, window>>
    /\ UNCHANGED <<draft, message, comments, given, asked>>

\* postRedditComment: up, refused, or sent with no answer to go by.
Land(h) ==
    comments' = [comments EXCEPT ![draft[task[h].id].thread] =
                    @ \cup {[text |-> task[h].text, tap |-> task[h].tap]}]

MutAmbiguous(h) == Goto(h, "mark")
Ambiguous(h) == Goto(h, "recheck")

PostComment(h) ==
    /\ task[h].step = "send"
    /\ asked' = [asked EXCEPT ![task[h].tap] = IF @ < 2 THEN @ + 1 ELSE @]
    /\ \/ Land(h) /\ Goto(h, "mark")
       \/ Goto(h, "fail") /\ UNCHANGED comments
       \/ (Land(h) \/ UNCHANGED comments) /\ Ambiguous(h)
    /\ UNCHANGED <<draft, reserved, message, given, window>>

CheckAfter(h) ==
    /\ task[h].step = "recheck"
    /\ \/ Goto(h, "found") /\ Found(h)
       \/ Goto(h, "block")
    /\ UNCHANGED <<draft, reserved, message, comments, given, asked, window>>

\* Right after the request, a write that throws is caught with the request's own
\* errors, and settled as a refusal of Reddit's.
MarkPosted(h) ==
    /\ task[h].step \in {"found", "mark"}
    /\ \/ draft' = WithStatus(task[h].id, "posted") /\ Done(h)
       \/ /\ task[h].step = "mark"
          /\ draft' = WithStatus(task[h].id, "posted") \/ UNCHANGED draft
          /\ Goto(h, "fail")
    /\ UNCHANGED <<reserved, message, comments, given, asked, window>>

MarkFailed(h) ==
    /\ task[h].step = "fail"
    /\ draft' = WithStatus(task[h].id, "failed")
    /\ Done(h)
    /\ UNCHANGED <<reserved, message, comments, given, asked, window>>

\* The outcome is unknown: reconcile, perhaps unwritten, and then an offer of
\* its own (Reoffer).
MarkReconcile(h) ==
    /\ task[h].step = "block"
    /\ draft' = WithStatus(task[h].id, "reconcile") \/ UNCHANGED draft
    /\ task' = [task EXCEPT ![h] = [Idle EXCEPT !.step = "requeue", !.id = task[h].id,
                                                !.version = task[h].version]]
    /\ UNCHANGED <<reserved, message, comments, given, asked, window>>

-----------------------------------------------------------------------------
\* A handler throws or its worker dies; nothing is delivered again.
Crash(h) ==
    /\ task[h] # Idle
    /\ Done(h)
    /\ UNCHANGED <<draft, reserved, message, comments, given, asked, window>>

Expire(d) ==
    /\ draft[d].status # "none" /\ ~draft[d].expired
    /\ draft' = [draft EXCEPT ![d].expired = TRUE]
    /\ UNCHANGED <<reserved, message, task, comments, given, asked, window>>

\* A reservation stops counting towards the cap; it is never removed.
DayPasses(th) ==
    /\ th \in window
    /\ window' = window \ {th}
    /\ UNCHANGED <<draft, reserved, message, task, comments, given, asked>>

Init == /\ draft = [d \in Drafts |-> NoDraft]
        /\ reserved = [th \in Threads |-> None]
        /\ message = [m \in Messages |-> NoMessage]
        /\ task = [h \in Handlers |-> Idle]
        /\ comments = [th \in Threads |-> {}]
        /\ given = {}
        /\ asked = [m \in Messages |-> 0]
        /\ window = {}

Offering(h) == \/ \E d \in Drafts, th \in Threads, text \in Texts, n \in Nonces : OfferDraft(h, d, th, text, n)
               \/ SendOffer(h) \/ BindMessage(h)
               \/ \E n \in Nonces : Reoffer(h, n)

Posting(h) == \/ Preflight(h) \/ Consume(h) \/ SignIn(h) \/ CheckBefore(h) \/ Reserve(h)
              \/ PostComment(h) \/ CheckAfter(h)
              \/ MarkPosted(h) \/ MarkFailed(h) \/ MarkReconcile(h)

Founder(h) == \E d \in Drafts, m \in Messages :
                 TapPost(h, d, m) \/ \E text \in Texts : ReplyEdit(h, d, m, text)

Next == \/ \E h \in Handlers : Offering(h) \/ Posting(h) \/ Founder(h) \/ Crash(h)
        \/ \E d \in Drafts, m \in Messages : TapSkip(d, m)
        \/ \E d \in Drafts : Expire(d)
        \/ \E th \in Threads : DayPasses(th)

Spec == Init /\ [][Next]_vars

-----------------------------------------------------------------------------
\* Besides the types: a draft that was offered always has a token.
TypeOK == /\ draft \in [Drafts -> DraftRows]
          /\ \A d \in Drafts : draft[d].status # "none" => draft[d].nonce # None
          /\ reserved \in [Threads -> Drafts \cup {None}]
          /\ message \in [Messages -> Shown]
          /\ task \in [Handlers -> TaskRecords]
          /\ comments \in [Threads -> SUBSET CommentRecords]
          /\ given \subseteq Nonces
          /\ asked \in [Messages -> 0..2]
          /\ window \subseteq Threads

\* "A tap can never post text the tapped message did not show": whatever edits
\* and re-offers overlap the tap, a comment has the words of the message whose
\* button was pressed, and never the placeholder.
ApprovedOnly ==
    \A th \in Threads : \A c \in comments[th] : c.text = message[c.tap].text /\ c.text \notin Slot

\* A button acts once: however often its tap is delivered, and whatever the row
\* goes through in between, at most one request leaves for it (consumeNonce).
OneRequestPerTap == \A m \in Messages : asked[m] =< 1

\* A draft is marked posted only if its thread is reserved and really has a
\* comment (reserve_radar_post, and the checks that stand in for an answer that
\* was lost).
PostedIsReal ==
    \A d \in Drafts : draft[d].status = "posted" =>
        comments[draft[d].thread] # {} /\ reserved[draft[d].thread] # None

\* Two taps a moment apart never take more than the day's reservations together.
ReservationsCapped == Cardinality(window) =< Cap

\* No draft comments on a thread another draft has reserved.
OneDraftPerThread ==
    [][\A h \in Handlers : (task[h].step = "send" /\ task'[h].step \in {"mark", "recheck", "fail"})
          => reserved[draft[task[h].id].thread] = task[h].id]_vars

=============================================================================
