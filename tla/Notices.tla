------------------------------- MODULE Notices -------------------------------
(***************************************************************************)
(* The e-mail that tells an owner that somebody opened a document:         *)
(* start_session (schema/036) and the trigger it fires, notify_on_first_-  *)
(* open (schema/049), pg_net's requests and answers, and the reconciler    *)
(* that settles what became of each e-mail (schema/044).                   *)
(*                                                                         *)
(* Every share here is of one document.  A call of start_session is a      *)
(* transaction at READ COMMITTED: it sees what others have committed, and  *)
(* waits for nothing but the rows it writes itself - the rate limit of     *)
(* that share and reader, and the reader's row on that share.              *)
(***************************************************************************)
EXTENDS Integers, Sequences, FiniteSets

CONSTANTS Shares,   \* shares of the document
          People,   \* readers' addresses
          Owner,    \* the owner's own address
          Quiet,    \* the shares with notify_first_open off
          Calls,    \* concurrent calls of start_session
          Patience, \* the 30 minutes of the reconciler
          Keep,     \* how long pg_net keeps an answer
          MaxMails, \* bounds the rows of notifications_log
          MaxTime,  \* bounds the clock; calls begin while a mail can still be given up
          None

ASSUME NoticesAssumption ==
    /\ {Patience, Keep, MaxMails, MaxTime} \subseteq Nat
    /\ Owner \in People
    /\ Quiet \subseteq Shares
    /\ None \notin Shares \cup People

VARIABLES now,
          call,     \* each transaction: step, share, reader and what it has written
          viewers,  \* the table viewers: readers met on each share
          hidden,   \* those of them with is_internal set
          opened,   \* the table sessions: who has opened which share
          log,      \* the table notifications_log
          answers,  \* net._http_response
          accepted  \* what the mail service took: outside the program, seen by nobody here

vars == <<now, call, viewers, hidden, opened, log, answers, accepted>>

Pairs == Shares \X People
Times == 0 .. MaxTime
Mails == 1 .. MaxMails
\* "unset": the mail service's key or address was not to be had from the Vault.
Verdicts == {"none", "told", "repeat", "hidden", "off", "unset"}
\* now() is the beginning of a transaction; `internal` is the reader's flag and
\* `mail` what the trigger made of the session.
CallFields == [step : {"viewer", "session", "commit"}, share : Shares, who : People, at : Times,
               internal : BOOLEAN, mail : Verdicts]
Statuses == {"queued", "sent", "failed", "unverified", "skipped"}
\* `why` is the row's error_message: the verdict it was written with.
Rows == [status : Statuses, share : Shares, who : People, at : Times, why : Verdicts,
         posted : {"no", "waiting", "done"}]
Answers == [of : Mails, ok : BOOLEAN, at : Times]

Init ==
    /\ now = 0
    /\ call = [c \in Calls |-> None]
    /\ viewers = {} /\ hidden = {} /\ opened = {}
    /\ log = << >>
    /\ answers = {}
    /\ accepted = {}

-----------------------------------------------------------------------------
(* start_session.                                                          *)

Running(c, share, who) == call[c] # None /\ call[c].share = share /\ call[c].who = who

\* check_rate_limit writes the row of this share and reader first, and so waits
\* for any other call that has.
Begin(c, share, who) ==
    /\ call[c] = None
    /\ \A d \in Calls : ~Running(d, share, who)
    /\ Len(log) + Cardinality({d \in Calls : call[d] # None}) < MaxMails
    /\ now + Patience < MaxTime
    /\ call' = [call EXCEPT ![c] = [step |-> "viewer", share |-> share, who |-> who, at |-> now,
                                    internal |-> FALSE, mail |-> "none"]]
    /\ UNCHANGED <<now, viewers, hidden, opened, log, answers, accepted>>

\* Turned away for any of its reasons, or broken off: nothing of it stays.
Abort(c) ==
    /\ call[c] # None
    /\ call' = [call EXCEPT ![c] = None]
    /\ UNCHANGED <<now, viewers, hidden, opened, log, answers, accepted>>

\* The upsert: the owner's own address is flagged, and a flag is never taken off.
Internal(share, who) == who = Owner \/ <<share, who>> \in hidden

UpsertViewer(c) ==
    /\ call[c] # None /\ call[c].step = "viewer"
    /\ call' = [call EXCEPT ![c].step = "session",
                            ![c].internal = Internal(call[c].share, call[c].who)]
    /\ UNCHANGED <<now, viewers, hidden, opened, log, answers, accepted>>

\* notify_on_first_open: another session of this reader on any share of the
\* document makes it a repeat.
MutOwnSession(share, who) == \E s \in Shares : <<s, who>> \in opened \cup {<<share, who>>}
MutOtherShares(share, who) == \E s \in Shares \ {share} : <<s, who>> \in opened
Repeat(share, who) == \E s \in Shares : <<s, who>> \in opened

\* The Vault is asked last: not told for want of it, the reader is met all the same.
Verdict(share, who, internal, ready) ==
    IF share \in Quiet THEN "off"
    ELSE IF Repeat(share, who) THEN "repeat"
    ELSE IF internal THEN "hidden"
    ELSE IF ready THEN "told"
    ELSE "unset"

InsertSession(c) ==
    /\ call[c] # None /\ call[c].step = "session"
    /\ \E ready \in BOOLEAN :
          call' = [call EXCEPT ![c].step = "commit",
                     ![c].mail = Verdict(call[c].share, call[c].who, call[c].internal, ready)]
    /\ UNCHANGED <<now, viewers, hidden, opened, log, answers, accepted>>

\* The commit: the rows are there for all to see, and pg_net has the request.
Posted(mail) == IF mail = "told" THEN "waiting" ELSE "no"

Commit(c) ==
    /\ call[c] # None /\ call[c].step = "commit"
    /\ LET q == call[c]
           pair == <<q.share, q.who>>
       IN  /\ viewers' = viewers \cup {pair}
           /\ hidden' = IF q.internal THEN hidden \cup {pair} ELSE hidden \ {pair}
           /\ opened' = opened \cup {pair}
           /\ log' = Append(log, [status |-> IF q.mail = "told" THEN "queued" ELSE "skipped",
                                   share |-> q.share, who |-> q.who, at |-> q.at, why |-> q.mail,
                                   posted |-> Posted(q.mail)])
    /\ call' = [call EXCEPT ![c] = None]
    /\ UNCHANGED <<now, answers, accepted>>

\* set_viewer_internal, by the owner; it waits for a call that has the row.
SetViewerInternal(pair, internal) ==
    /\ pair \in viewers
    /\ \A c \in Calls : ~(Running(c, pair[1], pair[2]) /\ call[c].step # "viewer")
    /\ hidden' = IF internal THEN hidden \cup {pair} ELSE hidden \ {pair}
    /\ UNCHANGED <<now, call, viewers, opened, log, answers, accepted>>

-----------------------------------------------------------------------------
(* pg_net: the request is made once, whatever comes of it.  A time-out     *)
(* says nothing of whether the mail was taken; a crash leaves no answer.   *)

Post(m) ==
    /\ log[m].posted = "waiting"
    /\ log' = [log EXCEPT ![m].posted = "done"]
    /\ \/ /\ accepted' = accepted \cup {m}
          /\ \E ok \in BOOLEAN : answers' = answers \cup {[of |-> m, ok |-> ok, at |-> now]}
       \/ /\ answers' = answers \cup {[of |-> m, ok |-> FALSE, at |-> now]}
          /\ UNCHANGED accepted
       \/ /\ accepted' \in {accepted, accepted \cup {m}}
          /\ UNCHANGED answers
    /\ UNCHANGED <<now, call, viewers, hidden, opened>>

Expire(a) ==
    /\ a.at + Keep <= now
    /\ answers' = answers \ {a}
    /\ UNCHANGED <<now, call, viewers, hidden, opened, log, accepted>>

\* reconcile_notification_sends, every ten minutes.
Queued(row) == row.status = "queued"
MutOutOfPatience(row) == row.at + Patience > now
OutOfPatience(row) == row.at + Patience < now
MutUnknown == "sent"
Unknown == "unverified"

Settled(m) ==
    LET row == log[m]
    IN  IF ~Queued(row) THEN row.status
        ELSE IF \E a \in answers : a.of = m /\ a.ok THEN "sent"
        ELSE IF \E a \in answers : a.of = m THEN "failed"
        ELSE IF OutOfPatience(row) THEN Unknown
        ELSE row.status

Reconcile ==
    /\ log' = [m \in DOMAIN log |-> [log[m] EXCEPT !.status = Settled(m)]]
    /\ UNCHANGED <<now, call, viewers, hidden, opened, answers, accepted>>

Tick ==
    /\ now < MaxTime
    /\ now' = now + 1
    /\ UNCHANGED <<call, viewers, hidden, opened, log, answers, accepted>>

Next ==
    \/ Tick \/ Reconcile
    \/ \E c \in Calls :
          \/ \E share \in Shares, who \in People : Begin(c, share, who)
          \/ Abort(c) \/ UpsertViewer(c) \/ InsertSession(c) \/ Commit(c)
    \/ \E pair \in Pairs, internal \in BOOLEAN : SetViewerInternal(pair, internal)
    \/ \E m \in DOMAIN log : Post(m)
    \/ \E a \in answers : Expire(a)

Spec == Init /\ [][Next]_vars

\* Time passes, and pg_cron fires.
FairSpec == Spec /\ WF_vars(Tick) /\ WF_vars(Reconcile)

-----------------------------------------------------------------------------
(* Properties.                                                             *)

TypeOK ==
    /\ now \in Times
    /\ \A c \in Calls : call[c] = None \/ call[c] \in CallFields
    /\ viewers \subseteq Pairs
    /\ hidden \subseteq viewers
    /\ opened \subseteq Pairs
    /\ \A m \in DOMAIN log : m \in Mails /\ log[m] \in Rows
    /\ \A m \in DOMAIN log : log[m].posted = "no" <=> log[m].status = "skipped"
    /\ answers \subseteq Answers
    /\ accepted \subseteq Mails

Told(m) == log[m].status # "skipped"

\* However calls overlap, the opening of one share by one reader is mailed at
\* most once: a reload, a second tab and a retry each are a call of their own.
OnceForEachShare ==
    \A m, n \in DOMAIN log :
        m # n /\ Told(m) /\ Told(n) => <<log[m].share, log[m].who>> # <<log[n].share, log[n].who>>

\* An owner hears of every reader who opened the document, if all the shares that
\* reader opened notify, or the log says that the mail service was not set up:
\* calls on two shares that overlap never each take the other for the first, a
\* reader hidden later was dealt with before, and no later open stands for the
\* one that could not be mailed.
NobodyMissed ==
    \A who \in People \ {Owner} :
        LET seen == {s \in Shares : <<s, who>> \in opened}
        IN  seen # {} /\ seen \cap Quiet = {} =>
                \E m \in DOMAIN log : log[m].who = who /\ (Told(m) \/ log[m].why = "unset")

Ledger == INSTANCE MailLedger WITH verdict <- [m \in DOMAIN log |-> log[m].status],
                                    taken <- accepted

\* Transactions, pg_net and reconciler implement the abstract log of mails: the
\* log never claims that a mail was taken when it was not, no mail is sent twice,
\* and what is settled stays so, though answers expire and are looked at for ever.
LedgerKept == Ledger!Spec

\* No row stays queued: it is settled by an answer, or given up as unverified.
EverythingSettles == \A m \in Mails : m \in DOMAIN log ~> m \in DOMAIN log /\ log[m].status # "queued"

=============================================================================
