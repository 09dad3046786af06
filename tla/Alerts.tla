-------------------------------- MODULE Alerts --------------------------------
(***************************************************************************)
(* The alert that somebody met a closed link.  handleRequest               *)
(* (packages/proxy/src/index.ts) answers and leaves a call of              *)
(* notify_disabled_attempt (schema/028) to run; the function takes the     *)
(* link's advisory lock, reads the link again, and queues one mail and the *)
(* stamp that spaces the mails in the transaction it then commits.         *)
(*                                                                         *)
(* The owner's actions (docs/[id]/actions.ts) take no part in that lock:   *)
(* they read and write the link from other transactions, in any order.     *)
(* Postgres' now() is the start of the transaction, which may be long      *)
(* before the lock is had.                                                 *)
(***************************************************************************)
EXTENDS Integers, FiniteSets

CONSTANTS Calls,     \* the openings of the link while it is closed
          Tabs,      \* the owner's windows
          Cooldown,  \* v_cooldown
          MaxClock,  \* bounds the clock
          MaxSaves,  \* bounds how often the owner saves
          Never      \* no moment, or no action

ASSUME AlertsAssumption ==
    /\ {Cooldown, MaxClock, MaxSaves} \subseteq Nat
    /\ Never \notin Int \cup [does : {"toggle", "delete"}, with : BOOLEAN]

VARIABLES clock,
          link,    \* what the alert reads of the row of document_shares
          tab,     \* the owner's toggle or deletion under way in each window
          saves,   \* how often the owner has saved
          call,    \* the calls of notify_disabled_attempt
          mailed,  \* history: the mails that went out
          stray    \* history: since the owner last saved, the calls whose mail
                   \* says the link is closed in a way it is not

alertVars == <<clock, link, tab, saves, call, mailed, stray>>

Clock == 0 .. MaxClock
Kinds == {"revoked", "expired"}
\* `notified` is last_disabled_notify_at, `custom` slug_is_custom.
Links == [revoked : BOOLEAN, expires : Clock \cup {Never}, notified : Clock \cup {Never},
          custom : BOOLEAN, gone : BOOLEAN]
\* What a window goes on to write is made of what it read.
TabStates == {Never} \cup [does : {"toggle", "delete"}, with : BOOLEAN]
\* `kind` is what the proxy saw and `at` the moment of the call, and from then
\* on the start of the transaction.
CallStates == [step : {"new", "called", "decided", "done"}, kind : Kinds, at : Clock]

AlertsInit ==
    /\ clock = 0
    /\ link \in [revoked : BOOLEAN, expires : Clock \cup {Never}, notified : {Never},
                 custom : BOOLEAN, gone : {FALSE}]
    /\ tab = [t \in Tabs |-> Never]
    /\ saves = 0
    /\ call = [c \in Calls |-> [step |-> "new", kind |-> "revoked", at |-> 0]]
    /\ mailed = {}
    /\ stray = {}

-----------------------------------------------------------------------------
(* The proxy, and notify_disabled_attempt.                                 *)

\* The proxy tells the owner the first of the two that is so.
SeenAs(kind) ==
    LET expired == link.expires # Never /\ link.expires < clock
    IN  IF kind = "revoked" THEN link.revoked ELSE ~link.revoked /\ expired

\* An opening of the closed link leaves a call behind.
Knock(c) ==
    /\ call[c].step = "new"
    /\ ~link.gone
    /\ \E kind \in Kinds : SeenAs(kind) /\ call' = [call EXCEPT ![c] = [step |-> "called", kind |-> kind, at |-> clock]]
    /\ UNCHANGED <<clock, link, tab, saves, mailed, stray>>

MutStillClosed(kind, t) == ~link.gone
StillClosed(kind, t) ==
    /\ ~link.gone
    /\ IF kind = "revoked" THEN link.revoked ELSE link.expires # Never /\ link.expires <= t

MutLockFree == TRUE
LockFree == \A c \in Calls : call[c].step # "decided"

CooledDown(t) == link.notified = Never \/ link.notified <= t - Cooldown

\* Under the lock the link is read again; the transaction began some time
\* between the call and now.  Turned down, the call is over.
Decide(c) ==
    /\ call[c].step = "called"
    /\ LockFree
    /\ \E t \in call[c].at .. clock :
          call' = [call EXCEPT ![c].at = t,
                               ![c].step = IF StillClosed(call[c].kind, t) /\ CooledDown(t) THEN "decided" ELSE "done"]
    /\ UNCHANGED <<clock, link, tab, saves, mailed, stray>>

Stamped(l, t) == IF l.gone THEN l ELSE [l EXCEPT !.notified = t]

\* What the mail of a call says of the link, for the history.
OutOfDate(kind) ==
    \/ link.gone
    \/ kind = "revoked" /\ ~link.revoked
    \/ kind = "expired" /\ (link.expires = Never \/ link.expires > clock)

\* The mail and the stamp are committed, and the lock is let go; without the
\* secrets in the Vault there is only the stamp.  A row deleted meanwhile takes
\* no stamp, and the mail goes out.
Notify(c) ==
    /\ call[c].step = "decided"
    /\ call' = [call EXCEPT ![c].step = "done"]
    /\ link' = Stamped(link, call[c].at)
    /\ \/ /\ mailed' = mailed \cup {[call |-> c, at |-> call[c].at]}
          /\ stray' = IF OutOfDate(call[c].kind) THEN stray \cup {c} ELSE stray
       \/ UNCHANGED <<mailed, stray>>
    /\ UNCHANGED <<clock, tab, saves>>

\* The call never arrived, the owner has no address, or the transaction was
\* undone: the proxy asks no more, and nothing was written.
GiveUp(c) ==
    /\ call[c].step \in {"called", "decided"}
    /\ call' = [call EXCEPT ![c].step = "done"]
    /\ UNCHANGED <<clock, link, tab, saves, mailed, stray>>

-----------------------------------------------------------------------------
(* The owner.                                                              *)

Save(l) ==
    /\ saves < MaxSaves /\ saves' = saves + 1
    /\ link' = l
    /\ stray' = {}
    /\ UNCHANGED <<clock, call, mailed>>

\* toggleShareAction reads whether the link is revoked, deleteShareAction
\* whether its address was chosen.
Read(t) ==
    /\ tab[t] = Never /\ ~link.gone
    /\ \E does \in {"toggle", "delete"} :
          tab' = [tab EXCEPT ![t] = [does |-> does, with |-> IF does = "toggle" THEN link.revoked ELSE link.custom]]
    /\ UNCHANGED <<clock, link, saves, call, mailed, stray>>

\* The toggle writes the opposite of what it read; a link with a chosen address
\* is revoked instead of deleted.
Write(t) ==
    /\ tab[t] # Never /\ ~link.gone
    /\ Save(CASE tab[t].does = "toggle" -> [link EXCEPT !.revoked = ~tab[t].with]
              [] tab[t].does = "delete" /\ tab[t].with -> [link EXCEPT !.revoked = TRUE]
              [] OTHER -> [link EXCEPT !.gone = TRUE])
    /\ tab' = [tab EXCEPT ![t] = Never]

\* The write failed, or the row was no longer there.
Drop(t) ==
    /\ tab[t] # Never
    /\ tab' = [tab EXCEPT ![t] = Never]
    /\ UNCHANGED <<clock, link, saves, call, mailed, stray>>

\* editShareAction saves any expiry, or none.
Extend ==
    /\ ~link.gone
    /\ \E e \in Clock \cup {Never} : Save([link EXCEPT !.expires = e])
    /\ UNCHANGED tab

Pass ==
    /\ clock < MaxClock
    /\ clock' = clock + 1
    /\ UNCHANGED <<link, tab, saves, call, mailed, stray>>

AlertsNext ==
    \/ \E c \in Calls : Knock(c) \/ Decide(c) \/ Notify(c) \/ GiveUp(c)
    \/ \E t \in Tabs : Read(t) \/ Write(t) \/ Drop(t)
    \/ Extend \/ Pass

AlertsSpec == AlertsInit /\ [][AlertsNext]_alertVars

-----------------------------------------------------------------------------
(* Properties.                                                             *)

AlertsTypes ==
    /\ clock \in Clock
    /\ link \in Links
    /\ tab \in [Tabs -> TabStates]
    /\ saves \in 0 .. MaxSaves
    /\ call \in [Calls -> CallStates]
    /\ mailed \subseteq [call : Calls, at : Clock]
    /\ stray \subseteq Calls

\* "At most one of these per link every few hours": however many readers meet
\* the closed link at once, and however long their calls wait for the lock, two
\* mails about it are a cooldown apart (notify_disabled_attempt, schema/028).
OncePerCooldown ==
    \A m, n \in mailed : m = n \/ m.at + Cooldown <= n.at \/ n.at + Cooldown <= m.at

\* The link is read again before the mail, yet the owner may save between that
\* reading and the commit.  Only one call is ever caught there: after each save
\* at most one mail says the link is closed in a way it no longer is, though
\* any number of calls were made before the save (notify_disabled_attempt,
\* toggleShareAction).
OneStray == \A c, d \in stray : c = d

=============================================================================
