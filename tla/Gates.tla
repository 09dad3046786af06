-------------------------------- MODULE Gates --------------------------------
(***************************************************************************)
(* The gates in front of one share: handleRequest and its handlers         *)
(* (packages/proxy/src/index.ts), the cookies, tokens and grants of        *)
(* auth.ts, the owner's edits of the share (docs/[id]/actions.ts) and      *)
(* start_session (schema/036).  The alert of a closed link is in Alerts.   *)
(*                                                                         *)
(* A request reads the share once and then waits for other reads; the      *)
(* owner edits, time passes, and other requests are answered in between.   *)
(* An action is what happens from one awaited call to the next.  The share *)
(* is one the trust wrapper is on for (TRUST_WRAPPER).                     *)
(***************************************************************************)
EXTENDS Integers, FiniteSets

CONSTANTS Browsers,  \* readers' browsers
          Emails,    \* addresses a reader can type
          Domain,    \* the domain of each of them
          Forms,     \* the rules the owner saves: see FormFields
          Requests,  \* requests in flight
          Mixes,     \* the sets of routes one behaviour takes
          Edits,     \* what the owner does
          Ttl,       \* TTL_SECONDS of the two gate cookies
          Short,     \* the ten minutes of tokens, grants and previews
          MaxEdits,  \* bounds how often the owner does something
          MaxTime,   \* bounds the clock
          None

\* "open" is the reader's address of the share; "confirm" is that address with
\* ?optout=, and "optout" the form of the page it shows; "file" is an attachment.
AllRoutes == {"open", "frame", "print", "auth", "email", "report", "file",
              "confirm", "optout", "preview"}
AllEdits == {"edit", "toggle", "delete", "document", "attachment"}

ASSUME GatesAssumption ==
    /\ {Ttl, Short, MaxEdits, MaxTime} \subseteq Nat
    /\ Mixes \subseteq SUBSET AllRoutes
    /\ Edits \subseteq AllEdits
    /\ Emails = DOMAIN Domain
    /\ None \notin Int \cup [who : Emails, at : Nat]

VARIABLES routes,   \* the routes this behaviour takes
          now,
          share,    \* the row of document_shares
          document, \* the document, and the file attached to it
          owner,    \* the owner's action under way
          edits,
          jar,      \* the cookies of each browser
          grants,   \* the print grants that were shown
          request,
          page,     \* the tracked document in each browser's window
          proof     \* history: what each reader has shown, and been shown

vars == <<routes, now, share, document, owner, edits, jar, grants, request, page, proof>>

Times == 0 .. MaxTime
Moments == Times \cup {None}
Later == 0 .. MaxTime + Ttl + Short
Choices == {"1", "0"}

\* What the form of a share says: "keep" is a blank password.
Lists == [emails : SUBSET Emails, domains : SUBSET {Domain[e] : e \in Emails}]
FormFields == [password : {"none", "keep", "new"}, mail : BOOLEAN, list : Lists,
               expires : Moments, lock : BOOLEAN]
ASSUME FormsAssumption == Forms \subseteq FormFields
\* Passwords are numbered, 0 for none; `custom` is slug_is_custom.
Shares == [password : 0 .. MaxEdits + 1, mail : BOOLEAN, list : Lists, revoked : BOOLEAN,
           expires : Moments, lock : BOOLEAN, custom : BOOLEAN, gone : BOOLEAN]
\* What the second half of an edit writes, or what a toggle or a deletion read.
Owners == {None} \cup [does : {"edit", "toggle", "delete"}, with : BOOLEAN]
\* Expiry of the password's cookie, the address and expiry of the other,
\* whether there is a print secret and whether the reader opted out.
Jars == [auth : Later \cup {None}, mail : {None} \cup [who : Emails, until : Later],
         secret : BOOLEAN, optout : BOOLEAN]
Grants == [by : Browsers, until : Later]
\* When the reader's right password was last answered for, when an address was
\* and which, and when each choice was last asked about.
Proofs == [password : Moments, mail : {None} \cup [who : Emails, at : Times],
           asked : [Choices -> Moments]]
Steps == {"sent", "password", "verified", "email", "document", "source", "file", "object"}
\* `jar` and `had` are the cookies it carries and what its reader had shown;
\* `who` is the address it was let in with; `fair` is history.
ArgsOf(route) ==
    CASE route = "auth" -> 1 .. MaxEdits + 1
      [] route = "email" -> Emails
      [] route = "print" -> Grants \cup {None}
      [] route \in {"confirm", "optout"} -> Choices
      [] route = "preview" -> Later
      [] OTHER -> {None}
IsRequest(q) ==
    /\ DOMAIN q = {"by", "route", "arg", "jar", "had", "step", "who", "fair"}
    /\ q.by \in Browsers /\ q.route \in AllRoutes /\ q.arg \in ArgsOf(q.route)
    /\ q.jar \in Jars /\ q.had \in Proofs /\ q.step \in Steps
    /\ q.who \in Emails \cup {None} /\ q.fair \in BOOLEAN
Pages == {None} \cup [who : Emails \cup {None}, had : Proofs, step : {"loaded", "refused"}]

NoCookies == [auth |-> None, mail |-> None, secret |-> FALSE, optout |-> FALSE]
NoProof == [password |-> None, mail |-> None, asked |-> [v \in Choices |-> None]]

Init ==
    /\ routes \in Mixes
    /\ now = 0
    /\ \E f \in Forms, custom \in BOOLEAN :
          share = [password |-> IF f.password = "new" THEN 1 ELSE 0, mail |-> f.mail, list |-> f.list,
                   revoked |-> FALSE, expires |-> f.expires, lock |-> f.lock, custom |-> custom, gone |-> FALSE]
    /\ document = [deleted |-> FALSE, attached |-> TRUE]
    /\ owner = None
    /\ edits = 0
    /\ jar = [b \in Browsers |-> NoCookies]
    /\ grants = {}
    /\ request = [r \in Requests |-> None]
    /\ page = [b \in Browsers |-> None]
    /\ proof = [b \in Browsers |-> NoProof]

-----------------------------------------------------------------------------
(* The gates.                                                              *)

Expired(s) == s.expires # None /\ s.expires < now
Closed(s) == s.revoked \/ Expired(s)
Fresh(until) == until # None /\ until >= now
Expiry(life) == now + life

\* isEmailAllowed: either list lets the address in; two empty ones let all in.
IsEmailAllowed(s, who) ==
    \/ s.list.emails = {} /\ s.list.domains = {}
    \/ who \in s.list.emails
    \/ Domain[who] \in s.list.domains

\* The password's cookie is not bound to the password; the address in the
\* other cookie is held against the lists as they are now.
PasswordPassed(s, cookies) == s.password = 0 \/ Fresh(cookies.auth)
MutEmailPassed(s, cookies) ==
    ~s.mail \/ (cookies.mail # None /\ Fresh(cookies.mail.until))
EmailPassed(s, cookies) ==
    \/ ~s.mail
    \/ /\ cookies.mail # None
       /\ Fresh(cookies.mail.until)
       /\ IsEmailAllowed(s, cookies.mail.who)

\* verifyPrintGrant: signed over the cookie of the browser it was shown to.
Granted(q) == q.arg # None /\ q.jar.secret /\ q.arg.by = q.by /\ Fresh(q.arg.until)

TokenShown(q) == q.had.asked[q.arg]
OptOutToken(q) == TokenShown(q) # None /\ Fresh(TokenShown(q) + Short)

\* What handleRequest goes on to do once it has read the share.
Verdict(q) ==
    LET opens == q.route = "open" \/ q.route = "preview"
        s == share
    IN  IF s.gone THEN "nothing"
        ELSE IF q.route = "confirm" THEN "confirm"
        ELSE IF q.route = "optout" THEN (IF OptOutToken(q) THEN "optout" ELSE "confirm")
        ELSE IF q.route = "report" THEN "nothing"
        ELSE IF q.route = "print" /\ ~Granted(q) THEN "nothing"
        ELSE IF q.route = "preview" /\ Fresh(q.arg) THEN "document"
        ELSE IF Closed(s) THEN "nothing"
        ELSE IF q.route = "auth" THEN "password"
        ELSE IF q.route = "email" THEN (IF IsEmailAllowed(s, q.arg) THEN "email" ELSE "nothing")
        ELSE IF ~PasswordPassed(s, q.jar) \/ ~EmailPassed(s, q.jar) THEN "nothing"
        ELSE IF opens THEN "wrapper"
        ELSE IF q.route = "file" THEN "file"
        ELSE "document"

-----------------------------------------------------------------------------
(* What a reader is owed, for the history: the rules as they stand, held   *)
(* against what the reader has really shown.                               *)

Within(at, life, t) == at # None /\ t <= at + life

Admits(s, d, t, had) ==
    /\ ~s.gone /\ ~d.deleted /\ ~s.revoked
    /\ s.expires # None => t <= s.expires
    /\ s.password # 0 => Within(had.password, Ttl, t)
    /\ s.mail => /\ had.mail # None
                 /\ Within(had.mail.at, Ttl, t)
                 /\ IsEmailAllowed(s, had.mail.who)

Fair(q, s, d, t) ==
    CASE q.route = "preview" -> ~s.gone /\ ~d.deleted /\ t <= q.arg
      [] q.route = "print" -> Admits(s, d, t, q.had) /\ (\E g \in grants : g.by = q.by /\ t <= g.until)
      [] q.route = "file" -> d.attached /\ Admits(s, [d EXCEPT !.deleted = FALSE], t, q.had)
      [] OTHER -> Admits(s, d, t, q.had)

InFlight(q) == q # None
At(r, step) == InFlight(request[r]) /\ request[r].step = step

\* Every request under way looks at the rules whenever they, or the time, change.
Watched(s, d, t) ==
    [r \in Requests |-> IF ~InFlight(request[r]) THEN request[r]
                        ELSE [request[r] EXCEPT !.fair = @ \/ Fair(request[r], s, d, t)]]

-----------------------------------------------------------------------------
(* Requests.                                                               *)

\* What a request carries besides its cookies: a grant that was shown, and for
\* a preview a token the owner has made (previewShareAction).
Args(route) ==
    CASE route = "print" -> grants \cup {None}
      [] route = "preview" -> {t + Short : t \in 0 .. now}
      [] OTHER -> ArgsOf(route)

Send(r, b, route) ==
    /\ ~InFlight(request[r])
    /\ \E arg \in Args(route) :
          LET q == [by |-> b, route |-> route, arg |-> arg, jar |-> jar[b], had |-> proof[b],
                    step |-> "sent", who |-> None, fair |-> FALSE]
          IN  request' = [request EXCEPT ![r] = [q EXCEPT !.fair = Fair(q, share, document, now)]]
    /\ UNCHANGED <<routes, now, share, document, owner, edits, jar, grants, page, proof>>

Reads(r, verdict) == /\ At(r, "sent")
                     /\ Verdict(request[r]) = verdict
Goes(r, step) == request' = [request EXCEPT ![r].step = step]
Answered(r) == request' = [request EXCEPT ![r] = None]

\* Not found, a form, the page of a closed link, a redirect to the wrapper; or any read failed on the way
\* (UpstreamError, sourceUnreachable).
Nothing(r) ==
    /\ InFlight(request[r])
    /\ Answered(r)
    /\ UNCHANGED <<routes, now, share, document, owner, edits, jar, grants, page, proof>>

\* optOutConfirm, for a look at the address and for a token that is no good.
AskChoice(r) ==
    /\ Reads(r, "confirm")
    /\ proof' = [proof EXCEPT ![request[r].by].asked[request[r].arg] = now]
    /\ Answered(r)
    /\ UNCHANGED <<routes, now, share, document, owner, edits, jar, grants, page>>

\* handleOptOutSubmit
SetOptOut(r) ==
    /\ Reads(r, "optout")
    /\ jar' = [jar EXCEPT ![request[r].by].optout = request[r].arg = "1"]
    /\ Answered(r)
    /\ UNCHANGED <<routes, now, share, document, owner, edits, grants, page, proof>>

\* The wrapper, with a print grant unless the share is locked.
Wrap(r) ==
    /\ Reads(r, "wrapper")
    /\ IF share.lock THEN UNCHANGED <<jar, grants>>
       ELSE LET b == request[r].by
            IN  /\ jar' = [jar EXCEPT ![b].secret = TRUE]
                /\ grants' = grants \cup {[by |-> b, until |-> Expiry(Short)]}
    /\ Answered(r)
    /\ UNCHANGED <<routes, now, share, document, owner, edits, page, proof>>

\* On to verify_share_password, the log of an address, the document or the file.
ReadShare(r) ==
    /\ \E verdict \in {"password", "email", "document", "file"} :
          /\ Reads(r, verdict)
          /\ request' = [request EXCEPT ![r].step = verdict,
                                        ![r].who = IF share.mail /\ request[r].jar.mail # None /\ request[r].route # "preview"
                                                   THEN request[r].jar.mail.who ELSE None]
    /\ UNCHANGED <<routes, now, share, document, owner, edits, jar, grants, page, proof>>

\* handlePasswordSubmit: verify_share_password reads the share again, the
\* attempt is logged, and then the cookie is issued.
VerifyPassword(r) ==
    /\ At(r, "password")
    /\ ~share.gone /\ share.password # 0 /\ request[r].arg = share.password
    /\ Goes(r, "verified")
    /\ UNCHANGED <<routes, now, share, document, owner, edits, jar, grants, page, proof>>

PasswordOk(r) ==
    /\ At(r, "verified")
    /\ jar' = [jar EXCEPT ![request[r].by].auth = Expiry(Ttl)]
    /\ proof' = [proof EXCEPT ![request[r].by].password = now]
    /\ Answered(r)
    /\ UNCHANGED <<routes, now, share, document, owner, edits, grants, page>>

\* handleEmailSubmit, once the attempt is logged.
EmailOk(r) ==
    /\ At(r, "email")
    /\ LET b == request[r].by
       IN  /\ jar' = [jar EXCEPT ![b].mail = [who |-> request[r].arg, until |-> Expiry(Ttl)]]
           /\ proof' = [proof EXCEPT ![b].mail = [who |-> request[r].arg, at |-> now]]
    /\ Answered(r)
    /\ UNCHANGED <<routes, now, share, document, owner, edits, grants, page>>

\* getDocument
LookDocument(r) ==
    /\ At(r, "document")
    /\ IF document.deleted THEN Answered(r) ELSE Goes(r, "source")
    /\ UNCHANGED <<routes, now, share, document, owner, edits, jar, grants, page, proof>>

\* fetchDocumentHtml and injectTracker: tracked in the frame, unless the reader
\* opted out.
Serve(r) ==
    /\ At(r, "source")
    /\ Answered(r)
    /\ page' = IF request[r].route = "frame" /\ ~request[r].jar.optout
               THEN [page EXCEPT ![request[r].by] =
                        [who |-> request[r].who, had |-> request[r].had, step |-> "loaded"]]
               ELSE page
    /\ UNCHANGED <<routes, now, share, document, owner, edits, jar, grants, proof>>

\* getAttachment, and the object it names.
LookFile(r) ==
    /\ At(r, "file")
    /\ IF document.attached THEN Goes(r, "object") ELSE Answered(r)
    /\ UNCHANGED <<routes, now, share, document, owner, edits, jar, grants, page, proof>>

ServeFile(r) ==
    /\ At(r, "object")
    /\ Answered(r)
    /\ UNCHANGED <<routes, now, share, document, owner, edits, jar, grants, page, proof>>

-----------------------------------------------------------------------------
(* start_session, called by the page; too many calls are turned away.      *)

SessionRefused(who) ==
    \/ share.gone \/ Closed(share) \/ document.deleted
    \/ /\ share.mail
       /\ \/ who = None
          \/ share.list.domains # {} /\ Domain[who] \notin share.list.domains

StartSession(b) ==
    /\ page[b] # None /\ page[b].step = "loaded"
    /\ page' = [page EXCEPT ![b] = IF SessionRefused(page[b].who) THEN [@ EXCEPT !.step = "refused"]
                                   ELSE None]
    /\ UNCHANGED <<routes, now, share, document, owner, edits, jar, grants, request, proof>>

-----------------------------------------------------------------------------
(* The owner.                                                              *)

Begins(what) == what \in Edits /\ edits < MaxEdits /\ edits' = edits + 1
Owned == UNCHANGED <<routes, now, document, jar, grants, page, proof>>
Saves(s) == share' = s /\ request' = Watched(s, document, now)

\* editShareAction: update_share writes every rule at once; a blank password
\* keeps the one there is, and there must be one (chk_password_pair).
Edit ==
    /\ Begins("edit") /\ owner = None /\ ~share.gone
    /\ \E f \in Forms :
          /\ f.password = "keep" => share.password # 0
          /\ Saves([share EXCEPT !.list = f.list, !.mail = f.mail, !.expires = f.expires,
                                 !.password = CASE f.password = "none" -> 0
                                                [] f.password = "new" -> edits + 2
                                                [] OTHER -> @])
          /\ owner' = [does |-> "edit", with |-> f.lock]
    /\ Owned

\* set_share_lock_deck, a call of its own; it may fail and leave the lock.
EditLock ==
    /\ owner # None /\ owner.does = "edit"
    /\ \/ ~share.gone /\ Saves([share EXCEPT !.lock = owner.with])
       \/ UNCHANGED <<share, request>>
    /\ owner' = None
    /\ UNCHANGED edits /\ Owned

\* toggleShareAction: it turns over what it read.
ToggleRead ==
    /\ Begins("toggle") /\ owner = None /\ ~share.gone
    /\ owner' = [does |-> "toggle", with |-> share.revoked]
    /\ UNCHANGED <<share, request>> /\ Owned

ToggleWrite ==
    /\ owner # None /\ owner.does = "toggle"
    /\ Saves([share EXCEPT !.revoked = ~owner.with])
    /\ owner' = None
    /\ UNCHANGED edits /\ Owned

\* deleteShareAction: a share with a chosen address is revoked instead.
DeleteRead ==
    /\ Begins("delete") /\ owner = None /\ ~share.gone
    /\ owner' = [does |-> "delete", with |-> share.custom]
    /\ UNCHANGED <<share, request>> /\ Owned

DeleteWrite ==
    /\ owner # None /\ owner.does = "delete"
    /\ Saves(IF owner.with THEN [share EXCEPT !.revoked = TRUE] ELSE [share EXCEPT !.gone = TRUE])
    /\ owner' = None
    /\ UNCHANGED edits /\ Owned

\* deleteDocumentAction and deleteAttachmentAction
DeleteUnder ==
    /\ \E d \in {[document EXCEPT !.deleted = TRUE], [document EXCEPT !.attached = FALSE]} :
          /\ d # document
          /\ Begins(IF d.deleted # document.deleted THEN "document" ELSE "attachment")
          /\ document' = d
          /\ request' = Watched(share, d, now)
    /\ UNCHANGED <<routes, now, share, owner, jar, grants, page, proof>>

Tick ==
    /\ now < MaxTime
    /\ now' = now + 1
    /\ request' = Watched(share, document, now + 1)
    /\ UNCHANGED <<routes, share, document, owner, edits, jar, grants, page, proof>>

Next ==
    \/ Tick
    \/ Edit \/ EditLock \/ ToggleRead \/ ToggleWrite \/ DeleteRead \/ DeleteWrite \/ DeleteUnder
    \/ \E r \in Requests :
          \/ \E b \in Browsers, route \in routes : Send(r, b, route)
          \/ Nothing(r) \/ AskChoice(r) \/ SetOptOut(r) \/ Wrap(r) \/ ReadShare(r)
          \/ VerifyPassword(r) \/ PasswordOk(r) \/ EmailOk(r)
          \/ LookDocument(r) \/ Serve(r) \/ LookFile(r) \/ ServeFile(r)
    \/ \E b \in Browsers : StartSession(b)

Spec == Init /\ [][Next]_vars

-----------------------------------------------------------------------------
(* Properties.                                                             *)

TypeOK ==
    /\ routes \in Mixes
    /\ now \in Times
    /\ share \in Shares
    /\ document \in [deleted : BOOLEAN, attached : BOOLEAN]
    /\ owner \in Owners
    /\ edits \in 0 .. MaxEdits
    /\ jar \in [Browsers -> Jars]
    /\ grants \subseteq Grants
    /\ \A r \in Requests : request[r] = None \/ IsRequest(request[r])
    /\ page \in [Browsers -> Pages]
    /\ proof \in [Browsers -> Proofs]

\* Whoever is served the document, a printable copy or a file was entitled to
\* it at some moment between asking and being answered: the link was open, the
\* document there, and what its gates ask for had been shown by that reader, in
\* that browser, within the life of a cookie, under the rules of that moment.
\* The answer may be built from rules that have changed since, and the cookies
\* may be older than the rules (handleRequest, handleAttachmentDownload).
ServedUnderRules ==
    \A r \in Requests : At(r, "source") \/ At(r, "object") => request[r].fair

=============================================================================
