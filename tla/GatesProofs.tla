----------------------------- MODULE GatesProofs -----------------------------
(***************************************************************************)
(* What holds of Gates for every set of browsers, addresses and requests,  *)
(* whatever rules the owner saves and however long cookies live.  The      *)
(* argument for ServedUnderRules: a cookie is what its reader has shown    *)
(* (Kept), a request is looked at whenever the rules or the time move, so  *)
(* what the worker goes by when it reads the share is what the reader was  *)
(* owed at that moment, and its later reads can only refuse (Sound).       *)
(***************************************************************************)
EXTENDS Gates, Alerts, TLAPS

\* A cookie lives as long after what its reader showed as the gate says.
Kept(cookies, had) ==
    /\ cookies.auth # None => had.password # None /\ cookies.auth = had.password + Ttl
    /\ cookies.mail # None => /\ had.mail # None
                              /\ cookies.mail.who = had.mail.who
                              /\ cookies.mail.until = had.mail.at + Ttl

Cookies == \A b \in Browsers : Kept(jar[b], proof[b])

\* Fair, with the very grant that a request carries.
Owed(q, s, d, t) ==
    CASE q.route = "preview" -> ~s.gone /\ ~d.deleted /\ t <= q.arg
      [] q.route = "print" -> Admits(s, d, t, q.had) /\ q.arg # None /\ q.arg.by = q.by /\ t <= q.arg.until
      [] q.route = "file" -> d.attached /\ Admits(s, [d EXCEPT !.deleted = FALSE], t, q.had)
      [] OTHER -> Admits(s, d, t, q.had)

Sound(q) ==
    /\ Kept(q.jar, q.had)
    /\ Owed(q, share, document, now) => q.fair
    /\ q.route = "print" => q.arg \in grants \cup {None}
    /\ q.step = "email" => q.route = "email"
    /\ q.step = "document" => q.fair \/ document.deleted
    /\ q.step = "file" => q.fair \/ ~document.attached
    /\ q.step \in {"source", "object"} => q.fair

RequestsSound == \A r \in Requests : InFlight(request[r]) => Sound(request[r])

IInv == TypeOK /\ Cookies /\ RequestsSound /\ DOMAIN request = Requests

-----------------------------------------------------------------------------
(***************************************************************************)
(* Types                                                                   *)
(***************************************************************************)
Documents == [deleted : BOOLEAN, attached : BOOLEAN]

LEMMA Numbers ==
  /\ Ttl \in Nat /\ Short \in Nat /\ MaxEdits \in Nat /\ MaxTime \in Nat
  /\ None \notin Int
  BY GatesAssumption

LEMMA Clocks ==
  ASSUME NEW t \in Times
  PROVE  /\ t \in Int /\ t \in Later /\ t + Ttl \in Later /\ t + Short \in Later
         /\ t # None /\ t + Ttl # None
  BY Numbers DEF Times, Later

\* One field of a share, of a set of cookies, of a proof or of a request is
\* written, and the rest of it stays.
LEMMA ShareWrites ==
  ASSUME NEW s \in Shares
  PROVE  /\ \A x \in 0 .. MaxEdits + 1 : [s EXCEPT !.password = x] \in Shares
         /\ \A x \in BOOLEAN : /\ [s EXCEPT !.mail = x] \in Shares /\ [s EXCEPT !.revoked = x] \in Shares
                               /\ [s EXCEPT !.lock = x] \in Shares /\ [s EXCEPT !.gone = x] \in Shares
         /\ \A x \in Lists : [s EXCEPT !.list = x] \in Shares
         /\ \A x \in Moments : [s EXCEPT !.expires = x] \in Shares
  BY DEF Shares

LEMMA JarWrites ==
  ASSUME NEW j \in Jars
  PROVE  /\ \A x \in Later \cup {None} : [j EXCEPT !.auth = x] \in Jars
         /\ \A x \in {None} \cup [who : Emails, until : Later] : [j EXCEPT !.mail = x] \in Jars
         /\ \A x \in BOOLEAN : [j EXCEPT !.secret = x] \in Jars /\ [j EXCEPT !.optout = x] \in Jars
  BY DEF Jars

LEMMA ProofWrites ==
  ASSUME NEW p \in Proofs, NEW t \in Times
  PROVE  /\ [p EXCEPT !.password = t] \in Proofs
         /\ \A e \in Emails : [p EXCEPT !.mail = [who |-> e, at |-> t]] \in Proofs
         /\ \A v \in Choices : [p EXCEPT !.asked[v] = t] \in Proofs
  <1>1. t \in Moments
    BY DEF Moments
  <1>2. [p EXCEPT !.password = t] \in Proofs
    BY <1>1 DEF Proofs
  <1>3. ASSUME NEW e \in Emails PROVE [p EXCEPT !.mail = [who |-> e, at |-> t]] \in Proofs
    BY DEF Proofs
  <1>4. ASSUME NEW v \in Choices PROVE [p EXCEPT !.asked[v] = t] \in Proofs
    BY <1>1 DEF Proofs
  <1> QED
    BY <1>2, <1>3, <1>4

LEMMA RequestWrites ==
  ASSUME NEW q, IsRequest(q)
  PROVE  /\ \A x \in Steps : IsRequest([q EXCEPT !.step = x])
         /\ \A x \in Emails \cup {None} : IsRequest([q EXCEPT !.who = x])
         /\ \A x \in BOOLEAN : IsRequest([q EXCEPT !.fair = x])
  BY DEF IsRequest

LEMMA InitTypes == Init => TypeOK
  <1> SUFFICES ASSUME Init PROVE TypeOK
    OBVIOUS
  <1>1. now \in Times /\ edits \in 0 .. MaxEdits
    BY Numbers DEF Init, Times
  <1>2. share \in Shares
    <2>1. PICK f \in Forms, custom \in BOOLEAN :
             share = [password |-> IF f.password = "new" THEN 1 ELSE 0, mail |-> f.mail, list |-> f.list,
                      revoked |-> FALSE, expires |-> f.expires, lock |-> f.lock,
                      custom |-> custom, gone |-> FALSE]
      BY DEF Init
    <2>2. f \in FormFields
      BY FormsAssumption
    <2>3. 0 \in 0 .. MaxEdits + 1 /\ 1 \in 0 .. MaxEdits + 1
      BY Numbers
    <2> QED
      BY <2>1, <2>2, <2>3 DEF FormFields, Shares, Moments
  <1>3. NoCookies \in Jars
    BY DEF NoCookies, Jars
  <1>4. NoProof \in Proofs
    BY DEF NoProof, Proofs, Moments
  <1> QED
    BY <1>1, <1>2, <1>3, <1>4 DEF Init, TypeOK, Owners, Pages

\* The parts of the state that are typed, for use one at a time.
LEMMA Typed ==
  ASSUME TypeOK
  PROVE  /\ share \in Shares /\ document \in Documents /\ now \in Times
         /\ \A b \in Browsers : jar[b] \in Jars /\ proof[b] \in Proofs /\ page[b] \in Pages
         /\ \A r \in Requests : InFlight(request[r]) => IsRequest(request[r])
  BY DEF TypeOK, Documents, InFlight

\* What becomes of the requests' table.
RequestsTyped(table) == \A r \in Requests : table[r] = None \/ IsRequest(table[r])

LEMMA AnsweredTypes ==
  ASSUME RequestsTyped(request), NEW r \in Requests, Answered(r)
  PROVE  RequestsTyped(request')
  BY DEF RequestsTyped, Answered

LEMMA WatchedTypes ==
  ASSUME RequestsTyped(request), NEW s, NEW d, NEW t
  PROVE  RequestsTyped(Watched(s, d, t))
  <1> SUFFICES ASSUME NEW r \in Requests
               PROVE  Watched(s, d, t)[r] = None \/ IsRequest(Watched(s, d, t)[r])
    BY DEF RequestsTyped
  <1>1. CASE ~InFlight(request[r])
    BY <1>1 DEF Watched, InFlight
  <1>2. CASE InFlight(request[r])
    <2> DEFINE fair == request[r].fair \/ Fair(request[r], s, d, t)
    <2>1. IsRequest(request[r])
      BY <1>2 DEF RequestsTyped, InFlight
    <2>2. fair \in BOOLEAN
      OBVIOUS
    <2>3. Watched(s, d, t)[r] = [request[r] EXCEPT !.fair = fair]
      BY <1>2 DEF Watched
    <2> QED
      BY <2>1, <2>2, <2>3, RequestWrites
  <1> QED
    BY <1>1, <1>2

LEMMA SendTypes ==
  ASSUME TypeOK, NEW r \in Requests, NEW b \in Browsers, NEW route \in routes, Send(r, b, route)
  PROVE  TypeOK'
  <1>1. PICK arg \in Args(route) :
           LET q == [by |-> b, route |-> route, arg |-> arg, jar |-> jar[b], had |-> proof[b],
                     step |-> "sent", who |-> None, fair |-> FALSE]
           IN  request' = [request EXCEPT ![r] = [q EXCEPT !.fair = Fair(q, share, document, now)]]
    BY DEF Send
  <1> DEFINE q == [by |-> b, route |-> route, arg |-> arg, jar |-> jar[b], had |-> proof[b],
                   step |-> "sent", who |-> None, fair |-> FALSE]
             fair == Fair(q, share, document, now)
  <1>2. route \in AllRoutes
    BY GatesAssumption DEF TypeOK
  <1>3. arg \in ArgsOf(route)
    <2>1. CASE route = "print"
      BY <2>1 DEF Args, ArgsOf, TypeOK
    <2>2. CASE route = "preview"
      <3>1. PICK t \in 0 .. now : arg = t + Short
        BY <2>2 DEF Args
      <3>2. t \in Times
        BY <3>1, Numbers DEF TypeOK, Times
      <3> QED
        BY <2>2, <3>1, <3>2, Clocks DEF ArgsOf
    <2>3. CASE route \notin {"print", "preview"}
      BY <2>3 DEF Args
    <2> QED
      BY <2>1, <2>2, <2>3
  <1>4. fair \in BOOLEAN
    BY DEF Fair, Admits, Within
  <1>5. IsRequest(q)
    BY <1>2, <1>3, Typed DEF IsRequest, Steps
  <1>6. IsRequest([q EXCEPT !.fair = fair])
    BY <1>4, <1>5, RequestWrites
  <1>7. request' = [request EXCEPT ![r] = [q EXCEPT !.fair = fair]]
    BY <1>1
  <1> HIDE DEF q, fair
  <1>8. \A u \in Requests : request'[u] = None \/ IsRequest(request'[u])
    BY <1>6, <1>7 DEF TypeOK
  <1> QED
    BY <1>8 DEF TypeOK, Send

\* The readers' other actions.
LEMMA ReaderTypes ==
  ASSUME TypeOK, RequestsSound, NEW r \in Requests,
         \/ Nothing(r) \/ AskChoice(r) \/ SetOptOut(r) \/ Wrap(r) \/ ReadShare(r)
         \/ VerifyPassword(r) \/ PasswordOk(r) \/ EmailOk(r) \/ LookDocument(r) \/ Serve(r) \/ LookFile(r) \/ ServeFile(r)
  PROVE  TypeOK'
  <1> DEFINE q == request[r]
             b == request[r].by
  <1>1. IsRequest(q) /\ b \in Browsers /\ jar[b] \in Jars /\ proof[b] \in Proofs /\ RequestsTyped(request)
    <2>1. InFlight(q)
      BY DEF Nothing, AskChoice, SetOptOut, Wrap, ReadShare, VerifyPassword, PasswordOk, EmailOk, LookDocument,
             Serve, LookFile, ServeFile, Reads, At
    <2> QED
      BY <2>1, Typed DEF IsRequest, RequestsTyped, TypeOK
  <1>2. now \in Times /\ now + Ttl \in Later /\ now + Short \in Later
    BY Clocks DEF TypeOK
  <1>3. CASE Nothing(r) \/ ServeFile(r)
    BY <1>1, <1>3, AnsweredTypes DEF Nothing, ServeFile, TypeOK, RequestsTyped
  <1>5. CASE AskChoice(r)
    <2>1. q.arg \in Choices
      <3>1. q.route \in {"confirm", "optout"}
        BY <1>5 DEF AskChoice, Reads, Verdict
      <3> QED
        BY <1>1, <3>1 DEF IsRequest, ArgsOf
    <2>2. proof' = [proof EXCEPT ![b] = [proof[b] EXCEPT !.asked[q.arg] = now]]
      BY <1>1, <1>5 DEF AskChoice, TypeOK
    <2>3. [proof[b] EXCEPT !.asked[q.arg] = now] \in Proofs
      BY <1>1, <1>2, <2>1, ProofWrites
    <2>4. proof' \in [Browsers -> Proofs]
      BY <2>2, <2>3 DEF TypeOK
    <2> QED
      BY <1>1, <1>5, <2>4, AnsweredTypes DEF AskChoice, TypeOK, RequestsTyped
  <1>6. CASE SetOptOut(r)
    <2>1. jar' = [jar EXCEPT ![b] = [jar[b] EXCEPT !.optout = q.arg = "1"]]
      BY <1>1, <1>6 DEF SetOptOut, TypeOK
    <2>2. [jar[b] EXCEPT !.optout = q.arg = "1"] \in Jars
      BY <1>1, JarWrites
    <2>3. jar' \in [Browsers -> Jars]
      BY <2>1, <2>2 DEF TypeOK
    <2> QED
      BY <1>1, <1>6, <2>3, AnsweredTypes DEF SetOptOut, TypeOK, RequestsTyped
  <1>7. CASE Wrap(r)
    <2>1. jar' \in [Browsers -> Jars] /\ grants' \subseteq Grants
      <3>1. CASE share.lock
        BY <1>7, <3>1 DEF Wrap, TypeOK
      <3>2. CASE ~share.lock
        <4>1. jar' = [jar EXCEPT ![b] = [jar[b] EXCEPT !.secret = TRUE]]
          BY <1>1, <1>7, <3>2 DEF Wrap, TypeOK
        <4>2. [jar[b] EXCEPT !.secret = TRUE] \in Jars
          BY <1>1, JarWrites
        <4>3. [by |-> b, until |-> Expiry(Short)] \in Grants
          BY <1>1, <1>2 DEF Grants, Expiry
        <4> QED
          BY <1>7, <3>2, <4>1, <4>2, <4>3 DEF Wrap, TypeOK
      <3> QED
        BY <3>1, <3>2
    <2> QED
      BY <1>1, <1>7, <2>1, AnsweredTypes DEF Wrap, TypeOK, RequestsTyped
  <1>8. CASE ReadShare(r)
    <2>1. PICK verdict \in {"password", "email", "document", "file"}, who \in Emails \cup {None} :
             request' = [request EXCEPT ![r] = [[q EXCEPT !.step = verdict] EXCEPT !.who = who]]
      <3> DEFINE who == IF share.mail /\ q.jar.mail # None /\ q.route # "preview" THEN q.jar.mail.who ELSE None
      <3>1. who \in Emails \cup {None}
        BY <1>1 DEF IsRequest, Jars
      <3>2. PICK verdict \in {"password", "email", "document", "file"} :
               request' = [request EXCEPT ![r].step = verdict, ![r].who = who]
        BY <1>8 DEF ReadShare
      <3> HIDE DEF who
      <3>3. request' = [request EXCEPT ![r] = [[q EXCEPT !.step = verdict] EXCEPT !.who = who]]
        BY <1>1, <3>2, ZenonT(60) DEF TypeOK
      <3> QED
        BY <3>1, <3>3
    <2>2. IsRequest([[q EXCEPT !.step = verdict] EXCEPT !.who = who])
      <3>1. IsRequest([q EXCEPT !.step = verdict])
        BY <1>1, RequestWrites DEF Steps
      <3> QED
        BY <3>1, RequestWrites
    <2>3. RequestsTyped(request')
      BY <1>1, <2>1, <2>2 DEF RequestsTyped
    <2> QED
      BY <1>8, <2>3 DEF ReadShare, TypeOK, RequestsTyped
  <1>9. CASE PasswordOk(r)
    <2>1. /\ jar' = [jar EXCEPT ![b] = [jar[b] EXCEPT !.auth = now + Ttl]]
          /\ proof' = [proof EXCEPT ![b] = [proof[b] EXCEPT !.password = now]]
      BY <1>1, <1>9 DEF PasswordOk, Expiry, TypeOK
    <2>2. [jar[b] EXCEPT !.auth = now + Ttl] \in Jars /\ [proof[b] EXCEPT !.password = now] \in Proofs
      BY <1>1, <1>2, JarWrites, ProofWrites
    <2>3. jar' \in [Browsers -> Jars] /\ proof' \in [Browsers -> Proofs]
      BY <2>1, <2>2 DEF TypeOK
    <2> QED
      BY <1>1, <1>9, <2>3, AnsweredTypes DEF PasswordOk, TypeOK, RequestsTyped
  <1>10. CASE EmailOk(r)
    <2>1. q.arg \in Emails
      <3>1. q.route = "email"
        BY <1>10 DEF EmailOk, At, RequestsSound, Sound
      <3> QED
        BY <1>1, <3>1 DEF IsRequest, ArgsOf
    <2>2. /\ jar' = [jar EXCEPT ![b] = [jar[b] EXCEPT !.mail = [who |-> q.arg, until |-> now + Ttl]]]
          /\ proof' = [proof EXCEPT ![b] = [proof[b] EXCEPT !.mail = [who |-> q.arg, at |-> now]]]
      BY <1>1, <1>10 DEF EmailOk, Expiry, TypeOK
    <2>3. /\ [jar[b] EXCEPT !.mail = [who |-> q.arg, until |-> now + Ttl]] \in Jars
          /\ [proof[b] EXCEPT !.mail = [who |-> q.arg, at |-> now]] \in Proofs
      BY <1>1, <1>2, <2>1, JarWrites, ProofWrites
    <2>4. jar' \in [Browsers -> Jars] /\ proof' \in [Browsers -> Proofs]
      BY <2>2, <2>3 DEF TypeOK
    <2> QED
      BY <1>1, <1>10, <2>4, AnsweredTypes DEF EmailOk, TypeOK, RequestsTyped
  <1>11. CASE VerifyPassword(r) \/ LookDocument(r) \/ LookFile(r)
    <2>1. Answered(r) \/ \E step \in Steps : Goes(r, step)
      BY <1>11 DEF VerifyPassword, LookDocument, LookFile, Steps
    <2>2. RequestsTyped(request')
      <3>1. CASE Answered(r)
        BY <1>1, <3>1, AnsweredTypes
      <3>2. ASSUME NEW step \in Steps, Goes(r, step) PROVE RequestsTyped(request')
        <4>1. request' = [request EXCEPT ![r] = [q EXCEPT !.step = step]]
          BY <3>2 DEF Goes
        <4>2. IsRequest([q EXCEPT !.step = step])
          BY <1>1, RequestWrites
        <4> QED
          BY <1>1, <4>1, <4>2 DEF RequestsTyped
      <3> QED
        BY <2>1, <3>1, <3>2
    <2> QED
      BY <1>11, <2>2 DEF VerifyPassword, LookDocument, LookFile, TypeOK, RequestsTyped
  <1>12. CASE Serve(r)
    <2>1. [who |-> q.who, had |-> q.had, step |-> "loaded"] \in Pages
      BY <1>1 DEF IsRequest, Pages
    <2>2. page' \in [Browsers -> Pages]
      BY <1>12, <2>1 DEF Serve, TypeOK
    <2> QED
      BY <1>1, <1>12, <2>2, AnsweredTypes DEF Serve, TypeOK, RequestsTyped
  <1> QED
    BY <1>3, <1>5, <1>6, <1>7, <1>8, <1>9, <1>10, <1>11, <1>12

LEMMA OwnerTypes ==
  ASSUME TypeOK, Edit \/ EditLock \/ ToggleRead \/ ToggleWrite \/ DeleteRead \/ DeleteWrite \/ DeleteUnder \/ Tick
  PROVE  TypeOK'
  <1>1. share \in Shares /\ document \in Documents /\ now \in Times /\ RequestsTyped(request)
    BY DEF TypeOK, RequestsTyped, Documents
  <1>2. \A s \in Shares : Saves(s) => share' \in Shares /\ RequestsTyped(request')
    BY <1>1, WatchedTypes DEF Saves
  <1>3. \A what : Begins(what) => edits' \in 0 .. MaxEdits /\ edits + 2 \in 0 .. MaxEdits + 1
    BY Numbers DEF Begins, TypeOK
  <1>4. /\ share.revoked \in BOOLEAN /\ share.custom \in BOOLEAN /\ (~share.revoked) \in BOOLEAN
        /\ share.password \in 0 .. MaxEdits + 1
    BY <1>1 DEF Shares
  <1>5. CASE Edit
    <2>1. PICK f \in Forms :
             /\ Saves([share EXCEPT !.list = f.list, !.mail = f.mail, !.expires = f.expires,
                                    !.password = CASE f.password = "none" -> 0
                                                   [] f.password = "new" -> edits + 2
                                                   [] OTHER -> @])
             /\ owner' = [does |-> "edit", with |-> f.lock]
      BY <1>5 DEF Edit
    <2> DEFINE password == CASE f.password = "none" -> 0
                             [] f.password = "new" -> edits + 2
                             [] OTHER -> share.password
               s1 == [share EXCEPT !.list = f.list]
               s2 == [s1 EXCEPT !.mail = f.mail]
               s3 == [s2 EXCEPT !.expires = f.expires]
               s4 == [s3 EXCEPT !.password = password]
    <2>2. f.list \in Lists /\ f.mail \in BOOLEAN /\ f.expires \in Moments /\ f.lock \in BOOLEAN
      BY FormsAssumption DEF FormFields
    <2>3. password \in 0 .. MaxEdits + 1
      <3>1. edits + 2 \in 0 .. MaxEdits + 1 /\ 0 \in 0 .. MaxEdits + 1
        <4>1. Begins("edit")
          BY <1>5 DEF Edit
        <4>2. 0 \in 0 .. MaxEdits + 1
          BY Numbers
        <4> QED
          BY <1>3, <4>1, <4>2
      <3> QED
        BY <1>4, <3>1
    <2> HIDE DEF password
    <2>4. s4 \in Shares
      <3>1. s1 \in Shares
        BY <1>1, <2>2, ShareWrites
      <3> HIDE DEF s1
      <3>2. s2 \in Shares
        BY <2>2, <3>1, ShareWrites
      <3> HIDE DEF s2
      <3>3. s3 \in Shares
        BY <2>2, <3>2, ShareWrites
      <3> HIDE DEF s3
      <3> QED
        BY <2>3, <3>3, ShareWrites
    <2>5. Saves(s4)
      BY <1>1, <2>1 DEF password, Shares
    <2>6. share' \in Shares /\ RequestsTyped(request')
      BY <1>2, <2>4, <2>5
    <2>7. owner' \in Owners /\ edits' \in 0 .. MaxEdits
      BY <1>3, <1>5, <2>1, <2>2 DEF Edit, Owners
    <2> QED
      BY <1>5, <2>6, <2>7 DEF Edit, Owned, TypeOK, RequestsTyped
  <1>6. CASE EditLock
    <2>1. owner.with \in BOOLEAN
      BY <1>6 DEF EditLock, TypeOK, Owners
    <2>2. share' \in Shares /\ RequestsTyped(request')
      BY <1>1, <1>2, <1>6, <2>1, ShareWrites DEF EditLock
    <2> QED
      BY <1>6, <2>2 DEF EditLock, Owned, Owners, TypeOK, RequestsTyped
  <1>7. CASE ToggleRead \/ DeleteRead
    BY <1>1, <1>3, <1>4, <1>7 DEF ToggleRead, DeleteRead, Owned, Owners, TypeOK, RequestsTyped
  <1>8. CASE ToggleWrite
    <2>1. (~owner.with) \in BOOLEAN
      OBVIOUS
    <2>2. share' \in Shares /\ RequestsTyped(request')
      BY <1>1, <1>2, <1>8, <2>1, ShareWrites DEF ToggleWrite
    <2> QED
      BY <1>8, <2>2 DEF ToggleWrite, Owned, Owners, TypeOK, RequestsTyped
  <1>9. CASE DeleteWrite
    <2>1. [share EXCEPT !.revoked = TRUE] \in Shares /\ [share EXCEPT !.gone = TRUE] \in Shares
      BY <1>1, ShareWrites
    <2>2. share' \in Shares /\ RequestsTyped(request')
      BY <1>2, <1>9, <2>1 DEF DeleteWrite
    <2> QED
      BY <1>9, <2>2 DEF DeleteWrite, Owned, Owners, TypeOK, RequestsTyped
  <1>10. CASE DeleteUnder
    <2>1. PICK d \in {[document EXCEPT !.deleted = TRUE], [document EXCEPT !.attached = FALSE]} :
             /\ Begins(IF d.deleted # document.deleted THEN "document" ELSE "attachment")
             /\ document' = d
             /\ request' = Watched(share, d, now)
      BY <1>10 DEF DeleteUnder
    <2>2. document' \in [deleted : BOOLEAN, attached : BOOLEAN]
      BY <1>1, <2>1 DEF Documents
    <2>3. edits' \in 0 .. MaxEdits
      BY <1>3, <2>1
    <2>4. RequestsTyped(request')
      BY <1>1, <2>1, WatchedTypes
    <2> QED
      BY <1>10, <2>2, <2>3, <2>4 DEF DeleteUnder, TypeOK, RequestsTyped
  <1>11. CASE Tick
    <2>1. now' \in Times
      BY <1>11, Numbers DEF Tick, TypeOK, Times
    <2>2. RequestsTyped(request')
      BY <1>1, <1>11, WatchedTypes DEF Tick
    <2> QED
      BY <1>11, <2>1, <2>2 DEF Tick, TypeOK, RequestsTyped
  <1> QED
    BY <1>5, <1>6, <1>7, <1>8, <1>9, <1>10, <1>11

LEMMA OtherTypes ==
  ASSUME TypeOK, (\E b \in Browsers : StartSession(b)) \/ UNCHANGED vars
  PROVE  TypeOK'
  <1>3. ASSUME NEW b \in Browsers, StartSession(b) PROVE TypeOK'
    <2>1. [page[b] EXCEPT !.step = "refused"] \in Pages /\ None \in Pages
      BY <1>3 DEF StartSession, TypeOK, Pages
    <2>2. page' \in [Browsers -> Pages]
      BY <1>3, <2>1 DEF StartSession, TypeOK
    <2> QED
      BY <1>3, <2>2 DEF StartSession, TypeOK
  <1>4. CASE UNCHANGED vars
    BY <1>4 DEF vars, TypeOK
  <1> QED
    BY <1>3, <1>4

LEMMA StepTypes ==
  ASSUME TypeOK, RequestsSound, [Next]_vars
  PROVE  TypeOK'
  BY SendTypes, ReaderTypes, OwnerTypes, OtherTypes DEF Next

-----------------------------------------------------------------------------
(***************************************************************************)
(* Who is let in                                                           *)
(***************************************************************************)
\* A request that is served what it asked for when it is read is owed it then.
LEMMA VerdictOwed ==
  ASSUME TypeOK, NEW q, IsRequest(q), Kept(q.jar, q.had)
  PROVE  /\ Verdict(q) = "document" /\ ~document.deleted => Owed(q, share, document, now)
         /\ Verdict(q) = "file" /\ document.attached => Owed(q, share, document, now)
         /\ Verdict(q) = "email" => q.route = "email"
  <1>1. /\ share \in Shares /\ document \in Documents /\ now \in Int /\ q.jar \in Jars /\ q.had \in Proofs
        /\ q.route \in AllRoutes /\ q.arg \in ArgsOf(q.route)
    BY Clocks DEF TypeOK, IsRequest, Documents
  <1>2. Verdict(q) = "email" => q.route = "email"
    BY DEF Verdict
  <1>3. ASSUME NEW d, ~d.deleted, ~share.gone, ~Closed(share),
               PasswordPassed(share, q.jar), EmailPassed(share, q.jar)
        PROVE  Admits(share, d, now, q.had)
    <2>1. ~share.revoked /\ (share.expires # None => now <= share.expires)
      <3>1. share.expires # None => share.expires \in Int
        BY <1>1, Clocks DEF Shares, Moments
      <3> QED
        BY <1>1, <1>3, <3>1 DEF Closed, Expired
    <2>2. share.password # 0 => Within(q.had.password, Ttl, now)
      <3>1. share.password # 0 => q.jar.auth # None /\ q.jar.auth >= now
        BY <1>3 DEF PasswordPassed, Fresh
      <3> QED
        BY <3>1 DEF Kept, Within
    <2>3. share.mail => /\ q.had.mail # None
                        /\ Within(q.had.mail.at, Ttl, now)
                        /\ IsEmailAllowed(share, q.had.mail.who)
      <3>1. SUFFICES ASSUME share.mail
                     PROVE  /\ q.had.mail # None
                            /\ Within(q.had.mail.at, Ttl, now)
                            /\ IsEmailAllowed(share, q.had.mail.who)
        OBVIOUS
      <3>2. /\ q.jar.mail # None /\ q.jar.mail.until >= now
            /\ IsEmailAllowed(share, q.jar.mail.who)
        BY <1>3, <3>1 DEF EmailPassed, Fresh
      <3>3. q.had.mail # None /\ q.jar.mail.who = q.had.mail.who /\ q.jar.mail.until = q.had.mail.at + Ttl
        BY <3>2 DEF Kept
      <3>4. q.had.mail.at # None
        BY <1>1, <3>3, Clocks DEF Proofs
      <3> QED
        BY <3>2, <3>3, <3>4 DEF Within
    <2> QED
      BY <1>3, <2>1, <2>2, <2>3 DEF Admits
  <1>4. ASSUME Verdict(q) = "document", ~document.deleted
        PROVE  Owed(q, share, document, now)
    <2>1. CASE q.route = "preview"
      <3>1. ~share.gone /\ Fresh(q.arg)
        BY <1>4, <2>1 DEF Verdict
      <3>2. q.arg \in Int
        BY <1>1, <2>1, Numbers DEF ArgsOf, Later
      <3> QED
        BY <1>1, <1>4, <2>1, <3>1, <3>2 DEF Owed, Fresh
    <2>2. CASE q.route # "preview"
      <3>1. /\ ~share.gone /\ ~Closed(share) /\ PasswordPassed(share, q.jar) /\ EmailPassed(share, q.jar)
            /\ q.route # "file" /\ (q.route = "print" => Granted(q))
        BY <1>4, <2>2 DEF Verdict
      <3>2. Admits(share, document, now, q.had)
        BY <1>3, <1>4, <3>1
      <3>3. q.route = "print" => q.arg # None /\ q.arg.by = q.by /\ now <= q.arg.until
        <4>1. SUFFICES ASSUME q.route = "print" PROVE q.arg # None /\ q.arg.by = q.by /\ now <= q.arg.until
          OBVIOUS
        <4>2. q.arg # None /\ q.arg.by = q.by /\ Fresh(q.arg.until)
          BY <3>1, <4>1 DEF Granted
        <4>3. q.arg.until \in Int
          BY <1>1, <4>1, <4>2, Numbers DEF ArgsOf, Grants, Later
        <4> QED
          BY <1>1, <4>2, <4>3 DEF Fresh
      <3> QED
        BY <2>2, <3>1, <3>2, <3>3 DEF Owed
    <2> QED
      BY <2>1, <2>2
  <1>5. ASSUME Verdict(q) = "file", document.attached
        PROVE  Owed(q, share, document, now)
    <2>1. /\ ~share.gone /\ ~Closed(share) /\ PasswordPassed(share, q.jar) /\ EmailPassed(share, q.jar)
          /\ q.route = "file"
      BY <1>5 DEF Verdict
    <2>2. ~[document EXCEPT !.deleted = FALSE].deleted
      BY <1>1 DEF Documents
    <2>3. Admits(share, [document EXCEPT !.deleted = FALSE], now, q.had)
      BY <1>3, <2>1, <2>2
    <2> QED
      BY <1>5, <2>1, <2>3 DEF Owed
  <1> QED
    BY <1>2, <1>4, <1>5

LEMMA OwedIsFair ==
  ASSUME NEW q, NEW s, NEW d, NEW t, Owed(q, s, d, t), q.route = "print" => q.arg \in grants \cup {None}
  PROVE  Fair(q, s, d, t)
  <1>1. CASE q.route = "print"
    BY <1>1 DEF Owed, Fair
  <1>2. CASE q.route # "print"
    BY <1>2 DEF Owed, Fair
  <1> QED
    BY <1>1, <1>2

\* A request that goes on with what it has, or whose fairness was written.
Alike(p, q) == /\ p.by = q.by /\ p.route = q.route /\ p.arg = q.arg /\ p.jar = q.jar /\ p.had = q.had

LEMMA OwedAlike ==
  ASSUME NEW p, NEW q, Alike(p, q), NEW s, NEW d, NEW t, Owed(p, s, d, t)
  PROVE  Owed(q, s, d, t)
  BY DEF Owed, Alike

\* The rules are as they were.
RulesKept == /\ now' = now /\ document' = document /\ grants \subseteq grants' /\ share' = share

LEMMA OwedKept ==
  ASSUME TypeOK, RulesKept, NEW q, Owed(q, share', document', now')
  PROVE  Owed(q, share, document, now)
  BY DEF RulesKept

LEMMA SoundStays ==
  ASSUME TypeOK, RulesKept, NEW q, Sound(q)
  PROVE  Sound(q)'
  <1>1. Owed(q, share', document', now') => q.fair
    BY OwedKept DEF Sound
  <1> QED
    BY <1>1 DEF Sound, RulesKept

LEMMA OnwardSound ==
  ASSUME TypeOK, RulesKept, NEW q, Sound(q), NEW p, Alike(p, q), p.fair = q.fair,
         p.step \in {"password", "verified", "email", "document", "file", "source", "object"},
         p.step = "email" => p.route = "email",
         p.step = "document" => p.fair \/ document.deleted,
         p.step = "file" => p.fair \/ ~document.attached,
         p.step \in {"source", "object"} => p.fair
  PROVE  Sound(p)'
  <1>1. Owed(p, share', document', now') => p.fair
    BY OwedKept, OwedAlike DEF Sound
  <1>2. Kept(p.jar, p.had) /\ (p.route = "print" => p.arg \in grants \cup {None})
    BY DEF Sound, Alike
  <1> QED
    BY <1>1, <1>2 DEF Sound, RulesKept

\* A reader's step moves one request, and leaves the rules alone.
RequestMoves(r) == \E x : /\ request' = [request EXCEPT ![r] = x]
                          /\ InFlight(x) => Sound(x)'

LEMMA MovesSoundly ==
  ASSUME TypeOK, RequestsSound, RulesKept, NEW r \in Requests, RequestMoves(r), DOMAIN request = Requests
  PROVE  RequestsSound'
  <1>1. PICK x : request' = [request EXCEPT ![r] = x] /\ (InFlight(x) => Sound(x)')
    BY DEF RequestMoves
  <1> SUFFICES ASSUME NEW u \in Requests, InFlight(request'[u]) PROVE Sound(request[u])'
    BY DEF RequestsSound, InFlight
  <1>2. CASE u = r
    <2>1. request'[u] = x
      BY <1>1, <1>2
    <2> QED
      BY <1>1, <2>1 DEF Sound
  <1>3. CASE u # r
    <2>1. request'[u] = request[u] /\ Sound(request[u])
      BY <1>1, <1>3 DEF RequestsSound, InFlight
    <2>2. PICK q : q = request[u]
      OBVIOUS
    <2>3. Sound(q)'
      BY <2>1, <2>2, SoundStays
    <2> QED
      BY <2>1, <2>2, <2>3 DEF Sound
  <1> QED
    BY <1>2, <1>3


-----------------------------------------------------------------------------
(***************************************************************************)
(* The inductive invariant                                                 *)
(***************************************************************************)
LEMMA InvInit == Init => IInv
  <1> SUFFICES ASSUME Init PROVE IInv
    OBVIOUS
  <1>1. Cookies
    BY DEF Init, Cookies, Kept, NoCookies
  <1>2. RequestsSound /\ DOMAIN request = Requests
    BY DEF Init, RequestsSound, InFlight
  <1> QED
    BY <1>1, <1>2, InitTypes DEF IInv

\* A request that is sent carries what its reader has, and is looked at then.
LEMMA SendSound ==
  ASSUME IInv, NEW r \in Requests, NEW b \in Browsers, NEW route \in routes, Send(r, b, route)
  PROVE  RequestMoves(r) /\ RulesKept
  <1>1. PICK arg \in Args(route) :
           LET q == [by |-> b, route |-> route, arg |-> arg, jar |-> jar[b], had |-> proof[b],
                     step |-> "sent", who |-> None, fair |-> FALSE]
           IN  request' = [request EXCEPT ![r] = [q EXCEPT !.fair = Fair(q, share, document, now)]]
    BY DEF Send
  <1> DEFINE q == [by |-> b, route |-> route, arg |-> arg, jar |-> jar[b], had |-> proof[b],
                   step |-> "sent", who |-> None, fair |-> FALSE]
             fair == Fair(q, share, document, now)
             x == [q EXCEPT !.fair = fair]
  <1>2. /\ Alike(x, q) /\ x.step = "sent" /\ x.fair = fair
        /\ q.route = route /\ q.arg = arg /\ x.jar = jar[b] /\ x.had = proof[b]
    BY DEF Alike
  <1>3. x.route = "print" => x.arg \in grants \cup {None}
    BY <1>2 DEF Args, Alike
  <1>4. Kept(x.jar, x.had)
    BY <1>2 DEF IInv, Cookies
  <1>5. request' = [request EXCEPT ![r] = x]
    BY <1>1
  <1>6. q.route = "print" => q.arg \in grants \cup {None}
    BY <1>2, <1>3 DEF Alike
  <1> HIDE DEF q, x
  <1>7. Owed(x, share, document, now) => x.fair
    <2>1. Owed(x, share, document, now) => Owed(q, share, document, now)
      BY <1>2, OwedAlike
    <2> QED
      BY <1>2, <1>6, <2>1, OwedIsFair
  <1>8. RulesKept
    BY DEF Send, RulesKept
  <1>9. PICK y : y = x
    OBVIOUS
  <1>10. Sound(y)
    BY <1>2, <1>3, <1>4, <1>7, <1>9 DEF Sound
  <1>11. Sound(y)'
    BY <1>8, <1>10, SoundStays DEF IInv
  <1>12. request' = [request EXCEPT ![r] = y]
    BY <1>5, <1>9
  <1> QED
    BY <1>8, <1>11, <1>12 DEF RequestMoves


\* A reader's other steps: the request is done with, or goes on to a read
\* that can only refuse it what it was owed.
LEMMA ReaderSound ==
  ASSUME IInv, NEW r \in Requests,
         \/ Nothing(r) \/ AskChoice(r) \/ SetOptOut(r) \/ Wrap(r) \/ ReadShare(r)
         \/ VerifyPassword(r) \/ PasswordOk(r) \/ EmailOk(r) \/ LookDocument(r) \/ Serve(r) \/ LookFile(r) \/ ServeFile(r)
  PROVE  RequestMoves(r) /\ RulesKept
  <1>1. RulesKept
    BY DEF RulesKept, Nothing, AskChoice, SetOptOut, Wrap, ReadShare, VerifyPassword, PasswordOk, EmailOk,
           LookDocument, Serve, LookFile, ServeFile
  <1>2. CASE Answered(r)
    <2>1. request' = [request EXCEPT ![r] = None] /\ (InFlight(None) => Sound(None)')
      BY <1>2 DEF Answered, InFlight
    <2> QED
      BY <1>1, <2>1 DEF RequestMoves
  <1>3. TypeOK /\ \A u \in Requests : InFlight(request[u]) => IsRequest(request[u]) /\ Sound(request[u])
    BY Typed DEF IInv, RequestsSound
  <1>4. PICK q : q = request[r]
    OBVIOUS
  <1>5. CASE ReadShare(r)
    <2>1. PICK verdict \in {"password", "email", "document", "file"} :
             /\ Reads(r, verdict)
             /\ request' = [request EXCEPT ![r].step = verdict,
                                           ![r].who = IF share.mail /\ q.jar.mail # None /\ q.route # "preview"
                                                      THEN q.jar.mail.who ELSE None]
      BY <1>4, <1>5 DEF ReadShare
    <2>2. PICK who : who = IF share.mail /\ q.jar.mail # None /\ q.route # "preview"
                           THEN q.jar.mail.who ELSE None
      OBVIOUS
    <2>3. InFlight(q) /\ Verdict(q) = verdict /\ IsRequest(q) /\ Sound(q)
      BY <1>3, <1>4, <2>1 DEF Reads, At
    <2>4. PICK p : p = [[q EXCEPT !.step = verdict] EXCEPT !.who = who]
      OBVIOUS
    <2>5. request' = [request EXCEPT ![r] = p]
      <3>1. request' = [request EXCEPT ![r].step = verdict, ![r].who = who]
        BY <2>1, <2>2
      <3>2. r \in DOMAIN request
        BY DEF IInv
      <3>3. request' = [request EXCEPT ![r] = [[request[r] EXCEPT !.step = verdict] EXCEPT !.who = who]]
        BY <3>1, <3>2, ZenonT(60)
      <3> QED
        BY <1>4, <2>4, <3>3
    <2>6. Alike(p, q) /\ p.step = verdict /\ p.fair = q.fair
      BY <2>3, <2>4 DEF IsRequest, Alike
    <2>7. /\ Verdict(q) = "document" /\ ~document.deleted => Owed(q, share, document, now)
          /\ Verdict(q) = "file" /\ document.attached => Owed(q, share, document, now)
          /\ Verdict(q) = "email" => q.route = "email"
      BY <1>3, <2>3, VerdictOwed DEF Sound
    <2>8. Owed(q, share, document, now) => q.fair
      BY <2>3 DEF Sound
    <2>9. /\ p.step = "email" => p.route = "email"
          /\ p.step = "document" => p.fair \/ document.deleted
          /\ p.step = "file" => p.fair \/ ~document.attached
          /\ p.step \notin {"source", "object"}
      BY <2>3, <2>6, <2>7, <2>8 DEF Alike
    <2>10. Sound(p)'
      BY <1>1, <1>3, <2>1, <2>3, <2>6, <2>9, OnwardSound
    <2> QED
      BY <1>1, <2>5, <2>10 DEF RequestMoves
  <1>6. ASSUME NEW step \in {"verified", "source", "object"}, Goes(r, step), InFlight(q),
               step # "verified" => q.fair
        PROVE  RequestMoves(r)
    <2>1. IsRequest(q) /\ Sound(q)
      BY <1>3, <1>4, <1>6
    <2>2. PICK p : p = [q EXCEPT !.step = step]
      OBVIOUS
    <2>3. request' = [request EXCEPT ![r] = p]
      <3>1. request' = [request EXCEPT ![r] = [request[r] EXCEPT !.step = step]]
        BY <1>6 DEF Goes
      <3> QED
        BY <1>4, <2>2, <3>1
    <2>4. Alike(p, q) /\ p.step = step /\ p.fair = q.fair
      BY <2>1, <2>2 DEF IsRequest, Alike
    <2>5. Sound(p)'
      BY <1>1, <1>3, <1>6, <2>1, <2>4, OnwardSound
    <2> QED
      BY <2>3, <2>5 DEF RequestMoves
  <1>7. CASE LookDocument(r)
    <2>1. InFlight(q) /\ (q.fair \/ document.deleted)
      BY <1>3, <1>4, <1>7 DEF LookDocument, At, Sound
    <2>2. Answered(r) \/ (~document.deleted /\ Goes(r, "source"))
      BY <1>7 DEF LookDocument
    <2> QED
      BY <1>1, <1>2, <1>6, <2>1, <2>2
  <1>8. CASE LookFile(r)
    <2>1. InFlight(q) /\ (q.fair \/ ~document.attached)
      BY <1>3, <1>4, <1>8 DEF LookFile, At, Sound
    <2>2. Answered(r) \/ (document.attached /\ Goes(r, "object"))
      BY <1>8 DEF LookFile
    <2> QED
      BY <1>1, <1>2, <1>6, <2>1, <2>2
  <1>9. CASE VerifyPassword(r)
    <2>1. InFlight(q) /\ Goes(r, "verified")
      BY <1>4, <1>9 DEF VerifyPassword, At
    <2> QED
      BY <1>1, <1>6, <2>1
  <1>10. ReadShare(r) \/ VerifyPassword(r) \/ LookDocument(r) \/ LookFile(r) \/ Answered(r)
    BY DEF Nothing, AskChoice, SetOptOut, Wrap, PasswordOk, EmailOk, Serve, ServeFile
  <1> QED
    BY <1>2, <1>5, <1>7, <1>8, <1>9, <1>10

\* Every cookie that is set, and every proof that is given, keep to each other.
LEMMA CookiesKept ==
  ASSUME IInv, NEW r \in Requests,
         \/ Nothing(r) \/ AskChoice(r) \/ SetOptOut(r) \/ Wrap(r) \/ ReadShare(r)
         \/ VerifyPassword(r) \/ PasswordOk(r) \/ EmailOk(r) \/ LookDocument(r) \/ Serve(r) \/ LookFile(r) \/ ServeFile(r)
  PROVE  Cookies'
  <1>1. SUFFICES ASSUME NEW c \in Browsers PROVE Kept(jar'[c], proof'[c])
    BY DEF Cookies
  <1>2. Kept(jar[c], proof[c]) /\ jar[c] \in Jars /\ proof[c] \in Proofs
    BY Typed DEF IInv, Cookies
  <1>3. now # None
    BY Clocks DEF IInv, TypeOK
  <1>4. PICK b : b = request[r].by
    OBVIOUS
  <1>5. CASE UNCHANGED <<jar, proof>>
    BY <1>2, <1>5
  <1>6. CASE AskChoice(r)
    <2>1. jar'[c] = jar[c] /\ proof'[c].password = proof[c].password /\ proof'[c].mail = proof[c].mail
      BY <1>2, <1>6 DEF AskChoice, IInv, TypeOK, Proofs
    <2> QED
      BY <1>2, <2>1 DEF Kept
  <1>7. CASE SetOptOut(r) \/ Wrap(r)
    <2>1. proof'[c] = proof[c] /\ jar'[c].auth = jar[c].auth /\ jar'[c].mail = jar[c].mail
      BY <1>2, <1>7 DEF SetOptOut, Wrap, IInv, TypeOK, Jars
    <2> QED
      BY <1>2, <2>1 DEF Kept
  <1>8. CASE PasswordOk(r)
    <2>1. CASE c = b
      <3>1. /\ jar'[c].auth = now + Ttl /\ jar'[c].mail = jar[c].mail
            /\ proof'[c].password = now /\ proof'[c].mail = proof[c].mail
        BY <1>2, <1>4, <1>8, <2>1 DEF PasswordOk, Expiry, IInv, TypeOK, Jars, Proofs
      <3> QED
        BY <1>2, <1>3, <3>1 DEF Kept
    <2>2. CASE c # b
      BY <1>2, <1>4, <1>8, <2>2 DEF PasswordOk, IInv, TypeOK
    <2> QED
      BY <2>1, <2>2
  <1>9. CASE EmailOk(r)
    <2>1. CASE c = b
      <3>1. /\ jar'[c].auth = jar[c].auth /\ proof'[c].password = proof[c].password
            /\ jar'[c].mail = [who |-> request[r].arg, until |-> now + Ttl]
            /\ proof'[c].mail = [who |-> request[r].arg, at |-> now]
        BY <1>2, <1>4, <1>9, <2>1 DEF EmailOk, Expiry, IInv, TypeOK, Jars, Proofs
      <3>2. proof'[c].mail # None
        <4>1. request[r].arg \in Emails
          <5>1. At(r, "email")
            BY <1>9 DEF EmailOk
          <5>2. request[r].route = "email" /\ IsRequest(request[r])
            BY <5>1, Typed DEF At, IInv, RequestsSound, Sound
          <5> QED
            BY <5>2 DEF IsRequest, ArgsOf
        <4>2. now \in Nat
          BY Numbers DEF IInv, TypeOK, Times
        <4> QED
          BY <3>1, <4>1, <4>2, GatesAssumption
      <3> QED
        BY <1>2, <3>1, <3>2 DEF Kept
    <2>2. CASE c # b
      BY <1>2, <1>4, <1>9, <2>2 DEF EmailOk, IInv, TypeOK
    <2> QED
      BY <2>1, <2>2
  <1> QED
    BY <1>5, <1>6, <1>7, <1>8, <1>9
       DEF Nothing, ReadShare, VerifyPassword, LookDocument, Serve, LookFile, ServeFile


LEMMA SitsSoundly ==
  ASSUME IInv, RulesKept, request' = request
  PROVE  RequestsSound'
  <1> SUFFICES ASSUME NEW r \in Requests, InFlight(request'[r]) PROVE Sound(request[r])'
    BY DEF RequestsSound, InFlight
  <1>1. PICK q : q = request[r]
    OBVIOUS
  <1>2. Sound(q)
    BY <1>1 DEF IInv, RequestsSound
  <1>3. Sound(q)'
    BY <1>2, SoundStays DEF IInv
  <1> QED
    BY <1>1, <1>3 DEF Sound

\* The rules or the time move, and every request under way is looked at; a
\* document stays deleted, and so does the file.
LEMMA LookedAt ==
  ASSUME IInv, request' = Watched(share', document', now'), grants' = grants,
         document.deleted => document'.deleted, document'.attached => document.attached
  PROVE  RequestsSound' /\ DOMAIN request' = Requests
  <1>1. DOMAIN request' = Requests
    BY DEF Watched
  <1>2. PICK s : s = share'
    OBVIOUS
  <1>3. PICK d : d = document'
    OBVIOUS
  <1>4. PICK t : t = now'
    OBVIOUS
  <1>5. request' = Watched(s, d, t)
    BY <1>2, <1>3, <1>4
  <1>6. ASSUME NEW r \in Requests, InFlight(request'[r]) PROVE Sound(request[r])'
    <2>1. PICK q : q = request[r]
      OBVIOUS
    <2>2. InFlight(q)
      BY <1>5, <1>6, <2>1 DEF Watched, InFlight
    <2>3. IsRequest(q) /\ Sound(q)
      BY <2>1, <2>2, Typed DEF IInv, RequestsSound
    <2> DEFINE fair == q.fair \/ Fair(q, s, d, t)
    <2>4. PICK p : p = [q EXCEPT !.fair = fair]
      OBVIOUS
    <2>5. request'[r] = p
      BY <1>5, <2>1, <2>2, <2>4 DEF Watched
    <2>6. Alike(p, q) /\ p.step = q.step /\ p.fair = fair
      BY <2>3, <2>4 DEF IsRequest, Alike
    <2>7. (q.fair => p.fair) /\ (Fair(q, s, d, t) => p.fair)
      BY <2>6
    <2>8. Owed(p, s, d, t) => p.fair
      <3>1. Owed(p, s, d, t) => Owed(q, s, d, t)
        BY <2>6, OwedAlike
      <3>2. q.route = "print" => q.arg \in grants \cup {None}
        BY <2>3 DEF Sound
      <3> QED
        BY <2>7, <3>1, <3>2, OwedIsFair
    <2> HIDE DEF fair
    <2>9. Sound(p)'
      <3>1. Owed(p, share', document', now') => p.fair
        BY <1>2, <1>3, <1>4, <2>8
      <3>2. /\ Kept(p.jar, p.had)
            /\ p.route = "print" => p.arg \in grants \cup {None}
            /\ p.step = "email" => p.route = "email"
            /\ p.step = "document" => p.fair \/ document.deleted
            /\ p.step = "file" => p.fair \/ ~document.attached
            /\ p.step \in {"source", "object"} => p.fair
        <4>1. /\ p.jar = q.jar /\ p.had = q.had /\ p.route = q.route /\ p.arg = q.arg /\ p.step = q.step
          BY <2>6 DEF Alike
        <4> QED
          BY <2>3, <2>7, <4>1 DEF Sound
      <3> QED
        BY <3>1, <3>2 DEF Sound
    <2> QED
      BY <2>5, <2>9 DEF Sound
  <1> QED
    BY <1>1, <1>6 DEF RequestsSound, InFlight

LEMMA OwnerSound ==
  ASSUME IInv, Edit \/ EditLock \/ ToggleRead \/ ToggleWrite \/ DeleteRead \/ DeleteWrite \/ DeleteUnder \/ Tick
  PROVE  RequestsSound' /\ DOMAIN request' = Requests
  <1>1. ASSUME NEW s, Saves(s), Owned PROVE RequestsSound' /\ DOMAIN request' = Requests
    BY <1>1, LookedAt DEF Saves, Owned
  <1>2. CASE Edit \/ ToggleWrite \/ DeleteWrite
    BY <1>1, <1>2 DEF Edit, ToggleWrite, DeleteWrite
  <1>3. CASE EditLock
    <2>1. CASE UNCHANGED <<share, request>>
      BY <1>3, <2>1, SitsSoundly DEF EditLock, Owned, RulesKept, IInv
    <2>2. CASE \E s : Saves(s)
      BY <1>1, <1>3, <2>2 DEF EditLock
    <2> QED
      BY <1>3, <2>1, <2>2 DEF EditLock
  <1>4. CASE ToggleRead \/ DeleteRead
    BY <1>4, SitsSoundly DEF ToggleRead, DeleteRead, Owned, RulesKept, IInv
  <1>5. CASE DeleteUnder
    <2>1. /\ request' = Watched(share', document', now') /\ grants' = grants
          /\ document' \in {[document EXCEPT !.deleted = TRUE], [document EXCEPT !.attached = FALSE]}
      BY <1>5 DEF DeleteUnder
    <2>2. document \in Documents
      BY Typed DEF IInv
    <2>3. (document.deleted => document'.deleted) /\ (document'.attached => document.attached)
      BY <2>1, <2>2 DEF Documents
    <2> QED
      BY <2>1, <2>3, LookedAt
  <1>6. CASE Tick
    BY <1>6, LookedAt DEF Tick
  <1> QED
    BY <1>2, <1>3, <1>4, <1>5, <1>6

LEMMA InvNext == IInv /\ [Next]_vars => IInv'
  <1> SUFFICES ASSUME IInv, [Next]_vars PROVE IInv'
    OBVIOUS
  <1>1. TypeOK'
    BY StepTypes DEF IInv
  <1>2. Cookies /\ TypeOK /\ RequestsSound /\ DOMAIN request = Requests
    BY DEF IInv
  <1>3. ASSUME NEW r \in Requests, RulesKept, RequestMoves(r)
        PROVE  RequestsSound' /\ DOMAIN request' = Requests
    BY <1>2, <1>3, MovesSoundly DEF RequestMoves
  <1>4. ASSUME NEW r \in Requests, NEW b \in Browsers, NEW route \in routes, Send(r, b, route)
        PROVE  IInv'
    <2>1. Cookies'
      BY <1>2, <1>4 DEF Send, Cookies
    <2> QED
      BY <1>1, <1>3, <1>4, <2>1, SendSound DEF IInv
  <1>5. ASSUME NEW r \in Requests,
               \/ Nothing(r) \/ AskChoice(r) \/ SetOptOut(r) \/ Wrap(r) \/ ReadShare(r)
               \/ VerifyPassword(r) \/ PasswordOk(r) \/ EmailOk(r) \/ LookDocument(r) \/ Serve(r) \/ LookFile(r) \/ ServeFile(r)
        PROVE  IInv'
    BY <1>1, <1>3, <1>5, ReaderSound, CookiesKept DEF IInv
  <1>6. CASE Edit \/ EditLock \/ ToggleRead \/ ToggleWrite \/ DeleteRead \/ DeleteWrite \/ DeleteUnder \/ Tick
    <2>1. UNCHANGED <<jar, proof>>
      BY <1>6 DEF Edit, EditLock, ToggleRead, ToggleWrite, DeleteRead, DeleteWrite, DeleteUnder, Tick, Owned
    <2> QED
      BY <1>1, <1>2, <1>6, <2>1, OwnerSound DEF IInv, Cookies
  <1>7. CASE (\E b \in Browsers : StartSession(b)) \/ UNCHANGED vars
    <2>1. UNCHANGED <<jar, proof, request>> /\ RulesKept
      BY <1>7 DEF StartSession, vars, RulesKept
    <2> QED
      BY <1>1, <1>2, <2>1, SitsSoundly DEF IInv, Cookies
  <1> QED
    BY <1>4, <1>5, <1>6, <1>7 DEF Next

\* The inductive invariant holds of every reachable state.
LEMMA Invariant == Spec => []IInv
  BY InvInit, InvNext, PTL DEF Spec

-----------------------------------------------------------------------------
(***************************************************************************)
(* Theorems                                                                *)
(***************************************************************************)
\* Every variable keeps its type: what a request carries fits its route, and
\* no cookie outlives the clock's bound by more than a gate's life.
THEOREM TypeCorrect == Spec => []TypeOK
  <1>1. IInv => TypeOK
    BY DEF IInv
  <1> QED
    BY <1>1, Invariant, PTL

\* Whoever is served was entitled to it at some moment between asking and
\* being answered, however the owner's edits fall among the reads of the
\* request (handleRequest, handleAttachmentDownload).
THEOREM ServedUnderRulesHolds == Spec => []ServedUnderRules
  <1>1. IInv => ServedUnderRules
    BY DEF IInv, RequestsSound, Sound, ServedUnderRules, At
  <1> QED
    BY <1>1, Invariant, PTL


-----------------------------------------------------------------------------
(***************************************************************************)
(* Alerts: types                                                           *)
(***************************************************************************)
LEMMA Bounds ==
  /\ Cooldown \in Nat /\ MaxClock \in Nat /\ MaxSaves \in Nat
  /\ Never \notin Int
  BY AlertsAssumption

LEMMA AlertsTypesInit == AlertsInit => AlertsTypes
  <1> SUFFICES ASSUME AlertsInit PROVE AlertsTypes
    OBVIOUS
  <1>1. 0 \in Clock /\ 0 \in 0 .. MaxSaves
    BY Bounds DEF Clock
  <1>2. link \in Links
    BY DEF AlertsInit, Links
  <1> QED
    BY <1>1, <1>2 DEF AlertsInit, AlertsTypes, TabStates, CallStates, Kinds

\* What a call of the alert does to the types.
LEMMA CallTypes ==
  ASSUME AlertsTypes, NEW c \in Calls, Knock(c) \/ Decide(c) \/ Notify(c) \/ GiveUp(c)
  PROVE  AlertsTypes'
  <1>1. /\ call[c] \in CallStates /\ link \in Links /\ clock \in Clock /\ clock \in Int
        /\ call \in [Calls -> CallStates]
    BY Bounds DEF AlertsTypes, Clock
  <1>2. CASE Knock(c)
    <2>1. PICK kind \in Kinds : call' = [call EXCEPT ![c] = [step |-> "called", kind |-> kind, at |-> clock]]
      BY <1>2 DEF Knock
    <2>2. call' \in [Calls -> CallStates]
      BY <1>1, <2>1 DEF CallStates
    <2> QED
      BY <1>2, <2>2 DEF Knock, AlertsTypes
  <1>3. CASE Decide(c)
    <2>1. PICK t \in call[c].at .. clock, step \in {"decided", "done"} :
             call' = [call EXCEPT ![c].at = t, ![c].step = step]
      BY <1>3 DEF Decide
    <2>2. t \in Clock
      BY <1>1, <2>1, Bounds DEF CallStates, Clock
    <2>3. call'[c] = [step |-> step, kind |-> call[c].kind, at |-> t]
      BY <1>1, <2>1 DEF CallStates
    <2>4. call' \in [Calls -> CallStates]
      BY <1>1, <2>1, <2>2, <2>3 DEF CallStates
    <2> QED
      BY <1>3, <2>4 DEF Decide, AlertsTypes
  <1>4. CASE Notify(c)
    <2>1. call' \in [Calls -> CallStates]
      BY <1>1, <1>4 DEF Notify, CallStates
    <2>2. link' \in Links
      BY <1>1, <1>4 DEF Notify, Stamped, CallStates, Links
    <2>3. mailed' \subseteq [call : Calls, at : Clock] /\ stray' \subseteq Calls
      BY <1>1, <1>4 DEF Notify, CallStates, AlertsTypes
    <2> QED
      BY <1>4, <2>1, <2>2, <2>3 DEF Notify, AlertsTypes
  <1>5. CASE GiveUp(c)
    <2>1. call' \in [Calls -> CallStates]
      BY <1>1, <1>5 DEF GiveUp, CallStates
    <2> QED
      BY <1>5, <2>1 DEF GiveUp, AlertsTypes
  <1> QED
    BY <1>2, <1>3, <1>4, <1>5

\* What the owner and the clock do to them.
LEMMA TabTypes ==
  ASSUME AlertsTypes, NEW t \in Tabs, Read(t) \/ Write(t) \/ Drop(t)
  PROVE  AlertsTypes'
  <1>1. link \in Links /\ tab \in [Tabs -> TabStates] /\ tab[t] \in TabStates
    BY DEF AlertsTypes
  <1>2. CASE Read(t)
    <2>1. tab' \in [Tabs -> TabStates]
      BY <1>1, <1>2 DEF Read, TabStates, Links
    <2> QED
      BY <1>2, <2>1 DEF Read, AlertsTypes
  <1>3. CASE Write(t)
    <2>1. tab[t].with \in BOOLEAN
      BY <1>1, <1>3 DEF Write, TabStates
    <2>2. /\ [link EXCEPT !.revoked = ~tab[t].with] \in Links
          /\ [link EXCEPT !.revoked = TRUE] \in Links
          /\ [link EXCEPT !.gone = TRUE] \in Links
      BY <1>1, <2>1 DEF Links
    <2>3. \E l \in Links : Save(l)
      BY <1>3, <2>2 DEF Write
    <2>4. link' \in Links /\ saves' \in 0 .. MaxSaves /\ stray' \subseteq Calls
      BY <2>3, Bounds DEF Save, AlertsTypes
    <2>5. tab' \in [Tabs -> TabStates]
      BY <1>1, <1>3 DEF Write, TabStates
    <2> QED
      BY <2>3, <2>4, <2>5 DEF Save, AlertsTypes
  <1>4. CASE Drop(t)
    <2>1. tab' \in [Tabs -> TabStates]
      BY <1>1, <1>4 DEF Drop, TabStates
    <2> QED
      BY <1>4, <2>1 DEF Drop, AlertsTypes
  <1> QED
    BY <1>2, <1>3, <1>4

LEMMA AlertsTypesNext ==
  ASSUME AlertsTypes, [AlertsNext]_alertVars
  PROVE  AlertsTypes'
  <1>1. CASE Extend
    <2>1. PICK e \in Clock \cup {Never} : Save([link EXCEPT !.expires = e])
      BY <1>1 DEF Extend
    <2>2. [link EXCEPT !.expires = e] \in Links
      BY DEF AlertsTypes, Links
    <2>3. link' \in Links /\ saves' \in 0 .. MaxSaves /\ stray' \subseteq Calls
      BY <2>1, <2>2, Bounds DEF Save, AlertsTypes
    <2> QED
      BY <1>1, <2>1, <2>3 DEF Extend, Save, AlertsTypes
  <1>2. CASE Pass
    BY <1>2, Bounds DEF Pass, AlertsTypes, Clock
  <1>3. CASE UNCHANGED alertVars
    BY <1>3 DEF alertVars, AlertsTypes
  <1> QED
    BY <1>1, <1>2, <1>3, CallTypes, TabTypes DEF AlertsNext

-----------------------------------------------------------------------------
(***************************************************************************)
(* Alerts: the inductive invariant.  One call at a time is past its look   *)
(* at the link.  Nothing is stamped or mailed while it is, so it stays a   *)
(* cooldown from every mail; and it was right about the link when it       *)
(* looked, which only a save of the owner changes.                         *)
(***************************************************************************)
Decided(c) == call[c].step = "decided"

OneDecided == \A c, d \in Calls : Decided(c) /\ Decided(d) => c = d

Stamp == ~link.gone => \A m \in mailed : link.notified # Never /\ m.at <= link.notified

Apart == \A c \in Calls, m \in mailed : Decided(c) => m.at + Cooldown <= call[c].at

Current == \A c \in Calls : Decided(c) => ~OutOfDate(call[c].kind) \/ stray = {}

Spaced == OneDecided /\ Stamp /\ Apart /\ Current /\ OncePerCooldown /\ OneStray

AlertsInv == AlertsTypes /\ Spaced

LEMMA AlertsInvInit == AlertsInit => AlertsInv
  <1> SUFFICES ASSUME AlertsInit PROVE AlertsInv
    OBVIOUS
  <1>1. (\A c \in Calls : ~Decided(c)) /\ mailed = {} /\ stray = {}
    BY DEF AlertsInit, Decided
  <1>2. Spaced
    BY <1>1 DEF Spaced, OneDecided, Stamp, Apart, Current, OncePerCooldown, OneStray
  <1> QED
    BY <1>2, AlertsTypesInit DEF AlertsInv

\* Another call is as it was.
Others(c) == \A d \in Calls : d # c => call'[d] = call[d]

LEMMA KnockKeeps ==
  ASSUME AlertsInv, NEW c \in Calls, Knock(c) \/ GiveUp(c)
  PROVE  Spaced'
  <1>1. ~Decided(c)' /\ Others(c)
    BY DEF AlertsInv, AlertsTypes, Knock, GiveUp, Decided, Others, CallStates
  <1>2. UNCHANGED <<clock, link, mailed, stray>>
    BY DEF Knock, GiveUp
  <1>3. \A d \in Calls : Decided(d)' => Decided(d) /\ call'[d] = call[d]
    BY <1>1 DEF Decided, Others
  <1> QED
    BY <1>2, <1>3 DEF AlertsInv, Spaced, OneDecided, Stamp, Apart, Current, OncePerCooldown, OneStray, OutOfDate

LEMMA DecideKeeps ==
  ASSUME AlertsInv, NEW c \in Calls, Decide(c)
  PROVE  Spaced'
  <1>1. /\ call[c] \in CallStates /\ link \in Links /\ clock \in Int
        /\ call \in [Calls -> CallStates] /\ mailed \subseteq [call : Calls, at : Clock]
    BY Bounds DEF AlertsInv, AlertsTypes, Clock
  <1>2. UNCHANGED <<clock, link, mailed, stray>> /\ \A d \in Calls : ~Decided(d)
    BY DEF Decide, LockFree, Decided
  <1>3. PICK t \in call[c].at .. clock :
           call' = [call EXCEPT ![c].at = t,
                                ![c].step = IF StillClosed(call[c].kind, t) /\ CooledDown(t) THEN "decided" ELSE "done"]
    BY DEF Decide
  <1>4. t \in Int /\ t <= clock
    BY <1>1, <1>3, Bounds DEF CallStates, Clock
  <1>5. /\ call'[c].at = t /\ call'[c].kind = call[c].kind /\ Others(c)
        /\ Decided(c)' => StillClosed(call[c].kind, t) /\ CooledDown(t)
    BY <1>1, <1>3 DEF CallStates, Others, Decided
  <1>6. \A d \in Calls : Decided(d)' => d = c
    BY <1>2, <1>5 DEF Others, Decided
  <1>7. Apart'
    <2> SUFFICES ASSUME Decided(c)', NEW m \in mailed PROVE m.at + Cooldown <= t
      BY <1>2, <1>5, <1>6 DEF Apart
    <2>1. ~link.gone /\ (link.notified = Never \/ link.notified <= t - Cooldown)
      BY <1>5 DEF StillClosed, CooledDown
    <2>2. link.notified # Never /\ m.at <= link.notified
      BY <2>1 DEF AlertsInv, Spaced, Stamp
    <2>3. link.notified \in Int /\ m.at \in Int
      BY <1>1, <2>2, Bounds DEF Links, Clock
    <2> QED
      BY <1>4, <2>1, <2>2, <2>3, Bounds
  <1>8. Current'
    <2> SUFFICES ASSUME Decided(c)' PROVE ~OutOfDate(call[c].kind)
      BY <1>2, <1>5, <1>6 DEF Current, OutOfDate
    <2>1. StillClosed(call[c].kind, t) /\ call[c].kind \in Kinds
      BY <1>1, <1>5 DEF CallStates
    <2>2. CASE call[c].kind = "revoked"
      BY <2>1, <2>2 DEF StillClosed, OutOfDate
    <2>3. CASE call[c].kind = "expired"
      <3>1. ~link.gone /\ link.expires # Never /\ link.expires <= t
        BY <2>1, <2>3 DEF StillClosed
      <3>2. link.expires \in Int
        BY <1>1, <3>1, Bounds DEF Links, Clock
      <3>3. ~(link.expires > clock)
        BY <1>1, <1>4, <3>1, <3>2
      <3> QED
        BY <2>3, <3>1, <3>3 DEF OutOfDate
    <2> QED
      BY <2>1, <2>2, <2>3 DEF Kinds
  <1>9. OneDecided' /\ Stamp' /\ OncePerCooldown' /\ OneStray'
    BY <1>2, <1>6 DEF AlertsInv, Spaced, OneDecided, Stamp, OncePerCooldown, OneStray
  <1> QED
    BY <1>7, <1>8, <1>9 DEF Spaced

LEMMA NotifyKeeps ==
  ASSUME AlertsInv, NEW c \in Calls, Notify(c)
  PROVE  Spaced'
  <1>1. /\ call[c] \in CallStates /\ link \in Links /\ call \in [Calls -> CallStates]
        /\ mailed \subseteq [call : Calls, at : Clock] /\ call[c].at \in Int
    BY Bounds DEF AlertsInv, AlertsTypes, CallStates, Clock
  <1>2. Decided(c) /\ \A m \in mailed : m.at + Cooldown <= call[c].at
    BY DEF Notify, Decided, AlertsInv, Spaced, Apart
  <1>3. \A d \in Calls : ~Decided(d)'
    <2>1. ~Decided(c)' /\ Others(c)
      BY <1>1 DEF Notify, Decided, Others, CallStates
    <2> QED
      BY <1>2, <2>1 DEF AlertsInv, Spaced, OneDecided, Decided, Others
  <1>4. OneDecided' /\ Apart' /\ Current'
    BY <1>3 DEF OneDecided, Apart, Current
  <1>5. mailed' \subseteq mailed \cup {[call |-> c, at |-> call[c].at]}
    BY DEF Notify
  <1>6. \A m \in mailed : m.at \in Int /\ m.at <= call[c].at
    BY <1>1, <1>2, Bounds DEF Clock
  <1>7. Stamp'
    <2> SUFFICES ASSUME ~link'.gone, NEW m \in mailed'
                 PROVE  link'.notified # Never /\ m.at <= link'.notified
      BY DEF Stamp
    <2>1. link'.notified = call[c].at
      BY <1>1 DEF Notify, Stamped, Links
    <2>2. m.at <= call[c].at
      BY <1>1, <1>5, <1>6
    <2> QED
      BY <1>1, <2>1, <2>2, Bounds
  <1>8. OncePerCooldown'
    <2> SUFFICES ASSUME NEW m \in mailed', NEW n \in mailed'
                 PROVE  m = n \/ m.at + Cooldown <= n.at \/ n.at + Cooldown <= m.at
      BY DEF OncePerCooldown
    <2> DEFINE new == [call |-> c, at |-> call[c].at]
    <2>1. new.at = call[c].at /\ m \in mailed \cup {new} /\ n \in mailed \cup {new}
      BY <1>5
    <2> HIDE DEF new
    <2>2. CASE m \in mailed /\ n \in mailed
      BY <2>2 DEF AlertsInv, Spaced, OncePerCooldown
    <2>3. CASE m = new /\ n \in mailed
      BY <1>2, <2>1, <2>3
    <2>4. CASE m \in mailed /\ n = new
      BY <1>2, <2>1, <2>4
    <2>5. CASE m = new /\ n = new
      BY <2>5
    <2> QED
      BY <2>1, <2>2, <2>3, <2>4, <2>5
  <1>9. OneStray'
    <2>1. CASE stray' = stray
      BY <2>1 DEF AlertsInv, Spaced, OneStray
    <2>2. CASE OutOfDate(call[c].kind) /\ stray' = stray \cup {c}
      <3>1. stray = {}
        BY <1>2, <2>2 DEF AlertsInv, Spaced, Current
      <3> QED
        BY <2>2, <3>1 DEF OneStray
    <2> QED
      BY <2>1, <2>2 DEF Notify
  <1> QED
    BY <1>4, <1>7, <1>8, <1>9 DEF Spaced

\* A save begins the count of strays again; a link that is there keeps its stamp.
LEMMA SaveKeeps ==
  ASSUME AlertsInv, NEW l, Save(l), l.notified = link.notified, link.gone => l.gone
  PROVE  Spaced'
  <1>1. UNCHANGED <<clock, call, mailed>> /\ link' = l /\ stray' = {}
    BY DEF Save
  <1> QED
    BY <1>1 DEF AlertsInv, Spaced, OneDecided, Decided, Stamp, Apart, Current, OncePerCooldown, OneStray

\* A link that has expired stays expired as time passes.
LEMMA PassKeeps ==
  ASSUME AlertsInv, Pass
  PROVE  Spaced'
  <1>1. /\ UNCHANGED <<link, call, mailed, stray>> /\ clock' = clock + 1 /\ clock \in Int
        /\ link.expires # Never => link.expires \in Int
    BY Bounds DEF Pass, AlertsInv, AlertsTypes, Clock, Links
  <1>2. \A kind \in Kinds : OutOfDate(kind)' => OutOfDate(kind)
    BY <1>1 DEF OutOfDate
  <1>3. \A c \in Calls : call[c].kind \in Kinds
    BY DEF AlertsInv, AlertsTypes, CallStates
  <1>4. Current'
    BY <1>1, <1>2, <1>3 DEF AlertsInv, Spaced, Current, Decided, OutOfDate
  <1> QED
    BY <1>1, <1>4 DEF AlertsInv, Spaced, OneDecided, Decided, Stamp, Apart, OncePerCooldown, OneStray

LEMMA AlertsInvNext == AlertsInv /\ [AlertsNext]_alertVars => AlertsInv'
  <1> SUFFICES ASSUME AlertsInv, [AlertsNext]_alertVars PROVE AlertsInv'
    OBVIOUS
  <1>1. AlertsTypes'
    BY AlertsTypesNext DEF AlertsInv
  <1>2. link \in Links
    BY DEF AlertsInv, AlertsTypes
  <1>3. ASSUME NEW c \in Calls, Knock(c) \/ Decide(c) \/ Notify(c) \/ GiveUp(c) PROVE Spaced'
    BY <1>3, KnockKeeps, DecideKeeps, NotifyKeeps
  <1>4. ASSUME UNCHANGED <<clock, link, call, mailed, stray>> PROVE Spaced'
    BY <1>4 DEF AlertsInv, Spaced, OneDecided, Decided, Stamp, Apart, Current, OutOfDate, OncePerCooldown, OneStray
  <1>5. ASSUME NEW t \in Tabs, Write(t) PROVE Spaced'
    <2>1. PICK l \in {[link EXCEPT !.revoked = ~tab[t].with], [link EXCEPT !.revoked = TRUE],
                      [link EXCEPT !.gone = TRUE]} : Save(l)
      BY <1>5 DEF Write
    <2>2. l.notified = link.notified /\ (link.gone => l.gone)
      BY <1>2, <2>1 DEF Links
    <2> QED
      BY <2>1, <2>2, SaveKeeps
  <1>6. ASSUME Extend PROVE Spaced'
    <2>1. PICK e \in Clock \cup {Never} : Save([link EXCEPT !.expires = e])
      BY <1>6 DEF Extend
    <2>2. PICK l : l = [link EXCEPT !.expires = e]
      OBVIOUS
    <2>3. l.notified = link.notified /\ (link.gone => l.gone)
      BY <1>2, <2>2 DEF Links
    <2> QED
      BY <2>1, <2>2, <2>3, SaveKeeps
  <1>7. \/ \E c \in Calls : Knock(c) \/ Decide(c) \/ Notify(c) \/ GiveUp(c)
        \/ \E t \in Tabs : Write(t)
        \/ Extend \/ Pass
        \/ UNCHANGED <<clock, link, call, mailed, stray>>
    BY DEF AlertsNext, alertVars, Read, Drop
  <1>8. Spaced'
    BY <1>3, <1>4, <1>5, <1>6, <1>7, PassKeeps
  <1> QED
    BY <1>1, <1>8 DEF AlertsInv

LEMMA AlertsInvariant == AlertsSpec => []AlertsInv
  BY AlertsInvInit, AlertsInvNext, PTL DEF AlertsSpec

-----------------------------------------------------------------------------
(***************************************************************************)
(* Alerts: theorems                                                        *)
(***************************************************************************)
\* Every variable of the alerts keeps its type.
THEOREM AlertsTypeCorrect == AlertsSpec => []AlertsTypes
  <1>1. AlertsInv => AlertsTypes
    BY DEF AlertsInv
  <1> QED
    BY <1>1, AlertsInvariant, PTL

\* Two mails about one closed link are a cooldown apart, whoever calls, however
\* long the calls wait and whatever the owner saves meanwhile: the stamp is
\* committed with the mail under the lock (notify_disabled_attempt).
THEOREM OncePerCooldownHolds == AlertsSpec => []OncePerCooldown
  <1>1. AlertsInv => OncePerCooldown
    BY DEF AlertsInv, Spaced
  <1> QED
    BY <1>1, AlertsInvariant, PTL

\* The gap between the second reading of the link and the commit, into which
\* the owner's save can fall, lets one outdated mail out and no more: calls that
\* were waiting behind it read the link as it was saved (schema/028).
THEOREM OneStrayHolds == AlertsSpec => []OneStray
  <1>1. AlertsInv => OneStray
    BY DEF AlertsInv, Spaced
  <1> QED
    BY <1>1, AlertsInvariant, PTL
=============================================================================
