----------------------------- MODULE OneTapProofs -----------------------------
(***************************************************************************)
(* What holds of OneTap for every set of drafts, threads, messages and     *)
(* overlapping deliveries.  The tables only grow (Grows): a token is never *)
(* given again, a message never changes what it shows, a row changes its   *)
(* words only together with its token.  So what one delivery knows stays   *)
(* true whatever the others do (TaskStays), and each action has to be      *)
(* looked at only for the delivery that takes it.                          *)
(***************************************************************************)
EXTENDS OneTap, FiniteSetTheorems, TLAPS

\* A tap that passed the gate and whose comment has not been asked for.
InFlight == {"signin", "check", "reserve", "send"}

Tapped == {"preflight", "consume"} \cup InFlight

\* The buttons of message m speak for no row any more.
Spent(m) == \A d \in Drafts : draft[d].nonce = message[m].nonce => draft[d].used

TaskSound(t) ==
    /\ t.step # "idle" => t.id \in Drafts /\ draft[t.id].status # "none"
    /\ t.step = "offer" => /\ t.nonce \in given /\ t.text \in Texts
                           /\ \A d \in Drafts : draft[d].nonce = t.nonce => draft[d].text = t.text
    /\ t.step = "edit" => t.text \in Texts
    /\ t.step = "bind" => t.tap \in Messages
    /\ t.step \in Tapped => t.tap \in Messages /\ message[t.tap].nonce # None
    /\ t.step \in InFlight => t.text = message[t.tap].text /\ Spent(t.tap) /\ asked[t.tap] = 0
    /\ t.step \in {"check", "reserve", "send"} => t.text \notin Slot
    /\ t.step = "send" => reserved[draft[t.id].thread] = t.id
    /\ t.step \in {"found", "mark"} => comments[draft[t.id].thread] # {}

MessageSound(m) ==
    /\ message[m].nonce # None =>
          /\ message[m].nonce \in given /\ message[m].text \in Texts
          /\ \A d \in Drafts : draft[d].nonce = message[m].nonce => draft[d].text = message[m].text
    /\ asked[m] # 0 => message[m].nonce # None /\ asked[m] = 1 /\ Spent(m)

DraftSound(d) ==
    /\ draft[d].nonce \in given \cup {None}
    /\ draft[d].status # "none" => draft[d].text \in Texts /\ draft[d].thread \in Threads
    /\ draft[d].status = "posted" => comments[draft[d].thread] # {}

ThreadSound(th) ==
    /\ \A c \in comments[th] : /\ c.text = message[c.tap].text /\ c.text \notin Slot
                               /\ message[c.tap].nonce # None
    /\ comments[th] # {} => reserved[th] # None

\* No two deliveries are in flight for one message.
OneFlight == \A g, h \in Handlers :
                (task[g].step \in InFlight /\ task[h].step \in InFlight /\ task[g].tap = task[h].tap) => g = h

\* A token is the token of one row.
OneToken == \A d, e \in Drafts : (draft[d].nonce = draft[e].nonce /\ draft[d].nonce # None) => d = e

IInv == /\ TypeOK
        /\ \A h \in Handlers : TaskSound(task[h])
        /\ \A m \in Messages : MessageSound(m)
        /\ \A d \in Drafts : DraftSound(d)
        /\ \A th \in Threads : ThreadSound(th)
        /\ OneFlight
        /\ OneToken

LEMMA ConstantTypes == NoDraft \in DraftRows /\ NoMessage \in Shown /\ Idle \in TaskRecords
  <1>1. NoDraft \in DraftRows
    BY DEF NoDraft, DraftRows, Statuses
  <1>2. NoMessage \in Shown
    BY DEF NoMessage, Shown
  <1>3. Idle \in TaskRecords
    BY DEF Idle, TaskRecords, Statuses
  <1> QED
    BY <1>1, <1>2, <1>3

LEMMA InitSound == Init => IInv
  <1> SUFFICES ASSUME Init PROVE IInv
    OBVIOUS
  <1>1. draft \in [Drafts -> DraftRows] /\ message \in [Messages -> Shown] /\ task \in [Handlers -> TaskRecords]
    BY ConstantTypes DEF Init
  <1>2. comments \in [Threads -> SUBSET CommentRecords] /\ reserved \in [Threads -> Drafts \cup {None}]
    BY DEF Init
  <1>3. asked \in [Messages -> 0..2]
    BY DEF Init
  <1>4. TypeOK
    BY <1>1, <1>2, <1>3 DEF Init, TypeOK, NoDraft
  <1>5. (\A h \in Handlers : TaskSound(task[h])) /\ OneFlight
    BY DEF Init, TaskSound, Idle, OneFlight, InFlight, Tapped
  <1>6. \A m \in Messages : MessageSound(m)
    BY DEF Init, MessageSound, NoMessage
  <1>7. \A d \in Drafts : DraftSound(d)
    BY DEF Init, DraftSound, NoDraft
  <1>8. \A th \in Threads : ThreadSound(th)
    BY DEF Init, ThreadSound
  <1>9. OneToken
    BY DEF Init, OneToken, NoDraft
  <1> QED
    BY <1>4, <1>5, <1>6, <1>7, <1>8, <1>9 DEF IInv

-----------------------------------------------------------------------------
(***************************************************************************)
(* What every step leaves standing                                         *)
(***************************************************************************)
RowGrows(old, new) ==
    /\ old.status # "none" => new.status # "none" /\ new.thread = old.thread
    /\ \/ new.nonce = old.nonce /\ new.text = old.text /\ (old.used => new.used)
       \/ new.nonce \in Nonces \ given

Grows == /\ \A d \in Drafts : RowGrows(draft[d], draft'[d])
         /\ \A d, e \in Drafts : d = e \/ draft'[d] = draft[d] \/ draft'[e] = draft[e]
         /\ given \subseteq given'
         /\ \A m \in Messages : message[m].nonce # None => message'[m] = message[m]
         /\ \A th \in Threads : comments[th] \subseteq comments'[th]
         /\ \A th \in Threads : reserved[th] # None => reserved'[th] = reserved[th]

LEMMA SpentStays ==
  ASSUME IInv, Grows, NEW m \in Messages, message[m].nonce # None, Spent(m)
  PROVE  Spent(m)'
  BY DEF IInv, Grows, RowGrows, Spent, MessageSound

LEMMA TaskStays ==
  ASSUME IInv, Grows, NEW t \in TaskRecords, TaskSound(t),
         t.step \in InFlight => asked'[t.tap] = asked[t.tap]
  PROVE  TaskSound(t)'
  <1>1. t.step # "idle" => t.id \in Drafts /\ draft'[t.id].status # "none" /\ draft'[t.id].thread = draft[t.id].thread
                           /\ draft[t.id].thread \in Threads
    BY DEF TaskSound, Grows, RowGrows, IInv, DraftSound
  <1>2. t.step = "offer" => /\ t.nonce \in given' /\ t.text \in Texts
                            /\ \A d \in Drafts : draft'[d].nonce = t.nonce => draft'[d].text = t.text
    BY DEF TaskSound, Grows, RowGrows
  <1>3. t.step \in Tapped => t.tap \in Messages /\ message'[t.tap] = message[t.tap] /\ message[t.tap].nonce # None
    BY DEF TaskSound, Grows
  <1>4. t.step \in InFlight => t.text = message'[t.tap].text /\ Spent(t.tap)' /\ asked'[t.tap] = 0
    BY <1>3, SpentStays DEF TaskSound, Tapped
  <1>5. t.step = "send" => reserved'[draft'[t.id].thread] = t.id
    <2> SUFFICES ASSUME t.step = "send" PROVE reserved'[draft'[t.id].thread] = t.id
      OBVIOUS
    <2>1. t.id # None /\ reserved[draft[t.id].thread] = t.id
      BY <1>1, OneTapAssumption DEF TaskSound
    <2> QED
      BY <1>1, <2>1 DEF Grows
  <1>6. t.step \in {"found", "mark"} => comments'[draft'[t.id].thread] # {}
    BY <1>1 DEF TaskSound, Grows
  <1> QED
    BY <1>1, <1>2, <1>3, <1>4, <1>5, <1>6 DEF TaskSound

LEMMA FlightStays ==
  ASSUME OneFlight, NEW h \in Handlers,
         \A g \in Handlers \ {h} : task'[g] = task[g],
         task'[h].step \in InFlight =>
            \A g \in Handlers \ {h} : task[g].step \in InFlight => task[g].tap # task'[h].tap
  PROVE  OneFlight'
  BY DEF OneFlight

\* M holds the delivery that takes the step, if a delivery takes it.
LEMMA StepSound ==
  ASSUME IInv, TypeOK', Grows, NEW M \in SUBSET Handlers,
         \A g \in Handlers \ M : task'[g] = task[g],
         \A h \in M : TaskSound(task[h])',
         OneFlight',
         \A m \in Messages : message'[m] = message[m] \/ MessageSound(m)',
         \A m \in Messages : \/ asked'[m] = asked[m]
                             \/ /\ MessageSound(m)'
                                /\ \A g \in Handlers \ M : task[g].step \in InFlight => task[g].tap # m,
         \A d \in Drafts : draft'[d] = draft[d] \/ DraftSound(d)',
         \A th \in Threads : comments'[th] = comments[th] \/ ThreadSound(th)'
  PROVE  IInv'
  <1>1. ASSUME NEW g \in Handlers PROVE TaskSound(task[g])'
    <2>1. CASE g \in M
      BY <2>1
    <2>2. CASE g \notin M
      <3>1. task[g] \in TaskRecords /\ TaskSound(task[g]) /\ task'[g] = task[g]
        BY <2>2 DEF IInv, TypeOK
      <3>2. task[g].step \in InFlight => asked'[task[g].tap] = asked[task[g].tap]
        BY <2>2, <3>1 DEF TaskSound, Tapped
      <3>3. PICK t \in TaskRecords : t = task[g]
        BY <3>1
      <3>4. TaskSound(t)'
        BY <3>1, <3>2, <3>3, TaskStays
      <3>5. task'[g] = t
        BY <3>1, <3>3
      <3> QED
        BY <3>4, <3>5 DEF TaskSound, Spent
    <2> QED
      BY <2>1, <2>2
  <1>2. ASSUME NEW m \in Messages PROVE MessageSound(m)'
    <2>1. CASE message'[m] = message[m] /\ asked'[m] = asked[m]
      <3>1. MessageSound(m)
        BY DEF IInv
      <3>2. asked[m] # 0 => Spent(m)'
        BY <3>1, SpentStays DEF MessageSound
      <3>3. message[m].nonce # None =>
               \A d \in Drafts : draft'[d].nonce = message[m].nonce => draft'[d].text = message[m].text
        BY <3>1 DEF MessageSound, Grows, RowGrows
      <3> QED
        BY <2>1, <3>1, <3>2, <3>3 DEF MessageSound, Grows
    <2> QED
      BY <2>1
  <1>3. ASSUME NEW d \in Drafts PROVE DraftSound(d)'
    <2>1. CASE draft'[d] = draft[d]
      <3>1. DraftSound(d) /\ draft[d] \in DraftRows
        BY DEF IInv, TypeOK
      <3> QED
        BY <2>1, <3>1 DEF DraftSound, Grows
    <2> QED
      BY <2>1
  <1>4. ASSUME NEW th \in Threads PROVE ThreadSound(th)'
    <2>1. CASE comments'[th] = comments[th]
      <3>1. ThreadSound(th) /\ comments[th] \subseteq CommentRecords
        BY DEF IInv, TypeOK
      <3>2. \A c \in comments[th] : c.tap \in Messages
        BY <3>1 DEF CommentRecords
      <3> QED
        BY <2>1, <3>1, <3>2 DEF ThreadSound, Grows
    <2> QED
      BY <2>1
  <1>5. OneToken'
    BY DEF IInv, OneToken, DraftSound, Grows, RowGrows
  <1> QED
    BY <1>1, <1>2, <1>3, <1>4, <1>5 DEF IInv

-----------------------------------------------------------------------------
(***************************************************************************)
(* The actions, one after the other                                        *)
(***************************************************************************)
LEMMA TaskMoves ==
  ASSUME TypeOK, NEW h \in Handlers, NEW r \in TaskRecords, task' = [task EXCEPT ![h] = r]
  PROVE  /\ task' \in [Handlers -> TaskRecords]
         /\ task'[h] = r
         /\ \A g \in Handlers \ {h} : task'[g] = task[g]
  BY DEF TypeOK

Steps == {"idle", "offer", "bind", "edit", "requeue", "preflight", "consume", "signin",
          "check", "reserve", "send", "recheck", "found", "mark", "fail", "block"}

LEMMA GotoMoves ==
  ASSUME TypeOK, NEW h \in Handlers, NEW step \in Steps, Goto(h, step)
  PROVE  /\ task' \in [Handlers -> TaskRecords]
         /\ \A g \in Handlers \ {h} : task'[g] = task[g]
         /\ task'[h].step = step /\ task'[h].id = task[h].id /\ task'[h].tap = task[h].tap
         /\ task'[h].text = task[h].text /\ task'[h].nonce = task[h].nonce
         /\ task'[h].version = task[h].version
  <1> DEFINE r == [task[h] EXCEPT !.step = step]
  <1>1. task[h] \in TaskRecords
    BY DEF TypeOK
  <1>2. r \in TaskRecords /\ r.step = step /\ r.id = task[h].id /\ r.tap = task[h].tap
        /\ r.text = task[h].text /\ r.nonce = task[h].nonce /\ r.version = task[h].version
    BY <1>1 DEF TaskRecords, Steps
  <1>3. task' = [task EXCEPT ![h] = r]
    BY DEF Goto, TypeOK
  <1> HIDE DEF r
  <1> QED
    BY <1>2, <1>3, TaskMoves

LEMMA DoneMoves ==
  ASSUME TypeOK, NEW h \in Handlers, Done(h)
  PROVE  /\ task' \in [Handlers -> TaskRecords]
         /\ \A g \in Handlers \ {h} : task'[g] = task[g]
         /\ task'[h] = Idle /\ task'[h].step = "idle"
  <1>1. Idle.step = "idle"
    BY DEF Idle
  <1> QED
    BY <1>1, ConstantTypes, TaskMoves DEF Done

LEMMA IdleSound == TaskSound(Idle) /\ TaskSound(Idle)'
  BY DEF TaskSound, Idle, InFlight, Tapped

\* A step that only moves its own delivery on.
LEMMA TaskOnly ==
  ASSUME IInv, NEW h \in Handlers, NEW step \in Steps \ {"offer", "bind", "edit"},
         task[h].step \notin {"idle", "offer", "bind", "edit"}, Goto(h, step),
         UNCHANGED <<draft, message, comments, given, asked>>,
         \A th \in Threads : reserved[th] # None => reserved'[th] = reserved[th],
         reserved' \in [Threads -> Drafts \cup {None}], window' \subseteq Threads,
         step \in Tapped => task[h].step \in Tapped /\ (step \in InFlight => task[h].step \in InFlight),
         step \in {"check", "reserve", "send"} => task[h].text \notin Slot,
         step = "send" => reserved'[draft[task[h].id].thread] = task[h].id,
         step \in {"found", "mark"} => comments[draft[task[h].id].thread] # {}
  PROVE  IInv'
  <1>1. TypeOK
    BY DEF IInv
  <1>2. /\ task' \in [Handlers -> TaskRecords]
        /\ \A g \in Handlers \ {h} : task'[g] = task[g]
        /\ task'[h].step = step /\ task'[h].id = task[h].id /\ task'[h].tap = task[h].tap
        /\ task'[h].text = task[h].text /\ task'[h].nonce = task[h].nonce
    BY <1>1, GotoMoves
  <1>3. TypeOK'
    BY <1>1, <1>2 DEF TypeOK
  <1>4. Grows
    BY DEF Grows, RowGrows
  <1>5. TaskSound(task[h])
    BY DEF IInv
  <1>6. TaskSound(task[h])'
    BY <1>2, <1>5 DEF TaskSound, Spent, Tapped, InFlight, Steps
  <1>7. step \in InFlight => \A g \in Handlers \ {h} : task[g].step \in InFlight => task[g].tap # task'[h].tap
    BY <1>2 DEF IInv, OneFlight, Tapped
  <1>8. OneFlight'
    BY <1>2, <1>7, FlightStays DEF IInv
  <1> DEFINE M == {h}
  <1>9. M \in SUBSET Handlers /\ (\A g \in Handlers \ M : task'[g] = task[g]) /\ \A g \in M : TaskSound(task[g])'
    BY <1>2, <1>6
  <1> HIDE DEF M
  <1> QED
    BY <1>3, <1>4, <1>8, <1>9, StepSound

\* A step that ends its delivery and writes one row of radar_drafts.
LEMMA RowOnly ==
  ASSUME IInv, NEW h \in Handlers, NEW d \in Drafts, NEW row \in DraftRows, NEW t \in TaskRecords,
         draft' = [draft EXCEPT ![d] = row], task' = [task EXCEPT ![h] = t],
         UNCHANGED <<reserved, message, comments, asked, window>>,
         given \subseteq given', given' \subseteq Nonces,
         RowGrows(draft[d], row), row.nonce \in given' \cup {None},
         row.status # "none" => row.nonce # None /\ row.text \in Texts /\ row.thread \in Threads,
         row.status = "posted" => comments[row.thread] # {},
         TaskSound(t)',
         t.step \in InFlight =>
            \A g \in Handlers \ {h} : task[g].step \in InFlight => task[g].tap # t.tap
  PROVE  IInv'
  <1>1. TypeOK
    BY DEF IInv
  <1>2. draft' \in [Drafts -> DraftRows] /\ draft'[d] = row /\ \A e \in Drafts \ {d} : draft'[e] = draft[e]
    BY <1>1 DEF TypeOK
  <1>3. task' \in [Handlers -> TaskRecords] /\ task'[h] = t /\ \A g \in Handlers \ {h} : task'[g] = task[g]
    BY <1>1, TaskMoves
  <1>4. TypeOK'
    BY <1>1, <1>2, <1>3 DEF TypeOK
  <1>5. Grows
    BY <1>2 DEF Grows, RowGrows
  <1>6. DraftSound(d)'
    BY <1>2 DEF DraftSound
  <1>7. TaskSound(task[h])'
    BY <1>3 DEF TaskSound, Spent
  <1>8. OneFlight'
    BY <1>3, FlightStays DEF IInv
  <1> DEFINE M == {h}
  <1>9. M \in SUBSET Handlers /\ (\A g \in Handlers \ M : task'[g] = task[g]) /\ \A g \in M : TaskSound(task[g])'
    BY <1>3, <1>7
  <1> HIDE DEF M
  <1> QED
    BY <1>2, <1>4, <1>5, <1>6, <1>8, <1>9, StepSound

\* A write to one row that no delivery's progress goes with.
LEMMA RowAlone ==
  ASSUME IInv, NEW d \in Drafts, NEW row \in DraftRows, draft' = [draft EXCEPT ![d] = row],
         UNCHANGED <<reserved, message, task, comments, given, asked, window>>,
         row.nonce = draft[d].nonce, row.text = draft[d].text, row.thread = draft[d].thread,
         draft[d].used => row.used, draft[d].status # "none", row.status # "none",
         row.status = "posted" => draft[d].status = "posted"
  PROVE  IInv'
  <1>1. draft' \in [Drafts -> DraftRows] /\ draft'[d] = row /\ \A e \in Drafts \ {d} : draft'[e] = draft[e]
    BY DEF IInv, TypeOK
  <1>2. TypeOK'
    BY <1>1 DEF IInv, TypeOK
  <1>3. Grows
    BY <1>1 DEF Grows, RowGrows
  <1>4. DraftSound(d)'
    BY <1>1 DEF IInv, DraftSound
  <1>5. OneFlight'
    BY DEF IInv, OneFlight
  <1> DEFINE M == {}
  <1>6. M \in SUBSET Handlers /\ (\A g \in Handlers \ M : task'[g] = task[g]) /\ \A g \in M : TaskSound(task[g])'
    OBVIOUS
  <1> HIDE DEF M
  <1> QED
    BY <1>1, <1>2, <1>3, <1>4, <1>5, <1>6, StepSound

\* The end of a delivery.
LEMMA DoneOnly ==
  ASSUME IInv, NEW h \in Handlers, Done(h),
         UNCHANGED <<draft, reserved, message, comments, asked, window>>,
         given \subseteq given', given' \subseteq Nonces
  PROVE  IInv'
  <1>1. /\ task' \in [Handlers -> TaskRecords]
        /\ \A g \in Handlers \ {h} : task'[g] = task[g]
        /\ task'[h] = Idle /\ task'[h].step = "idle"
    BY DoneMoves DEF IInv
  <1>2. TypeOK'
    BY <1>1 DEF IInv, TypeOK
  <1>3. Grows
    BY DEF Grows, RowGrows
  <1>4. TaskSound(task[h])'
    BY <1>1 DEF TaskSound, InFlight, Tapped
  <1>5. OneFlight'
    BY <1>1, FlightStays DEF IInv, InFlight
  <1> DEFINE M == {h}
  <1>6. M \in SUBSET Handlers /\ (\A g \in Handlers \ M : task'[g] = task[g]) /\ \A g \in M : TaskSound(task[g])'
    BY <1>1, <1>4
  <1> HIDE DEF M
  <1> QED
    BY <1>2, <1>3, <1>5, <1>6, StepSound

LEMMA OfferDraftSound ==
  ASSUME IInv, NEW h \in Handlers, NEW d \in Drafts, NEW th \in Threads, NEW text \in Texts,
         NEW n \in Nonces, OfferDraft(h, d, th, text, n)
  PROVE  IInv'
  <1> DEFINE row == [NoDraft EXCEPT !.thread = th, !.text = text, !.version = 1,
                                    !.status = "pending", !.nonce = n]
             t == [Idle EXCEPT !.step = "offer", !.id = d, !.text = text, !.version = 1, !.nonce = n]
  <1>1. row \in DraftRows /\ row.nonce = n /\ row.text = text /\ row.thread = th /\ row.status = "pending"
    BY ConstantTypes DEF NoDraft, DraftRows, Statuses, Tappable
  <1>2. t \in TaskRecords /\ t.step = "offer" /\ t.id = d /\ t.text = text /\ t.nonce = n
    BY ConstantTypes DEF Idle, TaskRecords
  <1>3. draft[d] = NoDraft /\ draft[d].status = "none"
    BY DEF OfferDraft, NoDraft
  <1>4. n \notin given /\ given' = given \cup {n}
    BY DEF OfferDraft, FreshNonce
  <1>5. draft' = [draft EXCEPT ![d] = row] /\ task' = [task EXCEPT ![h] = t]
        /\ UNCHANGED <<reserved, message, comments, asked, window>>
    BY DEF OfferDraft, Begin
  <1> HIDE DEF row, t
  <1>6. given \subseteq given' /\ given' \subseteq Nonces
    BY <1>4 DEF IInv, TypeOK
  <1>7. RowGrows(draft[d], row)
    BY <1>1, <1>3, <1>4 DEF RowGrows
  <1>8. draft'[d] = row /\ \A e \in Drafts \ {d} : draft'[e] = draft[e] /\ draft[e].nonce \in given \cup {None}
    BY <1>5 DEF IInv, TypeOK, DraftSound
  <1>9. TaskSound(t)'
    BY <1>1, <1>2, <1>4, <1>8, OneTapAssumption DEF TaskSound, InFlight, Tapped
  <1> QED
    BY <1>1, <1>2, <1>4, <1>5, <1>6, <1>7, <1>9, OneTapAssumption, RowOnly DEF InFlight

LEMMA SendOfferSound ==
  ASSUME IInv, NEW h \in Handlers, SendOffer(h)
  PROVE  IInv'
  <1>1. CASE Done(h) /\ UNCHANGED message
    <2>1. UNCHANGED <<draft, reserved, message, comments, given, asked, window>> /\ given \subseteq Nonces
      BY <1>1 DEF SendOffer, IInv, TypeOK
    <2> QED
      BY <1>1, <2>1, DoneOnly
  <1>2. ASSUME NEW m \in Messages, message[m] = NoMessage,
               message' = [message EXCEPT ![m] = [nonce |-> task[h].nonce, version |-> task[h].version,
                                                  text |-> task[h].text]],
               task' = [task EXCEPT ![h] = [Idle EXCEPT !.step = "bind", !.id = task[h].id, !.tap = m]]
        PROVE IInv'
    <2> DEFINE new == [nonce |-> task[h].nonce, version |-> task[h].version, text |-> task[h].text]
               t == [Idle EXCEPT !.step = "bind", !.id = task[h].id, !.tap = m]
               M == {h}
    <2>1. task[h] \in TaskRecords /\ TaskSound(task[h]) /\ task[h].step = "offer" /\ task[h].id \in Drafts
      BY DEF IInv, TypeOK, SendOffer, TaskSound
    <2>2. new \in Shown /\ new.nonce = task[h].nonce /\ new.text = task[h].text
      BY <2>1 DEF TaskRecords, Shown
    <2>3. t \in TaskRecords /\ t.step = "bind" /\ t.id = task[h].id /\ t.tap = m
      BY <2>1, ConstantTypes DEF Idle, TaskRecords
    <2> HIDE DEF new, t
    <2>4. UNCHANGED <<draft, reserved, comments, given, asked, window>>
      BY DEF SendOffer
    <2>5. message' \in [Messages -> Shown] /\ message'[m] = new
          /\ \A o \in Messages \ {m} : message'[o] = message[o]
      BY <1>2, <2>2 DEF IInv, TypeOK, new
    <2>6. task' \in [Handlers -> TaskRecords] /\ task'[h] = t /\ \A g \in Handlers \ {h} : task'[g] = task[g]
      BY <1>2, <2>3, TaskMoves DEF IInv, t
    <2>7. TypeOK'
      BY <2>4, <2>5, <2>6 DEF IInv, TypeOK
    <2>8. message[m].nonce = None /\ asked[m] = 0
      BY <1>2 DEF NoMessage, IInv, MessageSound
    <2>9. Grows
      BY <2>4, <2>5, <2>8 DEF Grows, RowGrows
    <2>10. TaskSound(task[h])'
      BY <2>1, <2>3, <2>4, <2>6 DEF TaskSound, InFlight, Tapped
    <2>11. MessageSound(m)'
      BY <2>1, <2>2, <2>4, <2>5, <2>8 DEF TaskSound, MessageSound
    <2>12. OneFlight'
      BY <2>3, <2>6, FlightStays DEF IInv, InFlight
    <2>13. M \in SUBSET Handlers /\ (\A g \in Handlers \ M : task'[g] = task[g]) /\ \A g \in M : TaskSound(task[g])'
      BY <2>6, <2>10
    <2> HIDE DEF M
    <2> QED
      BY <2>4, <2>5, <2>7, <2>9, <2>11, <2>12, <2>13, StepSound
  <1> QED
    BY <1>1, <1>2 DEF SendOffer

\* A row keeps its words and its token through a change of status or message.
LEMMA RowKept ==
  ASSUME IInv, NEW d \in Drafts, draft[d].status # "none", NEW row \in DraftRows,
         row.thread = draft[d].thread, row.text = draft[d].text, row.nonce = draft[d].nonce,
         draft[d].used => row.used, row.status # "none"
  PROVE  /\ RowGrows(draft[d], row) /\ row.nonce \in given \cup {None}
         /\ row.nonce # None /\ row.text \in Texts /\ row.thread \in Threads
  BY DEF RowGrows, IInv, TypeOK, DraftSound

LEMMA BindMessageSound ==
  ASSUME IInv, NEW h \in Handlers, BindMessage(h)
  PROVE  IInv'
  <1> DEFINE d == task[h].id
             row == [draft[d] EXCEPT !.message = task[h].tap]
  <1>1. d \in Drafts /\ draft[d].status # "none" /\ task[h].tap \in Messages
    BY DEF IInv, BindMessage, TaskSound
  <1>2. draft[d] \in DraftRows
    BY <1>1 DEF IInv, TypeOK
  <1>3. row \in DraftRows /\ row.thread = draft[d].thread /\ row.text = draft[d].text /\ row.nonce = draft[d].nonce
        /\ row.used = draft[d].used /\ row.status = draft[d].status
    BY <1>1, <1>2 DEF DraftRows
  <1>4. draft' = [draft EXCEPT ![d] = row] /\ task' = [task EXCEPT ![h] = Idle]
        /\ UNCHANGED <<reserved, message, comments, given, asked, window>>
    BY DEF BindMessage, Done, IInv, TypeOK
  <1> HIDE DEF d, row
  <1>5. RowGrows(draft[d], row) /\ row.nonce \in given \cup {None} /\ row.nonce # None
        /\ row.text \in Texts /\ row.thread \in Threads
    BY <1>1, <1>3, RowKept
  <1>6. row.status = "posted" => comments[row.thread] # {}
    BY <1>1, <1>3 DEF IInv, DraftSound
  <1>7. given \subseteq Nonces /\ Idle.step = "idle"
    BY DEF IInv, TypeOK, Idle
  <1> QED
    BY <1>1, <1>3, <1>4, <1>5, <1>6, <1>7, ConstantTypes, IdleSound, RowOnly DEF InFlight

LEMMA ReofferSound ==
  ASSUME IInv, NEW h \in Handlers, NEW n \in Nonces, Reoffer(h, n)
  PROVE  IInv'
  <1> DEFINE d == task[h].id
             text == IF task[h].step = "edit" THEN task[h].text ELSE draft[d].text
             status == IF task[h].step = "edit" THEN "edited" ELSE "reconcile"
             version == task[h].version + 1
             row == [draft[d] EXCEPT !.text = text, !.status = status, !.version = version, !.nonce = n,
                                     !.used = FALSE, !.expired = FALSE]
             t == [Idle EXCEPT !.step = "offer", !.id = d, !.text = text, !.version = version, !.nonce = n]
  <1>1. d \in Drafts /\ draft[d].status # "none" /\ (task[h].step = "edit" => task[h].text \in Texts)
        /\ task[h].version \in Nat
    BY DEF IInv, TypeOK, TaskRecords, Reoffer, TaskSound
  <1>2. n \notin given /\ given' = given \cup {n} /\ n # None
    BY OneTapAssumption DEF Reoffer, FreshNonce
  <1>3. given \subseteq given' /\ given' \subseteq Nonces
    BY <1>2 DEF IInv, TypeOK
  <1>4. UNCHANGED <<reserved, message, comments, asked, window>>
    BY DEF Reoffer
  <1>5. CASE draft[d].status \in Terminal
    <2>1. Done(h) /\ UNCHANGED draft
      BY <1>5 DEF Reoffer
    <2> QED
      BY <1>3, <1>4, <2>1, DoneOnly
  <1>6. CASE draft[d].status \notin Terminal
    <2>1. draft[d] \in DraftRows /\ draft[d].text \in Texts /\ draft[d].thread \in Threads
      BY <1>1 DEF IInv, TypeOK, DraftSound
    <2>2. text \in Texts /\ status \in {"edited", "reconcile"} /\ version \in Nat
      BY <1>1, <2>1
    <2>3. row.text = text /\ row.version = version /\ row.nonce = n
      BY <2>1 DEF DraftRows
    <2>4. draft' = [draft EXCEPT ![d] = row]
      BY <1>6 DEF Reoffer, Rotated
    <2>5. task' = [task EXCEPT ![h] = t]
      BY <1>6, <2>3 DEF Reoffer, Rotated
    <2> HIDE DEF text, status, version
    <2>6. row \in DraftRows /\ row.thread = draft[d].thread /\ row.text = text /\ row.nonce = n /\ row.status = status
      BY <2>1, <2>2 DEF DraftRows, Statuses, Tappable
    <2>7. t \in TaskRecords /\ t.step = "offer" /\ t.id = d /\ t.text = text /\ t.nonce = n
      BY <1>1, <2>2, ConstantTypes DEF Idle, TaskRecords
    <2>8. PICK r \in TaskRecords : r = t
      BY <2>7
    <2>9. task' = [task EXCEPT ![h] = r] /\ r.step = "offer" /\ r.id = d /\ r.text = text /\ r.nonce = n
      BY <2>5, <2>7, <2>8
    <2> HIDE DEF row, t, d
    <2>10. RowGrows(draft[d], row)
      BY <1>2, <2>2, <2>6 DEF RowGrows
    <2>11. draft'[d] = row /\ \A e \in Drafts \ {d} : draft'[e] = draft[e] /\ draft[e].nonce \in given \cup {None}
      BY <1>1, <2>4 DEF IInv, TypeOK, DraftSound
    <2>12. TaskSound(r)'
      BY <1>1, <1>2, <2>2, <2>6, <2>9, <2>11 DEF TaskSound, InFlight, Tapped
    <2> QED
      BY <1>1, <1>2, <1>3, <1>4, <2>1, <2>2, <2>4, <2>6, <2>9, <2>10, <2>12, RowOnly DEF InFlight
  <1> QED
    BY <1>5, <1>6

LEMMA TapSkipSound ==
  ASSUME IInv, NEW d \in Drafts, NEW m \in Messages, TapSkip(d, m)
  PROVE  IInv'
  <1> DEFINE row == [draft[d] EXCEPT !.used = TRUE, !.status = "skipped"]
  <1>1. draft[d] \in DraftRows /\ draft[d].status # "none"
    BY DEF IInv, TypeOK, TapSkip, Live, Tappable
  <1>2. row \in DraftRows /\ row.nonce = draft[d].nonce /\ row.text = draft[d].text
        /\ row.thread = draft[d].thread /\ row.used /\ row.status = "skipped"
    BY <1>1 DEF DraftRows, Statuses, Terminal
  <1>3. draft' = [draft EXCEPT ![d] = row] /\ UNCHANGED <<reserved, message, task, comments, given, asked, window>>
    BY <1>1 DEF TapSkip, IInv, TypeOK
  <1> HIDE DEF row
  <1> QED
    BY <1>1, <1>2, <1>3, RowAlone

LEMMA ExpireSound ==
  ASSUME IInv, NEW d \in Drafts, Expire(d)
  PROVE  IInv'
  <1> DEFINE row == [draft[d] EXCEPT !.expired = TRUE]
  <1>1. draft[d] \in DraftRows
    BY DEF IInv, TypeOK
  <1>2. row \in DraftRows /\ row.nonce = draft[d].nonce /\ row.text = draft[d].text
        /\ row.thread = draft[d].thread /\ row.used = draft[d].used /\ row.status = draft[d].status
    BY <1>1 DEF DraftRows
  <1>3. draft' = [draft EXCEPT ![d] = row] /\ UNCHANGED <<reserved, message, task, comments, given, asked, window>>
    BY <1>1 DEF Expire, IInv, TypeOK
  <1>4. draft[d].status # "none"
    BY DEF Expire
  <1> HIDE DEF row
  <1> QED
    BY <1>2, <1>3, <1>4, RowAlone

\* A delivery that starts, and has only read.
LEMMA BeginOnly ==
  ASSUME IInv, NEW h \in Handlers, NEW t \in TaskRecords, task' = [task EXCEPT ![h] = t],
         UNCHANGED <<draft, reserved, message, comments, given, asked, window>>,
         TaskSound(t), t.step \notin InFlight
  PROVE  IInv'
  <1>1. task' \in [Handlers -> TaskRecords] /\ task'[h] = t /\ \A g \in Handlers \ {h} : task'[g] = task[g]
    BY TaskMoves DEF IInv
  <1>2. TypeOK'
    BY <1>1 DEF IInv, TypeOK
  <1>3. Grows
    BY DEF Grows, RowGrows
  <1>4. TaskSound(task[h])'
    BY <1>1 DEF TaskSound, Spent
  <1>5. OneFlight'
    BY <1>1, FlightStays DEF IInv
  <1> DEFINE M == {h}
  <1>6. M \in SUBSET Handlers /\ (\A g \in Handlers \ M : task'[g] = task[g]) /\ \A g \in M : TaskSound(task[g])'
    BY <1>1, <1>4
  <1> HIDE DEF M
  <1> QED
    BY <1>2, <1>3, <1>5, <1>6, StepSound

LEMMA TapPostSound ==
  ASSUME IInv, NEW h \in Handlers, NEW d \in Drafts, NEW m \in Messages, TapPost(h, d, m)
  PROVE  IInv'
  <1>1. draft[d] \in DraftRows /\ (draft[d].status # "none" => draft[d].nonce # None) /\ MessageSound(m)
        /\ message[m] \in Shown
    BY DEF IInv, TypeOK
  <1>2. PICK t \in TaskRecords : t = [Idle EXCEPT !.step = "preflight", !.id = d, !.tap = m, !.prior = draft[d].status]
    BY <1>1, ConstantTypes DEF Idle, TaskRecords, DraftRows
  <1>3. t.step = "preflight" /\ t.id = d /\ t.tap = m
    BY <1>2 DEF Idle
  <1>4. task' = [task EXCEPT ![h] = t] /\ UNCHANGED <<draft, reserved, message, comments, given, asked, window>>
    BY <1>2 DEF TapPost, Begin
  <1>5. message[m].nonce # None /\ draft[d].status # "none"
    BY DEF TapPost, Offered, NotStale
  <1>6. TaskSound(t)
    BY <1>3, <1>5 DEF TaskSound, InFlight, Tapped
  <1> QED
    BY <1>3, <1>4, <1>6, BeginOnly DEF InFlight

LEMMA ReplyEditSound ==
  ASSUME IInv, NEW h \in Handlers, NEW d \in Drafts, NEW m \in Messages, NEW text \in Texts,
         ReplyEdit(h, d, m, text)
  PROVE  IInv'
  <1>1. draft[d] \in DraftRows
    BY DEF IInv, TypeOK
  <1>2. PICK t \in TaskRecords :
          t = [Idle EXCEPT !.step = "edit", !.id = d, !.text = text, !.version = draft[d].version]
    BY <1>1, ConstantTypes DEF Idle, TaskRecords, DraftRows
  <1>3. t.step = "edit" /\ t.id = d /\ t.text = text
    BY <1>2 DEF Idle
  <1>4. task' = [task EXCEPT ![h] = t] /\ UNCHANGED <<draft, reserved, message, comments, given, asked, window>>
    BY <1>2 DEF ReplyEdit, Begin
  <1>5. draft[d].status # "none"
    BY DEF ReplyEdit
  <1>6. TaskSound(t)
    BY <1>3, <1>5 DEF TaskSound, InFlight, Tapped
  <1> QED
    BY <1>3, <1>4, <1>6, BeginOnly DEF InFlight

\* The gate hands on the words of the row, which are the words of the message,
\* and no button speaks for the row's token twice.
LEMMA ConsumeSound ==
  ASSUME IInv, NEW h \in Handlers, Consume(h)
  PROVE  IInv'
  <1> DEFINE d == task[h].id
             m == task[h].tap
  <1>1. task[h] \in TaskRecords /\ d \in Drafts /\ draft[d].status # "none" /\ m \in Messages
        /\ message[m].nonce # None
    BY DEF IInv, TypeOK, Consume, TaskSound, Tapped
  <1>2. UNCHANGED <<reserved, message, comments, given, asked, window>> /\ given \subseteq Nonces
    BY DEF Consume, IInv, TypeOK
  <1>3. CASE ~Live(d, m)
    <2>1. Done(h) /\ UNCHANGED draft
      BY <1>3 DEF Consume
    <2> QED
      BY <1>2, <2>1, DoneOnly
  <1>4. CASE Live(d, m)
    <2>1. draft[d] \in DraftRows /\ MessageSound(m) /\ DraftSound(d)
      BY <1>1 DEF IInv, TypeOK
    <2>2. draft[d].nonce = message[m].nonce /\ ~draft[d].used /\ draft[d].text = message[m].text
          /\ draft[d].text \in Texts /\ asked[m] = 0
      BY <1>1, <1>4, <2>1 DEF Live, MessageSound, Spent, IInv, TypeOK
    <2>3. PICK row \in DraftRows : row = [draft[d] EXCEPT !.used = TRUE, !.status = "posting"]
      BY <2>1 DEF DraftRows, Statuses
    <2>4. row.nonce = draft[d].nonce /\ row.text = draft[d].text /\ row.thread = draft[d].thread
          /\ row.used /\ row.status = "posting"
      BY <2>1, <2>3 DEF DraftRows
    <2>5. PICK t \in TaskRecords : t = [task[h] EXCEPT !.step = "signin", !.text = draft[d].text,
                                                      !.version = draft[d].version]
      BY <1>1, <2>1 DEF TaskRecords, DraftRows
    <2>6. t.step = "signin" /\ t.text = draft[d].text /\ t.id = d /\ t.tap = m
      BY <1>1, <2>5 DEF TaskRecords
    <2>7. draft' = [draft EXCEPT ![d] = row] /\ task' = [task EXCEPT ![h] = t]
      BY <1>1, <1>4, <2>3, <2>5 DEF Consume, IInv, TypeOK
    <2>8. PICK e \in Drafts, o \in Messages : e = d /\ o = m
      BY <1>1
    <2> HIDE DEF d, m
    <2>9. RowGrows(draft[e], row) /\ row.nonce \in given \cup {None} /\ row.nonce # None
          /\ row.text \in Texts /\ row.thread \in Threads
      BY <1>1, <2>4, <2>8, RowKept
    <2>10. draft'[e] = row /\ draft' \in [Drafts -> DraftRows] /\ \A c \in Drafts \ {e} : draft'[c] = draft[c]
      BY <2>7, <2>8 DEF IInv, TypeOK
    <2>11. \A c \in Drafts \ {e} : draft[c].nonce = message[o].nonce => draft[c].used
      BY <1>1, <2>2, <2>8 DEF IInv, OneToken
    <2>12. TaskSound(t)'
      BY <1>1, <1>2, <2>2, <2>4, <2>6, <2>8, <2>10, <2>11 DEF TaskSound, Spent, Tapped, InFlight
    <2>13. ASSUME NEW g \in Handlers \ {h}, task[g].step \in InFlight PROVE task[g].tap # t.tap
      <3>1. TaskSound(task[g])
        BY DEF IInv
      <3>2. Spent(task[g].tap)
        BY <2>13, <3>1 DEF TaskSound
      <3> QED
        BY <2>2, <2>6, <2>8, <3>2 DEF Spent
    <2> QED
      BY <1>2, <2>4, <2>7, <2>8, <2>9, <2>12, <2>13, RowOnly
  <1> QED
    BY <1>3, <1>4

\* The progress of a tap that leaves every table as it is.
LEMMA PreflightSound ==
  ASSUME IInv, NEW h \in Handlers, Preflight(h)
  PROVE  IInv'
  <1>1. UNCHANGED <<draft, reserved, message, comments, given, asked, window>> /\ given \subseteq Nonces
        /\ window \subseteq Threads /\ reserved \in [Threads -> Drafts \cup {None}]
    BY DEF Preflight, IInv, TypeOK
  <1>2. CASE Done(h)
    BY <1>1, <1>2, DoneOnly
  <1>3. CASE Goto(h, "consume")
    BY <1>1, <1>3, TaskOnly DEF Preflight, Steps, Tapped, InFlight
  <1> QED
    BY <1>2, <1>3 DEF Preflight

LEMMA LookingSound ==
  ASSUME IInv, NEW h \in Handlers, SignIn(h) \/ CheckBefore(h) \/ CheckAfter(h)
  PROVE  IInv'
  <1>1. UNCHANGED <<draft, reserved, message, comments, given, asked, window>>
        /\ window \subseteq Threads /\ reserved \in [Threads -> Drafts \cup {None}]
    BY DEF SignIn, CheckBefore, CheckAfter, IInv, TypeOK
  <1>2. TaskSound(task[h])
    BY DEF IInv
  <1>3. CASE SignIn(h)
    <2>1. CASE Goto(h, "fail")
      BY <1>1, <1>3, <2>1, TaskOnly DEF SignIn, Steps, Tapped, InFlight
    <2>2. CASE Sendable(task[h].text) /\ Goto(h, "check")
      BY <1>1, <1>3, <2>2, TaskOnly DEF SignIn, Sendable, Steps, Tapped, InFlight
    <2>3. CASE Sendable(task[h].text) /\ Goto(h, "reserve")
      BY <1>1, <1>3, <2>3, TaskOnly DEF SignIn, Sendable, Steps, Tapped, InFlight
    <2> QED
      BY <1>3, <2>1, <2>2, <2>3 DEF SignIn
  <1>4. CASE CheckBefore(h)
    <2>1. CASE Goto(h, "found") /\ Found(h)
      BY <1>1, <1>4, <2>1, TaskOnly DEF CheckBefore, Found, Steps, Tapped, InFlight
    <2>2. CASE Goto(h, "reserve")
      BY <1>1, <1>2, <1>4, <2>2, TaskOnly DEF CheckBefore, TaskSound, Steps, Tapped, InFlight
    <2>3. CASE Goto(h, "block")
      BY <1>1, <1>4, <2>3, TaskOnly DEF CheckBefore, Steps, Tapped, InFlight
    <2> QED
      BY <1>4, <2>1, <2>2, <2>3 DEF CheckBefore
  <1>5. CASE CheckAfter(h)
    <2>1. CASE Goto(h, "found") /\ Found(h)
      BY <1>1, <1>5, <2>1, TaskOnly DEF CheckAfter, Found, Steps, Tapped, InFlight
    <2>2. CASE Goto(h, "block")
      BY <1>1, <1>5, <2>2, TaskOnly DEF CheckAfter, Steps, Tapped, InFlight
    <2> QED
      BY <1>5, <2>1, <2>2 DEF CheckAfter
  <1> QED
    BY <1>3, <1>4, <1>5

\* The comment may only be sent when the thread is this draft's, before or now.
LEMMA ReserveSound ==
  ASSUME IInv, NEW h \in Handlers, Reserve(h)
  PROVE  IInv'
  <1> DEFINE d == task[h].id
             th == draft[d].thread
  <1>1. d \in Drafts /\ th \in Threads /\ task[h].step = "reserve" /\ task[h].text \notin Slot /\ d # None
    BY OneTapAssumption DEF IInv, Reserve, TaskSound, DraftSound
  <1>2. reserved \in [Threads -> Drafts \cup {None}] /\ window \subseteq Threads
        /\ UNCHANGED <<draft, message, comments, given, asked>>
    BY DEF IInv, TypeOK, Reserve
  <1>3. CASE UNCHANGED <<reserved, window>> /\ Goto(h, "fail")
    BY <1>1, <1>2, <1>3, TaskOnly DEF Steps, Tapped, InFlight
  <1>4. CASE ThreadFree(th, d) /\ reserved[th] # None /\ UNCHANGED <<reserved, window>> /\ Goto(h, "send")
    <2>1. reserved[th] = d
      BY <1>4 DEF ThreadFree
    <2> QED
      BY <1>1, <1>2, <1>4, <2>1, TaskOnly DEF Steps, Tapped, InFlight
  <1>5. CASE /\ reserved[th] = None /\ reserved' = [reserved EXCEPT ![th] = d] /\ window' = window \cup {th}
             /\ Goto(h, "send") \/ Goto(h, "fail")
    <2>1. reserved' \in [Threads -> Drafts \cup {None}] /\ reserved'[th] = d /\ window' \subseteq Threads
          /\ \A x \in Threads : reserved[x] # None => reserved'[x] = reserved[x]
      BY <1>1, <1>2, <1>5
    <2>2. CASE Goto(h, "send")
      BY <1>1, <1>2, <2>1, <2>2, TaskOnly DEF Steps, Tapped, InFlight
    <2>3. CASE Goto(h, "fail")
      BY <1>1, <1>2, <2>1, <2>3, TaskOnly DEF Steps, Tapped, InFlight
    <2> QED
      BY <1>5, <2>2, <2>3
  <1> QED
    BY <1>3, <1>4, <1>5 DEF Reserve

LEMMA SettleSound ==
  ASSUME IInv, NEW h \in Handlers, MarkPosted(h) \/ MarkFailed(h) \/ MarkReconcile(h)
  PROVE  IInv'
  <1> DEFINE d == task[h].id
             end == [Idle EXCEPT !.step = "requeue", !.id = d, !.version = task[h].version]
             fail == [task[h] EXCEPT !.step = "fail"]
  <1>1. d \in Drafts /\ draft[d].status # "none" /\ task[h] \in TaskRecords
        /\ (task[h].step \in {"found", "mark"} => comments[draft[d].thread] # {})
    BY DEF IInv, TypeOK, MarkPosted, MarkFailed, MarkReconcile, TaskSound
  <1>2. draft[d] \in DraftRows /\ DraftSound(d)
    BY <1>1 DEF IInv, TypeOK
  <1>3. PICK status \in {"posted", "failed", "reconcile"} :
            /\ draft' = WithStatus(d, status) \/ UNCHANGED draft
            /\ status = "posted" => task[h].step \in {"found", "mark"}
    BY DEF MarkPosted, MarkFailed, MarkReconcile
  <1>4. /\ end \in TaskRecords /\ end.step = "requeue" /\ end.id = d
        /\ fail \in TaskRecords /\ fail.step = "fail" /\ fail.id = d
    BY <1>1, ConstantTypes DEF Idle, TaskRecords
  <1>5. PICK t \in {Idle, end, fail} : task' = [task EXCEPT ![h] = t]
    <2>1. Goto(h, "fail") => task' = [task EXCEPT ![h] = fail]
      BY DEF Goto, IInv, TypeOK
    <2> HIDE DEF fail
    <2> QED
      BY <2>1 DEF MarkPosted, MarkFailed, MarkReconcile, Done
  <1>6. t \in TaskRecords /\ t.step \in {"idle", "requeue", "fail"} /\ (t.step # "idle" => t.id = d)
    <2>1. Idle \in TaskRecords /\ Idle.step = "idle"
      BY ConstantTypes DEF Idle
    <2> HIDE DEF end, fail
    <2> QED
      BY <1>4, <1>5, <2>1
  <1>7. PICK row \in DraftRows : IF draft' = draft \/ draft[d].status \in Terminal
                                   THEN row = draft[d]
                                   ELSE row = [draft[d] EXCEPT !.status = status]
    BY <1>2 DEF DraftRows, Statuses, Terminal, Tappable
  <1>8. row.thread = draft[d].thread /\ row.text = draft[d].text /\ row.nonce = draft[d].nonce
        /\ row.used = draft[d].used /\ (row.status = status \/ row.status = draft[d].status)
    BY <1>2, <1>7 DEF DraftRows
  <1>9. draft' = [draft EXCEPT ![d] = row]
    <2>1. draft = [draft EXCEPT ![d] = draft[d]]
      BY <1>1 DEF IInv, TypeOK
    <2> QED
      BY <1>3, <1>7, <2>1 DEF WithStatus
  <1>10. PICK e \in Drafts : e = d
    BY <1>1
  <1>11. UNCHANGED <<reserved, message, comments, given, asked, window>> /\ given \subseteq Nonces
    BY DEF MarkPosted, MarkFailed, MarkReconcile, IInv, TypeOK
  <1> HIDE DEF d, end, fail
  <1>12. row.status # "none" /\ (row.status = "posted" => comments[row.thread] # {})
    BY <1>1, <1>2, <1>3, <1>8 DEF DraftSound
  <1>13. RowGrows(draft[e], row) /\ row.nonce \in given \cup {None} /\ row.nonce # None
         /\ row.text \in Texts /\ row.thread \in Threads
    BY <1>1, <1>8, <1>10, <1>12, RowKept
  <1>14. draft'[e] = row
    BY <1>9, <1>10 DEF IInv, TypeOK
  <1>15. TaskSound(t)'
    BY <1>6, <1>10, <1>12, <1>14 DEF TaskSound, Tapped, InFlight
  <1> QED
    BY <1>5, <1>6, <1>9, <1>10, <1>11, <1>12, <1>13, <1>15, RowOnly DEF InFlight

LEMMA CrashSound ==
  ASSUME IInv, NEW h \in Handlers, Crash(h)
  PROVE  IInv'
  <1>1. given \subseteq Nonces
    BY DEF IInv, TypeOK
  <1> QED
    BY <1>1, DoneOnly DEF Crash

LEMMA DayPassesSound ==
  ASSUME IInv, NEW th \in Threads, DayPasses(th)
  PROVE  IInv'
  <1>1. TypeOK' /\ OneFlight'
    BY DEF IInv, TypeOK, DayPasses, OneFlight
  <1>2. Grows
    BY DEF DayPasses, Grows, RowGrows
  <1> DEFINE M == {}
  <1>3. M \in SUBSET Handlers /\ (\A g \in Handlers \ M : task'[g] = task[g]) /\ \A g \in M : TaskSound(task[g])'
    BY DEF DayPasses
  <1> HIDE DEF M
  <1> QED
    BY <1>1, <1>2, <1>3, StepSound DEF DayPasses

\* The request: one tap's, in the words of its message, on its draft's thread.
LEMMA PostCommentSound ==
  ASSUME IInv, NEW h \in Handlers, PostComment(h)
  PROVE  IInv'
  <1> DEFINE d == task[h].id
             m == task[h].tap
             th == draft[d].thread
             new == [text |-> task[h].text, tap |-> m]
             M == {h}
  <1>1. task[h] \in TaskRecords /\ TaskSound(task[h]) /\ task[h].step = "send" /\ TypeOK
    BY DEF IInv, TypeOK, PostComment
  <1>2. /\ d \in Drafts /\ m \in Messages /\ message[m].nonce # None /\ draft[d].status # "none"
        /\ task[h].text = message[m].text /\ task[h].text \notin Slot /\ Spent(m) /\ asked[m] = 0
        /\ reserved[th] = d /\ d # None
    BY <1>1, OneTapAssumption DEF TaskSound, Tapped, InFlight
  <1>3. th \in Threads /\ task[h].text \in Texts
    BY <1>2 DEF IInv, DraftSound, MessageSound
  <1>4. new \in CommentRecords /\ new.text = task[h].text /\ new.tap = m
    BY <1>2, <1>3 DEF CommentRecords
  <1>5. PICK step \in {"mark", "fail", "recheck"} :
            Goto(h, step) /\ (comments' = comments \/ Land(h)) /\ (step = "mark" => Land(h))
    BY DEF PostComment, Ambiguous
  <1>6. /\ task' \in [Handlers -> TaskRecords]
        /\ \A g \in Handlers \ {h} : task'[g] = task[g]
        /\ task'[h].step = step /\ task'[h].id = d
    BY <1>1, <1>5, GotoMoves DEF Steps
  <1>7. UNCHANGED <<draft, reserved, message, given, window>>
    BY DEF PostComment
  <1>8. asked' \in [Messages -> 0..2] /\ asked'[m] = 1 /\ \A o \in Messages \ {m} : asked'[o] = asked[o]
    BY <1>1, <1>2 DEF PostComment, TypeOK
  <1>9. /\ comments' \in [Threads -> SUBSET CommentRecords]
        /\ \A x \in Threads \ {th} : comments'[x] = comments[x]
        /\ comments'[th] \in {comments[th], comments[th] \cup {new}}
        /\ step = "mark" => new \in comments'[th]
    <2>1. comments \in [Threads -> SUBSET CommentRecords]
      BY <1>1 DEF TypeOK
    <2>2. CASE comments' = comments
      BY <2>1, <2>2, <1>3, <1>5 DEF Land
    <2>3. CASE Land(h)
      <3>1. comments' = [comments EXCEPT ![th] = comments[th] \cup {new}]
        BY <2>3 DEF Land
      <3> HIDE DEF new, th
      <3> QED
        BY <2>1, <3>1, <1>3, <1>4
    <2> QED
      BY <1>5, <2>2, <2>3
  <1> HIDE DEF new
  <1>10. TypeOK'
    BY <1>1, <1>6, <1>7, <1>8, <1>9 DEF TypeOK
  <1>11. Grows
    BY <1>3, <1>7, <1>9 DEF Grows, RowGrows
  <1>12. TaskSound(task[h])'
    BY <1>2, <1>5, <1>6, <1>7, <1>9 DEF TaskSound, Tapped, InFlight
  <1>13. OneFlight'
    BY <1>5, <1>6, FlightStays DEF IInv, InFlight
  <1>14. M \in SUBSET Handlers /\ (\A g \in Handlers \ M : task'[g] = task[g]) /\ \A g \in M : TaskSound(task[g])'
    BY <1>6, <1>12
  <1>15. ASSUME NEW o \in Messages, asked'[o] # asked[o] PROVE
           MessageSound(o)' /\ \A g \in Handlers \ M : task[g].step \in InFlight => task[g].tap # o
    <2>1. o = m
      BY <1>8, <1>15
    <2>2. MessageSound(m)
      BY <1>2 DEF IInv
    <2>3. MessageSound(o)'
      BY <1>2, <1>7, <1>8, <2>1, <2>2 DEF MessageSound, Spent
    <2>4. \A g \in Handlers \ {h} : task[g].step \in InFlight => task[g].tap # m
      BY <1>1 DEF IInv, OneFlight, InFlight
    <2> QED
      BY <2>1, <2>3, <2>4
  <1>16. ASSUME NEW x \in Threads, comments'[x] # comments[x] PROVE ThreadSound(x)'
    <2>1. x = th /\ comments'[x] = comments[x] \cup {new} /\ ThreadSound(th)
      BY <1>3, <1>9, <1>16 DEF IInv
    <2> QED
      BY <1>2, <1>4, <1>7, <2>1 DEF ThreadSound
  <1> HIDE DEF M
  <1> QED
    BY <1>7, <1>10, <1>11, <1>13, <1>14, <1>15, <1>16, StepSound

LEMMA StepsSound == IInv /\ [Next]_vars => IInv'
  <1> SUFFICES ASSUME IInv, [Next]_vars PROVE IInv'
    OBVIOUS
  <1>1. ASSUME NEW h \in Handlers, Offering(h) PROVE IInv'
    BY <1>1, OfferDraftSound, SendOfferSound, BindMessageSound, ReofferSound DEF Offering
  <1>2. ASSUME NEW h \in Handlers, Posting(h) PROVE IInv'
    BY <1>2, PreflightSound, ConsumeSound, LookingSound, ReserveSound, PostCommentSound, SettleSound DEF Posting
  <1>3. ASSUME NEW h \in Handlers, Founder(h) PROVE IInv'
    BY <1>3, TapPostSound, ReplyEditSound DEF Founder
  <1>4. CASE UNCHANGED vars
    <2>1. UNCHANGED <<draft, reserved, message, task, comments, given, asked, window>>
      BY <1>4 DEF vars
    <2>2. TypeOK' /\ OneFlight' /\ OneToken'
      BY <2>1 DEF IInv, TypeOK, OneFlight, OneToken
    <2>3. ASSUME NEW h \in Handlers PROVE TaskSound(task[h])'
      BY <2>1 DEF IInv, TaskSound, Spent
    <2>4. ASSUME NEW m \in Messages PROVE MessageSound(m)'
      BY <2>1 DEF IInv, MessageSound, Spent
    <2>5. (\A d \in Drafts : DraftSound(d)') /\ (\A th \in Threads : ThreadSound(th)')
      BY <2>1 DEF IInv, DraftSound, ThreadSound
    <2> QED
      BY <2>2, <2>3, <2>4, <2>5 DEF IInv
  <1> QED
    BY <1>1, <1>2, <1>3, <1>4, CrashSound, TapSkipSound, ExpireSound, DayPassesSound DEF Next

\* The inductive invariant, for any number of drafts, messages and overlapping
\* deliveries.
THEOREM OneTapInvariant == Spec => []IInv
  BY InitSound, StepsSound, PTL DEF Spec

\* Every reachable state is well typed, and every draft offered has a token.
THEOREM TypeCorrect == Spec => []TypeOK
  <1>1. IInv => TypeOK
    BY DEF IInv
  <1> QED
    BY <1>1, OneTapInvariant, PTL

\* Nothing is posted that the tapped message did not show, whatever edits,
\* re-offers and repeated deliveries overlap the tap.
THEOREM ApprovedOnlyHolds == Spec => []ApprovedOnly
  <1>1. IInv => ApprovedOnly
    BY DEF IInv, ApprovedOnly, ThreadSound
  <1> QED
    BY <1>1, OneTapInvariant, PTL

\* A button sends at most one request, however often its tap is delivered.
THEOREM OneRequestPerTapHolds == Spec => []OneRequestPerTap
  <1>1. IInv => OneRequestPerTap
    BY DEF IInv, TypeOK, OneRequestPerTap, MessageSound
  <1> QED
    BY <1>1, OneTapInvariant, PTL

\* A draft is marked posted only when its reserved thread has a comment.
THEOREM PostedIsRealHolds == Spec => []PostedIsReal
  <1>1. IInv => PostedIsReal
    BY DEF IInv, PostedIsReal, DraftSound, ThreadSound
  <1> QED
    BY <1>1, OneTapInvariant, PTL

\* A comment is sent for the draft that holds the thread's reservation.
THEOREM OneDraftPerThreadHolds == Spec => OneDraftPerThread
  <1>1. IInv /\ [Next]_vars =>
          [\A h \in Handlers : (task[h].step = "send" /\ task'[h].step \in {"mark", "recheck", "fail"})
             => reserved[draft[task[h].id].thread] = task[h].id]_vars
    BY DEF IInv, TaskSound
  <1> QED
    BY <1>1, OneTapInvariant, PTL DEF Spec, OneDraftPerThread

-----------------------------------------------------------------------------
(***************************************************************************)
(* The daily cap needs no more than the lock of reserve_radar_post.        *)
(***************************************************************************)
CapInv == IsFiniteSet(window) /\ Cardinality(window) =< Cap

LEMMA CapStep == CapInv /\ [Next]_vars => CapInv'
  <1> SUFFICES ASSUME CapInv, [Next]_vars PROVE CapInv'
    OBVIOUS
  <1>1. CASE window' = window
    BY <1>1 DEF CapInv
  <1>2. ASSUME NEW h \in Handlers, Reserve(h) PROVE CapInv'
    <2> DEFINE th == draft[task[h].id].thread
    <2>1. CASE window' = window \cup {th} /\ WithinCap(window)
      <3>1. IsFiniteSet(window \cup {th})
            /\ (Cardinality(window \cup {th}) = Cardinality(window)
                 \/ Cardinality(window \cup {th}) = Cardinality(window) + 1)
        BY FS_AddElement DEF CapInv
      <3>2. Cardinality(window) \in Nat
        BY FS_CardinalityType DEF CapInv
      <3> QED
        BY <2>1, <3>1, <3>2, OneTapAssumption DEF CapInv, WithinCap
    <2> QED
      BY <1>1, <1>2, <2>1 DEF Reserve
  <1>3. ASSUME NEW th \in Threads, DayPasses(th) PROVE CapInv'
    <2>1. IsFiniteSet(window \ {th}) /\ Cardinality(window \ {th}) = Cardinality(window) - 1
      BY <1>3, FS_RemoveElement DEF CapInv, DayPasses
    <2>2. Cardinality(window) \in Nat
      BY FS_CardinalityType DEF CapInv
    <2> QED
      BY <1>3, <2>1, <2>2, OneTapAssumption DEF CapInv, DayPasses
  <1>4. CASE UNCHANGED vars
    BY <1>1, <1>4 DEF vars
  <1>5. ASSUME NEW h \in Handlers, Offering(h) \/ Founder(h) \/ Crash(h) PROVE CapInv'
    BY <1>1, <1>5 DEF Offering, Founder, Crash, OfferDraft, SendOffer, BindMessage, Reoffer, TapPost, ReplyEdit
  <1>6. ASSUME NEW h \in Handlers, Posting(h) PROVE CapInv'
    BY <1>1, <1>2, <1>6 DEF Posting, Preflight, Consume, SignIn, CheckBefore, PostComment, CheckAfter,
          MarkPosted, MarkFailed, MarkReconcile
  <1>7. ASSUME NEW d \in Drafts, Expire(d) \/ \E m \in Messages : TapSkip(d, m) PROVE CapInv'
    BY <1>1, <1>7 DEF Expire, TapSkip
  <1> QED
    BY <1>3, <1>4, <1>5, <1>6, <1>7 DEF Next

\* Whatever taps overlap, no more than the day's threads are reserved in a day.
THEOREM ReservationsCappedHolds == Spec => []ReservationsCapped
  <1>1. Init => CapInv
    BY FS_EmptySet, OneTapAssumption DEF Init, CapInv
  <1>2. CapInv => ReservationsCapped
    BY DEF CapInv, ReservationsCapped
  <1> QED
    BY <1>1, <1>2, CapStep, PTL DEF Spec
=============================================================================
