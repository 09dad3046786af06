------------------------- MODULE CustomDomainsProofs -------------------------
(***************************************************************************)
(* What holds of CustomDomains, and of ShareHosts on top of it, for every   *)
(* set of accounts, hostnames, rows, requests and runs.  The argument has  *)
(* layers: the types; what a request or a run may still do after what it   *)
(* read (TaskOK); what any step does to one row (RowStep), from which the  *)
(* claims and the defaults follow; what it does to a row's Cloudflare id,  *)
(* stamps and count (RowTold), from which the sweep and the two strikes    *)
(* follow; and the links and recipients beside all of that.                *)
(***************************************************************************)
EXTENDS ShareHosts, TLAPS

\* A task that will still write the table names a row, and a check or a connect
\* read it while it was current.
TaskSound(r) ==
    /\ r.op # "idle" => r.id \in Domains
    /\ r.op = "idle" => r.step = "none"
    /\ r.step = "record" => r.verdict \in {"unknown", "bad", "good"}
    /\ (r.op \in {"connect", "check", "settle"} /\ r.step \notin {"default", "unset"})
          => r.read.state \in {"pending", "live", "disconnected"}

TaskOK == \A t \in Tasks : TaskSound(task[t])

LEMMA FreshIsStamp == \A d : FreshStamps(d) \subseteq Stamps
  BY DEF FreshStamps, Unused

LEMMA StrikeInRange ==
  ASSUME NEW n \in 0..FailuresToDisconnect
  PROVE  Strike(n) \in 0..FailuresToDisconnect
  BY BoundsAssumption DEF Strike

LEMMA ConstantTypes == NoRow \in Rows /\ Idle \in TaskRecords
  <1>1. 0 \in 0..FailuresToDisconnect
    BY BoundsAssumption
  <1>2. NoRow \in Rows
    BY <1>1 DEF NoRow, Rows, Never
  <1>3. Idle \in TaskRecords
    BY <1>1 DEF Idle, TaskRecords, NotRead, Never
  <1> QED
    BY <1>2, <1>3

LEMMA InitTypes == Init => TypeOK /\ TaskOK
  <1> SUFFICES ASSUME Init PROVE TypeOK /\ TaskOK
    OBVIOUS
  <1>1. dom \in [Domains -> Rows]
    BY ConstantTypes DEF Init
  <1>2. profile \in [Owners -> [exists : BOOLEAN, eligible : BOOLEAN, default : Domains \cup {None}]]
    BY DEF Init
  <1>3. cf \in [Certs -> [host : Hostnames \cup {None}, held : BOOLEAN]]
    BY DEF Init
  <1>4. task \in [Tasks -> TaskRecords]
    BY ConstantTypes DEF Init
  <1>5. recorded \in [Domains -> {"none", "bad", "good"}]
    BY DEF Init
  <1>6. TaskOK
    BY DEF Init, TaskOK, TaskSound, Idle, NotRead
  <1> QED
    BY <1>1, <1>2, <1>3, <1>4, <1>5, <1>6 DEF TypeOK
-----------------------------------------------------------------------------
(***************************************************************************)
(* Every action moves one task to a sound record.                          *)
(***************************************************************************)
TaskMoves(t) == \E r \in TaskRecords : TaskSound(r) /\ task' = [task EXCEPT ![t] = r]

LEMMA TaskMovesSafely ==
  ASSUME TypeOK, TaskOK, NEW t \in Tasks, TaskMoves(t)
  PROVE  task' \in [Tasks -> TaskRecords] /\ TaskOK'
  BY DEF TypeOK, TaskOK, TaskMoves

LEMMA DoneMoves ==
  ASSUME NEW t \in Tasks, Done(t)
  PROVE  TaskMoves(t)
  <1>1. TaskSound(Idle)
    BY DEF TaskSound, Idle
  <1> QED
    BY <1>1, ConstantTypes DEF Done, TaskMoves

LEMMA GotoMoves ==
  ASSUME TypeOK, TaskOK, NEW t \in Tasks, task[t].op # "idle",
         task[t].step \notin {"default", "unset"} \/ task[t].op \in {"disconnect", "sweep"},
         NEW step \in {"post", "find", "repost", "store", "giveback", "get", "probe",
                       "default", "unset", "retire", "delete", "stamp"},
         Goto(t, step) \/ \E c \in Certs : GotoWith(t, step, c)
  PROVE  TaskMoves(t)
  <1>1. task[t] \in TaskRecords /\ TaskSound(task[t])
    BY DEF TypeOK, TaskOK
  <1>2. CASE Goto(t, step)
    <2> DEFINE r == [task[t] EXCEPT !.step = step]
    <2>1. /\ r \in TaskRecords /\ r.op = task[t].op /\ r.step = step /\ r.id = task[t].id
          /\ r.read = task[t].read
      BY <1>1 DEF TaskRecords
    <2>2. task' = [task EXCEPT ![t] = r]
      BY <1>2 DEF Goto, TypeOK
    <2> HIDE DEF r
    <2>3. TaskSound(r)
      BY <1>1, <2>1 DEF TaskSound
    <2> QED
      BY <2>1, <2>2, <2>3 DEF TaskMoves
  <1>3. CASE \E c \in Certs : GotoWith(t, step, c)
    <2>1. PICK c \in Certs : GotoWith(t, step, c)
      BY <1>3
    <2> DEFINE r == [task[t] EXCEPT !.step = step, !.cert = c]
    <2>2. /\ r \in TaskRecords /\ r.op = task[t].op /\ r.step = step /\ r.id = task[t].id
          /\ r.read = task[t].read
      BY <1>1, ZenonT(60) DEF TaskRecords
    <2>3. task' = [task EXCEPT ![t] = r]
      BY <2>1, ZenonT(120) DEF GotoWith, TypeOK
    <2> HIDE DEF r
    <2>4. TaskSound(r)
      BY <1>1, <2>2 DEF TaskSound
    <2> QED
      BY <2>2, <2>3, <2>4 DEF TaskMoves
  <1> QED
    BY <1>2, <1>3

LEMMA ConcludeMoves ==
  ASSUME TypeOK, TaskOK, NEW t \in Tasks, task[t].op # "idle",
         task[t].step \notin {"default", "unset"},
         NEW verdict \in {"unknown", "bad", "good"}, Conclude(t, verdict)
  PROVE  TaskMoves(t)
  <1> DEFINE r == [task[t] EXCEPT !.step = "record", !.cert = None, !.verdict = verdict]
  <1>1. task[t] \in TaskRecords /\ TaskSound(task[t])
    BY DEF TypeOK, TaskOK
  <1>2. /\ r \in TaskRecords /\ r.op = task[t].op /\ r.step = "record" /\ r.id = task[t].id
        /\ r.verdict = verdict /\ r.read = task[t].read
    BY <1>1 DEF TaskRecords
  <1>3. task' = [task EXCEPT ![t] = r]
    BY DEF Conclude, TypeOK
  <1> HIDE DEF r
  <1>4. TaskSound(r)
    BY <1>1, <1>2 DEF TaskSound
  <1> QED
    BY <1>2, <1>3, <1>4 DEF TaskMoves

LEMMA FollowMoves ==
  ASSUME TypeOK, TaskOK, NEW t \in Tasks, task[t].op # "idle",
         NEW step \in {"default", "unset"}, Follow(t, step)
  PROVE  TaskMoves(t)
  <1> DEFINE r == [Idle EXCEPT !.op = task[t].op, !.step = step, !.id = task[t].id]
  <1>1. task[t] \in TaskRecords /\ TaskSound(task[t])
    BY DEF TypeOK, TaskOK
  <1>2. r \in TaskRecords /\ r.op = task[t].op /\ r.step = step /\ r.id = task[t].id
    <2> DEFINE r1 == [Idle EXCEPT !.op = task[t].op]
               r2 == [r1 EXCEPT !.step = step]
    <2>1. r1 \in TaskRecords /\ r1.op = task[t].op
      BY <1>1, ConstantTypes DEF TaskRecords
    <2>2. r = [r2 EXCEPT !.id = task[t].id]
      OBVIOUS
    <2> HIDE DEF r, r1
    <2>3. r2 \in TaskRecords /\ r2.op = task[t].op /\ r2.step = step
      BY <2>1 DEF TaskRecords
    <2> HIDE DEF r2
    <2> QED
      BY <1>1, <2>2, <2>3 DEF TaskRecords
  <1>3. task' = [task EXCEPT ![t] = r]
    BY DEF Follow
  <1> HIDE DEF r
  <1>4. TaskSound(r)
    BY <1>1, <1>2 DEF TaskSound
  <1> QED
    BY <1>2, <1>3, <1>4 DEF TaskMoves

Readings == [state : {"none", "pending", "live", "disconnected", "retired"},
             fails : 0..FailuresToDisconnect, seen : Stamps \cup {Never}]

LEMMA ReadingTypes ==
  ASSUME NEW row \in Rows
  PROVE  /\ NotRead \in Readings
         /\ ReadByRequest(row) \in Readings /\ ReadByRequest(row).state = row.state
         /\ ReadByRun(row) \in Readings /\ ReadByRun(row).state = row.state
  BY BoundsAssumption DEF Rows, Readings, NotRead, ReadByRequest, ReadByRun, Never

LEMMA BeginMoves ==
  ASSUME NEW t \in Tasks, NEW d \in Domains, NEW cert \in Certs \cup {None}, NEW read \in Readings,
         NEW op \in {"connect", "check", "disconnect", "settle", "sweep"},
         NEW step \in {"post", "get", "unset", "delete"},
         op \in {"connect", "check", "settle"} => read.state \in {"pending", "live", "disconnected"},
         Begin(t, op, step, d, read, cert)
  PROVE  TaskMoves(t)
  <1> DEFINE r == [op |-> op, step |-> step, id |-> d, read |-> read, cert |-> cert, verdict |-> "none"]
  <1>1. r \in TaskRecords
    BY DEF TaskRecords, Readings
  <1>2. TaskSound(r)
    BY DEF TaskSound
  <1> QED
    BY <1>1, <1>2 DEF Begin, TaskMoves

-----------------------------------------------------------------------------
(***************************************************************************)
(* What a step may do to a row that is there.                              *)
(***************************************************************************)
RowMoves(old, new) ==
    /\ new.owner = old.owner /\ new.host = old.host
    /\ old.state = "none" <=> new.state = "none"
    /\ new.state = "pending" => old.state = "pending"
    /\ Current(new) => Current(old)
    /\ new.state = "live" => old.state = "live" \/ ~new.review
    /\ old.state = "retired" => new = [old EXCEPT !.swept = new.swept, !.review = new.review,
                                                !.approved = new.approved]
    /\ old.swept => new.swept
    /\ old.approved => new.approved
    /\ new.review => old.review
    /\ old.review /\ ~new.review => new.approved

LEMMA RowStays == ASSUME NEW row \in Rows PROVE RowMoves(row, row)
  BY DEF RowMoves, Rows, Current

\* The writes of a check, of a store and of a disconnect, on a current row.
LEMMA CurrentRowMoves ==
  ASSUME NEW row \in Rows, Current(row), NEW n \in 0..FailuresToDisconnect,
         NEW s \in Stamps, NEW c \in Certs \cup {None}
  PROVE  /\ [row EXCEPT !.seen = s] \in Rows /\ RowMoves(row, [row EXCEPT !.seen = s])
         /\ [row EXCEPT !.fails = Strike(n), !.seen = s] \in Rows
         /\ RowMoves(row, [row EXCEPT !.fails = Strike(n), !.seen = s])
         /\ [Failed(row, n) EXCEPT !.seen = s] \in Rows
         /\ RowMoves(row, [Failed(row, n) EXCEPT !.seen = s])
         /\ [row EXCEPT !.cert = c, !.seen = s] \in Rows
         /\ RowMoves(row, [row EXCEPT !.cert = c, !.seen = s])
  <1>1. Strike(n) \in 0..FailuresToDisconnect
    BY StrikeInRange
  <1>2. [row EXCEPT !.seen = s] \in Rows /\ RowMoves(row, [row EXCEPT !.seen = s])
    BY DEF Rows, RowMoves, Current
  <1>3. /\ [row EXCEPT !.fails = Strike(n), !.seen = s] \in Rows
        /\ RowMoves(row, [row EXCEPT !.fails = Strike(n), !.seen = s])
    BY <1>1, ZenonT(120) DEF Rows, RowMoves, Current
  <1>4. /\ [row EXCEPT !.cert = c, !.seen = s] \in Rows
        /\ RowMoves(row, [row EXCEPT !.cert = c, !.seen = s])
    BY ZenonT(120) DEF Rows, RowMoves, Current
  <1>5. /\ [Failed(row, n) EXCEPT !.seen = s] \in Rows
        /\ RowMoves(row, [Failed(row, n) EXCEPT !.seen = s])
    <2>1. CASE row.state = "pending"
      BY <1>2, <2>1 DEF Failed
    <2>2. CASE row.state = "live" /\ Strike(n) >= FailuresToDisconnect
      <3> DEFINE fallen == [row EXCEPT !.fails = Strike(n), !.state = "disconnected"]
      <3>1. Failed(row, n) = fallen
        BY <2>2 DEF Failed
      <3>2. [fallen EXCEPT !.seen = s] \in Rows /\ RowMoves(row, [fallen EXCEPT !.seen = s])
        BY <1>1, <2>2 DEF Rows, RowMoves, Current
      <3> QED
        BY <3>1, <3>2
    <2>3. CASE row.state # "pending" /\ ~(row.state = "live" /\ Strike(n) >= FailuresToDisconnect)
      <3> DEFINE counted == [row EXCEPT !.fails = Strike(n), !.state = row.state]
      <3>1. Failed(row, n) = counted
        BY <2>3 DEF Failed
      <3>2. [counted EXCEPT !.seen = s] \in Rows /\ RowMoves(row, [counted EXCEPT !.seen = s])
        BY <1>1, <2>3 DEF Rows, RowMoves, Current
      <3> QED
        BY <3>1, <3>2
    <2> QED
      BY <2>1, <2>2, <2>3
  <1> QED
    BY <1>2, <1>3, <1>4, <1>5

LEMMA PromotedRowMoves ==
  ASSUME NEW row \in Rows, Current(row), NEW s \in Stamps, TriggerAccepts(row, Promoted(row))
  PROVE  /\ [Promoted(row) EXCEPT !.seen = s] \in Rows
         /\ RowMoves(row, [Promoted(row) EXCEPT !.seen = s])
  <1> DEFINE new == [Promoted(row) EXCEPT !.seen = s]
  <1>1. new \in Rows
    <2>1. 0 \in 0..FailuresToDisconnect
      BY BoundsAssumption
    <2> QED
      BY <2>1 DEF Rows, Promoted
  <1>2. /\ new.owner = row.owner /\ new.host = row.host /\ new.swept = row.swept
        /\ new.review = row.review /\ new.approved = row.approved
        /\ new.state = "live" /\ Promoted(row).state = "live" /\ Promoted(row).review = row.review
    BY DEF Rows, Promoted
  <1> QED
    BY <1>1, <1>2 DEF RowMoves, Current, TriggerAccepts

RowWritten(d) == \/ UNCHANGED dom
                 \/ \E row \in Rows : RowMoves(dom[d], row) /\ dom' = [dom EXCEPT ![d] = row]

LEMMA RecordWrites ==
  ASSUME TypeOK, TaskOK, NEW t \in Tasks, RecordByRequest(t) \/ RecordByRun(t)
  PROVE  RowWritten(task[t].id)
  <1> DEFINE d == task[t].id
             n == task[t].read.fails
  <1>1. task[t] \in TaskRecords /\ TaskSound(task[t]) /\ task[t].step = "record"
        /\ task[t].op \in {"connect", "check", "settle"}
    BY DEF TypeOK, TaskOK, RecordByRequest, RecordByRun, At
  <1>2. d \in Domains /\ dom[d] \in Rows /\ n \in 0..FailuresToDisconnect
    BY <1>1 DEF TaskSound, TaskRecords, TypeOK
  <1>3. SUFFICES ASSUME dom' # dom PROVE RowWritten(d)
    BY DEF RowWritten
  <1>4. Current(dom[d]) /\ (task[t].verdict = "good" => TriggerAccepts(dom[d], Promoted(dom[d])))
    BY <1>1, <1>3 DEF RecordByRequest, RecordByRun, Unmoved, StillThere, TaskSound, Current
  <1>5. PICK s \in Stamps : dom' = [dom EXCEPT ![d] =
            CASE task[t].verdict = "good"    -> [Promoted(@) EXCEPT !.seen = s]
              [] task[t].verdict = "bad"     -> IF task[t].op = "settle"
                                                  THEN [Failed(@, n) EXCEPT !.seen = s]
                                                  ELSE [@ EXCEPT !.fails = Strike(n), !.seen = s]
              [] task[t].verdict = "unknown" -> [@ EXCEPT !.seen = s]]
    <2>1. CASE RecordByRequest(t)
      <3>1. task[t].op # "settle"
        BY <2>1 DEF RecordByRequest, At
      <3> QED
        BY <1>3, <2>1, <3>1, FreshIsStamp DEF RecordByRequest
    <2>2. CASE RecordByRun(t)
      <3>1. task[t].op = "settle"
        BY <2>2 DEF RecordByRun, At
      <3> QED
        BY <1>3, <2>2, <3>1, FreshIsStamp DEF RecordByRun
    <2> QED
      BY <2>1, <2>2
  <1>6. CASE task[t].verdict = "good"
    <2>1. dom' = [dom EXCEPT ![d] = [Promoted(dom[d]) EXCEPT !.seen = s]]
      BY <1>2, <1>5, <1>6 DEF TypeOK
    <2> QED
      BY <1>2, <1>4, <1>6, <2>1, PromotedRowMoves DEF RowWritten
  <1>7. CASE task[t].verdict = "bad" /\ task[t].op = "settle"
    <2>1. dom' = [dom EXCEPT ![d] = [Failed(dom[d], n) EXCEPT !.seen = s]]
      BY <1>2, <1>5, <1>7 DEF TypeOK
    <2> QED
      BY <1>2, <1>4, <2>1, CurrentRowMoves DEF RowWritten
  <1>8. CASE task[t].verdict = "bad" /\ task[t].op # "settle"
    <2>1. dom' = [dom EXCEPT ![d] = [dom[d] EXCEPT !.fails = Strike(n), !.seen = s]]
      BY <1>2, <1>5, <1>8 DEF TypeOK
    <2> QED
      BY <1>2, <1>4, <2>1, CurrentRowMoves DEF RowWritten
  <1>9. CASE task[t].verdict = "unknown"
    <2>1. dom' = [dom EXCEPT ![d] = [dom[d] EXCEPT !.seen = s]]
      BY <1>2, <1>5, <1>9 DEF TypeOK
    <2> QED
      BY <1>2, <1>4, <2>1, CurrentRowMoves DEF RowWritten
  <1> QED
    BY <1>1, <1>6, <1>7, <1>8, <1>9 DEF TaskSound

LEMMA StoreWrites ==
  ASSUME TypeOK, TaskOK, NEW t \in Tasks, Store(t)
  PROVE  RowWritten(task[t].id)
  <1> DEFINE d == task[t].id
             c == task[t].cert
  <1>1. task[t] \in TaskRecords /\ TaskSound(task[t]) /\ task[t].step = "store"
        /\ task[t].op \in {"connect", "check"}
    BY DEF TypeOK, TaskOK, Store, At
  <1>2. d \in Domains /\ dom[d] \in Rows /\ c \in Certs \cup {None}
    BY <1>1 DEF TaskSound, TaskRecords, TypeOK
  <1>3. SUFFICES ASSUME StillThere(t), StoreId(t) PROVE RowWritten(d)
    BY DEF RowWritten, Store
  <1>4. Current(dom[d])
    BY <1>1, <1>3 DEF StillThere, TaskSound, Current
  <1>5. CASE task[t].op = "connect"
    <2>1. PICK s \in Stamps : dom' = [dom EXCEPT ![d].cert = c, ![d].seen = s]
      BY <1>3, <1>5, FreshIsStamp DEF StoreId
    <2>2. dom' = [dom EXCEPT ![d] = [dom[d] EXCEPT !.cert = c, !.seen = s]]
      BY <1>2, <2>1 DEF TypeOK
    <2>3. dom[d].fails \in 0..FailuresToDisconnect
      BY <1>2 DEF Rows
    <2> QED
      BY <1>2, <1>4, <2>2, <2>3, CurrentRowMoves DEF RowWritten
  <1>6. CASE task[t].op = "check"
    <2>1. dom' = [dom EXCEPT ![d] = [dom[d] EXCEPT !.cert = c]]
      BY <1>1, <1>2, <1>3, <1>6 DEF StoreId, TypeOK
    <2>2. [dom[d] EXCEPT !.cert = c] \in Rows
      BY <1>2 DEF Rows
    <2>3. RowMoves(dom[d], [dom[d] EXCEPT !.cert = c])
      BY <1>2, <1>4 DEF RowMoves, Rows, Current
    <2> QED
      BY <2>1, <2>2, <2>3 DEF RowWritten
  <1> QED
    BY <1>1, <1>5, <1>6

LEMMA RetireWrites ==
  ASSUME TypeOK, TaskOK, NEW t \in Tasks, Retire(t) \/ Stamp(t)
  PROVE  RowWritten(task[t].id)
  <1> DEFINE d == task[t].id
  <1>1. d \in Domains /\ dom[d] \in Rows
    BY DEF TypeOK, TaskOK, TaskSound, Retire, Stamp, At
  <1>2. CASE Retire(t)
    <2>1. SUFFICES ASSUME Current(dom[d]) PROVE RowWritten(d)
      BY <1>2 DEF RowWritten, Retire
    <2>2. dom' = [dom EXCEPT ![d] = Retired(dom[d])]
      BY <1>1, <1>2, <2>1 DEF Retire, TypeOK
    <2>3. Retired(dom[d]) \in Rows /\ RowMoves(dom[d], Retired(dom[d]))
      BY <1>1, <2>1 DEF Retired, Rows, RowMoves, Current
    <2> QED
      BY <2>2, <2>3 DEF RowWritten
  <1>3. CASE Stamp(t)
    <2>1. UNCHANGED dom \/ dom' = [dom EXCEPT ![d] = [dom[d] EXCEPT !.swept = TRUE]]
      BY <1>1, <1>3 DEF Stamp, TypeOK
    <2>2. [dom[d] EXCEPT !.swept = TRUE] \in Rows /\ RowMoves(dom[d], [dom[d] EXCEPT !.swept = TRUE])
      BY <1>1, ZenonT(120) DEF Rows, RowMoves, Current
    <2> QED
      BY <2>1, <2>2 DEF RowWritten
  <1> QED
    BY <1>2, <1>3

-----------------------------------------------------------------------------
(***************************************************************************)
(* Types                                                                   *)
(***************************************************************************)
TablesOK == /\ dom \in [Domains -> Rows]
            /\ profile \in [Owners -> [exists : BOOLEAN, eligible : BOOLEAN,
                                       default : Domains \cup {None}]]
            /\ cf \in [Certs -> [host : Hostnames \cup {None}, held : BOOLEAN]]
            /\ recorded \in [Domains -> {"none", "bad", "good"}]

LEMMA StartTypes ==
  ASSUME TypeOK, TaskOK, NEW t \in Tasks, StartRequest(t) \/ StartRun(t)
  PROVE  TablesOK' /\ TaskMoves(t)
  <1>1. ASSUME NEW o \in Owners, NEW h \in Hostnames, StartConnect(t, o, h)
        PROVE  TablesOK' /\ TaskMoves(t)
    <2> DEFINE row == [NoRow EXCEPT !.owner = o, !.host = h, !.state = "pending",
                                    !.review = PreviousOwner(o, h)]
    <2>1. PICK d \in Domains : /\ dom' = [dom EXCEPT ![d] = row]
                               /\ Begin(t, "connect", "post", d, ReadByRequest(row), None)
      BY <1>1 DEF StartConnect
    <2>2. PreviousOwner(o, h) \in BOOLEAN
      BY DEF PreviousOwner
    <2>3. row \in Rows /\ Current(row)
      BY <2>2, ConstantTypes DEF Rows, NoRow, Current
    <2>4. /\ ReadByRequest(row) \in Readings
          /\ ReadByRequest(row).state \in {"pending", "live", "disconnected"}
      BY <2>3, ReadingTypes DEF Current
    <2>5. TaskMoves(t)
      BY <2>1, <2>4, BeginMoves
    <2> QED
      BY <1>1, <2>1, <2>3, <2>5 DEF StartConnect, TypeOK, TablesOK
  <1>2. ASSUME NEW d \in Domains,
               StartCheck(t, d) \/ StartDisconnect(t, d) \/ StartSettle(t, d) \/ StartSweep(t, d)
        PROVE  TablesOK' /\ TaskMoves(t)
    <2>1. TablesOK'
      BY <1>2 DEF StartCheck, StartDisconnect, StartSettle, StartSweep, TypeOK, TablesOK
    <2>2. dom[d] \in Rows /\ dom[d].cert \in Certs \cup {None}
      BY DEF TypeOK, Rows
    <2>3. /\ NotRead \in Readings /\ ReadByRequest(dom[d]) \in Readings /\ ReadByRun(dom[d]) \in Readings
          /\ Current(dom[d]) => /\ ReadByRequest(dom[d]).state \in {"pending", "live", "disconnected"}
                                /\ ReadByRun(dom[d]).state \in {"pending", "live", "disconnected"}
      BY <2>2, ReadingTypes DEF Current
    <2>4. ASSUME StartCheck(t, d) PROVE TaskMoves(t)
      <3>1. CASE dom[d].cert = None
        <4>1. Begin(t, "check", "post", d, ReadByRequest(dom[d]), dom[d].cert) /\ Current(dom[d])
          BY <2>4, <3>1 DEF StartCheck
        <4> QED
          BY <2>2, <2>3, <4>1, BeginMoves
      <3>2. CASE dom[d].cert # None
        <4>1. Begin(t, "check", "get", d, ReadByRequest(dom[d]), dom[d].cert) /\ Current(dom[d])
          BY <2>4, <3>2 DEF StartCheck
        <4> QED
          BY <2>2, <2>3, <4>1, BeginMoves
      <3> QED
        BY <3>1, <3>2
    <2>5. ASSUME StartDisconnect(t, d) PROVE TaskMoves(t)
      <3>1. Begin(t, "disconnect", "unset", d, NotRead, None)
        BY <2>5 DEF StartDisconnect
      <3> QED
        BY <2>3, <3>1, BeginMoves
    <2>6. ASSUME StartSettle(t, d) PROVE TaskMoves(t)
      <3>1. Begin(t, "settle", "get", d, ReadByRun(dom[d]), dom[d].cert) /\ Current(dom[d])
        BY <2>6 DEF StartSettle
      <3> QED
        BY <2>2, <2>3, <3>1, BeginMoves
    <2>7. ASSUME StartSweep(t, d) PROVE TaskMoves(t)
      <3>1. Begin(t, "sweep", "delete", d, NotRead, dom[d].cert)
        BY <2>7 DEF StartSweep
      <3> QED
        BY <2>2, <2>3, <3>1, BeginMoves
    <2> QED
      BY <1>2, <2>1, <2>4, <2>5, <2>6, <2>7
  <1> QED
    BY <1>1, <1>2 DEF StartRequest, StartRun

Zones == [Certs -> [host : Hostnames \cup {None}, held : BOOLEAN]]

\* Cloudflare's side: what a POST and a DELETE make of it.
LEMMA RegisterTypes ==
  ASSUME cf \in Zones, NEW c \in Certs, NEW h \in Hostnames \cup {None}, Register(c, h)
  PROVE  cf' \in Zones
  BY DEF Zones, Register

LEMMA DeleteTypes ==
  ASSUME cf \in Zones, NEW c, Delete(c)
  PROVE  cf' \in Zones
  BY DEF Zones, Delete

LEMMA CloudflareTypes ==
  ASSUME TypeOK
  PROVE  /\ \A h \in Hostnames \cup {None} : PostLost(h) => cf' \in Zones
         /\ \A c : DeleteUnconfirmed(c) => cf' \in Zones
  BY RegisterTypes, DeleteTypes DEF TypeOK, Zones, PostLost, DeleteUnconfirmed
\* What the steps of a request or a run write besides the task.
LEMMA ContinueTables ==
  ASSUME TypeOK, TaskOK, NEW t \in Tasks, Continue(t)
  PROVE  TablesOK' /\ RowWritten(task[t].id)
  <1> USE DEF Zones
  <1>1. task[t] \in TaskRecords /\ TaskSound(task[t])
    BY DEF TypeOK, TaskOK
  <1>2. task[t].op # "idle" => task[t].id \in Domains /\ HostOf(t) \in Hostnames \cup {None}
    BY <1>1 DEF TaskSound, TypeOK, Rows, HostOf
  <1>3. RowWritten(task[t].id) /\ task[t].op # "idle" => dom' \in [Domains -> Rows]
    BY <1>2 DEF RowWritten, TypeOK
  <1>4. CASE Post(t) \/ Repost(t)
    BY <1>1, <1>2, <1>4, RegisterTypes, CloudflareTypes DEF Post, Repost, At, TypeOK, TablesOK, RowWritten
  <1>5. CASE Giveback(t) \/ DeleteConfirmed(t) \/ DeleteFailed(t)
    BY <1>5, DeleteTypes, CloudflareTypes DEF Giveback, DeleteConfirmed, DeleteFailed, TypeOK, TablesOK, RowWritten
  <1>6. CASE Find(t) \/ Get(t) \/ Probe(t)
    BY <1>6 DEF Find, Get, Probe, TypeOK, TablesOK, RowWritten
  <1>7. CASE Store(t)
    BY <1>3, <1>7, StoreWrites DEF Store, At, TypeOK, TablesOK
  <1>8. CASE RecordByRequest(t) \/ RecordByRun(t)
    <2> DEFINE d == task[t].id
    <2>1. d \in Domains /\ task[t].verdict \in {"unknown", "bad", "good"} /\ task[t].op # "idle"
      BY <1>1, <1>2, <1>8 DEF TaskSound, RecordByRequest, RecordByRun, At
    <2>2. UNCHANGED <<profile, cf>>
      BY <1>8 DEF RecordByRequest, RecordByRun
    <2>3. recorded' \in [Domains -> {"none", "bad", "good"}]
      BY <1>8, <2>1 DEF RecordByRequest, RecordByRun, Note, TypeOK
    <2>4. RowWritten(d) /\ dom' \in [Domains -> Rows]
      BY <1>3, <1>8, <2>1, RecordWrites
    <2> QED
      BY <2>2, <2>3, <2>4 DEF TypeOK, TablesOK
  <1>9. CASE DefaultByRequest(t) \/ FinishPromotion(t) \/ Unset(t)
    <2>1. task[t].id \in Domains /\ UNCHANGED <<dom, cf, recorded>>
      BY <1>1, <1>9 DEF DefaultByRequest, FinishPromotion, Unset, At, TaskSound
    <2>2. profile' \in [Owners -> [exists : BOOLEAN, eligible : BOOLEAN, default : Domains \cup {None}]]
      BY <1>9, <2>1 DEF DefaultByRequest, FinishPromotion, Unset, SetDefault, DefaultWritten, TypeOK
    <2> QED
      BY <2>1, <2>2 DEF TypeOK, TablesOK, RowWritten
  <1>10. CASE Retire(t) \/ Stamp(t)
    <2>1. RowWritten(task[t].id) /\ task[t].op # "idle" /\ UNCHANGED <<profile, cf, recorded>>
      BY <1>10, RetireWrites DEF Retire, Stamp, At
    <2> QED
      BY <1>3, <2>1 DEF TypeOK, TablesOK
  <1> QED
    BY <1>4, <1>5, <1>6, <1>7, <1>8, <1>9, <1>10 DEF Continue

LEMMA ContinueTask ==
  ASSUME TypeOK, TaskOK, NEW t \in Tasks, Continue(t)
  PROVE  TaskMoves(t)
  <1>1. CASE Post(t)
    BY <1>1, GotoMoves DEF Post, At
  <1>2. CASE Find(t)
    BY <1>2, GotoMoves DEF Find, At
  <1>3. CASE Repost(t)
    <2>1. CASE \E c \in Certs : GotoWith(t, "store", c)
      BY <1>3, <2>1, GotoMoves DEF Repost, At
    <2>2. CASE Conclude(t, "unknown")
      BY <1>3, <2>2, ConcludeMoves DEF Repost, At
    <2> QED
      BY <1>3, <2>1, <2>2 DEF Repost
  <1>4. CASE Store(t)
    <2>1. CASE Done(t)
      BY <2>1, DoneMoves
    <2>2. CASE Goto(t, "get") \/ Goto(t, "giveback")
      BY <1>4, <2>2, GotoMoves DEF Store, At
    <2> QED
      BY <1>4, <2>1, <2>2 DEF Store
  <1>5. CASE Get(t) \/ Probe(t)
    <2>1. task[t].op # "idle" /\ task[t].step \notin {"default", "unset"}
      BY <1>5 DEF Get, Probe, At
    <2>2. CASE Goto(t, "probe")
      BY <2>1, <2>2, GotoMoves
    <2>3. CASE Conclude(t, "unknown") \/ Conclude(t, "bad") \/ Conclude(t, "good")
      BY <2>1, <2>3, ConcludeMoves
    <2> QED
      BY <1>5, <2>2, <2>3 DEF Get, Probe
  <1>6. CASE RecordByRequest(t) \/ RecordByRun(t)
    <2>1. task[t].op # "idle"
      BY <1>6 DEF RecordByRequest, RecordByRun, At
    <2>2. CASE Done(t)
      BY <2>2, DoneMoves
    <2>3. CASE Follow(t, "default") \/ Follow(t, "unset")
      BY <2>1, <2>3, FollowMoves
    <2>4. CASE RecordByRequest(t)
      BY <2>2, <2>3, <2>4 DEF RecordByRequest
    <2>5. CASE RecordByRun(t)
      BY <2>2, <2>3, <2>5 DEF RecordByRun
    <2> QED
      BY <1>6, <2>4, <2>5
  <1>7. CASE Unset(t)
    <2>1. CASE task[t].op = "disconnect"
      BY <1>7, <2>1, GotoMoves DEF Unset
    <2> QED
      BY <1>7, <2>1, DoneMoves DEF Unset
  <1>8. CASE Retire(t)
    <2>1. task[t].id \in Domains
      BY <1>8 DEF Retire, At, TaskOK, TaskSound
    <2>2. CASE GotoWith(t, "delete", dom[task[t].id].cert) /\ dom[task[t].id].cert # None
      <3>1. dom[task[t].id].cert \in Certs
        BY <2>1, <2>2 DEF TypeOK, Rows
      <3> QED
        BY <1>8, <2>2, <3>1, GotoMoves DEF Retire, At
    <2> QED
      BY <1>8, <2>2, DoneMoves DEF Retire
  <1>9. CASE DeleteConfirmed(t)
    BY <1>9, GotoMoves DEF DeleteConfirmed, At
  <1>10. CASE Giveback(t) \/ DefaultByRequest(t) \/ FinishPromotion(t) \/ DeleteFailed(t) \/ Stamp(t)
    BY <1>10, DoneMoves DEF Giveback, DefaultByRequest, FinishPromotion, DeleteFailed, LeftForTheSweep, Stamp
  <1> QED
    BY <1>1, <1>2, <1>3, <1>4, <1>5, <1>6, <1>7, <1>8, <1>9, <1>10 DEF Continue

LEMMA DatabaseTypes ==
  ASSUME TypeOK, Database
  PROVE  TablesOK' /\ UNCHANGED task
  <1>1. \A row \in Rows : Retired(row) \in Rows /\ [row EXCEPT !.review = FALSE, !.approved = TRUE] \in Rows
    BY DEF Retired, Rows
  <1>2. ASSUME NEW o \in Owners, ChangeTier(o)
        PROVE  TablesOK' /\ UNCHANGED task
    <2>1. PICK r \in [exists : BOOLEAN, eligible : BOOLEAN, default : Domains \cup {None}] :
             profile' = [profile EXCEPT ![o] = r]
      <3> DEFINE r == [profile[o] EXCEPT !.eligible = ~profile[o].eligible,
                                         !.default = IF profile[o].eligible THEN None ELSE profile[o].default]
      <3>1. r \in [exists : BOOLEAN, eligible : BOOLEAN, default : Domains \cup {None}]
        BY DEF TypeOK
      <3>2. profile' = [profile EXCEPT ![o] = r]
        <4>1. profile' = [profile EXCEPT ![o].eligible = ~profile[o].eligible,
                                         ![o].default = IF profile[o].eligible THEN None ELSE profile[o].default]
          BY <1>2 DEF ChangeTier, TypeOK
        <4> QED
          BY <4>1 DEF TypeOK
      <3> QED
        BY <3>1, <3>2
    <2>2. UNCHANGED <<dom, cf, task, recorded>>
      BY <1>2 DEF ChangeTier
    <2>3. profile' \in [Owners -> [exists : BOOLEAN, eligible : BOOLEAN, default : Domains \cup {None}]]
      BY <2>1 DEF TypeOK
    <2> QED
      BY <2>2, <2>3 DEF TypeOK, TablesOK
  <1>3. ASSUME NEW o \in Owners, DeleteProfile(o)
        PROVE  TablesOK' /\ UNCHANGED task
    BY <1>1, <1>3 DEF DeleteProfile, TypeOK, TablesOK
  <1>4. ASSUME NEW d \in Domains, Approve(d)
        PROVE  TablesOK' /\ UNCHANGED task
    <2>1. dom' = [dom EXCEPT ![d] = [dom[d] EXCEPT !.review = FALSE, !.approved = TRUE]]
      BY <1>4 DEF Approve, TypeOK
    <2>2. dom' \in [Domains -> Rows]
      BY <1>1, <2>1 DEF TypeOK
    <2> QED
      BY <1>4, <2>2 DEF Approve, TypeOK, TablesOK
  <1> QED
    BY <1>2, <1>3, <1>4 DEF Database

LEMMA StepTypes == TypeOK /\ TaskOK /\ [Next]_vars => TypeOK' /\ TaskOK'
  <1> SUFFICES ASSUME TypeOK, TaskOK, [Next]_vars PROVE TypeOK' /\ TaskOK'
    OBVIOUS
  <1>1. ASSUME NEW t \in Tasks, StartRequest(t) \/ StartRun(t) \/ Continue(t) \/ Crash(t)
        PROVE  TypeOK' /\ TaskOK'
    <2>1. TablesOK' /\ TaskMoves(t)
      <3>1. CASE Crash(t)
        BY <3>1, DoneMoves DEF Crash, TypeOK, TablesOK
      <3> QED
        BY <1>1, <3>1, StartTypes, ContinueTables, ContinueTask
    <2> QED
      BY <2>1, TaskMovesSafely DEF TypeOK, TablesOK
  <1>2. CASE Database
    BY <1>2, DatabaseTypes DEF TypeOK, TablesOK, TaskOK
  <1>3. CASE UNCHANGED vars
    BY <1>3 DEF vars, TypeOK, TaskOK
  <1> QED
    BY <1>1, <1>2, <1>3 DEF Next, Tasks

\* Every variable keeps its type, and a task that will still write has read a
\* current row.
THEOREM TypesHold == Spec => [](TypeOK /\ TaskOK)
  BY InitTypes, StepTypes, PTL DEF Spec

\* The type invariant of the runs.
THEOREM TypeCorrect == Spec => []TypeOK
  BY TypesHold, PTL
-----------------------------------------------------------------------------
(***************************************************************************)
(* Claims.  Blank separates the ids in use from the ids that are not;      *)
(* Reviewed is what makes TakeoverApproved inductive: a claim that is not  *)
(* live yet is at least waiting for the approval.                          *)
(***************************************************************************)
Blank == \A d \in Domains :
            IF dom[d].state = "none" THEN dom[d].owner = None /\ dom[d].host = None /\ ~dom[d].review
                                     ELSE dom[d].owner \in Owners /\ dom[d].host \in Hostnames

Reviewed ==
    /\ \A d \in Domains : dom[d].state = "live" => ~dom[d].review
    /\ \A d, e \in Domains :
          (Current(dom[d]) /\ dom[e].host = dom[d].host /\ dom[e].owner # dom[d].owner)
              => dom[d].review \/ dom[d].approved

IInv == TypeOK /\ TaskOK /\ Blank /\ OneClaim /\ Reviewed

Claimed(d, o, h) ==
    /\ InsertAllowed(o, h)
    /\ dom[d] = NoRow
    /\ dom' = [dom EXCEPT ![d] = [NoRow EXCEPT !.owner = o, !.host = h, !.state = "pending",
                                              !.review = PreviousOwner(o, h)]]

LEMMA ReleasedRowMoves ==
  ASSUME NEW row \in Rows, row.state # "none"
  PROVE  RowMoves(row, Retired(row))
  <1> DEFINE new == [row EXCEPT !.state = "retired"]
  <1>1. RowMoves(row, new)
    BY DEF Rows, RowMoves, Current
  <1> QED
    BY <1>1 DEF Retired

LEMMA ApprovedRowMoves ==
  ASSUME NEW row \in Rows
  PROVE  RowMoves(row, [row EXCEPT !.review = FALSE, !.approved = TRUE])
  BY DEF Rows, RowMoves, Current

\* Any step either makes one claim or moves rows that are there.
LEMMA RowStep ==
  ASSUME TypeOK, TaskOK, Blank, [Next]_vars
  PROVE  \/ \E d \in Domains, o \in Owners, h \in Hostnames : Claimed(d, o, h)
         \/ \A d \in Domains : RowMoves(dom[d], dom'[d])
  <1>1. \A d \in Domains : dom[d] \in Rows /\ RowMoves(dom[d], dom[d])
    BY RowStays DEF TypeOK
  <1>2. UNCHANGED dom => \A d \in Domains : RowMoves(dom[d], dom'[d])
    BY <1>1
  <1>3. ASSUME NEW t \in Tasks, StartRequest(t) \/ StartRun(t)
        PROVE  \/ \E d \in Domains, o \in Owners, h \in Hostnames : Claimed(d, o, h)
               \/ UNCHANGED dom
    <2>1. ASSUME NEW o \in Owners, NEW h \in Hostnames, StartConnect(t, o, h)
          PROVE  \E d \in Domains : Claimed(d, o, h)
      BY <2>1 DEF StartConnect, Claimed
    <2> QED
      BY <1>3, <2>1 DEF StartRequest, StartRun, StartCheck, StartDisconnect, StartSettle, StartSweep
  <1>4. ASSUME NEW t \in Tasks, Continue(t)
        PROVE  \A d \in Domains : RowMoves(dom[d], dom'[d])
    <2>1. RowWritten(task[t].id)
      BY <1>4, ContinueTables
    <2>2. CASE UNCHANGED dom
      BY <1>2, <2>2
    <2>3. CASE \E row \in Rows : RowMoves(dom[task[t].id], row) /\ dom' = [dom EXCEPT ![task[t].id] = row]
      BY <1>1, <2>3 DEF TypeOK
    <2> QED
      BY <2>1, <2>2, <2>3 DEF RowWritten
  <1>5. ASSUME NEW o \in Owners, DeleteProfile(o)
        PROVE  \A d \in Domains : RowMoves(dom[d], dom'[d])
    <2> SUFFICES ASSUME NEW d \in Domains PROVE RowMoves(dom[d], dom'[d])
      OBVIOUS
    <2>1. CASE dom[d].owner = o
      <3>1. dom'[d] = Retired(dom[d]) /\ dom[d] \in Rows
        BY <1>5, <2>1 DEF DeleteProfile, TypeOK
      <3>2. dom[d].state # "none"
        BY <2>1, NoneAssumption DEF Blank
      <3> QED
        BY <3>1, <3>2, ReleasedRowMoves
    <2>2. CASE dom[d].owner # o
      BY <1>1, <1>5, <2>2 DEF DeleteProfile
    <2> QED
      BY <2>1, <2>2
  <1>6. ASSUME NEW e \in Domains, Approve(e)
        PROVE  \A d \in Domains : RowMoves(dom[d], dom'[d])
    <2>1. dom' = [dom EXCEPT ![e] = [dom[e] EXCEPT !.review = FALSE, !.approved = TRUE]]
      BY <1>6 DEF Approve, TypeOK
    <2>2. RowMoves(dom[e], [dom[e] EXCEPT !.review = FALSE, !.approved = TRUE])
      BY <1>1, ApprovedRowMoves
    <2> QED
      BY <1>1, <2>1, <2>2 DEF TypeOK
  <1>7. CASE \E o \in Owners : ChangeTier(o)
    BY <1>2, <1>7 DEF ChangeTier
  <1>8. CASE \E t \in Tasks : Crash(t)
    BY <1>2, <1>8 DEF Crash
  <1>9. CASE UNCHANGED vars
    BY <1>2, <1>9 DEF vars
  <1> QED
    BY <1>2, <1>3, <1>4, <1>5, <1>6, <1>7, <1>8, <1>9 DEF Next, Database, Tasks

LEMMA ClaimedRow ==
  ASSUME TypeOK, NEW d \in Domains, NEW o \in Owners, NEW h \in Hostnames, Claimed(d, o, h)
  PROVE  /\ dom'[d].owner = o /\ dom'[d].host = h /\ dom'[d].state = "pending"
         /\ dom'[d].review = PreviousOwner(o, h) /\ dom'[d].approved = FALSE
         /\ dom[d].state = "none" /\ dom[d].owner = None /\ dom[d].host = None
         /\ \A e \in Domains \ {d} : dom'[e] = dom[e]
  BY DEF Claimed, TypeOK, NoRow

LEMMA InvInit == Init => IInv
  <1> SUFFICES ASSUME Init PROVE IInv
    OBVIOUS
  <1>1. \A d \in Domains : dom[d].state = "none" /\ dom[d].owner = None /\ dom[d].host = None /\ ~dom[d].review
    BY DEF Init, NoRow
  <1> QED
    BY <1>1, InitTypes DEF IInv, Blank, OneClaim, Reviewed, Claims, ClaimOfOwner, Current

LEMMA InvStep == IInv /\ [Next]_vars => IInv'
  <1> SUFFICES ASSUME IInv, [Next]_vars PROVE IInv'
    OBVIOUS
  <1>1. TypeOK /\ TaskOK /\ Blank /\ TypeOK' /\ TaskOK'
    BY StepTypes DEF IInv
  <1>2. CASE \E d \in Domains, o \in Owners, h \in Hostnames : Claimed(d, o, h)
    <2>1. PICK d \in Domains, o \in Owners, h \in Hostnames : Claimed(d, o, h)
      BY <1>2
    <2>2. /\ dom'[d].owner = o /\ dom'[d].host = h /\ dom'[d].state = "pending"
          /\ dom'[d].review = PreviousOwner(o, h) /\ dom'[d].approved = FALSE
          /\ dom[d].state = "none" /\ dom[d].owner = None /\ dom[d].host = None
          /\ \A e \in Domains \ {d} : dom'[e] = dom[e]
      BY <1>1, <2>1, ClaimedRow
    <2>3. \A e \in Domains : Current(dom[e]) => dom[e].host # h /\ dom[e].owner # o
      BY <2>1 DEF Claimed, InsertAllowed, Claims, ClaimOfOwner
    <2>4. Blank'
      BY <1>1, <2>2 DEF Blank
    <2>5. OneClaim'
      BY <2>2, <2>3 DEF IInv, OneClaim, Claims, ClaimOfOwner, Current
    <2>6. Reviewed'
      <3>1. \A e \in Domains : dom'[e].state = "live" => ~dom'[e].review
        BY <2>2 DEF IInv, Reviewed
      <3>2. ASSUME NEW e \in Domains, NEW f \in Domains, Current(dom'[e]),
                   dom'[f].host = dom'[e].host, dom'[f].owner # dom'[e].owner
            PROVE  dom'[e].review \/ dom'[e].approved
        <4>1. CASE e = d
          <5>1. f # d /\ dom[f].host = h /\ dom[f].owner # o
            BY <2>2, <3>2, <4>1
          <5> QED
            BY <2>2, <4>1, <5>1 DEF PreviousOwner
        <4>2. CASE e # d /\ f = d
          BY <2>2, <2>3, <3>2, <4>2 DEF Current
        <4>3. CASE e # d /\ f # d
          BY <2>2, <3>2, <4>3 DEF IInv, Reviewed
        <4> QED
          BY <4>1, <4>2, <4>3
      <3> QED
        BY <3>1, <3>2 DEF Reviewed
    <2> QED
      BY <1>1, <2>4, <2>5, <2>6 DEF IInv
  <1>3. CASE \A d \in Domains : RowMoves(dom[d], dom'[d])
    <2>1. Blank'
      <3>1. \A d \in Domains : /\ dom'[d].owner = dom[d].owner /\ dom'[d].host = dom[d].host
                               /\ dom[d].state = "none" <=> dom'[d].state = "none"
                               /\ dom'[d].review => dom[d].review
        BY <1>3 DEF RowMoves
      <3> QED
        BY <1>1, <3>1 DEF Blank
    <2>2. OneClaim'
      <3>1. \A d \in Domains : /\ dom'[d].owner = dom[d].owner /\ dom'[d].host = dom[d].host
                               /\ Current(dom'[d]) => Current(dom[d])
        BY <1>3 DEF RowMoves
      <3> QED
        BY <3>1 DEF IInv, OneClaim, Claims, ClaimOfOwner
    <2>3. Reviewed'
      <3>1. \A d \in Domains : dom'[d].state = "live" => ~dom'[d].review
        BY <1>3 DEF RowMoves, IInv, Reviewed
      <3>2. \A d \in Domains : /\ dom'[d].owner = dom[d].owner /\ dom'[d].host = dom[d].host
                               /\ Current(dom'[d]) => Current(dom[d])
                               /\ dom[d].review \/ dom[d].approved => dom'[d].review \/ dom'[d].approved
        BY <1>1, <1>3 DEF RowMoves, TypeOK, Rows
      <3> QED
        BY <3>1, <3>2 DEF IInv, Reviewed
    <2> QED
      BY <1>1, <2>1, <2>2, <2>3 DEF IInv
  <1> QED
    BY <1>1, <1>2, <1>3, RowStep

THEOREM ClaimsInvariant == Spec => []IInv
  BY InvInit, InvStep, PTL DEF Spec
\* A hostname and an account have one claim at a time, for every number of
\* accounts, requests and runs.
THEOREM OneClaimHolds == Spec => []OneClaim
  BY ClaimsInvariant, PTL DEF IInv

\* No hostname goes live for a second account without an approval.
THEOREM TakeoverApprovedHolds == Spec => []TakeoverApproved
  <1>1. IInv => TakeoverApproved
    BY DEF IInv, Reviewed, TakeoverApproved, Current
  <1> QED
    BY <1>1, ClaimsInvariant, PTL

\* A retired row is left alone by whatever began before it was retired.
THEOREM RetiredUntouchedHolds == Spec => RetiredUntouched
  <1> DEFINE Untouched(d) ==
        dom[d].state = "retired" =>
          /\ dom'[d] = [dom[d] EXCEPT !.swept = dom'[d].swept, !.review = dom'[d].review,
                                      !.approved = dom'[d].approved]
          /\ dom[d].swept => dom'[d].swept
  <1>1. ASSUME IInv, [Next]_vars PROVE \A d \in Domains : Untouched(d)
    <2>1. TypeOK /\ TaskOK /\ Blank
      BY <1>1 DEF IInv
    <2>2. CASE \E d \in Domains, o \in Owners, h \in Hostnames : Claimed(d, o, h)
      <3>1. PICK d \in Domains, o \in Owners, h \in Hostnames : Claimed(d, o, h)
        BY <2>2
      <3>2. dom[d].state = "none" /\ \A e \in Domains \ {d} : dom'[e] = dom[e] /\ dom[e] \in Rows
        BY <2>1, <3>1, ClaimedRow DEF TypeOK
      <3> QED
        BY <3>2 DEF Rows
    <2>3. CASE \A d \in Domains : RowMoves(dom[d], dom'[d])
      BY <2>3 DEF RowMoves
    <2> QED
      BY <1>1, <2>1, <2>2, <2>3, RowStep
  <1> QED
    BY <1>1, ClaimsInvariant, PTL DEF Spec, RetiredUntouched
-----------------------------------------------------------------------------
(***************************************************************************)
(* Defaults                                                                *)
(***************************************************************************)
\* What a step may do to an account's default: keep it with the right to it,
\* drop it, or set it to a live domain of the account's own.
DefaultMoves(o) ==
    \/ profile'[o].default = None
    \/ profile'[o].default = profile[o].default /\ (profile[o].eligible => profile'[o].eligible)
    \/ /\ profile'[o].eligible
       /\ \E d \in Domains : /\ profile'[o].default = d
                             /\ profile[o].default = d \/ (dom[d].owner = o /\ dom[d].state = "live")
                             /\ profile[o].eligible

LEMMA DefaultStep ==
  ASSUME TypeOK, TaskOK, [Next]_vars, NEW o \in Owners
  PROVE  DefaultMoves(o)
  <1>1. UNCHANGED profile => DefaultMoves(o)
    BY DEF DefaultMoves
  <1>2. ASSUME NEW t \in Tasks, StartRequest(t) \/ StartRun(t) \/ Crash(t)
        PROVE  DefaultMoves(o)
    BY <1>1, <1>2 DEF StartRequest, StartRun, StartConnect, StartCheck, StartDisconnect,
                      StartSettle, StartSweep, Crash
  <1>3. ASSUME NEW t \in Tasks, Continue(t)
        PROVE  DefaultMoves(o)
    <2>1. CASE DefaultByRequest(t) \/ FinishPromotion(t)
      <3> DEFINE p == OwnerOf(t)
                 d == task[t].id
      <3>1. d \in Domains
        BY <2>1 DEF DefaultByRequest, FinishPromotion, At, TaskOK, TaskSound
      <3>2. SUFFICES ASSUME profile' # profile PROVE DefaultMoves(o)
        BY <1>1
      <3>3. SetDefault(p, d) /\ DefaultAccepted(p, d)
        BY <2>1, <3>2 DEF DefaultByRequest, FinishPromotion
      <3>4. CASE o = p
        <4>1. /\ profile'[o].default = DefaultWritten(o, d)
              /\ profile'[o].eligible = profile[o].eligible
          BY <3>3, <3>4 DEF SetDefault, TypeOK
        <4> QED
          BY <3>1, <3>3, <3>4, <4>1 DEF DefaultMoves, DefaultWritten, DefaultAccepted
      <3>5. CASE o # p
        BY <3>3, <3>5 DEF DefaultMoves, SetDefault, TypeOK
      <3> QED
        BY <3>4, <3>5
    <2>2. CASE Unset(t)
      <3>1. UNCHANGED profile \/ profile' = [profile EXCEPT ![OwnerOf(t)].default = None]
        BY <2>2 DEF Unset
      <3> QED
        BY <1>1, <3>1 DEF DefaultMoves, TypeOK
    <2>3. CASE ~(DefaultByRequest(t) \/ FinishPromotion(t) \/ Unset(t))
      BY <1>1, <1>3, <2>3 DEF Continue, Post, Find, Repost, Store, Giveback, Get, Probe, RecordByRequest,
                              RecordByRun, Retire, DeleteConfirmed, DeleteFailed, Stamp
    <2> QED
      BY <2>1, <2>2, <2>3
  <1>4. ASSUME NEW p \in Owners, ChangeTier(p)
        PROVE  DefaultMoves(o)
    <2>1. CASE o = p
      <3>1. CASE profile[o].eligible
        <4>1. profile' = [profile EXCEPT ![o].eligible = ~profile[o].eligible, ![o].default = None]
          BY <1>4, <2>1, <3>1 DEF ChangeTier
        <4> QED
          BY <4>1 DEF DefaultMoves, TypeOK
      <3>2. CASE ~profile[o].eligible
        <4>1. profile' = [profile EXCEPT ![o].eligible = ~profile[o].eligible,
                                         ![o].default = profile[o].default]
          BY <1>4, <2>1, <3>2 DEF ChangeTier
        <4> QED
          BY <3>2, <4>1 DEF DefaultMoves, TypeOK
      <3> QED
        BY <3>1, <3>2
    <2>2. CASE o # p
      BY <1>4, <2>2 DEF ChangeTier, DefaultMoves, TypeOK
    <2> QED
      BY <2>1, <2>2
  <1>5. ASSUME NEW p \in Owners, DeleteProfile(p)
        PROVE  DefaultMoves(o)
    BY <1>5 DEF DeleteProfile, DefaultMoves, TypeOK
  <1>6. CASE \E d \in Domains : Approve(d)
    BY <1>1, <1>6 DEF Approve
  <1>7. CASE UNCHANGED vars
    BY <1>1, <1>7 DEF vars
  <1> QED
    BY <1>2, <1>3, <1>4, <1>5, <1>6, <1>7 DEF Next, Database, Tasks
\* A row that has been live is never pending or unborn again.
LEMMA StaysBorn ==
  ASSUME TypeOK, TaskOK, Blank, [Next]_vars, NEW d \in Domains, dom[d].state \notin {"none", "pending"}
  PROVE  dom'[d].owner = dom[d].owner /\ dom'[d].state \notin {"none", "pending"}
  <1>1. ASSUME NEW e \in Domains, NEW o \in Owners, NEW h \in Hostnames, Claimed(e, o, h)
        PROVE  dom'[d] = dom[d]
    BY <1>1, ClaimedRow
  <1>2. CASE \A e \in Domains : RowMoves(dom[e], dom'[e])
    BY <1>2 DEF RowMoves
  <1> QED
    BY <1>1, <1>2, RowStep

\* A default belongs to the account, has been live and goes with the right to it.
THEOREM DefaultOwnAndEntitledHolds == Spec => []DefaultOwnAndEntitled
  <1>1. Init => DefaultOwnAndEntitled
    BY DEF Init, DefaultOwnAndEntitled
  <1>2. ASSUME IInv, DefaultOwnAndEntitled, [Next]_vars PROVE DefaultOwnAndEntitled'
    <2>1. TypeOK /\ TaskOK /\ Blank
      BY <1>2 DEF IInv
    <2>2. SUFFICES ASSUME NEW o \in Owners, profile'[o].default # None
          PROVE  /\ profile'[o].eligible
                 /\ dom'[profile'[o].default].owner = o
                 /\ dom'[profile'[o].default].state \notin {"none", "pending"}
      BY DEF DefaultOwnAndEntitled
    <2> DEFINE d == profile'[o].default
    <2>3. d \in Domains /\ profile'[o].eligible /\ dom[d].owner = o /\ dom[d].state \notin {"none", "pending"}
      BY <1>2, <2>1, <2>2, DefaultStep DEF DefaultMoves, DefaultOwnAndEntitled, TypeOK
    <2> QED
      BY <1>2, <2>1, <2>3, StaysBorn
  <1> QED
    BY <1>1, <1>2, ClaimsInvariant, PTL DEF Spec
-----------------------------------------------------------------------------
(***************************************************************************)
(* Cloudflare's ids and the failure count.  A stamped row is gone for good *)
(* because an id is given out once (Registered), a retired row keeps its   *)
(* id, and whoever is about to stamp it has just had that id deleted       *)
(* (Errand).  A run that finds a row unmoved counts on from the row's own  *)
(* count (UpToDate), and a live row has a count only after a recorded      *)
(* failure (Counted).                                                      *)
(***************************************************************************)
Errand(r) ==
    /\ r.op # "idle" => dom[r.id].state # "none"
    /\ r.op \in {"connect", "check"} /\ r.step = "store" => r.cert \in Certs /\ cf[r.cert].host # None
    /\ r.op \in {"disconnect", "sweep"} /\ r.step \in {"delete", "stamp"} =>
          dom[r.id].state = "retired" /\ r.cert \in Certs /\ dom[r.id].cert = r.cert
    /\ r.op \in {"disconnect", "sweep"} /\ r.step = "stamp" => ~cf[r.cert].held

UpToDate(r) ==
    (r.op = "settle" /\ r.step \in {"get", "probe", "record"} /\ dom[r.id].seen = r.read.seen)
        => r.read.fails = dom[r.id].fails

Errands == /\ \A t \in Tasks : Errand(task[t]) /\ UpToDate(task[t])
           /\ \A t \in Tasks : task[t].op = "settle" => t \in Runs

Registered == \A d \in Domains : dom[d].cert # None => cf[dom[d].cert].host # None

Counted == \A d \in Domains : (dom[d].state = "live" /\ dom[d].fails > 0) => recorded[d] = "bad"

SweepInv == IInv /\ Errands /\ Registered /\ Counted /\ SweptIsGone

\* What a step may do to a row's Cloudflare id, its sweep stamp and its count.
RowTold(d) ==
    /\ dom'[d].cert # dom[d].cert =>
          \E t \in Tasks : At(t, {"connect", "check"}, "store") /\ dom'[d].cert = task[t].cert
    /\ dom'[d].swept # dom[d].swept =>
          \E t \in Tasks : At(t, {"disconnect", "sweep"}, "stamp") /\ task[t].id = d
    /\ dom'[d].seen # dom[d].seen => dom'[d].seen \in FreshStamps(d)
    /\ dom'[d].seen = dom[d].seen => dom'[d].fails = dom[d].fails
    /\ (dom'[d].state = "live" /\ dom'[d].fails > 0) =>
          \/ recorded'[d] = "bad"
          \/ dom[d].state = "live" /\ dom[d].fails > 0 /\ recorded'[d] = recorded[d]
    /\ (dom[d].state = "live" /\ dom'[d].state = "disconnected") =>
          /\ recorded'[d] = "bad"
          /\ \E t \in Tasks : /\ At(t, {"settle"}, "record") /\ task[t].id = d
                              /\ dom[d].seen = task[t].read.seen
                              /\ Strike(task[t].read.fails) >= FailuresToDisconnect

LEMMA SameRowTold ==
  ASSUME NEW d, dom'[d] = dom[d], recorded'[d] = recorded[d]
  PROVE  RowTold(d)
  BY DEF RowTold

\* Any write that leaves the id, the stamps and the count alone.
LEMMA MovedRowTold ==
  ASSUME NEW d, dom'[d].cert = dom[d].cert, dom'[d].swept = dom[d].swept, dom'[d].seen = dom[d].seen,
         dom'[d].fails = dom[d].fails, dom'[d].state \in {dom[d].state, "pending", "retired"},
         recorded'[d] = recorded[d]
  PROVE  RowTold(d)
  BY DEF RowTold

LEMMA RecordTold ==
  ASSUME TypeOK, TaskOK, NEW t \in Tasks, RecordByRequest(t) \/ RecordByRun(t), NEW e \in Domains
  PROVE  RowTold(e)
  <1> DEFINE d == task[t].id
             n == task[t].read.fails
             v == task[t].verdict
  <1>1. /\ task[t] \in TaskRecords /\ TaskSound(task[t]) /\ task[t].step = "record"
        /\ task[t].op \in {"connect", "check", "settle"}
    BY DEF TypeOK, TaskOK, RecordByRequest, RecordByRun, At
  <1>2. d \in Domains /\ dom[d] \in Rows /\ n \in 0..FailuresToDisconnect /\ v \in {"unknown", "bad", "good"}
    BY <1>1 DEF TaskSound, TaskRecords, TypeOK
  <1>3. UNCHANGED <<dom, recorded>> => RowTold(e)
    BY SameRowTold
  <1>4. SUFFICES ASSUME StillThere(t), Note(t, v),
                        task[t].op = "settle" => RecordByRun(t) /\ Unmoved(t),
                        NEW s \in FreshStamps(d),
                        dom' = [dom EXCEPT ![d] =
            CASE v = "good"    -> [Promoted(@) EXCEPT !.seen = s]
              [] v = "bad"     -> IF task[t].op = "settle"
                                    THEN [Failed(@, n) EXCEPT !.seen = s]
                                    ELSE [@ EXCEPT !.fails = Strike(n), !.seen = s]
              [] v = "unknown" -> [@ EXCEPT !.seen = s]]
                 PROVE  RowTold(e)
    <2>1. CASE RecordByRequest(t)
      <3>1. task[t].op # "settle"
        BY <2>1 DEF RecordByRequest, At
      <3> QED
        BY <1>3, <1>4, <2>1, <3>1 DEF RecordByRequest
    <2>2. CASE RecordByRun(t)
      <3>1. task[t].op = "settle"
        BY <2>2 DEF RecordByRun, At
      <3>2. Unmoved(t) => StillThere(t)
        BY DEF Unmoved
      <3> QED
        BY <1>3, <1>4, <2>2, <3>1, <3>2 DEF RecordByRun
    <2> QED
      BY <2>1, <2>2
  <1>4a. s \in FreshStamps(d) /\ s # dom[d].seen
    BY DEF FreshStamps, Unused
  <1>5. CASE e # d
    BY <1>2, <1>4, <1>5, SameRowTold DEF Note, TypeOK
  <1>6. CASE e = d
    <2>1. recorded'[d] = IF v = "unknown" THEN recorded[d] ELSE v
      BY <1>2, <1>4 DEF Note, TypeOK
    <2>2. CASE v = "good"
      <3>1. dom'[d] = [Promoted(dom[d]) EXCEPT !.seen = s]
        BY <1>2, <1>4, <2>2 DEF TypeOK
      <3>2. /\ dom'[d].cert = dom[d].cert /\ dom'[d].swept = dom[d].swept /\ dom'[d].seen = s
            /\ dom'[d].fails = 0 /\ dom'[d].state = "live"
        BY <1>2, <3>1 DEF Rows, Promoted
      <3>4. ~(dom'[d].fails > 0)
        BY <3>2
      <3>5. RowTold(d)
        BY <1>4a, <3>2, <3>4, Zenon DEF RowTold
      <3> QED
        BY <1>6, <3>5
    <2>3. CASE v = "unknown"
      <3>1. dom'[d] = [dom[d] EXCEPT !.seen = s]
        BY <1>2, <1>4, <2>3 DEF TypeOK
      <3>2. /\ dom'[d].cert = dom[d].cert /\ dom'[d].swept = dom[d].swept /\ dom'[d].seen = s
            /\ dom'[d].fails = dom[d].fails /\ dom'[d].state = dom[d].state
        BY <1>2, <3>1 DEF Rows
      <3> QED
        BY <1>6, <1>4a, <2>1, <2>3, <3>2 DEF RowTold
    <2>4. CASE v = "bad" /\ task[t].op # "settle"
      <3>1. dom'[d] = [dom[d] EXCEPT !.fails = Strike(n), !.seen = s]
        BY <1>2, <1>4, <2>4 DEF TypeOK
      <3>2. /\ dom'[d].cert = dom[d].cert /\ dom'[d].swept = dom[d].swept /\ dom'[d].seen = s
            /\ dom'[d].state = dom[d].state
        BY <1>2, <3>1 DEF Rows
      <3> QED
        BY <1>6, <1>4a, <2>1, <2>4, <3>2 DEF RowTold
    <2>5. CASE v = "bad" /\ task[t].op = "settle"
      <3>1. dom'[d] = [Failed(dom[d], n) EXCEPT !.seen = s]
        BY <1>2, <1>4, <2>5 DEF TypeOK
      <3>2. /\ dom'[d].cert = dom[d].cert /\ dom'[d].swept = dom[d].swept /\ dom'[d].seen = s
            /\ dom'[d].state # dom[d].state => Strike(n) >= FailuresToDisconnect
        <4>1. CASE dom[d].state = "pending"
          BY <1>2, <3>1, <4>1 DEF Rows, Failed
        <4>2. CASE dom[d].state # "pending" /\ dom[d].state = "live" /\ Strike(n) >= FailuresToDisconnect
          BY <1>2, <3>1, <4>2 DEF Rows, Failed
        <4>3. CASE dom[d].state # "pending" /\ ~(dom[d].state = "live" /\ Strike(n) >= FailuresToDisconnect)
          BY <1>2, <3>1, <4>3 DEF Rows, Failed
        <4> QED
          BY <4>1, <4>2, <4>3
      <3>4. dom[d].seen = task[t].read.seen /\ At(t, {"settle"}, "record")
        BY <1>1, <1>4, <2>5 DEF Unmoved, At
      <3> QED
        BY <1>6, <1>4a, <2>1, <2>5, <3>2, <3>4 DEF RowTold
    <2> QED
      BY <1>2, <2>2, <2>3, <2>4, <2>5
  <1> QED
    BY <1>5, <1>6

LEMMA StoreTold ==
  ASSUME TypeOK, TaskOK, NEW t \in Tasks, Store(t), NEW e \in Domains
  PROVE  RowTold(e)
  <1> DEFINE d == task[t].id
             c == task[t].cert
  <1>1. d \in Domains /\ dom[d] \in Rows /\ recorded' = recorded /\ At(t, {"connect", "check"}, "store")
    BY DEF TypeOK, TaskOK, TaskSound, Store, At
  <1>2. CASE UNCHANGED dom
    BY <1>1, <1>2, SameRowTold
  <1>3. CASE \E s \in FreshStamps(d) : dom' = [dom EXCEPT ![d].cert = c, ![d].seen = s]
    <2>1. PICK s \in FreshStamps(d) : dom' = [dom EXCEPT ![d].cert = c, ![d].seen = s]
      BY <1>3
    <2>2. s # dom[d].seen
      BY DEF FreshStamps, Unused
    <2>3. e # d => dom'[e] = dom[e]
      BY <2>1 DEF TypeOK
    <2>4. /\ dom'[d].cert = c /\ dom'[d].swept = dom[d].swept /\ dom'[d].seen = s
          /\ dom'[d].fails = dom[d].fails /\ dom'[d].state = dom[d].state
      BY <1>1, <2>1 DEF TypeOK, Rows
    <2>5. RowTold(d)
      BY <1>1, <2>2, <2>4 DEF RowTold
    <2> QED
      BY <1>1, <2>3, <2>5, SameRowTold
  <1>4. CASE dom' = [dom EXCEPT ![d].cert = c]
    <2>1. e # d => dom'[e] = dom[e]
      BY <1>4 DEF TypeOK
    <2>2. /\ dom'[d].cert = c /\ dom'[d].swept = dom[d].swept /\ dom'[d].seen = dom[d].seen
          /\ dom'[d].fails = dom[d].fails /\ dom'[d].state = dom[d].state
      BY <1>1, <1>4 DEF TypeOK, Rows
    <2>3. RowTold(d)
      BY <1>1, <2>2 DEF RowTold
    <2> QED
      BY <1>1, <2>1, <2>3, SameRowTold
  <1> QED
    BY <1>2, <1>3, <1>4 DEF Store, StoreId

LEMMA RetireTold ==
  ASSUME TypeOK, TaskOK, NEW t \in Tasks, Retire(t) \/ Stamp(t), NEW e \in Domains
  PROVE  RowTold(e)
  <1> DEFINE d == task[t].id
  <1>1. d \in Domains /\ dom[d] \in Rows /\ recorded' = recorded
    BY DEF TypeOK, TaskOK, TaskSound, Retire, Stamp, At
  <1>2. CASE UNCHANGED dom
    BY <1>1, <1>2, SameRowTold
  <1>3. CASE Retire(t) /\ dom' = [dom EXCEPT ![d] = Retired(@)]
    <2>1. e # d => dom'[e] = dom[e]
      BY <1>3 DEF TypeOK
    <2>2. /\ dom'[d].cert = dom[d].cert /\ dom'[d].swept = dom[d].swept /\ dom'[d].seen = dom[d].seen
          /\ dom'[d].fails = dom[d].fails /\ dom'[d].state = "retired"
      BY <1>1, <1>3 DEF TypeOK, Rows, Retired
    <2> QED
      BY <1>1, <2>1, <2>2, SameRowTold, MovedRowTold
  <1>4. CASE Stamp(t) /\ dom' = [dom EXCEPT ![d].swept = TRUE]
    <2>1. e # d => dom'[e] = dom[e]
      BY <1>4 DEF TypeOK
    <2>2. /\ dom'[d].cert = dom[d].cert /\ dom'[d].seen = dom[d].seen
          /\ dom'[d].fails = dom[d].fails /\ dom'[d].state = dom[d].state
      BY <1>1, <1>4 DEF TypeOK, Rows
    <2>3. At(t, {"disconnect", "sweep"}, "stamp")
      BY <1>4 DEF Stamp
    <2>4. RowTold(d)
      BY <1>1, <2>2, <2>3 DEF RowTold
    <2> QED
      BY <1>1, <2>1, <2>4, SameRowTold
  <1> QED
    BY <1>2, <1>3, <1>4 DEF Retire, Stamp

LEMMA RowsTold ==
  ASSUME TypeOK, TaskOK, [Next]_vars, NEW e \in Domains
  PROVE  RowTold(e)
  <1>1. UNCHANGED <<dom, recorded>> => RowTold(e)
    BY SameRowTold
  <1>2. ASSUME NEW t \in Tasks, StartRequest(t) \/ StartRun(t) \/ Crash(t)
        PROVE  RowTold(e)
    <2>1. ASSUME NEW o \in Owners, NEW h \in Hostnames, StartConnect(t, o, h)
          PROVE  RowTold(e)
      <3>1. PICK d \in Domains : /\ dom[d] = NoRow
                                 /\ dom' = [dom EXCEPT ![d] = [NoRow EXCEPT !.owner = o, !.host = h,
                                              !.state = "pending", !.review = PreviousOwner(o, h)]]
        BY <2>1 DEF StartConnect
      <3>2. recorded' = recorded
        BY <2>1 DEF StartConnect
      <3>3. e # d => dom'[e] = dom[e]
        BY <3>1 DEF TypeOK
      <3>4. dom'[d] = [NoRow EXCEPT !.owner = o, !.host = h, !.state = "pending", !.review = PreviousOwner(o, h)]
        BY <3>1 DEF TypeOK
      <3>5. /\ dom'[d].cert = dom[d].cert /\ dom'[d].swept = dom[d].swept /\ dom'[d].seen = dom[d].seen
            /\ dom'[d].fails = dom[d].fails /\ dom'[d].state = "pending"
        <4>1. /\ dom'[d].cert = NoRow.cert /\ dom'[d].swept = NoRow.swept /\ dom'[d].seen = NoRow.seen
              /\ dom'[d].fails = NoRow.fails /\ dom'[d].state = "pending"
          BY <3>4, ZenonT(60) DEF NoRow
        <4> QED
          BY <3>1, <4>1
      <3> QED
        BY <3>2, <3>3, <3>5, SameRowTold, MovedRowTold
    <2> QED
      BY <1>1, <1>2, <2>1 DEF StartRequest, StartRun, StartCheck, StartDisconnect, StartSettle, StartSweep, Crash
  <1>3. ASSUME NEW t \in Tasks, Continue(t)
        PROVE  RowTold(e)
    <2>1. CASE Store(t) \/ Retire(t) \/ Stamp(t) \/ RecordByRequest(t) \/ RecordByRun(t)
      BY <2>1, StoreTold, RetireTold, RecordTold
    <2> QED
      BY <1>1, <1>3, <2>1 DEF Continue, Post, Find, Repost, Giveback, Get, Probe, DefaultByRequest,
                              FinishPromotion, Unset, DeleteConfirmed, DeleteFailed
  <1>4. ASSUME NEW o \in Owners, DeleteProfile(o)
        PROVE  RowTold(e)
    <2>1. recorded' = recorded /\ dom'[e] = IF dom[e].owner = o THEN Retired(dom[e]) ELSE dom[e]
      BY <1>4 DEF DeleteProfile
    <2>2. dom[e] \in Rows
      BY DEF TypeOK
    <2>3. CASE dom[e].owner = o
      <3>1. /\ dom'[e].cert = dom[e].cert /\ dom'[e].swept = dom[e].swept /\ dom'[e].seen = dom[e].seen
            /\ dom'[e].fails = dom[e].fails /\ dom'[e].state = "retired"
        BY <2>1, <2>2, <2>3 DEF Rows, Retired
      <3> QED
        BY <2>1, <3>1, MovedRowTold
    <2> QED
      BY <2>1, <2>3, SameRowTold
  <1>5. ASSUME NEW d \in Domains, Approve(d)
        PROVE  RowTold(e)
    <2>1. recorded' = recorded /\ dom' = [dom EXCEPT ![d].review = FALSE, ![d].approved = TRUE]
      BY <1>5 DEF Approve
    <2>2. e # d => dom'[e] = dom[e]
      BY <2>1 DEF TypeOK
    <2>3. /\ dom'[d].cert = dom[d].cert /\ dom'[d].swept = dom[d].swept /\ dom'[d].seen = dom[d].seen
          /\ dom'[d].fails = dom[d].fails /\ dom'[d].state = dom[d].state
      BY <2>1 DEF TypeOK, Rows
    <2> QED
      BY <2>1, <2>2, <2>3, SameRowTold, MovedRowTold
  <1>6. CASE (\E o \in Owners : ChangeTier(o)) \/ UNCHANGED vars
    BY <1>1, <1>6 DEF ChangeTier, vars
  <1> QED
    BY <1>2, <1>3, <1>4, <1>5, <1>6 DEF Next, Database, Tasks

\* Cloudflare gives an id out once, and what it deleted does not come back.
CfTold(c) == cf[c].host # None => cf'[c].host # None /\ (cf'[c].held => cf[c].held)

LEMMA RegisterTold ==
  ASSUME cf \in Zones, NEW c \in Certs, NEW h, Register(c, h)
  PROVE  /\ \A b \in Certs : CfTold(b)
         /\ cf'[c].host = h
  BY DEF Zones, Register, CfTold

LEMMA DeleteTold ==
  ASSUME cf \in Zones, NEW c, Delete(c)
  PROVE  /\ \A b \in Certs : CfTold(b)
         /\ c \in Certs => ~cf'[c].held
  BY DEF Zones, Delete, CfTold

LEMMA CfStep ==
  ASSUME TypeOK, [Next]_vars
  PROVE  \A c \in Certs : CfTold(c)
  <1>1. cf \in Zones
    BY DEF TypeOK, Zones
  <1>2. UNCHANGED cf => \A c \in Certs : CfTold(c)
    BY DEF CfTold
  <1>3. ASSUME NEW t \in Tasks, StartRequest(t) \/ StartRun(t) \/ Crash(t)
        PROVE  UNCHANGED cf
    BY <1>3 DEF StartRequest, StartRun, StartConnect, StartCheck, StartDisconnect, StartSettle, StartSweep, Crash
  <1>4. ASSUME NEW t \in Tasks, Continue(t)
        PROVE  \A c \in Certs : CfTold(c)
    <2>1. CASE Post(t) \/ Repost(t)
      <3>1. UNCHANGED cf \/ \E c \in Certs : Register(c, HostOf(t))
        BY <2>1 DEF Post, Repost, PostLost
      <3> QED
        BY <1>1, <1>2, <3>1, RegisterTold
    <2>2. CASE Giveback(t) \/ DeleteConfirmed(t) \/ DeleteFailed(t)
      <3>1. UNCHANGED cf \/ Delete(task[t].cert)
        BY <2>2 DEF Giveback, DeleteConfirmed, DeleteFailed, DeleteUnconfirmed
      <3> QED
        BY <1>1, <1>2, <3>1, DeleteTold
    <2> QED
      BY <1>2, <1>4, <2>1, <2>2 DEF Continue, Find, Store, Get, Probe, RecordByRequest, RecordByRun,
                                    DefaultByRequest, FinishPromotion, Unset, Retire, Stamp
  <1>5. CASE Database \/ UNCHANGED vars
    BY <1>2, <1>5 DEF Database, ChangeTier, DeleteProfile, Approve, vars
  <1> QED
    BY <1>2, <1>3, <1>4, <1>5 DEF Next, Tasks

(***************************************************************************)
(* Errands.  A row that is there stays there, so a task that does not move *)
(* keeps its errand; the task that moves is looked at action by action.    *)
(***************************************************************************)
Stable == /\ \A d \in Domains : dom[d].state # "none" =>
                /\ dom'[d].state # "none"
                /\ dom[d].state = "retired" => dom'[d].state = "retired" /\ dom'[d].cert = dom[d].cert
          /\ \A c \in Certs : CfTold(c)
          /\ \A d \in Domains : RowTold(d)

LEMMA StepStable == ASSUME IInv, [Next]_vars PROVE Stable
  <1>1. TypeOK /\ TaskOK /\ Blank
    BY DEF IInv
  <1>2. ASSUME NEW d \in Domains, dom[d].state # "none"
        PROVE  /\ dom'[d].state # "none"
               /\ dom[d].state = "retired" => dom'[d].state = "retired" /\ dom'[d].cert = dom[d].cert
    <2>1. dom[d] \in Rows /\ dom'[d] \in Rows
      BY <1>1, StepTypes DEF TypeOK
    <2>2. dom'[d] = dom[d] \/ RowMoves(dom[d], dom'[d])
      BY <1>1, <1>2, RowStep, ClaimedRow
    <2>3. dom[d].state = "retired" /\ RowMoves(dom[d], dom'[d]) => dom'[d].state = "retired" /\ dom'[d].cert = dom[d].cert
      <3>1. SUFFICES ASSUME dom[d].state = "retired",
                            dom'[d] = [dom[d] EXCEPT !.swept = dom'[d].swept, !.review = dom'[d].review,
                                                     !.approved = dom'[d].approved]
                     PROVE  dom'[d].state = "retired" /\ dom'[d].cert = dom[d].cert
        BY DEF RowMoves
      <3> QED
        BY <2>1, <3>1, ZenonT(60) DEF Rows
    <2> QED
      BY <1>2, <2>2, <2>3 DEF RowMoves
  <1> QED
    BY <1>1, <1>2, CfStep, RowsTold DEF Stable

LEMMA ErrandStays ==
  ASSUME IInv, Stable, Errands, Registered, NEW t \in Tasks, task'[t] = task[t]
  PROVE  (Errand(task[t]) /\ UpToDate(task[t]))' /\ (task'[t].op = "settle" => t \in Runs)
  <1> DEFINE r == task[t]
             d == task[t].id
  <1>1. r \in TaskRecords /\ TaskSound(r) /\ Errand(r) /\ UpToDate(r) /\ (r.op = "settle" => t \in Runs)
    BY DEF IInv, TypeOK, TaskOK, Errands
  <1>2. CASE r.op = "idle"
    BY <1>1, <1>2 DEF Errand, UpToDate
  <1>3. CASE r.op # "idle"
    <2>1. d \in Domains /\ dom[d].state # "none" /\ dom'[d].state # "none"
      BY <1>1, <1>3 DEF TaskSound, Errand, Stable
    <2>2. Errand(task[t])'
      <3>1. /\ dom[d].state = "retired" => dom'[d].state = "retired" /\ dom'[d].cert = dom[d].cert
            /\ r.cert \in Certs => /\ cf[r.cert].host # None => cf'[r.cert].host # None
                                   /\ cf[r.cert].host # None /\ ~cf[r.cert].held => ~cf'[r.cert].held
        BY <2>1 DEF Stable, CfTold
      <3>2. r.op \in {"disconnect", "sweep"} /\ r.step \in {"delete", "stamp"} => cf[r.cert].host # None
        BY <1>1, <2>1, NoneAssumption DEF Errand, Registered
      <3> QED
        BY <1>1, <2>1, <3>1, <3>2 DEF Errand
    <2>3. ASSUME r.op = "settle", dom'[d].seen = r.read.seen
          PROVE  dom[d].seen = r.read.seen /\ dom'[d].fails = dom[d].fails
      <3>1. dom'[d].seen # dom[d].seen => dom'[d].seen \in FreshStamps(d)
        BY <2>1 DEF Stable, RowTold
      <3>2. r.read.seen \notin FreshStamps(d)
        BY <1>1, <2>3 DEF FreshStamps, Unused
      <3>3. dom'[d].seen = dom[d].seen
        BY <2>3, <3>1, <3>2
      <3> QED
        BY <2>1, <2>3, <3>3 DEF Stable, RowTold
    <2>4. UpToDate(task[t])'
      BY <1>1, <2>3 DEF UpToDate
    <2> QED
      BY <1>1, <2>2, <2>4
  <1> QED
    BY <1>2, <1>3

\* The record a task moves to.
LEMMA TaskFields ==
  ASSUME TypeOK, NEW t \in Tasks
  PROVE  /\ Done(t) => task'[t].op = "idle"
         /\ \A step : Goto(t, step) =>
               /\ task'[t].op = task[t].op /\ task'[t].step = step /\ task'[t].id = task[t].id
               /\ task'[t].cert = task[t].cert /\ task'[t].read = task[t].read
         /\ \A step, c : GotoWith(t, step, c) =>
               /\ task'[t].op = task[t].op /\ task'[t].step = step /\ task'[t].id = task[t].id
               /\ task'[t].cert = c
         /\ \A verdict : Conclude(t, verdict) =>
               /\ task'[t].op = task[t].op /\ task'[t].step = "record" /\ task'[t].id = task[t].id
               /\ task'[t].read = task[t].read
         /\ \A step : Follow(t, step) =>
               task'[t].op = task[t].op /\ task'[t].step = step /\ task'[t].id = task[t].id
         /\ \A op, step, d, read, cert : Begin(t, op, step, d, read, cert) =>
               /\ task'[t].op = op /\ task'[t].step = step /\ task'[t].id = d
               /\ task'[t].read = read /\ task'[t].cert = cert
  <1>1. task[t] \in TaskRecords /\ DOMAIN task = Tasks
    BY DEF TypeOK
  <1>2. Done(t) => task'[t].op = "idle"
    BY <1>1 DEF Done, Idle
  <1>3. ASSUME NEW step, Goto(t, step)
        PROVE  /\ task'[t].op = task[t].op /\ task'[t].step = step /\ task'[t].id = task[t].id
               /\ task'[t].cert = task[t].cert /\ task'[t].read = task[t].read
    <2>1. task'[t] = [task[t] EXCEPT !.step = step]
      BY <1>1, <1>3 DEF Goto
    <2> QED
      BY <1>1, <2>1 DEF TaskRecords
  <1>4. ASSUME NEW step, NEW c, GotoWith(t, step, c)
        PROVE  /\ task'[t].op = task[t].op /\ task'[t].step = step /\ task'[t].id = task[t].id
               /\ task'[t].cert = c
    <2>1. task'[t] = [task[t] EXCEPT !.step = step, !.cert = c]
      BY <1>1, <1>4, ZenonT(60) DEF GotoWith
    <2> QED
      BY <1>1, <2>1 DEF TaskRecords
  <1>5. ASSUME NEW verdict, Conclude(t, verdict)
        PROVE  /\ task'[t].op = task[t].op /\ task'[t].step = "record" /\ task'[t].id = task[t].id
               /\ task'[t].read = task[t].read
    <2>1. task'[t] = [task[t] EXCEPT !.step = "record", !.cert = None, !.verdict = verdict]
      BY <1>1, <1>5, ZenonT(60) DEF Conclude
    <2> QED
      BY <1>1, <2>1 DEF TaskRecords
  <1>6. ASSUME NEW step, Follow(t, step)
        PROVE  task'[t].op = task[t].op /\ task'[t].step = step /\ task'[t].id = task[t].id
    <2>1. task'[t] = [Idle EXCEPT !.op = task[t].op, !.step = step, !.id = task[t].id]
      BY <1>1, <1>6 DEF Follow
    <2> QED
      BY <2>1 DEF Idle
  <1>7. ASSUME NEW op, NEW step, NEW d, NEW read, NEW cert, Begin(t, op, step, d, read, cert)
        PROVE  /\ task'[t].op = op /\ task'[t].step = step /\ task'[t].id = d
               /\ task'[t].read = read /\ task'[t].cert = cert
    BY <1>1, <1>7 DEF Begin
  <1> QED
    BY <1>2, <1>3, <1>4, <1>5, <1>6, <1>7

Errandly(t) == (Errand(task[t]) /\ UpToDate(task[t]))' /\ (task'[t].op = "settle" => t \in Runs)

LEMMA DoneErrandly ==
  ASSUME TypeOK, NEW t \in Tasks, Done(t)
  PROVE  Errandly(t)
  <1>1. task'[t].op = "idle"
    BY TaskFields
  <1> QED
    BY <1>1 DEF Errandly, Errand, UpToDate

\* A task that goes on with the row it is on, to a step that asks for nothing more.
LEMMA OnwardErrandly ==
  ASSUME Stable, NEW t \in Tasks, task[t].id \in Domains, dom[task[t].id].state # "none",
         task[t].op = "settle" => t \in Runs,
         task'[t].op = task[t].op, task'[t].id = task[t].id,
         task'[t].step \notin {"store", "delete", "stamp"},
         task'[t].op = "settle" => task'[t].step \notin {"get", "probe", "record"}
  PROVE  Errandly(t)
  BY DEF Errandly, Errand, UpToDate, Stable

\* A check that goes on by what it read.
LEMMA ReadingErrandly ==
  ASSUME Stable, NEW t \in Tasks, task[t].id \in Domains, dom[task[t].id].state # "none",
         task[t].op = "settle" => t \in Runs, UpToDate(task[t]),
         task[t].step \in {"get", "probe", "record"}, UNCHANGED dom,
         task'[t].op = task[t].op, task'[t].id = task[t].id, task'[t].read = task[t].read,
         task'[t].step \in {"get", "probe", "record"}
  PROVE  Errandly(t)
  BY DEF Errandly, Errand, UpToDate, Stable

LEMMA ContinueErrandly ==
  ASSUME IInv, Stable, Errands, NEW t \in Tasks, Continue(t)
  PROVE  Errandly(t)
  <1> DEFINE d == task[t].id
             op == task[t].op
  <1>1. TypeOK /\ TaskOK /\ Blank /\ cf \in Zones
    BY DEF IInv, TypeOK, Zones
  <1>2. /\ op # "idle"
        /\ task[t] \in TaskRecords /\ TaskSound(task[t])
        /\ Errand(task[t]) /\ UpToDate(task[t]) /\ (op = "settle" => t \in Runs)
    BY <1>1 DEF TypeOK, TaskOK, Errands, Continue, Post, Find, Repost, Store, Giveback, Get, Probe,
                RecordByRequest, RecordByRun, DefaultByRequest, FinishPromotion, Unset, Retire,
                DeleteConfirmed, DeleteFailed, Stamp, At
  <1>3. d \in Domains /\ dom[d].state # "none" /\ dom'[d].state # "none"
    BY <1>2 DEF TaskSound, Errand, Stable
  <1>4. HostOf(t) # None
    BY <1>1, <1>3, NoneAssumption DEF HostOf, Blank
  <1>5. ASSUME NEW step \in {"find", "repost", "get", "giveback", "retire"}, Goto(t, step), op # "settle"
        PROVE  Errandly(t)
    BY <1>1, <1>2, <1>3, <1>5, TaskFields, OnwardErrandly
  <1>6. ASSUME NEW step \in {"default", "unset"}, Follow(t, step)
        PROVE  Errandly(t)
    BY <1>1, <1>2, <1>3, <1>6, TaskFields, OnwardErrandly
  <1>7. ASSUME Done(t) PROVE Errandly(t)
    BY <1>1, <1>7, DoneErrandly
  <1>8. ASSUME NEW c \in Certs, GotoWith(t, "store", c), op \in {"connect", "check"}, cf'[c].host # None
        PROVE  Errandly(t)
    <2>1. task'[t].op = op /\ task'[t].id = d /\ task'[t].step = "store" /\ task'[t].cert = c
      BY <1>1, <1>8, TaskFields
    <2> QED
      BY <1>3, <1>8, <2>1 DEF Errandly, Errand, UpToDate
  <1>9. CASE Post(t) \/ Repost(t)
    <2>1. op \in {"connect", "check"}
      BY <1>9 DEF Post, Repost, At
    <2>2. CASE \E c \in Certs : Register(c, HostOf(t)) /\ GotoWith(t, "store", c)
      BY <1>1, <1>4, <1>8, <2>1, <2>2, RegisterTold
    <2>3. CASE Goto(t, "find")
      BY <1>5, <2>1, <2>3
    <2>4. CASE Conclude(t, "unknown")
      BY <1>1, <1>2, <1>3, <2>1, <2>4, TaskFields, OnwardErrandly
    <2> QED
      BY <1>9, <2>2, <2>3, <2>4 DEF Post, Repost
  <1>10. CASE Find(t)
    <2>1. op \in {"connect", "check"} /\ UNCHANGED cf
      BY <1>10 DEF Find, At
    <2>2. CASE \E c \in Certs : cf[c].host = HostOf(t) /\ GotoWith(t, "store", c)
      BY <1>4, <1>8, <2>1, <2>2
    <2>3. CASE Goto(t, "repost")
      BY <1>5, <2>1, <2>3
    <2> QED
      BY <1>10, <2>2, <2>3 DEF Find
  <1>11. CASE Store(t)
    <2>1. op # "settle"
      BY <1>11 DEF Store, At
    <2> QED
      BY <1>5, <1>7, <1>11, <2>1 DEF Store
  <1>12. CASE Get(t) \/ Probe(t)
    <2>1. UNCHANGED dom /\ task[t].step \in {"get", "probe", "record"}
      BY <1>12 DEF Get, Probe, At
    <2>2. Goto(t, "probe") \/ Conclude(t, "unknown") \/ Conclude(t, "bad") \/ Conclude(t, "good")
      BY <1>12 DEF Get, Probe
    <2>3. /\ task'[t].op = task[t].op /\ task'[t].id = task[t].id /\ task'[t].read = task[t].read
          /\ task'[t].step \in {"get", "probe", "record"}
      BY <1>1, <2>2, TaskFields
    <2> QED
      BY <1>2, <1>3, <2>1, <2>3, ReadingErrandly
  <1>13. CASE RecordByRequest(t) \/ RecordByRun(t)
    <2>1. Follow(t, "default") \/ Follow(t, "unset") \/ Done(t)
      BY <1>13 DEF RecordByRequest, RecordByRun
    <2> QED
      BY <1>6, <1>7, <2>1
  <1>14. CASE Unset(t)
    BY <1>5, <1>7, <1>14 DEF Unset
  <1>15. CASE Retire(t)
    <2>1. CASE Done(t)
      BY <1>7, <2>1
    <2>2. CASE GotoWith(t, "delete", dom[d].cert) /\ dom' = [dom EXCEPT ![d] = Retired(@)] /\ dom[d].cert # None
      <3>1. /\ task'[t].op = "disconnect" /\ task'[t].id = d /\ task'[t].step = "delete"
            /\ task'[t].cert = dom[d].cert
        BY <1>1, <1>15, <2>2, TaskFields DEF Retire, At
      <3>2. dom[d] \in Rows /\ dom'[d] = Retired(dom[d])
        BY <1>1, <1>3, <2>2 DEF TypeOK
      <3>3. dom'[d].state = "retired" /\ dom'[d].cert = dom[d].cert /\ dom[d].cert \in Certs
        BY <2>2, <3>2 DEF Rows, Retired
      <3> QED
        BY <3>1, <3>3 DEF Errandly, Errand, UpToDate
    <2> QED
      BY <1>15, <2>1, <2>2 DEF Retire
  <1>16. CASE DeleteConfirmed(t)
    <2>1. /\ op \in {"disconnect", "sweep"} /\ task[t].step = "delete" /\ UNCHANGED dom
          /\ Delete(task[t].cert) /\ Goto(t, "stamp")
      BY <1>16 DEF DeleteConfirmed, At
    <2>2. dom[d].state = "retired" /\ task[t].cert \in Certs /\ dom[d].cert = task[t].cert
      BY <1>2, <2>1 DEF Errand
    <2>3. ~cf'[task[t].cert].held
      BY <1>1, <2>1, <2>2, DeleteTold
    <2>4. task'[t].op = op /\ task'[t].id = d /\ task'[t].step = "stamp" /\ task'[t].cert = task[t].cert
      BY <1>1, <2>1, TaskFields
    <2> QED
      BY <2>1, <2>2, <2>3, <2>4 DEF Errandly, Errand, UpToDate
  <1>17. CASE Giveback(t) \/ DefaultByRequest(t) \/ FinishPromotion(t) \/ DeleteFailed(t) \/ Stamp(t)
    BY <1>7, <1>17 DEF Giveback, DefaultByRequest, FinishPromotion, DeleteFailed, LeftForTheSweep, Stamp
  <1> QED
    BY <1>9, <1>10, <1>11, <1>12, <1>13, <1>14, <1>15, <1>16, <1>17 DEF Continue

LEMMA StartErrandly ==
  ASSUME IInv, Stable, NEW t \in Tasks,
         (t \in Requests /\ StartRequest(t)) \/ (t \in Runs /\ StartRun(t))
  PROVE  Errandly(t)
  <1>1. TypeOK
    BY DEF IInv
  <1>2. ASSUME NEW o \in Owners, NEW h \in Hostnames, StartConnect(t, o, h)
        PROVE  Errandly(t)
    <2>1. PICK d \in Domains :
             LET row == [NoRow EXCEPT !.owner = o, !.host = h, !.state = "pending", !.review = PreviousOwner(o, h)]
             IN  dom' = [dom EXCEPT ![d] = row] /\ Begin(t, "connect", "post", d, ReadByRequest(row), None)
      BY <1>2 DEF StartConnect
    <2>2. dom'[d].state = "pending"
      <3>1. dom'[d] = [NoRow EXCEPT !.owner = o, !.host = h, !.state = "pending", !.review = PreviousOwner(o, h)]
        BY <1>1, <2>1 DEF TypeOK
      <3> QED
        BY <3>1 DEF NoRow
    <2>3. task'[t].op = "connect" /\ task'[t].id = d /\ task'[t].step = "post"
      BY <1>1, <2>1, TaskFields
    <2> QED
      BY <2>2, <2>3 DEF Errandly, Errand, UpToDate
  <1>3. ASSUME NEW d \in Domains, StartCheck(t, d) \/ StartDisconnect(t, d)
        PROVE  Errandly(t)
    <2>1. dom[d].state # "none" /\ UNCHANGED dom
      BY <1>3 DEF StartCheck, StartDisconnect, Current
    <2>2. /\ task'[t].op \in {"check", "disconnect"} /\ task'[t].id = d
          /\ task'[t].step \in {"post", "get", "unset"}
      BY <1>1, <1>3, TaskFields DEF StartCheck, StartDisconnect
    <2> QED
      BY <2>1, <2>2 DEF Errandly, Errand, UpToDate
  <1>4. ASSUME NEW d \in Domains, t \in Runs, StartSettle(t, d)
        PROVE  Errandly(t)
    <2>1. dom[d].state # "none" /\ UNCHANGED dom
      BY <1>4 DEF StartSettle, Current
    <2>2. /\ task'[t].op = "settle" /\ task'[t].id = d /\ task'[t].step = "get"
          /\ task'[t].read = ReadByRun(dom[d])
      BY <1>1, <1>4, TaskFields DEF StartSettle
    <2>3. task'[t].read.fails = dom[d].fails
      BY <2>2 DEF ReadByRun
    <2> QED
      BY <1>4, <2>1, <2>2, <2>3 DEF Errandly, Errand, UpToDate
  <1>5. ASSUME NEW d \in Domains, StartSweep(t, d)
        PROVE  Errandly(t)
    <2>1. dom[d].state = "retired" /\ dom[d].cert # None /\ UNCHANGED dom
      BY <1>5 DEF StartSweep, SweepDue
    <2>2. /\ task'[t].op = "sweep" /\ task'[t].id = d /\ task'[t].step = "delete"
          /\ task'[t].cert = dom[d].cert
      BY <1>1, <1>5, TaskFields DEF StartSweep
    <2>3. dom[d].cert \in Certs
      BY <1>1, <2>1 DEF TypeOK, Rows
    <2> QED
      BY <2>1, <2>2, <2>3 DEF Errandly, Errand, UpToDate
  <1> QED
    BY <1>2, <1>3, <1>4, <1>5 DEF StartRequest, StartRun

LEMMA ErrandsStep ==
  ASSUME IInv, Stable, Errands, Registered, [Next]_vars
  PROVE  Errands'
  <1>1. TypeOK
    BY DEF IInv
  <1>2. ASSUME NEW t \in Tasks, NEW u \in Tasks,
               (t \in Requests /\ StartRequest(t)) \/ (t \in Runs /\ StartRun(t)) \/ Continue(t) \/ Crash(t)
        PROVE  Errandly(u)
    <2>1. u # t => task'[u] = task[u]
      <3>1. TaskMoves(t)
        <4>1. CASE Crash(t)
          BY <4>1, DoneMoves DEF Crash
        <4> QED
          BY <1>1, <1>2, <4>1, StartTypes, ContinueTask DEF IInv
      <3> QED
        BY <1>1, <3>1 DEF TaskMoves, TypeOK
    <2>2. u # t => Errandly(u)
      BY <2>1, ErrandStays DEF Errandly
    <2>3. Errandly(t)
      <3>1. CASE Crash(t)
        BY <1>1, <3>1, DoneErrandly DEF Crash
      <3> QED
        BY <1>2, <3>1, StartErrandly, ContinueErrandly
    <2> QED
      BY <2>2, <2>3
  <1>3. CASE Database \/ UNCHANGED vars
    <2>1. UNCHANGED task
      BY <1>1, <1>3, DatabaseTypes DEF vars
    <2> QED
      BY <2>1, ErrandStays DEF Errands
  <1>4. CASE \A u \in Tasks : Errandly(u)
    BY <1>4 DEF Errands, Errandly
  <1> QED
    BY <1>2, <1>3, <1>4 DEF Next, Tasks

LEMMA SweepInvInit == Init => SweepInv
  <1> SUFFICES ASSUME Init PROVE SweepInv
    OBVIOUS
  <1>1. \A d \in Domains : dom[d].cert = None /\ dom[d].state = "none" /\ ~dom[d].swept
    BY DEF Init, NoRow
  <1>2. Errands
    BY DEF Init, Idle, Errands, Errand, UpToDate
  <1> QED
    BY <1>1, <1>2, InvInit DEF SweepInv, Registered, Counted, SweptIsGone

LEMMA RegisteredStep ==
  ASSUME SweepInv, Stable, [Next]_vars, TypeOK'
  PROVE  Registered'
  <1> SUFFICES ASSUME NEW d \in Domains, dom'[d].cert # None PROVE cf'[dom'[d].cert].host # None
    BY DEF Registered
  <1> DEFINE c == dom'[d].cert
  <1>1. c \in Certs /\ CfTold(c)
    BY DEF TypeOK, Rows, Stable
  <1>2. CASE dom'[d].cert = dom[d].cert
    BY <1>1, <1>2 DEF SweepInv, Registered, CfTold
  <1>3. CASE dom'[d].cert # dom[d].cert
    <2>1. PICK t \in Tasks : At(t, {"connect", "check"}, "store") /\ c = task[t].cert
      BY <1>3 DEF Stable, RowTold
    <2>2. cf[c].host # None
      BY <2>1 DEF SweepInv, Errands, Errand, At
    <2> QED
      BY <1>1, <2>2 DEF CfTold
  <1> QED
    BY <1>2, <1>3

LEMMA SweptStep ==
  ASSUME SweepInv, Stable
  PROVE  SweptIsGone'
  <1> SUFFICES ASSUME NEW d \in Domains, dom'[d].swept
               PROVE  dom'[d].state = "retired" /\ dom'[d].cert # None /\ ~cf'[dom'[d].cert].held
    BY DEF SweptIsGone
  <1>1. /\ dom[d].state = "retired" /\ dom[d].cert \in Certs
        /\ cf[dom[d].cert].host # None /\ ~cf[dom[d].cert].held
    <2>1. CASE dom[d].swept
      BY <2>1 DEF SweepInv, SweptIsGone, Registered, IInv, TypeOK, Rows
    <2>2. CASE dom'[d].swept # dom[d].swept
      <3>1. PICK t \in Tasks : At(t, {"disconnect", "sweep"}, "stamp") /\ task[t].id = d
        BY <2>2 DEF Stable, RowTold
      <3>2. dom[d].state = "retired" /\ dom[d].cert \in Certs /\ ~cf[dom[d].cert].held
        BY <3>1 DEF SweepInv, Errands, Errand, At
      <3> QED
        BY <3>2, NoneAssumption DEF SweepInv, Registered
    <2> QED
      BY <2>1, <2>2
  <1>2. dom'[d].state = "retired" /\ dom'[d].cert = dom[d].cert /\ CfTold(dom[d].cert)
    BY <1>1 DEF Stable
  <1> QED
    BY <1>1, <1>2, NoneAssumption DEF CfTold

LEMMA SweepInvStep == SweepInv /\ [Next]_vars => SweepInv'
  <1> SUFFICES ASSUME SweepInv, [Next]_vars PROVE SweepInv'
    OBVIOUS
  <1>1. IInv /\ IInv' /\ Stable
    BY InvStep, StepStable DEF SweepInv
  <1>2. Errands'
    BY <1>1, ErrandsStep DEF SweepInv
  <1>3. Registered'
    BY <1>1, RegisteredStep DEF IInv
  <1>4. Counted'
    BY <1>1 DEF SweepInv, Counted, Stable, RowTold
  <1>5. SweptIsGone'
    BY <1>1, SweptStep
  <1> QED
    BY <1>1, <1>2, <1>3, <1>4, <1>5 DEF SweepInv

THEOREM SweepInvariant == Spec => []SweepInv
  BY SweepInvInit, SweepInvStep, PTL DEF Spec

\* A row is stamped as swept only when the hostname it names is gone from
\* Cloudflare, and it stays gone: no claim's retry is lost.
THEOREM SweptIsGoneHolds == Spec => []SweptIsGone
  BY SweepInvariant, PTL DEF SweepInv

\* With a threshold of two or more, a live row is disconnected only after two
\* failures in a row were recorded on it, whatever checks overlapped.
THEOREM TwoStrikesHolds ==
  ASSUME FailuresToDisconnect >= 2
  PROVE  Spec => TwoStrikes
  <1> DEFINE Struck(d) == (dom[d].state = "live" /\ dom'[d].state = "disconnected")
                             => recorded[d] = "bad" /\ recorded'[d] = "bad"
  <1>1. ASSUME SweepInv, [Next]_vars PROVE \A d \in Domains : Struck(d)
    <2> SUFFICES ASSUME NEW d \in Domains, dom[d].state = "live", dom'[d].state = "disconnected"
                 PROVE  recorded[d] = "bad" /\ recorded'[d] = "bad"
      OBVIOUS
    <2>1. RowTold(d)
      BY <1>1, StepStable DEF SweepInv, Stable
    <2>2. PICK t \in Tasks : /\ At(t, {"settle"}, "record") /\ task[t].id = d
                             /\ dom[d].seen = task[t].read.seen
                             /\ Strike(task[t].read.fails) >= FailuresToDisconnect
      BY <2>1 DEF RowTold
    <2>3. task[t].read.fails = dom[d].fails
      BY <1>1, <2>2 DEF SweepInv, Errands, UpToDate, At
    <2>4. dom[d].fails \in 0..FailuresToDisconnect
      BY <1>1 DEF SweepInv, IInv, TypeOK, Rows
    <2>5. dom[d].fails > 0
      BY <2>2, <2>3, <2>4, BoundsAssumption DEF Strike
    <2>6. recorded[d] = "bad"
      BY <1>1, <2>5 DEF SweepInv, Counted
    <2> QED
      BY <2>1, <2>6 DEF RowTold
  <1> QED
    BY <1>1, SweepInvariant, PTL DEF Spec, TwoStrikes

-----------------------------------------------------------------------------
(***************************************************************************)
(* ShareHosts: links and recipients beside the claims.  They write nothing *)
(* of a claim, so all of the above holds with them too (HostsRefine); what *)
(* they rely on is that a row which has been live keeps its owner and is   *)
(* never unborn (StaysBorn), and that a hostname has one claim.            *)
(***************************************************************************)
Makings == [step : {"none", "implied", "chosen", "refused", "inserted", "stamping", "made"},
            owner : Owners \cup {None}, choice : {"none", "default", "htmlradar"} \cup Domains,
            dom : Domains \cup {None}]

Visitings == [step : {"none", "resolved", "answered"}, share : Shares \cup {None},
              name : Hostnames \cup Owners \cup {None}, claim : Domains \cup {None}, served : BOOLEAN]

HostTypes == /\ share \in [Shares -> [owner : Owners \cup {None}, at : Addresses]]
             /\ making \in [Shares -> Makings]
             /\ visit \in [Visits -> Visitings]

\* A share that passed the insert trigger, or is there, is on a domain of its
\* owner's that has been live.
Owned(o, d) == dom[d].owner = o /\ dom[d].state \notin {"none", "pending"}
Placed == \A s \in Shares : (making[s].step = "inserted" /\ making[s].dom # None)
                               => Owned(making[s].owner, making[s].dom)

\* The claim a request was resolved to is still a row of that hostname.
Resolved == \A v \in Visits : visit[v].step = "resolved" =>
               /\ ~visit[v].served
               /\ visit[v].name \in Hostnames => /\ visit[v].claim \in Domains
                                                 /\ dom[visit[v].claim].state # "none"
                                                 /\ dom[visit[v].claim].host = visit[v].name

HostInv == IInv /\ HostTypes /\ Placed /\ Resolved /\ SharesOnOwnDomain

LEMMA HostStepIsStep == [HostNext]_allVars => [Next]_vars
  BY DEF HostNext, ClaimStep, ShareStep, VisitStep, ChooseHost, LookAtDefault, InsertShare, CommitShare,
         StampShareHost, Resolve, Answer, allVars, vars

\* The links and the recipients leave the life of a domain as CustomDomains
\* says it is: every behaviour of the two together is one of CustomDomains.
THEOREM HostsRefine == HostSpec => Spec
  <1>1. HostInit => Init
    BY DEF HostInit
  <1> QED
    BY <1>1, HostStepIsStep, PTL DEF HostSpec, Spec

LEMMA AddressKinds ==
  /\ \A d : OnDomain(d).kind = "domain" /\ OnDomain(d).of = d
  /\ Apex.kind = "apex" /\ \A o : OnHandle(o).kind = "handle"
  /\ \A a \in Addresses : a.kind = "domain" => a.of \in Domains
  /\ \A d \in Domains \cup {None} : /\ AddressOf(d) \in Addresses
                                    /\ AddressOf(d).kind = "domain" => d # None /\ AddressOf(d).of = d
  <1>1. /\ \A d : OnDomain(d).kind = "domain" /\ OnDomain(d).of = d
        /\ Apex.kind = "apex" /\ \A o : OnHandle(o).kind = "handle"
    BY DEF OnDomain, Apex, OnHandle
  <1>2. \A a \in Addresses : a.kind = "domain" => a.of \in Domains
    BY <1>1 DEF Addresses
  <1>3. ASSUME NEW d \in Domains \cup {None}
        PROVE  /\ AddressOf(d) \in Addresses
               /\ AddressOf(d).kind = "domain" => d # None /\ AddressOf(d).of = d
    <2>1. CASE d = None
      BY <1>1, <2>1 DEF AddressOf, Addresses
    <2>2. CASE d # None
      BY <1>1, <2>2 DEF AddressOf, Addresses
    <2> QED
      BY <2>1, <2>2
  <1> QED
    BY <1>1, <1>2, <1>3

LEMMA HostInvInit == HostInit => HostInv
  <1> SUFFICES ASSUME HostInit PROVE HostInv
    OBVIOUS
  <1>1. Init
    BY DEF HostInit
  <1>2. \A s \in Shares : /\ share[s] \in [owner : Owners \cup {None}, at : Addresses]
                          /\ share[s].at.kind # "domain"
    <2> SUFFICES ASSUME NEW s \in Shares
                 PROVE  share[s] \in [owner : Owners \cup {None}, at : Addresses] /\ share[s].at.kind # "domain"
      OBVIOUS
    <2>1. CASE share[s] = NoShare
      BY <2>1, AddressKinds DEF NoShare, Addresses
    <2>2. CASE share[s] # NoShare
      <3>1. PICK o \in Owners, a \in {Apex} \cup {OnHandle(p) : p \in Owners} : share[s] = [owner |-> o, at |-> a]
        BY <2>2 DEF HostInit
      <3> QED
        BY <3>1, AddressKinds DEF Addresses
    <2> QED
      BY <2>1, <2>2
  <1>3. NotMaking \in Makings /\ [NotMaking EXCEPT !.step = "made"] \in Makings
    BY DEF NotMaking, Makings
  <1>4. HostTypes
    <2>1. share \in [Shares -> [owner : Owners \cup {None}, at : Addresses]]
      BY <1>2 DEF HostInit
    <2>2. making \in [Shares -> Makings]
      BY <1>3 DEF HostInit
    <2>3. NotVisiting \in Visitings
      BY DEF NotVisiting, Visitings
    <2>4. visit \in [Visits -> Visitings]
      BY <2>3 DEF HostInit
    <2> QED
      BY <2>1, <2>2, <2>4 DEF HostTypes
  <1>5. Placed
    BY DEF HostInit, Placed, NotMaking
  <1>6. Resolved
    BY DEF HostInit, Resolved, NotVisiting
  <1> QED
    BY <1>1, <1>2, <1>4, <1>5, <1>6, InvInit DEF HostInv, SharesOnOwnDomain

StillOwned(o, d) == dom'[d].owner = o /\ dom'[d].state \notin {"none", "pending"}

\* A row keeps its owner and its hostname, and one that has been live stays so.
LEMMA RowsKept ==
  ASSUME IInv, [Next]_vars, NEW d \in Domains, dom[d].state # "none"
  PROVE  /\ dom'[d].state # "none" /\ dom'[d].owner = dom[d].owner /\ dom'[d].host = dom[d].host
         /\ \A o : Owned(o, d) => StillOwned(o, d)
  <1>1. TypeOK /\ TaskOK /\ Blank
    BY DEF IInv
  <1>2. dom'[d] = dom[d] \/ RowMoves(dom[d], dom'[d])
    BY <1>1, RowStep, ClaimedRow
  <1>3. dom'[d].state # "none" /\ dom'[d].owner = dom[d].owner /\ dom'[d].host = dom[d].host
    BY <1>2 DEF RowMoves
  <1> QED
    BY <1>1, <1>3, StaysBorn DEF Owned, StillOwned

LEMMA HostTypesStep ==
  ASSUME HostInv, [HostNext]_allVars
  PROVE  HostTypes'
  <1>1. TypeOK /\ HostTypes
    BY DEF HostInv, IInv
  <1>2. CASE UNCHANGED <<share, making, visit>>
    BY <1>1, <1>2 DEF HostTypes
  <1>3. CASE ClaimStep
    <2>1. NoShare \in [owner : Owners \cup {None}, at : Addresses]
      BY DEF NoShare, Addresses
    <2> QED
      BY <1>1, <1>3, <2>1 DEF ClaimStep, HostTypes
  <1>4. ASSUME NEW s \in Shares, NEW o \in Owners, NEW choice \in {"default", "htmlradar"} \cup Domains,
               ChooseHost(s, o, choice)
        PROVE  HostTypes'
    <2>1. Chosen(o, choice) \in Domains \cup {None}
      BY <1>1 DEF Chosen, TypeOK
    <2>2. \A step \in {"implied", "chosen"} :
             [step |-> step, owner |-> o, choice |-> choice, dom |-> Chosen(o, choice)] \in Makings
      BY <2>1 DEF Makings
    <2> QED
      BY <1>1, <1>4, <2>2 DEF ChooseHost, HostTypes
  <1>5. ASSUME NEW s \in Shares,
               LookAtDefault(s) \/ InsertShare(s) \/ CommitShare(s) \/ StampShareHost(s)
        PROVE  HostTypes'
    <2>1. making[s] \in Makings /\ share[s] \in [owner : Owners \cup {None}, at : Addresses]
      BY <1>1 DEF HostTypes
    <2>2. \A step \in {"chosen", "refused", "inserted", "stamping", "made"} :
             [making[s] EXCEPT !.step = step] \in Makings
      BY <2>1 DEF Makings
    <2>3. making' \in [Shares -> Makings] /\ UNCHANGED visit
      BY <1>1, <1>5, <2>2 DEF LookAtDefault, InsertShare, CommitShare, StampShareHost, HostTypes
    <2>4. UNCHANGED share \/ \E new \in [owner : Owners \cup {None}, at : Addresses] :
                                share' = [share EXCEPT ![s] = new]
      <3>1. CASE LookAtDefault(s) \/ InsertShare(s)
        BY <3>1 DEF LookAtDefault, InsertShare
      <3>2. CASE CommitShare(s)
        BY <2>1, <3>2, AddressKinds DEF CommitShare, Makings, NoShare, Addresses
      <3>3. CASE StampShareHost(s)
        <4>1. CASE UNCHANGED share
          BY <4>1
        <4>2. CASE share[s].at = OnHandle(making[s].owner) /\ share' = [share EXCEPT ![s] =
                     [share[s] EXCEPT !.at = OnHandle(making[s].owner)]]
          BY <1>1, <2>1, <4>2 DEF HostTypes
        <4> QED
          BY <2>1, <3>3, <4>1, <4>2 DEF StampShareHost, AddressFrozen
      <3> QED
        BY <1>5, <3>1, <3>2, <3>3
    <2> QED
      BY <1>1, <2>3, <2>4 DEF HostTypes
  <1>6. CASE VisitStep
    <2>1. UNCHANGED <<share, making>>
      BY <1>6 DEF VisitStep, Resolve, Answer
    <2>2. ASSUME NEW v \in Visits, NEW s \in Shares, NEW name \in Hostnames \cup Owners \cup {None},
                 Resolve(v, s, name)
          PROVE  visit' \in [Visits -> Visitings]
      <3> DEFINE r0 == [NotVisiting EXCEPT !.step = "resolved", !.share = s, !.name = name]
                 r(d) == [NotVisiting EXCEPT !.step = "resolved", !.share = s, !.name = name, !.claim = d]
      <3>1. r0 \in Visitings /\ \A d \in Domains : r(d) \in Visitings
        BY DEF NotVisiting, Visitings
      <3>2. PICK x \in Visitings : visit' = [visit EXCEPT ![v] = x]
        BY <2>2, <3>1 DEF Resolve, Claims
      <3> QED
        BY <1>1, <3>2 DEF HostTypes
    <2>3. ASSUME NEW v \in Visits, Answer(v)
          PROVE  visit' \in [Visits -> Visitings]
      <3> DEFINE answer == share[visit[v].share].owner # None /\ Serves(v)
      <3>1. answer \in BOOLEAN
        OBVIOUS
      <3> HIDE DEF answer
      <3>2. [visit[v] EXCEPT !.step = "answered", !.served = answer] \in Visitings
        BY <1>1, <3>1, ZenonT(60) DEF HostTypes, Visitings
      <3>3. visit' = [visit EXCEPT ![v] = [visit[v] EXCEPT !.step = "answered", !.served = answer]]
        BY <1>1, <2>3 DEF Answer, HostTypes, answer
      <3> QED
        BY <1>1, <3>2, <3>3 DEF HostTypes
    <2>4. visit' \in [Visits -> Visitings]
      BY <1>6, <2>2, <2>3 DEF VisitStep
    <2> QED
      BY <1>1, <2>1, <2>4 DEF HostTypes
  <1> QED
    BY <1>2, <1>3, <1>4, <1>5, <1>6 DEF HostNext, ShareStep, allVars

LEMMA OwnedStep ==
  ASSUME HostInv, [HostNext]_allVars
  PROVE  Placed' /\ SharesOnOwnDomain'
  <1>1. IInv /\ HostTypes /\ Placed /\ SharesOnOwnDomain /\ [Next]_vars
    BY HostStepIsStep DEF HostInv
  <1>2. \A d \in Domains : \A o : Owned(o, d) => StillOwned(o, d)
    <2> SUFFICES ASSUME NEW d \in Domains, NEW o, Owned(o, d) PROVE StillOwned(o, d)
      OBVIOUS
    <2>1. dom[d].state # "none"
      BY DEF Owned, StillOwned
    <2> QED
      BY <1>1, <2>1, RowsKept
  <1>3. \A s \in Shares : /\ making[s].dom \in Domains \cup {None}
                          /\ share[s].at \in Addresses
    BY <1>1 DEF HostTypes, Makings
  <1>4. \A s \in Shares : (share[s].owner # None /\ share[s].at.kind = "domain") =>
           Owned(share[s].owner, share[s].at.of) /\ StillOwned(share[s].owner, share[s].at.of)
    BY <1>1, <1>2, <1>3, AddressKinds DEF SharesOnOwnDomain, Owned, StillOwned
  <1>5. \A s \in Shares : (making[s].step = "inserted" /\ making[s].dom # None) =>
           Owned(making[s].owner, making[s].dom) /\ StillOwned(making[s].owner, making[s].dom)
    BY <1>1, <1>2, <1>3 DEF Placed
  <1>6. Placed'
    <2> SUFFICES ASSUME NEW s \in Shares, making'[s].step = "inserted", making'[s].dom # None
                 PROVE  StillOwned(making'[s].owner, making'[s].dom)
      BY DEF Placed, Owned, StillOwned
    <2>1. CASE making'[s] = making[s]
      BY <1>5, <2>1 DEF Owned, StillOwned
    <2>2. CASE InsertShare(s)
      <3>1. /\ making'[s].owner = making[s].owner /\ making'[s].dom = making[s].dom
            /\ making'[s].step = "inserted" => ShareAccepted(making[s].owner, making[s].dom)
            /\ UNCHANGED dom
        BY <1>1, <2>2 DEF InsertShare, HostTypes, Makings, vars
      <3> QED
        BY <3>1 DEF ShareAccepted, OwnLive, Owned, StillOwned
    <2>3. making'[s] = making[s] \/ InsertShare(s) \/ making'[s].step # "inserted"
      <3>1. ASSUME NEW r \in Shares, NEW o \in Owners, NEW choice, ChooseHost(r, o, choice)
            PROVE  making'[s] = making[s] \/ making'[s].step # "inserted"
        BY <1>1, <3>1 DEF ChooseHost, HostTypes
      <3>2. ASSUME NEW r \in Shares, LookAtDefault(r)
            PROVE  making'[s] = making[s] \/ making'[s].step # "inserted"
        BY <1>1, <3>2 DEF LookAtDefault, HostTypes, Makings
      <3>3. ASSUME NEW r \in Shares, InsertShare(r)
            PROVE  making'[s] = making[s] \/ InsertShare(s)
        BY <1>1, <3>3 DEF InsertShare, HostTypes
      <3>4. ASSUME NEW r \in Shares, CommitShare(r) \/ StampShareHost(r)
            PROVE  making'[s] = making[s] \/ making'[s].step # "inserted"
        <4>1. PICK step \in {"stamping", "made"} : making' = [making EXCEPT ![r].step = step]
          BY <3>4 DEF CommitShare, StampShareHost
        <4> QED
          BY <1>1, <4>1 DEF HostTypes, Makings
      <3> QED
        BY <3>1, <3>2, <3>3, <3>4 DEF HostNext, ClaimStep, ShareStep, VisitStep, Resolve, Answer, allVars
    <2> QED
      BY <2>1, <2>2, <2>3
  <1>7. SharesOnOwnDomain'
    <2> SUFFICES ASSUME NEW s \in Shares, share'[s].owner # None, share'[s].at.kind = "domain"
                 PROVE  StillOwned(share'[s].owner, share'[s].at.of)
      BY DEF SharesOnOwnDomain, Owned, StillOwned
    <2>1. CASE share'[s] = share[s]
      BY <1>4, <2>1 DEF Owned, StillOwned
    <2>2. CASE CommitShare(s)
      <3>1. share'[s] = [owner |-> making[s].owner, at |-> AddressOf(making[s].dom)]
        BY <1>1, <2>2 DEF CommitShare, HostTypes, NoShare
      <3>2. making[s].dom # None /\ share'[s].at.of = making[s].dom /\ share'[s].owner = making[s].owner
        BY <1>3, <3>1, AddressKinds
      <3> QED
        BY <1>5, <2>2, <3>2 DEF CommitShare, Owned, StillOwned
    <2>3. share'[s] = share[s] \/ CommitShare(s) \/ share'[s] = NoShare
      <3>1. CASE ClaimStep
        BY <3>1 DEF ClaimStep
      <3>2. ASSUME NEW r \in Shares, CommitShare(r)
            PROVE  share'[s] = share[s] \/ CommitShare(s)
        BY <1>1, <3>2 DEF CommitShare, HostTypes
      <3>3. ASSUME NEW r \in Shares, StampShareHost(r)
            PROVE  share'[s] = share[s]
        <4>1. share[r] \in [owner : Owners \cup {None}, at : Addresses]
          BY <1>1 DEF HostTypes
        <4>2. CASE UNCHANGED share
          BY <4>2
        <4>3. CASE /\ [share[r] EXCEPT !.at = OnHandle(making[r].owner)].at = share[r].at
                   /\ share' = [share EXCEPT ![r] = [share[r] EXCEPT !.at = OnHandle(making[r].owner)]]
          <5>1. [share[r] EXCEPT !.at = OnHandle(making[r].owner)] = share[r]
            BY <4>1, <4>3
          <5> QED
            BY <1>1, <4>3, <5>1 DEF HostTypes
        <4> QED
          BY <3>3, <4>2, <4>3 DEF StampShareHost, AddressFrozen
      <3> QED
        BY <3>1, <3>2, <3>3 DEF HostNext, ShareStep, ChooseHost, LookAtDefault, InsertShare, VisitStep, Resolve,
                                     Answer, allVars
    <2> QED
      BY <2>1, <2>2, <2>3 DEF NoShare
  <1> QED
    BY <1>6, <1>7

\* What one step does to a recipient's request.
VisitMoves(v) ==
    \/ visit'[v] = visit[v]
    \/ /\ visit'[v].step = "resolved" /\ ~visit'[v].served /\ visit[v].step # "resolved" /\ UNCHANGED dom
       /\ visit'[v].name \in Hostnames => /\ visit'[v].claim \in Claims(visit'[v].name)
    \/ /\ visit[v].step = "resolved" /\ visit'[v].step = "answered" /\ UNCHANGED <<dom, share>>
       /\ visit'[v].served => Serves(v)

LEMMA VisitStepMoves ==
  ASSUME HostTypes, [HostNext]_allVars, NEW v \in Visits
  PROVE  VisitMoves(v)
  <1>1. UNCHANGED visit => VisitMoves(v)
    BY DEF VisitMoves
  <1>2. ASSUME NEW u \in Visits, NEW s \in Shares, NEW name, Resolve(u, s, name)
        PROVE  VisitMoves(v)
    <2>1. CASE u # v
      BY <1>2, <2>1 DEF Resolve, VisitMoves, HostTypes
    <2>2. CASE u = v
      <3>1. visit[v].step # "resolved" /\ UNCHANGED dom
        BY <1>2, <2>2 DEF Resolve, vars
      <3>2. CASE /\ name \notin Hostnames
                 /\ visit' = [visit EXCEPT ![v] = [NotVisiting EXCEPT !.step = "resolved", !.share = s, !.name = name]]
        <4>1. visit'[v] = [NotVisiting EXCEPT !.step = "resolved", !.share = s, !.name = name]
          BY <3>2 DEF HostTypes
        <4>2. visit'[v].step = "resolved" /\ ~visit'[v].served /\ visit'[v].name = name
          BY <4>1 DEF NotVisiting
        <4> QED
          BY <3>1, <3>2, <4>2 DEF VisitMoves
      <3>3. ASSUME NEW d \in Claims(name),
                   visit' = [visit EXCEPT ![v] = [NotVisiting EXCEPT !.step = "resolved", !.share = s,
                                                                     !.name = name, !.claim = d]]
            PROVE  VisitMoves(v)
        <4>1. visit'[v] = [NotVisiting EXCEPT !.step = "resolved", !.share = s, !.name = name, !.claim = d]
          BY <3>3 DEF HostTypes
        <4>2. visit'[v].step = "resolved" /\ ~visit'[v].served /\ visit'[v].name = name /\ visit'[v].claim = d
          BY <4>1 DEF NotVisiting
        <4> QED
          BY <3>1, <4>2 DEF VisitMoves
      <3> QED
        BY <1>2, <2>2, <3>2, <3>3 DEF Resolve
    <2> QED
      BY <2>1, <2>2
  <1>3. ASSUME NEW u \in Visits, Answer(u)
        PROVE  VisitMoves(v)
    <2>1. CASE u # v
      BY <1>3, <2>1 DEF Answer, VisitMoves, HostTypes
    <2>2. CASE u = v
      <3> DEFINE answer == share[visit[v].share].owner # None /\ Serves(v)
      <3>1. visit'[v] = [visit[v] EXCEPT !.step = "answered", !.served = answer]
        BY <1>3, <2>2 DEF Answer, HostTypes
      <3>2. visit[v] \in Visitings
        BY DEF HostTypes
      <3>3. visit'[v].step = "answered" /\ (visit'[v].served => Serves(v))
        BY <3>1, <3>2 DEF Visitings
      <3>4. visit[v].step = "resolved" /\ UNCHANGED <<dom, share>>
        BY <1>3, <2>2 DEF Answer, vars
      <3> QED
        BY <3>3, <3>4 DEF VisitMoves
    <2> QED
      BY <2>1, <2>2
  <1> QED
    BY <1>1, <1>2, <1>3 DEF HostNext, ClaimStep, ShareStep, ChooseHost, LookAtDefault, InsertShare,
                            CommitShare, StampShareHost, VisitStep, allVars

LEMMA ResolvedStep ==
  ASSUME HostInv, [HostNext]_allVars
  PROVE  Resolved'
  <1> SUFFICES ASSUME NEW v \in Visits, visit'[v].step = "resolved"
               PROVE  /\ ~visit'[v].served
                      /\ visit'[v].name \in Hostnames => /\ visit'[v].claim \in Domains
                                                         /\ dom'[visit'[v].claim].state # "none"
                                                         /\ dom'[visit'[v].claim].host = visit'[v].name
    BY DEF Resolved
  <1>1. IInv /\ HostTypes /\ Resolved /\ [Next]_vars /\ VisitMoves(v)
    BY HostStepIsStep, VisitStepMoves DEF HostInv
  <1>2. CASE visit'[v] = visit[v]
    <2> DEFINE c == visit[v].claim
    <2>1. /\ ~visit[v].served
          /\ visit[v].name \in Hostnames => c \in Domains /\ dom[c].state # "none" /\ dom[c].host = visit[v].name
      BY <1>1, <1>2 DEF Resolved
    <2>2. c \in Domains /\ dom[c].state # "none" => dom'[c].state # "none" /\ dom'[c].host = dom[c].host
      BY <1>1, RowsKept
    <2> QED
      BY <1>2, <2>1, <2>2
  <1>3. CASE /\ ~visit'[v].served /\ UNCHANGED dom
             /\ visit'[v].name \in Hostnames => visit'[v].claim \in Claims(visit'[v].name)
    BY <1>3 DEF Claims, Current
  <1> QED
    BY <1>1, <1>2, <1>3 DEF VisitMoves

LEMMA HostInvStep == HostInv /\ [HostNext]_allVars => HostInv'
  <1> SUFFICES ASSUME HostInv, [HostNext]_allVars PROVE HostInv'
    OBVIOUS
  <1>1. IInv'
    BY InvStep, HostStepIsStep DEF HostInv
  <1> QED
    BY <1>1, HostTypesStep, OwnedStep, ResolvedStep DEF HostInv

THEOREM HostInvariant == HostSpec => []HostInv
  BY HostInvInit, HostInvStep, PTL DEF HostSpec

\* A link on a custom domain is on a domain of the account that made it, one
\* that has been live, whichever statement of create_share the claim moved under.
THEOREM SharesOnOwnDomainHolds == HostSpec => []SharesOnOwnDomain
  BY HostInvariant, PTL DEF HostInv

\* Links and recipients do not change who may take a hostname over.
THEOREM TakeoverApprovedWithLinks == HostSpec => []TakeoverApproved
  BY HostsRefine, TakeoverApprovedHolds, PTL

\* A document is served on a customer's hostname only while that hostname's one
\* claim is live and the document owner's, whatever happened between the
\* worker's two reads.
THEOREM ServedOnlyByHolderHolds == HostSpec => ServedOnlyByHolder
  <1> DEFINE ByHolder(v) ==
        (visit[v].step = "resolved" /\ visit'[v].served /\ visit[v].name \in Hostnames) =>
            /\ \E d \in Claims(visit[v].name) : dom[d].state = "live"
            /\ \A d \in Claims(visit[v].name) : dom[d].owner = share[visit[v].share].owner
  <1>1. ASSUME HostInv, [HostNext]_allVars PROVE \A v \in Visits : ByHolder(v)
    <2> SUFFICES ASSUME NEW v \in Visits, visit[v].step = "resolved", visit'[v].served,
                        visit[v].name \in Hostnames
                 PROVE  /\ \E d \in Claims(visit[v].name) : dom[d].state = "live"
                        /\ \A d \in Claims(visit[v].name) : dom[d].owner = share[visit[v].share].owner
      OBVIOUS
    <2> DEFINE c == visit[v].claim
    <2>1. HostTypes /\ Resolved /\ OneClaim
      BY <1>1 DEF HostInv, IInv
    <2>2. ~visit[v].served /\ c \in Domains /\ dom[c].host = visit[v].name
      BY <2>1 DEF Resolved
    <2>3. Serves(v)
      BY <1>1, <2>1, <2>2, VisitStepMoves DEF VisitMoves
    <2>4. ServesOnClaim(visit[v].share, c)
      <3>1. visit[v].name \notin Owners
        BY NamesAssumption
      <3> QED
        BY <2>3, <3>1 DEF Serves
    <2>5. c \in Claims(visit[v].name) /\ dom[c].state = "live" /\ dom[c].owner = share[visit[v].share].owner
      BY <2>2, <2>4 DEF ServesOnClaim, Claims, Current
    <2>6. \A d \in Claims(visit[v].name) : d = c
      BY <2>1, <2>5 DEF OneClaim
    <2> QED
      BY <2>5, <2>6
  <1> QED
    BY <1>1, HostInvariant, PTL DEF HostSpec, ServedOnlyByHolder
=============================================================================
