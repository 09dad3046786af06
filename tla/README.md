# HTMLRadar: specifications, model checks and proofs

TLA+ modules for the parts of HTMLRadar in which several processes write the
same rows, call services that may not answer, and die in between. Every
definition is translated from the code under `src/`; `PROJECT.json` ("map")
names the lines. Line numbers below are of that commit; `monitor` is
`packages/monitor/src/index.ts`.

Check a run with `tlc -config X.cfg M`, the proofs with `tlapm MProofs.tla`.

## 1. The system

| Component | State it keeps | Operations | Interacts with |
|---|---|---|---|
| Web application and API, `packages/app` | none of its own; rows in Postgres, objects in R2 | documents, versions, shares, custom domains, billing webhook, API keys, connector hand-over | Postgres, R2, Cloudflare, Polar, connector |
| Proxy, `packages/proxy` | none; signed cookies | resolves the request's hostname, looks up the share, applies its gates, serves | Postgres (read), R2 |
| Monitor, `packages/monitor` | cursors and outbox in Postgres | cron every 5 minutes: analytics replay, user feed, custom domains, health probes, expiry sweep; daily scan and digest; Telegram webhook for one-tap posting | Postgres, Cloudflare, Reddit, Telegram, Resend, PostHog |
| Tracker, `packages/tracker` | one session in the recipient's page | start, heartbeat, flush, pagehide | Postgres RPCs |
| Connector, `packages/connector`, and MCP server, `packages/mcp` | OAuth grants in KV, `connector_grants` | authorize, exchange, refresh, revoke; tools | application API |
| Database, `schema/` | all tables; triggers and RPCs | `create_share`, domain triggers, share cap, rate limits, notifications, `reserve_radar_post` | pg_net, Resend |

Nothing holds a lock across a network call. A request, a cron run or a webhook
delivery is a sequence of awaited calls; two of them interleave at every await,
a worker may be stopped after any of them, and cron runs may overlap because
nothing makes one wait for another. What protects the state is a conditional
`UPDATE`, a trigger, a unique index, or an advisory lock, and the order of the
writes. These are what the specifications are about.

Hard behaviour and the properties that make each part correct:

- **Custom domains.** Two kinds of checker and a disconnect race on one row;
  Cloudflare's answers get lost; a hostname changes hands. Correct means: one
  claim per hostname and per account; no takeover without approval; two
  failures in a row, not one and a stale one; a retired row stays retired; a
  hostname given up is gone at Cloudflare in the end; the default is an
  entitled account's own domain.
- **Share hosts.** Claims move under `create_share` and between the proxy's two
  reads. Correct means: no document on a hostname its owner does not hold.
- **One-tap posting.** Telegram redelivers, edits overlap taps, Reddit's answer
  gets lost, two drafts aim at one thread. Correct means: what was approved is
  what is posted, once per tap, by the one draft that holds the thread, within
  the cap.
- **Billing.** Polar retries, reorders and overlaps deliveries; the sweep runs
  beside them. Correct means: nothing is acknowledged that was not applied;
  the tier follows Polar; comped accounts are left alone; a lapse ends.
- **Reading.** One page, but timers, frames, visibility events and late answers
  in any order, and frames that the browser holds back. Correct means: while the
  session listens hidden time is not counted, dwell is attention, and what was
  counted reaches its row.
- **Gates of a share.** A request reads the share once and awaits other reads
  while the owner edits, and cookies outlive the rules they were made under.
  Correct means: whoever is served was entitled under some rules of that moment.
- **Alerts of a closed link.** Readers meet the link at once; the function that
  alerts its owner has a lock the owner's own actions do not take. Correct means:
  two alerts are a cooldown apart, and after a save at most one is out of date.
- **Notifications.** Concurrent `start_session` transactions, a mail service
  whose answers get lost, answers that expire. Correct means: one mail for each
  share and reader, nobody missed unless the log says why, the log never claims
  more than happened.
- **Documents.** A row and an object with no transaction over both, replaces
  that race, creates that are retried. Correct means: the stored score belongs
  to the served bytes, until two replacements from the dashboard have read one
  version (the code has nothing against those); a document its owner was told of can be read; the
  browser's copy goes only when the document is whole.
- **Connections.** Two systems that share no store. Correct means: a consent
  makes one grant at most; of a connection that was made, and listed everywhere,
  before its key was revoked, none is left once it is recorded as gone.
- **Cursors of the cron.** Overlapping runs, rows that commit out of order,
  failing calls. Correct means: what is behind a cursor was handed over, and
  everything is in the end, a share as long as it is its owner's only one.
- **Links.** Two creations count at once, a plan changes between the count and
  the insert, an undoing fails. Correct means: the cap holds; a chosen address is
  never another link's; a refused creation leaves nothing.
- **Rate limits, handles, health alerts, onboarding**: section 5.

`PROJECT.json` lists every component with its status, and every hazard at its
line with the properties that would catch it.

## 2. Modules

| Module | Models | Used by |
|---|---|---|
| `CustomDomains` | `lib/custom-domains.ts`, the monitor's `settleDomain` and `sweepRetiredDomain`, `schema/052` triggers, Cloudflare's custom hostnames | `ShareHosts`, `MCCustomDomains`, `CustomDomainsProofs` |
| `ShareHosts` | `create_share`, `validate_share_host`, `stampShareHost`, the proxy's `resolveHost` and `enforceStoredHost`; EXTENDS `CustomDomains`, whose every step is a step of it (`ClaimStep`) | `MCShareHosts`, `CustomDomainsProofs` |
| `OneTap` | the Telegram webhook of the monitor, `schema/047` | `MCOneTap`, `OneTapProofs` |
| `Billing` | `webhooks/polar/route.ts`, `lib/payments.ts`, `checkWebhookHealth` and `expirePro` | `MCBilling`, `BillingProofs` |
| `Reading` | the tracker: `packages/tracker/src` (boot, gate, `session.ts`, `sections-v2.ts`) and `update_session` | `MCReading`, `SharingProofs` |
| `Gates` | one share at the proxy: `handleRequest` and its handlers, cookies and grants of `auth.ts`, the owner's edits, `start_session`'s checks | `MCGates`, `GatesProofs` |
| `Alerts` | `notify_disabled_attempt` (`schema/028`) against the owner's toggle, deletion and edit of the link | `MCGates`, `GatesProofs` |
| `Notices` | `start_session`'s transaction, `notify_on_first_open`, pg_net, `schema/044` | `MCNotices`, `NoticesProofs` |
| `MailLedger` | abstract: what the log of e-mails promises | `Notices` (`INSTANCE ... WITH`) |
| `Documents` | `create-document.ts`, `staged-file.ts`, `staged-handoff.ts`, both replaces, deletion, attachments | `MCDocuments`, `AccountProofs` |
| `Connections` | `connect/decision`, `connect/exchange`, `connector-revoke.ts`, the connector's `consent.ts`, `schema/045` and `046` | `MCConnections`, `AccountProofs` |
| `Cursors` | `replayAppEvents` and `userFeed` of the monitor, `schema/029` and `051` | `MCCursors`, `CursorsProofs` |
| `Links` | `POST /api/v1/shares`, `createShareFormAction`, `create_share`, `schema/027` and `033`, `rollbackDocument` | `MCLinks`, `SharingProofs` |
| `MC*` | values and, where a run uses it, symmetry for TLC; `MCCustomDomains` also an initial state; `MCGates` and `MCCursors` a specification that takes one part of the model in a behaviour | the `.cfg` files |
| `*Proofs` | inductive invariants and theorems; `SharingProofs` is about `Links` and `Reading`, `AccountProofs` about `Connections` and `Documents` | |

Conventions. A table is a function from ids to records; `No...` is the absent
row. A request, run or delivery is an entry of `task`: its operation, the call
it makes next (`step`), and what it holds of what it has read. **One action is
one awaited call** together with the synchronous code up to the next one; the
row a call names is read again only where the code does so. `Crash` ends any
task between two calls. A service that may fail or lose its answer is a
disjunct of the call. Where the code swallows an error the action goes on.
Operators whose name starts with `Mut` are the alternatives the mutation test
puts in the place of the definition after them; nothing else uses them.
The specifications of `Reading`, `Documents` and `Alerts` carry the component's name
(`ReadingSpec`, `DocumentsInit`, ...) because their proofs share a module with
another component's.

### CustomDomains

`dom` is `custom_domains`, `profile` the column `default_custom_domain_id` with
existence and entitlement, `cf` the zone at Cloudflare. `recorded` is a history
variable: the verdict last written on a row.

- `StartConnect`, then `Post`, `Find`, `Repost`, `Store`, `Giveback` are
  `connectDomain` and `createOrAdoptHostname`. A POST may be refused, carried
  out, or carried out unheard. `Store` ignores the answer of its update, as the
  code does: one that was refused, or not heard of, goes on to the give-back.
- `StartCheck` or `StartSettle`, then `Get`, `Probe`, `RecordByRequest` or
  `RecordByRun`, then `DefaultByRequest`, `FinishPromotion` or `Unset`, are the
  two checkers. The application's writes name the state it read; the
  monitor's also the `last_checked_at` it read (`Unmoved`). A stamp is only
  compared for equality, so a fresh one is the least that nobody still holds
  (`FreshStamps`); with more runs than stamps the action would be disabled, and
  the configurations give enough of them (2 runs need 4).
- `StartDisconnect`, `Unset` (whose clearing of the default may fail, and which
  goes on all the same), `Retire`, `DeleteConfirmed` or `DeleteFailed`, `Stamp`;
  `StartSweep` enters at the delete.
- `ChangeTier`, `DeleteProfile`, `Approve` are the triggers and RPCs.

Left out: wording of errors, the certificate's own states beyond "active or
not", hostname syntax, when a row is due (a row may be due whenever a run
starts), `disconnected_at` and other columns nothing branches on.

### ShareHosts

`making` is a `create_share` call: choose, look at a default it took for want of
another (`LookAtDefault`, a read of its own), insert (with its trigger), commit,
then the application's `stampShareHost`. `visit` is a request at the proxy: it
resolves the claim of the hostname, then reads the share with its own domain,
and answers. Handles are allocated once and stand for their account.

### OneTap

`draft` is `radar_drafts`, `reserved` and `window` the reservation ledger and
its last 24 hours, `message` what each Telegram message shows, `comments` what
is on Reddit. `asked` is history: requests sent per button, up to two.
`consumeNonce` is `Live` in `Consume` and `TapSkip`: one conditional update.
`TapPost` is the earlier read that only explains a refusal and remembers the
status. Reddit's comment may be up, refused, or unknown with either outcome;
the listing used to reconcile is taken to be complete and up to date. A comment
found there (`found`) or just made (`mark`) is then written on the row: that
write may be lost, and one that throws after the request settles the row as
failed although the comment is up.
Left out: redaction, wording, quotas' numbers (they end the tap like any other
failure), the founder's identity check.

### Billing

`sub` and `event` are Polar's side (external): one event per change, delivered
until a 200 is heard (`acked`). `log` is `webhook_events_log`. `now` is a clock
in units of which a billing period is made; 0 stands for a NULL timestamp. A
delivery is `Deliver`, `Claim`, `Prior`, `Resolve`, `Read`, `Write`, `Stamp` or
`Fail`; every database write may land unheard. An order's event is resolved to
the subscription as it is when the handler asks. The cron is `Healthy` and
`ExpirePro`, with `Hold` when a call fails or a failing event gates it. Time
does not stop deliveries or runs and is not stopped by them. `ClearError` and
`StampByHand` are the operator's two answers to a row that holds the sweep: let
Polar or a replay go on, or call it processed. `applied` and
`mixed` are history: events that reached the profile or were settled by hand, and
accounts with an event of that kind or whose deliveries overlapped or overtook one
another. Left out: analytics captures,
the customer back-link, events of other types, orders without a subscription
(acknowledged and ignored by the code), `pro_since`.

### Reading

`page` is the browser (step, visible, what fills the window), `session` and
`tracker` the fields of the two objects, `wire` the requests that have not
arrived, `rows` the table `sessions`. Every event handler is one action:
`Hide`, `Show`, `Press`, `Scroll`, `Click`, `PageHide`, `OptOut`, `Heartbeat`,
`LongestReached`, `WarmedUp`, `StartSession`, `SubmitEmail`; an answer is
`Answered` or `Unheard`. `Frame` is an animation frame: it comes when the browser
likes, several times in a unit or not for long, also in a tab that was hidden when
the session began, whose sample clock is then old. A frame credits what went by
since the last sample, two intervals at most (`Clamp`; a unit is one interval).
`HostFlush` is `HTMLRadar.flush()`, which the page's own scripts may call at any
time. `TickActive`, `Sample`, `Resume` and `Flush` are the code's own
functions. `watch` is history: the time the tab was shown (`shown`), the time in it for
which the reader was there (`engaged`: the last sign at most `Idle` before, or the
next at most `Clamp` after, the time `idle` keeps for that), and the last sign. `Credited` counts the dwell of all sections as a set,
a pair for each unit, so that their sum is a cardinality. Left out: the older section observer, print guards,
the banner.

### Gates

`share`, `document` are the rows, `jar` the cookies of a browser, `grants` the
print grants, `request` what is in flight, `page` the tracked document in a
window. `Send` starts a request
with the cookies as they are; `Verdict` is what `handleRequest` decides from its
one read of the share; `TurnAway`, `AskChoice`, `SetOptOut`, `Wrap`,
`PasswordOk`, `EmailOk`, `LookDocument`, `Serve`, `LookFile`, `ServeFile` are
what follows, a read at a time; a password is verified in one step and its cookie
issued in the next. The owner's actions that read before they write
are two steps (`ToggleRead`, `ToggleWrite`, ...). History: `proof`, what each reader has
really shown and when, and `fair`, whether the rules of some moment of the
request admitted that reader. `Admits` does not look at cookies. Left out:
fetching and rewriting HTML, headers, the trust wrapper's markup.

### Alerts

`link` is what the alert reads of the share's row, `call` the calls of
`notify_disabled_attempt`, `tab` the owner's toggle or deletion under way in each
window. `Knock` is an opening of the closed link that leaves a call behind;
`Decide` has the advisory lock and reads the link again, in a transaction that
began at some time between the call and now (Postgres' `now()` is that time);
`Notify` commits the mail and the stamp, or the stamp alone without the secrets;
`GiveUp` is a call that does not arrive, finds no address or is undone. Between
`Decide` and `Notify` the owner's `Read`, `Write`, `Extend` come and go, since
they take no part in the lock. History: `mailed`, and `stray`, the calls whose mail
says since the last save that the link is closed in a way it is not.

### Notices and MailLedger

`call` is a transaction of `start_session` at READ COMMITTED: `UpsertViewer`,
`InsertSession` (its trigger decides `mail`), `Commit`, when its rows can be seen
and pg_net gets the request. The rate limit's row and the viewer's row are the
locks (`Running`). The verdict `unset` is the trigger's other end: the mail
service's key or address is not in the Vault, or the Vault cannot be read, and a
`skipped` row is written; every later opening by that reader is then a repeat and
nobody is told (`schema/README.md:42` has the operator set the secrets first).
`Post` is pg_net's one attempt with every outcome;
`Expire` forgets an answer; `Reconcile` settles the whole log. `accepted` is
what the mail service took, which nothing in the program sees.
`MailLedger` has two variables: entries' verdicts and the entries taken. The
refinement mapping is the log's status column and `accepted`.

### Documents

`op` is a request with its step and what it read; `docs`, `history`, `attached`
are tables, `objects` and `stored` R2, `staged` the browser's record, `told` what
was reported, `raced` (history) the documents of which two replacements from the
dashboard had read one version. The requests of a kind are a set each (`StagedOps`, `CreateOps`, `ReplaceOps`,
`AttachOps`, `DetachOps`). Creates: `Insert`, `Lookup` (the retry that meets the unique
index), `Upload`, `Rollback`, `Seed`, `Complete`, `Answer`; `Share`, `UndoRow`,
`UndoObject` for the API. Replaces: `ReadForReplace`, `UploadNew`, then
`UpdateRow` (dashboard, unconditional) or `Swap` (API, compare and swap, then
`Tidy`), `AppendHistory`. Attachments: `CountFiles`, `InsertFile`, `UploadFile`,
`RollbackFile`, `DetachRow`, `DetachObject`. `Die` ends any request anywhere.

### Connections

`deciding` is a POST of the consent form (key, handle, row), `calling` the
connector's callback (read and delete the parked request, exchange the handle,
complete), `revoking` a revocation (key, row, list, delete, record). `handles`,
`keys` and `rows` are the application's tables; `parked` and `grants` the
connector's KV, modelled from how `consent.ts` uses the OAuth library. Handles
and parked requests may expire whenever they exist. KV is eventually consistent:
`KVShows` is the moment from which every listing shows a grant, before it a listing
may miss it (`ListGrants`), and grants are deleted one call at a time
(`RevokeGrant`). An insert of a handle that is reported as failed may have left it.
A key may be revoked at any moment, also while its connection is being made. `timely`
is history: the grants that every listing showed while their key was live. Left out: refresh-token
rotation inside the library, and its replay check, which rest on the consistency
of KV.

### Cursors

`row` gives an event its id and time when it is inserted, `kept` when it
commits, and, of a share, `gone` when its owner deletes it. `task` is a strand of a
run: `ReplayCursor`, `ReplayRead`, `ReplayPost` (or `ReplayPostLost`),
`ReplayWrite`, again up to `Rounds`; `FeedCursor`, then the reads one after another
(`FeedShares`, `FeedEvents`, `FeedNews`), `FeedSend`, `FeedWrite`. `FeedNews` reads
the owners' totals last: a share is news if its owner has exactly one then. Any
call may fail (`Fail`). The replay skips the QA bot (`Bot`), the feed internal
accounts (`Internal`). `overtaken` and `late` (history) hold the rows whose insert
and commit lie on two sides of a read past them: ids and times are not in the order
of commits, and the properties leave these out. `sent` is PostHog, which drops a
second copy, and `tried` is Telegram, whose answer the code does not look at.

### Links

`call` is a request up to its transaction (`Quota`, `FindDocument`, `MakeRow`,
`Upload`), the transaction in three (`BeginShare` reads the plan, `InsertShare`
takes the account's advisory lock and counts, `CommitShare`), `SetLockDeck`, and
the undoing (`UndoRow`, `UndoObject`, `UnmakeRow`). `link` keeps a row that is
gone, for the history; `as` is the plan its trigger read. `untidy` says that part
of the undoing failed. The host of a link is in `ShareHosts`.

## 3. Runs

| Run | Question | Bounds |
|---|---|---|
| `share_hosts` | Does a document ever show on a hostname its owner does not hold? `SharesOnOwnDomain`, `TakeoverApproved`, `ServedOnlyByHolder` | two accounts, one hostname that changes hands, two claims, one share, one visit, one request (6.8 million states) |
| `sweep` | What do overlapping checks, disconnects and sweeps do to one claim? `SweptIsGone`, `DefaultOwnAndEntitled`, `EventuallySwept`, `TwoStrikes`, `RetiredUntouched` | a request and a run at once, two Cloudflare ids (one given back, one kept), four stamps, a threshold of 2. The hostname had a claim of an account since deleted (`ReclaimInit`), so its new one is reviewed and approved first |
| `taps` | Is what was approved what is posted, once? `ApprovedOnly`, `OneRequestPerTap`, `PostedIsReal`, `ReservationsCapped` | two drafts over two threads (both on one, or one each), two offers, two deliveries, cap 1 |
| `polar` | Does the tier follow Polar? `FollowsPolar`, `AckedIsApplied`, `CompedUntouched`, `LapseEnds` | one delivery and one cron run, two events, periods 1 and 2, clock to 2, grace 0 (the grace only shifts the sweep's clock; a larger one would leave no time for a lapse) |
| `reading` | Is the time in the dashboard the time somebody read? `HiddenNeverCounted`, `DwellIsAttention`, `ReadingArrives` | two sections in view together, or none; `Idle` and `Warmup` 1 unit, `Beat` and `Longest` 2, `Qualified` 3, clock to 3: a heartbeat, an idle pause, a return and a frame three intervals late fit; one session |
| `gates` | Who is served, and how often is the owner told? `ServedUnderRules`, `OncePerCooldown`, `OneStray` | a browser, a request, two addresses of different companies, four forms that set, keep and drop each rule, two edits, lives of 1 in a clock to 2. A behaviour takes one of six sets of routes (`MCMixes`): those that share a cookie are together. Or, in the empty one, it is about alerts: three calls, two windows, two saves, a cooldown of 2 in a clock to 3. The two have no step in common but the owner's, and `Alerts` has the owner's actions of its own (2.5 million states) |
| `notices` | Is everybody told of once? `OnceForEachShare`, `NobodyMissed`, `LedgerKept`, `EverythingSettles` | three shares, one of them quiet, so that two which notify overlap; a reader and the owner; two calls at once, three mails, clock to 2 with a patience and a keeping of 1, so that answers come before, at and after it |
| `documents` | Do row and objects agree? `ScoreIsServed`, `ToldIsReadable`, `FileKept` | three requests of any kind: a document is made and two requests race on it, two replacements from the dashboard among them; two staged files; two files to a document |
| `connections` | What does a consent leave behind? `OneGrantPerKey`, `RecordedGone` | one transaction, two POSTs, two callbacks, two revocations, two keys; a key is revoked at any moment, and a listing may miss what is new |
| `cursors` | Is anything skipped? `SentBehindCursor`, `TriedBehindCursor`, `EverythingHandedOver` | batches of 1 and two rounds, one fault. A behaviour is one of four (`Casts`): two replays over an event and the bot's (a batch is shorter than the backlog, and one holds nothing but the bot's); two feeds over the two shares of one owner; one feed after another over two windows; a replay beside a feed over an event both hand over |
| `links` | Do cap, address and undoing hold? `FreeCap`, `AddressKept`, `RefusedLeavesNothing` | two accounts, two requests, one address, cap 1 |
| `slot_rotation` | violation: `LifetimeCap` | one account, two requests, cap 1 |

`slot_rotation` shows a comment the code does not keep: `schema/027:41-42` and
`lib/quota.ts:7-9` call the cap a lifetime count without slot rotation, but
`deleteShareAction` deletes the row the cap counts, so a link deleted makes room
for another. `FreeCap` is what does hold.

Two actors are enough for each question: each hazard is one actor's step
between two of another's, and every bound leaves room for the case its property
is about. Ids, tokens and stamps are compared for equality only, so symmetry is used in
safety runs (`share_hosts`, `taps`, `gates`, `documents`, `links`) and never
in one with liveness. Deadlock is checked in `cursors`, whose cron comes round for
ever, and not elsewhere: rows, tokens, events and the clock are bounded and every
actor may be done.

Known behaviours that are modelled and have no run of their own (the stronger
property that each breaks is not stated):

- custom-domains.ts:544: a new claim adopts the hostname Cloudflare still holds
  for a retired row, whose delete or sweep then removes it from under the claim.
- custom-domains.ts:1050: a promotion between a disconnect's two writes makes the
  retired domain the default again. `DefaultOwnAndEntitled` lets a default be
  retired, and `create_share` refuses to use one.
- monitor:1777: rewording a draft whose outcome is unknown makes it "edited",
  and its next tap posts without looking. `PostedIsReal` is about drafts marked
  posted only.
- payments.ts:51: the event of an earlier period, delivered after that period
  ended, takes the account off Pro. `FollowsPolar` leaves such accounts out
  (`mixed`).
- connector, consent.ts:357: a key revoked between the exchange and the end of the
  callback, or before KV lists its grant, is recorded as gone with the grant there,
  and `schema/046:34-35` no longer finds it in the backlog. `RecordedGone` is about
  grants listed everywhere before the revocation (`timely`). The key answers nothing.
- connector-revoke.ts: a connection whose row was not written (decision/route.ts:175)
  is no connection to the revocation, and its grant stays.
- docs/[id]/actions.ts:889: two replacements from the dashboard that have read one
  version write one key, and the row in either order: the score may be that of the
  bytes written over. `ScoreIsServed` leaves such documents out (`raced`).
- session.ts:179: `stop()` unbinds the listeners and leaves the active clock's stamp,
  so `HTMLRadar.flush()` in a hidden tab counts up to `Idle` more, although the
  comment at :305 says a hidden tab counts nothing. `HiddenNeverCounted` allows that.
- monitor:3279: a run of the feed that had read an owner's first share fails, the
  owner makes a second, and the next run counts two and announces neither, although
  the comment at :3101 says at-least-once. `TriedBehindCursor` speaks of shares that
  are their owner's only one.
- schema/028:73: the owner opens the link between the alert's reading and its commit,
  and the alert goes out. `OneStray`: once for each save.
- schema/049:125: with the secrets missing a reader is logged as skipped once and never
  announced. `NobodyMissed` allows it.
- docs/[id]/actions.ts:562: two uploads of attachments count before either
  inserts; together they exceed the limit. :266: of two overlapping toggles the second undoes the first.
- monitor:3330: a moment Telegram refused is behind the feed's cursor all the
  same (`tried` is not heard).

Fairness. Nothing is assumed of readers, owners, deliveries, Polar or the
operator. `CustomDomains` (`SweepFairness`): the cron comes round for ever and
a sweep reads the whole table, so a due row is picked up (`SF` on
`StartSweep`); each call ends by answer or timeout (`WF` on `Continue`); not
every delete or stamp of a row is refused (`SF`). `Billing`: the cron keeps
starting (`WF`), and neither health check nor sweep fails every time it could
succeed (`SF`). `Reading`: time passes, the interval fires while the page is
open, the network does not fail every time (`SF` on `Answered`); since flushes and
answers go on overlapping, `ReadingArrives` says the row catches up again and again.
`Notices`: time
passes and pg_cron fires (`WF`). `Cursors`: both strands are started again and
again (`SF`: a strand is idle only between its runs), transactions end, each run not
failed goes on, and faults are finite (`MaxFaults`); `CastSpec` is `FairSpec` for the
strands of the cast. Liveness is over bounded
ids or a bounded clock, in which the cron still comes round for ever.

Mutants. Each property of a passing run has one mutated definition, listed in
`PROJECT.json`, that TLC finds to violate it: a count without its stamp, a
trigger that forgets its review, a lock not taken, a window closed at the wrong
moment, an undoing that stops half way, and so on.

## 4. Proofs

TLAPS proves the following for every value of the constants (under the named
`ASSUME`s: thresholds and bounds are naturals, ids are distinct from `None`,
`Null` and `Never`, requests are not staged files (both are fresh UUIDs),
requests and runs are different tasks, hostnames are not accounts, placeholders
are wordings, the forms of `Gates` have the fields of a form, the calls of
`Links` and the rows of `Cursors` are finitely many, a read qualifies after more than
two samples). A hypothesis beyond these is in the theorem.

**CustomDomainsProofs.** `TypeCorrect`, `OneClaimHolds`,
`TakeoverApprovedHolds`, `DefaultOwnAndEntitledHolds`, `RetiredUntouchedHolds`.
Three layers. First the types, with `TaskOK`: what a task may still do given
what it read (a check read its row while it was current). Then `RowStep`: each
action moves at most one row, and only in the ways `RowMoves` lists; this is
the only place that looks at the actions. The invariant
`IInv == TypeOK /\ TaskOK /\ Blank /\ OneClaim /\ Reviewed` then follows from
`RowStep` alone. `TakeoverApproved` is not inductive: it speaks of live rows,
and a pending row with neither review nor approval would break it when it is
promoted. `Reviewed` says of every current row whose hostname another account
has held that it is under review or approved, and that a row under review is
not live; `Blank` that unused rows are really unused. The default follows from
the same rows and from what the trigger accepts.

`SweptIsGoneHolds` and `TwoStrikesHolds` need more, `SweepInv`. A stamp says that
a Cloudflare id is gone, and `SweptIsGone` alone does not keep another call from
giving that id to a row again: `Errand` says what each task may still do with the
id and the row it holds (the id was issued; a delete or a stamp is about a retired
row that still carries it; a stamp comes after the delete), and `Registered` that
an id on a row was issued. For two strikes, `UpToDate` is the optimistic lock of
the monitor: while the stamp a run read stands, so does the count it read; and
`Counted` ties `recorded`, the history, to the count of a live row. `TwoStrikesHolds`
supposes a threshold of at least 2, as in the code (`FailuresToDisconnect`); with
1 it is false.

The same module proves `ShareHosts`. `HostsRefine`: its specification implies
`CustomDomains`' (a step of making or serving a link stutters there), which
carries every invariant above over (`TakeoverApprovedWithLinks`).
`SharesOnOwnDomainHolds` then needs what a call of `create_share` knows between
its choice and its commit, and that a row's owner never changes and a row once
live is never pending again. `ServedOnlyByHolderHolds` needs that the claim a request was resolved to is still
a row of that hostname (`Resolved`), and that a hostname has one claim (`OneClaim`):
the second read finds that very claim live, or serves nothing.

**OneTapProofs.** `TypeCorrect`, `ApprovedOnlyHolds`, `OneRequestPerTapHolds`,
`PostedIsRealHolds`, `OneDraftPerThreadHolds`, `ReservationsCappedHolds`.
`IInv` ties the four tables to what is in flight: tokens are not shared and are
among those given out (`OneToken`), a message is spent once a task has passed
the gate with it (`Spent`), a task past the gate holds the words its message
shows (`TaskSound`), no two of them hold one message (`OneFlight`), and a
thread with comments is reserved (`ThreadSound`). None of the properties is
inductive alone: each needs that a token rotates whenever the text does.
The cap needs finiteness of the day's reservations and is proved apart.

**BillingProofs.** `TypeCorrect`, `AckedIsAppliedHolds`, `CompedUntouchedHolds`,
`FollowsPolarHolds`. `AckedIsApplied` is strengthened by `Settled` (a row
stamped as processed was applied) and by what a handler at `stamp` knows: a
later delivery's 200 rests on the earlier one's stamp. `FollowsPolar` is about
the last event an account ever had, so its invariant `FollowInv` adds:
`Announced`, the last event of a subscription says what the subscription is
(an order asks Polar afresh and gets the same answer); `Addressed`, a handler
writes to the account of its event; `InOrder`, for an account outside `mixed`
one event at a time is at work, those before it are answered and those after it
unheard of (an account whose event was settled by hand is in `mixed`); `Following`, the update its handler computed, and the profile once
it is through, agree with the subscription. Agreement survives the clock, which
only ends Pro, and the sweep, which takes only what ended before `now - Grace`;
a comped account drops out and never comes back.

**NoticesProofs.** `MailedOnce`, `NoneMissed`, and `KeepsTheLedger`: the
transactions, pg_net and the reconciler implement `MailLedger`. The invariant
`IInv == TypeInv /\ LockInv /\ CallInv /\ LogInv /\ OnceForEachShare /\
NobodyMissed`. `LockInv`: no two calls of one share and reader run at once, the
lock the rate limit's row really is. `CallInv`: what the trigger decided
is still true of a call that has not committed; a call that took a reader for
a repeat had seen a committed session of that reader, and so an entry of the log
(by `NobodyMissed`), which says told or that the secrets were missing. `LogInv`: every entry
stands for a session that is there, and an answer or an acceptance only for an
entry that was posted. The refinement takes these steps one action at a time:
`Commit` is a `Write`, `Post` a `Take` or a stutter, `Reconcile` a `Settle`.

**CursorsProofs.** `NothingSkipped` (`SentBehindCursor`) and `NothingUntold`
(`TriedBehindCursor`), for any batch, number of rounds, runs, faults, owners and
shares. `IInv == TypeInv /\ RowInv /\ CursorInv /\ FeedInv /\ TaskInv`. A cursor may
go backwards, when the slower of two runs writes last, so the properties say nothing
of a step; `TaskInv` says of each run that everything up to where it has read was
handed over by whoever was before it or will have been when it writes. For the feed
that holds of what is not excused (`Excused`: a share that is gone or was joined by
another of its owner), because only those can fail the test of `FeedNews`, and none
of them is ever a lone share again.

**SharingProofs, Links.** `TypeCorrect`, `FreeCapHolds`, `AddressKeptHolds`,
`RefusedLeavesNothingHolds`. `IInv == TypeOK /\ CallInv /\ CapInv /\ GoneInv /\
AddressKept`. `CapInv` is the argument of the advisory lock: at most one free
link of an account is uncommitted, and while there is one there is room for it.
`CallInv` says of each step of a call what it knows of its document and its link,
`GoneInv` that a link that is gone never had a chosen address. Each action moves the
links in one of a few ways (`LinkMove`), and what it does not touch is framed once
(`Frame`).

**GatesProofs, Gates.** `TypeCorrect`, `ServedUnderRulesHolds`,
for any browsers, requests, forms and lives of cookies.
`IInv == TypeOK /\ Cookies /\ RequestsSound /\ DOMAIN request = Requests`.
`Cookies` (`Kept`): a cookie says of its reader what the reader has shown, and
expires a life after it. `Sound` says of a request that its cookies were kept so,
that `fair` holds if it is owed its answer under the rules as they stand now
(`Owed`, `Fair` with the one grant the request carries), and that past the
read of the share only a document or file that has gone since can make it
unfair. `ServedUnderRules` alone is not inductive: it says nothing of a request
before its last read. `VerdictOwed` is the heart of it: whatever the one read of
the share lets through, the reader was owed at that moment; an owner's step keeps
`Sound` since every request is looked at when the rules move (`LookedAt`), a
reader's since it moves no rule (`OwedKept`).

**GatesProofs, Alerts.** `OncePerCooldownHolds`, `OneStrayHolds`, for any calls,
windows, saves and any cooldown. `AlertsInv == AlertsTypes /\ Spaced`. One call at a
time is past its look at the link (`OneDecided`, the advisory lock); the stamp of a
link that is there is no older than any mail about it (`Stamp`), so that the call
that is past its look is a cooldown from all of them (`Apart`) although its
transaction may have begun before others; and it is right about the link, or no mail
has gone astray since the last save (`Current`). Since the one that goes astray lets
go of the lock, and the next looks afresh, there is no second.

**AccountProofs, Connections.** `TypeCorrect`, `OneGrantPerKeyHolds`,
`RecordedGoneHolds`. `Core`: how far each decision, callback and revocation
has come and what its key, handle and row must then be (`Lifecycle`), and that a
key is in the hands of a handle, of one callback or of one grant, never of two
(`Single`). For `RecordedGone`, `Rest`: no step gives a revoked key back or adds to
its timely grants (`KeyStays`), so what is left of a revocation's list holds every
timely grant of its key that is still there (`RevocationSound`), and a row is
recorded as gone only when there is none (`GoneSound`).
Nothing is assumed of when a key is revoked or of how late a listing is.

**SharingProofs, Reading.** `ReadingTypesHold`, `HiddenNeverCountedHolds`,
`DwellIsAttentionHolds`. `ReadingInv == PageTypes /\ RowTypes /\ Phases /\
Counts(session) /\ Attention`. `HiddenNeverCounted` is not inductive: a session
that counts will add the time since `since` at its next `tickActive`. `Counts`
says it of that time too (what is counted plus what has run since is no more
than what was shown), and that a session counts in a tab that is shown only; of one
that was stopped, that it counts from what was shown to `Idle` after the last act it
heard. For the dwell, `Attention`: the tracker never takes the reader to be there
later than the reader was; a section has a streak only after a sample since the
return; and from then on what the next frame would credit (`Elapsed`, never more than
`Clamp`) is covered by the time the reader was there for, or by the `idle` time that
the next sign of the reader turns into such time. The first sample after a stale one
starts a streak and is not credited, because a qualified streak (`Qualified > 2`) is
longer than any one sample. The sum over sections is the cardinality of `Credited`: a
unit credited to one section adds one pair (`FiniteSetTheorems`), and no induction
over the sections is needed.

**AccountProofs, Documents.** `DocumentsTypesHold`, `ToldIsReadableHolds`,
`FileKeptHolds`, `ScoreIsServedHolds`. `DocumentsInv == DocumentTypes`, `RowSound`
of every row, `BodySound` of every object, `KeySound` of every key a row or the
history names, `RequestSound` of every request. A row and its object are
written by different calls, so `ToldIsReadable` alone says nothing of a request
between the two: `RequestSound` says at which step the first object must be there,
`RowSound` that a row is `complete` only when the request that made it has no
rollback left to do (`MakingOver`), and `KeySound` that a replacement's key is
named by a row or the history only when nothing will tidy it away (`KeyUsed`).
A step then moves objects and rows in few ways (`ObjectsStay`, `RowsGoOn`).
`FileKept` follows from what a request at `answer` knows: the document has the
file it carried, and the record with its token is of that file.
`ScoreIsServedHolds` adds `ServedInv`: of a replacement from the dashboard, unless
its document is in `raced`, the version it will write is not there yet (`Ahead`), what
lies under its key is its own (`Written`), and no other one has its key (`Apart`). The
API's replacements need none of this, because each has a key of its own.

Only model-checked: all liveness (`EventuallySwept`, `LapseEnds`, `ReadingArrives`,
`EverythingSettles`, `EverythingHandedOver`), since fairness is out of the
prover's reach. Every other property of a passing run is stated by a theorem.

## 5. Not modelled

- **Health probes and their alert throttle** (monitor:3993): probes over HTTP
  with one lookup before an alert; duplicates are taken on purpose.
- **Thread scan, sentinel, daily digest**: switched off in `wrangler.toml`;
  scoring and wording, with idempotent upserts as the only shared state.
- **API keys and rate limits**: a key is one read and a window one locked
  statement that fails open; what a revoked key does to a connection is in
  `Connections`.
- **Handles**: one unique insert with retries; `ShareHosts` takes a handle to be
  its account's for ever.
- **Onboarding e-mail, abuse reports**: claims of a single statement.
- **MCP server**: a stateless client of the API.
- **Connector's refresh tokens**: the OAuth library's, over KV.
- **Web application's pages and the marketing site**, most of the repository's
  lines: rendering and wording, without state that several actors write.
- External services beyond what the code sees of them.

What could come next: an abstract "granted, then revoked" for connections, and
`Documents` shown to implement one register of bytes and score per document.
