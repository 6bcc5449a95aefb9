# A verification of goingblue

goingblue answers weather-forecast requests sent by SMS from satellite phones. The app composes a
request text, the reader sends it as a message, Twilio hands it to a **gateway server**, a
**codec server** of the request's protocol version turns it into an encoded forecast, the gateway
sends that back as one or more messages, and the reader pastes them into the app. Every message is
paid for, the link is slow, and the reader may have no other source: what has to be right is that
a request is answered, once, with parts that belong together, or ends in a state somebody is told
about.

This directory holds TLA+ modules of that system, TLC configurations that check them on small
instances, and proofs checked by TLAPS. Paths below are relative to `src/packages/`.

1. [The system](#1-the-system): the inventory
2. [Modules and their code](#2-modules-and-their-code)
3. [Runs, bounds and what they show](#3-runs-bounds-and-what-they-show)
4. [Fairness](#4-fairness)
5. [Proofs](#5-proofs)
6. [Where the code and its documentation disagree](#6-where-the-code-and-its-documentation-disagree)
7. [Abstractions and what is not modelled](#7-abstractions-and-what-is-not-modelled)
8. [Plan](#8-plan)

## 1. The system

### Components

| component | code | state | operations |
|---|---|---|---|
| delivery store | `server/src/delivery.ts`, `db.ts` | a `requests` row per message (received, queued, encoded, sent, failed, no reply; outcome) and its `replies` rows (text, claim, SID, failure, delivery events) | one SQL statement or transaction each: receiveMessage, markQueued, recordEncoded, recordRejected, claimReply, releaseReply, recordReplySent, recordReplyFailed, recordRequestSent, recordReplyDelivery, failOverdue, recordMissed |
| message intake | `server/src/routes.ts` | none of its own; Twilio's view of what it has delivered | `/sms` (webhook, delivered once) and `/twilio-sink` (events, redelivered until a 2xx) both go through queueMessage: insert the row, enqueue its task, mark it queued |
| task queue | `server/src/tasks.ts`, Cloud Tasks | the task named after the row, its attempt under way, whether the name is free | enqueue (409 when the name is taken), dispatch, the 40 s dispatch deadline, retry until the queue gives up |
| encode task | `server/src/encode-task.ts`, `twilio.ts` | the variables of a run | load, fetch the message from Twilio, resolve the forecast, record it, reload, claim / send / record each part, complete |
| health check | `server/src/health-check.ts` | the row it is at | failOverdue, listUnqueued and enqueue, compare with Twilio's list, recordMissed |
| quota and resolution | `server/src/quota.ts`, `forecast.ts`, `dispatch.ts` | derived from `requests` | quotaStatus, overHard, quotaHeader, resolveForecast |
| delivery receipts | `delivery.ts` recordReplyDelivery, `routes.ts` handleDelivery | event columns of `replies` | first word stands, 404 until the SID is there |
| accounts and subscriptions | `accounts.ts`, `subscriptions.ts` | `accounts`, `subscriptions`, `account_subscriptions` | create, delete, subscription events, transfers, entitlement sync |
| codec server | `codec-server/src/forecast.ts`, `agreement.ts`, `weathercode.ts`, `index.ts` | none that outlives a request | parse the request, fetch the series it needs from up to six sources at once and merge them by the hour, correct the phase of the precipitation, fill the cloud band, tell periods and how other models agree, search the ladder of layouts for the largest that fits, split |
| forecast codec | `protocol/src/wire.ts`, `layout.ts` | the columns written so far, the columns read so far | write and read every column of a body against the columns before it; the ladder of layouts |
| entropy coder | `protocol/src/rans.ts`, `entropy.ts` | the 32-bit state and the words emitted | rANS encode / decode; tables fitted to 12 bits; symbols outside a table escaped |
| message parts | `protocol/src/parts.ts` | the text pasted so far | split, merge a pasted part, reassemble |
| app request store | `mobile/cache.ts` | requests of the app in AsyncStorage, a ring of 128 codes | allocate a code, attach a reply, hide, delete |
| app stores | `mobile/packStore.ts`, `favorites.ts`, `purchases.ts`, ... | lists persisted in AsyncStorage, archives on disk | download, cancel, remove a map pack, reconcile at start |
| account on the phone | `mobile/App.tsx`, `account.ts`, `quota.ts`, `settings.ts`, `SetupScreen.tsx` | the token, the quota last heard of, the stores kept for the token | set up, launch, delete the account, note the quota a reply states, poll it |
| avalanche bulletins | `codec-server/src/avcan.ts`, `avalanche.ts`, `protocol/src/avalanche-codec/` | none | map a product of the feed to a bulletin, plan it decision by decision, read it back |
| requests | `mobile/HomeScreen.tsx` prepareMessage, `codec-server/src/forecast.ts` parseRequest, `server/src/dispatch.ts` | the selection, a pin or a fix, which wait for a fix is current, the context stored under a code | press, wait for a fix, call it off, store the context, write the words, read them, refuse or describe them |
| Weather tab | `mobile/HomeScreen.tsx` | text, what is drawn, spinner, what is being decoded | fetch, cancel, paste, clear, draw a saved forecast, decode effect |

`PROJECT.json` lists all components, the ones left out with the reason.

### How they interact

    phone --SMS--> Twilio --/sms--------> intake --insert, mark--> store <--statements-- encode task
                     |                      |                        ^                     |   ^
                     +--/twilio-sink------> +--enqueue--> queue --/encode-task-------------+   |
                     |                                      ^        |                         |
                     +<--list of messages-- health check ---+--------+ fail, list, mark        |
                     +<--get the message, create a reply --------------------------------------+

The processes share only the store and the queue. Nothing is locked across two statements, any
process may die between two statements, Twilio delivers the webhook once and redelivers events
until it gets a 2xx, the queue retries a task until a run answers 2xx and starts a second run when
the first outlives its dispatch deadline, and Twilio may carry out a send whose answer never
arrives. The only mutual exclusion is the claim: `update replies set sending_at = now() where ...
sending_at is null`.

### What is hard, and what has to hold

- *Encode task.* Overlapping runs of one task; a run that dies between the claim, the send and the
  write of the SID; a timeout after a send that was carried out; two runs that encode the request
  differently; a request that ends while a run holds an older row. It has to send each part at
  most once per lost acknowledgement, all parts from one encode, nothing on a request that owes
  nothing, and it may call a request sent only when it is.
- *Intake.* A crash between the row, the task and the mark. Nothing may be called queued, or
  acknowledged to Twilio, before the queue has had it.
- *Health check.* It is the only component that promises anything in the face of all others
  failing: every message that reached Twilio ends in a terminal state. It also races with late
  deliveries of what it records as missed.
- *Quota.* The standing is read before the codec call and used after it. Overlap, a month's end
  between receipt and encode, a subscription or a deletion in between must not let an account
  far past its limit, silence it unannounced, or promise it less than it has.
- *Receipts, subscriptions.* Events out of order, repeated, or racing with a deletion.
- *Parts, coder.* Any order of pasting, repetitions and parts of other replies must either give the
  reply back or be refused; decode must undo encode at the ends of the state interval.
- *Forecast codec.* The reader of a column has no lengths and no markers: it must choose the same
  book of weights as the writer from nothing but the columns it has read. One step in which the two
  remember differently and everything after it is noise.
- *Codec server.* A forecast is put together from calls with horizons and days of their own; a series
  that slipped or that nobody asked for is told as calm and clear. A period's row is told from hours that may be ragged, null or between rain and
  snow; what is served must be the largest that fits, and never without data.
- *App stores.* Load, change and save across awaits; a code reused while its reply is under way.
- *Account on the phone.* A deletion is some ten awaits on the server and in five stores; it times
  out, throws or is killed anywhere, while a launch, a paste and a quota answer come in between.
- *Requests.* A press captures what is selected and waits for a fix and a code, while selection, pin
  and hour move on; a wait that was called off ends after newer ones; the message is read days later.
- *Avalanche bulletins.* The decoder asks for each symbol from the table its own reading names, and
  a partial bulletin must not be shown as a whole one.
- *Weather tab.* A fetch, its cancel, a paste, a clear and a decode in any order, and a screen that
  shows the forecast of one text while another is being decoded.

`PROJECT.json` lists these hazards at their lines, with the properties that cover each.


## 2. Modules and their code

| module | models | about |
|---|---|---|
| `DeliveryStore` | `server/src/delivery.ts`, the schema in `db.ts` | the rows of one message; one operator per SQL statement |
| `TaskQueue` | `tasks.ts`, Cloud Tasks (external) | the named task of that row |
| `EncodeTask` | `encode-task.ts`, `twilio.ts` | any number of runs, one action per statement or outside call; the other components as an environment |
| `Ingress` | `routes.ts` | handlers of the webhook and of events, Twilio's deliveries |
| `HealthCheck` | `health-check.ts` | overlapping checks |
| `Intake` | - | composition of `Ingress`, `HealthCheck`, queue and store; runs reduced to the statements they may make |
| `Delivery` | - | composition of everything above |
| `Lifecycle` | comments of `db.ts`, `health-check.ts` | abstract specification of one request |
| `Quota` | `quota.ts`, `forecast.ts` | the requests of one account over a month's end |
| `Subscriptions` | `subscriptions.ts`, `accounts.ts` | accounts, purchases and the links between them, RevenueCat's events, syncs, deletion, the orphan sweep |
| `Receipts` | `delivery.ts`, `routes.ts` | Twilio's batches of delivery events and the handlers recording them |
| `SlotRing` | `mobile/cache.ts` | the app's request store, as operations that load, wait and save |
| `PackStore` | `mobile/packStore.ts` | archives, persisted list and shown list of map packs |
| `Account` | `mobile/App.tsx`, `account.ts`, `quota.ts`, `settings.ts`, `SetupScreen.tsx` | the token and what is stored for it, through deletions and restarts |
| `Screen` | `mobile/HomeScreen.tsx` | the Weather tab's text, fetch and decode effect |
| `Parts` | `protocol/src/parts.ts`, the box in `cache.ts` and `HomeScreen.tsx` | splitting, merging, reassembling |
| `RansTables`, `Rans` | `protocol/src/rans.ts` | tables from weights; the coder's two ends |
| `Layout` | `protocol/src/layout.ts`, `constants.ts` | the ladder of layouts, the request window, the periods |
| `WireLadders`, `WireBody` | `protocol/src/wire.ts`, `entropy.ts`, `bits.ts` | scales and contexts; every column as written and as read |
| `Upstream` | `codec-server/src/forecast.ts`, `agreement.ts` | the calls of a forecast, their retries, the merge, the period as told |
| `Aggregate` | `codec-server/src/forecast.ts`, `weathercode.ts` | hours told as periods |
| `CloudBand` | `codec-server/src/forecast.ts` | the cloud band of a period |
| `CodecServer` | `codec-server/src/forecast.ts`, `index.ts`, `protocol/src/devices.ts` | an accepted request, the search up the ladder, the split |
| `Request` | `mobile/HomeScreen.tsx`, `codec-server/src/forecast.ts`, `server/src/dispatch.ts` | a request from the press that makes it to the codec's reading of it |
| `Bulletin` | `codec-server/src/avcan.ts`, `avalanche.ts`, `protocol/src/avalanche-codec/` | a feed's product mapped, planned and read back |
| `EncodeTaskProofs`, `DeliveryProofs`, `QuotaProofs` | - | theorems about the pipeline and the quota |
| `RecordsProofs`, `PhoneProofs`, `ScreenProofs`, `CodecProofs`, `UpstreamProofs` | - | theorems about `Subscriptions` and `Receipts`; `SlotRing`, `PackStore`, `Account` and `Parts`; `Screen`, `Request` and `Layout`; `CodecServer`, `Aggregate`, `CloudBand`, `Rans` and `RansTables`; `Upstream` |
| `MC...` | - | instances for TLC; `MCRecords` and `MCCodec` each hold several components that share nothing |

**One message.** Every statement of the pipeline addresses one row, by id or by SID, and all state
in memory is local to a handler or a run; messages do not meet each other before the quota. So the
pipeline's modules follow one message, and `Quota` the many messages of one account.

**Statements are the atoms.** A timestamp column is a Boolean (null or not). What a comparison with
`now()` decides is a small clock `age`, reset by `markQueued`, that passes the three thresholds of
the code in their order: the health check's grace, the encode task's retry window, the health
check's deadline. Time is not otherwise tied to the runs: a run may be arbitrarily slow.

**A run of the encode task** (`EncodeTask`). The program counter is the statement or call the run
is about to make:

| pc | action | code in `encode-task.ts` |
|---|---|---|
| `load`, `loadReplies` | `LoadRow`, `LoadReplies` | runEncodeTask 34-53, loadDelivery's two queries |
| `fetch` | `FetchOk`, `FetchRetry`, `FetchRejected` | 55-71 |
| `resolve` | `Resolve`, `ResolveUnavailable` | 75-87; the result is left to the codec |
| `record` | `Record` | 88-98 |
| `reload`, `reloadReplies` | `Reload`, `ReloadReplies` | 99-102 |
| `claim` | `Claim`, `ClaimsDone` | the loop 104-106 |
| `send` | `SendAccepted`, `SendRejected`, `SendRetry`, `SendUnacknowledged` | 107, sendMessage |
| `recordSent`, `recordFailed`, `release` | `RecordSent`, `RecordFailed`, `Release` | 108-121 |
| `check`, `finish` | `Check`, `Finish` | 124-131 |
| any | `Crash` | the instance is killed, or a statement throws |

`Dispatch` is an attempt of the queue, `ExtraCall` any other call of the route. A run whose attempt
timed out goes on, its answer unheard. Ghost variables record what Twilio did: `accepted[p]` the
messages created for a part, `lost[p]` those it did not acknowledge, `carried` which texts went
out.

**Intake and health check.** A handler of `Ingress` inserts, enqueues and marks, and can die in
between; an event is redelivered until it is acknowledged, the webhook never. `HealthCheck` goes
through its three steps in the code's order and can die anywhere.

**Composition.** `EncodeTask` is checked and proved with an `Environment` that may make any
statement the other components make, at any time; `Intake` with `TaskEffects`, any statement of a
run at any time its guard allows. `Delivery` composes the real components, and two refinements show
that neither environment left anything out: its specification implies `EncodeTask`'s `Spec` and
`Intake`'s `IntakeSpec`, over the same variables. TLC checks both and section 5 proves them, so that
what is proved of either half holds of the pipeline.

**The abstract lifecycle.** `Lifecycle` states what the comments promise of the `state` column:
received, queued, encoded, then one of three ends never left; what is owed is fixed once; `sent`
needs every part answered; and nothing is answered on a request that owes nothing. `EncodeTask`
implements it with the generated column's expression as `state`, the reply rows as `owed` and those
with a SID as `answered`.

**Quota.** A run reads the standing (`ReadQuota`), the codec answers, and the standing is applied
as it was read (`Served`). `basis` and `told` are ghosts: what of the standing limited a weather
forecast (nothing, when the account was subscribed or the standing could not be read), and whether
its reply was the cut-off reply.

**Subscriptions.** Three tables. RevenueCat (external) has produced a sequence of events about each
purchase and delivers any of them at any time, any number of times. Nothing in the code makes its
transactions serial: they run at PostgreSQL's default, read committed, and no foreign key ties a link
to its account. So the writes of a webhook, a sync and a deletion are transactions in `open`, each told
by what it does (`Recording(e)`, `Syncing(a)`, `Deleting(a)`), and each a sequence of steps that any
step of another may come between:

| step | code | what it does |
|---|---|---|
| `WebhookLooks`, `RecordEntitlementSync`, `DeleteLinks` | the statement that finds the accounts, and the links to delete (`Looked`) | what is committed then is what it works on |
| `TakeLink`, `PutLink` | `delete from account_subscriptions`, `insert ... on conflict do nothing` | one link at a time, seen by nobody else yet; a link another transaction has deleted or inserted is waited for, a link that is there is left and not locked |
| `Webhook`, `SyncCommit`, `DeleteCommit` | `commit` | rows and links are seen from here on; a link gone drops out of what others still meant to delete |
| `WebhookFails`, `SyncFails`, `DeleteRollback` | `rollback` | nothing has happened |

A row of `subscriptions` appears with the commit although its statement comes earlier. Nobody can see
it before, and nobody can decide by it: the upsert locks the row, which is why `WebhookLooks` waits
for another event of the same purchase, and a sync's row is written by that account's syncs alone.
One webhook per event, one sync and one deletion per account are under way at a time. `customer` is
what RevenueCat knows, `recorded` the events recorded. `raced` is a ghost: the links that were
inserted by a transaction that overlapped a deletion of their account (`beside`), as long as that
deletion has not been rolled back.

**Receipts.** A delivery is a batch of events, some about SIDs the gateway does not know, handled
one event at a time by overlapping handlers; Twilio repeats the batch until it hears 200.

**The app's stores.** All of them load a document, change it and save it with awaits in between, and
nothing locks. `SlotRing` keeps the ring of codes: an operation holds the store it loaded; a write
may fail, which `cache.ts` ignores. `disturbed` and `crossed` are ghosts that mark a failed write
and an overlap: `RequestKept` is stated for runs without, `own_code` shows what happens with.
`PackStore` keeps the two archives of a pack on disk, the list saved and the list shown apart, with
downloads, cancels, removals, a reset and the reconciliation at start in any order. `Account` follows
the server's account, the token stored and held, and what is stored under it, as one step per
await of the deletion.

**Screen.** A tap's change of the text is on screen and its effect begun before anything else runs;
a change made after an await waits until React gets to it. Each decode effect reads the store,
decodes and comes back; `MaxStale` bounds how many superseded ones are under way.

**Requests.** A press captures its closure (selection, point, hour), waits for a fix under the
generation `locateGen` and for a code, and is handed over as words, each a key and what it says;
coordinates count in 1/100000 of a degree. The codec reads the words whenever they arrive, with the
footer of a relay after them. `pressedWith` is a ghost: what each press was made with and whether it
was called off.

**Upstream.** A selection becomes a call per source: the surface model, the pressure levels where they
come from another model (Europe), air quality, and each other center for agreement. All are under
way at once; a connection that fails is tried again at most twice within the 15 s one call has for
all its attempts, and the first that fails fails the request. Each answer begins at the server's
midnight before the call, so the axis moves when the day does (`NextDay`). What was gathered is
merged by the hour and told by the period with the operators of `Aggregate`. The property goes the
other way: from a period's text back to what the source said of its hours. What upstream says is
external (`Observed`), as are its names for it (`Named`: an identifier cannot hold the point of
PM2.5) and the HTTP library's own retries.

**From hours to text.** `Aggregate` and `CloudBand` turn an upstream answer into rows, `Layout` says
which periods a request and a rung mean, `WireBody` writes and reads the columns of a message with
the contexts of `WireLadders`, `Rans` codes their symbols with the tables of `RansTables`, and
`CodecServer` searches the ladder and splits the text; `Parts` puts it together again. Each is
checked on its own, over inputs the one before it can produce: a composition would multiply the
weather by the layouts by the coder without an interleaving between them to find.

A `WireBody` is the sequence of `<<book, symbol>>` decisions given to the coder. The writer walks the
columns and remembers what it wrote, the reader walks them with nothing but the decisions; the
property is that it asks for the same books. `Bulletin` is built the same way, a decision being
a table, named by stream, order, context and exclusions, and a symbol.

## 3. Runs, bounds and what they show

| run | instance | checks |
|---|---|---|
| `answer` | 2 overlapping runs, 2 parts, 2 encodings, 1 lost acknowledgement | `IInv` (the invariant of the proofs), `AtMostOncePerLostAck`, `OneEncoding`, `SentMeansEveryPart`, `NothingOwedNothingSent`, `ImplementsLifecycle` |
| `intake` | 1 handler, a fair health check, every statement of a run | `QueuedMeansEnqueued`, `AckedMeansEnqueued`, `EveryMessageEnds` |
| `delivery` | 1 handler, 1 run, 1 health check | `ImplementsEncodeTask`, `ImplementsIntake` |
| `quota` | 4 messages, 2 runs, limits 1 and 2, 2 months | `IInv` (the invariant of the proofs), `ServedBounded`, `HeaderNeverShort`, `SilencedWasTold` |
| `records` | four components, below | `Converged`, `OrphanOnlyByRace`, `SyncServesTheEntitled`; `AnsweredMeansRecorded`; `RequestKept`; `QuietMeansWhole` |
| `codec` | thirteen components, below | `TableFair`; `DecodeUndoesEncode`; `RungsServe`; `PeriodsTell`; `LayerShows`; `BodyReadsBack`; `WithinWhatWasAsked`, `LargestThatFits`; `ReadAsAsked`, `WaitsOwned`; `ToldFromTheSource`; `Collected`; `DrawnIsText`, `CancelledNeverShown`, `DrawnIsSaved`; `BulletinReadsBack`; `HeldUntilGone`, `StoredIsHeld`, `OverMeansOver` |
| `unsent_part`, `every_sid_means_sent`, `cut_off_once`, `redelivery`, `own_code`, `spinner` | the least that shows it | violated, section 6 |

`records` and `codec` hold several specifications whose variables are disjoint. The variable
`component`, chosen in the initial state and never changed, says which of them a behaviour is of;
the others stay at their initial states. This is a way of sharing a TLC run, not a composition.

### The bounds

*Pipeline.* Two runs are what the queue can produce of one task (one that timed out and its
successor) and every pairwise race of statements occurs; the theorems take the number away. Two
parts and two encodings are the least for a mixture of texts and for a request part of which is
sent, claimed or refused. One lost acknowledgement is the least that makes a part go out twice; the
theorem is for any number. In `intake` one handler stands for webhook and events in turn, since the
safety of overlapping handlers is proved for any number of them; the fair part needs only that
nobody else helps. `delivery` checks step inclusion rather than races between equals, so one process
of each kind suffices for every kind of step. In `quota` four messages and two overlapping runs
reach the bound of `ServedBounded` for both limits (two forecasts in one month cut the account to
the lower limit in the next).

*`records`.* `Subscriptions`: two accounts and two purchases (a transfer needs a from and a to, and
an orphan a second link), a period of 2 and times up to 2, so that an event is before, at or after
an expiry. Two webhooks, syncs and deletions are under way at once (`MaxUnderWay`), which gives every
pair of them every interleaving of their statements; the theorems of section 5 hold of any number.
`Receipts`: one message of the gateway and one foreign SID, two outcomes and times,
batches and repeated deliveries up to two, two handlers. `SlotRing`: a ring of two codes and three
requests, so that it wraps, two overlapping operations. `PackStore`: two packs (two requests for
one list), one remover. The constraint `Undisturbed` leaves out what the properties of the app's
stores are not about anyway: states after a lost write or an overlap of two changes, whose
consequences `own_code` exhibits.

*`codec`.* `RansTables`: a precision of 6 slots and up to 4 symbols with weights that force both
giving slots back and handing them out. `Rans`: M = 4 and L = 8, every table, every sequence of
three entries: all states of the interval occur. `Layout`: all 24 request hours with three offsets,
three models of different reach, all modes. `Aggregate`: three 3-hour windows over eight curves
of temperature and three offsets, ragged horizons among them; windows of 1, 3, 6 and 12 hours of 14
kinds of hour. `CloudBand`: 300 profiles of an hour at three elevations, alone and in pairs.
`WireBody`: twelve shapes of request that between them carry every column, with series of three
values, up to five series to a column, chosen so that every context, clamp and null case occurs.
`CodecServer`: ladders of four rungs of any lengths that matter for the device, all devices, 1, 2, 4
and 9 messages asked for. `Parts`: seven replies, two of them with the same header, three lines at
most, any order and repetition. `Screen`: two requests and a pasted text, two superseded effects.
`Request`: two presses, so that a wait that was called off meets its successor; two selections,
three starts (one with a phone clock 400 hours ahead), three hours, one pin, one fix, one footer and
one change by the reader. `Upstream`: six selections that between them
name every kind of series, each center, both kinds of call structure and all four agreement
levels, one midnight, one call past its first attempt at a time (`MaxTroubled`), upstream numbers
that no two feeds share, with nulls where a feed ends; winds blow along the axes (0 and 90 degrees), where the
mean direction needs no trigonometry. `Bulletin`: one sample product under 2 asks, 6 issue times and 3 expiries, every subset of five
pieces, 3 zones by 3 lists of danger, 15 lists of problems, 75 variants of prose, and a bare
product. No label of a weather period has a line break inside: label and text travel as one field
parted at the first break (`bulletin.ts:12`), and a label with one would be parted there.
`Account`: two tokens, one month's end, one question under way; the constraint `Trusted` leaves out
the states after storage did not give back or let go of what it had, of which the account's
properties say nothing.

Model values that are interchangeable are declared symmetric in the safety runs; `intake`, which
checks liveness, and `codec` use no symmetry. The bounds in guards or constraints are `age` (3
thresholds), `MaxParts`, `MaxLost`, `LastMonth`, `MaxNow`, `MaxUnderWay`, `MaxBatch`, `MaxDeliveries`, `MaxRequests`,
`MaxAsks`, `MaxOps`, `MaxSeq` (the header's field holds 63), `MaxStale`, `MaxChanges` and `MaxTroubled`.

*Deadlock* is checked wherever a component runs for ever. It is not in `quota` and `cut_off_once`,
whose finite set of messages and months is used up; in `unsent_part`, whose instance has no
spontaneous calls of the route and no crashes and stops once the task is cleared; nor in `records`,
`codec` and the three small violations beside them, whose components stop when the events, requests
or decisions of the instance are used up.

### Reading the results

- `ServedBounded`: a stale standing costs at most one forecast per other run at work, however reads
  and writes interleave; it counts what was judged in the month it counts in, and a request counted in
  one month and judged by the next is outside it. `HeaderNeverShort`: the header may promise too much
  under overlap, never too little. `SilencedWasTold`: silence always has a recorded cut-off reply before it in the month
  the request was judged in; that the reply was *recorded*, not that it arrived, is all the code
  knows.
- `Converged` holds although the events come in any order; `redelivery` shows that it is the row that
  converges, not the links. `SyncServesTheEntitled` is an action property: the commit of a sync whose
  answer still holds leaves a paying account subscribed. Its last premise is the one way out: the sync
  found its link in place and left it, unlocked, and a transfer has deleted it before the commit (three
  changes at RevenueCat are needed for that, so the theorem speaks of it and the run does not).
- `OrphanOnlyByRace` does not say that there are no orphans. A webhook or a sync that has found an
  account may insert its link after the deletion has looked for links, or after it has committed, and
  the code has nothing to stop it but the sweep of the next start. The property says that this is
  the only way: an orphan's transaction and the deletion of its account overlapped. A failed deletion
  excuses nothing, and neither does a sync that asked RevenueCat before the deletion and wrote after it.
- `QuietMeansWhole`: a reader offline is never shown a map that is not on the phone, whatever was
  cut short; packs may be lost from the list (section 7).
- `HeldUntilGone` and `StoredIsHeld` give the order of the deletion its reason: the server's account
  first, then the stores, the token last. Their exceptions, a token that could not be read at a
  launch and writes already under way, are the code's and are named in the formulas.
- `BodyReadsBack` (the conjunction of `InStep` and `Reencodes`) and `BulletinReadsBack` quantify over what was written, whatever it is, and are
  where a later change of one side of a codec would show.
- `LargestThatFits` carries the premise the search needs: with a ladder that does not grow, as a day
  that compresses better than a coarser one makes it, the result still fits if any rung tried
  did, and nothing more is claimed. `WithinWhatWasAsked` excepts the first rung, which is served
  whatever it comes to.
- `ToldFromTheSource` relates the two ends of `Upstream`: it names no call order, no merge and no day, so
  it fails for a series laid by position as for one under a wrong name. Retries have no property of
  their own: they change when an answer comes, and the property holds for every such time. Its last
  clause scores the other centers by the water that fell, whatever phase each told it in, so that rain
  against snow is no disagreement unless the wire shows nothing of what fell: whether there was any is
  taken from the wire (section 6).
- `RungsServe` is the conjunction of `WindowTiled` and `Servable`, `PeriodsTell` that of
  `DailyExtremes` and `SummaryAgrees`. `DailyExtremes` is about what one reading per period can say; whether the extremes are those of
  the model grid is the upstream's matter.

Each property has a mutant in `PROJECT.json`: a plausible slip in one definition (a dropped guard, a
swapped test, a lost case, a context taken from the wrong side) under which TLC finds the property
violated. The mutated forms are the `Bad...` operators beside the definitions they replace.

## 4. Fairness

Safety is checked without fairness. `EveryMessageEnds` assumes, in `IntakeFairness`:

- time passes (`WF` on the clock and on Twilio's last delivery attempt being over);
- Cloud Scheduler keeps calling `/health-check` (`WF` on the first step of a check), and its
  statements and calls succeed infinitely often when they are tried infinitely often (`SF`): a
  check may die or fail any number of times, but not every time. The code relies on exactly this;
  the heartbeat alert exists for when it does not hold (`health-check.ts:12-28`).

Nothing is assumed of Twilio's deliveries, of the queue, or of the runs: they may all fail for ever,
and the property says the message ends regardless. On the phone nothing is fair: the reader may
never paste, the app may be killed at any time, so that what is stated there is safety.

## 5. Proofs

The theorems hold for every value of the constants that satisfies the modules' assumptions. TLC
checks the same invariants first, on the instances above.

**`EncodeTaskProofs`**, for every number of parts, runs, encodings and lost acknowledgements:

| theorem | statement |
|---|---|
| `TypeCorrect` | `Spec => []TypeOK` |
| `Invariant` | `Spec => []IInv` |
| `ClaimProtocol` | `Spec => []AtMostOncePerLostAck` |
| `OneEncodingSent` | `Spec => []OneEncoding` |
| `SentIsSent` | `Spec => []SentMeansEveryPart` |
| `NothingSent` | `Spec => []NothingOwedNothingSent` |
| `Refinement` | `Spec => ImplementsLifecycle` |

None of these invariants is inductive. `AtMostOncePerLostAck` counts Twilio's messages, and a step
that sends one is harmless only because the part is claimed, unsent and unrefused at that moment,
by this run alone: facts about the run's program counter and about all other runs. `IInv` adds
them:

- `RepliesAgree`: outside a claim every message of a part was unacknowledged, inside one there is
  at most one more;
- `HolderAgrees`: a run at `send`, `recordSent`, `recordFailed` or `release` holds a part whose row
  is claimed, without SID and not refused, and nothing was sent yet unless it is at `recordSent`;
- `ClaimExclusive`: no two runs hold the same part;
- `RowAgrees`: the row and its replies agree, all texts are of one encode, a request that owes
  nothing has had nothing sent;
- `RunAgrees`: what a run believes is still true (it goes on to a send only past the terminal check
  after the reload, `encode-task.ts:99-102`, and `encoded` and `no_reply_at` never change back).

The proof has one lemma per action, each with one step per conjunct the action can disturb. The
assumptions are those of the modules: at least one part and one encoding, `NoBody` and `NoRun`
outside their sets.

`Refinement` takes each step to one of `Lifecycle`'s or to a stutter under the mapping above. `IInv`
is needed for what a run writes late: that an answer recorded under `encoded IS NULL` is the first,
that a SID goes to a row of the recorded encode, and that `recordRequestSent` comes only when every
row has one. The environment's statements need only their own guards.

**`DeliveryProofs`**, of the intake, for any number of overlapping handlers, health checks and statements
of runs:

| theorem | statement |
|---|---|
| `SpecTypeOK` | `IntakeSpec => []IntakeTypeOK` |
| `SpecQueuedMeansEnqueued` | `IntakeSpec => []QueuedMeansEnqueued` |
| `SpecAckedMeansEnqueued` | `IntakeSpec => []AckedMeansEnqueued` |

A handler acts on what it has reached, while others insert, enqueue and mark. The invariant `Known`
says that what a handler or a check has got past is true of the store and the queue: past the
insert there is a row, at the mark the queue has had the task. It survives the others' steps because
what a message has reached is never undone (`Onward`): the statements of `DeliveryStore` only set
columns, and a task that was enqueued may end but has been there. Each statement has a lemma that
it moves onward, and each action cites the statement's.

And of the pipeline, for every instance of both halves:

| theorem | statement |
|---|---|
| `RefinesEncodeTask` | `DeliverySpec => ImplementsEncodeTask` |
| `RefinesIntake` | `DeliverySpec => ImplementsIntake` |
| `PipelineKeepsItsPromises` | `DeliverySpec` implies what is proved of either half above: `AtMostOncePerLostAck`, `OneEncoding`, `SentMeansEveryPart`, `NothingOwedNothingSent`, `QueuedMeansEnqueued`, `AckedMeansEnqueued`, `ImplementsLifecycle` |

The two halves assume each other: that a run's write is among `TaskEffects` needs what `IInv` knows of
the run, that the health check's is in `Environment` needs what the intake's invariant knows of the
check. The circle is closed by time: both invariants hold in a state, so the step from it is a step of
each half (`BothHalves`), so both hold in the next. `DeliveryInv` is their conjunction.

**`QuotaProofs`**, for every number of messages and runs, any two limits with the stated one not
above the other, and any number of months:

| theorem | statement |
|---|---|
| `TypeCorrect` | `Spec => []TypeOK` |
| `Invariant` | `Spec => []IInv` |
| `HardLimitHolds` | `Spec => []ServedBounded` |
| `HeaderHolds` | `Spec => []HeaderNeverShort` |
| `SilenceIsTold` | `Spec => []SilencedWasTold` |

`ServedBounded` counts forecasts served and says nothing of the runs that will serve more. The
invariant counts both: `ExcessBounded` bounds, for each month and limit, the forecasts judged by
that limit (`Judged`) together with the runs that have read a standing under it (`Admitted`). Only
`ReadQuota` admits a run, and it does so only while the count it reads, which includes every
forecast in `Judged`, is below the limit; a forecast served moves from one set to the other.
`RunKnows` and `RequestKnows` say that a standing is old but not wrong: counts of a month never
fall, a cut-off never disappears, and no message is judged in a month before the one it was
received in. That last fact is why a silent refusal may be trusted: a cut-off row of the current
month was also judged in it. The assumptions are `QuotaAssumption` (finite sets, `Soft <= Hard`) and
`NoQuotaAssumption`.

**`RecordsProofs`**, for any accounts, identities, purchases, times, deliveries and handlers:

| theorem | statement |
|---|---|
| `SubscriptionsConverge` | `SubscriptionsSpec => []Converged` |
| `OrphansAreRaced` | `SubscriptionsSpec => []OrphanOnlyByRace` |
| `SyncServes` | `SubscriptionsSpec => SyncServesTheEntitled` |
| `AnsweredIsRecorded` | `ReceiptsSpec => []AnsweredMeansRecorded` |

`Converged` speaks of the moment when every event of a purchase has been recorded; events come in any
order before that. `SubscriptionsInv` follows the row all the way: it is what the latest event recorded
so far says (`RowIsLatestRecorded`), and RevenueCat's latest event says when the purchase ends
(`LatestTells`). That there is a latest, in a set of events of any size below `now`, is the lemma
`GreatestBelow`. The links take a second half, `LinksInv`, about the transactions under way, of any
number. `FoundOrBeside`: an account a transaction inserts links for is live, or was deleted beside it,
and every transaction knows the deletions under way. `DeletionHasLinks`: a deletion has every link of
its account, deleted or to delete, but those put in by a transaction it overlapped; this holds up when
another commit takes one of them away or puts one in. `CommitKeeps` is the step where the two meet: a
deletion's commit leaves only raced links, and a link committed after it has its transaction to
vouch that they overlapped. For the receipts, `DoneIsOnRow`: while the worst
outcome of a batch is 200, every event its handler has been through is on its row, and stays there
(`RowsStay`).

**`PhoneProofs`**, for a ring of any size, any packs and removals, any number of accounts, polls and
months, any replies of any length in any number of messages:

| theorem | statement |
|---|---|
| `RequestsAreKept` | `RingSpec => []RequestKept` |
| `QuietPacksAreWhole` | `PackSpec => []QuietMeansWhole` |
| `TokenGoesLast` | `AccountSpec => []HeldUntilGone` |
| `StoredGoesFirst` | `AccountSpec => []StoredIsHeld` |
| `OverIsOfThisMonth` | `AccountSpec => []OverMeansOver` |
| `RepliesAreCollected` | `PartsSpec => []Collected` |

`RingInv`: codes are handed out in turn, so the last requests hold the codes just behind the next one
(`RecentCodes`) and none has lost its slot to another; a slot this build reads holds no reply it does
not (`RepliesRead`), so that a pruning, which empties the slot of such a reply, does not take it.
`PackInv`: while no two changes of the list overlap, each carries the list it read to where it shows
it (`OneAtATime`), and what it will show is on disk (`DownloadsLand`, `RemovalsLand`, `StartLands`).
`AccountInv`: the token of a deletion goes only after the server has let the account go and what was
stored of it is gone (`StepsFit`, `ErasedInOrder`); what is stored of a quota was judged by the server,
of that account, by then (`AllJudged`).
`PartsInv` says what the box may hold at all and what it holds of the reply being pasted. Lines without
a label carry nothing of the body of a reply whose messages are numbered, unless the box is that one
reply whole (`BoxOK`): so `HeldWhole`, which keeps the box when it finds the pasted part in it, never
takes leftovers for the reply (`FoundInHeld`). Of the reply being pasted the box holds (`HasOf`), if
numbered, the whole or the parts pasted so far among others that look like its own (same total, same
header: `PartsIn`; those are overwritten, `Combine`); if not, the whole or its first pieces and nothing
else (`PiecesIn`), which decode as no reply and start with a head, so that the next piece is welded on
(`PasteNext`). What the pieces and parts join to is `CutsJoin`, for a sequence cut anywhere.

The attempt to prove `OverMeansOver` found it misstated: of an answer stored for a month it was not
judged in, it claimed the month just before, which the run could not refute since its `LastMonth` is 1.
The app's question has no timeout, and one that crosses two months' ends refutes it. The property now
claims an earlier month, in the run and in the theorem. The attempt to prove `Collected` found it too
strong: it spoke of every reply of a route that splits, and one that fits a single message carries no
number. If the app no longer holds its request, the box takes it for a piece of the reply being
collected and welds it on. The run had no such reply. The property now speaks of replies that are
numbered or asked for.

**`ScreenProofs`**, for any number of fetches, pasted texts and abandoned waits, as many presses as
there are codes, any settings of the builder and any points, and any request hours and offsets:

| theorem | statement |
|---|---|
| `ScreenTellsTheText` | `ScreenSpec => []DrawnIsText` |
| `CalledOffStaysOff` | `ScreenSpec => []CancelledNeverShown` |
| `DecodedIsSaved` | `ScreenSpec => []DrawnIsSaved` |
| `WaitsAreOwned` | `RequestSpec => []WaitsOwned` |
| `RequestsReadAsAsked` | `RequestSpec => []ReadAsAsked` |
| `RungsAreServed` | `LayoutSpec => []RungsServe` |

`ScreenInv` says what the properties say of a settled screen also while an effect is out: the effect is
of the text that is there (`DecodesTheText`), a suppressed save is of a text that is saved already
(`SuppressedIsSaved`), and a request named anywhere on the screen has ended (`SeenIsDone`).
`RequestInv`: no two waits are of the same generation (`WaitsApart`), so that the one that is current
is one press's, and a press called off has none that is current (`CalledOffIsOver`).

A message is read after everything about the press may have changed. `AskedInv` keeps, for each press
that got a code, that its slot still holds the context it was given (no later press gets a code that
is taken: `Presses` are no more than codes), that its words are those of what it was pressed with,
and that a verdict is what the reader makes of them. What the reader makes of them is a chain of
lemmas over the words: a key that stands once is found whatever stands after it, the words of a
footer have no key of the parser's (`WithFooter`), groups and pressure levels carried one by one or by
the name of a whole come back as the set they were (`CarriedWhole`), four places of a coordinate are
near the five of the point (`Rounding`), and an hour not in the future and not a day old is in the
window the server accepts (`InTime`).

The rungs are climbed by an invariant of three parts (`RungInv`): a profile never gets finer from one
day to the next (`Even`: it holds of every anchor, and the day that gives way is the leftmost behind, so
that the one before it is at least at its own anchor's rung), it is never longer than the cap, and
the rung is the sum of the days' resolutions (`Rungs`), which 13 days bound by 52. From there on it
is tiling: a row of periods tiles (`RowTiles`), a day's rows end at its midnight because every
resolution divides 24 (`DayTiles`), days laid end to end tile (`TilesJoined`) while none is finer than
the one before, and `LayoutTiles` climbs the days. The recursive function inside the library's
`FlattenSeq` is shown to exist first (`Flattened`).

**`CodecProofs`**, for a ladder of any length and any lengths on it, every device and number of
messages; for every interval of the coder, every table that codes and every message; for every
precision, all weights and as many symbols as there are slots; and for any hours of readings, nulls
among them, and any layout of periods over them:

| theorem | statement |
|---|---|
| `CodecLargestThatFits` | `CodecSpec => []LargestThatFits` |
| `CodecWithinWhatWasAsked` | `CodecSpec => []WithinWhatWasAsked` |
| `DecoderGetsItBack` | `RansSpec => []DecodeUndoesEncode` |
| `TablesKeepShares` | `TablesSpec => []TableFair` |
| `TablesCode` | `TablesSpec => [](Settled => Coding(BuildRansTable(freq), Precision))`, for a precision that divides L and is at most the word base |
| `LayersShow` | `CloudSpec => []LayerShows` |
| `PeriodsAreTold` | `AggregateSpec => []PeriodsTell` |

While the search runs nothing is known yet about what will be served. `SearchKnows` is its loop
invariant: the best rung so far is the one just below the interval, it fits unless the interval
still starts at the first, and where the ladder grows every rung that fits is at or below the upper
end. When the interval is empty this is the property. The second theorem needs the arithmetic of
`devices.ts`, for each transport: n messages of body and label are cut from the budget for n, and
each label's length holds the number it carries.

The decoder is right because it goes back up the very states the encoder came down through. Those
are gone when it starts, so `RansInv` says that there are some: a `Trail` of states and of counts of
words emitted, each pushed from the one below it, along which the encoder has come and the decoder
returns, reading the words backwards. Around it, arithmetic: the state stays in its interval
(`PushFacts`), one word at most goes or comes per symbol (`SpillFacts`; `ransEncode` and `ransReader`
loop, and the loops end after one turn), the slot names the symbol (`PopFacts`), and the zeros
dropped from the end of the message read back as zeros (`TrimmedReads`). The assumption
`RansAssumption` asks of a table that its symbols' slots are apart and that their number divides L and
is at most the word base; the code's own sizes, 2^12, 2^16 and raw widths to 16, satisfy it, so that
the theorem is about them and not only about the scaled-down ones TLC is given. That the tables
of `buildRansTable` are such tables is `TablesCode`.

What the tables rest on is that the rounding takes less than a slot from any share, so that fewer
slots are left over than there are symbols (`FewLeft`, a sum climbed term by term). The hand-out
therefore ends within one round (the code's `k % n` never wraps), and each symbol is within one
of its rounded share (`OneEach`), from which no surplus of two and no heavier symbol two behind
(`NearTheRounding`). Taking back keeps both: a donor that was already behind a lighter symbol would
have had less surplus than it (`TablesTakeBack`).

The cloud band needs no strengthening: its invariant says what each step computed, and the work is in
what that comes to. A layer with cover is placed on some level and shows on each it is placed on
(`PlaceLights`): the wettest level of a layer has nobody before it (`SomeTops`), and of the ways to
split the cover one is the last that shows, the first at the latest. The worst hour is at least as
cloudy as that one (`WorstIsOne`), a level that is served is not repaired (`RepairKeeps`), and the
level is in the cut: of a high layer because the third level is carried at every height of ground
(`Run`; the code's "300 hPa is always in the carried run for real terrain"), of another by the
property's premise. What share a level gets is left open, as a power nobody has to compute.

Nor do the periods (`AggregateInv`), and there too the work is in what is computed. *Extremes:* unless a
day's coldest and its warmest hour are in one window alone, two different windows of it tell one each
(`ApartIs`) and nothing is missed (`NothingMissed`). If they are, and the day has other windows, that one
tells one extreme and another patches what it can; no choice misses less than the smaller of the two
patches leaves, since whatever the window tells it misses one end or the other and the rest of the
day reaches no further (`Patched`). A day in one window misses its whole range whichever reading is told
(`OneWindow`). This is for every day at once because days share no window (`DaysPart`), so that one
day's choice is not overwritten by the next. *Codes:* `CodeSays` is what one code says of the codes
and amounts of its window, by families, whatever the counts are. The sums of a window are climbed hour by
hour (`SumsTogether`), with the water of each hour the same before and after its phase is corrected
(`HourCorrected`).

**`UpstreamProofs`**, for any selections, whatever upstream answers and however often a call fails:

| theorem | statement |
|---|---|
| `ForecastsTold` | `UpstreamSpec => []ToldFromTheSource` |

The calls keep nothing from each other but the day each was answered on, and the invariant (`UpInv`)
only carries that on: what was gathered is what the calls were told (`GatheredAs`), what is served was
covered and made of that (`CoveredAs`, `MadeAs`). The work is in showing that "made of" and "as the source
said" are the same, in four steps. *Names:* a name says where it is taken, no two calls own the same one
(`NamesApart`), and each reads back from the SDK's spelling as it was asked for (`ReadsBack`), so a
decoded answer is a series for each name asked for, by the hour (`Decoded`). *Merge:* a merged series
has at each hour of the site's axis what its own call said of that hour, whichever axis it came on, and
nothing where that call does not reach (`MergedIs`); so the hours of the site are those of its own call
(`GatheredIs`). *Windows:* the indices of a period are exactly the hours it has in common with the
axis (`WindowIsDuring`), so that a worst hour is the worst the source told (`WorstTold`) and a period
has a temperature exactly if its source had one (`RowKnown`, which rests on the reading a period of a
day tells being one it has: `DaysPart`, `DayTold`). *Water:* the phase correction keeps the water of an
hour (`HourFell`) and hours off the axis add none (`SumPadded`), so a row's water is the source's
(`WaterTold`) and the score is by it (`ScoredAsGiven`). Not claimed: the direction of the wind, and the
cloud band, which is `CloudBand`'s.

*Assumptions.* Each is named in its module and evaluated by a run. Besides those above: finite and
disjoint sets of packs and removals, with marks that are none of them (`PackAssumption`); marks
that differ from each other and from every text (`ScreenAssumption`), from every operation
(`RingAssumption`); of a request, that the builder offers what the parser knows, that local time is
12 hours behind to 14 ahead of UTC, that there are no more presses than codes (`BuilderAssumption`,
without it a code comes round again: `own_code` and `RequestKept` are about that), and that a
relay's footer has no word with a key of the parser's (`FooterAssumption`: the parser takes the last
word of a key, so that a relay which wrote one would be believed); that readings are whole numbers or
none and that no site is above 9000 m (`AirsAssumption`; above 11.7 km the highest levels would be cut
from below); of replies, that a header is no part
of a body and a transport's piece is longer than a header (`PartsAssumption`); of the hours periods are made of, that a reading is a whole number or none and an amount
a number (`sumOf` takes a null for 0), and that every period has a start and a length (`SkiesAssumption`); of
upstream, the same of what it says, and that a selection is of the columns there are (`UpstreamAssumption`).

*Only model-checked.* Liveness (`EveryMessageEnds`): TLAPS reasons about neither fairness nor ENABLED.
What a pure function computes for every input: `BodyReadsBack` and `BulletinReadsBack`
speak of folds, greedy loops and recursive definitions over data. Some of them could be had as
`DecodeUndoesEncode`, `TableFair`, `RungsServe`, `PeriodsTell` and `ToldFromTheSource` were: induction over
sets of naturals (`OneByOne`, `StepByStep`), from the existence of a least or a greatest member
(`LeastNatural`, `GreatestBelow`), is at hand.

## 6. Where the code and its documentation disagree

Shown by a run:

- `unsent_part` (`encode-task.ts:17-19`, 105, 130). A run that ends with "retry" is to be picked up
  by a later one. When the dispatch deadline passed and a second run met the claimed part, that run
  returned "done" without it (the loop passes over a claim, and the end of the function returns
  "done" when a part has no SID); the task is gone when the first run gives its claim back. The
  request is failed by the health check 15 minutes later.
- `every_sid_means_sent` (`db.ts:227-228`, `delivery.ts:269`). A request whose every part has a SID
  can end as `failed`: a run died before recordRequestSent and the overdue check looks at the row
  alone.
- `cut_off_once` (`quota.ts:10-11`, `forecast.ts:118`). Two overlapping requests at the limit both
  get the cut-off reply, since `notified` is read before the codec call.
- `redelivery` (`subscriptions.ts:68-69`, 107). "The same event twice leaves the same rows" holds of
  the row that carries `event_at`, not of the links: a purchase event delivered again after a
  transfer links the purchase back to the account it left.
- `own_code` (`HomeScreen.tsx:1281`, `cache.ts:265`). Each outgoing request is to get its own code.
  Two operations of the store that overlap at its load give the same code to two requests, and so
  does a write that failed.
- `spinner` (`HomeScreen.tsx:1008-1012`, 1435). The spinner is to be cleared whichever way the decode
  settles. When the text is emptied between the reply and the end of its decode nobody clears it.

Noticed while reading, without a run because they lie in what is abstracted:

- `codec-server/src/forecast.ts:1076` says a variable a model lacks is never carried on the wire;
  `wire.ts` writes a column of zeros for a freezing level asked of CA or EU. The app does not ask.
- `avcan.ts:179-181` bounds the fetch "inside the gateway's 20 s budget"; two fetches of 15 s each
  follow one another.
- The agreement of models (`codec-server/src/agreement.ts` and its caller in `forecast.ts`) is to
  give every model "the same phase correction"; the variables fetched for it lack the freezing level
  and the weather code the correction reads. The scores are of water, so that a difference of phase
  alone does not count, as long as there is any on the wire: `README.md:308` has "None: 0 mm/h" of rain and
  snow together, `precipCategory` (`agreement.ts:31-32`) asks for no rain and no snow in the steps of
  their columns. Between 0.01 and 0.018 mm of water in a period are Trace as rain and None as snow.
- A call that reaches upstream after the server's midnight has an axis a day later than one before
  it. `forecast.ts:406-407` expects the time arrays to match exactly; when they do not, Europe's wind
  aloft of the day gone by is told as calm, and a center whose axis begins after the forecast's first
  period scores none of its periods.
- `dominantDirDeg`: opposite winds of equal speed leave the rounding of the sine as their direction
  instead of none.
- `App.tsx` says that what a deletion leaves "is a fresh install"; an answer to a quota poll begun
  before is saved after the settings are cleared. `SettingsScreen.tsx:66` says "Nothing was deleted"
  also when the request timed out after the server had deleted, or a later step threw.
- `purchases.ts` says a later configuration "logs the new id in"; `logOutPurchases` resets the
  variable that would take it there. The unsubscribe of `watchCustomerInfo` does not cancel its first
  read.
- `HomeScreen.tsx`: a change of the sending device calls off a fetch, but not the wait for a fix
  before it, so that the fetch starts under the device it was pressed with. The last session's pin,
  when storage answers late, replaces one set meanwhile. `prepareMessage` sends the fix it waited
  for whatever its age.
- Gateway and codec differ on a repeated word: the gateway takes the first version and the first
  user, the codec the last. The app sends one of each.
- `mobile/quota.ts:21-23`: a header's count is of the month of the encode, not of the paste
  (harmless), and a poll answered in one month but heard in the next is stored for the next.

## 7. Abstractions and what is not modelled

### Inside the modelled components

*Pipeline.* The attempts counter and the statistics columns, which no decision reads. Opt-out
keywords, signatures and malformed bodies, answered before any state changes. The inline mode
without a queue (development): one more caller of the encode route, covered by `ExtraCall`. Twilio's
read of a message answers freely: found, not found, a failure. The window of the health check's
scan: a message old enough is assumed still listed, so the 28 hours of `health-check.ts` have to
exceed the longest outage. The forecast's text is one of a set of encodings; the codec's answer is
free. The two transactions of `delivery.ts` (`recordEncoded`, `recordReplyFailed`) are one
step: all they depend on is what their own `WHERE` re-checks under the row's lock, and what they
write is seen at their commit.
The transactions of `Subscriptions`, where nothing locks what they have found, are modelled statement
by statement. A `WHERE` that re-checks a column makes the step conditional, as the row lock does.

*Numbers.* They are whole throughout. `Aggregate` counts half degrees, 0.01 mm of rain and 0.001 cm
of snow, rain and showers together. `WireLadders` counts heights in decimetres and accumulations in
1/3969 of their unit, where companding is exact, drops the half of a wind midpoint and takes the
levels' heights from the standard atmosphere. `CloudBand` gives a reading as humidity above the point
where cloud forms with the cover diagnosed from it; a cover spread over levels is represented by the
middle of its step on the wire. The branch for a slab of cloud cannot be reached by the code's own
inputs and is left out.

*Representatives.* The gust stands for all columns that take the worst hour of a period; the trigonometry
of the mean wind direction is not modelled (`Upstream` has it along the axes of the compass). One model per reply stands
for the columns of several. Header fields of code and rung and the alphabets of the text are
identities of no consequence to what is checked. The coder's sizes are scaled down for TLC; `Rans` is
proved for any that divide as the code's do.

*Text.* In `Parts` a line is an optional label and units; a transport that splits a label or a header
in two is not modelled. In `Bulletin` text is words and marks, a literal spelled in bytes is one decision, a
label of the feed holds no line break (the decoder cuts at the first), and two words never adjoin.
The training and packing of the model, the coder's arithmetic (the construction `Rans` models), the
stripping of markup, the geometry that finds an area and the limit of nine parts are left out, and
values of the feed's enumerations that throw are not enumerated.

*Phone.* In `Account` a store is reduced to whose it is, a token is minted as one not minted
before, and a quota that is not over keeps only its account; the packs are `PackStore`'s. In
`SlotRing` what a reply decodes to is a choice. In `Screen` React commits what a tap changed before
anything else and what an await changed later; the Avalanche tab and drawing are not modelled. In
`Request` a press sees the selection on screen (no render lies between), whether position may be
watched is the environment's choice, tokens are not spelled and reach the parser valid or not
(`Valid`), and the guards that stop a press before it does anything (offline, a blocked bulletin) are
left out.

### Hazards without a property

- `quota.ts:50`: a cut-off reply that is recorded and never sent silences the reader unannounced; it
  needs `Quota` composed with the sends of `EncodeTask`.
- `packStore.ts:149`: two changes of the list that overlap lose one. The code does lose it and
  promises nothing; `QuietMeansWhole` is stated for runs without.
- `HomeScreen.tsx:1490`: a superseded decode's `finally` clears the flag of the fetch that replaced
  it; `HomeScreen.tsx:1566`: a paste compares with a text read before its awaits. Both change what is
  shown for a moment and are not given a property.
- A request window is checked on arrival and the axis fetched afterwards, so that a request accepted
  just before local midnight may be served from the next day's axis. `RungsServe` takes any delay.

### Components not modelled

Service authentication (signatures, token caches: cryptography and other services' clocks). The
internet route, pages and statistics: one request, one row, or only reads. The generated codebooks and tables, more than a
tenth of the implementation's lines, are data. Drawing (`Meteogram.tsx`, the larger part of
`HomeScreen.tsx`, maps), benchmarks, training and map-building scripts hold no state a property
could be about; together these are most of the lines the map does not reach.

## 8. Plan

Done: the pipeline with its refinements; the records beside it (`Subscriptions`, `Receipts`,
`SlotRing`, `PackStore`, `Account`); the codec from hours to text and back (`Upstream`, `Aggregate`,
`CloudBand`, `Layout`, `WireBody`, `Rans`, `CodecServer`, `Parts`, `Bulletin`), the request that asks
for it (`Request`) and the screen; proofs of the pipeline and its refinements, the quota, the records,
the screen, the presses and what is read of them, the box and its messages, the layouts, the periods and the cloud band, the search,
the coder and its tables, and what is told of the sources.

Next, in order:

1. `Quota` composed with the sends of `EncodeTask`, for the hazard at `quota.ts:50`, and with
   `Subscriptions`.
2. The Avalanche tab's decode, beside `Screen`.
