# SleepJiraBot in TLA+

SleepJiraBot is a Telegram bot for Jira, split into seven Go processes that share MongoDB, NATS
JetStream and, optionally, Redis. The modules here model the parts of it that are concurrent,
persistent and hard to test: who refreshes a token, how a notification gets to a chat, what the
pollers report, which webhooks exist at Jira, what happens to an event that Jira pushed, how an
account gets connected, which report is scheduled, and what becomes of a conversation when updates
overlap, keyboards are old and calls fail.

## 1. The system

| Process | What it runs | State |
|---|---|---|
| `identity-svc` | token leases, the only place that refreshes tokens | per-user mutexes in memory; tokens in Mongo |
| `subscription-svc` | the poller | pending notices in memory; `last_polled_at` in Mongo |
| `webhook-svc` | webhook ingress, the 24 h webhook refresher | event queue and workers in memory |
| `telegram-svc` | Telegram updates and conversations, the notify consumer | conversation state in memory or Mongo; a durable consumer in JetStream |
| `bot` | OAuth callback, calendar poller, web pages | OAuth states in memory and Mongo; calendar event states in Mongo |
| `scheduler-svc` | cron reports | cron entries in memory; schedules in Mongo |
| `preferences-svc` | user settings | Mongo |

How they interact:

* Every service calls Jira with a token leased over HTTP from identity-svc (`pkg/identityclient`).
* Poller, ingress, calendar poller and scheduler publish `NotifyRequested` to the NOTIFY stream;
  telegram-svc is the only one that talks to Telegram.
* Poller and ingress ask one guard (`internal/notifydedup`, Redis or memory) before they send.
* Subscriptions, users, webhook registrations and schedules are documents that several processes
  read, change and delete with no transaction: `/disconnect` in telegram-svc, `Finalize` in bot,
  the refresher in webhook-svc.

### Inventory

| Component | State | Operations | What makes it correct | Module |
|---|---|---|---|---|
| token lease | tokens, mutex, client caches | lease, refresh, connect, disconnect, revoke | one exchange at a time, no token presented twice, leases only of stored tokens, disconnect is final | `TokenLease` |
| notify pipeline | stream, durable, batches | publish, fetch, send, ack, nak, restart | accepted means settled; a repeat needs a fault; repeats are bounded | `NotifyContract`, `NotifyPipeline` |
| subscription poller | `last_polled_at`, pending notices, guard | search, merge, flush, stop | no change lost or repeated without a reason; notices are not put off | `Poller` |
| webhook registry | hooks at Jira, rows in Mongo | register, delete, resync, refresh | no orphaned hook, no subscription without one, disconnect converges | `WebhookRegistry` |
| webhook ingress | queue, workers, guard | accept, dispatch, match, send, drain | accepted events are handled, told once per slot, to every chat concerned | `WebhookIngress` |
| calendar poller | a row per event instance, settings, guard | fetch, expand, upsert, announce, remind, drop; set, remove, switch | no reminder lost or repeated without a reason, first fetch silent, rows say what the user heard | `CalendarPoller` |
| report scheduler | schedules in Mongo, cron entries, mutex | save, unsubscribe, load, fire, stop | a user has the one daily picked, a stop ends | `Scheduler` |
| OAuth connect | states, pending selections, the connected site | link, callback, exchange, stage, press, finalize | a link is used once; a grant ends in one place; the site on the button is connected | `OAuthConnect` |
| issue creation | per-user step and draft, templates | /create, templates, /createfast, each answer and button | required fields asked for, no second issue, no panic | `CreateIssue` |
| other conversations | per-user step, marks of pickers | a text, a command, a button | a text answers the last prompt; subscriptions are not doubled | `Conversation` |
| preferences-svc and settings | the settings in the user's document | one setter per setting, a merge of the daily queries | stored is what was confirmed | `Conversation` |
| reports, Jira client, rate limiter, encryption, formatting | none, or one bucket per user | compute, retry, take, encrypt | pure functions and small state | none |

PROJECT.json lists the hazards of each component at their lines, with the property that covers it.

## 2. Modules and their state

### TokenLease (`internal/identity`, `pkg/identityclient`, `internal/jira/oauth.go`)
One action per read, lock, exchange, save and answer of `LocalProvider.Lease`; `UpsertTokens` (a connect),
`ClearCredentials` (a disconnect) and `Revoke` write the same document beside it. `doc` is the credential part of the
user's document, `lock` the per-user mutex, `stage`/`req`/`snap` a handler's program counter, user
and copy of the document, `cache` the clients' leases. Tokens are serial numbers, so that "current",
"rotated" and "stored" are comparisons. An exchange may be refused, may succeed and be lost (the
client's 10 s timeout cancels the context it runs under), and may be saved or not; identity-svc may
crash at any step. `lost`, `stored`, `wanted`, `exposed` are history.

### NotifyContract and NotifyPipeline (`pkg/notifier`, `pkg/natsx`, `cmd/telegram-svc`)
`NotifyContract` says what the pipeline promises for what JetStream accepted: at most `MaxDeliver` tries, given up
only if shown, malformed or out of tries; `Reset` is the loss of the durable. `NotifyPipeline` has the asynchronous
publish, the duplicates window, the durable consumer, batches of telegram-svc processes that overlap during a
deployment, sends whose answer is lost, acks that come late or get lost (`_ = msg.Ack()`, `main.go:355`), sends
that fail (`Nak`), crashes, a start that creates or finds the durable (`PullSubscribe`), and shutdowns whose
deferred `Unsubscribe` deletes it. JetStream is external: its actions follow the options the code sets (`AckWait`,
`MaxDeliver`, `Nats-Msg-Id`). `ImplementsContract` is the refinement (INSTANCE with `st` and `seen` computed from
`status` and `shown`).

`TokenLease` and `NotifyPipeline` prefix their `Init`, `Next`, `Spec`, `TypeOK` and `Crash` (`LeaseSpec`,
`PipelineSpec`): each shares a module of proofs with a second component, see section 5.

### Poller (`internal/poller`, `internal/notifydedup`)
One user's cycle: `BeginPoll`, a search per subscription (`SearchOk` is the whole of `pollUser` for
one subscription: page, filters, mention look-up, merging, `last_polled_at`), `BeginFlush` and
`SendReady`, with `Stop`, `Crash` and `Restart`. Jira's history is the sequence `events`; a change
flips a field, so that merging "first from, last to" can cancel. The guard has the two kinds of
keys the code gives it. `excused` collects, at the step where the code drops something, what it
drops: the properties then say that nothing else is lost. The users of a cycle are polled one after the
other, each with a time limit of its own, so any time may pass between the steps of this user's turn, a cycle
may outlast the interval, and the next begins at once when it does; `longest` is the longest time from one
cycle's start to the next one's. A slot of the guard lives three batch windows (`cmd/subscription-svc/main.go:154`),
whatever the interval is: repeats are excluded only while `2 * longest <= BatchWindow`.

### WebhookRegistry (`internal/jira/webhooks.go` and its callers)
One user's subscriptions, rows and hooks. Each handler is a chain of calls (`job[p].at` is the next
one): `Subscribe` and `Connect` register, `Unwatch` and `Disconnect` delete (op "kick" is the
admin's disconnect; the admin's delete does what "disconnect" does), `Resync` adopts and drops,
`Refresh` renews or gives up. Any call may fail, any chain may break off. A row is its subscription
and hook: two rows of the same pair behave as one. Whether a hook or a row is within the refresher's
lead time of its expiry is a flag.

### WebhookIngress (`internal/webhook/handler.go`, `cmd/webhook-svc`)
Requests of Jira, the bounded queue, `processQueue` with its two `select` statements (`loop` is
where it is, `Main` is itself processing an event while stopping), workers that run `processEvent`,
and the shutdown sequence of `main`. An event is matched by three look-ups (project, issue, mention),
each with its list of subscriptions; a worker goes through them in order and skips a chat it dealt
with (`Skips`). The guard is a set of slots and `Lapse` ends one; `told` counts messages per slot.

### CreateIssue (`internal/telegram/handler_create.go`, `handler_createfast.go`, `handler_create_templates.go`)
The stored step and data of one user (`conv`), the saved templates, and `job`, what each handler works on:
telegram-svc runs a goroutine per update, so a handler reads the state, calls Jira and writes the state back while
another does the same. A draft is the data map reduced to the keys that decide what is asked next and what is sent.
`fresh` holds the buttons of the last message; any other button, and any text at a moment nobody asked for one,
counts as `disorder`, as do an expiry, a restart and a state store that fails. It fails without a sign
(`state_mongo.go:93-131`): a read returns no step and no data, a write or a removal is not carried out, and the
handler goes on; `kept` collects the drafts whose state could not be removed. A type may have required fields of
kinds the bot cannot ask for (`unasked`). A write to a nil map is `panicked`. `overlapped` and `unsure` collect
drafts that two handlers held at once or whose creation got no answer; a handler holds a draft from its reading of
the state, and a text reads it twice (`Text`, `ReadAgain`), so that the second read may bring another draft.

### CalendarPoller (`internal/calendarpoller`, `internal/storage/calendar_event_repo.go`, `internal/telegram/handler_calendar.go`)
`Poll`, the fetch, the expansion (`Expand`, `ApplyOverrides`), an upsert per instance, its messages, the mark of a
reminder and the clean-up; beside it the user's menu and edits of the feeds. A recurrence rule is its set of
occurrences. Time is a number of poll intervals. The settings a cycle works with are the copy `u` it read, and
writing them back touches what the code's update touches. `heard` is the version of an instance that the user has
been told of, or was deliberately not told of; `known` is what the calendar held when its URL was set and holds
since. A cycle may outlast the interval: `at` is the time it took when it began, and one tick waits at most. The
life of a slot is three batch windows, set apart from the interval, so a slot may have lapsed or not whenever the
guard is asked. A message first claims its slot and is sent in a step of its own (`tell_new`, `tell_changed`,
`tell_reminder`), the guard may fail, and `lost` are the slots whose message was never sent. `swallowed` are the
instances whose last message an earlier one's slot held back.

### Scheduler (`internal/scheduler`, `cmd/scheduler-svc`, `internal/storage/schedule_repo.go`, `internal/telegram/handler_dailysub.go`, `handler_schedule.go`)
Rows of `scheduled_reports` and the handlers that read and write them; the process with its phases, the mutex `mu`,
the loaded jobs and the fires under way. A fire takes the mutex, reads the user's token and runs one search or
three. Inserts, updates and deletes may fail, carried out or not, and `/disconnect` answers the same when its
delete failed: `unsure` are the pairs of chat and user whose rows such a failure, or an overlap, leaves open, until
a delete that succeeds clears them (`CleanSlate`). `rows` and `jobs` differ as soon as a row changes: see section
4.

### OAuthConnect (`internal/jira/oauth.go`, `callback.go`, the two OAuth repositories, `handler_connect.go`)
Links, the states behind them, the browser's visits, the exchange of a code, the list of sites, the
staged selection, presses of a site's button and `Finalize`, each step by its own action because
another request may come between any two. Keyboards stay in `keyboards` for ever. A grant is
followed through `grants`, `used` and `dropped`.

### Conversation (`internal/telegram`, `internal/preferences`, `pkg/preferencesclient`)
Every stored step that the other two modules do not have: look-up, comment, subscription, defaults, pickers of
issue types and statuses, daily queries, sprint and kanban choices. An update is taken (`Takes`) and handled in the
steps between which another may run: read, call, store, send. `asked` is the step of the chat's last prompt or
keyboard that has one, `covered` says that a message or keyboard without a step came after it (`Says`, `Covers`),
`told` the settings as the chat confirmed them, `subs` a count per subscription. `Jobs` lists what is left of a
handler at each of its steps, and `Values` what the code can mean by each setting: `TypeOK` says that no handler
carries anything else. `SetPrefs` is a request to preferences-svc: it may fail before or after the write. Twenty
handlers at most run at once; an update that gets no slot within ten seconds is dropped, which is the same as an
update never sent.

## 3. Runs

| Run | Question | Bounds and why |
|---|---|---|
| `lease` | the lease protocol against connect, disconnect, revoke, lost exchanges and a crash; `RequestsReturn` under fairness | 1 user (users share nothing but the process), 2 callers in one service (the mutex and the shared cache need two), 3 serials: connect, refresh, refresh or reconnect |
| `pipeline` | duplicates, refinement of the contract, settlement | 2 notifications with one id, one malformed; 2 processes; batch of 2, 2 tries, 2 restarts: a try is left and used up, a restart during and after another's batch |
| `poller` | loss, repeats and delay | an updates and a mentions subscription of one chat on one issue, 6 ticks (a batch window of 2 and four cycles), cycles of up to 2 ticks, 2 events, 1 failure; behaviours with a failure end after 3 ticks. A slow cycle may be slower than the guard's window allows and one may not. One issue: the page limit never bites here (`MCPollerChat.cfg` checks `ChangeIsDealtWith` with two subscriptions alike, two issues and a page of one) |
| `registry` | orphaned hooks, missed registrations, disconnect after failures | 2 subscriptions with the same filter, 2 handlers at a time, 5 in all, 2 hooks, 1 failure; handlers and subscriptions are symmetric |
| `ingress` | drain, repeats, chats told, nothing stuck | 3 requests, 2 workers, queue of 1: the queue fills while both workers are busy; one guard key, a group chat with the author in it and a second chat; 1 failure, stop, crash or lapse |
| `create` | required fields, doubled issues, panics | 2 handlers, 2 drafts (one may be resumed from the other's template), 2 custom fields of which one is required and one is a select, a type with a body and an epic, one with a Templates field, one with a required field of another kind; 1 template, 1 input out of turn or failure of the state store |
| `calendar` | back-fill, lost and repeated reminders, rows | 2 URLs, a recurring stand-up and a review, one edit of a feed that moves both; 3 ticks with a look-ahead of 2: the first fetch, a change, and the slot of its message; 2 changes of the settings, 1 failure or crash. Lead times: the default, one taken, one above the cap |
| `calendar_moved` | violated: the reminder of an occurrence that was moved to a later time | one event moved from 2 to 4 |
| `schedule` | the daily that is stored; a stop ends | 2 users of a group chat (the pair is the key of a row), 2 times, 3 commands by 2 handlers, 1 fire, 1 disconnect, 1 failure (of a read, an insert, an update or a delete), stop or crash: a stop with a job waiting for the lock |
| `connect` | one grant per link, one end per grant, the right site | 1 user, 2 links, accounts with 0, 1, 2 and 3 sites (an index of one keyboard may be out of range of the other), 3 visits, 2 presses, 2 requests at a time, 2 failures or deaths |
| `conversation` | texts and steps, settings, doubled subscriptions | any step as the initial one, with all settings made but one query; 2 updates, 1 failure, expiry or restart; two projects, with one and two boards |

`conversation` starts in every state in which a chat can rest, so that two updates from there are
any two consecutive or overlapping updates of a longer conversation; a property about more than
two updates is not asked. Two names, two boards and two projects let a picker belong to another
project, hold another number of names, or need no choice.

Deadlock is checked where the system never stops (`lease`). Elsewhere a bound (notifications,
clock, handlers, requests, updates, restarts) ends every behaviour, and the configuration says so.

What the properties say is in the comment above each of them. Several hold only
"while `failures = 0`" or "unless excused": the code promises no more, and the excuse is set
only by the step of the code that drops something. `failures` counts single failed calls,
crashes and lapses, so the runs with one failure also show that a single one does not break the
rest.

### Fairness
* `TokenLease`: weak fairness of each handler's next step, because every call has a timeout; strong
  fairness of `Acquire`, because Go's mutex hands over to a waiter that starves. None of the
  environment.
* `NotifyPipeline`: weak fairness of a process's start (`restart: unless-stopped`), fetch, handling
  and ack, of the server's storing and of its ack timers. None of crashes, naks or Telegram's success.
* `WebhookIngress`: weak fairness of the program as a whole: while some goroutine can go on, one
  does. No fairness of Jira, failures or restarts.
* `Scheduler`: weak fairness of the load at start, of the end of a stop and of each job's next step:
  every search and publish has a timeout and the mutex is held for a few instructions only. None of
  commands, fires, failures or the next start.

## 4. Disagreements between the code and what is said of it

Two runs show one each; PROJECT.json quotes the lines.

1. A mention without a changelog entry is lost when another subscription of the chat is searched first
   (`poller_mention`).
2. An occurrence moved to a later time gets no reminder once its original time is past (`calendar_moved`).

For the following, a property and a configuration are kept beside the modules, and TLC shows the
trace with `tlc -config <cfg> <module>`:

| Configuration, module | Property | What happens |
|---|---|---|
| `MCTokenLeaseDisconnect.cfg`, `MCTokenLease` | `DisconnectSticks` | a `/disconnect` while an exchange is in flight is undone by its save |
| `MCNotifyFailed.cfg`, `MCNotifyPipeline` | `FailedIsFinal` | `NotifyFailed` is published on the first failed send, not when retries are exhausted |
| `MCNotifyDurable.cfg`, `MCNotifyPipeline` | `DurableSurvivesRestarts` | the durable consumer does not survive a graceful restart of the process that created it |
| `MCPollerDouble.cfg`, `MCPoller` | `NoDoubleNotify` | poller and webhook-svc both tell the same change: their guard keys never meet |
| `MCPollerSlow.cfg`, `MCPoller` | `RepeatNeedsFailure` | cycles slower than half a batch window repeat a notice with no failure: the guard's slot ends before the second notice is flushed |
| `MCPollerSeen.cfg`, `MCPoller` | `OwnChangeIsDealtWith` | a subscription whose last search failed skips an issue that another of the chat marked as notified with nothing to tell (`poller.go:236`, `341`), and moves its window past a change that was never reported |
| `MCWebhookAdopt.cfg`, `MCWebhookRegistry` | `AdoptsForFreeSubs` | a resync adopts a second hook for a subscription that has a row |
| `MCWebhookStop.cfg`, `MCWebhookIngress` | `StopLosesNothing` | `drainQueue` leaves behind events that the server accepts after it returned |
| `MCCreateKept.cfg`, `MCCreateIssue` | `ConfirmedIsSent` | a description kept from a template is shown for confirmation and not sent |
| `MCCreateDropped.cfg`, `MCCreateIssue` | `ConfirmedIsAcceptable` | required fields of kinds the bot does not know are left out (`handler_create.go:1385`): it offers to create an issue that Jira must refuse |
| `MCCreateCleared.cfg`, `MCCreateIssue` | `ClearedIsGone` | a removal of the state that fails after a creation is not noticed (`handler_create.go:921`): a second press creates a second issue |
| `MCCalendarSwallowed.cfg`, `MCCalendarPoller` | `ChangesAreTold` | a change that follows another while the slot of its message lives is not told, and the row is updated all the same |
| `MCConversationLeft.cfg`, `MCConversation` | `TextAnswersWhatIsShown` | a keyboard without a step, or the end of the defaults, leaves an earlier step stored: a text is taken as the answer to a prompt that other messages cover |
| `MCScheduleOff.cfg`, `MCScheduler` | `OffRemoves` | the button "Unsubscribe" of the daily does nothing |

Met while modelling, without a property of their own:

* Buttons whose data has no colon never reach a handler (`internal/telegram/handler.go:392`):
  `dailysub_custom`, `dailysub_tz`, `dailysub_off`, `af_reset` and `sp_reset` are dead.
* `UpsertDaily` has no unique index under it, and nothing tells scheduler-svc of a changed schedule
  (`SetOnScheduleChange` and `Scheduler.Reload` have no caller): a change takes effect with the
  next start. `Reload` would wait for jobs that need the mutex it holds.
* Two VEVENTs of one uid with one start, an override moved onto another occurrence, share a row and its
  guard slot (`calendar_event_repo.go:104`, `calendarpoller/poller.go:349`): the row flips between the two
  versions in every cycle, and a flip is told when the slot of the one before it has lapsed. `ChangesAreTold` leaves
  such keys out (`Single`), to show that one VEVENT is enough to break it.
* `CALENDAR_LOOKAHEAD` may be shorter than a lead time that was accepted (`main.go:247`): a reminder then comes
  when the event enters the look-ahead. `OwnTimeIsReminded` asks for reminders inside both.
* A report that a stop cancels is answered with "not connected", though the user is.
* The default project is confirmed even if `SetDefaults` failed (`handler_defaults.go:32`), and the
  step `defaults_issue_type` stays stored after its choice ended, so that texts are swallowed until
  it expires. `StepIsAsked` holds all the same: it is the step of the last prompt.
  `TextAnswersWhatIsShown` is the property that this breaks.
* The state store is in memory unless the configuration says otherwise: a restart forgets every
  conversation.

## 5. Proofs

Every safety invariant and action property of a passing run is a theorem. A proof uses the named
assumptions of its component's module and nothing else, and goes by an inductive invariant, which TLC
checked on the component's run first: a property is seldom inductive as it stands, and the names after it
say what had to be added. `TokenProofs` and `DeliveryProofs` hold two components each, in two parts.

`TokenProofs`, part II, proves for any owners, callers, services and serials, from the assumptions
`TokenLease` names (callers belong to services, the two null values are no caller and no owner, the
serial bound is positive):

* `LeaseTypes`: `LeaseTypeOK`, action by action.
* `MutualExclusion`: `SingleRefreshPerUser`, from `LockHeld` (a handler past `Lock()` holds its
  user's mutex). The property itself is not inductive: it does not say who holds the mutex.
* `NoReplay`: `PresentedTokenIsCurrent`. The invariant `Current` adds the document (its refresh
  token is the current one, its grant was lost, or the one handler that holds the mutex carries the
  newer one), the handler's copy, and that grants in use were issued, so that a new grant is not one
  of them. It rests on `LockHeld`: the lemma `Alone` says that nobody else of the user is between the
  second read and the save.
* `StoredBeforeLeased`: `LeasedTokensWereStored` (no run repeats it), with the document's own token
  stored too.
* `DisconnectWhenQuiet`: `DisconnectSticksWhenQuiet`, from `QuietStaysQuiet`: no exchange starts
  after such a disconnect, because the second read finds no access token.

`DeliveryProofs`, part II, proves for any notifications, ids, processes, batch sizes and delivery limits,
from the assumptions `NotifyPipeline` names (malformed notifications are notifications, `KeyOf` is a
function into `Keys`, `NoNote` is no notification, the limits are positive):

* `PipelineTypes`: `PipelineTypeOK`. `tries` stays below the limit because of `Ledger`: a message that waits
  for another delivery has one left, one that was never handed out has none behind it. `Custody` says
  that processes hold only what the stream retains and ack only what a chat has seen.
* `DuplicatesNeedFaults`: `DuplicateNeedsFault`. The property does not say why an untouched notification is not
  handed out again, so `Clear` strengthens it for those no fault (a lost ack is one) has touched: at most one
  process has it and the durable counts it as out (`Alone`), and once its chat has seen it, it is being acked,
  closed, or the durable is gone (`Once`).
* `PipelineKeepsContract`: `ImplementsContract`, step by step: `Store` is `Accept`, `Fetch` is `Try`,
  a send is `Show`, an ack, a rejection or a last failure is `Settle`, and creating the durable anew
  is `Reset`; all other steps leave the abstract state alone.

`PollerProofs` proves for any subscriptions, chats, issues, page size, windows and clocks, from the
assumptions `Poller` names (mention subscriptions are subscriptions, the durations are positive; none on
how interval, batch window and the time of a cycle compare):

* `PollerTypes`: `TypeOK`. That a chat and issue have one pending notice is the lemma `AbsorbMakes`,
  which says once what a search does to the pending notices; everything below uses it.
* `NoChangeIsLost`: `ChangeIsDealtWith`. The proof showed what to state: per subscription
  (`OwnChangeIsDealtWith`) it is false, per chat it holds. Not inductive: it says nothing of a change that a notice
  holds, nor why skipping an issue that the cycle has seen is safe. `Handled` adds the first and
  `Seen` the second: a seen issue is pending, or its changes up to the cycle are dealt with for the
  chat. `Base` gives both their footing: events in order, windows that end where a cycle began,
  notices that report what happened.
* `FlushedInTime`: `NoticeIsFlushed`, from `Steady` (cycles follow each other, `longest` apart at most, and every window
  is one cycle old) and `Punctual` (a notice is at most two cycles younger than what it reports and
  no older than the batch window when a cycle ends). The bound is the sum: the window and four times `longest`,
  whatever that is.
* `ReportedOnce`: `RepeatNeedsTrouble`, from `Once`: while no cycle took longer than half a batch window, what was
  reported holds its slot for a guard life of three windows, and by `FlushedInTime` a second notice of it comes
  before the slot ends. Without that condition it is false (`MCPollerSlow.cfg`).
* The last event of a set (`Last`, a CHOOSE) exists because of the lemma `Least`: a set of numbers has
  a least one, from the well-foundedness of inclusion of finite sets, without an induction theorem.

`WebhookRegistryProofs` proves for any subscriptions, chats, filters, handlers and bounds, from
`SubsAssumption` and `BoundsAssumption`:

* `RegistryTypes`: `TypeOK`, from `Core`: a handler is at a step of its operation (`Sound`), and the hooks
  anybody holds are ones that Jira gave out. Jira's next hook exists by the lemma `Least`.
* `HooksAreTracked`: `HookIsTracked`. It says nothing of a delete that has read its rows: `DealtWith` adds
  that the hooks of those rows are deleted or excused before the rows go.
* `SubscribedWhenCalm`: `SubscribedIsRegistered`, from `Settled`. `Cared` says for every state, not only the last,
  that an active subscription has a live hook, or a handler has it on its list, or a removal is under way;
  it needs `Live` (a row without its hook is about to fall), `Single` (one hook, one subscription: else
  deleting the hooks of one subscription takes another's) and `Calm`, what each handler has in hand.
* `AloneDisconnectConverges`: `DisconnectConverges`, from `Lonely`: what the lone /disconnect has emptied
  stays empty. No assumption on what happened before it: its start is any reachable state.

A step's effect on each part of the invariant is a lemma (`TrackedKeeps`, `LonelyKeeps`, `LiveKeeps`, `CaredKeeps`,
`CalmBeside`, `CalmAlone`); `HandlerOnly` covers the steps that only read, `AllKeep` those that write.

`WebhookIngressProofs` proves for any events, subscriptions, workers and queue length, from
`EventsAssumption` and `BoundsAssumption`:

* `IngressTypes`: `TypeOK`.
* `StopDrains`: `DrainsAccepted`, from `Located` (an accepted request that is not handled is in the
  queue, in hand or with a goroutine) and `Exited` (who has left the queue for good left nothing there
  that was accepted in time).
* `OneTellingPerLapse`: `RepeatNeedsLapse`, from `Claimed`: messages sent plus goroutines about to send
  are no more than the lives of the slot that ended, and one if it is in use.
* `ConcernedChatsAreTold`: `EachChatIsTold`, from `Telling`: while nothing fails a slot in use is told or
  about to be, and a goroutine's list is what is left of its matches behind chats it dealt with.

`TokenProofs`, part I, proves for any users, links, accounts, sites and workers:

* `ConnectTypes`: `TypeOK`.
* `OneGrantOneSite`: `GrantIsUsedAsPicked`. Not inductive: it counts grants and uses, not who holds one.
  `OneBearer` says that a link's grant is carried by one request or waits in one selection, `Counted`
  that it was given once exactly when somebody has it or it is gone, `SameAccount` that a
  keyboard shows the sites of the account its selection is of.

`CalendarPollerProofs` proves for any feeds, settings, times and bounds, from the assumptions `CalendarPoller`
names (an override has a start, the null values are no URL and no row, durations are natural numbers):

* `CalendarTypes`: `TypeOK`, with `Core`: a cycle runs on one calendar and takes each instance once.
* `NearIsReminded`: `OwnTimeIsReminded`. It speaks of the end of a cycle only; `NearDealt` says in every step
  that a near instance is to come, in hand, or reminded of or excused, `RowsReminded` that a mark stands for a
  reminder sent, and `SlotsDealt` that a taken slot stands for one sent, lost (a crash between claim and send, a
  failed send or guard) or about to be sent. `OwnTime` shows that an
  occurrence nobody moved is an instance of the window.
* `RemindedOnce`: `RepeatNeedsTrouble`. `Marked`: what was reminded of has started, has its mark, or
  gets it next, in the time of the cycle at work (`Clock`), which may lag behind; `HandHasRow` keeps the
  copy in hand equal to the row until then.
* `BackfillIsSilent`: `BackfillNeedsFailure`. `FetchedHasRows` and `RowsToCome`: what is held has its row once
  the first cycle passed it; `StillHeld` and `SameCalendar` tie it to the feed the cycle reads. The proof
  showed that "held when the URL was set" is too much: what left the calendar and came back is new.
* `RowsAreTold`: `RowsAreHeard`, from `RowsTold`: the instance in hand is the only one whose user is yet to be told,
  in the steps where its message is still to come, and a message that a slot holds back makes its instance `swallowed`.
  That nothing is swallowed is false, see section 4.

`DeliveryProofs`, part I, proves for any users, chats, times, handlers and fires:

* `FiresAreAccounted`: `TypeOK`, whose last conjunct counts fires: they are under way, answered or lost.
* `OneDailyAsPicked`: `DailyIsAsPicked`. `OneSaver` strengthens it: while a pair's commands did not
  overlap one handler saves its daily, and one about to insert it still finds none. A write or delete that fails
  makes its pairs unsure when it was carried out or left rows, and a delete that succeeds makes them sure
  again. The lemma `PairByPair` says what a step has to show of each pair that is sure after it.

`CreateIssueProofs` proves for any handlers, fields, order of fields, selects, types and bounds, from the
assumptions `CreateIssue` names (the order lists fields, required and select fields are fields, the
null values are no field and no draft; not that every required field is asked for). Every answer and button is
first shown to come to one of six things (`Comes`): the next question of its draft, stored (`Replies`) or lost with a
failing store (`Loses`), an end (`Ends`), a draft begun in the stored
state or in the handler's hands (`AsksType`, `Begins`), a call to Jira (`Sends`), or a cleared state
(`Drops`). The invariant is then kept once per kind.

* `Typing`: `TypeOK`.
* `AllAnswered`: `RequiredAnswered`, from `InTurn`: while every input comes in turn one handler works at a
  time, the stored step has the data its place in the wizard needs (`Reached`), every button that is offered can
  be served by it (`Offered`), and so can what the handler has read (`Working`). It speaks of the fields the bot
  asks for; those it leaves out are `ConfirmedIsAcceptable`'s, which is false.
* `NoPanicInTurn`: `PanicNeedsDisorder`, from the same part: what serves an input is never a nil map. A read that
  failed, the first or the second, gives one; it is disorder, and with none there is no panic.
* `SecondIssue`: `DuplicateNeedsOverlap`, from `Copies`. A draft that nobody shared and whose state could be
  removed has one holder (`OneHolder`); once
  its issue exists it is with the handler that made it and with nobody else, and the fast way has
  removed it from the state before it sends (`NoneTwice`). The proof found a hole in the model: a text that had
  been routed while another draft was stored could read this one as a second holder and go unnoticed, which
  one input out of turn, as in the run, does not reach. `ReadAgain` now counts that read.

`ConversationProofs` proves for any workers, keys, projects, names, boards, settings and bounds, from the
assumptions `Conversation` names (pickers show sequences of names, the kinds of settings are disjoint, the
profiles to begin with have values the code can mean, `NoJob` is no job). Most handlers only read and go on: they
are one kind of step (`Moves`, with a job that is no danger to the invariant, `Mild`), and so are all updates
taken (`Starts`).

* `WellTyped`: `TypeOK`, jobs included. It is what everything else needs: a handler about to store a step stores
  one that exists, one about to write settings writes values of those settings.
* `AskedIsStored`: `StepIsAsked`, which speaks of rest only. `InStep` says what holds between a handler's storing a
  step and its showing it; a message that covers the prompt leaves it alone (`Moves`), and `Alone` says that
  whoever is not marked as mixed has nobody beside it.
* `ConfirmedIsStored`: `SettingsAsTold`, from `Carried`: a handler alone writes back the settings it does not
  confirm as they are stored.
* `TwinsRaced`: `DuplicateNeedsRace`, from `Unrivalled`: who is about to create a subscription finds none, or
  a second one checked meanwhile. `Counted` bounds subscriptions and handlers by the updates taken.

Only model-checked:

* `RequestsReturn`, `AcceptedIsSettled`, `AcceptedIsHandled` and `ShutdownEnds`: liveness under fairness is out of the
  prover's reach.
* What the violated configurations check: it is false.

## 6. Plan

The components of section 1 that keep state are modelled, and their safety properties proved. What is worth
adding:

1. Several users in one process for the poller, with the order in which a cycle takes them, when a property asks
   more of it than that a cycle takes any time.
2. Algorithms as operators against reference definitions: splitting and capping of messages, the
   kanban percentiles, preference merging, key rotation.

## 7. Not modelled, and why

* Wording, Markdown, locales, web pages, logging, metrics and tracing: no state.
* Request signatures, JSON and ADF parsing, filter texts, expiry date formats: conversions no
  property here depends on.
* `TokensRefreshed`, `WebhookReceived`, `WebhookNormalized` and the other events nobody consumes.
* Several users in the poller and the registry: they share the guard, whose keys name the chat, and the
  cycle that polls them one after the other, which is why a cycle in `Poller` takes any time.
* `handleInvalidToken` of the poller: `jira.Client` never returns the error it waits for when
  tokens are leased.
* Retention of the stream (a week) and the TTL of Mongo documents other than webhook rows.
* The sprint, kanban and query reports: one search, metrics and a text each, and no state. The steps
  that choose what to report are in `Conversation`.
* What a comment, an assignment or a transition does in Jira; the admin broadcast and pages.
* The Jira client's retries on 429 (inside one request), the rate limiter of the web pages, the
  encryption of tokens at rest, the diagnosis of webhooks.
* `Scheduler.Reload`, and the custom time and time zone of the daily: nothing reaches them.
