# SportsUp: specification and verification

SportsUp tells Telegram users about the matches of the teams they follow:
reminders before a match, final scores and upsets after it.  This directory holds
TLA+ models of its core, TLC configurations that check them on small instances,
and proofs, checked by TLAPS, for every size of the system.

## 1. The system

| component (under `sportsup/`) | state | operations | what makes it correct |
|---|---|---|---|
| subscriber store (`subscribers.py`, `state.py`) | SQLite tables `subscribers`, `subscriptions` | upsert, status, delete with cascade, add and remove subscriptions; each is one transaction | a row never outlives its owner; the queries see a committed state |
| dedup ledger (`state.py`) | table `sent_alerts` | `was_sent`, `mark_sent` | an alert is recorded only when it was delivered or dropped on purpose, and never sent after that |
| delivery cycle (`mux_delivery.py`, job in `bot/app.py`) | locals of one call, `meta` rows | `run_delivery_cycle` every few minutes in a worker thread with its own connection | every cycle ends; nothing due is lost; one failure does not spread to other users |
| fan-out planner (`fanout.py`) | `CompetitionData` per competition and cycle | fetch once per competition, plan per user | uses what it fetched, tolerates what it did not |
| alert engine (`alerts/engine.py`) | none | `plan_reminders`, `evaluate_results`, `unsent` | no alert too early; late reminders are made up for while the match is ahead |
| quiet hours (`runtime.py`) | none | `in_quiet_hours`, `classify_reminder`, `classify_result` | a window is what it says around midnight; deferred alerts come back, suppressed ones do not |
| bot commands (`bot/handlers.py`, `bot/service.py`, `bot/management.py`, `bot/settings_flow.py`) | none of their own | `/start`, `/pause`, `/resume`, `/edit`, `/settings`, `/unsubscribe`, `/stop` | each changes what it names, of the chat it came from |
| onboarding wizard (`bot/onboarding.py`, `bot/onboarding_state.py`) | `OnboardingState` per person, in memory | twelve kinds of buttons, Confirm | what is saved is coherent, real and what the recap showed |
| keyboards of `/edit`, `/unsubscribe`, `/settings` (`bot/management.py`, `bot/settings_flow.py`) | a copy of the preferences, the list of teams shown, a pending prompt; per person, in memory | option, save, team, competition, back, done, timezone | left-over copies and buttons do no harm |
| senders, HTTP client (`delivery/*.py`, `providers/http.py`) | none | `send` with retries | reports a failure as a failure |
| upset detection, odds budget (`alerts/shock.py`, `odds_budget.py`) | daily counter in `meta`, odds cache per cycle | `evaluate_upset`, `try_consume`, `odds_lookup` | requests are paid for before they are made; running out, which takes that many lookups of the day, degrades to standings and form, and the users of a cycle hear the same |
| provider router and clients (`providers/*.py`) | none | failover per capability | a fallback answers when the primary is down, and that is the only reason why the keys of a match change with the provider |
| rate limiter (`bot/ratelimit.py`) | `(start, count)` per chat | `check`, `just_tripped` | bounds what gets through, blocks only who earned it, one notice per window |
| single-user runtime (`runtime.py`, `sync.py`, `pipeline.py`) | fixture cache; one database connection for all threads | `sync_fixtures`, `fire_reminders`, `poll_results` in scheduler threads | as delivery, for one configured user: the threads neither repeat nor lose each other's alerts |
| command line (`__main__.py`) | none of its own | `run`, `run --once`, `notify`; previews and set-up commands | the first three are modelled |
| dashboard, texts, configuration | none of their own | read-only views, formatting, start-up | not modelled |

**Interactions.**  The handlers run one at a time on the event loop and write the
database.  The delivery job runs in a worker thread with its own connection, reads
what the handlers committed and records what it sent.  It calls providers and
Telegram over HTTP, each call with retries.  The job is repeated for ever, catches
every exception and never overlaps itself.  The single-user program is another process
over its own database (RUNBOOK.md: run one of `run` or `bot`): a sync job fills the
cache from which the reminder job plans, a third job asks for results, and the three
share a connection, and with it a transaction.

**What is hard.**  The cycle decides from copies: the clock and the users are read
at its start, matches when their competition is fetched, subscriptions when a user
is planned.  All of them change while it runs.  A send and its record are two
steps, and a crash or a lost answer between them cannot be told from a failure.
Onboarding writes row by row.  A keyboard stays on its message and can be pressed
after its dialog has moved on, ended or been lost in a restart.  Single competitions
and single users fail, and the others must not notice.  In the single-user program a
commit of one thread commits what another has just inserted, a failure of one takes it
back, and the fixture cache is hours old when it is planned from.  Whoever answers a
request decides how a match is spelled in its dedup key.  The odds budget is read,
compared and written in separate statements, by the day on which the cycle began.

## 2. The modules

| module | models |
|---|---|
| `SubscriberStore` | the two tables and the operations on them; constants and assumptions of the data |
| `Delivery` | handlers, delivery worker, faults, clock and matches; extends `SubscriberStore`; the properties |
| `AlertOutbox` | the abstract specification of delivery: at-least-once, silent after the record |
| `DeliveryProofs` | theorems about `Delivery`, for all constants |
| `MCDelivery` | instances of `Delivery` for TLC |
| `RateLimiter` | the inbound rate limiter and `rate_guard` |
| `RateLimiterProofs` | theorems about `RateLimiter`, for all constants |
| `BotStore` | the abstract specification of the dialogs: what they may do to the two tables; extends `SubscriberStore` |
| `Onboarding` | the wizard; extends and implements `BotStore` |
| `Management` | the dialogs over a subscription; extends and implements `BotStore` |
| `BotStoreProofs` | a theorem about `BotStore`, and the lemmas its implementations share |
| `OnboardingProofs`, `ManagementProofs` | theorems about `Onboarding` and `Management`, for all constants |
| `MCOnboarding`, `MCManagement` | instances of the two for TLC |
| `QuietHours` | `in_quiet_hours` over local times of day, days, and what a window means |
| `Runtime` | the single-user programs: jobs, fixture cache, shared connection, chain of providers; extends `QuietHours`, implements `AlertOutbox` |
| `RuntimeProofs`, `RuntimeMessageProofs` | theorems about `Runtime` and `QuietHours`, for all constants |
| `MCRuntime` | the instance of `Runtime` for TLC |
| `Odds` | upset verdicts, the odds cache of a cycle and the daily budget |
| `OddsProofs` | theorems about `Odds`, for all constants |
| `MCOdds` | the instance of `Odds` for TLC |

**Correspondence.**  A handler that writes the database is one action (`Start`,
`Pause`, `SaveEdit`, ...) because it does not await between its read and its write;
onboarding is the exception, `ConfirmOnboarding` for the upsert and one `AddPicked`
per row, with the delivery worker and crashes in between.  The order of those rows
is left open: it cannot be observed by another handler.

The worker is a program counter: `idle`, `competitions` (`StartCycle` has read clock
and users), `fetch` (one `FetchCompetition` per competition), `plan` (one
`PlanSubscriber` per user, which also looks up `sent_alerts`), `deliver` (one
classification, with its send or its record, at a time) and `mark` (Telegram has
accepted the alert; `mark_sent` has not run).  The code orders users by creation and
competitions by code; the model takes any order, which includes the code's.
`FinishCycle` records the cycle in `meta` (`reported`).

An alert is its dedup key `<<chat, match, label>>`.  A match is its `stable_id`; its
status goes from scheduled (perhaps postponed and reinstated) to ended and, once the
provider has the score, scored.  Kickoffs are fixed.  A quiet-hours window, with its
enabled flag and time zone, is the set of clock values it covers.  A season belongs
to its competition.  Which results are upsets is left open: any subset.

`SendAccepted` and `SendFailed` cover the HTTP client: up to `Attempts` requests per
send, any of which may have arrived although its answer was lost.  `CycleRaises` is
any exception that `run_delivery_cycle` lets through (a malformed answer, a locked
database, a bad row), `Crash` the death and restart of the process.

`inbox`, `unmarked` and `dropped` are history variables: copies of each alert that
reached its chat, those of them that were never recorded, and keys recorded without
a send.  No action reads them in a guard.

`RateLimiter` has one action for `rate_guard`, which does not await between the check
and its verdict, and the clock.  `window` is `_state` (count 0: no entry), `log` the
history of all updates with their window and their place in it.  The update that
trips the limit has three fates: it is answered; it has no message to answer; or the
answer fails, its error leaves `rate_guard` in place of `ApplicationHandlerStop`, and
the update reaches the other handlers.  That an ordinary exception does not stop the
later handler groups is python-telegram-bot's behaviour; the bot registers no error
handler.  The counters are in memory, so a behavior is one life of the process.

The dialogs keep their memory per person (`user_data`) and act on the chat in which a
button is pressed; the two are different sets.  A handler runs to its end before the
next update is handled (python-telegram-bot processes updates one at a time unless told
otherwise), so it is one action, and a commit is one step here: what a crash or the
delivery worker sees in the middle of one is `Delivery`'s subject.  In `Onboarding`
every button can be pressed at every step of the wizard, because the keyboard of an
earlier step may still be on a message; what a press does depends on the wizard as it
is now, as in the code.  Team buttons are indices into the current tournament's list, so
a press toggles any team of that list.  `Ensured` fetches that list once per
tournament; a failed fetch leaves it empty.  `Cancel`, `Confirm`, `/subscribe`, `/start`
of a new chat and a restart end or replace the wizard; `/stop` does not.

In `Management`, `edit`, `view` and `awaiting` are `user_data["edit"]`, `["unsub"]` and
`["awaiting"]`.  `shown` is history: the team buttons that have been put on a message, each
with the team it names and the place it carries.  `TapTeam` looks the place up in
`view`, as the code does.  A message to Telegram may fail, and then the rest of the
handler is not run: `view` and `shown` part company in `CompView`, and a row is gone
although the list is not redrawn in `TapTeam` and `RemoveCompetition`.  Where a failure
comes before any change it is the handler not having run.  `PressOption` leads to any
preferences, which is where a few presses lead.

In `Runtime` a job (`sync`, `reminders`, `results`, and `notify`, which is a program of
its own) is a record: its program counter, the clock value it read when it began (`now`),
the events it still has to ask for (`left`), the alerts it still has to handle (`todo`)
and the one it is about to record (`inHand`).  `Launch` starts a program, `Start` a job,
`Over` ends one: in `run` all three may then be started again, in `run --once` the next of
the three, and with nothing left the process exits and its cache goes.  A job never
overlaps itself (APScheduler's `max_instances` is 1), but the three overlap each other.
`FetchFixtures` and `GatherResults` ask for one event along the chain of providers, of
which any set `down` fails; `InstallFixtures` replaces the cached fixtures event by event,
once all events have been asked for, and leaves those of an event that could not be
fetched; the reminders job may plan between two events.  `PlanReminders` plans from the cache,
`PlanNotify` from fresh fixtures.  `pending` is the open transaction of the shared
connection: `Mark` inserts, `Commit`, `SetSyncTime` and `SetFixtureCount` commit the rows
of all jobs, `StoreFails` takes back the rows of all jobs.  `Unsent` reads through the
same connection and sees rows that are not committed.  `JobRaises` is any other
exception: `fire_reminders` goes on with its next event, any other job ends.

A dedup key is a record of event, `stable_id` and label, and a `stable_id` one of match,
spelling and day: `Naming[p]` is how provider `p` spells teams.  `Reschedule` gives a
match another kickoff, once.  `inbox`, `unmarked`, `dropped`, `moved` and `failedOver`
are history.  Quiet hours are the configured ones, evaluated with `InQuietHours` on the
local time of day; `Covered` says what they mean.

In `Odds` a cycle goes through `results`, `standings`, `plan`, and for each lookup
`budget` (`TryConsume` reads the counter), `charge` (it is written back), `fixture` and
`odds` (the two requests, each with retries).  A lookup happens when the first user with
a team in that match is planned, whatever comes of it is cached for the cycle, and `Judge` is
`evaluate_upset` for one user and one result.  Odds are decimal, in hundredths, and the
implied probability is compared by cross-multiplication, without rounding.  Each answered
lookup brings any odds or none: the client takes the first bookmaker of that response, and
nothing keeps it, or its odds, for the next cycle.  `requests`, `late`, `begun`, `charged`
and `told` are history.

**Bounds.**  `MaxTime` bounds the clock, `MaxFaults` crashes, raised exceptions and
lost acknowledgements together.  Failed sends and failed fetches are not bounded.
Nothing else is in `Delivery`; in `RateLimiter`, `MaxTime` bounds the clock and
`Burst` the updates of a chat in one window.  In the dialogs, `AlertPrefs` bounds the
preferences that may be chosen, `MaxIndex` the wizard's `team_index` (Done can be pressed
on and on), and `Picks` what the wizard may commit next to `Management`.  `Runtime` and `Odds` have
`MaxTime` and `MaxFaults` only; failed requests and sends are not bounded.

## 3. What the runs show

| run | checks | result |
|---|---|---|
| `DeliverySafety` | `TypeOK`, `ForeignKey`, `NothingOwedIsSettled`, `CopiesAccounted`, `CopiesBounded`, `ImplementsOutbox`, `NeverEarly`, `OnlySuppressedAreDropped`, `OnlyWhatWasAsked`, `WorkShrinks`, `OnlySetbacksDelay` | hold |
| `DeliveryLiveness` | `CyclesEnd`, `OnTime` | hold |
| `RateLimiter` | `Capped`, `BlockedOnlyWhenBusy`, `OneNotice` | hold |
| `Onboarding` | `PicksBelong`, `OnlyRealTeams`, `ImplementsBotStore` | hold |
| `Management` | `ImplementsBotStore`, `TapInLastList` | hold |
| `Runtime` | `TypeOK`, `NothingOwedIsSettled`, `CopiesAccounted`, `CopiesBounded`, `RepeatsExplained`, `ImplementsOutbox`, `QuietKept`, `NeverEarly`, `OnlySetbacksDelay`, `OnTime` | hold |
| `Odds` | `TypeOK`, `RequestsPaid`, `LateRequests`, `OneUnitPerMatch`, `SameVerdict`, `BudgetLasts`, `OneSided`, `WorkShrinks`, `PlanningEnds` | hold |
| `DeliveryExactlyOnce` | `ExactlyOnce` | violated: delivery is at-least-once |
| `DeliverySilentWhenOff` | `SilentWhenOff` | violated: a running cycle does not see `/stop` or `/pause` |
| `DeliveryNoStaleReminder` | `NoStaleReminder` | violated: reminders are judged by the cycle's start time |
| `DeliveryDryRunRecordsNothing` | `DryRunRecordsNothing` | violated: a dry run records suppressed alerts |
| `ManagementTaps` | `TapRemovesWhatItNames` | violated: a second tap removes the next team |

The violated properties are sentences of the documentation or of the bot's own
messages; `PROJECT.json` quotes them next to the code that differs.  The properties that hold are what can be said
instead:

- `ImplementsOutbox`: an alert is recorded only after a copy reached its chat or its
  user chose to suppress it; no copy follows the record.
- `CopiesAccounted`: every copy beyond the recorded one is a lost acknowledgement or
  a cycle that died before `mark_sent`.
- `CopiesBounded`: so each further copy has cost a fault of its own, and without faults
  delivery is exactly-once.  This is what is true of the violated `ExactlyOnce`.
- `ImplementsOutbox` holds across `/stop` and `/start`: dedup keys outlive the subscriber,
  so an alert that is recorded is not told again to a user who comes back, in or after
  the cycle that was running.  (The comment at `subscribers.py:178` adds that such a user
  "starts clean anyway"; she does not.)
- `NothingOwedIsSettled`: one look at `sent_alerts` while planning is enough.
- `NeverEarly`, `OnlySuppressedAreDropped`: what a stale clock cannot break.  A cycle
  may be late, never early, and its "stale" branch never decides anything, because
  the planner already discarded matches that kicked off before the same timestamp.
- `ForeignKey`: no subscription without its subscriber.
- `OnlyWhatWasAsked`: a message goes by the preferences of the cycle's beginning, all of
  them: the status, the switch of its kind, the lead-time, the quiet hours.  This is what is
  true of the violated `SilentWhenOff`; a `/pause` counts from the next cycle on.
- `WorkShrinks`: each step of a cycle takes something off what is left of it (competitions
  to fetch, users to plan, alerts to deliver), and neither handlers nor the world add to it.
- `OnlySetbacksDelay`: a cycle that begins while an alert is due settles it, unless the
  cycle dies, the alert's own competition or its own send fails, it is a dry run, or the
  alert stops being due.  Nothing that happens to other users, competitions or alerts can
  keep it back, which is the reason for the error handling in `fanout.py`.
- `CyclesEnd`, `OnTime`: failures end with the cycle, and an alert that stays due is
  recorded, whatever failed before.
- `Capped`: the documented "at most `max_per_window` updates per `window_seconds`" is
  about the limiter's own windows.  Over any stretch of a window's length the bound is
  `2 * Max + 1`: `Max` passed updates and one on a failed notice at the end of a window
  (whose first update lies before the stretch), and `Max + 1` at the start of the next.
- `BlockedOnlyWhenBusy`, `OneNotice`: blocked updates go on counting, but neither
  lengthen the block nor repeat the notice.
- `PicksBelong`: what is picked belongs to a ticked tournament and was on its list, so
  the recap, which goes through ticked tournaments, shows all that Confirm saves.
- `OnlyRealTeams`: no subscription to a team that no provider lists in that competition,
  although team buttons are bare indices and tournaments can be unticked in between.
- `ImplementsBotStore`: a wizard that creates a subscriber gives it something to follow,
  and one that finds a subscriber keeps its status, quiet hours and rows; a copy, list
  or prompt left over from before `/stop` or a restart does not bring a chat back, and
  no press changes more than one aspect of one chat or drops more than one subscription,
  unless all of one competition.
- `TapInLastList`: a tap on the list that was remembered last removes the team on the
  button.  `TapRemovesWhatItNames` asks it of every button, and fails: the place on a
  button counts in the list remembered last, which a first tap has shortened.

- `ImplementsOutbox`, `CopiesAccounted`, `NothingOwedIsSettled` of `Runtime`: three
  threads on one connection promise what the delivery cycle promises.  A row committed
  early by another thread is a row whose send is over; a row taken back by another
  thread's failure is one more copy, and counted as such; and the threads plan from
  disjoint kinds of alerts, so none handles what another holds.
- `RepeatsExplained`: the comment at `models.py:73` calls `stable_id` independent of the
  provider.  It is not: it spells teams as the provider does, and carries the date.  What
  holds is that a user is told the same thing under two keys only after a failover for
  that event, or for a match that was given another date.
- `QuietKept`: in local time and on overnight windows nothing is sent during quiet
  hours, by the clock the job looked at.  `notify` ignores quiet hours.
- `NeverEarly` of `Runtime`: early reminders are due to a cache that has not heard of the
  new kickoff, and to nothing else.
- `CopiesBounded` of `Runtime`: one failed transaction can take back the records of several
  jobs, but no alert is repeated twice for it.
- `OnlySetbacksDelay` of `Runtime`: a job that begins while an alert is due, and for a
  reminder has its fixture in the cache, keeps at it until it is recorded.  Its setbacks are
  seven, and without any one of them the run fails: the process dies; the job itself
  raises (of a reminder only once its event is reached: `fire_reminders` goes on with the
  next event after an exception); a failed transaction takes the row with it; a sync
  loses the fixture while the event is still to come; no provider has the results; its own
  send fails or only prints; the match is moved.
- `OnTime` of `Runtime`: what stays due is recorded for the date the match has now.
- `RequestsPaid`: a unit is charged before its requests, also when the league is not
  mapped or no provider has odds and none is made.  A unit is one lookup, not one
  request: a day's cycles make up to `2 * Attempts * DailyCap` requests, and
  `LateRequests` adds the overhang of one cycle that began before midnight.  The
  "~90 calls/day" of RUNBOOK.md:93 are units.
- `OneUnitPerMatch`: followers share a lookup, failed and unpaid ones too.  Draws and results
  that were already told are looked up all the same, in every cycle while they are recent.
- `SameVerdict`: within a cycle the users hear the same of a match, although requests fail
  and the budget runs out between them.  Between cycles nothing keeps a verdict: the next
  one asks again and may get the odds of another bookmaker, or none.
- `BudgetLasts`: a match goes without odds for want of budget only when the day's cycles,
  at one unit per followed match, could have used the cap up.  More users, failures, crashes
  and what other days' cycles spent take nothing off it.  The converse is what a low
  interval costs: results stay in the response for days and are looked up in each cycle, so
  with the default cap of 90 and one followed match the odds of a day are gone after 90
  cycles.
- `OneSided`: level odds, equal places and equal form favour nobody.
- `WorkShrinks` of `Odds`, `PlanningEnds`: a spent budget and failing requests count as
  answers and are cached, so they do not hold up a cycle.

With the default priority (odds, standings, form), form decides nothing: whoever has a
form has a place in the same table, and the place decides first (`FormNeverDecides`, proved
for all tables).  `config.example.yaml:23` calls the form a tiebreaker; in the order of
its next line it breaks no tie.  The run uses another priority so that all three decide.

**Bounds of the safety run.**  One user with every command, one match, one
competition, clock 0..3: before the lead window, in it (and in quiet hours), at
kickoff, after the match.  Alerts of different users meet only in the order in which
one cycle handles them, so one user is enough for safety; the proofs drop the bound.
One fault suffices for each of the violations and for every branch of the fault
actions.  The database starts as the configuration import leaves it, because
`suppress` can be chosen nowhere else; `/stop` and `/start` reach the defaults.

**Bounds of the liveness run.**  Two users and two competitions, so that a user who
cannot be reached and a competition that is down can get in the way of the others.
Of the commands, its next-state relation keeps `/pause`, `/resume` and the subscription of
the user the promise is about to the second competition, which may come after the cycle
has listed the competitions it fetches: it is then planned for without data.

**Bounds of the rate-limiter run.**  Two chats, limit 2, windows of two clock units and
three ticks, so that windows start at every offset and a second one begins; up to four
updates per window, one more than the notice needs.  The run may stop: clock and bursts
are bounded.

**Bounds of the dialog runs.**  One person and one chat: what two people share is the
tables, and `Elsewhere` changes those in the middle of a dialog.  The wizard has two
competitions with one team in common and one that only one of them lists, so that an
index into the wrong list matters, and starts over a new chat and over a paused one
that follows something; `team_index` goes one beyond the last tournament.  `Management` has
two teams in one competition, so that removing one moves the other, "all teams", and a
second competition; three quiet windows, one of them off.  Neither run can stop.  In
the wizard's run `Elsewhere` leaves out `/pause` and `/settings`: the wizard neither reads
nor writes what they change, and the paused chat shows that it keeps it.

**Bounds of the single-user run.**  One event, one match, two providers with different
spellings, a day of three hours, two days.  The match is to kick off in the last hour of
the first day or the first of the second and may be moved across midnight; the quiet
window is the last local hour of a day, up to midnight, an hour ahead of UTC.  Three
scenarios (`MCInit`): Telegram with deferring and with suppressing quiet hours, and the
console.  One trouble per behaviour (`MaxTroubles`: a fault, a failover, a postponed or
moved match): each by itself meets every state of the jobs; the proofs drop this bound.
Two jobs under way at a time, and the world changes while at most one is.  A job that has
asked for all events goes on at once (`GoesOn`), because that step changes only its own
place.

**Bounds of the odds run.**  Two users who share one of two matches; three cycles over two
days, cap 3, so that the budget runs out in the middle of a cycle and a cycle crosses midnight;
one fault.  Every lookup may bring odds that make the home side an outsider, odds without a
favourite, or none; the standings come with recent form, without it, or not at all.  Results
come for both matches or for none.  `Attempts` is 1; the proofs are for any.

**Fairness.**  Weak fairness of the worker: its thread is scheduled and the job is
repeated whatever happened to the last one.  Strong fairness of a full fetch for
competitions assumed to answer, and of accepted sends for users assumed to be
reachable: a service that works again and again is used successfully once in a while.
None for the bot, the clock, the matches, or the other competitions and users.
In `Runtime`, strong fairness of `Launch("run")`: docker-compose restarts the process
(`restart: unless-stopped`); weak fairness of each job's steps: the scheduler runs
it at every interval and its thread is scheduled; strong fairness of a fetch with no
provider down and of an accepted send.  In `Odds`, weak fairness of the worker.

Each property has a mutant of the code that violates it (`PROJECT.json`, `mutants`);
the mutated operators stand in front of the originals and are used nowhere else.

## 4. What is proved

`DeliveryProofs` proves, for any finite or infinite sets of users, competitions,
matches and lead-times and any bounds, from `StoreAssumption` and
`DeliveryAssumption` (the constants have their types, the markers are not data, the
initial databases respect the foreign key):

| theorem | statement |
|---|---|
| `TypeCorrect` | `Spec => []TypeOK` |
| `RowsHaveOwners` | `Spec => []ForeignKey` |
| `OwedIsUnsettled` | `Spec => []NothingOwedIsSettled` |
| `DuplicatesAreFaults` | `Spec => []CopiesAccounted` |
| `Refinement` | `Spec => ImplementsOutbox` |
| `NoMessageIsEarly` | `Spec => NeverEarly` |
| `DropsAreChosen` | `Spec => OnlySuppressedAreDropped` |
| `DuplicatesArePaidFor` | `Spec => []CopiesBounded` |
| `OnlyTheAskedForIsSent` | `Spec => OnlyWhatWasAsked` |
| `WorkOnlyShrinks` | `Spec => WorkShrinks` |
| `OnlyOwnSetbacksDelay` | `Spec => OnlySetbacksDelay` |

**Argument.**  `TypeOK` is not inductive: recording `inHand` needs it to be a key, and
a new snapshot of the users needs the old worklists to be empty.  `WorkInv` adds both.
`IInv` adds `NothingOwedIsSettled` and `CopiesAccounted`: an alert that is owed or in
hand is unrecorded, so sending or recording it keeps the balance of copies and is a
`Reach` or `Record` of the outbox; every other step leaves inbox and
ledger alone.  For timing, `CycleData` says that the cycle's timestamp is not ahead of
the clock, that fetched fixtures kick off after that timestamp, that fetched results
are scored and stay so, and that owed alerts inherit this from the data they were
planned from.  The foreign key needs only the types.

`CopiesBounded` is not inductive: a copy whose record is still to come has cost nothing
yet.  `FaultsPay` bounds what is never recorded by the faults spent, and `CopiesAccounted`
gives the one copy beyond.  `RosterSpeaks` ties what is owed to the cycle's copy of the
user, who was active in it.  `OnlySetbacksDelay` has its invariant built in: `Pursued` says
at each step of the cycle where the alert is (its competition still to fetch or fetched
with its match in the data, its user still to plan, itself owed or in hand), and
`PursuitStep` goes through the worker's actions to show that it moves from one to the next,
using that what is due by the clock of the cycle's beginning is planned from that data.

`RateLimiterProofs` proves the three properties of `RateLimiter` from
`LimiterAssumption` (limit and window positive) for any set of chats:

| theorem | statement |
|---|---|
| `LessThanTwoWindows` | `Spec => []Capped` |
| `BlocksAreEarned` | `Spec => []BlockedOnlyWhenBusy` |
| `OneNoticePerWindow` | `Spec => []OneNotice` |

Their invariant `LogInv` (with the module's `TypeOK`) numbers the updates of a window
1, 2, 3, ... without gaps and in the order of time (`OrderInv`), ties every update to a
window less than `Window` old, the first one to its very start, and its fate to its
number (`EntryInv`), and keeps two windows of a chat at least `Window` apart
(`OrderInv`, `WindowInv`).  A stretch then meets at most two windows; of the older one
it misses the first update; and numbers count by injection into an interval
(`OneWindow`).

`BotStoreProofs`, `OnboardingProofs` and `ManagementProofs` prove, for any people, chats,
competitions, team lists and preferences, and (in `Management`) any finite set of teams,
from `StoreAssumption`, `OnboardingAssumption` and `ManagementAssumption`:

| theorem | statement |
|---|---|
| `StoreKeepsRows` | `StoreSpec => [](StoreTypeOK /\ NoOrphans)` |
| `WizardIsCoherent` | `Spec => []PicksBelong` |
| `TeamsAreReal` | `Spec => []OnlyRealTeams` |
| `WizardImplementsBotStore` | `Spec => ImplementsBotStore` of `Onboarding` |
| `DialogsImplementBotStore` | `Spec => ImplementsBotStore` of `Management` |
| `LastListIsRight` | `Spec => TapInLastList` |

`OnlyRealTeams` is not inductive: a commit needs picks that were on the list in memory
(`PicksBelong`, as `Belong` of one wizard), and that list to be one a provider gave for
that very competition (`Provided`).  `Good` is both with the type, and each operation of
`OnboardingState` has a lemma that it keeps a wizard good; the one that takes work is
unticking, where the other tournaments must stay ticked (`WithoutListed`).  In
`Management` the argument is that the place in a sorted list determines the team
(`OnePlaceEach`: the teams before one are a proper subset of those before a later one),
so a tap removes at most one row.  Both refinements are by cases over the handlers, and
type correctness of the tables is inherited from `BotStore` (`StoreStep`).

`RuntimeProofs` proves, for any events, matches, lead-times, providers, spellings and
quiet hours and any bounds, from `RuntimeAssumption` and `DayAssumption`:

| theorem | statement |
|---|---|
| `QuietWindow` | on times of day, `InQuietHours` is `Covered` |
| `TypeCorrect` | `Spec => []TypeOK` |
| `NothingOwed` | `Spec => []NothingOwedIsSettled` |
| `CopiesAlwaysAccounted` | `Spec => []CopiesAccounted` |
| `Refinement` | `Spec => ImplementsOutbox` |
| `RepeatsAreExplained` | `Spec => []RepeatsExplained` |
| `NoMessageIsEarly` | `Spec => NeverEarly` |
| `QuietIsKept` | `Spec => QuietKept` |
| `QuietHoursPass` | within a day of any time there is one that is not quiet, for all quiet hours |
| `DuplicatesArePaidFor` | `Spec => []CopiesBounded` |
| `OnlyOwnSetbacksDelay` | `Spec => OnlySetbacksDelay` |
| `WorkOnlyShrinks` | `Spec => WorkShrinks` of `RuntimeMessageProofs` |

`RepeatsAreExplained`, `NoMessageIsEarly`, `QuietIsKept` and the last two are in
`RuntimeMessageProofs`.
Their invariant `Inductive` adds three parts to `TypeOK`.  `Flow` says at which steps a
job has a worklist or an alert in hand.  `Owed` says which alerts a job may hold: reminders
for `reminders`, others for `results`, and at most one job of a kind runs, since `notify`
is alone; with the look at the shared ledger it follows that no two jobs hold the same
key and none holds a recorded one.  `Ledger` places every copy: counted as unrecorded, in
`sent`, in the open transaction, or in one job's hand, and never in two of these; that is
what makes the commit of other threads' rows a sequence of honest records.  For the
messages, `Honest` says that fixtures, alerts and recorded keys are true to their match
unless it was moved, and spelled by the first provider unless the event was failed over;
that worklists are timely by the job's own clock; and that the row of a drop stays with
a job whose clock is in quiet hours until somebody commits it.

`OnlySetbacksDelay` needs one more invariant, `Behind`: what the reminders job has planned
is of events it is through with, so that an exception that only ends one event's pass
takes no other event's alerts along.  The proof follows an alert from the event still to
ask for (`TimelyIsPlanned`) to the worklist, the hand (`TimelyIsSent`) and the row in the
shared transaction, which anybody's commit settles and only a failed transaction takes
back (`RowFate`).  A step of another job leaves all this alone (`Undisturbed`), except for
the cache, of which a sync replaces the event's part (`CacheOutlives`).  `WorkShrinks` orders the states of a
job by stage, events left, alerts left and the steps of recording one; a job's worklist
grows only with an event that it will not ask for again.

`OddsProofs` proves, for any users, matches, odds, tables, priorities and bounds, from
`OddsAssumption`:

| theorem | statement |
|---|---|
| `TypeCorrect` | `Spec => []TypeOK` |
| `AlwaysPaid` | `Spec => []RequestsPaid` |
| `OneCycleLate` | `Spec => []LateRequests` |
| `AlwaysOneUnit` | `Spec => []OneUnitPerMatch` |
| `AlwaysSameVerdict` | `Spec => []SameVerdict` |
| `BudgetAlwaysLasts` | `Spec => []BudgetLasts` |
| `AlwaysOneSided` | `Spec => []OneSided` |
| `WorkOnlyShrinks` | `Spec => WorkShrinks` |
| `FormNeverDecides` | with standings before form in the priority, no verdict is by form |

All use `Flow` (which step of a lookup has a subject, and that it is still unasked).
`Charged` and `Consistent` say that a unit and a verdict of this cycle belong to a match
whose lookup is over or under way, and that what is cached does not change afterwards.
`Spending` is the budget's ledger: the cycles of a day that are over have spent no more
than a unit per followed match each, the one under way what it has paid for (`charged`),
and a match left without odds unpaid has met a counter at the cap.  `Paid` strengthens
`RequestsPaid` with what the lookup under way may still ask (`Unspent`), and with the
counter it read.  `Overhang` bounds the requests of a late cycle by the matches it has
asked for (`Requested`), and says that a later day than the cycle's has none before.

Liveness (`CyclesEnd`, both `OnTime`, `PlanningEnds`) is model-checked only, because the
prover does not treat fairness; its safety halves are proved.  `WorkOnlyShrinks` says that
no cycle or job goes on for ever (the orders it names are well-founded for finite
constants), and `OnlyOwnSetbacksDelay` that one which begins while an alert is due settles
it if it has no setback.  What stays with TLC is that cycles and jobs begin and take their
steps at all, and that setbacks end: the fairness of section 3.  `WorkShrinks` of
`RuntimeMessageProofs` is proved only; its definition stands with its proof.

## 5. Not modelled

- The dashboard: read-only views behind a password; nothing else reads anything of it.
- Message texts, and the severity and reason of an upset: formatting, without influence on
  what is sent when.
- The other commands of `__main__.py`: they print previews or call what the modules model.
  `alerts` and `subs-plan` ask for odds without any budget, as `notify` and `run` do
  (`pipeline.py:78`): nothing there counts or bounds requests, so there is no property to
  check.
- Configuration and catalog: validated once at start-up; they enter as assumptions on
  constants.
- Parsing of provider answers, status codes, the length of a backoff, health checks: they
  decide which of the outcomes in the models happens, not what follows.
- Team spellings when matching a watched team: a match is watched or not.  Spellings in
  dedup keys are modelled (`Naming`).
- The counting queries of the store, and `import_single_user`, which runs before the bot;
  the initial databases of `Delivery` include what it leaves.
- `Delivery` and `Runtime` leave open which results are upsets; `Odds` is what is behind
  that choice.  Composing them would multiply the states without a property that needs
  both: the outbox takes any alerts, and the verdict does not look at what was sent.

## 6. Running

    tlc -workers 2 -config DeliverySafety.cfg MCDelivery      # about 100 s
    tlc -workers 2 -config DeliveryLiveness.cfg MCDelivery    # about 150 s
    tlc -workers 2 -config RateLimiter.cfg RateLimiter        # about 60 s
    tlc -workers 2 -config Onboarding.cfg MCOnboarding        # about 80 s
    tlc -workers 2 -config Management.cfg MCManagement        # about 50 s
    tlc -workers 2 -config Runtime.cfg MCRuntime              # about 120 s
    tlc -workers 2 -config Odds.cfg MCOdds                    # about 50 s
    tlapm DeliveryProofs.tla
    tlapm RateLimiterProofs.tla
    tlapm BotStoreProofs.tla
    tlapm OnboardingProofs.tla
    tlapm ManagementProofs.tla
    tlapm RuntimeProofs.tla                                   # about 60 s
    tlapm RuntimeMessageProofs.tla
    tlapm OddsProofs.tla
