# Remindr in TLA+

Remindr keeps reminders on a user's machines and on a server. A C++ daemon
(`reminderd`) owns a list on each machine, fires it on time and syncs it in the
background; the `remind` CLI talks to the daemon over a Unix socket; a Go API
keeps all accounts' reminders in PostgreSQL; a React page reads and writes them
there. This directory models what is hard to get right in that: offline edits
and last-write-wins merging, requests that are lost, late or repeated, crashes
between two saves, concurrent transactions, sessions that are renewed while the
user logs out, a socket loop whose clients come and go, and times typed around
a shift of the clock.

All modules are written from the code; `PROJECT.json` maps every definition to
the lines it stands for, and lists runs, mutants, hazards, findings and
theorems. Paths below are relative to the repository (`src/`).

## 1. Inventory

| Part | Code | State | Operations | Hard behaviour | What makes it correct | Module |
|---|---|---|---|---|---|---|
| Daemon: list, commands, timers | `src/daemon/main.cpp`, `src/common/store.cpp` | `g_reminders`, `reminders_v2.json` | ADD, DELETE, LIST, SYNC, STATUS; `check_timers` every second; load, v1 migration, save | one mutex around a whole sync round; crash between saves; saves that fail unnoticed; a timer that fires a copy deleted elsewhere | an edit is not lost, and not undone by an older one | RemindrSync, EventLoop |
| Daemon: sync worker | `src/daemon/sync_worker.cpp`, `src/common/sync_state.cpp` | `sync_state.json` (`last_sync_at`), per-row `sync_status` | a round: collect pending, POST, conflicts, acknowledgement, changes, cursor; one retry with new ids after 409/500 | lost and late answers; two files saved one after the other | synced means stored; what is pending is delivered; what is new arrives; together, a last-write-wins store | RemindrSync, LwwStore, proofs |
| HTTP client, credentials | `src/common/http_client.cpp`, `credentials.cpp` | `credentials.json`, shared with the CLI | request, 401 -> refresh -> request | the file changes under a call; tokens rotate | a live session is served and stays live | Session |
| API: sync | `api/internal/handlers/sync.go`, `sync/merge.go`, `validation/sync.go` | table `reminders` | validate, one transaction: SELECT/merge/INSERT or UPDATE per change, pull, COMMIT | READ COMMITTED interleavings, row locks, deadlock, 409 for an id of another account, errors at any statement | last write wins; no row changes account; only committed rows are told of | RemindrSync (one step), ApiSync (statements) |
| API: reminders | `handlers/reminders.go` | the same table | List, Create, Delete | races with sync | the same | RemindrSync, ApiSync |
| API: auth | `handlers/auth.go`, `auth/`, `middleware/auth.go` | `users`, `refresh_tokens`, signed access tokens | register, login, refresh with rotation | three statements without a transaction; two refreshes with one token | one live token per login | Session |
| API: rate limiter | `middleware/ratelimit.go` | hits per address | allow | time read before the lock, window edges | 10 per minute, and none refused for nothing | RateLimit |
| API: server, config, CORS | `cmd/server`, `config`, `db` | pool of 10 connections | wiring | pool at its limit | - | not modelled |
| Web app | `web/src` | `localStorage` session | list, create, delete, login, logout, refresh | a page's refresh racing its logout | the session is one account's | RemindrSync (`Web`), Session (pages) |
| CLI | `src/cli/main.cpp` | none (files of the daemon) | commands, login, logout, time parsing | time arithmetic at its edges | the message is what was meant as one, the time the next one written | TimeExpr, EventLoop, RemindrSync, Session |
| Socket loop | `src/daemon/main.cpp` 286-390, `src/common/socket.cpp` | client fds and buffers | accept, read lines, answer | lines in pieces, MAX_CLIENTS, clients that vanish, SIGPIPE, a sync round in the loop's way | every command executed once and answered to its sender; timers never stop | EventLoop |
| macOS notifier, paths, vendored JSON | `src/notify`, `src/common/paths.*`, `json.hpp` | none | - | - | - | not modelled |

How they meet: CLI -> daemon by newline-delimited JSON on the socket; daemon ->
API by `POST /v1/sync`; page -> API by `/v1/reminders`; CLI, page and daemon ->
API by `/v1/auth/*`. The CLI and the daemon share `credentials.json`; all
accounts share the key space of `reminders.id`.

## 2. Modules

`Reminder.tla` - the data and the pure functions on it: `Row`, `Local` (a row
with its `sync_status`), `Fire`, `MergeOne` and the daemon's merge of an answer
(`ApplyConflict`, acknowledgement, `ApplyInbound`, composed in the order of
`run_sync_request` as `MergeAnswer`). A message stands for the whole content of
a reminder; `Period` says whether it recurs.

`RemindrSync.tla` - daemons, files, API and web together. Everything a daemon
does runs under `g_reminders_mutex`, so a command or timer is one action and a
round is three: `SyncBegin` (the request leaves), `ServerSync`/`ServerError`
(the API answers), `ReceiveOk`/`ReceiveRetry`/`ReceiveFail` (the answer is
merged, the cursor and then the list saved). Between them the world moves:
`Login`, `Logout`, `WebCreate`, `WebDelete`, `Tick`, and the other devices.
Failures: `Timeout` with the request lost or the answer lost, `ServerLate` (the
API serves what the daemon gave up on), `ServerOverlap` (it is still serving
that when the next round sends the same new rows, and answers 409 for them),
`ServerError` (a plain 500, with the COMMIT applied or not), `Crash` at any
moment including between the two saves (`CrashLeaves`), saves that are not
written. `Restart` loads the file. The migration of a v1 store, which runs once
and before anything else (`store.cpp` 65-84), is in `Init`: a device may begin
with rows under v1 ids (`LegacyRows`), which the first round renames. A 401 and
the refresh it causes change nothing here except the account the request runs
under, and that equals a `Login` before `SyncBegin`.
Serving a request in one step is an abstraction of the handler's transaction
(next paragraph); `ServerOverlap` is the one overlap it keeps, as the daemon
reacts to it.

`ApiSync.tla` - the one step in which RemindrSync serves a request, taken apart:
a session per request, each statement an action, READ COMMITTED visibility
(`Visible`), row locks (`Waits`), deadlock detection, errors at each statement,
a COMMIT whose failure is reported after it was applied. `DELETE
/v1/reminders/{id}` reads the time, then runs an UPDATE that waits only for rows
its WHERE matches, and if there was nothing to change a SELECT that tells 204
from 404 (`DeleteBegin`, `DeleteRow`, `SelectExists`, `DeleteError`).
PostgreSQL's part (`Visible`, `Holders`, `Waits`, `Deadlocked`,
`DeadlockVictim`) is external: modelled from the statements the handler uses.
It does not sit under RemindrSync by refinement: `api_lost_update` shows that
two overlapping requests of one account are *not* equivalent to serving them
one after the other. What RemindrSync shows holds for requests that do not
overlap on a row.

`Session.tla` - token pairs, `refresh_tokens`, the stores of clients, the
401-refresh-retry of `http_post_json` and of the page's `request`, and the
refresh handler as its three statements. `c = Daemon` tells the C++ client from
the page where they differ: the daemon stores the tokens only and keeps its
session when a refresh is refused; the page keeps the e-mail it finds and
clears its session. `Refreshed` stores what the API gave, and `Retry`, a step
later, makes the call again with what is stored by then, which a logout or login
may have changed. One call at a time per store: two requests of one page that
are both answered 401 are not modelled. A pair is named deterministically (any unused one), as
random tokens have no meaning of their own.

`LwwStore.tla` - the abstract specification of what the devices share: per id a
register whose owner never changes and in which a write is superseded only by
one that is not older, and replicas that may say of a version that it was
delivered only if the store has it or one that overruled it. It knows nothing of
requests, retries, cursors, files or crashes. `RemindrSync` implements it
(`ImplementsLwwStore`): `store` is the table, and each device is two replicas,
its memory and its file, of which the rows with status "synced" count.

`EventLoop.tla` - `remind` processes, the Unix socket, the select loop of
reminderd and its sync thread. RemindrSync takes a command as one step; here it
is what happens to a line: written in pieces, received in pieces (`Recv`), cut
at its newline out of the buffer of the right connection (`TakeLine`), executed
under the mutex (`HandleCommand`, which for SYNC holds it over the HTTP requests
until `SyncDone`), answered (`WriteAnswer`). `check_timers` runs between
`select` and the look at its result: if that was -1, `errno` may have been
overwritten by then, and the loop may end (`CheckTimersThenErrno`, `Exit`).
`client_fds` and `client_bufs` are
two sequences, as in the code, from which a connection is erased while the loop
walks over them. A client may be interrupted at any point (`Leave`); an answer
to it raises SIGPIPE, which ends the daemon (`Die`), except while libcurl, on
the sync thread, ignores that signal for the process. `Restart` is the service
manager's. What a command does is abstracted to what the properties need: an
ADD puts the client's reminder into the list and saves it. A save may fail,
which nobody looks at, and leave the old file or an empty one; the sync thread's
is two steps (`ThreadTruncates`, `ThreadSaves`), as the loop may end the process
between them. `unsaved` and `forfeit` are history variables for that.

`TimeExpr.tla` - one run of `remind MESSAGE TIME`: words are typed, then `Add`
splits them (`TimeStart`) and computes the instant (`parse_time_expr`). A word
is a record of what the parser can tell about it; digits that run into letters
are of two kinds, since `stoi` reads an hour out of both "2nd" and "5min" while
`iss >> n >> unit` reads a relative time out of the second only, and none out
of "2nd week". `mktime` and `localtime_r`
are external: a zone is an offset before and one after an instant, and a local
time that is skipped or repeated has either reading. The product `n * unit` is
an int's: beyond `IntMax` it may wrap.

`RateLimit.tla` - the limiter of `/v1/auth`: `ReadTime` before the mutex,
`Admit` or `Refuse` under it. `overtaken` is a history variable.

`MCRemindrSync.tla`, `MCApiSync.tla`, `MCEventLoop.tla`, `MCTimeExpr.tla`,
`MCRateLimit.tla` - values for TLC. `RemindrSyncProofs.tla`, `AckedProofs.tla`,
`CopiesProofs.tla`, `ApiProofs.tla`, `SessionProofs.tla`, `EventLoopProofs.tla`,
`TimeExprProofs.tla`, `RateLimitProofs.tla` - proofs. `AckedProofs` extends
`RemindrSyncProofs`, and `CopiesProofs` extends `AckedProofs`.

## 3. Runs

| Run | Question | Result |
|---|---|---|
| `sync_two_devices` | two daemons and the web share a reminder; one round lost, late, answered 409 or 500 though stored, unsaved, or a daemon dies | nothing counts as synced that the API lacks; no regress of table or lists; deletions of one-offs stick; no edit leaves a list undelivered, also under a new id; LwwStore is implemented |
| `sync_accounts` | a device 2 s ahead (1 tolerated) changes between two accounts, with 409, 500, crash | rows stay with accounts; no stamp beyond the tolerated skew |
| `sync_liveness` | only the sync thread's fairness, two lost requests or answers, a v1 reminder that the API refuses while it is live | pending rows drain, fresh rows arrive, but for the time the refused one is in the way |
| `api_sync` | two requests of two accounts at a time on two ids, one database error | owners kept; only committed rows told of; every request answered |
| `session` | daemon and page, two accounts, rotation, logout, one fault | rotation alone kills and multiplies no session; the daemon's e-mail is the account's; a live daemon is served |
| `event_loop` | three CLI runs, two connections kept, one line in two pieces, interrupts, failed and cut-off saves, SIGPIPE, restarts, the sync thread | answers go to their askers; a command runs once, whole or not at all; an answered ADD is lost only with a failed or unfinished save; nobody who waits is hung up on, unless the table is full; nobody waits for ever; timers go on |
| `cli_times` | all commands of up to four words, around a shift of the zone that keeps clear of midnight | reminders lie ahead; documented forms are split and dated as documented |
| `rate_limit` | five requests, two addresses, window 2, limit 2 | no window over the limit but by overtaking; no refusal without cause |
| `sync_offline_push` | is `last_sync_at` a promise? | violated: a change stamped before another device's cursor never reaches it |
| `sync_recurring` | do deletions of recurring reminders stick? | violated: firing restamps the copy |
| `api_lost_update` | does the newest write win under concurrency? | violated: the second UPDATE wins whatever its stamp |
| `session_api_url` | is the saved API URL kept? | violated by the first refresh |

Every property of a passing run has a mutant of the code in `PROJECT.json` that
breaks it. `NewestWins`, `CursorBacked`, `TombstonesStick` and, with an API URL
that is not the default, `DaemonIsServed` are what documents promise and the code
does not keep; `findings` quotes the lines.

What the counterexamples leave out, found by varying the instances:
`CursorBacked` fails as well for a web write in the very second of a pull, for a
crash between the two saves, and for a device that changes account (its cursor
is not the account's). `OneOffTombstonesStick` needs clocks within the same
second: with a device 1 s ahead, a creation whose answer was lost is sent again
above the tombstone. `LocalTombstonesStick` likewise fails for a device 1 s
behind. A deletion in the second of the creation ties with it and is answered
as a no-op. `StampsGrow` needs no device ahead of the API: the web deletes at
the API's time, below an ahead device's stamp. In Session, `DaemonEmailIsTrue`
fails for a page (it keeps the e-mail it finds, which may be that of the next
login).

More of what TLC finds when an instance or a property is varied, and no run
states:

* `remind logout` is undone by a refresh in flight, which writes the tokens again.
* A CLI that is interrupted before its answer is written ends the daemon
  (`WriteToNobody`). The service manager restarts it. What other CLIs were
  answered survives unless the end comes after a save that failed, or in the
  middle of the sync thread's: then the file lacks it or is empty, and
  `AnsweredAddsSurvive` leaves the lost reminders out (`forfeit`). Without `Restart` in `Fairness`,
  `EveryCommandSettled` still holds (later runs are refused) and
  `TimersKeepTicking` does not.
* The limiter can admit more than its limit in a window: a request that reads
  the time and then waits for the mutex behind a later one finds that the later
  one has dropped hits that still counted for it. `SlidingWindow` leaves such
  requests out.
* The first "in" of a command line starts the time, also when no number and unit
  follow it: "check in with bob tomorrow 9am" becomes "check". The comment at
  `cli/main.cpp` 757 says that "in N unit" anchors the time.
* "2:00" typed at 1:30 on the morning on which 2:00 is skipped may become 1:00
  of the next day, since the second `mktime` starts from the fields the first
  one normalised. `ClockSurvivesShift` excepts a clock that is skipped.
* `FiresLater` is false where a zone's shift is told at midnight. If clocks go
  back at one minute past it, "tomorrow" or the next weekday, typed at the second
  23:45, may be the midnight three quarters of an hour ago, which `mktime` may
  take; the comment at `cli/main.cpp` 154 says "always future". If a day begins at
  1:00, "00:00" typed at 23:15 can become 23:00 of the evening before. The zones
  of `cli_times` are of those whose shifts keep clear of midnight by their own
  width (`DaytimeShift`), and so are those of the theorems about local times.
* A reminder can be stored twice. The daemon takes any 409 or 500 to mean that
  its ids belong to another account, and gives what is pending new ones
  (`ReceiveRetry`). A 500 may be for a COMMIT that was applied, a 409 for a round
  that met its own late copy (`ServerOverlap`): then the account has the reminder
  under the old id already. `NoEditDropped` says that nothing is lost by it, not
  that nothing is doubled.
* One live reminder that the API's validation refuses blocks the device: each
  round is answered 400, nothing beside it is delivered and nothing arrives,
  until it is deleted or, as a one-off, has fired. `PendingDrains` and
  `FreshRowsArrive` except that time (`Blocked`), without which TLC finds both
  violated.
* Deletions and firings of recurring reminders: a device that catches up stamps
  each firing with the present, so an older `fire_at` overrules a newer one.

### Bounds

* `MaxTime` 2 or 3: stamps are whole seconds and only their order matters: two
  values give older/newer and ties, the third a firing after a deletion.
* `Ids`: a run ends with its ids used up; one more than the reminders created
  leaves room for a renaming. Ids, and devices with equal clocks, are symmetric
  where no liveness is checked.
* `MaxFaults` 1 per behaviour (chosen from the kinds in `Faults`), at any point;
  every property that fails under a fault fails under one. 2 in `sync_liveness`,
  so that a round that repeats a lost one can be lost too.
* one `late` request per device: the daemon has one request out at a time, and
  the API's 60 s limit leaves at most one behind the 30 s timeout when the next
  round is a minute away.
* `ClockSkewSec` 1 for the code's 300: devices 0 or 2 seconds ahead are inside
  and outside.
* ApiSync: two sessions (a lost update, a deadlock and a duplicate key need
  two), at most two changes a request (a deadlock needs two rows), `MaxErrors` 1.
* EventLoop: three clients for two connections (one to be refused, one to be
  moved down in `client_fds`), one command each of ADD, LIST and SYNC, lines of
  two pieces (a half line can be in a buffer) and one. A client that has come
  back may connect again, without end. `Impatient`, those that may be interrupted,
  are the ADD and the LIST: one whose command changes the list and one whose does
  not, and with the third the check takes twice the time.
* TimeExpr: four words hold a message and the longest documented time; instants
  before, within and after the day of a shift and within the hour it moves; one
  zone without a shift, one that skips an hour, one that repeats one; `IntMax`
  of 26 bits, so that 60 weeks wrap below zero and 112 weeks above it, and all
  sums stay within TLC's ints.
* RateLimit: limit 2 and window 2 for 10 and 60 s; five requests are two windows'
  worth and one; time to 4.
* Session: `MaxLogins` 2 (one to be overtaken by another), `MaxFaults` 1, six
  pairs per account so that none is ever waited for.

Deadlock is checked everywhere but in `rate_limit`, which ends when its requests
and its clock do: with all ids used up or nobody logged in the
clocks, rounds and handlers that do nothing still step.

### Fairness

* RemindrSync: weak fairness of starting a round, of the API's answer and of its
  merge, per device - `sync_thread_fn` loops for ever, `http_request` has a
  timeout and every branch ends the round. None for users, the web or faults.
* ApiSync: weak fairness of each session's statements; strong fairness of those
  that wait for a row, because PostgreSQL queues lock waiters and each holder
  ends; weak fairness of deadlock detection.
* Session: weak fairness of the daemon's calls, answers and of the refresh it
  waits for. `AccessExpires` may not strike between a refresh and the call it
  was made for: 30 s timeouts against 15 minutes.
* EventLoop: weak fairness of each CLI's reads and writes (none of its
  interruption), of the round's end (timeouts) and of the restart (`Restart=always`,
  `KeepAlive`). Strong fairness of the loop, which contends for the mutex with a
  thread that sleeps between two rounds, and of `Select`, which signals may
  interrupt but not each time.

## 4. Theorems

`tlapm` checks eight modules: `RemindrSyncProofs`, `AckedProofs`, `CopiesProofs`,
`ApiProofs`, `SessionProofs`, `EventLoopProofs`, `TimeExprProofs` and
`RateLimitProofs`. What they prove holds for every number of devices, requests,
pages, users, ids and faults and every bound, from the assumptions the modules
make on the shape of their constants. Some theorems have a premise more, which
is named with them, and without which TLC finds what they state violated:

* `NoClockAhead`, no device's clock is ahead of the API's: with one ahead, a web
  deletion of a row stamped in the future replaces it by an older one, and a
  creation is sent again above its tombstone.
* `InStep`, the devices' clocks show the API's second: a device that is behind
  edits what another just wrote and stamps it older.
* `DaytimeShifts`, a zone's shift keeps clear of midnight by its own width: see
  section 3.

RemindrSync:

* `TypeCorrect`: `Spec => []TypeOK`. Inductive as it stands once it says that a
  daemon in a round has a request; one lemma per operator says what it returns.
* `FutureIsBounded`: `Spec => []NoFarFuture`, for any clocks. A row enters the
  table by `MergeOne` (checked against the clock of the request's service or of
  an earlier second) or by the web (the clock itself), and the clock only grows.
* `RowsStayWithAccounts`: `Spec => AccountsKeepRows`. A request writes an id only
  if the table has it for the caller or not at all.
* `NothingSyncedIsLost`: `NoClockAhead => (Spec => []AckedOnServer)`.
  `AckedOnServer` is not inductive: it is true because of what is in flight.
  `SyncInv` adds that stamps lie in the past (`StampsPast`), that a request in
  flight is exactly what the list still has pending (`RequestIsPending`: the
  mutex), and that an answer in flight speaks of rows the table has or has
  replaced by newer ones (`AnswerIsDurable`). `DeviceSteps` reduces every action
  to what it can do to one row of one device; `TableGrows` says the table moves
  forward only; the invariant follows row by row.
* `TableNeverRegresses`: `NoClockAhead => (Spec => StampsGrow)`.
* `TableKeepsTombstones`: `NoClockAhead => (Spec => OneOffTombstonesStick)`. A
  tombstone can be overruled by any copy of the row that is still about, in a
  list, a file, a request sent or given up, an answer not yet merged: so the
  invariant is about all of them (`Copies`, and `Held` for those of one device).
  `CopyStep` shows that an action leaves the copies under an id alone, adds
  the first one, or adds an edit of one. A one-off is only edited to be deleted,
  so its live copies are one version (`LiveAlike`); the API's tombstone is no
  older than that (`TableBuries`). The hard case is the tombstone the API does
  not have yet: the row was created and deleted on one device, and the request
  that created it was lost, or is late. Then that device, or its round, has
  all the copies, and its own clock has ordered them (`OneHolder`).
* `ListsMoveForward` and `ListsKeepTombstones`: `InStep => (Spec =>
  LocalNeverRegresses)` and `... LocalTombstonesStick`. `ListInv` says what an
  answer can bring (`AnswerIsFresh`): a conflict is newer than what was sent, and
  a change is no older than what the list has, sent or synced, because of
  `AckedOnServer` and because the mutex kept everybody else out. A deleted copy
  anywhere is no older than a live one (`BuriedEverywhere`).
* `EditsAreKept`: `InStep => (Spec => NoEditDropped)`, for any accounts, faults
  and v1 ids, renamings included. A row leaves the pending ones when an answer
  acknowledges it or brings a newer row for it (`OwnAccountHas`: what such an
  answer speaks of is on the server under the account of the round), or when a
  retry moves it to a new id. It does not say that the reminder is stored once:
  it may be twice (section 3). TLC checks it for one account, where 409 comes of a
  late copy; the id that is another account's is the theorem's.
* `RemindrIsLwwStore`: `NoClockAhead => (Spec => ImplementsLwwStore)`, the
  refinement. No step touches both the table and a device (`TableOrLists`), so
  each is a `Write`, a `Replicate` or a stutter. A write supersedes by
  `TableGrows`; what a replica then says was delivered is in the store, or
  overruled there, by `AckedOnServer` of the state after the step.

ApiSync:

* `ApiTypeCorrect`: `Spec => []TypeOK`, in which `Ready` says that a session about
  to SELECT or to write has a change left, and serves an account.
* `SessionsKeptApart`: `Spec => []ApiInv`. A row has one holder (`OneHolder`); it
  is absent from the table or the account's whom the holder serves
  (`HeldRowsAreOurs`); the row an UPDATE is about to change was found, and is
  still the account's (`UpdatesAreOurs`: the time between SELECT and UPDATE is
  where a row could change hands, and nothing locks it then); what a pull found
  is committed or about to be with it (`PullIsBacked`); every row of the table
  is in the history. `TableGrows` says what a step does to the table,
  `StepIsLocal` and `UntouchedKeepsInv` that the other sessions keep their part,
  `StepKeepsInv` that the one that steps does.
* `OwnersStay`: `Spec => OwnersKept`, and `OnlyCommittedIsTold`:
  `Spec => []AnswersAreCommitted`, from that invariant.

Session, whose three properties all rest on `SessionInvariant`: `TypeOK` and
`Apart`, that tokens are nobody else's. No two stores have one pair, a refresh
shows its own client's pair or one that client has given up, and a pair on its
way to a client is nowhere else; a client waits for one refresh at a time.

* `SessionTypeCorrect`: `Spec => []TypeOK`.
* `EmailIsTheDaemons`: `Spec => []DaemonEmailIsTrue`. A login writes e-mail and
  tokens of one account together, and the daemon's refresh drops the e-mail.
* `RotationEndsNoSession`: `Spec => []SessionsStayAlive`. `Calm` strengthens it:
  while nothing has failed, every refresh has somebody waiting for it and what
  it gives is good. By `Apart`, the token a handler deletes is that of the
  client who waits for it, or of nobody any more.
* `RotationMultipliesNoSession`: `Spec => []OneTokenPerLogin`. The number of good
  tokens alone is not inductive: a handler between DELETE and INSERT has taken
  one and will add one, and one whose client gave up will add a token beside
  that of the client's retry. `Budget` counts the good tokens that no awaited refresh will
  exchange (`Spare`) and the refreshes that may still issue one (`Busy`):
  together never more than logins and faults. Each step keeps that sum, except
  for a login and a fault, each of which pays for one.

EventLoop, whose five theorems come from `LoopInvariant`. The code never says
which connection a buffer belongs to nor how much of a line has got how far;
`Slots` does: the index of a connection holds in its buffer the beginning of its
own client's line, of which the socket has the rest (`Arriving`), or nothing any
more, once that line was cut out (`Taken`). `Distinct` says that a client has one
connection, `AtWork` that the line being executed is all of its asker's, and
`StaysReady` that what select reported ready is still so when its turn comes.
`HangUpRemoves` shows that erasing both sequences at one index keeps them
together, and `WholeLine` that a buffer with a newline is exactly one line.

* `LoopTypeCorrect`, `AnswersAreTheAskers`, `CommandsRunOnceAndWhole`,
  `AnsweredAddsAreKept`: `Spec => []` of `TypeOK`, `AnswersGoToAsker`,
  `ExecutedOnceAndWhole` and `AnsweredAddsSurvive`. The last is about saves that
  fail and are cut off, too: an answered ADD is in the list of every daemon from
  then on unless a daemon ended while its last save had failed or was unfinished.
* `WaitingClientsAreKept`: `Spec => NeverHangsUp`.

TimeExpr and RateLimit. `TimeInv` says that what was added is what the splitter
and the parser make of the words, and the properties of times follow from it
state by state:

* `TimesTypeCorrect`: `Spec => []TypeOK`.
* `RemindersLieAhead`: `DaytimeShifts => (Spec => []FiresLater)`. `mktime` may
  take a local time that is skipped or repeated for either of two instants, and
  the parser asks it twice. `LaterDayIsLater`: a local time of a later day is a
  later instant under either reading; `SkippedKeepsDay`: what is made of a
  skipped time is of the same day, so that a day more is a later day
  (`TodayHasClock`). `Outcomes` reduces every expression to seconds from now, a
  date, or a clock.
* `ClocksSurviveShifts`: `DaytimeShifts => (Spec => []ClockSurvivesShift)`.
* `NextOccurrences`: `DaytimeShifts => (Spec => []NextOccurrence)`. A day away from
  the shift `mktime` is exact and keeps the order (`AwayFromShift`); `FormWords`
  says what the parser finds in a documented form, and `FirstTomorrow`,
  `FirstWeekday` and `FirstClock` that nothing earlier would have done.
* `SplitAsDocumented`: `Spec => []DocumentedSplit`, for any words and any length
  of command. `TimeStartsThere` shows that no word of a plain message begins a
  time and that the first of a documented one does.
* `LimitHolds`: `Spec => []SlidingWindow`. It is not inductive: `Remembered` adds
  that a hit is forgotten only when a request a whole window later has been
  judged, so a request that was not overtaken counts everyone it should.
* `RefusalsAreJust`: `Spec => RefusedWithCause`, and `HitsAreAdmissions`:
  `Spec => []TypeOK`, both from the same invariant.

Only model-checked: what is under fairness (`PendingDrains`, `FreshRowsArrive`,
`EveryRequestAnswered`, `DaemonIsServed`, `EveryCommandSettled`,
`TimersKeepTicking`), as liveness is out of the prover's reach. Every invariant
and action property of a passing run is a theorem.

## 5. Plan

Done: all modules of section 2, the refinement of LwwStore, and the theorems of
section 4. What could follow, in order:

1. Session with one store shared by several requests of one page.
2. That requests of ApiSync which meet on no row are one step of RemindrSync.

Not modelled, and why:

* Rendering, formatting, prompts, logs, hashing and signatures: no state that a
  property is about.
* The service installation of the CLI and the migrations: they run once, in
  order, with nothing beside them. CORS, routes and configuration: no state.
* The pool of 10 database connections: whether a request waits for a connection
  or for a row, it waits; what a full pool does to timeouts is a matter of
  durations, which the models leave open.
* `json.hpp`: 24,765 lines of vendored third-party code, nine tenths of the
  lines counted as the implementation. The program calls it and its own code
  does not change it, so the share of lines that `map` covers stays small
  however much of Remindr is modelled.
