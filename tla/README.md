# Verification of HyperTodo

HyperTodo is a Hyperview (HXML) todo application: a Django backend that renders
screens, and a React Native client that shows them. What is hard to test in it is
what happens between two steps: the app is paused and resumed, the session on
the server changes, a request is answered late, a hint arrives while the list it
is about is being read, another device writes between the check of a form and its
commit, a password is changed under a login, storage fails in the middle of a
save. This directory models the program in TLA+ with such steps apart, checks it
with TLC and proves what matters most with TLAPS. Source paths below are relative
to the repository.

## 1. Inventory

### Mobile (`mobile/src`)

| Component | State | Operations | Hard because |
| --- | --- | --- | --- |
| Session supervisor (`realtime/session.ts`, `session-effects.ts`, `session-protocol.ts`, `auth.ts`) | generation, identity, availability, active, pending authentication, recovery capability, in-flight requests, native effects | bootstrap, request, authenticate, pause, foreground/retry, invalidate, beginRecovery, abandonTransition, lease | every method is a coroutine; at each await the app may pause, be revoked or be retried |
| Native credential queue (`biometrics/store.ts`) | one serial chain of jobs | save, clear, read | a job at its head may wait for a paused app; a failed save is compensated |
| App session shell (`realtime/app-session.tsx`) | shield, navigation epoch, mounted Root | AppState callbacks, Retry, Sign in, stream ownership | it is what calls the supervisor, in any order |
| Event stream client (`event-stream.ts`, `stream-protocol.ts`) | owner, connection, retry timer, failures | setOwner, open, retry, watchdog, lease, auth-required | late settlements of closed connections; three timers |
| Owned screen gate (`gate.tsx` and `operation`, `fragment`, `navigation`, `drafts`, `resources`, `form-entities`, `modern-form-body`, `retention`) | epoch, queue of operations, pending render acknowledgements, dirty resources, held auth documents | enqueue, run, drain, reload, refresh, ACK, deliverAuth, reset/resume of an epoch | serial queue whose items outlive screens; drafts edited while a reload is out |
| Mutation ledger (`mutations.ts`) | seed, counter, 256 recent own mutations | next, own | bounded memory, counter limit |
| Owned behaviours (`behaviors/owned*.ts`) | timers and native calls of a screen | run, cancel | must not outlive their screen |
| Interface (`components`, `feedback`, `theme.ts`, `network.ts`) | local to a component | gestures, banners | presentation only |

### Backend (`backend/todo`)

| Component | State | Operations | Hard because |
| --- | --- | --- | --- |
| Session contract (`session_contract.py`, `session_middleware.py`, `session_views.py`) | the Django session | bind each response, refuse a request that expects another session, observe | login rotates the session while requests are open |
| Login throttle (`throttle.py`) | counters per address and window, per account and per token, in a shared cache | claim, refund, forget | claims before the outcome is known; windows end; the cache fails |
| Authentication views and biometric credential (`views.py`, `services.py`) | users, sessions, one token per user | login, biometric login, issue, revoke | several transactions per login; concurrent devices |
| Realtime authority (`realtime_auth.py`, `realtime_config.py`, `realtime_middleware.py`) | none of its own; reads the session store | authorize, fresh_identity, same_identity | every answer is stale when it is used |
| Realtime stream (`realtime_stream.py`, `realtime_views.py`) | admission counters, one pending read and one cleanup per stream | acquire, subscribe, next frame, close | cancellation at every await; a lease per stream |
| Notifications (`realtime_signals.py`, `realtime_notifications.py`, `realtime_changes.py`) | owners snapshotted before a save | notify after commit | lossy publication, rollback, change of owner |
| Realtime templates (`realtime_templates.py`) | none | say in each document what it depends on and how its list is reloaded | a screen that does not name a row it shows is never told of it |
| Todo domain (`models`, `selectors`, `services`, `forms`, `views`) | tasks, categories, profile, photos, preferences | owner-scoped CRUD, paged lists, dashboard | what a view checked is old when its service writes; a photo's file is outside the transaction; a page is two queries; zones and days |
| Recovery screens, presentation middleware, administration | none | render | no shared state |

### Where each component is modelled

| Component | Modules | Status |
| --- | --- | --- |
| Session supervisor, native credential queue, app session shell, session contract | `Session`, `SessionProperties`, `SessionProofs`, `SessionLedgerProofs` (section 2) | partly |
| Realtime stream and admission, realtime authority | `OwnedStream`, `StreamService`, `StreamProperties`, `StreamProofs` (section 3) | modelled; the authority partly |
| Event stream client | `EventStream`, `Realtime`, `RealtimeProperties`, `RealtimeProofs` (section 3) | partly |
| Owned screen gate | `Gate`, `GateProperties`, `GateProofs` (section 4); a list's reload and pages in `TaskList` | partly |
| Authentication views and biometric credential | `Credential`, `Settings`, `SettingsProofs` (section 5) | partly |
| Login throttle | `Throttle`, `ThrottleProofs` (section 5) | modelled |
| Todo domain | `Todo`, `TodoProperties`, `TodoProofs`, `TaskList`, `Dashboard`; the profile in `Settings` (section 6) | modelled |
| Notifications, realtime templates | who is told of what in `Todo` and `Settings`, delivery in `OwnedStream` and `Realtime` | partly |
| Administration, presentation middleware | the Admin's writes in `Todo`, `Credential` and `Throttle`; the time zone of a request in `Todo` and `Dashboard` | partly |
| Mutation ledger, owned behaviours, interface, recovery screens | none | not modelled (section 9) |

### How they interact

The shell owns one supervisor, one event stream and one gate. Every HXML request
of the gate goes through the supervisor, which sends the binding of the owner and
compares it with the binding of the answer. A login or logout is a transition of
the supervisor: it shuts the screen, waits for older requests and native writes,
POSTs, writes the native credential, confirms the new session and publishes a new
identity under a new generation, which makes the shell mount a new Root and the
gate start a new epoch. The event stream runs only for an authenticated, ready,
visible owner, carries hints ("these resources changed") from the notifications
through the broker and the backend's stream, and is the one that revokes the
owner when the backend says `auth-required`. The native queue is shared by
logins and by the settings screen.

On the server a sign-in passes the throttle, authenticates, replaces or keeps the
session it came with, rotates the device's token and has its session saved with
the response, each in a transaction of its own. Every write of a service is one
transaction; its signals leave hints that are published after the commit to the
owners the row had before and has after it, and each screen says in its document
which of them are about it.

What makes each component correct is stated below for those modelled; for the
others it is in the hazards of `PROJECT.json` and in the plan (section 10).

## 2. The session supervisor

### Modules

- `Session.tla`: the supervisor, the native queue and the environment (server,
  network, life cycle, the shield's two buttons). An action is the code between
  two awaits. `s` holds the fields of `session.ts:29-40`; `op[o]` is one login or
  logout (`AuthOperation`, with the program counters of `runAuthenticate`, of the
  shared promise `op.processing` and of its native job); `req[r]` and `clear[c]`
  are one HXML request and one credential clear; `resume` is the coroutine behind
  `confirming`; `conf[t]` is the observation coroutine `t` waits for; `queue` is
  the serial native queue; `cookie` is the session the device's cookie names.
  `reconfirmed` is a history variable: the server was heard since the last pause.
- `SessionProperties.tla`: types, invariants, action and liveness properties, and
  the two layers of the inductive invariant of the proofs.
- `MCSession.tla`: the instance TLC runs; symmetry of submissions and requests is
  used only where no liveness is checked.
- `SessionProofs.tla`, `SessionLedgerProofs.tla`: the theorems (section 7).

A confirmation of the code is up to three GETs. They are folded into one: the
moment the successful attempt samples the session (`ServeObservation`) and the
later moment the coroutine acts on it (`Heard`); a confirmation nobody served is
one whose attempts all failed. The functions `Protected`, `Invalidated`,
`Published`, `Adopted`, `Reconciled`, `Refused` map the supervisor's fields to
the next ones, and the actions apply them, so that each coroutine's continuation
reads like the lines it stands for. `publish()` tells the shell (`ports.onIdentity`), which may
throw, and then protects the identity it has just published: `Told`. A response is
handed over in two steps, since its headers are given to the caller before its body is
read: `RequestReleased` after the first `waitPaused`, `RequestRead` when `text()` is
asked for, if ever. The deadline of a POST may pass until `failAuth` has ended, because
only the `finally` after it cancels the timer (`ExpirePost`).

A binding is what `session_binding` gives: each authenticated session has one of
its own, all anonymous sessions share one. Sessions are numbered in the order they
come about, because a session key never comes back.

### What is checked

| Run | Instance | Shows |
| --- | --- | --- |
| `session` | up to generation 3, two submissions, or one and a clear; or one submission beside a request up to generation 2; one pause | `TypeOK`; `OneOwner`: identity, recovery and pending login belong to the current generation and exclude each other; `ShieldedUnlessOwned`: no late confirmation uncovers the screen under a pending login; `NoUnexpectedIdentity`: after the first confirmation only the binding a completed login or logout returned is ever adopted; `ResponseReachesItsOwner`: a response that waited for a paused app, before its headers or between them and its body, is released only to the session that answered it; `PostIsExclusive`: older requests and clears have settled while a POST is out; `PublishAfterWrites`: no owner is published over an unfinished credential write; `WriteNeedsConfirmation`: no credential write after a pause without a new confirmation |
| `session_liveness` | one submission, one clear, one pause, `FairSpec` | `SubmissionSettles`, `ClearSettles`: the login that waits for the clear that waits for the app does end |
| `session_panel`, `session_recovery`, `session_pause` | as small as shows it | disagreements 1 to 3 of section 8 |

Bounds. `LastBinding = 2` gives three sessions: the one at the start, the one a
login makes, and one that replaces either behind the app's back; `SignedIn = {1}`
makes one of them authenticated, so that login and logout both occur.
`MaxPauses` is 1 (2 where the property is about two pauses): a second pause only
repeats the first unless something is held across both, which is the case
`session_panel` is for. `MaxGeneration` is where the shield's buttons go dead
while nothing is pending; it bounds the retries of a user and nothing else, and
it is at least one more than the generations a submission uses up. Two
submissions are needed for a write left over by the first to meet the second;
`ResponseReachesItsOwner` and `PostIsExclusive` need one request and one clear.
`session` is a sum of two instances: `Workload` of `MCSession`, a CONSTRAINT,
admits the states of the one or of the other. A state that is in neither is
still checked, and what follows it is not. Beside a request, a pause is combined with
one new session at most and not with a recovery; the theorems know no such limit.
Deadlock is not checked: submissions, requests and clears are used once and the
server's sessions run out, so every behaviour of the instance ends.

Fairness (`FairSpec`). Weak fairness of every coroutine's continuation: promises
resolve and timers fire. Weak fairness of `ServePost`, `DropRequest`, `Job`,
`ClearRuns`/`ClearWritten`: the 30 s deadlines of `bounded` and `runAuthenticate`
and the native store bring each of them to an end. Strong fairness of
`ServeObservation`: a server that is asked for ever is heard for once. Weak
fairness of `Foreground`: the user comes back and presses Retry where it is
offered. Nobody is made to pause, submit, expire or revoke. `ShieldMoves`, the
premise of both liveness properties, excludes the one behaviour `session_pause`
shows to be stuck; without it both would only restate that finding.

## 3. The change streams

### Modules

- `StreamService.tla`: what a worker promises of its streams, without the
  coroutines that do it. `sv[t].phase` is asked, admitted, open, closing,
  released; `owed` are the hints published to the stream and not yet written.
- `OwnedStream.tla`: the server's end as it is coded (`realtime_views.py`,
  `realtime_auth.py`, `realtime_stream.py`). An action is the code between two
  awaits; `st[t]` holds where the request is (`pc`), where `__anext__` is (`iter`),
  the look-up under way on a worker thread (`ask`), the read task (`read`), the
  cleanup task (`cleanup`), the lease and the broker's subscription. `total` and
  `counts` are the counters of `Admissions`.
- `StreamProperties.tla`: types, capacity, and the refinement mapping from
  `OwnedStream` to `StreamService`.
- `EventStream.tla`: the client's end (`event-stream.ts`): the one connection, the
  retry timer, and the coroutines of closed connections that have not settled.
- `Realtime.tla`: both ends together, the network between them, the app shell and
  the data. It instantiates `EventStream` and `StreamService`; because `OwnedStream`
  implements the latter, what the composition shows does not depend on the
  coroutines of the server. `RealtimeProperties.tla` has its properties.
- `StreamProofs.tla`, `RealtimeProofs.tla`: the theorems (section 7).
- `MCStream.tla`, `MCRealtime.tla`: the instances.

### What is checked

| Run | Instance | Shows |
| --- | --- | --- |
| `stream` | one connection, two sessions of two users, or two connections of one session with one place for its user; `FairSpec` | `CapacityKept`: the counters are exactly the leases that are out, whatever fails, expires or disconnects in whatever order; `Promise`: the coroutines implement `StreamService`: no hint is lost to a heartbeat, reordered or sent twice, nothing published after a session ended is sent to it, a refusal has its cause, and `auth-required` is true, last, and written when the place is free; `LeaseReturned` |
| `realtime` | two connections, room for one stream, one session with one change and one fault, or a second session that takes its place; `FairSpec` | `OneConnection`: one transport or one timer, and none without an owner; `NeverStalls`: an owner has a connection or a retry unless it was answered 404; `SignedOutForCause`: no refusal meant for an older owner signs out the present one; `EventuallyTold`: the change reaches the screen though its publication, its connection or an admission failed |

How the hints are kept apart. A hint published to a stream whose session has
already ended is called `late` in `OwnedStream`, and the refinement mapping does
not count it as owed; sending one would be a `SendHint` of nothing, which
`StreamService` does not allow. What a stream owes is in three places: the frame
whose look-up is under way, the read that survives heartbeats, and the part of the
queue that is in time (`Owed`, `InTime` of `StreamProperties`).

Bounds. The limits of the code (256 streams, 4 for each user, 32 hints) are
constants; 2, 1 and 2 are enough for both limits to refuse and for the queue to
overflow. `WireBound` and `MaxOwed` bound what is written and not read, and what
is owed, and only slow the server down. `MaxFaults` counts everything that goes
wrong by itself: a lost publication, a broken connection, a refusal without a
cause, a watchdog that barks. Refusals and endings with a cause are not counted.
One fault lets a publication be lost or a connection break at every point of both
coroutines. Both runs are sums, by a CONSTRAINT (`Workload` of `MCStream` and
`MCRealtime`): what leaves one of their parts is a publication, a revocation, a request,
a commit, another cookie or a fault, none of which is due, so that no fair behaviour is
forced out. The safety properties are proved for every size (section 7), so that the
runs need be no larger than where the liveness properties can be checked. Two connections are the present one and an older one that has not
settled. Where a connection's record is used again its earlier coroutine has ended.

Deadlock is checked for the worker. In `Realtime` it is not: after a 404 the
client rests and the sessions run out.

Fairness. Of the worker: its tasks run, the session store and the broker answer
or time out (`BROKER_TIMEOUT`), the deadline passes, and the client reads or goes.
In `Realtime`: both programs run, the retry timer and the 60 s lease fire, an ended
body is noticed. `SendHint` is strongly fair, because a heartbeat is sent only
after 15 s without a hint while `StreamService` allows it at any time. Nobody has
to show, hide, commit, revoke or fail.

## 4. The gate of the screens

### Modules

- `Gate.tla`: `gate.tsx` with `drafts.ts` and `retention.ts`. All of the gate is one
  record `g`, because nearly every handler ends in `drain()`, which looks at all of
  it: an action is `g' = Drained(x)`, with `x` what the handler did first. Two
  routes: a list, which reloads by itself, and a form opened from it, which
  reloads only when its user says so. `g.rt[r]` is what `routes` holds of a route,
  `g.op[o]` an operation, in `operations` while `live`; a retired one whose
  coroutine still awaits something stays until that ends. `g.stack` is the
  navigator's. One number stands for the versions of all resources.
- `GateProperties.tla`: types and properties. `GateProofs.tla`: the theorems.

The array `queue` is not a sequence here: an operation has a `turn`, and the first of
the queue is the one with the least. `drain()` skips what is no longer in
`operations` when it shifts the queue; here that simply is not in `Queued`. Where the
code ends several operations in a loop (`cancelOwner`, the acknowledgements of a
layout), `Finished` ends a set of them at once, since no step of another actor can
come between.

A field is one of two values, so that an edit can be taken back. What a screen
holds (`shown`), what `updateDraft()` last saw of it (`current`, `rev`) and what it
is compared with (`baseline`) are apart, as in the code. `behind`, `given` and `away`
are history: no action reads them but to maintain them.

### What is checked

| Run | Instance | Shows |
| --- | --- | --- |
| `gate` | one hint, one answer to a notice or back gesture, and either three edits and operations of the user in the first epoch or one of each around a pause and a new epoch; `FairSpec` | `OneAtATime`: a coroutine whose operation was retired never swaps a tree or holds a draft; `NeverIdle`: whoever ends an operation goes on with the queue and the stale screens; `StaleConcealed`: a list a hint reached behind a form is not seen again before its reload; `DraftsKept`: no answer asked for before the last edit replaces a form without consent; `BaselineProven`: an edit between an answer and its layout is not taken for saved; `ScreensFollow`: a list in front that fell behind is reloaded; `OperationsSettle`: every operation ends, also when a document was laid out during a pause and could not be acknowledged |

Bounds. Two operations of the user are the fewest that open a form and submit it,
and two edits the fewest that change a field and change it back; with the
automatic reload they make a queue. One hint suffices to make a list stale at any
point, also while it is being reloaded by hand or first loaded. `Ops` has a slot
for one retired coroutine at a time. The limit of 64 operations is out of reach
and not modelled. The user may stop at any time, so deadlock is not checked.
The run is a sum too (`Workload` of `MCGate`, a CONSTRAINT). The liveness
properties are checked of the behaviours that stay within it; what leaves it is
an edit, an operation, a pause or an epoch too many, none of which is due, so
that no fair behaviour is forced out and lost.

Fairness. React lays out what it was given, requests are answered or fail, the
navigator does what it was told, a pause ends. Each of these is due from when it is
enabled until it is taken, so `FairSpec` says of each that it is not due for ever.
Nobody edits, dispatches or answers a dialog by necessity; an operation whose
answer is held for a draft waits for its user, and a reload that failed is not
tried again before the next hint (`resourceFailure`).

One assumption is about React. A screen takes no input between a whole document's
being given to it and that document's acknowledgement (`Attached`). Outside a pause the
acknowledgement is part of the commit that shows the document. After a pause it needs
the re-rendering that `setRetainedPaused` asks for (`setState` at `gate.tsx:881`), which
React carries out before the next touch; until then the app is behind its shield, whose
view takes no touches (`pointerEvents`, `app-session.tsx:332-334`). The check of
`gate.tsx:303-304` does not say it, since `route.element` is the new tree by then. An
edit that came in before that re-rendering would become the baseline at the layout
(`gate.tsx:724`), and `BaselineProven` would fail.

## 5. The account and its doors

### Modules

- `Credential.tla`: one account, its password, the sessions stored for it and the
  one `BiometricCredential` row (`services.py:276-386`, `views.py` `login_view`,
  `biometric_login`, `logout_view`, the Admin). A login is the transactions it is
  made of (`PasswordLogin` or `BiometricLogin`, `Login`, `Issue`, `Respond`), and
  between two of them another device, an administrator or the clock may move.
  `proof` is history: the password that was proved at the root of each session and
  token, through whatever rotations. `life` is history too: the time since a password
  was last proved for a token, and whether a rotation has since made a row where there
  was none. Time is in ticks, `Ttl` of them to the lifetime of a token.
- `Settings.tla` EXTENDS it: the one Save of the settings screen, which writes the
  details, the photo and the biometric switch in one transaction while the
  photo's file is stored outside it. `profile` is what is committed, `req[r].work`
  what the transaction has written, `files` what storage holds, `hooks` the
  callbacks that wait for the commit. Any step may raise (`SaveFails`,
  `DeleteFails`), storage may fail again in the compensation, and the process may
  die in any step (`Dies`). `lock` is SQLite's write lock, which a transaction
  takes first (`BEGIN IMMEDIATE`). A theme that is stored is the other write of
  the profile (`Prefer`). The properties of both are at the end of this module.
- `Throttle.tla`: the buckets of `throttle.py` in the shared cache, and the sign-ins
  that claim, are checked, and release. Every `cache` call of an attempt is a step
  of its own (`Add`, `Incr`, `Set`, `Forget`, `Refund`), each may raise instead,
  carried out or not (`CacheFails`), and `Tick` ends the windows. `held` is history:
  for each bucket, whose claims its count should stand for; `raced` are the
  buckets a late `cache.set` wrote over while they ran, and `strays` counts for each
  bucket the claims given back to it that it had not counted.
- `MCAccount.tla`: the instance. The account and the limits share no state, so one run
  explores the sum of the two, one moving while the other rests in its initial state.
- `SettingsProofs.tla`, `ThrottleProofs.tla`: the theorems.

### What is checked

| Run | Instance | Shows |
| --- | --- | --- |
| `account`, first half | three requests, two passwords, one change by an administrator, one fault, one crash | `PasswordChangeEndsAll`: nothing rooted in an older password opens the account; `LifetimeKept`: a token begun by a proved password opens the account for one lifetime from the last such proof, however rotations, expiries and revocations interleave, unless a rotation made a new row where there was none (see `account_lifetime`); `StorageAgrees`: the photo the profile names is in storage, and without faults nothing else is; `SaveIsWhole`: a failed save leaves nothing behind, one under way shows nothing, one answered as saved was told |
| `account`, second half | three attempts of one machine spelled two ways, limits of 1, windows of two ticks and one, one outage | `LimitHolds`: no more than the limit, and one for each outage and each stray refund, are let past a bucket between its opening and its end; `RefundsOwn`: a claim is given back to the bucket that counted it, or to one that was opened after the window its key names; `OnlyFailuresCount`: a bucket never counts more than the claims that stand |
| `account_lifetime` | the same | disagreement 5 of section 8 |

Bounds. Three requests are the fewest in which a save overlaps two logins, or two
rotations a revocation. Two passwords are one change; `Ttl = 1` makes a token old
enough to expire, and makes a lifetime started over visible. A second fault or
crash would meet a request that is over. Three attempts are one more than limits
of 1 let past and a successful one that gives its claim back; `MaxWindow = 1` makes
refunds arrive in the next window of the clock; `Window = 2` lets a bucket that is
opened late reach into it. Requests are made once, so deadlock is not checked.

Assumptions. `Tick` may pass between any two cache calls. An attempt that read its
window and then waits across the boundary opens or counts in a bucket of a window that
is over (`Late`); a bucket that ended and was opened again so may be given a claim back
that an earlier one had counted. `strays` counts those, `RefundsOwn` says that no other
bucket meets one, and `LimitHolds` allows one more attempt for each. `PeersAssumption`
says what a machine's addresses have in common. `LimitHolds` leaves out the buckets a
late `cache.set` wrote over (`raced`), which `throttle.py:58-62` admits: two requests that
find the window gone between `add` and `incr`. The comment says that this undercounts by
one at most; the model shows that it forgets every attempt counted between the two,
since `set` writes 1 over whatever the bucket has counted since. The comment calls it a
known compromise; no property depends on the number.

## 6. The TODO data

### Modules

- `Todo.tla`: tasks and categories of several users, and the requests that read a
  form, check what is posted and write it (`forms.py`, `views.py`, `services.py`).
  A service is one transaction that takes the write lock first, hence one action;
  what the view read before is in `req[r]` and may be old by then: `CheckTask`, then
  `UpdateTask`. A deadline has an instant and a whole-day flag; `Wall` is what a form shows of
  it in a zone and `Instant` what a text names there, so that the repeated hour of
  a clock change and a form saved in another zone are cases. The Admin gives rows
  away (`AdminTask`, `AdminCategory`). `out[r]` are the hints a commit left behind, from
  the snapshots of `realtime_signals.py`. A list of categories counts every task of a
  category, as `category_list` does, whoever owns it (`Shown`, `CatRows`). Two variables
  are history: `stale` are the screens behind in what their user's own rows make of
  them (`Own`), `miscounted` the users whose list is behind in the tasks of others.
- `TodoProperties.tla`: what holds of it.
- `TaskList.tla` EXTENDS `Todo`: one list on a phone, its first page, appended pages,
  reloads by a hint and by hand. A page is counted and read in two queries
  (`Count`, `Rows`), between which anything may be committed.
- `Dashboard.tla` EXTENDS `TaskList`: what `selectors.py` works out for the dashboard, as
  operators on the rows, the clock and a zone. Its runs of days and percentages
  are compared with definitions written the other way round.
- `MCTodo.tla`: the instance; `TodoProofs.tla`: the theorems of all three.

### What is checked

| Run | Instance | Shows |
| --- | --- | --- |
| `todo`, forms | two users, three requests, two category names that differ in case, four deadlines, two zones, one transfer | `OwnCategory`: a task's category exists and is its owner's; `UniqueNames`: no two categories of one name; `ScreensLearn`: a screen is behind its user's own rows only while a hint that makes it look again is on its way; `ScheduleKept`: a form posted back with the schedule it showed moves no deadline |
| `todo`, list | pages of one row, reloads of up to two pages, two other requests | `ListCatchesUp`: once nothing is owed or under way, the list is the first pages of what the filter selects, and asks for more exactly if there is more |
| `todo`, dashboard | three requests while the clock moves through four instants of three days, two zones | `BoardHonest`: each card counts the list it opens, today's bar is what was done today, progress is a percentage, and the streak is the longest run of days with work |
| `todo_counts` | the same | disagreement 4 of section 8: `CountsLearn`, which is `ScreensLearn` for the counts of others' tasks, fails |

Bounds. `MCSpec` takes the steps of the specification that stay in one of three
parts (`Workload`): forms with the list at rest, the list with two plain requests,
the dashboard with the clock. The parts share the rows and need no more of each
other: a hint is all the list sees of a request. Three requests overlap a check, a
deletion and a second check. Two users and one transfer give a row an old and a new
owner. Three tasks with pages of one are a list of three pages, one more than a
reload may ask for (`MaxPrefix`). Days are ten instants; `WeekDays` and
`StreakWindow` of 2 are reached and exceeded by the four instants of the clock.
Requests are made once, so deadlock is not checked; what must eventually happen of
a hint is the subject of section 3.

Assumptions. `StartsAssumption`: the rows at the start are what the constraints of
the tables and the services keep. `DeadlinesAssumption`: what a zone's text names
is shown as that text, and only no deadline at all is shown as none; `Instants` are
those a row may hold, as a deadline or as a completion, and `Clock` is the part of them
at which something happens in a run. `PageAssumption`: a page has a row and a reload a
page. `ReaderAssumption`: the list's reader is one of the users, and identifiers, which
are those of a 64-bit column, are finitely many. `DayAssumption`: every instant has a
local day in every zone, and days are numbered from further back than the streak's
window reaches.

## 7. What is proved

Eight modules hold proofs, for every value of the constants the named assumptions
allow. Each proves first that a stronger `IInv` is invariant (theorem `Invariance`:
initial states, one lemma for each action, then PTL), and gets the properties from it.

### `SessionProofs`

`TypeCorrect`, `OneOwnerAlways`, `ShieldedAlways`, `PostExclusiveAlways`,
`IdentityAlwaysExpected`, from `SessionConstants`. `IInv` adds what the suspended
coroutines know:

- `Sound(s)`: the fields of the supervisor agree (a pending login has an owner, a
  recovery handle excludes an identity and exists only after a revocation);
- `Suspended`: a confirmation that is still of the current generation was asked
  for in a state whose essentials have not changed. A first observation finds
  nobody owning the screen, a resumed recovery finds its capability and no login;
- `Operating`: an operation the supervisor holds is of its generation and its
  snapshot of the barrier still contains everything in flight; one whose POST is
  out is either held or nobody owns the screen. This last conjunct is why
  `PostIsExclusive` holds although a revocation lets go of a submitted operation:
  without an owner nothing can be issued, and Sign in is refused as busy.

### `SessionLedgerProofs`

`ResponsesReachOwners`, `PublishesAfterWrites`, `WritesAreConfirmed`: the session's three
properties of steps, from `SessionConstants`. They need a second layer over
`IInv` (`LedgerInvariance`), because each relates an owner to work that another
coroutine began under it:

- `Answering`: a request that waits and is of the present generation still has the
  owner it was made for, and a response held for a paused app, or given out and not
  yet read, was answered by that owner's session. It rests on a fact about every step (`StepHolds`): within a
  generation nobody else comes to own the screen;
- `Processed`, `Queueing`: an operation's native job follows from its own record, is
  pending exactly while it stands in the queue, and stands there once;
- `Admitted`: while an identity owns the screen only the held operation may have a
  job pending; a login after a recovery finds the jobs of the operations that were let
  go in front of its own. The queue being serial, that login's write cannot have
  settled, and its last confirmation cannot come, before theirs have ended. A logout,
  which has no write to wait for, needs an identity, under which there are none. This
  is why `PublishAfterWrites` holds although a revocation lets go of a write;
- `Reheard`: an accepted answer that may write without asking again was confirmed
  since the last pause.

### `TodoProofs`

`OwnCategoryAlways`, `UniqueNamesAlways`, `ScreensLearnAlways`, `ScheduleKeptAlways`, from
`IdAssumption`, `TransfersAssumption`, `DeadlinesAssumption` and `StartsAssumption`.
`OwnCategory` is not inductive: a request that has passed the form's check holds a
category that may be deleted or given away before it writes. `IInv` says of every
such request that its category is its user's, or gone for good, or that a row has been
transferred; identifiers are never used again, so that `Clean`'s look at the
table alone is enough. For `ScreensLearn` there is one lemma for each kind of
write: a screen whose content differs between two databases in its user's own rows is
told by the hints of that write. The delicate one is a deleted category, which changes rows no hint
names: the lists look again because the hint names their resource.

`ListReadsOnly`, `ListInvariance`, `ListCatchesUpAlways`, from `PageAssumption` and
`ReaderAssumption` besides: any size of page, any length of prefix, any writes between
the two queries of a page. The list takes no step on the rows (`ListSpec => Spec`), so
all of the above holds beside it. `ListCatchesUp` is about a list at rest; the invariant,
`LInv`, also says what the two suspended reads know while the reader's screens are owed
nothing (`Told`): the pages on the screen are in date while the next one is asked for,
and what a count found is what is there. It rests on

- order: `Before` is a strict total order of the rows a filter selects (`TaskOrder`,
  `BeforeOrders`), so that their places are exactly 0 to n-1 (`PlacesFill`), a slice has as
  many rows as its bounds say (`RowsCounted`), and two adjacent slices make one
  (`RowsJoin`);
- arithmetic: `PagesOf` rounds up, so that the last page is where the rows end (`Pages`);
- hints: a commit that changes one of the reader's lines leaves a hint on its way
  (`ServeTold`, which is `ScreensLearn` after the step), so that what a suspended read
  remembers may be out of date only while something is owed.

That the last page is appended to pages still in date is why nothing is shown twice
or skipped once the hints have arrived, although the pages are read by offset.

`BoardHonestAlways`, from `DayAssumption` besides: any calendar, any windows. Every part of
`BoardHonest` is compared with a definition written otherwise. A card and the list it
opens select the same rows (`CardsCount`). The completions taken reach as far back as the
window asks (`CompletionsReach`); the streak stops at the first day without work
(`StreakStops`), which exists as the least element of a set of naturals (`LeastIn`: the
well-foundedness theorem takes the place of an induction), and the longest run stops
there too (`LongestStops`). `PercentIs` is division with a rest.

### `SettingsProofs`

`PasswordChangeEndsAllAlways`, `LifetimeKeptAlways`, `StorageAgreesAlways`,
`SaveIsWholeAlways`, from `IdsAssumption`, `TtlAssumption` and `FaultsAssumption`. `IInv` adds
that a session, the token and a login under way carry the password that was proved
at their root, so that what still works was proved with the present one; that a save past `Begin` holds the
lock and differs from the committed profile only in what it wrote itself; and that
a photo waiting to be deleted is neither the profile's nor a working save's. The
last one is what fails if the old photo is deleted before the commit, or by a save that
is rolled back. `LifetimeKept` rests on `Lived`: what a token has left and the time since
the last proof are one lifetime together. A rotation keeps the one and does not touch
the other, a proof sets both, the clock moves both; only a row made by a rotation breaks
the sum, and `life.revived` says so until the next login by password.

### `ThrottleProofs`

`LimitHoldsAlways`, `RefundsOwnAlways`, `OnlyFailuresCountAlways`, `WindowFixedAlways`, from
`LimitsAssumption`, `AttemptsAssumption`, `BoundsAssumption` and, for the limit,
`PeersAssumption`. `IInv` bounds
the count of a bucket from both sides by the cardinality of the claims it stands for
(`Bounded`), and from above with `strays` added. What makes that inductive is `Stands`: a
claim on the address stands as long as its window is the clock's or its bucket runs and
is not `Late`, so that a refund takes back a claim that is there or is a stray of a late
bucket. That needs `Lasts` (a bucket named after the present window does not end before
it): a key of an older window can be opened again only after its bucket has ended, which
`Late` tells by the time the new one has left. This is the reason `_address_key` names
the window in the key.

### `StreamProofs`

`TypeCorrect`, `CapacityAlways` and the refinement `Implements` (`Spec => Promise`), from
`StreamConstants`: any streams, sessions, users, capacities, queue length and
connection time. The counters of `Admissions` are the cardinalities of sets of
streams, which is only inductive together with who gives a lease back. `IInv` says
of each stream's record:

- `Places`: the lease and the subscription are held by the request until it has a
  response and by the one cleanup of that response afterwards, and a closed stream
  has started its cleanup, so that no path releases twice and none forgets to;
- `Turns`: where the request, the iteration and the read task stand to each other;
- `Hearing`: the queue is hints in time followed by late ones, nothing is late while
  the session is valid, and once something late has been taken nothing in time is left
  behind it.

`Implements` maps each coroutine's step to a step of `StreamService` or a stutter. A
published hint joins what is owed or is late; a frame that is written is the first
of what is owed because `Hearing` keeps the order of frame, read and queue; a look-up
that says no is of a session that has ended, which lets the service write its
`auth-required`. The theorem is about safety: `Promise` states no fairness.

### `RealtimeProofs`

`TypeCorrect`, `OneConnectionAlways`, `NeverStallsAlways`, `SignedOutForCauseAlways`, from
`RealtimeConstants`. The client's half of `IInv` is inductive by itself, whatever the
server does, as the code's guards on `this.connection` intend. `SignedOutForCause` needs
both halves: cookies come in order and an owner was once the cookie, so that a
request carries its owner's session or a later one; and whatever accuses a request, a
refusal on its way or an `auth-required` in the pipe, was true of its owner when the
server said so and stays true (`Meant`).

### `GateProofs`

`TypeCorrect`, `OneAtATimeAlways`, `NeverIdleAlways`, `StaleConcealedAlways`,
`DraftsKeptAlways`, `BaselineProvenAlways`, from `GateConstants`: any operations and any
bounds on hints, edits, pauses, epochs and choices. `finish()`, `run()` and `drain()` are
called inside one another and half-way through handlers, so the invariant is a
predicate of a gate `x`, not of the variable: `Steady(x)` holds of what they are given
and of what they leave, and `drain()` adds `Quiet(x)`. `IInv` is `Steady(g) /\ Quiet(g)`:

- `Working`: an operation that is owned is active or queued, queue places differ, and
  when none is active there is room for a reload;
- `Sound`: only a mounted screen has operations, only the active one is held for a
  draft, no document is newer than the last hint, and a list a hint reached out of
  sight is concealed;
- `Follows`: an answer to wait for was asked for at the draft's revision or an older
  one, and at an older one if an edit came since, so that the comparison of revisions
  in `run` and `runReload` does tell; an answer that has been applied is what the
  server last gave. The one thing that may be agreed to under a held answer is not a
  refresh, since `confirmDiscard()` is refused when it is about another draft;
- `Over`: nothing is left of an epoch that is over;
- `Quiet`: a gate at rest has nothing queued, no screen that wants a reload, and has
  seen every field.

`DraftsKept` and `BaselineProven` follow step by step: only `Deliver` lays something out
and only `Layout` moves a baseline, to the fields of a document that is what was given.
The proofs rest on one restriction of `Edit` and `Enqueue`, `Attached` (section 4).

### Only model-checked

Liveness and fairness (`SubmissionSettles`, `ClearSettles`, `LeaseReturned`, `EventuallyTold`,
`ScreensFollow`, `OperationsSettle`), which with ENABLED are out of the proof system's
reach. Every invariant and every property of steps that a passing run checks has a
theorem above; `WindowFixed`, that nothing puts off the end of a running bucket but that
overwrite, is proved and not checked. The runs that end in a violation (section 8) are refutations and have none.

## 8. Disagreements between code and documentation

1. `session_panel`: a refused login without a native effect, held across two
   pauses, is shown with nobody having confirmed the owner since the second
   (`session.ts:182` clears the flag before it looks at `active`; the comment at
   `session.ts:185` and the test at `realtime-session.test.ts:208` say otherwise).
2. `session_recovery`: Sign in returns a recovery handle while a native write of
   the revoked owner is under way, when that write was started by a foreground
   that completed a held answer (`session.ts:312`; `docs/realtime-app.md:68` says
   a busy is returned).
3. `session_pause`: an app that was paused while the failure of a POST was being
   reconciled, and came back before that ended, stays behind the paused shield,
   which has no button (`session.ts:296`; `docs/realtime-app.md:18-19`).
4. `todo_counts`: a category that the Admin gave away keeps the tasks of its old owner,
   and the new owner's list counts them (`views.py:1243-1244`); when one of them is
   saved or deleted, the hint is for the task's owner alone (`realtime_signals.py:22-37`,
   `57-70`). `README.md:202` promises the list an "Automatic refresh" on "Task/category
   saves and deletes", and `docs/realtime-templates.md:55-56` names the counts.
5. `account_lifetime`: a device authenticates with its token, its row is deleted (by the
   Admin, a Save or a logout), and the rotation makes a new row with a lifetime of its
   own (`services.py:280`) though no password was proved; `services.py:260-266` says that
   "the credential lifetime is absolute from the first opt-in" and that "Only a sign-in
   that just proved the password" starts it over, as does `tests/test_biometrics.py:478`.

## 9. What is not modelled, and why

In the session component: receipts and `consumeEffect` of a rejected panel (a
second way into the same native queue), the cap of 64 effects, validation of
addresses and options, theme, language and mutation seed (they ride on a response
and decide nothing). Three GETs of a confirmation are one. The `boot` and other
reasons for `uncertain` are one value except where a button depends on it.

In the streams: the shape and size of payloads, the decoder's bytes (a frame is
whole or breaks the connection), origins and header syntax, the delay and jitter
of a retry, the order of the two waits of `OwnedStream._finish` (one step of `CleanUp`: nothing
else reads what is between them), and an `auth-required` published by the broker, which nothing in this
code base publishes. That a hint makes the screen read the current data is one
step in `Realtime`; the queue in between is the gate's, and what a list reads is
`TaskList`'s. A publication that Redis loses is in `Realtime`; in `Todo` every hint is
published in the end.

In the gate: the delivery of a login's result and the shield over it
(`deliverAuth`), `bindSource` and the biometric submit, delayed and `once`
behaviours, indicators, the feedback of an update, the legacy `invalidate()` and its
`version` (the app uses resources only), fragments that hold no form beyond a GET
that changes no field, and the shape of documents.

Of the account: CSRF, the cookies for theme and language, the panels of a refused
login, `last_used_at`. A request whose session was deleted while it ran is answered
400 by Django's `SessionInterrupted`, after its transactions; in `Respond` the session
it kept just stays deleted. Hashes of names and tokens are the names and tokens.

Of the TODO data: titles, notes and colours, the decoding and size of a photo, the
wording of an error, and the drawing of a form for a new row, which reads nothing
that a property is about. Rendering may fail after a commit; the rows are as after
the commit then and the hints are out. The queries of the dashboard are
taken from one state. The Admin's edits that keep a row's owner are those of the
forms. The language of a request is presentation.

Whole components. The mutation ledger (`mutations.ts`) matches a hint with a change
the device made itself, to word a notice; nothing is read or kept because of it.
The owned behaviours keep timers of one screen each; the screen's replacement is
the gate's. Interface and recovery screens have no shared state. Django
configuration, migrations and seed data are not part of a running system. The
broadcast of a changed screen template (`notify_template_commit`) tells every
client to look again, whoever it is, and relates no two pieces of state.

## 10. Plan

1. The rest of `gate.tsx`: `deliverAuth` with a result that comes while the app is
   paused or before the coroutine asks for it, the biometric submit and the
   mutation ledger. Property: a result is delivered once, to the document that asked.
2. `Realtime` with `TaskList` in place of the one-step reading of a hint, as a second
   composition.
3. The owned behaviours, as far as they keep state across a screen.

Theorems: nothing that the passing runs check and the proof system can state is
left; each of the three adds its own.
