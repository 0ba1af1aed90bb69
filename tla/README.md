# A formal model of counter-sign

counter-sign lets an agent ask a human before it acts. The agent signs an
*Intent*; a channel delivers it; listed approvers *countersign* it, or the
deadline passes and the Intent's *Default* decides; the runtime verifies the
signed receipts, records them and runs the guarded function or refuses. This
directory holds TLA+ models of that code, the TLC runs that check them on small
instances, and proofs about them that hold for every instance.

Paths such as `src/adapter.ts` are relative to the repository; in PROJECT.json
the repository is mounted under `src/`.

## 1. The system

| Part | State it keeps | Operations | What makes it correct |
|---|---|---|---|
| Protocol core, `src/core` | none: pure functions over Intents, receipts and Resolutions | `createIntent`, `signDecision`, `mintDefault`, `verifyCountersignature`, `verifyResolution`, `awaitWithDefault` | what is produced in one place (a settled quorum, a minted Default) is what is accepted in another |
| `PendingDecisions`, `src/adapter.ts` | live entries, tombstones, one reaper timer per entry | `wait`, `settle`, `record`, `cancel`, `abortAll`, the reaper | each intent is decided once, in its window, by a quorum of distinct approvers or one veto; no waiter is orphaned; nothing leaks |
| The runtime, `src/shim.ts` and `awaitWithDefault` | one guarded call: the window, the Default timer, the race | `wrapAction` | the function runs only when authorised and on record; a veto wins; silence, and only silence, yields the Default; the call ends |
| `ReceiptLog`, `src/receipt-log.ts` | the file, the write queue, a cached chain head | `append`, `record`, `read`, `history`, `head`, `verifyChain`, `verifyAll` | a log neither torn nor edited verifies; what was acknowledged is remembered, in order |
| `SigningServer`, `SigningLinkAdapter` | spent links, captured promises, `closed` | links, GET and POST `/sign`, `deliver`, `awaitResolution`, `close` | a link decides once; a failed delivery fails closed and can be retried; a decision that lands during delivery is not lost |
| Email adapter | intents decided through a link | `deliver`, opening and confirming a link, `close` | a decision burns every link of its intent, and nothing else does |
| Telegram, Slack, Discord, WhatsApp, Local | polling offset and loop, `closed`; the messages' buttons live on the platform | `deliver`, `awaitResolution`, webhook or poll, `close` | an intent is decided once; nobody takes the buttons of an open request away; a vote is not skipped |
| Approver registry, enroll CLI | a signed hash chain of enrolments; its file | `enroll`, `revoke`, `verifyChain`, `activeKeys`, `assertApproversEnrolled`; the CLI's read and append | as long as no records are lost, a reported change is in every registry that verifies; a revoked key stays revoked under an anchored head |
| Policy log, rule resolution | a signed hash chain of admins, roles and rules | `append`, `state`, `verifyChain`, `getRule`, `resolveRule` | the chain authenticates every change; a rule yields an Intent |
| Console | nothing but the policy file it shares with other servers | `policyHead`, `applySignedEntry`, the audit page | a usable policy stays usable; no change is overwritten unseen |
| WebAuthn, keys, canonical JSON | none | parsing and signatures | byte-level; covered by the repository's test vectors |
| Approve CLI, vector generation, Python client | none | sign one receipt; tooling; verification in Python | agreement with the reference verifier, by test vectors |

**How they interact.** `wrapAction` calls `adapter.deliver`, then
`adapter.awaitResolution`; every adapter but the local one answers from a
`PendingDecisions` shared with its webhook, poll loop or web page. The promise
`wait()` returns is raced by `awaitWithDefault` against a timer of its own. The
winner is verified, handed to the receipt sink, and only then acted on. All of it
runs on one Node event loop: a synchronous method is atomic, and what interleaves
is everything between two `await`s: other callers, approvers, timers, and two
clocks, `Date.now()` (which may be stepped) and the monotonic clock behind
`setTimeout`.

**What is hard.** A decision racing the deadline; the same intent waited for
twice, cancelled and retried; one person under two spellings; a promise that
settles while `deliver()` runs or whose reaction runs late; an adapter that
errs, lies or never answers; a stepped wall clock; a sink that fails; a process
that dies between decision, record and action; an append cut in the middle of a
line; concurrent records; a click before its wait exists, or delivered twice; a
polling loop that stops as the next wait begins; two CLIs or two servers on one
file; a file restored from a backup. PROJECT.json lists each under `hazards` at its line,
with the properties that would catch it.

## 2. The modules

| Module | Models | Notes |
|---|---|---|
| `JsMap` | JavaScript's `Map` | a function over the keys present |
| `Countersign` | `src/core`: Intents, receipts, Resolutions and the functions that sign, mint and verify | pure operators; the parameters of a deployment as CONSTANTS |
| `QuorumGate` | what `PendingDecisions` promises | abstract: votes and verdicts only, no promises, entries or timers |
| `PendingDecisions` | `src/adapter.ts` | one action per method; refines `QuorumGate` |
| `PendingDecisions_proofs` | | theorems about `PendingDecisions` |
| `WrapAction` | `src/shim.ts` with `awaitWithDefault` | one guarded call, any adapter |
| `WrapAction_proofs` | | theorems about `WrapAction` |
| `JsonLines` | an append-only file of JSON lines | what whole and cut-off appends leave; used by both logs below |
| `ReceiptAudit` | `verifyAll` of `src/receipt-log.ts`, the labels of the console's audit page | one stored receipt, pure operators |
| `ReceiptLog` | `src/receipt-log.ts` | file, queue, head recovery, crashes, edits by hand |
| `ReceiptLog_proofs` | | theorems about `ReceiptLog`; `verifyAll` and `verifyResolution` agree |
| `SigningLinks` | `src/signing.ts`, `src/adapters/signing-link.ts` | over the actions of `PendingDecisions` |
| `SigningLinks_proofs` | | theorems about `SigningLinks`, on top of those about `PendingDecisions` |
| `Channels` | the e-mail, Telegram, Slack, Discord and WhatsApp adapters | over the actions of `PendingDecisions` |
| `Channels_proofs` | | theorems about `Channels`, likewise |
| `Registry` | `src/registry.ts` | pure operators over a log |
| `Enrollment` | `scripts/enroll.ts` | runs of the CLI on one file |
| `Enrollment_proofs` | | theorems about `Enrollment` |
| `PolicyLog` | `src/policy/` | pure operators over a log |
| `Console` | `apps/console/lib/` | servers and browsers on one file |
| `Console_proofs` | | theorems about `Console` |
| `LogLemmas` | | lemmas about sequences of records and files of lines, for the three logs |
| `MC*` | | values of the constants for TLC |

`SigningLinks` and `Channels` are `PendingDecisions` (by INSTANCE) with the adapters
around it; `ReceiptLog` composes the audit and the file, `Enrollment` the registry and
the file; `Console` runs on `PolicyLog`.

### Countersign

Identities are values of `Actors`; a raw spelling is mapped to its identity by
`Norm` (`normalizeActor`). Cryptography is modelled by what it does: a receipt
carries the key that really signed it, so verification under a key is equality
with that key. A receipt that no trusted key verifies has a key bound to nobody.
`WellFormed` collects the rules `createIntent` and `assertIntentInvariants`
share, `VerifyResolution` is `verifyResolution` with its two exclusive proofs
(`ApproverProof`, `DefaultProof`). The array of receipts is a set: the code looks
at its length and its members, never at its order. `stamp` is the clock reading
a Resolution came to be at. Left out: canonical JSON, key encodings, and
`verifyIntent` (the intents in play are the ones their agent signed).

### PendingDecisions

| Variable | Code |
|---|---|
| `entries` | the map `entries`; an entry is its promise and the approvals collected |
| `resolved` | the tombstones |
| `timers` | armed reapers, by the promise of their entry, with the monotonic time each is due |
| `promises` | every promise `wait()` made: pending, fulfilled or rejected |
| `now`, `mono` | `Date.now()`; the clock `setTimeout` measures with |
| `returned`, `aborts`, `epoch` | history: which call got which promise; how often `abortAll` ran, and how often it had run when a promise was made |

Each method is one action with the code's early returns as guards: `Wait` is replay,
join or register; `Settle` and `Record` evict a late entry, ignore an unlisted actor
or a bad receipt, and otherwise go through `Accept`, which vetoes, completes the
quorum or adds a vote; `Finish` sweeps, leaves the tombstone, clears the reaper and
fulfils. `Reap` may run at any time once it is due: an event-loop stall delays it
arbitrarily. `StepClock` moves `Date.now()` without the monotonic clock, in the
directions `ClockSteps` names. Configurations that `wrapAction` refuses are excluded
by `PendingAssumption`.

### WrapAction

`pc` follows the code: `delivering` (`await adapter.deliver`), `racing`
(`Promise.race`), `recording` (`await receiptLog.record`), `recorded`, and the
ends `ran`, `rejected`, `failed`, `refused`, `crashed`. The adapter is what its
interface allows: `deliver` takes any time and may throw; its promise settles at
any time, also while `deliver` runs, with any value of `Candidates`, or rejects,
or never settles. `React` is the reaction of `guarded`; as a microtask it precedes
a due timer, but the clock may have moved since the promise settled. `timer`
counts down on the monotonic clock, whatever the wall clock does. The sink is
durable or throws; a failed or interrupted record may or may not have reached the
disk. Left out: the observers and the best-effort callback POST, which change
nothing the call depends on.

### ReceiptLog

The text of the file is kept up to what `JSON.parse` tells apart: a line is the
pieces written on it, a piece is the JSON of one entry, whole or cut; a line
parses when it is one whole piece. The hash of an entry is the entry (SHA-256 is
taken to be injective). `queue` is the promise chain `tail`, `writer` the write
in progress with its `await`s (`mkdir`, `head`, `append`). `AppendFails` and
`Crash` leave nothing, whole lines or any other prefix of the text (`torn` remembers it).
`TakeAnchor` is a reader who keeps `head()` elsewhere. One process writes a file,
as the class requires. `Edit` is the tampering the audit is for: an entry cut out or
a receipt changed, with the links left alone or computed anew (the chain is not
signed). The text of the file and what a cut-off append leaves of it are in
`JsonLines`.

### ReceiptAudit

`AuditFault` is the verdict of `verifyAll` on one line, in the code's order of
reasons; `Options` are the option sets the code accepts. A stored receipt knows
whether its signature still verifies (`intact`), so changing any field of it is
clearing that flag. A passkey and the raw form of its key are one key, as
`credentialKeyMaterial` has it. Malformed lines are `ReceiptLog`'s (they do not parse).

### SigningLinks

`SigningLinks` instantiates `PendingDecisions` and uses its actions as the calls
the code makes: `deliver` and the fall-through of `awaitResolution` run `Wait`,
`POST /sign` runs `Record`, a failed delivery runs `Cancel`, `close` runs
`AbortAll`. A promise is named by the caller and the method that made it.
`consumed`, `captured` and `closed` are the fields of the same names, `reclaims`
the deadline timers `deliver` arms and never clears. `deliver` suspends once, in
the race of its notifications, its wait and its deadline, and everything after the
race is microtasks: so the step that ends the race (the last notification, a
decision, a cancel, `close`, the timer) also runs the rest of `deliver`
(`AfterRace`, `Woken`). A notifier may succeed, fail or hang, and may report an
error for a link that got through; a link can be followed as soon as some
delivery has made it. Left out: GET and the challenge phase, which change no
state, and the click time, which `valid` stands for together with the
assertion. The clock is not stepped here; what a stepped clock does to the
waits underneath is the subject of `finality_clock_step` and of the proofs.

### Channels

One instance has one adapter, `channel`. `Deliver` posts the message and may report
a failure although it went out; `AwaitResolution` runs `Wait`; a press or a link
runs `Settle`, by `SettleResolves` when it decides and `SettleNull` when the code's
`settle` returns null. All these adapters refuse keyed approvers, and `createIntent`
allows vouched ones a quorum of one only: no press leaves a quorum pending.
`presses` are what the platform has not delivered for good: Telegram's queue, which
`pollLoop` fetches in batches, or webhook requests, taken in any order and left in
place to be delivered again. `HandleUpdate` is an iteration of the loop: it moves
the offset and settles; the loop then awaits the edit of the message
(`EditMessage`), while a webhook's edit runs beside other requests. `Off` is
`polling = false`. For e-mail, `Confirm` is the POST of a confirmation page and
`decided` the map of that name. Left out: the platforms' request signatures, the MAC
of a link (a link names its intent and decision), and opening a link, which changes
nothing.

### Registry and Enrollment

A log is a sequence of records; the hash of a record is the record. `org` is the key
its signature verifies under. `Enrollment` splits a run of the CLI where the code
touches the file: `Load` (read, parse, verify, all the checks) and `WriteRecord`
(one append, with the separator decided at the read). Between them other runs
append, a run dies amid its append (`Die`), or records are lost (`Lose`: an
older copy is restored, or lines are cut out). `TakeAnchor` keeps `head()` outside.

### PolicyLog and Console

`PolicyLog` folds the log as `foldState` does (`Live`: the last set of an id that
was not deleted after it), with `EnteredAt` for the order `getRule` searches in;
`CanAppend`, `VerifyChain`, the validators and `resolveRule` (`Resolves`,
`IntentFields`) are operators. A rule may leave its action and its risk tier open
(`Unset`); `Requests` are what agents bring: a summary, and an action and a tier that
override the rule's (`Effective`, the code's `??`, so an empty string does override).
`Resolves` has all of `resolveRule`'s throws. Fields that are not strings, and values the
pages cannot show, are the flag `safe` and the set `Strings`. `AsIntent` is the protocol
core with the one Intent such fields make, so a rule is judged by the same
`WellFormed` that `createIntent` is; `CreatesIntent` adds `createIntent`'s checks of the
action, the summary, the tier and the timeout. Left out of it are the checks of the
agent's own identity and keys. `Console` splits a submission at the file
operations of `applySignedEntry`: the head the browser fetches and signs, the read
and every check (`Submit`), the second read (`Recheck`), the rename (`Save`);
`GiveUp` is an I/O error or a death in between.

## 3. The runs

| Run | Question | Instance and bounds | Result |
|---|---|---|---|
| `pending` | with a wall clock that may jump ahead but not back, is the book-keeping correct, and is it the abstract gate? | two intents (`solo`: one vouched approver, deadline 2; `duo`: both of two keyed ones, deadline 1), a second spelling of an identity, an unlisted key, three `wait()` calls, time up to 2, a timer ceiling of 1, one `abortAll` | holds |
| `finality_clock_step` | is finality immune to backward steps, as the comment says? | one intent, two calls | violated |
| `runtime` | what does a guarded call guarantee whatever the adapter, the clock and the sink do? | five intents: silence approves, silence rejects, a keyed pair, and two that must be refused; up to ten candidate resolutions each, honest, forged, unlisted, doubled, relabelled, contradictory or early | holds |
| `veto_overridden` | is a NO never turned into a YES? | the same without clock steps | violated |
| `receipt_log` | does a log neither torn nor edited verify, chain and receipts, and is a loss or an edit noticed? | a two-person quorum, a veto, a Default and an empty resolution; two faults, one of which may be an edit by hand; every way an append can be cut | holds |
| `record_durably_stores` | is every acknowledged receipt readable? | one fault | violated |
| `signing_links` | do links, captured promises and deliveries stay consistent with the waits beneath them? | two callers and two intents: `pay`, where silence approves and either of two approvers decides, deadline 1, and `wire`, which needs both, deadline 2; symmetry of the callers | holds |
| `silent_approve` | does silence approve only when everybody was told? | `pay`, two callers | violated |
| `retry_can_decide` | can an intent be decided after a failed delivery was retried? | `wire`, three callers | violated |
| `channels` | do presses and links decide once, and is no vote or request lost? | e-mail, polling and webhooks; two intents, two people, one of them a stranger to one intent; two callers; two updates or one repeated request on their way; one `close` | holds |
| `enrollment` | what do concurrent, dying CLIs and lost records do to a registry? | four runs, five requests (two of them to be refused), two intents; one death, one loss; symmetry of the runs | holds |
| `console` | does a policy that several servers edit stay usable? | two servers, two signers, seventeen submissions (dangling, malformed, aliased, unknown or of another version among them), five requests (bare, complete, with an empty action, an unknown tier or no summary), logs of up to four entries, one restore; symmetry of the servers | holds |

**Why these bounds are enough to be interesting.** Three `wait()` calls give a join,
a retry after cancel, and a replay or a reopening after a decision; two intents give
the sweep of one tombstone by the other's decision and deadlines that pass one after
the other; two approvers and three spellings give the quorum, the double vote and
the veto. `MaxTime` lies at or after each deadline, so everything that happens late
happens (in `channels` after one of two, so one intent expires beside an open one). In `runtime` the deadline of one intent can come to lie beyond `MaxTimer`,
so the refusal of a far-future deadline is reached. In `signing_links` two callers
of one intent give the redelivery, overlapping or not, that joins, fails or replays;
two intents give links that expire, and are pruned, while others are live. Two
faults in the log give a failure and a restart that finds its traces. A jump of the
clock takes `now` past `duo`'s deadline while its reaper is still armed; intents
with approvers of both modes are left to the proofs. The timer ceiling
of `pending` lies between the two windows: a wait for `solo` at time 0 is longer than
`setTimeout` can wait, so its reaper runs early, at time 1, and may meet no entry but its
own; `duo` and a later wait for `solo` have reapers that run on time or late. In `channels` two updates fill
a batch in which the first decides and the second is late or a stranger's, two
callers give the wait that is repeated, or that starts while the loop of the first
is stopping. Four runs of the CLI give an enrolment, a revocation and an enrolment
again with one more beside them, so a fork can sit at any record; two servers and
four entries give a role, a rule for it, and two changes of them that race.
`MaxTime`, `MaxStep`, `MaxAborts`, `MaxFaults`, `MaxEdits`, `MaxPresses`,
`MaxDeaths`, `MaxLosses`, `MaxLog` and `MaxRestores` are the only bounds on
counters; the proofs do not depend on their values. The callers of `signing_links`,
the runs of `enrollment` and the servers of `console` are interchangeable, and these
runs check invariants and step properties only, so symmetry is sound. Deadlock
checking is off because every one of these systems may come to rest: all intents
decided, the call over, the log written.

**Fairness.** `pending`: time passes and a due timer fires, which is what
`setTimeout` promises; no approver, caller or operator has to do anything.
`runtime`: a due reaction and a due timer run, time passes, and the append of the
receipts returns or throws; nothing is assumed of `deliver()` (a `deliver()` that
hangs hangs the call: bounding it is the adapter's business), of the adapter's
promise or of the approvers. `receipt_log`: each file operation a write awaits
returns or throws. `channels`: Telegram's API answers, so the loop never hangs in a
call (its long poll has a timeout); a fetch does not fail for ever while an update
waits; and the edit of a message returns or fails. Nothing is assumed of people,
callers or the clock.

### Where the code and its documentation disagree

1. **Finality and a stepped clock** (`finality_clock_step`). The comment in
   `wait()` calls finality immune to backward wall-clock steps. It is as long as
   nobody reads the clock while it is ahead: a `wait()` past the deadline deletes
   the tombstone and registers a fresh entry; after a step back the approver
   can decide the same intent the other way.
2. **A veto during delivery** (`veto_overridden`). When `deliver()` returns at or
   after the deadline, `awaitWithDefault` mints the Default without looking at
   the adapter's promise. A veto given in the window while delivery was still
   running is dropped and, where silence approves, the function runs: what the
   comment at the other path calls the one outcome the gate must never produce.
   `VetoHonoured` shows that the path through the race is sound.
3. **A torn append** (`record_durably_stores`). `appendChained` appends after
   whatever the file ends with. After an append cut inside a line, the next
   record is glued to the fragment and acknowledged, and cannot be read back.
   (The enroll CLI guards against this for the registry's file.) `LossIsLoud`
   shows that the loss is never silent: as long as the file reads at all, everything
   acknowledged is in it.
4. **Overlapping deliveries** (`silent_approve`). `deliver` treats every
   settlement of its wait as a reason to return, a rejection too. When one of two
   overlapping deliveries of an intent fails closed, the promise both share is
   rejected; the other returns normally, whoever it has told, finds nothing
   captured and waits afresh, and where silence approves the Default fires without
   the approvers having been reached. `FailsClosed` states what does hold: a delivery
   that returns incomplete has at least had its wait settled.
5. **A spent link and a retry** (`retry_can_decide`). `cancel` drops the approvals
   collected so far but leaves the links that recorded them spent. After the
   retry their approvers are refused ("already been used") and not counted; a
   quorum that needs them is out of reach until the deadline.

Three smaller observations have no run. A comment in the console's write path
(`apps/console/lib/write.ts:139-141`) says that `append()` enforces that a rule's
roles exist; `assertChangeValid` (`policy/log.ts:82-106`) does not check it, so a
log made with the library can hold a rule without its roles. The console does not
let that happen (`ConsoleKeepsPolicyUsable`). `resolveRule` can return fields
that `createIntent` refuses: two people enrolled with one key, one named like the
timeout actor, or a requested risk tier that does not exist, which it passes on
unchecked; `UsableRulesMakeIntents` names the three as its exceptions. (That a request
must bring a summary, and the action and tier its rule leaves open, is a hypothesis of
it.) And a change
saved between the console's second read and its rename is overwritten, as its
comment concedes: `CheckedChangesKept` stops at that read.

## 4. The proofs

All theorems are checked by TLAPS for every value of the constants that the named
assumptions admit: any number of intents, approvers, spellings, keys, callers,
log entries, runs and servers, any deadlines and quorums. TLC evaluates the
assumptions in every run. Every invariant and every action property a passing run
checks is the statement of a theorem, in a few cases under a condition the table
names.

| Assumption | Says |
|---|---|
| `CountersignAssumption` | the types of a deployment's constants; the timeout actor's name is its own identity |
| `PendingAssumption`, `SigningLinksAssumption`, `ChannelsAssumption` | the intents in play are configurations `createIntent` and `wrapAction` let through; the types of the rest |
| `WrapAssumption` | types what an adapter may yield; nothing is assumed of the values, and intents need not be well formed: the model refuses those the code refuses |
| `ReceiptLogAssumption` | a `record()` call is given nothing, or the receipts of a resolution `verifyResolution` accepted (`wrapAction` records no others), and two calls are for two intents |
| `EnrollmentAssumption` | the types of a request; the CLI's organisation key is not the authority's |
| `PolicyLogAssumption`, `ConsoleAssumption` | the types of changes and people; a field left out is no tier and no text; the log the console starts from was made with `append()` |

The provers cannot use the induction theorems, so what a recursive definition or
a chain needs is argued from a least or a greatest element: `LeastElement` and
`GreatestElement` of `LogLemmas` follow from the library's theorem that a
well-founded order has minimal elements. That the recursive function `Entries`
has a value of every length is shown that way (`EntriesExist`: take the least length
without one), and so is the heart of every hash chain, `ChainsMeet`: two chains with
the same record at one place agree at all places before it (take the greatest at
which they do not; the record after it holds the one before). A record holds its
predecessor, so records belong to no set that can be named in advance. `LogLemmas`
therefore speaks of sequences of whatever they are made of (`IsSeq`), and of what
writing at the end of a file leaves of its lines and of what is read from them.

### PendingDecisions_proofs

| Theorem | Says | Needs |
|---|---|---|
| `TypeCorrect` | `TypeOK` | |
| `ResolutionsAlwaysVerify` | every resolution handed out passes `verifyResolution` | |
| `DecisionsInWindow` | no promise is fulfilled by a decision made at or after the deadline | |
| `TombstonesAreSwept` | when a decision leaves a tombstone, no expired one is left | |
| `DecisionsAreFinal` | an intent is not decided in two ways between two `abortAll`s | `"back" \notin ClockSteps` |
| `ImplementsGate` | every step is a step of `QuorumGate` or a stutter | `"back" \notin ClockSteps` |
| `ReapersMatch` | every live entry has one armed reaper of its own, and no other reaper is armed | |
| `NobodyIsStranded` | a pending promise has a live entry, unless its deadline has passed or its window is longer than `setTimeout` can wait; and reapers and entries match | `"back" \notin ClockSteps` |

The argument has layers. `Inv1` adds to the types that the promise of a live
entry is pending, of the entry's own intent and of the current epoch
(`EntryPromises`), so fulfilling or rejecting it settles the promise of nobody else,
and that a promise is named after a call that was made (`PromisesReturned`), so a
new one is fresh. `Inv2` says that every collected approval is sound: of this
intent, an approve, under the key its approver's mode requires, filed under the
approver's identity (`ApprovalsSound`). It is what makes a quorum of entries a
quorum of distinct approvers that `verifyResolution` accepts; `ResolutionsVerify`
alone is not inductive, since it says nothing of the votes a quorum is made from.
`Inv3` says that no intent has an entry and a tombstone (`LiveUndecided`) and that
until its deadline a decided intent keeps its tombstone (`TombstonesKept`): sweeping
forgets a decision only when the clock has passed the deadline, after which `finish`
can no longer be reached. That last step is where `"back" \notin ClockSteps` is
used, and `FinalityClockStep.cfg` shows that it cannot be dropped. The refinement
needs `TombstonesBacked` besides: a replayed promise carries a resolution that an
earlier promise was fulfilled with, so the gate has already decided so.

`DecisionsInWindow` needs the clock check of `settle` and `record` alone, and
`ReapersMatch` nothing of the clocks: whichever way an entry leaves the map, its own
timer is cleared or has fired, so no timer leaks and a reaper, even an early one, can only
remove the entry it was armed for. For `NobodyIsStranded`, `Waiters` adds that no reaper
of a window that `setTimeout` can wait out is due before the wall clock shows the
deadline (`ReapersNotEarly`), because the wall clock is never behind where it was
relative to the monotonic one. So such a reaper removes its
entry at the deadline and not before. What the code relies on is a window within
`setTimeout`'s ceiling (`awaitWithDefault` refuses longer ones; beyond it `setTimeout`
fires after one millisecond) and a clock that does not step back; otherwise a caller may
wait longer than its entry lives, and the runtime's own Default ends the call.

### SigningLinks_proofs

| Theorem | Says | Needs |
|---|---|---|
| `TypeCorrect` | `TypeOK`, with the answers a finished call may still owe | |
| `ImplementsGate` | the signing page and its adapter implement `QuorumGate` | |
| `LinksAreSingleUse` | a link decides at most once, whatever is redelivered, cancelled, closed or pruned | |
| `OutcomesAgree` | all fulfilled promises of an intent carry one resolution, `close()` included | |
| `DeliveryFailsClosed` | where silence approves, `deliver()` returns without having told everybody only if its wait settled | |
| `DeadlineEndsEverything` | a delivery that races and a captured promise have an armed deadline timer | |
| `CloseReleases` | in the window nobody waits on a pending promise of a closed adapter | `WindowsFit` |
| `DecisionsReturn` | in the window, a decision that lands while links go out is what `awaitResolution` answers | `WindowsFit` |

The theorems about `PendingDecisions` are instantiated
(`P == INSTANCE PendingDecisions_proofs WITH ...`), and what they assume of the
constants is a lemma here (`PAssumptions`). `StepMaps` shows that a step of the
adapter is a step of `PendingDecisions` or leaves its state alone, so `P!Spec`
follows, and with it the gate and the invariants `Inv1`, `Inv3` and `Waiters`. (The
wall clock is not stepped in `SigningLinks` and `Channels`: with a backward step the
gate is not implemented, as `finality_clock_step` shows.) What
remains is about the adapter's own maps. `LinkInv`: a link that decided stays in
`consumed` until its deadline; only then is it pruned, and then its POST is refused
for being late. `ClosedInv`: nothing is registered after `close()`, so there is one
epoch, and finality within it is finality throughout. `DeliveryInv`: a delivery that
failed closed has settled the wait it shares. `CaptureInv`: what is captured belongs
to its intent, and some delivery's timer will release it. `AnswersInv`, for
`DecisionsReturn`: in the window the captured promise is the delivery's own as long
as that is pending, and afterwards one with the same outcome, since a redelivery
replays the tombstone; this is where `Waiters` is needed (a pending promise has the
live entry, so a redelivery joins it) and `ReclaimsNotEarly` (no timer
releases what was captured before the deadline). `WindowsFit` says that no window is
longer than `setTimeout` can wait. `deliver` does not check this; `awaitWithDefault`
refuses the call only once `deliver` has returned.

### Channels_proofs

| Theorem | Says |
|---|---|
| `TypeCorrect` | `TypeOK`: a batch is the oldest of the updates still unhandled, a press is on a message that was posted |
| `ImplementsGate` | the e-mail and chat adapters implement `QuorumGate` |
| `OpenStaysDecidable` | no press takes the buttons or links of an intent that still waits inside its window |
| `ToldOnce` | at most one press or link is told that it was recorded, on e-mail even across `close()` |

The construction is the same. `DoneInv` says that whatever an adapter shows of a
decision (a press told, an entry of `decided`, a message edited or about to be, buttons
gone) has a decision behind it, and a decision has a tombstone until the deadline or
`close()` (`Done`); an intent with a tombstone has no live entry, so it is not open.
`OnceInv` adds that a second press is told only when the tombstone is gone, and then
either the window is over or the adapter closed; e-mail's `decided` survives `close()`.

### ReceiptLog_proofs

| Theorem | Says |
|---|---|
| `TypeCorrect` | `TypeOK`: the pending calls are those that wait and the one being written |
| `HonestVerifies` | a log that was neither torn (by an append cut off after part of its text) nor edited reads, links, agrees with every head taken earlier, holds what was acknowledged, and raises no alarm in the full audit or on the console's page |
| `LossesShow` | whatever an append was cut off by, a log that reads holds everything acknowledged |
| `WritesInOrder` | the receipts of an earlier call precede those of a later one |
| `EditsCaught` | an audit against a head taken of an intact log catches every edit of the entries it covers and every receipt no call was given |
| `HonestReceiptsPass` | a receipt of a resolution `verifyResolution` accepts has no fault in `verifyAll`, for all option sets that fit (`Fits`) |
| `PassedReceiptsDecide` | a receipt without fault, under the Intents and the authority key, is by itself a resolution `verifyResolution` accepts, if it is a Default, a refusal, or a quorum of one |

The last two compare two rule sets, written twice in two orders, case by case: a
listed approver in a keyed or a vouched slot, and the Default. The others follow from
one inductive invariant, `IInv`. `QueueInv`: the waiting calls stand in the
order they were made, behind the one being written. `SourceInv`: a receipt that reads
was given to some call, or was altered by hand. `OrderInv`: the receipts in the file
stand in the order of their calls, and all those calls were made before any that is
still pending; that is what lets the next write keep the order. `HonestInv`, of an
untouched log: it consists of whole lines, its chain links, the cached head is the
head of the file, and it begins with the log any anchor was taken of. `LossIsLoud`
is itself a part: an acknowledged write put its lines in the file, each either on a
line of its own or glued to a fragment, and a line with a fragment never reads again.
`EditsCaught` is `ChainsMeet` at the anchored head, since an edit computed anew makes
another chain. It speaks of a head whose log was intact, because `head()` counts
lines and takes the last hash, and does not walk the chain; the run
checks it in the same form. What a `record()` call gives is known to be sound
(`ReceiptLogAssumption`), so `HonestReceiptsPass` makes every receipt of an honest
log pass.

### Enrollment_proofs

| Theorem | Says |
|---|---|
| `TypeCorrect` | `TypeOK` |
| `ReportedStand` | as long as no records are lost, a change a run reported is in every registry that still verifies, however many runs interleave and die |
| `RevocationHolds` | a registry that passes against the head of a log that verified has no key active that was not active there or enrolled since |
| `SoloRuns` | a run nobody interfered with leaves a registry that verifies, with its change in force, even behind a run that died before its newline |

`ReportedStand` is inductive with the shapes of the file and of the runs: what is
appended to a registry that has moved on does not link, so the registry no longer
verifies; if it does verify afterwards, it verified before, with the same
records in front (`VerifiesBefore`). It stops at the first loss: a file that lost its tail
verifies without what was in it, and only an anchored head tells. `RevocationHolds` is `ChainsMeet` again: the
registry begins with the anchored log (`AnchorCovers`), so any difference lies in the
records behind it. As with the receipt log, the head must be of a log that verified.
In `SoloRuns` the last record decides its key (`LastDecides`).

### Console_proofs

| Theorem | Says |
|---|---|
| `TypeCorrect` | `TypeOK`: the file holds a log that verifies and extends the one the console started from |
| `PolicyUsable` | a usable policy is never turned into one the pages refuse, whose rules miss roles, or that nobody can administer |
| `ChangesKept` | what was in the file when heads were compared is there after the save, and the new entry follows the log its admin signed over |
| `RulesMakeIntents` | in a usable policy, a rule whose people are enrolled and enough resolves, for a request that brings a summary and what the rule leaves open, to fields `createIntent` accepts, unless two of the people share a key, one has the reserved name, or the request names an unknown tier |

A head determines its log (`SameHead`, by the last place where two chains differ), so a
server that compares heads compares logs, and the entry it validated follows what the
admin saw. `PolicyUsable` needs more than that the policy is usable now: a restore
brings back an earlier log, so `UsableInv` says that the file, and every log a server is
about to save, was usable at each length since the start (`AllAlong`). `UsableAfter`
goes through the kinds of change and shows that each, once validated, keeps the
roles of every rule and an admin whose key the pages take. `RulesMakeIntents` finds the
entry `getRule` stops at (`RuleEntered`: the last one that set the rule) and shows that
what `resolveRule` makes of it meets `CreatesIntent`.

### WrapAction_proofs

The wall clock may be stepped throughout.

| Theorem | Says |
|---|---|
| `TypeCorrect` | `TypeOK`, with the Default timer armed exactly during the race |
| `RunsOnlyWhenAuthorised` | the function runs only on a quorum of distinct listed approvers, or on a silence the Intent says approves |
| `RecordsBeforeActing` | what the call acts on is on record |
| `VetoIsHonoured` | a veto yielded during the race never ends in the function running |
| `DefaultsAreNotEarly` | a Default decides only once the deadline was reached on one of the clocks |
| `ErrorsAreNotSilence` | a rejected promise is not taken for silence, and silence does not end in an error |
| `MintedDefaultsVerify` | the Default the runtime mints passes its own verification, wherever the wall clock went |

They follow from one inductive invariant, `Inv`. The lemmas before it are about
the pure functions: `MintDefaultVerifies` (what `mintDefault` mints,
`verifyResolution` accepts, whatever the clock reads),
`VerifiedDefaultIsRecognised` (a Default that would pass verification is caught by
`isEarlyDefaultDelivery`, so none gets past it before the deadline) and
`VerifiedApprovalIsAuthorised` (what passes verification as an approve has a
quorum of distinct signers behind it, or silence approves). `Inv` then says that
whatever was delivered passed the checks (`DeliveredIsSound`), that the winner
verified (`WinnerVerified`), how the adapter's promise relates to the progress
of the call (`AdapterInStep`), and, for the veto, that as long as the race is on
and the reaction has run, the Default that could still win is itself a reject
(`VetoStands`): the reaction is skipped only for an early Default, and a verified
reject that is an early Default has the Default's own decision. `ConcludePreserves`
states once what the winner of a race must satisfy; each of the three ways to end it
(a late delivery, the reaction, the timer) is shown to meet it.

### What is only model-checked

Liveness: `EntriesEvicted`, `EveryCallEnds`, `EveryRecordEnds` and `VotesAreCounted`
need fairness and `ENABLED`, which the provers do not handle. The runs that show a
disagreement with the documentation are counterexamples, and have no proof. All
other properties of the passing runs are theorems.

## 5. What is not modelled

- **Cryptography, key encodings, WebAuthn parsing, canonical JSON.** Pure functions
  over bytes, for which the repository has test vectors. The models use what they
  decide: which key signed.
- **`LocalAdapter` and the approve CLI.** Each reads an answer or a file, signs once
  and keeps no state between calls.
- **The Python client.** An independent verifier without state; whether it agrees
  with `verifyResolution` is a matter of bytes.
- **The console's pages, forms and routing.** User interface over the functions that
  are modelled.
- **Observers and the callback POST of `wrapAction`.** They change nothing the call
  depends on.
- **A second writing process of one receipt log.** The class forbids it.
- **The whole call over a real adapter and a real log.** `WrapAction` allows its
  adapter and its sink everything their interfaces do, `PendingDecisions` and
  `ReceiptLog` included; a composed instance would check the same properties on
  fewer behaviours.
