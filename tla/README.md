# TLA+ models of the Obedient Monitoring Thermistor firmware

These modules describe the control behaviour of the garage environmental
monitor: a SparkFun Apollo3 node that measures with a BME688, keeps one hour of
readings in RAM, reports over LoRaWAN (OTAA, Class A) with RadioLib, and is
configured, reset and rebooted by downlinks. The models are checked with TLC on
small instances; the safety properties of most of them are also proved with TLAPS
for every value of their constants.

`PROJECT.json` lists components, runs, the alternative operators that each
property must reject, findings, hazards, theorems, and for each definition the
lines of the source it stands for.

## 1. The system

Two threads. The *main thread* runs `appSetup` once and `appLoop` for ever:
pump the log; step a pending reset; poll sensor, radio, reset expiry; let the
scheduler send at most one report; process the downlink that came with it. A
radio transaction blocks it for seconds. The *BSEC worker* acquires a reading
every three seconds, appends it to the RAM ring and notifies the scheduler
through an atomic flag. The two share the ring (`historyMutex`), the snapshot and
calibration hand-over (`gBsecMutex`), and the atomics `recordPending`,
`gStopRequested` and `gWorkerStopped`. Power can go at any time.

| Component (source) | State | Operations | What makes it correct |
|---|---|---|---|
| Join path (`lorawan_service.cpp` 178-420) | RadioLib nonces, `gReservedNonceLimit`, `gLWnonces`, `gPersistenceHealthy` | restore, reserve, transmit, accept, skip, recover | no DevNonce twice, no JoinNonce twice, over every failure and restart |
| Nonce journal (`storage_service.cpp` 76-334) | two flash pages, the mirror in RAM | scan, save, reclaim, resume, erase | an acknowledged save survives any interruption |
| Radio lifecycle (`lorawan_service.cpp` 513-664) | `RadioState`, timers, streak counters | poll, join, transmit, cooldown, rollover wait, fault | no library call over a clock wrap or on a node from before one; rests, spacing and streaks as intended; it comes back |
| Manager (`core_service.cpp` 181-400) | settings, reply queue, request cache, pending reset, reset stage | receive, expire, confirm, stop, erase, restart | commands once, answers never lost, challenges current, resets confirmed |
| History ring (`storage_service.cpp` 405-490) | ring, count, generation | append, prune, read, latest | readers see the unexpired last records; no reading unnoticed |
| Scheduler (`scheduler_service.cpp`, `encoderTransmit`) | anchors, interval, retry and block delays, learning flags | poll, settings changed, notify | complete first report, fixed slots, bounded interval, progress |
| Interval policy (`scheduler_service.cpp` 36-143) | availability mask and its pending flag | evaluate the hour of readings | spikes and drift ignored, lasting changes seen, readiness debounced |
| Sensor worker (`sensor_service.cpp` 26-370) | worker flags, snapshot, exported calibration, its EEPROM record | begin, trigger, fetch, export, save, put back, stop | newest calibration kept and saved; silent after a stop |
| Raw sensor backend (`sensor_service.cpp` 387-578) | cycle state, latest sample, two clocks | begin, trigger, fetch, rest | a late collection keeps the time of the measurement; no hang; whole rests |
| Log (`log_service.cpp`) | queue of 12 lines, level, drop totals | write, evict, pump, notice, set level | reserve, order, begun lines finish, drains |
| Clock check (`core_service.cpp` 22-174) | none after boot | adjust, check, compare two counters over a window | a verified clock is right, a right clock is verified, the check ends |
| DIO1 layer (`lorawan_service.cpp` 15-120) | interrupt, latched edge, pad, sticky status | init, pin mode, attach, detach | serves polling and interrupts in turn; no old edge; no failure lost |
| Wire format (`encoder_service.cpp` 11-160, `common.cpp`, `decoders/environment_v1.js`, `tools/downlink.py`) | none (settings and their record at the node) | pack, decode, encode a command, apply a batch | what one side writes the other reads as it was meant |

How they interact: `appLoop` calls `sensorPoll`, `lwServicePoll`,
`schedulerPoll`; `schedulerPoll` reads the ring and calls `encoderTransmit` and
`lwTransmit`; the result carries a downlink to `receiveCommand`, which saves
settings, informs the scheduler, queues a reply for a later uplink, or starts a
reset; a reset stops the worker, erases the EEPROM, the nonce pages and the ring,
and restarts. The join path is the only user of the journal.

What is hard: power loss between a transmission and its record; a two-page log
with half-done flash operations; one wrapping 32-bit clock read again and
again in one pass, with ticks between the readings; three error streaks with different reset rules; a reader that walks a ring
which changes under it; a reply queue and a duplicate cache over lossy,
repeating downlinks; deadlines that pass during a blocking call; a worker that
must be silent before an erase.

## 2. Modules and plan

| Module | Models | Runs |
|---|---|---|
| `NonceRegister` | abstract specification: a register that is stored into, may be damaged, and is forgotten only when authorised | property of two runs |
| `DevNonce`, `DevNonceProofs` | the join path over such a register, and its proofs | `dev_nonce` |
| `NonceJournal`, `NonceJournalProofs` | the flash pages, implementing the register | `nonce_journal` |
| `Manager`, `ManagerProofs` | main loop, commands, reset | `manager`, `manager_live` |
| `RadioLifecycle`, `RadioProofs` | radio service over a wrapping clock | `radio`, `radio_cooldown`, `radio_straddle` |
| `HistoryRing`, `BufferProofs` | ring, worker and the scheduler's walk | `buffers` |
| `Scheduler`, `ReportProofs` | which report is sent when | `scheduler` |
| `SensorWorker` | worker thread, calibration, stop | in `SensorService` |
| `RawSensor` | the cycle without BSEC, on the main thread | in `SensorService` |
| `SensorService`, `SensorProofs` | both backends under the facade, with the manager's reset | `sensor` |
| `LogQueue`, `BufferProofs` | the serial log | `buffers` |
| `ClockCheck`, `BringUpProofs` | comparison of STIMER with the crystal's RTC | in `BringUp` |
| `RadioPin` | DIO1 between RadioLib, the Arduino core and the GPIO registers | in `BringUp` |
| `BringUp`, `BringUpProofs` | the order of `appSetup` over these two | `bringup` |
| `Codec` | wire format of the node | in `Console` |
| `ConsoleTools` | the console's decoder and the two command encoders | in `Console` |
| `Console`, `ReportProofs` | operator and node over the wire, with the settings record | `functions` |
| `IntervalPolicy` | the statistics behind the report interval | `functions` |

They were written in this order, the behaviour that cannot be repaired in the
field first: a nonce that is reused locks the node out of its network.

Abstract and detailed: `NonceRegister` is what the join path assumes and the
journal provides. `NonceJournal` implements it (`RegisterSpec`, the register
being what the next boot would restore), and `DevNonce` implements its use
(`RegisterSpec` there: what is stored supersedes what was, `Supersedes`
comparing both nonces). Together they carry "no DevNonce is reused" from the
flash cells up to the air.

Still planned, in this order:

1. Compositions: `Manager` with `Scheduler` (replies, uplinks and settings in one
   state), `Scheduler` with `RadioLifecycle` (real waits in place of free ones).
2. The settings and calibration records in one EEPROM page.

## 3. The models and the code

**DevNonce.** `pc` is the place inside `lwActivate`: `reserving` (the save of a
higher bound runs), `armed`, `listening` (the join is on the air), `uncertain`
(it returned without an accept), `accepted` (the save of the accept runs).
`limit`, `buffer`, `healthy` are `gReservedNonceLimit`, `gLWnonces` and
`gPersistenceHealthy`; `devNonce`, `joinNonce`, `active` stand for RadioLib's
node, which is external and modelled from its use. `stored` is what the journal
restores. A save succeeds, or is cut short by a power loss or a driver error and
leaves the old content, the new one, or a journal that is refused; a refused
journal is a permanent fault in the code and in the model. The phase `Cooldown`
stands for the rollover wait as well: both end in `Recover`. `sent` and
`sessions` are history: how often a nonce may have been on the air, and how often
a session of a JoinNonce became usable.

**NonceJournal.** A save is a plan of flash operations (program a body, program
its commit word, erase a page) that `Perform` runs one by one; each can be done,
fail, or be cut short with any effect the driver can leave (`Fates`). `Scan` is
`nonceStoreScan`: it finds the authority page through the intent and activation
records, or refuses. `Mount` may also fail because `nonceGeometryReady` does, which
looks at the linked image and not at the pages. Sequence numbers wrap at `SeqSpan`. `durable` is what a boot
at this moment would restore. A node starts with a blank journal, with one of the
earlier firmware (`Legacy`, data records in any number of slots), or with one that
has just been reclaimed at any number of `Starts` (`Reclaimed`), so that numbers
about to wrap are reached. `resets` counts the factory resets: each one that is cut
short may leave the oldest records behind, and after enough of them (some eight
million for 126 slots and 32 bits) an old number would compare as a new one.
`MaxResets` names the bound that `JournalAssumption` relates to the span.

**Manager.** `pc` is the place in `appLoop`, because the transaction between the
poll and `receiveCommand` can outlast a deadline: `expireReset` is called on both
sides. Downlinks are any of `Commands`, repeated at will, or undecodable. The
queue and the cache have the code's discipline (ring with `NextSlot`, refusal
when full, replay of a cached answer, downgrade of a stale challenge). Settings are
members of a set `Settings`, and `Merged` is what a change makes of them; an answer
keeps what distinguishes it (whose it is, its result, its code) and leaves
out the content of a status report. `Codec` and `Console` have the bytes. `applied`,
`accepted`, `unanswered`, `confirmed` and `intact` are history.

**RadioLifecycle.** One action for each branch of `lwServicePoll`, one for
`lwServiceWait`, and for `lwTransmit` with each class of outcome that
`permanentError`, `hardwareError` and the branches distinguish. `now` wraps at
`Wrap`; a library call lasts up to `Guard`; the loop pauses up to `MaxPause`.
`turn` follows the main loop: asleep, in the poll, or past it, where a transaction of
the same turn may follow.

The code reads `millis()` many times in a turn, and every reading is a reading of its
own: the poll's first (`read`, line 561), the one inside `lwTimerRolloverPending`
(137), those of `rolloverWait` (545), `cooldown` (540), `lastJoin` and the ends of an
initialization or recovery (597, 579, 613), and the three or four of `lwActivate` and
`lwSendReceive`. `Jitter` bounds the ticks between one of them and the next thing that
reads the clock; it is small on the real node, and the model takes 1. So the readings of one
turn can lie on both sides of the guard's edge or of a wrap, and three histories say what follows.
`straddled`: a library call of this turn runs on a node that a wrap made old after the
poll's first reading; neither test of line 563 sees it (`OldTimestampsAreUnused` is
violated, see below). `misused`: a call across a wrap, or on an old node in any other turn,
which `TimestampsAreSafe` excludes. `rushed`: a cooldown ended in the poll it
began in (`CooldownIsObserved` is violated, see below); `RestsAreWhole` shows that every
other path waits, before a recovery and between two joins.

A stopped or faulted radio ignores its polls, so time stands still there. The
assumptions of the module order its durations as the constants of the code are
ordered: a turn and the pause after it are shorter than a wrap, and the spacing of joins
is no longer than a cooldown.

**HistoryRing.** The worker's `Measure`, `Admit` (the freshness check outside the
mutex), `Commit` and `Notify`; the main thread's `Exchange` of `recordPending`,
`ReadGeneration`, `ReadClock`, `Count`, one `Read` per record, and `Judge`. Each
is one mutex section or one access. `live` is history: the records that should
be in the ring. `ReadingsAreCovered` has two parts. At each
moment a reading that no counting walk has covered has its notification pending,
or is still to be notified, or is seen by the walk in progress; and the walk that
covers it comes.

**Scheduler.** `pc` separates the choice of a report from its encoding, because
the worker runs in between, and from the downlink. Deadlines are ages of the
anchors, capped where they stop to matter, in units of `SCHEDULER_MIN_MS`. The
statistics of `intervalFromHistory` may ask for any interval between the bounds that
its clamp by elapsed time sets, which are exact up to the unit (`Lower`, `Upper`).

**IntervalPolicy.** What `Scheduler` leaves open. The ring is a sequence of readings
with their age in ticks, a tick being the time between readings. `Seconds` is the part of
`intervalFromHistory` for one measurement: the medians of half-minute bins, the
slope and noise of the older ones, the score of the recent ones against both.
Values lie on a grid of integers on which these medians and quotients are exact.
`Qualify` folds over the ring the rule by which a measurement counts as gone or
back; `Settled` states the same rule once more as a property of the sequence,
without counters.

**SensorWorker.** The worker checks for a stop only between steps (`Enter`), so a
stop can be requested while a step is under way. `Take`, `Save`/`SaveFails`,
`Retry` are the three parts of `bsecPoll` around the mutex. A save can fail with
the record untouched, broken, or written after all. `canSave` is read under the
mutex and used later, as in the code; `NewestExportIsKept` shows that its
staleness is harmless, because an export always supersedes.

**RawSensor.** The other backend, which a build without BSEC has: one action for
each way through `sensorBackendPoll`. True time runs in a circle of two wraps of
`millis()`, so that the model can compare the time a reading carries with the
time it was measured at. `sensorUptimeMs` sums differences from poll to poll, as the code
does. `RawAssumption` says that the clock's wrap is longer than a rest or a
measurement with a pause: 49 days against a minute.

**SensorService.** `sensorStart`, `sensorPoll`, `sensorStop` for either build, and the
manager's reset around them. It composes the two backends over the ring and the
EEPROM; a raw build is a worker that was never started.

**ClockCheck.** Time passes in steps of a fraction of a hundredth; STIMER counts `rate`
ticks in each, the RTC one hundredth every `Sub` steps. A sample brackets the RTC
read with two of STIMER; a preemption of a length in `Pauses` may come between or
during a delay. The crystal can fail at any moment and leaves the RTC at twice its speed
(another oscillator) or at rest; the model assumes that the failure flag, which
`clockCheckConfiguration` reads last, is then up. `VerifiedIsAccurate` compares the
verdict with the true rate, up to the resolution of the RTC and the span of the
samples, and says when a right clock may be refused. `ClockAssumption` holds of the
code's constants with millisecond steps (`Sub` = 10, `Parts` = 1000000): windows of 20 s
against an RTC that wraps after an hour and a STIMER that wraps after 23 minutes, as
long as no preemption lasts that long and all of them together not an hour. `MaxPauses`
bounds the preemptions of a start: every sample of one window can be refused, but not
those of all attempts.

**RadioPin.** An action is a critical section or a call of the Arduino core. GPIO calls
fail in any combination (`SUBSET`), and `status_` keeps the first failure. The
core's `attachInterrupt` enables the interrupt when it first makes its object, and
its `detachInterrupt` leaves the pad unreadable: both are why the layer exists,
and are modelled from what its comments and calls counter. An edge is old or new
by whether the window that it wakes was being set up.

**BringUp.** The two above in the order of `appSetup`, with `managerFault`.

**Codec, ConsoleTools, Console.** A packet is a sequence of bytes, and every
encoder, decoder and parser of the repository is an operator on it, translated
branch by branch: three formats of sensor packets, replies and health reports,
and commands, from the node's C++, the console's JavaScript and the Python tool. Floats are
integers in a stated unit, so that rounding at a half and at the ends of a range
is exact; the VOC equivalent, which is sent as its binary32 bits, stays bits. `Console`
lets an operator and a node exchange them, with damaged bytes and a node that reboots
over its settings record; queue and cache are those of `Manager`. A challenge's code
is `lwGenerateResetCode` of an arbitrary word of the random source. The
properties compare what one side meant with what the other one reads, over
both: measured value and displayed value, display and serial line, asked
settings and reported settings.

**LogQueue.** An action is a call; one byte of `logPump` is an action, since its
limits can end it after any byte. Every line is two bytes. `state` is `logGetState`,
computed at the places where the code computes it; `backpressured` is the port that
took nothing in the last pump. Left out are the text of a line, `logHex`, the counts
of dropped lines, and the waiting of `logServiceDelay`, which pumps in a loop.

## 4. Runs

Every run explores its whole state space. Deadlock is checked in all of them.

| Run | Question | Bounds and why they are enough |
|---|---|---|
| `dev_nonce` | nonce reuse, session freshness, use of the register | 8 nonces (0 to 7) in batches of 3: two full batches and a clamped one; two accepts |
| `nonce_journal` | journal = register, mirror and erased slots, recovery of the stale page | 2 data slots per page, 5 contents: each page is filled and reclaimed in both directions; numbers of 48, begun near the end so that they wrap; one factory reset, cut short anywhere |
| `manager` | stale, doubled or lost challenges and answers, confirmations out of time, erases | queue and cache of 2, three request ids, both operations, two codes: full queue, evicted cache slot, expiry in the middle of the queue |
| `manager_live` | settings agree with what the next boot loads, resets and challenges end | every type of command under two ids, queue and cache of 1, failing saves, three erase attempts |
| `radio` | calls across a wrap or on an old node, streaks, rests and join spacing, the radio comes back | clock of 14, guard 1, pauses of 1, calls of 0 or 1, a tick or none between any two readings: a join and a transaction of one turn carry the loop past the guard, so that a wrap is met in any state, before, between and after the readings of a poll |
| `buffers` | log: reserve and order, begun lines, it drains and says so; ring: content, consistent walks, no missed reading | 4 slots, 1 reserved, 4 levels, 6 messages: overflow by two beyond any mix. 2 records, clock of 6, 3 appends: the ring wraps, expires and overtakes a walk. The two share nothing, and a behaviour moves one of them |
| `scheduler` | first report, fixed slots, interval, reports are attempted | units of one minute, base 2, longest 3, retry cap 2 |
| `sensor` | calibration kept and saved, erase final; raw readings timely, acquisition goes on | four calibration states: stored, in the save, pending, next; a clock of 9 ticks against a rest of 4 and pauses of 3, so that it wraps in any state of the cycle |
| `bringup` | the clock's verdict, the pin's two uses, the start ends | a window of 6 hundredths; the RTC wraps at 12 and STIMER at 128, both within a window from one start; rates of 2, 5 and 8 against 5 with 20 percent allowed; preemptions of 1 and 3 steps, the longer of which spoils any sample; two windows, three preemptions; three initializations |
| `functions` | both directions of the wire; spikes, changes and readiness | readings at both ends of every range and one beyond, at rounding halves, infinite and negative zero; every command, each key, good and bad values, one damaged byte; two old records. Eight bins of four readings; every history with two lost or odd readings, or eight partial or lost ones evaluated late |

In `bringup` the tolerance is coarse because the window is: six hundredths resolve
a sixth, where the code's two thousand resolve its 0.2 percent. The property is
stated with the resolution, so it says the same of both.

The clock of `radio` must leave room for all recoveries, with their ticks, between two
wraps, as 49 days do: a wrap resets the count of recoveries that failed, and
`RadioComesBack` would not hold if it always came first.

Ages are capped at the largest deadline they are compared with, so a cap hides
nothing; counters of events (`MaxJoin`, `MaxValue`, `MaxResets`, `MaxAppends`, `MaxExports`,
`MaxWrites`, `MaxReplies`) bound histories and are named constants.

Two runs are expected to find a violation of what a document says:

| Run | Statement | What the code does |
|---|---|---|
| `radio_cooldown` | a cooldown lasts a minute (FIRMWARE_ARCHITECTURE.md:44, tests/check_radio_lifecycle.py:51) | `lwServicePoll` reads `millis()` before `cooldown()` reads it again; if a tick falls between, the age underflows and the node is rebuilt in the same poll. Paths: a wrap that was slept through (564), or one between the reading of the guard and that of `rolloverWait` (545) |
| `radio_straddle` | rollover pauses and fresh recovery prevent reusing old timestamps across a wrap (FIRMWARE_ARCHITECTURE.md:46) | if `millis()` wraps between line 561 and line 137, the poll sees no wrap (the first reading is UINT32_MAX) and none ahead (the second is 0), and a join or transaction of this turn runs on a node from before the wrap. The next poll sees it |

The second takes a poll on the very last tick and none in the guard interval before it: a
transaction that begins just before the interval and uses all of its budget, or a loop that
was held up. The run's clock makes that short, the code's constants make it rare; the steps
are the same.

HELLO_WORLD_TEST.md calls itself historical notes, and some of them do not hold of this
code: line 269 has a positive airtime wait clear the count of unavailable
uplinks (it is left), line 308 has a new join reset the mask of tried rates (only
a successful transaction does), line 248 has the retry backoff start at five
seconds and a join reset it (it starts at a minute, `retryFor` in `Scheduler`, and
a join leaves it), and line 121 has the log consist of complete lines (OFF in the
middle of a line drops its rest; `BegunLinesFinish` shows that nothing else does).
The models do as the code does, and no run is spent on them.

## 5. Fairness

- `Manager`: `appLoop` is called for ever, and time passes; an erase is tried
  whenever the loop reaches it. Nothing is assumed of the sensor or the flash.
- `RadioLifecycle`: the loop runs, and pauses end (one weak fairness of both, as they
  alternate). Errors may come for ever.
- `HistoryRing`: the worker finishes an append it has begun, and the main loop
  runs. New readings are not assumed.
- `Scheduler`: the loop runs and time passes; a transaction ends (RadioLib's
  calls are bounded); the handoff is strongly fair, as an airtime wait ends.
  `ReportsAreAttempted` assumes in its premise a radio that stays, a complete
  reading and no control traffic: the code promises nothing else, since replies
  go first.
- `SensorService`: both threads are scheduled, the loop polls either backend, and time
  passes; a confirmed reset is stepped. An EEPROM written again and again
  succeeds at some time (strong fairness of `Save`). Without it a calibration
  is never saved, in the code as in the model.
- `LogQueue`: the loop pumps, and the port becomes writeable.
- `BringUp`: the main thread goes on, as RadioLib's calls are bounded. Nothing is
  assumed of the crystal, the RTC, preemption or the pin.
- `functions` has safety properties only.

## 6. Proofs

Each proof module extends the module it is about and follows one plan: type
correctness, the facts that make the properties inductive, one lemma for each action
(or for each way through one), a lemma that joins them, and theorems of the form
`Spec => []Property`. The assumptions are those that the modules declare about their
constants; TLC evaluates them in every run. TLC has also checked each inductive
invariant on the instances of the runs.

**DevNonceProofs** proves, from `NonceAssumption` and `StoreAssumption`, each
invariant of run `dev_nonce` and the refinement of `NonceRegister`. That a nonce is not
sent twice depends on what the node, the buffer and the store hold in the middle of
every operation. `IInv` adds

- `ControlInv`: which phases, places and stores go together;
- `ReservationInv`: the durable bound is `gReservedNonceLimit`, except while a
  higher one is being saved, and the next DevNonce never passes it;
- `JoinInv`: the node's JoinNonce is the durable one, except while an accept is
  being saved, when it is greater;
- `SentInv`: everything sent is below both the node's next DevNonce and the
  durable bound (equal only in the uncertain moment after a transmission);
- `SessionInv`: every session that became usable has a durable JoinNonce.

The key argument: a transmission needs `devNonce < limit` with `limit` durable; a
restart resumes at the durable bound, which is above all that was sent; an uncertain
attempt skips to the bound; and only an authorised erase takes the bound back,
in a phase where nothing is sent any more.

**NonceJournalProofs** proves every property of run `nonce_journal` from
`JournalAssumption` and `NotRecords`: `MirrorMatchesFlash`,
`StalePageInterruptionRecovers` and the refinement of `NonceRegister`. With
`DevNonceProofs` the argument for "no DevNonce is reused" is closed from the flash
cells to the air. It has four layers.

- Numbers. Sequence numbers wrap, so `Newer` is no order. Seen from one number,
  `Age` is, as long as ages stay below half the span (`AgesCompare`).
- Pages. `Struct` is what every history leaves: numbers are distinct, an intent is
  newer than the data of its page, an activation matches it, and the other page is
  newer than both. `Window` bounds how far numbers lie apart. Losing or tearing
  records keeps both (`LostStruct`), which covers every interrupted erase.
- Scan. `Quiet` and `Pending` describe the pages of a journal at rest and during
  a reclamation, and `Good` is either. In it `Scan` finds exactly the place, number,
  intent and content it names (`ScanGood`). Conversely whatever the scan accepts after
  a factory erase cut short is `Good` (`SoundAfterReset`).
- Steps. `Appending`, `Authorising` and `Resuming` are the stages of a save.
  Each of their operations, done or interrupted, leads from a `Good` journal to
  another one with the old or the new content, or to one the scan refuses
  (`AppendingStep`, `AuthorisingStep`, `ResumingStep`).

`Ages` in `Quiet` was needed to make this inductive: a page takes a number from the
window with each record, and only a page nearly full is reclaimed, so the budget of
a page has to be tied to the slots already used. The attempt also showed that the
bound on factory resets is not for TLC's sake alone: without it, the mirror is exact
only until the numbers left behind are half the span old.

**ManagerProofs** proves every property of run `manager` and `AcceptedSettingsHold`
of `manager_live`, for any commands, codes and settings, and any size of queue,
cache and window. `LoopInv` says that a downlink is dispatched only while
the window is open, because `expireReset` runs again after the transaction;
`ChallengesCurrent` and `ConfirmedInTime` rest on it. `CacheInv` relates the
cache to the history: slot `cacheNext - k` holds the id applied k-th last. So an id
that misses the cache is not among the last `CacheSize` that were applied
(`AppliedOnce`), and what is applied has its answer in the queue or in the slot from
which a repetition replays it (`AppliedIsAnswered`). `StopInv` says which
confirmation a stopping node obeys.

**RadioProofs** proves `TimestampsAreSafe`, `HardwareStreakIsReal` and
`RestsAreWhole` from `RadioAssumption`. `WrapInv` is the argument of the code's
comment on rollover, with a tick between any two readings of the clock. A wrap since the
node was built shows, in the turn it came in, as a clock behind that turn's first reading,
and in the next poll as a first reading behind the one before; `~Interrupted` then leaves
only nodes made old after the first reading, and those calls are what
`straddled` records. The first reading must not be caught up with: a poll or a transaction takes at
most `Most` = `2 * Jitter + Guard`, and a turn with the pause after it stays below
`MaxPause + Jitter + 2 * Most`, which `RadioAssumption` puts below `Wrap`. A call
ends before the next wrap because the guard is the last thing read before it, and it lasts no
longer than the guard (`CallIsSafe`). `RestInv`
bounds the age that the clock shows by the time that has passed, at the clock and at the first
reading of a poll; a jump by more than a wrap would break it. `StreakInv` says
that the last outcomes are all of one kind, which is what a counter of errors in a row
means.

**ReportProofs** is about what is reported and how. Of the scheduler it proves
`FirstReportIsComplete`, `FixedSlotsAreKept` and
`IntervalFollowsTime` from `SchedulerAssumption`. The second needs `SlotInv`: in
Fixed mode a slot is owed, chosen or retried only when the last report is as old as the
settings say, also when the mode has just changed. The third needs `GrowthInv`: what
the interval may still grow by until the next evaluation is time that has passed
since the interval was set outright.

Of the wire it proves `UplinksAreUnderstood`, for any sets of samples, statuses and
requests and any record found in the EEPROM (`ConsoleAssumption` only says of what type
they are). Run `functions` tries readings at the ends of every range;
the theorem is about all of them. `ConsoleInv` says of the state that
the settings in force are valid and that what is on its way up was packed from a valid
sample or reply; each way to start or to answer a request keeps it, a
migrated record and a failed save included, and `SettingsValid` follows. The rest
is about single packets, in layers:

- Numbers and bytes. Bytes give back the number they were made of, signed or not
  (`Reads16`, `Signed`), rounding stays within half a step (`RoundedNear`), a mask of
  flags gives back each of them (`FlagIs`, `LowBits`, `HighBits`).
- Packets. A packet keeps its parts where it puts them (`EnvironmentParts`,
  `ReportParts`, `SensorParts`), so each of its bytes is known from the sample
  (`EnvironmentPacket`, `ReportPacket`, `SensorPacket`).
- Decoding. Both mask bytes agree with the sample on what is valid, and what is valid
  comes back within half a step (`ReadingsComeBack`, `EnvironmentUnderstood`,
  `AirUnderstood`). No check of `Decoder` rejects a packet of the node (`AirNotBad`).
- Displays. The console converts what the packet has left of a reading, and the serial line
  the reading itself. Both are roundings in the same unit, so their distance is that
  of the readings plus a step (`TemperaturesAgree`, `PressuresAgree`).
- Replies. The request's id and command came by radio and may be anything; the length
  and the fields that `Decoder` checks are right (`ReplyParts`, `ReplyReaches`).

**SensorProofs** proves `NewestExportIsKept` and `ErasedIsEmpty` of the worker and
`RawReadingsAreTimely` of the raw backend, all of the composed `ServiceSpec`.
A save that fails may destroy the newest record; `HandOverInv` says that the main
thread only saves what was newest when it took it, so that anything exported
since is pending. `StopInv` says that the worker has left its loop before an erase.
For the raw backend `UptimeInv` makes the summed uptime the true time of the last poll,
and `WaitInv` keeps the start of an awaited measurement within a wrap; both use
`RawAssumption` in the arithmetic of the two circles of time (`CircleIs`, `ElapsedIs`,
`WaitedIs`).

**BufferProofs** holds the proofs of both bounded buffers. Of the serial log it
proves `ReserveIsKept` and `BegunLinesFinish` from `LogAssumption`. `Kept` is a predicate on queues that every operation preserves:
lines in the order of writing, only the first partly sent, and no more than the reserve
leaves of those below WARN. The lemmas are about sequences and cardinalities:
removing a line keeps the order (`WithoutProperties`) and, if the line was below
WARN, makes room for one (`EvictKept`). That `Victim` exists is a least-element
argument: `LeastNat` gets it from the well-foundedness of the naturals.

Of the one-hour ring it proves `RingHoldsTheLastHour`, `WalksAreConsistent` and the
safety half of `ReadingsAreCovered` (`Noticed`) from `RingAssumption`. `RecordsInv` says that
ages grow strictly from record to record, and that none reaches a wrap before the next
prune, which is where `HistoryMs + MaxPause < Wrap` is needed; `LiveInv` then makes the young
records a prefix, so that `prune` finds it by dropping the oldest. `HeldInv` keeps that order when the
worker commits what it has held for a while: no record is younger, and one of the
same millisecond is refused as a duplicate (`AgeTellsApart`). `CommitMoves` is the index
arithmetic of a full ring: the slot written is the newest, and no other record that stays
is touched. `WalkInv` is about a walk whose generation is current: the records keep
their places and their order by the clock it started from, though some expire under it.

**BringUpProofs** proves both invariants of run `bringup`. `PinServesBothUses`, whatever
the clock check does, holds during a transmission and an open window because of
how each earlier step left the pin, which `PinInv` says step by step, for as long
as no call has failed (`StatusInv`).

`VerifiedIsAccurate` follows from `ClockAssumption`. It speaks of the verdict alone;
`WindowInv` says what makes it right while a window runs with a working crystal:
there are H hundredths and D ticks since the first sample that both counters show
(each on its circle), D is what HFRC does in as many steps up to half a span and an RTC
count (`Drift`), and the window is no longer than its polls and preemptions
(`Bounded`). `MeasuredIs` turns that into what the code computes: either the RTC's
difference modulo its wrap is H, or it is too short to end the window; and STIMER's
is D for every window that can be accepted. From a difference within the tolerance,
`AcceptedIsAccurate` scales down to the shortest window, which is the property's bound.
For the converse `Exact` follows a window that nothing disturbed: a right clock can
neither run out of polls nor miss the tolerance in it (`RightIsAccepted`), so each
window that `ChanceInv` counts as lost was disturbed. The attempt showed what the
earlier statement had left out: the property now allows for `SpanLimit` and for the steps
within a hundredth, and the bounds are tied together by an assumption.

What is left to TLC:

- Liveness under fairness, and ENABLED, which the prover does not handle.
- Properties of folded or sorted data, which need induction theorems that take an
  operator: `OnlySustainedChangesCount` and `ReadinessIsDebounced` of the statistics in
  `IntervalPolicy` (medians of sorted bins, a fold over readings), and
  `DownlinksAreUnderstood`, whose encoders concatenate the bytes of any number of
  changes. No module declares a RECURSIVE operator.

## 7. Not modelled

- The Bosch BSEC library, the BME68x driver, RadioLib's MAC and the Apollo3 HAL:
  external; their results are nondeterministic.
- SPI and timing of the radio HAL: stock RadioLib. Of the firmware's own
  layer all that touches DIO1 is in `RadioPin`; the check for a pad number
  out of range is not, as the number is a constant.
- `log1pf` of gas, CO2 and VOC before their statistics: `IntervalPolicy` works on
  the values that come out of it. Floating-point rounding in the medians: the
  grid is exact.
- The minute between two serial lines of readings and their text; message
  formatting of the log.
- Type checks of JavaScript and Python on malformed objects in the console: a
  request is one an operator can write.
- Settings and calibration share one emulated EEPROM page that a write erases:
  `Manager` and `SensorWorker` model one record each, and a power loss during a
  write of one damages only that one.
- A factory reset interrupted between its erases: the documents promise nothing
  (SOFTWARE_DESIGN.md:484); `NonceJournal` takes the step without a property.
- Anchors older than 2^32 ms in the scheduler: a delay of one interval at most.
- The drop counters of the log and its hexadecimal dumps.
- Tests, build tools, reference sketches and data sheets.
