# A formal model of kutsu

kutsu places outgoing phone calls for a language model: an MCP client asks for a call, an engine
queues and dials it over SIP, and while the callee is on the line a Gemini Live session talks to
them. This directory holds TLA+ modules of that program, configurations that TLC checks on small
instances, and theorems that TLAPS proves for all values of the constants.

`src/...` paths below start at the repository (`src/src/engine.rs` is its `src/engine.rs`).
`PROJECT.json` says which lines each definition models, which runs check what, which hazards of
the code each property is for, and what the counterexamples show.

Parse with `tlasany M.tla`, check a run with `tlc -config X.cfg M`, prove with `tlapm M.tla`.

## 1. The system

| Component | State | Operations | Hard behaviour |
|---|---|---|---|
| **Call engine** (`engine.rs`) | call store, pending queue, cancel map, slot counter, `Notify`, breaker, counters: all shared | `place_call`/`place_call_at`, the dispatcher loop, one `run_call` task per attempt, `requeue` after busy, `end_call`, the `CancelGuard` and `RunningGuard` destructors, `finalize_call`, shutdown | each operation is several critical sections; tasks interleave between them; wakeups can be lost; guards run late or during a panic |
| **Pending queue** (`queue.rs`) | `BTreeMap` keyed by (due time, id *string*) | push, pop_eligible, remove, peek | ties break by string, so `call-10` goes before `call-9` |
| **Call store** (`state.rs`) | bounded map of `CallRecord` | insert, set_state, finalize with eviction | a record may vanish between two steps of the task that owns it |
| **Dispositions** (`state.rs`, `sip/outcome.rs`) | none | `resolve_disposition`, `outcome_from_status` | precedence of cancel, SIP outcome, amd verdict, shape |
| **Circuit breaker** (`breaker.rs`) | failure count, open-until, probe flag and deadline | `decision`, `mark_probe_dispatched`, `on_result` | decision and mark are two lock holds; reports arrive in any order, or never |
| **Network preflight** (`net_check.rs`) | none kept | rounds of probes of the Gemini endpoint, bounded by a window | races the cancel of its call and the breaker's probe deadline |
| **Gemini driver** (`gemini_live.rs`) | connection, deferred end, transcript accumulator | connect, forward text/audio/turns, `end_call` tool, flush and report the outcome | the goal is held back until the goodbye has been spoken |
| **Audio bridge** (`bridge/mod.rs`) | pacer, harvest flag, uplink task, published activity | forward, pace, harvest, mute, cancel | lives on its own thread and learns of a hangup separately from the engine |
| **Call session** (`engine.rs`, `run_call` from the answer on) | loop state: goal, harvesting, wrap-up nudge, abort reason | the 9-arm `select!`, then drain, hangup, stop, join, finalize | three ends of one call (callee, session, model) race; teardown waits on two tasks |
| **Downlink pacer** (`bridge/pace.rs`, `resample.rs`) | ring of samples, playout flags, filter phase | prefill, frame, interrupt fade, turn edges | barge-in and turn changes between two frames; a partial frame |
| **Audio DSP** (`agc.rs`, `g711.rs`, `resample.rs`, `vad.rs`, `audio_file.rs`) | gain, noise floor | gain control, speech onset, codec | the gain moves under the detector |
| **Call watches** (`engine.rs`, the quality tick) | loss window, streak, nudge | underrun, uplink, downlink and silence checks | counters published by other threads, reports that stand for seconds |
| **SIP transport and calls** (`sip/*.rs` but statistics) | thread, command channel, dialogs, registration | start, place, answer, hang up, shut down | a hangup, a vanished caller or a shutdown in any phase of a leg |
| **RTP statistics** (`sip/uplink.rs`, `downlink.rs`) | sequence cycles, published report | per-packet accounting | 16-bit wraparound, duplicates, relaxed publishing |
| **MCP server** (`mcp.rs`, `mcp_http.rs`, `main.rs`) | one task per call | tools, task watcher, TTL, cancel, teardown | the watcher polls a record that may be evicted; TTL versus queueing time |
| **Config, CLI** (`config.rs`, `main*.rs`, ...) | none | parsing | none |
| **Vendored SIP core** (`vendor/`) | | | third party |

How they interact. A producer (an MCP tool or a busy retry) inserts a record, pushes an entry and
notifies. The one dispatcher scans under the queue lock: while a slot is free and the breaker does
not hold, it pops the first due entry, registers a cancel sender, takes a slot and spawns
`run_call`; otherwise it parks on the `Notify` and on a timer. `run_call` runs the preflight
(reporting to the breaker), dials, waits for the ring to end, and either requeues a busy call or,
once answered, starts bridge and driver and enters the session loop. Bridge and driver talk through
bounded channels; the bridge reports to the loop; the SIP leg sends events to the loop and closes
its audio channels towards the bridge. `end_call` removes a pending entry, or takes the registered
sender and signals the task. At the end the task finalizes the record (bumping a counter, evicting
old records), writes it to the transcript directory, and its guards drop the cancel entry, free the
slot and notify the dispatcher.

What makes each part correct:

- *engine*: no call is lost, dialled twice at once or finalized twice; slots are neither leaked nor
  invented; the dispatcher never sleeps through work; whoever can be cancelled is reachable by
  `end_call` and nobody else is cancelled; a cancelled call stays cancelled; every call ends.
- *breaker*: half-open lets no more through than one probe a cooldown (the comment says one at a time,
  which the defaults do not keep); every hold ends, even if its probe never reports.
- *dispositions*: "completed" needs evidence; our own error is not an announcement.
- *session*: the driver's goal and transcript reach the record; a hangup after a conversation is
  harvested to its end; no circular wait in the teardown.
- *driver*: somebody speaks first; the greeting never talks over anyone; what was said is written;
  `end_call` ends the task; it keeps the contract the session relies on (`SessionDriver`).
- *SIP transport*: `place_call` always resolves; a leg nobody wants any more ends; a callee who has
  picked up is not called again.
- *watches*: only a line that is bad now, losses that the callee's samples have shown without a break,
  or a silence that lasts, ends a call.
- *pacer*: a counted underrun is a real dropout; only a tail is held back; each frame is whole (part
  of its type invariant, as the decimator's phase is state).
- *levels, codec, statistics*: a steady line that seeds its own floor is not speech, one that comes
  after the silence of a ring is by its level alone, a speaker is; the codec stays within its step;
  losses are counted exactly, over wraps.
- *MCP task*: it tells what its call came to, is not swept under a conversation without need, and
  settles.

## 2. Modules

| Module | What it is | Code |
|---|---|---|
| `PendingQueue` | queue values and operations; `KeyRank` is the string order of ids | `queue.rs` |
| `Breaker` | the breaker's `State` and its three operations | `breaker.rs` |
| `Disposition` | `resolve_disposition`, `outcome_from_status` | `state.rs`, `sip/outcome.rs` |
| `CallEngine` | the engine as interleaved tasks; uses the three above | `engine.rs`, `state.rs` |
| `MCCallEngine` | values of the constants of `CallEngine` | |
| `CallService` | abstract: what the engine promises about each call | `engine.rs`, `state.rs` |
| `ProbeGate` | breaker, dispatcher and preflights only, for any number of slots | `breaker.rs`, `engine.rs`, `net_check.rs` |
| `SipTransport` | the SIP thread, its commands and the loop of each leg | `sip/mod.rs`, `sip/call.rs`, `sip/register.rs` |
| `CallResult`, `MCCallResult` | `run_call` as the caller of that transport, down to the disposition | `engine.rs` |
| `CallSession` | one answered call: loop, teardown, driver, bridge, SIP leg | `engine.rs`, `gemini_live.rs`, `bridge/mod.rs`, `sip/call.rs` |
| `SessionDriver` | abstract: what a Gemini task promises to whoever joins it | `gemini_live.rs` |
| `GeminiDriver` | that task in detail: every arm of its loop | `gemini_live.rs` |
| `McpTask` | `place_call` as an MCP task, over `CallService` | `mcp.rs`, `main.rs` |
| `CallWatch` | the watches of the quality tick | `engine.rs`, `sip/downlink.rs` |
| `NetCheck` | preflight probe, verdict, retries, window | `net_check.rs`, `engine.rs` |
| `Pacer` | the downlink pacer and the decimator's phase | `bridge/pace.rs`, `resample.rs`, `bridge/mod.rs` |
| `RtpStats` | loss accounting of the uplink | `sip/uplink.rs` |
| `UplinkLevel` | gain control and speech detection | `bridge/agc.rs`, `vad.rs` |
| `G711` | the two companding laws | `bridge/g711.rs` |
| `MCMedia` | the last six together | |
| `MCParts` | `MCMedia`, `McpTask` and `ProbeGate` side by side, for TLC | |
| `CallEngineProofs` | theorems about `CallEngine`: types, owners, slots, wakeups, cancels | |
| `CallEngineRefinement` | theorems: it implements `CallService` and `ProbeGate`; transcripts | |
| `ProbeGateProofs`, `CallResultProofs`, `CallSessionProofs`, `GeminiDriverProofs`, `McpTaskProofs` | theorems about these modules | |
| `MediaProofs` | theorems about `MCMedia` and its parts: `RtpStats`, `CallWatch`, `Pacer`, `NetCheck`, `UplinkLevel` | |

`CallEngine` implements `CallService` (the mapping: a record's state, or "unknown"/"forgotten" when
the store has none, is the phase; the attempt whose task can still write the record is the driver;
live `RunningGuard`s are the channels). It also implements `ProbeGate` with a slot per attempt (the
gate's "claimed" is an attempt between its claim and `mark_probe_dispatched`), so the proof about
probes carries over wherever its assumption on preflight lengths (`Timely`) holds.
The phase "live" of `CallEngine` is what `CallSession` details; the set `LiveResults` of the first
stands for the records the second can end with. `McpTask` EXTENDS `CallService`, so it holds of every
engine that implements it. `CallResult` EXTENDS `SipTransport` and `Disposition`. `GeminiDriver`
implements `SessionDriver` (the property `KeepsContract`): it returns once, with all the text said
since the last flush written and every role that spoke in the transcript, and with the arguments of the first `end_call` if and only if it returns because of it.
That is what the driver in `CallSession` does too, in fewer steps: it implements `SessionDriver` as well
(`SessionKeepsContract`), so what the session relies on is what the detailed driver provides.

### CallEngine

One action per critical section: what the code does under one lock hold or one atomic is a step,
and everything between two of them is a point where other tasks run. Each attempt is a task
`<<call, attempt>>` with its control point in `pc`.

| Code | Actions |
|---|---|
| `place_call_at` (insert, push, notify) | `PlaceInsert`, `PlacePush`, `PlaceNotify` |
| the dispatcher | `DispatchClaim` (scan under the lock), `DispatchMark`, `DispatchSpawn`, `DispatchBreak`, `DispatchPark`, `DispatchWoken` |
| `run_call` up to the answer | `PreflightUsable`, `PreflightUnusable`, `PreflightCancelled`, `InviteSent`, `DialFailed`, `RingTerminated`, `Answered` |
| `requeue` | `RequeueMark`, `RequeuePush`, `RequeueNotify` |
| `run_call` from the answer | `LiveCancelled`, `LiveOver`, `LiveFinalize`, `LivePersist` |
| destructors | `DropCancelGuard`, `DropRunningGuard`, `NotifyReleased` |
| a panic in `run_call` | `Panic`: straight to the destructors |
| `end_call` | `EndPending`, `EndPendingFinalize`, `EndDispatched` |

`rx` is the receiving half of each attempt's cancel channel: open, signalled, or closed because its
sender was dropped, which the code treats like a signal. That is why the cancel map holds the
*attempt* whose sender it has. `wake` is the single permit of `tokio::sync::Notify`.

A task that panics never finalizes its call: the record stays as it is for ever. The properties say so
(`crashed` in `OneOwner`), and `EveryCallEnds` is checked without panics; to `CallService`
such a task is one that abandons its call (`Abandon`), which the run of `ImplementsService` leaves out
and its theorem includes.

Left out: record fields that no control reads, the queries (list, metrics, queue position),
`shutdown` (it consumes the engine, and the process ends), and the `Err` arm of
`gemini_live::start`, which cannot fail. History variables (`acked`, `crashed`, `probes`, `since`)
are read by properties and by `Timely` only.

### CallSession and CallWatch

One step is one arm of a `select!`, or one statement of the teardown. A channel is a sequence;
closing is derived from the tasks that hold its ends. Buffered audio is one bit (`busy`), a goal is
its amd verdict, a timer that the properties do not compare with another may elapse at any time.
Two timers are compared: the harvest grace of the bridge is seconds long, so `GraceElapses` waits
until the engine has seen the leg end and while the driver still runs (channel hops take
microseconds). Assumed: channels have room, and a text delta is not blank. Left out: audio towards
the model and the text cues (`GeminiDriver` has those), live transcript and affect entries.

`CallSession` says of the quality tick that it may abort or nudge; `CallWatch` says when. Its second
has three beats: packets, words and reports come; the SIP thread samples the callee's latest report;
the tick runs its gates in their order. The tick may see the report sampled a second before, or, at
the first report of a call, the flag without its values (`Snapshots`): two timers and relaxed
atomics. `lostBy` is history: what the line had really lost by each tick of the window, which the
published counters show only once a later packet arrives. How often the callee reports is the callee's affair:
a report may stand for ever and is sampled again each second, as `stats().remote` is. `fairAt` and
`soundAt` are history: the second of the last sample that was not bad, and of the last two in a row.
Assumed: a constant packet rate without reordering (`RtpStats` has that), and in `MCMedia`
one kind of trouble per behaviour, for the gates share nothing but their order.

### GeminiDriver

One action per arm of `run_driver`, with the phone, the engine and the crate's session around it.
`greetTimer` and `endTimer` are off, running or due. `hist` is history: what was said, greetings, and
whether words of the callee were lost to a reconnect
(`owed`, `turned`, `lost`). Frames that queued up during an outage are
drained at every reconnect, with or without context (`gemini_live.rs:376-379`); the code drops them on
purpose, as stale. Words in them reach no session, set no `owed`, and `LostOnlyAfterFirstTurn` does not
count them as lost. Speech detection reports one onset per call, as `Vad::observe` does; `UplinkLevel`
says when. The AMD probe only writes a log line.

### SipTransport and CallResult

The thread binds, registers, and serves commands; each leg is a task of its own. `task` is the point
of `call::run_call` that a leg waits at, `reply` the oneshot of `place_call` ("unwanted" when the
caller has gone), `hup` the hangup oneshot (dropping it is a hangup). What the ezk stack returns is a
choice. `CallResult` adds the engine's `run_call` and what it records: a set per call, so that a
second result would show. The result of a session is one of `SessionResults`.

### McpTask

A tick is 10 s. `task` is what the client sees, `watcher` where the task's future is: polling, between
seeing a terminal record and fetching it, or done. TTL sweep, polling and asking the future to stop
are rmcp's and external. `signal` is the cancel sender of the live attempt, `Evicted` the records a
bounded history loses. The teardown of `run_mcp` ends all calls and may exit before they are over.

### The media path

`Pacer` counts samples; a tick is `next_frame`, an event one arm of the bridge. `UplinkLevel` takes a
frame to be its RMS and computes gain and floor in thousandths; it starts with the silent keepalive
frames of `ring_wait`, which reach the detector without passing the gain control. `NetCheck` has one
action per probe: every outcome of every ping, then summary, verdict and retry. `RtpStats` carries
the sender's own packet numbers as history. `G711` is evaluated sample by sample, all 65536 of them. These parts share
no state, so `MCMedia` picks one per behaviour and their state spaces add up instead of multiplying.
`MCParts` does the same with `MCMedia`, `McpTask` and `ProbeGate`, which share none either.

## 3. Runs

| Run | Instance | What it shows |
|---|---|---|
| `EngineSafety` | calls 9 and 10, 1 slot, 2 attempts, retry delay 1, history 1, breaker off | types, one owner, cancels reach their call, no transcript lost; implements `CallService`, so no call is finalized twice |
| `EngineBreaker` | 2 slots, 1 attempt, threshold 1, cooldown = window = 2, panics | slot accounting and wakeups with a breaker and unwinding tasks; implements `ProbeGate` |
| `EngineLive` | 1 slot, breaker with cooldown 1 below the window 2, fairness | every placed call ends, if rings end and no task panics |
| `CallResult` | 2 legs, registration, room for 2 commands, 6 statuses at the edges of their ranges, fairness | results match the line; every `place_call` and every unwanted leg ends |
| `CallSession` | grace and nudge on, goal "voicemail", 8 s call, 2 model events, fairness | goal, transcript and harvest through every race; the teardown terminates |
| `GeminiDriver` | greeting on, one goal, fairness | greeting, reconnect, transcript and end of the task; implements `SessionDriver` |
| `Parts`, media | see below | preflight, pacer, loss accounting, level, watches, codec |
| `Parts`, task | calls 1 (a task) and 2, 1 channel, 2 attempts, history 1, deadline 10 s, margin 20 s, fairness | what a task tells, when it is swept, that it settles |
| `Parts`, gate | 3 slots, threshold 2, cooldown 2 below the window 3, time to 10, fairness | probes a cooldown apart; every hold ends |

The type invariants of `CallResult`, `CallSession`, `McpTask` and `GeminiDriver` document the ranges
of their variables; the runs spend their time on the other properties. Those of `CallEngine` and of
the media modules are checked, because arithmetic could break them.

These seven pass. The other five are expected to find a counterexample, each to one sentence of the
repository's own documentation (section 5). `Parts` is one run of three parts that share no state:
a behaviour moves one of them (`side`) and the others stay as they began, so nothing is gained or lost
against three runs. `GateDefaults` has the default cooldown and window in units of 15 s (4 and 5, for
60 s and 75.6 s), `NoisyReport` the downlink gate with its 5 ticks and the other watches off.

Why the bounds are enough. Two calls are needed to contend for one slot or one history place, and
two attempts for a retry to meet its predecessor's guards; a third of either adds no new kind of
meeting, since all interaction is through the slot counter, the head of the queue, and per-call
state. The calls are 9 and 10 because that is the first pair whose string order differs from their
numeric order. `MaxHistory` 1 makes a record vanish while its task still runs. `IdleHorizon` stops
the clock only when no deadline lies ahead. The gate needs three slots: one preflight that trips
the breaker, one begun before the trip that reports late, one probe and its rival (slots are
reused); its cooldown is below the window, as by default, so that probes do overlap. Two model events are a text and a turn end, or an audio and a turn end; with `end_call`
and the goodbye that is the shortest call in which every race of the loop occurs. The call is
8 s long so that a lost transcript would be misread as an announcement.

Two legs fill the command channel and let one be served while the other is queued behind a shutdown.
In `McpTask` the margin is twice the drain, so that a call answered in the first tick has time and
one answered later has not; the second call takes the channel and the history place of the first.
The driver needs no bound: its history is capped at what the properties ask.

The media parts: `NetCheck` has 4 pings of three round trips (good, at the jitter limit, late) or none, three
attempts, and connects at either end of their 5 s. `Pacer` gets 4000 samples in chunks below,
at and above a frame, with a prefill (40 ms) that is not a multiple of the refill (30 ms): four
frames, two turns, one barge-in fit. `RtpStats` has a space of 8 and a reach of 3, so six packets wrap
it, and the theorem covers the rest. `UplinkLevel` has lines on both sides of the 200 RMS limits and
80 frames of them, long enough for the gain to settle within a thousandth. `CallWatch` has a window of
8 and 10 ticks, losses of none, 30 % and all packets of a second, the code's 5 bad ticks, and a nudge
after 4 s and a grace of 3 s; a report may come in any second or in none. `G711` is not sampled: the run goes through every 16-bit sample and every byte, in
both laws, so `CodecIsFaithful` is exhausted.

Deadlock checking is off: every instance really may stop (all calls over, nobody dials again; the
gate at the end of its clock; the session finalized; the transport shut down; the server down; a
media part at its bound). That nothing stops early is what the liveness properties say.

### Fairness

- *engine*: tokio keeps scheduling every task the engine owns, the clock runs, a preflight ends, and
  a session ends (`max_call_secs`). Nobody is obliged to place or end a call. `RingsEnd` is separate
  because the code does not see to it: `ring_wait` (`engine.rs:786`) has no deadline and ignores
  `end_call`, so a far end that rings for ever holds its call and its slot for ever. `EveryCallEnds`
  is therefore relative to callees or registrars that give up some time.
- *gate*: the clock runs, the dispatcher marks, a preflight ends. That it ends *within its window*
  (the guard of `Tick`) is an assumption: `net_check.rs` allows 5 s of the window for each connect
  but puts no timeout on it. `HoldEnds` is relative to connects that keep to that margin.
- *session*: tasks and the bridge thread are scheduled, a connect ends one way or the other, the
  graces elapse and the drain is capped (8 s). Nothing is assumed of the model, the callee,
  `end_call` or `max_call_secs`; `SessionEnds` therefore says what happens once the callee is gone,
  the driver has returned or `end_call` was called.

- *SIP transport*: its thread serves commands and its tasks run; an INVITE is answered or times out
  below, media negotiation has its 10 s. That a *ringing* phone is ever picked up or refused is not
  assumed, and a hangup is not heard before: `HangupEnds` holds because the INVITE's own timeout or
  answer is an action of the leg's task. Nothing is assumed of hangups and shutdowns.
- *driver*: an arm of the `select!` that stays ready is taken in the end (its polling order is
  random), its timers elapse, a connect ends. Nothing is assumed of model, callee or engine.
- *MCP task*: time passes, a watcher that can go on is polled, rmcp sweeps, and a conversation past its
  deadline ends. Nothing is assumed of callee or client, nor that a ring ends: the sweep settles it.
- *pacer*: its 20 ms ticker fires; the other media parts have safety properties only.

## 4. Proofs

Each theorem holds for all values of the constants that satisfy the named assumptions of the modules
(`EngineAssumption`, `KeyAssumption`, `BreakerAssumption`, `SipAssumption`,
`ResultAssumption`, `SessionAssumption`, `DriverAssumption`, `TaskAssumption`, `RtpAssumption`,
`WatchAssumption`, `PacerAssumption`, `NetCheckAssumption`, `BudgetAssumption`, `LevelAssumption`).
They give the constants their types and otherwise only require what the code has: at least one attempt,
ids that are distinct, room for one command, a history of one at least for a task's record
(`TaskAssumption`), packets within half the sequence space, answers within their budgets, a gain that
may reach one. Some theorems need a hypothesis of their own, named where they are listed below with
what the shipped defaults make of it: they satisfy each but `NoOverlap` of the cancel map and
`LongCooldown` of the gate's corollary, and where they do not, a run has the counterexample. Only the
premises on how long a connect takes (`PromptConnect`, `Timely`) are decided by no setting: the code
gives a connect no timeout.

The invariants were checked by TLC before they were proved. None of the properties is inductive but
the ranges; what has to be added, and why, is the content of the proofs.

**CallEngine** (`CallEngineProofs`). `EngineInvariant` proves `EngineInv`:

- `TypesHold`: `TypeOK`. It needs `RetryBound` (a task in requeue has an attempt left): without it the
  type of the next queue entry is not preserved.
- `SlotsNeverLeak`: `SlotAccounting`. The counter equals the number of live guards and stays within
  the cap; the proof also carries that the holders are finitely many, since calls need not be.
- `OneOwnerAlways`: `OneOwner`. To claim an entry one must know that no task drives its call
  (`QueuedNotDriven`), that the attempt it starts was never started (`FreshEntries`), and that the
  queue has one entry of the call (`OneEntry`); a requeue needs the same of later attempts
  (`FreshRetries`); a producer needs a call nobody has seen (`NotYetQueued`); `end_call` needs its
  call to be in no other hand between removal and finalize (`CancellingAlone`). Their conjunction is
  `Exclusive`. `OwnedUntilOver` ties hands to records.
- `WakeupsNeverLost`: `NoLostWakeup`. The dispatcher chooses its timer from a scan that is stale by the
  time it sleeps. `ParkJustified` says what the scan still means: either someone has rung or is about
  to (`Rung`), or there is no slot, or nothing can be dispatched at any instant before the timer
  (`NothingSooner`), which for the breaker means that it holds at every instant before the end of the
  hold that was read (`HoldStands`).
- `CancelsReach` (`CancelReachable`) and `CancelsAreAskedFor` (no call is recorded as cancelled that
  nobody ended) need `NoOverlap`: one slot, or one attempt per call. With neither the second is false:
  `EngineSpuriousCancel` is the counterexample, and the hypothesis is exactly what it violates. The
  invariant ties each registered sender to the attempt whose guard is alive (`SenderOfGuarded`,
  `GuardedHasSender`), which is what `CancelGuard::drop` silently relies on.

Actions that only move a task within one class of control points share `MoveKeepsExclusive`,
`DriveStep` and `AfterStep`; those that finalize share `FinalizeStep`.

**CallEngine implements its abstractions** (`CallEngineRefinement`).

- `EngineImplementsService`: `ImplementsService`. `ServiceInv` adds to `EngineInv` what records say
  (`RecordInv`): a driven call has the state of its task's control point, a queued one is queued, and
  the attempts dialled so far are the first n. Each engine step is then one step of the service or a
  stutter. A task that panics is a step of its own (`Abandon`).
- `TranscriptsAreKept`: `TranscriptKept`. A call that is over stays over because the service says so;
  so the calls that are over only grow, and a record is evicted only when more of them have ended than
  the history keeps (`HistoryInv`).
- `EngineImplementsGate`: `ImplementsGate`, where preflights keep to their window (`Timely`) and for
  any cooldown. `GateLink` says that the dispatcher has one attempt in hand between claim and spawn,
  owes a mark exactly while `probeAt` says so, and that nothing of a preflight outlives it. The bound
  of the gate's clock appears as the premise `[](now <= GateHorizon)`; `GateHorizon` is any number.

**ProbeGate.** `ProbesKeepApart`: `ProbesAreSpaced`, for every cooldown and window, the latter
positive (`WindowIsPositive`; the code adds 15 s to it). A report may clear the flag of another's probe,
but a failed one also trips the breaker anew, and a successful one closes it: `GateInv` says that while
the breaker is open or half-open without a probe, the next one is a cooldown away from those that are
out (`HeldOff`). `TwoProbesAtMost`: with a window of at most two cooldowns, as by default, three probes
never overlap. `SingleWithLongCooldown`: one at a time where the cooldown is at least the window
(`LongCooldown`), which **the defaults violate** (60 s against 75.6 s): `GateDefaults` is the
counterexample. Together with `EngineImplementsGate` all this holds of the engine's own `probes`.

**CallResult.** `ResultsHaveEvidence` and `RefusalsAreUnanswered`. What `run_call` records it reads from
an event that the leg's task queued earlier, so `ResultInv` says what a queued event still means when
it is read (`EventsMean`): after "answered" the callee has picked up, after a refusal the task is dead
and never picks up. That it stays dead needs that a command is served once (`DialledOnce`).

**CallSession.** `GoalsAreRecorded`, `HangupsAreHarvested`, `HarvestsComplete` for all goals and lengths.
`SessionInv`: an event on its way to the engine claims only what the driver has said (`GoalHeld`); a
bridge that gave up on the phone while the engine still loops did so when the engine had taken the
hangup (`HangupSeen`), which is what decides the race of the two channels. `SessionKeepsContract`: each
step of the session is one of `SessionDriver` or leaves the driver's part alone; of the invariant only
the types are needed.

**GeminiDriver.** `FirstTurnIsNeverLost`, `GreetingsGoIntoSilence`, and `DriverKeepsContract`: it
implements `SessionDriver`. `DriverInv`: while the task runs, what was said is in the transcript or in
the accumulator (`WordsKept`); whatever forbids the greeting is remembered in what its guard reads
(`GreetingDue`); until the first turn ends, `resume_needed` remembers the callee (`ResumeDue`).

**McpTask.** `TasksTellResults` and `SweptOnlyAfterLongWait`, over any engine that implements
`CallService`. `TaskInv`: a call has a result from its end on and keeps it (`ResultMeansOver`), a watcher
fetches only what is over (`FetchMeansOver`), and while a call is talked on its task ages no faster
than the call and its wait together (`ClocksAgree`).

**RtpStats.** `NewestIsTracked`: the extended maximum is the sender's own number of the newest packet
(`MaxIsNewest`). The step is the code's case split on where a packet lies, forward or backward, with or
without a wrap; `ModUnique`, `WireOf` and `ForwardOf` do its arithmetic once. `LossesAreCounted`:
`LossIsExact`, which adds that the arrived are finitely many, no more than were received, and none
beyond the newest (`LossInv`).

**CallWatch.**

- `ResumedCallsGoOn`: `ResumedCallGoesOn`. That a finalize comes nudge plus grace after the last words
  needs that a pending nudge came in the silence that still lasts (`NudgeInSilence`), that the engine's
  clock of silence is the true one (`ClockOfSilence`), and that the downlink is muted by a nudge and
  with it only (`MutedByNudge`).
- `DownlinkGateJudgesNow`: `DownlinkGateIsCurrent`, without a hypothesis on how often the callee reports.
  A tick sees the last sample or the one before; it counts only if one of them is bad, and fails to
  count only if one of them is not. So `StreakInv` bounds the streak from above by the time since
  `soundAt` and from below by the time since `fairAt`, but for a tick.
- `UplinkGateJudgesNow`: `UplinkGateIsCurrent`, where the loss of one whole second is a breach on its own
  (`SecondIsBreach`; with the code's window of 8 and 50 packets a second: a limit up to 14 %; the
  default is 10 %). Published counters and truth differ by a silence nobody has heard the end of; the
  gate is right because a line that was silent at the window's first tick was ended a tick before, or
  is silent still (`HeadStillSilent`). `LineUp` relates the two windows entry by entry. The hypothesis
  is the boundary: see section 5.

**Pacer.** `UnderrunsAreHeard`: `UnderrunsAreDropouts`, from `PlaysItsTurn` (playout that goes on in a
turn began in it). `FramesAreWhole`: whatever the phase a frame begins in, one sample of three makes
160, and the phase is the same after it.

**NetCheck.** What a preflight takes is a sum over pings and over retries, for any number of either.

- `PreflightsKeepTheirWindow`: `WithinWindow`, where connects end within 5 s and a ping is configured
  (`PromptConnect`). `WindowInv` says what the rest of the loop may still cost (`Covered`): the time
  spent, the pauses and the probes that are left stay within the window. `CheckTypesHold` comes from
  the same invariant.
- `LoneSpikesAreForgiven`: `LoneSpikeIsForgiven`, with at most twelve pings (`FewPings`). `VerdictInv`
  keeps the verdict equal to what `summarize` computes of the probe; the rest is where the percentiles
  of a sorted sample lie (`Quantile`). The hypothesis is the boundary: see section 5.
- The sums need induction, and the library's induction theorems take an operator. `Induction` states it
  for *sets* of numbers instead and proves it from the pigeonhole principle of `FiniteSetTheorems`: if
  some number were missing, the predecessor would map the missing ones up to it, a finite set, one to one
  into a smaller set.
  `SetInduction` carries it to finite sets. From it follow that the table behind a fold exists and is
  unique (`TableExists`, `TablesAgree`), hence that `SumFunction` is 0 on no entries and otherwise an
  entry plus the rest (`SumEmpty`, `SumFirst`), is natural, and is bounded by its entries
  (`SumIsNat`, `SumBounded`).

**UplinkLevel.** For every detector whose first frame seeds the floor and whose ratio exceeds one
(`DetectorSeeds`):

- `SteadyLinesAreDecided`: `RingSilenceDecides`, on every line that the silence of a ring comes before,
  and on every line below the gain control's noise floor, where the least level is not above that floor
  and lies below the target, a rounding apart (`RingSeeds`; by default 200, 200 and 4125). After a ring
  the floor is at nothing (`RingInv`): below the least level the gain is held and no frame counts; at
  it the floor never moves and every frame counts, for the gain may turn the line down but not below
  that level (`LevelStaysCarried`, `CarriedIsLoud`). Without a ring, `QuietInv`: the gain of a quiet
  line is one until somebody speaks and the floor exactly the line's.
- `SpeechIsHeardOnQuietLines`: `SpeechIsHeard` on lines below the noise floor, if the target lies above the
  least level and above `Ratio * NoiseFloorRms`, a rounding apart (`TargetStandsOut`; with the defaults,
  above 633, and it is 4125). The gain may fall during the onset, but no further than to where the speaker
  is at the target or as loud as at the trunk.

**The composition.** `MediaTypesHold`: `MediaTypeOK` of `MCMedia`. A behaviour of the composition is one of each part
(`PartsRun`), so each part's ranges hold in it; those of the gain and the watches are `LevelTypesHold`
and `WatchTypesHold`.

Only model-checked, and why:

- liveness (`EveryCallEnds`, `HoldEnds`, `PlaceResolves`, `HangupEnds`, `SessionEnds`, `TaskSettles`,
  `SilentCalleeIsGreeted`, `EndCallEnds`, `OnlyTailIsHeld`): out of this prover's reach;
- `RingSilenceDecides` on lines that the gain control lifts and no ring silence comes before, and
  `SpeechIsHeard` on lines that it lifts: there they hold for the tuned constants of both filters, not for
  all; the run goes through the levels;
- `CodecIsFaithful`: it has no constants to generalise over, and the run evaluates it for every sample
  and every byte, so TLC has decided it;
- the ranges of `SipTransport`: `CallResult` proves of them what its theorems need.

## 5. What the counterexamples show

1. `EngineSpuriousCancel`: with two slots and a short retry interval, the guard of a busy attempt
   removes the cancel sender of its own retry, and the retry is recorded as cancelled though nobody
   ended the call (`engine.rs:667`, against the comment at `:658`).
2. `EngineRedial`: `end_call` returns true for a ringing attempt, the attempt ends busy, and the
   call is dialled again (`engine.rs:966`).
3. `SessionGoalLost`: after the model's `end_call`, a hangup during the goodbye loses the goal
   (`gemini_live.rs:472`).
4. `GateDefaults`: "a single half-open probe" (`breaker.rs:2`) is not kept with the shipped defaults,
   `cooldown_ms` 60 000 (`config.rs:152`) and a preflight window of 3 x (11 x 1200 + 2000 + 5000) +
   15 000 = 75 600 ms. A slow preflight is under way when others trip the breaker; after the cooldown the
   probe goes out; the slow one fails, clears the probe's flag and trips anew (`breaker.rs:84`); 60 s
   later, with the first probe still in its 75 s, a second one goes out. What is left of the promise is
   `ProbesAreSpaced`.
5. `NoisyReport`: one noisy report ends a call (`engine.rs:1302`, against `:66-67`). The streak counts
   ticks, the sampling repeats a report until the next one comes, and nothing bounds how long that takes;
   RTCP's usual interval is 5 s, which is `DOWNLINK_BREACH_TICKS`. What is left is
   `DownlinkGateIsCurrent`.

A disagreement that a *passing* property states: after the silence of a ring, which every call that
rings sends to the detector (`ring_wait`'s interval ticks at once, `engine.rs:790`), a steady line of
200 RMS or more is taken for the callee on its third frame, and the greeting is suppressed.
`RingSilenceDecides` says so with "exactly if"; `vad.rs:4-8` says that a jump from an established
baseline counts and "not absolute loudness". The test `steady_loud_background_no_false_fire`
(`vad.rs:167`) feeds a fresh detector, that is, the case without a ring.

Properties that hold with a condition the code's comments do not name:

- `WithinWindow`, on which the gate's properties rest, needs connects within 5 s, for the connect has no
  timeout (`net_check.rs:104`), and at least one configured ping, for the window counts none where the
  probe sends one (`net_check.rs:83`, `:119`).
- `LoneSpikeIsForgiven` needs at most twelve pings (the default is ten, `config.rs:141`): from thirteen
  answers on the 95th percentile of the trimmed sample is its slowest but one, and a second late answer passes
  (`net_check.rs:264`, against `:406`, "only one is trimmed").
- `SweptAfterLongWait`: a task outlives its TTL when the call was answered later than the margin
  allows, queueing, ringing and retries counting (`mcp.rs:291`, against `:287`).
- `SilentCalleeIsGreeted` excepts sessions that were reopened, also before anyone picked up
  (`gemini_live.rs:402`, against `config.rs:201`).
- `UplinkGateIsCurrent` excepts a line that falls silent altogether: nothing arrives that shows the loss,
  and the gate never sees it (`engine.rs:1287`). And it needs `SecondIsBreach`: with a limit of, say,
  30 %, the losses of a silence that ended within the window count although they came before its first
  tick, and a line that lost 80 of the window's 350 packets (23 %) is aborted for 130 of 400 (32.5 %).
- `TranscriptKept`: a transcript is lost when, before it is written, more calls ended than
  `max_call_history` keeps (`engine.rs:1454`).
- `HangupEnds`: a hangup during the ring takes effect when the INVITE completes, not before
  (`sip/call.rs:354`).

Seen while modelling, without a property: the dispatcher spins while the breaker holds and an entry is due
(`engine.rs:638`, against `:542`); a refusal that `place_call` reports as an error is failed, never busy
(`engine.rs:909`); SIP 606 and other 6xx become failed (`sip/outcome.rs:40`, against
`:14`); `CallRecord.attempt` is never updated by a retry (`engine.rs:314`); a late model answer
un-mutes a wrap-up (`engine.rs:1170`, against `docs/mcp.md:98`); blank deltas make a call eligible
for harvest and then failed (`engine.rs:1165`); the drain waits for a bridge that has already stopped,
so the rest of the goodbye is not played (`engine.rs:1342`, against `:1338`); the bridge cannot hear its
cancel while it waits for room in a full `events_out` (`bridge/mod.rs:389`); a task that unwinds never
finalizes its record (`engine.rs:620`); a callee who hangs up
before media is negotiated is recorded as no_answer (`engine.rs:959`); `kutsu call` may exit before the transcript file is written
(`main.rs:474`).

## 6. Not modelled, and why

The filter taps, the jitter estimate, latency counters and WAV files are floating point or I/O with
no control to check. Configuration and command line are sequential and stateless, with unit tests;
they are a tenth of the code. HTTP routing, authentication and tool schemas are I/O around the tools
that `McpTask` has. The AMD probe, live transcript and affect only log or decorate a record. A panic
inside a SIP leg, and channels that are full, are not followed. The vendored core is third-party.

## 7. Plan

Done: the engine and its abstract service, the breaker and its gate, the dispositions, the session and
its watches, the driver and its contract, the SIP transport, the MCP task, the preflight and the
media path; every safety property the runs check is proved for all constants, but those that section
4 lists with the reason. What could follow, in this order:

1. `CallSession` with `SessionDriver` in place of its own driver (both drivers implement it), and with a
   bounded event channel.
2. `UplinkGateIsCurrent` for every limit, with the history of what the gate itself counts.
3. Proofs: the ranges of `SipTransport` and that a leg's reply is given once; a bound on how fast the
   gain may lift a line for the floor to follow, which would carry `SteadyLinesAreDecided` to all lines.

Modules to be proved about keep to the present form: no recursive operator, one action per step,
invariants as conjunctions of named parts. New questions replace runs whose question a theorem has
come to answer.
