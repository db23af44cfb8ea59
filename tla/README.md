# Archerfish in TLA+

Archerfish plays RF scenarios on software radios.  A scenario file is parsed, validated and planned into
per-channel lists of jobs; a *runtime* configures the device, renders the jobs into samples and streams them,
while a dispatcher fires timed events and another thread may call `abort()` at any moment; afterwards the run's
artifacts are written to a directory.  This directory holds the TLA+ modules that model that path from the file to
the air and back to a file, the TLC configurations that check them, and the TLAPS proofs about them.

All paths below are relative to `src/`.

## 1. The parts of the system

| Part | Source | State it keeps | Operations | Hard because |
|---|---|---|---|---|
| Sample queue | `core/runtime/include/archerfish/runtime/spsc_queue.hpp` | ring of capacity + 1 slots, atomic `head_`, `tail_`, two condition variables and their mutexes | `push`, `pop`, `push_wait`, `push_notify`, `pop_wait`, `notify_all`, `empty`, `full`, `size` | lock-free fast path, blocking slow path, wraparound, stop from a third thread |
| Render worker | `core/runtime/src/render_worker.cpp` | its thread, `samples_rendered_`, `failed_`, `complete_` | `start`, `run`, `join`, `pre_render` | short renders, exceptions, a length rounded twice, ends its burst with a sentinel |
| TX worker | `core/runtime/src/tx_worker.cpp` | its thread, metrics, `failed` | `start`, `run`, `request_stop`, `join` | partial and failing sends, requests a stop that everybody sees |
| Event dispatcher | `core/runtime/src/event_dispatcher.cpp` | events, `epoch_`, `cancelled_`, counts, its thread | `schedule`, `start`, `wait_complete`, `cancel`, destructor | timed wait, cancellation that races with a callback |
| Lifecycle | `core/runtime/src/state.cpp` | one `RuntimeState` | `transition_to` | used by `run()` and `abort()` from two threads without a lock |
| Runtime | `core/runtime/src/runtime.cpp` | the plan, the stop source, `active_tx_worker_` and its mutex, the queue, metrics | `prepare`, `arm`, `run` (single-channel, multi-channel, replay), `abort` | any order of calls; starts and joins all the threads above; any of them may fail |
| HAL: devices | `core/hal/src/stub_device.cpp`, `uhd_device.cpp`, `hal_factory.cpp` | per channel: settings, TX on or off, streamer | `configure_*`, `start_tx`, `stop_tx`, `send_samples` | outlives the runtime; any call to a radio may throw |
| Parser | `core/scheduler/src/parser.cpp` | none | JSON and YAML documents to a `Scenario`; resolution of references | typed reads of every key, two formats |
| Validator | `core/scheduler/src/validator.cpp`, `scenario.cpp` | none | all the rules on a scenario | must agree with planner and `arm` |
| Planner | `core/scheduler/src/planner.cpp` | none | expands repeats, resolves mix groups, makes channel plans | rules repeated in four places, floating-point times |
| Plan files | `core/scheduler/src/plan_io.cpp` | none | writes and reads plans and scenarios | a second reader of what the parser reads, and a copy of the rules of `arm` |
| DSP sources | `core/dsp/src` | phases, counters, buffers, generators | `configure`, `prepare`, `reset`, `render_block` | state across blocks, in calls of any size and order |
| Impairments | `core/impairments/src` | delay lines, counters, generators | `build_chain`, `apply` | the same |
| Run directory | `core/reporting/src/run_directory.cpp` | a directory | one write per artifact | one of several writes fails |
| Command line | `cli/src` | none | `scenario run` and others | the order of the calls above |
| Reporting, common, schema check | `core/reporting/src`, `core/common/src`, `core/scheduler/src/schema_validator.cpp` | none | statistics, limits | |

How they interact.  `scenario run` parses the file, resolves its references, and hands the scenario to `validate`,
`plan`, `Runtime::prepare` and `Runtime::arm` in turn; each may refuse it.  `prepare` sets the device.
`Runtime::run` then owns the control flow.  For each job it makes a new queue, starts a RenderWorker (the producer),
waits until the queue is half full or the render complete, then creates a TxWorker (the consumer), joins the former
and then the latter.  A *mix group* is rendered beforehand into a buffer, and the thread of `run()` itself pushes it.
A *replay* renders all jobs beforehand and feeds one TxWorker.  With several channels each channel has a thread with
its own queue and workers.  All of them share one `std::stop_source`; waits end when it is set **and** somebody
notifies the queue they wait on.  `abort()` sets it, notifies the active TxWorker's queue, moves the lifecycle to
Aborted, calls `stop_tx` on every channel, and joins and destroys the active TxWorker, under
`active_tx_worker_mutex_`.  After the run the normalized scenario, the plan, the metrics, the report that names them and
the log are written one after the other.

What makes each of them correct:

* queue: one reader or writer per slot, FIFO without loss or duplication, no lost wakeup, a stop releases both ends;
* dispatcher: never early, in time order, nothing after `cancel` has returned, every event accounted for, its calls return;
* workers and runs: a run that reports success has sent every sample in complete bursts; TX is off in the end
  whatever fails; a queue outlives the threads that use it; nothing is sent after `abort()` has returned; both calls return;
* lifecycle and settings: terminal states are terminal; what is on the air is tuned as the armed plan says, whatever was
  called or failed before; the results of the calls are true;
* validator, planner, plan files and `arm`: what is accepted early is accepted late; every emitter is
  transmitted as often, when and where the scenario says; the events take effect once, on the channels they are for;
* files: what is written can be read again, and means the same; a report is true;
* sources and impairments: the signal is that of the waveform's definition, however it is cut into blocks.

The hazards, each with the line where it bites and the properties aimed at it, are listed in `PROJECT.json`.

## 2. The modules

```
BoundedFifo  <--refines--  SpscQueue  <-- SpscQueueProofs
                               :
                               : justifies the atomic push and pop of
                               v
Workers  <--  ChannelJobs  <--  RuntimeControl  <--  SingleChannel  <--+
                                     ^          <--  MultiChannel   <--+--  RuntimeRun
StateMachine  --------------+--------+          <--  Replay         <--+  <-- RuntimeRunProofs
                            |                                                             ^-- Induction
Device  --------------------+--  RuntimeLifecycle  <--  RuntimeLifecycleProofs

EventDispatcher  <-- EventDispatcherProofs

Scenario  <--  Validator  <--+
          <--  RuntimePlan  <--  PlanIO  <--+--  Pipeline  <--  PipelineProofs
          <--  Planner  <-------------------+                     ^-- PlannerProofs  <-- Induction
                          StateMachine  <---+

Json  <--  ScenarioFile  <--  PlanFile  <--+--  DocumentPlan  <--  Documents
              Planner, Validator  <--------+

Sources  <--  Impairments  <--  SignalPath  <--  SignalPathProofs  <-- Induction
```

An arrow without a label is EXTENDS.  Each `MC…` module instantiates the module of the same name for TLC.
Operators whose comment begins with "Mutant:" are deliberately wrong variants of the operator
below them; nothing in the specifications uses them.  They exist to show that the properties
notice such a mistake.

### The threads

**BoundedFifo** is what the queue promises: a channel of at most `Capacity` items, what is taken
is what was put, in that order.

**SpscQueue** models `spsc_queue.hpp` at the grain of single atomic loads and stores and single
critical sections, for a producer that calls `push_wait` or `push_notify`, a consumer that calls `pop_wait`
and a stopper that calls `request_stop` (`tx_worker.cpp:31`).  `head`, `tail` are the
atomics (with wraparound, `Succ`), `buffer` the slots.  `PushLoad` / `PushWrite` / `PushPublish`
are the three parts of `push`, `PopLoad` / `PopRead` / `PopRelease` those of `pop`; `PushSync` is
the empty critical section before the notification, `PushWake` the notification itself,
`PushLock` … `PushRelock` the wait, during which spurious wakeups may come.  Condition variables
are split into release-and-sleep, wakeup and relock.  `BoundedFifo` is implemented under the mapping that reads
the items between head and tail off the ring.

**EventDispatcher** models the dispatcher thread (`Check`, `Test`, `Block`, `Timeout`,
`Recheck`, `Callback`) and the thread that owns it.  `wait_until` is split between
its predicate and its block, because `cancel` notifies without the mutex.  Time is a discrete
clock; `std::sort` may put equal times in any order.

**Workers** models the two worker threads and the queue between them, per channel, and
`push_wait` called by the thread of the run (`feed`).  A push or a pop is one step here: that is what
the refinement proved for SpscQueue allows.  Its notification is a later step.  A block is its number of
samples and its two burst flags.  `render_block` may produce anything from one sample to a full
block, nothing, or throw; `send_samples` may take all samples, fewer, or throw.  `device` is the
stub device's view: TX on or off, how many samples went on the air (a ghost), whether
a burst is open.  `device.burst = "broken"` means that a burst began inside another
one, or that samples came outside one.

**ChannelJobs** has the loop over the schedule of one channel, `main[c]`, shared by
`run_single_channel` and `execute_channel_jobs`: delay, new queue and render (`LaunchRender`),
prefill (`Prime`), TxWorker, mix groups (`PrepareMix`, `MixLoop`, …), collecting the metrics (`CollectTx`).

**RuntimeControl** has what every kind of run shares: the lifecycle around it, the wait for the
events, `stop_tx` on each channel, the result; and `abort()`.  **StateMachine** has the transitions;
`transition_to` is two steps, a check and a write, as the code has it, since nothing protects `state_`.
**SingleChannel**, **MultiChannel** and **Replay** add what differs: who owns the TxWorker, where
the mutex is taken, when TX is started, what is joined under the mutex, and the order of the last steps.
**RuntimeRun** puts the three together as `Runtime::run` does: the mode and the number of channels choose one of them,
and a replay of several channels fails.  `bound` is what the plan binds: all the channels that are sent on, or, for a plan
without bindings, none, when `config_.channel` is sent on (`BindsNone`).

### The calls

**Device** has the settings of the channels as both devices keep them, and where a radio may throw.
**RuntimeLifecycle** has `prepare`, `arm` and `run` called in any order with any plans, next to an `abort` at any time,
and a second runtime on the device the first one leaves behind.  A call is a program counter (`call.pc`), one action
per step that another thread can see: the check of the plan (before the check of the state, `runtime.cpp:436`), the
two halves of each transition, the copy of the plan, each binding's settings (`ConfigureFails` leaves some of them
made).  A run is abstracted to its transmitter and its timed events; `RunThrows` is the path that leaves TX on.

### From a scenario to a run

**Scenario** has the records of `scenario.hpp` and the arithmetic on times that the next modules share.
Times are `double`: `Plus`, `Minus` and `Times` round to `TimeBits` significant bits, half to even.
An id is a sequence of the parts that an underscore separates, so that the second repetition of
`a` and an emitter called `a_1` have the same one, as they have in the code.

**Validator**, **Planner** and **PlanIO** are `scenario::validate`, `scenario::plan` and the checks of
`plan_from_json` on the parts of a plan, as operators: `Validate(s)`, `Plannable(s)` and `PlanOf(s)`,
`ImportAccepts(s, p)`.
The mix groups of the planner are a fold (`Sweep`) over the additive windows in the order of their start.
**RuntimePlan** has what the runtime makes of a plan: `PrepareAccepts`, `ArmAccepts`, the schedule of each
channel (`ScheduleOf`) and the events handed to the dispatcher (`DispatcherEvents`), with the key of
text by which the runtime drops what it has already scheduled.
**Pipeline** is the command `scenario run`: one action for each call, each with its refusal, `Reload` for a
plan that goes through a file, and one `Dispatch` per event, which tunes a channel or is logged.

### The files

**Json** has JSON values and the typed reads that the parser and `plan_io.cpp` share: a read gives the set of its
results, which is empty when it refuses.  Numbers written as integers stay apart from reals, since the code tells them
apart, and a number beyond a double (`Huge`) is a value of its own.  **ScenarioFile** is the parser for every section of a
document in both formats, and the resolution of `waveform_ref` (an emitter's waveform is then a copy).  **PlanFile** is
what is written, one `…ToJson` and one `…FromJson` per structure of a plan.
**DocumentPlan** is `validate` and `plan` on whole documents: it takes identifiers, channels and times to the abstraction
that Validator and Planner read (`Abstract`) and adds the rules on all the other fields, and every field of the plan.
**Documents** is the command seen from its files: parse, resolve, check, plan, write one artifact after the other, any of
which may fail; then somebody takes the saved plan, edited or not, and loads it.

### The signal

**Sources** has `configure`, `prepare`, `reset` and `render_block` of the thirteen sources, with every counter, phase, buffer
and generator they keep.  A sample is a term that names what it is computed from, so that two samples are equal only when the
same numbers go into them.  **Impairments** has `build_chain` and `apply` of the twelve stages, each with its delay line,
counter or draws.  **SignalPath** uses them in three ways: through the interface of a source, in calls of
any order and size; in a RenderWorker; and in `pre_render`, for the buffers of a mix group (placed by rounded offsets) and of
a replay (one after the other).

## 3. The runs

| Run | Instance | What it shows |
|---|---|---|
| `spsc_queue` | 2 slots + 1, 5 items | `SlotExclusion`: the slot being written is never one that holds an item or is being read. `FifoOrder`. `NoLostWakeup`: whoever sleeps although its wait is over has a notification coming. `FifoSpec`: the queue refines BoundedFifo. `StopReleases`: a stop ends both blocking calls. `ItemsArrive`: a published item is handed out unless a stop is requested. |
| `event_dispatcher` | delays 0..2, horizon 3, 2 events, 2 starts | `NeverEarly`, `TimeOrder`, `CancelBounds` (at most one callback after the flag, none once `cancel` has returned), `Accounted`, and `CallsReturn`. |
| `event_dispatcher_cancel` | the same, 1 start | **Violated:** `CancelPrompt` (finding 1). |
| `runtime` | one channel; queue 2, block 2; both modes; four schedules: 4 rendered samples, then 3 mixed ones after a gap; 5 mixed ones, then an empty render; two short renders; an empty render; the plan binds the channel, or binds none | `SuccessMeansSent`, `BurstsWellFormed`, `QueueOutlivesItsUsers`, `TxOffAtEnd`, `QuietAfterAbort` (of the channels the plan binds), `CallsReturn`, and no deadlock. `CallsReturn` covers every wait on the way, such as the sentinel that is pushed, and the replay's TxWorker that is joined, while the mutex `abort()` needs is held. |
| `single_channel_terminal` | queue 1 | **Violated:** `TerminalIsFinal` (finding 2). |
| `multi_channel` | two channels; one short job on each, two jobs on one of them, or an empty one; both modes | The safety properties across channels: `SuccessMeansSent`, `QueueOutlivesItsUsers`, `TxOffAtEnd` (with rollback of a `start_tx` that throws), `QuietAfterAbort`; and `NeverStuck`: as long as nothing stops a run, no channel of it is stuck: while its thread waits, one of its own workers is awake and at work. |
| `multi_channel_render` | two channels, two blocks on each | **Violated:** `JoinedRenderIsNotStranded` (finding 3). |
| `pipeline` | 9,500 scenarios of up to three emitters, two devices, two channels and three events | `PlannerRefusalsExplained`, `RefusalsExplained` and `ImportMatchesRuntime`: the four sets of rules agree but for the gaps named below. `OnAirOnce`: on every channel one thing at a time, and every repetition of every emitter once, on its channel, alone or inside a mix group. `EventsTakeEffect`: what the events do in the end is what the scenario says, each once. |
| `documents` | two JSON documents that hold every section, a YAML one with and without `reporting`; each as it is, and with every single edit of it or of the saved plan | `SavedPlanReloads`, `EditedPlanIsStable`: a plan survives being written and read but for three cases (see *Files* below), also one that came from an edited file. `ReportImpliesArtifacts`: a report that is there names nothing that is not. `YamlLeavesNoFiles`. `RerunLosesOnlyParameters`: the saved scenario, given to the command again, is the same but for what finding 4 is about. |
| `documents_rerun` | the same, unedited | **Violated:** `SavedScenarioReproduces` (finding 4). |
| `signal` | every source through its interface, in calls of 0, 1, 2, 3, 5 or 8 samples with `configure`, `prepare` and `reset` between them; every source and stage, and pairs of stages with a memory, in a RenderWorker of several block sizes; mixes of two members and replays of two instructions | `StreamIsReference`: the samples are those of the waveform's definition, whatever the calls; a noise or OFDM source that nothing has configured yet draws them from another generator. `VerdictOfRender`: a render ends well or fails as its parameters say. `BuffersAreSums`: a mix is the sum of its members where their starts put them, a replay their concatenation. |
| `lifecycle` | two runtimes, two channels, both devices, ten plans (good, refused, ill-formed in their second binding, without bindings, without jobs, unsound, replays) | `OnAirAsPlanned`: a channel that a run has started is tuned as the armed plan or one of its events says. `ResultsAreTrue`: a call that returns false has failed the runtime or changed nothing; a `prepare` that returns true has set the device. |

Findings, where the code does not do what its tests and its design say:

1. `EventDispatcher::cancel` sets the flag and notifies without `mutex_`
   (`event_dispatcher.cpp:46`).  If `run()` has tested the flag and not yet blocked, the
   notification is lost and the destructor waits until the next event is due.
2. `StateMachine::transition_to` (`state.cpp:15`) checks, then writes a plain member; `run()` and
   `abort()` do so from two threads, and a terminal state can be overwritten.
3. The stop flag is shared but `abort()` (`runtime.cpp:1656`), or a failing TxWorker of another
   channel, notifies one queue only.  A TxWorker of another channel that found its queue empty and then
   sees the flag leaves; its RenderWorker may meanwhile have filled the queue and sleep in
   `push_wait`, for ever, and `run()` with it.
4. `waveform_def_to_json` (`plan_io.cpp:643`) writes the parameters of a waveform as an object `params`, where
   `parse_waveform` takes every unknown key for a parameter.  `scenario.normalized.json`, given to `scenario run`
   again, is accepted, and every waveform is rendered with the defaults.

A run of one channel does not have finding 3, because its TxWorker is the active one that `abort()`
notifies; `CallsReturn` shows it.  A relative of finding 3 is in the model and has no run of its own: in a channel
thread, a render that throws after its first block leaves the TxWorker to be told by `request_stop`, which is skipped
when a stop is already requested (`runtime.cpp:1371`), so that a TxWorker asleep on the empty queue sleeps for ever.

### What the properties set apart

*The four sets of rules.*  `HasGap`, `NamesUnknownEmitter` and `HasTooLongEmitter` in Pipeline list what the
validator accepts and a later step refuses; the run shows that the lists are complete for its
scenarios, and that `arm` accepts nothing that `HasGap` holds of; `PlannerAgrees` and `RefusalsHaveReasons` show it for all:

* the planner alone refuses an event that names an unknown emitter, and an emitter whose samples a `size_t` cannot count;
* `prepare` alone refuses a plan with two devices, and a gain or bandwidth out of range;
* `arm` (and `plan_from_json`) alone refuse an emitter on a channel that is not defined, one that overlaps
  itself (the validator, `validator.cpp:344`, and the planner compare pairs of different emitters only), two instructions
  with one id, and an event that names no instruction or one of another channel
  (what is named is an instruction: a repeated emitter's own id is none of them, unless a repetition of another has it);
* rounding (`HasInexactMix`): a mix group's end is its start plus the rounded difference, which may fall short
  of its members' ends.  For a group from 0.94 to 6.2 the computed end is 6.199999999999999.
  Then a plan may be refused, or a group end before its members.

`HasLookalikes` is a case of events: the key by which the runtime drops repeated ones prints six
digits of the time, so that on two channels, of a retune to f1 at 1000.001 s, one to f2 at 1000.002 s and one to f1 at
1000.003 s the last is never scheduled.

*Files.*  `plan_from_json` refuses a saved plan whose emitter has an `impairments` of which nothing is set, since that is
saved as null (`plan_io.cpp:690`), one with a bandwidth that is not positive, which the parser accepts, and one whose estimated
memory is beyond an `int64_t`: the planner's sum goes up to the largest `size_t` (`planner.cpp:260`), and the reader takes every integer
through an `int64_t`, where it comes out negative (`plan_io.cpp:304`).  And no file can hold an infinity.  A JSON document with a number beyond a double throws what the parser does not catch
(`parser.cpp:739`), and the command ends as a generic failure.  Scalars of YAML become numbers or strings, never booleans,
so that a YAML scenario cannot ask for artifacts; one that tries is refused.

*Signal.*  A single pulse goes on to the end of a block that is longer than its interval (`pulse_source.cpp:110`), so here the
block size does decide; an echo without delay is dropped (`multipath.cpp:20`); a delay loses the last samples; a
member too short for its place fails a mix (`runtime.cpp:1041`) where a replay accepts an instruction without samples.  The
references state these as they are.

The constructors of `NoiseSource` and `OfdmSource` leave `rng_` with the seed of the library (`noise_source.hpp:22`,
`ofdm_source.hpp:27`); `seed()` is used first by `configure`, `prepare` or `reset`, and the deviation of the noise, which is 1 until
then, is set by the first two only (`noise_source.cpp:8-18`).  So a source of these two kinds that is rendered as constructed gives other
samples than its parameters define, and noise does so after a `reset` too, although `reset()` is to restore the initial state
(`docs/Design.md:623`).  `IsForeign` says when, and `StreamIsReference` then demands the reference's samples, in its order, from
that generator.  Nothing in a run meets it: every job configures its source.

*Calls.*  What a plan leaves open (a bandwidth, an antenna) stays as the device had it, and a plan
without bindings transmits on `config_.channel` as it is: `OnAirAsPlanned` says "as found".  `abort()` stops the channels that the
plan binds and no other (`runtime.cpp:1658-1664`), so for such a plan it calls no `stop_tx`: an `abort()` during the prefill, while there is no
active worker to stop either, returns, and the TxWorker that is created afterwards still sends what is queued, with TX on.
`QuietAfterAbort` is therefore about the channels in `bound`.  A plan that `prepare` or
`arm` refuses fails the runtime whatever its state is, also one that is armed with another plan.  Events that are due after an
`abort()` still fire, and still retune.

### Bounds, and why they are enough

`Capacity = 2` is the least with a queue that is neither empty nor full, and five items go round the ring of
three slots almost twice.  In `runtime`, five samples in blocks of two are three blocks, the last one short:
one more than the queue holds, so that both ends block; the half-full threshold of the prefill
differs from both ends.  Two jobs in both orders, with and without a gap between them, show what one job leaves
behind for the next.  Two channels are the least with a thread that another channel's failure concerns.  Two
starts of the dispatcher show what a cancelled start leaves behind; the horizon lets the clock
pass every deadline.  Bounded are also: one call each of `run()` and `abort()`, the second at any point
before, during or after the first (or never), and in SpscQueue `MaxItems` pushes.

`multi_channel` uses the symmetry of the two channels, which is sound since its properties treat channels
alike and it checks no liveness.  It does not check for deadlock, because finding 3 is one; `NeverStuck` speaks of runs
that are not stopped.  `spsc_queue` and `event_dispatcher` do not, because the bounded producer and the horizon end; nor do
the runs of commands and calls, which end.

`pipeline` enumerates scenarios in families (see MCPipeline): pairs of emitters with all starts, durations and repeats
of a small range, where repeats touch, overlap and miss each other; the limits of each single value; three emitters whose
times a significand of three bits (`TimeBits`, for 53) has to round; every assignment of two emitters to two channels of one
or two devices, by number or by name, with consistent and inconsistent definitions; and one to three events of every kind,
for one channel, all, an unknown or an ill-formed one, among them events for an emitter that is named like a repetition of another.
`PrintDigits = 1` stands for the six digits of a stream,
`MaxRepeatCount = 3` for 1024, and `MaxDuration = 10` for the length at which a `size_t` ends.

In `documents` an edit removes a key or puts one of twelve values, of every type and on both sides of every limit, in the place
of any value; `MaxInt = 10`, `MaxUint32 = 20` and `MaxInt64 = 180` are the limits of the
integer types, with a `size_t` up to 361, which is 45 samples (`MaxDuration`): the edits give plans whose estimated memory is on either
side of both.  One edit (`MaxEdits`) meets every check
of every reader, since they look at one key each or, for the checks across keys, at a document that has the other.

In `signal`, `Turn = 8` parts of a turn, batches of three symbols for 64 and a filter of two for six, and twelve samples
(`MaxSamples`) pass every counter's end at least twice; `MaxBlock = 16` and `MaxPreRender = 10` stand for the limits of
`render_worker.cpp`, with a duration and a block on either side of each; `TicksPerSample = 3` makes every third time whole.

In `lifecycle`, two runtimes (`MaxRuntimes`) are the least with settings that an earlier one left, and the ten plans hold one
for each way a call may end.  The calls themselves are not bounded.

### Fairness

Every thread that can take a step eventually takes one: weak fairness for each thread (the
thread of `run()`, each channel thread, each worker, the dispatcher, the producer, the
consumer) and for `abort()` once it has been called.  That is what the operating system's scheduler gives.
Nothing makes anyone call `abort()`, `schedule` or `start`.  Mutexes are held for finitely many steps
and no property needs strong fairness for one.  The clock of the dispatcher advances.  The timed waits
on `abort_cv_` may end at any time and, being timed, do end.  Callbacks, `render_block` and
the device return (they may throw).

## 4. The proofs

**`SpscQueueProofs`** proves, for every capacity and every number of items, that

* `TypeCorrect`: every variable stays in its range;
* `NoDataRace`: `SlotExclusion`;
* `InOrder`: `FifoOrder`;
* `WakeupsArrive`: `NoLostWakeup`;
* `Refinement`: SpscQueue implements BoundedFifo.

The only assumption is that the capacity is a positive natural number and the bound on the items a natural one.
None of these invariants is inductive alone.  The inductive invariant ties the ring to the history of what was
pushed: the distance from head to tail modulo the number of slots is what was pushed less what was popped,
each occupied slot holds the item whose position is congruent to it, the value each side has loaded of the
other's index can only be behind (so that "not full" and "not empty" stay true once seen), and a thread that is
in the middle of an operation holds the index it started from.  For wakeups it says where each
mutex is, that a sleeping side saw its condition false under the mutex, and that the opposite side, if it
has changed the condition since, has yet to notify.  Lemmas on `Succ` and the distance between two
positions of the ring carry the arithmetic.  Refinement follows from the same invariant: `PushPublish` is
`Put`, `PopRelease` is `Take`, and each other step is a stutter.

**`PipelineProofs`** proves about the planning of a scenario, for every set of scenarios,

* `ValidatedIsPlannable`: the validator's rules imply the planner's, but for an unknown emitter in an event and
  an emitter too long;
* `PlannerAgrees`: so `PlannerRefusalsExplained` holds of every run of the command;
* `LoadsWhereItArms`: `ImportMatchesRuntime`, a plan of the planner loads from its file exactly where it arms;
* `TransmitsEachOnce`: `OnAirOnce`, an armed channel transmits one thing at a time and every repetition once;
* `RefusalsHaveReasons`: `RefusalsExplained`, what the validator passes arms exactly where there is no gap, but for rounding;
* `EventsArrive`: `EventsTakeEffect`, when a run is over every channel is tuned as the latest event for it says, and each
  of the other events was dispatched, none oftener than the scenario has it.

The assumption (`ScenariosAssumption`) is that times are whole numbers and starts need no rounding, that lists and names are
sequences, that a channel's settings are of one of the three kinds, that an event has all the fields of one and a time that is a whole
number, that the absent channel is no channel and a number that is none not a channel's.
The heart of the first two is `SameKey`: the two pieces of code find an emitter's channel in different ways, and find the same one
for every scenario that is valid, also where a channel is named or is not defined at all.  The third rests on `ImportIsArm`:
`plan_from_json` has checks of its own, of the scenario inside and of the ids of the channels, and `arm` has one, that
there is something to render; a plan of the planner passes all of these (`RendersAnything`, `ChannelHasId`,
`PlannedChannels`), and the rest the two pieces of code have in common.

The next two follow every repetition of every emitter through the plan.  `Lists(seq, f)` says that a vector holds
the values of a function, each argument's at one place, and **`PlannerProofs`** shows for each operation of the planner and of
the runtime on vectors what it lists: flattening (`FlatPlaces`), filtering (`ListsKept`), sorting by start (`ListsSorted`), joining
and mapping.  The sweep that makes the mix groups is described by its runs (`IsRuns`): intervals in the order of their start fall into
runs that do not touch, and each of a run's starts before an earlier one of it has ended; every step of the sweep keeps that
(`SweepJoins`, `SweepOpens`, `SweepCloses`), and `MixGroupsAre` reads off it that what overlaps on a channel is in one group and that
a group has no hole (`IsMixing`).  `IsAssigned` says that each repetition is on one channel, by the key with which
the planner compares as well as by the id with which it fills the channel plans, and that no id is given twice; it is true of whatever
arms (`ArmableIsAssigned`) and of whatever has no gap (`GaplessIsAssigned`).  From it follow what is rendered for a channel, what
its groups are (`RendersOnList`, `GroupsOnList`) and, with what arm has checked, that no two entries of its
schedule overlap (`NothingOverlaps`) and where each repetition is among them (`EntriesOf`).  For `RefusalsHaveReasons` the overlaps
that arm looks for are traced back to two emitters of the scenario (`OverlapsAreMixed`, `GroupHasNoHole`), which
needs that no window ends before it starts: `RoundedNotBelow` and `RoundedIsTime` show that for a significand of any length.

`EventsArrive` rests on `Delivers`, which says what a dispatcher must be given: for every channel, every event that concerns it
(`Concerns`), at its time, and none oftener than the scenario has it.  On one channel that is the timeline (`AllDelivers`).  On several the
same event is in the timeline and in each channel plan: `CallConcerns` and `CallIsMade` say which of these copies are offered for
which channel, `FirstCallsAre` that of the calls with one key exactly one schedules, and `SameKeyIsSameEvent` that calls with one key
would have scheduled the same, unless two events look alike (`HasLookalikes`).  The number of an event is counted by an injection: what is
scheduled twice has two keys, and so comes from two places of the scenario.

The inductive invariant `IInv` remembers that a scenario past the validator is valid, that one that the planner refused is not plannable,
that the plan is the one the planner made of it, and what prepare and arm said of it.  `EventInv` says of a run what was sent so far:
it is not later than what is pending (`IsInOrder`), each channel is tuned as a latest event sent to it says (`IsTuned`), which is
inductive because of that order, and the log counts the others (`IsLogged`).

**`RuntimeLifecycleProofs`** proves, for every set of plans, channels, values and runtimes,

* `TransmitsAsPlanned`: `OnAirAsPlanned`, whatever calls were made before, with whatever plans and failures;
* `CallsTellTheTruth`: `ResultsAreTrue`.

The assumption (`LifecycleAssumption`) says what a plan is, and that one that `prepare` accepts binds no channel twice.
`OnAirAsPlanned` is not inductive: that a channel on the air is tuned as planned depends on what was true long before it
was started.  The invariant `IInv` says what is known of the settings in each *state* of the runtime and at each *step* of a
call: in Created nothing has changed since the runtime was made (`Fresh`); while `prepare` is in its loop the bindings
before the next one are made and no others (`Configuring`); in Prepared and Armed, and on the steps that lead there and from
there into a run, all are made (`AtRest`); while a run transmits, an event may have changed what it names (`AsRun`).
It is the abort, which changes the state under a call, that makes both halves necessary, and `States` says which states a step may
meet on account of it.  `Untouched` carries what `ResultsAreTrue` says of calls that return false because of the state alone.
There is one lemma per kind of step, and `Kept` deals with all those that change neither the settings nor the plan.

**`EventDispatcherProofs`** proves, for every number of events, delays and starts,

* `TypeCorrect`: every variable stays in its range;
* `FiresInTime`: `NeverEarly`;
* `FiresInOrder`: `TimeOrder`;
* `CancelStops`: `CancelBounds`;
* `NoneIsLost`: `Accounted`.

What `std::sort` returns is only known as some permutation in the order of the times.  The inductive invariant says where the
thread is in it: `Working`, that the time of the event at hand has come by the time its callback is called, whatever ended the
wait; `Fired`, that what has fired since the last start is exactly what stands before that event; `Late`, that a callback
after the flag was the last one.  That every event fires when nothing cancels needs that a one-to-one map of the events
to themselves is onto, which is a theorem of the library.

**`RuntimeRunProofs`** proves, for every number of channels, every set of schedules, and blocks and queues of any size, in all
three kinds of run next to an abort at any point,

* `TypeCorrect`: `TypeOK`, and with it that a queue never exceeds its capacity, that no more is rendered than was asked for,
  and that `active_tx_worker_mutex_` is held exactly at the steps at which the code holds it;
* `QueuesOutliveTheirUsers`: `QueueOutlivesItsUsers`;
* `TxIsOffAtEnd`: `TxOffAtEnd`;
* `AbortSilences`: `QuietAfterAbort`, for the channels that the plan binds, whether it binds all that are sent on or none.

The assumptions (`WorkersAssumption`, `JobsAssumption`, `ModesAssumption`) are that there are finitely many channels, that
capacity and block size are positive, and that a schedule is a sequence of jobs for each channel.  That what the jobs add up to
is a natural number is proved (`TotalIsNat`).  The inductive invariant has three parts for each channel.  `Owned` says at which steps of the thread
that works through the schedule a RenderWorker or a TxWorker may be running, and when abort() can have taken the
latter away; the first theorem is read off it.  `Begun` says on which channels TX may be on, who will stop it, and that a channel
on which it was never started has an empty queue and no workers.  `Silenced` says that once abort() has passed a channel,
TX that is on there, because the run has started it since, has only sentinels on the way to it: none but those in the queue, in
the hands of the RenderWorker, of the TxWorker or of the thread that feeds it.  That is inductive because the stop was
requested first, and after it nobody renders or mixes a block; what TX finds when it starts late is the empty queue of `Begun`.
`Beside` and `MainMove` say once and for all that a step of one channel leaves those parts of the others alone; `OneMove`
and `RunMove` do the same for the steps that take the lock or end the run.

The second part of **`RuntimeRunProofs`** proves, under the same assumptions, what becomes of the samples:

* `AllSamplesSent`: `SuccessMeansSent`;
* `BurstsStayWhole`: `BurstsWellFormed`.

The inductive invariant (`FlowInv`) follows the samples of the job at hand by their position in it.  What the device was given
(`Given`), the block in the hands of the TxWorker (`Taken`), the blocks in the queue and those that were made (`Made`) lie end to
end (`Chain`), and every block has the burst boundaries that its position demands (`Placed`): it begins the burst exactly at
position 0 and ends it exactly at the end.  A sentinel stands where the transmission may end (`Ends`): at its length only, or,
when a stop was requested or the render has failed, anywhere.  `Burst` reads the device's view of the burst off the position, so that
no block can break it; a worker that fails (`Spoilt`) sends nothing more, which is why the chain need not hold for it, and
requests a stop before the next job could begin on an open burst.  `Working` says that a thread that goes on to join its TxWorker
has learnt of a render that failed, and `Accounts` that the air and the metrics are the sum of the jobs before (`Base`) and
of what was given of this one, as long as nothing is stopped or has failed and the run may still return true.  `Outcome`
says that a run decides only when every thread has ended.

The third part proves that a run goes on:

* `ChannelsGoOn`: `NeverStuck`.

The property says without ENABLED what has to be there for a channel to go on: while the thread of the channel waits (for the queue,
for room in it, for a worker to end, for the mutex of the active TxWorker), a worker of the *same* channel is awake and has work
to do.  That fails as soon as one notification is lost, one sentinel too few is sent or one too early, and the channel then
hangs until somebody stops the run.  The invariant (`LiveInv`, which includes `FlowInv`; TLC has checked it on both instances
as well) needs the samples: a TxWorker that sleeps on an empty queue will be woken only if something is still to
come, which the positions of the second part decide.  `Asleep` says who may be asleep and where, `Woken` that whoever sleeps although its
wait is over has a notification coming, from a step that no thread can leave out.  `Staffed` says which workers there are and that
one that has failed has requested a stop, `Providing` that all there is to feed is fed before the sentinel, and `Ending` how a TxWorker ends:
when everything is sent, or by a sentinel; as long as none is made (`SentinelMade`) every block holds samples, so that the chain
from the device to the queue goes up (`ChainRises`) and a full queue means a TxWorker that is at work (`FullIsEmptied`).
All of it is claimed only as long as no stop is requested: what can go wrong afterwards is finding 3.  `NobodyIsStuck` reads the property off
the invariant.  The steps of a thread, of the run on one channel and of a replay have each their lemma (`JobLives`, `SingleLives`,
`ReplayLives`), those of the workers `RenderLives` and `TxLives`, those of a push that waits `FeedLives`.

In the first two parts there is one lemma per step, named for what happens in it; `Within`, `Onward`, `Between` and `Untouched` carry the parts of the
invariant that most steps leave alone, `ChainAppend` and `ChainTail` are a push and a pop.  The sums of a schedule (`UpTo`) are
recursive: `UpToIsSum` shows by **`Induction`** that they obey their recurrence, from which the rest follows.  `Induction` has the
two facts that replace an induction rule, which would take the formula as an operator: a nonempty set of natural numbers has a
least element, and what holds of 0 and passes from each number to the next holds up to any bound.

**`SignalPathProofs`** proves about the samples themselves, for every source, every set of parameters and settings, and blocks,
mixes and replays of any size,

* `StreamsMatch`: `StreamIsReference`, a stream does not depend on how it is cut into blocks nor on what came before it, and its generator is
  that of its parameters but where `IsForeign` names another (a noise or OFDM source not yet configured or prepared);
* `RendersEndWell`: `VerdictOfRender`, nor does the verdict of a render, but for a single pulse;
* `BuffersSum`: `BuffersAreSums`, what a mix and a replay are made of.

The assumptions are of the constants (`SourcesAssumption`: there is at least one symbol in a batch of the modulator, and the filter
spans no more than a batch; `SignalAssumption`: the sizes are positive) and of the jobs (`IsJob`, `IsParams`): times are natural numbers,
parameters that `configure` accepts have the ranges it lets through (only a pulse is single; a modulator has samples
per symbol; the prefix and the active carriers of OFDM fit into the transform), a source that is used through its interface was
constructed with such, a render has one job.  Nothing is assumed of parameters that are refused.

A stream is a recursion over its samples with a state: phase, counters, draws, buffers, delay lines.  The proof replaces that by a
closed form.  `At(p, ready, done, n)` says what the fields of a source are before its n-th sample, and `Emits` that one
turn of the loop of `render_block` yields the n-th sample of the reference and leads from n to n + 1.  It is proved for
each kind of source (`AnyEmits`): a phase that is accumulated is the sum or the multiple (`CarrierMoves`, `SumMoves`), the symbol of a keyed source
is that of the quotient (`KeyedEmits`), a file that is looped is read modulo its length, and what OFDM and the modulator
hold back is the rest of a batch (`BufferAt`, `TailAt`); for the modulator the filter over a batch behind the last symbols of the
batch before is the filter over the whole stream (`ModulatorEmits`).  `EmitsBlock` takes that to blocks of any size.  In the same
way `StageAt` and `AnySteps` give the state of each of the twelve stages before the n-th sample, where a delay line holds the last
samples of the signal *before* the stage; `StepsBlock`, `ChainPasses` are the block and the chain of stages over it, and
`StageIsCausal` says that the first samples of a signal decide the first ones behind a stage, so that the reference of a longer signal
continues that of a shorter one (`SignalGrows`).

`StreamInv` says where the source and the chain are in each state of a job, and that a source whose call was refused is where it
was (`IsSourceAt`).  `VerdictInv` adds how far a single pulse may go and that what is delivered is of the length asked for: a render stops
short only where the source has nothing left, and `ShortOfSamples` shows that that is less than a block beyond what the waveform has.
`SumInv` says that what is delivered so far is of the jobs so far; that a buffer of another length comes to nothing,
and is missed unless the job has no samples (`NoBuffer`), is what it needs.  `Rounded` and `RoundedFit` are the rounding of times.
`Iterates` and `Alike`, with `Induction`, replace the induction over data: a recurrence within a set has a solution, and two functions that obey
one recurrence are equal.

Only model-checked are all liveness properties, which are out of the prover's reach, and the properties of the documents, whose
readers are recursive operators.  `JoinedRenderIsNotStranded`, `TerminalIsFinal`, `CancelPrompt` and `SavedScenarioReproduces` do not hold.

## 5. What the models leave out

* Memory orders: atomics interleave sequentially.  The queue uses release stores and acquire loads
  and one writer per index, for which that is the usual reading.
* Spurious wakeups are modelled in SpscQueue and EventDispatcher and not in Workers, where every
  wait re-tests its predicate anyway.
* In the models of the threads samples are counted and not computed; `has_time_spec` is never set by any producer of
  blocks, so the check of the time spec in TxWorker is left out.
* Exceptions for lack of memory or threads, among them those that would end the process in a channel thread; `RunThrows` of
  RuntimeLifecycle has the one that leaves TX on, about which no property says anything, since nothing in the repository does.
* `start_tx` and `stop_tx` of several channels happen in any order, not only the plan's.
* `abort` reads the plan that `prepare` may be writing.  That is a data race on containers; RuntimeLifecycle has its two
  ordinary outcomes, before and after, and not a torn one.
* In the planning of Pipeline: `EmitterStart` and `EmitterStop` entries (which are never dispatched), sums of times that
  are not finite, plans without channel plans (the planner makes none).  The other fields of a plan are DocumentPlan's, where
  times are whole.  In neither: warnings, which refuse nothing.
* In the files: the texts of errors, and the opening of a file.  Repeated keys of JSON and anchors of YAML are the
  libraries'.
* In the signal: numbers.  What `configure` refuses is only known as refused; amplitudes are left out; the seeds are fixed, but
  for the phase noise, which takes a new one from `random_device` in every run, so that two runs of a scenario with phase
  noise differ.
* Not modelled at all: the resampler, the summer and the scaler, which nothing in a run uses; the reports' statistics;
  the tables of limits and regulations; the check against a JSON schema, which only its own test calls; the commands other
  than `scenario run`, which parse arguments, call the library in sequence and print.  They hold no state across calls and no
  order of calls matters to them.  The driver behind the UHD device, which does, is not in this repository.

## 6. What is left to do

1. That RuntimeRun implements the run of RuntimeLifecycle: `StartTx`, `StopTx` and the result map one to one, but the two
   have different ghosts of the device.
2. The clock, the time source and the log of the stub device, and the wait for samples to drain.
