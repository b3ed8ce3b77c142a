# A TLA+ model of raspberries

This directory models the three programs of the repository: `iralarm` (a
light-barrier alarm daemon with its control tool), `portexpander` (a kernel module
for an MCP23S17 port expander) and `netled` (a packet sniffer that blinks LEDs).
TLC checks the modules on small instances; TLAPS proves the theorems of the
`*Proofs` modules for every value of the constants. `PROJECT.json` lists the runs,
maps every definition to the lines it models and names the hazards each property
is for.

## The system

| Part | State | Operations | Interacts with |
|---|---|---|---|
| `irthread.c`, thread pool | table of 4 slots: flag byte (`actv`, `used`, `susp`), mutex, condition, data; pool mutex `tbusy` | start, stop, suspend, resume, setdata; the worker loop | main thread; callbacks suspend their own worker |
| `iralarmd.c`, main loop | `ir_recvd`, `ir_alrm_cycls`, `ir_recvd_cycls`, `astate`, thresholds | one cycle per 100 ms; SIGHUP reload; SIGTERM | interrupt thread and `iralarmctl` through one System V semaphore; shared memory; pool |
| `iralarmd.c`, outputs | pin levels | `alarm_thread`, `status_led` | pool, `irpio.c` |
| `irpio.c`, GPIO | function select, levels, PWM block | init, setpwm, selftest, setvalue, digitalWrite, lowall | main and worker threads |
| `irpio.c`, interrupts | `pinPass`, `pinMutex`, `sysFds` | `irpio_isr`, `interruptHandler` | kernel edges; calls `ir_flank` |
| `irxmpp.c` | `do_reconnect`, `thrd_conn_mtx`, libstrophe's loop | start, wait, stop, reconnect, commands, messages | main thread; in `irxmpp_thrd_callback` the semaphore and the mutexes `mtx_status`, `mtx_alarm` of the SIGHUP handler |
| semaphore and segment | value, last process (`GETPID`), existence | made and removed by `iralarmd`, probed by `iralarmctl` | outlive a killed process |
| `iralarmctl.c` | none of its own | get, set, all, shell | semaphore, shared memory, SIGHUP |
| `irshmem.c` | layout of the shared segment | init, getptr, free | daemon and `iralarmctl` |
| `portex_*.c` | register cache; the chip's GPIO and IODIR | load, unload, `gpioN`, `gpio_all` | sysfs writers, SPI |
| `sniffer.c` | `blink_count` per table entry | packet callbacks, `blinker_thread` | libpcap |

The hard behaviours are in the interleavings (bit-fields of one byte written without
the lock, condition variables without predicates, a signal handler that reads shared
memory beside its writers, unlocked cache updates), in calls that must return
(`irthread_stop`, `irxmpp_stopThread`, `irpio_isr`), in lost messages and transfers,
and in counters that are reset in one branch and kept in another.

What makes each part correct: a pool slot is never reused under a living worker, and
suspend, resume and stop reach a parked worker; alarms are raised and cleared only
with cause, and in the end always; the interleaved daemon behaves like the atomic
one; no output stays on after the alarm or the process has ended; each interrupt
thread serves its own pin and loses no edge; the connection thread starts and ends;
a write to the expander changes its pins and no others; an LED never stays lit.

## Modules

| Module | Models | Notes |
|---|---|---|
| `IrThread` | `irthread.c` | load and store of the flag byte are separate steps; `wpc`/`cpc` are the positions of worker and client |
| `AlarmLoop` | the decision of a cycle in `iralarmd.c` | abstract: a cycle, a flank, a reload, a store of `SHM_ALARM` by `iralarmctl` (`Overwrite`), a step of the wall clock are one step each; `quiet`, `beams` and `shown` (what the daemon published last) are history |
| `AlarmCycle` | the same loop with semaphore, interrupt thread, SIGHUP handler, `iralarmctl` | EXTENDS `AlarmLoop` for the decisions and implements it (`Abs`) |
| `AlarmOutput` | `alarm_thread`, `status_led`, start-up and SIGTERM | EXTENDS `IrThread`: the composition of the main thread with the pool; `thrd_alarm` is a variable that `alarm_thread` may read too early |
| `IrShmem` | the layout of the segment, loads and stores of its objects | operators only |
| `SemLife` | the life of semaphore and segment: daemon, interrupt thread, `iralarmctl`, each killed at any point, restarts | EXTENDS `IrShmem`; `tok`, `why`, `moved`, `died`, `clean` are history; the critical sections of `AlarmCycle` are one step pair here |
| `IrPio` | GPIO and PWM in the build without wiringPi | the tables are read as the code reads them, byte by byte |
| `IrIsr` | `irpio_isr` and the interrupt threads | any number of callers |
| `IrPioDaemon` | both halves of `irpio.c` in one process | EXTENDS `IrIsr`, `Pio == INSTANCE IrPio`; the process may be killed and started again, registers keep their values |
| `IrXmpp` | `irxmpp.c`, its callers in `iralarmd.c`, the commands and the SIGHUP handler they share locks with | libstrophe is external; of the other users of the semaphore only what they leave on the set is here (`MakeSemaphore`, `LatePost`, `ProbeRemoves`); `once`, `spur`, `why` are history |
| `PortBank` | what the expander promises | abstract specification |
| `PortEx` | `portex_spi.c`, `portex_sysfs.c`, `portex_init.c` | implements `PortBank` if two calls of `portex_write_cached` for one port do not overlap (`Exclusive`) |
| `NetLed` | `sniffer.c` | one mutex per entry, so handling a packet and a blink are one step each |
| `*MC` | instances for TLC | constants and symmetry |
| `*Proofs` | theorems | EXTENDS the component and TLAPS |

Correspondence. Variables keep the names of the C variables; a `pc` variable is added
per thread. An action stands for the code between two points at which another thread
could see a difference; the mapped lines name everything it stands for. Definitions
with a comment "Mutant" are altered copies of the definition that follows them; they
are used only to confirm that a property depends on the code it is about.

`AlarmCycle` refines `AlarmLoop` with one mapped variable: between the decision and
`ir_recvd = 0` the flanks count as consumed. A store of `minrecvd`, `minalarm` or
`rstalarm` by the handler maps to `Reload`, and each intermediate mix of thresholds
must be a configuration too (`Conf` is a product in the `AlarmCycle` runs). `do_set` of
`iralarmctl` takes every object: a threshold goes to `sh`, which `AlarmLoop` does not have,
and `SHM_ALARM` is the daemon's `*s_astate`, so that its store maps to `Overwrite`. The
daemon never reads that object; it writes it in the next cycle.

`PortEx` refines `PortBank` with `want` mapped to the register cache, `level` to the
chip's GPIO registers, and `ask` to the part of a writer's call whose cache update lies
ahead (`Ahead`): the store of the cached byte is the step at which one port of a write
is accepted, and it must change exactly the pins the write names. `gpio_all` is two such
calls: `Exclusive` keeps the calls for one port apart, not the whole writes, so that another
writer may come to either port between them.

Undefined behaviour. The unlocked reads and stores of the flag byte are data races;
the model takes them as loads and stores of a byte, which is what the compilers of the
target produce. In `ir_flank` and in `portex_write_cached` the same is done for
`ir_recvd++` and the cached byte.

## Runs

| Run | Shows |
|---|---|
| `IrThread` | two clients, one slot, failing `pthread_create`, spurious wake-ups: `LiveSlotIsNotReused`; `SuspendQuiesces` (at most one callback begins after `susp` is set), `ResumeWakesParked`, `StopOfParkedReturns` |
| `IrThreadStop` | violation: `irthread_stop` may hang, since its signal may come after the worker tested `actv` and before it waits |
| `AlarmLoop` | `NoFalseAlarm`, `NoEarlyClear`, `NoSkippedWarning` over reloads, zero thresholds, wrap-around at `SIZE`, stores of `SHM_ALARM` and steps of the clock; `InterruptedBarrierAlarms`, `ClosedBarrierClears`, `WarningEnds` |
| `AlarmCycle` | `ImplementsAlarmLoop`, `SemIsConserved`, `DeliveredSetTakesEffect`, `CyclesGoOn` with two `iralarmctl` that store thresholds or the alarm state |
| `AlarmOutput` | `AllLowAtExit`, `SilentAfterClear` with spurious wake-ups; `StatusBlinks`: the status LED blinks for ever, unless the alarm thread ran before `thrd_alarm` was set and suspended the wrong thread (`early`) |
| `SemLife` | `CycleIsExclusive`, `CleanStopLeavesNothing`, `NoBroadcast`, `LoopGoesOn` with two `iralarmctl` and two starts of the daemon; `ObjectsAreSeparate` |
| `SemLifePid` | violation: `iralarmctl` may signal another `iralarmctl`, or its own process group, in place of the daemon |
| `PortEx` | two writers whose calls for one port do not overlap, writes between the two ports of `gpio_all`, load, unload, a failing transfer: `ImplementsPortBank`, `CacheMatchesDevice`, `RegistersFollowModule`, `WriteTakesEffect` |
| `PortExShared` | violation: two overlapping calls for one port leave cache and device different |
| `NetLed` | `LedParity`, `NeverStuckOn`, `QueuedBlinkIsShown` |
| `IrXmpp` | `StartsConnected`, `StopIsNotUndone`, `StopEnds`, `StartEnds` with every set of options and spurious wake-ups; `SendsDoNotMix` (alarm and "status" are sent at once only after one of four named disturbances) and `ConfigIsSnapshot`; `HupReturns`: handler and `config` do not block each other |
| `IrPioDaemon` | two callers, failing `open` and `pthread_create`, a killed process and its successor: `HandlerHasItsPin`, `EdgeIsServed`, `IsrReturns`; `OutputsOff` before and after the self-test and at the end |

What `SemLife` says about mutual exclusion. The code loses it in three ways, and in no
other: a flank that comes between `irpio_isr` and `semget` finds no semaphore 0, goes on
without waiting, and may post the new semaphore without having waited for it ("early"); the
set of a killed daemon is posted once more by its successor ("leftover"); a probe of
`iralarmctl` removes the set that a starting daemon has meanwhile taken over ("probe").
The history variable `why` collects them, `CycleIsExclusive` excepts them, and
`CleanStopLeavesNothing` says that SIGTERM repairs each of them.

`SendsDoNotMix` rests on the same semaphore and meets the same disturbances, with one more,
since the connection thread runs before `semget` too. `IrXmpp` has a `why` of its own: a
"status" that began before `semget` and is answered after it ("status"); a set that `semget`
(without `IPC_EXCL`) takes over with a value ("leftover"); a set that a straddling flank, or
an `iralarmctl` left from before, has still to post ("due"); a probe that removes the set
("probe"). Each of the four alone lets `main()` send an alarm during the answer to "status".

What a reader of `SHM_ALARM` may rely on. `NoSkippedWarning` is about the daemon's
publications: ACTIVE is never published where the publication before was NONE. It says
nothing about a reader that polls more rarely than the daemon publishes, and between two
cycles the object has what an `iralarmctl -s` may have put there.

The wall clock. The grace period is measured with `time()`. `ClockStep` may set the clock at
any moment of a warning, at most `BACK` seconds before its start; `WarningEnds` therefore has
the premise that the clock is not set back again and again. A clock that is set forth ends
the grace period early; no property says that the ten seconds are kept.

Spurious wake-ups. `pthread_cond_wait` stands in an `if` in `irthread.c` and tests
nothing in `irxmpp.c`. In the pool every spurious wake-up lets a suspended worker run its
callback once more: `SuspendQuiesces` counts callbacks less spurious wake-ups, and
`AlarmOutput` shows that the outputs are right all the same. In `IrXmpp` main() can then
reach its loop, and SIGTERM its `do_reconnect = 0`, before the thread's
`do_reconnect = 1`: the history variable `spur` excepts exactly these runs from
`StartsConnected`, `StopIsNotUndone` and `StopEnds`.

Further disagreements of code and text, visible in the modules' definitions and
without a run of their own:

- `irxmpp_check_passwd_file` (`Forbidden`) accepts 0500, 0700 and the sticky bit; the
  message at `iralarmd.c:497` says "It must have mode 0400 or 0600!".
- An alarm raised while the stream is down is not sent and not repeated;
  `config.h:73` says "send a XMPP message if in alarm state".
- `pinToGpioR1` and `pinToGpioR2` are arrays of `int` read through a `const uint8_t`
  pointer (`pinToGpio` in `IrPio`), so wiringPi pins 1, 2 and 3 all become GPIO 0 and
  the directions of `config.h:19` go to the wrong pins. `digitalWrite` does not
  translate its pin at all.

### Bounds

- One slot and two clients make every contest of the pool (start against stop, two
  starts); `AlarmOutput` has the one client and the two threads of the daemon.
- `SIZE` 5 (3 in `AlarmCycle`) lets the counters wrap within a run; thresholds 0, 1
  and 2 lie below and at it (`minrecvd` 0 and 1, the others 0 in `AlarmCycle`, whose
  decisions are those of `AlarmLoop`). `MaxFlanks` bounds the flanks between two cycles; 2 is enough to be
  below, at and above `minrecvd`, and for the loss of one to be noticed.
- `GRACE` 2 (0 in `AlarmCycle`) stands for the ten seconds; time beyond it is one value, as is
  all time before the start (`BACK` 1; 0 in `AlarmCycle`, where the decisions are not the
  question). `Stored` has every alarm state and a byte that is none; one value in `AlarmCycle`,
  to which the store is one more step beside the others.
- `MaxRuns` 2 bounds starts of `iralarmctl` in `AlarmCycle`: two are needed for one to
  be signalled by the other. A shell gets any number of commands.
- Two ports of two pins: one pin to write and one to be left alone, one port to write
  and one to be left alone. Values 1 and 256, which is 0 as a `u8`. `MaxFails` 1: one lost
  transfer, of GPIO or IODIR, at any place, and the transfers that repair it.
- `LIMIT` is the code's 4; the packets cover every callback and the unhandled case.
- Two pins in `IrPioDaemon`: one caller inside and one waiting.
- `MaxCtl` 2 and `MaxStarts` 2 in `SemLife`: a probe beside a user of the semaphore, and a
  daemon with a predecessor. Ids of sets are used again when nobody remembers them.
- In `AlarmOutput` only the alarm thread wakes spuriously. In `IrXmpp` two settings stand
  for all: what differs between them is only which is copied first.
  `MaxLeft` 1: a value, or a post that is due, of one is enough for two to be in.

`CHECK_DEADLOCK FALSE` is given where the program may end or hang: the pool (a stop
that hangs, see `IrThreadStop`), the daemon after SIGTERM, a failed start.

### Fairness

Threads that can run do run (weak fairness); a thread that waits for a mutex or
semaphore that is free again and again gets it (strong fairness: System V semaphores
serve waiters in turn, and the mutexes are held for a few instructions beside waits of
50 ms and more). `PortEx` takes no lock; its strong fairness says that a writer gets on in
those behaviours in which the calls for one port do not overlap. In `AlarmCycle` only the main loop's semop needs the strong form. No
environment step has fairness: no edge, packet, client call, `iralarmctl` start, command
of its shell or SIGTERM has to happen. `IrXmpp` assumes that an attempt to
connect ends; that streams come and go is a premise of `StopEnds` and `StartEnds`, not
of the specification. `AlarmLoop` assumes that time advances,
and `WarningEnds` that it is not set back for ever.

## Proofs

Every invariant that a run checks is also a theorem, for all values of the constants.
Type invariants are proved and not part of the runs. A `*Proofs` module holds what is
proved of the component it extends and of the components that one is built from.

- `AlarmOutputProofs`, the pool. Type correctness; `FreeSlotSafe`, `LiveSlotSafe`. The
  invariant adds to the types who may be in which state of a slot: ids of clients are
  disjoint and refer to used slots with a worker, a stop in progress is the holder of
  `tbusy`, and a byte a thread has loaded has the `used` bit the slot will need when it is
  stored. That last part is needed since a store of a stale byte may undo another.
  `SuspendIsPrompt`: `SuspendQuiesces` alone is not inductive; `LateBudget` counts, besides
  the callbacks begun since `susp` was set, those that the worker's position and a signal on
  its way still allow, and says that together they are at most one. `StopSuspends` is needed
  for the stop, which clears `actv` in a worker that may be parked.
- `AlarmOutputProofs`, the outputs. `NothingDrivenAtExit` needs to know of every position of
  main() which of the two workers it still owns (`OutInv`); with the pool's invariant a
  worker that nobody owns has no thread, so that no callback is left to set a pin. The pool's
  theorems are for any clients and callbacks, this one assumes `DaemonPool`: the one client,
  the two callbacks, and that both threads can be made.
- `AlarmLoopProofs`. Type correctness; `AlarmIsJustified`, `ClearIsJustified`,
  `WarningIsPublished`. The invariant bounds `ir_alrm_cycls` by `quiet` and
  `ir_recvd_cycls` by `beams` where the state makes them count, and relates the
  state published last (`shown`) to the actual one. Thresholds, width, grace period, steps of
  the clock and stores of `iralarmctl` are arbitrary.
- `AlarmCycleProofs`. `MutexInv` (the semaphore is 1 when nobody is between two semops, else
  one is) gives `SemaphoreIsMutex`; the case to think about is the `iralarmctl` that is
  signalled by another one, which is not inside because the sender is. `FlankInv` (what
  `ir_flank` has loaded is still the value of `ir_recvd`) is what makes its load and store
  one step of `AlarmLoop`, and with it every action maps to a step or a stutter:
  `CycleImplementsLoop`. Its mapping is that of the run `AlarmCycle`; an `iralarmctl` that stores `SHM_ALARM` is the step `Overwrite`.
  `DaemonDecidesRight`
  then takes the theorems of `AlarmLoopProofs`, instantiated by the same mapping, over to
  the interleaved daemon. `CycleAssumption` asks of `Conf` that a mixture of two
  configurations is one, because `iralarmctl` sets, and the handler reads, one setting at a
  time; the code has no smaller set than that of all values.
- `NetLedProofs`. Type correctness and `LedParity`, for every even limit.
- `IrPioDaemonProofs`, interrupts. `IsrInv`: `pinMutex` excludes, a thread is starting only
  while its caller is inside, and `pinPass` keeps the pin until the thread has reset it. From
  it `PinHandOver` and `ReturnArmed`, with failing `open` and `pthread_create`, and, for the
  process that is killed and started again, `PinHandOverRestarted`.
- `IrPioDaemonProofs`, outputs. `OutputsAreLowered`: nothing is known of the levels a killed
  process has left, so `LevelInv` says of which outputs a loop has been past since
  (`LowSoFar`), and that no other pin can be set. `PwmInv` says that the PWM data register is
  0 because nobody ever writes another value to it: `pwmWrite` looks the register up by a pin
  number that is not translated.
- `IrXmppProofs`. `SemInv` (as long as nothing is recorded in `why`, the value and what main()
  and the callback owe add up to 1) gives `SendsAreSerialized`. `LockInv` and `DataInv` (who has
  which mutex, and that the settings differ only while main() has both) give
  `ConfigIsConsistent`. `OrderInv` (being woken means having been connected, which means that the thread is
  past `do_reconnect = 1`) gives `ConnectedBeforeLoop` and `StopStays`, spurious wake-ups
  excepted as in the properties.
- `SemLifeProofs`, what is left behind. `OwnInv` (whatever set there is while a daemon runs is
  the daemon's own or a probe's) gives `StopLeavesNothing`. `SignalInv` follows an `iralarmctl`
  from its probe to `kill`: as long as nothing has been recorded in `moved`, a semaphore that
  has disappeared means that the segment has, so that `irmem_exists` ends it; this gives
  `SignalsOneProcess`. For any number of `iralarmctl`s and starts of the daemon.
- `SemLifeProofs`, mutual exclusion. `CycleExcludes` follows from an account of the tokens
  (`ExclInv`): whoever is between two semops on the set that exists has a token of it
  (`TokenInv`), a set that nobody has used has neither value nor tokens (`UsedInv`), a set
  that is not the daemon's is still unused (`SetInv`), and as long as nothing is recorded in
  `why` value and tokens add up to one at most (`Undisturbed`). A new set has an id that no
  process remembers; that there always is one is the pigeonhole argument of `CreateIsNew`.
- `SemLifeProofs`, the segment. `StoresAreSeparate`: for every content of the memory and
  every 32-bit value, not only for the values of the run. The sum in `irmem_getptr` is shown to
  be a table (`Offsets`), the rest is arithmetic on bytes. `LayoutIsSound` is the run's
  `ObjectsAreSeparate`.
- `PortExProofs`. `RegistersAreRestored` from the types and from "no module, no writer".
  `CacheIsCoherent` and `DriverImplementsBank` assume `Exclusive`; the run `PortExShared` shows
  that they are false without. `ExclusiveInv` says what it is needed for: two
  calls for one port never overlap (`PortsAreExclusive`), hence a loaded byte is still that of the cache
  (`ByteIsFresh`), and only the port that is being written may differ from the device.

Assumptions of the proofs are the named `ASSUME`s of the modules, which TLC evaluates in
every run, and `Exclusive` and `DaemonPool` where a theorem says so: the runs `PortEx` and
`AlarmOutput` have constants that satisfy them.

Only model-checked: the liveness properties (fairness is out of the prover's reach), that
is `ResumeWakesParked`, `StopOfParkedReturns`, `InterruptedBarrierAlarms`,
`ClosedBarrierClears`, `WarningEnds`, `DeliveredSetTakesEffect`, `CyclesGoOn`,
`SilentAfterClear`, `StatusBlinks`, `LoopGoesOn`, `WriteTakesEffect`, `NeverStuckOn`,
`QueuedBlinkIsShown`, `StopEnds`, `StartEnds`, `HupReturns`, `EdgeIsServed` and
`IsrReturns`.

## Not modelled

- A failing `irthread_start` in the daemon: its result is not checked, the thread number
  it returns is then used as it is; and two daemons at a time.
- Semaphore sets and segments of other programs with the same keys or with id 0; process
  ids that are used again.
- libstrophe's stream error that is NULL: the handler of a lost stream (`irxmpp.c:418`)
  reads it unchecked, and the model (`Lost`) has it always set. What main() leaves open when
  `semget` fails beyond the stop of the connection thread: a SIGHUP that is pending then.
- The ten seconds of the grace period, and that a cycle shortened by SIGHUP (`iralarmd.c:575`)
  counts as quiet: the models have such cycles, no property forbids them. The directions of
  pins: `IrPio` has them, no property is about them (see the disagreements above).
- Texts of messages and whether they arrive; parsing of command
  lines, of `/proc/cpuinfo` and of shell lines; PWM clock registers; the raspivid child;
  logging; scripts.

## Plan

Done: `IrThread`, `AlarmLoop`, `AlarmCycle`, `AlarmOutput` with the start-up, `PortEx`,
`NetLed`, `IrXmpp` with the commands and the SIGHUP handler, `IrPio` and `IrIsr` in
`IrPioDaemon`, `IrShmem` and `SemLife`, with the proofs listed.

All invariants, the two refinements and the action properties are proved. What is left
for proofs: that `IrPioDaemon` and `AlarmOutput` refine abstract specifications of an output
and of a pool of threads, which would have to be written first.
