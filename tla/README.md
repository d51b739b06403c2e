# A verification of the cluster conversion firmware

TLA+ models, model checking and proofs for the firmware of the Nissan Sunny B12
Rz1 digital cluster conversion ECU. All paths below are relative to the
repository's root as it is checked out in `src/`; line numbers are those of
the commit that is modelled. There are no unit tests in the repository, so the
reference is the code and its comments.

## 1. The system

The firmware runs on an STM32F303 under FreeRTOS with preemption. It converts
two signals of the car (the fuel sensor's resistance, and the pulses of a speed
sensor) to what the digital cluster expects, and offers a console on a UART.
Settings and logged exceptions are kept in one page of internal flash. The
build that is modelled is the repository's default: tracing and nonvolatile
data on, CAN off, one flash block of 1024 bytes.

Contexts of execution:

| context | priority | runs |
|---|---|---|
| interrupts | above all | PWM input capture, end of a UART transmission, UART errors, system tick |
| `MAIN_startup_thread` | 3 | `startup_from_reset`, then `console_thread` for ever |
| `Cyc100ms` | 2 | `cycle_100ms` (fuel, speed); every eleventh time `cycle_1000ms` (`store()`) |
| `CycLow100ms` | 1 | polls the UART, triggers the watchdog |
| `TRACE_DebugPrint` | 1 | prints the trace buffer |
| fault handlers | - | raise a critical exception and never return |

### Inventory

| component | state | operations | hard to get right | what makes it correct |
|---|---|---|---|---|
| `NonvolatileDataHandler` | section table, shadow, default sections | add, resize, delete, write, read, `load`, `store` | long call sequences, two limits that disagree, error paths, a restart in the middle of `store`, writers that interrupt it; no lock | sections stay apart, in bounds and unharmed; what is stored loads; the flash holds a whole picture or none; it gets there and then stays quiet |
| EEPROM emulation (`eeprom.c`) | the flash page | erase, program words, read | errors and resets half way | an erased word is programmed once, in order |
| `ExceptionHandler` | list of exceptions, section EXCP | raise, init, console commands | three contexts without a lock, suspended threads, fault handlers, resets | bounded list without duplicates, section agrees with list, critical exceptions survive |
| `Watchdog` | trigger flag | activate, trigger, trigger_reset | a reset may beat the last `store`; the cycle that triggers it must not be held up | resets only what is stuck or condemned |
| kernel (`tasks.c`, `queue.c`) | priorities, ready and waiting lists, holders, notifications | take, give, notify, wait, delay, tick | a woken task finds the lock taken again, inherited priorities, nested mutexes | inversion is bounded, no wakeup is lost, nobody sleeps without a reason |
| C++ thread library (`gthr-default.h`) | list of waiting threads of a condition variable | timed wait, broadcast | a timeout beside a broadcast | whoever is in the list waits |
| `CyclicThread` | running and terminate flags | start, stop, join | a cycle that takes longer than its period, join against end of thread | the cycle runs again and again |
| `FuelGaugeInputFromADC` | raw and averaged readings, state, three counters | `cycle_100ms` | counters at 0, recalibration with old data | displays lasting changes, ignores noise |
| `FuelGaugeOutput`, `MainApplication` | mode, manual value, voltage | set level, commands | a command in the middle of an output | the DAC has what mode and sensor call for |
| `Algorithms` | - | outlier filter, averages, CRC | order of readings | agree with their definitions |
| `CharacteristicCurve` | points | `get_x`, `get_y`, to and from bytes | ends of the curve, sizes | interpolate, and survive a round trip |
| `SpeedSensorConverter` | ring of captures, mode, speed | capture callback, `cycle`, console settings | ring shared with an interrupt, division by a reading, hysteresis | speed of recent captures, 0 when there are none |
| `STM32PWM_IC` | prescaler, timer | `set_prescaler`, capture interrupt | interrupt during reprogramming | frequency fits the prescaler it was captured with |
| `ReplayCurve` | playing, paused, position | play, stop, cycle | commands in the middle of a cycle, wrap at the end | replays from end to end |
| UART driver | receive buffer, transmission | poll, read, write, end of transmission | a buffer two threads change and one locks; a transmission several threads wait for | characters arrive once, in order; texts go out whole |
| `OSConsole` | blocked flag, line | run, wait, read a line, dispatch | input between the check and the wait, an ignored timeout | what was typed is read |
| `Trace` | buffer, overflow counter | log, cycle | full buffer, two stores for a line, console in between | what is cleared was printed, once |
| `EOLData`, `Dataset` | settings, their sections | init, read, write, load default | other firmware, half-written sections, once-only write, reset before `store` | EOL data are for life, a dataset comes from one firmware |

How they interact: `Cyc100ms` calls fuel gauge, speed converter and `store()`;
the console changes speed mode, fuel mode, dataset, EOL data and the exception list
directly, from a thread that preempts `Cyc100ms` at any point; every component
raises exceptions by a direct call and logs to the trace; exceptions, EOL data and dataset
share the one shadow of `NonvolatileDataHandler`; everything that prints shares the UART;
UART and captures have interrupts. All waiting goes through the kernel.

`PROJECT.json` lists every component with its status, and under `hazards`
what is hard to test, at its line, with the properties that would notice it.

## 2. Modules

| module | models | role |
|---|---|---|
| `NvSections` | table and shadow of `NonvolatileDataHandler`: all operations, startup | component |
| `Eeprom` | `eeprom.c` on one page | operators used by `NvStore` |
| `NvStore` | `store()` step by step, its interruptions, errors and resets | component, composed with `Eeprom` |
| `DurableStore` | what nonvolatile data promises its users | abstract specification |
| `ExceptionHandler` | `excp_handler.cpp` on top of the promise | component, composed with `DurableStore` |
| `Settings` | `dataset.cpp`, `eol.cpp`, their commands, changes of the firmware | component, composed with `DurableStore` |
| `Algorithms` | averages, outlier filter, characteristic curves | operators used by `FuelGauge`, `SpeedSensor` |
| `FuelGauge` | `FuelGaugeInputFromADC`: buffers, counters, state machine | component |
| `FuelConverter` | fuel output, its modes, console commands against `Cyc100ms` | composed with `FuelGauge` |
| `SpeedSensor` | ring of captures, interrupt, capture modes, prescaler | component |
| `SpeedConverter` | output modes, manual speed, replay curve, commands | composed with `SpeedSensor` |
| `Kernel` | scheduling, locks with inheritance, notifications, delays | component, and what the next three are built on |
| `Uart` | write, poll, read, end of transmission, broadcast | operations of the driver on `Kernel` |
| `Console` | console thread and low-priority thread | composed with `Uart` |
| `Terminal` | trace and the threads that log | composed with `Console`: all that prints |
| `MC...` | instances for TLC | |
| `..._proofs` | theorems and proofs about the module they extend; `Terminal_proofs` also those about `Kernel`, `Uart` and `Console`, on which its own rest | |

```
  NvSections       NvStore --implements--> DurableStore <--INSTANCE-- ExceptionHandler, Settings
                      |
                    Eeprom

  FuelConverter --EXTENDS--> FuelGauge ------+
                                             +--EXTENDS--> Algorithms
  SpeedConverter --EXTENDS--> SpeedSensor ---+

  Terminal --EXTENDS--> Console --EXTENDS--> Uart --EXTENDS--> Kernel
      +------------------------implements------------------------^
```

`NvStore` is shown to implement `DurableStore`, and `ExceptionHandler` and `Settings` are
built on `DurableStore`: what is shown of them does not have to look at words
of flash again. `Terminal` is shown to implement `KernelSpec`, so that what is shown of
the kernel under arbitrary use holds for the program's threads.

### NvSections

One variable per member: `sections` (`m_flash_sections`), `data` (the shadow
behind header and table), `defaults`, and the loop variables of startup
(`todo`, `reserved`, `code`). Startup is one action per iteration of its loops
(`AcceptDefault`, `RejectDefault`, `LoadAdds`, `LoadResizes`, `LoadKeeps`); every call
of the interface is one action, with its result in `last`. Sizes and positions
are the code's bytes, contents are words of four bytes, the unit every size is
rounded up to. `m_u32_position` is a `uint16_t` in spite of its name, and is
taken modulo `PositionRange`. The two entry sizes are apart as in the code:
`add_section` and the loader's check of the number of entries count
`sizeof(FlashSection)` (12), `store` and the loader's table walk use
`sizeof(FlashSectionInternal)` (16).

Abstracted: names are model values; checksum, magic number and version accept
what `store` wrote and nothing else (`NoImage`); accesses through a section that
lies outside of the shadow are undefined behaviour, no step is taken through
one (`InData`, `SpliceDefined`), so that nothing is claimed about what happens
after. `moved` is a history variable: an inner section has been resized, after
which line 113 (see the findings) has damaged the table.

### NvStore, Eeprom and DurableStore

`store()` is taken apart into: clear and write header and table; checksum;
compare; erase; one step per word programmed. Between any two of them the main
thread may write a section, the flash controller may fail, or the device may be
reset, during an erase with any subset of the words already erased. `Reset`
includes `load()`, because nothing else runs before it. The checksum is ideal (the
contents it was computed from stand for it): what an 8-bit CRC misses is not
modelled. Each section is one word, word 1 is header and table.

`DurableStore` is the promise: RAM contents written at once, a `picture` taken now
and then, and `durable`, what a restart would find, which is the last picture
as a whole, or nothing while a new one is on its way. The refinement mapping
takes `picture` from the checksum in the shadow's header and `durable` from the page
if it is loadable.

### ExceptionHandler

The list is a sequence of entries (what `operator==` compares, and a count). The
main thread's `handle_exception` is one step for `Cyc100ms` (`MainHandles`), which has the lower
priority and does not run until the main thread waits. A critical one is two: it stops the refresh
of the watchdog (`MainTriggers`), is printed, for which the main thread may have to wait for the mutex of the
trace, and is recorded (`MainRecords`). `Cyc100ms` and its `store()` may run in between, and the watchdog may expire.
An exception that is not critical changes nothing before it is printed. `Cyc100ms`'s own `handle_exception` is taken
apart at each access to the list (`CycFinds` ... `CycWrites`), with its iterator
(`at`), its local buffer, and whether the list has changed under the iterator
(`disturbed`). A dangling iterator counts for whatever entry is there, or for
none. The operations of `std::vector` themselves are taken as atomic. Fault
handlers are one step after which nothing runs (`frozen`); a fault in the middle
of the main thread's own `handle_exception` is not modelled, nor is the second
exception an allocation failure inside the handler would raise. `store()` is the steps of
`DurableStore`. After a critical exception the watchdog is not refreshed any
more, and `WatchdogReset` may happen at any time from then on; nothing is assumed about how long it takes.
`MainCriticalSurvives` therefore speaks of resets that come after a `store()` begun since has come to its end. That one
usually has: the watchdog takes 2000 * 32 cycles of a clock of 30 to 50 kHz, 1.28 s at the least, and was refreshed at most
100 ms before the exception, and `Cyc100ms` begins a `store()` every 1.1 s.

History variables (`critical`, `secured`, `unsaved`, `raced`) only record what the properties
speak about.

### Settings

A dataset is taken apart into version, scalars and the two curves, and of each part it is
kept which firmware it comes from; a restart may start any of the `Firmware`. That is what `load_dataset` and
`write_dataset` could mix: both go through the pieces in order and may give up in between
(`Loaded`, `LoadSucceeds`, `WrittenDataset`). The curves' sizes in bytes are constants; that
they fit is an assumption (`CurvesFit`): datasets only come from the firmware's
default or from flash, no command enters a curve of another size. End-of-line data are what they license and a
serial number; `EnterEol` is the whole command with its guard, its write and its reading back.
Sections and restarts are the steps of `DurableStore`.

### Algorithms, FuelGauge and FuelConverter

`FuelGauge` is `cycle_100ms` as a function of the reading: `Cycle` primes the raw
readings, the buffer of averages and the record `gauge` (state, three counters, value).
The two switches are `Calibrated` and `Judged`, in this order, so that the cycle that ends
a calibration also judges, as in the code. The counter of slightly lower averages is
kept on `CounterRange` values because the code decrements it at zero; the other two
are bounded by the recalibration they cause. `Algorithms` keeps what the code does
with the minimum (`Gap`), with the order of the readings, with divisions (rounded
towards zero) and at the ends of a curve. `get_resistor_2_value` divides by
zero at full scale of the ADC (a broken wire), which the language leaves undefined; the
model takes what the processor's division gives, zero.

`FuelConverter` has the two threads. A cycle is private to `Cyc100ms` up to
its signal and is one step; from there on the choice of the level (`Update`), the voltage
(`SetOutput`), the DAC's voltage (`Amplify`) and the DAC (`Send`) are steps, between
which a command of the console may fall. The main thread has the higher priority, its
commands are one step. The DAC's clamping and register are not modelled, `dac` is what
it was last told. `Settle` is the environment: from there on the sensor stays at a level,
although readings may still fail.

### SpeedSensor and SpeedConverter

Speeds are in m/h, as in the code, and the frequency that stands for them is left out: the
factor between both is constant, except for the prescaler, which `Measured` applies to what the
timer counts (and wraps). Time passes in ticks of one cycle; readings have an age up to
`TooOld`. The capture interrupt may come between any two steps of a cycle, and in the middle of
the copy (`TornCopy`) and of the clearing (`TornClear`) of the one reading it replaces, which is
where it makes a difference. `set_prescaler` is two steps, between which captures are
converted with the wrong prescaler. `SpeedConverter` sends what mode, manual speed or replay
call for, in the code's steps (`Choose`, `ChooseReplay`, `Advance`, `LookUp`, `Send`), with
commands of the main thread in between. `replay` starts with arbitrary flags, as its members have no
initial value.

The environment is restricted: `attended` says whether the console is used, which it is
only while the car stands; the other case, a moving car with commands, would multiply two state spaces that only meet
in `shown`. From `Settle` on the car keeps its speed or stands, there are no commands, and no pulse hits the
few microseconds of each tick in which it would be torn. Moving cars have one
speed, 45 km/h, between the two thresholds of the capture modes, where a missing
hysteresis shows.

### Kernel

One action per critical section of the kernel: `Take` and `Wait` are the two outcomes of
`xQueueSemaphoreTake`, `Await` and `Awake` the two parts of `ulTaskNotifyTake`. A task that
was woken keeps its call and has to try again, as in the code. `Runs` is `vTaskSwitchContext`: a ready task of the
highest priority, any of them if there are several. `owner` of a binary semaphore is a
notion of the model: who has taken it gives it back, as `gthr-default.h` does.
Notification values are zero or not. Locks are waited for without a timeout, since
the program does so; recursive mutexes, creation and deletion of tasks are left out.

### Uart, Console and Terminal

`at` is where a thread is in its own code, `driver` where it is in the driver; both together are its program
counter, and `Kernel` decides who may go on. A text is one unit for the UART: it is sent from
`Transmit` to the interrupt. `usage++` in `uart_process_cycle` is a load and a store (`Put`, `Count`), since the
console's `read` may come in between; `read` itself is one step,
because only the console calls it, and nothing of lower priority interrupts it. Characters are numbered as they arrive,
so that order and loss show; from `MaxInput` on the numbers are equal. Of a typed line it
is kept whether there is something on it. What a character does to it is `Echo` (append or erase; a typed NUL is echoed and
appends nothing), `NothingToErase` or `EndOfLine`. A command prints and ends (`Answer`), or asks for more
input (`Ask`), which is read in the same way, but no longer keeps the trace from printing.

`Console` has the two threads that share the receive buffer. The wait is that of
`gthr-default.h`: a list of tasks under a binary semaphore, and a task notification. The mutex that `wait_for` is
called with is local to its caller and never contended, and left out. What `Terminal` adds is the
trace: prefix and message of a line are two stores, `PrintFormatted` by `vsnprintf` with its terminator,
`PrintRaw` for what reaches the trace by `_write` of `stdlib.cpp`. `PrintRaw` writes its terminator where the code does, at twice
the usage plus the length: into the buffer, or behind it, where the usage, the overflow counter and the mutex
are. It may clear the counter; if it hits anything else in use, the memory is `damaged`, and the model ends,
since nothing can be claimed of what follows. There is one interface, and the log of the
main thread during startup, before the other threads run, is left out.

## 3. What is checked

TLC, on the instances below. `fuel` takes about three minutes, each other run less than one.

| run | states | what it shows |
|---|---|---|
| `sections` | 43 802 | the properties of `NvSections` through startup, four calls and power cycles with three firmware versions |
| `store` | 388 461 | `NvStore` implements `DurableStore`, is loadable when idle, converges and comes to rest |
| `excp` | 666 784 | the properties of `ExceptionHandler` |
| `fuel` | 262 116 | the properties of `FuelGauge` and `FuelConverter` |
| `speed` | 119 216 | the properties of `SpeedSensor` and `SpeedConverter` |
| `kernel` | 614 618 | the properties of `Kernel`, whatever three tasks do with it |
| `console` | 44 240 | input from the UART to the console, with liveness |
| `terminal` | 647 477 | four threads that print and log |
| `settings` | 4 405 | the properties of `Settings` over three firmware versions |
| `resize_relocates`, `listeners_wait`, `cycle_is_executed` | | findings: what a comment says and the code does not do (section 5) |

Properties of `sections` (`TypeOK` is not listed; where no run has it, a theorem or its proof does):

- `CleanLayout`: while no inner section was resized, sections lie in table order,
  disjoint, uniquely named, and fill the shadow exactly;
- `StoredLoads`: an image stored from such a table without empty sections loads,
  and yields the same sections and words;
- `OnlyTableOverflowStopsStore`: `store()` fails for one reason only, a table
  that `add_section` let grow past what `store` can write;
- `ContentFrame`: a call on one section leaves the words of the others alone;
- `FailedCallsChangeNothing`: an error of parameters or memory has no effect.

Properties of `store`:

- `IdlePageIsLoadable`: between two `store()`s a restart finds the sections, unless
  nothing was stored yet, the last one was torn by a concurrent write, or one
  was cut short and none has succeeded since;
- `KeepsPromise`: every behaviour is one of `DurableStore`; in particular a
  restart never finds a mix of two pictures;
- `EventuallyDurable`: when writes, faults and resets end, the page ends up with
  what the shadow holds, also after torn and failed `store()`s;
- `EventuallyQuiet`: and it is not erased again and again.

Properties of `excp`:

- `ListIsBounded`, `NoDuplicates`: in every interleaving in which `Cyc100ms` does
  not add an exception to a list that changed since it looked;
- `SectionIsCurrent`: between two exceptions the section agrees with the list,
  except in the named cases (list too long for the section, cleared, overtaken by
  an older buffer, or duplicates restored);
- `RestartRestores`: what the section held is listed after startup if the
  list has room (and no race has made it longer than its maximum, with entries twice);
- `MainCriticalSurvives`: a critical exception of the main thread is in flash
  after a reset, provided that the last `store()` begun after it had come to its end without an error.

Properties of `fuel`:

- `OutputIsCurrent`: between two outputs the DAC has what mode, manual value and sensor call for,
  unless a command fell into the last one;
- `NormalOnlyLowers`: in normal operation the value falls by single steps and does not rise.
  There is one exception, written into the property: `std::max(0, ...)` in
  `fuel_gauge_input.cpp:243` raises a value below empty to 0;
- `CalibrationIsExact`: the cycle that ends a calibration does not judge the new value by old counters;
- `Converges`: from every state, a sensor that settles ends up displayed: the value is no
  more than the threshold below it and no more than a step above, for ever.

Properties of `speed`:

- `StandstillIsShown`: once no reading is recent any more, the next cycle shows 0, unless a reading was torn while the
  ring was cleared (`Phantom`: its speed stays in a slot without a time);
- `OutputIsCurrent`: as for fuel, with the replayed curve as a third source;
- `Converges`: a car that keeps its speed ends up with this speed on display and on the PWM, from
  every state of ring, timer and capture mode: the prescaler is not switched to and fro;
- `Replays`: without commands the curve is sent from end to end, again and again.

Properties of `kernel`:

- `RaisedByMutexOnly`: a task that holds no mutex is back at its own priority;
- `InversionIsBounded`: while the holder of a mutex can run, nothing runs that has a lower priority than
  one that waits for it. A task that waits and holds a mutex itself is excepted: what it inherits in its
  sleep it does not pass on;
- `NoLostWakeup`: a lock that is free and waited for is wanted by a task that is ready, and that is the right one;
- `SleepsForAReason`: nobody sleeps on a notification it has, or is in no list it waits in.

Properties of `console` and `terminal`:

- `InputInOrder`: what `read` returns and what is in the buffer is in the order of arrival, each character once, although
  `read` does not lock;
- `PhantomsFollowTimeouts`: the console takes a character nobody has typed only if a wait for input has timed
  out before (100 s);
- `InputIsRead`: whenever there is input, the console takes a character, although it may just have decided to sleep;
- `WritesAreWhole`: a text is not left before it is out, and the HAL never refuses one, although writers wait for the
  UART before they take its mutex;
- `TraceIsKept`: what is cleared of the trace buffer has been transmitted, and nothing is transmitted twice.

Properties of `settings`:

- `EolIsForLife`: as long as the flash holds end-of-line data, the program works with these and refuses to change them;
- `DatasetIsWhole`: the dataset the program works with has all its values and curves from one firmware, and
  from none newer than the one that runs.

**Bounds.** `NvSections`: four names, sections of one or two words on a page of four data
words, a table for three entries by `store`'s count and five by `add_section`'s, four
calls or power cycles: enough for a table that overflows in one count and not
in the other, for a full page, for an upgrade that resizes the first section
and adds one, and for a faulty default table. `NvStore`: three sections of two
values, three writes, two resets, one fault; one reset during an erase and
one during the repair of what it left are both reached. `ExceptionHandler`: four
exceptions, a list of three, a section for two, four exceptions or commands and two
restarts: the list outgrows the section and its own bound. `FuelConverter`: three readings (full, below
empty, broken wire), two to an average, two averages to a calibration, four errors to a
recalibration, two slightly lower averages to a step, a counter of 16 values. With
them refill, error recovery, the wrapped counter and a value
below empty in normal operation are all reached; the buffers are shorter than the code's,
which the proofs make up for. The counters of `FuelConverter` need no bound. The exceptions of `ExceptionHandler` but one
are symmetric, and the properties treat them alike. `SpeedConverter`: a ring of three readings, which are valid for two ticks, the factors of
the prescalers (16 and 1) and of the wrapping counter as in the code, thresholds as in the code, one speed and one
manual speed, a curve of three points; ten readings more would only repeat what three
show, since a cycle looks at the newest ones. `Kernel`: three tasks of three priorities, two mutexes that can be
nested, one semaphore: the least in which a task of medium priority stands between holder and waiter, and a waiter holds
a mutex itself. `Console`: a buffer of three characters, which overflows, and four
numbers, so that three characters in a buffer differ. `Terminal`: buffer and number of one, since it is not about
input; one logging thread, `Cyc100ms`; a trace buffer that holds one text and refuses the next, a counter
modulo two. `Settings` has no bound but the constants: three firmware versions with curves of other sizes, two licences, two serial numbers.

**Fairness.** `NvStore`: `WF_vars(Cycle)`, the steps of `store()`. The
scheduler runs `Cyc100ms` whenever the main thread waits for input or sleeps
(`console_thread` sleeps 10 ms in each round), a running `store()` is always enabled
to continue, and the thread starts the next one within 1.1 s. Nothing is
assumed about writers, faults and resets, which are bounded in number by
the instance; without a bound they could keep the page from being written.
`FuelConverter`: `[]<><<Reads>>_vars`, the 100 ms cycles never stop and again and
again one gets a reading from the ADC. `Cyc100ms` is cyclic and runs whenever the main
thread waits; an ADC that never converts again would leave the value as it is.
`Settle` is not fair, `Converges` only speaks of behaviours in which it happens.
`SpeedConverter`: `[]<><<Elapse>>_vars`, in each tick a cycle runs to its end. `Console`:
`SF` for the steps of each thread, `WF` for timers and the end of a transmission. Strong fairness is needed because a
thread of lower priority is enabled again and again, and not all the time; it is justified as long as the processor is not
saturated, as the threads above it sleep most of the time. It is for this reason that `Terminal` states no
liveness: there `CycLow100ms` never sleeps (it takes 100 ms to find out that there is no input, and `sleep_for` of
what is left, nothing, returns at once), and `TRACE_DebugPrint` has the same priority.

Deadlock is checked where the system is never at rest (`store`, `speed`, `console`, `terminal`, `settings`). `sections`, `excp` and `fuel` end
with their bounds, with the halt that critical exceptions cause or with the first cycle; in `kernel` tasks may take their locks in any order.

Every property has a mutant in `PROJECT.json`: a plausible slip in one of the mapped
definitions (`Bug...`, beside the original) that TLC notices as a violation of that property.

## 4. What is proved

TLAPS proves the following for every value of the constants that satisfies
the named assumptions. No theorem depends on the bounds. The assumptions are `NvAssumption`, `FlashHoldsHeader`, `PageAssumption`, `StoreAssumption`,
`HeaderAssumption`, `ExcpAssumption`, `FuelAssumption`, `SensorAssumption`, `ConverterAssumption` (one for the fuel output, one for the
speed output), `KernelAssumption`, `UartAssumption`,
`ConsoleAssumption` (nothing has the console's priority), `TerminalAssumption`, `SettingsAssumption`, `BlankAssumption`
and `CurvesFit` (the firmware's default curves fit into their sections). Those of the sensors say
that sizes, weights and thresholds are integers of the signs the code's types have, that curves are lists of points, that the ADC has a
largest value, and that there is a replay curve. The relations among thresholds that they add hold of the code's
constants: `InvalidDistance < FullRange` (keeps every weight positive), `Calibration < NumAverages`, `LowerThreshold + 1 < CounterRange`,
`LowBelow <= HighFrom`. `SectionStaysCurrent` has the hypothesis
`BoundExceedsSection`: a list of the maximum length does not fit into the section, as in the firmware, where ten
exceptions are the maximum and four fit.

- `NvSections_proofs`: `TypeCorrect`, `LayoutIsClean`, `ShadowAlwaysFits`, `StoredImageLoads`,
  `StoreFailsOnlyOnTable`, `FailuresAreClean`, `CallsKeepContents`. `CleanLayout` is not inductive: a power cycle
  replaces table and shadow by the image in flash, so the
  invariant carries the layout of the image and of what the parser makes of
  it as well; sizes are multiples of four, which makes words and bytes agree;
  and `ShadowFits` is carried for the image, where it has to survive even with a
  damaged table. The bulk of the proof is that `Spliced` and `Grown` have the
  length the table expects. `StoredLoads` is then a consequence of the image's
  layout: positions in order make the last end the extent. A call keeps the contents of other sections because the
  words before a new or a cut one stay as they are, and because sections in order consist of words in order
  (`WordsFollow`), so that a write into one misses all others.
- `NvStore_proofs`: `TypeCorrect`, `RestartFindsSections`, `PromiseKept`. The invariant
  relates each `pc` to what is on the page: the words before `word` were programmed
  from the header or the sections, the rest is erased, and
  without a tear they agree with the checksum. For the
  refinement each action is shown to be a step of `DurableStore` or to leave its variables alone
  (`PromiseStep`); a page that is partly erased or programmed with a foreign checksum
  is not loadable, by `HeaderAssumption`.
- `ExceptionHandler_proofs`: `TypeCorrect`, `BoundKept`, `NothingTwice`, `SectionStaysCurrent`, `ReadingRestores`,
  `CriticalSurvives`. The invariant adds
  what `Cyc100ms` may rely on at each of its steps as long as it is not `disturbed`: its
  exception is not in the list and there is room for it, or its iterator is valid.
  Three more invariants build on it. `SectionInv`: while the section is read, the list grows into what the section holds, and
  between a change by `Cyc100ms` and its write nothing is claimed. `RestoreInv`: what the section held is
  listed or still to come, or else the identifiers of a full list, counted, show that there was no room.
  `CriticalIsKept`: once written, a critical exception is in the section, once `store()` has begun in the
  picture, once it is done in flash.
- `Algorithms_proofs`: `AverageIsBetween`, `WeightedAverageIsBetween`, `OutliersRemoved`, `LookUpIsBetween`,
  `LookUpMeetsPoints`, `ReverseLookUpIsBetween`. The induction is one over least elements (`SetInduction`): a natural number for which a statement
  fails would have a least one before it (`WFMin` with `NatLessThanWellFounded`), where it cannot fail. Sums lie between `n` times the
  smallest and `n` times the largest reading; C's division, which truncates towards zero, keeps to integer bounds.
  The filter takes one reading away as long as it goes on, so that the recursive function behind it is defined where it is applied.
- `FuelConverter_proofs`: `TypeCorrect`, `BuffersStayBounded`, `CountersStayInRange`, `NormalOperationOnlyLowers`,
  `CalibrationStaysExact`, `LevelsStayOnScale` and `OutputStaysCurrent`. One invariant ties the counters to the state: past a threshold is only
  possible in the state that leads to the recalibration, and the counter of slightly lower
  averages is within its threshold after each cycle because a wrapped one is above it and is cleared
  by the step it causes (this needs `LowerThreshold + 1 < CounterRange`). This suffices for sizes and counters, whatever the averages are. The value on
  display needs what `Algorithms_proofs` says of them: readings, averages and the value are integers (`TypeInv`), and they are on the
  sensor's scale (`ScaleInv`), since looking up, averaging and weighting do not leave it and a step towards an
  average does not pass the average. In normal operation only `Compared` and `Watched` change the value, and only downwards. For a calibration, the value is the average that
  the cycle then judges it by: no counter moves (`JudgedByItself`). The output is current because each of its steps goes on
  from what the one before has left, or a command has fallen in between.
- `SpeedConverter_proofs`: `TypeCorrect`, `StandstillStaysShown`, `OutputStaysCurrent`. `Newer` orders the readings as the numbers `Order` do, so that every set of
  them has a newest one; what is taken one by one consists of readings of the ring (`TakenFromRing`) and their filtered average is no faster than the
  fastest. In a ring without a recent time only cleared readings can be taken, whose speeds are 0, unless a pulse that came
  between two steps of the clearing has left a speed behind (the property's exception). For the output, the invariant (`CurrentInv`) says for
  each place of `Cyc100ms` what the steps so far have chosen, or that a command came since.
- `Settings_proofs`: `EolStays`, `DatasetStaysWhole`. What RAM, picture and flash hold are blank sections or such as some firmware wrote as a whole
  (`SectionsInOrder`, with `CurvesFit`); after startup the dataset is one the running firmware understands (`DatasetsUnderstood`), the
  EOL data in the object are those of the section (`EolAgrees`), and picture and flash hold these or none (`EolIsStored`), so that no
  `store()` brings any others, not even one that a reset cuts short.
- `Terminal_proofs`, of the kernel, under arbitrary use: `TypeCorrect`, `PriorityReturns`, `InversionBounded`, `WakeupsArrive`, `SleepersHaveReasons`. Waiting
  lists and calls agree (`WaitersSleep`: who is in a list sleeps with that call, and is in it once), the lists are sorted by priority
  but for tasks that hold a mutex and may have inherited one since (`Sorted`), and the holder of a mutex has at least the
  priority of those that wait for it (`Boosted`).
- `Terminal_proofs`, of the console and the driver: `ConsoleTypeCorrect`, `InputStaysInOrder`, `PhantomsNeedTimeouts`. First the kernel's invariant is carried over (each step of the
  threads uses the kernel's operations), then who holds the UART's mutex is tied to the places of the driver (`UartHeld`), and
  the flag of a finished transmission to its text (`FlagIsFresh`). Then the priorities:
  the console is above all others, so that when the low-priority thread runs, the console sleeps or waits for what that thread
  holds (`LowRuns`, `MainRests`). The low-priority thread can be caught between loading the usage and storing the sum, since a
  delay may end there; but a console that finds characters prints before it reads, and has to wait for
  the UART's mutex, and one that finds none reads nothing (`Counting`). So the buffer keeps what it holds in order (`BufferInv`). Until the
  first timeout a pending notification stands for a character that is in the buffer (`PatientInv`).
- `Terminal_proofs`, of all that prints: `TerminalTypeCorrect`, `TextsAreWhole`, `TraceIsPrintedOnce`, `ProgramUsesKernel`, for any number of
  threads that log. The invariant says who holds the mutex of the buffer at which place (`BufferHeld`) and, for each place of the trace thread, how
  much of the buffer is unseen (`Seen`). `ProgramUsesKernel` is the refinement: every step of the program is a step
  of `Kernel` or leaves it alone.

`LevelsAreOnScale` and `BuffersAreBounded` are stated by theorems only. They hold on the instance of `fuel` too, but no run lists them: the theorems
say more than a run with two short curves could.

Only model-checked are the liveness properties (`EventuallyDurable`, `EventuallyQuiet`, `Converges` of both sensors, `Replays`,
`InputIsRead`), which are beyond the prover. All safety and action properties that a run expects to hold are theorems as well. What stays with TLC
besides are the three runs that expect a violation.

## 5. Findings

With a run that shows the violation:

1. `ResizeRelocates`: `nonvolatile_data_handler.cpp:113` has `=+` for `+=`; resizing
   or deleting any section but the last one destroys the positions of those behind it.
   An upgrade that changes a default size takes this path in `load()`.
2. `ListenersWait`: a timed wait that ends while a broadcast takes it out of the list leaves a notification that
   nobody waits for. The next wait finds it and returns without leaving the list (`gthr-default.h:287-299`); from then on the
   thread is listed twice, and `read_input_line` takes the -1 of `read` for a character.
3. `CycleIsExecuted`: `uart_process_cycle` returns after 100 ms without a character, and the watchdog is
   triggered behind it (`main_application.cpp:358`): continuous input keeps the low-priority cycle from ever
   beginning again, and ends in a reset.

Stated by a property that its model violates, which TLC shows in a few steps when it is added to `MCTerminal.cfg` or
`MCExceptionHandler.cfg`:

- `LossIsCounted`: `debug_printf_internal` counts an overflow when only one place is left (`trace.cpp:186`), but `vsnprintf` is
  given one place less than there is and stops one before. Lines that find a buffer filled by lines are lost without being
  counted, and the warning of `trace.hpp:106` never comes; after a text of `printf`, which takes the last place, they are.
- `SafelyStored`: a critical exception is "safely stored in EEPROM" (`excp_handler.cpp:187`) in RAM only. After a
  fault handler it never gets further, as nothing runs any more; after the main thread it does if a `store()`
  comes to its end before the watchdog expires.

Read in the code and reproduced by the models, without a property of their own, because no line of the repository says
otherwise or the disagreement is not a property of behaviour:

- an empty section is skipped by `store`, but leaves a blank entry in its place, with which the loader refuses the
  whole image (`nonvolatile_data_handler.cpp:251`);
- in `load()` each section's result overwrites the one before (lines 154, 163);
- two threads at `excp_handler.cpp:531` make the list longer than its maximum, and the test for equality never
  shortens it again;
- `fuel_gauge_input.cpp:234` tests one counter and decrements another, which wraps at 0: the displayed value is lowered by an average
  that is not lower;
- a recalibration clears the counter of lower averages twice and that of higher ones never (`fuel_gauge_input.cpp:273`), and keeps the
  averages, so that it ends after one cycle;
- the displayed speed is set to 0 in front of the comparison with it (`speed_sensor_converter.cpp:350`), so that the threshold against
  restarting the PWM never applies;
- `util_algorithms.hpp:79` takes the minimum of the maximum and the element; contradictory
  readings are averaged with full weight if the last one is the largest;
- `Cyc100ms` may send a sensor value it chose before the console selected manual mode (`main_application.cpp:464`);
  the value stays until the sensor signals again;
- the flags of the replay have no initial value (`replay_curve.cpp:26`): a replay may start paused;
- the trace thread checks for the console's line and then waits for the UART (`trace.cpp:235`): its text can land in
  a line the console has begun in between;
- `debug_printf` writes its terminator at twice the usage plus the length (`trace.cpp:173`), beyond a buffer that is half full; the model
  follows it up to where memory in use is damaged;
- a thread creates its trace context in a vector that others walk (`trace.cpp:106`, `267`);
- end-of-line data are reported as written and can be entered again after a reset that comes before the next `store()` has finished
  (`eol.cpp:90`, `146`);
- "write flash" writes the dataset that was loaded, whatever firmware it came from, under the firmware's own version;
- the lookup table editor edits a copy that nothing puts back, and accepts one data point more than there are
  (`lookup_table_editor.cpp:69`);
- `CycLow100ms` never sleeps (`thread_base.cpp:81-91`, its cycle takes longer than its period).

## 6. Plan

What remains, in the order of importance:

1. `CyclicThread`'s start, stop and join, as soon as something in the firmware stops a thread.
2. More than one interface of the trace, and its contexts and levels.

## 7. Not modelled

- Register access (ADC, DAC, PWM, ports, clocks, the prescaler of the watchdog) has no state of its own that a property
  could be about; what can fail of it is an input of the models (`read_adc_value`, flash errors).
- The text of console dialogues and logs, the splitting of a line, the bytes of headers and
  entries, bit masks: data that no property tells apart.
- What an 8-bit checksum fails to notice, exhaustion of heap and stack, and what happens after undefined behaviour.
- The CAN stack, which is switched off in this build, and the vendored HAL, newlib and most of the C++ library.
- Of FreeRTOS, what the program does not use: queues with items, timers, event groups, stream buffers, suspension
  of the scheduler, the CMSIS adapter, the port. FreeRTOS and the CAN stack are the larger part of the
  lines in the repository; `Kernel` models the paths the firmware takes through `tasks.c` and `queue.c`, and the
  models do not try to cover the others.
