# Verification of the Magneto X printer software

This directory holds TLA+ models of the parts of this repository in which several
processes, threads, boards or power cuts meet: the over-the-air update engine, the link
between the host and the micro-controllers, homing across micro-controllers, the print
session with its macros and timers, the toolhead buttons, the linear motor service, the
timers of the micro-controller, the supervision of a heater and the queues of steps. TLC
checks every model on small instances; for seven of them TLAPS proves the main
properties for every instance.

Each definition is a translation of code. `PROJECT.json` names the lines of each ("map"),
the runs, the mutants that show that each property can fail, the hazards that led to the
properties, and the theorems.

## The system and its models

    magneto-ota (systemd) -> ota-update.sh -> files, units, backups       OtaEngine

    clients -> G-code mutex, macros, print file, timers, idle timeout      PrintSession
       |            |  shell commands
       |            +-> magneto-manager (Flask) -> linear motor board      MagnetoManager
       |
    heaters.py, mcu.py, homing.py, buttons.py, stepcompress.c
       |            heater renewals                                        HeaterGuard
       |            homing session, trdispatch.c                           HomingSync
       |            move slots, step messages                              StepQueue
       |            button reports, runout                                 ButtonEvents
       v
    serialqueue.c <== blocks, acks ==> command.c           SerialTransport, ReliableLink
                                         |
                              sched.c, armcm_timer.c           SchedTimers, TimerQueue

`ReliableLink` and `TimerQueue` are the abstract specifications of the link and of the
scheduler. `SerialTransport` and `SchedTimers` are shown to implement them; `HomingSync`,
`ButtonEvents`, `HeaterGuard` and `StepQueue` use what they promise: commands arrive once
and in order with any delay, and timers are called in the order they are due.

| Module | Code | State | Actions |
|---|---|---|---|
| `OtaEngine` | `ota-update.sh` and its two units | the files, marker, records and backups as the kernel shows them, what a power cut would leave of them, the flock, the program counter and variables of each shell | one per command or durable step of every phase; a failing command, a killed shell, a journal commit, a power cut with reboot |
| `SerialTransport` | `serialqueue.c`, `command.c`, `serialhdl.py` | the sequence numbers, queues and timer of `struct serialqueue`, `next_sequence`, the block being executed, both lines | build, retransmit, receive; find, dispatch, send; loss or damage |
| `HomingSync` | `trsync.c`, `endstop.c`, `stepper.c`, `trdispatch.c`, `mcu.py` | trsync and stepper of each board, the dispatch state, the home session, four kinds of queues | the commands, the expire, report and endstop events, the fast-reader callback, each stage of `home_start`/`home_wait`, shutdown, time, loss |
| `PrintSession` | `gcode.py`, `reactor.py`, `virtual_sdcard.py`, `pause_resume.py`, `delayed_gcode.py`, `idle_timeout.py`, `gcode_macro.py`, `gcode_shell_command.py`, `macros.cfg` | the mutex and its queue, each process's rest of script, the print file, pause, timers, heaters, motors | one per command of a script; a macro is expanded, with the status of that moment, when it is executed |
| `ButtonEvents` | `buttons.c`, `buttons.py`, `gcode_button.py`, `magneto_toolhead.cfg` | `struct buttons`, messages and acknowledgements, each running `handle_button`, the mutex, the runout macros | sample, send, acknowledge; receive; each callback; the double check; the lines of the job |
| `MagnetoManager` | `magneto-manager.py` | each request thread, `serial_lock`, the connection and the open handles, the configuration and its backup | each request that uses one of them, in the steps between which another thread can run; the board leaves and returns, or refuses to be opened; the service is killed |
| `SchedTimers` | `sched.c`, `generic/armcm_timer.c` | the linked list, the hint, the countdown, the handler, the tasks, and as a history what users asked for or were told in the last step | an iteration of `timer_dispatch_many`, a round of tasks with a command, shutdown, input, a tick |
| `HeaterGuard` | `heaters.py`, `mcu.py`, `adccmds.c`, `gpiocmds.c` | `Heater`, `MCU_pwm`, a reading and commands on their way, `digital_out_s` and its timer | set a target, the temperature callback, a reading, an output event, a delivery, a failure of host or link, a tick |
| `StepQueue` | `stepcompress.c`, `serialqueue.c`, `basecmd.c`, `stepper.c` | the queues of stepcompress, the heap of `steppersync`, the messages, the pool and the queues of moves | `add_move`, `steppersync_flush`, delivery, `stepper_load_next`, a tick |

The `MC*` modules hold only the small sets given to the constants (and, in `MCStepQueue`,
an assumption TLC evaluates: `heap_replace` compared with its reference definition for all
heaps of up to six slots over a few clocks). The `*Proofs` modules hold the theorems; those
of the link build on `SerialTransportSteps`, which has its inductive invariant and what the
steps of the two ends and of the lines preserve.

### What the models abstract

- A G-code line, a message or a file content is a member of a small set. In `OtaEngine` a
  content is the release it came from, or absent, or torn.
- Times are small integers that keep the ratios that matter; clocks wrap in `SchedTimers`
  (and the sequence numbers and 8-bit counts in `SerialTransport` and `ButtonEvents`), and
  nowhere else.
- A block of `SerialTransport` is intact, lost or garbage: the checksum is taken to detect
  damage.
- A definition whose name ends in `_something` behind that of another one is a plausible
  bug in the same code, used only to show that a property can fail.

## Runs

Each finishes in less than four minutes with two workers. All but `print_cold` pass; that one
is expected to find its property violated.

| Run | Properties | What it shows |
|---|---|---|
| `ota_power` | `TypeOK AllOrNothing PowerCutRecoverable GateTruthful NamedBackupsComplete BootRecovery` | two releases, two power cuts and a fault anywhere: files of two releases are never mixed once a run is over; whatever a power cut leaves is complete or is made complete by the restore its durable marker asks for; the version gate never refuses an update that is needed; every backup that is named is complete; an interrupted update is rolled back at boot |
| `ota_manual` | `IdentityUntouched` | with `OTA_FORCE`, `--restore-last` and a release that names `printer.cfg`: the per-printer files are never written |
| `transport` | `TypeOK AckedIsExecuted BufferSuffices LinkRefined ResponseBeforeCompletion AllAcknowledged` | five blocks on a sequence number of three values (it wraps), from any number the board may expect, with a loss, a premature timeout and an unsolicited message: `SerialTransport` implements `ReliableLink`, an acknowledged block was executed, a response precedes the completion, the receive buffer suffices, every block is acknowledged in the end |
| `homing` | `TypeOK OverrunBounded HomedTogether SessionFresh NoStaleStep HomeWaitReturns` | two homing moves in a row, endstop and stepper on different boards, slow messages, two lost reports: no stepper that has its first deadline runs on for more than the timeout after a board stopped to take part; a reported trigger means that all stopped after it and in time; nothing of the first move is left in the second; no late step moves an axis whose position was read; `home_wait` returns |
| `print_all` | `TypeOK PoweredMoves CancelCools` | two clients, every sequence of requests, no failing commands, no saved mesh: no print line moves with the motors off, and a cancel leaves the heaters off and the file closed |
| `print_faults` | `PauseHolds ResumeDisarms MotorsKept RequestsAnswered` | two clients and failing moves, homings and shell commands: a pause holds, the cool-down timer does not fire during a RESUME, nothing switches the motors off during a print, every request is answered |
| `print_cold` (violation) | `HotMoves` | two clients, one of which loads filament in a pause: the cool-down timer fires while RESUME waits for the mutex, and the print goes on with a cold nozzle |
| `buttons` | `ReportedOnce Tracked ReportsArrive RunoutPauses` | three changes of two buttons, a lost message, a count that wraps: each report is handed on once and in order, and all of them are; the host ends in agreement with the pins and a runout pauses the job, unless callbacks overlapped |
| `manager` | `ConnectionOwned SendRecovers ConfigSafe` | two threads, three requests, a board that returns twice or refuses to be opened, one kill: the writer owns the one open connection, a send fails only if the board was away or could not be opened, and at the (first) kill the configuration or its backup is whole, one thread editing it |
| `sched` | `ListOK QueueRefined TasksRun` | two driver timers on a clock of ten values: the list stays sorted across the wrap; what was added and neither deleted nor ended is on it with the time its user asked for, and is called when due and in order (`SchedTimers` implements `TimerQueue`); tasks run under any load of timers |
| `heater` | `HeatBounded NoFalseAlarm` | any powers, targets and readings, a failure at any moment: the heater is off `max_duration` after the last command, and nothing is shut down while everything works |
| `steps` | `SlotsSuffice NoStarvation` | more moves than slots, steps pushed back by up to the time a message takes: no message arrives before a slot is free for it, and none is held back past its first step |

### Bounds

Every bound is a constant named `Max...` (or `LastStart`, `Horizon`, `Earlier`, `Retries`) and is a
guard of the action it limits. They are chosen so that the interesting case happens:

- OTA: two releases and two backups, of which one is kept, so that pruning happens; two
  power cuts, so that the restore at boot is interrupted too; two shells.
- Transport: three sequence numbers with two blocks pending is the tightest allowed
  configuration, as 16 and 12 leave more room; five blocks pass the wrap.
- Homing: a timeout of three ticks with a report every two, so that one lost report brings
  the deadline near and the second one makes it pass; eight ticks leave room for the
  timeouts of both moves. A query is asked again once (`Retries`; the code has five). With
  one move, three slow messages and two lost reports `OverrunBounded` and `HomedTogether`
  hold as well (2.8 million states, not kept as a run).
- Print: a job of a preheating line, `PRINT_START`, a move and `PRINT_END`; the number of
  requests is not bounded. `SavedMesh` is FALSE in one run and TRUE in the other, so that
  PRINT_START takes both ways through `MESH_LOAD`.
- Buttons: the count starts at 7 of 8 and wraps during the run.
- Manager: three requests over two threads let one thread send while the other connects
  and disconnects.
- Scheduler: half the range of the clock (5) exceeds the times in use, as the code demands.
- Heater: the ratios of `heaters.py` (renewal at three quarters of the maximum) over more
  than two maximal durations.
- Steps: two slots and four moves, steps up to one tick late (`Late`) and one tick of travel
  (`Travel`), so that the assumption `Late <= Travel` is met with nothing to spare.

`CHECK_DEADLOCK FALSE` is set where the system may rest: a link without work, a printer
after homing, a service without requests, an empty step queue.

### Fairness

- `OtaEngine`: a shell that was not stopped goes on, and systemd starts the enabled verify
  unit at boot. Faults and power cuts are not fair.
- `SerialTransport`: both ends poll their inputs, and the host its timer. Losses are bounded.
- `HomingSync`: threads and boards run, time passes, and a query that was asked for the last
  time raises its error in the end; nothing is assumed of the endstop.
- `PrintSession`: the reactor resumes every greenlet whose wait is over, and no command waits
  for ever, as `verify_heater` turns a heater that does not warm up into a shutdown.
- `ButtonEvents`: the timers and threads run and the job's lines end.
- `SchedTimers`: the clock runs, interrupts are served; strong fairness for the main loop,
  which gets on between two runs of the handler because `TIMER_DEFER_REPEAT_TICKS` is positive.

## Proofs

| Module | Theorems | For every |
|---|---|---|
| `OtaEngineProofs` | `TypeCorrect`, `UpdateIsAllOrNothing`, `PowerCutsAreRecoverable`, `NamesAreComplete`, `IdentityIsUntouched`, `GateIsTruthful` | set of files, sequence of releases, number of shells, faults and power cuts |
| `SerialTransportProofs` | `TypeCorrect`, `AcknowledgedIsExecuted`, `LinkImplemented`, `ResponsesComeFirst`, `BufferIsEnough` | range of the sequence number larger than the window, receive buffer, first number of the board, number of blocks, losses, premature timeouts and unsolicited messages |
| `PrintSessionProofs` | `TypeCorrect`, `PausedPrintWaits`, `MotorsStayOn` | set of clients, offered requests, print file of the commands in `PrintAssumption`, set of failing commands |
| `HomingSyncProofs` | `TypeCorrect`, `OverrunIsBounded`, `SessionsAreFresh`, `NoStepIsStale` | number of boards, steppers, homing moves and lost reports, and every timeout, report time and lead |
| `ButtonEventsProofs` | `ReportsAreHandedOnOnce` | set of buttons, size of the buffer and range of the count with `MaxReports < AckMod \div 2`, number of changes, losses and messages under way |
| `HeaterGuardProofs` | `HeatIsBounded`, `AlarmsAreReal` | duration, cycle, power and report time with `Renew + 2 * Report <= MaxDuration` |
| `MagnetoManagerProofs` | `ConnectionIsOwned`, `SendsRecover`, `ConfigIsSafe` | number of threads, requests, enumerations of the board and restarts |

The assumptions are those of the modules (`OtaAssumption`, `HomingAssumption`,
`TransportAssumption`, `PrintAssumption`, `ReportsAssumption`, `Configuration`,
`ManagerAssumption`), which TLC evaluates in the runs;
the OTA theorems also assume that nobody starts an update over the marker of a dead one
(`"rerun" \notin Manual`, see below), and `GateIsTruthful` that the operator does nothing at
all (`Manual = {}`): OTA_FORCE may install an older release, and `--restore-last` leaves the
recorded version behind. `ConfigIsSafe` assumes that one thread serves the requests that edit
the configuration (`OnlyEditor`), because two may empty the file and its backup at once.

**OTA.** `AllOrNothing` speaks of moments when no shell runs; it is not inductive. `Inv`
says of the file system as the kernel shows it, and separately of its durable image, that
it is complete or that the backup named by its marker makes it so (`SafeImage`); that no
installed file has unwritten data and an unsynced marker names a backup of exactly the
present files (`DirtyInv`); that only the holder of the lock is not idle (`LockInv`); and
what holds at each point of a run (`RunInv`), for example that before the first rename the
backup covers every file of the release. A commit may make any part of the dirty names
durable, which is why the order backup, sync, marker, sync, rename is needed.

The per-printer files need one more fact about the way of a file: a release is vetted before
its files are copied or written, so that no backup, in memory or on the disk, ever holds a
copy that a restore could put back (`Spared`). The version gate needs two: the files, and the
copies in the backup that the marker names, are those of the recorded release or later ones,
on the running system as on the disk, whichever of the dirty names a commit made durable
(`Truthful`); and a run past the gate carries a release newer than the recorded one and has
written every file it does not still list (`Gated`).

**Link.** The numbers on the lines have four bits; the invariant says which full number each
of them stands for. `Expected` is the full number the board waits for. Every block on the
line is less than the range of the numbers below it, so an old block sent again is never
taken for the one expected (`Line`); every answer on the line is at most `Expected`, and the
answers never fall, so the host recovers the number each was sent with (`Replies`). Below
`Floor` everything was executed, and a block is completed only below it and only once its
response is no longer under way (`Taken`, `Unconfirmed`). With the same invariant every step is a
step of `ReliableLink` or none: `LinkImplemented` is the refinement itself, not only its
invariants. `BufferIsEnough` needs two more facts (`Buffer`): a block on the line is followed
by no more blocks than were built after it, and the window counts the last acknowledged block
until a pure ack says that it has left the buffer. The property, and so the theorem, leaves
out what the code does not promise: a retransmission, and a query that was sent more than
once because an unsolicited message ended the wait for its answer, before the size of the
buffer is known (`handshake <= 1`).

**Print session.** `Mutex` gives the rules of the G-code mutex that all else rests on: who has
a script holds or awaits it, and each kind of process can tell from its own state whether it
does. `PauseHolds` is not inductive: PAUSE spans several commands, between which others run
scripts. `Pausing` adds that a paused print was told to stop (`Halted`), that the second half
of a pause has only the wait for `work_handler` in front of it (`Pauses`), and that a request
to start a print, made in standby, has at most timers ahead of it in the queue (`Starts`), so
that it never overtakes or follows a pause. For `MotorsKept`, `Motors` says that the timer is
off from the end of PRINT_START to that of PRINT_END: PRINT_START disarms it before anyone
else can run (`Starting`), and whatever arms it is the last command of the file's own
PRINT_END or comes behind the closing of the file (`Arms`), as in CANCEL_PRINT. The commands
are sorted once by what they do to the file, the pause and the timers (`Outcome`), so that
each invariant looks at a dozen cases and not at every command.

**Homing.** What the host knows of a board is its last report, so a deadline moves only as
far as the slowest board has reported. `Horizon` is the time until which a board can have
said that it takes part: now, or the moment it triggered (not before the start clock). No
deadline, armed or in a command under way, is more than the timeout behind the horizon of
another board (`Bounded`, `CommandOK`), and no report, under way or noted, is ahead of its
board's horizon (`ReportsOK`); so a moving stepper, whose deadline has not passed, is within
the timeout of every board that stopped. `trsync_start` and the first `trsync_set_timeout`
are two commands, so a board may move before it has a deadline; `Timing` says that the
deadline is then under way, and the property leaves out that moment (`Unarmed`). That sessions do not mix rests on the stages of
`home_wait`: a board that was asked to stop and answered has nothing under way (`Quiet`,
`Stopping`, `PhaseOK`). That no step is stale rests on `StepsOK`: a step under way meets a
stepper that runs in its session, one that refuses it until it is reset, or a `trsync_start`
in front of it, and no reset overtakes it (`Behind`).

**Buttons.** `ReportedOnce` relates four sequences, and what is under way decides whether it
is kept. Every message is a slice of the reports made (`Slice`) whose start the board had
freed up to and whose end is not before what the host has, in the order of the messages
(`Placed`); the acknowledgements under way add up to exactly what the host has and the board
has not freed (`Freed`). The host's arithmetic then gives the start of a message back from
its 8-bit count, because the distance is at most the buffer, which is less than half of the
range; the lemmas on `%` are proved in the module (`ModAdd`, `ModDiff`).

**Heater.** The bound rests on the pin alone: while it heats its timer is armed, for a
moment not later than `end_time`, which is the clock of a waiting command or one
`max_duration` after the loaded one (`Pin`, `Limit`). That there is no false alarm needs the
host too: at most one command is on its way and at most one waits, each the successor of
the one before (`Chain`), and the next reading comes at most one report after the time of
the renewal (`Renewed`, `Reading`, `Punctual`).

**Service.** Added to `ConnectionOwned` are: who works on the connection holds the lock
(`Locked`), what is open is at most the handle `serial_connection` names (`Single`), and a
thread that never was without a board it could open and has reconnected has a handle of its
present enumeration (`Fresh`). `ConfigSafe` needs to know what is whole at each step of a request:
the file, except between its opening and its writing, and from the copy of the backup on
also the backup and the text that will be written (`Rollback`).

Every inductive invariant was checked with TLC on the small instances first.

Only model-checked: everything else. Liveness under fairness and `ENABLED` are out of the
prover's reach (`BootRecovery`, `AllAcknowledged`, `HomeWaitReturns`, `RequestsAnswered`,
`ReportsArrive`, `RunoutPauses`, `TasksRun`); so is induction over data (`heap_replace`, the
walk along the timer list, hence `ListOK` and `QueueRefined`) and any module with a
`RECURSIVE` operator (`StepQueue`, hence `SlotsSuffice` and `NoStarvation`). Three properties
are true of the runs' instances and not of every value of the constants, so they are no
theorems: `Tracked` holds only while the changes fit into the report buffer, `HomedTogether`
only while few reports are lost, and `CancelCools` without failing lines (see below).
`PoweredMoves` too depends on the print file: a file that moves before its PRINT_START, or a
shell command that fails, are outside it; what it says of the timer is `MotorsKept`.
`ResumeDisarms` is left to TLC as well.

## Where the code and its comments or documents disagree

Met while modelling. The first one of the print session is shown by the run `print_cold`;
otherwise the properties are stated so that they hold, and exclude these cases.

Update engine:
- An update started over the marker of a killed one saves the half-applied files as its
  backup (`ota-update.sh:445`, `:554`; `ota/README.md:61-62`). With `"rerun"` in `Manual`
  TLC finds `AllOrNothing` violated.
- `--restore-last` leaves `installed-version` as it is, and the gate then says "already up to
  date" (`ota-update.sh:357`, `:232-244`). `GateTruthful` is checked without it.
- The version is recorded before the units are installed, and a failure in between is never
  repaired (`ota-update.sh:489`, `ota/README.md:55`); the unit files are copied without a
  sync and may be torn by a power cut, so that the boot-time verify is not loaded
  (`ota-update.sh:499`, `ota/README.md:60-62`). `BootRecovery` assumes that it is.

Print session:
- RESUME disarms the cool-down timer first, to keep `M104 S0` from being queued "against the
  resumed print (#48)" (`macros.cfg:157-161`). But the timer renders its script when it fires
  (`delayed_gcode.py:34`): if it fires while RESUME waits for the mutex, behind a
  LOAD_FILAMENT of another client that heats the nozzle, the script is queued behind RESUME,
  disarming has no effect any more (`:45-46`), and the print goes on cold. `print_cold` has
  the behaviour; `ResumeDisarms` says what the disarming does achieve.
- RESUME without a pause sets the nozzle to the last pause's temperature (`macros.cfg:162`).
- CANCEL_PRINT while a line's error is handled is refused by SDCARD_RESET_FILE, and the rest
  of it, PRINT_END included, is skipped (`macros.cfg:180`, `:190`). `CancelCools` is checked
  without failing lines.
- `is_paused` survives the start of another print, which then cannot be paused
  (`pause_resume.py:62`; `docs/G-Codes.md:885`, `:897`). `PauseHolds` therefore speaks of a
  pause that stopped the file.
- BED_MESH_CALIBRATE within 30 s of the end of a print leaves the delayed disable running
  last (`macros.cfg:523-524`).

Buttons:
- When a callback waits for the mutex, the next report is compared with the same
  `last_button`, and the late one sets it back (`buttons.py:79-83`): a runout behind a waiting
  press is not acted on, and the load button's release during LOAD_FILAMENT makes the next
  press no change. `Tracked` and `RunoutPauses` exclude overlapping callbacks.

Homing:
- The query of `MCU_trsync.stop` takes any `trsync_state` for its answer
  (`serialhdl.py:310-321`, `mcu.py:212`). When the three last reports of a board are lost one
  after the other and an older one is still under way, a board that timed out is taken for
  one that did not, and `home_wait` reports a trigger. `HomedTogether` is checked with two
  lost reports; with the code's ratio of report time to timeout (2 to 5) TLC finds it violated
  with three, on behaviours in which the endstop is hit after the other board timed out.
- A query that is never answered is an error that `home_wait` does not catch
  (`serialhdl.py:324-326`, `mcu.py:212`): the state of the boards that were not asked yet is
  unknown afterwards. The model ends there (phase `"failed"`).

Service:
- Two requests for the two uuids overlap without a lock (`magneto-manager.py:353`, `:389`); the
  `manager` run has them on one thread.
- After a kill during the write the next request copies the emptied file over the good backup
  (`magneto-manager.py:432`; comment at `:470-471`). `ConfigSafe` speaks of the first kill.
- A client's timeout while its request waits for the lock lets ENABLE and DISABLE change
  places (`magneto-manager.py:230`).

Firmware: the fork disables the check "Stepper too far in past" (`stepper.c:166-167`), so
nothing limits how far steps are pushed back; `SlotsSuffice` is checked with `Late <= Travel`.

## Not modelled, and why

- **Numerical code**: look-ahead, trapezoids, step generation and compression, kinematics,
  clock synchronisation, PID, bed mesh. Real arithmetic without a state machine; what the
  models need of its timing is a constant (`Lead`, `Late` and `Travel` in `StepQueue`).
- **Hardware and I/O**: processor ports, CAN and USB drivers, buses, sensors, stepper drivers,
  displays and lights.
- **Encoding**: variable-length integers, checksums, the data dictionary, JSON requests.
- **Start-up**: connecting, configuring and restarting micro-controllers; a reset of a
  micro-controller within a session (`command.c:16`).
- **Choice among send queues**: several command queues and their packing into blocks.
- **User interface and scripts run by hand**: KlipperScreen panels, bootstrap, flashing and
  discovery scripts, the deprecated `update.sh`.
- **Vendored libraries** under `src/Klipper/lib`. They are by far the largest part of the
  repository (of some 2.65 million lines), so that the share of all lines that the models
  cover is well below one percent, and no model of this code could raise it much; of the
  files named above the models cover the parts in which state changes.

Within the modelled parts:
- `HomingSync`: one endstop and one stepper per board; oversampling and step timing are left
  out. With a single board, a lost last report leaves `home_wait` waiting (`trsync.c:161`).
- `PrintSession`: fans, coordinates, print statistics, M23 to M27; `print_faults` leaves out
  LOAD_FILAMENT and BED_MESH_CALIBRATE. `mainsail.cfg`, with the `[virtual_sdcard]` section, is
  not in the repository; `on_error_gcode` is taken to be empty (`LineRaised`). Clients send the
  requests their pages offer in the present state (`Offered`).
- `MagnetoManager`: the launch of the motor GUI, whose check of the last process has no lock
  and promises nothing (`magneto-manager.py:206-207`).
- `ButtonEvents`: the runs keep the changes within the report buffer; when it is full the last
  edge is not reported (`buttons.c:48`).
- `SchedTimers`: a driver's callback ends, reschedules itself, or ends and deletes another
  timer; fields of timers that are not on the list are cleared; the wrap timer of fast
  processors is left out.
- `HeaterGuard`: `update_digital_out`, hardware PWM, `verify_heater`. A heater set below the
  significant change is switched off only with the next renewal, as in the code.
- `StepQueue`: the intervals between steps; a late step is one that comes up to `Late` ticks
  after its nominal clock, and a message takes at least `Travel`. The other
  outputs use the reserved slots; stopping and resetting a stepper is in `HomingSync`.
- `OtaEngine`: the print that may start between preflight and the restart of the services
  (`ota-update.sh:276`) is not part of it.
