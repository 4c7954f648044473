----------------------------- MODULE HomingSync -----------------------------
(***************************************************************************)
(* Homing with the endstop on one micro-controller and steppers on others: *)
(* the trigger synchronisation of src/trsync.c, src/endstop.c and          *)
(* src/stepper.c, its dispatch in klippy/chelper/trdispatch.c, and the     *)
(* homing session of MCU_endstop and MCU_trsync in klippy/mcu.py.          *)
(*                                                                         *)
(* Commands reach a micro-controller in order and exactly once (module     *)
(* ReliableLink) but with any delay; what it sends may also be lost.  The  *)
(* clocks are the host's estimates, taken to be exact; timers are punctual.*)
(***************************************************************************)
EXTENDS Integers, Sequences

CONSTANTS
    Mcus, EndstopMcu,
    Steppers,       \* the micro-controllers with steppers of the axis
    ExpireTicks,    \* TRSYNC_TIMEOUT
    ReportTicks,    \* 0.4 of it
    MinExtend,      \* 0.8 of that
    Retries,        \* of a query without response, 5
    Lead,           \* how far the start of the move lies ahead
    MaxTime,        \* bound: ticks
    LastStart,      \* bound: until when a homing move may start
    MaxSlow,        \* bound: until when a message may take more than a tick
    MaxDrops,       \* bound: messages to the host that are lost
    MaxSteps,       \* bound: queue_step messages per stepper and session
    MaxSessions     \* bound: homing moves

ASSUME HomingAssumption ==
    /\ EndstopMcu \in Mcus /\ Steppers \subseteq Mcus
    /\ ExpireTicks \in Nat /\ ReportTicks \in Nat \ {0} /\ MinExtend \in Nat
    /\ Retries \in Nat
    /\ Lead \in Nat /\ MaxTime \in Nat /\ LastStart \in Nat /\ MaxSlow \in Nat
    /\ MaxDrops \in Nat /\ MaxSteps \in Nat /\ MaxSessions \in Nat

None == -1

\* trigger_reason; 0 before a trigger.
ENDSTOP_HIT == 1
COMMS_TIMEOUT == 2
HOST_REQUEST == 3
PAST_END_TIME == 4

VARIABLES
    now,
    \* micro-controllers: struct trsync, its stepper, the endstop
    mcu, homing,
    \* messages: the trsync command queues, the step queues, to the host, in
    \* the fast reader callback
    toMcu, stepQ, toHost, callback,
    \* trdispatch.c
    td, lastStatus, expireClock,
    \* mcu.py
    phase, session, completion, waiting, homeEnd, handler, lastParams,
    todo, asking, retries, res, result, steps, startClock,
    \* history: when a trsync stopped to be triggerable in this session
    trigAt,
    drops

mcuVars == <<mcu, homing, trigAt>>
lines == <<toMcu, stepQ, toHost, callback>>
dispatch == <<td, lastStatus, expireClock>>
session_ == <<phase, session, completion, waiting, homeEnd, handler, lastParams,
              todo, asking, retries, res, result, steps, startClock>>
time == <<now, drops>>
vars == <<mcuVars, lines, dispatch, session_, time>>

Cmd(c, a) == [cmd |-> c, arg |-> a, ses |-> session]
State(can, reason, clock) ==
    [can |-> can, reason |-> reason, clock |-> clock, ses |-> session]

----------------------------------------------------------------------------
(* src/trsync.c, src/stepper.c, src/endstop.c *)

Cleared == [can |-> FALSE, reason |-> 0, expire |-> None,
            reportAt |-> None, signal |-> FALSE, stepper |-> "idle",
            down |-> FALSE]

\* Mutant: the stepper stops but takes further queue_step commands.
stepper_stop_accepts(x) == [x EXCEPT !.stepper = "idle"]

\* stepper_stop: the queue is emptied and SF_NEED_RESET set.
stepper_stop(x) == [x EXCEPT !.stepper = "needReset"]

\* trsync_do_trigger on the state x of a micro-controller.
trsync_do_trigger(x, reason) ==
    IF ~ x.can THEN x
    ELSE LET y == [x EXCEPT !.can = FALSE, !.reason = reason, !.signal = FALSE]
         IN  IF x.signal THEN stepper_stop(y) ELSE y

\* shutdown(): the shutdown handlers of trsync.c and stepper.c.
Shutdown(x) == [Cleared EXCEPT !.stepper = stepper_stop(x).stepper, !.down = TRUE]

\* sched_add_timer: "Timer too close".
TooClose(clock) == clock < now

\* The state after a command.  "start" is trsync_start and the
\* stepper_stop_on_trigger behind it, which goes out at once (required clock 0)
\* and which nothing that happens in between depends on.
Handle(x, c, signal) ==
    CASE x.down -> x
      [] c.cmd = "start" /\ ~ x.down ->
            IF TooClose(c.arg) THEN Shutdown(x)
            ELSE [Cleared EXCEPT !.can = TRUE, !.reportAt = c.arg,
                                 !.stepper = x.stepper, !.signal = signal]
      [] c.cmd = "set_timeout" /\ ~ x.down ->
            IF ~ x.can THEN x
            ELSE IF TooClose(c.arg) THEN Shutdown(x)
            ELSE [x EXCEPT !.expire = c.arg]
      [] c.cmd = "trigger" /\ ~ x.down ->
            [trsync_do_trigger(x, c.arg) EXCEPT !.expire = None, !.reportAt = None]
      [] c.cmd = "home" /\ ~ x.down ->
            IF TooClose(c.arg) THEN Shutdown(x) ELSE x
      [] c.cmd = "home_off" /\ ~ x.down -> x
      [] c.cmd = "emergency_stop" /\ ~ x.down -> Shutdown(x)

\* A trsync that can no longer trigger: remember when.
Note(m) == trigAt' = [trigAt EXCEPT ![m] =
                         IF mcu[m].can /\ ~ mcu'[m].can THEN now ELSE @]

\* The send queue picks the earliest required clock: what an earlier move
\* queued for the stepper goes before the trsync_start of the next one, and
\* this before the steps of its own move, which may overtake the deadlines.
StartInOrder(m, c) ==
    c.cmd = "start" => \A i \in 1 .. Len(stepQ[m]) : stepQ[m][i].ses = c.ses
StepInOrder(m, c) ==
    \A i \in 1 .. Len(toMcu[m]) : toMcu[m][i].cmd = "start" => toMcu[m][i].ses # c.ses

\* command_dispatch of one command.
Deliver(m) ==
    /\ toMcu[m] # <<>>
    /\ StartInOrder(m, Head(toMcu[m]))
    /\ LET c == Head(toMcu[m])
           x == Handle(mcu[m], c, m \in Steppers)
       IN
       /\ toMcu' = [toMcu EXCEPT ![m] = Tail(@)]
       /\ mcu' = [mcu EXCEPT ![m] = x]
       /\ toHost' = IF c.cmd = "trigger" /\ ~ x.down
                    THEN [toHost EXCEPT ![m] = Append(@, State(FALSE, x.reason, 0))]
                    ELSE toHost
       /\ homing' = IF m # EndstopMcu THEN homing
                    ELSE IF x.down \/ c.cmd = "home_off" THEN None
                    ELSE IF c.cmd = "home" THEN c.arg ELSE homing
       /\ Note(m)
    /\ UNCHANGED <<stepQ, callback, dispatch, session_, time>>

\* command_queue_step and command_reset_step_clock.
DeliverStep(m) ==
    /\ stepQ[m] # <<>>
    /\ StepInOrder(m, Head(stepQ[m]))
    /\ stepQ' = [stepQ EXCEPT ![m] = Tail(@)]
    /\ LET x == mcu[m] IN
       mcu' = [mcu EXCEPT ![m] =
           IF x.down THEN x
           ELSE IF Head(stepQ[m]).cmd = "step"
           THEN IF x.stepper = "needReset" THEN x ELSE [x EXCEPT !.stepper = "moving"]
           ELSE IF x.stepper = "moving" THEN Shutdown(x)
           ELSE [x EXCEPT !.stepper = "idle"]]
    /\ Note(m)
    /\ homing' = IF mcu'[EndstopMcu].down THEN None ELSE homing
    /\ UNCHANGED <<toMcu, toHost, callback, dispatch, session_, time>>

\* trsync_task: wakes after a trigger or a report timer and sends the state.
trsync_task(m) ==
    toHost' = [toHost EXCEPT ![m] = Append(@, State(mcu'[m].can, mcu'[m].reason, now))]

trsync_expire_event(m) ==
    /\ mcu[m].expire = now
    /\ mcu' = [mcu EXCEPT ![m] =
                  trsync_do_trigger([@ EXCEPT !.expire = None], COMMS_TIMEOUT)]
    /\ IF mcu[m].can THEN trsync_task(m) ELSE UNCHANGED toHost
    /\ Note(m)
    /\ UNCHANGED <<homing, toMcu, stepQ, callback, dispatch, session_, time>>

trsync_report_event(m) ==
    /\ mcu[m].reportAt = now /\ now < MaxTime
    /\ mcu' = [mcu EXCEPT ![m].reportAt = now + ReportTicks]
    /\ trsync_task(m)
    /\ UNCHANGED <<homing, trigAt, toMcu, stepQ, callback, dispatch, session_, time>>

\* endstop_event, endstop_oversample_event: the last sample agreed.
endstop_event ==
    /\ homing # None /\ homing <= now
    /\ homing' = None
    /\ mcu' = [mcu EXCEPT ![EndstopMcu] = trsync_do_trigger(@, ENDSTOP_HIT)]
    /\ IF mcu[EndstopMcu].can THEN trsync_task(EndstopMcu) ELSE UNCHANGED toHost
    /\ Note(EndstopMcu)
    /\ UNCHANGED <<toMcu, stepQ, callback, dispatch, session_, time>>

----------------------------------------------------------------------------
(* chelper/trdispatch.c, in the background thread of each micro-controller *)

\* set_home_end_time was called for the endstop's trsync and has passed.
PastEnd(m, msg) == m = EndstopMcu /\ homeEnd # None /\ msg.clock >= homeEnd

\* handle_message: a report arrives.  If a fast reader is registered its
\* callback is about to run (one that would return at once is left out); the
\* Python thread has _handle_trsync_state or, during stop(), the query as its
\* handler.  That this thread lags behind is covered by the delays of the line
\* and of the main thread.
handle_message(m) ==
    /\ callback[m] = <<>>
    /\ toHost[m] # <<>>
    /\ toHost' = [toHost EXCEPT ![m] = Tail(@)]
    /\ LET msg == Head(toHost[m])
           pastEnd == handler[m] = "state" /\ msg.can /\ PastEnd(m, msg)
       IN
       /\ callback' = IF td.active /\ td.can THEN [callback EXCEPT ![m] = <<msg>>]
                      ELSE callback
       /\ completion' = (completion \/ (handler[m] = "state" /\ ~ msg.can /\ m \in waiting))
       /\ waiting' = IF handler[m] = "state" /\ ~ msg.can THEN waiting \ {m} ELSE waiting
       /\ homeEnd' = IF pastEnd THEN None ELSE homeEnd
       /\ toMcu' = IF pastEnd
                   THEN [toMcu EXCEPT ![m] = Append(@, Cmd("trigger", PAST_END_TIME))]
                   ELSE toMcu
       /\ lastParams' = IF handler[m] = "query"
                        THEN [lastParams EXCEPT ![m] = msg.reason] ELSE lastParams
    /\ UNCHANGED <<mcuVars, stepQ, dispatch, phase, session,
                   handler, todo, asking, retries, res, result, steps, startClock, time>>

\* Mutant: the micro-controller's own status counts as well.
OthersStatus_all(status, m) ==
    CHOOSE t \in {status[n] : n \in Mcus} : \A n \in Mcus : status[n] <= t

\* The earliest status of the other micro-controllers (of its own, if alone):
\* min_time, or next_min_time for min_tdm.
OthersStatus(status, m) ==
    LET others == IF Mcus = {m} THEN {m} ELSE Mcus \ {m}
    IN  CHOOSE t \in {status[n] : n \in others} : \A n \in others : t <= status[n]

handle_trsync_state(m) ==
    /\ callback[m] # <<>>
    /\ callback' = [callback EXCEPT ![m] = <<>>]
    /\ LET msg == Head(callback[m])
           status == [lastStatus EXCEPT ![m] = msg.clock]
           Expire(n) == OthersStatus(status, n) + ExpireTicks
           Extend(n) == Expire(n) - expireClock[n] >= MinExtend
       IN
       \/ /\ ~ td.can
          /\ UNCHANGED <<toMcu, dispatch>>
       \/ /\ td.can /\ ~ msg.can
          /\ td' = [td EXCEPT !.can = FALSE]
          /\ toMcu' = [n \in Mcus |-> Append(toMcu[n], Cmd("trigger", HOST_REQUEST))]
          /\ UNCHANGED <<lastStatus, expireClock>>
       \/ /\ td.can /\ msg.can
          /\ lastStatus' = status
          /\ expireClock' = [n \in Mcus |-> IF Extend(n) THEN Expire(n)
                                            ELSE expireClock[n]]
          /\ toMcu' = [n \in Mcus |-> IF Extend(n)
                         THEN Append(toMcu[n], Cmd("set_timeout", Expire(n)))
                         ELSE toMcu[n]]
          /\ UNCHANGED td
    /\ UNCHANGED <<mcuVars, stepQ, toHost, session_, time>>

----------------------------------------------------------------------------
(* mcu.py and homing.py: the homing move, in the main thread *)

\* home_start: MCU_trsync.start for every micro-controller ...
Start ==
    /\ phase \in {"idle", "done"}
    /\ session < MaxSessions /\ now <= LastStart
    /\ session' = session + 1
    /\ phase' = "dispatch"
    /\ LET clock == now + Lead
           New(c, a) == [cmd |-> c, arg |-> a, ses |-> session + 1]
       IN
       /\ toMcu' = [m \in Mcus |-> toMcu[m] \o <<New("start", clock),
                                      New("set_timeout", clock + ExpireTicks)>>]
       /\ lastStatus' = [m \in Mcus |-> clock]
       /\ expireClock' = [m \in Mcus |-> clock + ExpireTicks]
    /\ completion' = FALSE
    /\ waiting' = Mcus
    /\ homeEnd' = None
    /\ handler' = [m \in Mcus |-> "state"]
    /\ lastParams' = [m \in Mcus |-> None]
    /\ res' = [m \in Mcus |-> 0] /\ result' = "none"
    /\ steps' = [m \in Mcus |-> 0]
    /\ startClock' = now + Lead
    /\ trigAt' = [m \in Mcus |-> None]
    /\ UNCHANGED <<mcu, homing, stepQ, toHost, callback, td, todo, asking,
                   retries, time>>

\* ... then trdispatch_start and endstop_home.
trdispatch_start ==
    /\ phase = "dispatch"
    /\ phase' = "move"
    /\ td' = IF td.active THEN td ELSE [active |-> TRUE, can |-> TRUE]
    /\ toMcu' = [toMcu EXCEPT ![EndstopMcu] = Append(@, Cmd("home", startClock))]
    /\ UNCHANGED <<mcuVars, stepQ, toHost, callback, lastStatus, expireClock, session, completion,
                   waiting, homeEnd, handler, lastParams, todo, asking, retries, res,
                   result, steps, startClock, time>>

\* drip_move: steps are sent in small portions until the trigger.
drip_move(m) ==
    /\ phase = "move" /\ ~ completion
    /\ m \in Steppers
    /\ steps[m] < MaxSteps
    /\ steps' = [steps EXCEPT ![m] = @ + 1]
    /\ stepQ' = [stepQ EXCEPT ![m] = Append(@, Cmd("step", 0))]
    /\ UNCHANGED <<mcuVars, toMcu, toHost, callback, dispatch, phase,
                   session, completion, waiting, homeEnd, handler, lastParams, todo,
                   asking, retries, res, result, startClock, time>>

\* The move ends, or is cut short; home_wait begins.
set_home_end_time ==
    /\ phase = "move"
    /\ phase' = "wait"
    /\ \E t \in {now, now + Lead} : homeEnd' = t
    /\ UNCHANGED <<mcuVars, lines, dispatch, session, completion, waiting, handler,
                   lastParams, todo, asking, retries, res, result, steps, startClock, time>>

\* Mutant: home_wait goes on when every micro-controller has reported its end.
CallbacksDone_all == waiting = {} /\ \A m \in Mcus : callback[m] = <<>>

\* serialqueue_rm_fastreader takes fast_reader_dispatch_lock.
CallbacksDone == \A m \in Mcus : callback[m] = <<>>

\* home_wait: after the trigger, disable the endstop and trdispatch_stop.
trdispatch_stop ==
    /\ phase = "wait" /\ completion
    /\ CallbacksDone
    /\ phase' = "stop"
    /\ toMcu' = [toMcu EXCEPT ![EndstopMcu] = Append(@, Cmd("home_off", 0))]
    /\ td' = [td EXCEPT !.active = FALSE]
    /\ todo' = Mcus
    /\ UNCHANGED <<mcuVars, stepQ, toHost, callback, lastStatus,
                   expireClock, session, completion, waiting, homeEnd, handler,
                   lastParams, asking, retries, res, result, steps, startClock, time>>

\* Mutant: the query does not wait for its response.
Answered_unawaited(m) == asking = {m}

Answered(m) == lastParams[m] # None

\* Mutant: any report that comes meanwhile is taken for the response.
Acked_any(m) == Answered(m)

\* raw_send_wait_ack: the command was executed and what it sent has come.
Acked(m) == toMcu[m] = <<>> /\ toHost[m] = <<>>

\* MCU_trsync.stop: ask the micro-controller (again) how it ended.
stop(m) ==
    /\ phase = "stop"
    /\ \/ /\ m \in todo /\ asking = {}
          /\ EndstopMcu \in todo => m = EndstopMcu
          /\ retries' = Retries
       \/ /\ asking = {m} /\ Acked(m) /\ ~ Answered(m)
          /\ retries > 0
          /\ retries' = retries - 1
    /\ asking' = {m}
    /\ todo' = todo \ {m}
    /\ handler' = [handler EXCEPT ![m] = "query"]
    /\ waiting' = waiting \ {m}
    /\ toMcu' = [toMcu EXCEPT ![m] = Append(@, Cmd("trigger", HOST_REQUEST))]
    /\ UNCHANGED <<mcuVars, stepQ, toHost, callback, dispatch, phase,
                   session, completion, homeEnd, lastParams, res, result, steps, startClock, time>>

\* The query gives up: homing ends with an error and without a position (what
\* is done about it then is not modelled).
QueryFailed(m) ==
    /\ phase = "stop" /\ asking = {m}
    /\ Acked(m) /\ ~ Answered(m) /\ retries = 0
    /\ phase' = "failed"
    /\ asking' = {}
    /\ handler' = [handler EXCEPT ![m] = "none"]
    /\ UNCHANGED <<mcuVars, lines, dispatch, session, completion, waiting, homeEnd,
                   lastParams, todo, retries, res, result, steps, startClock, time>>

\* Mutant: the reasons are not looked at.
Outcome_unchecked(r) == IF r[EndstopMcu] = ENDSTOP_HIT THEN "hit" ELSE "no_trigger"

\* What home_wait returns.
Outcome(r) ==
    IF \E m \in Mcus : r[m] = COMMS_TIMEOUT THEN "comm_timeout"
    ELSE IF r[EndstopMcu] # ENDSTOP_HIT THEN "no_trigger" ELSE "hit"

\* The query returns; note_homing_end resets the step queue and reads the
\* position.
note_homing_end(m) ==
    /\ phase = "stop" /\ asking = {m}
    /\ Acked(m) /\ Answered(m)
    /\ asking' = {}
    /\ handler' = [handler EXCEPT ![m] = "none"]
    /\ res' = [res EXCEPT ![m] = lastParams[m]]
    /\ stepQ' = IF m \in Steppers THEN [stepQ EXCEPT ![m] = Append(@, Cmd("reset", 0))]
                ELSE stepQ
    /\ IF todo = {} THEN phase' = "done" /\ result' = Outcome(res')
       ELSE UNCHANGED <<phase, result>>
    /\ UNCHANGED <<mcuVars, toMcu, toHost, callback, dispatch, session,
                   completion, waiting, homeEnd, lastParams, todo, retries, steps, startClock,
                   time>>

\* A micro-controller reported its shutdown: everything is stopped.
invoke_shutdown ==
    /\ phase # "shutdown"
    /\ \E m \in Mcus : mcu[m].down
    /\ phase' = "shutdown"
    /\ toMcu' = [m \in Mcus |-> Append(toMcu[m], Cmd("emergency_stop", 0))]
    /\ completion' = TRUE /\ waiting' = {}
    /\ UNCHANGED <<mcuVars, stepQ, toHost, callback, dispatch, session,
                   homeEnd, handler, lastParams, todo, asking, retries, res, result, steps,
                   startClock, time>>

----------------------------------------------------------------------------
(* Time and the lines *)

UnderWay ==
    \/ \E m \in Mcus : \/ toMcu[m] # <<>> \/ toHost[m] # <<>>
                       \/ callback[m] # <<>>
    \/ phase \in {"dispatch", "move"} \/ (phase = "wait" /\ completion)

\* Timers are punctual: time passes only when none is due.
Tick ==
    /\ now < MaxTime /\ phase \notin {"idle", "done", "failed"}
    /\ \A m \in Mcus : mcu[m].expire # now /\ mcu[m].reportAt # now
    /\ UnderWay => now < MaxSlow
    /\ now' = now + 1
    /\ UNCHANGED <<mcuVars, lines, dispatch, session_, drops>>

\* Responses are not repeated when they are lost.
Drop(m) ==
    /\ drops < MaxDrops
    /\ toHost[m] # <<>>
    /\ drops' = drops + 1
    /\ toHost' = [toHost EXCEPT ![m] = Tail(@)]
    /\ UNCHANGED <<mcuVars, toMcu, stepQ, callback, dispatch, session_,
                   now>>

----------------------------------------------------------------------------
Init ==
    /\ now = 0 /\ drops = 0
    /\ mcu = [m \in Mcus |-> Cleared] /\ homing = None
    /\ toMcu = [m \in Mcus |-> <<>>] /\ stepQ = [m \in Mcus |-> <<>>]
    /\ toHost = [m \in Mcus |-> <<>>] /\ callback = [m \in Mcus |-> <<>>]
    /\ td = [active |-> FALSE, can |-> FALSE]
    /\ lastStatus = [m \in Mcus |-> 0] /\ expireClock = [m \in Mcus |-> 0]
    /\ phase = "idle" /\ session = 0 /\ completion = FALSE /\ waiting = {}
    /\ homeEnd = None /\ handler = [m \in Mcus |-> "none"]
    /\ lastParams = [m \in Mcus |-> None]
    /\ todo = {} /\ asking = {} /\ retries = 0 /\ res = [m \in Mcus |-> 0] /\ result = "none"
    /\ steps = [m \in Mcus |-> 0] /\ startClock = 0
    /\ trigAt = [m \in Mcus |-> None]

McuNext(m) ==
    \/ Deliver(m) \/ DeliverStep(m)
    \/ trsync_expire_event(m) \/ trsync_report_event(m)

HostNext(m) ==
    \/ handle_message(m) \/ handle_trsync_state(m)
    \/ drip_move(m) \/ stop(m) \/ QueryFailed(m) \/ note_homing_end(m)

Next ==
    \/ \E m \in Mcus : McuNext(m) \/ HostNext(m) \/ Drop(m)
    \/ endstop_event
    \/ Start \/ trdispatch_start \/ set_home_end_time
    \/ trdispatch_stop \/ invoke_shutdown
    \/ Tick

Spec == Init /\ [][Next]_vars
----------------------------------------------------------------------------
(* Properties *)

Times == Nat
Commands == {"start", "set_timeout", "home", "home_off",
             "trigger", "emergency_stop"}
McuState == [can : BOOLEAN, reason : 0 .. 4,
             expire : Times \cup {None}, reportAt : Times \cup {None},
             signal : BOOLEAN, stepper : {"idle", "moving", "needReset"},
             down : BOOLEAN]

\* The values of the micro-controllers, the queues and the session.
TypeOK ==
    /\ now \in Times /\ drops \in Nat
    /\ mcu \in [Mcus -> McuState] /\ homing \in Times \cup {None}
    /\ toMcu \in [Mcus -> Seq([cmd : Commands, arg : Times, ses : Nat])]
    /\ stepQ \in [Mcus -> Seq([cmd : {"step", "reset"}, arg : {0}, ses : Nat])]
    /\ \A q \in {toHost, callback} :
          q \in [Mcus -> Seq([can : BOOLEAN, reason : 0 .. 4, clock : Times, ses : Nat])]
    /\ td \in [active : BOOLEAN, can : BOOLEAN]
    /\ lastStatus \in [Mcus -> Times] /\ expireClock \in [Mcus -> Times]
    /\ phase \in {"idle", "dispatch", "move", "wait", "stop", "done", "failed", "shutdown"}
    /\ session \in Nat /\ completion \in BOOLEAN /\ waiting \subseteq Mcus
    /\ homeEnd \in Times \cup {None} /\ startClock \in Times
    /\ handler \in [Mcus -> {"none", "state", "query"}]
    /\ lastParams \in [Mcus -> (0 .. 4) \cup {None}] /\ res \in [Mcus -> 0 .. 4]
    /\ todo \subseteq Mcus /\ asking \subseteq Mcus /\ retries \in 0 .. Retries
    /\ result \in {"none", "hit", "comm_timeout", "no_trigger"}
    /\ steps \in [Mcus -> Nat]
    /\ trigAt \in [Mcus -> Times \cup {None}]

\* The first deadline of a micro-controller has not arrived yet.
Unarmed(m) == mcu[m].expire = None /\ \E i \in 1 .. Len(toMcu[m]) : toMcu[m][i].cmd = "set_timeout"

\* Once one micro-controller triggered, timed out or shut down, every stepper
\* is at rest ExpireTicks later, whatever happens to the messages
\* (Multi_MCU_Homing.md: "limit this delay to no more than 25ms"), unless its
\* own first deadline is still under way.
OverrunBounded ==
    \A a, b \in Mcus :
        (trigAt[a] # None /\ mcu[b].stepper = "moving" /\ ~ Unarmed(b))
            => (now <= trigAt[a] + ExpireTicks \/ now <= startClock + ExpireTicks)

\* home_wait reports a trigger only if no stepper stopped before the endstop
\* was hit and all stopped within ExpireTicks after it, so that the trigger
\* position is the same for all.  (The query takes any report for its answer:
\* losing three in a row may hide a timeout from it.)
HomedTogether ==
    (phase = "done" /\ result = "hit") =>
        \A m \in Mcus : /\ trigAt[EndstopMcu] <= trigAt[m]
                         /\ trigAt[m] <= trigAt[EndstopMcu] + ExpireTicks

Live == phase \in {"dispatch", "move", "wait"}

\* A homing move starts with no command, report or running callback of an
\* earlier one left.
SessionFresh ==
    Live => \A m \in Mcus :
        \A q \in {toMcu[m], toHost[m], callback[m]} :
            \A i \in 1 .. Len(q) : q[i].ses = session

\* A queue_step command still under way when its homing move was stopped
\* never moves the stepper after the position was read.
NoStaleStep ==
    [][\A m \in Mcus :
          (Len(stepQ'[m]) < Len(stepQ[m]) /\ mcu'[m].stepper = "moving")
              => /\ Head(stepQ[m]).ses = session
                 /\ ~ (phase = "done" \/ (phase = "stop" /\ m \notin todo \cup asking))]_vars

\* The threads and the micro-controllers keep running and time passes; nothing is
\* assumed of the endstop and of the steps of the move.
Fairness ==
    /\ WF_vars(Tick)
    /\ WF_vars(trdispatch_start) /\ WF_vars(set_home_end_time)
    /\ WF_vars(trdispatch_stop) /\ WF_vars(invoke_shutdown)
    /\ \A m \in Mcus :
          /\ WF_vars(Deliver(m)) /\ WF_vars(DeliverStep(m)) /\ WF_vars(trsync_expire_event(m))
          /\ WF_vars(trsync_report_event(m))
          /\ WF_vars(handle_message(m)) /\ WF_vars(handle_trsync_state(m))
          /\ WF_vars(stop(m)) /\ WF_vars(QueryFailed(m)) /\ WF_vars(note_homing_end(m))
FairSpec == Spec /\ Fairness

\* home_wait returns: by a trigger, by a timeout, because the move is over or with
\* an error.
HomeWaitReturns == phase = "wait" ~> phase \in {"done", "failed", "shutdown"}
=============================================================================
