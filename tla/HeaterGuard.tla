---------------------------- MODULE HeaterGuard ----------------------------
(***************************************************************************)
(* How a heater is kept from heating without supervision: the temperature  *)
(* reports of the micro-controller (adccmds.c), the host's Heater.set_pwm, *)
(* which leaves out updates that change little (heaters.py), MCU_pwm       *)
(* (mcu.py), the commands on their way, and the heater's pin as a software *)
(* PWM output with a max_duration (gpiocmds.c).                            *)
(*                                                                         *)
(* Timer events run when they are due and before commands are executed, as *)
(* SchedTimers shows; the clock does not wrap here.  The control algorithm *)
(* may ask for any power.  While "alive" holds, reports and commands take  *)
(* less than the time the host allows for them; the host or its link may   *)
(* fail at any moment, and what is under way then may arrive late or never.*)
(***************************************************************************)
EXTENDS Integers, Sequences

CONSTANTS
    MaxDuration,    \* MAX_HEAT_TIME
    Renew,          \* 0.75 * MAX_HEAT_TIME
    Report,         \* REPORT_TIME, between two readings
    Cycle,          \* cycle_time, and the on_ticks of full power
    Significant,    \* a smaller change of the power is not sent (0.05)
    RangeCheck,     \* range_check_count
    MaxTime         \* a bound for TLC

\* A renewal that waits for the next report still comes within MaxDuration.
ASSUME Configuration ==
    /\ MaxDuration \in Nat /\ Renew \in Nat /\ Cycle \in Nat /\ Significant \in Nat
    /\ RangeCheck \in Nat /\ MaxTime \in Nat /\ Report \in Nat \ {0}
    /\ Renew + Report + Report <= MaxDuration

\* Heater.pwm_delay: the sensor's get_report_time_delta().
pwm_delay == Report

VARIABLES
    now,
    alive,          \* do the host and its link work?
    target,         \* is there a target temperature?
    next_pwm_time, last_pwm_value,          \* of Heater
    last_clock,                             \* of MCU_pwm
    next_begin_time, invalid_count, report, \* analog_in; a reading on its way, or -1
    link,           \* the commands on their way
    pin, toggling, check_end, end_time, mq, \* digital_out_s
    armed, waketime, func, on_duration,     \* its timer and its pulses
    shutdown_reason     \* or "none"

host == <<target, next_pwm_time, last_pwm_value, last_clock>>
adc == <<next_begin_time, invalid_count>>
out == <<pin, toggling, check_end, end_time, mq, armed, waketime, func, on_duration, shutdown_reason>>
vars == <<now, alive, host, adc, report, link, out>>

NoReport == -1

\* An interrupt is due.
OutDue == armed /\ waketime <= now
AdcDue == next_begin_time <= now
Idle == ~OutDue /\ ~AdcDue

-----------------------------------------------------------------------------
(* The host. *)

set_temp ==
    /\ target' = ~target
    /\ UNCHANGED <<now, alive, next_pwm_time, last_pwm_value, last_clock, adc, report, link, out>>

Near(a, b) == a - b < Significant /\ b - a < Significant

Renewal_late(pwm_time) == pwm_time + MaxDuration

\* When the same power has to be sent again.
Renewal(pwm_time) == pwm_time + Renew

\* Heater.set_pwm and MCU_pwm.set_pwm for a power v at read_time.
set_pwm(read_time, v) ==
    IF (read_time < next_pwm_time \/ last_pwm_value = 0) /\ Near(v, last_pwm_value)
    THEN UNCHANGED <<next_pwm_time, last_pwm_value, last_clock, link>>
    ELSE /\ next_pwm_time' = Renewal(read_time + pwm_delay)
         /\ last_pwm_value' = v
         /\ last_clock' = read_time + pwm_delay
         /\ link' = Append(link, [minclock |-> last_clock, clock |-> read_time + pwm_delay, on |-> v])

\* temperature_callback: the control algorithm chooses a power.
temperature_callback ==
    /\ alive /\ report # NoReport
    /\ \E v \in IF target THEN 0..Cycle ELSE {0} : set_pwm(report, v)
    /\ report' = NoReport
    /\ UNCHANGED <<now, alive, target, adc, out>>

\* The host stops, or its link does; what was under way may be lost.
Fail ==
    /\ alive /\ alive' = FALSE
    /\ link' \in {link, << >>}
    /\ UNCHANGED <<now, host, adc, report, out>>

-----------------------------------------------------------------------------
(* The micro-controller. *)

\* A shutdown: all timers are removed, and digital_out_shutdown sets the pin to its
\* default, off.
Shutdown(reason) ==
    /\ shutdown_reason' = reason
    /\ pin' = FALSE /\ toggling' = FALSE /\ check_end' = FALSE
    /\ mq' = << >> /\ armed' = FALSE
    /\ UNCHANGED <<end_time, waketime, func, on_duration>>

is_shutdown == shutdown_reason # "none"

\* analog_in_event and analog_in_task: a reading in or out of the allowed range.
analog_in_event ==
    /\ AdcDue /\ ~OutDue
    /\ next_begin_time' = next_begin_time + Report
    /\ \/ invalid_count' = 0 /\ report' = next_begin_time /\ UNCHANGED out
       \/ /\ invalid_count + 1 < RangeCheck
          /\ invalid_count' = invalid_count + 1 /\ report' = next_begin_time /\ UNCHANGED out
       \/ /\ invalid_count + 1 >= RangeCheck
          /\ IF is_shutdown
             THEN invalid_count' = 0 /\ report' = next_begin_time /\ UNCHANGED out
             ELSE invalid_count' = invalid_count + 1 /\ Shutdown("ADC_out_of_range") /\ UNCHANGED report
    /\ UNCHANGED <<now, alive, host, link>>

\* digital_toggle_event.
digital_toggle_event ==
    LET wake == waketime + (IF pin THEN Cycle - on_duration ELSE on_duration)
        ends == check_end /\ wake >= end_time
    IN  /\ OutDue /\ func = "toggle"
        /\ pin' = ~pin
        /\ func' = IF ends THEN "load" ELSE "toggle"
        /\ waketime' = IF ends THEN end_time ELSE wake
        /\ UNCHANGED <<toggling, check_end, end_time, mq, armed, on_duration, shutdown_reason>>

LimitLoaded_pulses(v) == v > 0 /\ v < Cycle

\* Does an output with this on_duration need an end?  Anything but off does.
LimitLoaded(v) == v > 0

\* digital_load_event: without an update to load the heater is switched off.  An
\* end that is not checked does not matter.
digital_load_event ==
    /\ OutDue /\ func = "load"
    /\ IF mq = << >>
       THEN Shutdown("Missed_scheduling")
       ELSE LET v == Head(mq).on
                rest == Tail(mq)
                limit == waketime + MaxDuration
                checks == LimitLoaded(v) \/ rest # << >>
                end == IF rest # << >> THEN Head(rest).clock ELSE limit
                pulses == v > 0 /\ v < Cycle
            IN  IF LimitLoaded(v) /\ end > limit
                THEN Shutdown("Exceeds_max_duration")
                ELSE /\ pin' = (v > 0)
                     /\ toggling' = pulses
                     /\ check_end' = checks
                     /\ end_time' = end
                     /\ mq' = rest
                     /\ armed' = (pulses \/ checks)
                     /\ LET toggles == pulses /\ ~(checks /\ waketime + v >= end)
                        IN  /\ func' = IF toggles THEN "toggle" ELSE "load"
                            /\ waketime' = IF toggles THEN waketime + v ELSE end
                            /\ on_duration' = IF toggles THEN v ELSE on_duration
                     /\ UNCHANGED shutdown_reason

\* On a shutdown analog_in_shutdown skips to the next reading.
Skipped == next_begin_time' = IF shutdown_reason' = shutdown_reason THEN next_begin_time
                                                                  ELSE next_begin_time + Report

OutEvent ==
    /\ digital_toggle_event \/ digital_load_event
    /\ Skipped
    /\ UNCHANGED <<now, alive, host, invalid_count, report, link>>

\* command_queue_digital_out, for the update m.
queue_digital_out(m) ==
    IF mq # << >>
    THEN mq' = Append(mq, m)
         /\ UNCHANGED <<pin, toggling, check_end, end_time, armed, waketime, func, on_duration, shutdown_reason>>
    ELSE IF check_end /\ end_time < m.clock
    THEN Shutdown("Exceeds_max_duration")
    ELSE IF toggling /\ waketime < m.clock
    THEN /\ mq' = Append(mq, m)
         /\ end_time' = m.clock /\ check_end' = TRUE
         /\ UNCHANGED <<pin, toggling, armed, waketime, func, on_duration, shutdown_reason>>
    ELSE IF m.clock < now
    THEN Shutdown("Timer_too_close")
    ELSE /\ mq' = Append(mq, m)
         /\ end_time' = m.clock /\ check_end' = TRUE
         /\ armed' = TRUE /\ waketime' = m.clock /\ func' = "load"
         /\ UNCHANGED <<pin, toggling, on_duration, shutdown_reason>>

\* A command is sent when its minclock has come, and executed between interrupts;
\* a micro-controller that is shut down ignores it.
Deliver ==
    /\ Idle /\ link # << >> /\ Head(link).minclock <= now
    /\ link' = Tail(link)
    /\ IF is_shutdown THEN UNCHANGED out ELSE queue_digital_out(Head(link))
    /\ Skipped
    /\ UNCHANGED <<now, alive, host, invalid_count, report>>

\* Nothing is late by the next tick: the host answers a report, and the link delivers a
\* command, before the time the command is for.
InTime ==
    /\ report # NoReport => now + 1 < report + pwm_delay
    /\ link # << >> /\ Head(link).minclock <= now => now + 1 < Head(link).clock

Tick ==
    /\ now < MaxTime
    /\ Idle
    /\ alive => InTime
    /\ now' = now + 1
    /\ UNCHANGED <<alive, host, adc, report, link, out>>

\* The start value, off, has been loaded.
Init ==
    /\ now = 0 /\ alive = TRUE
    /\ target = FALSE /\ next_pwm_time = 0 /\ last_pwm_value = 0 /\ last_clock = 0
    /\ next_begin_time = Report /\ invalid_count = 0 /\ report = NoReport
    /\ link = << >>
    /\ pin = FALSE /\ toggling = FALSE /\ check_end = FALSE /\ end_time = 0 /\ mq = << >>
    /\ armed = FALSE /\ waketime = 0 /\ func = "load" /\ on_duration = 0
    /\ shutdown_reason = "none"

Next ==
    \/ set_temp \/ temperature_callback \/ Fail
    \/ analog_in_event \/ OutEvent \/ Deliver \/ Tick

Spec == Init /\ [][Next]_vars

-----------------------------------------------------------------------------
\* The heater heats, fully or in pulses.
Heats == pin \/ toggling

\* The heater is off once MaxDuration has passed since the time of the last command
\* the host gave, whatever happened to the host, to the link and to the commands.
HeatBounded == Heats => now <= last_clock + MaxDuration

\* While the host and the link work and readings are in range, the micro-controller
\* never shuts down: updates left out by set_pwm are renewed before max_duration ends,
\* and no command finds another one still waiting.
NoFalseAlarm == alive => shutdown_reason \in {"none", "ADC_out_of_range"}
=============================================================================
