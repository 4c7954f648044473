------------------------- MODULE HeaterGuardProofs -------------------------
(***************************************************************************)
(* HeatBounded and NoFalseAlarm for every configuration of a heater.       *)
(*                                                                         *)
(* The bound on heating rests on one fact about the pin: as long as it     *)
(* heats its timer is armed, for a moment that is not later than the       *)
(* end_time of what is loaded, and end_time is the clock of a waiting      *)
(* command or one max_duration after the loaded command (Pin, Limit).      *)
(* That no false alarm is raised needs the host's side too: at most one    *)
(* command is on its way and at most one waits, each is the successor of   *)
(* the one before (Chain), and the next reading is never more than one     *)
(* report after the time of the renewal (Renewed).                         *)
(***************************************************************************)
EXTENDS HeaterGuard, TLAPS

Cmd == [minclock : Nat, clock : Nat, on : Nat]
Reasons == {"none", "ADC_out_of_range", "Missed_scheduling", "Exceeds_max_duration", "Timer_too_close"}

TypeOK ==
    /\ now \in Nat /\ alive \in BOOLEAN /\ target \in BOOLEAN
    /\ next_pwm_time \in Nat /\ last_pwm_value \in Nat /\ last_clock \in Nat
    /\ next_begin_time \in Nat /\ invalid_count \in Nat /\ report \in Nat \cup {NoReport}
    /\ link = << >> \/ \E m \in Cmd : link = <<m>>
    /\ mq = << >> \/ \E c \in Cmd : mq = <<c>>
    /\ pin \in BOOLEAN /\ toggling \in BOOLEAN /\ check_end \in BOOLEAN /\ end_time \in Nat
    /\ armed \in BOOLEAN /\ waketime \in Nat /\ func \in {"load", "toggle"}
    /\ on_duration \in 0..Cycle /\ shutdown_reason \in Reasons

\* The pin's timer, the end of what is loaded and the waiting command agree.
Pin ==
    /\ armed = check_end
    /\ Heats => armed
    /\ armed => now <= waketime /\ waketime <= end_time
    /\ armed /\ func = "load" => waketime = end_time
    /\ mq # << >> => armed /\ end_time = Head(mq).clock
    /\ is_shutdown => ~armed /\ mq = << >>

\* Readings are taken on time, and no command is for a time after the next one.
Reading ==
    /\ now <= next_begin_time
    /\ last_clock <= next_begin_time
    /\ report # NoReport => /\ report <= now /\ last_clock <= report
                            /\ report + Report <= next_begin_time

\* Commands follow each other in time, and last_clock is the last one's.
Limit ==
    /\ mq # << >> => Head(mq).clock <= last_clock
    /\ mq = << >> /\ armed => end_time <= last_clock + MaxDuration
    /\ link # << >> => Head(link).minclock < Head(link).clock /\ Head(link).clock <= last_clock
    /\ link # << >> /\ mq # << >> => Head(mq).clock <= Head(link).minclock

\* While the host and the link work, nothing under way is late.
Punctual == alive =>
    /\ link # << >> => now < Head(link).clock
    /\ report # NoReport => now < report + Report

\* The next reading the host will see.
NextRead == IF report # NoReport THEN report ELSE next_begin_time

\* The time of the renewal passes at most one report before the next reading.
Renewed ==
    /\ report # NoReport => next_begin_time = report + Report
    /\ last_pwm_value > 0 => /\ next_pwm_time = last_clock + Renew
                             /\ NextRead < next_pwm_time + Report

\* What is loaded, what waits, what is on its way and what the host sent last follow
\* each other; after a power that needs an end the next command comes in time.
Chain ==
    /\ link # << >> => Head(link).clock = last_clock /\ Head(link).on = last_pwm_value
    /\ mq = << >> /\ armed /\ link = << >> => end_time = last_clock + MaxDuration /\ last_pwm_value > 0
    /\ mq = << >> /\ armed /\ link # << >> => /\ end_time = Head(link).minclock + MaxDuration
                                              /\ Head(link).clock <= end_time
    /\ mq # << >> /\ link = << >> => Head(mq).clock = last_clock /\ Head(mq).on = last_pwm_value
    /\ mq # << >> /\ link # << >> =>
            /\ Head(mq).clock = Head(link).minclock
            /\ Head(mq).on > 0 => Head(link).clock <= Head(link).minclock + MaxDuration

Safe == Pin /\ Reading /\ Limit /\ Punctual
Calm == alive /\ ~is_shutdown => Renewed /\ Chain

IInv == TypeOK /\ Safe /\ Calm /\ NoFalseAlarm

-----------------------------------------------------------------------------
\* Sequences of one element.
LEMMA Single ==
    \A x : Head(<<x>>) = x /\ Tail(<<x>>) = << >> /\ <<x>> # << >> /\ Append(<< >>, x) = <<x>>
  OBVIOUS

LEMMA InitIInv == Init => IInv
<1> SUFFICES ASSUME Init PROVE IInv
    OBVIOUS
<1>1. TypeOK
  <2>1. report \in Nat \cup {NoReport} /\ shutdown_reason \in Reasons /\ func \in {"load", "toggle"}
    BY DEF Init, Reasons
  <2>2. on_duration \in 0..Cycle /\ next_begin_time \in Nat
    BY Configuration DEF Init
  <2> QED
    BY <2>1, <2>2, Zenon DEF Init, TypeOK
<1>2. Safe
  <2>1. Pin
    BY Zenon DEF Init, Pin, Heats, is_shutdown
  <2>2. Reading
    BY Configuration DEF Init, Reading
  <2>3. Limit /\ Punctual
    BY DEF Init, Limit, Punctual
  <2> QED
    BY <2>1, <2>2, <2>3 DEF Safe
<1>3. Calm
    BY Configuration DEF Init, Calm, Renewed, Chain, NoReport
<1>4. NoFalseAlarm
    BY DEF Init, NoFalseAlarm
<1> QED
    BY <1>1, <1>2, <1>3, <1>4 DEF IInv

LEMMA SetTemp == IInv /\ set_temp => IInv'
  BY DEF set_temp, adc, out, IInv, TypeOK, Safe, Pin, Reading, Limit, Punctual, Calm, Renewed, Chain,
     NextRead, NoFalseAlarm, Heats, is_shutdown

LEMMA Fails == IInv /\ Fail => IInv'
<1> SUFFICES ASSUME IInv, Fail PROVE IInv'
    OBVIOUS
<1> USE DEF IInv, Fail, host, adc, out
<1>1. TypeOK'
    BY ZenonT(60) DEF TypeOK
<1>2. Pin' /\ Reading' /\ Punctual'
    BY DEF Safe, Pin, Reading, Punctual, Heats, is_shutdown
<1>3. Limit'
  <2>1. CASE link' = link
    BY <2>1 DEF Safe, Limit
  <2>2. CASE link' = << >>
    BY <2>2 DEF Safe, Limit
  <2> QED
    BY <2>1, <2>2
<1>4. Calm' /\ NoFalseAlarm'
    BY DEF Calm, NoFalseAlarm
<1> QED
    BY <1>1, <1>2, <1>3, <1>4 DEF Safe

LEMMA Ticks == IInv /\ Tick => IInv'
<1> SUFFICES ASSUME IInv, Tick PROVE IInv'
    OBVIOUS
<1> USE DEF IInv, Tick, host, adc, out
<1>1. TypeOK'
    BY DEF TypeOK
<1>2. Pin' /\ Reading' /\ Limit'
    BY DEF TypeOK, Safe, Pin, Reading, Limit, Heats, is_shutdown, Idle, OutDue, AdcDue
<1>3. Punctual'
  <2>1. CASE link = << >>
    BY <2>1 DEF TypeOK, Safe, Punctual, InTime, pwm_delay
  <2>2. ASSUME NEW m \in Cmd, link = <<m>> PROVE Punctual'
    BY <2>2, Single DEF TypeOK, Cmd, Safe, Limit, Punctual, InTime, pwm_delay
  <2> QED
    BY <2>1, <2>2 DEF TypeOK
<1>4. Calm' /\ NoFalseAlarm'
    BY DEF Calm, Renewed, NextRead, Chain, NoFalseAlarm, is_shutdown
<1> QED
    BY <1>1, <1>2, <1>3, <1>4 DEF Safe

\* A command is sent only when none is on its way, so that it is the only one.
LEMMA Callback == IInv /\ temperature_callback => IInv'
<1> SUFFICES ASSUME IInv, temperature_callback PROVE IInv'
    OBVIOUS
<1> USE DEF IInv, temperature_callback, adc, out
<1>1. PICK v \in 0..Cycle : set_pwm(report, v)
    BY Configuration
<1>2. report \in Nat /\ v \in Nat /\ report' = NoReport
    BY Configuration DEF TypeOK
<1> DEFINE little == (report < next_pwm_time \/ last_pwm_value = 0) /\ Near(v, last_pwm_value)
           new == [minclock |-> last_clock, clock |-> report + Report, on |-> v]
<1>3. CASE little
  <2>1. UNCHANGED <<next_pwm_time, last_pwm_value, last_clock, link>>
    BY <1>1, <1>3 DEF set_pwm
  <2>2. TypeOK'
    BY <2>1 DEF TypeOK
  <2>3. Safe'
    BY <2>1, <1>2 DEF Safe, Pin, Reading, Limit, Punctual, Heats, is_shutdown
  <2>4. NoFalseAlarm'
    BY DEF NoFalseAlarm
  <2>5. ASSUME alive, ~is_shutdown PROVE Renewed'
    BY <2>1, <1>2, <1>3, <2>5, Configuration DEF TypeOK, Calm, Renewed, NextRead
  <2>6. ASSUME alive, ~is_shutdown PROVE Chain'
    BY <2>1, <2>6 DEF Calm, Chain
  <2> QED
    BY <2>2, <2>3, <2>4, <2>5, <2>6 DEF Calm, is_shutdown
<1>4. CASE ~little
  <2>1. /\ next_pwm_time' = report + Report + Renew /\ last_pwm_value' = v
        /\ last_clock' = report + Report /\ link' = Append(link, new)
    BY <1>1, <1>4 DEF set_pwm, Renewal, pwm_delay
  <2>2. link = << >>
    <3>1. ASSUME NEW m \in Cmd, link = <<m>> PROVE FALSE
      BY <3>1, <1>2, Single DEF TypeOK, Cmd, Safe, Limit, Reading, Punctual
    <3> QED
      BY <3>1 DEF TypeOK
  <2>3. link' = <<new>> /\ Head(link') = new /\ link' # << >>
    BY <2>1, <2>2, Single
  <2>4. new \in Cmd
    BY <1>2, Configuration DEF TypeOK, Cmd
  <2>5. last_clock' \in Nat /\ next_pwm_time' \in Nat /\ last_pwm_value' \in Nat
    BY <2>1, <1>2, Configuration
  <2>6. TypeOK'
    BY <2>3, <2>4, <2>5 DEF TypeOK
  <2>7. Pin' /\ Reading'
    BY <2>1, <1>2, Configuration DEF TypeOK, Safe, Pin, Reading, Heats, is_shutdown
  <2>8. Punctual'
    BY <2>3, <1>2 DEF Safe, Punctual
  <2>9. last_clock <= report /\ report < report + Report /\ last_clock < last_clock'
    BY <2>1, <1>2, Configuration DEF TypeOK, Safe, Reading
  <2>10. Limit'
    <3>1. CASE mq = << >>
      BY SMTT(60), <3>1, <2>1, <2>3, <2>9, Configuration DEF TypeOK, Safe, Limit
    <3>2. ASSUME NEW c \in Cmd, mq = <<c>> PROVE Limit'
      BY SMTT(60), <3>2, <2>1, <2>3, <2>9, Single, Configuration DEF TypeOK, Cmd, Safe, Limit
    <3> QED
      BY <3>1, <3>2 DEF TypeOK
  <2>11. NoFalseAlarm'
    BY DEF NoFalseAlarm
  <2>12. ASSUME alive, ~is_shutdown PROVE Renewed' /\ Chain'
    <3>1. next_begin_time = report + Report
      BY <2>12, <1>2 DEF Calm, Renewed
    <3>2. Renewed'
      BY <3>1, <2>1, <1>2, Configuration DEF Renewed, NextRead, NoReport
    <3>3. last_pwm_value > 0 => report + Report <= last_clock + MaxDuration
      BY SMTT(60), <2>12, <1>2, Configuration DEF TypeOK, Calm, Renewed, NextRead
    <3>4. CASE mq = << >>
      <4>1. armed => end_time = last_clock + MaxDuration /\ last_pwm_value > 0
        BY <3>4, <2>2, <2>12 DEF Calm, Chain
      <4>2. /\ Head(link').minclock = last_clock /\ Head(link').clock = report + Report
            /\ Head(link').on = v
        BY <2>3
      <4>3. /\ Head(link').clock = last_clock' /\ Head(link').on = last_pwm_value'
            /\ armed => end_time = Head(link').minclock + MaxDuration /\ Head(link').clock <= end_time
        BY <3>3, <2>1, <4>1, <4>2
      <4> QED
        BY ZenonT(60), <3>2, <3>4, <2>3, <4>3 DEF Chain
    <3>5. ASSUME NEW c \in Cmd, mq = <<c>> PROVE Chain'
      <4>1. mq # << >> /\ Head(mq) = c
        BY <3>5, Single
      <4>2. c.clock = last_clock /\ c.on = last_pwm_value
        BY ZenonT(60), <2>2, <2>12, <4>1 DEF Calm, Chain
      <4>3. /\ Head(link').minclock = last_clock /\ Head(link').clock = report + Report
            /\ Head(link').on = v
        BY <2>3
      <4>4. /\ Head(link').clock = last_clock' /\ Head(link').on = last_pwm_value'
            /\ c.clock = Head(link').minclock
            /\ c.on > 0 => Head(link').clock <= Head(link').minclock + MaxDuration
        BY <3>3, <2>1, <4>2, <4>3
      <4> QED
        BY ZenonT(60), <2>3, <4>1, <4>4 DEF Chain
    <3> QED
      BY <3>2, <3>4, <3>5 DEF TypeOK
  <2> QED
    BY <2>6, <2>7, <2>8, <2>10, <2>11, <2>12 DEF Safe, Calm, is_shutdown
<1> QED
    BY <1>3, <1>4

\* A shutdown keeps what is known of the readings and of the commands.
LEMMA ShutsDown ==
    ASSUME IInv, NEW reason \in Reasons \ {"none"}, Shutdown(reason),
           UNCHANGED <<now, alive, host>>, link' = link \/ link' = << >>,
           TypeOK', Reading', Punctual',
           alive => reason = "ADC_out_of_range"
    PROVE  IInv'
<1> USE DEF IInv, Shutdown, host
<1>1. Pin'
    BY Zenon DEF Pin, Heats, is_shutdown
<1>2. Limit'
  <2>1. CASE link' = link
    BY <2>1 DEF Safe, Limit
  <2>2. CASE link' = << >>
    BY <2>2 DEF Safe, Limit
  <2> QED
    BY <2>1, <2>2
<1>3. Calm' /\ NoFalseAlarm'
    BY DEF Calm, is_shutdown, NoFalseAlarm
<1> QED
    BY <1>1, <1>2, <1>3 DEF Safe

LEMMA Reads == IInv /\ analog_in_event => IInv'
<1> SUFFICES ASSUME IInv, analog_in_event PROVE IInv'
    OBVIOUS
<1> USE DEF IInv
<1>1. next_begin_time' = next_begin_time + Report /\ UNCHANGED <<now, alive, host, link>>
      /\ invalid_count' \in Nat
    BY DEF analog_in_event, TypeOK
<1>2. next_begin_time = now /\ next_begin_time \in Nat
    BY DEF analog_in_event, AdcDue, TypeOK, Safe, Reading
<1>3. CASE report' = next_begin_time /\ UNCHANGED out
  <2>1. TypeOK'
    BY <1>1, <1>2, <1>3, Configuration DEF TypeOK, host, out
  <2>2. Pin' /\ Limit'
    BY <1>1, <1>3 DEF Safe, Pin, Limit, Heats, is_shutdown, host, out
  <2>3. Reading' /\ Punctual'
    BY <1>1, <1>2, <1>3, Configuration DEF TypeOK, Safe, Reading, Punctual, host
  <2>4. ASSUME alive, ~is_shutdown PROVE Renewed'
    <3>1. report = NoReport
      BY <1>2, <2>4 DEF TypeOK, Safe, Punctual, Calm, Renewed
    <3> QED
      BY <3>1, <1>1, <1>2, <1>3, <2>4 DEF Calm, Renewed, NextRead, NoReport, host
  <2>5. ASSUME alive, ~is_shutdown PROVE Chain'
    BY <1>1, <1>3, <2>5 DEF Calm, Chain, host, out
  <2>6. NoFalseAlarm'
    BY <1>1, <1>3 DEF NoFalseAlarm, out
  <2> QED
    BY <1>1, <1>3, <2>1, <2>2, <2>3, <2>4, <2>5, <2>6 DEF Safe, Calm, is_shutdown, out
<1>4. CASE Shutdown("ADC_out_of_range") /\ UNCHANGED report
  <2>1. TypeOK'
    <3>1. next_begin_time' \in Nat
      BY <1>1, <1>2, Configuration
    <3> QED
      BY <1>1, <1>4, <3>1, Zenon DEF TypeOK, host, Shutdown, Reasons
  <2>2. Reading' /\ Punctual'
    BY <1>1, <1>2, <1>4, Configuration DEF TypeOK, Safe, Reading, Punctual, host
  <2> QED
    BY <1>1, <1>4, <2>1, <2>2, ShutsDown DEF Reasons
<1> QED
    BY <1>3, <1>4 DEF analog_in_event

\* Events and commands that end in a shutdown, or that leave the readings alone.
LEMMA Skips ==
    ASSUME IInv, NEW reason \in Reasons \ {"none"}, Shutdown(reason), ~is_shutdown,
           UNCHANGED <<now, alive, host, invalid_count, report>>, Skipped,
           link' = link \/ link' = << >>, ~alive
    PROVE  IInv'
<1> USE DEF IInv
<1>1. next_begin_time' = next_begin_time + Report
    BY DEF Skipped, Shutdown, is_shutdown
<1>2. TypeOK'
  <2>1. next_begin_time' \in Nat
    BY <1>1, Configuration DEF TypeOK
  <2> QED
    BY <2>1, Zenon DEF TypeOK, host, Shutdown
<1>3. Reading' /\ Punctual'
    BY <1>1, Configuration DEF TypeOK, Safe, Reading, Punctual, host
<1> QED
    BY <1>2, <1>3, ShutsDown

LEMMA Toggles ==
    IInv /\ digital_toggle_event /\ Skipped /\ UNCHANGED <<now, alive, host, invalid_count, report, link>>
        => IInv'
<1> SUFFICES ASSUME IInv, digital_toggle_event, Skipped,
                    UNCHANGED <<now, alive, host, invalid_count, report, link>>
             PROVE IInv'
    OBVIOUS
<1> USE DEF IInv, host
<1>1. UNCHANGED <<toggling, check_end, end_time, mq, armed, on_duration, shutdown_reason, next_begin_time>>
    BY DEF digital_toggle_event, Skipped
<1>2. armed /\ check_end /\ waketime = now /\ now <= end_time
    BY DEF digital_toggle_event, OutDue, TypeOK, Safe, Pin
<1>3. /\ pin' \in BOOLEAN /\ func' \in {"load", "toggle"} /\ waketime' \in Nat
      /\ now <= waketime' /\ waketime' <= end_time
      /\ func' = "load" => waketime' = end_time
    BY <1>2, Configuration DEF digital_toggle_event, TypeOK
<1>4. TypeOK'
    BY SMTT(60), <1>1, <1>3 DEF TypeOK
<1>5. Safe'
    BY SMTT(60), <1>1, <1>2, <1>3 DEF Safe, Pin, Reading, Limit, Punctual, Heats, is_shutdown
<1>6. Calm' /\ NoFalseAlarm'
    BY SMTT(60), <1>1 DEF Calm, Renewed, NextRead, Chain, NoFalseAlarm, is_shutdown
<1> QED
    BY <1>4, <1>5, <1>6

\* With at most one command waiting, nothing follows the one that is loaded, and
\* the loaded power ends by max_duration or is off.
LEMMA Loads ==
    IInv /\ digital_load_event /\ Skipped /\ UNCHANGED <<now, alive, host, invalid_count, report, link>>
        => IInv'
<1> SUFFICES ASSUME IInv, digital_load_event, Skipped,
                    UNCHANGED <<now, alive, host, invalid_count, report, link>>
             PROVE IInv'
    OBVIOUS
<1> USE DEF IInv
<1>1. armed /\ check_end /\ waketime = now /\ end_time = now /\ now \in Nat /\ ~is_shutdown
  <2>1. OutDue /\ func = "load"
    BY DEF digital_load_event
  <2>2. now \in Nat /\ waketime \in Nat /\ end_time \in Nat
    BY DEF TypeOK
  <2>3. armed /\ check_end /\ ~is_shutdown /\ waketime = end_time
    BY ZenonT(60), <2>1 DEF OutDue, Safe, Pin
  <2> QED
    BY <2>1, <2>2, <2>3 DEF OutDue, Safe, Pin
<1>2. CASE mq = << >>
  <2>1. Shutdown("Missed_scheduling")
    BY <1>2 DEF digital_load_event
  <2>2. ASSUME alive PROVE FALSE
    <3>1. Renewed /\ Chain
      BY <1>1, <2>2 DEF Calm
    <3>2. CASE link = << >>
      <4>1. now < NextRead + Report
        BY <2>2, Configuration DEF TypeOK, Safe, Reading, Punctual, NextRead
      <4>2. end_time = last_clock + MaxDuration /\ NextRead < last_clock + Renew + Report
        BY <1>1, <1>2, <3>1, <3>2 DEF Chain, Renewed
      <4>3. NextRead \in Nat
        BY DEF TypeOK, NextRead
      <4> QED
        BY <1>1, <4>1, <4>2, <4>3, Configuration DEF TypeOK
    <3>3. ASSUME NEW m \in Cmd, link = <<m>> PROVE FALSE
      BY <1>1, <1>2, <2>2, <3>1, <3>3, Single DEF Cmd, Safe, Punctual, Chain
    <3> QED
      BY <3>2, <3>3 DEF TypeOK
  <2> QED
    BY ZenonT(60), <1>1, <2>1, <2>2, Skips, Zenon DEF Reasons
<1>3. ASSUME NEW c \in Cmd, mq = <<c>> PROVE IInv'
  <2>1. Head(mq) = c /\ Tail(mq) = << >> /\ mq # << >> /\ c.clock = now /\ c.on \in Nat /\ c.clock \in Nat
    BY SMTT(60), <1>1, <1>3, Single DEF Cmd, Safe, Pin
  <2> DEFINE pulses == c.on > 0 /\ c.on < Cycle
             end == now + MaxDuration
             toggles == pulses /\ ~(c.on > 0 /\ now + c.on >= end)
  <2>2. /\ mq' = << >> /\ end_time' = end
        /\ pin' = (c.on > 0) /\ toggling' = pulses
        /\ check_end' = (c.on > 0) /\ armed' = (pulses \/ c.on > 0)
        /\ shutdown_reason' = shutdown_reason
        /\ func' = IF toggles THEN "toggle" ELSE "load"
        /\ waketime' = IF toggles THEN now + c.on ELSE end
        /\ on_duration' = IF toggles THEN c.on ELSE on_duration
    <3>1. ~(c.on > 0 /\ end > end)
      BY <1>1, Configuration
    <3>2. (c.on > 0 \/ Tail(mq) # << >>) = (c.on > 0)
      BY <2>1
    <3>3. (IF Tail(mq) # << >> THEN Head(Tail(mq)).clock ELSE end) = end
      BY <2>1
    <3> QED
      BY SMTT(60), ZenonT(60), <1>1, <2>1, <3>1, <3>2, <3>3 DEF digital_load_event, LimitLoaded
  <2>3. next_begin_time' = next_begin_time
    BY <2>2 DEF Skipped
  <2>4. TypeOK'
    <3>1. end_time' \in Nat /\ waketime' \in Nat /\ on_duration' \in 0..Cycle /\ func' \in {"load", "toggle"}
      BY SMTT(60), ZenonT(60), <1>1, <2>1, <2>2, Configuration DEF TypeOK
    <3>2. pin' \in BOOLEAN /\ toggling' \in BOOLEAN /\ check_end' \in BOOLEAN /\ armed' \in BOOLEAN
      BY SMTT(60), <2>2
    <3> QED
      BY <2>2, <2>3, <3>1, <3>2, Zenon DEF TypeOK, host
  <2>5. Pin'
    <3>1. armed' = check_end' /\ (Heats => armed)'
      <4>1. pulses => c.on > 0
        OBVIOUS
      <4>2. (pulses \/ c.on > 0) = (c.on > 0)
        OBVIOUS
      <4> HIDE DEF pulses
      <4> QED
        BY <2>2, <4>1, <4>2, Zenon DEF Heats
    <3>2. now <= waketime' /\ waketime' <= end_time' /\ (func' = "load" => waketime' = end_time')
      BY SMTT(60), <1>1, <2>1, <2>2, Configuration
    <3>3. ~is_shutdown'
      BY <1>1, <2>2 DEF is_shutdown
    <3> QED
      BY <2>2, <3>1, <3>2, <3>3 DEF Pin
  <2>6. Reading' /\ Punctual'
    BY <2>3 DEF Safe, Reading, Punctual, host
  <2>7. c.clock <= last_clock
    BY SMTT(60), <2>1 DEF Safe, Limit
  <2>8. Limit'
    <3>1. UNCHANGED <<last_clock, link>>
      BY DEF host
    <3>2. end_time' <= last_clock' + MaxDuration
      <4>1. now <= last_clock /\ end_time' = now + MaxDuration /\ last_clock' = last_clock
        BY ZenonT(60), <2>1, <2>2, <2>7, <3>1
      <4>2. last_clock \in Nat
        BY DEF TypeOK
      <4> QED
        BY <1>1, <4>1, <4>2, Configuration
    <3> QED
      BY ZenonT(60), <2>2, <3>1, <3>2 DEF Safe, Limit
  <2>9. ASSUME alive PROVE Renewed' /\ Chain'
    <3>1. Renewed /\ Chain
      BY <1>1, <2>9 DEF Calm
    <3>2. Renewed'
      BY SMTT(60), <2>3, <3>1 DEF Renewed, NextRead, host
    <3>3. CASE link = << >>
      BY <2>1, <2>2, <3>1, <3>2, <3>3 DEF Chain, host
    <3>4. ASSUME NEW m \in Cmd, link = <<m>> PROVE Chain'
      BY ZenonT(60), <2>1, <2>2, <3>1, <3>4, Single, Configuration DEF Cmd, Chain, host
    <3> QED
      BY <3>2, <3>3, <3>4 DEF TypeOK
  <2>10. NoFalseAlarm'
    BY <2>2 DEF NoFalseAlarm
  <2> QED
    BY <2>4, <2>5, <2>6, <2>8, <2>9, <2>10 DEF Safe, Calm
<1> QED
    BY SMTT(60), <1>2, <1>3 DEF TypeOK

\* A command that arrives finds no other one waiting: the waiting one is loaded by
\* its clock, and that is the minclock of its successor.
LEMMA Delivers == IInv /\ Deliver => IInv'
<1> SUFFICES ASSUME IInv, Deliver PROVE IInv'
    OBVIOUS
<1> USE DEF IInv
<1>1. PICK m \in Cmd : link = <<m>>
    BY DEF TypeOK, Deliver
<1>2. /\ m.minclock <= now /\ Idle /\ link' = << >> /\ link # << >> /\ Head(link) = m /\ Skipped
      /\ UNCHANGED <<now, alive, host, invalid_count, report>>
    BY <1>1, Single DEF Deliver
<1>3. /\ m.minclock \in Nat /\ m.clock \in Nat /\ m.on \in Nat /\ now \in Nat
      /\ m.minclock < m.clock /\ m.clock <= last_clock /\ (alive => now < m.clock)
    BY <1>2 DEF TypeOK, Cmd, Safe, Limit, Punctual
<1>4. CASE is_shutdown
  <2>1. UNCHANGED <<out, next_begin_time>>
    BY <1>2, <1>4 DEF Deliver, Skipped, out
  <2>2. TypeOK'
    BY ZenonT(60), <1>2, <2>1, Zenon DEF TypeOK, host, out
  <2>3. Pin' /\ Reading'
    BY <1>2, <2>1 DEF Safe, Pin, Reading, Heats, is_shutdown, host, out
  <2>4. Limit' /\ Punctual'
    BY <1>2, <2>1 DEF Safe, Limit, Punctual, host, out
  <2>5. Calm' /\ NoFalseAlarm'
    BY <1>2, <1>4, <2>1 DEF Calm, NoFalseAlarm, is_shutdown, out
  <2> QED
    BY SMTT(60), <2>2, <2>3, <2>4, <2>5 DEF Safe
<1>5. CASE ~is_shutdown
  <2>1. mq = << >>
    <3>1. ASSUME NEW c \in Cmd, mq = <<c>> PROVE FALSE
      BY SMTT(60), <1>2, <1>3, <3>1, Single DEF TypeOK, Cmd, Safe, Pin, Limit, Idle, OutDue
    <3> QED
      BY SMTT(60), <3>1 DEF TypeOK
  <2>2. queue_digital_out(m) /\ Append(mq, m) = <<m>>
    BY <1>2, <1>5, <2>1, Single DEF Deliver
  <2>3. alive => ~(check_end /\ end_time < m.clock) /\ ~(m.clock < now)
    <3>1. ASSUME alive, armed PROVE m.clock <= end_time
      BY SMTT(60), <1>2, <1>5, <2>1, <3>1 DEF Calm, Chain
    <3>2. alive => now < m.clock
      BY SMTT(60), <1>2, <1>3 DEF Safe, Punctual
    <3>3. now \in Nat /\ end_time \in Nat /\ check_end = armed
      BY SMTT(60) DEF TypeOK, Safe, Pin
    <3> QED
      BY SMTT(60), <1>2, <1>3, <3>1, <3>2, <3>3
  <2>4. CASE check_end /\ end_time < m.clock
    <3>1. Shutdown("Exceeds_max_duration") /\ ~alive
      BY <2>1, <2>2, <2>3, <2>4 DEF queue_digital_out
    <3> QED
      BY <1>2, <1>5, <3>1, Skips, Zenon DEF Reasons
  <2>5. CASE /\ ~(check_end /\ end_time < m.clock) /\ ~(toggling /\ waketime < m.clock)
             /\ m.clock < now
    <3>1. Shutdown("Timer_too_close") /\ ~alive
      BY <2>1, <2>2, <2>3, <2>5 DEF queue_digital_out
    <3> QED
      BY <1>2, <1>5, <3>1, Skips, Zenon DEF Reasons
  <2>6. CASE /\ ~(check_end /\ end_time < m.clock)
             /\ (toggling /\ waketime < m.clock) \/ ~(m.clock < now)
    <3>1. /\ mq' = <<m>> /\ end_time' = m.clock /\ check_end' = TRUE /\ armed' = TRUE
          /\ UNCHANGED <<pin, toggling, on_duration, shutdown_reason>>
          /\ \/ toggling /\ waketime < m.clock /\ UNCHANGED <<waketime, func>>
             \/ ~(m.clock < now) /\ waketime' = m.clock /\ func' = "load"
      BY <2>1, <2>2, <2>6 DEF queue_digital_out, Safe, Pin, Heats, TypeOK
    <3>2. next_begin_time' = next_begin_time
      BY SMTT(60), <1>2, <3>1 DEF Skipped
    <3>3. now <= waketime' /\ waketime' <= end_time' /\ (func' = "load" => waketime' = end_time')
      BY <1>3, <2>6, <3>1 DEF TypeOK, Safe, Pin, Heats
    <3>4. TypeOK'
      <4>1. waketime' \in Nat /\ end_time' \in Nat /\ func' \in {"load", "toggle"}
        BY <1>3, <3>1 DEF TypeOK
      <4> QED
        BY ZenonT(60), <1>2, <3>1, <3>2, <4>1, Zenon DEF TypeOK, host
    <3>5. mq' # << >> /\ Head(mq') = m /\ ~is_shutdown'
      BY <1>5, <3>1, Single DEF is_shutdown
    <3>6. Pin'
      <4>1. armed' = check_end' /\ armed'
        BY <3>1
      <4>2. end_time' = Head(mq').clock
        BY <3>1, <3>5
      <4> QED
        BY <1>2, <3>3, <3>5, <4>1, <4>2, Zenon DEF Pin
    <3>7. Reading' /\ Punctual'
      BY <1>2, <3>2 DEF Safe, Reading, Punctual, host
    <3>8. Limit'
      BY SMTT(60), <1>2, <1>3, <3>5 DEF Limit, host
    <3>9. ASSUME alive PROVE Renewed' /\ Chain'
      BY SMTT(60), ZenonT(60), <1>2, <1>5, <3>2, <3>5, <3>9 DEF Calm, Renewed, NextRead, Chain, host
    <3>10. NoFalseAlarm'
      BY <1>2, <3>1 DEF NoFalseAlarm
    <3> QED
      BY SMTT(60), <1>2, <3>4, <3>6, <3>7, <3>8, <3>9, <3>10 DEF Safe, Calm
  <2> QED
    BY <2>4, <2>5, <2>6
<1> QED
    BY <1>4, <1>5

LEMMA Steps == IInv /\ [Next]_vars => IInv'
<1>1. IInv /\ OutEvent => IInv'
    BY SMTT(60), Toggles, Loads DEF OutEvent
<1>2. IInv /\ UNCHANGED vars => IInv'
    <2> SUFFICES ASSUME IInv, UNCHANGED vars PROVE IInv' OBVIOUS
    <2>1. TypeOK' BY DEF vars, host, adc, out, IInv, TypeOK
    <2>2. Pin' /\ Reading'
      <3>1. Pin' BY DEF vars, adc, out, IInv, Safe, Pin, Heats, is_shutdown
      <3>2. Reading' BY DEF vars, host, adc, out, IInv, Safe, Reading
      <3> QED BY <3>1, <3>2
    <2>3. Limit' /\ Punctual' BY DEF vars, host, adc, out, IInv, Safe, Limit, Punctual, is_shutdown
    <2>4. Calm' BY DEF vars, host, adc, out, IInv, Calm, Renewed, Chain, NextRead, is_shutdown
    <2>5. NoFalseAlarm' BY DEF vars, host, adc, out, IInv, NoFalseAlarm, Heats, is_shutdown
    <2> QED BY <2>1, <2>2, <2>3, <2>4, <2>5 DEF IInv, Safe
<1> QED
    BY <1>1, <1>2, SetTemp, Callback, Fails, Reads, Delivers, Ticks DEF Next

LEMMA Invariance == Spec => []IInv
    BY InitIInv, Steps, PTL DEF Spec

\* For every configuration: a heater is off once max_duration has passed since the
\* time of the last command, with any failure of the host and of the link.
THEOREM HeatIsBounded == Spec => []HeatBounded
<1>1. IInv => HeatBounded
  <2> SUFFICES ASSUME IInv, Heats PROVE now <= last_clock + MaxDuration
    BY DEF HeatBounded
  <2>1. armed /\ now <= end_time
    BY SMTT(60) DEF IInv, TypeOK, Safe, Pin
  <2>2. CASE mq = << >>
    BY SMTT(60), <2>1, <2>2, Configuration DEF IInv, TypeOK, Safe, Limit
  <2>3. ASSUME NEW c \in Cmd, mq = <<c>> PROVE now <= last_clock + MaxDuration
    <3>1. mq # << >> /\ Head(mq) = c /\ c.clock \in Nat
      BY <2>3, Single DEF Cmd
    <3>2. end_time = c.clock /\ c.clock <= last_clock
      BY ZenonT(60), <3>1 DEF IInv, Safe, Pin, Limit
    <3>3. now \in Nat /\ last_clock \in Nat
      BY DEF IInv, TypeOK
    <3> QED
      BY <2>1, <3>1, <3>2, <3>3, Configuration
  <2> QED
    BY <2>2, <2>3 DEF IInv, TypeOK
<1> QED
    BY <1>1, Invariance, PTL

\* For every configuration: while the host and the link work, only readings out of
\* range shut the micro-controller down.
THEOREM AlarmsAreReal == Spec => []NoFalseAlarm
<1>1. IInv => NoFalseAlarm
    BY DEF IInv
<1> QED
    BY <1>1, Invariance, PTL

=============================================================================
