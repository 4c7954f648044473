---------------------------- MODULE ButtonEvents ----------------------------
(***************************************************************************)
(* The toolhead's buttons: sampling, debouncing and reporting on the       *)
(* micro-controller (src/buttons.c), the acknowledged reports to the host  *)
(* (buttons.py), the G-code of each button (gcode_button.py), and the      *)
(* filament runout switch and load button of magneto_toolhead.cfg.         *)
(*                                                                         *)
(* Messages from the micro-controller may be lost; commands to it arrive   *)
(* in order (SerialTransport).  A button's script needs the G-code mutex,  *)
(* which a print line or another button's script may hold for long; the    *)
(* handler sleeps meanwhile and the reactor runs the next one.             *)
(***************************************************************************)
EXTENDS Naturals, Integers, Sequences

CONSTANTS
    Callbacks,          \* the buttons in the order they were registered: "load"
                        \* and "runout" (pressed: filament present)
    RETRANSMIT_COUNT,   \* samples without an acknowledgement before a retransmission
    MaxReports,         \* sizeof(b->reports)
    AckMod,             \* 2^8: ack_count is an uint8_t
    Earlier,            \* reports made, and acknowledged, before
    MaxChanges,         \* bound: how often a pin changes
    MaxDrops,           \* bound: how many messages are lost
    MaxInFlight,        \* bound: how many messages are on their way at once
    Printing,           \* is a job running?
    Job, Timer, None    \* holders of the mutex other than a button's handler

Buttons == {Callbacks[i] : i \in DOMAIN Callbacks}

\* A count is expanded rightly when the buffer is small beside half of its range.
ASSUME ReportsAssumption ==
    /\ MaxReports \in Nat /\ AckMod \in Nat /\ MaxReports < AckMod \div 2
    /\ Earlier \in Nat /\ RETRANSMIT_COUNT \in Nat

BF_NO_RETRANSMIT == 128
BF_PENDING == 255
BF_ACKED == 254

Handlers == 1..MaxChanges

VARIABLES
    pin,            \* the buttons pressed in fact
    changes, drops, \* how often a pin changed and a message was lost
    mcu,            \* struct buttons
    wake,           \* buttons_wake
    msgs,           \* buttons_state messages on their way
    acks,           \* buttons_ack commands on their way
    ack_count,      \* MCU_buttons.ack_count
    async,          \* the reports queued for the main thread
    last_button,    \* MCU_buttons.last_button
    handler,        \* the running invocations of handle_button
    lock, waiting,  \* the G-code mutex: its holder and its queue
    runout_state,   \* gcode_macro _SET_RUNOUT_STATE
    check,          \* delayed_gcode delay_filament_runout_pause
    is_paused,
    sent, got,      \* history: every report made and every report handed on
    overlap         \* history: has a report been handled during another's callbacks?

mcuVars == <<mcu, wake>>
line == <<msgs, acks, drops>>
hostVars == <<ack_count, async, got>>
gcodeVars == <<last_button, handler, overlap, lock, waiting, runout_state, check, is_paused>>
vars == <<pin, changes, mcuVars, line, hostVars, gcodeVars, sent>>

-----------------------------------------------------------------------------
(* The micro-controller. *)

PinChange ==
    /\ changes < MaxChanges
    /\ changes' = changes + 1
    /\ \E b \in Buttons : pin' = IF b \in pin THEN pin \ {b} ELSE pin \cup {b}
    /\ UNCHANGED <<mcuVars, line, hostVars, gcodeVars, sent>>

\* The buttons that read the same in two samples.
Steady == {b \in Buttons : b \in pin <=> b \in mcu.last_pressed}

Debounced == (mcu.pressed \ Steady) \cup (pin \cap Steady)

Countdown_never(s) == s

\* The countdown to a retransmission: below 0 it is 0xff, BF_PENDING.
Countdown(s) == IF s >= BF_NO_RETRANSMIT THEN s ELSE (s - 1) % 256

buttons_event ==
    LET report == Debounced # mcu.pressed /\ Len(mcu.reports) < MaxReports
        before == IF report THEN BF_PENDING ELSE mcu.retransmit_state
    IN  /\ mcu' = [mcu EXCEPT !.pressed = Debounced,
                              !.last_pressed = pin,
                              !.reports = IF report THEN Append(@, Debounced) ELSE @,
                              !.retransmit_state = Countdown(before)]
        /\ wake' = (wake \/ report \/ (before = 0))
        /\ sent' = IF report THEN Append(sent, Debounced) ELSE sent
        /\ UNCHANGED <<pin, changes, line, hostVars, gcodeVars>>

buttons_task ==
    /\ wake /\ Len(msgs) < MaxInFlight
    /\ wake' = FALSE
    /\ IF mcu.retransmit_state = BF_PENDING /\ mcu.reports # << >>
       THEN /\ mcu' = [mcu EXCEPT !.retransmit_state = RETRANSMIT_COUNT]
            /\ msgs' = Append(msgs, [ack_count |-> mcu.ack_count, state |-> mcu.reports])
       ELSE UNCHANGED <<mcu, msgs>>
    /\ UNCHANGED <<pin, changes, acks, drops, hostVars, gcodeVars, sent>>

Acked(count) ==
    [mcu EXCEPT !.ack_count = (@ + count) % AckMod,
                !.reports = SubSeq(@, count + 1, Len(@)),
                !.retransmit_state = IF count >= Len(mcu.reports) THEN BF_ACKED ELSE @]

command_buttons_ack ==
    /\ acks # << >>
    /\ acks' = Tail(acks)
    /\ mcu' = Acked(Head(acks))
    /\ UNCHANGED <<pin, changes, wake, msgs, drops, hostVars, gcodeVars, sent>>

Drop ==
    /\ msgs # << >> /\ drops < MaxDrops
    /\ msgs' = Tail(msgs)
    /\ drops' = drops + 1
    /\ UNCHANGED <<pin, changes, mcuVars, acks, hostVars, gcodeVars, sent>>

-----------------------------------------------------------------------------
(* MCU_buttons, in the serial port's thread. *)

\* The message's 8-bit ack_count, expanded to the one nearest to the host's own.
AckDiff(m) ==
    LET d == (ack_count - m.ack_count) % AckMod
    IN  IF d >= AckMod \div 2 THEN d - AckMod ELSE d

NewCount_all(m) == Len(m.state)

NewCount(m) == Len(m.state) - AckDiff(m)

handle_buttons_state ==
    /\ msgs # << >>
    /\ msgs' = Tail(msgs)
    /\ LET m == Head(msgs)
           n == NewCount(m)
           new == SubSeq(m.state, Len(m.state) - n + 1, Len(m.state))
       IN  IF n <= 0
           THEN UNCHANGED <<acks, hostVars>>
           ELSE /\ acks' = Append(acks, n)
                /\ ack_count' = ack_count + n
                /\ async' = async \o new
                /\ got' = got \o new
    /\ UNCHANGED <<pin, changes, mcuVars, drops, gcodeVars, sent>>

-----------------------------------------------------------------------------
(* The main thread.  A greenlet runs until it waits for the mutex or inside *)
(* a script that takes time, so nothing else runs while one is "ready".     *)

NoneReady == {i \in Handlers : handler[i] # None /\ handler[i].phase = "ready"} = {}

Free == {i \in Handlers : handler[i] = None}

mcuSide == <<pin, changes, mcuVars, line, sent>>

\* The mutex goes to the first in its queue.
Unlock ==
    IF waiting = << >>
    THEN lock' = None /\ UNCHANGED waiting
    ELSE lock' = Head(waiting) /\ waiting' = Tail(waiting)

\* handle_button up to its loop: what changed is compared with last_button now.
Changed(button) == (button \ last_button) \cup (last_button \ button)

handle_button ==
    /\ NoneReady /\ async # << >>
    /\ async' = Tail(async)
    /\ LET i == CHOOSE j \in Free : \A k \in Free : j <= k
           button == Head(async)
       IN  handler' = [handler EXCEPT ![i] =
               [button |-> button, phase |-> "ready", script |-> None,
                todo |-> SelectSeq(Callbacks, LAMBDA b : b \in Changed(button))]]
    /\ overlap' = (overlap \/ Free # Handlers)
    /\ UNCHANGED <<mcuSide, ack_count, got, last_button, lock, waiting, runout_state,
                   check, is_paused>>

Rendered_unchecked(b, button, printing) ==
    [state  |-> IF b = "runout" THEN (IF b \in button THEN 1 ELSE 0) ELSE None,
     recheck |-> FALSE,
     load   |-> b = "load" /\ b \in button /\ (~printing \/ is_paused)]

\* A button's template, rendered when its callback is called.  idle_timeout's
\* state is "Printing" while a job runs, and whenever a macro moves.
Rendered(b, button, printing) ==
    [state  |-> IF b = "runout" THEN (IF b \in button THEN 1 ELSE 0) ELSE None,
     recheck |-> b = "runout" /\ b \notin button /\ printing,
     load   |-> b = "load" /\ b \in button /\ (~printing \/ is_paused)]

\* delayed_gcode.cmd_UPDATE_DELAYED_GCODE, DURATION=3
Rechecked == IF check.phase \in {"wait", "run"}
             THEN [check EXCEPT !.repeat = TRUE]
             ELSE [check EXCEPT !.phase = "armed"]

\* Handler i has the mutex and runs its script; LOAD_FILAMENT takes minutes.
Execute(i, script) ==
    /\ runout_state' = IF script.state = None THEN runout_state ELSE script.state
    /\ check' = IF script.recheck THEN Rechecked ELSE check
    /\ IF script.load
       THEN /\ handler' = [handler EXCEPT ![i].phase = "run", ![i].script = None]
            /\ lock' = i /\ UNCHANGED waiting
       ELSE /\ handler' = [handler EXCEPT ![i].phase = "ready", ![i].script = None,
                                          ![i].todo = Tail(@)]
            /\ Unlock

button_callback(i) ==
    /\ handler[i] # None /\ handler[i].phase = "ready" /\ handler[i].todo # << >>
    /\ \E printing \in IF Printing /\ ~is_paused THEN {TRUE} ELSE BOOLEAN :
        LET script == Rendered(Head(handler[i].todo), handler[i].button, printing)
        IN  IF lock = None
            THEN Execute(i, script)
            ELSE /\ handler' = [handler EXCEPT ![i].phase = "wait", ![i].script = script]
                 /\ waiting' = Append(waiting, i)
                 /\ UNCHANGED <<lock, runout_state, check>>
    /\ UNCHANGED <<mcuSide, hostVars, overlap, last_button, is_paused>>

GetMutex(i) ==
    /\ NoneReady /\ lock = i /\ handler[i].phase = "wait"
    /\ Execute(i, handler[i].script)
    /\ UNCHANGED <<mcuSide, hostVars, overlap, last_button, is_paused>>

LoadDone(i) ==
    /\ NoneReady /\ lock = i /\ handler[i].phase = "run"
    /\ handler' = [handler EXCEPT ![i].phase = "ready", ![i].todo = Tail(@)]
    /\ Unlock
    /\ UNCHANGED <<mcuSide, hostVars, overlap, last_button, runout_state, check, is_paused>>

Return_unset(i) ==
    /\ handler[i] # None /\ handler[i].phase = "ready" /\ handler[i].todo = << >>
    /\ handler' = [handler EXCEPT ![i] = None]
    /\ UNCHANGED <<mcuSide, hostVars, overlap, last_button, lock, waiting, runout_state, check,
                   is_paused>>

\* handle_button's last line.
Return(i) ==
    /\ handler[i] # None /\ handler[i].phase = "ready" /\ handler[i].todo = << >>
    /\ last_button' = handler[i].button
    /\ handler' = [handler EXCEPT ![i] = None]
    /\ UNCHANGED <<mcuSide, hostVars, overlap, lock, waiting, runout_state, check,
                   is_paused>>

-----------------------------------------------------------------------------
(* delay_filament_runout_pause, and the lines of the job. *)

\* _gcode_timer_event's end: the timer is off, or set again by its repeat flag.
CheckDone == [phase |-> IF check.repeat THEN "armed" ELSE "off", repeat |-> FALSE]

\* _DOUBLE_CHECK_PAUSE, with the mutex; PAUSE parks the tool before it returns.
DoubleCheck ==
    IF runout_state = 0
    THEN /\ is_paused' = TRUE
         /\ lock' = Timer /\ check' = [check EXCEPT !.phase = "run"]
         /\ UNCHANGED waiting
    ELSE /\ check' = CheckDone
         /\ Unlock
         /\ UNCHANGED is_paused

CheckFires ==
    /\ NoneReady /\ check.phase = "armed"
    /\ IF lock = None
       THEN DoubleCheck
       ELSE /\ check' = [check EXCEPT !.phase = "wait"]
            /\ waiting' = Append(waiting, Timer)
            /\ UNCHANGED <<lock, is_paused>>
    /\ UNCHANGED <<mcuSide, hostVars, overlap, last_button, handler, runout_state>>

CheckRuns ==
    /\ NoneReady /\ lock = Timer /\ check.phase = "wait"
    /\ DoubleCheck
    /\ UNCHANGED <<mcuSide, hostVars, overlap, last_button, handler, runout_state>>

CheckEnds ==
    /\ NoneReady /\ lock = Timer /\ check.phase = "run"
    /\ check' = CheckDone
    /\ Unlock
    /\ UNCHANGED <<mcuSide, hostVars, overlap, last_button, handler, runout_state, is_paused>>

LineBegins ==
    /\ NoneReady /\ Printing /\ ~is_paused /\ lock = None
    /\ lock' = Job
    /\ UNCHANGED <<mcuSide, hostVars, overlap, last_button, handler, waiting, runout_state,
                   check, is_paused>>

LineEnds ==
    /\ NoneReady /\ lock = Job
    /\ Unlock
    /\ UNCHANGED <<mcuSide, hostVars, overlap, last_button, handler, runout_state, check, is_paused>>

-----------------------------------------------------------------------------
(* Filament is loaded and the host knows it. *)
Init ==
    /\ pin = {"runout"} /\ changes = 0 /\ drops = 0
    /\ mcu = [pressed |-> pin, last_pressed |-> pin, reports |-> << >>,
              ack_count |-> Earlier % AckMod, retransmit_state |-> BF_ACKED]
    /\ wake = FALSE /\ msgs = << >> /\ acks = << >>
    /\ ack_count = Earlier /\ async = << >>
    /\ last_button = pin /\ handler = [i \in Handlers |-> None]
    /\ lock = None /\ waiting = << >>
    /\ runout_state = 1 /\ check = [phase |-> "off", repeat |-> FALSE]
    /\ is_paused = FALSE
    /\ sent = << >> /\ got = << >> /\ overlap = FALSE

Micro == buttons_event \/ buttons_task \/ command_buttons_ack

Handle == \/ handle_button
          \/ \E i \in Handlers :
                button_callback(i) \/ GetMutex(i) \/ LoadDone(i) \/ Return(i)

Check == CheckFires \/ CheckRuns \/ CheckEnds

Next == PinChange \/ Micro \/ Drop \/ handle_buttons_state \/ Handle \/ Check
            \/ LineBegins \/ LineEnds

Spec == Init /\ [][Next]_vars

\* Nothing is on its way between the pins and last_button.
Quiet ==
    /\ pin = mcu.pressed /\ pin = mcu.last_pressed /\ mcu.reports = << >>
    /\ msgs = << >> /\ acks = << >> /\ async = << >>
    /\ \A i \in Handlers : handler[i] = None

\* Each thread and timer keeps running, and the job's lines end.
FairSpec == /\ Spec
            /\ WF_vars(buttons_event) /\ WF_vars(buttons_task)
            /\ WF_vars(command_buttons_ack) /\ WF_vars(handle_buttons_state)
            /\ WF_vars(Handle) /\ WF_vars(Check) /\ WF_vars(LineEnds)

-----------------------------------------------------------------------------
\* How many of the reports made have left the buffer.
Unacked == Len(sent) - Len(mcu.reports)

(* The host hands on the reports in the order the micro-controller made     *)
(* them, none twice and none skipped, whatever messages are lost, repeated  *)
(* or overtaken by their acknowledgements, and the two 8-bit counts agree.   *)
(* An acknowledgement frees only reports the host has.                      *)
ReportedOnce ==
    /\ Len(got) <= Len(sent)
    /\ got = SubSeq(sent, 1, Len(got))
    /\ ack_count = Earlier + Len(got)
    /\ mcu.reports = SubSeq(sent, Unacked + 1, Len(sent))
    /\ Unacked <= Len(got)
    /\ mcu.ack_count = (Earlier + Unacked) % AckMod

(* Once every report is dealt with, the host's last_button is what the      *)
(* micro-controller debounced, and runout_state says whether there is       *)
(* filament: no edge is lost for good, unless the callbacks of two reports  *)
(* overlapped and last_button was set in the wrong order.                   *)
Tracked ==
    Quiet /\ ~overlap =>
        /\ last_button = pin
        /\ runout_state = 1 <=> "runout" \in pin

(* Every report reaches the host in the end, however many of the first      *)
(* transmissions are lost: the countdown sends them again.                  *)
ReportsArrive == []<>(got = sent)

(* When the filament runs out for good during a job, the job is paused,     *)
(* unless the callbacks of two reports overlapped.                          *)
RunoutPauses == <>[]("runout" \notin pin /\ ~overlap) => <>is_paused

=============================================================================
