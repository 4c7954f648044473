---------------------------- MODULE PrintSession ----------------------------
(***************************************************************************)
(* A print as the host runs it: the print file (virtual_sdcard.py), the    *)
(* requests of the web clients, the two delayed_gcodes of macros.cfg and   *)
(* the idle timeout all run G-code scripts, one at a time, under the G-code *)
(* mutex (gcode.py run_script, reactor.py ReactorMutex).  The macros       *)
(* PRINT_START, PRINT_END, PAUSE, RESUME, CANCEL_PRINT, LOAD_FILAMENT,     *)
(* LM_ENABLE and BED_MESH_CALIBRATE are expanded when they are executed,   *)
(* with the printer's status at that moment.                               *)
(*                                                                         *)
(* The reactor is cooperative: a greenlet keeps the processor until it     *)
(* calls reactor.pause().  "parked" says whether the holder of the mutex   *)
(* is inside such a call; only then, or when nobody holds the mutex, do    *)
(* the other processes take steps.  A "switch" lasts no time; during a     *)
(* "wait" (for a temperature, a move, a shell command) timers may expire.  *)
(***************************************************************************)
EXTENDS Naturals, Sequences

CONSTANTS
    Clients,    \* connections that send requests, one at a time each
    Requests,   \* what a client may ask for
    Lines,      \* the commands of the print file
    Faults,     \* commands that may fail: subset of {"G1", "HOME", "SHELL"}
    SavedMesh,  \* is a mesh profile "default" saved?
    None

Timers == {"cool_hot_end", "delay_disable_motor"}
Procs == Clients \cup Timers \cup {"sd", "idle"}

Off == 0
PrintTemp == 1
LoadTemp == 2
Temps == {Off, PrintTemp, LoadTemp}

VARIABLES
    holder,     \* who holds the G-code mutex, or None
    queue,      \* who waits for it, first come first served
    script,     \* the rest of each process's script
    parked,     \* is the holder inside reactor.pause()? "no", "switch" or "wait"
    req,        \* each client's outstanding request, or None
    sd,         \* VirtualSD: the phase of work_handler ("off": work_timer is None),
                \* must_pause_work, whether a file is open, and the next line
    pr,         \* PauseResume
    timer,      \* the DelayedGcode objects
    last_extruder_temp,
    heat,       \* the targets of the extruder and the bed
    motors,     \* are the linear motors enabled?
    homed,
    state,      \* idle_timeout.state
    still       \* has the toolhead come to rest since its last move?

mutex == <<holder, queue, script, parked>>
machine == <<heat, motors, homed, last_extruder_temp>>
idleVars == <<state, still>>
vars == <<mutex, req, sd, pr, timer, machine, idleVars>>

-----------------------------------------------------------------------------
(* The macros: what each template renders to in the present state. *)

Disarm(t) == <<"UPDATE_DELAYED_GCODE", t, FALSE>>
Arm(t) == <<"UPDATE_DELAYED_GCODE", t, TRUE>>

\* _LM_ENABLE, the linear motors' part of homing_override.
G28 == << Disarm("delay_disable_motor"), <<"SHELL", TRUE>>, <<"HOME">> >>

LM_ENABLE == << Disarm("delay_disable_motor"), <<"G4">>, <<"SHELL", TRUE>> >>

MESH_LOAD == IF SavedMesh THEN << >> ELSE << <<"BED_MESH_CALIBRATE">> >>

\* The purge line is a move.
PRINT_START == << Disarm("delay_disable_motor"), <<"LM_ENABLE">>, <<"M190", PrintTemp>>,
                  <<"MESH_LOAD">>, <<"G28">>, <<"M109", PrintTemp>>, <<"G1">> >>

PRINT_END_parks_first == << <<"G1">>, <<"M104", Off>>, <<"M140", Off>>,
                            Arm("delay_disable_motor") >>

PRINT_END == << <<"M104", Off>>, <<"M140", Off>> >>
             \o (IF homed THEN << <<"G1">> >> ELSE << >>)
             \o << Arm("delay_disable_motor") >>

PAUSE == IF ~pr.is_paused /\ state = "Printing"
         THEN << <<"SET_GCODE_VARIABLE", heat.extruder>>, <<"BASE_PAUSE">>, <<"G1">>,
                 Arm("cool_hot_end") >>
         ELSE << >>

RESUME_armed == << <<"M109", last_extruder_temp>>, <<"BASE_RESUME">> >>

RESUME == << Disarm("cool_hot_end"), <<"M109", last_extruder_temp>>, <<"BASE_RESUME">> >>

CANCEL_PRINT == << Disarm("cool_hot_end"), <<"CLEAR_PAUSE">>, <<"SDCARD_RESET_FILE">>,
                   <<"PRINT_END">>, <<"BASE_CANCEL_PRINT">> >>

LOAD_FILAMENT == IF state # "Printing" \/ pr.is_paused
                 THEN << <<"M109", LoadTemp>>, <<"EXTRUDE">>, <<"M104", heat.extruder>> >>
                 ELSE << >>

BED_MESH_CALIBRATE == (IF homed THEN << >> ELSE << <<"G28">> >>)
                      \o << <<"M190", PrintTemp>>, <<"G1">>, <<"G28">> >>

\* The delayed_gcodes are rendered when the timer fires, before they have the mutex.
cool_hot_end == IF pr.is_paused THEN << <<"M104", Off>> >> ELSE << >>
delay_disable_motor == << <<"SHELL", FALSE>> >>

Macros == {"G28", "LM_ENABLE", "PRINT_START", "PRINT_END", "PAUSE", "RESUME",
           "CANCEL_PRINT", "LOAD_FILAMENT", "BED_MESH_CALIBRATE", "MESH_LOAD"}

\* The requests of the user interfaces and the commands of a print file.  A file
\* leaves the motor timer and the linear motors to the macros.
ASSUME PrintAssumption ==
    /\ Clients \cap (Timers \cup {"sd", "idle"}) = {}
    /\ None \notin Procs /\ None \notin Requests /\ SavedMesh \in BOOLEAN
    /\ Requests \subseteq {"SDCARD_PRINT_FILE", "PAUSE", "RESUME", "CANCEL_PRINT",
                           "LOAD_FILAMENT", "BED_MESH_CALIBRATE"}
    /\ Lines \in Seq({<<c>> : c \in Macros \cup {"G1", "G4", "EXTRUDE", "M84", "CLEAR_PAUSE",
                                  "BASE_PAUSE", "BASE_RESUME", "BASE_CANCEL_PRINT",
                                  "SDCARD_RESET_FILE", "SDCARD_PRINT_FILE", "TURN_OFF_HEATERS"}}
                     \cup ({"M104", "M109"} \X Temps) \cup ({"M140", "M190"} \X {Off, PrintTemp}))

Render(m) ==
    CASE m = "G28" -> G28
      [] m = "LM_ENABLE" -> LM_ENABLE
      [] m = "PRINT_START" -> PRINT_START
      [] m = "PRINT_END" -> PRINT_END
      [] m = "PAUSE" -> PAUSE
      [] m = "RESUME" -> RESUME
      [] m = "CANCEL_PRINT" -> CANCEL_PRINT
      [] m = "LOAD_FILAMENT" -> LOAD_FILAMENT
      [] m = "BED_MESH_CALIBRATE" -> BED_MESH_CALIBRATE
      [] m = "MESH_LOAD" -> MESH_LOAD

-----------------------------------------------------------------------------
(* The mutex and the interpreter. *)

\* Greenlets other than the holder's run only while the holder is parked.
Free == holder = None \/ parked # "no"

\* Time passes.
Idling == holder = None \/ parked = "wait"

\* run_script(s) by p, up to the first command or to the wait for the mutex.
run_script(p, s) ==
    /\ script' = [script EXCEPT ![p] = s]
    /\ IF holder = None
       THEN holder' = p /\ parked' = "no" /\ UNCHANGED queue
       ELSE queue' = Append(queue, p) /\ UNCHANGED <<holder, parked>>

Release_unpopped(q) ==
    /\ holder' = IF q = << >> THEN None ELSE Head(q)
    /\ queue' = q
    /\ parked' = "switch"

Release_newest(q) ==
    /\ holder' = IF q = << >> THEN None ELSE q[Len(q)]
    /\ queue' = SubSeq(q, 1, Len(q) - 1)
    /\ parked' = "switch"

\* ReactorMutex.__exit__ with q waiting; the new holder starts after a switch.
Release(q) ==
    /\ holder' = IF q = << >> THEN None ELSE Head(q)
    /\ queue' = IF q = << >> THEN q ELSE Tail(q)
    /\ parked' = "switch"

Running(p, op) == holder = p /\ script[p] # << >> /\ Head(script[p])[1] = op
Arg(p) == Head(script[p])[2]

\* The command is done; "more" is what it still has to do, and it yields or not.
Done(p, more, yields) ==
    /\ script' = [script EXCEPT ![p] = more \o Tail(@)]
    /\ parked' = yields
    /\ UNCHANGED <<holder, queue>>

\* An error ends the whole script.
Raise(p) ==
    /\ script' = [script EXCEPT ![p] = << <<"error">> >>]
    /\ parked' = "no"
    /\ UNCHANGED <<holder, queue>>

Expand(p) ==
    /\ \E m \in Macros : Running(p, m) /\ Done(p, Render(m), "no")
    /\ UNCHANGED <<req, sd, pr, timer, machine, idleVars>>

\* The toolhead's print time is synchronised: the idle state becomes Printing.
Sync(rest) == state' = "Printing" /\ still' = rest

-----------------------------------------------------------------------------
(* Commands on the machine. *)

\* M104, M109 and TURN_OFF_HEATERS; M109 waits for a target that is not zero.
SetExtruder(p) ==
    /\ \E op \in {"M104", "M109"} :
        /\ Running(p, op)
        /\ heat' = [heat EXCEPT !.extruder = Arg(p)]
        /\ Done(p, << >>, IF op = "M109" /\ Arg(p) # Off THEN "wait" ELSE "no")
        /\ Sync(still \/ (op = "M109" /\ Arg(p) # Off))
    /\ UNCHANGED <<req, sd, pr, timer, motors, homed, last_extruder_temp>>

SetBed(p) ==
    /\ \E op \in {"M140", "M190"} :
        /\ Running(p, op)
        /\ heat' = [heat EXCEPT !.bed = Arg(p)]
        /\ Done(p, << >>, IF op = "M190" THEN "wait" ELSE "no")
        /\ Sync(still \/ op = "M190")
    /\ UNCHANGED <<req, sd, pr, timer, motors, homed, last_extruder_temp>>

TURN_OFF_HEATERS(p) ==
    /\ Running(p, "TURN_OFF_HEATERS")
    /\ heat' = [extruder |-> Off, bed |-> Off]
    /\ Done(p, << >>, "no")
    /\ UNCHANGED <<req, sd, pr, timer, motors, homed, last_extruder_temp, idleVars>>

\* A kinematic move: refused before homing, and it may be out of range.
G1(p) ==
    /\ Running(p, "G1")
    /\ \/ homed /\ Done(p, << >>, "wait") /\ Sync(FALSE)
       \/ (~homed \/ "G1" \in Faults) /\ Raise(p) /\ UNCHANGED idleVars
    /\ UNCHANGED <<req, sd, pr, timer, machine>>

\* Extruder moves and dwells need no homing.
Dwell(p) ==
    /\ Running(p, "G4") \/ Running(p, "EXTRUDE")
    /\ Done(p, << >>, "wait")
    /\ Sync(FALSE)
    /\ UNCHANGED <<req, sd, pr, timer, machine>>

\* Homing proper; a failed homing leaves the axes unhomed.
Home(p) ==
    /\ Running(p, "HOME")
    /\ \/ homed' = TRUE /\ Done(p, << >>, "wait")
       \/ "HOME" \in Faults /\ homed' = FALSE /\ Raise(p)
    /\ Sync(FALSE)
    /\ UNCHANGED <<req, sd, pr, timer, heat, motors, last_extruder_temp>>

M84(p) ==
    /\ Running(p, "M84")
    /\ homed' = FALSE
    /\ Done(p, << >>, "wait")
    /\ Sync(FALSE)
    /\ UNCHANGED <<req, sd, pr, timer, heat, motors, last_extruder_temp>>

\* A command that fails or times out is reported and the script goes on; one that
\* cannot be started is an error.
RUN_SHELL_COMMAND(p) ==
    /\ Running(p, "SHELL")
    /\ \/ motors' = Arg(p) /\ Done(p, << >>, "wait") /\ still' = TRUE
       \/ "SHELL" \in Faults /\ Done(p, << >>, "wait") /\ still' = TRUE /\ UNCHANGED motors
       \/ "SHELL" \in Faults /\ Raise(p) /\ UNCHANGED <<motors, still>>
    /\ UNCHANGED <<req, sd, pr, timer, heat, homed, last_extruder_temp, state>>

SET_GCODE_VARIABLE(p) ==
    /\ Running(p, "SET_GCODE_VARIABLE")
    /\ last_extruder_temp' = Arg(p)
    /\ Done(p, << >>, "no")
    /\ UNCHANGED <<req, sd, pr, timer, heat, motors, homed, idleVars>>

Updated_arms(t, on) ==
    IF timer[t] \in {"inside", "repeat"} THEN (IF on THEN "repeat" ELSE "inside")
                                         ELSE (IF on THEN "armed" ELSE timer[t])

\* While the timer's own script waits or runs, only "repeat" is recorded.
Updated(t, on) ==
    IF timer[t] \in {"inside", "repeat"} THEN (IF on THEN "repeat" ELSE "inside")
                                         ELSE (IF on THEN "armed" ELSE "off")

UPDATE_DELAYED_GCODE(p) ==
    /\ Running(p, "UPDATE_DELAYED_GCODE")
    /\ timer' = [timer EXCEPT ![Arg(p)] = Updated(Arg(p), Head(script[p])[3])]
    /\ Done(p, << >>, "no")
    /\ UNCHANGED <<req, sd, pr, machine, idleVars>>

-----------------------------------------------------------------------------
(* virtual_sdcard.py and pause_resume.py. *)

is_active == sd.phase # "off"

\* A line that raised is still "from sd" while on_error_gcode waits for the mutex.
cmd_from_sd == sd.phase \in {"line", "on_error"}

\* do_pause sleeps only if there is a work_handler to wait for.
Switch == IF is_active THEN "switch" ELSE "no"

\* do_pause, up to that wait.
do_pause == sd' = IF is_active THEN [sd EXCEPT !.must_pause_work = TRUE] ELSE sd

WaitForSd_once(p) ==
    /\ Running(p, "WAIT_SD")
    /\ sd' = [sd EXCEPT !.must_pause_work = FALSE]
    /\ Done(p, << >>, "no")
    /\ UNCHANGED <<req, pr, timer, machine, idleVars>>

\* The rest of do_pause: sleep until work_handler has returned.
WaitForSd(p) ==
    /\ Running(p, "WAIT_SD")
    /\ ~is_active \/ cmd_from_sd
    /\ Done(p, << >>, "no")
    /\ UNCHANGED <<req, sd, pr, timer, machine, idleVars>>

BASE_PAUSE(p) ==
    /\ Running(p, "BASE_PAUSE")
    /\ IF pr.is_paused
       THEN Done(p, << >>, "no") /\ UNCHANGED <<sd, pr>>
       ELSE IF pr.pause_command_sent
       THEN Done(p, << <<"PAUSED">> >>, "no") /\ UNCHANGED <<sd, pr>>
       ELSE /\ pr' = [pr EXCEPT !.sd_paused = is_active]
            /\ do_pause
            /\ Done(p, << <<"WAIT_SD">>, <<"PAUSED">> >>, Switch)
    /\ UNCHANGED <<req, timer, machine, idleVars>>

Paused(p) ==
    /\ Running(p, "PAUSED")
    /\ pr' = [pr EXCEPT !.pause_command_sent = TRUE, !.is_paused = TRUE]
    /\ Done(p, << >>, "no")
    /\ UNCHANGED <<req, sd, timer, machine, idleVars>>

\* RESTORE_GCODE_STATE MOVE=1 is a move.
BASE_RESUME(p) ==
    /\ Running(p, "BASE_RESUME")
    /\ Done(p, IF pr.is_paused THEN << <<"G1">>, <<"RESUMED">> >> ELSE << >>, "no")
    /\ UNCHANGED <<req, sd, pr, timer, machine, idleVars>>

\* do_resume: register work_handler again.
Resuming == [sd EXCEPT !.must_pause_work = FALSE, !.phase = "start"]

Resumed == [pr EXCEPT !.sd_paused = FALSE, !.pause_command_sent = FALSE, !.is_paused = FALSE]

send_resume_command(p) ==
    /\ Running(p, "RESUMED")
    /\ IF pr.sd_paused /\ is_active
       THEN Raise(p) /\ UNCHANGED <<sd, pr>>
       ELSE /\ sd' = IF pr.sd_paused THEN Resuming ELSE sd
            /\ pr' = Resumed
            /\ Done(p, << >>, "no")
    /\ UNCHANGED <<req, timer, machine, idleVars>>

CLEAR_PAUSE(p) ==
    /\ Running(p, "CLEAR_PAUSE")
    /\ pr' = [pr EXCEPT !.is_paused = FALSE, !.pause_command_sent = FALSE]
    /\ Done(p, << >>, "no")
    /\ UNCHANGED <<req, sd, timer, machine, idleVars>>

SDCARD_RESET_FILE(p) ==
    /\ Running(p, "SDCARD_RESET_FILE")
    /\ IF cmd_from_sd
       THEN Raise(p) /\ UNCHANGED sd
       ELSE /\ IF sd.file THEN do_pause ELSE UNCHANGED sd
            /\ Done(p, << <<"WAIT_SD">>, <<"CLOSE_FILE">> >>, Switch)
    /\ UNCHANGED <<req, pr, timer, machine, idleVars>>

CloseFile(p) ==
    /\ Running(p, "CLOSE_FILE")
    /\ sd' = [sd EXCEPT !.file = FALSE, !.pos = 1]
    /\ Done(p, << >>, "no")
    /\ UNCHANGED <<req, pr, timer, machine, idleVars>>

SDCARD_PRINT_FILE(p) ==
    /\ Running(p, "SDCARD_PRINT_FILE")
    /\ IF is_active
       THEN Raise(p) /\ UNCHANGED sd
       ELSE /\ sd' = [Resuming EXCEPT !.file = TRUE, !.pos = 1]
            /\ Done(p, << >>, "no")
    /\ UNCHANGED <<req, pr, timer, machine, idleVars>>

\* cmd_CANCEL_PRINT: do_cancel when there is a print, then CLEAR_PAUSE.
BASE_CANCEL_PRINT(p) ==
    /\ Running(p, "BASE_CANCEL_PRINT")
    /\ IF is_active \/ pr.sd_paused
       THEN /\ IF sd.file THEN do_pause ELSE UNCHANGED sd
            /\ Done(p, << <<"WAIT_SD">>, <<"CLOSE_FILE">>, <<"CLEAR_PAUSE">> >>, Switch)
       ELSE Done(p, << <<"CLEAR_PAUSE">> >>, "no") /\ UNCHANGED sd
    /\ UNCHANGED <<req, pr, timer, machine, idleVars>>

Command(p) ==
    \/ Expand(p) \/ SetExtruder(p) \/ SetBed(p) \/ TURN_OFF_HEATERS(p)
    \/ G1(p) \/ Dwell(p) \/ Home(p) \/ M84(p) \/ RUN_SHELL_COMMAND(p)
    \/ SET_GCODE_VARIABLE(p) \/ UPDATE_DELAYED_GCODE(p) \/ WaitForSd(p)
    \/ BASE_PAUSE(p) \/ Paused(p) \/ BASE_RESUME(p) \/ send_resume_command(p)
    \/ CLEAR_PAUSE(p) \/ SDCARD_RESET_FILE(p) \/ CloseFile(p)
    \/ SDCARD_PRINT_FILE(p) \/ BASE_CANCEL_PRINT(p)

-----------------------------------------------------------------------------
(* work_handler: the print file's own process. *)

Exited == [sd EXCEPT !.phase = "off"]

\* It fails at once on a file that was closed meanwhile.
work_handler ==
    /\ Free /\ sd.phase = "start"
    /\ sd' = [sd EXCEPT !.phase = IF sd.file THEN "loop" ELSE "off"]
    /\ UNCHANGED <<mutex, req, pr, timer, machine, idleVars>>

\* The loop between two lines: leave, close the finished file, or run the next
\* line; while somebody else has the mutex it sleeps and tests again.
NextLine ==
    /\ Free /\ sd.phase = "loop"
    /\ \/ /\ sd.must_pause_work
          /\ sd' = Exited
          /\ UNCHANGED mutex
       \/ /\ ~sd.must_pause_work /\ sd.pos > Len(Lines)
          /\ sd' = [Exited EXCEPT !.file = FALSE]
          /\ UNCHANGED mutex
       \/ /\ ~sd.must_pause_work /\ sd.pos <= Len(Lines)
          /\ holder = None
          /\ sd' = [sd EXCEPT !.phase = "line"]
          /\ run_script("sd", << Lines[sd.pos] >>)
    /\ UNCHANGED <<req, pr, timer, machine, idleVars>>

\* The line is done; what follows up to the mutex test happens without a yield.
LineDone ==
    /\ holder = "sd" /\ sd.phase = "line" /\ script["sd"] = << >>
    /\ sd' = [sd EXCEPT !.pos = @ + 1, !.phase = IF sd.must_pause_work THEN "off" ELSE "loop"]
    /\ Release(queue)
    /\ UNCHANGED <<script, req, pr, timer, machine, idleVars>>

\* The line raised: on_error_gcode takes the mutex again, behind those who wait for
\* it, and the print ends.  It is empty here: the section that could set it is in
\* mainsail.cfg, which is not part of the repository (printer.cfg 2).
LineRaised ==
    /\ holder = "sd" /\ script["sd"] = << <<"error">> >>
    /\ script' = [script EXCEPT !["sd"] = << >>]
    /\ IF queue = << >>
       THEN sd' = Exited /\ Release(queue)
       ELSE sd' = [sd EXCEPT !.phase = "on_error"] /\ Release(Append(queue, "sd"))
    /\ UNCHANGED <<req, pr, timer, machine, idleVars>>

OnErrorDone ==
    /\ holder = "sd" /\ sd.phase = "on_error" /\ script["sd"] = << >>
    /\ sd' = Exited
    /\ Release(queue)
    /\ UNCHANGED <<script, req, pr, timer, machine, idleVars>>

-----------------------------------------------------------------------------
(* Clients, delayed_gcodes and the idle timeout. *)

\* The user interfaces offer a print in standby with no request outstanding, PAUSE
\* during a print, RESUME in a pause and BED_MESH_CALIBRATE outside of a print.
Offered(r) ==
    /\ r = "SDCARD_PRINT_FILE" =>
          ~is_active /\ ~pr.is_paused /\ \A c \in Clients : req[c] = None
    /\ r = "PAUSE" => is_active
    /\ r = "RESUME" => pr.is_paused
    /\ r = "BED_MESH_CALIBRATE" => ~is_active /\ ~pr.is_paused

Request(c) ==
    /\ Free /\ req[c] = None
    /\ \E r \in Requests :
        /\ Offered(r)
        /\ req' = [req EXCEPT ![c] = r]
        /\ run_script(c, << <<r>> >>)
    /\ UNCHANGED <<sd, pr, timer, machine, idleVars>>

\* The script is over, normally or by an error.
Over(p) == holder = p /\ script[p] \in {<< >>, << <<"error">> >>}

Reply(c) ==
    /\ Over(c)
    /\ req' = [req EXCEPT ![c] = None]
    /\ script' = [script EXCEPT ![c] = << >>]
    /\ Release(queue)
    /\ UNCHANGED <<sd, pr, timer, machine, idleVars>>

_gcode_timer_event(t) ==
    /\ Idling /\ timer[t] = "armed"
    /\ timer' = [timer EXCEPT ![t] = "inside"]
    /\ run_script(t, IF t = "cool_hot_end" THEN cool_hot_end ELSE delay_disable_motor)
    /\ UNCHANGED <<req, sd, pr, machine, idleVars>>

TimerDone(t) ==
    /\ Over(t)
    /\ timer' = [timer EXCEPT ![t] = IF @ = "repeat" THEN "armed" ELSE "off"]
    /\ script' = [script EXCEPT ![t] = << >>]
    /\ Release(queue)
    /\ UNCHANGED <<req, sd, pr, machine, idleVars>>

\* timeout_handler: Printing -> Ready once the toolhead rests and the mutex is free.
timeout_handler ==
    /\ state = "Printing" /\ holder = None
    /\ still \/ ~is_active
    /\ state' = "Ready" /\ still' = TRUE
    /\ UNCHANGED <<mutex, req, sd, pr, timer, machine>>

\* 600 s without motion: longer than either delayed_gcode stays armed.
transition_idle_state ==
    /\ state = "Ready" /\ holder = None /\ ~is_active
    /\ \A t \in Timers : timer[t] # "armed"
    /\ state' = "Printing"
    /\ run_script("idle", << <<"TURN_OFF_HEATERS">>, <<"M84">> >>)
    /\ UNCHANGED <<req, sd, pr, timer, machine, still>>

IdleDone ==
    /\ Over("idle")
    /\ state' = "Idle"
    /\ script' = [script EXCEPT !["idle"] = << >>]
    /\ Release(queue)
    /\ UNCHANGED <<req, sd, pr, timer, machine, still>>

-----------------------------------------------------------------------------
Init ==
    /\ holder = None /\ queue = << >> /\ parked = "no"
    /\ script = [p \in Procs |-> << >>]
    /\ req = [c \in Clients |-> None]
    /\ sd = [phase |-> "off", must_pause_work |-> FALSE, file |-> FALSE, pos |-> 1]
    /\ pr = [is_paused |-> FALSE, sd_paused |-> FALSE, pause_command_sent |-> FALSE]
    /\ timer = [t \in Timers |-> "off"]
    /\ last_extruder_temp = Off
    /\ heat = [extruder |-> Off, bed |-> Off]
    /\ motors = FALSE /\ homed = FALSE
    /\ state = "Idle" /\ still = TRUE

Work == work_handler \/ NextLine

Run(p) ==
    \/ Command(p)
    \/ p \in Clients /\ Reply(p)
    \/ p \in Timers /\ TimerDone(p)
    \/ p = "idle" /\ IdleDone
    \/ p = "sd" /\ (LineDone \/ LineRaised \/ OnErrorDone)

Next ==
    \/ \E p \in Procs : Run(p)
    \/ Work
    \/ \E c \in Clients : Request(c)
    \/ \E t \in Timers : _gcode_timer_event(t)
    \/ timeout_handler
    \/ transition_idle_state

Spec == Init /\ [][Next]_vars

\* The reactor resumes every greenlet whose wait is over, and no command waits
\* for ever: a heater that does not warm up is a shutdown (verify_heater.py).
FairSpec == Spec /\ (\A p \in Procs : WF_vars(Run(p))) /\ WF_vars(Work)

-----------------------------------------------------------------------------
\* Types; the mutex's queue holds each waiting process once and never its holder,
\* and the print file holds or awaits the mutex exactly while a line is being run.
TypeOK ==
    /\ holder \in Procs \cup {None}
    /\ queue \in Seq(Procs)
    /\ \A i, j \in 1..Len(queue) : queue[i] # holder /\ (queue[i] = queue[j] => i = j)
    /\ holder = None => queue = << >>
    /\ DOMAIN script = Procs
    /\ \A p \in Procs : script[p] # << >> => p = holder \/ \E i \in 1..Len(queue) : queue[i] = p
    /\ parked \in {"no", "switch", "wait"}
    /\ req \in [Clients -> Requests \cup {None}]
    /\ sd \in [phase : {"off", "start", "loop", "line", "on_error"},
              must_pause_work : BOOLEAN, file : BOOLEAN, pos : 1..(Len(Lines) + 1)]
    /\ sd.phase \in {"line", "on_error"} <=> (holder = "sd" \/ \E i \in 1..Len(queue) : queue[i] = "sd")
    /\ pr \in [is_paused : BOOLEAN, sd_paused : BOOLEAN, pause_command_sent : BOOLEAN]
    /\ timer \in [Timers -> {"off", "armed", "inside", "repeat"}]
    /\ last_extruder_temp \in Temps
    /\ heat \in [extruder : Temps, bed : {Off, PrintTemp}]
    /\ motors \in BOOLEAN /\ homed \in BOOLEAN
    /\ state \in {"Idle", "Ready", "Printing"} /\ still \in BOOLEAN

\* The print file is about to run a plain move line.
PrintMoves == sd.phase = "line" /\ Lines[sd.pos] = <<"G1">> /\ Running("sd", "G1")

\* No line of the print moves the toolhead with the linear motors disabled: the
\* motor-disable timer of an earlier PRINT_END, cancelled by PRINT_START and by
\* every homing, never switches them off under a print (macros.cfg 9-12, #30).
PoweredMoves == PrintMoves => motors

\* The print file is past its PRINT_START line and not past its PRINT_END line.
Begun ==
    LET past(l) == \E i \in 1..(sd.pos - 1) : Lines[i] = <<l>>
    IN  sd.file /\ past("PRINT_START") /\ ~past("PRINT_END")

\* Even with commands that fail, nothing switches the motors off once PRINT_START is
\* over and until the file is finished or closed, in a pause no more than between
\* two lines: a disable waiting for the mutex would have been let through before.
MotorsKept == [][motors /\ ~motors' => ~Begun]_vars

\* No line of the print extrudes with the heater off: the cool-down timer armed by
\* PAUSE never switches it off under a resumed print.  This is what macros.cfg 157-160
\* (#48) wants.  It fails when the timer fires while RESUME waits for the mutex behind
\* another script: its M104 S0, rendered in the pause, runs after RESUME.
HotMoves == PrintMoves => heat.extruder # Off

\* What RESUME's first command does achieve (macros.cfg 157-161): from the moment a
\* RESUME has the mutex until it is over the cool-down of the pause does not fire,
\* however long RESUME waits for the temperature, and whoever paused or asked for it.
ResumeDisarms ==
    [][timer["cool_hot_end"] = "armed" /\ timer'["cool_hot_end"] = "inside"
       => ~\E c \in Clients : holder = c /\ req[c] = "RESUME"]_vars

\* A print stopped by PAUSE starts no line before RESUME, whichever process asked
\* for the pause and whatever the print file was doing at that moment.
PauseHolds == [][sd.phase # "line" /\ sd'.phase = "line"
                 => ~(pr.is_paused /\ pr.sd_paused)]_vars

Replied(c, r) == req[c] = r /\ req'[c] = None

\* When a CANCEL_PRINT request is over, the heaters are off, the file is closed,
\* its work_handler has returned and nothing is paused (macros.cfg 179-181).
CancelCools == [][\A c \in Clients : Replied(c, "CANCEL_PRINT") =>
                    /\ heat = [extruder |-> Off, bed |-> Off]
                    /\ ~is_active /\ ~sd.file /\ ~pr.is_paused]_vars

\* Every request is answered: a pause or a cancel that waits for work_handler and
\* a print line's error handling that waits for the mutex never wait on each other.
RequestsAnswered == \A c \in Clients : req[c] # None ~> req[c] = None
=============================================================================
