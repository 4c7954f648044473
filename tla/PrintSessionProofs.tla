------------------------- MODULE PrintSessionProofs -------------------------
(***************************************************************************)
(* What is proved of a print session, for any clients, file and failures.  *)
(* Typed is the types with the rules of the mutex; Pausing relates a pause *)
(* to what work_handler was told and to every script that could undo it;   *)
(* Motors relates the timer that disables the linear motors to the line    *)
(* of the file.  A step is a command of the process that holds the mutex   *)
(* (Outcome sorts the commands by what they do to the file, the pause and  *)
(* the timers), the begin or the end of a script, or a step of work_handler *)
(* without the mutex.                                                      *)
(***************************************************************************)
EXTENDS PrintSession, Integers, TLAPS

\* The commands without a parameter; "error" is left of a script that raised.
Plain == Macros \cup
    {"TURN_OFF_HEATERS", "G1", "G4", "EXTRUDE", "HOME", "M84", "WAIT_SD", "BASE_PAUSE",
     "PAUSED", "BASE_RESUME", "RESUMED", "CLEAR_PAUSE", "SDCARD_RESET_FILE", "CLOSE_FILE",
     "SDCARD_PRINT_FILE", "BASE_CANCEL_PRINT", "error"}

\* The commands a script is made of.
Cmd == {<<c>> : c \in Plain}
       \cup ({"M104", "M109", "SET_GCODE_VARIABLE"} \X Temps)
       \cup ({"M140", "M190"} \X {Off, PrintTemp})
       \cup ({"SHELL"} \X BOOLEAN)
       \cup ({"UPDATE_DELAYED_GCODE"} \X Timers \X BOOLEAN)

\* Those who hold the mutex h or wait for it in q.
Waits(h, q, p) == h = p \/ \E i \in 1 .. Len(q) : q[i] = p

\* Each process waits once, not while it holds the mutex, and for somebody.
QueueOK(h, q) ==
    /\ h \in Procs \cup {None}
    /\ q \in Seq(Procs)
    /\ \A i, j \in 1 .. Len(q) : q[i] # h /\ (q[i] = q[j] => i = j)
    /\ h = None => q = << >>

\* Who holds or awaits the mutex has a script, and each kind of process knows that
\* it does.
Mutex ==
    /\ QueueOK(holder, queue)
    /\ script \in [Procs -> Seq(Cmd)]
    /\ \A p \in Procs : script[p] # << >> => Waits(holder, queue, p)
    /\ \A c \in Clients : Waits(holder, queue, c) <=> req[c] # None
    /\ \A t \in Timers : Waits(holder, queue, t) <=> timer[t] \in {"inside", "repeat"}
    /\ Waits(holder, queue, "sd") <=> sd.phase \in {"line", "on_error"}
    /\ sd.phase = "line" => holder = "sd" /\ sd.pos <= Len(Lines)
    /\ sd.phase = "on_error" => script["sd"] = << >>

\* The types of the other variables.
Values ==
    /\ parked \in {"no", "switch", "wait"}
    /\ req \in [Clients -> Requests \cup {None}]
    /\ sd \in [phase : {"off", "start", "loop", "line", "on_error"},
              must_pause_work : BOOLEAN, file : BOOLEAN, pos : 1..(Len(Lines) + 1)]
    /\ pr \in [is_paused : BOOLEAN, sd_paused : BOOLEAN, pause_command_sent : BOOLEAN]
    /\ timer \in [Timers -> {"off", "armed", "inside", "repeat"}]
    /\ last_extruder_temp \in Temps
    /\ heat \in [extruder : Temps, bed : {Off, PrintTemp}]
    /\ motors \in BOOLEAN /\ homed \in BOOLEAN
    /\ state \in {"Idle", "Ready", "Printing"} /\ still \in BOOLEAN

Typed == Values /\ Mutex

\* What the delayed_gcodes and the idle timeout run.
Inert == {<<"M104", Off>>, <<"SHELL", FALSE>>, <<"TURN_OFF_HEATERS">>, <<"M84">>, <<"error">>}
Background == Timers \cup {"idle"}

\* work_handler will run no further line.
Halted == sd.phase = "off" \/ sd.must_pause_work

\* Everyone ahead of p in the mutex's queue is a timer.
Ahead(h, q, p) ==
    h # p => /\ h \in Background
             /\ \E k \in 1 .. Len(q) : q[k] = p /\ \A i \in 1 .. k - 1 : q[i] \in Background

\* A client's request to print is alone in its script, was made while nothing was
\* printed or paused, and only timers run before it.
Starts(p) ==
    \A i \in 1 .. Len(script[p]) : script[p][i] = <<"SDCARD_PRINT_FILE">> =>
        p = "sd" \/ ( /\ p \in Clients /\ script[p] = << <<"SDCARD_PRINT_FILE">> >>
                      /\ sd.phase = "off" /\ ~ pr.is_paused /\ Ahead(holder, queue, p) )

\* The end of BASE_PAUSE: nothing but the wait for work_handler is in front of it.
Pauses(p) ==
    \A i \in 1 .. Len(script[p]) : script[p][i] = <<"PAUSED">> =>
        /\ p = holder
        /\ i = 1 \/ (i = 2 /\ script[p][1] = <<"WAIT_SD">>)
        /\ pr.sd_paused => Halted

\* A paused print was told to stop, and no script is about to start it again.
Pausing ==
    /\ pr.pause_command_sent = pr.is_paused
    /\ pr.is_paused /\ pr.sd_paused => Halted
    /\ \A p \in Procs : Starts(p) /\ Pauses(p)
    /\ \A p \in Background : \A i \in 1 .. Len(script[p]) : script[p][i] \in Inert

-----------------------------------------------------------------------------
Motor == "delay_disable_motor"

\* The commands that arm the motor timer.
Arming == {Arm(Motor), <<"PRINT_END">>}
Closing == {<<"SDCARD_RESET_FILE">>, <<"CLOSE_FILE">>}
RunsLine(l) == sd.phase = "line" /\ sd.file /\ Lines[sd.pos] = <<l>> /\ script["sd"] # << <<"error">> >>

\* Where a command that arms the timer may be: at the end of the file's own PRINT_END
\* line, behind a reset that the file may not do, or in a script with the file closed
\* or closed first.
Arms(p) ==
    \A i \in 1 .. Len(script[p]) : script[p][i] \in Arming =>
        /\ p = holder
        /\ IF p = "sd"
           THEN \/ /\ Lines[sd.pos] = <<"PRINT_END">> /\ i = Len(script[p])
                   /\ \A j \in 1 .. i - 1 : script[p][j][1] \in {"M104", "M140", "G1"}
                \/ \E j \in 1 .. i - 1 : script[p][j] = <<"SDCARD_RESET_FILE">>
           ELSE ~ sd.file \/ \E j \in 1 .. i - 1 : script[p][j] \in Closing

\* The PRINT_START line: the timer is disarmed before anyone else can run.
Starting ==
    RunsLine("PRINT_START") =>
        \/ /\ script["sd"] \in {<< <<"PRINT_START">> >>, PRINT_START}
           /\ parked = "no" /\ timer[Motor] \in {"off", "armed"}
        \/ timer[Motor] = "off"

\* The PRINT_END line is over and the timer armed.
Ending == RunsLine("PRINT_END") /\ script["sd"] = << >> /\ parked = "no"

\* Only the timer's script disables the motors, and during a print the timer is off.
Motors ==
    /\ \A p \in Procs : Arms(p)
    /\ \A p \in Procs : \A i \in 1 .. Len(script[p]) :
          script[p][i] = <<"SHELL", FALSE>> => p = Motor
    /\ Starting
    /\ Begun => timer[Motor] = "off" \/ Ending

-----------------------------------------------------------------------------
(* Commands and scripts. *)

LEMMA SeqEqual ==
    \A S : \A q, r \in Seq(S) : Len(q) = Len(r) /\ (\A i \in 1 .. Len(q) : q[i] = r[i]) => q = r
  OBVIOUS

LEMMA EmptySeq == \A S : << >> \in Seq(S) OBVIOUS

LEMMA ConcatProperties ==
    \A S : \A q, r \in Seq(S) :
        /\ q \o r \in Seq(S) /\ Len(q \o r) = Len(q) + Len(r)
        /\ \A i \in 1 .. Len(q) + Len(r) : (q \o r)[i] = IF i <= Len(q) THEN q[i] ELSE r[i - Len(q)]
  OBVIOUS

LEMMA LenProperties == \A S : \A q \in Seq(S) : Len(q) \in Nat OBVIOUS

\* The name of a command decides its form.
LEMMA CommandIs ==
    ASSUME NEW c \in Cmd
    PROVE  /\ c[1] \in {"M104", "M109", "SET_GCODE_VARIABLE"} => c[2] \in Temps
           /\ c[1] \in {"M140", "M190"} => c[2] \in {Off, PrintTemp}
           /\ c[1] = "SHELL" => c[2] \in BOOLEAN /\ c = <<"SHELL", c[2]>>
           /\ c[1] = "UPDATE_DELAYED_GCODE" =>
                 c[2] \in Timers /\ c[3] \in BOOLEAN /\ c = <<"UPDATE_DELAYED_GCODE", c[2], c[3]>>
           /\ c[1] \in Plain => c = <<c[1]>>
  <1>1. CASE c \in {<<x>> : x \in Plain}
    <2>1. PICK x \in Plain : c = <<x>> BY Zenon, <1>1
    <2>2. x \notin {"M104", "M109", "SET_GCODE_VARIABLE", "M140", "M190", "SHELL",
                    "UPDATE_DELAYED_GCODE"}
      BY SMTT(60) DEF Plain, Macros
    <2>3. c[1] = x BY Zenon, <2>1
    <2> QED BY Zenon, <2>1, <2>2, <2>3
  <1>2. CASE c \in {"M104", "M109", "SET_GCODE_VARIABLE"} \X Temps
    BY SMTT(60), <1>2 DEF Plain, Macros
  <1>3. CASE c \in {"M140", "M190"} \X {Off, PrintTemp}
    BY SMTT(60), <1>3 DEF Plain, Macros
  <1>4. CASE c \in {"SHELL"} \X BOOLEAN
    BY SMTT(60), <1>4 DEF Plain, Macros
  <1>5. CASE c \in {"UPDATE_DELAYED_GCODE"} \X Timers \X BOOLEAN
    BY SMTT(60), <1>5 DEF Plain, Macros
  <1> QED BY Zenon, <1>1, <1>2, <1>3, <1>4, <1>5 DEF Cmd

LEMMA CommandsAre ==
    /\ \A x \in Plain : <<x>> \in Cmd
    /\ \A x \in {"M104", "M109", "SET_GCODE_VARIABLE"}, t \in Temps : <<x, t>> \in Cmd
    /\ \A x \in {"M140", "M190"}, t \in {Off, PrintTemp} : <<x, t>> \in Cmd
    /\ \A b \in BOOLEAN : <<"SHELL", b>> \in Cmd
    /\ \A t \in Timers : Arm(t) \in Cmd /\ Disarm(t) \in Cmd
  BY Zenon DEF Cmd, Arm, Disarm

\* What a macro may render to that neither prints, pauses nor touches the motors.
Calm == {c \in Cmd : c \notin Arming \cup {<<"PAUSED">>, <<"SDCARD_PRINT_FILE">>, <<"SHELL", FALSE>>}}

LEMMA CalmAre ==
    /\ \A x \in Plain \ {"PRINT_END", "PAUSED", "SDCARD_PRINT_FILE"} : <<x>> \in Calm
    /\ \A x \in {"M104", "M109", "SET_GCODE_VARIABLE"}, t \in Temps : <<x, t>> \in Calm
    /\ \A x \in {"M140", "M190"}, t \in {Off, PrintTemp} : <<x, t>> \in Calm
    /\ <<"SHELL", TRUE>> \in Calm
    /\ \A t \in Timers : Disarm(t) \in Calm
    /\ Arm("cool_hot_end") \in Calm
  <1>0. \A c \in Arming \cup {<<"PAUSED">>, <<"SDCARD_PRINT_FILE">>, <<"SHELL", FALSE>>} :
           c[1] \in {"SHELL", "UPDATE_DELAYED_GCODE", "PRINT_END", "PAUSED", "SDCARD_PRINT_FILE"}
    <2>1. /\ Arm(Motor)[1] = "UPDATE_DELAYED_GCODE" /\ <<"SHELL", FALSE>>[1] = "SHELL"
          /\ <<"PRINT_END">>[1] = "PRINT_END" /\ <<"PAUSED">>[1] = "PAUSED"
          /\ <<"SDCARD_PRINT_FILE">>[1] = "SDCARD_PRINT_FILE"
      BY SMTT(60) DEF Arm
    <2> QED BY Zenon, <2>1 DEF Arming
  <1>1. ASSUME NEW x \in Plain \ {"PRINT_END", "PAUSED", "SDCARD_PRINT_FILE"}
        PROVE  <<x>> \notin Arming \cup {<<"PAUSED">>, <<"SDCARD_PRINT_FILE">>, <<"SHELL", FALSE>>}
    <2>1. x \notin {"SHELL", "UPDATE_DELAYED_GCODE", "PRINT_END", "PAUSED", "SDCARD_PRINT_FILE"}
      BY SMTT(60) DEF Plain, Macros
    <2>2. <<x>>[1] = x OBVIOUS
    <2> QED BY Zenon, <2>1, <2>2, <1>0
  <1>2. ASSUME NEW x \in {"M104", "M109", "SET_GCODE_VARIABLE", "M140", "M190"}, NEW t
        PROVE  <<x, t>> \notin Arming \cup {<<"PAUSED">>, <<"SDCARD_PRINT_FILE">>, <<"SHELL", FALSE>>}
    <2>1. x \notin {"SHELL", "UPDATE_DELAYED_GCODE", "PRINT_END", "PAUSED", "SDCARD_PRINT_FILE"}
      BY SMTT(60)
    <2>2. <<x, t>>[1] = x OBVIOUS
    <2> QED BY Zenon, <2>1, <2>2, <1>0
  <1>3. <<"SHELL", TRUE>> \notin Arming \cup {<<"PAUSED">>, <<"SDCARD_PRINT_FILE">>, <<"SHELL", FALSE>>}
    BY SMTT(60) DEF Arming, Arm
  <1>4. ASSUME NEW t \in Timers
        PROVE  Disarm(t) \notin Arming \cup {<<"PAUSED">>, <<"SDCARD_PRINT_FILE">>, <<"SHELL", FALSE>>}
    BY SMTT(60) DEF Arming, Arm, Disarm
  <1>5. Arm("cool_hot_end") \notin Arming \cup {<<"PAUSED">>, <<"SDCARD_PRINT_FILE">>, <<"SHELL", FALSE>>}
    BY SMTT(60) DEF Arming, Arm, Motor
  <1>6. "cool_hot_end" \in Timers /\ TRUE \in BOOLEAN BY Zenon DEF Timers
  <1> QED BY Zenon, <1>1, <1>2, <1>3, <1>4, <1>5, <1>6, CommandsAre DEF Calm

\* What the macros render to is made of commands.
LEMMA Rendered ==
    ASSUME heat.extruder \in Temps, last_extruder_temp \in Temps, NEW m \in Macros
    PROVE  /\ Render(m) \in Seq(Cmd)
           /\ m \notin {"PRINT_END", "CANCEL_PRINT"} => Render(m) \in Seq(Calm)
  <1>1. G28 \in Seq(Calm) BY SMTT(60), CalmAre DEF G28, Plain, Timers, Macros
  <1>2. LM_ENABLE \in Seq(Calm) BY SMTT(60), CalmAre DEF LM_ENABLE, Plain, Timers, Macros
  <1>3. PRINT_START \in Seq(Calm) BY SMTT(60), CalmAre DEF PRINT_START, Plain, Timers, Macros, Temps
  <1>4. PRINT_END \in Seq(Cmd)
    <2>1. /\ << <<"M104", Off>>, <<"M140", Off>> >> \in Seq(Cmd) /\ << <<"G1">> >> \in Seq(Cmd)
          /\ << >> \in Seq(Cmd) /\ << Arm("delay_disable_motor") >> \in Seq(Cmd)
      BY SMTT(60), CommandsAre DEF Plain, Timers, Temps
    <2> QED BY Zenon, <2>1, ConcatProperties DEF PRINT_END
  <1>5. PAUSE \in Seq(Calm) BY SMTT(60), CalmAre DEF PAUSE, Plain, Timers, Macros
  <1>6. RESUME \in Seq(Calm) BY SMTT(60), CalmAre DEF RESUME, Plain, Timers, Macros
  <1>7. CANCEL_PRINT \in Seq(Cmd) BY SMTT(60), CommandsAre DEF CANCEL_PRINT, Plain, Timers, Macros
  <1>8. LOAD_FILAMENT \in Seq(Calm)
    BY SMTT(60), CalmAre DEF LOAD_FILAMENT, Plain, Timers, Macros, Temps
  <1>9. BED_MESH_CALIBRATE \in Seq(Calm)
    <2>1. /\ << <<"G28">> >> \in Seq(Calm) /\ << >> \in Seq(Calm)
          /\ << <<"M190", PrintTemp>>, <<"G1">>, <<"G28">> >> \in Seq(Calm)
      BY SMTT(60), CalmAre DEF Plain, Macros
    <2> QED BY Zenon, <2>1, ConcatProperties DEF BED_MESH_CALIBRATE
  <1>10. \A q \in Seq(Calm) : q \in Seq(Cmd)
    <2>1. Calm \subseteq Cmd BY Zenon DEF Calm
    <2> QED BY SMTT(60), <2>1
  <1>11. MESH_LOAD \in Seq(Calm) BY SMTT(60), CalmAre DEF MESH_LOAD, Plain, Macros
  <1>12. /\ "G28" # "LM_ENABLE" /\ Render("G28") = G28
         /\ Render("LM_ENABLE") = LM_ENABLE /\ Render("PRINT_START") = PRINT_START
         /\ Render("PRINT_END") = PRINT_END /\ Render("PAUSE") = PAUSE
         /\ Render("RESUME") = RESUME /\ Render("CANCEL_PRINT") = CANCEL_PRINT
         /\ Render("LOAD_FILAMENT") = LOAD_FILAMENT
         /\ Render("BED_MESH_CALIBRATE") = BED_MESH_CALIBRATE
         /\ Render("MESH_LOAD") = MESH_LOAD
    BY SMTT(60) DEF Render
  <1> QED BY Zenon, <1>1, <1>2, <1>3, <1>4, <1>5, <1>6, <1>7, <1>8, <1>9, <1>10, <1>11,
         <1>12 DEF Macros

-----------------------------------------------------------------------------
(* The mutex. *)

LEMMA Processes ==
    /\ None \notin Procs
    /\ Clients \subseteq Procs /\ Timers \subseteq Procs /\ "sd" \in Procs /\ "idle" \in Procs
    /\ "sd" \notin Clients /\ "idle" \notin Clients /\ "sd" \notin Background
    /\ \A t \in Timers : t \notin Clients /\ t # "sd" /\ t # "idle"
    /\ \A c \in Clients : c \notin Background
  <1>1. "sd" # "idle" /\ "sd" \notin Timers /\ "idle" \notin Timers BY SMTT(60) DEF Timers
  <1> QED BY Zenon, <1>1, PrintAssumption DEF Procs, Background

\* p, who had nothing to do with the mutex, takes it or joins the queue.
LEMMA Joins ==
    ASSUME QueueOK(holder, queue), NEW p \in Procs, ~ Waits(holder, queue, p), NEW s,
           run_script(p, s)
    PROVE  /\ QueueOK(holder', queue')
           /\ \A x \in Procs : Waits(holder', queue', x) <=> Waits(holder, queue, x) \/ x = p
           /\ parked' \in {"no", parked}
           /\ script' = [script EXCEPT ![p] = s]
           /\ \/ holder = None /\ holder' = p /\ queue' = queue
              \/ holder # None /\ holder' = holder /\ queue' = Append(queue, p)
  <1>1. /\ holder \in Procs \cup {None} /\ queue \in Seq(Procs)
        /\ \A i, j \in 1 .. Len(queue) : queue[i] # holder /\ (queue[i] = queue[j] => i = j)
        /\ holder = None => queue = << >>
    BY Zenon DEF QueueOK
  <1>2. /\ script' = [script EXCEPT ![p] = s]
        /\ \/ holder = None /\ holder' = p /\ parked' = "no" /\ queue' = queue
           \/ holder # None /\ queue' = Append(queue, p) /\ holder' = holder /\ parked' = parked
    BY Zenon DEF run_script
  <1>3. holder # p /\ (\A i \in 1 .. Len(queue) : queue[i] # p) BY Zenon DEF Waits
  <1>4. CASE holder = None
    <2>1. holder' = p /\ queue' = << >> /\ Len(queue') = 0 /\ Len(queue) = 0 BY <1>1, <1>2, <1>4
    <2>2. \A i \in 1 .. 0 : FALSE OBVIOUS
    <2>3. QueueOK(holder', queue')
      <3>1. p # None BY Zenon, Processes
      <3>2. queue' \in Seq(Procs) BY Zenon, <2>1, EmptySeq
      <3> QED BY Zenon, <2>1, <2>2, <3>1, <3>2 DEF QueueOK
    <2>4. \A x \in Procs : Waits(holder', queue', x) <=> Waits(holder, queue, x) \/ x = p
      <3>1. \A x \in Procs : x # None BY Zenon, Processes
      <3> QED BY Zenon, <3>1, <2>1, <2>2, <1>4 DEF Waits
    <2> QED BY Zenon, <2>3, <2>4, <1>2, <1>4
  <1>5. CASE holder # None
    <2>1. holder' = holder /\ queue' = Append(queue, p) BY Zenon, <1>2, <1>5
    <2>2. /\ queue' \in Seq(Procs) /\ Len(queue') = Len(queue) + 1 /\ Len(queue) \in Nat
          /\ queue'[Len(queue) + 1] = p
          /\ \A i \in 1 .. Len(queue) : queue'[i] = queue[i]
      BY <1>1, <2>1
    <2>3. \A i \in 1 .. Len(queue') : i \in 1 .. Len(queue) \/ i = Len(queue) + 1
      BY <2>2
    <2>4. \A i \in 1 .. Len(queue) : i \in 1 .. Len(queue') /\ i # Len(queue) + 1 BY <2>2
    <2>5. Len(queue) + 1 \in 1 .. Len(queue') BY <2>2
    <2>6. QueueOK(holder', queue')
      <3>1. \A i \in 1 .. Len(queue') : queue'[i] # holder' BY Zenon, <1>1, <1>3, <2>1, <2>2, <2>3
      <3>2. ASSUME NEW i \in 1 .. Len(queue'), NEW j \in 1 .. Len(queue'), queue'[i] = queue'[j]
            PROVE  i = j
        <4>1. CASE i \in 1 .. Len(queue) /\ j \in 1 .. Len(queue)
          <5>1. queue[i] = queue[j] BY Zenon, <4>1, <3>2, <2>2
          <5> QED BY Zenon, <5>1, <4>1, <1>1
        <4>2. CASE i \in 1 .. Len(queue) /\ j = Len(queue) + 1
          BY Zenon, <4>2, <3>2, <2>2, <1>3
        <4>3. CASE i = Len(queue) + 1 /\ j \in 1 .. Len(queue)
          BY Zenon, <4>3, <3>2, <2>2, <1>3
        <4>4. CASE i = Len(queue) + 1 /\ j = Len(queue) + 1
          BY Zenon, <4>4
        <4> QED BY Zenon, <4>1, <4>2, <4>3, <4>4, <2>3
      <3> QED BY Zenon, <3>1, <3>2, <1>1, <1>5, <2>1, <2>2 DEF QueueOK
    <2>7. \A x \in Procs : Waits(holder', queue', x) <=> Waits(holder, queue, x) \/ x = p
      BY Zenon, <2>1, <2>2, <2>3, <2>4, <2>5 DEF Waits
    <2> QED BY Zenon, <2>1, <2>6, <2>7, <1>2, <1>5
  <1> QED BY Zenon, <1>4, <1>5

\* The holder lets the mutex go.
LEMMA Leaves ==
    ASSUME QueueOK(holder, queue), holder \in Procs, Release(queue)
    PROVE  /\ QueueOK(holder', queue')
           /\ \A x \in Procs : Waits(holder', queue', x) <=> Waits(holder, queue, x) /\ x # holder
           /\ parked' = "switch"
           /\ \/ queue = << >> /\ holder' = None /\ queue' = queue
              \/ /\ queue # << >> /\ holder' = queue[1] /\ queue' = Tail(queue)
                 /\ \A i \in 1 .. Len(queue') : queue'[i] = queue[i + 1]
                 /\ Len(queue') = Len(queue) - 1
  <1>1. /\ queue \in Seq(Procs)
        /\ \A i, j \in 1 .. Len(queue) : queue[i] # holder /\ (queue[i] = queue[j] => i = j)
    BY Zenon DEF QueueOK
  <1>2. /\ holder' = IF queue = << >> THEN None ELSE Head(queue)
        /\ queue' = IF queue = << >> THEN queue ELSE Tail(queue)
        /\ parked' = "switch"
    BY Zenon DEF Release
  <1>3. CASE queue = << >>
    <2>1. holder' = None /\ queue' = << >> /\ Len(queue') = 0 /\ Len(queue) = 0 BY <1>2, <1>3
    <2>2. \A i \in 1 .. 0 : FALSE OBVIOUS
    <2>3. << >> \in Seq(Procs) BY Zenon, EmptySeq
    <2>4. QueueOK(holder', queue') BY Zenon, <2>1, <2>2, <2>3 DEF QueueOK
    <2>5. \A x \in Procs : Waits(holder', queue', x) <=> Waits(holder, queue, x) /\ x # holder
      <3>1. \A x \in Procs : x # None BY Zenon, Processes
      <3> QED BY Zenon, <3>1, <2>1, <2>2 DEF Waits
    <2> QED BY Zenon, <2>1, <2>4, <2>5, <1>2, <1>3
  <1>4. CASE queue # << >>
    <2>1. /\ holder' = queue[1] /\ queue' = Tail(queue) /\ queue' \in Seq(Procs)
          /\ Len(queue') = Len(queue) - 1 /\ Len(queue) \in Nat /\ Len(queue) # 0
          /\ \A i \in 1 .. Len(queue') : queue'[i] = queue[i + 1]
      BY <1>1, <1>2, <1>4
    <2>2. /\ 1 \in 1 .. Len(queue) /\ queue[1] \in Procs
          /\ \A i \in 1 .. Len(queue') : i + 1 \in 1 .. Len(queue) /\ i + 1 # 1
          /\ \A i \in 1 .. Len(queue) : i = 1 \/ (\E j \in 1 .. Len(queue') : i = j + 1)
      <3>1. 1 \in 1 .. Len(queue) /\ queue[1] \in Procs BY <2>1, <1>1
      <3>2. \A i \in 1 .. Len(queue') : i + 1 \in 1 .. Len(queue) /\ i + 1 # 1 BY <2>1
      <3>3. ASSUME NEW i \in 1 .. Len(queue), i # 1 PROVE \E j \in 1 .. Len(queue') : i = j + 1
        <4>1. i - 1 \in 1 .. Len(queue') /\ i = (i - 1) + 1 BY <2>1, <3>3
        <4> QED BY Zenon, <4>1
      <3> QED BY Zenon, <3>1, <3>2, <3>3
    <2>3. \A i, j \in 1 .. Len(queue') : i + 1 = j + 1 => i = j BY <2>1
    <2>4. QueueOK(holder', queue')
      <3>1. ASSUME NEW i \in 1 .. Len(queue') PROVE queue'[i] # holder'
        <4>1. queue'[i] = queue[i + 1] /\ i + 1 \in 1 .. Len(queue) /\ i + 1 # 1
          BY Zenon, <2>1, <2>2
        <4>2. queue[i + 1] # queue[1] BY Zenon, <4>1, <2>2, <1>1
        <4> QED BY Zenon, <4>1, <4>2, <2>1
      <3>2. ASSUME NEW i \in 1 .. Len(queue'), NEW j \in 1 .. Len(queue'), queue'[i] = queue'[j]
            PROVE  i = j
        <4>1. /\ queue'[i] = queue[i + 1] /\ i + 1 \in 1 .. Len(queue)
              /\ queue'[j] = queue[j + 1] /\ j + 1 \in 1 .. Len(queue)
          BY Zenon, <2>1, <2>2
        <4>2. i + 1 = j + 1 BY Zenon, <4>1, <3>2, <1>1
        <4> QED BY Zenon, <4>2, <2>3
      <3>3. holder' # None BY Zenon, <2>1, <2>2, Processes
      <3> QED BY Zenon, <3>1, <3>2, <3>3, <2>1, <2>2 DEF QueueOK
    <2>5. ASSUME NEW x \in Procs
          PROVE  Waits(holder', queue', x) <=> Waits(holder, queue, x) /\ x # holder
      <3>1. ASSUME Waits(holder', queue', x) PROVE Waits(holder, queue, x) /\ x # holder
        <4>1. PICK i \in 1 .. Len(queue) : queue[i] = x BY ZenonT(40), <3>1, <2>1, <2>2 DEF Waits
        <4> QED BY Zenon, <4>1, <1>1 DEF Waits
      <3>2. ASSUME Waits(holder, queue, x), x # holder PROVE Waits(holder', queue', x)
        <4>1. PICK i \in 1 .. Len(queue) : queue[i] = x BY Zenon, <3>2 DEF Waits
        <4>2. CASE i = 1 BY Zenon, <4>1, <4>2, <2>1 DEF Waits
        <4>3. CASE i # 1
          <5>1. PICK j \in 1 .. Len(queue') : i = j + 1 BY Zenon, <4>3, <2>2
          <5>2. queue'[j] = x BY Zenon, <5>1, <4>1, <2>1
          <5> QED BY Zenon, <5>2 DEF Waits
        <4> QED BY Zenon, <4>2, <4>3
      <3> QED BY Zenon, <3>1, <3>2
    <2> QED BY Zenon, <2>1, <2>4, <2>5, <1>2, <1>4
  <1> QED BY Zenon, <1>3, <1>4

\* The print file lets the mutex go and queues for it again.
LEMMA Requeues ==
    ASSUME QueueOK(holder, queue), holder \in Procs, queue # << >>,
           Release(Append(queue, holder))
    PROVE  /\ QueueOK(holder', queue')
           /\ \A x \in Procs : Waits(holder', queue', x) <=> Waits(holder, queue, x)
           /\ parked' = "switch" /\ holder' = queue[1] /\ holder' # holder
           /\ queue' = Append(Tail(queue), holder)
  <1>1. /\ queue \in Seq(Procs)
        /\ \A i, j \in 1 .. Len(queue) : queue[i] # holder /\ (queue[i] = queue[j] => i = j)
    BY Zenon DEF QueueOK
  <1>2. /\ Append(queue, holder) # << >> /\ Head(Append(queue, holder)) = queue[1]
        /\ Tail(Append(queue, holder)) = Append(Tail(queue), holder)
        /\ Tail(queue) \in Seq(Procs) /\ Len(Tail(queue)) = Len(queue) - 1
        /\ Len(queue) \in Nat /\ Len(queue) # 0
        /\ \A i \in 1 .. Len(Tail(queue)) : Tail(queue)[i] = queue[i + 1]
    <2>1. PICK q \in Seq(Procs) : q = queue BY Zenon, <1>1
    <2>2. PICK h \in Procs : h = holder BY Zenon
    <2>3. q # << >> BY Zenon, <2>1
    <2>4. /\ Append(q, h) # << >> /\ Head(Append(q, h)) = q[1]
          /\ Tail(q) \in Seq(Procs) /\ Len(Tail(q)) = Len(q) - 1
          /\ Len(q) \in Nat /\ Len(q) # 0
          /\ \A i \in 1 .. Len(Tail(q)) : Tail(q)[i] = q[i + 1]
      BY <2>3
    <2>5. Tail(Append(q, h)) = Append(Tail(q), h)
      <3>1. /\ Tail(Append(q, h)) \in Seq(Procs) /\ Len(Tail(Append(q, h))) = Len(q)
            /\ \A i \in 1 .. Len(q) : Tail(Append(q, h))[i] = Append(q, h)[i + 1]
        BY <2>3, <2>4
      <3>2. /\ Append(Tail(q), h) \in Seq(Procs) /\ Len(Append(Tail(q), h)) = Len(q)
            /\ \A i \in 1 .. Len(q) - 1 : Append(Tail(q), h)[i] = Tail(q)[i]
            /\ Append(Tail(q), h)[Len(q)] = h
        BY <2>4
      <3>3. ASSUME NEW i \in 1 .. Len(q)
            PROVE  Tail(Append(q, h))[i] = Append(Tail(q), h)[i]
        <4>1. CASE i = Len(q) BY <4>1, <3>1, <3>2, <2>4
        <4>2. CASE i # Len(q)
          <5>0. PICK m \in Nat : m = Len(q) BY Zenon, <2>4
          <5>1. i \in 1 .. Len(q) - 1 /\ i \in 1 .. Len(Tail(q)) /\ i + 1 \in 1 .. Len(q)
            <6>1. Len(Tail(q)) = m - 1 BY Zenon, <5>0, <2>4
            <6>2. i \in 1 .. m /\ i # m BY Zenon, <5>0, <4>2
            <6>3. i \in 1 .. m - 1 /\ i + 1 \in 1 .. m BY SMTT(60), <6>2
            <6> QED BY Zenon, <5>0, <6>1, <6>3
          <5>2. Append(q, h)[i + 1] = q[i + 1] BY <5>1
          <5> QED BY Zenon, <5>1, <5>2, <3>1, <3>2, <2>4
        <4> QED BY Zenon, <4>1, <4>2
      <3> QED BY Zenon, <3>1, <3>2, <3>3, SeqEqual
    <2> QED BY Zenon, <2>1, <2>2, <2>4, <2>5
  <1>3. /\ holder' = queue[1] /\ parked' = "switch" /\ queue' = Append(Tail(queue), holder)
    BY Zenon, <1>2 DEF Release
  <1>4. PICK n \in Nat : n = Len(Tail(queue)) BY Zenon, <1>2, LenProperties
  <1>5. /\ queue' \in Seq(Procs) /\ Len(queue') = n + 1 /\ Len(queue) = n + 1
        /\ queue'[n + 1] = holder
        /\ \A i \in 1 .. n : queue'[i] = queue[i + 1] /\ i + 1 \in 1 .. Len(queue) /\ i + 1 # 1
        /\ 1 \in 1 .. Len(queue) /\ n + 1 \in 1 .. Len(queue')
        /\ \A i \in 1 .. Len(queue') : i \in 1 .. n \/ i = n + 1
        /\ \A i \in 1 .. n : i \in 1 .. Len(queue') /\ i # n + 1
        /\ \A i, j \in 1 .. n : i + 1 = j + 1 => i = j
    <2>1. PICK t \in Seq(Procs) : t = Tail(queue) BY Zenon, <1>2
    <2>2. PICK h \in Procs : h = holder BY Zenon
    <2>3. n = Len(t) /\ queue' = Append(t, h) BY Zenon, <2>1, <2>2, <1>3, <1>4
    <2>4. /\ Append(t, h) \in Seq(Procs) /\ Len(Append(t, h)) = n + 1
          /\ Append(t, h)[n + 1] = h
          /\ \A i \in 1 .. n : Append(t, h)[i] = t[i]
      BY <2>3
    <2>5. Len(queue) = n + 1
      <3>1. PICK m \in Nat : m = Len(queue) BY Zenon, <1>2
      <3>2. n = m - 1 BY Zenon, <3>1, <1>2, <1>4
      <3>3. m = n + 1 BY SMTT(60), <3>2
      <3> QED BY Zenon, <3>1, <3>3
    <2>6. /\ 1 \in 1 .. n + 1 /\ n + 1 \in 1 .. n + 1
          /\ \A i \in 1 .. n : i + 1 \in 1 .. n + 1 /\ i + 1 # 1
          /\ \A i \in 1 .. n + 1 : i \in 1 .. n \/ i = n + 1
          /\ \A i \in 1 .. n : i \in 1 .. n + 1 /\ i # n + 1
          /\ \A i, j \in 1 .. n : i + 1 = j + 1 => i = j
      BY SMTT(60), <1>4
    <2>7. \A i \in 1 .. n : t[i] = queue[i + 1] BY Zenon, <1>2, <1>4, <2>1
    <2> QED BY Zenon, <2>2, <2>3, <2>4, <2>5, <2>6, <2>7
  <1>6. \A i \in 1 .. Len(queue) : i = 1 \/ (\E j \in 1 .. n : i = j + 1)
    <2>1. SUFFICES ASSUME NEW i \in 1 .. Len(queue), i # 1 PROVE \E j \in 1 .. n : i = j + 1
      BY Zenon
    <2>2. i - 1 \in 1 .. n /\ i = (i - 1) + 1 BY <1>4, <1>5, <2>1
    <2> QED BY Zenon, <2>2
  <1>7. QueueOK(holder', queue')
    <2>1. ASSUME NEW i \in 1 .. Len(queue') PROVE queue'[i] # holder'
      <3>1. CASE i \in 1 .. n
        <4>1. queue'[i] = queue[i + 1] /\ i + 1 \in 1 .. Len(queue) /\ i + 1 # 1
          BY Zenon, <1>5, <3>1
        <4>2. queue[i + 1] # queue[1] BY Zenon, <4>1, <1>5, <1>1
        <4> QED BY Zenon, <4>1, <4>2, <1>3
      <3>2. CASE i = n + 1
        <4>1. queue[1] # holder BY Zenon, <1>1, <1>5
        <4> QED BY Zenon, <4>1, <1>3, <1>5, <3>2
      <3> QED BY Zenon, <3>1, <3>2, <1>5
    <2>2. ASSUME NEW i \in 1 .. Len(queue'), NEW j \in 1 .. Len(queue'), queue'[i] = queue'[j]
          PROVE  i = j
      <3>1. \A k \in 1 .. n : queue'[k] # holder BY ZenonT(40), <1>1, <1>5
      <3>2. CASE i \in 1 .. n /\ j \in 1 .. n
        <4>1. /\ queue'[i] = queue[i + 1] /\ i + 1 \in 1 .. Len(queue)
              /\ queue'[j] = queue[j + 1] /\ j + 1 \in 1 .. Len(queue)
          BY Zenon, <1>5, <3>2
        <4>2. i + 1 = j + 1 BY Zenon, <4>1, <2>2, <1>1
        <4> QED BY Zenon, <4>2, <3>2, <1>5
      <3>3. CASE i \in 1 .. n /\ j = n + 1 BY Zenon, <3>3, <3>1, <2>2, <1>5
      <3>4. CASE i = n + 1 /\ j \in 1 .. n BY Zenon, <3>4, <3>1, <2>2, <1>5
      <3>5. CASE i = n + 1 /\ j = n + 1 BY Zenon, <3>5
      <3> QED BY Zenon, <3>2, <3>3, <3>4, <3>5, <1>5
    <2>3. holder' \in Procs BY <1>1, <1>3, <1>5
    <2>4. holder' # None BY Zenon, <2>3, Processes
    <2> QED BY Zenon, <2>1, <2>2, <2>3, <2>4, <1>5 DEF QueueOK
  <1>8. ASSUME NEW x \in Procs
        PROVE  Waits(holder', queue', x) <=> Waits(holder, queue, x)
    <2>1. ASSUME Waits(holder', queue', x) PROVE Waits(holder, queue, x)
      <3>1. CASE holder' = x BY Zenon, <3>1, <1>3, <1>5 DEF Waits
      <3>2. CASE \E i \in 1 .. Len(queue') : queue'[i] = x
        <4>1. PICK i \in 1 .. Len(queue') : queue'[i] = x BY Zenon, <3>2
        <4>2. CASE i \in 1 .. n BY Zenon, <4>1, <4>2, <1>5 DEF Waits
        <4>3. CASE i = n + 1 BY Zenon, <4>1, <4>3, <1>5 DEF Waits
        <4> QED BY Zenon, <4>2, <4>3, <1>5
      <3> QED BY Zenon, <3>1, <3>2, <2>1 DEF Waits
    <2>2. ASSUME Waits(holder, queue, x) PROVE Waits(holder', queue', x)
      <3>1. CASE holder = x BY Zenon, <3>1, <1>5 DEF Waits
      <3>2. CASE \E i \in 1 .. Len(queue) : queue[i] = x
        <4>1. PICK i \in 1 .. Len(queue) : queue[i] = x BY Zenon, <3>2
        <4>2. CASE i = 1 BY Zenon, <4>1, <4>2, <1>3 DEF Waits
        <4>3. CASE i # 1
          <5>1. PICK j \in 1 .. n : i = j + 1 BY Zenon, <4>3, <1>6
          <5>2. queue'[j] = x /\ j \in 1 .. Len(queue') BY Zenon, <5>1, <4>1, <1>5
          <5> QED BY Zenon, <5>2 DEF Waits
        <4> QED BY Zenon, <4>2, <4>3
      <3> QED BY Zenon, <3>1, <3>2, <2>2 DEF Waits
    <2> QED BY Zenon, <2>1, <2>2
  <1> QED BY Zenon, <1>1, <1>3, <1>5, <1>7, <1>8

-----------------------------------------------------------------------------
(* What a command leaves of the scripts and of the rest. *)

SdType == [phase : {"off", "start", "loop", "line", "on_error"},
           must_pause_work : BOOLEAN, file : BOOLEAN, pos : 1..(Len(Lines) + 1)]
PrType == [is_paused : BOOLEAN, sd_paused : BOOLEAN, pause_command_sent : BOOLEAN]

LEMMA SdMustPause ==
    ASSUME NEW r \in SdType, NEW b \in BOOLEAN
    PROVE  /\ [r EXCEPT !.must_pause_work = b] \in SdType /\ [r EXCEPT !.must_pause_work = b].must_pause_work = b
           /\ [r EXCEPT !.must_pause_work = b].phase = r.phase
           /\ [r EXCEPT !.must_pause_work = b].file = r.file
           /\ [r EXCEPT !.must_pause_work = b].pos = r.pos
  BY SMTT(60) DEF SdType

LEMMA SdPhase ==
    ASSUME NEW r \in SdType, NEW f \in {"off", "start", "loop", "line", "on_error"}
    PROVE  /\ [r EXCEPT !.phase = f] \in SdType /\ [r EXCEPT !.phase = f].phase = f
           /\ [r EXCEPT !.phase = f].must_pause_work = r.must_pause_work
           /\ [r EXCEPT !.phase = f].file = r.file
           /\ [r EXCEPT !.phase = f].pos = r.pos
  BY SMTT(60) DEF SdType

LEMMA SdFile ==
    ASSUME NEW r \in SdType, NEW b \in BOOLEAN
    PROVE  /\ [r EXCEPT !.file = b] \in SdType /\ [r EXCEPT !.file = b].file = b
           /\ [r EXCEPT !.file = b].phase = r.phase
           /\ [r EXCEPT !.file = b].must_pause_work = r.must_pause_work
           /\ [r EXCEPT !.file = b].pos = r.pos
  BY SMTT(60) DEF SdType

LEMMA SdPos ==
    ASSUME NEW r \in SdType, NEW n \in 1 .. (Len(Lines) + 1)
    PROVE  /\ [r EXCEPT !.pos = n] \in SdType /\ [r EXCEPT !.pos = n].pos = n
           /\ [r EXCEPT !.pos = n].phase = r.phase
           /\ [r EXCEPT !.pos = n].must_pause_work = r.must_pause_work
           /\ [r EXCEPT !.pos = n].file = r.file
  BY SMTT(60) DEF SdType

LEMMA PrSdPaused ==
    ASSUME NEW r \in PrType, NEW b \in BOOLEAN
    PROVE  /\ [r EXCEPT !.sd_paused = b] \in PrType /\ [r EXCEPT !.sd_paused = b].sd_paused = b
           /\ [r EXCEPT !.sd_paused = b].is_paused = r.is_paused
           /\ [r EXCEPT !.sd_paused = b].pause_command_sent = r.pause_command_sent
  BY SMTT(60) DEF PrType

\* A script whose first command is replaced by "more".
LEMMA Shifted ==
    ASSUME NEW more \in Seq(Cmd), NEW s \in Seq(Cmd), s # << >>
    PROVE  /\ more \o Tail(s) \in Seq(Cmd)
           /\ Len(more \o Tail(s)) = Len(more) + (Len(s) - 1)
           /\ \A i \in 1 .. Len(more) : (more \o Tail(s))[i] = more[i]
           /\ \A j \in 2 .. Len(s) : (more \o Tail(s))[Len(more) + (j - 1)] = s[j]
           /\ \A i \in 1 .. Len(more \o Tail(s)) :
                 i \in 1 .. Len(more) \/ \E j \in 2 .. Len(s) : i = Len(more) + (j - 1)
           /\ s[1] \in Cmd /\ Head(s) = s[1] /\ Len(s) \in Nat \ {0} /\ Len(more) \in Nat
  <1>1. PICK m \in Nat : m = Len(more) BY LenProperties
  <1>2. PICK n \in Nat : n = Len(s) BY LenProperties
  <1>3. n # 0 /\ s[1] \in Cmd /\ Head(s) = s[1] BY <1>2
  <1>4. /\ Tail(s) \in Seq(Cmd) /\ Len(Tail(s)) = n - 1
        /\ \A i \in 1 .. (n - 1) : Tail(s)[i] = s[i + 1]
    BY <1>2
  <1>5. /\ more \o Tail(s) \in Seq(Cmd) /\ Len(more \o Tail(s)) = m + (n - 1)
        /\ \A i \in 1 .. m : (more \o Tail(s))[i] = more[i]
        /\ \A i \in 1 .. (n - 1) : (more \o Tail(s))[m + i] = Tail(s)[i]
    BY <1>1, <1>4
  <1>6. ASSUME NEW j \in 2 .. n PROVE (more \o Tail(s))[m + (j - 1)] = s[j]
    <2>1. j - 1 \in 1 .. (n - 1) /\ (j - 1) + 1 = j BY SMTT(60), <1>2
    <2> QED BY Zenon, <2>1, <1>4, <1>5
  <1>7. ASSUME NEW i \in 1 .. (m + (n - 1))
        PROVE  i \in 1 .. m \/ \E j \in 2 .. n : i = m + (j - 1)
    <2>1. i \in 1 .. m \/ ((i - m) + 1 \in 2 .. n /\ i = m + (((i - m) + 1) - 1))
      BY SMTT(60), <1>1, <1>2
    <2> QED BY Zenon, <2>1
  <1>8. /\ \A j \in 2 .. Len(s) : (more \o Tail(s))[Len(more) + (j - 1)] = s[j]
        /\ \A i \in 1 .. Len(more) : (more \o Tail(s))[i] = more[i]
    BY Zenon, <1>1, <1>2, <1>5, <1>6
  <1>9. \A i \in 1 .. Len(more \o Tail(s)) :
           i \in 1 .. Len(more) \/ \E j \in 2 .. Len(s) : i = Len(more) + (j - 1)
    BY ZenonT(40), <1>1, <1>2, <1>5, <1>7
  <1>10. Len(s) \in Nat \ {0} /\ Len(more) \in Nat BY <1>1, <1>2, <1>3
  <1>11. Len(more \o Tail(s)) = Len(more) + (Len(s) - 1) BY Zenon, <1>1, <1>2, <1>5
  <1> QED BY Zenon, <1>3, <1>5, <1>8, <1>9, <1>10, <1>11

Yields == {"no", "switch", "wait"}

\* p's script goes on with "more", or has raised; the others keep theirs.
Goes(p, more) ==
    /\ script' \in [Procs -> Seq(Cmd)]
    /\ script'[p] = more \o Tail(script[p])
    /\ \A x \in Procs : x # p => script'[x] = script[x]

Errs(p) ==
    /\ script' \in [Procs -> Seq(Cmd)]
    /\ script'[p] = << <<"error">> >>
    /\ \A x \in Procs : x # p => script'[x] = script[x]

Holds(p) == holder = p /\ script[p] # << >> /\ holder' = holder /\ queue' = queue

LEMMA DoneGoes ==
    ASSUME Mutex, NEW p \in Procs, script[p] # << >>, NEW more \in Seq(Cmd), NEW y,
           Done(p, more, y)
    PROVE  Goes(p, more) /\ parked' = y /\ holder' = holder /\ queue' = queue
  <1>1. /\ script \in [Procs -> Seq(Cmd)] BY Zenon DEF Mutex
  <1>2. script[p] \in Seq(Cmd) BY Zenon, <1>1
  <1>3. PICK w \in Seq(Cmd) : w = more \o Tail(script[p]) BY Zenon, <1>2, Shifted
  <1>4. script' = [script EXCEPT ![p] = w] BY Zenon, <1>3 DEF Done
  <1>5. script' \in [Procs -> Seq(Cmd)] /\ script'[p] = w
        /\ \A x \in Procs : x # p => script'[x] = script[x]
    BY <1>1, <1>4
  <1> QED BY Zenon, <1>3, <1>5 DEF Goes, Done

LEMMA RaiseErrs ==
    ASSUME Mutex, NEW p \in Procs, Raise(p)
    PROVE  Errs(p) /\ parked' = "no" /\ holder' = holder /\ queue' = queue
  <1>1. /\ script \in [Procs -> Seq(Cmd)] BY Zenon DEF Mutex
  <1>2. "error" \in Plain BY SMTT(60) DEF Plain
  <1>3. PICK e \in Cmd : e = <<"error">> BY Zenon, <1>2, CommandsAre
  <1>4. <<e>> \in Seq(Cmd) BY <1>3
  <1>5. script' = [script EXCEPT ![p] = <<e>>] BY Zenon, <1>3 DEF Raise
  <1>6. script' \in [Procs -> Seq(Cmd)] /\ script'[p] = <<e>>
        /\ \A x \in Procs : x # p => script'[x] = script[x]
    BY <1>1, <1>4, <1>5
  <1> QED BY Zenon, <1>3, <1>6 DEF Errs, Raise

-----------------------------------------------------------------------------
(* The commands, by what they do to the print file, the pause and the timers. *)

Machine ==
    /\ last_extruder_temp \in Temps
    /\ heat \in [extruder : Temps, bed : {Off, PrintTemp}]
    /\ motors \in BOOLEAN /\ homed \in BOOLEAN
    /\ state \in {"Idle", "Ready", "Printing"} /\ still \in BOOLEAN

Op(p) == script[p][1][1]

Fails(p) == Errs(p) /\ sd' = sd /\ pr' = pr /\ timer' = timer

\* The commands, besides the macros, that put more commands in front of the rest.
Longer == {"BASE_RESUME", "SDCARD_RESET_FILE", "BASE_CANCEL_PRINT"}

Calms(p) ==
    /\ \E more \in Seq(Calm) :
          /\ Goes(p, more)
          /\ Op(p) = "SDCARD_RESET_FILE" =>
                more = << <<"WAIT_SD">>, <<"CLOSE_FILE">> >> /\ ~ cmd_from_sd
          /\ Op(p) \in Macros \cup Longer \/ more = << >>
    /\ Op(p) \notin {"PRINT_START", "PRINT_END", "CANCEL_PRINT", "UPDATE_DELAYED_GCODE",
                     "CLOSE_FILE"}
    /\ sd' = sd \/ (sd.phase # "off" /\ sd' = [sd EXCEPT !.must_pause_work = TRUE])
    /\ pr' = pr /\ timer' = timer

Expands(p, m, more) ==
    /\ script[p][1] = <<m>> /\ Goes(p, more) /\ parked' = "no"
    /\ sd' = sd /\ pr' = pr /\ timer' = timer

Updates(p) ==
    /\ \E t \in Timers, b \in BOOLEAN :
          /\ script[p][1] = <<"UPDATE_DELAYED_GCODE", t, b>>
          /\ timer' = [timer EXCEPT ![t] = Updated(t, b)]
    /\ Goes(p, << >>) /\ parked' = "no" /\ sd' = sd /\ pr' = pr

PausesAgain(p) ==
    /\ ~ pr.is_paused /\ pr.pause_command_sent
    /\ Goes(p, << <<"PAUSED">> >>)
    /\ sd' = sd /\ pr' = pr /\ timer' = timer

PausesNow(p) ==
    /\ script[p][1] = <<"BASE_PAUSE">>
    /\ ~ pr.is_paused
    /\ pr' = [pr EXCEPT !.sd_paused = is_active]
    /\ sd' = IF is_active THEN [sd EXCEPT !.must_pause_work = TRUE] ELSE sd
    /\ Goes(p, << <<"WAIT_SD">>, <<"PAUSED">> >>)
    /\ timer' = timer

IsPaused(p) ==
    /\ script[p][1] = <<"PAUSED">>
    /\ pr' = [pr EXCEPT !.pause_command_sent = TRUE, !.is_paused = TRUE]
    /\ Goes(p, << >>) /\ sd' = sd /\ timer' = timer

Resumes(p) ==
    /\ script[p][1] = <<"RESUMED">>
    /\ pr.sd_paused => ~ is_active
    /\ sd' = IF pr.sd_paused THEN Resuming ELSE sd
    /\ pr' = Resumed
    /\ Goes(p, << >>) /\ timer' = timer

Clears(p) ==
    /\ script[p][1] = <<"CLEAR_PAUSE">>
    /\ pr' = [pr EXCEPT !.is_paused = FALSE, !.pause_command_sent = FALSE]
    /\ Goes(p, << >>) /\ sd' = sd /\ timer' = timer

Closes(p) ==
    /\ script[p][1] = <<"CLOSE_FILE">>
    /\ sd' = [sd EXCEPT !.file = FALSE, !.pos = 1]
    /\ Goes(p, << >>) /\ pr' = pr /\ timer' = timer

Prints(p) ==
    /\ script[p][1] = <<"SDCARD_PRINT_FILE">>
    /\ ~ is_active
    /\ sd' = [Resuming EXCEPT !.file = TRUE, !.pos = 1]
    /\ Goes(p, << >>) /\ pr' = pr /\ timer' = timer

Outcome(p) ==
    \/ Fails(p) \/ Calms(p)
    \/ Expands(p, "PRINT_START", PRINT_START) \/ Expands(p, "PRINT_END", PRINT_END)
    \/ Expands(p, "CANCEL_PRINT", CANCEL_PRINT)
    \/ Updates(p) \/ PausesAgain(p) \/ PausesNow(p) \/ IsPaused(p)
    \/ Resumes(p) \/ Clears(p) \/ Closes(p) \/ Prints(p)

\* The command at the head of the holder's script.
LEMMA RunningIs ==
    ASSUME Typed, NEW p \in Procs, NEW op, Running(p, op)
    PROVE  /\ holder = p /\ script[p] # << >> /\ script[p] \in Seq(Cmd)
           /\ script[p][1] \in Cmd /\ Op(p) = op /\ Arg(p) = script[p][1][2]
           /\ Head(script[p]) = script[p][1]
           /\ op \in Plain => script[p][1] = <<op>>
  <1>1. holder = p /\ script[p] # << >> /\ Head(script[p])[1] = op BY Zenon DEF Running
  <1>2. script[p] \in Seq(Cmd) BY Zenon DEF Typed, Mutex
  <1>3. script[p][1] \in Cmd /\ Head(script[p]) = script[p][1]
    <2>1. << >> \in Seq(Cmd) BY Zenon, EmptySeq
    <2> QED BY Zenon, <2>1, <1>1, <1>2, Shifted
  <1>4. script[p][1][1] \in Plain => script[p][1] = << script[p][1][1] >>
    BY Zenon, <1>3, CommandIs
  <1> QED BY Zenon, <1>1, <1>2, <1>3, <1>4 DEF Op, Arg

LEMMA Heats ==
    ASSUME NEW h \in [extruder : Temps, bed : {Off, PrintTemp}]
    PROVE  /\ h.extruder \in Temps
           /\ \A t \in Temps : [h EXCEPT !.extruder = t] \in [extruder : Temps, bed : {Off, PrintTemp}]
           /\ \A t \in {Off, PrintTemp} :
                 [h EXCEPT !.bed = t] \in [extruder : Temps, bed : {Off, PrintTemp}]
           /\ [extruder |-> Off, bed |-> Off] \in [extruder : Temps, bed : {Off, PrintTemp}]
  BY SMTT(60) DEF Temps

LEMMA EmptyCalm == << >> \in Seq(Calm) /\ << >> \in Seq(Cmd) BY Zenon, EmptySeq

LEMMA CalmIsCmd == \A q \in Seq(Calm) : q \in Seq(Cmd)
  <1>1. Calm \subseteq Cmd BY Zenon DEF Calm
  <1> QED BY SMTT(60), <1>1

Result(p) ==
    /\ Holds(p) /\ req' = req /\ Machine' /\ parked' \in Yields
    /\ motors' # motors => script[p][1] = <<"SHELL", motors'>>
    /\ Outcome(p)

LEMMA Fragments ==
    /\ << <<"PAUSED">> >> \in Seq(Cmd)
    /\ << <<"WAIT_SD">>, <<"PAUSED">> >> \in Seq(Cmd)
    /\ << <<"G1">>, <<"RESUMED">> >> \in Seq(Calm)
    /\ << <<"WAIT_SD">>, <<"CLOSE_FILE">> >> \in Seq(Calm)
    /\ << <<"WAIT_SD">>, <<"CLOSE_FILE">>, <<"CLEAR_PAUSE">> >> \in Seq(Calm)
    /\ << <<"CLEAR_PAUSE">> >> \in Seq(Calm)
  <1>1. <<"PAUSED">> \in Cmd /\ <<"WAIT_SD">> \in Cmd
    BY SMTT(60), CommandsAre DEF Plain
  <1>2. {"G1", "RESUMED", "WAIT_SD", "CLOSE_FILE", "CLEAR_PAUSE"}
           \subseteq Plain \ {"PRINT_END", "PAUSED", "SDCARD_PRINT_FILE"}
    BY SMTT(60) DEF Plain
  <1>3. <<"G1">> \in Calm /\ <<"RESUMED">> \in Calm /\ <<"WAIT_SD">> \in Calm
        /\ <<"CLOSE_FILE">> \in Calm /\ <<"CLEAR_PAUSE">> \in Calm
    BY Zenon, <1>2, CalmAre
  <1>4. ASSUME NEW S, NEW a \in S, NEW b \in S, NEW c \in S
        PROVE  <<a>> \in Seq(S) /\ <<a, b>> \in Seq(S) /\ <<a, b, c>> \in Seq(S)
    OBVIOUS
  <1> QED BY Zenon, <1>1, <1>3, <1>4

\* Every command of the holder has one of the outcomes.
LEMMA Commands ==
    \A p \in Procs : Typed /\ Command(p) => Result(p)
  \* A command that is done at once, or raises, and touches the machine only.
  <1>Touches. ASSUME Typed, NEW p \in Procs, NEW op, Running(p, op), NEW y \in Yields,
                     op \notin {"PRINT_START", "PRINT_END", "CANCEL_PRINT", "UPDATE_DELAYED_GCODE",
                                "CLOSE_FILE", "SDCARD_RESET_FILE"},
                     Done(p, << >>, y) \/ Raise(p),
                     req' = req, sd' = sd, pr' = pr, timer' = timer, Machine',
                     motors' # motors => script[p][1] = <<"SHELL", motors'>>
              PROVE  Result(p)
    <2> USE <1>Touches
    <2>1. holder = p /\ script[p] # << >> /\ Op(p) = op BY Zenon, RunningIs
    <2>2. Mutex BY Zenon DEF Typed
    <2>3. CASE Done(p, << >>, y)
      <3>1. Goes(p, << >>) /\ parked' = y /\ holder' = holder /\ queue' = queue
        BY Zenon, <2>1, <2>2, <2>3, DoneGoes, EmptyCalm
      <3>2. Calms(p)
        <4>1. op # "SDCARD_RESET_FILE" BY Zenon
        <4> QED BY Zenon, <3>1, <2>1, <4>1, EmptyCalm DEF Calms
      <3> QED BY Zenon, <3>1, <3>2, <2>1 DEF Result, Holds, Outcome
    <2>4. CASE Raise(p)
      <3>1. Errs(p) /\ parked' = "no" /\ holder' = holder /\ queue' = queue
        BY Zenon, <2>2, <2>4, RaiseErrs
      <3>2. "no" \in Yields BY Zenon DEF Yields
      <3> QED BY Zenon, <3>1, <3>2, <2>1 DEF Result, Holds, Outcome, Fails
    <2> QED BY Zenon, <2>3, <2>4
  <1>MachineCommands.
      ASSUME Typed, NEW p \in Procs,
             \/ SetExtruder(p) \/ SetBed(p) \/ TURN_OFF_HEATERS(p) \/ G1(p) \/ Dwell(p)
             \/ Home(p) \/ M84(p) \/ RUN_SHELL_COMMAND(p) \/ SET_GCODE_VARIABLE(p) \/ WaitForSd(p)
      PROVE  Result(p)
    <2> USE <1>MachineCommands
    <2>1. /\ last_extruder_temp \in Temps
          /\ heat \in [extruder : Temps, bed : {Off, PrintTemp}]
          /\ motors \in BOOLEAN /\ homed \in BOOLEAN
          /\ state \in {"Idle", "Ready", "Printing"} /\ still \in BOOLEAN
      BY Zenon DEF Typed, Values
    <2>2. "no" \in Yields /\ "wait" \in Yields BY Zenon DEF Yields
    <2>3. "Printing" \in {"Idle", "Ready", "Printing"} OBVIOUS
    <2> DEFINE Odd == {"PRINT_START", "PRINT_END", "CANCEL_PRINT", "UPDATE_DELAYED_GCODE",
                       "CLOSE_FILE", "SDCARD_RESET_FILE"}
    <2>4. CASE SetExtruder(p)
      <3>1. PICK op \in {"M104", "M109"} :
              /\ Running(p, op)
              /\ heat' = [heat EXCEPT !.extruder = Arg(p)]
              /\ Done(p, << >>, IF op = "M109" /\ Arg(p) # Off THEN "wait" ELSE "no")
              /\ Sync(still \/ (op = "M109" /\ Arg(p) # Off))
        BY Zenon, <2>4 DEF SetExtruder
      <3>2. /\ req' = req /\ sd' = sd /\ pr' = pr /\ timer' = timer /\ motors' = motors
            /\ homed' = homed /\ last_extruder_temp' = last_extruder_temp
        BY Zenon, <2>4 DEF SetExtruder
      <3>3. op \notin Odd /\ op \in {"M104", "M109", "SET_GCODE_VARIABLE"} BY SMTT(60)
      <3>4. Arg(p) \in Temps
        <4>1. script[p][1] \in Cmd /\ script[p][1][1] = op /\ Arg(p) = script[p][1][2]
          BY Zenon, <3>1, RunningIs DEF Op
        <4> QED BY Zenon, <4>1, <3>3, CommandIs
      <3>5. heat' \in [extruder : Temps, bed : {Off, PrintTemp}] BY Zenon, <3>1, <3>4, <2>1, Heats
      <3>6. state' = "Printing" /\ still' \in BOOLEAN BY Zenon, <3>1, <2>1 DEF Sync
      <3>7. Machine' BY Zenon, <3>2, <3>5, <3>6, <2>1, <2>3 DEF Machine
      <3>8. PICK y \in Yields : Done(p, << >>, y) BY Zenon, <3>1, <2>2
      <3> QED BY Zenon, <3>1, <3>2, <3>3, <3>7, <3>8, <1>Touches
    <2>5. CASE SetBed(p)
      <3>1. PICK op \in {"M140", "M190"} :
              /\ Running(p, op)
              /\ heat' = [heat EXCEPT !.bed = Arg(p)]
              /\ Done(p, << >>, IF op = "M190" THEN "wait" ELSE "no")
              /\ Sync(still \/ op = "M190")
        BY Zenon, <2>5 DEF SetBed
      <3>2. /\ req' = req /\ sd' = sd /\ pr' = pr /\ timer' = timer /\ motors' = motors
            /\ homed' = homed /\ last_extruder_temp' = last_extruder_temp
        BY Zenon, <2>5 DEF SetBed
      <3>3. op \notin Odd BY SMTT(60)
      <3>4. Arg(p) \in {Off, PrintTemp}
        <4>1. script[p][1] \in Cmd /\ script[p][1][1] = op /\ Arg(p) = script[p][1][2]
          BY Zenon, <3>1, RunningIs DEF Op
        <4> QED BY Zenon, <4>1, CommandIs
      <3>5. heat' \in [extruder : Temps, bed : {Off, PrintTemp}] BY Zenon, <3>1, <3>4, <2>1, Heats
      <3>6. state' = "Printing" /\ still' \in BOOLEAN BY Zenon, <3>1, <2>1 DEF Sync
      <3>7. Machine' BY Zenon, <3>2, <3>5, <3>6, <2>1, <2>3 DEF Machine
      <3>8. PICK y \in Yields : Done(p, << >>, y) BY Zenon, <3>1, <2>2
      <3> QED BY Zenon, <3>1, <3>2, <3>3, <3>7, <3>8, <1>Touches
    <2>6. CASE TURN_OFF_HEATERS(p)
      <3>1. /\ Running(p, "TURN_OFF_HEATERS") /\ req' = req /\ sd' = sd /\ pr' = pr /\ timer' = timer
            /\ Done(p, << >>, "no") /\ motors' = motors
        BY Zenon, <2>6 DEF TURN_OFF_HEATERS
      <3>2. Machine'
        BY Zenon, <2>6, <2>1, <2>3, Heats DEF TURN_OFF_HEATERS, Machine, Sync, machine, idleVars
      <3>3. "TURN_OFF_HEATERS" \notin Odd BY SMTT(60)
      <3> QED BY Zenon, <3>1, <3>2, <3>3, <2>2, <1>Touches
    <2>7. CASE G1(p)
      <3>1. /\ Running(p, "G1") /\ req' = req /\ sd' = sd /\ pr' = pr /\ timer' = timer
            /\ (Done(p, << >>, "wait") \/ Raise(p)) /\ motors' = motors
        BY Zenon, <2>7 DEF G1, machine
      <3>2. Machine'
        BY Zenon, <2>7, <2>1, <2>3, Heats DEF G1, Machine, Sync, machine, idleVars
      <3>3. "G1" \notin Odd BY SMTT(60)
      <3> QED BY Zenon, <3>1, <3>2, <3>3, <2>2, <1>Touches
    <2>8. CASE Dwell(p)
      <3>1. PICK op \in {"G4", "EXTRUDE"} : Running(p, op) BY Zenon, <2>8 DEF Dwell
      <3>2. /\ req' = req /\ sd' = sd /\ pr' = pr /\ timer' = timer
            /\ Done(p, << >>, "wait") /\ motors' = motors
        BY Zenon, <2>8 DEF Dwell, machine
      <3>3. Machine' BY Zenon, <2>8, <2>1, <2>3 DEF Dwell, Machine, Sync, machine
      <3>4. op \notin Odd BY SMTT(60)
      <3> QED BY Zenon, <3>1, <3>2, <3>3, <3>4, <2>2, <1>Touches
    <2>9. CASE Home(p)
      <3>1. /\ Running(p, "HOME") /\ req' = req /\ sd' = sd /\ pr' = pr /\ timer' = timer
            /\ (Done(p, << >>, "wait") \/ Raise(p)) /\ motors' = motors
        BY Zenon, <2>9 DEF Home
      <3>2. Machine'
        BY Zenon, <2>9, <2>1, <2>3, Heats DEF Home, Machine, Sync, machine, idleVars
      <3>3. "HOME" \notin Odd BY SMTT(60)
      <3> QED BY Zenon, <3>1, <3>2, <3>3, <2>2, <1>Touches
    <2>10. CASE M84(p)
      <3>1. /\ Running(p, "M84") /\ req' = req /\ sd' = sd /\ pr' = pr /\ timer' = timer
            /\ Done(p, << >>, "wait") /\ motors' = motors
        BY Zenon, <2>10 DEF M84
      <3>2. Machine'
        BY Zenon, <2>10, <2>1, <2>3, Heats DEF M84, Machine, Sync, machine, idleVars
      <3>3. "M84" \notin Odd BY SMTT(60)
      <3> QED BY Zenon, <3>1, <3>2, <3>3, <2>2, <1>Touches
    <2>11. CASE RUN_SHELL_COMMAND(p)
      <3>1. /\ Running(p, "SHELL") /\ req' = req /\ sd' = sd /\ pr' = pr /\ timer' = timer
            /\ Done(p, << >>, "wait") \/ Raise(p)
            /\ motors' = Arg(p) \/ motors' = motors
            /\ heat' = heat /\ homed' = homed /\ last_extruder_temp' = last_extruder_temp
            /\ state' = state /\ still' \in {TRUE, still}
        BY Zenon, <2>11 DEF RUN_SHELL_COMMAND
      <3>2. script[p][1] \in Cmd /\ script[p][1][1] = "SHELL" /\ Arg(p) = script[p][1][2]
        BY Zenon, <3>1, RunningIs DEF Op
      <3>3. Arg(p) \in BOOLEAN /\ script[p][1] = <<"SHELL", Arg(p)>> BY Zenon, <3>2, CommandIs
      <3>4. Machine' BY Zenon, <3>1, <3>3, <2>1 DEF Machine
      <3>5. motors' # motors => script[p][1] = <<"SHELL", motors'>> BY Zenon, <3>1, <3>3
      <3>6. "SHELL" \notin Odd BY SMTT(60)
      <3> QED BY Zenon, <3>1, <3>4, <3>5, <3>6, <2>2, <1>Touches
    <2>12. CASE SET_GCODE_VARIABLE(p)
      <3>1. /\ Running(p, "SET_GCODE_VARIABLE") /\ req' = req /\ sd' = sd /\ pr' = pr
            /\ timer' = timer /\ Done(p, << >>, "no") /\ motors' = motors
            /\ heat' = heat /\ homed' = homed /\ last_extruder_temp' = Arg(p)
            /\ state' = state /\ still' = still
        BY Zenon, <2>12 DEF SET_GCODE_VARIABLE, idleVars
      <3>2. script[p][1] \in Cmd /\ script[p][1][1] = "SET_GCODE_VARIABLE"
            /\ Arg(p) = script[p][1][2]
        BY Zenon, <3>1, RunningIs DEF Op
      <3>3. Arg(p) \in Temps BY Zenon, <3>2, CommandIs
      <3>4. Machine' BY Zenon, <3>1, <3>3, <2>1 DEF Machine
      <3>5. "SET_GCODE_VARIABLE" \notin Odd BY SMTT(60)
      <3> QED BY Zenon, <3>1, <3>4, <3>5, <2>2, <1>Touches
    <2>13. CASE WaitForSd(p)
      <3>1. /\ Running(p, "WAIT_SD") /\ req' = req /\ sd' = sd /\ pr' = pr /\ timer' = timer
            /\ Done(p, << >>, "no") /\ motors' = motors
        BY Zenon, <2>13 DEF WaitForSd, machine
      <3>2. Machine'
        BY Zenon, <2>13, <2>1, <2>3, Heats DEF WaitForSd, Machine, Sync, machine, idleVars
      <3>3. "WAIT_SD" \notin Odd BY SMTT(60)
      <3> QED BY Zenon, <3>1, <3>2, <3>3, <2>2, <1>Touches
    <2> QED BY Zenon, <2>4, <2>5, <2>6, <2>7, <2>8, <2>9, <2>10, <2>11, <2>12, <2>13
  \* What the commands of the print file and of the pause have in common.
  <1>Proceeds.
      ASSUME Typed, NEW p \in Procs, NEW op, Running(p, op), NEW more \in Seq(Cmd), NEW y,
             Done(p, more, y)
      PROVE  Goes(p, more) /\ parked' = y /\ Holds(p) /\ Op(p) = op
             /\ (op \in Plain => script[p][1] = <<op>>)
    <2> USE <1>Proceeds
    <2>1. holder = p /\ script[p] # << >> /\ Op(p) = op /\ (op \in Plain => script[p][1] = <<op>>)
      BY Zenon, RunningIs
    <2>2. Mutex BY Zenon DEF Typed
    <2>3. Goes(p, more) /\ parked' = y /\ holder' = holder /\ queue' = queue
      BY Zenon, <2>1, <2>2, DoneGoes
    <2> QED BY Zenon, <2>1, <2>3 DEF Holds
  <1>PauseCommands.
      ASSUME Typed, NEW p \in Procs,
             \/ BASE_PAUSE(p) \/ Paused(p) \/ BASE_RESUME(p) \/ send_resume_command(p)
             \/ CLEAR_PAUSE(p)
      PROVE  Result(p)
    <2> USE <1>PauseCommands
    <2>1. Machine BY Zenon DEF Typed, Values, Machine
    <2>2. Mutex BY Zenon DEF Typed
    <2>3. {"BASE_PAUSE", "PAUSED", "BASE_RESUME", "RESUMED", "CLEAR_PAUSE"} \subseteq Plain
      BY SMTT(60) DEF Plain
    <2>4. {"no", "switch", "wait"} = Yields BY Zenon DEF Yields
    <2>5. CASE BASE_PAUSE(p)
      <3>1. /\ Running(p, "BASE_PAUSE") /\ req' = req /\ timer' = timer /\ motors' = motors
            /\ Machine'
        BY Zenon, <2>5, <2>1 DEF BASE_PAUSE, machine, idleVars, Machine
      <3>2. CASE pr.is_paused
        <4>1. Done(p, << >>, "no") /\ sd' = sd /\ pr' = pr BY Zenon, <2>5, <3>2 DEF BASE_PAUSE
        <4>2. "BASE_PAUSE" \notin {"PRINT_START", "PRINT_END", "CANCEL_PRINT",
                 "UPDATE_DELAYED_GCODE", "CLOSE_FILE", "SDCARD_RESET_FILE"}
          BY SMTT(60)
        <4> QED BY Zenon, <4>1, <4>2, <3>1, <2>4, <1>Touches
      <3>3. CASE ~ pr.is_paused /\ pr.pause_command_sent
        <4>1. Done(p, << <<"PAUSED">> >>, "no") /\ sd' = sd /\ pr' = pr
          BY Zenon, <2>5, <3>3 DEF BASE_PAUSE
        <4>2. Goes(p, << <<"PAUSED">> >>) /\ parked' = "no" /\ Holds(p)
          BY Zenon, <3>1, <4>1, Fragments, <1>Proceeds
        <4>3. PausesAgain(p) BY Zenon, <3>1, <3>3, <4>1, <4>2 DEF PausesAgain
        <4> QED BY Zenon, <4>2, <4>3, <3>1, <2>4 DEF Result, Outcome
      <3>4. CASE ~ pr.is_paused /\ ~ pr.pause_command_sent
        <4>1. /\ Done(p, << <<"WAIT_SD">>, <<"PAUSED">> >>, Switch)
              /\ pr' = [pr EXCEPT !.sd_paused = is_active]
              /\ sd' = IF is_active THEN [sd EXCEPT !.must_pause_work = TRUE] ELSE sd
          BY Zenon, <2>5, <3>4 DEF BASE_PAUSE, do_pause
        <4>2. Goes(p, << <<"WAIT_SD">>, <<"PAUSED">> >>) /\ parked' = Switch /\ Holds(p)
              /\ script[p][1] = <<"BASE_PAUSE">>
          BY Zenon, <3>1, <4>1, <2>3, Fragments, <1>Proceeds
        <4>3. PausesNow(p) BY Zenon, <3>1, <3>4, <4>1, <4>2 DEF PausesNow
        <4>4. Switch \in Yields BY Zenon, <2>4 DEF Switch
        <4> QED BY Zenon, <4>2, <4>3, <4>4, <3>1 DEF Result, Outcome
      <3> QED BY Zenon, <3>2, <3>3, <3>4
    <2>6. CASE Paused(p)
      <3>1. /\ Running(p, "PAUSED") /\ req' = req /\ timer' = timer /\ motors' = motors
            /\ sd' = sd /\ Machine' /\ Done(p, << >>, "no")
            /\ pr' = [pr EXCEPT !.pause_command_sent = TRUE, !.is_paused = TRUE]
        BY Zenon, <2>6, <2>1 DEF Paused, machine, idleVars, Machine
      <3>2. Goes(p, << >>) /\ parked' = "no" /\ Holds(p) /\ script[p][1] = <<"PAUSED">>
        BY Zenon, <3>1, <2>3, EmptyCalm, <1>Proceeds
      <3>3. IsPaused(p) BY Zenon, <3>1, <3>2 DEF IsPaused
      <3> QED BY Zenon, <3>1, <3>2, <3>3, <2>4 DEF Result, Outcome
    <2>7. CASE BASE_RESUME(p)
      <3>1. /\ Running(p, "BASE_RESUME") /\ req' = req /\ timer' = timer /\ motors' = motors
            /\ sd' = sd /\ pr' = pr /\ Machine'
            /\ Done(p, IF pr.is_paused THEN << <<"G1">>, <<"RESUMED">> >> ELSE << >>, "no")
        BY Zenon, <2>7, <2>1 DEF BASE_RESUME, machine, idleVars, Machine
      <3>2. PICK more \in Seq(Calm) : Done(p, more, "no")
        BY Zenon, <3>1, Fragments, EmptyCalm
      <3>3. Goes(p, more) /\ parked' = "no" /\ Holds(p) /\ Op(p) = "BASE_RESUME"
        BY Zenon, <3>1, <3>2, CalmIsCmd, <1>Proceeds
      <3>4. "BASE_RESUME" \notin {"PRINT_START", "PRINT_END", "CANCEL_PRINT",
               "UPDATE_DELAYED_GCODE", "CLOSE_FILE"} /\ "BASE_RESUME" # "SDCARD_RESET_FILE"
        BY SMTT(60)
      <3>5. Calms(p) BY Zenon, <3>1, <3>3, <3>4 DEF Calms, Longer
      <3> QED BY Zenon, <3>1, <3>3, <3>5, <2>4 DEF Result, Outcome
    <2>8. CASE send_resume_command(p)
      <3>1. /\ Running(p, "RESUMED") /\ req' = req /\ timer' = timer /\ motors' = motors
            /\ Machine'
        BY Zenon, <2>8, <2>1 DEF send_resume_command, machine, idleVars, Machine
      <3>2. CASE pr.sd_paused /\ is_active
        <4>1. Raise(p) /\ sd' = sd /\ pr' = pr BY Zenon, <2>8, <3>2 DEF send_resume_command
        <4>2. "RESUMED" \notin {"PRINT_START", "PRINT_END", "CANCEL_PRINT",
                 "UPDATE_DELAYED_GCODE", "CLOSE_FILE", "SDCARD_RESET_FILE"}
          BY SMTT(60)
        <4> QED BY Zenon, <4>1, <4>2, <3>1, <2>4, <1>Touches
      <3>3. CASE ~ (pr.sd_paused /\ is_active)
        <4>1. /\ Done(p, << >>, "no") /\ pr' = Resumed
              /\ sd' = IF pr.sd_paused THEN Resuming ELSE sd
          BY Zenon, <2>8, <3>3 DEF send_resume_command
        <4>2. Goes(p, << >>) /\ parked' = "no" /\ Holds(p) /\ script[p][1] = <<"RESUMED">>
          BY Zenon, <3>1, <4>1, <2>3, EmptyCalm, <1>Proceeds
        <4>3. Resumes(p) BY Zenon, <3>1, <3>3, <4>1, <4>2 DEF Resumes
        <4> QED BY Zenon, <4>2, <4>3, <3>1, <2>4 DEF Result, Outcome
      <3> QED BY Zenon, <3>2, <3>3
    <2>9. CASE CLEAR_PAUSE(p)
      <3>1. /\ Running(p, "CLEAR_PAUSE") /\ req' = req /\ timer' = timer /\ motors' = motors
            /\ sd' = sd /\ Machine' /\ Done(p, << >>, "no")
            /\ pr' = [pr EXCEPT !.is_paused = FALSE, !.pause_command_sent = FALSE]
        BY Zenon, <2>9, <2>1 DEF CLEAR_PAUSE, machine, idleVars, Machine
      <3>2. Goes(p, << >>) /\ parked' = "no" /\ Holds(p) /\ script[p][1] = <<"CLEAR_PAUSE">>
        BY Zenon, <3>1, <2>3, EmptyCalm, <1>Proceeds
      <3>3. Clears(p) BY Zenon, <3>1, <3>2 DEF Clears
      <3> QED BY Zenon, <3>1, <3>2, <3>3, <2>4 DEF Result, Outcome
    <2> QED BY Zenon, <2>5, <2>6, <2>7, <2>8, <2>9
  <1>FileCommands.
      ASSUME Typed, NEW p \in Procs,
             \/ SDCARD_RESET_FILE(p) \/ CloseFile(p) \/ SDCARD_PRINT_FILE(p)
             \/ BASE_CANCEL_PRINT(p)
      PROVE  Result(p)
    <2> USE <1>FileCommands
    <2>1. Machine BY Zenon DEF Typed, Values, Machine
    <2>2. Mutex BY Zenon DEF Typed
    <2>3. {"SDCARD_RESET_FILE", "CLOSE_FILE", "SDCARD_PRINT_FILE", "BASE_CANCEL_PRINT"}
             \subseteq Plain
      BY SMTT(60) DEF Plain
    <2>4. "no" \in Yields /\ Switch \in Yields BY Zenon DEF Yields, Switch
    <2>5. CASE SDCARD_RESET_FILE(p)
      <3>1. /\ Running(p, "SDCARD_RESET_FILE") /\ req' = req /\ timer' = timer
            /\ motors' = motors /\ pr' = pr /\ Machine'
        BY Zenon, <2>5, <2>1 DEF SDCARD_RESET_FILE, machine, idleVars, Machine
      <3>2. CASE cmd_from_sd
        <4>1. Raise(p) /\ sd' = sd BY Zenon, <2>5, <3>2 DEF SDCARD_RESET_FILE
        <4>2. Errs(p) /\ parked' = "no" /\ holder' = holder /\ queue' = queue
          BY Zenon, <2>2, <4>1, RaiseErrs
        <4>3. holder = p /\ script[p] # << >> BY Zenon, <3>1, RunningIs
        <4> QED BY Zenon, <4>1, <4>2, <4>3, <3>1, <2>4 DEF Result, Holds, Outcome, Fails
      <3>3. CASE ~ cmd_from_sd
        <4>1. /\ Done(p, << <<"WAIT_SD">>, <<"CLOSE_FILE">> >>, Switch)
              /\ sd' = sd \/ (sd.phase # "off" /\ sd' = [sd EXCEPT !.must_pause_work = TRUE])
          BY Zenon, <2>5, <3>3 DEF SDCARD_RESET_FILE, do_pause, is_active
        <4>2. /\ << <<"WAIT_SD">>, <<"CLOSE_FILE">> >> \in Seq(Calm)
              /\ << <<"WAIT_SD">>, <<"CLOSE_FILE">> >> \in Seq(Cmd)
          BY Zenon, Fragments, CalmIsCmd
        <4>3. /\ Goes(p, << <<"WAIT_SD">>, <<"CLOSE_FILE">> >>) /\ parked' = Switch /\ Holds(p)
              /\ Op(p) = "SDCARD_RESET_FILE"
          BY Zenon, <3>1, <4>1, <4>2, <1>Proceeds
        <4>4. "SDCARD_RESET_FILE" \notin {"PRINT_START", "PRINT_END", "CANCEL_PRINT",
                 "UPDATE_DELAYED_GCODE", "CLOSE_FILE"}
          BY SMTT(60)
        <4>5. Calms(p) BY Zenon, <3>1, <3>3, <4>1, <4>2, <4>3, <4>4 DEF Calms, Longer
        <4> QED BY Zenon, <4>3, <4>5, <3>1, <2>4 DEF Result, Outcome
      <3> QED BY Zenon, <3>2, <3>3
    <2>6. CASE CloseFile(p)
      <3>1. /\ Running(p, "CLOSE_FILE") /\ req' = req /\ timer' = timer /\ motors' = motors
            /\ pr' = pr /\ Machine' /\ Done(p, << >>, "no")
            /\ sd' = [sd EXCEPT !.file = FALSE, !.pos = 1]
        BY Zenon, <2>6, <2>1 DEF CloseFile, machine, idleVars, Machine
      <3>2. Goes(p, << >>) /\ parked' = "no" /\ Holds(p) /\ script[p][1] = <<"CLOSE_FILE">>
        BY Zenon, <3>1, <2>3, EmptyCalm, <1>Proceeds
      <3>3. Closes(p) BY Zenon, <3>1, <3>2 DEF Closes
      <3> QED BY Zenon, <3>1, <3>2, <3>3, <2>4 DEF Result, Outcome
    <2>7. CASE SDCARD_PRINT_FILE(p)
      <3>1. /\ Running(p, "SDCARD_PRINT_FILE") /\ req' = req /\ timer' = timer
            /\ motors' = motors /\ pr' = pr /\ Machine'
        BY Zenon, <2>7, <2>1 DEF SDCARD_PRINT_FILE, machine, idleVars, Machine
      <3>2. CASE is_active
        <4>1. Raise(p) /\ sd' = sd BY Zenon, <2>7, <3>2 DEF SDCARD_PRINT_FILE
        <4>2. "SDCARD_PRINT_FILE" \notin {"PRINT_START", "PRINT_END", "CANCEL_PRINT",
                 "UPDATE_DELAYED_GCODE", "CLOSE_FILE", "SDCARD_RESET_FILE"}
          BY SMTT(60)
        <4> QED BY Zenon, <4>1, <4>2, <3>1, <2>4, <1>Touches
      <3>3. CASE ~ is_active
        <4>1. Done(p, << >>, "no") /\ sd' = [Resuming EXCEPT !.file = TRUE, !.pos = 1]
          BY Zenon, <2>7, <3>3 DEF SDCARD_PRINT_FILE
        <4>2. /\ Goes(p, << >>) /\ parked' = "no" /\ Holds(p)
              /\ script[p][1] = <<"SDCARD_PRINT_FILE">>
          BY Zenon, <3>1, <4>1, <2>3, EmptyCalm, <1>Proceeds
        <4>3. Prints(p) BY Zenon, <3>1, <3>3, <4>1, <4>2 DEF Prints
        <4> QED BY Zenon, <4>2, <4>3, <3>1, <2>4 DEF Result, Outcome
      <3> QED BY Zenon, <3>2, <3>3
    <2>8. CASE BASE_CANCEL_PRINT(p)
      <3>1. /\ Running(p, "BASE_CANCEL_PRINT") /\ req' = req /\ timer' = timer
            /\ motors' = motors /\ pr' = pr /\ Machine'
        BY Zenon, <2>8, <2>1 DEF BASE_CANCEL_PRINT, machine, idleVars, Machine
      <3>2. PICK more \in Seq(Calm), y \in Yields : Done(p, more, y)
        <4>1. \/ Done(p, << <<"WAIT_SD">>, <<"CLOSE_FILE">>, <<"CLEAR_PAUSE">> >>, Switch)
              \/ Done(p, << <<"CLEAR_PAUSE">> >>, "no")
          BY Zenon, <2>8 DEF BASE_CANCEL_PRINT
        <4> QED BY Zenon, <4>1, <2>4, Fragments
      <3>3. sd' = sd \/ (sd.phase # "off" /\ sd' = [sd EXCEPT !.must_pause_work = TRUE])
        BY Zenon, <2>8 DEF BASE_CANCEL_PRINT, do_pause, is_active
      <3>4. Goes(p, more) /\ parked' = y /\ Holds(p) /\ Op(p) = "BASE_CANCEL_PRINT"
        BY Zenon, <3>1, <3>2, CalmIsCmd, <1>Proceeds
      <3>5. "BASE_CANCEL_PRINT" \notin {"PRINT_START", "PRINT_END", "CANCEL_PRINT",
               "UPDATE_DELAYED_GCODE", "CLOSE_FILE"} /\ "BASE_CANCEL_PRINT" # "SDCARD_RESET_FILE"
        BY SMTT(60)
      <3>6. Calms(p) BY Zenon, <3>1, <3>3, <3>4, <3>5 DEF Calms, Longer
      <3> QED BY Zenon, <3>1, <3>4, <3>6 DEF Result, Outcome
    <2> QED BY Zenon, <2>5, <2>6, <2>7, <2>8
  <1> SUFFICES ASSUME Typed, NEW p \in Procs, Command(p)
               PROVE  Result(p)
    BY Zenon
  <1>1. Machine BY Zenon DEF Typed, Values, Machine
  <1>2. "no" \in Yields BY Zenon DEF Yields
  <1>3. CASE Expand(p)
    <2>1. PICK m \in Macros : Running(p, m) /\ Done(p, Render(m), "no") BY Zenon, <1>3 DEF Expand
    <2>2. /\ req' = req /\ timer' = timer /\ motors' = motors /\ sd' = sd /\ pr' = pr /\ Machine'
      BY Zenon, <1>3, <1>1 DEF Expand, machine, idleVars, Machine
    <2>3. /\ Render(m) \in Seq(Cmd)
          /\ m \notin {"PRINT_END", "CANCEL_PRINT"} => Render(m) \in Seq(Calm)
      BY Zenon, <1>1, Heats, Rendered DEF Machine
    <2>4. m \in Plain BY Zenon DEF Plain
    <2>5. Goes(p, Render(m)) /\ parked' = "no" /\ Holds(p) /\ script[p][1] = <<m>> /\ Op(p) = m
      BY Zenon, <2>1, <2>3, <2>4, <1>Proceeds
    <2>6. CASE m = "PRINT_START"
      <3>1. Render(m) = PRINT_START BY SMTT(60), <2>6 DEF Render
      <3> QED BY Zenon, <3>1, <2>2, <2>5, <2>6, <1>2 DEF Result, Outcome, Expands
    <2>7. CASE m = "PRINT_END"
      <3>1. Render(m) = PRINT_END BY SMTT(60), <2>7 DEF Render
      <3> QED BY Zenon, <3>1, <2>2, <2>5, <2>7, <1>2 DEF Result, Outcome, Expands
    <2>8. CASE m = "CANCEL_PRINT"
      <3>1. Render(m) = CANCEL_PRINT BY SMTT(60), <2>8 DEF Render
      <3> QED BY Zenon, <3>1, <2>2, <2>5, <2>8, <1>2 DEF Result, Outcome, Expands
    <2>9. CASE m \notin {"PRINT_START", "PRINT_END", "CANCEL_PRINT"}
      <3>1. m \notin {"UPDATE_DELAYED_GCODE", "CLOSE_FILE", "SDCARD_RESET_FILE"}
        BY SMTT(60) DEF Macros
      <3>2. Calms(p) BY Zenon, <3>1, <2>2, <2>3, <2>5, <2>9 DEF Calms
      <3> QED BY Zenon, <3>2, <2>2, <2>5, <1>2 DEF Result, Outcome
    <2> QED BY Zenon, <2>6, <2>7, <2>8, <2>9
  <1>4. CASE UPDATE_DELAYED_GCODE(p)
    <2>1. /\ Running(p, "UPDATE_DELAYED_GCODE") /\ Done(p, << >>, "no")
          /\ timer' = [timer EXCEPT ![Arg(p)] = Updated(Arg(p), Head(script[p])[3])]
          /\ req' = req /\ motors' = motors /\ sd' = sd /\ pr' = pr /\ Machine'
      BY Zenon, <1>4, <1>1 DEF UPDATE_DELAYED_GCODE, machine, idleVars, Machine
    <2>2. /\ script[p][1] \in Cmd /\ script[p][1][1] = "UPDATE_DELAYED_GCODE"
          /\ Arg(p) = script[p][1][2] /\ Head(script[p]) = script[p][1]
      BY Zenon, <2>1, RunningIs DEF Op
    <2>3. /\ script[p][1][2] \in Timers /\ script[p][1][3] \in BOOLEAN
          /\ script[p][1] = <<"UPDATE_DELAYED_GCODE", script[p][1][2], script[p][1][3]>>
      BY Zenon, <2>2, CommandIs
    <2>4. Goes(p, << >>) /\ parked' = "no" /\ Holds(p) BY Zenon, <2>1, EmptyCalm, <1>Proceeds
    <2>5. PICK t \in Timers, b \in BOOLEAN :
            /\ script[p][1] = <<"UPDATE_DELAYED_GCODE", t, b>>
            /\ timer' = [timer EXCEPT ![t] = Updated(t, b)]
      BY Zenon, <2>1, <2>2, <2>3
    <2>6. Updates(p) BY Zenon, <2>1, <2>4, <2>5 DEF Updates
    <2> QED BY Zenon, <2>1, <2>4, <2>6, <1>2 DEF Result, Outcome
  <1>5. CASE \/ SetExtruder(p) \/ SetBed(p) \/ TURN_OFF_HEATERS(p) \/ G1(p) \/ Dwell(p)
             \/ Home(p) \/ M84(p) \/ RUN_SHELL_COMMAND(p) \/ SET_GCODE_VARIABLE(p) \/ WaitForSd(p)
    BY Zenon, <1>5, <1>MachineCommands
  <1>6. CASE \/ BASE_PAUSE(p) \/ Paused(p) \/ BASE_RESUME(p) \/ send_resume_command(p)
             \/ CLEAR_PAUSE(p)
    BY Zenon, <1>6, <1>PauseCommands
  <1>7. CASE \/ SDCARD_RESET_FILE(p) \/ CloseFile(p) \/ SDCARD_PRINT_FILE(p)
             \/ BASE_CANCEL_PRINT(p)
    BY Zenon, <1>7, <1>FileCommands
  <1> QED BY Zenon, <1>3, <1>4, <1>5, <1>6, <1>7 DEF Command

-----------------------------------------------------------------------------
(* Types and the mutex. *)

LEMMA LinesAre ==
    /\ Len(Lines) \in Nat /\ 1 \in 1 .. (Len(Lines) + 1)
    /\ \A i \in 1 .. Len(Lines) : Lines[i] \in Cmd /\ i + 1 \in 1 .. (Len(Lines) + 1)
    /\ \A i \in 1 .. Len(Lines) :
          Lines[i] \in Calm \/ Lines[i] \in {<<"PRINT_END">>, <<"SDCARD_PRINT_FILE">>}
  <1> DEFINE P == Macros \cup {"G1", "G4", "EXTRUDE", "M84", "CLEAR_PAUSE",
                       "BASE_PAUSE", "BASE_RESUME", "BASE_CANCEL_PRINT",
                       "SDCARD_RESET_FILE", "SDCARD_PRINT_FILE", "TURN_OFF_HEATERS"}
             A == {<<c>> : c \in P}
             B == {"M104", "M109"} \X Temps
             C == {"M140", "M190"} \X {Off, PrintTemp}
  <1>1. Lines \in Seq(A \cup B \cup C) BY Zenon, PrintAssumption
  <1>2. P \subseteq Plain /\ "PAUSED" \notin P BY SMTT(60) DEF Plain, Macros
  <1>3. ASSUME NEW l \in A
        PROVE  l \in Cmd /\ (l \in Calm \/ l \in {<<"PRINT_END">>, <<"SDCARD_PRINT_FILE">>})
    <2>1. PICK c \in P : l = <<c>> BY Zenon, <1>3
    <2>2. l \in Cmd BY Zenon, <2>1, <1>2, CommandsAre
    <2>3. c \in Plain \ {"PRINT_END", "PAUSED", "SDCARD_PRINT_FILE"}
          \/ c \in {"PRINT_END", "SDCARD_PRINT_FILE"}
      BY Zenon, <1>2
    <2> QED BY Zenon, <2>1, <2>2, <2>3, CalmAre
  <1>4. ASSUME NEW l \in B PROVE l \in Cmd /\ l \in Calm
    <2>1. PICK c \in {"M104", "M109"}, t \in Temps : l = <<c, t>> BY SMTT(60)
    <2> QED BY Zenon, <2>1, CommandsAre, CalmAre
  <1>5. ASSUME NEW l \in C PROVE l \in Cmd /\ l \in Calm
    <2>1. PICK c \in {"M140", "M190"}, t \in {Off, PrintTemp} : l = <<c, t>> BY SMTT(60)
    <2> QED BY Zenon, <2>1, CommandsAre, CalmAre
  <1> HIDE DEF A, B, C
  <1>6. Len(Lines) \in Nat /\ \A i \in 1 .. Len(Lines) : Lines[i] \in A \cup B \cup C
    BY SMTT(60), <1>1
  <1>7. /\ 1 \in 1 .. (Len(Lines) + 1)
        /\ \A i \in 1 .. Len(Lines) : i + 1 \in 1 .. (Len(Lines) + 1)
    BY SMTT(60), <1>6
  <1> QED BY Zenon, <1>3, <1>4, <1>5, <1>6, <1>7

LEMMA Fields ==
    ASSUME Typed
    PROVE  /\ sd \in SdType /\ pr \in PrType
           /\ sd.phase \in {"off", "start", "loop", "line", "on_error"}
           /\ sd.must_pause_work \in BOOLEAN /\ sd.file \in BOOLEAN
           /\ sd.pos \in 1 .. (Len(Lines) + 1)
           /\ pr.is_paused \in BOOLEAN /\ pr.sd_paused \in BOOLEAN
           /\ pr.pause_command_sent \in BOOLEAN
           /\ timer \in [Timers -> {"off", "armed", "inside", "repeat"}]
           /\ script \in [Procs -> Seq(Cmd)]
  <1>SdFields.
      ASSUME NEW u \in SdType
      PROVE  /\ u.phase \in {"off", "start", "loop", "line", "on_error"}
             /\ u.must_pause_work \in BOOLEAN /\ u.file \in BOOLEAN
             /\ u.pos \in 1 .. (Len(Lines) + 1)
    BY SMTT(60), <1>SdFields DEF SdType
  <1>PrFields.
      ASSUME NEW u \in PrType
      PROVE  /\ u.is_paused \in BOOLEAN /\ u.sd_paused \in BOOLEAN
             /\ u.pause_command_sent \in BOOLEAN
    BY SMTT(60), <1>PrFields DEF PrType
  <1>1. sd \in SdType /\ pr \in PrType BY Zenon DEF Typed, Values, SdType, PrType
  <1> QED BY Zenon, <1>1, <1>SdFields, <1>PrFields DEF Typed, Values, Mutex

TimerType == [Timers -> {"off", "armed", "inside", "repeat"}]

\* What every command leaves of the print file, the pause and the timers.
Kept(p) ==
    /\ sd' \in SdType /\ pr' \in PrType /\ timer' \in TimerType
    /\ script' \in [Procs -> Seq(Cmd)]
    /\ \A x \in Procs : x # p => script'[x] = script[x]
    /\ sd'.phase = sd.phase \/ (sd.phase = "off" /\ sd'.phase = "start")
    /\ sd'.pos = sd.pos \/ sd'.pos = 1
    /\ \A t \in Timers : timer'[t] \in {"inside", "repeat"} <=> timer[t] \in {"inside", "repeat"}

LEMMA SdChanges ==
    ASSUME NEW r \in SdType
    PROVE  /\ LET x == [r EXCEPT !.must_pause_work = FALSE, !.phase = "start"] IN
                 /\ x \in SdType /\ x.phase = "start" /\ x.must_pause_work = FALSE
                 /\ x.file = r.file /\ x.pos = r.pos
           /\ \A b \in BOOLEAN : LET x == [r EXCEPT !.file = b, !.pos = 1] IN
                 /\ x \in SdType /\ x.phase = r.phase /\ x.must_pause_work = r.must_pause_work
                 /\ x.file = b /\ x.pos = 1
  <1>1. 1 \in 1 .. (Len(Lines) + 1) BY Zenon, LinesAre
  <1>2. [r EXCEPT !.must_pause_work = FALSE, !.phase = "start"]
          = [[r EXCEPT !.must_pause_work = FALSE] EXCEPT !.phase = "start"]
    BY Zenon DEF SdType
  <1>3. \A b \in BOOLEAN : [r EXCEPT !.file = b, !.pos = 1] = [[r EXCEPT !.file = b] EXCEPT !.pos = 1]
    BY Zenon DEF SdType
  <1>4. PICK y \in SdType :
          /\ y = [r EXCEPT !.must_pause_work = FALSE]
          /\ y.must_pause_work = FALSE /\ y.file = r.file /\ y.pos = r.pos
    BY Zenon, SdMustPause
  <1>5. LET x == [y EXCEPT !.phase = "start"] IN
          /\ x \in SdType /\ x.phase = "start" /\ x.must_pause_work = FALSE
          /\ x.file = r.file /\ x.pos = r.pos
    BY Zenon, <1>4, SdPhase
  <1>6. ASSUME NEW b \in BOOLEAN
        PROVE  LET x == [[r EXCEPT !.file = b] EXCEPT !.pos = 1] IN
                 /\ x \in SdType /\ x.phase = r.phase /\ x.must_pause_work = r.must_pause_work
                 /\ x.file = b /\ x.pos = 1
    <2>1. PICK z \in SdType :
            /\ z = [r EXCEPT !.file = b] /\ z.phase = r.phase
            /\ z.must_pause_work = r.must_pause_work /\ z.file = b
      BY Zenon, SdFile
    <2>2. LET x == [z EXCEPT !.pos = 1] IN
            /\ x \in SdType /\ x.phase = r.phase /\ x.must_pause_work = r.must_pause_work
            /\ x.file = b /\ x.pos = 1
      BY Zenon, <2>1, <1>1, SdPos
    <2> QED BY Zenon, <2>1, <2>2
  <1> QED BY Zenon, <1>2, <1>3, <1>4, <1>5, <1>6

LEMMA PrChanges ==
    ASSUME NEW r \in PrType
    PROVE  /\ LET x == [r EXCEPT !.pause_command_sent = TRUE, !.is_paused = TRUE] IN
                 /\ x \in PrType /\ x.is_paused = TRUE /\ x.pause_command_sent = TRUE
                 /\ x.sd_paused = r.sd_paused
           /\ LET x == [r EXCEPT !.sd_paused = FALSE, !.pause_command_sent = FALSE,
                                 !.is_paused = FALSE] IN
                 /\ x \in PrType /\ x.is_paused = FALSE /\ x.pause_command_sent = FALSE
                 /\ x.sd_paused = FALSE
           /\ LET x == [r EXCEPT !.is_paused = FALSE, !.pause_command_sent = FALSE] IN
                 /\ x \in PrType /\ x.is_paused = FALSE /\ x.pause_command_sent = FALSE
                 /\ x.sd_paused = r.sd_paused
  <1>PrIsPaused.
      ASSUME NEW u \in PrType, NEW b \in BOOLEAN
      PROVE  /\ [u EXCEPT !.is_paused = b] \in PrType /\ [u EXCEPT !.is_paused = b].is_paused = b
             /\ [u EXCEPT !.is_paused = b].sd_paused = u.sd_paused
             /\ [u EXCEPT !.is_paused = b].pause_command_sent = u.pause_command_sent
    BY SMTT(60), <1>PrIsPaused DEF PrType
  <1>PrSent. ASSUME NEW u \in PrType, NEW b \in BOOLEAN
             PROVE  /\ [u EXCEPT !.pause_command_sent = b] \in PrType /\ [u EXCEPT !.pause_command_sent = b].pause_command_sent = b
                    /\ [u EXCEPT !.pause_command_sent = b].is_paused = u.is_paused
                    /\ [u EXCEPT !.pause_command_sent = b].sd_paused = u.sd_paused
    BY SMTT(60), <1>PrSent DEF PrType
  <1>1. [r EXCEPT !.pause_command_sent = TRUE, !.is_paused = TRUE]
          = [[r EXCEPT !.pause_command_sent = TRUE] EXCEPT !.is_paused = TRUE]
    BY Zenon DEF PrType
  <1>2. [r EXCEPT !.sd_paused = FALSE, !.pause_command_sent = FALSE, !.is_paused = FALSE]
          = [[[r EXCEPT !.sd_paused = FALSE] EXCEPT !.pause_command_sent = FALSE]
               EXCEPT !.is_paused = FALSE]
    BY Zenon DEF PrType
  <1>3. [r EXCEPT !.is_paused = FALSE, !.pause_command_sent = FALSE]
          = [[r EXCEPT !.is_paused = FALSE] EXCEPT !.pause_command_sent = FALSE]
    BY Zenon DEF PrType
  <1>4. PICK u \in PrType :
          /\ u = [r EXCEPT !.pause_command_sent = TRUE]
          /\ u.pause_command_sent = TRUE /\ u.sd_paused = r.sd_paused
    BY Zenon, <1>PrSent
  <1>5. PICK v \in PrType : v = [r EXCEPT !.sd_paused = FALSE] /\ v.sd_paused = FALSE
    BY Zenon, PrSdPaused
  <1>9. PICK w \in PrType :
          w = [r EXCEPT !.is_paused = FALSE] /\ w.is_paused = FALSE /\ w.sd_paused = r.sd_paused
    BY Zenon, <1>PrIsPaused
  <1>10. PICK z \in PrType :
          /\ z = [v EXCEPT !.pause_command_sent = FALSE]
          /\ z.sd_paused = FALSE /\ z.pause_command_sent = FALSE
    <2>1. /\ [v EXCEPT !.pause_command_sent = FALSE] \in PrType
          /\ [v EXCEPT !.pause_command_sent = FALSE].sd_paused = v.sd_paused
          /\ [v EXCEPT !.pause_command_sent = FALSE].pause_command_sent = FALSE
      BY Zenon, <1>PrSent
    <2> QED BY Zenon, <2>1, <1>5
  <1>6. LET x == [u EXCEPT !.is_paused = TRUE] IN
          /\ x \in PrType /\ x.is_paused = TRUE /\ x.pause_command_sent = TRUE
          /\ x.sd_paused = r.sd_paused
    BY Zenon, <1>4, <1>PrIsPaused
  <1>7. LET x == [z EXCEPT !.is_paused = FALSE] IN
          /\ x \in PrType /\ x.is_paused = FALSE /\ x.pause_command_sent = FALSE
          /\ x.sd_paused = FALSE
    BY Zenon, <1>10, <1>PrIsPaused
  <1>8. LET x == [w EXCEPT !.pause_command_sent = FALSE] IN
          /\ x \in PrType /\ x.is_paused = FALSE /\ x.pause_command_sent = FALSE
          /\ x.sd_paused = r.sd_paused
    BY Zenon, <1>9, <1>PrSent
  <1> QED BY Zenon, <1>1, <1>2, <1>3, <1>4, <1>5, <1>6, <1>7, <1>8, <1>9, <1>10

\* What no outcome changes: the types, the other scripts, who waits.
LEMMA OutcomeKeeps ==
    ASSUME Typed, NEW p \in Procs, Outcome(p)
    PROVE  Kept(p)
  <1>1. sd \in SdType /\ pr \in PrType /\ timer \in TimerType BY Zenon, Fields DEF TimerType
  <1>2. /\ script' \in [Procs -> Seq(Cmd)]
        /\ \A x \in Procs : x # p => script'[x] = script[x]
    BY Zenon DEF Outcome, Fails, Calms, Expands, Updates, PausesAgain, PausesNow, IsPaused,
                 Resumes, Clears, Closes, Prints, Goes, Errs
  <1>3. ASSUME sd' = sd PROVE
           /\ sd' \in SdType /\ sd'.phase = sd.phase /\ sd'.pos = sd.pos
    BY Zenon, <1>1, <1>3
  <1>4. ASSUME timer' = timer PROVE
           timer' \in TimerType
           /\ \A t \in Timers : timer'[t] \in {"inside", "repeat"} <=> timer[t] \in {"inside", "repeat"}
    BY Zenon, <1>1, <1>4
  <1>5. CASE Fails(p) BY Zenon, <1>5, <1>1, <1>2, <1>3, <1>4 DEF Fails, Kept
  <1>6. CASE Calms(p)
    <2>1. sd' \in SdType /\ sd'.phase = sd.phase /\ sd'.pos = sd.pos
      <3>1. /\ [sd EXCEPT !.must_pause_work = TRUE] \in SdType
            /\ [sd EXCEPT !.must_pause_work = TRUE].phase = sd.phase
            /\ [sd EXCEPT !.must_pause_work = TRUE].pos = sd.pos
        BY Zenon, <1>1, SdMustPause
      <3>2. sd' = sd \/ sd' = [sd EXCEPT !.must_pause_work = TRUE] BY Zenon, <1>6 DEF Calms
      <3> QED BY Zenon, <3>1, <3>2, <1>1
    <2> QED BY Zenon, <2>1, <1>6, <1>1, <1>2, <1>4 DEF Calms, Kept
  <1>7. CASE \E m, more : Expands(p, m, more)
    BY Zenon, <1>7, <1>1, <1>2, <1>3, <1>4 DEF Expands, Kept
  <1>8. CASE Updates(p)
    <2>1. PICK t \in Timers, b \in BOOLEAN : timer' = [timer EXCEPT ![t] = Updated(t, b)]
      BY Zenon, <1>8 DEF Updates
    <2>2. /\ Updated(t, b) \in {"off", "armed", "inside", "repeat"}
          /\ Updated(t, b) \in {"inside", "repeat"} <=> timer[t] \in {"inside", "repeat"}
      BY SMTT(60) DEF Updated
    <2>3. timer' \in TimerType /\ timer'[t] = Updated(t, b)
          /\ \A x \in Timers : x # t => timer'[x] = timer[x]
      BY SMTT(60), <2>1, <2>2, <1>1 DEF TimerType
    <2>4. \A x \in Timers : timer'[x] \in {"inside", "repeat"} <=> timer[x] \in {"inside", "repeat"}
      BY Zenon, <2>2, <2>3
    <2> QED BY Zenon, <2>3, <2>4, <1>8, <1>1, <1>2, <1>3 DEF Updates, Kept
  <1>9. CASE PausesAgain(p) BY Zenon, <1>9, <1>1, <1>2, <1>3, <1>4 DEF PausesAgain, Kept
  <1>10. CASE PausesNow(p)
    <2>1. sd' \in SdType /\ sd'.phase = sd.phase /\ sd'.pos = sd.pos
      BY Zenon, <1>10, <1>1, <1>3, SdMustPause DEF PausesNow
    <2>2. is_active \in BOOLEAN BY Zenon DEF is_active
    <2>3. pr' \in PrType BY Zenon, <2>2, <1>10, <1>1, PrSdPaused DEF PausesNow
    <2> QED BY Zenon, <2>1, <2>3, <1>10, <1>2, <1>4 DEF PausesNow, Kept
  <1>11. CASE IsPaused(p)
    BY Zenon, <1>11, <1>1, <1>2, <1>3, <1>4, PrChanges DEF IsPaused, Kept
  <1>12. CASE Resumes(p)
    <2>1. pr' \in PrType BY Zenon, <1>12, <1>1, PrChanges DEF Resumes, Resumed
    <2>2. sd' \in SdType /\ sd'.pos = sd.pos
          /\ (sd'.phase = sd.phase \/ (sd.phase = "off" /\ sd'.phase = "start"))
      BY Zenon, <1>12, <1>1, <1>3, SdChanges DEF Resumes, Resuming, is_active
    <2> QED BY Zenon, <2>1, <2>2, <1>12, <1>2, <1>4 DEF Resumes, Kept
  <1>13. CASE Clears(p)
    BY Zenon, <1>13, <1>1, <1>2, <1>3, <1>4, PrChanges DEF Clears, Kept
  <1>14. CASE Closes(p)
    BY Zenon, <1>14, <1>1, <1>2, <1>4, SdChanges DEF Closes, Kept
  <1>15. CASE Prints(p)
    <2>1. PICK x \in SdType : x = Resuming /\ x.phase = "start"
      <3>1. Resuming \in SdType /\ Resuming.phase = "start" BY Zenon, <1>1, SdChanges DEF Resuming
      <3> QED BY Zenon, <3>1
    <2>2. sd' = [x EXCEPT !.file = TRUE, !.pos = 1] BY Zenon, <2>1, <1>15 DEF Prints
    <2>3. sd' \in SdType /\ sd'.phase = "start" /\ sd'.pos = 1 BY Zenon, <2>1, <2>2, SdChanges
    <2> QED BY Zenon, <2>3, <1>15, <1>1, <1>2, <1>4 DEF Prints, is_active, Kept
  <1> QED BY Zenon, <1>5, <1>6, <1>7, <1>8, <1>9, <1>10, <1>11, <1>12, <1>13, <1>14, <1>15
          DEF Outcome

LEMMA TypedTypes == Typed => TypeOK
  <1> SUFFICES ASSUME Typed PROVE TypeOK OBVIOUS
  <1>1. Values /\ QueueOK(holder, queue) /\ DOMAIN script = Procs
        /\ (\A p \in Procs : script[p] # << >> => Waits(holder, queue, p))
        /\ (Waits(holder, queue, "sd") <=> sd.phase \in {"line", "on_error"})
    BY Zenon DEF Typed, Mutex
  <1> QED BY Zenon, <1>1 DEF Values, QueueOK, Waits, TypeOK

\* A process begins a script, and ends it.
LEMMA Begins ==
    ASSUME Typed, NEW p \in Procs, ~ Waits(holder, queue, p), NEW s \in Seq(Cmd),
           run_script(p, s)
    PROVE  /\ QueueOK(holder', queue')
           /\ \A x \in Procs : Waits(holder', queue', x) <=> Waits(holder, queue, x) \/ x = p
           /\ parked' \in Yields /\ parked' \in {"no", parked}
           /\ script' \in [Procs -> Seq(Cmd)] /\ script'[p] = s
           /\ \A x \in Procs : x # p => script'[x] = script[x]
           /\ \A x \in Procs : script'[x] # << >> => Waits(holder', queue', x)
           /\ \/ holder = None /\ holder' = p /\ queue' = queue
              \/ holder # None /\ holder' = holder /\ queue' = Append(queue, p)
  <1>1. QueueOK(holder, queue) /\ script \in [Procs -> Seq(Cmd)] /\ parked \in Yields
        /\ \A x \in Procs : script[x] # << >> => Waits(holder, queue, x)
    BY Zenon DEF Typed, Values, Mutex, Yields
  <1>2. /\ QueueOK(holder', queue')
        /\ \A x \in Procs : Waits(holder', queue', x) <=> Waits(holder, queue, x) \/ x = p
        /\ parked' \in {"no", parked} /\ script' = [script EXCEPT ![p] = s]
        /\ \/ holder = None /\ holder' = p /\ queue' = queue
           \/ holder # None /\ holder' = holder /\ queue' = Append(queue, p)
    BY Zenon, <1>1, Joins
  <1>3. /\ script' \in [Procs -> Seq(Cmd)] /\ script'[p] = s
        /\ \A x \in Procs : x # p => script'[x] = script[x]
    BY SMTT(60), <1>1, <1>2
  <1>4. parked' \in Yields BY Zenon, <1>1, <1>2 DEF Yields
  <1>5. \A x \in Procs : script'[x] # << >> => Waits(holder', queue', x)
    BY Zenon, <1>1, <1>2, <1>3
  <1> QED BY Zenon, <1>2, <1>3, <1>4, <1>5

LEMMA Ends ==
    ASSUME Typed, holder \in Procs, Release(queue),
           script' = [script EXCEPT ![holder] = << >>]
           \/ (script' = script /\ script[holder] = << >>)
    PROVE  /\ QueueOK(holder', queue')
           /\ \A x \in Procs : Waits(holder', queue', x) <=> Waits(holder, queue, x) /\ x # holder
           /\ parked' = "switch" /\ parked' \in Yields
           /\ script' \in [Procs -> Seq(Cmd)] /\ script'[holder] = << >>
           /\ \A x \in Procs : x # holder => script'[x] = script[x]
           /\ \A x \in Procs : script'[x] # << >> => Waits(holder', queue', x)
           /\ \/ queue = << >> /\ holder' = None /\ queue' = queue
              \/ /\ queue # << >> /\ holder' = queue[1] /\ queue' = Tail(queue)
                 /\ \A i \in 1 .. Len(queue') : queue'[i] = queue[i + 1]
                 /\ Len(queue') = Len(queue) - 1
  <1>1. QueueOK(holder, queue) /\ script \in [Procs -> Seq(Cmd)]
        /\ \A x \in Procs : script[x] # << >> => Waits(holder, queue, x)
    BY Zenon DEF Typed, Mutex
  <1>2. /\ QueueOK(holder', queue')
        /\ \A x \in Procs : Waits(holder', queue', x) <=> Waits(holder, queue, x) /\ x # holder
        /\ parked' = "switch"
        /\ \/ queue = << >> /\ holder' = None /\ queue' = queue
           \/ /\ queue # << >> /\ holder' = queue[1] /\ queue' = Tail(queue)
              /\ \A i \in 1 .. Len(queue') : queue'[i] = queue[i + 1]
              /\ Len(queue') = Len(queue) - 1
    BY Zenon, <1>1, Leaves
  <1>3. /\ script' \in [Procs -> Seq(Cmd)] /\ script'[holder] = << >>
        /\ \A x \in Procs : x # holder => script'[x] = script[x]
    <2>1. CASE script' = script /\ script[holder] = << >> BY Zenon, <2>1, <1>1
    <2>2. CASE script' = [script EXCEPT ![holder] = << >>]
      <3>1. << >> \in Seq(Cmd) BY Zenon, EmptyCalm
      <3> QED BY SMTT(60), <2>2, <3>1, <1>1
    <2> QED BY Zenon, <2>1, <2>2
  <1>4. \A x \in Procs : script'[x] # << >> => Waits(holder', queue', x)
    BY Zenon, <1>1, <1>2, <1>3
  <1>5. "switch" \in Yields BY Zenon DEF Yields
  <1> QED BY Zenon, <1>2, <1>3, <1>4, <1>5

LEMMA Nobody ==
    ASSUME Typed, holder = None
    PROVE  queue = << >> /\ \A p \in Procs : ~ Waits(holder, queue, p)
  <1>1. queue = << >> BY Zenon DEF Typed, Mutex, QueueOK
  <1>2. \A i \in 1 .. Len(queue) : FALSE BY <1>1
  <1>3. \A p \in Procs : p # None BY Zenon, Processes
  <1> QED BY Zenon, <1>1, <1>2, <1>3 DEF Waits

LEMMA Before ==
    ASSUME Typed
    PROVE  /\ sd \in SdType /\ timer \in TimerType /\ req \in [Clients -> Requests \cup {None}]
           /\ state \in {"Idle", "Ready", "Printing"} /\ still \in BOOLEAN
  BY Zenon, Fields DEF Typed, Values, TimerType

LEMMA TimerScripts ==
    ASSUME NEW t \in Timers
    PROVE  LET s == IF t = "cool_hot_end" THEN cool_hot_end ELSE delay_disable_motor IN
           /\ s \in Seq(Cmd) /\ (\A i \in 1 .. Len(s) : s[i] \in Inert)
           /\ (\A i \in 1 .. Len(s) : s[i] = <<"SHELL", FALSE>> => t = Motor)
           /\ (\A i \in 1 .. Len(s) : s[i] \notin Arming)
  <1>1. PICK a \in Cmd : a = <<"M104", Off>> BY Zenon, CommandsAre DEF Temps
  <1>2. PICK b \in Cmd : b = <<"SHELL", FALSE>> BY Zenon, CommandsAre
  <1>3. a # b
    <2>1. a[1] = "M104" /\ b[1] = "SHELL" BY <1>1, <1>2
    <2> QED BY Zenon, <2>1
  <1>4. a \notin Arming /\ b \notin Arming
    <2>1. a[1] = "M104" /\ b[1] = "SHELL" BY <1>1, <1>2
    <2>2. Arm(Motor)[1] = "UPDATE_DELAYED_GCODE" /\ <<"PRINT_END">>[1] = "PRINT_END"
      BY SMTT(60) DEF Arm
    <2> QED BY Zenon, <2>1, <2>2 DEF Arming
  <1>5. a \in Inert /\ b \in Inert BY Zenon, <1>1, <1>2 DEF Inert
  <1>6. /\ <<a>> \in Seq(Cmd) /\ (\A i \in 1 .. Len(<<a>>) : <<a>>[i] = a)
        /\ <<b>> \in Seq(Cmd) /\ (\A i \in 1 .. Len(<<b>>) : <<b>>[i] = b)
        /\ << >> \in Seq(Cmd) /\ (\A i \in 1 .. Len(<< >>) : FALSE)
    OBVIOUS
  <1>7. t = "cool_hot_end" \/ t = Motor BY Zenon DEF Timers, Motor
  <1>8. Motor # "cool_hot_end" BY SMTT(60) DEF Motor
  <1>9. CASE t = "cool_hot_end"
    <2>1. cool_hot_end = <<a>> \/ cool_hot_end = << >> BY Zenon, <1>1 DEF cool_hot_end
    <2> QED BY Zenon, <2>1, <1>2, <1>3, <1>4, <1>5, <1>6, <1>9
  <1>10. CASE t = Motor
    <2>1. delay_disable_motor = <<b>> BY Zenon, <1>2 DEF delay_disable_motor
    <2> QED BY Zenon, <2>1, <1>4, <1>5, <1>6, <1>8, <1>10
  <1> QED BY Zenon, <1>7, <1>9, <1>10

LEMMA IdleScript ==
    LET s == << <<"TURN_OFF_HEATERS">>, <<"M84">> >> IN
    /\ s \in Seq(Cmd) /\ s \in Seq(Calm) /\ (\A i \in 1 .. Len(s) : s[i] \in Inert)
  <1>1. {"TURN_OFF_HEATERS", "M84"} \subseteq Plain \ {"PRINT_END", "PAUSED", "SDCARD_PRINT_FILE"}
    BY SMTT(60) DEF Plain
  <1>2. PICK a \in Calm, b \in Calm : a = <<"TURN_OFF_HEATERS">> /\ b = <<"M84">>
    BY Zenon, <1>1, CalmAre
  <1>3. a \in Inert /\ b \in Inert BY Zenon, <1>2 DEF Inert
  <1>4. <<a, b>> \in Seq(Calm) /\ \A i \in 1 .. Len(<<a, b>>) : <<a, b>>[i] \in {a, b}
    BY SMTT(60), <1>2
  <1> QED BY Zenon, <1>2, <1>3, <1>4, CalmIsCmd

\* The steps of work_handler: nothing but the print file and the mutex changes.
Quiet ==
    /\ req' = req /\ pr' = pr /\ timer' = timer /\ heat' = heat /\ motors' = motors
    /\ homed' = homed /\ last_extruder_temp' = last_extruder_temp
    /\ state' = state /\ still' = still

\* The next line of the file is run.
RunLine ==
    /\ ~ sd.must_pause_work /\ sd.pos <= Len(Lines) /\ holder = None
    /\ sd' = [sd EXCEPT !.phase = "line"] /\ run_script("sd", << Lines[sd.pos] >>)

\* work_handler leaves the loop.
Exits ==
    /\ sd' = Exited \/ sd' = [Exited EXCEPT !.file = FALSE]
    /\ holder' = holder /\ queue' = queue /\ script' = script /\ parked' = parked

LEMMA NextLineIs ==
    ASSUME NextLine
    PROVE  Quiet /\ sd.phase = "loop" /\ (RunLine \/ Exits)
  BY Zenon DEF NextLine, Quiet, RunLine, Exits, mutex, machine, idleVars

LEMMA ExitedIs ==
    ASSUME NEW r \in SdType
    PROVE  /\ LET x == [r EXCEPT !.phase = "off"] IN
                 /\ x \in SdType /\ x.phase = "off" /\ x.file = r.file /\ x.pos = r.pos
                 /\ x.must_pause_work = r.must_pause_work
           /\ LET x == [[r EXCEPT !.phase = "off"] EXCEPT !.file = FALSE] IN
                 /\ x \in SdType /\ x.phase = "off" /\ x.file = FALSE /\ x.pos = r.pos
                 /\ x.must_pause_work = r.must_pause_work
  <1>1. PICK x \in SdType : x = [r EXCEPT !.phase = "off"] /\ x.phase = "off" /\ x.file = r.file
                            /\ x.pos = r.pos /\ x.must_pause_work = r.must_pause_work
    BY ZenonT(40), SdPhase
  <1>2. LET y == [x EXCEPT !.file = FALSE] IN
          /\ y \in SdType /\ y.phase = "off" /\ y.file = FALSE /\ y.pos = r.pos
          /\ y.must_pause_work = r.must_pause_work
    BY Zenon, <1>1, SdFile
  <1> QED BY Zenon, <1>1, <1>2

\* What the scripts and the mutex look like after RunLine.
LEMMA LineBegins ==
    ASSUME Typed, RunLine
    PROVE  /\ holder' = "sd" /\ queue = << >> /\ queue' = << >> /\ QueueOK(holder', queue')
           /\ \A x \in Procs : Waits(holder', queue', x) <=> x = "sd"
           /\ script'["sd"] = << Lines[sd.pos] >> /\ script' \in [Procs -> Seq(Cmd)]
           /\ \A x \in Procs : x # "sd" => script'[x] = << >>
           /\ parked' \in Yields /\ parked' = "no"
           /\ sd' \in SdType /\ sd'.phase = "line" /\ sd'.pos = sd.pos /\ sd'.file = sd.file
           /\ sd'.must_pause_work = sd.must_pause_work
           /\ sd.pos \in 1 .. Len(Lines)
  <1>1. /\ holder = None /\ run_script("sd", << Lines[sd.pos] >>) /\ sd.pos <= Len(Lines)
        /\ sd' = [sd EXCEPT !.phase = "line"]
    BY Zenon DEF RunLine
  <1>2. "sd" \in Procs BY Zenon, Processes
  <1>3. queue = << >> /\ \A x \in Procs : ~ Waits(holder, queue, x) BY Zenon, <1>1, Nobody
  <1>4. sd.pos \in 1 .. Len(Lines)
    <2>1. sd.pos \in 1 .. (Len(Lines) + 1) /\ Len(Lines) \in Nat BY Zenon, Fields, LinesAre
    <2> QED BY SMTT(60), <2>1, <1>1
  <1>5. << Lines[sd.pos] >> \in Seq(Cmd)
    <2>1. PICK l \in Cmd : l = Lines[sd.pos] BY Zenon, <1>4, LinesAre
    <2>2. <<l>> \in Seq(Cmd) OBVIOUS
    <2> QED BY Zenon, <2>1, <2>2
  <1>6. /\ QueueOK(holder', queue')
        /\ \A x \in Procs : Waits(holder', queue', x) <=> Waits(holder, queue, x) \/ x = "sd"
        /\ script' \in [Procs -> Seq(Cmd)] /\ script'["sd"] = << Lines[sd.pos] >>
        /\ \A x \in Procs : x # "sd" => script'[x] = script[x]
        /\ parked' \in Yields
        /\ \/ holder = None /\ holder' = "sd" /\ queue' = queue
           \/ holder # None /\ holder' = holder /\ queue' = Append(queue, "sd")
    BY Zenon, <1>1, <1>2, <1>3, <1>5, Begins
  <1>7. \A x \in Procs : script[x] = << >> BY Zenon, <1>3 DEF Typed, Mutex
  <1>8. parked' = "no" BY Zenon, <1>1 DEF run_script
  <1>9. /\ sd' \in SdType /\ sd'.phase = "line" /\ sd'.pos = sd.pos /\ sd'.file = sd.file
        /\ sd'.must_pause_work = sd.must_pause_work
    BY Zenon, <1>1, Before, SdPhase
  <1> QED BY Zenon, <1>1, <1>3, <1>4, <1>6, <1>7, <1>8, <1>9

LEMMA LineDoneIs ==
    ASSUME Typed, LineDone
    PROVE  /\ sd' \in SdType /\ sd'.pos = sd.pos + 1 /\ sd'.file = sd.file
           /\ sd'.must_pause_work = sd.must_pause_work
           /\ sd'.phase = IF sd.must_pause_work THEN "off" ELSE "loop"
           /\ sd'.phase \in {"off", "loop"} /\ sd.pos \in 1 .. Len(Lines)
  <1>1. PICK r \in SdType : r = sd BY Zenon, Before
  <1>2. PICK f : f = IF sd.must_pause_work THEN "off" ELSE "loop" BY Zenon
  <1>3. f \in {"off", "start", "loop", "line", "on_error"} /\ f \in {"off", "loop"} BY Zenon, <1>2
  <1>4. PICK n : n = sd.pos + 1 BY Zenon
  <1>5. sd.pos \in 1 .. Len(Lines)
    <2>1. sd.pos <= Len(Lines) BY Zenon DEF LineDone, Typed, Mutex
    <2>2. sd.pos \in 1 .. (Len(Lines) + 1) /\ Len(Lines) \in Nat BY Zenon, Fields, LinesAre
    <2> QED BY SMTT(60), <2>1, <2>2
  <1>6. n \in 1 .. (Len(Lines) + 1) BY Zenon, <1>4, <1>5, LinesAre
  <1>7. sd' = [sd EXCEPT !.pos = sd.pos + 1, !.phase = f] BY Zenon, <1>2 DEF LineDone
  <1>8. sd' = [r EXCEPT !.pos = n, !.phase = f] BY Zenon, <1>1, <1>4, <1>7
  <1>9. [r EXCEPT !.pos = n, !.phase = f] = [[r EXCEPT !.pos = n] EXCEPT !.phase = f]
    BY Zenon DEF SdType
  <1>10. PICK x \in SdType : /\ x = [r EXCEPT !.pos = n] /\ x.pos = n /\ x.file = r.file
                             /\ x.must_pause_work = r.must_pause_work
    BY Zenon, <1>6, SdPos
  <1>11. sd' = [x EXCEPT !.phase = f] BY Zenon, <1>8, <1>9, <1>10
  <1>12. /\ sd' \in SdType /\ sd'.pos = n /\ sd'.file = sd.file /\ sd'.phase = f
         /\ sd'.must_pause_work = sd.must_pause_work
    <2>1. /\ [x EXCEPT !.phase = f] \in SdType /\ [x EXCEPT !.phase = f].phase = f
          /\ [x EXCEPT !.phase = f].must_pause_work = x.must_pause_work
          /\ [x EXCEPT !.phase = f].file = x.file /\ [x EXCEPT !.phase = f].pos = x.pos
      BY Zenon, <1>3, SdPhase
    <2> QED BY Zenon, <2>1, <1>1, <1>10, <1>11
  <1> QED BY Zenon, <1>2, <1>3, <1>4, <1>5, <1>12

\* The line raised while somebody waits for the mutex: the print file waits again.
LEMMA Waiting ==
    ASSUME Typed, LineRaised, queue # << >>
    PROVE  /\ QueueOK(holder', queue')
           /\ \A x \in Procs : Waits(holder', queue', x) <=> Waits(holder, queue, x)
           /\ parked' = "switch" /\ holder' = queue[1] /\ holder' # "sd"
           /\ queue' = Append(Tail(queue), "sd")
           /\ script' \in [Procs -> Seq(Cmd)] /\ script'["sd"] = << >>
           /\ \A x \in Procs : x # "sd" => script'[x] = script[x]
           /\ sd' \in SdType /\ sd'.phase = "on_error" /\ sd'.pos = sd.pos /\ sd'.file = sd.file
           /\ sd'.must_pause_work = sd.must_pause_work
  <1>1. /\ holder = "sd" /\ script' = [script EXCEPT !["sd"] = << >>]
        /\ Release(Append(queue, "sd")) /\ sd' = [sd EXCEPT !.phase = "on_error"]
    BY Zenon DEF LineRaised
  <1>2. holder \in Procs /\ "sd" \in Procs BY Zenon, <1>1, Processes
  <1>3. /\ QueueOK(holder', queue')
        /\ \A x \in Procs : Waits(holder', queue', x) <=> Waits(holder, queue, x)
        /\ parked' = "switch" /\ holder' = queue[1] /\ holder' # holder
        /\ queue' = Append(Tail(queue), holder)
    BY Zenon, <1>1, <1>2, Requeues DEF Typed, Mutex
  <1>4. /\ script' \in [Procs -> Seq(Cmd)] /\ script'["sd"] = << >>
        /\ \A x \in Procs : x # "sd" => script'[x] = script[x]
    <2>1. script \in [Procs -> Seq(Cmd)] /\ << >> \in Seq(Cmd) BY Zenon, Fields, EmptyCalm
    <2> QED BY SMTT(60), <2>1, <1>1, <1>2
  <1>5. /\ sd' \in SdType /\ sd'.phase = "on_error" /\ sd'.pos = sd.pos /\ sd'.file = sd.file
        /\ sd'.must_pause_work = sd.must_pause_work
    BY Zenon, <1>1, Before, SdPhase
  <1> QED BY Zenon, <1>1, <1>3, <1>4, <1>5

\* The steps, by what they are.
LEMMA Steps ==
    ASSUME [Next]_vars
    PROVE  \/ \E p \in Procs : Command(p)
           \/ \E c \in Clients : Reply(c) \/ Request(c)
           \/ \E t \in Timers : TimerDone(t) \/ _gcode_timer_event(t)
           \/ IdleDone \/ LineDone \/ LineRaised \/ OnErrorDone
           \/ work_handler \/ NextLine \/ timeout_handler \/ transition_idle_state
           \/ UNCHANGED vars
  BY Zenon DEF Next, Run, Work

LEMMA TypedInit == Init => Typed
  <1> SUFFICES ASSUME Init PROVE Typed OBVIOUS
  <1>1. sd \in SdType
    <2>1. 1 \in 1 .. (Len(Lines) + 1) BY Zenon, LinesAre
    <2> QED BY SMTT(60), <2>1 DEF Init, SdType
  <1>2. /\ script \in [Procs -> Seq(Cmd)] /\ \A p \in Procs : script[p] = << >>
    <2>1. << >> \in Seq(Cmd) BY Zenon, EmptyCalm
    <2> QED BY Zenon, <2>1 DEF Init
  <1>3. Values
    <2>1. req \in [Clients -> Requests \cup {None}] BY Zenon DEF Init
    <2>2. pr \in [is_paused : BOOLEAN, sd_paused : BOOLEAN, pause_command_sent : BOOLEAN]
      BY SMTT(60) DEF Init
    <2>3. timer \in [Timers -> {"off", "armed", "inside", "repeat"}] BY Zenon DEF Init
    <2>4. last_extruder_temp \in Temps /\ heat \in [extruder : Temps, bed : {Off, PrintTemp}]
      BY SMTT(60) DEF Init, Temps
    <2>5. /\ motors \in BOOLEAN /\ homed \in BOOLEAN /\ parked \in {"no", "switch", "wait"}
          /\ state \in {"Idle", "Ready", "Printing"} /\ still \in BOOLEAN
      BY Zenon DEF Init
    <2> QED BY Zenon, <1>1, <2>1, <2>2, <2>3, <2>4, <2>5 DEF Values, SdType
  <1>4. holder = None /\ queue = << >> BY Zenon DEF Init
  <1>5. \A i \in 1 .. Len(queue) : FALSE BY <1>4
  <1>6. QueueOK(holder, queue)
    <2>1. << >> \in Seq(Procs) BY Zenon, EmptySeq
    <2> QED BY Zenon, <2>1, <1>4, <1>5 DEF QueueOK
  <1>7. \A p \in Procs : ~ Waits(holder, queue, p)
    <2>1. \A p \in Procs : p # None BY Zenon, Processes
    <2> QED BY Zenon, <2>1, <1>4, <1>5 DEF Waits
  <1>8. /\ \A c \in Clients : req[c] = None
        /\ \A t \in Timers : timer[t] \notin {"inside", "repeat"}
    <2>1. "off" \notin {"inside", "repeat"} OBVIOUS
    <2> QED BY Zenon, <2>1 DEF Init
  <1>9. sd.phase = "off" BY SMTT(60) DEF Init
  <1>10. "off" \notin {"line", "on_error"} /\ "off" # "line" /\ "off" # "on_error" OBVIOUS
  <1> QED BY Zenon, <1>2, <1>3, <1>6, <1>7, <1>8, <1>9, <1>10, Processes DEF Typed, Mutex

\* Every step keeps the types and the rules of the mutex.
LEMMA TypedStep ==
    Typed /\ [Next]_vars => Typed'
  <1>ValuesKept.
      ASSUME Typed, parked' \in Yields, req' \in [Clients -> Requests \cup {None}],
             sd' \in SdType, pr' = pr, timer' \in TimerType, heat' = heat, motors' = motors,
             homed' = homed, last_extruder_temp' = last_extruder_temp,
             state' \in {"Idle", "Ready", "Printing"}, still' \in BOOLEAN
      PROVE  Values'
    <2> USE <1>ValuesKept
    <2>1. Machine' BY Zenon DEF Machine, Typed, Values
    <2>2. pr' \in PrType BY Zenon, Fields
    <2> QED BY Zenon, <2>1, <2>2 DEF Values, Machine, Yields, SdType, PrType, TimerType
  <1>Command. ASSUME Typed, NEW p \in Procs, Result(p)
              PROVE  Typed'
    <2> USE <1>Command
    <2>1. /\ holder = p /\ script[p] # << >> /\ holder' = holder /\ queue' = queue
          /\ req' = req /\ Machine' /\ parked' \in Yields
      BY Zenon DEF Result, Holds
    <2>2. Kept(p) BY Zenon, OutcomeKeeps DEF Result
    <2>3. sd' \in SdType /\ pr' \in PrType /\ timer' \in TimerType BY Zenon, <2>2 DEF Kept
    <2>4. Values'
      <3>1. req' \in [Clients -> Requests \cup {None}] BY Zenon, <2>1 DEF Typed, Values
      <3> QED BY Zenon, <3>1, <2>1, <2>3 DEF Values, Machine, Yields, SdType, PrType, TimerType
    <2>5. QueueOK(holder', queue') BY Zenon, <2>1 DEF Typed, Mutex
    <2>6. script' \in [Procs -> Seq(Cmd)] BY Zenon, <2>2 DEF Kept
    <2>7. ASSUME NEW x \in Procs, script'[x] # << >> PROVE Waits(holder', queue', x)
      <3>1. CASE x = p BY Zenon, <3>1, <2>1 DEF Waits
      <3>2. CASE x # p BY Zenon, <3>2, <2>1, <2>2, <2>7 DEF Kept, Typed, Mutex
      <3> QED BY Zenon, <3>1, <3>2
    <2>8. \A c \in Clients : Waits(holder', queue', c) <=> req'[c] # None
      BY Zenon, <2>1 DEF Typed, Mutex
    <2>9. \A t \in Timers : Waits(holder', queue', t) <=> timer'[t] \in {"inside", "repeat"}
      BY Zenon, <2>1, <2>2 DEF Kept, Typed, Mutex
    <2>10. sd'.phase \in {"line", "on_error"} <=> sd.phase \in {"line", "on_error"}
      <3>1. "off" \notin {"line", "on_error"} /\ "start" \notin {"line", "on_error"} OBVIOUS
      <3> QED BY Zenon, <3>1, <2>2 DEF Kept
    <2>11. Waits(holder', queue', "sd") <=> sd'.phase \in {"line", "on_error"}
      BY Zenon, <2>1, <2>10 DEF Typed, Mutex
    <2>12. sd'.phase \in {"line", "on_error"} => sd'.phase = sd.phase
      <3>1. "start" \notin {"line", "on_error"} OBVIOUS
      <3> QED BY Zenon, <3>1, <2>2 DEF Kept
    <2>13. ASSUME sd'.phase = "line" PROVE holder' = "sd" /\ sd'.pos <= Len(Lines)
      <3>1. sd.phase = "line" BY Zenon, <2>12, <2>13
      <3>2. holder = "sd" /\ sd.pos <= Len(Lines) BY Zenon, <3>1 DEF Typed, Mutex
      <3>3. sd'.pos = sd.pos \/ sd'.pos = 1 BY Zenon, <2>2 DEF Kept
      <3>4. 1 <= Len(Lines)
        <4>1. PICK n \in Nat : n = Len(Lines) BY Zenon, LinesAre
        <4>2. sd.pos \in 1 .. (n + 1) /\ sd.pos <= n BY Zenon, <4>1, <3>2, Fields
        <4>3. 1 <= n BY SMTT(60), <4>1, <4>2
        <4> QED BY Zenon, <4>1, <4>3
      <3> QED BY Zenon, <3>2, <3>3, <3>4, <2>1
    <2>14. ASSUME sd'.phase = "on_error" PROVE script'["sd"] = << >>
      <3>1. script["sd"] = << >> BY Zenon, <2>12, <2>14 DEF Typed, Mutex
      <3>2. "sd" # p /\ "sd" \in Procs BY Zenon, <3>1, <2>1, Processes
      <3> QED BY Zenon, <3>1, <3>2, <2>2 DEF Kept
    <2> QED BY Zenon, <2>4, <2>5, <2>6, <2>7, <2>8, <2>9, <2>11, <2>13, <2>14 DEF Typed, Mutex
  <1>Request. ASSUME Typed, NEW c \in Clients, Request(c)
              PROVE  Typed'
    <2> USE <1>Request
    <2>1. PICK r \in Requests :
            Offered(r) /\ req' = [req EXCEPT ![c] = r] /\ run_script(c, << <<r>> >>)
      BY Zenon DEF Request
    <2>2. /\ req[c] = None /\ sd' = sd /\ pr' = pr /\ timer' = timer /\ heat' = heat
          /\ motors' = motors /\ homed' = homed /\ last_extruder_temp' = last_extruder_temp
          /\ state' = state /\ still' = still
      BY Zenon DEF Request, machine, idleVars
    <2>3. c \in Procs /\ c # "sd" /\ c \notin Timers BY Zenon, Processes
    <2>4. ~ Waits(holder, queue, c) BY Zenon, <2>2 DEF Typed, Mutex
    <2>5. << <<r>> >> \in Seq(Cmd)
      <3>1. r \in Plain BY SMTT(60), PrintAssumption DEF Plain, Macros
      <3>2. PICK m \in Cmd : m = <<r>> BY Zenon, <3>1, CommandsAre
      <3>3. <<m>> \in Seq(Cmd) OBVIOUS
      <3> QED BY Zenon, <3>2, <3>3
    <2>6. /\ QueueOK(holder', queue')
          /\ \A x \in Procs : Waits(holder', queue', x) <=> Waits(holder, queue, x) \/ x = c
          /\ parked' \in Yields
          /\ script' \in [Procs -> Seq(Cmd)]
          /\ \A x \in Procs : x # c => script'[x] = script[x]
          /\ \A x \in Procs : script'[x] # << >> => Waits(holder', queue', x)
          /\ (holder # None => holder' = holder)
      BY Zenon, <2>1, <2>3, <2>4, <2>5, Begins
    <2>7. /\ req' \in [Clients -> Requests \cup {None}] /\ req'[c] = r
          /\ \A x \in Clients : x # c => req'[x] = req[x]
      <3>1. req \in [Clients -> Requests \cup {None}] BY Zenon DEF Typed, Values
      <3> QED BY SMTT(60), <3>1, <2>1
    <2>8. Values'
      <3>1. /\ sd' \in SdType /\ timer' \in TimerType /\ still' \in BOOLEAN
            /\ state' \in {"Idle", "Ready", "Printing"}
        BY Zenon, <2>2, Before
      <3> QED BY Zenon, <3>1, <2>2, <2>6, <2>7, <1>ValuesKept
    <2>9. \A x \in Clients : Waits(holder', queue', x) <=> req'[x] # None
      <3>1. r # None BY Zenon, PrintAssumption
      <3>2. \A x \in Clients : x \in Procs BY Zenon, Processes
      <3> QED BY Zenon, <3>1, <3>2, <2>6, <2>7 DEF Typed, Mutex
    <2>10. \A t \in Timers : Waits(holder', queue', t) <=> timer'[t] \in {"inside", "repeat"}
      <3>1. \A t \in Timers : t \in Procs /\ t # c BY Zenon, <2>3, Processes
      <3> QED BY Zenon, <3>1, <2>2, <2>6 DEF Typed, Mutex
    <2>11. /\ Waits(holder', queue', "sd") <=> sd'.phase \in {"line", "on_error"}
           /\ sd'.phase = "line" => holder' = "sd" /\ sd'.pos <= Len(Lines)
           /\ sd'.phase = "on_error" => script'["sd"] = << >>
      <3>1. "sd" \in Procs /\ "sd" # None BY Zenon, Processes
      <3> QED BY Zenon, <3>1, <2>2, <2>3, <2>6 DEF Typed, Mutex
    <2> QED BY Zenon, <2>6, <2>8, <2>9, <2>10, <2>11 DEF Typed, Mutex
  <1>TimerEvent.
      ASSUME Typed, NEW t \in Timers, _gcode_timer_event(t)
      PROVE  Typed'
    <2> USE <1>TimerEvent
    <2>1. /\ timer[t] = "armed" /\ timer' = [timer EXCEPT ![t] = "inside"]
          /\ run_script(t, IF t = "cool_hot_end" THEN cool_hot_end ELSE delay_disable_motor)
          /\ req' = req /\ sd' = sd /\ pr' = pr /\ heat' = heat
          /\ motors' = motors /\ homed' = homed /\ last_extruder_temp' = last_extruder_temp
          /\ state' = state /\ still' = still
      BY Zenon DEF _gcode_timer_event, machine, idleVars
    <2>2. t \in Procs /\ t # "sd" /\ t \notin Clients BY Zenon, Processes
    <2>3. ~ Waits(holder, queue, t)
      <3>1. "armed" \notin {"inside", "repeat"} OBVIOUS
      <3> QED BY Zenon, <3>1, <2>1 DEF Typed, Mutex
    <2>4. PICK s \in Seq(Cmd) : run_script(t, s) BY Zenon, <2>1, TimerScripts
    <2>5. /\ QueueOK(holder', queue')
          /\ \A x \in Procs : Waits(holder', queue', x) <=> Waits(holder, queue, x) \/ x = t
          /\ parked' \in Yields
          /\ script' \in [Procs -> Seq(Cmd)]
          /\ \A x \in Procs : x # t => script'[x] = script[x]
          /\ \A x \in Procs : script'[x] # << >> => Waits(holder', queue', x)
          /\ (holder # None => holder' = holder)
      BY Zenon, <2>2, <2>3, <2>4, Begins
    <2>6. timer' \in TimerType /\ timer'[t] = "inside"
          /\ \A x \in Timers : x # t => timer'[x] = timer[x]
      <3>1. timer \in TimerType BY Zenon, Fields DEF TimerType
      <3> QED BY SMTT(60), <3>1, <2>1 DEF TimerType
    <2>7. Values'
      <3>1. /\ sd' \in SdType /\ req' \in [Clients -> Requests \cup {None}] /\ still' \in BOOLEAN
            /\ state' \in {"Idle", "Ready", "Printing"}
        BY Zenon, <2>1, Before
      <3> QED BY Zenon, <3>1, <2>1, <2>5, <2>6, <1>ValuesKept
    <2>8. \A x \in Clients : Waits(holder', queue', x) <=> req'[x] # None
      <3>1. \A x \in Clients : x \in Procs /\ x # t BY Zenon, <2>2, Processes
      <3> QED BY Zenon, <3>1, <2>1, <2>5 DEF Typed, Mutex
    <2>9. \A x \in Timers : Waits(holder', queue', x) <=> timer'[x] \in {"inside", "repeat"}
      <3>1. \A x \in Timers : x \in Procs BY Zenon, Processes
      <3> QED BY Zenon, <3>1, <2>5, <2>6 DEF Typed, Mutex
    <2>10. /\ Waits(holder', queue', "sd") <=> sd'.phase \in {"line", "on_error"}
           /\ sd'.phase = "line" => holder' = "sd" /\ sd'.pos <= Len(Lines)
           /\ sd'.phase = "on_error" => script'["sd"] = << >>
      <3>1. "sd" \in Procs /\ "sd" # None BY Zenon, Processes
      <3> QED BY Zenon, <3>1, <2>1, <2>2, <2>5 DEF Typed, Mutex
    <2> QED BY Zenon, <2>5, <2>7, <2>8, <2>9, <2>10 DEF Typed, Mutex
  <1>Idle. ASSUME Typed, transition_idle_state
           PROVE  Typed'
    <2> USE <1>Idle
    <2>1. /\ holder = None /\ state' = "Printing"
          /\ run_script("idle", << <<"TURN_OFF_HEATERS">>, <<"M84">> >>)
          /\ timer' = timer /\ req' = req /\ sd' = sd /\ pr' = pr /\ heat' = heat
          /\ motors' = motors /\ homed' = homed /\ last_extruder_temp' = last_extruder_temp
          /\ still' = still
      BY Zenon DEF transition_idle_state, machine
    <2>2. /\ "idle" \in Procs /\ "idle" # "sd" /\ "idle" \notin Clients /\ "idle" \notin Timers
      <3>1. "idle" # "sd" OBVIOUS
      <3> QED BY Zenon, <3>1, Processes
    <2>3. ~ Waits(holder, queue, "idle") BY Zenon, <2>1, <2>2, Nobody
    <2>4. PICK s \in Seq(Cmd) : run_script("idle", s) BY Zenon, <2>1, IdleScript
    <2>5. /\ QueueOK(holder', queue')
          /\ \A x \in Procs : Waits(holder', queue', x) <=> Waits(holder, queue, x) \/ x = "idle"
          /\ parked' \in Yields
          /\ script' \in [Procs -> Seq(Cmd)]
          /\ \A x \in Procs : x # "idle" => script'[x] = script[x]
          /\ \A x \in Procs : script'[x] # << >> => Waits(holder', queue', x)
          /\ (holder # None => holder' = holder)
      BY Zenon, <2>2, <2>3, <2>4, Begins
    <2>6. Values'
      <3>1. "Printing" \in {"Idle", "Ready", "Printing"} OBVIOUS
      <3>2. /\ sd' \in SdType /\ req' \in [Clients -> Requests \cup {None}] /\ still' \in BOOLEAN
            /\ timer' \in TimerType
        BY Zenon, <2>1, Before
      <3> QED BY Zenon, <3>1, <3>2, <2>1, <2>5, <1>ValuesKept
    <2>7. \A x \in Clients : Waits(holder', queue', x) <=> req'[x] # None
      <3>1. \A x \in Clients : x \in Procs /\ x # "idle" BY Zenon, <2>2, Processes
      <3> QED BY Zenon, <3>1, <2>1, <2>5 DEF Typed, Mutex
    <2>8. \A x \in Timers : Waits(holder', queue', x) <=> timer'[x] \in {"inside", "repeat"}
      <3>1. \A x \in Timers : x \in Procs /\ x # "idle" BY Zenon, <2>2, Processes
      <3> QED BY Zenon, <3>1, <2>1, <2>5 DEF Typed, Mutex
    <2>9. /\ Waits(holder', queue', "sd") <=> sd'.phase \in {"line", "on_error"}
          /\ sd'.phase = "line" => holder' = "sd" /\ sd'.pos <= Len(Lines)
          /\ sd'.phase = "on_error" => script'["sd"] = << >>
      <3>1. "sd" \in Procs /\ "sd" # None BY Zenon, Processes
      <3> QED BY Zenon, <3>1, <2>1, <2>2, <2>5 DEF Typed, Mutex
    <2> QED BY Zenon, <2>5, <2>6, <2>7, <2>8, <2>9 DEF Typed, Mutex
  <1>Reply. ASSUME Typed, NEW c \in Clients, Reply(c)
            PROVE  Typed'
    <2> USE <1>Reply
    <2>1. /\ holder = c /\ req' = [req EXCEPT ![c] = None] /\ script' = [script EXCEPT ![c] = << >>]
          /\ Release(queue) /\ sd' = sd /\ pr' = pr /\ timer' = timer /\ heat' = heat
          /\ motors' = motors /\ homed' = homed /\ last_extruder_temp' = last_extruder_temp
          /\ state' = state /\ still' = still
      BY Zenon DEF Reply, Over, machine, idleVars
    <2>2. c \in Procs /\ c # "sd" /\ c \notin Timers BY Zenon, Processes
    <2>3. /\ QueueOK(holder', queue')
          /\ \A x \in Procs : Waits(holder', queue', x) <=> Waits(holder, queue, x) /\ x # c
          /\ parked' \in Yields
          /\ script' \in [Procs -> Seq(Cmd)]
          /\ \A x \in Procs : x # c => script'[x] = script[x]
          /\ \A x \in Procs : script'[x] # << >> => Waits(holder', queue', x)
      BY Zenon, <2>1, <2>2, Ends
    <2>4. /\ req' \in [Clients -> Requests \cup {None}] /\ req'[c] = None
          /\ \A x \in Clients : x # c => req'[x] = req[x]
      <3>1. req \in [Clients -> Requests \cup {None}] BY Zenon, Before
      <3> QED BY SMTT(60), <3>1, <2>1
    <2>5. Values'
      <3>1. /\ sd' \in SdType /\ timer' \in TimerType /\ still' \in BOOLEAN
            /\ state' \in {"Idle", "Ready", "Printing"}
        BY Zenon, <2>1, Before
      <3> QED BY Zenon, <3>1, <2>1, <2>3, <2>4, <1>ValuesKept
    <2>6. \A x \in Clients : Waits(holder', queue', x) <=> req'[x] # None
      <3>1. \A x \in Clients : x \in Procs BY Zenon, Processes
      <3> QED BY Zenon, <3>1, <2>3, <2>4 DEF Typed, Mutex
    <2>7. \A t \in Timers : Waits(holder', queue', t) <=> timer'[t] \in {"inside", "repeat"}
      <3>1. \A t \in Timers : t \in Procs /\ t # c BY Zenon, <2>2, Processes
      <3> QED BY Zenon, <3>1, <2>1, <2>3 DEF Typed, Mutex
    <2>8. /\ Waits(holder', queue', "sd") <=> sd'.phase \in {"line", "on_error"}
          /\ sd'.phase # "line"
          /\ sd'.phase = "on_error" => script'["sd"] = << >>
      <3>1. "sd" \in Procs BY Zenon, Processes
      <3> QED BY Zenon, <3>1, <2>1, <2>2, <2>3 DEF Typed, Mutex
    <2> QED BY Zenon, <2>3, <2>5, <2>6, <2>7, <2>8 DEF Typed, Mutex
  <1>TimerDone.
      ASSUME Typed, NEW t \in Timers, TimerDone(t)
      PROVE  Typed'
    <2> USE <1>TimerDone
    <2>1. /\ holder = t /\ timer' = [timer EXCEPT ![t] = IF timer[t] = "repeat" THEN "armed" ELSE "off"]
          /\ script' = [script EXCEPT ![t] = << >>]
          /\ Release(queue) /\ req' = req /\ sd' = sd /\ pr' = pr /\ heat' = heat
          /\ motors' = motors /\ homed' = homed /\ last_extruder_temp' = last_extruder_temp
          /\ state' = state /\ still' = still
      BY Zenon DEF TimerDone, Over, machine, idleVars
    <2>2. t \in Procs /\ t # "sd" /\ t \notin Clients BY Zenon, Processes
    <2>3. /\ QueueOK(holder', queue')
          /\ \A x \in Procs : Waits(holder', queue', x) <=> Waits(holder, queue, x) /\ x # t
          /\ parked' \in Yields
          /\ script' \in [Procs -> Seq(Cmd)]
          /\ \A x \in Procs : x # t => script'[x] = script[x]
          /\ \A x \in Procs : script'[x] # << >> => Waits(holder', queue', x)
      BY Zenon, <2>1, <2>2, Ends
    <2>4. /\ timer' \in TimerType /\ timer'[t] \notin {"inside", "repeat"}
          /\ \A x \in Timers : x # t => timer'[x] = timer[x]
      <3>1. timer \in TimerType BY Zenon, Before
      <3> QED BY SMTT(60), <3>1, <2>1 DEF TimerType
    <2>5. Values'
      <3>1. /\ sd' \in SdType /\ req' \in [Clients -> Requests \cup {None}] /\ still' \in BOOLEAN
            /\ state' \in {"Idle", "Ready", "Printing"}
        BY Zenon, <2>1, Before
      <3> QED BY Zenon, <3>1, <2>1, <2>3, <2>4, <1>ValuesKept
    <2>6. \A x \in Clients : Waits(holder', queue', x) <=> req'[x] # None
      <3>1. \A x \in Clients : x \in Procs /\ x # t BY Zenon, <2>2, Processes
      <3> QED BY Zenon, <3>1, <2>1, <2>3 DEF Typed, Mutex
    <2>7. \A x \in Timers : Waits(holder', queue', x) <=> timer'[x] \in {"inside", "repeat"}
      <3>1. \A x \in Timers : x \in Procs BY Zenon, Processes
      <3> QED BY Zenon, <3>1, <2>3, <2>4 DEF Typed, Mutex
    <2>8. /\ Waits(holder', queue', "sd") <=> sd'.phase \in {"line", "on_error"}
          /\ sd'.phase # "line"
          /\ sd'.phase = "on_error" => script'["sd"] = << >>
      <3>1. "sd" \in Procs BY Zenon, Processes
      <3> QED BY Zenon, <3>1, <2>1, <2>2, <2>3 DEF Typed, Mutex
    <2> QED BY Zenon, <2>3, <2>5, <2>6, <2>7, <2>8 DEF Typed, Mutex
  <1>IdleDone.
      ASSUME Typed, IdleDone
      PROVE  Typed'
    <2> USE <1>IdleDone
    <2>1. /\ holder = "idle" /\ script' = [script EXCEPT !["idle"] = << >>]
          /\ Release(queue) /\ req' = req /\ sd' = sd /\ pr' = pr /\ timer' = timer /\ heat' = heat
          /\ motors' = motors /\ homed' = homed /\ last_extruder_temp' = last_extruder_temp
          /\ state' = "Idle" /\ still' = still
      BY Zenon DEF IdleDone, Over, machine
    <2>2. /\ "idle" \in Procs /\ "idle" # "sd" /\ "idle" \notin Clients /\ "idle" \notin Timers
      <3>1. "idle" # "sd" OBVIOUS
      <3> QED BY Zenon, <3>1, Processes
    <2>3. /\ QueueOK(holder', queue')
          /\ \A x \in Procs : Waits(holder', queue', x) <=> Waits(holder, queue, x) /\ x # "idle"
          /\ parked' \in Yields
          /\ script' \in [Procs -> Seq(Cmd)]
          /\ \A x \in Procs : x # "idle" => script'[x] = script[x]
          /\ \A x \in Procs : script'[x] # << >> => Waits(holder', queue', x)
      BY Zenon, <2>1, <2>2, Ends
    <2>4. Values'
      <3>1. "Idle" \in {"Idle", "Ready", "Printing"} OBVIOUS
      <3>2. /\ sd' \in SdType /\ req' \in [Clients -> Requests \cup {None}] /\ still' \in BOOLEAN
            /\ timer' \in TimerType
        BY Zenon, <2>1, Before
      <3> QED BY Zenon, <3>1, <3>2, <2>1, <2>3, <1>ValuesKept
    <2>5. \A x \in Clients : Waits(holder', queue', x) <=> req'[x] # None
      <3>1. \A x \in Clients : x \in Procs /\ x # "idle" BY Zenon, <2>2, Processes
      <3> QED BY Zenon, <3>1, <2>1, <2>3 DEF Typed, Mutex
    <2>6. \A x \in Timers : Waits(holder', queue', x) <=> timer'[x] \in {"inside", "repeat"}
      <3>1. \A x \in Timers : x \in Procs /\ x # "idle" BY Zenon, <2>2, Processes
      <3> QED BY Zenon, <3>1, <2>1, <2>3 DEF Typed, Mutex
    <2>7. /\ Waits(holder', queue', "sd") <=> sd'.phase \in {"line", "on_error"}
          /\ sd'.phase # "line"
          /\ sd'.phase = "on_error" => script'["sd"] = << >>
      <3>1. "sd" \in Procs BY Zenon, Processes
      <3> QED BY Zenon, <3>1, <2>1, <2>2, <2>3 DEF Typed, Mutex
    <2> QED BY Zenon, <2>3, <2>4, <2>5, <2>6, <2>7 DEF Typed, Mutex
  \* The clients and the timers when it is the print file that begins or ends.
  <1>OthersWait.
      ASSUME Typed, req' = req, timer' = timer,
             \A x \in Procs : x # "sd" => (Waits(holder', queue', x) <=> Waits(holder, queue, x))
      PROVE  /\ \A c \in Clients : Waits(holder', queue', c) <=> req'[c] # None
             /\ \A t \in Timers : Waits(holder', queue', t) <=> timer'[t] \in {"inside", "repeat"}
    <2> USE <1>OthersWait
    <2>1. /\ \A x \in Clients : x \in Procs /\ x # "sd"
          /\ \A x \in Timers : x \in Procs /\ x # "sd"
      BY Zenon, Processes
    <2> QED BY Zenon, <2>1 DEF Typed, Mutex
  <1>File. ASSUME Typed, Quiet, sd' \in SdType, QueueOK(holder', queue'), parked' \in Yields,
                  script' \in [Procs -> Seq(Cmd)],
                  \A x \in Procs : script'[x] # << >> => Waits(holder', queue', x),
                  \A x \in Procs : x # "sd" => (Waits(holder', queue', x) <=> Waits(holder, queue, x)),
                  Waits(holder', queue', "sd") <=> sd'.phase \in {"line", "on_error"},
                  sd'.phase = "line" => holder' = "sd" /\ sd'.pos <= Len(Lines),
                  sd'.phase = "on_error" => script'["sd"] = << >>
           PROVE  Typed'
    <2> USE <1>File
    <2>1. req' = req /\ timer' = timer BY Zenon DEF Quiet
    <2>2. /\ \A c \in Clients : Waits(holder', queue', c) <=> req'[c] # None
          /\ \A t \in Timers : Waits(holder', queue', t) <=> timer'[t] \in {"inside", "repeat"}
      BY Zenon, <2>1, <1>OthersWait
    <2>3. Values'
      <3>1. /\ timer' \in TimerType /\ req' \in [Clients -> Requests \cup {None}]
            /\ state' \in {"Idle", "Ready", "Printing"} /\ still' \in BOOLEAN
        BY Zenon, Before DEF Quiet
      <3> QED BY Zenon, <3>1, <1>ValuesKept DEF Quiet
    <2> QED BY Zenon, <2>2, <2>3 DEF Typed, Mutex
  \* work_handler moves on without the mutex.
  <1>Phase. ASSUME Typed, Quiet, holder' = holder, queue' = queue, script' = script, parked' = parked,
                   sd.phase \notin {"line", "on_error"}, sd' \in SdType,
                   sd'.phase \notin {"line", "on_error"}
            PROVE  Typed'
    <2> USE <1>Phase
    <2>1. /\ QueueOK(holder', queue') /\ parked' \in Yields /\ script' \in [Procs -> Seq(Cmd)]
          /\ \A x \in Procs : script'[x] # << >> => Waits(holder', queue', x)
          /\ \A x \in Procs : x # "sd" => (Waits(holder', queue', x) <=> Waits(holder, queue, x))
          /\ Waits(holder', queue', "sd") <=> sd'.phase \in {"line", "on_error"}
      BY Zenon DEF Typed, Mutex, Values, Yields
    <2> QED BY Zenon, <2>1, <1>File
  <1>Work. ASSUME Typed, work_handler
           PROVE  Typed'
    <2> USE <1>Work
    <2>1. /\ Quiet /\ holder' = holder /\ queue' = queue /\ script' = script /\ parked' = parked
          /\ sd.phase = "start"
          /\ sd' = [sd EXCEPT !.phase = IF sd.file THEN "loop" ELSE "off"]
      BY Zenon DEF work_handler, mutex, machine, idleVars, Quiet
    <2>2. sd \in SdType BY Zenon, Before
    <2>3. sd' \in SdType /\ sd'.phase \in {"loop", "off"}
      <3>1. PICK f \in {"loop", "off"} : sd' = [sd EXCEPT !.phase = f] BY Zenon, <2>1
      <3>2. f \in {"off", "start", "loop", "line", "on_error"} BY Zenon, <3>1
      <3> QED BY Zenon, <3>1, <3>2, <2>2, SdPhase
    <2>4. "start" \notin {"line", "on_error"} /\ "loop" \notin {"line", "on_error"}
          /\ "off" \notin {"line", "on_error"}
      OBVIOUS
    <2> QED BY Zenon, <2>1, <2>3, <2>4, <1>Phase
  <1>NextLine.
      ASSUME Typed, NextLine
      PROVE  Typed'
    <2> USE <1>NextLine
    <2>1. Quiet /\ sd.phase = "loop" BY Zenon, NextLineIs
    <2>2. CASE Exits
      <3>1. sd' \in SdType /\ sd'.phase = "off" BY Zenon, <2>2, Before, ExitedIs DEF Exits, Exited
      <3>2. "loop" \notin {"line", "on_error"} /\ "off" \notin {"line", "on_error"} OBVIOUS
      <3> QED BY Zenon, <3>1, <3>2, <2>1, <2>2, <1>Phase DEF Exits
    <2>3. CASE RunLine
      <3>1. /\ holder' = "sd" /\ queue = << >> /\ QueueOK(holder', queue')
            /\ \A x \in Procs : Waits(holder', queue', x) <=> x = "sd"
            /\ script'["sd"] = << Lines[sd.pos] >> /\ script' \in [Procs -> Seq(Cmd)]
            /\ \A x \in Procs : x # "sd" => script'[x] = << >>
            /\ parked' \in Yields
            /\ sd' \in SdType /\ sd'.phase = "line" /\ sd'.pos = sd.pos
        BY Zenon, <2>3, LineBegins
      <3>2. \A x \in Procs : ~ Waits(holder, queue, x) BY Zenon, <2>3, Nobody DEF RunLine
      <3>3. "line" # "on_error" /\ "line" \in {"line", "on_error"} OBVIOUS
      <3>4. sd.pos <= Len(Lines) BY Zenon, <2>3 DEF RunLine
      <3>5. "sd" \in Procs BY Zenon, Processes
      <3> QED BY Zenon, <3>1, <3>2, <3>3, <3>4, <3>5, <2>1, <1>File
    <2> QED BY Zenon, <2>2, <2>3, NextLineIs
  \* work_handler lets the mutex go after a line or after on_error_gcode.
  <1>Free. ASSUME Typed, Quiet, holder = "sd", Release(queue),
                  script' = [script EXCEPT !["sd"] = << >>]
                  \/ (script' = script /\ script["sd"] = << >>),
                  sd' \in SdType, sd'.phase \in {"off", "loop"}
           PROVE  Typed'
    <2> USE <1>Free
    <2>1. holder \in Procs BY Zenon, Processes
    <2>2. /\ QueueOK(holder', queue')
          /\ \A x \in Procs : Waits(holder', queue', x) <=> Waits(holder, queue, x) /\ x # holder
          /\ parked' \in Yields /\ script' \in [Procs -> Seq(Cmd)]
          /\ \A x \in Procs : script'[x] # << >> => Waits(holder', queue', x)
      BY Zenon, <2>1, Ends
    <2>3. /\ sd'.phase \notin {"line", "on_error"} /\ sd'.phase # "line" /\ sd'.phase # "on_error"
      OBVIOUS
    <2> QED BY Zenon, <2>1, <2>2, <2>3, <1>File
  <1>LineDone.
      ASSUME Typed, LineDone
      PROVE  Typed'
    <2> USE <1>LineDone
    <2>1. /\ Quiet /\ holder = "sd" /\ Release(queue) /\ script' = script /\ script["sd"] = << >>
      BY Zenon DEF LineDone, Quiet, machine, idleVars
    <2> QED BY Zenon, <2>1, LineDoneIs, <1>Free
  <1>OnErrorDone.
      ASSUME Typed, OnErrorDone
      PROVE  Typed'
    <2> USE <1>OnErrorDone
    <2>1. /\ Quiet /\ holder = "sd" /\ Release(queue) /\ script' = script /\ script["sd"] = << >>
          /\ sd' = Exited
      BY Zenon DEF OnErrorDone, Quiet, machine, idleVars
    <2>2. sd' \in SdType /\ sd'.phase \in {"off", "loop"} BY Zenon, <2>1, Before, ExitedIs DEF Exited
    <2> QED BY Zenon, <2>1, <2>2, <1>Free
  <1>LineRaised.
      ASSUME Typed, LineRaised
      PROVE  Typed'
    <2> USE <1>LineRaised
    <2>1. /\ Quiet /\ holder = "sd" /\ script' = [script EXCEPT !["sd"] = << >>]
      BY Zenon DEF LineRaised, Quiet, machine, idleVars
    <2>2. CASE queue = << >>
      <3>1. sd' = Exited /\ Release(queue) BY Zenon, <2>2 DEF LineRaised
      <3>2. sd' \in SdType /\ sd'.phase \in {"off", "loop"} BY Zenon, <3>1, Before, ExitedIs DEF Exited
      <3> QED BY Zenon, <3>1, <3>2, <2>1, <1>Free
    <2>3. CASE queue # << >>
      <3>1. /\ QueueOK(holder', queue')
            /\ \A x \in Procs : Waits(holder', queue', x) <=> Waits(holder, queue, x)
            /\ parked' = "switch"
            /\ script' \in [Procs -> Seq(Cmd)] /\ script'["sd"] = << >>
            /\ \A x \in Procs : x # "sd" => script'[x] = script[x]
            /\ sd' \in SdType /\ sd'.phase = "on_error"
        BY Zenon, <2>3, Waiting
      <3>2. "sd" \in Procs /\ Waits(holder, queue, "sd") BY Zenon, <2>1, Processes DEF Waits
      <3>3. "on_error" # "line" /\ "on_error" \in {"line", "on_error"} /\ "switch" \in Yields
        BY SMTT(60) DEF Yields
      <3>4. \A x \in Procs : script'[x] # << >> => Waits(holder', queue', x)
        BY Zenon, <3>1 DEF Typed, Mutex
      <3> QED BY Zenon, <3>1, <3>2, <3>3, <3>4, <2>1, <1>File
    <2> QED BY Zenon, <2>2, <2>3
  <1>Still. ASSUME Typed, holder' = holder, queue' = queue, script' = script, parked' = parked,
                   req' = req, sd' = sd, pr' = pr, timer' = timer, heat' = heat, motors' = motors,
                   homed' = homed, last_extruder_temp' = last_extruder_temp,
                   state' \in {"Idle", "Ready", "Printing"}, still' \in BOOLEAN
            PROVE  Typed'
    <2> USE <1>Still
    <2>1. Values'
      <3>1. /\ sd' \in SdType /\ timer' \in TimerType /\ req' \in [Clients -> Requests \cup {None}]
            /\ parked' \in Yields
        BY Zenon, Before DEF Typed, Values, Yields
      <3> QED BY Zenon, <3>1, <1>ValuesKept
    <2> QED BY Zenon, <2>1 DEF Typed, Mutex
  <1> SUFFICES ASSUME Typed, [Next]_vars
               PROVE  Typed'
    OBVIOUS
  <1>1. CASE \E p \in Procs : Command(p) BY Zenon, <1>1, Commands, <1>Command
  <1>2. CASE \E c \in Clients : Reply(c) \/ Request(c) BY Zenon, <1>2, <1>Reply, <1>Request
  <1>3. CASE \E t \in Timers : TimerDone(t) \/ _gcode_timer_event(t)
    BY Zenon, <1>3, <1>TimerDone, <1>TimerEvent
  <1>4. CASE IdleDone \/ transition_idle_state BY Zenon, <1>4, <1>IdleDone, <1>Idle
  <1>5. CASE LineDone \/ LineRaised \/ OnErrorDone
    BY Zenon, <1>5, <1>LineDone, <1>LineRaised, <1>OnErrorDone
  <1>6. CASE work_handler \/ NextLine BY Zenon, <1>6, <1>Work, <1>NextLine
  <1>7. CASE timeout_handler
    <2>1. "Ready" \in {"Idle", "Ready", "Printing"} OBVIOUS
    <2> QED BY Zenon, <2>1, <1>7, <1>Still DEF timeout_handler, mutex, machine
  <1>8. CASE UNCHANGED vars
    BY Zenon, <1>8, Before, <1>Still DEF vars, mutex, machine, idleVars
  <1> QED BY Zenon, <1>1, <1>2, <1>3, <1>4, <1>5, <1>6, <1>7, <1>8, Steps

\* Whatever the clients ask for, in whatever order the greenlets run and whichever
\* commands fail, the mutex has one holder, its queue holds nobody twice, a script is
\* left only to those who hold or await it, the print file holds or awaits it exactly
\* while a line is run or has raised, and every value has its type.
THEOREM TypeCorrect == Spec => []TypeOK
  <1>1. Init => Typed BY TypedInit
  <1>2. Typed /\ [Next]_vars => Typed' BY TypedStep
  <1>3. Typed => TypeOK BY TypedTypes
  <1> QED BY <1>1, <1>2, <1>3, PTL DEF Spec

-----------------------------------------------------------------------------
(* Where the commands of a script come from. *)

\* A command of the new script is a new one or was further back.
LEMMA Places ==
    ASSUME Typed, NEW p \in Procs, script[p] # << >>, NEW more \in Seq(Cmd), Goes(p, more),
           NEW i \in 1 .. Len(script'[p])
    PROVE  \/ i \in 1 .. Len(more) /\ script'[p][i] = more[i]
           \/ \E j \in 2 .. Len(script[p]) :
                 i = Len(more) + (j - 1) /\ script'[p][i] = script[p][j]
  <1>1. script[p] \in Seq(Cmd) /\ script'[p] = more \o Tail(script[p])
    BY Zenon, Fields DEF Goes
  <1>2. PICK s \in Seq(Cmd) : s = script[p] BY Zenon, <1>1
  <1>3. PICK t : t = script'[p] BY Zenon
  <1>4. t = more \o Tail(s) /\ s # << >> /\ i \in 1 .. Len(t) BY Zenon, <1>1, <1>2, <1>3
  <1>5. /\ \A k \in 1 .. Len(more) : t[k] = more[k]
        /\ \A j \in 2 .. Len(s) : t[Len(more) + (j - 1)] = s[j]
        /\ \A k \in 1 .. Len(t) :
              k \in 1 .. Len(more) \/ \E j \in 2 .. Len(s) : k = Len(more) + (j - 1)
    <2>1. /\ \A k \in 1 .. Len(more) : (more \o Tail(s))[k] = more[k]
          /\ \A j \in 2 .. Len(s) : (more \o Tail(s))[Len(more) + (j - 1)] = s[j]
          /\ \A k \in 1 .. Len(more \o Tail(s)) :
                k \in 1 .. Len(more) \/ \E j \in 2 .. Len(s) : k = Len(more) + (j - 1)
      BY Zenon, <1>4, Shifted
    <2> QED BY Zenon, <2>1, <1>4
  <1> QED BY Zenon, <1>2, <1>3, <1>4, <1>5

\* What no command puts into a script.
New == Cmd \ {<<"SDCARD_PRINT_FILE">>, <<"SHELL", FALSE>>}

LEMMA NewAre ==
    /\ \A x \in Plain \ {"SDCARD_PRINT_FILE"} : <<x>> \in New
    /\ \A q \in Seq(Calm) : q \in Seq(New)
    /\ \A q \in Seq(New) : q \in Seq(Cmd)
    /\ Arm(Motor) \in New
  <1>1. ASSUME NEW x \in Plain \ {"SDCARD_PRINT_FILE"} PROVE <<x>> \in New
    <2>1. x # "SDCARD_PRINT_FILE" /\ x # "SHELL" BY SMTT(60) DEF Plain, Macros
    <2>2. /\ <<x>>[1] = x /\ <<"SDCARD_PRINT_FILE">>[1] = "SDCARD_PRINT_FILE"
          /\ <<"SHELL", FALSE>>[1] = "SHELL"
      OBVIOUS
    <2>3. <<x>> # <<"SDCARD_PRINT_FILE">> /\ <<x>> # <<"SHELL", FALSE>> BY Zenon, <2>1, <2>2
    <2> QED BY Zenon, <2>3, CommandsAre DEF New
  <1>2. Calm \subseteq New /\ New \subseteq Cmd BY Zenon DEF Calm, New
  <1>3. \A S, T : S \subseteq T => \A q \in Seq(S) : q \in Seq(T) BY SMTT(60)
  <1>4. Arm(Motor) \in New
    <2>1. /\ Arm(Motor)[1] = "UPDATE_DELAYED_GCODE" /\ <<"SHELL", FALSE>>[1] = "SHELL"
          /\ <<"SDCARD_PRINT_FILE">>[1] = "SDCARD_PRINT_FILE"
      BY SMTT(60) DEF Arm
    <2>2. "UPDATE_DELAYED_GCODE" # "SHELL" /\ "UPDATE_DELAYED_GCODE" # "SDCARD_PRINT_FILE"
      OBVIOUS
    <2>3. Motor \in Timers BY SMTT(60) DEF Motor, Timers
    <2> QED BY Zenon, <2>1, <2>2, <2>3, CommandsAre DEF New
  <1> QED BY Zenon, <1>1, <1>2, <1>3, <1>4

\* What the three macros of a print may contain.
LEMMA MacroShapes ==
    /\ PRINT_START \in Seq(Calm)
    /\ PRINT_END \in Seq(New)
    /\ CANCEL_PRINT \in Seq(New)
  <1>1. PRINT_START \in Seq(Calm) BY SMTT(60), CalmAre DEF PRINT_START, Plain, Timers, Macros, Temps
  <1>2. \A S : /\ << >> \in Seq(S)
               /\ \A a, b \in S : <<a>> \in Seq(S) /\ <<a, b>> \in Seq(S)
               /\ \A a, b, c, d, e \in S : <<a, b, c, d, e>> \in Seq(S)
    OBVIOUS
  <1>3. <<"M104", Off>> \in Calm /\ <<"M140", Off>> \in Calm /\ Disarm("cool_hot_end") \in Calm
    BY SMTT(60), CalmAre DEF Temps, Timers
  <1>4. <<"M104", Off>> \in New /\ <<"M140", Off>> \in New /\ Disarm("cool_hot_end") \in New
    BY Zenon, <1>3 DEF New, Calm
  <1>5. {"G1", "CLEAR_PAUSE", "SDCARD_RESET_FILE", "PRINT_END", "BASE_CANCEL_PRINT"}
           \subseteq Plain \ {"SDCARD_PRINT_FILE"}
    BY SMTT(60) DEF Plain, Macros
  <1>6. /\ <<"G1">> \in New /\ <<"CLEAR_PAUSE">> \in New /\ <<"SDCARD_RESET_FILE">> \in New
        /\ <<"PRINT_END">> \in New /\ <<"BASE_CANCEL_PRINT">> \in New /\ Arm(Motor) \in New
    BY Zenon, <1>5, NewAre
  <1>7. CANCEL_PRINT \in Seq(New) BY Zenon, <1>2, <1>4, <1>6 DEF CANCEL_PRINT
  <1>8. PRINT_END \in Seq(New)
    <2>1. /\ << <<"M104", Off>>, <<"M140", Off>> >> \in Seq(New) /\ << <<"G1">> >> \in Seq(New)
          /\ << Arm(Motor) >> \in Seq(New)
      BY Zenon, <1>2, <1>4, <1>6
    <2> QED BY Zenon, <2>1, <1>2, ConcatProperties DEF PRINT_END, Motor
  <1> QED BY Zenon, <1>1, <1>7, <1>8

LEMMA ErrorIs ==
    ASSUME NEW p \in Procs, Errs(p)
    PROVE  Len(script'[p]) = 1 /\ \A i \in 1 .. Len(script'[p]) : script'[p][i] = <<"error">>
  <1>1. script'[p] = << <<"error">> >> BY Zenon DEF Errs
  <1> QED BY SMTT(60), <1>1

\* No command puts a start of a print or a disable of the motors into a script.
LEMMA Appears ==
    ASSUME Typed, NEW p \in Procs, script[p] # << >>, Outcome(p), NEW i \in 1 .. Len(script'[p]),
           script'[p][i] \in {<<"SDCARD_PRINT_FILE">>, <<"SHELL", FALSE>>}
    PROVE  \E j \in 2 .. Len(script[p]) : script'[p][i] = script[p][j]
  <1>OutcomeShape.
      ASSUME Typed, NEW x \in Procs, Outcome(x)
      PROVE  Errs(x) \/ \E more \in Seq(New) : Goes(x, more)
    <2> USE <1>OutcomeShape
    <2>1. /\ << >> \in Seq(New) /\ << <<"PAUSED">> >> \in Seq(New)
          /\ << <<"WAIT_SD">>, <<"PAUSED">> >> \in Seq(New)
      <3>1. {"PAUSED", "WAIT_SD"} \subseteq Plain \ {"SDCARD_PRINT_FILE"} BY SMTT(60) DEF Plain
      <3>2. <<"PAUSED">> \in New /\ <<"WAIT_SD">> \in New BY Zenon, <3>1, NewAre
      <3>3. \A S : /\ << >> \in Seq(S)
                   /\ \A a, b \in S : <<a>> \in Seq(S) /\ <<a, b>> \in Seq(S)
        OBVIOUS
      <3> QED BY Zenon, <3>2, <3>3
    <2>2. CASE Fails(x) BY Zenon, <2>2 DEF Fails
    <2>3. CASE Calms(x) BY Zenon, <2>3, NewAre DEF Calms
    <2>4. CASE \/ Expands(x, "PRINT_START", PRINT_START) \/ Expands(x, "PRINT_END", PRINT_END)
               \/ Expands(x, "CANCEL_PRINT", CANCEL_PRINT)
      BY Zenon, <2>4, MacroShapes, NewAre DEF Expands
    <2>5. CASE \/ Updates(x) \/ PausesAgain(x) \/ PausesNow(x) \/ IsPaused(x)
               \/ Resumes(x) \/ Clears(x) \/ Closes(x) \/ Prints(x)
      BY Zenon, <2>5, <2>1 DEF Updates, PausesAgain, PausesNow, IsPaused, Resumes, Clears, Closes,
                               Prints
    <2> QED BY Zenon, <2>2, <2>3, <2>4, <2>5 DEF Outcome
  <1>1. CASE Errs(p)
    <2>1. script'[p][i] = <<"error">> BY Zenon, <1>1, ErrorIs
    <2>2. <<"error">> # <<"SDCARD_PRINT_FILE">> /\ <<"error">> # <<"SHELL", FALSE>> BY SMTT(60)
    <2> QED BY Zenon, <2>1, <2>2
  <1>2. ASSUME NEW more \in Seq(New), Goes(p, more)
        PROVE  \E j \in 2 .. Len(script[p]) : script'[p][i] = script[p][j]
    <2>1. more \in Seq(Cmd) BY Zenon, NewAre
    <2>2. \A k \in 1 .. Len(more) : more[k] \in New BY SMTT(60)
    <2>3. ~ (i \in 1 .. Len(more) /\ script'[p][i] = more[i]) BY Zenon, <2>2 DEF New
    <2> QED BY Zenon, <2>1, <2>3, <1>2, Places
  <1> QED BY Zenon, <1>1, <1>2, <1>OutcomeShape

-----------------------------------------------------------------------------
(* A pause holds. *)

Easy == {"M104", "M140", "G1", "SHELL", "TURN_OFF_HEATERS", "M84", "error", "WAIT_SD"}

\* A command that puts nothing in front of the rest and leaves the pause alone.
LEMMA EasyCommand ==
    ASSUME Typed, pr.pause_command_sent = pr.is_paused, NEW p \in Procs, Outcome(p), Op(p) \in Easy
    PROVE  Fails(p) \/ (Calms(p) /\ Goes(p, << >>))
  <1>1. /\ <<"PRINT_START">>[1] = "PRINT_START" /\ <<"PRINT_END">>[1] = "PRINT_END"
        /\ <<"CANCEL_PRINT">>[1] = "CANCEL_PRINT" /\ <<"BASE_PAUSE">>[1] = "BASE_PAUSE"
        /\ <<"PAUSED">>[1] = "PAUSED" /\ <<"RESUMED">>[1] = "RESUMED"
        /\ <<"CLEAR_PAUSE">>[1] = "CLEAR_PAUSE" /\ <<"CLOSE_FILE">>[1] = "CLOSE_FILE"
        /\ <<"SDCARD_PRINT_FILE">>[1] = "SDCARD_PRINT_FILE"
        /\ \A t, b : <<"UPDATE_DELAYED_GCODE", t, b>>[1] = "UPDATE_DELAYED_GCODE"
    OBVIOUS
  <1>2. /\ Op(p) \notin {"PRINT_START", "PRINT_END", "CANCEL_PRINT", "BASE_PAUSE", "PAUSED",
              "RESUMED", "CLEAR_PAUSE", "CLOSE_FILE", "SDCARD_PRINT_FILE",
              "UPDATE_DELAYED_GCODE"}
        /\ Op(p) \notin Macros \cup Longer
    BY SMTT(60) DEF Easy, Macros, Longer
  <1>3. CASE Calms(p) BY Zenon, <1>3, <1>2 DEF Calms
  <1>4. ~ (\/ Expands(p, "PRINT_START", PRINT_START) \/ Expands(p, "PRINT_END", PRINT_END)
           \/ Expands(p, "CANCEL_PRINT", CANCEL_PRINT))
    BY Zenon, <1>1, <1>2 DEF Expands, Op
  <1>5. ~ Updates(p)
    <2> SUFFICES ASSUME Updates(p) PROVE FALSE OBVIOUS
    <2>1. PICK t, b : script[p][1] = <<"UPDATE_DELAYED_GCODE", t, b>> BY Zenon DEF Updates
    <2>2. script[p][1][1] = "UPDATE_DELAYED_GCODE" BY Zenon, <2>1, <1>1
    <2> QED BY Zenon, <2>2, <1>2 DEF Op
  <1>8. ~ PausesNow(p) BY Zenon, <1>1, <1>2 DEF PausesNow, Op
  <1>9. ~ IsPaused(p) BY Zenon, <1>1, <1>2 DEF IsPaused, Op
  <1>6. ~ (Resumes(p) \/ Clears(p) \/ Closes(p) \/ Prints(p))
    BY Zenon, <1>1, <1>2 DEF Resumes, Clears, Closes, Prints, Op
  <1>7. ~ PausesAgain(p) BY Zenon DEF PausesAgain
  <1> QED BY Zenon, <1>3, <1>4, <1>5, <1>6, <1>7, <1>8, <1>9 DEF Outcome

LEMMA InertEasy == \A c \in Inert : c[1] \in Easy
  <1>1. /\ <<"M104", Off>>[1] = "M104" /\ <<"SHELL", FALSE>>[1] = "SHELL"
        /\ <<"TURN_OFF_HEATERS">>[1] = "TURN_OFF_HEATERS" /\ <<"M84">>[1] = "M84"
        /\ <<"error">>[1] = "error"
    OBVIOUS
  <1> QED BY Zenon, <1>1 DEF Inert, Easy

LEMMA FirstIs ==
    ASSUME Typed, NEW p \in Procs, script[p] # << >>
    PROVE  1 \in 1 .. Len(script[p]) /\ script[p] \in Seq(Cmd) /\ Len(script[p]) \in Nat
           /\ \A j \in 2 .. Len(script[p]) : j \in 1 .. Len(script[p]) /\ j # 1
  <1>1. script[p] \in Seq(Cmd) BY Zenon, Fields
  <1>2. PICK s \in Seq(Cmd) : s = script[p] BY Zenon, <1>1
  <1>3. s # << >> BY Zenon, <1>2
  <1>4. 1 \in 1 .. Len(s) /\ Len(s) \in Nat /\ \A j \in 2 .. Len(s) : j \in 1 .. Len(s) /\ j # 1
    BY SMTT(60), <1>3
  <1> QED BY Zenon, <1>2, <1>4

\* The delayed_gcodes and the idle timeout leave the print file and the pause alone.
LEMMA BackgroundCommand ==
    ASSUME Typed, Pausing, NEW p \in Background, p \in Procs, script[p] # << >>, Outcome(p)
    PROVE  /\ Fails(p) \/ (Calms(p) /\ Goes(p, << >>))
           /\ \A i \in 1 .. Len(script'[p]) : script'[p][i] \in Inert
  <1>1. \A i \in 1 .. Len(script[p]) : script[p][i] \in Inert BY Zenon DEF Pausing
  <1>2. /\ 1 \in 1 .. Len(script[p])
        /\ \A j \in 2 .. Len(script[p]) : j \in 1 .. Len(script[p]) /\ j # 1
    BY Zenon, FirstIs
  <1>3. Op(p) \in Easy BY Zenon, <1>1, <1>2, InertEasy DEF Op
  <1>4. Fails(p) \/ (Calms(p) /\ Goes(p, << >>)) BY Zenon, <1>3, EasyCommand DEF Pausing
  <1>5. CASE Fails(p)
    BY Zenon, <1>4, <1>5, ErrorIs DEF Fails, Inert
  <1>6. CASE Goes(p, << >>)
    <2>2. ASSUME NEW i \in 1 .. Len(script'[p])
          PROVE  \E j \in 2 .. Len(script[p]) : script'[p][i] = script[p][j]
      <3>1. PICK more \in Seq(Cmd) : more = << >> BY Zenon, EmptyCalm
      <3>2. i \notin 1 .. Len(more) BY SMTT(60), <3>1
      <3>3. Goes(p, more) BY Zenon, <1>6, <3>1
      <3> QED BY Zenon, <3>2, <3>3, Places
    <2> QED BY Zenon, <2>2, <1>1, <1>2, <1>4
  <1> QED BY Zenon, <1>4, <1>5, <1>6

LEMMA FieldsKept ==
    ASSUME Typed, NEW p \in Procs
    PROVE  /\ Calms(p) => /\ sd'.phase = sd.phase /\ (Halted => Halted')
                          /\ sd.phase = "off" => sd' = sd
           /\ Closes(p) => sd'.phase = sd.phase /\ (Halted => Halted')
           /\ PausesNow(p) => /\ pr'.is_paused = pr.is_paused /\ pr'.sd_paused = is_active
                              /\ pr'.pause_command_sent = pr.pause_command_sent
                              /\ pr'.sd_paused => Halted'
           /\ IsPaused(p) => /\ pr'.is_paused = TRUE /\ pr'.pause_command_sent = TRUE
                             /\ pr'.sd_paused = pr.sd_paused
           /\ Resumes(p) => pr'.is_paused = FALSE /\ pr'.pause_command_sent = FALSE
           /\ Clears(p) => pr'.is_paused = FALSE /\ pr'.pause_command_sent = FALSE
  <1>1. PICK r \in SdType : r = sd BY Zenon, Before
  <1>2. PICK q \in PrType : q = pr BY Zenon, Fields
  <1>3. /\ [r EXCEPT !.must_pause_work = TRUE].must_pause_work = TRUE
        /\ [r EXCEPT !.must_pause_work = TRUE].phase = r.phase
    BY Zenon, SdMustPause
  <1>4. ASSUME Calms(p)
        PROVE  /\ sd'.phase = sd.phase /\ (Halted => Halted')
               /\ sd.phase = "off" => sd' = sd
    <2>1. sd' = sd \/ (sd.phase # "off" /\ sd' = [sd EXCEPT !.must_pause_work = TRUE])
      BY Zenon, <1>4 DEF Calms
    <2> QED BY Zenon, <2>1, <1>1, <1>3 DEF Halted
  <1>5. ASSUME Closes(p) PROVE sd'.phase = sd.phase /\ (Halted => Halted')
    <2>1. sd' = [r EXCEPT !.file = FALSE, !.pos = 1] BY Zenon, <1>1, <1>5 DEF Closes
    <2>2. /\ [r EXCEPT !.file = FALSE, !.pos = 1].phase = r.phase
          /\ [r EXCEPT !.file = FALSE, !.pos = 1].must_pause_work = r.must_pause_work
      BY Zenon, SdChanges
    <2> QED BY Zenon, <2>1, <2>2, <1>1 DEF Halted
  <1>6. ASSUME PausesNow(p)
        PROVE  /\ pr'.is_paused = pr.is_paused /\ pr'.sd_paused = is_active
               /\ pr'.pause_command_sent = pr.pause_command_sent
               /\ pr'.sd_paused => Halted'
    <2>1. PICK b \in BOOLEAN : b = is_active BY Zenon DEF is_active
    <2>2. pr' = [q EXCEPT !.sd_paused = b] BY Zenon, <2>1, <1>2, <1>6 DEF PausesNow
    <2>3. /\ pr'.is_paused = pr.is_paused /\ pr'.sd_paused = b
          /\ pr'.pause_command_sent = pr.pause_command_sent
      BY Zenon, <2>2, <1>2, PrSdPaused
    <2>4. is_active => sd' = [r EXCEPT !.must_pause_work = TRUE] BY Zenon, <1>1, <1>6 DEF PausesNow
    <2>5. pr'.sd_paused => Halted'
      <3>1. pr'.sd_paused => is_active BY SMTT(60), <2>1, <2>3
      <3>2. is_active => sd'.must_pause_work = TRUE BY Zenon, <2>4, <1>3
      <3>3. is_active => sd'.must_pause_work BY Zenon, <3>2
      <3> QED BY Zenon, <3>1, <3>3 DEF Halted
    <2> QED BY Zenon, <2>1, <2>3, <2>5
  <1>7. ASSUME IsPaused(p)
        PROVE  /\ pr'.is_paused = TRUE /\ pr'.pause_command_sent = TRUE
               /\ pr'.sd_paused = pr.sd_paused
    <2>1. pr' = [q EXCEPT !.pause_command_sent = TRUE, !.is_paused = TRUE]
      BY Zenon, <1>2, <1>7 DEF IsPaused
    <2> QED BY ZenonT(40), <2>1, <1>2, PrChanges
  <1>8. ASSUME Resumes(p) PROVE pr'.is_paused = FALSE /\ pr'.pause_command_sent = FALSE
    <2>1. pr' = [q EXCEPT !.sd_paused = FALSE, !.pause_command_sent = FALSE, !.is_paused = FALSE]
      BY Zenon, <1>2, <1>8 DEF Resumes, Resumed
    <2> QED BY Zenon, <2>1, <1>2, PrChanges
  <1>9. ASSUME Clears(p) PROVE pr'.is_paused = FALSE /\ pr'.pause_command_sent = FALSE
    <2>1. pr' = [q EXCEPT !.is_paused = FALSE, !.pause_command_sent = FALSE]
      BY Zenon, <1>2, <1>9 DEF Clears
    <2> QED BY Zenon, <2>1, <1>2, PrChanges
  <1> QED BY Zenon, <1>4, <1>5, <1>6, <1>7, <1>8, <1>9

\* A command keeps the invariant of the pause.
LEMMA PausingCommand ==
    \A p \in Procs : Typed /\ Pausing /\ Holds(p) /\ Outcome(p) => Pausing'
  \* Who may start a file while the command of p runs.
  <1>StartsKept.
      ASSUME Typed, Pausing, NEW p \in Procs, Holds(p), Outcome(p), NEW x \in Procs
      PROVE  Starts(x)'
    <2> USE <1>StartsKept
    <2>1. holder = p /\ script[p] # << >> /\ holder' = holder /\ queue' = queue BY Zenon DEF Holds
    <2>2. Starts(x) BY Zenon DEF Pausing
    <2>3. SUFFICES ASSUME NEW i \in 1 .. Len(script'[x]),
                          script'[x][i] = <<"SDCARD_PRINT_FILE">>, x # "sd"
                   PROVE  /\ x \in Clients /\ script'[x] = << <<"SDCARD_PRINT_FILE">> >>
                          /\ sd'.phase = "off" /\ ~ pr'.is_paused /\ Ahead(holder', queue', x)
      BY Zenon DEF Starts
    <2>4. CASE x = p
      <3>1. PICK j \in 2 .. Len(script[p]) : script'[p][i] = script[p][j]
        BY Zenon, <2>1, <2>3, <2>4, Appears
      <3>2. j \in 1 .. Len(script[p]) BY Zenon, <2>1, FirstIs
      <3>3. script[p] = << <<"SDCARD_PRINT_FILE">> >> BY Zenon, <3>1, <3>2, <2>2, <2>3, <2>4 DEF Starts
      <3>4. Len(script[p]) = 1 BY <3>3
      <3> QED BY SMTT(60), <3>4, <3>1
    <2>5. CASE x # p
      <3>1. script'[x] = script[x]
        BY Zenon, <2>5, OutcomeKeeps DEF Kept
      <3>2. /\ x \in Clients /\ script[x] = << <<"SDCARD_PRINT_FILE">> >>
            /\ sd.phase = "off" /\ ~ pr.is_paused /\ Ahead(holder, queue, x)
        BY Zenon, <3>1, <2>2, <2>3 DEF Starts
      <3>3. p \in Background BY Zenon, <3>2, <2>1, <2>5 DEF Ahead
      <3>4. Fails(p) \/ Calms(p) BY Zenon, <3>3, <2>1, BackgroundCommand
      <3>5. sd' = sd /\ pr' = pr
        <4>1. CASE Fails(p) BY Zenon, <4>1 DEF Fails
        <4>2. CASE Calms(p) BY Zenon, <4>2, <3>2, FieldsKept DEF Calms
        <4> QED BY Zenon, <4>1, <4>2, <3>4
      <3> QED BY Zenon, <3>1, <3>2, <3>5, <2>1
    <2> QED BY Zenon, <2>4, <2>5
  \* Who may complete a pause while the command of p runs.
  <1>PausesKept.
      ASSUME Typed, Pausing, NEW p \in Procs, Holds(p), Outcome(p), NEW x \in Procs
      PROVE  Pauses(x)'
    <2> USE <1>PausesKept
    <2>1. holder = p /\ script[p] # << >> /\ holder' = holder /\ queue' = queue BY Zenon DEF Holds
    <2>2. Pauses(x) BY Zenon DEF Pausing
    <2>3. SUFFICES ASSUME NEW i \in 1 .. Len(script'[x]), script'[x][i] = <<"PAUSED">>
                   PROVE  /\ x = holder'
                          /\ i = 1 \/ (i = 2 /\ script'[x][1] = <<"WAIT_SD">>)
                          /\ pr'.sd_paused => Halted'
      BY Zenon DEF Pauses
    <2>4. CASE x # p
      <3>1. script'[x] = script[x] BY Zenon, <2>4, OutcomeKeeps DEF Kept
      <3> QED BY Zenon, <3>1, <2>1, <2>2, <2>3, <2>4 DEF Pauses
    <2>5. CASE x = p
      <3>1. CASE PausesNow(p)
        <4>1. PICK more \in Seq(Cmd) : more = << <<"WAIT_SD">>, <<"PAUSED">> >> BY Zenon, Fragments
        <4>2. Goes(p, more) BY Zenon, <3>1, <4>1 DEF PausesNow
        <4>3. Len(more) = 2 /\ more[1] = <<"WAIT_SD">> BY <4>1
        <4>4. CASE i \in 1 .. Len(more) /\ script'[p][i] = more[i]
          <5>1. i = 1 \/ i = 2 BY SMTT(60), <4>3, <4>4
          <5>2. script'[p][1] = more[1]
            <6>1. script'[p] = more \o Tail(script[p]) BY Zenon, <4>2 DEF Goes
            <6>2. 1 \in 1 .. Len(more) BY SMTT(60), <4>3
            <6>3. PICK s \in Seq(Cmd) : s = script[p] BY Zenon, <2>1, FirstIs
            <6>4. s # << >> BY Zenon, <6>3, <2>1
            <6>5. (more \o Tail(s))[1] = more[1] BY ZenonT(40), <6>2, <6>4, Shifted
            <6> QED BY Zenon, <6>1, <6>3, <6>5
          <5> QED BY Zenon, <5>1, <5>2, <4>3, <3>1, <2>1, <2>5, FieldsKept
        <4>5. ASSUME NEW j \in 2 .. Len(script[p]), script'[p][i] = script[p][j] PROVE FALSE
          <5>1. j \in 1 .. Len(script[p]) /\ j # 1 BY Zenon, <2>1, FirstIs
          <5>2. script[p][1] = <<"WAIT_SD">> BY Zenon, <5>1, <4>5, <2>2, <2>3, <2>5 DEF Pauses
          <5>3. script[p][1] = <<"BASE_PAUSE">> BY Zenon, <3>1 DEF PausesNow
          <5> QED BY SMTT(60), <5>2, <5>3
        <4> QED BY ZenonT(40), <4>2, <4>4, <4>5, <2>1, <2>3, <2>5, Places
      <3>2. CASE ~ PausesNow(p)
        <4>1. ~ PausesAgain(p) BY Zenon DEF PausesAgain, Pausing
        <4>2. CASE Op(p) = "WAIT_SD"
          <5>1. Op(p) \in Easy BY Zenon, <4>2 DEF Easy
          <5>2. Fails(p) \/ (Calms(p) /\ Goes(p, << >>)) BY Zenon, <5>1, EasyCommand DEF Pausing
          <5>3. ~ Fails(p)
            <6>1. <<"error">> # <<"PAUSED">> BY SMTT(60)
            <6> QED BY Zenon, <6>1, <2>3, <2>5, ErrorIs DEF Fails
          <5>4. PICK more \in Seq(Cmd) : more = << >> BY Zenon, EmptyCalm
          <5>5. Len(more) = 0 BY <5>4
          <5>6. Goes(p, more) /\ i \notin 1 .. Len(more)
            <6>1. i \notin 1 .. 0 OBVIOUS
            <6> QED BY Zenon, <6>1, <5>2, <5>3, <5>4, <5>5
          <5>7. PICK j \in 2 .. Len(script[p]) : i = Len(more) + (j - 1) /\ script'[p][i] = script[p][j]
            BY Zenon, <5>6, <2>1, <2>3, <2>5, Places
          <5>8. j \in 1 .. Len(script[p]) /\ j # 1 BY Zenon, <2>1, FirstIs
          <5>9. j = 2 /\ (pr.sd_paused => Halted)
            BY Zenon, <5>7, <5>8, <2>2, <2>3, <2>5 DEF Pauses
          <5>10. i = 1 BY SMTT(60), <5>5, <5>7, <5>9
          <5>11. pr' = pr /\ (Halted => Halted') BY Zenon, <5>2, <5>3, FieldsKept DEF Calms
          <5> QED BY Zenon, <5>9, <5>10, <5>11, <2>1, <2>5
        <4>3. CASE Op(p) # "WAIT_SD"
          <5>1. ASSUME NEW j \in 2 .. Len(script[p]), script'[p][i] = script[p][j] PROVE FALSE
            <6>1. j \in 1 .. Len(script[p]) /\ j # 1 BY Zenon, <2>1, FirstIs
            <6>2. script[p][1] = <<"WAIT_SD">> BY Zenon, <6>1, <5>1, <2>2, <2>3, <2>5 DEF Pauses
            <6>3. script[p][1][1] = "WAIT_SD" BY SMTT(60), <6>2
            <6> QED BY Zenon, <6>3, <4>3 DEF Op
          <5>2. ASSUME NEW more \in Seq(Cmd), Goes(p, more),
                       \A k \in 1 .. Len(more) : more[k] # <<"PAUSED">>
                PROVE  FALSE
            BY Zenon, <5>1, <5>2, <2>1, <2>3, <2>5, Places
          <5>3. ASSUME NEW more \in Seq(Calm) PROVE \A k \in 1 .. Len(more) : more[k] # <<"PAUSED">>
            <6>1. \A k \in 1 .. Len(more) : more[k] \in Calm BY SMTT(60)
            <6> QED BY Zenon, <6>1 DEF Calm
          <5>4. \A more \in Seq(Calm) : ~ Goes(p, more) BY Zenon, <5>2, <5>3, CalmIsCmd
          <5>5. ~ Fails(p)
            <6>1. <<"error">> # <<"PAUSED">> BY SMTT(60)
            <6> QED BY Zenon, <6>1, <2>3, <2>5, ErrorIs DEF Fails
          <5>6. ~ Goes(p, PRINT_END)
            <6>1. PRINT_END \in Seq(Cmd) BY Zenon, MacroShapes, NewAre
            <6>2. \A k \in 1 .. Len(PRINT_END) : PRINT_END[k] # <<"PAUSED">>
              BY SMTT(60) DEF PRINT_END, Arm
            <6> QED BY Zenon, <6>1, <6>2, <5>2
          <5>7. ~ Goes(p, CANCEL_PRINT)
            <6>1. CANCEL_PRINT \in Seq(Cmd) BY Zenon, MacroShapes, NewAre
            <6>2. \A k \in 1 .. Len(CANCEL_PRINT) : CANCEL_PRINT[k] # <<"PAUSED">>
              BY SMTT(60) DEF CANCEL_PRINT, Disarm
            <6> QED BY Zenon, <6>1, <6>2, <5>2
          <5>8. ~ Goes(p, PRINT_START) /\ ~ Goes(p, << >>) BY Zenon, <5>4, MacroShapes, EmptyCalm
          <5> QED BY Zenon, <5>4, <5>5, <5>6, <5>7, <5>8, <4>1, <3>2
                  DEF Outcome, Calms, Expands, Updates, IsPaused, Resumes, Clears, Closes, Prints
        <4> QED BY Zenon, <4>2, <4>3
      <3> QED BY Zenon, <3>1, <3>2
    <2> QED BY Zenon, <2>4, <2>5
  <1> SUFFICES ASSUME Typed, Pausing, NEW p \in Procs, Holds(p), Outcome(p)
               PROVE  Pausing'
    BY Zenon
  <1>1. holder = p /\ script[p] # << >> /\ holder' = holder /\ queue' = queue BY Zenon DEF Holds
  <1>2. /\ pr.pause_command_sent = pr.is_paused
        /\ pr.is_paused /\ pr.sd_paused => Halted
    BY Zenon DEF Pausing
  <1>3. \A x \in Procs : Starts(x)' /\ Pauses(x)' BY Zenon, <1>StartsKept, <1>PausesKept
  <1>4. ASSUME NEW b \in Background, NEW i \in 1 .. Len(script'[b]) PROVE script'[b][i] \in Inert
    <2>1. b \in Procs BY Zenon, Processes DEF Background
    <2>2. CASE b = p BY Zenon, <2>1, <2>2, <1>1, <1>4, BackgroundCommand
    <2>3. CASE b # p
      <3>1. script'[b] = script[b] BY Zenon, <2>1, <2>3, OutcomeKeeps DEF Kept
      <3> QED BY Zenon, <3>1, <1>4 DEF Pausing
    <2> QED BY Zenon, <2>2, <2>3
  <1>5. /\ pr'.pause_command_sent = pr'.is_paused
        /\ pr'.is_paused /\ pr'.sd_paused => Halted'
    <2>1. CASE pr' = pr /\ (Halted => Halted') BY Zenon, <2>1, <1>2
    <2>2. CASE sd' = sd /\ pr' = pr
      <3>1. Halted => Halted' BY Zenon, <2>2 DEF Halted
      <3> QED BY Zenon, <3>1, <2>1, <2>2
    <2>3. CASE Fails(p) BY Zenon, <2>2, <2>3 DEF Fails
    <2>4. CASE Calms(p) BY Zenon, <2>1, <2>4, FieldsKept DEF Calms
    <2>5. CASE \E m, more : Expands(p, m, more) BY Zenon, <2>2, <2>5 DEF Expands
    <2>6. CASE Updates(p) BY Zenon, <2>2, <2>6 DEF Updates
    <2>7. CASE PausesAgain(p) BY Zenon, <2>2, <2>7 DEF PausesAgain
    <2>8. CASE PausesNow(p)
      <3>1. ~ pr.is_paused BY Zenon, <2>8 DEF PausesNow
      <3> QED BY Zenon, <3>1, <2>8, <1>2, FieldsKept
    <2>9. CASE IsPaused(p)
      <3>1. 1 \in 1 .. Len(script[p]) /\ script[p][1] = <<"PAUSED">>
        BY Zenon, <2>9, <1>1, FirstIs DEF IsPaused
      <3>2. pr.sd_paused => Halted BY Zenon, <3>1 DEF Pausing, Pauses
      <3>3. Halted => Halted' BY Zenon, <2>9 DEF IsPaused, Halted
      <3> QED BY Zenon, <3>2, <3>3, <2>9, FieldsKept
    <2>10. CASE Resumes(p)
      <3>1. pr'.is_paused = FALSE /\ pr'.pause_command_sent = FALSE BY Zenon, <2>10, FieldsKept
      <3>2. ~ pr'.is_paused BY Zenon, <3>1
      <3> QED BY Zenon, <3>1, <3>2
    <2>11. CASE Clears(p)
      <3>1. pr'.is_paused = FALSE /\ pr'.pause_command_sent = FALSE BY Zenon, <2>11, FieldsKept
      <3>2. ~ pr'.is_paused BY Zenon, <3>1
      <3> QED BY Zenon, <3>1, <3>2
    <2>12. CASE Closes(p) BY Zenon, <2>1, <2>12, FieldsKept DEF Closes
    <2>13. CASE Prints(p)
      <3>1. 1 \in 1 .. Len(script[p]) /\ script[p][1] = <<"SDCARD_PRINT_FILE">> /\ pr' = pr
            /\ sd.phase = "off"
        BY Zenon, <2>13, <1>1, FirstIs DEF Prints, is_active
      <3>2. p # "sd"
        <4>1. ASSUME p = "sd" PROVE FALSE
          <5>1. sd.phase \in {"line", "on_error"} BY Zenon, <4>1, <1>1 DEF Typed, Mutex, Waits
          <5> QED BY SMTT(60), <5>1, <3>1
        <4> QED BY Zenon, <4>1
      <3>3. ~ pr.is_paused BY Zenon, <3>1, <3>2 DEF Pausing, Starts
      <3> QED BY Zenon, <3>1, <3>3, <1>2
    <2> QED BY Zenon, <2>3, <2>4, <2>5, <2>6, <2>7, <2>8, <2>9, <2>10, <2>11, <2>12, <2>13
            DEF Outcome
  <1> QED BY Zenon, <1>3, <1>4, <1>5 DEF Pausing

\* A request is one command, which neither completes a pause nor touches the motors.
LEMMA RequestIs ==
    ASSUME Typed, NEW c \in Clients, Request(c)
    PROVE  /\ c \in Procs /\ c # "sd" /\ c \notin Background /\ ~ Waits(holder, queue, c)
           /\ sd' = sd /\ pr' = pr /\ timer' = timer /\ motors' = motors /\ Free
           /\ \E r \in Requests : \E s \in Seq(Cmd) :
                 /\ Offered(r) /\ run_script(c, s) /\ s = << <<r>> >>
                 /\ \A i \in 1 .. Len(s) : s[i] = <<r>>
                 /\ <<r>> \notin Arming \cup {<<"PAUSED">>, <<"SHELL", FALSE>>}
  <1>1. PICK r \in Requests : Offered(r) /\ run_script(c, << <<r>> >>) BY Zenon DEF Request
  <1>2. /\ req[c] = None /\ sd' = sd /\ pr' = pr /\ timer' = timer /\ motors' = motors /\ Free
    BY Zenon DEF Request, machine
  <1>3. c \in Procs /\ c # "sd" /\ c \notin Background BY Zenon, Processes
  <1>4. ~ Waits(holder, queue, c) BY Zenon, <1>2 DEF Typed, Mutex
  <1>5. r \in Plain /\ r \notin {"PRINT_END", "PAUSED", "SHELL", "UPDATE_DELAYED_GCODE"}
    BY SMTT(60), PrintAssumption DEF Plain, Macros
  <1>6. PICK m \in Cmd : m = <<r>> BY Zenon, <1>5, CommandsAre
  <1>7. <<m>> \in Seq(Cmd) /\ \A i \in 1 .. Len(<<m>>) : <<m>>[i] = m BY SMTT(60)
  <1>8. <<r>> \notin Arming \cup {<<"PAUSED">>, <<"SHELL", FALSE>>}
    <2>1. /\ <<r>>[1] = r /\ <<"PAUSED">>[1] = "PAUSED" /\ <<"SHELL", FALSE>>[1] = "SHELL"
          /\ <<"PRINT_END">>[1] = "PRINT_END" /\ Arm(Motor)[1] = "UPDATE_DELAYED_GCODE"
      BY SMTT(60) DEF Arm
    <2> QED BY Zenon, <2>1, <1>5 DEF Arming
  <1> QED BY Zenon, <1>1, <1>2, <1>3, <1>4, <1>6, <1>7, <1>8

LEMMA InertIs ==
    \A c \in Inert : c # <<"PAUSED">> /\ c # <<"SDCARD_PRINT_FILE">> /\ c \notin Arming
  <1>1. \A c \in Inert : c[1] \in Easy BY Zenon, InertEasy
  <1>2. /\ <<"PAUSED">>[1] = "PAUSED" /\ <<"SDCARD_PRINT_FILE">>[1] = "SDCARD_PRINT_FILE"
        /\ <<"PRINT_END">>[1] = "PRINT_END" /\ Arm(Motor)[1] = "UPDATE_DELAYED_GCODE"
    BY SMTT(60) DEF Arm
  <1>3. /\ "PAUSED" \notin Easy /\ "SDCARD_PRINT_FILE" \notin Easy /\ "PRINT_END" \notin Easy
        /\ "UPDATE_DELAYED_GCODE" \notin Easy
    BY SMTT(60) DEF Easy
  <1> QED BY Zenon, <1>1, <1>2, <1>3 DEF Arming

\* A line of the file, on its own.
LEMMA LineIs ==
    ASSUME Typed, RunLine
    PROVE  /\ \A i \in 1 .. Len(script'["sd"]) : script'["sd"][i] = Lines[sd.pos] /\ i = 1
           /\ Len(script'["sd"]) = 1
           /\ Lines[sd.pos] \in Calm \/ Lines[sd.pos] \in {<<"PRINT_END">>, <<"SDCARD_PRINT_FILE">>}
           /\ \A x \in Procs : x # "sd" => \A i : i \notin 1 .. Len(script'[x])
  <1>1. /\ script'["sd"] = << Lines[sd.pos] >> /\ sd.pos \in 1 .. Len(Lines)
        /\ \A x \in Procs : x # "sd" => script'[x] = << >>
    BY Zenon, LineBegins
  <1>2. PICK l : l = Lines[sd.pos] BY Zenon
  <1>3. Len(<<l>>) = 1 /\ \A i \in 1 .. Len(<<l>>) : <<l>>[i] = l /\ i = 1 BY SMTT(60)
  <1>4. \A i : i \notin 1 .. Len(<< >>) BY SMTT(60)
  <1> QED BY Zenon, <1>1, <1>2, <1>3, <1>4, LinesAre

LEMMA PausingInit == Init => Pausing
  <1> SUFFICES ASSUME Init PROVE Pausing OBVIOUS
  <1>1. Typed BY Zenon, TypedInit
  <1>2. \A p \in Procs : \A i : i \notin 1 .. Len(script[p])
    <2>1. \A i : i \notin 1 .. Len(<< >>) BY SMTT(60)
    <2> QED BY Zenon, <2>1 DEF Init
  <1>3. pr = [is_paused |-> FALSE, sd_paused |-> FALSE, pause_command_sent |-> FALSE]
    BY Zenon DEF Init
  <1>4. pr.is_paused = FALSE /\ pr.pause_command_sent = FALSE BY <1>3
  <1>5. ~ pr.is_paused BY Zenon, <1>4
  <1>6. \A b \in Background : b \in Procs BY Zenon, Processes DEF Background
  <1> QED BY Zenon, <1>2, <1>4, <1>5, <1>6 DEF Pausing, Starts, Pauses

\* Every step keeps the invariant of the pause.
LEMMA PausingStep ==
    Typed /\ Pausing /\ [Next]_vars => Pausing'
  \* The queue ahead of x grows behind it and shrinks from the front.
  <1>AheadJoins.
      ASSUME NEW h, NEW q \in Seq(Procs), NEW x, NEW p \in Procs, Ahead(h, q, x)
      PROVE  Ahead(h, Append(q, p), x)
    <2> USE <1>AheadJoins
    <2> SUFFICES ASSUME h # x
                 PROVE  /\ h \in Background
                        /\ \E k \in 1 .. Len(Append(q, p)) : Append(q, p)[k] = x
                              /\ \A i \in 1 .. k - 1 : Append(q, p)[i] \in Background
      BY Zenon DEF Ahead
    <2>1. PICK k \in 1 .. Len(q) : q[k] = x /\ \A i \in 1 .. k - 1 : q[i] \in Background
      BY Zenon DEF Ahead
    <2>2. /\ Len(Append(q, p)) = Len(q) + 1 /\ Len(q) \in Nat
          /\ \A i \in 1 .. Len(q) : Append(q, p)[i] = q[i]
      BY SMTT(60)
    <2>3. /\ k \in 1 .. Len(Append(q, p)) /\ \A i \in 1 .. k - 1 : i \in 1 .. Len(q)
      BY SMTT(60), <2>2
    <2>4. h \in Background BY Zenon DEF Ahead
    <2> QED BY Zenon, <2>1, <2>2, <2>3, <2>4
  <1>AheadLeaves.
      ASSUME NEW q \in Seq(Procs), q # << >>, NEW r, Len(r) = Len(q) - 1,
             \A i \in 1 .. Len(r) : r[i] = q[i + 1], NEW h, NEW x, h # x, Ahead(h, q, x)
      PROVE  Ahead(q[1], r, x)
    <2> USE <1>AheadLeaves
    <2>1. PICK k \in 1 .. Len(q) : q[k] = x /\ \A i \in 1 .. k - 1 : q[i] \in Background
      BY Zenon DEF Ahead
    <2>2. CASE k = 1 BY Zenon, <2>1, <2>2 DEF Ahead
    <2>3. CASE k # 1
      <3>1. Len(q) \in Nat BY SMTT(60)
      <3>2. /\ k - 1 \in 1 .. Len(r) /\ (k - 1) + 1 = k /\ 1 \in 1 .. k - 1
            /\ \A i \in 1 .. (k - 1) - 1 : i \in 1 .. Len(r) /\ i + 1 \in 1 .. k - 1
        BY SMTT(60), <3>1, <2>3
      <3>3. r[k - 1] = x /\ q[1] \in Background BY Zenon, <3>2, <2>1
      <3>4. \A i \in 1 .. (k - 1) - 1 : r[i] \in Background BY Zenon, <3>2, <2>1
      <3> QED BY Zenon, <3>2, <3>3, <3>4 DEF Ahead
    <2> QED BY Zenon, <2>2, <2>3
  <1>Begins. ASSUME Typed, Pausing, NEW p \in Procs, ~ Waits(holder, queue, p), NEW s \in Seq(Cmd),
                    run_script(p, s), sd' = sd, pr' = pr,
                    \A i \in 1 .. Len(s) : s[i] # <<"PAUSED">>,
                    p \in Background => \A i \in 1 .. Len(s) : s[i] \in Inert,
                    \A i \in 1 .. Len(s) : s[i] = <<"SDCARD_PRINT_FILE">> =>
                       /\ p \in Clients /\ s = << <<"SDCARD_PRINT_FILE">> >>
                       /\ sd.phase = "off" /\ ~ pr.is_paused /\ Ahead(holder', queue', p)
             PROVE  Pausing'
    <2> USE <1>Begins
    <2>1. /\ script'[p] = s
          /\ \A x \in Procs : x # p => script'[x] = script[x]
          /\ \/ holder = None /\ holder' = p /\ queue' = queue
             \/ holder # None /\ holder' = holder /\ queue' = Append(queue, p)
      BY Zenon, Begins
    <2>2. Halted' <=> Halted BY Zenon DEF Halted
    <2>3. queue \in Seq(Procs) BY Zenon DEF Typed, Mutex, QueueOK
    <2>4. ASSUME NEW x \in Procs, x # p, script[x] # << >>
          PROVE  holder' = holder /\ queue' = Append(queue, p)
      <3>1. holder # None BY Zenon, <2>4, Nobody DEF Typed, Mutex
      <3> QED BY Zenon, <3>1, <2>1
    <2>5. ASSUME NEW x \in Procs, NEW i \in 1 .. Len(script[x]) PROVE script[x] # << >>
      <3>1. ASSUME script[x] = << >> PROVE FALSE
        <4>1. Len(script[x]) = 0 BY <3>1
        <4> QED BY SMTT(60), <4>1, <2>5
      <3> QED BY Zenon, <3>1
    <2>6. ASSUME NEW x \in Procs PROVE Starts(x)'
      <3>1. CASE x = p BY Zenon, <3>1, <2>1 DEF Starts
      <3>2. CASE x # p
        <4>1. SUFFICES ASSUME NEW i \in 1 .. Len(script[x]),
                              script[x][i] = <<"SDCARD_PRINT_FILE">>, x # "sd"
                       PROVE  /\ x \in Clients /\ script[x] = << <<"SDCARD_PRINT_FILE">> >>
                              /\ sd.phase = "off" /\ ~ pr.is_paused /\ Ahead(holder', queue', x)
          BY Zenon, <3>2, <2>1 DEF Starts
        <4>2. /\ x \in Clients /\ script[x] = << <<"SDCARD_PRINT_FILE">> >>
              /\ sd.phase = "off" /\ ~ pr.is_paused /\ Ahead(holder, queue, x)
          BY Zenon, <4>1 DEF Pausing, Starts
        <4>3. holder' = holder /\ queue' = Append(queue, p) BY Zenon, <4>1, <3>2, <2>4, <2>5
        <4> QED BY Zenon, <4>2, <4>3, <2>3, <1>AheadJoins
      <3> QED BY Zenon, <3>1, <3>2
    <2>7. ASSUME NEW x \in Procs PROVE Pauses(x)'
      <3>1. CASE x = p BY Zenon, <3>1, <2>1 DEF Pauses
      <3>2. CASE x # p
        <4>1. SUFFICES ASSUME NEW i \in 1 .. Len(script[x]), script[x][i] = <<"PAUSED">>
                       PROVE  /\ x = holder'
                              /\ i = 1 \/ (i = 2 /\ script[x][1] = <<"WAIT_SD">>)
                              /\ pr.sd_paused => Halted
          BY Zenon, <3>2, <2>1, <2>2 DEF Pauses
        <4>2. holder' = holder BY Zenon, <4>1, <3>2, <2>4, <2>5
        <4> QED BY Zenon, <4>1, <4>2 DEF Pausing, Pauses
      <3> QED BY Zenon, <3>1, <3>2
    <2>8. ASSUME NEW b \in Background, NEW i \in 1 .. Len(script'[b]) PROVE script'[b][i] \in Inert
      <3>1. b \in Procs BY Zenon, Processes DEF Background
      <3> QED BY Zenon, <3>1, <2>1, <2>8 DEF Pausing
    <2> QED BY Zenon, <2>2, <2>6, <2>7, <2>8 DEF Pausing
  \* The holder has nothing left to run and lets the mutex go; the print file does
  \* not become more active than it was.
  <1>Ends. ASSUME Typed, Pausing, holder \in Procs, Release(queue), pr' = pr,
                  script' = [script EXCEPT ![holder] = << >>]
                  \/ (script' = script /\ script[holder] = << >>),
                  Halted => Halted', sd.phase = "off" => sd'.phase = "off"
           PROVE  Pausing'
    <2> USE <1>Ends
    <2>1. /\ script'[holder] = << >>
          /\ \A x \in Procs : x # holder => script'[x] = script[x]
          /\ \/ queue = << >> /\ holder' = None /\ queue' = queue
             \/ /\ queue # << >> /\ holder' = queue[1] /\ queue' = Tail(queue)
                /\ \A i \in 1 .. Len(queue') : queue'[i] = queue[i + 1]
                /\ Len(queue') = Len(queue) - 1
      BY Zenon, Ends
    <2>2. queue \in Seq(Procs) BY Zenon DEF Typed, Mutex, QueueOK
    <2>3. \A i : i \notin 1 .. Len(script'[holder])
      <3>1. Len(script'[holder]) = 0 BY <2>1
      <3> QED BY SMTT(60), <3>1
    <2>4. ASSUME NEW x \in Procs PROVE Starts(x)'
      <3>1. CASE x = holder BY Zenon, <3>1, <2>3 DEF Starts
      <3>2. CASE x # holder
        <4>1. SUFFICES ASSUME NEW i \in 1 .. Len(script[x]),
                              script[x][i] = <<"SDCARD_PRINT_FILE">>, x # "sd"
                       PROVE  /\ x \in Clients /\ script[x] = << <<"SDCARD_PRINT_FILE">> >>
                              /\ sd'.phase = "off" /\ ~ pr.is_paused /\ Ahead(holder', queue', x)
          BY Zenon, <3>2, <2>1 DEF Starts
        <4>2. /\ x \in Clients /\ script[x] = << <<"SDCARD_PRINT_FILE">> >>
              /\ sd.phase = "off" /\ ~ pr.is_paused /\ Ahead(holder, queue, x)
          BY Zenon, <4>1 DEF Pausing, Starts
        <4>3. queue # << >>
          <5>1. PICK k \in 1 .. Len(queue) : queue[k] = x BY Zenon, <4>2, <3>2 DEF Ahead
          <5>2. ASSUME queue = << >> PROVE FALSE
            <6>1. Len(queue) = 0 BY <5>2
            <6> QED BY SMTT(60), <6>1, <5>1
          <5> QED BY Zenon, <5>2
        <4>4. Ahead(queue[1], queue', x) BY Zenon, <4>2, <4>3, <3>2, <2>1, <2>2, <1>AheadLeaves
        <4> QED BY Zenon, <4>2, <4>3, <4>4, <2>1
      <3> QED BY Zenon, <3>1, <3>2
    <2>5. ASSUME NEW x \in Procs PROVE Pauses(x)'
      <3>1. CASE x = holder BY Zenon, <3>1, <2>3 DEF Pauses
      <3>2. CASE x # holder
        <4>1. \A i \in 1 .. Len(script[x]) : script[x][i] # <<"PAUSED">>
          BY Zenon, <3>2 DEF Pausing, Pauses
        <4> QED BY Zenon, <4>1, <3>2, <2>1 DEF Pauses
      <3> QED BY Zenon, <3>1, <3>2
    <2>6. ASSUME NEW b \in Background, NEW i \in 1 .. Len(script'[b]) PROVE script'[b][i] \in Inert
      <3>1. b \in Procs /\ b # holder BY Zenon, <2>3, <2>6, Processes DEF Background
      <3> QED BY Zenon, <3>1, <2>1, <2>6 DEF Pausing
    <2>7. pr'.is_paused /\ pr'.sd_paused => Halted' BY Zenon DEF Pausing
    <2> QED BY Zenon, <2>4, <2>5, <2>6, <2>7 DEF Pausing
  <1>Request. ASSUME Typed, Pausing, NEW c \in Clients, Request(c)
              PROVE  Pausing'
    <2> USE <1>Request
    <2>1. /\ c \in Procs /\ c # "sd" /\ c \notin Background /\ ~ Waits(holder, queue, c)
          /\ sd' = sd /\ pr' = pr
      BY Zenon, RequestIs
    <2>2. PICK r \in Requests, s \in Seq(Cmd) :
              /\ Offered(r) /\ run_script(c, s) /\ s = << <<r>> >>
              /\ \A i \in 1 .. Len(s) : s[i] = <<r>>
              /\ <<r>> \notin Arming \cup {<<"PAUSED">>, <<"SHELL", FALSE>>}
      BY Zenon, RequestIs
    <2>3. \A i \in 1 .. Len(s) : s[i] # <<"PAUSED">> BY Zenon, <2>2
    <2>4. ASSUME NEW i \in 1 .. Len(s), s[i] = <<"SDCARD_PRINT_FILE">>
          PROVE  /\ s = << <<"SDCARD_PRINT_FILE">> >>
                 /\ sd.phase = "off" /\ ~ pr.is_paused /\ Ahead(holder', queue', c)
      <3>1. <<r>> = <<"SDCARD_PRINT_FILE">> BY Zenon, <2>2, <2>4
      <3>2. r = "SDCARD_PRINT_FILE"
        <4>1. <<r>>[1] = r /\ <<"SDCARD_PRINT_FILE">>[1] = "SDCARD_PRINT_FILE" OBVIOUS
        <4> QED BY Zenon, <4>1, <3>1
      <3>3. sd.phase = "off" /\ ~ pr.is_paused /\ \A x \in Clients : req[x] = None
        BY Zenon, <3>2, <2>2 DEF Offered, is_active
      <3>4. ASSUME NEW x \in Procs, Waits(holder, queue, x) PROVE x \in Background
        <4>1. x \notin Clients BY Zenon, <3>3, <3>4 DEF Typed, Mutex
        <4>2. x # "sd"
          <5>1. "off" \notin {"line", "on_error"} OBVIOUS
          <5> QED BY Zenon, <5>1, <3>3, <3>4 DEF Typed, Mutex
        <4> QED BY Zenon, <4>1, <4>2 DEF Procs, Background
      <3>5. CASE holder = None
        <4>1. holder' = c BY Zenon, <3>5, <2>2 DEF run_script
        <4> QED BY Zenon, <4>1, <3>1, <3>3, <2>2 DEF Ahead
      <3>6. CASE holder # None
        <4>1. holder' = holder /\ queue' = Append(queue, c) BY Zenon, <3>6, <2>2 DEF run_script
        <4>2. holder \in Procs /\ queue \in Seq(Procs) BY Zenon, <3>6 DEF Typed, Mutex, QueueOK
        <4>3. holder \in Background BY Zenon, <4>2, <3>4 DEF Waits
        <4>4. PICK q \in Seq(Procs) : q = queue BY Zenon, <4>2
        <4>5. /\ Len(q) + 1 \in 1 .. Len(Append(q, c)) /\ Append(q, c)[Len(q) + 1] = c
              /\ \A k \in 1 .. (Len(q) + 1) - 1 :
                    k \in 1 .. Len(q) /\ Append(q, c)[k] = q[k] /\ q[k] \in Procs
          BY SMTT(60), <2>1
        <4>6. \A k \in 1 .. (Len(q) + 1) - 1 : Append(q, c)[k] \in Background
          BY Zenon, <4>4, <4>5, <3>4 DEF Waits
        <4>7. Ahead(holder, Append(q, c), c) BY Zenon, <4>3, <4>5, <4>6 DEF Ahead
        <4> QED BY Zenon, <4>1, <4>4, <4>7, <3>1, <3>3, <2>2
      <3> QED BY Zenon, <3>5, <3>6
    <2> QED BY Zenon, <2>1, <2>2, <2>3, <2>4, <1>Begins
  <1>TimerEvent.
      ASSUME Typed, Pausing, NEW t \in Timers, _gcode_timer_event(t)
      PROVE  Pausing'
    <2> USE <1>TimerEvent
    <2>1. /\ timer[t] = "armed" /\ sd' = sd /\ pr' = pr
          /\ run_script(t, IF t = "cool_hot_end" THEN cool_hot_end ELSE delay_disable_motor)
      BY Zenon DEF _gcode_timer_event
    <2>2. t \in Procs BY Zenon, Processes
    <2>3. ~ Waits(holder, queue, t)
      <3>1. "armed" \notin {"inside", "repeat"} OBVIOUS
      <3> QED BY Zenon, <3>1, <2>1 DEF Typed, Mutex
    <2>4. PICK s \in Seq(Cmd) : run_script(t, s) /\ \A i \in 1 .. Len(s) : s[i] \in Inert
      BY Zenon, <2>1, TimerScripts
    <2>5. \A i \in 1 .. Len(s) : s[i] # <<"PAUSED">> /\ s[i] # <<"SDCARD_PRINT_FILE">>
      BY Zenon, <2>4, InertIs
    <2> QED BY Zenon, <2>1, <2>2, <2>3, <2>4, <2>5, <1>Begins
  <1>Idle. ASSUME Typed, Pausing, transition_idle_state
           PROVE  Pausing'
    <2> USE <1>Idle
    <2>1. /\ holder = None /\ sd' = sd /\ pr' = pr
          /\ run_script("idle", << <<"TURN_OFF_HEATERS">>, <<"M84">> >>)
      BY Zenon DEF transition_idle_state
    <2>2. "idle" \in Procs BY Zenon, Processes
    <2>3. ~ Waits(holder, queue, "idle") BY Zenon, <2>1, <2>2, Nobody
    <2>4. PICK s \in Seq(Cmd) : run_script("idle", s) /\ \A i \in 1 .. Len(s) : s[i] \in Inert
      BY Zenon, <2>1, IdleScript
    <2>5. \A i \in 1 .. Len(s) : s[i] # <<"PAUSED">> /\ s[i] # <<"SDCARD_PRINT_FILE">>
      BY Zenon, <2>4, InertIs
    <2> QED BY Zenon, <2>1, <2>2, <2>3, <2>4, <2>5, <1>Begins
  <1>Replies. ASSUME Typed, Pausing,
                     (\E c \in Clients : Reply(c)) \/ (\E t \in Timers : TimerDone(t)) \/ IdleDone
              PROVE  Pausing'
    <2> USE <1>Replies
    <2>1. PICK p \in Procs : /\ holder = p /\ script' = [script EXCEPT ![p] = << >>]
                             /\ Release(queue) /\ sd' = sd /\ pr' = pr
      BY Zenon, Processes DEF Reply, TimerDone, IdleDone, Over
    <2>2. Halted => Halted' BY Zenon, <2>1 DEF Halted
    <2> QED BY Zenon, <2>1, <2>2, <1>Ends
  <1>LineOver.
      ASSUME Typed, Pausing, LineDone \/ OnErrorDone \/ (LineRaised /\ queue = << >>)
      PROVE  Pausing'
    <2> USE <1>LineOver
    <2>1. /\ holder = "sd" /\ Release(queue) /\ pr' = pr /\ sd.phase # "off"
          /\ \/ script' = [script EXCEPT !["sd"] = << >>]
             \/ script' = script /\ script["sd"] = << >>
      <3>1. /\ holder = "sd" /\ Release(queue) /\ pr' = pr
            /\ \/ script' = [script EXCEPT !["sd"] = << >>]
               \/ script' = script /\ script["sd"] = << >>
        BY Zenon DEF LineDone, OnErrorDone, LineRaised
      <3>2. sd.phase \in {"line", "on_error"} BY Zenon, <3>1 DEF Typed, Mutex, Waits
      <3>3. "off" \notin {"line", "on_error"} OBVIOUS
      <3> QED BY Zenon, <3>1, <3>2, <3>3
    <2>2. "sd" \in Procs BY Zenon, Processes
    <2>3. Halted => Halted'
      <3>1. CASE LineDone
        <4>1. /\ sd'.must_pause_work = sd.must_pause_work
              /\ sd'.phase = IF sd.must_pause_work THEN "off" ELSE "loop"
          BY Zenon, <3>1, LineDoneIs
        <4> QED BY Zenon, <4>1, <2>1 DEF Halted
      <3>2. CASE OnErrorDone \/ (LineRaised /\ queue = << >>)
        <4>1. sd' = Exited BY Zenon, <3>2 DEF OnErrorDone, LineRaised
        <4>2. sd'.phase = "off" BY Zenon, <4>1, Before, ExitedIs DEF Exited
        <4> QED BY Zenon, <4>2 DEF Halted
      <3> QED BY Zenon, <3>1, <3>2
    <2> QED BY Zenon, <2>1, <2>2, <2>3, <1>Ends
  <1>LineRaised.
      ASSUME Typed, Pausing, LineRaised, queue # << >>
      PROVE  Pausing'
    <2> USE <1>LineRaised
    <2>1. /\ script'["sd"] = << >> /\ sd'.must_pause_work = sd.must_pause_work
          /\ \A x \in Procs : x # "sd" => script'[x] = script[x]
      BY Zenon, Waiting
    <2>2. holder = "sd" /\ pr' = pr BY Zenon DEF LineRaised
    <2>3. sd.phase # "off"
      <3>1. sd.phase \in {"line", "on_error"} BY Zenon, <2>2 DEF Typed, Mutex, Waits
      <3>2. "off" \notin {"line", "on_error"} OBVIOUS
      <3> QED BY Zenon, <3>1, <3>2
    <2>4. Halted => Halted' BY Zenon, <2>1, <2>3 DEF Halted
    <2>5. \A i : i \notin 1 .. Len(script'["sd"])
      <3>1. Len(script'["sd"]) = 0 BY <2>1
      <3> QED BY SMTT(60), <3>1
    <2>6. ASSUME NEW x \in Procs PROVE Starts(x)' /\ Pauses(x)'
      <3>1. CASE x = "sd" BY Zenon, <3>1, <2>5 DEF Starts, Pauses
      <3>2. CASE x # "sd"
        <4>1. Starts(x) /\ Pauses(x) BY Zenon DEF Pausing
        <4>2. \A i \in 1 .. Len(script[x]) : script[x][i] # <<"SDCARD_PRINT_FILE">>
          BY Zenon, <4>1, <3>2, <2>3 DEF Starts
        <4>3. \A i \in 1 .. Len(script[x]) : script[x][i] # <<"PAUSED">>
          BY Zenon, <4>1, <3>2, <2>2 DEF Pauses
        <4> QED BY Zenon, <4>2, <4>3, <3>2, <2>1 DEF Starts, Pauses
      <3> QED BY Zenon, <3>1, <3>2
    <2>7. ASSUME NEW b \in Background, NEW i \in 1 .. Len(script'[b]) PROVE script'[b][i] \in Inert
      <3>1. b \in Procs /\ b # "sd" BY Zenon, Processes DEF Background
      <3> QED BY Zenon, <3>1, <2>1, <2>7 DEF Pausing
    <2> QED BY Zenon, <2>2, <2>4, <2>6, <2>7 DEF Pausing
  \* work_handler moves on without the mutex.
  <1>Phase. ASSUME Typed, Pausing, pr' = pr, script' = script, holder' = holder, queue' = queue,
                   Halted => Halted', sd.phase # "off" \/ sd' = sd
            PROVE  Pausing'
    <2> USE <1>Phase
    <2>1. ASSUME NEW x \in Procs PROVE Starts(x)' /\ Pauses(x)'
      <3>1. Starts(x) /\ Pauses(x) BY Zenon DEF Pausing
      <3>2. Starts(x)' BY Zenon, <3>1 DEF Starts
      <3>3. Pauses(x)' BY Zenon, <3>1 DEF Pauses
      <3> QED BY Zenon, <3>2, <3>3
    <2> QED BY Zenon, <2>1 DEF Pausing
  <1>Work. ASSUME Typed, Pausing, work_handler
           PROVE  Pausing'
    <2> USE <1>Work
    <2>1. /\ holder' = holder /\ queue' = queue /\ script' = script /\ pr' = pr
          /\ sd.phase = "start"
          /\ sd' = [sd EXCEPT !.phase = IF sd.file THEN "loop" ELSE "off"]
      BY Zenon DEF work_handler, mutex
    <2>2. PICK f \in {"off", "start", "loop", "line", "on_error"} : sd' = [sd EXCEPT !.phase = f]
      BY Zenon, <2>1
    <2>3. sd'.must_pause_work = sd.must_pause_work BY Zenon, <2>2, Before, SdPhase
    <2>4. sd.phase # "off"
      <3>1. "start" # "off" OBVIOUS
      <3> QED BY Zenon, <3>1, <2>1
    <2>5. Halted => Halted' BY Zenon, <2>3, <2>4 DEF Halted
    <2> QED BY Zenon, <2>1, <2>4, <2>5, <1>Phase
  <1>NextLine.
      ASSUME Typed, Pausing, NextLine
      PROVE  Pausing'
    <2> USE <1>NextLine
    <2>1. pr' = pr /\ sd.phase = "loop" BY Zenon, NextLineIs DEF Quiet
    <2>2. sd.phase # "off"
      <3>1. "loop" # "off" OBVIOUS
      <3> QED BY Zenon, <3>1, <2>1
    <2>3. CASE Exits
      <3>1. sd'.phase = "off" BY Zenon, <2>3, Before, ExitedIs DEF Exits, Exited
      <3>2. Halted' BY Zenon, <3>1 DEF Halted
      <3> QED BY Zenon, <3>2, <2>1, <2>2, <2>3, <1>Phase DEF Exits
    <2>4. CASE RunLine
      <3>1. ~ Halted BY Zenon, <2>2, <2>4 DEF RunLine, Halted
      <3>2. /\ \A i \in 1 .. Len(script'["sd"]) : script'["sd"][i] = Lines[sd.pos]
            /\ Lines[sd.pos] \in Calm \/ Lines[sd.pos] \in {<<"PRINT_END">>, <<"SDCARD_PRINT_FILE">>}
            /\ \A x \in Procs : x # "sd" => \A i : i \notin 1 .. Len(script'[x])
        BY Zenon, <2>4, LineIs
      <3>3. Lines[sd.pos] # <<"PAUSED">>
        <4>1. <<"PRINT_END">> # <<"PAUSED">> /\ <<"SDCARD_PRINT_FILE">> # <<"PAUSED">> BY SMTT(60)
        <4> QED BY Zenon, <4>1, <3>2 DEF Calm
      <3>4. \A x \in Procs : Starts(x)' BY Zenon, <3>2 DEF Starts
      <3>5. \A x \in Procs : Pauses(x)' BY Zenon, <3>2, <3>3 DEF Pauses
      <3>6. \A b \in Background : b \in Procs /\ b # "sd" BY Zenon, Processes DEF Background
      <3>7. \A b \in Background : \A i \in 1 .. Len(script'[b]) : script'[b][i] \in Inert
        BY Zenon, <3>2, <3>6
      <3> QED BY Zenon, <3>1, <3>4, <3>5, <3>7, <2>1 DEF Pausing
    <2> QED BY Zenon, <2>3, <2>4, NextLineIs
  <1> SUFFICES ASSUME Typed, Pausing, [Next]_vars
               PROVE  Pausing'
    OBVIOUS
  <1>1. CASE \E p \in Procs : Command(p) BY Zenon, <1>1, Commands, PausingCommand DEF Result
  <1>2. CASE \E c \in Clients : Request(c) BY Zenon, <1>2, <1>Request
  <1>3. CASE (\E c \in Clients : Reply(c)) \/ (\E t \in Timers : TimerDone(t)) \/ IdleDone
    BY Zenon, <1>3, <1>Replies
  <1>4. CASE \E t \in Timers : _gcode_timer_event(t) BY Zenon, <1>4, <1>TimerEvent
  <1>5. CASE transition_idle_state BY Zenon, <1>5, <1>Idle
  <1>6. CASE LineDone \/ LineRaised \/ OnErrorDone
    BY Zenon, <1>6, <1>LineOver, <1>LineRaised
  <1>7. CASE work_handler \/ NextLine BY Zenon, <1>7, <1>Work, <1>NextLine
  <1>8. CASE timeout_handler \/ UNCHANGED vars
    <2>1. pr' = pr /\ sd' = sd /\ script' = script /\ holder' = holder /\ queue' = queue
      BY Zenon, <1>8 DEF timeout_handler, vars, mutex
    <2>2. Halted => Halted' BY Zenon, <2>1 DEF Halted
    <2> QED BY Zenon, <2>1, <2>2, <1>Phase
  <1> QED BY Zenon, <1>1, <1>2, <1>3, <1>4, <1>5, <1>6, <1>7, <1>8, Steps

\* Only RunLine starts a line, and not when work_handler is to stop.
LEMMA PauseStep ==
    ASSUME Typed, Pausing, [Next]_vars, sd.phase # "line", sd'.phase = "line"
    PROVE  ~ (pr.is_paused /\ pr.sd_paused)
  <1>1. /\ "start" # "line" /\ "off" # "line" /\ "loop" # "line" /\ "on_error" # "line"
        /\ "loop" # "off"
    OBVIOUS
  <1>2. sd' # sd BY Zenon
  <1>3. CASE \E p \in Procs : Command(p)
    <2>1. PICK p \in Procs : Outcome(p) BY Zenon, <1>3, Commands DEF Result
    <2>2. sd'.phase = sd.phase \/ sd'.phase = "start" BY Zenon, <2>1, OutcomeKeeps DEF Kept
    <2> QED BY Zenon, <2>2, <1>1
  <1>4. CASE LineDone
    <2>1. sd'.phase \in {"off", "loop"} BY Zenon, <1>4, LineDoneIs
    <2> QED BY Zenon, <2>1, <1>1
  <1>5. CASE LineRaised \/ OnErrorDone
    <2>1. sd' = Exited \/ sd' = [sd EXCEPT !.phase = "on_error"]
      BY Zenon, <1>5 DEF LineRaised, OnErrorDone
    <2>2. sd'.phase = "off" \/ sd'.phase = "on_error" BY Zenon, <2>1, Before, SdPhase DEF Exited
    <2> QED BY Zenon, <2>2, <1>1
  <1>6. CASE work_handler
    <2>1. PICK f \in {"loop", "off"} : sd' = [sd EXCEPT !.phase = f]
      BY Zenon, <1>6 DEF work_handler
    <2>2. f \in {"off", "start", "loop", "line", "on_error"} BY Zenon, <2>1
    <2>3. sd'.phase = f BY Zenon, <2>1, <2>2, Before, SdPhase
    <2> QED BY Zenon, <2>1, <2>3, <1>1
  <1>7. CASE NextLine
    <2>1. sd.phase = "loop" BY Zenon, <1>7, NextLineIs
    <2>2. CASE Exits
      <3>1. sd'.phase = "off" BY Zenon, <2>2, Before, ExitedIs DEF Exits, Exited
      <3> QED BY Zenon, <3>1, <1>1
    <2>3. CASE RunLine
      <3>1. ~ Halted BY Zenon, <2>1, <2>3, <1>1 DEF RunLine, Halted
      <3> QED BY Zenon, <3>1 DEF Pausing
    <2> QED BY Zenon, <2>2, <2>3, <1>7, NextLineIs
  <1>8. CASE \/ \E c \in Clients : Reply(c) \/ Request(c)
             \/ \E t \in Timers : TimerDone(t) \/ _gcode_timer_event(t)
             \/ IdleDone \/ timeout_handler \/ transition_idle_state \/ UNCHANGED vars
    BY Zenon, <1>2, <1>8 DEF Reply, Request, TimerDone, _gcode_timer_event, IdleDone,
                             timeout_handler, transition_idle_state, vars
  <1> QED BY Zenon, <1>3, <1>4, <1>5, <1>6, <1>7, <1>8, Steps

\* A print stopped by PAUSE starts no line before RESUME, for any set of clients, any
\* file and any failing commands: the second conjunct of Pausing says that work_handler
\* has been told to stop, and NextLine tests that before it takes a line.
THEOREM PausedPrintWaits == Spec => PauseHolds
  <1>1. Init => Typed /\ Pausing BY TypedInit, PausingInit
  <1>2. Typed /\ Pausing /\ [Next]_vars => (Typed /\ Pausing)' BY TypedStep, PausingStep
  <1>3. Typed /\ Pausing /\ [Next]_vars =>
          [sd.phase # "line" /\ sd'.phase = "line" => ~(pr.is_paused /\ pr.sd_paused)]_vars
    BY Zenon, PauseStep
  <1> QED BY <1>1, <1>2, <1>3, PTL DEF Spec, PauseHolds

-----------------------------------------------------------------------------
(* The motors stay on. *)

\* What a command that does not raise puts in front of the rest, and what it leaves of
\* the file.
Puts(p, more) ==
    /\ Goes(p, more)
    /\ \/ \A k \in 1 .. Len(more) : more[k] \notin Arming
       \/ script[p][1] = <<"PRINT_END">> /\ more = PRINT_END
       \/ script[p][1] = <<"CANCEL_PRINT">> /\ more = CANCEL_PRINT
    /\ Op(p) \in Easy => more = << >>
    /\ Op(p) = "SDCARD_RESET_FILE" => more = << <<"WAIT_SD">>, <<"CLOSE_FILE">> >> /\ ~ cmd_from_sd
    /\ Op(p) = "CLOSE_FILE" => sd'.file = FALSE
    /\ Op(p) = "SDCARD_PRINT_FILE" \/ (sd'.file => sd.file)
    /\ Op(p) \in {"CLOSE_FILE", "SDCARD_PRINT_FILE"} \/ sd'.pos = sd.pos

LEMMA Kinds ==
    /\ \A x \in Plain : <<x>>[1] = x
    /\ {"PRINT_START", "PRINT_END", "CANCEL_PRINT", "BASE_PAUSE", "PAUSED", "RESUMED",
        "CLEAR_PAUSE", "CLOSE_FILE", "SDCARD_PRINT_FILE", "SDCARD_RESET_FILE"} \subseteq Plain
    /\ {"PRINT_START", "PRINT_END", "CANCEL_PRINT", "BASE_PAUSE", "PAUSED", "RESUMED",
        "CLEAR_PAUSE", "CLOSE_FILE", "SDCARD_PRINT_FILE", "SDCARD_RESET_FILE",
        "UPDATE_DELAYED_GCODE"} \cap Easy = {}
    /\ {"PRINT_START", "PRINT_END", "CANCEL_PRINT", "BASE_PAUSE", "PAUSED", "RESUMED",
        "CLEAR_PAUSE", "UPDATE_DELAYED_GCODE"}
          \cap {"CLOSE_FILE", "SDCARD_PRINT_FILE", "SDCARD_RESET_FILE"} = {}
    /\ "CLOSE_FILE" # "SDCARD_RESET_FILE" /\ "SDCARD_PRINT_FILE" # "SDCARD_RESET_FILE"
    /\ "CLOSE_FILE" # "SDCARD_PRINT_FILE"
  <1>1. \A x \in Plain : <<x>>[1] = x OBVIOUS
  <1>2. {"PRINT_START", "PRINT_END", "CANCEL_PRINT", "BASE_PAUSE", "PAUSED", "RESUMED",
         "CLEAR_PAUSE", "CLOSE_FILE", "SDCARD_PRINT_FILE", "SDCARD_RESET_FILE"} \subseteq Plain
    BY SMTT(60) DEF Plain, Macros
  <1>3. {"PRINT_START", "PRINT_END", "CANCEL_PRINT", "BASE_PAUSE", "PAUSED", "RESUMED",
         "CLEAR_PAUSE", "CLOSE_FILE", "SDCARD_PRINT_FILE", "SDCARD_RESET_FILE",
         "UPDATE_DELAYED_GCODE"} \cap Easy = {}
    BY SMTT(60) DEF Easy
  <1>4. {"PRINT_START", "PRINT_END", "CANCEL_PRINT", "BASE_PAUSE", "PAUSED", "RESUMED",
         "CLEAR_PAUSE", "UPDATE_DELAYED_GCODE"}
           \cap {"CLOSE_FILE", "SDCARD_PRINT_FILE", "SDCARD_RESET_FILE"} = {}
    BY SMTT(60)
  <1>5. /\ "CLOSE_FILE" # "SDCARD_RESET_FILE" /\ "SDCARD_PRINT_FILE" # "SDCARD_RESET_FILE"
        /\ "CLOSE_FILE" # "SDCARD_PRINT_FILE"
    OBVIOUS
  <1> QED BY Zenon, <1>1, <1>2, <1>3, <1>4, <1>5

\* A command that does not raise puts something in front of the rest.
LEMMA OutcomePuts ==
    \A p \in Procs : Typed /\ Pausing /\ Holds(p) /\ Outcome(p) /\ ~ Fails(p) =>
        \E more \in Seq(Cmd) : Puts(p, more)
  <1>CalmPuts.
      ASSUME NEW more \in Seq(Calm)
      PROVE  \A k \in 1 .. Len(more) : more[k] \notin Arming
    <2> USE <1>CalmPuts
    <2>1. \A k \in 1 .. Len(more) : more[k] \in Calm BY SMTT(60)
    <2> QED BY Zenon, <2>1 DEF Calm
  \* A command with a plain name of its own, none of the three that are about the file.
  <1>PutsPlain.
      ASSUME NEW p \in Procs, NEW more \in Seq(Cmd), Goes(p, more),
             Op(p) \in {"PRINT_START", "PRINT_END", "CANCEL_PRINT", "BASE_PAUSE", "PAUSED",
                        "RESUMED", "CLEAR_PAUSE", "UPDATE_DELAYED_GCODE"},
             \/ \A k \in 1 .. Len(more) : more[k] \notin Arming
             \/ script[p][1] = <<"PRINT_END">> /\ more = PRINT_END
             \/ script[p][1] = <<"CANCEL_PRINT">> /\ more = CANCEL_PRINT,
             sd'.file = sd.file, sd'.pos = sd.pos
      PROVE  Puts(p, more)
    <2> USE <1>PutsPlain
    <2>1. Op(p) \notin Easy /\ Op(p) # "CLOSE_FILE" /\ Op(p) # "SDCARD_PRINT_FILE"
          /\ Op(p) # "SDCARD_RESET_FILE"
      BY Zenon, Kinds
    <2> QED BY Zenon, <2>1 DEF Puts
  <1> SUFFICES ASSUME Typed, Pausing, NEW p \in Procs, Holds(p), Outcome(p), ~ Fails(p)
               PROVE  \E more \in Seq(Cmd) : Puts(p, more)
    BY Zenon
  <1>1. sd \in SdType BY Zenon, Before
  <1>2. \A k \in 1 .. Len(<< >>) : FALSE BY SMTT(60)
  <1>3. << >> \in Seq(Cmd) BY Zenon, EmptyCalm
  <1>4. ASSUME NEW x \in Plain, script[p][1] = <<x>> PROVE Op(p) = x
    BY Zenon, <1>4, Kinds DEF Op
  <1>5. CASE Calms(p)
    <2>1. PICK more \in Seq(Calm) :
            /\ Goes(p, more)
            /\ Op(p) = "SDCARD_RESET_FILE" =>
                  more = << <<"WAIT_SD">>, <<"CLOSE_FILE">> >> /\ ~ cmd_from_sd
            /\ Op(p) \in Macros \cup Longer \/ more = << >>
      BY Zenon, <1>5 DEF Calms
    <2>2. more \in Seq(Cmd) BY Zenon, CalmIsCmd
    <2>3. \A k \in 1 .. Len(more) : more[k] \notin Arming BY Zenon, <1>CalmPuts
    <2>4. Op(p) \in Easy => Op(p) \notin Macros \cup Longer BY SMTT(60) DEF Easy, Macros, Longer
    <2>5. sd'.file = sd.file /\ sd'.pos = sd.pos
      <3>1. sd' = sd \/ sd' = [sd EXCEPT !.must_pause_work = TRUE] BY Zenon, <1>5 DEF Calms
      <3>2. /\ [sd EXCEPT !.must_pause_work = TRUE].file = sd.file
            /\ [sd EXCEPT !.must_pause_work = TRUE].pos = sd.pos
        BY Zenon, <1>1, SdMustPause
      <3> QED BY Zenon, <3>1, <3>2
    <2>6. Op(p) # "CLOSE_FILE" BY Zenon, <1>5 DEF Calms
    <2>7. Puts(p, more) BY Zenon, <2>1, <2>3, <2>4, <2>5, <2>6 DEF Puts
    <2> QED BY Zenon, <2>2, <2>7
  <1>6. CASE \/ Expands(p, "PRINT_START", PRINT_START) \/ Expands(p, "PRINT_END", PRINT_END)
             \/ Expands(p, "CANCEL_PRINT", CANCEL_PRINT)
    <2>1. sd' = sd BY Zenon, <1>6 DEF Expands
    <2>2. CASE Expands(p, "PRINT_START", PRINT_START)
      <3>1. Op(p) = "PRINT_START" BY Zenon, <2>2, <1>4, Kinds DEF Expands
      <3>2. PRINT_START \in Seq(Cmd) BY Zenon, MacroShapes, CalmIsCmd
      <3>3. \A k \in 1 .. Len(PRINT_START) : PRINT_START[k] \notin Arming
        BY Zenon, MacroShapes, <1>CalmPuts
      <3> QED BY Zenon, <3>1, <3>2, <3>3, <2>1, <2>2, <1>PutsPlain DEF Expands
    <2>3. CASE Expands(p, "PRINT_END", PRINT_END)
      <3>1. Op(p) = "PRINT_END" BY Zenon, <2>3, <1>4, Kinds DEF Expands
      <3>2. PRINT_END \in Seq(Cmd) BY Zenon, MacroShapes, NewAre
      <3> QED BY Zenon, <3>1, <3>2, <2>1, <2>3, <1>PutsPlain DEF Expands
    <2>4. CASE Expands(p, "CANCEL_PRINT", CANCEL_PRINT)
      <3>1. Op(p) = "CANCEL_PRINT" BY Zenon, <2>4, <1>4, Kinds DEF Expands
      <3>2. CANCEL_PRINT \in Seq(Cmd) BY Zenon, MacroShapes, NewAre
      <3> QED BY Zenon, <3>1, <3>2, <2>1, <2>4, <1>PutsPlain DEF Expands
    <2> QED BY Zenon, <2>2, <2>3, <2>4, <1>6
  <1>7. CASE Updates(p)
    <2>1. PICK t, b : script[p][1] = <<"UPDATE_DELAYED_GCODE", t, b>> BY Zenon, <1>7 DEF Updates
    <2>2. <<"UPDATE_DELAYED_GCODE", t, b>>[1] = "UPDATE_DELAYED_GCODE" OBVIOUS
    <2>3. Op(p) = "UPDATE_DELAYED_GCODE" BY Zenon, <2>1, <2>2 DEF Op
    <2> QED BY Zenon, <2>3, <1>2, <1>3, <1>7, <1>PutsPlain DEF Updates
  <1>8. CASE PausesAgain(p) BY Zenon, <1>8 DEF PausesAgain, Pausing
  <1>9. CASE PausesNow(p)
    <2>1. Op(p) = "BASE_PAUSE" BY Zenon, <1>9, <1>4, Kinds DEF PausesNow
    <2>2. sd'.file = sd.file /\ sd'.pos = sd.pos
      BY Zenon, <1>1, <1>9, SdMustPause DEF PausesNow
    <2>3. PICK more \in Seq(Cmd) : more = << <<"WAIT_SD">>, <<"PAUSED">> >> BY Zenon, Fragments
    <2>4. \A k \in 1 .. Len(more) : more[k] \notin Arming
      <3>1. \A k \in 1 .. Len(more) : more[k] \in {<<"WAIT_SD">>, <<"PAUSED">>} BY SMTT(60), <2>3
      <3>2. <<"WAIT_SD">> \notin Arming /\ <<"PAUSED">> \notin Arming BY SMTT(60) DEF Arming, Arm
      <3> QED BY Zenon, <3>1, <3>2
    <2> QED BY Zenon, <2>1, <2>2, <2>3, <2>4, <1>9, <1>PutsPlain DEF PausesNow
  <1>10. CASE IsPaused(p)
    <2>1. Op(p) = "PAUSED" BY Zenon, <1>10, <1>4, Kinds DEF IsPaused
    <2> QED BY Zenon, <2>1, <1>2, <1>3, <1>10, <1>PutsPlain DEF IsPaused
  <1>11. CASE Resumes(p)
    <2>1. Op(p) = "RESUMED" BY Zenon, <1>11, <1>4, Kinds DEF Resumes
    <2>2. sd'.file = sd.file /\ sd'.pos = sd.pos
      <3>1. Resuming.file = sd.file /\ Resuming.pos = sd.pos BY Zenon, <1>1, SdChanges DEF Resuming
      <3> QED BY Zenon, <3>1, <1>11 DEF Resumes
    <2> QED BY Zenon, <2>1, <2>2, <1>2, <1>3, <1>11, <1>PutsPlain DEF Resumes
  <1>12. CASE Clears(p)
    <2>1. Op(p) = "CLEAR_PAUSE" BY Zenon, <1>12, <1>4, Kinds DEF Clears
    <2> QED BY Zenon, <2>1, <1>2, <1>3, <1>12, <1>PutsPlain DEF Clears
  <1>13. CASE Closes(p)
    <2>1. Op(p) = "CLOSE_FILE" BY Zenon, <1>13, <1>4, Kinds DEF Closes
    <2>2. sd'.file = FALSE BY Zenon, <1>1, <1>13, SdChanges DEF Closes
    <2>3. sd'.file => sd.file BY Zenon, <2>2
    <2> QED BY Zenon, <2>1, <2>2, <2>3, <1>2, <1>3, <1>13, Kinds DEF Closes, Puts
  <1>14. CASE Prints(p)
    <2>1. Op(p) = "SDCARD_PRINT_FILE" BY Zenon, <1>14, <1>4, Kinds DEF Prints
    <2> QED BY Zenon, <2>1, <1>2, <1>3, <1>14, Kinds DEF Prints, Puts
  <1> QED BY Zenon, <1>5, <1>6, <1>7, <1>8, <1>9, <1>10, <1>11, <1>12, <1>13, <1>14 DEF Outcome

-----------------------------------------------------------------------------
(* The motor timer. *)

\* Line l is among the first n - 1 lines.
Past(n, l) == \E i \in 1 .. (n - 1) : Lines[i] = <<l>>

LEMMA BegunIs ==
    /\ Begun <=> sd.file /\ Past(sd.pos, "PRINT_START") /\ ~ Past(sd.pos, "PRINT_END")
    /\ Begun' <=> sd'.file /\ Past(sd'.pos, "PRINT_START") /\ ~ Past(sd'.pos, "PRINT_END")
  BY Zenon DEF Begun, Past

\* Arm(Motor) is the last command of PRINT_END, and CANCEL_PRINT resets the file first.
LEMMA EndShape ==
    /\ Len(PRINT_END) \in Nat
    /\ \A k \in 1 .. Len(PRINT_END) : PRINT_END[k] \in Arming => k = Len(PRINT_END)
    /\ \A k \in 1 .. Len(PRINT_END) - 1 : PRINT_END[k][1] \in {"M104", "M140", "G1"}
    /\ Len(CANCEL_PRINT) = 5 /\ CANCEL_PRINT[3] = <<"SDCARD_RESET_FILE">>
    /\ \A k \in 1 .. Len(CANCEL_PRINT) : CANCEL_PRINT[k] \in Arming => k = 4
  <1>1. /\ Len(CANCEL_PRINT) = 5 /\ CANCEL_PRINT[3] = <<"SDCARD_RESET_FILE">>
        /\ CANCEL_PRINT[1] = Disarm("cool_hot_end") /\ CANCEL_PRINT[2] = <<"CLEAR_PAUSE">>
        /\ CANCEL_PRINT[5] = <<"BASE_CANCEL_PRINT">>
    BY SMTT(60) DEF CANCEL_PRINT
  <1>2. ASSUME NEW k \in 1 .. 5, CANCEL_PRINT[k] \in Arming PROVE k = 4
    <2>1. k \in {1, 2, 3, 4, 5} OBVIOUS
    <2>2. "cool_hot_end" \in Timers
          /\ {"CLEAR_PAUSE", "SDCARD_RESET_FILE", "BASE_CANCEL_PRINT"}
                \subseteq Plain \ {"PRINT_END", "PAUSED", "SDCARD_PRINT_FILE"}
      BY SMTT(60) DEF Plain, Timers
    <2>3. /\ Disarm("cool_hot_end") \in Calm /\ <<"CLEAR_PAUSE">> \in Calm
          /\ <<"SDCARD_RESET_FILE">> \in Calm /\ <<"BASE_CANCEL_PRINT">> \in Calm
      BY Zenon, <2>2, CalmAre
    <2> QED BY Zenon, <2>1, <2>3, <1>1, <1>2 DEF Calm
  <1> DEFINE Warm == {c \in Cmd : c[1] \in {"M104", "M140", "G1"}}
  <1>3. \A c \in Warm : c \notin Arming
    <2>1. \A c \in Arming : c[1] \in {"UPDATE_DELAYED_GCODE", "PRINT_END"}
      <3>1. Arm(Motor)[1] = "UPDATE_DELAYED_GCODE" /\ <<"PRINT_END">>[1] = "PRINT_END"
        BY SMTT(60) DEF Arm
      <3> QED BY Zenon, <3>1 DEF Arming
    <2>2. {"UPDATE_DELAYED_GCODE", "PRINT_END"} \cap {"M104", "M140", "G1"} = {} BY SMTT(60)
    <2> QED BY Zenon, <2>1, <2>2
  <1>4. PICK v \in Seq(Warm) : PRINT_END = v \o << Arm(Motor) >>
    <2>1. <<"M104", Off>> \in Warm /\ <<"M140", Off>> \in Warm /\ <<"G1">> \in Warm
      <3>1. <<"M104", Off>>[1] = "M104" /\ <<"M140", Off>>[1] = "M140" /\ <<"G1">>[1] = "G1"
        OBVIOUS
      <3>2. Off \in Temps /\ "G1" \in Plain BY SMTT(60) DEF Temps, Plain
      <3>3. <<"M104", Off>> \in Cmd /\ <<"M140", Off>> \in Cmd /\ <<"G1">> \in Cmd
        BY Zenon, <3>2, CommandsAre
      <3> QED BY Zenon, <3>1, <3>3
    <2>2. \A S : \A a, b \in S : <<a>> \in Seq(S) /\ <<a, b>> \in Seq(S) OBVIOUS
    <2> HIDE DEF Warm
    <2>3. << <<"M104", Off>>, <<"M140", Off>> >> \in Seq(Warm) /\ << <<"G1">> >> \in Seq(Warm)
          /\ << >> \in Seq(Warm)
      BY Zenon, <2>1, <2>2, EmptySeq
    <2> QED BY Zenon, <2>3, ConcatProperties DEF PRINT_END, Motor
  <1>5. PICK m \in Nat : m = Len(v) BY Zenon, LenProperties
  <1>6. Len(PRINT_END) = m + 1 /\ \A k \in 1 .. m : PRINT_END[k] \in Warm
    <2> HIDE DEF Warm
    <2>1. PICK a : a = Arm(Motor) OBVIOUS
    <2>2. Len(v \o <<a>>) = m + 1 /\ \A k \in 1 .. m : (v \o <<a>>)[k] \in Warm BY <1>5
    <2> QED BY Zenon, <2>1, <2>2, <1>4
  <1>7. m + 1 \in Nat /\ (m + 1) - 1 = m /\ \A k \in 1 .. m + 1 : k \in 1 .. m \/ k = m + 1
    BY SMTT(60), <1>5
  <1> QED BY Zenon, <1>1, <1>2, <1>3, <1>6, <1>7

\* A command leaves the file and its position alone, closes the file, or starts a print.
LEMMA FileKept ==
    ASSUME Typed, NEW p \in Procs, Outcome(p)
    PROVE  \/ sd'.file = sd.file /\ sd'.pos = sd.pos
           \/ sd'.file = FALSE
           \/ sd'.pos = 1 /\ sd.phase = "off"
  <1>1. sd \in SdType /\ TRUE \in BOOLEAN /\ FALSE \in BOOLEAN BY Zenon, Before
  <1>2. PICK r \in SdType : r = [sd EXCEPT !.must_pause_work = FALSE, !.phase = "start"]
                             /\ r.file = sd.file /\ r.pos = sd.pos
    <2> DEFINE x == [sd EXCEPT !.must_pause_work = FALSE, !.phase = "start"]
    <2>1. x \in SdType /\ x.file = sd.file /\ x.pos = sd.pos BY Zenon, <1>1, SdChanges
    <2> QED BY Zenon, <2>1
  <1>3. CASE sd' = sd BY Zenon, <1>3
  <1>4. CASE sd' = [sd EXCEPT !.must_pause_work = TRUE] BY Zenon, <1>1, <1>4, SdMustPause
  <1>5. CASE sd' = Resuming BY Zenon, <1>2, <1>5 DEF Resuming
  <1>6. CASE Closes(p) BY Zenon, <1>1, <1>6, SdChanges DEF Closes
  <1>7. CASE Prints(p)
    <2>1. sd' = [r EXCEPT !.file = TRUE, !.pos = 1] /\ sd.phase = "off"
      BY Zenon, <1>2, <1>7 DEF Prints, Resuming, is_active
    <2> QED BY Zenon, <2>1, <1>1, SdChanges
  <1> QED BY Zenon, <1>3, <1>4, <1>5, <1>6, <1>7
          DEF Outcome, Fails, Calms, Expands, Updates, PausesAgain, PausesNow, IsPaused, Resumes,
              Clears

\* Only UPDATE_DELAYED_GCODE changes the motor timer.
LEMMA TimerIs ==
    ASSUME Typed, NEW p \in Procs, Outcome(p)
    PROVE  \/ timer'[Motor] = timer[Motor]
           \/ \E b \in BOOLEAN :
                 /\ script[p][1] = <<"UPDATE_DELAYED_GCODE", Motor, b>>
                 /\ timer'[Motor] = Updated(Motor, b)
                 /\ Goes(p, << >>) /\ parked' = "no" /\ sd' = sd
  <1>1. CASE Updates(p)
    <2>1. PICK t \in Timers, b \in BOOLEAN :
            /\ script[p][1] = <<"UPDATE_DELAYED_GCODE", t, b>>
            /\ timer' = [timer EXCEPT ![t] = Updated(t, b)]
      BY Zenon, <1>1 DEF Updates
    <2>2. timer \in TimerType /\ Motor \in Timers BY Zenon, Before DEF Timers, Motor
    <2>3. timer'[Motor] = IF Motor = t THEN Updated(t, b) ELSE timer[Motor]
      BY Zenon, <2>1, <2>2 DEF TimerType
    <2> QED BY Zenon, <2>1, <2>3, <1>1 DEF Updates
  <1> QED BY Zenon, <1>1
          DEF Outcome, Fails, Calms, Expands, PausesAgain, PausesNow, IsPaused, Resumes, Clears,
              Closes, Prints

\* Nothing runs "error", the mark of a script that raised.
LEMMA NoError ==
    ASSUME Typed, NEW p \in Procs, Command(p)
    PROVE  script[p] # << <<"error">> >>
  <1> DEFINE Ops == Macros \cup
        {"M104", "M109", "M140", "M190", "TURN_OFF_HEATERS", "G1", "G4", "EXTRUDE", "HOME", "M84",
         "SHELL", "SET_GCODE_VARIABLE", "UPDATE_DELAYED_GCODE", "WAIT_SD", "BASE_PAUSE", "PAUSED",
         "BASE_RESUME", "RESUMED", "CLEAR_PAUSE", "SDCARD_RESET_FILE", "CLOSE_FILE",
         "SDCARD_PRINT_FILE", "BASE_CANCEL_PRINT"}
  <1>1. PICK op \in Ops : Running(p, op)
    BY Zenon DEF Command, Expand, SetExtruder, SetBed, TURN_OFF_HEATERS, G1, Dwell, Home, M84,
       RUN_SHELL_COMMAND, SET_GCODE_VARIABLE, UPDATE_DELAYED_GCODE, WaitForSd, BASE_PAUSE, Paused,
       BASE_RESUME, send_resume_command, CLEAR_PAUSE, SDCARD_RESET_FILE, CloseFile,
       SDCARD_PRINT_FILE, BASE_CANCEL_PRINT
  <1>2. "error" \notin Ops BY SMTT(60) DEF Macros
  <1>3. << <<"error">> >>[1][1] = "error" OBVIOUS
  <1> QED BY Zenon, <1>1, <1>2, <1>3, RunningIs DEF Op

\* A command keeps what is known of the commands that arm the motor timer.
LEMMA ArmsKept ==
    ASSUME Typed, Pausing, Motors, NEW p \in Procs, Holds(p), Outcome(p), NEW x \in Procs
    PROVE  Arms(x)'
  <1>1. holder = p /\ script[p] # << >> /\ holder' = holder BY Zenon DEF Holds
  <1>2. SUFFICES ASSUME NEW i \in 1 .. Len(script'[x]), script'[x][i] \in Arming
                 PROVE  /\ x = holder'
                        /\ IF x = "sd"
                           THEN \/ /\ Lines[sd'.pos] = <<"PRINT_END">> /\ i = Len(script'[x])
                                   /\ \A j \in 1 .. i - 1 : script'[x][j][1] \in {"M104", "M140", "G1"}
                                \/ \E j \in 1 .. i - 1 : script'[x][j] = <<"SDCARD_RESET_FILE">>
                           ELSE ~ sd'.file \/ \E j \in 1 .. i - 1 : script'[x][j] \in Closing
    BY Zenon DEF Arms
  <1>3. Arms(x) BY Zenon DEF Motors
  <1>4. x = p
    <2>1. ASSUME x # p PROVE FALSE
      <3>1. script'[x] = script[x] BY Zenon, <2>1, OutcomeKeeps DEF Kept
      <3> QED BY Zenon, <3>1, <2>1, <1>1, <1>2, <1>3 DEF Arms
    <2> QED BY Zenon, <2>1
  <1>5. ~ Fails(p)
    <2>1. <<"error">> \notin Arming
      <3>1. <<"error">> \in Inert BY Zenon DEF Inert
      <3> QED BY Zenon, <3>1, InertIs
    <2> QED BY Zenon, <2>1, <1>2, <1>4, ErrorIs DEF Fails
  <1>6. PICK more \in Seq(Cmd) : Puts(p, more) BY Zenon, <1>5, OutcomePuts
  <1>7. PICK s \in Seq(Cmd), r \in Seq(Cmd) : s = script[p] /\ r = script'[p]
    BY Zenon, <1>6, Fields DEF Puts, Goes
  <1>8. PICK n \in Nat, m \in Nat : n = Len(s) /\ m = Len(more) /\ n # 0
    BY ZenonT(40), <1>1, <1>7, Shifted
  <1>9. /\ Len(r) = m + (n - 1)
        /\ \A k \in 1 .. m : r[k] = more[k]
        /\ \A k \in 2 .. n : r[m + (k - 1)] = s[k]
        /\ \A k \in 1 .. Len(r) : k \in 1 .. m \/ \E j \in 2 .. n : k = m + (j - 1)
    <2>1. r = more \o Tail(s) BY Zenon, <1>6, <1>7 DEF Puts, Goes
    <2>2. s # << >> BY Zenon, <1>1, <1>7
    <2>3. /\ Len(more \o Tail(s)) = Len(more) + (Len(s) - 1)
          /\ \A k \in 1 .. Len(more) : (more \o Tail(s))[k] = more[k]
          /\ \A k \in 2 .. Len(s) : (more \o Tail(s))[Len(more) + (k - 1)] = s[k]
      BY ZenonT(40), <2>2, Shifted
    <2>4. \A k \in 1 .. Len(more \o Tail(s)) :
             k \in 1 .. Len(more) \/ \E j \in 2 .. Len(s) : k = Len(more) + (j - 1)
      BY Zenon, <2>2, Shifted
    <2> QED BY Zenon, <2>1, <2>3, <2>4, <1>8
  <1>10. /\ s[1] = script[p][1] /\ i \in 1 .. Len(r) /\ r[i] \in Arming
         /\ \A j \in 1 .. n : s[j] \in Arming =>
              IF p = "sd"
              THEN \/ /\ Lines[sd.pos] = <<"PRINT_END">> /\ j = n
                      /\ \A k \in 1 .. j - 1 : s[k][1] \in {"M104", "M140", "G1"}
                   \/ \E k \in 1 .. j - 1 : s[k] = <<"SDCARD_RESET_FILE">>
              ELSE ~ sd.file \/ \E k \in 1 .. j - 1 : s[k] \in Closing
    BY Zenon, <1>2, <1>3, <1>4, <1>7, <1>8 DEF Arms
  <1>11. SUFFICES IF p = "sd"
                  THEN \/ /\ Lines[sd'.pos] = <<"PRINT_END">> /\ i = Len(r)
                          /\ \A j \in 1 .. i - 1 : r[j][1] \in {"M104", "M140", "G1"}
                       \/ \E j \in 1 .. i - 1 : r[j] = <<"SDCARD_RESET_FILE">>
                  ELSE ~ sd'.file \/ \E j \in 1 .. i - 1 : r[j] \in Closing
    BY Zenon, <1>1, <1>4, <1>7
  \* The commands a macro adds.
  <1>12. CASE i \in 1 .. m
    <2>1. more[i] \in Arming BY Zenon, <1>9, <1>10, <1>12
    <2>2. CASE s[1] = <<"PRINT_END">> /\ more = PRINT_END
      <3>1. i = m /\ \A k \in 1 .. m - 1 : more[k][1] \in {"M104", "M140", "G1"}
        BY Zenon, <2>1, <2>2, <1>8, <1>12, EndShape
      <3>2. Op(p) = "PRINT_END" BY <2>2, <1>10 DEF Op
      <3>3. Op(p) \notin {"CLOSE_FILE", "SDCARD_PRINT_FILE"} BY SMTT(60), <3>2
      <3>4. sd'.pos = sd.pos /\ (sd'.file => sd.file) BY Zenon, <3>3, <1>6 DEF Puts
      <3>5. s[1] \in Arming BY Zenon, <2>2 DEF Arming
      <3>6. 1 \in 1 .. n /\ \A k : k \notin 1 .. 1 - 1 BY SMTT(60), <1>8
      <3>7. IF p = "sd" THEN Lines[sd.pos] = <<"PRINT_END">> /\ 1 = n ELSE ~ sd.file
        BY Zenon, <3>5, <3>6, <1>10
      <3>8. CASE p = "sd"
        <4>1. Len(r) = m + (1 - 1) BY Zenon, <3>7, <3>8, <1>9
        <4>2. Len(r) = m /\ \A j \in 1 .. m - 1 : j \in 1 .. m BY SMTT(60), <4>1, <1>8
        <4> QED BY Zenon, <4>2, <3>1, <3>4, <3>7, <3>8, <1>9
      <3>9. CASE p # "sd" BY Zenon, <3>4, <3>7, <3>9
      <3> QED BY Zenon, <3>8, <3>9
    <2>3. CASE s[1] = <<"CANCEL_PRINT">> /\ more = CANCEL_PRINT
      <3>1. i = 4 /\ m = 5 /\ more[3] = <<"SDCARD_RESET_FILE">>
        BY Zenon, <2>1, <2>3, <1>8, <1>12, EndShape
      <3>2. 3 \in 1 .. m /\ 3 \in 1 .. i - 1 BY SMTT(60), <3>1
      <3> QED BY Zenon, <3>1, <3>2, <1>9 DEF Closing
    <2> QED BY Zenon, <2>1, <2>2, <2>3, <1>6, <1>8, <1>10, <1>12 DEF Puts
  \* The commands that were there before.
  <1>13. CASE \E j \in 2 .. n : i = m + (j - 1)
    <2>1. PICK j \in 2 .. n : i = m + (j - 1) BY Zenon, <1>13
    <2>2. s[j] \in Arming BY Zenon, <2>1, <1>9, <1>10
    <2>3. j \in 1 .. n /\ 1 \in 1 .. n /\ \A k \in 2 .. j - 1 : k \in 2 .. n /\ m + (k - 1) \in 1 .. i - 1
      BY SMTT(60), <2>1, <1>8
    <2>4. \A k \in 1 .. j - 1 : k = 1 \/ k \in 2 .. j - 1 BY SMTT(60), <2>1
    <2>5. \A k \in 2 .. j - 1 : r[m + (k - 1)] = s[k] BY Zenon, <2>3, <1>9
    <2>6. s[1] \in Cmd BY Zenon, <1>1, <1>7, Shifted
    <2>7. CASE p = "sd"
      <3>1. CASE /\ Lines[sd.pos] = <<"PRINT_END">> /\ j = n
                 /\ \A k \in 1 .. j - 1 : s[k][1] \in {"M104", "M140", "G1"}
        <4>1. 1 \in 1 .. j - 1 BY SMTT(60), <2>1
        <4>2. Op(p) \in {"M104", "M140", "G1"} BY Zenon, <4>1, <3>1, <1>10 DEF Op
        <4>3. Op(p) \in Easy /\ Op(p) \notin {"CLOSE_FILE", "SDCARD_PRINT_FILE"}
          BY SMTT(60), <4>2 DEF Easy
        <4>4. more = << >> /\ sd'.pos = sd.pos BY Zenon, <4>3, <1>6 DEF Puts
        <4>5. m = 0 BY <4>4, <1>8
        <4>6. i = Len(r) /\ i = j - 1 BY SMTT(60), <4>5, <3>1, <2>1, <1>8, <1>9
        <4>7. ASSUME NEW k \in 1 .. i - 1 PROVE r[k][1] \in {"M104", "M140", "G1"}
          <5>1. k + 1 \in 2 .. j - 1 /\ m + ((k + 1) - 1) = k /\ k + 1 \in 1 .. j - 1
            BY SMTT(60), <4>5, <4>6, <2>1
          <5> QED BY Zenon, <5>1, <3>1, <2>5
        <4> QED BY Zenon, <4>4, <4>6, <4>7, <3>1, <2>7
      <3>2. CASE \E k \in 1 .. j - 1 : s[k] = <<"SDCARD_RESET_FILE">>
        <4>1. PICK k \in 1 .. j - 1 : s[k] = <<"SDCARD_RESET_FILE">> BY Zenon, <3>2
        <4>2. k # 1
          <5>1. Waits(holder, queue, "sd") BY Zenon, <2>7, <1>1 DEF Waits
          <5>2. cmd_from_sd BY Zenon, <5>1 DEF cmd_from_sd, Typed, Mutex
          <5>3. ASSUME k = 1 PROVE Op(p) = "SDCARD_RESET_FILE" BY <5>3, <4>1, <1>10 DEF Op
          <5> QED BY Zenon, <5>2, <5>3, <1>6 DEF Puts
        <4> QED BY Zenon, <4>1, <4>2, <2>3, <2>4, <2>5, <2>7
      <3> QED BY Zenon, <3>1, <3>2, <2>2, <2>3, <2>7, <1>10
    <2>8. CASE p # "sd"
      <3>1. CASE ~ sd.file
        <4>1. Op(p) # "SDCARD_PRINT_FILE"
          <5>1. ASSUME Op(p) = "SDCARD_PRINT_FILE" PROVE FALSE
            <6>1. script[p][1] = <<"SDCARD_PRINT_FILE">>
              <7>1. "SDCARD_PRINT_FILE" \in Plain BY SMTT(60) DEF Plain
              <7> QED BY Zenon, <7>1, <5>1, <2>6, <1>10, CommandIs DEF Op
            <6>2. Starts(p) BY Zenon DEF Pausing
            <6>3. s = << <<"SDCARD_PRINT_FILE">> >>
              BY Zenon, <6>1, <6>2, <2>3, <2>8, <1>7, <1>8 DEF Starts
            <6>4. n = 1 BY <6>3, <1>8
            <6> QED BY SMTT(60), <6>4, <2>1
          <5> QED BY Zenon, <5>1
        <4> QED BY Zenon, <4>1, <3>1, <2>8, <1>6 DEF Puts
      <3>2. CASE \E k \in 1 .. j - 1 : s[k] \in Closing
        <4>1. PICK k \in 1 .. j - 1 : s[k] \in Closing BY Zenon, <3>2
        <4>2. CASE k \in 2 .. j - 1 BY Zenon, <4>1, <4>2, <2>3, <2>5, <2>8
        <4>3. CASE k = 1 /\ s[1] = <<"SDCARD_RESET_FILE">>
          <5>1. Op(p) = "SDCARD_RESET_FILE" BY <4>3, <1>10 DEF Op
          <5>2. more = << <<"WAIT_SD">>, <<"CLOSE_FILE">> >> BY Zenon, <5>1, <1>6 DEF Puts
          <5>3. m = 2 /\ more[2] = <<"CLOSE_FILE">> BY <5>2, <1>8
          <5>4. 2 \in 1 .. m /\ 2 \in 1 .. i - 1 BY SMTT(60), <5>3, <2>1
          <5> QED BY Zenon, <5>3, <5>4, <2>8, <1>9 DEF Closing
        <4>4. CASE k = 1 /\ s[1] = <<"CLOSE_FILE">>
          <5>1. Op(p) = "CLOSE_FILE" BY <4>4, <1>10 DEF Op
          <5>2. sd'.file = FALSE BY Zenon, <5>1, <1>6 DEF Puts
          <5> QED BY Zenon, <5>2, <2>8
        <4> QED BY Zenon, <4>1, <4>2, <4>3, <4>4, <2>4 DEF Closing
      <3> QED BY Zenon, <3>1, <3>2, <2>2, <2>3, <2>8, <1>10
    <2> QED BY Zenon, <2>7, <2>8
  <1> QED BY Zenon, <1>9, <1>10, <1>12, <1>13

\* The first commands of PRINT_START, unless they fail.
LEMMA Firsts ==
    ASSUME Typed, Pausing, NEW p \in Procs, Outcome(p), ~ Fails(p)
    PROVE  /\ script[p][1] = <<"PRINT_START">> => Expands(p, "PRINT_START", PRINT_START)
           /\ script[p][1] = Disarm(Motor) => timer'[Motor] = Updated(Motor, FALSE)
  <1>1. /\ <<"PRINT_START">>[1] = "PRINT_START" /\ <<"PRINT_END">>[1] = "PRINT_END"
        /\ <<"CANCEL_PRINT">>[1] = "CANCEL_PRINT" /\ <<"BASE_PAUSE">>[1] = "BASE_PAUSE"
        /\ <<"PAUSED">>[1] = "PAUSED" /\ <<"RESUMED">>[1] = "RESUMED"
        /\ <<"CLEAR_PAUSE">>[1] = "CLEAR_PAUSE" /\ <<"CLOSE_FILE">>[1] = "CLOSE_FILE"
        /\ <<"SDCARD_PRINT_FILE">>[1] = "SDCARD_PRINT_FILE"
        /\ Disarm(Motor)[1] = "UPDATE_DELAYED_GCODE"
        /\ \A t, b : <<"UPDATE_DELAYED_GCODE", t, b>>[1] = "UPDATE_DELAYED_GCODE"
    BY SMTT(60) DEF Disarm
  <1>2. /\ "PRINT_START" \notin {"PRINT_END", "CANCEL_PRINT", "BASE_PAUSE", "PAUSED", "RESUMED",
                    "CLEAR_PAUSE", "CLOSE_FILE", "SDCARD_PRINT_FILE", "UPDATE_DELAYED_GCODE"}
        /\ "UPDATE_DELAYED_GCODE" \notin {"PRINT_END", "CANCEL_PRINT", "BASE_PAUSE", "PAUSED",
                    "RESUMED", "CLEAR_PAUSE", "CLOSE_FILE", "SDCARD_PRINT_FILE", "PRINT_START"}
    BY SMTT(60)
  <1>3. ~ PausesAgain(p) BY Zenon DEF Pausing, PausesAgain
  <1> DEFINE Others ==
        \/ Expands(p, "PRINT_END", PRINT_END) \/ Expands(p, "CANCEL_PRINT", CANCEL_PRINT)
        \/ PausesNow(p) \/ IsPaused(p) \/ Resumes(p) \/ Clears(p) \/ Closes(p) \/ Prints(p)
  <1>Others. Others => Op(p) \in {"PRINT_END", "CANCEL_PRINT", "BASE_PAUSE", "PAUSED", "RESUMED",
                                  "CLEAR_PAUSE", "CLOSE_FILE", "SDCARD_PRINT_FILE"}
    <2>1. /\ Expands(p, "PRINT_END", PRINT_END) => Op(p) = "PRINT_END"
          /\ Expands(p, "CANCEL_PRINT", CANCEL_PRINT) => Op(p) = "CANCEL_PRINT"
      BY Zenon, <1>1 DEF Expands, Op
    <2>2. PausesNow(p) => Op(p) = "BASE_PAUSE" BY Zenon, <1>1 DEF PausesNow, Op
    <2>3. IsPaused(p) => Op(p) = "PAUSED" BY Zenon, <1>1 DEF IsPaused, Op
    <2>4. Resumes(p) => Op(p) = "RESUMED" BY Zenon, <1>1 DEF Resumes, Op
    <2>5. Clears(p) => Op(p) = "CLEAR_PAUSE" BY Zenon, <1>1 DEF Clears, Op
    <2>6. Closes(p) => Op(p) = "CLOSE_FILE" BY Zenon, <1>1 DEF Closes, Op
    <2>7. Prints(p) => Op(p) = "SDCARD_PRINT_FILE" BY Zenon, <1>1 DEF Prints, Op
    <2> QED BY Zenon, <2>1, <2>2, <2>3, <2>4, <2>5, <2>6, <2>7
  <1>4. ASSUME script[p][1] = <<"PRINT_START">> PROVE Expands(p, "PRINT_START", PRINT_START)
    <2>1. Op(p) = "PRINT_START" BY Zenon, <1>1, <1>4 DEF Op
    <2>2. ~ Calms(p) BY Zenon, <2>1 DEF Calms
    <2>3. ~ Updates(p)
      <3>1. Updates(p) => \E t, b : script[p][1] = <<"UPDATE_DELAYED_GCODE", t, b>>
        BY Zenon DEF Updates
      <3>2. ASSUME NEW t, NEW b, script[p][1] = <<"UPDATE_DELAYED_GCODE", t, b>> PROVE FALSE
        <4>1. Op(p) = "UPDATE_DELAYED_GCODE" BY Zenon, <3>2, <1>1 DEF Op
        <4> QED BY Zenon, <4>1, <2>1, <1>2
      <3> QED BY Zenon, <3>1, <3>2
    <2>4. ~ Others BY Zenon, <1>Others, <2>1, <1>2
    <2> QED BY Zenon, <2>2, <2>3, <2>4, <1>3 DEF Outcome
  <1>5. ASSUME script[p][1] = Disarm(Motor) PROVE timer'[Motor] = Updated(Motor, FALSE)
    <2>1. Op(p) = "UPDATE_DELAYED_GCODE" BY Zenon, <1>1, <1>5 DEF Op
    <2>2. ~ Calms(p) BY Zenon, <2>1 DEF Calms
    <2>3. Updates(p)
      <3>1. ~ Expands(p, "PRINT_START", PRINT_START)
        BY Zenon, <1>1, <1>2, <1>5 DEF Expands
      <3>2. ~ Others BY Zenon, <1>Others, <2>1, <1>2
      <3> QED BY Zenon, <3>1, <3>2, <2>2, <1>3 DEF Outcome
    <2>4. PICK t \in Timers, b \in BOOLEAN :
            /\ Disarm(Motor) = <<"UPDATE_DELAYED_GCODE", t, b>>
            /\ timer' = [timer EXCEPT ![t] = Updated(t, b)]
      BY Zenon, <2>3, <1>5 DEF Updates
    <2>5. t = Motor /\ b = FALSE
      <3>1. \A a, c, d, e, f, g : <<a, c, d>> = <<e, f, g>> => f = c /\ g = d BY Zenon
      <3> QED BY Zenon, <3>1, <2>4 DEF Disarm
    <2>6. timer \in TimerType /\ Motor \in Timers BY Zenon, Before DEF Timers, Motor
    <2> QED BY Zenon, <2>4, <2>5, <2>6 DEF TimerType
  <1> QED BY Zenon, <1>4, <1>5

\* A command keeps the motor timer's part of the invariant.
LEMMA MotorsCommand ==
    ASSUME Typed, Pausing, Motors, NEW p \in Procs, Holds(p), Outcome(p),
           script[p] # << <<"error">> >>
    PROVE  Motors'
  <1>1. holder = p /\ script[p] # << >> /\ holder' = holder BY Zenon DEF Holds
  <1>2. \A x \in Procs : Arms(x)' BY Zenon, ArmsKept
  <1>3. ASSUME NEW x \in Procs, NEW i \in 1 .. Len(script'[x]), script'[x][i] = <<"SHELL", FALSE>>
        PROVE  x = Motor
    <2>1. \A j \in 1 .. Len(script[x]) : script[x][j] = <<"SHELL", FALSE>> => x = Motor
      BY Zenon DEF Motors
    <2>2. CASE x # p
      <3>1. script'[x] = script[x] BY Zenon, <2>2, OutcomeKeeps DEF Kept
      <3> QED BY Zenon, <3>1, <2>1, <1>3
    <2>3. CASE x = p
      <3>1. PICK j \in 2 .. Len(script[p]) : script'[p][i] = script[p][j]
        BY Zenon, <2>3, <1>1, <1>3, Appears
      <3>2. j \in 1 .. Len(script[p]) BY Zenon, <1>1, FirstIs
      <3> QED BY Zenon, <3>1, <3>2, <2>1, <2>3, <1>3
    <2> QED BY Zenon, <2>2, <2>3
  <1>4. script[p] \in Seq(Cmd) /\ 1 \in 1 .. Len(script[p]) BY Zenon, <1>1, FirstIs
  <1>5. ASSUME script[p][1] = Arm(Motor)
        PROVE  IF p = "sd" THEN Lines[sd.pos] = <<"PRINT_END">> /\ Len(script[p]) = 1 ELSE ~ sd.file
    <2>1. Arms(p) /\ script[p][1] \in Arming BY Zenon, <1>5 DEF Motors, Arming
    <2>2. \A j : j \notin 1 .. 1 - 1 BY SMTT(60)
    <2> QED BY Zenon, <2>1, <2>2, <1>4 DEF Arms
  <1>7. p = "sd" => sd.phase = "line"
    <2>1. ASSUME p = "sd" PROVE sd.phase = "line"
      <3>1. Waits(holder, queue, "sd") BY Zenon, <2>1, <1>1 DEF Waits
      <3> QED BY Zenon, <3>1, <2>1, <1>1 DEF Typed, Mutex
    <2> QED BY Zenon, <2>1
  <1>8. sd.phase = "line" => p = "sd" BY Zenon, <1>1 DEF Typed, Mutex
  <1>9. timer[Motor] = "off" /\ timer'[Motor] # "off" => script[p][1] = Arm(Motor) /\ Goes(p, << >>)
                                                          /\ parked' = "no" /\ sd' = sd
    <2>1. SUFFICES ASSUME timer[Motor] = "off", timer'[Motor] # "off"
                   PROVE  script[p][1] = Arm(Motor) /\ Goes(p, << >>) /\ parked' = "no" /\ sd' = sd
      BY Zenon
    <2>2. PICK b \in BOOLEAN :
            /\ script[p][1] = <<"UPDATE_DELAYED_GCODE", Motor, b>>
            /\ timer'[Motor] = Updated(Motor, b)
            /\ Goes(p, << >>) /\ parked' = "no" /\ sd' = sd
      BY Zenon, <2>1, TimerIs
    <2>3. timer[Motor] \notin {"inside", "repeat"} BY SMTT(60), <2>1
    <2>4. b # FALSE BY Zenon, <2>1, <2>2, <2>3 DEF Updated
    <2>5. b = TRUE BY Zenon, <2>4
    <2> QED BY Zenon, <2>2, <2>5 DEF Arm
  <1>10. ASSUME sd'.file, sd'.pos # 1 \/ sd.phase # "off"
         PROVE  sd'.file = sd.file /\ sd'.pos = sd.pos /\ sd.file
    BY Zenon, <1>10, FileKept
  <1>11. Starting'
    <2>1. SUFFICES ASSUME RunsLine("PRINT_START")'
                   PROVE  \/ /\ script'["sd"] \in {<< <<"PRINT_START">> >>, PRINT_START'}
                             /\ parked' = "no" /\ timer'[Motor] \in {"off", "armed"}
                          \/ timer'[Motor] = "off"
      BY Zenon DEF Starting
    <2>2. sd'.phase = "line" /\ sd'.file /\ Lines[sd'.pos] = <<"PRINT_START">>
          /\ script'["sd"] # << <<"error">> >>
      BY Zenon, <2>1 DEF RunsLine
    <2>3. sd.phase = "line" /\ sd.phase # "off"
      <3>1. "line" # "start" /\ "line" # "off" OBVIOUS
      <3> QED BY Zenon, <3>1, <2>2, OutcomeKeeps DEF Kept
    <2>4. p = "sd" BY Zenon, <2>3, <1>8
    <2>5. ~ Fails(p) BY Zenon, <2>2, <2>4 DEF Fails, Errs
    <2>6. sd'.pos = sd.pos /\ sd.file BY Zenon, <2>2, <2>3, <1>10
    <2>7. RunsLine("PRINT_START") BY Zenon, <2>2, <2>3, <2>4, <2>6 DEF RunsLine
    <2>8. CASE timer[Motor] = "off"
      <3>1. <<"PRINT_START">> # <<"PRINT_END">> BY SMTT(60)
      <3> QED BY Zenon, <3>1, <2>2, <2>4, <2>6, <2>8, <1>5, <1>9
    <2>9. CASE script["sd"] = << <<"PRINT_START">> >> /\ timer[Motor] \in {"off", "armed"}
      <3>1. script[p][1] = <<"PRINT_START">> /\ Op(p) = "PRINT_START" /\ Tail(script[p]) = << >>
        BY <2>4, <2>9 DEF Op
      <3>2. Expands(p, "PRINT_START", PRINT_START) BY Zenon, <3>1, <2>5, Firsts
      <3>3. PICK s \in Seq(Calm) : s = PRINT_START BY Zenon, MacroShapes
      <3>4. s \o << >> = s OBVIOUS
      <3>5. script'["sd"] = PRINT_START BY Zenon, <3>1, <3>2, <3>3, <3>4, <2>4 DEF Expands, Goes
      <3>6. PRINT_START' = PRINT_START BY Zenon DEF PRINT_START
      <3> QED BY Zenon, <3>2, <3>5, <3>6, <2>9 DEF Expands
    <2>10. CASE script["sd"] = PRINT_START /\ timer[Motor] \in {"off", "armed"}
      <3>1. script[p][1] = Disarm(Motor) BY <2>4, <2>10 DEF PRINT_START, Motor
      <3>2. timer'[Motor] = Updated(Motor, FALSE) BY Zenon, <3>1, <2>5, Firsts
      <3>3. timer[Motor] \notin {"inside", "repeat"} BY SMTT(60), <2>10
      <3> QED BY Zenon, <3>2, <3>3 DEF Updated
    <2> QED BY Zenon, <2>7, <2>8, <2>9, <2>10 DEF Motors, Starting
  <1>12. ASSUME Begun' PROVE timer'[Motor] = "off" \/ Ending'
    <2>1. sd'.file /\ Past(sd'.pos, "PRINT_START") /\ ~ Past(sd'.pos, "PRINT_END")
      BY Zenon, <1>12, BegunIs
    <2>2. sd'.pos # 1
      <3>1. \A j : j \notin 1 .. (1 - 1) BY SMTT(60)
      <3> QED BY Zenon, <3>1, <2>1 DEF Past
    <2>3. sd'.file = sd.file /\ sd'.pos = sd.pos /\ sd.file BY Zenon, <2>1, <2>2, <1>10
    <2>4. Begun BY Zenon, <2>1, <2>3, BegunIs
    <2>5. ~ Ending BY Zenon, <1>1, <1>8 DEF Ending, RunsLine
    <2>6. timer[Motor] = "off" BY Zenon, <2>4, <2>5 DEF Motors
    <2>7. ASSUME timer'[Motor] # "off" PROVE Ending'
      <3>1. script[p][1] = Arm(Motor) /\ Goes(p, << >>) /\ parked' = "no" /\ sd' = sd
        BY Zenon, <2>6, <2>7, <1>9
      <3>2. p = "sd" /\ Lines[sd.pos] = <<"PRINT_END">> /\ Len(script[p]) = 1
        BY Zenon, <3>1, <2>3, <1>5
      <3>3. PICK s \in Seq(Cmd) : s = script[p] BY Zenon, <1>4
      <3>4. << >> \o Tail(s) = << >>
        <4>1. Len(s) = 1 BY Zenon, <3>2, <3>3
        <4>2. Tail(s) \in Seq(Cmd) /\ Len(Tail(s)) = 0 BY SMTT(60), <4>1
        <4>3. PICK t \in Seq(Cmd) : t = Tail(s) /\ Len(t) = 0 BY Zenon, <4>2
        <4>4. << >> \o t = << >> BY SMTT(60), <4>3
        <4> QED BY Zenon, <4>3, <4>4
      <3>5. script'["sd"] = << >> BY Zenon, <3>1, <3>2, <3>3, <3>4 DEF Goes
      <3>6. << >> # << <<"error">> >> OBVIOUS
      <3> QED BY Zenon, <3>1, <3>2, <3>5, <3>6, <2>1, <1>7 DEF Ending, RunsLine
    <2> QED BY Zenon, <2>7
  <1> QED BY Zenon, <1>2, <1>3, <1>11, <1>12 DEF Motors

\* Every step keeps the invariant of the motor timer.
LEMMA MotorsStep ==
    Typed /\ Pausing /\ Motors /\ [Next]_vars => Motors'
  <1>Empty. ASSUME NEW q, q = << >> PROVE \A i : i \notin 1 .. Len(q)
    <2>1. Len(q) = 0 BY <1>Empty
    <2> QED BY SMTT(60), <2>1
  <1>Words. /\ "line" \notin {"off", "loop", "on_error", "start"} /\ "off" # "armed"
            /\ "off" # "repeat" /\ "wait" # "no" /\ << >> # << <<"error">> >>
    OBVIOUS
  <1>None. None \notin Procs /\ "sd" \in Procs /\ Motor \in Timers /\ Motor # "sd" /\ "idle" # "sd"
           /\ "sd" \notin Clients /\ "sd" \notin Timers
    <2>1. Motor \in Timers BY Zenon DEF Motor, Timers
    <2> QED BY Zenon, <2>1, PrintAssumption, Processes DEF Motor
  \* A process other than the print file begins a script.
  <1>Begins. ASSUME Typed, Motors, NEW p \in Procs, p # "sd", ~ Waits(holder, queue, p),
                    NEW s \in Seq(Cmd), run_script(p, s), sd' = sd, Free,
                    \A i \in 1 .. Len(s) : s[i] \notin Arming,
                    \A i \in 1 .. Len(s) : s[i] = <<"SHELL", FALSE>> => p = Motor,
                    timer[Motor] = "off" => timer'[Motor] = "off"
             PROVE  Motors'
    <2> USE <1>Begins
    <2>1. /\ script'[p] = s /\ \A x \in Procs : x # p => script'[x] = script[x]
          /\ \/ holder = None /\ holder' = p /\ queue' = queue
             \/ holder # None /\ holder' = holder /\ queue' = Append(queue, p)
      BY Zenon, Begins
    <2>2. ASSUME NEW x \in Procs PROVE Arms(x)'
      <3>1. CASE x = p BY Zenon, <3>1, <2>1 DEF Arms
      <3>2. CASE x # p
        <4>1. script'[x] = script[x] /\ Arms(x) BY Zenon, <3>2, <2>1 DEF Motors
        <4>2. x = holder => holder' = holder BY Zenon, <2>1, <1>None
        <4> QED BY Zenon, <4>1, <4>2 DEF Arms
      <3> QED BY Zenon, <3>1, <3>2
    <2>3. \A x \in Procs : \A i \in 1 .. Len(script'[x]) : script'[x][i] = <<"SHELL", FALSE>> => x = Motor
      BY Zenon, <2>1 DEF Motors
    <2>4. sd.phase = "line" => parked # "no" BY Zenon, <1>None DEF Free, Typed, Mutex
    <2>5. script'["sd"] = script["sd"] BY Zenon, <2>1, <1>None
    <2>6. Starting' BY Zenon, <2>4, <2>5 DEF Motors, Starting, RunsLine
    <2>7. Begun' => timer'[Motor] = "off"
      <3>1. Begun' => Begun BY Zenon, BegunIs
      <3>2. ~ Ending BY Zenon, <2>4 DEF Ending, RunsLine
      <3> QED BY Zenon, <3>1, <3>2 DEF Motors
    <2> QED BY Zenon, <2>2, <2>3, <2>6, <2>7 DEF Motors
  \* The holder's script is over.
  <1>Over. ASSUME Typed, Motors, holder \in Procs, script'[holder] = << >>,
                  \A x \in Procs : x # holder => script'[x] = script[x],
                  sd'.phase # "line", Begun' => timer'[Motor] = "off"
           PROVE  Motors'
    <2> USE <1>Over
    <2>1. \A i : i \notin 1 .. Len(script'[holder]) BY Zenon, <1>Empty
    <2>2. ASSUME NEW x \in Procs PROVE Arms(x)'
      <3>1. CASE x = holder BY Zenon, <3>1, <2>1 DEF Arms
      <3>2. CASE x # holder
        <4>1. script'[x] = script[x] /\ Arms(x) BY Zenon, <3>2 DEF Motors
        <4>2. \A i \in 1 .. Len(script[x]) : script[x][i] \notin Arming
          BY Zenon, <4>1, <3>2 DEF Arms
        <4> QED BY Zenon, <4>1, <4>2 DEF Arms
      <3> QED BY Zenon, <3>1, <3>2
    <2>3. \A x \in Procs : \A i \in 1 .. Len(script'[x]) : script'[x][i] = <<"SHELL", FALSE>> => x = Motor
      BY Zenon, <2>1 DEF Motors
    <2>4. Starting' BY Zenon DEF Starting, RunsLine
    <2> QED BY Zenon, <2>2, <2>3, <2>4 DEF Motors
  \* work_handler moves on without the mutex.
  <1>Phase. ASSUME Typed, Motors, script' = script, holder' = holder, timer' = timer,
                   sd'.file => sd.file, sd'.pos = sd.pos, sd.phase # "line", sd'.phase # "line"
            PROVE  Motors'
    <2> USE <1>Phase
    <2>1. ASSUME NEW x \in Procs PROVE Arms(x)'
      <3>1. Arms(x) BY Zenon DEF Motors
      <3> QED BY Zenon, <3>1 DEF Arms
    <2>2. Starting' BY Zenon DEF Starting, RunsLine
    <2>3. Begun' => timer'[Motor] = "off"
      <3>1. Begun' => Begun BY Zenon, BegunIs
      <3>2. ~ Ending BY Zenon DEF Ending, RunsLine
      <3> QED BY Zenon, <3>1, <3>2 DEF Motors
    <2> QED BY Zenon, <2>1, <2>2, <2>3 DEF Motors
  <1>Request. ASSUME Typed, Motors, NEW c \in Clients, Request(c)
              PROVE  Motors'
    <2> USE <1>Request
    <2>1. /\ c \in Procs /\ c # "sd" /\ ~ Waits(holder, queue, c)
          /\ sd' = sd /\ timer' = timer /\ Free
      BY Zenon, RequestIs
    <2>2. PICK r \in Requests, s \in Seq(Cmd) :
              /\ run_script(c, s) /\ \A i \in 1 .. Len(s) : s[i] = <<r>>
              /\ <<r>> \notin Arming \cup {<<"PAUSED">>, <<"SHELL", FALSE>>}
      BY Zenon, RequestIs
    <2>3. \A i \in 1 .. Len(s) : s[i] \notin Arming /\ s[i] # <<"SHELL", FALSE>> BY Zenon, <2>2
    <2> QED BY Zenon, <2>1, <2>2, <2>3, <1>Begins
  <1>TimerEvent. ASSUME Typed, Motors, NEW t \in Timers, _gcode_timer_event(t)
                 PROVE  Motors'
    <2> USE <1>TimerEvent
    <2>1. /\ Idling /\ timer[t] = "armed" /\ sd' = sd /\ timer' = [timer EXCEPT ![t] = "inside"]
          /\ run_script(t, IF t = "cool_hot_end" THEN cool_hot_end ELSE delay_disable_motor)
      BY Zenon DEF _gcode_timer_event
    <2>2. t \in Procs /\ t # "sd" BY Zenon, Processes, <1>None
    <2>3. ~ Waits(holder, queue, t)
      <3>1. "armed" \notin {"inside", "repeat"} OBVIOUS
      <3> QED BY Zenon, <3>1, <2>1 DEF Typed, Mutex
    <2>4. PICK s \in Seq(Cmd) :
            /\ run_script(t, s) /\ \A i \in 1 .. Len(s) : s[i] \notin Arming
            /\ \A i \in 1 .. Len(s) : s[i] = <<"SHELL", FALSE>> => t = Motor
      BY Zenon, <2>1, TimerScripts
    <2>5. timer[Motor] = "off" => timer'[Motor] = "off"
      <3>1. timer \in TimerType BY Zenon, Before
      <3>2. Motor # t => timer'[Motor] = timer[Motor] BY Zenon, <3>1, <2>1, <1>None DEF TimerType
      <3> QED BY Zenon, <3>2, <2>1, <1>Words
    <2>6. Free BY Zenon, <2>1, <1>Words DEF Idling, Free
    <2> QED BY Zenon, <2>1, <2>2, <2>3, <2>4, <2>5, <2>6, <1>Begins
  <1>Idle. ASSUME Typed, Motors, transition_idle_state
           PROVE  Motors'
    <2> USE <1>Idle
    <2>1. /\ holder = None /\ sd' = sd /\ timer' = timer
          /\ run_script("idle", << <<"TURN_OFF_HEATERS">>, <<"M84">> >>)
      BY Zenon DEF transition_idle_state
    <2>2. "idle" \in Procs /\ "idle" # "sd" BY Zenon, Processes, <1>None
    <2>3. ~ Waits(holder, queue, "idle") /\ Free BY Zenon, <2>1, <2>2, Nobody DEF Free
    <2>4. PICK s \in Seq(Calm) : run_script("idle", s) /\ s \in Seq(Cmd) BY Zenon, <2>1, IdleScript
    <2>5. \A i \in 1 .. Len(s) : s[i] \in Calm BY SMTT(60)
    <2>6. \A i \in 1 .. Len(s) : s[i] \notin Arming /\ s[i] # <<"SHELL", FALSE>>
      BY Zenon, <2>5 DEF Calm
    <2> QED BY Zenon, <2>1, <2>2, <2>3, <2>4, <2>6, <1>Begins
  <1>Replies. ASSUME Typed, Motors,
                     (\E c \in Clients : Reply(c)) \/ (\E t \in Timers : TimerDone(t)) \/ IdleDone
              PROVE  Motors'
    <2> USE <1>Replies
    <2>1. PICK p \in Procs : /\ holder = p /\ script' = [script EXCEPT ![p] = << >>]
                             /\ Release(queue) /\ sd' = sd /\ p # "sd"
      BY Zenon, Processes, <1>None DEF Reply, TimerDone, IdleDone, Over
    <2>2. script'[holder] = << >> /\ \A x \in Procs : x # holder => script'[x] = script[x]
      BY Zenon, <2>1, Ends
    <2>3. sd.phase # "line" BY Zenon, <2>1 DEF Typed, Mutex
    <2>4. timer[Motor] = "off" => timer'[Motor] = "off"
      <3>1. CASE \E t \in Timers : TimerDone(t)
        <4>1. PICK t \in Timers : timer' = [timer EXCEPT ![t] = IF @ = "repeat" THEN "armed" ELSE "off"]
          BY Zenon, <3>1 DEF TimerDone
        <4>2. timer \in TimerType BY Zenon, Before
        <4>3. timer'[Motor] = IF Motor = t THEN (IF timer[t] = "repeat" THEN "armed" ELSE "off")
                                           ELSE timer[Motor]
          BY Zenon, <4>1, <4>2, <1>None DEF TimerType
        <4> QED BY Zenon, <4>3, <1>Words
      <3>2. CASE (\E c \in Clients : Reply(c)) \/ IdleDone BY Zenon, <3>2 DEF Reply, IdleDone
      <3> QED BY Zenon, <3>1, <3>2
    <2>5. Begun' => timer'[Motor] = "off"
      <3>1. Begun' => Begun BY Zenon, <2>1, BegunIs
      <3>2. ~ Ending BY Zenon, <2>3 DEF Ending, RunsLine
      <3> QED BY Zenon, <3>1, <3>2, <2>4 DEF Motors
    <2> QED BY Zenon, <2>1, <2>2, <2>3, <2>5, <1>Over
  <1>LineDone. ASSUME Typed, Motors, LineDone
               PROVE  Motors'
    <2> USE <1>LineDone
    <2>1. /\ holder = "sd" /\ sd.phase = "line" /\ script["sd"] = << >> /\ Release(queue)
          /\ script' = script /\ timer' = timer
      BY Zenon DEF LineDone
    <2>2. /\ sd'.pos = sd.pos + 1 /\ sd'.file = sd.file /\ sd'.phase \in {"off", "loop"}
          /\ sd.pos \in 1 .. Len(Lines)
      BY Zenon, LineDoneIs
    <2>3. ASSUME NEW l PROVE Past(sd'.pos, l) <=> Past(sd.pos, l) \/ Lines[sd.pos] = <<l>>
      <3>1. PICK n \in Nat \ {0} : n = sd.pos
        <4>1. Len(Lines) \in Nat BY Zenon, LenProperties, PrintAssumption
        <4>2. sd.pos \in Nat \ {0} BY SMTT(60), <4>1, <2>2
        <4> QED BY Zenon, <4>2
      <3>2. \A i : i \in 1 .. ((n + 1) - 1) <=> i \in 1 .. (n - 1) \/ i = n BY SMTT(60), <3>1
      <3> QED BY Zenon, <3>1, <3>2, <2>2 DEF Past
    <2>4. ASSUME Begun' PROVE timer'[Motor] = "off"
      <3>1. /\ sd.file /\ ~ Past(sd.pos, "PRINT_END") /\ Lines[sd.pos] # <<"PRINT_END">>
            /\ Past(sd.pos, "PRINT_START") \/ Lines[sd.pos] = <<"PRINT_START">>
        <4>1. sd'.file /\ Past(sd'.pos, "PRINT_START") /\ ~ Past(sd'.pos, "PRINT_END")
          BY Zenon, <2>4, BegunIs
        <4> QED BY Zenon, <4>1, <2>2, <2>3
      <3>2. CASE Past(sd.pos, "PRINT_START")
        <4>1. Begun BY Zenon, <3>1, <3>2, BegunIs
        <4>2. ~ Ending BY Zenon, <3>1 DEF Ending, RunsLine
        <4> QED BY Zenon, <4>1, <4>2, <2>1 DEF Motors
      <3>3. CASE Lines[sd.pos] = <<"PRINT_START">>
        <4>1. RunsLine("PRINT_START") BY Zenon, <3>1, <3>3, <2>1, <1>Words DEF RunsLine
        <4>2. << >> # << <<"PRINT_START">> >> /\ << >> # PRINT_START BY DEF PRINT_START
        <4> QED BY Zenon, <4>1, <4>2, <2>1 DEF Motors, Starting
      <3> QED BY Zenon, <3>1, <3>2, <3>3
    <2>5. sd'.phase # "line" BY Zenon, <2>2, <1>Words
    <2> QED BY Zenon, <2>1, <2>4, <2>5, <1>None, <1>Over
  <1>Fails. ASSUME Typed, Motors, OnErrorDone \/ LineRaised
            PROVE  Motors'
    <2> USE <1>Fails
    <2>1. /\ holder = "sd" /\ timer' = timer
          /\ sd' = Exited \/ sd' = [sd EXCEPT !.phase = "on_error"]
          /\ script' = [script EXCEPT !["sd"] = << >>] \/ (script' = script /\ script["sd"] = << >>)
      BY Zenon DEF OnErrorDone, LineRaised
    <2>2. ~ Ending
      <3>1. CASE OnErrorDone
        <4>1. sd.phase # "line" BY Zenon, <3>1, <1>Words DEF OnErrorDone
        <4> QED BY Zenon, <4>1 DEF Ending, RunsLine
      <3>2. CASE LineRaised BY Zenon, <3>2 DEF LineRaised, Ending, RunsLine
      <3> QED BY Zenon, <3>1, <3>2
    <2>3. PICK f \in {"off", "on_error"} : sd' = [sd EXCEPT !.phase = f] BY Zenon, <2>1 DEF Exited
    <2>4. f \in {"off", "start", "loop", "line", "on_error"} BY Zenon, <2>3
    <2>5. sd'.phase = f /\ sd'.file = sd.file /\ sd'.pos = sd.pos
      BY Zenon, <2>3, <2>4, Before, SdPhase
    <2>6. sd'.phase # "line" BY Zenon, <2>3, <2>5, <1>Words
    <2>7. Begun' => timer'[Motor] = "off"
      <3>1. Begun' => Begun BY Zenon, <2>5, BegunIs
      <3> QED BY Zenon, <3>1, <2>1, <2>2 DEF Motors
    <2>8. script'["sd"] = << >> /\ \A x \in Procs : x # "sd" => script'[x] = script[x]
      <3>1. script \in [Procs -> Seq(Cmd)] BY Zenon DEF Typed, Mutex
      <3> QED BY Zenon, <3>1, <2>1, <1>None
    <2> QED BY Zenon, <2>1, <2>6, <2>7, <2>8, <1>None, <1>Over
  <1>Work. ASSUME Typed, Motors, work_handler
           PROVE  Motors'
    <2> USE <1>Work
    <2>1. /\ holder' = holder /\ script' = script /\ timer' = timer /\ sd.phase = "start"
          /\ sd' = [sd EXCEPT !.phase = IF sd.file THEN "loop" ELSE "off"]
      BY Zenon DEF work_handler, mutex
    <2>2. PICK f \in {"off", "loop"} : sd' = [sd EXCEPT !.phase = f] BY Zenon, <2>1
    <2>3. f \in {"off", "start", "loop", "line", "on_error"} BY Zenon, <2>2
    <2>4. sd'.phase = f /\ sd'.file = sd.file /\ sd'.pos = sd.pos
      BY Zenon, <2>2, <2>3, Before, SdPhase
    <2>5. sd'.phase # "line" /\ sd.phase # "line" BY Zenon, <2>1, <2>2, <2>4, <1>Words
    <2> QED BY Zenon, <2>1, <2>4, <2>5, <1>Phase
  <1>RunLine. ASSUME Typed, Motors, RunLine, timer' = timer, sd.phase = "loop"
              PROVE  Motors'
    <2> USE <1>RunLine
    <2>1. /\ holder' = "sd" /\ script'["sd"] = << Lines[sd.pos] >> /\ parked' = "no"
          /\ sd'.pos = sd.pos /\ sd'.file = sd.file
      BY Zenon, LineBegins
    <2>2. /\ \A i \in 1 .. Len(script'["sd"]) : script'["sd"][i] = Lines[sd.pos] /\ i = 1
          /\ Len(script'["sd"]) = 1
          /\ Lines[sd.pos] \in Calm \/ Lines[sd.pos] \in {<<"PRINT_END">>, <<"SDCARD_PRINT_FILE">>}
          /\ \A x \in Procs : x # "sd" => \A i : i \notin 1 .. Len(script'[x])
      BY Zenon, LineIs
    <2>3. /\ Lines[sd.pos] \in Arming => Lines[sd.pos] = <<"PRINT_END">>
          /\ Lines[sd.pos] # <<"SHELL", FALSE>>
      <3>1. /\ <<"SDCARD_PRINT_FILE">>[1] = "SDCARD_PRINT_FILE" /\ <<"PRINT_END">>[1] = "PRINT_END"
            /\ Arm(Motor)[1] = "UPDATE_DELAYED_GCODE" /\ <<"SHELL", FALSE>>[1] = "SHELL"
            /\ "SDCARD_PRINT_FILE" # "UPDATE_DELAYED_GCODE"
            /\ "SHELL" # "PRINT_END" /\ "SHELL" # "SDCARD_PRINT_FILE"
        BY DEF Arm
      <3>2. <<"SDCARD_PRINT_FILE">> # Arm(Motor) BY Zenon, <3>1
      <3>3. <<"PRINT_END">> # <<"SHELL", FALSE>> /\ <<"SDCARD_PRINT_FILE">> # <<"SHELL", FALSE>>
        BY Zenon, <3>1
      <3> QED BY Zenon, <3>2, <3>3, <2>2 DEF Calm, Arming
    <2>4. ASSUME NEW x \in Procs PROVE Arms(x)'
      <3>1. \A j : j \notin 1 .. 1 - 1 BY SMTT(60)
      <3>2. CASE x = "sd" BY Zenon, <3>1, <3>2, <2>1, <2>2, <2>3 DEF Arms
      <3>3. CASE x # "sd" BY Zenon, <3>3, <2>2 DEF Arms
      <3> QED BY Zenon, <3>2, <3>3
    <2>5. \A x \in Procs : \A i \in 1 .. Len(script'[x]) : script'[x][i] = <<"SHELL", FALSE>> => x = Motor
      BY Zenon, <2>2, <2>3
    <2>6. Starting'
      <3>1. timer[Motor] \in {"off", "armed", "inside", "repeat"}
        BY Zenon, Before, <1>None DEF TimerType
      <3>2. ~ Waits(holder, queue, Motor) BY Zenon, <1>None, Nobody, Processes DEF RunLine
      <3>3. timer[Motor] \notin {"inside", "repeat"} BY Zenon, <3>2, <1>None DEF Typed, Mutex
      <3>4. timer[Motor] \in {"off", "armed"} BY Zenon, <3>1, <3>3
      <3> QED BY Zenon, <3>4, <2>1 DEF Starting, RunsLine
    <2>7. Begun' => timer'[Motor] = "off"
      <3>1. Begun' => Begun BY Zenon, <2>1, BegunIs
      <3>2. sd.phase # "line" BY Zenon, <1>Words
      <3>3. ~ Ending BY Zenon, <3>2 DEF Ending, RunsLine
      <3> QED BY Zenon, <3>1, <3>3 DEF Motors
    <2> QED BY Zenon, <2>4, <2>5, <2>6, <2>7 DEF Motors
  <1>NextLine. ASSUME Typed, Motors, NextLine
               PROVE  Motors'
    <2> USE <1>NextLine
    <2>1. timer' = timer /\ sd.phase = "loop" /\ (RunLine \/ Exits) BY Zenon, NextLineIs DEF Quiet
    <2>2. CASE Exits
      <3>1. sd'.phase = "off" /\ sd'.pos = sd.pos /\ (sd'.file = sd.file \/ sd'.file = FALSE)
        BY Zenon, <2>2, Before, ExitedIs DEF Exits, Exited
      <3>2. sd'.phase # "line" /\ sd.phase # "line" BY Zenon, <3>1, <2>1, <1>Words
      <3>3. script' = script /\ holder' = holder BY Zenon, <2>2 DEF Exits
      <3>4. sd'.file => sd.file BY Zenon, <3>1
      <3> QED BY Zenon, <3>1, <3>2, <3>3, <3>4, <2>1, <1>Phase
    <2> QED BY Zenon, <2>1, <2>2, <1>RunLine
  <1> SUFFICES ASSUME Typed, Pausing, Motors, [Next]_vars
               PROVE  Motors'
    OBVIOUS
  <1>1. CASE \E p \in Procs : Command(p)
    BY Zenon, <1>1, Commands, NoError, MotorsCommand DEF Result
  <1>2. CASE \E c \in Clients : Request(c) BY Zenon, <1>2, <1>Request
  <1>3. CASE (\E c \in Clients : Reply(c)) \/ (\E t \in Timers : TimerDone(t)) \/ IdleDone
    BY Zenon, <1>3, <1>Replies
  <1>4. CASE \E t \in Timers : _gcode_timer_event(t) BY Zenon, <1>4, <1>TimerEvent
  <1>5. CASE transition_idle_state BY Zenon, <1>5, <1>Idle
  <1>6. CASE LineDone \/ LineRaised \/ OnErrorDone BY Zenon, <1>6, <1>LineDone, <1>Fails
  <1>7. CASE work_handler \/ NextLine BY Zenon, <1>7, <1>Work, <1>NextLine
  <1>8. CASE timeout_handler \/ UNCHANGED vars
    <2>1. /\ sd' = sd /\ script' = script /\ holder' = holder /\ timer' = timer /\ parked' = parked
      BY Zenon, <1>8 DEF timeout_handler, vars, mutex
    <2>2. ASSUME NEW x \in Procs PROVE Arms(x)'
      <3>1. Arms(x) BY Zenon DEF Motors
      <3> QED BY Zenon, <3>1, <2>1 DEF Arms
    <2>3. Starting'
      <3>1. Starting BY Zenon DEF Motors
      <3> QED BY Zenon, <3>1, <2>1 DEF Starting, RunsLine, PRINT_START
    <2>4. Begun' => timer'[Motor] = "off" \/ Ending'
      <3>1. Begun' => Begun BY Zenon, <2>1, BegunIs
      <3>2. Ending => Ending' BY Zenon, <2>1 DEF Ending, RunsLine
      <3> QED BY Zenon, <3>1, <3>2, <2>1 DEF Motors
    <2> QED BY Zenon, <2>1, <2>2, <2>3, <2>4 DEF Motors
  <1> QED BY Zenon, <1>1, <1>2, <1>3, <1>4, <1>5, <1>6, <1>7, <1>8, Steps

LEMMA MotorsInit == Init => Motors
  <1> SUFFICES ASSUME Init PROVE Motors OBVIOUS
  <1>1. \A p \in Procs : \A i : i \notin 1 .. Len(script[p])
    <2>1. \A i : i \notin 1 .. Len(<< >>) BY SMTT(60)
    <2> QED BY Zenon, <2>1 DEF Init
  <1>2. sd.phase = "off" /\ sd.file = FALSE BY DEF Init
  <1>3. ~ sd.file BY Zenon, <1>2
  <1>4. Starting BY Zenon, <1>3 DEF Starting, RunsLine
  <1>5. ~ Begun BY Zenon, <1>3 DEF Begun
  <1> QED BY Zenon, <1>1, <1>4, <1>5 DEF Motors, Arms

\* The motors are switched off by the script of their timer alone.
LEMMA KeptStep ==
    ASSUME Typed, Pausing, Motors, [Next]_vars, motors, ~ motors'
    PROVE  ~ Begun
  <1>1. motors' # motors BY Zenon
  <1>2. PICK p \in Procs : Command(p)
    BY Zenon, <1>1, Steps, NextLineIs
       DEF Reply, Request, TimerDone, _gcode_timer_event, IdleDone, LineDone, LineRaised, OnErrorDone,
           work_handler, timeout_handler, transition_idle_state, vars, machine, Quiet
  <1>3. Result(p) BY Zenon, <1>2, Commands
  <1>4. holder = p /\ script[p] # << >> /\ script[p][1] = <<"SHELL", motors'>> /\ motors' \in BOOLEAN
    BY Zenon, <1>1, <1>3 DEF Result, Holds, Machine
  <1>5. motors' = FALSE BY Zenon, <1>4
  <1>6. script[p][1] = <<"SHELL", FALSE>> BY Zenon, <1>4, <1>5
  <1>7. p = Motor /\ Motor \in Timers /\ Motor # "sd"
    <2>1. 1 \in 1 .. Len(script[p]) BY Zenon, <1>4, FirstIs
    <2>2. p = Motor BY Zenon, <2>1, <1>6 DEF Motors
    <2>3. Motor # "sd" /\ Motor \in Timers BY SMTT(60) DEF Motor, Timers
    <2> QED BY Zenon, <2>2, <2>3
  <1>8. timer[Motor] # "off"
    <2>1. timer[Motor] \in {"inside", "repeat"} BY Zenon, <1>4, <1>7 DEF Typed, Mutex, Waits
    <2>2. "off" \notin {"inside", "repeat"} OBVIOUS
    <2> QED BY Zenon, <2>1, <2>2
  <1>9. ~ Ending BY Zenon, <1>4, <1>7 DEF Ending, RunsLine, Typed, Mutex
  <1> QED BY Zenon, <1>8, <1>9 DEF Motors

\* Once PRINT_START is over, and until the print file is past PRINT_END or closed,
\* nothing switches the linear motors off, for any set of clients, any file of the
\* commands named by PrintAssumption and any failing commands: by Motors the timer that
\* would do it is off as long as the print lasts, so its script neither runs nor waits.
THEOREM MotorsStayOn == Spec => MotorsKept
  <1>1. Init => Typed /\ Pausing /\ Motors BY TypedInit, PausingInit, MotorsInit
  <1>2. Typed /\ Pausing /\ Motors /\ [Next]_vars => (Typed /\ Pausing /\ Motors)'
    BY TypedStep, PausingStep, MotorsStep
  <1>3. Typed /\ Pausing /\ Motors /\ [Next]_vars => [motors /\ ~motors' => ~Begun]_vars
    BY Zenon, KeptStep
  <1> QED BY <1>1, <1>2, <1>3, PTL DEF Spec, MotorsKept
=============================================================================
