-------------------------- MODULE HomingSyncProofs --------------------------
(***************************************************************************)
(* TypeOK, OverrunBounded, SessionFresh and NoStaleStep hold throughout,   *)
(* for any number of micro-controllers, steppers, homing moves and lost    *)
(* reports and for any timeout: the inductive invariant, the steps of a    *)
(* micro-controller, of the host and of time, which keep it.               *)
(*                                                                         *)
(* The timeout argument rests on Horizon: until when the host can have     *)
(* heard of a micro-controller that it still took part.  No deadline lies  *)
(* more than ExpireTicks after the horizon of another micro-controller,    *)
(* whether it is armed or still under way, and a trsync that started has   *)
(* its first deadline or it is under way (Timing).  The argument on steps   *)
(* rests on StepsOK: a step under way meets a stepper that runs in its     *)
(* session, that refuses it, or that waits for the trsync_start in front   *)
(* of it.                                                                  *)
(***************************************************************************)
EXTENDS HomingSync, WellFoundedInduction, TLAPS

Command == [cmd : Commands, arg : Times, ses : Nat]
StepCommand == [cmd : {"step", "reset"}, arg : {0}, ses : Nat]
Report == [can : BOOLEAN, reason : 0 .. 4, clock : Times, ses : Nat]

Elems(q) == {q[i] : i \in 1 .. Len(q)}

\* The clock up to which reports of a may have been made.
Horizon == [a \in Mcus |->
    LET h == IF trigAt[a] = None THEN now ELSE trigAt[a]
    IN  IF h < startClock THEN startClock ELSE h]

\* Micro-controllers with a trsync_start under way.
Starting == {m \in Mcus : \E c \in Elems(toMcu[m]) : c.cmd = "start"}

\* Micro-controllers with a deadline under way.
Timing == {m \in Mcus : \E c \in Elems(toMcu[m]) : c.cmd = "set_timeout"}

\* Nothing is under way, and nothing will be sent any more.
Quiet == {m \in Mcus : /\ ~ mcu[m].can /\ mcu[m].reportAt = None
                       /\ toMcu[m] = <<>> /\ toHost[m] = <<>> /\ callback[m] = <<>>}

\* Not triggerable and without reports once all commands are handled.
Stopping == {m \in Mcus :
    \/ ~ mcu[m].can /\ mcu[m].reportAt = None /\ m \notin Starting
    \/ \E c \in Elems(toMcu[m]) : c.cmd = "trigger"}

\* A trsync_start is sent when nothing else is under way.
OnlyFirst(q) == \A i \in 2 .. Len(q) : q[i].cmd # "start"

CommandOK(m, c) ==
    /\ c.cmd = "trigger" => c.arg \in 0 .. 4
    /\ c.cmd = "start" => c.arg = startClock /\ c.ses = session
    /\ c.cmd = "set_timeout" => \A a \in Mcus \ {m} : c.arg <= Horizon[a] + ExpireTicks

CommandsOK(m) == /\ OnlyFirst(toMcu[m])
                 /\ \A c \in Elems(toMcu[m]) : CommandOK(m, c)

\* An armed deadline: not passed, and not long after another micro-controller stopped.
Bounded(m, e) == e # None =>
    now <= e /\ \A a \in Mcus \ {m} : e <= Horizon[a] + ExpireTicks

McuOK(m) ==
    /\ Bounded(m, mcu[m].expire)
    /\ mcu[m].can => /\ ~ mcu[m].down /\ m \notin Starting
                     /\ m \in Steppers => mcu[m].signal
    /\ (mcu[m].can /\ mcu[m].expire = None) \/ m \in Starting => m \in Timing
    /\ mcu[m].down => mcu[m].reportAt = None
    /\ mcu[m].stepper = "moving" => mcu[m].can /\ m \in Steppers
    /\ trigAt[m] # None => trigAt[m] <= now /\ ~ mcu[m].can /\ m \notin Starting

ReportsOK(m) ==
    /\ lastStatus[m] <= Horizon[m]
    /\ \A r \in Elems(toHost[m]) \cup Elems(callback[m]) : r.can => r.clock <= Horizon[m]

PhaseOK ==
    /\ startClock <= now + Lead
    /\ phase \in {"idle", "done"} => Quiet = Mcus
    /\ phase \in {"idle", "stop", "done"} => ~ td.active
    /\ phase \notin {"stop", "shutdown"} => asking = {}
    /\ phase = "stop" => /\ \A m \in Mcus : callback[m] = <<>>
                         /\ Mcus \ (todo \cup asking) \subseteq Quiet
                         /\ asking \subseteq Stopping

Fresh(m) == Live =>
    \A x \in Elems(toMcu[m]) \cup Elems(toHost[m]) \cup Elems(callback[m]) : x.ses = session

\* Where a step under way may arrive.
StepOK(m, c) ==
    /\ c.ses <= session
    /\ c.cmd = "step" => \/ mcu[m].down \/ mcu[m].stepper = "needReset"
                         \/ c.ses = session /\ (mcu[m].can \/ m \in Starting)
    /\ c.cmd = "reset" => c.ses < session \/ m \notin Starting

\* A step behind a reset belongs to the move that is about to start.
Behind(m) == \A i, j \in 1 .. Len(stepQ[m]) :
    (j < i /\ stepQ[m][j].cmd = "reset" /\ stepQ[m][i].cmd = "step")
        => mcu[m].down \/ (stepQ[m][i].ses = session /\ m \in Starting)

StepsOK(m) ==
    /\ m \notin Steppers => stepQ[m] = <<>>
    /\ \A c \in Elems(stepQ[m]) : StepOK(m, c)
    /\ Behind(m)
    /\ Live /\ m \in Steppers =>
          \/ mcu[m].down \/ m \in Starting
          \/ /\ mcu[m].can \/ mcu[m].stepper = "needReset"
             /\ \A c \in Elems(stepQ[m]) : c.cmd = "step"

Board(m) == CommandsOK(m) /\ McuOK(m) /\ ReportsOK(m) /\ Fresh(m) /\ StepsOK(m)

IInv == TypeOK /\ PhaseOK /\ \A m \in Mcus : Board(m)

-----------------------------------------------------------------------------
(* Sequences. *)

LEMMA ElemsType ==
    ASSUME NEW S, NEW q \in Seq(S)
    PROVE  Elems(q) \subseteq S /\ Elems(<<>>) = {}
  BY DEF Elems

LEMMA ElemsTail ==
    ASSUME NEW S, NEW q \in Seq(S), q # <<>>
    PROVE  /\ Tail(q) \in Seq(S) /\ Head(q) \in S
           /\ Head(q) \in Elems(q) /\ Elems(Tail(q)) \subseteq Elems(q)
           /\ Elems(q) = {Head(q)} \cup Elems(Tail(q))
  <1>1. /\ Tail(q) \in Seq(S) /\ Len(q) \in Nat /\ Len(q) >= 1
        /\ Len(Tail(q)) = Len(q) - 1 /\ Head(q) = q[1] /\ q[1] \in S
        /\ \A i \in 1 .. Len(q) - 1 : Tail(q)[i] = q[i + 1]
    OBVIOUS
  <1>2. Elems(Tail(q)) \subseteq Elems(q)
    <2>1. ASSUME NEW i \in 1 .. Len(Tail(q)) PROVE Tail(q)[i] \in Elems(q)
      <3>1. i + 1 \in 1 .. Len(q) /\ Tail(q)[i] = q[i + 1] BY <1>1
      <3> QED BY Zenon, <3>1 DEF Elems
    <2> QED BY Zenon, <2>1 DEF Elems
  <1>3. Elems(q) \subseteq {Head(q)} \cup Elems(Tail(q))
    <2>1. ASSUME NEW i \in 1 .. Len(q), i # 1 PROVE q[i] \in Elems(Tail(q))
      <3>1. i - 1 \in 1 .. Len(Tail(q)) /\ q[i] = Tail(q)[i - 1] BY <1>1, <2>1
      <3> QED BY Zenon, <3>1 DEF Elems
    <2> QED BY Zenon, <1>1, <2>1 DEF Elems
  <1>4. Head(q) \in Elems(q) BY <1>1 DEF Elems
  <1> QED BY Zenon, <1>1, <1>2, <1>3, <1>4

LEMMA ElemsAppend ==
    ASSUME NEW S, NEW q \in Seq(S), NEW e \in S
    PROVE  Append(q, e) \in Seq(S) /\ Elems(Append(q, e)) = Elems(q) \cup {e}
  <1>1. /\ Append(q, e) \in Seq(S) /\ Len(q) \in Nat
        /\ Len(Append(q, e)) = Len(q) + 1 /\ Append(q, e)[Len(q) + 1] = e
        /\ \A i \in 1 .. Len(q) : Append(q, e)[i] = q[i]
    OBVIOUS
  <1>2. Elems(Append(q, e)) \subseteq Elems(q) \cup {e}
    <2>1. ASSUME NEW i \in 1 .. Len(q) + 1 PROVE Append(q, e)[i] \in Elems(q) \cup {e}
      <3>1. CASE i = Len(q) + 1 BY Zenon, <1>1, <3>1
      <3>2. CASE i # Len(q) + 1
        <4>1. i \in 1 .. Len(q) BY <1>1, <3>2
        <4> QED BY Zenon, <1>1, <4>1 DEF Elems
      <3> QED BY Zenon, <3>1, <3>2
    <2> QED BY Zenon, <1>1, <2>1 DEF Elems
  <1>3. Elems(q) \subseteq Elems(Append(q, e))
    <2>1. ASSUME NEW i \in 1 .. Len(q) PROVE q[i] \in Elems(Append(q, e))
      <3>1. i \in 1 .. Len(Append(q, e)) /\ q[i] = Append(q, e)[i] BY <1>1
      <3> QED BY Zenon, <3>1 DEF Elems
    <2> QED BY Zenon, <2>1 DEF Elems
  <1>4. e \in Elems(Append(q, e))
    <2>1. Len(q) + 1 \in 1 .. Len(Append(q, e)) BY <1>1
    <2> QED BY Zenon, <1>1, <2>1 DEF Elems
  <1> QED BY Zenon, <1>1, <1>2, <1>3, <1>4

LEMMA FirstTail ==
    ASSUME NEW S, NEW q \in Seq(S), q # <<>>, OnlyFirst(q)
    PROVE  OnlyFirst(Tail(q)) /\ \A c \in Elems(Tail(q)) : c.cmd # "start"
  <1>1. \A i \in 1 .. Len(Tail(q)) : i + 1 \in 2 .. Len(q) /\ Tail(q)[i] = q[i + 1]
    OBVIOUS
  <1>2. \A i \in 1 .. Len(Tail(q)) : Tail(q)[i].cmd # "start" BY Zenon, <1>1 DEF OnlyFirst
  <1>3. \A i \in 2 .. Len(Tail(q)) : i \in 1 .. Len(Tail(q)) OBVIOUS
  <1> QED BY Zenon, <1>2, <1>3 DEF OnlyFirst, Elems

LEMMA FirstAppend ==
    ASSUME NEW S, NEW q \in Seq(S), NEW e \in S, OnlyFirst(q), e.cmd # "start"
    PROVE  OnlyFirst(Append(q, e))
  <1>1. ASSUME NEW i \in 2 .. Len(q) + 1 PROVE Append(q, e)[i].cmd # "start"
    <2>1. CASE i \in 2 .. Len(q) BY <2>1 DEF OnlyFirst
    <2>2. CASE i = Len(q) + 1 BY <2>2
    <2> QED BY <2>1, <2>2
  <1> QED BY <1>1 DEF OnlyFirst

LEMMA Minimum ==
    ASSUME NEW T, T \subseteq Nat, T # {}
    PROVE  \E x \in T : \A y \in T : x <= y
  <1> DEFINE R == OpToRel(<, Nat)
  <1>1. IsWellFoundedOn(R, Nat) BY Zenon, NatLessThanWellFounded
  <1> HIDE DEF R
  <1>2. PICK x \in T : \A y \in T : ~ (<<y, x>> \in R) BY Zenon, <1>1, WFMin
  <1>3. ASSUME NEW y \in T PROVE x <= y
    <2>1. y < x => <<y, x>> \in R BY Zenon DEF R, OpToRel
    <2> QED BY <1>2, <2>1
  <1> QED BY Zenon, <1>3

\* Both minima of trdispatch.c.
LEMMA OthersStatusMin ==
    ASSUME NEW status \in [Mcus -> Nat], NEW m \in Mcus
    PROVE  /\ OthersStatus(status, m) \in Nat
           /\ \A a \in Mcus \ {m} : OthersStatus(status, m) <= status[a]
  <1> DEFINE others == IF Mcus = {m} THEN {m} ELSE Mcus \ {m}
             T == {status[n] : n \in others}
             Least(t) == \A n \in others : t <= status[n]
  <1>1. others \subseteq Mcus /\ others # {} /\ Mcus \ {m} \subseteq others BY Zenon
  <1>2. OthersStatus(status, m) = CHOOSE t \in T : Least(t) BY Zenon DEF OthersStatus
  <1> HIDE DEF others
  <1>3. T \subseteq Nat /\ T # {} BY Zenon, <1>1
  <1>4. \E t \in T : Least(t)
    <2>1. PICK t \in T : \A y \in T : t <= y BY Zenon, <1>3, Minimum
    <2> QED BY Zenon, <2>1
  <1> HIDE DEF T, Least
  <1>5. OthersStatus(status, m) \in T /\ Least(OthersStatus(status, m)) BY Zenon, <1>2, <1>4
  <1> QED BY Zenon, <1>1, <1>3, <1>5 DEF Least

-----------------------------------------------------------------------------
(* Types. *)

LEMMA Order ==
    /\ \A a \in Nat : a <= a /\ ~ (a < a)
    /\ \A a, b, c \in Nat : a <= b /\ b <= c => a <= c
  OBVIOUS

LEMMA Typed ==
    ASSUME TypeOK
    PROVE  /\ toMcu \in [Mcus -> Seq(Command)] /\ stepQ \in [Mcus -> Seq(StepCommand)]
           /\ toHost \in [Mcus -> Seq(Report)] /\ callback \in [Mcus -> Seq(Report)]
           /\ mcu \in [Mcus -> McuState] /\ now \in Nat /\ session \in Nat /\ startClock \in Nat
  BY Zenon DEF TypeOK, Command, StepCommand, Report, Times

LEMMA HorizonType ==
    ASSUME TypeOK, NEW a \in Mcus
    PROVE  /\ Horizon[a] \in Nat /\ startClock <= Horizon[a]
           /\ trigAt[a] = None => now <= Horizon[a]
           /\ trigAt[a] # None => Horizon[a] \in {startClock, trigAt[a]}
  BY DEF TypeOK, Horizon, Times, None

\* A micro-controller's horizon stays when its trsync triggers ...
LEMMA HorizonSame ==
    ASSUME TypeOK, now' = now, startClock' = startClock,
           \A a \in Mcus : trigAt'[a] = trigAt[a] \/ (trigAt[a] = None /\ trigAt'[a] = now)
    PROVE  Horizon' = Horizon
  <1>1. ASSUME NEW a \in Mcus
        PROVE  (IF trigAt[a] = None THEN now ELSE trigAt[a])' = IF trigAt[a] = None THEN now ELSE trigAt[a]
    BY Zenon DEF TypeOK, Times, None
  <1> QED BY Zenon, <1>1 DEF Horizon

\* ... and moves ahead with time.
LEMMA HorizonAhead ==
    ASSUME TypeOK, TypeOK', now <= now', startClock <= startClock', NEW a \in Mcus,
           \/ trigAt'[a] = trigAt[a]
           \/ trigAt'[a] = None /\ (trigAt[a] # None => trigAt[a] <= now)
    PROVE  Horizon'[a] \in Nat /\ Horizon[a] \in Nat /\ Horizon[a] <= Horizon'[a]
  <1> DEFINE h == IF trigAt[a] = None THEN now ELSE trigAt[a]
  <1>0. /\ now \in Nat /\ trigAt[a] \in Nat \cup {None}
        /\ now' \in Nat /\ trigAt'[a] \in Nat \cup {None}
    BY Zenon DEF TypeOK, Times
  <1>1. h \in Nat /\ h' \in Nat /\ h <= h' BY <1>0
  <1>2. /\ Horizon[a] = IF h < startClock THEN startClock ELSE h
        /\ Horizon'[a] = IF h' < startClock' THEN startClock' ELSE h'
    BY Zenon DEF Horizon
  <1>3. startClock \in Nat /\ startClock' \in Nat BY Zenon DEF TypeOK, Times
  <1> QED BY <1>1, <1>2, <1>3

LEMMA ClearedType == Cleared \in McuState
  BY DEF Cleared, McuState

LEMMA ShutdownFacts ==
    ASSUME NEW x \in McuState
    PROVE  /\ Shutdown(x) \in McuState
           /\ Shutdown(x).can = FALSE /\ Shutdown(x).expire = None
           /\ Shutdown(x).reportAt = None /\ Shutdown(x).down = TRUE
           /\ Shutdown(x).stepper = "needReset"
  <1>1. stepper_stop(x).stepper = "needReset" BY Zenon DEF stepper_stop, McuState
  <1>2. Shutdown(x) = [Cleared EXCEPT !.stepper = "needReset", !.down = TRUE] BY Zenon, <1>1 DEF Shutdown
  <1>3. Shutdown(x) \in McuState BY Zenon, <1>2, ClearedType DEF McuState
  <1> QED BY Zenon, <1>2, <1>3 DEF Cleared

LEMMA TriggerFacts ==
    ASSUME NEW x \in McuState, NEW r \in 0 .. 4
    PROVE  /\ trsync_do_trigger(x, r) \in McuState
           /\ trsync_do_trigger(x, r).can = FALSE
           /\ trsync_do_trigger(x, r).expire = x.expire
           /\ trsync_do_trigger(x, r).reportAt = x.reportAt
           /\ trsync_do_trigger(x, r).down = x.down
           /\ trsync_do_trigger(x, r).stepper = IF x.can /\ x.signal THEN "needReset" ELSE x.stepper
  BY Zenon DEF trsync_do_trigger, stepper_stop, McuState

\* What a micro-controller that starts no session does: it may stop, not go on.
Calm(x, y) ==
    /\ y.can => x.can /\ ~ y.down /\ y.signal = x.signal
    /\ y.can /\ y.expire = None => x.expire = None
    /\ x.reportAt = None => y.reportAt = None
    /\ y.down => y.reportAt = None
    /\ x.down => y.down
    /\ \/ y.stepper = x.stepper /\ (y.can \/ ~ x.can \/ ~ x.signal)
       \/ y.stepper = "needReset"

Sane(x) == /\ x.can => ~ x.down
           /\ x.down => x.reportAt = None

LEMMA ShutdownCalm ==
    ASSUME NEW x \in McuState PROVE Calm(x, Shutdown(x))
  BY Zenon, ShutdownFacts DEF Calm

LEMMA TriggerCalm ==
    ASSUME NEW x \in McuState, Sane(x), NEW r \in 0 .. 4
    PROVE  Calm(x, trsync_do_trigger(x, r))
  <1> DEFINE y == trsync_do_trigger(x, r)
  <1>1. /\ ~ y.can /\ y.reportAt = x.reportAt /\ y.down = x.down
        /\ y.stepper = IF x.can /\ x.signal THEN "needReset" ELSE x.stepper
    BY Zenon, TriggerFacts
  <1> HIDE DEF y
  <1>2. Calm(x, y) BY Zenon, <1>1 DEF Calm, Sane
  <1> QED BY Zenon, <1>2 DEF y

LEMMA HandleFacts ==
    ASSUME TypeOK, NEW x \in McuState, Sane(x), NEW c \in Command, NEW s,
           c.cmd = "trigger" => c.arg \in 0 .. 4, c.cmd # "start"
    PROVE  /\ Handle(x, c, s) \in McuState /\ Calm(x, Handle(x, c, s))
           /\ \/ Handle(x, c, s).expire \in {x.expire, None}
              \/ c.cmd = "set_timeout" /\ Handle(x, c, s).expire = c.arg /\ now <= c.arg
           /\ c.cmd = "trigger" => ~ Handle(x, c, s).can /\ Handle(x, c, s).reportAt = None
           /\ c.cmd = "set_timeout" => ~ Handle(x, c, s).can \/ Handle(x, c, s).expire # None
  <1>0. c.cmd \in Commands /\ c.arg \in Nat BY Zenon DEF Command, Times
  <1>1. Calm(x, x) BY Zenon DEF Calm, Sane
  <1>2. CASE x.down
    <2>1. Handle(x, c, s) = x BY Zenon, <1>2 DEF Handle
    <2> QED BY Zenon, <1>1, <1>2, <2>1 DEF Sane
  <1>3. CASE ~ x.down /\ c.cmd = "set_timeout"
    <2> DEFINE y == [x EXCEPT !.expire = c.arg]
    <2>1. Handle(x, c, s) = IF ~ x.can THEN x ELSE IF TooClose(c.arg) THEN Shutdown(x) ELSE y
      BY Zenon, <1>3 DEF Handle
    <2>2. y \in McuState BY Zenon, <1>0 DEF McuState, Times
    <2>3. /\ y.can = x.can /\ y.expire = c.arg /\ y.down = x.down /\ y.signal = x.signal
          /\ y.reportAt = x.reportAt /\ y.stepper = x.stepper
      BY Zenon DEF McuState
    <2>4. c.arg # None BY <1>0 DEF None
    <2> HIDE DEF y
    <2>5. CASE ~ x.can BY Zenon, <1>1, <2>1, <2>5, <1>3
    <2>6. CASE x.can /\ TooClose(c.arg) BY Zenon, <2>1, <2>6, <1>3, ShutdownCalm, ShutdownFacts
    <2>7. CASE x.can /\ ~ TooClose(c.arg)
      <3>1. Handle(x, c, s) = y /\ now <= c.arg BY SMTT(60), <2>1, <2>7, <1>0 DEF TooClose, TypeOK, Times
      <3>2. Calm(x, y) BY Zenon, <2>3, <2>4, <2>7 DEF Calm, Sane
      <3> QED BY Zenon, <3>1, <3>2, <2>2, <2>3, <2>4, <1>3
    <2> QED BY Zenon, <2>5, <2>6, <2>7
  <1>4. CASE ~ x.down /\ c.cmd = "trigger"
    <2> DEFINE z == trsync_do_trigger(x, c.arg)
               y == [z EXCEPT !.expire = None, !.reportAt = None]
    <2>1. Handle(x, c, s) = y BY Zenon, <1>4 DEF Handle
    <2>2. z \in McuState /\ z.can = FALSE /\ Calm(x, z) BY Zenon, <1>4, TriggerFacts, TriggerCalm
    <2> HIDE DEF z
    <2>3. y \in McuState BY Zenon, <2>2 DEF McuState
    <2>4. /\ y.can = z.can /\ y.expire = None /\ y.down = z.down
          /\ y.reportAt = None /\ y.stepper = z.stepper
      BY Zenon, <2>2 DEF McuState
    <2> HIDE DEF y
    <2>5. Calm(x, y) BY Zenon, <2>2, <2>4 DEF Calm
    <2> QED BY Zenon, <2>1, <2>2, <2>3, <2>4, <2>5
  <1>5. CASE ~ x.down /\ c.cmd \in {"home", "home_off", "emergency_stop"}
    <2>1. Handle(x, c, s) \in {x, Shutdown(x)} BY Zenon, <1>5 DEF Handle
    <2> QED BY Zenon, <1>1, <1>5, <2>1, ShutdownCalm, ShutdownFacts
  <1> QED BY Zenon, <1>0, <1>2, <1>3, <1>4, <1>5 DEF Commands

\* A trsync_start.
LEMMA HandleStart ==
    ASSUME TypeOK, NEW x \in McuState, NEW c \in Command, NEW s \in BOOLEAN, c.cmd = "start"
    PROVE  \/ x.down /\ Handle(x, c, s) = x
           \/ Handle(x, c, s) = Shutdown(x)
           \/ /\ ~ x.down /\ now <= c.arg /\ Handle(x, c, s) \in McuState
              /\ Handle(x, c, s).can = TRUE /\ Handle(x, c, s).down = FALSE
              /\ Handle(x, c, s).expire = None /\ Handle(x, c, s).signal = s
              /\ Handle(x, c, s).stepper = x.stepper
  <1>0. c.arg \in Nat BY Zenon DEF Command, Times
  <1>1. CASE x.down BY Zenon, <1>1 DEF Handle
  <1>2. CASE ~ x.down /\ TooClose(c.arg) BY Zenon, <1>2 DEF Handle
  <1>3. CASE ~ x.down /\ ~ TooClose(c.arg)
    <2> DEFINE y == [Cleared EXCEPT !.can = TRUE, !.reportAt = c.arg, !.stepper = x.stepper,
                                    !.signal = s]
    <2>1. Handle(x, c, s) = y BY Zenon, <1>3 DEF Handle
    <2>2. y \in McuState BY Zenon, <1>0, ClearedType DEF McuState, Times
    <2>3. /\ y.can = TRUE /\ y.down = FALSE /\ y.expire = None
          /\ y.signal = s /\ y.stepper = x.stepper
      BY Zenon DEF Cleared
    <2>4. now <= c.arg BY <1>0, <1>3 DEF TooClose, TypeOK, Times
    <2> HIDE DEF y
    <2> QED BY Zenon, <1>3, <2>1, <2>2, <2>3, <2>4
  <1> QED BY Zenon, <1>1, <1>2, <1>3

-----------------------------------------------------------------------------
(* What keeps each part of the invariant of a micro-controller. *)

\* The session and the horizons stay.
Steady == /\ now' = now /\ session' = session /\ startClock' = startClock /\ Horizon' = Horizon
          /\ Live' => Live

LEMMA StartingElems ==
    ASSUME NEW m \in Mcus
    PROVE  /\ m \in Starting <=> \E c \in Elems(toMcu[m]) : c.cmd = "start"
           /\ m \in Starting' <=> \E c \in Elems(toMcu'[m]) : c.cmd = "start"
  BY Zenon DEF Starting

LEMMA TimingElems ==
    ASSUME NEW m \in Mcus
    PROVE  /\ m \in Timing <=> \E c \in Elems(toMcu[m]) : c.cmd = "set_timeout"
           /\ m \in Timing' <=> \E c \in Elems(toMcu'[m]) : c.cmd = "set_timeout"
  BY Zenon DEF Timing

\* Commands are delivered, and commands other than trsync_start are sent.
LEMMA CommandsKept ==
    ASSUME NEW m \in Mcus, CommandsOK(m), Steady, OnlyFirst(toMcu'[m]),
           \A c \in Elems(toMcu'[m]) : c \in Elems(toMcu[m]) \/ CommandOK(m, c)
    PROVE  CommandsOK(m)'
  <1>1. ASSUME NEW c \in Elems(toMcu'[m]) PROVE CommandOK(m, c)'
    <2>1. CommandOK(m, c) BY Zenon DEF CommandsOK
    <2> QED BY Zenon, <2>1 DEF CommandOK, Steady
  <1> QED BY Zenon, <1>1 DEF CommandsOK

LEMMA McuKept ==
    ASSUME NEW m \in Mcus, McuOK(m), Steady, mcu'[m] = mcu[m], trigAt'[m] = trigAt[m],
           m \in Starting' => m \in Starting, m \in Timing => m \in Timing'
    PROVE  McuOK(m)'
  BY Zenon DEF McuOK, Bounded, Steady

LEMMA ReportsKept ==
    ASSUME NEW m \in Mcus, ReportsOK(m), Steady, lastStatus'[m] <= Horizon[m],
           \A r \in Elems(toHost'[m]) \cup Elems(callback'[m]) :
               \/ r \in Elems(toHost[m]) \cup Elems(callback[m])
               \/ r.can => r.clock <= Horizon[m]
    PROVE  ReportsOK(m)'
  BY Zenon DEF ReportsOK, Steady

LEMMA FreshKept ==
    ASSUME NEW m \in Mcus, Fresh(m), Steady,
           \A x \in Elems(toMcu'[m]) \cup Elems(toHost'[m]) \cup Elems(callback'[m]) :
               \/ x \in Elems(toMcu[m]) \cup Elems(toHost[m]) \cup Elems(callback[m])
               \/ x.ses = session
    PROVE  Fresh(m)'
  BY Zenon DEF Fresh, Steady

\* No step is sent or delivered.
LEMMA StepsKept ==
    ASSUME NEW m \in Mcus, StepsOK(m), McuOK(m), Steady, stepQ'[m] = stepQ[m],
           Calm(mcu[m], mcu'[m]), m \in Starting' <=> m \in Starting
    PROVE  StepsOK(m)'
  <1>1. /\ mcu[m].down => mcu'[m].down
        /\ mcu[m].stepper = "needReset" => mcu'[m].stepper = "needReset"
        /\ mcu[m].can /\ m \in Steppers => mcu'[m].can \/ mcu'[m].stepper = "needReset"
    BY Zenon DEF Calm, McuOK
  <1>2. CASE m \notin Steppers
    <2>1. stepQ'[m] = <<>> /\ Elems(stepQ'[m]) = {} BY SMTT(60), <1>2 DEF StepsOK, Elems
    <2>2. 1 .. Len(stepQ'[m]) = {} BY SMTT(60), <2>1
    <2> QED BY Zenon, <1>2, <2>1, <2>2 DEF StepsOK, Behind
  <1>3. CASE m \in Steppers
    <2>1. ASSUME NEW c \in Elems(stepQ'[m]) PROVE StepOK(m, c)'
      <3>1. StepOK(m, c) BY Zenon DEF StepsOK
      <3> QED BY Zenon, <1>1, <1>3, <3>1 DEF StepOK, Steady
    <2>2. Behind(m)' BY Zenon, <1>1 DEF StepsOK, Behind, Steady
    <2> QED BY Zenon, <1>1, <1>3, <2>1, <2>2 DEF StepsOK, Steady
  <1> QED BY Zenon, <1>2, <1>3

\* Nothing happens to a micro-controller.
LEMMA Untouched ==
    ASSUME NEW m \in Mcus, Board(m), Steady, mcu'[m] = mcu[m], trigAt'[m] = trigAt[m],
           toMcu'[m] = toMcu[m], stepQ'[m] = stepQ[m], toHost'[m] = toHost[m],
           callback'[m] = callback[m], lastStatus'[m] = lastStatus[m]
    PROVE  Board(m)'
  <1>1. m \in Starting' <=> m \in Starting BY Zenon, StartingElems
  <1>2. CommandsOK(m)' BY Zenon, CommandsKept DEF Board, CommandsOK
  <1>3. McuOK(m)' BY Zenon, <1>1, TimingElems, McuKept DEF Board
  <1>4. ReportsOK(m)' BY Zenon, ReportsKept DEF Board, ReportsOK
  <1>5. Fresh(m)' BY Zenon, FreshKept DEF Board
  <1>6. StepsOK(m)'
    <2>1. Calm(mcu[m], mcu'[m]) BY Zenon DEF Board, McuOK, Calm
    <2> QED BY Zenon, <1>1, <2>1, StepsKept DEF Board
  <1> QED BY Zenon, <1>2, <1>3, <1>4, <1>5, <1>6 DEF Board

\* The host sends at most one command, and not a trsync_start.
Sends(m) ==
    \/ toMcu'[m] = toMcu[m]
    \/ \E c \in Command : /\ c.cmd # "start" /\ c.ses = session /\ CommandOK(m, c)
                          /\ toMcu'[m] = Append(toMcu[m], c)

LEMMA SendsFacts ==
    ASSUME TypeOK, NEW m \in Mcus, CommandsOK(m), Sends(m)
    PROVE  /\ OnlyFirst(toMcu'[m]) /\ Elems(toMcu[m]) \subseteq Elems(toMcu'[m])
           /\ \A c \in Elems(toMcu'[m]) :
                 c \in Elems(toMcu[m]) \/ (c.cmd # "start" /\ c.ses = session /\ CommandOK(m, c))
           /\ m \in Starting' <=> m \in Starting
           /\ m \in Timing => m \in Timing'
  <1>1. toMcu[m] \in Seq(Command) /\ OnlyFirst(toMcu[m]) BY Zenon, Typed DEF CommandsOK
  <1>2. /\ OnlyFirst(toMcu'[m]) /\ Elems(toMcu[m]) \subseteq Elems(toMcu'[m])
        /\ \A c \in Elems(toMcu'[m]) :
              c \in Elems(toMcu[m]) \/ (c.cmd # "start" /\ c.ses = session /\ CommandOK(m, c))
    <2>1. CASE toMcu'[m] = toMcu[m] BY Zenon, <1>1, <2>1
    <2>2. CASE toMcu'[m] # toMcu[m]
      <3>1. PICK c \in Command : /\ c.cmd # "start" /\ c.ses = session /\ CommandOK(m, c)
                                 /\ toMcu'[m] = Append(toMcu[m], c)
        BY Zenon, <2>2 DEF Sends
      <3>2. OnlyFirst(toMcu'[m]) BY Zenon, <1>1, <3>1, FirstAppend
      <3>3. Elems(toMcu'[m]) = Elems(toMcu[m]) \cup {c} BY SMTT(60), <1>1, <3>1, ElemsAppend
      <3> QED BY <3>1, <3>2, <3>3
    <2> QED BY Zenon, <2>1, <2>2
  <1> QED BY Zenon, <1>2, StartingElems, TimingElems

\* A step of the host that moves reports and sends commands.
LEMMA HostStep ==
    ASSUME TypeOK, NEW m \in Mcus, Board(m), Steady, mcu' = mcu, trigAt' = trigAt, stepQ' = stepQ,
           Sends(m), Elems(toHost'[m]) \subseteq Elems(toHost[m]),
           Elems(callback'[m]) \subseteq Elems(callback[m]) \cup Elems(toHost[m]),
           lastStatus'[m] <= Horizon[m]
    PROVE  Board(m)'
  <1>1. CommandsOK(m) /\ McuOK(m) /\ ReportsOK(m) /\ Fresh(m) /\ StepsOK(m) BY Zenon DEF Board
  <1>2. /\ OnlyFirst(toMcu'[m])
        /\ \A c \in Elems(toMcu'[m]) :
              c \in Elems(toMcu[m]) \/ (c.cmd # "start" /\ c.ses = session /\ CommandOK(m, c))
        /\ m \in Starting' <=> m \in Starting
        /\ m \in Timing => m \in Timing'
    BY Zenon, <1>1, SendsFacts
  <1>3. CommandsOK(m)' BY Zenon, <1>1, <1>2, CommandsKept
  <1>4. McuOK(m)' BY Zenon, <1>1, <1>2, McuKept
  <1>5. ReportsOK(m)' BY Zenon, <1>1, ReportsKept
  <1>6. Fresh(m)' BY Zenon, <1>1, <1>2, FreshKept
  <1>7. StepsOK(m)'
    <2>1. Calm(mcu[m], mcu'[m]) BY Zenon, <1>1 DEF McuOK, Calm
    <2> QED BY Zenon, <1>1, <1>2, <2>1, StepsKept
  <1> QED BY Zenon, <1>3, <1>4, <1>5, <1>6, <1>7 DEF Board

\* A command other than trsync_start is delivered.
Receives(m) == /\ toMcu[m] # <<>> /\ Head(toMcu[m]).cmd # "start"
               /\ toMcu'[m] = Tail(toMcu[m])
               /\ Head(toMcu[m]).cmd = "set_timeout" => ~ mcu'[m].can \/ mcu'[m].expire # None

LEMMA ReceivesFacts ==
    ASSUME TypeOK, NEW m \in Mcus, CommandsOK(m), Receives(m)
    PROVE  /\ OnlyFirst(toMcu'[m]) /\ Elems(toMcu'[m]) \subseteq Elems(toMcu[m])
           /\ (m \in Starting' <=> m \in Starting) /\ m \notin Starting'
           /\ mcu'[m].can /\ mcu'[m].expire = None /\ m \in Timing => m \in Timing'
  <1>1. toMcu[m] \in Seq(Command) /\ OnlyFirst(toMcu[m]) BY Zenon, Typed DEF CommandsOK
  <1>2. /\ Elems(toMcu[m]) = {Head(toMcu[m])} \cup Elems(toMcu'[m])
        /\ OnlyFirst(toMcu'[m]) /\ \A c \in Elems(toMcu'[m]) : c.cmd # "start"
    BY Zenon, <1>1, ElemsTail, FirstTail DEF Receives
  <1> QED BY Zenon, <1>2, StartingElems, TimingElems DEF Receives

\* What a micro-controller reports.
Reports(m) ==
    \/ toHost'[m] = toHost[m]
    \/ \E r \in Report : /\ r.ses = session /\ (r.can => r.clock <= Horizon[m])
                         /\ toHost'[m] = Append(toHost[m], r)

LEMMA ReportsFacts ==
    ASSUME TypeOK, NEW m \in Mcus, Reports(m)
    PROVE  \A r \in Elems(toHost'[m]) :
              r \in Elems(toHost[m]) \/ (r.ses = session /\ (r.can => r.clock <= Horizon[m]))
  <1>1. toHost[m] \in Seq(Report) BY Zenon, Typed
  <1>2. CASE toHost'[m] = toHost[m] BY Zenon, <1>2
  <1>3. CASE toHost'[m] # toHost[m]
    <2>1. PICK r \in Report : /\ r.ses = session /\ (r.can => r.clock <= Horizon[m])
                              /\ toHost'[m] = Append(toHost[m], r)
      BY Zenon, <1>3 DEF Reports
    <2>2. Elems(toHost'[m]) = Elems(toHost[m]) \cup {r} BY <1>1, <2>1, ElemsAppend
    <2> QED BY Zenon, <2>1, <2>2
  <1> QED BY Zenon, <1>2, <1>3

\* A trsync that can no longer trigger has its time noted.
Noted(m) ==
    \/ trigAt'[m] = trigAt[m] /\ (mcu'[m].can \/ ~ mcu[m].can)
    \/ trigAt'[m] = now /\ mcu[m].can /\ ~ mcu'[m].can

LEMMA NoteFacts ==
    ASSUME TypeOK, NEW m \in Mcus, Note(m)
    PROVE  Noted(m) /\ \A a \in Mcus \ {m} : trigAt'[a] = trigAt[a]
  BY Zenon DEF Note, Noted, TypeOK

\* A step of a micro-controller by which it may stop.
LEMMA CalmStep ==
    ASSUME TypeOK, NEW m \in Mcus, Board(m), Steady, Noted(m),
           Calm(mcu[m], mcu'[m]), Bounded(m, mcu'[m].expire),
           toMcu'[m] = toMcu[m] \/ Receives(m), Reports(m),
           stepQ' = stepQ, callback' = callback, lastStatus' = lastStatus
    PROVE  Board(m)'
  <1>1. CommandsOK(m) /\ McuOK(m) /\ ReportsOK(m) /\ Fresh(m) /\ StepsOK(m) BY Zenon DEF Board
  <1>2. /\ OnlyFirst(toMcu'[m]) /\ Elems(toMcu'[m]) \subseteq Elems(toMcu[m])
        /\ m \in Starting' <=> m \in Starting
        /\ (mcu'[m].can /\ mcu'[m].expire = None) \/ m \in Starting' => m \in Timing'
    <2>1. CASE toMcu'[m] = toMcu[m]
      BY Zenon, <1>1, <2>1, StartingElems, TimingElems DEF CommandsOK, McuOK, Calm
    <2>2. CASE Receives(m) BY Zenon, <1>1, <2>2, ReceivesFacts DEF McuOK, Calm
    <2> QED BY Zenon, <2>1, <2>2
  <1>3. CommandsOK(m)' BY Zenon, <1>1, <1>2, CommandsKept
  <1>4. McuOK(m)'
    <2>1. Bounded(m, mcu[m].expire)' BY Zenon DEF Bounded, Steady
    <2>2. mcu'[m].stepper = "moving" => mcu'[m].can /\ m \in Steppers BY Zenon, <1>1 DEF McuOK, Calm
    <2>3. trigAt'[m] # None => trigAt'[m] <= now' /\ ~ mcu'[m].can /\ m \notin Starting'
      <3>1. now <= now BY Zenon, Typed, Order
      <3> QED BY Zenon, <1>1, <1>2, <3>1 DEF McuOK, Calm, Noted, Steady
    <2> QED BY Zenon, <1>1, <1>2, <2>1, <2>2, <2>3 DEF McuOK, Calm
  <1>5. \A r \in Elems(toHost'[m]) :
            r \in Elems(toHost[m]) \/ (r.ses = session /\ (r.can => r.clock <= Horizon[m]))
    BY Zenon, ReportsFacts
  <1>6. ReportsOK(m)' BY Zenon, <1>1, <1>5, ReportsKept DEF ReportsOK
  <1>7. Fresh(m)' BY Zenon, <1>1, <1>2, <1>5, FreshKept
  <1>8. StepsOK(m)' BY Zenon, <1>1, <1>2, StepsKept
  <1> QED BY Zenon, <1>3, <1>4, <1>6, <1>7, <1>8 DEF Board

-----------------------------------------------------------------------------
(* The steps of a micro-controller. *)

LEMMA PhaseKept ==
    ASSUME PhaseOK, UNCHANGED <<now, startClock, phase, td, asking, todo>>,
           phase = "stop" => callback' = callback,
           Quiet \subseteq Quiet', Stopping \subseteq Stopping'
    PROVE  PhaseOK'
  <1>1. Quiet' \subseteq Mcus BY Zenon DEF Quiet
  <1> QED BY Zenon, <1>1 DEF PhaseOK

Local(m) ==
    /\ Note(m) /\ UNCHANGED <<callback, dispatch, session_, time>>
    /\ \A a \in Mcus \ {m} : /\ mcu'[a] = mcu[a] /\ toMcu'[a] = toMcu[a]
                             /\ stepQ'[a] = stepQ[a] /\ toHost'[a] = toHost[a]

LEMMA LocalFacts ==
    ASSUME TypeOK, \A a \in Mcus : Board(a), NEW m \in Mcus, Local(m)
    PROVE  /\ Steady /\ Noted(m) /\ \A a \in Mcus \ {m} : Board(a)'
           /\ UNCHANGED <<now, startClock, session, phase, td, asking, todo, callback, lastStatus>>
           /\ Quiet \ {m} \subseteq Quiet' /\ Stopping \ {m} \subseteq Stopping'
  <1>1. UNCHANGED <<now, startClock, session, phase, td, asking, todo, callback, lastStatus>>
    BY Zenon DEF Local, dispatch, session_, time
  <1>2. Noted(m) /\ \A a \in Mcus \ {m} : trigAt'[a] = trigAt[a] BY Zenon, NoteFacts DEF Local
  <1>3. McuOK(m) BY Zenon DEF Board
  <1>4. \A a \in Mcus : trigAt'[a] = trigAt[a] \/ (trigAt[a] = None /\ trigAt'[a] = now)
    BY Zenon, <1>2, <1>3 DEF Noted, McuOK
  <1>5. Horizon' = Horizon BY Zenon, <1>1, <1>4, HorizonSame
  <1>6. Steady BY Zenon, <1>1, <1>5 DEF Steady, Live
  <1>7. ASSUME NEW a \in Mcus \ {m} PROVE Board(a)'
    BY Zenon, <1>1, <1>2, <1>6, <1>7, Untouched DEF Local
  <1>8. ASSUME NEW a \in Mcus \ {m}
        PROVE  (a \in Quiet => a \in Quiet') /\ (a \in Stopping => a \in Stopping')
    <2>1. mcu'[a] = mcu[a] /\ toMcu'[a] = toMcu[a] /\ toHost'[a] = toHost[a] /\ callback'[a] = callback[a]
      BY Zenon, <1>1 DEF Local
    <2>2. a \in Starting' <=> a \in Starting BY Zenon, <2>1, StartingElems
    <2> QED BY Zenon, <2>1, <2>2 DEF Quiet, Stopping
  <1>9. Quiet \ {m} \subseteq Quiet' /\ Stopping \ {m} \subseteq Stopping'
    BY Zenon, <1>8 DEF Quiet, Stopping
  <1> QED BY Zenon, <1>1, <1>2, <1>6, <1>7, <1>9

LEMMA CalmLocal ==
    ASSUME IInv, TypeOK', NEW m \in Mcus, Local(m), stepQ' = stepQ,
           Calm(mcu[m], mcu'[m]), Bounded(m, mcu'[m].expire),
           \/ toMcu'[m] = toMcu[m]
           \/ /\ Receives(m)
              /\ Head(toMcu[m]).cmd = "trigger" => ~ mcu'[m].can /\ mcu'[m].reportAt = None,
           Reports(m), m \in Quiet => toHost'[m] = toHost[m]
    PROVE  IInv'
  <1>1. TypeOK /\ PhaseOK /\ \A a \in Mcus : Board(a) BY Zenon DEF IInv
  <1>2. /\ Steady /\ Noted(m) /\ \A a \in Mcus \ {m} : Board(a)'
        /\ UNCHANGED <<now, startClock, session, phase, td, asking, todo, callback, lastStatus>>
        /\ Quiet \ {m} \subseteq Quiet' /\ Stopping \ {m} \subseteq Stopping'
    BY Zenon, <1>1, LocalFacts
  <1>3. Board(m)' BY Zenon, <1>1, <1>2, CalmStep
  <1>4. m \in Quiet => m \in Quiet' BY Zenon, <1>2 DEF Quiet, Calm, Receives
  <1>5. m \in Stopping => m \in Stopping'
    <2>1. CommandsOK(m) /\ toMcu[m] \in Seq(Command) BY Zenon, <1>1, Typed DEF Board
    <2>2. m \in Starting' <=> m \in Starting BY Zenon, <1>1, <2>1, ReceivesFacts, StartingElems
    <2>3. CASE ~ mcu[m].can /\ mcu[m].reportAt = None /\ m \notin Starting
      BY Zenon, <2>2, <2>3 DEF Stopping, Calm
    <2>4. CASE \E c \in Elems(toMcu[m]) : c.cmd = "trigger"
      <3>1. PICK c \in Elems(toMcu[m]) : c.cmd = "trigger" BY Zenon, <2>4
      <3>2. CASE c \in Elems(toMcu'[m]) BY Zenon, <3>1, <3>2 DEF Stopping
      <3>3. CASE c \notin Elems(toMcu'[m])
        <4>1. Receives(m) BY Zenon, <3>1, <3>3
        <4>2. c = Head(toMcu[m]) BY SMTT(60), <2>1, <3>1, <3>3, <4>1, ElemsTail DEF Receives
        <4>3. ~ mcu'[m].can /\ mcu'[m].reportAt = None BY Zenon, <3>1, <3>3, <4>2
        <4>4. m \notin Starting'
          <5>1. \A d \in Elems(toMcu'[m]) : d.cmd # "start"
            BY Zenon, <2>1, <4>1, FirstTail DEF Receives, CommandsOK
          <5> QED BY Zenon, <5>1, StartingElems
        <4> QED BY Zenon, <4>3, <4>4 DEF Stopping
      <3> QED BY Zenon, <3>2, <3>3
    <2> QED BY Zenon, <2>3, <2>4 DEF Stopping
  <1>6. Quiet \subseteq Quiet' /\ Stopping \subseteq Stopping' BY Zenon, <1>2, <1>4, <1>5
  <1>7. PhaseOK' BY Zenon, <1>1, <1>2, <1>6, PhaseKept
  <1> QED BY Zenon, <1>2, <1>3, <1>7 DEF IInv

LEMMA LocalType ==
    ASSUME TypeOK, NEW m \in Mcus, Note(m), UNCHANGED <<callback, dispatch, session_, time>>,
           mcu' \in [Mcus -> McuState], homing' \in Nat \cup {None},
           toMcu' \in [Mcus -> Seq(Command)], stepQ' \in [Mcus -> Seq(StepCommand)],
           toHost' \in [Mcus -> Seq(Report)]
    PROVE  TypeOK'
  <1>1. trigAt' \in [Mcus -> Nat \cup {None}] BY Zenon DEF TypeOK, Times, Note
  <1>2. \A q \in {toHost', callback'} : q \in [Mcus -> Seq(Report)] BY Zenon, Typed
  <1> QED BY ZenonT(60), <1>1, <1>2 DEF TypeOK, Times, Command, StepCommand, Report, dispatch, session_, time

LEMMA ReportType ==
    ASSUME TypeOK, NEW can \in BOOLEAN, NEW reason \in 0 .. 4, NEW clock \in Nat
    PROVE  /\ State(can, reason, clock) \in Report /\ State(can, reason, clock).ses = session
           /\ State(can, reason, clock).can = can /\ State(can, reason, clock).clock = clock
  BY Zenon DEF State, Report, Times, TypeOK

LEMMA SaneMcu ==
    ASSUME IInv, NEW m \in Mcus
    PROVE  /\ mcu[m] \in McuState /\ Sane(mcu[m]) /\ Bounded(m, mcu[m].expire)
           /\ mcu[m].can => trigAt[m] = None
           /\ mcu[m].can => now <= Horizon[m]
  <1>1. TypeOK /\ McuOK(m) BY Zenon DEF IInv, Board
  <1>2. mcu[m] \in McuState BY Zenon, <1>1, Typed
  <1> QED BY Zenon, <1>1, <1>2, HorizonType DEF McuOK, Sane

\* command_dispatch of what is not a trsync_start.
LEMMA DeliverInv ==
    ASSUME IInv, NEW m \in Mcus, Deliver(m), Head(toMcu[m]).cmd # "start"
    PROVE  IInv'
  <1> DEFINE c == Head(toMcu[m])
             x == Handle(mcu[m], c, m \in Steppers)
             r == State(FALSE, x.reason, 0)
  <1>1. TypeOK /\ CommandsOK(m) BY Zenon DEF IInv, Board
  <1>2. toMcu[m] # <<>> /\ toMcu[m] \in Seq(Command) BY Zenon, <1>1, Typed DEF Deliver
  <1>3. c \in Command /\ c \in Elems(toMcu[m]) /\ Tail(toMcu[m]) \in Seq(Command) BY Zenon, <1>2, ElemsTail
  <1>4. CommandOK(m, c) BY Zenon, <1>1, <1>3 DEF CommandsOK
  <1>5. mcu[m] \in McuState /\ Sane(mcu[m]) /\ Bounded(m, mcu[m].expire) BY Zenon, SaneMcu
  <1>6. /\ x \in McuState /\ Calm(mcu[m], x)
        /\ \/ x.expire \in {mcu[m].expire, None}
           \/ c.cmd = "set_timeout" /\ x.expire = c.arg /\ now <= c.arg
        /\ c.cmd = "trigger" => ~ x.can /\ x.reportAt = None
        /\ c.cmd = "set_timeout" => ~ x.can \/ x.expire # None
    BY Zenon, <1>1, <1>3, <1>4, <1>5, HandleFacts DEF CommandOK
  <1>7. Bounded(m, x.expire) BY Zenon, <1>4, <1>5, <1>6 DEF Bounded, CommandOK
  <1>8. /\ toMcu' = [toMcu EXCEPT ![m] = Tail(@)] /\ mcu' = [mcu EXCEPT ![m] = x]
        /\ toHost' = [toHost EXCEPT ![m] = Append(@, r)] \/ toHost' = toHost
        /\ homing' \in {homing, None, c.arg} /\ Note(m)
        /\ UNCHANGED <<stepQ, callback, dispatch, session_, time>>
    BY Zenon DEF Deliver
  <1>9. r \in Report /\ r.ses = session /\ r.can = FALSE
    <2>1. x.reason \in 0 .. 4 BY Zenon, <1>6 DEF McuState
    <2>2. FALSE \in BOOLEAN /\ 0 \in Nat BY Zenon
    <2> QED BY Zenon, <1>1, <2>1, <2>2, ReportType
  <1> HIDE DEF c, x, r
  <1>10. /\ mcu \in [Mcus -> McuState] /\ toMcu \in [Mcus -> Seq(Command)]
         /\ toHost \in [Mcus -> Seq(Report)] /\ stepQ \in [Mcus -> Seq(StepCommand)]
    BY Zenon, <1>1, Typed
  <1>11. /\ mcu'[m] = x /\ toMcu'[m] = Tail(toMcu[m]) /\ toHost'[m] \in {toHost[m], Append(toHost[m], r)}
         /\ \A a \in Mcus \ {m} : /\ mcu'[a] = mcu[a] /\ toMcu'[a] = toMcu[a]
                                  /\ stepQ'[a] = stepQ[a] /\ toHost'[a] = toHost[a]
    BY Zenon, <1>8, <1>10
  <1>12. TypeOK'
    <2>1. c.arg \in Nat /\ homing \in Nat \cup {None} BY Zenon, <1>1, <1>3 DEF Command, Times, TypeOK
    <2>2. Append(toHost[m], r) \in Seq(Report) BY Zenon, <1>9, <1>10, ElemsAppend
    <2>3. /\ mcu' \in [Mcus -> McuState] /\ toMcu' \in [Mcus -> Seq(Command)]
          /\ toHost' \in [Mcus -> Seq(Report)] /\ stepQ' \in [Mcus -> Seq(StepCommand)]
      BY Zenon, <1>3, <1>6, <1>8, <1>10, <2>2
    <2> QED BY Zenon, <1>1, <1>8, <2>1, <2>3, LocalType
  <1>13. Local(m) BY Zenon, <1>8, <1>11 DEF Local
  <1>14. Receives(m) /\ (Head(toMcu[m]).cmd = "trigger" => ~ mcu'[m].can /\ mcu'[m].reportAt = None)
    BY Zenon, <1>2, <1>6, <1>11 DEF Receives, c
  <1>15. Reports(m) BY Zenon, <1>9, <1>11 DEF Reports
  <1>16. m \notin Quiet BY Zenon, <1>2 DEF Quiet
  <1> QED BY Zenon, <1>6, <1>7, <1>8, <1>11, <1>12, <1>13, <1>14, <1>15, <1>16, CalmLocal

LEMMA ExpireInv ==
    ASSUME IInv, NEW m \in Mcus, trsync_expire_event(m) PROVE IInv'
  <1> DEFINE z == [mcu[m] EXCEPT !.expire = None]
             y == trsync_do_trigger(z, COMMS_TIMEOUT)
             r == State(y.can, y.reason, now)
  <1>1. TypeOK /\ mcu[m] \in McuState /\ Sane(mcu[m]) BY Zenon, SaneMcu DEF IInv
  <1>2. /\ mcu' = [mcu EXCEPT ![m] = y] /\ Note(m)
        /\ UNCHANGED <<homing, toMcu, stepQ, callback, dispatch, session_, time>>
    BY Zenon DEF trsync_expire_event
  <1>3. z \in McuState BY Zenon, <1>1 DEF McuState
  <1>4. /\ z.can = mcu[m].can /\ z.signal = mcu[m].signal /\ z.down = mcu[m].down
        /\ z.reportAt = mcu[m].reportAt /\ z.stepper = mcu[m].stepper /\ z.expire = None
    BY Zenon, <1>1 DEF McuState
  <1> HIDE DEF z
  <1>5. /\ y \in McuState /\ ~ y.can /\ y.expire = None /\ y.reportAt = z.reportAt /\ y.down = z.down
        /\ y.stepper = IF z.can /\ z.signal THEN "needReset" ELSE z.stepper
    <2>1. COMMS_TIMEOUT \in 0 .. 4 BY DEF COMMS_TIMEOUT
    <2> QED BY Zenon, <1>3, <1>4, <2>1, TriggerFacts
  <1> HIDE DEF y
  <1>6. Calm(mcu[m], y) /\ Bounded(m, y.expire) BY Zenon, <1>1, <1>4, <1>5 DEF Calm, Sane, Bounded
  <1>7. /\ mcu \in [Mcus -> McuState] /\ toMcu \in [Mcus -> Seq(Command)]
        /\ toHost \in [Mcus -> Seq(Report)] /\ stepQ \in [Mcus -> Seq(StepCommand)]
        /\ homing \in Nat \cup {None} /\ now \in Nat
    BY Zenon, <1>1, Typed DEF TypeOK, Times
  <1>8. mcu'[m] = y /\ \A a \in Mcus \ {m} : mcu'[a] = mcu[a] BY Zenon, <1>2, <1>7
  <1>9. IF mcu[m].can THEN toHost' = [toHost EXCEPT ![m] = Append(@, r)] ELSE toHost' = toHost
    BY Zenon, <1>8 DEF trsync_expire_event, trsync_task
  <1>10. r \in Report /\ r.ses = session /\ r.can = FALSE
    <2>1. y.reason \in 0 .. 4 /\ y.can = FALSE /\ FALSE \in BOOLEAN BY Zenon, <1>5 DEF McuState
    <2>2. /\ State(FALSE, y.reason, now) \in Report /\ State(FALSE, y.reason, now).ses = session
          /\ State(FALSE, y.reason, now).can = FALSE
      BY ZenonT(60), <1>1, <1>7, <2>1, ReportType
    <2> QED BY Zenon, <2>1, <2>2
  <1> HIDE DEF r
  <1>11. /\ toHost' \in [Mcus -> Seq(Report)] /\ \A a \in Mcus \ {m} : toHost'[a] = toHost[a]
         /\ toHost'[m] = IF mcu[m].can THEN Append(toHost[m], r) ELSE toHost[m]
    <2>1. Append(toHost[m], r) \in Seq(Report) BY Zenon, <1>7, <1>10, ElemsAppend
    <2> QED BY Zenon, <1>7, <1>9, <2>1
  <1>12. TypeOK'
    <2>1. mcu' \in [Mcus -> McuState] BY Zenon, <1>2, <1>5, <1>7
    <2> QED BY Zenon, <1>1, <1>2, <1>7, <1>11, <2>1, LocalType
  <1>13. Local(m) BY Zenon, <1>2, <1>8, <1>11 DEF Local
  <1>14. Reports(m) BY Zenon, <1>10, <1>11 DEF Reports
  <1>15. m \in Quiet => toHost'[m] = toHost[m] BY Zenon, <1>11 DEF Quiet
  <1> QED BY Zenon, <1>2, <1>6, <1>8, <1>12, <1>13, <1>14, <1>15, CalmLocal

LEMMA EndstopInv ==
    ASSUME IInv, endstop_event PROVE IInv'
  <1> DEFINE m == EndstopMcu
             y == trsync_do_trigger(mcu[m], ENDSTOP_HIT)
             r == State(y.can, y.reason, now)
  <1>0. m \in Mcus BY Zenon, HomingAssumption
  <1>1. TypeOK /\ mcu[m] \in McuState /\ Sane(mcu[m]) /\ Bounded(m, mcu[m].expire)
    BY Zenon, <1>0, SaneMcu DEF IInv
  <1>2. /\ mcu' = [mcu EXCEPT ![m] = y] /\ Note(m) /\ homing' = None
        /\ UNCHANGED <<toMcu, stepQ, callback, dispatch, session_, time>>
    BY Zenon DEF endstop_event
  <1>5. y \in McuState /\ ~ y.can /\ y.expire = mcu[m].expire /\ Calm(mcu[m], y)
    <2>1. ENDSTOP_HIT \in 0 .. 4 BY DEF ENDSTOP_HIT
    <2> QED BY Zenon, <1>1, <2>1, TriggerFacts, TriggerCalm
  <1> HIDE DEF y
  <1>7. /\ mcu \in [Mcus -> McuState] /\ toMcu \in [Mcus -> Seq(Command)]
        /\ toHost \in [Mcus -> Seq(Report)] /\ stepQ \in [Mcus -> Seq(StepCommand)]
        /\ now \in Nat
    BY Zenon, <1>1, Typed
  <1>8. mcu'[m] = y /\ \A a \in Mcus \ {m} : mcu'[a] = mcu[a] BY Zenon, <1>0, <1>2, <1>7
  <1>9. IF mcu[m].can THEN toHost' = [toHost EXCEPT ![m] = Append(@, r)] ELSE toHost' = toHost
    BY Zenon, <1>8 DEF endstop_event, trsync_task
  <1>10. r \in Report /\ r.ses = session /\ r.can = FALSE
    <2>1. y.reason \in 0 .. 4 /\ y.can = FALSE /\ FALSE \in BOOLEAN BY Zenon, <1>5 DEF McuState
    <2>2. /\ State(FALSE, y.reason, now) \in Report /\ State(FALSE, y.reason, now).ses = session
          /\ State(FALSE, y.reason, now).can = FALSE
      BY ZenonT(60), <1>1, <1>7, <2>1, ReportType
    <2> QED BY Zenon, <2>1, <2>2
  <1> HIDE DEF r
  <1>11. /\ toHost' \in [Mcus -> Seq(Report)] /\ \A a \in Mcus \ {m} : toHost'[a] = toHost[a]
         /\ toHost'[m] = IF mcu[m].can THEN Append(toHost[m], r) ELSE toHost[m]
    <2>1. Append(toHost[m], r) \in Seq(Report) BY Zenon, <1>0, <1>7, <1>10, ElemsAppend
    <2> QED BY Zenon, <1>0, <1>7, <1>9, <2>1
  <1>12. TypeOK'
    <2>1. mcu' \in [Mcus -> McuState] BY Zenon, <1>2, <1>5, <1>7
    <2> QED BY Zenon, <1>0, <1>1, <1>2, <1>7, <1>11, <2>1, LocalType
  <1>13. Local(m) BY Zenon, <1>2, <1>8, <1>11 DEF Local
  <1>14. Reports(m) BY Zenon, <1>10, <1>11 DEF Reports
  <1>15. m \in Quiet => toHost'[m] = toHost[m] BY Zenon, <1>11 DEF Quiet
  <1> QED BY Zenon, <1>0, <1>1, <1>2, <1>5, <1>8, <1>12, <1>13, <1>14, <1>15, CalmLocal

LEMMA ReportInv ==
    ASSUME IInv, NEW m \in Mcus, trsync_report_event(m) PROVE IInv'
  <1> DEFINE y == [mcu[m] EXCEPT !.reportAt = now + ReportTicks]
             r == State(y.can, y.reason, now)
  <1>1. /\ TypeOK /\ mcu[m] \in McuState /\ Sane(mcu[m]) /\ Bounded(m, mcu[m].expire)
        /\ mcu[m].can => now <= Horizon[m]
    BY Zenon, SaneMcu DEF IInv
  <1>2. /\ mcu' = [mcu EXCEPT ![m] = y] /\ mcu[m].reportAt = now
        /\ UNCHANGED <<homing, trigAt, toMcu, stepQ, callback, dispatch, session_, time>>
    BY Zenon DEF trsync_report_event
  <1>3. now \in Nat /\ now # None /\ now + ReportTicks \in Nat
    BY SMTT(60), <1>1, HomingAssumption DEF TypeOK, Times, None
  <1>4. y \in McuState BY Zenon, <1>1, <1>3 DEF McuState, Times
  <1>5. /\ y.can = mcu[m].can /\ y.signal = mcu[m].signal /\ y.down = mcu[m].down
        /\ y.expire = mcu[m].expire /\ y.stepper = mcu[m].stepper
    BY Zenon, <1>1 DEF McuState
  <1> HIDE DEF y
  <1>6. Calm(mcu[m], y) BY Zenon, <1>1, <1>2, <1>3, <1>5 DEF Calm, Sane
  <1>7. /\ mcu \in [Mcus -> McuState] /\ toMcu \in [Mcus -> Seq(Command)]
        /\ toHost \in [Mcus -> Seq(Report)] /\ stepQ \in [Mcus -> Seq(StepCommand)]
        /\ homing \in Nat \cup {None} /\ trigAt \in [Mcus -> Nat \cup {None}]
    BY Zenon, <1>1, Typed DEF TypeOK, Times
  <1>8. mcu'[m] = y /\ \A a \in Mcus \ {m} : mcu'[a] = mcu[a] BY Zenon, <1>2, <1>7
  <1>9. toHost' = [toHost EXCEPT ![m] = Append(@, r)] BY Zenon, <1>8 DEF trsync_report_event, trsync_task
  <1>10. r \in Report /\ r.ses = session /\ r.can = y.can /\ r.clock = now
    <2>1. y.reason \in 0 .. 4 /\ y.can \in BOOLEAN BY Zenon, <1>4 DEF McuState
    <2> QED BY Zenon, <1>1, <1>3, <2>1, ReportType
  <1> HIDE DEF r
  <1>11. /\ toHost' \in [Mcus -> Seq(Report)] /\ \A a \in Mcus \ {m} : toHost'[a] = toHost[a]
         /\ toHost'[m] = Append(toHost[m], r)
    <2>1. Append(toHost[m], r) \in Seq(Report) BY Zenon, <1>7, <1>10, ElemsAppend
    <2> QED BY Zenon, <1>7, <1>9, <2>1
  <1>12. Note(m) BY Zenon, <1>2, <1>5, <1>7, <1>8 DEF Note
  <1>13. TypeOK'
    <2>1. mcu' \in [Mcus -> McuState] BY Zenon, <1>2, <1>4, <1>7
    <2> QED BY Zenon, <1>1, <1>2, <1>7, <1>11, <1>12, <2>1, LocalType
  <1>14. Local(m) BY Zenon, <1>2, <1>8, <1>11, <1>12 DEF Local
  <1>15. Reports(m) BY Zenon, <1>1, <1>5, <1>10, <1>11 DEF Reports
  <1>16. m \notin Quiet BY Zenon, <1>2, <1>3 DEF Quiet
  <1> QED BY Zenon, <1>1, <1>2, <1>5, <1>6, <1>8, <1>13, <1>14, <1>15, <1>16, CalmLocal

\* command_dispatch of a trsync_start.
LEMMA StartInv ==
    ASSUME IInv, NEW m \in Mcus, Deliver(m), Head(toMcu[m]).cmd = "start"
    PROVE  IInv'
  <1> DEFINE c == Head(toMcu[m])
             x == Handle(mcu[m], c, m \in Steppers)
  <1>1. /\ TypeOK /\ PhaseOK /\ CommandsOK(m) /\ McuOK(m) /\ ReportsOK(m) /\ Fresh(m) /\ StepsOK(m)
        /\ \A a \in Mcus : Board(a)
    BY Zenon DEF IInv, Board
  <1>2. toMcu[m] # <<>> /\ toMcu[m] \in Seq(Command) BY Zenon, <1>1, Typed DEF Deliver
  <1>3. /\ c \in Command /\ c \in Elems(toMcu[m]) /\ Tail(toMcu[m]) \in Seq(Command)
        /\ Elems(toMcu[m]) = {c} \cup Elems(Tail(toMcu[m]))
    BY Zenon, <1>2, ElemsTail
  <1>4. /\ OnlyFirst(Tail(toMcu[m])) /\ \A d \in Elems(Tail(toMcu[m])) : d.cmd # "start"
    BY Zenon, <1>1, <1>2, FirstTail DEF CommandsOK
  <1>5. c.arg = startClock /\ c.ses = session BY Zenon, <1>1, <1>3 DEF CommandsOK, CommandOK
  <1>6. /\ mcu[m] \in McuState /\ m \in Starting /\ ~ mcu[m].can /\ trigAt[m] = None
        /\ mcu[m].stepper # "moving"
    BY Zenon, <1>1, <1>3, Typed, StartingElems DEF McuOK
  <1>7. \/ mcu[m].down /\ x = mcu[m]
        \/ x = Shutdown(mcu[m])
        \/ /\ ~ mcu[m].down /\ now <= startClock /\ x \in McuState
           /\ x.can = TRUE /\ x.down = FALSE
           /\ x.expire = None /\ x.signal = (m \in Steppers)
           /\ x.stepper = mcu[m].stepper
    <2> DEFINE s == m \in Steppers
               y == mcu[m]
    <2>1. c.cmd = "start" /\ s \in BOOLEAN /\ x = Handle(y, c, s) OBVIOUS
    <2> HIDE DEF c, s, y, x
    <2>2. TypeOK /\ y \in McuState /\ c \in Command BY Zenon, <1>1, <1>3, <1>6 DEF y
    <2>3. \/ y.down /\ x = y
          \/ x = Shutdown(y)
          \/ /\ ~ y.down /\ now <= c.arg /\ x \in McuState
             /\ x.can = TRUE /\ x.down = FALSE
             /\ x.expire = None /\ x.signal = s /\ x.stepper = y.stepper
      <3>1. \/ y.down /\ Handle(y, c, s) = y
            \/ Handle(y, c, s) = Shutdown(y)
            \/ /\ ~ y.down /\ now <= c.arg /\ Handle(y, c, s) \in McuState
               /\ Handle(y, c, s).can = TRUE /\ Handle(y, c, s).down = FALSE
               /\ Handle(y, c, s).expire = None /\ Handle(y, c, s).signal = s
               /\ Handle(y, c, s).stepper = y.stepper
        BY Zenon, <2>1, <2>2, HandleStart
      <3> QED BY Zenon, <2>1, <3>1
    <2> QED BY Zenon, <1>5, <2>3 DEF s, y
  <1>8. /\ toMcu' = [toMcu EXCEPT ![m] = Tail(@)] /\ mcu' = [mcu EXCEPT ![m] = x]
        /\ toHost' = toHost /\ homing' \in {homing, None} /\ Note(m)
        /\ UNCHANGED <<stepQ, callback, dispatch, session_, time>>
    BY Zenon DEF Deliver
  <1>9. \A i \in 1 .. Len(stepQ[m]) : stepQ[m][i].ses = session BY Zenon, <1>5 DEF Deliver, StartInOrder
  <1> HIDE DEF c, x
  <1>10. /\ mcu \in [Mcus -> McuState] /\ toMcu \in [Mcus -> Seq(Command)]
         /\ toHost \in [Mcus -> Seq(Report)] /\ stepQ \in [Mcus -> Seq(StepCommand)]
    BY Zenon, <1>1, Typed
  <1>11. x \in McuState /\ (x.can \/ x.down) /\ (x.down => ~ x.can /\ x.reportAt = None)
    BY Zenon, <1>1, <1>6, <1>7, ShutdownFacts DEF McuOK
  <1>12. /\ mcu'[m] = x /\ toMcu'[m] = Tail(toMcu[m])
         /\ \A a \in Mcus \ {m} : /\ mcu'[a] = mcu[a] /\ toMcu'[a] = toMcu[a]
                                  /\ stepQ'[a] = stepQ[a] /\ toHost'[a] = toHost[a]
    BY Zenon, <1>8, <1>10
  <1>13. TypeOK'
    <2>1. homing \in Nat \cup {None} BY Zenon, <1>1 DEF Times, TypeOK
    <2>2. mcu' \in [Mcus -> McuState] /\ toMcu' \in [Mcus -> Seq(Command)] BY Zenon, <1>3, <1>8, <1>10, <1>11
    <2> QED BY Zenon, <1>1, <1>8, <1>10, <2>1, <2>2, LocalType
  <1>14. Local(m) BY Zenon, <1>8, <1>12 DEF Local
  <1>15. /\ Steady /\ Noted(m) /\ \A a \in Mcus \ {m} : Board(a)'
         /\ UNCHANGED <<now, startClock, session, phase, td, asking, todo, callback, lastStatus>>
         /\ Quiet \ {m} \subseteq Quiet' /\ Stopping \ {m} \subseteq Stopping'
    BY Zenon, <1>1, <1>14, LocalFacts
  <1>16. m \notin Starting' BY Zenon, <1>4, <1>12, StartingElems
  <1>17. CommandsOK(m)' BY Zenon, <1>1, <1>3, <1>4, <1>12, <1>15, CommandsKept
  <1>18. McuOK(m)'
    <2>1. trigAt'[m] = None BY Zenon, <1>6, <1>15 DEF Noted
    <2>2. Bounded(m, x.expire)
      <3>1. x = mcu[m] \/ x.expire = None BY Zenon, <1>6, <1>7, ShutdownFacts
      <3> QED BY Zenon, <1>1, <3>1 DEF McuOK, Bounded
    <2>3. Bounded(m, mcu[m].expire)' BY Zenon, <1>12, <1>15, <2>2 DEF Bounded, Steady
    <2>4. x.stepper # "moving" BY Zenon, <1>6, <1>7, ShutdownFacts
    <2>5. x.can => ~ x.down /\ (m \in Steppers => x.signal)
      BY Zenon, <1>6, <1>7, ShutdownFacts
    <2>6. m \in Timing'
      <3>1. m \in Timing /\ c.cmd # "set_timeout" BY Zenon, <1>1, <1>6 DEF McuOK, c
      <3> QED BY Zenon, <1>3, <1>12, <3>1, TimingElems
    <2> QED BY Zenon, <1>11, <1>12, <1>16, <2>1, <2>3, <2>4, <2>5, <2>6 DEF McuOK
  <1>19. ReportsOK(m)' BY Zenon, <1>1, <1>8, <1>15, ReportsKept DEF ReportsOK
  <1>20. Fresh(m)' BY Zenon, <1>1, <1>3, <1>8, <1>12, <1>15, FreshKept
  <1>21. StepsOK(m)'
    <2>1. \A d \in Elems(stepQ[m]) : d.ses = session /\ d.cmd = "step"
      <3>1. ASSUME NEW d \in Elems(stepQ[m]) PROVE d.ses = session /\ d.cmd \in {"step", "reset"}
        <4>1. d \in StepCommand BY Zenon, <1>10, ElemsType
        <4>2. d.ses = session BY Zenon, <1>9 DEF Elems
        <4> QED BY Zenon, <4>1, <4>2 DEF StepCommand
      <3>2. ASSUME NEW d \in Elems(stepQ[m]) PROVE d.cmd # "reset"
        <4>1. StepOK(m, d) /\ d.ses = session BY Zenon, <1>1, <3>1 DEF StepsOK
        <4> QED BY SMTT(60), <1>1, <1>6, <4>1, Typed DEF StepOK
      <3> QED BY Zenon, <3>1, <3>2
    <2>2. \A d \in Elems(stepQ'[m]) : StepOK(m, d)'
      <3>1. session <= session BY Zenon, <1>1, Typed, Order
      <3>2. \A d \in Elems(stepQ[m]) : StepOK(m, d) BY Zenon, <1>1 DEF StepsOK
      <3> QED BY ZenonT(60), <1>8, <1>11, <1>12, <1>15, <2>1, <3>1, <3>2 DEF StepOK, Steady
    <2>3. Behind(m)'
      <3>1. \A i \in 1 .. Len(stepQ'[m]) : stepQ'[m][i].cmd # "reset" BY Zenon, <1>8, <2>1 DEF Elems
      <3> QED BY Zenon, <3>1 DEF Behind
    <2> QED BY Zenon, <1>1, <1>8, <1>11, <1>12, <2>1, <2>2, <2>3 DEF StepsOK
  <1>22. Board(m)' BY Zenon, <1>17, <1>18, <1>19, <1>20, <1>21 DEF Board
  <1>23. m \notin Quiet BY Zenon, <1>2 DEF Quiet
  <1>24. m \in Stopping => m \in Stopping'
    <2>1. m \in Stopping => \E d \in Elems(toMcu'[m]) : d.cmd = "trigger"
      <3>1. c.cmd # "trigger" BY Zenon DEF c
      <3> QED BY Zenon, <1>3, <1>6, <1>12, <3>1 DEF Stopping
    <2> QED BY Zenon, <2>1 DEF Stopping
  <1>25. Quiet \subseteq Quiet' /\ Stopping \subseteq Stopping' BY Zenon, <1>15, <1>23, <1>24
  <1>26. PhaseOK' BY Zenon, <1>1, <1>15, <1>25, PhaseKept
  <1> QED BY Zenon, <1>13, <1>15, <1>22, <1>26 DEF IInv

\* What a step command does to the state x of a micro-controller.
StepTo(x, y, c) ==
    /\ \/ /\ y.can = x.can /\ y.expire = x.expire /\ y.reportAt = x.reportAt
          /\ y.signal = x.signal /\ y.down = x.down
       \/ y.down /\ ~ y.can /\ y.expire = None /\ y.reportAt = None
    /\ y.stepper = "moving" => y.can
    /\ c.cmd = "step" => \/ y.stepper = x.stepper
                         \/ y.stepper = "moving" /\ x.stepper # "needReset"
    /\ c.cmd = "reset" => y.down \/ y.stepper = "idle"

LEMMA StepArrives ==
    ASSUME IInv, NEW m \in Mcus, DeliverStep(m)
    PROVE  /\ mcu' \in [Mcus -> McuState] /\ \A a \in Mcus \ {m} : mcu'[a] = mcu[a]
           /\ StepTo(mcu[m], mcu'[m], Head(stepQ[m]))
           /\ stepQ[m] # <<>> /\ Head(stepQ[m]) \in StepCommand
           /\ StepOK(m, Head(stepQ[m])) /\ m \in Steppers
           /\ mcu'[m].stepper = "moving" =>
                 \/ mcu'[m] = mcu[m]
                 \/ mcu[m].can /\ Head(stepQ[m]).cmd = "step" /\ Head(stepQ[m]).ses = session
  <1> DEFINE c == Head(stepQ[m])
             x == mcu[m]
             y == IF x.down THEN x
                  ELSE IF c.cmd = "step"
                  THEN IF x.stepper = "needReset" THEN x ELSE [x EXCEPT !.stepper = "moving"]
                  ELSE IF x.stepper = "moving" THEN Shutdown(x)
                  ELSE [x EXCEPT !.stepper = "idle"]
             mv == [x EXCEPT !.stepper = "moving"]
             id == [x EXCEPT !.stepper = "idle"]
  <1>1. TypeOK /\ CommandsOK(m) /\ McuOK(m) /\ StepsOK(m) BY Zenon DEF IInv, Board
  <1>2. stepQ[m] # <<>> /\ stepQ[m] \in Seq(StepCommand) BY Zenon, <1>1, Typed DEF DeliverStep
  <1>3. c \in StepCommand /\ c \in Elems(stepQ[m]) BY Zenon, <1>2, ElemsTail
  <1>4. m \in Steppers /\ StepOK(m, c) /\ c.cmd \in {"step", "reset"}
    BY Zenon, <1>1, <1>2, <1>3 DEF StepsOK, StepCommand
  <1>5. mcu' = [mcu EXCEPT ![m] = y] BY Zenon DEF DeliverStep
  <1>6. c.ses = session => m \notin Starting
    <2>1. \A d \in Elems(toMcu[m]) : d.cmd = "start" => d.ses # c.ses
      BY Zenon DEF DeliverStep, StepInOrder, Elems
    <2>2. \A d \in Elems(toMcu[m]) : d.cmd = "start" => d.ses = session
      BY Zenon, <1>1 DEF CommandsOK, CommandOK
    <2> QED BY Zenon, <2>1, <2>2, StartingElems
  <1> HIDE DEF c
  <1>7. mcu \in [Mcus -> McuState] /\ x \in McuState BY Zenon, <1>1, Typed
  <1>8. x.down => ~ x.can /\ x.reportAt = None /\ x.stepper # "moving" BY Zenon, <1>1 DEF McuOK
  <1>9. x.stepper = "moving" => x.can BY Zenon, <1>1 DEF McuOK
  <1>10. \/ x.down \/ x.stepper = "needReset"
         \/ c.cmd = "step" => c.ses = session /\ x.can
    BY Zenon, <1>4, <1>6 DEF StepOK
  <1>11. \/ y = x /\ (x.down \/ (c.cmd = "step" /\ x.stepper = "needReset"))
         \/ ~ x.down /\ c.cmd = "step" /\ x.stepper # "needReset" /\ y = mv
         \/ ~ x.down /\ c.cmd = "reset" /\ x.stepper = "moving" /\ y = Shutdown(x)
         \/ ~ x.down /\ c.cmd = "reset" /\ x.stepper # "moving" /\ y = id
    BY Zenon, <1>4
  <1> HIDE DEF x, y
  <1>12. mv \in McuState /\ id \in McuState
    <2>1. mv \in McuState BY Zenon, <1>7 DEF McuState
    <2>2. id \in McuState BY Zenon, <1>7 DEF McuState
    <2> QED BY Zenon, <2>1, <2>2
  <1>13. /\ mv.can = x.can /\ mv.expire = x.expire /\ mv.reportAt = x.reportAt /\ mv.signal = x.signal
         /\ mv.down = x.down /\ mv.stepper = "moving"
         /\ id.can = x.can /\ id.expire = x.expire /\ id.reportAt = x.reportAt /\ id.signal = x.signal
         /\ id.down = x.down /\ id.stepper = "idle"
    BY Zenon, <1>7 DEF McuState
  <1> HIDE DEF mv, id
  <1>14. y \in McuState /\ StepTo(x, y, c)
    <2>1. y \in McuState BY Zenon, <1>7, <1>11, <1>12, ShutdownFacts
    <2>2. CASE y = x /\ (x.down \/ (c.cmd = "step" /\ x.stepper = "needReset"))
      BY Zenon, <1>9, <2>1, <2>2 DEF StepTo
    <2>3. CASE ~ x.down /\ c.cmd = "step" /\ x.stepper # "needReset" /\ y = mv
      BY Zenon, <1>10, <1>13, <2>1, <2>3 DEF StepTo
    <2>4. CASE ~ x.down /\ c.cmd = "reset" /\ x.stepper = "moving" /\ y = Shutdown(x)
      BY Zenon, <1>7, <2>1, <2>4, ShutdownFacts DEF StepTo
    <2>5. CASE ~ x.down /\ c.cmd = "reset" /\ x.stepper # "moving" /\ y = id
      BY Zenon, <1>13, <2>1, <2>5 DEF StepTo
    <2> QED BY Zenon, <1>11, <2>1, <2>2, <2>3, <2>4, <2>5
  <1>15. y.stepper = "moving" => y = x \/ (x.can /\ c.cmd = "step" /\ c.ses = session)
    BY Zenon, <1>7, <1>10, <1>11, <1>13, ShutdownFacts
  <1>16. mcu' \in [Mcus -> McuState] /\ mcu'[m] = y /\ \A a \in Mcus \ {m} : mcu'[a] = mcu[a]
    BY Zenon, <1>5, <1>7, <1>14
  <1> QED BY Zenon, <1>2, <1>3, <1>4, <1>14, <1>15, <1>16 DEF c, x

LEMMA TailIndex ==
    ASSUME NEW S, NEW q \in Seq(S), q # <<>>
    PROVE  \A i \in 1 .. Len(Tail(q)) : i + 1 \in 1 .. Len(q) /\ Tail(q)[i] = q[i + 1] /\ 1 < i + 1
  OBVIOUS

LEMMA LaterIndex ==
    ASSUME NEW S, NEW q \in Seq(S)
    PROVE  \A i, j \in 1 .. Len(q) : j < i => j + 1 < i + 1
  OBVIOUS

LEMMA DeliverStepInv ==
    ASSUME IInv, NEW m \in Mcus, DeliverStep(m) PROVE IInv'
  <1> DEFINE c == Head(stepQ[m])
             x == mcu[m]
             y == mcu'[m]
  <1>1. /\ TypeOK /\ PhaseOK /\ CommandsOK(m) /\ McuOK(m) /\ ReportsOK(m) /\ Fresh(m) /\ StepsOK(m)
        /\ \A a \in Mcus : Board(a)
    BY Zenon DEF IInv, Board
  <1>2. /\ mcu' \in [Mcus -> McuState] /\ \A a \in Mcus \ {m} : mcu'[a] = mcu[a]
        /\ StepTo(x, y, c)
        /\ stepQ[m] # <<>> /\ c \in StepCommand /\ StepOK(m, c) /\ m \in Steppers
    BY Zenon, StepArrives
  <1>3. /\ stepQ' = [stepQ EXCEPT ![m] = Tail(@)] /\ Note(m) /\ homing' \in {homing, None}
        /\ UNCHANGED <<toMcu, toHost, callback, dispatch, session_, time>>
    BY Zenon DEF DeliverStep
  <1>4. /\ mcu \in [Mcus -> McuState] /\ toMcu \in [Mcus -> Seq(Command)]
        /\ toHost \in [Mcus -> Seq(Report)] /\ stepQ \in [Mcus -> Seq(StepCommand)]
        /\ homing \in Nat \cup {None}
    BY Zenon, <1>1, Typed DEF TypeOK, Times
  <1>5. stepQ'[m] = Tail(stepQ[m]) /\ \A a \in Mcus \ {m} : stepQ'[a] = stepQ[a] BY Zenon, <1>3, <1>4
  <1>6. Tail(stepQ[m]) \in Seq(StepCommand) /\ Elems(stepQ'[m]) \subseteq Elems(stepQ[m])
    BY Zenon, <1>2, <1>4, <1>5, ElemsTail
  <1>7. TypeOK'
    <2>1. stepQ' \in [Mcus -> Seq(StepCommand)] BY Zenon, <1>3, <1>4, <1>6
    <2> QED BY Zenon, <1>1, <1>2, <1>3, <1>4, <2>1, LocalType
  <1>8. Local(m) BY Zenon, <1>2, <1>3, <1>5 DEF Local
  <1>9. /\ Steady /\ Noted(m) /\ \A a \in Mcus \ {m} : Board(a)'
        /\ UNCHANGED <<now, startClock, session, phase, td, asking, todo, callback, lastStatus>>
        /\ Quiet \ {m} \subseteq Quiet' /\ Stopping \ {m} \subseteq Stopping'
    BY Zenon, <1>1, <1>8, LocalFacts
  <1>10. (m \in Starting' <=> m \in Starting) /\ (m \in Timing' <=> m \in Timing)
    BY Zenon, <1>3, StartingElems, TimingElems
  <1>11. CommandsOK(m)' BY Zenon, <1>1, <1>3, <1>9, CommandsKept DEF CommandsOK
  <1>12. ReportsOK(m)' BY Zenon, <1>1, <1>3, <1>9, ReportsKept DEF ReportsOK
  <1>13. Fresh(m)' BY Zenon, <1>1, <1>3, <1>9, FreshKept
  <1> HIDE DEF c
  <1>14. McuOK(m)'
    <2>1. Bounded(m, mcu[m].expire)' BY Zenon, <1>1, <1>2, <1>9 DEF McuOK, Bounded, Steady, StepTo
    <2>2. trigAt'[m] # None => trigAt'[m] <= now' /\ ~ y.can /\ m \notin Starting'
      <3>1. now <= now BY Zenon, <1>1, Typed, Order
      <3>2. y.can => x.can BY Zenon, <1>2 DEF StepTo
      <3> QED BY Zenon, <1>1, <1>9, <1>10, <3>1, <3>2 DEF McuOK, Noted, Steady
    <2> QED BY Zenon, <1>1, <1>2, <1>10, <2>1, <2>2 DEF McuOK, StepTo
  <1>15. StepsOK(m)'
    <2>1. \A i \in 1 .. Len(stepQ'[m]) :
              i + 1 \in 1 .. Len(stepQ[m]) /\ stepQ'[m][i] = stepQ[m][i + 1] /\ 1 < i + 1
      <3>1. stepQ[m] \in Seq(StepCommand) BY Zenon, <1>4
      <3>2. \A i \in 1 .. Len(Tail(stepQ[m])) :
                /\ i + 1 \in 1 .. Len(stepQ[m]) /\ Tail(stepQ[m])[i] = stepQ[m][i + 1]
                /\ 1 < i + 1
        BY Zenon, <1>2, <3>1, TailIndex
      <3> QED BY Zenon, <1>5, <3>2
    <2>2. x.down => y.down BY Zenon, <1>2 DEF StepTo
    <2>3. Behind(m)'
      <3>1. ASSUME NEW i \in 1 .. Len(stepQ'[m]), NEW j \in 1 .. Len(stepQ'[m]),
                   j < i, stepQ'[m][j].cmd = "reset", stepQ'[m][i].cmd = "step"
            PROVE  y.down \/ (stepQ'[m][i].ses = session /\ m \in Starting)
        <4>1. j + 1 < i + 1 BY Zenon, <1>5, <1>6, <3>1, LaterIndex
        <4>2. x.down \/ (stepQ[m][i + 1].ses = session /\ m \in Starting)
          BY Zenon, <1>1, <2>1, <3>1, <4>1 DEF StepsOK, Behind
        <4> QED BY Zenon, <2>1, <2>2, <4>2
      <3> QED BY Zenon, <1>9, <1>10, <3>1 DEF Behind
    <2>4. ASSUME NEW d \in Elems(stepQ'[m]) PROVE StepOK(m, d)'
      <3>1. StepOK(m, d) BY Zenon, <1>1, <1>6 DEF StepsOK
      <3>2. CASE c.cmd = "step" BY Zenon, <1>2, <1>9, <1>10, <3>1, <3>2 DEF StepOK, StepTo
      <3>3. CASE c.cmd = "reset"
        <4>1. PICK i \in 1 .. Len(stepQ'[m]) : d = stepQ'[m][i] BY Zenon DEF Elems
        <4>2. 1 \in 1 .. Len(stepQ[m]) /\ stepQ[m][1] = c BY SMTT(60), <1>2, <1>4 DEF c
        <4>3. d.cmd = "step" => x.down \/ (d.ses = session /\ m \in Starting)
          BY Zenon, <1>1, <2>1, <3>3, <4>1, <4>2 DEF StepsOK, Behind
        <4> QED BY Zenon, <1>9, <1>10, <2>2, <3>1, <4>3 DEF StepOK
      <3> QED BY Zenon, <1>2, <3>2, <3>3 DEF StepCommand
    <2>5. Live /\ ~ y.down /\ m \notin Starting =>
              /\ y.can \/ y.stepper = "needReset"
              /\ \A d \in Elems(stepQ'[m]) : d.cmd = "step"
      <3>1. Live /\ ~ x.down /\ m \notin Starting =>
                /\ x.can \/ x.stepper = "needReset"
                /\ \A d \in Elems(stepQ[m]) : d.cmd = "step"
        BY Zenon, <1>1, <1>2 DEF StepsOK
      <3>2. c \in Elems(stepQ[m]) BY Zenon, <1>2, <1>4, ElemsTail DEF c
      <3> QED BY Zenon, <1>2, <1>6, <2>2, <3>1, <3>2 DEF StepTo
    <2> QED BY Zenon, <1>2, <1>9, <1>10, <2>3, <2>4, <2>5 DEF StepsOK, Steady
  <1>16. Board(m)' BY Zenon, <1>11, <1>12, <1>13, <1>14, <1>15 DEF Board
  <1>17. (m \in Quiet => m \in Quiet') /\ (m \in Stopping => m \in Stopping')
    <2>1. toMcu'[m] = toMcu[m] /\ toHost'[m] = toHost[m] /\ callback'[m] = callback[m] BY Zenon, <1>3
    <2> QED BY Zenon, <1>2, <1>10, <2>1 DEF Quiet, Stopping, StepTo
  <1>18. Quiet \subseteq Quiet' /\ Stopping \subseteq Stopping' BY Zenon, <1>9, <1>17
  <1>19. PhaseOK' BY Zenon, <1>1, <1>9, <1>18, PhaseKept
  <1> QED BY Zenon, <1>7, <1>9, <1>16, <1>19 DEF IInv

-----------------------------------------------------------------------------
(* The steps of the host. *)

LEMMA CommandType ==
    ASSUME TypeOK, NEW k \in Commands, NEW a \in Nat
    PROVE  /\ Cmd(k, a) \in Command /\ Cmd(k, a).ses = session
           /\ Cmd(k, a).cmd = k /\ Cmd(k, a).arg = a
  BY Zenon DEF Cmd, Command, Times, TypeOK

\* A trigger, or another command without a deadline, may always be sent.
LEMMA SendsCommand ==
    ASSUME TypeOK, NEW m \in Mcus, NEW k \in Commands, NEW a \in Nat,
           k \in {"home", "home_off", "emergency_stop"} \/ (k = "trigger" /\ a \in 0 .. 4),
           toMcu'[m] = Append(toMcu[m], Cmd(k, a))
    PROVE  Sends(m)
  <1>1. CommandOK(m, Cmd(k, a)) BY Zenon, CommandType DEF CommandOK
  <1> QED BY <1>1, CommandType DEF Sends

LEMMA SendsType ==
    ASSUME TypeOK, DOMAIN toMcu' = Mcus, toMcu' = [n \in Mcus |-> toMcu'[n]], \A n \in Mcus : Sends(n)
    PROVE  toMcu' \in [Mcus -> Seq(Command)]
  <1>1. ASSUME NEW n \in Mcus PROVE toMcu'[n] \in Seq(Command)
    <2>1. toMcu[n] \in Seq(Command) BY Zenon, Typed
    <2> QED BY SMTT(60), <2>1, ElemsAppend DEF Sends
  <1> QED BY Zenon, <1>1

\* Who is about to stop goes on to stop.
LEMMA HostStopping ==
    ASSUME TypeOK, \A m \in Mcus : CommandsOK(m) /\ Sends(m), mcu' = mcu
    PROVE  Stopping \subseteq Stopping'
  <1>1. ASSUME NEW m \in Mcus PROVE m \in Stopping => m \in Stopping'
    <2>1. Elems(toMcu[m]) \subseteq Elems(toMcu'[m]) /\ (m \in Starting' <=> m \in Starting)
      BY Zenon, SendsFacts
    <2> QED BY Zenon, <2>1 DEF Stopping
  <1> QED BY Zenon, <1>1 DEF Stopping

LEMMA HostSteady ==
    ASSUME TypeOK, UNCHANGED <<trigAt, now, startClock, session>>, Live' => Live
    PROVE  Steady
  <1>1. Horizon' = Horizon BY Zenon DEF Horizon
  <1> QED BY Zenon, <1>1 DEF Steady

LEMMA HandleMessageInv ==
    ASSUME IInv, NEW m \in Mcus, handle_message(m) PROVE IInv'
  <1> DEFINE msg == Head(toHost[m])
  <1>1. TypeOK /\ PhaseOK /\ \A a \in Mcus : Board(a) BY Zenon DEF IInv
  <1>2. /\ toHost[m] # <<>> /\ callback[m] = <<>> /\ toHost' = [toHost EXCEPT ![m] = Tail(@)]
        /\ callback' = callback \/ (td.active /\ callback' = [callback EXCEPT ![m] = <<msg>>])
        /\ toMcu' = toMcu \/ toMcu' = [toMcu EXCEPT ![m] = Append(@, Cmd("trigger", PAST_END_TIME))]
        /\ completion' \in BOOLEAN /\ waiting' \subseteq waiting /\ homeEnd' \in {None, homeEnd}
        /\ \/ lastParams' = lastParams
           \/ lastParams' = [lastParams EXCEPT ![m] = msg.reason]
        /\ UNCHANGED <<mcuVars, stepQ, dispatch, phase, session,
                   handler, todo, asking, retries, res, result, steps, startClock, time>>
    BY Zenon, <1>1 DEF handle_message, TypeOK
  <1>3. /\ toMcu \in [Mcus -> Seq(Command)] /\ toHost \in [Mcus -> Seq(Report)]
        /\ callback \in [Mcus -> Seq(Report)]
    BY Zenon, <1>1, Typed
  <1>4. /\ msg \in Report /\ Tail(toHost[m]) \in Seq(Report) /\ msg \in Elems(toHost[m])
        /\ Elems(Tail(toHost[m])) \subseteq Elems(toHost[m])
    BY Zenon, <1>2, <1>3, ElemsTail
  <1> HIDE DEF msg
  <1>5. <<msg>> \in Seq(Report) /\ Elems(<<msg>>) = {msg} BY <1>4 DEF Elems
  <1>6. /\ toHost'[m] = Tail(toHost[m]) /\ callback'[m] \in {callback[m], <<msg>>}
        /\ \A a \in Mcus \ {m} : /\ toHost'[a] = toHost[a] /\ callback'[a] = callback[a]
                                 /\ toMcu'[a] = toMcu[a]
        /\ toMcu'[m] \in {toMcu[m], Append(toMcu[m], Cmd("trigger", PAST_END_TIME))}
    BY Zenon, <1>2, <1>3
  <1>7. \A a \in Mcus : Sends(a)
    <2>1. "trigger" \in Commands /\ PAST_END_TIME \in 0 .. 4 /\ PAST_END_TIME \in Nat
      BY DEF Commands, PAST_END_TIME
    <2> QED BY Zenon, <1>1, <1>6, <2>1, SendsCommand DEF Sends
  <1>8. UNCHANGED <<mcu, homing, trigAt, td, lastStatus, expireClock, now, drops>>
    BY Zenon, <1>2 DEF mcuVars, dispatch, time
  <1>9. Steady BY Zenon, <1>1, <1>2, <1>8, HostSteady DEF Live
  <1>10. ASSUME NEW a \in Mcus PROVE Board(a)'
    <2>1. Elems(toHost'[a]) \subseteq Elems(toHost[a]) BY Zenon, <1>4, <1>6
    <2>2. Elems(callback'[a]) \subseteq Elems(callback[a]) \cup Elems(toHost[a]) BY Zenon, <1>4, <1>5, <1>6
    <2>3. lastStatus'[a] <= Horizon[a] BY Zenon, <1>1, <1>8 DEF Board, ReportsOK
    <2> QED BY Zenon, <1>1, <1>2, <1>7, <1>8, <1>9, <2>1, <2>2, <2>3, HostStep
  <1>11. PhaseOK'
    <2>1. Stopping \subseteq Stopping' BY Zenon, <1>1, <1>7, <1>8, HostStopping DEF Board
    <2>2. ASSUME NEW a \in Mcus, a \in Quiet PROVE a \in Quiet'
      <3>1. a # m BY Zenon, <1>2, <2>2 DEF Quiet
      <3> QED BY Zenon, <1>6, <1>8, <2>2, <3>1 DEF Quiet
    <2>3. Quiet \subseteq Quiet' BY Zenon, <2>2 DEF Quiet
    <2>4. phase = "stop" => callback' = callback BY Zenon, <1>1, <1>2 DEF PhaseOK
    <2> QED BY Zenon, <1>1, <1>2, <1>8, <2>1, <2>3, <2>4, PhaseKept
  <1>12. TypeOK'
    <2>1. toMcu' \in [Mcus -> Seq(Command)]
      <3>1. "trigger" \in Commands /\ PAST_END_TIME \in Nat BY Zenon DEF Commands, PAST_END_TIME
      <3>2. Append(toMcu[m], Cmd("trigger", PAST_END_TIME)) \in Seq(Command)
        BY Zenon, <1>1, <1>3, <3>1, CommandType, ElemsAppend
      <3> QED BY Zenon, <1>2, <1>3, <3>2
    <2>2. toHost' \in [Mcus -> Seq(Report)] /\ callback' \in [Mcus -> Seq(Report)]
      BY Zenon, <1>2, <1>3, <1>4, <1>5
    <2>3. \A q \in {toHost', callback'} : q \in [Mcus -> Seq(Report)] BY Zenon, <2>2
    <2>4. lastParams' \in [Mcus -> (0 .. 4) \cup {None}]
      <3>1. msg.reason \in 0 .. 4 BY Zenon, <1>4 DEF Report
      <3> QED BY Zenon, <1>1, <1>2, <3>1 DEF TypeOK
    <2> QED BY ZenonT(60), <1>1, <1>2, <1>8, <2>1, <2>3, <2>4 DEF TypeOK, Command, Report, Times
  <1> QED BY Zenon, <1>10, <1>11, <1>12 DEF IInv

LEMMA DropInv ==
    ASSUME IInv, NEW m \in Mcus, Drop(m) PROVE IInv'
  <1>1. TypeOK /\ PhaseOK /\ \A a \in Mcus : Board(a) BY Zenon DEF IInv
  <1>2. /\ toHost[m] # <<>> /\ toHost' = [toHost EXCEPT ![m] = Tail(@)] /\ drops' = drops + 1
        /\ UNCHANGED <<mcuVars, toMcu, stepQ, callback, dispatch, session_, now>>
    BY Zenon DEF Drop
  <1>3. toHost \in [Mcus -> Seq(Report)] BY Zenon, <1>1, Typed
  <1>4. Tail(toHost[m]) \in Seq(Report) /\ Elems(Tail(toHost[m])) \subseteq Elems(toHost[m])
    BY Zenon, <1>2, <1>3, ElemsTail
  <1>5. toHost'[m] = Tail(toHost[m]) /\ \A a \in Mcus \ {m} : toHost'[a] = toHost[a] BY Zenon, <1>2, <1>3
  <1>6. \A a \in Mcus : Sends(a) BY Zenon, <1>2 DEF Sends
  <1>7. UNCHANGED <<mcu, homing, trigAt, td, lastStatus, expireClock, phase, session, startClock,
                    asking, todo>>
    BY Zenon, <1>2 DEF mcuVars, dispatch, session_
  <1>8. Steady BY Zenon, <1>1, <1>2, <1>7, HostSteady DEF Live
  <1>9. ASSUME NEW a \in Mcus PROVE Board(a)'
    <2>1. Elems(toHost'[a]) \subseteq Elems(toHost[a]) BY Zenon, <1>4, <1>5
    <2>2. lastStatus'[a] <= Horizon[a] BY Zenon, <1>1, <1>7 DEF Board, ReportsOK
    <2> QED BY Zenon, <1>1, <1>2, <1>6, <1>7, <1>8, <2>1, <2>2, HostStep
  <1>10. PhaseOK'
    <2>1. Stopping \subseteq Stopping' BY Zenon, <1>1, <1>6, <1>7, HostStopping DEF Board
    <2>2. ASSUME NEW a \in Mcus, a \in Quiet PROVE a \in Quiet'
      <3>1. a # m BY Zenon, <1>2, <2>2 DEF Quiet
      <3> QED BY Zenon, <1>2, <1>5, <1>7, <2>2, <3>1 DEF Quiet
    <2>3. Quiet \subseteq Quiet' BY Zenon, <2>2 DEF Quiet
    <2> QED BY Zenon, <1>1, <1>2, <1>7, <2>1, <2>3, PhaseKept
  <1>11. TypeOK'
    <2>1. \A q \in {toHost', callback'} : q \in [Mcus -> Seq(Report)] BY Zenon, <1>1, <1>2, <1>3, <1>4, Typed
    <2>2. drops' \in Nat BY <1>1, <1>2 DEF TypeOK
    <2>3. UNCHANGED <<toMcu, stepQ, now, completion, waiting, homeEnd, handler, lastParams, retries, res,
                      result, steps>>
      BY Zenon, <1>2 DEF session_
    <2> QED BY ZenonT(60), <1>1, <1>7, <2>1, <2>2, <2>3 DEF TypeOK, Report, Times
  <1> QED BY Zenon, <1>9, <1>10, <1>11 DEF IInv

\* A command goes to one micro-controller, or to all.
LEMMA SendTo ==
    ASSUME TypeOK, NEW m \in Mcus, NEW k \in Commands, NEW a \in Nat,
           k \in {"home", "home_off", "emergency_stop"} \/ (k = "trigger" /\ a \in 0 .. 4),
           toMcu' = [toMcu EXCEPT ![m] = Append(@, Cmd(k, a))]
    PROVE  /\ toMcu' \in [Mcus -> Seq(Command)] /\ \A n \in Mcus : Sends(n)
           /\ \A n \in Mcus \ {m} : toMcu'[n] = toMcu[n]
           /\ k = "trigger" => \E c \in Elems(toMcu'[m]) : c.cmd = "trigger"
  <1>1. toMcu \in [Mcus -> Seq(Command)] BY Zenon, Typed
  <1>2. Cmd(k, a) \in Command /\ Cmd(k, a).cmd = k BY Zenon, CommandType
  <1>3. /\ Append(toMcu[m], Cmd(k, a)) \in Seq(Command)
        /\ Elems(Append(toMcu[m], Cmd(k, a))) = Elems(toMcu[m]) \cup {Cmd(k, a)}
    BY SMTT(60), <1>1, <1>2, ElemsAppend
  <1>4. /\ toMcu' \in [Mcus -> Seq(Command)] /\ toMcu'[m] = Append(toMcu[m], Cmd(k, a))
        /\ \A n \in Mcus \ {m} : toMcu'[n] = toMcu[n]
    BY Zenon, <1>1, <1>3
  <1>5. \A n \in Mcus : Sends(n) BY Zenon, <1>4, SendsCommand DEF Sends
  <1> QED BY Zenon, <1>2, <1>3, <1>4, <1>5

LEMMA SendAll ==
    ASSUME TypeOK, NEW k \in Commands, NEW a \in Nat,
           k \in {"home", "home_off", "emergency_stop"} \/ (k = "trigger" /\ a \in 0 .. 4),
           toMcu' = [n \in Mcus |-> Append(toMcu[n], Cmd(k, a))]
    PROVE  toMcu' \in [Mcus -> Seq(Command)] /\ \A n \in Mcus : Sends(n)
  <1>1. ASSUME NEW n \in Mcus
        PROVE  toMcu'[n] = Append(toMcu[n], Cmd(k, a)) /\ toMcu'[n] \in Seq(Command)
    <2>1. toMcu[n] \in Seq(Command) /\ Cmd(k, a) \in Command BY Zenon, Typed, CommandType
    <2>2. Append(toMcu[n], Cmd(k, a)) \in Seq(Command) BY Zenon, <2>1, ElemsAppend
    <2> QED BY Zenon, <2>2
  <1>2. \A n \in Mcus : Sends(n) BY Zenon, <1>1, SendsCommand
  <1> QED BY Zenon, <1>1, <1>2

\* A step of the host that moves no report.
LEMMA MainStep ==
    ASSUME TypeOK, \A n \in Mcus : Board(n), Live' => Live, \A n \in Mcus : Sends(n),
           UNCHANGED <<mcuVars, stepQ, toHost, callback, lastStatus, now, startClock, session>>
    PROVE  \A n \in Mcus : Board(n)'
  <1>1. mcu' = mcu /\ trigAt' = trigAt BY Zenon DEF mcuVars
  <1>2. Steady BY Zenon, <1>1, HostSteady
  <1>3. ASSUME NEW n \in Mcus PROVE Board(n)'
    <2>1. lastStatus'[n] <= Horizon[n] BY Zenon DEF Board, ReportsOK
    <2> QED BY Zenon, <1>1, <1>2, <2>1, HostStep
  <1> QED BY Zenon, <1>3

LEMMA DispatchInv ==
    ASSUME IInv, trdispatch_start PROVE IInv'
  <1>1. TypeOK /\ PhaseOK /\ (\A a \in Mcus : Board(a)) /\ EndstopMcu \in Mcus
    BY Zenon, HomingAssumption DEF IInv
  <1>2. toMcu' \in [Mcus -> Seq(Command)] /\ \A n \in Mcus : Sends(n)
    <2>1. "home" \in Commands /\ startClock \in Nat BY Zenon, <1>1, Typed DEF Commands
    <2> QED BY Zenon, <1>1, <2>1, SendTo DEF trdispatch_start
  <1>3. \A a \in Mcus : Board(a)'
    <2>1. Live' => Live BY Zenon DEF trdispatch_start, Live
    <2> QED BY Zenon, <1>1, <1>2, <2>1, MainStep DEF trdispatch_start, time
  <1>4. PhaseOK' BY Zenon, <1>1 DEF trdispatch_start, PhaseOK, time
  <1>5. TypeOK'
    <2>1. td' \in [active : BOOLEAN, can : BOOLEAN] BY Zenon, <1>1 DEF trdispatch_start, TypeOK
    <2>2. UNCHANGED <<mcu, homing, trigAt, now, drops>> BY Zenon DEF trdispatch_start, mcuVars, time
    <2> QED BY Zenon, <1>1, <1>2, <2>1, <2>2 DEF trdispatch_start, TypeOK, Command, Times
  <1> QED BY Zenon, <1>3, <1>4, <1>5 DEF IInv

LEMMA EndTimeInv ==
    ASSUME IInv, set_home_end_time PROVE IInv'
  <1>1. TypeOK /\ PhaseOK /\ (\A a \in Mcus : Board(a)) BY Zenon DEF IInv
  <1>2. UNCHANGED <<mcu, homing, trigAt, toMcu, stepQ, toHost, callback, td, lastStatus, expireClock,
                    now, drops>>
    BY Zenon DEF set_home_end_time, mcuVars, lines, dispatch, time
  <1>3. \A a \in Mcus : Board(a)'
    <2>1. Live' => Live BY Zenon DEF set_home_end_time, Live
    <2>2. \A n \in Mcus : Sends(n) BY Zenon, <1>2 DEF Sends
    <2> QED BY Zenon, <1>1, <1>2, <2>1, <2>2, MainStep DEF set_home_end_time, mcuVars
  <1>4. PhaseOK' BY Zenon, <1>1, <1>2 DEF set_home_end_time, PhaseOK
  <1>5. TypeOK'
    <2>1. homeEnd' \in Nat \cup {None} BY SMTT(60), <1>1, HomingAssumption DEF set_home_end_time, TypeOK, Times
    <2> QED BY Zenon, <1>1, <1>2, <2>1 DEF set_home_end_time, TypeOK, Times
  <1> QED BY Zenon, <1>3, <1>4, <1>5 DEF IInv

LEMMA DispatchStopInv ==
    ASSUME IInv, trdispatch_stop PROVE IInv'
  <1>1. TypeOK /\ PhaseOK /\ (\A a \in Mcus : Board(a)) /\ EndstopMcu \in Mcus
    BY Zenon, HomingAssumption DEF IInv
  <1>2. toMcu' \in [Mcus -> Seq(Command)] /\ \A n \in Mcus : Sends(n)
    <2>1. "home_off" \in Commands /\ 0 \in Nat BY Zenon DEF Commands
    <2> QED BY Zenon, <1>1, <2>1, SendTo DEF trdispatch_stop
  <1>3. \A a \in Mcus : Board(a)'
    <2>1. Live' => Live BY Zenon DEF trdispatch_stop, Live
    <2> QED BY Zenon, <1>1, <1>2, <2>1, MainStep DEF trdispatch_stop, time
  <1>4. td' \in [active : BOOLEAN, can : BOOLEAN] /\ ~ td'.active
    BY Zenon, <1>1 DEF trdispatch_stop, TypeOK
  <1>5. PhaseOK' BY Zenon, <1>1, <1>4 DEF trdispatch_stop, CallbacksDone, PhaseOK, time
  <1>6. TypeOK'
    <2>2. UNCHANGED <<mcu, homing, trigAt, now, drops>> BY Zenon DEF trdispatch_stop, mcuVars, time
    <2> QED BY Zenon, <1>1, <1>2, <1>4, <2>2 DEF trdispatch_stop, TypeOK, Command, Times
  <1> QED BY Zenon, <1>3, <1>5, <1>6 DEF IInv

LEMMA ShutdownInv ==
    ASSUME IInv, invoke_shutdown PROVE IInv'
  <1>1. TypeOK /\ PhaseOK /\ (\A a \in Mcus : Board(a)) BY Zenon DEF IInv
  <1>2. toMcu' \in [Mcus -> Seq(Command)] /\ \A n \in Mcus : Sends(n)
    <2>1. "emergency_stop" \in Commands /\ 0 \in Nat BY Zenon DEF Commands
    <2> QED BY Zenon, <1>1, <2>1, SendAll DEF invoke_shutdown
  <1>3. UNCHANGED <<mcu, homing, trigAt, td, lastStatus, expireClock, now, drops>>
    BY Zenon DEF invoke_shutdown, mcuVars, time, dispatch
  <1>4. \A a \in Mcus : Board(a)'
    <2>1. Live' => Live BY Zenon DEF invoke_shutdown, Live
    <2> QED BY Zenon, <1>1, <1>2, <1>3, <2>1, MainStep DEF invoke_shutdown
  <1>5. PhaseOK' BY Zenon, <1>1, <1>3 DEF invoke_shutdown, PhaseOK
  <1>6. TypeOK' BY Zenon, <1>1, <1>2, <1>3 DEF invoke_shutdown, TypeOK, Command, Times
  <1> QED BY Zenon, <1>4, <1>5, <1>6 DEF IInv

\* The callback of trdispatch.c: the timeouts it sends are not long after the
\* last report of any other micro-controller.
LEMMA HandleStateInv ==
    ASSUME IInv, NEW m \in Mcus, handle_trsync_state(m) PROVE IInv'
  <1> DEFINE msg == Head(callback[m])
             status == [lastStatus EXCEPT ![m] = msg.clock]
             Expire(n) == OthersStatus(status, n) + ExpireTicks
             Extend(n) == Expire(n) - expireClock[n] >= MinExtend
  <1>1. TypeOK /\ PhaseOK /\ \A a \in Mcus : Board(a) BY Zenon DEF IInv
  <1>2. /\ callback[m] # <<>> /\ callback' = [callback EXCEPT ![m] = <<>>]
        /\ UNCHANGED <<mcuVars, stepQ, toHost, session_, time>>
    BY Zenon DEF handle_trsync_state
  <1>3. /\ callback \in [Mcus -> Seq(Report)] /\ toMcu \in [Mcus -> Seq(Command)]
        /\ lastStatus \in [Mcus -> Nat] /\ expireClock \in [Mcus -> Nat]
    BY Zenon, <1>1, Typed DEF TypeOK, Times
  <1>4. msg \in Report /\ msg \in Elems(callback[m]) BY Zenon, <1>2, <1>3, ElemsTail
  <1>5. /\ UNCHANGED <<mcu, homing, trigAt, phase, session, startClock, asking, todo, now, drops>>
        /\ UNCHANGED <<completion, waiting, homeEnd, handler, lastParams, retries, res, result, steps>>
    BY Zenon, <1>2 DEF mcuVars, session_, time
  <1>6. /\ toMcu' \in [Mcus -> Seq(Command)] /\ \A n \in Mcus : Sends(n)
        /\ lastStatus' \in [Mcus -> Nat] /\ \A n \in Mcus : lastStatus'[n] <= Horizon[n]
        /\ expireClock' \in [Mcus -> Nat] /\ td' \in [active : BOOLEAN, can : BOOLEAN]
    <2>0. (\A n \in Mcus : lastStatus[n] <= Horizon[n]) /\ td \in [active : BOOLEAN, can : BOOLEAN]
      BY Zenon, <1>1 DEF Board, ReportsOK, TypeOK
    <2>1. CASE ~ td.can /\ UNCHANGED <<toMcu, dispatch>>
      BY Zenon, <1>3, <2>0, <2>1 DEF dispatch, Sends
    <2>2. CASE /\ td' = [td EXCEPT !.can = FALSE]
               /\ toMcu' = [n \in Mcus |-> Append(toMcu[n], Cmd("trigger", HOST_REQUEST))]
               /\ UNCHANGED <<lastStatus, expireClock>>
      <3>1. "trigger" \in Commands /\ HOST_REQUEST \in Nat /\ HOST_REQUEST \in 0 .. 4
        BY DEF Commands, HOST_REQUEST
      <3>2. toMcu' \in [Mcus -> Seq(Command)] /\ \A n \in Mcus : Sends(n)
        BY Zenon, <1>1, <2>2, <3>1, SendAll
      <3> QED BY Zenon, <1>3, <2>0, <2>2, <3>2
    <2>3. CASE /\ td.can /\ msg.can /\ lastStatus' = status
               /\ expireClock' = [n \in Mcus |-> IF Extend(n) THEN Expire(n) ELSE expireClock[n]]
               /\ toMcu' = [n \in Mcus |-> IF Extend(n)
                              THEN Append(toMcu[n], Cmd("set_timeout", Expire(n))) ELSE toMcu[n]]
               /\ UNCHANGED td
      <3>1. msg.clock \in Nat /\ msg.clock <= Horizon[m]
        BY Zenon, <1>1, <1>4, <2>3 DEF Report, Times, Board, ReportsOK
      <3>2. status \in [Mcus -> Nat] /\ \A n \in Mcus : status[n] <= Horizon[n] BY Zenon, <1>3, <2>0, <3>1
      <3> HIDE DEF msg, status
      <3>3. ASSUME NEW n \in Mcus
            PROVE  Expire(n) \in Nat /\ \A a \in Mcus \ {n} : Expire(n) <= Horizon[a] + ExpireTicks
        <4>1. /\ OthersStatus(status, n) \in Nat
              /\ \A a \in Mcus \ {n} : OthersStatus(status, n) <= status[a]
          BY Zenon, <3>2, OthersStatusMin
        <4>2. ASSUME NEW a \in Mcus \ {n} PROVE Expire(n) <= Horizon[a] + ExpireTicks
          <5>1. Horizon[a] \in Nat /\ status[a] \in Nat /\ status[a] <= Horizon[a]
            BY Zenon, <1>1, <3>2, HorizonType
          <5> QED BY <4>1, <5>1, HomingAssumption
        <4> QED BY <4>1, <4>2, HomingAssumption
      <3> HIDE DEF Expire
      <3>4. ASSUME NEW n \in Mcus PROVE Sends(n) /\ toMcu'[n] \in Seq(Command)
        <4>1. "set_timeout" \in Commands BY Zenon DEF Commands
        <4>2. /\ Cmd("set_timeout", Expire(n)) \in Command
              /\ Cmd("set_timeout", Expire(n)).ses = session
              /\ Cmd("set_timeout", Expire(n)).cmd = "set_timeout"
              /\ Cmd("set_timeout", Expire(n)).arg = Expire(n)
          BY SMTT(60), <1>1, <3>3, <4>1, CommandType
        <4>3. CommandOK(n, Cmd("set_timeout", Expire(n))) BY Zenon, <3>3, <4>2 DEF CommandOK
        <4>4. Append(toMcu[n], Cmd("set_timeout", Expire(n))) \in Seq(Command)
          BY Zenon, <1>3, <4>2, ElemsAppend
        <4>5. toMcu'[n] \in {toMcu[n], Append(toMcu[n], Cmd("set_timeout", Expire(n)))} BY Zenon, <2>3
        <4> QED BY Zenon, <1>3, <4>2, <4>3, <4>4, <4>5 DEF Sends
      <3>5. toMcu' \in [Mcus -> Seq(Command)] BY Zenon, <2>3, <3>4
      <3>6. expireClock' \in [Mcus -> Nat] BY Zenon, <1>3, <2>3, <3>3
      <3> QED BY Zenon, <2>0, <2>3, <3>2, <3>4, <3>5, <3>6
    <2> QED BY Zenon, <2>1, <2>2, <2>3 DEF handle_trsync_state
  <1> HIDE DEF msg, status
  <1>7. /\ callback'[m] = <<>> /\ callback' \in [Mcus -> Seq(Report)]
        /\ \A a \in Mcus \ {m} : callback'[a] = callback[a]
    BY <1>2, <1>3
  <1>8. ASSUME NEW a \in Mcus PROVE Board(a)'
    <2>1. Steady BY Zenon, <1>1, <1>5, HostSteady DEF Live
    <2>2. Elems(callback'[a]) \subseteq Elems(callback[a]) BY <1>7 DEF Elems
    <2> QED BY Zenon, <1>1, <1>2, <1>5, <1>6, <2>1, <2>2, HostStep
  <1>9. PhaseOK'
    <2>1. phase \notin {"idle", "done", "stop"} BY Zenon, <1>1, <1>2 DEF PhaseOK, Quiet
    <2> QED BY Zenon, <1>1, <1>5, <2>1 DEF PhaseOK
  <1>10. TypeOK'
    <2>1. \A q \in {toHost', callback'} : q \in [Mcus -> Seq(Report)] BY Zenon, <1>1, <1>2, <1>7, Typed
    <2> QED BY ZenonT(60), <1>1, <1>2, <1>5, <1>6, <2>1 DEF TypeOK, Times, Command, Report
  <1> QED BY Zenon, <1>8, <1>9, <1>10 DEF IInv

LEMMA StopInv ==
    ASSUME IInv, NEW m \in Mcus, stop(m) PROVE IInv'
  <1>1. TypeOK /\ PhaseOK /\ (\A a \in Mcus : Board(a)) BY Zenon DEF IInv
  <1>2. /\ toMcu' \in [Mcus -> Seq(Command)] /\ \A n \in Mcus : Sends(n)
        /\ \A n \in Mcus \ {m} : toMcu'[n] = toMcu[n]
        /\ \E c \in Elems(toMcu'[m]) : c.cmd = "trigger"
    <2>1. "trigger" \in Commands /\ HOST_REQUEST \in Nat /\ HOST_REQUEST \in 0 .. 4
      BY DEF Commands, HOST_REQUEST
    <2>2. toMcu' = [toMcu EXCEPT ![m] = Append(@, Cmd("trigger", HOST_REQUEST))] BY Zenon DEF stop
    <2> QED BY Zenon, <1>1, <2>1, <2>2, SendTo
  <1>3. /\ UNCHANGED <<mcu, homing, trigAt, td, lastStatus, expireClock, now, drops>>
        /\ UNCHANGED <<stepQ, toHost, callback, phase, session, completion, homeEnd,
                       lastParams, res, result, steps, startClock>>
    BY Zenon DEF stop, mcuVars, time, dispatch
  <1>4. \A a \in Mcus : Board(a)'
    <2>1. Live' => Live BY Zenon, <1>3 DEF Live
    <2> QED BY Zenon, <1>1, <1>2, <1>3, <2>1, MainStep DEF mcuVars
  <1>5. PhaseOK'
    <2>1. /\ phase = "stop" /\ asking \subseteq {m} /\ asking' = {m} /\ todo' = todo \ {m}
      BY Zenon DEF stop
    <2>2. m \in Stopping' BY Zenon, <1>2 DEF Stopping
    <2>3. ASSUME NEW n \in Mcus, n \notin todo' \cup asking' PROVE n \in Quiet'
      <3>1. n \in Quiet /\ n # m BY Zenon, <1>1, <2>1, <2>3 DEF PhaseOK
      <3> QED BY Zenon, <1>2, <1>3, <3>1 DEF Quiet
    <2> QED BY Zenon, <1>1, <1>3, <2>1, <2>2, <2>3 DEF PhaseOK
  <1>6. TypeOK'
    <2>1. /\ handler' \in [Mcus -> {"none", "state", "query"}] /\ waiting' \subseteq Mcus
          /\ todo' \subseteq Mcus /\ asking' \subseteq Mcus
      BY Zenon, <1>1 DEF stop, TypeOK
    <2>2. retries' \in 0 .. Retries
      <3>1. retries \in 0 .. Retries BY Zenon, <1>1 DEF TypeOK
      <3>2. retries' = Retries \/ (retries > 0 /\ retries' = retries - 1) BY Zenon DEF stop
      <3> QED BY <3>1, <3>2, HomingAssumption
    <2> QED BY ZenonT(60), <1>1, <1>2, <1>3, <2>1, <2>2 DEF TypeOK, Command, Times
  <1> QED BY Zenon, <1>4, <1>5, <1>6 DEF IInv

LEMMA QueryFailedInv ==
    ASSUME IInv, NEW m \in Mcus, QueryFailed(m) PROVE IInv'
  <1>1. TypeOK /\ PhaseOK /\ (\A a \in Mcus : Board(a)) BY Zenon DEF IInv
  <1>2. /\ UNCHANGED <<mcu, homing, trigAt, toMcu, stepQ, toHost, callback, td, lastStatus, expireClock,
                      now, drops>>
        /\ UNCHANGED <<session, completion, waiting, homeEnd, lastParams, todo, retries, res, result,
                       steps, startClock>>
        /\ phase' = "failed" /\ asking' = {}
    BY Zenon DEF QueryFailed, mcuVars, lines, dispatch, time
  <1>3. \A a \in Mcus : Board(a)'
    <2>1. Live' => Live BY Zenon, <1>2 DEF Live
    <2>2. \A n \in Mcus : Sends(n) BY Zenon, <1>2 DEF Sends
    <2> QED BY Zenon, <1>1, <1>2, <2>1, <2>2, MainStep DEF mcuVars
  <1>4. PhaseOK' BY Zenon, <1>1, <1>2 DEF PhaseOK
  <1>5. TypeOK'
    <2>1. handler' \in [Mcus -> {"none", "state", "query"}] BY Zenon, <1>1 DEF QueryFailed, TypeOK
    <2> QED BY ZenonT(60), <1>1, <1>2, <2>1 DEF TypeOK
  <1> QED BY Zenon, <1>3, <1>4, <1>5 DEF IInv

LEMMA AppendIndex ==
    ASSUME NEW S, NEW q \in Seq(S), NEW e \in S, NEW i \in 1 .. Len(Append(q, e))
    PROVE  \/ i \in 1 .. Len(q) /\ Append(q, e)[i] = q[i]
           \/ i = Len(q) + 1 /\ Append(q, e)[i] = e
  BY SMTT(60)

\* A step or a reset is sent.
LEMMA StepSent ==
    ASSUME TypeOK, NEW m \in Mcus, Board(m), Steady,
           UNCHANGED <<mcu, trigAt, toMcu, toHost, callback, lastStatus>>,
           NEW c \in StepCommand, m \in Steppers, stepQ'[m] = Append(stepQ[m], c),
           StepOK(m, c), c.ses = session,
           IF c.cmd = "step" THEN Live ELSE ~ Live'
    PROVE  Board(m)'
  <1>1. CommandsOK(m) /\ McuOK(m) /\ ReportsOK(m) /\ Fresh(m) /\ StepsOK(m) BY Zenon DEF Board
  <1>2. (m \in Starting' <=> m \in Starting) /\ (m \in Timing' <=> m \in Timing)
    BY Zenon, StartingElems, TimingElems
  <1>3. CommandsOK(m)' /\ McuOK(m)' /\ ReportsOK(m)' /\ Fresh(m)'
    BY Zenon, <1>1, <1>2, CommandsKept, McuKept, ReportsKept, FreshKept DEF CommandsOK, ReportsOK
  <1>4. stepQ[m] \in Seq(StepCommand) /\ c.cmd \in {"step", "reset"} BY Zenon, Typed DEF StepCommand
  <1>5. Elems(stepQ'[m]) = Elems(stepQ[m]) \cup {c} BY SMTT(60), <1>4, ElemsAppend
  <1>6. ASSUME NEW d \in Elems(stepQ'[m]) PROVE StepOK(m, d)'
    <2>1. StepOK(m, d) BY Zenon, <1>1, <1>5 DEF StepsOK
    <2> QED BY Zenon, <1>2, <2>1 DEF StepOK, Steady
  <1>7. Live => \/ mcu[m].down \/ m \in Starting
                \/ /\ mcu[m].can \/ mcu[m].stepper = "needReset"
                   /\ \A d \in Elems(stepQ[m]) : d.cmd = "step"
    BY Zenon, <1>1 DEF StepsOK
  <1>8. Behind(m)'
    <2>1. ASSUME NEW i \in 1 .. Len(stepQ'[m]), NEW j \in 1 .. Len(stepQ'[m]),
                 j < i, stepQ'[m][j].cmd = "reset", stepQ'[m][i].cmd = "step"
          PROVE  mcu[m].down \/ (stepQ'[m][i].ses = session /\ m \in Starting)
      <3>1. \/ i \in 1 .. Len(stepQ[m]) /\ stepQ'[m][i] = stepQ[m][i]
            \/ i = Len(stepQ[m]) + 1 /\ stepQ'[m][i] = c
        BY SMTT(60), <1>4, AppendIndex
      <3>2. \/ j \in 1 .. Len(stepQ[m]) /\ stepQ'[m][j] = stepQ[m][j]
            \/ j = Len(stepQ[m]) + 1 /\ stepQ'[m][j] = c
        BY SMTT(60), <1>4, AppendIndex
      <3>3. Len(stepQ[m]) \in Nat BY SMTT(60), <1>4
      <3>4. j \in 1 .. Len(stepQ[m]) /\ stepQ'[m][j] = stepQ[m][j] BY SMTT(60), <2>1, <3>1, <3>2, <3>3
      <3>5. CASE i \in 1 .. Len(stepQ[m]) /\ stepQ'[m][i] = stepQ[m][i]
        BY Zenon, <1>1, <2>1, <3>4, <3>5 DEF StepsOK, Behind
      <3>6. CASE stepQ'[m][i] = c
        <4>1. stepQ[m][j] \in Elems(stepQ[m]) BY Zenon, <3>4 DEF Elems
        <4> QED BY Zenon, <1>7, <2>1, <3>4, <3>6, <4>1
      <3> QED BY Zenon, <3>1, <3>5, <3>6
    <2> QED BY Zenon, <1>2, <2>1 DEF Behind, Steady
  <1>9. StepsOK(m)' BY Zenon, <1>2, <1>4, <1>5, <1>6, <1>7, <1>8 DEF StepsOK, Steady
  <1> QED BY Zenon, <1>3, <1>9 DEF Board

LEMMA StepType ==
    ASSUME TypeOK, NEW k \in {"step", "reset"}
    PROVE  Cmd(k, 0) \in StepCommand /\ Cmd(k, 0).ses = session /\ Cmd(k, 0).cmd = k
  BY Zenon DEF Cmd, StepCommand, TypeOK

LEMMA DripInv ==
    ASSUME IInv, NEW m \in Mcus, drip_move(m) PROVE IInv'
  <1> DEFINE c == Cmd("step", 0)
  <1>1. TypeOK /\ PhaseOK /\ (\A a \in Mcus : Board(a)) BY Zenon DEF IInv
  <1>2. /\ UNCHANGED <<mcu, homing, trigAt, td, lastStatus, expireClock, now, drops>>
        /\ UNCHANGED <<toMcu, toHost, callback, phase, session, completion, waiting, homeEnd, handler,
                       lastParams, todo, asking, retries, res, result, startClock>>
    BY Zenon DEF drip_move, mcuVars, time, dispatch
  <1>3. phase = "move" /\ m \in Steppers /\ stepQ' = [stepQ EXCEPT ![m] = Append(@, c)]
    BY Zenon DEF drip_move
  <1>4. c \in StepCommand /\ c.ses = session /\ c.cmd = "step" BY Zenon, <1>1, StepType
  <1> HIDE DEF c
  <1>5. stepQ \in [Mcus -> Seq(StepCommand)] /\ session \in Nat BY Zenon, <1>1, Typed
  <1>6. Append(stepQ[m], c) \in Seq(StepCommand) BY Zenon, <1>4, <1>5, ElemsAppend
  <1>7. stepQ'[m] = Append(stepQ[m], c) /\ \A a \in Mcus \ {m} : stepQ'[a] = stepQ[a]
    BY Zenon, <1>3, <1>5
  <1>8. Steady BY Zenon, <1>1, <1>2, HostSteady DEF Live
  <1>9. Board(m)'
    <2>1. Live BY Zenon, <1>3 DEF Live
    <2>2. StepOK(m, c) BY SMTT(60), <1>1, <1>3, <1>4, <1>5, <2>1 DEF StepOK, StepsOK, Board
    <2> QED BY Zenon, <1>1, <1>2, <1>3, <1>4, <1>7, <1>8, <2>1, <2>2, StepSent
  <1>10. ASSUME NEW a \in Mcus \ {m} PROVE Board(a)'
    BY Zenon, <1>1, <1>2, <1>7, <1>8, Untouched
  <1>11. PhaseOK' BY Zenon, <1>1, <1>2, <1>3 DEF PhaseOK
  <1>12. TypeOK'
    <2>1. stepQ' \in [Mcus -> Seq(StepCommand)] BY Zenon, <1>3, <1>5, <1>6
    <2>2. steps' \in [Mcus -> Nat] BY SMTT(60), <1>1 DEF drip_move, TypeOK
    <2> QED BY ZenonT(60), <1>1, <1>2, <2>1, <2>2 DEF TypeOK, StepCommand, Times
  <1> QED BY Zenon, <1>9, <1>10, <1>11, <1>12 DEF IInv

LEMMA HomingEndInv ==
    ASSUME IInv, NEW m \in Mcus, note_homing_end(m) PROVE IInv'
  <1> DEFINE c == Cmd("reset", 0)
  <1>1. TypeOK /\ PhaseOK /\ (\A a \in Mcus : Board(a)) BY Zenon DEF IInv
  <1>2. /\ UNCHANGED <<mcu, homing, trigAt, td, lastStatus, expireClock, now, drops>>
        /\ UNCHANGED <<toMcu, toHost, callback, session, completion, waiting, homeEnd,
                       lastParams, todo, retries, steps, startClock>>
    BY Zenon DEF note_homing_end, mcuVars, time, dispatch
  <1>3. /\ phase = "stop" /\ asking = {m} /\ asking' = {} /\ toMcu[m] = <<>> /\ toHost[m] = <<>>
        /\ IF m \in Steppers THEN stepQ' = [stepQ EXCEPT ![m] = Append(@, c)] ELSE stepQ' = stepQ
        /\ IF todo = {} THEN phase' = "done" ELSE phase' = "stop"
    BY Zenon DEF note_homing_end, Acked
  <1>4. c \in StepCommand /\ c.ses = session /\ c.cmd = "reset" BY Zenon, <1>1, StepType
  <1> HIDE DEF c
  <1>5. stepQ \in [Mcus -> Seq(StepCommand)] /\ session \in Nat BY Zenon, <1>1, Typed
  <1>6. Append(stepQ[m], c) \in Seq(StepCommand) BY Zenon, <1>4, <1>5, ElemsAppend
  <1>7. /\ stepQ'[m] = IF m \in Steppers THEN Append(stepQ[m], c) ELSE stepQ[m]
        /\ \A a \in Mcus \ {m} : stepQ'[a] = stepQ[a]
    BY Zenon, <1>3, <1>5
  <1>8. Steady /\ ~ Live'
    <2>1. ~ Live' BY Zenon, <1>3 DEF Live
    <2> QED BY Zenon, <1>1, <1>2, <2>1, HostSteady
  <1>9. m \notin Starting BY SMTT(60), <1>3, StartingElems DEF Elems
  <1>10. Board(m)'
    <2>1. CASE m \in Steppers
      <3>1. StepOK(m, c) BY SMTT(60), <1>4, <1>5, <1>9 DEF StepOK
      <3> QED BY Zenon, <1>1, <1>2, <1>4, <1>7, <1>8, <2>1, <3>1, StepSent
    <2>2. CASE m \notin Steppers BY Zenon, <1>1, <1>2, <1>7, <1>8, <2>2, Untouched
    <2> QED BY Zenon, <2>1, <2>2
  <1>11. ASSUME NEW a \in Mcus \ {m} PROVE Board(a)'
    BY Zenon, <1>1, <1>2, <1>7, <1>8, Untouched
  <1>12. PhaseOK'
    <2>1. m \in Stopping /\ callback[m] = <<>> BY Zenon, <1>1, <1>3 DEF PhaseOK
    <2>2. Elems(toMcu[m]) = {} BY <1>3 DEF Elems
    <2>3. m \in Quiet BY Zenon, <1>3, <2>1, <2>2 DEF Stopping, Quiet
    <2>4. Quiet' = Quiet BY Zenon, <1>2 DEF Quiet
    <2>5. Quiet \subseteq Mcus BY Zenon DEF Quiet
    <2> QED BY Zenon, <1>1, <1>2, <1>3, <2>3, <2>4, <2>5 DEF PhaseOK
  <1>13. TypeOK'
    <2>1. stepQ' \in [Mcus -> Seq(StepCommand)] BY Zenon, <1>3, <1>5, <1>6
    <2>2. handler' \in [Mcus -> {"none", "state", "query"}] BY Zenon, <1>1 DEF note_homing_end, TypeOK
    <2>3. res' \in [Mcus -> 0 .. 4]
      <3>1. lastParams[m] \in 0 .. 4 BY Zenon, <1>1 DEF note_homing_end, Answered, TypeOK
      <3> QED BY Zenon, <1>1, <3>1 DEF note_homing_end, TypeOK
    <2>4. result' \in {"none", "hit", "comm_timeout", "no_trigger"}
      BY Zenon, <1>1 DEF note_homing_end, TypeOK, Outcome
    <2> QED BY Zenon, <1>1, <1>2, <1>3, <2>1, <2>2, <2>3, <2>4 DEF TypeOK, StepCommand, Times
  <1> QED BY Zenon, <1>10, <1>11, <1>12, <1>13 DEF IInv

-----------------------------------------------------------------------------
(* A new homing move, and time. *)

LEMMA StartMoveInv ==
    ASSUME IInv, Start PROVE IInv'
  <1> DEFINE c == [cmd |-> "start", arg |-> now + Lead, ses |-> session + 1]
             d == [cmd |-> "set_timeout", arg |-> now + Lead + ExpireTicks, ses |-> session + 1]
  <1>1. TypeOK /\ PhaseOK /\ (\A a \in Mcus : Board(a)) BY Zenon DEF IInv
  <1>2. /\ phase' = "dispatch" /\ session' = session + 1 /\ startClock' = now + Lead
        /\ toMcu' = [m \in Mcus |-> toMcu[m] \o <<c, d>>] /\ trigAt' = [m \in Mcus |-> None]
        /\ lastStatus' = [m \in Mcus |-> now + Lead]
        /\ UNCHANGED <<mcu, homing, stepQ, toHost, callback, td, todo, asking, retries, now, drops>>
    BY Zenon DEF Start, time
  <1>3. Quiet = Mcus /\ asking = {} BY Zenon, <1>1 DEF Start, PhaseOK
  <1>4. /\ now \in Nat /\ session \in Nat /\ now + Lead \in Nat /\ session + 1 \in Nat
        /\ toMcu \in [Mcus -> Seq(Command)] /\ stepQ \in [Mcus -> Seq(StepCommand)]
    <2>1. /\ now \in Nat /\ session \in Nat
          /\ toMcu \in [Mcus -> Seq(Command)] /\ stepQ \in [Mcus -> Seq(StepCommand)]
      BY Zenon, <1>1, Typed
    <2>2. \A a \in Nat : a + Lead \in Nat /\ a + 1 \in Nat BY HomingAssumption
    <2> QED BY Zenon, <2>1, <2>2
  <1>5. /\ c \in Command /\ c.cmd = "start" /\ c.arg = startClock' /\ c.ses = session'
        /\ d \in Command /\ d.cmd = "set_timeout" /\ d.arg = startClock' + ExpireTicks /\ d.ses = session'
    <2>1. now + Lead + ExpireTicks \in Nat BY <1>4, HomingAssumption
    <2> QED BY Zenon, <1>2, <1>4, <2>1 DEF Command, Commands, Times
  <1> HIDE DEF c, d
  <1>6. ASSUME NEW m \in Mcus
        PROVE  /\ toMcu[m] = <<>> /\ toHost[m] = <<>> /\ callback[m] = <<>> /\ ~ mcu[m].can
               /\ toMcu'[m] = <<c, d>> /\ toMcu'[m] \in Seq(Command) /\ Elems(toMcu'[m]) = {c, d}
               /\ m \notin Starting /\ m \in Starting' /\ m \in Timing'
    <2>1. /\ toMcu[m] = <<>> /\ toHost[m] = <<>> /\ callback[m] = <<>> /\ ~ mcu[m].can
      BY Zenon, <1>3 DEF Quiet
    <2>2. toMcu'[m] = <<>> \o <<c, d>> BY Zenon, <1>2, <2>1
    <2>3. toMcu'[m] = <<c, d>> /\ toMcu'[m] \in Seq(Command) BY <1>5, <2>2
    <2>4. Elems(toMcu'[m]) = {c, d} /\ Elems(toMcu[m]) = {} BY SMTT(60), <2>1, <2>3 DEF Elems
    <2> QED BY Zenon, <1>5, <2>1, <2>3, <2>4, StartingElems, TimingElems
  <1>7. TypeOK'
    <2>1. /\ toMcu' \in [Mcus -> Seq(Command)] /\ trigAt' \in [Mcus -> Nat \cup {None}]
          /\ lastStatus' \in [Mcus -> Nat]
      BY Zenon, <1>2, <1>4, <1>6
    <2>2. expireClock' \in [Mcus -> Nat]
      <3>1. now + Lead + ExpireTicks \in Nat BY <1>4, HomingAssumption
      <3> QED BY Zenon, <3>1 DEF Start
    <2>3. /\ completion' = FALSE /\ waiting' = Mcus /\ homeEnd' = None
          /\ handler' = [m \in Mcus |-> "state"]
          /\ lastParams' = [m \in Mcus |-> None] /\ res' = [m \in Mcus |-> 0]
          /\ result' = "none" /\ steps' = [m \in Mcus |-> 0]
      BY Zenon DEF Start
    <2>4. /\ completion' \in BOOLEAN /\ waiting' \subseteq Mcus
          /\ handler' \in [Mcus -> {"none", "state", "query"}]
      BY Zenon, <2>3
    <2>5. lastParams' \in [Mcus -> (0 .. 4) \cup {None}] BY Zenon, <2>3
    <2>6. res' \in [Mcus -> 0 .. 4] /\ steps' \in [Mcus -> Nat] BY <2>3
    <2> QED BY Zenon, <1>1, <1>2, <1>4, <2>1, <2>2, <2>3, <2>4, <2>5, <2>6 DEF TypeOK, Command, Times
  <1>8. ASSUME NEW a \in Mcus
        PROVE  /\ Horizon'[a] \in Nat /\ Horizon[a] \in Nat
               /\ Horizon[a] <= Horizon'[a] /\ startClock' <= Horizon'[a]
    <2>1. trigAt'[a] = None /\ (trigAt[a] # None => trigAt[a] <= now)
      BY Zenon, <1>1, <1>2 DEF Board, McuOK
    <2>2. now <= now' /\ startClock <= startClock' BY SMTT(60), <1>1, <1>2, <1>4 DEF PhaseOK
    <2>3. startClock' <= Horizon'[a]
      <3>1. Horizon'[a] = IF now' < startClock' THEN startClock' ELSE now' BY Zenon, <2>1 DEF Horizon
      <3>2. now' \in Nat /\ startClock' \in Nat BY Zenon, <1>2, <1>4
      <3> QED BY <3>1, <3>2
    <2> QED BY Zenon, <1>1, <1>7, <2>1, <2>2, <2>3, HorizonAhead
  <1>9. ASSUME NEW m \in Mcus PROVE Board(m)'
    <2>1. McuOK(m) /\ ReportsOK(m) /\ StepsOK(m) BY Zenon, <1>1 DEF Board
    <2>2. CommandsOK(m)'
      <3>1. OnlyFirst(toMcu'[m])
        <4>1. Len(<<c, d>>) = 2 /\ <<c, d>>[2] = d OBVIOUS
        <4>2. \A i \in 2 .. 2 : i = 2 OBVIOUS
        <4> QED BY Zenon, <1>5, <1>6, <4>1, <4>2 DEF OnlyFirst
      <3>2. ASSUME NEW e \in Elems(toMcu'[m]) PROVE CommandOK(m, e)'
        <4>1. CASE e = c BY Zenon, <1>5, <4>1 DEF CommandOK
        <4>2. CASE e = d
          <5>1. startClock' \in Nat BY Zenon, <1>2, <1>4
          <5>2. e.cmd = "set_timeout" /\ e.arg = startClock' + ExpireTicks BY Zenon, <1>5, <4>2
          <5>3. ASSUME NEW a \in Mcus PROVE e.arg <= Horizon'[a] + ExpireTicks
            <6>1. Horizon'[a] \in Nat /\ startClock' <= Horizon'[a] BY Zenon, <1>8
            <6> QED BY SMTT(60), <5>1, <5>2, <6>1, HomingAssumption
          <5> QED BY Zenon, <5>2, <5>3 DEF CommandOK
        <4>3. Elems(toMcu'[m]) = {c, d} BY Zenon, <1>6
        <4>4. e = c \/ e = d BY Zenon, <4>3
        <4> QED BY Zenon, <4>1, <4>2, <4>4
      <3> QED BY Zenon, <3>1, <3>2 DEF CommandsOK
    <2>3. McuOK(m)'
      <3>1. Bounded(m, mcu[m].expire)'
        <4>1. ASSUME NEW a \in Mcus \ {m}, mcu[m].expire # None
              PROVE  mcu[m].expire <= Horizon'[a] + ExpireTicks
          <5>1. mcu[m].expire \in Nat /\ mcu[m].expire <= Horizon[a] + ExpireTicks
            <6>1. mcu[m] \in McuState BY Zenon, <1>1, Typed
            <6> QED BY Zenon, <2>1, <4>1, <6>1 DEF McuOK, Bounded, McuState, Times
          <5> QED BY SMTT(60), <1>8, <5>1, HomingAssumption
        <4> QED BY Zenon, <1>2, <2>1, <4>1 DEF McuOK, Bounded
      <3>2. trigAt'[m] = None BY Zenon, <1>2
      <3> QED BY Zenon, <1>2, <1>6, <2>1, <3>1, <3>2 DEF McuOK
    <2>4. ReportsOK(m)'
      <3>1. lastStatus'[m] = startClock' BY Zenon, <1>2
      <3>2. Elems(toHost'[m]) = {} /\ Elems(callback'[m]) = {} BY SMTT(60), <1>2, <1>6 DEF Elems
      <3> QED BY Zenon, <1>8, <3>1, <3>2 DEF ReportsOK
    <2>5. Fresh(m)'
      <3>1. Elems(toHost'[m]) = {} /\ Elems(callback'[m]) = {} BY SMTT(60), <1>2, <1>6 DEF Elems
      <3> QED BY Zenon, <1>5, <1>6, <3>1 DEF Fresh
    <2>6. StepsOK(m)'
      <3>1. ASSUME NEW e \in Elems(stepQ[m]) PROVE StepOK(m, e)'
        <4>0. e \in StepCommand BY Zenon, <1>4, ElemsType
        <4>1. StepOK(m, e) /\ e.ses \in Nat BY Zenon, <2>1, <4>0 DEF StepsOK, StepCommand
        <4>2. e.ses <= session' /\ e.ses < session' BY SMTT(60), <1>2, <1>4, <4>1 DEF StepOK
        <4> QED BY Zenon, <1>2, <1>6, <4>1, <4>2 DEF StepOK
      <3>2. Behind(m)' BY ZenonT(60), <1>2, <1>6, <2>1 DEF StepsOK, Behind
      <3> QED BY Zenon, <1>2, <1>6, <2>1, <3>1, <3>2 DEF StepsOK
    <2> QED BY Zenon, <2>2, <2>3, <2>4, <2>5, <2>6 DEF Board
  <1>10. PhaseOK' BY SMTT(60), <1>2, <1>3, <1>4 DEF PhaseOK
  <1> QED BY Zenon, <1>7, <1>9, <1>10 DEF IInv

LEMMA TickInv ==
    ASSUME IInv, Tick PROVE IInv'
  <1>1. TypeOK /\ PhaseOK /\ (\A a \in Mcus : Board(a)) BY Zenon DEF IInv
  <1>2. /\ now' = now + 1 /\ \A m \in Mcus : mcu[m].expire # now
        /\ UNCHANGED <<mcuVars, lines, dispatch, session_, drops>>
    BY Zenon DEF Tick
  <1>3. /\ UNCHANGED <<mcu, homing, trigAt, toMcu, stepQ, toHost, callback, td, lastStatus, expireClock>>
        /\ UNCHANGED <<phase, session, completion, waiting, homeEnd, handler, lastParams,
                       todo, asking, retries, res, result, steps, startClock, drops>>
    BY Zenon, <1>2 DEF mcuVars, lines, dispatch, session_
  <1>4. now \in Nat /\ now' \in Nat /\ now <= now' BY <1>1, <1>2, Typed
  <1>5. TypeOK' BY ZenonT(60), <1>1, <1>3, <1>4 DEF TypeOK, Times
  <1>6. ASSUME NEW a \in Mcus
        PROVE  Horizon'[a] \in Nat /\ Horizon[a] \in Nat /\ Horizon[a] <= Horizon'[a]
    <2>1. startClock <= startClock' /\ trigAt'[a] = trigAt[a] BY SMTT(60), <1>1, <1>3, Typed
    <2> QED BY Zenon, <1>1, <1>4, <1>5, <2>1, HorizonAhead
  <1>7. Starting' = Starting /\ Timing' = Timing /\ Quiet' = Quiet /\ Stopping' = Stopping /\ (Live' <=> Live)
    BY Zenon, <1>3 DEF Starting, Timing, Quiet, Stopping, Live
  <1>8. ASSUME NEW m \in Mcus PROVE Board(m)'
    <2>1. CommandsOK(m) /\ McuOK(m) /\ ReportsOK(m) /\ Fresh(m) /\ StepsOK(m) BY Zenon, <1>1 DEF Board
    <2>2. CommandsOK(m)'
      <3>1. ASSUME NEW c \in Elems(toMcu[m]) PROVE CommandOK(m, c)'
        <4>1. CommandOK(m, c) /\ c.arg \in Nat
          <5>1. c \in Command BY Zenon, <1>1, Typed, ElemsType
          <5> QED BY Zenon, <2>1, <5>1 DEF CommandsOK, Command, Times
        <4>2. ASSUME NEW a \in Mcus \ {m}, c.arg <= Horizon[a] + ExpireTicks
              PROVE  c.arg <= Horizon'[a] + ExpireTicks
          BY SMTT(60), <1>6, <4>1, <4>2, HomingAssumption
        <4> QED BY Zenon, <1>3, <4>1, <4>2 DEF CommandOK
      <3> QED BY Zenon, <1>3, <2>1, <3>1 DEF CommandsOK
    <2>3. McuOK(m)'
      <3>1. mcu[m] \in McuState BY Zenon, <1>1, Typed
      <3>2. Bounded(m, mcu[m].expire)'
        <4>1. ASSUME mcu[m].expire # None
              PROVE  now' <= mcu[m].expire /\ \A a \in Mcus \ {m} : mcu[m].expire <= Horizon'[a] + ExpireTicks
          <5>1. mcu[m].expire \in Nat BY Zenon, <3>1, <4>1 DEF McuState, Times
          <5>2. now <= mcu[m].expire /\ \A a \in Mcus \ {m} : mcu[m].expire <= Horizon[a] + ExpireTicks
            BY Zenon, <2>1, <4>1 DEF McuOK, Bounded
          <5>3. now' <= mcu[m].expire BY SMTT(60), <1>2, <1>4, <5>1, <5>2
          <5>4. ASSUME NEW a \in Mcus \ {m} PROVE mcu[m].expire <= Horizon'[a] + ExpireTicks
            BY SMTT(60), <1>6, <5>1, <5>2, HomingAssumption
          <5> QED BY Zenon, <5>3, <5>4
        <4> QED BY Zenon, <1>3, <4>1 DEF Bounded
      <3>3. trigAt[m] # None => trigAt[m] <= now'
        <4>1. trigAt[m] # None => trigAt[m] \in Nat BY Zenon, <1>1 DEF TypeOK, Times
        <4> QED BY Zenon, <1>4, <2>1, <4>1, Order DEF McuOK
      <3> QED BY Zenon, <1>3, <1>7, <2>1, <3>2, <3>3 DEF McuOK
    <2>4. ReportsOK(m)'
      <3>1. lastStatus[m] \in Nat /\ \A r \in Elems(toHost[m]) \cup Elems(callback[m]) : r.clock \in Nat
        <4>1. /\ Elems(toHost[m]) \subseteq Report /\ Elems(callback[m]) \subseteq Report
              /\ lastStatus[m] \in Nat
          BY Zenon, <1>1, Typed, ElemsType DEF TypeOK, Times
        <4> QED BY Zenon, <4>1 DEF Report, Times
      <3>2. lastStatus[m] <= Horizon'[m]
        <4>1. lastStatus[m] <= Horizon[m] BY Zenon, <2>1 DEF ReportsOK
        <4> QED BY SMTT(60), <1>6, <3>1, <4>1
      <3>3. ASSUME NEW r \in Elems(toHost[m]) \cup Elems(callback[m]), r.can
            PROVE  r.clock <= Horizon'[m]
        BY SMTT(60), <1>6, <2>1, <3>1, <3>3 DEF ReportsOK
      <3> QED BY Zenon, <1>3, <3>2, <3>3 DEF ReportsOK
    <2>5. Fresh(m)' BY Zenon, <1>3, <1>7, <2>1 DEF Fresh
    <2>6. StepsOK(m)' BY ZenonT(60), <1>3, <1>7, <2>1 DEF StepsOK, StepOK, Behind
    <2> QED BY Zenon, <2>2, <2>3, <2>4, <2>5, <2>6 DEF Board
  <1>9. PhaseOK'
    <2>1. startClock <= now + Lead BY Zenon, <1>1 DEF PhaseOK
    <2>2. \A a, b, c \in Nat : a <= b + Lead /\ b <= c => a <= c + Lead
      BY HomingAssumption
    <2>3. startClock' <= now' + Lead BY Zenon, <1>1, <1>3, <1>4, <2>1, <2>2, Typed
    <2> QED BY Zenon, <1>1, <1>3, <1>7, <2>3 DEF PhaseOK
  <1> QED BY Zenon, <1>5, <1>8, <1>9 DEF IInv

LEMMA StutterInv ==
    ASSUME IInv, UNCHANGED vars PROVE IInv'
  <1>1. /\ UNCHANGED <<mcu, homing, trigAt, toMcu, stepQ, toHost, callback, td, lastStatus, expireClock>>
        /\ UNCHANGED <<phase, session, completion, waiting, homeEnd, handler, lastParams,
                       todo, asking, retries, res, result, steps, startClock, now, drops>>
    BY Zenon DEF vars, mcuVars, lines, dispatch, session_, time
  <1>2. TypeOK /\ PhaseOK /\ (\A a \in Mcus : Board(a)) BY Zenon DEF IInv
  <1>3. TypeOK' BY ZenonT(60), <1>1, <1>2 DEF TypeOK
  <1>4. PhaseOK' BY Zenon, <1>1, <1>2 DEF PhaseOK, Quiet, Stopping, Starting
  <1>5. \A n \in Mcus : Board(n)'
    <2>1. (Live' => Live) /\ \A n \in Mcus : Sends(n) BY Zenon, <1>1 DEF Live, Sends
    <2> QED BY Zenon, <1>1, <1>2, <2>1, MainStep DEF mcuVars
  <1> QED BY Zenon, <1>3, <1>4, <1>5 DEF IInv

LEMMA InitInv ==
    ASSUME Init PROVE IInv
  <1>1. TypeOK
    <2>1. mcu \in [Mcus -> McuState] BY Zenon, ClearedType DEF Init
    <2>2. toMcu \in [Mcus -> Seq(Command)] /\ stepQ \in [Mcus -> Seq(StepCommand)] BY SMTT(60) DEF Init
    <2>3. toHost \in [Mcus -> Seq(Report)] /\ callback \in [Mcus -> Seq(Report)] BY SMTT(60) DEF Init
    <2>4. td \in [active : BOOLEAN, can : BOOLEAN] /\ completion \in BOOLEAN BY Zenon DEF Init
    <2>5. retries \in 0 .. Retries BY SMTT(60), HomingAssumption DEF Init
    <2>6. /\ now \in Nat /\ drops \in Nat /\ session \in Nat /\ startClock \in Nat
          /\ lastStatus \in [Mcus -> Nat] /\ expireClock \in [Mcus -> Nat]
          /\ res \in [Mcus -> 0 .. 4] /\ steps \in [Mcus -> Nat]
      BY SMTT(60) DEF Init
    <2> QED BY ZenonT(60), <2>1, <2>2, <2>3, <2>4, <2>5, <2>6
        DEF Init, TypeOK, Times, Command, StepCommand, Report
  <1>2. ASSUME NEW m \in Mcus
        PROVE  /\ mcu[m] = Cleared /\ toMcu[m] = <<>> /\ toHost[m] = <<>> /\ callback[m] = <<>>
               /\ stepQ[m] = <<>> /\ trigAt[m] = None /\ lastStatus[m] = 0
               /\ Elems(toMcu[m]) = {} /\ Elems(toHost[m]) = {} /\ Elems(callback[m]) = {}
               /\ Elems(stepQ[m]) = {} /\ 1 .. Len(stepQ[m]) = {}
    BY SMTT(60) DEF Init, Elems
  <1>3. /\ Cleared.can = FALSE /\ Cleared.expire = None /\ Cleared.reportAt = None
        /\ Cleared.stepper = "idle" /\ Cleared.down = FALSE
    BY Zenon DEF Cleared
  <1>4. PhaseOK
    <2>1. Quiet = Mcus BY Zenon, <1>2, <1>3 DEF Quiet
    <2>2. startClock <= now + Lead BY SMTT(60), HomingAssumption DEF Init
    <2> QED BY Zenon, <2>1, <2>2 DEF PhaseOK, Init
  <1>5. ASSUME NEW m \in Mcus PROVE Board(m)
    <2>1. CommandsOK(m) BY SMTT(60), <1>2 DEF CommandsOK, OnlyFirst
    <2>2. McuOK(m) BY Zenon, <1>2, <1>3, StartingElems DEF McuOK, Bounded
    <2>3. ReportsOK(m)
      <3>1. 0 <= Horizon[m] BY SMTT(60), <1>1, HorizonType
      <3> QED BY Zenon, <1>2, <3>1 DEF ReportsOK
    <2>4. Fresh(m) BY Zenon DEF Fresh, Live, Init
    <2>5. StepsOK(m) BY SMTT(60), <1>2 DEF StepsOK, Behind, Live, Init
    <2> QED BY Zenon, <2>1, <2>2, <2>3, <2>4, <2>5 DEF Board
  <1> QED BY Zenon, <1>1, <1>4, <1>5 DEF IInv

-----------------------------------------------------------------------------
(* The theorems. *)

LEMMA NextInv ==
    ASSUME IInv, [Next]_vars PROVE IInv'
  <1>1. ASSUME NEW m \in Mcus, Deliver(m) PROVE IInv' BY Zenon, <1>1, DeliverInv, StartInv
  <1>2. ASSUME NEW m \in Mcus, McuNext(m) PROVE IInv'
    BY Zenon, <1>1, <1>2, DeliverStepInv, ExpireInv, ReportInv DEF McuNext
  <1>3. ASSUME NEW m \in Mcus, HostNext(m) PROVE IInv'
    BY Zenon, <1>3, HandleMessageInv, HandleStateInv, DripInv, StopInv, QueryFailedInv, HomingEndInv
    DEF HostNext
  <1> QED BY Zenon, <1>2, <1>3, DropInv, EndstopInv, StartMoveInv, DispatchInv, EndTimeInv,
             DispatchStopInv, ShutdownInv, TickInv, StutterInv DEF Next

\* The inductive invariant holds in every reachable state.
LEMMA Invariance == Spec => []IInv
  <1>1. Init => IInv BY Zenon, InitInv
  <1>2. IInv /\ [Next]_vars => IInv' BY Zenon, NextInv
  <1> QED BY <1>1, <1>2, PTL DEF Spec

\* The values of the micro-controllers, the queues and the session.
THEOREM TypeCorrect == Spec => []TypeOK
  <1>1. IInv => TypeOK BY Zenon DEF IInv
  <1> QED BY <1>1, Invariance, PTL

\* No stepper of any micro-controller whose first deadline has arrived moves more
\* than ExpireTicks after the first trsync triggered, timed out or shut down (or
\* after the start clock of the move), whatever happens to the messages.
THEOREM OverrunIsBounded == Spec => []OverrunBounded
  <1>1. ASSUME IInv, NEW a \in Mcus, NEW b \in Mcus, trigAt[a] # None, mcu[b].stepper = "moving",
               ~ Unarmed(b)
        PROVE  now <= trigAt[a] + ExpireTicks \/ now <= startClock + ExpireTicks
    <2>1. TypeOK /\ McuOK(a) /\ McuOK(b) BY Zenon, <1>1 DEF IInv, Board
    <2>2. mcu[b].can /\ mcu[b].expire # None /\ Bounded(b, mcu[b].expire)
      <3>1. b \notin Timing \/ mcu[b].expire # None BY Zenon, <1>1 DEF Unarmed, Timing, Elems
      <3> QED BY Zenon, <1>1, <2>1, <3>1 DEF McuOK
    <2>3. a # b BY Zenon, <1>1, <2>1, <2>2 DEF McuOK
    <2>4. now <= mcu[b].expire /\ mcu[b].expire <= Horizon[a] + ExpireTicks
      BY Zenon, <2>2, <2>3 DEF Bounded
    <2>5. Horizon[a] \in {startClock, trigAt[a]} BY Zenon, <1>1, <2>1, HorizonType
    <2>6. now \in Nat /\ mcu[b].expire \in Nat /\ Horizon[a] \in Nat
      <3>1. mcu[b] \in McuState /\ now \in Nat /\ Horizon[a] \in Nat BY Zenon, <2>1, Typed, HorizonType
      <3> QED BY Zenon, <2>2, <3>1 DEF McuState, Times
    <2>7. now <= Horizon[a] + ExpireTicks BY <2>4, <2>6, HomingAssumption
    <2> QED BY Zenon, <2>5, <2>7
  <1>2. IInv => OverrunBounded BY Zenon, <1>1 DEF OverrunBounded
  <1> QED BY <1>2, Invariance, PTL

\* While a homing move runs, every command, report and running callback
\* belongs to it.
THEOREM SessionsAreFresh == Spec => []SessionFresh
  <1>1. ASSUME IInv, Live, NEW m \in Mcus, NEW q \in {toMcu[m], toHost[m], callback[m]},
               NEW i \in 1 .. Len(q)
        PROVE  q[i].ses = session
    <2>1. Fresh(m) BY Zenon, <1>1 DEF IInv, Board
    <2>2. q[i] \in Elems(q) BY Zenon DEF Elems
    <2>3. q[i] \in Elems(toMcu[m]) \cup Elems(toHost[m]) \cup Elems(callback[m]) BY Zenon, <2>2
    <2> QED BY Zenon, <1>1, <2>1, <2>3 DEF Fresh
  <1>2. IInv => SessionFresh BY Zenon, <1>1 DEF SessionFresh
  <1> QED BY <1>2, Invariance, PTL

\* A step that is executed belongs to the homing move under way, whose
\* position has not been read.
THEOREM NoStepIsStale == Spec => NoStaleStep
  <1> DEFINE Stale(m) ==
          (Len(stepQ'[m]) < Len(stepQ[m]) /\ mcu'[m].stepper = "moving")
              => /\ Head(stepQ[m]).ses = session
                 /\ ~ (phase = "done" \/ (phase = "stop" /\ m \notin todo \cup asking))
  <1>1. ASSUME IInv, NEW m \in Mcus, mcu[m].can
        PROVE  ~ (phase = "done" \/ (phase = "stop" /\ m \notin todo \cup asking))
    BY Zenon, <1>1 DEF IInv, PhaseOK, Quiet
  <1>2. ASSUME IInv, NEW m \in Mcus, DeliverStep(m), mcu'[m].stepper = "moving"
        PROVE  mcu[m].can /\ Head(stepQ[m]).ses = session
    <2>1. /\ \/ mcu'[m] = mcu[m]
             \/ mcu[m].can /\ Head(stepQ[m]).cmd = "step" /\ Head(stepQ[m]).ses = session
          /\ StepTo(mcu[m], mcu'[m], Head(stepQ[m])) /\ StepOK(m, Head(stepQ[m]))
          /\ Head(stepQ[m]) \in StepCommand
      BY Zenon, <1>2, StepArrives
    <2>2. McuOK(m) BY Zenon, <1>2 DEF IInv, Board
    <2>3. CASE mcu'[m] = mcu[m]
      <3>1. mcu[m].can /\ ~ mcu[m].down BY Zenon, <1>2, <2>2, <2>3 DEF McuOK
      <3>2. Head(stepQ[m]).cmd = "step" BY Zenon, <1>2, <2>1, <2>3, <3>1 DEF StepTo, StepCommand
      <3> QED BY Zenon, <1>2, <2>1, <2>3, <3>1, <3>2 DEF StepOK
    <2> QED BY Zenon, <2>1, <2>3
  <1>3. ASSUME IInv, [Next]_vars, NEW m \in Mcus PROVE Stale(m)
    <2>1. CASE stepQ'[m] = stepQ[m]
      <3>1. Len(stepQ[m]) \in Nat BY <1>3, Typed DEF IInv
      <3> QED BY Zenon, <2>1, <3>1, Order
    <2>2. ASSUME NEW n \in Mcus, drip_move(n) \/ note_homing_end(n) PROVE Stale(m)
      <3>1. stepQ \in [Mcus -> Seq(StepCommand)] BY Zenon, <1>3, Typed DEF IInv
      <3>2. stepQ' = stepQ \/ \E k \in {"step", "reset"} : stepQ' = [stepQ EXCEPT ![n] = Append(@, Cmd(k, 0))]
        BY Zenon, <2>2 DEF drip_move, note_homing_end
      <3>3. stepQ'[m] = stepQ[m] \/ \E k \in {"step", "reset"} : stepQ'[m] = Append(stepQ[m], Cmd(k, 0))
        BY Zenon, <3>1, <3>2
      <3>4. Len(stepQ[m]) \in Nat /\ Len(stepQ'[m]) >= Len(stepQ[m]) BY <3>1, <3>3
      <3>5. Len(stepQ'[m]) \in Nat BY <3>1, <3>3
      <3> QED BY SMTT(60), <3>4, <3>5
    <2>3. ASSUME NEW n \in Mcus, DeliverStep(n) PROVE Stale(m)
      <3>1. stepQ \in [Mcus -> Seq(StepCommand)] BY Zenon, <1>3, Typed DEF IInv
      <3>2. CASE n # m
        <4>1. stepQ'[m] = stepQ[m] BY Zenon, <2>3, <3>1, <3>2 DEF DeliverStep
        <4> QED BY Zenon, <2>1, <4>1
      <3>3. CASE n = m BY Zenon, <1>1, <1>2, <1>3, <2>3, <3>3
      <3> QED BY Zenon, <3>2, <3>3
    <2>4. CASE stepQ' = stepQ BY Zenon, <2>1, <2>4
    <2>5. \/ stepQ' = stepQ
          \/ \E n \in Mcus : DeliverStep(n) \/ drip_move(n) \/ note_homing_end(n)
      BY ZenonT(60), <1>3 DEF Next, McuNext, HostNext, Deliver, trsync_expire_event, trsync_report_event,
         handle_message, handle_trsync_state, stop, QueryFailed, Drop, endstop_event, Start, trdispatch_start,
         set_home_end_time, trdispatch_stop, invoke_shutdown, Tick, vars, lines
    <2> QED BY Zenon, <2>2, <2>3, <2>4, <2>5
  <1>4. IInv /\ [Next]_vars => [\A m \in Mcus : Stale(m)]_vars BY Zenon, <1>3
  <1> QED BY <1>4, Invariance, PTL DEF Spec, NoStaleStep
=============================================================================
