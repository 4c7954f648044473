---------------------------- MODULE SchedTimers ----------------------------
(***************************************************************************)
(* The timers of the micro-controller (sched.c) on the Cortex-M hardware   *)
(* timer (generic/armcm_timer.c): a linked list sorted by a clock that     *)
(* wraps around, the hint where the last timer was inserted, the countdown *)
(* of the hardware timer, the interrupt handler that calls the timers, and *)
(* the main loop, which runs the tasks while the handler does not run.     *)
(*                                                                         *)
(* A step of the handler is one iteration of timer_dispatch_many, a step   *)
(* of the main loop a round of tasks.  The fields of a timer that is not   *)
(* on the list are never read; they are cleared here when it leaves it.    *)
(*                                                                         *)
(* The history variable "event" records what the users of the timers asked *)
(* for or were told in the last step, whatever became of the list:         *)
(*   <<"add", t, d>>          timer t was added, due in d ticks            *)
(*   <<"del", t>>             timer t was deleted                          *)
(*   <<"call", t, d, gone>>   t was called, asked to be called d ticks     *)
(*                            later (0: it ended) and deleted "gone"       *)
(*   <<"tick">>, <<"reset">>, <<"quiet">>                                  *)
(***************************************************************************)
EXTENDS Integers, FiniteSets

CONSTANTS
    Timers,         \* the timers of the drivers (steppers, trsync, outputs ...)
    W,              \* the clock has the values 0 .. W - 1 (2^32 in the code)
    Period,         \* period of periodic_timer
    Horizon,        \* how far ahead of the clock a driver sets a timer
    MaxLate,        \* how late a timer gets while the handler could call it
    MinTry,         \* TIMER_MIN_TRY_TICKS
    Defer,          \* TIMER_DEFER_REPEAT_TICKS
    Repeat,         \* TIMER_REPEAT_TICKS
    IdleRepeat,     \* TIMER_IDLE_REPEAT_TICKS
    TooLate,        \* the 1000 us after which a late timer is a shutdown
    None

\* Times in use differ by less than half the range of the clock.
ASSUME ClockWide ==
    W % 2 = 0 /\ \A ahead \in {Horizon, Period} : ahead + MaxLate + Defer < W \div 2

Nodes == Timers \cup {"periodic", "sentinel", "deleted"}

VARIABLES
    clock,
    next, waketime,         \* of every struct timer
    timer_list, last_insert,
    countdown,              \* SysTick: ticks until the handler is entered
    handler,                \* "out", in timer_dispatch_many waiting for the next timer
                            \* ("wait"), or with a shutdown ahead ("stop")
    timer_repeat_until,     \* when a busy handler gives way to the tasks
    tasks_status,           \* "idle", "requested" or "running"
    wake,                   \* task_wake of a driver's task
    shutdown_status,
    event                   \* history: what passed between the timers and their users

list == <<next, waketime, timer_list, last_insert>>
irq == <<countdown, handler>>
vars == <<clock, list, irq, timer_repeat_until, tasks_status, wake, shutdown_status,
          event>>

Quiet == event' = <<"quiet">>

-----------------------------------------------------------------------------
(* Times and the list. *)

Signed(d) == IF d % W < W \div 2 THEN d % W ELSE (d % W) - W

timer_is_before(time1, time2) == Signed(time1 - time2) < 0

\* How long until node n is due.
Left(n) == Signed(waketime[n] - clock)

\* The nodes from p on, following nx; None after the end.
Walk(nx, p) ==
    LET w[i \in 0..Cardinality(Nodes)] ==
            IF i = 0 THEN p ELSE LET n == w[i - 1] IN IF n = None THEN None ELSE nx[n]
    IN  w

Chain == Walk(next, timer_list)
Listed == LET ch == Chain IN {ch[i] : i \in DOMAIN ch} \ {None}

\* insert_timer(pos, t, wt[t]) in the list nx: before the first node behind pos that
\* is due later.
insert_timer(nx, wt, pos, t) ==
    LET w == Walk(nx, pos)
        stop(i) == w[i] = None \/ timer_is_before(wt[t], wt[w[i]])
        i == CHOOSE i \in 1..Cardinality(Nodes) : stop(i) /\ \A j \in 1..(i - 1) : ~stop(j)
    IN  [nx EXCEPT ![t] = w[i], ![w[i - 1]] = t]


-----------------------------------------------------------------------------
(* What commands call. *)

AddFirst_bare(add, time) ==
    /\ waketime' = [waketime EXCEPT ![add] = time]
    /\ next' = [next EXCEPT ![add] = timer_list]
    /\ timer_list' = add /\ countdown' = 0

\* A timer before all others goes behind the deleted timer, which the handler then
\* calls at once.
AddFirst(add, time) ==
    /\ waketime' = [waketime EXCEPT ![add] = time, !["deleted"] = time]
    /\ next' = [next EXCEPT ![add] = IF timer_list = "deleted" THEN next["deleted"]
                                                               ELSE timer_list,
                            !["deleted"] = add]
    /\ timer_list' = "deleted" /\ countdown' = 0

\* sched_add_timer, due in d ticks.  If it is before all others and already past, the
\* micro-controller shuts down ("Timer too close").
sched_add_timer(add, d) ==
    LET tl == timer_list
        time == (clock + d) % W
        first == timer_is_before(time, waketime[tl])
        close == first /\ timer_is_before(time, clock)
        wt == [waketime EXCEPT ![add] = time]
    IN  \/ close /\ handler' = "stop" /\ Quiet /\ UNCHANGED <<list, countdown>>
        \/ /\ first /\ ~close
           /\ AddFirst(add, time) /\ event' = <<"add", add, d>>
           /\ UNCHANGED <<last_insert, handler>>
        \/ /\ ~first
           /\ waketime' = wt /\ event' = <<"add", add, d>>
           /\ next' = insert_timer(next, wt, tl, add)
           /\ UNCHANGED <<timer_list, last_insert, countdown, handler>>

\* The list nx without del.
Unlinked(nx, del) == [n \in Nodes |-> IF n = del THEN None
                                      ELSE IF nx[n] = del THEN nx[del] ELSE nx[n]]

HintOff_kept(del) == last_insert

\* The hint does not stay on a deleted timer.
HintOff(del) == IF last_insert = del THEN "periodic" ELSE last_insert

\* sched_del_timer: the head is replaced by the deleted timer, for which the hardware
\* timer is already set.
sched_del_timer(del) ==
    LET head == timer_list = del
    IN  /\ waketime' = [waketime EXCEPT ![del] = 0,
                                        !["deleted"] = IF head THEN waketime[del] ELSE @]
        /\ next' = IF head THEN [next EXCEPT !["deleted"] = next[del], ![del] = None]
                           ELSE Unlinked(next, del)
        /\ timer_list' = IF head THEN "deleted" ELSE timer_list
        /\ last_insert' = HintOff(del)
        /\ event' = <<"del", del>>

\* A command adds or deletes a timer; after a shutdown none that does is allowed, but
\* clear_shutdown is.  Any command may shut the micro-controller down: emergency_stop at
\* any time, clear_shutdown when there was no shutdown, others when they find an error.
Command ==
    \/ /\ ~shutdown_status
       /\ \/ \E t \in Timers \ Listed, d \in -1..Horizon : sched_add_timer(t, d)
          \/ \E t \in Timers : sched_del_timer(t) /\ UNCHANGED irq
       /\ UNCHANGED shutdown_status
    \/ shutdown_status /\ shutdown_status' = FALSE /\ Quiet /\ UNCHANGED <<list, irq>>
    \/ handler' = "stop" /\ Quiet /\ UNCHANGED <<list, countdown, shutdown_status>>

-----------------------------------------------------------------------------
(* The interrupt handler. *)

\* sched_timer_dispatch, the callback of the head t returning SF_DONE and leaving
\* the list nx, the times wt and this hint.
Ends(t, nx, wt, hint) ==
    /\ timer_list' = nx[t]
    /\ last_insert' = IF hint = t THEN nx[t] ELSE hint
    /\ next' = [nx EXCEPT ![t] = None]
    /\ waketime' = [wt EXCEPT ![t] = 0]

\* The same for SF_RESCHEDULE: it stays first or moves down the list, which is
\* searched from the hint if that is not too far.
Reschedules(t, nx, wt, hint) ==
    LET rest == nx[t]
    IN  /\ waketime' = wt
        /\ IF timer_is_before(wt[t], wt[rest])
           THEN timer_list' = t /\ last_insert' = hint /\ next' = nx
           ELSE /\ timer_list' = rest /\ last_insert' = t
                /\ next' = insert_timer(nx, wt,
                              IF timer_is_before(wt[t], wt[hint]) THEN rest ELSE hint, t)

\* periodic_event.
periodic_event ==
    LET w == (waketime["periodic"] + Period) % W
    IN  Reschedules("periodic", next, [waketime EXCEPT !["periodic"] = w,
                                        !["sentinel"] = (w + W \div 2) % W], last_insert)

\* A driver's callback ends, or sets its timer to a later time, or ends and deletes
\* another timer (trsync stopping a stepper).
Driver(t) ==
    \/ Ends(t, next, waketime, last_insert) /\ event' = <<"call", t, 0, {}>>
    \/ \E d \in 1..Horizon :
          /\ Reschedules(t, next, [waketime EXCEPT ![t] = (@ + d) % W], last_insert)
          /\ event' = <<"call", t, d, {}>>
    \/ \E u \in Timers \ {t} :
          /\ Ends(t, Unlinked(next, u), [waketime EXCEPT ![u] = 0], HintOff(u))
          /\ event' = <<"call", t, 0, {u}>>

\* The callback of the head; a driver's may wake a task.
Callback ==
    \/ /\ timer_list = "deleted" /\ Ends("deleted", next, waketime, last_insert)
       /\ Quiet /\ UNCHANGED <<tasks_status, wake>>
    \/ /\ timer_list = "periodic" /\ periodic_event
       /\ tasks_status' = "requested" /\ Quiet /\ UNCHANGED wake
    \/ /\ timer_list \in Timers /\ Driver(timer_list)
       /\ \/ UNCHANGED <<tasks_status, wake>>
          \/ tasks_status' = "requested" /\ wake' = TRUE

TasksBusy_never == FALSE

\* sched_tasks_busy, after the callback.
TasksBusy == tasks_status' # "idle"

\* The countdown is over, or the wait for the next timer.
Called ==
    \/ handler = "out" /\ countdown = 0
    \/ handler = "wait" /\ Left(timer_list) <= 0

\* A driver's callback shuts down ("No next step", "Missed scheduling of next ...").
CallbackFails ==
    /\ Called /\ timer_list \in Timers
    /\ handler' = "stop" /\ Quiet
    /\ UNCHANGED <<clock, list, countdown, timer_repeat_until, tasks_status, wake, shutdown_status>>

\* timer_dispatch_many, one iteration: call the head of the list, then set the
\* countdown and leave; or, when the next timer is close, wait for it, give way to
\* the tasks, or shut down because it is far too late.
timer_dispatch_many ==
    /\ Called
    /\ Callback
    /\ LET diff == Signed(waketime'[timer_list'] - clock)
           tired == diff <= MinTry /\ timer_is_before(timer_repeat_until, clock)
           late == tired /\ diff < -TooLate /\ ~shutdown_status
           yields == tired /\ ~late /\ TasksBusy
       IN  /\ handler' = CASE diff > MinTry \/ yields -> "out"
                           [] late -> "stop"
                           [] OTHER -> "wait"
           /\ countdown' = CASE diff > MinTry -> diff
                             [] yields -> Defer
                             [] OTHER -> 0
           /\ timer_repeat_until' = CASE yields -> (clock + Repeat) % W
                                      [] tired /\ ~yields /\ ~late -> (clock + IdleRepeat) % W
                                      [] OTHER -> timer_repeat_until
    /\ UNCHANGED <<clock, shutdown_status>>

\* run_shutdown: sched_timer_reset leaves periodic_timer and the sentinel, and the
\* main loop starts again.
run_shutdown ==
    /\ handler = "stop"
    /\ timer_list' = "deleted"
    /\ waketime' = [n \in Nodes |-> IF n \in Timers THEN 0
                                    ELSE IF n = "deleted" THEN waketime["periodic"]
                                    ELSE waketime[n]]
    /\ next' = [n \in Nodes |-> IF n = "deleted" THEN "periodic"
                                ELSE IF n = "periodic" THEN "sentinel" ELSE None]
    /\ last_insert' = "periodic"
    /\ countdown' = 0 /\ handler' = "out"
    /\ shutdown_status' = TRUE /\ event' = <<"reset">>
    /\ UNCHANGED <<clock, timer_repeat_until, tasks_status, wake>>

-----------------------------------------------------------------------------
(* The main loop. *)

\* run_tasks without work: asleep, after a last check with interrupts disabled.
Sleep ==
    /\ handler = "out" /\ tasks_status = "running"
    /\ tasks_status' = "idle" /\ Quiet
    /\ UNCHANGED <<clock, list, irq, timer_repeat_until, wake, shutdown_status>>

\* timer_task keeps timer_repeat_until comparable with the clock.
timer_task == timer_repeat_until' = IF timer_is_before(timer_repeat_until, clock)
                                    THEN clock ELSE timer_repeat_until

\* run_tasks with work: a round of tasks, the driver's among them, and perhaps one
\* command.  What is requested after its start is for the next round.
Tasks ==
    /\ handler = "out" /\ tasks_status = "requested"
    /\ tasks_status' = "running"
    /\ timer_task
    /\ Command \/ (Quiet /\ UNCHANGED <<list, irq, shutdown_status>>)
    /\ wake' \in IF handler' = "stop" THEN {wake, FALSE} ELSE {FALSE}
    /\ UNCHANGED clock

\* Input on the console; interrupts are enabled while the handler waits.
Input ==
    /\ handler # "stop" /\ tasks_status' = "requested" /\ Quiet
    /\ UNCHANGED <<clock, list, irq, timer_repeat_until, wake, shutdown_status>>

\* The clock and the countdown advance, but no timer the handler could call at once
\* gets later than MaxLate.
Tick ==
    /\ Left(timer_list) > -MaxLate \/ (handler = "out" /\ countdown > 0)
    /\ clock' = (clock + 1) % W /\ event' = <<"tick">>
    /\ countdown' = IF countdown > 0 THEN countdown - 1 ELSE 0
    /\ UNCHANGED <<list, handler, timer_repeat_until, tasks_status, wake, shutdown_status>>

\* At boot: the static initialisers, and timer_init's kick.
Init ==
    /\ clock = 0
    /\ next = [n \in Nodes |-> IF n = "periodic" THEN "sentinel" ELSE None]
    /\ waketime = [n \in Nodes |-> IF n = "sentinel" THEN W \div 2 ELSE 0]
    /\ timer_list = "periodic" /\ last_insert = "periodic"
    /\ countdown = 0 /\ handler = "out" /\ timer_repeat_until = 0
    /\ tasks_status = "requested" /\ wake = FALSE
    /\ shutdown_status = FALSE /\ event = <<"quiet">>

Main == Sleep \/ Tasks

Irq == timer_dispatch_many \/ CallbackFails \/ run_shutdown

Next == Irq \/ Main \/ Input \/ Tick

Spec == Init /\ [][Next]_vars

\* The clock runs, interrupts are served, and the main loop gets on between two runs
\* of the handler (Defer is positive).
FairSpec ==
    /\ Spec
    /\ WF_vars(Tick) /\ WF_vars(Irq)
    /\ SF_vars(Main)

-----------------------------------------------------------------------------
\* Types, and the list as the comments of sched.c describe it: sorted by due time,
\* periodic_timer on it, the sentinel last, the deleted timer nowhere but first, the
\* hint on it; and outside of the handler the countdown ends before the head is due,
\* or at most the time given to the tasks later.
ListOK ==
    /\ clock \in 0..(W - 1) /\ waketime \in [Nodes -> 0..(W - 1)]
    /\ next \in [Nodes -> Nodes \cup {None}] /\ next["sentinel"] = None
    /\ {"periodic", "sentinel", last_insert} \subseteq Listed
    /\ last_insert \notin {"sentinel", "deleted"}
    /\ \A i \in DOMAIN Chain : Chain[i] = "deleted" => i = 0
    /\ \A n \in Listed \ {"sentinel"} :
          next[n] # "sentinel" => Left(n) <= Left(next[n])
    /\ handler = "out" => countdown <= Defer \/ countdown <= Left(timer_list)
    /\ tasks_status \in {"idle", "requested", "running"} /\ wake \in BOOLEAN

\* The list with its wrapping clock implements a queue of timers with unbounded due
\* times: the timers on the list are those that were added and neither deleted nor
\* ended, each due when its user asked for, and the one called is due and the earliest.
\* So no timer is lost, called early, or called before one that is due earlier.
Queue == INSTANCE TimerQueue WITH due <- [t \in Timers \cap Listed |-> Left(t)]
QueueRefined == Queue!Spec

\* A task that was woken runs, however busy the timers keep the handler, unless the
\* micro-controller is shut down again and again before the task's turn.
TasksRun == []<>(handler = "stop") \/ (wake ~> ~wake)
=============================================================================
