----------------------------- MODULE TimerQueue -----------------------------
(***************************************************************************)
(* What the scheduler of the micro-controller promises to the code that    *)
(* uses it: a set of pending timers, of which the earliest due one, once   *)
(* due, is called next.  Due times are counted from now and never wrap.    *)
(* Every change of the set is one that a user asked for: "event" says what *)
(* was asked for or told in the last step, and determines the new set.     *)
(***************************************************************************)
EXTENDS Integers, Functions

VARIABLES
    due,        \* for each pending timer, the ticks until it is due
    event       \* what passed between the timers and their users

Init == due = << >> /\ event = <<"quiet">>

With(t, d, f) == [u \in DOMAIN f \cup {t} |-> IF u = t THEN d ELSE f[u]]
Without(ts, f) == Restrict(f, DOMAIN f \ ts)

Add(t, d) == t \notin DOMAIN due /\ due' = With(t, d, due)

Delete(t) == due' = Without({t}, due)

\* Only a due timer is called, and only if none is due before it.  It asks to be called
\* d ticks after its time, or ends (0), and may have deleted other timers.
Call(t, d, gone) ==
    /\ t \in DOMAIN due /\ due[t] <= 0
    /\ \A u \in DOMAIN due : due[t] <= due[u]
    /\ LET rest == Without(gone \cup {t}, due)
       IN  due' = IF d = 0 THEN rest ELSE With(t, due[t] + d, rest)

Tick == due' = [t \in DOMAIN due |-> due[t] - 1]

\* A shutdown removes all timers.
Reset == due' = << >>

Next ==
    \/ event'[1] = "add" /\ Add(event'[2], event'[3])
    \/ event'[1] = "del" /\ Delete(event'[2])
    \/ event'[1] = "call" /\ Call(event'[2], event'[3], event'[4])
    \/ event'[1] = "tick" /\ Tick
    \/ event'[1] = "reset" /\ Reset
    \/ event'[1] = "quiet" /\ UNCHANGED due

Spec == Init /\ [][Next]_<<due, event>>
=============================================================================
