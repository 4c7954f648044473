----------------------------- MODULE StepQueue -----------------------------
(***************************************************************************)
(* How the host keeps within the micro-controller's pool of moves without  *)
(* being told of a free one: stepcompress makes queue_step messages,       *)
(* steppersync_flush merges those of all steppers and keeps a heap of the  *)
(* clocks at which slots become free (stepcompress.c), the serial queue    *)
(* holds each message back until its min_clock (serialqueue.c), and the    *)
(* micro-controller allocates a move and frees it when its stepper loads   *)
(* it (basecmd.c, stepper.c).                                              *)
(*                                                                         *)
(* stepper_event_full pushes steps back that come too close, so that a     *)
(* move may end late.  The slots are safe as long as it is not later than  *)
(* a message takes to the micro-controller (Late <= Travel); the code      *)
(* itself sets no limit (its check is a comment).  The other users of the  *)
(* pool have slots of their own (mcu.py's reserved slots).                 *)
(***************************************************************************)
EXTENDS Integers, Sequences

CONSTANTS
    Num,        \* the steppers are 1..Num
    Slots,      \* move_count less the reserved slots
    Far,        \* CLOCK_DIFF_MAX
    Half,       \* half the range of a 32-bit clock
    Lead,       \* steps are made at least this long before they are due
    Late,       \* steps are pushed back by at most this much in all
    Travel,     \* a message takes at least this long to the micro-controller
    MaxTime, MaxMoves, MaxTurns, MaxTicks   \* bounds for TLC: the clock, the moves, the
                                            \* turns and the length of a move

ASSUME Sizes ==
    /\ {Num, Slots, Far, Half, Lead, Late, Travel, MaxTime, MaxMoves, MaxTurns, MaxTicks} \subseteq Nat
    /\ 0 < Slots /\ 0 < Lead /\ Late <= Travel
    /\ Num <= Slots /\ Far < Half

Steppers == 1..Num

VARIABLES
    now,
    last_step_clock, msg_queue,     \* of each stepcompress
    flushed,                        \* the last move_clock
    move_clocks,                    \* steppersync's heap
    upcoming,                       \* the messages of its command queue
    at,                             \* the stepper whose steps are being made, or 0
    made, turned,                   \* count moves and turns, for their bounds
    active,         \* the nominal clock of the loaded move's last step, or Idle
    mq,             \* the queued moves of each stepper
    free,           \* the length of move_free_list
    shutdown_reason

host == <<last_step_clock, msg_queue, flushed, move_clocks, at, made, turned>>
mcu == <<active, mq, free, shutdown_reason>>
vars == <<now, host, upcoming, mcu>>

Idle == 0
Running == shutdown_reason = "none"

\* Nobody sees what the host does between making steps and sending the messages.
Visible == at = 0

-----------------------------------------------------------------------------
(* The host. *)

\* set_next_step_dir: a message that needs no move.
DirMessage(s) == [oid |-> s, first |-> 0, last |-> 0, min_clock |-> 0, req_clock |-> last_step_clock[s]]

\* add_move: a move is free again when the stepper's last step before it is done.  A
\* single step far ahead is sent late.
MoveMessage(s, first, last) ==
    [oid |-> s, first |-> first, last |-> last, min_clock |-> last_step_clock[s],
     req_clock |-> IF first = last /\ first >= last_step_clock[s] + Far THEN first ELSE last_step_clock[s]]

\* queue_append and queue_flush, for one stepper after the other: steps that come after
\* those already flushed become a move; only a single one may be far from the step before.
add_move(s) ==
    /\ Running /\ made < MaxMoves
    /\ at <= s /\ at' = s
    /\ \E first, last \in (now + Lead)..MaxTime, turn \in {0, 1} :
          /\ turned + turn <= MaxTurns /\ turned' = turned + turn
          /\ first <= last /\ last <= first + MaxTicks /\ first > last_step_clock[s] /\ first > flushed
          /\ first >= last_step_clock[s] + Far => first = last
          /\ msg_queue' = [msg_queue EXCEPT ![s] = @ \o (IF turn = 1 THEN <<DirMessage(s)>> ELSE << >>)
                                                     \o <<MoveMessage(s, first, last)>>]
          /\ last_step_clock' = [last_step_clock EXCEPT ![s] = last]
    /\ made' = made + 1
    /\ UNCHANGED <<now, flushed, move_clocks, upcoming, mcu>>

MAX_CLOCK == MaxTime + 1

\* heap_replace: the hole at pos (counted from 1) sinks until req_clock fits in.
RECURSIVE heap_replace(_, _, _)
heap_replace(mc, pos, req_clock) ==
    LET clock(p) == IF p <= Len(mc) THEN mc[p] ELSE MAX_CLOCK
        child1 == 2 * pos
        child2 == 2 * pos + 1
        up == IF clock(child1) < clock(child2) THEN child1 ELSE child2
    IN  IF req_clock <= clock(child1) /\ req_clock <= clock(child2)
        THEN [mc EXCEPT ![pos] = req_clock]
        ELSE heap_replace([mc EXCEPT ![pos] = clock(up)], up, req_clock)

Requests_any(queues) == {s \in Steppers : queues[s] # << >>}

\* The steppers whose first message has the lowest req_clock; the first one is taken.
Requests(queues) ==
    {s \in Steppers : /\ queues[s] # << >>
                      /\ \A t \in Steppers : queues[t] # << >> =>
                             Head(queues[s]).req_clock <= Head(queues[t]).req_clock}

Claimed_early(mc, qm) == IF qm.min_clock # 0 THEN heap_replace(mc, 1, qm.min_clock - 1) ELSE mc

\* The heap after qm took the slot that is free first; a message without a min_clock
\* takes none.
Claimed(mc, qm) == IF qm.min_clock # 0 THEN heap_replace(mc, 1, qm.min_clock) ELSE mc

\* serialqueue_send_batch: a message is not sent more than half the clock's range early.
Batched(qm, next_avail) ==
    [qm EXCEPT !.min_clock = IF next_avail + Half < qm.req_clock THEN qm.req_clock - Half ELSE next_avail]

\* The loop of steppersync_flush.
RECURSIVE Flushed(_, _)
Flushed(st, move_clock) ==
    IF Requests(st.queues) = {} THEN st
    ELSE LET s == CHOOSE x \in Requests(st.queues) : \A y \in Requests(st.queues) : x <= y
             qm == Head(st.queues[s])
         IN  IF qm.min_clock # 0 /\ qm.req_clock > move_clock THEN st
             ELSE Flushed([queues |-> [st.queues EXCEPT ![s] = Tail(@)],
                           mc |-> Claimed(st.mc, qm),
                           msgs |-> Append(st.msgs, Batched(qm, st.mc[1]))], move_clock)

steppersync_flush ==
    /\ Running /\ \E s \in Steppers : msg_queue[s] # << >>
    /\ \E move_clock \in (flushed + 1)..MaxTime :
          LET st == Flushed([queues |-> msg_queue, mc |-> move_clocks, msgs |-> << >>], move_clock)
          IN  /\ msg_queue' = st.queues /\ move_clocks' = st.mc /\ upcoming' = upcoming \o st.msgs
              /\ flushed' = move_clock /\ at' = 0
    /\ UNCHANGED <<now, last_step_clock, made, turned, mcu>>

-----------------------------------------------------------------------------
(* The micro-controller. *)

\* The last step of a move is due at its clock, and no later than this done.
Due(s) == active[s] # Idle /\ active[s] <= now
Overdue(s) == active[s] # Idle /\ active[s] + Late <= now

\* stepper_load_next, after the last step of a move.
stepper_load_next(s) ==
    /\ Running /\ Visible /\ Due(s)
    /\ IF mq[s] = << >>
       THEN active' = [active EXCEPT ![s] = Idle] /\ UNCHANGED <<mq, free>>
       ELSE /\ active' = [active EXCEPT ![s] = Head(mq[s])]
            /\ mq' = [mq EXCEPT ![s] = Tail(@)]
            /\ free' = free + 1
    /\ UNCHANGED <<now, host, upcoming, shutdown_reason>>

\* command_queue_step: the move of a stepper that does not step is loaded at once.
queue_step(m) ==
    IF free = 0
    THEN shutdown_reason' = "Move_queue_overflow" /\ UNCHANGED <<active, mq, free>>
    ELSE IF active[m.oid] # Idle
    THEN mq' = [mq EXCEPT ![m.oid] = Append(@, m.last)] /\ free' = free - 1
         /\ UNCHANGED <<active, shutdown_reason>>
    ELSE IF m.first < now
    THEN shutdown_reason' = "Timer_too_close" /\ UNCHANGED <<active, mq, free>>
    ELSE active' = [active EXCEPT ![m.oid] = m.last] /\ UNCHANGED <<mq, free, shutdown_reason>>

\* check_send_command holds a message back until its min_clock, and with it all
\* messages behind it; it arrives at any time after Travel.
Deliver ==
    /\ Running /\ Visible /\ \A s \in Steppers : ~Overdue(s)
    /\ upcoming # << >> /\ Head(upcoming).min_clock + Travel <= now
    /\ upcoming' = Tail(upcoming)
    /\ IF Head(upcoming).first # 0 THEN queue_step(Head(upcoming)) ELSE UNCHANGED mcu
    /\ UNCHANGED <<now, host>>

Tick ==
    /\ Running /\ Visible /\ now < MaxTime /\ \A s \in Steppers : ~Overdue(s)
    /\ now' = now + 1
    /\ UNCHANGED <<host, upcoming, mcu>>

\* After stepcompress_reset at clock 1.
Init ==
    /\ now = 1 /\ flushed = 1
    /\ last_step_clock = [s \in Steppers |-> 1] /\ msg_queue = [s \in Steppers |-> << >>]
    /\ move_clocks = [i \in 1..Slots |-> 0] /\ upcoming = << >> /\ at = 0 /\ made = 0 /\ turned = 0
    /\ active = [s \in Steppers |-> Idle] /\ mq = [s \in Steppers |-> << >>]
    /\ free = Slots /\ shutdown_reason = "none"

Next ==
    \/ \E s \in Steppers : add_move(s) \/ stepper_load_next(s)
    \/ steppersync_flush \/ Deliver \/ Tick

Spec == Init /\ [][Next]_vars

-----------------------------------------------------------------------------
\* The pool never overflows, however late messages arrive: the micro-controller does
\* not report free slots, the heap alone tells when one is free.
SlotsSuffice == shutdown_reason # "Move_queue_overflow"

\* No stepper is starved of slots by another: neither a move's own min_clock nor that
\* of a message in front of it holds it back until its first step is due.
NoStarvation ==
    \A j \in DOMAIN upcoming : upcoming[j].first # 0 =>
        \A i \in 1..j : upcoming[i].min_clock < upcoming[j].first
=============================================================================
