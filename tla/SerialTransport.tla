-------------------------- MODULE SerialTransport --------------------------
(***************************************************************************)
(* The link between the host (klippy/chelper/serialqueue.c, its background *)
(* thread) and a micro-controller (src/command.c, console_task): blocks    *)
(* with a sequence number of a few bits, cumulative acks, naks as repeated *)
(* acks, go-back-n retransmission on a nak or a timeout, over two serial   *)
(* lines that keep the order and may lose or garble what they carry.       *)
(*                                                                         *)
(* A block stands for the commands packed into it.  Blocks are numbered in *)
(* the order the host builds them; the number is their content.            *)
(***************************************************************************)
EXTENDS Integers, Sequences, FiniteSetsExt

CONSTANTS
    SeqRange,       \* MESSAGE_SEQ_MASK + 1
    MaxPending,     \* MAX_PENDING_BLOCKS
    ReceiveWindow,  \* receive_window, in blocks
    McuStart,       \* sequence numbers the micro-controller may start from
    MaxBlocks,      \* bound: blocks the host sends
    MaxLosses,      \* bound: messages lost or garbled
    MaxPremature,   \* bound: timeouts while an answer is still under way
    MaxEvents       \* bound: unsolicited messages of the micro-controller

ASSUME TransportAssumption ==
    /\ SeqRange \in Nat /\ MaxPending \in Nat \ {0} /\ MaxPending < SeqRange
    /\ ReceiveWindow \in Nat \ {0, 1}
    /\ McuStart \subseteq 0 .. SeqRange - 1
    /\ MaxBlocks \in Nat /\ MaxLosses \in Nat
    /\ MaxPremature \in Nat /\ MaxEvents \in Nat

VARIABLES
    \* struct serialqueue
    built,          \* blocks built so far
    sendSeq, receiveSeq, lastAckSeq, ignoreNakSeq, retransmitSeq,
    lastAckBytes,   \* last_ack_bytes, in blocks
    sentQueue,      \* sent_queue: blocks not acknowledged
    notifyQueue,    \* notify_queue: [cmd, seq] of blocks to be confirmed
    timer,          \* SQPT_RETRANSMIT: "never", "armed" or "now" (PR_NOW)
    \* the lines
    toMcu, toHost,
    \* command.c
    nextSequence, needValid,
    busy,           \* the block being dispatched, or 0
    executed,       \* blocks dispatched, in order
    \* what the sender saw
    notified,       \* blocks whose completion was signalled
    answered,       \* blocks whose response was put in the receive queue
    handshake,      \* history: blocks built before the first acknowledgement
    losses, premature, events

host == <<built, sendSeq, receiveSeq, lastAckSeq, ignoreNakSeq, retransmitSeq,
          lastAckBytes, sentQueue, notifyQueue, timer, handshake>>
mcu == <<nextSequence, needValid, busy, executed>>
seen == <<notified, answered>>
budget == <<losses, premature, events>>
vars == <<host, toMcu, toHost, mcu, seen, budget>>

\* On the line to the micro-controller: a block, or bytes that fail the
\* checks of command_find_block.
Block(seq, cmd) == [seq |-> seq % SeqRange, cmd |-> cmd]
Garbage == [seq |-> 0, cmd |-> 0]

\* On the line to the host: an ack (cmd = 0), the response of a command, or
\* an unsolicited message.
Event == MaxBlocks + 1
Reply(seq, cmd) == [seq |-> seq, cmd |-> cmd]

Init ==
    /\ built = 0
    /\ sendSeq = 1 /\ receiveSeq = 1
    /\ lastAckSeq = 0 /\ ignoreNakSeq = 0 /\ retransmitSeq = 0
    /\ lastAckBytes = 0
    /\ sentQueue = <<>> /\ notifyQueue = <<>> /\ timer = "never"
    /\ toMcu = <<>> /\ toHost = <<>>
    /\ nextSequence \in McuStart /\ needValid = FALSE
    /\ busy = 0 /\ executed = <<>>
    /\ notified = {} /\ answered = {}
    /\ handshake = 0
    /\ losses = 0 /\ premature = 0 /\ events = 0

----------------------------------------------------------------------------
(* The host *)

\* _start_session: the identify query is repeated, one block at a time, until
\* its response came; only then is receive_window known.
Identified == answered # {}

\* check_send_command: the limit on sequence numbers ...
SeqWindow == sendSeq - receiveSeq < MaxPending

\* Mutant: an acknowledged block is taken to have left the buffer.
ByteWindow_popped ==
    sendSeq > receiveSeq => Len(sentQueue) + 1 <= ReceiveWindow

\* ... and room in the receive buffer, where the last acknowledged block
\* still is until a pure ack says it was popped.
ByteWindow ==
    sendSeq > receiveSeq =>
       Len(sentQueue) + 1 + (IF lastAckSeq < receiveSeq THEN lastAckBytes ELSE 0)
          <= ReceiveWindow

build_and_send_command ==
    /\ built < MaxBlocks
    /\ SeqWindow
    /\ IF Identified THEN ByteWindow ELSE notifyQueue = <<>>
    /\ LET b == Block(sendSeq, built + 1) IN
       /\ sentQueue' = Append(sentQueue, b)
       /\ toMcu' = Append(toMcu, b)
    /\ notifyQueue' = Append(notifyQueue, [cmd |-> built + 1, seq |-> sendSeq])
    /\ timer' = IF sentQueue = <<>> THEN "armed" ELSE timer
    /\ built' = built + 1
    /\ sendSeq' = sendSeq + 1
    /\ handshake' = IF receiveSeq = 1 THEN built + 1 ELSE handshake
    /\ UNCHANGED <<receiveSeq, lastAckSeq, ignoreNakSeq, retransmitSeq,
                   lastAckBytes, toHost, mcu, seen, budget>>

\* tcflush drops bytes not yet sent, which may cut a block in two.
Flushed(line) ==
    {SubSeq(line, 1, n) : n \in 0 .. Len(line)}
      \cup {Append(SubSeq(line, 1, n), Garbage) : n \in 0 .. Len(line) - 1}

\* The timer runs out.  The rto doubles with every timeout, so that only so
\* many can come while messages are under way.
Quiet == toMcu = <<>> /\ toHost = <<>> /\ busy = 0

TimerFires ==
    \/ timer = "now" /\ UNCHANGED premature
    \/ timer = "armed" /\ Quiet /\ UNCHANGED premature
    \/ /\ timer = "armed" /\ ~ Quiet
       /\ premature < MaxPremature /\ premature' = premature + 1

IgnoreNakSeq ==
    IF timer = "now"
    THEN IF receiveSeq < retransmitSeq THEN retransmitSeq ELSE receiveSeq
    ELSE sendSeq

retransmit_event ==
    /\ TimerFires
    /\ \E line \in Flushed(toMcu) : toMcu' = line \o sentQueue
    /\ ignoreNakSeq' = IgnoreNakSeq
    /\ retransmitSeq' = sendSeq
    /\ timer' = "armed"
    /\ UNCHANGED <<built, sendSeq, receiveSeq, lastAckSeq, lastAckBytes,
                   sentQueue, notifyQueue, handshake, toHost, mcu, seen, losses, events>>

----------------------------------------------------------------------------
(* The host receives *)

\* The full sequence number that the few bits of a message stand for.
FullSeq(m) ==
    LET r == receiveSeq - (receiveSeq % SeqRange) + m.seq
    IN  IF r < receiveSeq THEN r + SeqRange ELSE r

\* "An ack for a message not sent?  Out of order message?"
Unsent(rseq) == rseq > sendSeq /\ receiveSeq # 1

\* Drop what is acknowledged.  An ack beyond everything sent "must be
\* connection init": the numbering of the micro-controller is adopted.
update_receive_seq(rseq) ==
    LET n == rseq - receiveSeq IN
    /\ receiveSeq' = rseq
    /\ IF n <= Len(sentQueue)
       THEN /\ sentQueue' = SubSeq(sentQueue, n + 1, Len(sentQueue))
            /\ lastAckBytes' = IF n = 0 THEN lastAckBytes ELSE 1
            /\ UNCHANGED sendSeq
       ELSE sentQueue' = <<>> /\ sendSeq' = rseq /\ UNCHANGED lastAckBytes

\* wake_seq, in 64-bit arithmetic: below zero is above every number.
WakeSeq(rseq, m) ==
    LET w == rseq - 1 - (IF m.cmd = 0 THEN 0 ELSE 1)
    IN  IF w < 0 THEN sendSeq + SeqRange ELSE w

\* The entries at the head of notify_queue up to wake_seq are completed.
Notify(rseq, m) ==
    LET later == {i \in 1 .. Len(notifyQueue) : notifyQueue[i].seq > WakeSeq(rseq, m)}
        n == IF later = {} THEN Len(notifyQueue) ELSE Min(later) - 1
    IN  /\ notifyQueue' = SubSeq(notifyQueue, n + 1, Len(notifyQueue))
        /\ notified' = notified \cup {notifyQueue[i].cmd : i \in 1 .. n}

\* A repeated ack is a nak.
IsNak(rseq, m) ==
    /\ m.cmd = 0
    /\ lastAckSeq >= rseq
    /\ rseq > ignoreNakSeq
    /\ sentQueue' # <<>>

\* Mutant: an acknowledgement stops the timer though blocks are outstanding.
NextTimer_stops(rseq, m) ==
    IF IsNak(rseq, m) THEN "now" ELSE IF rseq = receiveSeq THEN timer ELSE "never"

\* A nak is acted on at once; otherwise progress restarts or stops the timer.
NextTimer(rseq, m) ==
    IF IsNak(rseq, m) THEN "now"
    ELSE IF rseq = receiveSeq THEN timer
    ELSE IF sentQueue' = <<>> THEN "never" ELSE "armed"

handle_message ==
    /\ toHost # <<>>
    /\ toHost' = Tail(toHost)
    /\ LET m == Head(toHost)
           rseq == FullSeq(m)
       IN
       IF Unsent(rseq)
       THEN UNCHANGED <<sendSeq, receiveSeq, lastAckSeq, lastAckBytes, sentQueue,
                        notifyQueue, timer, seen>>
       ELSE /\ update_receive_seq(rseq)
            /\ Notify(rseq, m)
            /\ lastAckSeq' = IF m.cmd = 0 /\ lastAckSeq < rseq THEN rseq
                             ELSE lastAckSeq
            /\ timer' = NextTimer(rseq, m)
            /\ answered' = IF m.cmd \in 1 .. MaxBlocks
                           THEN answered \cup {m.cmd} ELSE answered
    /\ UNCHANGED <<built, ignoreNakSeq, retransmitSeq, handshake, toMcu, mcu,
                   budget>>

----------------------------------------------------------------------------
(* The micro-controller *)

\* Mutant: the sequence number of a valid block is not compared.
InSequence_any(b) == b.cmd # 0

InSequence(b) == b.cmd # 0 /\ b.seq = nextSequence

\* Mutant: next_sequence is advanced before the checksum is verified.
AfterGarbage_advanced == (nextSequence + 1) % SeqRange

\* Mutant: the same, and not masked.
AfterGarbage_unmasked == nextSequence + 1

\* next_sequence after bytes that are not a valid block.
AfterGarbage == nextSequence

\* command_find_block: garbage is answered by one nak until a valid block
\* arrives, a valid block out of sequence by a nak, the next one is taken.
command_find_block ==
    /\ busy = 0
    /\ toMcu # <<>>
    /\ toMcu' = Tail(toMcu)
    /\ LET b == Head(toMcu) IN
       \/ /\ b.cmd = 0
          /\ needValid' = TRUE
          /\ toHost' = IF needValid THEN toHost
                       ELSE Append(toHost, Reply(AfterGarbage, 0))
          /\ nextSequence' = AfterGarbage
          /\ UNCHANGED busy
       \/ /\ b.cmd # 0
          /\ ~ InSequence(b)
          /\ needValid' = FALSE
          /\ toHost' = Append(toHost, Reply(nextSequence, 0))
          /\ UNCHANGED <<nextSequence, busy>>
       \/ /\ InSequence(b)
          /\ needValid' = FALSE
          /\ nextSequence' = (b.seq + 1) % SeqRange
          /\ busy' = b.cmd
          /\ UNCHANGED toHost
    /\ UNCHANGED <<host, executed, seen, budget>>

\* Mutant: the block is acknowledged before its commands run.
Answers_ackFirst(responds) ==
    <<Reply(nextSequence, 0)>>
      \o (IF responds THEN <<Reply(nextSequence, busy)>> ELSE <<>>)

\* The response of the commands, if any, and the ack.
Answers(responds) ==
    (IF responds THEN <<Reply(nextSequence, busy)>> ELSE <<>>)
      \o <<Reply(nextSequence, 0)>>

\* command_dispatch runs the commands, the last one may respond; then the
\* block is popped and acknowledged.
command_dispatch ==
    /\ busy # 0
    /\ executed' = Append(executed, busy)
    /\ \E responds \in BOOLEAN : toHost' = toHost \o Answers(responds)
    /\ busy' = 0
    /\ UNCHANGED <<host, toMcu, nextSequence, needValid, seen, budget>>

\* Tasks and interrupt handlers send messages of their own at any time.
command_sendf ==
    /\ events < MaxEvents
    /\ events' = events + 1
    /\ toHost' = Append(toHost, Reply(nextSequence, Event))
    /\ UNCHANGED <<host, toMcu, mcu, seen, losses, premature>>

----------------------------------------------------------------------------
(* The lines: a message is lost (also for want of buffer space on either    *)
(* side) or garbled; the host discards garbled bytes silently.              *)

Without(line, i) == SubSeq(line, 1, i - 1) \o SubSeq(line, i + 1, Len(line))

Lose ==
    /\ losses < MaxLosses
    /\ losses' = losses + 1
    /\ \/ \E i \in 1 .. Len(toMcu) :
             /\ \/ toMcu' = Without(toMcu, i)
                \/ toMcu' = [toMcu EXCEPT ![i] = Garbage]
             /\ UNCHANGED toHost
       \/ \E i \in 1 .. Len(toHost) :
             /\ toHost' = Without(toHost, i)
             /\ UNCHANGED toMcu
    /\ UNCHANGED <<host, mcu, seen, premature, events>>

----------------------------------------------------------------------------
Next ==
    \/ build_and_send_command \/ retransmit_event \/ handle_message
    \/ command_find_block \/ command_dispatch \/ command_sendf
    \/ Lose

Spec == Init /\ [][Next]_vars

\* Both sides keep running: the background thread polls its timers and its
\* input, console_task is woken for every message.
Fairness ==
    /\ WF_vars(retransmit_event) /\ WF_vars(handle_message)
    /\ WF_vars(command_find_block) /\ WF_vars(command_dispatch)
FairSpec == Spec /\ Fairness
----------------------------------------------------------------------------
(* Properties *)

Seqs == Nat

\* The values of the two ends and of the lines.
TypeOK ==
    /\ built \in 0 .. MaxBlocks /\ handshake \in 0 .. built
    /\ {sendSeq, receiveSeq, lastAckSeq, ignoreNakSeq, retransmitSeq} \subseteq Seqs
    /\ timer \in {"never", "armed", "now"}
    /\ nextSequence \in 0 .. SeqRange - 1 /\ needValid \in BOOLEAN
    /\ busy \in 0 .. built
    /\ notified \subseteq 1 .. built /\ answered \subseteq 1 .. built

\* The commands reach the micro-controller's handlers at most once, in the
\* order the host sent them and without a gap, whatever is lost and however
\* often blocks are sent again; and a sender is told of completion only then.
Link == INSTANCE ReliableLink WITH
            queued <- built,
            delivered <- executed,
            confirmed <- {c \in notified : c > handshake}
LinkRefined == Link!LinkSpec

\* An acknowledged block was executed (or is being): apart from blocks sent
\* before the first answer, nothing is dropped.
AckedIsExecuted ==
    \A c \in handshake + 1 .. built - Len(sentQueue) :
        c \in Range(executed) \cup {busy}

\* raw_send_wait_ack returns after the response, if there was one: no response
\* of a block is queued for the reader behind the completion of the block.
ResponseBeforeCompletion ==
    [][\A c \in answered' \ answered : c > handshake => c \notin notified']_vars

\* Without a retransmission the receive buffer of the micro-controller never
\* has to hold more than its size.  (Its size is not known before the first
\* answer; an unsolicited message may end the wait for that too early, and
\* each time the query is sent once more.)
BufferSuffices ==
    retransmitSeq = 0 /\ handshake <= 1 =>
        Len(toMcu) + (IF busy = 0 THEN 0 ELSE 1) <= ReceiveWindow

\* Every block is acknowledged in the end, if losses stop.
AllAcknowledged == sentQueue # <<>> ~> sentQueue = <<>>
=============================================================================
