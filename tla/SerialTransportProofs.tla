----------------------- MODULE SerialTransportProofs -----------------------
(***************************************************************************)
(* The serial link implements the reliable link, for every sequence range, *)
(* window, receive buffer and start of the micro-controller, and any       *)
(* number of blocks, losses, early timeouts and unsolicited messages.      *)
(* SerialTransportSteps holds the invariant and the steps that send.       *)
(***************************************************************************)
EXTENDS SerialTransportSteps, WellFoundedInduction

\* The least element of a set of numbers.
LEMMA Least ==
    ASSUME NEW T, T \subseteq Nat, T # {}
    PROVE  Min(T) \in T /\ \A y \in T : Min(T) <= y
  <1> DEFINE R == OpToRel(<, Nat)
  <1>1. IsWellFoundedOn(R, Nat) BY Zenon, NatLessThanWellFounded
  <1> HIDE DEF R
  <1>2. PICK x \in T : \A y \in T : ~ (<<y, x>> \in R) BY Zenon, <1>1, WFMin
  <1>3. ASSUME NEW y \in T PROVE x <= y
    <2>1. y < x => <<y, x>> \in R BY Zenon DEF R, OpToRel
    <2> QED BY <1>2, <2>1
  <1>4. x \in T /\ \A y \in T : x =< y BY Zenon, <1>3
  <1> QED BY Zenon, <1>4 DEF Min

\* The entries up to the first beyond w.
LEMMA Waking ==
    ASSUME NEW q \in Seq(Entries), NEW w \in Int, NEW T, NEW n,
           T = {i \in 1 .. Len(q) : q[i].seq > w},
           n = IF T = {} THEN Len(q) ELSE Min(T) - 1
    PROVE  /\ n \in 0 .. Len(q)
           /\ \A i \in 1 .. n : i \in 1 .. Len(q) /\ ~ (q[i].seq > w)
  <1>0. Len(q) \in Nat OBVIOUS
  <1>2. CASE T = {}
    <2>1. n = Len(q) BY Zenon, <1>2
    <2>2. \A i \in 1 .. Len(q) : ~ (q[i].seq > w) BY Zenon, <1>2
    <2>3. n \in 0 .. Len(q) BY <1>0, <2>1
    <2> QED BY Zenon, <2>1, <2>2, <2>3
  <1>3. CASE T # {}
    <2>1. T \subseteq Nat OBVIOUS
    <2>2. PICK first : first = Min(T) /\ first \in T /\ \A y \in T : first <= y
      <3>1. Min(T) \in T /\ \A y \in T : Min(T) <= y BY Zenon, <1>3, <2>1, Least
      <3> QED BY Zenon, <3>1
    <2>3. first \in 1 .. Len(q) /\ q[first].seq > w BY Zenon, <2>2
    <2>4. n = first - 1 /\ n \in 0 .. Len(q)
      <3>1. n = first - 1 BY Zenon, <1>3, <2>2
      <3> QED BY <1>0, <2>3, <3>1
    <2>5. ASSUME NEW i \in 1 .. n PROVE i \in 1 .. Len(q) /\ ~ (q[i].seq > w)
      <3>1. i \in 1 .. Len(q) /\ ~ (first <= i) BY <1>0, <2>3, <2>4
      <3>2. i \notin T BY Zenon, <3>1, <2>2
      <3> QED BY Zenon, <3>1, <3>2
    <2> QED BY Zenon, <2>4, <2>5
  <1> QED BY Zenon, <1>2, <1>3

-----------------------------------------------------------------------------
(* The steps. *)

\* The completions that the reply signals.
LEMMA Completed ==
    ASSUME Inv, handle_message
    PROVE  \E n \in 0 .. Len(notifyQueue) :
             /\ notifyQueue' = SubSeq(notifyQueue, n + 1, Len(notifyQueue))
             /\ notified' = notified \cup {notifyQueue[i].cmd : i \in 1 .. n}
             /\ \A i \in 1 .. n :
                   /\ notifyQueue[i].cmd = built - Len(notifyQueue) + i
                   /\ notifyQueue[i].cmd \in 1 .. built
                   /\ notifyQueue[i].cmd > handshake
                        => notifyQueue[i].cmd + Shift + 1 + Weight(First.cmd) <= Rseq
  <1>1. Typed /\ Pending(notifyQueue, built, handshake, Shift)
        /\ Window(sentQueue, receiveSeq, built, handshake, Expected, Shift)
    BY Zenon DEF Inv
  <1>2. /\ First.cmd \in Nat /\ Rseq \in Nat /\ receiveSeq <= Rseq /\ Notify(Rseq, First)
    BY Zenon, Received
  <1>3. /\ built \in Nat /\ handshake \in Nat /\ handshake <= built /\ Shift \in Nat
        /\ sendSeq \in Nat /\ receiveSeq \in Nat /\ receiveSeq # 0
        /\ notifyQueue \in Seq(Entries)
    BY Zenon, <1>1, Types, Queues
  <1>4. PICK d \in 0 .. 1 : d = Weight(First.cmd) BY SMTT(60), <1>2 DEF Weight
  <1>5. PICK w \in Nat, r \in Nat : w = Rseq /\ r = receiveSeq BY Zenon, <1>2, <1>3
  <1>6. PICK k \in Int : k = WakeSeq(Rseq, First) /\ (w - 1 - d >= 0 => k = w - 1 - d)
    <2>1. WakeSeq(Rseq, First) = IF w - 1 - d < 0 THEN sendSeq + SeqRange ELSE w - 1 - d
      BY Zenon, <1>4, <1>5 DEF WakeSeq, Weight
    <2>2. (IF w - 1 - d < 0 THEN sendSeq + SeqRange ELSE w - 1 - d) \in Int
          /\ (w - 1 - d >= 0 => ~ (w - 1 - d < 0))
      BY SMTT(60), <1>3, Constants
    <2> QED BY Zenon, <2>1, <2>2
  <1> DEFINE T == {i \in 1 .. Len(notifyQueue) : notifyQueue[i].seq > k}
             n == IF T = {} THEN Len(notifyQueue) ELSE Min(T) - 1
  <1>7. /\ notifyQueue' = SubSeq(notifyQueue, n + 1, Len(notifyQueue))
        /\ notified' = notified \cup {notifyQueue[i].cmd : i \in 1 .. n}
    BY Zenon, <1>2, <1>6 DEF Notify
  <1>8. /\ n \in 0 .. Len(notifyQueue)
        /\ \A i \in 1 .. n : i \in 1 .. Len(notifyQueue) /\ ~ (notifyQueue[i].seq > k)
    BY Zenon, <1>3, Waking
  <1> HIDE DEF n, T
  <1>9. ASSUME NEW i \in 1 .. n
        PROVE  /\ notifyQueue[i].cmd = built - Len(notifyQueue) + i
               /\ notifyQueue[i].cmd \in 1 .. built
               /\ notifyQueue[i].cmd > handshake
                    => notifyQueue[i].cmd + Shift + 1 + Weight(First.cmd) <= Rseq
    <2>1. i \in 1 .. Len(notifyQueue) /\ ~ (notifyQueue[i].seq > k) BY Zenon, <1>8
    <2>2. /\ notifyQueue[i].cmd = built - Len(notifyQueue) + i
          /\ notifyQueue[i].cmd \in 1 .. built
          /\ notifyQueue[i].seq = Number(notifyQueue[i].cmd, handshake, Shift)
      BY SMTT(60), <2>1, <1>1, <1>3, PendingIs
    <2>3. PICK c \in 1 .. built : c = notifyQueue[i].cmd BY Zenon, <2>2
    <2>4. ~ (Number(c, handshake, Shift) > k) BY Zenon, <2>1, <2>2, <2>3
    <2>5. receiveSeq = 1 => handshake = built BY Zenon, <1>1 DEF Window
    <2>6. c > handshake => c + Shift + 1 + d <= w
      <3>1. SUFFICES ASSUME c > handshake PROVE c + Shift + 1 + d <= w OBVIOUS
      <3>2. Number(c, handshake, Shift) = c + Shift BY SMTT(60), <3>1, <1>3 DEF Number
      <3>3. r # 1 BY SMTT(60), <3>1, <2>5, <1>3, <1>5
      <3>4. r <= w /\ r # 0 BY Zenon, <1>2, <1>3, <1>5
      <3>5. k = w - 1 - d BY SMTT(60), <3>3, <3>4, <1>6
      <3> QED BY SMTT(60), <3>2, <3>5, <2>4, <1>3
    <2> QED BY Zenon, <2>2, <2>3, <2>6, <1>4, <1>5
  <1> QED BY Zenon, <1>7, <1>8, <1>9

LEMMA Handle ==
    ASSUME Inv, handle_message
    PROVE  Inv'
  <1>1. /\ receiveSeq' = Rseq /\ Expected' = Expected /\ Floor' = Floor
        /\ built' = built /\ handshake' = handshake
        /\ sentQueue' \in Seq(Messages) /\ sendSeq' \in Nat /\ lastAckBytes' \in {0, 1}
        /\ Shift' \in Nat
        /\ Window(sentQueue', Rseq, built, handshake, Expected, Shift')
        /\ \/ Shift' = Shift
           \/ /\ receiveSeq = 1 /\ handshake = built /\ Shift = 0 /\ ~ Started
              /\ Rseq > built + 1
    BY Zenon, WindowMoves
  <1>2. /\ toHost # <<>> /\ toHost' = Tail(toHost) /\ toHost' \in Seq(Messages)
        /\ Thinned(toHost', toHost, {}, 1) /\ First.cmd \in Nat
        /\ Rseq \in Nat /\ receiveSeq <= Rseq /\ Rseq <= Expected
        /\ First.cmd = 0 => Rseq <= Floor
        /\ First.cmd \in 1 .. MaxBlocks => First.cmd <= built
        /\ \A j \in 1 .. Len(toHost') :
              /\ Rseq <= FullFrom(receiveSeq, toHost'[j].seq)
              /\ First.cmd = 0 /\ toHost'[j].cmd \in 1 .. MaxBlocks
                   => Rseq < FullFrom(receiveSeq, toHost'[j].seq)
    BY Zenon, Received
  <1>3. PICK n \in 0 .. Len(notifyQueue) :
          /\ notifyQueue' = SubSeq(notifyQueue, n + 1, Len(notifyQueue))
          /\ notified' = notified \cup {notifyQueue[i].cmd : i \in 1 .. n}
          /\ \A i \in 1 .. n :
                /\ notifyQueue[i].cmd \in 1 .. built
                /\ notifyQueue[i].cmd > handshake
                     => notifyQueue[i].cmd + Shift + 1 + Weight(First.cmd) <= Rseq
    BY Zenon, Completed
  <1>4. Typed /\ Line(toMcu, Expected, built, handshake, Shift)
        /\ Taken(busy, executed, built, handshake, Expected, Shift)
        /\ Replies(toHost, receiveSeq, Expected, Floor, built, Shift)
        /\ (~ Started => Fresh(toHost, receiveSeq, Expected))
        /\ Pending(notifyQueue, built, handshake, Shift)
        /\ Unconfirmed(toHost, notified, handshake, Shift, Floor)
    BY Zenon DEF Inv
  <1>5. /\ built \in Nat /\ built <= MaxBlocks /\ handshake \in Nat /\ handshake <= built
        /\ Shift \in Nat /\ sendSeq \in Nat /\ receiveSeq \in Nat /\ receiveSeq # 0
        /\ lastAckSeq \in Nat /\ ignoreNakSeq \in Nat /\ retransmitSeq \in Nat
        /\ notified \subseteq 1 .. built /\ answered \subseteq 1 .. built
        /\ Expected \in Nat /\ Floor \in Int
        /\ timer \in {"never", "armed", "now"}
    BY Zenon, <1>4, Types, ExpectedIs
  <1>6. /\ toMcu \in Seq(Messages) /\ toHost \in Seq(Messages) /\ notifyQueue \in Seq(Entries)
        /\ executed \in Seq(Nat)
    BY Zenon, <1>4, Queues
  <1>7. /\ ignoreNakSeq' = ignoreNakSeq /\ retransmitSeq' = retransmitSeq /\ toMcu' = toMcu
        /\ nextSequence' = nextSequence /\ needValid' = needValid /\ busy' = busy
        /\ executed' = executed
    BY Zenon DEF handle_message, mcu
  <1>8. notified' \subseteq 1 .. built BY Zenon, <1>3, <1>5
  <1>9. /\ notifyQueue' \in Seq(Entries) /\ Pending(notifyQueue', built, handshake, Shift)
    BY Zenon, <1>3, <1>4, <1>5, <1>6, PendingCut
  <1>10. Typed'
    <2>1. lastAckSeq' \in Nat
      <3>1. lastAckSeq' = Rseq \/ lastAckSeq' = lastAckSeq BY Zenon, Received
      <3> QED BY Zenon, <3>1, <1>2, <1>5
    <2>2. timer' \in {"never", "armed", "now"}
      <3>1. timer' = NextTimer(Rseq, First) BY Zenon, Received
      <3> QED BY Zenon, <3>1, <1>5 DEF NextTimer
    <2>3. answered' \subseteq 1 .. built
      <3>1. First.cmd \in 1 .. MaxBlocks => First.cmd \in 1 .. built
        BY SMTT(60), <1>2, <1>5, Constants
      <3>2. answered' = answered
            \/ (First.cmd \in 1 .. MaxBlocks /\ answered' = answered \cup {First.cmd})
        BY Zenon, Received
      <3> QED BY Zenon, <3>1, <3>2, <1>5
    <2>4. built' \in 0 .. MaxBlocks /\ handshake' \in 0 .. built' /\ busy' \in 0 .. built'
      BY Zenon, <1>1, <1>4, <1>7 DEF Typed, TypeOK
    <2>5. nextSequence' \in 0 .. SeqRange - 1 /\ needValid' \in BOOLEAN
      BY Zenon, <1>4, <1>7 DEF Typed, TypeOK
    <2>6. {sendSeq', receiveSeq', lastAckSeq', ignoreNakSeq', retransmitSeq'} \subseteq Nat
      BY Zenon, <2>1, <1>1, <1>2, <1>5, <1>7
    <2>7. TypeOK' BY Zenon, <2>2, <2>3, <2>4, <2>5, <2>6, <1>1, <1>8 DEF TypeOK, Seqs
    <2>8. receiveSeq' # 0 BY SMTT(60), <1>1, <1>2, <1>5
    <2> QED BY Zenon, <2>7, <2>8, <1>1, <1>2, <1>6, <1>7, <1>9 DEF Typed
  <1>11. 1 \in Nat OBVIOUS
  <1>12. Replies(toHost', Rseq, Expected, Floor, built, Shift)
         /\ (~ Started => Fresh(toHost', Rseq, Expected))
    <2>1. Replies(toHost', receiveSeq, Expected, Floor, built, Shift)
      BY Zenon, <1>2, <1>4, <1>6, <1>11, RepliesThins
    <2>2. ~ Started => Fresh(toHost', receiveSeq, Expected)
      BY Zenon, <1>2, <1>4, <1>6, <1>11, FreshThins
    <2>3. \A j \in 1 .. Len(toHost') : Rseq <= FullFrom(receiveSeq, toHost'[j].seq)
      BY Zenon, <1>2
    <2> QED BY Zenon, <2>1, <2>2, <2>3, <1>2, <1>5, RepliesMove
  <1>13. Started' <=> Started BY Zenon, <1>7 DEF Started
  <1>14. CASE Shift' = Shift
    <2>1. ASSUME NEW c \in notified', c \notin notified, c > handshake
          PROVE  c \in 1 .. built /\ c + Shift + 1 + Weight(First.cmd) <= Rseq
      <3>1. PICK i \in 1 .. n : c = notifyQueue[i].cmd BY Zenon, <2>1, <1>3
      <3> QED BY Zenon, <3>1, <2>1, <1>3
    <2>2. ASSUME NEW c \in notified', c > handshake PROVE c + Shift < Floor
      <3>1. CASE c \in notified BY Zenon, <3>1, <2>2, <1>4 DEF Unconfirmed
      <3>2. CASE c \notin notified
        <4>1. c \in 1 .. built /\ c + Shift + 1 + Weight(First.cmd) <= Rseq
          BY Zenon, <3>2, <2>1, <2>2
        <4>2. Expected <= Floor + 1
          BY SMTT(60), <1>4, <1>5, ExpectedIs
        <4>5. c \in Nat /\ Shift \in Nat /\ Rseq \in Nat /\ Floor \in Int /\ Expected \in Nat
          <5>1. c \in Nat BY SMTT(60), <4>1, <1>5
          <5> QED BY Zenon, <5>1, <1>2, <1>4, <1>5, ExpectedIs
        <4>3. CASE First.cmd = 0
          <5>1. Weight(First.cmd) = 0 /\ Rseq <= Floor BY Zenon, <4>3, <1>2 DEF Weight
          <5>2. c + Shift + 1 + 0 <= Rseq BY Zenon, <5>1, <4>1
          <5> QED BY SMTT(60), <5>1, <5>2, <4>5
        <4>4. CASE First.cmd # 0
          <5>1. Weight(First.cmd) = 1 BY Zenon, <4>4 DEF Weight
          <5>2. c + Shift + 1 + 1 <= Rseq BY Zenon, <5>1, <4>1
          <5>3. Rseq <= Expected BY Zenon, <1>2
          <5> QED BY SMTT(60), <5>2, <5>3, <4>2, <4>5
        <4> QED BY Zenon, <4>3, <4>4
      <3> QED BY Zenon, <3>1, <3>2
    <2>3. Unconfirmed(toHost', notified, handshake, Shift, Floor)
      BY Zenon, <1>2, <1>4, <1>6, <1>11, UnconfirmedThins
    <2>4. ASSUME NEW j \in 1 .. Len(toHost'), toHost'[j].cmd \in handshake + 1 .. MaxBlocks
          PROVE  toHost'[j].cmd \notin notified'
      <3>1. SUFFICES ASSUME toHost'[j].cmd \in notified' PROVE FALSE OBVIOUS
      <3>2. toHost'[j].cmd \notin notified BY Zenon, <2>3, <2>4 DEF Unconfirmed
      <3>3. PICK c \in handshake + 1 .. MaxBlocks : c = toHost'[j].cmd BY Zenon, <2>4
      <3>4. c > handshake /\ c \in 1 .. MaxBlocks BY SMTT(60), <1>5, Constants
      <3>5. c \in 1 .. built /\ c + Shift + 1 + Weight(First.cmd) <= Rseq
        BY Zenon, <3>1, <3>2, <3>3, <3>4, <2>1
      <3>6. FullFrom(Rseq, toHost'[j].seq) = c + Shift + 1
        BY Zenon, <3>3, <3>4, <1>12 DEF Replies
      <3>7. FullFrom(Rseq, toHost'[j].seq) = FullFrom(receiveSeq, toHost'[j].seq)
        <4>1. toHost'[j].seq \in Bits BY Zenon, <1>2, OnLine
        <4>2. Rseq <= FullFrom(receiveSeq, toHost'[j].seq) BY Zenon, <1>2
        <4>3. Rseq \in Nat /\ receiveSeq \in Nat /\ receiveSeq <= Rseq BY Zenon, <1>2, <1>5
        <4> QED BY Zenon, <4>1, <4>2, <4>3, FullFromKept
      <3>8. Rseq <= c + Shift + 1 /\ (First.cmd = 0 => Rseq < c + Shift + 1)
        BY Zenon, <3>3, <3>4, <3>6, <3>7, <1>2
      <3>11. c \in Nat /\ Shift \in Nat /\ Rseq \in Nat
        <4>1. c \in Nat BY SMTT(60), <3>4, Constants
        <4> QED BY Zenon, <4>1, <1>2, <1>5
      <3>9. CASE First.cmd = 0
        <4>1. Weight(First.cmd) = 0 BY Zenon, <3>9 DEF Weight
        <4>2. c + Shift + 1 + 0 <= Rseq /\ Rseq < c + Shift + 1 BY Zenon, <4>1, <3>5, <3>8, <3>9
        <4> QED BY SMTT(60), <4>2, <3>11
      <3>10. CASE First.cmd # 0
        <4>1. Weight(First.cmd) = 1 BY Zenon, <3>10 DEF Weight
        <4>2. c + Shift + 1 + 1 <= Rseq /\ Rseq <= c + Shift + 1 BY Zenon, <4>1, <3>5, <3>8
        <4> QED BY SMTT(60), <4>2, <3>11
      <3> QED BY Zenon, <3>9, <3>10
    <2>5. Unconfirmed(toHost', notified', handshake, Shift, Floor)
      BY Zenon, <2>2, <2>4 DEF Unconfirmed
    <2>6. /\ Window(sentQueue', receiveSeq', built', handshake', Expected', Shift')
          /\ Line(toMcu', Expected', built', handshake', Shift')
          /\ Taken(busy', executed', built', handshake', Expected', Shift')
      BY Zenon, <1>1, <1>4, <1>7, <1>14
    <2>7. /\ Replies(toHost', receiveSeq', Expected', Floor', built', Shift')
          /\ (~ Started' => Fresh(toHost', receiveSeq', Expected'))
          /\ Pending(notifyQueue', built', handshake', Shift')
          /\ Unconfirmed(toHost', notified', handshake', Shift', Floor')
      BY Zenon, <2>5, <1>1, <1>9, <1>12, <1>13, <1>14
    <2> QED BY Zenon, <2>6, <2>7, <1>10 DEF Inv
  <1>15. CASE /\ receiveSeq = 1 /\ handshake = built /\ Shift = 0 /\ ~ Started
              /\ Rseq > built + 1
    <2>1. PICK t \in Nat, b \in Nat, s \in Nat :
            t = Shift' /\ b = built /\ s = Shift /\ b = handshake
      BY Zenon, <1>1, <1>5, <1>15
    <2>2. Line(toMcu, Expected, b, b, t)
      <3>1. Line(toMcu, Expected, b, b, s) BY Zenon, <2>1, <1>4
      <3> QED BY Zenon, <3>1, <1>5, <1>6, LineAdopts
    <2>3. Taken(busy, executed, b, b, Expected, t)
      <3>1. busy = 0 /\ executed = <<>> BY Zenon, <1>15 DEF Started
      <3>2. Range(executed) \subseteq 1 .. b BY Zenon, <2>1, <1>4 DEF Taken
      <3>3. \A c \in b + 1 .. b : FALSE OBVIOUS
      <3> QED BY Zenon, <3>1, <3>2, <3>3 DEF Taken
    <2>4. Pending(notifyQueue', b, b, t)
      <3>1. Pending(notifyQueue', b, b, s) BY Zenon, <2>1, <1>9
      <3> QED BY Zenon, <3>1, <1>9, PendingAdopts
    <2>5. Replies(toHost', Rseq, Expected, Floor, b, t)
      <3>1. Replies(toHost', Rseq, Expected, Floor, b, s) BY Zenon, <2>1, <1>12
      <3>2. ASSUME NEW j \in 1 .. Len(toHost')
            PROVE  b + s + 1 < FullFrom(Rseq, toHost'[j].seq)
        <4>1. toHost'[j].seq \in Bits BY Zenon, <1>2, OnLine
        <4>2. FullFrom(Rseq, toHost'[j].seq) \in Nat /\ Rseq <= FullFrom(Rseq, toHost'[j].seq)
          BY Zenon, <4>1, <1>2, FullFromIs
        <4>3. Rseq > b + s + 1 BY SMTT(60), <2>1, <1>2, <1>15
        <4>4. PICK y \in Nat : y = FullFrom(Rseq, toHost'[j].seq) BY Zenon, <4>2
        <4>5. b + s + 1 < y BY SMTT(60), <4>2, <4>3, <4>4, <1>2
        <4> QED BY Zenon, <4>4, <4>5
      <3> QED BY Zenon, <3>1, <3>2, <1>2, RepliesAdopt
    <2>6. Unconfirmed(toHost', notified', b, t, Floor)
      <3>1. ASSUME NEW c \in notified' PROVE ~ (c > b) BY SMTT(60), <2>1, <1>8
      <3>2. ASSUME NEW j \in 1 .. Len(toHost') PROVE toHost'[j].cmd \notin b + 1 .. MaxBlocks
        <4>1. toHost'[j].cmd \in 1 .. MaxBlocks => toHost'[j].cmd <= b
          BY Zenon, <2>5 DEF Replies
        <4>2. toHost'[j].cmd \in Nat BY Zenon, <1>2, OnLine
        <4> QED BY SMTT(60), <4>1, <4>2, Constants
      <3> QED BY Zenon, <3>1, <3>2 DEF Unconfirmed
    <2>7. /\ Window(sentQueue', receiveSeq', built', handshake', Expected', Shift')
          /\ Line(toMcu', Expected', built', handshake', Shift')
          /\ Taken(busy', executed', built', handshake', Expected', Shift')
      BY Zenon, <2>1, <2>2, <2>3, <1>1, <1>7
    <2>8. /\ Replies(toHost', receiveSeq', Expected', Floor', built', Shift')
          /\ (~ Started' => Fresh(toHost', receiveSeq', Expected'))
          /\ Pending(notifyQueue', built', handshake', Shift')
          /\ Unconfirmed(toHost', notified', handshake', Shift', Floor')
      BY Zenon, <2>1, <2>4, <2>5, <2>6, <1>1, <1>12, <1>13
    <2> QED BY Zenon, <2>7, <2>8, <1>10 DEF Inv
  <1> QED BY Zenon, <1>1, <1>14, <1>15

-----------------------------------------------------------------------------
(* The invariant, and what it says of the link. *)

LEMMA Initially ==
    ASSUME Init
    PROVE  Inv
  <1>1. /\ built = 0 /\ sendSeq = 1 /\ receiveSeq = 1
        /\ lastAckSeq = 0 /\ ignoreNakSeq = 0 /\ retransmitSeq = 0 /\ lastAckBytes = 0
        /\ sentQueue = <<>> /\ notifyQueue = <<>> /\ timer = "never"
        /\ toMcu = <<>> /\ toHost = <<>> /\ nextSequence \in McuStart /\ needValid = FALSE
        /\ busy = 0 /\ executed = <<>> /\ notified = {} /\ answered = {} /\ handshake = 0
    BY Zenon DEF Init
  <1>2. nextSequence \in 0 .. SeqRange - 1 BY Zenon, <1>1, TransportAssumption
  <1>3. Shift = 0 BY SMTT(60), <1>1 DEF Shift
  <1>4. 0 \in Nat /\ 1 \in Nat /\ 1 # 0 /\ 0 \in 0 .. MaxBlocks /\ 0 \in 0 .. 0
    BY SMTT(60), Constants
  <1>5. TypeOK
    BY Zenon, <1>1, <1>2, <1>4 DEF TypeOK, Seqs
  <1>6. Typed BY Zenon, <1>1, <1>3, <1>4, <1>5, EmptySeq DEF Typed
  <1>7. \A x : <<>>[x] = <<>>[x] OBVIOUS
  <1>8. Len(<<>>) = 0 /\ (\A j \in 1 .. 0 : FALSE) OBVIOUS
  <1>9. Window(sentQueue, 1, 0, 0, Expected, 0)
    <2>1. /\ 1 + 0 = 0 + 1 + 0 /\ 0 <= MaxPending /\ 0 <= 0 BY SMTT(60), Constants
    <2>2. Sent(sentQueue, 1, 0) BY Zenon, <1>1, <1>8 DEF Sent
    <2> QED BY Zenon, <2>1, <2>2, <1>1, <1>8 DEF Window
  <1>10. Line(toMcu, Expected, 0, 0, 0) BY Zenon, <1>1, <1>8 DEF Line
  <1>11. Taken(0, <<>>, 0, 0, Expected, 0)
    <2>1. Range(<<>>) = {}
      <3>1. <<>> \in Seq(Nat) BY Zenon, EmptySeq
      <3>2. Range(<<>>) = {<<>>[i] : i \in 1 .. Len(<<>>)} BY Zenon, <3>1, LenProperties DEF Range
      <3> QED BY Zenon, <3>2, <1>8
    <2>2. \A c \in 0 + 1 .. 0 : FALSE OBVIOUS
    <2> QED BY Zenon, <2>1, <2>2 DEF Taken
  <1>12. Replies(toHost, 1, Expected, Floor, 0, 0) /\ Fresh(toHost, 1, Expected)
    BY Zenon, <1>1, <1>8 DEF Replies, Fresh
  <1>13. Pending(notifyQueue, 0, 0, 0)
    <2>1. 0 <= 0 OBVIOUS
    <2> QED BY Zenon, <2>1, <1>1, <1>8 DEF Pending
  <1>14. Unconfirmed(toHost, {}, 0, 0, Floor) BY Zenon, <1>1, <1>8 DEF Unconfirmed
  <1> QED BY Zenon, <1>1, <1>3, <1>6, <1>9, <1>10, <1>11, <1>12, <1>13, <1>14 DEF Inv

LEMMA InvStutters ==
    ASSUME Inv, UNCHANGED vars
    PROVE  Inv'
  <1>1. /\ HostKept /\ toMcu' = toMcu /\ toHost' = toHost
        /\ ignoreNakSeq' = ignoreNakSeq /\ retransmitSeq' = retransmitSeq /\ timer' = timer
        /\ UNCHANGED <<nextSequence, needValid, busy, executed>>
    BY Zenon DEF vars, HostKept, host, mcu, seen
  <1>2. Typed BY Zenon DEF Inv
  <1>3. ignoreNakSeq' \in Nat /\ retransmitSeq' \in Nat /\ timer' \in {"never", "armed", "now"}
        /\ toMcu' \in Seq(Messages) /\ toHost' \in Seq(Messages)
    BY Zenon, <1>1, <1>2, Types, Queues
  <1>4. /\ Line(toMcu', Expected, built, handshake, Shift)
        /\ Replies(toHost', receiveSeq, Expected, Floor, built, Shift)
        /\ (~ Started => Fresh(toHost', receiveSeq, Expected))
        /\ Unconfirmed(toHost', notified, handshake, Shift, Floor)
    BY Zenon, <1>1 DEF Inv
  <1> QED BY Zenon, <1>1, <1>3, <1>4, KeptEnds

LEMMA InvStep ==
    ASSUME Inv, [Next]_vars
    PROVE  Inv'
  BY Zenon, Build, Retransmit, Handle, FindBlock, Dispatch, Sendf, Loses, InvStutters DEF Next

\* The inductive invariant.
LEMMA Invariance == Spec => []Inv
  <1>1. Init => Inv BY Zenon, Initially
  <1>2. Inv /\ [Next]_vars => Inv' BY Zenon, InvStep
  <1> QED BY <1>1, <1>2, PTL DEF Spec

\* The values of the two ends and of the lines (the type invariant), for every
\* sequence range, window and start of the micro-controller.
THEOREM TypeCorrect == Spec => []TypeOK
  <1>1. Inv => TypeOK BY Zenon DEF Inv, Typed
  <1> QED BY <1>1, Invariance, PTL

\* A block that update_receive_seq took off sent_queue was executed, or is
\* being executed, unless it was sent before the first answer.
THEOREM AcknowledgedIsExecuted == Spec => []AckedIsExecuted
  <1>1. Inv => AckedIsExecuted
    <2>1. SUFFICES ASSUME Inv, NEW c \in handshake + 1 .. built - Len(sentQueue)
                   PROVE  c \in Range(executed) \cup {busy}
      BY Zenon DEF AckedIsExecuted
    <2>2. Typed /\ Window(sentQueue, receiveSeq, built, handshake, Expected, Shift)
          /\ Taken(busy, executed, built, handshake, Expected, Shift)
      BY Zenon, <2>1 DEF Inv
    <2>3. /\ built \in Nat /\ handshake \in Nat /\ Shift \in Nat /\ receiveSeq \in Nat
          /\ Expected \in Nat /\ receiveSeq <= Expected /\ sentQueue \in Seq(Messages)
      BY Zenon, <2>2, Types, Queues, ExpectedIs
    <2>4. PICK l \in Nat : l = Len(sentQueue) BY Zenon, <2>3, LenProperties
    <2>5. receiveSeq + l = built + 1 + Shift BY Zenon, <2>2, <2>4 DEF Window
    <2>6. c \in handshake + 1 .. built /\ c + Shift < Expected
      BY SMTT(60), <2>1, <2>3, <2>4, <2>5
    <2> QED BY Zenon, <2>2, <2>6 DEF Taken
  <1> QED BY <1>1, Invariance, PTL

\* A block confirmed to its sender was executed.
LEMMA ConfirmedIsExecuted ==
    ASSUME Inv, NEW c \in notified, c > handshake
    PROVE  c \in Range(executed)
  <1>1. Typed /\ Taken(busy, executed, built, handshake, Expected, Shift)
        /\ Unconfirmed(toHost, notified, handshake, Shift, Floor)
    BY Zenon DEF Inv
  <1>2. /\ built \in Nat /\ handshake \in Nat /\ Shift \in Nat /\ busy \in Nat
        /\ notified \subseteq 1 .. built
        /\ Expected \in Nat /\ Floor \in Int /\ Floor <= Expected
        /\ (busy # 0 => Floor + 1 = Expected)
    BY Zenon, <1>1, Types, ExpectedIs
  <1>3. c + Shift < Floor BY Zenon, <1>1 DEF Unconfirmed
  <1>4. c \in handshake + 1 .. built /\ c + Shift < Expected BY SMTT(60), <1>2, <1>3
  <1>5. c \in Range(executed) \cup {busy} BY Zenon, <1>1, <1>4 DEF Taken
  <1>6. c # busy
    <2>1. SUFFICES ASSUME c = busy PROVE FALSE OBVIOUS
    <2>2. busy # 0 BY SMTT(60), <2>1, <1>2
    <2>3. busy + Shift + 1 = Expected BY Zenon, <2>2, <1>1 DEF Taken
    <2> QED BY SMTT(60), <2>1, <2>2, <2>3, <1>2, <1>3
  <1> QED BY Zenon, <1>5, <1>6

LEMMA ResponseFirst ==
    ASSUME Inv, [Next]_vars
    PROVE  [\A c \in answered' \ answered : c > handshake => c \notin notified']_vars
  <1>1. SUFFICES ASSUME NEW c \in answered' \ answered, c > handshake
                 PROVE  c \notin notified'
    BY Zenon
  <1>2. CASE handle_message
    <2>1. /\ First.cmd \in Nat /\ Rseq \in Nat
          /\ First.cmd \in 1 .. MaxBlocks => First.cmd <= built /\ Rseq = First.cmd + Shift + 1
          /\ answered' = answered
             \/ (First.cmd \in 1 .. MaxBlocks /\ answered' = answered \cup {First.cmd})
          /\ toHost # <<>>
      BY Zenon, <1>2, Received
    <2>2. c = First.cmd /\ c \in 1 .. MaxBlocks /\ c <= built /\ Rseq = c + Shift + 1
      BY Zenon, <2>1, <1>1
    <2>3. Typed /\ Unconfirmed(toHost, notified, handshake, Shift, Floor) BY Zenon DEF Inv
    <2>4. built \in Nat /\ handshake \in Nat /\ Shift \in Nat /\ toHost \in Seq(Messages)
      BY Zenon, <2>3, Types, Queues
    <2>5. c \in handshake + 1 .. MaxBlocks BY SMTT(60), <2>2, <2>4, <1>1, Constants
    <2>6. 1 \in 1 .. Len(toHost) BY <2>1, <2>4, EmptySeq
    <2>7. c \notin notified BY Zenon, <2>2, <2>3, <2>5, <2>6 DEF Unconfirmed, First
    <2>8. PICK n \in 0 .. Len(notifyQueue) :
            /\ notified' = notified \cup {notifyQueue[i].cmd : i \in 1 .. n}
            /\ \A i \in 1 .. n :
                  notifyQueue[i].cmd > handshake
                     => notifyQueue[i].cmd + Shift + 1 + Weight(First.cmd) <= Rseq
      BY Zenon, <1>2, Completed
    <2>9. ASSUME NEW i \in 1 .. n, c = notifyQueue[i].cmd PROVE FALSE
      <3>1. c + Shift + 1 + Weight(First.cmd) <= Rseq BY Zenon, <2>8, <2>9, <1>1
      <3>2. c # 0 BY SMTT(60), <2>2, Constants
      <3>3. Weight(First.cmd) = 1 BY Zenon, <3>2, <2>2 DEF Weight
      <3> QED BY SMTT(60), <3>1, <3>3, <2>2, <2>4
    <2> QED BY Zenon, <2>7, <2>8, <2>9
  <1>3. CASE ~ handle_message
    <2>1. answered' = answered
      BY Zenon, <1>3 DEF Next, vars, seen, build_and_send_command, retransmit_event,
         command_find_block, command_dispatch, command_sendf, Lose
    <2> QED BY Zenon, <2>1, <1>1
  <1> QED BY Zenon, <1>2, <1>3

\* handle_message queues the response of a block for the reader before it
\* completes the block's entry in notify_queue, never after.
THEOREM ResponsesComeFirst == Spec => ResponseBeforeCompletion
  <1>1. Inv /\ [Next]_vars
        => [\A c \in answered' \ answered : c > handshake => c \notin notified']_vars
    BY Zenon, ResponseFirst
  <1> QED BY <1>1, Invariance, PTL DEF Spec, ResponseBeforeCompletion

-----------------------------------------------------------------------------
(* The refinement: every step of the two ends and of the lines is a step of *)
(* the reliable link, or leaves it as it is.                                *)

Confirmed == {c \in notified : c > handshake}

ConfirmedExecuted == \A c \in Confirmed : c \in Range(executed)

LEMMA ConfirmedExecutedNext == Inv' => ConfirmedExecuted'
  <1>1. Inv => ConfirmedExecuted
    BY Zenon, ConfirmedIsExecuted DEF Confirmed, ConfirmedExecuted
  <1> QED BY <1>1, PTL

LEMMA QueueStep ==
    ASSUME Inv, build_and_send_command
    PROVE  Link!Queue
  <1>1. /\ built' = built + 1 /\ executed' = executed /\ notified' = notified
        /\ handshake' = IF receiveSeq = 1 THEN built + 1 ELSE handshake
    BY Zenon DEF build_and_send_command, mcu, seen
  <1>2. Typed /\ Window(sentQueue, receiveSeq, built, handshake, Expected, Shift)
    BY Zenon DEF Inv
  <1>3. built \in Nat /\ handshake \in Nat /\ notified \subseteq 1 .. built
    BY Zenon, <1>2, Types
  <1>4. receiveSeq = 1 => handshake = built BY Zenon, <1>2 DEF Window
  <1>5. ASSUME NEW c \in notified PROVE c > handshake' <=> c > handshake
    <2>1. CASE receiveSeq = 1
      <3>1. handshake' = built + 1 /\ handshake = built BY Zenon, <2>1, <1>1, <1>4
      <3>2. c \in 1 .. built BY Zenon, <1>3
      <3>3. ~ (c > built + 1) /\ ~ (c > built) BY SMTT(60), <3>2, <1>3
      <3> QED BY Zenon, <3>1, <3>3
    <2>2. CASE receiveSeq # 1 BY Zenon, <2>2, <1>1
    <2> QED BY Zenon, <2>1, <2>2
  <1>6. Confirmed' = Confirmed BY Zenon, <1>1, <1>5 DEF Confirmed
  <1> QED BY Zenon, <1>1, <1>6 DEF Link!Queue, Confirmed

LEMMA DeliverStep ==
    ASSUME Inv, command_dispatch
    PROVE  Link!Deliver
  <1>1. /\ busy # 0 /\ executed' = Append(executed, busy)
        /\ built' = built /\ notified' = notified /\ handshake' = handshake
    BY Zenon DEF command_dispatch, host, seen
  <1>2. Typed /\ Taken(busy, executed, built, handshake, Expected, Shift) BY Zenon DEF Inv
  <1>3. built \in Nat /\ busy \in Nat /\ busy <= built /\ executed \in Seq(Nat)
    BY Zenon, <1>2, Types, Queues
  <1>4. busy \in 1 .. built BY SMTT(60), <1>1, <1>3
  <1>5. executed # <<>> => busy = executed[Len(executed)] + 1 BY Zenon, <1>1, <1>2 DEF Taken
  <1>6. Confirmed' = Confirmed BY Zenon, <1>1 DEF Confirmed
  <1> QED BY Zenon, <1>1, <1>4, <1>5, <1>6 DEF Link!Deliver, Confirmed

LEMMA ConfirmStep ==
    ASSUME Inv, Inv', handle_message
    PROVE  Link!Confirm
  <1>1. built' = built /\ executed' = executed /\ handshake' = handshake
    BY Zenon DEF handle_message, mcu
  <1>2. PICK n \in 0 .. Len(notifyQueue) :
           notified' = notified \cup {notifyQueue[i].cmd : i \in 1 .. n}
    BY Zenon, Completed
  <1>3. \A c \in Confirmed' : c \in Range(executed)
    <2>1. \A c \in Confirmed' : c \in Range(executed')
      BY Zenon, ConfirmedExecutedNext DEF ConfirmedExecuted
    <2> QED BY Zenon, <2>1, <1>1
  <1>4. Range(executed) = {executed[i] : i \in DOMAIN executed} BY Zenon DEF Range
  <1>5. Confirmed' = Confirmed \cup Confirmed'
    BY Zenon, <1>1, <1>2 DEF Confirmed
  <1>6. Confirmed' \in SUBSET {executed[i] : i \in DOMAIN executed} BY Zenon, <1>3, <1>4
  <1> QED BY Zenon, <1>1, <1>5, <1>6 DEF Link!Confirm, Confirmed

LEMMA LinkStep ==
    ASSUME Inv, Inv', [Next]_vars
    PROVE  [Link!Queue \/ Link!Deliver \/ Link!Confirm]_(Link!linkVars)
  <1>1. CASE build_and_send_command BY Zenon, <1>1, QueueStep
  <1>2. CASE command_dispatch BY Zenon, <1>2, DeliverStep
  <1>3. CASE handle_message BY Zenon, <1>3, ConfirmStep
  <1>4. CASE retransmit_event \/ command_find_block \/ command_sendf \/ Lose \/ UNCHANGED vars
    <2>1. UNCHANGED <<built, executed, notified, handshake>>
      BY Zenon, <1>4 DEF retransmit_event, command_find_block, command_sendf, Lose, vars,
         host, mcu, seen
    <2> QED BY Zenon, <2>1 DEF Link!linkVars
  <1> QED BY Zenon, <1>1, <1>2, <1>3, <1>4 DEF Next

\* The commands reach the micro-controller's handlers at most once, in order
\* and without a gap, and a sender is told of completion only afterwards: the
\* host's window and retransmission with command.c's checks implement the
\* reliable link, whatever is lost, garbled or sent again.
THEOREM LinkImplemented == Spec => LinkRefined
  <1>1. Init => Link!LinkInit BY Zenon DEF Init, Link!LinkInit
  <1>2. Inv /\ Inv' /\ [Next]_vars
        => [Link!Queue \/ Link!Deliver \/ Link!Confirm]_(Link!linkVars)
    BY Zenon, LinkStep
  <1> QED BY <1>1, <1>2, Invariance, PTL DEF Spec, LinkRefined, Link!LinkSpec

-----------------------------------------------------------------------------
(* The receive buffer. *)

\* The blocks behind a block.
LEMMA DepthThins ==
    ASSUME NEW q \in Seq(Messages), NEW p \in Seq(Messages), NEW k \in Nat, NEW b \in Nat,
           Thinned(p, q, {Garbage}, k)
    PROVE  Len(p) <= Len(q) /\ (Depth(q, b) => Depth(p, b))
  <1>1. Len(p) <= Len(q) BY Zenon DEF Thinned
  <1>2. ASSUME Depth(q, b), NEW j \in 1 .. Len(p), p[j].cmd # 0
        PROVE  Len(p) - j <= b - p[j].cmd
    <2>1. Skip(j, k) \in 1 .. Len(q) /\ Len(p) - j <= Len(q) - Skip(j, k) /\ p[j] = q[Skip(j, k)]
      <3>1. p[j] # Garbage BY Zenon, <1>2, GarbageIs
      <3> QED BY Zenon, <3>1 DEF Thinned
    <2>2. Len(q) - Skip(j, k) <= b - p[j].cmd BY Zenon, <2>1, <1>2 DEF Depth
    <2>3. p[j].cmd \in Nat BY Zenon, OnLine
    <2>4. Len(p) \in Nat /\ Len(q) \in Nat BY Zenon, OnLine
    <2>5. PICK u \in Nat, v \in Nat, c \in Nat :
            u = Len(p) /\ v = Len(q) /\ c = p[j].cmd
      BY Zenon, <2>3, <2>4
    <2>6. PICK y \in 1 .. v : y = Skip(j, k) BY Zenon, <2>1, <2>5
    <2>7. u - j <= v - y /\ v - y <= b - c BY Zenon, <2>1, <2>2, <2>5, <2>6
    <2>8. j \in 1 .. u BY Zenon, <2>5
    <2>9. u - j <= b - c BY SMTT(60), <2>5, <2>6, <2>7, <2>8
    <2> QED BY Zenon, <2>5, <2>9
  <1> QED BY Zenon, <1>1, <1>2 DEF Depth

LEMMA SilentAppends ==
    ASSUME NEW q \in Seq(Messages), NEW x \in Bits, NEW d \in Nat, Silent(q),
           d \notin 1 .. MaxBlocks
    PROVE  Silent(Append(q, Reply(x, d)))
  <1>1. Reply(x, d) \in Messages /\ Reply(x, d).cmd = d BY DEF Reply, Messages
  <1>2. PICK m \in Messages : m = Reply(x, d) BY Zenon, <1>1
  <1>3. ASSUME NEW j \in 1 .. Len(Append(q, m)), j \notin 1 .. Len(q)
        PROVE  Append(q, m)[j] = m
    BY <1>3
  <1>4. \A j \in 1 .. Len(q) : Append(q, m)[j] = q[j] OBVIOUS
  <1> QED BY Zenon, <1>1, <1>2, <1>3, <1>4 DEF Silent

LEMMA SilentThins ==
    ASSUME NEW q \in Seq(Messages), NEW p \in Seq(Messages), NEW k \in Nat,
           Thinned(p, q, {}, k), Silent(q)
    PROVE  Silent(p)
  <1>1. \A j \in 1 .. Len(p) : Skip(j, k) \in 1 .. Len(q) /\ p[j] = q[Skip(j, k)]
    BY Zenon, ThinnedIs
  <1> QED BY Zenon, <1>1 DEF Silent

\* A step that leaves both ends alone and puts nothing on the line.
LEMMA BufferKept ==
    ASSUME Inv, Buffer, HostKept, retransmitSeq' = retransmitSeq,
           nextSequence' = nextSequence, busy' = busy, executed' = executed,
           toMcu' \in Seq(Messages), Len(toMcu') <= Len(toMcu),
           Depth(toMcu, built) => Depth(toMcu', built),
           Silent(toHost) => Silent(toHost')
    PROVE  Buffer'
  <1>1. /\ built' = built /\ sendSeq' = sendSeq /\ receiveSeq' = receiveSeq
        /\ lastAckSeq' = lastAckSeq /\ lastAckBytes' = lastAckBytes
        /\ sentQueue' = sentQueue /\ notifyQueue' = notifyQueue
        /\ handshake' = handshake /\ answered' = answered
    BY Zenon DEF HostKept
  <1>2. Expected' = Expected BY Zenon, <1>1 DEF Expected
  <1>3. Floor' = Floor /\ (Started' <=> Started) BY Zenon, <1>2 DEF Floor, Started
  <1>4. Typed BY Zenon DEF Inv
  <1>5. /\ sendSeq \in Nat /\ built \in Nat /\ Expected \in Nat
        /\ Len(sentQueue) \in Nat /\ Len(toMcu) \in Nat /\ Len(toMcu') \in Nat
    BY Zenon, <1>4, Types, ExpectedIs, Queues, LenProperties
  <1>6. ASSUME NEW x \in Int, Len(toMcu) <= x PROVE Len(toMcu') <= x
    BY SMTT(60), <1>5, <1>6
  <1>7. sendSeq - Expected \in Int /\ 1 + Len(sentQueue) \in Int /\ built \in Int
    BY SMTT(60), <1>5
  <1>8. Room => Room'
    <2>1. /\ Len(toMcu) <= sendSeq - Expected => Len(toMcu') <= sendSeq - Expected
          /\ Len(toMcu) <= 1 + Len(sentQueue) => Len(toMcu') <= 1 + Len(sentQueue)
          /\ Len(toMcu) <= built => Len(toMcu') <= built
      BY Zenon, <1>6, <1>7
    <2> QED BY Zenon, <2>1, <1>1, <1>2, <1>3 DEF Room
  <1>9. Early => Early' BY Zenon, <1>1, <1>2 DEF Early
  <1> QED BY Zenon, <1>1, <1>2, <1>3, <1>8, <1>9 DEF Buffer

LEMMA BufferRetransmit ==
    ASSUME Inv, Buffer, retransmit_event
    PROVE  Buffer'
  <1>1. /\ HostKept /\ retransmitSeq' = sendSeq /\ toHost' = toHost
        /\ nextSequence' = nextSequence /\ busy' = busy /\ executed' = executed
    BY Zenon DEF retransmit_event, HostKept, mcu, seen
  <1>2. /\ built' = built /\ sendSeq' = sendSeq /\ receiveSeq' = receiveSeq
        /\ lastAckSeq' = lastAckSeq /\ lastAckBytes' = lastAckBytes
        /\ sentQueue' = sentQueue /\ notifyQueue' = notifyQueue
        /\ handshake' = handshake /\ answered' = answered
    BY Zenon, <1>1 DEF HostKept
  <1>3. Expected' = Expected BY Zenon, <1>1, <1>2 DEF Expected
  <1>4. Floor' = Floor /\ (Started' <=> Started) BY Zenon, <1>1, <1>3 DEF Floor, Started
  <1>5. sendSeq # 0
    <2>1. Typed BY Zenon DEF Inv
    <2>2. sendSeq = built + 1 + Shift /\ built \in Nat /\ Shift \in Nat BY Zenon, <2>1, Types
    <2> QED BY SMTT(60), <2>2
  <1>6. Early => Early' BY Zenon, <1>1, <1>2, <1>3 DEF Early
  <1> QED BY Zenon, <1>1, <1>2, <1>3, <1>4, <1>5, <1>6 DEF Buffer

LEMMA BufferSendf ==
    ASSUME Inv, Buffer, command_sendf
    PROVE  Buffer'
  <1>1. /\ HostKept /\ retransmitSeq' = retransmitSeq /\ toMcu' = toMcu
        /\ nextSequence' = nextSequence /\ busy' = busy /\ executed' = executed
        /\ toHost' = Append(toHost, Reply(nextSequence, Event))
    BY Zenon DEF command_sendf, HostKept, host, mcu, seen
  <1>2. Typed BY Zenon DEF Inv
  <1>3. toMcu \in Seq(Messages) /\ toHost \in Seq(Messages) /\ nextSequence \in Bits
    BY Zenon, <1>2, Queues, Types
  <1>4. Event \in Nat /\ Event \notin 1 .. MaxBlocks BY SMTT(60), Constants DEF Event
  <1>5. Silent(toHost) => Silent(toHost') BY Zenon, <1>1, <1>3, <1>4, SilentAppends
  <1>6. Len(toMcu') <= Len(toMcu) BY <1>1, <1>3
  <1> QED BY Zenon, <1>1, <1>3, <1>5, <1>6, BufferKept

LEMMA BufferLoses ==
    ASSUME Inv, Buffer, Lose
    PROVE  Buffer'
  <1>1. /\ HostKept /\ retransmitSeq' = retransmitSeq
        /\ nextSequence' = nextSequence /\ busy' = busy /\ executed' = executed
    BY Zenon DEF Lose, HostKept, host, mcu, seen
  <1>2. Typed BY Zenon DEF Inv
  <1>3. toMcu \in Seq(Messages) /\ toHost \in Seq(Messages) /\ built \in Nat
    BY Zenon, <1>2, Queues, Types
  <1>4. CASE \E i \in 1 .. Len(toMcu) :
               /\ \/ toMcu' = Without(toMcu, i)
                  \/ toMcu' = [toMcu EXCEPT ![i] = Garbage]
               /\ UNCHANGED toHost
    <2>1. PICK i \in 1 .. Len(toMcu) :
               /\ \/ toMcu' = Without(toMcu, i)
                  \/ toMcu' = [toMcu EXCEPT ![i] = Garbage]
               /\ UNCHANGED toHost
      BY Zenon, <1>4
    <2>2. i \in Nat /\ Len(toMcu) + 1 \in Nat BY <1>3
    <2>3. toMcu' \in Seq(Messages) /\ \E k \in Nat : Thinned(toMcu', toMcu, {Garbage}, k)
      <3>1. CASE toMcu' = Without(toMcu, i) BY Zenon, <3>1, <2>2, <1>3, WithoutThins
      <3>2. CASE toMcu' = [toMcu EXCEPT ![i] = Garbage]
        BY Zenon, <3>2, <2>2, <1>3, GarbleThins
      <3> QED BY Zenon, <3>1, <3>2, <2>1
    <2>4. Len(toMcu') <= Len(toMcu) /\ (Depth(toMcu, built) => Depth(toMcu', built))
      BY Zenon, <2>3, <1>3, DepthThins
    <2>5. toHost' = toHost BY Zenon, <2>1
    <2> QED BY Zenon, <2>3, <2>4, <2>5, <1>1, BufferKept
  <1>5. CASE \E i \in 1 .. Len(toHost) : toHost' = Without(toHost, i) /\ UNCHANGED toMcu
    <2>1. PICK i \in 1 .. Len(toHost) : toHost' = Without(toHost, i) /\ UNCHANGED toMcu
      BY Zenon, <1>5
    <2>2. i \in Nat BY <1>3
    <2>3. toHost' \in Seq(Messages) /\ Thinned(toHost', toHost, {}, i)
      BY Zenon, <2>1, <1>3, WithoutThins
    <2>4. Silent(toHost) => Silent(toHost') BY Zenon, <2>2, <2>3, <1>3, SilentThins
    <2>5. toMcu' = toMcu BY Zenon, <2>1
    <2>6. Len(toMcu') <= Len(toMcu) BY <2>5, <1>3
    <2> QED BY Zenon, <2>4, <2>5, <2>6, <1>1, <1>3, BufferKept
  <1> QED BY Zenon, <1>4, <1>5 DEF Lose

LEMMA DepthAppends ==
    ASSUME NEW q \in Seq(Messages), NEW b \in Nat, NEW m \in Messages, m.cmd = b + 1,
           Depth(q, b)
    PROVE  Depth(Append(q, m), b + 1)
  <1>1. ASSUME NEW j \in 1 .. Len(q), q[j].cmd # 0
        PROVE  (Len(q) + 1) - j <= (b + 1) - q[j].cmd
    <2>1. Len(q) - j <= b - q[j].cmd BY Zenon, <1>1 DEF Depth
    <2>2. Len(q) \in Nat /\ q[j].cmd \in Nat BY Zenon, OnLine
    <2> QED BY SMTT(60), <2>1, <2>2
  <1>2. Len(Append(q, m)) = Len(q) + 1 /\ (\A j \in 1 .. Len(q) : Append(q, m)[j] = q[j])
        /\ Append(q, m)[Len(q) + 1] = m
    OBVIOUS
  <1>3. \A j \in 1 .. Len(q) + 1 : j \in 1 .. Len(q) \/ j = Len(q) + 1 OBVIOUS
  <1>4. (Len(q) + 1) - (Len(q) + 1) <= (b + 1) - (b + 1) OBVIOUS
  <1> QED BY Zenon, <1>1, <1>2, <1>3, <1>4 DEF Depth

LEMMA BufferBuild ==
    ASSUME Inv, Buffer, build_and_send_command
    PROVE  Buffer'
  <1>1. /\ IF Identified THEN ByteWindow ELSE notifyQueue = <<>>
        /\ built' = built + 1 /\ sendSeq' = sendSeq + 1
        /\ handshake' = IF receiveSeq = 1 THEN built + 1 ELSE handshake
        /\ sentQueue' = Append(sentQueue, Block(sendSeq, built + 1))
        /\ toMcu' = Append(toMcu, Block(sendSeq, built + 1))
        /\ notifyQueue' = Append(notifyQueue, [cmd |-> built + 1, seq |-> sendSeq])
        /\ receiveSeq' = receiveSeq /\ lastAckSeq' = lastAckSeq
        /\ retransmitSeq' = retransmitSeq
        /\ lastAckBytes' = lastAckBytes /\ toHost' = toHost
        /\ nextSequence' = nextSequence /\ busy' = busy
        /\ executed' = executed /\ answered' = answered
    BY Zenon DEF build_and_send_command, mcu, seen
  <1>2. Expected' = Expected BY Zenon, <1>1 DEF Expected
  <1>3. Floor' = Floor /\ (Started' <=> Started) /\ (Early => Early')
    BY Zenon, <1>1, <1>2 DEF Floor, Started, Early
  <1>4. Typed /\ Window(sentQueue, receiveSeq, built, handshake, Expected, Shift)
    BY Zenon DEF Inv
  <1>5. /\ built \in Nat /\ handshake \in Nat /\ handshake <= built /\ receiveSeq \in Nat
        /\ Shift \in Nat /\ sendSeq = built + 1 + Shift /\ sendSeq \in Nat /\ lastAckSeq \in Nat
        /\ Expected \in Nat /\ Floor \in Int /\ (busy # 0 => Floor + 1 = Expected)
    BY Zenon, <1>4, Types, ExpectedIs
  <1>6. /\ sentQueue \in Seq(Messages) /\ toMcu \in Seq(Messages) /\ notifyQueue \in Seq(Entries)
        /\ lastAckBytes \in {0, 1}
    BY Zenon, <1>4, Queues
  <1>7. PICK l \in Nat, m \in Nat, n \in Nat :
           l = Len(sentQueue) /\ m = Len(toMcu) /\ n = Len(notifyQueue)
    BY Zenon, <1>6, LenProperties
  <1>8. /\ receiveSeq + l = built + 1 + Shift /\ l <= built
        /\ receiveSeq = 1 => handshake = built
    BY Zenon, <1>4, <1>7 DEF Window
  <1>9. Block(sendSeq, built + 1) \in Messages /\ Block(sendSeq, built + 1).cmd = built + 1
        /\ [cmd |-> built + 1, seq |-> sendSeq] \in Entries
    <2>1. built + 1 \in Nat BY <1>5
    <2> QED BY Zenon, <2>1, <1>5, BlockIs DEF Entries
  <1>10. Len(sentQueue') = l + 1 /\ Len(toMcu') = m + 1 /\ Len(notifyQueue') = n + 1
    <2>1. Len(Append(sentQueue, Block(sendSeq, built + 1))) = Len(sentQueue) + 1
      BY Zenon, <1>6, <1>9, Appended
    <2>2. Len(Append(toMcu, Block(sendSeq, built + 1))) = Len(toMcu) + 1
      BY Zenon, <1>6, <1>9, Appended
    <2>3. Len(Append(notifyQueue, [cmd |-> built + 1, seq |-> sendSeq])) = Len(notifyQueue) + 1
      BY Zenon, <1>6, <1>9, Appended
    <2> QED BY Zenon, <2>1, <2>2, <2>3, <1>1, <1>7
  <1>11. handshake' <= 1 => handshake <= 1 BY SMTT(60), <1>1, <1>5
  <1>12. handshake <= 1 /\ receiveSeq # 1 => l <= n BY Zenon, <1>7 DEF Buffer
  <1>13. ~ Identified /\ handshake' <= 1 => l = 0
    <2>1. SUFFICES ASSUME ~ Identified, handshake' <= 1 PROVE l = 0 OBVIOUS
    <2>2. n = 0 BY <2>1, <1>1, <1>7
    <2>3. CASE receiveSeq = 1 BY SMTT(60), <2>1, <2>3, <1>1, <1>5, <1>8
    <2>4. CASE receiveSeq # 1 BY SMTT(60), <2>1, <2>2, <2>4, <1>7, <1>11, <1>12
    <2> QED BY Zenon, <2>3, <2>4
  <1>14. Identified =>
            l = 0 \/ l + 1 + (IF lastAckSeq < receiveSeq THEN lastAckBytes ELSE 0) <= ReceiveWindow
    <2>1. SUFFICES ASSUME Identified, l # 0
                   PROVE  l + 1 + (IF lastAckSeq < receiveSeq THEN lastAckBytes ELSE 0) <= ReceiveWindow
      BY Zenon
    <2>2. sendSeq > receiveSeq BY SMTT(60), <2>1, <1>5, <1>7, <1>8
    <2> QED BY Zenon, <2>1, <2>2, <1>1, <1>7 DEF ByteWindow
  <1>15. handshake' <= 1 => l + 1 <= ReceiveWindow
    BY SMTT(60), <1>6, <1>7, <1>13, <1>14, Constants
  <1>16. lastAckSeq <= Floor /\ (busy # 0 /\ receiveSeq = Expected => lastAckBytes = 1)
    BY Zenon DEF Buffer
  <1>17. handshake' <= 1 /\ busy # 0 /\ receiveSeq = Expected => l + 1 + 1 <= ReceiveWindow
    <2>1. SUFFICES ASSUME handshake' <= 1, busy # 0, receiveSeq = Expected
                   PROVE  l + 1 + 1 <= ReceiveWindow
      BY Zenon
    <2>2. lastAckSeq < receiveSeq /\ lastAckBytes = 1 BY SMTT(60), <2>1, <1>5, <1>16
    <2>3. l = 0 \/ l + 1 + 1 <= ReceiveWindow BY Zenon, <2>1, <2>2, <1>13, <1>14
    <2> QED BY SMTT(60), <2>3, <1>7, Constants
  <1>18. ~ Started /\ handshake' <= 1 => l = 0
    <2>1. ~ Started => ~ Identified BY Zenon DEF Buffer, Early, Identified
    <2> QED BY Zenon, <2>1, <1>13
  <1>19. ASSUME Room, handshake' <= 1 PROVE Room'
    <2>1. Depth(toMcu', built') BY Zenon, <1>1, <1>5, <1>6, <1>9, <1>19, DepthAppends DEF Room
    <2>2. Started => m + 1 <= (sendSeq + 1) - Expected
      <3>1. SUFFICES ASSUME Started PROVE m + 1 <= (sendSeq + 1) - Expected OBVIOUS
      <3>2. m <= sendSeq - Expected BY Zenon, <3>1, <1>7, <1>19 DEF Room
      <3> QED BY SMTT(60), <3>2, <1>5, <1>7
    <2>3. ~ Started => /\ m + 1 <= 1 + (l + 1) /\ l + 1 <= 1
                       /\ receiveSeq = 1 => m + 1 <= built + 1
      <3>1. SUFFICES ASSUME ~ Started
                     PROVE  /\ m + 1 <= 1 + (l + 1) /\ l + 1 <= 1
                            /\ receiveSeq = 1 => m + 1 <= built + 1
        OBVIOUS
      <3>2. m <= 1 + l /\ (receiveSeq = 1 => m <= built) /\ l = 0
        BY Zenon, <3>1, <1>7, <1>18, <1>19 DEF Room
      <3> QED BY SMTT(60), <3>2, <1>5, <1>7
    <2> QED BY Zenon, <2>1, <2>2, <2>3, <1>1, <1>2, <1>3, <1>10, <1>15, <1>17, <1>19 DEF Room
  <1>20. handshake' <= 1 /\ receiveSeq' # 1 => l + 1 <= n + 1
    BY SMTT(60), <1>1, <1>7, <1>11, <1>12
  <1>21. retransmitSeq' = 0 /\ handshake' <= 1 => Room'
    BY Zenon, <1>1, <1>11, <1>19 DEF Buffer
  <1> QED BY Zenon, <1>1, <1>2, <1>3, <1>10, <1>16, <1>20, <1>21 DEF Buffer

LEMMA BufferFindBlock ==
    ASSUME Inv, Buffer, command_find_block
    PROVE  Buffer'
  <1>1. /\ HostKept /\ busy = 0 /\ toMcu # <<>> /\ toMcu' = Tail(toMcu)
        /\ ignoreNakSeq' = ignoreNakSeq /\ retransmitSeq' = retransmitSeq /\ timer' = timer
        /\ executed' = executed
    BY Zenon DEF command_find_block, HostKept, host, seen
  <1>2. Typed BY Zenon DEF Inv
  <1>3. /\ toMcu \in Seq(Messages) /\ toHost \in Seq(Messages) /\ nextSequence \in Bits
        /\ built \in Nat
    BY Zenon, <1>2, Queues, Types
  <1>4. /\ toMcu' \in Seq(Messages) /\ Thinned(toMcu', toMcu, {Garbage}, 1)
        /\ Len(toMcu') = Len(toMcu) - 1 /\ Len(toMcu) > 0 /\ Head(toMcu) = toMcu[1]
    BY Zenon, <1>1, <1>3, TailThins
  <1>5. Len(toMcu') <= Len(toMcu) /\ (Depth(toMcu, built) => Depth(toMcu', built))
    <2>1. 1 \in Nat OBVIOUS
    <2> QED BY Zenon, <2>1, <1>3, <1>4, DepthThins
  <1>6. CASE /\ nextSequence' = nextSequence /\ busy' = busy
             /\ toHost' = toHost \/ toHost' = Append(toHost, Reply(nextSequence, 0))
    <2>1. 0 \in Nat /\ 0 \notin 1 .. MaxBlocks BY SMTT(60), Constants
    <2>2. Silent(toHost) => Silent(toHost') BY Zenon, <2>1, <1>3, <1>6, SilentAppends
    <2> QED BY Zenon, <2>2, <1>1, <1>4, <1>5, <1>6, BufferKept
  <1>7. CASE /\ InSequence(Head(toMcu))
             /\ needValid' = FALSE
             /\ nextSequence' = (Head(toMcu).seq + 1) % SeqRange
             /\ busy' = Head(toMcu).cmd
             /\ UNCHANGED toHost
    <2>1. Expected' = Expected + 1 /\ busy' \in 1 .. built /\ busy' + Shift = Expected
      <3>1. toHost' = toHost BY Zenon, <1>7
      <3> QED BY Zenon, <3>1, <1>1, <1>7, Accepts
    <2>2. /\ built' = built /\ sendSeq' = sendSeq /\ receiveSeq' = receiveSeq
          /\ lastAckSeq' = lastAckSeq /\ lastAckBytes' = lastAckBytes
          /\ sentQueue' = sentQueue /\ notifyQueue' = notifyQueue
          /\ handshake' = handshake /\ answered' = answered
      BY Zenon, <1>1 DEF HostKept
    <2>3. /\ Expected \in Nat /\ receiveSeq <= Expected /\ Floor = Expected /\ Shift \in Nat
          /\ sendSeq = built + 1 + Shift /\ receiveSeq \in Nat
      BY Zenon, <1>1, <1>2, ExpectedIs, Types
    <2>4. busy' # 0 /\ (Expected + 1) - 1 = Expected /\ receiveSeq # Expected + 1
      BY SMTT(60), <2>1, <2>3, <1>3
    <2>5. Floor' = Floor /\ Started' BY Zenon, <2>1, <2>3, <2>4 DEF Floor, Started
    <2>6. ASSUME Room PROVE Room'
      <3>1. Head(toMcu).cmd # 0 => Len(toMcu) - 1 <= built - Head(toMcu).cmd
        <4>1. 1 \in 1 .. Len(toMcu) BY <1>3, <1>4
        <4> QED BY Zenon, <4>1, <2>6, <1>4 DEF Room, Depth
      <3>2. PICK z \in 1 .. built : z = busy' BY Zenon, <2>1
      <3>3. Len(toMcu) - 1 <= built - z /\ z + Shift = Expected
        BY Zenon, <3>1, <3>2, <2>1, <2>4, <1>7
      <3>4. PICK m \in Nat : m = Len(toMcu) BY Zenon, <1>3, LenProperties
      <3>5. m - 1 <= built - z BY Zenon, <3>3, <3>4
      <3>6. m - 1 <= sendSeq - (Expected + 1)
        <4>1. PICK b \in Nat, e \in Nat, s \in Nat : b = built /\ e = Expected /\ s = Shift
          BY Zenon, <2>3, <1>3
        <4>2. m - 1 <= b - z /\ z + s = e /\ z \in 1 .. b /\ sendSeq = b + 1 + s
          BY Zenon, <4>1, <3>2, <3>3, <3>5, <2>3
        <4>3. m - 1 <= (b + 1 + s) - (e + 1) BY SMTT(60), <4>2, <3>4
        <4> QED BY Zenon, <4>1, <4>2, <4>3
      <3>7. Len(toMcu') = m - 1 BY Zenon, <3>4, <1>4
      <3>8. Depth(toMcu', built') BY Zenon, <2>2, <2>6, <1>5 DEF Room
      <3> QED BY Zenon, <3>6, <3>7, <3>8, <2>1, <2>2, <2>4, <2>5, <2>6 DEF Room
    <2> QED BY Zenon, <2>1, <2>2, <2>4, <2>5, <2>6, <1>1 DEF Buffer
  <1> QED BY Zenon, <1>6, <1>7 DEF command_find_block, AfterGarbage

LEMMA BufferDispatch ==
    ASSUME Inv, Buffer, command_dispatch
    PROVE  Buffer'
  <1>1. /\ HostKept /\ busy # 0 /\ toMcu' = toMcu /\ busy' = 0
        /\ executed' = Append(executed, busy) /\ nextSequence' = nextSequence
        /\ retransmitSeq' = retransmitSeq
    BY Zenon DEF command_dispatch, HostKept, host, seen
  <1>2. /\ built' = built /\ sendSeq' = sendSeq /\ receiveSeq' = receiveSeq
        /\ lastAckSeq' = lastAckSeq /\ lastAckBytes' = lastAckBytes
        /\ sentQueue' = sentQueue /\ notifyQueue' = notifyQueue
        /\ handshake' = handshake /\ answered' = answered
    BY Zenon, <1>1 DEF HostKept
  <1>3. Typed BY Zenon DEF Inv
  <1>4. /\ Expected \in Nat /\ Floor \in Int /\ Floor <= Expected /\ lastAckSeq \in Nat
        /\ busy \in Nat /\ executed \in Seq(Nat)
    BY Zenon, <1>3, ExpectedIs, Types, Queues
  <1>5. Expected' = Expected BY Zenon, <1>1, <1>2 DEF Expected
  <1>6. Floor' = Expected BY Zenon, <1>1, <1>5 DEF Floor
  <1>7. Started /\ Started'
    <2>1. executed' # <<>> BY <1>1, <1>4, Appended
    <2> QED BY Zenon, <2>1, <1>1 DEF Started
  <1>8. lastAckSeq <= Floor BY Zenon DEF Buffer
  <1>9. lastAckSeq <= Expected BY SMTT(60), <1>4, <1>8
  <1>10. Room => Room' BY Zenon, <1>1, <1>2, <1>5, <1>7 DEF Room
  <1> QED BY Zenon, <1>1, <1>2, <1>5, <1>6, <1>7, <1>9, <1>10 DEF Buffer

\* As long as there was at most one block before the first answer, a block
\* leaves notify_queue only after it left sent_queue.
LEMMA NotifiedAfterSent ==
    ASSUME Inv, Buffer, handle_message, handshake <= 1, Rseq # 1
    PROVE  Len(sentQueue') <= Len(notifyQueue')
  <1>1. Typed /\ Window(sentQueue, receiveSeq, built, handshake, Expected, Shift)
        /\ Window(sentQueue', Rseq, built, handshake, Expected, Shift')
    BY Zenon, WindowMoves DEF Inv
  <1>2. /\ built \in Nat /\ handshake \in Nat /\ handshake <= built /\ Shift \in Nat
        /\ receiveSeq \in Nat /\ receiveSeq # 0
        /\ sentQueue \in Seq(Messages) /\ notifyQueue \in Seq(Entries)
        /\ sentQueue' \in Seq(Messages) /\ Rseq \in Nat /\ receiveSeq <= Rseq
    BY Zenon, <1>1, Types, Queues, WindowMoves, Received
  <1>3. PICK n \in 0 .. Len(notifyQueue) :
          /\ notifyQueue' = SubSeq(notifyQueue, n + 1, Len(notifyQueue))
          /\ \A i \in 1 .. n :
                /\ notifyQueue[i].cmd = built - Len(notifyQueue) + i
                /\ notifyQueue[i].cmd \in 1 .. built
                /\ notifyQueue[i].cmd > handshake
                     => notifyQueue[i].cmd + Shift + 1 + Weight(First.cmd) <= Rseq
    BY Zenon, Completed
  <1>4. PICK k \in Nat, l \in Nat, m \in Nat :
           k = Len(notifyQueue) /\ l = Len(sentQueue) /\ m = Len(sentQueue')
    BY Zenon, <1>2, LenProperties
  <1>5. n \in Nat /\ n <= k BY <1>3, <1>4
  <1>6. Len(notifyQueue') = k - n /\ k - n \in Nat
    <2>1. Len(SubSeq(notifyQueue, n + 1, Len(notifyQueue))) = Len(notifyQueue) - n
      BY <1>2, <1>3
    <2>2. k - n \in Nat BY SMTT(60), <1>4, <1>5
    <2> QED BY Zenon, <2>1, <2>2, <1>3, <1>4
  <1>7. CASE Rseq > built + 1 /\ sentQueue' = <<>>
    <2>1. Len(sentQueue') = 0 BY <1>7
    <2>2. 0 <= k - n BY SMTT(60), <1>6
    <2> QED BY Zenon, <2>1, <2>2, <1>6
  <1>8. CASE Shift' = Shift
    <2>1. PICK b \in Nat, h \in Nat, r \in Nat, s \in Nat, w \in Nat :
             b = built /\ h = handshake /\ r = receiveSeq /\ s = Shift /\ w = Rseq
      BY Zenon, <1>2
    <2>2. /\ r + l = b + 1 + s /\ w + m = b + 1 + s
          /\ r = 1 => h = b /\ s = 0
          /\ s # 0 => r > h + s
      BY Zenon, <2>1, <1>1, <1>4, <1>8 DEF Window
    <2>3. r <= w /\ w # 1 /\ h <= 1 /\ h <= b /\ r # 0 BY Zenon, <2>1, <1>2
    <2>4. r # 1 => l <= k BY Zenon, <2>1, <1>4 DEF Buffer
    <2>5. m <= k - n
      <3>1. CASE n = 0 BY SMTT(60), <3>1, <2>1, <2>2, <2>3, <2>4, <1>4
      <3>2. CASE n # 0
        <4>1. n \in 1 .. n BY SMTT(60), <3>2, <1>5
        <4>2. PICK c \in Nat : c = notifyQueue[n].cmd
          <5>1. notifyQueue[n].cmd \in 1 .. built BY Zenon, <4>1, <1>3
          <5> QED BY SMTT(60), <5>1, <1>2
        <4>3. c = b - k + n /\ c \in 1 .. b BY Zenon, <4>1, <4>2, <2>1, <1>3, <1>4
        <4>4. c > h => c + s + 1 + Weight(First.cmd) <= w
          BY Zenon, <4>1, <4>2, <2>1, <1>3
        <4>5. Weight(First.cmd) \in {0, 1} BY Zenon DEF Weight
        <4>6. PICK d \in Nat : d = Weight(First.cmd) BY SMTT(60), <4>5
        <4>7. c > h => c + s + 1 + d <= w BY Zenon, <4>4, <4>6
        <4> QED BY SMTT(60), <4>2, <4>3, <4>6, <4>7, <2>1, <2>2, <2>3, <1>4, <1>5
      <3> QED BY Zenon, <3>1, <3>2
    <2> QED BY Zenon, <2>5, <1>4, <1>6
  <1> QED BY Zenon, <1>7, <1>8, WindowMoves

LEMMA BufferHandle ==
    ASSUME Inv, Buffer, handle_message
    PROVE  Buffer'
  <1>1. /\ toMcu' = toMcu /\ built' = built /\ handshake' = handshake
        /\ retransmitSeq' = retransmitSeq /\ busy' = busy /\ executed' = executed
    BY Zenon DEF handle_message, mcu
  <1>2. /\ receiveSeq' = Rseq /\ Expected' = Expected /\ Floor' = Floor
        /\ \/ /\ Shift' = Shift /\ Rseq <= sendSeq
              /\ Len(sentQueue') = Len(sentQueue) - (Rseq - receiveSeq)
              /\ lastAckBytes' = IF Rseq = receiveSeq THEN lastAckBytes ELSE 1
           \/ /\ receiveSeq = 1 /\ handshake = built /\ Shift = 0 /\ ~ Started
              /\ Rseq > built + 1 /\ sentQueue' = <<>> /\ lastAckBytes' = lastAckBytes
        /\ sentQueue' \in Seq(Messages) /\ sendSeq' \in Nat
    BY Zenon, WindowMoves
  <1>3. /\ Rseq \in Nat /\ receiveSeq <= Rseq /\ Rseq <= Expected
        /\ First.cmd = 0 => Rseq <= Floor
        /\ ~ Started => Rseq = Expected
        /\ toHost # <<>> /\ toHost' \in Seq(Messages) /\ Thinned(toHost', toHost, {}, 1)
        /\ lastAckSeq' = IF First.cmd = 0 /\ lastAckSeq < Rseq THEN Rseq ELSE lastAckSeq
        /\ answered' = IF First.cmd \in 1 .. MaxBlocks
                       THEN answered \cup {First.cmd} ELSE answered
    BY Zenon, Received
  <1>4. Typed /\ Window(sentQueue, receiveSeq, built, handshake, Expected, Shift)
    BY Zenon DEF Inv
  <1>5. /\ built \in Nat /\ handshake \in Nat /\ receiveSeq \in Nat /\ receiveSeq # 0
        /\ Shift \in Nat /\ sendSeq \in Nat /\ sendSeq = built + 1 + Shift
        /\ Expected \in Nat /\ Floor \in Int /\ lastAckSeq \in Nat
        /\ sentQueue \in Seq(Messages) /\ toMcu \in Seq(Messages) /\ toHost \in Seq(Messages)
    BY Zenon, <1>4, Types, Queues, ExpectedIs
  <1>6. Started' <=> Started BY Zenon, <1>1 DEF Started
  <1>7. lastAckSeq' <= Floor'
    <2>1. lastAckSeq <= Floor BY Zenon DEF Buffer
    <2> QED BY Zenon, <2>1, <1>2, <1>3
  <1>8. ~ Started => Early'
    <2>1. SUFFICES ASSUME ~ Started PROVE Early' OBVIOUS
    <2>2. answered = {} /\ Silent(toHost) BY Zenon, <2>1 DEF Buffer, Early
    <2>3. 1 \in Nat /\ 1 \in 1 .. Len(toHost) BY <1>3, <1>5
    <2>4. Silent(toHost') BY Zenon, <2>2, <2>3, <1>3, <1>5, SilentThins
    <2>5. First.cmd \notin 1 .. MaxBlocks BY Zenon, <2>2, <2>3 DEF Silent, First
    <2>6. answered' = {} BY Zenon, <2>2, <2>5, <1>3
    <2> QED BY Zenon, <2>1, <2>4, <2>6, <1>2, <1>3 DEF Early
  <1>9. busy # 0 => Started BY Zenon DEF Started
  <1>10. busy # 0 /\ Rseq = Expected => lastAckBytes' = 1
    BY Zenon, <1>2, <1>9 DEF Buffer
  <1>11. handshake <= 1 /\ Rseq # 1 => Len(sentQueue') <= Len(notifyQueue')
    BY Zenon, NotifiedAfterSent
  <1>12. ASSUME Room, handshake <= 1 PROVE Room'
    <2>1. PICK l \in Nat, m \in Nat, k \in Nat :
             l = Len(sentQueue) /\ m = Len(toMcu) /\ k = Len(sentQueue')
      BY Zenon, <1>2, <1>5, LenProperties
    <2>2. PICK b \in Nat, e \in Nat, r \in Nat, w \in Nat, n \in Nat, s \in Nat :
             b = built /\ e = Expected /\ r = receiveSeq /\ w = Rseq /\ n = sendSeq /\ s = Shift
      BY Zenon, <1>3, <1>5
    <2>3. /\ Depth(toMcu, built)
          /\ Started => m <= n - e
          /\ ~ Started => /\ m <= 1 + l /\ l <= 1 /\ (r = 1 => m <= b)
          /\ l <= ReceiveWindow
          /\ busy # 0 /\ r = e => l + 1 <= ReceiveWindow
      BY Zenon, <1>12, <2>1, <2>2 DEF Room
    <2>4. k <= l /\ (r # w => k + 1 <= l \/ k = 0) /\ (r = w => k = l)
      <3>1. r <= w /\ r # 0 BY Zenon, <2>2, <1>3, <1>5
      <3>2. CASE k = l - (w - r) BY SMTT(60), <3>1, <3>2, <2>1, <2>2
      <3>3. CASE sentQueue' = <<>> /\ r = 1 /\ w > b + 1
        <4>1. k = 0 BY <3>3, <2>1
        <4> QED BY SMTT(60), <4>1, <3>3, <2>1, <2>2
      <3> QED BY Zenon, <3>2, <3>3, <2>1, <2>2, <1>2
    <2>5. Started => sendSeq' = sendSeq
      <3>1. SUFFICES ASSUME Started PROVE sendSeq' = sendSeq OBVIOUS
      <3>2. Shift' = Shift BY Zenon, <3>1, <1>2
      <3>3. PICK u \in Nat : u = sendSeq' BY Zenon, <1>2
      <3>4. u - b - 1 = n - b - 1 BY Zenon, <3>2, <3>3, <2>2, <1>1 DEF Shift
      <3>5. u \in Nat /\ n \in Nat /\ b \in Nat BY Zenon, <3>3, <2>2
      <3>6. u = n BY SMTT(60), <3>4, <3>5
      <3> QED BY Zenon, <3>3, <3>6, <2>2
    <2>6. Started => m <= sendSeq' - e BY Zenon, <2>2, <2>3, <2>5
    <2>7. ~ Started => /\ m <= 1 + k /\ k <= 1 /\ (w = 1 => m <= b)
      <3>1. SUFFICES ASSUME ~ Started PROVE m <= 1 + k /\ k <= 1 /\ (w = 1 => m <= b) OBVIOUS
      <3>2. w = e /\ (r # 1 => r = e) /\ r <= w /\ r # 0
        BY Zenon, <3>1, <2>2, <1>3, <1>5 DEF Buffer, Early
      <3>3. r = 1 => b <= 1
        <4>1. receiveSeq = 1 => handshake = built BY Zenon, <1>4 DEF Window
        <4> QED BY Zenon, <4>1, <2>2, <1>12
      <3>4. m <= 1 + l /\ l <= 1 /\ (r = 1 => m <= b) BY Zenon, <3>1, <2>3
      <3> QED BY SMTT(60), <3>2, <3>3, <3>4, <2>1, <2>2, <2>4
    <2>8. k <= ReceiveWindow BY SMTT(60), <2>1, <2>3, <2>4, Constants
    <2>9. busy # 0 /\ w = e => k + 1 <= ReceiveWindow
      <3>1. SUFFICES ASSUME busy # 0, w = e PROVE k + 1 <= ReceiveWindow OBVIOUS
      <3>2. r = e => l + 1 <= ReceiveWindow BY Zenon, <3>1, <2>3
      <3>3. l <= ReceiveWindow BY Zenon, <2>3
      <3> QED BY SMTT(60), <3>1, <3>2, <3>3, <2>1, <2>2, <2>4, Constants
    <2> QED BY Zenon, <2>1, <2>2, <2>3, <2>6, <2>7, <2>8, <2>9, <1>1, <1>2, <1>6 DEF Room
  <1> QED BY Zenon, <1>1, <1>2, <1>6, <1>7, <1>8, <1>10, <1>11, <1>12 DEF Buffer

LEMMA BufferInitially ==
    ASSUME Init
    PROVE  Buffer
  <1>1. /\ built = 0 /\ sendSeq = 1 /\ receiveSeq = 1 /\ lastAckSeq = 0 /\ retransmitSeq = 0
        /\ sentQueue = <<>> /\ toMcu = <<>> /\ toHost = <<>> /\ busy = 0 /\ executed = <<>>
        /\ answered = {}
    BY Zenon DEF Init
  <1>2. Inv BY Zenon, Initially
  <1>3. Typed BY Zenon, <1>2 DEF Inv
  <1>4. Floor = Expected /\ Expected \in Nat BY Zenon, <1>1, <1>3, ExpectedIs
  <1>5. 0 <= Expected /\ 0 <= 1 + 0 /\ 0 <= 1 /\ 0 <= 0 /\ 0 <= ReceiveWindow
    BY SMTT(60), <1>4, Constants
  <1>6. Len(<<>>) = 0 /\ (\A j \in 1 .. 0 : FALSE) OBVIOUS
  <1>7. ~ Started BY Zenon, <1>1 DEF Started
  <1>8. Early BY Zenon, <1>1, <1>6 DEF Early, Silent
  <1>9. Room BY Zenon, <1>1, <1>5, <1>6, <1>7 DEF Room, Depth
  <1> QED BY Zenon, <1>1, <1>4, <1>5, <1>8, <1>9 DEF Buffer

LEMMA BufferStep ==
    ASSUME Inv, Buffer, [Next]_vars
    PROVE  Buffer'
  <1>1. CASE UNCHANGED vars
    <2>1. /\ HostKept /\ toMcu' = toMcu /\ toHost' = toHost /\ retransmitSeq' = retransmitSeq
          /\ nextSequence' = nextSequence /\ busy' = busy /\ executed' = executed
      BY Zenon, <1>1 DEF vars, HostKept, host, mcu, seen
    <2>2. Typed BY Zenon DEF Inv
    <2>3. toMcu \in Seq(Messages) BY Zenon, <2>2, Queues
    <2>4. Len(toMcu') <= Len(toMcu) BY <2>1, <2>3
    <2> QED BY Zenon, <2>1, <2>3, <2>4, BufferKept
  <1> QED BY Zenon, <1>1, BufferBuild, BufferRetransmit, BufferHandle, BufferFindBlock,
             BufferDispatch, BufferSendf, BufferLoses DEF Next

\* Without a retransmission the blocks under way, and the one being executed,
\* fit the micro-controller's receive buffer: check_send_command counts the
\* last acknowledged block until a pure ack says that it was popped.
THEOREM BufferIsEnough == Spec => []BufferSuffices
  <1>1. Init => IInv BY Zenon, Initially, BufferInitially DEF IInv
  <1>2. IInv /\ [Next]_vars => IInv' BY Zenon, InvStep, BufferStep DEF IInv
  <1>3. IInv => BufferSuffices
    <2>1. SUFFICES ASSUME Inv, Buffer, retransmitSeq = 0, handshake <= 1
                   PROVE  Len(toMcu) + (IF busy = 0 THEN 0 ELSE 1) <= ReceiveWindow
      BY Zenon DEF IInv, BufferSuffices
    <2>2. Typed /\ Window(sentQueue, receiveSeq, built, handshake, Expected, Shift) /\ Room
      BY Zenon, <2>1 DEF Inv, Buffer
    <2>3. /\ built \in Nat /\ receiveSeq \in Nat /\ Shift \in Nat /\ sendSeq = built + 1 + Shift
          /\ Expected \in Nat /\ receiveSeq <= Expected
          /\ sentQueue \in Seq(Messages) /\ toMcu \in Seq(Messages)
      BY Zenon, <2>2, Types, Queues, ExpectedIs
    <2>4. PICK l \in Nat, m \in Nat, r \in Nat, e \in Nat, n \in Nat :
             l = Len(sentQueue) /\ m = Len(toMcu) /\ r = receiveSeq /\ e = Expected
             /\ n = built + 1 + Shift
      <3>1. built + 1 + Shift \in Nat BY SMTT(60), <2>3
      <3> QED BY Zenon, <3>1, <2>3, LenProperties
    <2>5. r + l = n /\ r <= e BY Zenon, <2>2, <2>3, <2>4 DEF Window
    <2>6. /\ Started => m <= n - e
          /\ ~ Started => m <= 1 + l /\ l <= 1
          /\ l <= ReceiveWindow
          /\ busy # 0 /\ r = e => l + 1 <= ReceiveWindow
      BY Zenon, <2>2, <2>3, <2>4 DEF Room
    <2>7. CASE busy # 0
      <3>1. m <= n - e BY Zenon, <2>6, <2>7 DEF Started
      <3>2. r = e => l + 1 <= ReceiveWindow BY Zenon, <2>6, <2>7
      <3>3. m + 1 <= ReceiveWindow BY SMTT(60), <3>1, <3>2, <2>4, <2>5, <2>6, Constants
      <3> QED BY Zenon, <3>3, <2>4, <2>7
    <2>8. CASE busy = 0
      <3>1. m <= n - e \/ (m <= 1 + l /\ l <= 1) BY Zenon, <2>6
      <3>2. m + 0 <= ReceiveWindow BY SMTT(60), <3>1, <2>4, <2>5, <2>6, Constants
      <3> QED BY Zenon, <3>2, <2>4, <2>8
    <2> QED BY Zenon, <2>7, <2>8
  <1> QED BY <1>1, <1>2, <1>3, PTL DEF Spec
=============================================================================
