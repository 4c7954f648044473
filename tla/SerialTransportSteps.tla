------------------------ MODULE SerialTransportSteps ------------------------
(***************************************************************************)
(* What the steps of the serial link's two ends and of its lines preserve. *)
(*                                                                         *)
(* The numbers on the lines have a few bits; the invariant says which full *)
(* number each of them stands for.  Expected is the full number that the   *)
(* micro-controller waits for: a block on the line is less than SeqRange   *)
(* below it, so that an old block sent again is never taken for the one    *)
(* expected, and an answer on the line is at most Expected, so that        *)
(* FullSeq recovers the number it was sent with.                           *)
(***************************************************************************)
EXTENDS SerialTransport, TLAPS

\* The number, not below r, that the bits x of a message stand for.
FullFrom(r, x) ==
    IF r - (r % SeqRange) + x < r THEN r - (r % SeqRange) + x + SeqRange
    ELSE r - (r % SeqRange) + x

\* The full number of the block that the micro-controller expects.
Expected == FullFrom(receiveSeq, nextSequence)

\* How far the numbers are ahead of the blocks, after the numbering of the
\* micro-controller was adopted; blocks sent before had their own number.
Shift == sendSeq - built - 1
Number(c, h, s) == IF c <= h THEN c ELSE c + s

Bits == 0 .. SeqRange - 1
Messages == [seq : Bits, cmd : Nat]
Entries == [cmd : Nat, seq : Nat]

Typed ==
    /\ TypeOK
    /\ receiveSeq # 0 /\ lastAckBytes \in {0, 1}
    /\ sentQueue \in Seq(Messages) /\ toMcu \in Seq(Messages) /\ toHost \in Seq(Messages)
    /\ notifyQueue \in Seq(Entries)
    /\ executed \in Seq(Nat)
    /\ Shift \in Nat

\* The host's window: r is receive_seq, b blocks are built, h of them before
\* the first answer; the micro-controller expects e, the numbers are s ahead.
Sent(q, r, s) == \A i \in 1 .. Len(q) : q[i] = Block(r + i - 1, r + i - 1 - s)

Window(q, r, b, h, e, s) ==
    /\ r + Len(q) = b + 1 + s
    /\ Len(q) <= MaxPending /\ Len(q) <= b
    /\ r = 1 => h = b /\ s = 0
    /\ s # 0 => r > h + s
    /\ r # 1 => e <= b + 1 + s
    /\ Sent(q, r, s)

\* The line to the micro-controller.  A block may be an old one, sent again,
\* but never so old that its number is taken for the one expected.
Line(q, e, b, h, s) ==
    \A j \in 1 .. Len(q) : q[j].cmd # 0 =>
        /\ q[j].cmd \in 1 .. b
        /\ q[j].seq = Number(q[j].cmd, h, s) % SeqRange
        /\ e < Number(q[j].cmd, h, s) + SeqRange
        /\ \A i \in 1 .. j - 1 : q[i].cmd # 0 =>
              Number(q[i].cmd, h, s) + 1 < Number(q[j].cmd, h, s) + SeqRange

\* What the micro-controller has taken: z is being executed, x were.
Taken(z, x, b, h, e, s) ==
    /\ z # 0 => z + s + 1 = e /\ (x # <<>> => x[Len(x)] + 1 = z)
    /\ z = 0 /\ x # <<>> => x[Len(x)] + s + 1 = e
    /\ Range(x) \subseteq 1 .. b
    /\ \A c \in h + 1 .. b : c + s < e => c \in Range(x) \cup {z}

\* Everything below it was executed.
Floor == IF busy = 0 THEN Expected ELSE Expected - 1

\* The line to the host: the numbers never fall, an ack is sent when nothing
\* is being executed, a response is sent before the ack of its block.
Replies(q, r, e, f, b, s) ==
    \A j \in 1 .. Len(q) :
        /\ FullFrom(r, q[j].seq) <= e
        /\ q[j].cmd = 0 => FullFrom(r, q[j].seq) <= f
        /\ q[j].cmd \in 1 .. MaxBlocks =>
              /\ q[j].cmd <= b
              /\ FullFrom(r, q[j].seq) = q[j].cmd + s + 1
        /\ \A i \in 1 .. j - 1 :
              /\ FullFrom(r, q[i].seq) <= FullFrom(r, q[j].seq)
              /\ q[i].cmd = 0 /\ q[j].cmd \in 1 .. MaxBlocks
                   => FullFrom(r, q[i].seq) < FullFrom(r, q[j].seq)

\* Before the first block is taken there is only one number to answer with.
Fresh(q, r, e) == \A j \in 1 .. Len(q) : FullFrom(r, q[j].seq) = e

\* The blocks to be confirmed are the last ones built.
Pending(q, b, h, s) ==
    /\ Len(q) <= b
    /\ \A i \in 1 .. Len(q) :
          q[i] = [cmd |-> b - Len(q) + i, seq |-> Number(b - Len(q) + i, h, s)]

\* A block that is confirmed (n are) was executed, and its response is not
\* under way any more.
Unconfirmed(q, n, h, s, f) ==
    /\ \A j \in 1 .. Len(q) : q[j].cmd \in h + 1 .. MaxBlocks => q[j].cmd \notin n
    /\ \A c \in n : c > h => c + s < f

Started == executed # <<>> \/ busy # 0

Inv ==
    /\ Typed
    /\ Window(sentQueue, receiveSeq, built, handshake, Expected, Shift)
    /\ Line(toMcu, Expected, built, handshake, Shift)
    /\ Taken(busy, executed, built, handshake, Expected, Shift)
    /\ Replies(toHost, receiveSeq, Expected, Floor, built, Shift)
    /\ ~ Started => Fresh(toHost, receiveSeq, Expected)
    /\ Pending(notifyQueue, built, handshake, Shift)
    /\ Unconfirmed(toHost, notified, handshake, Shift, Floor)

\* The receive buffer, as long as nothing was sent again: a block on the line
\* is followed by no more than were built after it, and by none that the window
\* does not hold; before the first answer there is only the query.
Depth(q, b) == \A j \in 1 .. Len(q) : q[j].cmd # 0 => Len(q) - j <= b - q[j].cmd
Silent(q) == \A j \in 1 .. Len(q) : q[j].cmd \notin 1 .. MaxBlocks

Early == answered = {} /\ Silent(toHost) /\ (receiveSeq # 1 => receiveSeq = Expected)

Room ==
    /\ Depth(toMcu, built)
    /\ Started => Len(toMcu) <= sendSeq - Expected
    /\ ~ Started => /\ Len(toMcu) <= 1 + Len(sentQueue) /\ Len(sentQueue) <= 1
                    /\ receiveSeq = 1 => Len(toMcu) <= built
    /\ Len(sentQueue) <= ReceiveWindow
    /\ busy # 0 /\ receiveSeq = Expected => Len(sentQueue) + 1 <= ReceiveWindow

Buffer ==
    /\ lastAckSeq <= Floor
    /\ ~ Started => Early
    /\ busy # 0 /\ receiveSeq = Expected => lastAckBytes = 1
    /\ handshake <= 1 /\ receiveSeq # 1 => Len(sentQueue) <= Len(notifyQueue)
    /\ retransmitSeq = 0 /\ handshake <= 1 => Room

IInv == Inv /\ Buffer

-----------------------------------------------------------------------------
(* Sequences. *)

LEMMA EmptySeq ==
    \A S : << >> \in Seq(S) /\ Len(<< >>) = 0 /\ \A q \in Seq(S) : q # << >> => Len(q) \in Nat \ {0}
  OBVIOUS

LEMMA LenProperties == \A S : \A q \in Seq(S) : Len(q) \in Nat /\ DOMAIN q = 1 .. Len(q)
  OBVIOUS

LEMMA ConcatProperties ==
    \A S : \A q, r \in Seq(S) :
        /\ q \o r \in Seq(S) /\ Len(q \o r) = Len(q) + Len(r)
        /\ \A i \in 1 .. Len(q) + Len(r) : (q \o r)[i] = IF i <= Len(q) THEN q[i] ELSE r[i - Len(q)]
  OBVIOUS

LEMMA Appended ==
    \A S : \A q \in Seq(S), e \in S :
        /\ Append(q, e) \in Seq(S) /\ Append(q, e) # << >> /\ Len(Append(q, e)) = Len(q) + 1
        /\ \A i \in 1 .. Len(q) : Append(q, e)[i] = q[i]
        /\ Append(q, e)[Len(q) + 1] = e /\ Append(q, e) = q \o <<e>>
  OBVIOUS

LEMMA Constants ==
    /\ SeqRange \in Nat /\ MaxPending \in Nat /\ MaxBlocks \in Nat /\ ReceiveWindow \in Nat
    /\ 0 < MaxPending /\ MaxPending < SeqRange /\ 1 < SeqRange /\ 1 < ReceiveWindow
  BY SMTT(60), TransportAssumption

LEMMA ModOf ==
    ASSUME NEW a \in Int, NEW k \in Int, NEW r \in Nat, NEW M \in Nat, r < M,
           a = M * k + r
    PROVE  a % M = r
  OBVIOUS

\* A number is its multiple of SeqRange and its remainder.
LEMMA Division ==
    ASSUME NEW a \in Int, NEW M \in Nat, M > 0
    PROVE  \E k \in Int, r \in Nat : a = M * k + r /\ r < M /\ a % M = r
  <1>1. M * (a \div M) <= a OBVIOUS
  <1>2. a < M * (a \div M) + M OBVIOUS
  <1>3. a \div M \in Int OBVIOUS
  <1>4. PICK k \in Int : k = a \div M BY Zenon, <1>3
  <1>5. M * k \in Int OBVIOUS
  <1>6. a - M * k \in Nat /\ a - M * k < M BY <1>1, <1>2, <1>4, <1>5
  <1>7. PICK r \in Nat : r = a - M * k BY Zenon, <1>6
  <1>8. a = M * k + r BY <1>5, <1>7
  <1>9. r < M BY Zenon, <1>6, <1>7
  <1>10. a % M = r BY Zenon, <1>8, <1>9, ModOf
  <1> QED BY Zenon, <1>8, <1>9, <1>10

\* Two numbers less than M apart with the same remainder are the same.
LEMMA SameNumber ==
    ASSUME NEW a \in Int, NEW b \in Int, NEW M \in Nat, M > 0,
           a % M = b % M, a < b + M, b < a + M
    PROVE  a = b
  <1>1. PICK k \in Int, c \in Nat : a = M * k + c /\ c < M /\ a % M = c
    BY Zenon, Division
  <1>2. PICK j \in Int, d \in Nat : b = M * j + d /\ d < M /\ b % M = d
    BY Zenon, Division
  <1>3. c = d BY Zenon, <1>1, <1>2
  <1>4. M * k \in Int /\ M * j \in Int OBVIOUS
  <1>5. PICK x \in Int, y \in Int : x = M * k /\ y = M * j BY Zenon, <1>4
  <1>6. x < y + M /\ y < x + M
    <2>1. a = x + c /\ b = y + c BY Zenon, <1>1, <1>2, <1>3, <1>5
    <2> QED BY <2>1
  <1>7. ~ (k < j)
    <2>1. SUFFICES ASSUME k < j PROVE FALSE OBVIOUS
    <2>2. M * (j - k) = M * j - M * k OBVIOUS
    <2>3. M * (j - k) >= M BY <2>1
    <2>4. y - x >= M BY Zenon, <2>2, <2>3, <1>5
    <2> QED BY <2>4, <1>6
  <1>8. ~ (j < k)
    <2>1. SUFFICES ASSUME j < k PROVE FALSE OBVIOUS
    <2>2. M * (k - j) = M * k - M * j OBVIOUS
    <2>3. M * (k - j) >= M BY <2>1
    <2>4. x - y >= M BY Zenon, <2>2, <2>3, <1>5
    <2> QED BY <2>4, <1>6
  <1>9. k = j BY <1>7, <1>8
  <1> QED BY Zenon, <1>1, <1>2, <1>3, <1>9

\* The bits of the next number are the next bits.
LEMMA Successor ==
    ASSUME NEW a \in Nat, NEW M \in Nat, M > 1
    PROVE  ((a % M) + 1) % M = (a + 1) % M /\ (a + 1) % M \in 0 .. M - 1
  <1>1. PICK k \in Int, c \in Nat : a = M * k + c /\ c < M /\ a % M = c
    BY SMTT(60), Division
  <1>2. M * k \in Int /\ M * (k + 1) = M * k + M OBVIOUS
  <1>3. PICK x \in Int : x = M * k BY Zenon, <1>2
  <1>4. a = x + c BY Zenon, <1>1, <1>3
  <1>5. CASE c + 1 = M
    <2>1. a + 1 = x + M BY <1>4, <1>5
    <2>2. a + 1 = M * (k + 1) + 0
      <3>1. M * (k + 1) = x + M BY Zenon, <1>2, <1>3
      <3>2. M * (k + 1) \in Int OBVIOUS
      <3>3. PICK y \in Int : y = M * (k + 1) BY Zenon, <3>2
      <3>4. a + 1 = y + 0 BY <3>1, <3>3, <2>1
      <3> QED BY Zenon, <3>3, <3>4
    <2>3. (a + 1) % M = 0
      <3>1. a + 1 \in Int /\ k + 1 \in Int /\ 0 \in Nat /\ 0 < M OBVIOUS
      <3> QED BY Zenon, <3>1, <2>2, ModOf
    <2>4. M = M * 1 + 0 /\ M \in Int /\ 1 \in Int /\ 0 \in Nat /\ 0 < M OBVIOUS
    <2>5. M % M = 0 BY Zenon, <2>4, ModOf
    <2>6. ((a % M) + 1) % M = 0 BY Zenon, <1>1, <1>5, <2>5
    <2>7. 0 \in 0 .. M - 1 OBVIOUS
    <2> QED BY Zenon, <2>3, <2>6, <2>7
  <1>6. CASE c + 1 # M
    <2>1. c + 1 < M /\ c + 1 \in Nat /\ c + 1 \in Int /\ a + 1 \in Int
      BY <1>1, <1>6
    <2>2. a + 1 = M * k + (c + 1)
      <3>1. a + 1 = x + (c + 1) BY <1>4
      <3> QED BY Zenon, <1>3, <3>1
    <2>3. PICK d \in Nat, w \in Int : d = c + 1 /\ w = a + 1 BY Zenon, <2>1
    <2>4. d < M /\ w = M * k + d BY Zenon, <2>1, <2>2, <2>3
    <2>5. w % M = d BY Zenon, <2>4, ModOf
    <2>6. d = M * 0 + d /\ 0 \in Int /\ d \in Int OBVIOUS
    <2>7. d % M = d BY Zenon, <2>4, <2>6, ModOf
    <2>8. d \in 0 .. M - 1 BY <2>4
    <2> QED BY Zenon, <1>1, <2>3, <2>5, <2>7, <2>8
  <1> QED BY Zenon, <1>5, <1>6

\* FullSeq gives the one number in r .. r + SeqRange - 1 with these bits.
LEMMA FullFromIs ==
    ASSUME NEW r \in Nat, NEW x \in Bits
    PROVE  /\ FullFrom(r, x) \in Nat
           /\ r <= FullFrom(r, x) /\ FullFrom(r, x) < r + SeqRange
           /\ FullFrom(r, x) % SeqRange = x
  <1>0. SeqRange \in Nat /\ SeqRange > 0 /\ r \in Int /\ x \in Nat /\ x < SeqRange
    BY SMTT(60), Constants DEF Bits
  <1>1. PICK k \in Int, c \in Nat : r = SeqRange * k + c /\ c < SeqRange /\ r % SeqRange = c
    BY Zenon, <1>0, Division
  <1>2. SeqRange * k \in Int /\ SeqRange * (k + 1) = SeqRange * k + SeqRange
    BY SMTT(60), <1>0
  <1>3. PICK y \in Int : y = SeqRange * k BY Zenon, <1>2
  <1>4. r = y + c BY Zenon, <1>1, <1>3
  <1>5. CASE x < c
    <2>1. FullFrom(r, x) = y + x + SeqRange /\ y + x + SeqRange = (y + SeqRange) + x
      BY SMTT(60), <1>0, <1>1, <1>4, <1>5 DEF FullFrom
    <2>2. FullFrom(r, x) = SeqRange * (k + 1) + x
      BY Zenon, <2>1, <1>2, <1>3
    <2>3. FullFrom(r, x) \in Nat /\ r <= FullFrom(r, x) /\ FullFrom(r, x) < r + SeqRange
      BY SMTT(60), <1>0, <1>1, <1>4, <1>5, <2>1
    <2>4. k + 1 \in Int /\ FullFrom(r, x) \in Int BY SMTT(60), <2>3
    <2>5. FullFrom(r, x) % SeqRange = x BY Zenon, <1>0, <2>2, <2>4, ModOf
    <2> QED BY Zenon, <2>3, <2>5
  <1>6. CASE ~ (x < c)
    <2>1. FullFrom(r, x) = y + x
      BY SMTT(60), <1>0, <1>1, <1>4, <1>6 DEF FullFrom
    <2>2. FullFrom(r, x) = SeqRange * k + x
      BY Zenon, <2>1, <1>2, <1>3
    <2>3. FullFrom(r, x) \in Nat /\ r <= FullFrom(r, x) /\ FullFrom(r, x) < r + SeqRange
      BY SMTT(60), <1>0, <1>1, <1>4, <1>6, <2>1
    <2>4. FullFrom(r, x) \in Int BY SMTT(60), <2>3
    <2>5. FullFrom(r, x) % SeqRange = x BY Zenon, <1>0, <2>2, <2>4, ModOf
    <2> QED BY Zenon, <2>3, <2>5
  <1> QED BY Zenon, <1>5, <1>6

LEMMA FullFromUnique ==
    ASSUME NEW r \in Nat, NEW x \in Bits, NEW y \in Int,
           r <= y, y < r + SeqRange, y % SeqRange = x
    PROVE  FullFrom(r, x) = y
  <1>1. /\ FullFrom(r, x) \in Nat
        /\ r <= FullFrom(r, x) /\ FullFrom(r, x) < r + SeqRange
        /\ FullFrom(r, x) % SeqRange = x
    BY Zenon, FullFromIs
  <1>2. PICK z \in Nat : z = FullFrom(r, x) BY Zenon, <1>1
  <1>3. SeqRange \in Nat /\ SeqRange > 0 /\ z \in Int /\ z < y + SeqRange /\ y < z + SeqRange
    BY SMTT(60), <1>1, <1>2, Constants
  <1>4. z % SeqRange = y % SeqRange BY Zenon, <1>1, <1>2
  <1>5. z = y BY Zenon, <1>3, <1>4, SameNumber
  <1> QED BY Zenon, <1>2, <1>5

\* What a message means does not change while receive_seq moves up to it.
LEMMA FullFromKept ==
    ASSUME NEW r \in Nat, NEW t \in Nat, NEW x \in Bits,
           r <= t, t <= FullFrom(r, x)
    PROVE  FullFrom(t, x) = FullFrom(r, x)
  <1>1. /\ FullFrom(r, x) \in Nat
        /\ r <= FullFrom(r, x) /\ FullFrom(r, x) < r + SeqRange
        /\ FullFrom(r, x) % SeqRange = x
    BY Zenon, FullFromIs
  <1>2. PICK z \in Nat : z = FullFrom(r, x) BY Zenon, <1>1
  <1>3. z \in Int /\ t <= z /\ z < t + SeqRange
    BY SMTT(60), <1>1, <1>2, Constants
  <1>4. z % SeqRange = x BY Zenon, <1>1, <1>2
  <1>5. FullFrom(t, x) = z BY Zenon, <1>3, <1>4, FullFromUnique
  <1> QED BY Zenon, <1>2, <1>5

-----------------------------------------------------------------------------
(* What the lines make of the messages they carry. *)

\* The positions of a line without the k-th.
Skip(i, k) == IF i < k THEN i ELSE i + 1

\* p is q, cut short, with at most one message taken out, some turned into G.
Thinned(p, q, G, k) ==
    /\ Len(p) <= Len(q)
    /\ \A i \in 1 .. Len(p) :
          /\ Skip(i, k) \in 1 .. Len(q)
          /\ Len(p) - i <= Len(q) - Skip(i, k)
          /\ p[i] = q[Skip(i, k)] \/ p[i] \in G

\* The messages of a line.
LEMMA OnLine ==
    ASSUME NEW q \in Seq(Messages)
    PROVE  /\ Len(q) \in Nat
           /\ \A i \in 1 .. Len(q) : q[i] \in Messages /\ q[i].cmd \in Nat /\ q[i].seq \in Bits
  <1>1. Len(q) \in Nat OBVIOUS
  <1>2. \A i \in 1 .. Len(q) : q[i] \in Messages OBVIOUS
  <1>3. \A m \in Messages : m.cmd \in Nat /\ m.seq \in Bits BY Zenon DEF Messages
  <1> QED BY Zenon, <1>1, <1>2, <1>3

LEMMA GarbageIs == Garbage \in Messages /\ Garbage.cmd = 0
  BY Constants DEF Garbage, Messages, Bits

\* Taking the first message, losing one, garbling one and flushing thin a line.
LEMMA TailThins ==
    ASSUME NEW q \in Seq(Messages), q # <<>>, NEW G
    PROVE  /\ Tail(q) \in Seq(Messages)
           /\ Len(Tail(q)) = Len(q) - 1 /\ Len(q) > 0
           /\ Head(q) = q[1] /\ Head(q) \in Messages
           /\ Thinned(Tail(q), q, G, 1)
           /\ \A i \in 1 .. Len(Tail(q)) : Tail(q)[i] = q[i + 1]
  <1>1. /\ Tail(q) \in Seq(Messages) /\ Len(Tail(q)) = Len(q) - 1
        /\ \A i \in 1 .. Len(Tail(q)) : Tail(q)[i] = q[i + 1]
        /\ Head(q) = q[1]
    OBVIOUS
  <1>2. Len(q) \in Nat /\ Len(q) > 0 /\ Head(q) \in Messages
    BY EmptySeq
  <1> QED BY <1>1, <1>2 DEF Thinned, Skip

LEMMA WithoutThins ==
    ASSUME NEW q \in Seq(Messages), NEW k \in 1 .. Len(q), NEW G
    PROVE  /\ Without(q, k) \in Seq(Messages)
           /\ Thinned(Without(q, k), q, G, k)
  <1> DEFINE a == SubSeq(q, 1, k - 1)
             b == SubSeq(q, k + 1, Len(q))
  <1>1. /\ a \in Seq(Messages) /\ Len(a) = k - 1
        /\ \A i \in 1 .. k - 1 : a[i] = q[i]
    OBVIOUS
  <1>2. /\ b \in Seq(Messages) /\ Len(b) = Len(q) - k
        /\ \A i \in 1 .. Len(q) - k : b[i] = q[i + k]
    OBVIOUS
  <1>3. Without(q, k) = a \o b BY Zenon DEF Without
  <1> HIDE DEF a, b
  <1>4. /\ a \o b \in Seq(Messages) /\ Len(a \o b) = Len(q) - 1
        /\ \A i \in 1 .. Len(q) - 1 : (a \o b)[i] = IF i < k THEN q[i] ELSE q[i + 1]
    <2>1. /\ a \o b \in Seq(Messages) /\ Len(a \o b) = Len(a) + Len(b)
          /\ \A i \in 1 .. Len(a) + Len(b) :
                (a \o b)[i] = IF i <= Len(a) THEN a[i] ELSE b[i - Len(a)]
      BY Zenon, <1>1, <1>2, ConcatProperties
    <2>2. Len(q) \in Nat /\ Len(a) + Len(b) = Len(q) - 1 BY <1>1, <1>2
    <2>3. ASSUME NEW i \in 1 .. Len(q) - 1
          PROVE  (a \o b)[i] = IF i < k THEN q[i] ELSE q[i + 1]
      <3>1. (a \o b)[i] = IF i <= Len(a) THEN a[i] ELSE b[i - Len(a)]
        BY Zenon, <2>1, <2>2
      <3>2. CASE i < k
        <4>1. i <= Len(a) /\ i \in 1 .. k - 1 BY <3>2, <1>1
        <4> QED BY Zenon, <3>1, <3>2, <4>1, <1>1
      <3>3. CASE ~ (i < k)
        <4>1. ~ (i <= Len(a)) /\ i - Len(a) \in 1 .. Len(q) - k /\ (i - Len(a)) + k = i + 1
          BY <3>3, <1>1, <2>2
        <4> QED BY Zenon, <3>1, <3>3, <4>1, <1>2
      <3> QED BY Zenon, <3>2, <3>3
    <2> QED BY Zenon, <2>1, <2>2, <2>3
  <1>5. Thinned(a \o b, q, G, k)
    <2>1. PICK n \in Nat : n = Len(q) BY Zenon, OnLine
    <2>2. k \in 1 .. n BY Zenon, <2>1
    <2>3. ASSUME NEW i \in 1 .. n - 1
          PROVE  /\ Skip(i, k) \in 1 .. n /\ (n - 1) - i <= n - Skip(i, k)
                 /\ Skip(i, k) = IF i < k THEN i ELSE i + 1
      BY SMTT(60), <2>1, <2>2 DEF Skip
    <2>4. n - 1 <= n BY SMTT(60)
    <2>5. Len(a \o b) = n - 1 BY Zenon, <1>4, <2>1
    <2>6. ASSUME NEW i \in 1 .. n - 1 PROVE (a \o b)[i] = q[Skip(i, k)]
      BY Zenon, <1>4, <2>1, <2>3
    <2> QED BY Zenon, <2>1, <2>3, <2>4, <2>5, <2>6 DEF Thinned
  <1> QED BY Zenon, <1>3, <1>4, <1>5

LEMMA GarbleThins ==
    ASSUME NEW q \in Seq(Messages), NEW k \in 1 .. Len(q)
    PROVE  /\ [q EXCEPT ![k] = Garbage] \in Seq(Messages)
           /\ Thinned([q EXCEPT ![k] = Garbage], q, {Garbage}, Len(q) + 1)
  <1>1. /\ [q EXCEPT ![k] = Garbage] \in Seq(Messages)
        /\ Len([q EXCEPT ![k] = Garbage]) = Len(q)
        /\ \A j \in 1 .. Len(q) :
              [q EXCEPT ![k] = Garbage][j] = IF j = k THEN Garbage ELSE q[j]
    BY GarbageIs
  <1>2. Len(q) \in Nat OBVIOUS
  <1> QED BY <1>1, <1>2 DEF Thinned, Skip

LEMMA FlushThins ==
    ASSUME NEW q \in Seq(Messages), NEW p \in Flushed(q)
    PROVE  p \in Seq(Messages) /\ Thinned(p, q, {Garbage}, Len(q) + 1)
  <1>1. Len(q) \in Nat OBVIOUS
  <1>2. ASSUME NEW n \in 0 .. Len(q)
        PROVE  /\ SubSeq(q, 1, n) \in Seq(Messages) /\ Len(SubSeq(q, 1, n)) = n
               /\ \A i \in 1 .. n : SubSeq(q, 1, n)[i] = q[i]
    BY <1>1
  <1>3. CASE \E n \in 0 .. Len(q) : p = SubSeq(q, 1, n)
    <2>1. PICK n \in 0 .. Len(q) : p = SubSeq(q, 1, n) BY Zenon, <1>3
    <2>2. p \in Seq(Messages) /\ Len(p) = n /\ \A i \in 1 .. n : p[i] = q[i]
      BY Zenon, <2>1, <1>2
    <2> QED BY <2>2, <1>1 DEF Thinned, Skip
  <1>4. CASE \E n \in 0 .. Len(q) - 1 : p = Append(SubSeq(q, 1, n), Garbage)
    <2>1. PICK n \in 0 .. Len(q) - 1 : p = Append(SubSeq(q, 1, n), Garbage) BY Zenon, <1>4
    <2>2. n \in 0 .. Len(q) BY <1>1
    <2>3. PICK a \in Seq(Messages) :
            a = SubSeq(q, 1, n) /\ Len(a) = n /\ \A i \in 1 .. n : a[i] = q[i]
      BY Zenon, <2>2, <1>2
    <2>4. p = Append(a, Garbage) BY Zenon, <2>1, <2>3
    <2>5. p \in Seq(Messages) /\ Len(p) = n + 1
          /\ (\A i \in 1 .. n : p[i] = q[i]) /\ p[n + 1] = Garbage
      BY <2>3, <2>4, GarbageIs
    <2>6. PICK m \in Nat : m = Len(q) BY Zenon, <1>1
    <2>7. n \in 0 .. m - 1 BY Zenon, <2>6
    <2>8. /\ n + 1 <= m
          /\ \A i \in 1 .. n + 1 : /\ Skip(i, m + 1) = i /\ i \in 1 .. m /\ (n + 1) - i <= m - i
                                   /\ i \in 1 .. n \/ i = n + 1
      BY SMTT(60), <2>6, <2>7 DEF Skip
    <2>9. Thinned(p, q, {Garbage}, m + 1) BY Zenon, <2>5, <2>6, <2>8 DEF Thinned
    <2> QED BY Zenon, <2>5, <2>6, <2>9
  <1>5. (\E n \in 0 .. Len(q) : p = SubSeq(q, 1, n))
        \/ (\E n \in 0 .. Len(q) - 1 : p = Append(SubSeq(q, 1, n), Garbage))
    BY Zenon DEF Flushed
  <1> QED BY Zenon, <1>3, <1>4, <1>5

-----------------------------------------------------------------------------
(* The line to the micro-controller. *)

LEMMA NumberIs ==
    ASSUME NEW c \in Nat, NEW h \in Nat, NEW s \in Nat
    PROVE  /\ Number(c, h, s) \in Nat
           /\ c <= Number(c, h, s) /\ Number(c, h, s) <= c + s
           /\ c <= h => Number(c, h, s) = c
           /\ c > h \/ s = 0 => Number(c, h, s) = c + s
  BY DEF Number

LEMMA BlockIs ==
    ASSUME NEW n \in Nat, NEW c \in Nat
    PROVE  Block(n, c) \in Messages /\ Block(n, c).cmd = c /\ Block(n, c).seq = n % SeqRange
  <1>1. n % SeqRange \in Bits BY Constants DEF Bits
  <1> QED BY Zenon, <1>1 DEF Block, Messages

\* The invariant of the line to the micro-controller: kept when messages are
\* lost or garbled,
LEMMA LineThins ==
    ASSUME NEW q \in Seq(Messages), NEW p \in Seq(Messages), NEW k \in Nat,
           Thinned(p, q, {Garbage}, k),
           NEW e \in Nat, NEW b \in Nat, NEW h \in Nat, NEW s \in Nat,
           Line(q, e, b, h, s)
    PROVE  Line(p, e, b, h, s)
  <1>1. ASSUME NEW j \in 1 .. Len(p), p[j].cmd # 0
        PROVE  p[j] = q[Skip(j, k)] /\ Skip(j, k) \in 1 .. Len(q) /\ q[Skip(j, k)].cmd # 0
    BY Zenon, <1>1, GarbageIs DEF Thinned
  <1>2. SUFFICES ASSUME NEW j \in 1 .. Len(p), p[j].cmd # 0
                 PROVE  /\ p[j].cmd \in 1 .. b
                        /\ p[j].seq = Number(p[j].cmd, h, s) % SeqRange
                        /\ e < Number(p[j].cmd, h, s) + SeqRange
                        /\ \A i \in 1 .. j - 1 : p[i].cmd # 0 =>
                              Number(p[i].cmd, h, s) + 1 < Number(p[j].cmd, h, s) + SeqRange
    BY Zenon DEF Line
  <1>3. PICK y \in 1 .. Len(q) : y = Skip(j, k) BY Zenon, <1>1, <1>2
  <1>4. p[j] = q[y] /\ q[y].cmd # 0 BY Zenon, <1>1, <1>2, <1>3
  <1>5. /\ q[y].cmd \in 1 .. b
        /\ q[y].seq = Number(q[y].cmd, h, s) % SeqRange
        /\ e < Number(q[y].cmd, h, s) + SeqRange
        /\ \A i \in 1 .. y - 1 : q[i].cmd # 0 =>
              Number(q[i].cmd, h, s) + 1 < Number(q[y].cmd, h, s) + SeqRange
    BY Zenon, <1>4 DEF Line
  <1>6. ASSUME NEW i \in 1 .. j - 1, p[i].cmd # 0
        PROVE  Number(p[i].cmd, h, s) + 1 < Number(p[j].cmd, h, s) + SeqRange
    <2>1. i \in 1 .. Len(p) OBVIOUS
    <2>2. PICK x \in 1 .. Len(q) : x = Skip(i, k) BY Zenon, <1>1, <1>6, <2>1
    <2>3. p[i] = q[x] /\ q[x].cmd # 0 BY Zenon, <1>1, <1>6, <2>1, <2>2
    <2>4. x \in 1 .. y - 1 BY <1>3, <2>2 DEF Skip
    <2> QED BY Zenon, <1>4, <1>5, <2>3, <2>4
  <1> QED BY Zenon, <1>4, <1>5, <1>6

\* ... when the next block is sent,
LEMMA LineAppends ==
    ASSUME NEW q \in Seq(Messages), NEW e \in Nat, NEW b \in Nat, NEW h \in Nat,
           NEW s \in Nat, h <= b,
           NEW g \in Nat, g = h \/ (g = b + 1 /\ s = 0),
           Line(q, e, b, h, s), e < b + 1 + s + SeqRange
    PROVE  Line(Append(q, Block(b + 1 + s, b + 1)), e, b + 1, g, s)
  <1> DEFINE d == Block(b + 1 + s, b + 1)
             p == Append(q, d)
  <1>0. b + 1 + s \in Nat /\ b + 1 \in Nat OBVIOUS
  <1>1. d \in Messages /\ d.cmd = b + 1 /\ d.seq = (b + 1 + s) % SeqRange
    BY Zenon, <1>0, BlockIs
  <1> HIDE DEF d
  <1>2. p \in Seq(Messages) /\ Len(p) = Len(q) + 1 /\ Len(q) \in Nat
        /\ (\A i \in 1 .. Len(q) : p[i] = q[i]) /\ p[Len(q) + 1] = d
    BY <1>1
  <1> HIDE DEF p
  <1>3. Number(b + 1, g, s) = b + 1 + s BY SMTT(60) DEF Number
  <1>4. ASSUME NEW c \in 1 .. b
        PROVE  Number(c, g, s) = Number(c, h, s) /\ Number(c, g, s) <= b + s
               /\ Number(c, g, s) \in Nat
    BY SMTT(60) DEF Number
  <1>5. ASSUME NEW i \in 1 .. Len(q), q[i].cmd # 0
        PROVE  q[i].cmd \in 1 .. b /\ Number(q[i].cmd, g, s) = Number(q[i].cmd, h, s)
               /\ Number(q[i].cmd, g, s) <= b + s /\ Number(q[i].cmd, g, s) \in Nat
    BY Zenon, <1>4, <1>5 DEF Line
  <1>6. SUFFICES ASSUME NEW j \in 1 .. Len(q) + 1, p[j].cmd # 0
                 PROVE  /\ p[j].cmd \in 1 .. b + 1
                        /\ p[j].seq = Number(p[j].cmd, g, s) % SeqRange
                        /\ e < Number(p[j].cmd, g, s) + SeqRange
                        /\ \A i \in 1 .. j - 1 : p[i].cmd # 0 =>
                              Number(p[i].cmd, g, s) + 1 < Number(p[j].cmd, g, s) + SeqRange
    BY Zenon, <1>2 DEF Line, p, d
  <1>7. CASE j = Len(q) + 1
    <2>1. p[j].cmd = b + 1 /\ p[j].seq = (b + 1 + s) % SeqRange
          /\ Number(p[j].cmd, g, s) = b + 1 + s
      BY Zenon, <1>1, <1>2, <1>3, <1>7
    <2>2. b + 1 \in 1 .. b + 1 OBVIOUS
    <2>3. ASSUME NEW i \in 1 .. j - 1, p[i].cmd # 0
          PROVE  Number(p[i].cmd, g, s) + 1 < Number(p[j].cmd, g, s) + SeqRange
      <3>1. i \in 1 .. Len(q) BY <1>7, <1>2
      <3>2. p[i] = q[i] BY Zenon, <3>1, <1>2
      <3>3. PICK n \in Nat : n = Number(p[i].cmd, g, s) /\ n <= b + s
        BY Zenon, <3>1, <3>2, <1>5, <2>3
      <3>4. n + 1 < b + 1 + s + SeqRange BY SMTT(60), <3>3, Constants
      <3> QED BY Zenon, <3>3, <3>4, <2>1
    <2> QED BY Zenon, <2>1, <2>2, <2>3
  <1>8. CASE j # Len(q) + 1
    <2>1. j \in 1 .. Len(q) BY <1>8, <1>2
    <2>2. p[j] = q[j] /\ q[j].cmd # 0 BY Zenon, <2>1, <1>2, <1>6
    <2>3. /\ q[j].cmd \in 1 .. b
          /\ q[j].seq = Number(q[j].cmd, h, s) % SeqRange
          /\ e < Number(q[j].cmd, h, s) + SeqRange
          /\ \A i \in 1 .. j - 1 : q[i].cmd # 0 =>
                Number(q[i].cmd, h, s) + 1 < Number(q[j].cmd, h, s) + SeqRange
      BY Zenon, <2>1, <2>2 DEF Line
    <2>4. 1 .. b \subseteq 1 .. b + 1 OBVIOUS
    <2>5. ASSUME NEW i \in 1 .. j - 1, p[i].cmd # 0
          PROVE  Number(p[i].cmd, g, s) + 1 < Number(p[j].cmd, g, s) + SeqRange
      <3>1. i \in 1 .. Len(q) BY <2>1
      <3>2. p[i] = q[i] /\ q[i].cmd # 0 BY Zenon, <3>1, <1>2, <2>5
      <3> QED BY Zenon, <3>1, <3>2, <2>1, <2>2, <2>3, <1>5
    <2> QED BY Zenon, <2>1, <2>2, <2>3, <2>4, <2>5, <1>5
  <1> QED BY Zenon, <1>7, <1>8

\* ... when all of sent_queue is sent again behind what is under way,
LEMMA LineSentAgain ==
    ASSUME NEW q \in Seq(Messages), NEW a \in Seq(Messages), NEW e \in Nat, NEW b \in Nat,
           NEW h \in Nat, NEW s \in Nat, NEW r \in Nat, h <= b,
           Line(q, e, b, h, s), Sent(a, r, s), e < r + SeqRange,
           r + Len(a) = b + 1 + s, Len(a) <= MaxPending, Len(a) <= b,
           s # 0 => r > h + s
    PROVE  Line(q \o a, e, b, h, s)
  <1> DEFINE p == q \o a
  <1>1. p \in Seq(Messages) /\ Len(p) = Len(q) + Len(a)
        /\ \A i \in 1 .. Len(q) + Len(a) :
              p[i] = IF i <= Len(q) THEN q[i] ELSE a[i - Len(q)]
    BY Zenon, ConcatProperties
  <1> HIDE DEF p
  <1>2. Len(q) \in Nat /\ Len(a) \in Nat OBVIOUS
  <1>3. ASSUME NEW i \in 1 .. Len(a)
        PROVE  /\ a[i].cmd = r + i - 1 - s /\ a[i].cmd \in 1 .. b
               /\ a[i].seq = (r + i - 1) % SeqRange
               /\ Number(a[i].cmd, h, s) = r + i - 1
    <2>1. r + i - 1 \in Nat /\ r + i - 1 - s \in 1 .. b /\ r + i - 1 - s \in Nat
      BY SMTT(60), <1>2
    <2>2. a[i] = Block(r + i - 1, r + i - 1 - s) BY Zenon DEF Sent
    <2>3. a[i].cmd = r + i - 1 - s /\ a[i].seq = (r + i - 1) % SeqRange
      <3>1. PICK x \in Nat, c \in Nat : x = r + i - 1 /\ c = r + i - 1 - s BY Zenon, <2>1
      <3>2. a[i] = Block(x, c) BY Zenon, <2>2, <3>1
      <3>3. Block(x, c).cmd = c /\ Block(x, c).seq = x % SeqRange BY Zenon, BlockIs
      <3> QED BY Zenon, <3>1, <3>2, <3>3
    <2>4. Number(r + i - 1 - s, h, s) = r + i - 1 BY SMTT(60), <1>2, <2>1 DEF Number
    <2> QED BY Zenon, <2>1, <2>3, <2>4
  <1>4. ASSUME NEW i \in 1 .. Len(q), q[i].cmd # 0
        PROVE  /\ q[i].cmd \in 1 .. b /\ Number(q[i].cmd, h, s) \in Nat
               /\ Number(q[i].cmd, h, s) <= b + s
    <2>1. q[i].cmd \in 1 .. b BY Zenon, <1>4 DEF Line
    <2> QED BY SMTT(60), <2>1 DEF Number
  <1>5. SUFFICES ASSUME NEW j \in 1 .. Len(q) + Len(a), p[j].cmd # 0
                 PROVE  /\ p[j].cmd \in 1 .. b
                        /\ p[j].seq = Number(p[j].cmd, h, s) % SeqRange
                        /\ e < Number(p[j].cmd, h, s) + SeqRange
                        /\ \A i \in 1 .. j - 1 : p[i].cmd # 0 =>
                              Number(p[i].cmd, h, s) + 1 < Number(p[j].cmd, h, s) + SeqRange
    BY Zenon, <1>1 DEF Line, p
  <1>6. CASE j <= Len(q)
    <2>1. j \in 1 .. Len(q) BY <1>6, <1>2
    <2>2. p[j] = q[j] /\ q[j].cmd # 0 BY Zenon, <1>1, <1>5, <1>6
    <2>3. /\ q[j].cmd \in 1 .. b
          /\ q[j].seq = Number(q[j].cmd, h, s) % SeqRange
          /\ e < Number(q[j].cmd, h, s) + SeqRange
          /\ \A i \in 1 .. j - 1 : q[i].cmd # 0 =>
                Number(q[i].cmd, h, s) + 1 < Number(q[j].cmd, h, s) + SeqRange
      BY Zenon, <2>1, <2>2 DEF Line
    <2>4. ASSUME NEW i \in 1 .. j - 1 PROVE p[i] = q[i]
      <3>1. i \in 1 .. Len(q) + Len(a) /\ i <= Len(q) BY <2>1, <1>2
      <3> QED BY Zenon, <3>1, <1>1
    <2> QED BY Zenon, <2>2, <2>3, <2>4
  <1>7. CASE ~ (j <= Len(q))
    <2>1. j - Len(q) \in 1 .. Len(a) BY <1>7, <1>2
    <2>2. PICK y \in 1 .. Len(a) : y = j - Len(q) BY Zenon, <2>1
    <2>3. p[j] = a[y] BY Zenon, <1>1, <1>7, <2>2
    <2>4. /\ p[j].cmd \in 1 .. b /\ p[j].seq = Number(p[j].cmd, h, s) % SeqRange
          /\ Number(p[j].cmd, h, s) = r + y - 1
      BY Zenon, <2>3, <1>3
    <2>5. e < (r + y - 1) + SeqRange BY SMTT(60), Constants
    <2>6. ASSUME NEW i \in 1 .. j - 1, p[i].cmd # 0
          PROVE  Number(p[i].cmd, h, s) + 1 < (r + y - 1) + SeqRange
      <3>1. i \in 1 .. Len(q) + Len(a) BY <1>2
      <3>2. CASE i <= Len(q)
        <4>1. i \in 1 .. Len(q) BY <3>2, <1>2
        <4>2. p[i] = q[i] BY Zenon, <3>1, <3>2, <1>1
        <4>3. PICK n \in Nat : n = Number(p[i].cmd, h, s) /\ n <= b + s
          BY Zenon, <4>1, <4>2, <1>4, <2>6
        <4>4. n + 1 < (r + y - 1) + SeqRange BY SMTT(60), <4>3, <1>2, Constants
        <4> QED BY Zenon, <4>3, <4>4
      <3>3. CASE ~ (i <= Len(q))
        <4>1. i - Len(q) \in 1 .. Len(a) BY <3>3, <3>1, <1>2
        <4>2. PICK x \in 1 .. Len(a) : x = i - Len(q) BY Zenon, <4>1
        <4>3. p[i] = a[x] BY Zenon, <3>1, <3>3, <1>1, <4>2
        <4>4. Number(p[i].cmd, h, s) = r + x - 1 BY Zenon, <4>3, <1>3
        <4>5. x < y BY <4>2, <2>2, <1>2
        <4>6. (r + x - 1) + 1 < (r + y - 1) + SeqRange BY SMTT(60), <4>5, Constants
        <4> QED BY Zenon, <4>4, <4>6
      <3> QED BY Zenon, <3>2, <3>3
    <2> QED BY Zenon, <2>4, <2>5, <2>6
  <1> QED BY Zenon, <1>6, <1>7

\* The micro-controller takes the first block: it bears the number expected.
LEMMA InSequenceIs ==
    ASSUME NEW q \in Seq(Messages), q # <<>>, NEW e \in Nat, NEW b \in Nat,
           NEW h \in Nat, NEW s \in Nat, h <= b, NEW r \in Nat,
           Line(q, e, b, h, s), q[1].cmd # 0, q[1].seq = e % SeqRange,
           r <= e, b + 1 + s <= r + MaxPending, s # 0 => r > h + s
    PROVE  q[1].cmd \in 1 .. b /\ q[1].cmd + s = e /\ Number(q[1].cmd, h, s) = e
  <1>0. 1 \in 1 .. Len(q) BY EmptySeq
  <1>1. /\ q[1].cmd \in 1 .. b
        /\ q[1].seq = Number(q[1].cmd, h, s) % SeqRange
        /\ e < Number(q[1].cmd, h, s) + SeqRange
    BY Zenon, <1>0 DEF Line
  <1>2. PICK c \in 1 .. b : c = q[1].cmd BY Zenon, <1>1
  <1>3. c \in Nat OBVIOUS
  <1>4. PICK n \in Nat : n = Number(c, h, s) /\ n <= c + s /\ (c <= h => n = c)
                         /\ (c > h \/ s = 0 => n = c + s)
    <2>1. /\ Number(c, h, s) \in Nat /\ Number(c, h, s) <= c + s
          /\ c <= h => Number(c, h, s) = c
          /\ c > h \/ s = 0 => Number(c, h, s) = c + s
      BY SMTT(60), <1>3 DEF Number
    <2> QED BY Zenon, <2>1
  <1>5. e < n + SeqRange /\ n % SeqRange = e % SeqRange BY Zenon, <1>1, <1>2, <1>4
  <1>6. n < e + SeqRange /\ SeqRange \in Nat /\ SeqRange > 0 /\ n \in Int /\ e \in Int
    BY SMTT(60), <1>4, Constants
  <1>7. n = e BY Zenon, <1>5, <1>6, SameNumber
  <1>8. c + s = e BY SMTT(60), <1>4, <1>7
  <1> QED BY Zenon, <1>2, <1>4, <1>7, <1>8

\* ... when the block expected is taken,
LEMMA LineExpects ==
    ASSUME NEW q \in Seq(Messages), q # <<>>, NEW e \in Nat, NEW b \in Nat,
           NEW h \in Nat, NEW s \in Nat,
           Line(q, e, b, h, s), q[1].cmd # 0, Number(q[1].cmd, h, s) = e
    PROVE  Line(Tail(q), e + 1, b, h, s)
  <1>1. Tail(q) \in Seq(Messages) /\ Thinned(Tail(q), q, {Garbage}, 1)
        /\ Len(Tail(q)) = Len(q) - 1 /\ \A i \in 1 .. Len(Tail(q)) : Tail(q)[i] = q[i + 1]
    BY Zenon, TailThins
  <1>2. 1 \in Nat /\ Len(q) \in Nat OBVIOUS
  <1>3. Line(Tail(q), e, b, h, s)
    <2>1. PICK p \in Seq(Messages) : p = Tail(q) BY Zenon, <1>1
    <2>2. Thinned(p, q, {Garbage}, 1) BY Zenon, <1>1, <2>1
    <2>3. Line(p, e, b, h, s) BY Zenon, <1>2, <2>2, LineThins
    <2> QED BY Zenon, <2>1, <2>3
  <1>4. ASSUME NEW j \in 1 .. Len(Tail(q)), Tail(q)[j].cmd # 0
        PROVE  e + 1 < Number(Tail(q)[j].cmd, h, s) + SeqRange
    <2>1. j + 1 \in 1 .. Len(q) /\ 1 \in 1 .. (j + 1) - 1 BY SMTT(60), <1>1, <1>2
    <2>2. Tail(q)[j] = q[j + 1] BY Zenon, <1>1
    <2>3. Number(q[1].cmd, h, s) + 1 < Number(q[j + 1].cmd, h, s) + SeqRange
      BY Zenon, <2>1, <2>2, <1>4 DEF Line
    <2> QED BY Zenon, <2>2, <2>3
  <1> QED BY Zenon, <1>3, <1>4 DEF Line

\* ... and when the host adopts the numbering of the micro-controller.
LEMMA LineAdopts ==
    ASSUME NEW q \in Seq(Messages), NEW e \in Nat, NEW b \in Nat, NEW s \in Nat, NEW t \in Nat,
           Line(q, e, b, b, s)
    PROVE  Line(q, e, b, b, t)
  <1>1. ASSUME NEW c \in 1 .. b PROVE Number(c, b, s) = Number(c, b, t)
    BY SMTT(60) DEF Number
  <1>2. \A i \in 1 .. Len(q) : q[i].cmd # 0 => Number(q[i].cmd, b, s) = Number(q[i].cmd, b, t)
    BY Zenon, <1>1 DEF Line
  <1>3. \A j \in 1 .. Len(q) : \A i \in 1 .. j - 1 : i \in 1 .. Len(q) OBVIOUS
  <1> QED BY Zenon, <1>2, <1>3 DEF Line

-----------------------------------------------------------------------------
(* The line to the host. *)

LEMMA ThinnedIs ==
    ASSUME NEW q \in Seq(Messages), NEW p \in Seq(Messages), NEW k \in Nat,
           Thinned(p, q, {}, k)
    PROVE  /\ \A j \in 1 .. Len(p) : Skip(j, k) \in 1 .. Len(q) /\ p[j] = q[Skip(j, k)]
           /\ \A j \in 1 .. Len(p) : \A i \in 1 .. j - 1 :
                 i \in 1 .. Len(p) /\ Skip(i, k) \in 1 .. Skip(j, k) - 1
  <1>1. \A j \in 1 .. Len(p) : Skip(j, k) \in 1 .. Len(q) /\ p[j] = q[Skip(j, k)]
    BY Zenon DEF Thinned
  <1>2. Len(p) \in Nat OBVIOUS
  <1> QED BY <1>1, <1>2 DEF Skip

\* The same for the line to the host.
LEMMA RepliesThins ==
    ASSUME NEW q \in Seq(Messages), NEW p \in Seq(Messages), NEW k \in Nat,
           Thinned(p, q, {}, k),
           NEW r, NEW e, NEW f, NEW b, NEW s, Replies(q, r, e, f, b, s)
    PROVE  Replies(p, r, e, f, b, s)
  <1>1. \A j \in 1 .. Len(p) : Skip(j, k) \in 1 .. Len(q) /\ p[j] = q[Skip(j, k)]
    BY Zenon, ThinnedIs
  <1>2. \A j \in 1 .. Len(p) : \A i \in 1 .. j - 1 :
           i \in 1 .. Len(p) /\ Skip(i, k) \in 1 .. Skip(j, k) - 1
    BY Zenon, ThinnedIs
  <1> QED BY Zenon, <1>1, <1>2 DEF Replies

LEMMA FreshThins ==
    ASSUME NEW q \in Seq(Messages), NEW p \in Seq(Messages), NEW k \in Nat,
           Thinned(p, q, {}, k), NEW r, NEW e, Fresh(q, r, e)
    PROVE  Fresh(p, r, e)
  <1>1. \A j \in 1 .. Len(p) : Skip(j, k) \in 1 .. Len(q) /\ p[j] = q[Skip(j, k)]
    BY Zenon, ThinnedIs
  <1> QED BY Zenon, <1>1 DEF Fresh

LEMMA UnconfirmedThins ==
    ASSUME NEW q \in Seq(Messages), NEW p \in Seq(Messages), NEW k \in Nat,
           Thinned(p, q, {}, k),
           NEW n, NEW h, NEW s, NEW f, Unconfirmed(q, n, h, s, f)
    PROVE  Unconfirmed(p, n, h, s, f)
  <1>1. \A j \in 1 .. Len(p) : Skip(j, k) \in 1 .. Len(q) /\ p[j] = q[Skip(j, k)]
    BY Zenon, ThinnedIs
  <1> QED BY Zenon, <1>1 DEF Unconfirmed

LEMMA RepliesRise ==
    ASSUME NEW q \in Seq(Messages), NEW r \in Nat, NEW e \in Nat, NEW f \in Int, NEW b \in Nat,
           NEW s \in Nat, NEW e2 \in Nat, NEW f2 \in Int, NEW b2 \in Nat,
           e <= e2, f <= f2, b <= b2, Replies(q, r, e, f, b, s)
    PROVE  Replies(q, r, e2, f2, b2, s)
  <1>1. \A j \in 1 .. Len(q) : FullFrom(r, q[j].seq) \in Nat /\ q[j].cmd \in Nat
    BY Zenon, OnLine, FullFromIs
  <1>2. \A x \in Nat : (x <= e => x <= e2) /\ (x <= f => x <= f2) /\ (x <= b => x <= b2)
    OBVIOUS
  <1> QED BY Zenon, <1>1, <1>2 DEF Replies

LEMMA RepliesAppend ==
    ASSUME NEW q \in Seq(Messages), NEW r \in Nat, NEW e \in Nat, NEW f \in Int, NEW b \in Nat,
           NEW s \in Nat, NEW x \in Bits, NEW d \in Nat,
           Replies(q, r, e, f, b, s), FullFrom(r, x) = e,
           d = 0 => e <= f,
           d \in 1 .. MaxBlocks => d <= b /\ e = d + s + 1 /\ f < e
    PROVE  Append(q, Reply(x, d)) \in Seq(Messages) /\ Replies(Append(q, Reply(x, d)), r, e, f, b, s)
  <1> DEFINE m == Reply(x, d)
             p == Append(q, m)
  <1>1. m \in Messages /\ m.seq = x /\ m.cmd = d BY Zenon DEF Reply, Messages
  <1> HIDE DEF m
  <1>2. p \in Seq(Messages) /\ Len(p) = Len(q) + 1 /\ Len(q) \in Nat
        /\ (\A i \in 1 .. Len(q) : p[i] = q[i]) /\ p[Len(q) + 1] = m
    BY <1>1
  <1> HIDE DEF p
  <1>3. \A j \in 1 .. Len(q) : FullFrom(r, q[j].seq) \in Nat /\ q[j].cmd \in Nat
    BY Zenon, OnLine, FullFromIs
  <1>4. SUFFICES ASSUME NEW j \in 1 .. Len(q) + 1
        PROVE  /\ FullFrom(r, p[j].seq) <= e
               /\ p[j].cmd = 0 => FullFrom(r, p[j].seq) <= f
               /\ p[j].cmd \in 1 .. MaxBlocks =>
                     /\ p[j].cmd <= b
                     /\ FullFrom(r, p[j].seq) = p[j].cmd + s + 1
               /\ \A i \in 1 .. j - 1 :
                     /\ FullFrom(r, p[i].seq) <= FullFrom(r, p[j].seq)
                     /\ p[i].cmd = 0 /\ p[j].cmd \in 1 .. MaxBlocks
                          => FullFrom(r, p[i].seq) < FullFrom(r, p[j].seq)
    BY Zenon, <1>2 DEF Replies, p, m
  <1>5. CASE j = Len(q) + 1
    <2>1. p[j].cmd = d /\ FullFrom(r, p[j].seq) = e BY Zenon, <1>1, <1>2, <1>5
    <2>2. ASSUME NEW i \in 1 .. j - 1
          PROVE  /\ FullFrom(r, p[i].seq) <= e
                 /\ p[i].cmd = 0 /\ d \in 1 .. MaxBlocks => FullFrom(r, p[i].seq) < e
      <3>1. i \in 1 .. Len(q) BY <1>5, <1>2
      <3>2. p[i] = q[i] /\ q[i].cmd \in Nat BY Zenon, <3>1, <1>2, <1>3
      <3>3. PICK w \in Nat : w = FullFrom(r, q[i].seq) BY Zenon, <3>1, <1>3
      <3>4. w <= e /\ (q[i].cmd = 0 => w <= f) BY Zenon, <3>1, <3>3 DEF Replies
      <3>5. w <= f /\ f < e => w < e OBVIOUS
      <3> QED BY Zenon, <3>2, <3>3, <3>4, <3>5
    <2>3. e <= e OBVIOUS
    <2> QED BY Zenon, <2>1, <2>2, <2>3
  <1>6. CASE j # Len(q) + 1
    <2>1. j \in 1 .. Len(q) BY <1>6, <1>2
    <2>2. p[j] = q[j] BY Zenon, <2>1, <1>2
    <2>3. ASSUME NEW i \in 1 .. j - 1 PROVE p[i] = q[i]
      <3>1. i \in 1 .. Len(q) BY <2>1
      <3> QED BY Zenon, <3>1, <1>2
    <2> QED BY Zenon, <2>1, <2>2, <2>3 DEF Replies
  <1> QED BY Zenon, <1>5, <1>6

LEMMA UnconfirmedAppend ==
    ASSUME NEW q \in Seq(Messages), NEW x \in Bits, NEW d \in Nat,
           NEW n, NEW h \in Nat, NEW s \in Nat, NEW f \in Int, Unconfirmed(q, n, h, s, f),
           d \in h + 1 .. MaxBlocks => d \notin n
    PROVE  Unconfirmed(Append(q, Reply(x, d)), n, h, s, f)
  <1> DEFINE m == Reply(x, d)
             p == Append(q, m)
  <1>1. m \in Messages /\ m.cmd = d BY Zenon DEF Reply, Messages
  <1> HIDE DEF m
  <1>2. p \in Seq(Messages) /\ Len(p) = Len(q) + 1 /\ Len(q) \in Nat
        /\ (\A i \in 1 .. Len(q) : p[i] = q[i]) /\ p[Len(q) + 1] = m
    BY <1>1
  <1> HIDE DEF p
  <1>3. \A j \in 1 .. Len(q) + 1 : j \in 1 .. Len(q) \/ j = Len(q) + 1 BY <1>2
  <1>4. \A j \in 1 .. Len(p) : p[j].cmd \in h + 1 .. MaxBlocks => p[j].cmd \notin n
    BY Zenon, <1>1, <1>2, <1>3 DEF Unconfirmed
  <1>5. \A c \in n : c > h => c + s < f BY Zenon DEF Unconfirmed
  <1> QED BY Zenon, <1>4, <1>5 DEF Unconfirmed, p, m

LEMMA FreshAppend ==
    ASSUME NEW q \in Seq(Messages), NEW x \in Bits, NEW d \in Nat,
           NEW r, NEW e, Fresh(q, r, e), FullFrom(r, x) = e
    PROVE  Fresh(Append(q, Reply(x, d)), r, e)
  <1> DEFINE m == Reply(x, d)
             p == Append(q, m)
  <1>1. m \in Messages /\ m.seq = x BY Zenon DEF Reply, Messages
  <1> HIDE DEF m
  <1>2. p \in Seq(Messages) /\ Len(p) = Len(q) + 1 /\ Len(q) \in Nat
        /\ (\A i \in 1 .. Len(q) : p[i] = q[i]) /\ p[Len(q) + 1] = m
    BY <1>1
  <1> HIDE DEF p
  <1>3. \A j \in 1 .. Len(q) + 1 : j \in 1 .. Len(q) \/ j = Len(q) + 1 BY <1>2
  <1>4. \A j \in 1 .. Len(p) : FullFrom(r, p[j].seq) = e
    BY Zenon, <1>1, <1>2, <1>3 DEF Fresh
  <1> QED BY Zenon, <1>4 DEF Fresh, p, m

\* receive_seq moves up to the first reply.
LEMMA RepliesMove ==
    ASSUME NEW q \in Seq(Messages), NEW r \in Nat, NEW e, NEW f, NEW b, NEW s,
           NEW t \in Nat, r <= t, \A j \in 1 .. Len(q) : t <= FullFrom(r, q[j].seq)
    PROVE  /\ Replies(q, r, e, f, b, s) => Replies(q, t, e, f, b, s)
           /\ Fresh(q, r, e) => Fresh(q, t, e)
  <1>1. \A j \in 1 .. Len(q) : FullFrom(t, q[j].seq) = FullFrom(r, q[j].seq)
    BY Zenon, OnLine, FullFromKept
  <1>2. \A j \in 1 .. Len(q) : \A i \in 1 .. j - 1 : i \in 1 .. Len(q) OBVIOUS
  <1> QED BY Zenon, <1>1, <1>2 DEF Replies, Fresh

\* The numbering of the micro-controller is adopted.
LEMMA RepliesAdopt ==
    ASSUME NEW q \in Seq(Messages), NEW r \in Nat, NEW e, NEW f, NEW b \in Nat,
           NEW s \in Nat, NEW t, \A j \in 1 .. Len(q) : b + s + 1 < FullFrom(r, q[j].seq),
           Replies(q, r, e, f, b, s)
    PROVE  Replies(q, r, e, f, b, t)
  <1>1. ASSUME NEW j \in 1 .. Len(q) PROVE q[j].cmd \notin 1 .. MaxBlocks
    <2>1. SUFFICES ASSUME q[j].cmd \in 1 .. MaxBlocks PROVE FALSE OBVIOUS
    <2>2. q[j].cmd \in Nat BY Zenon, OnLine
    <2>3. PICK c \in Nat : c = q[j].cmd BY Zenon, <2>2
    <2>4. c <= b /\ FullFrom(r, q[j].seq) = c + s + 1 BY Zenon, <2>1, <2>3 DEF Replies
    <2>5. b + s + 1 < c + s + 1 BY Zenon, <2>4
    <2> QED BY <2>4, <2>5
  <1> QED BY Zenon, <1>1 DEF Replies

-----------------------------------------------------------------------------
(* The host's queues. *)

\* sent_queue holds consecutive blocks, and so does notify_queue.
LEMMA SentAppends ==
    ASSUME NEW q \in Seq(Messages), NEW r \in Nat, NEW s \in Nat, Sent(q, r, s),
           r + Len(q) - s \in Nat
    PROVE  LET p == Append(q, Block(r + Len(q), r + Len(q) - s)) IN
           p \in Seq(Messages) /\ Len(p) = Len(q) + 1 /\ Sent(p, r, s)
  <1> DEFINE d == Block(r + Len(q), r + Len(q) - s)
             p == Append(q, d)
  <1>0. Len(q) \in Nat OBVIOUS
  <1>1. d \in Messages BY <1>0, BlockIs
  <1>2. d = Block(r + (Len(q) + 1) - 1, r + (Len(q) + 1) - 1 - s)
    <2>1. r + (Len(q) + 1) - 1 = r + Len(q) /\ r + (Len(q) + 1) - 1 - s = r + Len(q) - s
      BY <1>0
    <2> QED BY Zenon, <2>1
  <1> HIDE DEF d
  <1>3. p \in Seq(Messages) /\ Len(p) = Len(q) + 1
        /\ (\A i \in 1 .. Len(q) : p[i] = q[i]) /\ p[Len(q) + 1] = d
    BY <1>1
  <1> HIDE DEF p
  <1>4. \A i \in 1 .. Len(q) + 1 : i \in 1 .. Len(q) \/ i = Len(q) + 1 BY <1>0
  <1>5. Sent(p, r, s) BY Zenon, <1>2, <1>3, <1>4 DEF Sent
  <1> QED BY Zenon, <1>3, <1>5 DEF p, d

LEMMA SentCut ==
    ASSUME NEW q \in Seq(Messages), NEW r \in Nat, NEW s \in Nat, Sent(q, r, s),
           NEW n \in 0 .. Len(q)
    PROVE  LET p == SubSeq(q, n + 1, Len(q)) IN
           p \in Seq(Messages) /\ Len(p) = Len(q) - n /\ Sent(p, r + n, s)
  <1> DEFINE p == SubSeq(q, n + 1, Len(q))
  <1>1. p \in Seq(Messages) /\ Len(p) = Len(q) - n /\ Len(q) \in Nat
        /\ \A i \in 1 .. Len(q) - n : p[i] = q[i + n]
    OBVIOUS
  <1> HIDE DEF p
  <1>2. ASSUME NEW i \in 1 .. Len(q) - n
        PROVE  p[i] = Block((r + n) + i - 1, (r + n) + i - 1 - s)
    <2>1. i + n \in 1 .. Len(q) /\ r + (i + n) - 1 = (r + n) + i - 1
          /\ r + (i + n) - 1 - s = (r + n) + i - 1 - s
      BY <1>1
    <2>2. q[i + n] = Block(r + (i + n) - 1, r + (i + n) - 1 - s) BY Zenon, <2>1 DEF Sent
    <2> QED BY Zenon, <1>1, <2>1, <2>2
  <1>3. Sent(p, r + n, s) BY Zenon, <1>1, <1>2 DEF Sent
  <1> QED BY Zenon, <1>1, <1>3 DEF p

LEMMA PendingAppends ==
    ASSUME NEW q \in Seq(Entries), NEW b \in Nat, NEW h \in Nat, NEW s \in Nat,
           h <= b, NEW g \in Nat, g = h \/ (g = b + 1 /\ s = 0), Pending(q, b, h, s)
    PROVE  LET p == Append(q, [cmd |-> b + 1, seq |-> b + 1 + s]) IN
           p \in Seq(Entries) /\ Len(p) = Len(q) + 1 /\ Pending(p, b + 1, g, s)
  <1> DEFINE d == [cmd |-> b + 1, seq |-> b + 1 + s]
             p == Append(q, d)
  <1>0. Len(q) \in Nat /\ b + 1 \in Nat /\ b + 1 + s \in Nat OBVIOUS
  <1>1. d \in Entries BY Zenon, <1>0 DEF Entries
  <1>2. Number(b + 1, g, s) = b + 1 + s BY SMTT(60) DEF Number
  <1>3. d = [cmd |-> b + 1, seq |-> Number(b + 1, g, s)] BY Zenon, <1>2
  <1>4. \A c \in 1 .. b : Number(c, g, s) = Number(c, h, s) BY SMTT(60) DEF Number
  <1> HIDE DEF d
  <1>5. p \in Seq(Entries) /\ Len(p) = Len(q) + 1
        /\ (\A i \in 1 .. Len(q) : p[i] = q[i]) /\ p[Len(q) + 1] = d
    BY <1>1
  <1> HIDE DEF p
  <1>6. Len(q) <= b BY Zenon DEF Pending
  <1>7. ASSUME NEW i \in 1 .. Len(q) + 1
        PROVE  p[i] = [cmd |-> (b + 1) - Len(p) + i,
                       seq |-> Number((b + 1) - Len(p) + i, g, s)]
    <2>1. CASE i \in 1 .. Len(q)
      <3>1. PICK c \in 1 .. b : c = b - Len(q) + i /\ c = (b + 1) - Len(p) + i
        <4>1. b - Len(q) + i \in 1 .. b /\ b - Len(q) + i = (b + 1) - Len(p) + i
          BY SMTT(60), <2>1, <1>0, <1>5, <1>6
        <4> QED BY Zenon, <4>1
      <3>2. q[i] = [cmd |-> c, seq |-> Number(c, h, s)] BY Zenon, <2>1, <3>1 DEF Pending
      <3> QED BY Zenon, <3>1, <3>2, <2>1, <1>4, <1>5
    <2>2. CASE i = Len(q) + 1
      <3>1. (b + 1) - Len(p) + i = b + 1 BY SMTT(60), <2>2, <1>0, <1>5
      <3> QED BY Zenon, <3>1, <2>2, <1>3, <1>5
    <2> QED BY <2>1, <2>2, <1>0
  <1>8. Len(p) <= b + 1 BY <1>0, <1>5, <1>6
  <1>9. Pending(p, b + 1, g, s) BY Zenon, <1>5, <1>7, <1>8 DEF Pending
  <1> QED BY Zenon, <1>5, <1>9 DEF p, d

LEMMA PendingCut ==
    ASSUME NEW q \in Seq(Entries), NEW b \in Nat, NEW h, NEW s, Pending(q, b, h, s),
           NEW n \in 0 .. Len(q)
    PROVE  LET p == SubSeq(q, n + 1, Len(q)) IN
           p \in Seq(Entries) /\ Len(p) = Len(q) - n /\ Pending(p, b, h, s)
  <1> DEFINE p == SubSeq(q, n + 1, Len(q))
  <1>1. p \in Seq(Entries) /\ Len(p) = Len(q) - n /\ Len(q) \in Nat
        /\ \A i \in 1 .. Len(q) - n : p[i] = q[i + n]
    OBVIOUS
  <1> HIDE DEF p
  <1>2. Len(q) <= b BY Zenon DEF Pending
  <1>3. ASSUME NEW i \in 1 .. Len(q) - n
        PROVE  p[i] = [cmd |-> b - Len(p) + i, seq |-> Number(b - Len(p) + i, h, s)]
    <2>1. i + n \in 1 .. Len(q) /\ b - Len(q) + (i + n) = b - Len(p) + i BY <1>1
    <2> QED BY Zenon, <1>1, <2>1 DEF Pending
  <1>4. Len(p) <= b BY <1>1, <1>2
  <1>5. Pending(p, b, h, s) BY Zenon, <1>1, <1>3, <1>4 DEF Pending
  <1> QED BY Zenon, <1>1, <1>5 DEF p

LEMMA PendingIs ==
    ASSUME NEW q \in Seq(Entries), NEW b \in Nat, NEW h \in Nat, NEW s \in Nat,
           Pending(q, b, h, s), NEW i \in 1 .. Len(q)
    PROVE  /\ q[i].cmd = b - Len(q) + i /\ q[i].cmd \in 1 .. b
           /\ q[i].seq = Number(q[i].cmd, h, s)
  <1>1. Len(q) \in Nat /\ Len(q) <= b BY Zenon, LenProperties DEF Pending
  <1>2. b - Len(q) + i \in 1 .. b BY <1>1
  <1>3. q[i] = [cmd |-> b - Len(q) + i, seq |-> Number(b - Len(q) + i, h, s)]
    BY Zenon DEF Pending
  <1>4. q[i].cmd = b - Len(q) + i /\ q[i].seq = Number(b - Len(q) + i, h, s)
    BY <1>3
  <1> QED BY Zenon, <1>2, <1>4

LEMMA PendingAdopts ==
    ASSUME NEW q \in Seq(Entries), NEW b \in Nat, NEW s \in Nat, NEW t \in Nat,
           Pending(q, b, b, s)
    PROVE  Pending(q, b, b, t)
  <1>1. Len(q) \in Nat /\ Len(q) <= b BY Zenon, LenProperties DEF Pending
  <1>2. \A c \in 1 .. b : Number(c, b, s) = Number(c, b, t) BY SMTT(60) DEF Number
  <1>3. \A i \in 1 .. Len(q) : b - Len(q) + i \in 1 .. b BY <1>1
  <1> QED BY Zenon, <1>2, <1>3 DEF Pending

\* The type invariant, by parts.
LEMMA Types ==
    ASSUME Typed
    PROVE  /\ built \in Nat /\ built <= MaxBlocks /\ handshake \in Nat /\ handshake <= built
           /\ sendSeq \in Nat /\ receiveSeq \in Nat /\ receiveSeq # 0
           /\ lastAckSeq \in Nat /\ ignoreNakSeq \in Nat /\ retransmitSeq \in Nat
           /\ nextSequence \in Bits /\ busy \in Nat /\ busy <= built
           /\ Shift \in Nat /\ sendSeq = built + 1 + Shift
           /\ notified \subseteq 1 .. built /\ answered \subseteq 1 .. built
           /\ timer \in {"never", "armed", "now"} /\ needValid \in BOOLEAN
  <1>1. /\ built \in 0 .. MaxBlocks /\ handshake \in 0 .. built
        /\ {sendSeq, receiveSeq, lastAckSeq, ignoreNakSeq, retransmitSeq} \subseteq Nat
        /\ nextSequence \in Bits /\ busy \in 0 .. built /\ Shift \in Nat /\ receiveSeq # 0
        /\ notified \subseteq 1 .. built /\ answered \subseteq 1 .. built
        /\ timer \in {"never", "armed", "now"} /\ needValid \in BOOLEAN
    BY Zenon DEF Typed, TypeOK, Seqs, Bits
  <1>2. sendSeq \in Nat /\ receiveSeq \in Nat /\ lastAckSeq \in Nat /\ ignoreNakSeq \in Nat
        /\ retransmitSeq \in Nat
    BY Zenon, <1>1
  <1>3. built \in Nat /\ built <= MaxBlocks /\ handshake \in Nat /\ handshake <= built
        /\ busy \in Nat /\ busy <= built
    BY SMTT(60), <1>1, Constants
  <1>4. sendSeq = built + 1 + Shift BY SMTT(60), <1>2, <1>3 DEF Shift
  <1> QED BY Zenon, <1>1, <1>2, <1>3, <1>4

LEMMA ExpectedIs ==
    ASSUME Typed
    PROVE  /\ Expected \in Nat /\ receiveSeq <= Expected
           /\ Expected < receiveSeq + SeqRange /\ Expected % SeqRange = nextSequence
           /\ Floor \in Int /\ Floor <= Expected
           /\ busy = 0 => Floor = Expected
           /\ busy # 0 => Floor + 1 = Expected
  <1>1. /\ Expected \in Nat /\ receiveSeq <= Expected
        /\ Expected < receiveSeq + SeqRange /\ Expected % SeqRange = nextSequence
    BY Zenon, Types, FullFromIs DEF Expected
  <1>2. Floor = IF busy = 0 THEN Expected ELSE Expected - 1 BY Zenon DEF Floor
  <1>3. PICK e \in Nat : e = Expected BY Zenon, <1>1
  <1> QED BY SMTT(60), <1>1, <1>2, <1>3

LEMMA Build ==
    ASSUME Inv, build_and_send_command
    PROVE  Inv'
  <1>1. Typed BY Zenon DEF Inv
  <1>2. /\ built \in Nat /\ built <= MaxBlocks /\ handshake \in Nat /\ handshake <= built
        /\ sendSeq \in Nat /\ receiveSeq \in Nat /\ receiveSeq # 0
        /\ Shift \in Nat /\ sendSeq = built + 1 + Shift
        /\ notified \subseteq 1 .. built /\ answered \subseteq 1 .. built
    BY Zenon, <1>1, Types
  <1>3. /\ Expected \in Nat /\ Expected < receiveSeq + SeqRange /\ Floor \in Int
    BY Zenon, <1>1, ExpectedIs
  <1>4. /\ built < MaxBlocks /\ SeqWindow
        /\ built' = built + 1 /\ sendSeq' = sendSeq + 1
        /\ handshake' = IF receiveSeq = 1 THEN built + 1 ELSE handshake
        /\ sentQueue' = Append(sentQueue, Block(sendSeq, built + 1))
        /\ toMcu' = Append(toMcu, Block(sendSeq, built + 1))
        /\ notifyQueue' = Append(notifyQueue, [cmd |-> built + 1, seq |-> sendSeq])
        /\ timer' = IF sentQueue = <<>> THEN "armed" ELSE timer
        /\ receiveSeq' = receiveSeq /\ lastAckSeq' = lastAckSeq
        /\ ignoreNakSeq' = ignoreNakSeq /\ retransmitSeq' = retransmitSeq
        /\ lastAckBytes' = lastAckBytes /\ toHost' = toHost
        /\ nextSequence' = nextSequence /\ needValid' = needValid /\ busy' = busy
        /\ executed' = executed /\ notified' = notified /\ answered' = answered
    BY Zenon DEF build_and_send_command, mcu, seen
  <1>5. Shift' = Shift BY SMTT(60), <1>2, <1>4 DEF Shift
  <1>6. Expected' = Expected /\ Floor' = Floor BY Zenon, <1>4 DEF Expected, Floor
  <1>7. Window(sentQueue, receiveSeq, built, handshake, Expected, Shift) BY Zenon DEF Inv
  <1>8. PICK b \in Nat, h \in Nat, r \in Nat, e \in Nat, s \in Nat :
           b = built /\ h = handshake /\ r = receiveSeq /\ e = Expected /\ s = Shift
    BY Zenon, <1>2, <1>3
  <1>9. PICK g \in Nat : g = handshake'
    <2>1. handshake' \in Nat BY <1>2, <1>4
    <2> QED BY Zenon, <2>1
  <1>10. /\ r + Len(sentQueue) = b + 1 + s /\ Len(sentQueue) <= b
         /\ r = 1 => h = b /\ s = 0
         /\ s # 0 => r > h + s
         /\ r # 1 => e <= b + 1 + s
         /\ Sent(sentQueue, r, s)
    BY Zenon, <1>7, <1>8 DEF Window
  <1>11. /\ sentQueue \in Seq(Messages) /\ toMcu \in Seq(Messages) /\ toHost \in Seq(Messages)
         /\ notifyQueue \in Seq(Entries) /\ executed \in Seq(Nat)
    BY Zenon, <1>1 DEF Typed
  <1>12. Len(sentQueue) \in Nat BY Zenon, <1>11, LenProperties
  <1>13. PICK l \in Nat : l = Len(sentQueue) BY Zenon, <1>12
  <1>14. /\ h <= b /\ r # 0 /\ e < r + SeqRange /\ sendSeq = b + 1 + s
    BY Zenon, <1>2, <1>3, <1>8
  <1>15. g = IF r = 1 THEN b + 1 ELSE h BY Zenon, <1>4, <1>8, <1>9
  <1>16. l < MaxPending
    <2>1. sendSeq - receiveSeq < MaxPending BY Zenon, <1>4 DEF SeqWindow
    <2>2. (b + 1 + s) - r < MaxPending BY Zenon, <2>1, <1>8, <1>14
    <2>3. r + l = b + 1 + s BY Zenon, <1>10, <1>13
    <2> QED BY SMTT(60), <2>2, <2>3, Constants
  <1>17. g <= b + 1 /\ (g = h \/ (g = b + 1 /\ s = 0)) /\ h <= g
    BY SMTT(60), <1>10, <1>14, <1>15
  <1>18. /\ sentQueue' \in Seq(Messages) /\ Len(sentQueue') = l + 1
         /\ Sent(sentQueue', r, s)
    <2>1. r + Len(sentQueue) = sendSeq BY Zenon, <1>10, <1>14
    <2>2. r + Len(sentQueue) - s = b + 1 /\ r + Len(sentQueue) - s \in Nat
      BY SMTT(60), <1>10, <1>12
    <2>3. sentQueue' = Append(sentQueue, Block(r + Len(sentQueue), r + Len(sentQueue) - s))
      BY Zenon, <2>1, <2>2, <1>4, <1>8
    <2>4. /\ Append(sentQueue, Block(r + Len(sentQueue), r + Len(sentQueue) - s)) \in Seq(Messages)
          /\ Len(Append(sentQueue, Block(r + Len(sentQueue), r + Len(sentQueue) - s)))
                = Len(sentQueue) + 1
          /\ Sent(Append(sentQueue, Block(r + Len(sentQueue), r + Len(sentQueue) - s)), r, s)
      <3>1. sentQueue \in Seq(Messages) /\ Sent(sentQueue, r, s) BY Zenon, <1>10, <1>11
      <3>2. r + Len(sentQueue) - s \in Nat BY Zenon, <2>2
      <3> QED BY Zenon, <3>1, <3>2, SentAppends
    <2> QED BY Zenon, <2>3, <2>4, <1>13
  <1>19. Window(sentQueue', r, b + 1, g, e, s)
    <2>1. /\ r + (l + 1) = (b + 1) + 1 + s /\ l + 1 <= MaxPending /\ l + 1 <= b + 1
          /\ r = 1 => g = b + 1 /\ s = 0
          /\ s # 0 => r > g + s
          /\ r # 1 => e <= (b + 1) + 1 + s
      BY SMTT(60), <1>10, <1>13, <1>14, <1>15, <1>16, Constants
    <2> QED BY Zenon, <2>1, <1>18 DEF Window
  <1>20. /\ toMcu' \in Seq(Messages) /\ Line(toMcu', e, b + 1, g, s)
    <2>1. Line(toMcu, e, b, h, s) BY Zenon, <1>8 DEF Inv
    <2>2. e < b + 1 + s + SeqRange BY SMTT(60), <1>10, <1>13, <1>14, Constants
    <2>3. toMcu' = Append(toMcu, Block(b + 1 + s, b + 1)) BY Zenon, <1>4, <1>8, <1>14
    <2>4. Line(toMcu', e, b + 1, g, s)
      BY Zenon, <2>1, <2>2, <2>3, <1>11, <1>14, <1>17, LineAppends
    <2>5. b + 1 + s \in Nat /\ b + 1 \in Nat OBVIOUS
    <2>6. Block(b + 1 + s, b + 1) \in Messages BY Zenon, <2>5, BlockIs
    <2>7. toMcu' \in Seq(Messages) BY Zenon, <2>3, <2>6, <1>11, Appended
    <2> QED BY Zenon, <2>4, <2>7
  <1>21. notifyQueue' \in Seq(Entries) /\ Pending(notifyQueue', b + 1, g, s)
    <2>1. Pending(notifyQueue, b, h, s) BY Zenon, <1>8 DEF Inv
    <2>2. notifyQueue' = Append(notifyQueue, [cmd |-> b + 1, seq |-> b + 1 + s])
      BY Zenon, <1>4, <1>8, <1>14
    <2> QED BY Zenon, <2>1, <2>2, <1>11, <1>14, <1>17, PendingAppends
  <1>22. Taken(busy, executed, b + 1, g, e, s)
    <2>1. Taken(busy, executed, b, h, e, s) BY Zenon, <1>8 DEF Inv
    <2>2. 1 .. b \subseteq 1 .. b + 1 OBVIOUS
    <2>3. ASSUME NEW c \in g + 1 .. b + 1, c + s < e PROVE c \in h + 1 .. b
      BY SMTT(60), <2>3, <1>10, <1>15, <1>17
    <2> QED BY Zenon, <2>1, <2>2, <2>3 DEF Taken
  <1>23. Replies(toHost, r, e, Floor, b + 1, s)
    <2>1. Replies(toHost, r, e, Floor, b, s) BY Zenon, <1>8 DEF Inv
    <2>2. e <= e /\ b <= b + 1 /\ b + 1 \in Nat /\ Floor <= Floor BY SMTT(60), <1>3
    <2> QED BY Zenon, <2>1, <2>2, <1>3, <1>11, RepliesRise
  <1>24. Unconfirmed(toHost, notified, g, s, Floor)
    <2>1. Unconfirmed(toHost, notified, h, s, Floor) BY Zenon, <1>8 DEF Inv
    <2>2. ASSUME NEW c \in notified, c > g PROVE c > h BY SMTT(60), <2>2, <1>2, <1>8, <1>17
    <2>3. ASSUME NEW c \in g + 1 .. MaxBlocks PROVE c \in h + 1 .. MaxBlocks
      BY SMTT(60), <1>17, Constants
    <2> QED BY Zenon, <2>1, <2>2, <2>3 DEF Unconfirmed
  <1>25. Typed'
    <2>1. b + 1 \in 0 .. MaxBlocks /\ g \in 0 .. b + 1 /\ busy \in 0 .. b + 1
          /\ 1 .. b \subseteq 1 .. b + 1 /\ b + 1 + s + 1 \in Nat
      <3>1. busy \in Nat /\ busy <= built BY Zenon, <1>1, Types
      <3> QED BY SMTT(60), <3>1, <1>4, <1>8, <1>14, <1>17, Constants
    <2>2. {sendSeq', receiveSeq', lastAckSeq', ignoreNakSeq', retransmitSeq'} \subseteq Nat
      BY Zenon, <2>1, <1>1, <1>4, <1>14, Types
    <2>3. timer' \in {"never", "armed", "now"} BY Zenon, <1>1, <1>4, Types
    <2>4. built' \in 0 .. MaxBlocks /\ handshake' \in 0 .. built' /\ busy' \in 0 .. built'
          /\ notified' \subseteq 1 .. built' /\ answered' \subseteq 1 .. built'
      <3>1. built' = b + 1 /\ busy' = busy /\ handshake' = g
            /\ notified' \subseteq 1 .. b /\ answered' \subseteq 1 .. b
        BY Zenon, <1>2, <1>4, <1>8, <1>9
      <3> QED BY Zenon, <2>1, <3>1
    <2>5. nextSequence' \in 0 .. SeqRange - 1 /\ needValid' \in BOOLEAN
      <3>1. nextSequence' = nextSequence /\ needValid' = needValid BY Zenon, <1>4
      <3> QED BY Zenon, <3>1, <1>1 DEF Typed, TypeOK
    <2>6. TypeOK' BY Zenon, <2>2, <2>3, <2>4, <2>5 DEF TypeOK, Seqs
    <2>7. receiveSeq' # 0 /\ lastAckBytes' \in {0, 1}
      <3>1. receiveSeq' = receiveSeq /\ lastAckBytes' = lastAckBytes BY Zenon, <1>4
      <3> QED BY Zenon, <3>1, <1>1 DEF Typed
    <2>8. toHost' \in Seq(Messages) /\ executed' \in Seq(Nat) /\ Shift' \in Nat
      BY Zenon, <1>2, <1>4, <1>5, <1>11
    <2> QED BY Zenon, <2>6, <2>7, <2>8, <1>18, <1>20, <1>21 DEF Typed
  <1> QED BY Zenon, <1>4, <1>5, <1>6, <1>8, <1>9, <1>19, <1>20, <1>21, <1>22, <1>23, <1>24, <1>25
          DEF Inv, Started

\* The facts of the invariant, and what a step keeps that leaves alone the
\* host's window and what it told the sender.
HostKept ==
    UNCHANGED <<built, sendSeq, receiveSeq, lastAckSeq, lastAckBytes, sentQueue,
                notifyQueue, handshake, notified, answered>>

LEMMA Queues ==
    ASSUME Typed
    PROVE  /\ sentQueue \in Seq(Messages) /\ toMcu \in Seq(Messages) /\ toHost \in Seq(Messages)
           /\ notifyQueue \in Seq(Entries) /\ executed \in Seq(Nat)
           /\ lastAckBytes \in {0, 1}
  BY Zenon DEF Typed

LEMMA KeptHost ==
    ASSUME Inv, HostKept,
           ignoreNakSeq' \in Nat, retransmitSeq' \in Nat,
           timer' \in {"never", "armed", "now"}, nextSequence' \in Bits, needValid' \in BOOLEAN,
           busy' \in 0 .. built, executed' \in Seq(Nat),
           toMcu' \in Seq(Messages), toHost' \in Seq(Messages)
    PROVE  /\ Typed' /\ Shift' = Shift
           /\ built' = built /\ handshake' = handshake /\ receiveSeq' = receiveSeq
           /\ sentQueue' = sentQueue /\ notified' = notified
           /\ Pending(notifyQueue', built', handshake', Shift')
  <1>1. /\ built' = built /\ sendSeq' = sendSeq /\ receiveSeq' = receiveSeq
        /\ lastAckSeq' = lastAckSeq /\ lastAckBytes' = lastAckBytes /\ sentQueue' = sentQueue
        /\ notifyQueue' = notifyQueue /\ handshake' = handshake /\ notified' = notified
        /\ answered' = answered
    BY Zenon DEF HostKept
  <1>2. Typed /\ Pending(notifyQueue, built, handshake, Shift) BY Zenon DEF Inv
  <1>3. Shift' = Shift BY Zenon, <1>1 DEF Shift
  <1>4. Pending(notifyQueue', built', handshake', Shift') BY Zenon, <1>1, <1>2, <1>3
  <1>5. built' \in 0 .. MaxBlocks /\ handshake' \in 0 .. built' /\ busy' \in 0 .. built'
        /\ notified' \subseteq 1 .. built' /\ answered' \subseteq 1 .. built'
    BY Zenon, <1>1, <1>2 DEF Typed, TypeOK
  <1>6. {sendSeq', receiveSeq', lastAckSeq', ignoreNakSeq', retransmitSeq'} \subseteq Nat
    BY Zenon, <1>1, <1>2, Types
  <1>7. TypeOK' BY Zenon, <1>5, <1>6 DEF TypeOK, Seqs, Bits
  <1>8. receiveSeq' # 0 /\ lastAckBytes' \in {0, 1} /\ sentQueue' \in Seq(Messages)
        /\ notifyQueue' \in Seq(Entries) /\ Shift' \in Nat
    BY Zenon, <1>1, <1>2, <1>3 DEF Typed
  <1>9. Typed' BY Zenon, <1>7, <1>8 DEF Typed
  <1> QED BY Zenon, <1>1, <1>3, <1>4, <1>9

\* The same when nothing happens in the micro-controller either.
LEMMA KeptEnds ==
    ASSUME Inv, HostKept,
           ignoreNakSeq' \in Nat, retransmitSeq' \in Nat,
           timer' \in {"never", "armed", "now"},
           UNCHANGED <<nextSequence, needValid, busy, executed>>,
           toMcu' \in Seq(Messages), toHost' \in Seq(Messages)
    PROVE  /\ Shift' = Shift /\ Expected' = Expected /\ Floor' = Floor
           /\ (Started' <=> Started)
           /\ Line(toMcu', Expected, built, handshake, Shift)
              /\ Replies(toHost', receiveSeq, Expected, Floor, built, Shift)
              /\ (~ Started => Fresh(toHost', receiveSeq, Expected))
              /\ Unconfirmed(toHost', notified, handshake, Shift, Floor)
              => Inv'
  <1>1. nextSequence' = nextSequence /\ needValid' = needValid /\ busy' = busy
        /\ executed' = executed
    BY Zenon
  <1>2. Typed BY Zenon DEF Inv
  <1>3. nextSequence' \in Bits /\ needValid' \in BOOLEAN /\ executed' \in Seq(Nat)
        /\ busy' \in 0 .. built
    BY Zenon, <1>1, <1>2, Types, Queues DEF Typed, TypeOK
  <1>4. /\ Typed' /\ Shift' = Shift
        /\ built' = built /\ handshake' = handshake /\ receiveSeq' = receiveSeq
        /\ sentQueue' = sentQueue /\ notified' = notified
        /\ Pending(notifyQueue', built', handshake', Shift')
    BY Zenon, <1>3, KeptHost
  <1>5. Expected' = Expected BY Zenon, <1>1, <1>4 DEF Expected
  <1>6. Floor' = Floor /\ (Started' <=> Started) BY Zenon, <1>1, <1>5 DEF Floor, Started
  <1>7. Window(sentQueue', receiveSeq', built', handshake', Expected', Shift')
    BY Zenon, <1>4, <1>5 DEF Inv
  <1>8. Taken(busy', executed', built', handshake', Expected', Shift')
    BY Zenon, <1>1, <1>4, <1>5 DEF Inv
  <1>9. ASSUME Line(toMcu', Expected, built, handshake, Shift),
               Replies(toHost', receiveSeq, Expected, Floor, built, Shift),
               ~ Started => Fresh(toHost', receiveSeq, Expected),
               Unconfirmed(toHost', notified, handshake, Shift, Floor)
        PROVE  Inv'
    BY Zenon, <1>4, <1>5, <1>6, <1>7, <1>8, <1>9 DEF Inv
  <1> QED BY Zenon, <1>4, <1>5, <1>6, <1>9

LEMMA Retransmit ==
    ASSUME Inv, retransmit_event
    PROVE  Inv'
  <1>1. PICK line \in Flushed(toMcu) : toMcu' = line \o sentQueue
    BY Zenon DEF retransmit_event
  <1>2. Typed BY Zenon DEF Inv
  <1>3. /\ HostKept /\ toHost' = toHost /\ retransmitSeq' = sendSeq
        /\ ignoreNakSeq' = IgnoreNakSeq /\ timer' = "armed"
        /\ UNCHANGED <<nextSequence, needValid, busy, executed>>
    BY Zenon DEF retransmit_event, HostKept, mcu, seen
  <1>4. ignoreNakSeq' \in Nat /\ retransmitSeq' \in Nat /\ timer' \in {"never", "armed", "now"}
    BY Zenon, <1>2, <1>3, Types DEF IgnoreNakSeq
  <1>5. line \in Seq(Messages) /\ Thinned(line, toMcu, {Garbage}, Len(toMcu) + 1)
    BY Zenon, <1>1, <1>2, Queues, FlushThins
  <1>6. PICK k \in Nat : k = Len(toMcu) + 1
    <2>1. toMcu \in Seq(Messages) BY Zenon, <1>2, Queues
    <2>2. Len(toMcu) + 1 \in Nat BY <2>1
    <2> QED BY Zenon, <2>2
  <1>7. /\ built \in Nat /\ handshake \in Nat /\ Shift \in Nat /\ handshake <= built
        /\ receiveSeq \in Nat /\ Expected \in Nat /\ Expected < receiveSeq + SeqRange
    BY Zenon, <1>2, Types, ExpectedIs
  <1>8. Line(line, Expected, built, handshake, Shift)
    <2>1. Line(toMcu, Expected, built, handshake, Shift) BY Zenon DEF Inv
    <2>2. Thinned(line, toMcu, {Garbage}, k) BY Zenon, <1>5, <1>6
    <2> QED BY Zenon, <2>1, <2>2, <1>2, <1>5, <1>7, Queues, LineThins
  <1>9. Window(sentQueue, receiveSeq, built, handshake, Expected, Shift) BY Zenon DEF Inv
  <1>10. Line(toMcu', Expected, built, handshake, Shift)
    <2>1. /\ receiveSeq + Len(sentQueue) = built + 1 + Shift
          /\ Len(sentQueue) <= MaxPending /\ Len(sentQueue) <= built
          /\ Shift # 0 => receiveSeq > handshake + Shift
          /\ Sent(sentQueue, receiveSeq, Shift)
      BY Zenon, <1>9 DEF Window
    <2>2. sentQueue \in Seq(Messages) BY Zenon, <1>2, Queues
    <2>3. Line(line \o sentQueue, Expected, built, handshake, Shift)
      BY Zenon, <2>1, <2>2, <1>5, <1>7, <1>8, LineSentAgain
    <2> QED BY Zenon, <2>3, <1>1
  <1>11. toMcu' \in Seq(Messages) /\ toHost' \in Seq(Messages)
    BY Zenon, <1>1, <1>2, <1>3, <1>5, Queues, ConcatProperties
  <1>12. /\ Replies(toHost', receiveSeq, Expected, Floor, built, Shift)
         /\ ~ Started => Fresh(toHost', receiveSeq, Expected)
         /\ Unconfirmed(toHost', notified, handshake, Shift, Floor)
    BY Zenon, <1>3 DEF Inv
  <1> QED BY Zenon, <1>3, <1>4, <1>10, <1>11, <1>12, KeptEnds

LEMMA Sendf ==
    ASSUME Inv, command_sendf
    PROVE  Inv'
  <1>1. /\ HostKept /\ toMcu' = toMcu
        /\ ignoreNakSeq' = ignoreNakSeq /\ retransmitSeq' = retransmitSeq /\ timer' = timer
        /\ toHost' = Append(toHost, Reply(nextSequence, Event))
        /\ UNCHANGED <<nextSequence, needValid, busy, executed>>
    BY Zenon DEF command_sendf, HostKept, host, mcu, seen
  <1>2. Typed BY Zenon DEF Inv
  <1>3. /\ built \in Nat /\ handshake \in Nat /\ Shift \in Nat
        /\ receiveSeq \in Nat /\ Expected \in Nat /\ Floor \in Int /\ nextSequence \in Bits
        /\ ignoreNakSeq' \in Nat /\ retransmitSeq' \in Nat
        /\ timer' \in {"never", "armed", "now"}
    BY Zenon, <1>1, <1>2, Types, ExpectedIs
  <1>4. toMcu' \in Seq(Messages) /\ toHost \in Seq(Messages) BY Zenon, <1>1, <1>2, Queues
  <1>5. /\ Event \in Nat /\ Event # 0 /\ Event \notin 1 .. MaxBlocks
        /\ Event \notin handshake + 1 .. MaxBlocks
    BY SMTT(60), <1>3, Constants DEF Event
  <1>6. PICK d \in Nat : d = Event BY Zenon, <1>5
  <1>7. FullFrom(receiveSeq, nextSequence) = Expected BY Zenon DEF Expected
  <1>8. /\ Append(toHost, Reply(nextSequence, d)) \in Seq(Messages)
        /\ Replies(Append(toHost, Reply(nextSequence, d)), receiveSeq, Expected, Floor, built, Shift)
    <2>1. Replies(toHost, receiveSeq, Expected, Floor, built, Shift) BY Zenon DEF Inv
    <2>2. d # 0 /\ d \notin 1 .. MaxBlocks BY Zenon, <1>5, <1>6
    <2> QED BY Zenon, <2>1, <2>2, <1>3, <1>4, <1>7, RepliesAppend
  <1>9. Unconfirmed(Append(toHost, Reply(nextSequence, d)), notified, handshake, Shift, Floor)
    <2>1. Unconfirmed(toHost, notified, handshake, Shift, Floor) BY Zenon DEF Inv
    <2>2. d \notin handshake + 1 .. MaxBlocks BY Zenon, <1>5, <1>6
    <2> QED BY Zenon, <2>1, <2>2, <1>3, <1>4, UnconfirmedAppend
  <1>10. ~ Started => Fresh(Append(toHost, Reply(nextSequence, d)), receiveSeq, Expected)
    BY Zenon, <1>3, <1>4, <1>7, FreshAppend DEF Inv
  <1>11. Line(toMcu', Expected, built, handshake, Shift) BY Zenon, <1>1 DEF Inv
  <1>12. toHost' = Append(toHost, Reply(nextSequence, d)) BY Zenon, <1>1, <1>6
  <1>13. /\ toHost' \in Seq(Messages)
         /\ Replies(toHost', receiveSeq, Expected, Floor, built, Shift)
         /\ ~ Started => Fresh(toHost', receiveSeq, Expected)
         /\ Unconfirmed(toHost', notified, handshake, Shift, Floor)
    BY Zenon, <1>8, <1>9, <1>10, <1>12
  <1> QED BY Zenon, <1>1, <1>3, <1>4, <1>11, <1>13, KeptEnds

LEMMA Loses ==
    ASSUME Inv, Lose
    PROVE  Inv'
  <1>1. /\ HostKept
        /\ ignoreNakSeq' = ignoreNakSeq /\ retransmitSeq' = retransmitSeq /\ timer' = timer
        /\ UNCHANGED <<nextSequence, needValid, busy, executed>>
    BY Zenon DEF Lose, HostKept, host, mcu, seen
  <1>2. Typed BY Zenon DEF Inv
  <1>3. /\ built \in Nat /\ handshake \in Nat /\ Shift \in Nat
        /\ receiveSeq \in Nat /\ Expected \in Nat /\ Floor \in Int
        /\ ignoreNakSeq' \in Nat /\ retransmitSeq' \in Nat
        /\ timer' \in {"never", "armed", "now"}
    BY Zenon, <1>1, <1>2, Types, ExpectedIs
  <1>4. /\ toMcu \in Seq(Messages) /\ toHost \in Seq(Messages)
        /\ Line(toMcu, Expected, built, handshake, Shift)
        /\ Replies(toHost, receiveSeq, Expected, Floor, built, Shift)
        /\ ~ Started => Fresh(toHost, receiveSeq, Expected)
        /\ Unconfirmed(toHost, notified, handshake, Shift, Floor)
    BY Zenon, <1>2, Queues DEF Inv
  <1>5. CASE \E i \in 1 .. Len(toMcu) :
               /\ \/ toMcu' = Without(toMcu, i)
                  \/ toMcu' = [toMcu EXCEPT ![i] = Garbage]
               /\ UNCHANGED toHost
    <2>1. PICK i \in 1 .. Len(toMcu) :
               /\ \/ toMcu' = Without(toMcu, i)
                  \/ toMcu' = [toMcu EXCEPT ![i] = Garbage]
               /\ UNCHANGED toHost
      BY Zenon, <1>5
    <2>2. i \in Nat /\ Len(toMcu) + 1 \in Nat BY <1>4
    <2>3. toMcu' \in Seq(Messages) /\ \E k \in Nat : Thinned(toMcu', toMcu, {Garbage}, k)
      <3>1. CASE toMcu' = Without(toMcu, i) BY Zenon, <3>1, <2>2, <1>4, WithoutThins
      <3>2. CASE toMcu' = [toMcu EXCEPT ![i] = Garbage]
        BY Zenon, <3>2, <2>2, <1>4, GarbleThins
      <3> QED BY Zenon, <3>1, <3>2, <2>1
    <2>4. Line(toMcu', Expected, built, handshake, Shift)
      BY Zenon, <2>3, <1>3, <1>4, LineThins
    <2>5. toHost' = toHost BY Zenon, <2>1
    <2> QED BY Zenon, <2>3, <2>4, <2>5, <1>1, <1>3, <1>4, KeptEnds
  <1>6. CASE \E i \in 1 .. Len(toHost) : toHost' = Without(toHost, i) /\ UNCHANGED toMcu
    <2>1. PICK i \in 1 .. Len(toHost) : toHost' = Without(toHost, i) /\ UNCHANGED toMcu
      BY Zenon, <1>6
    <2>2. i \in Nat BY <1>4
    <2>3. toHost' \in Seq(Messages) /\ Thinned(toHost', toHost, {}, i)
      BY Zenon, <2>1, <1>4, WithoutThins
    <2>4. /\ Replies(toHost', receiveSeq, Expected, Floor, built, Shift)
          /\ ~ Started => Fresh(toHost', receiveSeq, Expected)
          /\ Unconfirmed(toHost', notified, handshake, Shift, Floor)
      BY Zenon, <2>2, <2>3, <1>4, RepliesThins, FreshThins, UnconfirmedThins
    <2>5. toMcu' = toMcu BY Zenon, <2>1
    <2> QED BY Zenon, <2>3, <2>4, <2>5, <1>1, <1>3, <1>4, KeptEnds
  <1> QED BY Zenon, <1>5, <1>6 DEF Lose

\* A nak, while nothing is being executed.
LEMMA NakSent ==
    ASSUME Inv, busy = 0
    PROVE  LET q == Append(toHost, Reply(nextSequence, 0)) IN
           /\ q \in Seq(Messages)
           /\ Replies(q, receiveSeq, Expected, Floor, built, Shift)
           /\ ~ Started => Fresh(q, receiveSeq, Expected)
           /\ Unconfirmed(q, notified, handshake, Shift, Floor)
  <1> DEFINE q == Append(toHost, Reply(nextSequence, 0))
  <1>1. Typed /\ Replies(toHost, receiveSeq, Expected, Floor, built, Shift)
        /\ (~ Started => Fresh(toHost, receiveSeq, Expected))
        /\ Unconfirmed(toHost, notified, handshake, Shift, Floor)
    BY Zenon DEF Inv
  <1>2. /\ built \in Nat /\ handshake \in Nat /\ Shift \in Nat /\ nextSequence \in Bits
        /\ receiveSeq \in Nat /\ Expected \in Nat /\ Floor \in Int /\ Floor = Expected
    BY Zenon, <1>1, Types, ExpectedIs
  <1>3. toHost \in Seq(Messages) BY Zenon, <1>1, Queues
  <1>4. FullFrom(receiveSeq, nextSequence) = Expected BY Zenon DEF Expected
  <1>5. Expected <= Floor /\ 0 \in Nat /\ 0 \notin 1 .. MaxBlocks
        /\ 0 \notin handshake + 1 .. MaxBlocks
    BY SMTT(60), <1>2, Constants
  <1>6. PICK d \in Nat : d = 0 BY Zenon, <1>5
  <1>7. d \notin 1 .. MaxBlocks /\ d \notin handshake + 1 .. MaxBlocks BY Zenon, <1>5, <1>6
  <1>8. /\ Append(toHost, Reply(nextSequence, d)) \in Seq(Messages)
        /\ Replies(Append(toHost, Reply(nextSequence, d)), receiveSeq, Expected, Floor, built, Shift)
    BY Zenon, <1>1, <1>2, <1>3, <1>4, <1>5, <1>7, RepliesAppend
  <1>9. Unconfirmed(Append(toHost, Reply(nextSequence, d)), notified, handshake, Shift, Floor)
    BY Zenon, <1>1, <1>2, <1>3, <1>7, UnconfirmedAppend
  <1>10. ~ Started => Fresh(Append(toHost, Reply(nextSequence, d)), receiveSeq, Expected)
    BY Zenon, <1>1, <1>2, <1>3, <1>4, FreshAppend
  <1> QED BY Zenon, <1>6, <1>8, <1>9, <1>10

\* The first block is taken.
LEMMA Accepts ==
    ASSUME Inv, busy = 0, toMcu # <<>>, toMcu' = Tail(toMcu), InSequence(Head(toMcu)),
           needValid' = FALSE, nextSequence' = (Head(toMcu).seq + 1) % SeqRange,
           busy' = Head(toMcu).cmd, toHost' = toHost, executed' = executed,
           HostKept, ignoreNakSeq' = ignoreNakSeq, retransmitSeq' = retransmitSeq,
           timer' = timer
    PROVE  /\ Inv' /\ Expected' = Expected + 1
           /\ busy' \in 1 .. built /\ busy' + Shift = Expected
  <1>1. Typed /\ Window(sentQueue, receiveSeq, built, handshake, Expected, Shift)
        /\ Line(toMcu, Expected, built, handshake, Shift)
        /\ Taken(busy, executed, built, handshake, Expected, Shift)
        /\ Replies(toHost, receiveSeq, Expected, Floor, built, Shift)
        /\ Unconfirmed(toHost, notified, handshake, Shift, Floor)
    BY Zenon DEF Inv
  <1>2. /\ built \in Nat /\ handshake \in Nat /\ handshake <= built /\ Shift \in Nat
        /\ nextSequence \in Bits /\ receiveSeq \in Nat /\ receiveSeq # 0
        /\ Expected \in Nat /\ Floor \in Int /\ Floor = Expected
        /\ receiveSeq <= Expected /\ Expected % SeqRange = nextSequence
    BY Zenon, <1>1, Types, ExpectedIs
  <1>3. toMcu \in Seq(Messages) /\ toHost \in Seq(Messages) /\ executed \in Seq(Nat)
        /\ sentQueue \in Seq(Messages)
    BY Zenon, <1>1, Queues
  <1>4. Head(toMcu) = toMcu[1] /\ toMcu' \in Seq(Messages)
    BY Zenon, <1>3, TailThins
  <1>5. toMcu[1].cmd # 0 /\ toMcu[1].seq = Expected % SeqRange
    BY Zenon, <1>2, <1>4 DEF InSequence
  <1>6. PICK l \in Nat : l = Len(sentQueue) BY Zenon, <1>3, LenProperties
  <1>7. PICK b \in Nat, h \in Nat, r \in Nat, e \in Nat, s \in Nat :
           b = built /\ h = handshake /\ r = receiveSeq /\ e = Expected /\ s = Shift
    BY Zenon, <1>2
  <1>8. /\ r + l = b + 1 + s /\ l <= MaxPending /\ l <= b
        /\ r = 1 => h = b /\ s = 0
        /\ s # 0 => r > h + s
        /\ r # 1 => e <= b + 1 + s
        /\ Sent(sentQueue, r, s) /\ Len(sentQueue) = l
    BY Zenon, <1>1, <1>6, <1>7 DEF Window
  <1>9. b + 1 + s <= r + MaxPending BY SMTT(60), <1>8, Constants
  <1>10. r <= e /\ h <= b /\ Line(toMcu, e, b, h, s) /\ toMcu[1].seq = e % SeqRange
    BY Zenon, <1>1, <1>2, <1>5, <1>7
  <1>11. toMcu[1].cmd \in 1 .. b /\ toMcu[1].cmd + s = e /\ Number(toMcu[1].cmd, h, s) = e
    <2>1. PICK q \in Seq(Messages) : q = toMcu BY Zenon, <1>3
    <2>2. /\ q # <<>> /\ h <= b /\ Line(q, e, b, h, s) /\ q[1].cmd # 0
          /\ q[1].seq = e % SeqRange /\ r <= e
      BY Zenon, <2>1, <1>5, <1>10
    <2>3. b + 1 + s <= r + MaxPending /\ (s # 0 => r > h + s) BY Zenon, <1>8, <1>9
    <2>4. q[1].cmd \in 1 .. b /\ q[1].cmd + s = e /\ Number(q[1].cmd, h, s) = e
      BY SMTT(60), <2>2, <2>3, InSequenceIs
    <2> QED BY Zenon, <2>1, <2>4
  <1>12. PICK c \in 1 .. b : c = toMcu[1].cmd BY Zenon, <1>11
  <1>13. busy' = c /\ c + s = e BY Zenon, <1>4, <1>11, <1>12
  <1>14. nextSequence' = (e + 1) % SeqRange /\ nextSequence' \in Bits
    <2>1. SeqRange \in Nat /\ SeqRange > 1 BY SMTT(60), Constants
    <2>2. ((e % SeqRange) + 1) % SeqRange = (e + 1) % SeqRange
          /\ (e + 1) % SeqRange \in 0 .. SeqRange - 1
      BY Zenon, <2>1, Successor
    <2> QED BY Zenon, <2>2, <1>4, <1>10 DEF Bits
  <1>15. Expected' = e + 1
    <2>1. receiveSeq' = r BY Zenon, <1>7 DEF HostKept
    <2>2. e + 1 \in Int /\ r <= e + 1 /\ e + 1 < r + SeqRange
      BY SMTT(60), <1>8, <1>10, <1>13, Constants
    <2>3. PICK y \in Int : y = e + 1 BY Zenon, <2>2
    <2>4. FullFrom(r, nextSequence') = y BY Zenon, <2>2, <2>3, <1>14, FullFromUnique
    <2> QED BY Zenon, <2>1, <2>3, <2>4 DEF Expected
  <1>16. /\ Typed' /\ Shift' = s /\ built' = b /\ handshake' = h /\ receiveSeq' = r
         /\ sentQueue' = sentQueue /\ notified' = notified
         /\ Pending(notifyQueue', built', handshake', Shift')
    <2>1. busy' \in 0 .. built BY SMTT(60), <1>7, <1>13
    <2>2. needValid' \in BOOLEAN /\ executed' \in Seq(Nat) /\ toHost' \in Seq(Messages)
          /\ ignoreNakSeq' \in Nat /\ retransmitSeq' \in Nat
          /\ timer' \in {"never", "armed", "now"}
      BY Zenon, <1>1, <1>3, Types
    <2>3. /\ Typed' /\ Shift' = Shift
          /\ built' = built /\ handshake' = handshake /\ receiveSeq' = receiveSeq
          /\ sentQueue' = sentQueue /\ notified' = notified
          /\ Pending(notifyQueue', built', handshake', Shift')
      BY Zenon, <2>1, <2>2, <1>4, <1>14, KeptHost
    <2> QED BY Zenon, <2>3, <1>7
  <1>17. Floor' = Floor
    <2>1. c # 0 /\ (e + 1) - 1 = e OBVIOUS
    <2>2. Floor' = e BY Zenon, <2>1, <1>13, <1>15 DEF Floor
    <2> QED BY Zenon, <2>2, <1>2, <1>7
  <1>18. Window(sentQueue, r, b, h, e + 1, s)
    <2>1. r # 1 => e + 1 <= b + 1 + s BY SMTT(60), <1>13
    <2> QED BY Zenon, <2>1, <1>8 DEF Window
  <1>19. Line(toMcu', e + 1, b, h, s)
    BY Zenon, <1>3, <1>5, <1>10, <1>11, LineExpects
  <1>20. Taken(c, executed, b, h, e + 1, s)
    <2>1. /\ executed # <<>> => executed[Len(executed)] + s + 1 = e
          /\ Range(executed) \subseteq 1 .. b
          /\ \A i \in h + 1 .. b : i + s < e => i \in Range(executed) \cup {0}
      BY Zenon, <1>1, <1>7 DEF Taken
    <2>2. c # 0 /\ c + s + 1 = e + 1 BY <1>13
    <2>3. executed # <<>> => executed[Len(executed)] + 1 = c
      <3>1. SUFFICES ASSUME executed # <<>> PROVE executed[Len(executed)] + 1 = c OBVIOUS
      <3>2. executed[Len(executed)] \in Nat BY <3>1, <1>3
      <3>3. PICK y \in Nat : y = executed[Len(executed)] BY Zenon, <3>2
      <3>4. y + s + 1 = e BY Zenon, <3>1, <3>3, <2>1
      <3>5. y + 1 = c BY <3>4, <1>13
      <3> QED BY Zenon, <3>3, <3>5
    <2>4. ASSUME NEW i \in h + 1 .. b, i + s < e + 1
          PROVE  i \in Range(executed) \cup {c}
      <3>1. i # 0 /\ (i + s < e \/ i = c) BY SMTT(60), <2>4, <1>13
      <3> QED BY Zenon, <3>1, <2>1
    <2> QED BY Zenon, <2>1, <2>2, <2>3, <2>4 DEF Taken
  <1>21. Replies(toHost, r, e + 1, Floor, b, s)
    <2>1. Replies(toHost, r, e, Floor, b, s) BY Zenon, <1>1, <1>7
    <2>2. e <= e + 1 /\ b <= b /\ e + 1 \in Nat /\ Floor <= Floor BY SMTT(60), <1>2
    <2> QED BY Zenon, <2>1, <2>2, <1>2, <1>3, RepliesRise
  <1>22. Started' 
    <2>1. c # 0 OBVIOUS
    <2> QED BY Zenon, <2>1, <1>13 DEF Started
  <1>23. Unconfirmed(toHost, notified, h, s, Floor) BY Zenon, <1>1, <1>7
  <1>24. /\ Window(sentQueue', receiveSeq', built', handshake', Expected', Shift')
         /\ Line(toMcu', Expected', built', handshake', Shift')
         /\ Taken(busy', executed', built', handshake', Expected', Shift')
    BY Zenon, <1>13, <1>15, <1>16, <1>18, <1>19, <1>20
  <1>25. /\ Replies(toHost', receiveSeq', Expected', Floor', built', Shift')
         /\ Unconfirmed(toHost', notified', handshake', Shift', Floor')
    BY Zenon, <1>15, <1>16, <1>17, <1>21, <1>23
  <1>26. Inv' BY Zenon, <1>16, <1>22, <1>24, <1>25 DEF Inv
  <1> QED BY Zenon, <1>7, <1>13, <1>15, <1>26

LEMMA FindBlock ==
    ASSUME Inv, command_find_block
    PROVE  Inv'
  <1>1. /\ HostKept /\ busy = 0 /\ toMcu # <<>> /\ toMcu' = Tail(toMcu)
        /\ ignoreNakSeq' = ignoreNakSeq /\ retransmitSeq' = retransmitSeq /\ timer' = timer
        /\ executed' = executed
    BY Zenon DEF command_find_block, HostKept, host, seen
  <1>2. Typed BY Zenon DEF Inv
  <1>3. toMcu \in Seq(Messages) /\ toHost \in Seq(Messages) BY Zenon, <1>2, Queues
  <1>4. toMcu' \in Seq(Messages) /\ Thinned(toMcu', toMcu, {Garbage}, 1)
    BY Zenon, <1>1, <1>3, TailThins
  <1>5. /\ built \in Nat /\ handshake \in Nat /\ Shift \in Nat /\ Expected \in Nat
        /\ ignoreNakSeq' \in Nat /\ retransmitSeq' \in Nat /\ timer' \in {"never", "armed", "now"}
    BY Zenon, <1>1, <1>2, Types, ExpectedIs
  <1>6. Line(toMcu', Expected, built, handshake, Shift)
    <2>1. 1 \in Nat /\ Line(toMcu, Expected, built, handshake, Shift) BY Zenon DEF Inv
    <2> QED BY Zenon, <2>1, <1>3, <1>4, <1>5, LineThins
  <1>7. /\ Replies(toHost, receiveSeq, Expected, Floor, built, Shift)
        /\ ~ Started => Fresh(toHost, receiveSeq, Expected)
        /\ Unconfirmed(toHost, notified, handshake, Shift, Floor)
    BY Zenon DEF Inv
  <1>8. CASE /\ needValid' \in BOOLEAN /\ nextSequence' = nextSequence /\ busy' = busy
             /\ toHost' = toHost \/ toHost' = Append(toHost, Reply(nextSequence, 0))
    <2>1. /\ toHost' \in Seq(Messages)
          /\ Replies(toHost', receiveSeq, Expected, Floor, built, Shift)
          /\ ~ Started => Fresh(toHost', receiveSeq, Expected)
          /\ Unconfirmed(toHost', notified, handshake, Shift, Floor)
      <3>1. CASE toHost' = toHost BY Zenon, <3>1, <1>3, <1>7
      <3>2. CASE toHost' = Append(toHost, Reply(nextSequence, 0))
        BY Zenon, <3>2, <1>1, NakSent
      <3> QED BY Zenon, <3>1, <3>2, <1>8
    <2>2. nextSequence' \in Bits /\ executed' \in Seq(Nat) /\ busy' \in 0 .. built
      BY Zenon, <1>1, <1>2, <1>8, Types, Queues DEF Typed, TypeOK
    <2>3. /\ Typed' /\ Shift' = Shift
          /\ built' = built /\ handshake' = handshake /\ receiveSeq' = receiveSeq
          /\ sentQueue' = sentQueue /\ notified' = notified
          /\ Pending(notifyQueue', built', handshake', Shift')
      BY Zenon, <2>1, <2>2, <1>1, <1>4, <1>5, <1>8, KeptHost
    <2>4. Expected' = Expected BY Zenon, <2>3, <1>8 DEF Expected
    <2>5. Floor' = Floor /\ (Started' <=> Started)
      BY Zenon, <2>4, <1>1, <1>8 DEF Floor, Started
    <2>6. /\ Window(sentQueue', receiveSeq', built', handshake', Expected', Shift')
          /\ Taken(busy', executed', built', handshake', Expected', Shift')
      BY Zenon, <2>3, <2>4, <1>1, <1>8 DEF Inv
    <2> QED BY Zenon, <2>1, <2>3, <2>4, <2>5, <2>6, <1>6 DEF Inv
  <1>9. CASE /\ InSequence(Head(toMcu))
             /\ needValid' = FALSE
             /\ nextSequence' = (Head(toMcu).seq + 1) % SeqRange
             /\ busy' = Head(toMcu).cmd
             /\ UNCHANGED toHost
    <2>1. toHost' = toHost BY Zenon, <1>9
    <2> QED BY Zenon, <2>1, <1>1, <1>9, Accepts
  <1> QED BY Zenon, <1>8, <1>9 DEF command_find_block, AfterGarbage

LEMMA AnswersAre ==
    ASSUME NEW q \in Seq(Messages), NEW x \in Bits, NEW z \in Nat
    PROVE  /\ q \o <<Reply(x, 0)>> = Append(q, Reply(x, 0))
           /\ q \o (<<Reply(x, z)>> \o <<Reply(x, 0)>>)
                = Append(Append(q, Reply(x, z)), Reply(x, 0))
           /\ q \o (<<>> \o <<Reply(x, 0)>>) = Append(q, Reply(x, 0))
  <1>1. ASSUME NEW d \in Nat PROVE Reply(x, d) \in Messages BY Zenon DEF Reply, Messages
  <1>2. 0 \in Nat OBVIOUS
  <1>3. PICK u \in Messages, v \in Messages : u = Reply(x, z) /\ v = Reply(x, 0)
    BY Zenon, <1>1, <1>2
  <1>4. <<u>> \in Seq(Messages) /\ <<v>> \in Seq(Messages) /\ <<>> \o <<v>> = <<v>> OBVIOUS
  <1>5. q \o (<<u>> \o <<v>>) = (q \o <<u>>) \o <<v>>
    <2>1. PICK j \in Seq(Messages), k \in Seq(Messages) : j = <<u>> /\ k = <<v>>
      BY Zenon, <1>4
    <2>2. (q \o j) \o k = q \o (j \o k) BY SMTT(60)
    <2> QED BY Zenon, <2>1, <2>2
  <1>6. q \o <<u>> = Append(q, u) /\ q \o <<v>> = Append(q, v) BY Zenon, Appended
  <1>7. Append(q, u) \in Seq(Messages) BY Zenon, Appended
  <1>8. Append(q, u) \o <<v>> = Append(Append(q, u), v) BY <1>7
  <1> QED BY Zenon, <1>3, <1>4, <1>5, <1>6, <1>8

LEMMA Dispatch ==
    ASSUME Inv, command_dispatch
    PROVE  Inv'
  <1>1. /\ HostKept /\ busy # 0 /\ toMcu' = toMcu /\ busy' = 0
        /\ executed' = Append(executed, busy)
        /\ nextSequence' = nextSequence /\ needValid' = needValid
        /\ ignoreNakSeq' = ignoreNakSeq /\ retransmitSeq' = retransmitSeq /\ timer' = timer
    BY Zenon DEF command_dispatch, HostKept, host, seen
  <1>2. Typed /\ Window(sentQueue, receiveSeq, built, handshake, Expected, Shift)
        /\ Line(toMcu, Expected, built, handshake, Shift)
        /\ Taken(busy, executed, built, handshake, Expected, Shift)
        /\ Replies(toHost, receiveSeq, Expected, Floor, built, Shift)
        /\ Unconfirmed(toHost, notified, handshake, Shift, Floor)
    BY Zenon DEF Inv
  <1>3. /\ built \in Nat /\ handshake \in Nat /\ handshake <= built /\ Shift \in Nat
        /\ nextSequence \in Bits /\ receiveSeq \in Nat /\ busy \in Nat /\ busy <= built
        /\ Expected \in Nat /\ Floor \in Int /\ Floor + 1 = Expected /\ built <= MaxBlocks
        /\ notified \subseteq 1 .. built
    BY Zenon, <1>1, <1>2, Types, ExpectedIs
  <1>4. toMcu \in Seq(Messages) /\ toHost \in Seq(Messages) /\ executed \in Seq(Nat)
    BY Zenon, <1>2, Queues
  <1>5. PICK b \in Nat, h \in Nat, r \in Nat, e \in Nat, s \in Nat, z \in Nat, f \in Int :
           b = built /\ h = handshake /\ r = receiveSeq /\ e = Expected /\ s = Shift
           /\ z = busy /\ f = Floor
    BY Zenon, <1>3
  <1>6. /\ z # 0 /\ z <= b /\ f + 1 = e /\ z + s + 1 = e
        /\ executed # <<>> => executed[Len(executed)] + 1 = z
        /\ Range(executed) \subseteq 1 .. b
        /\ \A c \in h + 1 .. b : c + s < e => c \in Range(executed) \cup {z}
    BY Zenon, <1>1, <1>2, <1>3, <1>5 DEF Taken
  <1>7. Expected' = e
    <2>1. receiveSeq' = receiveSeq BY Zenon, <1>1 DEF HostKept
    <2> QED BY Zenon, <2>1, <1>1, <1>5 DEF Expected
  <1>8. Floor' = e BY Zenon, <1>1, <1>7 DEF Floor
  <1>9. executed' \in Seq(Nat) /\ Len(executed') = Len(executed) + 1
        /\ executed'[Len(executed')] = z /\ Range(executed') = Range(executed) \cup {z}
        /\ executed' # <<>>
    <2>1. PICK x \in Seq(Nat) : x = executed BY Zenon, <1>4
    <2>2. Append(x, z) \in Seq(Nat) /\ Len(Append(x, z)) = Len(x) + 1
          /\ Append(x, z)[Len(x) + 1] = z /\ Append(x, z) # <<>>
      BY Appended
    <2>3. Range(Append(x, z)) = Range(x) \cup {z}
      <3>1. \A i \in 1 .. Len(x) : Append(x, z)[i] = x[i] OBVIOUS
      <3>2. Range(x) = {x[i] : i \in 1 .. Len(x)} BY Zenon, LenProperties DEF Range
      <3>3. Range(Append(x, z)) = {Append(x, z)[i] : i \in 1 .. Len(x) + 1}
        BY Zenon, <2>2, LenProperties DEF Range
      <3>4. 1 .. Len(x) + 1 = 1 .. Len(x) \cup {Len(x) + 1} OBVIOUS
      <3>5. ASSUME NEW v \in Range(Append(x, z)) PROVE v \in Range(x) \cup {z}
        <4>1. PICK i \in 1 .. Len(x) + 1 : v = Append(x, z)[i] BY Zenon, <3>3
        <4>2. CASE i \in 1 .. Len(x) BY Zenon, <4>1, <4>2, <3>1, <3>2
        <4>3. CASE i = Len(x) + 1 BY Zenon, <4>1, <4>3, <2>2
        <4> QED BY Zenon, <4>2, <4>3, <3>4
      <3>6. ASSUME NEW v \in Range(x) \cup {z} PROVE v \in Range(Append(x, z))
        <4>1. CASE v = z BY Zenon, <4>1, <3>3, <3>4, <2>2
        <4>2. CASE v \in Range(x)
          <5>1. PICK i \in 1 .. Len(x) : v = x[i] BY Zenon, <4>2, <3>2
          <5> QED BY Zenon, <5>1, <3>1, <3>3, <3>4
        <4> QED BY Zenon, <4>1, <4>2
      <3> QED BY Zenon, <3>5, <3>6
    <2>4. executed' = Append(x, z) BY Zenon, <2>1, <1>1, <1>5
    <2> QED BY Zenon, <2>1, <2>2, <2>3, <2>4
  <1>10. Taken(0, executed', b, h, e, s)
    <2>1. z \in 1 .. b BY <1>6
    <2> QED BY Zenon, <2>1, <1>6, <1>9 DEF Taken
  <1>11. FullFrom(r, nextSequence) = e BY Zenon, <1>5 DEF Expected
  <1>12. /\ Replies(toHost, r, e, f, b, s) /\ Unconfirmed(toHost, notified, h, s, f)
    BY Zenon, <1>2, <1>5
  <1>13. f < e /\ f <= e /\ e <= e /\ b <= b /\ e \in Int /\ b + 0 = b BY <1>6
  <1>14. ASSUME NEW q \in Seq(Messages), NEW g \in Int, Replies(q, r, e, g, b, s), g <= e,
                Unconfirmed(q, notified, h, s, g)
         PROVE  LET p == Append(q, Reply(nextSequence, 0)) IN
                /\ p \in Seq(Messages) /\ Replies(p, r, e, e, b, s)
                /\ Unconfirmed(p, notified, h, s, e)
    <2>1. Replies(q, r, e, e, b, s) BY Zenon, <1>13, <1>14, RepliesRise
    <2>2. Unconfirmed(q, notified, h, s, e)
      <3>1. ASSUME NEW c \in notified, c > h PROVE c + s < e
        <4>1. c + s < g BY Zenon, <3>1, <1>14 DEF Unconfirmed
        <4>2. c \in Nat BY SMTT(60), <1>3
        <4> QED BY SMTT(60), <4>1, <4>2, <1>14
      <3> QED BY Zenon, <3>1, <1>14 DEF Unconfirmed
    <2>3. 0 \in Nat /\ 0 \notin 1 .. MaxBlocks /\ 0 \notin h + 1 .. MaxBlocks
      BY SMTT(60), Constants
    <2>4. PICK d \in Nat : d = 0 BY Zenon, <2>3
    <2>5. d \notin 1 .. MaxBlocks /\ d \notin h + 1 .. MaxBlocks BY Zenon, <2>3, <2>4
    <2>6. /\ Append(q, Reply(nextSequence, d)) \in Seq(Messages)
          /\ Replies(Append(q, Reply(nextSequence, d)), r, e, e, b, s)
      BY Zenon, <2>1, <2>5, <1>3, <1>11, <1>13, RepliesAppend
    <2>7. Unconfirmed(Append(q, Reply(nextSequence, d)), notified, h, s, e)
      BY Zenon, <2>2, <2>5, <1>3, <1>13, UnconfirmedAppend
    <2> QED BY Zenon, <2>4, <2>6, <2>7
  <1>15. /\ Append(toHost, Reply(nextSequence, z)) \in Seq(Messages)
         /\ Replies(Append(toHost, Reply(nextSequence, z)), r, e, f, b, s)
         /\ Unconfirmed(Append(toHost, Reply(nextSequence, z)), notified, h, s, f)
    <2>1. /\ Append(toHost, Reply(nextSequence, z)) \in Seq(Messages)
          /\ Replies(Append(toHost, Reply(nextSequence, z)), r, e, f, b, s)
      BY Zenon, <1>3, <1>4, <1>6, <1>11, <1>12, <1>13, RepliesAppend
    <2>2. ASSUME z \in h + 1 .. MaxBlocks, z \in notified PROVE FALSE
      <3>1. z > h BY <2>2
      <3>2. z + s < f BY Zenon, <2>2, <3>1, <1>12 DEF Unconfirmed
      <3> QED BY <3>2, <1>6
    <2>3. Unconfirmed(Append(toHost, Reply(nextSequence, z)), notified, h, s, f)
      BY Zenon, <2>2, <1>3, <1>4, <1>12, UnconfirmedAppend
    <2> QED BY Zenon, <2>1, <2>3
  <1>16. toHost' = Append(toHost, Reply(nextSequence, 0))
         \/ toHost' = Append(Append(toHost, Reply(nextSequence, z)), Reply(nextSequence, 0))
    <2>1. PICK responds \in BOOLEAN : toHost' = toHost \o Answers(responds)
      BY Zenon DEF command_dispatch
    <2>2. toHost' = toHost \o (<<Reply(nextSequence, z)>> \o <<Reply(nextSequence, 0)>>)
          \/ toHost' = toHost \o (<<>> \o <<Reply(nextSequence, 0)>>)
      BY Zenon, <2>1, <1>5 DEF Answers
    <2> QED BY Zenon, <2>2, <1>3, <1>4, AnswersAre
  <1>17. /\ toHost' \in Seq(Messages) /\ Replies(toHost', r, e, e, b, s)
         /\ Unconfirmed(toHost', notified, h, s, e)
    BY Zenon, <1>4, <1>12, <1>13, <1>14, <1>15, <1>16
  <1>18. /\ Typed' /\ Shift' = s /\ built' = b /\ handshake' = h /\ receiveSeq' = r
         /\ sentQueue' = sentQueue /\ notified' = notified
         /\ Pending(notifyQueue', built', handshake', Shift')
    <2>1. busy' \in 0 .. built BY SMTT(60), <1>1, <1>3
    <2>2. needValid' \in BOOLEAN /\ nextSequence' \in Bits /\ toMcu' \in Seq(Messages)
          /\ ignoreNakSeq' \in Nat /\ retransmitSeq' \in Nat
          /\ timer' \in {"never", "armed", "now"}
      BY Zenon, <1>1, <1>2, <1>4, Types
    <2>3. /\ Typed' /\ Shift' = Shift
          /\ built' = built /\ handshake' = handshake /\ receiveSeq' = receiveSeq
          /\ sentQueue' = sentQueue /\ notified' = notified
          /\ Pending(notifyQueue', built', handshake', Shift')
      BY Zenon, <2>1, <2>2, <1>1, <1>9, <1>17, KeptHost
    <2> QED BY Zenon, <2>3, <1>5
  <1>19. /\ Window(sentQueue', receiveSeq', built', handshake', Expected', Shift')
         /\ Line(toMcu', Expected', built', handshake', Shift')
         /\ Taken(busy', executed', built', handshake', Expected', Shift')
    BY Zenon, <1>1, <1>2, <1>5, <1>7, <1>10, <1>18
  <1>20. /\ Replies(toHost', receiveSeq', Expected', Floor', built', Shift')
         /\ Unconfirmed(toHost', notified', handshake', Shift', Floor')
    BY Zenon, <1>7, <1>8, <1>17, <1>18
  <1>21. Started' BY Zenon, <1>9 DEF Started
  <1> QED BY Zenon, <1>18, <1>19, <1>20, <1>21 DEF Inv

-----------------------------------------------------------------------------
(* The host receives. *)

\* The first reply on the line, and the number it stands for.
First == toHost[1]
Rseq == FullFrom(receiveSeq, First.seq)
Weight(d) == IF d = 0 THEN 0 ELSE 1

\* What handle_message finds and does: no answer is ever beyond what was sent,
\* unless it is the first one.
LEMMA Received ==
    ASSUME Inv, handle_message
    PROVE  /\ toHost # <<>> /\ toHost' = Tail(toHost) /\ toHost' \in Seq(Messages)
           /\ Thinned(toHost', toHost, {}, 1) /\ First.cmd \in Nat
           /\ Rseq \in Nat /\ receiveSeq <= Rseq /\ Rseq <= Expected
           /\ First.cmd = 0 => Rseq <= Floor
           /\ First.cmd \in 1 .. MaxBlocks => First.cmd <= built /\ Rseq = First.cmd + Shift + 1
           /\ \A j \in 1 .. Len(toHost') :
                 /\ Rseq <= FullFrom(receiveSeq, toHost'[j].seq)
                 /\ First.cmd = 0 /\ toHost'[j].cmd \in 1 .. MaxBlocks
                      => Rseq < FullFrom(receiveSeq, toHost'[j].seq)
           /\ ~ Started => Rseq = Expected
           /\ update_receive_seq(Rseq) /\ Notify(Rseq, First)
           /\ lastAckSeq' = IF First.cmd = 0 /\ lastAckSeq < Rseq THEN Rseq ELSE lastAckSeq
           /\ timer' = NextTimer(Rseq, First)
           /\ answered' = IF First.cmd \in 1 .. MaxBlocks
                          THEN answered \cup {First.cmd} ELSE answered
           /\ Rseq > sendSeq => receiveSeq = 1
  <1>1. Typed /\ Window(sentQueue, receiveSeq, built, handshake, Expected, Shift)
        /\ Replies(toHost, receiveSeq, Expected, Floor, built, Shift)
        /\ (~ Started => Fresh(toHost, receiveSeq, Expected))
    BY Zenon DEF Inv
  <1>2. toHost \in Seq(Messages) /\ receiveSeq \in Nat /\ sendSeq = built + 1 + Shift
    BY Zenon, <1>1, Queues, Types
  <1>3. toHost # <<>> /\ toHost' = Tail(toHost) BY Zenon DEF handle_message
  <1>4. /\ Tail(toHost) \in Seq(Messages) /\ Thinned(Tail(toHost), toHost, {}, 1)
        /\ Len(Tail(toHost)) = Len(toHost) - 1
        /\ Head(toHost) = toHost[1] /\ Head(toHost) \in Messages
        /\ \A i \in 1 .. Len(Tail(toHost)) : Tail(toHost)[i] = toHost[i + 1]
    BY Zenon, <1>2, <1>3, TailThins
  <1>5. 1 \in 1 .. Len(toHost) BY <1>2, <1>3, EmptySeq
  <1>6. First.cmd \in Nat /\ First.seq \in Bits BY Zenon, <1>2, <1>5, OnLine DEF First
  <1>7. Rseq \in Nat /\ receiveSeq <= Rseq BY Zenon, <1>2, <1>6, FullFromIs DEF Rseq
  <1>8. /\ Rseq <= Expected /\ (First.cmd = 0 => Rseq <= Floor)
        /\ First.cmd \in 1 .. MaxBlocks => First.cmd <= built /\ Rseq = First.cmd + Shift + 1
        /\ ~ Started => Rseq = Expected
    BY Zenon, <1>1, <1>5 DEF Replies, Fresh, First, Rseq
  <1>9. ASSUME NEW j \in 1 .. Len(toHost')
        PROVE  /\ Rseq <= FullFrom(receiveSeq, toHost'[j].seq)
               /\ First.cmd = 0 /\ toHost'[j].cmd \in 1 .. MaxBlocks
                    => Rseq < FullFrom(receiveSeq, toHost'[j].seq)
    <2>1. Len(toHost) \in Nat /\ Len(toHost') = Len(toHost) - 1
      BY Zenon, <1>2, <1>3, <1>4, LenProperties
    <2>2. j + 1 \in 1 .. Len(toHost) /\ 1 \in 1 .. (j + 1) - 1 BY SMTT(60), <2>1
    <2>3. toHost'[j] = toHost[j + 1] BY Zenon, <1>3, <1>4
    <2> QED BY Zenon, <2>2, <2>3, <1>1 DEF Replies, First, Rseq
  <1>10. FullSeq(Head(toHost)) = Rseq BY Zenon, <1>4 DEF FullSeq, Rseq, First, FullFrom
  <1>11. Rseq > sendSeq => receiveSeq = 1
    <2>1. receiveSeq # 1 => Expected <= built + 1 + Shift BY Zenon, <1>1 DEF Window
    <2>2. Expected \in Nat /\ built \in Nat /\ Shift \in Nat BY Zenon, <1>1, Types, ExpectedIs
    <2>3. PICK e \in Nat, w \in Nat, S \in Nat : e = Expected /\ w = Rseq /\ S = sendSeq
      BY Zenon, <1>1, <1>7, <2>2, Types
    <2>4. w <= e /\ (receiveSeq # 1 => e <= S) BY Zenon, <2>1, <2>3, <1>2, <1>8
    <2>5. w > S => receiveSeq = 1 BY SMTT(60), <2>4
    <2> QED BY Zenon, <2>3, <2>5
  <1>12. ~ Unsent(Rseq) BY Zenon, <1>11 DEF Unsent
  <1>13. /\ update_receive_seq(Rseq) /\ Notify(Rseq, First)
         /\ lastAckSeq' = IF First.cmd = 0 /\ lastAckSeq < Rseq THEN Rseq ELSE lastAckSeq
         /\ timer' = NextTimer(Rseq, First)
         /\ answered' = IF First.cmd \in 1 .. MaxBlocks
                        THEN answered \cup {First.cmd} ELSE answered
    BY Zenon, <1>4, <1>10, <1>12 DEF handle_message, First
  <1> QED BY Zenon, <1>3, <1>4, <1>6, <1>7, <1>8, <1>9, <1>11, <1>13

\* What the host's window becomes: e stays expected, everything up to w is
\* acknowledged, or the numbering is adopted.
LEMMA WindowMoves ==
    ASSUME Inv, handle_message
    PROVE  /\ receiveSeq' = Rseq /\ Expected' = Expected /\ Floor' = Floor
           /\ built' = built /\ handshake' = handshake
           /\ sentQueue' \in Seq(Messages) /\ sendSeq' \in Nat /\ lastAckBytes' \in {0, 1}
           /\ Shift' \in Nat
           /\ Window(sentQueue', Rseq, built, handshake, Expected, Shift')
           /\ \/ /\ Shift' = Shift /\ Rseq <= sendSeq
                 /\ Len(sentQueue') = Len(sentQueue) - (Rseq - receiveSeq)
                 /\ lastAckBytes' = IF Rseq = receiveSeq THEN lastAckBytes ELSE 1
              \/ /\ receiveSeq = 1 /\ handshake = built /\ Shift = 0 /\ ~ Started
                 /\ Rseq > built + 1 /\ sentQueue' = <<>> /\ lastAckBytes' = lastAckBytes
  <1>1. Typed /\ Window(sentQueue, receiveSeq, built, handshake, Expected, Shift)
        /\ Taken(busy, executed, built, handshake, Expected, Shift)
    BY Zenon DEF Inv
  <1>2. /\ Rseq \in Nat /\ receiveSeq <= Rseq /\ Rseq <= Expected
        /\ update_receive_seq(Rseq) /\ (Rseq > sendSeq => receiveSeq = 1)
        /\ (~ Started => Rseq = Expected)
    BY Zenon, Received
  <1>3. /\ built \in Nat /\ handshake \in Nat /\ handshake <= built /\ Shift \in Nat
        /\ sendSeq \in Nat /\ receiveSeq \in Nat /\ receiveSeq # 0
        /\ sendSeq = built + 1 + Shift /\ nextSequence \in Bits
        /\ sentQueue \in Seq(Messages) /\ executed \in Seq(Nat) /\ lastAckBytes \in {0, 1}
        /\ Expected \in Nat /\ busy \in Nat /\ busy <= built
    BY Zenon, <1>1, Types, Queues, ExpectedIs
  <1>4. /\ built' = built /\ handshake' = handshake /\ nextSequence' = nextSequence
        /\ busy' = busy /\ executed' = executed
    BY Zenon DEF handle_message, mcu
  <1>5. receiveSeq' = Rseq BY Zenon, <1>2 DEF update_receive_seq
  <1>6. Expected' = Expected
    <2>1. Rseq <= FullFrom(receiveSeq, nextSequence) BY Zenon, <1>2 DEF Expected
    <2>2. FullFrom(Rseq, nextSequence) = FullFrom(receiveSeq, nextSequence)
      <3>1. Rseq \in Nat /\ receiveSeq \in Nat /\ nextSequence \in Bits /\ receiveSeq <= Rseq
        BY Zenon, <1>2, <1>3
      <3> QED BY Zenon, <2>1, <3>1, FullFromKept
    <2> QED BY Zenon, <2>2, <1>4, <1>5 DEF Expected
  <1>7. Floor' = Floor BY Zenon, <1>4, <1>6 DEF Floor
  <1>8. PICK b \in Nat, h \in Nat, r \in Nat, e \in Nat, s \in Nat, w \in Nat, S \in Nat :
           b = built /\ h = handshake /\ r = receiveSeq /\ e = Expected /\ s = Shift
           /\ w = Rseq /\ S = sendSeq
    BY Zenon, <1>2, <1>3
  <1>9. PICK l \in Nat : l = Len(sentQueue) BY Zenon, <1>3, LenProperties
  <1>10. /\ r + l = b + 1 + s /\ l <= MaxPending /\ l <= b
         /\ r = 1 => h = b /\ s = 0
         /\ s # 0 => r > h + s
         /\ r # 1 => e <= b + 1 + s
         /\ Sent(sentQueue, r, s)
    BY Zenon, <1>1, <1>8, <1>9 DEF Window
  <1>11. r <= w /\ w <= e /\ r # 0 /\ S = b + 1 + s /\ h <= b /\ (w > S => r = 1)
         /\ (~ Started => w = e)
    BY Zenon, <1>2, <1>3, <1>8
  <1>12. Started => e <= b + 1 + s
    <2>1. CASE busy # 0
      <3>1. busy + s + 1 = e BY Zenon, <2>1, <1>1, <1>8 DEF Taken
      <3>2. busy <= b BY Zenon, <1>3, <1>8
      <3> QED BY SMTT(60), <3>1, <3>2, <1>3
    <2>2. CASE busy = 0 /\ executed # <<>>
      <3>1. executed[Len(executed)] + s + 1 = e /\ Range(executed) \subseteq 1 .. b
        BY Zenon, <2>2, <1>1, <1>8 DEF Taken
      <3>2. executed[Len(executed)] \in Range(executed)
        <4>1. Len(executed) \in 1 .. Len(executed) BY <2>2, <1>3, EmptySeq
        <4>2. Range(executed) = {executed[i] : i \in 1 .. Len(executed)}
          BY Zenon, <1>3, LenProperties DEF Range
        <4> QED BY Zenon, <4>1, <4>2
      <3>3. PICK y \in 1 .. b : y = executed[Len(executed)] BY Zenon, <3>1, <3>2
      <3>4. y + s + 1 = e BY Zenon, <3>1, <3>3
      <3> QED BY SMTT(60), <3>4
    <2> QED BY Zenon, <2>1, <2>2 DEF Started
  <1>13. CASE w - r <= l
    <2>1. w - r \in 0 .. l /\ w <= S BY SMTT(60), <1>10, <1>11, <1>13
    <2>2. PICK n \in 0 .. l : n = w - r BY Zenon, <2>1
    <2>3. Rseq - receiveSeq = n /\ n <= Len(sentQueue) BY Zenon, <2>2, <1>8, <1>9, <1>13
    <2>4. /\ sentQueue' = SubSeq(sentQueue, n + 1, Len(sentQueue))
          /\ lastAckBytes' = IF n = 0 THEN lastAckBytes ELSE 1
          /\ sendSeq' = sendSeq
      BY Zenon, <2>3, <1>2 DEF update_receive_seq
    <2>5. Shift' = Shift BY Zenon, <2>4, <1>4 DEF Shift
    <2>6. n \in 0 .. Len(sentQueue) BY Zenon, <2>2, <1>9
    <2>7. sentQueue' \in Seq(Messages) /\ Len(sentQueue') = Len(sentQueue) - n
          /\ Sent(sentQueue', r + n, s)
      BY Zenon, <2>4, <2>6, <1>3, <1>10, SentCut
    <2>8. r + n = w BY SMTT(60), <2>2
    <2>9. Len(sentQueue') = l - n BY Zenon, <2>7, <1>9
    <2>10. Window(sentQueue', w, b, h, e, s)
      <3>1. /\ w + (l - n) = b + 1 + s /\ l - n <= MaxPending /\ l - n <= b
            /\ w = 1 => h = b /\ s = 0
            /\ s # 0 => w > h + s
            /\ w # 1 => e <= b + 1 + s
        <4>1. e <= b + 1 + s
          <5>1. CASE Started BY Zenon, <5>1, <1>12
          <5>2. CASE ~ Started BY SMTT(60), <5>2, <2>1, <1>11
          <5> QED BY Zenon, <5>1, <5>2
        <4> QED BY SMTT(60), <4>1, <2>2, <2>8, <1>10, <1>11, Constants
      <3>2. Sent(sentQueue', w, s) BY Zenon, <2>7, <2>8
      <3> QED BY Zenon, <3>1, <3>2, <2>9 DEF Window
    <2>11. lastAckBytes' \in {0, 1} BY Zenon, <2>4, <1>3
    <2>12. n = 0 <=> w = r BY SMTT(60), <2>2
    <2>13. lastAckBytes' = IF Rseq = receiveSeq THEN lastAckBytes ELSE 1
      BY Zenon, <2>4, <2>12, <1>8
    <2>14. Window(sentQueue', Rseq, built, handshake, Expected, Shift')
      BY Zenon, <2>5, <2>10, <1>8
    <2>15. sendSeq' \in Nat /\ Shift' \in Nat BY Zenon, <2>4, <2>5, <1>3
    <2>16. Len(sentQueue') = Len(sentQueue) - (Rseq - receiveSeq) /\ Rseq <= sendSeq
      BY Zenon, <2>1, <2>3, <2>7, <1>8
    <2> QED BY Zenon, <2>5, <2>7, <2>11, <2>13, <2>14, <2>15, <2>16, <1>4, <1>5, <1>6, <1>7
  <1>14. CASE ~ (w - r <= l)
    <2>1. w > S /\ r = 1 /\ h = b /\ s = 0 /\ w > b + 1
      BY SMTT(60), <1>10, <1>11, <1>14
    <2>2. ~ Started
      <3>1. ASSUME Started PROVE FALSE
        <4>1. e <= b + 1 + s BY Zenon, <3>1, <1>12
        <4> QED BY SMTT(60), <4>1, <2>1, <1>11
      <3> QED BY Zenon, <3>1
    <2>3. w = e BY Zenon, <2>2, <1>11
    <2>4. ~ (Rseq - receiveSeq <= Len(sentQueue)) BY Zenon, <1>8, <1>9, <1>14
    <2>5. sentQueue' = <<>> /\ sendSeq' = Rseq /\ lastAckBytes' = lastAckBytes
      BY Zenon, <2>4, <1>2 DEF update_receive_seq
    <2>6. PICK t \in Nat : t = w - b - 1
      <3>1. w - b - 1 \in Nat BY SMTT(60), <2>1
      <3> QED BY Zenon, <3>1
    <2>7. Shift' = t BY Zenon, <2>5, <2>6, <1>4, <1>8 DEF Shift
    <2>8. sentQueue' \in Seq(Messages) /\ Len(sentQueue') = 0 BY Zenon, <2>5, EmptySeq
    <2>9. Window(sentQueue', w, b, h, e, t)
      <3>1. /\ w + 0 = b + 1 + t /\ 0 <= MaxPending /\ 0 <= b
            /\ w = 1 => h = b /\ t = 0
            /\ t # 0 => w > h + t
            /\ w # 1 => e <= b + 1 + t
        BY SMTT(60), <2>1, <2>3, <2>6, <1>11, Constants
      <3>2. \A i \in 1 .. 0 : FALSE OBVIOUS
      <3>3. Sent(sentQueue', w, t) BY Zenon, <3>2, <2>8 DEF Sent
      <3> QED BY Zenon, <3>1, <3>3, <2>8 DEF Window
    <2>10. Window(sentQueue', Rseq, built, handshake, Expected, Shift')
      BY Zenon, <2>7, <2>9, <1>8
    <2>11. sendSeq' \in Nat /\ Shift' \in Nat /\ lastAckBytes' \in {0, 1}
      BY Zenon, <2>5, <2>7, <1>2, <1>3
    <2>12. receiveSeq = 1 /\ handshake = built /\ Shift = 0 /\ Rseq > built + 1
      BY Zenon, <2>1, <1>8
    <2> QED BY Zenon, <2>2, <2>5, <2>8, <2>10, <2>11, <2>12, <1>4, <1>5, <1>6, <1>7
  <1> QED BY Zenon, <1>13, <1>14
=============================================================================
