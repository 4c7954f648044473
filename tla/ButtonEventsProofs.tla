------------------------- MODULE ButtonEventsProofs -------------------------
(***************************************************************************)
(* ReportedOnce for any number of buttons, reports, messages in flight and *)
(* lost messages, and for any width of the count.                          *)
(*                                                                         *)
(* The invariant accounts for what is on its way: every message is a slice *)
(* of the reports made that reaches at least as far as what the host has,  *)
(* and the acknowledgements under way add up to what the host has and the  *)
(* micro-controller does not know of yet.                                  *)
(***************************************************************************)
EXTENDS ButtonEvents, SequenceTheorems, TLAPS

Value == SUBSET (Buttons \cup {"runout"})
Message == [ack_count : Nat, state : Seq(Value)]
Struct == [pressed : Value, last_pressed : Value, reports : Seq(Value),
           ack_count : Nat, retransmit_state : Nat]

Types ==
    /\ pin \in Value /\ mcu \in Struct
    /\ sent \in Seq(Value) /\ got \in Seq(Value)
    /\ msgs \in Seq(Message) /\ acks \in Seq(Nat) /\ ack_count \in Nat

\* s is what q has after its first u elements.
Slice(q, s, u) ==
    /\ u + Len(s) <= Len(q)
    /\ \A j \in 1 .. Len(s) : s[j] = q[u + j]

BufferOK ==
    /\ Len(mcu.reports) <= MaxReports
    /\ 0 <= Unacked /\ Unacked <= Len(got)
    /\ Slice(sent, mcu.reports, Unacked)
    /\ mcu.ack_count = (Earlier + Unacked) % AckMod

GotOK == Slice(sent, got, 0) /\ ack_count = Earlier + Len(got)

\* What the micro-controller has freed before, and after, each of the
\* acknowledgements as: from u reports up to g.
Freed(as, u, g, upto) ==
    /\ upto[1] = u /\ upto[Len(as) + 1] = g
    /\ \A i \in 1 .. Len(as) : upto[i + 1] = upto[i] + as[i]

AcksOK ==
    \E upto \in [1 .. Len(acks) + 1 -> 0 .. Len(got)] :
        Freed(acks, Unacked, Len(got), upto)

\* Where in the reports q each of the messages ms starts; none ends before g.
Placed(ms, q, g, start) ==
    /\ \A i \in 1 .. Len(ms) :
          /\ Slice(q, ms[i].state, start[i])
          /\ Len(ms[i].state) <= MaxReports
          /\ ms[i].ack_count = (Earlier + start[i]) % AckMod
          /\ g <= start[i] + Len(ms[i].state)
    /\ \A i, j \in 1 .. Len(ms) : i < j =>
          start[i] + Len(ms[i].state) <= start[j] + Len(ms[j].state)

MsgsOK ==
    \E start \in [1 .. Len(msgs) -> 0 .. Len(got)] :
        Placed(msgs, sent, Len(got), start)

Inv == Types /\ BufferOK /\ GotOK /\ AcksOK /\ MsgsOK

-----------------------------------------------------------------------------
(* Arithmetic modulo M. *)

LEMMA ModUnique ==
    ASSUME NEW a \in Int, NEW k \in Int, NEW r \in Nat, NEW M \in Nat, r < M,
           a = M * k + r
    PROVE  a % M = r
  OBVIOUS

LEMMA ModSplit ==
    ASSUME NEW a \in Int, NEW M \in Nat, M > 0
    PROVE  \E k \in Int, r \in Nat : a = M * k + r /\ r < M /\ a % M = r
  <1>1. M * (a \div M) <= a OBVIOUS
  <1>2. a < M * (a \div M) + M OBVIOUS
  <1>3. a \div M \in Int OBVIOUS
  <1>4. PICK k \in Int : k = a \div M BY Zenon, <1>3
  <1>5. M * k \in Int OBVIOUS
  <1>6. a - M * k \in Nat /\ a - M * k < M BY <1>1, <1>2, <1>4, <1>5
  <1>7. PICK r \in Nat : r = a - M * k BY Zenon, <1>6
  <1>8. a = M * k + r BY <1>5, <1>7
  <1>9. r < M BY Zenon, <1>6, <1>7
  <1>10. a % M = r BY Zenon, <1>8, <1>9, ModUnique
  <1> QED BY Zenon, <1>8, <1>9, <1>10

LEMMA ModAdd ==
    ASSUME NEW a \in Int, NEW b \in Int, NEW M \in Nat, M > 0
    PROVE  ((a % M) + b) % M = (a + b) % M
  <1>1. PICK k \in Int, c \in Nat : a = M * k + c /\ c < M /\ a % M = c
    BY Zenon, ModSplit
  <1>2. c + b \in Int OBVIOUS
  <1>3. PICK j \in Int, r \in Nat : c + b = M * j + r /\ r < M /\ (c + b) % M = r
    BY Zenon, <1>2, ModSplit
  <1>4. M * k \in Int /\ M * j \in Int /\ M * (k + j) = M * k + M * j OBVIOUS
  <1>5. a + b = M * (k + j) + r
    <2>1. PICK x \in Int, y \in Int : x = M * k /\ y = M * j BY Zenon, <1>4
    <2>2. a = x + c /\ c + b = y + r BY Zenon, <1>1, <1>3, <2>1
    <2>3. a + b = x + y + r BY <2>2
    <2> QED BY Zenon, <1>4, <2>1, <2>3
  <1>6. a + b \in Int /\ k + j \in Int OBVIOUS
  <1>7. (a + b) % M = r
    <2>1. PICK s \in Int, t \in Int : s = a + b /\ t = k + j BY Zenon, <1>6
    <2>2. s = M * t + r BY Zenon, <1>5, <2>1
    <2>3. s % M = r BY ZenonT(60), <1>3, <2>2, ModUnique
    <2> QED BY Zenon, <2>1, <2>3
  <1> QED BY Zenon, <1>1, <1>3, <1>7

LEMMA ModDiff ==
    ASSUME NEW a \in Int, NEW d \in Nat, NEW M \in Nat, d < M
    PROVE  (a + d - (a % M)) % M = d
  <1>1. M > 0 OBVIOUS
  <1>2. PICK k \in Int, c \in Nat : a = M * k + c /\ c < M /\ a % M = c
    BY Zenon, <1>1, ModSplit
  <1>3. M * k \in Int OBVIOUS
  <1>4. a + d - c = M * k + d /\ a + d - c \in Int
    <2>1. PICK x \in Int : x = M * k BY Zenon, <1>3
    <2>2. a = x + c BY Zenon, <1>2, <2>1
    <2>3. a + d - c = x + d BY <2>2
    <2>4. a + d - c \in Int OBVIOUS
    <2> QED BY Zenon, <2>1, <2>3, <2>4
  <1>5. (a + d - c) % M = d BY Zenon, <1>4, ModUnique
  <1> QED BY Zenon, <1>2, <1>5
-----------------------------------------------------------------------------
(* Slices. *)

LEMMA SliceGrows ==
    ASSUME NEW S, NEW q \in Seq(S), NEW d \in S, NEW s \in Seq(S), NEW u \in Nat,
           Slice(q, s, u)
    PROVE  /\ Slice(Append(q, d), s, u)
           /\ u + Len(s) = Len(q) => Slice(Append(q, d), Append(s, d), u)
  <1>1. Len(s) \in Nat /\ Len(q) \in Nat /\ Len(Append(q, d)) = Len(q) + 1
        /\ Len(Append(s, d)) = Len(s) + 1
    OBVIOUS
  <1>2. \A i \in 1 .. Len(q) : Append(q, d)[i] = q[i] OBVIOUS
  <1>3. Slice(Append(q, d), s, u)
    <2>1. u + Len(s) <= Len(Append(q, d)) BY <1>1 DEF Slice
    <2>2. ASSUME NEW j \in 1 .. Len(s) PROVE s[j] = Append(q, d)[u + j]
      <3>1. u + j \in 1 .. Len(q) BY <1>1 DEF Slice
      <3>2. s[j] = q[u + j] BY Zenon DEF Slice
      <3> QED BY Zenon, <1>2, <3>1, <3>2
    <2> QED BY Zenon, <2>1, <2>2 DEF Slice
  <1>4. ASSUME u + Len(s) = Len(q) PROVE Slice(Append(q, d), Append(s, d), u)
    <2>1. u + Len(Append(s, d)) <= Len(Append(q, d)) BY <1>1, <1>4
    <2>2. ASSUME NEW j \in 1 .. Len(Append(s, d))
          PROVE  Append(s, d)[j] = Append(q, d)[u + j]
      <3>1. CASE j = Len(s) + 1
        <4>1. Append(s, d)[j] = d BY <3>1
        <4>2. u + j = Len(q) + 1 BY <1>1, <1>4, <3>1
        <4>3. Append(q, d)[u + j] = d BY <4>2
        <4> QED BY Zenon, <4>1, <4>3
      <3>2. CASE j \in 1 .. Len(s)
        <4>1. Append(s, d)[j] = s[j] BY <3>2
        <4>2. s[j] = Append(q, d)[u + j] BY Zenon, <1>3, <3>2 DEF Slice
        <4> QED BY Zenon, <4>1, <4>2
      <3>3. j = Len(s) + 1 \/ j \in 1 .. Len(s) BY <1>1
      <3> QED BY Zenon, <3>1, <3>2, <3>3
    <2> QED BY Zenon, <2>1, <2>2 DEF Slice
  <1> QED BY Zenon, <1>3, <1>4

\* SubSeqProperties for the part of a sequence.
LEMMA PartOf ==
    ASSUME NEW S, NEW s \in Seq(S), NEW a \in Nat, NEW b \in Nat, a <= b, b <= Len(s)
    PROVE  LET t == SubSeq(s, a + 1, b) IN
           t \in Seq(S) /\ Len(t) = b - a /\ \A i \in 1 .. b - a : t[i] = s[a + i]
  <1>1. PICK m \in Int : m = a + 1 OBVIOUS
  <1>2. \A i \in m .. b : s[i] \in S BY <1>1
  <1>3. b \in Int OBVIOUS
  <1> DEFINE t == SubSeq(s, m, b)
  <1>4. /\ t \in Seq(S) /\ Len(t) = IF m <= b THEN b - m + 1 ELSE 0
        /\ \A i \in 1 .. b - m + 1 : t[i] = s[m + i - 1]
    BY <1>2, <1>3, SubSeqProperties
  <1> HIDE DEF t
  <1>5. Len(t) = b - a BY <1>1, <1>4
  <1>6. ASSUME NEW i \in 1 .. b - a PROVE t[i] = s[a + i]
    <2>1. i \in 1 .. b - m + 1 /\ m + i - 1 = a + i BY <1>1
    <2> QED BY Zenon, <1>4, <2>1
  <1> QED BY Zenon, <1>1, <1>4, <1>5, <1>6 DEF t

LEMMA SliceDrop ==
    ASSUME NEW S, NEW q \in Seq(S), NEW s \in Seq(S), NEW u \in Nat,
           Slice(q, s, u), NEW c \in 0 .. Len(s)
    PROVE  LET t == SubSeq(s, c + 1, Len(s)) IN
           t \in Seq(S) /\ Len(t) = Len(s) - c /\ Slice(q, t, u + c)
  <1> DEFINE t == SubSeq(s, c + 1, Len(s))
  <1>1. Len(s) \in Nat /\ c \in Nat /\ c <= Len(s) /\ Len(q) \in Nat OBVIOUS
  <1>2. Len(s) <= Len(s) BY <1>1
  <1>4. /\ t \in Seq(S) /\ Len(t) = Len(s) - c
        /\ \A i \in 1 .. Len(s) - c : t[i] = s[c + i]
    BY ZenonT(60), <1>1, <1>2, PartOf
  <1> HIDE DEF t
  <1>5. Len(t) = Len(s) - c BY Zenon, <1>4
  <1>6. u + c + Len(t) <= Len(q) BY <1>1, <1>5 DEF Slice
  <1>7. ASSUME NEW j \in 1 .. Len(t) PROVE t[j] = q[u + c + j]
    <2>1. j \in 1 .. Len(s) - c /\ c + j \in 1 .. Len(s)
          /\ u + (c + j) = u + c + j
      BY <1>1, <1>5
    <2>2. t[j] = s[c + j] BY Zenon, <1>4, <2>1
    <2>3. s[c + j] = q[u + (c + j)] BY Zenon, <2>1 DEF Slice
    <2> QED BY Zenon, <2>1, <2>2, <2>3
  <1>8. Slice(q, t, u + c) BY Zenon, <1>6, <1>7 DEF Slice
  <1> QED BY Zenon, <1>4, <1>5, <1>8 DEF t

LEMMA SliceJoin ==
    ASSUME NEW S, NEW q \in Seq(S), NEW g \in Seq(S), Slice(q, g, 0),
           NEW t \in Seq(S), Slice(q, t, Len(g))
    PROVE  g \o t \in Seq(S) /\ Len(g \o t) = Len(g) + Len(t) /\ Slice(q, g \o t, 0)
  <1>1. Len(g) \in Nat /\ Len(t) \in Nat /\ Len(q) \in Nat OBVIOUS
  <1>2. /\ g \o t \in Seq(S) /\ Len(g \o t) = Len(g) + Len(t)
        /\ \A i \in 1 .. Len(g) + Len(t) :
              (g \o t)[i] = IF i <= Len(g) THEN g[i] ELSE t[i - Len(g)]
    BY Zenon, ConcatProperties
  <1>3. 0 + Len(g \o t) <= Len(q) BY <1>1, <1>2 DEF Slice
  <1>4. ASSUME NEW j \in 1 .. Len(g \o t) PROVE (g \o t)[j] = q[0 + j]
    <2>1. CASE j <= Len(g)
      <3>1. j \in 1 .. Len(g) BY <1>1, <2>1
      <3> QED BY Zenon, <1>2, <2>1, <3>1 DEF Slice
    <2>2. CASE ~ (j <= Len(g))
      <3>1. j - Len(g) \in 1 .. Len(t) /\ Len(g) + (j - Len(g)) = 0 + j
        BY <1>1, <1>2, <2>2
      <3>2. t[j - Len(g)] = q[Len(g) + (j - Len(g))] BY Zenon, <3>1 DEF Slice
      <3> QED BY Zenon, <1>2, <2>2, <3>1, <3>2
    <2> QED BY Zenon, <2>1, <2>2
  <1> QED BY Zenon, <1>2, <1>3, <1>4 DEF Slice

LEMMA SliceIsSubSeq ==
    ASSUME NEW S, NEW q \in Seq(S), NEW s \in Seq(S), NEW u \in Nat, Slice(q, s, u)
    PROVE  s = SubSeq(q, u + 1, u + Len(s))
  <1> DEFINE t == SubSeq(q, u + 1, u + Len(s))
  <1>1. Len(s) \in Nat /\ Len(q) \in Nat /\ u + Len(s) <= Len(q) BY DEF Slice
  <1>2. PICK e \in Nat : e = u + Len(s) /\ u <= e /\ e <= Len(q) BY <1>1
  <1>3. t = SubSeq(q, u + 1, e) BY Zenon, <1>2
  <1>4. /\ t \in Seq(S) /\ Len(t) = e - u
        /\ \A i \in 1 .. e - u : t[i] = q[u + i]
    <2>1. LET w == SubSeq(q, u + 1, e) IN
          w \in Seq(S) /\ Len(w) = e - u /\ \A i \in 1 .. e - u : w[i] = q[u + i]
      <3>1. u <= e /\ e <= Len(q) BY Zenon, <1>2
      <3> HIDE DEF t
      <3> QED BY ZenonT(60), <3>1, PartOf
    <2> QED BY Zenon, <1>3, <2>1
  <1> HIDE DEF t
  <1>5. Len(t) = Len(s) BY <1>1, <1>2, <1>4
  <1>6. ASSUME NEW j \in 1 .. Len(s) PROVE s[j] = t[j]
    <2>1. j \in 1 .. e - u BY <1>1, <1>2
    <2> QED BY Zenon, <1>4, <2>1 DEF Slice
  <1>7. s = t BY Zenon, <1>4, <1>5, <1>6, SeqEqual
  <1> QED BY Zenon, <1>7 DEF t

-----------------------------------------------------------------------------
(* The steps. *)

\* Lengths, and what an index of a message gives.
LEMMA Typed ==
    ASSUME Types
    PROVE  /\ Len(sent) \in Nat /\ Len(got) \in Nat /\ Len(acks) \in Nat
           /\ Len(msgs) \in Nat /\ mcu.reports \in Seq(Value)
           /\ Len(mcu.reports) \in Nat /\ mcu.ack_count \in Nat
           /\ \A i \in 1 .. Len(msgs) : msgs[i].state \in Seq(Value)
                                       /\ Len(msgs[i].state) \in Nat
           /\ \A i \in 1 .. Len(acks) : acks[i] \in Nat
  <1>1. mcu.reports \in Seq(Value) /\ mcu.ack_count \in Nat BY Zenon DEF Types, Struct
  <1>2. ASSUME NEW i \in 1 .. Len(msgs) PROVE msgs[i].state \in Seq(Value)
    <2>1. msgs[i] \in Message BY DEF Types
    <2> QED BY Zenon, <2>1 DEF Message
  <1>3. \A i \in 1 .. Len(acks) : acks[i] \in Nat BY DEF Types
  <1>4. Len(sent) \in Nat /\ Len(got) \in Nat /\ Len(acks) \in Nat /\ Len(msgs) \in Nat
    BY DEF Types
  <1> QED BY SMTT(60), <1>1, <1>2, <1>3, <1>4

LEMMA IsStruct ==
    ASSUME NEW p \in Value, NEW l \in Value, NEW r \in Seq(Value), NEW a \in Nat,
           NEW t \in Nat
    PROVE  [pressed |-> p, last_pressed |-> l, reports |-> r, ack_count |-> a,
            retransmit_state |-> t] \in Struct
  BY Zenon DEF Struct

LEMMA InitInv == Init => Inv
  <1> SUFFICES ASSUME Init PROVE Inv BY Zenon
  <1>1. Len(<< >>) = 0 /\ << >> \in Seq(Value) /\ << >> \in Seq(Message)
        /\ << >> \in Seq(Nat)
    OBVIOUS
  <1>2. /\ sent = << >> /\ got = << >> /\ msgs = << >> /\ acks = << >>
        /\ mcu.reports = << >> /\ mcu.ack_count = Earlier % AckMod
        /\ ack_count = Earlier
    BY Zenon DEF Init
  <1>3. Earlier % AckMod \in Nat BY ReportsAssumption
  <1>4. Types
    <2>1. pin \in Value BY Zenon DEF Init, Value
    <2>2. mcu \in Struct BY <1>1, <1>3, <2>1 DEF Init, Struct, BF_ACKED
    <2> QED BY Zenon, <1>1, <1>2, <2>1, <2>2, ReportsAssumption DEF Types
  <1>5. Unacked = 0 BY <1>1, <1>2 DEF Unacked
  <1>6. \A s : Len(s) = 0 => Slice(<< >>, s, 0) BY DEF Slice
  <1>7. BufferOK BY <1>1, <1>2, <1>5, <1>6, ReportsAssumption DEF BufferOK
  <1>8. GotOK BY <1>1, <1>2, <1>6, ReportsAssumption DEF GotOK
  <1>9. AcksOK
    <2> DEFINE upto == [i \in 1 .. Len(acks) + 1 |-> 0]
    <2>1. Freed(acks, Unacked, Len(got), upto) BY <1>1, <1>2, <1>5 DEF Freed
    <2>2. upto \in [1 .. Len(acks) + 1 -> 0 .. Len(got)] BY <1>1, <1>2
    <2> QED BY Zenon, <2>1, <2>2 DEF AcksOK
  <1>10. MsgsOK
    <2> DEFINE start == [i \in 1 .. Len(msgs) |-> 0]
    <2>1. 1 .. Len(msgs) = {} BY <1>1, <1>2
    <2>2. Placed(msgs, sent, Len(got), start) BY Zenon, <2>1 DEF Placed
    <2>3. start \in [1 .. Len(msgs) -> 0 .. Len(got)] BY <1>1, <1>2
    <2> QED BY Zenon, <2>2, <2>3 DEF MsgsOK
  <1> QED BY Zenon, <1>4, <1>7, <1>8, <1>9, <1>10 DEF Inv

\* Steps of the buttons themselves and of the host's main thread.
LEMMA FrameInv ==
    ASSUME Inv, pin' \in Value, UNCHANGED <<mcu, sent, got, msgs, acks, ack_count>>
    PROVE  Inv'
  <1>1. Types' BY Zenon DEF Inv, Types
  <1>2. Unacked' = Unacked BY Zenon DEF Unacked
  <1>3. BufferOK' /\ GotOK' BY Zenon, <1>2 DEF Inv, BufferOK, GotOK, Slice
  <1>4. AcksOK' BY Zenon, <1>2 DEF Inv, AcksOK, Freed
  <1>5. MsgsOK'
    <2>1. PICK start \in [1 .. Len(msgs) -> 0 .. Len(got)] :
        Placed(msgs, sent, Len(got), start)
      BY Zenon DEF Inv, MsgsOK
    <2> QED BY Zenon, <2>1 DEF MsgsOK
  <1> QED BY Zenon, <1>1, <1>3, <1>4, <1>5 DEF Inv

LEMMA PinChangeInv == ASSUME Inv, PinChange PROVE Inv'
  <1>1. pin' \in Value BY Zenon DEF Inv, Types, PinChange, Value
  <1>2. UNCHANGED <<mcu, sent, got, msgs, acks, ack_count>>
    BY Zenon DEF PinChange, mcuVars, line, hostVars
  <1> QED BY Zenon, <1>1, <1>2, FrameInv

\* A sample that makes a report puts it at the end of both sequences.
LEMMA EventInv == ASSUME Inv, buttons_event PROVE Inv'
  <1> DEFINE report == Debounced # mcu.pressed /\ Len(mcu.reports) < MaxReports
             before == IF report THEN BF_PENDING ELSE mcu.retransmit_state
             back == Countdown(before)
  <1>1. /\ mcu' = [mcu EXCEPT !.pressed = Debounced, !.last_pressed = pin,
                     !.reports = IF report THEN Append(@, Debounced) ELSE @,
                     !.retransmit_state = back]
        /\ sent' = IF report THEN Append(sent, Debounced) ELSE sent
        /\ UNCHANGED <<pin, got, msgs, acks, ack_count>>
    BY Zenon DEF buttons_event, line, hostVars
  <1>2. Types /\ mcu \in Struct /\ pin \in Value /\ mcu.pressed \in Value
        /\ mcu.retransmit_state \in Nat
    BY Zenon DEF Inv, Types, Struct
  <1>3. Debounced \in Value BY Zenon, <1>2 DEF Debounced, Value
  <1>4. back \in Nat
    <2>1. before \in Nat BY <1>2 DEF BF_PENDING
    <2> HIDE DEF before
    <2> QED BY <2>1 DEF Countdown, BF_NO_RETRANSMIT
  <1> HIDE DEF back, before
  <1>5. /\ mcu'.reports = IF report THEN Append(mcu.reports, Debounced) ELSE mcu.reports
        /\ mcu'.ack_count = mcu.ack_count
    BY Zenon, <1>1, <1>2 DEF Struct
  <1>6. Len(sent) \in Nat /\ Len(got) \in Nat /\ mcu.reports \in Seq(Value)
        /\ Len(mcu.reports) \in Nat
    BY Zenon, <1>2, Typed
  <1>7. Unacked \in Nat /\ Unacked + Len(mcu.reports) = Len(sent)
        /\ Slice(sent, mcu.reports, Unacked) /\ Len(mcu.reports) <= MaxReports
    BY <1>6 DEF Inv, BufferOK, Unacked
  <1>8. sent \in Seq(Value) BY Zenon, <1>2 DEF Types
  <1>9. Types'
    <2>1. mcu'.reports \in Seq(Value) /\ sent' \in Seq(Value)
      BY <1>1, <1>3, <1>5, <1>6, <1>8
    <2>2. mcu' = [pressed |-> Debounced, last_pressed |-> pin, reports |-> mcu'.reports,
                  ack_count |-> mcu.ack_count, retransmit_state |-> back]
      BY Zenon, <1>1, <1>2 DEF Struct
    <2>3. mcu.ack_count \in Nat BY Zenon, <1>2 DEF Struct
    <2>4. mcu' \in Struct
      BY ZenonT(60), <1>2, <1>3, <1>4, <2>1, <2>2, <2>3, IsStruct
    <2> QED BY Zenon, <1>1, <1>2, <2>1, <2>4 DEF Types
  <1>10. /\ Unacked' = Unacked /\ Len(mcu'.reports) <= MaxReports
         /\ Slice(sent', mcu'.reports, Unacked)
         /\ \A s \in Seq(Value), u \in Nat : Slice(sent, s, u) => Slice(sent', s, u)
    <2>1. CASE report
      <3>1. mcu'.reports = Append(mcu.reports, Debounced) /\ sent' = Append(sent, Debounced)
        BY Zenon, <1>1, <1>5, <2>1
      <3>2. Len(mcu'.reports) = Len(mcu.reports) + 1 /\ Len(sent') = Len(sent) + 1
        BY <1>3, <1>6, <1>8, <3>1
      <3>3. Unacked' = Unacked BY <1>6, <3>2 DEF Unacked
      <3>4. Len(mcu'.reports) <= MaxReports
        BY <1>6, <2>1, <3>2, ReportsAssumption
      <3>5. Slice(sent', mcu'.reports, Unacked)
        BY Zenon, <1>3, <1>6, <1>7, <1>8, <3>1, SliceGrows
      <3>6. \A s \in Seq(Value), u \in Nat : Slice(sent, s, u) => Slice(sent', s, u)
        BY Zenon, <1>3, <1>8, <3>1, SliceGrows
      <3> QED BY Zenon, <3>3, <3>4, <3>5, <3>6
    <2>2. CASE ~ report
      <3>1. mcu'.reports = mcu.reports /\ sent' = sent BY Zenon, <1>1, <1>5, <2>2
      <3>2. Unacked' = Unacked BY Zenon, <3>1 DEF Unacked
      <3> QED BY Zenon, <1>7, <3>1, <3>2
    <2> QED BY Zenon, <2>1, <2>2
  <1>11. BufferOK'
    BY Zenon, <1>1, <1>5, <1>10 DEF Inv, BufferOK, Slice
  <1>12. GotOK'
    <2>1. Slice(sent', got, 0) BY Zenon, <1>2, <1>10 DEF Inv, GotOK, Types
    <2> QED BY Zenon, <1>1, <2>1 DEF Inv, GotOK, Slice
  <1>13. AcksOK' BY Zenon, <1>1, <1>10 DEF Inv, AcksOK, Freed
  <1>14. MsgsOK'
    <2>1. PICK start \in [1 .. Len(msgs) -> 0 .. Len(got)] :
        Placed(msgs, sent, Len(got), start)
      BY Zenon DEF Inv, MsgsOK
    <2>2. ASSUME NEW i \in 1 .. Len(msgs) PROVE Slice(sent', msgs[i].state, start[i])
      <3>1. start[i] \in Nat BY <1>6, <2>1
      <3>2. msgs[i].state \in Seq(Value) BY Zenon, <1>2, Typed
      <3> QED BY Zenon, <1>10, <2>1, <3>1, <3>2 DEF Placed
    <2>3. Placed(msgs', sent', Len(got'), start) BY Zenon, <1>1, <2>1, <2>2 DEF Placed, Slice
    <2> QED BY Zenon, <1>1, <2>3 DEF MsgsOK
  <1> QED BY Zenon, <1>9, <1>11, <1>12, <1>13, <1>14 DEF Inv

\* A message carries the reports that are not acknowledged, and their place.
LEMMA TaskInv == ASSUME Inv, buttons_task PROVE Inv'
  <1>1. UNCHANGED <<pin, sent, got, acks, ack_count>>
    BY Zenon DEF buttons_task, hostVars
  <1>2. CASE UNCHANGED <<mcu, msgs>>
    <2>1. pin' \in Value BY Zenon, <1>1 DEF Inv, Types
    <2> QED BY Zenon, <1>1, <1>2, <2>1, FrameInv
  <1>3. CASE ~ UNCHANGED <<mcu, msgs>>
    <2> DEFINE m == [ack_count |-> mcu.ack_count, state |-> mcu.reports]
    <2>1. mcu' = [mcu EXCEPT !.retransmit_state = RETRANSMIT_COUNT]
          /\ msgs' = Append(msgs, m)
      BY Zenon, <1>3 DEF buttons_task
    <2>2. Types /\ mcu \in Struct /\ msgs \in Seq(Message) BY Zenon DEF Inv, Types
    <2>3. mcu'.reports = mcu.reports /\ mcu'.ack_count = mcu.ack_count
          /\ mcu' \in Struct
      <3>1. /\ mcu.pressed \in Value /\ mcu.last_pressed \in Value
            /\ mcu.reports \in Seq(Value) /\ mcu.ack_count \in Nat
        BY Zenon, <2>2 DEF Struct
      <3>2. mcu' = [pressed |-> mcu.pressed, last_pressed |-> mcu.last_pressed,
                    reports |-> mcu.reports, ack_count |-> mcu.ack_count,
                    retransmit_state |-> RETRANSMIT_COUNT]
        BY Zenon, <2>1, <2>2 DEF Struct
      <3>3. mcu' \in Struct BY Zenon, <3>1, <3>2, IsStruct, ReportsAssumption
      <3> QED BY Zenon, <3>2, <3>3
    <2>4. /\ Len(sent) \in Nat /\ Len(got) \in Nat /\ Len(msgs) \in Nat
          /\ mcu.reports \in Seq(Value) /\ Len(mcu.reports) \in Nat
          /\ mcu.ack_count \in Nat
      BY Zenon, <2>2, Typed
    <2>5. m \in Message /\ m.state = mcu.reports /\ m.ack_count = mcu.ack_count
      BY Zenon, <2>4 DEF Message
    <2> HIDE DEF m
    <2>6. /\ Len(msgs') = Len(msgs) + 1 /\ msgs' \in Seq(Message)
          /\ msgs'[Len(msgs) + 1] = m
          /\ \A i \in 1 .. Len(msgs) : msgs'[i] = msgs[i]
      BY <2>1, <2>2, <2>5
    <2>7. Types' BY Zenon, <1>1, <2>2, <2>3, <2>6 DEF Types
    <2>8. Unacked' = Unacked BY Zenon, <1>1, <2>3 DEF Unacked
    <2>9. BufferOK' /\ GotOK'
      BY Zenon, <1>1, <2>3, <2>8 DEF Inv, BufferOK, GotOK, Slice
    <2>10. AcksOK' BY Zenon, <1>1, <2>8 DEF Inv, AcksOK, Freed
    <2>11. MsgsOK'
      <3>1. PICK start \in [1 .. Len(msgs) -> 0 .. Len(got)] :
        Placed(msgs, sent, Len(got), start)
        BY Zenon DEF Inv, MsgsOK
      <3> DEFINE n == Len(msgs)
                 st == [i \in 1 .. n + 1 |-> IF i = n + 1 THEN Unacked ELSE start[i]]
      <3>2. /\ Unacked \in 0 .. Len(got) /\ Len(mcu.reports) <= MaxReports
            /\ Slice(sent, mcu.reports, Unacked)
            /\ mcu.ack_count = (Earlier + Unacked) % AckMod
        BY <2>4 DEF Inv, BufferOK, Unacked
      <3>3. Unacked + Len(mcu.reports) = Len(sent) BY <2>4 DEF Unacked
      <3>4. Len(got) <= Len(sent) BY <2>4 DEF Inv, GotOK, Slice
      <3>5. st \in [1 .. n + 1 -> 0 .. Len(got)]
            /\ st[n + 1] = Unacked /\ \A i \in 1 .. n : st[i] = start[i]
        BY <2>4, <3>1, <3>2
      <3> HIDE DEF st
      <3>6. ASSUME NEW i \in 1 .. n + 1
            PROVE  /\ Slice(sent, msgs'[i].state, st[i])
                   /\ Len(msgs'[i].state) <= MaxReports
                   /\ msgs'[i].ack_count = (Earlier + st[i]) % AckMod
                   /\ Len(got) <= st[i] + Len(msgs'[i].state)
        <4>1. CASE i = n + 1
          <5>1. msgs'[i] = m /\ st[i] = Unacked BY Zenon, <2>6, <3>5, <4>1
          <5>2. Len(got) <= Unacked + Len(mcu.reports) BY Zenon, <3>3, <3>4
          <5> QED BY Zenon, <2>5, <3>2, <5>1, <5>2
        <4>2. CASE i # n + 1
          <5>1. i \in 1 .. n BY <2>4, <4>2
          <5>2. msgs'[i] = msgs[i] /\ st[i] = start[i] BY Zenon, <2>6, <3>5, <5>1
          <5> QED BY Zenon, <3>1, <5>1, <5>2 DEF Placed
        <4> QED BY Zenon, <4>1, <4>2
      <3>7. ASSUME NEW i \in 1 .. n + 1, NEW j \in 1 .. n + 1, i < j
            PROVE  st[i] + Len(msgs'[i].state) <= st[j] + Len(msgs'[j].state)
        <4>1. i \in 1 .. n BY <2>4, <3>7
        <4>2. msgs'[i] = msgs[i] /\ st[i] = start[i] BY Zenon, <2>6, <3>5, <4>1
        <4>3. CASE j = n + 1
          <5>1. msgs'[j].state = mcu.reports /\ st[j] = Unacked
            BY Zenon, <2>5, <2>6, <3>5, <4>3
          <5>2. start[i] + Len(msgs[i].state) <= Len(sent)
            BY Zenon, <3>1, <4>1 DEF Placed, Slice
          <5> QED BY Zenon, <3>3, <4>2, <5>1, <5>2
        <4>4. CASE j # n + 1
          <5>1. j \in 1 .. n BY <2>4, <4>4
          <5>2. msgs'[j] = msgs[j] /\ st[j] = start[j] BY Zenon, <2>6, <3>5, <5>1
          <5>3. start[i] + Len(msgs[i].state) <= start[j] + Len(msgs[j].state)
            BY Zenon, <3>1, <3>7, <4>1, <5>1 DEF Placed
          <5> QED BY Zenon, <4>2, <5>2, <5>3
        <4> QED BY Zenon, <4>3, <4>4
      <3>8. Placed(msgs', sent, Len(got), st) BY Zenon, <2>6, <3>6, <3>7 DEF Placed
      <3> QED BY Zenon, <1>1, <2>6, <3>5, <3>8 DEF MsgsOK
    <2> QED BY Zenon, <2>7, <2>9, <2>10, <2>11 DEF Inv
  <1> QED BY Zenon, <1>2, <1>3

\* An acknowledgement frees what the host had when it sent it.
LEMMA AckInv == ASSUME Inv, command_buttons_ack PROVE Inv'
  <1>1. /\ acks # << >> /\ acks' = Tail(acks) /\ mcu' = Acked(Head(acks))
        /\ UNCHANGED <<pin, sent, got, msgs, ack_count>>
    BY Zenon DEF command_buttons_ack, hostVars
  <1>2. /\ Types /\ mcu \in Struct /\ acks \in Seq(Nat) /\ sent \in Seq(Value)
        /\ BufferOK /\ AcksOK
    BY Zenon DEF Inv, Types
  <1>3. /\ Len(sent) \in Nat /\ Len(got) \in Nat /\ Len(acks) \in Nat
        /\ mcu.reports \in Seq(Value) /\ Len(mcu.reports) \in Nat
        /\ mcu.ack_count \in Nat
    BY Zenon, <1>2, Typed
  <1>4. /\ acks' \in Seq(Nat) /\ Len(acks) > 0 /\ Len(acks') = Len(acks) - 1
        /\ Head(acks) = acks[1] /\ acks[1] \in Nat
        /\ \A i \in 1 .. Len(acks') : acks'[i] = acks[i + 1]
    BY <1>1, <1>2
  <1>5. PICK c \in Nat : c = Head(acks) BY Zenon, <1>4
  <1>6. PICK upto \in [1 .. Len(acks) + 1 -> 0 .. Len(got)] :
            Freed(acks, Unacked, Len(got), upto)
    BY Zenon, <1>2 DEF AcksOK
  <1>7. /\ Unacked \in Nat /\ Unacked + Len(mcu.reports) = Len(sent)
        /\ Slice(sent, mcu.reports, Unacked) /\ Len(mcu.reports) <= MaxReports
        /\ Len(got) <= Len(sent)
    <2>1. 0 <= Unacked /\ Slice(sent, mcu.reports, Unacked) /\ Len(mcu.reports) <= MaxReports
      BY Zenon, <1>2 DEF BufferOK
    <2>2. 0 + Len(got) <= Len(sent) BY Zenon DEF Inv, GotOK, Slice
    <2>3. Unacked = Len(sent) - Len(mcu.reports) BY Zenon DEF Unacked
    <2>4. PICK a \in Nat, b \in Nat : a = Len(sent) /\ b = Len(mcu.reports) BY Zenon, <1>3
    <2>5. Unacked = a - b BY Zenon, <2>3, <2>4
    <2>6. Unacked \in Nat /\ Unacked + b = a BY <2>1, <2>5
    <2>7. Len(got) <= Len(sent) BY <1>3, <2>2
    <2> QED BY Zenon, <2>1, <2>4, <2>6, <2>7
  <1>8. upto[2] = Unacked + c /\ Unacked + c <= Len(got) /\ c <= Len(mcu.reports)
    <2>1. 1 \in 1 .. Len(acks) /\ 2 \in 1 .. Len(acks) + 1 /\ 1 + 1 = 2 BY SMTT(60), <1>3, <1>4
    <2>2. upto[1 + 1] = upto[1] + acks[1] /\ upto[1] = Unacked
      BY Zenon, <1>6, <2>1 DEF Freed
    <2>3. upto[2] = Unacked + c BY Zenon, <1>4, <1>5, <2>1, <2>2
    <2>4. upto[2] \in 0 .. Len(got) BY Zenon, <1>6, <2>1
    <2> QED BY SMTT(60), <1>3, <1>7, <2>3, <2>4
  <1> DEFINE rest == SubSeq(mcu.reports, c + 1, Len(mcu.reports))
             back == IF c >= Len(mcu.reports) THEN BF_ACKED ELSE mcu.retransmit_state
  <1>9. rest \in Seq(Value) /\ Len(rest) = Len(mcu.reports) - c
        /\ Slice(sent, rest, Unacked + c)
    <2>1. c \in 0 .. Len(mcu.reports) BY <1>3, <1>8
    <2> QED BY Zenon, <1>2, <1>3, <1>7, <2>1, SliceDrop
  <1>10. (mcu.ack_count + c) % AckMod = (Earlier + (Unacked + c)) % AckMod
         /\ (mcu.ack_count + c) % AckMod \in Nat
    <2>1. AckMod \in Nat /\ AckMod > 0 /\ Earlier \in Nat BY ReportsAssumption
    <2>2. PICK e \in Int : e = Earlier + Unacked BY <1>7, <2>1
    <2>3. mcu.ack_count = e % AckMod BY Zenon, <1>2, <2>2 DEF BufferOK
    <2>4. c \in Int OBVIOUS
    <2>5. ((e % AckMod) + c) % AckMod = (e + c) % AckMod BY Zenon, <2>1, <2>4, ModAdd
    <2>6. e + c = Earlier + (Unacked + c) BY <1>7, <2>1, <2>2
    <2>7. (mcu.ack_count + c) % AckMod \in Nat BY <1>3, <2>1
    <2> QED BY Zenon, <2>3, <2>5, <2>6, <2>7
  <1>11. back \in Nat
    <2>1. mcu.retransmit_state \in Nat BY Zenon, <1>2 DEF Struct
    <2> QED BY <2>1 DEF BF_ACKED
  <1>12. mcu' = [pressed |-> mcu.pressed, last_pressed |-> mcu.last_pressed,
                 reports |-> rest, ack_count |-> (mcu.ack_count + c) % AckMod,
                 retransmit_state |-> back]
    <2>1. mcu' = [mcu EXCEPT !.ack_count = (mcu.ack_count + c) % AckMod,
                             !.reports = rest, !.retransmit_state = back]
      BY Zenon, <1>1, <1>2, <1>5 DEF Acked, Struct
    <2> HIDE DEF rest, back
    <2> QED BY Zenon, <1>2, <2>1 DEF Struct
  <1> HIDE DEF rest, back
  <1>13. mcu'.reports = rest /\ mcu'.ack_count = (mcu.ack_count + c) % AckMod BY Zenon, <1>12
  <1>14. Types'
    <2>1. mcu.pressed \in Value /\ mcu.last_pressed \in Value BY Zenon, <1>2 DEF Struct
    <2>2. mcu' \in Struct BY Zenon, <1>9, <1>10, <1>11, <1>12, <2>1, IsStruct
    <2> QED BY Zenon, <1>1, <1>2, <1>4, <2>2 DEF Types
  <1>15. Unacked' = Unacked + c
    <2>1. Unacked' = Len(sent) - Len(rest) BY Zenon, <1>1, <1>13 DEF Unacked
    <2>2. PICK a \in Nat, b \in Nat : a = Len(sent) /\ b = Len(mcu.reports) BY Zenon, <1>3
    <2>3. Unacked' = a - (b - c) /\ Unacked + b = a BY Zenon, <1>7, <1>9, <2>1, <2>2
    <2> QED BY <1>7, <2>3
  <1>16. BufferOK'
    <2>1. 0 <= Unacked + c /\ Len(rest) <= MaxReports
      BY SMTT(60), <1>3, <1>7, <1>9, ReportsAssumption
    <2> QED BY Zenon, <1>1, <1>8, <1>9, <1>10, <1>13, <1>15, <2>1 DEF BufferOK, Slice
  <1>17. GotOK' BY Zenon, <1>1 DEF Inv, GotOK, Slice
  <1>18. AcksOK'
    <2> DEFINE up == [i \in 1 .. Len(acks') + 1 |-> upto[i + 1]]
    <2>1. up \in [1 .. Len(acks') + 1 -> 0 .. Len(got)] BY SMTT(60), <1>3, <1>4, <1>6
    <2>2. up[1] = Unacked + c BY <1>3, <1>4, <1>8
    <2>3. up[Len(acks') + 1] = Len(got)
      <3>1. up[Len(acks') + 1] = upto[Len(acks) + 1] BY <1>3, <1>4
      <3> QED BY Zenon, <1>6, <3>1 DEF Freed
    <2>4. ASSUME NEW i \in 1 .. Len(acks') PROVE up[i + 1] = up[i] + acks'[i]
      <3>1. PICK j \in Int : j = i + 1 OBVIOUS
      <3>2. j \in 1 .. Len(acks) /\ up[i] = upto[j] /\ up[i + 1] = upto[j + 1]
            /\ acks'[i] = acks[j]
        BY SMTT(60), <1>3, <1>4, <3>1
      <3> QED BY Zenon, <1>6, <3>2 DEF Freed
    <2> HIDE DEF up
    <2>5. Freed(acks', Unacked', Len(got'), up)
      BY Zenon, <1>1, <1>15, <2>2, <2>3, <2>4 DEF Freed
    <2> QED BY Zenon, <1>1, <2>1, <2>5 DEF AcksOK
  <1>19. MsgsOK' BY Zenon, <1>1 DEF Inv, MsgsOK
  <1> QED BY Zenon, <1>14, <1>16, <1>17, <1>18, <1>19 DEF Inv

\* The messages behind the first are placed as they were, up to where it ends.
LEMMA PlacedTail ==
    ASSUME Types, NEW start \in [1 .. Len(msgs) -> 0 .. Len(got)], msgs # << >>,
           Placed(msgs, sent, Len(got), start), NEW g \in Nat, Len(got) <= g,
           g <= start[1] + Len(msgs[1].state)
    PROVE  /\ Tail(msgs) \in Seq(Message)
           /\ \E st \in [1 .. Len(Tail(msgs)) -> 0 .. g] : Placed(Tail(msgs), sent, g, st)
  <1> DEFINE n == Len(msgs)
             ms == Tail(msgs)
             st == [i \in 1 .. Len(ms) |-> start[i + 1]]
  <1>1. n \in Nat /\ Len(got) \in Nat /\ msgs \in Seq(Message)
        /\ \A i \in 1 .. n : Len(msgs[i].state) \in Nat
    BY Zenon, Typed DEF Types
  <1>2. n > 0 /\ ms \in Seq(Message) /\ Len(ms) = n - 1
        /\ \A i \in 1 .. n - 1 : ms[i] = msgs[i + 1]
    BY <1>1
  <1>3. st \in [1 .. Len(ms) -> 0 .. g] BY SMTT(60), <1>1, <1>2
  <1>4. \A i \in 1 .. n - 1 : st[i] = start[i + 1] BY Zenon, <1>2
  <1> HIDE DEF st, ms
  <1>5. ASSUME NEW i \in 1 .. n - 1
        PROVE  /\ Slice(sent, ms[i].state, st[i])
               /\ Len(ms[i].state) <= MaxReports
               /\ ms[i].ack_count = (Earlier + st[i]) % AckMod
               /\ g <= st[i] + Len(ms[i].state)
    <2>1. PICK j \in Int : j = i + 1 OBVIOUS
    <2>2. 1 \in 1 .. n /\ j \in 1 .. n /\ 1 < j BY <1>1, <1>2, <2>1
    <2>3. ms[i] = msgs[j] /\ st[i] = start[j] BY Zenon, <1>2, <1>4, <2>1
    <2>4. start[1] + Len(msgs[1].state) <= start[j] + Len(msgs[j].state)
      BY Zenon, <2>2 DEF Placed
    <2>5. start[1] \in Nat /\ start[j] \in Nat /\ Len(msgs[1].state) \in Nat
          /\ Len(msgs[j].state) \in Nat
      <3>1. start[1] \in 0 .. Len(got) /\ start[j] \in 0 .. Len(got) BY Zenon, <2>2
      <3>2. \A k \in 0 .. Len(got) : k \in Nat BY <1>1
      <3> QED BY Zenon, <1>1, <2>2, <3>1, <3>2
    <2>6. g <= start[j] + Len(msgs[j].state)
      <3>1. PICK a \in Nat, b \in Nat, c \in Nat, d \in Nat :
               /\ a = start[1] /\ b = Len(msgs[1].state)
               /\ c = start[j] /\ d = Len(msgs[j].state)
        BY Zenon, <2>5
      <3>2. g <= a + b /\ a + b <= c + d BY Zenon, <2>4, <3>1
      <3>3. g <= c + d BY <3>2
      <3> QED BY Zenon, <3>1, <3>3
    <2> QED BY Zenon, <2>2, <2>3, <2>6 DEF Placed
  <1>6. ASSUME NEW i \in 1 .. n - 1, NEW k \in 1 .. n - 1, i < k
        PROVE  st[i] + Len(ms[i].state) <= st[k] + Len(ms[k].state)
    <2>1. PICK j \in Int, l \in Int : j = i + 1 /\ l = k + 1 OBVIOUS
    <2>2. j \in 1 .. n /\ l \in 1 .. n /\ j < l BY <1>1, <1>2, <1>6, <2>1
    <2>3. ms[i] = msgs[j] /\ st[i] = start[j] /\ ms[k] = msgs[l] /\ st[k] = start[l]
      BY Zenon, <1>2, <1>4, <2>1
    <2> QED BY Zenon, <2>2, <2>3 DEF Placed
  <1>7. Placed(ms, sent, g, st) BY Zenon, <1>2, <1>5, <1>6 DEF Placed
  <1> QED BY Zenon, <1>2, <1>3, <1>7 DEF ms

LEMMA DropInv == ASSUME Inv, Drop PROVE Inv'
  <1>1. /\ msgs # << >> /\ msgs' = Tail(msgs)
        /\ UNCHANGED <<pin, mcu, acks, ack_count, got, sent>>
    BY Zenon DEF Drop, mcuVars, hostVars
  <1>2. Types BY Zenon DEF Inv
  <1>3. PICK start \in [1 .. Len(msgs) -> 0 .. Len(got)] :
            Placed(msgs, sent, Len(got), start)
    BY Zenon DEF Inv, MsgsOK
  <1>4. Len(got) \in Nat /\ Len(msgs) \in Nat /\ msgs \in Seq(Message)
    BY Zenon, <1>2, Typed DEF Types
  <1>5. Len(got) <= Len(got) /\ 1 \in 1 .. Len(msgs) BY <1>1, <1>4
  <1>6. Len(got) <= start[1] + Len(msgs[1].state) BY Zenon, <1>3, <1>5 DEF Placed
  <1>7. /\ Tail(msgs) \in Seq(Message)
        /\ \E st \in [1 .. Len(Tail(msgs)) -> 0 .. Len(got)] :
              Placed(Tail(msgs), sent, Len(got), st)
    BY Zenon, <1>1, <1>2, <1>3, <1>4, <1>5, <1>6, PlacedTail
  <1>8. Types' BY Zenon, <1>1, <1>2, <1>7 DEF Types
  <1>9. Unacked' = Unacked BY Zenon, <1>1 DEF Unacked
  <1>10. BufferOK' /\ GotOK' BY Zenon, <1>1, <1>9 DEF Inv, BufferOK, GotOK, Slice
  <1>11. AcksOK' BY Zenon, <1>1, <1>9 DEF Inv, AcksOK
  <1>12. MsgsOK' BY Zenon, <1>1, <1>7 DEF MsgsOK
  <1> QED BY Zenon, <1>8, <1>10, <1>11, <1>12 DEF Inv

\* How far the host is ahead of the first message's start: the 8-bit counts
\* say it, for it is less than half of their range.
LEMMA Expanded ==
    ASSUME NEW u \in Nat, NEW d \in Nat, d < AckMod \div 2,
           ack_count = Earlier + (u + d), NEW m,
           m.ack_count = (Earlier + u) % AckMod
    PROVE  AckDiff(m) = d
  <1>1. Earlier \in Nat /\ AckMod \in Nat /\ d < AckMod /\ ~ (d >= AckMod \div 2)
    BY ReportsAssumption
  <1>2. PICK a \in Int : a = Earlier + u BY <1>1
  <1>3. ack_count = a + d BY <1>1, <1>2
  <1>4. (a + d - (a % AckMod)) % AckMod = d BY Zenon, <1>1, <1>2, ModDiff
  <1>5. m.ack_count = a % AckMod BY Zenon, <1>2
  <1>6. (ack_count - m.ack_count) % AckMod = d
    <2>1. ack_count - m.ack_count = a + d - (a % AckMod) BY <1>1, <1>3, <1>5
    <2> QED BY Zenon, <1>4, <2>1
  <1> QED BY Zenon, <1>1, <1>6 DEF AckDiff

\* A message gives the host exactly the reports behind those it has.
LEMMA StateInv == ASSUME Inv, handle_buttons_state PROVE Inv'
  <1> DEFINE m == Head(msgs)
             n == NewCount(m)
             new == SubSeq(m.state, Len(m.state) - n + 1, Len(m.state))
  <1>1. /\ msgs # << >> /\ msgs' = Tail(msgs) /\ UNCHANGED <<pin, mcu, sent>>
        /\ IF n <= 0 THEN UNCHANGED <<acks, ack_count, got>>
           ELSE acks' = Append(acks, n) /\ ack_count' = ack_count + n
                /\ got' = got \o new
    BY Zenon DEF handle_buttons_state, mcuVars, hostVars
  <1>2. Types /\ BufferOK /\ GotOK /\ AcksOK /\ MsgsOK BY Zenon DEF Inv
  <1>3. PICK start \in [1 .. Len(msgs) -> 0 .. Len(got)] :
            Placed(msgs, sent, Len(got), start)
    BY Zenon, <1>2 DEF MsgsOK
  <1>4. /\ Len(got) \in Nat /\ Len(sent) \in Nat /\ Len(msgs) \in Nat /\ Len(acks) \in Nat
        /\ msgs \in Seq(Message) /\ acks \in Seq(Nat) /\ got \in Seq(Value)
        /\ sent \in Seq(Value) /\ ack_count \in Nat
    BY Zenon, <1>2, Typed DEF Types
  <1>5. 1 \in 1 .. Len(msgs) /\ m = msgs[1] BY <1>1, <1>4
  <1>6. PICK u \in Nat : u = start[1] /\ u <= Len(got)
    <2>1. start[1] \in 0 .. Len(got) BY Zenon, <1>5
    <2> QED BY <1>4, <2>1
  <1>7. m.state \in Seq(Value) /\ Len(m.state) \in Nat BY Zenon, <1>2, <1>5, Typed
  <1>8. /\ Slice(sent, m.state, u) /\ Len(m.state) <= MaxReports
        /\ m.ack_count = (Earlier + u) % AckMod /\ Len(got) <= u + Len(m.state)
    BY Zenon, <1>3, <1>5, <1>6 DEF Placed
  <1>9. PICK g \in Nat, l \in Nat : g = Len(got) /\ l = Len(m.state) BY Zenon, <1>4, <1>7
  <1>10. PICK d \in Nat : g = u + d /\ d <= l /\ d < AckMod \div 2
    <2>1. u <= g /\ g <= u + l /\ l <= MaxReports BY Zenon, <1>6, <1>8, <1>9
    <2>2. g - u \in Nat /\ g = u + (g - u) /\ g - u <= l /\ g - u < AckMod \div 2
      BY <2>1, ReportsAssumption
    <2> QED BY Zenon, <2>2
  <1>11. n = l - d
    <2>1. ack_count = Earlier + (u + d) BY Zenon, <1>2, <1>9, <1>10 DEF GotOK
    <2>2. AckDiff(m) = d BY Zenon, <1>8, <1>10, <2>1, Expanded
    <2> QED BY Zenon, <1>9, <2>2 DEF NewCount
  <1>12. Len(m.state) - n + 1 = d + 1
    <2> HIDE DEF n, m
    <2>1. l - (l - d) + 1 = d + 1 OBVIOUS
    <2> QED BY Zenon, <1>9, <1>11, <2>1
  <1>13. new = SubSeq(m.state, d + 1, Len(m.state)) BY Zenon, <1>12
  <1>14. n \in Nat /\ n = l - d /\ u + l = g + n BY <1>10, <1>11
  <1>15. new \in Seq(Value) /\ Len(new) = n /\ Slice(sent, new, Len(got))
    <2>1. d \in 0 .. Len(m.state) BY <1>9, <1>10
    <2>2. SubSeq(m.state, d + 1, Len(m.state)) \in Seq(Value)
          /\ Len(SubSeq(m.state, d + 1, Len(m.state))) = Len(m.state) - d
          /\ Slice(sent, SubSeq(m.state, d + 1, Len(m.state)), u + d)
      BY Zenon, <1>4, <1>7, <1>8, <2>1, SliceDrop
    <2> QED BY Zenon, <1>9, <1>10, <1>13, <1>14, <2>2
  <1>16. Slice(sent, got, 0) /\ ack_count = Earlier + Len(got) BY Zenon, <1>2 DEF GotOK
  <1> HIDE DEF n, new, m
  <1>17. /\ got' \in Seq(Value) /\ Len(got') = g + n /\ Slice(sent, got', 0)
         /\ ack_count' = Earlier + Len(got')
         /\ ack_count' \in Nat
    <2>1. CASE n <= 0
      <3>1. n = 0 /\ g + n = g BY <1>14, <2>1
      <3> QED BY Zenon, <1>1, <1>4, <1>9, <1>16, <2>1, <3>1
    <2>2. CASE ~ (n <= 0)
      <3>1. got' = got \o new /\ ack_count' = ack_count + n BY Zenon, <1>1, <2>2
      <3>2. got \o new \in Seq(Value) /\ Len(got \o new) = Len(got) + Len(new)
            /\ Slice(sent, got \o new, 0)
        BY Zenon, <1>4, <1>15, <1>16, SliceJoin
      <3>3. Len(got') = g + n BY Zenon, <1>9, <1>15, <3>1, <3>2
      <3>4. ack_count' = Earlier + g + n BY Zenon, <1>9, <1>16, <3>1
      <3>5. ack_count' = Earlier + (g + n) /\ ack_count' \in Nat
        BY <1>14, <3>4, ReportsAssumption
      <3> QED BY Zenon, <3>1, <3>2, <3>3, <3>5
    <2> QED BY Zenon, <2>1, <2>2
  <1>18. Len(got') \in Nat /\ Len(got) <= Len(got')
         /\ Len(got') <= start[1] + Len(msgs[1].state)
    <2>1. g + n \in Nat /\ g <= g + n /\ g + n <= u + l BY <1>14
    <2> QED BY Zenon, <1>5, <1>6, <1>9, <1>17, <2>1
  <1>19. /\ Tail(msgs) \in Seq(Message)
         /\ \E st \in [1 .. Len(Tail(msgs)) -> 0 .. Len(got')] :
               Placed(Tail(msgs), sent, Len(got'), st)
    BY Zenon, <1>1, <1>2, <1>3, <1>18, PlacedTail
  <1>20. MsgsOK' BY Zenon, <1>1, <1>19 DEF MsgsOK
  <1>21. Types'
    <2>1. \A c \in Nat : Append(acks, c) \in Seq(Nat) BY <1>4
    <2>2. acks' \in Seq(Nat) BY Zenon, <1>1, <1>4, <1>14, <2>1
    <2> QED BY Zenon, <1>1, <1>2, <1>17, <1>19, <2>2 DEF Types
  <1>22. GotOK' BY Zenon, <1>1, <1>17 DEF GotOK, Slice
  <1>23. Unacked' = Unacked BY Zenon, <1>1 DEF Unacked
  <1>24. BufferOK'
    <2>1. Unacked \in Int BY <1>2, <1>4, Typed DEF Unacked
    <2>2. Unacked <= Len(got) BY Zenon, <1>2 DEF BufferOK
    <2>3. Unacked <= Len(got') BY <1>4, <1>18, <2>1, <2>2
    <2> QED BY Zenon, <1>1, <1>2, <1>23, <2>3 DEF BufferOK, Slice
  <1>25. AcksOK'
    <2>1. PICK upto \in [1 .. Len(acks) + 1 -> 0 .. Len(got)] :
              Freed(acks, Unacked, Len(got), upto)
      BY Zenon, <1>2 DEF AcksOK
    <2>2. CASE n <= 0
      <3>1. UNCHANGED <<acks, got>> BY Zenon, <1>1, <2>2
      <3> QED BY Zenon, <1>23, <2>1, <3>1 DEF AcksOK
    <2>3. CASE ~ (n <= 0)
      <3> DEFINE k == Len(acks)
                 up == [i \in 1 .. k + 2 |-> IF i = k + 2 THEN g + n ELSE upto[i]]
      <3>1. /\ acks' = Append(acks, n) /\ Len(acks') = k + 1 /\ acks'[k + 1] = n
            /\ \A i \in 1 .. k : acks'[i] = acks[i]
        <4>1. \A c \in Nat : /\ Len(Append(acks, c)) = k + 1
                              /\ Append(acks, c)[k + 1] = c
                              /\ \A i \in 1 .. k : Append(acks, c)[i] = acks[i]
          BY <1>4
        <4>2. acks' = Append(acks, n) /\ n \in Nat BY Zenon, <1>1, <1>14, <2>3
        <4> HIDE DEF k
        <4> QED BY Zenon, <4>1, <4>2
      <3>2. \A i \in 1 .. k + 1 : upto[i] \in 0 .. g BY Zenon, <1>9, <2>1
      <3>3. k \in Nat /\ Len(acks') + 1 = k + 2 BY <1>4, <3>1
      <3>4. /\ up \in [1 .. k + 2 -> 0 .. g + n] /\ up[k + 2] = g + n
            /\ \A i \in 1 .. k + 1 : up[i] = upto[i]
        <4> HIDE DEF k
        <4> QED BY SMTT(60), <1>14, <3>2, <3>3
      <3> HIDE DEF up
      <3>5. up[1] = Unacked
        <4>1. 1 \in 1 .. k + 1 BY <3>3
        <4> QED BY Zenon, <2>1, <3>4, <4>1 DEF Freed
      <3>6. ASSUME NEW i \in 1 .. k + 1 PROVE up[i + 1] = up[i] + acks'[i]
        <4>1. CASE i = k + 1
          <5>1. i + 1 = k + 2 /\ k + 1 \in 1 .. k + 1 BY <3>3, <4>1
          <5>2. up[i] = g BY Zenon, <1>9, <2>1, <3>4, <4>1, <5>1 DEF Freed
          <5> QED BY Zenon, <3>1, <3>4, <4>1, <5>1, <5>2
        <4>2. CASE i # k + 1
          <5>1. i \in 1 .. k /\ i + 1 \in 1 .. k + 1 BY <3>3, <4>2
          <5>2. upto[i + 1] = upto[i] + acks[i] BY Zenon, <2>1, <5>1 DEF Freed
          <5> QED BY Zenon, <3>1, <3>4, <5>1, <5>2
        <4> QED BY Zenon, <4>1, <4>2
      <3>7. Freed(acks', Unacked', Len(got'), up)
        <4>1. Len(acks') + 1 = k + 2 /\ Len(acks') = k + 1 BY Zenon, <3>1, <3>3
        <4> QED BY Zenon, <1>17, <1>23, <3>4, <3>5, <3>6, <4>1 DEF Freed
      <3>8. up \in [1 .. Len(acks') + 1 -> 0 .. Len(got')]
        BY Zenon, <1>17, <3>3, <3>4
      <3> QED BY Zenon, <3>7, <3>8 DEF AcksOK
    <2> QED BY Zenon, <2>2, <2>3
  <1> QED BY Zenon, <1>20, <1>21, <1>22, <1>24, <1>25 DEF Inv

LEMMA NextInv == ASSUME Inv, [Next]_vars PROVE Inv'
  <1> DEFINE Still == UNCHANGED <<pin, mcu, sent, got, msgs, acks, ack_count>>
  <1>1. CASE PinChange BY Zenon, <1>1, PinChangeInv
  <1>2. CASE Micro BY Zenon, <1>2, EventInv, TaskInv, AckInv DEF Micro
  <1>3. CASE Drop BY Zenon, <1>3, DropInv
  <1>4. CASE handle_buttons_state BY Zenon, <1>4, StateInv
  <1>5. Handle => Still
    <2>1. handle_button => Still
      BY Zenon DEF handle_button, mcuSide, mcuVars, line
    <2>2. ASSUME NEW i \in Handlers
          PROVE  button_callback(i) \/ GetMutex(i) \/ LoadDone(i) \/ Return(i) => Still
      BY Zenon DEF button_callback, GetMutex, LoadDone, Return, mcuSide, mcuVars, line,
                   hostVars
    <2> QED BY Zenon, <2>1, <2>2 DEF Handle
  <1>6. Check \/ LineBegins \/ LineEnds => Still
    BY Zenon DEF Check, CheckFires, CheckRuns, CheckEnds, LineBegins, LineEnds,
                 mcuSide, mcuVars, line, hostVars
  <1>7. UNCHANGED vars => Still BY Zenon DEF vars, mcuVars, line, hostVars
  <1>8. CASE Still
    <2>1. pin' \in Value BY Zenon, <1>8 DEF Inv, Types
    <2> QED BY Zenon, <1>8, <2>1, FrameInv
  <1> HIDE DEF Still
  <1> QED BY Zenon, <1>1, <1>2, <1>3, <1>4, <1>5, <1>6, <1>7, <1>8 DEF Next

LEMMA Invariance == Spec => []Inv
  BY InitInv, NextInv, PTL DEF Spec

(* The host hands on the reports of buttons.c in the order they were made,  *)
(* none twice and none skipped, the 8-bit counts of the two sides agree, and *)
(* command_buttons_ack frees only reports the host has, for any buttons, any *)
(* number of lost messages and of messages and acknowledgements under way.   *)
THEOREM ReportsAreHandedOnOnce == Spec => []ReportedOnce
  <1>1. Inv => ReportedOnce
    <2> SUFFICES ASSUME Inv PROVE ReportedOnce BY Zenon
    <2>1. Types /\ BufferOK /\ GotOK /\ got \in Seq(Value) /\ sent \in Seq(Value)
      BY Zenon DEF Inv, Types
    <2>2. /\ Len(sent) \in Nat /\ Len(got) \in Nat /\ mcu.reports \in Seq(Value)
          /\ Len(mcu.reports) \in Nat
      BY Zenon, <2>1, Typed
    <2>3. /\ Slice(sent, got, 0) /\ Slice(sent, mcu.reports, Unacked)
          /\ 0 <= Unacked /\ Unacked <= Len(got)
          /\ ack_count = Earlier + Len(got)
          /\ mcu.ack_count = (Earlier + Unacked) % AckMod
      BY Zenon, <2>1 DEF BufferOK, GotOK
    <2>4. Unacked \in Nat /\ Unacked + Len(mcu.reports) = Len(sent)
      <3>1. PICK a \in Nat, b \in Nat : a = Len(sent) /\ b = Len(mcu.reports) BY Zenon, <2>2
      <3>2. Unacked = a - b BY Zenon, <3>1 DEF Unacked
      <3>3. Unacked \in Nat /\ Unacked + b = a BY <2>3, <3>2
      <3> QED BY Zenon, <3>1, <3>3
    <2>5. mcu.reports = SubSeq(sent, Unacked + 1, Len(sent))
      <3>1. mcu.reports = SubSeq(sent, Unacked + 1, Unacked + Len(mcu.reports))
        BY Zenon, <2>1, <2>2, <2>3, <2>4, SliceIsSubSeq
      <3> QED BY Zenon, <2>4, <3>1
    <2>6. got = SubSeq(sent, 1, Len(got))
      <3>1. 0 \in Nat /\ 0 + 1 = 1 /\ 0 + Len(got) = Len(got) BY <2>2
      <3>2. got = SubSeq(sent, 0 + 1, 0 + Len(got))
        BY Zenon, <2>1, <2>3, <3>1, SliceIsSubSeq
      <3> QED BY Zenon, <3>1, <3>2
    <2>7. Len(got) <= Len(sent)
      <3>1. 0 + Len(got) <= Len(sent) BY Zenon, <2>3 DEF Slice
      <3> QED BY <2>2, <3>1
    <2> QED BY Zenon, <2>3, <2>5, <2>6, <2>7 DEF ReportedOnce
  <1> QED BY <1>1, Invariance, PTL
=============================================================================
