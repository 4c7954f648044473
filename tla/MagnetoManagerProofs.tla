------------------------ MODULE MagnetoManagerProofs ------------------------
(***************************************************************************)
(* ConnectionOwned, SendRecovers and ConfigSafe for any number of threads,  *)
(* requests, enumerations of the board and restarts of the service.         *)
(*                                                                         *)
(* ConnectionOwned is not inductive by itself.  Two facts are added: who    *)
(* works on the connection has the lock (Locked), and what is open is at    *)
(* most the one handle serial_connection names (Single).  SendRecovers      *)
(* needs a third: a thread that could open the board all along and has       *)
(* reconnected has a handle of the board's present enumeration (Fresh).     *)
(* ConfigSafe has an invariant of its own (SafeInv, below).                 *)
(***************************************************************************)
EXTENDS MagnetoManager, FiniteSetTheorems, TLAPS

Contents == [serial : {"old", "new", "bare", None},
             canbus_uuid : {"old", "new", None}, rest : BOOLEAN]

Places == {"idle", "start", "locked", "write", "reconnect", "rewrite",
           "backup", "read", "open"}

ThreadState == [op : AllOps \cup {None}, pc : Places, copy : Contents \cup {None},
                steady : BOOLEAN]

Replies == [op : AllOps \cup {None}, status : Nat, steady : BOOLEAN]

TypeOK ==
    /\ thread \in [Threads -> ThreadState]
    /\ present \in BOOLEAN /\ openable \in BOOLEAN /\ plugs \in Nat
    /\ serial_lock \in Threads \cup {None}
    /\ file \in Contents
    /\ reply \in Replies \cup {None}

LmOps == {"connect_lm", "disconnect_lm", "send_command"}

\* The one handle that may be open.
Single ==
    /\ serial_connection \in Handles \cup {None}
    /\ \/ opened = {}
       \/ /\ serial_connection # None
          /\ \E p \in 0..plugs : opened = {[handle |-> serial_connection, plug |-> p]}

Locked(t) ==
    thread[t].op \in LmOps /\ thread[t].pc \in {"locked", "write", "reconnect", "rewrite"}
        => serial_lock = t

Ready(t) ==
    thread[t].op = "send_command" /\ thread[t].pc \in {"write", "rewrite"} => opened # {}

Fresh(t) ==
    /\ thread[t].steady => CanOpen
    /\ thread[t].op = "send_command" /\ thread[t].pc = "rewrite" /\ thread[t].steady
        => opened = {[handle |-> serial_connection, plug |-> plugs]}

Copied(t) ==
    IsConfig(t) /\ thread[t].pc \in {"open", "write"} => thread[t].copy \in Contents

IInv == /\ TypeOK /\ Single /\ SendRecovers
        /\ \A t \in Threads : Locked(t) /\ Ready(t) /\ Fresh(t) /\ Copied(t)

-----------------------------------------------------------------------------
LEMMA IdlePlace == Idle.pc = "idle"
  BY Zenon DEF Idle

LEMMA GotoType ==
    ASSUME TypeOK, NEW t \in Threads, NEW pc \in Places, Goto(t, pc)
    PROVE  /\ thread' \in [Threads -> ThreadState]
           /\ \A u \in Threads \ {t} : thread'[u] = thread[u]
           /\ thread'[t].op = thread[t].op /\ thread'[t].pc = pc
           /\ thread'[t].steady = thread[t].steady /\ thread'[t].copy = thread[t].copy
  BY Zenon DEF TypeOK, Goto, ThreadState

LEMMA ReplyType ==
    ASSUME TypeOK, NEW t \in Threads, NEW s \in Nat, Reply(t, s)
    PROVE  /\ thread' \in [Threads -> ThreadState]
           /\ \A u \in Threads \ {t} : thread'[u] = thread[u]
           /\ thread'[t].op = None /\ thread'[t].pc = "idle" /\ thread'[t].steady = FALSE
           /\ reply' \in Replies
           /\ reply'.op = thread[t].op /\ reply'.status = s
           /\ reply'.steady = thread[t].steady
  <1>1. Idle \in ThreadState BY Zenon DEF Idle, ThreadState, Places
  <1>2. thread[t] \in ThreadState BY Zenon DEF TypeOK
  <1> QED BY Zenon, <1>1, <1>2 DEF TypeOK, Reply, Replies, ThreadState, Idle

\* A reply other than that of a failed send leaves SendRecovers true.
LEMMA ReplyRecovers ==
    ASSUME TypeOK, NEW t \in Threads, NEW s \in Nat, Reply(t, s),
           thread[t].op # "send_command" \/ s = 200 \/ ~ thread[t].steady
    PROVE  SendRecovers'
  <1>1. /\ reply'.op = thread[t].op /\ reply'.status = s
        /\ reply'.steady = thread[t].steady
    BY ZenonT(60), ReplyType
  <1> QED BY Zenon, <1>1 DEF SendRecovers

\* A handle to give to a new connection always exists.
LEMMA FreeHandle ==
    ASSUME Single
    PROVE  NewHandle \in Handles /\ NewHandle # serial_connection
  <1>1. 1 \in Handles /\ 2 \in Handles BY ManagerAssumption DEF Handles
  <1>2. \A h : IsOpen(h) => h = serial_connection BY DEF Single, IsOpen
  <1>3. \E h \in Handles : h # serial_connection /\ ~ IsOpen(h)
    <2>1. CASE serial_connection = 1 BY <1>1, <1>2, <2>1
    <2>2. CASE serial_connection # 1 BY Zenon, <1>1, <1>2, <2>2
    <2> QED BY Zenon, <2>1, <2>2
  <1> QED BY Zenon, <1>3 DEF NewHandle

\* reconnect_serial leaves one fresh handle, or none.
LEMMA Reconnected ==
    ASSUME TypeOK, Single, reconnect_serial, plugs' = plugs
    PROVE  /\ Single'
           /\ CanOpen => opened' = {[handle |-> serial_connection', plug |-> plugs]}
           /\ ~ CanOpen => opened' = {}
  <1>1. Closed(serial_connection) = {} BY DEF Single, Closed
  <1>2. NewHandle \in Handles /\ NewHandle # None
    BY FreeHandle, ManagerAssumption DEF Handles
  <1>3. CASE CanOpen
    <2>1. /\ serial_connection' = NewHandle
          /\ opened' = {[handle |-> serial_connection', plug |-> plugs]}
      BY Zenon, <1>1, <1>3 DEF reconnect_serial
    <2>2. plugs \in 0..plugs' BY DEF TypeOK
    <2> QED BY Zenon, <1>2, <1>3, <2>1, <2>2 DEF Single
  <1>4. CASE ~ CanOpen BY Zenon, <1>1, <1>4 DEF reconnect_serial, Single
  <1> QED BY Zenon, <1>3, <1>4

Untouched == serial_connection' = serial_connection /\ opened' = opened

\* A thread's step keeps the invariant of the others as long as it touches
\* the lock and the connection only when the lock is its own or free.
LEMMA OthersKept ==
    ASSUME IInv, NEW t \in Threads, TypeOK', Single', SendRecovers',
           \A u \in Threads \ {t} : thread'[u] = thread[u],
           present' = present, openable' = openable, plugs' = plugs,
           serial_lock' = serial_lock \/ serial_lock \in {t, None},
           Untouched \/ serial_lock = t,
           Locked(t)', Ready(t)', Fresh(t)', Copied(t)'
    PROVE  IInv'
  <1>1. ASSUME NEW u \in Threads \ {t} PROVE Locked(u)' /\ Ready(u)' /\ Fresh(u)' /\ Copied(u)'
    <2> DEFINE crit == /\ thread[u].op \in LmOps
                       /\ thread[u].pc \in {"locked", "write", "reconnect", "rewrite"}
    <2>1. thread'[u] = thread[u] BY Zenon
    <2>2. Locked(u) /\ Ready(u) /\ Fresh(u) /\ Copied(u) BY Zenon DEF IInv
    <2>3. CASE crit
      <3>1. serial_lock = u BY Zenon, <2>2, <2>3 DEF Locked
      <3>2. serial_lock' = serial_lock /\ UNCHANGED <<serial_connection, opened>>
        BY Zenon, <3>1, ManagerAssumption DEF Untouched
      <3> QED BY Zenon, <2>1, <2>2, <3>2 DEF Locked, Ready, Fresh, CanOpen, Copied, IsConfig
    <2>4. CASE ~ crit
      BY Zenon, <2>1, <2>2, <2>4 DEF Locked, Ready, Fresh, CanOpen, Copied, IsConfig, LmOps
    <2> QED BY Zenon, <2>3, <2>4
  <1> QED BY Zenon, <1>1 DEF IInv

-----------------------------------------------------------------------------
LEMMA InitInv == Init => IInv
  <1> SUFFICES ASSUME Init PROVE IInv BY Zenon
  <1>1. \A t \in Threads : /\ thread[t].op = None /\ thread[t].pc = "idle"
                           /\ thread[t].steady = FALSE
    BY Zenon DEF Init, Idle
  <1>2. TypeOK
    <2>1. Idle \in ThreadState BY Zenon DEF Idle, ThreadState, Places
    <2>2. Originals \subseteq Contents BY Zenon DEF Originals, Contents
    <2> QED BY Zenon, <2>1, <2>2 DEF Init, TypeOK
  <1>3. Single
    <2>1. 1 \in Handles /\ 1 # None BY ManagerAssumption DEF Handles
    <2>2. 0 \in 0..plugs BY DEF Init
    <2> QED BY Zenon, <2>1, <2>2 DEF Init, Single
  <1>4. SendRecovers BY Zenon DEF Init, SendRecovers
  <1>5. ASSUME NEW t \in Threads PROVE Locked(t) /\ Ready(t) /\ Fresh(t) /\ Copied(t)
    BY Zenon, <1>1, ManagerAssumption
      DEF Locked, Ready, Fresh, CanOpen, Copied, IsConfig, LmOps, AllOps
  <1> QED BY Zenon, <1>2, <1>3, <1>4, <1>5 DEF IInv

\* What no thread does.
LEMMA EnvironmentInv ==
    ASSUME IInv, Unplug \/ Plug \/ Refuse \/ Admit PROVE IInv'
  <1>1. CASE Unplug \/ Refuse
    <2>1. \A t \in Threads : thread'[t] = [thread[t] EXCEPT !.steady = FALSE]
      BY Zenon, <1>1 DEF Unplug, Refuse
    <2>2. TypeOK' BY ZenonT(60), <1>1 DEF Unplug, Refuse, IInv, TypeOK, ThreadState, lmVars, cfgVars
    <2>3. Single' /\ SendRecovers'
      BY Zenon, <1>1 DEF Unplug, Refuse, IInv, Single, SendRecovers, lmVars
    <2>4. ASSUME NEW t \in Threads PROVE Locked(t)' /\ Ready(t)' /\ Fresh(t)' /\ Copied(t)'
      <3>1. /\ thread'[t].op = thread[t].op /\ thread'[t].pc = thread[t].pc
            /\ thread'[t].steady = FALSE /\ thread'[t].copy = thread[t].copy
        <4>1. thread[t] \in ThreadState BY Zenon DEF IInv, TypeOK
        <4>2. thread'[t] = [thread[t] EXCEPT !.steady = FALSE] BY Zenon, <2>1
        <4> QED BY Zenon, <4>1, <4>2 DEF ThreadState
      <3>2. UNCHANGED <<serial_lock, opened>> BY Zenon, <1>1 DEF Unplug, Refuse, lmVars
      <3> QED BY Zenon, <3>1, <3>2 DEF IInv, Locked, Ready, Fresh, CanOpen, Copied, IsConfig
    <2> QED BY Zenon, <2>2, <2>3, <2>4 DEF IInv
  <1>2. CASE Plug
    <2>1. UNCHANGED <<thread, openable, serial_lock, serial_connection, opened, file, reply>>
      BY Zenon, <1>2 DEF Plug, lmVars, cfgVars
    <2>2. present = FALSE /\ present' = TRUE /\ plugs' = plugs + 1 /\ plugs \in Nat
      BY Zenon, <1>2 DEF Plug, IInv, TypeOK
    <2>3. TypeOK'
      <3>1. plugs' \in Nat BY <2>2
      <3> QED BY Zenon, <2>1, <2>2, <3>1 DEF IInv, TypeOK
    <2>4. Single'
      <3>1. \A p \in 0..plugs : p \in 0..plugs' BY <2>2
      <3> QED BY Zenon, <2>1, <3>1 DEF IInv, Single
    <2>5. SendRecovers' BY Zenon, <2>1 DEF IInv, SendRecovers
    <2>6. ASSUME NEW t \in Threads PROVE Locked(t)' /\ Ready(t)' /\ Fresh(t)' /\ Copied(t)'
      BY Zenon, <2>1, <2>2 DEF IInv, Locked, Ready, Fresh, CanOpen, Copied, IsConfig
    <2> QED BY Zenon, <2>3, <2>4, <2>5, <2>6 DEF IInv
  <1>3. CASE Admit
    <2>1. UNCHANGED <<thread, present, plugs, serial_lock, serial_connection, opened, file, reply>>
      BY Zenon, <1>3 DEF Admit, lmVars, cfgVars
    <2>2. openable = FALSE /\ openable' = TRUE BY Zenon, <1>3 DEF Admit, IInv, TypeOK
    <2>3. TypeOK' BY Zenon, <2>1, <2>2 DEF IInv, TypeOK
    <2>4. Single' /\ SendRecovers' BY Zenon, <2>1 DEF IInv, Single, SendRecovers
    <2>5. ASSUME NEW t \in Threads PROVE Locked(t)' /\ Ready(t)' /\ Fresh(t)' /\ Copied(t)'
      BY Zenon, <2>1, <2>2 DEF IInv, Locked, Ready, Fresh, CanOpen, Copied, IsConfig
    <2> QED BY Zenon, <2>3, <2>4, <2>5 DEF IInv
  <1> QED BY Zenon, <1>1, <1>2, <1>3

LEMMA RestartInv ==
    ASSUME IInv, Restart PROVE IInv'
  <1>1. \A t \in Threads : /\ thread'[t].op = None /\ thread'[t].pc = "idle"
                           /\ thread'[t].steady = FALSE
    BY Zenon DEF Restart, Idle
  <1>2. UNCHANGED <<present, openable, plugs, file, reply>> BY Zenon DEF Restart, boardVars, cfgVars
  <1>3. TypeOK'
    <2>1. Idle \in ThreadState BY Zenon DEF Idle, ThreadState, Places
    <2> QED BY Zenon, <1>2, <2>1 DEF Restart, IInv, TypeOK
  <1>4. Single'
    <2>1. 1 \in Handles /\ 1 # None BY ManagerAssumption DEF Handles
    <2>2. plugs \in 0..plugs' BY <1>2 DEF IInv, TypeOK
    <2>3. CASE CanOpen
      <3>1. /\ serial_connection' = 1
            /\ opened' = {[handle |-> serial_connection', plug |-> plugs]}
        BY Zenon, <2>3 DEF Restart
      <3> QED BY Zenon, <2>1, <2>2, <3>1 DEF Single
    <2>4. CASE ~ CanOpen BY Zenon, <2>4 DEF Restart, Single
    <2> QED BY Zenon, <2>3, <2>4
  <1>5. SendRecovers' BY Zenon, <1>2 DEF IInv, SendRecovers
  <1>6. ASSUME NEW t \in Threads PROVE Locked(t)' /\ Ready(t)' /\ Fresh(t)' /\ Copied(t)'
    BY Zenon, <1>1, ManagerAssumption
      DEF Locked, Ready, Fresh, CanOpen, Copied, IsConfig, LmOps, AllOps
  <1> QED BY Zenon, <1>3, <1>4, <1>5, <1>6 DEF IInv

-----------------------------------------------------------------------------
(* The steps of a thread. *)

LEMMA RequestInv ==
    ASSUME IInv, NEW t \in Threads, Request(t) PROVE IInv'
  <1>1. PICK op \in Ops[t] :
          thread' = [thread EXCEPT ![t] = [Idle EXCEPT !.op = op, !.pc = "start",
                                                       !.steady = CanOpen]]
    BY Zenon DEF Request
  <1>2. UNCHANGED <<present, openable, plugs, serial_lock, serial_connection, opened,
                 file, reply>>
    BY Zenon DEF Request, boardVars, lmVars, cfgVars
  <1>3. op \in AllOps BY Zenon, ManagerAssumption
  <1>4. thread'[t] = [op |-> op, pc |-> "start", copy |-> None, steady |-> CanOpen]
    BY ZenonT(60), <1>1 DEF IInv, TypeOK, Idle
  <1>5. \A u \in Threads \ {t} : thread'[u] = thread[u] BY Zenon, <1>1 DEF IInv, TypeOK
  <1>6. thread' \in [Threads -> ThreadState]
    <2>1. thread'[t] \in ThreadState BY <1>3, <1>4 DEF IInv, TypeOK, ThreadState, Places, CanOpen
    <2>2. thread' = [thread EXCEPT ![t] = thread'[t]] BY Zenon, <1>1, <1>4 DEF Idle, IInv, TypeOK
    <2> QED BY Zenon, <2>1, <2>2 DEF IInv, TypeOK
  <1>7. TypeOK' BY Zenon, <1>2, <1>6 DEF IInv, TypeOK
  <1>8. Single' /\ SendRecovers' BY Zenon, <1>2 DEF IInv, Single, SendRecovers
  <1>9. Locked(t)' /\ Ready(t)' /\ Fresh(t)' /\ Copied(t)'
    <2>1. thread'[t].pc = "start" BY <1>4
    <2>2. thread'[t].steady => CanOpen BY <1>4
    <2>3. CanOpen' = CanOpen BY Zenon, <1>2 DEF CanOpen
    <2> QED BY Zenon, <2>1, <2>2, <2>3 DEF Locked, Ready, Fresh, Copied, IsConfig
  <1> QED BY Zenon, <1>2, <1>5, <1>7, <1>8, <1>9, OthersKept DEF Untouched

LEMMA AcquireInv ==
    ASSUME IInv, NEW t \in Threads, Acquire(t) PROVE IInv'
  <1> USE DEF IInv
  <1>1. Goto(t, "locked") /\ serial_lock = None /\ serial_lock' = t
    BY Zenon DEF Acquire
  <1>2. UNCHANGED <<present, openable, plugs, serial_connection, opened, file, reply>>
    BY Zenon DEF Acquire, boardVars, cfgVars
  <1>3. "locked" \in Places BY Zenon DEF Places
  <1>4. /\ thread' \in [Threads -> ThreadState]
        /\ \A u \in Threads \ {t} : thread'[u] = thread[u]
        /\ thread'[t].pc = "locked" /\ thread'[t].steady = thread[t].steady
    BY Zenon, <1>1, <1>3, GotoType
  <1>5. TypeOK' BY Zenon, <1>1, <1>2, <1>4 DEF TypeOK
  <1>6. Single' /\ SendRecovers' BY Zenon, <1>2 DEF Single, SendRecovers
  <1>7. Locked(t)' /\ Ready(t)' /\ Fresh(t)' /\ Copied(t)'
    BY Zenon, <1>1, <1>2, <1>4 DEF Locked, Ready, Fresh, CanOpen, Copied, IsConfig
  <1>8. serial_lock \in {t, None} BY Zenon, <1>1
  <1> QED BY Zenon, <1>2, <1>4, <1>5, <1>6, <1>7, <1>8, OthersKept DEF Untouched

Codes == {200, 404, 500, 503}

LEMMA CodeType == Codes \subseteq Nat
  BY DEF Codes

\* A thread answers, having the lock if it touches the connection.
Answers(t, s) ==
    /\ Reply(t, s)
    /\ thread[t].op # "send_command" \/ s = 200 \/ ~ thread[t].steady
    /\ present' = present /\ openable' = openable /\ plugs' = plugs /\ file' \in Contents /\ Single'
    /\ serial_lock' = serial_lock \/ (serial_lock' = None /\ serial_lock = t)
    /\ Untouched \/ serial_lock = t

LEMMA AnsweredInv ==
    ASSUME IInv, NEW t \in Threads, NEW s \in Codes, Answers(t, s)
    PROVE  IInv'
  <1> USE CodeType
  <1>1. TypeOK BY Zenon DEF IInv
  <1>2. /\ thread' \in [Threads -> ThreadState] /\ reply' \in Replies
        /\ \A u \in Threads \ {t} : thread'[u] = thread[u]
        /\ thread'[t].op = None /\ thread'[t].steady = FALSE
    BY ZenonT(60), <1>1, ReplyType DEF Answers
  <1>3. SendRecovers' BY Zenon, <1>1, ReplyRecovers DEF Answers
  <1>4. TypeOK' BY Zenon, <1>1, <1>2 DEF TypeOK, Answers
  <1>5. Locked(t)' /\ Ready(t)' /\ Fresh(t)' /\ Copied(t)'
    BY Zenon, <1>2, ManagerAssumption
      DEF Locked, Ready, Fresh, CanOpen, Copied, IsConfig, LmOps, AllOps
  <1>6. serial_lock' = serial_lock \/ serial_lock \in {t, None} BY Zenon DEF Answers
  <1> QED BY Zenon, <1>2, <1>3, <1>4, <1>5, <1>6, OthersKept DEF Answers

\* A thread that goes on within its request.
LEMMA GoneOnInv ==
    ASSUME IInv, NEW t \in Threads, NEW pc \in Places, Goto(t, pc),
           UNCHANGED <<present, openable, plugs, serial_lock, reply>>, file' \in Contents, Single',
           Untouched \/ serial_lock = t,
           thread[t].op \in LmOps => serial_lock = t,
           IsConfig(t) /\ pc \in {"open", "write"} => thread[t].copy \in Contents,
           thread[t].op = "send_command" /\ pc \in {"write", "rewrite"} => opened' # {},
           thread[t].op = "send_command" /\ pc = "rewrite" /\ thread[t].steady
             => opened' = {[handle |-> serial_connection', plug |-> plugs]}
    PROVE  IInv'
  <1>1. TypeOK /\ SendRecovers /\ Fresh(t) BY Zenon DEF IInv
  <1>2. /\ thread' \in [Threads -> ThreadState]
        /\ \A u \in Threads \ {t} : thread'[u] = thread[u]
        /\ thread'[t].op = thread[t].op /\ thread'[t].pc = pc
        /\ thread'[t].steady = thread[t].steady /\ thread'[t].copy = thread[t].copy
    BY Zenon, <1>1, GotoType
  <1>3. TypeOK' /\ SendRecovers' BY Zenon, <1>1, <1>2 DEF TypeOK, SendRecovers
  <1>4. Locked(t)' /\ Ready(t)' /\ Fresh(t)' /\ Copied(t)'
    BY Zenon, <1>1, <1>2 DEF Locked, Ready, Fresh, CanOpen, Copied, IsConfig
  <1> QED BY Zenon, <1>2, <1>3, <1>4, OthersKept DEF Untouched

LEMMA ConnectionInv ==
    ASSUME IInv, NEW t \in Threads, connect_esplm(t) \/ disconnect_serial(t) PROVE IInv'
  <1>1. TypeOK /\ Single /\ Locked(t) BY Zenon DEF IInv
  <1>2. CASE connect_esplm(t)
    <2>1. /\ thread[t].op = "connect_lm" /\ thread[t].pc = "locked"
          /\ reconnect_serial /\ serial_lock' = None
          /\ UNCHANGED <<present, openable, plugs, file>>
      BY Zenon, <1>2 DEF connect_esplm, At, boardVars, cfgVars
    <2>2. PICK s \in Codes : Reply(t, s) BY <1>2 DEF connect_esplm, Codes
    <2>3. serial_lock = t BY Zenon, <1>1, <2>1 DEF Locked, LmOps
    <2>4. Single' BY Zenon, <1>1, <2>1, Reconnected
    <2>5. file' \in Contents BY Zenon, <1>1, <2>1 DEF TypeOK
    <2>7. Answers(t, s) BY Zenon, <2>1, <2>2, <2>3, <2>4, <2>5 DEF Answers, Untouched
    <2> QED BY ZenonT(60), SMTT(60), <2>7, AnsweredInv
  <1>3. CASE disconnect_serial(t)
    <2>1. /\ thread[t].op = "disconnect_lm" /\ thread[t].pc = "locked"
          /\ opened' = Closed(serial_connection) /\ serial_connection' = None
          /\ serial_lock' = None /\ Reply(t, 200)
          /\ UNCHANGED <<present, openable, plugs, file>>
      BY Zenon, <1>3 DEF disconnect_serial, At, boardVars, cfgVars
    <2>2. serial_lock = t BY Zenon, <1>1, <2>1 DEF Locked, LmOps
    <2>3. Single' BY <1>1, <2>1 DEF Single, Closed
    <2>4. file' \in Contents BY Zenon, <1>1, <2>1 DEF TypeOK
    <2>7. Answers(t, 200) BY SMTT(60), ZenonT(60), <2>1, <2>2, <2>3, <2>4 DEF Answers, Untouched
    <2>8. 200 \in Codes BY SMTT(60), ZenonT(60) DEF Codes
    <2> QED BY ZenonT(60), SMTT(60), <2>7, <2>8, AnsweredInv
  <1> QED BY Zenon, <1>2, <1>3

\* A step of send_command that ends with a reconnection: the thread goes on
\* with the fresh handle, or answers 503 without a board.
LEMMA SendReconnectedInv ==
    ASSUME IInv, NEW t \in Threads, NEW pc \in {"write", "rewrite"},
           thread[t].op = "send_command", serial_lock = t, reconnect_serial,
           IF CanOpen THEN Goto(t, pc) /\ UNCHANGED <<serial_lock, reply>>
                      ELSE Reply(t, 503) /\ serial_lock' = None,
           UNCHANGED <<present, openable, plugs, file>>
    PROVE  IInv'
  <1>1. TypeOK /\ Single /\ Fresh(t) BY Zenon DEF IInv
  <1>2. /\ Single'
        /\ CanOpen => opened' = {[handle |-> serial_connection', plug |-> plugs]}
    BY Zenon, <1>1, Reconnected
  <1>3. file' \in Contents BY Zenon, <1>1 DEF TypeOK
  <1>4. CASE CanOpen
    <2>1. ~ IsConfig(t) BY Zenon DEF IsConfig
    <2>2. pc \in Places /\ Goto(t, pc) /\ opened' # {} BY Zenon, <1>2, <1>4 DEF Places
    <2> QED BY Zenon, <1>2, <1>3, <1>4, <2>1, <2>2, GoneOnInv DEF Untouched
  <1>5. CASE ~ CanOpen
    <2>1. ~ thread[t].steady BY Zenon, <1>1, <1>5 DEF Fresh
    <2>7. Answers(t, 503) BY SMTT(60), ZenonT(60), <1>2, <1>3, <1>5, <2>1 DEF Answers, Untouched
    <2>8. 503 \in Codes BY SMTT(60), ZenonT(60) DEF Codes
    <2> QED BY ZenonT(60), SMTT(60), <2>7, <2>8, AnsweredInv
  <1> QED BY Zenon, <1>4, <1>5

LEMMA SendInv ==
    ASSUME IInv, NEW t \in Threads,
           SendOpens(t) \/ SendWrites(t) \/ SendReconnects(t) \/ SendRewrites(t)
    PROVE  IInv'
  <1>1. TypeOK /\ Single /\ Locked(t) /\ Ready(t) /\ Fresh(t) BY Zenon DEF IInv
  <1>2. /\ thread[t].op = "send_command"
        /\ thread[t].pc \in {"locked", "write", "reconnect", "rewrite"}
        /\ UNCHANGED <<present, openable, plugs, file>>
    BY Zenon DEF SendOpens, SendWrites, SendReconnects, SendRewrites, At, boardVars, cfgVars
  <1>3. serial_lock = t /\ file' \in Contents /\ ~ IsConfig(t)
    BY Zenon, <1>1, <1>2 DEF Locked, LmOps, TypeOK, IsConfig
  <1>4. CASE SendOpens(t)
    <2>1. CASE serial_connection # None /\ IsOpen(serial_connection)
      <3>1. Goto(t, "write") /\ UNCHANGED <<lmVars, reply>> BY Zenon, <1>4, <2>1 DEF SendOpens
      <3>2. "write" \in Places /\ UNCHANGED <<serial_lock, serial_connection, opened>>
        BY Zenon, <3>1 DEF Places, lmVars
      <3>3. opened' # {} BY Zenon, <2>1, <3>2 DEF IsOpen
      <3>4. Single' BY Zenon, <1>1, <1>2, <3>2 DEF Single
      <3> QED BY Zenon, <1>2, <1>3, <3>1, <3>2, <3>3, <3>4, GoneOnInv DEF Untouched
    <2>2. CASE ~ (serial_connection # None /\ IsOpen(serial_connection))
      <3>1. /\ reconnect_serial
            /\ IF CanOpen THEN Goto(t, "write") /\ UNCHANGED <<serial_lock, reply>>
               ELSE Reply(t, 503) /\ serial_lock' = None
        BY Zenon, <1>4, <2>2 DEF SendOpens
      <3> QED BY Zenon, <1>2, <1>3, <3>1, SendReconnectedInv
    <2> QED BY Zenon, <2>1, <2>2
  <1>5. CASE SendWrites(t)
    <2>1. UNCHANGED <<serial_connection, opened>> /\ thread[t].pc = "write"
      BY Zenon, <1>5 DEF SendWrites, At
    <2>2. Single' BY Zenon, <1>1, <1>2, <2>1 DEF Single
    <2>3. CASE CanWrite(serial_connection)
      <3>1. Reply(t, 200) /\ serial_lock' = None BY Zenon, <1>5, <2>3 DEF SendWrites
      <3>7. Answers(t, 200)
        BY SMTT(60), ZenonT(60), <1>2, <1>3, <2>1, <2>2, <3>1 DEF Answers, Untouched
      <3>8. 200 \in Codes BY SMTT(60), ZenonT(60) DEF Codes
      <3> QED BY ZenonT(60), SMTT(60), <3>7, <3>8, AnsweredInv
    <2>4. CASE ~ CanWrite(serial_connection)
      <3>1. Goto(t, "reconnect") /\ UNCHANGED <<serial_lock, reply>>
        BY Zenon, <1>5, <2>4 DEF SendWrites
      <3>2. "reconnect" \in Places BY Zenon DEF Places
      <3> QED BY Zenon, <1>2, <1>3, <2>1, <2>2, <3>1, <3>2, GoneOnInv DEF Untouched
    <2> QED BY Zenon, <2>3, <2>4
  <1>6. CASE SendReconnects(t)
    <2>1. /\ reconnect_serial
          /\ IF CanOpen THEN Goto(t, "rewrite") /\ UNCHANGED <<serial_lock, reply>>
             ELSE Reply(t, 503) /\ serial_lock' = None
      BY Zenon, <1>6 DEF SendReconnects
    <2> QED BY Zenon, <1>2, <1>3, <2>1, SendReconnectedInv
  <1>7. CASE SendRewrites(t)
    <2>1. /\ thread[t].pc = "rewrite" /\ serial_lock' = None
          /\ UNCHANGED <<serial_connection, opened>>
          /\ Reply(t, IF CanWrite(serial_connection) THEN 200 ELSE 503)
      BY Zenon, <1>7 DEF SendRewrites, At
    <2>2. thread[t].steady => CanWrite(serial_connection)
      <3> DEFINE o == [handle |-> serial_connection, plug |-> plugs]
      <3>1. thread[t].steady => present /\ opened = {o}
        BY Zenon, <1>1, <1>2, <2>1 DEF Fresh, CanOpen
      <3>2. o.handle = serial_connection /\ o.plug = plugs BY Zenon
      <3> QED BY ZenonT(60), <3>1, <3>2 DEF CanWrite
    <2>3. Single' BY Zenon, <1>1, <1>2, <2>1 DEF Single
    <2>4. CASE CanWrite(serial_connection)
      <3>1. Reply(t, 200) BY Zenon, <2>1, <2>4
      <3>7. Answers(t, 200)
        BY SMTT(60), ZenonT(60), <1>2, <1>3, <2>1, <2>3, <3>1 DEF Answers, Untouched
      <3>8. 200 \in Codes BY SMTT(60), ZenonT(60) DEF Codes
      <3> QED BY ZenonT(60), SMTT(60), <3>7, <3>8, AnsweredInv
    <2>5. CASE ~ CanWrite(serial_connection)
      <3>1. Reply(t, 503) /\ ~ thread[t].steady BY Zenon, <2>1, <2>2, <2>5
      <3>7. Answers(t, 503)
        BY SMTT(60), ZenonT(60), <1>2, <1>3, <2>1, <2>3, <3>1 DEF Answers, Untouched
      <3>8. 503 \in Codes BY SMTT(60), ZenonT(60) DEF Codes
      <3> QED BY ZenonT(60), SMTT(60), <3>7, <3>8, AnsweredInv
    <2> QED BY Zenon, <2>4, <2>5
  <1> QED BY Zenon, <1>4, <1>5, <1>6, <1>7

\* The configuration leaves the connection alone.
LEMMA ConfigInv ==
    ASSUME IInv, NEW t \in Threads,
           \/ NotFound(t) \/ BackupOpened(t) \/ BackupCopied(t)
           \/ ConfigRead(t) \/ ConfigOpened(t) \/ ConfigWritten(t)
    PROVE  IInv'
  <1>1. TypeOK /\ Single /\ Copied(t) /\ Fresh(t) /\ SendRecovers BY Zenon DEF IInv
  <1>2. UNCHANGED <<present, openable, plugs, serial_lock, serial_connection, opened>>
    BY Zenon DEF NotFound, BackupOpened, BackupCopied, ConfigRead, ConfigOpened, ConfigWritten,
           boardVars, lmVars
  <1>3. thread[t].op \in {"set_mcu_uuid", "set_can_uuid"}
    BY Zenon DEF NotFound, BackupOpened, BackupCopied, ConfigRead, ConfigOpened, ConfigWritten,
           IsConfig
  <1>4. Single' BY Zenon, <1>1, <1>2 DEF Single
  <1>5. thread[t].op \notin LmOps /\ thread[t].op # "send_command" /\ IsConfig(t)
    BY Zenon, <1>3 DEF LmOps, IsConfig
  <1>6. CASE NotFound(t)
    <2>1. file' \in Contents BY Zenon, <1>1, <1>6 DEF NotFound, cfgVars, TypeOK
    <2>2. PICK s \in Codes : Reply(t, s) BY <1>6 DEF NotFound, Codes
    <2>3. Answers(t, s) BY Zenon, <1>2, <1>4, <1>5, <2>1, <2>2 DEF Answers, Untouched
    <2> QED BY ZenonT(60), SMTT(60), <2>3, AnsweredInv
  <1>7. CASE BackupOpened(t)
    <2>1. /\ Goto(t, "backup") /\ "backup" \in Places /\ reply' = reply
          /\ file' \in Contents
      BY Zenon, <1>1, <1>7 DEF BackupOpened, Places, TypeOK
    <2> QED BY Zenon, <1>2, <1>4, <1>5, <2>1, GoneOnInv DEF Untouched
  <1>8. CASE BackupCopied(t)
    <2>1. Goto(t, "read") /\ "read" \in Places /\ reply' = reply /\ file' \in Contents
      BY Zenon, <1>1, <1>8 DEF BackupCopied, Places, TypeOK
    <2> QED BY Zenon, <1>2, <1>4, <1>5, <2>1, GoneOnInv DEF Untouched
  <1>9. CASE ConfigRead(t)
    <2> DEFINE next == [thread[t] EXCEPT !.pc = "open", !.copy = Edited(thread[t].op)]
    <2>1. file' = file /\ file' \in Contents BY Zenon, <1>1, <1>9 DEF ConfigRead, cfgVars, TypeOK
    <2>3. CASE NoLine(thread[t].op)
      <3>1. Reply(t, 500) BY Zenon, <1>9, <2>3 DEF ConfigRead
      <3>7. Answers(t, 500)
        BY SMTT(60), ZenonT(60), <1>2, <1>4, <1>5, <2>1, <3>1 DEF Answers, Untouched
      <3>8. 500 \in Codes BY SMTT(60), ZenonT(60) DEF Codes
      <3> QED BY ZenonT(60), SMTT(60), <3>7, <3>8, AnsweredInv
    <2>4. CASE ~ NoLine(thread[t].op)
      <3>0. thread' = [thread EXCEPT ![t] = next] /\ reply' = reply
        BY Zenon, <1>9, <2>4 DEF ConfigRead
      <3>1. Edited(thread[t].op) \in Contents BY Zenon, <1>1 DEF Edited, TypeOK, Contents
      <3>2. /\ next \in ThreadState
            /\ next.op = thread[t].op /\ next.pc = "open"
            /\ next.copy \in Contents /\ next.steady = thread[t].steady
        BY ZenonT(60), <1>1, <3>1 DEF TypeOK, ThreadState, Places
      <3> HIDE DEF next
      <3>3. /\ thread' \in [Threads -> ThreadState] /\ thread'[t] = next
            /\ \A u \in Threads \ {t} : thread'[u] = thread[u]
        BY Zenon, <1>1, <3>0, <3>2 DEF TypeOK
      <3>4. TypeOK' /\ SendRecovers'
        BY Zenon, <1>1, <1>2, <2>1, <3>0, <3>3 DEF TypeOK, SendRecovers
      <3>5. Locked(t)' /\ Ready(t)' /\ Fresh(t)' /\ Copied(t)'
        BY Zenon, <1>1, <1>2, <1>5, <3>2, <3>3 DEF Locked, Ready, Fresh, CanOpen, Copied
      <3> QED BY Zenon, <1>2, <1>4, <3>3, <3>4, <3>5, OthersKept DEF Untouched
    <2> QED BY Zenon, <2>3, <2>4
  <1>10. CASE ConfigOpened(t)
    <2>1. Goto(t, "write") /\ "write" \in Places /\ reply' = reply /\ thread[t].pc = "open"
      BY ZenonT(60), <1>10 DEF ConfigOpened, Places
    <2>2. file' \in Contents BY Zenon, <1>10 DEF ConfigOpened, Empty, Contents
    <2>3. thread[t].copy \in Contents BY Zenon, <1>1, <1>5, <2>1 DEF Copied
    <2> QED BY ZenonT(60), <1>2, <1>4, <1>5, <2>1, <2>2, <2>3, GoneOnInv DEF Untouched
  <1>11. CASE ConfigWritten(t)
    <2>1. Reply(t, 200) /\ file' = thread[t].copy /\ thread[t].pc = "write"
      BY Zenon, <1>11 DEF ConfigWritten
    <2>2. file' \in Contents BY Zenon, <1>1, <1>5, <2>1 DEF Copied
    <2>7. Answers(t, 200)
      BY SMTT(60), ZenonT(60), <1>2, <1>4, <1>5, <2>1, <2>2 DEF Answers, Untouched
    <2>8. 200 \in Codes BY SMTT(60), ZenonT(60) DEF Codes
    <2> QED BY ZenonT(60), SMTT(60), <2>7, <2>8, AnsweredInv
  <1> QED BY Zenon, <1>6, <1>7, <1>8, <1>9, <1>10, <1>11

-----------------------------------------------------------------------------
LEMMA Invariance == Spec => []IInv
  <1>1. IInv /\ [Next]_vars => IInv'
    <2> SUFFICES ASSUME IInv, [Next]_vars PROVE IInv' BY Zenon
    <2>1. CASE Next
      BY Zenon, <2>1, RequestInv, AcquireInv, ConnectionInv, SendInv, ConfigInv,
         EnvironmentInv, RestartInv DEF Next, Handler
    <2>2. CASE UNCHANGED vars
      <3>1. UNCHANGED <<thread, present, openable, plugs, serial_lock, serial_connection, opened,
                     file, reply>>
        BY Zenon, <2>2 DEF vars, lmVars, boardVars, cfgVars
      <3>2. TypeOK' BY Zenon, <3>1 DEF IInv, TypeOK
      <3>3. Single' /\ SendRecovers' BY Zenon, <3>1 DEF IInv, Single, SendRecovers
      <3>4. ASSUME NEW t \in Threads PROVE Locked(t)' /\ Ready(t)' /\ Fresh(t)' /\ Copied(t)'
        BY Zenon, <3>1 DEF IInv, Locked, Ready, Fresh, CanOpen, Copied, IsConfig
      <3> QED BY Zenon, <3>2, <3>3, <3>4 DEF IInv
    <2> QED BY Zenon, <2>1, <2>2
  <1> QED BY <1>1, InitInv, PTL DEF Spec

(* serial_lock does what its comment says, for any number of threads: the   *)
(* thread that writes has the one open connection to itself.                *)
THEOREM ConnectionIsOwned == Spec => []ConnectionOwned
  <1>1. IInv => ConnectionOwned
    <2> SUFFICES ASSUME IInv PROVE ConnectionOwned BY Zenon
    <2>1. {o.handle : o \in opened} \subseteq {serial_connection} BY DEF IInv, Single
    <2>2. Cardinality(opened) <= 1
      <3>1. opened = {} \/ \E x : opened = {x} BY Zenon DEF IInv, Single
      <3>2. CASE opened = {} BY <3>2, FS_EmptySet
      <3>3. CASE \E x : opened = {x}
        <4>1. PICK x : opened = {x} BY Zenon, <3>3
        <4>2. Cardinality({x}) = 1 BY Zenon, FS_Singleton
        <4> QED BY <4>1, <4>2
      <3> QED BY Zenon, <3>1, <3>2, <3>3
    <2>3. ASSUME NEW t \in Threads, thread[t].op = "send_command",
                 thread[t].pc \in {"write", "rewrite"}
          PROVE  serial_lock = t /\ serial_connection # None /\ IsOpen(serial_connection)
      <3>1. serial_lock = t BY Zenon, <2>3 DEF IInv, Locked, LmOps
      <3>2. opened # {} BY Zenon, <2>3 DEF IInv, Ready
      <3> QED BY <3>1, <3>2 DEF IInv, Single, IsOpen
    <2> QED BY Zenon, <2>1, <2>2, <2>3 DEF ConnectionOwned
  <1> QED BY <1>1, Invariance, PTL

(* A send fails only if the board was away, or could not be opened, at some  *)
(* moment of the request, however many threads, enumerations and restarts    *)
(* came before.                                                            *)
THEOREM SendsRecover == Spec => []SendRecovers
  <1>1. IInv => SendRecovers BY Zenon DEF IInv
  <1> QED BY <1>1, Invariance, PTL

-----------------------------------------------------------------------------
(* ConfigSafe, when one thread makes the requests that edit the configuration *)
(* (two of them may empty the file and the backup at the same time).  Until  *)
(* the first kill the file is whole except between its opening and its        *)
(* writing; then the backup and the copy that will be written are.           *)

ConfigOps == {"set_mcu_uuid", "set_can_uuid"}

OnlyEditor(w) == \A t \in Threads \ {w} : Ops[t] \cap ConfigOps = {}

\* Thread w serves a configuration request and is at one of these places.
Editing(w, places) == thread[w].op \in ConfigOps /\ thread[w].pc \in places

Served == \A t \in Threads : thread[t].op \in Ops[t] \cup {None}

Rollback(w) ==
    /\ ~ Editing(w, {"write"}) => file.rest = TRUE
    /\ Editing(w, {"read", "open", "write"}) => backup.rest = TRUE
    /\ Editing(w, {"open", "write"}) => thread[w].copy.rest = TRUE

SafeInv(w) == Served /\ crashes \in Nat /\ (crashes = 0 => Rollback(w))

LEMMA SafeInit ==
    ASSUME NEW w \in Threads, Init
    PROVE  SafeInv(w)
  <1>1. \A t \in Threads : thread[t].op = None BY Zenon DEF Init, Idle
  <1>2. Served BY Zenon, <1>1 DEF Served
  <1>3. None \notin ConfigOps BY Zenon, ManagerAssumption DEF ConfigOps, AllOps
  <1>4. ~ Editing(w, {"write"}) /\ ~ Editing(w, {"read", "open", "write"})
        /\ ~ Editing(w, {"open", "write"})
    BY Zenon, <1>1, <1>3 DEF Editing
  <1>5. file.rest = TRUE BY Zenon DEF Init, Originals
  <1>6. crashes = 0 BY Zenon DEF Init
  <1>7. crashes \in Nat BY Zenon, <1>6
  <1> QED BY Zenon, <1>2, <1>4, <1>5, <1>7 DEF SafeInv, Rollback

\* What a step must keep: the requests, the count of kills and, before the
\* first of them, a thread w and files that are as they were.
LEMMA SafeKept ==
    ASSUME NEW w \in Threads, SafeInv(w), Served', crashes' = crashes,
           thread'[w].op = thread[w].op, thread'[w].pc = thread[w].pc,
           thread'[w].copy = thread[w].copy, file' = file, backup' = backup
    PROVE  SafeInv(w)'
  <1>1. Rollback(w) => Rollback(w)' BY Zenon DEF Rollback, Editing
  <1> QED BY Zenon, <1>1 DEF SafeInv

\* A thread that answers is idle.
Ends(t) == thread' = [thread EXCEPT ![t] = Idle]

LEMMA EndsServed ==
    ASSUME IInv, NEW t \in Threads, Ends(t), Served
    PROVE  /\ \A u \in Threads \ {t} : thread'[u] = thread[u]
           /\ thread'[t].op = None
           /\ Served' /\ \A p : ~ Editing(t, p)'
  <1>1. thread \in [Threads -> ThreadState] BY Zenon DEF IInv, TypeOK
  <1>2. /\ \A u \in Threads \ {t} : thread'[u] = thread[u]
        /\ thread'[t].op = None
    BY Zenon, <1>1 DEF Ends, Idle
  <1>3. None \notin ConfigOps BY Zenon, ManagerAssumption DEF ConfigOps, AllOps
  <1> QED BY Zenon, <1>2, <1>3 DEF Served, Editing

LEMMA GoneOnServed ==
    ASSUME IInv, NEW t \in Threads, NEW pc \in Places, Goto(t, pc), Served
    PROVE  Served'
  <1>1. /\ \A u \in Threads \ {t} : thread'[u] = thread[u]
        /\ thread'[t].op = thread[t].op
    BY Zenon, GotoType DEF IInv
  <1> QED BY Zenon, <1>1 DEF Served

\* The steps of requests that do not edit the configuration.
LmSteps(t) ==
    \/ Acquire(t) \/ connect_esplm(t) \/ disconnect_serial(t)
    \/ SendOpens(t) \/ SendWrites(t) \/ SendReconnects(t) \/ SendRewrites(t)

\* The thread goes on or answers.
Moves(t) == (\E pc \in Places : Goto(t, pc)) \/ Ends(t)

LEMMA LmMoves ==
    ASSUME NEW t \in Threads, LmSteps(t)
    PROVE  /\ Moves(t) /\ ~ IsConfig(t)
           /\ crashes' = crashes /\ file' = file /\ backup' = backup
  <1> USE DEF At, cfgVars
  <1>1. /\ "locked" \in Places /\ "write" \in Places /\ "reconnect" \in Places
        /\ "rewrite" \in Places
    BY DEF Places
  <1>2. CASE Acquire(t)
    <2>1. Goto(t, "locked") BY Zenon, <1>2 DEF Acquire
    <2>2. Moves(t) BY Zenon, <1>1, <2>1 DEF Moves
    <2>3. ~ IsConfig(t) BY Zenon, <1>2 DEF Acquire, IsConfig
    <2> QED BY Zenon, <1>2, <2>2, <2>3 DEF Acquire
  <1>3. CASE connect_esplm(t)
    <2>1. Ends(t) BY Zenon, <1>3 DEF connect_esplm, Reply, Ends
    <2>2. ~ IsConfig(t) BY Zenon, <1>3 DEF connect_esplm, IsConfig
    <2> QED BY Zenon, <1>3, <2>1, <2>2 DEF connect_esplm, Moves
  <1>4. CASE disconnect_serial(t)
    <2>1. Ends(t) BY Zenon, <1>4 DEF disconnect_serial, Reply, Ends
    <2>2. ~ IsConfig(t) BY Zenon, <1>4 DEF disconnect_serial, IsConfig
    <2> QED BY Zenon, <1>4, <2>1, <2>2 DEF disconnect_serial, Moves
  <1>5. CASE SendOpens(t)
    <2>1. Goto(t, "write") \/ Ends(t) BY Zenon, <1>5 DEF SendOpens, Reply, Ends
    <2>2. ~ IsConfig(t) BY Zenon, <1>5 DEF SendOpens, IsConfig
    <2> QED BY Zenon, <1>1, <1>5, <2>1, <2>2 DEF SendOpens, Moves
  <1>6. CASE SendWrites(t)
    <2>1. Goto(t, "reconnect") \/ Ends(t) BY Zenon, <1>6 DEF SendWrites, Reply, Ends
    <2>2. ~ IsConfig(t) BY Zenon, <1>6 DEF SendWrites, IsConfig
    <2> QED BY Zenon, <1>1, <1>6, <2>1, <2>2 DEF SendWrites, Moves
  <1>7. CASE SendReconnects(t)
    <2>1. Goto(t, "rewrite") \/ Ends(t) BY Zenon, <1>7 DEF SendReconnects, Reply, Ends
    <2>2. ~ IsConfig(t) BY Zenon, <1>7 DEF SendReconnects, IsConfig
    <2> QED BY Zenon, <1>1, <1>7, <2>1, <2>2 DEF SendReconnects, Moves
  <1>8. CASE SendRewrites(t)
    <2>1. Ends(t) BY Zenon, <1>8 DEF SendRewrites, Reply, Ends
    <2>2. ~ IsConfig(t) BY Zenon, <1>8 DEF SendRewrites, IsConfig
    <2> QED BY Zenon, <1>8, <2>1, <2>2 DEF SendRewrites, Moves
  <1> QED BY Zenon, <1>2, <1>3, <1>4, <1>5, <1>6, <1>7, <1>8 DEF LmSteps

LEMMA SafeMoves ==
    ASSUME IInv, NEW w \in Threads, SafeInv(w), NEW t \in Threads, Moves(t),
           ~ IsConfig(t), crashes' = crashes, file' = file, backup' = backup
    PROVE  SafeInv(w)'
  <1>1. Served /\ TypeOK BY Zenon DEF SafeInv, IInv
  <1>2. /\ \A u \in Threads \ {t} : thread'[u] = thread[u]
        /\ thread'[t].op \in {thread[t].op, None}
    <2>1. CASE \E pc \in Places : Goto(t, pc) BY Zenon, <1>1, <2>1, GotoType
    <2>2. CASE Ends(t) BY Zenon, <1>1, <2>2, EndsServed
    <2> QED BY Zenon, <2>1, <2>2 DEF Moves
  <1>3. Served' BY Zenon, <1>1, <1>2 DEF Served
  <1>4. CASE t # w
    <2>1. thread'[w] = thread[w] BY Zenon, <1>2, <1>4
    <2> QED BY Zenon, <1>3, <2>1, SafeKept
  <1>5. CASE t = w
    <2>1. thread[w].op \notin ConfigOps BY Zenon, <1>5 DEF IsConfig, ConfigOps
    <2>2. None \notin ConfigOps BY Zenon, ManagerAssumption DEF ConfigOps, AllOps
    <2>3. thread'[w].op \notin ConfigOps BY Zenon, <1>2, <1>5, <2>1, <2>2
    <2>4. Rollback(w) => Rollback(w)' BY Zenon, <2>1, <2>3 DEF Rollback, Editing
    <2> QED BY Zenon, <1>3, <2>4 DEF SafeInv
  <1> QED BY Zenon, <1>4, <1>5

\* Only thread w edits the configuration.
LEMMA EditorIs ==
    ASSUME NEW w \in Threads, OnlyEditor(w), Served, NEW t \in Threads, IsConfig(t)
    PROVE  t = w /\ thread[w].op \in ConfigOps
  <1>1. thread[t].op \in ConfigOps BY Zenon DEF IsConfig, ConfigOps
  <1>2. thread[t].op \in Ops[t] \cup {None} BY Zenon DEF Served
  <1>3. None \notin ConfigOps BY Zenon, ManagerAssumption DEF ConfigOps, AllOps
  <1>4. thread[t].op \in Ops[t] \cap ConfigOps BY Zenon, <1>1, <1>2, <1>3
  <1>5. t = w BY Zenon, <1>4 DEF OnlyEditor
  <1> QED BY Zenon, <1>1, <1>5

LEMMA SafeConfig ==
    ASSUME IInv, NEW w \in Threads, OnlyEditor(w), SafeInv(w), NEW t \in Threads,
           \/ NotFound(t) \/ BackupOpened(t) \/ BackupCopied(t)
           \/ ConfigRead(t) \/ ConfigOpened(t) \/ ConfigWritten(t)
    PROVE  SafeInv(w)'
  <1>1. Served /\ crashes \in Nat /\ TypeOK BY Zenon DEF SafeInv, IInv
  <1>2. IsConfig(t) /\ crashes' = crashes
    BY Zenon DEF NotFound, BackupOpened, BackupCopied, ConfigRead, ConfigOpened, ConfigWritten
  <1>3. t = w /\ thread[w].op \in ConfigOps BY Zenon, <1>1, <1>2, EditorIs
  <1>4. thread[w] \in ThreadState /\ file \in Contents BY Zenon, <1>1 DEF TypeOK
  <1>5. /\ "backup" \in Places /\ "read" \in Places /\ "write" \in Places
    BY DEF Places
  <1>6. SUFFICES Served' /\ (Rollback(w) => Rollback(w)')
    BY Zenon, <1>1, <1>2, <1>6 DEF SafeInv
  <1>7. CASE NotFound(t)
    <2>1. Ends(w) /\ file' = file /\ thread[w].pc = "start"
      BY Zenon, <1>3, <1>7 DEF NotFound, cfgVars, Reply, Ends
    <2>2. Served' /\ \A p : ~ Editing(w, p)' BY Zenon, <1>1, <2>1, EndsServed
    <2>3. ~ Editing(w, {"write"}) BY Zenon, <2>1 DEF Editing
    <2> QED BY Zenon, <2>1, <2>2, <2>3 DEF Rollback
  <1>8. CASE BackupOpened(t)
    <2>1. Goto(w, "backup") /\ file' = file /\ thread[w].pc = "start"
      BY Zenon, <1>3, <1>8 DEF BackupOpened
    <2>2. thread'[w].pc = "backup" BY Zenon, <1>1, <1>5, <2>1, GotoType
    <2>3. ~ Editing(w, {"write"}) BY Zenon, <2>1 DEF Editing
    <2>4. ~ Editing(w, {"read", "open", "write"})' /\ ~ Editing(w, {"open", "write"})'
      BY Zenon, <2>2 DEF Editing
    <2>5. Served' BY Zenon, <1>1, <1>5, <2>1, GoneOnServed
    <2> QED BY Zenon, <2>1, <2>3, <2>4, <2>5 DEF Rollback
  <1>9. CASE BackupCopied(t)
    <2>1. Goto(w, "read") /\ file' = file /\ backup' = file /\ thread[w].pc = "backup"
      BY Zenon, <1>3, <1>9 DEF BackupCopied
    <2>2. thread'[w].pc = "read" BY Zenon, <1>1, <1>5, <2>1, GotoType
    <2>3. ~ Editing(w, {"write"}) BY Zenon, <2>1 DEF Editing
    <2>4. ~ Editing(w, {"open", "write"})' BY Zenon, <2>2 DEF Editing
    <2>5. Served' BY Zenon, <1>1, <1>5, <2>1, GoneOnServed
    <2> QED BY Zenon, <2>1, <2>3, <2>4, <2>5 DEF Rollback
  <1>10. CASE ConfigRead(t)
    <2>1. file' = file /\ backup' = backup /\ thread[w].pc = "read"
      BY Zenon, <1>3, <1>10 DEF ConfigRead, cfgVars
    <2>2. ~ Editing(w, {"write"}) /\ Editing(w, {"read", "open", "write"})
      BY Zenon, <1>3, <2>1 DEF Editing
    <2>3. CASE Ends(w)
      <3>1. Served' /\ \A p : ~ Editing(w, p)' BY Zenon, <1>1, <2>3, EndsServed
      <3> QED BY Zenon, <2>1, <2>2, <3>1 DEF Rollback
    <2>4. CASE thread' = [thread EXCEPT ![w] = [@ EXCEPT !.pc = "open",
                                                          !.copy = Edited(thread[w].op)]]
      <3>1. /\ thread'[w].op = thread[w].op /\ thread'[w].pc = "open"
            /\ thread'[w].copy = Edited(thread[w].op)
            /\ \A u \in Threads \ {w} : thread'[u] = thread[u]
        BY Zenon, <1>1, <1>4, <2>4 DEF TypeOK, ThreadState
      <3>2. Served' BY Zenon, <1>1, <3>1 DEF Served
      <3>3. Edited(thread[w].op).rest = file.rest BY Zenon, <1>4 DEF Edited, Contents
      <3>4. ~ Editing(w, {"write"})' BY Zenon, <3>1 DEF Editing
      <3> QED BY Zenon, <2>1, <2>2, <3>1, <3>2, <3>3, <3>4 DEF Rollback
    <2> QED BY Zenon, <1>3, <1>10, <2>3, <2>4 DEF ConfigRead, Reply, Ends
  <1>11. CASE ConfigOpened(t)
    <2>1. Goto(w, "write") /\ backup' = backup /\ thread[w].pc = "open"
      BY Zenon, <1>3, <1>11 DEF ConfigOpened
    <2>2. /\ thread'[w].pc = "write" /\ thread'[w].op = thread[w].op
          /\ thread'[w].copy = thread[w].copy
      BY Zenon, <1>1, <1>5, <2>1, GotoType
    <2>3. Editing(w, {"read", "open", "write"}) /\ Editing(w, {"open", "write"})
      BY Zenon, <1>3, <2>1 DEF Editing
    <2>4. Editing(w, {"write"})' BY Zenon, <1>3, <2>2 DEF Editing
    <2>5. Served' BY Zenon, <1>1, <1>5, <2>1, GoneOnServed
    <2> QED BY Zenon, <2>1, <2>2, <2>3, <2>4, <2>5 DEF Rollback
  <1>12. CASE ConfigWritten(t)
    <2>1. Ends(w) /\ file' = thread[w].copy /\ thread[w].pc = "write"
      BY Zenon, <1>3, <1>12 DEF ConfigWritten, Reply, Ends
    <2>2. Served' /\ \A p : ~ Editing(w, p)' BY Zenon, <1>1, <2>1, EndsServed
    <2>3. Editing(w, {"open", "write"}) BY Zenon, <1>3, <2>1 DEF Editing
    <2> QED BY Zenon, <2>1, <2>2, <2>3 DEF Rollback
  <1> QED BY Zenon, <1>7, <1>8, <1>9, <1>10, <1>11, <1>12

LEMMA SafeRequest ==
    ASSUME IInv, NEW w \in Threads, SafeInv(w), NEW t \in Threads, Request(t)
    PROVE  SafeInv(w)'
  <1>1. Served /\ TypeOK BY Zenon DEF SafeInv, IInv
  <1>2. PICK op \in Ops[t] :
          thread' = [thread EXCEPT ![t] = [Idle EXCEPT !.op = op, !.pc = "start",
                                                       !.steady = CanOpen]]
    BY Zenon DEF Request
  <1>3. /\ \A u \in Threads \ {t} : thread'[u] = thread[u]
        /\ thread'[t].op = op /\ thread'[t].pc = "start"
    BY Zenon, <1>1, <1>2 DEF TypeOK, Idle
  <1>4. Served' BY Zenon, <1>1, <1>3 DEF Served
  <1>5. crashes' = crashes /\ file' = file /\ backup' = backup /\ thread[t] = Idle
    BY Zenon DEF Request, cfgVars
  <1>6. CASE t # w
    <2>1. thread'[w] = thread[w] BY Zenon, <1>3, <1>6
    <2> QED BY Zenon, <1>4, <1>5, <2>1, SafeKept
  <1>7. CASE t = w
    <2>1. thread[w].pc = "idle" BY Zenon, <1>5, <1>7, IdlePlace
    <2>2. ~ Editing(w, {"write"}) BY Zenon, <2>1 DEF Editing
    <2>3. ~ Editing(w, {"read", "open", "write"})' /\ ~ Editing(w, {"open", "write"})'
      BY Zenon, <1>3, <1>7 DEF Editing
    <2>4. Rollback(w) => Rollback(w)' BY Zenon, <1>5, <2>2, <2>3 DEF Rollback
    <2> QED BY Zenon, <1>4, <1>5, <2>4 DEF SafeInv
  <1> QED BY Zenon, <1>6, <1>7

LEMMA SafeEnvironment ==
    ASSUME IInv, NEW w \in Threads, SafeInv(w),
           Unplug \/ Plug \/ Refuse \/ Admit \/ UNCHANGED vars
    PROVE  SafeInv(w)'
  <1>1. Served /\ TypeOK BY Zenon DEF SafeInv, IInv
  <1>2. crashes' = crashes /\ file' = file /\ backup' = backup
    BY Zenon DEF Unplug, Plug, Refuse, Admit, vars, cfgVars
  <1>3. \A t \in Threads : /\ thread'[t].op = thread[t].op /\ thread'[t].pc = thread[t].pc
                           /\ thread'[t].copy = thread[t].copy
    <2>1. CASE Unplug \/ Refuse
      <3>1. ASSUME NEW t \in Threads
            PROVE  /\ thread'[t].op = thread[t].op /\ thread'[t].pc = thread[t].pc
                   /\ thread'[t].copy = thread[t].copy
        <4>1. thread[t] \in ThreadState BY Zenon, <1>1 DEF TypeOK
        <4>2. thread'[t] = [thread[t] EXCEPT !.steady = FALSE] BY Zenon, <2>1 DEF Unplug, Refuse
        <4> QED BY Zenon, <4>1, <4>2 DEF ThreadState
      <3> QED BY Zenon, <3>1
    <2>2. CASE Plug \/ Admit \/ UNCHANGED vars
      BY Zenon, <2>2 DEF Plug, Admit, vars
    <2> QED BY Zenon, <2>1, <2>2
  <1>4. Served' BY Zenon, <1>1, <1>3 DEF Served
  <1> QED BY Zenon, <1>2, <1>3, <1>4, SafeKept

LEMMA SafeRestart ==
    ASSUME NEW w \in Threads, SafeInv(w), Restart
    PROVE  SafeInv(w)'
  <1>1. \A t \in Threads : thread'[t].op = None BY Zenon DEF Restart, Idle
  <1>2. Served' BY Zenon, <1>1 DEF Served
  <1>3. crashes' = crashes + 1 BY Zenon DEF Restart
  <1>4. crashes \in Nat BY Zenon DEF SafeInv
  <1>5. crashes' \in Nat /\ crashes' # 0 BY <1>3, <1>4
  <1> QED BY Zenon, <1>2, <1>5 DEF SafeInv

(* The rollback copy of magneto_device.cfg, for any number of threads when one *)
(* of them makes the requests that edit the file: at the first kill of the    *)
(* service, at whatever step, the file or its backup is whole.               *)
THEOREM ConfigIsSafe ==
    ASSUME NEW w \in Threads, OnlyEditor(w)
    PROVE  Spec => ConfigSafe
  <1>1. IInv /\ SafeInv(w) /\ [Next]_vars => SafeInv(w)'
    <2> SUFFICES ASSUME IInv, SafeInv(w), [Next]_vars PROVE SafeInv(w)' BY Zenon
    <2>1. ASSUME NEW t \in Threads, Handler(t) PROVE SafeInv(w)'
      <3>1. CASE LmSteps(t) BY Zenon, <3>1, LmMoves, SafeMoves
      <3>2. CASE \/ NotFound(t) \/ BackupOpened(t) \/ BackupCopied(t)
                 \/ ConfigRead(t) \/ ConfigOpened(t) \/ ConfigWritten(t)
        BY Zenon, <3>2, SafeConfig
      <3> QED BY Zenon, <2>1, <3>1, <3>2 DEF Handler, LmSteps
    <2> QED BY Zenon, <2>1, SafeRequest, SafeEnvironment, SafeRestart DEF Next
  <1>2. IInv /\ SafeInv(w) /\ [Next]_vars
          => [crashes = 0 /\ crashes' = 1 => file.rest \/ backup.rest]_vars
    <2> SUFFICES ASSUME SafeInv(w), crashes = 0 PROVE file.rest \/ backup.rest
      BY Zenon
    <2>1. Rollback(w) BY Zenon DEF SafeInv
    <2>2. Editing(w, {"write"}) => Editing(w, {"read", "open", "write"}) BY Zenon DEF Editing
    <2>3. file.rest = TRUE \/ backup.rest = TRUE BY Zenon, <2>1, <2>2 DEF Rollback
    <2> QED BY Zenon, <2>3
  <1>3. Init => SafeInv(w) BY Zenon, SafeInit
  <1> QED BY <1>1, <1>2, <1>3, Invariance, PTL DEF Spec, ConfigSafe

=============================================================================
