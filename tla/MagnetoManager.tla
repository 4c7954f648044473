--------------------------- MODULE MagnetoManager ---------------------------
(***************************************************************************)
(* magneto-manager.py: the Flask service behind the printer's macros.  Each *)
(* request is handled by a thread of its own.  Two parts of its state are   *)
(* shared by the threads: the serial connection to the linear motor board,  *)
(* under serial_lock, and the file magneto_device.cfg with its backup,      *)
(* without a lock.  (The third, the process of the motor GUI, is left out.) *)
(*                                                                         *)
(* The board may be unplugged and enumerate again: a handle opened before   *)
(* still says it is open, and a write to it fails.  A board that is there   *)
(* may refuse to be opened (another program has it, its rights are not set  *)
(* yet).  The service may be killed and started again; files keep what was  *)
(* written to them.                                                        *)
(***************************************************************************)
EXTENDS Naturals, FiniteSets

CONSTANTS
    Threads,
    Ops,            \* the requests each thread may get
    MaxRequests,    \* bound: how many requests
    MaxPlugs,       \* bound: how often the board enumerates
    MaxCrashes,     \* bound: how often the service is killed
    None

AllOps == {"connect_lm", "disconnect_lm", "send_command", "set_mcu_uuid", "set_can_uuid"}

ASSUME ManagerAssumption ==
    /\ Ops \in [Threads -> SUBSET AllOps]
    /\ MaxRequests \in Nat /\ MaxPlugs \in Nat /\ MaxCrashes \in Nat
    /\ None \notin Threads /\ None \notin AllOps /\ None \notin Nat

VARIABLES
    thread,             \* what each thread does: its request, its place, its copy of the file
    requests, crashes,  \* how many there were
    present, plugs,     \* is the board there, and how often it enumerated
    openable,           \* can a board that is there be opened?
    serial_lock,        \* the thread that holds it
    serial_connection,  \* the handle of the connection, or None
    opened,             \* the open handles, each with the enumeration it belongs to
    file, backup,       \* magneto_device.cfg and its backup
    reply               \* history: the last reply, and whether it had a fair chance

lmVars == <<serial_lock, serial_connection, opened>>
boardVars == <<present, plugs, openable>>
cfgVars == <<file, backup>>
vars == <<thread, requests, crashes, boardVars, lmVars, cfgVars, reply>>

Idle == [op |-> None, pc |-> "idle", copy |-> None, steady |-> FALSE]

\* The numbers of the handles; one that is closed is used again.
Handles == 1..(2 * MaxRequests + 2)

-----------------------------------------------------------------------------
At(t, op, pc) == thread[t].op = op /\ thread[t].pc = pc

Goto(t, pc) == thread' = [thread EXCEPT ![t].pc = pc]

Reply(t, status) ==
    /\ thread' = [thread EXCEPT ![t] = Idle]
    /\ reply' = [op |-> thread[t].op, status |-> status, steady |-> thread[t].steady]

\* connect_to_serial finds the board and can open it.
CanOpen == present /\ openable

Request(t) ==
    /\ thread[t] = Idle /\ requests < MaxRequests
    /\ requests' = requests + 1
    /\ \E op \in Ops[t] :
        thread' = [thread EXCEPT ![t] = [Idle EXCEPT !.op = op, !.pc = "start",
                                                     !.steady = CanOpen]]
    /\ UNCHANGED <<crashes, boardVars, lmVars, cfgVars, reply>>

-----------------------------------------------------------------------------
(* The linear motor board and its serial connection. *)

Unplug ==
    /\ present
    /\ present' = FALSE
    /\ thread' = [t \in Threads |-> [thread[t] EXCEPT !.steady = FALSE]]
    /\ UNCHANGED <<plugs, openable, requests, crashes, lmVars, cfgVars, reply>>

Plug ==
    /\ ~present /\ plugs < MaxPlugs
    /\ present' = TRUE /\ plugs' = plugs + 1
    /\ UNCHANGED <<thread, openable, requests, crashes, lmVars, cfgVars, reply>>

\* Opening the board begins to fail.
Refuse ==
    /\ openable
    /\ openable' = FALSE
    /\ thread' = [t \in Threads |-> [thread[t] EXCEPT !.steady = FALSE]]
    /\ UNCHANGED <<present, plugs, requests, crashes, lmVars, cfgVars, reply>>

Admit ==
    /\ ~openable
    /\ openable' = TRUE
    /\ UNCHANGED <<thread, present, plugs, requests, crashes, lmVars, cfgVars, reply>>

IsOpen(h) == \E o \in opened : o.handle = h

\* A write succeeds on an open handle of the board's present enumeration.
CanWrite(h) == present /\ \E o \in opened : o.handle = h /\ o.plug = plugs

NewHandle == CHOOSE h \in Handles : h # serial_connection /\ ~IsOpen(h)

Closed(h) == {o \in opened : o.handle # h}

reconnect_serial ==
    IF CanOpen
    THEN /\ serial_connection' = NewHandle
         /\ opened' = Closed(serial_connection) \cup {[handle |-> NewHandle, plug |-> plugs]}
    ELSE /\ serial_connection' = None
         /\ opened' = Closed(serial_connection)

Acquire(t) ==
    /\ thread[t].op \in {"connect_lm", "disconnect_lm", "send_command"}
    /\ thread[t].pc = "start"
    /\ serial_lock = None
    /\ serial_lock' = t
    /\ Goto(t, "locked")
    /\ UNCHANGED <<requests, crashes, boardVars, serial_connection, opened, cfgVars, reply>>

connect_esplm(t) ==
    /\ At(t, "connect_lm", "locked")
    /\ reconnect_serial
    /\ serial_lock' = None
    /\ Reply(t, IF CanOpen THEN 200 ELSE 503)
    /\ UNCHANGED <<requests, crashes, boardVars, cfgVars>>

disconnect_unlocked(t) ==
    /\ thread[t].op = "disconnect_lm"
    /\ opened' = Closed(serial_connection)
    /\ serial_connection' = None
    /\ serial_lock' = IF serial_lock = t THEN None ELSE serial_lock
    /\ Reply(t, 200)
    /\ UNCHANGED <<requests, crashes, boardVars, cfgVars>>

disconnect_serial(t) ==
    /\ At(t, "disconnect_lm", "locked")
    /\ opened' = Closed(serial_connection)
    /\ serial_connection' = None
    /\ serial_lock' = None
    /\ Reply(t, 200)
    /\ UNCHANGED <<requests, crashes, boardVars, cfgVars>>

\* send_command: a connection that is not open is opened once before the write.
SendOpens(t) ==
    /\ At(t, "send_command", "locked")
    /\ IF serial_connection # None /\ IsOpen(serial_connection)
       THEN Goto(t, "write") /\ UNCHANGED <<lmVars, reply>>
       ELSE /\ reconnect_serial
            /\ IF CanOpen
               THEN Goto(t, "write") /\ UNCHANGED <<serial_lock, reply>>
               ELSE Reply(t, 503) /\ serial_lock' = None
    /\ UNCHANGED <<requests, crashes, boardVars, cfgVars>>

SendWrites_once(t) ==
    /\ At(t, "send_command", "write")
    /\ Reply(t, IF CanWrite(serial_connection) THEN 200 ELSE 503)
    /\ serial_lock' = None
    /\ UNCHANGED <<requests, crashes, boardVars, serial_connection, opened, cfgVars>>

SendWrites(t) ==
    /\ At(t, "send_command", "write")
    /\ IF CanWrite(serial_connection)
       THEN Reply(t, 200) /\ serial_lock' = None
       ELSE Goto(t, "reconnect") /\ UNCHANGED <<serial_lock, reply>>
    /\ UNCHANGED <<requests, crashes, boardVars, serial_connection, opened, cfgVars>>

\* The write failed: one reconnection and one more write.
SendReconnects(t) ==
    /\ At(t, "send_command", "reconnect")
    /\ reconnect_serial
    /\ IF CanOpen
       THEN Goto(t, "rewrite") /\ UNCHANGED <<serial_lock, reply>>
       ELSE Reply(t, 503) /\ serial_lock' = None
    /\ UNCHANGED <<requests, crashes, boardVars, cfgVars>>

SendRewrites(t) ==
    /\ At(t, "send_command", "rewrite")
    /\ Reply(t, IF CanWrite(serial_connection) THEN 200 ELSE 503)
    /\ serial_lock' = None
    /\ UNCHANGED <<requests, crashes, boardVars, serial_connection, opened, cfgVars>>

-----------------------------------------------------------------------------
(* The configuration: the serial line of its [mcu] section ("bare": the     *)
(* section has none; None: there is no section), the line of the CAN uuid    *)
(* and the rest.  An empty file is one opened for writing that nothing has   *)
(* been written to yet.                                                     *)

Originals == [serial : {"old", "bare", None}, canbus_uuid : {"old", None}, rest : {TRUE}]
Empty == [serial |-> None, canbus_uuid |-> None, rest |-> FALSE]

\* The file with the line of the request's setting replaced.
Edited(op) ==
    IF op = "set_mcu_uuid" THEN [file EXCEPT !.serial = "new"]
    ELSE [file EXCEPT !.canbus_uuid = "new"]

IsConfig(t) == thread[t].op \in {"set_mcu_uuid", "set_can_uuid"}

\* shutil.copy2 opens the backup, which empties it, and then copies.
BackupOpened(t) ==
    /\ IsConfig(t) /\ thread[t].pc = "start"
    /\ backup' = Empty
    /\ Goto(t, "backup")
    /\ UNCHANGED <<requests, crashes, boardVars, lmVars, file, reply>>

\* No device, a failed query or not two uuids: the request ends before the backup.
NotFound(t) ==
    /\ IsConfig(t) /\ thread[t].pc = "start"
    /\ Reply(t, IF thread[t].op = "set_mcu_uuid" THEN 404 ELSE 500)
    /\ UNCHANGED <<requests, crashes, boardVars, lmVars, cfgVars>>

BackupCopied_lost(t) ==
    /\ IsConfig(t) /\ thread[t].pc = "backup"
    /\ Goto(t, "read")
    /\ UNCHANGED <<requests, crashes, boardVars, lmVars, cfgVars, reply>>

BackupCopied(t) ==
    /\ IsConfig(t) /\ thread[t].pc = "backup"
    /\ backup' = file
    /\ Goto(t, "read")
    /\ UNCHANGED <<requests, crashes, boardVars, lmVars, file, reply>>

\* Without a line to replace nothing is written, but update_config_file appends the
\* section when there is none.
NoLine(op) == IF op = "set_mcu_uuid" THEN file.serial = "bare" ELSE file.canbus_uuid = None

ConfigRead(t) ==
    /\ IsConfig(t) /\ thread[t].pc = "read"
    /\ IF NoLine(thread[t].op)
       THEN Reply(t, 500)
       ELSE /\ thread' = [thread EXCEPT ![t] = [@ EXCEPT !.pc = "open",
                                                          !.copy = Edited(thread[t].op)]]
            /\ UNCHANGED reply
    /\ UNCHANGED <<requests, crashes, boardVars, lmVars, cfgVars>>

ConfigOpened(t) ==
    /\ IsConfig(t) /\ thread[t].pc = "open"
    /\ file' = Empty
    /\ Goto(t, "write")
    /\ UNCHANGED <<requests, crashes, boardVars, lmVars, backup, reply>>

ConfigWritten(t) ==
    /\ IsConfig(t) /\ thread[t].pc = "write"
    /\ file' = thread[t].copy
    /\ Reply(t, 200)
    /\ UNCHANGED <<requests, crashes, boardVars, lmVars, backup>>

-----------------------------------------------------------------------------
\* The service is killed and started again: __main__ connects to the board.
Restart ==
    /\ crashes < MaxCrashes
    /\ crashes' = crashes + 1
    /\ thread' = [t \in Threads |-> Idle]
    /\ serial_lock' = None
    /\ serial_connection' = IF CanOpen THEN 1 ELSE None
    /\ opened' = IF CanOpen THEN {[handle |-> 1, plug |-> plugs]} ELSE {}
    /\ UNCHANGED <<requests, boardVars, cfgVars, reply>>

Init ==
    /\ thread = [t \in Threads |-> Idle]
    /\ requests = 0 /\ crashes = 0 /\ plugs = 0
    /\ present \in BOOLEAN /\ openable \in BOOLEAN
    /\ serial_lock = None
    /\ serial_connection = IF CanOpen THEN 1 ELSE None
    /\ opened = IF CanOpen THEN {[handle |-> 1, plug |-> 0]} ELSE {}
    /\ file \in Originals /\ backup = file
    /\ reply = None

Handler(t) ==
    \/ Acquire(t) \/ connect_esplm(t) \/ disconnect_serial(t)
    \/ SendOpens(t) \/ SendWrites(t) \/ SendReconnects(t) \/ SendRewrites(t)
    \/ NotFound(t) \/ BackupOpened(t) \/ BackupCopied(t)
    \/ ConfigRead(t) \/ ConfigOpened(t) \/ ConfigWritten(t)

Next == \/ \E t \in Threads : Request(t) \/ Handler(t)
        \/ Unplug \/ Plug \/ Refuse \/ Admit \/ Restart

Spec == Init /\ [][Next]_vars

-----------------------------------------------------------------------------
(* The lock "serializes connect/disconnect/write on the shared LM serial    *)
(* connection so a concurrent /connect_lm cannot swap the global mid-write": *)
(* a thread about to write has the lock and an open connection, which no    *)
(* other thread has closed or dropped since it looked, and the service      *)
(* never has an open handle other than that connection.                     *)
ConnectionOwned ==
    /\ {o.handle : o \in opened} \subseteq {serial_connection}
    /\ Cardinality(opened) <= 1
    /\ \A t \in Threads : thread[t].op = "send_command" /\ thread[t].pc \in {"write", "rewrite"}
            => serial_lock = t /\ serial_connection # None /\ IsOpen(serial_connection)

(* A command sent while the board is there and can be opened all along is    *)
(* written, however often the board enumerated, or other requests closed the *)
(* connection, before: a send never fails because of a stale handle.        *)
SendRecovers ==
    reply # None /\ reply.op = "send_command" /\ reply.status # 200 => ~reply.steady

(* "A failed query must not destroy the rollback copy": when the service is *)
(* first killed, at whatever step, the configuration file or its backup is   *)
(* whole.  (The next request copies what the kill left over the backup, so   *)
(* nothing is promised for a second one.)                                   *)
ConfigSafe == [][crashes = 0 /\ crashes' = 1 => file.rest \/ backup.rest]_vars

=============================================================================
