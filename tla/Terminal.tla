------------------------------ MODULE Terminal ------------------------------
(***************************************************************************)
(* The output of one PTY session on its way to the browsers that watch it. *)
(* A blocking reader task takes chunks from the PTY, feeds the shadow      *)
(* emulator and broadcasts them; a client that attaches is sent a snapshot *)
(* of the emulator and then what its broadcast receiver gives it.          *)
(*                                                                         *)
(* Chunks are numbered in the order the shell writes them, so that the     *)
(* emulator, which has taken in all chunks up to some number, and the      *)
(* broadcast channel are counters.  The channel is open while anybody      *)
(* holds a sender: the reader task holds one, and so does the PtySession,  *)
(* which lives as long as the manager's map or an attach handler has it.   *)
(***************************************************************************)
EXTENDS Naturals, Sequences

CONSTANTS
    Clients,        \* WebSocket connections, each made once
    Capacity,       \* BROADCAST_CAPACITY, chunks the channel holds for a receiver
    MaxOutput       \* bound on the number of chunks the shell writes

ASSUME CapacityAssumption == Capacity \in Nat \ {0} /\ MaxOutput \in Nat

VARIABLES
    written,        \* chunks the shell and its children have written to the PTY
    over,           \* all of them have closed it
    screen,         \* chunks the emulator has processed
    sent,           \* chunks broadcast
    reader,         \* the reader task: "reading", "sending" a chunk, "done"
    mapped,         \* the session is in PtyManager.sessions
    online,         \* clients whose connection is up
    handler,        \* handle_socket of a client
    outbound,       \* its task from the channel to the socket
    inbound,        \* its task from the socket to the PTY
    snapshot,       \* chunks in the snapshot the client was sent
    position,       \* the next chunk its receiver would give it
    received,       \* the chunks it was sent after the snapshot
    told            \* clients told that the PTY is dead

ptyVars    == <<written, over, screen, sent, reader, mapped>>
clientVars == <<online, handler, outbound, inbound, snapshot, position, received, told>>
vars       == <<ptyVars, clientVars>>

Readers  == {"reading", "sending", "done"}
Handlers == {"none", "accepted", "snapped", "attached", "done"}
Tasks    == {"none", "running", "done"}

Init ==
    /\ written = 0 /\ over = FALSE
    /\ screen = 0 /\ sent = 0
    /\ reader = "reading"
    /\ mapped = TRUE
    /\ online = {}
    /\ handler = [c \in Clients |-> "none"]
    /\ outbound = [c \in Clients |-> "none"]
    /\ inbound = [c \in Clients |-> "none"]
    /\ snapshot = [c \in Clients |-> 0]
    /\ position = [c \in Clients |-> 1]
    /\ received = [c \in Clients |-> <<>>]
    /\ told = {}

-----------------------------------------------------------------------------
(* The processes on the other end of the PTY, and the reader task.         *)

ShellWrites ==
    /\ ~over
    /\ written < MaxOutput      \* bound
    /\ written' = written + 1
    /\ UNCHANGED <<over, screen, sent, reader, mapped, clientVars>>

ShellCloses ==
    /\ ~over
    /\ over' = TRUE
    /\ UNCHANGED <<written, screen, sent, reader, mapped, clientVars>>

\* Mutant: the emulator runs ahead of the broadcast.
ReadAhead ==
    /\ reader # "done"
    /\ screen < written
    /\ screen' = screen + 1
    /\ reader' = "sending"
    /\ UNCHANGED <<written, over, sent, mapped, clientVars>>

\* reader.read and emulator.process.
Read ==
    /\ reader = "reading"
    /\ screen < written
    /\ screen' = screen + 1
    /\ reader' = "sending"
    /\ UNCHANGED <<written, over, sent, mapped, clientVars>>

\* A receiver that has not taken the chunk about to be overwritten.
Behind(c) == outbound[c] = "running" /\ position[c] + Capacity <= sent + 1

\* Mutant: a bounded channel, whose send waits for the slowest receiver.
SendWaits ==
    /\ reader = "sending"
    /\ \A c \in Clients : ~Behind(c)
    /\ sent' = sent + 1
    /\ reader' = "reading"
    /\ UNCHANGED <<written, over, screen, mapped, clientVars>>

\* tx.send: never waits, the oldest chunk gives way.
Send ==
    /\ reader = "sending"
    /\ sent' = sent + 1
    /\ reader' = "reading"
    /\ UNCHANGED <<written, over, screen, mapped, clientVars>>

\* End of file: the task returns and its sender is dropped.
ReadEnds ==
    /\ reader = "reading"
    /\ over /\ screen = written
    /\ reader' = "done"
    /\ UNCHANGED <<written, over, screen, sent, mapped, clientVars>>

\* mark_dead or delete takes the session out of the map; the shell's children
\* may still be writing then.
Unmap ==
    /\ mapped
    /\ mapped' = FALSE
    /\ UNCHANGED <<written, over, screen, sent, reader, clientVars>>

-----------------------------------------------------------------------------
(* Attaching, handle_socket.                                               *)

Attach(c) ==
    /\ mapped
    /\ handler[c] = "none"
    /\ online' = online \cup {c}
    /\ handler' = [handler EXCEPT ![c] = "accepted"]
    /\ UNCHANGED <<ptyVars, outbound, inbound, snapshot, position, received, told>>

\* emulator.snapshot(), and it is sent.
TakeSnapshot(c) ==
    /\ handler[c] = "accepted"
    /\ handler' = [handler EXCEPT ![c] = "snapped"]
    /\ snapshot' = [snapshot EXCEPT ![c] = screen]
    /\ UNCHANGED <<ptyVars, online, outbound, inbound, position, received, told>>

\* It cannot be sent: the handler returns.
SnapshotFails(c) ==
    /\ handler[c] = "accepted"
    /\ c \notin online
    /\ handler' = [handler EXCEPT ![c] = "done"]
    /\ UNCHANGED <<ptyVars, online, outbound, inbound, snapshot, position, received, told>>

\* After Ready: output.subscribe(), and the two tasks are spawned.
Subscribe(c) ==
    /\ handler[c] = "snapped"
    /\ handler' = [handler EXCEPT ![c] = "attached"]
    /\ position' = [position EXCEPT ![c] = sent + 1]
    /\ outbound' = [outbound EXCEPT ![c] = "running"]
    /\ inbound' = [inbound EXCEPT ![c] = "running"]
    /\ UNCHANGED <<ptyVars, online, snapshot, received, told>>

OutboundStep(c) ==
    /\ outbound[c] = "running"
    /\ UNCHANGED <<ptyVars, handler, inbound, snapshot>>

\* The oldest chunk the channel still holds.
Oldest == IF sent < Capacity THEN 1 ELSE sent - Capacity + 1

\* Mutant: a receiver that fell behind is put past the newest.
PastNewest(c) == IF position[c] < Oldest THEN sent + 1 ELSE position[c]

\* recv: the chunk at its position, or the oldest one left when that is gone.
NextChunk(c) == IF position[c] < Oldest THEN Oldest ELSE position[c]

\* Ok(bytes), after Lagged if need be, and the chunk is sent.
Forward(c) ==
    /\ OutboundStep(c)
    /\ position[c] <= sent
    /\ position' = [position EXCEPT ![c] = NextChunk(c) + 1]
    /\ received' = [received EXCEPT ![c] = Append(@, NextChunk(c))]
    /\ UNCHANGED <<online, outbound, told>>

\* It cannot be sent: the task ends.
ForwardFails(c) ==
    /\ OutboundStep(c)
    /\ position[c] <= sent
    /\ c \notin online
    /\ outbound' = [outbound EXCEPT ![c] = "done"]
    /\ UNCHANGED <<online, position, received, told>>

\* drop_live_ws, the hook of the end-to-end tests: the socket is closed.
DropSocket(c) ==
    /\ OutboundStep(c)
    /\ online' = online \ {c}
    /\ outbound' = [outbound EXCEPT ![c] = "done"]
    /\ UNCHANGED <<position, received, told>>

\* Mutant: the tasks of a connection keep the session, and with it a sender.
TasksHoldSession(c) == handler[c] # "none" /\ "running" \in {outbound[c], inbound[c]}

HoldsSession(c) == handler[c] \in {"accepted", "snapped", "attached"}

\* Mutant: the reader task does not keep the channel open.
OpenBySession == mapped \/ \E c \in Clients : HoldsSession(c)

\* Somebody holds a sender.
Open == reader # "done" \/ mapped \/ \E c \in Clients : HoldsSession(c)

\* Err(Closed): Dead and Close are sent.
TellDead(c) ==
    /\ OutboundStep(c)
    /\ ~Open
    /\ position[c] > sent
    /\ told' = told \cup {c}
    /\ outbound' = [outbound EXCEPT ![c] = "done"]
    /\ UNCHANGED <<online, position, received>>

\* The connection is lost or the client closes it.
Disconnect(c) ==
    /\ c \in online
    /\ online' = online \ {c}
    /\ UNCHANGED <<ptyVars, handler, outbound, inbound, snapshot, position, received, told>>

\* The inbound task sees the connection gone.
InboundEnds(c) ==
    /\ inbound[c] = "running"
    /\ c \notin online
    /\ inbound' = [inbound EXCEPT ![c] = "done"]
    /\ UNCHANGED <<ptyVars, online, handler, outbound, snapshot, position, received, told>>

\* The client types into a PTY that is over: the writer task has ended.
InputFails(c) ==
    /\ over
    /\ inbound[c] = "running"
    /\ inbound' = [inbound EXCEPT ![c] = "done"]
    /\ UNCHANGED <<ptyVars, online, handler, outbound, snapshot, position, received, told>>

\* The select! at the end: one task has ended, the other is left to itself.
HandlerEnds(c) ==
    /\ handler[c] = "attached"
    /\ outbound[c] = "done" \/ inbound[c] = "done"
    /\ handler' = [handler EXCEPT ![c] = "done"]
    /\ UNCHANGED <<ptyVars, online, outbound, inbound, snapshot, position, received, told>>

-----------------------------------------------------------------------------
ReaderStep == Read \/ Send \/ ReadEnds

\* Steps that wait for a socket to take what is sent, or to fail.
SocketStep(c) ==
    \/ TakeSnapshot(c) \/ SnapshotFails(c) \/ Subscribe(c)
    \/ Forward(c) \/ ForwardFails(c) \/ TellDead(c)

Next ==
    \/ ShellWrites \/ ShellCloses
    \/ ReaderStep \/ Unmap
    \/ \E c \in Clients :
          \/ Attach(c) \/ Disconnect(c)
          \/ SocketStep(c) \/ DropSocket(c)
          \/ InboundEnds(c) \/ InputFails(c)
          \/ HandlerEnds(c)

Spec == Init /\ [][Next]_vars

\* The runtime schedules every task, and a session whose shell and children are
\* gone is unmapped.  A client that is connected may stop reading for ever; one
\* that is gone holds nothing up, but while the shell does not read its input
\* the inbound task may be stuck in a full queue.
Fairness ==
    /\ WF_vars(ReaderStep)
    /\ WF_vars(over /\ Unmap)
    /\ \A c \in Clients :
          /\ WF_vars(c \notin online /\ SocketStep(c))
          /\ WF_vars(over /\ InboundEnds(c))
          /\ WF_vars(HandlerEnds(c))

FairSpec == Spec /\ Fairness

\* The clients read what they are sent.
ReadingSpec == FairSpec /\ \A c \in Clients : WF_vars(SocketStep(c))
=============================================================================
