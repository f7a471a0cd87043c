------------------------- MODULE TerminalProperties -------------------------
(***************************************************************************)
(* What the terminal of a session promises to those who watch it.          *)
(***************************************************************************)
EXTENDS Terminal

\* Types of the variables of the reader task, the channel and the clients.
TypeOK ==
    /\ written \in Nat /\ screen \in Nat /\ sent \in Nat
    /\ over \in BOOLEAN /\ mapped \in BOOLEAN
    /\ reader \in Readers
    /\ online \subseteq Clients /\ told \subseteq Clients
    /\ handler \in [Clients -> Handlers]
    /\ outbound \in [Clients -> Tasks]
    /\ inbound \in [Clients -> Tasks]
    /\ snapshot \in [Clients -> Nat]
    /\ position \in [Clients -> 1..sent + 1]
    /\ received \in [Clients -> Seq(1..sent)]

\* A client is sent chunks in the order the shell wrote them and none twice, and
\* of those its snapshot shows at most the last, which was processed and not yet
\* broadcast when the snapshot was taken (spawn_reader_task, handle_socket).
StreamInOrder ==
    \A c \in Clients :
        /\ \A i \in 1..Len(received[c]) : received[c][i] >= snapshot[c]
        /\ \A i, j \in 1..Len(received[c]) : i < j => received[c][i] < received[c][j]

\* A client is told that the PTY is dead only when no chunk can follow, though
\* the session is unmapped while its last output may still be unread; by then its
\* receiver has been given or has skipped all there was (spawn_reader_task,
\* mark_dead, handle_socket).
DeadIsLast ==
    \A c \in told : over /\ reader = "done" /\ sent = written /\ position[c] = written + 1

\* The emulator is fed and the output broadcast whatever the clients do: one that
\* does not read holds up neither the reader task nor the shell
\* (spawn_reader_task).
EmulatorFed == \A n \in 1..MaxOutput : written = n ~> (screen >= n /\ sent >= n)

\* When the PTY is over and all connections are gone, no handler and no task is
\* left, although the handler aborts neither of its tasks (handle_socket).
TasksEnd ==
    (over /\ online = {}) ~>
        \/ online # {}
        \/ \A c \in Clients :
              handler[c] \in {"none", "done"} /\ outbound[c] # "running" /\ inbound[c] # "running"

\* What the handler says it does when the PTY ends: a client that stays
\* connected is told (handle_socket, the Closed arm).
DeadIsTold ==
    \A c \in Clients :
        (handler[c] = "attached" /\ reader = "done") ~> (c \in told \/ c \notin online)
=============================================================================
