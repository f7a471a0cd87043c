--------------------------- MODULE TerminalProofs ---------------------------
(***************************************************************************)
(* For every number of clients, capacity and length of the output: a       *)
(* client's stream is in order, and it is told that the PTY is dead only   *)
(* after the last chunk.                                                   *)
(***************************************************************************)
EXTENDS TerminalProperties, TLAPS

\* A sequence over a set is one over any larger set.
LEMMA SeqGrows ==
    ASSUME NEW S, NEW T, S \subseteq T, NEW s \in Seq(S)
    PROVE  s \in Seq(T)
  OBVIOUS

\* What recv gives is a chunk that was broadcast, at the receiver's position or
\* later.
LEMMA ChunkInChannel ==
    ASSUME TypeOK, NEW c \in Clients, position[c] <= sent
    PROVE  NextChunk(c) \in position[c]..sent /\ NextChunk(c) \in 1..sent
  BY CapacityAssumption DEF TypeOK, NextChunk, Oldest

-----------------------------------------------------------------------------
\* The types hold of the first state.
LEMMA TypeInit == Init => TypeOK
  <1> SUFFICES ASSUME Init PROVE TypeOK
    OBVIOUS
  <1>1. <<>> \in Seq(1..sent)
    OBVIOUS
  <1>2. received \in [Clients -> Seq(1..sent)]
    BY <1>1 DEF Init
  <1>3. position \in [Clients -> 1..sent + 1]
    BY DEF Init
  <1> QED BY <1>2, <1>3 DEF Init, TypeOK, Readers, Handlers, Tasks

\* Every step keeps them.
LEMMA TypeStep == TypeOK /\ [Next]_vars => TypeOK'
  <1> SUFFICES ASSUME TypeOK, [Next]_vars PROVE TypeOK'
    OBVIOUS
  <1> USE DEF TypeOK, Readers, Handlers, Tasks, ptyVars, clientVars
  <1>1. CASE ShellWrites BY <1>1 DEF ShellWrites
  <1>2. CASE ShellCloses BY <1>2 DEF ShellCloses
  <1>3. CASE Read BY <1>3 DEF Read
  <1>4. CASE Send
    <2>1. 1..sent \subseteq 1..sent + 1 /\ sent' = sent + 1 /\ sent' \in Nat
      BY <1>4 DEF Send
    <2>2. ASSUME NEW c \in Clients PROVE received[c] \in Seq(1..sent + 1)
      BY <2>1, SeqGrows
    <2>3. received' \in [Clients -> Seq(1..sent')]
      BY <1>4, <2>1, <2>2 DEF Send
    <2>4. position' \in [Clients -> 1..sent' + 1]
      BY <1>4, <2>1 DEF Send
    <2> QED BY <1>4, <2>1, <2>3, <2>4 DEF Send
  <1>5. CASE ReadEnds BY <1>5 DEF ReadEnds
  <1>6. CASE Unmap BY <1>6 DEF Unmap
  <1>7. ASSUME NEW c \in Clients, Attach(c) PROVE TypeOK' BY <1>7 DEF Attach
  <1>8. ASSUME NEW c \in Clients, Disconnect(c) PROVE TypeOK' BY <1>8 DEF Disconnect
  <1>9. ASSUME NEW c \in Clients, TakeSnapshot(c) PROVE TypeOK' BY <1>9 DEF TakeSnapshot
  <1>10. ASSUME NEW c \in Clients, SnapshotFails(c) PROVE TypeOK' BY <1>10 DEF SnapshotFails
  <1>11. ASSUME NEW c \in Clients, Subscribe(c) PROVE TypeOK' BY <1>11 DEF Subscribe
  <1>12. ASSUME NEW c \in Clients, Forward(c) PROVE TypeOK'
    <2>1. NextChunk(c) \in 1..sent /\ UNCHANGED sent
      BY <1>12, ChunkInChannel DEF Forward, OutboundStep
    <2>2. position' \in [Clients -> 1..sent' + 1]
      BY <1>12, <2>1 DEF Forward
    <2>3. received' \in [Clients -> Seq(1..sent')]
      BY <1>12, <2>1 DEF Forward
    <2> QED BY <1>12, <2>1, <2>2, <2>3 DEF Forward, OutboundStep
  <1>13. ASSUME NEW c \in Clients, ForwardFails(c) PROVE TypeOK'
    BY <1>13 DEF ForwardFails, OutboundStep
  <1>14. ASSUME NEW c \in Clients, TellDead(c) PROVE TypeOK'
    BY <1>14 DEF TellDead, OutboundStep
  <1>15. ASSUME NEW c \in Clients, DropSocket(c) PROVE TypeOK'
    BY <1>15 DEF DropSocket, OutboundStep
  <1>16. ASSUME NEW c \in Clients, InboundEnds(c) PROVE TypeOK' BY <1>16 DEF InboundEnds
  <1>17. ASSUME NEW c \in Clients, InputFails(c) PROVE TypeOK' BY <1>17 DEF InputFails
  <1>18. ASSUME NEW c \in Clients, HandlerEnds(c) PROVE TypeOK' BY <1>18 DEF HandlerEnds
  <1>19. CASE UNCHANGED vars BY <1>19 DEF vars
  <1> QED
    BY <1>1, <1>2, <1>3, <1>4, <1>5, <1>6, <1>7, <1>8, <1>9, <1>10, <1>11, <1>12, <1>13,
       <1>14, <1>15, <1>16, <1>17, <1>18, <1>19 DEF Next, ReaderStep, SocketStep

\* The variables keep their types.
THEOREM Types == Spec => []TypeOK
  <1>1. Init => TypeOK BY TypeInit
  <1>2. TypeOK /\ [Next]_vars => TypeOK' BY TypeStep
  <1> QED BY <1>1, <1>2, PTL DEF Spec

-----------------------------------------------------------------------------
(* The reader task is at most one chunk ahead of the channel; the receiver  *)
(* of a client was made after its snapshot was taken, and is never moved    *)
(* back; whoever is told that the PTY is dead has ended its outbound task.  *)

ReaderInv ==
    /\ screen <= written
    /\ screen = IF reader = "sending" THEN sent + 1 ELSE sent
    /\ reader = "done" => over /\ screen = written

StreamInv(c) ==
    /\ snapshot[c] <= screen
    /\ handler[c] \in {"none", "accepted", "snapped"} =>
          /\ outbound[c] = "none"
          /\ received[c] = <<>>
    /\ outbound[c] # "none" => snapshot[c] <= position[c]
    /\ \A i \in 1..Len(received[c]) :
          snapshot[c] <= received[c][i] /\ received[c][i] < position[c]
    /\ \A i, j \in 1..Len(received[c]) : i < j => received[c][i] < received[c][j]

DeadInv(c) ==
    c \in told =>
        /\ outbound[c] = "done"
        /\ over /\ reader = "done" /\ sent = written /\ position[c] = written + 1

TerminalInv == TypeOK /\ ReaderInv /\ \A c \in Clients : StreamInv(c) /\ DeadInv(c)

\* The invariant holds of the first state.
LEMMA InvInit == Init => TerminalInv
  <1> SUFFICES ASSUME Init PROVE TerminalInv
    OBVIOUS
  <1>1. TypeOK BY TypeInit
  <1>2. ReaderInv BY DEF Init, ReaderInv
  <1>3. ASSUME NEW c \in Clients PROVE StreamInv(c) /\ DeadInv(c)
    BY DEF Init, StreamInv, DeadInv
  <1> QED BY <1>1, <1>2, <1>3 DEF TerminalInv

\* A client whose own variables do not change keeps its invariant while the emulator
\* only moves on and a PTY that is over stays as it is.
LEMMA Undisturbed ==
    ASSUME TerminalInv, TypeOK', NEW c \in Clients,
           screen <= screen',
           reader = "done" => UNCHANGED <<written, over, sent, reader>>,
           over => over',
           handler'[c] = handler[c], outbound'[c] = outbound[c],
           snapshot'[c] = snapshot[c], position'[c] = position[c],
           received'[c] = received[c], (c \in told') = (c \in told)
    PROVE  StreamInv(c)' /\ DeadInv(c)'
  <1>1. StreamInv(c)'
    <2>1. StreamInv(c)
      BY DEF TerminalInv
    <2>2. snapshot[c] \in Nat /\ screen \in Nat /\ screen' \in Nat
      BY DEF TerminalInv, TypeOK
    <2>3. snapshot'[c] <= screen'
      BY <2>1, <2>2 DEF StreamInv
    <2> QED BY <2>1, <2>3 DEF StreamInv
  <1>2. DeadInv(c)'
    BY DEF TerminalInv, DeadInv
  <1> QED BY <1>1, <1>2

\* The steps of the shell, the reader task and the manager.
LEMMA PtyKeepsInv ==
    ASSUME TerminalInv, TypeOK', ShellWrites \/ ShellCloses \/ ReaderStep \/ Unmap
    PROVE  TerminalInv'
  <1> USE DEF TerminalInv
  <1>1. ReaderInv'
    <2> USE DEF TypeOK, ReaderInv
    <2>1. CASE ShellWrites BY <2>1 DEF ShellWrites
    <2>2. CASE ShellCloses BY <2>2 DEF ShellCloses
    <2>3. CASE Read BY <2>3 DEF Read
    <2>4. CASE Send BY <2>4 DEF Send
    <2>5. CASE ReadEnds BY <2>5 DEF ReadEnds
    <2>6. CASE Unmap BY <2>6 DEF Unmap
    <2> QED BY <2>1, <2>2, <2>3, <2>4, <2>5, <2>6 DEF ReaderStep
  <1>2. /\ screen <= screen'
        /\ reader = "done" => UNCHANGED <<written, over, sent, reader>>
        /\ over => over'
        /\ UNCHANGED clientVars
    BY DEF TypeOK, ReaderInv, ShellWrites, ShellCloses, ReaderStep, Read, Send, ReadEnds, Unmap
  <1>3. ASSUME NEW c \in Clients PROVE StreamInv(c)' /\ DeadInv(c)'
    BY <1>2, Undisturbed DEF clientVars
  <1> QED BY <1>1, <1>3

\* A chunk that is sent lies between the receiver's old and new position.
LEMMA ForwardKeepsStream ==
    ASSUME TerminalInv, NEW c \in Clients, Forward(c)
    PROVE  StreamInv(c)'
  <1> DEFINE n == NextChunk(c)
  <1>1. /\ n \in position[c]..sent /\ n \in 1..sent
        /\ position'[c] = n + 1
        /\ received'[c] = Append(received[c], n)
        /\ received[c] \in Seq(1..sent)
        /\ position[c] \in 1..sent + 1 /\ snapshot[c] \in Nat /\ sent \in Nat
        /\ UNCHANGED <<screen, handler, outbound, snapshot>>
    BY ChunkInChannel DEF TerminalInv, Forward, OutboundStep, ptyVars, TypeOK
  <1>2. /\ StreamInv(c) /\ outbound[c] = "running"
        /\ snapshot[c] <= position[c]
    BY DEF TerminalInv, StreamInv, Forward, OutboundStep
  <1> HIDE DEF n
  <1>3. /\ Len(received'[c]) = Len(received[c]) + 1
        /\ Len(received[c]) \in Nat
        /\ received'[c][Len(received[c]) + 1] = n
        /\ \A i \in 1..Len(received[c]) : received'[c][i] = received[c][i] /\ received[c][i] \in 1..sent
    BY <1>1
  <1>4. ASSUME NEW i \in 1..Len(received'[c])
        PROVE  snapshot[c] <= received'[c][i] /\ received'[c][i] < position'[c]
    <2>1. CASE i = Len(received[c]) + 1
      BY <1>1, <1>2, <1>3, <2>1
    <2>2. CASE i \in 1..Len(received[c])
      <3>1. snapshot[c] <= received[c][i] /\ received[c][i] < position[c]
        BY <1>2, <2>2 DEF StreamInv
      <3> QED BY <1>1, <1>3, <2>2, <3>1
    <2> QED BY <1>3, <2>1, <2>2
  <1>5. ASSUME NEW i \in 1..Len(received'[c]), NEW j \in 1..Len(received'[c]), i < j
        PROVE  received'[c][i] < received'[c][j]
    <2>1. i \in 1..Len(received[c])
      BY <1>3, <1>5
    <2>2. received[c][i] < position[c]
      BY <1>2, <2>1 DEF StreamInv
    <2>3. CASE j = Len(received[c]) + 1
      BY <1>1, <1>3, <2>1, <2>2, <2>3
    <2>4. CASE j \in 1..Len(received[c])
      <3>1. received[c][i] < received[c][j]
        BY <1>2, <1>5, <2>1, <2>4 DEF StreamInv
      <3> QED BY <1>3, <2>1, <2>4, <3>1
    <2> QED BY <1>3, <2>3, <2>4
  <1>6. handler[c] \notin {"none", "accepted", "snapped"}
    BY <1>2 DEF StreamInv
  <1>7. snapshot[c] <= screen /\ snapshot[c] <= position'[c]
    BY <1>1, <1>2 DEF StreamInv
  <1> QED BY <1>1, <1>4, <1>5, <1>6, <1>7 DEF StreamInv

\* The steps of the connection of one client.
LEMMA ClientKeepsInv ==
    ASSUME TerminalInv, TypeOK', NEW c \in Clients,
           \/ Attach(c) \/ Disconnect(c)
           \/ SocketStep(c) \/ DropSocket(c)
           \/ InboundEnds(c) \/ InputFails(c)
           \/ HandlerEnds(c)
    PROVE  TerminalInv'
  <1> USE DEF TerminalInv, OutboundStep
  <1>1. UNCHANGED ptyVars
    BY DEF Attach, Disconnect, SocketStep, DropSocket, InboundEnds, InputFails, HandlerEnds,
           TakeSnapshot, SnapshotFails, Subscribe, Forward, ForwardFails, TellDead
  <1>2. ReaderInv'
    BY <1>1 DEF ReaderInv, ptyVars
  <1>3. ASSUME NEW d \in Clients, d # c PROVE StreamInv(d)' /\ DeadInv(d)'
    <2>1. /\ handler'[d] = handler[d] /\ outbound'[d] = outbound[d]
          /\ snapshot'[d] = snapshot[d] /\ position'[d] = position[d]
          /\ received'[d] = received[d] /\ (d \in told') = (d \in told)
      <3> USE <1>3 DEF TypeOK
      <3>1. CASE Attach(c) \/ Disconnect(c) BY <3>1 DEF Attach, Disconnect
      <3>2. CASE TakeSnapshot(c) \/ SnapshotFails(c) BY <3>2 DEF TakeSnapshot, SnapshotFails
      <3>3. CASE Subscribe(c) BY <3>3 DEF Subscribe
      <3>4. CASE Forward(c) BY <3>4 DEF Forward
      <3>5. CASE ForwardFails(c)
        BY <3>5 DEF ForwardFails
      <3>6. CASE TellDead(c)
        BY <3>6 DEF TellDead
      <3>7. CASE DropSocket(c)
        BY <3>7 DEF DropSocket
      <3>8. CASE InboundEnds(c) \/ InputFails(c) \/ HandlerEnds(c)
        BY <3>8 DEF InboundEnds, InputFails, HandlerEnds
      <3> QED BY <3>1, <3>2, <3>3, <3>4, <3>5, <3>6, <3>7, <3>8 DEF SocketStep
    <2>2. screen <= screen'
      BY <1>1 DEF ptyVars, TypeOK
    <2> QED BY <1>1, <2>1, <2>2, Undisturbed DEF ptyVars
  <1>4. StreamInv(c)'
    <2>1. CASE Attach(c) BY <2>1 DEF Attach, StreamInv, TypeOK, ptyVars
    <2>2. CASE Disconnect(c) BY <2>2 DEF Disconnect, StreamInv, TypeOK, ptyVars
    <2>3. CASE TakeSnapshot(c) BY <2>3 DEF TakeSnapshot, StreamInv, TypeOK, ptyVars
    <2>4. CASE SnapshotFails(c) BY <2>4 DEF SnapshotFails, StreamInv, TypeOK, ptyVars
    <2>5. CASE Subscribe(c)
      <3>1. snapshot[c] <= sent + 1 /\ received[c] = <<>>
        BY <2>5 DEF Subscribe, StreamInv, ReaderInv, TypeOK
      <3> QED BY <2>5, <3>1 DEF Subscribe, StreamInv, TypeOK, ptyVars
    <2>6. CASE Forward(c) BY <2>6, ForwardKeepsStream
    <2>7. CASE ForwardFails(c) BY <2>7 DEF ForwardFails, StreamInv, TypeOK, ptyVars
    <2>8. CASE TellDead(c) BY <2>8 DEF TellDead, StreamInv, TypeOK, ptyVars
    <2>9. CASE DropSocket(c) BY <2>9 DEF DropSocket, StreamInv, TypeOK, ptyVars
    <2>10. CASE InboundEnds(c) BY <2>10 DEF InboundEnds, StreamInv, TypeOK, ptyVars
    <2>11. CASE InputFails(c) BY <2>11 DEF InputFails, StreamInv, TypeOK, ptyVars
    <2>12. CASE HandlerEnds(c) BY <2>12 DEF HandlerEnds, StreamInv, TypeOK, ptyVars
    <2> QED
      BY <2>1, <2>2, <2>3, <2>4, <2>5, <2>6, <2>7, <2>8, <2>9, <2>10, <2>11, <2>12 DEF SocketStep
  <1>5. DeadInv(c)'
    <2>1. CASE Subscribe(c)
      <3>1. c \notin told
        BY <2>1 DEF Subscribe, StreamInv, DeadInv
      <3> QED BY <2>1, <3>1 DEF Subscribe, DeadInv
    <2>2. CASE TellDead(c)
      <3>1. reader = "done" /\ over /\ sent = written /\ position[c] = written + 1
        BY <2>2 DEF TellDead, Open, ReaderInv, TypeOK
      <3> QED BY <1>1, <2>2, <3>1 DEF TellDead, DeadInv, TypeOK, ptyVars
    <2>3. CASE Forward(c) \/ ForwardFails(c) \/ DropSocket(c)
      <3>1. c \notin told
        BY <2>3 DEF Forward, ForwardFails, DropSocket, DeadInv
      <3> QED BY <2>3, <3>1 DEF Forward, ForwardFails, DropSocket, DeadInv
    <2>4. CASE \/ Attach(c) \/ Disconnect(c) \/ TakeSnapshot(c) \/ SnapshotFails(c)
               \/ InboundEnds(c) \/ InputFails(c) \/ HandlerEnds(c)
      <3>1. UNCHANGED <<told, outbound, position>>
        BY <2>4 DEF Attach, Disconnect, TakeSnapshot, SnapshotFails, InboundEnds, InputFails, HandlerEnds
      <3> QED BY <1>1, <3>1 DEF DeadInv, ptyVars
    <2> QED BY <2>1, <2>2, <2>3, <2>4 DEF SocketStep
  <1> QED BY <1>2, <1>3, <1>4, <1>5

\* The invariant behind both theorems below, for any clients and bounds.
THEOREM InvAlways == Spec => []TerminalInv
  <1>1. Init => TerminalInv BY InvInit
  <1>2. TerminalInv /\ [Next]_vars => TerminalInv'
    <2> SUFFICES ASSUME TerminalInv, [Next]_vars PROVE TerminalInv'
      OBVIOUS
    <2>1. TypeOK' BY TypeStep DEF TerminalInv
    <2>2. CASE ShellWrites \/ ShellCloses \/ ReaderStep \/ Unmap
      BY <2>1, <2>2, PtyKeepsInv
    <2>3. ASSUME NEW c \in Clients,
                 \/ Attach(c) \/ Disconnect(c)
                 \/ SocketStep(c) \/ DropSocket(c)
                 \/ InboundEnds(c) \/ InputFails(c)
                 \/ HandlerEnds(c)
          PROVE  TerminalInv'
      BY <2>1, <2>3, ClientKeepsInv
    <2>4. CASE UNCHANGED vars
      BY <2>4 DEF vars, ptyVars, clientVars, TerminalInv, TypeOK, ReaderInv, StreamInv, DeadInv
    <2> QED BY <2>2, <2>3, <2>4 DEF Next
  <1> QED BY <1>1, <1>2, PTL DEF Spec

\* However clients attach, lag and leave, each is sent chunks in order, none twice,
\* and at most one that its snapshot already shows.
THEOREM InOrder == Spec => []StreamInOrder
  <1>1. TerminalInv => StreamInOrder
    BY DEF TerminalInv, StreamInv, StreamInOrder
  <1> QED BY <1>1, InvAlways, PTL

\* No client is told that the PTY is dead while a chunk can still follow.
THEOREM DeadLast == Spec => []DeadIsLast
  <1>1. TerminalInv => DeadIsLast
    BY DEF TerminalInv, DeadInv, DeadIsLast, TypeOK
  <1> QED BY <1>1, InvAlways, PTL
=============================================================================
