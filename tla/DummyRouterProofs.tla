------------------------- MODULE DummyRouterProofs -------------------------
(***************************************************************************)
(* Proofs about DummyRouter, for any methods, frames and numbers of        *)
(* connections and descriptors: its variables keep their types, the        *)
(* registry never names a descriptor that is closed or another's, a client *)
(* erases only its own methods, frames are never mixed up on a socket, and *)
(* no request is answered twice.                                           *)
(***************************************************************************)
EXTENDS DummyRouter, FiniteSetTheorems, TLAPS

USE DEF Conns, Fds

\* Where a client_loop is between two frames, and where it handles one.
Handling == {"register", "reset", "lookup", "lock", "write"}

\* A thread at work has a frame to work on, and where it sends is open or has
\* been; a thread that runs has its own descriptor.
ThreadInv ==
  /\ \A c \in Conns : pc[c] \in Handling => buf[c] # <<>>
  /\ \A c \in Conns : pc[c] \notin {"none", "done"} =>
       fd[c] \in Fds /\ owner[fd[c]] = c
  /\ \A f \in Fds : owner[f] # 0 =>
       fd[owner[f]] = f /\ pc[owner[f]] \notin {"none", "done"}

\* A registered descriptor belongs to a connection that registered the method
\* and has not yet erased its methods to close.
RegInv ==
  \A m \in Methods :
    registered[m] # 0 =>
      /\ owner[registered[m]] # 0
      /\ pc[owner[registered[m]]] # "close"
      /\ m \in claimed[owner[registered[m]]]

IInv == TypeOK /\ ThreadInv /\ RegInv

LEMMA TypeInit == Init => TypeOK
BY ConstAssumption DEF Init, TypeOK, Pcs

\* What a handler works on.
LEMMA TaskType ==
  ASSUME TypeOK, ThreadInv, NEW c \in Conns, pc[c] \in Handling
  PROVE  Task(c) \in Frame /\ Task(c).method \in Methods /\ fd[c] \in Fds
<1>1. buf[c] \in Seq(Frame) /\ buf[c] # <<>>
  BY DEF TypeOK, ThreadInv
<1>2. Task(c) \in Frame
  BY <1>1 DEF Task
<1>3. Task(c).method \in Methods
  BY <1>2 DEF Frame
<1>4. fd[c] \in Fds
  BY DEF ThreadInv, Handling
<1> QED
  BY <1>2, <1>3, <1>4

\* The two ends of a handler keep the types.
LEMMA DoneTypes ==
  ASSUME TypeOK, NEW c \in Conns, buf[c] # <<>>, Done(c)
  PROVE  /\ pc' \in [Conns -> Pcs]
         /\ buf' \in [Conns -> Seq(Frame)]
         /\ \A d \in Conns : pc'[d] \in {"lock", "write"} => pc[d] = pc'[d]
BY DEF TypeOK, Done, Goto, Pcs

LEMMA SendTypes ==
  ASSUME TypeOK, NEW c \in Conns, NEW w \in {"answer", "again", "notification"},
         NEW f \in Fds, Send(c, w, f)
  PROVE  /\ pc' \in [Conns -> Pcs]
         /\ out' \in [Conns -> {"answer", "again", "notification"}]
         /\ dest' \in [Conns -> Fds \cup {0}]
         /\ \A d \in Conns : pc'[d] \in {"lock", "write"} => dest'[d] # 0
BY DEF TypeOK, Send, Goto, Pcs

LEMMA AfterTypes ==
  ASSUME TypeOK, ThreadInv, NEW c \in Conns, pc[c] = "write",
         NEW ok \in BOOLEAN, AfterSend(c, ok)
  PROVE  /\ holder' = 0
         /\ pc' \in [Conns -> Pcs]
         /\ buf' \in [Conns -> Seq(Frame)]
         /\ out' \in [Conns -> {"answer", "again", "notification"}]
         /\ dest' \in [Conns -> Fds \cup {0}]
         /\ \A d \in Conns : pc'[d] \in {"lock", "write"} => dest'[d] # 0
<1>0. fd[c] \in Fds /\ pc[c] \in Handling
  BY DEF ThreadInv, Handling
<1>1. holder' = 0
  BY DEF AfterSend, Release
<1>2. CASE Send(c, "answer", fd[c]) /\ UNCHANGED buf
  BY <1>0, <1>1, <1>2, SendTypes DEF TypeOK
<1>3. CASE Send(c, "again", fd[c]) /\ UNCHANGED buf
  BY <1>0, <1>1, <1>3, SendTypes DEF TypeOK
<1>4. CASE Done(c) /\ UNCHANGED <<out, dest>>
  BY <1>0, <1>1, <1>4, DoneTypes DEF ThreadInv, Handling, TypeOK
<1> QED
  BY <1>2, <1>3, <1>4 DEF AfterSend, Answer

LEMMA TypeStep == IInv /\ [Next]_vars => TypeOK'
<1> SUFFICES ASSUME TypeOK, ThreadInv, RegInv, [Next]_vars
             PROVE  TypeOK'
  BY DEF IInv
<1>1. CASE MainTest
  BY <1>1 DEF MainTest, TypeOK, shared, thread, sending, clients
<1>2. CASE AcceptFails
  BY <1>2 DEF AcceptFails, TypeOK, shared, thread, sending, clients
<1>3. CASE Sigint
  BY <1>3 DEF Sigint, TypeOK, shared, thread, sending, clients
<1>21. ASSUME NEW c \in Conns, SigintInRead(c)
       PROVE  TypeOK'
  BY <1>21 DEF SigintInRead, TypeOK, shared, sending, clients, Pcs
<1>4. ASSUME NEW c \in Conns, Accept(c)
      PROVE  TypeOK'
  BY <1>4 DEF Accept, Free, TypeOK, sending, clients, Pcs
<1>5. ASSUME NEW c \in Conns, Loop(c)
      PROVE  TypeOK'
  BY <1>5 DEF Loop, Goto, TypeOK, process, shared, sending, clients, Pcs
<1>6. ASSUME NEW c \in Conns, Read(c)
      PROVE  TypeOK'
  BY <1>6 DEF Read, Goto, TypeOK, process, shared, sending, Pcs
<1>7. ASSUME NEW c \in Conns, ReadEof(c)
      PROVE  TypeOK'
  BY <1>7 DEF ReadEof, Goto, TypeOK, process, shared, sending, clients, Pcs
<1>8. ASSUME NEW c \in Conns, NextFrame(c)
      PROVE  TypeOK'
  <2>0. fd[c] \in Fds
    BY <1>8 DEF NextFrame, At, ThreadInv
  <2>1. CASE Send(c, "answer", fd[c]) /\ UNCHANGED buf
    BY <1>8, <2>0, <2>1, SendTypes DEF NextFrame, TypeOK, process, shared, clients
  <2>2. CASE /\ \E l \in {"loop", "register", "reset", "lookup"} : Goto(c, l)
             /\ UNCHANGED <<buf, out, dest>>
    BY <1>8, <2>2 DEF NextFrame, Goto, TypeOK, process, shared, clients, Pcs
  <2>3. CASE buf[c] # <<>> /\ Done(c) /\ UNCHANGED <<out, dest>>
    BY <1>8, <2>3, DoneTypes DEF NextFrame, TypeOK, process, shared, clients
  <2> QED
    BY <1>8, <2>1, <2>2, <2>3 DEF NextFrame, Answer
<1>9. ASSUME NEW c \in Conns, Terminate(c)
      PROVE  TypeOK'
  BY <1>9 DEF Terminate, TypeOK, shared, thread, sending, clients
<1>10. ASSUME NEW c \in Conns, Register(c)
      PROVE  TypeOK'
  <2>1. pc[c] \in Handling
    BY <1>10 DEF Register, At, Handling
  <2>2. Task(c).method \in Methods /\ fd[c] \in Fds
    BY <2>1, TaskType
  <2>3. /\ registered' \in [Methods -> Fds \cup {0}]
        /\ claimed' \in [Conns -> SUBSET Methods]
    BY <1>10, <2>2 DEF Register, TypeOK
  <2>4. Send(c, "answer", fd[c])
    BY <1>10 DEF Register, Answer
  <2> QED
    BY <1>10, <2>2, <2>3, <2>4, SendTypes DEF Register, TypeOK, process, clients
<1>11. ASSUME NEW c \in Conns, Reset(c)
      PROVE  TypeOK'
  <2>1. fd[c] \in Fds
    BY <1>11 DEF Reset, At, ThreadInv
  <2> QED
    BY <1>11, <2>1, SendTypes
       DEF Reset, Unregistered, Answer, TypeOK, process, clients
<1>12. ASSUME NEW c \in Conns, Lookup(c)
      PROVE  TypeOK'
  <2>1. pc[c] \in Handling
    BY <1>12 DEF Lookup, At, Handling
  <2>2. Task(c).method \in Methods /\ fd[c] \in Fds
    BY <2>1, TaskType
  <2>3. CASE Answer(c) /\ UNCHANGED buf
    BY <1>12, <2>2, <2>3, SendTypes
       DEF Lookup, Answer, TypeOK, process, shared, clients
  <2>4. CASE Done(c) /\ UNCHANGED <<out, dest>>
    BY <1>12, <2>1, <2>4, DoneTypes DEF ThreadInv, Lookup, TypeOK, process, shared, clients
  <2>5. CASE /\ ~NotFound(Task(c).method)
             /\ Send(c, "notification", registered[Task(c).method])
             /\ UNCHANGED buf
    <3>1. registered[Task(c).method] \in Fds
      BY <2>2, <2>5 DEF NotFound, TypeOK
    <3> QED
      BY <1>12, <2>5, <3>1, SendTypes DEF Lookup, TypeOK, process, shared, clients
  <2> QED
    BY <1>12, <2>3, <2>4, <2>5 DEF Lookup
<1>13. ASSUME NEW c \in Conns, Lock(c)
      PROVE  TypeOK'
  BY <1>13 DEF Lock, At, Goto, TypeOK, process, clients, Pcs
<1>14. ASSUME NEW c \in Conns, Write(c)
      PROVE  TypeOK'
  <2>1. pc[c] = "write"
    BY <1>14 DEF Write, At
  <2>2. Out(c) \in Chunk
    BY <2>1, TaskType DEF Handling, Out, Chunk, TypeOK
  <2>3. wire' \in [Conns -> Seq(Chunk)]
    <3>1. To(c) \in Conns
      BY <1>14, <2>1 DEF Write, To, TypeOK
    <3> QED
      BY <1>14, <2>2, <3>1 DEF Write, TypeOK
  <2>4. CASE half[c]
    BY <1>14, <2>1, <2>3, <2>4, AfterTypes DEF Write, TypeOK, process, clients
  <2>5. CASE ~half[c]
    BY <1>14, <2>3, <2>5 DEF Write, TypeOK, process, clients
  <2> QED
    BY <2>4, <2>5
<1>15. ASSUME NEW c \in Conns, WriteFails(c)
      PROVE  TypeOK'
  <2>1. pc[c] = "write"
    BY <1>15 DEF WriteFails, At
  <2> QED
    BY <1>15, <2>1, AfterTypes DEF WriteFails, TypeOK, process, clients
<1>16. ASSUME NEW c \in Conns, Leave(c)
      PROVE  TypeOK'
  BY <1>16 DEF Leave, Unregistered, Goto, TypeOK, process, sending, clients, Pcs
<1>17. ASSUME NEW c \in Conns, Close(c)
      PROVE  TypeOK'
  BY <1>17 DEF Close, Goto, TypeOK, process, sending, clients, Pcs
<1>18. ASSUME NEW c \in Conns, ClientSends(c)
      PROVE  TypeOK'
  <2>1. PICK r \in Frames :
          /\ inbox' = [inbox EXCEPT ![c] = Append(@, r)]
          /\ asked' = [asked EXCEPT ![c] = IF r.kind \in Unanswered THEN @ ELSE @ + 1]
    BY <1>18 DEF ClientSends
  <2>2. Append(inbox[c], r) \in Seq(Frame)
    BY FramesAssumption DEF TypeOK
  <2>4. inbox' \in [Conns -> Seq(Frame)]
    BY <2>1, <2>2 DEF TypeOK
  <2>5. asked' \in [Conns -> Nat]
    BY <2>1 DEF TypeOK
  <2>3. frames' \in 0 .. MaxFrames
    BY <1>18, ConstAssumption DEF ClientSends, TypeOK
  <2> QED
    BY <1>18, <2>3, <2>4, <2>5 DEF ClientSends, TypeOK, process, shared, thread, sending
<1>19. ASSUME NEW c \in Conns, ClientHangsUp(c)
      PROVE  TypeOK'
  BY <1>19 DEF ClientHangsUp, TypeOK, process, shared, thread, sending
<1>20. CASE UNCHANGED vars
  BY <1>20 DEF vars, process, shared, thread, sending, clients, TypeOK
<1> QED
  BY <1>1, <1>2, <1>3, <1>4, <1>5, <1>6, <1>7, <1>8, <1>9, <1>10, <1>11,
     <1>12, <1>13, <1>14, <1>15, <1>16, <1>17, <1>18, <1>19, <1>20, <1>21
     DEF Next, ClientLoop, Client
----------------------------------------------------------------------------
(* Threads and their descriptors.                                          *)

\* A step of a thread from one place to another, which keeps its descriptor and
\* has a frame in hand where it handles one, keeps ThreadInv.
LEMMA Running ==
  ASSUME TypeOK, ThreadInv, NEW c \in Conns, NEW l \in Pcs \ {"none", "done"},
         pc[c] \notin {"none", "done"}, pc' = [pc EXCEPT ![c] = l],
         l \in Handling => buf'[c] # <<>>,
         \A d \in Conns \ {c} : buf'[d] = buf[d],
         UNCHANGED <<owner, fd>>
  PROVE  ThreadInv'
<1>1. pc'[c] = l /\ \A d \in Conns \ {c} : pc'[d] = pc[d] /\ buf'[d] = buf[d]
  BY DEF TypeOK
<1>2. \A d \in Conns : pc'[d] \in Handling => buf'[d] # <<>>
  BY <1>1 DEF ThreadInv
<1>3. \A d \in Conns : pc'[d] \notin {"none", "done"} <=> pc[d] \notin {"none", "done"}
  BY <1>1
<1>4. \A f \in Fds : owner[f] \in Conns \cup {0}
  BY DEF TypeOK
<1> QED BY <1>2, <1>3, <1>4 DEF ThreadInv

LEMMA AfterThreads ==
  ASSUME TypeOK, ThreadInv, NEW c \in Conns, pc[c] = "write",
         NEW ok \in BOOLEAN, AfterSend(c, ok), UNCHANGED <<owner, fd>>
  PROVE  ThreadInv'
<1>1. buf[c] # <<>>
  BY DEF ThreadInv, Handling
<1>2. CASE pc' = [pc EXCEPT ![c] = "lock"] /\ UNCHANGED buf
  BY <1>1, <1>2, Running DEF Pcs, Handling
<1>3. CASE Done(c)
  <2>1. \A d \in Conns \ {c} : buf'[d] = buf[d]
    BY <1>3 DEF Done, TypeOK
  <2> QED
    BY <1>3, <2>1, Running DEF Done, Goto, Pcs, Handling
<1> QED
  BY <1>2, <1>3 DEF AfterSend, Answer, Send, Goto

LEMMA ThreadStep == IInv /\ [Next]_vars => ThreadInv'
<1> SUFFICES ASSUME TypeOK, ThreadInv, RegInv, [Next]_vars
             PROVE  ThreadInv'
  BY DEF IInv
<1>1. CASE MainTest \/ AcceptFails \/ Sigint
  BY <1>1 DEF MainTest, AcceptFails, Sigint, ThreadInv, shared, thread
<1>2. ASSUME NEW c \in Conns, Accept(c)
      PROVE  ThreadInv'
  <2>1. PICK f \in Fds : /\ owner[f] = 0
                         /\ owner' = [owner EXCEPT ![f] = c]
                         /\ fd' = [fd EXCEPT ![c] = f]
    BY <1>2 DEF Accept, Free
  <2>2. pc[c] = "none" /\ pc' = [pc EXCEPT ![c] = "loop"] /\ UNCHANGED buf
    BY <1>2 DEF Accept, Waiting
  <2> QED
    BY <2>1, <2>2 DEF ThreadInv, TypeOK, Handling
<1>3. ASSUME NEW c \in Conns, Loop(c) \/ ReadEof(c) \/ Leave(c) \/ SigintInRead(c)
      PROVE  ThreadInv'
  <2>1. PICK l \in {"loop", "read", "leave", "close"} : pc' = [pc EXCEPT ![c] = l]
    BY <1>3 DEF Loop, ReadEof, Leave, SigintInRead, Goto
  <2>2. pc[c] \notin {"none", "done"} /\ UNCHANGED <<owner, fd, buf>>
    BY <1>3 DEF Loop, ReadEof, Leave, SigintInRead, At, shared
  <2> QED
    BY <2>1, <2>2, Running DEF Pcs, Handling
<1>4. ASSUME NEW c \in Conns, Read(c)
      PROVE  ThreadInv'
  <2>1. \A d \in Conns \ {c} : buf'[d] = buf[d]
    BY <1>4 DEF Read, TypeOK
  <2> QED
    BY <1>4, <2>1, Running DEF Read, At, Goto, Pcs, Handling, shared
<1>5. ASSUME NEW c \in Conns, NextFrame(c)
      PROVE  ThreadInv'
  <2>1. pc[c] = "next" /\ UNCHANGED <<owner, fd>>
    BY <1>5 DEF NextFrame, At, shared
  <2>2. CASE /\ \E l \in {"loop", "lock", "register", "reset", "lookup"} :
                  pc' = [pc EXCEPT ![c] = l] /\ (l # "loop" => buf[c] # <<>>)
             /\ UNCHANGED buf
    BY <2>1, <2>2, Running DEF Pcs, Handling
  <2>3. CASE Done(c)
    <3>1. \A d \in Conns \ {c} : buf'[d] = buf[d]
      BY <2>3 DEF Done, TypeOK
    <3> QED
      BY <2>1, <2>3, <3>1, Running DEF Done, Goto, Pcs, Handling
  <2> QED
    BY <1>5, <2>2, <2>3 DEF NextFrame, Answer, Send, Goto
<1>6. ASSUME NEW c \in Conns, Terminate(c)
      PROVE  ThreadInv'
  BY <1>6 DEF Terminate, ThreadInv, shared, thread
<1>7. ASSUME NEW c \in Conns, Register(c) \/ Reset(c)
      PROVE  ThreadInv'
  <2>1. /\ pc[c] \in {"register", "reset"}
        /\ pc' = [pc EXCEPT ![c] = "lock"]
        /\ UNCHANGED <<owner, fd, buf>>
    BY <1>7 DEF Register, Reset, At, Answer, Send, Goto
  <2>2. buf[c] # <<>>
    BY <2>1 DEF ThreadInv, Handling
  <2> QED
    BY <2>1, <2>2, Running DEF Pcs
<1>8. ASSUME NEW c \in Conns, Lookup(c)
      PROVE  ThreadInv'
  <2>1. pc[c] = "lookup" /\ UNCHANGED <<owner, fd>>
    BY <1>8 DEF Lookup, At, shared
  <2>2. buf[c] # <<>>
    BY <2>1 DEF ThreadInv, Handling
  <2>3. CASE pc' = [pc EXCEPT ![c] = "lock"] /\ UNCHANGED buf
    BY <2>1, <2>2, <2>3, Running DEF Pcs
  <2>4. CASE Done(c)
    <3>1. \A d \in Conns \ {c} : buf'[d] = buf[d]
      BY <2>4 DEF Done, TypeOK
    <3> QED
      BY <2>1, <2>4, <3>1, Running DEF Done, Goto, Pcs, Handling
  <2> QED
    BY <1>8, <2>3, <2>4 DEF Lookup, Answer, Send, Goto
<1>9. ASSUME NEW c \in Conns, Lock(c)
      PROVE  ThreadInv'
  <2>1. /\ pc[c] = "lock"
        /\ pc' = [pc EXCEPT ![c] = "write"]
        /\ UNCHANGED <<owner, fd, buf>>
    BY <1>9 DEF Lock, At, Goto
  <2>2. buf[c] # <<>>
    BY <2>1 DEF ThreadInv, Handling
  <2> QED
    BY <2>1, <2>2, Running DEF Pcs
<1>10. ASSUME NEW c \in Conns, Write(c)
      PROVE  ThreadInv'
  <2>1. pc[c] = "write" /\ UNCHANGED <<owner, fd>>
    BY <1>10 DEF Write, At
  <2>2. CASE AfterSend(c, TRUE)
    BY <2>1, <2>2, AfterThreads
  <2>3. CASE UNCHANGED <<pc, buf>>
    BY <2>1, <2>3 DEF ThreadInv
  <2> QED
    BY <1>10, <2>2, <2>3 DEF Write
<1>11. ASSUME NEW c \in Conns, WriteFails(c)
      PROVE  ThreadInv'
  BY <1>11, AfterThreads DEF WriteFails, At
<1>12. ASSUME NEW c \in Conns, Close(c)
      PROVE  ThreadInv'
  <2>1. /\ pc[c] = "close"
        /\ owner' = [owner EXCEPT ![fd[c]] = 0]
        /\ pc' = [pc EXCEPT ![c] = "done"]
        /\ UNCHANGED <<fd, buf>>
    BY <1>12 DEF Close, At, Goto
  <2> QED
    BY <2>1 DEF ThreadInv, TypeOK, Handling
<1>13. ASSUME NEW c \in Conns, Client(c)
      PROVE  ThreadInv'
  BY <1>13 DEF Client, ClientSends, ClientHangsUp, ThreadInv, shared, thread
<1>14. CASE UNCHANGED vars
  BY <1>14 DEF vars, shared, thread, ThreadInv
<1> QED
  BY <1>1, <1>2, <1>3, <1>4, <1>5, <1>6, <1>7, <1>8, <1>9, <1>10, <1>11,
     <1>12, <1>13, <1>14 DEF Next, ClientLoop
----------------------------------------------------------------------------
(* The registry.                                                           *)

\* A step that leaves the registry and the descriptors alone, and takes no
\* thread to "close", keeps what the registry says true.
LEMMA RegistryKept ==
  ASSUME TypeOK, RegInv, UNCHANGED <<registered, owner, claimed>>,
         \A c \in Conns : pc'[c] = "close" => pc[c] = "close"
  PROVE  RegInv'
<1> SUFFICES ASSUME NEW m \in Methods, registered[m] # 0
             PROVE  /\ owner[registered[m]] # 0
                    /\ pc'[owner[registered[m]]] # "close"
                    /\ m \in claimed[owner[registered[m]]]
  BY DEF RegInv
<1>1. owner[registered[m]] \in Conns
  BY DEF RegInv, TypeOK
<1> QED
  BY <1>1 DEF RegInv

\* Once the methods of its descriptor are erased, no method names connection c.
LEMMA ErasedReg ==
  ASSUME TypeOK, ThreadInv, RegInv, NEW c \in Conns,
         registered' = Unregistered(c), UNCHANGED <<owner, claimed>>,
         pc[c] \notin {"none", "done"},
         \A d \in Conns \ {c} : pc'[d] = pc[d]
  PROVE  RegInv'
<1> SUFFICES ASSUME NEW m \in Methods, registered'[m] # 0
             PROVE  /\ owner[registered'[m]] # 0
                    /\ pc'[owner[registered'[m]]] # "close"
                    /\ m \in claimed[owner[registered'[m]]]
  BY DEF RegInv
<1>1. registered'[m] = registered[m] /\ registered[m] # fd[c]
  BY DEF Unregistered
<1>2. owner[registered[m]] \in Conns /\ registered[m] \in Fds
  BY <1>1 DEF RegInv, TypeOK
<1>3. owner[registered[m]] # c
  BY <1>1, <1>2 DEF ThreadInv
<1> QED
  BY <1>1, <1>2, <1>3 DEF RegInv

LEMMA RegStep == IInv /\ [Next]_vars => RegInv'
<1> SUFFICES ASSUME TypeOK, ThreadInv, RegInv, [Next]_vars
             PROVE  RegInv'
  BY DEF IInv
<1>1. CASE MainTest \/ AcceptFails \/ Sigint
  BY <1>1, RegistryKept DEF MainTest, AcceptFails, Sigint, shared, thread
<1>2. ASSUME NEW c \in Conns, Accept(c)
      PROVE  RegInv'
  <2>1. PICK f \in Fds : owner[f] = 0 /\ owner' = [owner EXCEPT ![f] = c]
    BY <1>2 DEF Accept, Free
  <2>2. pc[c] = "none" /\ pc' = [pc EXCEPT ![c] = "loop"]
    BY <1>2 DEF Accept, Waiting
  <2>3. UNCHANGED <<registered, claimed>>
    BY <1>2 DEF Accept
  <2>4. ASSUME NEW m \in Methods, registered[m] # 0
        PROVE  owner'[registered[m]] = owner[registered[m]]
    BY <2>1, <2>4 DEF RegInv, TypeOK
  <2>5. ASSUME NEW m \in Methods, registered[m] # 0
        PROVE  pc'[owner[registered[m]]] # "close"
    BY <2>2, <2>5 DEF RegInv, TypeOK
  <2> QED
    BY <2>3, <2>4, <2>5 DEF RegInv
<1>3. ASSUME NEW c \in Conns,
             \/ Loop(c) \/ ReadEof(c) \/ Read(c) \/ NextFrame(c) \/ Lookup(c)
             \/ Lock(c) \/ SigintInRead(c)
      PROVE  RegInv'
  <2>1. PICK l \in {"loop", "read", "next", "leave", "lock", "write", "register", "reset", "lookup"} :
          pc' = [pc EXCEPT ![c] = l]
    BY <1>3 DEF Loop, ReadEof, Read, NextFrame, Lookup, Lock, SigintInRead, Goto,
                Answer, Send, Done
  <2>2. UNCHANGED <<registered, owner, claimed>>
    BY <1>3 DEF Loop, ReadEof, Read, NextFrame, Lookup, Lock, SigintInRead, shared
  <2>3. \A d \in Conns : pc'[d] = "close" => pc[d] = "close"
    BY <2>1 DEF TypeOK
  <2> QED
    BY <2>2, <2>3, RegistryKept
<1>4. ASSUME NEW c \in Conns, Write(c) \/ WriteFails(c)
      PROVE  RegInv'
  <2>1. CASE UNCHANGED pc
    BY <1>4, <2>1, RegistryKept DEF Write, WriteFails
  <2>2. CASE \E l \in {"lock", "next"} : pc' = [pc EXCEPT ![c] = l]
    <3>1. \A d \in Conns : pc'[d] = "close" => pc[d] = "close"
      BY <2>2 DEF TypeOK
    <3> QED
      BY <1>4, <3>1, RegistryKept DEF Write, WriteFails
  <2> QED
    BY <1>4, <2>1, <2>2 DEF Write, WriteFails, AfterSend, Answer, Send, Done, Goto
<1>5. ASSUME NEW c \in Conns, Terminate(c)
      PROVE  RegInv'
  BY <1>5, RegistryKept DEF Terminate, shared, thread
<1>6. ASSUME NEW c \in Conns, Register(c)
      PROVE  RegInv'
  <2>1. pc[c] = "register" /\ pc' = [pc EXCEPT ![c] = "lock"]
    BY <1>6 DEF Register, At, Answer, Send, Goto
  <2>2. fd[c] \in Fds /\ owner[fd[c]] = c /\ Task(c).method \in Methods
    BY <2>1, TaskType DEF ThreadInv, Handling
  <2>3. /\ registered' = [registered EXCEPT ![Task(c).method] = fd[c]]
        /\ claimed' = [claimed EXCEPT ![c] = @ \cup {Task(c).method}]
        /\ UNCHANGED owner
    BY <1>6 DEF Register
  <2>4. ASSUME NEW m \in Methods, registered'[m] # 0
        PROVE  /\ owner'[registered'[m]] # 0
               /\ pc'[owner'[registered'[m]]] # "close"
               /\ m \in claimed'[owner'[registered'[m]]]
    <3>1. CASE m = Task(c).method
      BY <2>1, <2>2, <2>3, <3>1 DEF TypeOK
    <3>2. CASE m # Task(c).method
      <4>1. registered'[m] = registered[m] /\ owner[registered[m]] \in Conns
        BY <2>3, <2>4, <3>2 DEF RegInv, TypeOK
      <4> QED
        BY <2>1, <2>3, <2>4, <4>1 DEF RegInv, TypeOK
    <3> QED
      BY <3>1, <3>2
  <2> QED
    BY <2>4 DEF RegInv
<1>7. ASSUME NEW c \in Conns, Reset(c) \/ Leave(c)
      PROVE  RegInv'
  <2>1. PICK l \in {"lock", "close"} : pc' = [pc EXCEPT ![c] = l]
    BY <1>7 DEF Reset, Leave, Answer, Send, Goto
  <2>2. /\ registered' = Unregistered(c)
        /\ pc[c] \notin {"none", "done"}
        /\ UNCHANGED <<owner, claimed>>
    BY <1>7 DEF Reset, Leave, At
  <2>3. \A d \in Conns \ {c} : pc'[d] = pc[d]
    BY <2>1 DEF TypeOK
  <2> QED
    BY <2>2, <2>3, ErasedReg
<1>8. ASSUME NEW c \in Conns, Close(c)
      PROVE  RegInv'
  <2>1. /\ pc[c] = "close"
        /\ owner' = [owner EXCEPT ![fd[c]] = 0]
        /\ pc' = [pc EXCEPT ![c] = "done"]
        /\ UNCHANGED <<registered, claimed>>
    BY <1>8 DEF Close, At, Goto
  <2>2. fd[c] \in Fds /\ owner[fd[c]] = c
    BY <2>1 DEF ThreadInv
  <2>3. ASSUME NEW m \in Methods, registered[m] # 0
        PROVE  registered[m] # fd[c] /\ owner[registered[m]] # c
    BY <2>1, <2>2, <2>3 DEF RegInv
  <2>4. ASSUME NEW m \in Methods, registered[m] # 0
        PROVE  /\ owner'[registered[m]] = owner[registered[m]]
               /\ pc'[owner[registered[m]]] = pc[owner[registered[m]]]
    BY <2>1, <2>3, <2>4 DEF TypeOK, RegInv
  <2> QED
    BY <2>1, <2>4 DEF RegInv
<1>9. ASSUME NEW c \in Conns, Client(c)
      PROVE  RegInv'
  BY <1>9, RegistryKept DEF Client, ClientSends, ClientHangsUp, shared, thread
<1>10. CASE UNCHANGED vars
  BY <1>10, RegistryKept DEF vars, shared, thread
<1> QED
  BY <1>1, <1>2, <1>3, <1>4, <1>5, <1>6, <1>7, <1>8, <1>9, <1>10
     DEF Next, ClientLoop
----------------------------------------------------------------------------
LEMMA InitInv == Init => IInv
BY TypeInit DEF IInv, Init, ThreadInv, RegInv, Handling

LEMMA Invariance == Spec => []IInv
<1>1. IInv /\ [Next]_vars => IInv'
  BY TypeStep, ThreadStep, RegStep DEF IInv
<1> QED
  BY <1>1, InitInv, PTL DEF Spec

\* Every variable of the router keeps its type: no thread ever writes to a
\* descriptor it has not looked up.
THEOREM TypeCorrect == Spec => []TypeOK
BY Invariance, PTL DEF IInv

\* The registry never names a closed descriptor, nor one whose number has gone
\* to another connection: reset_methods before close() is enough.
THEOREM RegistrantAlwaysAlive == Spec => []RegistrantAlive
<1>1. IInv => RegistrantAlive
  BY DEF IInv, RegInv, RegistrantAlive
<1> QED
  BY <1>1, Invariance, PTL

\* A method is erased only by the thread of the connection that has it.
THEOREM OnlyOwnUnregistered == Spec => UnregisterOwnOnly
<1> DEFINE OwnOnly ==
      \A m \in Methods :
        registered[m] # 0 /\ registered'[m] = 0 =>
          pc[owner[registered[m]]] \in {"reset", "leave"}
<1>1. IInv /\ [Next]_vars => [OwnOnly]_vars
  <2> SUFFICES ASSUME IInv, Next, NEW m \in Methods,
                      registered[m] # 0, registered'[m] = 0
               PROVE  pc[owner[registered[m]]] \in {"reset", "leave"}
    OBVIOUS
  <2>1. TypeOK /\ ThreadInv /\ RegInv
    BY DEF IInv
  <2>2. ASSUME NEW c \in Conns, Register(c)
        PROVE  FALSE
    <3>1. fd[c] \in Fds
      BY <2>1, <2>2 DEF Register, At, ThreadInv
    <3> QED
      BY <2>1, <2>2, <3>1 DEF Register, TypeOK
  <2>3. ASSUME NEW c \in Conns, Reset(c) \/ Leave(c)
        PROVE  pc[owner[registered[m]]] \in {"reset", "leave"}
    <3>1. pc[c] \in {"reset", "leave"} /\ registered' = Unregistered(c)
      BY <2>3 DEF Reset, Leave, At
    <3>2. registered[m] = fd[c] /\ owner[fd[c]] = c
      BY <2>1, <3>1 DEF Unregistered, ThreadInv
    <3> QED
      BY <3>1, <3>2
  <2>4. \/ UNCHANGED registered
        \/ \E c \in Conns : Register(c) \/ Reset(c) \/ Leave(c)
    BY DEF Next, ClientLoop, Client, MainTest, AcceptFails, Sigint, SigintInRead, Accept,
           Loop, Read, ReadEof, NextFrame, Terminate, Lookup, Lock, Write,
           WriteFails, Close, ClientSends, ClientHangsUp, shared
  <2> QED
    BY <2>2, <2>3, <2>4
<1> QED
  BY <1>1, Invariance, PTL DEF Spec, UnregisterOwnOnly
----------------------------------------------------------------------------
(* SendMutex, and the frames on the sockets.                               *)

LockInv == \A c \in Conns : pc[c] = "write" <=> holder = c

\* The last chunk of a socket begins a frame only while the thread that holds
\* SendMutex is half way through that frame, or if nobody will ever write to
\* the socket again.
BegunInv ==
  \A t \in Conns :
    wire[t] # <<>> /\ wire[t][Len(wire[t])].part = "head" =>
      \/ hung[t]
      \/ pc[t] = "done"
      \/ /\ holder # 0
         /\ half[holder]
         /\ To(holder) = t
         /\ [wire[t][Len(wire[t])] EXCEPT !.part = "tail"] = Out(holder)

SendInv == LockInv /\ BegunInv /\ NoInterleaving

\* What thread c is writing stays as it is, and so does where it writes.
SameWrite(c) ==
  /\ half'[c] = half[c]
  /\ out'[c] = out[c]
  /\ dest'[c] = dest[c]
  /\ buf'[c] = buf[c]

\* A step that neither writes nor touches SendMutex, nor the thread that holds
\* it, and after which what was over is over.
LEMMA Undisturbed ==
  ASSUME TypeOK, ThreadInv, SendInv,
         UNCHANGED <<wire, holder>>,
         \A c \in Conns : pc'[c] = "write" <=> pc[c] = "write",
         \A c \in Conns : hung[c] => hung'[c],
         \A c \in Conns : pc[c] = "done" => pc'[c] = "done",
         \A c \in Conns : pc[c] = "write" => SameWrite(c),
         \A f \in Fds : \/ owner'[f] = owner[f]
                         \/ owner[f] = 0
                         \/ pc'[owner[f]] = "done"
  PROVE  SendInv'
<1>1. LockInv' /\ NoInterleaving'
  BY DEF SendInv, LockInv, NoInterleaving
<1>2. ASSUME NEW t \in Conns, wire[t] # <<>>, wire[t][Len(wire[t])].part = "head"
      PROVE  \/ hung'[t]
             \/ pc'[t] = "done"
             \/ /\ holder' # 0
                /\ half'[holder']
                /\ To(holder)' = t
                /\ [wire[t][Len(wire[t])] EXCEPT !.part = "tail"] = Out(holder)'
  <2>1. CASE hung[t] \/ pc[t] = "done"
    BY <2>1
  <2>2. CASE /\ holder # 0
             /\ half[holder]
             /\ To(holder) = t
             /\ [wire[t][Len(wire[t])] EXCEPT !.part = "tail"] = Out(holder)
    <3>1. holder \in Conns /\ pc[holder] = "write"
      BY <2>2 DEF SendInv, LockInv, TypeOK
    <3>2. SameWrite(holder)
      BY <3>1
    <3>3. dest[holder] \in Fds
      BY <3>1 DEF TypeOK
    <3>4. Out(holder)' = Out(holder) /\ dest'[holder] = dest[holder] /\ half'[holder]
      BY <2>2, <3>2 DEF SameWrite, Out, Task
    <3>5. owner'[dest[holder]] = t \/ pc'[t] = "done"
      BY <2>2, <3>3 DEF To
    <3> QED
      BY <2>2, <3>4, <3>5 DEF To
  <2> QED
    BY <1>2, <2>1, <2>2 DEF SendInv, BegunInv
<1>3. BegunInv'
  BY <1>2 DEF BegunInv
<1> QED
  BY <1>1, <1>3 DEF SendInv

\* The connections whose descriptor a step of thread c to l may give away.
OverWith(c, l) == IF l = "done" THEN {0, c} ELSE {0}

\* A step of a thread that is not writing, and does not come to write.
LEMMA OtherThread ==
  ASSUME TypeOK, ThreadInv, SendInv, NEW c \in Conns,
         pc[c] \notin {"write", "done"},
         NEW l \in Pcs \ {"write"}, pc' = [pc EXCEPT ![c] = l],
         \A d \in Conns \ {c} : SameWrite(d),
         \A f \in Fds : owner'[f] = owner[f] \/ owner[f] \in OverWith(c, l),
         UNCHANGED <<wire, holder, hung>>
  PROVE  SendInv'
<1>1. \A d \in Conns \ {c} : pc'[d] = pc[d]
  BY DEF TypeOK
<1>2. pc'[c] = l
  BY DEF TypeOK
<1>3. \A f \in Fds : \/ owner'[f] = owner[f]
                     \/ owner[f] = 0
                     \/ pc'[owner[f]] = "done"
  BY <1>2 DEF OverWith
<1> QED
  BY <1>1, <1>2, <1>3, Undisturbed

\* The writer lets SendMutex go, and with it the frame it had begun if that was
\* its last chunk or its socket is gone.
LEMMA LetGo ==
  ASSUME TypeOK, ThreadInv, LockInv, NoInterleaving', NEW c \in Conns,
         pc[c] = "write", NEW ok \in BOOLEAN, AfterSend(c, ok),
         UNCHANGED hung,
         \A t \in Conns :
           wire'[t] # <<>> /\ wire'[t][Len(wire'[t])].part = "head" =>
             hung[t] \/ pc[t] = "done"
  PROVE  SendInv'
<1>1. PICK l \in {"lock", "next"} : pc' = [pc EXCEPT ![c] = l]
  BY DEF AfterSend, Answer, Send, Done, Goto
<1>2. holder' = 0 /\ holder = c
  BY DEF AfterSend, Release, LockInv
<1>3. \A d \in Conns : pc'[d] # "write"
  BY <1>1, <1>2 DEF LockInv, TypeOK
<1>4. \A d \in Conns : pc[d] = "done" => pc'[d] = "done"
  BY <1>1 DEF TypeOK
<1>5. LockInv'
  BY <1>2, <1>3 DEF LockInv
<1>6. BegunInv'
  BY <1>4 DEF BegunInv
<1> QED
  BY <1>5, <1>6 DEF SendInv

LEMMA SendStep == IInv /\ SendInv /\ [Next]_vars => SendInv'
<1> SUFFICES ASSUME TypeOK, ThreadInv, SendInv, [Next]_vars
             PROVE  SendInv'
  BY DEF IInv
<1>1. CASE MainTest \/ AcceptFails \/ Sigint \/ UNCHANGED vars
  <2>1. UNCHANGED <<shared, thread, wire, hung>>
    BY <1>1 DEF MainTest, AcceptFails, Sigint, vars, clients
  <2> QED
    BY <2>1, Undisturbed DEF shared, thread, sending, SameWrite
<1>2. ASSUME NEW c \in Conns, Accept(c)
      PROVE  SendInv'
  <2>1. PICK f \in Fds : owner[f] = 0 /\ owner' = [owner EXCEPT ![f] = c]
    BY <1>2 DEF Accept, Free
  <2>2. \A g \in Fds : owner'[g] = owner[g] \/ owner[g] = 0
    BY <2>1 DEF TypeOK
  <2>3. /\ pc[c] = "none" /\ pc' = [pc EXCEPT ![c] = "loop"]
        /\ UNCHANGED <<holder, wire, hung, half, out, dest, buf>>
    BY <1>2 DEF Accept, Waiting, sending, clients
  <2>4. \A d \in Conns \ {c} : SameWrite(d)
    BY <2>3 DEF SameWrite
  <2>5. \A g \in Fds : owner'[g] = owner[g] \/ owner[g] \in OverWith(c, "loop")
    BY <2>2 DEF OverWith
  <2>6. "loop" \in Pcs \ {"write"} /\ pc[c] \notin {"write", "done"}
    BY <2>3 DEF Pcs
  <2> QED
    BY <2>3, <2>4, <2>5, <2>6, OtherThread
<1>3. ASSUME NEW c \in Conns, Loop(c) \/ ReadEof(c) \/ Leave(c) \/ Read(c) \/ SigintInRead(c)
      PROVE  SendInv'
  <2>1. PICK l \in {"loop", "read", "leave", "close", "next"} : pc' = [pc EXCEPT ![c] = l]
    BY <1>3 DEF Loop, ReadEof, Leave, Read, SigintInRead, Goto
  <2>2. /\ pc[c] \in {"loop", "read", "leave"}
        /\ UNCHANGED <<owner, holder, wire, hung, half, out, dest>>
    BY <1>3 DEF Loop, ReadEof, Leave, Read, SigintInRead, At, shared, sending, clients
  <2>3. \A d \in Conns \ {c} : buf'[d] = buf[d]
    BY <1>3 DEF Loop, ReadEof, Leave, Read, SigintInRead, TypeOK
  <2>4. \A d \in Conns \ {c} : SameWrite(d)
    BY <2>2, <2>3 DEF SameWrite
  <2>5. l \in Pcs \ {"write"} /\ pc[c] \notin {"write", "done"}
    BY <2>2 DEF Pcs
  <2>6. \A f \in Fds : owner'[f] = owner[f] \/ owner[f] \in OverWith(c, l)
    BY <2>2
  <2>7. UNCHANGED <<wire, holder, hung>>
    BY <2>2
  <2> QED
    BY <2>1, <2>4, <2>5, <2>6, <2>7, OtherThread
<1>4. ASSUME NEW c \in Conns, NextFrame(c) \/ Register(c) \/ Reset(c) \/ Lookup(c)
      PROVE  SendInv'
  <2>1. PICK l \in {"loop", "lock", "register", "reset", "lookup", "next"} :
          pc' = [pc EXCEPT ![c] = l]
    BY <1>4 DEF NextFrame, Register, Reset, Lookup, Answer, Send, Done, Goto
  <2>2. /\ pc[c] \in {"next", "register", "reset", "lookup"}
        /\ UNCHANGED <<owner, holder, wire, hung, half>>
    BY <1>4 DEF NextFrame, Register, Reset, Lookup, At, shared, clients
  <2>3. \A d \in Conns \ {c} : buf'[d] = buf[d] /\ out'[d] = out[d] /\ dest'[d] = dest[d]
    BY <1>4 DEF NextFrame, Register, Reset, Lookup, Answer, Send, Done, TypeOK
  <2>4. \A d \in Conns \ {c} : SameWrite(d)
    BY <2>2, <2>3 DEF SameWrite
  <2>5. l \in Pcs \ {"write"} /\ pc[c] \notin {"write", "done"}
    BY <2>2 DEF Pcs
  <2>6. \A f \in Fds : owner'[f] = owner[f] \/ owner[f] \in OverWith(c, l)
    BY <2>2
  <2>7. UNCHANGED <<wire, holder, hung>>
    BY <2>2
  <2> QED
    BY <2>1, <2>4, <2>5, <2>6, <2>7, OtherThread
<1>5. ASSUME NEW c \in Conns, Close(c)
      PROVE  SendInv'
  <2>1. /\ pc[c] = "close"
        /\ owner' = [owner EXCEPT ![fd[c]] = 0]
        /\ pc' = [pc EXCEPT ![c] = "done"]
        /\ UNCHANGED <<holder, wire, hung, half, out, dest, buf>>
    BY <1>5 DEF Close, At, Goto, sending, clients
  <2>2. owner[fd[c]] = c
    BY <2>1 DEF ThreadInv
  <2>3. \A f \in Fds : owner'[f] = owner[f] \/ owner[f] = c
    BY <2>1, <2>2 DEF TypeOK
  <2> QED
    BY <2>1, <2>3, OtherThread DEF SameWrite, Pcs, OverWith
<1>6. ASSUME NEW c \in Conns, Terminate(c)
      PROVE  SendInv'
  BY <1>6, Undisturbed DEF Terminate, shared, thread, sending, clients, SameWrite
<1>7. ASSUME NEW c \in Conns, Client(c)
      PROVE  SendInv'
  <2>1. UNCHANGED <<owner, holder, pc, wire, half, out, dest, buf>>
    BY <1>7 DEF Client, ClientSends, ClientHangsUp, shared, thread, sending
  <2>2. \A d \in Conns : hung[d] => hung'[d]
    BY <1>7 DEF Client, ClientSends, ClientHangsUp, TypeOK
  <2> QED
    BY <2>1, <2>2, Undisturbed DEF SameWrite
<1>8. ASSUME NEW c \in Conns, Lock(c)
      PROVE  SendInv'
  <2>1. /\ pc[c] = "lock" /\ pc' = [pc EXCEPT ![c] = "write"]
        /\ holder = 0 /\ holder' = c
        /\ UNCHANGED <<wire, hung>>
    BY <1>8 DEF Lock, At, Goto, SendFree, clients
  <2>2. LockInv'
    BY <2>1 DEF SendInv, LockInv, TypeOK
  <2>3. BegunInv'
    BY <2>1 DEF SendInv, BegunInv, TypeOK
  <2>4. NoInterleaving'
    BY <2>1 DEF SendInv, NoInterleaving
  <2> QED
    BY <2>2, <2>3, <2>4 DEF SendInv
<1>9. ASSUME NEW c \in Conns, WriteFails(c)
      PROVE  SendInv'
  <2>1. pc[c] = "write" /\ AfterSend(c, FALSE) /\ UNCHANGED <<wire, hung>>
    BY <1>9 DEF WriteFails, At, clients
  <2>2. holder = c
    BY <2>1 DEF SendInv, LockInv
  <2>3. To(c) = 0 \/ hung[To(c)]
    BY <1>9 DEF WriteFails
  <2>4. \A t \in Conns :
          wire[t] # <<>> /\ wire[t][Len(wire[t])].part = "head" =>
            hung[t] \/ pc[t] = "done"
    BY <2>2, <2>3 DEF SendInv, BegunInv
  <2>5. NoInterleaving'
    BY <2>1 DEF SendInv, NoInterleaving
  <2> QED
    BY <2>1, <2>4, <2>5, LetGo DEF SendInv
<1>10. ASSUME NEW c \in Conns, Write(c)
      PROVE  SendInv'
  <2> DEFINE t == To(c)
  <2>1. /\ pc[c] = "write" /\ t \in Conns /\ ~hung[t]
        /\ UNCHANGED <<owner, hung>>
    BY <1>10 DEF Write, At, To, TypeOK, clients
  <2>2. holder = c /\ pc[t] # "done"
    BY <2>1 DEF SendInv, LockInv, ThreadInv, To, TypeOK
  <2>3. wire' = [wire EXCEPT ![t] = Append(@, Out(c))]
    BY <1>10 DEF Write
  <2>4. wire[t] \in Seq(Chunk) /\ Out(c) \in Chunk
    BY <2>1, TaskType DEF Handling, Out, Chunk, TypeOK
  <2>5. /\ Len(wire'[t]) = Len(wire[t]) + 1
        /\ wire'[t][Len(wire[t]) + 1] = Out(c)
        /\ \A i \in 1 .. Len(wire[t]) : wire'[t][i] = wire[t][i]
    BY <2>1, <2>3, <2>4 DEF TypeOK
  <2>6. \A d \in Conns \ {t} : wire'[d] = wire[d]
    BY <2>3 DEF TypeOK
  <2>7. ASSUME wire[t] # <<>>, wire[t][Len(wire[t])].part = "head"
        PROVE  half[c] /\ [wire[t][Len(wire[t])] EXCEPT !.part = "tail"] = Out(c)
    BY <2>1, <2>2, <2>7 DEF SendInv, BegunInv
  <2>8. NoInterleaving'
    <3> SUFFICES ASSUME NEW i \in 1 .. Len(wire'[t]) - 1, wire'[t][i].part = "head"
                 PROVE  wire'[t][i + 1] = [wire'[t][i] EXCEPT !.part = "tail"]
      BY <2>6 DEF SendInv, NoInterleaving
    <3>1. CASE i = Len(wire[t])
      BY <2>4, <2>5, <2>7, <3>1
    <3>2. CASE i \in 1 .. Len(wire[t]) - 1
      <4>1. i \in 1 .. Len(wire[t]) /\ i + 1 \in 1 .. Len(wire[t])
        BY <2>4, <3>2
      <4>2. wire[t][i].part = "head"
        BY <2>5, <4>1
      <4>3. wire[t][i + 1] = [wire[t][i] EXCEPT !.part = "tail"]
        BY <2>1, <3>2, <4>2 DEF SendInv, NoInterleaving
      <4> QED
        BY <2>5, <4>1, <4>3
    <3> QED
      BY <2>4, <2>5, <3>1, <3>2
  <2>9. ASSUME NEW d \in Conns \ {t},
               wire[d] # <<>>, wire[d][Len(wire[d])].part = "head"
        PROVE  hung[d] \/ pc[d] = "done"
    BY <2>2, <2>9 DEF SendInv, BegunInv
  <2>10. CASE half[c]
    <3>1. AfterSend(c, TRUE) /\ Out(c).part = "tail"
      BY <1>10, <2>10 DEF Write, Out
    <3>2. ASSUME NEW d \in Conns,
                 wire'[d] # <<>>, wire'[d][Len(wire'[d])].part = "head"
          PROVE  hung[d] \/ pc[d] = "done"
      BY <2>5, <2>6, <2>9, <3>1, <3>2
    <3> QED
      BY <2>1, <2>8, <3>1, <3>2, LetGo DEF SendInv
  <2>11. CASE ~half[c]
    <3>1. /\ half' = [half EXCEPT ![c] = TRUE]
          /\ UNCHANGED <<holder, pc, buf, out, dest>>
      BY <1>10, <2>11 DEF Write
    <3>2. LockInv'
      BY <3>1 DEF SendInv, LockInv
    <3>3. [Out(c) EXCEPT !.part = "tail"] = Out(c)'
      <4>1. half'[c] /\ out'[c] = out[c] /\ buf'[c] = buf[c]
        BY <3>1 DEF TypeOK
      <4> QED
        BY <4>1 DEF Out, Task
    <3>4. BegunInv'
      <4> SUFFICES ASSUME NEW d \in Conns,
                          wire'[d] # <<>>, wire'[d][Len(wire'[d])].part = "head"
                   PROVE  \/ hung'[d]
                          \/ pc'[d] = "done"
                          \/ /\ holder' # 0
                             /\ half'[holder']
                             /\ To(holder)' = d
                             /\ [wire'[d][Len(wire'[d])] EXCEPT !.part = "tail"] = Out(holder)'
        BY DEF BegunInv
      <4>1. CASE d = t
        <5>1. holder' = c /\ half'[c] /\ To(c)' = t
          BY <2>1, <2>2, <3>1 DEF To, TypeOK
        <5>2. wire'[t][Len(wire'[t])] = Out(c)
          BY <2>5
        <5> QED
          BY <2>2, <3>1, <3>3, <4>1, <5>1, <5>2
      <4>2. CASE d # t
        BY <2>1, <2>6, <2>9, <3>1, <4>2
      <4> QED
        BY <4>1, <4>2
    <3> QED
      BY <2>8, <3>2, <3>4 DEF SendInv
  <2> QED
    BY <2>10, <2>11
<1> QED
  BY <1>1, <1>2, <1>3, <1>4, <1>5, <1>6, <1>7, <1>8, <1>9, <1>10
     DEF Next, ClientLoop

\* No frame is written into the middle of another, on any socket, whoever the
\* writers are and however their sockets come and go.
THEOREM FramesNeverInterleaved == Spec => []NoInterleaving
<1>1. Init => SendInv
  BY DEF Init, SendInv, LockInv, BegunInv, NoInterleaving
<1>2. IInv /\ SendInv /\ [Next]_vars => SendInv'
  BY SendStep
<1>3. SendInv => NoInterleaving
  BY DEF SendInv
<1> QED
  BY <1>1, <1>2, <1>3, Invariance, PTL DEF Spec
----------------------------------------------------------------------------
(* Requests and answers.                                                   *)

Chosen(s, S) == {j \in DOMAIN s : s[j] \in S}

LEMMA CountType ==
  ASSUME NEW T, NEW s \in Seq(T), NEW S
  PROVE  /\ IsFiniteSet(Chosen(s, S))
         /\ CountIn(s, S) = Cardinality(Chosen(s, S)) /\ CountIn(s, S) \in Nat
<1>1. DOMAIN s = 1 .. Len(s) /\ 1 \in Int /\ Len(s) \in Int
  OBVIOUS
<1>2. IsFiniteSet(DOMAIN s)
  BY <1>1, FS_Interval
<1> QED BY <1>2, FS_Subset, FS_CardinalityType DEF Chosen, CountIn

LEMMA CountAppend ==
  ASSUME NEW T, NEW s \in Seq(T), NEW e \in T, NEW S
  PROVE  CountIn(Append(s, e), S) = IF e \in S THEN CountIn(s, S) + 1 ELSE CountIn(s, S)
<1>1. /\ DOMAIN Append(s, e) = 1 .. (Len(s) + 1) /\ DOMAIN s = 1 .. Len(s) /\ Len(s) \in Nat
      /\ Append(s, e)[Len(s) + 1] = e
      /\ \A j \in 1 .. Len(s) : Append(s, e)[j] = s[j]
  OBVIOUS
<1>2. Len(s) + 1 \notin 1 .. Len(s) /\ 1 .. (Len(s) + 1) = (1 .. Len(s)) \cup {Len(s) + 1}
  BY <1>1
<1>3. CASE e \in S
  <2>1. Chosen(Append(s, e), S) = Chosen(s, S) \cup {Len(s) + 1}
    BY <1>1, <1>2, <1>3 DEF Chosen
  <2>2. Len(s) + 1 \notin Chosen(s, S)
    BY <1>1, <1>2 DEF Chosen
  <2>3. IsFiniteSet(Chosen(s, S)) /\ CountIn(s, S) = Cardinality(Chosen(s, S))
    BY CountType
  <2>4. CountIn(Append(s, e), S) = Cardinality(Chosen(Append(s, e), S))
    BY DEF CountIn, Chosen
  <2> QED BY <1>3, <2>1, <2>2, <2>3, <2>4, FS_AddElement
<1>4. CASE e \notin S
  <2>1. Chosen(Append(s, e), S) = Chosen(s, S)
    BY <1>1, <1>2, <1>4 DEF Chosen
  <2> QED BY <1>4, <2>1 DEF Chosen, CountIn
<1> QED BY <1>3, <1>4

LEMMA CountTail ==
  ASSUME NEW T, NEW s \in Seq(T), s # <<>>, NEW S
  PROVE  CountIn(s, S) = IF Head(s) \in S THEN CountIn(Tail(s), S) + 1 ELSE CountIn(Tail(s), S)
<1>1. /\ Tail(s) \in Seq(T) /\ Len(s) \in Nat \ {0}
      /\ DOMAIN s = 1 .. Len(s) /\ DOMAIN Tail(s) = 1 .. (Len(s) - 1)
      /\ Head(s) = s[1] /\ \A j \in 1 .. (Len(s) - 1) : Tail(s)[j] = s[j + 1]
  OBVIOUS
<1> DEFINE A == Chosen(Tail(s), S)
           B == Chosen(s, S) \ {1}
           f == [j \in A |-> j + 1]
<1>2. /\ \A j \in A : j \in Nat /\ j + 1 \in B
      /\ \A k \in B : k - 1 \in A /\ k = (k - 1) + 1
  BY <1>1 DEF Chosen
<1>3. f \in Bijection(A, B)
  <2>1. f \in [A -> B]
    BY <1>2
  <2>2. \A j, k \in A : f[j] = f[k] => j = k
    BY <1>2
  <2>3. \A k \in B : \E j \in A : f[j] = k
    BY <1>2
  <2> HIDE DEF f, A, B
  <2> QED BY <2>1, <2>2, <2>3 DEF Bijection, Injection, Surjection, IsInjective
<1>4. /\ IsFiniteSet(A) /\ CountIn(Tail(s), S) = Cardinality(A)
      /\ IsFiniteSet(Chosen(s, S)) /\ CountIn(s, S) = Cardinality(Chosen(s, S))
      /\ CountIn(s, S) \in Nat
  BY <1>1, CountType
<1>5. Cardinality(B) = Cardinality(A)
  <2> HIDE DEF f, A, B
  <2> QED BY <1>3, <1>4, FS_Bijection DEF ExistsBijection
<1>6. Cardinality(B) = IF 1 \in Chosen(s, S) THEN Cardinality(Chosen(s, S)) - 1
                       ELSE Cardinality(Chosen(s, S))
  BY <1>4, FS_RemoveElement
<1>7. 1 \in Chosen(s, S) <=> Head(s) \in S
  BY <1>1 DEF Chosen
<1> HIDE DEF f, A, B
<1> QED BY <1>4, <1>5, <1>6, <1>7

Asks == {k \in Frame : k.kind \notin Unanswered}
Answered == {k \in Chunk : k.what = "answer" /\ k.part = "tail"}

\* Only a request is answered, and its answer goes to the client that sent it.
AddressOf(c) ==
  /\ pc[c] \in {"register", "reset"} => Task(c).kind \notin Unanswered
  /\ pc[c] \in {"lock", "write"} /\ out[c] # "notification" =>
       Task(c).kind \notin Unanswered /\ dest[c] = fd[c]

AddressInv == \A c \in Conns : AddressOf(c)

\* A request is with its client's answers, or still to be handled, or lost: in
\* one place at most.
OwedInv ==
  \A c \in Conns :
    CountIn(wire[c], Answered) + CountIn(buf[c], Asks) + CountIn(inbox[c], Asks) <= asked[c]

\* A step of thread c leaves what the others are answering alone.
LEMMA AddressOther ==
  ASSUME AddressInv, NEW c \in Conns, AddressOf(c)',
         \A d \in Conns \ {c} : /\ pc'[d] = pc[d] /\ out'[d] = out[d]
                               /\ dest'[d] = dest[d] /\ buf'[d] = buf[d]
                               /\ fd'[d] = fd[d]
  PROVE  AddressInv'
BY DEF AddressInv, AddressOf, Task

LEMMA AddressAfter ==
  ASSUME TypeOK, AddressInv, NEW c \in Conns, pc[c] = "write",
         NEW ok \in BOOLEAN, AfterSend(c, ok), UNCHANGED fd
  PROVE  AddressInv'
<1>1. \A d \in Conns \ {c} : /\ pc'[d] = pc[d] /\ out'[d] = out[d]
                             /\ dest'[d] = dest[d] /\ buf'[d] = buf[d] /\ fd'[d] = fd[d]
  BY DEF AfterSend, Answer, Send, Done, Goto, TypeOK
<1>2. CASE Done(c)
  <2>1. pc'[c] = "next"
    BY <1>2 DEF Done, Goto, TypeOK
  <2> QED BY <1>1, <2>1, AddressOther DEF AddressOf
<1>3. CASE /\ \E w \in {"answer", "again"} : Send(c, w, fd[c])
           /\ UNCHANGED buf /\ Task(c).kind \notin Unanswered
  <2>1. pc'[c] = "lock" /\ dest'[c] = fd[c] /\ buf'[c] = buf[c] /\ fd'[c] = fd[c]
    BY <1>3 DEF Send, Goto, TypeOK
  <2> QED BY <1>1, <1>3, <2>1, AddressOther DEF AddressOf, Task
<1> QED BY <1>2, <1>3 DEF AfterSend, Answer, RouterKinds, Unanswered

LEMMA AddressStep == IInv /\ AddressInv /\ [Next]_vars => AddressInv'
<1> SUFFICES ASSUME TypeOK, ThreadInv, AddressInv, [Next]_vars
             PROVE  AddressInv'
  BY DEF IInv
<1>1. CASE MainTest \/ AcceptFails \/ Sigint \/ UNCHANGED vars
           \/ \E c \in Conns : Terminate(c) \/ Client(c)
  <2>1. UNCHANGED <<pc, out, dest, buf, fd>>
    BY <1>1 DEF MainTest, AcceptFails, Sigint, vars, Terminate, Client, ClientSends,
       ClientHangsUp, thread, sending
  <2> QED BY <2>1 DEF AddressInv, AddressOf, Task
<1>2. ASSUME NEW c \in Conns,
             \/ Accept(c) \/ SigintInRead(c) \/ Loop(c) \/ Read(c) \/ ReadEof(c)
             \/ Leave(c) \/ Close(c)
      PROVE  AddressInv'
  <2>1. pc'[c] \in {"loop", "read", "next", "leave", "close", "done"}
    BY <1>2 DEF Accept, SigintInRead, Loop, Read, ReadEof, Leave, Close, Goto, TypeOK
  <2>2. \A d \in Conns \ {c} : /\ pc'[d] = pc[d] /\ out'[d] = out[d]
                               /\ dest'[d] = dest[d] /\ buf'[d] = buf[d] /\ fd'[d] = fd[d]
    BY <1>2 DEF Accept, SigintInRead, Loop, Read, ReadEof, Leave, Close, Goto, TypeOK,
       sending
  <2> QED BY <2>1, <2>2, AddressOther DEF AddressOf
<1>3. ASSUME NEW c \in Conns, NextFrame(c) \/ Register(c) \/ Reset(c) \/ Lookup(c)
      PROVE  AddressInv'
  <2>1. \A d \in Conns \ {c} : /\ pc'[d] = pc[d] /\ out'[d] = out[d]
                               /\ dest'[d] = dest[d] /\ buf'[d] = buf[d] /\ fd'[d] = fd[d]
    BY <1>3 DEF NextFrame, Register, Reset, Lookup, Answer, Send, Done, Goto, TypeOK
  <2>2. CASE Send(c, "answer", fd[c]) /\ UNCHANGED <<buf, fd>> /\ Task(c).kind \notin Unanswered
    <3>1. pc'[c] = "lock" /\ dest'[c] = fd[c] /\ buf'[c] = buf[c] /\ fd'[c] = fd[c]
      BY <2>2 DEF Send, Goto, TypeOK
    <3> QED BY <2>1, <2>2, <3>1, AddressOther DEF AddressOf, Task
  <2>3. CASE pc'[c] \in {"loop", "lookup", "next"}
    BY <2>1, <2>3, AddressOther DEF AddressOf
  <2>4. CASE pc'[c] \in {"register", "reset"} /\ buf'[c] = buf[c] /\ Task(c).kind \notin Unanswered
    BY <2>1, <2>4, AddressOther DEF AddressOf, Task
  <2>5. CASE pc'[c] = "lock" /\ out'[c] = "notification"
    BY <2>1, <2>5, AddressOther DEF AddressOf
  <2>6. CASE NextFrame(c)
    <3>0. UNCHANGED fd
      BY <2>6 DEF NextFrame
    <3>1. CASE Answer(c) /\ UNCHANGED buf /\ Task(c).kind \in {"call", "bad", "misregister"}
      BY <2>2, <3>0, <3>1 DEF Answer, Unanswered
    <3>2. CASE Goto(c, "loop") \/ Goto(c, "lookup")
      BY <2>3, <3>2 DEF Goto, TypeOK
    <3>4. CASE UNCHANGED buf /\ Task(c).kind \in {"register", "reset"} /\ Goto(c, Task(c).kind)
      <4>1. pc'[c] = Task(c).kind /\ buf'[c] = buf[c]
        BY <3>4 DEF Goto, TypeOK
      <4>2. Task(c).kind \notin Unanswered
        BY <3>4 DEF Unanswered
      <4> QED BY <2>4, <3>4, <4>1, <4>2
    <3>3. CASE Done(c)
      BY <2>3, <3>3 DEF Done, Goto, TypeOK
    <3> QED BY <2>6, <3>1, <3>2, <3>3, <3>4 DEF NextFrame
  <2>7. CASE Register(c) \/ Reset(c)
    <3>1. Task(c).kind \notin Unanswered
      BY <2>7 DEF Register, Reset, At, AddressInv, AddressOf
    <3> QED BY <2>2, <2>7, <3>1 DEF Register, Reset, Answer
  <2>8. CASE Lookup(c)
    BY <2>2, <2>3, <2>5, <2>8
       DEF Lookup, Answer, Send, Done, Goto, TypeOK, Unanswered
  <2> QED BY <1>3, <2>6, <2>7, <2>8
<1>4. ASSUME NEW c \in Conns, Lock(c)
      PROVE  AddressInv'
  <2>1. /\ pc[c] = "lock" /\ UNCHANGED <<out, dest, buf, fd>>
        /\ pc' = [pc EXCEPT ![c] = "write"]
    BY <1>4 DEF Lock, At, Goto
  <2> QED BY <2>1 DEF AddressInv, AddressOf, Task, TypeOK
<1>5. ASSUME NEW c \in Conns, Write(c) \/ WriteFails(c)
      PROVE  AddressInv'
  <2>1. pc[c] = "write" /\ UNCHANGED fd
        /\ ((\E ok \in BOOLEAN : AfterSend(c, ok)) \/ UNCHANGED <<pc, out, dest, buf>>)
    BY <1>5 DEF Write, WriteFails, At
  <2>2. CASE UNCHANGED <<pc, out, dest, buf>>
    BY <2>1, <2>2 DEF AddressInv, AddressOf, Task
  <2> QED BY <2>1, <2>2, AddressAfter
<1> QED BY <1>1, <1>2, <1>3, <1>4, <1>5 DEF Next, ClientLoop

\* The types of what is counted.
LEMMA OwedTypes ==
  ASSUME TypeOK, NEW c \in Conns
  PROVE  /\ wire[c] \in Seq(Chunk) /\ buf[c] \in Seq(Frame) /\ inbox[c] \in Seq(Frame)
         /\ asked[c] \in Nat
         /\ CountIn(wire[c], Answered) \in Nat
         /\ CountIn(buf[c], Asks) \in Nat
         /\ CountIn(inbox[c], Asks) \in Nat
<1>1. /\ wire[c] \in Seq(Chunk) /\ buf[c] \in Seq(Frame) /\ inbox[c] \in Seq(Frame)
      /\ asked[c] \in Nat
  BY DEF TypeOK
<1> QED BY <1>1, CountType

\* A thread that is done with a frame, or keeps it, adds nothing.
LEMMA BufKept ==
  ASSUME TypeOK, NEW c \in Conns,
         buf'[c] = buf[c] \/ (buf[c] # <<>> /\ buf'[c] = Tail(buf[c]))
  PROVE  CountIn(buf'[c], Asks) \in Nat /\ CountIn(buf'[c], Asks) <= CountIn(buf[c], Asks)
<1>1. buf[c] \in Seq(Frame) /\ CountIn(buf[c], Asks) \in Nat
  BY OwedTypes
<1>2. CASE buf'[c] = buf[c]
  BY <1>1, <1>2
<1>3. CASE buf[c] # <<>> /\ buf'[c] = Tail(buf[c])
  <2>1. Tail(buf[c]) \in Seq(Frame)
    BY <1>1, <1>3
  <2>2. CountIn(Tail(buf[c]), Asks) \in Nat
    BY <2>1, CountType
  <2> QED BY <1>1, <1>3, <2>2, CountTail
<1> QED BY <1>2, <1>3

LEMMA OwedKept ==
  ASSUME TypeOK, OwedInv, UNCHANGED <<inbox, asked>>,
         \A d \in Conns : CountIn(wire'[d], Answered) = CountIn(wire[d], Answered),
         \A d \in Conns : \/ buf'[d] = buf[d]
                          \/ buf[d] # <<>> /\ buf'[d] = Tail(buf[d])
  PROVE  OwedInv'
<1> SUFFICES ASSUME NEW d \in Conns
             PROVE  CountIn(wire'[d], Answered) + CountIn(buf'[d], Asks)
                      + CountIn(inbox'[d], Asks) <= asked'[d]
  BY DEF OwedInv
<1>1. CountIn(buf'[d], Asks) \in Nat /\ CountIn(buf'[d], Asks) <= CountIn(buf[d], Asks)
  BY BufKept
<1>2. /\ CountIn(wire[d], Answered) \in Nat /\ CountIn(buf[d], Asks) \in Nat
      /\ CountIn(inbox[d], Asks) \in Nat /\ asked[d] \in Nat
  BY OwedTypes
<1>3. CountIn(wire[d], Answered) + CountIn(buf[d], Asks) + CountIn(inbox[d], Asks) <= asked[d]
  BY DEF OwedInv
<1>4. /\ CountIn(wire'[d], Answered) = CountIn(wire[d], Answered)
      /\ inbox'[d] = inbox[d] /\ asked'[d] = asked[d]
  OBVIOUS
<1>5. CountIn(inbox'[d], Asks) = CountIn(inbox[d], Asks)
  BY <1>4
<1> QED BY <1>1, <1>2, <1>3, <1>4, <1>5

\* send_buffer returns: the frame is kept, or done with.
LEMMA BufAfter ==
  ASSUME TypeOK, ThreadInv, NEW c \in Conns, pc[c] = "write",
         NEW ok \in BOOLEAN, AfterSend(c, ok)
  PROVE  \A d \in Conns : \/ buf'[d] = buf[d]
                          \/ buf[d] # <<>> /\ buf'[d] = Tail(buf[d])
<1>1. buf[c] # <<>>
  BY DEF ThreadInv, Handling
<1>2. UNCHANGED buf \/ buf' = [buf EXCEPT ![c] = Tail(@)]
  BY DEF AfterSend, Done
<1> QED BY <1>1, <1>2 DEF TypeOK

\* The last chunk of an answer takes the request it answers with it.
LEMMA OwedWrite ==
  ASSUME TypeOK, ThreadInv, AddressInv, OwedInv, NEW c \in Conns, Write(c)
  PROVE  OwedInv'
<1> DEFINE t == To(c)
<1>1. /\ pc[c] = "write" /\ t \in Conns /\ UNCHANGED <<owner, fd, inbox, asked>>
      /\ wire' = [wire EXCEPT ![t] = Append(@, Out(c))]
  BY DEF Write, At, To, TypeOK, clients
<1>2. Task(c) \in Frame /\ Out(c) \in Chunk /\ buf[c] # <<>>
  BY <1>1, TaskType DEF Handling, Out, Chunk, TypeOK, ThreadInv
<1>3. \A d \in Conns : wire[d] \in Seq(Chunk)
  BY DEF TypeOK
<1>4. \A d \in Conns \ {t} : wire'[d] = wire[d]
  BY <1>1 DEF TypeOK
<1>5. wire'[t] = Append(wire[t], Out(c))
  BY <1>1 DEF TypeOK
<1>6. \A d \in Conns : \/ buf'[d] = buf[d]
                       \/ buf[d] # <<>> /\ buf'[d] = Tail(buf[d])
  <2>1. AfterSend(c, TRUE) \/ UNCHANGED buf
    BY DEF Write
  <2> QED BY <1>1, <2>1, BufAfter
<1>7. CASE Out(c) \notin Answered
  <2>1. CountIn(wire'[t], Answered) = CountIn(wire[t], Answered)
    BY <1>1, <1>2, <1>3, <1>5, <1>7, CountAppend
  <2>2. \A d \in Conns : CountIn(wire'[d], Answered) = CountIn(wire[d], Answered)
    BY <1>4, <2>1
  <2> QED BY <1>1, <1>6, <2>2, OwedKept
<1>8. CASE Out(c) \in Answered
  <2>1. half[c] /\ out[c] # "notification"
    BY <1>8 DEF Answered, Out
  <2>2. t = c /\ Task(c).kind \notin Unanswered
    BY <1>1, <2>1 DEF AddressInv, AddressOf, ThreadInv, To
  <2>3. buf' = [buf EXCEPT ![c] = Tail(@)]
    <3>1. AfterSend(c, TRUE)
      BY <2>1 DEF Write
    <3> QED BY <2>1, <3>1 DEF AfterSend, FellThrough, Done
  <2>4. buf'[c] = Tail(buf[c]) /\ \A d \in Conns \ {c} : buf'[d] = buf[d]
    BY <2>3 DEF TypeOK
  <2>5. Head(buf[c]) \in Asks
    BY <1>2, <2>2 DEF Asks, Task
  <2>6. CountIn(buf[c], Asks) = CountIn(buf'[c], Asks) + 1
    <3>1. buf[c] \in Seq(Frame)
      BY DEF TypeOK
    <3> QED BY <1>2, <2>4, <2>5, <3>1, CountTail
  <2>7. CountIn(wire'[c], Answered) = CountIn(wire[c], Answered) + 1
    <3>1. wire[c] \in Seq(Chunk) /\ wire'[c] = Append(wire[c], Out(c))
      BY <1>3, <1>5, <2>2
    <3> QED BY <1>2, <1>8, <3>1, CountAppend
  <2>8. CountIn(buf'[c], Asks) \in Nat
    BY <1>6, BufKept
  <2> SUFFICES ASSUME NEW d \in Conns
               PROVE  CountIn(wire'[d], Answered) + CountIn(buf'[d], Asks)
                        + CountIn(inbox'[d], Asks) <= asked'[d]
    BY DEF OwedInv
  <2>9. CASE d = c
    <3>1. /\ CountIn(wire[c], Answered) \in Nat /\ CountIn(buf[c], Asks) \in Nat
          /\ CountIn(inbox[c], Asks) \in Nat /\ asked[c] \in Nat
      BY OwedTypes
    <3>2. CountIn(wire[c], Answered) + CountIn(buf[c], Asks) + CountIn(inbox[c], Asks)
            <= asked[c]
      BY DEF OwedInv
    <3>3. inbox'[c] = inbox[c] /\ asked'[c] = asked[c]
      BY <1>1
    <3> QED BY <2>6, <2>7, <2>8, <2>9, <3>1, <3>2, <3>3
  <2>10. CASE d # c
    BY <1>1, <1>4, <2>2, <2>4, <2>10 DEF OwedInv
  <2> QED BY <2>9, <2>10
<1> QED BY <1>7, <1>8

LEMMA OwedStep == IInv /\ AddressInv /\ OwedInv /\ [Next]_vars => OwedInv'
<1> SUFFICES ASSUME TypeOK, ThreadInv, AddressInv, OwedInv, [Next]_vars
             PROVE  OwedInv'
  BY DEF IInv
<1>1. CASE UNCHANGED <<wire, buf, inbox, asked>>
  BY <1>1, OwedKept
<1>2. ASSUME NEW c \in Conns, Read(c)
      PROVE  OwedInv'
  <2>1. /\ buf' = [buf EXCEPT ![c] = inbox[c]] /\ inbox' = [inbox EXCEPT ![c] = <<>>]
        /\ UNCHANGED <<wire, asked>>
    BY <1>2 DEF Read
  <2>2. /\ buf'[c] = inbox[c] /\ inbox'[c] = <<>>
        /\ \A d \in Conns \ {c} : buf'[d] = buf[d] /\ inbox'[d] = inbox[d]
    BY <2>1 DEF TypeOK
  <2>3. CountIn(<<>>, Asks) = 0
    <3>1. {j \in DOMAIN <<>> : <<>>[j] \in Asks} = {}
      OBVIOUS
    <3> QED BY <3>1, FS_EmptySet DEF CountIn
  <2> SUFFICES ASSUME NEW d \in Conns
               PROVE  CountIn(wire'[d], Answered) + CountIn(buf'[d], Asks)
                        + CountIn(inbox'[d], Asks) <= asked'[d]
    BY DEF OwedInv
  <2>4. CASE d = c
    BY <2>1, <2>2, <2>3, <2>4, OwedTypes DEF OwedInv
  <2>5. CASE d # c
    BY <2>1, <2>2, <2>5 DEF OwedInv
  <2> QED BY <2>4, <2>5
<1>3. ASSUME NEW c \in Conns, ClientSends(c)
      PROVE  OwedInv'
  <2>1. PICK r \in Frames :
          /\ inbox' = [inbox EXCEPT ![c] = Append(@, r)]
          /\ asked' = [asked EXCEPT ![c] = IF r.kind \in Unanswered THEN @ ELSE @ + 1]
    BY <1>3 DEF ClientSends
  <2>2. UNCHANGED <<wire, buf>> /\ r \in Frame
    BY <1>3, FramesAssumption DEF ClientSends, thread
  <2>3. /\ inbox'[c] = Append(inbox[c], r)
        /\ asked'[c] = IF r.kind \in Unanswered THEN asked[c] ELSE asked[c] + 1
        /\ \A d \in Conns \ {c} : inbox'[d] = inbox[d] /\ asked'[d] = asked[d]
    BY <2>1 DEF TypeOK
  <2>4. CountIn(inbox'[c], Asks) =
          IF r.kind \in Unanswered THEN CountIn(inbox[c], Asks) ELSE CountIn(inbox[c], Asks) + 1
    <3>1. r \in Asks <=> r.kind \notin Unanswered
      BY <2>2 DEF Asks
    <3>2. inbox[c] \in Seq(Frame)
      BY DEF TypeOK
    <3> QED BY <2>2, <2>3, <3>1, <3>2, CountAppend
  <2> SUFFICES ASSUME NEW d \in Conns
               PROVE  CountIn(wire'[d], Answered) + CountIn(buf'[d], Asks)
                        + CountIn(inbox'[d], Asks) <= asked'[d]
    BY DEF OwedInv
  <2>5. CASE d = c
    <3>1. /\ CountIn(wire[c], Answered) \in Nat /\ CountIn(buf[c], Asks) \in Nat
          /\ CountIn(inbox[c], Asks) \in Nat /\ asked[c] \in Nat
      BY OwedTypes
    <3>2. CountIn(wire[c], Answered) + CountIn(buf[c], Asks) + CountIn(inbox[c], Asks)
            <= asked[c]
      BY DEF OwedInv
    <3>3. /\ CountIn(wire'[c], Answered) = CountIn(wire[c], Answered)
          /\ CountIn(buf'[c], Asks) = CountIn(buf[c], Asks)
      BY <2>2
    <3>4. asked'[c] = IF r.kind \in Unanswered THEN asked[c] ELSE asked[c] + 1
      BY <2>3
    <3>5. CountIn(wire'[c], Answered) + CountIn(buf'[c], Asks) + CountIn(inbox'[c], Asks)
            <= asked'[c]
      BY <2>4, <3>1, <3>2, <3>3, <3>4
    <3> QED BY <2>5, <3>5
  <2>6. CASE d # c
    BY <2>2, <2>3, <2>6 DEF OwedInv
  <2> QED BY <2>5, <2>6
<1>4. ASSUME NEW c \in Conns, Lookup(c) \/ NextFrame(c)
      PROVE  OwedInv'
  <2>1. UNCHANGED <<wire, inbox, asked>>
    BY <1>4 DEF Lookup, NextFrame, clients
  <2>2. \A d \in Conns : \/ buf'[d] = buf[d]
                         \/ buf[d] # <<>> /\ buf'[d] = Tail(buf[d])
    <3>1. UNCHANGED buf \/ (buf[c] # <<>> /\ Done(c))
      BY <1>4 DEF Lookup, NextFrame, At, ThreadInv, Handling
    <3> QED BY <3>1 DEF Done, TypeOK
  <2> QED BY <2>1, <2>2, OwedKept
<1>5. ASSUME NEW c \in Conns, WriteFails(c)
      PROVE  OwedInv'
  <2>1. pc[c] = "write" /\ AfterSend(c, FALSE) /\ UNCHANGED <<wire, inbox, asked>>
    BY <1>5 DEF WriteFails, At, clients
  <2> QED BY <2>1, BufAfter, OwedKept
<1>6. ASSUME NEW c \in Conns, Write(c)
      PROVE  OwedInv'
  BY <1>6, OwedWrite
<1>7. \/ UNCHANGED <<wire, buf, inbox, asked>>
      \/ \E c \in Conns : \/ Read(c) \/ ClientSends(c) \/ Lookup(c) \/ NextFrame(c)
                          \/ WriteFails(c) \/ Write(c)
  BY DEF Next, ClientLoop, Client, MainTest, AcceptFails, Sigint, SigintInRead, Accept,
         Loop, ReadEof, Terminate, Register, Reset, Lock, Leave, Close,
         ClientHangsUp, vars, thread, clients
<1> QED BY <1>1, <1>2, <1>3, <1>4, <1>5, <1>6, <1>7

\* No request is answered twice, whatever fails: the second answer of
\* handle_router_request is sent only where the first was not.
THEOREM RequestsAnsweredOnce == Spec => []AnsweredOnce
<1>1. Init => AddressInv /\ OwedInv
  <2>1. ASSUME NEW S PROVE CountIn(<<>>, S) = 0
    <3>1. {j \in DOMAIN <<>> : <<>>[j] \in S} = {}
      OBVIOUS
    <3> QED BY <3>1, FS_EmptySet DEF CountIn
  <2>2. Init => AddressInv
    BY DEF Init, AddressInv, AddressOf
  <2>3. Init => OwedInv
    BY <2>1 DEF Init, OwedInv
  <2> QED BY <2>2, <2>3
<1>2. IInv /\ AddressInv /\ OwedInv /\ [Next]_vars => AddressInv' /\ OwedInv'
  BY AddressStep, OwedStep
<1>3. IInv /\ OwedInv => AnsweredOnce
  <2> SUFFICES ASSUME TypeOK, OwedInv, NEW c \in Conns
               PROVE  Answers(c) <= asked[c]
    BY DEF IInv, AnsweredOnce
  <2>1. Answers(c) = CountIn(wire[c], Answered)
    BY DEF Answers, Answered
  <2> QED BY <2>1, OwedTypes DEF OwedInv
<1> QED BY <1>1, <1>2, <1>3, Invariance, PTL DEF Spec
============================================================================
