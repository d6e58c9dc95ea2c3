---------------------------- MODULE DummyRouter ----------------------------
(***************************************************************************)
(* qrpc_dummy (src/dummy.cpp): the router used in place of the Arduino     *)
(* Router.  main() accepts connections and starts one detached thread,     *)
(* client_loop, for each.  The threads share the registry of methods,      *)
(* under RegistryMutex, and the descriptors of all sockets, written to     *)
(* under SendMutex.  The registry holds descriptors, not connections, and  *)
(* the kernel gives the number of a closed descriptor to the next socket.  *)
(*                                                                         *)
(* A frame on its way to a client is two chunks, so that a writer can be   *)
(* stopped half way.  Frames on their way to the router are whole: the     *)
(* unpacker of a thread lives as long as its connection.                   *)
(***************************************************************************)
EXTENDS Integers, Sequences, FiniteSets

CONSTANTS
  Methods,         \* the names clients register and notify
  Frames,          \* the frames clients send
  NConns,          \* bound: connections, numbered in the order accepted
  NFds,            \* descriptors accept() can return
  MaxFrames,       \* bound: frames the clients send
  Interrupts       \* bound: whether SIGINT is sent

ASSUME ConstAssumption ==
  /\ NConns \in Nat
  /\ NFds \in Nat \ {0}
  /\ MaxFrames \in Nat
  /\ Interrupts \in BOOLEAN

\* What client_loop tells apart.  "call" is any builtin that leaves no trace,
\* and any other request answered by an error; "misregister" a $/register of
\* no one name; "bad" a request whose conversion throws; "ignored" what is no
\* request or notification by its size, its type or its parameters.
Kinds == {"register", "misregister", "reset", "call", "emit", "bad", "notify", "ignored"}

\* The kinds nothing answers.
Unanswered == {"notify", "ignored"}

\* What handle_router_request answers.
RouterKinds == {"register", "misregister", "reset"}

Frame == [kind : Kinds, method : Methods]

ASSUME FramesAssumption == Frames \subseteq Frame

Conns == 1 .. NConns
Fds == 1 .. NFds

VARIABLES
  main,            \* "test" (while (Running)), "accept", or "exit": no process
  running,         \* Running
  owner,           \* the connection a descriptor names, 0 for none
  registered,      \* RegisteredMethods: a descriptor, or 0
  holder,          \* the thread that holds SendMutex, or 0
  pc,              \* where each client_loop is
  fd,              \* its descriptor
  buf,             \* its unpacker: the frame being handled, and those after it
  out,             \* what it is sending: its answer, a second answer after the
                   \* first failed, or a notification
  dest,            \* the descriptor it is sending to
  half,            \* whether the first chunk has been written
  inbox,           \* frames sent to the router and not read
  wire,            \* every chunk written to the connection (history)
  hung,            \* whether the client has closed its end
  frames,          \* frames sent by all clients (history)
  asked,           \* requests sent by each client (history)
  claimed          \* methods registered by each client (history)

process == <<main, running>>
shared == <<owner, registered, holder>>
sending == <<out, dest, half>>
thread == <<pc, fd, buf, sending>>
clients == <<inbox, hung, frames, asked>>
vars == <<process, shared, thread, wire, clients, claimed>>

Pcs == {"none", "loop", "read", "next", "register", "reset", "lookup", "lock",
        "write", "leave", "close", "done"}

Chunk == [by : Conns, what : {"answer", "notification"}, method : Methods,
          part : {"head", "tail"}]

TypeOK ==
  /\ main \in {"test", "accept", "exit"}
  /\ running \in BOOLEAN
  /\ owner \in [Fds -> Conns \cup {0}]
  /\ registered \in [Methods -> Fds \cup {0}]
  /\ holder \in Conns \cup {0}
  /\ pc \in [Conns -> Pcs]
  /\ fd \in [Conns -> Fds \cup {0}]
  /\ buf \in [Conns -> Seq(Frame)]
  /\ out \in [Conns -> {"answer", "again", "notification"}]
  /\ dest \in [Conns -> Fds \cup {0}]
  /\ \A c \in Conns : pc[c] \in {"lock", "write"} => dest[c] # 0
  /\ half \in [Conns -> BOOLEAN]
  /\ inbox \in [Conns -> Seq(Frame)]
  /\ wire \in [Conns -> Seq(Chunk)]
  /\ hung \in [Conns -> BOOLEAN]
  /\ frames \in 0 .. MaxFrames
  /\ asked \in [Conns -> Nat]
  /\ claimed \in [Conns -> SUBSET Methods]

Init ==
  /\ main = "test"
  /\ running = TRUE
  /\ owner = [f \in Fds |-> 0]
  /\ registered = [m \in Methods |-> 0]
  /\ holder = 0
  /\ pc = [c \in Conns |-> "none"]
  /\ fd = [c \in Conns |-> 0]
  /\ buf = [c \in Conns |-> <<>>]
  /\ out = [c \in Conns |-> "answer"]
  /\ dest = [c \in Conns |-> 0]
  /\ half = [c \in Conns |-> FALSE]
  /\ inbox = [c \in Conns |-> <<>>]
  /\ wire = [c \in Conns |-> <<>>]
  /\ hung = [c \in Conns |-> FALSE]
  /\ frames = 0
  /\ asked = [c \in Conns |-> 0]
  /\ claimed = [c \in Conns |-> {}]
----------------------------------------------------------------------------
(* main().                                                                 *)

\* while (Running).  When main returns the detached threads end with it.
MainTest ==
  /\ main = "test"
  /\ main' = IF running THEN "accept" ELSE "exit"
  /\ UNCHANGED <<running, shared, thread, wire, clients, claimed>>

Free == {f \in Fds : owner[f] = 0}

Waiting(c) == pc[c] = "none" /\ \A d \in 1 .. c - 1 : pc[d] # "none"

\* The kernel returns the lowest descriptor that is free.
Accept(c) ==
  /\ main = "accept"
  /\ Waiting(c)
  /\ \E f \in Free :
       /\ \A g \in Free : f <= g
       /\ owner' = [owner EXCEPT ![f] = c]
       /\ fd' = [fd EXCEPT ![c] = f]
  /\ pc' = [pc EXCEPT ![c] = "loop"]
  /\ main' = "test"
  /\ UNCHANGED <<running, registered, holder, buf, sending, wire, clients,
                 claimed>>

\* accept() fails, out of descriptors, and main returns 1.
AcceptFails ==
  /\ main = "accept"
  /\ Free = {}
  /\ \E c \in Conns : Waiting(c)
  /\ main' = "exit"
  /\ UNCHANGED <<running, shared, thread, wire, clients, claimed>>

\* SIGINT interrupts accept() if main is blocked in it; in the moment before,
\* the flag has been tested and accept() is still entered.
Sigint ==
  /\ Interrupts
  /\ running
  /\ main # "exit"
  /\ running' = FALSE
  /\ main' \in IF main = "accept" THEN {"accept", "test"} ELSE {main}
  /\ UNCHANGED <<shared, thread, wire, clients, claimed>>

\* The thread that runs the handler may also be one blocked in read().
SigintInRead(c) ==
  /\ Interrupts
  /\ running
  /\ main # "exit"
  /\ pc[c] = "read"
  /\ running' = FALSE
  /\ pc' = [pc EXCEPT ![c] = "loop"]
  /\ UNCHANGED <<main, shared, fd, buf, sending, wire, clients, claimed>>
----------------------------------------------------------------------------
(* client_loop.                                                            *)

At(c, label) == main # "exit" /\ pc[c] = label

Goto(c, label) == pc' = [pc EXCEPT ![c] = label]

Loop(c) ==
  /\ At(c, "loop")
  /\ Goto(c, IF running THEN "read" ELSE "leave")
  /\ UNCHANGED <<process, shared, fd, buf, sending, wire, clients, claimed>>

\* read() returns what there is.
Read(c) ==
  /\ At(c, "read")
  /\ inbox[c] # <<>>
  /\ buf' = [buf EXCEPT ![c] = inbox[c]]
  /\ inbox' = [inbox EXCEPT ![c] = <<>>]
  /\ Goto(c, "next")
  /\ UNCHANGED <<process, shared, fd, sending, wire, hung, frames, asked,
                 claimed>>

ReadEof(c) ==
  /\ At(c, "read")
  /\ inbox[c] = <<>>
  /\ hung[c]
  /\ Goto(c, "leave")
  /\ UNCHANGED <<process, shared, fd, buf, sending, wire, clients, claimed>>

\* The frame being handled.
Task(c) == Head(buf[c])

\* The frame is done with, and unp.next() looks for another.
Done(c) ==
  /\ buf' = [buf EXCEPT ![c] = Tail(@)]
  /\ Goto(c, "next")

\* send_buffer is called, and waits for SendMutex.
Send(c, what, to) ==
  /\ out' = [out EXCEPT ![c] = what]
  /\ dest' = [dest EXCEPT ![c] = to]
  /\ Goto(c, "lock")

Answer(c) == Send(c, "answer", fd[c])

\* while (unp.next(oh)): the kind of the frame chooses the handler.
NextFrame(c) ==
  /\ At(c, "next")
  /\ \/ buf[c] = <<>> /\ Goto(c, "loop") /\ UNCHANGED <<buf, out, dest>>
     \/ /\ buf[c] # <<>>
        /\ \/ Task(c).kind = "ignored" /\ Done(c) /\ UNCHANGED <<out, dest>>
           \/ /\ Task(c).kind \in {"call", "bad", "misregister"}
              /\ Answer(c)
              /\ UNCHANGED buf
           \/ /\ Task(c).kind \in {"register", "reset"}
              /\ Goto(c, Task(c).kind)
              /\ UNCHANGED <<buf, out, dest>>
           \/ /\ Task(c).kind \in {"emit", "notify"}
              /\ Goto(c, "lookup")
              /\ UNCHANGED <<buf, out, dest>>
  /\ UNCHANGED <<process, shared, fd, half, wire, clients, claimed>>

\* An as<>() throws out of the thread, and std::terminate ends the process.
\* "add" reads two parameters whether there are two or not: it may also
\* answer, as any call.
Terminate(c) ==
  /\ At(c, "next")
  /\ buf[c] # <<>> /\ Task(c).kind = "bad"
  /\ main' = "exit"
  /\ UNCHANGED <<running, shared, thread, wire, clients, claimed>>

\* $/register: the last to register a method has it.
Register(c) ==
  /\ At(c, "register")
  /\ registered' = [registered EXCEPT ![Task(c).method] = fd[c]]
  /\ claimed' = [claimed EXCEPT ![c] = @ \cup {Task(c).method}]
  /\ Answer(c)
  /\ UNCHANGED <<process, owner, holder, fd, buf, half, wire, clients>>

\* Mutant: every method is erased.
UnregisteredAll(c) == [m \in Methods |-> 0]

\* reset_methods: only the methods of this descriptor are erased.
Unregistered(c) ==
  [m \in Methods |-> IF registered[m] = fd[c] THEN 0 ELSE registered[m]]

\* $/reset.
Reset(c) ==
  /\ At(c, "reset")
  /\ registered' = Unregistered(c)
  /\ Answer(c)
  /\ UNCHANGED <<process, owner, holder, fd, buf, half, wire, clients, claimed>>

\* Mutant: a method nobody registered is not noticed.
NotFoundNever(m) == FALSE

NotFound(m) == registered[m] = 0

\* route_notification: the descriptor is looked up, and RegistryMutex given
\* back, before anything is sent.
Lookup(c) ==
  /\ At(c, "lookup")
  /\ \/ /\ NotFound(Task(c).method)
        /\ Task(c).kind = "emit"
        /\ Answer(c)
        /\ UNCHANGED buf
     \/ /\ NotFound(Task(c).method)
        /\ Task(c).kind = "notify"
        /\ Done(c)
        /\ UNCHANGED <<out, dest>>
     \/ /\ ~NotFound(Task(c).method)
        /\ Send(c, "notification", registered[Task(c).method])
        /\ UNCHANGED buf
  /\ UNCHANGED <<process, shared, fd, half, wire, clients, claimed>>

\* Mutant: frames are sent without SendMutex.
SendFreeAlways == TRUE

SendFree == holder = 0

Lock(c) ==
  /\ At(c, "lock")
  /\ SendFree
  /\ holder' = c
  /\ half' = [half EXCEPT ![c] = FALSE]
  /\ Goto(c, "write")
  /\ UNCHANGED <<process, owner, registered, fd, buf, out, dest, wire, clients,
                 claimed>>

\* Mutant: the mutex is not given back by the error path.
ReleaseIfSent(ok) == holder' = IF ok THEN 0 ELSE holder

\* lock_guard, at the end of send_buffer.
Release(ok) == holder' = 0

\* Mutant: a router request is also handed to the builtin dispatcher.
FellThroughAlways(ok) == TRUE

\* handle_router_request returns what its send_response returned.
FellThrough(ok) == ~ok

\* send_buffer has returned ok.  What emit_notify sent is answered next, and
\* so is a router request whose answer failed, by the builtin dispatcher.
AfterSend(c, ok) ==
  /\ Release(ok)
  /\ CASE out[c] = "notification" /\ Task(c).kind = "emit" ->
            Answer(c) /\ UNCHANGED buf
       [] out[c] = "answer" /\ FellThrough(ok)
          /\ Task(c).kind \in RouterKinds ->
            Send(c, "again", fd[c]) /\ UNCHANGED buf
       [] OTHER -> Done(c) /\ UNCHANGED <<out, dest>>

\* The connection at the other end of what is being sent: the descriptor is
\* resolved by every write(), and may have been closed, or be another's.
To(c) == owner[dest[c]]

Out(c) ==
  [by |-> c, what |-> IF out[c] = "notification" THEN out[c] ELSE "answer",
   method |-> Task(c).method, part |-> IF half[c] THEN "tail" ELSE "head"]

\* write_all.  While the socket is full write() blocks: the step comes later.
Write(c) ==
  /\ At(c, "write")
  /\ To(c) # 0
  /\ ~hung[To(c)]
  /\ wire' = [wire EXCEPT ![To(c)] = Append(@, Out(c))]
  /\ IF half[c]
     THEN AfterSend(c, TRUE) /\ UNCHANGED half
     ELSE /\ half' = [half EXCEPT ![c] = TRUE]
          /\ UNCHANGED <<holder, pc, buf, out, dest>>
  /\ UNCHANGED <<process, owner, registered, fd, clients, claimed>>

\* EBADF, or EPIPE.
WriteFails(c) ==
  /\ At(c, "write")
  /\ IF To(c) = 0 THEN TRUE ELSE hung[To(c)]
  /\ AfterSend(c, FALSE)
  /\ UNCHANGED <<process, owner, registered, fd, half, wire, clients, claimed>>

\* Mutant: the methods of a client that leaves are not erased.
LeaveForgets(c) ==
  /\ At(c, "leave")
  /\ Goto(c, "close")
  /\ UNCHANGED <<process, shared, fd, buf, sending, wire, clients, claimed>>

\* reset_methods comes before close(): the number is free only after.
Leave(c) ==
  /\ At(c, "leave")
  /\ registered' = Unregistered(c)
  /\ Goto(c, "close")
  /\ UNCHANGED <<process, owner, holder, fd, buf, sending, wire, clients,
                 claimed>>

Close(c) ==
  /\ At(c, "close")
  /\ owner' = [owner EXCEPT ![fd[c]] = 0]
  /\ Goto(c, "done")
  /\ UNCHANGED <<process, registered, holder, fd, buf, sending, wire, clients,
                 claimed>>
----------------------------------------------------------------------------
(* The clients.                                                            *)

Connected(c) == main # "exit" /\ pc[c] \notin {"none", "done"} /\ ~hung[c]

ClientSends(c) ==
  /\ Connected(c)
  /\ frames < MaxFrames
  /\ frames' = frames + 1
  /\ \E r \in Frames :
       /\ inbox' = [inbox EXCEPT ![c] = Append(@, r)]
       /\ asked' = [asked EXCEPT ![c] = IF r.kind \in Unanswered THEN @ ELSE @ + 1]
  /\ UNCHANGED <<process, shared, thread, wire, hung, claimed>>

ClientHangsUp(c) ==
  /\ Connected(c)
  /\ hung' = [hung EXCEPT ![c] = TRUE]
  /\ UNCHANGED <<process, shared, thread, wire, inbox, frames, asked, claimed>>
----------------------------------------------------------------------------
ClientLoop(c) ==
  \/ Loop(c) \/ Read(c) \/ ReadEof(c) \/ NextFrame(c) \/ Terminate(c)
  \/ Register(c) \/ Reset(c) \/ Lookup(c) \/ Lock(c) \/ Write(c)
  \/ WriteFails(c) \/ Leave(c) \/ Close(c)

Client(c) == ClientSends(c) \/ ClientHangsUp(c)

Next ==
  \/ MainTest \/ AcceptFails \/ Sigint
  \/ \E c \in Conns :
       Accept(c) \/ SigintInRead(c) \/ ClientLoop(c) \/ Client(c)

Spec == Init /\ [][Next]_vars

\* Every thread runs, and no client stops reading: a blocked write() returns.
Fairness == \A c \in Conns : WF_vars(ClientLoop(c))

FairSpec == Spec /\ Fairness
----------------------------------------------------------------------------
(* Properties.                                                             *)

\* A registered descriptor is open, and names the connection that registered
\* the method: not one that came later and was given the same number.
RegistrantAlive ==
  \A m \in Methods :
    registered[m] # 0 =>
      /\ owner[registered[m]] # 0
      /\ m \in claimed[owner[registered[m]]]

\* A client that leaves, or resets its methods, takes no other client's
\* method with it, not even one it had itself before the other took it over.
UnregisterOwnOnly ==
  [][\A m \in Methods :
       registered[m] # 0 /\ registered'[m] = 0 =>
         pc[owner[registered[m]]] \in {"reset", "leave"}]_vars

\* No frame is written into the middle of another, though every thread may
\* write to every socket: a frame once begun is followed by its own end, or,
\* if its socket went away under the writer, by nothing.  (A second half without
\* its first, written to a descriptor that was given away in between, is in the
\* middle of nothing; NotifiedRegistrant is about that race.)
NoInterleaving ==
  \A c \in Conns : \A i \in 1 .. Len(wire[c]) - 1 :
    wire[c][i].part = "head" => wire[c][i + 1] = [wire[c][i] EXCEPT !.part = "tail"]

\* How many elements of a sequence are in a set.
CountIn(s, S) == Cardinality({j \in DOMAIN s : s[j] \in S})

\* The answers a client was sent whole.
Answers(c) == CountIn(wire[c], {k \in Chunk : k.what = "answer" /\ k.part = "tail"})

Excused(c) == hung[c] \/ ~running \/ main = "exit"

\* No request is answered twice, though a router request whose answer could
\* not be sent is answered a second time: nobody is left to read that one.
AnsweredOnce == \A c \in Conns : Answers(c) <= asked[c]

\* Every request of a client is answered, unless the client hangs up or the
\* router is shut down: no thread waits for ever for SendMutex, whatever became
\* of the socket another thread was writing to.  It needs clients that read.
EveryRequestAnswered ==
  \A c \in Conns : asked[c] > Answers(c) ~> asked[c] = Answers(c) \/ Excused(c)

\* README: emit_notify "emits a local test notification to a registered
\* method".  It may reach a client that registered nothing, given the number
\* of a descriptor that was closed between the lookup and the write.
NotifiedRegistrant ==
  \A c \in Conns : \A i \in DOMAIN wire[c] :
    wire[c][i].what = "notification" => wire[c][i].method \in claimed[c]
============================================================================
