------------------------------ MODULE RemoteCall ------------------------------
(***************************************************************************)
(* Remote procedure calls: Communicator::remoteCall and the framing of     *)
(* messages (src/src/communicator.cpp, communicator-tcp.cpp), and the      *)
(* server that answers them, one client at a time (src/src/                *)
(* mammut-server.cpp).                                                     *)
(*                                                                         *)
(* A client process has one connection, which its threads share under the  *)
(* lock of the communicator.  A message travels as a frame of FrameLen     *)
(* units; a unit is what one read() returns, so that frames are sent and   *)
(* received in several steps.  The first unit holds the length of the      *)
(* message id, and the end of the stream there is a closed connection,     *)
(* anywhere else a truncated message.  What a request asks for is left     *)
(* out: a response carries the call it is the response of, and whether it  *)
(* is a value or an exception (a frame with an empty id).                  *)
(***************************************************************************)
EXTENDS Integers, Sequences, FiniteSets

CONSTANTS
    Clients,           \* client processes
    Threads,           \* their threads
    ClientOf,          \* the process of each thread
    None,
    FrameLen,          \* units of a frame
    MaxCalls           \* bound: calls of a thread

ASSUME RemoteAssumption ==
    /\ ClientOf \in [Threads -> Clients]
    /\ None \notin Threads /\ None \notin Clients
    /\ FrameLen \in Nat \ {0}
    /\ MaxCalls \in Nat

VARIABLES
    clientEnd,  \* the client's end of each connection: "none", "open", "closed"
    serverEnd,  \* the server's end of it
    up,         \* the units travelling from the client to the server
    down,       \* the units travelling from the server to the client
    lock,       \* the thread that holds the lock of the communicator
    phase,      \* of each thread: "idle", "send" or "recv"
    at,         \* the units of the frame that the thread has sent or received
    calls,      \* the calls each thread has started
    outcome,    \* how the last call of each thread ended
    server,     \* "accept", "read", "process", "send", "dead" or "lost"
    serving,    \* the client whose Servant runs
    frame,      \* the message the Servant is receiving, executing or sending
    moved,      \* the units of it that were received or sent
    executed,   \* ghost: how often each call was executed
    cut         \* ghost: clients with a call that a signal has cut short

clientVars == <<clientEnd, lock, phase, at, calls, outcome, cut>>
serverVars == <<server, serving, frame, moved, executed>>
vars == <<clientVars, serverEnd, up, down, serverVars>>

Calls    == Threads \X (1..MaxCalls)

Init ==
    /\ clientEnd = [c \in Clients |-> "none"]
    /\ serverEnd = [c \in Clients |-> "none"]
    /\ up = [c \in Clients |-> <<>>]
    /\ down = [c \in Clients |-> <<>>]
    /\ lock = [c \in Clients |-> None]
    /\ phase = [t \in Threads |-> "idle"]
    /\ at = [t \in Threads |-> 0]
    /\ calls = [t \in Threads |-> 0]
    /\ outcome = [t \in Threads |-> None]
    /\ server = "accept"
    /\ serving = None
    /\ frame = None
    /\ moved = 0
    /\ executed = [k \in Calls |-> 0]
    /\ cut = {}

Current(t) == <<t, calls[t]>>
Request(t) == [what |-> "request", call |-> Current(t)]

-----------------------------------------------------------------------------
(* A client.                                                               *)

\* CommunicatorTcp connects; the kernel accepts for the server (listen()).
Connect(c) ==
    /\ clientEnd[c] = "none" /\ server # "dead"
    /\ clientEnd' = [clientEnd EXCEPT ![c] = "open"]
    /\ UNCHANGED <<serverEnd, up, down, lock, phase, at, calls, outcome, cut, serverVars>>

\* ~CommunicatorTcp, once no thread is in a call; or the process dies, whatever
\* its threads are doing (SIGPIPE when it writes to a closed connection is one
\* way).
Close(c) ==
    /\ clientEnd[c] = "open"
    /\ clientEnd' = [clientEnd EXCEPT ![c] = "closed"]
    /\ down' = [down EXCEPT ![c] = <<>>]
    /\ phase' = [t \in Threads |-> IF ClientOf[t] = c THEN "idle" ELSE phase[t]]
    /\ at' = [t \in Threads |-> IF ClientOf[t] = c THEN 0 ELSE at[t]]
    /\ lock' = [lock EXCEPT ![c] = None]
    /\ UNCHANGED <<serverEnd, up, calls, outcome, cut, serverVars>>

\* Mutant: remoteCall does not take the lock.
CallUnlocked(t) ==
    /\ clientEnd[ClientOf[t]] = "open"
    /\ phase[t] = "idle" /\ calls[t] < MaxCalls
    /\ phase' = [phase EXCEPT ![t] = "send"]
    /\ calls' = [calls EXCEPT ![t] = @ + 1]
    /\ outcome' = [outcome EXCEPT ![t] = None]
    /\ UNCHANGED <<clientEnd, serverEnd, up, down, lock, at, cut, serverVars>>

\* remoteCall takes the lock for the request and its response.
Call(t) ==
    /\ clientEnd[ClientOf[t]] = "open"
    /\ phase[t] = "idle" /\ calls[t] < MaxCalls
    /\ lock[ClientOf[t]] = None
    /\ lock' = [lock EXCEPT ![ClientOf[t]] = t]
    /\ phase' = [phase EXCEPT ![t] = "send"]
    /\ calls' = [calls EXCEPT ![t] = @ + 1]
    /\ outcome' = [outcome EXCEPT ![t] = None]
    /\ UNCHANGED <<clientEnd, serverEnd, up, down, at, cut, serverVars>>

\* remoteCall returns or throws: the ScopedLock ends.
Leave(t) ==
    /\ phase' = [phase EXCEPT ![t] = "idle"]
    /\ at' = [at EXCEPT ![t] = 0]
    /\ lock' = [lock EXCEPT ![ClientOf[t]] = None]

\* One unit of the request is written.  What is written to a connection whose
\* other end is closed is lost.
SendUnit(t) ==
    LET c == ClientOf[t]
        last == at[t] + 1 = FrameLen
    IN  /\ phase[t] = "send"
        /\ up' = IF serverEnd[c] = "closed" THEN up
                 ELSE [up EXCEPT ![c] = Append(@, [message |-> Request(t), index |-> at[t] + 1])]
        /\ at' = [at EXCEPT ![t] = IF last THEN 0 ELSE @ + 1]
        /\ phase' = [phase EXCEPT ![t] = IF last THEN "recv" ELSE "send"]
        /\ UNCHANGED <<clientEnd, serverEnd, down, lock, calls, outcome, cut, serverVars>>

\* "Write failed": the server has closed the connection.
SendFails(t) ==
    /\ phase[t] = "send" /\ serverEnd[ClientOf[t]] = "closed"
    /\ Leave(t)
    /\ UNCHANGED <<clientEnd, serverEnd, up, down, calls, outcome, cut, serverVars>>

\* The units of a response, up to the last, which ends the call.
RecvUnit(t) ==
    LET c == ClientOf[t]
        u == Head(down[c])
    IN  /\ phase[t] = "recv" /\ down[c] # <<>>
        /\ u.index = at[t] + 1
        /\ down' = [down EXCEPT ![c] = Tail(@)]
        /\ IF u.index = FrameLen
           THEN Leave(t) /\ outcome' = [outcome EXCEPT ![t] = u.message]
           ELSE at' = [at EXCEPT ![t] = @ + 1] /\ UNCHANGED <<phase, lock, outcome>>
        /\ UNCHANGED <<clientEnd, serverEnd, up, calls, cut, serverVars>>

\* "Server closed connection" or "Truncated receive".
RecvFails(t) ==
    /\ phase[t] = "recv"
    /\ down[ClientOf[t]] = <<>> /\ serverEnd[ClientOf[t]] = "closed"
    /\ Leave(t)
    /\ UNCHANGED <<clientEnd, serverEnd, up, down, calls, outcome, cut, serverVars>>

\* A signal makes write() stop early, or read() fail with EINTR, which is not
\* retried: "Write failed" or "Read failed".
Interrupted(t) ==
    /\ phase[t] # "idle"
    /\ Leave(t)
    /\ cut' = cut \cup {ClientOf[t]}
    /\ UNCHANGED <<clientEnd, serverEnd, up, down, calls, outcome, serverVars>>

\* The header is read from the middle of a frame: the lengths are garbage and so
\* is all that follows.  The process is not followed any further.
RecvLost(t) ==
    LET c == ClientOf[t]
    IN  /\ phase[t] = "recv" /\ down[c] # <<>>
        /\ Head(down[c]).index # at[t] + 1
        /\ Close(c)

-----------------------------------------------------------------------------
(* The server: the loop of main() and Servant::run.                        *)

\* The Servant of a new connection is created and run.
Accept(c) ==
    /\ server = "accept"
    /\ clientEnd[c] # "none" /\ serverEnd[c] = "none"
    /\ serverEnd' = [serverEnd EXCEPT ![c] = "open"]
    /\ server' = "read"
    /\ serving' = c
    /\ UNCHANGED <<clientVars, up, down, frame, moved, executed>>

\* Mutant: the loop of run() goes on.
EndServantContinue(next) ==
    /\ server' = "read"
    /\ serverEnd' = serverEnd
    /\ serving' = serving
    /\ frame' = None
    /\ moved' = 0

\* run() returns and the Servant is deleted, which closes the connection; or
\* the process dies, which closes them all.
EndServant(next) ==
    /\ server' = next
    /\ serverEnd' = [c \in Clients |->
                       IF c = serving \/ next = "dead" THEN "closed" ELSE serverEnd[c]]
    /\ serving' = None
    /\ frame' = None
    /\ moved' = 0

ServerRead ==
    LET u == Head(up[serving])
    IN  /\ server = "read" /\ up[serving] # <<>>
        /\ u.index = moved + 1 /\ (frame # None => u.message = frame)
        /\ up' = [up EXCEPT ![serving] = Tail(@)]
        /\ frame' = u.message
        /\ IF u.index = FrameLen
           THEN server' = "process" /\ moved' = 0
           ELSE moved' = moved + 1 /\ UNCHANGED server
        /\ UNCHANGED <<clientVars, serverEnd, down, serving, executed>>

\* The rest of a frame never came and the next one follows: the lengths are
\* garbage.  The server is not followed any further.
ServerLost ==
    LET u == Head(up[serving])
    IN  /\ server = "read" /\ up[serving] # <<>>
        /\ u.index # moved + 1 \/ (frame # None /\ u.message # frame)
        /\ server' = "lost"
        /\ UNCHANGED <<clientVars, serverEnd, up, down, serving, frame, moved, executed>>

\* "Connection closed": the stream ends between two messages.
ServerSeesClose ==
    /\ server = "read" /\ moved = 0
    /\ up[serving] = <<>> /\ clientEnd[serving] = "closed"
    /\ EndServant("accept")
    /\ UNCHANGED <<clientVars, up, down, executed>>

\* The stream ends within a message: "Truncated receive", which is sent back as
\* an exception.
ServerTruncated ==
    /\ server = "read" /\ moved # 0
    /\ up[serving] = <<>> /\ clientEnd[serving] = "closed"
    /\ server' = "send"
    /\ frame' = [frame EXCEPT !.what = "exception"]
    /\ moved' = 0
    /\ UNCHANGED <<clientVars, serverEnd, up, down, serving, executed>>

\* The message is dispatched: processMessage() returns true, or returns false
\* or throws, or there is no such module.
ServerProcess(what) ==
    /\ server = "process"
    /\ executed' = [executed EXCEPT ![frame.call] = @ + 1]
    /\ server' = "send"
    /\ frame' = [frame EXCEPT !.what = what]
    /\ UNCHANGED <<clientVars, serverEnd, up, down, serving, moved>>

\* Mutant: the Servant is not deleted, so its connection stays open.
ServerFatalLeaks ==
    /\ server = "process"
    /\ executed' = [executed EXCEPT ![frame.call] = @ + 1]
    /\ server' = "accept" /\ serving' = None /\ frame' = None
    /\ UNCHANGED <<clientVars, serverEnd, up, down, moved>>

\* "FATAL processing error": another type was thrown; there is no response.
ServerFatal ==
    /\ server = "process"
    /\ executed' = [executed EXCEPT ![frame.call] = @ + 1]
    /\ EndServant("accept")
    /\ UNCHANGED <<clientVars, up, down>>

\* Mutant: the loop goes on with the message it has.
ServerSendAgain ==
    LET c == serving
        last == moved + 1 = FrameLen
    IN  /\ server = "send"
        /\ down' = IF clientEnd[c] = "closed" THEN down
                   ELSE [down EXCEPT ![c] = Append(@, [message |-> frame, index |-> moved + 1])]
        /\ moved' = IF last THEN 0 ELSE moved + 1
        /\ server' = IF last THEN "process" ELSE "send"
        /\ UNCHANGED <<clientVars, serverEnd, up, serving, frame, executed>>

ServerSend ==
    LET c == serving
        last == moved + 1 = FrameLen
    IN  /\ server = "send"
        /\ down' = IF clientEnd[c] = "closed" THEN down
                   ELSE [down EXCEPT ![c] = Append(@, [message |-> frame, index |-> moved + 1])]
        /\ moved' = IF last THEN 0 ELSE moved + 1
        /\ frame' = IF last THEN None ELSE frame
        /\ server' = IF last THEN "read" ELSE "send"
        /\ UNCHANGED <<clientVars, serverEnd, up, serving, executed>>

\* read() or write() fails on a connection that the client has closed or reset.
\* The exception cannot be sent either: that fails with an error, or with the
\* SIGPIPE that nobody handles.
ServerIoFails(next) ==
    /\ server \in {"read", "send"} /\ clientEnd[serving] = "closed"
    /\ EndServant(next)
    /\ UNCHANGED <<clientVars, up, down, executed>>

ServerStep ==
    \/ ServerRead \/ ServerLost \/ ServerSeesClose \/ ServerTruncated
    \/ \E what \in {"value", "exception"} : ServerProcess(what)
    \/ ServerFatal
    \/ ServerSend
    \/ \E next \in {"accept", "dead"} : ServerIoFails(next)

ThreadStep(t) ==
    SendUnit(t) \/ SendFails(t) \/ RecvUnit(t) \/ RecvFails(t) \/ RecvLost(t)

Next ==
    \/ \E c \in Clients : Connect(c) \/ Close(c) \/ Accept(c)
    \/ \E t \in Threads : Call(t) \/ ThreadStep(t) \/ Interrupted(t)
    \/ ServerStep

Spec == Init /\ [][Next]_vars

\* The server is scheduled, and so is a thread that is in a call.  That clients
\* call, close, are interrupted or are accepted one before the other is not owed.
Fairness == WF_vars(ServerStep) /\ \A t \in Threads : WF_vars(ThreadStep(t))

FairSpec == Spec /\ Fairness

-----------------------------------------------------------------------------
(* Properties.                                                             *)

MessagesOn(c) == {up[c][i].message : i \in DOMAIN up[c]} \cup {down[c][i].message : i \in DOMAIN down[c]}

\* communicator.hpp:22: the lock is there "to associate a response to the
\* correct request", and "at each time, there will be at most one message
\* traveling on the channel": a call that ends with a response has its own, one
\* message at most is on a connection and the server does not lose its place in
\* the stream, as long as no call on that connection was cut short by a signal;
\* clients that fail, close or die do no harm.
OwnResponse ==
    /\ \A t \in Threads :
         outcome[t] # None /\ ClientOf[t] \notin cut => outcome[t].call = Current(t)
    /\ \A c \in Clients \ cut : Cardinality(MessagesOn(c)) <= 1
    /\ server = "lost" => serving \in cut

\* A call is executed at most once, however it ends on the client and whatever
\* signals do to it; and if it ends with a value it was executed.
ExecutedOnce ==
    /\ \A k \in Calls : executed[k] <= 1
    /\ \A t \in Threads :
         outcome[t] # None /\ outcome[t].what = "value" => executed[outcome[t].call] = 1

\* A call ends when its client is being served or was, whatever the server does
\* with it: the client sees a response or a closed connection.
CallEnds ==
    \A t \in Threads :
        phase[t] # "idle" /\ serverEnd[ClientOf[t]] # "none" ~>
            phase[t] = "idle" \/ server = "lost"

\* A client that goes away frees the server for the next one, unless its death
\* kills the server.
ServerIsFreed ==
    \A c \in Clients :
        serving = c /\ clientEnd[c] = "closed" ~> serving # c \/ server = "lost"
=============================================================================
