---------------------------- MODULE RemoteProofs ----------------------------
(***************************************************************************)
(* Proofs about the remote use of Mammut.                                  *)
(*                                                                         *)
(* RemoteCall, for every number of clients, threads, calls and units of a  *)
(* frame: a response belongs to its request, and a call is executed at     *)
(* most once.                                                              *)
(*                                                                         *)
(* RemoteModules, whose steps are those calls, for every machine and every *)
(* number of objects: how a call may fail, which frequencies can be set,   *)
(* what a rollback of the power caps leaves, and what a reading counts of  *)
(* what its object has reset: idle times, and the energy of each kind of   *)
(* counter.                                                                *)
(***************************************************************************)
EXTENDS RemoteCall, RemoteModules, SequenceLemmas

-----------------------------------------------------------------------------
(* The calls: the invariant of threads, connections and the servant.       *)

Messages == [what : {"request", "value", "exception"}, call : Calls]
Units    == [message : Messages, index : 1..FrameLen]
Ends     == {"none", "open", "closed"}

TypeOK ==
    /\ clientEnd \in [Clients -> Ends] /\ serverEnd \in [Clients -> Ends]
    /\ up \in [Clients -> Seq(Units)] /\ down \in [Clients -> Seq(Units)]
    /\ lock \in [Clients -> Threads \cup {None}]
    /\ phase \in [Threads -> {"idle", "send", "recv"}]
    /\ at \in [Threads -> 0..(FrameLen - 1)]
    /\ calls \in [Threads -> 0..MaxCalls]
    /\ outcome \in [Threads -> Messages \cup {None}]
    /\ server \in {"accept", "read", "process", "send", "dead", "lost"}
    /\ serving \in Clients \cup {None}
    /\ frame \in Messages \cup {None}
    /\ moved \in 0..(FrameLen - 1)
    /\ executed \in [Calls -> Nat]
    /\ cut \subseteq Clients

\* The lock is held by the thread that is in a call, on an open connection.
LockInv ==
    /\ \A t \in Threads : phase[t] # "idle" <=> lock[ClientOf[t]] = t
    /\ \A t \in Threads : IF phase[t] = "idle" THEN at[t] = 0 ELSE calls[t] # 0
    /\ \A c \in Clients : lock[c] # None => ClientOf[lock[c]] = c /\ clientEnd[c] = "open"

\* The Servant has the one open connection of the server, and a message in the
\* middle of a frame or of its execution.
ServingInv ==
    /\ \A c \in Clients : serverEnd[c] = "open" <=> serving = c
    /\ server \in {"accept", "dead"} <=> serving = None
    /\ server \in {"accept", "dead"} \/ (server = "read" /\ moved = 0) => frame = None
    /\ server \in {"process", "send"} \/ moved # 0 => frame \in Messages
    /\ server \in {"accept", "dead", "process"} => moved = 0

\* The call of a thread whose last unit was not sent yet.
Unsent(t, n) == calls[t] < n \/ (calls[t] = n /\ phase[t] = "send")

LastUnit(u, t, n) == u.index = FrameLen /\ u.message.call = <<t, n>>

InTransit(t, n) == \E i \in 1..Len(up[ClientOf[t]]) : LastUnit(up[ClientOf[t]][i], t, n)

Processing(t, n) == server = "process" /\ frame.call = <<t, n>>

\* The last unit of a request is at one place at a time: still to be sent, in
\* the stream, with the Servant that is about to execute it, or executed.
CallOfInv(t, n) ==
    /\ Unsent(t, n) => ~InTransit(t, n) /\ ~Processing(t, n) /\ executed[<<t, n>>] = 0
    /\ InTransit(t, n) => ~Processing(t, n) /\ executed[<<t, n>>] = 0
    /\ Processing(t, n) => executed[<<t, n>>] = 0
    /\ executed[<<t, n>>] <= 1
    /\ \A i, j \in 1..Len(up[ClientOf[t]]) :
         LastUnit(up[ClientOf[t]][i], t, n) /\ LastUnit(up[ClientOf[t]][j], t, n) => i = j

\* The units on a stream are those of the threads of its client.
OriginInv ==
    \A c \in Clients : \A i \in 1..Len(up[c]) : ClientOf[up[c][i].message.call[1]] = c

\* A value was computed by an execution.
HasRun(m) == m.what = "value" => executed[m.call] = 1

ValueInv ==
    /\ server = "send" => HasRun(frame)
    /\ \A c \in Clients : \A i \in 1..Len(down[c]) : HasRun(down[c][i].message)
    /\ \A t \in Threads : outcome[t] # None => HasRun(outcome[t])

ExecInv ==
    /\ \A t \in Threads, n \in 1..MaxCalls : CallOfInv(t, n)
    /\ OriginInv
    /\ ValueInv

-----------------------------------------------------------------------------
\* The units of s are those that follow the n-th unit of a frame.
Numbered(s, n) == \A j \in 1..Len(s) : s[j].index = n + j

\* The units of s are units of m, or of some message.
From(s, m) == \A j \in 1..Len(s) : s[j].message = m
Same(s)    == \A i, j \in 1..Len(s) : s[i].message = s[j].message

\* The units of s belong to messages about the call k.
About(s, k) == \A j \in 1..Len(s) : s[j].message.call = k

\* The units of the request of c that the Servant has received.
Got(c) == IF serving = c /\ server = "read" THEN moved ELSE 0

\* The first n units of m have left the client and are on the way to the
\* Servant, or with it; no others are.
Uploading(c, m, n) ==
    /\ down[c] = <<>>
    /\ Numbered(up[c], Got(c)) /\ From(up[c], m) /\ Got(c) + Len(up[c]) = n
    /\ serving = c => server = "read" /\ (moved # 0 => frame = m)

\* The request of t is being executed.
Executing(c, t) ==
    /\ serving = c /\ server = "process" /\ frame = Request(t)
    /\ up[c] = <<>> /\ down[c] = <<>> /\ at[t] = 0

\* The response of t is being sent ...
Answering(c, t) ==
    /\ serving = c /\ server = "send" /\ frame.call = Current(t)
    /\ up[c] = <<>>
    /\ Numbered(down[c], at[t]) /\ From(down[c], frame) /\ at[t] + Len(down[c]) = moved

\* ... or was sent.
Answered(c, t) ==
    /\ serving = c /\ server = "read" /\ moved = 0
    /\ up[c] = <<>>
    /\ Numbered(down[c], at[t]) /\ Same(down[c]) /\ About(down[c], Current(t))
    /\ at[t] + Len(down[c]) = FrameLen

\* What is on the streams of a connection while no thread is in a call.
IdleInv(c) ==
    /\ up[c] = <<>> /\ down[c] = <<>>
    /\ serving = c => server = "read" /\ moved = 0

\* What is on the streams of a connection while t is in a call.
InCallInv(c, t) ==
    /\ phase[t] = "send" => Uploading(c, Request(t), at[t])
    /\ phase[t] = "recv" =>
         \/ at[t] = 0 /\ Uploading(c, Request(t), FrameLen)
         \/ Executing(c, t) \/ Answering(c, t) \/ Answered(c, t)

OpenInv(c) == IF lock[c] = None THEN IdleInv(c) ELSE InCallInv(c, lock[c])

\* What is left on the streams when the client has closed its end: the units of
\* the request it was sending, where the Servant expects them.
AbandonedInv(c) ==
    /\ down[c] = <<>>
    /\ serving = c /\ server \in {"process", "send"} => up[c] = <<>>
    /\ Numbered(up[c], Got(c)) /\ Same(up[c]) /\ (Got(c) # 0 => From(up[c], frame))

\* What is left when the server has closed its end.
SeveredInv(c) == down[c] = <<>> /\ Same(up[c])

StreamInv(c) ==
    /\ clientEnd[c] = "none" => up[c] = <<>> /\ down[c] = <<>> /\ serverEnd[c] # "open"
    /\ clientEnd[c] = "open" /\ serverEnd[c] # "closed" => OpenInv(c)
    /\ clientEnd[c] = "closed" /\ serverEnd[c] # "closed" => AbandonedInv(c)
    /\ serverEnd[c] = "closed" => SeveredInv(c)

OwnInv ==
    /\ \A c \in Clients \ cut : StreamInv(c)
    /\ server = "lost" => serving \in cut
    /\ \A t \in Threads : outcome[t] # None /\ ClientOf[t] \notin cut => outcome[t].call = Current(t)

\* The inductive invariant.
RemoteInv == TypeOK /\ LockInv /\ ServingInv /\ ExecInv /\ OwnInv

-----------------------------------------------------------------------------
\* A frame has its first unit, and a unit that follows one before the last.
LEMMA UnitNumbers ==
  /\ 0 \in 0..(FrameLen - 1)
  /\ \A n \in 0..(FrameLen - 1) : n + 1 \in 1..FrameLen
  /\ \A n \in 0..(FrameLen - 1) : n + 1 # FrameLen => n + 1 \in 0..(FrameLen - 1)
  BY RemoteAssumption

\* The head of a stream is a unit.
LEMMA HeadIsUnit ==
  ASSUME NEW s \in Seq(Units), s # <<>>
  PROVE  /\ Head(s) \in Units /\ Head(s).message \in Messages /\ Head(s).index \in 1..FrameLen
         /\ Tail(s) \in Seq(Units)
<1>1. Head(s) \in Units /\ Tail(s) \in Seq(Units)
  OBVIOUS
<1> QED
  BY <1>1 DEF Units

\* A thread in a call sends a well-formed request.
LEMMA RequestType ==
  ASSUME TypeOK, LockInv, NEW t \in Threads, phase[t] # "idle"
  PROVE  Current(t) \in Calls /\ Request(t) \in Messages
<1>1. calls[t] \in 1..MaxCalls
  BY RemoteAssumption DEF TypeOK, LockInv
<1>2. Current(t) \in Calls
  BY <1>1 DEF Current, Calls
<1> QED
  BY <1>2 DEF Request, Messages

\* Initially every variable has its type.
LEMMA TypeInit == Init => TypeOK
<1> SUFFICES ASSUME Init PROVE TypeOK
  OBVIOUS
<1>1. at \in [Threads -> 0..(FrameLen - 1)] /\ moved \in 0..(FrameLen - 1)
  BY UnitNumbers DEF Init
<1>2. calls \in [Threads -> 0..MaxCalls]
  BY RemoteAssumption DEF Init
<1>3. executed \in [Calls -> Nat]
  BY DEF Init
<1>4. up \in [Clients -> Seq(Units)] /\ down \in [Clients -> Seq(Units)]
  BY DEF Init
<1> QED
  BY <1>1, <1>2, <1>3, <1>4 DEF Init, TypeOK, Ends

\* What the end of remoteCall does to the types.
LEMMA LeaveType ==
  ASSUME TypeOK, NEW t \in Threads, Leave(t)
  PROVE  /\ lock' \in [Clients -> Threads \cup {None}]
         /\ phase' \in [Threads -> {"idle", "send", "recv"}]
         /\ at' \in [Threads -> 0..(FrameLen - 1)]
  BY UnitNumbers DEF TypeOK, Leave

\* What the end of a Servant does to the types.
LEMMA EndServantType ==
  ASSUME TypeOK, NEW next \in {"accept", "dead"}, EndServant(next)
  PROVE  /\ serverEnd' \in [Clients -> Ends] /\ server' \in {"accept", "dead"}
         /\ serving' = None /\ frame' = None /\ moved' = 0 /\ moved' \in 0..(FrameLen - 1)
  BY UnitNumbers DEF TypeOK, EndServant, Ends

\* Closing a connection keeps the types.
LEMMA CloseType ==
  ASSUME TypeOK, NEW c \in Clients, Close(c)
  PROVE  TypeOK'
<1>1. /\ down' \in [Clients -> Seq(Units)]
      /\ at' \in [Threads -> 0..(FrameLen - 1)]
  BY UnitNumbers DEF TypeOK, Close
<1> QED
  BY <1>1 DEF TypeOK, Close, Ends, serverVars

\* Every step keeps the types.
LEMMA TypeStep ==
  ASSUME TypeOK, LockInv, ServingInv, [Next]_vars
  PROVE  TypeOK'
<1> USE DEF TypeOK, clientVars, serverVars
<1>1. ASSUME NEW c \in Clients, Connect(c) PROVE TypeOK'
  BY <1>1 DEF Connect, Ends
<1>2. ASSUME NEW c \in Clients, Close(c) PROVE TypeOK'
  BY <1>2, CloseType
<1>3. ASSUME NEW c \in Clients, Accept(c) PROVE TypeOK'
  BY <1>3 DEF Accept, Ends
<1>4. ASSUME NEW t \in Threads, Call(t) PROVE TypeOK'
  <2>1. ClientOf[t] \in Clients
    BY RemoteAssumption
  <2>2. calls' \in [Threads -> 0..MaxCalls]
    <3>1. calls \in [Threads -> 0..MaxCalls] /\ calls[t] < MaxCalls /\ calls' = [calls EXCEPT ![t] = calls[t] + 1]
      BY <1>4 DEF Call
    <3>2. calls[t] + 1 \in 0..MaxCalls
      BY <3>1, RemoteAssumption
    <3> HIDE DEF TypeOK
    <3> QED
      BY <3>1, <3>2
  <2> QED
    BY <1>4, <2>1, <2>2 DEF Call
<1>5. ASSUME NEW t \in Threads, SendUnit(t) PROVE TypeOK'
  <2>1. [message |-> Request(t), index |-> at[t] + 1] \in Units
    <3>1. Request(t) \in Messages
      BY <1>5, RequestType DEF SendUnit
    <3>2. at[t] + 1 \in 1..FrameLen
      BY UnitNumbers
    <3> QED
      BY <3>1, <3>2 DEF Units
  <2>2. up' \in [Clients -> Seq(Units)]
    <3> DEFINE u == [message |-> Request(t), index |-> at[t] + 1]
    <3>1. ClientOf[t] \in Clients /\ up[ClientOf[t]] \in Seq(Units)
      BY RemoteAssumption
    <3>2. up' \in {up, [up EXCEPT ![ClientOf[t]] = Append(up[ClientOf[t]], u)]}
      BY <1>5 DEF SendUnit
    <3>3. u \in Units
      BY <2>1
    <3> HIDE DEF u
    <3>4. Append(up[ClientOf[t]], u) \in Seq(Units)
      BY <3>1, <3>3
    <3> QED
      BY <3>1, <3>2, <3>4
  <2>3. at' \in [Threads -> 0..(FrameLen - 1)]
    BY <1>5, UnitNumbers DEF SendUnit
  <2>4. phase' \in [Threads -> {"idle", "send", "recv"}]
    BY <1>5 DEF SendUnit
  <2> QED
    BY <1>5, <2>2, <2>3, <2>4 DEF SendUnit
<1>6. ASSUME NEW t \in Threads, SendFails(t) \/ RecvFails(t) PROVE TypeOK'
  BY <1>6, LeaveType DEF SendFails, RecvFails
<1>7. ASSUME NEW t \in Threads, RecvUnit(t) PROVE TypeOK'
  <2> DEFINE c == ClientOf[t]
  <2>1. c \in Clients /\ down[c] \in Seq(Units) /\ down[c] # <<>>
    BY <1>7, RemoteAssumption DEF RecvUnit
  <2>2. Head(down[c]).message \in Messages /\ Tail(down[c]) \in Seq(Units)
    BY <2>1, HeadIsUnit
  <2>3. down' \in [Clients -> Seq(Units)]
    BY <1>7, <2>1, <2>2 DEF RecvUnit
  <2>4. CASE Head(down[c]).index = FrameLen
    <3>1. Leave(t) /\ outcome' = [outcome EXCEPT ![t] = Head(down[c]).message]
      BY <1>7, <2>4 DEF RecvUnit
    <3>2. outcome' \in [Threads -> Messages \cup {None}]
      BY <3>1, <2>2
    <3> QED
      BY <1>7, <2>3, <3>1, <3>2, LeaveType DEF RecvUnit
  <2>5. CASE Head(down[c]).index # FrameLen
    <3>1. at' = [at EXCEPT ![t] = at[t] + 1] /\ at[t] + 1 # FrameLen /\ UNCHANGED <<phase, lock, outcome>>
      BY <1>7, <2>5 DEF RecvUnit
    <3>2. at' \in [Threads -> 0..(FrameLen - 1)]
      BY <3>1, UnitNumbers
    <3> QED
      BY <1>7, <2>3, <3>1, <3>2 DEF RecvUnit
  <2> QED
    BY <2>4, <2>5
<1>8. ASSUME NEW t \in Threads, RecvLost(t) PROVE TypeOK'
  BY <1>8, CloseType, RemoteAssumption DEF RecvLost
<1>9. ASSUME NEW t \in Threads, Interrupted(t) PROVE TypeOK'
  <2>1. cut' \subseteq Clients
    BY <1>9, RemoteAssumption DEF Interrupted
  <2> QED
    BY <1>9, <2>1, LeaveType DEF Interrupted
<1>10. CASE ServerRead
  <2>1. serving \in Clients /\ up[serving] \in Seq(Units) /\ up[serving] # <<>>
    BY <1>10 DEF ServerRead, ServingInv
  <2>2. Head(up[serving]).message \in Messages /\ Tail(up[serving]) \in Seq(Units)
    BY <2>1, HeadIsUnit
  <2>3. up' \in [Clients -> Seq(Units)] /\ frame' \in Messages \cup {None}
    BY <1>10, <2>1, <2>2 DEF ServerRead
  <2>4. moved' \in 0..(FrameLen - 1)
    BY <1>10, UnitNumbers DEF ServerRead
  <2> QED
    BY <1>10, <2>3, <2>4 DEF ServerRead
<1>11. CASE ServerLost
  BY <1>11 DEF ServerLost
<1>12. CASE ServerSeesClose \/ \E next \in {"accept", "dead"} : ServerIoFails(next)
  BY <1>12, EndServantType DEF ServerSeesClose, ServerIoFails
<1>13. CASE ServerTruncated
  <2>1. frame \in Messages
    BY <1>13 DEF ServerTruncated, ServingInv
  <2>2. frame' \in Messages
    BY <1>13, <2>1 DEF ServerTruncated, Messages
  <2> QED
    BY <1>13, <2>2, UnitNumbers DEF ServerTruncated
<1>14. ASSUME NEW what \in {"value", "exception"}, ServerProcess(what) PROVE TypeOK'
  <2>1. frame \in Messages
    BY <1>14 DEF ServerProcess, ServingInv
  <2>2. frame' \in Messages
    BY <1>14, <2>1 DEF ServerProcess, Messages
  <2>3. executed' \in [Calls -> Nat]
    BY <1>14, <2>1 DEF ServerProcess, Messages
  <2> QED
    BY <1>14, <2>2, <2>3 DEF ServerProcess
<1>15. CASE ServerFatal
  <2>1. executed' \in [Calls -> Nat]
    BY <1>15 DEF ServerFatal, ServingInv, Messages
  <2> QED
    BY <1>15, <2>1, EndServantType DEF ServerFatal
<1>16. CASE ServerSend
  <2>1. serving \in Clients /\ frame \in Messages
    BY <1>16 DEF ServerSend, ServingInv
  <2>2. [message |-> frame, index |-> moved + 1] \in Units
    BY <2>1, UnitNumbers DEF Units
  <2>3. down' \in [Clients -> Seq(Units)]
    BY <1>16, <2>1, <2>2 DEF ServerSend
  <2>4. moved' \in 0..(FrameLen - 1)
    BY <1>16, UnitNumbers DEF ServerSend
  <2> QED
    BY <1>16, <2>3, <2>4 DEF ServerSend
<1>17. CASE UNCHANGED vars
  BY <1>17 DEF vars
<1> QED
  BY <1>1, <1>2, <1>3, <1>4, <1>5, <1>6, <1>7, <1>8, <1>9, <1>10, <1>11, <1>12, <1>13, <1>14,
     <1>15, <1>16, <1>17 DEF Next, ThreadStep, ServerStep

-----------------------------------------------------------------------------
\* The end of remoteCall gives the lock back.
LEMMA LeaveLock ==
  ASSUME TypeOK, LockInv, NEW t \in Threads, Leave(t), phase[t] # "idle",
         UNCHANGED <<clientEnd, calls>>
  PROVE  LockInv'
<1>1. /\ phase' = [phase EXCEPT ![t] = "idle"] /\ at' = [at EXCEPT ![t] = 0]
      /\ lock' = [lock EXCEPT ![ClientOf[t]] = None]
  BY DEF Leave
<1>2. lock[ClientOf[t]] = t /\ ClientOf \in [Threads -> Clients] /\ None \notin Threads
  BY RemoteAssumption DEF LockInv
<1>3. /\ phase \in [Threads -> {"idle", "send", "recv"}] /\ lock \in [Clients -> Threads \cup {None}]
      /\ at \in [Threads -> 0..(FrameLen - 1)]
  BY DEF TypeOK
<1>4. ASSUME NEW u \in Threads PROVE phase'[u] # "idle" <=> lock'[ClientOf[u]] = u
  <2>1. phase[u] # "idle" <=> lock[ClientOf[u]] = u
    BY DEF LockInv
  <2> QED
    BY <1>1, <1>2, <1>3, <2>1
<1>5. ASSUME NEW u \in Threads PROVE IF phase'[u] = "idle" THEN at'[u] = 0 ELSE calls'[u] # 0
  <2>1. IF phase[u] = "idle" THEN at[u] = 0 ELSE calls[u] # 0
    BY DEF LockInv
  <2> QED
    BY <1>1, <1>3, <2>1
<1>6. ASSUME NEW c \in Clients, lock'[c] # None PROVE ClientOf[lock'[c]] = c /\ clientEnd'[c] = "open"
  <2>1. lock'[c] = lock[c]
    BY <1>1, <1>3, <1>6
  <2> QED
    BY <2>1, <1>6 DEF LockInv
<1> QED
  BY <1>4, <1>5, <1>6 DEF LockInv

\* A client that closes its connection has no thread in a call.
LEMMA CloseLock ==
  ASSUME TypeOK, LockInv, NEW c \in Clients, Close(c)
  PROVE  LockInv'
<1>1. ClientOf \in [Threads -> Clients] /\ None \notin Threads
  BY RemoteAssumption
<1> QED
  BY <1>1 DEF TypeOK, LockInv, Close

\* Every step preserves the discipline of the lock.
LEMMA LockStep ==
  ASSUME TypeOK, LockInv, [Next]_vars
  PROVE  LockInv'
<1> USE DEF clientVars, serverVars
<1>1. ASSUME NEW c \in Clients, Connect(c) PROVE LockInv'
  BY <1>1 DEF Connect, LockInv, TypeOK
<1>2. ASSUME NEW c \in Clients, Close(c) PROVE LockInv'
  BY <1>2, CloseLock
<1>3. ASSUME NEW t \in Threads, Call(t) PROVE LockInv'
  <2>1. ClientOf \in [Threads -> Clients] /\ None \notin Threads /\ MaxCalls \in Nat
    BY RemoteAssumption
  <2>2. /\ phase[t] = "idle" /\ lock[ClientOf[t]] = None /\ clientEnd[ClientOf[t]] = "open"
        /\ phase' = [phase EXCEPT ![t] = "send"] /\ lock' = [lock EXCEPT ![ClientOf[t]] = t]
        /\ UNCHANGED <<clientEnd, at>>
    BY <1>3 DEF Call
  <2>3. calls'[t] # 0 /\ \A u \in Threads \ {t} : calls'[u] = calls[u]
    BY <1>3, <2>1 DEF Call, TypeOK
  <2> QED
    BY <2>1, <2>2, <2>3 DEF LockInv, TypeOK
<1>4. ASSUME NEW t \in Threads, SendUnit(t) PROVE LockInv'
  BY <1>4, RemoteAssumption DEF SendUnit, LockInv, TypeOK
<1>5. ASSUME NEW t \in Threads, SendFails(t) \/ RecvFails(t) \/ Interrupted(t) PROVE LockInv'
  <2>1. Leave(t) /\ phase[t] # "idle" /\ UNCHANGED <<clientEnd, calls>>
    BY <1>5 DEF SendFails, RecvFails, Interrupted
  <2> QED
    BY <2>1, LeaveLock
<1>6. ASSUME NEW t \in Threads, RecvUnit(t) PROVE LockInv'
  <2>1. phase[t] = "recv" /\ UNCHANGED <<clientEnd, calls>>
    BY <1>6 DEF RecvUnit
  <2>2. CASE Leave(t)
    BY <2>1, <2>2, LeaveLock
  <2>3. CASE at' = [at EXCEPT ![t] = at[t] + 1] /\ UNCHANGED <<phase, lock>>
    BY <2>1, <2>3 DEF LockInv, TypeOK
  <2> QED
    BY <1>6, <2>2, <2>3 DEF RecvUnit
<1>7. ASSUME NEW t \in Threads, RecvLost(t) PROVE LockInv'
  BY <1>7, CloseLock, RemoteAssumption DEF RecvLost
<1>8. CASE ServerStep \/ (\E c \in Clients : Accept(c)) \/ UNCHANGED vars
  <2>1. UNCHANGED clientVars
    BY <1>8 DEF ServerStep, Accept, vars, ServerRead, ServerLost, ServerSeesClose, ServerTruncated,
       ServerProcess, ServerFatal, ServerSend, ServerIoFails
  <2> QED
    BY <2>1 DEF LockInv
<1> QED
  BY <1>1, <1>2, <1>3, <1>4, <1>5, <1>6, <1>7, <1>8 DEF Next, ThreadStep

\* The end of a Servant closes its connection.
LEMMA EndServantEnds ==
  ASSUME TypeOK, ServingInv, NEW next \in {"accept", "dead"}, EndServant(next)
  PROVE  ServingInv'
<1>1. /\ server' = next /\ serving' = None /\ frame' = None /\ moved' = 0
      /\ serverEnd' = [c \in Clients |-> IF c = serving \/ next = "dead" THEN "closed" ELSE serverEnd[c]]
  BY DEF EndServant
<1>2. None \notin Clients
  BY RemoteAssumption
<1> QED
  BY <1>1, <1>2 DEF TypeOK, ServingInv

\* Every step preserves what the server knows of its Servant.
LEMMA ServantStep ==
  ASSUME TypeOK, ServingInv, [Next]_vars
  PROVE  ServingInv'
<1> USE DEF clientVars, serverVars
<1>1. ASSUME NEW c \in Clients, Accept(c) PROVE ServingInv'
  BY <1>1, RemoteAssumption DEF Accept, ServingInv, TypeOK
<1>2. CASE ServerRead
  <2>1. serving \in Clients /\ up[serving] \in Seq(Units) /\ up[serving] # <<>>
    BY <1>2 DEF ServerRead, ServingInv, TypeOK
  <2>2. frame' \in Messages
    BY <1>2, <2>1, HeadIsUnit DEF ServerRead
  <2>3. server' \in {"process", "read"} /\ UNCHANGED <<serverEnd, serving>>
    BY <1>2 DEF ServerRead
  <2>4. server' = "process" => moved' = 0
    BY <1>2 DEF ServerRead
  <2>5. server' = "read" => moved' # 0
    BY <1>2 DEF ServerRead, TypeOK
  <2>6. server = "read"
    BY <1>2 DEF ServerRead
  <2> QED
    BY <2>1, <2>2, <2>3, <2>4, <2>5, <2>6 DEF ServingInv
<1>3. CASE ServerLost
  BY <1>3 DEF ServerLost, ServingInv
<1>4. CASE ServerSeesClose \/ ServerFatal \/ \E next \in {"accept", "dead"} : ServerIoFails(next)
  BY <1>4, EndServantEnds DEF ServerSeesClose, ServerFatal, ServerIoFails
<1>5. CASE ServerTruncated \/ \E what \in {"value", "exception"} : ServerProcess(what)
  <2>1. frame \in Messages
    BY <1>5 DEF ServerTruncated, ServerProcess, ServingInv
  <2>2. frame' \in Messages
    BY <1>5, <2>1 DEF ServerTruncated, ServerProcess, Messages
  <2> QED
    BY <1>5, <2>2 DEF ServerTruncated, ServerProcess, ServingInv
<1>6. CASE ServerSend
  <2>1. frame \in Messages
    BY <1>6 DEF ServerSend, ServingInv
  <2> QED
    BY <1>6, <2>1 DEF ServerSend, ServingInv, TypeOK
<1>7. CASE \/ \E c \in Clients : Connect(c) \/ Close(c)
           \/ \E t \in Threads : Call(t) \/ ThreadStep(t) \/ Interrupted(t)
           \/ UNCHANGED vars
  <2>1. UNCHANGED <<serverEnd, server, serving, frame, moved>>
    BY <1>7 DEF Connect, Close, Call, ThreadStep, Interrupted, SendUnit, SendFails, RecvUnit,
       RecvFails, RecvLost, vars
  <2> QED
    BY <2>1 DEF ServingInv
<1> QED
  BY <1>1, <1>2, <1>3, <1>4, <1>5, <1>6, <1>7 DEF Next, ServerStep

-----------------------------------------------------------------------------
\* A call is a thread and a number.
LEMMA CallsArePairs ==
  ASSUME NEW k \in Calls
  PROVE  k[1] \in Threads /\ k[2] \in 1..MaxCalls /\ k = <<k[1], k[2]>>
  BY DEF Calls

\* Steps that do not send, receive or execute leave the calls where they are.
LEMMA CallFrame ==
  ASSUME NEW t \in Threads, NEW n \in 1..MaxCalls, CallOfInv(t, n),
         up'[ClientOf[t]] = up[ClientOf[t]], executed'[<<t, n>>] = executed[<<t, n>>],
         Processing(t, n)' => Processing(t, n), Unsent(t, n)' => Unsent(t, n)
  PROVE  CallOfInv(t, n)'
<1>1. InTransit(t, n)' <=> InTransit(t, n)
  BY DEF InTransit, LastUnit
<1> QED
  BY <1>1 DEF CallOfInv, LastUnit

\* What a call that begins or ends does to the calls that were not sent yet.
LEMMA UnsentFrame ==
  ASSUME TypeOK, NEW t \in Threads, NEW n \in 1..MaxCalls, [Next]_vars
  PROVE  Unsent(t, n)' => Unsent(t, n)
<1> USE DEF clientVars, serverVars
<1>0. calls[t] \in Nat
  BY RemoteAssumption DEF TypeOK
<1>1. ASSUME NEW u \in Threads, Call(u) PROVE Unsent(t, n)' => Unsent(t, n)
  <2>1. calls'[t] \in {calls[t], calls[t] + 1} /\ (calls'[t] = calls[t] => phase'[t] = phase[t])
    BY <1>1, <1>0 DEF Call, TypeOK
  <2> QED
    BY <2>1, <1>0 DEF Unsent
<1>2. ASSUME calls' = calls, phase'[t] = "send" => phase[t] = "send" PROVE Unsent(t, n)' => Unsent(t, n)
  BY <1>2 DEF Unsent
<1>3. ASSUME NEW u \in Threads, ThreadStep(u) \/ Interrupted(u) PROVE Unsent(t, n)' => Unsent(t, n)
  <2>1. calls' = calls
    BY <1>3 DEF ThreadStep, Interrupted, SendUnit, SendFails, RecvUnit, RecvFails, RecvLost, Close
  <2>2. phase'[t] = "send" => phase[t] = "send"
    BY <1>3 DEF TypeOK, ThreadStep, Interrupted, SendUnit, SendFails, RecvUnit, RecvFails, RecvLost,
       Close, Leave
  <2> QED
    BY <2>1, <2>2, <1>2
<1>4. CASE \E c \in Clients : Connect(c) \/ Close(c) \/ Accept(c)
  <2>1. calls' = calls /\ (phase'[t] = "send" => phase[t] = "send")
    BY <1>4 DEF Connect, Close, Accept
  <2> QED
    BY <2>1, <1>2
<1>5. CASE ServerStep \/ UNCHANGED vars
  <2>1. UNCHANGED clientVars
    BY <1>5 DEF ServerStep, vars, ServerRead, ServerLost, ServerSeesClose, ServerTruncated,
       ServerProcess, ServerFatal, ServerSend, ServerIoFails
  <2> QED
    BY <2>1, <1>2
<1> QED
  BY <1>1, <1>3, <1>4, <1>5 DEF Next

\* Sending the last unit of a request takes its call from unsent to in transit.
LEMMA SendCalls ==
  ASSUME TypeOK, LockInv, NEW u \in Threads, SendUnit(u),
         NEW t \in Threads, NEW n \in 1..MaxCalls, CallOfInv(t, n), [Next]_vars
  PROVE  CallOfInv(t, n)'
<1> DEFINE c == ClientOf[t]
           w == [message |-> Request(u), index |-> at[u] + 1]
<1>0. /\ ClientOf \in [Threads -> Clients] /\ up[c] \in Seq(Units) /\ up \in [Clients -> Seq(Units)]
      /\ FrameLen \in Nat
  BY RemoteAssumption DEF TypeOK
<1>1. /\ phase[u] = "send" /\ UNCHANGED <<server, frame, executed, calls>>
      /\ up' = up \/ up' = [up EXCEPT ![ClientOf[u]] = Append(up[ClientOf[u]], w)]
      /\ phase' = [phase EXCEPT ![u] = IF at[u] + 1 = FrameLen THEN "recv" ELSE "send"]
  BY DEF SendUnit, serverVars
<1>2. Unsent(t, n)' => Unsent(t, n)
  BY UnsentFrame
<1>3. CASE up'[c] = up[c]
  BY <1>1, <1>2, <1>3, CallFrame DEF Processing
<1>4. CASE up'[c] = Append(up[c], w)
  <2>1. LastUnit(w, t, n) => u = t /\ n = calls[t] /\ at[u] + 1 = FrameLen
    BY DEF LastUnit, Request, Current
  <2>2. LastUnit(w, t, n) => Unsent(t, n) /\ ~Unsent(t, n)'
    <3>1. calls[t] \in Nat
      BY RemoteAssumption DEF TypeOK
    <3> QED
      BY <2>1, <1>1, <3>1 DEF Unsent, TypeOK
  <2> HIDE DEF w
  <2>3. /\ Len(up'[c]) = Len(up[c]) + 1 /\ up'[c][Len(up[c]) + 1] = w /\ Len(up[c]) \in Nat
        /\ \A i \in 1..Len(up[c]) : up'[c][i] = up[c][i]
    BY <1>4, <1>0
  <2>4. \A i \in 1..Len(up'[c]) : i \in 1..Len(up[c]) \/ i = Len(up[c]) + 1
    BY <2>3
  <2>5. InTransit(t, n)' => InTransit(t, n) \/ LastUnit(w, t, n)
    BY <2>3, <2>4 DEF InTransit, LastUnit
  <2>6. \A i, j \in 1..Len(up'[c]) :
          LastUnit(up'[c][i], t, n) /\ LastUnit(up'[c][j], t, n) => i = j
    <3>1. CASE LastUnit(w, t, n)
      <4>1. ~InTransit(t, n)
        BY <2>2, <3>1 DEF CallOfInv
      <4>2. \A i \in 1..Len(up[c]) : ~LastUnit(up'[c][i], t, n)
        BY <4>1, <2>3 DEF InTransit
      <4> QED
        BY <4>2, <2>4
    <3>2. CASE ~LastUnit(w, t, n)
      <4>1. \A i \in 1..Len(up'[c]) : LastUnit(up'[c][i], t, n) => i \in 1..Len(up[c])
        BY <2>3, <2>4, <3>2
      <4> QED
        BY <4>1, <2>3 DEF CallOfInv
    <3> QED
      BY <3>1, <3>2
  <2>7. Processing(t, n)' <=> Processing(t, n)
    BY <1>1 DEF Processing
  <2>8. executed' = executed
    BY <1>1
  <2>9. \A i, j \in 1..Len(up[ClientOf[t]]') :
          LastUnit(up[ClientOf[t]][i], t, n)' /\ LastUnit(up[ClientOf[t]][j], t, n)' => i = j
    BY <2>6 DEF LastUnit
  <2> QED
    BY <2>2, <2>5, <2>7, <2>8, <2>9, <1>2 DEF CallOfInv
<1> QED
  BY <1>0, <1>1, <1>3, <1>4

\* Receiving the last unit of a request takes its call to the Servant.
LEMMA ReadCalls ==
  ASSUME TypeOK, ServingInv, OriginInv, ServerRead,
         NEW t \in Threads, NEW n \in 1..MaxCalls, CallOfInv(t, n), [Next]_vars
  PROVE  CallOfInv(t, n)'
<1> DEFINE c == ClientOf[t]
           w == Head(up[serving])
<1>0. /\ serving \in Clients /\ c \in Clients /\ up \in [Clients -> Seq(Units)]
      /\ up[serving] \in Seq(Units) /\ up[serving] # <<>> /\ FrameLen \in Nat
  BY RemoteAssumption DEF ServerRead, ServingInv, TypeOK
<1>1. /\ up' = [up EXCEPT ![serving] = Tail(up[serving])] /\ frame' = w.message
      /\ w.index = FrameLen <=> server' = "process"
      /\ server = "read" /\ executed' = executed
  BY DEF ServerRead
<1>2. Unsent(t, n)' => Unsent(t, n)
  BY UnsentFrame
<1>3. w = up[serving][1] /\ 1 \in 1..Len(up[serving]) /\ Len(up[serving]) \in Nat
  BY <1>0
<1>4. Processing(t, n)' => c = serving /\ LastUnit(w, t, n)
  <2>1. Processing(t, n)' => LastUnit(w, t, n)
    BY <1>1 DEF Processing, LastUnit
  <2>2. LastUnit(w, t, n) => ClientOf[t] = serving
    BY <1>0, <1>3 DEF OriginInv, LastUnit
  <2> QED
    BY <2>1, <2>2
<1>5. CASE c # serving
  <2>1. up'[c] = up[c]
    BY <1>0, <1>1, <1>5
  <2> QED
    BY <2>1, <1>1, <1>2, <1>4, <1>5, CallFrame
<1>6. CASE c = serving
  <2>1. /\ Len(up'[c]) = Len(up[c]) - 1
        /\ \A i \in 1..Len(up'[c]) : i + 1 \in 1..Len(up[c]) /\ up'[c][i] = up[c][i + 1]
    BY <1>0, <1>1, <1>3, <1>6
  <2>2. InTransit(t, n)' => InTransit(t, n)
    BY <2>1 DEF InTransit, LastUnit
  <2>3. Processing(t, n)' => InTransit(t, n) /\ ~InTransit(t, n)'
    <3> SUFFICES ASSUME Processing(t, n)' PROVE InTransit(t, n) /\ ~InTransit(t, n)'
      OBVIOUS
    <3>1. LastUnit(up[c][1], t, n) /\ 1 \in 1..Len(up[c])
      BY <1>3, <1>4, <1>6
    <3>2. ASSUME NEW i \in 1..Len(up'[c]), LastUnit(up'[c][i], t, n) PROVE FALSE
      <4>1. i + 1 \in 1..Len(up[c]) /\ LastUnit(up[c][i + 1], t, n)
        BY <2>1, <3>2
      <4>2. i + 1 = 1
        BY <3>1, <4>1 DEF CallOfInv
      <4> QED
        BY <4>2
    <3>3. ~InTransit(t, n)'
      BY <3>2 DEF InTransit, LastUnit
    <3> QED
      BY <3>1, <3>3 DEF InTransit
  <2>4. ASSUME NEW i \in 1..Len(up'[c]), NEW j \in 1..Len(up'[c]),
               LastUnit(up'[c][i], t, n), LastUnit(up'[c][j], t, n)
        PROVE  i = j
    <3>1. i + 1 = j + 1
      BY <2>1, <2>4 DEF CallOfInv
    <3> QED
      BY <3>1
  <2>5. \A i, j \in 1..Len(up[ClientOf[t]]') :
          LastUnit(up[ClientOf[t]][i], t, n)' /\ LastUnit(up[ClientOf[t]][j], t, n)' => i = j
    BY <2>4 DEF LastUnit
  <2> QED
    BY <2>2, <2>3, <2>5, <1>1, <1>2 DEF CallOfInv
<1> QED
  BY <1>5, <1>6

\* Executing a call that was never executed.
LEMMA ExecuteCalls ==
  ASSUME TypeOK, ServingInv, server = "process", server' # "process",
         executed' = [executed EXCEPT ![frame.call] = executed[frame.call] + 1], up' = up,
         NEW t \in Threads, NEW n \in 1..MaxCalls, CallOfInv(t, n), [Next]_vars
  PROVE  /\ CallOfInv(t, n)' /\ (Processing(t, n) => executed'[<<t, n>>] = 1)
         /\ ~Processing(t, n) => executed'[<<t, n>>] = executed[<<t, n>>]
<1>0. frame \in Messages /\ frame.call \in Calls /\ <<t, n>> \in Calls /\ executed \in [Calls -> Nat]
  BY DEF ServingInv, Messages, Calls, TypeOK
<1>1. Unsent(t, n)' => Unsent(t, n)
  BY UnsentFrame
<1>2. ~Processing(t, n)'
  BY DEF Processing
<1>3. InTransit(t, n)' <=> InTransit(t, n)
  BY DEF InTransit, LastUnit
<1>4. CASE Processing(t, n)
  <2>1. executed'[<<t, n>>] = 1 /\ ~Unsent(t, n) /\ ~InTransit(t, n)
    BY <1>0, <1>4 DEF Processing, CallOfInv
  <2> QED
    BY <2>1, <1>1, <1>2, <1>3, <1>4 DEF CallOfInv, LastUnit
<1>5. CASE ~Processing(t, n)
  <2>1. executed'[<<t, n>>] = executed[<<t, n>>]
    BY <1>0, <1>5 DEF Processing
  <2> QED
    BY <2>1, <1>1, <1>2, <1>3, <1>5 DEF CallOfInv, LastUnit
<1> QED
  BY <1>4, <1>5

\* Every step leaves each call at one place at a time.
LEMMA CallStep ==
  ASSUME TypeOK, LockInv, ServingInv, ExecInv, [Next]_vars,
         NEW t \in Threads, NEW n \in 1..MaxCalls
  PROVE  CallOfInv(t, n)'
<1>0. CallOfInv(t, n) /\ OriginInv
  BY DEF ExecInv
<1>1. CASE \E u \in Threads : SendUnit(u)
  BY <1>0, <1>1, SendCalls
<1>2. CASE ServerRead
  BY <1>0, <1>2, ReadCalls
<1>3. CASE ServerFatal \/ \E what \in {"value", "exception"} : ServerProcess(what)
  <2>1. /\ server = "process" /\ server' # "process" /\ up' = up
        /\ executed' = [executed EXCEPT ![frame.call] = executed[frame.call] + 1]
    BY <1>3 DEF ServerFatal, ServerProcess, EndServant
  <2> QED
    BY <2>1, <1>0, ExecuteCalls
<1>4. ASSUME UNCHANGED <<up, executed>>, server' = "process" => server = "process" /\ frame' = frame
      PROVE  CallOfInv(t, n)'
  <2>1. Processing(t, n)' => Processing(t, n)
    BY <1>4 DEF Processing
  <2>2. Unsent(t, n)' => Unsent(t, n)
    BY UnsentFrame
  <2> QED
    BY <1>0, <1>4, <2>1, <2>2, CallFrame
<1>5. CASE ServerLost \/ ServerSeesClose \/ ServerTruncated \/ ServerSend
           \/ \E next \in {"accept", "dead"} : ServerIoFails(next)
  <2>1. UNCHANGED <<up, executed>> /\ server' # "process"
    BY <1>5 DEF ServerLost, ServerSeesClose, ServerTruncated, ServerSend, ServerIoFails, EndServant
  <2> QED
    BY <2>1, <1>4
<1>6. CASE \/ \E c \in Clients : Connect(c) \/ Close(c) \/ Accept(c)
           \/ \E u \in Threads : Call(u) \/ SendFails(u) \/ RecvUnit(u) \/ RecvFails(u)
                                   \/ RecvLost(u) \/ Interrupted(u)
           \/ UNCHANGED vars
  <2>1. UNCHANGED <<up, executed, frame>> /\ (server' = server \/ server' = "read")
    BY <1>6 DEF Connect, Close, Accept, Call, SendFails, RecvUnit, RecvFails, RecvLost, Interrupted,
       vars, serverVars
  <2> QED
    BY <2>1, <1>4
<1> QED
  BY <1>1, <1>2, <1>3, <1>5, <1>6 DEF Next, ThreadStep, ServerStep

\* A stream carries units of its own client only.
LEMMA OriginStep ==
  ASSUME TypeOK, LockInv, ServingInv, OriginInv, [Next]_vars
  PROVE  OriginInv'
<1>1. ASSUME NEW u \in Threads, SendUnit(u) PROVE OriginInv'
  <2> DEFINE w == [message |-> Request(u), index |-> at[u] + 1]
  <2>1. up' = up \/ up' = [up EXCEPT ![ClientOf[u]] = Append(up[ClientOf[u]], w)]
    BY <1>1 DEF SendUnit
  <2>2. w.message.call[1] = u
    BY DEF Request, Current
  <2> HIDE DEF w
  <2>3. ASSUME NEW c \in Clients, NEW i \in 1..Len(up'[c]) PROVE ClientOf[up'[c][i].message.call[1]] = c
    <3>1. up[c] \in Seq(Units) /\ ClientOf[u] \in Clients
      BY RemoteAssumption DEF TypeOK
    <3>2. CASE up'[c] = up[c]
      BY <3>2, <2>3 DEF OriginInv
    <3>3. CASE up'[c] = Append(up[c], w) /\ c = ClientOf[u]
      <4>1. (i \in 1..Len(up[c]) /\ up'[c][i] = up[c][i]) \/ up'[c][i] = w
        BY <3>1, <3>3, <2>3
      <4> QED
        BY <4>1, <3>3, <2>2 DEF OriginInv
    <3> QED
      BY <2>1, <3>1, <3>2, <3>3 DEF TypeOK
  <2> QED
    BY <2>3 DEF OriginInv
<1>2. CASE ServerRead
  <2>1. /\ serving \in Clients /\ up[serving] \in Seq(Units) /\ up[serving] # <<>>
        /\ up' = [up EXCEPT ![serving] = Tail(up[serving])] /\ up \in [Clients -> Seq(Units)]
    BY <1>2 DEF ServerRead, ServingInv, TypeOK
  <2>2. \A c \in Clients : \A i \in 1..Len(up'[c]) : \E j \in 1..Len(up[c]) : up'[c][i] = up[c][j]
    <3> TAKE c \in Clients
    <3>1. CASE c = serving
      <4>1. \A i \in 1..Len(up'[c]) : i + 1 \in 1..Len(up[c]) /\ up'[c][i] = up[c][i + 1]
        BY <2>1, <3>1
      <4> QED
        BY <4>1
    <3>2. CASE c # serving
      BY <2>1, <3>2
    <3> QED
      BY <3>1, <3>2
  <2>3. ASSUME NEW c \in Clients, NEW i \in 1..Len(up'[c]) PROVE ClientOf[up'[c][i].message.call[1]] = c
    <3>1. PICK j \in 1..Len(up[c]) : up'[c][i] = up[c][j]
      BY <2>2
    <3>2. ClientOf[up[c][j].message.call[1]] = c
      BY DEF OriginInv
    <3> QED
      BY <3>1, <3>2
  <2> QED
    BY <2>3 DEF OriginInv
<1>3. CASE up' = up
  BY <1>3 DEF OriginInv
<1>4. CASE \/ \E c \in Clients : Connect(c) \/ Close(c) \/ Accept(c)
           \/ \E u \in Threads : Call(u) \/ SendFails(u) \/ RecvUnit(u) \/ RecvFails(u)
                                   \/ RecvLost(u) \/ Interrupted(u)
           \/ ServerLost \/ ServerSeesClose \/ ServerTruncated \/ ServerSend \/ ServerFatal
           \/ \E what \in {"value", "exception"} : ServerProcess(what)
           \/ \E next \in {"accept", "dead"} : ServerIoFails(next)
           \/ UNCHANGED vars
  <2>1. up' = up
    BY <1>4 DEF Connect, Close, Accept, Call, SendFails, RecvUnit, RecvFails, RecvLost, Interrupted,
       vars, ServerLost, ServerSeesClose, ServerTruncated, ServerSend, ServerFatal, ServerProcess,
       ServerIoFails
  <2> QED
    BY <2>1, <1>3
<1> QED
  BY <1>1, <1>2, <1>4 DEF Next, ThreadStep, ServerStep

\* No step takes an execution back.
LEMMA HasRunStep ==
  ASSUME TypeOK, ServingInv, ExecInv, [Next]_vars, NEW m \in Messages, HasRun(m)
  PROVE  HasRun(m)'
<1>1. m.call \in Calls /\ m.call[1] \in Threads /\ m.call[2] \in 1..MaxCalls
      /\ m.call = <<m.call[1], m.call[2]>>
  BY CallsArePairs DEF Messages
<1>2. CASE ServerFatal \/ \E what \in {"value", "exception"} : ServerProcess(what)
  <2>1. /\ server = "process" /\ server' # "process" /\ up' = up
        /\ executed' = [executed EXCEPT ![frame.call] = executed[frame.call] + 1]
    BY <1>2 DEF ServerFatal, ServerProcess, EndServant
  <2>2. /\ Processing(m.call[1], m.call[2]) => executed'[m.call] = 1
        /\ ~Processing(m.call[1], m.call[2]) => executed'[m.call] = executed[m.call]
    BY <1>1, <2>1, ExecuteCalls DEF ExecInv
  <2> QED
    BY <2>2 DEF HasRun
<1>3. CASE ~ServerFatal /\ \A what \in {"value", "exception"} : ~ServerProcess(what)
  <2>1. executed' = executed
    BY <1>3 DEF Next, ThreadStep, ServerStep, vars, serverVars, Connect, Close, Accept, Call, SendUnit,
       SendFails, RecvUnit, RecvFails, RecvLost, Interrupted, ServerRead, ServerLost, ServerSeesClose,
       ServerTruncated, ServerSend, ServerIoFails
  <2> QED
    BY <2>1 DEF HasRun
<1> QED
  BY <1>2, <1>3

\* Every value, on its way or delivered, was computed by an execution.
LEMMA ValueStep ==
  ASSUME TypeOK, LockInv, ServingInv, ExecInv, [Next]_vars
  PROVE  ValueInv'
<1>v. ValueInv
  BY DEF ExecInv
<1>d. \A c \in Clients : \A i \in 1..Len(down[c]) : down[c][i].message \in Messages
  <2>1. \A c \in Clients : down[c] \in Seq(Units)
    BY DEF TypeOK
  <2>2. \A c \in Clients : \A i \in 1..Len(down[c]) : down[c][i] \in Units
    BY <2>1
  <2> QED
    BY <2>2 DEF Units
<1>o. \A t \in Threads : outcome[t] \in Messages \cup {None}
  BY DEF TypeOK
<1>k. \A m \in Messages : HasRun(m) => (m.what = "value" => executed'[m.call] = 1)
  BY HasRunStep DEF HasRun
<1>r. /\ \A c \in Clients : \A i \in 1..Len(down[c]) :
           down[c][i].message.what = "value" => executed'[down[c][i].message.call] = 1
      /\ \A t \in Threads :
           outcome[t] # None /\ outcome[t].what = "value" => executed'[outcome[t].call] = 1
      /\ server = "send" /\ frame.what = "value" => executed'[frame.call] = 1
  <2>1. server = "send" => frame \in Messages
    BY DEF ServingInv
  <2> QED
    BY <2>1, <1>v, <1>d, <1>o, <1>k DEF ValueInv
<1>1. ASSUME UNCHANGED <<down, outcome>>, server' # "send" PROVE ValueInv'
  BY <1>1, <1>r DEF ValueInv, HasRun
<1>2. ASSUME UNCHANGED <<down, outcome, server, frame>> PROVE ValueInv'
  BY <1>2, <1>r DEF ValueInv, HasRun
<1>3. ASSUME NEW what \in {"value", "exception"}, ServerProcess(what) PROVE ValueInv'
  <2>1. frame \in Messages /\ server = "process"
    BY <1>3 DEF ServerProcess, ServingInv
  <2>2. /\ frame' = [frame EXCEPT !.what = what] /\ UNCHANGED <<down, outcome, up>> /\ server' = "send"
        /\ executed' = [executed EXCEPT ![frame.call] = executed[frame.call] + 1]
    BY <1>3 DEF ServerProcess, clientVars
  <2>3. /\ frame.call \in Calls /\ frame.call[1] \in Threads /\ frame.call[2] \in 1..MaxCalls
        /\ frame.call = <<frame.call[1], frame.call[2]>>
    BY <2>1, CallsArePairs DEF Messages
  <2>4. executed'[frame.call] = 1
    <3>1. Processing(frame.call[1], frame.call[2])
      BY <2>1, <2>3 DEF Processing
    <3>2. \A t \in Threads, n \in 1..MaxCalls : Processing(t, n) => executed'[<<t, n>>] = 1
      BY <2>1, <2>2, ExecuteCalls DEF ExecInv
    <3> QED
      BY <3>1, <3>2, <2>3
  <2>5. frame'.call = frame.call
    BY <2>1, <2>2 DEF Messages
  <2> QED
    BY <2>2, <2>4, <2>5, <1>r DEF ValueInv, HasRun
<1>4. CASE ServerTruncated
  <2>1. /\ frame \in Messages /\ frame' = [frame EXCEPT !.what = "exception"]
        /\ UNCHANGED <<down, outcome, executed>>
    BY <1>4 DEF ServerTruncated, ServingInv, clientVars
  <2>2. frame'.what = "exception"
    BY <2>1 DEF Messages
  <2> QED
    BY <2>1, <2>2, <1>r DEF ValueInv, HasRun
<1>5. CASE ServerSend
  <2> DEFINE w == [message |-> frame, index |-> moved + 1]
  <2>1. /\ serving \in Clients /\ server = "send" /\ UNCHANGED <<outcome, executed>>
        /\ down \in [Clients -> Seq(Units)]
        /\ down' = down \/ down' = [down EXCEPT ![serving] = Append(down[serving], w)]
        /\ server' = "send" => frame' = frame
    BY <1>5 DEF ServerSend, ServingInv, TypeOK, clientVars
  <2>2. w.message = frame
    OBVIOUS
  <2> HIDE DEF w
  <2>3. ASSUME NEW c \in Clients, NEW i \in 1..Len(down'[c]), down'[c][i].message.what = "value"
        PROVE  executed'[down'[c][i].message.call] = 1
    <3>1. CASE down'[c] = down[c]
      BY <2>3, <3>1, <1>r
    <3>2. CASE down'[c] = Append(down[c], w)
      <4>1. down[c] \in Seq(Units)
        BY <2>1
      <4>2. (i \in 1..Len(down[c]) /\ down'[c][i] = down[c][i]) \/ down'[c][i] = w
        BY <2>3, <3>2, <4>1
      <4> QED
        BY <4>2, <2>1, <2>2, <2>3, <1>r
    <3> QED
      BY <2>1, <3>1, <3>2
  <2> QED
    BY <2>1, <2>3, <1>r DEF ValueInv, HasRun
<1>6. ASSUME NEW t \in Threads, RecvUnit(t) PROVE ValueInv'
  <2> DEFINE c == ClientOf[t]
             w == Head(down[c])
  <2>1. /\ c \in Clients /\ down[c] \in Seq(Units) /\ down[c] # <<>> /\ down \in [Clients -> Seq(Units)]
        /\ down' = [down EXCEPT ![c] = Tail(down[c])]
        /\ outcome' = outcome \/ outcome' = [outcome EXCEPT ![t] = w.message]
        /\ UNCHANGED <<server, frame, executed>>
    BY <1>6, RemoteAssumption DEF RecvUnit, TypeOK, serverVars
  <2>2. w = down[c][1] /\ 1 \in 1..Len(down[c])
    BY <2>1
  <2>3. w.message.what = "value" => executed'[w.message.call] = 1
    BY <2>1, <2>2, <1>r
  <2> HIDE DEF w, c
  <2>4. \A b \in Clients : \A i \in 1..Len(down'[b]) : \E j \in 1..Len(down[b]) : down'[b][i] = down[b][j]
    <3> TAKE b \in Clients
    <3>1. CASE b = c
      <4>1. \A i \in 1..Len(down'[b]) : i + 1 \in 1..Len(down[b]) /\ down'[b][i] = down[b][i + 1]
        BY <2>1, <3>1
      <4> QED
        BY <4>1
    <3>2. CASE b # c
      BY <2>1, <3>2
    <3> QED
      BY <3>1, <3>2
  <2>5. \A u \in Threads : outcome'[u] # None /\ outcome'[u].what = "value" => executed'[outcome'[u].call] = 1
    BY <2>1, <2>3, <1>r DEF TypeOK
  <2> QED
    BY <2>1, <2>4, <2>5, <1>r DEF ValueInv, HasRun
<1>7. ASSUME NEW c \in Clients, Close(c) PROVE ValueInv'
  <2>1. UNCHANGED <<server, frame, executed, outcome>> /\ down' = [down EXCEPT ![c] = <<>>]
    BY <1>7 DEF Close, serverVars
  <2>2. \A b \in Clients : \A i \in 1..Len(down'[b]) : i \in 1..Len(down[b]) /\ down'[b][i] = down[b][i]
    BY <2>1 DEF TypeOK
  <2> QED
    BY <2>1, <2>2, <1>r DEF ValueInv, HasRun
<1>8. ASSUME NEW t \in Threads, Call(t) PROVE ValueInv'
  <2>1. UNCHANGED <<down, server, frame, executed>> /\ outcome' = [outcome EXCEPT ![t] = None]
    BY <1>8 DEF Call, serverVars
  <2>2. \A u \in Threads : outcome'[u] # None => outcome'[u] = outcome[u]
    BY <2>1 DEF TypeOK
  <2> QED
    BY <2>1, <2>2, <1>r DEF ValueInv, HasRun
<1>9. CASE \/ ServerRead \/ ServerLost \/ ServerSeesClose \/ ServerFatal
           \/ \E next \in {"accept", "dead"} : ServerIoFails(next)
           \/ \E c \in Clients : Accept(c)
  <2>1. UNCHANGED <<down, outcome>> /\ server' # "send"
    BY <1>9 DEF ServerRead, ServerLost, ServerSeesClose, ServerFatal, ServerIoFails, Accept, EndServant,
       clientVars
  <2> QED
    BY <2>1, <1>1
<1>10. CASE \/ \E c \in Clients : Connect(c)
            \/ \E t \in Threads : SendUnit(t) \/ SendFails(t) \/ RecvFails(t) \/ Interrupted(t)
            \/ UNCHANGED vars
  <2>1. UNCHANGED <<down, outcome, server, frame>>
    BY <1>10 DEF Connect, SendUnit, SendFails, RecvFails, Interrupted, vars, clientVars, serverVars
  <2> QED
    BY <2>1, <1>2
<1>11. ASSUME NEW t \in Threads, RecvLost(t) PROVE ValueInv'
  BY <1>7, <1>11, RemoteAssumption DEF RecvLost
<1> QED
  BY <1>3, <1>4, <1>5, <1>6, <1>7, <1>8, <1>9, <1>10, <1>11 DEF Next, ThreadStep, ServerStep

\* Every step keeps what is known of the executions of each call.
LEMMA ExecStep ==
  ASSUME TypeOK, LockInv, ServingInv, ExecInv, [Next]_vars
  PROVE  ExecInv'
<1>1. \A t \in Threads, n \in 1..MaxCalls : CallOfInv(t, n)'
  BY CallStep
<1>2. OriginInv' /\ ValueInv'
  BY OriginStep, ValueStep DEF ExecInv
<1> QED
  BY <1>1, <1>2 DEF ExecInv

-----------------------------------------------------------------------------
\* Facts about the units on a stream.
LEMMA EmptyStream ==
  \A n, m : Numbered(<<>>, n) /\ From(<<>>, m) /\ Same(<<>>) /\ About(<<>>, m)
  BY DEF Numbered, From, Same, About

\* The units of one message are of the same message.
LEMMA FromIsSame ==
  ASSUME NEW s, NEW m, From(s, m)
  PROVE  Same(s)
  BY DEF From, Same

\* The next unit of the message under way is sent.
LEMMA AppendUnit ==
  ASSUME NEW s \in Seq(Units), NEW u \in Units, NEW n \in Nat,
         Numbered(s, n), From(s, u.message), u.index = n + Len(s) + 1
  PROVE  /\ Numbered(Append(s, u), n) /\ From(Append(s, u), u.message)
         /\ Len(Append(s, u)) = Len(s) + 1
<1> DEFINE r == Append(s, u)
<1>1. Len(r) = Len(s) + 1 /\ Len(s) \in Nat
  OBVIOUS
<1>2. \A j \in 1..Len(r) : (j \in 1..Len(s) /\ r[j] = s[j]) \/ (j = Len(s) + 1 /\ r[j] = u)
  BY <1>1
<1> HIDE DEF r
<1>3. ASSUME NEW j \in 1..Len(r) PROVE r[j].index = n + j /\ r[j].message = u.message
  <2>1. CASE j \in 1..Len(s) /\ r[j] = s[j]
    BY <2>1 DEF Numbered, From
  <2>2. CASE j = Len(s) + 1 /\ r[j] = u
    BY <2>2, <1>1
  <2> QED
    BY <1>2, <2>1, <2>2
<1>4. Numbered(r, n) /\ From(r, u.message)
  BY <1>3 DEF Numbered, From
<1> QED
  BY <1>1, <1>4 DEF r

\* The first unit is received.
LEMMA TailUnits ==
  ASSUME NEW s \in Seq(Units), s # <<>>, NEW n \in Nat, Numbered(s, n)
  PROVE  /\ Head(s).index = n + 1 /\ Numbered(Tail(s), n + 1) /\ Len(Tail(s)) = Len(s) - 1
         /\ Len(s) \in Nat \ {0} /\ (Len(s) = 1 => Tail(s) = <<>>)
         /\ \A m : From(s, m) => Head(s).message = m /\ From(Tail(s), m)
         /\ \A m : About(s, m) => Head(s).message.call = m /\ About(Tail(s), m)
         /\ Same(s) => Same(Tail(s)) /\ From(Tail(s), Head(s).message)
<1> DEFINE r == Tail(s)
           h == Head(s)
<1>1. /\ Len(r) = Len(s) - 1 /\ Len(s) \in Nat \ {0} /\ 1 \in 1..Len(s) /\ h = s[1]
      /\ r \in Seq(Units)
  OBVIOUS
<1>2. \A j \in 1..Len(r) : j + 1 \in 1..Len(s) /\ r[j] = s[j + 1]
  OBVIOUS
<1>3. Len(s) = 1 => r = <<>>
  <2>1. \A q \in Seq(Units) : q # <<>> => Len(q) \in Nat \ {0}
    BY EmptySeq, Zenon
  <2>2. Len(s) = 1 => Len(r) = 0
    BY <1>1
  <2> HIDE DEF r
  <2> QED
    BY <1>1, <2>1, <2>2
<1> HIDE DEF r, h
<1>4. h.index = n + 1 /\ Numbered(r, n + 1)
  <2>1. h.index = n + 1
    BY <1>1 DEF Numbered
  <2>2. ASSUME NEW j \in 1..Len(r) PROVE r[j].index = (n + 1) + j
    <3>1. j + 1 \in 1..Len(s) /\ r[j] = s[j + 1]
      BY <1>2
    <3>2. r[j].index = n + (j + 1)
      BY <3>1 DEF Numbered
    <3> QED
      BY <3>2
  <2> QED
    BY <2>1, <2>2 DEF Numbered
<1>5. \A m : From(s, m) => h.message = m /\ From(r, m)
  BY <1>1, <1>2 DEF From
<1>6. \A m : About(s, m) => h.message.call = m /\ About(r, m)
  BY <1>1, <1>2 DEF About
<1>7. ASSUME Same(s) PROVE Same(r) /\ From(r, h.message)
  <2>1. \A j \in 1..Len(r) : r[j].message = h.message
    BY <1>1, <1>2, <1>7 DEF Same
  <2> QED
    BY <2>1 DEF Same, From
<1> QED
  BY <1>1, <1>3, <1>4, <1>5, <1>6, <1>7 DEF r, h

\* A stream whose first unit is the last of a frame has no other unit.
LEMMA LastIsAlone ==
  ASSUME NEW s \in Seq(Units), s # <<>>, NEW n \in Nat, Numbered(s, n), Head(s).index = FrameLen
  PROVE  Len(s) = 1 /\ Tail(s) = <<>>
<1>1. n + 1 = FrameLen /\ Len(s) \in Nat \ {0} /\ FrameLen \in Nat
  BY TailUnits, RemoteAssumption
<1>2. ASSUME Len(s) # 1 PROVE FALSE
  <2>1. 2 \in 1..Len(s)
    <3>1. \A k \in Nat \ {0} : k # 1 => 2 \in 1..k
      OBVIOUS
    <3> QED
      BY <3>1, <1>1, <1>2, Zenon
  <2>2. s[2] \in Units
    BY <2>1
  <2>3. s[2].index \in 1..FrameLen /\ s[2].index = n + 2
    BY <2>1, <2>2 DEF Units, Numbered
  <2> QED
    BY <2>3, <1>1
<1> QED
  BY <1>2, TailUnits

-----------------------------------------------------------------------------
\* The streams of a connection that a step does not touch.
LEMMA StreamFrame ==
  ASSUME NEW c \in Clients, StreamInv(c),
         clientEnd'[c] = clientEnd[c], serverEnd'[c] = serverEnd[c],
         up'[c] = up[c], down'[c] = down[c], lock'[c] = lock[c],
         lock[c] # None => /\ phase'[lock[c]] = phase[lock[c]] /\ at'[lock[c]] = at[lock[c]]
                           /\ calls'[lock[c]] = calls[lock[c]],
         serving = c <=> serving' = c,
         serving = c => UNCHANGED <<server, moved, frame>>
  PROVE  StreamInv(c)'
<1>1. Got(c)' = Got(c)
  BY DEF Got
<1>2. IdleInv(c) => IdleInv(c)'
  BY DEF IdleInv
<1>3. ASSUME lock[c] # None, InCallInv(c, lock[c]) PROVE InCallInv(c, lock[c])'
  <2>1. Request(lock[c])' = Request(lock[c]) /\ Current(lock[c])' = Current(lock[c])
    BY <1>3 DEF Request, Current
  <2> QED
    BY <1>1, <1>3, <2>1 DEF InCallInv, Uploading, Executing, Answering, Answered
<1>4. AbandonedInv(c) => AbandonedInv(c)'
  BY <1>1 DEF AbandonedInv, Got
<1>5. SeveredInv(c) => SeveredInv(c)'
  BY DEF SeveredInv
<1> QED
  BY <1>2, <1>3, <1>4, <1>5 DEF StreamInv, OpenInv

\* A new connection is empty.
LEMMA ConnectStream ==
  ASSUME TypeOK, LockInv, ServingInv, NEW c \in Clients, StreamInv(c), Connect(c)
  PROVE  StreamInv(c)'
<1>1. /\ clientEnd[c] = "none" /\ clientEnd'[c] = "open"
      /\ UNCHANGED <<serverEnd, up, down, lock, phase, at, calls, server, serving, moved, frame>>
  BY DEF Connect, serverVars, TypeOK
<1>2. up[c] = <<>> /\ down[c] = <<>> /\ serverEnd[c] # "open" /\ lock[c] = None /\ serving # c
  BY <1>1 DEF StreamInv, LockInv, ServingInv
<1> QED
  BY <1>1, <1>2, EmptyStream DEF StreamInv, OpenInv, IdleInv, SeveredInv

\* The units that were on their way when the client went away.
LEMMA CloseStream ==
  ASSUME TypeOK, LockInv, ServingInv, NEW c \in Clients, StreamInv(c), Close(c)
  PROVE  StreamInv(c)'
<1>1. /\ clientEnd[c] = "open" /\ clientEnd'[c] = "closed" /\ down'[c] = <<>>
      /\ UNCHANGED <<serverEnd, up, server, serving, moved, frame>>
  BY DEF Close, serverVars, TypeOK
<1>2. CASE serverEnd[c] = "closed"
  BY <1>1, <1>2 DEF StreamInv, SeveredInv
<1>3. CASE serverEnd[c] # "closed"
  <2>1. OpenInv(c) /\ Got(c)' = Got(c)
    BY <1>1, <1>3 DEF StreamInv, Got
  <2>2. /\ serving = c /\ server \in {"process", "send"} => up[c] = <<>>
        /\ Numbered(up[c], Got(c)) /\ Same(up[c]) /\ (Got(c) # 0 => From(up[c], frame))
    <3>1. CASE up[c] = <<>>
      BY <3>1, EmptyStream
    <3>2. ASSUME NEW m, NEW n, Uploading(c, m, n)
          PROVE  /\ serving = c => server = "read"
                 /\ Numbered(up[c], Got(c)) /\ Same(up[c]) /\ (Got(c) # 0 => From(up[c], frame))
      BY <3>2, FromIsSame DEF Uploading, Got
    <3>3. CASE lock[c] # None /\ up[c] # <<>>
      <4>1. phase[lock[c]] \in {"send", "recv"}
        BY <3>3, RemoteAssumption DEF LockInv, TypeOK
      <4>2. \E m, n : Uploading(c, m, n)
        BY <3>3, <4>1, <2>1 DEF OpenInv, InCallInv, Executing, Answering, Answered
      <4> QED
        BY <4>2, <3>2
    <3> QED
      BY <3>1, <3>3, <2>1 DEF OpenInv, IdleInv
  <2>3. AbandonedInv(c)'
    BY <1>1, <2>1, <2>2 DEF AbandonedInv
  <2> QED
    BY <1>1, <1>3, <2>3 DEF StreamInv
<1> QED
  BY <1>2, <1>3

\* A call begins on a connection with empty streams.
LEMMA CallStream ==
  ASSUME TypeOK, LockInv, ServingInv, NEW t \in Threads, StreamInv(ClientOf[t]), Call(t)
  PROVE  StreamInv(ClientOf[t])'
<1> DEFINE c == ClientOf[t]
<1>0. c \in Clients /\ t # None
  BY RemoteAssumption
<1>1. /\ clientEnd[c] = "open" /\ lock[c] = None /\ phase[t] = "idle"
      /\ lock'[c] = t /\ phase'[t] = "send"
      /\ UNCHANGED <<clientEnd, serverEnd, up, down, at, server, serving, moved, frame>>
  BY <1>0 DEF Call, serverVars, TypeOK
<1>2. at[t] = 0
  BY <1>1 DEF LockInv
<1> HIDE DEF c
<1>3. CASE serverEnd[c] = "closed"
  BY <1>1, <1>3 DEF StreamInv, SeveredInv, c
<1>4. CASE serverEnd[c] # "closed"
  <2>1. IdleInv(c)
    BY <1>1, <1>4 DEF StreamInv, OpenInv, c
  <2>2. Got(c)' = 0
    BY <2>1, <1>1 DEF IdleInv, Got
  <2>3. up'[c] = <<>> /\ down'[c] = <<>> /\ at'[t] = 0
    BY <2>1, <1>1, <1>2 DEF IdleInv
  <2>4. \A m : From(<<>>, m) /\ Numbered(<<>>, 0)
    BY EmptyStream
  <2>5. Uploading(c, Request(t), at[t])'
    <3>1. serving' = c => server' = "read" /\ moved' = 0
      BY <2>1, <1>1 DEF IdleInv
    <3> QED
      BY <2>2, <2>3, <2>4, <3>1 DEF Uploading
  <2>6. OpenInv(c)'
    BY <1>0, <1>1, <2>5 DEF OpenInv, InCallInv
  <2> QED
    BY <1>1, <1>4, <2>6 DEF StreamInv, c
<1> QED
  BY <1>3, <1>4

\* A unit of the request is appended to those before it.
LEMMA SendStream ==
  ASSUME TypeOK, LockInv, ServingInv, NEW t \in Threads, StreamInv(ClientOf[t]), SendUnit(t)
  PROVE  StreamInv(ClientOf[t])'
<1> DEFINE c == ClientOf[t]
           w == [message |-> Request(t), index |-> at[t] + 1]
<1>0. c \in Clients /\ t # None /\ up[c] \in Seq(Units) /\ at[t] \in 0..(FrameLen - 1) /\ FrameLen \in Nat
  BY RemoteAssumption DEF TypeOK
<1>1. /\ phase[t] = "send" /\ UNCHANGED <<clientEnd, serverEnd, down, lock, calls>>
      /\ UNCHANGED <<server, serving, moved, frame>>
      /\ serverEnd[c] = "closed" => up' = up
      /\ serverEnd[c] # "closed" => up'[c] = Append(up[c], w)
      /\ at[t] + 1 = FrameLen => at'[t] = 0 /\ phase'[t] = "recv"
      /\ at[t] + 1 # FrameLen => at'[t] = at[t] + 1 /\ phase'[t] = "send"
  BY <1>0 DEF SendUnit, serverVars, TypeOK
<1>2. lock[c] = t /\ clientEnd[c] = "open"
  BY <1>0, <1>1 DEF LockInv
<1>3. Request(t)' = Request(t)
  BY <1>1 DEF Request, Current
<1>w. w \in Units /\ w.message = Request(t) /\ w.index = at[t] + 1
  <2>1. Request(t) \in Messages
    BY <1>1, RequestType
  <2>2. at[t] + 1 \in 1..FrameLen
    BY <1>0
  <2> QED
    BY <2>1, <2>2 DEF Units
<1> HIDE DEF c, w
<1>4. CASE serverEnd[c] = "closed"
  BY <1>1, <1>2, <1>4 DEF StreamInv, SeveredInv, c
<1>5. CASE serverEnd[c] # "closed"
  <2>1. Uploading(c, Request(t), at[t])
    BY <1>0, <1>1, <1>2, <1>5 DEF StreamInv, OpenInv, InCallInv, c
  <2>2. Got(c)' = Got(c) /\ Got(c) \in Nat
    BY <1>1, RemoteAssumption DEF Got, TypeOK
  <2>3. /\ Numbered(up'[c], Got(c)) /\ From(up'[c], Request(t)) /\ Len(up'[c]) = Len(up[c]) + 1
    <3>1. w.index = Got(c) + Len(up[c]) + 1
      BY <1>w, <2>1 DEF Uploading
    <3> QED
      BY <3>1, <2>1, <2>2, <1>0, <1>1, <1>5, <1>w, AppendUnit DEF Uploading
  <2>4. Got(c) + Len(up'[c]) = at[t] + 1
    <3>1. Got(c) + Len(up[c]) = at[t] /\ Len(up[c]) \in Nat
      BY <2>1, <1>0 DEF Uploading
    <3> QED
      BY <3>1, <2>2, <2>3
  <2>5. ASSUME NEW n, n = at[t] + 1 PROVE Uploading(c, Request(t), n)'
    BY <2>1, <2>2, <2>3, <2>4, <2>5, <1>1, <1>3 DEF Uploading
  <2>6. InCallInv(c, t)'
    <3>1. CASE at[t] + 1 = FrameLen
      <4>1. Uploading(c, Request(t), FrameLen)'
        BY <3>1, <2>5
      <4> QED
        BY <3>1, <4>1, <1>1 DEF InCallInv
    <3>2. CASE at[t] + 1 # FrameLen
      <4>1. Uploading(c, Request(t), at[t])'
        BY <2>1, <2>2, <2>3, <2>4, <3>2, <1>1, <1>3 DEF Uploading
      <4> QED
        BY <3>2, <4>1, <1>1 DEF InCallInv
    <3> QED
      BY <3>1, <3>2
  <2>7. OpenInv(c)'
    BY <2>6, <1>0, <1>1, <1>2 DEF OpenInv
  <2> QED
    BY <1>1, <1>2, <1>5, <2>7 DEF StreamInv, c
<1> QED
  BY <1>4, <1>5

\* The response is the one of the call, and with its last unit the streams are
\* empty again.
LEMMA RecvStream ==
  ASSUME TypeOK, LockInv, ServingInv, NEW t \in Threads, StreamInv(ClientOf[t]), RecvUnit(t)
  PROVE  StreamInv(ClientOf[t])' /\ Head(down[ClientOf[t]]).message.call = Current(t)
<1> DEFINE c == ClientOf[t]
           w == Head(down[c])
<1>0. /\ c \in Clients /\ t # None /\ at[t] \in 0..(FrameLen - 1) /\ FrameLen \in Nat
      /\ down[c] \in Seq(Units) /\ at[t] \in Nat /\ moved \in 0..(FrameLen - 1)
  BY RemoteAssumption DEF TypeOK
<1>1. /\ phase[t] = "recv" /\ down[c] # <<>> /\ w.index = at[t] + 1 /\ down'[c] = Tail(down[c])
      /\ UNCHANGED <<clientEnd, serverEnd, up, calls, server, serving, moved, frame>>
      /\ w.index = FrameLen => lock'[c] = None
      /\ w.index # FrameLen => at'[t] = at[t] + 1 /\ UNCHANGED <<phase, lock>>
  BY <1>0 DEF RecvUnit, Leave, serverVars, TypeOK
<1>2. lock[c] = t /\ clientEnd[c] = "open"
  BY <1>0, <1>1 DEF LockInv
<1>3. Current(t)' = Current(t)
  BY <1>1 DEF Current
<1> HIDE DEF c, w
<1>4. serverEnd[c] # "closed"
  BY <1>1, <1>2 DEF StreamInv, SeveredInv, c
<1>5. Answering(c, t) \/ Answered(c, t)
  BY <1>0, <1>1, <1>2, <1>4 DEF StreamInv, OpenInv, InCallInv, Uploading, Executing, c
<1>6. Numbered(down[c], at[t])
  BY <1>5 DEF Answering, Answered
<1>7. /\ Numbered(Tail(down[c]), at[t] + 1) /\ Len(Tail(down[c])) = Len(down[c]) - 1
      /\ Len(down[c]) \in Nat \ {0}
      /\ \A m : From(down[c], m) => w.message = m /\ From(Tail(down[c]), m)
      /\ \A m : About(down[c], m) => w.message.call = m /\ About(Tail(down[c]), m)
      /\ Same(down[c]) => Same(Tail(down[c]))
  BY <1>0, <1>1, <1>6, TailUnits DEF w
<1>8. w.message.call = Current(t)
  BY <1>5, <1>7 DEF Answering, Answered
<1>9. CASE w.index = FrameLen
  <2>1. Tail(down[c]) = <<>> /\ Len(down[c]) = 1
    BY <1>0, <1>1, <1>6, <1>9, LastIsAlone DEF w
  <2>2. Answered(c, t)
    <3>1. ASSUME Answering(c, t) PROVE FALSE
      <4>1. at[t] + 1 = moved /\ at[t] + 1 = FrameLen
        BY <2>1, <3>1, <1>1, <1>9 DEF Answering
      <4> QED
        BY <4>1, <1>0
    <3> QED
      BY <3>1, <1>5
  <2>3. IdleInv(c)'
    BY <2>1, <2>2, <1>1 DEF Answered, IdleInv
  <2> QED
    BY <2>3, <1>1, <1>2, <1>4, <1>8, <1>9 DEF StreamInv, OpenInv, c, w
<1>10. CASE w.index # FrameLen
  <2>1. ASSUME Answering(c, t) PROVE Answering(c, t)'
    <3>1. /\ serving' = c /\ server' = "send" /\ frame'.call = Current(t)' /\ up'[c] = <<>>
          /\ down'[c] = Tail(down[c]) /\ at'[t] = at[t] + 1 /\ moved' = moved /\ frame' = frame
      BY <1>1, <1>3, <1>10, <2>1 DEF Answering
    <3>2. From(Tail(down[c]), frame) /\ Numbered(Tail(down[c]), at[t] + 1) /\ at[t] + Len(down[c]) = moved
      BY <1>7, <2>1 DEF Answering
    <3>3. (at[t] + 1) + Len(Tail(down[c])) = moved
      BY <1>0, <1>7, <3>2
    <3> QED
      BY <3>1, <3>2, <3>3 DEF Answering
  <2>2. ASSUME Answered(c, t) PROVE Answered(c, t)'
    <3>1. Same(Tail(down[c])) /\ About(Tail(down[c]), Current(t))
      BY <2>2, <1>7 DEF Answered
    <3>2. at[t] + 1 + Len(Tail(down[c])) = FrameLen
      BY <2>2, <1>0, <1>7 DEF Answered
    <3>3. at'[t] = at[t] + 1 /\ down'[c] = Tail(down[c])
      BY <1>1, <1>10
    <3>4. Numbered(down'[c], at'[t]) /\ at'[t] + Len(down'[c]) = FrameLen
      BY <3>2, <3>3, <1>7
    <3> QED
      BY <2>2, <3>1, <3>3, <3>4, <1>1, <1>3 DEF Answered
  <2>3. InCallInv(c, t)'
    <3>1. phase'[t] = "recv"
      BY <1>1, <1>10
    <3>2. Answering(c, t)' \/ Answered(c, t)'
      BY <2>1, <2>2, <1>5
    <3> QED
      BY <3>1, <3>2 DEF InCallInv
  <2> QED
    BY <2>3, <1>0, <1>1, <1>2, <1>4, <1>8, <1>10 DEF StreamInv, OpenInv, c, w
<1> QED
  BY <1>9, <1>10

\* The Servant of a new connection has received nothing of it.
LEMMA AcceptStream ==
  ASSUME TypeOK, LockInv, ServingInv, NEW c \in Clients, StreamInv(c), Accept(c)
  PROVE  StreamInv(c)'
<1>1. /\ serverEnd[c] = "none" /\ serverEnd'[c] = "open" /\ clientEnd[c] # "none"
      /\ server' = "read" /\ serving' = c
      /\ UNCHANGED <<clientEnd, lock, phase, at, calls, up, down, frame, moved>>
  BY DEF Accept, clientVars, TypeOK
<1>2. moved = 0 /\ serving # c
  BY <1>1, RemoteAssumption DEF Accept, ServingInv
<1>3. Got(c) = 0 /\ Got(c)' = 0
  BY <1>1, <1>2 DEF Got
<1>4. IdleInv(c) => IdleInv(c)'
  BY <1>1, <1>2 DEF IdleInv
<1>5. AbandonedInv(c) => AbandonedInv(c)'
  BY <1>1, <1>3 DEF AbandonedInv
<1>6. ASSUME InCallInv(c, lock[c]) PROVE InCallInv(c, lock[c])'
  <2>1. Request(lock[c])' = Request(lock[c])
    BY <1>1 DEF Request, Current
  <2> QED
    BY <1>1, <1>2, <1>3, <1>6, <2>1 DEF InCallInv, Uploading, Executing, Answering, Answered
<1> QED
  BY <1>1, <1>4, <1>5, <1>6 DEF StreamInv, OpenInv

\* What the Servant may assume of the stream it reads from.
LEMMA ReadPlace ==
  ASSUME TypeOK, LockInv, ServingInv, server = "read", StreamInv(serving), up[serving] # <<>>
  PROVE  /\ serving \in Clients /\ serverEnd[serving] = "open" /\ Got(serving) = moved
         /\ moved \in Nat /\ up[serving] \in Seq(Units) /\ down[serving] = <<>>
         /\ Numbered(up[serving], moved) /\ (moved # 0 => From(up[serving], frame))
         /\ \/ /\ clientEnd[serving] = "open" /\ lock[serving] \in Threads
               /\ \/ /\ phase[lock[serving]] = "send"
                     /\ Uploading(serving, Request(lock[serving]), at[lock[serving]])
                  \/ /\ phase[lock[serving]] = "recv" /\ at[lock[serving]] = 0
                     /\ Uploading(serving, Request(lock[serving]), FrameLen)
            \/ clientEnd[serving] = "closed" /\ AbandonedInv(serving)
<1> DEFINE c == serving
           t == lock[c]
<1>1. /\ c \in Clients /\ serverEnd[c] = "open" /\ Got(c) = moved /\ moved \in Nat
      /\ up[c] \in Seq(Units)
  BY RemoteAssumption DEF ServingInv, TypeOK, Got
<1>2. clientEnd[c] \in {"open", "closed"}
  BY <1>1 DEF StreamInv, TypeOK, Ends
<1>3. CASE clientEnd[c] = "closed"
  BY <1>1, <1>3 DEF StreamInv, AbandonedInv
<1>4. CASE clientEnd[c] = "open"
  <2>1. OpenInv(c)
    BY <1>1, <1>4 DEF StreamInv
  <2>2. t \in Threads /\ InCallInv(c, t)
    BY <2>1, <1>1 DEF OpenInv, IdleInv, TypeOK
  <2>3. phase[t] \in {"send", "recv"}
    <3>1. t # None /\ c \in Clients /\ t = lock[c]
      BY <2>2, <1>1, RemoteAssumption
    <3> HIDE DEF c, t
    <3>2. ClientOf[t] = c
      BY <3>1 DEF LockInv
    <3>3. phase[t] # "idle"
      BY <2>2, <3>1, <3>2 DEF LockInv
    <3> QED
      BY <2>2, <3>3 DEF TypeOK
  <2>4. \/ phase[t] = "send" /\ Uploading(c, Request(t), at[t])
        \/ phase[t] = "recv" /\ at[t] = 0 /\ Uploading(c, Request(t), FrameLen)
    BY <2>2, <2>3 DEF InCallInv, Executing, Answering, Answered
  <2> QED
    <3>1. /\ down[c] = <<>> /\ Numbered(up[c], moved) /\ From(up[c], Request(t))
          /\ moved # 0 => frame = Request(t)
      BY <2>4, <1>1 DEF Uploading
    <3> QED
      BY <2>2, <2>4, <3>1, <1>1, <1>4
<1> QED
  BY <1>2, <1>3, <1>4

\* The Servant does not lose its place in a stream that no signal has cut.
LEMMA NeverLost ==
  ASSUME TypeOK, LockInv, ServingInv, ServerLost, StreamInv(serving)
  PROVE  FALSE
<1>1. server = "read" /\ up[serving] # <<>>
  BY DEF ServerLost
<1>2. /\ up[serving] \in Seq(Units) /\ moved \in Nat
      /\ Numbered(up[serving], moved) /\ (moved # 0 => From(up[serving], frame))
  BY <1>1, ReadPlace
<1>3. /\ Head(up[serving]).index = moved + 1
      /\ moved # 0 => Head(up[serving]).message = frame
  BY <1>1, <1>2, TailUnits
<1>4. moved = 0 => frame = None
  BY <1>1 DEF ServingInv
<1> QED
  BY <1>3, <1>4 DEF ServerLost

\* The Servant receives a unit of the request of the call, and with the last one
\* it has the request.
LEMMA ReadStream ==
  ASSUME TypeOK, LockInv, ServingInv, StreamInv(serving), ServerRead
  PROVE  StreamInv(serving)'
<1> DEFINE c == serving
           t == lock[c]
           w == Head(up[c])
<1>1. server = "read" /\ up[c] # <<>>
  BY DEF ServerRead
<1>2. /\ c \in Clients /\ serverEnd[c] = "open" /\ Got(c) = moved
      /\ moved \in Nat /\ up[c] \in Seq(Units) /\ down[c] = <<>>
      /\ Numbered(up[c], moved) /\ (moved # 0 => From(up[c], frame))
  BY <1>1, ReadPlace
<1>3. /\ \/ /\ clientEnd[c] = "open" /\ t \in Threads
            /\ \/ phase[t] = "send" /\ Uploading(c, Request(t), at[t])
               \/ phase[t] = "recv" /\ at[t] = 0 /\ Uploading(c, Request(t), FrameLen)
         \/ clientEnd[c] = "closed" /\ AbandonedInv(c)
  BY <1>1, ReadPlace
<1>4. /\ up'[c] = Tail(up[c]) /\ frame' = w.message /\ w.index = moved + 1
      /\ w.index = FrameLen => server' = "process" /\ moved' = 0
      /\ w.index # FrameLen => server' = "read" /\ moved' = moved + 1
      /\ UNCHANGED <<clientEnd, lock, phase, at, calls, serverEnd, down, serving>>
  BY <1>1, <1>2 DEF ServerRead, clientVars, TypeOK
<1>5. /\ Numbered(Tail(up[c]), moved + 1) /\ Len(Tail(up[c])) = Len(up[c]) - 1
      /\ Len(up[c]) \in Nat \ {0}
      /\ \A m : From(up[c], m) => w.message = m /\ From(Tail(up[c]), m)
      /\ Same(up[c]) => Same(Tail(up[c])) /\ From(Tail(up[c]), w.message)
  BY <1>1, <1>2, TailUnits
<1>6. w.index = FrameLen => Len(up[c]) = 1 /\ Tail(up[c]) = <<>>
  BY <1>1, <1>2, LastIsAlone
<1>7. Got(c)' = moved'
  BY <1>4 DEF Got
<1>8. t \in Threads => Request(t)' = Request(t)
  BY <1>4 DEF Request, Current
<1>9. c' = c /\ t' = t
  BY <1>4
<1>10. CASE clientEnd[c] = "closed"
  <2>1. Same(up[c])
    BY <1>3, <1>10 DEF AbandonedInv
  <2>2. Same(up'[c]) /\ From(up'[c], frame')
    BY <2>1, <1>4, <1>5
  <2>3. Numbered(up'[c], moved') /\ (server' = "process" => up'[c] = <<>>)
    BY <1>4, <1>5, <1>6, EmptyStream
  <2>4. server' \in {"read", "process"}
    BY <1>4
  <2>5. AbandonedInv(c)'
    BY <2>2, <2>3, <2>4, <1>2, <1>4, <1>7, <1>9 DEF AbandonedInv
  <2> QED
    BY <2>5, <1>2, <1>4, <1>9, <1>10 DEF StreamInv
<1>11. CASE clientEnd[c] = "open"
  <2>1. t \in Threads /\ phase[t] \in {"send", "recv"} /\ t # None
    BY <1>3, <1>11, RemoteAssumption
  <2>2. PICK n : /\ Uploading(c, Request(t), n)
                 /\ phase[t] = "send" => n = at[t]
                 /\ phase[t] = "recv" => at[t] = 0 /\ n = FrameLen
    BY <1>3, <1>11
  <2>3. /\ down[c] = <<>> /\ From(up[c], Request(t)) /\ moved + Len(up[c]) = n
    BY <2>2, <1>2 DEF Uploading
  <2>4. w.message = Request(t) /\ From(Tail(up[c]), Request(t)) /\ frame' = Request(t)
    BY <2>3, <1>4, <1>5
  <2>5. InCallInv(c, t)'
    <3>1. CASE w.index = FrameLen
      <4>1. n = FrameLen
        BY <2>3, <3>1, <1>4, <1>6
      <4>2. phase[t] = "recv"
        BY <4>1, <2>1, <2>2 DEF TypeOK
      <4>3. Executing(c, t)'
        BY <2>2, <2>4, <3>1, <4>2, <1>2, <1>4, <1>6, <1>8, <1>9, <2>1 DEF Executing
      <4> QED
        BY <4>2, <4>3, <1>4, <1>9 DEF InCallInv
    <3>2. CASE w.index # FrameLen
      <4>1. moved' + Len(up'[c]) = n
        BY <2>3, <3>2, <1>2, <1>4, <1>5
      <4>2. Uploading(c, Request(t), n)'
        BY <2>1, <2>3, <2>4, <3>2, <4>1, <1>4, <1>5, <1>7, <1>8, <1>9 DEF Uploading
      <4>3. CASE phase[t] = "send"
        BY <4>2, <4>3, <2>2, <1>4, <1>9 DEF InCallInv
      <4>4. CASE phase[t] = "recv"
        BY <4>2, <4>4, <2>2, <1>4, <1>9 DEF InCallInv
      <4> QED
        BY <4>3, <4>4, <2>1
    <3> QED
      BY <3>1, <3>2
  <2>6. OpenInv(c)'
    BY <2>5, <2>1, <1>4, <1>9 DEF OpenInv
  <2> QED
    BY <2>6, <1>2, <1>4, <1>9, <1>11 DEF StreamInv
<1> QED
  BY <1>3, <1>10, <1>11

\* Where the Servant stands while it executes a request or sends a response.
LEMMA BusyPlace ==
  ASSUME TypeOK, LockInv, ServingInv, server \in {"process", "send"}, StreamInv(serving)
  PROVE  /\ serving \in Clients /\ serverEnd[serving] = "open" /\ up[serving] = <<>>
         /\ \/ clientEnd[serving] = "closed" /\ AbandonedInv(serving)
            \/ /\ clientEnd[serving] = "open" /\ lock[serving] \in Threads
               /\ phase[lock[serving]] = "recv"
               /\ IF server = "process" THEN Executing(serving, lock[serving])
                                        ELSE Answering(serving, lock[serving])
<1> DEFINE c == serving
           t == lock[c]
<1>1. c \in Clients /\ serverEnd[c] = "open"
  BY RemoteAssumption DEF ServingInv, TypeOK
<1>2. clientEnd[c] \in {"open", "closed"}
  BY <1>1 DEF StreamInv, TypeOK, Ends
<1>3. CASE clientEnd[c] = "closed"
  BY <1>1, <1>3 DEF StreamInv, AbandonedInv
<1>4. CASE clientEnd[c] = "open"
  <2>1. OpenInv(c)
    BY <1>1, <1>4 DEF StreamInv
  <2>2. t \in Threads /\ InCallInv(c, t)
    BY <2>1, <1>1 DEF OpenInv, IdleInv, TypeOK
  <2>3. phase[t] = "recv" /\ (Executing(c, t) \/ Answering(c, t))
    <3>1. t # None /\ c \in Clients /\ t = lock[c]
      BY <2>2, <1>1, RemoteAssumption
    <3>2. ASSUME NEW m, NEW n PROVE ~Uploading(c, m, n)
      BY DEF Uploading
    <3>3. ~Answered(c, t)
      BY DEF Answered
    <3> HIDE DEF c, t
    <3>4. ClientOf[t] = c
      BY <3>1 DEF LockInv
    <3>5. phase[t] # "idle"
      BY <2>2, <3>1, <3>4 DEF LockInv
    <3>6. phase[t] \in {"send", "recv"}
      BY <2>2, <3>5 DEF TypeOK
    <3> QED
      BY <2>2, <3>2, <3>3, <3>6 DEF InCallInv
  <2>4. up[c] = <<>> /\ IF server = "process" THEN Executing(c, t) ELSE Answering(c, t)
    BY <2>3 DEF Executing, Answering
  <2> QED
    BY <2>2, <2>3, <2>4, <1>1, <1>4
<1> QED
  BY <1>2, <1>3, <1>4

\* A truncated request is answered to nobody.
LEMMA TruncatedStream ==
  ASSUME TypeOK, LockInv, ServingInv, StreamInv(serving), ServerTruncated
  PROVE  StreamInv(serving)'
<1> DEFINE c == serving
<1>1. /\ c \in Clients /\ serverEnd[c] = "open" /\ up[c] = <<>> /\ clientEnd[c] = "closed"
      /\ server' = "send" /\ UNCHANGED <<clientEnd, serverEnd, up, down, serving>>
  BY RemoteAssumption DEF ServerTruncated, ServingInv, TypeOK, clientVars
<1>2. down[c] = <<>>
  BY <1>1 DEF StreamInv, AbandonedInv
<1>3. Got(c)' = 0 /\ c' = c
  BY <1>1 DEF Got
<1>4. AbandonedInv(c)'
  BY <1>1, <1>2, <1>3, EmptyStream DEF AbandonedInv
<1> QED
  BY <1>1, <1>3, <1>4 DEF StreamInv

\* The response is about the call of the request.
LEMMA ProcessStream ==
  ASSUME TypeOK, LockInv, ServingInv, StreamInv(serving),
         NEW what \in {"value", "exception"}, ServerProcess(what)
  PROVE  StreamInv(serving)'
<1> DEFINE c == serving
           t == lock[c]
<1>1. /\ server = "process" /\ server' = "send" /\ moved = 0 /\ frame \in Messages
      /\ frame' = [frame EXCEPT !.what = what]
      /\ UNCHANGED <<clientEnd, lock, phase, at, calls, serverEnd, up, down, serving, moved>>
  BY DEF ServerProcess, ServingInv, clientVars
<1>2. /\ c \in Clients /\ serverEnd[c] = "open" /\ up[c] = <<>>
      /\ \/ clientEnd[c] = "closed" /\ AbandonedInv(c)
         \/ clientEnd[c] = "open" /\ t \in Threads /\ phase[t] = "recv" /\ Executing(c, t)
  BY <1>1, BusyPlace
<1>3. Got(c)' = 0 /\ c' = c /\ t' = t /\ frame'.call = frame.call
  BY <1>1 DEF Got, Messages
<1>4. CASE clientEnd[c] = "closed" /\ AbandonedInv(c)
  <2>1. AbandonedInv(c)'
    BY <1>1, <1>2, <1>3, <1>4, EmptyStream DEF AbandonedInv
  <2> QED
    BY <2>1, <1>1, <1>2, <1>3, <1>4 DEF StreamInv
<1>5. CASE clientEnd[c] = "open" /\ t \in Threads /\ phase[t] = "recv" /\ Executing(c, t)
  <2>1. /\ frame.call = Current(t) /\ Current(t)' = Current(t)
        /\ down[c] = <<>> /\ at[t] = 0
    BY <1>1, <1>3, <1>5 DEF Executing, Request, Current
  <2>2. Numbered(<<>>, 0) /\ \A m : From(<<>>, m)
    BY EmptyStream
  <2>3. Answering(c, t)'
    BY <2>1, <2>2, <1>1, <1>2, <1>3 DEF Answering
  <2>4. InCallInv(c, t)'
    BY <2>3, <1>1, <1>3, <1>5 DEF InCallInv
  <2>5. OpenInv(c)'
    BY <2>4, <1>1, <1>3, <1>5, RemoteAssumption DEF OpenInv
  <2> QED
    BY <2>5, <1>1, <1>2, <1>3, <1>5 DEF StreamInv
<1> QED
  BY <1>2, <1>4, <1>5

\* A unit of the response is appended to those before it.
LEMMA ServerSendStream ==
  ASSUME TypeOK, LockInv, ServingInv, StreamInv(serving), ServerSend
  PROVE  StreamInv(serving)'
<1> DEFINE c == serving
           t == lock[c]
           w == [message |-> frame, index |-> moved + 1]
<1>0. c \in Clients /\ down[c] \in Seq(Units) /\ moved \in 0..(FrameLen - 1) /\ FrameLen \in Nat
  BY RemoteAssumption DEF ServerSend, ServingInv, TypeOK
<1>1. /\ server = "send" /\ frame \in Messages
      /\ clientEnd[c] = "closed" => down' = down
      /\ clientEnd[c] # "closed" => down'[c] = Append(down[c], w)
      /\ moved + 1 = FrameLen => server' = "read" /\ moved' = 0 /\ frame' = None
      /\ moved + 1 # FrameLen => server' = "send" /\ moved' = moved + 1 /\ frame' = frame
      /\ UNCHANGED <<clientEnd, lock, phase, at, calls, serverEnd, up, serving>>
  BY <1>0 DEF ServerSend, ServingInv, TypeOK, clientVars
<1>w. w \in Units /\ w.message = frame /\ w.index = moved + 1
  BY <1>0, <1>1 DEF Units
<1> HIDE DEF w
<1>2. /\ serverEnd[c] = "open" /\ up[c] = <<>>
      /\ \/ clientEnd[c] = "closed" /\ AbandonedInv(c)
         \/ clientEnd[c] = "open" /\ t \in Threads /\ phase[t] = "recv" /\ Answering(c, t)
  BY <1>1, BusyPlace
<1>3. c' = c /\ t' = t
  BY <1>1
<1>4. CASE clientEnd[c] = "closed" /\ AbandonedInv(c)
  <2>1. Got(c)' = 0
    BY <1>1, <1>3 DEF Got
  <2>2. AbandonedInv(c)'
    BY <2>1, <1>1, <1>2, <1>3, <1>4, EmptyStream DEF AbandonedInv
  <2> QED
    BY <2>2, <1>1, <1>2, <1>3, <1>4 DEF StreamInv
<1>5. CASE clientEnd[c] = "open" /\ t \in Threads /\ phase[t] = "recv" /\ Answering(c, t)
  <2>1. /\ Numbered(down[c], at[t]) /\ From(down[c], frame) /\ at[t] + Len(down[c]) = moved
        /\ frame.call = Current(t) /\ Current(t)' = Current(t) /\ at[t] \in Nat
        /\ Len(down[c]) \in Nat
    BY <1>0, <1>1, <1>3, <1>5, RemoteAssumption DEF Answering, Current, TypeOK
  <2>2. down'[c] = Append(down[c], w) /\ w.index = at[t] + Len(down[c]) + 1
    BY <2>1, <1>1, <1>5, <1>w
  <2>3. /\ Numbered(down'[c], at[t]) /\ From(down'[c], frame)
        /\ Len(down'[c]) = Len(down[c]) + 1
    BY <2>1, <2>2, <1>0, <1>w, AppendUnit
  <2>4. at[t] + Len(down'[c]) = moved + 1
    BY <2>1, <2>3, <1>0
  <2>5. ASSUME moved + 1 = FrameLen PROVE InCallInv(c, t)'
    <3>1. Same(down'[c]) /\ About(down'[c], Current(t))
      BY <2>1, <2>3 DEF From, Same, About
    <3>2. Answered(c, t)'
      BY <3>1, <2>1, <2>3, <2>4, <2>5, <1>1, <1>2, <1>3 DEF Answered
    <3> QED
      BY <3>2, <1>1, <1>3, <1>5 DEF InCallInv
  <2>6. ASSUME moved + 1 # FrameLen PROVE InCallInv(c, t)'
    <3>1. Answering(c, t)'
      BY <2>1, <2>3, <2>4, <2>6, <1>1, <1>2, <1>3 DEF Answering
    <3> QED
      BY <3>1, <1>1, <1>3, <1>5 DEF InCallInv
  <2>7. OpenInv(c)'
    BY <2>5, <2>6, <1>1, <1>3, <1>5, RemoteAssumption DEF OpenInv
  <2> QED
    BY <2>7, <1>1, <1>2, <1>3, <1>5 DEF StreamInv
<1> QED
  BY <1>2, <1>4, <1>5

\* What the server may leave behind when it closes a connection.
LEMMA CutOff ==
  ASSUME TypeOK, LockInv, ServingInv, NEW c \in Clients, StreamInv(c),
         serving = c => clientEnd[c] = "closed" \/ server = "process"
  PROVE  SeveredInv(c)
<1> DEFINE t == lock[c]
<1>1. CASE serverEnd[c] = "closed" \/ clientEnd[c] = "none"
  BY <1>1, EmptyStream DEF StreamInv, SeveredInv
<1>2. CASE serverEnd[c] # "closed" /\ clientEnd[c] = "closed"
  BY <1>2 DEF StreamInv, AbandonedInv, SeveredInv
<1>3. CASE clientEnd[c] = "open" /\ serving = c
  <2>1. up[c] = <<>> /\ Executing(c, t)
    BY <1>3, BusyPlace
  <2> QED
    BY <2>1, EmptyStream DEF Executing, SeveredInv
<1>4. CASE serverEnd[c] # "closed" /\ clientEnd[c] = "open" /\ serving # c
  <2>1. OpenInv(c)
    BY <1>4 DEF StreamInv
  <2>2. CASE t = None
    BY <2>1, <2>2, EmptyStream DEF OpenInv, IdleInv, SeveredInv
  <2>3. CASE t # None
    <3>1. t \in Threads /\ InCallInv(c, t) /\ t = lock[c]
      BY <2>1, <2>3 DEF OpenInv, TypeOK
    <3> HIDE DEF t
    <3>2. ClientOf[t] = c
      BY <2>3, <3>1 DEF LockInv
    <3>3. phase[t] # "idle"
      BY <3>1, <3>2 DEF LockInv
    <3>4. phase[t] \in {"send", "recv"}
      BY <3>1, <3>3 DEF TypeOK
    <3>5. PICK m, n : Uploading(c, m, n)
      BY <3>1, <3>4, <1>4 DEF InCallInv, Executing, Answering, Answered
    <3> QED
      BY <3>5, FromIsSame DEF Uploading, SeveredInv
  <2> QED
    BY <2>2, <2>3
<1> QED
  BY <1>1, <1>2, <1>3, <1>4 DEF TypeOK, Ends

\* A connection that the server closes.
LEMMA EndStream ==
  ASSUME TypeOK, LockInv, ServingInv, NEW c \in Clients, StreamInv(c), NEW next \in {"accept", "dead"},
         EndServant(next), UNCHANGED <<clientVars, up, down>>,
         clientEnd[serving] = "closed" \/ server = "process"
  PROVE  StreamInv(c)'
<1>1. UNCHANGED <<clientEnd, lock, phase, at, calls>>
  BY DEF clientVars
<1>2. CASE c = serving \/ next = "dead"
  <2>1. SeveredInv(c)
    BY CutOff
  <2>2. serverEnd'[c] = "closed" /\ SeveredInv(c)'
    BY <1>2, <2>1 DEF EndServant, SeveredInv
  <2>3. clientEnd[c] = "none" => up[c] = <<>> /\ down[c] = <<>>
    BY DEF StreamInv
  <2> QED
    BY <1>1, <2>2, <2>3 DEF StreamInv
<1>3. CASE c # serving /\ next # "dead"
  <2>1. serverEnd'[c] = serverEnd[c] /\ serving' # c
    BY <1>3, RemoteAssumption DEF EndServant
  <2> QED
    BY <1>1, <1>3, <2>1, StreamFrame
<1> QED
  BY <1>2, <1>3

\* A call that ends because the server has closed the connection.
LEMMA FailStream ==
  ASSUME TypeOK, LockInv, ServingInv, NEW t \in Threads, StreamInv(ClientOf[t]),
         SendFails(t) \/ RecvFails(t)
  PROVE  StreamInv(ClientOf[t])'
<1> DEFINE c == ClientOf[t]
<1>1. /\ serverEnd[c] = "closed" /\ phase[t] # "idle" /\ c \in Clients
      /\ UNCHANGED <<clientEnd, serverEnd, up, down>>
  BY RemoteAssumption DEF SendFails, RecvFails
<1>2. clientEnd[c] = "open" /\ SeveredInv(c)
  BY <1>1, RemoteAssumption DEF LockInv, StreamInv
<1> QED
  BY <1>1, <1>2 DEF StreamInv, SeveredInv

-----------------------------------------------------------------------------
\* A step of a thread leaves the streams of the other clients alone.
LEMMA OtherStreams ==
  ASSUME TypeOK, LockInv, ServingInv, NEW t \in Threads, NEW c \in Clients, StreamInv(c), c # ClientOf[t],
         \/ Call(t) \/ SendUnit(t) \/ SendFails(t) \/ RecvUnit(t) \/ RecvFails(t) \/ Interrupted(t)
  PROVE  StreamInv(c)'
<1>0. ClientOf[t] \in Clients
  BY RemoteAssumption
<1>1. ASSUME lock[c] # None PROVE lock[c] # t /\ lock[c] \in Threads
  BY <1>1 DEF LockInv, TypeOK
<1>2. UNCHANGED <<clientEnd, serverEnd, server, serving, moved, frame>>
  BY DEF Call, SendUnit, SendFails, RecvUnit, RecvFails, Interrupted, serverVars
<1>3. up'[c] = up[c] /\ down'[c] = down[c] /\ lock'[c] = lock[c]
  <2>1. Call(t) => up'[c] = up[c] /\ down'[c] = down[c] /\ lock'[c] = lock[c]
    BY <1>0 DEF Call, TypeOK
  <2>2. SendUnit(t) => up'[c] = up[c] /\ down'[c] = down[c] /\ lock'[c] = lock[c]
    BY <1>0 DEF SendUnit, TypeOK
  <2>3. RecvUnit(t) => up'[c] = up[c] /\ down'[c] = down[c] /\ lock'[c] = lock[c]
    BY <1>0 DEF RecvUnit, Leave, TypeOK
  <2>4. SendFails(t) \/ RecvFails(t) \/ Interrupted(t)
           => up'[c] = up[c] /\ down'[c] = down[c] /\ lock'[c] = lock[c]
    BY <1>0 DEF SendFails, RecvFails, Interrupted, Leave, TypeOK
  <2> QED
    BY <2>1, <2>2, <2>3, <2>4
<1>4. \A u \in Threads : u # t => phase'[u] = phase[u] /\ at'[u] = at[u] /\ calls'[u] = calls[u]
  BY DEF Call, SendUnit, SendFails, RecvUnit, RecvFails, Interrupted, Leave, TypeOK
<1> QED
  BY <1>1, <1>2, <1>3, <1>4, StreamFrame

\* A step of the Servant leaves the streams of the other clients alone.
LEMMA OtherServed ==
  ASSUME TypeOK, LockInv, ServingInv, NEW c \in Clients, StreamInv(c), c # serving,
         \/ ServerRead \/ ServerLost \/ ServerTruncated \/ ServerSend
         \/ \E what \in {"value", "exception"} : ServerProcess(what)
  PROVE  StreamInv(c)'
<1>1. UNCHANGED <<clientEnd, lock, phase, at, calls, serverEnd, serving>>
  BY DEF ServerRead, ServerLost, ServerTruncated, ServerSend, ServerProcess, clientVars
<1>2. up'[c] = up[c] /\ down'[c] = down[c]
  <2>1. ServerRead => up'[c] = up[c] /\ down'[c] = down[c]
    BY DEF ServerRead, TypeOK
  <2>2. ServerSend => up'[c] = up[c] /\ down'[c] = down[c]
    BY DEF ServerSend, TypeOK
  <2> QED
    BY <2>1, <2>2 DEF ServerLost, ServerTruncated, ServerProcess
<1> QED
  BY <1>1, <1>2, StreamFrame

\* A client that connects, closes or is accepted leaves the others alone.
LEMMA OtherClients ==
  ASSUME TypeOK, LockInv, ServingInv, NEW b \in Clients, NEW c \in Clients, StreamInv(c), c # b,
         Connect(b) \/ Close(b) \/ Accept(b)
  PROVE  StreamInv(c)'
<1>1. ASSUME lock[c] # None PROVE lock[c] \in Threads /\ ClientOf[lock[c]] = c
  BY <1>1 DEF LockInv, TypeOK
<1>2. CASE Connect(b)
  <2>1. clientEnd'[c] = clientEnd[c]
    BY <1>2 DEF Connect, TypeOK
  <2> QED
    BY <1>2, <2>1, StreamFrame DEF Connect, serverVars
<1>3. CASE Accept(b)
  <2>1. serverEnd'[c] = serverEnd[c] /\ serving # c /\ serving' # c
    BY <1>3, RemoteAssumption DEF Accept, ServingInv, TypeOK
  <2> QED
    BY <1>3, <2>1, StreamFrame DEF Accept, clientVars
<1>4. CASE Close(b)
  <2>1. clientEnd'[c] = clientEnd[c] /\ down'[c] = down[c] /\ lock'[c] = lock[c]
    BY <1>4 DEF Close, TypeOK
  <2>2. lock[c] # None => phase'[lock[c]] = phase[lock[c]] /\ at'[lock[c]] = at[lock[c]]
    BY <1>1, <1>4 DEF Close
  <2> QED
    BY <1>4, <2>1, <2>2, StreamFrame DEF Close, serverVars
<1> QED
  BY <1>2, <1>3, <1>4

\* Every step keeps the streams that no signal has cut in order.
LEMMA StreamStep ==
  ASSUME TypeOK, LockInv, ServingInv, NEW c \in Clients, StreamInv(c), c \notin cut', [Next]_vars
  PROVE  StreamInv(c)'
<1>1. ASSUME NEW b \in Clients, Connect(b) \/ Close(b) \/ Accept(b) PROVE StreamInv(c)'
  <2>1. CASE b = c
    BY <1>1, <2>1, ConnectStream, CloseStream, AcceptStream
  <2>2. CASE b # c
    BY <1>1, <2>2, OtherClients
  <2> QED
    BY <2>1, <2>2
<1>2. ASSUME NEW t \in Threads, Call(t) \/ ThreadStep(t) \/ Interrupted(t) PROVE StreamInv(c)'
  <2>1. CASE RecvLost(t)
    BY <1>1, <2>1, RemoteAssumption DEF RecvLost
  <2>2. CASE ClientOf[t] = c /\ ~RecvLost(t)
    <3>1. ~Interrupted(t)
      BY <2>2 DEF Interrupted
    <3> QED
      BY <1>2, <2>2, <3>1, CallStream, SendStream, RecvStream, FailStream DEF ThreadStep
  <2>3. CASE ClientOf[t] # c /\ ~RecvLost(t)
    BY <1>2, <2>3, OtherStreams DEF ThreadStep
  <2> QED
    BY <2>1, <2>2, <2>3
<1>3. ASSUME NEW what \in {"value", "exception"}, ServerProcess(what) PROVE StreamInv(c)'
  BY <1>3, ProcessStream, OtherServed DEF ServerProcess
<1>4. CASE ServerRead \/ ServerLost \/ ServerTruncated \/ ServerSend
  <2>1. CASE serving = c
    BY <1>4, <2>1, ReadStream, NeverLost, TruncatedStream, ServerSendStream
       DEF ServerRead, ServerTruncated, ServerSend
  <2>2. CASE serving # c
    BY <1>4, <2>2, OtherServed
  <2> QED
    BY <2>1, <2>2
<1>5. CASE ServerSeesClose \/ ServerFatal
  BY <1>5, EndStream DEF ServerSeesClose, ServerFatal
<1>6. ASSUME NEW next \in {"accept", "dead"}, ServerIoFails(next) PROVE StreamInv(c)'
  BY <1>6, EndStream DEF ServerIoFails
<1>7. CASE UNCHANGED vars
  BY <1>7, StreamFrame DEF vars, clientVars, serverVars
<1> QED
  BY <1>1, <1>2, <1>3, <1>4, <1>5, <1>6, <1>7 DEF Next, ServerStep

\* A call that ends with a response has its own.
LEMMA OutcomeStep ==
  ASSUME TypeOK, LockInv, ServingInv, OwnInv, [Next]_vars,
         NEW u \in Threads, outcome'[u] # None, ClientOf[u] \notin cut'
  PROVE  outcome'[u].call = Current(u)'
<1>0. cut \subseteq cut' /\ ClientOf[u] \in Clients
  BY RemoteAssumption DEF Next, Connect, Close, Accept, Call, ThreadStep, SendUnit, SendFails, RecvUnit,
     RecvFails, RecvLost, Interrupted, ServerStep, ServerRead, ServerLost, ServerSeesClose,
     ServerTruncated, ServerProcess, ServerFatal, ServerSend, ServerIoFails, vars, clientVars
<1>1. outcome[u] # None => outcome[u].call = Current(u)
  BY <1>0 DEF OwnInv
<1>2. CASE outcome'[u] = outcome[u] /\ calls'[u] = calls[u]
  BY <1>1, <1>2 DEF Current
<1>3. ASSUME NEW t \in Threads, Call(t) PROVE outcome'[u].call = Current(u)'
  <2>1. u # t
    BY <1>3 DEF Call, TypeOK
  <2> QED
    BY <1>2, <1>3, <2>1 DEF Call, TypeOK
<1>4. ASSUME NEW t \in Threads, RecvUnit(t) PROVE outcome'[u].call = Current(u)'
  <2> DEFINE w == Head(down[ClientOf[t]])
  <2>1. /\ calls' = calls
        /\ outcome' = outcome \/ outcome' = [outcome EXCEPT ![t] = w.message]
    BY <1>4 DEF RecvUnit
  <2>2. u = t => w.message.call = Current(t)
    BY <1>0, <1>4, RecvStream DEF OwnInv
  <2> HIDE DEF w
  <2>3. CASE outcome'[u] = outcome[u]
    BY <1>2, <2>1, <2>3
  <2>4. CASE u = t /\ outcome'[u] = w.message
    BY <2>1, <2>2, <2>4 DEF Current
  <2> QED
    BY <2>1, <2>3, <2>4 DEF TypeOK
<1>5. CASE \/ \E b \in Clients : Connect(b) \/ Close(b) \/ Accept(b)
           \/ \E t \in Threads : SendUnit(t) \/ SendFails(t) \/ RecvFails(t) \/ RecvLost(t) \/ Interrupted(t)
           \/ ServerStep \/ UNCHANGED vars
  <2>1. outcome' = outcome /\ calls' = calls
    BY <1>5 DEF Connect, Close, Accept, SendUnit, SendFails, RecvFails, RecvLost, Interrupted, ServerStep,
       ServerRead, ServerLost, ServerSeesClose, ServerTruncated, ServerProcess, ServerFatal, ServerSend,
       ServerIoFails, vars, clientVars
  <2> QED
    BY <1>2, <2>1
<1> QED
  BY <1>3, <1>4, <1>5 DEF Next, ThreadStep

\* Every step keeps the order and the owner of what is in each stream.
LEMMA OwnStep ==
  ASSUME TypeOK, LockInv, ServingInv, OwnInv, [Next]_vars
  PROVE  OwnInv'
<1>0. cut \subseteq cut'
  BY DEF Next, Connect, Close, Accept, Call, ThreadStep, SendUnit, SendFails, RecvUnit,
     RecvFails, RecvLost, Interrupted, ServerStep, ServerRead, ServerLost, ServerSeesClose,
     ServerTruncated, ServerProcess, ServerFatal, ServerSend, ServerIoFails, vars, clientVars
<1>1. ASSUME NEW c \in Clients, c \notin cut' PROVE StreamInv(c)'
  BY <1>0, <1>1, StreamStep DEF OwnInv
<1>2. ASSUME server' = "lost" PROVE serving' \in cut'
  <2>1. CASE ServerLost
    <3>1. serving \in Clients /\ serving' = serving
      BY <2>1, RemoteAssumption DEF ServerLost, ServingInv, TypeOK
    <3>2. serving \in cut
      BY <2>1, <3>1, NeverLost DEF OwnInv
    <3> QED
      BY <3>1, <3>2, <1>0
  <2>2. CASE ~ServerLost
    <3>1. server = "lost" /\ serving' = serving
      BY <1>2, <2>2 DEF Next, Connect, Close, Accept, Call, ThreadStep, SendUnit, SendFails, RecvUnit,
         RecvFails, RecvLost, Interrupted, ServerStep, ServerRead, ServerSeesClose, ServerTruncated,
         ServerProcess, ServerFatal, ServerSend, ServerIoFails, EndServant, vars, serverVars
    <3> QED
      BY <3>1, <1>0 DEF OwnInv
  <2> QED
    BY <2>1, <2>2
<1>3. \A u \in Threads : outcome'[u] # None /\ ClientOf[u] \notin cut' => outcome'[u].call = Current(u)'
  BY OutcomeStep
<1> QED
  BY <1>1, <1>2, <1>3 DEF OwnInv

-----------------------------------------------------------------------------
\* The invariant holds before the first connection.
LEMMA RemoteInvInit == Init => RemoteInv
<1> SUFFICES ASSUME Init PROVE RemoteInv
  OBVIOUS
<1>1. TypeOK
  BY TypeInit
<1>2. LockInv
  BY RemoteAssumption DEF Init, LockInv
<1>3. ServingInv
  BY RemoteAssumption DEF Init, ServingInv
<1>4. \A c \in Clients : up[c] = <<>> /\ down[c] = <<>> /\ Len(up[c]) = 0 /\ Len(down[c]) = 0
  BY DEF Init
<1>5. ExecInv
  <2>1. ASSUME NEW t \in Threads, NEW n \in 1..MaxCalls PROVE CallOfInv(t, n)
    <3>1. <<t, n>> \in Calls /\ ClientOf[t] \in Clients
      BY RemoteAssumption DEF Calls
    <3>2. executed[<<t, n>>] = 0 /\ server # "process"
      BY <3>1 DEF Init
    <3>3. ~\E i \in 1..Len(up[ClientOf[t]]) : TRUE
      BY <3>1, <1>4
    <3> QED
      BY <3>2, <3>3 DEF CallOfInv, InTransit, Processing
  <2>2. OriginInv
    BY <1>4 DEF OriginInv
  <2>3. ValueInv
    BY <1>4 DEF ValueInv, Init
  <2> QED
    BY <2>1, <2>2, <2>3 DEF ExecInv
<1>6. OwnInv
  <2>1. ASSUME NEW c \in Clients PROVE StreamInv(c)
    BY <1>4 DEF StreamInv, Init
  <2> QED
    BY <2>1 DEF OwnInv, Init
<1> QED
  BY <1>1, <1>2, <1>3, <1>5, <1>6 DEF RemoteInv

\* Every step of clients, threads and server keeps the invariant.
LEMMA RemoteInvStep == RemoteInv /\ [Next]_vars => RemoteInv'
<1> SUFFICES ASSUME TypeOK, LockInv, ServingInv, ExecInv, OwnInv, [Next]_vars PROVE RemoteInv'
  BY DEF RemoteInv
<1>1. TypeOK'
  BY TypeStep
<1>2. LockInv'
  BY LockStep
<1>3. ServingInv'
  BY ServantStep
<1>4. ExecInv'
  BY ExecStep
<1>5. OwnInv'
  BY OwnStep
<1> QED
  BY <1>1, <1>2, <1>3, <1>4, <1>5 DEF RemoteInv

\* At each step of the clients, of their threads, of signals and of the server:
\* the lock is held by the thread in a call (ScopedLock of remoteCall), the
\* Servant serves the one connection that is open at the server, the last unit
\* of a request is at one place, and the units on a connection that no signal
\* has cut are those of one message, numbered from where its receiver stands.
THEOREM RemoteInvariant == Spec => []RemoteInv
<1>1. Init => RemoteInv
  BY RemoteInvInit
<1>2. RemoteInv /\ [Next]_vars => RemoteInv'
  BY RemoteInvStep
<1> QED
  BY <1>1, <1>2, PTL DEF Spec

\* The units on a connection are those of one message, on one of its streams.
LEMMA OneStream ==
  ASSUME TypeOK, LockInv, NEW c \in Clients, StreamInv(c)
  PROVE  Same(up[c]) /\ Same(down[c]) /\ (up[c] = <<>> \/ down[c] = <<>>)
<1> DEFINE t == lock[c]
<1>1. CASE serverEnd[c] = "closed" \/ clientEnd[c] = "none"
  BY <1>1, EmptyStream DEF StreamInv, SeveredInv
<1>2. CASE serverEnd[c] # "closed" /\ clientEnd[c] = "closed"
  BY <1>2, EmptyStream DEF StreamInv, AbandonedInv
<1>3. CASE serverEnd[c] # "closed" /\ clientEnd[c] = "open"
  <2>1. OpenInv(c)
    BY <1>3 DEF StreamInv
  <2>2. CASE t = None
    BY <2>1, <2>2, EmptyStream DEF OpenInv, IdleInv
  <2>3. CASE t # None
    <3>1. t \in Threads /\ InCallInv(c, t) /\ t = lock[c]
      BY <2>1, <2>3 DEF OpenInv, TypeOK
    <3> HIDE DEF t
    <3>2. ClientOf[t] = c
      BY <2>3, <3>1 DEF LockInv
    <3>3. phase[t] # "idle"
      BY <3>1, <3>2 DEF LockInv
    <3>4. phase[t] \in {"send", "recv"}
      BY <3>1, <3>3 DEF TypeOK
    <3>5. (\E m, n : Uploading(c, m, n)) \/ Executing(c, t) \/ Answering(c, t) \/ Answered(c, t)
      BY <3>1, <3>4 DEF InCallInv
    <3>6. ASSUME NEW m, NEW n, Uploading(c, m, n) PROVE Same(up[c]) /\ down[c] = <<>>
      BY <3>6, FromIsSame DEF Uploading
    <3>7. Answering(c, t) => Same(down[c]) /\ up[c] = <<>>
      BY FromIsSame DEF Answering
    <3> QED
      BY <3>5, <3>6, <3>7, EmptyStream DEF Executing, Answered
  <2> QED
    BY <2>2, <2>3
<1> QED
  BY <1>1, <1>2, <1>3 DEF TypeOK, Ends

\* So that one message at most is on the connection.
LEMMA OneMessage ==
  ASSUME TypeOK, LockInv, NEW c \in Clients, StreamInv(c)
  PROVE  Cardinality(MessagesOn(c)) <= 1
<1> DEFINE M(s) == {s[i].message : i \in DOMAIN s}
<1>1. /\ up[c] \in Seq(Units) /\ down[c] \in Seq(Units)
      /\ Same(up[c]) /\ Same(down[c]) /\ (up[c] = <<>> \/ down[c] = <<>>)
  BY OneStream DEF TypeOK
<1>2. MessagesOn(c) = M(up[c]) \cup M(down[c])
  BY DEF MessagesOn
<1>3. M(<<>>) = {}
  OBVIOUS
<1>4. ASSUME NEW s \in Seq(Units), Same(s) PROVE M(s) = {} \/ \E m : M(s) = {m}
  <2>1. DOMAIN s = 1..Len(s)
    OBVIOUS
  <2>2. CASE M(s) # {}
    <3>1. PICK i \in DOMAIN s : TRUE
      BY <2>2
    <3>2. \A j \in DOMAIN s : s[j].message = s[i].message
      BY <1>4, <2>1 DEF Same
    <3>3. M(s) = {s[i].message}
      BY <3>2
    <3> QED
      BY <3>3
  <2> QED
    BY <2>2
<1> HIDE DEF M
<1>5. MessagesOn(c) = M(up[c]) \/ MessagesOn(c) = M(down[c])
  BY <1>1, <1>2, <1>3
<1>6. MessagesOn(c) = {} \/ \E m : MessagesOn(c) = {m}
  BY <1>1, <1>4, <1>5
<1>7. Cardinality(MessagesOn(c)) = 0 \/ Cardinality(MessagesOn(c)) = 1
  BY <1>6, FS_EmptySet, FS_Singleton
<1> QED
  BY <1>7

\* The lock of the Communicator associates each response with its request
\* (communicator.hpp:22): whatever the other clients do, and however many
\* threads share the connection, the response that remoteCall returns is the
\* one of its own call, one message at most travels on the connection, and the
\* Servant does not lose its place in the stream, unless a signal has cut a
\* call of that client.
THEOREM ResponseIsOwn == Spec => []OwnResponse
<1>1. RemoteInv => OwnResponse
  BY OneMessage DEF RemoteInv, OwnInv, OwnResponse
<1> QED
  BY <1>1, RemoteInvariant, PTL

\* Servant::run executes a request at most once, also when signals cut calls
\* short or clients die, and a response with a value is the one of a request
\* that was executed.
THEOREM ExecutesOnce == Spec => []ExecutedOnce
<1>1. ASSUME RemoteInv PROVE ExecutedOnce
  <2>1. ASSUME NEW k \in Calls PROVE executed[k] <= 1
    <3>1. PICK t \in Threads, n \in 1..MaxCalls : k = <<t, n>>
      BY DEF Calls
    <3> QED
      BY <1>1, <3>1 DEF RemoteInv, ExecInv, CallOfInv
  <2> QED
    BY <1>1, <2>1 DEF RemoteInv, ExecInv, ValueInv, HasRun, ExecutedOnce
<1> QED
  BY <1>1, RemoteInvariant, PTL
-----------------------------------------------------------------------------
(* The invariant of the servant, the objects and the call under way.       *)

\* Records with the members of a counter, of the modules and of a call.
IsCounter(c)  == c \in [kind : {c.kind}, last : {c.last}, at : {c.at}, cum : {c.cum}, dev : {c.dev}]
IsCounters(e) == e \in [plug : {e.plug}, cpus : {e.cpus}, memory : {e.memory}]
IsCpuFreq(f)  == f \in [domains : {f.domains}, boost : {f.boost}]
IsServant(s)  == s \in [status : {s.status}, energy : {s.energy}, topology : {s.topology}, cpufreq : {s.cpufreq}]
IsModules(c)  == c \in [topology : {c.topology}, energy : {c.energy}, cpufreq : {c.cpufreq}, counters : {c.counters}]
IsCall(c)     == c \in [op : {c.op}, k : {c.k}, todo : {c.todo}, sent : {c.sent}, arg : {c.arg}, acc : {c.acc},
                        counters : {c.counters}, from : {c.from}, was : {c.was}]

Kinds == [plug   |-> {"none", "smartpower2", "smartgauge", "amester", "file", "ina"},
          cpus   |-> {"none", "rapl"},
          memory |-> {"none", "dram", "amester"}]

\* The counters that the servant has found.
Found == {type \in CounterTypes : servant.energy[type].kind # "none"}

ServantInv ==
  /\ IsServant(servant) /\ IsCounters(servant.energy) /\ IsCpuFreq(servant.cpufreq)
  /\ \A type \in CounterTypes : IsCounter(servant.energy[type]) /\ servant.energy[type].kind \in Kinds[type]
  /\ \A type \in CounterTypes : NoDevice(servant.energy[type]) => machine.faults
  /\ servant.cpufreq.domains = machine.domains /\ (servant.cpufreq.boost = "unsupported" <=> machine.boost = "unsupported")

\* An object has counters that are there.
ObjectOk(c) == IsModules(c) /\ c.counters \subseteq Found
ObjectsInv == cl \in [Objects -> {cl[k] : k \in Objects}] /\ \A k \in Objects : ObjectOk(cl[k])

Constructors == {"newTopology", "newEnergy", "newCpuFreq"}
CapOps    == {"set", "setSocket", "setWindow", "rollback"}
Getters   == {"getJoules", "getJoulesComponents", "getJoulesCpuAll", "getJoulesCpu"}
UnitCmds  == {"Maximize", "Reset"}
BoostCmds == {"IsBoostingSupported", "IsBoostingEnabled", "EnableBoosting", "DisableBoosting"}
\* The requests that a remote topology sends when it is made.
TopologyReqs ==
  {CoreReq("GetTopology", 0)}
  \cup {CoreReq(cmd, v) : cmd \in {"IdleLevelsGet", "ResetIdleTime"}, v \in machine.cores}
  \cup {LevelReq(cmd, v, l) : cmd \in {"ResetTime", "ResetCount"}, v \in machine.cores, l \in machine.levels}

EnergyReqs(op) ==
  CASE op = "newEnergy" -> {EnergyReq("INIT", type) : type \in CounterTypes} \cup {EnergyReq("HAS", "cpus")}
                           \cup {EnergyReq("RESET", type) : type \in Found}
    [] op = "reset" -> {EnergyReq("RESET", type) : type \in Found}
    [] op \in Getters -> {EnergyReq("GET", type) : type \in Found}
    [] OTHER -> {}

CoreReqs(op) ==
  CASE op \in Constructors -> TopologyReqs
    [] op \in CoreCmds \ {"IdleLevelsGet"} -> {CoreReq(op, v) : v \in machine.cores}
    [] op \in LevelCmds -> {LevelReq(op, v, l) : v \in machine.cores, l \in machine.levels}
    [] op \in UnitCmds -> {UnitReq(op, type, id) : type \in {"physical", "virtual"}, id \in machine.cores}
                          \cup {UnitReq(op, type, 0) : type \in {"topology", "cpu"}}
    [] op \in CpuCmds -> {UnitReq(op, "cpu", 0)}
    [] OTHER -> {}

FreqReqs(op) ==
  IF op = "newCpuFreq" THEN {FreqReq("GetDomains", 0)} ELSE IF op \in BoostCmds THEN {FreqReq(op, 0)} ELSE {}

CapReqs(op) ==
  IF op \in CapOps
  THEN {CapReq(zone, i, s, cap) : zone \in Range(machine.zones), i \in {0, 1}, s \in 0..(machine.sockets - 1),
                                  cap \in [value : Nat, preparedOnly : BOOLEAN]}
  ELSE {}

\* The requests that an operation may still have to send.
ReqsOf(op) == EnergyReqs(op) \cup CoreReqs(op) \cup FreqReqs(op) \cup CapReqs(op)

\* The modules that answer.
Active == machine.mask \cup {"caps"}

\* The requests left are of modules that are activated, or the first one is not
\* answered.
CallInv ==
  /\ IsCall(call)
  /\ call.sent \in Nat
  /\ call.todo \in Seq(ReqsOf(call.op))
  /\ call.counters \subseteq Found
  /\ call.op \in {"none"} \cup CapOps \/ call.k \in Objects
  /\ \/ \A i \in DOMAIN call.todo : call.todo[i].module \in Active
     \/ call.sent = 0 /\ call.todo # <<>> /\ Head(call.todo).module \notin Active
  /\ call.op # "none" => last = NoResult

MachineInv == machine \in Machines /\ CheckDependencies(machine.mask)

Zones   == Range(machine.zones)
Sockets == 0..(machine.sockets - 1)
Caps    == [value : Nat, preparedOnly : BOOLEAN]

\* A rollback point is of one cap for both windows, as to whether it is enabled.
CapsInv ==
  /\ caps \in [Zones -> [Sockets -> [watts : [{0, 1} -> Nat], enabled : BOOLEAN]]]
  /\ point \in [Zones -> [Sockets -> [{0, 1} -> Caps]]]
  /\ \A zone \in Zones, s \in Sockets : point[zone][s][0].preparedOnly = point[zone][s][1].preparedOnly

\* The zones that a rollback, or a cap for all the sockets, is for, and what it
\* is to leave in a window.
AimZones == IF call.op = "rollback" THEN Zones ELSE {call.arg.zone}
Aim(zone, s, i) == IF call.op = "rollback" THEN point[zone][s][i]
                   ELSE [call.arg.cap EXCEPT !.value = @ \div machine.sockets]
AimReq(zone, s, i) == CapReq(zone, i, s, Aim(zone, s, i))

\* A window that is not as it is to be is still to be set; one that is not set
\* is as it was.
WalkInv ==
  /\ call.op \in {"set", "rollback"} =>
       /\ AimZones \subseteq Zones
       /\ \A n \in DOMAIN call.todo : \E zone \in AimZones, s \in Sockets, i \in {0, 1} : call.todo[n] = AimReq(zone, s, i)
       /\ \A zone \in AimZones, s \in Sockets, i \in {0, 1} :
            caps[zone][s].watts[i] = Aim(zone, s, i).value \/ \E n \in DOMAIN call.todo : call.todo[n] = AimReq(zone, s, i)
  /\ call.op = "rollback" =>
       /\ \A zone \in Zones, s \in Sockets, i \in {0, 1} :
            caps[zone][s].watts[i] \in {call.was[zone][s].watts[i], point[zone][s][i].value}
       /\ \A zone \in Zones, s \in Sockets :
            \/ caps[zone][s].enabled = ~point[zone][s][0].preparedOnly
            \/ \E n \in DOMAIN call.todo, i \in {0, 1} : call.todo[n] = AimReq(zone, s, i)

ProxyInv == MachineInv /\ ServantInv /\ ObjectsInv /\ CallInv /\ CapsInv /\ WalkInv

\* What the machines are.
LEMMA MachineFacts ==
  ASSUME MachineInv
  PROVE  IsMachine(machine) /\ machine.zones \in Seq(CounterTypes) /\ machine.sockets \in Nat \ {0}
  BY MachinesAssumption DEF MachineInv, IsMachine

\* What a remote topology asks for after an answer is of its construction.
LEMMA FollowFacts ==
  ASSUME MachineInv, NEW req \in TopologyReqs, NEW val,
         req.cmd = "GetTopology" => val = machine.cores, req.cmd = "IdleLevelsGet" => val = machine.levels
  PROVE  TopologyFollow(req, val) \in Seq(TopologyReqs)
<1>0. IsMachine(machine)
  BY MachineFacts
<1>1. CASE req.cmd = "GetTopology"
  <2> DEFINE f == [v \in machine.cores |-> NewCoreReqs(v)]
  <2>1. ASSUME NEW v \in machine.cores PROVE f[v] \in Seq(TopologyReqs)
    <3>1. CoreReq("IdleLevelsGet", v) \in TopologyReqs /\ CoreReq("ResetIdleTime", v) \in TopologyReqs
      BY DEF TopologyReqs
    <3> QED
      BY <3>1 DEF NewCoreReqs
  <2>2. FlattenSeq([i \in 1..Cardinality(machine.cores) |-> f[SetToSeq(machine.cores)[i]]]) \in Seq(TopologyReqs)
    <3> HIDE DEF f
    <3> QED
      BY <1>0, <2>1, EachFacts DEF IsMachine
  <2>3. [i \in 1..Cardinality(machine.cores) |-> f[SetToSeq(machine.cores)[i]]]
          = [i \in 1..Cardinality(machine.cores) |-> NewCoreReqs(SetToSeq(machine.cores)[i])]
    BY <1>0, RowFacts DEF IsMachine
  <2>4. TopologyFollow(req, val) = FlattenSeq([i \in 1..Cardinality(machine.cores) |-> NewCoreReqs(SetToSeq(machine.cores)[i])])
    BY <1>1 DEF TopologyFollow
  <2> QED
    BY <2>2, <2>3, <2>4
<1>2. CASE req.cmd = "IdleLevelsGet"
  <2> DEFINE f == [l \in machine.levels |-> NewLevelReqs(req.v, l)]
  <2>0. req.v \in machine.cores
    BY <1>2 DEF TopologyReqs, CoreReq, LevelReq
  <2>1. ASSUME NEW l \in machine.levels PROVE f[l] \in Seq(TopologyReqs)
    <3>1. LevelReq("ResetTime", req.v, l) \in TopologyReqs /\ LevelReq("ResetCount", req.v, l) \in TopologyReqs
      BY <2>0 DEF TopologyReqs
    <3> QED
      BY <3>1 DEF NewLevelReqs
  <2>2. FlattenSeq([i \in 1..Cardinality(machine.levels) |-> f[SetToSeq(machine.levels)[i]]]) \in Seq(TopologyReqs)
    <3> HIDE DEF f
    <3> QED
      BY <1>0, <2>1, EachFacts DEF IsMachine
  <2>3. [i \in 1..Cardinality(machine.levels) |-> f[SetToSeq(machine.levels)[i]]]
          = [i \in 1..Cardinality(machine.levels) |-> NewLevelReqs(req.v, SetToSeq(machine.levels)[i])]
    BY <1>0, RowFacts DEF IsMachine
  <2>4. TopologyFollow(req, val) = FlattenSeq([i \in 1..Cardinality(machine.levels) |-> NewLevelReqs(req.v, SetToSeq(machine.levels)[i])])
    BY <1>2 DEF TopologyFollow
  <2> QED
    BY <2>2, <2>3, <2>4
<1>3. CASE req.cmd \notin {"GetTopology", "IdleLevelsGet"}
  <2>1. TopologyFollow(req, val) = <<>>
    BY <1>3 DEF TopologyFollow
  <2> QED
    BY <2>1
<1> QED
  BY <1>1, <1>2, <1>3
-----------------------------------------------------------------------------
(* The answers of the modules.                                             *)

AllKinds == {"smartpower2", "smartgauge", "amester", "file", "ina", "rapl", "dram"}

SameCounter(d, c) == IsCounter(d) /\ d.kind = c.kind

\* A counter stays of its kind, and loses its device only where one may fail.
SameDevice(d, c) == SameCounter(d, c) /\ (NoDevice(d) => machine.faults)

\* An answer about a counter c keeps it, and is a failure for one of the known
\* reasons, or since the counter is not there.
OutcomeOk(o, cmd, type, c) ==
  /\ SameDevice(o.counter, c)
  /\ o.status \in {"ok", "thrown", "died", "stuck"}
  /\ o.status = "thrown" => (cmd = "HAS" /\ type # "cpus") \/ (machine.faults /\ <<cmd, c.kind>> \in KnownThrows)
  /\ o.status = "died" => (cmd # "INIT" /\ c.kind = "none") \/ (machine.faults /\ <<cmd, c.kind>> \in KnownEnds) \/ NoDevice(o.counter)
  /\ o.status = "stuck" => machine.eof /\ c.kind = "smartpower2"
  /\ cmd = "INIT" /\ o.status = "ok" /\ c.kind = "none" => o.val = FALSE

\* Counters with other values.
LEMMA CounterValues ==
  ASSUME NEW c, IsCounter(c), NEW x, NEW y
  PROVE  /\ SameCounter(c, c) /\ SameCounter([c EXCEPT !.last = x], c) /\ SameCounter([c EXCEPT !.at = x], c)
         /\ SameCounter([c EXCEPT !.dev = x], c) /\ SameCounter([c EXCEPT !.last = x, !.at = y], c)
         /\ SameCounter([c EXCEPT !.cum = x, !.at = y], c) /\ SameCounter([c EXCEPT !.last = x, !.dev = y], c)
         /\ SameCounter([c EXCEPT !.at = x, !.dev = y], c)
  BY DEF SameCounter, IsCounter

\* init() and reset() that succeed, and a reading.
LEMMA CounterFacts ==
  ASSUME NEW c, IsCounter(c), c.kind \in AllKinds, NoDevice(c) => machine.faults, NEW w, NEW m
  PROVE  /\ SameDevice(InitCounter(c, w), c)
         /\ SameDevice(ResetCounter(c, w), c)
         /\ \A r \in GetJoules(c, w, m) : SameDevice(r.counter, c)
<1>0. ASSUME NEW d, SameCounter(d, c), d.dev = c.dev \/ d.dev = TRUE PROVE SameDevice(d, c)
  BY <1>0 DEF SameDevice, SameCounter, NoDevice
<1>1. SameDevice(c, c)
  BY <1>0, CounterValues
<1>2. ASSUME NEW x, NEW y
      PROVE  /\ SameDevice([c EXCEPT !.last = x], c) /\ SameDevice([c EXCEPT !.at = x], c)
             /\ SameDevice([c EXCEPT !.last = x, !.at = y], c) /\ SameDevice([c EXCEPT !.cum = x, !.at = y], c)
             /\ SameDevice([c EXCEPT !.last = x, !.dev = TRUE], c) /\ SameDevice([c EXCEPT !.at = x, !.dev = TRUE], c)
  <2>1. /\ \A d \in {[c EXCEPT !.last = x], [c EXCEPT !.at = x], [c EXCEPT !.last = x, !.at = y], [c EXCEPT !.cum = x, !.at = y]} : d.dev = c.dev
        /\ \A d \in {[c EXCEPT !.last = x, !.dev = TRUE], [c EXCEPT !.at = x, !.dev = TRUE]} : d.dev = TRUE
    BY DEF IsCounter
  <2> QED
    BY <1>0, <2>1, CounterValues
<1>3. SameDevice(InitCounter(c, w), c)
  BY <1>1, <1>2 DEF AllKinds, InitCounter, InitAmester, InitSmartGauge, InitSmartPower2, InitFile, InitIna, ResetRapl, InitMemory
<1>4. SameDevice(ResetCounter(c, w), c)
  BY <1>1, <1>2 DEF AllKinds, ResetCounter, ResetAmester, ResetSmartGauge, ResetSmartPower2, ResetFile, ResetIna, ResetRapl
<1>5. ASSUME NEW r \in GetJoules(c, w, m) PROVE SameDevice(r.counter, c)
  <2>1. CASE c.kind \in {"amester", "smartgauge", "rapl", "dram"}
    <3>1. GetJoules(c, w, m) \in {{GetJoulesAmester(c, w)}, {GetJoulesSmartGauge(c, w)}, {GetJoulesRapl(c, w)}, {GetJoulesDram(c, w, m)}}
      BY <2>1 DEF GetJoules
    <3>2. r.counter = c
      BY <3>1 DEF GetJoulesAmester, GetJoulesSmartGauge, GetJoulesRapl, GetJoulesDram, Reading
    <3> QED
      BY <1>1, <3>2
  <2>2. CASE c.kind \in {"smartpower2", "file", "ina"}
    <3>1. \E watts : r \in {GetJoulesSmartPower2(c, w, watts), GetJoulesFile(c, w, watts), GetJoulesIna(c, w, watts)}
      BY <2>2 DEF GetJoules
    <3>2. PICK watts : r \in {GetJoulesSmartPower2(c, w, watts), GetJoulesFile(c, w, watts), GetJoulesIna(c, w, watts)}
      BY <3>1
    <3> DEFINE j == watts * (w.now - c.at)
    <3>3. r.counter = [c EXCEPT !.cum = c.cum + j, !.at = w.now]
      BY <3>2 DEF GetJoulesSmartPower2, GetJoulesFile, GetJoulesIna, Reading
    <3> HIDE DEF j
    <3>4. SameDevice([c EXCEPT !.cum = c.cum + j, !.at = w.now], c)
      BY <1>2
    <3> QED
      BY <3>3, <3>4
  <2> QED
    BY <2>1, <2>2 DEF AllKinds
<1> QED
  BY <1>3, <1>4, <1>5

\* What an operation of a counter comes to when something has failed.
LEMMA FailureFacts ==
  ASSUME NEW c, IsCounter(c), c.kind \in AllKinds, NoDevice(c) => machine.faults, machine.faults = TRUE, NEW w
  PROVE  /\ \A o \in InitFails(c, w) : \A type : OutcomeOk(o, "INIT", type, c)
         /\ \A o \in ResetFails(c, w) : \A type : OutcomeOk(o, "RESET", type, c)
         /\ \A o \in GetJoulesFails(c, machine) : \A type : OutcomeOk(o, "GET", type, c)
<1>1. ASSUME NEW d, SameCounter(d, c) PROVE SameDevice(d, c)
  BY <1>1 DEF SameDevice
<1>2. ASSUME NEW d, SameCounter(d, c), NEW cmd, NEW type, cmd = "INIT" => c.kind # "none"
      PROVE  /\ OutcomeOk(Unavailable(d), cmd, type, c)
             /\ <<cmd, c.kind>> \in KnownThrows => OutcomeOk(Throws(d), cmd, type, c)
             /\ <<cmd, c.kind>> \in KnownEnds => OutcomeOk(Dies(d), cmd, type, c)
  BY <1>1, <1>2 DEF OutcomeOk, Unavailable, Throws, Dies, Outcome
<1>3. \A x : /\ SameCounter(c, c) /\ SameCounter([c EXCEPT !.last = x], c) /\ SameCounter([c EXCEPT !.at = x], c)
             /\ SameCounter([c EXCEPT !.dev = x], c)
  BY CounterValues
<1>4. \A kind \in {"smartgauge", "rapl"}, cmd \in {"INIT", "RESET", "GET"} : <<cmd, kind>> \in KnownThrows
  BY DEF KnownThrows
<1>5. /\ <<"RESET", "dram">> \in KnownThrows /\ <<"GET", "dram">> \in KnownThrows /\ <<"INIT", "ina">> \in KnownThrows
      /\ <<"GET", "ina">> \in KnownThrows /\ <<"GET", "file">> \in KnownThrows
  BY DEF KnownThrows
<1>6. /\ \A cmd \in {"INIT", "RESET", "GET"} : <<cmd, "amester">> \in KnownEnds
      /\ <<"GET", "smartpower2">> \in KnownEnds /\ <<"GET", "file">> \in KnownEnds /\ <<"INIT", "smartgauge">> \in KnownEnds
  BY DEF KnownEnds
<1>7. c.kind # "none"
  BY DEF AllKinds
<1>8. ASSUME NEW o \in InitFails(c, w), NEW type PROVE OutcomeOk(o, "INIT", type, c)
  <2>1. CASE c.kind = "rapl"
    <3>1. o = Unavailable(c) \/ \E x : o = Throws([c EXCEPT !.last = x])
      BY <2>1 DEF InitFails, ResetCut
    <3> QED
      BY <1>2, <1>3, <1>4, <1>7, <2>1, <3>1
  <2>2. CASE c.kind = "smartgauge"
    <3>1. o \in {Unavailable([c EXCEPT !.dev = FALSE]), Throws([c EXCEPT !.dev = TRUE]), Dies(c)}
      BY <2>2 DEF InitFails
    <3> QED
      BY <1>2, <1>3, <1>4, <1>6, <1>7, <2>2, <3>1
  <2>3. CASE c.kind \notin {"rapl", "smartgauge"}
    <3>1. \/ o \in {Unavailable(c), Unavailable([c EXCEPT !.dev = FALSE]), Unavailable([c EXCEPT !.at = w.now])}
          \/ o = Dies(c) /\ c.kind = "amester"
          \/ o = Throws([c EXCEPT !.at = w.now]) /\ c.kind = "ina"
      BY <2>3 DEF InitFails, AllKinds
    <3> QED
      BY <1>2, <1>3, <1>5, <1>6, <1>7, <3>1
  <2> QED
    BY <2>1, <2>2, <2>3
<1>9. ASSUME NEW o \in ResetFails(c, w), NEW type PROVE OutcomeOk(o, "RESET", type, c)
  <2>1. \/ o = Dies(c) /\ c.kind = "amester"
        \/ o = Throws(c) /\ c.kind = "smartgauge"
        \/ c.kind \in {"rapl", "dram"} /\ \E x : o = Throws([c EXCEPT !.last = x])
    BY DEF ResetFails, ResetCut, AllKinds
  <2> QED
    BY <1>2, <1>3, <1>4, <1>5, <1>6, <2>1
<1>10. ASSUME NEW o \in GetJoulesFails(c, machine), NEW type PROVE OutcomeOk(o, "GET", type, c)
  <2>1. \/ o = Dies(c) /\ c.kind \in {"amester", "smartpower2", "file"}
        \/ o = Throws(c) /\ c.kind \in {"file", "smartgauge", "ina", "rapl", "dram"}
    BY DEF GetJoulesFails, AllKinds
  <2> QED
    BY <1>2, <1>3, <1>4, <1>5, <1>6, <2>1
<1> QED
  BY <1>8, <1>9, <1>10

\* Energy::processMessage(): the counters stay of their kinds, and a request
\* fails for a known reason only.
LEMMA EnergyAnswer ==
  ASSUME ServantInv, MachineInv, NEW type \in CounterTypes, NEW cmd \in {"INIT", "HAS", "RESET", "GET"},
         NEW o \in EnergyProcessMessage(EnergyReq(cmd, type), servant.energy, world, machine)
  PROVE  \E p : /\ OutcomeOk(p, cmd, type, servant.energy[type])
                /\ o = [module |-> [servant.energy EXCEPT ![type] = p.counter], status |-> p.status, val |-> p.val]
<1> DEFINE c == servant.energy[type]
           outcomes == CASE cmd = "INIT" -> InitMessage(c, world, machine)
                         [] cmd = "RESET" -> ResetMessage(c, world, machine)
                         [] cmd = "GET" -> GetMessage(type, c, world, machine)
                         [] cmd = "HAS" -> HasMessage(type, c, machine)
<1>1. IsCounter(c) /\ (c.kind # "none" => c.kind \in AllKinds) /\ (NoDevice(c) => machine.faults)
  BY DEF ServantInv, Kinds, AllKinds, CounterTypes
<1>2. PICK p \in outcomes : o = [module |-> [servant.energy EXCEPT ![type] = p.counter], status |-> p.status, val |-> p.val]
  BY DEF EnergyProcessMessage, EnergyReq
<1>f. machine.faults \in BOOLEAN
  BY MachineFacts DEF IsMachine
<1> HIDE DEF c
<1>3. SameDevice(c, c)
  BY <1>1, CounterValues DEF SameDevice
<1>4. ASSUME NEW d, SameDevice(d, c), NEW val, NEW a, a \in {"INIT", "RESET", "GET", "HAS"}, a = "INIT" => c.kind # "none" \/ val = FALSE
      PROVE  OutcomeOk(Outcome(d, "ok", val), a, type, c)
  BY <1>4 DEF OutcomeOk, Outcome
<1>5. ASSUME NEW a, a # "INIT", c.kind = "none" \/ NoDevice(c) PROVE OutcomeOk(Dies(c), a, type, c)
  BY <1>3, <1>5 DEF OutcomeOk, Dies, Outcome
<1>6. CASE cmd = "INIT"
  <2>1. p \in InitMessage(c, world, machine)
    BY <1>6
  <2>2. CASE c.kind = "none"
    <3>1. p = Outcome(c, "ok", FALSE)
      BY <2>1, <2>2 DEF InitMessage, NoCounterInit, Unavailable
    <3> QED
      BY <1>2, <1>3, <1>4, <1>6, <3>1 DEF c
  <2>3. CASE c.kind # "none"
    <3>1. p = Outcome(InitCounter(c, world), "ok", TRUE) \/ (machine.faults = TRUE /\ p \in InitFails(c, world))
      BY <1>f, <2>1, <2>3 DEF InitMessage, Faults
    <3>2. SameDevice(InitCounter(c, world), c)
      BY <1>1, <2>3, CounterFacts
    <3>3. OutcomeOk(p, cmd, type, c)
      BY <1>1, <1>4, <1>6, <2>3, <3>1, <3>2, FailureFacts
    <3> QED
      BY <1>2, <3>3 DEF c
  <2> QED
    BY <2>2, <2>3
<1>7. CASE cmd = "RESET"
  <2>1. p \in ResetMessage(c, world, machine)
    BY <1>7
  <2>2. CASE c.kind = "none" \/ NoDevice(c)
    <3>1. p = Dies(c)
      BY <2>1, <2>2 DEF ResetMessage
    <3> QED
      BY <1>2, <1>5, <1>7, <2>2, <3>1 DEF c
  <2>3. CASE c.kind # "none" /\ ~NoDevice(c)
    <3>1. p = Outcome(ResetCounter(c, world), "ok", TRUE) \/ (machine.faults = TRUE /\ p \in ResetFails(c, world))
      BY <1>f, <2>1, <2>3 DEF ResetMessage, Faults
    <3>2. SameDevice(ResetCounter(c, world), c)
      BY <1>1, <2>3, CounterFacts
    <3>3. OutcomeOk(p, cmd, type, c)
      BY <1>1, <1>4, <1>7, <2>3, <3>1, <3>2, FailureFacts
    <3> QED
      BY <1>2, <3>3 DEF c
  <2> QED
    BY <2>2, <2>3
<1>8. CASE cmd = "GET"
  <2>1. p \in GetMessage(type, c, world, machine)
    BY <1>8
  <2>2. CASE c.kind = "none" \/ NoDevice(c)
    <3>1. p = Dies(c)
      BY <2>1, <2>2 DEF GetMessage
    <3> QED
      BY <1>2, <1>5, <1>8, <2>2, <3>1 DEF c
  <2>3. CASE c.kind # "none" /\ ~NoDevice(c)
    <3>1. \/ \E r \in GetJoules(c, world, machine) : \E val : p = Outcome(r.counter, "ok", val)
          \/ machine.faults = TRUE /\ p \in GetJoulesFails(c, machine)
          \/ p = Outcome(c, "stuck", 0) /\ c.kind = "smartpower2" /\ machine.eof
      BY <1>f, <2>1, <2>3 DEF GetMessage, Faults
    <3>2. \A r \in GetJoules(c, world, machine) : SameDevice(r.counter, c)
      BY <1>1, <2>3, CounterFacts
    <3>3. CASE p = Outcome(c, "stuck", 0) /\ c.kind = "smartpower2" /\ machine.eof
      <4>1. OutcomeOk(p, cmd, type, c)
        BY <1>3, <3>3 DEF OutcomeOk, Outcome
      <4> QED
        BY <1>2, <4>1 DEF c
    <3>4. CASE ~(p = Outcome(c, "stuck", 0) /\ c.kind = "smartpower2" /\ machine.eof)
      <4>1. OutcomeOk(p, cmd, type, c)
        BY <1>1, <1>4, <1>8, <2>3, <3>1, <3>2, <3>4, FailureFacts
      <4> QED
        BY <1>2, <4>1 DEF c
    <3> QED
      BY <3>3, <3>4
  <2> QED
    BY <2>2, <2>3
<1>9. CASE cmd = "HAS"
  <2>1. p \in HasMessage(type, c, machine)
    BY <1>9
  <2>2. CASE type # "cpus"
    <3>1. p = Throws(c)
      BY <2>1, <2>2 DEF HasMessage
    <3>2. OutcomeOk(p, cmd, type, c)
      BY <1>3, <1>9, <2>2, <3>1 DEF OutcomeOk, Throws, Outcome
    <3> QED
      BY <1>2, <3>2 DEF c
  <2>3. CASE type = "cpus"
    <3>1. (p = Dies(c) /\ c.kind = "none") \/ p = Outcome(c, "ok", machine.has)
      BY <2>1, <2>3 DEF HasMessage
    <3>2. OutcomeOk(p, cmd, type, c)
      BY <1>3, <1>4, <1>5, <1>9, <3>1
    <3> QED
      BY <1>2, <3>2 DEF c
  <2> QED
    BY <2>2, <2>3
<1> QED
  BY <1>6, <1>7, <1>8, <1>9

\* The requests about frequencies are those of their operations.
LEMMA FreqReqFacts ==
  ASSUME NEW op, NEW req \in FreqReqs(op)
  PROVE  /\ req.module = "cpufreq" /\ req = FreqReq(req.cmd, req.arg)
         /\ op \in {"newCpuFreq"} \cup BoostCmds
         /\ op = "newCpuFreq" => req.cmd = "GetDomains"
         /\ op \in BoostCmds => req.cmd = op
  BY DEF FreqReqs, FreqReq, BoostCmds

\* A module of frequencies f after a request: its file is there as it was.
SameCpuFreq(f, g) == IsCpuFreq(f) /\ f.domains = g.domains /\ (f.boost = "unsupported" <=> g.boost = "unsupported")

FreqOutcome(o, op, req) ==
  /\ o.status \in {"ok", "died", "thrown"} /\ SameCpuFreq(o.module, servant.cpufreq)
  /\ o.status = "thrown" =>
       (op \in {"EnableBoosting", "DisableBoosting"} /\ machine.boost = "unsupported") \/ (machine.faults /\ machine.boost # "unsupported")
  /\ o.status = "died" => req.cmd = "GetDomains"

\* CpuFreq::processMessage(): it ends the server when it is asked for its
\* domains, and throws if there is no file to change boosting, or it has failed.
LEMMA FreqAnswer ==
  ASSUME ServantInv, NEW op, NEW req \in FreqReqs(op),
         NEW o \in {FreqProcessMessage(req, servant.cpufreq)} \cup FreqFaults(req, servant.cpufreq, machine)
  PROVE  FreqOutcome(o, op, req)
<1> DEFINE f == servant.cpufreq
           ok(val) == [module |-> f, status |-> "ok", val |-> val]
<1>0. o = FreqProcessMessage(req, f) \/ o \in FreqFaults(req, f, machine)
  OBVIOUS
<1>1. /\ IsCpuFreq(f) /\ (f.boost = "unsupported" <=> machine.boost = "unsupported")
      /\ \A g : SameCpuFreq(g, f) <=> SameCpuFreq(g, servant.cpufreq)
  BY DEF ServantInv
<1> HIDE DEF f
<1>2. SameCpuFreq(f, f)
  BY <1>1 DEF SameCpuFreq
<1>3. ASSUME NEW g, SameCpuFreq(g, f), NEW status \in {"ok", "died", "thrown"}, NEW val,
             status = "died" => req.cmd = "GetDomains",
             status = "thrown" =>
               (op \in {"EnableBoosting", "DisableBoosting"} /\ machine.boost = "unsupported") \/ (machine.faults /\ machine.boost # "unsupported"),
             o = [module |-> g, status |-> status, val |-> val]
      PROVE  FreqOutcome(o, op, req)
  BY <1>1, <1>3 DEF FreqOutcome
<1>4. req.cmd \in {"GetDomains"} \cup BoostCmds /\ (req.cmd \in BoostCmds => op = req.cmd)
  BY FreqReqFacts DEF BoostCmds
<1>5. CASE o \in FreqFaults(req, f, machine)
  <2>1. machine.faults /\ f.boost # "unsupported" /\ o = [module |-> f, status |-> "thrown", val |-> 0]
    BY <1>5 DEF FreqFaults, IsBoostingSupported
  <2> QED
    BY <1>1, <1>2, <1>3, <2>1
<1>6. CASE o = FreqProcessMessage(req, f)
  <2>1. CASE req.cmd = "GetDomains"
    <3>1. o \in {[module |-> f, status |-> "died", val |-> 0], ok(0)}
      BY <1>6, <2>1 DEF FreqProcessMessage
    <3> QED
      BY <1>2, <1>3, <2>1, <3>1
  <2>2. CASE req.cmd \in {"IsBoostingSupported", "IsBoostingEnabled"}
    <3>1. o \in {ok(IsBoostingSupported(f)), ok(IsBoostingEnabled(f))}
      BY <1>6, <2>2 DEF FreqProcessMessage
    <3> QED
      BY <1>2, <1>3, <3>1
  <2>3. CASE req.cmd \in {"EnableBoosting", "DisableBoosting"}
    <3>1. CASE f.boost = "unsupported"
      <4>1. o = [module |-> f, status |-> "thrown", val |-> 0]
        BY <1>6, <2>3, <3>1 DEF FreqProcessMessage, IsBoostingSupported
      <4>2. op \in {"EnableBoosting", "DisableBoosting"}
        BY <1>4, <2>3 DEF BoostCmds
      <4> QED
        BY <1>1, <1>2, <1>3, <3>1, <4>1, <4>2
    <3>2. CASE f.boost # "unsupported"
      <4>1. \E b \in {"enabled", "disabled"} : o = [module |-> WriteBoosting(f, b), status |-> "ok", val |-> 0]
        BY <1>6, <2>3, <3>2 DEF FreqProcessMessage, IsBoostingSupported
      <4>2. PICK b \in {"enabled", "disabled"} : o = [module |-> WriteBoosting(f, b), status |-> "ok", val |-> 0]
        BY <4>1
      <4>3. SameCpuFreq(WriteBoosting(f, b), f)
        BY <1>1, <3>2 DEF SameCpuFreq, WriteBoosting, IsCpuFreq
      <4> QED
        BY <1>3, <4>2, <4>3
    <3> QED
      BY <3>1, <3>2
  <2> QED
    BY <1>4, <2>1, <2>2, <2>3 DEF BoostCmds
<1> QED
  BY <1>0, <1>5, <1>6

\* The kinds of requests for the topology: of everything, of a core, of a level
\* of a core, of a unit that has cores, of the one processor.
OfCore(req)  == req.cmd \in CoreCmds /\ req.v \in machine.cores /\ req = CoreReq(req.cmd, req.v)
OfALevel(req) == req.cmd \in LevelCmds /\ req.v \in machine.cores /\ req.l \in machine.levels /\ req = LevelReq(req.cmd, req.v, req.l)
OfUnit(req)  == req.cmd \in UnitCmds /\ req = UnitReq(req.cmd, req.type, req.v) /\ UnitCores(req.type, req.v, machine) # {}
OfCpu(req)   == req.cmd \in CpuCmds /\ req.v = 0
OfAll(req)   == req = CoreReq("GetTopology", 0)

\* The requests of a remote topology that is made.
LEMMA TopologyReqFacts ==
  ASSUME NEW req \in TopologyReqs
  PROVE  /\ req.module = "topology" /\ (OfAll(req) \/ OfCore(req) \/ OfALevel(req))
         /\ req.cmd \in {"GetTopology", "IdleLevelsGet", "ResetIdleTime", "ResetTime", "ResetCount"}
<1>1. CASE req = CoreReq("GetTopology", 0)
  BY <1>1 DEF CoreReq, OfAll
<1>2. CASE req \in {CoreReq(cmd, v) : cmd \in {"IdleLevelsGet", "ResetIdleTime"}, v \in machine.cores}
  <2>1. PICK cmd \in {"IdleLevelsGet", "ResetIdleTime"}, v \in machine.cores : req = CoreReq(cmd, v)
    BY <1>2
  <2>2. req.cmd = cmd /\ req.v = v /\ req.module = "topology"
    BY <2>1 DEF CoreReq
  <2> QED
    BY <2>1, <2>2 DEF OfCore, CoreCmds
<1>3. CASE req \in {LevelReq(cmd, v, l) : cmd \in {"ResetTime", "ResetCount"}, v \in machine.cores, l \in machine.levels}
  <2>1. PICK cmd \in {"ResetTime", "ResetCount"}, v \in machine.cores, l \in machine.levels : req = LevelReq(cmd, v, l)
    BY <1>3
  <2>2. req.cmd = cmd /\ req.v = v /\ req.l = l /\ req.module = "topology"
    BY <2>1 DEF LevelReq
  <2> QED
    BY <2>1, <2>2 DEF OfALevel, LevelCmds
<1> QED
  BY <1>1, <1>2, <1>3 DEF TopologyReqs

\* The requests for the topology are those of their operations.
LEMMA CoreReqFacts ==
  ASSUME MachineInv, NEW op, NEW req \in CoreReqs(op)
  PROVE  /\ req.module = "topology"
         /\ OfAll(req) \/ OfCore(req) \/ OfALevel(req) \/ OfUnit(req) \/ OfCpu(req)
         /\ op \in Constructors => req \in TopologyReqs
         /\ op \notin Constructors => req.cmd = op /\ req.cmd \notin {"GetTopology", "IdleLevelsGet"}
<1>0. machine.cores # {}
  BY MachineFacts DEF IsMachine
<1>1. CASE op \in Constructors
  <2>1. CoreReqs(op) = TopologyReqs
    BY <1>1 DEF CoreReqs, Constructors, CoreCmds, LevelCmds, UnitCmds, CpuCmds
  <2> QED
    BY <1>1, <2>1, TopologyReqFacts
<1>2. CASE op \in CoreCmds \ {"IdleLevelsGet"}
  <2>1. CoreReqs(op) = {CoreReq(op, v) : v \in machine.cores} /\ op \notin Constructors /\ op # "GetTopology"
    BY <1>2 DEF CoreReqs, Constructors, CoreCmds, LevelCmds, UnitCmds, CpuCmds
  <2>2. PICK v \in machine.cores : req = CoreReq(op, v)
    BY <2>1
  <2>3. req.cmd = op /\ req.v = v /\ req.module = "topology"
    BY <2>2 DEF CoreReq
  <2> QED
    BY <1>2, <2>1, <2>2, <2>3 DEF OfCore
<1>3. CASE op \in LevelCmds
  <2>1. CoreReqs(op) = {LevelReq(op, v, l) : v \in machine.cores, l \in machine.levels} /\ op \notin Constructors /\ op \notin {"GetTopology", "IdleLevelsGet"}
    BY <1>3 DEF CoreReqs, Constructors, CoreCmds, LevelCmds, UnitCmds, CpuCmds
  <2>2. PICK v \in machine.cores, l \in machine.levels : req = LevelReq(op, v, l)
    BY <2>1
  <2>3. req.cmd = op /\ req.v = v /\ req.l = l /\ req.module = "topology"
    BY <2>2 DEF LevelReq
  <2> QED
    BY <1>3, <2>1, <2>2, <2>3 DEF OfALevel
<1>4. CASE op \in UnitCmds
  <2>1. /\ CoreReqs(op) = {UnitReq(op, type, id) : type \in {"physical", "virtual"}, id \in machine.cores}
                          \cup {UnitReq(op, type, 0) : type \in {"topology", "cpu"}}
        /\ op \notin Constructors /\ op \notin {"GetTopology", "IdleLevelsGet"}
    BY <1>4 DEF CoreReqs, Constructors, CoreCmds, LevelCmds, UnitCmds, CpuCmds
  <2>2. \/ \E type \in {"physical", "virtual"}, id \in machine.cores : req = UnitReq(op, type, id)
        \/ \E type \in {"topology", "cpu"} : req = UnitReq(op, type, 0)
    BY <2>1
  <2>3. PICK type, id : /\ req = UnitReq(op, type, id)
                        /\ (type \in {"physical", "virtual"} /\ id \in machine.cores) \/ (type \in {"topology", "cpu"} /\ id = 0)
    BY <2>2
  <2>4. req.cmd = op /\ req.type = type /\ req.v = id /\ req.module = "topology"
    BY <2>3 DEF UnitReq
  <2>5. UnitCores(type, id, machine) # {}
    BY <1>0, <2>3 DEF UnitCores
  <2> QED
    BY <1>4, <2>1, <2>3, <2>4, <2>5 DEF OfUnit
<1>5. CASE op \in CpuCmds
  <2>1. CoreReqs(op) = {UnitReq(op, "cpu", 0)} /\ op \notin Constructors /\ op \notin {"GetTopology", "IdleLevelsGet"}
    BY <1>5 DEF CoreReqs, Constructors, CoreCmds, LevelCmds, UnitCmds, CpuCmds
  <2>2. req.cmd = op /\ req.v = 0 /\ req.module = "topology"
    BY <2>1 DEF UnitReq
  <2> QED
    BY <1>5, <2>1, <2>2 DEF OfCpu
<1>6. op \in Constructors \cup (CoreCmds \ {"IdleLevelsGet"}) \cup LevelCmds \cup UnitCmds \cup CpuCmds
  BY DEF CoreReqs
<1> QED
  BY <1>1, <1>2, <1>3, <1>4, <1>5, <1>6

\* Topology::processMessage() throws when a level is enabled or disabled that
\* has no file for it, and at no other request of a client.
LEMMA TopologyMessage ==
  ASSUME MachineInv, NEW op, NEW req \in CoreReqs(op),
         NEW o, o = TopologyProcessMessage(req, servant.topology, world, machine)
  PROVE  /\ o.status \in {"ok", "thrown"}
         /\ o.status = "thrown" => op \in {"Enable", "Disable"} /\ ~IsEnableable(req.l, machine)
         /\ req.cmd = "GetTopology" => o.val = machine.cores
         /\ req.cmd = "IdleLevelsGet" => o.val = machine.levels
<1> DEFINE t == servant.topology
<1>0. /\ OfAll(req) \/ OfCore(req) \/ OfALevel(req) \/ OfUnit(req) \/ OfCpu(req)
      /\ op \notin Constructors => req.cmd = op
      /\ op \in Constructors => req.cmd \notin {"Enable", "Disable"}
  BY CoreReqFacts, TopologyReqFacts
<1> HIDE DEF t
<1>t. o = TopologyProcessMessage(req, t, world, machine)
  BY DEF t
<1>1. CASE OfAll(req)
  <2>1. req.cmd = "GetTopology"
    BY <1>1 DEF OfAll, CoreReq
  <2>2. o = Answer(t, world, "ok", machine.cores)
    BY <1>t, <2>1 DEF TopologyProcessMessage, CoreCmds, LevelCmds, CpuCmds
  <2> QED
    BY <2>1, <2>2 DEF Answer
<1>2. CASE OfCore(req)
  <2>1. o = CoreMessage(req, t, world, machine) /\ req.cmd # "GetTopology"
    BY <1>t, <1>2 DEF TopologyProcessMessage, CoreCmds, LevelCmds, OfCore
  <2>2. o.status = "ok" /\ (req.cmd = "IdleLevelsGet" => o.val = machine.levels)
    BY <1>2, <2>1 DEF CoreMessage, Answer, CoreCmds, OfCore
  <2> QED
    BY <2>1, <2>2
<1>3. CASE OfALevel(req)
  <2>1. o = LevelMessage(req, t, world, machine) /\ req.cmd \notin {"GetTopology", "IdleLevelsGet"}
    BY <1>t, <1>3 DEF TopologyProcessMessage, CoreCmds, LevelCmds, OfALevel
  <2>2. o.status \in {"ok", "thrown"} /\ (o.status = "thrown" => req.cmd \in {"Enable", "Disable"} /\ ~IsEnableable(req.l, machine))
    <3>0. req.cmd \in LevelCmds
      BY <1>3 DEF OfALevel
    <3>1. CASE req.cmd \in {"GetTime", "GetCount", "GetAbsTime", "GetAbsCount", "GetName", "IsEnableable", "IsEnabled"}
      <4>1. \E val : o = Answer(t, world, "ok", val)
        BY <2>1, <3>1 DEF LevelMessage
      <4> QED
        BY <4>1 DEF Answer
    <3>2. CASE req.cmd = "ResetTime"
      BY <2>1, <3>2 DEF LevelMessage, Answer
    <3>3. CASE req.cmd = "ResetCount"
      BY <2>1, <3>3 DEF LevelMessage, Answer
    <3>4. CASE req.cmd \in {"Enable", "Disable"}
      <4> DEFINE ok == Answer(t, world, "ok", 0)
      <4>1. ASSUME NEW set PROVE [ok EXCEPT !.world.disabled = set].status = "ok"
        BY DEF Answer
      <4>2. \/ o = Thrown(t, world) /\ ~IsEnableable(req.l, machine)
            \/ o = [ok EXCEPT !.world.disabled = world.disabled \ {<<req.v, req.l>>}]
            \/ o = [ok EXCEPT !.world.disabled = world.disabled \cup {<<req.v, req.l>>}]
        BY <2>1, <3>4 DEF LevelMessage
      <4>3. Thrown(t, world).status = "thrown"
        BY DEF Thrown, Answer
      <4> QED
        BY <3>4, <4>1, <4>2, <4>3
    <3> QED
      BY <3>0, <3>1, <3>2, <3>3, <3>4 DEF LevelCmds
  <2> QED
    BY <1>0, <2>1, <2>2
<1>4. CASE OfUnit(req)
  <2>1. o = SetUtilization(req, t, world, machine) /\ req.cmd \notin {"GetTopology", "IdleLevelsGet"}
    BY <1>t, <1>4 DEF TopologyProcessMessage, CoreCmds, LevelCmds, UnitCmds, OfUnit
  <2>2. o.status = "ok"
    BY <1>4, <2>1 DEF SetUtilization, Answer, OfUnit
  <2> QED
    BY <2>1, <2>2
<1>5. CASE OfCpu(req)
  <2>1. o = Answer(t, world, "ok", req.cmd) /\ req.cmd \notin {"GetTopology", "IdleLevelsGet"}
    BY <1>t, <1>5 DEF TopologyProcessMessage, CoreCmds, LevelCmds, CpuCmds, OfCpu
  <2> QED
    BY <2>1 DEF Answer
<1> QED
  BY <1>0, <1>1, <1>2, <1>3, <1>4, <1>5
\* With files that may fail there are more of its requests that throw, but none
\* of those that ask for what the server knows, and none that resets a unit.
LEMMA TopologyAnswer ==
  ASSUME MachineInv, NEW op, NEW req \in CoreReqs(op),
         NEW o, o \in {TopologyProcessMessage(req, servant.topology, world, machine)} \cup TopologyFaults(req, servant.topology, world, machine)
  PROVE  /\ o.status \in {"ok", "thrown"}
         /\ o.status = "thrown" => \/ op \in {"Enable", "Disable"} /\ ~IsEnableable(req.l, machine)
                                   \/ machine.faults /\ req.cmd \notin {"GetTopology", "IdleLevelsGet", "Reset"}
         /\ req.cmd = "GetTopology" /\ o.status = "ok" => o.val = machine.cores
         /\ req.cmd = "IdleLevelsGet" /\ o.status = "ok" => o.val = machine.levels
<1>1. CASE o = TopologyProcessMessage(req, servant.topology, world, machine)
  <2>1. /\ o.status \in {"ok", "thrown"}
        /\ o.status = "thrown" => op \in {"Enable", "Disable"} /\ ~IsEnableable(req.l, machine)
        /\ req.cmd = "GetTopology" => o.val = machine.cores
        /\ req.cmd = "IdleLevelsGet" => o.val = machine.levels
    BY <1>1, TopologyMessage
  <2> QED
    BY <2>1
<1>2. CASE o \in TopologyFaults(req, servant.topology, world, machine)
  <2>1. machine.faults /\ (ReadsFile(req, machine) \/ req.cmd = "Maximize")
    BY <1>2 DEF TopologyFaults
  <2>2. req.cmd \notin {"GetTopology", "IdleLevelsGet", "Reset"}
    BY <2>1 DEF ReadsFile, CpuCmds, LevelCmds
  <2>3. o = Thrown(servant.topology, world) \/ \E set : o = [Thrown(servant.topology, world) EXCEPT !.module.spin = set]
    BY <1>2 DEF TopologyFaults, MaximizeFails
  <2>4. o.status = "thrown"
    BY <2>3 DEF Thrown, Answer
  <2> QED
    BY <2>1, <2>2, <2>4
<1> QED
  BY <1>1, <1>2
\* The requests for counters are for those that are there, but for the ones
\* that ask whether it is.
LEMMA EnergyReqFacts ==
  ASSUME NEW op, NEW req \in EnergyReqs(op)
  PROVE  /\ req.module = "energy" /\ req.cmd \in {"INIT", "HAS", "RESET", "GET"} /\ req.type \in CounterTypes
         /\ req = EnergyReq(req.cmd, req.type)
         /\ req.cmd \in {"RESET", "GET"} => req.type \in Found
         /\ req.cmd = "HAS" => req.type = "cpus"
         /\ op \in {"newEnergy", "reset"} \cup Getters
         /\ op \in Getters <=> req.cmd = "GET"
<1>0. Found \subseteq CounterTypes /\ "cpus" \in CounterTypes
  BY DEF Found, CounterTypes
<1>1. CASE op = "newEnergy"
  <2>1. EnergyReqs(op) = {EnergyReq("INIT", type) : type \in CounterTypes} \cup {EnergyReq("HAS", "cpus")}
                         \cup {EnergyReq("RESET", type) : type \in Found}
    BY <1>1 DEF EnergyReqs, Getters
  <2>2. PICK cmd, type : /\ req = EnergyReq(cmd, type) /\ cmd \in {"INIT", "HAS", "RESET"} /\ type \in CounterTypes
                         /\ (cmd = "RESET" => type \in Found) /\ (cmd = "HAS" => type = "cpus")
    BY <1>0, <2>1
  <2> QED
    BY <1>1, <2>2 DEF EnergyReq, Getters
<1>2. CASE op = "reset"
  <2>1. EnergyReqs(op) = {EnergyReq("RESET", type) : type \in Found}
    BY <1>2 DEF EnergyReqs, Getters
  <2>2. PICK type \in Found : req = EnergyReq("RESET", type)
    BY <2>1
  <2> QED
    BY <1>0, <1>2, <2>2 DEF EnergyReq, Getters
<1>3. CASE op \in Getters
  <2>1. EnergyReqs(op) = {EnergyReq("GET", type) : type \in Found}
    BY <1>3 DEF EnergyReqs, Getters
  <2>2. PICK type \in Found : req = EnergyReq("GET", type)
    BY <2>1
  <2>3. req.module = "energy" /\ req.cmd = "GET" /\ req.type = type
    BY <2>2 DEF EnergyReq
  <2> QED
    BY <1>0, <1>3, <2>2, <2>3
<1> QED
  BY <1>1, <1>2, <1>3 DEF EnergyReqs

\* The requests for power caps.
LEMMA CapReqFacts ==
  ASSUME NEW op, NEW req \in CapReqs(op)
  PROVE  /\ op \in CapOps /\ req.module = "caps" /\ req = CapReq(req.zone, req.window, req.socket, req.cap)
         /\ req.zone \in Zones /\ req.window \in {0, 1} /\ req.socket \in Sockets /\ req.cap \in Caps
<1>1. op \in CapOps
  BY DEF CapReqs
<1>2. PICK zone \in Zones, i \in {0, 1}, s \in Sockets, cap \in Caps : req = CapReq(zone, i, s, cap)
  BY <1>1 DEF CapReqs, Zones, Sockets, Caps
<1> QED
  BY <1>1, <1>2 DEF CapReq

\* The operations that send the requests of a module.
LEMMA ReqFacts ==
  ASSUME MachineInv, NEW op, NEW req \in ReqsOf(op)
  PROVE  /\ req \in EnergyReqs(op) <=> req.module = "energy"
         /\ req \in CoreReqs(op) <=> req.module = "topology"
         /\ req \in FreqReqs(op) <=> req.module = "cpufreq"
         /\ req \in CapReqs(op) <=> req.module = "caps"
         /\ req.module \in {"energy", "topology", "cpufreq", "caps"}
<1>1. req \in EnergyReqs(op) => req.module = "energy"
  BY EnergyReqFacts
<1>2. req \in CoreReqs(op) => req.module = "topology"
  BY CoreReqFacts
<1>3. req \in FreqReqs(op) => req.module = "cpufreq"
  BY FreqReqFacts
<1>4. req \in CapReqs(op) => req.module = "caps"
  BY CapReqFacts
<1> QED
  BY <1>1, <1>2, <1>3, <1>4 DEF ReqsOf
-----------------------------------------------------------------------------
(* What Servant::run() leaves of the servant.                              *)

\* The modules of a servant s are those there are.
SameServant(s) ==
  /\ IsServant(s) /\ IsCounters(s.energy) /\ SameCpuFreq(s.cpufreq, servant.cpufreq)
  /\ \A type \in CounterTypes : SameDevice(s.energy[type], servant.energy[type])

\* The servant itself, in another state too.
LEMMA SameServantStatus ==
  ASSUME ServantInv, NEW s, SameServant(s), NEW status
  PROVE  SameServant([s EXCEPT !.status = status]) /\ SameServant(servant)
<1>1. SameServant(servant)
  BY DEF ServantInv, SameServant, SameDevice, SameCounter, SameCpuFreq
<1> DEFINE r == [s EXCEPT !.status = status]
<1>2. IsServant(r) /\ r.energy = s.energy /\ r.cpufreq = s.cpufreq
  BY DEF SameServant, IsServant
<1> HIDE DEF r
<1>3. SameServant(r)
  BY <1>2 DEF SameServant
<1> QED
  BY <1>1, <1>3 DEF r

\* A step that leaves such a servant keeps what the objects know of it.
LEMMA SameServantFacts ==
  ASSUME MachineInv, ServantInv, machine' = machine, SameServant(servant')
  PROVE  /\ ServantInv' /\ Found' = Found
         /\ \A type \in CounterTypes : servant'.energy[type].kind = servant.energy[type].kind
<1>1. \A type \in CounterTypes : SameDevice(servant'.energy[type], servant.energy[type])
  BY DEF SameServant
<1>2. \A type \in CounterTypes : IsCounter(servant'.energy[type]) /\ servant'.energy[type].kind = servant.energy[type].kind
  BY <1>1 DEF SameDevice, SameCounter
<1>3. \A type \in CounterTypes : NoDevice(servant'.energy[type]) => machine.faults
  BY <1>1, Zenon DEF SameDevice
<1>4. Found' = Found
  BY <1>2 DEF Found
<1>5. \A type \in CounterTypes : IsCounter(servant'.energy[type]) /\ servant'.energy[type].kind \in Kinds[type]
  BY <1>2 DEF ServantInv
<1>6. /\ IsServant(servant') /\ IsCounters(servant'.energy) /\ IsCpuFreq(servant'.cpufreq)
      /\ servant'.cpufreq.domains = machine.domains /\ (servant'.cpufreq.boost = "unsupported" <=> machine.boost = "unsupported")
  BY DEF ServantInv, SameServant, SameCpuFreq
<1>7. (\A type \in CounterTypes : NoDevice(servant.energy[type]) => machine.faults)'
  BY <1>3 DEF NoDevice
<1>8. ServantInv'
  BY <1>5, <1>6, <1>7 DEF ServantInv
<1> QED
  BY <1>2, <1>4, <1>8

\* A module that is not activated throws.
LEMMA AnswerOfNone ==
  ASSUME ServantInv, NEW req, req.module \notin Active, NEW o \in Answers(req)
  PROVE  SameServant(o.servant) /\ o.status = "thrown" /\ o.caps = caps /\ o.servant = servant
<1>1. o = [status |-> "thrown", val |-> 0, servant |-> servant, world |-> world, caps |-> caps]
  BY DEF Answers, Active
<1> QED
  BY <1>1, SameServantStatus DEF SameServant, ServantInv, SameDevice, SameCounter, SameCpuFreq

\* Power caps are no module of the servant.
LEMMA AnswerOfCaps ==
  ASSUME ServantInv, NEW req, req.module = "caps", NEW o \in Answers(req)
  PROVE  SameServant(o.servant) /\ o.servant = servant /\ \E c \in SetCap(req, caps) : o.status = c.status /\ o.caps = c.module
<1> DEFINE same(status) == [status |-> status, val |-> 0, servant |-> servant, world |-> world, caps |-> caps]
<1>1. Answers(req) = {[same(c.status) EXCEPT !.caps = c.module] : c \in SetCap(req, caps)}
  BY DEF Answers
<1>2. PICK c \in SetCap(req, caps) : o = [same(c.status) EXCEPT !.caps = c.module]
  BY <1>1
<1>3. o.status = c.status /\ o.caps = c.module /\ o.servant = servant
  BY <1>2
<1> QED
  BY <1>3 DEF SameServant, ServantInv, SameDevice, SameCounter, SameCpuFreq

\* Energy: the answer to a request for a counter c is a failure for a known
\* reason only.
EnergyServed(o, req) ==
  LET c == servant.energy[req.type]
      d == o.servant.energy[req.type]
  IN  /\ SameServant(o.servant) /\ o.caps = caps /\ o.status \in {"ok", "died", "stuck", "thrown"}
      /\ o.status = "thrown" => machine.faults /\ <<req.cmd, c.kind>> \in KnownThrows
      /\ o.status = "died" => \/ req.cmd = "HAS" /\ servant.energy.cpus.kind = "none"
                              \/ machine.faults /\ <<req.cmd, c.kind>> \in KnownEnds
                              \/ NoDevice(d)
      /\ o.status = "stuck" => machine.eof /\ servant.energy.plug.kind = "smartpower2"
      /\ req.cmd = "INIT" /\ o.status = "ok" /\ c.kind = "none" => o.val = FALSE

LEMMA AnswerOfEnergy ==
  ASSUME MachineInv, ServantInv, NEW op, NEW req \in EnergyReqs(op), "energy" \in machine.mask, NEW o \in Answers(req)
  PROVE  EnergyServed(o, req)
<1>1. /\ req.module = "energy" /\ req.cmd \in {"INIT", "HAS", "RESET", "GET"} /\ req.type \in CounterTypes
      /\ req = EnergyReq(req.cmd, req.type) /\ (req.cmd \in {"RESET", "GET"} => req.type \in Found) /\ (req.cmd = "HAS" => req.type = "cpus")
  BY EnergyReqFacts
<1> DEFINE of(a) == [status |-> a.status, val |-> a.val, servant |-> [servant EXCEPT !["energy"] = a.module], world |-> world, caps |-> caps]
<1>2. Answers(req) = {of(a) : a \in EnergyProcessMessage(req, servant.energy, world, machine)}
  BY <1>1 DEF Answers
<1>3. PICK a \in EnergyProcessMessage(req, servant.energy, world, machine) : o = of(a)
  BY <1>2
<1>4. o.status = a.status /\ o.val = a.val /\ o.servant = [servant EXCEPT !["energy"] = a.module] /\ o.caps = caps
  BY <1>3
<1>5. PICK p : /\ OutcomeOk(p, req.cmd, req.type, servant.energy[req.type])
               /\ a = [module |-> [servant.energy EXCEPT ![req.type] = p.counter], status |-> p.status, val |-> p.val]
  <2> DEFINE type == req.type
             cmd == req.cmd
  <2>1. type \in CounterTypes /\ cmd \in {"INIT", "HAS", "RESET", "GET"} /\ req = EnergyReq(cmd, type)
    BY <1>1
  <2>2. a \in EnergyProcessMessage(EnergyReq(cmd, type), servant.energy, world, machine)
    BY <2>1
  <2> HIDE DEF type, cmd
  <2>3. \E p : /\ OutcomeOk(p, cmd, type, servant.energy[type])
               /\ a = [module |-> [servant.energy EXCEPT ![type] = p.counter], status |-> p.status, val |-> p.val]
    BY <2>1, <2>2, EnergyAnswer
  <2> QED
    BY <2>3 DEF type, cmd
<1>6. SameDevice(p.counter, servant.energy[req.type]) /\ a.module = [servant.energy EXCEPT ![req.type] = p.counter] /\ a.status = p.status /\ a.val = p.val
  BY <1>5 DEF OutcomeOk
<1>7. IsCounters(a.module) /\ a.module[req.type] = p.counter /\ \A type \in CounterTypes : SameDevice(a.module[type], servant.energy[type])
  <2>1. IsCounters(servant.energy) /\ \A type \in CounterTypes : SameDevice(servant.energy[type], servant.energy[type])
    BY DEF ServantInv, SameDevice, SameCounter
  <2>2. \A type \in CounterTypes : a.module[type] = IF type = req.type THEN p.counter ELSE servant.energy[type]
    BY <1>1, <1>6, <2>1 DEF IsCounters, CounterTypes
  <2>3. IsCounters(a.module)
    BY <1>1, <1>6, <2>1 DEF IsCounters, CounterTypes
  <2> QED
    BY <1>1, <1>6, <2>1, <2>2, <2>3
<1>8. IsServant(o.servant) /\ o.servant.energy = a.module /\ o.servant.cpufreq = servant.cpufreq
  BY <1>4 DEF ServantInv, IsServant
<1>9. SameServant(o.servant)
  BY <1>7, <1>8 DEF SameServant, ServantInv, SameCpuFreq
<1>10. servant.energy[req.type].kind = "smartpower2" => req.type = "plug"
  BY <1>1 DEF ServantInv, Kinds, CounterTypes
<1>11. req.type \in Found => servant.energy[req.type].kind # "none"
  BY DEF Found
<1>12. o.servant.energy[req.type] = p.counter /\ o.status = p.status /\ o.val = p.val
  BY <1>4, <1>6, <1>7, <1>8
<1>13. /\ o.status \in {"ok", "thrown", "died", "stuck"}
       /\ o.status = "thrown" => machine.faults /\ <<req.cmd, servant.energy[req.type].kind>> \in KnownThrows
       /\ o.status = "died" => \/ req.cmd = "HAS" /\ servant.energy.cpus.kind = "none"
                               \/ machine.faults /\ <<req.cmd, servant.energy[req.type].kind>> \in KnownEnds
                               \/ NoDevice(p.counter)
       /\ o.status = "stuck" => machine.eof /\ servant.energy.plug.kind = "smartpower2"
       /\ req.cmd = "INIT" /\ o.status = "ok" /\ servant.energy[req.type].kind = "none" => o.val = FALSE
  BY <1>1, <1>5, <1>10, <1>11, <1>12 DEF OutcomeOk
<1> QED
  BY <1>4, <1>9, <1>12, <1>13 DEF EnergyServed

\* CpuFreq.
FreqServed(o, op, req) ==
  /\ SameServant(o.servant) /\ o.caps = caps /\ o.status \in {"ok", "died", "thrown"}
  /\ o.status = "thrown" =>
       (op \in {"EnableBoosting", "DisableBoosting"} /\ machine.boost = "unsupported") \/ (machine.faults /\ machine.boost # "unsupported")
  /\ o.status = "died" => req.cmd = "GetDomains"

LEMMA AnswerOfFreq ==
  ASSUME MachineInv, ServantInv, NEW op, NEW req \in FreqReqs(op), "cpufreq" \in machine.mask, NEW o \in Answers(req)
  PROVE  FreqServed(o, op, req)
<1>1. req.module = "cpufreq"
  BY FreqReqFacts
<1> DEFINE of(a) == [status |-> a.status, val |-> a.val, servant |-> [servant EXCEPT !["cpufreq"] = a.module], world |-> world, caps |-> caps]
           answers == {FreqProcessMessage(req, servant.cpufreq)} \cup FreqFaults(req, servant.cpufreq, machine)
<1>2. Answers(req) = {of(a) : a \in answers}
  BY <1>1 DEF Answers
<1> HIDE DEF answers
<1>3. PICK a \in answers : o = of(a)
  BY <1>2
<1>4. o.status = a.status /\ o.servant = [servant EXCEPT !["cpufreq"] = a.module] /\ o.caps = caps
  BY <1>3
<1>5. FreqOutcome(a, op, req)
  BY <1>3, FreqAnswer DEF answers
<1>6. IsServant(o.servant) /\ o.servant.energy = servant.energy /\ o.servant.cpufreq = a.module
  BY <1>4 DEF ServantInv, IsServant
<1>7. SameServant(o.servant)
  BY <1>5, <1>6 DEF SameServant, FreqOutcome, ServantInv, SameDevice, SameCounter
<1> QED
  BY <1>4, <1>5, <1>7 DEF FreqOutcome, FreqServed

\* Topology.
TopologyServed(o, op, req) ==
  /\ SameServant(o.servant) /\ o.caps = caps /\ o.status \in {"ok", "thrown"}
  /\ o.status = "thrown" => \/ op \in {"Enable", "Disable"} /\ ~IsEnableable(req.l, machine)
                            \/ machine.faults /\ req.cmd \notin {"GetTopology", "IdleLevelsGet", "Reset"}
  /\ req.cmd = "GetTopology" /\ o.status = "ok" => o.val = machine.cores
  /\ req.cmd = "IdleLevelsGet" /\ o.status = "ok" => o.val = machine.levels

LEMMA AnswerOfTopology ==
  ASSUME MachineInv, ServantInv, NEW op, NEW req \in CoreReqs(op), "topology" \in machine.mask, NEW o \in Answers(req)
  PROVE  TopologyServed(o, op, req)
<1>1. req.module = "topology"
  BY CoreReqFacts
<1> DEFINE r(a) == [status |-> a.status, val |-> a.val, servant |-> [servant EXCEPT !["topology"] = a.module], world |-> world, caps |-> caps]
           answers == {TopologyProcessMessage(req, servant.topology, world, machine)} \cup TopologyFaults(req, servant.topology, world, machine)
<1>2. Answers(req) = {[r(a) EXCEPT !.world = a.world] : a \in answers}
  BY <1>1 DEF Answers
<1> HIDE DEF answers
<1>3. PICK a \in answers : o = [r(a) EXCEPT !.world = a.world]
  BY <1>2
<1>4. o.status = a.status /\ o.val = a.val /\ o.servant = [servant EXCEPT !["topology"] = a.module] /\ o.caps = caps
  BY <1>3
<1>5. /\ a.status \in {"ok", "thrown"}
      /\ a.status = "thrown" => \/ op \in {"Enable", "Disable"} /\ ~IsEnableable(req.l, machine)
                                \/ machine.faults /\ req.cmd \notin {"GetTopology", "IdleLevelsGet", "Reset"}
      /\ req.cmd = "GetTopology" /\ a.status = "ok" => a.val = machine.cores
      /\ req.cmd = "IdleLevelsGet" /\ a.status = "ok" => a.val = machine.levels
  BY <1>3, TopologyAnswer DEF answers
<1>6. IsServant(o.servant) /\ o.servant.energy = servant.energy /\ o.servant.cpufreq = servant.cpufreq
  BY <1>4 DEF ServantInv, IsServant
<1>7. SameServant(o.servant)
  BY <1>6 DEF SameServant, ServantInv, SameDevice, SameCounter, SameCpuFreq
<1> QED
  BY <1>4, <1>5, <1>7 DEF TopologyServed

\* Whatever the request, the modules stay those they are, only a request for
\* power caps changes these.
LEMMA AnswerFacts ==
  ASSUME MachineInv, ServantInv, NEW op, NEW req \in ReqsOf(op), NEW o \in Answers(req)
  PROVE  /\ SameServant(o.servant) /\ o.status \in {"ok", "died", "stuck", "thrown"}
         /\ req.module # "caps" => o.caps = caps
         /\ req.module \notin Active => o.status = "thrown"
<1>1. CASE req.module \notin Active
  BY <1>1, AnswerOfNone
<1>2. CASE req.module = "caps"
  <2>1. \E c \in SetCap(req, caps) : o.status = c.status
    BY <1>2, AnswerOfCaps
  <2>2. o.status \in {"ok", "thrown"}
    BY <2>1 DEF SetCap
  <2> QED
    BY <1>2, <2>2, AnswerOfCaps DEF Active
<1>3. CASE req.module \in Active /\ req.module = "energy"
  <2>1. req \in EnergyReqs(op) /\ "energy" \in machine.mask
    BY <1>3, ReqFacts DEF Active
  <2> QED
    BY <1>3, <2>1, AnswerOfEnergy DEF EnergyServed
<1>4. CASE req.module \in Active /\ req.module = "cpufreq"
  <2>1. req \in FreqReqs(op) /\ "cpufreq" \in machine.mask
    BY <1>4, ReqFacts DEF Active
  <2> QED
    BY <1>4, <2>1, AnswerOfFreq DEF FreqServed
<1>5. CASE req.module \in Active /\ req.module = "topology"
  <2>1. req \in CoreReqs(op) /\ "topology" \in machine.mask
    BY <1>5, ReqFacts DEF Active
  <2> QED
    BY <1>5, <2>1, AnswerOfTopology DEF TopologyServed
<1> QED
  BY <1>1, <1>2, <1>3, <1>4, <1>5, ReqFacts
-----------------------------------------------------------------------------
(* A request is sent and answered.                                         *)

TodoAfter(o, req)     == IF o.status = "ok" THEN Follow(req, o.val) \o Tail(call.todo) ELSE <<>>
AccAfter(o, req)      == IF o.status = "ok" THEN Accumulate(req, o.val) ELSE 0
CountersAfter(o, req) == IF req.module = "energy" /\ req.cmd = "INIT" /\ o.val THEN call.counters \cup {req.type} ELSE call.counters

\* The call goes on, or it is done.
GoesOn(o, req) ==
  /\ TodoAfter(o, req) # <<>>
  /\ call' = [call EXCEPT !.todo = TodoAfter(o, req), !.sent = @ + 1, !.acc = AccAfter(o, req), !.counters = CountersAfter(o, req)]
  /\ cl' = cl /\ last' = last
Shares(due) == [i \in DOMAIN due |-> Share * due[i]]
IsDone(o, req) ==
  /\ TodoAfter(o, req) = <<>>
  /\ call' = NoCall
  /\ cl' = IF o.status = "ok" THEN Made(CountersAfter(o, req)) ELSE cl
  /\ last'.op = call.op /\ last'.k = call.k /\ last'.status = o.status /\ last'.val = AccAfter(o, req) /\ last'.req = req
  /\ last'.sent = call.sent /\ last'.was = call.was
  /\ last'.due = IF req.module = "energy" THEN Shares(Due(req, call.from)) ELSE Due(req, call.from)

ServeStep(o, req) ==
  /\ call.op # "none" /\ call.todo # <<>> /\ req = Head(call.todo) /\ o \in Answers(req)
  /\ servant' = IF o.status \in {"died", "stuck"} THEN [o.servant EXCEPT !.status = o.status] ELSE o.servant
  /\ caps' = o.caps /\ machine' = machine /\ point' = point /\ world' = o.world /\ own' = Owned(req, o)
  /\ GoesOn(o, req) \/ IsDone(o, req)

\* The answer to the request at the head of the call.
LEMMA ServeParts ==
  ASSUME Serve
  PROVE  \E o, req : ServeStep(o, req)
<1> DEFINE req == Head(call.todo)
<1>1. PICK o \in Answers(req) :
        LET todo == TodoAfter(o, req)
            due  == Due(req, call.from)
        IN  /\ servant' = IF o.status \in {"died", "stuck"} THEN [o.servant EXCEPT !.status = o.status] ELSE o.servant
            /\ world' = o.world /\ caps' = o.caps /\ own' = Owned(req, o)
            /\ IF todo # <<>>
               THEN /\ call' = [call EXCEPT !.todo = todo, !.sent = @ + 1, !.acc = AccAfter(o, req), !.counters = CountersAfter(o, req)]
                    /\ UNCHANGED <<cl, last>>
               ELSE /\ call' = NoCall
                    /\ cl' = IF o.status = "ok" THEN Made(CountersAfter(o, req)) ELSE cl
                    /\ last' = [op |-> call.op, k |-> call.k, status |-> o.status, val |-> AccAfter(o, req), req |-> req, sent |-> call.sent, was |-> call.was,
                                due |-> IF req.module = "energy" THEN [i \in DOMAIN due |-> Share * due[i]] ELSE due]
  BY Zenon DEF Serve, TodoAfter, AccAfter, CountersAfter
<1>2. call.op # "none" /\ call.todo # <<>> /\ machine' = machine /\ point' = point
  BY DEF Serve
<1>3. CASE TodoAfter(o, req) # <<>>
  <2>1. GoesOn(o, req)
    BY <1>1, <1>3 DEF GoesOn
  <2> QED
    BY <1>1, <1>2, <2>1 DEF ServeStep
<1>4. CASE TodoAfter(o, req) = <<>>
  <2>1. IsDone(o, req)
    BY <1>1, <1>4 DEF IsDone, Shares
  <2> QED
    BY <1>1, <1>2, <2>1 DEF ServeStep
<1> QED
  BY <1>3, <1>4

\* The requests of an operation depend on the counters found.
LEMMA SameReqs ==
  ASSUME machine' = machine, Found' = Found, NEW op, call'.op = op
  PROVE  ReqsOf(call.op)' = ReqsOf(op)
<1>1. EnergyReqs(call.op)' = EnergyReqs(op)
  BY DEF EnergyReqs
<1>2. TopologyReqs' = TopologyReqs
  BY DEF TopologyReqs
<1>3. CoreReqs(call.op)' = CoreReqs(op)
  BY <1>2 DEF CoreReqs
<1>4. FreqReqs(call.op)' = FreqReqs(op)
  BY DEF FreqReqs
<1>5. CapReqs(call.op)' = CapReqs(op)
  BY DEF CapReqs
<1> QED
  BY <1>1, <1>3, <1>4, <1>5 DEF ReqsOf

\* What the answer adds to the call is for the same module.
LEMMA FollowOk ==
  ASSUME ProxyInv, NEW o, NEW req, ServeStep(o, req), o.status = "ok"
  PROVE  /\ Follow(req, o.val) \in Seq(ReqsOf(call.op))
         /\ \A n \in DOMAIN Follow(req, o.val) : Follow(req, o.val)[n].module = req.module
<1>0. MachineInv /\ ServantInv /\ CallInv
  BY DEF ProxyInv
<1>1. req \in ReqsOf(call.op) /\ o \in Answers(req) /\ call.todo # <<>> /\ req = Head(call.todo)
  BY <1>0, TodoFacts DEF CallInv, ServeStep
<1>2. req.module \in Active
  BY <1>0, <1>1, AnswerFacts
<1>3. CASE req.module = "topology"
  <2>0. req \in CoreReqs(call.op) /\ "topology" \in machine.mask
    BY <1>0, <1>1, <1>2, <1>3, ReqFacts DEF Active
  <2>1. Follow(req, o.val) = TopologyFollow(req, o.val)
    BY <1>3 DEF Follow
  <2>2. CASE call.op \in Constructors
    <3>1. req \in TopologyReqs
      BY <1>0, <2>0, <2>2, CoreReqFacts
    <3>2. (req.cmd = "GetTopology" => o.val = machine.cores) /\ (req.cmd = "IdleLevelsGet" => o.val = machine.levels)
      BY <1>0, <1>1, <2>0, AnswerOfTopology DEF TopologyServed
    <3>3. Follow(req, o.val) \in Seq(TopologyReqs)
      BY <1>0, <2>1, <3>1, <3>2, FollowFacts
    <3>4. CoreReqs(call.op) = TopologyReqs
      BY <2>2 DEF CoreReqs, Constructors, CoreCmds, LevelCmds, UnitCmds, CpuCmds
    <3>5. TopologyReqs \subseteq ReqsOf(call.op)
      BY <3>4 DEF ReqsOf
    <3>6. \A r \in TopologyReqs : r.module = "topology"
      BY TopologyReqFacts
    <3> HIDE DEF TopologyReqs
    <3> QED
      BY <1>3, <3>3, <3>5, <3>6
  <2>3. CASE call.op \notin Constructors
    <3>1. req.cmd \notin {"GetTopology", "IdleLevelsGet"}
      BY <1>0, <2>0, <2>3, CoreReqFacts
    <3>2. Follow(req, o.val) = <<>>
      BY <2>1, <3>1 DEF TopologyFollow
    <3> QED
      BY <3>2
  <2> QED
    BY <2>2, <2>3
<1>4. CASE req.module # "topology" /\ call.op = "newEnergy" /\ req.cmd = "INIT" /\ req.type = "plug" /\ o.val
  <2>1. req \in EnergyReqs(call.op) /\ "energy" \in machine.mask
    <3>1. req \notin FreqReqs(call.op) /\ req \notin CapReqs(call.op)
      BY <1>4, FreqReqFacts, CapReqFacts DEF CapOps, BoostCmds
    <3> QED
      BY <1>0, <1>1, <1>2, <1>4, <3>1, ReqFacts DEF Active
  <2>2. "plug" \in Found /\ req.module = "energy"
    <3>1. EnergyServed(o, req)
      BY <1>0, <1>1, <2>1, AnswerOfEnergy
    <3>2. servant.energy.plug.kind # "none"
      BY <1>4, <3>1 DEF EnergyServed
    <3>3. "plug" \in Found
      BY <3>2 DEF Found, CounterTypes
    <3> QED
      BY <2>1, <3>3, EnergyReqFacts
  <2>3. EnergyReq("RESET", "plug") \in EnergyReqs(call.op) /\ EnergyReq("RESET", "plug").module = "energy"
    <3>1. {EnergyReq("RESET", type) : type \in Found} \subseteq EnergyReqs("newEnergy")
      BY DEF EnergyReqs, Getters
    <3>2. EnergyReq("RESET", "plug") \in EnergyReqs("newEnergy")
      BY <2>2, <3>1
    <3> QED
      BY <1>4, <3>2 DEF EnergyReq
  <2>4. Follow(req, o.val) = <<EnergyReq("RESET", "plug")>>
    BY <1>4 DEF Follow
  <2>5. EnergyReq("RESET", "plug") \in ReqsOf(call.op)
    BY <2>3 DEF ReqsOf
  <2> QED
    BY <2>2, <2>3, <2>4, <2>5
<1>5. CASE req.module # "topology" /\ ~(call.op = "newEnergy" /\ req.cmd = "INIT" /\ req.type = "plug" /\ o.val)
  <2>1. Follow(req, o.val) = <<>>
    BY <1>5 DEF Follow
  <2> QED
    BY <2>1
<1> QED
  BY <1>3, <1>4, <1>5
\* The request, the answer and the servant that it leaves.
LEMMA ServeFacts ==
  ASSUME ProxyInv, NEW o, NEW req, ServeStep(o, req)
  PROVE  /\ MachineInv /\ ServantInv /\ ObjectsInv /\ CallInv /\ CapsInv /\ WalkInv
         /\ req \in ReqsOf(call.op) /\ o \in Answers(req) /\ machine' = machine
         /\ SameServant(o.servant) /\ SameServant(servant') /\ o.status \in {"ok", "died", "stuck", "thrown"}
         /\ servant'.energy = o.servant.energy /\ servant'.cpufreq = o.servant.cpufreq
         /\ req.module \notin Active => o.status = "thrown" /\ call.sent = 0
         /\ last = NoResult
<1>0. MachineInv /\ ServantInv /\ ObjectsInv /\ CallInv /\ CapsInv /\ WalkInv
  BY DEF ProxyInv
<1>1. /\ req \in ReqsOf(call.op) /\ o \in Answers(req) /\ call.todo # <<>> /\ req = Head(call.todo) /\ req = call.todo[1]
      /\ 1 \in DOMAIN call.todo
  BY <1>0, TodoFacts DEF CallInv, ServeStep
<1>2. SameServant(o.servant) /\ o.status \in {"ok", "died", "stuck", "thrown"} /\ (req.module \notin Active => o.status = "thrown")
  BY <1>0, <1>1, AnswerFacts
<1>3. servant' = o.servant \/ servant' = [o.servant EXCEPT !.status = o.status]
  BY DEF ServeStep
<1>4. SameServant(servant')
  BY <1>0, <1>2, <1>3, SameServantStatus
<1>5. servant'.energy = o.servant.energy /\ servant'.cpufreq = o.servant.cpufreq
  BY <1>2, <1>3 DEF SameServant, IsServant
<1>6. req.module \notin Active => call.sent = 0
  BY <1>0, <1>1 DEF CallInv
<1>7. last = NoResult /\ machine' = machine
  BY <1>0 DEF CallInv, ServeStep
<1> QED
  BY <1>0, <1>1, <1>2, <1>4, <1>5, <1>6, <1>7

\* Nothing is under way.
LEMMA NoCallOk ==
  ASSUME call' = NoCall
  PROVE  CallInv'
<1>1. IsCall(call') /\ call'.op = "none" /\ call'.sent = 0 /\ call'.todo = <<>> /\ call'.counters = {}
  BY DEF NoCall, IsCall
<1> QED
  BY <1>1 DEF CallInv

\* A constructor has found counters that are there.
LEMMA CountersOk ==
  ASSUME ProxyInv, NEW o, NEW req, ServeStep(o, req), o.status = "ok"
  PROVE  CountersAfter(o, req) \subseteq Found
<1>0. MachineInv /\ ServantInv /\ CallInv /\ req \in ReqsOf(call.op) /\ o \in Answers(req) /\ req.module \in Active
  BY ServeFacts
<1>1. CASE req.module = "energy" /\ req.cmd = "INIT" /\ o.val
  <2>1. req \in EnergyReqs(call.op) /\ "energy" \in machine.mask
    BY <1>0, <1>1, ReqFacts DEF Active
  <2>2. EnergyServed(o, req)
    BY <1>0, <2>1, AnswerOfEnergy
  <2>3. req.type \in CounterTypes
    BY <2>1, EnergyReqFacts
  <2>4. servant.energy[req.type].kind # "none"
    BY <1>1, <2>2 DEF EnergyServed
  <2>5. req.type \in Found
    BY <2>3, <2>4 DEF Found
  <2> QED
    BY <1>0, <2>5 DEF CallInv, CountersAfter
<1>2. CASE ~(req.module = "energy" /\ req.cmd = "INIT" /\ o.val)
  BY <1>0, <1>2 DEF CallInv, CountersAfter
<1> QED
  BY <1>1, <1>2

\* The call that goes on.
LEMMA ServeCall ==
  ASSUME ProxyInv, NEW o, NEW req, ServeStep(o, req)
  PROVE  CallInv'
<1>0. /\ MachineInv /\ ServantInv /\ CallInv /\ SameServant(servant') /\ machine' = machine /\ req \in ReqsOf(call.op)
      /\ o \in Answers(req) /\ (req.module \notin Active => o.status = "thrown")
  BY ServeFacts
<1>1. CASE IsDone(o, req)
  BY <1>1, NoCallOk DEF IsDone
<1>2. CASE GoesOn(o, req)
  <2> DEFINE todo == TodoAfter(o, req)
             X == ReqsOf(call.op)
  <2>1. o.status = "ok" /\ todo = Follow(req, o.val) \o Tail(call.todo)
    BY <1>2 DEF GoesOn, TodoAfter
  <2>2. Follow(req, o.val) \in Seq(X) /\ \A n \in DOMAIN Follow(req, o.val) : Follow(req, o.val)[n].module = req.module
    BY <2>1, FollowOk
  <2>3. call.todo \in Seq(X) /\ call.todo # <<>> /\ Tail(call.todo) \in Seq(X)
    BY <1>0, TodoFacts DEF CallInv, ServeStep
  <2>4. req.module \in Active /\ req = Head(call.todo)
    BY <1>0, <2>1 DEF ServeStep
  <2>5. \A n \in DOMAIN call.todo : call.todo[n].module \in Active
    BY <1>0, <2>4 DEF CallInv
  <2>6. \A n \in DOMAIN Tail(call.todo) : Tail(call.todo)[n].module \in Active
    BY <2>3, <2>5, TodoFacts
  <2> HIDE DEF X
  <2>7. todo \in Seq(X) /\ \A n \in DOMAIN todo : todo[n].module \in Active
    <3> DEFINE s == Follow(req, o.val)
               t == Tail(call.todo)
    <3>1. s \in Seq(X) /\ t \in Seq(X) /\ todo = s \o t /\ (\A n \in DOMAIN s : s[n].module \in Active) /\ \A n \in DOMAIN t : t[n].module \in Active
      BY <2>1, <2>2, <2>3, <2>4, <2>6
    <3> HIDE DEF s, t, todo
    <3>2. \A n \in DOMAIN todo : IF n <= Len(s) THEN n \in DOMAIN s /\ todo[n] = s[n]
                                 ELSE n - Len(s) \in DOMAIN t /\ todo[n] = t[n - Len(s)]
      BY <3>1
    <3> QED
      BY <3>1, <3>2
  <2> HIDE DEF todo
  <2>8. call' = [call EXCEPT !.todo = todo, !.sent = @ + 1, !.acc = AccAfter(o, req), !.counters = CountersAfter(o, req)]
    BY <1>2 DEF GoesOn, todo
  <2>9. /\ IsCall(call') /\ call'.op = call.op /\ call'.k = call.k /\ call'.todo = todo /\ call'.sent = call.sent + 1
        /\ call'.counters = CountersAfter(o, req)
    BY <1>0, <2>8 DEF CallInv, IsCall
  <2>10. Found' = Found /\ cl' = cl /\ last' = last
    BY <1>0, <1>2, SameServantFacts DEF GoesOn
  <2>11. ReqsOf(call.op)' = X
    BY <1>0, <2>9, <2>10, SameReqs DEF X
  <2>12. CountersAfter(o, req) \subseteq Found
    BY <2>1, CountersOk
  <2>13. Active' = Active
    BY <1>0 DEF Active
  <2>14. \A n \in DOMAIN call'.todo : call'.todo[n].module \in Active'
    BY <2>7, <2>9, <2>13
  <2>15. call'.sent \in Nat /\ call'.todo \in Seq(ReqsOf(call.op)') /\ call'.counters \subseteq Found'
    BY <1>0, <2>7, <2>9, <2>10, <2>11, <2>12 DEF CallInv
  <2>16. /\ call'.op \in {"none"} \cup CapOps \/ call'.k \in Objects
         /\ call'.op # "none" => last' = NoResult
    BY <1>0, <2>9, <2>10 DEF CallInv
  <2> QED
    BY <2>9, <2>14, <2>15, <2>16 DEF CallInv
<1> QED
  BY <1>1, <1>2 DEF ServeStep
\* What an object has stays true of a servant that is the same.
LEMMA ObjectKept ==
  ASSUME MachineInv, ServantInv, machine' = machine, SameServant(servant')
  PROVE  \A c : ObjectOk(c) => ObjectOk(c)'
<1>1. Found' = Found
  BY SameServantFacts
<1> QED
  BY <1>1 DEF ObjectOk

\* An object that has one thing more than before.
LEMMA ObjectChanged ==
  ASSUME NEW c, ObjectOk(c), NEW counters, counters \subseteq Found
  PROVE  /\ ObjectOk([c EXCEPT !.topology = TRUE]) /\ ObjectOk([c EXCEPT !.energy = TRUE, !.counters = counters])
         /\ ObjectOk([c EXCEPT !.cpufreq = TRUE])
  BY DEF ObjectOk, IsModules

\* The objects after a change of one of them.
LEMMA OneObject ==
  ASSUME ObjectsInv, NEW k \in Objects, NEW c, cl' = [cl EXCEPT ![k] = c], \A x : ObjectOk(x) => ObjectOk(x)', ObjectOk(c)'
  PROVE  ObjectsInv'
<1>1. cl' \in [Objects -> {cl'[j] : j \in Objects}] /\ \A j \in Objects : cl'[j] = IF j = k THEN c ELSE cl[j]
  BY DEF ObjectsInv
<1>2. \A j \in Objects : ObjectOk(cl[j])'
  <2> TAKE j \in Objects
  <2>1. CASE j = k
    BY <1>1, <2>1 DEF ObjectOk
  <2>2. CASE j # k
    <3>1. ObjectOk(cl[j])
      BY DEF ObjectsInv
    <3> QED
      BY <1>1, <2>2, <3>1 DEF ObjectOk
  <2> QED
    BY <2>1, <2>2
<1> QED
  BY <1>1, <1>2 DEF ObjectsInv
\* The objects that a call leaves.
LEMMA ServeObjects ==
  ASSUME ProxyInv, NEW o, NEW req, ServeStep(o, req)
  PROVE  ObjectsInv'
<1>0. /\ MachineInv /\ ServantInv /\ ObjectsInv /\ CallInv /\ SameServant(servant') /\ machine' = machine /\ req \in ReqsOf(call.op)
      /\ o \in Answers(req) /\ (req.module \notin Active => o.status = "thrown") /\ servant'.cpufreq = o.servant.cpufreq
  BY ServeFacts
<1>1. \A c : ObjectOk(c) => ObjectOk(c)'
  BY <1>0, ObjectKept
<1>2. CASE cl' = cl
  <2>1. \A k \in Objects : ObjectOk(cl[k])
    BY <1>0 DEF ObjectsInv
  <2>2. \A k \in Objects : ObjectOk(cl[k])'
    BY <1>1, <1>2, <2>1 DEF ObjectOk
  <2> QED
    BY <1>0, <1>2, <2>2 DEF ObjectsInv
<1>3. CASE cl' # cl
  <2>1. o.status = "ok" /\ cl' = Made(CountersAfter(o, req))
    BY <1>3 DEF ServeStep, GoesOn, IsDone
  <2>2. call.op \in Constructors
    BY <1>3, <2>1 DEF Made, Constructors
  <2>3. call.k \in Objects /\ req.module \in Active
    BY <1>0, <2>1, <2>2 DEF CallInv, Constructors, CapOps
  <2>4. PICK c : c = cl[call.k]
    OBVIOUS
  <2>5. ObjectOk(c) /\ cl \in [Objects -> {cl[j] : j \in Objects}]
    BY <1>0, <2>3, <2>4 DEF ObjectsInv
  <2>6. CountersAfter(o, req) \subseteq Found
    BY <2>1, CountersOk
  <2>7. \E x : ObjectOk(x) /\ cl' = [cl EXCEPT ![call.k] = x]
    <3>1. CASE call.op = "newTopology"
      <4>1. cl' = [cl EXCEPT ![call.k] = [c EXCEPT !.topology = TRUE]]
        BY <2>1, <2>3, <2>4, <2>5, <3>1 DEF Made
      <4> QED
        BY <2>5, <2>6, <4>1, ObjectChanged
    <3>2. CASE call.op = "newEnergy"
      <4>1. cl' = [cl EXCEPT ![call.k] = [c EXCEPT !.energy = TRUE, !.counters = CountersAfter(o, req)]]
        BY <2>1, <2>3, <2>4, <2>5, <3>2 DEF Made
      <4> QED
        BY <2>5, <2>6, <4>1, ObjectChanged
    <3>3. CASE call.op = "newCpuFreq"
      <4>1. cl' = [cl EXCEPT ![call.k] = [c EXCEPT !.cpufreq = TRUE]]
        BY <2>1, <2>3, <2>4, <2>5, <3>3 DEF Made
      <4> QED
        BY <2>5, <2>6, <4>1, ObjectChanged
    <3> QED
      BY <2>2, <3>1, <3>2, <3>3 DEF Constructors
  <2>8. PICK x : ObjectOk(x) /\ cl' = [cl EXCEPT ![call.k] = x]
    BY <2>7
  <2>9. ObjectOk(x)'
    BY <1>1, <2>8
  <2> QED
    BY <1>0, <1>1, <2>3, <2>8, <2>9, OneObject
<1> QED
  BY <1>2, <1>3
-----------------------------------------------------------------------------
(* What the last call came to.                                             *)

\* A call that has not ended, or one that has ended well, has not failed.
LEMMA NoFailure ==
  ASSUME last'.status \in {"ok", "pointer thrown"}
  PROVE  FailuresAreKnown'
  BY DEF FailuresAreKnown

\* A call fails in the ways known.
LEMMA ServeFailures ==
  ASSUME ProxyInv, NEW o, NEW req, ServeStep(o, req)
  PROVE  FailuresAreKnown'
<1>0. /\ MachineInv /\ ServantInv /\ CallInv /\ SameServant(servant') /\ machine' = machine /\ req \in ReqsOf(call.op)
      /\ o \in Answers(req) /\ (req.module \notin Active => o.status = "thrown" /\ call.sent = 0) /\ last = NoResult
      /\ o.status \in {"ok", "died", "stuck", "thrown"} /\ servant'.energy = o.servant.energy
  BY ServeFacts
<1>1. CASE GoesOn(o, req)
  BY <1>0, <1>1, NoFailure DEF GoesOn, NoResult
<1>2. CASE IsDone(o, req)
  <2>0. \A type \in CounterTypes : servant'.energy[type].kind = servant.energy[type].kind
    BY <1>0, SameServantFacts
  <2>1. /\ last'.op = call.op /\ last'.status = o.status /\ last'.req = req /\ last'.sent = call.sent
        /\ servant'.energy.cpus.kind = servant.energy.cpus.kind /\ servant'.energy.plug.kind = servant.energy.plug.kind
    BY <1>2, <2>0 DEF IsDone, CounterTypes
  <2>2. CASE req.module \notin Active
    BY <1>0, <2>1, <2>2 DEF FailuresAreKnown, Active
  <2>3. CASE req.module = "caps"
    <3>1. req \in CapReqs(call.op)
      BY <1>0, <2>3, ReqFacts
    <3>2. call.op \in CapOps
      BY <3>1, CapReqFacts
    <3>3. \E c \in SetCap(req, caps) : o.status = c.status
      BY <1>0, <2>3, AnswerOfCaps
    <3>4. o.status \in {"ok", "thrown"}
      BY <3>3 DEF SetCap
    <3> QED
      BY <2>1, <3>2, <3>4 DEF FailuresAreKnown, CapOps
  <2>4. CASE req.module \in Active /\ req.module = "energy"
    <3>1. req \in EnergyReqs(call.op) /\ "energy" \in machine.mask
      BY <1>0, <2>4, ReqFacts DEF Active
    <3>2. EnergyServed(o, req) /\ req.type \in CounterTypes
      BY <1>0, <3>1, AnswerOfEnergy, EnergyReqFacts
    <3> DEFINE c == servant'.energy[req.type]
    <3>3. c.kind = servant.energy[req.type].kind /\ c = o.servant.energy[req.type] /\ machine'.faults = machine.faults /\ machine'.eof = machine.eof
      BY <1>0, <2>0, <3>2
    <3>4. /\ o.status = "thrown" => machine'.faults /\ <<req.cmd, c.kind>> \in KnownThrows
          /\ o.status = "died" => \/ req.cmd = "HAS" /\ servant'.energy.cpus.kind = "none"
                                  \/ machine'.faults /\ <<req.cmd, c.kind>> \in KnownEnds
                                  \/ NoDevice(c)
          /\ o.status = "stuck" => machine'.eof /\ servant'.energy.plug.kind = "smartpower2"
      BY <2>1, <3>2, <3>3, Zenon DEF EnergyServed
    <3>5. NoDevice(c) => machine'.faults /\ c.kind = "smartgauge" /\ ~c.dev
      <4>1. SameDevice(servant'.energy[req.type], servant.energy[req.type])
        BY <1>0, <3>2 DEF SameServant
      <4> QED
        BY <1>0, <4>1, Zenon DEF SameDevice, NoDevice
    <3>6. /\ last'.status = o.status /\ last'.req.module = "energy" /\ last'.req.cmd = req.cmd /\ servant'.energy[last'.req.type] = c
      BY <2>1, <2>4
    <3>7. KnownThrows' = KnownThrows /\ KnownEnds' = KnownEnds
      BY DEF KnownThrows, KnownEnds
    <3> HIDE DEF c
    <3>8. CASE o.status = "ok"
      BY <3>6, <3>8, NoFailure
    <3>9. CASE o.status = "thrown"
      BY <3>4, <3>6, <3>7, <3>9 DEF FailuresAreKnown
    <3>10. CASE o.status = "died"
      BY <3>4, <3>5, <3>6, <3>7, <3>10 DEF FailuresAreKnown
    <3>11. CASE o.status = "stuck"
      BY <3>4, <3>6, <3>11 DEF FailuresAreKnown
    <3> QED
      BY <1>0, <3>8, <3>9, <3>10, <3>11
  <2>5. CASE req.module \in Active /\ req.module = "cpufreq"
    <3>1. req \in FreqReqs(call.op) /\ "cpufreq" \in machine.mask
      BY <1>0, <2>5, ReqFacts DEF Active
    <3>2. FreqServed(o, call.op, req)
      BY <1>0, <3>1, AnswerOfFreq
    <3> QED
      BY <1>0, <2>1, <2>5, <3>2 DEF FailuresAreKnown, FreqServed
  <2>6. CASE req.module \in Active /\ req.module = "topology"
    <3>1. req \in CoreReqs(call.op) /\ "topology" \in machine.mask
      BY <1>0, <2>6, ReqFacts DEF Active
    <3>2. TopologyServed(o, call.op, req)
      BY <1>0, <3>1, AnswerOfTopology
    <3>3. IsEnableable(last.req.l, machine)' = IsEnableable(req.l, machine)
      BY <1>0, <2>1 DEF IsEnableable
    <3> QED
      BY <1>0, <2>1, <2>6, <3>2, <3>3 DEF FailuresAreKnown, TopologyServed
  <2> QED
    BY <1>0, <2>2, <2>3, <2>4, <2>5, <2>6, ReqFacts
<1> QED
  BY <1>1, <1>2 DEF ServeStep
-----------------------------------------------------------------------------
(* Power caps.                                                             *)

IsCaps(f, Z, S) == f \in [Z -> [S -> [watts : [{0, 1} -> Nat], enabled : BOOLEAN]]]

Changed(g, f, X, Z, S, zone, socket, q) ==
  g \in [Z -> [S -> X]] /\ \A z \in Z, s \in S : g[z][s] = IF z = zone /\ s = socket THEN q ELSE f[z][s]

\* One of the values of f is changed.
LEMMA OneChanged ==
  ASSUME NEW X, NEW Z, NEW S, NEW f \in [Z -> [S -> X]], NEW zone \in Z, NEW socket \in S, NEW q \in X,
         NEW g, g = [f EXCEPT ![zone] = [f[zone] EXCEPT ![socket] = q]]
  PROVE  Changed(g, f, X, Z, S, zone, socket, q)
<1> DEFINE h == [f[zone] EXCEPT ![socket] = q]
<1>1. h \in [S -> X] /\ \A s \in S : h[s] = IF s = socket THEN q ELSE f[zone][s]
  OBVIOUS
<1>2. g = [f EXCEPT ![zone] = h]
  OBVIOUS
<1> HIDE DEF h
<1>3. g \in [Z -> [S -> X]] /\ \A z \in Z : g[z] = IF z = zone THEN h ELSE f[z]
  BY <1>1, <1>2
<1> QED
  BY <1>1, <1>3 DEF Changed

WattsAre(g, f, Z, S, zone, socket, window, x) ==
  /\ IsCaps(g, Z, S)
  /\ \A z \in Z, s \in S : g[z][s].enabled = f[z][s].enabled
  /\ \A z \in Z, s \in S, i \in {0, 1} :
       g[z][s].watts[i] = IF z = zone /\ s = socket /\ i = window THEN x ELSE f[z][s].watts[i]
EnabledIs(g, f, Z, S, zone, socket, x) ==
  /\ IsCaps(g, Z, S)
  /\ \A z \in Z, s \in S : g[z][s].watts = f[z][s].watts
  /\ \A z \in Z, s \in S : g[z][s].enabled = IF z = zone /\ s = socket THEN x ELSE f[z][s].enabled

\* PowerCapperLinux::set(): what it leaves of the windows.
LEMMA WattsSet ==
  ASSUME NEW Z, NEW S, NEW f, IsCaps(f, Z, S), NEW zone \in Z, NEW socket \in S, NEW window \in {0, 1}, NEW x \in Nat,
         NEW g, g = [f EXCEPT ![zone][socket].watts[window] = x]
  PROVE  WattsAre(g, f, Z, S, zone, socket, window, x)
<1> DEFINE X == [watts : [{0, 1} -> Nat], enabled : BOOLEAN]
           r == f[zone][socket]
           q == [r EXCEPT !.watts[window] = x]
<1>1. r \in X /\ f \in [Z -> [S -> X]]
  BY DEF IsCaps
<1>2. q \in X /\ q.enabled = r.enabled /\ \A i \in {0, 1} : q.watts[i] = IF i = window THEN x ELSE r.watts[i]
  BY <1>1
<1>3. g = [f EXCEPT ![zone] = [f[zone] EXCEPT ![socket] = q]]
  BY DEF IsCaps
<1>4. \A h : h \in [Z -> [S -> X]] => IsCaps(h, Z, S)
  BY DEF IsCaps
<1> HIDE DEF q, X
<1>5. g \in [Z -> [S -> X]] /\ \A z \in Z, s \in S : g[z][s] = IF z = zone /\ s = socket THEN q ELSE f[z][s]
  <2>1. Changed(g, f, X, Z, S, zone, socket, q)
    BY <1>1, <1>2, <1>3, OneChanged
  <2> QED
    BY <2>1 DEF Changed
<1>6. \A z \in Z, s \in S : g[z][s].enabled = f[z][s].enabled
  BY <1>2, <1>5
<1>7. \A z \in Z, s \in S, i \in {0, 1} : g[z][s].watts[i] = IF z = zone /\ s = socket /\ i = window THEN x ELSE f[z][s].watts[i]
  BY <1>2, <1>5
<1> QED
  BY <1>4, <1>5, <1>6, <1>7 DEF WattsAre

\* What it leaves of whether they are enabled.
LEMMA EnabledSet ==
  ASSUME NEW Z, NEW S, NEW f, IsCaps(f, Z, S), NEW zone \in Z, NEW socket \in S, NEW x \in BOOLEAN,
         NEW g, g = [f EXCEPT ![zone][socket].enabled = x]
  PROVE  EnabledIs(g, f, Z, S, zone, socket, x)
<1> DEFINE X == [watts : [{0, 1} -> Nat], enabled : BOOLEAN]
           r == f[zone][socket]
           q == [r EXCEPT !.enabled = x]
<1>1. r \in X /\ f \in [Z -> [S -> X]]
  BY DEF IsCaps
<1>2. q \in X /\ q.enabled = x /\ q.watts = r.watts
  BY <1>1
<1>3. g = [f EXCEPT ![zone] = [f[zone] EXCEPT ![socket] = q]]
  BY DEF IsCaps
<1>4. \A h : h \in [Z -> [S -> X]] => IsCaps(h, Z, S)
  BY DEF IsCaps
<1> HIDE DEF q, X
<1>5. g \in [Z -> [S -> X]] /\ \A z \in Z, s \in S : g[z][s] = IF z = zone /\ s = socket THEN q ELSE f[z][s]
  <2>1. Changed(g, f, X, Z, S, zone, socket, q)
    BY <1>1, <1>2, <1>3, OneChanged
  <2> QED
    BY <2>1 DEF Changed
<1>6. \A z \in Z, s \in S : g[z][s].watts = f[z][s].watts
  BY <1>2, <1>5
<1>7. \A z \in Z, s \in S : g[z][s].enabled = IF z = zone /\ s = socket THEN x ELSE f[z][s].enabled
  BY <1>2, <1>5
<1> QED
  BY <1>4, <1>5, <1>6, <1>7 DEF EnabledIs

\* The caps g that a request may leave of f.
CapDone(g, f, req) ==
  /\ \A z \in Zones, s \in Sockets, i \in {0, 1} :
       g[z][s].watts[i] = IF z = req.zone /\ s = req.socket /\ i = req.window THEN req.cap.value ELSE f[z][s].watts[i]
  /\ \A z \in Zones, s \in Sockets : g[z][s].enabled = IF z = req.zone /\ s = req.socket THEN ~req.cap.preparedOnly ELSE f[z][s].enabled
CapTried(g, f, req) ==
  \A z \in Zones, s \in Sockets, i \in {0, 1} :
    g[z][s].watts[i] = f[z][s].watts[i] \/ (z = req.zone /\ s = req.socket /\ i = req.window /\ g[z][s].watts[i] = req.cap.value)

\* A request for a window of a socket of a zone.
IsCapReq(req) == req.zone \in Zones /\ req.window \in {0, 1} /\ req.socket \in Sockets /\ req.cap \in Caps

\* Setting a cap writes its window and the flag of its socket, or part of it
\* where it fails, and nothing else.
LEMMA SetCapFacts ==
  ASSUME CapsInv, NEW req, IsCapReq(req), NEW c \in SetCap(req, caps)
  PROVE  /\ IsCaps(c.module, Zones, Sockets) /\ c.status \in {"ok", "thrown"}
         /\ CapTried(c.module, caps, req)
         /\ c.status = "ok" => CapDone(c.module, caps, req)
<1> DEFINE limited == [caps EXCEPT ![req.zone][req.socket].watts[req.window] = req.cap.value]
           enabled == [limited EXCEPT ![req.zone][req.socket].enabled = ~req.cap.preparedOnly]
<1>0. /\ req.cap.value \in Nat /\ (~req.cap.preparedOnly) \in BOOLEAN /\ IsCaps(caps, Zones, Sockets)
      /\ req.zone \in Zones /\ req.socket \in Sockets /\ req.window \in {0, 1}
  BY DEF IsCapReq, Caps, CapsInv, IsCaps
<1>a. limited = [caps EXCEPT ![req.zone][req.socket].watts[req.window] = req.cap.value]
  OBVIOUS
<1>b. c \in {[module |-> caps, status |-> "thrown", val |-> 0], [module |-> limited, status |-> "thrown", val |-> 0],
             [module |-> enabled, status |-> "ok", val |-> 0]}
  BY DEF SetCap
<1> HIDE DEF limited
<1>1. WattsAre(limited, caps, Zones, Sockets, req.zone, req.socket, req.window, req.cap.value)
  BY <1>0, <1>a, WattsSet
<1>2. EnabledIs(enabled, limited, Zones, Sockets, req.zone, req.socket, ~req.cap.preparedOnly)
  <2> DEFINE x == ~req.cap.preparedOnly
  <2>1. enabled = [limited EXCEPT ![req.zone][req.socket].enabled = x] /\ x \in BOOLEAN /\ IsCaps(limited, Zones, Sockets)
    BY <1>0, <1>1 DEF WattsAre
  <2> HIDE DEF x, enabled
  <2>2. EnabledIs(enabled, limited, Zones, Sockets, req.zone, req.socket, x)
    BY <1>0, <2>1, EnabledSet
  <2> QED
    BY <2>2 DEF x
<1> HIDE DEF enabled
<1>4. CASE c.module = caps /\ c.status = "thrown"
  BY <1>0, <1>4 DEF CapTried
<1>5. CASE c.module = limited /\ c.status = "thrown"
  BY <1>1, <1>5 DEF CapTried, WattsAre
<1>6. CASE c.module = enabled /\ c.status = "ok"
  <2>1. CapTried(c.module, caps, req)
    BY <1>1, <1>2, <1>6 DEF CapTried, WattsAre, EnabledIs
  <2>2. CapDone(c.module, caps, req)
    BY <1>1, <1>2, <1>6 DEF CapDone, WattsAre, EnabledIs
  <2> QED
    BY <1>2, <1>6, <2>1, <2>2 DEF EnabledIs
<1> QED
  BY <1>b, <1>4, <1>5, <1>6
\* What the requests of T are still to do, once the caps are g.
LeftToDo(g, T) ==
  /\ \A zone \in AimZones, s \in Sockets, i \in {0, 1} :
       g[zone][s].watts[i] = Aim(zone, s, i).value \/ \E n \in DOMAIN T : T[n] = AimReq(zone, s, i)
  /\ call.op = "rollback" =>
       \A zone \in Zones, s \in Sockets :
         \/ g[zone][s].enabled = ~point[zone][s][0].preparedOnly
         \/ \E n \in DOMAIN T, i \in {0, 1} : T[n] = AimReq(zone, s, i)
AsItWas(g) ==
  call.op = "rollback" =>
    \A zone \in Zones, s \in Sockets, i \in {0, 1} : g[zone][s].watts[i] \in {call.was[zone][s].watts[i], point[zone][s][i].value}

\* The members of a request for a cap.
LEMMA AimReqFacts ==
  ASSUME NEW zone, NEW s, NEW i, NEW req, req = AimReq(zone, s, i)
  PROVE  req.module = "caps" /\ req.zone = zone /\ req.socket = s /\ req.window = i /\ req.cap = Aim(zone, s, i)
  BY DEF AimReq, CapReq

\* The request at the head of the call does its part.
LEMMA ServeWalk ==
  ASSUME ProxyInv, NEW o, NEW req, ServeStep(o, req), call.op \in {"set", "rollback"}
  PROVE  /\ req.module = "caps" /\ req.zone \in AimZones /\ AsItWas(caps')
         /\ o.status = "ok" => LeftToDo(caps', Tail(call.todo))
         /\ o.status \in {"ok", "thrown"}
         /\ call.op = "set" => req.cap = Aim(req.zone, 0, 0)
<1>0. /\ MachineInv /\ ServantInv /\ CallInv /\ CapsInv /\ WalkInv /\ o \in Answers(req) /\ req \in ReqsOf(call.op)
      /\ caps' = o.caps /\ call.todo \in Seq(ReqsOf(call.op)) /\ call.todo # <<>> /\ req = Head(call.todo)
  BY ServeFacts DEF ServeStep, CallInv
<1> DEFINE T == Tail(call.todo)
<1>1. /\ req = call.todo[1] /\ 1 \in DOMAIN call.todo
      /\ \A n \in DOMAIN call.todo : n = 1 \/ (n - 1 \in DOMAIN T /\ T[n - 1] = call.todo[n])
  BY <1>0, TodoFacts
<1> HIDE DEF T
<1>2. PICK z0 \in AimZones, s0 \in Sockets, i0 \in {0, 1} : req = AimReq(z0, s0, i0)
  <2>1. \A n \in DOMAIN call.todo : \E zone \in AimZones, s \in Sockets, i \in {0, 1} : call.todo[n] = AimReq(zone, s, i)
    BY <1>0 DEF WalkInv
  <2> QED
    BY <1>1, <2>1
<1>3. req.module = "caps" /\ req.zone = z0 /\ req.socket = s0 /\ req.window = i0 /\ req.cap = Aim(z0, s0, i0)
  BY <1>2, AimReqFacts
<1>4. req \in CapReqs(call.op)
  BY <1>0, <1>3, ReqFacts
<1>5. IsCapReq(req)
  BY <1>4, CapReqFacts DEF IsCapReq
<1>6. PICK c \in SetCap(req, caps) : o.status = c.status /\ o.caps = c.module
  BY <1>0, <1>3, AnswerOfCaps
<1>7. CapTried(caps', caps, req) /\ o.status \in {"ok", "thrown"} /\ (o.status = "ok" => CapDone(caps', caps, req))
  BY <1>0, <1>5, <1>6, SetCapFacts
<1>8. AsItWas(caps')
  <2> SUFFICES ASSUME call.op = "rollback", NEW zone \in Zones, NEW s \in Sockets, NEW i \in {0, 1}
               PROVE  caps'[zone][s].watts[i] \in {call.was[zone][s].watts[i], point[zone][s][i].value}
    BY DEF AsItWas
  <2>1. caps[zone][s].watts[i] \in {call.was[zone][s].watts[i], point[zone][s][i].value}
    BY <1>0 DEF WalkInv
  <2>2. \/ caps'[zone][s].watts[i] = caps[zone][s].watts[i]
        \/ zone = z0 /\ s = s0 /\ i = i0 /\ caps'[zone][s].watts[i] = req.cap.value
    BY <1>3, <1>7 DEF CapTried
  <2>3. req.cap = point[z0][s0][i0]
    BY <1>3 DEF Aim
  <2> QED
    BY <2>1, <2>2, <2>3
<1>9. ASSUME o.status = "ok" PROVE LeftToDo(caps', T)
  <2>1. ASSUME NEW zone \in AimZones, NEW s \in Sockets, NEW i \in {0, 1}
        PROVE  caps'[zone][s].watts[i] = Aim(zone, s, i).value \/ \E n \in DOMAIN T : T[n] = AimReq(zone, s, i)
    <3>0. zone \in Zones
      BY <1>0 DEF WalkInv
    <3>1. CASE zone = z0 /\ s = s0 /\ i = i0
      <4>1. caps'[zone][s].watts[i] = req.cap.value
        BY <1>3, <1>7, <1>9, <3>0, <3>1 DEF CapDone
      <4> QED
        BY <1>3, <3>1, <4>1
    <3>2. CASE ~(zone = z0 /\ s = s0 /\ i = i0)
      <4>1. caps'[zone][s].watts[i] = caps[zone][s].watts[i]
        BY <1>3, <1>7, <1>9, <3>0, <3>2 DEF CapDone
      <4>2. caps[zone][s].watts[i] = Aim(zone, s, i).value \/ \E n \in DOMAIN call.todo : call.todo[n] = AimReq(zone, s, i)
        BY <1>0 DEF WalkInv
      <4>3. req # AimReq(zone, s, i)
        BY <1>3, <3>2, AimReqFacts
      <4> QED
        BY <1>1, <4>1, <4>2, <4>3
    <3> QED
      BY <3>1, <3>2
  <2>2. ASSUME call.op = "rollback", NEW zone \in Zones, NEW s \in Sockets
        PROVE  \/ caps'[zone][s].enabled = ~point[zone][s][0].preparedOnly
               \/ \E n \in DOMAIN T, i \in {0, 1} : T[n] = AimReq(zone, s, i)
    <3>1. CASE zone = z0 /\ s = s0
      <4>1. caps'[zone][s].enabled = ~req.cap.preparedOnly
        BY <1>3, <1>7, <1>9, <3>1 DEF CapDone
      <4>2. req.cap = point[z0][s0][i0]
        BY <1>3, <2>2 DEF Aim
      <4>3. point[zone][s][0].preparedOnly = point[zone][s][1].preparedOnly
        BY <1>0 DEF CapsInv
      <4>4. req.cap.preparedOnly = point[zone][s][0].preparedOnly
        BY <1>2, <3>1, <4>2, <4>3
      <4> QED
        BY <4>1, <4>4
    <3>2. CASE ~(zone = z0 /\ s = s0)
      <4>1. caps'[zone][s].enabled = caps[zone][s].enabled
        BY <1>3, <1>7, <1>9, <3>2 DEF CapDone
      <4>2. \/ caps[zone][s].enabled = ~point[zone][s][0].preparedOnly
            \/ \E n \in DOMAIN call.todo, i \in {0, 1} : call.todo[n] = AimReq(zone, s, i)
        BY <1>0, <2>2 DEF WalkInv
      <4>3. \A i \in {0, 1} : req # AimReq(zone, s, i)
        BY <1>3, <3>2, AimReqFacts
      <4>4. CASE caps[zone][s].enabled = ~point[zone][s][0].preparedOnly
        BY <4>1, <4>4
      <4>5. CASE \E n \in DOMAIN call.todo, i \in {0, 1} : call.todo[n] = AimReq(zone, s, i)
        <5>1. PICK n \in DOMAIN call.todo, i \in {0, 1} : call.todo[n] = AimReq(zone, s, i)
          BY <4>5
        <5>2. n # 1
          BY <1>1, <4>3, <5>1
        <5>3. n - 1 \in DOMAIN T /\ T[n - 1] = AimReq(zone, s, i)
          BY <1>1, <5>1, <5>2
        <5> QED
          BY <5>3
      <4> QED
        BY <4>2, <4>4, <4>5
    <3> QED
      BY <3>1, <3>2
  <2> QED
    BY <2>1, <2>2 DEF LeftToDo
<1>10. call.op = "set" => req.cap = Aim(req.zone, 0, 0)
  BY <1>3 DEF Aim
<1> QED
  BY <1>2, <1>3, <1>7, <1>8, <1>9, <1>10 DEF T
\* The caps keep their shape.
LEMMA ServeCapsType ==
  ASSUME ProxyInv, NEW o, NEW req, ServeStep(o, req)
  PROVE  CapsInv' /\ Zones' = Zones /\ Sockets' = Sockets /\ point' = point
<1>0. /\ MachineInv /\ ServantInv /\ CallInv /\ CapsInv /\ o \in Answers(req) /\ req \in ReqsOf(call.op)
      /\ caps' = o.caps /\ machine' = machine /\ point' = point
  BY ServeFacts DEF ServeStep
<1>1. Zones' = Zones /\ Sockets' = Sockets
  BY <1>0 DEF Zones, Sockets
<1>2. CASE req.module = "caps"
  <2>1. req \in CapReqs(call.op)
    BY <1>0, <1>2, ReqFacts
  <2>2. IsCapReq(req)
    BY <2>1, CapReqFacts DEF IsCapReq
  <2>3. PICK c \in SetCap(req, caps) : o.status = c.status /\ o.caps = c.module
    BY <1>0, <1>2, AnswerOfCaps
  <2>4. IsCaps(caps', Zones, Sockets)
    BY <1>0, <2>2, <2>3, SetCapFacts
  <2> QED
    BY <1>0, <1>1, <2>4 DEF CapsInv, IsCaps
<1>3. CASE req.module # "caps"
  <2>1. caps' = caps
    BY <1>0, <1>3, AnswerFacts
  <2> QED
    BY <1>0, <1>1, <2>1 DEF CapsInv
<1> QED
  BY <1>2, <1>3

\* A rollback, or a cap for all the sockets, that goes on.
LEMMA ServeWalkOn ==
  ASSUME ProxyInv, NEW o, NEW req, ServeStep(o, req)
  PROVE  WalkInv'
<1>1. CASE IsDone(o, req)
  <2>1. call'.op = "none"
    BY <1>1 DEF IsDone, NoCall
  <2> QED
    BY <2>1 DEF WalkInv
<1>2. CASE GoesOn(o, req)
  <2>0. CallInv /\ WalkInv /\ machine' = machine /\ point' = point /\ Zones' = Zones /\ Sockets' = Sockets
    BY ServeFacts, ServeCapsType
  <2>1. call'.op = call.op /\ call'.arg = call.arg /\ call'.was = call.was /\ call'.todo = TodoAfter(o, req) /\ o.status = "ok"
    BY <1>2, <2>0 DEF GoesOn, CallInv, IsCall, TodoAfter
  <2>2. CASE call.op \notin {"set", "rollback"}
    BY <2>1, <2>2 DEF WalkInv
  <2>3. CASE call.op \in {"set", "rollback"}
    <3>1. req.module = "caps" /\ AsItWas(caps') /\ LeftToDo(caps', Tail(call.todo))
      BY <2>1, <2>3, ServeWalk
    <3>2. Follow(req, o.val) = <<>>
      BY <2>3, <3>1 DEF Follow
    <3>3. call.todo \in Seq(ReqsOf(call.op)) /\ call.todo # <<>>
      BY <2>0 DEF CallInv, ServeStep
    <3>4. Tail(call.todo) \in Seq(ReqsOf(call.op)) /\ \A n \in DOMAIN Tail(call.todo) : n + 1 \in DOMAIN call.todo /\ Tail(call.todo)[n] = call.todo[n + 1]
      BY <3>3, TodoFacts
    <3>5. call'.todo = Tail(call.todo)
      BY <2>1, <3>2, <3>4 DEF TodoAfter
    <3>6. AimZones' = AimZones /\ \A zone, s, i : Aim(zone, s, i)' = Aim(zone, s, i)
      BY <2>0, <2>1 DEF AimZones, Aim
    <3>7. \A zone, s, i : AimReq(zone, s, i)' = AimReq(zone, s, i)
      BY <3>6 DEF AimReq
    <3>8. AimZones \subseteq Zones /\ \A n \in DOMAIN call.todo : \E zone \in AimZones, s \in Sockets, i \in {0, 1} : call.todo[n] = AimReq(zone, s, i)
      BY <2>0, <2>3 DEF WalkInv
    <3>9. \A n \in DOMAIN call'.todo : \E zone \in AimZones, s \in Sockets, i \in {0, 1} : call'.todo[n] = AimReq(zone, s, i)
      BY <3>4, <3>5, <3>8
    <3>10. /\ AimZones' \subseteq Zones'
           /\ \A n \in DOMAIN call'.todo : \E zone \in AimZones', s \in Sockets', i \in {0, 1} : call'.todo[n] = AimReq(zone, s, i)'
      BY <2>0, <3>6, <3>7, <3>8, <3>9
    <3>11. \A zone \in AimZones', s \in Sockets', i \in {0, 1} :
             caps'[zone][s].watts[i] = Aim(zone, s, i)'.value \/ \E n \in DOMAIN call'.todo : call'.todo[n] = AimReq(zone, s, i)'
      BY <2>0, <3>1, <3>5, <3>6, <3>7 DEF LeftToDo
    <3>12. call'.op = "rollback" =>
             \A zone \in Zones', s \in Sockets' :
               \/ caps'[zone][s].enabled = ~point'[zone][s][0].preparedOnly
               \/ \E n \in DOMAIN call'.todo, i \in {0, 1} : call'.todo[n] = AimReq(zone, s, i)'
      BY <2>0, <2>1, <3>1, <3>5, <3>7 DEF LeftToDo
    <3>13. call'.op = "rollback" =>
             \A zone \in Zones', s \in Sockets', i \in {0, 1} :
               caps'[zone][s].watts[i] \in {call'.was[zone][s].watts[i], point'[zone][s][i].value}
      BY <2>0, <2>1, <3>1 DEF AsItWas
    <3> QED
      BY <3>10, <3>11, <3>12, <3>13 DEF WalkInv
  <2> QED
    BY <2>2, <2>3
<1> QED
  BY <1>1, <1>2 DEF ServeStep
\* What a rollback point keeps of caps.
LEMMA CapsPointFacts ==
  ASSUME NEW Z, NEW S, NEW f, IsCaps(f, Z, S)
  PROVE  /\ CapsPoint(f) \in [Z -> [S -> [{0, 1} -> Caps]]]
         /\ \A zone \in Z, s \in S, i \in {0, 1} :
              CapsPoint(f)[zone][s][i].value = f[zone][s].watts[i] /\ CapsPoint(f)[zone][s][i].preparedOnly = ~f[zone][s].enabled
<1>1. DOMAIN f = Z /\ \A zone \in Z : DOMAIN f[zone] = S
  BY DEF IsCaps
<1>2. CapsPoint(f) = [zone \in Z |-> [s \in S |-> [i \in {0, 1} |-> GetCap(f, zone, s, i)]]]
  BY <1>1 DEF CapsPoint
<1>3. ASSUME NEW zone \in Z, NEW s \in S, NEW i \in {0, 1}
      PROVE  /\ GetCap(f, zone, s, i) \in Caps /\ GetCap(f, zone, s, i).value = f[zone][s].watts[i]
             /\ GetCap(f, zone, s, i).preparedOnly = ~f[zone][s].enabled
  <2>1. f[zone][s] \in [watts : [{0, 1} -> Nat], enabled : BOOLEAN]
    BY DEF IsCaps
  <2>2. f[zone][s].watts[i] \in Nat
    BY <2>1
  <2> QED
    BY <2>2 DEF GetCap, Caps
<1> QED
  BY <1>2, <1>3

IsPoint(p, Z, S)  == p \in [Z -> [S -> [{0, 1} -> Caps]]]
Agree(p, q, Z, S) ==
  \A zone \in Z, s \in S, i \in {0, 1} :
    p[zone][s][i].value = q[zone][s][i].value /\ p[zone][s][i].preparedOnly = q[zone][s][i].preparedOnly

\* Two points are the same if they agree on every window.
LEMMA SamePoint ==
  ASSUME NEW Z, NEW S, NEW p, NEW q, IsPoint(p, Z, S), IsPoint(q, Z, S), Agree(p, q, Z, S)
  PROVE  p = q
<1> USE DEF IsPoint, Agree
<1>1. ASSUME NEW zone \in Z, NEW s \in S PROVE p[zone][s] = q[zone][s]
  <2>1. p[zone][s] \in [{0, 1} -> Caps] /\ q[zone][s] \in [{0, 1} -> Caps]
    OBVIOUS
  <2>2. ASSUME NEW i \in {0, 1} PROVE p[zone][s][i] = q[zone][s][i]
    <3> DEFINE a == p[zone][s][i]
               b == q[zone][s][i]
    <3>1. a \in Caps /\ b \in Caps /\ a.value = b.value /\ a.preparedOnly = b.preparedOnly
      BY <2>1
    <3> HIDE DEF a, b
    <3>2. a = [value |-> a.value, preparedOnly |-> a.preparedOnly] /\ b = [value |-> b.value, preparedOnly |-> b.preparedOnly]
      BY <3>1 DEF Caps
    <3>3. a = b
      BY <3>1, <3>2
    <3> QED
      BY <3>3 DEF a, b
  <2> QED
    BY <2>1, <2>2
<1>2. ASSUME NEW zone \in Z PROVE p[zone] = q[zone]
  <2>1. p[zone] \in [S -> [{0, 1} -> Caps]] /\ q[zone] \in [S -> [{0, 1} -> Caps]]
    OBVIOUS
  <2> QED
    BY <1>1, <2>1
<1> QED
  BY <1>2

\* No cap is restored or set by another call.
LEMMA NoCapsToRestore ==
  ASSUME last'.op \notin {"rollback", "set"}
  PROVE  CapsRestored'
  BY DEF CapsRestored

\* A rollback that has ended has restored the caps, or left those it did not.
LEMMA ServeRestored ==
  ASSUME ProxyInv, NEW o, NEW req, ServeStep(o, req)
  PROVE  CapsRestored'
<1>0. CallInv /\ CapsInv /\ CapsInv' /\ Zones' = Zones /\ Sockets' = Sockets /\ point' = point /\ last = NoResult
  BY ServeFacts, ServeCapsType
<1>1. CASE last'.op \notin {"rollback", "set"}
  BY <1>1, NoCapsToRestore
<1>2. CASE last'.op \in {"rollback", "set"}
  <2>1. IsDone(o, req)
    BY <1>0, <1>2 DEF ServeStep, GoesOn, NoResult
  <2>2. /\ last'.op = call.op /\ last'.status = o.status /\ last'.was = call.was /\ last'.req = req
        /\ TodoAfter(o, req) = <<>> /\ call.op \in {"rollback", "set"}
    BY <1>2, <2>1 DEF IsDone
  <2>3. /\ req.module = "caps" /\ req.zone \in AimZones /\ AsItWas(caps') /\ (o.status = "ok" => LeftToDo(caps', Tail(call.todo)))
        /\ (call.op = "set" => req.cap = Aim(req.zone, 0, 0))
    BY <2>2, ServeWalk
  <2>4. Follow(req, o.val) = <<>>
    BY <2>2, <2>3 DEF Follow
  <2>5. Tail(call.todo) \in Seq(ReqsOf(call.op))
    BY <1>0, TodoFacts DEF CallInv, ServeStep
  <2>6. o.status = "ok" => Tail(call.todo) = <<>> /\ DOMAIN Tail(call.todo) = {}
    BY <2>2, <2>4, <2>5 DEF TodoAfter
  <2>7. o.status = "ok" => \A zone \in AimZones, s \in Sockets, i \in {0, 1} : caps'[zone][s].watts[i] = Aim(zone, s, i).value
    BY <2>3, <2>6 DEF LeftToDo
  <2>8. o.status = "ok" /\ call.op = "rollback" => \A zone \in Zones, s \in Sockets : caps'[zone][s].enabled = ~point[zone][s][0].preparedOnly
    BY <2>3, <2>6 DEF LeftToDo
  <2>9. IsCaps(caps', Zones, Sockets)
    BY <1>0 DEF CapsInv, IsCaps
  <2>10. DOMAIN caps' = Zones /\ \A zone \in Zones : DOMAIN caps'[zone] = Sockets
    BY <2>9 DEF IsCaps
  <2>11. ASSUME o.status = "ok", call.op = "rollback" PROVE CapsPoint(caps') = point
    <3>1. point \in [Zones -> [Sockets -> [{0, 1} -> Caps]]]
      BY <1>0 DEF CapsInv
    <3>2. /\ CapsPoint(caps') \in [Zones -> [Sockets -> [{0, 1} -> Caps]]]
          /\ \A zone \in Zones, s \in Sockets, i \in {0, 1} :
               CapsPoint(caps')[zone][s][i].value = caps'[zone][s].watts[i] /\ CapsPoint(caps')[zone][s][i].preparedOnly = ~caps'[zone][s].enabled
      BY <2>9, CapsPointFacts
    <3>3. \A zone \in Zones, s \in Sockets, i \in {0, 1} : caps'[zone][s].watts[i] = point[zone][s][i].value
      BY <2>7, <2>11 DEF AimZones, Aim
    <3>4. ASSUME NEW zone \in Zones, NEW s \in Sockets, NEW i \in {0, 1}
          PROVE  CapsPoint(caps')[zone][s][i].value = point[zone][s][i].value /\ CapsPoint(caps')[zone][s][i].preparedOnly = point[zone][s][i].preparedOnly
      <4>1. caps'[zone][s].enabled = ~point[zone][s][0].preparedOnly
        BY <2>8, <2>11
      <4>2. point[zone][s][i].preparedOnly = point[zone][s][0].preparedOnly
        BY <1>0 DEF CapsInv
      <4>3. point[zone][s][0].preparedOnly \in BOOLEAN
        BY <3>1 DEF Caps
      <4>4. CapsPoint(caps')[zone][s][i].preparedOnly = ~caps'[zone][s].enabled
        BY <3>2
      <4>5. CapsPoint(caps')[zone][s][i].preparedOnly = point[zone][s][i].preparedOnly
        BY <4>1, <4>2, <4>3, <4>4
      <4> QED
        BY <3>2, <3>3, <4>5
    <3>5. PICK p : p = CapsPoint(caps')
      OBVIOUS
    <3>6. Agree(p, point, Zones, Sockets)
      BY <3>4, <3>5 DEF Agree
    <3>7. IsPoint(p, Zones, Sockets) /\ IsPoint(point, Zones, Sockets)
      BY <3>1, <3>2, <3>5 DEF IsPoint
    <3>8. p = point
      BY <3>6, <3>7, SamePoint
    <3> QED
      BY <3>5, <3>8
  <2>12. ASSUME call.op = "rollback"
         PROVE  \A zone \in DOMAIN caps' : \A s \in DOMAIN caps'[zone] : \A i \in {0, 1} :
                  caps'[zone][s].watts[i] \in {call.was[zone][s].watts[i], point[zone][s][i].value}
    BY <2>3, <2>10, <2>12 DEF AsItWas
  <2>13. ASSUME o.status = "ok", call.op = "set"
         PROVE  \A s \in DOMAIN caps'[req.zone], i \in {0, 1} : caps'[req.zone][s].watts[i] = req.cap.value
    <3>1. req.zone \in Zones
      BY <2>2, <2>3, ServeFacts DEF WalkInv
    <3>2. \A s, i : Aim(req.zone, s, i) = req.cap
      BY <2>3, <2>13 DEF Aim
    <3> QED
      BY <2>3, <2>7, <2>10, <2>13, <3>1, <3>2
  <2> QED
    BY <1>0, <2>2, <2>11, <2>12, <2>13 DEF CapsRestored
<1> QED
  BY <1>1, <1>2
-----------------------------------------------------------------------------
(* A call begins.                                                          *)

\* A request that is among those of a call.
Sends(todo, r) == \E n \in DOMAIN todo : todo[n] = r

\* The requests of a call that begins.
CanBegin(op, k, todo) ==
  /\ todo \in Seq(ReqsOf(op)) /\ (op \in CapOps \/ k \in Objects)
  /\ \/ \A n \in DOMAIN todo : todo[n].module \in Active
     \/ todo # <<>> /\ Head(todo).module \notin Active

\* Those of a rollback, and of a cap for all the sockets, are one for each
\* window that they are for.
WalkBegins(op, arg, todo) ==
  /\ op = "rollback" => \A r : Sends(todo, r) <=>
                               \E zone \in Zones, s \in Sockets, i \in {0, 1} : r = CapReq(zone, i, s, point[zone][s][i])
  /\ op = "set" => /\ arg.zone \in Zones
                   /\ \A r : Sends(todo, r) <=>
                             \E s \in Sockets, i \in {0, 1} : r = CapReq(arg.zone, i, s, [arg.cap EXCEPT !.value = @ \div machine.sockets])

\* Nothing but the call is changed.
LEMMA BeginFacts ==
  ASSUME ProxyInv, NEW family, NEW k, NEW op, NEW todo, NEW arg, Begin(family, k, op, todo, arg)
  PROVE  /\ machine' = machine /\ servant' = servant /\ cl' = cl /\ caps' = caps /\ point' = point /\ last' = NoResult
         /\ IsCall(call') /\ call'.op = op /\ call'.k = k /\ call'.todo = todo /\ call'.arg = arg /\ call'.was = caps
         /\ call'.sent = 0 /\ call'.counters = {}
         /\ MachineInv' /\ ServantInv' /\ ObjectsInv' /\ CapsInv' /\ Found' = Found
<1>1. machine' = machine /\ servant' = servant /\ cl' = cl /\ caps' = caps /\ point' = point /\ last' = NoResult
  BY DEF Begin
<1>2. call' = [NoCall EXCEPT !.op = op, !.k = k, !.todo = todo, !.arg = arg, !.from = world.joules, !.was = caps]
  BY DEF Begin
<1>3. /\ IsCall(call') /\ call'.op = op /\ call'.k = k /\ call'.todo = todo /\ call'.arg = arg /\ call'.was = caps
      /\ call'.sent = 0 /\ call'.counters = {}
  BY <1>2 DEF NoCall, IsCall
<1>4. MachineInv' /\ Found' = Found
  BY <1>1 DEF ProxyInv, MachineInv, Found
<1>5. ServantInv'
  BY <1>1 DEF ProxyInv, ServantInv
<1>6. ObjectsInv'
  BY <1>1, <1>4 DEF ProxyInv, ObjectsInv, ObjectOk
<1>7. CapsInv'
  BY <1>1 DEF ProxyInv, CapsInv, Zones, Sockets
<1> QED
  BY <1>1, <1>3, <1>4, <1>5, <1>6, <1>7

\* A call that begins with requests of its operation.
LEMMA BeginOk ==
  ASSUME ProxyInv, NEW family, NEW k, NEW op, NEW todo, NEW arg, Begin(family, k, op, todo, arg),
         CanBegin(op, k, todo), WalkBegins(op, arg, todo)
  PROVE  ProxyInv' /\ last' = NoResult
<1>1. /\ machine' = machine /\ servant' = servant /\ cl' = cl /\ caps' = caps /\ point' = point /\ last' = NoResult
      /\ IsCall(call') /\ call'.op = op /\ call'.k = k /\ call'.todo = todo /\ call'.arg = arg /\ call'.was = caps
      /\ call'.sent = 0 /\ call'.counters = {}
      /\ MachineInv' /\ ServantInv' /\ ObjectsInv' /\ CapsInv' /\ Found' = Found
  BY BeginFacts
<1>2. ReqsOf(call.op)' = ReqsOf(op)
  BY <1>1, SameReqs
<1>4. Active' = Active
  BY <1>1 DEF Active
<1>5. call'.todo \in Seq(ReqsOf(call.op)')
  BY <1>1, <1>2 DEF CanBegin
<1>6. \/ \A i \in DOMAIN call'.todo : call'.todo[i].module \in Active'
      \/ call'.sent = 0 /\ call'.todo # <<>> /\ Head(call'.todo).module \notin Active'
  BY <1>1, <1>4 DEF CanBegin
<1>7. CallInv'
  BY <1>1, <1>5, <1>6 DEF CallInv, CanBegin
<1>8. WalkInv'
  <2>0. Zones' = Zones /\ Sockets' = Sockets
    BY <1>1 DEF Zones, Sockets
  <2>1. CASE op = "rollback"
    <3> DEFINE R(zone, s, i) == CapReq(zone, i, s, point[zone][s][i])
    <3>1. AimZones' = Zones /\ \A zone, s, i : AimReq(zone, s, i)' = R(zone, s, i)
      BY <1>1, <2>0, <2>1 DEF AimZones, AimReq, Aim
    <3>2. /\ \A n \in DOMAIN todo : \E zone \in Zones, s \in Sockets, i \in {0, 1} : todo[n] = R(zone, s, i)
          /\ \A zone \in Zones, s \in Sockets, i \in {0, 1} : \E n \in DOMAIN todo : todo[n] = R(zone, s, i)
      BY <2>1 DEF WalkBegins, Sends
    <3> HIDE DEF R
    <3>3. /\ \A n \in DOMAIN call'.todo : \E zone \in AimZones', s \in Sockets', i \in {0, 1} : call'.todo[n] = AimReq(zone, s, i)'
          /\ \A zone \in AimZones', s \in Sockets', i \in {0, 1} : \E n \in DOMAIN call'.todo : call'.todo[n] = AimReq(zone, s, i)'
      <4>0. call'.todo = todo
        BY <1>1
      <4>1. \A n \in DOMAIN call'.todo : \E zone \in AimZones', s \in Sockets', i \in {0, 1} : call'.todo[n] = AimReq(zone, s, i)'
        BY <1>1, <2>0, <3>1, <3>2
      <4>2. ASSUME NEW zone \in AimZones', NEW s \in Sockets', NEW i \in {0, 1} PROVE \E n \in DOMAIN call'.todo : call'.todo[n] = AimReq(zone, s, i)'
        <5>1. zone \in Zones /\ s \in Sockets /\ AimReq(zone, s, i)' = R(zone, s, i)
          BY <2>0, <3>1
        <5>2. PICK n \in DOMAIN todo : todo[n] = R(zone, s, i)
          BY <3>2, <5>1
        <5> QED
          BY <4>0, <5>1, <5>2
      <4> QED
        BY <4>1, <4>2
    <3>4. \A zone \in Zones', s \in Sockets' : \E n \in DOMAIN call'.todo, i \in {0, 1} : call'.todo[n] = AimReq(zone, s, i)'
      BY <2>0, <3>1, <3>3
    <3>5. \A zone \in Zones', s \in Sockets', i \in {0, 1} :
            caps'[zone][s].watts[i] \in {call'.was[zone][s].watts[i], point'[zone][s][i].value}
      BY <1>1
    <3>6. call'.op = "rollback" /\ AimZones' \subseteq Zones'
      BY <1>1, <2>0, <2>1, <3>1
    <3> QED
      BY <3>3, <3>4, <3>5, <3>6 DEF WalkInv
  <2>2. CASE op = "set"
    <3> DEFINE cap == [arg.cap EXCEPT !.value = @ \div machine.sockets]
    <3>1. AimZones' = {arg.zone} /\ \A zone, s, i : AimReq(zone, s, i)' = CapReq(zone, i, s, cap)
      BY <1>1, <2>0, <2>2 DEF AimZones, AimReq, Aim
    <3>2. /\ \A n \in DOMAIN todo : \E s \in Sockets, i \in {0, 1} : todo[n] = CapReq(arg.zone, i, s, cap)
          /\ \A s \in Sockets, i \in {0, 1} : \E n \in DOMAIN todo : todo[n] = CapReq(arg.zone, i, s, cap)
          /\ arg.zone \in Zones
      BY <2>2 DEF WalkBegins, Sends
    <3> HIDE DEF cap
    <3>3. /\ \A n \in DOMAIN call'.todo : \E zone \in AimZones', s \in Sockets', i \in {0, 1} : call'.todo[n] = AimReq(zone, s, i)'
          /\ \A zone \in AimZones', s \in Sockets', i \in {0, 1} : \E n \in DOMAIN call'.todo : call'.todo[n] = AimReq(zone, s, i)'
      BY <1>1, <2>0, <3>1, <3>2
    <3> QED
      BY <1>1, <2>0, <2>2, <3>1, <3>2, <3>3 DEF WalkInv
  <2>3. CASE op \notin {"set", "rollback"}
    BY <1>1, <2>3 DEF WalkInv
  <2> QED
    BY <2>1, <2>2, <2>3
<1> QED
  BY <1>1, <1>7, <1>8 DEF ProxyInv

\* A call of one request.
LEMMA BeginOne ==
  ASSUME ProxyInv, NEW family, NEW k \in Objects, NEW op, NEW req, NEW arg, Begin(family, k, op, <<req>>, arg),
         req \in ReqsOf(op), op \notin {"set", "rollback"}
  PROVE  ProxyInv' /\ last' = NoResult
<1>1. <<req>> \in Seq(ReqsOf(op)) /\ DOMAIN <<req>> = {1} /\ Head(<<req>>) = req /\ <<req>> # <<>>
  OBVIOUS
<1>2. CanBegin(op, k, <<req>>)
  BY <1>1 DEF CanBegin
<1>3. WalkBegins(op, arg, <<req>>)
  BY DEF WalkBegins
<1> QED
  BY <1>2, <1>3, BeginOk
-----------------------------------------------------------------------------
(* The calls that the objects begin.                                       *)

\* A sequence that is continued.
LEMMA JoinTwo ==
  ASSUME NEW Y, NEW a \in Seq(Y), NEW b \in Seq(Y), a # <<>>
  PROVE  a \o b \in Seq(Y) /\ a \o b # <<>> /\ Head(a \o b) = Head(a)
  OBVIOUS

\* Mammut::getInstanceTopology() and the others.
LEMMA NewModules ==
  ASSUME ProxyInv, NEW k \in Objects, NewTopology(k) \/ NewEnergy(k) \/ NewCpuFreq(k)
  PROVE  ProxyInv' /\ last' = NoResult
<1>0. Constructors \cap CapOps = {}
  BY DEF Constructors, CapOps
<1>1. \A op \in Constructors : CoreReqs(op) = TopologyReqs /\ CoreReq("GetTopology", 0) \in CoreReqs(op)
  BY DEF CoreReqs, Constructors, CoreCmds, LevelCmds, UnitCmds, CpuCmds, TopologyReqs
<1>2. CheckDependencies(machine.mask)
  BY DEF ProxyInv, MachineInv
<1>3. CASE NewTopology(k)
  <2>1. Begin("topology", k, "newTopology", <<CoreReq("GetTopology", 0)>>, 0)
    BY <1>3 DEF NewTopology
  <2>2. CoreReq("GetTopology", 0) \in ReqsOf("newTopology")
    BY <1>1 DEF ReqsOf, Constructors
  <2> QED
    BY <1>0, <2>1, <2>2, BeginOne DEF Constructors
<1>4. CASE NewEnergy(k)
  <2> DEFINE a == NewEnergyBefore
             b == <<CoreReq("GetTopology", 0)>>
             c == NewEnergyAfter
             X == ReqsOf("newEnergy")
             todo == a \o b \o c
             Y == {r \in X : r.module \in {"energy", "topology"}}
  <2>1. Begin("energy", k, "newEnergy", todo, 0)
    BY <1>4 DEF NewEnergy
  <2>2. \A type \in CounterTypes : EnergyReq("INIT", type) \in X /\ EnergyReq("HAS", "cpus") \in X
    <3>1. EnergyReqs("newEnergy") = {EnergyReq("INIT", type) : type \in CounterTypes} \cup {EnergyReq("HAS", "cpus")}
                                    \cup {EnergyReq("RESET", type) : type \in Found}
      BY DEF EnergyReqs, Getters
    <3> QED
      BY <3>1 DEF ReqsOf
  <2>3. CoreReq("GetTopology", 0) \in X
    BY <1>1 DEF ReqsOf, Constructors
  <2>4. \A type \in CounterTypes : EnergyReq("INIT", type) \in Y /\ EnergyReq("HAS", "cpus") \in Y
    BY <2>2 DEF EnergyReq
  <2>5. CoreReq("GetTopology", 0) \in Y
    BY <2>3 DEF CoreReq
  <2> HIDE DEF X, Y
  <2>6. a \in Seq(Y) /\ b \in Seq(Y) /\ c \in Seq(Y) /\ a # <<>> /\ Head(a) = EnergyReq("INIT", "plug")
    BY <2>4, <2>5 DEF NewEnergyBefore, NewEnergyAfter, CounterTypes
  <2> HIDE DEF a, b, c
  <2>7. todo \in Seq(Y) /\ todo # <<>> /\ Head(todo) = EnergyReq("INIT", "plug")
    <3>1. PICK ab : ab = a \o b
      OBVIOUS
    <3>2. ab \in Seq(Y) /\ ab # <<>> /\ Head(ab) = Head(a)
      BY <2>6, <3>1, JoinTwo
    <3>3. todo = ab \o c
      BY <3>1
    <3> HIDE DEF todo
    <3>4. todo \in Seq(Y) /\ todo # <<>> /\ Head(todo) = Head(ab)
      BY <2>6, <3>2, <3>3, JoinTwo
    <3> QED
      BY <2>6, <3>2, <3>4
  <2> HIDE DEF todo
  <2>8. Y \subseteq X /\ \A r \in Y : r.module \in {"energy", "topology"}
    BY DEF Y
  <2>9. todo \in Seq(X) /\ \A n \in DOMAIN todo : todo[n].module \in {"energy", "topology"}
    BY <2>7, <2>8
  <2>10. \/ \A n \in DOMAIN todo : todo[n].module \in Active
         \/ todo # <<>> /\ Head(todo).module \notin Active
    BY <1>2, <2>7, <2>9 DEF Active, CheckDependencies, EnergyReq
  <2>11. CanBegin("newEnergy", k, todo)
    BY <1>0, <2>9, <2>10 DEF CanBegin, Constructors, X
  <2>12. WalkBegins("newEnergy", 0, todo)
    BY DEF WalkBegins
  <2> QED
    BY <2>1, <2>11, <2>12, BeginOk
<1>5. CASE NewCpuFreq(k)
  <2> DEFINE r == FreqReq("GetDomains", 0)
             q == CoreReq("GetTopology", 0)
  <2>1. Begin("cpufreq", k, "newCpuFreq", <<r, q>>, 0)
    BY <1>5 DEF NewCpuFreq
  <2>2. r \in ReqsOf("newCpuFreq") /\ q \in ReqsOf("newCpuFreq")
    <3>1. FreqReqs("newCpuFreq") = {r}
      BY DEF FreqReqs, BoostCmds
    <3> QED
      BY <1>1, <3>1 DEF ReqsOf, Constructors
  <2>3. r.module = "cpufreq" /\ q.module = "topology"
    BY DEF FreqReq, CoreReq
  <2> HIDE DEF r, q
  <2>4. <<r, q>> \in Seq(ReqsOf("newCpuFreq")) /\ <<r, q>> # <<>> /\ Head(<<r, q>>) = r /\ \A n \in DOMAIN <<r, q>> : <<r, q>>[n] \in {r, q}
    BY <2>2
  <2>5. \/ \A n \in DOMAIN <<r, q>> : <<r, q>>[n].module \in Active
        \/ <<r, q>> # <<>> /\ Head(<<r, q>>).module \notin Active
    BY <1>2, <2>3, <2>4 DEF Active, CheckDependencies
  <2>6. CanBegin("newCpuFreq", k, <<r, q>>)
    BY <1>0, <2>4, <2>5 DEF CanBegin, Constructors
  <2>7. WalkBegins("newCpuFreq", 0, <<r, q>>)
    BY DEF WalkBegins
  <2> QED
    BY <2>1, <2>6, <2>7, BeginOk
<1> QED
  BY <1>3, <1>4, <1>5

\* The operations of a counter.
LEMMA EnergyOps ==
  ASSUME ProxyInv, NEW k \in Objects, NEW type \in CounterTypes, EnergyOp(k, type)
  PROVE  ProxyInv' /\ last' = NoResult
<1>0. type \in Found /\ MachineInv
  BY DEF EnergyOp, ProxyInv, ObjectsInv, ObjectOk
<1>1. ({"reset"} \cup Getters) \cap {"set", "rollback"} = {}
  BY DEF Getters
<1>2. /\ EnergyReq("RESET", type) \in ReqsOf("reset")
      /\ \A op \in Getters : EnergyReq("GET", type) \in ReqsOf(op)
  <2>1. EnergyReqs("reset") = {EnergyReq("RESET", t) : t \in Found}
    BY DEF EnergyReqs, Getters
  <2>2. \A op \in Getters : EnergyReqs(op) = {EnergyReq("GET", t) : t \in Found}
    BY DEF EnergyReqs, Getters
  <2> QED
    BY <1>0, <2>1, <2>2 DEF ReqsOf
<1>3. CASE Begin("counters", k, "reset", <<EnergyReq("RESET", type)>>, 0)
  BY <1>1, <1>2, <1>3, BeginOne
<1>4. ASSUME NEW op \in Getters, NEW arg, Begin("counters", k, op, <<EnergyReq("GET", type)>>, arg)
      PROVE  ProxyInv' /\ last' = NoResult
  BY <1>1, <1>2, <1>4, BeginOne
<1>5. CASE type = "cpus" /\ Begin("counters", k, "getJoulesCpuAll", GetJoulesAll(machine), 0)
  <2> DEFINE todo == GetJoulesAll(machine)
             r == EnergyReq("GET", "cpus")
  <2>1. Cardinality(machine.cpus) \in Nat
    BY <1>0, MachineFacts, FS_CardinalityType DEF IsMachine
  <2>2. r \in ReqsOf("getJoulesCpuAll")
    BY <1>2, <1>5 DEF Getters
  <2>3. todo = [i \in 1..Cardinality(machine.cpus) |-> r]
    BY DEF GetJoulesAll
  <2> HIDE DEF todo, r
  <2>4. todo \in Seq(ReqsOf("getJoulesCpuAll")) /\ (\A n \in DOMAIN todo : todo[n] = r) /\ (todo # <<>> => Head(todo) = r)
    BY <2>1, <2>2, <2>3
  <2>5. \/ \A n \in DOMAIN todo : todo[n].module \in Active
        \/ todo # <<>> /\ Head(todo).module \notin Active
    BY <2>4
  <2>6. CanBegin("getJoulesCpuAll", k, todo)
    BY <1>1, <2>4, <2>5 DEF CanBegin, Getters
  <2>7. WalkBegins("getJoulesCpuAll", 0, todo)
    BY DEF WalkBegins
  <2> QED
    BY <1>5, <2>6, <2>7, BeginOk DEF todo
<1> QED
  BY <1>3, <1>4, <1>5 DEF EnergyOp, Getters
\* The operations of a core, a level, a unit or the processor.
LEMMA CoreOps ==
  ASSUME ProxyInv, NEW k \in Objects, NEW v \in machine.cores,
         \/ \E cmd \in CoreCmds \ {"IdleLevelsGet"} : CoreOp(k, v, cmd)
         \/ \E l \in machine.levels, cmd \in LevelCmds : LevelOp(k, v, l, cmd)
         \/ \E cmd \in UnitCmds, type \in {"physical", "virtual"} : UnitOp(k, cmd, type, v)
  PROVE  ProxyInv' /\ last' = NoResult
<1>1. ASSUME NEW cmd \in CoreCmds \ {"IdleLevelsGet"}, CoreOp(k, v, cmd) PROVE ProxyInv' /\ last' = NoResult
  <2>1. PICK family : Begin(family, k, cmd, <<CoreReq(cmd, v)>>, 0)
    BY <1>1 DEF CoreOp
  <2>2. CoreReqs(cmd) = {CoreReq(cmd, u) : u \in machine.cores} /\ cmd \notin {"set", "rollback"}
    BY DEF CoreReqs, Constructors, CoreCmds, LevelCmds, UnitCmds, CpuCmds
  <2>3. CoreReq(cmd, v) \in ReqsOf(cmd)
    BY <2>2 DEF ReqsOf
  <2> QED
    BY <2>1, <2>2, <2>3, BeginOne
<1>2. ASSUME NEW l \in machine.levels, NEW cmd \in LevelCmds, LevelOp(k, v, l, cmd) PROVE ProxyInv' /\ last' = NoResult
  <2>1. Begin("levels", k, cmd, <<LevelReq(cmd, v, l)>>, 0)
    BY <1>2 DEF LevelOp
  <2>2. CoreReqs(cmd) = {LevelReq(cmd, u, m) : u \in machine.cores, m \in machine.levels} /\ cmd \notin {"set", "rollback"}
    BY DEF CoreReqs, Constructors, CoreCmds, LevelCmds, UnitCmds, CpuCmds
  <2>3. LevelReq(cmd, v, l) \in ReqsOf(cmd)
    BY <2>2 DEF ReqsOf
  <2> QED
    BY <2>1, <2>2, <2>3, BeginOne
<1>3. ASSUME NEW cmd \in UnitCmds, NEW type \in {"physical", "virtual"}, UnitOp(k, cmd, type, v) PROVE ProxyInv' /\ last' = NoResult
  <2>1. Begin("cores", k, cmd, <<UnitReq(cmd, type, v)>>, 0)
    BY <1>3 DEF UnitOp
  <2>2. /\ {UnitReq(cmd, t, id) : t \in {"physical", "virtual"}, id \in machine.cores} \subseteq CoreReqs(cmd)
        /\ cmd \notin {"set", "rollback"}
    BY DEF CoreReqs, Constructors, CoreCmds, LevelCmds, UnitCmds, CpuCmds
  <2>3. UnitReq(cmd, type, v) \in ReqsOf(cmd)
    BY <2>2 DEF ReqsOf
  <2> QED
    BY <2>1, <2>2, <2>3, BeginOne
<1> QED
  BY <1>1, <1>2, <1>3

\* The operations of the whole of a topology, and those of boosting.
LEMMA WholeOps ==
  ASSUME ProxyInv, NEW k \in Objects,
         \/ \E cmd \in UnitCmds, type \in {"topology", "cpu"} : UnitOp(k, cmd, type, 0)
         \/ \E cmd \in CpuCmds : UnitOp(k, cmd, "cpu", 0)
         \/ \E cmd \in BoostCmds : BoostOp(k, cmd)
  PROVE  ProxyInv' /\ last' = NoResult
<1>1. ASSUME NEW cmd \in UnitCmds, NEW type \in {"topology", "cpu"}, UnitOp(k, cmd, type, 0) PROVE ProxyInv' /\ last' = NoResult
  <2>1. Begin("cores", k, cmd, <<UnitReq(cmd, type, 0)>>, 0)
    BY <1>1 DEF UnitOp
  <2>2. {UnitReq(cmd, t, 0) : t \in {"topology", "cpu"}} \subseteq CoreReqs(cmd) /\ cmd \notin {"set", "rollback"}
    BY DEF CoreReqs, Constructors, CoreCmds, LevelCmds, UnitCmds, CpuCmds
  <2>3. UnitReq(cmd, type, 0) \in ReqsOf(cmd)
    BY <2>2 DEF ReqsOf
  <2> QED
    BY <2>1, <2>2, <2>3, BeginOne
<1>2. ASSUME NEW cmd \in CpuCmds, UnitOp(k, cmd, "cpu", 0) PROVE ProxyInv' /\ last' = NoResult
  <2>1. Begin("cores", k, cmd, <<UnitReq(cmd, "cpu", 0)>>, 0)
    BY <1>2 DEF UnitOp
  <2>2. CoreReqs(cmd) = {UnitReq(cmd, "cpu", 0)} /\ cmd \notin {"set", "rollback"}
    BY DEF CoreReqs, Constructors, CoreCmds, LevelCmds, UnitCmds, CpuCmds
  <2>3. UnitReq(cmd, "cpu", 0) \in ReqsOf(cmd)
    BY <2>2 DEF ReqsOf
  <2> QED
    BY <2>1, <2>2, <2>3, BeginOne
<1>3. ASSUME NEW cmd \in BoostCmds, BoostOp(k, cmd) PROVE ProxyInv' /\ last' = NoResult
  <2>1. Begin("boost", k, cmd, <<FreqReq(cmd, 0)>>, 0)
    BY <1>3 DEF BoostOp
  <2>2. FreqReqs(cmd) = {FreqReq(cmd, 0)} /\ cmd \notin {"set", "rollback"}
    BY DEF FreqReqs, BoostCmds
  <2>3. FreqReq(cmd, 0) \in ReqsOf(cmd)
    BY <2>2 DEF ReqsOf
  <2> QED
    BY <2>1, <2>2, <2>3, BeginOne
<1> QED
  BY <1>1, <1>2, <1>3
-----------------------------------------------------------------------------
(* The calls for power caps.                                               *)

Joins(todo, B, N, X) == todo \in Seq(X) /\ \A r : Sends(todo, r) <=> \E j \in 1..N : Sends(B[j], r)
SendsWindows(todo, zone, s, cap, X) ==
  todo \in Seq(X) /\ todo # <<>> /\ \A r : Sends(todo, r) <=> \E i \in {0, 1} : r = CapReq(zone, i, s, cap)

\* Sequences of requests that are joined.
LEMMA JoinedReqs ==
  ASSUME NEW X, NEW N \in Nat, NEW B, B \in [1..N -> Seq(X)], NEW todo, todo = FlattenSeq(B)
  PROVE  Joins(todo, B, N, X)
<1>1. B \in Seq(Seq(X)) /\ DOMAIN B = 1..N
  OBVIOUS
<1>2. todo \in Seq(X)
  BY <1>1, FlattenType
<1>3. \A r : r \in ToSet(todo) <=> \E j \in DOMAIN B : r \in ToSet(B[j])
  BY <1>1, FlattenElements
<1>4. \A r, s : r \in ToSet(s) <=> Sends(s, r)
  BY DEF ToSet, Sends
<1> QED
  BY <1>1, <1>2, <1>3, <1>4 DEF Joins

\* The sockets that a loop goes through.
LEMMA SocketLoop ==
  ASSUME MachineInv
  PROVE  /\ machine.sockets \in Nat /\ (\A j \in 1..machine.sockets : j - 1 \in Sockets)
         /\ \A s \in Sockets : s + 1 \in 1..machine.sockets /\ (s + 1) - 1 = s
  BY MachineFacts DEF Sockets

\* set(socketId, cap)
LEMMA SocketReqs ==
  ASSUME NEW zone, NEW s, NEW cap, NEW todo, todo = SetSocketReqs(zone, s, cap), NEW X,
         \A i \in {0, 1} : CapReq(zone, i, s, cap) \in X
  PROVE  SendsWindows(todo, zone, s, cap, X)
<1> DEFINE R(i) == CapReq(zone, i, s, cap)
<1>1. todo = [n \in 1..2 |-> R(n - 1)]
  BY DEF SetSocketReqs
<1>2. \A i \in {0, 1} : R(i) \in X
  OBVIOUS
<1> HIDE DEF R
<1>3. \A n \in 1..2 : n - 1 \in {0, 1}
  OBVIOUS
<1>4. todo \in Seq(X) /\ todo # <<>> /\ DOMAIN todo = 1..2 /\ todo[1] = R(0) /\ todo[2] = R(1)
  BY <1>1, <1>2, <1>3
<1>5. \A r : (\E n \in DOMAIN todo : todo[n] = r) <=> \E i \in {0, 1} : r = R(i)
  <2>1. \A n \in DOMAIN todo : n = 1 \/ n = 2
    BY <1>4
  <2>2. 1 \in DOMAIN todo /\ 2 \in DOMAIN todo
    BY <1>4
  <2> QED
    BY <1>4, <2>1, <2>2
<1> QED
  BY <1>4, <1>5 DEF R, SendsWindows, Sends

\* The requests for power caps are those of every operation for them.
LEMMA CapReqIn ==
  ASSUME NEW op \in CapOps, NEW k, NEW zone \in Zones, NEW i \in {0, 1}, NEW s \in Sockets, NEW cap \in Caps
  PROVE  CapReq(zone, i, s, cap) \in ReqsOf(op) /\ CapReq(zone, i, s, cap).module \in Active
<1>1. CapReq(zone, i, s, cap) \in CapReqs(op)
  BY DEF CapReqs, Zones, Sockets, Caps
<1>2. CapReq(zone, i, s, cap).module = "caps"
  BY DEF CapReq
<1> QED
  BY <1>1, <1>2 DEF ReqsOf, Active

\* A call for power caps, all of whose requests are.
LEMMA BeginCaps ==
  ASSUME ProxyInv, NEW op \in CapOps, NEW todo, NEW arg, Begin("caps", 0, op, todo, arg),
         todo \in Seq(ReqsOf(op)), \A n \in DOMAIN todo : todo[n].module \in Active, WalkBegins(op, arg, todo)
  PROVE  ProxyInv' /\ last' = NoResult
<1>1. CanBegin(op, 0, todo)
  BY DEF CanBegin
<1> QED
  BY <1>1, BeginOk
\* set(cap)
LEMMA AllSocketsReqs ==
  ASSUME MachineInv, NEW zone \in Zones, NEW cap \in Caps, NEW todo, todo = SetAllReqs(zone, machine.sockets, cap),
         NEW share, share = [cap EXCEPT !.value = @ \div machine.sockets]
  PROVE  /\ todo \in Seq(ReqsOf("set"))
         /\ \A r : Sends(todo, r) <=> \E s \in Sockets, i \in {0, 1} : r = CapReq(zone, i, s, share)
<1>0. /\ machine.sockets \in Nat \ {0} /\ (\A j \in 1..machine.sockets : j - 1 \in Sockets)
      /\ \A s \in Sockets : s + 1 \in 1..machine.sockets /\ (s + 1) - 1 = s
  BY SocketLoop, MachineFacts
<1>1. share \in Caps
  <2>1. cap.value \in Nat /\ cap.value \div machine.sockets \in Nat
    BY <1>0 DEF Caps
  <2> DEFINE q == cap.value \div machine.sockets
  <2>2. share = [cap EXCEPT !.value = q]
    OBVIOUS
  <2> HIDE DEF q
  <2> QED
    BY <2>1, <2>2 DEF Caps, q
<1> DEFINE X == ReqsOf("set")
           R(s) == SetSocketReqs(zone, s, share)
           B == [j \in 1..machine.sockets |-> R(j - 1)]
<1>2. ASSUME NEW s \in Sockets PROVE SendsWindows(R(s), zone, s, share, X)
  <2>1. \A i \in {0, 1} : CapReq(zone, i, s, share) \in X
    BY <1>1, CapReqIn DEF CapOps
  <2> HIDE DEF X
  <2> QED
    BY <2>1, SocketReqs
<1>3. todo = FlattenSeq(B)
  BY DEF SetAllReqs
<1> HIDE DEF R, X
<1>4. B \in [1..machine.sockets -> Seq(X)]
  BY <1>0, <1>2 DEF SendsWindows
<1>5. \A j \in 1..machine.sockets : B[j] = R(j - 1)
  OBVIOUS
<1> HIDE DEF B
<1>6. Joins(todo, B, machine.sockets, X)
  BY <1>0, <1>3, <1>4, JoinedReqs
<1>7. ASSUME NEW r PROVE Sends(todo, r) <=> \E s \in Sockets, i \in {0, 1} : r = CapReq(zone, i, s, share)
  <2>1. ASSUME NEW j \in 1..machine.sockets, Sends(B[j], r)
        PROVE  \E s \in Sockets, i \in {0, 1} : r = CapReq(zone, i, s, share)
    <3>1. PICK s \in Sockets : Sends(R(s), r)
      BY <1>0, <1>5, <2>1
    <3> QED
      BY <1>2, <3>1 DEF SendsWindows
  <2>2. ASSUME NEW s \in Sockets, NEW i \in {0, 1}, r = CapReq(zone, i, s, share)
        PROVE  \E j \in 1..machine.sockets : Sends(B[j], r)
    <3>1. Sends(R(s), r)
      BY <1>2, <2>2 DEF SendsWindows
    <3>2. PICK j \in 1..machine.sockets : j - 1 = s
      BY <1>0
    <3>3. B[j] = R(s)
      BY <1>5, <3>2
    <3> QED
      BY <3>1, <3>3
  <2> QED
    BY <1>6, <2>1, <2>2 DEF Joins
<1> QED
  BY <1>6, <1>7 DEF X, Joins
\* rollback(): a request for each window of each socket of a zone.
LEMMA ZoneReqs ==
  ASSUME MachineInv, CapsInv, NEW zone \in Zones, NEW todo,
         todo = FlattenSeq([j \in 1..machine.sockets |-> <<CapReq(zone, 0, j - 1, point[zone][j - 1][0]),
                                                           CapReq(zone, 1, j - 1, SecondCap(point, zone, j - 1))>>])
  PROVE  /\ todo \in Seq(ReqsOf("rollback"))
         /\ \A r : Sends(todo, r) <=> \E s \in Sockets, i \in {0, 1} : r = CapReq(zone, i, s, point[zone][s][i])
<1>0. /\ machine.sockets \in Nat /\ (\A j \in 1..machine.sockets : j - 1 \in Sockets)
      /\ \A s \in Sockets : s + 1 \in 1..machine.sockets /\ (s + 1) - 1 = s
  BY SocketLoop
<1> DEFINE X == ReqsOf("rollback")
           R(s, i) == CapReq(zone, i, s, point[zone][s][i])
           Q(s) == <<R(s, 0), R(s, 1)>>
           B == [j \in 1..machine.sockets |-> Q(j - 1)]
<1>1. ASSUME NEW s \in Sockets, NEW i \in {0, 1} PROVE R(s, i) \in X
  <2>1. point[zone][s][i] \in Caps
    BY DEF CapsInv
  <2> QED
    BY <2>1, CapReqIn DEF CapOps
<1>2. todo = FlattenSeq(B)
  BY DEF SecondCap
<1> HIDE DEF R, X
<1>3. ASSUME NEW s \in Sockets PROVE Q(s) \in Seq(X) /\ \A r : Sends(Q(s), r) <=> \E i \in {0, 1} : r = R(s, i)
  <2>1. R(s, 0) \in X /\ R(s, 1) \in X
    BY <1>1
  <2>2. Q(s) \in Seq(X) /\ DOMAIN Q(s) = {1, 2} /\ Q(s)[1] = R(s, 0) /\ Q(s)[2] = R(s, 1)
    BY <2>1
  <2> HIDE DEF Q
  <2> QED
    BY <2>2 DEF Sends
<1> HIDE DEF Q
<1>4. B \in [1..machine.sockets -> Seq(X)]
  BY <1>0, <1>3
<1>5. \A j \in 1..machine.sockets : B[j] = Q(j - 1)
  OBVIOUS
<1> HIDE DEF B
<1>6. Joins(todo, B, machine.sockets, X)
  BY <1>0, <1>2, <1>4, JoinedReqs
<1>7. ASSUME NEW r PROVE Sends(todo, r) <=> \E s \in Sockets, i \in {0, 1} : r = R(s, i)
  <2>1. ASSUME NEW j \in 1..machine.sockets, Sends(B[j], r) PROVE \E s \in Sockets, i \in {0, 1} : r = R(s, i)
    <3>1. PICK s \in Sockets : Sends(Q(s), r)
      BY <1>0, <1>5, <2>1
    <3> QED
      BY <1>3, <3>1
  <2>2. ASSUME NEW s \in Sockets, NEW i \in {0, 1}, r = R(s, i) PROVE \E j \in 1..machine.sockets : Sends(B[j], r)
    <3>1. Sends(Q(s), r)
      BY <1>3, <2>2
    <3>2. PICK j \in 1..machine.sockets : j - 1 = s
      BY <1>0
    <3>3. B[j] = Q(s)
      BY <1>5, <3>2
    <3> QED
      BY <3>1, <3>3
  <2> QED
    BY <1>6, <2>1, <2>2 DEF Joins
<1> QED
  BY <1>6, <1>7 DEF X, Joins, R

\* Over all the zones.
LEMMA RollbackSends ==
  ASSUME MachineInv, CapsInv, NEW todo, todo = RollbackReqs(point, machine.zones, machine.sockets)
  PROVE  /\ todo \in Seq(ReqsOf("rollback"))
         /\ \A r : Sends(todo, r) <=> \E zone \in Zones, s \in Sockets, i \in {0, 1} : r = CapReq(zone, i, s, point[zone][s][i])
<1> DEFINE X == ReqsOf("rollback")
           N == Len(machine.zones)
           Q(zone) == FlattenSeq([j \in 1..machine.sockets |-> <<CapReq(zone, 0, j - 1, point[zone][j - 1][0]),
                                                                 CapReq(zone, 1, j - 1, SecondCap(point, zone, j - 1))>>])
           B == [z \in 1..N |-> Q(machine.zones[z])]
           R(zone, s, i) == CapReq(zone, i, s, point[zone][s][i])
<1>1. N \in Nat /\ (\A z \in 1..N : machine.zones[z] \in Zones) /\ \A zone \in Zones : \E z \in 1..N : machine.zones[z] = zone
  <2>1. machine.zones \in Seq(CounterTypes)
    BY MachineFacts
  <2> QED
    BY <2>1 DEF Zones, Range
<1>2. ASSUME NEW zone \in Zones
      PROVE  Q(zone) \in Seq(X) /\ \A r : Sends(Q(zone), r) <=> \E s \in Sockets, i \in {0, 1} : r = R(zone, s, i)
  BY ZoneReqs
<1>3. todo = FlattenSeq(B)
  BY DEF RollbackReqs
<1> HIDE DEF Q, X, R, N
<1>4. B \in [1..N -> Seq(X)]
  BY <1>1, <1>2
<1>5. \A z \in 1..N : B[z] = Q(machine.zones[z])
  OBVIOUS
<1> HIDE DEF B
<1>6. Joins(todo, B, N, X)
  BY <1>1, <1>3, <1>4, JoinedReqs
<1>7. ASSUME NEW r PROVE Sends(todo, r) <=> \E zone \in Zones, s \in Sockets, i \in {0, 1} : r = R(zone, s, i)
  <2>1. ASSUME NEW z \in 1..N, Sends(B[z], r) PROVE \E zone \in Zones, s \in Sockets, i \in {0, 1} : r = R(zone, s, i)
    <3>1. PICK zone \in Zones : Sends(Q(zone), r)
      BY <1>1, <1>5, <2>1
    <3> QED
      BY <1>2, <3>1
  <2>2. ASSUME NEW zone \in Zones, NEW s \in Sockets, NEW i \in {0, 1}, r = R(zone, s, i) PROVE \E z \in 1..N : Sends(B[z], r)
    <3>1. Sends(Q(zone), r)
      BY <1>2, <2>2
    <3>2. PICK z \in 1..N : machine.zones[z] = zone
      BY <1>1
    <3> QED
      BY <1>5, <3>1, <3>2
  <2> QED
    BY <1>6, <2>1, <2>2 DEF Joins
<1> QED
  BY <1>6, <1>7 DEF X, Joins, R
\* PowerCapper: the operations that set caps.
LEMMA CapOpsOk ==
  ASSUME ProxyInv, NEW zone \in CounterTypes, NEW cap \in [value : {2, 4}, preparedOnly : BOOLEAN], CapOp(zone, cap)
  PROVE  ProxyInv' /\ last' = NoResult
<1>0. MachineInv /\ zone \in Zones
  BY DEF ProxyInv, CapOp, Zones
<1>1. cap \in Caps
  BY DEF Caps
<1>2. CASE Begin("caps", 0, "set", SetAllReqs(zone, machine.sockets, cap), [zone |-> zone, cap |-> cap])
  <2>1. PICK todo : todo = SetAllReqs(zone, machine.sockets, cap)
    OBVIOUS
  <2>2. PICK share : share = [cap EXCEPT !.value = @ \div machine.sockets]
    OBVIOUS
  <2>3. todo \in Seq(ReqsOf("set")) /\ \A r : Sends(todo, r) <=> \E s \in Sockets, i \in {0, 1} : r = CapReq(zone, i, s, share)
    BY <1>0, <1>1, <2>1, <2>2, AllSocketsReqs
  <2>4. PICK arg : arg = [zone |-> zone, cap |-> cap]
    OBVIOUS
  <2>5. arg.zone = zone /\ arg.cap = cap
    BY <2>4
  <2>6. WalkBegins("set", arg, todo)
    BY <1>0, <2>2, <2>3, <2>5 DEF WalkBegins
  <2>7. ASSUME NEW n \in DOMAIN todo PROVE todo[n].module \in Active
    <3>1. Sends(todo, todo[n])
      BY DEF Sends
    <3>2. PICK s, i : todo[n] = CapReq(zone, i, s, share)
      BY <2>3, <3>1
    <3> QED
      BY <3>2 DEF CapReq, Active
  <2>8. Begin("caps", 0, "set", todo, arg)
    BY <1>2, <2>1, <2>4
  <2> QED
    BY <2>3, <2>6, <2>7, <2>8, BeginCaps DEF CapOps
<1>3. ASSUME NEW s \in 0..(machine.sockets - 1), Begin("caps", 0, "setSocket", SetSocketReqs(zone, s, cap), 0)
      PROVE  ProxyInv' /\ last' = NoResult
  <2>1. PICK todo : todo = SetSocketReqs(zone, s, cap)
    OBVIOUS
  <2>2. \A i \in {0, 1} : CapReq(zone, i, s, cap) \in ReqsOf("setSocket")
    BY <1>0, <1>1, CapReqIn DEF CapOps, Sockets
  <2>3. SendsWindows(todo, zone, s, cap, ReqsOf("setSocket"))
    BY <2>1, <2>2, SocketReqs
  <2>4. ASSUME NEW n \in DOMAIN todo PROVE todo[n].module \in Active
    <3>1. Sends(todo, todo[n])
      BY DEF Sends
    <3>2. PICK i : todo[n] = CapReq(zone, i, s, cap)
      BY <2>3, <3>1 DEF SendsWindows
    <3> QED
      BY <3>2 DEF CapReq, Active
  <2>5. WalkBegins("setSocket", 0, todo)
    BY DEF WalkBegins
  <2>6. Begin("caps", 0, "setSocket", todo, 0) /\ todo \in Seq(ReqsOf("setSocket"))
    BY <1>3, <2>1, <2>3 DEF SendsWindows
  <2> QED
    BY <2>4, <2>5, <2>6, BeginCaps DEF CapOps
<1>4. ASSUME NEW s \in 0..(machine.sockets - 1), NEW i \in {0, 1}, Begin("caps", 0, "setWindow", <<CapReq(zone, i, s, cap)>>, 0)
      PROVE  ProxyInv' /\ last' = NoResult
  <2>1. PICK r : r = CapReq(zone, i, s, cap)
    OBVIOUS
  <2>2. r \in ReqsOf("setWindow") /\ r.module \in Active
    BY <1>0, <1>1, <2>1, CapReqIn DEF CapOps, Sockets
  <2>3. <<r>> \in Seq(ReqsOf("setWindow")) /\ \A n \in DOMAIN <<r>> : <<r>>[n].module \in Active
    BY <2>2
  <2>4. WalkBegins("setWindow", 0, <<r>>)
    BY DEF WalkBegins
  <2>5. Begin("caps", 0, "setWindow", <<r>>, 0)
    BY <1>4, <2>1
  <2> QED
    BY <2>3, <2>4, <2>5, BeginCaps DEF CapOps
<1> QED
  BY <1>2, <1>3, <1>4 DEF CapOp

\* Energy::rollback()
LEMMA RollbackOk ==
  ASSUME ProxyInv, RollbackCaps
  PROVE  ProxyInv' /\ last' = NoResult
<1>0. MachineInv /\ CapsInv
  BY DEF ProxyInv
<1>1. PICK todo : todo = RollbackReqs(point, machine.zones, machine.sockets)
  OBVIOUS
<1>2. /\ todo \in Seq(ReqsOf("rollback"))
      /\ \A r : Sends(todo, r) <=> \E zone \in Zones, s \in Sockets, i \in {0, 1} : r = CapReq(zone, i, s, point[zone][s][i])
  BY <1>0, <1>1, RollbackSends
<1>3. ASSUME NEW n \in DOMAIN todo PROVE todo[n].module \in Active
  <2>1. Sends(todo, todo[n])
    BY DEF Sends
  <2>2. PICK zone, s, i : todo[n] = CapReq(zone, i, s, point[zone][s][i])
    BY <1>2, <2>1
  <2> QED
    BY <2>2 DEF CapReq, Active
<1>4. WalkBegins("rollback", 0, todo)
  BY <1>2 DEF WalkBegins
<1>5. Begin("caps", 0, "rollback", todo, 0)
  BY <1>1 DEF RollbackCaps
<1> QED
  BY <1>2, <1>3, <1>4, <1>5, BeginCaps DEF CapOps
-----------------------------------------------------------------------------
(* Every step.                                                             *)

Results == FailuresAreKnown /\ CapsRestored

\* A request that is answered.
LEMMA ServeKeeps ==
  ASSUME ProxyInv, Serve
  PROVE  ProxyInv' /\ Results'
<1>1. PICK o, req : ServeStep(o, req)
  BY ServeParts
<1>2. MachineInv /\ ServantInv /\ machine' = machine /\ SameServant(servant')
  BY <1>1, ServeFacts
<1>3. MachineInv' /\ ServantInv'
  BY <1>2, SameServantFacts DEF MachineInv
<1>4. ObjectsInv' /\ CallInv' /\ CapsInv' /\ WalkInv'
  BY <1>1, ServeObjects, ServeCall, ServeCapsType, ServeWalkOn
<1>5. FailuresAreKnown' /\ CapsRestored'
  BY <1>1, ServeFailures, ServeRestored
<1> QED
  BY <1>3, <1>4, <1>5 DEF ProxyInv, Results

\* A call that has only begun has not come to anything.
LEMMA NothingYet ==
  ASSUME last' = NoResult
  PROVE  Results'
<1>1. last'.status = "ok" /\ last'.op = "none"
  BY DEF NoResult
<1>2. FailuresAreKnown' /\ CapsRestored'
  BY <1>1, NoFailure, NoCapsToRestore
<1> QED
  BY <1>2 DEF Results

\* Time passes, or nothing happens at all.
LEMMA StillKeeps ==
  ASSUME ProxyInv, Results, UNCHANGED <<machine, servant, cl, caps, point, call, last>>
  PROVE  ProxyInv' /\ Results'
<1>1. MachineInv' /\ ServantInv' /\ Found' = Found /\ Zones' = Zones /\ Sockets' = Sockets
  BY DEF ProxyInv, MachineInv, ServantInv, Found, Zones, Sockets
<1>2. ObjectsInv' /\ CapsInv'
  BY <1>1 DEF ProxyInv, ObjectsInv, ObjectOk, CapsInv
<1>3. ReqsOf(call.op)' = ReqsOf(call.op) /\ Active' = Active
  BY <1>1, SameReqs DEF Active
<1>4. CallInv'
  BY <1>1, <1>3 DEF ProxyInv, CallInv
<1>5. WalkInv
  BY DEF ProxyInv
<1>6. WalkInv'
  <2>1. call' = call /\ caps' = caps /\ point' = point /\ machine' = machine
    OBVIOUS
  <2>2. AimZones' = AimZones /\ (\A zone, s, i : Aim(zone, s, i)' = Aim(zone, s, i)) /\ \A zone, s, i : AimReq(zone, s, i)' = AimReq(zone, s, i)
    BY <2>1 DEF AimZones, Aim, AimReq, Zones
  <2>3. call'.op \in {"set", "rollback"} =>
          /\ AimZones' \subseteq Zones'
          /\ \A n \in DOMAIN call'.todo : \E zone \in AimZones', s \in Sockets', i \in {0, 1} : call'.todo[n] = AimReq(zone, s, i)'
    <3>1. call.op \in {"set", "rollback"} =>
            /\ AimZones \subseteq Zones
            /\ \A n \in DOMAIN call.todo : \E zone \in AimZones, s \in Sockets, i \in {0, 1} : call.todo[n] = AimReq(zone, s, i)
      BY <1>5 DEF WalkInv
    <3> QED
      BY <1>1, <2>1, <2>2, <3>1
  <2>4. call'.op \in {"set", "rollback"} =>
          \A zone \in AimZones', s \in Sockets', i \in {0, 1} :
            caps'[zone][s].watts[i] = Aim(zone, s, i)'.value \/ \E n \in DOMAIN call'.todo : call'.todo[n] = AimReq(zone, s, i)'
    <3>1. call.op \in {"set", "rollback"} =>
            \A zone \in AimZones, s \in Sockets, i \in {0, 1} :
              caps[zone][s].watts[i] = Aim(zone, s, i).value \/ \E n \in DOMAIN call.todo : call.todo[n] = AimReq(zone, s, i)
      BY <1>5 DEF WalkInv
    <3> QED
      BY <1>1, <2>1, <2>2, <3>1
  <2>5. call'.op = "rollback" =>
          \A zone \in Zones', s \in Sockets', i \in {0, 1} :
            caps'[zone][s].watts[i] \in {call'.was[zone][s].watts[i], point'[zone][s][i].value}
    BY <1>1, <1>5, <2>1 DEF WalkInv
  <2>6. ASSUME call'.op = "rollback", NEW zone \in Zones', NEW s \in Sockets'
        PROVE  \/ caps'[zone][s].enabled = ~point'[zone][s][0].preparedOnly
               \/ \E n \in DOMAIN call'.todo, i \in {0, 1} : call'.todo[n] = AimReq(zone, s, i)'
    <3>1. \/ caps[zone][s].enabled = ~point[zone][s][0].preparedOnly
          \/ \E n \in DOMAIN call.todo, i \in {0, 1} : call.todo[n] = AimReq(zone, s, i)
      BY <1>1, <1>5, <2>1, <2>6 DEF WalkInv
    <3>2. CASE caps[zone][s].enabled = ~point[zone][s][0].preparedOnly
      BY <2>1, <3>2
    <3>3. CASE \E n \in DOMAIN call.todo, i \in {0, 1} : call.todo[n] = AimReq(zone, s, i)
      BY <2>1, <2>2, <3>3
    <3> QED
      BY <3>1, <3>2, <3>3
  <2>7. call'.op = "rollback" =>
          \A zone \in Zones', s \in Sockets' :
            \/ caps'[zone][s].enabled = ~point'[zone][s][0].preparedOnly
            \/ \E n \in DOMAIN call'.todo, i \in {0, 1} : call'.todo[n] = AimReq(zone, s, i)'
    BY <2>6, Zenon
  <2> QED
    BY <2>3, <2>4, <2>5, <2>7 DEF WalkInv
<1>7. Results'
  BY DEF Results, FailuresAreKnown, CapsRestored
<1> QED
  BY <1>1, <1>2, <1>4, <1>6, <1>7 DEF ProxyInv
\* A call that sends nothing, and what may have become of the servant and of
\* the objects.
LEMMA ReturnKeeps ==
  ASSUME ProxyInv, NEW family, NEW k, NEW op, NEW status, NEW val, Return(family, k, op, status, val),
         SameServant(servant'), ObjectsInv'
  PROVE  /\ ProxyInv' /\ call.op = "none"
         /\ last'.op = op /\ last'.k = k /\ last'.status = status /\ last'.val = val
<1>1. /\ machine' = machine /\ caps' = caps /\ point' = point /\ call' = call /\ call.op = "none"
      /\ last' = [NoResult EXCEPT !.op = op, !.k = k, !.status = status, !.val = val]
  BY DEF Return, Ready
<1>2. last'.op = op /\ last'.k = k /\ last'.status = status /\ last'.val = val
  BY <1>1 DEF NoResult
<1>3. MachineInv' /\ ServantInv' /\ Found' = Found
  BY <1>1, SameServantFacts DEF ProxyInv, MachineInv
<1>4. CapsInv'
  BY <1>1 DEF ProxyInv, CapsInv, Zones, Sockets
<1>5. WalkInv'
  BY <1>1 DEF WalkInv
<1>6. ReqsOf("none") = {} /\ "none" \notin CapOps
  BY DEF ReqsOf, EnergyReqs, CoreReqs, FreqReqs, CapReqs, Getters, Constructors, CoreCmds, LevelCmds, UnitCmds, CpuCmds, CapOps, BoostCmds
<1>7. call.todo = <<>>
  BY <1>1, <1>6 DEF ProxyInv, CallInv
<1>8. CallInv'
  BY <1>1, <1>3, <1>6, <1>7 DEF ProxyInv, CallInv
<1> QED
  BY <1>1, <1>2, <1>3, <1>4, <1>5, <1>8 DEF ProxyInv
\* The objects, if neither they nor the servant change.
LEMMA SameObjects ==
  ASSUME ProxyInv, machine' = machine, servant' = servant, cl' = cl
  PROVE  ObjectsInv' /\ SameServant(servant')
<1>0. ObjectsInv /\ ServantInv
  BY DEF ProxyInv
<1>1. Found' = Found
  BY DEF Found
<1>2. SameServant(servant)
  BY <1>0 DEF ServantInv, SameServant, SameDevice, SameCounter, SameCpuFreq
<1> QED
  BY <1>0, <1>1, <1>2 DEF ObjectsInv, ObjectOk

\* A call that sends nothing and leaves the servant and the objects.
LEMMA ReturnSame ==
  ASSUME ProxyInv, NEW family, NEW k, NEW op, NEW status, NEW val, Return(family, k, op, status, val), UNCHANGED <<servant, cl>>,
         op \notin {"rollback", "set"}, status \in {"ok", "pointer thrown"} \/ (status = "thrown" /\ op = "clockModulation")
  PROVE  ProxyInv' /\ Results'
<1>0. machine' = machine /\ servant' = servant /\ cl' = cl
  BY DEF Return
<1>1. ObjectsInv' /\ SameServant(servant')
  BY <1>0, SameObjects
<1>2. ProxyInv' /\ last'.op = op /\ last'.k = k /\ last'.status = status
  BY <1>1, ReturnKeeps
<1>3. CapsRestored'
  BY <1>2, NoCapsToRestore
<1>4. FailuresAreKnown'
  <2>1. CASE status \in {"ok", "pointer thrown"}
    BY <1>2, <2>1, NoFailure
  <2>2. CASE status = "thrown" /\ op = "clockModulation"
    BY <1>2, <2>2 DEF FailuresAreKnown
  <2> QED
    BY <2>1, <2>2
<1> QED
  BY <1>2, <1>3, <1>4 DEF Results

\* Mammut::releaseModules()
LEMMA ReleaseKeeps ==
  ASSUME ProxyInv, NEW k \in Objects, ReleaseModules(k)
  PROVE  ProxyInv' /\ Results'
<1>0. MachineInv /\ ServantInv /\ ObjectsInv
  BY DEF ProxyInv
<1>1. PICK status \in {"ok", "crashed"} :
        /\ Return("facade", k, "releaseModules", status, 0)
        /\ servant' = IF status = "crashed" THEN [servant EXCEPT !.status = "abandoned"] ELSE servant
  BY DEF ReleaseModules
<1>2. cl' = [cl EXCEPT ![k] = NoModules] /\ machine' = machine
  BY <1>1 DEF ReleaseModules, Return
<1>3. SameServant(servant)
  BY <1>0 DEF ServantInv, SameServant, SameDevice, SameCounter, SameCpuFreq
<1>4. SameServant(servant')
  BY <1>0, <1>1, <1>3, SameServantStatus
<1>5. ObjectOk(NoModules)
  BY DEF ObjectOk, IsModules, NoModules
<1>6. \A c : ObjectOk(c) => ObjectOk(c)'
  BY <1>0, <1>2, <1>4, ObjectKept
<1>7. ObjectOk(NoModules)'
  BY <1>5, <1>6
<1>8. ObjectsInv'
  BY <1>0, <1>2, <1>6, <1>7, OneObject
<1>9. ProxyInv' /\ last'.op = "releaseModules" /\ last'.status = status
  BY <1>1, <1>4, <1>8, ReturnKeeps
<1>10. CapsRestored' /\ FailuresAreKnown'
  BY <1>9, NoCapsToRestore DEF FailuresAreKnown
<1> QED
  BY <1>9, <1>10 DEF Results

\* Energy::getRollbackPoint()
LEMMA PointKeeps ==
  ASSUME ProxyInv, GetRollbackPoint
  PROVE  ProxyInv' /\ Results'
<1>0. MachineInv /\ ServantInv /\ ObjectsInv /\ CapsInv /\ CallInv
  BY DEF ProxyInv
<1>1. machine' = machine /\ servant' = servant /\ cl' = cl /\ caps' = caps /\ call' = call /\ call.op = "none"
  BY DEF GetRollbackPoint, Ready
<1>2. PICK status \in {"ok", "thrown"} :
        /\ last' = [NoResult EXCEPT !.op = "getRollbackPoint", !.status = status]
        /\ point' = IF status = "ok" THEN CapsPoint(caps) ELSE point
  BY DEF GetRollbackPoint
<1>3. last'.op = "getRollbackPoint" /\ last'.status = status
  BY <1>2 DEF NoResult
<1>4. ObjectsInv' /\ SameServant(servant')
  BY <1>1, SameObjects
<1>5. MachineInv' /\ ServantInv' /\ Found' = Found /\ Zones' = Zones /\ Sockets' = Sockets
  BY <1>0, <1>1, <1>4, SameServantFacts DEF MachineInv, Zones, Sockets
<1>6. CapsInv'
  <2>1. CASE status = "thrown"
    BY <1>0, <1>1, <1>2, <1>5, <2>1 DEF CapsInv
  <2>2. CASE status = "ok"
    <3>1. IsCaps(caps, Zones, Sockets)
      BY <1>0 DEF CapsInv, IsCaps
    <3>2. /\ CapsPoint(caps) \in [Zones -> [Sockets -> [{0, 1} -> Caps]]]
          /\ \A zone \in Zones, s \in Sockets, i \in {0, 1} :
               CapsPoint(caps)[zone][s][i].preparedOnly = ~caps[zone][s].enabled
      BY <3>1, CapsPointFacts
    <3>3. point' = CapsPoint(caps)
      BY <1>2, <2>2
    <3> QED
      BY <1>0, <1>1, <1>5, <3>2, <3>3 DEF CapsInv
  <2> QED
    BY <2>1, <2>2
<1>7. WalkInv'
  BY <1>1 DEF WalkInv
<1>8. CallInv'
  <2>1. ReqsOf("none") = {} /\ "none" \notin CapOps
    BY DEF ReqsOf, EnergyReqs, CoreReqs, FreqReqs, CapReqs, Getters, Constructors, CoreCmds, LevelCmds, UnitCmds, CpuCmds, CapOps, BoostCmds
  <2>2. call.todo = <<>>
    BY <1>0, <1>1, <2>1 DEF CallInv
  <2> QED
    BY <1>0, <1>1, <1>5, <2>1, <2>2 DEF CallInv
<1>9. CapsRestored' /\ FailuresAreKnown'
  BY <1>3, NoCapsToRestore DEF FailuresAreKnown
<1> QED
  BY <1>4, <1>5, <1>6, <1>7, <1>8, <1>9 DEF ProxyInv, Results

\* Every step keeps the invariant, and what the last call came to.
LEMMA ProxyStep ==
  ASSUME ProxyInv, Results, [ProxyNext]_proxyVars
  PROVE  ProxyInv' /\ Results'
<1>1. ASSUME ProxyInv', last' = NoResult PROVE ProxyInv' /\ Results'
  BY <1>1, NothingYet DEF ProxyInv
<1>2. CASE UNCHANGED proxyVars
  BY <1>2, StillKeeps DEF proxyVars
<1>3. ASSUME NEW watts, NEW cores, NEW l, Tick(watts, cores, l) PROVE ProxyInv' /\ Results'
  BY <1>3, StillKeeps DEF Tick
<1>4. CASE Sample
  BY <1>4, StillKeeps DEF Sample
<1>5. CASE Serve
  BY <1>5, ServeKeeps
<1>6. CASE GetRollbackPoint
  BY <1>6, PointKeeps
<1>7. CASE RollbackCaps
  BY <1>1, <1>7, RollbackOk
<1>8. ASSUME NEW zone \in CounterTypes, NEW cap \in [value : {2, 4}, preparedOnly : BOOLEAN], CapOp(zone, cap) PROVE ProxyInv' /\ Results'
  BY <1>1, <1>8, CapOpsOk
<1>9. ASSUME NEW k \in Objects, NewTopology(k) \/ NewEnergy(k) \/ NewCpuFreq(k) PROVE ProxyInv' /\ Results'
  BY <1>1, <1>9, NewModules
<1>10. ASSUME NEW k \in Objects, GetInstanceTask(k) PROVE ProxyInv' /\ Results'
  <2>1. Return("facade", k, "getInstanceTask", "pointer thrown", 0) /\ UNCHANGED <<servant, cl>>
    BY <1>10 DEF GetInstanceTask
  <2>2. "getInstanceTask" \notin {"rollback", "set"}
    OBVIOUS
  <2> QED
    BY <2>1, <2>2, ReturnSame
<1>11. ASSUME NEW k \in Objects, ReleaseModules(k) PROVE ProxyInv' /\ Results'
  BY <1>11, ReleaseKeeps
<1>12. ASSUME NEW k \in Objects, NEW type \in CounterTypes, EnergyOp(k, type) PROVE ProxyInv' /\ Results'
  BY <1>1, <1>12, EnergyOps
<1>13. ASSUME NEW k \in Objects, DefaultCounter(k) PROVE ProxyInv' /\ Results'
  <2>1. PICK val : Return("counters", k, "getCounter", "ok", val) /\ UNCHANGED <<servant, cl>>
    BY <1>13 DEF DefaultCounter
  <2>2. "getCounter" \notin {"rollback", "set"}
    OBVIOUS
  <2> QED
    BY <2>1, <2>2, ReturnSame
<1>14. ASSUME NEW k \in Objects, ClockModulation(k) PROVE ProxyInv' /\ Results'
  <2>1. Return("cores", k, "clockModulation", "thrown", 0) /\ UNCHANGED <<servant, cl>>
    BY <1>14 DEF ClockModulation
  <2>2. "clockModulation" \notin {"rollback", "set"}
    OBVIOUS
  <2> QED
    BY <2>1, <2>2, ReturnSame
<1>16. ASSUME NEW k \in Objects, NEW v \in machine.cores,
              \/ \E cmd \in CoreCmds \ {"IdleLevelsGet"} : CoreOp(k, v, cmd)
              \/ \E l \in machine.levels, cmd \in LevelCmds : LevelOp(k, v, l, cmd)
              \/ \E cmd \in {"Maximize", "Reset"}, type \in {"physical", "virtual"} : UnitOp(k, cmd, type, v)
       PROVE  ProxyInv' /\ Results'
  BY <1>1, <1>16, CoreOps DEF UnitCmds
<1>17. ASSUME NEW k \in Objects,
              \/ \E cmd \in {"Maximize", "Reset"}, type \in {"topology", "cpu"} : UnitOp(k, cmd, type, 0)
              \/ \E cmd \in CpuCmds : UnitOp(k, cmd, "cpu", 0)
              \/ \E cmd \in {"IsBoostingSupported", "IsBoostingEnabled", "EnableBoosting", "DisableBoosting"} : BoostOp(k, cmd)
       PROVE  ProxyInv' /\ Results'
  BY <1>1, <1>17, WholeOps DEF UnitCmds, BoostCmds
<1> QED
  BY <1>2, <1>3, <1>4, <1>5, <1>6, <1>7, <1>8, <1>9, <1>10, <1>11, <1>12, <1>13, <1>14, <1>16, <1>17 DEF ProxyNext
-----------------------------------------------------------------------------
(* The initial states.                                                     *)

\* A new counter is of the kind that was found.
LEMMA NewCounterFacts ==
  ASSUME NEW w, NEW kind \in AllKinds
  PROVE  IsCounter(NewCounter(kind, w)) /\ NewCounter(kind, w).kind = kind /\ ~NoDevice(NewCounter(kind, w))
<1>1. PICK c : c = [NoCounter EXCEPT !.kind = kind]
  OBVIOUS
<1>2. IsCounter(c) /\ c.kind = kind
  BY <1>1 DEF IsCounter, NoCounter
<1>3. NewCounter(kind, w) = InitCounter(c, w)
  BY <1>1 DEF NewCounter
<1>4. ASSUME NEW x, NEW y
      PROVE  \A d \in {c, [c EXCEPT !.last = x], [c EXCEPT !.at = x], [c EXCEPT !.last = x, !.at = y],
                       [c EXCEPT !.last = x, !.dev = TRUE], [c EXCEPT !.at = x, !.dev = TRUE]} : IsCounter(d) /\ d.kind = kind
  BY <1>2 DEF IsCounter
<1>5. IsCounter(InitCounter(c, w)) /\ InitCounter(c, w).kind = kind
  BY <1>2, <1>4 DEF AllKinds, InitCounter, InitAmester, InitSmartGauge, InitSmartPower2, InitFile, InitIna, ResetRapl, InitMemory
<1>6. kind = "smartgauge" => InitCounter(c, w).dev
  BY <1>2 DEF InitCounter, InitSmartGauge, IsCounter
<1> QED
  BY <1>3, <1>5, <1>6 DEF NoDevice

\* Energy::Energy(): the counters are of the kinds of their types.
LEMMA EnergyFacts ==
  ASSUME NEW m, NEW w, NEW e, e = Energy(m, w)
  PROVE  /\ IsCounters(e) /\ \A type \in CounterTypes : IsCounter(e[type]) /\ e[type].kind \in Kinds[type] /\ ~NoDevice(e[type])
         /\ \A type \in CounterTypes : e[type].kind = "amester" => e[type] = NewCounter("amester", w)
<1>0. IsCounter(NoCounter) /\ NoCounter.kind = "none" /\ ~NoDevice(NoCounter)
  BY DEF IsCounter, NoCounter, NoDevice
<1>1. \A kind \in AllKinds : IsCounter(NewCounter(kind, w)) /\ NewCounter(kind, w).kind = kind /\ ~NoDevice(NewCounter(kind, w))
  BY NewCounterFacts
<1>2. /\ IsCounter(FirstPlug(m, w)) /\ FirstPlug(m, w).kind \in Kinds.plug /\ ~NoDevice(FirstPlug(m, w))
      /\ FirstPlug(m, w).kind = "amester" => FirstPlug(m, w) = NewCounter("amester", w)
  <2> DEFINE I == {i \in 1..Len(PlugKinds) : PlugKinds[i] \in m.plugs}
             first == IF I # {} THEN Min(I) ELSE 0
  <2>1. FirstPlug(m, w) = IF first = 0 THEN NoCounter ELSE NewCounter(PlugKinds[first], w)
    BY DEF FirstPlug, SelectInSeq
  <2>2. first = 0 \/ first \in 1..5
    <3>1. I \subseteq 1..5 /\ I \subseteq Nat /\ IsFiniteSet(1..5)
      <4>1. Len(PlugKinds) = 5
        BY DEF PlugKinds
      <4>2. IsFiniteSet(1..5)
        <5>1. 1 \in Int /\ 5 \in Int
          OBVIOUS
        <5> QED
          BY <5>1, FS_Interval, Zenon
      <4> QED
        BY <4>1, <4>2
    <3>2. IsFiniteSet(I)
      BY <3>1, FS_Subset
    <3> HIDE DEF I
    <3>3. I # {} => Min(I) \in I
      BY <3>1, <3>2, MinMax
    <3> QED
      BY <3>1, <3>3
  <2> HIDE DEF first
  <2>3. CASE first = 0
    BY <1>0, <2>1, <2>3 DEF Kinds
  <2>4. CASE first \in 1..5 /\ first # 0
    <3>1. PlugKinds[first] \in AllKinds /\ PlugKinds[first] \in Kinds.plug
      BY <2>4 DEF PlugKinds, AllKinds, Kinds
    <3> QED
      BY <1>1, <2>1, <2>4, <3>1
  <2> QED
    BY <2>2, <2>3, <2>4
<1>3. IsCounter(FirstCpus(m, w)) /\ FirstCpus(m, w).kind \in Kinds.cpus /\ ~NoDevice(FirstCpus(m, w))
  BY <1>0, <1>1 DEF FirstCpus, Kinds, AllKinds
<1>4. /\ IsCounter(FirstMemory(m, w)) /\ FirstMemory(m, w).kind \in Kinds.memory /\ ~NoDevice(FirstMemory(m, w))
      /\ FirstMemory(m, w).kind = "amester" => FirstMemory(m, w) = NewCounter("amester", w)
  <2>1. PICK c : c = NewCounter("dram", w)
    OBVIOUS
  <2>2. IsCounter(c) /\ c.kind = "dram"
    BY <1>1, <2>1 DEF AllKinds
  <2>3. /\ IsCounter([c EXCEPT !.last = w.joules]) /\ [c EXCEPT !.last = w.joules].kind = "dram"
        /\ ~NoDevice([c EXCEPT !.last = w.joules])
    BY <2>2 DEF IsCounter, NoDevice
  <2>4. IsCounter(NewCounter("amester", w)) /\ NewCounter("amester", w).kind = "amester" /\ ~NoDevice(NewCounter("amester", w))
    BY <1>1 DEF AllKinds
  <2> QED
    BY <1>0, <2>1, <2>3, <2>4 DEF FirstMemory, Kinds
<1>5. e.plug = FirstPlug(m, w) /\ e.cpus = FirstCpus(m, w) /\ e.memory = FirstMemory(m, w) /\ IsCounters(e)
  BY DEF Energy, IsCounters
<1>6. /\ e["plug"] = e.plug /\ e["cpus"] = e.cpus /\ e["memory"] = e.memory
      /\ Kinds["plug"] = Kinds.plug /\ Kinds["cpus"] = Kinds.cpus /\ Kinds["memory"] = Kinds.memory
  OBVIOUS
<1>7. \A type \in CounterTypes : IsCounter(e[type]) /\ e[type].kind \in Kinds[type]
  BY <1>2, <1>3, <1>4, <1>5, <1>6 DEF CounterTypes
<1>8. \A type \in CounterTypes : e[type].kind = "amester" => e[type] = NewCounter("amester", w)
  <2>1. FirstCpus(m, w).kind # "amester"
    BY <1>3 DEF Kinds
  <2> QED
    BY <1>2, <1>4, <1>5, <1>6, <2>1 DEF CounterTypes
<1>9. \A type \in CounterTypes : ~NoDevice(e[type])
  BY <1>2, <1>3, <1>4, <1>5, <1>6 DEF CounterTypes
<1> QED
  BY <1>5, <1>7, <1>8, <1>9

\* What the invariant says of the initial states.
LEMMA ProxyStart ==
  ASSUME ProxyInit
  PROVE  ProxyInv /\ Results
<1>1. MachineInv
  BY DEF ProxyInit, MachineInv
<1>2. ServantInv
  <2>1. PICK e : e = Energy(machine, world)
    OBVIOUS
  <2>2. PICK t : t = TopologyNew(machine, world)
    OBVIOUS
  <2>3. servant = [status |-> "up", energy |-> e, topology |-> t, cpufreq |-> [domains |-> machine.domains, boost |-> machine.boost]]
    BY <2>1, <2>2 DEF ProxyInit, Servant
  <2>4. /\ servant.energy = e /\ servant.cpufreq.domains = machine.domains /\ servant.cpufreq.boost = machine.boost
        /\ IsServant(servant) /\ IsCpuFreq(servant.cpufreq)
    BY <2>3 DEF IsServant, IsCpuFreq
  <2>5. /\ IsCounters(e) /\ \A type \in CounterTypes : IsCounter(e[type]) /\ e[type].kind \in Kinds[type]
        /\ \A type \in CounterTypes : ~NoDevice(e[type])
    BY <2>1, EnergyFacts
  <2> QED
    BY <2>4, <2>5 DEF ServantInv
<1>3. ObjectsInv
  <2>1. ObjectOk(NoModules)
    BY DEF ObjectOk, IsModules, NoModules
  <2>2. cl = [k \in Objects |-> NoModules]
    BY DEF ProxyInit
  <2> QED
    BY <2>1, <2>2 DEF ObjectsInv
<1>4. call = NoCall /\ last = NoResult
  BY DEF ProxyInit
<1>5. CallInv
  <2>1. IsCall(call) /\ call.op = "none" /\ call.sent = 0 /\ call.todo = <<>> /\ call.counters = {}
    BY <1>4 DEF NoCall, IsCall
  <2> QED
    BY <2>1 DEF CallInv
<1>6. WalkInv
  BY <1>4 DEF WalkInv, NoCall
<1>7. CapsInv
  <2>1. caps = [zone \in Zones |-> [s \in Sockets |-> [watts |-> [i \in {0, 1} |-> 9], enabled |-> TRUE]]]
    BY DEF ProxyInit, Zones, Sockets
  <2>2. [watts |-> [i \in {0, 1} |-> 9], enabled |-> TRUE] \in [watts : [{0, 1} -> Nat], enabled : BOOLEAN]
    OBVIOUS
  <2>3. IsCaps(caps, Zones, Sockets)
    BY <2>1, <2>2 DEF IsCaps
  <2>4. /\ CapsPoint(caps) \in [Zones -> [Sockets -> [{0, 1} -> Caps]]]
        /\ \A zone \in Zones, s \in Sockets, i \in {0, 1} : CapsPoint(caps)[zone][s][i].preparedOnly = ~caps[zone][s].enabled
    BY <2>3, CapsPointFacts
  <2>5. point = CapsPoint(caps)
    BY DEF ProxyInit
  <2> QED
    BY <2>3, <2>4, <2>5 DEF CapsInv, IsCaps
<1>8. Results
  BY <1>3, <1>4 DEF Results, NoResult, FailuresAreKnown, CapsRestored
<1> QED
  BY <1>1, <1>2, <1>3, <1>5, <1>6, <1>7, <1>8 DEF ProxyInv
-----------------------------------------------------------------------------
(* Theorems.                                                               *)

\* Whatever the machine and however many objects: the servant keeps the
\* counters that it found, whatever fails, the objects know no others, the
\* requests of a call are those of its operation and of modules that answer,
\* and a power cap that a call is to set is set or still to be set.
THEOREM ProxyInvariant == ProxySpec => [](ProxyInv /\ Results)
<1>1. ProxyInit => ProxyInv /\ Results
  BY ProxyStart
<1>2. (ProxyInv /\ Results) /\ [ProxyNext]_proxyVars => (ProxyInv /\ Results)'
  BY ProxyStep
<1> QED
  BY <1>1, <1>2, PTL DEF ProxySpec

\* A remote call fails in the ways that the modules know, and no other:
\* Energy::processMessage() is never asked for a counter that was not found,
\* and no constructor finds a module missing after another one has answered.
THEOREM FailuresAreAlwaysKnown == ProxySpec => []FailuresAreKnown
<1>1. ProxyInv /\ Results => FailuresAreKnown
  BY DEF Results
<1> QED
  BY <1>1, ProxyInvariant, PTL

\* PowerCapper: a rollback restores both windows of every socket of every zone,
\* or, if it fails, each of them or none; a cap for all the sockets gives each
\* its share.
THEOREM CapsAlwaysRestored == ProxySpec => []CapsRestored
<1>1. ProxyInv /\ Results => CapsRestored
  BY DEF Results
<1> QED
  BY <1>1, ProxyInvariant, PTL
-----------------------------------------------------------------------------
(* Idle times, and the times and counts of levels.                         *)

IsWorld(w) == w \in [now : {w.now}, joules : {w.joules}, watts : {w.watts}, seen : {w.seen}, sample : {w.sample}, online : {w.online},
                     idle : {w.idle}, time : {w.time}, count : {w.count}, disabled : {w.disabled}]

\* Files of the machine: an idle time grows by one in a tick at most.
WorldInv ==
  /\ IsWorld(world) /\ world.now \in Nat \ {0} /\ (world.now <= MaxTicks \/ world.now = 1)
  /\ world.idle \in [machine.cores -> Nat]
  /\ world.time \in [machine.cores -> [machine.levels -> Nat]] /\ world.count \in [machine.cores -> [machine.levels -> Nat]]

Baselines == [machine.cores -> [machine.levels -> Int]]
IsTopology(t) == t \in [idle : {t.idle}, time : {t.time}, count : {t.count}, spin : {t.spin}]

TopologyInv ==
  LET t == servant.topology
  IN  IsTopology(t) /\ t.idle = [v \in machine.cores |-> t.idle[v]] /\ t.time \in Baselines /\ t.count \in Baselines

\* What an object has reset, and nobody since, is the baseline at the server.
BaselineOfTime(k, v, l) ==
  <<"time", v, l>> \in DOMAIN own[k] =>
    own[k][<<"time", v, l>>] \in Nat /\ servant.topology.time[v][l] = own[k][<<"time", v, l>>] % W
BaselineOfCount(k, v, l) ==
  <<"count", v, l>> \in DOMAIN own[k] =>
    own[k][<<"count", v, l>>] \in Nat /\ servant.topology.count[v][l] = own[k][<<"count", v, l>>] % W
BaselineOfIdle(k, v) ==
  <<"idle", v>> \in DOMAIN own[k] =>
    LET base == own[k][<<"idle", v>>]
    IN  /\ base.idle \in Nat /\ base.idle <= world.idle[v] /\ world.idle[v] - base.idle < world.now
        /\ base.lines = {v} => servant.topology.idle[v] = StringToInt(base.idle)

ResetInv ==
  /\ own \in [Objects -> {own[k] : k \in Objects}]
  /\ \A k \in Objects, v \in machine.cores : BaselineOfIdle(k, v)
  /\ \A k \in Objects, v \in machine.cores, l \in machine.levels : BaselineOfTime(k, v, l) /\ BaselineOfCount(k, v, l)

ClockInv == WorldInv /\ TopologyInv /\ ResetInv

\* Division with a rest.
LEMMA ModFacts ==
  ASSUME NEW x \in Int
  PROVE  /\ x \div W \in Int /\ x % W \in 0..(W - 1) /\ x % W \in Int /\ x % W = x - W * (x \div W)
         /\ \A r \in 0..(W - 1), q \in Int : x = r + q * W => x % W = r
<1>1. x \div W \in Int
  BY WAssumption
<1>2. x % W \in 0..(W - 1)
  BY WAssumption
<1>3. x % W = x - W * (x \div W)
  BY WAssumption
<1>4. ASSUME NEW r \in 0..(W - 1), NEW q \in Int, x = r + q * W PROVE x % W = r
  <2>1. (r + q * W) % W = r
    BY WAssumption
  <2> QED
    BY <1>4, <2>1
<1>5. x % W \in Int
  BY <1>2, WAssumption
<1> QED
  BY <1>1, <1>2, <1>3, <1>4, <1>5

\* A difference of two numbers that were cut to W values.
LEMMA ModDifference ==
  ASSUME NEW a \in Nat, NEW b \in Nat
  PROVE  ((a % W) - (b % W)) % W = (a - b) % W
<1> DEFINE p == a \div W
           q == b \div W
           s == (a - b) \div W
           r == (a - b) % W
           n == s - p + q
           d == (a % W) - (b % W)
<1>1. p \in Int /\ a % W \in Int /\ a % W = a - W * p
  BY ModFacts
<1>2. q \in Int /\ b % W \in Int /\ b % W = b - W * q
  BY ModFacts
<1>3. a - b \in Int
  OBVIOUS
<1>4. s \in Int /\ r \in 0..(W - 1) /\ r = (a - b) - W * s
  BY <1>3, ModFacts
<1> HIDE DEF p, q, s, r
<1>5. d = r + n * W
  <2>1. n * W = W * s - W * p + W * q
    BY <1>1, <1>2, <1>4, WAssumption
  <2>2. W * s \in Int /\ W * p \in Int /\ W * q \in Int /\ r \in Int
    BY <1>1, <1>2, <1>4, WAssumption
  <2> QED
    BY <1>1, <1>2, <1>4, <2>1, <2>2
<1>6. d \in Int /\ n \in Int
  BY <1>1, <1>2, <1>4
<1> HIDE DEF d, n
<1>7. d % W = r
  BY <1>4, <1>5, <1>6, ModFacts
<1> QED
  BY <1>7 DEF d, r

\* stringToInt() of a number and of one less than W above it.
LEMMA IntDifference ==
  ASSUME NEW x \in Nat, NEW y \in Nat, y <= x, x - y < W
  PROVE  /\ StringToInt(x) \in Int /\ StringToInt(y) \in Int
         /\ StringToInt(x) - StringToInt(y) = x - y - (IF StringToInt(x) < StringToInt(y) THEN W ELSE 0)
<1>h. PICK h : h = W \div 2
  OBVIOUS
<1>0. h \in Nat /\ W \in Nat \ {0}
  BY <1>h, WAssumption
<1>1. PICK a : a = x + h
  OBVIOUS
<1>2. PICK b : b = y + h
  OBVIOUS
<1>3. StringToInt(x) = (a % W) - h /\ StringToInt(y) = (b % W) - h
  BY <1>h, <1>1, <1>2 DEF StringToInt
<1>4. PICK p \in Int, r \in 0..(W - 1) : a % W = r /\ r = a - W * p
  <2>1. a \in Int
    BY <1>0, <1>1
  <2>2. a \div W \in Int /\ a % W \in 0..(W - 1) /\ a % W = a - W * (a \div W)
    BY <2>1, ModFacts
  <2> QED
    BY <2>2, Zenon
<1>5. PICK q \in Int, s \in 0..(W - 1) : b % W = s /\ s = b - W * q
  <2>1. b \in Int
    BY <1>0, <1>2
  <2>2. b \div W \in Int /\ b % W \in 0..(W - 1) /\ b % W = b - W * (b \div W)
    BY <2>1, ModFacts
  <2> QED
    BY <2>2, Zenon
<1>6. PICK n \in Int : n = p - q
  OBVIOUS
<1>7. a - b = (r - s) + W * n
  <2>1. W * n = W * p - W * q /\ W * p \in Int /\ W * q \in Int
    BY <1>0, <1>6
  <2> QED
    BY <1>0, <1>1, <1>2, <1>4, <1>5, <2>1
<1>8. 0 <= a - b /\ a - b < W /\ a - b = x - y
  BY <1>0, <1>1, <1>2
<1>9. n = 0 \/ n = 1
  <2>1. W * n \in Int /\ W * n < 2 * W /\ -W < W * n
    BY <1>0, <1>7, <1>8
  <2>2. n >= 2 => W * n >= 2 * W
    BY <1>0
  <2>3. n <= -1 => W * n <= -W
    BY <1>0
  <2> QED
    BY <1>0, <2>1, <2>2, <2>3
<1>10. CASE n = 0
  <2>1. W * n = 0
    BY <1>0, <1>10
  <2> QED
    BY <1>0, <1>3, <1>4, <1>5, <1>7, <1>8, <2>1
<1>11. CASE n = 1
  <2>1. W * n = W
    BY <1>0, <1>11
  <2> QED
    BY <1>0, <1>3, <1>4, <1>5, <1>7, <1>8, <2>1
<1> QED
  BY <1>9, <1>10, <1>11
-----------------------------------------------------------------------------
(* What the objects have reset.                                            *)

\* The keys of idle times, times, counts and counters.
LEMMA KeyFacts ==
  ASSUME NEW v, NEW l, NEW u, NEW n
  PROVE  /\ <<"idle", v>> # <<"time", u, n>> /\ <<"idle", v>> # <<"count", u, n>> /\ <<"time", v, l>> # <<"count", u, n>>
         /\ <<"idle", v>> # <<"counter", u>> /\ <<"time", v, l>> # <<"counter", u>> /\ <<"count", v, l>> # <<"counter", u>>
         /\ <<"time", v, l>> = <<"time", u, n>> => v = u /\ l = n
         /\ <<"count", v, l>> = <<"count", u, n>> => v = u /\ l = n
         /\ <<"idle", v>> = <<"idle", u>> => v = u
<1>1. /\ <<"idle", v>>[1] = "idle" /\ <<"time", v, l>>[1] = "time" /\ <<"count", v, l>>[1] = "count" /\ <<"counter", u>>[1] = "counter"
      /\ <<"time", u, n>>[1] = "time" /\ <<"count", u, n>>[1] = "count"
  OBVIOUS
<1> QED
  BY <1>1

\* What is held under key is value, whoever holds it, and all else was held.
Rebased(key, value) ==
  /\ own' = [k \in Objects |-> own'[k]]
  /\ \A k \in Objects : \A x \in DOMAIN own'[k] :
       IF x = key THEN own'[k][x] = value ELSE x \in DOMAIN own[k] /\ own'[k][x] = own[k][x]

\* An entry that is lost, or is now of the object whose call it is.
LEMMA RebasedFacts ==
  ASSUME NEW key, NEW value, own' = Hold(key, value) \/ own' = Lose(key)
  PROVE  Rebased(key, value)
<1> DEFINE f == Lose(key)
<1>1. /\ f = [k \in Objects |-> f[k]]
      /\ \A k \in Objects : DOMAIN f[k] = DOMAIN own[k] \ {key} /\ \A x \in DOMAIN own[k] \ {key} : f[k][x] = own[k][x]
  BY DEF Lose, Without
<1> HIDE DEF f
<1>2. CASE own' = f
  BY <1>1, <1>2 DEF Rebased
<1>3. CASE own' = [f EXCEPT ![call.k] = With(@, key, value)]
  <2> DEFINE g == With(f[call.k], key, value)
  <2>1. DOMAIN g = {key} \cup DOMAIN f[call.k] /\ g[key] = value /\ \A x \in DOMAIN f[call.k] : x # key => g[x] = f[call.k][x]
    BY DEF With
  <2>2. own' = [f EXCEPT ![call.k] = g]
    BY <1>3
  <2> HIDE DEF g
  <2>3. own' = [k \in Objects |-> own'[k]] /\ \A k \in Objects : own'[k] = IF k = call.k THEN g ELSE f[k]
    BY <1>1, <2>2
  <2> QED
    BY <1>1, <2>1, <2>3 DEF Rebased
<1> QED
  BY <1>2, <1>3 DEF Hold, f
-----------------------------------------------------------------------------
(* What a step keeps of the baselines.                                     *)

\* A step that leaves the baselines and what was reset, while time may pass.
LEMMA ClockKept ==
  ASSUME ClockInv, machine' = machine, own' = own, WorldInv', TopologyInv',
         servant'.topology.idle = servant.topology.idle, servant'.topology.time = servant.topology.time,
         servant'.topology.count = servant.topology.count,
         \A v \in machine.cores : world.idle[v] <= world'.idle[v] /\ world'.idle[v] - world.idle[v] <= world'.now - world.now
  PROVE  ClockInv'
<1>1. /\ own \in [Objects -> {own[k] : k \in Objects}]
      /\ \A k \in Objects, v \in machine.cores : BaselineOfIdle(k, v)
      /\ \A k \in Objects, v \in machine.cores, l \in machine.levels : BaselineOfTime(k, v, l) /\ BaselineOfCount(k, v, l)
  BY DEF ClockInv, ResetInv
<1>2. ASSUME NEW k \in Objects, NEW v \in machine.cores, NEW l \in machine.levels PROVE BaselineOfTime(k, v, l)' /\ BaselineOfCount(k, v, l)'
  BY <1>1 DEF BaselineOfTime, BaselineOfCount
<1>3. ASSUME NEW k \in Objects, NEW v \in machine.cores PROVE BaselineOfIdle(k, v)'
  <2>1. SUFFICES ASSUME <<"idle", v>> \in DOMAIN own[k], NEW base, base = own[k][<<"idle", v>>]
                 PROVE  /\ base.idle \in Nat /\ base.idle <= world'.idle[v] /\ world'.idle[v] - base.idle < world'.now
                        /\ base.lines = {v} => servant'.topology.idle[v] = StringToInt(base.idle)
    BY Zenon DEF BaselineOfIdle
  <2>2. /\ base.idle \in Nat /\ base.idle <= world.idle[v] /\ world.idle[v] - base.idle < world.now
        /\ base.lines = {v} => servant.topology.idle[v] = StringToInt(base.idle)
    BY <1>1, <2>1 DEF BaselineOfIdle
  <2>3. world.idle[v] \in Nat /\ world'.idle[v] \in Nat /\ world.now \in Nat /\ world'.now \in Nat
    BY DEF ClockInv, WorldInv
  <2> QED
    BY <2>2, <2>3
<1> QED
  BY <1>1, <1>2, <1>3 DEF ClockInv, ResetInv

\* The files that a reset reads.
SameFiles(w) ==
  /\ IsWorld(w) /\ w.now = world.now /\ w.idle = world.idle /\ w.time = world.time /\ w.count = world.count
  /\ w.joules = world.joules /\ w.watts = world.watts /\ w.seen = world.seen /\ w.sample = world.sample

\* A baseline is that of its file, or as it was if it is not under key.
BaselinesAre(key, value) ==
  /\ \A v \in machine.cores, l \in machine.levels :
       IF <<"time", v, l>> = key THEN value \in Nat /\ servant'.topology.time[v][l] = value % W
       ELSE servant'.topology.time[v][l] = servant.topology.time[v][l]
  /\ \A v \in machine.cores, l \in machine.levels :
       IF <<"count", v, l>> = key THEN value \in Nat /\ servant'.topology.count[v][l] = value % W
       ELSE servant'.topology.count[v][l] = servant.topology.count[v][l]
  /\ \A v \in machine.cores :
       IF <<"idle", v>> = key THEN value.idle = world.idle[v] /\ (value.lines = {v} => servant'.topology.idle[v] = StringToInt(value.idle))
       ELSE servant'.topology.idle[v] = servant.topology.idle[v]

\* The files do not change the types.
LEMMA SameFilesFacts ==
  ASSUME WorldInv, machine' = machine, SameFiles(world')
  PROVE  WorldInv'
BY DEF WorldInv, SameFiles

\* A step that resets what is held under key.
LEMMA ClockRebased ==
  ASSUME ClockInv, machine' = machine, SameFiles(world'), TopologyInv', NEW key, NEW value, Rebased(key, value), BaselinesAre(key, value)
  PROVE  ClockInv'
<1>1. /\ \A k \in Objects, v \in machine.cores : BaselineOfIdle(k, v)
      /\ \A k \in Objects, v \in machine.cores, l \in machine.levels : BaselineOfTime(k, v, l) /\ BaselineOfCount(k, v, l)
  BY DEF ClockInv, ResetInv
<1>2. WorldInv /\ WorldInv'
  BY SameFilesFacts DEF ClockInv
<1>3. ASSUME NEW k \in Objects, NEW v \in machine.cores, NEW l \in machine.levels PROVE BaselineOfTime(k, v, l)'
  <2> DEFINE x == <<"time", v, l>>
  <2> HIDE DEF x
  <2>1. SUFFICES ASSUME x \in DOMAIN own'[k]
                 PROVE  own'[k][x] \in Nat /\ servant'.topology.time[v][l] = own'[k][x] % W
    BY DEF BaselineOfTime, x
  <2>2. IF x = key THEN own'[k][x] = value ELSE x \in DOMAIN own[k] /\ own'[k][x] = own[k][x]
    BY <2>1 DEF Rebased
  <2>3. IF x = key THEN value \in Nat /\ servant'.topology.time[v][l] = value % W
        ELSE servant'.topology.time[v][l] = servant.topology.time[v][l]
    BY DEF BaselinesAre, x
  <2>4. x \in DOMAIN own[k] => own[k][x] \in Nat /\ servant.topology.time[v][l] = own[k][x] % W
    BY <1>1 DEF BaselineOfTime, x
  <2> QED
    BY <2>2, <2>3, <2>4
<1>4. ASSUME NEW k \in Objects, NEW v \in machine.cores, NEW l \in machine.levels PROVE BaselineOfCount(k, v, l)'
  <2> DEFINE x == <<"count", v, l>>
  <2> HIDE DEF x
  <2>1. SUFFICES ASSUME x \in DOMAIN own'[k]
                 PROVE  own'[k][x] \in Nat /\ servant'.topology.count[v][l] = own'[k][x] % W
    BY DEF BaselineOfCount, x
  <2>2. IF x = key THEN own'[k][x] = value ELSE x \in DOMAIN own[k] /\ own'[k][x] = own[k][x]
    BY <2>1 DEF Rebased
  <2>3. IF x = key THEN value \in Nat /\ servant'.topology.count[v][l] = value % W
        ELSE servant'.topology.count[v][l] = servant.topology.count[v][l]
    BY DEF BaselinesAre, x
  <2>4. x \in DOMAIN own[k] => own[k][x] \in Nat /\ servant.topology.count[v][l] = own[k][x] % W
    BY <1>1 DEF BaselineOfCount, x
  <2> QED
    BY <2>2, <2>3, <2>4
<1>5. ASSUME NEW k \in Objects, NEW v \in machine.cores PROVE BaselineOfIdle(k, v)'
  <2> DEFINE x == <<"idle", v>>
  <2> HIDE DEF x
  <2>1. SUFFICES ASSUME x \in DOMAIN own'[k], NEW base, base = own'[k][x]
                 PROVE  /\ base.idle \in Nat /\ base.idle <= world'.idle[v] /\ world'.idle[v] - base.idle < world'.now
                        /\ base.lines = {v} => servant'.topology.idle[v] = StringToInt(base.idle)
    BY Zenon DEF BaselineOfIdle, x
  <2>2. IF x = key THEN base = value ELSE x \in DOMAIN own[k] /\ base = own[k][x]
    BY <2>1 DEF Rebased
  <2>3. IF x = key THEN value.idle = world.idle[v] /\ (value.lines = {v} => servant'.topology.idle[v] = StringToInt(value.idle))
        ELSE servant'.topology.idle[v] = servant.topology.idle[v]
    BY DEF BaselinesAre, x
  <2>4. x \in DOMAIN own[k] =>
          /\ own[k][x].idle \in Nat /\ own[k][x].idle <= world.idle[v] /\ world.idle[v] - own[k][x].idle < world.now
          /\ own[k][x].lines = {v} => servant.topology.idle[v] = StringToInt(own[k][x].idle)
    BY <1>1 DEF BaselineOfIdle, x
  <2>5. world.idle[v] \in Nat /\ world.now \in Nat \ {0} /\ world'.idle = world.idle /\ world'.now = world.now
    BY <1>2 DEF WorldInv, SameFiles
  <2>6. CASE x = key
    <3>1. base.idle = world.idle[v] /\ (base.lines = {v} => servant'.topology.idle[v] = StringToInt(base.idle))
      BY <2>2, <2>3, <2>6
    <3> QED
      BY <2>5, <3>1
  <2>7. CASE x # key
    BY <2>2, <2>3, <2>4, <2>5, <2>7
  <2> QED
    BY <2>6, <2>7
<1>6. own' \in [Objects -> {own'[k] : k \in Objects}]
  BY DEF Rebased
<1> QED
  BY <1>2, <1>3, <1>4, <1>5, <1>6 DEF ClockInv, ResetInv
-----------------------------------------------------------------------------
(* What a request leaves of the topology, and answers.                     *)

\* The requests of the topology are each of one kind, with what it addresses.
LevelSet(f, req, x) == [f EXCEPT ![req.v] = [f[req.v] EXCEPT ![req.l] = x]]
ResetCmds == {"ResetIdleTime", "ResetTime", "ResetCount"}

\* The members of a topology that are not those of t, and what was read.
TopologyEffect(o, req, t) ==
  /\ SameFiles(o.world) /\ IsTopology(o.module)
  /\ o.module.idle = IF req.cmd = "ResetIdleTime" THEN [t.idle EXCEPT ![req.v] = GetAbsoluteIdleTime(req.v, world)] ELSE t.idle
  /\ o.module.time = IF req.cmd = "ResetTime" THEN LevelSet(t.time, req, world.time[req.v][req.l] % W) ELSE t.time
  /\ o.module.count = IF req.cmd = "ResetCount" THEN LevelSet(t.count, req, world.count[req.v][req.l] % W) ELSE t.count
  /\ req.cmd = "GetIdleTime" => o.val = GetAbsoluteIdleTime(req.v, world) - t.idle[req.v]
  /\ req.cmd = "GetTime" => o.val = ((world.time[req.v][req.l] % W) - t.time[req.v][req.l]) % W
  /\ req.cmd = "GetCount" => o.val = ((world.count[req.v][req.l] % W) - t.count[req.v][req.l]) % W

\* The baselines of t are those of u.
SameBaselines(u, t) == IsTopology(u) /\ u.idle = t.idle /\ u.time = t.time /\ u.count = t.count

\* An answer that leaves the module.
LEMMA ReadOnly ==
  ASSUME WorldInv, NEW t, IsTopology(t), NEW req, NEW o, o.module = t, SameFiles(o.world),
         req.cmd \notin ResetCmds \cup {"GetIdleTime", "GetTime", "GetCount"}
  PROVE  TopologyEffect(o, req, t)
BY DEF TopologyEffect, ResetCmds

\* The files that a request leaves.
LEMMA FilesKept ==
  ASSUME WorldInv, NEW set
  PROVE  SameFiles(world) /\ SameFiles([world EXCEPT !.online = set]) /\ SameFiles([world EXCEPT !.disabled = set])
<1>1. SameFiles(world)
  BY DEF WorldInv, SameFiles
<1>2. SameFiles([world EXCEPT !.online = set])
  BY DEF WorldInv, SameFiles, IsWorld
<1>3. SameFiles([world EXCEPT !.disabled = set])
  BY DEF WorldInv, SameFiles, IsWorld
<1> QED
  BY <1>1, <1>2, <1>3

\* The one level that a request addresses.
LEMMA AddressedFacts ==
  ASSUME MachineInv, NEW req, OfALevel(req)
  PROVE  /\ Addressed(req, machine) = {req.l}
         /\ \A val : OfLevel(req, machine, val) = val[req.l]
         /\ \A f \in Baselines : \A new : ForLevels(f, req, machine, new) = LevelSet(f, req, new[req.v][req.l])
<1>1. req.l \in machine.levels /\ req.l \in Nat /\ req.v \in machine.cores
  BY MachineFacts DEF OfALevel, IsMachine
<1>2. Addressed(req, machine) = {req.l}
  BY <1>1 DEF Addressed
<1>3. Max({req.l}) = req.l
  BY <1>1 DEF Max
<1>4. ASSUME NEW val PROVE OfLevel(req, machine, val) = val[req.l]
  BY <1>2, <1>3 DEF OfLevel
<1>5. ASSUME NEW f \in Baselines, NEW new PROVE ForLevels(f, req, machine, new) = LevelSet(f, req, new[req.v][req.l])
  <2> DEFINE g == [l \in machine.levels |-> IF l \in Addressed(req, machine) THEN new[req.v][l] ELSE f[req.v][l]]
             h == [f[req.v] EXCEPT ![req.l] = new[req.v][req.l]]
  <2>1. f[req.v] \in [machine.levels -> Int]
    BY <1>1 DEF Baselines
  <2>2. g = h
    BY <1>1, <1>2, <2>1
  <2> HIDE DEF g, h
  <2>3. [f EXCEPT ![req.v] = g] = [f EXCEPT ![req.v] = h]
    BY <2>2
  <2> QED
    BY <2>3 DEF ForLevels, LevelSet, g, h
<1> QED
  BY <1>2, <1>4, <1>5
\* Topology::processMessage(): a reset reads the file of the core or the level
\* of the request, and changes no other baseline; no other request changes one.
LEMMA TopologyEffects ==
  ASSUME MachineInv, WorldInv, TopologyInv, NEW op, NEW req \in CoreReqs(op),
         NEW o, o = TopologyProcessMessage(req, servant.topology, world, machine)
  PROVE  TopologyEffect(o, req, servant.topology)
<1> DEFINE t == servant.topology
<1>0. OfAll(req) \/ OfCore(req) \/ OfALevel(req) \/ OfUnit(req) \/ OfCpu(req)
  BY CoreReqFacts
<1>i. IsTopology(t) /\ t.time \in Baselines /\ t.count \in Baselines /\ t.idle = [v \in machine.cores |-> t.idle[v]]
  BY DEF TopologyInv
<1>t. o = TopologyProcessMessage(req, t, world, machine)
  OBVIOUS
<1>g. SUFFICES TopologyEffect(o, req, t)
  OBVIOUS
<1> HIDE DEF t
<1>w. SameFiles(world)
  BY FilesKept
<1>a. ASSUME NEW status, NEW val, o = Answer(t, world, status, val), req.cmd \notin ResetCmds \cup {"GetIdleTime", "GetTime", "GetCount"}
      PROVE  TopologyEffect(o, req, t)
  <2>1. o.module = t /\ o.world = world
    BY <1>a DEF Answer
  <2> QED
    BY <1>i, <1>w, <1>a, <2>1, ReadOnly
<1>1. CASE OfAll(req)
  <2>1. req.cmd = "GetTopology"
    BY <1>1 DEF OfAll, CoreReq
  <2>2. o = Answer(t, world, "ok", machine.cores)
    BY <1>t, <2>1 DEF TopologyProcessMessage, CoreCmds, LevelCmds, CpuCmds
  <2> QED
    BY <1>a, <2>1, <2>2 DEF ResetCmds
<1>2. CASE OfCore(req)
  <2>1. o = CoreMessage(req, t, world, machine) /\ req.cmd \in CoreCmds
    BY <1>t, <1>2 DEF TopologyProcessMessage, CoreCmds, LevelCmds, OfCore
  <2>2. CASE req.cmd \in {"IdleLevelsGet", "IsHotPluggable", "IsHotPlugged", "HasFlag", "GetAbsoluteTicks"}
    <3>1. \E val : o = Answer(t, world, "ok", val)
      BY <2>1, <2>2 DEF CoreMessage
    <3> QED
      BY <1>a, <2>2, <3>1 DEF ResetCmds
  <2>3. CASE req.cmd \in {"HotPlug", "HotUnplug"}
    <3>1. \E set : o = [Answer(t, world, "ok", 0) EXCEPT !.world.online = set]
      BY <2>1, <2>3 DEF CoreMessage
    <3>2. \E set : o.module = t /\ o.world = [world EXCEPT !.online = set]
      BY <3>1 DEF Answer
    <3>3. o.module = t /\ SameFiles(o.world)
      BY <3>2, FilesKept
    <3> QED
      BY <1>i, <2>3, <3>3, ReadOnly DEF ResetCmds
  <2>4. CASE req.cmd = "GetIdleTime"
    <3>1. o = Answer(t, world, "ok", GetIdleTime(t, req.v, world))
      BY <2>1, <2>4 DEF CoreMessage
    <3>2. o.module = t /\ o.world = world /\ o.val = GetAbsoluteIdleTime(req.v, world) - t.idle[req.v]
      BY <3>1 DEF Answer, GetIdleTime
    <3> QED
      BY <1>i, <1>w, <2>4, <3>2 DEF TopologyEffect
  <2>5. CASE req.cmd = "ResetIdleTime"
    <3>1. PICK x : x = GetAbsoluteIdleTime(req.v, world)
      OBVIOUS
    <3>2. o = [Answer(t, world, "ok", 0) EXCEPT !.module.idle[req.v] = x]
      BY <2>1, <2>5, <3>1 DEF CoreMessage
    <3>3. o.world = world /\ o.module = [t EXCEPT !.idle[req.v] = x]
      BY <3>2 DEF Answer
    <3>4. IsTopology(o.module) /\ o.module.idle = [t.idle EXCEPT ![req.v] = x] /\ o.module.time = t.time /\ o.module.count = t.count
      BY <1>i, <3>3 DEF IsTopology
    <3> QED
      BY <1>w, <2>5, <3>1, <3>3, <3>4 DEF TopologyEffect
  <2> QED
    BY <2>1, <2>2, <2>3, <2>4, <2>5 DEF CoreCmds
<1>3. CASE OfALevel(req)
  <2>1. o = LevelMessage(req, t, world, machine) /\ req.cmd \in LevelCmds /\ req.l \in machine.levels /\ req.v \in machine.cores
    BY <1>t, <1>3 DEF TopologyProcessMessage, CoreCmds, LevelCmds, OfALevel
  <2>2. CASE req.cmd \in {"GetAbsTime", "GetAbsCount", "GetName", "IsEnableable", "IsEnabled"}
    <3>1. \E val : o = Answer(t, world, "ok", val)
      BY <2>1, <2>2 DEF LevelMessage
    <3> QED
      BY <1>a, <2>2, <3>1 DEF ResetCmds
  <2>3. CASE req.cmd \in {"Enable", "Disable"}
    <3> DEFINE ok == Answer(t, world, "ok", 0)
    <3>1. \/ o = Thrown(t, world)
          \/ o = [ok EXCEPT !.world.disabled = world.disabled \ {<<req.v, req.l>>}]
          \/ o = [ok EXCEPT !.world.disabled = world.disabled \cup {<<req.v, req.l>>}]
      BY <2>1, <2>3 DEF LevelMessage
    <3>2. CASE o = Thrown(t, world)
      BY <1>a, <2>3, <3>2 DEF Thrown, ResetCmds
    <3>3. ASSUME NEW set, o = [ok EXCEPT !.world.disabled = set] PROVE TopologyEffect(o, req, t)
      <4>1. o.module = t /\ o.world = [world EXCEPT !.disabled = set]
        BY <3>3 DEF Answer
      <4>2. o.module = t /\ SameFiles(o.world)
        BY <4>1, FilesKept
      <4> QED
        BY <1>i, <2>3, <4>2, ReadOnly DEF ResetCmds
    <3> QED
      BY <3>1, <3>2, <3>3
  <2>4. CASE req.cmd = "GetTime"
    <3> DEFINE val == [l \in machine.levels |-> GetTime(t, req.v, l, world)]
    <3>1. o = Answer(t, world, "ok", OfLevel(req, machine, val))
      BY <2>1, <2>4 DEF LevelMessage
    <3>2. val[req.l] = ((world.time[req.v][req.l] % W) - t.time[req.v][req.l]) % W
      BY <2>1 DEF GetTime, GetAbsoluteTime, StringToUint
    <3> HIDE DEF val
    <3>3. OfLevel(req, machine, val) = val[req.l]
      BY <1>3, AddressedFacts
    <3>4. o.module = t /\ o.world = world /\ o.val = val[req.l]
      BY <3>1, <3>3 DEF Answer
    <3> QED
      BY <1>i, <1>w, <2>4, <3>2, <3>4 DEF TopologyEffect
  <2>5. CASE req.cmd = "GetCount"
    <3> DEFINE val == [l \in machine.levels |-> GetCount(t, req.v, l, world)]
    <3>1. o = Answer(t, world, "ok", OfLevel(req, machine, val))
      BY <2>1, <2>5 DEF LevelMessage
    <3>2. val[req.l] = ((world.count[req.v][req.l] % W) - t.count[req.v][req.l]) % W
      BY <2>1 DEF GetCount, GetAbsoluteCount, StringToUint
    <3> HIDE DEF val
    <3>3. OfLevel(req, machine, val) = val[req.l]
      BY <1>3, AddressedFacts
    <3>4. o.module = t /\ o.world = world /\ o.val = val[req.l]
      BY <3>1, <3>3 DEF Answer
    <3> QED
      BY <1>i, <1>w, <2>5, <3>2, <3>4 DEF TopologyEffect
  <2>6. CASE req.cmd = "ResetTime"
    <3> DEFINE new == [v \in machine.cores |-> [l \in machine.levels |-> GetAbsoluteTime(v, l, world)]]
               f == ForLevels(t.time, req, machine, new)
    <3>1. o = [Answer(t, world, "ok", 0) EXCEPT !.module.time = f]
      BY <2>1, <2>6 DEF LevelMessage, Answer
    <3>2. new[req.v][req.l] = world.time[req.v][req.l] % W
      BY <2>1 DEF GetAbsoluteTime, StringToUint
    <3> HIDE DEF new
    <3>3. f = LevelSet(t.time, req, world.time[req.v][req.l] % W)
      BY <1>3, <1>i, <3>2, AddressedFacts
    <3> HIDE DEF f
    <3>4. o.world = world /\ o.module = [t EXCEPT !.time = f]
      BY <3>1 DEF Answer
    <3>5. IsTopology(o.module) /\ o.module.time = f /\ o.module.idle = t.idle /\ o.module.count = t.count
      BY <1>i, <3>4 DEF IsTopology
    <3> QED
      BY <1>w, <2>6, <3>3, <3>4, <3>5 DEF TopologyEffect
  <2>7. CASE req.cmd = "ResetCount"
    <3> DEFINE new == [v \in machine.cores |-> [l \in machine.levels |-> GetAbsoluteCount(v, l, world)]]
               f == ForLevels(t.count, req, machine, new)
    <3>1. o = [Answer(t, world, "ok", 0) EXCEPT !.module.count = f]
      BY <2>1, <2>7 DEF LevelMessage, Answer
    <3>2. new[req.v][req.l] = world.count[req.v][req.l] % W
      BY <2>1 DEF GetAbsoluteCount, StringToUint
    <3> HIDE DEF new
    <3>3. f = LevelSet(t.count, req, world.count[req.v][req.l] % W)
      BY <1>3, <1>i, <3>2, AddressedFacts
    <3> HIDE DEF f
    <3>4. o.world = world /\ o.module = [t EXCEPT !.count = f]
      BY <3>1 DEF Answer
    <3>5. IsTopology(o.module) /\ o.module.count = f /\ o.module.idle = t.idle /\ o.module.time = t.time
      BY <1>i, <3>4 DEF IsTopology
    <3> QED
      BY <1>w, <2>7, <3>3, <3>4, <3>5 DEF TopologyEffect
  <2> QED
    BY <2>1, <2>2, <2>3, <2>4, <2>5, <2>6, <2>7 DEF LevelCmds
<1>4. CASE OfUnit(req)
  <2>1. o = SetUtilization(req, t, world, machine) /\ req.cmd \in UnitCmds
    BY <1>t, <1>4 DEF TopologyProcessMessage, CoreCmds, LevelCmds, UnitCmds, OfUnit
  <2>2. \E set : o = [Answer(t, world, "ok", 0) EXCEPT !.module.spin = set]
    BY <1>4, <2>1 DEF SetUtilization, OfUnit, Answer
  <2>3. PICK set : o.world = world /\ o.module = [t EXCEPT !.spin = set]
    BY <2>2 DEF Answer
  <2>4. IsTopology(o.module) /\ o.module.idle = t.idle /\ o.module.time = t.time /\ o.module.count = t.count
    BY <1>i, <2>3 DEF IsTopology
  <2> QED
    BY <1>w, <2>1, <2>3, <2>4 DEF TopologyEffect, UnitCmds
<1>5. CASE OfCpu(req)
  <2>1. o = Answer(t, world, "ok", req.cmd) /\ req.cmd \in CpuCmds
    BY <1>t, <1>5 DEF TopologyProcessMessage, CoreCmds, LevelCmds, CpuCmds, OfCpu
  <2> QED
    BY <1>a, <2>1 DEF CpuCmds, ResetCmds
<1> QED
  BY <1>0, <1>1, <1>2, <1>3, <1>4, <1>5
\* When a file has failed, or a thread cannot be made, they stay as they are.
LEMMA FaultFacts ==
  ASSUME TopologyInv, NEW req, NEW o \in TopologyFaults(req, servant.topology, world, machine)
  PROVE  o.status = "thrown" /\ o.world = world /\ SameBaselines(o.module, servant.topology)
<1> DEFINE t == servant.topology
<1>1. IsTopology(t)
  BY DEF TopologyInv
<1> HIDE DEF t
<1>2. o = Thrown(t, world) \/ \E set : o = [Thrown(t, world) EXCEPT !.module.spin = set]
  BY DEF TopologyFaults, MaximizeFails, t
<1>3. o.status = "thrown" /\ o.world = world /\ (o.module = t \/ \E set : o.module = [t EXCEPT !.spin = set])
  <2>1. CASE o = Thrown(t, world)
    BY <2>1 DEF Thrown, Answer
  <2>2. ASSUME NEW set, o = [Thrown(t, world) EXCEPT !.module.spin = set]
        PROVE  o.status = "thrown" /\ o.world = world /\ o.module = [t EXCEPT !.spin = set]
    BY <2>2 DEF Thrown, Answer
  <2> QED
    BY <1>2, <2>1, <2>2
<1>4. SameBaselines(o.module, t)
  BY <1>1, <1>3 DEF SameBaselines, IsTopology
<1> QED
  BY <1>3, <1>4 DEF t

\* Only requests for the topology read the files and set its baselines.
TopologyRead(o, req) ==
  /\ \E a : TopologyEffect(a, req, servant.topology) /\ o.world = a.world /\ o.servant.topology = a.module /\ o.val = a.val
  /\ req.cmd \in ResetCmds => o.status = "ok"
TopologyFails(o) == o.status = "thrown" /\ o.world = world /\ SameBaselines(o.servant.topology, servant.topology)

LEMMA AnswerOfClock ==
  ASSUME MachineInv, ServantInv, WorldInv, TopologyInv, NEW op, NEW req \in ReqsOf(op), NEW o \in Answers(req)
  PROVE  IF req.module = "topology" /\ "topology" \in machine.mask
         THEN TopologyRead(o, req) \/ TopologyFails(o)
         ELSE o.world = world /\ o.servant.topology = servant.topology
<1>s. IsServant(servant)
  BY DEF ServantInv
<1> DEFINE of(a, module) == [status |-> a.status, val |-> a.val, servant |-> [servant EXCEPT ![module] = a.module], world |-> world, caps |-> caps]
           same(status)  == [status |-> status, val |-> 0, servant |-> servant, world |-> world, caps |-> caps]
<1>0. req.module \in {"caps", "energy", "cpufreq", "topology"} /\ (req.module = "topology" => req \in CoreReqs(op))
  BY ReqFacts
<1>1. CASE req.module = "topology" /\ "topology" \in machine.mask
  <2> DEFINE b == TopologyProcessMessage(req, servant.topology, world, machine)
             answers == {b} \cup TopologyFaults(req, servant.topology, world, machine)
  <2>1. Answers(req) = {[of(a, "topology") EXCEPT !.world = a.world] : a \in answers}
    BY <1>1 DEF Answers
  <2>2. TopologyEffect(b, req, servant.topology)
    BY <1>0, <1>1, TopologyEffects
  <2>3. req.cmd \in ResetCmds => b.status = "ok"
    <3>1. b.status \in {"ok", "thrown"} /\ (b.status = "thrown" => op \in {"Enable", "Disable"})
      BY <1>0, <1>1, TopologyMessage
    <3>2. op \in Constructors \/ op = req.cmd
      BY <1>0, <1>1, CoreReqFacts
    <3> QED
      BY <3>1, <3>2 DEF ResetCmds, Constructors
  <2> HIDE DEF b
  <2>4. ASSUME NEW a \in answers PROVE a = b \/ (a.status = "thrown" /\ a.world = world /\ SameBaselines(a.module, servant.topology))
    <3>1. CASE a \in TopologyFaults(req, servant.topology, world, machine)
      BY <3>1, FaultFacts
    <3> QED
      BY <3>1
  <2> HIDE DEF answers
  <2>5. PICK a \in answers : o = [of(a, "topology") EXCEPT !.world = a.world]
    BY <2>1
  <2>6. o.status = a.status /\ o.world = a.world /\ o.val = a.val /\ o.servant = [servant EXCEPT !["topology"] = a.module]
    BY <2>5
  <2>7. o.servant.topology = a.module
    BY <1>s, <2>6 DEF IsServant
  <2>8. CASE a = b
    BY <1>1, <2>2, <2>3, <2>6, <2>7, <2>8 DEF TopologyRead
  <2>9. CASE a # b
    BY <1>1, <2>4, <2>6, <2>7, <2>9 DEF TopologyFails
  <2> QED
    BY <2>8, <2>9
<1>2. CASE req.module = "topology" /\ "topology" \notin machine.mask
  <2>1. Answers(req) = {same("thrown")}
    BY <1>2 DEF Answers
  <2> QED
    BY <1>2, <2>1
<1>3. CASE req.module = "caps"
  <2>1. Answers(req) = {[same(c.status) EXCEPT !.caps = c.module] : c \in SetCap(req, caps)}
    BY <1>3 DEF Answers
  <2>2. \E c : o = [same(c.status) EXCEPT !.caps = c.module]
    BY <2>1
  <2> QED
    BY <1>3, <2>2
<1>4. CASE req.module \in {"energy", "cpufreq"}
  <2>1. \/ o = same("thrown")
        \/ \E a : o = of(a, req.module)
    BY <1>4, Zenon DEF Answers
  <2>2. CASE o = same("thrown")
    BY <1>4, <2>2
  <2>3. CASE \E a : o = of(a, req.module)
    <3>1. PICK a : o = of(a, req.module)
      BY <2>3
    <3>2. o.world = world /\ o.servant = [servant EXCEPT ![req.module] = a.module]
      BY <3>1
    <3>3. o.servant.topology = servant.topology
      BY <1>s, <1>4, <3>2 DEF IsServant
    <3> QED
      BY <1>4, <3>2, <3>3
  <2> QED
    BY <2>1, <2>2, <2>3
<1> QED
  BY <1>0, <1>1, <1>2, <1>3, <1>4

\* The value that an object holds of what it has reset.
HeldValue(req) ==
  CASE req.cmd = "ResetTime" -> world.time[req.v][req.l]
    [] req.cmd = "ResetCount" -> world.count[req.v][req.l]
    [] req.cmd = "ResetIdleTime" -> [idle |-> world.idle[req.v], lines |-> StatLines(req.v, world)]

\* What becomes of the entries at an answer.
LEMMA OwnedFacts ==
  ASSUME NEW req, NEW o, own' = Owned(req, o)
  PROVE  /\ o.status # "ok" /\ req.module # "energy" => own' = own
         /\ req.module = "topology" /\ req.cmd \notin ResetCmds => own' = own
         /\ req.module = "topology" /\ req.cmd \in ResetCmds /\ o.status = "ok" => Rebased(Key(req), HeldValue(req))
         /\ req.module = "energy" => own' = own \/ \E value : Rebased(<<"counter", req.type>>, value)
         /\ req.module \notin {"topology", "energy"} => own' = own
<1>1. CASE o.status # "ok" /\ req.module # "energy"
  <2>1. own' = own
    BY <1>1 DEF Owned
  <2> QED
    BY <1>1, <2>1
<1>2. CASE o.status = "ok" /\ req.module = "topology" /\ req.cmd \notin ResetCmds
  <2>1. own' = own
    BY <1>2 DEF Owned, ResetCmds
  <2> QED
    BY <1>2, <2>1
<1>3. CASE o.status = "ok" /\ req.module = "topology" /\ req.cmd \in ResetCmds
  <2>1. \/ own' = Hold(Key(req), HeldValue(req))
        \/ own' = Lose(Key(req))
    BY <1>3 DEF Owned, ResetCmds, HeldValue
  <2>2. Rebased(Key(req), HeldValue(req))
    BY <2>1, RebasedFacts
  <2> QED
    BY <1>3, <2>2
<1>4. CASE req.module = "energy"
  <2>1. own' = own \/ own' = Lose(Key(req)) \/ \E value : own' = Hold(Key(req), value)
    BY <1>4, Zenon DEF Owned
  <2>2. own' = own \/ \E value : Rebased(Key(req), value)
    BY <2>1, RebasedFacts
  <2>3. Key(req) = <<"counter", req.type>>
    BY <1>4 DEF Key
  <2> QED
    BY <1>4, <2>2, <2>3
<1>5. CASE o.status = "ok" /\ req.module \notin {"topology", "energy"}
  <2>1. own' = own
    BY <1>5 DEF Owned
  <2> QED
    BY <1>5, <2>1
<1> QED
  BY <1>1, <1>2, <1>3, <1>4, <1>5
-----------------------------------------------------------------------------
(* The baselines at each step.                                             *)

\* The topology after an effect.
LEMMA EffectTypes ==
  ASSUME WorldInv, TopologyInv, machine' = machine, NEW a, NEW req, TopologyEffect(a, req, servant.topology), servant'.topology = a.module,
         req.cmd \in {"ResetTime", "ResetCount"} => req.v \in machine.cores /\ req.l \in machine.levels
  PROVE  TopologyInv'
<1> DEFINE t == servant.topology
           u == servant'.topology
<1>1. IsTopology(t) /\ t.idle = [v \in machine.cores |-> t.idle[v]] /\ t.time \in Baselines /\ t.count \in Baselines
  BY DEF TopologyInv
<1>2. /\ IsTopology(u)
      /\ u.idle = t.idle \/ \E x : u.idle = [t.idle EXCEPT ![req.v] = x]
      /\ u.time = IF req.cmd = "ResetTime" THEN LevelSet(t.time, req, world.time[req.v][req.l] % W) ELSE t.time
      /\ u.count = IF req.cmd = "ResetCount" THEN LevelSet(t.count, req, world.count[req.v][req.l] % W) ELSE t.count
  BY DEF TopologyEffect
<1>3. ASSUME NEW f \in Baselines, NEW x \in Int, req.v \in machine.cores, req.l \in machine.levels PROVE LevelSet(f, req, x) \in Baselines
  BY <1>3 DEF Baselines, LevelSet
<1>4. ASSUME NEW f \in [machine.cores -> [machine.levels -> Nat]], req.v \in machine.cores, req.l \in machine.levels
      PROVE  f[req.v][req.l] % W \in Int
  <2>1. f[req.v][req.l] \in Int
    BY <1>4
  <2> QED
    BY <2>1, ModFacts
<1> HIDE DEF t, u
<1>5. u.time \in Baselines
  <2>1. CASE req.cmd = "ResetTime"
    <3>1. PICK x : x = world.time[req.v][req.l] % W
      OBVIOUS
    <3>2. x \in Int
      BY <1>4, <2>1, <3>1 DEF WorldInv
    <3>3. LevelSet(t.time, req, x) \in Baselines
      BY <1>1, <1>3, <2>1, <3>2
    <3> QED
      BY <1>2, <2>1, <3>1, <3>3
  <2> QED
    BY <1>1, <1>2, <2>1
<1>6. u.count \in Baselines
  <2>1. CASE req.cmd = "ResetCount"
    <3>1. PICK x : x = world.count[req.v][req.l] % W
      OBVIOUS
    <3>2. x \in Int
      BY <1>4, <2>1, <3>1 DEF WorldInv
    <3>3. LevelSet(t.count, req, x) \in Baselines
      BY <1>1, <1>3, <2>1, <3>2
    <3> QED
      BY <1>2, <2>1, <3>1, <3>3
  <2> QED
    BY <1>1, <1>2, <2>1
<1>7. u.idle = [v \in machine.cores |-> u.idle[v]]
  BY <1>1, <1>2
<1>8. Baselines' = Baselines
  BY DEF Baselines
<1> QED
  BY <1>2, <1>5, <1>6, <1>7, <1>8 DEF TopologyInv, u

\* A reset leaves the value of the file, and no other baseline changes.
LEMMA EffectOfReset ==
  ASSUME WorldInv, TopologyInv, machine' = machine, NEW a, NEW req, TopologyEffect(a, req, servant.topology), servant'.topology = a.module,
         req.module = "topology", req.cmd \in ResetCmds, req.v \in machine.cores,
         req.cmd # "ResetIdleTime" => req.l \in machine.levels, machine.cores \subseteq Nat
  PROVE  BaselinesAre(Key(req), HeldValue(req))
<1> DEFINE t == servant.topology
           u == servant'.topology
<1>1. t.idle = [v \in machine.cores |-> t.idle[v]] /\ t.time \in Baselines /\ t.count \in Baselines
  BY DEF TopologyInv
<1>2. /\ u.idle = IF req.cmd = "ResetIdleTime" THEN [t.idle EXCEPT ![req.v] = GetAbsoluteIdleTime(req.v, world)] ELSE t.idle
      /\ u.time = IF req.cmd = "ResetTime" THEN LevelSet(t.time, req, world.time[req.v][req.l] % W) ELSE t.time
      /\ u.count = IF req.cmd = "ResetCount" THEN LevelSet(t.count, req, world.count[req.v][req.l] % W) ELSE t.count
  BY DEF TopologyEffect
<1>3. ASSUME NEW f \in Baselines, NEW x, req.l \in machine.levels
      PROVE  \A v \in machine.cores, l \in machine.levels : LevelSet(f, req, x)[v][l] = IF v = req.v /\ l = req.l THEN x ELSE f[v][l]
  BY <1>3 DEF Baselines, LevelSet
<1> HIDE DEF t, u
<1>b. SUFFICES
        /\ \A v \in machine.cores, l \in machine.levels :
             IF <<"time", v, l>> = Key(req) THEN HeldValue(req) \in Nat /\ u.time[v][l] = HeldValue(req) % W
             ELSE u.time[v][l] = t.time[v][l]
        /\ \A v \in machine.cores, l \in machine.levels :
             IF <<"count", v, l>> = Key(req) THEN HeldValue(req) \in Nat /\ u.count[v][l] = HeldValue(req) % W
             ELSE u.count[v][l] = t.count[v][l]
        /\ \A v \in machine.cores :
             IF <<"idle", v>> = Key(req)
             THEN HeldValue(req).idle = world.idle[v] /\ (HeldValue(req).lines = {v} => u.idle[v] = StringToInt(HeldValue(req).idle))
             ELSE u.idle[v] = t.idle[v]
  BY DEF BaselinesAre, t, u
<1>4. CASE req.cmd = "ResetTime"
  <2>1. Key(req) = <<"time", req.v, req.l>> /\ HeldValue(req) = world.time[req.v][req.l] /\ HeldValue(req) \in Nat
    BY <1>4 DEF Key, HeldValue, WorldInv
  <2>2. \A v \in machine.cores, l \in machine.levels : u.time[v][l] = IF v = req.v /\ l = req.l THEN HeldValue(req) % W ELSE t.time[v][l]
    BY <1>1, <1>2, <1>3, <1>4, <2>1
  <2>3. u.count = t.count /\ u.idle = t.idle
    BY <1>2, <1>4
  <2>4. \A v, l : <<"idle", v>> # Key(req) /\ <<"count", v, l>> # Key(req) /\ (<<"time", v, l>> = Key(req) => v = req.v /\ l = req.l)
    BY <2>1, KeyFacts
  <2> QED
    BY <2>1, <2>2, <2>3, <2>4
<1>5. CASE req.cmd = "ResetCount"
  <2>1. Key(req) = <<"count", req.v, req.l>> /\ HeldValue(req) = world.count[req.v][req.l] /\ HeldValue(req) \in Nat
    BY <1>5 DEF Key, HeldValue, WorldInv
  <2>2. \A v \in machine.cores, l \in machine.levels : u.count[v][l] = IF v = req.v /\ l = req.l THEN HeldValue(req) % W ELSE t.count[v][l]
    BY <1>1, <1>2, <1>3, <1>5, <2>1
  <2>3. u.time = t.time /\ u.idle = t.idle
    BY <1>2, <1>5
  <2>4. \A v, l : <<"idle", v>> # Key(req) /\ <<"time", v, l>> # Key(req) /\ (<<"count", v, l>> = Key(req) => v = req.v /\ l = req.l)
    BY <2>1, KeyFacts
  <2> QED
    BY <2>1, <2>2, <2>3, <2>4
<1>6. CASE req.cmd = "ResetIdleTime"
  <2>1. Key(req) = <<"idle", req.v>> /\ HeldValue(req).idle = world.idle[req.v] /\ HeldValue(req).lines = StatLines(req.v, world)
    BY <1>6 DEF Key, HeldValue
  <2>2. StatLines(req.v, world) = {req.v} => GetAbsoluteIdleTime(req.v, world) = StringToInt(world.idle[req.v])
    <3>1. req.v \in Nat
      OBVIOUS
    <3>2. Max({req.v}) = req.v
      BY <3>1 DEF Max
    <3> QED
      BY <3>2 DEF GetAbsoluteIdleTime
  <2>3. u.count = t.count /\ u.time = t.time
    BY <1>2, <1>6
  <2>4. \A v \in machine.cores : u.idle[v] = IF v = req.v THEN GetAbsoluteIdleTime(req.v, world) ELSE t.idle[v]
    BY <1>1, <1>2, <1>6
  <2>5. \A v, l : <<"time", v, l>> # Key(req) /\ <<"count", v, l>> # Key(req) /\ (<<"idle", v>> = Key(req) => v = req.v)
    BY <2>1, KeyFacts
  <2> QED
    BY <2>1, <2>2, <2>3, <2>4, <2>5
<1> QED
  BY <1>4, <1>5, <1>6 DEF ResetCmds
\* What is needed of the request at the head of a call for the topology.
LEMMA TopologyReqOf ==
  ASSUME MachineInv, CallInv, NEW req \in CoreReqs(call.op)
  PROVE  /\ call.k \in Objects
         /\ req.cmd \in ResetCmds \cup {"GetIdleTime", "GetTime", "GetCount"} => req.v \in machine.cores
         /\ req.cmd \in {"ResetTime", "ResetCount", "GetTime", "GetCount"} => req.l \in machine.levels
         /\ machine.cores \subseteq Nat
<1>1. /\ OfAll(req) \/ OfCore(req) \/ OfALevel(req) \/ OfUnit(req) \/ OfCpu(req)
      /\ call.op \in Constructors \/ call.op = req.cmd
  BY CoreReqFacts
<1>2. OfAll(req) => req.cmd = "GetTopology"
  BY DEF OfAll, CoreReq
<1>3. call.op \notin {"none"} \cup CapOps
  BY <1>1, <1>2 DEF Constructors, CapOps, OfCore, OfALevel, OfUnit, OfCpu, CoreCmds, LevelCmds, UnitCmds, CpuCmds
<1>4. call.k \in Objects
  BY <1>3 DEF CallInv
<1>5. machine.cores \subseteq Nat
  BY MachineFacts DEF IsMachine
<1>6. req.cmd \in ResetCmds \cup {"GetIdleTime", "GetTime", "GetCount"} => OfCore(req) \/ OfALevel(req)
  BY <1>1, <1>2 DEF ResetCmds, OfUnit, OfCpu, UnitCmds, CpuCmds
<1>7. req.cmd \in {"ResetTime", "ResetCount", "GetTime", "GetCount"} => OfALevel(req)
  BY <1>6 DEF ResetCmds, OfCore, CoreCmds
<1> QED
  BY <1>4, <1>5, <1>6, <1>7 DEF OfCore, OfALevel

\* A request that is answered keeps the baselines in step with what was reset.
LEMMA ServeClock ==
  ASSUME ProxyInv, ClockInv, NEW o, NEW req, ServeStep(o, req)
  PROVE  ClockInv'
<1>0. /\ MachineInv /\ ServantInv /\ CallInv /\ req \in ReqsOf(call.op) /\ o \in Answers(req) /\ machine' = machine
      /\ SameServant(o.servant)
  BY ServeFacts
<1>1. WorldInv /\ TopologyInv /\ world' = o.world /\ own' = Owned(req, o)
  BY DEF ClockInv, ServeStep
<1>2. servant'.topology = o.servant.topology
  BY <1>0 DEF ServeStep, SameServant, IsServant
<1>3. CASE req.module = "topology" /\ "topology" \in machine.mask /\ TopologyRead(o, req)
  <2>1. PICK a : TopologyEffect(a, req, servant.topology) /\ o.world = a.world /\ o.servant.topology = a.module /\ o.val = a.val
    BY <1>3 DEF TopologyRead
  <2>2. req \in CoreReqs(call.op)
    BY <1>0, <1>3, ReqFacts
  <2>3. /\ req.cmd \in ResetCmds => req.v \in machine.cores
        /\ req.cmd \in {"ResetTime", "ResetCount"} => req.v \in machine.cores /\ req.l \in machine.levels
        /\ machine.cores \subseteq Nat
    BY <1>0, <2>2, TopologyReqOf DEF ResetCmds
  <2>4. SameFiles(world') /\ servant'.topology = a.module
    BY <1>1, <1>2, <2>1 DEF TopologyEffect
  <2>5. TopologyInv'
    BY <1>0, <1>1, <2>1, <2>3, <2>4, EffectTypes
  <2>6. CASE req.cmd \in ResetCmds
    <3>1. o.status = "ok"
      BY <1>3, <2>6 DEF TopologyRead
    <3>2. Rebased(Key(req), HeldValue(req))
      BY <1>1, <1>3, <2>6, <3>1, OwnedFacts
    <3>3. BaselinesAre(Key(req), HeldValue(req))
      BY <1>0, <1>1, <1>3, <2>1, <2>3, <2>4, <2>6, EffectOfReset DEF ResetCmds
    <3> QED
      BY <1>0, <2>4, <2>5, <3>2, <3>3, ClockRebased
  <2>7. CASE req.cmd \notin ResetCmds
    <3>1. own' = own
      BY <1>1, <1>3, <2>7, OwnedFacts
    <3>2. /\ servant'.topology.idle = servant.topology.idle /\ servant'.topology.time = servant.topology.time
          /\ servant'.topology.count = servant.topology.count
      BY <2>1, <2>4, <2>7 DEF TopologyEffect, ResetCmds
    <3>3. WorldInv'
      BY <1>0, <1>1, <2>4, SameFilesFacts
    <3>4. \A v \in machine.cores : world.idle[v] <= world'.idle[v] /\ world'.idle[v] - world.idle[v] <= world'.now - world.now
      BY <1>1, <2>4 DEF WorldInv, SameFiles
    <3> QED
      BY <1>0, <2>5, <3>1, <3>2, <3>3, <3>4, ClockKept
  <2> QED
    BY <2>6, <2>7
<1>4. CASE ~(req.module = "topology" /\ "topology" \in machine.mask)
  <2>1. world' = world /\ servant'.topology = servant.topology
    BY <1>0, <1>1, <1>2, <1>4, AnswerOfClock
  <2>2. req.module = "topology" => o.status # "ok"
    BY <1>4, ServeFacts DEF Active
  <2>3. own' = own \/ \E value : Rebased(<<"counter", req.type>>, value)
    BY <1>1, <2>2, OwnedFacts
  <2>4. SameFiles(world') /\ WorldInv'
    BY <1>0, <1>1, <2>1, FilesKept, SameFilesFacts
  <2>5. TopologyInv'
    BY <1>0, <1>1, <2>1 DEF TopologyInv, Baselines
  <2>6. CASE own' = own
    <3>1. \A v \in machine.cores : world.idle[v] <= world'.idle[v] /\ world'.idle[v] - world.idle[v] <= world'.now - world.now
      BY <1>1, <2>1 DEF WorldInv
    <3> QED
      BY <1>0, <2>1, <2>4, <2>5, <2>6, <3>1, ClockKept
  <2>7. ASSUME NEW value, Rebased(<<"counter", req.type>>, value) PROVE ClockInv'
    <3>1. PICK key : key = <<"counter", req.type>>
      OBVIOUS
    <3>2. \A v, l : <<"idle", v>> # key /\ <<"time", v, l>> # key /\ <<"count", v, l>> # key
      BY <3>1, KeyFacts
    <3>3. BaselinesAre(key, value)
      BY <2>1, <3>2 DEF BaselinesAre
    <3> QED
      BY <1>0, <2>4, <2>5, <2>7, <3>1, <3>3, ClockRebased
  <2> QED
    BY <2>3, <2>6, <2>7
<1>5. CASE req.module = "topology" /\ "topology" \in machine.mask /\ TopologyFails(o)
  <2>1. world' = world /\ SameBaselines(servant'.topology, servant.topology) /\ o.status # "ok"
    BY <1>1, <1>2, <1>5 DEF TopologyFails
  <2>2. own' = own
    BY <1>1, <1>5, <2>1, OwnedFacts
  <2>3. WorldInv'
    BY <1>0, <1>1, <2>1, FilesKept, SameFilesFacts
  <2>4. TopologyInv'
    BY <1>0, <1>1, <2>1 DEF TopologyInv, Baselines, SameBaselines
  <2>5. \A v \in machine.cores : world.idle[v] <= world'.idle[v] /\ world'.idle[v] - world.idle[v] <= world'.now - world.now
    BY <1>1, <2>1 DEF WorldInv
  <2>6. /\ servant'.topology.idle = servant.topology.idle /\ servant'.topology.time = servant.topology.time
        /\ servant'.topology.count = servant.topology.count
    BY <2>1 DEF SameBaselines
  <2> QED
    BY <1>0, <2>2, <2>3, <2>4, <2>5, <2>6, ClockKept
<1> QED
  BY <1>0, <1>1, <1>3, <1>4, <1>5, AnswerOfClock
\* What is due to the object that reads, in terms of what it holds.
LEMMA DueFacts ==
  ASSUME NEW req, req.module = "topology", NEW from, Due(req, from) # <<>>, NEW base, base = own[call.k][Key(req)]
  PROVE  /\ req.cmd \in {"GetIdleTime", "GetTime", "GetCount"} /\ Key(req) \in DOMAIN own[call.k]
         /\ req.cmd = "GetTime" => Due(req, from) = <<(world.time[req.v][req.l] - base) % W>>
         /\ req.cmd = "GetCount" => Due(req, from) = <<(world.count[req.v][req.l] - base) % W>>
         /\ req.cmd = "GetIdleTime" =>
              /\ base.lines = {req.v} /\ StatLines(req.v, world) = {req.v}
              /\ Due(req, from) = <<world.idle[req.v] - base.idle - (IF StringToInt(world.idle[req.v]) < StringToInt(base.idle) THEN W ELSE 0)>>
<1>1. req.cmd \in {"GetIdleTime", "GetTime", "GetCount"} /\ Key(req) \in DOMAIN own[call.k]
  BY DEF Due
<1>2. CASE req.cmd = "GetTime"
  BY <1>1, <1>2 DEF Due
<1>3. CASE req.cmd = "GetCount"
  BY <1>1, <1>3 DEF Due
<1>4. CASE req.cmd = "GetIdleTime"
  <2>1. {base.lines, StatLines(req.v, world)} = {{req.v}}
    BY <1>1, <1>4 DEF Due
  <2>2. Due(req, from) = <<world.idle[req.v] - base.idle - (IF StringToInt(world.idle[req.v]) < StringToInt(base.idle) THEN W ELSE 0)>>
    BY <1>1, <1>4, <2>1 DEF Due
  <2> QED
    BY <1>1, <1>4, <2>1, <2>2
<1> QED
  BY <1>1, <1>2, <1>3, <1>4

\* What a reading answers is what is due: the baseline is that of the object.
LEMMA ServeIdle ==
  ASSUME MaxTicks <= W, ProxyInv, ClockInv, IdleSinceReset, NEW o, NEW req, ServeStep(o, req)
  PROVE  IdleSinceReset'
<1>0. MachineInv /\ ServantInv /\ CallInv /\ req \in ReqsOf(call.op) /\ o \in Answers(req) /\ last = NoResult
  BY ServeFacts
<1>1. WorldInv /\ TopologyInv /\ ResetInv
  BY DEF ClockInv
<1>2. CASE GoesOn(o, req)
  <2>1. last'.due = <<>>
    BY <1>0, <1>2 DEF GoesOn, NoResult
  <2> QED
    BY <2>1 DEF IdleSinceReset
<1>3. CASE IsDone(o, req)
  <2>1. SUFFICES ASSUME o.status = "ok", req.module = "topology", last'.due # <<>> PROVE last'.val = last'.due[1]
    BY <1>3 DEF IdleSinceReset, IsDone
  <2>2. PICK due : due = Due(req, call.from)
    OBVIOUS
  <2>3. last'.due = due /\ due # <<>>
    BY <1>3, <2>1, <2>2 DEF IsDone
  <2>4. last'.val = o.val
    BY <1>3, <2>1 DEF IsDone, AccAfter, Accumulate
  <2>5. "topology" \in machine.mask
    BY <2>1, ServeFacts DEF Active
  <2>6. PICK a : TopologyEffect(a, req, servant.topology) /\ o.val = a.val
    BY <1>0, <1>1, <2>1, <2>5, AnswerOfClock DEF TopologyRead, TopologyFails
  <2>7. req \in CoreReqs(call.op)
    BY <1>0, <2>1, ReqFacts
  <2>8. PICK base : base = own[call.k][Key(req)]
    OBVIOUS
  <2>9. /\ req.cmd \in {"GetIdleTime", "GetTime", "GetCount"} /\ Key(req) \in DOMAIN own[call.k]
        /\ req.cmd = "GetTime" => due = <<(world.time[req.v][req.l] - base) % W>>
        /\ req.cmd = "GetCount" => due = <<(world.count[req.v][req.l] - base) % W>>
        /\ req.cmd = "GetIdleTime" =>
             /\ base.lines = {req.v} /\ StatLines(req.v, world) = {req.v}
             /\ due = <<world.idle[req.v] - base.idle - (IF StringToInt(world.idle[req.v]) < StringToInt(base.idle) THEN W ELSE 0)>>
    <3>1. PICK from : from = call.from
      OBVIOUS
    <3>2. Due(req, from) = due /\ Due(req, from) # <<>>
      BY <2>2, <2>3, <3>1
    <3>3. /\ req.cmd \in {"GetIdleTime", "GetTime", "GetCount"} /\ Key(req) \in DOMAIN own[call.k]
          /\ req.cmd = "GetTime" => Due(req, from) = <<(world.time[req.v][req.l] - base) % W>>
          /\ req.cmd = "GetCount" => Due(req, from) = <<(world.count[req.v][req.l] - base) % W>>
          /\ req.cmd = "GetIdleTime" =>
               /\ base.lines = {req.v} /\ StatLines(req.v, world) = {req.v}
               /\ Due(req, from) = <<world.idle[req.v] - base.idle - (IF StringToInt(world.idle[req.v]) < StringToInt(base.idle) THEN W ELSE 0)>>
      BY <2>1, <2>8, <3>2, DueFacts
    <3> QED
      BY <3>2, <3>3, Zenon
  <2>10. /\ call.k \in Objects /\ req.v \in machine.cores /\ machine.cores \subseteq Nat
         /\ req.cmd \in {"GetTime", "GetCount"} => req.l \in machine.levels
    BY <1>0, <2>7, <2>9, TopologyReqOf
  <2>11. CASE req.cmd = "GetTime"
    <3>1. Key(req) = <<"time", req.v, req.l>>
      BY <2>1, <2>11 DEF Key
    <3>2. base \in Nat /\ servant.topology.time[req.v][req.l] = base % W
      BY <1>1, <2>8, <2>9, <2>10, <2>11, <3>1 DEF ResetInv, BaselineOfTime
    <3>3. PICK x \in Nat : x = world.time[req.v][req.l]
      BY <1>1, <2>10, <2>11 DEF WorldInv
    <3>4. o.val = ((x % W) - (base % W)) % W
      BY <2>6, <2>11, <3>2, <3>3 DEF TopologyEffect
    <3>5. ((x % W) - (base % W)) % W = (x - base) % W
      BY <3>2, ModDifference
    <3> QED
      BY <2>3, <2>4, <2>9, <2>11, <3>3, <3>4, <3>5
  <2>12. CASE req.cmd = "GetCount"
    <3>1. Key(req) = <<"count", req.v, req.l>>
      BY <2>1, <2>12 DEF Key
    <3>2. base \in Nat /\ servant.topology.count[req.v][req.l] = base % W
      BY <1>1, <2>8, <2>9, <2>10, <2>12, <3>1 DEF ResetInv, BaselineOfCount
    <3>3. PICK x \in Nat : x = world.count[req.v][req.l]
      BY <1>1, <2>10, <2>12 DEF WorldInv
    <3>4. o.val = ((x % W) - (base % W)) % W
      BY <2>6, <2>12, <3>2, <3>3 DEF TopologyEffect
    <3>5. ((x % W) - (base % W)) % W = (x - base) % W
      BY <3>2, ModDifference
    <3> QED
      BY <2>3, <2>4, <2>9, <2>12, <3>3, <3>4, <3>5
  <2>13. CASE req.cmd = "GetIdleTime"
    <3>1. Key(req) = <<"idle", req.v>>
      BY <2>1, <2>13 DEF Key
    <3>2. /\ base.idle \in Nat /\ base.idle <= world.idle[req.v] /\ world.idle[req.v] - base.idle < world.now
          /\ servant.topology.idle[req.v] = StringToInt(base.idle)
      BY <1>1, <2>8, <2>9, <2>10, <2>13, <3>1 DEF ResetInv, BaselineOfIdle
    <3>3. PICK x \in Nat : x = world.idle[req.v]
      BY <1>1, <2>10 DEF WorldInv
    <3>4. PICK y \in Nat : y = base.idle
      BY <3>2
    <3>5. x - y < W
      <4>1. world.now \in Nat /\ (world.now <= MaxTicks \/ world.now = 1) /\ MaxTicks \in Nat /\ W \in Nat \ {0}
        BY <1>1, WAssumption, MachinesAssumption DEF WorldInv
      <4> QED
        BY <3>2, <3>3, <3>4, <4>1
    <3>6. /\ StringToInt(x) - StringToInt(y) = x - y - (IF StringToInt(x) < StringToInt(y) THEN W ELSE 0)
      BY <3>2, <3>3, <3>4, <3>5, IntDifference
    <3>7. Max({req.v}) = req.v
      BY <2>10 DEF Max
    <3>8. GetAbsoluteIdleTime(req.v, world) = StringToInt(x)
      BY <2>9, <2>13, <3>3, <3>7 DEF GetAbsoluteIdleTime
    <3>9. o.val = StringToInt(x) - StringToInt(y)
      BY <2>6, <2>13, <3>2, <3>4, <3>8 DEF TopologyEffect
    <3> QED
      BY <2>3, <2>4, <2>9, <2>13, <3>3, <3>4, <3>6, <3>9
  <2> QED
    BY <2>9, <2>11, <2>12, <2>13
<1> QED
  BY <1>2, <1>3 DEF ServeStep
\* A step that reads and resets nothing, and comes to nothing that is due.
Quiet ==
  /\ machine' = machine /\ world' = world /\ own' = own /\ last'.due = <<>>
  /\ servant' = servant \/ servant' = [servant EXCEPT !.status = "abandoned"]

\* Calls that begin, and that send nothing.
LEMMA QuietCalls ==
  /\ \A family, k, op, todo, arg : Begin(family, k, op, todo, arg) => Quiet
  /\ \A family, k, op, status, val : Return(family, k, op, status, val) /\ servant' = servant => Quiet
<1>1. ASSUME NEW family, NEW k, NEW op, NEW todo, NEW arg, Begin(family, k, op, todo, arg) PROVE Quiet
  BY <1>1 DEF Begin, Quiet, NoResult
<1>2. ASSUME NEW family, NEW k, NEW op, NEW status, NEW val, Return(family, k, op, status, val), servant' = servant PROVE Quiet
  BY <1>2 DEF Return, Quiet, NoResult
<1> QED
  BY <1>1, <1>2

\* A quiet step.
LEMMA QuietClock ==
  ASSUME ServantInv, ClockInv, Quiet
  PROVE  ClockInv' /\ IdleSinceReset'
<1>1. servant'.topology = servant.topology
  BY DEF Quiet, ServantInv, IsServant
<1>2. machine' = machine /\ world' = world /\ own' = own /\ last'.due = <<>> /\ WorldInv /\ TopologyInv
  BY DEF Quiet, ClockInv
<1>3. WorldInv'
  BY <1>2 DEF WorldInv
<1>4. TopologyInv'
  BY <1>1, <1>2 DEF TopologyInv, Baselines
<1>5. \A v \in machine.cores : world.idle[v] <= world'.idle[v] /\ world'.idle[v] - world.idle[v] <= world'.now - world.now
  BY <1>2 DEF WorldInv
<1>6. ClockInv'
  BY <1>1, <1>2, <1>3, <1>4, <1>5, ClockKept
<1> QED
  BY <1>2, <1>6 DEF IdleSinceReset

\* Every step passes time, takes a sample, answers a request or is quiet.
LEMMA Steps ==
  ASSUME ProxyNext
  PROVE  \/ \E watts \in machine.watts : \E cores, l : Tick(watts, cores, l)
         \/ Sample \/ Serve \/ Quiet
<1>1. GetRollbackPoint => Quiet
  BY DEF GetRollbackPoint, Quiet, NoResult
<1>2. RollbackCaps => Quiet
  BY QuietCalls DEF RollbackCaps
<1>3. ASSUME NEW zone, NEW cap, CapOp(zone, cap) PROVE Quiet
  BY <1>3, QuietCalls DEF CapOp
<1>4. ASSUME NEW k, NewTopology(k) \/ NewEnergy(k) \/ NewCpuFreq(k) PROVE Quiet
  BY <1>4, QuietCalls DEF NewTopology, NewEnergy, NewCpuFreq
<1>5. ASSUME NEW k, GetInstanceTask(k) \/ DefaultCounter(k) \/ ClockModulation(k) PROVE Quiet
  BY <1>5, QuietCalls DEF GetInstanceTask, DefaultCounter, ClockModulation
<1>6. ASSUME NEW k, ReleaseModules(k) PROVE Quiet
  BY <1>6 DEF ReleaseModules, Return, Quiet, NoResult
<1>7. ASSUME NEW k, NEW type, EnergyOp(k, type) PROVE Quiet
  BY <1>7, QuietCalls DEF EnergyOp
<1>8. ASSUME NEW k, NEW v, NEW cmd, CoreOp(k, v, cmd) PROVE Quiet
  BY <1>8, QuietCalls DEF CoreOp
<1>9. ASSUME NEW k, NEW v, NEW l, NEW cmd, LevelOp(k, v, l, cmd) PROVE Quiet
  BY <1>9, QuietCalls DEF LevelOp
<1>10. ASSUME NEW k, NEW cmd, NEW type, NEW id, UnitOp(k, cmd, type, id) PROVE Quiet
  BY <1>10, QuietCalls DEF UnitOp
<1>11. ASSUME NEW k, NEW cmd, BoostOp(k, cmd) PROVE Quiet
  BY <1>11, QuietCalls DEF BoostOp
<1> QED
  BY <1>1, <1>2, <1>3, <1>4, <1>5, <1>6, <1>7, <1>8, <1>9, <1>10, <1>11 DEF ProxyNext
\* Tick(): a table that grows has the same rows and columns.
LEMMA GrownFacts ==
  ASSUME NEW C, NEW L, NEW f \in [C -> [L -> Nat]], NEW cores, NEW l
  PROVE  Grown(f, cores, l) \in [C -> [L -> Nat]]
<1>1. ASSUME NEW v \in C PROVE [f[v] EXCEPT ![l] = @ + 1] \in [L -> Nat] /\ f[v] \in [L -> Nat]
  <2>1. PICK g \in [L -> Nat] : g = f[v]
    OBVIOUS
  <2>2. PICK h : h = [g EXCEPT ![l] = g[l] + 1]
    OBVIOUS
  <2>3. h = [x \in L |-> IF x = l THEN g[l] + 1 ELSE g[x]]
    BY <2>2
  <2>4. \A x \in L : g[x] \in Nat /\ (IF x = l THEN g[l] + 1 ELSE g[x]) \in Nat
    OBVIOUS
  <2>5. h \in [L -> Nat]
    BY <2>3, <2>4
  <2> QED
    BY <2>1, <2>2, <2>5
<1>2. DOMAIN f = C
  OBVIOUS
<1> QED
  BY <1>1, <1>2 DEF Grown

\* Time passes: the idle time of a core grows by one at most.
LEMMA TickClock ==
  ASSUME ClockInv, NEW watts, NEW cores, NEW l, Tick(watts, cores, l)
  PROVE  ClockInv' /\ (IdleSinceReset => IdleSinceReset')
<1> DEFINE idle  == Idled(world.idle, cores)
           time  == Grown(world.time, cores, l)
           count == Grown(world.count, cores, l)
<1>0. WorldInv /\ TopologyInv /\ MaxTicks \in Nat
  BY MachinesAssumption DEF ClockInv
<1>1. world.now < MaxTicks /\ machine' = machine /\ servant' = servant /\ last' = last /\ own' = own
  BY DEF Tick
<1>2. idle \in [machine.cores -> Nat] /\ \A v \in machine.cores : idle[v] = world.idle[v] \/ idle[v] = world.idle[v] + 1
  BY <1>0 DEF WorldInv, Idled
<1>3. time \in [machine.cores -> [machine.levels -> Nat]] /\ count \in [machine.cores -> [machine.levels -> Nat]]
  BY <1>0, GrownFacts DEF WorldInv
<1>4. IsWorld(world') /\ world'.now = world.now + 1 /\ world'.idle = idle /\ world'.time = time /\ world'.count = count
  <2>1. IsWorld(world)
    BY <1>0 DEF WorldInv
  <2>2. world' = [world EXCEPT !.now = @ + 1, !.joules = @ + world.watts, !.watts = watts, !.seen = @ \cup {watts},
                               !.idle = idle, !.time = time, !.count = count]
    BY DEF Tick
  <2> QED
    BY <2>1, <2>2 DEF IsWorld
<1> HIDE DEF idle, time, count
<1>5. WorldInv'
  BY <1>0, <1>1, <1>2, <1>3, <1>4 DEF WorldInv
<1>6. TopologyInv'
  BY <1>0, <1>1 DEF TopologyInv, Baselines
<1>7. \A v \in machine.cores : world.idle[v] <= world'.idle[v] /\ world'.idle[v] - world.idle[v] <= world'.now - world.now
  BY <1>0, <1>2, <1>4 DEF WorldInv
<1>8. ClockInv'
  BY <1>1, <1>5, <1>6, <1>7, ClockKept
<1> QED
  BY <1>1, <1>8 DEF IdleSinceReset

\* Amester takes a sample.
LEMMA SampleClock ==
  ASSUME ClockInv, Sample
  PROVE  ClockInv' /\ (IdleSinceReset => IdleSinceReset')
<1>0. WorldInv /\ TopologyInv
  BY DEF ClockInv
<1>1. /\ machine' = machine /\ servant' = servant /\ last' = last /\ own' = own
      /\ \E x : world' = [world EXCEPT !.sample = x]
  BY DEF Sample
<1>2. /\ IsWorld(world') /\ world'.now = world.now /\ world'.idle = world.idle
      /\ world'.time = world.time /\ world'.count = world.count
  BY <1>0, <1>1 DEF WorldInv, IsWorld
<1>3. WorldInv'
  BY <1>0, <1>1, <1>2 DEF WorldInv
<1>4. TopologyInv'
  BY <1>0, <1>1 DEF TopologyInv, Baselines
<1>5. \A v \in machine.cores : world.idle[v] <= world'.idle[v] /\ world'.idle[v] - world.idle[v] <= world'.now - world.now
  BY <1>0, <1>2 DEF WorldInv
<1>6. ClockInv'
  BY <1>1, <1>3, <1>4, <1>5, ClockKept
<1> QED
  BY <1>1, <1>6 DEF IdleSinceReset

\* Every step.
LEMMA ClockStep ==
  ASSUME ProxyInv, ClockInv, [ProxyNext]_proxyVars
  PROVE  ClockInv' /\ (MaxTicks <= W /\ IdleSinceReset => IdleSinceReset')
<1>1. CASE UNCHANGED proxyVars
  <2>1. machine' = machine /\ world' = world /\ servant' = servant /\ last' = last /\ own' = own /\ WorldInv /\ TopologyInv
    BY <1>1 DEF proxyVars, ClockInv
  <2>2. WorldInv'
    BY <2>1 DEF WorldInv
  <2>3. TopologyInv'
    BY <2>1 DEF TopologyInv, Baselines
  <2>4. \A v \in machine.cores : world.idle[v] <= world'.idle[v] /\ world'.idle[v] - world.idle[v] <= world'.now - world.now
    BY <2>1 DEF WorldInv
  <2>5. ClockInv'
    BY <2>1, <2>2, <2>3, <2>4, ClockKept
  <2> QED
    BY <2>1, <2>5 DEF IdleSinceReset
<1>2. ASSUME NEW watts, NEW cores, NEW l, Tick(watts, cores, l) PROVE ClockInv' /\ (IdleSinceReset => IdleSinceReset')
  BY <1>2, TickClock
<1>3. CASE Sample
  BY <1>3, SampleClock
<1>4. CASE Serve
  <2>1. PICK o, req : ServeStep(o, req)
    BY <1>4, ServeParts
  <2> QED
    BY <2>1, ServeClock, ServeIdle
<1>5. CASE Quiet
  BY <1>5, QuietClock DEF ProxyInv
<1> QED
  BY <1>1, <1>2, <1>3, <1>4, <1>5, Steps

\* The constructors of the servant's topology read what the files hold, and
\* nobody has reset anything.
LEMMA ClockStart ==
  ASSUME ProxyInit
  PROVE  ClockInv /\ IdleSinceReset
<1>0. machine.since \in Nat /\ MachineInv
  BY MachineFacts DEF ProxyInit, MachineInv, IsMachine
<1>1. PICK watts : world = World(watts, machine)
  BY DEF ProxyInit
<1>2. /\ IsWorld(world) /\ world.now = 1 /\ world.idle = [v \in machine.cores |-> machine.since]
      /\ world.time = [v \in machine.cores |-> [l \in machine.levels |-> machine.since]]
      /\ world.count = [v \in machine.cores |-> [l \in machine.levels |-> machine.since]]
  BY <1>1 DEF World, IsWorld
<1>3. WorldInv
  BY <1>0, <1>2 DEF WorldInv
<1>4. TopologyInv
  <2>1. PICK idle : idle = [v \in machine.cores |-> GetAbsoluteIdleTime(v, world)]
    OBVIOUS
  <2>2. PICK t : t = TopologyNew(machine, world)
    OBVIOUS
  <2>3. servant.topology = t
    BY <2>2 DEF ProxyInit, Servant
  <2>4. PICK x \in Int : x = machine.since % W
    BY <1>0, ModFacts
  <2>5. \A v \in machine.cores, l \in machine.levels : GetAbsoluteTime(v, l, world) = x /\ GetAbsoluteCount(v, l, world) = x
    BY <1>2, <2>4 DEF GetAbsoluteTime, GetAbsoluteCount, StringToUint
  <2>6. \A v \in machine.cores : NewLevels(v, machine, world).time \in [machine.levels -> Int] /\ NewLevels(v, machine, world).count \in [machine.levels -> Int]
    BY <2>5 DEF NewLevels
  <2>7. /\ t.idle = idle /\ t.time = [v \in machine.cores |-> NewLevels(v, machine, world).time]
        /\ t.count = [v \in machine.cores |-> NewLevels(v, machine, world).count] /\ IsTopology(t)
    BY <2>1, <2>2 DEF TopologyNew, IsTopology
  <2>8. t.time \in Baselines /\ t.count \in Baselines /\ t.idle = [v \in machine.cores |-> t.idle[v]]
    BY <2>1, <2>6, <2>7 DEF Baselines
  <2> QED
    BY <2>3, <2>7, <2>8 DEF TopologyInv
<1>5. ResetInv
  BY DEF ProxyInit, ResetInv, BaselineOfTime, BaselineOfCount, BaselineOfIdle
<1>6. IdleSinceReset
  BY DEF ProxyInit, NoResult, IdleSinceReset
<1> QED
  BY <1>3, <1>4, <1>5, <1>6 DEF ClockInv

\* VirtualCoreRemote and VirtualCoreIdleLevelRemote: what an object reads of an
\* idle time, of the time or of the count of a level is what has passed since
\* its own reset, on whatever machine and whatever the width of the numbers, in
\* a run of at most W ticks; an idle time that grows by W would be lost.
THEOREM IdleAlwaysSinceReset ==
  ASSUME MaxTicks <= W
  PROVE  ProxySpec => []IdleSinceReset
<1>1. ProxyInit => ProxyInv /\ ClockInv /\ IdleSinceReset
  BY ProxyStart, ClockStart
<1>2. ProxyInv /\ Results /\ ClockInv /\ IdleSinceReset /\ [ProxyNext]_proxyVars => (ClockInv /\ IdleSinceReset)'
  BY ClockStep
<1> QED
  BY <1>1, <1>2, ProxyInvariant, PTL DEF ProxySpec

-----------------------------------------------------------------------------
(* Energy of the counters.                                                 *)

-----------------------------------------------------------------------------
(* The total of the processors.                                            *)

\* What the first n processors add up to.
LEMMA TotalsFacts ==
  ASSUME NEW C, IsFiniteSet(C), NEW val \in [C -> Int]
  PROVE  /\ CpusTotals(val) \in [0..Cardinality(C) -> Int] /\ CpusTotals(val)[0] = 0
         /\ \A n \in 1..Cardinality(C) : CpusTotals(val)[n] = CpusTotals(val)[n - 1] + val[SetToSeq(C)[n]]
<1>1. PICK N \in Nat : N = Cardinality(C)
  BY RowFacts
<1>2. PICK cpus \in [1..N -> C] : cpus = SetToSeq(C)
  BY <1>1, RowFacts
<1>3. DOMAIN val = C /\ Len(cpus) = N
  BY <1>1, <1>2
<1> DEFINE G(g) == [n \in 0..N |-> IF n = 0 THEN 0 ELSE g[n - 1] + val[cpus[n]]]
           F == [x \in (1..N) \X Int |-> x[2] + val[cpus[x[1]]]]
<1>4. CpusTotals(val) = CHOOSE g : g = G(g)
  BY <1>2, <1>3 DEF CpusTotals
<1>5. \A n \in 1..N : val[cpus[n]] \in Int
  OBVIOUS
<1>6. IsStep(F, N, Int)
  BY <1>5 DEF IsStep
<1>7. \A n \in 1..N, x \in Int : F[<<n, x>>] = x + val[cpus[n]]
  OBVIOUS
<1> HIDE DEF F
<1>8. PICK f : IsIteration(f, N, Int, 0, F)
  <2>1. 0 \in Int
    OBVIOUS
  <2> QED
    BY <1>1, <1>6, <2>1, Iterates
<1>9. f \in [0..N -> Int] /\ f[0] = 0 /\ \A n \in 1..N : f[n] = f[n - 1] + val[cpus[n]]
  <2>1. f \in [0..N -> Int] /\ f[0] = 0 /\ \A n \in 1..N : f[n] = F[<<n, f[n - 1]>>]
    BY <1>8 DEF IsIteration
  <2>2. \A n \in 1..N : n - 1 \in 0..N
    BY <1>1
  <2>3. ASSUME NEW n \in 1..N PROVE f[n] = f[n - 1] + val[cpus[n]]
    <3>1. f[n - 1] \in Int
      BY <2>1, <2>2
    <3> QED
      BY <1>7, <2>1, <3>1
  <2> QED
    BY <2>1, <2>3
<1>10. f = G(f)
  <2>1. \A n \in 0..N : n = 0 \/ n \in 1..N
    BY <1>1
  <2> QED
    BY <1>9, <2>1
<1>11. PICK t : t = CpusTotals(val) /\ t = G(t)
  BY <1>4, <1>10
<1>12. \A n \in 0..N : t[n] = IF n = 0 THEN 0 ELSE t[n - 1] + val[cpus[n]]
  BY <1>11
<1> DEFINE S == {n \in 0..N : t[n] = f[n]}
<1>13. 0 \in S
  BY <1>9, <1>12
<1>14. ASSUME NEW n \in 1..N, n - 1 \in S PROVE n \in S
  <2>1. n \in 0..N /\ n # 0 /\ t[n - 1] = f[n - 1]
    BY <1>14
  <2> QED
    BY <1>9, <1>12, <2>1
<1>15. \A n \in 0..N : t[n] = f[n]
  <2> HIDE DEF S
  <2>1. 0..N \subseteq S
    BY <1>13, <1>14, InductionUpTo
  <2> QED
    BY <2>1 DEF S
<1>16. t = f
  <2>1. t = [n \in 0..N |-> t[n]]
    BY <1>11
  <2> QED
    BY <1>9, <1>15, <2>1
<1> QED
  BY <1>1, <1>2, <1>9, <1>11, <1>16

\* The numbers that the processors are counted with.
Weights == [cpu \in machine.cpus |-> cpu + 1]

\* The total of a multiple of the weights.
LEMMA TotalOfMultiple ==
  ASSUME MachineInv, NEW v \in Int
  PROVE  CpusTotal([cpu \in machine.cpus |-> (cpu + 1) * v]) = CpusTotal(Weights) * v
<1> DEFINE C == machine.cpus
<1>1. IsFiniteSet(C) /\ C \subseteq Nat
  BY MachineFacts DEF IsMachine
<1>2. PICK N \in Nat : N = Cardinality(C)
  BY <1>1, RowFacts
<1>3. PICK cpus \in [1..N -> C] : cpus = SetToSeq(C)
  BY <1>1, <1>2, RowFacts
<1>4. Weights \in [C -> Int] /\ \A c \in C : Weights[c] = c + 1 /\ c \in Nat
  BY <1>1 DEF Weights
<1>0. PICK val : val = [cpu \in machine.cpus |-> (cpu + 1) * v]
  OBVIOUS
<1>5. val \in [C -> Int] /\ \A c \in C : val[c] = (c + 1) * v
  <2>1. \A c \in C : (c + 1) * v \in Int
    BY <1>1
  <2> QED
    BY <1>0, <2>1
<1> HIDE DEF C
<1>6. PICK w \in [0..N -> Int] : w = CpusTotals(Weights) /\ w[0] = 0 /\ \A n \in 1..N : w[n] = w[n - 1] + Weights[cpus[n]]
  <2>1. Weights \in [C -> Int]
    BY <1>4
  <2>2. /\ CpusTotals(Weights) \in [0..Cardinality(C) -> Int] /\ CpusTotals(Weights)[0] = 0
        /\ \A n \in 1..Cardinality(C) : CpusTotals(Weights)[n] = CpusTotals(Weights)[n - 1] + Weights[SetToSeq(C)[n]]
    BY <1>1, <2>1, TotalsFacts, Zenon
  <2> QED
    BY <1>2, <1>3, <2>2
<1>7. PICK t \in [0..N -> Int] : t = CpusTotals(val) /\ t[0] = 0 /\ \A n \in 1..N : t[n] = t[n - 1] + val[cpus[n]]
  <2>1. val \in [C -> Int]
    BY <1>5
  <2>2. /\ CpusTotals(val) \in [0..Cardinality(C) -> Int] /\ CpusTotals(val)[0] = 0
        /\ \A n \in 1..Cardinality(C) : CpusTotals(val)[n] = CpusTotals(val)[n - 1] + val[SetToSeq(C)[n]]
    BY <1>1, <2>1, TotalsFacts, Zenon
  <2> QED
    BY <1>2, <1>3, <2>2
<1> DEFINE S == {n \in 0..N : t[n] = w[n] * v}
<1>8. 0 \in S
  BY <1>6, <1>7
<1>9. ASSUME NEW n \in 1..N, n - 1 \in S PROVE n \in S
  <2>1. PICK c \in Nat : c = cpus[n] /\ Weights[cpus[n]] = c + 1 /\ val[cpus[n]] = (c + 1) * v
    BY <1>4, <1>5
  <2>2. PICK x \in Int : x = w[n - 1]
    <3>1. n - 1 \in 0..N
      BY <1>2
    <3> QED
      BY <1>6, <3>1
  <2>3. n \in 0..N /\ t[n - 1] = x * v
    BY <1>9, <2>2
  <2>4. t[n] = x * v + (c + 1) * v /\ w[n] = x + (c + 1)
    BY <1>6, <1>7, <2>1, <2>2, <2>3
  <2>5. (x + (c + 1)) * v = x * v + (c + 1) * v
    OBVIOUS
  <2> QED
    BY <2>3, <2>4, <2>5
<1>10. N \in S
  <2> HIDE DEF S
  <2>1. 0..N \subseteq S
    BY <1>8, <1>9, InductionUpTo
  <2> QED
    BY <1>2, <2>1
<1>11. DOMAIN val = C /\ DOMAIN Weights = C
  BY <1>4, <1>5
<1> QED
  BY <1>0, <1>2, <1>6, <1>7, <1>10, <1>11 DEF CpusTotal
-----------------------------------------------------------------------------
(* What the counters hold.                                                 *)

IsPower(w) ==
  /\ w.now \in Nat /\ w.joules \in Nat /\ w.watts \in w.seen /\ w.seen \subseteq Nat /\ IsFiniteSet(w.seen)
  /\ w.sample.joules \in Nat /\ w.sample.at \in Nat /\ w.sample.watts \in Nat
  /\ w.seen = {w.watts} =>
       w.joules = w.watts * w.now /\ w.sample.joules = w.watts * w.sample.at /\ w.sample.watts = w.watts

\* A counter that an object has reset at base, and nobody since.
MeterHolds(w, c, base) ==
  /\ base.joules \in Nat /\ base.joules <= w.joules /\ base.at \in Nat /\ base.at <= w.now
  /\ c.kind \in {"rapl", "dram", "smartgauge"} => c.last = base.joules
  /\ c.kind = "amester" /\ w.seen = {w.watts} => c.last = w.watts * (base.at - c.at)
  /\ c.kind = "ina" => c.at = base.at
  /\ c.kind \in {"smartpower2", "file"} =>
       /\ c.at \in Nat /\ base.at <= c.at /\ c.at <= w.now
       /\ c.cum \in Nat /\ c.cum <= Max(w.seen) * (c.at - base.at)
       /\ c.kind = "file" => Min(w.seen) * (c.at - base.at) <= c.cum

\* What the counters of the servant hold, for the objects that own a reset.
MetersInv ==
  /\ IsPower(world)
  /\ \A type \in CounterTypes : servant.energy[type].kind = "amester" => servant.energy[type].at \in Int
  /\ own \in [Objects -> {own[k] : k \in Objects}]
  /\ \A k \in Objects, type \in CounterTypes :
       <<"counter", type>> \in DOMAIN own[k] => MeterHolds(world, servant.energy[type], own[k][<<"counter", type>>])

\* getJoulesCpuAll(): what the answers have added up to is the energy of that
\* many processors, since the reset, at the beginning of the call or later.
SumBetween(n, from, now, base, acc) ==
  acc \in Int /\ CpusTotals(Weights)[n] * (from - base.joules) <= acc /\ acc <= CpusTotals(Weights)[n] * (now - base.joules)

\* What the getters of energy have read so far, and still have to read.
GetterInv ==
  call.op \in Getters =>
    /\ call.from \in Nat /\ call.from <= world.joules
    /\ \A n \in DOMAIN call.todo : call.todo[n].type = "cpus" <=> call.op # "getJoules"
    /\ call.op = "getJoulesCpu" => call.arg \in machine.cpus
    /\ call.op = "getJoulesCpuAll" =>
         /\ call.sent + Len(call.todo) = Cardinality(machine.cpus)
         /\ <<"counter", "cpus">> \in DOMAIN own[call.k] =>
              SumBetween(call.sent, call.from, world.joules, own[call.k][<<"counter", "cpus">>], call.acc)

-----------------------------------------------------------------------------
(* What a request leaves of the counters, and answers.                     *)

\* Other modules leave the counters.
LEMMA AnswerElsewhere ==
  ASSUME MachineInv, ServantInv, NEW op, NEW req \in ReqsOf(op), NEW o \in Answers(req),
         req.module # "energy" \/ "energy" \notin machine.mask
  PROVE  o.servant.energy = servant.energy
<1>s. IsServant(servant)
  BY DEF ServantInv
<1> DEFINE of(a, module) == [status |-> a.status, val |-> a.val, servant |-> [servant EXCEPT ![module] = a.module], world |-> world, caps |-> caps]
           same(status)  == [status |-> status, val |-> 0, servant |-> servant, world |-> world, caps |-> caps]
<1>0. req.module \in {"caps", "energy", "cpufreq", "topology"}
  BY ReqFacts
<1>1. CASE req.module \notin {"caps"} \cup machine.mask
  <2>1. Answers(req) = {same("thrown")}
    BY <1>1 DEF Answers
  <2> QED
    BY <2>1
<1>2. CASE req.module = "topology" /\ "topology" \in machine.mask
  <2> DEFINE answers == {TopologyProcessMessage(req, servant.topology, world, machine)} \cup TopologyFaults(req, servant.topology, world, machine)
  <2>1. Answers(req) = {[of(a, "topology") EXCEPT !.world = a.world] : a \in answers}
    BY <1>2 DEF Answers
  <2> HIDE DEF answers
  <2>2. PICK a \in answers : o.servant = [servant EXCEPT !["topology"] = a.module]
    BY <2>1
  <2> QED
    BY <1>s, <2>2 DEF IsServant
<1>3. CASE req.module = "caps"
  <2>1. Answers(req) = {[same(c.status) EXCEPT !.caps = c.module] : c \in SetCap(req, caps)}
    BY <1>3 DEF Answers
  <2>2. \E c : o = [same(c.status) EXCEPT !.caps = c.module]
    BY <2>1
  <2> QED
    BY <2>2
<1>4. CASE req.module = "cpufreq" /\ "cpufreq" \in machine.mask
  <2> DEFINE answers == {FreqProcessMessage(req, servant.cpufreq)} \cup FreqFaults(req, servant.cpufreq, machine)
  <2>1. Answers(req) = {of(a, "cpufreq") : a \in answers}
    BY <1>4 DEF Answers
  <2> HIDE DEF answers
  <2>2. PICK a \in answers : o.servant = [servant EXCEPT !["cpufreq"] = a.module]
    BY <2>1
  <2> QED
    BY <1>s, <2>2 DEF IsServant
<1> QED
  BY <1>0, <1>1, <1>2, <1>3, <1>4

\* The world after an answer.
LEMMA AnswerWorld ==
  ASSUME MachineInv, ServantInv, WorldInv, TopologyInv, NEW op, NEW req \in ReqsOf(op), NEW o \in Answers(req)
  PROVE  SameFiles(o.world)
<1>1. SameFiles(world)
  BY FilesKept
<1> QED
  BY <1>1, AnswerOfClock DEF TopologyRead, TopologyFails, TopologyEffect

\* What an operation that succeeds, or fails, leaves of the counter that was
\* addressed: one that fails takes no sample of Amester, and only init() and
\* reset() change the others.
EnergyEffect(o, req, c, d) ==
  /\ req.cmd = "HAS" => d = c
  /\ req.cmd = "INIT" =>
       \/ o.status = "ok" /\ o.val = TRUE /\ c.kind # "none" /\ d = InitCounter(c, world)
       \/ (o.status # "ok" \/ o.val = FALSE) /\ c.kind # "dram" /\ (c.kind = "amester" => d.at = c.at)
  /\ req.cmd = "RESET" =>
       \/ o.status = "ok" /\ c.kind # "none" /\ d = ResetCounter(c, world)
       \/ o.status # "ok" /\ (c.kind = "amester" => d.at = c.at)
  /\ req.cmd = "GET" =>
       \/ o.status = "ok" /\ c.kind # "none" /\
            \E r \in GetJoules(c, world, machine) :
              d = r.counter /\ o.val = IF req.type = "cpus" THEN [cpu \in machine.cpus |-> (cpu + 1) * r.val] ELSE r.val
       \/ o.status # "ok" /\ d = c

\* Energy::processMessage().
LEMMA AnswerOfCounter ==
  ASSUME MachineInv, ServantInv, NEW op, NEW req \in EnergyReqs(op), "energy" \in machine.mask, NEW o \in Answers(req)
  PROVE  /\ \A type \in CounterTypes \ {req.type} : o.servant.energy[type] = servant.energy[type]
         /\ EnergyEffect(o, req, servant.energy[req.type], o.servant.energy[req.type])
<1>1. /\ req.module = "energy" /\ req.cmd \in {"INIT", "HAS", "RESET", "GET"} /\ req.type \in CounterTypes
      /\ (req.cmd = "HAS" => req.type = "cpus")
  BY EnergyReqFacts
<1>2. IsServant(servant) /\ IsCounters(servant.energy)
  BY DEF ServantInv
<1> DEFINE of(a) == [status |-> a.status, val |-> a.val, servant |-> [servant EXCEPT !["energy"] = a.module], world |-> world, caps |-> caps]
           answer(p) == [module |-> [servant.energy EXCEPT ![req.type] = p.counter], status |-> p.status, val |-> p.val]
<1>3. PICK c : c = servant.energy[req.type]
  OBVIOUS
<1>4. Answers(req) = {of(a) : a \in EnergyProcessMessage(req, servant.energy, world, machine)}
  BY <1>1 DEF Answers
<1>5. PICK p : /\ o = of(answer(p))
               /\ req.cmd = "INIT" => p \in InitMessage(c, world, machine)
               /\ req.cmd = "RESET" => p \in ResetMessage(c, world, machine)
               /\ req.cmd = "GET" => p \in GetMessage(req.type, c, world, machine)
               /\ req.cmd = "HAS" => p \in HasMessage(req.type, c, machine)
  <2>1. PICK a \in EnergyProcessMessage(req, servant.energy, world, machine) : o = of(a)
    BY <1>4
  <2>2. PICK p : /\ a = answer(p)
                 /\ req.cmd = "INIT" => p \in InitMessage(c, world, machine)
                 /\ req.cmd = "RESET" => p \in ResetMessage(c, world, machine)
                 /\ req.cmd = "GET" => p \in GetMessage(req.type, c, world, machine)
                 /\ req.cmd = "HAS" => p \in HasMessage(req.type, c, machine)
    BY <1>1, <1>3, <2>1 DEF EnergyProcessMessage
  <2> QED
    BY <2>1, <2>2
<1>6. /\ o.status = p.status /\ o.val = p.val /\ o.servant.energy[req.type] = p.counter
      /\ \A type \in CounterTypes \ {req.type} : o.servant.energy[type] = servant.energy[type]
  <2>1. o.status = p.status /\ o.val = p.val /\ o.servant = [servant EXCEPT !["energy"] = [servant.energy EXCEPT ![req.type] = p.counter]]
    BY <1>5
  <2>2. o.servant.energy = [servant.energy EXCEPT ![req.type] = p.counter]
    BY <1>2, <2>1 DEF IsServant
  <2> QED
    BY <1>1, <1>2, <2>1, <2>2 DEF IsCounters, CounterTypes
<1>k. c.kind # "none" => c.kind \in AllKinds
  BY <1>1, <1>3 DEF ServantInv, Kinds, AllKinds, CounterTypes
<1>c. IsCounter(c)
  BY <1>1, <1>3 DEF ServantInv
<1>7. \A x : /\ Unavailable(x).counter = x /\ Unavailable(x).status = "ok" /\ Unavailable(x).val = FALSE
             /\ Throws(x).counter = x /\ Throws(x).status = "thrown" /\ Dies(x).counter = x /\ Dies(x).status = "died"
  BY DEF Unavailable, Throws, Dies, Outcome
<1>8. CASE req.cmd = "INIT"
  <2>1. p \in InitMessage(c, world, machine)
    BY <1>5, <1>8
  <2>2. CASE c.kind = "none"
    <3>1. p = Unavailable(c)
      BY <2>1, <2>2 DEF InitMessage, NoCounterInit
    <3> QED
      BY <1>3, <1>6, <1>7, <1>8, <2>2, <3>1 DEF EnergyEffect
  <2>3. CASE c.kind # "none" /\ p = Outcome(InitCounter(c, world), "ok", TRUE)
    <3>1. p.counter = InitCounter(c, world) /\ p.status = "ok" /\ p.val = TRUE
      BY <2>3 DEF Outcome
    <3> QED
      BY <1>3, <1>6, <1>8, <2>3, <3>1 DEF EnergyEffect
  <2>4. CASE c.kind # "none" /\ p \in InitFails(c, world)
    <3>1. c.kind # "dram" /\ (p.status # "ok" \/ p.val = FALSE) /\ (c.kind = "amester" => p.counter.at = c.at)
      <4>1. CASE c.kind = "amester"
        <5>1. p \in {Unavailable(c), Dies(c)}
          BY <2>4, <4>1 DEF InitFails
        <5> QED
          BY <1>7, <4>1, <5>1
      <4>2. CASE c.kind \in {"smartgauge", "smartpower2", "file", "ina", "rapl"}
        <5>1. \E x : p \in {Unavailable(x), Throws(x), Dies(x)}
          BY <2>4, <4>2 DEF InitFails, ResetCut
        <5> QED
          BY <1>7, <4>2, <5>1
      <4>3. CASE c.kind = "dram"
        BY <2>4, <4>3 DEF InitFails
      <4> QED
        BY <1>k, <2>4, <4>1, <4>2, <4>3 DEF AllKinds
    <3> QED
      BY <1>3, <1>6, <1>8, <3>1 DEF EnergyEffect
  <2> QED
    BY <2>1, <2>2, <2>3, <2>4 DEF InitMessage, Faults
<1>9. CASE req.cmd = "RESET"
  <2>1. p \in ResetMessage(c, world, machine)
    BY <1>5, <1>9
  <2>2. CASE c.kind # "none" /\ p = Outcome(ResetCounter(c, world), "ok", TRUE)
    <3>1. p.counter = ResetCounter(c, world) /\ p.status = "ok"
      BY <2>2 DEF Outcome
    <3> QED
      BY <1>3, <1>6, <1>9, <2>2, <3>1 DEF EnergyEffect
  <2>3. CASE p = Dies(c) \/ (c.kind # "none" /\ p \in ResetFails(c, world))
    <3>1. p.status # "ok" /\ (c.kind = "amester" => p.counter.at = c.at)
      BY <1>k, <1>7, <2>3 DEF ResetFails, ResetCut, AllKinds
    <3> QED
      BY <1>3, <1>6, <1>9, <3>1 DEF EnergyEffect
  <2> QED
    BY <2>1, <2>2, <2>3 DEF ResetMessage, Faults
<1>10. CASE req.cmd = "GET"
  <2>1. p \in GetMessage(req.type, c, world, machine)
    BY <1>5, <1>10
  <2>2. ASSUME c.kind # "none", NEW r \in GetJoules(c, world, machine), NEW val,
               val = (IF req.type = "cpus" THEN [cpu \in machine.cpus |-> (cpu + 1) * r.val] ELSE r.val), p = Outcome(r.counter, "ok", val)
        PROVE  EnergyEffect(o, req, c, p.counter)
    <3>1. p.counter = r.counter /\ p.status = "ok" /\ p.val = val
      BY <2>2 DEF Outcome
    <3> QED
      BY <1>6, <1>10, <2>2, <3>1 DEF EnergyEffect
  <2>3. CASE p = Dies(c) \/ p = Outcome(c, "stuck", 0) \/ (c.kind # "none" /\ p \in GetJoulesFails(c, machine))
    <3>1. p.status # "ok" /\ p.counter = c
      BY <1>k, <1>7, <2>3 DEF GetJoulesFails, AllKinds, Outcome
    <3> QED
      BY <1>3, <1>6, <1>10, <3>1 DEF EnergyEffect
  <2>4. \/ p = Dies(c) \/ p = Outcome(c, "stuck", 0) \/ (c.kind # "none" /\ p \in GetJoulesFails(c, machine))
        \/ c.kind # "none" /\ \E r \in GetJoules(c, world, machine) :
             p = Outcome(r.counter, "ok", IF req.type = "cpus" THEN [cpu \in machine.cpus |-> (cpu + 1) * r.val] ELSE r.val)
    BY <2>1 DEF GetMessage, Faults
  <2> QED
    BY <1>3, <1>6, <2>2, <2>3, <2>4
<1>11. CASE req.cmd = "HAS"
  <2>1. p \in {Throws(c), Dies(c), Outcome(c, "ok", machine.has)}
    BY <1>5, <1>11 DEF HasMessage
  <2>2. p.counter = c
    BY <1>7, <2>1 DEF Outcome
  <2> QED
    BY <1>3, <1>6, <1>11, <2>2 DEF EnergyEffect
<1> QED
  BY <1>1, <1>8, <1>9, <1>10, <1>11

-----------------------------------------------------------------------------
(* What the operations of a counter do to what it holds.                   *)

\* The machine shows only one power as long as it has shown no more.
LEMMA OnePower ==
  ASSUME NEW w, NEW v, IsPower(w), IsPower(v), w.seen \subseteq v.seen, v.seen = {v.watts}
  PROVE  w.seen = {w.watts} /\ w.watts = v.watts
BY DEF IsPower

\* Time passes, and a counter holds what it held.
LEMMA MeterKept ==
  ASSUME NEW w, NEW v, IsPower(w), IsPower(v), w.now <= v.now, w.joules <= v.joules, w.seen \subseteq v.seen,
         NEW c, NEW base, MeterHolds(w, c, base)
  PROVE  MeterHolds(v, c, base)
<1>1. base.joules \in Nat /\ base.joules <= v.joules /\ base.at \in Nat /\ base.at <= v.now
  BY DEF MeterHolds, IsPower
<1>2. c.kind \in {"rapl", "dram", "smartgauge"} => c.last = base.joules
  BY DEF MeterHolds
<1>3. c.kind = "amester" /\ v.seen = {v.watts} => c.last = v.watts * (base.at - c.at)
  BY OnePower DEF MeterHolds
<1>4. ASSUME c.kind \in {"smartpower2", "file"}
      PROVE  /\ c.at \in Nat /\ base.at <= c.at /\ c.at <= v.now
             /\ c.cum \in Nat /\ c.cum <= Max(v.seen) * (c.at - base.at)
             /\ c.kind = "file" => Min(v.seen) * (c.at - base.at) <= c.cum
  <2>1. /\ c.at \in Nat /\ base.at <= c.at /\ c.at <= w.now
        /\ c.cum \in Nat /\ c.cum <= Max(w.seen) * (c.at - base.at)
        /\ c.kind = "file" => Min(w.seen) * (c.at - base.at) <= c.cum
    BY <1>4 DEF MeterHolds
  <2>2. /\ Min(w.seen) \in Nat /\ Max(w.seen) \in Nat /\ Min(v.seen) \in Nat /\ Max(v.seen) \in Nat
        /\ Min(v.seen) <= Min(w.seen) /\ Max(w.seen) <= Max(v.seen)
    BY MoreSeen DEF IsPower
  <2>3. PICK d \in Nat : d = c.at - base.at
    BY <1>1, <2>1
  <2>4. Max(w.seen) * d <= Max(v.seen) * d /\ Max(w.seen) * d \in Nat /\ Max(v.seen) * d \in Nat
    BY <2>2, Products
  <2>5. Min(v.seen) * d <= Min(w.seen) * d /\ Min(w.seen) * d \in Nat /\ Min(v.seen) * d \in Nat
    BY <2>2, Products
  <2>6. c.cum <= Max(v.seen) * d
    BY <2>1, <2>3, <2>4
  <2>7. c.kind = "file" => Min(v.seen) * d <= c.cum
    BY <2>1, <2>3, <2>5
  <2>8. c.at <= v.now
    BY <2>1 DEF IsPower
  <2> QED
    BY <2>1, <2>3, <2>6, <2>7, <2>8
<1>5. c.kind = "ina" => c.at = base.at
  BY DEF MeterHolds
<1> QED
  BY <1>1, <1>2, <1>3, <1>4, <1>5 DEF MeterHolds

\* reset(): a counter holds the energy of now.
LEMMA MeterReset ==
  ASSUME NEW w, IsPower(w), NEW c, IsCounter(c), NEW type \in CounterTypes, c.kind \in Kinds[type] \ {"none"},
         c.kind = "amester" => c.at \in Int, NEW base, base = [joules |-> w.joules, at |-> w.now], NEW d, d = ResetCounter(c, w)
  PROVE  MeterHolds(w, d, base) /\ (c.kind = "amester" => d.at \in Int)
<1>0. base.joules = w.joules /\ base.at = w.now /\ w.now \in Nat /\ w.joules \in Nat
  BY DEF IsPower
<1>1. CASE c.kind \in {"rapl", "dram"}
  <2>1. d.kind = c.kind /\ d.last = w.joules
    BY <1>1 DEF ResetCounter, ResetRapl, IsCounter
  <2> QED
    BY <1>0, <1>1, <2>1 DEF MeterHolds
<1>2. CASE c.kind = "smartgauge"
  <2>1. d.kind = c.kind /\ d.last = w.joules
    BY <1>2 DEF ResetCounter, ResetSmartGauge, IsCounter
  <2> QED
    BY <1>0, <1>2, <2>1 DEF MeterHolds
<1>3. CASE c.kind = "ina"
  <2>1. d.kind = c.kind /\ d.at = w.now
    BY <1>3 DEF ResetCounter, ResetIna, IsCounter
  <2> QED
    BY <1>0, <1>3, <2>1 DEF MeterHolds
<1>4. CASE c.kind \in {"smartpower2", "file"}
  <2>1. d.kind = c.kind /\ d.at = w.now /\ d.cum = 0
    BY <1>4 DEF ResetCounter, ResetSmartPower2, ResetFile, IsCounter
  <2>2. Min(w.seen) \in Nat /\ Max(w.seen) \in Nat
    BY MoreSeen DEF IsPower
  <2>3. Min(w.seen) * (w.now - w.now) = 0 /\ Max(w.seen) * (w.now - w.now) = 0
    BY <1>0, <2>2
  <2> QED
    BY <1>0, <1>4, <2>1, <2>3 DEF MeterHolds
<1>5. CASE c.kind = "amester"
  <2>1. d.kind = c.kind /\ d.at = c.at /\ d.last = w.sample.joules + w.sample.watts * (w.now - (w.sample.at + c.at)) /\ c.at \in Int
    BY <1>5 DEF ResetCounter, ResetAmester, GetAdjustedValue, IsCounter
  <2>2. ASSUME w.seen = {w.watts} PROVE d.last = w.watts * (w.now - c.at)
    <3>1. PICK p \in Nat : p = w.watts
      BY DEF IsPower
    <3>2. PICK s \in Nat : s = w.sample.at
      BY DEF IsPower
    <3>3. w.sample.joules = p * s /\ w.sample.watts = p
      BY <2>2, <3>1, <3>2 DEF IsPower
    <3>4. PICK e \in Int : e = w.now - (s + c.at)
      BY <1>0, <2>1
    <3>5. w.now - c.at = s + e
      BY <1>0, <2>1, <3>4
    <3>6. p * (s + e) = p * s + p * e
      BY ProductOfSum
    <3> QED
      BY <2>1, <3>1, <3>2, <3>3, <3>4, <3>5, <3>6
  <2> QED
    BY <1>0, <1>5, <2>1, <2>2 DEF MeterHolds
<1> QED
  BY <1>1, <1>2, <1>3, <1>4, <1>5 DEF Kinds, CounterTypes

\* init(): that of the processors holds the energy of now, that of the memory
\* what it held.
LEMMA MeterInit ==
  ASSUME NEW w, IsPower(w), NEW c, IsCounter(c), NEW type \in CounterTypes, c.kind \in Kinds[type] \ {"none"},
         NEW d, d = InitCounter(c, w)
  PROVE  /\ c.kind = "dram" => d = c
         /\ c.kind = "rapl" => MeterHolds(w, d, [joules |-> w.joules, at |-> w.now])
         /\ c.kind = "amester" => d.at \in Int
<1>1. CASE c.kind = "dram"
  BY <1>1 DEF InitCounter, InitMemory
<1>2. CASE c.kind = "rapl"
  <2>1. d = ResetRapl(c, w) /\ ResetCounter(c, w) = ResetRapl(c, w)
    BY <1>2 DEF InitCounter, ResetCounter
  <2> QED
    BY <1>2, <2>1, MeterReset
<1>3. CASE c.kind = "amester"
  <2>1. d.at = w.now - w.sample.at
    BY <1>3 DEF InitCounter, InitAmester, IsCounter
  <2> QED
    BY <1>3, <2>1 DEF IsPower
<1> QED
  BY <1>1, <1>2, <1>3

\* The bounds of a reading.
Between(low, val, high) == low \in Int /\ val \in Int /\ high \in Int /\ low <= val /\ val <= high

\* The counters that return the energy, rather than a power for some time.
Exact(kind) == kind \in {"rapl", "smartgauge"} \/ (kind = "dram" /\ machine.dram)

\* What is due of a counter that was reset at base.
MeterDue(w, kind, base) ==
  LET elapsed == w.now - base.at
  IN  CASE kind = "dram" /\ ~machine.dram -> <<0, 0>>
        [] Exact(kind) -> <<w.joules - base.joules, w.joules - base.joules>>
        [] kind = "amester" /\ Cardinality(w.seen) > 1 -> <<>>
        [] kind = "smartpower2" -> <<0, Max(w.seen) * elapsed>>
        [] OTHER -> <<Min(w.seen) * elapsed, Max(w.seen) * elapsed>>

\* A power that the machine shows, for some time.
LEMMA PowerForTime ==
  ASSUME NEW w, IsPower(w), NEW watts \in w.seen, NEW t \in Nat
  PROVE  /\ watts * t \in Nat /\ Min(w.seen) * t \in Nat /\ Max(w.seen) * t \in Nat
         /\ Min(w.seen) * t <= watts * t /\ watts * t <= Max(w.seen) * t
<1>1. Min(w.seen) \in Nat /\ Max(w.seen) \in Nat /\ Min(w.seen) <= watts /\ watts <= Max(w.seen) /\ watts \in Nat
  BY MoreSeen DEF IsPower
<1> QED
  BY <1>1, Products

\* getJoules() of a counter that cumulates, whatever line it reads.
LEMMA Cumulated ==
  ASSUME NEW w, IsPower(w), NEW c, IsCounter(c), c.kind \in {"smartpower2", "file"}, NEW base, MeterHolds(w, c, base),
         NEW watts \in w.seen \cup {0}, c.kind = "file" => watts \in w.seen,
         NEW cum, cum = c.cum + watts * (w.now - c.at), NEW d, d = [c EXCEPT !.cum = cum, !.at = w.now]
  PROVE  /\ MeterHolds(w, d, base) /\ Between(0, cum, Max(w.seen) * (w.now - base.at))
         /\ c.kind = "file" => Between(Min(w.seen) * (w.now - base.at), cum, Max(w.seen) * (w.now - base.at))
<1>0. /\ base.joules \in Nat /\ base.joules <= w.joules /\ base.at \in Nat /\ base.at <= w.now
      /\ c.at \in Nat /\ base.at <= c.at /\ c.at <= w.now
      /\ c.cum \in Nat /\ c.cum <= Max(w.seen) * (c.at - base.at)
      /\ c.kind = "file" => Min(w.seen) * (c.at - base.at) <= c.cum
  BY DEF MeterHolds
<1>1. PICK t \in Nat : t = w.now - c.at
  BY <1>0 DEF IsPower
<1>2. PICK s \in Nat : s = c.at - base.at
  BY <1>0
<1>3. w.now - base.at = s + t /\ w.now \in Nat
  BY <1>0, <1>1, <1>2 DEF IsPower
<1>4. PICK low \in Nat : low = Min(w.seen)
  BY MoreSeen DEF IsPower
<1>5. PICK high \in Nat : high = Max(w.seen)
  BY MoreSeen DEF IsPower
<1>6. watts \in Nat /\ watts * t \in Nat /\ watts * t <= high * t /\ high * t \in Nat /\ (watts \in w.seen => low * t <= watts * t)
  <2>1. CASE watts \in w.seen
    BY <1>4, <1>5, <2>1, PowerForTime DEF IsPower
  <2>2. CASE watts = 0 /\ watts \notin w.seen
    <3>1. watts * t = 0 /\ high * t \in Nat
      BY <2>2
    <3> QED
      BY <2>2, <3>1
  <2> QED
    BY <2>1, <2>2
<1>7. high * (s + t) = high * s + high * t /\ low * (s + t) = low * s + low * t /\ high * s \in Int /\ low * s \in Int /\ low * t \in Int
  BY ProductOfSum
<1>8. cum = c.cum + watts * t /\ c.cum \in Nat /\ c.cum <= high * s /\ (c.kind = "file" => low * s <= c.cum)
  BY <1>0, <1>1, <1>2, <1>4, <1>5
<1>9. cum \in Nat /\ cum <= high * (s + t)
  BY <1>6, <1>7, <1>8
<1>10. c.kind = "file" => low * (s + t) <= cum
  BY <1>6, <1>7, <1>8
<1>11. d.kind = c.kind /\ d.at = w.now /\ d.cum = cum
  BY DEF IsCounter
<1>12. MeterHolds(w, d, base)
  BY <1>0, <1>3, <1>4, <1>5, <1>9, <1>10, <1>11 DEF MeterHolds
<1> QED
  BY <1>3, <1>4, <1>5, <1>9, <1>10, <1>12 DEF Between

\* getJoules(): what is read is due, and what the counter held since base is
\* still there, except of INA231, which returns the energy since it was read.
LEMMA MeterRead ==
  ASSUME NEW w, IsPower(w), NEW c, IsCounter(c), NEW type \in CounterTypes, c.kind \in Kinds[type] \ {"none"},
         c.kind = "amester" => c.at \in Int, NEW base, MeterHolds(w, c, base), NEW r \in GetJoules(c, w, machine),
         NEW due, due = MeterDue(w, c.kind, base)
  PROVE  (c.kind # "ina" => MeterHolds(w, r.counter, base)) /\ (due # <<>> => Between(due[1], r.val, due[2]))
<1>0. base.joules \in Nat /\ base.at \in Nat /\ base.at <= w.now /\ w.now \in Nat /\ w.joules \in Nat /\ w.watts \in w.seen /\ w.watts \in Nat
  BY DEF MeterHolds, IsPower
<1>0a. CASE c.kind = "dram" /\ ~machine.dram
  <2>1. r = Reading(c, 0)
    BY <1>0a DEF GetJoules, GetJoulesDram
  <2>2. r.counter = c /\ r.val = 0
    BY <2>1 DEF Reading
  <2>3. due = <<0, 0>>
    BY <1>0a DEF MeterDue, Exact
  <2> QED
    BY <2>2, <2>3 DEF Between
<1>1. CASE Exact(c.kind)
  <2>1. r.counter = c /\ r.val = w.joules - c.last
    <3>1. r = Reading(c, w.joules - c.last)
      BY <1>1 DEF Exact, GetJoules, GetJoulesRapl, GetJoulesSmartGauge, GetJoulesDram
    <3> QED
      BY <3>1 DEF Reading
  <2>2. c.last = base.joules
    BY <1>1 DEF Exact, MeterHolds
  <2>3. due = <<w.joules - base.joules, w.joules - base.joules>>
    BY <1>1 DEF Exact, MeterDue
  <2> QED
    BY <1>0, <2>1, <2>2, <2>3 DEF Between
<1>2. CASE c.kind = "ina"
  <2>1. r.val = w.watts * (w.now - c.at) /\ c.at = base.at
    <3>1. GetJoules(c, w, machine) = {GetJoulesIna(c, w, watts) : watts \in GetWattsIna(c, w)}
      BY <1>2 DEF GetJoules
    <3>2. r = GetJoulesIna(c, w, w.watts)
      BY <3>1 DEF GetWattsIna
    <3> QED
      BY <1>2, <3>2 DEF GetJoulesIna, Reading, MeterHolds
  <2>2. due = <<Min(w.seen) * (w.now - base.at), Max(w.seen) * (w.now - base.at)>>
    BY <1>2 DEF MeterDue, Exact
  <2>3. w.now - base.at \in Nat
    BY <1>0
  <2>4. /\ w.watts * (w.now - base.at) \in Nat /\ Min(w.seen) * (w.now - base.at) \in Nat /\ Max(w.seen) * (w.now - base.at) \in Nat
        /\ Min(w.seen) * (w.now - base.at) <= w.watts * (w.now - base.at) /\ w.watts * (w.now - base.at) <= Max(w.seen) * (w.now - base.at)
    BY <1>0, <2>3, PowerForTime
  <2> QED
    BY <1>2, <2>1, <2>2, <2>4 DEF Between
<1>3. CASE c.kind \in {"smartpower2", "file"}
  <2>1. PICK watts, cum : /\ watts \in w.seen \cup {0} /\ (c.kind = "file" => watts \in w.seen)
                          /\ cum = c.cum + watts * (w.now - c.at) /\ r = Reading([c EXCEPT !.cum = cum, !.at = w.now], cum)
    <3>1. CASE c.kind = "file"
      <4>1. GetJoules(c, w, machine) = {GetJoulesFile(c, w, watts) : watts \in GetWattsFile(c, w)}
        BY <3>1 DEF GetJoules
      <4>2. r = GetJoulesFile(c, w, w.watts)
        BY <4>1 DEF GetWattsFile
      <4> QED
        BY <1>0, <4>2 DEF GetJoulesFile
    <3>2. CASE c.kind = "smartpower2"
      <4>1. GetJoules(c, w, machine) = {GetJoulesSmartPower2(c, w, watts) : watts \in GetWattsSmartPower2(c, w)}
        BY <3>2 DEF GetJoules
      <4>2. PICK watts \in w.seen \cup {0} : r = GetJoulesSmartPower2(c, w, watts)
        BY <4>1 DEF GetWattsSmartPower2
      <4> QED
        BY <3>2, <4>2 DEF GetJoulesSmartPower2
    <3> QED
      BY <1>3, <3>1, <3>2
  <2>2. PICK d : d = [c EXCEPT !.cum = cum, !.at = w.now] /\ r.counter = d /\ r.val = cum
    BY <2>1 DEF Reading
  <2>3. /\ MeterHolds(w, d, base) /\ Between(0, cum, Max(w.seen) * (w.now - base.at))
        /\ c.kind = "file" => Between(Min(w.seen) * (w.now - base.at), cum, Max(w.seen) * (w.now - base.at))
    <3>1. watts \in w.seen \cup {0} /\ (c.kind = "file" => watts \in w.seen)
      BY <2>1
    <3>2. cum = c.cum + watts * (w.now - c.at)
      BY <2>1
    <3>3. d = [c EXCEPT !.cum = cum, !.at = w.now]
      BY <2>2
    <3> QED
      BY <1>3, <3>1, <3>2, <3>3, Cumulated, Zenon
  <2>4. /\ c.kind = "smartpower2" => due = <<0, Max(w.seen) * (w.now - base.at)>>
        /\ c.kind = "file" => due = <<Min(w.seen) * (w.now - base.at), Max(w.seen) * (w.now - base.at)>>
    BY DEF MeterDue, Exact
  <2> QED
    BY <1>3, <2>2, <2>3, <2>4
<1>4. CASE c.kind = "amester"
  <2>1. r.counter = c /\ r.val = (w.sample.joules + w.sample.watts * (w.now - (w.sample.at + c.at))) - c.last
    <3>1. GetJoules(c, w, machine) = {GetJoulesAmester(c, w)}
      BY <1>4 DEF GetJoules
    <3>2. r = GetJoulesAmester(c, w)
      BY <3>1
    <3>3. PICK x : x = GetAdjustedValue(c, w) - c.last
      OBVIOUS
    <3>4. r = Reading(c, x)
      BY <3>2, <3>3 DEF GetJoulesAmester
    <3>5. r.counter = c /\ r.val = x
      BY <3>4 DEF Reading
    <3> QED
      BY <3>3, <3>5 DEF GetAdjustedValue
  <2>2. ASSUME Cardinality(w.seen) <= 1 PROVE Between(Min(w.seen) * (w.now - base.at), r.val, Max(w.seen) * (w.now - base.at))
    <3>1. w.seen = {w.watts}
      <4>1. Cardinality(w.seen \ {w.watts}) = Cardinality(w.seen) - 1 /\ Cardinality(w.seen) \in Nat /\ IsFiniteSet(w.seen \ {w.watts})
        BY <1>0, FS_RemoveElement, FS_CardinalityType DEF IsPower
      <4>2. Cardinality(w.seen \ {w.watts}) = 0
        BY <2>2, <4>1, FS_CardinalityType
      <4>3. w.seen \ {w.watts} = {}
        BY <4>1, <4>2, FS_EmptySet
      <4> QED
        BY <1>0, <4>3
    <3>2. PICK p \in Nat : p = w.watts
      BY <1>0
    <3>3. PICK s \in Nat : s = w.sample.at
      BY DEF IsPower
    <3>4. w.sample.joules = p * s /\ w.sample.watts = p /\ c.last = p * (base.at - c.at) /\ c.at \in Int
      BY <1>4, <3>1, <3>2, <3>3 DEF IsPower, MeterHolds
    <3>5. PICK e \in Int : e = w.now - (s + c.at)
      BY <1>0, <3>4
    <3>6. PICK f \in Int : f = base.at - c.at
      BY <1>0, <3>4
    <3>7. w.now - base.at = (s + e) - f
      BY <1>0, <3>4, <3>5, <3>6
    <3>8. p * ((s + e) - f) = (p * s + p * e) - p * f /\ p * s \in Int /\ p * e \in Int /\ p * f \in Int
      <4>1. p * (s + e) = p * s + p * e /\ p * s \in Int /\ p * e \in Int
        BY ProductOfSum
      <4>2. s + e \in Int
        OBVIOUS
      <4>3. p * ((s + e) - f) = p * (s + e) - p * f /\ p * f \in Int
        BY <4>2, ProductOfSum
      <4> QED
        BY <4>1, <4>3
    <3>9. r.val = p * (w.now - base.at) /\ r.val \in Int
      BY <2>1, <3>3, <3>4, <3>5, <3>6, <3>7, <3>8
    <3>10. w.now - base.at \in Nat
      BY <1>0
    <3> DEFINE low  == Min(w.seen) * (w.now - base.at)
               mid  == p * (w.now - base.at)
               high == Max(w.seen) * (w.now - base.at)
    <3>11. low \in Nat /\ high \in Nat /\ low <= mid /\ mid <= high
      BY <1>0, <3>2, <3>10, PowerForTime
    <3>12. r.val = mid /\ r.val \in Int
      BY <3>9
    <3> HIDE DEF low, mid, high
    <3>13. Between(low, r.val, high)
      BY <3>11, <3>12 DEF Between
    <3> QED
      BY <3>13 DEF low, high
  <2>3. IF Cardinality(w.seen) > 1 THEN due = <<>> ELSE due = <<Min(w.seen) * (w.now - base.at), Max(w.seen) * (w.now - base.at)>>
    BY <1>4 DEF MeterDue, Exact
  <2>4. Cardinality(w.seen) \in Nat
    BY FS_CardinalityType DEF IsPower
  <2> QED
    BY <2>1, <2>2, <2>3, <2>4
<1> QED
  BY <1>0a, <1>1, <1>2, <1>3, <1>4 DEF Exact, Kinds, CounterTypes

-----------------------------------------------------------------------------
(* The counters at each step.                                              *)

\* What becomes of what was reset when the module Energy has answered.
LEMMA OwnedCounter ==
  ASSUME NEW req, req.module = "energy", NEW o, own' = Owned(req, o), NEW key, key = <<"counter", req.type>>
  PROVE  LET holds == o.status = "ok" /\ Restarts(req, o)
         IN  /\ Touches(req) /\ holds => Rebased(key, [joules |-> world.joules, at |-> world.now])
             /\ Touches(req) /\ ~holds => Rebased(key, 0) /\ \A k \in Objects : key \notin DOMAIN own'[k]
             /\ ~Touches(req) => own' = own
<1> DEFINE holds == o.status = "ok" /\ Restarts(req, o)
<1>k. Key(req) = key
  BY DEF Key
<1>1. CASE Touches(req) /\ holds
  <2>1. PICK value : value = [joules |-> world.joules, at |-> world.now]
    OBVIOUS
  <2>2. req.cmd \in {"RESET", "INIT"}
    BY <1>1 DEF Restarts
  <2>3. own' = Hold(key, value)
    BY <1>1, <1>k, <2>1, <2>2 DEF Owned
  <2>4. Rebased(key, value)
    BY <2>3, RebasedFacts
  <2> QED
    BY <1>1, <2>1, <2>4
<1>2. CASE Touches(req) /\ ~holds
  <2>1. own' = Lose(key)
    BY <1>2, <1>k DEF Owned
  <2>2. \A k \in Objects : key \notin DOMAIN own'[k]
    BY <2>1 DEF Lose, Without
  <2>3. Rebased(key, 0)
    BY <2>1, RebasedFacts
  <2> QED
    BY <1>2, <2>2, <2>3
<1>3. CASE ~Touches(req)
  <2>1. own' = own
    BY <1>3 DEF Owned
  <2> QED
    BY <1>3, <2>1
<1> QED
  BY <1>1, <1>2, <1>3

\* An object may lose what it has reset of a counter, and no more.
NoNewReset ==
  /\ own' \in [Objects -> {own'[k] : k \in Objects}]
  /\ \A k \in Objects, type \in CounterTypes : <<"counter", type>> \in DOMAIN own'[k] =>
       <<"counter", type>> \in DOMAIN own[k] /\ own'[k][<<"counter", type>>] = own[k][<<"counter", type>>]

\* What was not reset under a key of the counters.
LEMMA OwnElsewhere ==
  ASSUME MachineInv, NEW op, NEW req \in ReqsOf(op), req.module # "energy", NEW o, own' = Owned(req, o)
  PROVE  own' = own \/ NoNewReset
<1>1. CASE o.status = "ok" /\ req.module = "topology" /\ req.cmd \in ResetCmds
  <2>1. Rebased(Key(req), HeldValue(req))
    BY <1>1, OwnedFacts
  <2>2. \A type : Key(req) # <<"counter", type>>
    <3>1. Key(req) = <<"idle", req.v>> \/ Key(req) = <<"time", req.v, req.l>> \/ Key(req) = <<"count", req.v, req.l>>
      BY <1>1 DEF Key
    <3> QED
      BY <3>1, KeyFacts
  <2> QED
    BY <2>1, <2>2 DEF NoNewReset, Rebased
<1>2. CASE ~(o.status = "ok" /\ req.module = "topology" /\ req.cmd \in ResetCmds)
  BY <1>2, OwnedFacts
<1> QED
  BY <1>1, <1>2

\* A step that keeps the counters, and what was reset of them.
LEMMA MetersKept ==
  ASSUME MetersInv, servant'.energy = servant.energy, IsPower(world'),
         world.now <= world'.now, world.joules <= world'.joules, world.seen \subseteq world'.seen,
         own' = own \/ NoNewReset
  PROVE  MetersInv'
<1>1. own' \in [Objects -> {own'[k] : k \in Objects}]
  BY DEF MetersInv, NoNewReset
<1>2. ASSUME NEW k \in Objects, NEW type \in CounterTypes, <<"counter", type>> \in DOMAIN own'[k]
      PROVE  <<"counter", type>> \in DOMAIN own[k] /\ own'[k][<<"counter", type>>] = own[k][<<"counter", type>>]
  BY <1>2 DEF NoNewReset
<1>3. ASSUME NEW k \in Objects, NEW type \in CounterTypes, <<"counter", type>> \in DOMAIN own'[k]
      PROVE  MeterHolds(world', servant'.energy[type], own'[k][<<"counter", type>>])
  <2>1. PICK c : c = servant.energy[type] /\ c = servant'.energy[type]
    OBVIOUS
  <2>2. PICK base : base = own[k][<<"counter", type>>] /\ base = own'[k][<<"counter", type>>]
    BY <1>2, <1>3
  <2>3. PICK w : w = world
    OBVIOUS
  <2>4. PICK v : v = world'
    OBVIOUS
  <2>5. MeterHolds(w, c, base) /\ IsPower(w)
    BY <1>2, <1>3, <2>1, <2>2, <2>3 DEF MetersInv
  <2>6. MeterHolds(v, c, base)
    BY <2>3, <2>4, <2>5, MeterKept
  <2> QED
    BY <2>1, <2>2, <2>4, <2>6
<1>4. \A type \in CounterTypes : servant'.energy[type].kind = "amester" => servant'.energy[type].at \in Int
  BY DEF MetersInv
<1> QED
  BY <1>1, <1>3, <1>4 DEF MetersInv

\* The files that are the same show the same power.
LEMMA SamePower ==
  ASSUME NEW w, SameFiles(w), IsPower(world)
  PROVE  IsPower(w)
BY DEF SameFiles, IsPower

\* Energy::processMessage() for a counter.
LEMMA MetersAnswer ==
  ASSUME ProxyInv, WorldInv, MetersInv, NEW o, NEW req, ServeStep(o, req), SameFiles(o.world), req.module = "energy", "energy" \in machine.mask
  PROVE  MetersInv'
<1>0. /\ MachineInv /\ ServantInv /\ CallInv /\ req \in ReqsOf(call.op) /\ o \in Answers(req) /\ servant'.energy = o.servant.energy
      /\ own' = Owned(req, o) /\ req \in EnergyReqs(call.op) /\ world' = o.world
  BY ServeFacts, ReqFacts DEF ServeStep
<1>1. req.cmd \in {"INIT", "HAS", "RESET", "GET"} /\ req.type \in CounterTypes
  BY <1>0, EnergyReqFacts
<1>2. PICK c : c = servant.energy[req.type]
  OBVIOUS
<1>3. PICK d : d = servant'.energy[req.type]
  OBVIOUS
<1>4. PICK w : w = world
  OBVIOUS
<1>5. IsCounter(c) /\ c.kind \in Kinds[req.type]
  BY <1>0, <1>1, <1>2 DEF ServantInv
<1>6. IsPower(w) /\ (c.kind = "amester" => c.at \in Int) /\ own \in [Objects -> {own[k] : k \in Objects}]
  BY <1>1, <1>2, <1>4 DEF MetersInv
<1>7. /\ \A type \in CounterTypes \ {req.type} : servant'.energy[type] = servant.energy[type]
      /\ EnergyEffect(o, req, c, d)
  BY <1>0, <1>2, <1>3, AnswerOfCounter
<1>8. IsPower(world') /\ world'.now = w.now /\ world'.joules = w.joules /\ world'.seen = w.seen /\ world'.watts = w.watts
  BY <1>0, <1>4, <1>6, SamePower DEF SameFiles
<1>9. PICK key : key = <<"counter", req.type>> /\ \A type : type # req.type => <<"counter", type>> # key
  <2>1. \A type : <<"counter", type>>[2] = type
    OBVIOUS
  <2> QED
    BY <2>1
<1>10. own' = own \/ \E value : Rebased(key, value)
  BY <1>0, <1>9, OwnedFacts
<1>11. own' \in [Objects -> {own'[k] : k \in Objects}]
  BY <1>6, <1>10 DEF Rebased
<1>12. \A x, base : MeterHolds(w, x, base) => MeterHolds(world', x, base)
  <2>1. PICK v : v = world'
    OBVIOUS
  <2>2. w.now <= v.now /\ w.joules <= v.joules /\ w.seen \subseteq v.seen /\ IsPower(v)
    BY <1>6, <1>8, <2>1 DEF IsPower
  <2>3. \A x, base : MeterHolds(w, x, base) => MeterHolds(v, x, base)
    BY <1>6, <2>2, MeterKept
  <2> QED
    BY <2>1, <2>3
\* Each of the counters that was not addressed.
<1>13. ASSUME NEW k \in Objects, NEW type \in CounterTypes \ {req.type}, <<"counter", type>> \in DOMAIN own'[k]
       PROVE  MeterHolds(w, servant'.energy[type], own'[k][<<"counter", type>>])
  <2>1. <<"counter", type>> \in DOMAIN own[k] /\ own'[k][<<"counter", type>>] = own[k][<<"counter", type>>]
    BY <1>9, <1>10, <1>13 DEF Rebased
  <2> QED
    BY <1>4, <1>7, <2>1 DEF MetersInv
\* The one that was.
<1>14. /\ c.kind = "amester" => d.at \in Int
       /\ \A k \in Objects : key \in DOMAIN own'[k] => MeterHolds(w, d, own'[k][key])
  <2>0. \A k \in Objects : key \in DOMAIN own[k] => MeterHolds(w, c, own[k][key])
    BY <1>1, <1>2, <1>4, <1>9 DEF MetersInv
  <2>1. PICK base : base = [joules |-> w.joules, at |-> w.now]
    OBVIOUS
  <2>2. /\ Touches(req) => req.cmd = "RESET" \/ (req.cmd = "INIT" /\ c.kind # "dram") \/ (req.cmd = "GET" /\ c.kind = "ina")
        /\ ~Touches(req) => req.cmd # "RESET" /\ (req.cmd = "INIT" => c.kind = "dram") /\ (req.cmd = "GET" => c.kind # "ina")
    BY <1>2 DEF Touches
  <2>3. /\ Touches(req) /\ o.status = "ok" /\ Restarts(req, o) => Rebased(key, base)
        /\ Touches(req) /\ ~(o.status = "ok" /\ Restarts(req, o)) => \A k \in Objects : key \notin DOMAIN own'[k]
        /\ ~Touches(req) => own' = own
    BY <1>0, <1>4, <1>9, <2>1, OwnedCounter
  <2>4. CASE req.cmd = "HAS"
    <3>1. d = c /\ own' = own
      BY <1>7, <2>2, <2>3, <2>4 DEF EnergyEffect
    <3> QED
      BY <1>6, <2>0, <3>1
  <2>5. CASE req.cmd = "RESET"
    <3>1. CASE o.status = "ok"
      <4>1. d = ResetCounter(c, w) /\ c.kind # "none"
        BY <1>4, <1>7, <2>5, <3>1 DEF EnergyEffect
      <4>2. MeterHolds(w, d, base) /\ (c.kind = "amester" => d.at \in Int)
        BY <1>1, <1>5, <1>6, <2>1, <4>1, MeterReset
      <4>3. Rebased(key, base)
        BY <2>2, <2>3, <2>5, <3>1 DEF Restarts
      <4> QED
        BY <4>2, <4>3 DEF Rebased
    <3>2. CASE o.status # "ok"
      <4>1. \A k \in Objects : key \notin DOMAIN own'[k]
        BY <2>2, <2>3, <2>5, <3>2
      <4> QED
        BY <1>6, <1>7, <2>5, <3>2, <4>1 DEF EnergyEffect
    <3> QED
      BY <3>1, <3>2
  <2>6. CASE req.cmd = "INIT"
    <3>1. CASE o.status = "ok" /\ o.val = TRUE /\ c.kind # "none" /\ d = InitCounter(c, w)
      <4>1. /\ c.kind = "dram" => d = c
            /\ c.kind = "rapl" => MeterHolds(w, d, base)
            /\ c.kind = "amester" => d.at \in Int
        BY <1>1, <1>5, <1>6, <2>1, <3>1, MeterInit
      <4>2. CASE c.kind = "dram"
        BY <2>0, <2>2, <2>3, <2>6, <4>1, <4>2
      <4>3. CASE c.kind = "rapl"
        <5>1. Rebased(key, base)
          BY <1>2, <2>2, <2>3, <2>6, <3>1, <4>3 DEF Restarts
        <5> QED
          BY <4>1, <4>3, <5>1 DEF Rebased
      <4>4. CASE c.kind \notin {"rapl", "dram"}
        <5>1. ~Restarts(req, o)
          BY <1>2, <2>6, <4>4 DEF Restarts
        <5> QED
          BY <2>2, <2>3, <2>6, <4>1, <4>4, <5>1
      <4> QED
        BY <4>2, <4>3, <4>4
    <3>2. CASE (o.status # "ok" \/ o.val = FALSE) /\ c.kind # "dram" /\ (c.kind = "amester" => d.at = c.at)
      <4>1. ~(o.status = "ok" /\ Restarts(req, o))
        BY <2>6, <3>2 DEF Restarts
      <4> QED
        BY <1>6, <2>2, <2>3, <2>6, <3>2, <4>1
    <3> QED
      BY <1>4, <1>7, <2>6, <3>1, <3>2 DEF EnergyEffect
  <2>7. CASE req.cmd = "GET"
    <3>1. CASE o.status # "ok"
      <4>1. d = c /\ ~(o.status = "ok" /\ Restarts(req, o))
        BY <1>7, <2>7, <3>1 DEF EnergyEffect
      <4> QED
        BY <1>6, <2>0, <2>3, <4>1
    <3>2. CASE o.status = "ok"
      <4>1. PICK r \in GetJoules(c, w, machine) : d = r.counter /\ c.kind # "none"
        BY <1>4, <1>7, <2>7, <3>2 DEF EnergyEffect
      <4>2. \A b : MeterHolds(w, c, b) /\ c.kind # "ina" => MeterHolds(w, d, b)
        BY <1>1, <1>5, <1>6, <4>1, MeterRead
      <4>3. /\ c.kind = "ina" => \A k \in Objects : key \notin DOMAIN own'[k]
            /\ c.kind # "ina" => own' = own
        BY <2>2, <2>3, <2>7 DEF Restarts
      <4>4. ASSUME c.kind = "amester" PROVE d = c
        <5>1. GetJoules(c, w, machine) = {GetJoulesAmester(c, w)}
          BY <4>4 DEF GetJoules
        <5>2. d = GetJoulesAmester(c, w).counter
          BY <4>1, <5>1
        <5> QED
          BY <5>2 DEF GetJoulesAmester, Reading
      <4> QED
        BY <1>6, <2>0, <4>2, <4>3, <4>4
    <3> QED
      BY <3>1, <3>2
  <2> QED
    BY <1>1, <2>4, <2>5, <2>6, <2>7
<1>15. \A type \in CounterTypes : servant'.energy[type].kind = "amester" => servant'.energy[type].at \in Int
  <2>1. d.kind = c.kind
    BY <1>0, <1>1, <1>2, <1>3, ServeFacts, SameServantFacts
  <2> QED
    BY <1>3, <1>7, <1>14, <2>1 DEF MetersInv
<1>16. \A k \in Objects, type \in CounterTypes :
         <<"counter", type>> \in DOMAIN own'[k] => MeterHolds(world', servant'.energy[type], own'[k][<<"counter", type>>])
  BY <1>3, <1>9, <1>12, <1>13, <1>14
<1> QED
  BY <1>8, <1>11, <1>15, <1>16 DEF MetersInv

\* A request that is answered.
LEMMA ServeMeters ==
  ASSUME ProxyInv, WorldInv, TopologyInv, MetersInv, NEW o, NEW req, ServeStep(o, req)
  PROVE  MetersInv'
<1>0. /\ MachineInv /\ ServantInv /\ CallInv /\ req \in ReqsOf(call.op) /\ o \in Answers(req) /\ servant'.energy = o.servant.energy
      /\ own' = Owned(req, o) /\ world' = o.world
  BY ServeFacts DEF ServeStep
<1>1. SameFiles(o.world)
  BY <1>0, AnswerWorld
<1>2. CASE req.module = "energy" /\ "energy" \in machine.mask
  BY <1>1, <1>2, MetersAnswer
<1>3. CASE ~(req.module = "energy" /\ "energy" \in machine.mask)
  <2>1. servant'.energy = servant.energy
    BY <1>0, <1>3, AnswerElsewhere
  <2>2. own' = own \/ NoNewReset
    <3>1. CASE req.module = "energy"
      <4>1. o.status # "ok"
        BY <1>3, <3>1, ServeFacts DEF Active
      <4>2. PICK key : key = <<"counter", req.type>>
        OBVIOUS
      <4>3. own' = own \/ (Rebased(key, 0) /\ \A k \in Objects : key \notin DOMAIN own'[k])
        BY <1>0, <3>1, <4>1, <4>2, OwnedCounter
      <4> QED
        BY <4>3 DEF NoNewReset, Rebased
    <3>2. CASE req.module # "energy"
      BY <1>0, <3>2, OwnElsewhere
    <3> QED
      BY <3>1, <3>2
  <2>3. IsPower(world') /\ world'.now = world.now /\ world'.joules = world.joules /\ world'.seen = world.seen /\ IsPower(world)
    BY <1>0, <1>1, SamePower DEF SameFiles, MetersInv
  <2>4. world.now <= world'.now /\ world.joules <= world'.joules /\ world.seen \subseteq world'.seen
    BY <2>3 DEF IsPower
  <2> QED
    BY <2>1, <2>2, <2>3, <2>4, MetersKept
<1> QED
  BY <1>2, <1>3

\* Time passes: the machine consumes its power.
LEMMA TickMeters ==
  ASSUME MachineInv, WorldInv, MetersInv, NEW watts \in machine.watts, NEW cores, NEW l, Tick(watts, cores, l)
  PROVE  MetersInv'
<1>0. IsWorld(world) /\ IsPower(world) /\ watts \in Nat /\ servant' = servant /\ own' = own
  BY MachineFacts DEF WorldInv, MetersInv, Tick, IsMachine
<1>1. \E idle, time, count :
        world' = [world EXCEPT !.now = @ + 1, !.joules = @ + world.watts, !.watts = watts, !.seen = @ \cup {watts},
                               !.idle = idle, !.time = time, !.count = count]
  BY DEF Tick
<1>2. /\ world'.now = world.now + 1 /\ world'.joules = world.joules + world.watts /\ world'.watts = watts
      /\ world'.seen = world.seen \cup {watts} /\ world'.sample = world.sample
  BY <1>0, <1>1 DEF IsWorld
<1>3. PICK p \in Nat : p = world.watts
  BY <1>0 DEF IsPower
<1>4. PICK now \in Nat : now = world.now
  BY <1>0 DEF IsPower
<1>5. world'.now \in Nat /\ world'.joules \in Nat /\ world'.watts \in world'.seen /\ world'.seen \subseteq Nat /\ IsFiniteSet(world'.seen)
  BY <1>0, <1>2, FS_AddElement DEF IsPower
<1>6. ASSUME world'.seen = {world'.watts}
      PROVE  /\ world'.joules = world'.watts * world'.now
             /\ world'.sample.joules = world'.watts * world'.sample.at /\ world'.sample.watts = world'.watts
  <2>1. world.seen = {p} /\ watts = p
    BY <1>0, <1>2, <1>3, <1>6 DEF IsPower
  <2>2. world.joules = p * now /\ world.sample.joules = p * world.sample.at /\ world.sample.watts = p
    BY <1>0, <1>3, <1>4, <2>1 DEF IsPower
  <2>3. p * (now + 1) = p * now + p
    OBVIOUS
  <2> QED
    BY <1>2, <1>3, <1>4, <2>1, <2>2, <2>3
<1>7. IsPower(world')
  BY <1>0, <1>2, <1>5, <1>6 DEF IsPower
<1>8. world.now <= world'.now /\ world.joules <= world'.joules /\ world.seen \subseteq world'.seen
  BY <1>0, <1>2 DEF IsPower
<1> QED
  BY <1>0, <1>7, <1>8, MetersKept

\* Amester takes a sample: of all of the energy.
LEMMA SampleMeters ==
  ASSUME WorldInv, MetersInv, Sample
  PROVE  MetersInv'
<1>0. IsWorld(world) /\ IsPower(world) /\ servant' = servant /\ own' = own
  BY DEF WorldInv, MetersInv, Sample
<1>1. world' = [world EXCEPT !.sample = [joules |-> world.joules, at |-> world.now, watts |-> world.watts]]
  BY DEF Sample
<1>2. /\ world'.now = world.now /\ world'.joules = world.joules /\ world'.watts = world.watts /\ world'.seen = world.seen
      /\ world'.sample.joules = world.joules /\ world'.sample.at = world.now /\ world'.sample.watts = world.watts
  BY <1>0, <1>1 DEF IsWorld
<1>3. IsPower(world') /\ world.now <= world'.now /\ world.joules <= world'.joules /\ world.seen \subseteq world'.seen
  BY <1>0, <1>2 DEF IsPower
<1> QED
  BY <1>0, <1>3, MetersKept

\* A quiet step, or none.
LEMMA QuietMeters ==
  ASSUME ServantInv, MetersInv, world' = world, own' = own, servant' = servant \/ servant' = [servant EXCEPT !.status = "abandoned"]
  PROVE  MetersInv'
<1>1. servant'.energy = servant.energy
  BY DEF ServantInv, IsServant
<1>2. IsPower(world') /\ world.now <= world'.now /\ world.joules <= world'.joules /\ world.seen \subseteq world'.seen
  BY DEF MetersInv, IsPower
<1> QED
  BY <1>1, <1>2, MetersKept

\* The counters of a servant that is made.
LEMMA MetersStart ==
  ASSUME ProxyInit
  PROVE  MetersInv
<1>0. MachineInv
  BY DEF ProxyInit, MachineInv
<1>1. PICK watts \in machine.watts : world = World(watts, machine)
  BY DEF ProxyInit
<1>2. PICK p \in Nat : p = watts
  BY <1>0, MachineFacts DEF IsMachine
<1>3. /\ world.now = 1 /\ world.joules = p /\ world.watts = p /\ world.seen = {p}
      /\ world.sample.joules = 0 /\ world.sample.at = 0 /\ world.sample.watts = p
  BY <1>1, <1>2 DEF World
<1>4. IsPower(world)
  <2>1. IsFiniteSet({p})
    BY FS_Singleton
  <2>2. p * 1 = p /\ p * 0 = 0
    OBVIOUS
  <2> QED
    BY <1>3, <2>1, <2>2 DEF IsPower
<1>5. ASSUME NEW type \in CounterTypes, servant.energy[type].kind = "amester" PROVE servant.energy[type].at \in Int
  <2>1. servant.energy = Energy(machine, world)
    BY DEF ProxyInit, Servant
  <2>2. servant.energy[type] = NewCounter("amester", world)
    BY <1>5, <2>1, EnergyFacts
  <2>3. PICK c : c = [NoCounter EXCEPT !.kind = "amester"]
    OBVIOUS
  <2>4. IsCounter(c) /\ c.kind = "amester"
    BY <2>3 DEF IsCounter, NoCounter
  <2>5. NewCounter("amester", world) = InitAmester(c, world)
    BY <2>3, <2>4 DEF NewCounter, InitCounter
  <2>6. InitAmester(c, world).at = world.now - world.sample.at
    BY <2>4 DEF InitAmester, IsCounter
  <2> QED
    BY <1>3, <2>2, <2>5, <2>6
<1>6. own = [k \in Objects |-> <<>>]
  BY DEF ProxyInit
<1> QED
  BY <1>4, <1>5, <1>6 DEF MetersInv
-----------------------------------------------------------------------------
(* The getters under way.                                                  *)

\* The weights add up to natural numbers.
LEMMA WeightsFacts ==
  ASSUME MachineInv
  PROVE  /\ \A n \in 0..Cardinality(machine.cpus) : CpusTotals(Weights)[n] \in Nat
         /\ CpusTotals(Weights)[0] = 0 /\ Cardinality(machine.cpus) \in Nat
         /\ CpusTotal(Weights) = CpusTotals(Weights)[Cardinality(machine.cpus)]
         /\ \A n \in 1..Cardinality(machine.cpus) :
              /\ SetToSeq(machine.cpus)[n] \in machine.cpus /\ SetToSeq(machine.cpus)[n] \in Nat
              /\ CpusTotals(Weights)[n] = CpusTotals(Weights)[n - 1] + (SetToSeq(machine.cpus)[n] + 1)
<1> DEFINE C == machine.cpus
<1>1. IsFiniteSet(C) /\ C \subseteq Nat
  BY MachineFacts DEF IsMachine
<1>2. PICK N \in Nat : N = Cardinality(C)
  BY <1>1, RowFacts
<1>3. PICK cpus \in [1..N -> C] : cpus = SetToSeq(C)
  BY <1>1, <1>2, RowFacts
<1>4. Weights \in [C -> Int] /\ (\A c \in C : Weights[c] = c + 1) /\ DOMAIN Weights = C
  BY <1>1 DEF Weights
<1> HIDE DEF C
<1>5. PICK w : w = CpusTotals(Weights) /\ w[0] = 0 /\ \A n \in 1..N : w[n] = w[n - 1] + Weights[cpus[n]]
  <2>1. Weights \in [C -> Int]
    BY <1>4
  <2>2. /\ CpusTotals(Weights) \in [0..Cardinality(C) -> Int] /\ CpusTotals(Weights)[0] = 0
        /\ \A n \in 1..Cardinality(C) : CpusTotals(Weights)[n] = CpusTotals(Weights)[n - 1] + Weights[SetToSeq(C)[n]]
    BY <1>1, <2>1, TotalsFacts, Zenon
  <2> QED
    BY <1>2, <1>3, <2>2
<1>6. \A n \in 1..N : cpus[n] \in C /\ cpus[n] \in Nat /\ w[n] = w[n - 1] + (cpus[n] + 1)
  BY <1>1, <1>4, <1>5
<1> DEFINE S == {n \in 0..N : w[n] \in Nat}
<1>7. 0 \in S
  BY <1>5
<1>8. ASSUME NEW n \in 1..N, n - 1 \in S PROVE n \in S
  BY <1>6, <1>8
<1>9. \A n \in 0..N : w[n] \in Nat
  <2> HIDE DEF S
  <2>1. 0..N \subseteq S
    BY <1>7, <1>8, InductionUpTo
  <2> QED
    BY <2>1 DEF S
<1>10. CpusTotal(Weights) = w[N]
  BY <1>2, <1>4, <1>5 DEF CpusTotal
<1> QED
  BY <1>2, <1>3, <1>5, <1>6, <1>9, <1>10 DEF C

\* What is due of a reading, when the call began with energy from.
LEMMA DueOfMeter ==
  ASSUME NEW req, req.module = "energy", req.cmd \in {"INIT", "HAS", "RESET", "GET"}, NEW from, NEW due, due = Due(req, from), due # <<>>,
         NEW base, base = own[call.k][<<"counter", req.type>>], NEW kind, kind = servant.energy[req.type].kind,
         NEW meter, meter = MeterDue(world, kind, base)
  PROVE  /\ req.cmd = "GET" /\ <<"counter", req.type>> \in DOMAIN own[call.k]
         /\ IF Exact(kind) THEN due = <<from - base.joules, world.joules - base.joules>> ELSE due = meter
<1>1. Key(req) = <<"counter", req.type>>
  BY DEF Key
<1>2. req.cmd = "GET" /\ Key(req) \in DOMAIN own[call.k]
  <2>1. ~(req.cmd = "GET" /\ Key(req) \in DOMAIN own[call.k]) => due = <<>>
    BY DEF Due
  <2> QED
    BY <2>1
<1>3. CASE Exact(kind)
  BY <1>1, <1>2, <1>3 DEF Due, Exact
<1>4. CASE ~Exact(kind)
  <2>1. due = CASE kind = "dram" /\ ~machine.dram -> <<0, 0>>
                [] kind = "amester" /\ Cardinality(world.seen) > 1 -> <<>>
                [] kind = "smartpower2" -> <<0, Max(world.seen) * (world.now - base.at)>>
                [] OTHER -> <<Min(world.seen) * (world.now - base.at), Max(world.seen) * (world.now - base.at)>>
    BY <1>1, <1>2, <1>4 DEF Due, Exact
  <2> QED
    BY <1>1, <1>2, <1>4, <2>1 DEF MeterDue, Exact
<1> QED
  BY <1>1, <1>2, <1>3, <1>4

\* The getter whose request is for a counter of a kind.
GetterOf(req, kind) ==
  /\ call.op \in Getters /\ call.k \in Objects /\ req.type \in CounterTypes /\ (req.type = "cpus" <=> call.op # "getJoules")
  /\ call.from \in Nat /\ call.from <= world.joules /\ world.joules \in Nat /\ (req.type = "cpus" => kind = "rapl")

\* An answer to a getter that has read val of a counter, as is due of it if the
\* object has reset it.
ReadOf(req, kind, key, answer, val) ==
  /\ answer = IF req.type = "cpus" THEN [cpu \in machine.cpus |-> (cpu + 1) * val] ELSE val
  /\ \A base : key \in DOMAIN own[call.k] /\ base = own[call.k][key] =>
       /\ base.joules \in Nat /\ base.joules <= world.joules
       /\ \A due : due = MeterDue(world, kind, base) /\ due # <<>> => Between(due[1], val, due[2])

\* What a reading makes of a counter, and what is due of it if the object has
\* reset it.
LEMMA AnswerOfGetter ==
  ASSUME ProxyInv, MetersInv, GetterInv, NEW o, NEW req, ServeStep(o, req), req.module = "energy", req.cmd = "GET", o.status = "ok",
         NEW key, key = <<"counter", req.type>>, NEW kind, kind = servant.energy[req.type].kind
  PROVE  /\ GetterOf(req, kind)
         /\ \E val : ReadOf(req, kind, key, o.val, val)
<1>0. /\ MachineInv /\ ServantInv /\ CallInv /\ req \in ReqsOf(call.op) /\ o \in Answers(req) /\ servant'.energy = o.servant.energy
      /\ call.todo # <<>> /\ req = Head(call.todo) /\ req.module \in Active
  BY ServeFacts DEF ServeStep
<1>1. req \in EnergyReqs(call.op) /\ "energy" \in machine.mask
  BY <1>0, ReqFacts DEF Active
<1>2. req.type \in CounterTypes /\ call.op \in Getters
  BY <1>1, EnergyReqFacts
<1>3. call.k \in Objects
  <2>1. call.op \notin {"none"} \cup CapOps
    BY <1>2 DEF Getters, CapOps
  <2> QED
    BY <1>0, <2>1 DEF CallInv
<1>4. 1 \in DOMAIN call.todo /\ req = call.todo[1]
  BY <1>0, TodoFacts DEF CallInv
<1>5. call.from \in Nat /\ call.from <= world.joules /\ (req.type = "cpus" <=> call.op # "getJoules")
  BY <1>2, <1>4 DEF GetterInv
<1>6. PICK c : c = servant.energy[req.type]
  OBVIOUS
<1>7. PICK w : w = world
  OBVIOUS
<1>8. IsPower(w) /\ IsCounter(c) /\ c.kind = kind /\ (c.kind = "amester" => c.at \in Int)
  BY <1>0, <1>2, <1>6, <1>7 DEF ServantInv, MetersInv
<1>9. PICK r \in GetJoules(c, w, machine) : o.val = (IF req.type = "cpus" THEN [cpu \in machine.cpus |-> (cpu + 1) * r.val] ELSE r.val) /\ c.kind # "none"
  <2>1. EnergyEffect(o, req, c, o.servant.energy[req.type])
    BY <1>0, <1>1, <1>6, AnswerOfCounter
  <2> QED
    BY <1>7, <2>1 DEF EnergyEffect
<1>10. c.kind \in Kinds[req.type] \ {"none"}
  BY <1>0, <1>2, <1>6, <1>9 DEF ServantInv
<1>11. ASSUME NEW base, key \in DOMAIN own[call.k], base = own[call.k][key]
       PROVE  /\ base.joules \in Nat /\ base.joules <= w.joules
              /\ \A due : due = MeterDue(w, kind, base) /\ due # <<>> => Between(due[1], r.val, due[2])
  <2>1. MeterHolds(w, c, base)
    BY <1>2, <1>3, <1>6, <1>7, <1>11 DEF MetersInv
  <2>2. base.joules \in Nat /\ base.joules <= w.joules
    BY <2>1 DEF MeterHolds
  <2>3. \A due : due = MeterDue(w, c.kind, base) => (due # <<>> => Between(due[1], r.val, due[2]))
    BY <1>2, <1>8, <1>10, <2>1, MeterRead
  <2> QED
    BY <1>8, <2>2, <2>3
<1>12. req.type = "cpus" => kind = "rapl"
  BY <1>8, <1>10 DEF Kinds
<1>13. world.joules \in Nat
  BY <1>7, <1>8 DEF IsPower
<1>14. ReadOf(req, kind, key, o.val, r.val)
  BY <1>7, <1>9, <1>11 DEF ReadOf
<1> QED
  BY <1>2, <1>3, <1>5, <1>12, <1>13, <1>14 DEF GetterOf

\* One more processor.
LEMMA OneMore ==
  ASSUME MachineInv, NEW n \in Nat, n + 1 <= Cardinality(machine.cpus), NEW from \in Nat, NEW now \in Nat, from <= now,
         NEW base, base.joules \in Nat, base.joules <= now, NEW acc, SumBetween(n, from, now, base, acc), NEW val, val = now - base.joules,
         NEW all, all = [cpu \in machine.cpus |-> (cpu + 1) * val]
  PROVE  SumBetween(n + 1, from, now, base, acc + all[SetToSeq(machine.cpus)[n + 1]])
<1>0. PICK N \in Nat : N = Cardinality(machine.cpus)
  BY WeightsFacts
<1>1. n \in 0..N /\ n + 1 \in 1..N /\ (n + 1) - 1 = n
  BY <1>0
<1>2. PICK cpu : cpu = SetToSeq(machine.cpus)[n + 1] /\ cpu \in machine.cpus /\ cpu \in Nat
  BY <1>0, <1>1, WeightsFacts
<1>3. CpusTotals(Weights)[n + 1] = CpusTotals(Weights)[n] + (cpu + 1)
  <2>1. CpusTotals(Weights)[n + 1] = CpusTotals(Weights)[(n + 1) - 1] + (SetToSeq(machine.cpus)[n + 1] + 1)
    BY <1>0, <1>1, WeightsFacts
  <2> QED
    BY <1>1, <1>2, <2>1
<1>4. PICK t \in Nat : t = CpusTotals(Weights)[n]
  BY <1>0, <1>1, WeightsFacts
<1>5. PICK u \in Nat : u = cpu + 1
  BY <1>2
<1>6. PICK low \in Int : low = from - base.joules
  OBVIOUS
<1>7. PICK high \in Int : high = now - base.joules /\ low <= high
  BY <1>6
<1>8. all[SetToSeq(machine.cpus)[n + 1]] = u * high
  BY <1>2, <1>5, <1>7
<1>9. acc \in Int /\ t * low <= acc /\ acc <= t * high
  BY <1>4, <1>6, <1>7 DEF SumBetween
<1>10. acc + u * high \in Int /\ (t + u) * low <= acc + u * high /\ acc + u * high <= (t + u) * high
  BY <1>7, <1>9, SumStep
<1> QED
  BY <1>3, <1>4, <1>5, <1>6, <1>7, <1>8, <1>10 DEF SumBetween

\* Getters send nothing to the other modules.
LEMMA GetterReqs ==
  ASSUME NEW op \in Getters, NEW k
  PROVE  ReqsOf(op) = EnergyReqs(op)
<1>1. op \in {"getJoules", "getJoulesComponents", "getJoulesCpuAll", "getJoulesCpu"}
  BY DEF Getters
<1>2. CoreReqs(op) = {}
  BY <1>1 DEF CoreReqs, Constructors, CoreCmds, LevelCmds, UnitCmds, CpuCmds
<1>3. FreqReqs(op) = {}
  BY <1>1 DEF FreqReqs, BoostCmds
<1>4. CapReqs(op) = {}
  BY <1>1 DEF CapReqs, CapOps
<1> QED
  BY <1>2, <1>3, <1>4 DEF ReqsOf

\* The energy of the processors since the object has reset it.
LEMMA CpusRead ==
  ASSUME ProxyInv, MetersInv, GetterInv, NEW o, NEW req, ServeStep(o, req), req.module = "energy", req.cmd = "GET", o.status = "ok",
         req.type = "cpus", NEW key, key = <<"counter", req.type>>, NEW kind, kind = servant.energy[req.type].kind
  PROVE  \E val : /\ o.val = [cpu \in machine.cpus |-> (cpu + 1) * val]
                  /\ key \in DOMAIN own[call.k] =>
                       /\ own[call.k][key].joules \in Nat /\ own[call.k][key].joules <= world.joules
                       /\ val = world.joules - own[call.k][key].joules
<1>1. PICK val : ReadOf(req, kind, key, o.val, val) /\ GetterOf(req, kind)
  BY AnswerOfGetter
<1>2. /\ o.val = [cpu \in machine.cpus |-> (cpu + 1) * val] /\ kind = "rapl"
      /\ \A base : key \in DOMAIN own[call.k] /\ base = own[call.k][key] =>
           /\ base.joules \in Nat /\ base.joules <= world.joules
           /\ \A due : due = MeterDue(world, kind, base) /\ due # <<>> => Between(due[1], val, due[2])
  BY <1>1 DEF ReadOf, GetterOf
<1>3. ASSUME key \in DOMAIN own[call.k], NEW base, base = own[call.k][key]
      PROVE  base.joules \in Nat /\ base.joules <= world.joules /\ val = world.joules - base.joules
  <2>1. PICK j : j = world.joules - base.joules
    OBVIOUS
  <2>2. MeterDue(world, kind, base) = <<j, j>> /\ <<j, j>> # <<>>
    BY <1>2, <2>1 DEF MeterDue, Exact
  <2>3. Between(j, val, j)
    BY <1>2, <1>3, <2>2
  <2> QED
    BY <1>2, <1>3, <2>1, <2>3 DEF Between
<1> QED
  BY <1>2, <1>3

\* A call that goes on.
LEMMA ServeGetters ==
  ASSUME ProxyInv, WorldInv, TopologyInv, MetersInv, GetterInv, NEW o, NEW req, ServeStep(o, req)
  PROVE  GetterInv'
<1>0. /\ MachineInv /\ ServantInv /\ CallInv /\ req \in ReqsOf(call.op) /\ o \in Answers(req) /\ machine' = machine
      /\ own' = Owned(req, o) /\ world' = o.world /\ call.todo # <<>> /\ req = Head(call.todo)
  BY ServeFacts DEF ServeStep
<1>1. CASE IsDone(o, req)
  <2>1. call'.op = "none"
    BY <1>1 DEF IsDone, NoCall
  <2> QED
    BY <2>1 DEF GetterInv, Getters
<1>2. CASE GoesOn(o, req)
  <2>0. call' = [call EXCEPT !.todo = TodoAfter(o, req), !.sent = @ + 1, !.acc = AccAfter(o, req), !.counters = CountersAfter(o, req)]
    BY <1>2 DEF GoesOn
  <2>1. /\ call'.op = call.op /\ call'.k = call.k /\ call'.from = call.from /\ call'.arg = call.arg /\ call'.sent = call.sent + 1
        /\ call'.todo = TodoAfter(o, req) /\ call'.acc = AccAfter(o, req)
    BY <1>0, <2>0 DEF CallInv, IsCall
  <2>2. SUFFICES ASSUME call.op \in Getters PROVE GetterInv'
    BY <2>1 DEF GetterInv
  <2>3. req.module = "energy" /\ req.cmd = "GET"
    BY <1>0, <2>2, GetterReqs, EnergyReqFacts
  <2>4. o.status = "ok"
    BY <1>2 DEF GoesOn, TodoAfter
  <2>5. call.todo \in Seq(ReqsOf(call.op)) /\ call.sent \in Nat
    BY <1>0 DEF CallInv
  <2>6. /\ Tail(call.todo) \in Seq(ReqsOf(call.op)) /\ req = call.todo[1] /\ 1 \in DOMAIN call.todo
        /\ \A n \in DOMAIN Tail(call.todo) : n + 1 \in DOMAIN call.todo /\ Tail(call.todo)[n] = call.todo[n + 1]
    BY <1>0, <2>5, TodoFacts
  <2>7. call'.todo = Tail(call.todo)
    <3>1. Follow(req, o.val) = <<>>
      BY <2>3 DEF Follow
    <3> QED
      BY <2>1, <2>4, <2>6, <3>1 DEF TodoAfter
  <2>8. SameFiles(world')
    BY <1>0, AnswerWorld
  <2>9. /\ call'.from \in Nat /\ call'.from <= world'.joules
        /\ \A n \in DOMAIN call'.todo : call'.todo[n].type = "cpus" <=> call'.op # "getJoules"
        /\ call'.op = "getJoulesCpu" => call'.arg \in machine'.cpus
    <3>1. call.from \in Nat /\ call.from <= world.joules /\ (call.op = "getJoulesCpu" => call.arg \in machine.cpus)
      BY <2>2 DEF GetterInv
    <3>2. \A n \in DOMAIN call.todo : call.todo[n].type = "cpus" <=> call.op # "getJoules"
      BY <2>2 DEF GetterInv
    <3>3. \A n \in DOMAIN call'.todo : call'.todo[n].type = "cpus" <=> call'.op # "getJoules"
      <4>1. ASSUME NEW n \in DOMAIN Tail(call.todo) PROVE Tail(call.todo)[n].type = "cpus" <=> call.op # "getJoules"
        <5>1. n + 1 \in DOMAIN call.todo /\ Tail(call.todo)[n] = call.todo[n + 1]
          BY <2>6
        <5> QED
          BY <3>2, <5>1
      <4> QED
        BY <2>1, <2>7, <4>1
    <3> QED
      BY <1>0, <2>1, <2>8, <3>1, <3>3 DEF SameFiles
  <2>10. ASSUME call.op = "getJoulesCpuAll"
         PROVE  /\ call'.sent + Len(call'.todo) = Cardinality(machine'.cpus)
                /\ <<"counter", "cpus">> \in DOMAIN own'[call'.k] =>
                     SumBetween(call.sent, call.from, world.joules, own[call.k][<<"counter", "cpus">>], call.acc)'
    <3>1. req.type = "cpus" /\ call.sent + Len(call.todo) = Cardinality(machine.cpus)
      BY <2>2, <2>6, <2>10 DEF GetterInv
    <3>2. Len(call'.todo) = Len(call.todo) - 1 /\ Len(call.todo) \in Nat \ {0}
      <4>1. \A X : \A s \in Seq(X) : s # <<>> => (\A t : t = Tail(s) => Len(t) = Len(s) - 1) /\ Len(s) \in Nat \ {0}
        OBVIOUS
      <4>2. PICK s : s = call.todo
        OBVIOUS
      <4>3. PICK t : t = call'.todo /\ t = Tail(s)
        BY <2>7, <4>2
      <4>4. Len(t) = Len(s) - 1 /\ Len(s) \in Nat \ {0}
        BY <1>0, <2>5, <4>1, <4>2, <4>3
      <4> QED
        BY <4>2, <4>3, <4>4, Zenon
    <3>3. call'.sent + Len(call'.todo) = Cardinality(machine'.cpus) /\ call.sent + 1 <= Cardinality(machine.cpus)
      <4>1. PICK n \in Nat : n = call.sent /\ call'.sent = n + 1
        BY <2>1, <2>5
      <4>2. PICK m \in Nat \ {0} : m = Len(call.todo) /\ Len(call'.todo) = m - 1
        BY <3>2
      <4>3. PICK N : N = Cardinality(machine.cpus) /\ N = Cardinality(machine'.cpus) /\ N = n + m
        BY <1>0, <3>1, <4>1, <4>2
      <4> QED
        BY <4>1, <4>2, <4>3
    <3>4. PICK key : key = <<"counter", req.type>> /\ key = <<"counter", "cpus">>
      BY <3>1
    <3>5. own' = own
      <4>1. servant.energy[req.type].kind = "rapl"
        BY <2>3, <2>4, <3>1, AnswerOfGetter DEF GetterOf
      <4>2. ~Touches(req)
        BY <2>3, <4>1 DEF Touches
      <4> QED
        BY <1>0, <2>3, <4>2, OwnedCounter
    <3>6. PICK val : /\ o.val = [cpu \in machine.cpus |-> (cpu + 1) * val]
                     /\ key \in DOMAIN own[call.k] =>
                          /\ own[call.k][key].joules \in Nat /\ own[call.k][key].joules <= world.joules
                          /\ val = world.joules - own[call.k][key].joules
      BY <2>3, <2>4, <3>1, <3>4, CpusRead
    <3>7. call'.acc = call.acc + o.val[SetToSeq(machine.cpus)[call.sent + 1]]
      BY <2>1, <2>3, <2>4, <2>10, <3>1 DEF AccAfter, Accumulate
    <3>8. ASSUME key \in DOMAIN own[call.k]
          PROVE  SumBetween(call.sent, call.from, world.joules, own[call.k][key], call.acc)'
      <4>1. PICK base : base = own[call.k][key]
        OBVIOUS
      <4>2. PICK n \in Nat : n = call.sent
        BY <2>5
      <4>3. PICK from \in Nat : from = call.from
        BY <2>2 DEF GetterInv
      <4>4. PICK now \in Nat : now = world.joules /\ from <= now
        BY <2>2, <4>3 DEF GetterInv, MetersInv, IsPower
      <4>5. PICK acc : acc = call.acc
        OBVIOUS
      <4>6. SumBetween(n, from, now, base, acc)
        BY <2>2, <2>10, <3>4, <3>8, <4>1, <4>2, <4>3, <4>4, <4>5 DEF GetterInv
      <4>7. PICK all : all = o.val
        OBVIOUS
      <4>8. SumBetween(n + 1, from, now, base, acc + all[SetToSeq(machine.cpus)[n + 1]])
        BY <1>0, <3>3, <3>6, <3>8, <4>1, <4>2, <4>4, <4>6, <4>7, OneMore
      <4>9. call'.sent = n + 1 /\ call'.from = from /\ call'.acc = acc + all[SetToSeq(machine.cpus)[n + 1]]
        BY <2>1, <3>7, <4>2, <4>3, <4>5, <4>7
      <4>10. world'.joules = now /\ own'[call'.k][key] = base
        BY <2>1, <2>8, <3>5, <4>1, <4>4 DEF SameFiles
      <4>11. Weights' = Weights
        BY <1>0 DEF Weights
      <4> QED
        BY <4>8, <4>9, <4>10, <4>11 DEF SumBetween
    <3> QED
      BY <2>1, <3>3, <3>4, <3>5, <3>8
  <2> QED
    BY <2>1, <2>9, <2>10 DEF GetterInv
<1> QED
  BY <1>1, <1>2 DEF ServeStep

\* A reading of the energy that is counted some times.
LEMMA ScaledBetween ==
  ASSUME NEW s \in Nat, NEW low, NEW val, NEW high, Between(low, val, high)
  PROVE  Between(s * low, s * val, s * high)
<1>1. low \in Int /\ val \in Int /\ high \in Int /\ low <= val /\ val <= high
  BY DEF Between
<1>2. s * low \in Int /\ s * val \in Int /\ s * high \in Int /\ s * low <= s * val /\ s * val <= s * high
  BY <1>1, Scaled
<1> QED
  BY <1>2 DEF Between

\* What the bounds of a reading are.
LEMMA ReadIsDue ==
  ASSUME MetersInv, NEW req, req.module = "energy", req.cmd = "GET", NEW key, key = <<"counter", req.type>>,
         NEW kind, kind = servant.energy[req.type].kind, GetterOf(req, kind),
         NEW answer, NEW val, ReadOf(req, kind, key, answer, val), NEW due, due = Due(req, call.from), due # <<>>
  PROVE  \E low, high : due = <<low, high>> /\ Between(low, val, high)
<1>1. PICK base : base = own[call.k][key]
  OBVIOUS
<1>2. PICK meter : meter = MeterDue(world, kind, base)
  OBVIOUS
<1>3. PICK from \in Nat : from = call.from /\ from <= world.joules /\ world.joules \in Nat
  BY DEF GetterOf
<1>4. /\ key \in DOMAIN own[call.k]
      /\ IF Exact(kind) THEN due = <<from - base.joules, world.joules - base.joules>> ELSE due = meter
  <2>1. due = Due(req, from)
    BY <1>3
  <2> QED
    BY <1>1, <1>2, <2>1, DueOfMeter
<1>5. base.joules \in Nat /\ (meter # <<>> => Between(meter[1], val, meter[2]))
  BY <1>1, <1>2, <1>4 DEF ReadOf
<1>6. CASE Exact(kind)
  <2>1. PICK j : j = world.joules - base.joules
    OBVIOUS
  <2>2. meter = <<j, j>>
    BY <1>2, <1>6, <2>1 DEF MeterDue, Exact
  <2>3. val = j /\ j \in Int
    BY <1>5, <2>2 DEF Between
  <2>4. Between(from - base.joules, val, j)
    BY <1>3, <1>5, <2>1, <2>3 DEF Between
  <2>5. due = <<from - base.joules, j>>
    BY <1>4, <1>6, <2>1
  <2> QED
    BY <2>4, <2>5
<1>7. CASE ~Exact(kind)
  <2>1. due = meter /\ meter # <<>>
    BY <1>4, <1>7
  <2>2. \E low, high : meter = <<low, high>>
    <3>1. \/ meter = <<>>
          \/ meter = <<0, 0>>
          \/ meter = <<0, Max(world.seen) * (world.now - base.at)>>
          \/ meter = <<Min(world.seen) * (world.now - base.at), Max(world.seen) * (world.now - base.at)>>
      BY <1>2, <1>7 DEF MeterDue, Exact
    <3> QED
      BY <2>1, <3>1
  <2> QED
    BY <1>5, <2>1, <2>2
<1> QED
  BY <1>6, <1>7

\* What a getter of the processors returns is the energy, as many times as it
\* counts it.
LEMMA GetterCounts ==
  ASSUME ProxyInv, WorldInv, MetersInv, GetterInv, NEW o, NEW req, ServeStep(o, req), IsDone(o, req),
         req.module = "energy", req.cmd = "GET", o.status = "ok",
         NEW key, key = <<"counter", req.type>>, NEW kind, kind = servant.energy[req.type].kind, GetterOf(req, kind),
         NEW val, ReadOf(req, kind, key, o.val, val), NEW low, NEW high, Due(req, call.from) = <<low, high>>, Between(low, val, high)
  PROVE  Share \in Nat /\ Between(Share * low, last'.val, Share * high)
<1>0. MachineInv /\ CallInv /\ call.todo # <<>> /\ req = Head(call.todo)
  BY ServeFacts DEF ServeStep
<1>1. /\ o.val = IF req.type = "cpus" THEN [cpu \in machine.cpus |-> (cpu + 1) * val] ELSE val
      /\ call.op \in Getters /\ call.k \in Objects /\ (req.type = "cpus" <=> call.op # "getJoules")
  BY DEF ReadOf, GetterOf
<1>2. last'.val = Accumulate(req, o.val)
  BY DEF IsDone, AccAfter
<1>3. val \in Int
  BY DEF Between
<1>4. CASE call.op = "getJoules"
  <2>1. Share = 1
    BY <1>4 DEF Share
  <2>2. last'.val = val
    BY <1>1, <1>2, <1>4 DEF Accumulate
  <2>3. Between(1 * low, 1 * val, 1 * high) /\ 1 * val = val
    BY <1>3, ScaledBetween
  <2> QED
    BY <2>1, <2>2, <2>3
<1>5. CASE call.op = "getJoulesComponents"
  <2>1. PICK t \in Nat : t = CpusTotal(Weights)
    <3>1. PICK N \in Nat : N = Cardinality(machine.cpus) /\ CpusTotal(Weights) = CpusTotals(Weights)[N]
      BY <1>0, WeightsFacts
    <3>2. CpusTotals(Weights)[N] \in Nat
      BY <1>0, <3>1, WeightsFacts
    <3> QED
      BY <3>1, <3>2
  <2>2. Share = t
    BY <1>5, <2>1 DEF Share, Weights
  <2>3. last'.val = CpusTotal([cpu \in machine.cpus |-> (cpu + 1) * val])
    BY <1>1, <1>2, <1>5 DEF Accumulate
  <2>4. last'.val = t * val
    BY <1>0, <1>3, <2>1, <2>3, TotalOfMultiple
  <2> QED
    BY <2>1, <2>2, <2>4, ScaledBetween
<1>6. CASE call.op = "getJoulesCpu"
  <2>1. call.arg \in machine.cpus
    BY <1>1, <1>6 DEF GetterInv
  <2>2. PICK t \in Nat : t = call.arg + 1
    BY <1>0, <2>1, MachineFacts DEF IsMachine
  <2>3. Share = t
    BY <1>6, <2>2 DEF Share
  <2>4. last'.val = t * val
    BY <1>1, <1>2, <1>6, <2>1, <2>2 DEF Accumulate
  <2> QED
    BY <2>2, <2>3, <2>4, ScaledBetween
<1>7. CASE call.op = "getJoulesCpuAll"
  <2>1. req.type = "cpus"
    BY <1>1, <1>7
  <2>2. PICK N \in Nat : N = Cardinality(machine.cpus) /\ CpusTotal(Weights) = CpusTotals(Weights)[N]
    BY <1>0, WeightsFacts
  <2>3. PICK n \in Nat : n = call.sent /\ n + 1 = N
    <3>1. TodoAfter(o, req) = <<>> /\ Follow(req, o.val) = <<>>
      BY DEF IsDone, Follow
    <3>2. ASSUME NEW X, NEW s \in Seq(X), s # <<>>, <<>> \o Tail(s) = <<>> PROVE Len(s) = 1
      <4>1. PICK t \in Seq(X) : t = Tail(s)
        BY <3>2, TodoFacts
      <4>2. t = <<>>
        <5>1. <<>> \o t = t
          OBVIOUS
        <5> QED
          BY <3>2, <4>1, <5>1
      <4>3. PICK n \in Nat : n = Len(s) /\ n # 0 /\ DOMAIN t = 1..(n - 1)
        BY <3>2, <4>1
      <4>4. DOMAIN t = {}
        BY <4>2
      <4>5. n = 1
        <5>1. 1 \notin 1..(n - 1)
          BY <4>3, <4>4
        <5> QED
          BY <4>3, <5>1
      <4> QED
        BY <4>3, <4>5
    <3>3. call.todo \in Seq(ReqsOf(call.op)) /\ call.sent \in Nat
      BY <1>0 DEF CallInv
    <3>4. <<>> \o Tail(call.todo) = <<>>
      BY <3>1 DEF TodoAfter
    <3>5. Len(call.todo) = 1
      BY <1>0, <3>2, <3>3, <3>4
    <3>6. call.sent + Len(call.todo) = Cardinality(machine.cpus)
      BY <1>1, <1>7 DEF GetterInv
    <3> QED
      BY <2>2, <3>3, <3>5, <3>6
  <2>4. PICK all : all = o.val
    OBVIOUS
  <2>5. last'.val = call.acc + all[SetToSeq(machine.cpus)[n + 1]]
    BY <1>2, <1>7, <2>1, <2>3, <2>4 DEF Accumulate
  <2>6. PICK x : /\ o.val = [cpu \in machine.cpus |-> (cpu + 1) * x]
                 /\ key \in DOMAIN own[call.k] =>
                      own[call.k][key].joules \in Nat /\ own[call.k][key].joules <= world.joules /\ x = world.joules - own[call.k][key].joules
    BY <2>1, CpusRead
  <2>7. PICK base : base = own[call.k][key]
    OBVIOUS
  <2>8. PICK from \in Nat : from = call.from
    BY DEF GetterOf
  <2>9. PICK now \in Nat : now = world.joules /\ from <= now
    BY <2>8 DEF GetterOf
  <2>10. key \in DOMAIN own[call.k] /\ <<low, high>> = <<from - base.joules, now - base.joules>>
    <3>1. kind = "rapl"
      BY <2>1 DEF GetterOf
    <3>2. PICK due : due = <<low, high>>
      OBVIOUS
    <3>3. due = Due(req, from) /\ due # <<>>
      BY <2>8, <3>2
    <3>4. PICK meter : meter = MeterDue(world, kind, base)
      OBVIOUS
    <3>5. /\ key \in DOMAIN own[call.k]
          /\ IF Exact(kind) THEN due = <<from - base.joules, world.joules - base.joules>> ELSE due = meter
      BY <2>7, <3>3, <3>4, DueOfMeter
    <3> QED
      BY <2>9, <3>1, <3>2, <3>5 DEF Exact
  <2>11. SumBetween(n, from, now, base, call.acc)
    BY <1>1, <1>7, <2>1, <2>3, <2>7, <2>8, <2>9, <2>10 DEF GetterInv
  <2>12. PICK acc : acc = call.acc
    OBVIOUS
  <2>13. SumBetween(n + 1, from, now, base, acc + all[SetToSeq(machine.cpus)[n + 1]])
    <3>1. all = [cpu \in machine.cpus |-> (cpu + 1) * x] /\ base.joules \in Nat /\ base.joules <= now /\ x = now - base.joules
      BY <2>4, <2>6, <2>7, <2>9, <2>10
    <3>2. SumBetween(n, from, now, base, acc) /\ n + 1 <= Cardinality(machine.cpus)
      BY <2>2, <2>3, <2>11, <2>12
    <3> QED
      BY <1>0, <2>9, <3>1, <3>2, OneMore
  <2>14. PICK t \in Nat : t = CpusTotals(Weights)[N]
    BY <1>0, <2>2, WeightsFacts
  <2>15. Share = t
    BY <1>7, <2>2, <2>14 DEF Share, Weights
  <2>16. low = from - base.joules /\ high = now - base.joules
    BY <2>10
  <2>17. last'.val \in Int /\ t * low <= last'.val /\ last'.val <= t * high
    BY <2>3, <2>5, <2>12, <2>13, <2>14, <2>16 DEF SumBetween
  <2>18. t * low \in Int /\ t * high \in Int
    BY Scaled DEF Between
  <2> QED
    BY <2>14, <2>15, <2>17, <2>18 DEF Between
<1> QED
  BY <1>1, <1>4, <1>5, <1>6, <1>7 DEF Getters

\* What a reading answers is within what is due.
LEMMA ServeEnergy ==
  ASSUME ProxyInv, WorldInv, MetersInv, GetterInv, NEW o, NEW req, ServeStep(o, req)
  PROVE  OwnResetCounts'
<1>0. MachineInv /\ req \in ReqsOf(call.op) /\ last = NoResult
  BY ServeFacts
<1>1. CASE GoesOn(o, req)
  <2>1. last'.due = <<>>
    BY <1>0, <1>1 DEF GoesOn, NoResult
  <2> QED
    BY <2>1 DEF OwnResetCounts
<1>2. CASE IsDone(o, req)
  <2>1. SUFFICES ASSUME o.status = "ok", req.module = "energy", last'.due # <<>> PROVE last'.due[1] <= last'.val /\ last'.val <= last'.due[2]
    BY <1>2 DEF OwnResetCounts, IsDone
  <2>2. PICK due : due = Due(req, call.from)
    OBVIOUS
  <2>3. last'.due = Shares(due)
    BY <1>2, <2>1, <2>2 DEF IsDone
  <2>4. due # <<>>
    <3>1. Shares(<<>>) = <<>>
      BY DEF Shares
    <3> QED
      BY <2>1, <2>3, <3>1
  <2>5. PICK key : key = <<"counter", req.type>>
    OBVIOUS
  <2>6. PICK kind : kind = servant.energy[req.type].kind
    OBVIOUS
  <2>7. req.cmd = "GET"
    <3>1. req.cmd \in {"INIT", "HAS", "RESET", "GET"}
      BY <1>0, <2>1, ReqFacts, EnergyReqFacts
    <3> QED
      BY <2>2, <2>4, <3>1 DEF Due
  <2>8. PICK val : ReadOf(req, kind, key, o.val, val) /\ GetterOf(req, kind)
    BY <2>1, <2>5, <2>6, <2>7, AnswerOfGetter
  <2>9. PICK low, high : due = <<low, high>> /\ Between(low, val, high)
    BY <2>1, <2>2, <2>4, <2>5, <2>6, <2>7, <2>8, ReadIsDue
  <2>10. Share \in Nat /\ Between(Share * low, last'.val, Share * high)
    BY <1>2, <2>1, <2>2, <2>5, <2>6, <2>7, <2>8, <2>9, GetterCounts
  <2>11. last'.due[1] = Share * low /\ last'.due[2] = Share * high
    BY <2>3, <2>9 DEF Shares
  <2> QED
    BY <2>10, <2>11 DEF Between
<1> QED
  BY <1>1, <1>2 DEF ServeStep

-----------------------------------------------------------------------------
(* Every step.                                                             *)

\* Time passes while a getter is under way.
LEMMA GettersKept ==
  ASSUME ServantInv, MetersInv, GetterInv, machine' = machine, call' = call, own' = own, IsPower(world'), world.joules <= world'.joules,
         MachineInv, call.op \in Getters => call.k \in Objects /\ call.sent \in Nat /\ Len(call.todo) \in Nat
  PROVE  GetterInv'
<1>1. SUFFICES ASSUME call.op \in Getters PROVE GetterInv'
  BY DEF GetterInv
<1>2. /\ call.from \in Nat /\ call.from <= world.joules /\ world.joules \in Nat /\ world'.joules \in Nat
      /\ \A n \in DOMAIN call.todo : call.todo[n].type = "cpus" <=> call.op # "getJoules"
      /\ call.op = "getJoulesCpu" => call.arg \in machine.cpus
      /\ call.op = "getJoulesCpuAll" => call.sent + Len(call.todo) = Cardinality(machine.cpus)
  BY <1>1 DEF GetterInv, MetersInv, IsPower
<1>3. ASSUME call.op = "getJoulesCpuAll", <<"counter", "cpus">> \in DOMAIN own[call.k], NEW base, base = own[call.k][<<"counter", "cpus">>]
      PROVE  SumBetween(call.sent, call.from, world.joules, base, call.acc)'
  <2>1. SumBetween(call.sent, call.from, world.joules, base, call.acc)
    BY <1>1, <1>3 DEF GetterInv
  <2>2. base.joules \in Nat
    BY <1>1, <1>3 DEF MetersInv, MeterHolds, CounterTypes
  <2>3. PICK t \in Nat : t = CpusTotals(Weights)[call.sent]
    <3>1. call.sent \in 0..Cardinality(machine.cpus)
      BY <1>1, <1>2, <1>3
    <3> QED
      BY <3>1, WeightsFacts
  <2>4. PICK p \in Int : p = world.joules - base.joules
    BY <1>2, <2>2
  <2>5. PICK q \in Int : q = world'.joules - base.joules /\ p <= q
    BY <1>2, <2>2, <2>4
  <2>6. t * p <= t * q /\ t * p \in Int /\ t * q \in Int
    BY <2>5, Scaled
  <2>7. Weights' = Weights
    BY DEF Weights
  <2>8. call.acc \in Int /\ t * (call.from - base.joules) <= call.acc /\ call.acc <= t * q
    BY <2>1, <2>3, <2>4, <2>6 DEF SumBetween
  <2> QED
    BY <2>3, <2>5, <2>7, <2>8 DEF SumBetween
<1> QED
  BY <1>2, <1>3 DEF GetterInv

\* A getter that begins.
LEMMA GetterBegins ==
  ASSUME ProxyInv, MetersInv, NEW k \in Objects, NEW type \in CounterTypes, EnergyOp(k, type)
  PROVE  GetterInv'
<1>0. world' = world /\ machine' = machine /\ own' = own /\ world.joules \in Nat /\ MachineInv
  BY DEF ProxyInv, EnergyOp, Begin, MetersInv, IsPower
<1>1. ASSUME NEW op, NEW todo, NEW arg, Begin("counters", k, op, todo, arg)
      PROVE  call'.op = op /\ call'.todo = todo /\ call'.arg = arg /\ call'.from = world.joules /\ call'.sent = 0 /\ call'.acc = 0 /\ call'.k = k
  BY <1>1 DEF Begin, NoCall
<1>2. EnergyReq("GET", type).type = type
  BY DEF EnergyReq
<1>3. CASE Begin("counters", k, "reset", <<EnergyReq("RESET", type)>>, 0)
  <2>1. call'.op = "reset"
    BY <1>1, <1>3
  <2> QED
    BY <2>1 DEF GetterInv, Getters
<1>4. ASSUME NEW op \in {"getJoules", "getJoulesComponents", "getJoulesCpu"}, NEW arg, Begin("counters", k, op, <<EnergyReq("GET", type)>>, arg),
             type = "cpus" <=> op # "getJoules", op = "getJoulesCpu" => arg \in machine.cpus
      PROVE  GetterInv'
  <2>1. call'.op = op /\ call'.arg = arg /\ call'.from = world.joules /\ call'.todo = <<EnergyReq("GET", type)>>
    BY <1>1, <1>4
  <2>2. \A n \in DOMAIN call'.todo : call'.todo[n].type = type
    BY <1>2, <2>1
  <2> QED
    BY <1>0, <1>4, <2>1, <2>2 DEF GetterInv
<1>5. CASE type = "cpus" /\ Begin("counters", k, "getJoulesCpuAll", GetJoulesAll(machine), 0)
  <2>1. PICK todo : todo = GetJoulesAll(machine)
    OBVIOUS
  <2>2. /\ call'.op = "getJoulesCpuAll" /\ call'.from = world.joules /\ call'.todo = todo /\ call'.sent = 0 /\ call'.acc = 0 /\ call'.k = k
    BY <1>1, <1>5, <2>1
  <2>3. PICK N \in Nat : N = Cardinality(machine.cpus) /\ CpusTotals(Weights)[0] = 0
    BY <1>0, WeightsFacts
  <2>4. Len(todo) = N /\ \A n \in DOMAIN todo : todo[n].type = "cpus"
    <3>1. todo = [i \in 1..N |-> EnergyReq("GET", "cpus")] /\ EnergyReq("GET", "cpus").type = "cpus"
      BY <2>1, <2>3 DEF GetJoulesAll, EnergyReq
    <3> QED
      BY <3>1
  <2>5. ASSUME <<"counter", "cpus">> \in DOMAIN own'[k], NEW base, base = own'[k][<<"counter", "cpus">>]
        PROVE  SumBetween(call.sent, call.from, world.joules, base, call.acc)'
    <3>1. base.joules \in Nat
      BY <1>0, <2>5 DEF MetersInv, MeterHolds, CounterTypes
    <3>2. PICK p \in Int : p = world.joules - base.joules
      BY <1>0, <3>1
    <3>3. Weights' = Weights
      BY <1>0 DEF Weights
    <3>4. 0 * p = 0
      OBVIOUS
    <3> QED
      BY <1>0, <2>2, <2>3, <3>2, <3>3, <3>4 DEF SumBetween
  <2>6. call'.sent + Len(call'.todo) = Cardinality(machine'.cpus)
    BY <1>0, <2>2, <2>3, <2>4
  <2>7. \A n \in DOMAIN call'.todo : call'.todo[n].type = "cpus" <=> call'.op # "getJoules"
    BY <2>2, <2>4
  <2> QED
    BY <1>0, <2>2, <2>5, <2>6, <2>7 DEF GetterInv
<1> QED
  BY <1>3, <1>4, <1>5 DEF EnergyOp

\* The steps that begin a getter.
LEMMA GettersBegin ==
  ASSUME ProxyNext
  PROVE  \/ Serve \/ call' = call \/ call'.op \notin Getters
         \/ \E k \in Objects, type \in CounterTypes : EnergyOp(k, type)
<1>0. ASSUME NEW family, NEW k, NEW op, NEW todo, NEW arg, Begin(family, k, op, todo, arg) PROVE call'.op = op
  BY <1>0 DEF Begin, NoCall
<1> DEFINE Other == call' = call \/ call'.op \notin Getters
<1>1. ASSUME NEW k, NewTopology(k) \/ NewEnergy(k) \/ NewCpuFreq(k) PROVE Other
  <2>1. call'.op \in {"newTopology", "newEnergy", "newCpuFreq"}
    BY <1>0, <1>1 DEF NewTopology, NewEnergy, NewCpuFreq
  <2> QED
    BY <2>1 DEF Getters
<1>2. ASSUME NEW k, GetInstanceTask(k) \/ DefaultCounter(k) \/ ClockModulation(k) \/ ReleaseModules(k) PROVE Other
  BY <1>2 DEF GetInstanceTask, DefaultCounter, ClockModulation, ReleaseModules, Return
<1>3. ASSUME NEW zone, NEW cap, CapOp(zone, cap) PROVE Other
  <2>1. call'.op \in {"set", "setSocket", "setWindow"}
    BY <1>0, <1>3 DEF CapOp
  <2> QED
    BY <2>1 DEF Getters
<1>4. ASSUME RollbackCaps PROVE Other
  <2>1. call'.op = "rollback"
    BY <1>0, <1>4 DEF RollbackCaps
  <2> QED
    BY <2>1 DEF Getters
<1>5. ASSUME NEW k, NEW v, NEW cmd \in CoreCmds, CoreOp(k, v, cmd) PROVE Other
  <2>1. call'.op = cmd
    BY <1>0, <1>5 DEF CoreOp
  <2> QED
    BY <2>1 DEF Getters, CoreCmds
<1>6. ASSUME NEW k, NEW v, NEW l, NEW cmd \in LevelCmds, LevelOp(k, v, l, cmd) PROVE Other
  <2>1. call'.op = cmd
    BY <1>0, <1>6 DEF LevelOp
  <2> QED
    BY <2>1 DEF Getters, LevelCmds
<1>7. ASSUME NEW k, NEW cmd \in {"Maximize", "Reset", "GetCpuVendorId", "GetCpuFamily", "GetCpuModel"}, NEW type, NEW id, UnitOp(k, cmd, type, id)
      PROVE  Other
  <2>1. call'.op = cmd
    BY <1>0, <1>7 DEF UnitOp
  <2> QED
    BY <2>1 DEF Getters
<1>8. ASSUME NEW k, NEW cmd \in {"IsBoostingSupported", "IsBoostingEnabled", "EnableBoosting", "DisableBoosting"}, BoostOp(k, cmd) PROVE Other
  <2>1. call'.op = cmd
    BY <1>0, <1>8 DEF BoostOp
  <2> QED
    BY <2>1 DEF Getters
<1>9. ASSUME GetRollbackPoint \/ Sample \/ \E watts, cores, l : Tick(watts, cores, l) PROVE Other
  BY <1>9 DEF GetRollbackPoint, Sample, Tick
<1> QED
  BY <1>1, <1>2, <1>3, <1>4, <1>5, <1>6, <1>7, <1>8, <1>9 DEF ProxyNext, CpuCmds

\* Every step keeps what the counters hold, and what has been read of them.
LEMMA MetersStep ==
  ASSUME ProxyInv, ClockInv, MetersInv, GetterInv, OwnResetCounts, [ProxyNext]_proxyVars
  PROVE  MetersInv' /\ GetterInv' /\ OwnResetCounts'
<1>0. MachineInv /\ ServantInv /\ CallInv /\ WorldInv /\ TopologyInv /\ IsPower(world)
  BY DEF ProxyInv, ClockInv, MetersInv
<1>1. call.op \in Getters => call.k \in Objects /\ call.sent \in Nat /\ Len(call.todo) \in Nat
  <2>1. call.op \in Getters => call.op \notin {"none"} \cup CapOps
    BY DEF Getters, CapOps
  <2>2. \A X : \A s \in Seq(X) : Len(s) \in Nat
    OBVIOUS
  <2> QED
    BY <1>0, <2>1, <2>2 DEF CallInv
<1>2. ASSUME machine' = machine, call' = call, own' = own, IsPower(world'), world.joules <= world'.joules PROVE GetterInv'
  BY <1>0, <1>1, <1>2, GettersKept
<1>3. CASE UNCHANGED proxyVars
  <2>1. machine' = machine /\ world' = world /\ servant' = servant /\ call' = call /\ own' = own /\ last' = last
    BY <1>3 DEF proxyVars
  <2>2. MetersInv'
    BY <1>0, <2>1, QuietMeters
  <2>3. IsPower(world') /\ world.joules <= world'.joules
    BY <1>0, <2>1 DEF IsPower
  <2> QED
    BY <1>2, <2>1, <2>2, <2>3 DEF OwnResetCounts
<1>4. ASSUME NEW watts \in machine.watts, NEW cores, NEW l, Tick(watts, cores, l) PROVE MetersInv' /\ GetterInv' /\ OwnResetCounts'
  <2>1. machine' = machine /\ call' = call /\ own' = own /\ last' = last
    BY <1>4 DEF Tick
  <2>2. MetersInv'
    BY <1>0, <1>4, TickMeters
  <2>3. world.joules <= world'.joules
    <3>1. \E idle, time, count :
            world' = [world EXCEPT !.now = @ + 1, !.joules = @ + world.watts, !.watts = watts, !.seen = @ \cup {watts},
                                   !.idle = idle, !.time = time, !.count = count]
      BY <1>4 DEF Tick
    <3>2. world'.joules = world.joules + world.watts
      BY <1>0, <3>1 DEF WorldInv, IsWorld
    <3> QED
      BY <1>0, <3>2 DEF IsPower
  <2>4. GetterInv'
    BY <1>2, <2>1, <2>2, <2>3 DEF MetersInv
  <2> QED
    BY <2>1, <2>2, <2>4 DEF OwnResetCounts
<1>5. CASE Sample
  <2>1. machine' = machine /\ call' = call /\ own' = own /\ last' = last /\ \E x : world' = [world EXCEPT !.sample = x]
    BY <1>5 DEF Sample
  <2>2. MetersInv'
    BY <1>0, <1>5, SampleMeters
  <2>3. world.joules <= world'.joules
    BY <1>0, <2>1 DEF WorldInv, IsWorld, IsPower
  <2>4. GetterInv'
    BY <1>2, <2>1, <2>2, <2>3 DEF MetersInv
  <2> QED
    BY <2>1, <2>2, <2>4 DEF OwnResetCounts
<1>6. CASE Serve
  <2>1. PICK o, req : ServeStep(o, req)
    BY <1>6, ServeParts
  <2>2. MetersInv' /\ GetterInv' /\ OwnResetCounts'
    BY <1>0, <2>1, ServeMeters, ServeGetters, ServeEnergy
  <2> QED
    BY <2>2
<1>7. CASE Quiet /\ ProxyNext /\ ~Serve
  <2>1. /\ machine' = machine /\ world' = world /\ own' = own /\ last'.due = <<>>
        /\ servant' = servant \/ servant' = [servant EXCEPT !.status = "abandoned"]
    BY <1>7 DEF Quiet
  <2>2. MetersInv'
    BY <1>0, <2>1, QuietMeters
  <2>0. machine' = machine /\ world' = world /\ own' = own
    BY <2>1
  <2>3. IsPower(world') /\ world.joules <= world'.joules
    BY <1>0, <2>0 DEF IsPower
  <2>4. ASSUME call' = call PROVE GetterInv'
    BY <1>2, <2>0, <2>3, <2>4
  <2>5. ASSUME call'.op \notin Getters PROVE GetterInv'
    BY <2>5 DEF GetterInv
  <2>6. ASSUME NEW k \in Objects, NEW type \in CounterTypes, EnergyOp(k, type) PROVE GetterInv'
    BY <2>6, GetterBegins
  <2>7. GetterInv'
    BY <1>7, <2>4, <2>5, <2>6, GettersBegin
  <2> QED
    BY <2>1, <2>2, <2>7 DEF OwnResetCounts
<1> QED
  BY <1>3, <1>4, <1>5, <1>6, <1>7, Steps

\* No call is under way at the beginning.
LEMMA GettersStart ==
  ASSUME ProxyInit
  PROVE  GetterInv /\ OwnResetCounts
<1>1. call.op = "none" /\ last.due = <<>>
  BY DEF ProxyInit, NoCall, NoResult
<1> QED
  BY <1>1 DEF GetterInv, Getters, OwnResetCounts

\* CounterRemote: what an object reads of a counter that it has reset, and that
\* nobody else has since, is the energy since then, exactly or between the least
\* and the most that the powers of the machine make of that time, whatever the
\* counters, the processors and the powers, and however the calls, the ticks
\* and the samples fall.
THEOREM OwnAlwaysCounts == ProxySpec => []OwnResetCounts
<1>1. ProxyInit => ProxyInv /\ ClockInv /\ MetersInv /\ GetterInv /\ OwnResetCounts
  BY ProxyStart, ClockStart, MetersStart, GettersStart
<1>2. ProxyInv /\ Results /\ ClockInv /\ MetersInv /\ GetterInv /\ OwnResetCounts /\ [ProxyNext]_proxyVars
      => (ClockInv /\ MetersInv /\ GetterInv /\ OwnResetCounts)'
  BY ClockStep, MetersStep
<1> QED
  BY <1>1, <1>2, ProxyInvariant, PTL DEF ProxySpec
=============================================================================
