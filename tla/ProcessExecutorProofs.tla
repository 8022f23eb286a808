------------------------ MODULE ProcessExecutorProofs ------------------------
(***************************************************************************)
(* The safety of the sub-process executor, for any number of tasks and     *)
(* attempts, whatever dies, raises, is terminated or closed.               *)
(***************************************************************************)
EXTENDS ProcessExecutor, TLAPS

(* A message closes the executor or is about an attempt of a task.         *)
LEMMA MessageKinds ==
  ASSUME NEW m \in Message \cup {Closed}
  PROVE  \/ m = Closed /\ m.type = "closed" /\ m \notin Message
         \/ /\ m # Closed /\ m \in Message /\ m.type \in Requests
            /\ m.task \in Tasks /\ m.attempt \in 1..MaxAttempts
BY DEF Message, Closed, Requests

(* What the backlog holds after a message joined it, or was accepted.      *)
LEMMA Joined ==
  ASSUME NEW S, NEW s \in Seq(S), NEW m \in S
  PROVE  /\ Append(s, m) \in Seq(S)
         /\ DOMAIN Append(s, m) = DOMAIN s \cup {Len(s) + 1}
         /\ Len(s) + 1 \notin DOMAIN s
         /\ \A i \in DOMAIN s : Append(s, m)[i] = s[i]
         /\ Append(s, m)[Len(s) + 1] = m
OBVIOUS

(* What is left of a queue whose first entry is taken.                     *)
LEMMA Accepted ==
  ASSUME NEW S, NEW s \in Seq(S), s # <<>>
  PROVE  /\ Tail(s) \in Seq(S) /\ Head(s) \in S
         /\ 1 \in DOMAIN s /\ Head(s) = s[1]
         /\ \A i \in DOMAIN Tail(s) :
              /\ i + 1 \in DOMAIN s /\ i \in Nat \ {0}
              /\ Tail(s)[i] = s[i + 1]
OBVIOUS

-----------------------------------------------------------------------------
(* The invariant holds at the start.                                       *)
LEMMA InitInvariant == Init => IInv
<1> SUFFICES ASSUME Init PROVE IInv
  OBVIOUS
<1>1. TypeOK
  <2>1. 0 \in 0..MaxAttempts
    BY ProcessAssumption
  <2>2. <<>> \in Seq(Message \cup {Closed}) /\ Closed \in Message \cup {Closed}
    OBVIOUS
  <2> HIDE DEF Closed
  <2> QED BY <2>1, <2>2 DEF Init, TypeOK
<1>2. MessagesAreFresh /\ MessagesAreSingle /\ FoundIsRegistered
  BY DEF Init, MessagesAreFresh, MessagesAreSingle, FoundIsRegistered, AtMessage
<1>3. ChildrenAreRegistered /\ CloseIsSound /\ SuccessIsReal
  BY DEF Init, ChildrenAreRegistered, CloseIsSound, SuccessIsReal,
     ChildRegistered, Alive
<1> QED BY <1>1, <1>2, <1>3 DEF IInv

(* A child sends only while it is there, so its attempt has been counted.  *)
LEMMA SendType ==
  ASSUME IInv, NEW t \in Tasks, child[t] \in Alive,
         NEW type \in Requests, NEW next \in Alive, Send(t, type, next)
  PROVE  /\ backlog' \in Seq(Message \cup {Closed})
         /\ child' \in [Tasks -> {"none", "gone"} \cup Alive]
<1>1. attempt[t] \in 1..MaxAttempts
  BY ProcessAssumption DEF IInv, TypeOK, ChildrenAreRegistered, ChildRegistered, Alive
<1>2. [type |-> type, task |-> t, attempt |-> attempt[t]] \in Message \cup {Closed}
  BY <1>1 DEF Message
<1>3. /\ child \in [Tasks -> {"none", "gone"} \cup Alive]
      /\ backlog \in Seq(Message \cup {Closed})
  BY DEF IInv, TypeOK
<1>4. CASE open
  BY <1>2, <1>3, <1>4, Joined DEF Send
<1>5. CASE ~open
  BY <1>3, <1>5 DEF Send
<1> QED BY <1>4, <1>5

(* Every step keeps the types.                                             *)
LEMMA TypeCorrectNext == IInv /\ [Next]_vars => TypeOK'
<1> SUFFICES ASSUME IInv, [Next]_vars PROVE TypeOK'
  OBVIOUS
<1> USE DEF TypeOK, Kill, listener
<1>0. TypeOK
  BY DEF IInv
<1>1. ASSUME NEW t \in Tasks,
             Execute(t) \/ Register(t) \/ Terminate(t) \/ Die(t)
      PROVE  TypeOK'
  <2>1. CASE Execute(t)
    <3>1. attempt[t] + 1 \in 0..MaxAttempts
      BY <1>0, <2>1, ProcessAssumption DEF Execute
    <3> QED BY <1>0, <2>1, <3>1 DEF Execute, Alive
  <2>2. CASE Register(t)
    BY <1>0, <2>2 DEF Register
  <2>3. CASE Terminate(t)
    BY <1>0, <2>3 DEF Terminate
  <2>4. CASE Die(t)
    BY <1>0, <2>4 DEF Die
  <2> QED BY <1>1, <2>1, <2>2, <2>3, <2>4
<1>2. ASSUME NEW t \in Tasks, ChildStep(t)
      PROVE  TypeOK'
  <2>1. CASE Boot(t)
    BY <1>0, <2>1, SendType DEF Boot, Alive, Requests
  <2>2. CASE FunctionReturns(t)
    BY <1>0, <2>2, SendType DEF FunctionReturns, Alive, Requests
  <2>3. CASE FunctionRaises(t)
    BY <1>0, <2>3, SendType DEF FunctionRaises, Alive, Requests
  <2> QED BY <1>2, <2>1, <2>2, <2>3 DEF ChildStep
<1>3. CASE Close \/ TerminateAll \/ CloseSocket
  <2>1. CASE Close
    BY <1>0, <2>1 DEF Close
  <2>2. CASE TerminateAll
    BY <1>0, <2>2 DEF TerminateAll
  <2>3. CASE CloseSocket
    <3> DEFINE cut == {t \in Tasks : \E i \in DOMAIN backlog :
                          /\ backlog[i] # Closed
                          /\ backlog[i].task = t
                          /\ backlog[i].attempt = attempt[t]}
    <3>1. /\ child' = [t \in Tasks |-> IF t \in cut THEN "gone" ELSE child[t]]
          /\ backlog' = <<>>
      BY <2>3 DEF CloseSocket
    <3> HIDE DEF cut
    <3>2. child' \in [Tasks -> {"none", "gone"} \cup Alive]
      BY <1>0, <3>1
    <3>3. backlog' \in Seq(Message \cup {Closed})
      BY <3>1
    <3> QED BY <1>0, <2>3, <3>2, <3>3 DEF CloseSocket
  <2> QED BY <1>3, <2>1, <2>2, <2>3
<1>4. CASE SendClosed
  BY <1>0, <1>4, Joined DEF SendClosed
<1>5. CASE Check \/ RequestClosed \/ RequestStarted \/ ReplyClosed
  BY <1>0, <1>5 DEF Check, RequestClosed, RequestStarted, ReplyClosed
<1>6. CASE Accept
  BY <1>0, <1>6, Accepted DEF Accept
<1>7. CASE RequestEnded \/ Write \/ WriteRaises
  <2>1. msg.task \in Tasks /\ msg.type \in Requests
    BY <1>0, <1>7, MessageKinds DEF RequestEnded, Write, WriteRaises, IInv,
       FoundIsRegistered
  <2>2. Written(msg.type, attempt[msg.task]) \in {"started", "success", "retrying", "failed"}
    BY <2>1 DEF Written, Requests
  <2> QED BY <1>0, <1>7, <2>1, <2>2 DEF RequestEnded, Write, WriteRaises
<1>8. CASE Reply
  <2>1. msg.task \in Tasks /\ msg.type \in Requests
    BY <1>0, <1>8, MessageKinds DEF Reply
  <2>2. CASE UNCHANGED <<child, backlog>>
    BY <1>0, <1>8, <2>2 DEF Reply
  <2>3. CASE Waits(msg.task) /\ Send(msg.task, "failed", "failing")
    BY <1>0, <1>8, <2>1, <2>3, SendType DEF Reply, Waits, Requests, Alive
  <2>4. CASE UNCHANGED backlog /\ \E c \in {"body", "gone"} :
               child' = [child EXCEPT ![msg.task] = c]
    BY <1>0, <1>8, <2>1, <2>4 DEF Reply, Alive
  <2> QED BY <1>8, <2>2, <2>3, <2>4 DEF Reply
<1>9. CASE UNCHANGED vars
  BY <1>0, <1>9 DEF vars
<1> QED
  BY <1>1, <1>2, <1>3, <1>4, <1>5, <1>6, <1>7, <1>8, <1>9
     DEF Next, CloseStep, Listen

-----------------------------------------------------------------------------
Kept == /\ MessagesAreFresh /\ MessagesAreSingle /\ FoundIsRegistered
        /\ ChildrenAreRegistered /\ CloseIsSound /\ SuccessIsReal

(* The rest is kept by the threads that execute and terminate tasks,       *)
LEMMA CallerKeeps ==
  ASSUME IInv, TypeOK', NEW t \in Tasks,
         Execute(t) \/ Register(t) \/ Terminate(t)
  PROVE  Kept'
<1> USE DEF Kept, Kill, listener
<1>0. /\ TypeOK /\ Kept
      /\ \A i \in DOMAIN backlog : backlog[i] \in Message \cup {Closed}
      /\ msg \in Message \cup {Closed}
  BY DEF IInv, TypeOK
<1>m. \A m \in Message : m.task \in Tasks /\ m.attempt \in Nat
  BY DEF Message
<1>1. CASE Execute(t)
  <2>1. MessagesAreFresh'
    <3>1. ASSUME NEW m \in Message, Unwritten(m)
          PROVE  m.task # t /\ Unwritten(m)'
      <4>1. m.task # t
        BY <3>1, <1>1 DEF Execute, Unwritten
      <4> QED BY <1>0, <1>m, <1>1, <3>1, <4>1 DEF TypeOK, Execute, Unwritten, SenderWaits
    <3>2. /\ \A i \in DOMAIN backlog : backlog[i] # Closed => Unwritten(backlog[i])'
          /\ lpc \in {"request", "write"} /\ msg # Closed => Unwritten(msg)'
      BY <1>0, <1>1, <3>1 DEF MessagesAreFresh, Execute
    <3>3. AtMessage => /\ msg.attempt <= attempt'[msg.task]
                       /\ msg.attempt = attempt'[msg.task] =>
                            msg.task # t /\ SenderWaits(msg) /\ msg.attempt = attempt[msg.task]
      BY <1>0, <1>m, <1>1 DEF TypeOK, Execute, MessagesAreFresh, AtMessage
    <3> QED BY <1>0, <1>m, <1>1, <3>2, <3>3
            DEF TypeOK, Execute, MessagesAreFresh, AtMessage, SenderWaits
  <2>2. MessagesAreSingle'
    BY <1>0, <1>m, <1>1 DEF TypeOK, Execute, MessagesAreSingle, MessagesAreFresh, AtMessage
  <2>3. FoundIsRegistered'
    BY <1>0, <1>m, <1>1 DEF TypeOK, Execute, FoundIsRegistered, MessagesAreFresh, AtMessage, Unwritten
  <2>4. ChildrenAreRegistered'
    <3>1. /\ registering = {} /\ registering' = {t} /\ registered' = registered
          /\ row[t] \in {"pending", "retrying"} /\ row'[t] = "sent"
          /\ child'[t] = "booting" /\ attempt'[t] # 0
      BY <1>0, <1>1, ProcessAssumption DEF TypeOK, Execute
    <3>2. \A u \in Tasks \ {t} :
            /\ child'[u] = child[u] /\ row'[u] = row[u] /\ attempt'[u] = attempt[u]
            /\ completed'[u] = completed[u]
      BY <1>0, <1>1 DEF TypeOK, Execute
    <3>3. t \notin registered
      BY <1>0, <3>1 DEF ChildrenAreRegistered, ChildRegistered, Alive
    <3>4. \A u \in Tasks \ {t} : ChildRegistered(u)'
      BY <1>0, <3>1, <3>2 DEF ChildrenAreRegistered, ChildRegistered, Alive
    <3>5. ChildRegistered(t)'
      BY <3>1 DEF ChildRegistered, Alive
    <3> QED BY <3>1, <3>3, <3>4, <3>5 DEF ChildrenAreRegistered
  <2>5. CloseIsSound' /\ SuccessIsReal'
    BY <1>0, <1>1 DEF TypeOK, Execute, CloseIsSound, SuccessIsReal
  <2> QED BY <2>1, <2>2, <2>3, <2>4, <2>5
<1>2. CASE Register(t)
  <2>1. MessagesAreFresh' /\ MessagesAreSingle'
    BY <1>0, <1>2 DEF Register, MessagesAreFresh, MessagesAreSingle, AtMessage, Unwritten, SenderWaits
  <2>2. FoundIsRegistered'
    BY <1>0, <1>2 DEF Register, FoundIsRegistered
  <2>4. ChildrenAreRegistered'
    BY <1>0, <1>2 DEF TypeOK, Register, ChildrenAreRegistered, ChildRegistered, Alive
  <2>5. CloseIsSound' /\ SuccessIsReal'
    BY <1>0, <1>2 DEF TypeOK, Register, CloseIsSound, SuccessIsReal
  <2> QED BY <2>1, <2>2, <2>4, <2>5
<1>3. CASE Terminate(t)
  <2>1. MessagesAreFresh' /\ MessagesAreSingle'
    BY <1>0, <1>m, <1>3 DEF Terminate, MessagesAreFresh, MessagesAreSingle, AtMessage, Unwritten, SenderWaits
  <2>2. FoundIsRegistered'
    BY <1>0, <1>m, <1>3 DEF Terminate, FoundIsRegistered
  <2>4. ChildrenAreRegistered'
    <3>1. ASSUME NEW u \in Tasks PROVE ChildRegistered(u)'
      <4>1. ChildRegistered(u)
        BY <1>0 DEF ChildrenAreRegistered
      <4>2. \/ u = t /\ child'[u] = "gone" /\ u \notin registered'
            \/ /\ u # t /\ child'[u] = child[u]
               /\ u \in registered <=> u \in registered'
        BY <1>3 DEF Terminate
      <4>3. UNCHANGED <<row, attempt, completed, registering>>
        BY <1>3 DEF Terminate
      <4>4. registering = {} /\ t \in registered
        BY <1>3 DEF Terminate
      <4>5. CASE u = t
        BY <4>1, <4>2, <4>3, <4>4, <4>5 DEF ChildRegistered, Alive
      <4>6. CASE u # t
        BY <4>1, <4>2, <4>3, <4>6 DEF ChildRegistered, Alive
      <4> QED BY <4>5, <4>6
    <3> QED BY <1>0, <1>3, <3>1 DEF Terminate, ChildrenAreRegistered
  <2>5. CloseIsSound' /\ SuccessIsReal'
    BY <1>0, <1>3 DEF TypeOK, Terminate, CloseIsSound, SuccessIsReal
  <2> QED BY <2>1, <2>2, <2>4, <2>5
<1> QED BY <1>1, <1>2, <1>3

(* close is called.                                                        *)
LEMMA CloseCommandKeeps ==
  ASSUME IInv, Close
  PROVE  Kept'
BY DEF IInv, Kept, Close, listener, MessagesAreFresh, MessagesAreSingle,
   AtMessage, Unwritten, SenderWaits, FoundIsRegistered, ChildrenAreRegistered,
   ChildRegistered, Alive, CloseIsSound, SuccessIsReal

(* A task without a message of its last attempt on its way.                *)
Quiet(t) ==
  /\ \A i \in DOMAIN backlog : backlog[i] # Closed => backlog[i].task # t
  /\ lpc \in {"request", "write"} /\ msg # Closed => msg.task # t

Silent(t) ==
  Quiet(t) /\ (AtMessage /\ msg.attempt = attempt[msg.task] => msg.task # t)

(* A child that runs has no message on its way.                            *)
LEMMA RunningIsSilent ==
  ASSUME IInv, NEW t \in Tasks, child[t] \in {"booting", "body"}
  PROVE  Silent(t)
<1>1. MessagesAreFresh
  BY DEF IInv
<1>2. \A m \in Message : m.type \in Requests
  BY DEF Message
<1>3. /\ \A i \in DOMAIN backlog : backlog[i] \in Message \cup {Closed}
      /\ msg \in Message \cup {Closed}
  BY DEF IInv, TypeOK
<1>4. ASSUME NEW m \in Message, SenderWaits(m) PROVE m.task # t
  BY <1>2, <1>4 DEF SenderWaits, Requests
<1>5. \A m \in Message : Unwritten(m) => m.task # t
  BY <1>4 DEF Unwritten
<1>6. Quiet(t)
  BY <1>1, <1>3, <1>5 DEF Quiet, MessagesAreFresh
<1>7. AtMessage /\ msg.attempt = attempt[msg.task] => msg.task # t
  BY <1>1, <1>3, <1>4 DEF MessagesAreFresh, AtMessage
<1> QED BY <1>6, <1>7 DEF Silent

(* A message joins the backlog.                                            *)
LEMMA SendKeeps ==
  ASSUME IInv, NEW t \in Tasks, NEW type \in Requests, NEW next \in Alive,
         Send(t, type, next), Quiet(t),
         <<type, next>> \in {<<"started", "starting">>,
                            <<"succeeded", "succeeding">>,
                            <<"failed", "failing">>},
         child[t] \in Alive, row[t] \in {"sent", "started"},
         type = "started" => child[t] = "booting",
         type = "succeeded" => completed'[t] = attempt[t],
         \A u \in Tasks : completed'[u] \in {completed[u], attempt[u]},
         UNCHANGED <<row, attempt, registered, registering, stopped, caller>>,
         \/ lpc' = "check"
         \/ UNCHANGED <<lpc, msg, answer>> /\ Silent(t)
  PROVE  Kept'
<1>0. /\ TypeOK /\ MessagesAreFresh /\ MessagesAreSingle /\ FoundIsRegistered
      /\ ChildrenAreRegistered /\ CloseIsSound /\ SuccessIsReal
      /\ backlog \in Seq(Message \cup {Closed})
      /\ \A i \in DOMAIN backlog : backlog[i] \in Message \cup {Closed}
      /\ msg \in Message \cup {Closed}
  BY DEF IInv, TypeOK
<1>m. \A m \in Message : /\ m.task \in Tasks /\ m.attempt \in Nat
                         /\ m.type \in Requests /\ m # Closed
  BY DEF Message, Closed
<1>1. attempt[t] \in 1..MaxAttempts
  BY <1>0, ProcessAssumption DEF TypeOK, ChildrenAreRegistered, ChildRegistered
<1>2. PICK new \in Message :
        /\ new = [type |-> type, task |-> t, attempt |-> attempt[t]]
        /\ new.type = type /\ new.task = t /\ new.attempt = attempt[t]
  <2>1. [type |-> type, task |-> t, attempt |-> attempt[t]] \in Message
    BY <1>1 DEF Message
  <2> QED BY <2>1
<1>3. \/ /\ DOMAIN backlog' = DOMAIN backlog \cup {Len(backlog) + 1}
         /\ Len(backlog) + 1 \notin DOMAIN backlog
         /\ \A i \in DOMAIN backlog : backlog'[i] = backlog[i]
         /\ backlog'[Len(backlog) + 1] = new
         /\ child'[t] = next
      \/ UNCHANGED backlog /\ child'[t] = "gone"
  <2>1. CASE open
    <3>1. backlog' = Append(backlog, new) /\ child' = [child EXCEPT ![t] = next]
      BY <1>2, <2>1 DEF Send
    <3>2. child'[t] = next
      BY <1>0, <3>1 DEF TypeOK
    <3>3. new \in Message \cup {Closed}
      OBVIOUS
    <3> QED BY <1>0, <3>1, <3>2, <3>3, Joined
  <2>2. CASE ~open
    BY <1>0, <2>2 DEF Send, TypeOK
  <2> QED BY <2>1, <2>2
<1>4. /\ \A u \in Tasks \ {t} : child'[u] = child[u]
      /\ child'[t] \in {"gone", next}
  BY <1>0 DEF Send, TypeOK
<1>5. ASSUME NEW m \in Message, m.task # t, SenderWaits(m)
      PROVE  SenderWaits(m)'
  BY <1>4, <1>5, <1>m DEF SenderWaits
<1>6. ASSUME NEW m \in Message, m.task # t, Unwritten(m)
      PROVE  Unwritten(m)'
  BY <1>m, <1>5, <1>6 DEF Unwritten
<1>7. child'[t] = next => Unwritten(new)'
  BY <1>2 DEF Unwritten, SenderWaits
<1>8. MessagesAreFresh'
  <2>1. (\A i \in DOMAIN backlog : backlog[i] # Closed => Unwritten(backlog[i]))'
    <3>1. \A i \in DOMAIN backlog' : backlog'[i] # Closed =>
            \/ i \in DOMAIN backlog /\ backlog'[i] = backlog[i] /\ backlog[i].task # t
            \/ backlog'[i] = new /\ child'[t] = next
      BY <1>3 DEF Quiet
    <3>2. \A m \in Message : \/ Unwritten(m) /\ m.task # t
                             \/ m = new /\ child'[t] = next
                             => Unwritten(m)'
      BY <1>6, <1>7
    <3>3. \A i \in DOMAIN backlog' : backlog'[i] # Closed =>
            /\ backlog'[i] \in Message
            /\ \/ Unwritten(backlog'[i]) /\ backlog'[i].task # t
               \/ backlog'[i] = new /\ child'[t] = next
      BY <1>0, <3>1 DEF MessagesAreFresh
    <3> QED BY <3>2, <3>3 DEF Unwritten, SenderWaits
  <2>2. CASE lpc' = "check"
    BY <2>1, <2>2 DEF MessagesAreFresh, AtMessage
  <2>3. CASE UNCHANGED <<lpc, msg, answer>> /\ Silent(t)
    <3>1. lpc \in {"request", "write"} /\ msg # Closed => Unwritten(msg)'
      BY <1>0, <1>6, <2>3 DEF MessagesAreFresh, Silent, Quiet
    <3>2. AtMessage => msg.attempt <= attempt[msg.task]
      BY <1>0 DEF MessagesAreFresh
    <3>3. AtMessage /\ msg.attempt = attempt[msg.task] =>
            /\ SenderWaits(msg)'
            /\ lpc = "reply" /\ answer = "exception" => row[msg.task] \in {"sent", "started"}
      BY <1>0, <1>5, <2>3 DEF MessagesAreFresh, Silent, AtMessage
    <3> QED BY <2>1, <2>3, <3>1, <3>2, <3>3 DEF MessagesAreFresh, AtMessage
  <2> QED BY <2>2, <2>3
<1>9. MessagesAreSingle'
  <2>1. \A i \in DOMAIN backlog' : backlog'[i] # Closed =>
          \/ i \in DOMAIN backlog /\ backlog'[i] = backlog[i] /\ backlog[i].task # t
          \/ i = Len(backlog) + 1 /\ i \notin DOMAIN backlog /\ backlog'[i].task = t
    BY <1>2, <1>3 DEF Quiet
  <2>2. \A i \in DOMAIN backlog' : backlog'[i] = Closed =>
          i \in DOMAIN backlog /\ backlog[i] = Closed
    BY <1>2, <1>3, <1>m
  <2>3. \A i, j \in DOMAIN backlog' : i # j =>
          /\ backlog'[i] # Closed \/ backlog'[j] # Closed
          /\ backlog'[i] # Closed /\ backlog'[j] # Closed =>
               backlog'[i].task # backlog'[j].task
    BY <1>0, <2>1, <2>2 DEF MessagesAreSingle
  <2>4. AtMessage' /\ msg'.attempt = attempt'[msg'.task] =>
          \A i \in DOMAIN backlog' : backlog'[i] # Closed => backlog'[i].task # msg'.task
    BY <1>0, <2>1 DEF MessagesAreSingle, AtMessage, Silent
  <2> QED BY <2>3, <2>4 DEF MessagesAreSingle
<1>10. FoundIsRegistered'
  <2>1. CASE lpc' = "check"
    BY <2>1 DEF FoundIsRegistered
  <2>2. CASE UNCHANGED <<lpc, msg, answer>> /\ Silent(t)
    BY <1>0, <1>4, <1>m, <2>2 DEF FoundIsRegistered, Silent, AtMessage
  <2> QED BY <2>1, <2>2
<1>11. ChildrenAreRegistered'
  <2>1. \A u \in Tasks \ {t} : ChildRegistered(u)'
    BY <1>0, <1>4 DEF ChildrenAreRegistered, ChildRegistered
  <2>2. ChildRegistered(t)'
    BY <1>0, <1>1, <1>4 DEF ChildrenAreRegistered, ChildRegistered
  <2> QED BY <1>0, <2>1, <2>2 DEF ChildrenAreRegistered
<1>12. CloseIsSound'
  <2>1. \A i \in DOMAIN backlog' : backlog'[i] = Closed =>
          i \in DOMAIN backlog /\ backlog[i] = Closed
    BY <1>2, <1>3, <1>m
  <2> QED BY <1>0, <2>1 DEF CloseIsSound
<1>13. SuccessIsReal'
  BY <1>0 DEF SuccessIsReal
<1> QED BY <1>8, <1>9, <1>10, <1>11, <1>12, <1>13 DEF Kept

(* by the children,                                                        *)
LEMMA ChildKeeps ==
  ASSUME IInv, NEW t \in Tasks, ChildStep(t)
  PROVE  Kept'
<1>1. /\ child[t] \in {"booting", "body"} /\ Silent(t) /\ Quiet(t)
      /\ child[t] \in Alive /\ row[t] \in {"sent", "started"}
      /\ UNCHANGED <<row, attempt, registered, registering, lpc, msg, answer,
                     stopped, caller>>
  <2>1. /\ child[t] \in {"booting", "body"}
        /\ UNCHANGED <<row, attempt, registered, registering, lpc, msg, answer,
                       stopped, caller>>
    BY DEF ChildStep, Boot, FunctionReturns, FunctionRaises, listener
  <2>2. row[t] \in {"sent", "started"}
    BY <2>1 DEF IInv, ChildrenAreRegistered, ChildRegistered
  <2> QED BY <2>1, <2>2, RunningIsSilent DEF Silent, Alive
<1>2. TypeOK
  BY DEF IInv
<1>3. CASE Boot(t)
  <2>1. UNCHANGED completed /\ child[t] = "booting"
    BY <1>3 DEF Boot
  <2>2. CASE Send(t, "started", "starting")
    BY <1>1, <2>1, <2>2, SendKeeps DEF Requests, Alive
  <2>3. CASE Send(t, "failed", "failing")
    BY <1>1, <2>1, <2>3, SendKeeps DEF Requests, Alive
  <2> QED BY <1>3, <2>2, <2>3 DEF Boot
<1>4. CASE FunctionReturns(t)
  <2>1. /\ completed'[t] = attempt[t]
        /\ \A u \in Tasks : completed'[u] \in {completed[u], attempt[u]}
    BY <1>2, <1>4 DEF FunctionReturns, TypeOK
  <2>2. Send(t, "succeeded", "succeeding")
    BY <1>4 DEF FunctionReturns
  <2> QED BY <1>1, <2>1, <2>2, SendKeeps DEF Requests, Alive
<1>5. CASE FunctionRaises(t)
  <2>1. UNCHANGED completed /\ Send(t, "failed", "failing")
    BY <1>5 DEF FunctionRaises
  <2> QED BY <1>1, <2>1, SendKeeps DEF Requests, Alive
<1> QED BY <1>3, <1>4, <1>5 DEF ChildStep

(* Children are killed, and connections cut.                               *)
LEMMA KillKeeps ==
  ASSUME IInv, NEW ts \in SUBSET Tasks, Kill(ts),
         backlog' = backlog \/ (backlog' = <<>> /\ caller = "answered"),
         \/ UNCHANGED <<registered, caller>>
         \/ UNCHANGED registered /\ caller = "answered" /\ caller' = "joining"
         \/ /\ registered' = {} /\ registered \subseteq ts
            /\ caller = "joining" /\ caller' = "closed",
         UNCHANGED <<row, attempt, registering, lpc, msg, answer, completed>>
  PROVE  Kept'
<1>0. /\ TypeOK /\ MessagesAreFresh /\ MessagesAreSingle /\ FoundIsRegistered
      /\ ChildrenAreRegistered /\ CloseIsSound /\ SuccessIsReal
      /\ \A i \in DOMAIN backlog : backlog[i] \in Message \cup {Closed}
      /\ msg \in Message \cup {Closed}
  BY DEF IInv, TypeOK
<1>m. \A m \in Message : m.task \in Tasks
  BY DEF Message
<1>1. /\ \A t \in Tasks : child'[t] \in {"gone", child[t]}
      /\ \A t \in ts : child'[t] = "gone"
      /\ registered' \subseteq registered
  BY DEF Kill
<1>2. \A m \in Message : /\ SenderWaits(m) => SenderWaits(m)'
                         /\ Unwritten(m) => Unwritten(m)'
  BY <1>1, <1>m DEF SenderWaits, Unwritten
<1>3. \A i \in DOMAIN backlog' : i \in DOMAIN backlog /\ backlog'[i] = backlog[i]
  OBVIOUS
<1>4. MessagesAreFresh'
  <2>1. (\A i \in DOMAIN backlog : backlog[i] # Closed => Unwritten(backlog[i]))'
    <3>1. \A i \in DOMAIN backlog' : backlog'[i] # Closed =>
            backlog'[i] \in Message /\ Unwritten(backlog'[i])
      BY <1>0, <1>3 DEF MessagesAreFresh
    <3> QED BY <1>2, <3>1 DEF Unwritten, SenderWaits
  <2>2. lpc \in {"request", "write"} /\ msg # Closed => Unwritten(msg)'
    BY <1>0, <1>2 DEF MessagesAreFresh, Unwritten, SenderWaits
  <2>3. AtMessage /\ msg.attempt = attempt[msg.task] => SenderWaits(msg)'
    BY <1>0, <1>2 DEF MessagesAreFresh, AtMessage, SenderWaits
  <2> QED BY <1>0, <2>1, <2>2, <2>3 DEF MessagesAreFresh, AtMessage
<1>5. MessagesAreSingle'
  BY <1>0, <1>3 DEF MessagesAreSingle, AtMessage
<1>6. FoundIsRegistered'
  BY <1>0, <1>m, <1>1 DEF FoundIsRegistered
<1>7. ChildrenAreRegistered'
  <2>1. ASSUME NEW t \in Tasks PROVE ChildRegistered(t)'
    <3>1. ChildRegistered(t)
      BY <1>0 DEF ChildrenAreRegistered
    <3> QED BY <1>1, <3>1 DEF ChildRegistered, Alive
  <2> QED BY <1>0, <1>1, <2>1 DEF ChildrenAreRegistered
<1>8. CloseIsSound'
  BY <1>0, <1>3 DEF CloseIsSound
<1>9. SuccessIsReal'
  BY <1>0 DEF SuccessIsReal
<1> QED BY <1>4, <1>5, <1>6, <1>7, <1>8, <1>9 DEF Kept

(* and by closing the executor and the death of a child.                   *)
LEMMA CloseKeeps ==
  ASSUME IInv, CloseStep \/ \E t \in Tasks : Die(t)
  PROVE  Kept'
<1>0. /\ TypeOK /\ MessagesAreFresh /\ MessagesAreSingle /\ FoundIsRegistered
      /\ ChildrenAreRegistered /\ CloseIsSound /\ SuccessIsReal
      /\ backlog \in Seq(Message \cup {Closed})
  BY DEF IInv, TypeOK
<1>1. CASE \E t \in Tasks : Die(t)
  BY <1>1, KillKeeps DEF Die, listener
<1>2. CASE CloseSocket
  BY <1>2, KillKeeps DEF CloseSocket, listener
<1>3. CASE TerminateAll
  BY <1>0, <1>3, KillKeeps DEF TerminateAll, ToKill, TypeOK, listener
<1>4. CASE SendClosed
  <2>1. /\ DOMAIN backlog' = DOMAIN backlog \cup {Len(backlog) + 1}
        /\ Len(backlog) + 1 \notin DOMAIN backlog
        /\ \A i \in DOMAIN backlog : backlog'[i] = backlog[i]
        /\ backlog'[Len(backlog) + 1] = Closed
    <3>1. backlog' = Append(backlog, Closed) /\ Closed \in Message \cup {Closed}
      BY <1>4 DEF SendClosed
    <3> QED BY <1>0, <3>1, Joined
  <2>2. /\ caller = "closing" /\ caller' = "awaiting"
        /\ UNCHANGED <<row, attempt, registered, registering, child, lpc, msg,
                       answer, stopped, completed>>
    BY <1>4 DEF SendClosed, listener
  <2>3. \A i \in DOMAIN backlog : backlog[i] # Closed
    BY <1>0, <2>2 DEF CloseIsSound
  <2>4. MessagesAreFresh'
    BY <1>0, <2>1, <2>2 DEF MessagesAreFresh, AtMessage, Unwritten, SenderWaits
  <2>5. MessagesAreSingle'
    BY <1>0, <2>1, <2>2, <2>3 DEF MessagesAreSingle, AtMessage
  <2>6. CloseIsSound'
    BY <1>0, <2>1, <2>2 DEF CloseIsSound
  <2>7. FoundIsRegistered' /\ ChildrenAreRegistered' /\ SuccessIsReal'
    BY <1>0, <2>2 DEF FoundIsRegistered, ChildrenAreRegistered, ChildRegistered,
       SuccessIsReal
  <2> QED BY <2>4, <2>5, <2>6, <2>7 DEF Kept
<1> QED BY <1>1, <1>2, <1>3, <1>4 DEF CloseStep

(* The listener takes a message from the backlog.                          *)
LEMMA AcceptKeeps ==
  ASSUME IInv, Accept
  PROVE  Kept'
<1>0. /\ TypeOK /\ MessagesAreFresh /\ MessagesAreSingle /\ FoundIsRegistered
      /\ ChildrenAreRegistered /\ CloseIsSound /\ SuccessIsReal
      /\ backlog \in Seq(Message \cup {Closed})
  BY DEF IInv, TypeOK
<1>m. \A m \in Message : m.attempt \in Nat
  BY DEF Message
<1>1. /\ 1 \in DOMAIN backlog /\ msg' = backlog[1] /\ msg' \in Message \cup {Closed}
      /\ \A i \in DOMAIN backlog' :
           i + 1 \in DOMAIN backlog /\ i \in Nat \ {0} /\ backlog'[i] = backlog[i + 1]
      /\ lpc = "accept" /\ lpc' = "request" /\ answer' = "ok"
      /\ UNCHANGED <<row, attempt, registered, registering, child, open, stopped,
                     caller, completed>>
  BY <1>0, Accepted DEF Accept
<1>2. \A i \in DOMAIN backlog' : i + 1 # 1 /\ i \in Nat
  BY <1>1
<1>3. MessagesAreFresh'
  <2>1. (\A i \in DOMAIN backlog : backlog[i] # Closed => Unwritten(backlog[i]))'
    BY <1>0, <1>1 DEF MessagesAreFresh, Unwritten, SenderWaits
  <2>2. msg' # Closed => msg' \in Message /\ Unwritten(msg)'
    BY <1>0, <1>1 DEF MessagesAreFresh, Unwritten, SenderWaits
  <2>3. msg' # Closed => msg'.attempt \in Nat
    BY <1>m, <2>2
  <2> QED BY <1>1, <2>1, <2>2, <2>3 DEF MessagesAreFresh, AtMessage, Unwritten
<1>4. MessagesAreSingle'
  <2>1. \A i, j \in DOMAIN backlog' : i # j =>
          i + 1 # j + 1 /\ i + 1 \in DOMAIN backlog /\ j + 1 \in DOMAIN backlog
    BY <1>1
  <2>2. \A i, j \in DOMAIN backlog' : i # j =>
          /\ backlog'[i] # Closed \/ backlog'[j] # Closed
          /\ backlog'[i] # Closed /\ backlog'[j] # Closed =>
               backlog'[i].task # backlog'[j].task
    BY <1>0, <1>1, <2>1 DEF MessagesAreSingle
  <2>3. msg' # Closed => \A i \in DOMAIN backlog' :
          backlog'[i] # Closed => backlog'[i].task # msg'.task
    BY <1>0, <1>1, <1>2 DEF MessagesAreSingle
  <2> QED BY <2>2, <2>3 DEF MessagesAreSingle, AtMessage
<1>5. CloseIsSound'
  <2>1. msg' = Closed => \A i \in DOMAIN backlog' : backlog'[i] # Closed
    BY <1>0, <1>1, <1>2 DEF MessagesAreSingle
  <2> QED BY <1>0, <1>1, <2>1 DEF CloseIsSound
<1>6. FoundIsRegistered' /\ ChildrenAreRegistered' /\ SuccessIsReal'
  BY <1>0, <1>1 DEF FoundIsRegistered, ChildrenAreRegistered, ChildRegistered,
     SuccessIsReal
<1> QED BY <1>3, <1>4, <1>5, <1>6 DEF Kept

(* The listener moves on with the message it has.                          *)
LEMMA HandleKeeps ==
  ASSUME IInv, Check \/ RequestClosed \/ RequestStarted \/ RequestEnded
  PROVE  Kept'
<1>0. /\ TypeOK /\ MessagesAreFresh /\ MessagesAreSingle /\ FoundIsRegistered
      /\ ChildrenAreRegistered /\ CloseIsSound /\ SuccessIsReal
      /\ msg \in Message \cup {Closed}
  BY DEF IInv, TypeOK
<1>1. CASE Check \/ RequestClosed
  BY <1>0, <1>1 DEF Check, RequestClosed, Kept, MessagesAreFresh, AtMessage,
     Unwritten, SenderWaits, MessagesAreSingle, FoundIsRegistered,
     ChildrenAreRegistered, ChildRegistered, CloseIsSound, SuccessIsReal
<1>2. CASE RequestStarted
  <2>1. /\ msg # Closed /\ msg.type = "started" /\ lpc = "request"
        /\ \/ lpc' = "write" /\ msg.task \in registered /\ UNCHANGED answer
           \/ lpc' = "reply" /\ answer' = "exception"
        /\ UNCHANGED <<row, attempt, registered, registering, child, backlog,
                       open, msg, stopped, caller, completed>>
    BY <1>2, MessageKinds DEF RequestStarted, Closed
  <2> QED BY <1>0, <2>1
          DEF Kept, MessagesAreFresh, AtMessage, Unwritten, SenderWaits,
              MessagesAreSingle, FoundIsRegistered, ChildrenAreRegistered,
              ChildRegistered, CloseIsSound, SuccessIsReal
<1>3. CASE RequestEnded
  <2>1. /\ msg # Closed /\ msg \in Message /\ msg.type \in {"succeeded", "failed"}
        /\ msg.task \in Tasks
        /\ lpc = "request"
        /\ \/ /\ lpc' = "write" /\ registered' = registered \ {msg.task}
              /\ msg.task \in registered
           \/ lpc' = "reply" /\ UNCHANGED registered
        /\ UNCHANGED <<row, attempt, registering, child, backlog, open, msg,
                       answer, stopped, caller, completed>>
    BY <1>0, <1>3, MessageKinds DEF RequestEnded
  <2>2. Unwritten(msg)
    BY <1>0, <2>1 DEF MessagesAreFresh
  <2>3. child[msg.task] \notin {"booting", "starting", "body"}
    BY <2>1, <2>2 DEF Unwritten, SenderWaits
  <2>4. MessagesAreFresh' /\ MessagesAreSingle'
    BY <1>0, <2>1, <2>2 DEF MessagesAreFresh, AtMessage, Unwritten, SenderWaits,
       MessagesAreSingle
  <2>5. FoundIsRegistered'
    BY <1>0, <2>1 DEF FoundIsRegistered, ChildrenAreRegistered
  <2>6. ChildrenAreRegistered'
    BY <1>0, <2>1, <2>3 DEF ChildrenAreRegistered, ChildRegistered
  <2>7. CloseIsSound' /\ SuccessIsReal'
    BY <1>0, <2>1 DEF CloseIsSound, SuccessIsReal
  <2> QED BY <2>4, <2>5, <2>6, <2>7 DEF Kept
<1> QED BY <1>1, <1>2, <1>3

(* The row is written, or refuses to be.                                   *)
LEMMA WriteKeeps ==
  ASSUME IInv, TypeOK', Write \/ WriteRaises
  PROVE  Kept'
<1>0. /\ TypeOK /\ MessagesAreFresh /\ MessagesAreSingle /\ FoundIsRegistered
      /\ ChildrenAreRegistered /\ CloseIsSound /\ SuccessIsReal
      /\ \A i \in DOMAIN backlog : backlog[i] \in Message \cup {Closed}
      /\ msg \in Message \cup {Closed}
  BY DEF IInv, TypeOK
<1>1. /\ msg # Closed /\ msg \in Message /\ msg.type \in Requests
      /\ msg.task \in Tasks /\ msg.attempt \in Nat
      /\ lpc = "write" /\ lpc' = "reply"
      /\ UNCHANGED <<attempt, registered, registering, child, backlog, open, msg,
                     stopped, caller, completed>>
  <2>1. lpc = "write"
    BY DEF Write, WriteRaises
  <2> QED BY <1>0, <2>1, MessageKinds DEF FoundIsRegistered, Write, WriteRaises
<1>2. /\ Unwritten(msg) /\ AtMessage
      /\ msg.type # "started" => msg.task \notin registered \cup registering
  BY <1>0, <1>1 DEF MessagesAreFresh, FoundIsRegistered, AtMessage
<1>3. CloseIsSound'
  BY <1>0, <1>1 DEF CloseIsSound
<1>4. MessagesAreSingle'
  BY <1>0, <1>1, <1>2 DEF MessagesAreSingle, AtMessage, Unwritten
<1>5. CASE WriteRaises
  <2>1. UNCHANGED row /\ answer' = "exception"
    BY <1>5 DEF WriteRaises
  <2> QED BY <1>0, <1>1, <1>2, <1>3, <1>4, <2>1
          DEF Kept, MessagesAreFresh, AtMessage, Unwritten, SenderWaits,
              FoundIsRegistered, ChildrenAreRegistered, ChildRegistered,
              SuccessIsReal
<1>6. CASE Write
  <2>1. /\ \A t \in Tasks \ {msg.task} : row'[t] = row[t]
        /\ row'[msg.task] = Written(msg.type, attempt[msg.task])
        /\ UNCHANGED answer
    BY <1>0, <1>1, <1>6 DEF Write, TypeOK
  <2>2. /\ msg.type = "started" => row'[msg.task] = "started"
        /\ msg.type = "succeeded" => row'[msg.task] = "success"
        /\ msg.type = "failed" => row'[msg.task] \in {"retrying", "failed"}
    BY <2>1 DEF Written
  <2>3. \A i \in DOMAIN backlog : backlog[i] # Closed =>
          /\ backlog[i].task # msg.task /\ backlog[i].task \in Tasks
          /\ Unwritten(backlog[i])
    BY <1>0, <1>1, <1>2, MessageKinds
       DEF MessagesAreSingle, MessagesAreFresh, Unwritten
  <2>4. (\A i \in DOMAIN backlog : backlog[i] # Closed => Unwritten(backlog[i]))'
    BY <1>1, <2>1, <2>3 DEF Unwritten, SenderWaits
  <2>a. answer = "ok"
    BY <1>0, <1>1 DEF FoundIsRegistered
  <2>5. MessagesAreFresh'
    BY <1>0, <1>1, <1>2, <2>1, <2>4, <2>a
       DEF MessagesAreFresh, AtMessage, Unwritten, SenderWaits
  <2>6. FoundIsRegistered'
    BY <1>0, <1>1, <2>1 DEF FoundIsRegistered
  <2>7. ChildrenAreRegistered'
    BY <1>0, <1>1, <1>2, <2>1, <2>2
       DEF ChildrenAreRegistered, ChildRegistered, Unwritten, SenderWaits, Requests
  <2>8. SuccessIsReal'
    BY <1>0, <1>1, <1>2, <2>1, <2>2 DEF SuccessIsReal, Unwritten, Requests
  <2> QED BY <1>3, <1>4, <2>5, <2>6, <2>7, <2>8 DEF Kept
<1> QED BY <1>5, <1>6

(* The answer, and what its child makes of it.                             *)
LEMMA ReplyKeeps ==
  ASSUME IInv, ReplyClosed \/ Reply
  PROVE  Kept'
<1>0. /\ TypeOK /\ MessagesAreFresh /\ MessagesAreSingle /\ FoundIsRegistered
      /\ ChildrenAreRegistered /\ CloseIsSound /\ SuccessIsReal
      /\ \A i \in DOMAIN backlog : backlog[i] \in Message \cup {Closed}
      /\ msg \in Message \cup {Closed}
  BY DEF IInv, TypeOK
<1>1. CASE ReplyClosed
  <2>1. /\ caller = "awaiting" /\ \A i \in DOMAIN backlog : backlog[i] # Closed
        /\ registering = {}
    BY <1>0, <1>1 DEF ReplyClosed, CloseIsSound
  <2> QED BY <1>0, <1>1, <2>1
          DEF ReplyClosed, Kept, MessagesAreFresh, AtMessage, Unwritten,
              SenderWaits, MessagesAreSingle, FoundIsRegistered,
              ChildrenAreRegistered, ChildRegistered, CloseIsSound, SuccessIsReal
<1>2. CASE Reply
  <2> DEFINE t == msg.task
  <2>1. /\ msg # Closed /\ msg \in Message /\ msg.type \in Requests /\ t \in Tasks
        /\ lpc = "reply" /\ lpc' = "check"
        /\ UNCHANGED <<row, attempt, registered, registering, open, msg, answer,
                       stopped, caller, completed>>
    BY <1>0, <1>2, MessageKinds DEF Reply
  <2>2. CASE UNCHANGED <<child, backlog>>
    BY <1>0, <2>1, <2>2 DEF Kept, MessagesAreFresh, AtMessage, Unwritten,
       SenderWaits, MessagesAreSingle, FoundIsRegistered, ChildrenAreRegistered,
       ChildRegistered, CloseIsSound, SuccessIsReal
  <2>3. CASE Waits(t)
    <3>1. /\ msg.attempt = attempt[t] /\ AtMessage
          /\ \A i \in DOMAIN backlog : backlog[i] # Closed => backlog[i].task # t
          /\ child[t] \in {"starting", "succeeding", "failing"}
          /\ child[t] = "starting" <=> msg.type = "started"
      BY <1>0, <2>1, <2>3 DEF MessagesAreSingle, Waits, AtMessage
    <3>2. CASE answer = "exception" /\ Send(t, "failed", "failing")
      <4>1. row[t] \in {"sent", "started"}
        BY <1>0, <2>1, <3>1, <3>2 DEF MessagesAreFresh
      <4>2. Quiet(t)
        BY <2>1, <3>1 DEF Quiet
      <4> QED BY <2>1, <3>1, <3>2, <4>1, <4>2, SendKeeps DEF Requests, Alive
    <3>3. CASE /\ UNCHANGED backlog
               /\ child' = [child EXCEPT ![t] =
                               IF msg.type = "started" THEN "body" ELSE "gone"]
               /\ answer = "ok" \/ msg.type # "started"
      <4>1. /\ \A u \in Tasks \ {t} : child'[u] = child[u]
            /\ child'[t] = IF msg.type = "started" THEN "body" ELSE "gone"
        BY <1>0, <2>1, <3>3 DEF TypeOK
      <4>2. (\A i \in DOMAIN backlog : backlog[i] # Closed => Unwritten(backlog[i]))'
        <5>1. \A i \in DOMAIN backlog : backlog[i] # Closed =>
                Unwritten(backlog[i]) /\ backlog[i].task \in Tasks \ {t}
          BY <1>0, <3>1, MessageKinds DEF MessagesAreFresh
        <5> QED BY <2>1, <3>3, <4>1, <5>1 DEF Unwritten, SenderWaits
      <4>3. MessagesAreFresh' /\ MessagesAreSingle' /\ CloseIsSound'
        BY <1>0, <2>1, <3>3, <4>2 DEF MessagesAreFresh, MessagesAreSingle,
           CloseIsSound, AtMessage
      <4>4. FoundIsRegistered' /\ SuccessIsReal'
        BY <1>0, <2>1 DEF FoundIsRegistered, SuccessIsReal
      <4>5. msg.type = "started" => t \in registered
        BY <1>0, <2>1, <3>1, <3>3 DEF FoundIsRegistered
      <4>6. ChildrenAreRegistered'
        BY <1>0, <2>1, <3>1, <4>1, <4>5
           DEF ChildrenAreRegistered, ChildRegistered, Alive
      <4> QED BY <4>3, <4>4, <4>6 DEF Kept
    <3> QED BY <1>0, <1>2, <2>3, <3>2, <3>3 DEF Reply, TypeOK
  <2> QED BY <1>2, <2>2, <2>3 DEF Reply
<1> QED BY <1>1, <1>2

-----------------------------------------------------------------------------
(* Every step keeps the invariant.                                         *)
LEMMA NextKeepsInvariant == IInv /\ [Next]_vars => IInv'
<1> SUFFICES ASSUME IInv, [Next]_vars PROVE IInv'
  OBVIOUS
<1>1. TypeOK'
  BY TypeCorrectNext
<1>2. Kept'
  <2>1. CASE UNCHANGED vars
    BY <2>1 DEF vars, listener, IInv, Kept, MessagesAreFresh, AtMessage,
       Unwritten, SenderWaits, MessagesAreSingle, FoundIsRegistered,
       ChildrenAreRegistered, ChildRegistered, CloseIsSound, SuccessIsReal
  <2>2. CASE Close
    BY <1>1, <2>2, CloseCommandKeeps
  <2> QED
    BY <1>1, <2>1, <2>2, CallerKeeps, ChildKeeps, CloseKeeps, AcceptKeeps,
       HandleKeeps, WriteKeeps, ReplyKeeps DEF Next, Listen
<1> QED BY <1>1, <1>2 DEF Kept, IInv

(* The inductive invariant holds of every use of the executor.             *)
THEOREM Invariance == Spec => []IInv
  BY InitInvariant, NextKeepsInvariant, PTL DEF Spec

(* Every variable keeps its type in every reachable state.                 *)
THEOREM TypeCorrect == Spec => []TypeOK
  BY Invariance, PTL DEF IInv

(* A row says success only when the function of the last attempt has       *)
(* returned: no message of another attempt or task is taken for its own.   *)
THEOREM SuccessAlwaysReal == Spec => []SuccessIsReal
  BY Invariance, PTL DEF IInv

(* What runs, or may still come to run, can be terminated.                 *)
THEOREM RunningAlwaysReachable == Spec => []RunningIsReachable
<1>1. IInv => RunningIsReachable
  BY DEF IInv, ChildrenAreRegistered, ChildRegistered, RunningIsReachable
<1> QED BY <1>1, Invariance, PTL

(* When close has returned no function is running or can start.            *)
THEOREM ClosedAlwaysQuiet == Spec => []ClosedIsQuiet
<1>1. IInv => ClosedIsQuiet
  BY DEF IInv, ChildrenAreRegistered, ChildRegistered, CloseIsSound, ClosedIsQuiet
<1> QED BY <1>1, Invariance, PTL
=============================================================================
