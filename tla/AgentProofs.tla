----------------------------- MODULE AgentProofs ----------------------------
(***************************************************************************)
(* Proofs about Agent, for any clients, messages and callbacks.            *)
(***************************************************************************)
EXTENDS Agent, TLAPS

(* While a message is being handled its sender is owed an answer, and at no*)
(* other time; the items are there from parsing to the answer, and the     *)
(* argument structs while the arguments are taken and used.                *)
Owing == {"nojson", "handle", "unknown", "args", "callback"}

Requests == [from : Clients, text : Messages]
InboxInv == inbox \in Seq(Requests)

PhaseInv ==
  /\ phase \in Owing \cup {"setup", "receive", "closing", "gone", "undefined"}
  /\ phase \in Owing => owed \in Clients
  /\ phase \in {"setup", "receive"} => owed = None
  /\ phase \in {"setup", "receive", "nojson"} => items = FALSE
  /\ phase \in {"setup", "receive", "nojson", "handle", "unknown"} => args = <<>>

IInv == InboxInv /\ PhaseInv

LEMMA InitInv == Init => IInv
  BY DEF Init, IInv, InboxInv, PhaseInv, Owing

LEMMA InboxStep == InboxInv /\ [Next]_vars => InboxInv'
<1> SUFFICES ASSUME InboxInv, [Next]_vars PROVE InboxInv'
  OBVIOUS
<1>1. CASE Receive
  BY <1>1 DEF Receive, InboxInv
<1>2. ASSUME NEW c \in Clients, Request(c) PROVE InboxInv'
  BY <1>2 DEF Request, InboxInv, Requests
<1>3. CASE UNCHANGED inbox
  BY <1>3 DEF InboxInv
<1> QED
  BY <1>1, <1>2, <1>3 DEF Next, AgentStep, vars, RegisterHandler, Start, NonJson,
    FindHandler, UnknownEvent, TakeArg, Overrun, BadArg, CallBack, Stumble, ReadArg,
    GiveUp, Close, Acknowledge, Lose, Deliver

(* An answer that is owed can be sent.                                     *)
LEMMA OwedIsSent ==
  ASSUME PhaseInv, phase \in Owing, NEW kind, NEW next, SendMsg(kind, next)
  PROVE  phase' = next /\ owed' = None
  BY AgentAssumption DEF PhaseInv, SendMsg

LEMMA PhaseStep == IInv /\ [Next]_vars => PhaseInv'
<1> SUFFICES ASSUME IInv, [Next]_vars PROVE PhaseInv'
  OBVIOUS
<1> USE DEF IInv, PhaseInv, Owing
<1>1. CASE RegisterHandler
  BY <1>1 DEF RegisterHandler, Register, Exit
<1>2. CASE Start
  <2>1. phase' \in {"receive", "gone"}
    BY <1>2 DEF Start, Exit
  <2> QED
    BY <1>2, <2>1 DEF Start
<1>3. CASE Receive
  <2>1. Head(inbox) \in Requests
    <3>1. inbox # <<>> /\ inbox \in Seq(Requests)
      BY <1>3 DEF Receive, InboxInv
    <3> HIDE DEF IInv, PhaseInv
    <3> QED
      BY <3>1
  <2>2. owed' \in Clients
    BY <1>3, <2>1 DEF Receive, Requests
  <2> QED
    BY <1>3, <2>2 DEF Receive
<1>4. CASE NonJson
  <2>1. phase' = "receive" /\ owed' = None
    BY <1>4, OwedIsSent DEF NonJson
  <2> QED
    BY <1>4, <2>1 DEF NonJson
<1>5. CASE FindHandler
  BY <1>5 DEF FindHandler, Exit
<1>6. CASE UnknownEvent
  <2>1. phase' = "receive" /\ owed' = None
    BY <1>6, OwedIsSent DEF UnknownEvent, Return
  <2> QED
    BY <1>6, <2>1 DEF UnknownEvent, Return
<1>7. CASE TakeArg \/ Overrun
  BY <1>7 DEF TakeArg, Overrun, NextIsValid
<1>8. CASE BadArg
  <2>1. phase' = "receive" /\ owed' = None
    BY <1>8, OwedIsSent DEF BadArg, Return
  <2> QED
    BY <1>8, <2>1 DEF BadArg, Return
<1>9. CASE CallBack
  BY <1>9 DEF CallBack
<1>10. CASE ReadArg \/ Stumble
  BY <1>10 DEF ReadArg, Stumble, Reading
<1>11. CASE GiveUp
  <2>1. phase' = "closing" /\ owed' = None
    BY <1>11, OwedIsSent DEF GiveUp
  <2> QED
    BY <1>11, <2>1 DEF GiveUp
<1>12. CASE Close
  BY <1>12 DEF Close, Exit
<1>13. CASE Acknowledge
  <2>1. phase' = "receive" /\ owed' = None
    BY <1>13, OwedIsSent DEF Acknowledge, Return
  <2> QED
    BY <1>13, <2>1 DEF Acknowledge, Return
<1>14. CASE UNCHANGED <<phase, owed, items, args>>
  BY <1>14
<1> QED
  BY <1>1, <1>2, <1>3, <1>4, <1>5, <1>6, <1>7, <1>8, <1>9, <1>10, <1>11, <1>12,
     <1>13, <1>14
  DEF Next, AgentStep, vars, agentVars, Lose, Request, Deliver

(* No assert on zmq_send fails, whatever the clients send and the callbacks*)
(* read, and neither the items nor the argument structs of a message       *)
(* outlive its answer.                                                     *)
THEOREM AgentReadyForNext == Spec => []ReadyForNext
<1>1. IInv => ReadyForNext
  BY DEF IInv, PhaseInv, Owing, ReadyForNext
<1>2. IInv /\ [Next]_vars => IInv'
  BY InboxStep, PhaseStep DEF IInv
<1> QED
  BY InitInv, <1>1, <1>2, PTL DEF Spec

-----------------------------------------------------------------------------
(* A client that waits has one request or answer under way: in the inbox,  *)
(* at the agent, or in the outbox.  An answer in the outbox is the right   *)
(* one, and nobody has one before the handlers are complete.               *)
ClientInv ==
  client \in [Clients -> [sent : Int, waits : BOOLEAN, last : Seq(Pieces),
                          got : {"ack", "nack", None}]]

InboxAsked ==
  \A i \in 1 .. Len(inbox) :
    /\ client[inbox[i].from].waits /\ client[inbox[i].from].last = inbox[i].text
    /\ inbox[i].from # owed
    /\ \A r \in outbox : r.to # inbox[i].from
    /\ \A j \in 1 .. Len(inbox) : inbox[j].from = inbox[i].from => j = i

OwedAsked ==
  owed # None =>
    /\ owed \in Clients /\ client[owed].waits /\ client[owed].last = text
    /\ Unfinished(text) \/ msg = Parse(text)
    /\ \A r \in outbox : r.to # owed

OutboxAnswers ==
  \A r \in outbox :
    /\ r.to \in Clients /\ client[r.to].waits /\ r.of = client[r.to].last
    /\ r.kind \in {"ack", "nack"} /\ Right(r.kind, r.of)
    /\ \A q \in outbox : q.to = r.to => q = r

GotAnswers ==
  \A c \in Clients :
    client[c].got # None => Right(client[c].got, client[c].last)

SetupInv == phase = "setup" => outbox = {} /\ \A c \in Clients : client[c].got = None

FlightInv ==
  ClientInv /\ InboxAsked /\ OwedAsked /\ OutboxAnswers /\ GotAnswers /\ SetupInv

(* What is known of the message while it is handled.                       *)
Taken ==
  /\ msg.json /\ msg.args \in Seq(Pieces) /\ msg.evt \in ToSet(handlers)
  /\ args \in Seq(Pieces) /\ Len(args) <= Len(msg.args)
  /\ \A i \in 1 .. Len(args) :
       args[i] = msg.args[i] /\ args[i].type \in {"number", "string"}

HandledInv ==
  /\ buf \in [1 .. RxSize -> Pieces]
  /\ phase = "nojson" => ~msg.json
  /\ phase = "handle" => msg.json /\ msg.args \in Seq(Pieces)
  /\ phase = "unknown" => msg.evt \notin ToSet(handlers)
  /\ phase \in {"args", "callback"} => Taken
  /\ phase = "callback" =>
       /\ Len(args) = Len(msg.args) /\ read \in Nat
       /\ msg.evt # Monitor =>
            read <= Len(Wanted) /\ \A i \in 1 .. read : Found(args, Wanted[i])

AInv == IInv /\ FlightInv /\ HandledInv

LEMMA AgentInit == Init => AInv
<1> SUFFICES ASSUME Init PROVE FlightInv /\ HandledInv
  BY InitInv DEF AInv
<1>1. buf \in [1 .. RxSize -> Pieces]
  BY AgentAssumption DEF Init
<1>2. client \in [Clients -> [sent : Int, waits : BOOLEAN, last : Seq(Pieces),
                             got : {"ack", "nack", None}]]
  BY DEF Init
<1> QED
  BY <1>1, <1>2 DEF Init, FlightInv, ClientInv, InboxAsked, OwedAsked, OutboxAnswers,
                    GotAnswers, SetupInv, HandledInv

(* A text that is not cut in the middle of an object is read the same,     *)
(* whatever follows it.                                                    *)
LEMMA OneEnd ==
  ASSUME NEW s, NEW n \in Nat, NEW m \in Nat, 2 <= n, 2 <= m, IsObject(s, n), IsObject(s, m)
  PROVE  n = m
<1>1. ASSUME NEW i \in Nat, NEW j \in Nat, 2 <= i, i < j, IsObject(s, i), IsObject(s, j)
      PROVE  FALSE
  <2>1. i \in 1 .. j - 1 /\ i # 1
    BY <1>1
  <2>2. s[i].kind = "arg" /\ s[i].kind = "end"
    BY <1>1, <2>1 DEF IsObject, Opens
  <2> QED
    BY <2>2
<1> QED
  BY <1>1

LEMMA ParsedPieces ==
  ASSUME NEW s \in Seq(Pieces)
  PROVE  Parse(s).json \in BOOLEAN /\ (Parse(s).json => Parse(s).args \in Seq(Pieces))
<1>1. CASE ~\E n \in 2 .. Len(s) : IsObject(s, n)
  BY <1>1 DEF Parse, NoMessage
<1>2. CASE \E n \in 2 .. Len(s) : IsObject(s, n)
  <2> DEFINE n == CHOOSE k \in 2 .. Len(s) : IsObject(s, k)
             list == [i \in 1 .. n - 2 |-> s[i + 1]]
  <2>1. n \in 2 .. Len(s) /\ Len(s) \in Nat
    BY <1>2
  <2>2. Parse(s).json = TRUE /\ Parse(s).args = list
    BY <1>2 DEF Parse
  <2> HIDE DEF n
  <2>3. \A i \in 1 .. n - 2 : s[i + 1] \in Pieces
    BY <2>1
  <2>4. list \in [1 .. n - 2 -> Pieces] /\ n - 2 \in Nat
    BY <2>1, <2>3
  <2>5. list \in Seq(Pieces)
    <3> HIDE DEF list
    <3> QED
      BY <2>4
  <2> QED
    BY <2>2, <2>5
<1> QED
  BY <1>1, <1>2

LEMMA ParsedOwn ==
  ASSUME NEW t \in Seq(Pieces), NEW s \in Seq(Pieces), RxSize <= Len(s),
         \A i \in 1 .. Copied(t) : s[i] = t[i], ~Unfinished(t)
  PROVE  Parse(s) = Parse(t)
<1>1. /\ Copied(t) \in Nat /\ Copied(t) <= Len(t) /\ Copied(t) <= Len(s)
      /\ Len(s) \in Nat /\ Len(t) \in Nat
  BY AgentAssumption DEF Copied
<1>2. PICK k \in 1 .. Copied(t) : t[k].kind # IF k = 1 THEN "evt" ELSE "arg"
  BY DEF Unfinished, Opens
<1>3. ASSUME NEW n \in Nat, 2 <= n, Opens(t, n - 1) \/ Opens(s, n - 1)
      PROVE  n <= Copied(t)
  <2>1. s[k] = t[k] /\ k \in Nat /\ 1 <= k
    BY <1>1, <1>2
  <2>2. k \notin 1 .. n - 1
    BY <1>2, <1>3, <2>1 DEF Opens
  <2> QED
    BY <1>1, <1>2, <1>3, <2>1, <2>2
<1>4. ASSUME NEW n \in Nat, 2 <= n, n <= Copied(t)
      PROVE  IsObject(t, n) <=> IsObject(s, n)
  <2>1. s[n] = t[n] /\ \A i \in 1 .. n - 1 : s[i] = t[i]
    BY <1>1, <1>4
  <2> QED
    BY <2>1 DEF IsObject, Opens
<1>5. ASSUME NEW n \in Nat, 2 <= n
      PROVE  n \in 2 .. Len(t) /\ IsObject(t, n) <=> n \in 2 .. Len(s) /\ IsObject(s, n)
  <2>1. CASE n <= Copied(t)
    BY <1>1, <1>4, <1>5, <2>1
  <2>2. CASE ~(n <= Copied(t))
    BY <1>3, <1>5, <2>2 DEF IsObject
  <2> QED
    BY <2>1, <2>2
<1>6. CASE ~\E n \in 2 .. Len(t) : IsObject(t, n)
  <2>1. ~\E n \in 2 .. Len(s) : IsObject(s, n)
    BY <1>1, <1>5, <1>6
  <2> QED
    BY <1>6, <2>1 DEF Parse
<1>7. CASE \E n \in 2 .. Len(t) : IsObject(t, n)
  <2> DEFINE n == CHOOSE i \in 2 .. Len(t) : IsObject(t, i)
             m == CHOOSE i \in 2 .. Len(s) : IsObject(s, i)
  <2>1. \E i \in 2 .. Len(s) : IsObject(s, i)
    BY <1>1, <1>5, <1>7
  <2>2. n \in 2 .. Len(t) /\ IsObject(t, n)
    BY <1>7
  <2>3. m \in 2 .. Len(s) /\ IsObject(s, m)
    BY <2>1
  <2>4. Parse(t) = [json |-> TRUE, evt |-> t[1].name, args |-> [i \in 1 .. n - 2 |-> t[i + 1]]]
    BY <1>7 DEF Parse
  <2>5. Parse(s) = [json |-> TRUE, evt |-> s[1].name, args |-> [i \in 1 .. m - 2 |-> s[i + 1]]]
    BY <2>1 DEF Parse
  <2> HIDE DEF n, m
  <2>6. m \in Nat /\ 2 <= m /\ n \in Nat /\ 2 <= n
    BY <1>1, <2>2, <2>3
  <2>7. IsObject(t, m)
    BY <1>5, <2>3, <2>6
  <2>8. m = n
    BY <2>2, <2>6, <2>7, OneEnd
  <2>9. n <= Copied(t)
    BY <1>3, <2>2, <2>6 DEF IsObject
  <2>10. s[1] = t[1] /\ \A i \in 1 .. n - 2 : s[i + 1] = t[i + 1]
    BY <1>1, <2>6, <2>9
  <2> QED
    BY <2>4, <2>5, <2>8, <2>10
<1> QED
  BY <1>6, <1>7

(* What Receive makes of the text that it is sent.                         *)
LEMMA ReceiveReads ==
  ASSUME AInv, Receive
  PROVE  /\ text' = inbox[1].text /\ inbox[1] \in Requests
         /\ buf' \in [1 .. RxSize -> Pieces]
         /\ msg'.json \in BOOLEAN /\ (msg'.json => msg'.args \in Seq(Pieces))
         /\ Unfinished(text') \/ msg' = Parse(text')
<1>1. inbox # <<>> /\ inbox \in Seq(Requests) /\ buf \in [1 .. RxSize -> Pieces]
  BY DEF Receive, AInv, IInv, InboxInv, HandledInv
<1>2. inbox[1] \in Requests /\ Head(inbox) = inbox[1]
  BY <1>1
<1>3. text' = inbox[1].text /\ text' \in Seq(Pieces)
  BY <1>2, AgentAssumption DEF Receive, Requests
<1>4. buf' = [i \in 1 .. RxSize |-> IF i <= Len(text') THEN text'[i] ELSE buf[i]]
  BY DEF Receive
<1>5. ASSUME NEW i \in 1 .. RxSize
      PROVE  (IF i <= Len(text') THEN text'[i] ELSE buf[i]) \in Pieces
  BY <1>1, <1>3, <1>5, AgentAssumption
<1>6. buf' \in [1 .. RxSize -> Pieces]
  BY <1>4, <1>5
<1>7. ASSUME NEW behind \in Memory, msg' = Parse(buf' \o behind)
      PROVE  /\ msg'.json \in BOOLEAN /\ (msg'.json => msg'.args \in Seq(Pieces))
             /\ Unfinished(text') \/ msg' = Parse(text')
  <2>1. RxSize \in Nat /\ behind \in [1 .. RxSize -> Pieces]
    BY AgentAssumption
  <2>2. behind \in Seq(Pieces) /\ buf' \in Seq(Pieces) /\ Len(buf') = RxSize /\ Len(behind) = RxSize
    BY <1>6, <2>1
  <2> DEFINE s == buf' \o behind
  <2>3. s \in Seq(Pieces) /\ RxSize <= Len(s) /\ \A i \in 1 .. RxSize : s[i] = buf'[i]
    BY <2>1, <2>2
  <2>4. \A i \in 1 .. Copied(text') : s[i] = text'[i]
    <3> SUFFICES ASSUME NEW i \in 1 .. Copied(text') PROVE s[i] = text'[i]
      OBVIOUS
    <3>1. i \in 1 .. RxSize /\ i <= Len(text')
      BY <1>3, <2>1 DEF Copied
    <3>2. s[i] = buf'[i]
      BY <2>3, <3>1
    <3> HIDE DEF s
    <3> QED
      BY <1>4, <3>1, <3>2
  <2> HIDE DEF s
  <2>5. msg' = Parse(s)
    BY <1>7 DEF s
  <2>6. Unfinished(text') \/ Parse(s) = Parse(text')
    BY <1>3, <2>3, <2>4, ParsedOwn
  <2> QED
    BY <2>3, <2>5, <2>6, ParsedPieces
<1>8. ASSUME Unfinished(text'), msg' = NoMessage
      PROVE  /\ msg'.json \in BOOLEAN /\ (msg'.json => msg'.args \in Seq(Pieces))
             /\ Unfinished(text') \/ msg' = Parse(text')
  BY <1>8 DEF NoMessage
<1>9. (\E behind \in Memory : msg' = Parse(buf' \o behind))
        \/ (Unfinished(text') /\ msg' = NoMessage)
  BY DEF Receive
<1> QED
  BY <1>2, <1>3, <1>6, <1>7, <1>8, <1>9

LEMMA HandledStep == AInv /\ [Next]_vars => HandledInv'
<1> SUFFICES ASSUME AInv, [Next]_vars PROVE HandledInv'
  OBVIOUS
<1> USE DEF AInv, HandledInv
<1>1. CASE phase' \in {"setup", "receive", "closing", "gone", "assert", "undefined"} /\ UNCHANGED buf
  BY <1>1
<1>2. CASE Receive
  <2>1. /\ buf' \in [1 .. RxSize -> Pieces]
        /\ msg'.json \in BOOLEAN /\ (msg'.json => msg'.args \in Seq(Pieces))
    BY <1>2, ReceiveReads
  <2>2. phase' = IF msg'.json THEN "handle" ELSE "nojson"
    BY <1>2 DEF Receive
  <2> HIDE DEF AInv
  <2> QED
    BY <2>1, <2>2
<1>3. CASE FindHandler
  BY <1>3, AgentAssumption DEF FindHandler, Exit, Taken, IInv, PhaseInv, rxVars
<1>4. CASE TakeArg
  <2>1. Taken /\ Len(args) < Len(msg.args) /\ Next1.type \in {"number", "string"}
    BY <1>4 DEF TakeArg, NextIsValid, Taken
  <2>2. Next1 \in Pieces
    BY <2>1 DEF Next1, Taken
  <2>3. args' = Append(args, Next1) /\ UNCHANGED <<msg, handlers, buf>> /\ phase' = "args"
    BY <1>4 DEF TakeArg, NextIsValid, rxVars
  <2>4. Taken'
    <3> HIDE DEF AInv, HandledInv
    <3> QED
      BY <2>1, <2>2, <2>3 DEF Next1, Taken
  <2> QED
    BY <2>3, <2>4
<1>5. CASE CallBack
  <2>1. Taken' /\ Len(args') = Len(msg'.args) /\ read' = 0 /\ msg' = msg /\ buf' = buf
    BY <1>5 DEF CallBack, Taken, rxVars
  <2>2. msg.evt # Monitor => Len(Wanted) \in Nat
    BY <1>5, AgentAssumption DEF CallBack, Wanted, Taken, IInv, PhaseInv
  <2> QED
    BY <1>5, <2>1, <2>2 DEF CallBack, Wanted
<1>6. CASE ReadArg
  <2>1. /\ Taken' /\ args' = args /\ msg' = msg /\ read' = read + 1 /\ phase' = "callback"
        /\ buf' = buf
    BY <1>6 DEF ReadArg, Reading, Taken, rxVars
  <2> QED
    BY <1>6, <2>1 DEF ReadArg, Reading, Wanted
<1>7. CASE UNCHANGED <<phase, handlers, buf, msg, args, read>>
  BY <1>7 DEF Taken, Wanted
<1>8. CASE RegisterHandler
  BY <1>1, <1>8 DEF RegisterHandler, Register, Exit, rxVars
<1>9. CASE Start
  BY <1>1, <1>9 DEF Start, Exit, rxVars
<1>10. ASSUME NEW kind, NEW next \in {"receive", "closing"}, SendMsg(kind, next), buf' = buf
       PROVE  HandledInv'
  BY <1>1, <1>10 DEF SendMsg
<1>11. CASE NonJson \/ UnknownEvent \/ BadArg \/ GiveUp \/ Acknowledge
  BY <1>10, <1>11 DEF NonJson, UnknownEvent, BadArg, GiveUp, Acknowledge, Return, rxVars
<1>12. CASE Close \/ Overrun \/ Stumble
  BY <1>1, <1>12 DEF Close, Exit, Overrun, Stumble, rxVars
<1> QED
  BY <1>2, <1>3, <1>4, <1>5, <1>6, <1>7, <1>8, <1>9, <1>11, <1>12
  DEF Next, AgentStep, vars, agentVars, rxVars, Lose, Request, Deliver

(* A reply that is right and owed may join those on their way.             *)
LEMMA RightAnswer ==
  ASSUME AInv, NEW kind, NEW next, next # "setup", SendMsg(kind, next),
         owed # None, kind = Verdict(msg, Known),
         UNCHANGED <<handlers, rxVars, inbox, client>>
  PROVE  FlightInv'
<1> USE DEF AInv, FlightInv
<1> DEFINE reply == [to |-> owed, kind |-> kind, of |-> text]
<1>1. outbox' = outbox \cup {reply} /\ owed' = None /\ phase' # "setup"
  BY DEF SendMsg
<1>2. /\ owed \in Clients /\ client[owed].waits /\ client[owed].last = text
      /\ kind \in {"ack", "nack"} /\ Right(kind, text)
  <2>1. kind \in {"ack", "nack"}
    BY DEF Verdict
  <2>2. Right(kind, text)
    BY DEF OwedAsked, Right
  <2> QED
    BY <2>1, <2>2 DEF OwedAsked
<1>3. InboxAsked'
  <2>1. inbox \in Seq(Requests) /\ InboxAsked
    BY DEF IInv, InboxInv
  <2> HIDE DEF AInv, FlightInv
  <2> SUFFICES ASSUME NEW i \in 1 .. Len(inbox)
               PROVE  /\ client[inbox[i].from].waits
                      /\ client[inbox[i].from].last = inbox[i].text
                      /\ inbox[i].from # None
                      /\ \A r \in outbox \cup {reply} : r.to # inbox[i].from
                      /\ \A j \in 1 .. Len(inbox) : inbox[j].from = inbox[i].from => j = i
    BY <1>1 DEF InboxAsked
  <2>2. inbox[i] \in Requests
    BY <2>1
  <2>3. inbox[i].from # None
    BY <2>2, AgentAssumption DEF Requests
  <2> QED
    BY <2>1, <2>3 DEF InboxAsked
<1>4. Known' = Known
  BY DEF Known
<1>5. OutboxAnswers'
  BY <1>1, <1>2, <1>4 DEF OutboxAnswers, OwedAsked, Right
<1>6. GotAnswers' /\ ClientInv'
  BY <1>4 DEF GotAnswers, ClientInv, Right
<1>7. OwedAsked' /\ SetupInv'
  BY <1>1 DEF OwedAsked, SetupInv
<1> QED
  BY <1>3, <1>5, <1>6, <1>7

(* Steps that leave clients, answers and requests alone.                   *)
LEMMA FlightIdle ==
  ASSUME AInv, UNCHANGED <<rxVars, owed, inbox, outbox, client>>,
         UNCHANGED handlers \/ phase = "setup", phase' = "setup" => phase = "setup"
  PROVE  FlightInv'
<1> USE DEF AInv, FlightInv
<1>1. ClientInv' /\ InboxAsked' /\ OwedAsked' /\ SetupInv'
  BY DEF ClientInv, InboxAsked, OwedAsked, SetupInv, rxVars
<1>2. CASE UNCHANGED handlers
  BY <1>1, <1>2 DEF OutboxAnswers, GotAnswers, Right, Known
<1>3. CASE phase = "setup"
  BY <1>1, <1>3 DEF OutboxAnswers, GotAnswers, SetupInv
<1> QED
  BY <1>2, <1>3

(* The answers that are given are those that the message asks for.         *)
LEMMA FoundMeans ==
  ASSUME NEW list \in Seq(Pieces), NEW want
  PROVE  Found(list, want) <=>
           \E k \in 1 .. Len(list) :
             /\ list[k] = want
             /\ \A j \in 1 .. Len(list) : list[j].name = list[k].name => j >= k
  BY DEF Found

LEMMA AllTaken ==
  ASSUME AInv, phase = "callback"
  PROVE  args = msg.args /\ msg.args \in Seq(Pieces)
  BY DEF AInv, HandledInv, Taken

LEMMA NackIsRight ==
  ASSUME AInv, NonJson \/ UnknownEvent \/ BadArg \/ GiveUp
  PROVE  Verdict(msg, Known) = "nack"
<1> USE DEF AInv, HandledInv
<1>1. CASE NonJson
  BY <1>1 DEF NonJson, Verdict
<1>2. CASE UnknownEvent
  BY <1>2 DEF UnknownEvent, Verdict, Known
<1>3. CASE BadArg
  <2>1. Len(args) + 1 \in 1 .. Len(msg.args)
    BY <1>3, AgentAssumption DEF BadArg, Taken
  <2> QED
    BY <1>3, <2>1 DEF BadArg, Next1, Verdict
<1>4. CASE GiveUp /\ msg.evt = Monitor
  BY <1>4 DEF Verdict, Known
<1>5. CASE GiveUp /\ msg.evt # Monitor
  <2>1. ~Found(msg.args, Reads[msg.evt][read + 1]) /\ msg.args \in Seq(Pieces)
    BY <1>5, AllTaken DEF GiveUp, Reading, Wanted
  <2>2. read + 1 \in 1 .. Len(Reads[msg.evt])
    BY <1>5 DEF GiveUp, Reading, Wanted
  <2> HIDE DEF AInv, HandledInv
  <2> QED
    BY <2>1, <2>2, FoundMeans DEF Verdict
<1> QED
  BY <1>1, <1>2, <1>3, <1>4, <1>5

LEMMA AckIsRight ==
  ASSUME AInv, Acknowledge
  PROVE  Verdict(msg, Known) = "ack"
<1> USE DEF AInv, HandledInv
<1>1. msg.json /\ msg.evt \in Known
  BY DEF Acknowledge, Taken, Known
<1>2. \A i \in 1 .. Len(msg.args) : msg.args[i].type \in {"number", "string"}
  BY AllTaken DEF Acknowledge, Taken
<1>3. \A i \in 1 .. Len(Reads[msg.evt]) : Found(msg.args, Reads[msg.evt][i])
  BY AllTaken DEF Acknowledge, Wanted
<1>4. ASSUME NEW i \in 1 .. Len(Reads[msg.evt])
      PROVE  \E k \in 1 .. Len(msg.args) :
               /\ msg.args[k] = Reads[msg.evt][i]
               /\ \A j \in 1 .. Len(msg.args) : msg.args[j].name = msg.args[k].name => j >= k
  <2>1. Found(msg.args, Reads[msg.evt][i]) /\ msg.args \in Seq(Pieces)
    BY <1>3, AllTaken DEF Acknowledge
  <2> HIDE DEF AInv, HandledInv
  <2> QED
    BY <2>1, FoundMeans
<1> QED
  BY <1>1, <1>2, <1>4 DEF Verdict

LEMMA FlightStep == AInv /\ [Next]_vars => FlightInv'
<1> SUFFICES ASSUME AInv, [Next]_vars PROVE FlightInv'
  OBVIOUS
<1>1. CASE RegisterHandler \/ Start
  BY <1>1, FlightIdle DEF RegisterHandler, Start, Register, Exit
<1>2. CASE FindHandler \/ TakeArg \/ Overrun \/ CallBack \/ Stumble \/ ReadArg \/ Close
  BY <1>2, FlightIdle DEF FindHandler, TakeArg, NextIsValid, Overrun, CallBack, Stumble,
    ReadArg, Reading, Close, Exit
<1>3. CASE UNCHANGED vars
  BY <1>3, FlightIdle DEF vars, agentVars
<1>4. phase \in Owing => owed # None
  BY AgentAssumption DEF AInv, IInv, PhaseInv
<1>5. CASE NonJson \/ UnknownEvent \/ BadArg \/ GiveUp
  <2>1. \E next \in {"receive", "closing"} : SendMsg("nack", next)
    BY <1>5 DEF NonJson, UnknownEvent, BadArg, GiveUp, Return
  <2>2. owed # None /\ UNCHANGED <<handlers, rxVars, inbox, client>>
    BY <1>4, <1>5 DEF NonJson, UnknownEvent, BadArg, GiveUp, Return, Owing
  <2> QED
    BY <1>5, <2>1, <2>2, NackIsRight, RightAnswer
<1>6. CASE Acknowledge
  <2>1. SendMsg("ack", "receive") /\ owed # None /\ UNCHANGED <<handlers, rxVars, inbox, client>>
    BY <1>4, <1>6 DEF Acknowledge, Return, Owing
  <2> QED
    BY <1>6, <2>1, AckIsRight, RightAnswer
<1>a. /\ ClientInv /\ InboxAsked /\ OwedAsked /\ OutboxAnswers /\ GotAnswers /\ SetupInv
      /\ inbox \in Seq(Requests)
  BY DEF AInv, FlightInv, IInv, InboxInv
<1>b. ASSUME ClientInv', InboxAsked', OwedAsked', OutboxAnswers', GotAnswers', SetupInv'
      PROVE  FlightInv'
  BY <1>b DEF FlightInv
<1>7. CASE Receive
  <2>1. inbox # <<>> /\ inbox' = Tail(inbox)
    BY <1>7 DEF Receive
  <2>2. /\ Len(inbox') = Len(inbox) - 1 /\ Len(inbox) \in Nat
        /\ \A i \in 1 .. Len(inbox') : inbox'[i] = inbox[i + 1] /\ i + 1 \in 1 .. Len(inbox)
        /\ 1 \in 1 .. Len(inbox) /\ Head(inbox) = inbox[1] /\ inbox[1] \in Requests
    BY <1>a, <2>1
  <2>3. /\ owed' = inbox[1].from /\ UNCHANGED <<outbox, client, handlers>>
        /\ phase' # "setup"
        /\ text' = inbox[1].text /\ (Unfinished(text') \/ msg' = Parse(text'))
    BY <1>7, <2>2, ReceiveReads DEF Receive
  <2>4. InboxAsked'
    <3> SUFFICES ASSUME NEW i \in 1 .. Len(inbox')
                 PROVE  /\ client[inbox'[i].from].waits
                        /\ client[inbox'[i].from].last = inbox'[i].text
                        /\ inbox'[i].from # inbox[1].from
                        /\ \A r \in outbox : r.to # inbox'[i].from
                        /\ \A j \in 1 .. Len(inbox') : inbox'[j].from = inbox'[i].from => j = i
      BY <2>3 DEF InboxAsked
    <3>1. /\ inbox'[i] = inbox[i + 1] /\ i + 1 \in 1 .. Len(inbox)
          /\ i \in Nat /\ i + 1 # 1 /\ 1 \in 1 .. Len(inbox)
      BY <2>2
    <3>2. \A j \in 1 .. Len(inbox') : inbox'[j].from = inbox'[i].from => j = i
      <4> SUFFICES ASSUME NEW j \in 1 .. Len(inbox'), inbox'[j].from = inbox'[i].from
                   PROVE  j = i
        OBVIOUS
      <4>1. inbox'[j] = inbox[j + 1] /\ j + 1 \in 1 .. Len(inbox) /\ j \in Nat
        BY <2>2
      <4>2. j + 1 = i + 1
        BY <1>a, <3>1, <4>1 DEF InboxAsked
      <4> QED
        BY <3>1, <4>1, <4>2
    <3> QED
      BY <1>a, <3>1, <3>2 DEF InboxAsked
  <2>5. OwedAsked'
    BY <1>a, <2>2, <2>3 DEF InboxAsked, OwedAsked, Requests
  <2>6. ClientInv' /\ SetupInv'
    BY <1>a, <2>3 DEF ClientInv, SetupInv
  <2>7. OutboxAnswers' /\ GotAnswers'
    BY <1>a, <2>3 DEF OutboxAnswers, GotAnswers, Right, Known
  <2> QED
    BY <1>b, <2>4, <2>5, <2>6, <2>7
<1>8. ASSUME NEW c \in Clients, Request(c) PROVE FlightInv'
  <2> PICK m \in Messages :
        /\ inbox' = Append(inbox, [from |-> c, text |-> m])
        /\ client' = [client EXCEPT ![c] = [sent |-> client[c].sent + 1, waits |-> TRUE,
                                            last |-> m, got |-> None]]
    BY <1>8 DEF Request
  <2>1. /\ ~client[c].waits /\ UNCHANGED <<phase, handlers, text, msg, owed, outbox>>
        /\ Known' = Known
    BY <1>8 DEF Request, agentVars, rxVars, Known
  <2>2. /\ client'[c] = [sent |-> client[c].sent + 1, waits |-> TRUE, last |-> m, got |-> None]
        /\ \A d \in Clients \ {c} : client'[d] = client[d]
    BY <1>a DEF ClientInv
  <2>3. ClientInv'
    BY <1>a, AgentAssumption DEF ClientInv
  <2>4. /\ Len(inbox') = Len(inbox) + 1 /\ Len(inbox) \in Nat
        /\ \A i \in 1 .. Len(inbox) : inbox'[i] = inbox[i] /\ inbox[i].from \in Clients
        /\ inbox'[Len(inbox) + 1] = [from |-> c, text |-> m]
    <3>1. [from |-> c, text |-> m] \in Requests
      BY DEF Requests
    <3>2. /\ Len(inbox') = Len(inbox) + 1 /\ Len(inbox) \in Nat
          /\ \A i \in 1 .. Len(inbox) : inbox'[i] = inbox[i] /\ inbox[i] \in Requests
          /\ inbox'[Len(inbox) + 1] = [from |-> c, text |-> m]
      BY <1>a, <3>1
    <3> QED
      BY <3>2 DEF Requests
  <2>5. c # owed /\ \A r \in outbox : r.to # c /\ r.to \in Clients
    BY <1>a, <2>1, AgentAssumption DEF OwedAsked, OutboxAnswers
  <2>6. \A i \in 1 .. Len(inbox) : inbox[i].from # c
    BY <1>a, <2>1 DEF InboxAsked
  <2>7. InboxAsked'
    <3> SUFFICES ASSUME NEW i \in 1 .. Len(inbox')
                 PROVE  /\ client'[inbox'[i].from].waits
                        /\ client'[inbox'[i].from].last = inbox'[i].text
                        /\ inbox'[i].from # owed
                        /\ \A r \in outbox : r.to # inbox'[i].from
                        /\ \A j \in 1 .. Len(inbox') : inbox'[j].from = inbox'[i].from => j = i
      BY <2>1 DEF InboxAsked
    <3>1. CASE i = Len(inbox) + 1
      BY <2>2, <2>4, <2>5, <2>6, <3>1
    <3>2. CASE i \in 1 .. Len(inbox)
      <4>1. inbox'[i] = inbox[i] /\ client'[inbox[i].from] = client[inbox[i].from]
        BY <2>2, <2>4, <2>6, <3>2
      <4>2. /\ client[inbox[i].from].waits /\ client[inbox[i].from].last = inbox[i].text
            /\ inbox[i].from # owed /\ \A r \in outbox : r.to # inbox[i].from
            /\ \A j \in 1 .. Len(inbox) : inbox[j].from = inbox[i].from => j = i
        BY <1>a, <3>2 DEF InboxAsked
      <4>3. ASSUME NEW j \in 1 .. Len(inbox'), inbox'[j].from = inbox'[i].from PROVE j = i
        <5>1. j # Len(inbox) + 1
          BY <2>4, <2>6, <3>2, <4>1, <4>3
        <5>2. j \in 1 .. Len(inbox)
          BY <2>4, <5>1
        <5> QED
          BY <2>4, <4>1, <4>2, <4>3, <5>2
      <4> QED
        BY <4>1, <4>2, <4>3
    <3>3. i = Len(inbox) + 1 \/ i \in 1 .. Len(inbox)
      BY <2>4
    <3> QED
      BY <3>1, <3>2, <3>3
  <2>8. OwedAsked' /\ SetupInv'
    BY <1>a, <2>1, <2>2, <2>5 DEF OwedAsked, SetupInv
  <2>9. OutboxAnswers'
    BY <1>a, <2>1, <2>2, <2>5 DEF OutboxAnswers, Right
  <2>10. GotAnswers'
    BY <1>a, <2>1, <2>2 DEF GotAnswers, Right
  <2> QED
    BY <1>b, <2>3, <2>7, <2>8, <2>9, <2>10
<1>9. ASSUME NEW c \in Clients, Deliver(c) PROVE FlightInv'
  <2> PICK r \in outbox :
        /\ r.to = c /\ outbox' = outbox \ {r}
        /\ client' = [client EXCEPT ![c].waits = FALSE, ![c].got = r.kind]
        /\ UNCHANGED <<agentVars, inbox>>
    BY <1>9 DEF Deliver
  <2>1. UNCHANGED <<phase, handlers, text, msg, owed, inbox>> /\ Known' = Known
    BY DEF agentVars, rxVars, Known
  <2>2. /\ Right(r.kind, client[c].last) /\ \A q \in outbox : q.to = c => q = r
    BY <1>a DEF OutboxAnswers
  <2>3. r.kind \in {"ack", "nack"}
    BY <1>a DEF OutboxAnswers
  <2>4. /\ client'[c].last = client[c].last /\ client'[c].got = r.kind
        /\ \A d \in Clients \ {c} : client'[d] = client[d]
    BY <1>a DEF ClientInv
  <2>5. ClientInv'
    <3> DEFINE new == [client[c] EXCEPT !.waits = FALSE, !.got = r.kind]
    <3>1. client' = [client EXCEPT ![c] = new]
      BY <1>a DEF ClientInv
    <3>2. new \in [sent : Int, waits : BOOLEAN, last : Seq(Pieces),
                   got : {"ack", "nack", None}]
      BY <1>a, <2>3 DEF ClientInv
    <3> HIDE DEF new
    <3> QED
      BY <1>a, <3>1, <3>2 DEF ClientInv
  <2>6. c # owed
    BY <1>a, AgentAssumption DEF OwedAsked
  <2>7. \A i \in 1 .. Len(inbox) : inbox[i].from # c /\ inbox[i].from \in Clients
    <3>1. \A i \in 1 .. Len(inbox) : inbox[i] \in Requests
      BY <1>a
    <3>2. \A i \in 1 .. Len(inbox) : r.to # inbox[i].from
      BY <1>a DEF InboxAsked
    <3> QED
      BY <3>1, <3>2 DEF Requests
  <2>8. InboxAsked'
    <3> SUFFICES ASSUME NEW i \in 1 .. Len(inbox)
                 PROVE  /\ client'[inbox[i].from].waits
                        /\ client'[inbox[i].from].last = inbox[i].text
                        /\ inbox[i].from # owed
                        /\ \A q \in outbox \ {r} : q.to # inbox[i].from
                        /\ \A j \in 1 .. Len(inbox) : inbox[j].from = inbox[i].from => j = i
      BY <2>1 DEF InboxAsked
    <3>1. client'[inbox[i].from] = client[inbox[i].from]
      BY <2>4, <2>7
    <3> QED
      BY <1>a, <3>1 DEF InboxAsked
  <2>9. OwedAsked' /\ SetupInv'
    <3>1. OwedAsked'
      BY <1>a, <2>1, <2>4, <2>6 DEF OwedAsked
    <3>2. SetupInv'
      BY <1>a, <2>1 DEF SetupInv
    <3> QED
      BY <3>1, <3>2
  <2>10. OutboxAnswers'
    <3> SUFFICES ASSUME NEW p \in outbox, p # r
                 PROVE  /\ p.to \in Clients /\ client'[p.to].waits
                        /\ p.of = client'[p.to].last
                        /\ p.kind \in {"ack", "nack"} /\ Right(p.kind, p.of)
                        /\ \A q \in outbox : q.to = p.to => q = p
      BY <2>1 DEF OutboxAnswers, Right
    <3>1. p.to \in Clients \ {c}
      BY <1>a, <2>2 DEF OutboxAnswers
    <3>2. client'[p.to] = client[p.to]
      BY <2>4, <3>1
    <3> QED
      BY <1>a, <3>1, <3>2 DEF OutboxAnswers
  <2>11. GotAnswers'
    <3> SUFFICES ASSUME NEW d \in Clients, client'[d].got # None
                 PROVE  Right(client'[d].got, client'[d].last)
      BY <2>1 DEF GotAnswers, Right
    <3>1. CASE d = c
      BY <2>2, <2>4, <3>1
    <3>2. CASE d # c
      <4>1. client'[d] = client[d]
        BY <2>4, <3>2
      <4>2. client[d].got # None => Right(client[d].got, client[d].last)
        BY <1>a DEF GotAnswers
      <4> QED
        BY <4>1, <4>2
    <3> QED
      BY <3>1, <3>2
  <2> QED
    BY <1>b, <2>5, <2>8, <2>9, <2>10, <2>11
<1>10. CASE Lose
  BY <1>a, <1>b, <1>10
  DEF Lose, agentVars, rxVars, ClientInv, InboxAsked, OwedAsked, OutboxAnswers, GotAnswers,
      SetupInv, Right, Known
<1> QED
  BY <1>1, <1>2, <1>3, <1>5, <1>6, <1>7, <1>8, <1>9, <1>10 DEF Next, AgentStep

(* No client gets the answer to another's request or to an older one.  A   *)
(* text that the buffer holds whole, or that is wrong, is acknowledged     *)
(* exactly if it calls for that, whatever earlier messages and memory hold *)
(* behind it; of a text that stops within an object nothing is claimed.    *)
THEOREM AgentAnswersAreTrue == Spec => []AnswersAreTrue
<1>1. AInv => AnswersAreTrue
  BY DEF AInv, FlightInv, OutboxAnswers, GotAnswers, AnswersAreTrue
<1>2. AInv /\ [Next]_vars => AInv'
  BY InboxStep, PhaseStep, FlightStep, HandledStep DEF AInv, IInv
<1> QED
  BY AgentInit, <1>1, <1>2, PTL DEF Spec
=============================================================================
