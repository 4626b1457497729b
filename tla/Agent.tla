------------------------------- MODULE Agent --------------------------------
(***************************************************************************)
(* The agent on the device under test (fluent10g_agent.c) and the          *)
(* measurement applications that talk to it.  ZeroMQ is external: requests *)
(* queue at the REP socket, which wants a reply between two requests, and  *)
(* a reply travels on after zmq_send has returned.  Messages are texts:    *)
(* sequences of pieces, as many of which as the receive buffer holds.      *)
(***************************************************************************)
EXTENDS Integers, Sequences, SequencesExt, FiniteSetsExt

CONSTANTS
  Clients,
  Pieces,          (* what texts are made of: [kind, name, type]           *)
  Messages,        (* the texts that they send                             *)
  Memory,          (* what uninitialised memory may hold                   *)
  RxSize,          (* FLUENT10G_MAX_LEN_ZMQ_MSG_RX, in pieces              *)
  MaxArgs,         (* FLUENT10G_MAX_N_ARGS                                 *)
  Reads,           (* event -> the arguments that its callback reads       *)
  MaxRequests      (* client -> bound on its requests                      *)

Monitor == "get_monitor_data"

(* A piece of kind "evt" opens the object and names the event, an "arg" is *)
(* one argument, an "end" closes the object, and any other piece fits      *)
(* nowhere.  The name is None if there is none: an event that is no string,*)
(* an element of an array.                                                 *)
None == "none"

ASSUME AgentAssumption ==
  /\ MaxRequests \in [Clients -> Nat] /\ RxSize \in Nat /\ MaxArgs \in Nat
  /\ None \notin Clients /\ Monitor \notin DOMAIN Reads /\ None \notin DOMAIN Reads
  /\ Messages \subseteq Seq(Pieces)
  /\ Memory \subseteq [1 .. RxSize -> Pieces]
  /\ \A evt \in DOMAIN Reads : Reads[evt] \in Seq(Pieces)

VARIABLES
  phase,           (* what the agent is about to do                        *)
  handlers,        (* event_handlers                                       *)
  buf,             (* the receive buffer, never cleared                    *)
  text,            (* history: what the sender of this message sent        *)
  msg,             (* what was read of it: [json, evt, args]               *)
  owed,            (* the client that the socket waits to answer, or None  *)
  items,           (* the message's JSON items are allocated               *)
  args,            (* the argument structs                                 *)
  texts,           (* printed replies that are allocated                   *)
  read,            (* how many arguments the callback has read             *)
  inbox,           (* requests at the socket                               *)
  outbox,          (* replies on their way                                 *)
  client           (* client -> [sent, waits, last, got]                   *)

rxVars == <<buf, text, msg>>
agentVars == <<phase, handlers, rxVars, owed, items, args, texts, read>>
vars == <<agentVars, inbox, outbox, client>>

NoMessage == [json |-> FALSE, evt |-> None, args |-> <<>>]

Init ==
  /\ phase = "setup" /\ handlers = <<>> /\ owed = None
  /\ buf \in Memory /\ text = <<>> /\ msg = NoMessage
  /\ items = FALSE /\ args = <<>> /\ texts = 0 /\ read = 0
  /\ inbox = <<>> /\ outbox = {}
  /\ client = [c \in Clients |-> [sent |-> 0, waits |-> FALSE, last |-> <<>>,
                                  got |-> None]]

(* error() and a failed assert: the process ends.                          *)
Exit == phase' = "gone"

(* send_msg, which does not free the text it prints.  If nothing is owed   *)
(* zmq_send fails, and the assert with it.                                 *)
SendMsg(kind, next) ==
  /\ texts' = texts + 1
  /\ outbox' = IF owed = None THEN outbox
               ELSE outbox \cup {[to |-> owed, kind |-> kind, of |-> text]}
  /\ phase' = IF owed = None THEN "assert" ELSE next
  /\ owed' = None

(* fluent10g_register_evt_handler.                                         *)
Register(evt) ==
  IF evt \in ToSet(handlers)
    THEN Exit /\ UNCHANGED handlers
    ELSE handlers' = Append(handlers, evt) /\ UNCHANGED phase

RegisterHandler ==
  /\ phase = "setup"
  /\ \E evt \in DOMAIN Reads \cup {Monitor} : Register(evt)
  /\ UNCHANGED <<rxVars, owed, items, args, texts, read, inbox, outbox, client>>

(* fluent10g_start up to its loop.                                         *)
Start ==
  /\ phase = "setup"
  /\ IF Monitor \in ToSet(handlers)
       THEN Exit /\ UNCHANGED handlers
       ELSE phase' = "receive" /\ handlers' = Append(handlers, Monitor)
  /\ UNCHANGED <<rxVars, owed, items, args, texts, read, inbox, outbox, client>>

(* The first n pieces of a text open an object that they do not close.     *)
Opens(s, n) == \A i \in 1 .. n : s[i].kind = IF i = 1 THEN "evt" ELSE "arg"

(* cJSON_Parse: the object at the beginning, whatever follows it.          *)
IsObject(s, n) == Opens(s, n - 1) /\ s[n].kind = "end"

Parse(s) ==
  IF \E n \in 2 .. Len(s) : IsObject(s, n)
    THEN LET n == CHOOSE n \in 2 .. Len(s) : IsObject(s, n)
         IN  [json |-> TRUE, evt |-> s[1].name, args |-> [i \in 1 .. n - 2 |-> s[i + 1]]]
    ELSE NoMessage

(* zmq_recv copies what fits and says nothing of the rest.  The text in the*)
(* buffer is not terminated: what follows in the buffer is the end of a    *)
(* message before, and what follows the buffer anything.  A text that ends *)
(* within an object is completed by that, if the pieces fit together.      *)
Copied(t) == IF Len(t) < RxSize THEN Len(t) ELSE RxSize
Unfinished(t) == Opens(t, Copied(t))

Receive ==
  /\ phase = "receive" /\ inbox # <<>>
  /\ text' = Head(inbox).text /\ owed' = Head(inbox).from
  /\ inbox' = Tail(inbox)
  /\ buf' = [i \in 1 .. RxSize |-> IF i <= Len(text') THEN text'[i] ELSE buf[i]]
  /\ \/ \E behind \in Memory : msg' = Parse(buf' \o behind)
     \/ Unfinished(text') /\ msg' = NoMessage
  /\ items' = msg'.json
  /\ phase' = IF msg'.json THEN "handle" ELSE "nojson"
  /\ UNCHANGED <<handlers, args, texts, read, outbox, client>>

(* Mutant: the loop continues before the NACK is sent.                     *)
NonJsonSilent ==
  /\ phase = "nojson" /\ phase' = "receive"
  /\ UNCHANGED <<handlers, rxVars, owed, items, args, texts, read, inbox, outbox, client>>

NonJson ==
  /\ phase = "nojson"
  /\ SendMsg("nack", "receive")
  /\ UNCHANGED <<handlers, rxVars, items, args, read, inbox, client>>

(* handle_msg: the event's name, and its callback.                         *)
FindHandler ==
  /\ phase = "handle"
  /\ IF msg.evt = None THEN Exit
     ELSE phase' = IF msg.evt \in ToSet(handlers) THEN "args" ELSE "unknown"
  /\ UNCHANGED <<handlers, rxVars, owed, items, args, texts, read, inbox, outbox, client>>

(* handle_msg answers and returns to fluent10g_start, which deletes the    *)
(* message.                                                                *)
Return(kind) == SendMsg(kind, "receive") /\ items' = FALSE

UnknownEvent ==
  /\ phase = "unknown"
  /\ Return("nack")
  /\ UNCHANGED <<handlers, rxVars, args, read, inbox, client>>

(* The next argument of the message.  There is no check of the bound of the*)
(* array: behind it the stack is overwritten, and the model ends.          *)
Next1 == msg.args[Len(args) + 1]

NextIsValid ==
  phase = "args" /\ Len(args) < Len(msg.args) /\ Next1.type \in {"number", "string"}

TakeArg ==
  /\ NextIsValid /\ Len(args) < MaxArgs
  /\ args' = Append(args, Next1)
  /\ UNCHANGED <<phase, handlers, rxVars, owed, items, texts, read, inbox, outbox, client>>

Overrun ==
  /\ NextIsValid /\ Len(args) >= MaxArgs
  /\ phase' = "undefined"
  /\ UNCHANGED <<handlers, rxVars, owed, items, args, texts, read, inbox, outbox, client>>

(* Mutant: no return after the NACK; the argument is passed over.          *)
BadArgGoesOn ==
  /\ phase = "args" /\ Len(args) < Len(msg.args)
  /\ Next1.type \notin {"number", "string"}
  /\ SendMsg("nack", "args") /\ args' = Append(args, Next1)
  /\ UNCHANGED <<handlers, rxVars, items, read, inbox, client>>

BadArg ==
  /\ phase = "args" /\ Len(args) < Len(msg.args)
  /\ Next1.type \notin {"number", "string"}
  /\ Return("nack") /\ args' = <<>>
  /\ UNCHANGED <<handlers, rxVars, read, inbox, client>>

CallBack ==
  /\ phase = "args" /\ Len(args) = Len(msg.args)
  /\ phase' = "callback" /\ read' = 0
  /\ UNCHANGED <<handlers, rxVars, owed, items, args, texts, inbox, outbox, client>>

(* fluent10g_get_arg_int, _double and _string: the first argument of that  *)
(* name, if it has the right type.  An argument without a name that comes  *)
(* before is handed to strcmp: undefined, and the model ends.              *)
Stumbles(list, want) ==
  \E i \in 1 .. Len(list) :
    list[i].name = None /\ \A j \in 1 .. i - 1 : list[j].name # want.name

(* Mutant: the type is not looked at.                                      *)
FoundAnyType(list, want) == \E i \in 1 .. Len(list) : list[i].name = want.name

Found(list, want) ==
  \E i \in 1 .. Len(list) :
    list[i] = want /\ \A j \in 1 .. i - 1 : list[j].name # want.name

Wanted == Reads[msg.evt]

Reading == phase = "callback" /\ msg.evt # Monitor /\ read < Len(Wanted)

Stumble ==
  /\ Reading /\ Stumbles(args, Wanted[read + 1])
  /\ phase' = "undefined"
  /\ UNCHANGED <<handlers, rxVars, owed, items, args, texts, read, inbox, outbox, client>>

ReadArg ==
  /\ Reading /\ ~Stumbles(args, Wanted[read + 1]) /\ Found(args, Wanted[read + 1])
  /\ read' = read + 1
  /\ UNCHANGED <<phase, handlers, rxVars, owed, items, args, texts, inbox, outbox, client>>

(* ... or there is none, or the event is get_monitor_data: a NACK is sent, *)
(* and the agent ends.                                                     *)
GiveUp ==
  /\ phase = "callback"
  /\ msg.evt # Monitor =>
       /\ Reading
       /\ ~Stumbles(args, Wanted[read + 1]) /\ ~Found(args, Wanted[read + 1])
  /\ SendMsg("nack", "closing")
  /\ UNCHANGED <<handlers, rxVars, items, args, read, inbox, client>>

(* error(): after 1 ms the socket is closed.                               *)
Close ==
  /\ phase = "closing" /\ Exit
  /\ UNCHANGED <<handlers, rxVars, owed, items, args, texts, read, inbox, outbox, client>>

Acknowledge ==
  /\ phase = "callback" /\ msg.evt # Monitor /\ read = Len(Wanted)
  /\ Return("ack") /\ args' = <<>>
  /\ UNCHANGED <<handlers, rxVars, read, inbox, client>>

(* The applications, and the network between.                              *)
Request(c) ==
  /\ ~client[c].waits /\ client[c].sent < MaxRequests[c]
  /\ \E m \in Messages :
       /\ inbox' = Append(inbox, [from |-> c, text |-> m])
       /\ client' = [client EXCEPT ![c] = [sent |-> client[c].sent + 1, waits |-> TRUE,
                                            last |-> m, got |-> None]]
  /\ UNCHANGED <<agentVars, outbox>>

Deliver(c) ==
  \E r \in outbox :
    /\ r.to = c
    /\ outbox' = outbox \ {r}
    /\ client' = [client EXCEPT ![c].waits = FALSE, ![c].got = r.kind]
    /\ UNCHANGED <<agentVars, inbox>>

(* What had not left the process when it ended is lost.                    *)
Lose ==
  /\ phase \in {"gone", "assert", "undefined"}
  /\ \E r \in outbox : outbox' = outbox \ {r}
  /\ UNCHANGED <<agentVars, inbox, client>>

AgentStep ==
  \/ Start \/ Receive \/ NonJson \/ FindHandler \/ UnknownEvent
  \/ TakeArg \/ Overrun \/ BadArg \/ CallBack \/ Stumble \/ ReadArg \/ GiveUp
  \/ Close \/ Acknowledge

Next ==
  \/ AgentStep \/ RegisterHandler \/ Lose
  \/ \E c \in Clients : Request(c) \/ Deliver(c)

(* The agent goes on while it can, ZeroMQ delivers, and callbacks return.  *)
Fairness == WF_vars(AgentStep) /\ \A c \in Clients : WF_vars(Deliver(c))

Spec == Init /\ [][Next]_vars /\ Fairness

-----------------------------------------------------------------------------
(* What the answer to a message has to be: it is acknowledged exactly if   *)
(* its event has a handler of the user's, its arguments are numbers and    *)
(* strings, and the callback finds every argument that it reads.           *)
Verdict(m, known) ==
  IF /\ m.json /\ m.evt \in known
     /\ \A i \in 1 .. Len(m.args) : m.args[i].type \in {"number", "string"}
     /\ \A i \in 1 .. Len(Reads[m.evt]) :
          \E k \in 1 .. Len(m.args) :
            /\ m.args[k] = Reads[m.evt][i]
            /\ \A j \in 1 .. Len(m.args) : m.args[j].name = m.args[k].name => j >= k
    THEN "ack" ELSE "nack"

Known == ToSet(handlers) \ {Monitor}

Right(kind, t) == Unfinished(t) \/ kind = Verdict(Parse(t), Known)

(* Every answer goes to the client that asked and is about what that client*)
(* asked last.  It is the right one for every text that is, within the     *)
(* buffer, a whole object or wrong; nothing is claimed for one that stops  *)
(* in the middle: what the buffer holds behind it may make it a message.   *)
AnswersAreTrue ==
  /\ \A r \in outbox :
       /\ client[r.to].waits /\ r.of = client[r.to].last
       /\ Right(r.kind, r.of)
  /\ \A c \in Clients :
       client[c].got # None => Right(client[c].got, client[c].last)

(* The socket is never asked to send what it does not owe (an assert would *)
(* end the agent), and when the agent waits for the next message it owes   *)
(* nothing, and has freed the items and the argument structs of the last.  *)
(* The printed texts of its replies are never freed.                       *)
ReadyForNext ==
  /\ phase # "assert"
  /\ phase = "receive" => owed = None /\ ~items /\ args = <<>>

(* Every request is answered, or the agent has ended or does what C does   *)
(* not define.                                                             *)
RequestsAnswered ==
  \A c \in Clients :
    client[c].waits ~> (~client[c].waits \/ phase \in {"gone", "undefined"})
=============================================================================
