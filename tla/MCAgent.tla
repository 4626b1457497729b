------------------------------ MODULE MCAgent -------------------------------
(* Agent with two applications, two events of the user's and texts of every *)
(* kind: messages right and wrong, cut, empty, or too long for the buffer.  *)
EXTENDS Agent

Piece(kind, name, type) == [kind |-> kind, name |-> name, type |-> type]
Evt(name)       == Piece("evt", name, None)
Arg(name, type) == Piece("arg", name, type)
End   == Piece("end", None, None)
Noise == Piece("noise", None, None)
N == Arg("n", "number")
S == Arg("s", "string")

ReadsValue == [go |-> <<>>, set |-> <<N, S>>]

MessagesValue ==
  { <<>>, <<Noise>>, <<Evt(None), End>>, <<Evt("other"), End>>, <<Evt(Monitor), End>>,
    <<Evt("go"), End>>, <<Evt("go"), N, Arg("x", "list"), End>>,
    <<Evt("set"), N, S, End>>, <<Evt("set"), S, N, Arg("n", "string"), End>>,
    <<Evt("set"), Arg("n", "string"), S, End>>, <<Evt("set"), N, End>>,
    <<Evt("set"), N>>, <<Evt("set"), N, S, N, N, N, End>>,
    <<Evt("go"), N, N, N, N, End>>, <<Evt("set"), N, Arg(None, "string"), S, End>> }

Repeated(p) == [i \in 1 .. RxSize |-> p]
MemoryValue == { Repeated(Noise), Repeated(End) }

(* One of the applications sends two requests, the other one.               *)
MaxRequestsValue ==
  LET busy == CHOOSE c \in Clients : TRUE
  IN  [c \in Clients |-> IF c = busy THEN 2 ELSE 1]

PiecesValue == UNION { ToSet(t) : t \in MessagesValue \cup MemoryValue }
=============================================================================
