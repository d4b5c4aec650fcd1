---------------------------- MODULE NetArguments ----------------------------
(***************************************************************************)
(* How src/module/net.ts reads the arguments of listen and of              *)
(* createConnection, which are declared with many overloads and told apart *)
(* by their types only.                                                    *)
(*                                                                         *)
(* An argument is a record of its JavaScript type and its value.  An       *)
(* option is a sequence: empty if the option is not set, or its value.     *)
(***************************************************************************)
EXTENDS Naturals, Sequences

CONSTANTS
  Value,    \* what arguments may be, whatever their type
  Fields    \* the fields port, host and callback of an object, each an option

Types == {"number", "string", "function", "object", "undefined"}
Argument == [type : Types, value : Value]

\* The i-th argument was passed, and is of type t.
IsA(args, i, t) == i <= Len(args) /\ args[i].type = t

\* The option at place i, if it is of type t; the place after it.
Option(args, i, t) == IF IsA(args, i, t) THEN <<args[i]>> ELSE <<>>
After(args, i, t) == IF IsA(args, i, t) THEN i + 1 ELSE i

-----------------------------------------------------------------------------
\* extractListenArgs.  A port that is not set is 0.
extractListenArgs(args) ==
  LET h == After(args, 1, "number")
      b == After(args, h, "string")
      c == After(args, b, "number") IN
  [port |-> Option(args, 1, "number"), host |-> Option(args, h, "string"),
   backlog |-> Option(args, b, "number"), callback |-> Option(args, c, "function")]

Throws == "throws"

\* Server.listen, up to the call of internalListen.  An object brings its own
\* options, of which the backlog is not read.
listen(args) ==
  IF ~IsA(args, 1, "object") THEN extractListenArgs(args)
  ELSE LET o == Fields[args[1].value] IN
       IF ~IsA(o.port, 1, "number") THEN Throws
       ELSE [o EXCEPT !.callback = IF IsA(args, 2, "function") THEN <<args[2]>> ELSE @]

\* createConnection, of which an argument left out is undefined: a host that is
\* not a string is taken for the listener.
createConnection(port, host, listener) ==
  CASE port.type = "string" -> Throws
    [] port.type = "number" ->
         [to |-> IF host.type = "string" THEN <<port, host>> ELSE <<port>>,
          listener |-> IF host.type = "string" THEN listener ELSE host]
    [] OTHER ->
         IF host.type = "string" \/ Fields[port.value].port = <<>> THEN Throws
         ELSE [to |-> <<port>>, listener |-> host]

-----------------------------------------------------------------------------
(* What the overloads of listen declare (net.ts:86-100): options that are not  *)
(* set are not passed.  A path alone is there too, and is read as a host.      *)

Maybe(t) == {<<>>} \cup {<<a>> : a \in [type : {t}, value : Value]}

\* A backlog follows a port or a host.
Options ==
  {o \in [port : Maybe("number"), host : Maybe("string"),
          backlog : Maybe("number"), callback : Maybe("function")] :
     o.backlog # <<>> => o.port # <<>> \/ o.host # <<>>}

\* The arguments that an application passes for the options o.
Passed(o) == ((o.port \o o.host) \o o.backlog) \o o.callback
=============================================================================
