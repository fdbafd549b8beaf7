---------------------------- MODULE PlatformProxy ----------------------------
(***************************************************************************)
(* Bindings used from Node (src/platform-proxy): a method call on a        *)
(* binding builds a stub, which stands for the chain of calls that leads   *)
(* to it and runs nothing.  Awaiting a stub sends its chain to the worker  *)
(* in one request, fetch() on a stub sends it with the request to forward. *)
(* The worker evaluates the chain, and the chains among its arguments, in  *)
(* several steps, since every call is awaited.                             *)
(*                                                                         *)
(* A stub is its expression: the stub (or Root, the binding) whose method  *)
(* it calls, and the arguments.  An argument is a stub, a Plain value, a   *)
(* Foreign stub, of another binding, or a list (a sequence) of stubs.      *)
(***************************************************************************)
EXTENDS Integers, Sequences, FiniteSets, Functions

CONSTANTS
  Stubs,        \* the expressions that Node builds
  Root,         \* the binding itself
  TargetOf,     \* [e] whose method the expression calls
  ArgsOf,       \* [e] the arguments of the call
  Plain, Foreign,
  Opaque,       \* expressions whose value cannot be serialised, like an object's stub
  MaxFetches,   \* bound: fetch() calls on a stub
  MaxSends      \* bound: requests

ASSUME RootAssumption == Root \notin Stubs /\ Plain \notin Stubs /\ Foreign \notin Stubs
ASSUME TargetAssumption == TargetOf \in [Stubs -> Stubs \cup {Root}] /\ Opaque \subseteq Stubs
ASSUME ArgsAssumption ==
  IsFiniteSet(Stubs) /\ ArgsOf \in [Stubs -> Seq(Stubs \cup {Plain, Foreign} \cup Seq(Stubs))]
ASSUME SendsAssumption == MaxFetches \in Nat /\ MaxSends \in Nat

VARIABLES
  answer,     \* [x] how the request x is answered: "unsent", "pending", "resolved", "rejected"
  evaluated,  \* [x] the calls of x's expression that have returned
  threw,      \* [x] the calls of x's expression that threw
  disposed    \* whether the instance has been disposed

platformVars == <<answer, evaluated, threw, disposed>>

\* A request: the memoised call of a stub (use 0), or one of its fetches
SendIds == [stub : Stubs, use : 0..MaxFetches]

-----------------------------------------------------------------------------
(* The protocol *)

EmptyObject == [tag |-> "object"]

\* encodeArg recognises a stub that is an argument.  A list is left to encodeValue,
\* which takes the proxies in it for plain objects without keys.
EncodeArg(arg) ==
  IF arg \in Stubs THEN [tag |-> "chain", stub |-> arg]
  ELSE IF arg = Plain THEN [tag |-> "value", value |-> arg]
  ELSE [tag |-> "array", value |-> [i \in DOMAIN arg |-> EmptyObject]]

\* decodeArg: what the method is applied to.  A chain is evaluated; `result'
\* stands for what its evaluation in the same request returns.
DecodeArg(encoded) ==
  IF encoded.tag = "chain" THEN [result |-> encoded.stub] ELSE encoded

\* What the caller means
Intended(arg) ==
  IF arg \in Stubs THEN [result |-> arg]
  ELSE IF arg = Plain THEN [tag |-> "value", value |-> arg]
  ELSE [tag |-> "array", value |-> [i \in DOMAIN arg |-> [result |-> arg[i]]]]

-----------------------------------------------------------------------------
(* The calls that a chain consists of: a call is named by its place, the   *)
(* path of operands from the expression to it; 0 is the target.            *)

Operand(e, i) == IF i = 0 THEN TargetOf[e] ELSE ArgsOf[e][i]

\* Operands that are evaluated by the worker
Chained(e) == {i \in 0..Len(ArgsOf[e]) : Operand(e, i) \in Stubs}

\* The calls of c's operands
Operands(c) ==
  {[place |-> Append(c.place, i), stub |-> Operand(c.stub, i)] : i \in Chained(c.stub)}

\* The expressions are finite: no chain of operands is longer than there are stubs.
CallsWithin(e) ==
  LET upTo[n \in 0..Cardinality(Stubs)] ==
        IF n = 0 THEN {[place |-> <<>>, stub |-> e]}
        ELSE upTo[n - 1] \cup UNION {Operands(c) : c \in upTo[n - 1]}
  IN upTo[Cardinality(Stubs)]

CallsOf == [e \in Stubs |-> CallsWithin(e)]

OperandsDone(x, c) ==
  \A i \in Chained(c.stub) : \E d \in evaluated[x] : d.place = Append(c.place, i)

\* The arguments of a call are evaluated, concurrently, when its target is.
TargetsDone(x, c) ==
  \A n \in DOMAIN c.place :
    c.place[n] # 0 =>
      LET parent == SubSeq(c.place, 1, n - 1) IN
      \A d \in CallsOf[x.stub] :
        d.place = Append(parent, 0) => d \in evaluated[x]

Sent == {x \in SendIds : answer[x] # "unsent"}

-----------------------------------------------------------------------------
PlatformTypeOK ==
  /\ answer \in [SendIds -> {"unsent", "pending", "resolved", "rejected"}]
  /\ \A x \in SendIds : evaluated[x] \subseteq CallsOf[x.stub] /\ threw[x] \subseteq CallsOf[x.stub]
  /\ disposed \in BOOLEAN

PlatformInit ==
  /\ answer = [x \in SendIds |-> "unsent"]
  /\ evaluated = [x \in SendIds |-> {}]
  /\ threw = [x \in SendIds |-> {}]
  /\ disposed = FALSE

\* encodeChain comes upon a stub of another binding.
HasForeign(e) == \E c \in CallsOf[e] : Foreign \in Range(ArgsOf[c.stub])

\* callBinding, passthroughFetch: encodeChain rejects stubs of other bindings,
\* and no request arrives at an instance that has been disposed.
Send(x) ==
  /\ answer[x] = "unsent"
  /\ Cardinality(Sent) < MaxSends
  /\ answer' = [answer EXCEPT
       ![x] = IF HasForeign(x.stub) \/ disposed THEN "rejected" ELSE "pending"]
  /\ UNCHANGED <<evaluated, threw, disposed>>

\* then, catch, finally: the first one sends the chain, the others share its promise.
Await(e) == Send([stub |-> e, use |-> 0])

\* fetch(): the chain is sent each time.
Fetch(e) == \E n \in 1..MaxFetches : Send([stub |-> e, use |-> n])

\* Mutant: the promises of arguments are not awaited.
ReadyBeforeArguments(x, c) ==
  /\ answer[x] # "unsent"
  /\ c \in CallsOf[x.stub] \ (evaluated[x] \cup threw[x])
  /\ TargetsDone(x, c)

\* evaluateChain: a call whose operands have been awaited, on the worker.
Ready(x, c) ==
  /\ answer[x] # "unsent"
  /\ c \in CallsOf[x.stub] \ (evaluated[x] \cup threw[x])
  /\ OperandsDone(x, c)
  /\ TargetsDone(x, c)

\* A request that was rejected before it was sent reaches no worker.  One that failed
\* may go on: Promise.all gives up on the first failure and stops nobody.
Arrived(x) == answer[x] = "pending" \/ threw[x] # {}

Evaluate(x, c) ==
  /\ Arrived(x)
  /\ ~disposed
  /\ Ready(x, c)
  /\ evaluated' = [evaluated EXCEPT ![x] = @ \cup {c}]
  /\ UNCHANGED <<answer, threw, disposed>>

\* The method throws, or is none; the error is the answer.
Throws(x, c) ==
  /\ Arrived(x)
  /\ ~disposed
  /\ Ready(x, c)
  /\ threw' = [threw EXCEPT ![x] = @ \cup {c}]
  /\ answer' = [answer EXCEPT ![x] = "rejected"]
  /\ UNCHANGED <<evaluated, disposed>>

\* encodeResult, or the answer of the target's fetch().
Respond(x) ==
  /\ answer[x] = "pending"
  /\ [place |-> <<>>, stub |-> x.stub] \in evaluated[x]
  /\ answer' = [answer EXCEPT ![x] =
                  IF x.use = 0 /\ x.stub \in Opaque THEN "rejected" ELSE "resolved"]
  /\ UNCHANGED <<evaluated, threw, disposed>>

\* The scope of the instance closes: requests in flight fail.
Dispose ==
  /\ ~disposed
  /\ disposed' = TRUE
  /\ answer' = [x \in SendIds |-> IF answer[x] = "pending" THEN "rejected" ELSE answer[x]]
  /\ UNCHANGED <<evaluated, threw>>

PlatformNext ==
  \/ \E e \in Stubs : Await(e) \/ Fetch(e)
  \/ \E x \in SendIds :
       \/ Respond(x)
       \/ \E c \in CallsOf[x.stub] : Evaluate(x, c) \/ Throws(x, c)
  \/ Dispose

PlatformSpec == PlatformInit /\ [][PlatformNext]_platformVars

-----------------------------------------------------------------------------
(* Properties *)

\* A result means that the whole expression was evaluated, each of its calls once and on
\* the values of its operands; an error, that something threw, could not be sent
\* or could not be serialised, or that the instance is gone.
AnswersAreComplete ==
  \A x \in SendIds :
    /\ answer[x] = "resolved" => evaluated[x] = CallsOf[x.stub] /\ threw[x] = {}
    /\ answer[x] = "rejected" =>
         threw[x] # {} \/ disposed \/ x.stub \in Opaque \/ HasForeign(x.stub)
    /\ \A c \in evaluated[x] : OperandsDone(x, c)
    /\ threw[x] # {} => answer[x] = "rejected"

\* "Arguments may reference stubs of the same binding (e.g.
\* `env.DB.batch([env.DB.prepare("...")])`)": the worker calls a method with
\* the arguments that were meant.
ArgumentsArrive ==
  \A x \in SendIds : \A c \in evaluated[x] : \A i \in DOMAIN ArgsOf[c.stub] :
    DecodeArg(EncodeArg(ArgsOf[c.stub][i])) = Intended(ArgsOf[c.stub][i])
=============================================================================
