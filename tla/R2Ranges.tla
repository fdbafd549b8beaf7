------------------------------- MODULE R2Ranges -------------------------------
(***************************************************************************)
(* Ranged reads of a multipart object of the R2 simulator                  *)
(* (src/bindings/r2-bucket/R2Bucket.worker.ts): a range is asked for by a  *)
(* Range header or by options, validate.range turns it into an inclusive   *)
(* range of the object, and #assembleMultipartValue cuts that into slices  *)
(* of the parts, which are sent one after the other.  The length announced *)
(* to the client comes from a third place, the range of the metadata.      *)
(* A byte is its position in the object.                                   *)
(***************************************************************************)
EXTENDS Integers, Sequences, FiniteSetsExt

CONSTANTS
  PartSize,   \* the size of all parts but the last
  MaxParts,
  MaxAsked,   \* bound: the largest number in a request
  Unset       \* undefined

ASSUME PartSizeAssumption == PartSize \in Nat \ {0} /\ MaxParts \in Nat /\ MaxAsked \in Nat

VARIABLES
  object,     \* the number of parts, and the size of the last of them
  request,    \* what the client asks for
  response    \* stage, announced length, slices to send, bytes sent

rangeVars == <<object, request, response>>

Numbers == 0..MaxAsked \cup {Unset}
HeaderRequests == [by : {"header"}, start : Numbers, end : Numbers]
OptionRequests == [by : {"options"}, offset : Numbers, length : Numbers, suffix : Numbers]

RangesInit ==
  /\ object \in [parts : 1..MaxParts, last : 1..PartSize]
  /\ request \in HeaderRequests \cup OptionRequests
  /\ response = [stage |-> "asked", length |-> 0, slices |-> <<>>, sent |-> <<>>]

Size == (object.parts - 1) * PartSize + object.last

Least(a, b) == IF a <= b THEN a ELSE b
Most(a, b) == IF a <= b THEN b ELSE a
Default(x, y) == IF x = Unset THEN y ELSE x

\* parseRanges of a single range; none, or an invalid one, means all of it.
HeaderRange ==
  LET start == request.start
      end == request.end
      valid == CASE start # Unset /\ end # Unset -> start <= end /\ start < Size
                 [] start # Unset /\ end = Unset -> start < Size
                 [] start = Unset /\ end # Unset -> end < Size /\ end # 0
                 [] OTHER -> FALSE
  IN
  IF ~valid THEN [start |-> 0, end |-> Size - 1]
  ELSE IF start = Unset THEN [start |-> Size - end, end |-> Size - 1]
  ELSE [start |-> start, end |-> Least(Default(end, Size - 1), Size - 1)]

\* Mutant: a length that goes past the end is not cut.
UncutOptionRange ==
  LET suffix == Least(request.suffix, Size)
      offset == IF request.suffix # Unset THEN Size - suffix ELSE Default(request.offset, 0)
      length == IF request.suffix # Unset THEN suffix ELSE Default(request.length, Size - offset)
  IN
  [start |-> offset, end |-> offset + length - 1]

\* The options branch of validate.range
OptionRange ==
  LET suffix == Least(request.suffix, Size)
      offset == IF request.suffix # Unset THEN Size - suffix ELSE Default(request.offset, 0)
      length == IF request.suffix # Unset THEN suffix ELSE Default(request.length, Size - offset)
  IN
  [start |-> offset, end |-> Least(offset + length, Size) - 1]

InvalidRange ==
  /\ request.by = "options"
  /\ IF request.suffix # Unset THEN request.suffix = 0
     ELSE \/ Default(request.offset, 0) > Size
          \/ Default(request.length, Size - Default(request.offset, 0)) <= 0

AskedRange == IF request.by = "header" THEN HeaderRange ELSE OptionRange

\* The parts that overlap, and what is needed of them, from their own start
Slices(range) ==
  LET start(i) == (i - 1) * PartSize
      end(i) == start(i) + (IF i = object.parts THEN object.last ELSE PartSize) - 1
      required == {i \in 1..object.parts : start(i) <= range.end /\ range.start <= end(i)}
      slice(i) == [part  |-> i,
                   start |-> Most(start(i), range.start) - start(i),
                   end   |-> Least(end(i), range.end) - start(i)]
  IN
  IF required = {} THEN <<>>
  ELSE [n \in 1..(Max(required) - Min(required) + 1) |-> slice(Min(required) + n - 1)]

RangeRead ==
  /\ response.stage = "asked"
  /\ response' = IF InvalidRange THEN [response EXCEPT !.stage = "invalid"]
                 ELSE [stage  |-> "sending",
                       length |-> Least(AskedRange.end, Size) - AskedRange.start + 1,
                       slices |-> Slices(AskedRange),
                       sent   |-> <<>>]
  /\ UNCHANGED <<object, request>>

\* blob.get() of a slice, and its bytes
SliceSent ==
  LET slice == Head(response.slices)
      first == (slice.part - 1) * PartSize + slice.start
  IN
  /\ response.stage = "sending"
  /\ response.slices # <<>>
  /\ response' = [response EXCEPT
       !.slices = Tail(@),
       !.sent = @ \o [n \in 1..(slice.end - slice.start + 1) |-> first + n - 1]]
  /\ UNCHANGED <<object, request>>

BodyEnds ==
  /\ response.stage = "sending"
  /\ response.slices = <<>>
  /\ response' = [response EXCEPT !.stage = "sent"]
  /\ UNCHANGED <<object, request>>

RangesNext == RangeRead \/ SliceSent \/ BodyEnds

RangesSpec == RangesInit /\ [][RangesNext]_rangeVars

-----------------------------------------------------------------------------
(* Properties *)

\* The positions that a client means
Meant ==
  LET all == 0..(Size - 1) IN
  IF request.by = "header" THEN
    CASE request.start # Unset ->
           LET hit == {i \in all : i >= request.start /\ i <= Default(request.end, Size)} IN
           IF hit = {} THEN all ELSE hit
      [] request.start = Unset /\ request.end \notin {Unset, 0} -> {i \in all : i >= Size - request.end}
      [] OTHER -> all
  ELSE IF request.suffix # Unset THEN {i \in all : i >= Size - request.suffix}
  ELSE {i \in all : /\ i >= Default(request.offset, 0)
                    /\ i < Default(request.offset, 0) + Default(request.length, Size)}

\* The body has the length that was announced for it, or FixedLengthStream fails,
\* and is the bytes that were asked for, in order, across all the parts.
RangesAreExact ==
  /\ response.stage = "sent" =>
       /\ Len(response.sent) = response.length
       /\ {response.sent[i] : i \in DOMAIN response.sent} = Meant
       /\ \A i \in DOMAIN response.sent : response.sent[i] = response.sent[1] + i - 1
  /\ response.stage = "invalid" => Meant = {} \/ request.length = 0 \/ request.suffix = 0
=============================================================================
