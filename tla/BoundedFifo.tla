--------------------------- MODULE BoundedFifo ---------------------------
(***************************************************************************)
(* What a ring buffer promises: elements come out once and in order,       *)
(* "full" is answered only when it is full, "empty" only when it is empty. *)
(***************************************************************************)
EXTENDS Naturals, Sequences

CONSTANTS Capacity, Elements

VARIABLES
  contents,
  sent,           \* elements accepted
  received,       \* elements handed out
  outcome         \* of the last call

Init == contents = <<>> /\ sent = 0 /\ received = <<>> /\ outcome = "none"

Put ==
  /\ Len(contents) < Capacity /\ sent < Len(Elements)
  /\ contents' = Append(contents, Elements[sent + 1])
  /\ sent' = sent + 1 /\ outcome' = "put"
  /\ UNCHANGED received

Get ==
  /\ contents # <<>>
  /\ received' = Append(received, Head(contents))
  /\ contents' = Tail(contents) /\ outcome' = "got"
  /\ UNCHANGED sent

SayFull  == Len(contents) = Capacity /\ outcome' = "full" /\ UNCHANGED <<contents, sent, received>>
SayEmpty == contents = <<>> /\ outcome' = "empty" /\ UNCHANGED <<contents, sent, received>>

Next == Put \/ Get \/ SayFull \/ SayEmpty

Spec == Init /\ [][Next]_<<contents, sent, received, outcome>>
=============================================================================
