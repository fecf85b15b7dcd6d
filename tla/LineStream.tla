---------------------------- MODULE LineStream ----------------------------
(***************************************************************************)
(* What draining a service's output promises: the lines arrive once each   *)
(* and in order, the reader is told that the stream is whole only after it *)
(* has every line, and the stream ends, whole or abandoned.                *)
(***************************************************************************)
EXTENDS Sequences, Naturals

CONSTANT Lines      \* what the utility writes

VARIABLES out,      \* the lines handed to the reader
          end       \* "reading", "whole" or "abandoned"
stream == <<out, end>>

Init == out = <<>> /\ end = "reading"

Deliver ==
  /\ end = "reading" /\ Len(out) < Len(Lines)
  /\ out' = Append(out, Lines[Len(out) + 1])
  /\ UNCHANGED end

Finish == end = "reading" /\ out = Lines /\ end' = "whole" /\ UNCHANGED out

Abandon == end = "reading" /\ end' = "abandoned" /\ UNCHANGED out

Next == Deliver \/ Finish \/ Abandon

\* What has arrived is right at every moment; and the stream ends
Safety == Init /\ [][Next]_stream
Spec == Safety /\ WF_stream(Next)
=============================================================================
