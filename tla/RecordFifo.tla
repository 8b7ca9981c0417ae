----------------------------- MODULE RecordFifo -----------------------------
(***************************************************************************)
(* What a log ring promises: the records accepted are delivered once each, *)
(* in the order they were accepted, and none is left behind for ever.      *)
(***************************************************************************)
EXTENDS Naturals, Sequences

VARIABLES
    in,     \* the records accepted so far
    out     \* the records delivered so far

Init == in = << >> /\ out = << >>

Accept ==
    /\ Len(in') = Len(in) + 1
    /\ SubSeq(in', 1, Len(in)) = in
    /\ UNCHANGED out

Deliver ==
    /\ Len(out) < Len(in)
    /\ out' = Append(out, in[Len(out) + 1])
    /\ UNCHANGED in

Next == Accept \/ Deliver

Spec == Init /\ [][Next]_<<in, out>> /\ WF_<<in, out>>(Deliver)
=============================================================================
