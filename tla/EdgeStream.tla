---------------------------- MODULE EdgeStream ----------------------------
(***************************************************************************)
(* What the queue of an edge promises to the router that feeds it: a       *)
(* stream that takes frames while it is open, writes the DATA frames it    *)
(* took to the connection one by one, in the order in which it took them   *)
(* and without a gap, and once shut neither takes nor writes anything.     *)
(***************************************************************************)
EXTENDS Naturals, SequencesExt

VARIABLES accepted,  \* every frame the stream has taken
          written,   \* the frames written to the connection
          open       \* the stream takes and writes frames

streamVars == <<accepted, written, open>>

Init ==
    /\ accepted = <<>>
    /\ written = <<>>
    /\ open = TRUE

\* One or several frames are taken at once.
Accept ==
    /\ open
    /\ IsPrefix(accepted, accepted')
    /\ UNCHANGED <<written, open>>

\* The next frame is a DATA frame and reaches the connection.
Write ==
    /\ open
    /\ Len(written) < Len(accepted)
    /\ accepted[Len(written) + 1].act = "DATA"
    /\ written' = Append(written, accepted[Len(written) + 1])
    /\ UNCHANGED <<accepted, open>>

\* A closing frame or a failed write ends the stream; the rest is dropped.
Shut ==
    /\ open
    /\ open' = FALSE
    /\ UNCHANGED <<accepted, written>>

Next == Accept \/ Write \/ Shut

Spec == Init /\ [][Next]_streamVars
=============================================================================
