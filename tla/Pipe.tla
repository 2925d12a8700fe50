-------------------------------- MODULE Pipe --------------------------------
(***************************************************************************)
(* What a compressed stream promises the two applications at its ends: a   *)
(* pipe.  A writer hands over a text piece by piece and at last ends it;   *)
(* what comes out on the other side is what went in, in order, and nothing *)
(* else.                                                                   *)
(***************************************************************************)
EXTENDS Naturals, Sequences

VARIABLES text,     \* what the writer writes, from its beginning
          written,  \* how much of it was handed over
          ended,    \* whether that was all
          read      \* what came out

Init == written = 0 /\ ended = FALSE /\ read = <<>>

Write(n, last) ==
  /\ ~ended
  /\ written' = written + n /\ ended' = last
  /\ UNCHANGED <<text, read>>

Read(n) ==
  /\ read' = read \o SubSeq(text, Len(read) + 1, Len(read) + n)
  /\ UNCHANGED <<text, written, ended>>

Next ==
  \/ \E n \in 0..(Len(text) - written), last \in BOOLEAN : Write(n, last)
  \/ \E n \in 1..(written - Len(read)) : Read(n)

Spec == Init /\ [][Next]_<<text, written, ended, read>>
=============================================================================
