----------------------------- MODULE ByteStream -----------------------------
(***************************************************************************)
(* What a buffered character device promises in each direction: the        *)
(* characters that were accepted come out in the order in which they went  *)
(* in, each once.  Characters are told apart by their number modulo K.     *)
(***************************************************************************)
EXTENDS Naturals, Sequences

CONSTANT K

VARIABLES
  fed,      (* the last character that was accepted                        *)
  q,        (* what is under way                                           *)
  heard     (* the last character that came out                            *)

vars == <<fed, q, heard>>

Init == fed = 0 /\ q = <<>> /\ heard = 0

Feed ==
  \E n \in 1 .. K - 1 :
    /\ fed' = (fed + n) % K
    /\ q' = q \o [i \in 1 .. n |-> (fed + i) % K]
    /\ UNCHANGED heard

Hear ==
  \E n \in 1 .. Len(q) :
    /\ heard' = q[n]
    /\ q' = SubSeq(q, n + 1, Len(q))
    /\ UNCHANGED fed

Next == Feed \/ Hear

Spec == Init /\ [][Next]_vars

=============================================================================
