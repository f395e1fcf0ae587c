----------------------------- MODULE ReportPipe -----------------------------
(***************************************************************************)
(* What an interrupt endpoint promises to the program that polls it: the   *)
(* reports the device makes reach the program one by one, in the order in  *)
(* which they were made, none twice and none left out.                     *)
(***************************************************************************)
EXTENDS Naturals

CONSTANT MaxReports      (* bound on the reports made *)

VARIABLES made, got      (* reports made by the device, reports handed over *)

vars == <<made, got>>

Init == made = 0 /\ got = 0

Make == made < MaxReports /\ made' = made + 1 /\ UNCHANGED got

HandOver == got < made /\ got' = got + 1 /\ UNCHANGED made

Next == Make \/ HandOver

Spec == Init /\ [][Next]_vars

=============================================================================
