----------------------------- MODULE MCHidProbe -----------------------------
(***************************************************************************)
(* HidProbe in units of a quarter of a packet of endpoint 0: a keyboard    *)
(* with reports that fill a packet, a mouse with short ones, and devices   *)
(* that no driver takes: a keyboard that is the second interface, and one  *)
(* whose endpoint lies behind the end of bigbuf.                           *)
(***************************************************************************)
EXTENDS HidProbe

D(what, len) == [what |-> what, len |-> len]

Front == D("configuration", 5)

Device(conf, total, report, max) ==
  [conf |-> conf, total |-> total, ep |-> [report |-> report, max |-> max]]

MCDevices == {
  Device(<<Front, D("keyboard", 5), D("hid", 4), D("endpoint", 4)>>, 18, 4, 4),
  Device(<<Front, D("mouse", 5), D("endpoint", 4), D("keyboard", 5), D("endpoint", 4)>>, 23, 2, 4),
  Device(<<Front, D("interface", 5), D("keyboard", 5), D("endpoint", 4)>>, 19, 4, 4),
  Device(<<Front, D("keyboard", 5), D("hid", 14), D("endpoint", 4)>>, 28, 4, 4)}
=============================================================================
