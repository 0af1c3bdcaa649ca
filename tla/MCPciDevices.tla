---------------------------- MODULE MCPciDevices ----------------------------
(* The first driver has two of the four devices and the second the others; *)
(* the ids of the second match a device of the first as well, as those of  *)
(* the HD audio driver, the last but one of cardcalls, match every device  *)
(* of a vendor.  One device is the first of its bus.  Two more devices are *)
(* no cards: the first driver looks for one, which the ids of the second   *)
(* match too, and the second driver for the other, by its vendor.          *)
EXTENDS PciDevices

MCMatches == <<{1, 3}, {2, 4}>>
MCClaims == <<{1, 3}, {2, 3, 4, 5}>>
MCSeeks == <<{5}, {6}>>
MCAdapterNumbers == {-1, 0, 1}
=============================================================================
