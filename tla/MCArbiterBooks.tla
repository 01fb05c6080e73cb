--------------------------- MODULE MCArbiterBooks ---------------------------
(***************************************************************************)
(* The audited arbiter on the machine of MCArbiter without its NPU: all    *)
(* memory is RAM that the CPU plane and the integrated GPU share.          *)
(***************************************************************************)
EXTENDS ArbiterBooks, MCArbiter

mcSharedHosts == {Host(4, {}, {igpu}), Host(3, {}, {})}
=============================================================================
