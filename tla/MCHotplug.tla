----------------------------- MODULE MCHotplug ------------------------------
(***************************************************************************)
(* Hotplug on the machines of MCDiscovery.                                 *)
(***************************************************************************)
EXTENDS Hotplug, MCDiscovery
=============================================================================
