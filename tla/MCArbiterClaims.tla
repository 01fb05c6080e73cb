-------------------------- MODULE MCArbiterClaims ---------------------------
(***************************************************************************)
(* The claims on the machine of MCArbiter, with nothing ever unplugged.    *)
(***************************************************************************)
EXTENDS ArbiterClaims, MCArbiter

\* Everything plugged in, all the time.
mcFixedHost == {Host(4, {npu}, {igpu})}
=============================================================================
