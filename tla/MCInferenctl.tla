---------------------------- MODULE MCInferenctl ----------------------------
(***************************************************************************)
(* Two models in a registry of one, so that a registration evicts and, if  *)
(* the first model is pinned, makes the registry grow.  Of the prompts one *)
(* fits easily, one just fits the request and one does not.                *)
(***************************************************************************)
EXTENDS Inferenctl

mcLarge == {"ListLeases", "ListModels"}
=============================================================================
