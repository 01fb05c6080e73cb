--------------------------- MODULE VarlinkService ---------------------------
(***************************************************************************)
(* What a Varlink request means to the daemon: the interfaces it describes *)
(* (varlink/service.rs), the handler each method reaches (varlink/mod.rs,  *)
(* inferenced1.rs) and the replies that handler may send (protocol.rs,     *)
(* leases.rs, models.rs).  A method is an interface and a name; sizes are  *)
(* in an abstract unit.                                                    *)
(***************************************************************************)
EXTENDS Naturals, Sequences

CONSTANTS
  Limit,          \* 1 MiB: neither side reads more than this as one message
  RequestFrame,   \* bytes of a StreamInference request beside its prompt
  ChunkFrame,     \* bytes of a streamed reply beside its chunk
  Large           \* the methods whose reply grows with what clients create

ASSUME FramingAssumption ==
  /\ Limit \in Nat /\ RequestFrame \in Nat /\ ChunkFrame \in Nat
  /\ ChunkFrame <= RequestFrame /\ RequestFrame <= Limit

----------------------------------------------------------------------------
(* The interfaces.                                                          *)

Service == "org.varlink.service"
Syntrop == "io.syntrop.Inference1"
Systemd == "io.systemd.inferenced1"

\* handle_get_info
Interfaces == {Service, Syntrop, Systemd}

\* The methods of io.syntrop.Inference1 in its description.
SyntropMethods ==
  {"GetStatus", "ListPlanes", "GetTopology", "GetPressure", "AcquireLease",
   "ReleaseLease", "Yield", "Freeze", "Thaw", "ListLeases", "ListModels",
   "RegisterModel", "EvictModel", "PinModel", "StreamInference"}

\* And those of io.systemd.inferenced1, described apart.
SystemdMethods ==
  {"GetStatus", "ListPlanes", "GetTopology", "GetPressure", "AcquireLease",
   "ReleaseLease", "Yield", "Freeze", "Thaw", "ListLeases", "ListModels",
   "RegisterModel", "EvictModel", "PinModel", "StreamInference"}

ServiceMethods == {"GetInfo", "GetInterfaceDescription"}

\* handle_get_interface_description of an interface that is there.
Described(iface) ==
  CASE iface = Service -> ServiceMethods
    [] iface = Syntrop -> SyntropMethods
    [] iface = Systemd -> SystemdMethods

----------------------------------------------------------------------------
(* Dispatch.                                                                *)

\* Mutation: the dispatcher knows the method under its new name only.
HandlerOfRenamed(iface, name) ==
  IF iface = Service THEN IF name \in ServiceMethods THEN name ELSE "none"
  ELSE CASE name \in {"GetStatus", "GetInfo"} -> "GetStatus"
         [] name \in {"ListPlanes", "ListDevices"} -> "ListPlanes"
         [] name = "FreezeLease" -> "Freeze"
         [] name \in {"Thaw", "ThawLease"} -> "Thaw"
         [] name \in SystemdMethods \ {"Freeze"} -> name
         [] OTHER -> "none"

\* The handler of a method: the two of org.varlink.service first, then, under
\* either of the daemon's own prefixes, the same names and aliases.
HandlerOf(iface, name) ==
  IF iface = Service THEN IF name \in ServiceMethods THEN name ELSE "none"
  ELSE CASE name \in {"GetStatus", "GetInfo"} -> "GetStatus"
         [] name \in {"ListPlanes", "ListDevices"} -> "ListPlanes"
         [] name \in {"Freeze", "FreezeLease"} -> "Freeze"
         [] name \in {"Thaw", "ThawLease"} -> "Thaw"
         [] name \in {"GetTopology", "GetPressure", "AcquireLease", "ReleaseLease",
                      "Yield", "ListLeases", "ListModels", "RegisterModel",
                      "EvictModel", "PinModel", "StreamInference"} -> name
         [] OTHER -> "none"

\* The errors a handler may answer with, beside what the registry decides.
\* Requests here always carry parameters, and ids that are well formed.
ErrorsOf(handler) ==
  CASE handler \in {"AcquireLease", "Thaw"} -> {"ResourceExhaustion"}
    [] handler \in {"ReleaseLease", "Yield", "Freeze"} -> {"LeaseNotFound"}
    [] OTHER -> {}

----------------------------------------------------------------------------
(* Messages.  A reader takes at most Limit bytes up to a NUL, so a message   *)
(* that is longer is read in pieces: fragments without a NUL and a tail that *)
(* ends in one but is not JSON.                                             *)

\* VarlinkReply::ok, ::streaming and ::error; "of" tells what it answers.
Reply(kind, of, continues) == [kind |-> kind, of |-> of, continues |-> continues]

Fragment(of) == Reply("fragment", of, FALSE)
TailPiece(of) == Reply("tail", of, FALSE)

\* What a reader finds of a reply that takes size bytes.
Pieces(reply, size) ==
  IF size <= Limit THEN <<reply>> ELSE <<Fragment(reply.of), TailPiece(reply.of)>>

\* The four chunks of handle_stream_inference; the third is the prompt.
Chunks == 4

\* Mutation: continues is computed as i < tokens.len().
ContinuesAlways(i) == i <= Chunks

Continues(i) == i < Chunks

\* Mutation: the chunk repeats the whole request.
ChunkSizeOfRequest(i, prompt) == ChunkFrame + RequestFrame + (IF i = 3 THEN prompt ELSE 0)

ChunkSize(i, prompt) == ChunkFrame + (IF i = 3 THEN prompt ELSE 0)
=============================================================================
