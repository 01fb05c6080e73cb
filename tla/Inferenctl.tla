----------------------------- MODULE Inferenctl -----------------------------
(***************************************************************************)
(* The command line (crates/inferenctl) against the Varlink server of the  *)
(* daemon (varlink/mod.rs) and the model registry behind it.  A command    *)
(* opens a connection of its own, makes its calls one after the other and  *)
(* ends; commands follow each other, other clients use the registry in     *)
(* between, and the daemon may die and be started again at any point.      *)
(* varlinkctl, which the documentation uses to explore the daemon, appears *)
(* as one more command, "probe".                                           *)
(*                                                                         *)
(* What the lease methods do to leases is the subject of Sessions; here    *)
(* only their replies count.                                               *)
(***************************************************************************)
EXTENDS ModelRegistry, VarlinkService

CONSTANT Prompts      \* sizes of the prompts given to exec

VARIABLES
  activated,  \* whether systemd holds the listening socket
  listener,   \* the listener's task: on, dead (accept failed) or off (no daemon)
  server,     \* the task of the command's connection, and the chunks it sent
  requests,   \* bytes on their way to the daemon: requests
  replies,    \* and back: pieces of replies
  ctl         \* the command: where it is and what it has made of the replies

wireVars == <<activated, listener, server, requests, replies>>
ctlVars == <<vars, wireVars, ctl>>

ASSUME PromptsAssumption == Prompts \subseteq Nat

\* What GetTopology reports is what the hardware has, however much clients create.
ASSUME LargeAssumption == "GetTopology" \notin Large

----------------------------------------------------------------------------
(* The commands.                                                            *)

\* A call, and what becomes of the command if it fails: it fails as well ("?"),
\* goes on with a default (unwrap_or_default), or does without the daemon.
Call(name, otherwise) == [iface |-> Systemd, name |-> name, otherwise |-> otherwise]
Ask(name, otherwise) == [iface |-> Service, name |-> name, otherwise |-> otherwise]

StatusCalls ==
  <<Call("GetTopology", "default"), Call("GetPressure", "default"),
    Call("ListLeases", "default")>>

\* Mutation: a list of leases that cannot be had is left out like the others.
DumpCallsLenient ==
  <<Call("GetTopology", "fail"), Call("GetPressure", "fail"),
    Call("ListLeases", "default"), Call("ListModels", "default"),
    Ask("GetInfo", "default")>>

DumpCalls ==
  <<Call("GetTopology", "fail"), Call("GetPressure", "fail"),
    Call("ListLeases", "fail"), Call("ListModels", "default"),
    Ask("GetInfo", "default")>>

\* Two iterations of run_benchmark.
BenchmarkCalls ==
  LET pair == <<Call("AcquireLease", "fail"), Call("ReleaseLease", "fail")>>
  IN <<Call("GetPressure", "fail"), Call("GetPressure", "fail")>> \o pair \o pair

\* The calls each command makes on its connection.  An iteration of monitor is
\* told from the next by nothing but its connection, so it is a command here.
Script(cmd) ==
  CASE cmd = "status" -> StatusCalls
    [] cmd = "dump" -> DumpCalls
    [] cmd = "benchmark" -> BenchmarkCalls
    [] cmd = "planes" -> <<Call("GetTopology", "fail")>>
    [] cmd = "leases" -> <<Call("ListLeases", "fail")>>
    [] cmd = "monitor" -> <<Call("GetPressure", "local")>>
    [] cmd = "inspect" -> <<Call("GetTopology", "local")>>
    [] cmd = "models" -> <<Call("ListModels", "fail")>>
    [] cmd = "freeze" -> <<Call("Freeze", "fail")>>
    [] cmd = "thaw" -> <<Call("Thaw", "fail")>>
    [] cmd = "register" -> <<Call("RegisterModel", "fail")>>
    [] cmd = "pin" -> <<Call("PinModel", "fail")>>
    [] cmd = "evict" -> <<Call("EvictModel", "fail")>>
    [] cmd = "warm" -> <<Call("StreamInference", "default")>>
    [] cmd = "exec" -> <<Call("StreamInference", "local")>>

Commands ==
  {"status", "dump", "benchmark", "planes", "leases", "monitor", "inspect", "models",
   "freeze", "thaw", "register", "pin", "evict", "warm", "exec"}

\* varlinkctl: the interfaces, the description of one, a method found there.
Probes ==
  {<<Ask("GetInfo", "fail"), Ask("GetInterfaceDescription", "fail"),
     [iface |-> im[1], name |-> im[2], otherwise |-> "fail"]>> :
       im \in {im \in Interfaces \X (ServiceMethods \cup SyntropMethods \cup SystemdMethods) :
               im[2] \in Described(im[1])}}

\* The commands that say so and succeed although they reached no daemon ...
DoesWithout(cmd) ==
  cmd \in {"status", "planes", "monitor", "inspect", "models", "register", "warm",
           "pin", "evict", "exec", "benchmark"}

\* ... and those that fail; planes does if "unreachable" is part of the socket's path.
FailsWithout(cmd) == ~DoesWithout(cmd) \/ cmd = "planes"

ModelHandlers == {"RegisterModel", "EvictModel", "PinModel"}

OnModel(cmd) == cmd \in {"register", "pin", "evict"}

----------------------------------------------------------------------------
(* The connection.                                                          *)

NoTask == [pc |-> "none", sent |-> 0]

Closed == server.pc = "closed"

\* The server drops the connection; what it wrote can still be read.
Hangup == server' = [server EXCEPT !.pc = "closed"]

----------------------------------------------------------------------------
(* The command.                                                             *)

Idle ==
  [cmd |-> "none", pc |-> "idle", calls |-> <<>>, at |-> 0, size |-> 0,
   model |-> "none", taken |-> <<>>, printed |-> 0, local |-> FALSE,
   effect |-> FALSE, exit |-> "none"]

TheCall == ctl.calls[ctl.at]

\* A command ends, and its connection with it.
Exit(c, how) ==
  /\ ctl' = [c EXCEPT !.pc = "over", !.exit = how]
  /\ server' = NoTask /\ requests' = <<>> /\ replies' = <<>>

\* A command that does without the daemon works on the machine's own data; only
\* inspect may find nothing there.
Local(c) ==
  \E how \in {"ok"} \cup (IF c.cmd = "inspect" THEN {"failed"} ELSE {}) :
    Exit([c EXCEPT !.local = TRUE], how)

\* The next call, with the replies left in the reader's buffer, or the end.
Proceed(c, left) ==
  IF c.at < Len(c.calls)
  THEN /\ ctl' = [c EXCEPT !.pc = "sending", !.at = @ + 1]
       /\ replies' = left
       /\ UNCHANGED <<server, requests>>
  ELSE Exit(c, "ok")

\* A call that returned Err.
CallFails(left) ==
  CASE TheCall.otherwise = "fail" -> Exit(ctl, "failed")
    [] TheCall.otherwise = "default" ->
         Proceed([ctl EXCEPT !.taken = Append(@, "default")], left)
    [] TheCall.otherwise = "local" -> Local(ctl)

\* VarlinkClient::connect: with socket activation systemd keeps the socket open
\* whatever the daemon does, else there must be a listener.
Begin(cmd, calls, size, model) ==
  LET c == [Idle EXCEPT !.cmd = cmd, !.calls = calls, !.size = size,
                        !.model = model, !.at = 1]
  IN /\ ctl.pc = "idle"
     /\ IF activated \/ listener = "on"
        THEN /\ ctl' = [c EXCEPT !.pc = "sending"]
             /\ server' = [NoTask EXCEPT !.pc = "queued"]
             /\ UNCHANGED <<requests, replies>>
        ELSE \/ DoesWithout(cmd) /\ Local(c)
             \/ FailsWithout(cmd) /\ Exit(c, "failed")
     /\ UNCHANGED <<vars, activated, listener>>

\* Only exec's prompt and the model commands' model make a difference.
AnyModel == CHOOSE m \in ModelIds : TRUE

Start(cmd, size, model) ==
  /\ cmd = "exec" \/ size = 0
  /\ OnModel(cmd) \/ model = AnyModel
  /\ Begin(cmd, Script(cmd), size, model)

Probe(calls, model) ==
  /\ calls[3].name \in ModelHandlers \/ model = AnyModel
  /\ Begin("probe", calls, 0, model)

SendRequest ==
  /\ ctl.pc = "sending" /\ ~Closed
  /\ requests' = Append(requests, TheCall)
  /\ ctl' = [ctl EXCEPT !.pc = "waiting"]
  /\ UNCHANGED <<vars, activated, listener, server, replies>>

SendFails ==
  /\ ctl.pc = "sending" /\ Closed
  /\ CallFails(replies)
  /\ UNCHANGED <<vars, activated, listener>>

\* The request is longer than what the server reads.
Oversized == RequestFrame + ctl.size > Limit

\* VarlinkClient::call takes one piece for its reply: an error, a fragment and a
\* tail are failures, and what follows them stays in the reader.  inspect looks at
\* the machine itself for a plane that the reply does not have.
TakeReply ==
  LET answered == [ctl EXCEPT !.taken = Append(@, Head(replies).of)]
  IN /\ ctl.pc = "waiting" /\ ctl.cmd # "exec" /\ replies # <<>>
     /\ \/ Head(replies).kind = "ok" /\ Proceed(answered, Tail(replies))
        \/ Head(replies).kind = "ok" /\ ctl.cmd = "inspect" /\ Local(answered)
        \/ Head(replies).kind # "ok" /\ CallFails(Tail(replies))
     /\ UNCHANGED <<vars, activated, listener>>

\* VarlinkClient::stream_call prints each chunk as it comes.
TakeChunk ==
  /\ ctl.pc = "waiting" /\ ctl.cmd = "exec" /\ replies # <<>>
  /\ LET piece == Head(replies)
         more == [ctl EXCEPT !.printed = @ + 1]
     IN IF piece.kind # "ok" THEN CallFails(Tail(replies))
        ELSE IF piece.continues
             THEN ctl' = more /\ replies' = Tail(replies)
                  /\ UNCHANGED <<server, requests>>
             ELSE Exit(more, "ok")
  /\ UNCHANGED <<vars, activated, listener>>

\* The server has hung up.  A read gives end of file, which a stream takes for its
\* end, or an error if the server left bytes of a request unread.
EndOfFile ==
  /\ ctl.pc = "waiting" /\ replies = <<>> /\ Closed
  /\ \/ requests = <<>> /\ ctl.cmd = "exec" /\ Exit(ctl, "ok")
     \/ (requests # <<>> \/ Oversized \/ ctl.cmd # "exec") /\ CallFails(<<>>)
  /\ UNCHANGED <<vars, activated, listener>>

Again ==
  /\ ctl.pc = "over"
  /\ ctl' = Idle
  /\ UNCHANGED <<vars, wireVars>>

----------------------------------------------------------------------------
(* The Varlink server.                                                      *)

Accept ==
  /\ listener = "on" /\ server.pc = "queued"
  /\ server' = [server EXCEPT !.pc = "reading"]
  /\ UNCHANGED <<vars, activated, listener, requests, replies, ctl>>

\* accept().await? : one error, such as a full table of descriptors, ends the
\* listener for the rest of the daemon's life.
AcceptFails ==
  /\ listener = "on" /\ server.pc = "queued"
  /\ listener' = "dead"
  /\ IF activated THEN UNCHANGED server ELSE Hangup
  /\ UNCHANGED <<vars, activated, requests, replies, ctl>>

\* The request at hand and its handler.
TheRequest == Head(requests)
TheHandler == HandlerOf(TheRequest.iface, TheRequest.name)

Reading == server.pc = "reading" /\ requests # <<>>

\* read_until stops at the limit: what it has is no JSON, and the loop ends.
ParseError ==
  /\ Reading /\ Oversized
  /\ Hangup
  /\ requests' = Tail(requests)
  /\ UNCHANGED <<vars, activated, listener, replies, ctl>>

\* write_all of a reply, here and in SendChunk.  It may take several writes; a reader
\* takes nothing before the end of a piece, so that matters only if the daemon dies
\* in between (Torn).  Only replies of the methods in Large may be longer than a
\* client reads at once.
Write(reply) ==
  \E size \in {0} \cup (IF reply.of \in Large /\ reply.kind = "ok"
                        THEN {Limit + 1} ELSE {}) :
    replies' = replies \o Pieces(reply, size)

\* The handlers that look something up or are about leases, and the methods that
\* have no handler.
ServeQuery ==
  /\ Reading /\ ~Oversized
  /\ TheHandler \notin ModelHandlers \cup {"StreamInference"}
  /\ \E kind \in IF TheHandler = "none" THEN {"unknown"}
                 ELSE {"ok"} \cup (IF ErrorsOf(TheHandler) = {} THEN {} ELSE {"error"}) :
       Write(Reply(kind, TheRequest.name, FALSE))
  /\ requests' = Tail(requests)
  /\ UNCHANGED <<vars, activated, listener, server, ctl>>

\* What a command on a model is for, in the registry ms.
Achieved(handler, ms) ==
  CASE handler = "RegisterModel" -> ctl.model \in DOMAIN ms
    [] handler = "EvictModel" -> ctl.model \notin DOMAIN ms
    [] handler = "PinModel" -> ctl.model \in Pinned(ms)

\* Mutation: pinning a model that is not there is no error.
ServeModelLenient ==
  LET id == ctl.model
      h == TheHandler
  IN /\ Reading /\ ~Oversized /\ h \in ModelHandlers
     /\ \/ h = "RegisterModel" /\ \E stamp \in 0 .. now : RegisterModel(id, stamp)
        \/ h = "EvictModel" /\ EvictModel(id)
        \/ h = "PinModel" /\ PinModel(id)
        \/ h # "RegisterModel" /\ id \notin DOMAIN models /\ UNCHANGED vars
     /\ ctl' = [ctl EXCEPT !.effect = Achieved(h, models')]
     /\ replies' = Append(replies, Reply("ok", TheRequest.name, FALSE))
     /\ requests' = Tail(requests)
     /\ UNCHANGED <<activated, listener, server>>

\* handle_register_model, handle_evict_model and handle_pin_model.
ServeModel ==
  LET id == ctl.model
      h == TheHandler
      known == h = "RegisterModel" \/ id \in DOMAIN models
  IN /\ Reading /\ ~Oversized /\ h \in ModelHandlers
     /\ \/ h = "RegisterModel" /\ \E stamp \in 0 .. now : RegisterModel(id, stamp)
        \/ h = "EvictModel" /\ EvictModel(id)
        \/ h = "PinModel" /\ PinModel(id)
        \/ ~known /\ UNCHANGED vars
     /\ ctl' = [ctl EXCEPT !.effect = Achieved(h, models')]
     /\ replies' = Append(replies, Reply(IF known THEN "ok" ELSE "error",
                                         TheRequest.name, FALSE))
     /\ requests' = Tail(requests)
     /\ UNCHANGED <<activated, listener, server>>

\* handle_stream_inference writes its chunks one by one, to a client that asked
\* for a stream and to one that did not; warm is gone after the first.
ServeStream ==
  /\ Reading /\ ~Oversized /\ TheHandler = "StreamInference"
  /\ server' = [server EXCEPT !.pc = "streaming"]
  /\ requests' = Tail(requests)
  /\ UNCHANGED <<vars, activated, listener, replies, ctl>>

\* Mutation: the loop over the chunks never ends.
SendChunkForever ==
  LET i == server.sent + 1
  IN /\ server.pc = "streaming"
     /\ replies' = replies \o Pieces(Reply("ok", "StreamInference", Continues(i)),
                                     ChunkSize(i, ctl.size))
     /\ server' = [server EXCEPT !.sent = i]
     /\ UNCHANGED <<vars, activated, listener, requests, ctl>>

SendChunk ==
  LET i == server.sent + 1
  IN /\ server.pc = "streaming"
     /\ replies' = replies \o Pieces(Reply("ok", "StreamInference", Continues(i)),
                                     ChunkSize(i, ctl.size))
     /\ server' = IF i < Chunks THEN [server EXCEPT !.sent = i]
                  ELSE [pc |-> "reading", sent |-> 0]
     /\ UNCHANGED <<vars, activated, listener, requests, ctl>>

----------------------------------------------------------------------------
(* Around them.                                                             *)

\* What a reader finds if the task that writes dies: of the last piece all of it, none
\* of it, or a part that ends without a NUL.
Torn(rs) ==
  LET last == Len(rs)
  IN {rs} \cup (IF rs = <<>> THEN {} ELSE
       {SubSeq(rs, 1, last - 1)} \cup
       (IF rs[last].kind = "tail" THEN {}
        ELSE {[rs EXCEPT ![last] = Fragment(rs[last].of)]}))

\* The daemon ends, and the registry with it.  Connections nobody accepted yet
\* wait on with systemd's socket, the others are closed.
DaemonDies ==
  /\ listener # "off"
  /\ listener' = "off"
  /\ models' = [m \in {} |-> {}]
  /\ IF server.pc = "none" \/ (server.pc = "queued" /\ activated)
     THEN UNCHANGED server ELSE Hangup
  /\ IF server.pc \in {"reading", "streaming"}
     THEN replies' \in Torn(replies) ELSE UNCHANGED replies
  /\ UNCHANGED <<now, peakPins, activated, requests, ctl>>

DaemonStarts ==
  /\ listener = "off"
  /\ listener' = "on"
  /\ UNCHANGED <<vars, activated, server, requests, replies, ctl>>

\* Other clients register, evict and pin models over connections of their own.
Others == listener # "off" /\ Next /\ UNCHANGED <<wireVars, ctl>>

CtlInit ==
  /\ Init
  /\ activated \in BOOLEAN
  /\ listener = "on"
  /\ server = NoTask /\ requests = <<>> /\ replies = <<>>
  /\ ctl = Idle

Client == SendRequest \/ SendFails \/ TakeReply \/ TakeChunk \/ EndOfFile

Server == ParseError \/ ServeQuery \/ ServeModel \/ ServeStream \/ SendChunk

CtlNext ==
  \/ \E model \in ModelIds :
       \/ \E cmd \in Commands, size \in Prompts \cup {0} : Start(cmd, size, model)
       \/ \E calls \in Probes : Probe(calls, model)
  \/ Client \/ Again \/ Accept \/ AcceptFails \/ Server
  \/ DaemonDies \/ DaemonStarts \/ Others

\* The command and the connection's task run on.  systemd starts the daemon again,
\* and one that is started again and again gets to accept at last.
CtlSpec ==
  /\ CtlInit /\ [][CtlNext]_ctlVars
  /\ WF_ctlVars(Client) /\ WF_ctlVars(Server) /\ WF_ctlVars(DaemonStarts)
  /\ SF_ctlVars(Accept)

----------------------------------------------------------------------------
(* Properties.                                                              *)

\* Every component has its type: a stream sends no more than its four chunks, and
\* a command makes no more calls than it has.
CtlTypeOK ==
  /\ activated \in BOOLEAN
  /\ listener \in {"on", "dead", "off"}
  /\ server \in [pc : {"none", "queued", "reading", "streaming", "closed"},
                 sent : 0 .. Chunks - 1]
  /\ ctl.pc \in {"idle", "sending", "waiting", "over"}
  /\ ctl.exit \in {"none", "ok", "failed"}
  /\ ctl.pc # "idle" => ctl.at \in DOMAIN ctl.calls

\* No reply is taken for the answer to another question.  A list that is longer
\* than 1 MiB leaves its tail in the reader, so a command that went on calling
\* after it would be one reply behind.
AnswersMatch ==
  \A i \in DOMAIN ctl.taken : ctl.taken[i] \in {"default", ctl.calls[i].name}

\* A method that the daemon describes is one that it serves: neither inferenctl
\* nor a client that found the method in a description is told MethodNotFound.
DescribedIsServed == \A i \in DOMAIN replies : replies[i].kind # "unknown"

\* What exec prints comes from the daemon or from inferenctl's own text, and from both
\* in one case only: chunks were printed when the daemon died in the middle of the
\* next, and the part that was written is all that is left to read.  A daemon that
\* lives never sends a chunk that inferenctl does not take.
OneAnswer ==
  [][ctl.cmd = "exec" /\ ctl.printed > 0 /\ ~ctl.local /\ ctl'.local
       => Closed /\ replies = <<Fragment("StreamInference")>>]_ctlVars

\* A command on a model that reached the daemon and reports success has had its
\* effect, whatever became of the daemon and of the model in between.
ReportedIsDone ==
  OnModel(ctl.cmd) /\ ctl.exit = "ok" /\ ~ctl.local => ctl.effect

\* No client takes a pin from another's model: while the daemon lives, a model
\* that is pinned is spared by every command that does not name it.
PinsAreKept == [][listener' = "off" \/ PinnedStep]_ctlVars

\* Every command ends, whether or not the daemon answers, dies or is started
\* again, unless the listener gave up while systemd holds the socket open.
CommandsEnd ==
  ctl.pc \in {"sending", "waiting"} ~> ctl.pc \in {"over", "idle"} \/ listener = "dead"
=============================================================================
