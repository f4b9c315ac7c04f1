------------------------------ MODULE RPCCalls ------------------------------
(***************************************************************************)
(* The four gRPC services, and a call of one of them from the client's     *)
(* stub to the implementation and back.                                    *)
(*                                                                         *)
(* First what the generated code binds: what each client stub asks for,    *)
(* what each service description offers under a name, what each handler    *)
(* does before it calls the implementation, and what an implementation     *)
(* answers for a method it does not have.  Messages and metadata are left  *)
(* out; full method names, stream indexes and stream shapes are kept, for  *)
(* they are what binds a client to a handler.                              *)
(*                                                                         *)
(* Then the call, between processes that are upgraded apart: the server    *)
(* may be of an older build that describes fewer methods, its              *)
(* implementation may have fewer than it describes, it may have an         *)
(* interceptor, and it may stop or be replaced at any step of the call.    *)
(***************************************************************************)
EXTENDS Naturals, Sequences, FiniteSets, TLC

(* A client stub: the full name it invokes and, for a stream, the entry of   *)
(* the client's own description it opens (counted from 0 in the code) and    *)
(* whether it sends its one request and closes its side before it returns.   *)
Invoke(service, methods) ==
    [m \in methods |-> [full |-> <<service, m>>, stream |-> {}, sendsOne |-> TRUE]]
SendsOne(service, m, i) == m :> [full |-> <<service, m>>, stream |-> {i}, sendsOne |-> TRUE]
Opens(service, m, i) == m :> [full |-> <<service, m>>, stream |-> {i}, sendsOne |-> FALSE]

(* A handler: the method it calls, whether it reads the request first, and   *)
(* whether it is the one that runs the interceptor.                          *)
UnaryHandlers(methods) == [m \in methods |-> [calls |-> m, reads |-> TRUE, unary |-> TRUE]]
RequestHandlers(methods) == [m \in methods |-> [calls |-> m, reads |-> TRUE, unary |-> FALSE]]
StreamHandlers(methods) == [m \in methods |-> [calls |-> m, reads |-> FALSE, unary |-> FALSE]]

(* An entry of a service description. *)
Bind(m) == [name |-> m, handler |-> m]
ServerStreams(m) == [name |-> m, handler |-> m, server |-> TRUE, client |-> FALSE]
ClientStreams(m) == [name |-> m, handler |-> m, server |-> FALSE, client |-> TRUE]
BothStream(m) == [name |-> m, handler |-> m, server |-> TRUE, client |-> TRUE]
Binds(names) == [i \in 1..Len(names) |-> Bind(names[i])]

(* The server an implementation embeds answers for every method it lacks. *)
AllUnimplemented(interface) == [m \in {interface[i] : i \in 1..Len(interface)} |-> "Unimplemented"]

-----------------------------------------------------------------------------
(* Runtime: what the provider calls and runtimed serves. *)
Runtime_Name == "k3sm.runtime.v1.Runtime"
RuntimeServer ==
    <<"CreatePod", "DeletePod", "UpdatePod", "WatchPodStatus", "GetPodStatus", "GetLogs", "Exec", "Attach",
      "PortForward", "GetRuntimeInfo", "ListPodStats", "RestartContainer", "StartContainer", "ReopenContainerLog",
      "StopContainer">>
Runtime_Unary ==
    {"CreatePod", "DeletePod", "UpdatePod", "GetPodStatus", "GetRuntimeInfo", "ListPodStats", "RestartContainer",
     "StartContainer", "ReopenContainerLog", "StopContainer"}

runtimeClient ==
    Invoke(Runtime_Name, Runtime_Unary)
      @@ SendsOne(Runtime_Name, "WatchPodStatus", 0) @@ SendsOne(Runtime_Name, "GetLogs", 1)
      @@ Opens(Runtime_Name, "Exec", 2) @@ Opens(Runtime_Name, "Attach", 3) @@ Opens(Runtime_Name, "PortForward", 4)

Runtime_Handlers ==
    UnaryHandlers(Runtime_Unary) @@ RequestHandlers({"WatchPodStatus", "GetLogs"})
      @@ StreamHandlers({"Exec", "Attach", "PortForward"})

(* An embedded server that answers for a method as if it had run. *)
UnimplementedRuntimeServer_Succeeds == [AllUnimplemented(RuntimeServer) EXCEPT !["StopContainer"] = "OK"]

UnimplementedRuntimeServer == AllUnimplemented(RuntimeServer)

Runtime_ServiceDesc ==
    [name |-> Runtime_Name,
     methods |-> Binds(<<"CreatePod", "DeletePod", "UpdatePod", "GetPodStatus", "GetRuntimeInfo", "ListPodStats",
                         "RestartContainer", "StartContainer", "ReopenContainerLog", "StopContainer">>),
     streams |-> <<ServerStreams("WatchPodStatus"), ServerStreams("GetLogs"), BothStream("Exec"),
                   BothStream("Attach"), BothStream("PortForward")>>]

-----------------------------------------------------------------------------
(* Images: the node's image store. *)
Images_Name == "k3sm.runtime.v1.Images"
ImagesServer ==
    <<"ListImages", "ImageFsInfo", "RemoveImage", "PruneImages", "LoadImage", "PullImage", "TagImage", "UntagImage",
      "InspectImage", "SaveImage", "PullArtifact">>
Images_Unary ==
    {"ListImages", "ImageFsInfo", "RemoveImage", "PruneImages", "PullImage", "TagImage", "UntagImage", "InspectImage",
     "PullArtifact"}

imagesClient ==
    Invoke(Images_Name, Images_Unary)
      @@ Opens(Images_Name, "LoadImage", 0) @@ SendsOne(Images_Name, "SaveImage", 1)

Images_Handlers == UnaryHandlers(Images_Unary) @@ StreamHandlers({"LoadImage"}) @@ RequestHandlers({"SaveImage"})

UnimplementedImagesServer == AllUnimplemented(ImagesServer)

Images_ServiceDesc ==
    [name |-> Images_Name,
     methods |-> Binds(<<"ListImages", "ImageFsInfo", "RemoveImage", "PruneImages", "PullImage", "TagImage",
                         "UntagImage", "InspectImage", "PullArtifact">>),
     streams |-> <<ClientStreams("LoadImage"), ServerStreams("SaveImage")>>]

-----------------------------------------------------------------------------
(* GuestAgent: what runtimed calls inside a vm pod. *)
GuestAgent_Name == "k3sm.guest.v1.GuestAgent"
GuestAgentServer ==
    <<"Health", "ContainerEvents", "Exec", "Logs", "Stats", "Stop", "Attach", "RestartContainer", "PublishBudget">>
GuestAgent_Unary == {"Health", "Stats", "Stop", "RestartContainer", "PublishBudget"}

guestAgentClient ==
    Invoke(GuestAgent_Name, GuestAgent_Unary)
      @@ SendsOne(GuestAgent_Name, "ContainerEvents", 0) @@ Opens(GuestAgent_Name, "Exec", 1)
      @@ SendsOne(GuestAgent_Name, "Logs", 2) @@ Opens(GuestAgent_Name, "Attach", 3)

GuestAgent_Handlers ==
    UnaryHandlers(GuestAgent_Unary) @@ RequestHandlers({"ContainerEvents", "Logs"}) @@ StreamHandlers({"Exec", "Attach"})

UnimplementedGuestAgentServer == AllUnimplemented(GuestAgentServer)

GuestAgent_ServiceDesc ==
    [name |-> GuestAgent_Name,
     methods |-> Binds(<<"Health", "Stats", "Stop", "RestartContainer", "PublishBudget">>),
     streams |-> <<ServerStreams("ContainerEvents"), BothStream("Exec"), ServerStreams("Logs"), BothStream("Attach")>>]

-----------------------------------------------------------------------------
(* ContainerShim: what runtimed calls in a native container's shim. *)
ContainerShim_Name == "k3sm.shim.v1.ContainerShim"
ContainerShimServer == <<"Status", "Exec", "Follow", "Signal", "ReopenLog">>
ContainerShim_Unary == {"Status", "Signal", "ReopenLog"}

containerShimClient ==
    Invoke(ContainerShim_Name, ContainerShim_Unary)
      @@ Opens(ContainerShim_Name, "Exec", 0) @@ SendsOne(ContainerShim_Name, "Follow", 1)

ContainerShim_Handlers ==
    UnaryHandlers(ContainerShim_Unary) @@ StreamHandlers({"Exec"}) @@ RequestHandlers({"Follow"})

UnimplementedContainerShimServer == AllUnimplemented(ContainerShimServer)

ContainerShim_ServiceDesc ==
    [name |-> ContainerShim_Name,
     methods |-> Binds(<<"Status", "Signal", "ReopenLog">>),
     streams |-> <<BothStream("Exec"), ServerStreams("Follow")>>]

-----------------------------------------------------------------------------
Services == {"Runtime", "Images", "GuestAgent", "ContainerShim"}
Client(s) == CASE s = "Runtime" -> runtimeClient [] s = "Images" -> imagesClient
               [] s = "GuestAgent" -> guestAgentClient [] s = "ContainerShim" -> containerShimClient
Interface(s) == CASE s = "Runtime" -> RuntimeServer [] s = "Images" -> ImagesServer
                  [] s = "GuestAgent" -> GuestAgentServer [] s = "ContainerShim" -> ContainerShimServer
Handlers(s) == CASE s = "Runtime" -> Runtime_Handlers [] s = "Images" -> Images_Handlers
                 [] s = "GuestAgent" -> GuestAgent_Handlers [] s = "ContainerShim" -> ContainerShim_Handlers
Desc(s) == CASE s = "Runtime" -> Runtime_ServiceDesc [] s = "Images" -> Images_ServiceDesc
             [] s = "GuestAgent" -> GuestAgent_ServiceDesc [] s = "ContainerShim" -> ContainerShim_ServiceDesc
Embedded(s) == CASE s = "Runtime" -> UnimplementedRuntimeServer [] s = "Images" -> UnimplementedImagesServer
                 [] s = "GuestAgent" -> UnimplementedGuestAgentServer
                 [] s = "ContainerShim" -> UnimplementedContainerShimServer

VARIABLES service,  \* the service under way
          server,   \* the serving process, or how it ended
          call,     \* the client's call
          ran       \* the implementation methods the call ran, in order
vars == <<service, server, call, ran>>

Methods(s) == {Interface(s)[i] : i \in 1..Len(Interface(s))}
Upto(s, n) == {Interface(s)[i] : i \in 1..n}

(* A process: the methods its build describes, a prefix of the interface,    *)
(* those its implementation has, whether the embedded Unimplemented server   *)
(* is there, and whether it was given an interceptor.                        *)
Processes(s) ==
    {[state |-> "down", build |-> Upto(s, n), has |-> has, embedded |-> e, intercepts |-> i] :
       n \in {Len(Interface(s)) - 2, Len(Interface(s))},
       has \in {Methods(s), Upto(s, Len(Interface(s)) - 1), Methods(s) \ Upto(s, 4)},
       e \in {"value", "nil pointer"}, i \in BOOLEAN}

(* owed: the server that took the call has an interceptor; seen: it admitted *)
(* or refused the call.                                                      *)
NoCall == [method |-> "", phase |-> "idle", owed |-> FALSE, seen |-> FALSE, result |-> ""]

Init ==
    /\ service \in Services /\ server \in Processes(service)
    /\ call = NoCall /\ ran = <<>>

-----------------------------------------------------------------------------

(* A nil embedded server makes the registration panic, and the process with  *)
(* it: it never serves.                                                      *)
Register ==
    /\ server.state = "down"
    /\ server' = [server EXCEPT !.state = IF server.embedded = "nil pointer" THEN "panicked at start" ELSE "serving"]
    /\ UNCHANGED <<service, call, ran>>

(* The server stops, or is replaced by a process of another build. *)
Replace(p) ==
    /\ p # server /\ server' = p
    /\ call' = IF call.phase \in {"sent", "handling", "answered"}
                 THEN [call EXCEPT !.phase = "done", !.result = "Unavailable"] ELSE call
    /\ UNCHANGED <<service, ran>>

-----------------------------------------------------------------------------
(* The stub of method m: a unary call sends its request at once, a stream is *)
(* opened first.                                                             *)
Call(m) ==
    /\ call.phase = "idle"
    /\ call' = [NoCall EXCEPT !.method = m, !.phase = IF Client(service)[m].stream = {} THEN "sent" ELSE "opened"]
    /\ UNCHANGED <<service, server, ran>>

(* The rest of a streaming stub: a failed send or close returns the error. *)
Send(fails) ==
    /\ call.phase = "opened"
    /\ call' = IF fails \/ server.state # "serving"
                 THEN [call EXCEPT !.phase = "done", !.result = "Unavailable"]
                 ELSE [call EXCEPT !.phase = "sent"]
    /\ UNCHANGED <<service, server, ran>>

(* What the server describes under the name the stub asked for. *)
Offered(full) ==
    IF full[1] # Desc(service).name \/ full[2] \notin server.build THEN {}
    ELSE {Desc(service).methods[i].handler : i \in {j \in 1..Len(Desc(service).methods) :
                                                      Desc(service).methods[j].name = full[2]}}
           \cup {Desc(service).streams[i].handler : i \in {j \in 1..Len(Desc(service).streams) :
                                                      Desc(service).streams[j].name = full[2]}}

(* The server's answer, which the client may never get. *)
Answer(code, seen) == call' = [call EXCEPT !.phase = "answered", !.result = code, !.seen = seen]
Lost == call' = [call EXCEPT !.phase = "done", !.result = "Unavailable"]

(* The transport finds the handler by the full name alone. *)
Dispatch ==
    /\ call.phase = "sent"
    /\ IF server.state # "serving" THEN Lost
       ELSE IF Offered(Client(service)[call.method].full) = {} THEN Answer("Unimplemented", FALSE)
       ELSE call' = [call EXCEPT !.phase = "handling", !.owed = server.intercepts]
    /\ UNCHANGED <<service, server, ran>>

TheHandler == Handlers(service)[CHOOSE h \in Offered(Client(service)[call.method].full) : TRUE]

(* What an implementation's method may answer once it ran: the handlers pass *)
(* its error on, whatever its code.                                          *)
OwnAnswers == {"OK", "NotFound", "Unimplemented"}

(* The implementation's method, or the embedded server's in its place, which *)
(* is not there to run when it is a nil pointer.                             *)
Implementation(m, seen) ==
    \/ /\ m \in server.has
       /\ ran' = Append(ran, m) /\ (\E own \in OwnAnswers : Answer(own, seen)) /\ UNCHANGED server
    \/ /\ m \notin server.has /\ server.embedded = "value"
       /\ Answer(Embedded(service)[m], seen) /\ UNCHANGED <<server, ran>>
    \/ /\ m \notin server.has /\ server.embedded = "nil pointer"
       /\ server' = [server EXCEPT !.state = "panicked"]
       /\ Lost /\ UNCHANGED ran

(* The handler: it reads the request unless it hands over the stream, and a  *)
(* unary one passes through the interceptor, which may refuse.               *)
Handle(decodes, admits) ==
    /\ call.phase = "handling"
    /\ LET intercepted == TheHandler.unary /\ server.intercepts
       IN \/ TheHandler.reads /\ ~decodes /\ Answer("Internal", FALSE) /\ UNCHANGED <<server, ran>>
          \/ /\ TheHandler.reads => decodes
             /\ intercepted /\ ~admits /\ Answer("PermissionDenied", TRUE) /\ UNCHANGED <<server, ran>>
          \/ /\ TheHandler.reads => decodes
             /\ intercepted => admits
             /\ Implementation(TheHandler.calls, intercepted)
    /\ UNCHANGED service

(* The stub returns the answer: a response or an error, never both. *)
Deliver ==
    /\ call.phase = "answered"
    /\ call' = [call EXCEPT !.phase = "done"]
    /\ UNCHANGED <<service, server, ran>>

Return ==
    /\ call.phase = "done"
    /\ call' = NoCall /\ ran' = <<>>
    /\ UNCHANGED <<service, server>>

Next ==
    \/ Register
    \/ \E p \in Processes(service) : Replace(p)
    \/ \E m \in Methods(service) : Call(m)
    \/ \E fails \in BOOLEAN : Send(fails)
    \/ Dispatch
    \/ \E decodes, admits \in BOOLEAN : Handle(decodes, admits)
    \/ Deliver
    \/ Return

Spec == Init /\ [][Next]_vars

-----------------------------------------------------------------------------
(* Whatever the two builds, a call runs the method it names and no other, at *)
(* most once, and OK means that it ran.  A server whose build or whose       *)
(* implementation lacks the method runs nothing and never answers OK; one    *)
(* that has it never answers Unimplemented in its place, so that code is     *)
(* then the method's own (the stubs, the service descriptions, the           *)
(* Unimplemented servers).                                                   *)
AnswerTellsWhatRan ==
    /\ ran \in {<<>>, <<call.method>>}
    /\ call.phase \in {"answered", "done"} /\ call.result = "OK" => ran # <<>>
    /\ call.phase = "answered" =>
         IF call.method \in server.build \cap server.has
         THEN call.result = "Unimplemented" => ran # <<>>
         ELSE call.result # "OK" /\ ran = <<>>

(* The stream entry a stub opens by index is the entry of its own method,    *)
(* with the shape its handler expects: a stub that sends one request and     *)
(* closes meets a handler that reads one (Streams[i] in every stub).         *)
StubAndHandlerAgree ==
    call.phase = "handling" =>
        LET stub == Client(service)[call.method]
        IN /\ stub.sendsOne <=> TheHandler.reads
           /\ stub.stream = {} <=> TheHandler.unary
           /\ \A i \in stub.stream :
                LET entry == Desc(service).streams[i + 1]
                IN entry.name = call.method /\ entry.client = ~stub.sendsOne

(* A process that serves never panics on a method it lacks: one that would   *)
(* does not get past its registration (RegisterRuntimeServer and its like).  *)
ServingNeverPanics == server.state # "panicked"

(* With an interceptor in place no unary method runs that it did not see and *)
(* admit (the generated unary handlers).                                     *)
InterceptorSeesUnaryCalls ==
    ran # <<>> /\ call.owed /\ Client(service)[call.method].stream = {} => call.seen
=============================================================================
