---------------------------- MODULE RpcConnection ----------------------------
(***************************************************************************)
(* The RPC protocol of Nuclide: an RpcConnection with its ObjectRegistry   *)
(* at each end of a transport that delivers messages in order and once     *)
(* (ReliableChannel, or a socket), until it is closed.                     *)
(*                                                                         *)
(* Either end calls functions and methods of the other; a call returns     *)
(* nothing, a promise or an observable.  Objects travel by reference: the  *)
(* owner registers an object under a number when it is first sent, the     *)
(* other end makes a proxy for the number, and disposing the proxy removes *)
(* the registration.  The numbers of the two owners differ in sign, which  *)
(* is why each message here is explicit about whose object it names.       *)
(*                                                                         *)
(* Values other than references are abstracted, as are the checks that     *)
(* only log (ids out of order, large responses).  A "complete" message     *)
(* stands for the end of an observable, also by an error.  What an end      *)
(* returns or emits may be of another type than declared (BadResults), and *)
(* then cannot be marshalled.                                              *)
(***************************************************************************)
EXTENDS Integers, Sequences, FiniteSets, FiniteSetsExt

CONSTANTS
  Object,        \* the objects that may be sent
  Plans,         \* bound: what each end asks for, in order, and may send
  MaxObject,     \* bound on the registrations at an end
  MaxWire,       \* bound on the messages in flight when a value is emitted
  BadResults     \* the ends whose results may not be of the declared type

End == {"client", "server"}

Peer(e) == IF e = "client" THEN "server" ELSE "client"

Kind == {"void", "promise", "observable", "dispose"}

ASSUME PlansAssumption ==
  Plans \subseteq [requests : [End -> Seq(Kind)], objects : [End -> SUBSET Object]]
ASSUME BoundsAssumption == MaxObject \in Nat /\ MaxWire \in Nat
ASSUME BadResultsAssumption == BadResults \subseteq End

VARIABLES
  wire,       \* wire[e]: the messages on their way to end e
  request,    \* request[e]: the requests e made; the index is the request id
  calls,      \* calls[e]: the ids in _calls
  subs,       \* subs[e]: the ids in RpcConnection._subscriptions
  registry,   \* registry[e]: the registrations of e; the index is the id
  proxy,      \* proxy[e][n]: the proxy at e for object n of the other end
  working,    \* working[e]: the promises of e that will answer the other end
  streams,    \* streams[e]: the ids in ObjectRegistry._subscriptions
  producing,  \* producing[e]: the observables of e that run for the other end
  detached,   \* detached[e]: the observables of e that run unheard
  closing,    \* closing[e]: how far RpcConnection.dispose is at e
  plan        \* the plan of this behaviour, which never changes

callerVars == <<request, calls, subs, proxy>>
calleeVars == <<registry, working, streams, producing, detached>>
vars == <<wire, callerVars, calleeVars, closing, plan>>

\* The largest request id of any plan.
MaxRequest == Max({Len(p.requests[e]) : p \in Plans, e \in End} \cup {0})

Closed(e) == closing[e] # "no"

\* What became of a request, as its caller sees it: an observable is "created"
\* when the remote function is called, and the call is sent on subscription;
\* "again" is a caller that was told a second time.
Outcome == {"sent", "created", "pending", "done", "again"}

Request == [kind : Kind, target : Nat, arg : Nat, outcome : Outcome]

Message ==
  [type : {"call", "dispose"}, id : Nat, kind : Kind, target : Nat, arg : Nat]
    \cup [type : {"unsubscribe", "error-response", "complete"}, id : Nat]
    \cup [type : {"response", "next"}, id : Nat, ref : Nat]

\* No object: as target, a function; as argument or result, some other value.
NoRef == 0

Init ==
  /\ wire = [e \in End |-> <<>>]
  /\ request = [e \in End |-> <<>>]
  /\ calls = [e \in End |-> {}]
  /\ subs = [e \in End |-> {}]
  /\ registry = [e \in End |-> <<>>]
  /\ proxy = [e \in End |-> [n \in 1 .. MaxObject |-> "none"]]
  /\ working = [e \in End |-> {}]
  /\ streams = [e \in End |-> {}]
  /\ producing = [e \in End |-> {}]
  /\ detached = [e \in End |-> {}]
  /\ closing = [e \in End |-> "no"]
  /\ plan \in Plans

Brief(type, id) == [type |-> type, id |-> id]

Carrying(type, id, ref) == [type |-> type, id |-> id, ref |-> ref]

RequestMessage(r, id) ==
  [type |-> IF r.kind = "dispose" THEN "dispose" ELSE "call",
   id |-> id, kind |-> r.kind, target |-> r.target, arg |-> r.arg]

\* A closed transport drops what it is given, and so does one whose other end
\* was closed.
Posted(e, w, m) ==
  IF Closed(e) \/ Closed(Peer(e)) THEN w ELSE [w EXCEPT ![Peer(e)] = Append(@, m)]

\* The caller of request id is told how it ended.
Told(r) == [r EXCEPT !.outcome = IF @ = "pending" THEN "done" ELSE "again"]

Tell(e, id) == request' = [request EXCEPT ![e][id] = Told(@)]

-----------------------------------------------------------------------------
(* ObjectRegistry *)

\* The registrations of object o of e; there is at most one.
IdsOf(e, o) ==
  {n \in DOMAIN registry[e] : registry[e][n].here /\ registry[e][n].object = o}

\* What a message carries: an object of e or, for Nothing, a plain value.
Nothing == "nothing"
Value(e) == plan.objects[e] \cup {Nothing}

IsNew(e, o) == o # Nothing /\ IdsOf(e, o) = {}

\* marshal: the number of an object that has one, or the next number.
Marshalled(e, o) ==
  IF o = Nothing THEN NoRef
  ELSE IF IsNew(e, o) THEN Len(registry[e]) + 1
  ELSE CHOOSE n \in IdsOf(e, o) : TRUE

MarshalRegisters(e, o) ==
  /\ IsNew(e, o) => Len(registry[e]) < MaxObject
  /\ registry' =
       IF IsNew(e, o)
         THEN [registry EXCEPT ![e] = Append(@, [object |-> o, here |-> TRUE,
                                                 disposals |-> 0])]
         ELSE registry

\* unmarshal of object n of the other end: the proxy that exists is used, even
\* one that was disposed.
UnmarshalProxies(e, n) ==
  proxy' = IF n # NoRef /\ proxy[e][n] = "none"
             THEN [proxy EXCEPT ![e][n] = "live"]
             ELSE proxy

\* Mutant of Gone: the registration goes when dispose() has returned.
GoneLater(r) == [r EXCEPT !.disposals = @ + 1]

\* disposeObject to its await: the registration goes, dispose() is called.
Gone(r) == [r EXCEPT !.here = FALSE, !.disposals = @ + 1]

Unregistered(e, ids) ==
  [registry EXCEPT ![e] =
     [n \in DOMAIN @ |-> IF n \in ids THEN Gone(@[n]) ELSE @[n]]]

-----------------------------------------------------------------------------
(* The caller *)

\* A request of e, and the message unless it waits for a subscription.
NewRequest(e, kind, target, arg, outcome) ==
  LET id == Len(request[e]) + 1
      r == [kind |-> kind, target |-> target, arg |-> arg, outcome |-> outcome]
  IN
  /\ id <= Len(plan.requests[e])
  /\ kind = plan.requests[e][id]
  /\ request' = [request EXCEPT ![e] = Append(@, r)]
  /\ wire' = IF outcome = "created" THEN wire ELSE Posted(e, wire, RequestMessage(r, id))
  /\ calls' = IF outcome = "pending" THEN [calls EXCEPT ![e] = @ \cup {id}] ELSE calls

\* callRemoteFunction and callRemoteMethod.  Only functions of the server are
\* called by name; a method needs a proxy, and marshalling one that was
\* disposed throws before anything is sent.
Call(e, kind, target, o) ==
  /\ IF target = NoRef THEN e = "client" ELSE proxy[e][target] = "live"
  /\ MarshalRegisters(e, o)
  /\ NewRequest(e, kind, target, Marshalled(e, o),
                CASE kind = "void" -> "sent"
                  [] kind = "promise" -> "pending"
                  [] kind = "observable" -> "created")
  /\ UNCHANGED <<subs, proxy, working, streams, producing, detached, closing, plan>>

\* A subscription to the observable of request id; a second one throws.
Subscribe(e, id) ==
  /\ id \in DOMAIN request[e]
  /\ request[e][id].outcome = "created"
  /\ request' = [request EXCEPT ![e][id].outcome = "pending"]
  /\ subs' = [subs EXCEPT ![e] = @ \cup {id}]
  /\ wire' = Posted(e, wire, RequestMessage(request[e][id], id))
  /\ UNCHANGED <<calls, proxy, calleeVars, closing, plan>>

\* The subscriber goes away.
Unsubscribe(e, id) ==
  /\ id \in subs[e]
  /\ Tell(e, id)
  /\ subs' = [subs EXCEPT ![e] = @ \ {id}]
  /\ wire' = Posted(e, wire, Brief("unsubscribe", id))
  /\ UNCHANGED <<calls, proxy, calleeVars, closing, plan>>

\* Mutant of DisposeProxy: the proxy keeps its number.
DisposeProxyKeepingId(e, n) ==
  /\ proxy[e][n] = "live"
  /\ IF Closed(e)
       THEN UNCHANGED <<wire, request, calls>>
       ELSE NewRequest(e, "dispose", n, NoRef, "pending")
  /\ UNCHANGED <<subs, proxy, calleeVars, closing, plan>>

\* disposeRemoteObject; without effect on a proxy that was disposed.
DisposeProxy(e, n) ==
  /\ proxy[e][n] = "live"
  /\ proxy' = [proxy EXCEPT ![e][n] = "disposed"]
  /\ IF Closed(e)
       THEN UNCHANGED <<wire, request, calls>>
       ELSE NewRequest(e, "dispose", n, NoRef, "pending")
  /\ UNCHANGED <<subs, calleeVars, closing, plan>>

\* Mutant of TimesOut: the call stays in the map.
TimesOutKept(id) ==
  /\ id \in calls["client"]
  /\ Tell("client", id)
  /\ UNCHANGED <<wire, calls, subs, proxy, calleeVars, closing, plan>>

\* Call._timeout; calls of a server have no timer.
TimesOut(id) ==
  /\ id \in calls["client"]
  /\ Tell("client", id)
  /\ calls' = [calls EXCEPT !["client"] = @ \ {id}]
  /\ UNCHANGED <<wire, subs, proxy, calleeVars, closing, plan>>

\* _handleResponseMessage: the answer to a promise.  Whatever is no longer
\* waited for is ignored, as is an error-response to a subscription.
HandleAnswer(e, m) ==
  /\ m.type \in {"response", "error-response"}
  /\ IF m.id \in calls[e]
       THEN /\ Tell(e, m.id)
            /\ calls' = [calls EXCEPT ![e] = @ \ {m.id}]
            /\ UnmarshalProxies(e, IF m.type = "response" THEN m.ref ELSE NoRef)
       ELSE UNCHANGED <<request, calls, proxy>>
  /\ wire' = [wire EXCEPT ![e] = Tail(@)]
  /\ UNCHANGED subs

HandleNext(e, m) ==
  /\ m.type = "next"
  /\ UnmarshalProxies(e, IF m.id \in subs[e] THEN m.ref ELSE NoRef)
  /\ wire' = [wire EXCEPT ![e] = Tail(@)]
  /\ UNCHANGED <<request, calls, subs>>

\* Mutant of HandleEnd: the entry is deleted before the observer is told.
HandleEndQuietly(e, m) ==
  /\ m.type = "complete"
  /\ wire' = [wire EXCEPT ![e] = Tail(@)]
  /\ IF m.id \in subs[e]
       THEN /\ Tell(e, m.id)
            /\ subs' = [subs EXCEPT ![e] = @ \ {m.id}]
       ELSE UNCHANGED <<request, subs>>
  /\ UNCHANGED <<calls, proxy>>

\* The end of an observable.  Telling the observer runs the teardown of the
\* subscription, which finds the entry still there and sends an unsubscribe.
HandleEnd(e, m) ==
  LET rest == [wire EXCEPT ![e] = Tail(@)] IN
  /\ m.type = "complete"
  /\ IF m.id \in subs[e]
       THEN /\ Tell(e, m.id)
            /\ subs' = [subs EXCEPT ![e] = @ \ {m.id}]
            /\ wire' = Posted(e, rest, Brief("unsubscribe", m.id))
       ELSE /\ wire' = rest
            /\ UNCHANGED <<request, subs>>
  /\ UNCHANGED <<calls, proxy>>

-----------------------------------------------------------------------------
(* The callee *)

Known(e, n) == n = NoRef \/ (n \in DOMAIN registry[e] /\ registry[e][n].here)

\* Answers of e to the message it takes from its wire.
Answer(e, m) == wire' = Posted(e, [wire EXCEPT ![e] = Tail(@)], m)
NoAnswer(e) == wire' = [wire EXCEPT ![e] = Tail(@)]

\* Mutant of Throws: nothing is sent.
ThrowsSilently(e, m) ==
  /\ NoAnswer(e)
  /\ UNCHANGED calleeVars

\* The catch of _handleRequestMessage.
Throws(e, m) ==
  /\ Answer(e, Brief("error-response", m.id))
  /\ UNCHANGED calleeVars

\* _returnValue, for a function or method that returned.  An observable that
\* ends while it is connected is recorded after it was removed; so is one whose
\* first value, emitted by then, cannot be marshalled, and that one runs on.
Returns(e, m) ==
  \/ /\ m.kind = "void"
     /\ NoAnswer(e)
     /\ UNCHANGED calleeVars
  \/ /\ m.kind = "promise"
     /\ NoAnswer(e)
     /\ working' = [working EXCEPT ![e] = @ \cup {m.id}]
     /\ UNCHANGED <<registry, streams, producing, detached>>
  \/ /\ m.kind = "observable"
     /\ streams' = [streams EXCEPT ![e] = @ \cup {m.id}]
     /\ \/ /\ NoAnswer(e)
           /\ producing' = [producing EXCEPT ![e] = @ \cup {m.id}]
           /\ UNCHANGED detached
        \/ /\ Answer(e, Brief("complete", m.id))
           /\ UNCHANGED <<producing, detached>>
        \/ /\ e \in BadResults
           /\ Answer(e, Brief("complete", m.id))
           /\ detached' = [detached EXCEPT ![e] = @ \cup {m.id}]
           /\ UNCHANGED producing
     /\ UNCHANGED <<registry, working>>

\* _callFunction and _callMethod.  What they name must be registered.
HandleCall(e, m) ==
  /\ m.type = "call"
  /\ UnmarshalProxies(e, IF Known(e, m.target) THEN m.arg ELSE NoRef)
  /\ \/ Throws(e, m)
     \/ Known(e, m.target) /\ Returns(e, m)

\* disposeObject: what it returns is a promise in every case.
HandleDispose(e, m) ==
  /\ m.type = "dispose"
  /\ IF Known(e, m.target)
       THEN /\ registry' = Unregistered(e, {m.target})
            /\ working' = [working EXCEPT ![e] = @ \cup {m.id}]
            /\ NoAnswer(e)
       ELSE /\ Answer(e, Brief("error-response", m.id))
            /\ UNCHANGED <<registry, working>>
  /\ UNCHANGED <<streams, producing, detached, proxy>>

\* disposeSubscription: an observable that is recorded is unsubscribed.
HandleUnsubscribe(e, m) ==
  /\ m.type = "unsubscribe"
  /\ NoAnswer(e)
  /\ streams' = [streams EXCEPT ![e] = @ \ {m.id}]
  /\ producing' = [producing EXCEPT ![e] = @ \ ({m.id} \cap streams[e])]
  /\ detached' = [detached EXCEPT ![e] = @ \ ({m.id} \cap streams[e])]
  /\ UNCHANGED <<registry, working, proxy>>

\* The messages of e are handled by its constructor's subscription.
HandleMessage(e) ==
  /\ wire[e] # <<>>
  /\ LET m == Head(wire[e]) IN
     \/ /\ HandleAnswer(e, m) \/ HandleNext(e, m) \/ HandleEnd(e, m)
        /\ UNCHANGED calleeVars
     \/ /\ HandleCall(e, m) \/ HandleDispose(e, m) \/ HandleUnsubscribe(e, m)
        /\ UNCHANGED <<request, calls, subs>>
  /\ UNCHANGED <<closing, plan>>

\* A promise of e resolves with o.
Resolves(e, id, o) ==
  /\ id \in working[e]
  /\ working' = [working EXCEPT ![e] = @ \ {id}]
  /\ request[Peer(e)][id].kind = "dispose" => o = Nothing
  /\ MarshalRegisters(e, o)
  /\ wire' = Posted(e, wire, Carrying("response", id, Marshalled(e, o)))
  /\ UNCHANGED <<callerVars, streams, producing, detached, closing, plan>>

\* It rejects.
Rejects(e, id) ==
  /\ id \in working[e]
  /\ working' = [working EXCEPT ![e] = @ \ {id}]
  /\ wire' = Posted(e, wire, Brief("error-response", id))
  /\ UNCHANGED <<callerVars, registry, streams, producing, detached, closing, plan>>

\* It resolves with a value that cannot be marshalled: the handler throws, and
\* nothing is sent.
ResolvesBadly(e, id) ==
  /\ e \in BadResults
  /\ id \in working[e]
  /\ request[Peer(e)][id].kind = "promise"
  /\ working' = [working EXCEPT ![e] = @ \ {id}]
  /\ UNCHANGED <<wire, callerVars, registry, streams, producing, detached, closing, plan>>

\* An observable of e emits o.
Emits(e, id, o) ==
  /\ id \in producing[e]
  /\ Len(wire[Peer(e)]) < MaxWire
  /\ MarshalRegisters(e, o)
  /\ wire' = Posted(e, wire, Carrying("next", id, Marshalled(e, o)))
  /\ UNCHANGED <<callerVars, working, streams, producing, detached, closing, plan>>

\* It completes, or fails.
Ends(e, id) ==
  /\ id \in producing[e]
  /\ producing' = [producing EXCEPT ![e] = @ \ {id}]
  /\ streams' = [streams EXCEPT ![e] = @ \ {id}]
  /\ wire' = Posted(e, wire, Brief("complete", id))
  /\ UNCHANGED <<callerVars, registry, working, detached, closing, plan>>

\* What it emits cannot be marshalled: the error is sent and the record removed,
\* but the observable itself, which was connected apart, is not unsubscribed.
EmitsBadly(e, id) ==
  /\ e \in BadResults
  /\ id \in producing[e]
  /\ producing' = [producing EXCEPT ![e] = @ \ {id}]
  /\ detached' = [detached EXCEPT ![e] = @ \cup {id}]
  /\ streams' = [streams EXCEPT ![e] = @ \ {id}]
  /\ wire' = Posted(e, wire, Brief("complete", id))
  /\ UNCHANGED <<callerVars, registry, working, closing, plan>>

\* A detached observable completes or fails by itself.
EndsUnheard(e, id) ==
  /\ id \in detached[e]
  /\ detached' = [detached EXCEPT ![e] = @ \ {id}]
  /\ UNCHANGED <<wire, callerVars, registry, working, streams, producing, closing, plan>>

-----------------------------------------------------------------------------
(* RpcConnection.dispose *)

\* To its await: the transport is closed, which loses what it has not carried
\* yet, every registered object is disposed, every call rejected and every
\* subscription completed.
Dispose(e) ==
  /\ ~Closed(e)
  /\ closing' = [closing EXCEPT ![e] = "objects"]
  /\ \E n \in 0 .. Len(wire[Peer(e)]) :
       wire' = [x \in End |-> IF x = e THEN <<>> ELSE SubSeq(wire[x], 1, n)]
  /\ registry' = Unregistered(e, {n \in DOMAIN registry[e] : registry[e][n].here})
  /\ request' = [request EXCEPT ![e] = [id \in DOMAIN @ |->
       IF id \in calls[e] \cup subs[e] THEN Told(@[id]) ELSE @[id]]]
  /\ calls' = [calls EXCEPT ![e] = {}]
  /\ subs' = [subs EXCEPT ![e] = {}]
  /\ UNCHANGED <<proxy, working, streams, producing, detached, plan>>

\* After it: every object's dispose() has returned, and the subscriptions to
\* the observables of e go.
DisposeSubscriptions(e) ==
  /\ closing[e] = "objects"
  /\ closing' = [closing EXCEPT ![e] = "done"]
  /\ producing' = [producing EXCEPT ![e] = @ \ streams[e]]
  /\ detached' = [detached EXCEPT ![e] = @ \ streams[e]]
  /\ streams' = [streams EXCEPT ![e] = {}]
  /\ UNCHANGED <<wire, callerVars, registry, working, plan>>

-----------------------------------------------------------------------------
Next ==
  \E e \in End :
    \/ \E kind \in Kind \ {"dispose"}, target \in 0 .. MaxObject, o \in Value(e) :
         Call(e, kind, target, o)
    \/ \E id \in 1 .. MaxRequest :
         Subscribe(e, id) \/ Unsubscribe(e, id) \/ (e = "client" /\ TimesOut(id))
    \/ \E n \in 1 .. MaxObject : DisposeProxy(e, n)
    \/ HandleMessage(e)
    \/ \E id \in working[e] :
         \/ \E o \in Value(e) : Resolves(e, id, o)
         \/ Rejects(e, id)
         \/ ResolvesBadly(e, id)
    \/ \E id \in producing[e] :
         \/ \E o \in Value(e) : Emits(e, id, o)
         \/ Ends(e, id)
         \/ EmitsBadly(e, id)
    \/ \E id \in detached[e] : EndsUnheard(e, id)
    \/ Dispose(e)
    \/ DisposeSubscriptions(e)

Spec == Init /\ [][Next]_vars

(***************************************************************************)
(* Fairness.  Messages are handled, promises settle, the timers of the     *)
(* calls fire, and dispose() of the objects returns.  Nothing makes an     *)
(* observable emit or end, or an application call, subscribe or dispose.   *)
(***************************************************************************)
Settles(e, id) == (\E o \in Value(e) : Resolves(e, id, o)) \/ Rejects(e, id)
                    \/ ResolvesBadly(e, id)

Fairness ==
  /\ \A e \in End : /\ WF_vars(HandleMessage(e))
                    /\ WF_vars(DisposeSubscriptions(e))
                    /\ \A id \in 1 .. MaxRequest : WF_vars(Settles(e, id))
  /\ \A id \in 1 .. MaxRequest : WF_vars(TimesOut(id))

FairSpec == Spec /\ Fairness

-----------------------------------------------------------------------------
(* Properties *)

\* The types of the variables; and dispose() of an object is called once for each
\* time it was registered, whether its proxy, the end of the connection or both
\* ask for it.
TypeOK ==
  \A e \in End :
    /\ wire[e] \in Seq(Message)
    /\ request[e] \in Seq(Request)
    /\ calls[e] \subseteq DOMAIN request[e]
    /\ subs[e] \subseteq DOMAIN request[e]
    /\ registry[e] \in Seq([object : Object, here : {TRUE}, disposals : {0}]
                            \cup [object : Object, here : {FALSE}, disposals : {1}])
    /\ proxy[e] \in [1 .. MaxObject -> {"none", "live", "disposed"}]
    /\ working[e] \cup streams[e] \cup producing[e] \cup detached[e]
         \subseteq DOMAIN request[Peer(e)]
    /\ closing[e] \in {"no", "objects", "done"}

\* A request names an object that its owner still has when it gets there, and
\* so does every proxy that was not disposed, however disposals, calls and
\* repeated references cross each other on the two wires.  The exception is an
\* observable, whose call is only sent when it is subscribed to.
ReferencesResolve ==
  \A e \in End : ~Closed(e) =>
    /\ \A i \in DOMAIN wire[e] :
         LET m == wire[e][i] IN
         m.type \in {"call", "dispose"} /\ m.kind # "observable" =>
           /\ Known(e, m.target)
           /\ \A j \in 1 .. i - 1 :
                wire[e][j].type = "dispose" => wire[e][j].target # m.target
    /\ \A n \in 1 .. MaxObject : proxy[Peer(e)][n] = "live" => Known(e, n)

\* A caller or subscriber is told once how its request ended: no late answer,
\* timeout, event or disposal of the connection reaches it afterwards.
SettledOnce ==
  \A e \in End : \A id \in DOMAIN request[e] : request[e][id].outcome # "again"

\* An observable that ended, or that nobody subscribes to any more, is released
\* at the end that runs it, unless the connection is lost; and an end that is
\* disposed releases all of its own, also those it was asked for meanwhile.
\* What is not released is an observable that was connected when it emitted a
\* value that cannot be marshalled: it has no record any more, and runs on until
\* it ends by itself, whatever the other end sends and whoever is disposed.
Released(e, id) ==
  /\ id \notin streams[e] \cup producing[e]
  /\ e \notin BadResults => id \notin detached[e]

StreamsReleased ==
  /\ \A e \in End : \A id \in 1 .. MaxRequest :
       id \in streams[e] /\ (id \notin producing[e] \/ id \notin subs[Peer(e)])
         ~> Released(e, id) \/ Closed(Peer(e))
  /\ [](\A e \in End : closing[e] = "done" =>
          \A id \in 1 .. MaxRequest : Released(e, id))

\* The calls of a server, which have no timer, come to an end too, as long as
\* both ends are open and the client's results can be marshalled.
CallsSettle ==
  \A id \in 1 .. MaxRequest :
    id \in calls["server"]
      ~> id \notin calls["server"] \/ \E e \in End : Closed(e)

\* "When a remote function throws, the thrown value is ... thrown (via
\* rejecting the Promise, or Observable.throw) back to the caller"
\* (NuclideRemotingFramework.md): nobody who was sent an error-response is
\* still waiting after it was handled.
ThrownReachesCaller ==
  [][\A e \in End :
       wire[e] # <<>> /\ wire'[e] = Tail(wire[e]) /\ closing' = closing
         /\ Head(wire[e]).type = "error-response"
         => Head(wire[e]).id \notin calls'[e] \cup subs'[e]]_vars

=============================================================================
