----------------------------- MODULE WebService -----------------------------
(***************************************************************************)
(* WebService (src/webservice/webservice.{h,cpp}) with its Router: the     *)
(* owner's thread calls start(), router() and the destructor; a listener   *)
(* thread runs proxygen's HTTPServer, which reports once whether it could  *)
(* start and then runs until it is stopped; the server's own threads       *)
(* dispatch requests along the list of routes.                             *)
(*                                                                         *)
(* start() waits for the report on a condition variable.  That, its mutex, *)
(* the flag and the status are local variables of start(), which the two   *)
(* callbacks on the listener thread share by reference.  A critical        *)
(* section is one step.  The list of routes has no lock: the owner appends *)
(* to it while requests walk it.                                           *)
(***************************************************************************)
EXTENDS Router

CONSTANTS
    Readers,         \* the server's threads
    Requests,        \* requests that may come: [method, path]
    UserRoutes,      \* what the owner may register: [method, path]
    StatusPath,      \* "/status"
    Get,             \* the method of the built-in routes
    Unknown,         \* a method that HTTPMessage::getMethod() does not know
    Ports,           \* ws_http_port and ws_http2_port
    MaxRoutes        \* bound: routes in the list

ASSUME WebServiceAssumption ==
    /\ Unknown \notin Methods
    /\ Requests \subseteq [method : Methods \cup {Unknown}, path : RequestPaths]
    /\ UserRoutes \subseteq [method : Methods, path : RoutePaths]
    /\ StatusPath \in RequestPaths
    /\ Get \in Methods
    /\ MaxRoutes \in Nat \ {0, 1}

VARIABLES
    started,         \* m_started
    routes,          \* the list from m_head to m_tail
    server,          \* m_server: none, starting, up, failed, stopping, stopped
    flags,           \* the port flags that are not zero
    status,          \* start()'s status: "ok" or "error"
    done,            \* start()'s serverStartedDone
    at,              \* where the owner is
    listener,        \* where the listener thread is
    walk,            \* of each of the server's threads: the request it serves
    crash,           \* what ended the process: "none" if nothing did
    returned         \* by the start() that launched, and by the last later one

owner == <<started, at, returned>>
report == <<flags, status, done>>
vars == <<owner, routes, server, report, listener, walk, crash>>

Root == [segs |-> <<>>, slash |-> TRUE]
BareRoute(method, path) ==
    [method |-> method, path |-> WithPrefix(path), handler |-> FALSE]
Builtin(path) == [BareRoute(Get, path) EXCEPT !.handler = TRUE]

\* A thread of the server: the request, the route it has come to, how many
\* routes there were when it began, and the route that answered, or 0.
Resting == [phase |-> "idle"]
Serving(request, route, seen) ==
    [phase |-> "walk", request |-> request, route |-> route, seen |-> seen]

Init ==
    /\ started = FALSE
    /\ routes = <<>>
    /\ server = "none"
    /\ flags \in SUBSET Ports
    /\ status = "ok"
    /\ done = FALSE
    /\ at = "idle"
    /\ listener = "none"
    /\ walk = [r \in Readers |-> Resting]
    /\ crash = "none"
    /\ returned = [launch |-> "none", again |-> "none"]

-----------------------------------------------------------------------------
(* The owner: start().                                                     *)

\* A service that was started once says so again.
StartAgain ==
    /\ at = "idle"
    /\ started
    /\ returned' = [returned EXCEPT !.again = "ok"]
    /\ UNCHANGED <<started, routes, server, report, at, listener, walk, crash>>

\* Mutation: m_started is set when the server is up, not before.
StartBeginUnmarked ==
    /\ at = "idle"
    /\ ~started
    /\ at' = "register"
    /\ UNCHANGED <<started, routes, server, report, listener, walk, crash,
                   returned>>

StartBegin ==
    /\ at = "idle"
    /\ ~started
    /\ started' = TRUE
    /\ at' = "register"
    /\ UNCHANGED <<routes, server, report, listener, walk, crash, returned>>

\* Mutation: m_tail stays at the first route.
AppendBehindHead(list, route) == IF list = <<>> THEN <<route>> ELSE <<Head(list), route>>

\* Router::append(): the new route goes behind m_tail.
AppendRoute(list, route) == Append(list, route)

\* The built-in routes; route() aborts unless the service has been started.
StartRegister ==
    /\ at = "register"
    /\ IF started
       THEN /\ routes' = AppendRoute(AppendRoute(routes, Builtin(StatusPath)), Builtin(Root))
            /\ at' = "launch"
            /\ UNCHANGED crash
       ELSE crash' = "start" /\ UNCHANGED <<routes, at>>
    /\ UNCHANGED <<started, server, report, listener, walk, returned>>

\* The server is made and bound, and the listener thread launched.
StartLaunch ==
    /\ at = "launch"
    /\ server' = "starting"
    /\ listener' = "starting"
    /\ status' = "ok"
    /\ done' = FALSE
    /\ at' = "wait"
    /\ UNCHANGED <<started, routes, flags, walk, crash, returned>>

\* Mutation: the predicate is also true when there is an error.
WaitOrFailed ==
    /\ at = "wait"
    /\ IF done \/ status = "error"
       THEN at' = "idle" /\ returned' = [returned EXCEPT !.launch = status]
       ELSE at' = "asleep" /\ UNCHANGED returned
    /\ UNCHANGED <<started, routes, server, report, listener, walk, crash>>

\* cv.wait() tests its predicate, and start() returns or sleeps.
Wait ==
    /\ at = "wait"
    /\ IF done
       THEN at' = "idle" /\ returned' = [returned EXCEPT !.launch = status]
       ELSE at' = "asleep" /\ UNCHANGED returned
    /\ UNCHANGED <<started, routes, server, report, listener, walk, crash>>

SpuriousWakeup ==
    /\ at = "asleep"
    /\ at' = "wait"
    /\ UNCHANGED <<started, routes, server, report, listener, walk, crash,
                   returned>>

-----------------------------------------------------------------------------
(* The owner: router().get(path) and the like, then handler().             *)

\* route(): two aborts, else the new route joins the list without a handler.
AddRoute ==
    /\ at = "idle"
    /\ Len(routes) < MaxRoutes
    /\ \E new \in UserRoutes :
          IF started /\ ~NamesTwice(new.path)
          THEN /\ routes' = AppendRoute(routes, BareRoute(new.method, new.path))
               /\ at' = "handler"
               /\ UNCHANGED crash
          ELSE crash' = "route" /\ UNCHANGED <<routes, at>>
    /\ UNCHANGED <<started, server, report, listener, walk, returned>>

\* Route::handler()
SetHandler ==
    /\ at = "handler"
    /\ routes' = [routes EXCEPT ![Len(routes)].handler = TRUE]
    /\ at' = "idle"
    /\ UNCHANGED <<started, server, report, listener, walk, crash, returned>>

-----------------------------------------------------------------------------
(* The owner: ~WebService().                                               *)

\* m_server->stop() takes no more requests ...
Destroy ==
    /\ at = "idle"
    /\ IF server = "none"
       THEN crash' = "noServer" /\ UNCHANGED <<at, server>>
       ELSE /\ at' = "stop"
            /\ server' = IF server = "up" THEN "stopping" ELSE server
            /\ UNCHANGED crash
    /\ UNCHANGED <<started, routes, report, listener, walk, returned>>

\* ... and returns when those being served are answered; then the listener
\* thread is joined.
StopReturn ==
    /\ at = "stop"
    /\ \A r \in Readers : walk[r] = Resting
    /\ server' = IF server = "stopping" THEN "stopped" ELSE server
    /\ at' = "join"
    /\ UNCHANGED <<started, routes, report, listener, walk, crash, returned>>

Join ==
    /\ at = "join"
    /\ listener = "finished"
    /\ at' = "gone"
    /\ UNCHANGED <<started, routes, server, report, listener, walk, crash,
                   returned>>

-----------------------------------------------------------------------------
(* The listener thread: HTTPServer::start() and its two callbacks.         *)

\* The server's own outcome.  It serves before anybody is told.
Report ==
    /\ listener = "starting"
    /\ \/ server' = "up" /\ listener' = "ports"
       \/ server' = "failed" /\ listener' = "error"
    /\ UNCHANGED <<owner, routes, report, walk, crash>>

\* Mutation: one flag is set back twice, the other one not at all.
SetOnePort ==
    /\ listener = "ports"
    /\ \E port \in Ports : flags' = flags \cup {port}
    /\ listener' = "done"
    /\ UNCHANGED <<owner, routes, server, status, done, walk, crash>>

\* The success callback sets back the flags that are zero ...
SetPorts ==
    /\ listener = "ports"
    /\ flags' = Ports
    /\ listener' = "done"
    /\ UNCHANGED <<owner, routes, server, status, done, walk, crash>>

\* ... the other one keeps the error ...
SetStatus ==
    /\ listener = "error"
    /\ status' = "error"
    /\ listener' = "done"
    /\ UNCHANGED <<owner, routes, server, flags, done, walk, crash>>

\* Mutation: the error callback forgets to notify.
SetDoneQuietly ==
    /\ listener = "done"
    /\ done' = TRUE
    /\ listener' = IF server = "failed" THEN "finished" ELSE "notify"
    /\ UNCHANGED <<owner, routes, server, flags, status, walk, crash>>

\* ... and both set the flag, under the mutex,
SetDone ==
    /\ listener = "done"
    /\ done' = TRUE
    /\ listener' = "notify"
    /\ UNCHANGED <<owner, routes, server, flags, status, walk, crash>>

\* and notify, without the mutex.  A condition variable that start() has left
\* behind is notified all the same, which may do nothing or anything.
NotifyAll ==
    /\ listener = "notify"
    /\ at' = IF at = "asleep" THEN "wait" ELSE at
    /\ crash' \in IF at \in {"wait", "asleep"} THEN {crash} ELSE {crash, "notify"}
    /\ listener' = IF server = "failed" THEN "finished" ELSE "loop"
    /\ UNCHANGED <<started, routes, server, report, walk, returned>>

\* HTTPServer::start() returns after stop().
LeaveLoop ==
    /\ listener = "loop"
    /\ server = "stopped"
    /\ listener' = "finished"
    /\ UNCHANGED <<owner, routes, server, report, walk, crash>>

-----------------------------------------------------------------------------
(* The threads of the server: Router::dispatch().                          *)

BeginRequest(r) ==
    /\ server = "up"
    /\ walk[r] = Resting
    /\ \E request \in Requests :
          walk' = [walk EXCEPT ![r] = Serving(request, 1, Len(routes))]
    /\ UNCHANGED <<owner, routes, server, report, listener, crash>>

\* Mutation: the walk goes on behind the last route.
NextAlways(n) == n + 1

\* Route::next(), as the number of the route, or 0.
NextRoute(n) == IF n < Len(routes) THEN n + 1 ELSE 0

\* One turn of dispatch()'s loop: the route's handler answers, or the walk
\* goes to the next route.  A route without a handler throws.
TryRoute(r) ==
    LET w == walk[r]
        found == Matches(routes[w.route], w.request.method, w.request.path)
    IN  /\ w.phase = "walk"
        /\ w.route # 0
        /\ w.request.method # Unknown
        /\ IF found /\ ~routes[w.route].handler
           THEN crash' = "bare" /\ UNCHANGED walk
           ELSE /\ walk' = IF found THEN [walk EXCEPT ![r].phase = "answered"]
                                    ELSE [walk EXCEPT ![r].route = NextRoute(w.route)]
                /\ UNCHANGED crash
        /\ UNCHANGED <<owner, routes, server, report, listener>>

\* dispatch() asks for a value getMethod() does not have: that throws, out of
\* onRequest(), which is noexcept.
TryUnknown(r) ==
    /\ walk[r].phase = "walk"
    /\ walk[r].route # 0
    /\ walk[r].request.method = Unknown
    /\ crash' = "method"
    /\ UNCHANGED <<owner, routes, server, report, listener, walk>>

\* No route is left: NotFoundHandler answers.
NotFound(r) ==
    /\ walk[r].phase = "walk"
    /\ walk[r].route = 0
    /\ walk' = [walk EXCEPT ![r].phase = "answered"]
    /\ UNCHANGED <<owner, routes, server, report, listener, crash>>

\* requestComplete(): the handler goes.
CompleteRequest(r) ==
    /\ walk[r].phase = "answered"
    /\ walk' = [walk EXCEPT ![r] = Resting]
    /\ UNCHANGED <<owner, routes, server, report, listener, crash>>

-----------------------------------------------------------------------------

Start ==
    \/ StartRegister
    \/ StartLaunch
    \/ Wait

Owner ==
    \/ StartAgain
    \/ StartBegin
    \/ SpuriousWakeup
    \/ AddRoute
    \/ Destroy

\* What the owner does inside a call.
Proceed ==
    \/ Start
    \/ SetHandler
    \/ StopReturn
    \/ Join

Listener ==
    \/ Report
    \/ SetPorts
    \/ SetStatus
    \/ SetDone
    \/ NotifyAll
    \/ LeaveLoop

Serve(r) ==
    \/ TryRoute(r)
    \/ TryUnknown(r)
    \/ NotFound(r)
    \/ CompleteRequest(r)

\* The service is gone, or the process is.
Over == (at = "gone" \/ crash # "none") /\ UNCHANGED vars

Next ==
    \/ /\ crash = "none"
       /\ \/ Owner
          \/ Proceed
          \/ Listener
          \/ \E r \in Readers : BeginRequest(r) \/ Serve(r)
    \/ Over

Spec == Init /\ [][Next]_vars

\* Threads inside the library's code go on, the server reports and, stopped,
\* returns; requests are answered.  Nobody has to begin a call or a request.
Fairness ==
    /\ WF_vars(crash = "none" /\ Proceed)
    /\ WF_vars(crash = "none" /\ Listener)
    /\ \A r \in Readers : WF_vars(crash = "none" /\ Serve(r))

FairSpec == Spec /\ Fairness

-----------------------------------------------------------------------------
(* Properties.                                                             *)

Routes == [method : Methods, path : RoutePaths, handler : BOOLEAN]
Walks == {Resting} \cup
    [phase : {"walk", "answered"}, request : Requests, route : 0 .. MaxRoutes,
     seen : 0 .. MaxRoutes]

\* Every variable keeps its type; a walk is at a route of the list or at its
\* end, never at a pointer behind m_tail.
TypeOK ==
    /\ started \in BOOLEAN
    /\ routes \in Seq(Routes)
    /\ Len(routes) <= MaxRoutes
    /\ server \in {"none", "starting", "up", "failed", "stopping", "stopped"}
    /\ flags \subseteq Ports
    /\ status \in {"ok", "error"}
    /\ done \in BOOLEAN
    /\ at \in {"idle", "register", "launch", "wait", "asleep", "handler",
               "stop", "join", "gone"}
    /\ listener \in {"none", "starting", "ports", "error", "done", "notify",
                     "loop", "finished"}
    /\ walk \in [Readers -> Walks]
    /\ \A r \in Readers :
          walk[r].phase # "idle" => walk[r].route <= Len(routes)
    /\ crash \in {"none", "start", "route", "bare", "method", "noServer", "notify"}
    /\ returned \in [launch : {"none", "ok", "error"}, again : {"none", "ok"}]

\* The start() that launches the server tells the truth: it returns OK only
\* when the server is up and both port flags hold a port ("an ephemeral port
\* would be assigned and set back to the gflag", webservice.h:28-30), and an
\* error only when the server failed, whatever wakes the condition variable.
StartTellsTheTruth ==
    /\ returned.launch = "ok" => server \notin {"starting", "failed"} /\ flags = Ports
    /\ returned.launch = "error" => server = "failed"

\* start() does not return while the listener has yet to write one of its
\* local variables: what is left is at most the notification.
LocalsOutliveTheirWriters ==
    listener \in {"starting", "ports", "error", "done"} => at \in {"wait", "asleep"}

\* Nothing that start() does ends the process: it does not abort in route(),
\* and no request finds a built-in route without its handler.  (A route the
\* owner registers later can be found so.)
StartIsSafe ==
    /\ crash # "start"
    /\ crash = "bare" => \E n \in 3 .. Len(routes) : ~routes[n].handler

\* A request is answered by the first route that matches, and by none only if
\* no route that was in the list when it came does; nor does one that spells
\* the request stand before the answer: although the list grows under the
\* walk, a registered route is never missed.
FirstMatchAnswers ==
    \A r \in Readers : walk[r].phase = "answered" =>
        LET w == walk[r]
            found(n) == Matches(routes[n], w.request.method, w.request.path)
            spelt(n) == Spells(routes[n], w.request.method, w.request.path)
            passed(n) == IF w.route = 0 THEN n <= w.seen ELSE n < w.route
        IN  /\ w.route # 0 => found(w.route)
            /\ \A n \in DOMAIN routes : passed(n) => ~found(n) /\ ~spelt(n)

\* Every call returns, the destructor too: whatever the order in which the
\* listener reports and start() waits, no wake-up is lost.
CallsReturn == at # "idle" ~> at \in {"idle", "gone"} \/ crash # "none"

\* "start the global web server" (webservice.h:27): start() returns OK only
\* if the server did not fail.
OkMeansUp == returned.again = "ok" => server # "failed"
=============================================================================
