-------------------------- MODULE WebService_proofs --------------------------
(* Proofs about WebService and its Router, for every set of paths, requests *)
(* and server threads: types, what start() promises, and that a registered  *)
(* route is found while the list grows.                                     *)
EXTENDS WebService, TLAPS

-----------------------------------------------------------------------------
(* Router: which requests a route answers.                                 *)

Stored(path) == IsPattern(path) \/ Strip(path) = path

\* Stripping a path changes its slash only, which the root keeps.
LEMMA StripKeepsSegments ==
    ASSUME NEW S, NEW p \in [segs : Seq(S), slash : BOOLEAN]
    PROVE  /\ Strip(p) \in [segs : Seq(S), slash : BOOLEAN]
           /\ Strip(p).segs = p.segs
           /\ Strip(p).slash = (p.segs = <<>>)
BY DEF Strip

\* setPath() stores a pattern, or a path without its slash.
LEMMA SetPathIsStored ==
    ASSUME NEW p \in RoutePaths
    PROVE  SetPath(p) \in RoutePaths /\ Stored(SetPath(p))
<1>1. Strip(p) \in RoutePaths /\ Strip(p).segs = p.segs
           /\ Strip(p).slash = (p.segs = <<>>)
  BY StripKeepsSegments DEF RoutePaths
<1>2. IsPattern(Strip(p)) <=> IsPattern(p)
  BY <1>1 DEF IsPattern
<1>3. Strip(Strip(p)) = Strip(p)
  BY <1>1 DEF Strip, RoutePaths
<1> QED
  BY <1>1, <1>2, <1>3 DEF SetPath, Stored

\* So does it when the router's prefix was put in front.
LEMMA WithPrefixIsStored ==
    ASSUME NEW p \in RoutePaths
    PROVE  WithPrefix(p) \in RoutePaths /\ Stored(WithPrefix(p))
<1> DEFINE q == [segs |-> Prefix \o p.segs, slash |-> p.slash \/ p.segs = <<>>]
<1>1. Prefix \in Seq(Segments \cup Params)
  BY RouterAssumption
<1>2. q \in RoutePaths
  BY <1>1 DEF RoutePaths
<1> QED
  BY <1>2, SetPathIsStored DEF WithPrefix

\* A route whose path is stored as setPath() stores it matches every path it
\* spells, with or without a slash at the end.
THEOREM SpeltIsMatched ==
    ASSUME NEW route \in Routes, Stored(route.path),
           NEW method, NEW path \in RequestPaths,
           Spells(route, method, path)
    PROVE  Matches(route, method, path)
<1> DEFINE p == Strip(path)
<1>1. p \in RequestPaths /\ p.segs = path.segs /\ p.slash = (path.segs = <<>>)
  BY StripKeepsSegments DEF RequestPaths
<1>2. route.path \in RoutePaths
  BY DEF Routes
<1>3. route.method = method /\ Len(route.path.segs) = Len(path.segs)
  BY DEF Spells
<1>4. CASE IsPattern(route.path)
  <2>1. /\ ~route.path.slash
        /\ \A n \in DOMAIN path.segs :
              route.path.segs[n] \in Params \cup {path.segs[n]}
    BY <1>4 DEF Spells
  <2>2. \A m \in 1 .. Len(path.segs) :
            Fits(p.segs[0 + m], route.path.segs[m],
                 m = Len(route.path.segs) /\ ~route.path.slash)
    BY <1>1, <2>1 DEF Fits, RequestPaths
  <2>3. Len(path.segs) \in Nat /\ 0 \in 0 .. Len(p.segs)
    BY <1>1 DEF RequestPaths
  <2>4. Search(p, route.path)
    BY <1>1, <1>3, <2>1, <2>2, <2>3 DEF Search
  <2> QED
    BY <1>3, <1>4, <2>4 DEF Matches
<1>5. CASE ~IsPattern(route.path)
  <2>1. \A n \in DOMAIN path.segs : route.path.segs[n] = path.segs[n]
    BY <1>2, <1>3, <1>5 DEF Spells, IsPattern, RequestPaths, RoutePaths
  <2>2. route.path.segs = path.segs
    BY <1>2, <1>3, <2>1 DEF RequestPaths, RoutePaths
  <2>3. route.path.slash = (route.path.segs = <<>>)
    BY <1>2, <1>5, StripKeepsSegments DEF Stored, RoutePaths
  <2>4. route.path = p
    BY <1>1, <1>2, <2>2, <2>3 DEF RequestPaths, RoutePaths
  <2> QED
    BY <1>3, <1>5, <2>4 DEF Matches
<1> QED
  BY <1>4, <1>5

\* A route without a parameter answers the paths it spells and no others: what
\* regex_search() lets through besides, only a route with one does.
THEOREM LiteralIsExact ==
    ASSUME NEW route \in Routes, Stored(route.path), ~IsPattern(route.path),
           NEW method, NEW path \in RequestPaths
    PROVE  Matches(route, method, path) <=> Spells(route, method, path)
<1>1. ASSUME Matches(route, method, path) PROVE Spells(route, method, path)
  <2>1. route.method = method /\ route.path = Strip(path)
    BY <1>1 DEF Matches
  <2>2. route.path.segs = path.segs
    BY <2>1, StripKeepsSegments DEF RequestPaths
  <2> QED
    BY <2>1, <2>2 DEF Spells
<1> QED
  BY <1>1, SpeltIsMatched

-----------------------------------------------------------------------------
(* The inductive invariant: how far start() and the listener have come with *)
(* one another (Phases), what the report says (Reported), the list of       *)
(* routes, and what a walk has passed (Walked).                             *)

Launched == server # "none"

Phases ==
    /\ ~started => at = "idle" /\ ~Launched
    /\ at = "register" => routes = <<>> /\ ~Launched
    /\ at = "launch" => ~Launched
    /\ at \in {"wait", "asleep"} => Launched /\ returned.launch = "none"
    /\ started /\ at \notin {"register", "launch", "wait", "asleep"} => Launched /\ done
    /\ ~Launched => listener = "none" /\ returned.launch = "none" /\ ~done
    /\ Launched =>
          /\ done <=> listener \in {"notify", "loop", "finished"}
          /\ listener # "none"
    /\ ~started => routes = <<>>

Reported ==
    /\ server = "starting" <=> listener = "starting"
    /\ listener = "ports" => server = "up"
    /\ listener = "error" => server = "failed"
    /\ listener \in {"done", "notify", "loop", "finished"} =>
          IF status = "ok" THEN server # "failed" /\ flags = Ports
                           ELSE server = "failed"
    /\ returned.launch # "none" => done /\ returned.launch = status
    /\ listener \in {"none", "starting", "ports", "error"} => status = "ok"

BuiltinsFirst ==
    /\ at = "launch" \/ Launched => Len(routes) >= 2
    /\ \A n \in DOMAIN routes : n <= 2 => routes[n].handler
    /\ \A n \in DOMAIN routes : Stored(routes[n].path)
    /\ at = "handler" => Len(routes) >= 3

Found(w, n) == Matches(routes[n], w.request.method, w.request.path)

Walked(r) ==
    LET w == walk[r]
    IN  w.phase # "idle" =>
          /\ w.seen <= Len(routes)
          /\ w.route <= Len(routes)
          /\ w.route # 0 => \A n \in 1 .. w.route - 1 : ~Found(w, n)
          /\ w.route = 0 => \A n \in 1 .. w.seen : ~Found(w, n)
          /\ w.phase = "answered" /\ w.route # 0 => Found(w, w.route)

\* TypeOK without its bound on w.route, which Walked has.
Types ==
    /\ started \in BOOLEAN
    /\ routes \in Seq(Routes)
    /\ Len(routes) <= MaxRoutes
    /\ server \in {"none", "starting", "up", "failed", "stopping", "stopped"}
    /\ flags \subseteq Ports
    /\ status \in {"ok", "error"}
    /\ done \in BOOLEAN
    /\ at \in {"idle", "register", "launch", "wait", "asleep", "handler",
               "stop", "join", "gone"}
    /\ listener \in {"none", "starting", "ports", "error", "done", "notify",
                     "loop", "finished"}
    /\ walk \in [Readers -> Walks]
    /\ crash \in {"none", "start", "route", "bare", "method", "noServer", "notify"}
    /\ returned \in [launch : {"none", "ok", "error"}, again : {"none", "ok"}]

IInv ==
    /\ Types
    /\ Phases
    /\ Reported
    /\ BuiltinsFirst
    /\ \A r \in Readers : Walked(r)
    /\ StartIsSafe

-----------------------------------------------------------------------------
(* The list of routes.                                                     *)

\* What route() appends is a route with a stored path.
LEMMA NewRoute ==
    ASSUME NEW method \in Methods, NEW path \in RoutePaths
    PROVE  /\ BareRoute(method, path) \in Routes
           /\ Stored(BareRoute(method, path).path)
BY WithPrefixIsStored DEF BareRoute, Routes

\* What start() registers is a route with a handler.
LEMMA BuiltinRoute ==
    ASSUME NEW path \in RequestPaths
    PROVE  /\ Builtin(path) \in Routes
           /\ Builtin(path).handler
           /\ Stored(Builtin(path).path)
<1>1. path.segs \in Seq(Segments \cup Params) /\ path \in RoutePaths
  BY DEF RequestPaths, RoutePaths
<1>2. Get \in Methods
  BY WebServiceAssumption
<1>3. BareRoute(Get, path) \in Routes /\ Stored(BareRoute(Get, path).path)
  BY <1>1, <1>2, NewRoute
<1> QED
  BY <1>3 DEF Builtin, Routes

\* A step of the list: it keeps its routes, their methods and paths, and the
\* handlers they have.
Grows ==
    /\ routes' \in Seq(Routes)
    /\ Len(routes) <= Len(routes')
    /\ \A n \in DOMAIN routes :
          /\ routes'[n].method = routes[n].method
          /\ routes'[n].path = routes[n].path
          /\ routes[n].handler => routes'[n].handler
    /\ \A n \in DOMAIN routes' :
          /\ Stored(routes'[n].path)
          /\ n <= 2 => routes'[n].handler

\* start() makes a list of the two built-in routes.
LEMMA RegisterGrows ==
    ASSUME IInv, StartRegister
    PROVE  /\ Grows
           /\ at' = "launch" /\ crash' = crash /\ Len(routes') = 2
<1> DEFINE b1 == Builtin(StatusPath)
           b2 == Builtin(Root)
<1>1. started /\ routes = <<>>
  BY DEF IInv, Phases, StartRegister
<1>2. routes' = <<b1, b2>> /\ at' = "launch" /\ crash' = crash
  BY <1>1 DEF StartRegister, AppendRoute
<1>3. StatusPath \in RequestPaths /\ Root \in RequestPaths
  BY WebServiceAssumption DEF RequestPaths, Root
<1>4. b1 \in Routes /\ b1.handler /\ Stored(b1.path)
  BY <1>3, BuiltinRoute
<1>5. b2 \in Routes /\ b2.handler /\ Stored(b2.path)
  BY <1>3, BuiltinRoute
<1> HIDE DEF b1, b2
<1>6. /\ routes' \in Seq(Routes)
      /\ Len(routes') = 2 /\ DOMAIN routes' = 1 .. 2
      /\ routes'[1] = b1 /\ routes'[2] = b2
  BY <1>2, <1>4, <1>5
<1>7. \A n \in DOMAIN routes' : Stored(routes'[n].path) /\ routes'[n].handler
  BY <1>4, <1>5, <1>6
<1> QED
  BY <1>1, <1>2, <1>6, <1>7 DEF Grows

\* route() appends one route behind them, or ends the process.
LEMMA AddGrows ==
    ASSUME IInv, AddRoute
    PROVE  \/ /\ Grows
              /\ at' = "handler" /\ crash' = crash
              /\ Len(routes') = Len(routes) + 1 /\ Len(routes') >= 3
              /\ started
           \/ routes' = routes /\ at' = at /\ crash' = "route"
<1>1. CASE routes' = routes /\ at' = at /\ crash' = "route"
  BY <1>1
<1>2. CASE ~ (routes' = routes /\ at' = at /\ crash' = "route")
  <2>1. PICK new \in UserRoutes :
            /\ started
            /\ routes' = Append(routes, BareRoute(new.method, new.path))
            /\ at' = "handler" /\ crash' = crash
    BY <1>2 DEF AddRoute, AppendRoute
  <2>2. new.method \in Methods /\ new.path \in RoutePaths
    BY <2>1, WebServiceAssumption
  <2> DEFINE b == BareRoute(new.method, new.path)
  <2>3. b \in Routes /\ Stored(b.path)
    BY <2>2, NewRoute
  <2> HIDE DEF b
  <2>4. routes \in Seq(Routes) /\ Len(routes) >= 2
    BY <2>1 DEF IInv, Types, Phases, BuiltinsFirst, AddRoute
  <2>5. /\ \A n \in DOMAIN routes : Stored(routes[n].path)
        /\ \A n \in DOMAIN routes : n <= 2 => routes[n].handler
    BY DEF IInv, BuiltinsFirst
  <2>6. /\ routes' \in Seq(Routes)
        /\ Len(routes') = Len(routes) + 1
        /\ DOMAIN routes = 1 .. Len(routes)
        /\ DOMAIN routes' = 1 .. Len(routes) + 1
        /\ \A n \in 1 .. Len(routes) : routes'[n] = routes[n]
        /\ routes'[Len(routes) + 1] = b
    BY <2>1, <2>3, <2>4 DEF b
  <2>7. ASSUME NEW n \in DOMAIN routes'
        PROVE  Stored(routes'[n].path) /\ (n <= 2 => routes'[n].handler)
    <3>1. CASE n = Len(routes) + 1
      BY <2>3, <2>4, <2>6, <3>1
    <3>2. CASE n \in 1 .. Len(routes)
      BY <2>5, <2>6, <3>2
    <3> QED
      BY <2>4, <2>6, <3>1, <3>2
  <2>8. Len(routes) <= Len(routes')
    BY <2>4, <2>6
  <2>9. Grows
    BY <2>6, <2>7, <2>8 DEF Grows
  <2>10. Len(routes') = Len(routes) + 1 /\ Len(routes') >= 3
    BY <2>4, <2>6
  <2> QED
    BY <2>1, <2>9, <2>10
<1> QED
  BY <1>1, <1>2

\* handler() changes the handler of the last route and nothing else.
LEMMA HandlerGrows ==
    ASSUME IInv, SetHandler
    PROVE  Grows /\ Len(routes') = Len(routes)
<1>1. routes \in Seq(Routes) /\ Len(routes) >= 3
  BY DEF IInv, Types, BuiltinsFirst, SetHandler
<1>2. routes' = [routes EXCEPT ![Len(routes)].handler = TRUE]
  BY DEF SetHandler
<1>3. /\ DOMAIN routes = 1 .. Len(routes)
      /\ \A n \in 1 .. Len(routes) : routes[n] \in Routes
  BY <1>1
<1>4. \A route \in Routes :
        /\ [route EXCEPT !.handler = TRUE] \in Routes
        /\ [route EXCEPT !.handler = TRUE].method = route.method
        /\ [route EXCEPT !.handler = TRUE].path = route.path
        /\ [route EXCEPT !.handler = TRUE].handler
  BY DEF Routes
<1>5. \A n \in 1 .. Len(routes) :
        routes'[n] = IF n = Len(routes) THEN [routes[n] EXCEPT !.handler = TRUE]
                                        ELSE routes[n]
  BY <1>1, <1>2, <1>3
<1>6. routes' \in Seq(Routes) /\ Len(routes') = Len(routes)
  BY <1>1, <1>2, <1>3, <1>4, <1>5
<1>7. /\ \A n \in DOMAIN routes : Stored(routes[n].path)
      /\ \A n \in DOMAIN routes : n <= 2 => routes[n].handler
  BY DEF IInv, BuiltinsFirst
<1>8. DOMAIN routes' = 1 .. Len(routes)
  BY <1>3, <1>6
<1>9. ASSUME NEW n \in 1 .. Len(routes)
      PROVE  /\ routes'[n].method = routes[n].method
             /\ routes'[n].path = routes[n].path
             /\ routes[n].handler => routes'[n].handler
  <2>1. routes[n] \in Routes
    BY <1>3
  <2> QED
    BY <1>4, <1>5, <2>1
<1>10. \A n \in 1 .. Len(routes) :
          Stored(routes'[n].path) /\ (n <= 2 => routes'[n].handler)
  BY <1>3, <1>7, <1>9
<1> QED
  BY <1>3, <1>6, <1>8, <1>9, <1>10 DEF Grows

\* A list left alone keeps what it has.
LEMMA StillGrows ==
    ASSUME IInv, UNCHANGED routes
    PROVE  Grows
BY DEF IInv, Types, BuiltinsFirst, Grows

\* Every step leaves the list alone or is one of the three above.
LEMMA WhoWritesRoutes ==
    ASSUME [Next]_vars
    PROVE  StartRegister \/ AddRoute \/ SetHandler \/ UNCHANGED routes
BY DEF Next, Owner, Proceed, Start, Listener, Serve, Over, vars, StartAgain, StartBegin,
       SpuriousWakeup, Destroy, StartLaunch, Wait, StopReturn, Join, Report,
       SetPorts, SetStatus, SetDone, NotifyAll, LeaveLoop, BeginRequest,
       TryRoute, TryUnknown, NotFound, CompleteRequest

\* No step removes, reorders or redirects a route.
LEMMA RoutesGrow ==
    ASSUME IInv, [Next]_vars
    PROVE  Grows
BY WhoWritesRoutes, RegisterGrows, AddGrows, HandlerGrows, StillGrows

-----------------------------------------------------------------------------
(* The owner's calls and the listener.                                     *)

\* The steps that write what the owner and the listener share; all others,
\* the requests' among them, leave all that alone.
LEMMA StepCases ==
    ASSUME [Next]_vars
    PROVE  \/ StartAgain \/ StartBegin \/ SpuriousWakeup \/ AddRoute \/ Destroy
           \/ StartRegister \/ StartLaunch \/ Wait \/ SetHandler \/ StopReturn
           \/ Join \/ Report \/ SetPorts \/ SetStatus \/ SetDone \/ NotifyAll
           \/ LeaveLoop
           \/ UNCHANGED <<owner, server, report, listener>> /\ UNCHANGED routes
BY DEF Next, Owner, Proceed, Start, Listener, Serve, Over, vars,
       BeginRequest, TryRoute, TryUnknown, NotFound, CompleteRequest

\* Every step keeps the owner and the listener in step.
LEMMA PhasesStep ==
    ASSUME IInv, [Next]_vars
    PROVE  Phases'
<1>1. CASE StartAgain
  BY <1>1 DEF IInv, Types, Phases, Launched, StartAgain, owner, report
<1>2. CASE StartBegin
  BY <1>2 DEF IInv, Types, Phases, Launched, StartBegin, owner, report
<1>3. CASE SpuriousWakeup
  BY <1>3 DEF IInv, Types, Phases, Launched, SpuriousWakeup, owner, report
<1>4. CASE AddRoute
  BY <1>4, AddGrows DEF IInv, Types, Phases, Launched, AddRoute, owner, report
<1>5. CASE Destroy
  BY <1>5 DEF IInv, Types, Phases, Launched, Destroy, owner, report
<1>6. CASE StartRegister
  BY <1>6, RegisterGrows DEF IInv, Types, Phases, Launched, StartRegister, owner, report
<1>7. CASE StartLaunch
  <2>1. /\ started = TRUE /\ returned.launch = "none"
    BY <1>7 DEF IInv, Types, Phases, Launched, StartLaunch
  <2>2. /\ started' = TRUE /\ returned' = returned /\ done' = FALSE
        /\ server' = "starting" /\ listener' = "starting" /\ at' = "wait"
    BY <1>7, <2>1 DEF StartLaunch
  <2> QED
    BY <2>1, <2>2 DEF Phases, Launched
<1>8. CASE Wait
  BY <1>8 DEF IInv, Types, Phases, Launched, Wait, owner, report
<1>9. CASE SetHandler
  BY <1>9 DEF IInv, Types, Phases, Launched, SetHandler, owner, report
<1>10. CASE StopReturn
  BY <1>10 DEF IInv, Types, Phases, Launched, StopReturn, owner, report
<1>11. CASE Join
  BY <1>11 DEF IInv, Types, Phases, Launched, Join, owner, report
<1>12. CASE Report
  BY <1>12 DEF IInv, Types, Phases, Launched, Report, owner, report
<1>13. CASE SetPorts
  BY <1>13 DEF IInv, Types, Phases, Launched, SetPorts, owner, report
<1>14. CASE SetStatus
  BY <1>14 DEF IInv, Types, Phases, Launched, SetStatus, owner, report
<1>15. CASE SetDone
  BY <1>15 DEF IInv, Types, Phases, Launched, SetDone, owner, report
<1>16. CASE NotifyAll
  BY <1>16 DEF IInv, Types, Phases, Launched, NotifyAll, owner, report
<1>17. CASE LeaveLoop
  BY <1>17 DEF IInv, Types, Phases, Launched, LeaveLoop, owner, report
<1>18. CASE UNCHANGED <<owner, server, report, listener>> /\ UNCHANGED routes
  BY <1>18 DEF IInv, Phases, Launched, owner, report
<1> QED
  BY <1>1, <1>2, <1>3, <1>4, <1>5, <1>6, <1>7, <1>8, <1>9, <1>10, <1>11, <1>12, <1>13, <1>14, <1>15, <1>16, <1>17, <1>18, StepCases

\* Every step keeps what the listener knows true.
LEMMA ReportedStep ==
    ASSUME IInv, [Next]_vars
    PROVE  Reported'
<1>1. CASE StartAgain
  BY <1>1 DEF IInv, Types, Phases, Reported, Launched, StartAgain, owner, report
<1>2. CASE StartBegin
  BY <1>2 DEF IInv, Types, Phases, Reported, Launched, StartBegin, owner, report
<1>3. CASE SpuriousWakeup
  BY <1>3 DEF IInv, Types, Phases, Reported, Launched, SpuriousWakeup, owner, report
<1>4. CASE AddRoute
  BY <1>4 DEF IInv, Types, Phases, Reported, Launched, AddRoute, owner, report
<1>5. CASE Destroy
  BY <1>5 DEF IInv, Types, Phases, Reported, Launched, Destroy, owner, report
<1>6. CASE StartRegister
  BY <1>6 DEF IInv, Types, Phases, Reported, Launched, StartRegister, owner, report
<1>7. CASE StartLaunch
  BY <1>7 DEF IInv, Types, Phases, Reported, Launched, StartLaunch, owner, report
<1>8. CASE Wait
  BY <1>8 DEF IInv, Types, Phases, Reported, Launched, Wait, owner, report
<1>9. CASE SetHandler
  BY <1>9 DEF IInv, Types, Phases, Reported, Launched, SetHandler, owner, report
<1>10. CASE StopReturn
  BY <1>10 DEF IInv, Types, Phases, Reported, Launched, StopReturn, owner, report
<1>11. CASE Join
  BY <1>11 DEF IInv, Types, Phases, Reported, Launched, Join, owner, report
<1>12. CASE Report
  BY <1>12 DEF IInv, Types, Phases, Reported, Launched, Report, owner, report
<1>13. CASE SetPorts
  BY <1>13 DEF IInv, Types, Phases, Reported, Launched, SetPorts, owner, report
<1>14. CASE SetStatus
  BY <1>14 DEF IInv, Types, Phases, Reported, Launched, SetStatus, owner, report
<1>15. CASE SetDone
  BY <1>15 DEF IInv, Types, Phases, Reported, Launched, SetDone, owner, report
<1>16. CASE NotifyAll
  BY <1>16 DEF IInv, Types, Phases, Reported, Launched, NotifyAll, owner, report
<1>17. CASE LeaveLoop
  BY <1>17 DEF IInv, Types, Phases, Reported, Launched, LeaveLoop, owner, report
<1>18. CASE UNCHANGED <<owner, server, report, listener>> /\ UNCHANGED routes
  BY <1>18 DEF IInv, Reported, owner, report
<1> QED
  BY <1>1, <1>2, <1>3, <1>4, <1>5, <1>6, <1>7, <1>8, <1>9, <1>10, <1>11, <1>12, <1>13, <1>14, <1>15, <1>16, <1>17, <1>18, StepCases

\* Every step keeps the built-in routes in front, with their handlers.
LEMMA BuiltinsFirstStep ==
    ASSUME IInv, [Next]_vars
    PROVE  BuiltinsFirst'
<1>1. Grows
  BY RoutesGrow
<1>2. routes \in Seq(Routes) /\ routes' \in Seq(Routes) /\ Len(routes) <= Len(routes')
  BY <1>1 DEF Grows, IInv, Types
<1>3. Len(routes) \in Nat /\ Len(routes') \in Nat
  BY <1>2
<1>4. at' = "launch" => at = "launch" \/ StartRegister
  BY StepCases DEF StartAgain, StartBegin, SpuriousWakeup, AddRoute,
     Destroy, StartLaunch, Wait, SetHandler, StopReturn, Join, Report, SetPorts,
     SetStatus, SetDone, NotifyAll, LeaveLoop, owner
<1>5. server' # "none" => server # "none" \/ at = "launch"
  BY StepCases DEF IInv, Reported, StartAgain, StartBegin, SpuriousWakeup, AddRoute,
     Destroy, StartRegister, StartLaunch, Wait, SetHandler, StopReturn, Join,
     Report, SetPorts, SetStatus, SetDone, NotifyAll, LeaveLoop
<1>6. at' = "handler" => at = "handler" \/ (AddRoute /\ at' = "handler")
  BY StepCases DEF StartAgain, StartBegin, SpuriousWakeup,
     Destroy, StartRegister, StartLaunch, Wait, SetHandler, StopReturn, Join,
     Report, SetPorts, SetStatus, SetDone, NotifyAll, LeaveLoop, owner
<1>7. at' = "launch" \/ Launched' => Len(routes') >= 2
  BY <1>2, <1>3, <1>4, <1>5, RegisterGrows DEF IInv, BuiltinsFirst, Launched
<1>8. ASSUME at' = "handler"
      PROVE  Len(routes') >= 3
  <2>1. CASE at = "handler"
    BY <1>2, <1>3, <2>1 DEF IInv, BuiltinsFirst
  <2>2. CASE AddRoute
    <3>1. at # "handler"
      BY <2>2 DEF AddRoute
    <3> QED
      BY <1>8, <2>2, <3>1, AddGrows
  <2> QED
    BY <1>6, <1>8, <2>1, <2>2
<1> QED
  BY <1>1, <1>7, <1>8 DEF BuiltinsFirst, Grows

-----------------------------------------------------------------------------
(* The requests.                                                           *)

\* A walk under way has a request and a place.
LEMMA WalkRecord ==
    ASSUME NEW w \in Walks, w.phase # "idle"
    PROVE  w \in [phase : {"walk", "answered"}, request : Requests,
                  route : 0 .. MaxRoutes, seen : 0 .. MaxRoutes]
BY DEF Walks, Resting

\* What a route matches does not change while the list grows.
LEMMA FoundStays ==
    ASSUME Grows, NEW w, NEW n \in DOMAIN routes
    PROVE  Matches(routes'[n], w.request.method, w.request.path)
               <=> Found(w, n)
<1>1. routes'[n].method = routes[n].method /\ routes'[n].path = routes[n].path
  BY DEF Grows
<1> QED
  BY <1>1 DEF Matches, Found

\* A walk that does not move stays true of the longer list.
LEMMA WalkRests ==
    ASSUME IInv, Grows, NEW r \in Readers, walk'[r] = walk[r]
    PROVE  Walked(r)'
<1>1. /\ routes \in Seq(Routes) /\ routes' \in Seq(Routes)
      /\ Len(routes) <= Len(routes') /\ Len(routes) \in Nat /\ Len(routes') \in Nat
      /\ DOMAIN routes = 1 .. Len(routes)
  BY DEF IInv, Types, Grows
<1>2. walk[r] \in Walks
  BY DEF IInv, Types
<1>3. CASE walk[r].phase = "idle"
  BY <1>3 DEF Walked
<1>4. CASE walk[r].phase # "idle"
  <2> DEFINE w == walk[r]
  <2>1. w.route \in Nat /\ w.seen \in Nat
    BY <1>2, <1>4, WalkRecord, WebServiceAssumption
  <2>2. /\ w.seen <= Len(routes)
        /\ w.route <= Len(routes)
        /\ w.route # 0 => \A n \in 1 .. w.route - 1 : ~Found(w, n)
        /\ w.route = 0 => \A n \in 1 .. w.seen : ~Found(w, n)
        /\ w.phase = "answered" /\ w.route # 0 => Found(w, w.route)
    BY <1>4 DEF IInv, Walked
  <2> HIDE DEF w
  <2>3. \A n \in 1 .. Len(routes) :
            Matches(routes'[n], w.request.method, w.request.path) <=> Found(w, n)
    BY <1>1, FoundStays
  <2> DEFINE After(n) == Matches(routes'[n], w.request.method, w.request.path)
  <2>4. w.route # 0 => \A n \in 1 .. w.route - 1 : ~After(n)
    BY <1>1, <2>1, <2>2, <2>3
  <2>5. w.route = 0 => \A n \in 1 .. w.seen : ~After(n)
    BY <1>1, <2>1, <2>2, <2>3
  <2>6. w.phase = "answered" /\ w.route # 0 => After(w.route)
    BY <1>1, <2>1, <2>2, <2>3
  <2>7. w.seen <= Len(routes') /\ w.route <= Len(routes')
    BY <1>1, <2>1, <2>2
  <2>8. walk'[r] = w
    BY DEF w
  <2> QED
    BY <2>4, <2>5, <2>6, <2>7, <2>8 DEF Walked, Found
<1> QED
  BY <1>3, <1>4

\* A request begins at the first route, having passed none.
LEMMA WalkBegins ==
    ASSUME IInv, NEW r \in Readers, BeginRequest(r)
    PROVE  walk'[r] \in Walks /\ Walked(r)'
<1>1. PICK request \in Requests :
          walk' = [walk EXCEPT ![r] = Serving(request, 1, Len(routes))]
  BY DEF BeginRequest
<1>2. walk'[r] = Serving(request, 1, Len(routes)) /\ routes' = routes
  BY <1>1 DEF BeginRequest, IInv, Types
<1>3. Len(routes) \in 2 .. MaxRoutes
  BY WebServiceAssumption DEF BeginRequest, IInv, Types, BuiltinsFirst, Launched
<1> QED
  BY <1>2, <1>3, WebServiceAssumption DEF Serving, Walked, Walks

\* A walk moves past a route only if it does not match.
LEMMA WalkMoves ==
    ASSUME IInv, NEW r \in Readers, TryRoute(r), walk'[r] # walk[r]
    PROVE  walk'[r] \in Walks /\ Walked(r)'
<1> DEFINE w == walk[r]
<1>1. /\ w \in Walks /\ w.phase = "walk" /\ w.route # 0 /\ Walked(r)
      /\ routes' = routes /\ walk \in [Readers -> Walks]
  BY DEF IInv, Types, TryRoute
<1>2. w \in [phase : {"walk", "answered"}, request : Requests,
             route : 0 .. MaxRoutes, seen : 0 .. MaxRoutes]
  BY <1>1, WalkRecord
<1>3. /\ Len(routes) \in 0 .. MaxRoutes /\ MaxRoutes \in Nat
      /\ w.route \in 1 .. Len(routes) /\ w.seen \in 0 .. Len(routes)
      /\ \A n \in 1 .. w.route - 1 : ~Found(w, n)
  BY <1>1, <1>2, WebServiceAssumption DEF Walked, IInv, Types
<1>4. CASE Found(w, w.route)
  <2>1. walk'[r] = [w EXCEPT !.phase = "answered"]
    BY <1>1, <1>4 DEF TryRoute, Found
  <2>2. [w EXCEPT !.phase = "answered"] \in Walks
    BY <1>2 DEF Walks
  <2> QED
    BY <1>1, <1>2, <1>3, <1>4, <2>1, <2>2 DEF Walked, Found
<1>5. CASE ~Found(w, w.route)
  <2>1. walk'[r] = [w EXCEPT !.route = NextRoute(w.route)]
    BY <1>1, <1>5 DEF TryRoute, Found
  <2>2. NextRoute(w.route) \in 0 .. Len(routes)
    BY <1>3 DEF NextRoute
  <2>3. [w EXCEPT !.route = NextRoute(w.route)] \in Walks
    BY <1>2, <1>3, <2>2 DEF Walks
  <2>4. \A n \in 1 .. w.route : ~Found(w, n)
    BY <1>3, <1>5
  <2>5. NextRoute(w.route) # 0 => NextRoute(w.route) - 1 = w.route
    BY <1>3 DEF NextRoute
  <2>6. NextRoute(w.route) = 0 => w.route = Len(routes)
    BY <1>3 DEF NextRoute
  <2>7. /\ walk'[r].route = NextRoute(w.route) /\ walk'[r].phase = "walk"
        /\ walk'[r].seen = w.seen /\ walk'[r].request = w.request
    BY <1>1, <1>2, <2>1
  <2>8. walk'[r].route # 0 => \A n \in 1 .. walk'[r].route - 1 : ~Found(w, n)
    BY <2>4, <2>5, <2>7
  <2>9. walk'[r].route = 0 => \A n \in 1 .. walk'[r].seen : ~Found(w, n)
    BY <1>3, <2>4, <2>6, <2>7
  <2> QED
    BY <1>1, <1>3, <2>1, <2>2, <2>3, <2>7, <2>8, <2>9 DEF Walked, Found
<1> QED
  BY <1>4, <1>5

\* The end of a walk passes no further route.
LEMMA WalkEnds ==
    ASSUME IInv, NEW r \in Readers, NotFound(r) \/ CompleteRequest(r)
    PROVE  walk'[r] \in Walks /\ Walked(r)'
<1>1. walk[r] \in Walks /\ Walked(r) /\ routes' = routes /\ walk \in [Readers -> Walks]
  BY DEF IInv, Types, NotFound, CompleteRequest
<1>2. CASE NotFound(r)
  <2>1. walk'[r] = [walk[r] EXCEPT !.phase = "answered"] /\ walk[r].phase = "walk"
        /\ walk[r].route = 0
    BY <1>1, <1>2 DEF NotFound
  <2>2. walk[r] \in [phase : {"walk", "answered"}, request : Requests,
                     route : 0 .. MaxRoutes, seen : 0 .. MaxRoutes]
    BY <1>1, <2>1, WalkRecord
  <2> QED
    BY <1>1, <2>1, <2>2 DEF Walked, Found, Walks
<1>3. CASE CompleteRequest(r)
  <2>1. walk'[r] = Resting
    BY <1>1, <1>3 DEF CompleteRequest
  <2> QED
    BY <2>1 DEF Walked, Resting, Walks
<1> QED
  BY <1>2, <1>3

\* Every step leaves a walk alone or is one of its own four.
LEMMA WhoWalks ==
    ASSUME IInv, [Next]_vars, NEW r \in Readers
    PROVE  \/ walk'[r] = walk[r]
           \/ BeginRequest(r) \/ TryRoute(r) \/ NotFound(r) \/ CompleteRequest(r)
<1>1. walk \in [Readers -> Walks]
  BY DEF IInv, Types
<1>2. CASE \E q \in Readers : BeginRequest(q) \/ Serve(q)
  <2>1. PICK q \in Readers : BeginRequest(q) \/ Serve(q)
    BY <1>2
  <2>2. q # r => walk'[r] = walk[r]
    BY <1>1, <2>1 DEF Serve, BeginRequest, TryRoute, TryUnknown, NotFound,
       CompleteRequest
  <2> QED
    BY <2>1, <2>2 DEF Serve, TryUnknown
<1>3. CASE ~ \E q \in Readers : BeginRequest(q) \/ Serve(q)
  <2>1. UNCHANGED walk
    BY <1>3 DEF Next, Owner, Proceed, Start, Listener, Over, vars, StartAgain,
       StartBegin, SpuriousWakeup, AddRoute, Destroy, StartRegister, StartLaunch,
       Wait, SetHandler, StopReturn, Join, Report, SetPorts, SetStatus, SetDone,
       NotifyAll, LeaveLoop
  <2> QED
    BY <2>1
<1> QED
  BY <1>2, <1>3

\* Every step keeps every walk in the list, with no match behind it.
LEMMA WalkedStep ==
    ASSUME IInv, [Next]_vars, NEW r \in Readers
    PROVE  walk'[r] \in Walks /\ Walked(r)'
<1>1. walk[r] \in Walks /\ Grows
  BY RoutesGrow DEF IInv, Types
<1>2. CASE walk'[r] = walk[r]
  BY <1>1, <1>2, WalkRests
<1>3. CASE walk'[r] # walk[r]
  BY <1>3, WhoWalks, WalkBegins, WalkMoves, WalkEnds
<1> QED
  BY <1>2, <1>3

-----------------------------------------------------------------------------
(* What ends the process, and the types.                                   *)

\* Only a request that finds a route crashes over a missing handler.
LEMMA WhoCrashes ==
    ASSUME IInv, [Next]_vars
    PROVE  \/ UNCHANGED crash
           \/ crash' \in {"route", "method", "noServer", "notify"}
           \/ crash = "none" /\ crash' = "bare" /\ \E r \in Readers : TryRoute(r)
<1>1. CASE \E q \in Readers : crash = "none" /\ TryRoute(q)
  BY <1>1 DEF TryRoute
<1>2. CASE StartRegister
  BY <1>2, RegisterGrows
<1>3. CASE AddRoute
  BY <1>3, AddGrows
<1>4. CASE ~ ((\E q \in Readers : crash = "none" /\ TryRoute(q))
                 \/ StartRegister \/ AddRoute)
  BY <1>4 DEF Next, Owner, Proceed, Start, Listener, Serve, Over, vars, StartAgain,
     StartBegin, SpuriousWakeup, Destroy, StartLaunch, Wait, SetHandler,
     StopReturn, Join, Report, SetPorts, SetStatus, SetDone, NotifyAll, LeaveLoop,
     BeginRequest, TryUnknown, NotFound, CompleteRequest
<1> QED
  BY <1>1, <1>2, <1>3, <1>4

\* No step of start() aborts, and no built-in route is found bare.
LEMMA StartIsSafeStep ==
    ASSUME IInv, [Next]_vars
    PROVE  StartIsSafe'
<1>1. StartIsSafe
  BY DEF IInv
<1>2. CASE crash' \in {"route", "method", "noServer", "notify"}
  BY <1>2 DEF StartIsSafe
<1>3. CASE crash = "none" /\ crash' = "none"
  BY <1>3 DEF StartIsSafe
<1>4. CASE crash # "none" /\ UNCHANGED crash
  <2>1. UNCHANGED vars
    BY <1>4 DEF Next, Over, vars
  <2> QED
    BY <1>1, <2>1 DEF StartIsSafe, vars
<1>5. CASE crash = "none" /\ crash' = "bare"
  <2>1. PICK r \in Readers : TryRoute(r)
    BY <1>5, WhoCrashes
  <2>2. walk[r] \in Walks /\ walk[r].phase = "walk" /\ walk[r].route # 0 /\ Walked(r)
    BY <2>1 DEF TryRoute, IInv, Types
  <2>3. walk[r].route \in 1 .. Len(routes)
    BY <2>2, WalkRecord, WebServiceAssumption DEF Walked, IInv, Types
  <2>4. ~routes[walk[r].route].handler /\ routes' = routes
    BY <1>5, <2>1 DEF TryRoute
  <2>5. walk[r].route \in 3 .. Len(routes)
    BY <2>3, <2>4 DEF IInv, Types, BuiltinsFirst
  <2> QED
    BY <1>5, <2>4, <2>5 DEF StartIsSafe
<1> QED
  BY <1>2, <1>3, <1>4, <1>5, WhoCrashes

\* Every step keeps the types of what the owner and the listener share.
LEMMA ControlTypes ==
    ASSUME IInv, [Next]_vars
    PROVE  /\ started' \in BOOLEAN
           /\ server' \in {"none", "starting", "up", "failed", "stopping", "stopped"}
           /\ flags' \subseteq Ports
           /\ status' \in {"ok", "error"}
           /\ done' \in BOOLEAN
           /\ at' \in {"idle", "register", "launch", "wait", "asleep", "handler",
                       "stop", "join", "gone"}
           /\ listener' \in {"none", "starting", "ports", "error", "done", "notify",
                             "loop", "finished"}
           /\ returned' \in [launch : {"none", "ok", "error"}, again : {"none", "ok"}]
<1>1. CASE StartRegister
  BY <1>1, RegisterGrows DEF IInv, Types, StartRegister, report
<1>2. CASE AddRoute
  BY <1>2, AddGrows DEF IInv, Types, AddRoute, report
<1>3. CASE StartAgain \/ StartBegin \/ SpuriousWakeup \/ Destroy \/ StartLaunch
  <2>1. CASE StartAgain
    BY <2>1 DEF IInv, Types, StartAgain, owner, report
  <2>2. CASE StartBegin
    BY <2>2 DEF IInv, Types, StartBegin, owner, report
  <2>3. CASE SpuriousWakeup
    BY <2>3 DEF IInv, Types, SpuriousWakeup, owner, report
  <2>4. CASE Destroy
    BY <2>4 DEF IInv, Types, Destroy, owner, report
  <2>5. CASE StartLaunch
    BY <2>5 DEF IInv, Types, StartLaunch, owner, report
  <2> QED
    BY <1>3, <2>1, <2>2, <2>3, <2>4, <2>5
<1>4. CASE Wait \/ SetHandler \/ StopReturn \/ Join
  <2>1. CASE Wait
    BY <2>1 DEF IInv, Types, Wait, owner, report
  <2>2. CASE SetHandler
    BY <2>2 DEF IInv, Types, SetHandler, owner, report
  <2>3. CASE StopReturn
    BY <2>3 DEF IInv, Types, StopReturn, owner, report
  <2>4. CASE Join
    BY <2>4 DEF IInv, Types, Join, owner, report
  <2> QED
    BY <1>4, <2>1, <2>2, <2>3, <2>4
<1>5. CASE Report \/ SetPorts \/ SetStatus \/ SetDone \/ NotifyAll \/ LeaveLoop
  <2>1. CASE Report
    BY <2>1 DEF IInv, Types, Report, owner, report
  <2>2. CASE SetPorts
    BY <2>2 DEF IInv, Types, SetPorts, owner, report
  <2>3. CASE SetStatus
    BY <2>3 DEF IInv, Types, SetStatus, owner, report
  <2>4. CASE SetDone
    BY <2>4 DEF IInv, Types, SetDone, owner, report
  <2>5. CASE NotifyAll
    BY <2>5 DEF IInv, Types, NotifyAll, owner, report
  <2>6. CASE LeaveLoop
    BY <2>6 DEF IInv, Types, LeaveLoop, owner, report
  <2> QED
    BY <1>5, <2>1, <2>2, <2>3, <2>4, <2>5, <2>6
<1>6. CASE UNCHANGED <<owner, server, report, listener>>
  BY <1>6 DEF IInv, Types, owner, report
<1> QED
  BY <1>1, <1>2, <1>3, <1>4, <1>5, <1>6, StepCases

\* Every step keeps the types.
LEMMA TypesStep ==
    ASSUME IInv, [Next]_vars
    PROVE  Types'
<1>1. routes' \in Seq(Routes)
  BY RoutesGrow DEF Grows
<1>2. Len(routes') <= MaxRoutes
  <2>1. CASE StartRegister
    <3>1. Len(routes') = 2
      BY <2>1, RegisterGrows
    <3>2. 2 <= MaxRoutes
      BY WebServiceAssumption
    <3> QED
      BY <3>1, <3>2
  <2>2. CASE AddRoute
    <3>1. Len(routes) < MaxRoutes /\ Len(routes) \in Nat /\ MaxRoutes \in Nat
      BY <2>2, WebServiceAssumption DEF AddRoute, IInv, Types
    <3> QED
      BY <2>2, <3>1, AddGrows
  <2>3. CASE SetHandler
    BY <2>3, HandlerGrows DEF IInv, Types
  <2>4. CASE UNCHANGED routes
    BY <2>4 DEF IInv, Types
  <2> QED
    BY <2>1, <2>2, <2>3, <2>4, WhoWritesRoutes
<1>3. walk' \in [Readers -> Walks]
  <2>1. \A r \in Readers : walk'[r] \in Walks
    BY WalkedStep
  <2>2. walk' = [r \in Readers |-> walk'[r]]
    <3>1. walk = [r \in Readers |-> walk[r]]
      BY DEF IInv, Types
    <3> QED
      BY <3>1 DEF Next, Owner, Proceed, Start, Listener, Serve, Over, vars, StartAgain,
         StartBegin, SpuriousWakeup, AddRoute, Destroy, StartRegister, StartLaunch,
         Wait, SetHandler, StopReturn, Join, Report, SetPorts, SetStatus, SetDone,
         NotifyAll, LeaveLoop, BeginRequest, TryRoute, TryUnknown, NotFound,
         CompleteRequest
  <2> QED
    BY <2>1, <2>2
<1>4. crash' \in {"none", "start", "route", "bare", "method", "noServer", "notify"}
  BY WhoCrashes DEF IInv, Types
<1> QED
  BY <1>1, <1>2, <1>3, <1>4, ControlTypes DEF Types

-----------------------------------------------------------------------------
(* The theorems.                                                           *)

\* A new service satisfies the invariant.
LEMMA InitIInv == Init => IInv
<1> SUFFICES ASSUME Init PROVE IInv
  OBVIOUS
<1>1. Types
  <2>1. routes \in Seq(Routes) /\ Len(routes) = 0 /\ 0 <= MaxRoutes
    BY WebServiceAssumption DEF Init
  <2>2. walk \in [Readers -> Walks]
    BY DEF Init, Walks
  <2>3. returned \in [launch : {"none", "ok", "error"}, again : {"none", "ok"}]
    BY DEF Init
  <2> QED
    BY <2>1, <2>2, <2>3 DEF Init, Types
<1>2. Phases /\ Reported
  BY DEF Init, Phases, Reported, Launched
<1>3. BuiltinsFirst /\ StartIsSafe
  BY DEF Init, BuiltinsFirst, Launched, StartIsSafe
<1>4. \A r \in Readers : Walked(r)
  BY DEF Init, Walked, Resting
<1> QED
  BY <1>1, <1>2, <1>3, <1>4 DEF IInv

\* Every step keeps the invariant.
LEMMA StepIInv == IInv /\ [Next]_vars => IInv'
BY TypesStep, PhasesStep, ReportedStep, BuiltinsFirstStep, WalkedStep,
   StartIsSafeStep DEF IInv

\* The inductive invariant holds in every state the service reaches.
LEMMA SpecIInv == Spec => []IInv
BY InitIInv, StepIInv, PTL DEF Spec

\* Type correctness: a walk never leaves the list behind its last route.
THEOREM TypeCorrect == Spec => []TypeOK
<1>1. IInv => TypeOK
  BY DEF IInv, Types, Walked, TypeOK
<1> QED
  BY <1>1, SpecIInv, PTL

\* What the launching start() returns is what the listener reported, and the
\* port flags are set by then, whatever wakes the condition variable.
THEOREM StartIsTruthful == Spec => []StartTellsTheTruth
<1>1. IInv => StartTellsTheTruth
  BY DEF IInv, Types, Phases, Launched, Reported, StartTellsTheTruth
<1> QED
  BY <1>1, SpecIInv, PTL

\* The callbacks write start()'s local variables only before it returns.
THEOREM LocalsOutlive == Spec => []LocalsOutliveTheirWriters
<1>1. IInv => LocalsOutliveTheirWriters
  BY DEF IInv, Types, Phases, Launched, LocalsOutliveTheirWriters
<1> QED
  BY <1>1, SpecIInv, PTL

\* Neither start() itself nor a request for a built-in route ends the process.
THEOREM StartNeverAborts == Spec => []StartIsSafe
<1>1. IInv => StartIsSafe
  BY DEF IInv
<1> QED
  BY <1>1, SpecIInv, PTL

\* The answer is the first route that matches, and a route registered before
\* the request came is never missed, however the list grows meanwhile.
THEOREM FirstMatch == Spec => []FirstMatchAnswers
<1> DEFINE Passed(w, n) == IF w.route = 0 THEN n <= w.seen ELSE n < w.route
<1>1. ASSUME IInv, NEW r \in Readers, walk[r].phase = "answered"
      PROVE  /\ walk[r].route # 0 => Found(walk[r], walk[r].route)
             /\ \A n \in DOMAIN routes : Passed(walk[r], n) =>
                   /\ ~Found(walk[r], n)
                   /\ ~Spells(routes[n], walk[r].request.method, walk[r].request.path)
  <2> DEFINE w == walk[r]
  <2>1. w \in Walks /\ Walked(r)
    BY <1>1 DEF IInv, Types
  <2>2. /\ w.request \in [method : Methods \cup {Unknown}, path : RequestPaths]
        /\ w.route \in 0 .. MaxRoutes /\ w.seen \in 0 .. MaxRoutes
    BY <1>1, <2>1, WalkRecord, WebServiceAssumption
  <2>3. /\ w.route # 0 => \A n \in 1 .. w.route - 1 : ~Found(w, n)
        /\ w.route = 0 => \A n \in 1 .. w.seen : ~Found(w, n)
        /\ w.route # 0 => Found(w, w.route)
    BY <1>1, <2>1 DEF Walked
  <2>4. routes \in Seq(Routes) /\ MaxRoutes \in Nat
    BY <1>1, WebServiceAssumption DEF IInv, Types
  <2> HIDE DEF w
  <2>5. ASSUME NEW n \in DOMAIN routes, Passed(w, n)
        PROVE  ~Found(w, n) /\ ~Spells(routes[n], w.request.method, w.request.path)
    <3>1. ~Found(w, n)
      BY <2>2, <2>3, <2>4, <2>5
    <3>2. routes[n] \in Routes /\ Stored(routes[n].path)
      BY <1>1, <2>4 DEF IInv, BuiltinsFirst
    <3>3. w.request.path \in RequestPaths
      BY <2>2
    <3> QED
      BY <3>1, <3>2, <3>3, SpeltIsMatched DEF Found
  <2> QED
    BY <2>3, <2>5 DEF w
<1>2. IInv => FirstMatchAnswers
  BY <1>1 DEF FirstMatchAnswers, Found
<1> QED
  BY <1>2, SpecIInv, PTL
-----------------------------------------------------------------------------
(* The safety half of CallsReturn: start() and the destructor sleep, wait and *)
(* join only where somebody is still to wake them; and what a later start()   *)
(* may conceal.                                                               *)

\* The start() that launched the server has returned.
PastStart == started /\ at \notin {"register", "launch", "wait", "asleep"}

CallsInv ==
    /\ at = "asleep" => listener \in {"starting", "ports", "error", "done", "notify"}
    /\ at \notin {"stop", "join", "gone"} => server \notin {"stopping", "stopped"}
    /\ at = "stop" => server \in {"stopping", "failed"}
    /\ at \in {"join", "gone"} => server \in {"stopped", "failed"}
    /\ listener = "loop" => server # "failed"
    /\ PastStart => returned.launch # "none"
    /\ returned.again = "ok" => PastStart

\* Every step keeps a sleeper's or a joiner's counterpart on its way.
LEMMA CallsStep ==
    ASSUME IInv, CallsInv, [Next]_vars
    PROVE  CallsInv'
<1> USE DEF CallsInv, PastStart
<1>1. CASE StartAgain
  BY <1>1 DEF IInv, Types, StartAgain, owner, report
<1>2. CASE StartBegin
  BY <1>2 DEF IInv, Types, Phases, Launched, StartBegin, owner, report
<1>3. CASE SpuriousWakeup
  BY <1>3 DEF IInv, Types, SpuriousWakeup, owner, report
<1>4. CASE AddRoute
  BY <1>4, AddGrows DEF IInv, Types, AddRoute, owner, report
<1>5. CASE Destroy
  <2>1. CASE server = "none"
    BY <1>5, <2>1 DEF Destroy, owner, report
  <2>2. CASE server # "none"
    <3>1. started /\ done /\ listener # "starting" /\ server # "starting"
      BY <1>5, <2>2 DEF Destroy, IInv, Phases, Reported, Launched
    <3> QED
      BY <1>5, <2>2, <3>1 DEF Destroy, IInv, Types, owner, report
  <2> QED
    BY <2>1, <2>2
<1>6. CASE StartRegister
  BY <1>6, RegisterGrows DEF IInv, Types, StartRegister, owner, report
<1>7. CASE StartLaunch
  BY <1>7 DEF IInv, Types, StartLaunch, owner, report
<1>8. CASE Wait
  BY <1>8 DEF IInv, Types, Phases, Launched, Wait, owner, report
<1>9. CASE SetHandler
  BY <1>9 DEF IInv, Types, SetHandler, owner, report
<1>10. CASE StopReturn
  BY <1>10 DEF IInv, Types, StopReturn, owner, report
<1>11. CASE Join
  BY <1>11 DEF IInv, Types, Join, owner, report
<1>12. CASE Report
  <2>1. at \notin {"stop", "join", "gone"} /\ server = "starting" /\ started
    BY <1>12 DEF IInv, Phases, Reported, Launched, Report
  <2> QED
    BY <1>12, <2>1 DEF Report, owner, report
<1>13. CASE SetPorts
  BY <1>13 DEF SetPorts, owner, report
<1>14. CASE SetStatus
  BY <1>14 DEF SetStatus, owner, report
<1>15. CASE SetDone
  BY <1>15 DEF SetDone, owner, report
<1>16. CASE NotifyAll
  BY <1>16 DEF IInv, Types, NotifyAll, owner, report
<1>17. CASE LeaveLoop
  BY <1>17 DEF IInv, Phases, Launched, LeaveLoop, owner, report
<1>18. CASE UNCHANGED <<owner, server, report, listener>> /\ UNCHANGED routes
  BY <1>18 DEF owner, report
<1> QED
  BY <1>1, <1>2, <1>3, <1>4, <1>5, <1>6, <1>7, <1>8, <1>9, <1>10, <1>11, <1>12, <1>13, <1>14, <1>15, <1>16, <1>17, <1>18, StepCases

\* The calls' invariant holds in every state the service reaches.
LEMMA SpecCallsInv == Spec => []CallsInv
<1>1. Init => CallsInv
  BY DEF Init, CallsInv, PastStart
<1>2. IInv /\ CallsInv /\ [Next]_vars => CallsInv'
  BY CallsStep
<1> QED
  BY <1>1, <1>2, SpecIInv, PTL DEF Spec

\* A sleeping start() has the listener's notification still before it, however
\* the test of its predicate falls among the callbacks' steps.
SleeperIsWoken ==
    at = "asleep" => listener \in {"starting", "ports", "error", "done", "notify"}

\* cv.wait() in start() is never entered after the last notification.
THEOREM StartIsWoken == Spec => []SleeperIsWoken
<1>1. CallsInv => SleeperIsWoken
  BY DEF CallsInv, SleeperIsWoken
<1> QED
  BY <1>1, SpecCallsInv, PTL

\* The destructor joins a listener that returns: it has returned, or has only
\* to notify, or is in the loop of a server that was up and is stopped; the
\* listener of a failed server does not enter that loop.
JoinMeetsEnd ==
    at = "join" =>
        \/ listener = "finished"
        \/ listener = "notify" /\ server \in {"stopped", "failed"}
        \/ listener = "loop" /\ server = "stopped"

\* The destructor's join() waits for nothing but the listener's own last steps.
THEOREM JoinFindsEnd == Spec => []JoinMeetsEnd
<1>1. IInv /\ CallsInv => JoinMeetsEnd
  BY DEF IInv, Types, Phases, Launched, CallsInv, JoinMeetsEnd
<1> QED
  BY <1>1, SpecIInv, SpecCallsInv, PTL

\* A start() that answers OK although the server failed, which OkMeansUp
\* forbids and the code does, is not the first to speak of it: the one that
\* launched the server has returned the error.
FailureWasReported ==
    returned.again = "ok" /\ server = "failed" => returned.launch = "error"

\* No failure of the server stays unsaid by every start().
THEOREM FailureIsReported == Spec => []FailureWasReported
<1>1. IInv /\ CallsInv => FailureWasReported
  <2> SUFFICES ASSUME IInv, CallsInv, returned.again = "ok", server = "failed"
               PROVE  returned.launch = "error"
    BY DEF FailureWasReported
  <2>1. PastStart /\ returned.launch # "none"
    BY DEF CallsInv
  <2>2. returned.launch = status /\ done
    BY <2>1 DEF IInv, Reported
  <2>3. listener \in {"notify", "loop", "finished"}
    BY <2>2 DEF IInv, Phases, Launched
  <2> QED
    BY <2>2, <2>3 DEF IInv, Types, Reported
<1> QED
  BY <1>1, SpecIInv, SpecCallsInv, PTL

\* How many steps a server's thread has still to take for its request.
StepsToServe(w) ==
    IF w.phase = "idle" THEN 0
    ELSE IF w.phase = "answered" THEN 1
    ELSE IF w.route = 0 THEN 2
    ELSE Len(routes) - w.route + 3

\* While the destructor waits in stop() for the requests that are being served,
\* none begins, the list does not grow, and each step of a thread brings it
\* nearer to its answer.
DrainsInStop ==
    [][at = "stop" =>
        /\ routes' = routes
        /\ \A r \in Readers :
              walk'[r] # walk[r] =>
                  StepsToServe(walk[r])' < StepsToServe(walk[r])]_vars

\* The server's stop(), called by the destructor, ends with the requests it met.
THEOREM StopDrainsRequests == Spec => DrainsInStop
<1>1. ASSUME IInv, CallsInv, [Next]_vars, at = "stop"
      PROVE  /\ routes' = routes
             /\ \A r \in Readers : walk'[r] # walk[r] =>
                    StepsToServe(walk[r])' < StepsToServe(walk[r])
  <2>1. routes' = routes
    <3>1. ~StartRegister /\ ~AddRoute /\ ~SetHandler
      BY <1>1 DEF StartRegister, AddRoute, SetHandler
    <3> QED
      BY <1>1, <3>1, WhoWritesRoutes
  <2>2. ASSUME NEW r \in Readers, walk'[r] # walk[r]
        PROVE  StepsToServe(walk[r])' < StepsToServe(walk[r])
    <3>1. ~BeginRequest(r)
      BY <1>1 DEF CallsInv, BeginRequest
    <3>2. /\ walk[r] \in Walks /\ Walked(r) /\ walk \in [Readers -> Walks]
          /\ Len(routes) \in Nat
      BY <1>1 DEF IInv, Types
    <3>3. CASE TryRoute(r)
      <4> DEFINE w == walk[r]
      <4>1. w.phase = "walk" /\ w.route # 0
        BY <3>3 DEF TryRoute
      <4>2. w.route \in 1 .. Len(routes)
        BY <3>2, <4>1, WalkRecord, WebServiceAssumption DEF Walked
      <4>3. \/ walk'[r].phase = "answered"
            \/ walk'[r].phase = "walk" /\ walk'[r].route = NextRoute(w.route)
        BY <2>2, <3>2, <3>3, <4>1, WalkRecord DEF TryRoute
      <4> HIDE DEF w
      <4>4. StepsToServe(walk[r]) = Len(routes) - w.route + 3
        BY <4>1, <4>2 DEF StepsToServe, w
      <4>5. StepsToServe(walk[r])' =
                IF walk'[r].phase = "answered" THEN 1
                ELSE IF w.route < Len(routes) THEN Len(routes) - w.route + 2
                ELSE 2
        BY <2>1, <3>2, <4>2, <4>3 DEF StepsToServe, NextRoute
      <4> QED
        BY <3>2, <4>2, <4>4, <4>5
    <3>4. CASE NotFound(r)
      <4>1. /\ walk[r].phase = "walk" /\ walk[r].route = 0
            /\ walk'[r].phase = "answered"
        BY <3>2, <3>4, WalkRecord DEF NotFound
      <4> QED
        BY <4>1 DEF StepsToServe
    <3>5. CASE CompleteRequest(r)
      <4>1. walk[r].phase = "answered" /\ walk'[r] = Resting
        BY <3>2, <3>5 DEF CompleteRequest
      <4> QED
        BY <4>1 DEF StepsToServe, Resting
    <3> QED
      BY <1>1, <2>2, <3>1, <3>3, <3>4, <3>5, WhoWalks
  <2> QED
    BY <2>1, <2>2
<1> QED
  BY <1>1, SpecIInv, SpecCallsInv, PTL DEF Spec, DrainsInStop
=============================================================================
