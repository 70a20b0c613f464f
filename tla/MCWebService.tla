---------------------------- MODULE MCWebService ----------------------------
(* A small instance of WebService for TLC: exact routes and patterns that   *)
(* overlap, requests with and without a slash at the end.                  *)
EXTENDS WebService

CONSTANTS r1, r2

MCReaders == {r1, r2}
MCSegments == {"ws", "status", "a", "ab"}
MCParams == {":x"}
MCBegins == {<<s, s>> : s \in MCSegments} \cup {<<"ab", "a">>}
MCPrefix == <<"ws">>
MCPorts == {"http", "http2"}

Path(segs, slash) == [segs |-> segs, slash |-> slash]
On(method, path) == [method |-> method, path |-> path]

MCStatusPath == Path(<<"status">>, FALSE)
MCUserRoutes == {
    On("GET", Path(<<"a">>, TRUE)),
    On("GET", Path(<<":x">>, FALSE)),
    On("GET", Path(<<":x", "a">>, FALSE)),
    On("PUT", Path(<<":x", ":x">>, FALSE))}
MCRequests == {
    On("GET", Path(<<"ws">>, FALSE)),
    On("GET", Path(<<"ws", "status">>, TRUE)),
    On("GET", Path(<<"ws", "a">>, TRUE)),
    On("GET", Path(<<"a", "ws", "status", "ab">>, FALSE)),
    On(Unknown, Path(<<"ws">>, FALSE))}
=============================================================================
