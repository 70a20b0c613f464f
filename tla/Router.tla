------------------------------- MODULE Router -------------------------------
(***************************************************************************)
(* Router and Route (src/webservice/Router.{h,cpp}): which requests a      *)
(* route answers.                                                          *)
(*                                                                         *)
(* A path is a sequence of segments and whether a slash follows the last   *)
(* one: "/a/b/" is <<a, b>> with the slash, "/" is <<>> with it, and the   *)
(* empty string is <<>> without it.  In the path of a route a segment may  *)
(* be a parameter, ":id".  Left out: empty segments, parameters that are   *)
(* part of a segment, and characters with a meaning in regular expressions.*)
(***************************************************************************)
EXTENDS Naturals, Sequences

CONSTANTS
    Segments,   \* the literal segments
    Params,     \* the parameters
    Begins,     \* pairs of segments of which the first begins with the second
    Prefix,     \* m_prefix: <<>>, or the one segment put before every path
    Methods     \* of HTTP

ASSUME RouterAssumption ==
    /\ Segments \cap Params = {}
    /\ \A s \in Segments : <<s, s>> \in Begins
    /\ Prefix \in Seq(Segments)

RequestPaths == [segs : Seq(Segments), slash : BOOLEAN]
RoutePaths == [segs : Seq(Segments \cup Params), slash : BOOLEAN]

IsPattern(path) == \E n \in DOMAIN path.segs : path.segs[n] \in Params

\* One slash at the end is dropped, and the empty path is "/".
Strip(path) == [path EXCEPT !.slash = (path.segs = <<>>)]

\* setPath(): a path with parameters is kept as it is, any other is stripped.
SetPath(path) == IF IsPattern(path) THEN path ELSE Strip(path)

\* The path of the Route that route() makes.
WithPrefix(path) ==
    SetPath([segs |-> Prefix \o path.segs,
             slash |-> path.slash \/ path.segs = <<>>])

\* createPattenRegex() aborts when a parameter is named twice.
NamesTwice(path) ==
    \E m, n \in DOMAIN path.segs :
        m # n /\ path.segs[m] \in Params /\ path.segs[m] = path.segs[n]

\* A parameter stands for any segment, a literal for itself, or, at the end
\* of the expression, for what a segment begins with.
Fits(segment, part, last) ==
    \/ part \in Params
    \/ segment = part
    \/ last /\ <<segment, part>> \in Begins

\* regex_search(): the expression is found anywhere in the path, and its
\* slash at the end only before another segment.
Search(path, pattern) ==
    LET n == Len(pattern.segs)
    IN  \E k \in 0 .. Len(path.segs) :
          /\ IF pattern.slash THEN k + n < Len(path.segs)
                              ELSE k + n <= Len(path.segs)
          /\ \A m \in 1 .. n :
                Fits(path.segs[k + m], pattern.segs[m], m = n /\ ~pattern.slash)

Matches(route, method, path) ==
    /\ route.method = method
    /\ IF IsPattern(route.path) THEN Search(Strip(path), route.path)
                                ELSE route.path = Strip(path)

\* What the owner of a route expects it to answer: the paths it spells, with
\* any segment for a parameter, whether or not a slash follows (RouterTest);
\* but a pattern is not to end in a slash.
Spells(route, method, path) ==
    /\ route.method = method
    /\ Len(route.path.segs) = Len(path.segs)
    /\ \A n \in DOMAIN path.segs :
          route.path.segs[n] \in Params \cup {path.segs[n]}
    /\ IsPattern(route.path) => ~route.path.slash
=============================================================================
